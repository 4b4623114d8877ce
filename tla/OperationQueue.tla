--------------------------- MODULE OperationQueue ---------------------------
(***************************************************************************)
(* OwbClientOperationQueue: an NSMutableArray, two NSRecursiveLocks and a  *)
(* latest serial number, used by several threads.                          *)
(*                                                                         *)
(*   enqueue:        holds enqueueLocker_ around addObject                 *)
(*   dequeue         holds dequeueLocker_ around objectAtIndex:0 and       *)
(*                   removeObjectAtIndex:0                                 *)
(*   lock, unLock    take and give both; clear empties the array between   *)
(*   getServerData   asks the provider for what is newer than the latest   *)
(*                   serial number and appends the answer, with no lock    *)
(*                                                                         *)
(* The array is not thread safe: a mutation is a begin step that sees the  *)
(* array and an end step that writes the changed array back.  While two    *)
(* accesses of which one mutates overlap (Race), the outcome is either of  *)
(* the writes surviving, or the application going down.                    *)
(*                                                                         *)
(* Which thread uses which operation is a parameter.  The locks are never  *)
(* taken twice by a thread in this code, so a lock is its owner.           *)
(*                                                                         *)
(* A serial number is a uint32 of the message and an int of the client.    *)
(***************************************************************************)
EXTENDS Integers, Sequences, FiniteSets

CONSTANTS Enqueuers, Dequeuers, Clearers, Fetchers,   \* threads, by operation
          CallerOps,    \* the operations that callers of enqueue: have, as
                        \* records [id, serial]
          MaxSerial,    \* bound on the provider's log: serials 1..MaxSerial
          Half,         \* 2^31, the first serial number that is no int
          Unreadable,   \* the serials of operations of a kind this client's
                        \* message format does not know
          MaxAnswer,    \* the longest answer the transport passes (1 MB), as
                        \* a number of operations
          None          \* no thread

Threads == Enqueuers \cup Dequeuers \cup Clearers \cup Fetchers

\* uint32 serial_number read as int serialNumber_, and an int passed as uint32
AsInt(n) == IF n < Half THEN n ELSE n - 2 * Half
AsUint(i) == IF i < 0 THEN i + 2 * Half ELSE i

ServerOp(n) == [id |-> n, serial |-> AsInt(n)]
Operations == CallerOps \cup {ServerOp(n) : n \in 1 .. MaxSerial}

ASSUME QueueAssumption ==
  /\ None \notin Threads
  /\ Half \in Nat \ {0} /\ MaxSerial \in 0 .. 2 * Half - 1
  /\ MaxAnswer \in Nat /\ Unreadable \subseteq Nat
  /\ CallerOps \subseteq [id : Int, serial : -Half .. Half - 1]

VARIABLES operations_,           \* the array
          latestSerialNumber_,
          enqueueLocker_, dequeueLocker_,   \* owner of each lock, or None
          pc,                    \* where each thread is
          view,                  \* the array as the thread's mutation saw it
          arg,                   \* the operations the thread adds or removes
          asked,                 \* the serial number a fetch asked from
          fresh,                 \* the operations not enqueued yet
          published,             \* length of the provider's log
          fetched,               \* history: how often each was appended
          taken,                 \* history: operations dequeue returned
          crashed                \* an exception or a corrupted array

queueVars == <<operations_, latestSerialNumber_>>
lockVars == <<enqueueLocker_, dequeueLocker_>>
environment == <<fresh, published, fetched>>
vars == <<queueVars, lockVars, pc, view, arg, asked, environment, taken, crashed>>

Init ==
  /\ operations_ = <<>>
  /\ latestSerialNumber_ = 0
  /\ enqueueLocker_ = None
  /\ dequeueLocker_ = None
  /\ pc = [t \in Threads |-> "idle"]
  /\ view = [t \in Threads |-> <<>>]
  /\ arg = [t \in Threads |-> <<>>]
  /\ asked = [t \in Threads |-> 0]
  /\ fresh = CallerOps
  /\ published = 0
  /\ fetched = [n \in 1 .. MaxSerial |-> 0]
  /\ taken = <<>>
  /\ crashed = FALSE

Goto(t, from, to) == pc[t] = from /\ pc' = [pc EXCEPT ![t] = to]

-----------------------------------------------------------------------------
\* NSRecursiveLock
TakeEnqueueLock(t) == enqueueLocker_ = None /\ enqueueLocker_' = t

\* Mutant of TakeDequeueLock: tryLock, and on whatever it answered.
TryDequeueLock(t) == dequeueLocker_' = t
TakeDequeueLock(t) == dequeueLocker_ = None /\ dequeueLocker_' = t

\* NSMutableArray: addObject, addObjectsFromArray, removeObjectAtIndex:0
BeginMutation(t) == view' = [view EXCEPT ![t] = operations_]
Appended(t) == view[t] \o arg[t]

\* Mutant of FirstRemoved: removeLastObject.
LastRemoved(t) == SubSeq(view[t], 1, Len(view[t]) - 1)
FirstRemoved(t) == Tail(view[t])

-----------------------------------------------------------------------------
\* enqueue: takes the lock and starts to add ...
enqueue(t, o) ==
  /\ t \in Enqueuers /\ o \in fresh
  /\ Goto(t, "idle", "adding")
  /\ TakeEnqueueLock(t)
  /\ BeginMutation(t)
  /\ arg' = [arg EXCEPT ![t] = <<o>>]
  /\ fresh' = fresh \ {o}
  /\ UNCHANGED <<queueVars, dequeueLocker_, asked, published, fetched, taken, crashed>>

\* ... has added ...
enqueueAdd(t) ==
  /\ Goto(t, "adding", "added")
  /\ operations_' = Appended(t)
  /\ UNCHANGED <<latestSerialNumber_, lockVars, view, arg, asked, environment, taken, crashed>>

\* ... and notes the serial number before it gives the lock back.
enqueueEnd(t) ==
  /\ Goto(t, "added", "idle")
  /\ latestSerialNumber_' = Head(arg[t]).serial
  /\ enqueueLocker_' = None
  /\ UNCHANGED <<operations_, dequeueLocker_, view, arg, asked, environment, taken, crashed>>

-----------------------------------------------------------------------------
\* lock: first the one, then the other (for isEmpty, and for clear)
lock1(t) ==
  /\ \/ t \in Dequeuers /\ Goto(t, "idle", "check1")
     \/ t \in Clearers /\ Goto(t, "idle", "clear1")
  /\ TakeEnqueueLock(t)
  /\ UNCHANGED <<queueVars, dequeueLocker_, view, arg, asked, environment, taken, crashed>>

\* Mutant of lock2: tryLock, and the first lock given back if it fails.
lock2OrGiveUp(t) ==
  /\ IF dequeueLocker_ = None
     THEN /\ \/ Goto(t, "check1", "check2")
             \/ Goto(t, "clear1", "clearing")
          /\ dequeueLocker_' = t
          /\ UNCHANGED enqueueLocker_
     ELSE /\ pc[t] \in {"check1", "clear1"}
          /\ pc' = [pc EXCEPT ![t] = "idle"]
          /\ enqueueLocker_' = None
          /\ UNCHANGED dequeueLocker_
  /\ UNCHANGED <<queueVars, view, arg, asked, environment, taken, crashed>>

lock2(t) ==
  /\ \/ Goto(t, "check1", "check2")
     \/ Goto(t, "clear1", "clearing")
  /\ TakeDequeueLock(t)
  /\ UNCHANGED <<queueVars, enqueueLocker_, view, arg, asked, environment, taken, crashed>>

\* isEmpty between lock and unLock, then the first half of unLock
isEmpty(t) ==
  /\ Goto(t, "check2", IF operations_ = <<>> THEN "empty" ELSE "some")
  /\ enqueueLocker_' = None
  /\ UNCHANGED <<queueVars, dequeueLocker_, view, arg, asked, environment, taken, crashed>>

\* removeAllObjects between lock and unLock, then the first half of unLock
clear(t) ==
  /\ Goto(t, "clearing", "cleared")
  /\ operations_' = <<>>
  /\ enqueueLocker_' = None
  /\ UNCHANGED <<latestSerialNumber_, dequeueLocker_, view, arg, asked, environment, taken, crashed>>

\* the second half of unLock; after a check that found the queue not empty
\* the caller goes on to dequeue
unLock2(t) ==
  /\ \/ Goto(t, "empty", "idle")
     \/ Goto(t, "some", "dequeue")
     \/ Goto(t, "cleared", "idle")
  /\ dequeueLocker_' = None
  /\ UNCHANGED <<queueVars, enqueueLocker_, view, arg, asked, environment, taken, crashed>>

-----------------------------------------------------------------------------
\* dequeue: objectAtIndex:0 under the lock; it throws on an empty array
dequeue(t) ==
  /\ Goto(t, "dequeue", "head")
  /\ TakeDequeueLock(t)
  /\ IF operations_ = <<>>
     THEN crashed' = TRUE /\ UNCHANGED arg
     ELSE arg' = [arg EXCEPT ![t] = <<Head(operations_)>>] /\ UNCHANGED crashed
  /\ UNCHANGED <<queueVars, enqueueLocker_, view, asked, environment, taken>>

\* removeObjectAtIndex:0, which throws on an empty array too
dequeueRemove(t) ==
  /\ Goto(t, "head", "removing")
  /\ BeginMutation(t)
  /\ crashed' = (operations_ = <<>>)
  /\ UNCHANGED <<queueVars, lockVars, arg, asked, environment, taken>>

dequeueEnd(t) ==
  /\ Goto(t, "removing", "idle")
  /\ operations_' = FirstRemoved(t)
  /\ taken' = taken \o arg[t]
  /\ dequeueLocker_' = None
  /\ UNCHANGED <<latestSerialNumber_, enqueueLocker_, view, arg, asked, environment, crashed>>

-----------------------------------------------------------------------------
\* getServerData: the call carries the latest serial number ...
getServerData(t) ==
  /\ t \in Fetchers
  /\ Goto(t, "idle", "fetching")
  /\ asked' = [asked EXCEPT ![t] = AsUint(latestSerialNumber_)]
  /\ UNCHANGED <<queueVars, lockVars, view, arg, environment, taken, crashed>>

\* Mutant of SerialAfterNothing: what could not be had is skipped.
SkipUnread == latestSerialNumber_' = AsInt(published)
SerialAfterNothing == UNCHANGED latestSerialNumber_

\* ... the answer is an exception, "not avaliable", "load document" or an
\* empty list, and the call returns ...
getNothing(t) ==
  /\ Goto(t, "fetching", "idle")
  /\ SerialAfterNothing
  /\ UNCHANGED <<operations_, lockVars, view, arg, asked, environment, taken, crashed>>

\* An answer with the log after n passes the transport and can be read: one
\* operation that cannot be read makes ParseFromArray refuse all of it.
Answerable(n) ==
  /\ published - n =< MaxAnswer
  /\ \A m \in Unreadable : ~(n < m /\ m =< published)

\* ... or it is the log after the serial number asked from
getOperations(t) ==
  /\ asked[t] < published /\ Answerable(asked[t])
  /\ Goto(t, "fetching", "appending")
  /\ arg' = [arg EXCEPT ![t] = [i \in 1 .. published - asked[t] |-> ServerOp(asked[t] + i)]]
  /\ BeginMutation(t)
  /\ UNCHANGED <<queueVars, lockVars, asked, environment, taken, crashed>>

getServerDataAdd(t) ==
  /\ Goto(t, "appending", "appended")
  /\ operations_' = Appended(t)
  /\ fetched' = [n \in DOMAIN fetched |->
                   fetched[n] + IF n \in asked[t] + 1 .. asked[t] + Len(arg[t]) THEN 1 ELSE 0]
  /\ UNCHANGED <<latestSerialNumber_, lockVars, view, arg, asked, fresh, published, taken, crashed>>

\* Mutant of LatestFetched: firstObject.
FirstFetched(t) == Head(arg[t]).serial
\* The serial number of the lastObject of the answer.
LatestFetched(t) == arg[t][Len(arg[t])].serial

getServerDataEnd(t) ==
  /\ Goto(t, "appended", "idle")
  /\ latestSerialNumber_' = LatestFetched(t)
  /\ UNCHANGED <<operations_, lockVars, view, arg, asked, environment, taken, crashed>>

\* The provider's log grows.
publish ==
  /\ Fetchers # {} /\ published < MaxSerial
  /\ published' = published + 1
  /\ UNCHANGED <<queueVars, lockVars, pc, view, arg, asked, fresh, fetched, taken, crashed>>

-----------------------------------------------------------------------------
Mutating(t) == pc[t] \in {"adding", "removing", "clearing", "appending"}
Accessing(t) == Mutating(t) \/ pc[t] \in {"check2", "head"}

\* Two threads are in the array at once and one of them changes it.
Race == \E s, t \in Threads : s # t /\ Mutating(s) /\ Accessing(t)

corrupt ==
  /\ Race
  /\ crashed' = TRUE
  /\ UNCHANGED <<queueVars, lockVars, pc, view, arg, asked, environment, taken>>

\* The steps a thread takes once it is inside an operation.
Advance(t) ==
  \/ enqueueAdd(t) \/ enqueueEnd(t)
  \/ lock2(t) \/ isEmpty(t) \/ clear(t) \/ unLock2(t)
  \/ dequeue(t) \/ dequeueRemove(t) \/ dequeueEnd(t)
  \/ getNothing(t) \/ getOperations(t) \/ getServerDataAdd(t) \/ getServerDataEnd(t)

Start(t) == lock1(t) \/ getServerData(t) \/ \E o \in CallerOps : enqueue(t, o)

Halted == crashed /\ UNCHANGED vars

Next ==
  \/ ~crashed /\ (publish \/ corrupt \/ \E t \in Threads : Start(t) \/ Advance(t))
  \/ Halted

Spec == Init /\ [][Next]_vars

\* A thread inside an operation keeps running; nobody is made to start one.
FairSpec == Spec /\ \A t \in Threads : WF_vars(~crashed /\ Advance(t))

-----------------------------------------------------------------------------
Places == {"idle", "adding", "added", "check1", "check2", "empty", "some",
           "dequeue", "head", "removing", "clear1", "clearing", "cleared",
           "fetching", "appending", "appended"}

\* Every variable stays in its range.
TypeOK ==
  /\ operations_ \in Seq(Operations)
  /\ latestSerialNumber_ \in -Half .. Half - 1
  /\ enqueueLocker_ \in Threads \cup {None}
  /\ dequeueLocker_ \in Threads \cup {None}
  /\ pc \in [Threads -> Places]
  /\ view \in [Threads -> Seq(Operations)]
  /\ arg \in [Threads -> Seq(Operations)]
  /\ asked \in [Threads -> 0 .. 2 * Half - 1]
  /\ fresh \subseteq CallerOps
  /\ published \in 0 .. MaxSerial
  /\ fetched \in [1 .. MaxSerial -> Nat]
  /\ taken \in Seq(Operations)
  /\ crashed \in BOOLEAN

\* The places at which a thread owns each lock.
HoldsEnqueue(t) == pc[t] \in {"adding", "added", "check1", "check2", "clear1", "clearing"}
HoldsDequeue(t) ==
  pc[t] \in {"check2", "empty", "some", "head", "removing", "clearing", "cleared"}

\* What the two locks are worth: threads meet in the array only when one of
\* them is getServerData, which takes no lock, or when one is in enqueue: and
\* the other in dequeue, which take different ones.  clear, isEmpty, a second
\* enqueue: and a second dequeue never meet anyone else.
RaceOnlyAcrossLocks ==
  \A s, t \in Threads :
    s # t /\ Mutating(s) /\ Accessing(t) =>
      \/ "appending" \in {pc[s], pc[t]}
      \/ {pc[s], pc[t]} \in {{"adding", "head"}, {"adding", "removing"}}

\* The use BoardModel makes of realOperationQueue_ (one thread enqueues and
\* dequeues, others only clear) never has two threads in the array.
NoRace == ~Race

\* The serial number of the operation added last: enqueue: notes it after the
\* operation is in the array.
LatestAdded ==
  IF \E t \in Threads : pc[t] = "added"
  THEN Head(arg[CHOOSE t \in Threads : pc[t] = "added"]).serial
  ELSE latestSerialNumber_

\* With that use the queue implements FifoQueue: no operation is lost,
\* duplicated or reordered, and outside enqueue: the latest serial number is
\* that of the operation added last, even if it has been taken or cleared.
Fifo == INSTANCE FifoQueue
  WITH items <- operations_, taken <- taken, latest <- LatestAdded
FifoSpec == Fifo!Spec

\* The use of the queue that holds what the server sends, when one thread
\* fetches and takes and nobody enqueues or clears: every operation of the
\* provider's log comes out exactly once and in the order of the log, whatever
\* calls fail and however the log grows between them, and the next call asks
\* from the last operation received.
FetchedExactlyOnce ==
  /\ \A k \in 1 .. Len(taken) + Len(operations_) : (taken \o operations_)[k] = ServerOp(k)
  /\ (\A t \in Threads : pc[t] # "appended") =>
       latestSerialNumber_ = AsInt(Len(taken) + Len(operations_))

\* Every operation created on this device (serial number 0) that is enqueued
\* makes the next call ask for the whole log again, and nothing else does: an
\* operation of the log is appended at most once more than there were such
\* calls of enqueue:, whoever dequeues and clears meanwhile.
RepeatedOnlyByReset ==
  (\E f \in Fetchers : Fetchers = {f}) =>
    \A n \in 1 .. MaxSerial : fetched[n] =< 1 + Cardinality(CallerOps \ fresh)

\* What is to come is too long to be answered, or has an operation in it that
\* cannot be read.
Stuck ==
  /\ \A t \in Threads : pc[t] \notin {"appending", "appended"}
  /\ ~Answerable(AsUint(latestSerialNumber_))

\* Nothing is skipped: once the rest of the log is too long for one answer, or
\* has an operation in it that cannot be read, the client asks for that rest
\* for ever and gets none of it, the readable operations included.
StuckStays == [][Stuck => Stuck']_vars

\* A thread that got the first of the two locks gets the second: no dequeue
\* can hold the second for ever, as each one comes after a check that needs
\* the first.
SecondLockGranted ==
  \A t \in Threads :
    pc[t] \in {"check1", "clear1"} ~> pc[t] \in {"check2", "clearing"} \/ crashed
=============================================================================
