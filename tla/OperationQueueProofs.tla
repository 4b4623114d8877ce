------------------------ MODULE OperationQueueProofs ------------------------
(***************************************************************************)
(* Proofs about OwbClientOperationQueue, for any threads in any roles.     *)
(* What the two locks are worth follows from who owns them (LockInv): a    *)
(* place in the code decides which locks its thread owns.  With the roles  *)
(* as BoardModel assigns them (Confined) nobody is left to race with, and  *)
(* what a mutation saw is still there when it ends, so that the queue is a *)
(* FifoQueue.                                                              *)
(***************************************************************************)
EXTENDS OperationQueue, FiniteSetTheorems, TLAPS

\* The ownership of the locks is where the threads are.
LockInv ==
  /\ pc \in [Threads -> Places]
  /\ \A t \in Threads : HoldsEnqueue(t) <=> enqueueLocker_ = t
  /\ \A t \in Threads : HoldsDequeue(t) <=> dequeueLocker_ = t

LEMMA LockInvInit == Init => LockInv
BY QueueAssumption DEF Init, LockInv, Places, HoldsEnqueue, HoldsDequeue

LEMMA LockInvStart ==
  ASSUME LockInv, NEW t \in Threads, Start(t)
  PROVE  LockInv'
<1> USE QueueAssumption DEF LockInv, Places, HoldsEnqueue, HoldsDequeue, Goto
<1>1. CASE lock1(t)
  BY <1>1 DEF lock1, TakeEnqueueLock
<1>2. CASE getServerData(t)
  BY <1>2 DEF getServerData, lockVars
<1>3. ASSUME NEW o \in CallerOps, enqueue(t, o) PROVE LockInv'
  BY <1>3 DEF enqueue, TakeEnqueueLock
<1> QED
  BY <1>1, <1>2, <1>3 DEF Start

LEMMA LockInvAdvance ==
  ASSUME LockInv, NEW t \in Threads, Advance(t)
  PROVE  LockInv'
<1> USE QueueAssumption DEF LockInv, Places, HoldsEnqueue, HoldsDequeue, Goto
<1>1. CASE enqueueAdd(t)
  BY <1>1 DEF enqueueAdd, lockVars
<1>2. CASE enqueueEnd(t)
  BY <1>2 DEF enqueueEnd
<1>3. CASE lock2(t)
  BY <1>3 DEF lock2, TakeDequeueLock
<1>4. CASE isEmpty(t)
  BY <1>4 DEF isEmpty
<1>5. CASE clear(t)
  BY <1>5 DEF clear
<1>6. CASE unLock2(t)
  BY <1>6 DEF unLock2
<1>7. CASE dequeue(t)
  BY <1>7 DEF dequeue, TakeDequeueLock
<1>8. CASE dequeueRemove(t)
  BY <1>8 DEF dequeueRemove, lockVars
<1>9. CASE dequeueEnd(t)
  BY <1>9 DEF dequeueEnd
<1>10. CASE getNothing(t)
  BY <1>10 DEF getNothing, lockVars
<1>11. CASE getOperations(t)
  BY <1>11 DEF getOperations, lockVars
<1>12. CASE getServerDataAdd(t)
  BY <1>12 DEF getServerDataAdd, lockVars
<1>13. CASE getServerDataEnd(t)
  BY <1>13 DEF getServerDataEnd, lockVars
<1> QED
  BY <1>1, <1>2, <1>3, <1>4, <1>5, <1>6, <1>7, <1>8, <1>9, <1>10, <1>11,
     <1>12, <1>13 DEF Advance

LEMMA LockInvNext == LockInv /\ [Next]_vars => LockInv'
<1> SUFFICES ASSUME LockInv, [Next]_vars PROVE LockInv'
  OBVIOUS
<1>1. ASSUME NEW t \in Threads, Start(t) PROVE LockInv'
  BY <1>1, LockInvStart
<1>2. ASSUME NEW t \in Threads, Advance(t) PROVE LockInv'
  BY <1>2, LockInvAdvance
<1>3. CASE UNCHANGED <<lockVars, pc>>
  BY <1>3 DEF LockInv, HoldsEnqueue, HoldsDequeue, lockVars
<1>4. publish \/ corrupt \/ Halted \/ UNCHANGED vars => UNCHANGED <<lockVars, pc>>
  BY DEF publish, corrupt, Halted, vars
<1> QED
  BY <1>1, <1>2, <1>3, <1>4 DEF Next

LEMMA LockInvHolds == Spec => []LockInv
BY LockInvInit, LockInvNext, PTL DEF Spec

\* Threads meet in the array only in getServerData, or one in enqueue: and
\* the other in dequeue, whatever threads use the queue.
THEOREM LocksExclude == Spec => []RaceOnlyAcrossLocks
<1>1. LockInv => RaceOnlyAcrossLocks
  <2> SUFFICES ASSUME LockInv, NEW s \in Threads, NEW t \in Threads,
                      s # t, Mutating(s), Accessing(t)
               PROVE  \/ "appending" \in {pc[s], pc[t]}
                      \/ {pc[s], pc[t]} \in {{"adding", "head"}, {"adding", "removing"}}
    BY DEF RaceOnlyAcrossLocks
  <2>1. ~(HoldsEnqueue(s) /\ HoldsEnqueue(t)) /\ ~(HoldsDequeue(s) /\ HoldsDequeue(t))
    BY DEF LockInv
  <2>2. CASE pc[s] = "adding"
    <3>1. pc[t] \in {"removing", "appending", "head"}
      BY <2>1, <2>2 DEF Mutating, Accessing, HoldsEnqueue
    <3> QED
      BY <2>2, <3>1
  <2>3. CASE pc[s] = "removing"
    <3>1. pc[t] \in {"adding", "appending"}
      BY <2>1, <2>3 DEF Mutating, Accessing, HoldsDequeue
    <3> QED
      BY <2>3, <3>1
  <2>4. CASE pc[s] = "clearing"
    BY <2>1, <2>4 DEF Mutating, Accessing, HoldsEnqueue, HoldsDequeue
  <2>5. CASE pc[s] = "appending"
    BY <2>5
  <2> QED
    BY <2>2, <2>3, <2>4, <2>5 DEF Mutating
<1> QED
  BY <1>1, LockInvHolds, PTL

-----------------------------------------------------------------------------
\* A thread is inside the operations of its roles only.
RoleInv ==
  \A t \in Threads :
    /\ pc[t] \in {"adding", "added"} => t \in Enqueuers
    /\ pc[t] \in {"check1", "check2", "empty", "some", "dequeue", "head", "removing"}
         => t \in Dequeuers
    /\ pc[t] \in {"fetching", "appending", "appended"} => t \in Fetchers

LEMMA RoleInvNext == LockInv /\ RoleInv /\ [Next]_vars => RoleInv'
<1> SUFFICES ASSUME LockInv, RoleInv, [Next]_vars PROVE RoleInv'
  OBVIOUS
<1>1. ASSUME NEW t \in Threads, Start(t) PROVE RoleInv'
  BY <1>1 DEF LockInv, RoleInv, Start, Goto, lock1, getServerData, enqueue
<1>2. ASSUME NEW t \in Threads, Advance(t) PROVE RoleInv'
  BY <1>2 DEF LockInv, RoleInv, Advance, Goto, enqueueAdd, enqueueEnd, lock2,
     isEmpty, clear, unLock2, dequeue, dequeueRemove, dequeueEnd, getNothing,
     getOperations, getServerDataAdd, getServerDataEnd
<1>3. publish \/ corrupt \/ Halted \/ UNCHANGED vars => UNCHANGED pc
  BY DEF publish, corrupt, Halted, vars
<1>4. CASE UNCHANGED pc
  BY <1>4 DEF RoleInv
<1> QED
  BY <1>1, <1>2, <1>3, <1>4 DEF Next

LEMMA RoleInvHolds == Spec => [](LockInv /\ RoleInv)
<1>1. Init => RoleInv
  BY DEF Init, RoleInv
<1> QED
  BY <1>1, LockInvInit, LockInvNext, RoleInvNext, PTL DEF Spec

\* The use BoardModel makes of realOperationQueue_: one thread enqueues and
\* dequeues, nobody fetches, anybody clears.
Confined ==
  /\ Fetchers = {}
  /\ \A s, t \in Enqueuers \cup Dequeuers : s = t

LEMMA ConfinedNoRace == ASSUME Confined PROVE LockInv /\ RoleInv => NoRace
<1> SUFFICES ASSUME LockInv, RoleInv, NEW s \in Threads, NEW t \in Threads,
                    s # t, Mutating(s), Accessing(t)
             PROVE  FALSE
  BY DEF NoRace, Race
<1>1. ~(HoldsEnqueue(s) /\ HoldsEnqueue(t)) /\ ~(HoldsDequeue(s) /\ HoldsDequeue(t))
  BY DEF LockInv
<1>2. pc[s] # "appending" /\ pc[t] # "appending"
  BY DEF Confined, RoleInv
<1>3. CASE pc[s] = "clearing"
  BY <1>1, <1>2, <1>3 DEF Mutating, Accessing, HoldsEnqueue, HoldsDequeue
<1>4. CASE pc[t] \in {"clearing", "check2"}
  BY <1>1, <1>2, <1>4 DEF Mutating, HoldsEnqueue, HoldsDequeue
<1>5. CASE pc[s] # "clearing" /\ pc[t] \notin {"clearing", "check2"}
  <2>1. s \in Enqueuers \cup Dequeuers
    BY <1>2, <1>5 DEF Mutating, RoleInv
  <2>2. t \in Enqueuers \cup Dequeuers
    BY <1>2, <1>5 DEF Mutating, Accessing, RoleInv
  <2> QED
    BY <2>1, <2>2 DEF Confined
<1> QED
  BY <1>3, <1>4, <1>5

\* Used as BoardModel uses realOperationQueue_, the queue never has two
\* threads in the array, however many threads clear it.
THEOREM ConfinedIsRaceFree == ASSUME Confined PROVE Spec => []NoRace
BY ConfinedNoRace, RoleInvHolds, PTL

-----------------------------------------------------------------------------
\* What threads carry between the steps of an operation: enqueue: one
\* operation, getServerData a list that is not empty, and a removal that
\* found nothing to remove has brought the application down.
ArgAt(t) ==
  /\ pc[t] \in {"adding", "added"} => \E o \in CallerOps : arg[t] = <<o>>
  /\ pc[t] \in {"appending", "appended"} => arg[t] # <<>>
  /\ pc[t] = "removing" /\ ~crashed => view[t] # <<>>
ArgInv == \A t \in Threads : ArgAt(t)

TypeInv == TypeOK /\ ArgInv

\* What a serial number becomes as an int, and passed back as a uint32.
LEMMA SerialsConvert ==
  /\ \A n \in 0 .. MaxSerial : AsInt(n) \in -Half .. Half - 1 /\ AsUint(AsInt(n)) = n
  /\ \A i \in -Half .. Half - 1 : AsUint(i) \in 0 .. 2 * Half - 1
BY QueueAssumption DEF AsInt, AsUint

\* The serial numbers of an answer are those of the log.
LEMMA AnswerSerials ==
  ASSUME NEW a \in Nat, NEW p \in 0 .. MaxSerial, a < p
  PROVE  p - a \in Nat /\ \A i \in 1 .. p - a : a + i \in 1 .. MaxSerial
<1>1. MaxSerial \in Nat
  BY QueueAssumption
<1> QED
  BY <1>1

LEMMA SerialsAreInts ==
  /\ \A o \in Operations : o.serial \in -Half .. Half - 1
  /\ CallerOps \subseteq Operations
  /\ \A n \in 1 .. MaxSerial : ServerOp(n) \in Operations
<1>1. \A o \in CallerOps : o.serial \in -Half .. Half - 1
  BY QueueAssumption
<1>2. \A n \in 1 .. MaxSerial : ServerOp(n).serial \in -Half .. Half - 1
  BY QueueAssumption, SerialsConvert DEF ServerOp
<1> QED
  BY <1>1, <1>2 DEF Operations

LEMMA TypeInvInit == Init => TypeInv
<1> SUFFICES ASSUME Init PROVE TypeInv
  OBVIOUS
<1>1. <<>> \in Seq(Operations)
  OBVIOUS
<1>2. view \in [Threads -> Seq(Operations)] /\ arg \in [Threads -> Seq(Operations)]
  BY <1>1 DEF Init
<1>3. operations_ \in Seq(Operations) /\ taken \in Seq(Operations)
  BY <1>1 DEF Init
<1>4. pc \in [Threads -> Places] /\ asked \in [Threads -> 0 .. 2 * Half - 1]
  BY QueueAssumption DEF Init, Places
<1>5. TypeOK
  <2>1. published \in 0 .. MaxSerial /\ fetched \in [1 .. MaxSerial -> Nat]
    BY QueueAssumption DEF Init
  <2>2. latestSerialNumber_ \in -Half .. Half - 1 /\ crashed \in BOOLEAN /\ fresh \subseteq CallerOps
    <3>1. latestSerialNumber_ = 0 /\ crashed = FALSE /\ fresh = CallerOps
      BY DEF Init
    <3>2. Half \in Nat /\ Half > 0
      BY QueueAssumption
    <3>3. 0 \in -Half .. Half - 1
      BY <3>2
    <3> QED
      BY <3>1, <3>3
  <2>3. enqueueLocker_ \in Threads \cup {None} /\ dequeueLocker_ \in Threads \cup {None}
    BY DEF Init
  <2> QED
    BY <1>2, <1>3, <1>4, <2>1, <2>2, <2>3 DEF TypeOK
<1>6. ArgInv
  BY DEF Init, ArgInv, ArgAt
<1> QED
  BY <1>5, <1>6 DEF TypeInv

\* A step of one thread leaves what the others carry alone.
Others(t) ==
  \A u \in Threads : u # t => /\ pc'[u] = pc[u]
                              /\ arg'[u] = arg[u]
                              /\ view'[u] = view[u]

LEMMA ArgFrame ==
  ASSUME ArgInv, ~crashed, NEW t \in Threads, Others(t), ArgAt(t)'
  PROVE  ArgInv'
<1> SUFFICES ASSUME NEW u \in Threads, u # t PROVE ArgAt(u)'
  BY DEF ArgInv
<1>1. pc'[u] = pc[u] /\ arg'[u] = arg[u] /\ view'[u] = view[u] /\ ArgAt(u)
  BY DEF ArgInv, Others
<1> QED
  BY <1>1 DEF ArgAt

LEMMA OthersKeep ==
  ASSUME TypeOK, NEW t \in Threads, Start(t) \/ Advance(t)
  PROVE  Others(t)
<1> USE DEF TypeOK, Others, Goto
<1>1. CASE Start(t)
  BY <1>1 DEF Start, lock1, getServerData, enqueue, BeginMutation
<1>2. CASE Advance(t)
  BY <1>2 DEF Advance, enqueueAdd, enqueueEnd, lock2, isEmpty, clear, unLock2,
     dequeue, dequeueRemove, dequeueEnd, getNothing, getOperations,
     getServerDataAdd, getServerDataEnd, BeginMutation
<1> QED
  BY <1>1, <1>2

LEMMA TypeStart ==
  ASSUME TypeOK, NEW t \in Threads, Start(t)
  PROVE  TypeOK'
<1> USE QueueAssumption DEF TypeOK, Places, Goto
<1>1. CASE lock1(t)
  BY <1>1 DEF lock1, TakeEnqueueLock, queueVars, environment
<1>2. CASE getServerData(t)
  <2>1. AsUint(latestSerialNumber_) \in 0 .. 2 * Half - 1
    BY SerialsConvert
  <2> QED
    BY <1>2, <2>1 DEF getServerData, queueVars, lockVars, environment
<1>3. ASSUME NEW o \in CallerOps, enqueue(t, o) PROVE TypeOK'
  <2>1. <<o>> \in Seq(Operations)
    BY SerialsAreInts
  <2>2. arg' \in [Threads -> Seq(Operations)] /\ view' \in [Threads -> Seq(Operations)]
    BY <1>3, <2>1 DEF enqueue, BeginMutation
  <2> QED
    BY <1>3, <2>2 DEF enqueue, TakeEnqueueLock, queueVars
<1> QED
  BY <1>1, <1>2, <1>3 DEF Start

LEMMA TypeAdvance ==
  ASSUME TypeInv, ~crashed, NEW t \in Threads, Advance(t)
  PROVE  TypeOK'
<1> TypeOK /\ ArgAt(t)
  BY DEF TypeInv, ArgInv
<1> USE QueueAssumption DEF TypeOK, ArgAt, Places, Goto, queueVars, lockVars, environment
<1>1. CASE enqueueAdd(t)
  <2>1. Appended(t) \in Seq(Operations)
    BY DEF Appended
  <2> QED
    BY <1>1, <2>1 DEF enqueueAdd
<1>2. CASE enqueueEnd(t)
  <2>1. Head(arg[t]).serial \in -Half .. Half - 1
    BY <1>2, SerialsAreInts DEF enqueueEnd
  <2> QED
    BY <1>2, <2>1 DEF enqueueEnd
<1>3. CASE lock2(t)
  BY <1>3 DEF lock2, TakeDequeueLock
<1>4. CASE isEmpty(t)
  BY <1>4 DEF isEmpty
<1>5. CASE clear(t)
  BY <1>5 DEF clear
<1>6. CASE unLock2(t)
  BY <1>6 DEF unLock2
<1>7. CASE dequeue(t)
  <2>1. CASE operations_ = <<>>
    BY <1>7, <2>1 DEF dequeue, TakeDequeueLock
  <2>2. CASE operations_ # <<>>
    <3>1. Head(operations_) \in Operations
      BY <2>2
    <3>2. <<Head(operations_)>> \in Seq(Operations)
      BY <3>1
    <3>3. arg' = [arg EXCEPT ![t] = <<Head(operations_)>>]
      BY <1>7, <2>2 DEF dequeue
    <3>4. arg' \in [Threads -> Seq(Operations)]
      BY <3>2, <3>3
    <3> QED
      BY <1>7, <2>2, <3>4 DEF dequeue, TakeDequeueLock
  <2> QED
    BY <2>1, <2>2
<1>8. CASE dequeueRemove(t)
  BY <1>8 DEF dequeueRemove, BeginMutation
<1>9. CASE dequeueEnd(t)
  <2>1. FirstRemoved(t) \in Seq(Operations)
    BY <1>9 DEF dequeueEnd, FirstRemoved
  <2>2. taken' \in Seq(Operations)
    BY <1>9 DEF dequeueEnd
  <2> QED
    BY <1>9, <2>1, <2>2 DEF dequeueEnd
<1>10. CASE getNothing(t)
  BY <1>10 DEF getNothing, SerialAfterNothing
<1>11. CASE getOperations(t)
  <2> DEFINE n == published - asked[t]
             answer == [i \in 1 .. n |-> ServerOp(asked[t] + i)]
  <2>1. n \in Nat /\ \A i \in 1 .. n : ServerOp(asked[t] + i) \in Operations
    <3>1. asked[t] \in Nat /\ published \in 0 .. MaxSerial /\ asked[t] < published
      BY <1>11, QueueAssumption DEF getOperations
    <3>2. n \in Nat /\ \A i \in 1 .. n : asked[t] + i \in 1 .. MaxSerial
      BY <3>1, AnswerSerials
    <3> QED
      BY <3>2, SerialsAreInts
  <2>2. answer \in Seq(Operations)
    <3> HIDE DEF n
    <3> QED
      BY <2>1
  <2>3. arg' = [arg EXCEPT ![t] = answer]
    BY <1>11 DEF getOperations
  <2> HIDE DEF answer
  <2>4. arg' \in [Threads -> Seq(Operations)] /\ view' \in [Threads -> Seq(Operations)]
    BY <1>11, <2>2, <2>3 DEF getOperations, BeginMutation
  <2> QED
    BY <1>11, <2>4 DEF getOperations
<1>12. CASE getServerDataAdd(t)
  <2>1. Appended(t) \in Seq(Operations)
    BY DEF Appended
  <2> QED
    BY <1>12, <2>1 DEF getServerDataAdd
<1>13. CASE getServerDataEnd(t)
  <2>1. arg[t][Len(arg[t])] \in Operations
    BY <1>13 DEF getServerDataEnd
  <2> QED
    BY <1>13, <2>1, SerialsAreInts DEF getServerDataEnd, LatestFetched
<1> QED
  BY <1>1, <1>2, <1>3, <1>4, <1>5, <1>6, <1>7, <1>8, <1>9, <1>10, <1>11,
     <1>12, <1>13 DEF Advance

\* What the acting thread carries after its step.
LEMMA ArgStep ==
  ASSUME TypeInv, ~crashed, NEW t \in Threads, Start(t) \/ Advance(t)
  PROVE  ArgAt(t)'
<1> TypeOK /\ ArgAt(t)
  BY DEF TypeInv, ArgInv
<1> USE DEF TypeOK, ArgAt, Goto
<1>1. ASSUME NEW o \in CallerOps, enqueue(t, o) PROVE ArgAt(t)'
  BY <1>1 DEF enqueue
<1>2. CASE enqueueAdd(t)
  BY <1>2 DEF enqueueAdd
<1>3. CASE dequeueRemove(t)
  BY <1>3 DEF dequeueRemove, BeginMutation
<1>4. CASE getOperations(t)
  <2> DEFINE n == published - asked[t]
             answer == [i \in 1 .. n |-> ServerOp(asked[t] + i)]
  <2>0. asked[t] < published
    BY <1>4 DEF getOperations
  <2>1. n \in Nat \ {0}
    <3>1. asked[t] \in 0 .. 2 * Half - 1 /\ published \in 0 .. MaxSerial
      OBVIOUS
    <3>2. asked[t] \in Int /\ published \in Int
      BY <3>1, QueueAssumption
    <3> HIDE DEF TypeOK, ArgAt, Goto
    <3> QED
      BY <2>0, <3>2
  <2>2. 1 \in DOMAIN answer /\ DOMAIN <<>> = {}
    BY <2>1
  <2>3. answer # <<>>
    BY <2>2
  <2>4. arg' = [arg EXCEPT ![t] = answer] /\ pc'[t] = "appending"
    BY <1>4 DEF getOperations
  <2> HIDE DEF answer
  <2> QED
    BY <2>3, <2>4
<1>5. CASE getServerDataAdd(t)
  BY <1>5 DEF getServerDataAdd
<1>6. CASE pc'[t] \notin {"adding", "added", "appending", "appended", "removing"}
  BY <1>6
<1>7. CASE \/ lock1(t) \/ getServerData(t) \/ enqueueEnd(t) \/ lock2(t) \/ isEmpty(t)
           \/ clear(t) \/ unLock2(t) \/ dequeue(t) \/ dequeueEnd(t)
           \/ getNothing(t) \/ getServerDataEnd(t)
  BY <1>6, <1>7 DEF lock1, getServerData, enqueueEnd, lock2, isEmpty, clear,
     unLock2, dequeue, dequeueEnd, getNothing, getServerDataEnd
<1> QED
  BY <1>1, <1>2, <1>3, <1>4, <1>5, <1>7 DEF Start, Advance

LEMMA TypeInvNext == TypeInv /\ [Next]_vars => TypeInv'
<1> SUFFICES ASSUME TypeInv, [Next]_vars PROVE TypeInv'
  OBVIOUS
<1> TypeOK /\ ArgInv
  BY DEF TypeInv
<1>1. CASE ~crashed /\ publish
  BY <1>1, QueueAssumption DEF publish, TypeInv, TypeOK, ArgInv, ArgAt, queueVars, lockVars
<1>2. CASE ~crashed /\ corrupt
  BY <1>2 DEF corrupt, TypeInv, TypeOK, ArgInv, ArgAt, queueVars, lockVars, environment
<1>3. ASSUME ~crashed, NEW t \in Threads, Start(t) \/ Advance(t) PROVE TypeInv'
  <2>1. TypeOK'
    BY <1>3, TypeStart, TypeAdvance
  <2>2. ArgInv'
    BY <1>3, OthersKeep, ArgStep, ArgFrame
  <2> QED
    BY <2>1, <2>2 DEF TypeInv
<1>4. CASE UNCHANGED vars
  BY <1>4 DEF vars, TypeInv, TypeOK, ArgInv, ArgAt, queueVars, lockVars, environment
<1> QED
  BY <1>1, <1>2, <1>3, <1>4 DEF Next, Halted

LEMMA TypeInvHolds == Spec => []TypeInv
BY TypeInvInit, TypeInvNext, PTL DEF Spec

\* Every variable of the queue stays in its range, for any threads, any
\* operations of the callers and any log of the provider.
THEOREM TypeCorrect == Spec => []TypeOK
<1>1. TypeInv => TypeOK
  BY DEF TypeInv
<1> QED
  BY <1>1, TypeInvHolds, PTL

-----------------------------------------------------------------------------
\* With one thread that enqueues and dequeues, the array is still what a
\* mutation saw, and its first operation is the one a dequeue holds.
DataAt(t) ==
  /\ pc[t] = "adding" => view[t] = operations_
  /\ pc[t] \in {"head", "removing"} => operations_ # <<>> /\ arg[t] = <<Head(operations_)>>
  /\ pc[t] = "removing" => view[t] = operations_
DataInv == ~crashed => \A t \in Threads : DataAt(t)

\* The inductive invariant of the confined queue.
ConfinedInv == LockInv /\ RoleInv /\ TypeInv /\ DataInv

\* A step that changes the array is a mutation's end, and nobody else is in
\* the array then.
LEMMA AloneInTheArray ==
  ASSUME Confined, ConfinedInv, NEW t \in Threads, Start(t) \/ Advance(t),
         operations_' # operations_, NEW u \in Threads, u # t
  PROVE  ~Accessing(u)
<1>1. Mutating(t)
  BY DEF Start, Advance, Goto, Mutating, lock1, getServerData, enqueue, enqueueAdd,
     enqueueEnd, lock2, isEmpty, clear, unLock2, dequeue, dequeueRemove, dequeueEnd,
     getNothing, getOperations, getServerDataAdd, getServerDataEnd, queueVars
<1>2. NoRace
  BY ConfinedNoRace DEF ConfinedInv
<1> QED
  BY <1>1, <1>2 DEF NoRace, Race

LEMMA DataStep ==
  ASSUME Confined, ConfinedInv, ~crashed, NEW t \in Threads, Start(t) \/ Advance(t)
  PROVE  DataInv'
<1> SUFFICES ASSUME ~crashed', NEW u \in Threads PROVE DataAt(u)'
  BY DEF DataInv
<1> TypeOK /\ DataAt(t) /\ DataAt(u)
  BY DEF ConfinedInv, TypeInv, DataInv
<1>1. CASE u # t
  <2>1. pc'[u] = pc[u] /\ arg'[u] = arg[u] /\ view'[u] = view[u]
    BY <1>1, OthersKeep DEF Others
  <2>2. CASE operations_' = operations_
    BY <2>1, <2>2 DEF DataAt
  <2>3. CASE operations_' # operations_
    <3>1. ~Accessing(u)
      BY <1>1, <2>3, AloneInTheArray
    <3> QED
      BY <2>1, <3>1 DEF DataAt, Accessing, Mutating
  <2> QED
    BY <2>2, <2>3
<1>2. CASE u = t
  <2> USE DEF TypeOK, Goto, DataAt
  <2>1. ASSUME NEW o \in CallerOps, enqueue(t, o) PROVE DataAt(t)'
    BY <2>1 DEF enqueue, BeginMutation, queueVars
  <2>2. CASE dequeue(t)
    <3>1. operations_ # <<>> /\ operations_' = operations_
      BY <2>2 DEF dequeue, queueVars
    <3>2. pc'[t] = "head" /\ arg'[t] = <<Head(operations_)>>
      BY <2>2, <3>1 DEF dequeue
    <3> QED
      BY <1>2, <3>1, <3>2
  <2>3. CASE dequeueRemove(t)
    BY <1>2, <2>3 DEF dequeueRemove, BeginMutation, queueVars
  <2>4. CASE \/ lock1(t) \/ getServerData(t) \/ enqueueAdd(t) \/ enqueueEnd(t)
             \/ lock2(t) \/ isEmpty(t) \/ clear(t) \/ unLock2(t) \/ dequeueEnd(t)
             \/ getNothing(t) \/ getOperations(t) \/ getServerDataAdd(t)
             \/ getServerDataEnd(t)
    <3>1. pc'[t] \notin {"adding", "head", "removing"}
      BY <2>4 DEF lock1, getServerData, enqueueAdd, enqueueEnd, lock2, isEmpty, clear,
         unLock2, dequeueEnd, getNothing, getOperations, getServerDataAdd,
         getServerDataEnd
    <3> QED
      BY <1>2, <3>1
  <2> QED
    BY <1>2, <2>1, <2>2, <2>3, <2>4 DEF Start, Advance
<1> QED
  BY <1>1, <1>2

LEMMA ConfinedInvNext ==
  ASSUME Confined PROVE ConfinedInv /\ [Next]_vars => ConfinedInv'
<1> SUFFICES ASSUME ConfinedInv, [Next]_vars PROVE ConfinedInv'
  OBVIOUS
<1>1. LockInv' /\ RoleInv' /\ TypeInv'
  BY LockInvNext, RoleInvNext, TypeInvNext DEF ConfinedInv
<1>2. DataInv'
  <2>1. ASSUME ~crashed, NEW t \in Threads, Start(t) \/ Advance(t) PROVE DataInv'
    BY <2>1, DataStep
  <2>2. CASE UNCHANGED <<operations_, pc, view, arg, crashed>>
    BY <2>2 DEF ConfinedInv, DataInv, DataAt
  <2>3. publish \/ Halted \/ UNCHANGED vars => UNCHANGED <<operations_, pc, view, arg, crashed>>
    BY DEF publish, Halted, vars, queueVars
  <2>4. CASE corrupt
    BY <2>4 DEF corrupt, DataInv
  <2> QED
    BY <2>1, <2>2, <2>3, <2>4 DEF Next
<1> QED
  BY <1>1, <1>2 DEF ConfinedInv

LEMMA ConfinedInvHolds == ASSUME Confined PROVE Spec => []ConfinedInv
<1>1. Init => ConfinedInv
  <2>1. Init => DataInv
    BY DEF Init, DataInv, DataAt
  <2>2. Init => RoleInv
    BY DEF Init, RoleInv
  <2> QED
    BY <2>1, <2>2, LockInvInit, TypeInvInit DEF ConfinedInv
<1> QED
  BY <1>1, ConfinedInvNext, PTL DEF Spec

-----------------------------------------------------------------------------
\* At most one thread is about to note a serial number.
LEMMA LatestIsAdded ==
  ASSUME LockInv, NEW t \in Threads, pc[t] = "added"
  PROVE  LatestAdded = Head(arg[t]).serial
<1>1. \A u \in Threads : pc[u] = "added" => u = t
  BY DEF LockInv, HoldsEnqueue
<1> QED
  BY <1>1 DEF LatestAdded

LEMMA LatestIsNoted ==
  ASSUME \A t \in Threads : pc[t] # "added"
  PROVE  LatestAdded = latestSerialNumber_
BY DEF LatestAdded

\* A step that neither adds an operation nor notes a serial number.
LEMMA LatestFrame ==
  ASSUME LockInv, LockInv', latestSerialNumber_' = latestSerialNumber_,
         \A u \in Threads : pc'[u] = "added" <=> pc[u] = "added",
         \A u \in Threads : pc[u] = "added" => arg'[u] = arg[u]
  PROVE  LatestAdded' = LatestAdded
<1>1. ASSUME NEW t \in Threads, pc[t] = "added" PROVE LatestAdded' = LatestAdded
  <2>1. LatestAdded = Head(arg[t]).serial
    BY <1>1, LatestIsAdded
  <2>2. \A u \in Threads : pc'[u] = "added" => u = t
    BY <1>1 DEF LockInv, HoldsEnqueue
  <2>3. LatestAdded' = Head(arg'[t]).serial
    BY <1>1, <2>2 DEF LatestAdded
  <2> QED
    BY <1>1, <2>1, <2>3
<1>2. CASE \A t \in Threads : pc[t] # "added"
  BY <1>2 DEF LatestAdded
<1> QED
  BY <1>1, <1>2

LEMMA AddIsPut ==
  ASSUME Confined, ConfinedInv, ConfinedInv', ~crashed,
         NEW t \in Threads, enqueueAdd(t)
  PROVE  \E o \in Operations : Fifo!Put(o)
<1> TypeOK
  BY DEF ConfinedInv, TypeInv
<1>1. pc[t] = "adding" /\ pc'[t] = "added" /\ arg' = arg /\ taken' = taken
  BY DEF enqueueAdd, Goto, TypeOK
<1>2. PICK o \in CallerOps : arg[t] = <<o>>
  BY <1>1 DEF ConfinedInv, TypeInv, ArgInv, ArgAt
<1>3. view[t] = operations_
  BY <1>1 DEF ConfinedInv, DataInv, DataAt
<1>4. operations_' = Append(operations_, o)
  <2>1. operations_' = operations_ \o <<o>>
    BY <1>2, <1>3 DEF enqueueAdd, Appended
  <2>2. operations_ \in Seq(Operations) /\ o \in Operations
    BY SerialsAreInts DEF TypeOK
  <2> QED
    BY <2>1, <2>2
<1>5. LatestAdded' = o.serial
  <2>1. \A u \in Threads : pc'[u] = "added" => u = t
    BY <1>1 DEF ConfinedInv, LockInv, HoldsEnqueue
  <2>2. LatestAdded' = Head(arg'[t]).serial
    BY <1>1, <2>1 DEF LatestAdded
  <2> QED
    BY <1>1, <1>2, <2>2
<1> QED
  BY <1>1, <1>4, <1>5, SerialsAreInts DEF Fifo!Put

LEMMA EndIsStutter ==
  ASSUME ConfinedInv, ConfinedInv', NEW t \in Threads, enqueueEnd(t)
  PROVE  UNCHANGED <<operations_, taken, LatestAdded>>
<1> TypeOK
  BY DEF ConfinedInv, TypeInv
<1>1. pc[t] = "added" /\ pc' = [pc EXCEPT ![t] = "idle"]
  BY DEF enqueueEnd, Goto
<1>2. LatestAdded = Head(arg[t]).serial
  BY <1>1, LatestIsAdded DEF ConfinedInv
<1>3. \A u \in Threads : pc'[u] # "added"
  BY <1>1 DEF ConfinedInv, LockInv, HoldsEnqueue
<1>4. LatestAdded' = latestSerialNumber_'
  BY <1>3 DEF LatestAdded
<1> QED
  BY <1>2, <1>4 DEF enqueueEnd

LEMMA ClearIsDiscard ==
  ASSUME ConfinedInv, ConfinedInv', NEW t \in Threads, clear(t)
  PROVE  Fifo!Discard
<1> TypeOK
  BY DEF ConfinedInv, TypeInv
<1>1. LatestAdded' = LatestAdded
  BY LatestFrame DEF ConfinedInv, clear, Goto, TypeOK
<1> QED
  BY <1>1 DEF clear, Fifo!Discard

LEMMA RemoveIsTake ==
  ASSUME ConfinedInv, ConfinedInv', ~crashed, NEW t \in Threads, dequeueEnd(t)
  PROVE  Fifo!Take
<1> TypeOK
  BY DEF ConfinedInv, TypeInv
<1>1. LatestAdded' = LatestAdded
  BY LatestFrame DEF ConfinedInv, dequeueEnd, Goto, TypeOK
<1>2. /\ view[t] = operations_
      /\ operations_ # <<>>
      /\ arg[t] = <<Head(operations_)>>
  BY DEF ConfinedInv, DataInv, DataAt, dequeueEnd, Goto
<1>3. operations_' = Tail(operations_)
  BY <1>2 DEF dequeueEnd, FirstRemoved
<1>4. taken' = Append(taken, Head(operations_))
  <2>1. taken' = taken \o <<Head(operations_)>>
    BY <1>2 DEF dequeueEnd
  <2>2. Head(operations_) \in Operations /\ taken \in Seq(Operations)
    BY <1>2 DEF TypeOK
  <2> QED
    BY <2>1, <2>2
<1> QED
  BY <1>1, <1>2, <1>3, <1>4 DEF Fifo!Take

\* The steps that are none of the queue's promises.
LEMMA OtherIsStutter ==
  ASSUME Confined, ConfinedInv, ConfinedInv', NEW t \in Threads,
         \/ lock1(t) \/ getServerData(t) \/ lock2(t) \/ isEmpty(t) \/ unLock2(t)
         \/ dequeue(t) \/ dequeueRemove(t) \/ getNothing(t) \/ getOperations(t)
         \/ getServerDataAdd(t) \/ getServerDataEnd(t)
         \/ \E o \in CallerOps : enqueue(t, o)
  PROVE  UNCHANGED <<operations_, taken, LatestAdded>>
<1> TypeOK /\ Fetchers = {}
  BY DEF ConfinedInv, TypeInv, Confined
<1> USE DEF Goto, TypeOK, queueVars
<1>1. ~(\/ getServerData(t) \/ getNothing(t) \/ getOperations(t)
        \/ getServerDataAdd(t) \/ getServerDataEnd(t))
  BY DEF ConfinedInv, RoleInv, getServerData, getNothing, getOperations,
     getServerDataAdd, getServerDataEnd
<1>2. UNCHANGED <<operations_, taken, latestSerialNumber_>>
  BY <1>1 DEF lock1, lock2, isEmpty, unLock2, dequeue, dequeueRemove, enqueue
<1>3. pc[t] # "added" /\ pc'[t] # "added"
  BY <1>1 DEF lock1, lock2, isEmpty, unLock2, dequeue, dequeueRemove, enqueue
<1>4. Others(t)
  BY OthersKeep DEF Start, Advance
<1>5. LatestAdded' = LatestAdded
  BY <1>2, <1>3, <1>4, LatestFrame DEF ConfinedInv, Others
<1> QED
  BY <1>2, <1>5

\* Used as BoardModel uses realOperationQueue_, the queue implements the
\* abstract FIFO queue: nothing is lost, duplicated or reordered except by
\* clear, and the serial number is that of the operation added last.
THEOREM ConfinedImplementsFifo == ASSUME Confined PROVE Spec => FifoSpec
<1> DEFINE mapped == <<operations_, taken, LatestAdded>>
<1>1. Init => Fifo!Init
  BY DEF Init, Fifo!Init, LatestAdded
<1>2. ConfinedInv /\ ConfinedInv' /\ [Next]_vars => [Fifo!Next]_mapped
  <2> SUFFICES ASSUME ConfinedInv, ConfinedInv', [Next]_vars PROVE [Fifo!Next]_mapped
    OBVIOUS
  <2>1. ASSUME ~crashed, NEW t \in Threads, enqueueAdd(t) PROVE Fifo!Next
    BY <2>1, AddIsPut DEF Fifo!Next
  <2>2. ASSUME NEW t \in Threads, enqueueEnd(t) PROVE UNCHANGED mapped
    BY <2>2, EndIsStutter
  <2>3. ASSUME NEW t \in Threads, clear(t) PROVE Fifo!Next
    BY <2>3, ClearIsDiscard DEF Fifo!Next
  <2>4. ASSUME ~crashed, NEW t \in Threads, dequeueEnd(t) PROVE Fifo!Next
    BY <2>4, RemoveIsTake DEF Fifo!Next
  <2>5. ASSUME ~crashed, NEW t \in Threads, Start(t) \/ Advance(t) PROVE [Fifo!Next]_mapped
    BY <2>1, <2>2, <2>3, <2>4, <2>5, OtherIsStutter DEF Start, Advance
  <2>6. CASE UNCHANGED <<queueVars, pc, arg, taken>>
    BY <2>6 DEF queueVars, LatestAdded
  <2>7. publish \/ corrupt \/ Halted \/ UNCHANGED vars => UNCHANGED <<queueVars, pc, arg, taken>>
    BY DEF publish, corrupt, Halted, vars
  <2> QED
    BY <2>5, <2>6, <2>7 DEF Next
<1> QED
  BY <1>1, <1>2, ConfinedInvHolds, PTL DEF Spec, FifoSpec, Fifo!Spec, Fifo!fifoVars

-----------------------------------------------------------------------------
(***************************************************************************)
(* The queue that holds what the server sends: one thread fetches and      *)
(* takes, nobody enqueues or clears.                                       *)
(***************************************************************************)
Polled ==
  /\ Enqueuers = {} /\ Clearers = {}
  /\ \E t : Threads = {t}

\* Taken and waiting operations are the provider's log from its start.
LogInv ==
  /\ \A k \in 1 .. Len(taken) : taken[k] = ServerOp(k)
  /\ \A k \in 1 .. Len(operations_) : operations_[k] = ServerOp(Len(taken) + k)

Received == Len(taken) + Len(operations_)

\* What the thread carries fits the queue, as nobody else changes it.
PolledAt(t) ==
  /\ pc[t] \notin {"adding", "added", "clear1", "clearing", "cleared"}
  /\ pc[t] \in {"head", "removing"} /\ ~crashed =>
       operations_ # <<>> /\ arg[t] = <<Head(operations_)>>
  /\ pc[t] \in {"removing", "appending"} => view[t] = operations_
  /\ pc[t] \in {"fetching", "appending"} => asked[t] = Received
  /\ pc[t] = "appending" =>
       /\ arg[t] # <<>> /\ Received + Len(arg[t]) =< published
       /\ \A k \in 1 .. Len(arg[t]) : arg[t][k] = ServerOp(Received + k)
  /\ pc[t] = "appended" => arg[t] # <<>> /\ LatestFetched(t) = AsInt(Received)
  /\ pc[t] # "appended" => latestSerialNumber_ = AsInt(Received)
  /\ Received =< published

PolledInv == TypeOK /\ LogInv /\ \A t \in Threads : PolledAt(t)

LEMMA PolledInit == ASSUME Polled PROVE Init => LogInv /\ \A t \in Threads : PolledAt(t)
BY QueueAssumption DEF Init, LogInv, PolledAt, Received, AsInt

\* The invariant after a step of the one thread.
LEMMA PolledStep ==
  ASSUME Polled, PolledInv, ~crashed, NEW t \in Threads, Start(t) \/ Advance(t)
  PROVE  LogInv' /\ PolledAt(t)'
<1> TypeOK /\ LogInv /\ PolledAt(t)
  BY DEF PolledInv
<1> /\ operations_ \in Seq(Operations) /\ taken \in Seq(Operations)
    /\ pc \in [Threads -> Places] /\ view \in [Threads -> Seq(Operations)]
    /\ arg \in [Threads -> Seq(Operations)] /\ asked \in [Threads -> Nat]
    /\ published \in 0 .. MaxSerial /\ published \in Nat /\ Received \in Nat
  BY QueueAssumption DEF TypeOK, Received
<1>1. CASE UNCHANGED <<operations_, taken, latestSerialNumber_, crashed, view, arg, published>>
           /\ pc'[t] \in {"idle", "check1", "check2", "empty", "some", "dequeue"}
           /\ pc[t] # "appended"
  BY <1>1 DEF LogInv, PolledAt, Received
<1>2. CASE lock1(t) \/ lock2(t) \/ isEmpty(t) \/ unLock2(t)
  <2>1. t \notin Clearers
    BY DEF Polled
  <2> QED
    BY <1>1, <1>2, <2>1 DEF lock1, lock2, isEmpty, unLock2, queueVars, environment, Goto, PolledAt
<1>3. ASSUME NEW o \in CallerOps, enqueue(t, o) PROVE FALSE
  BY <1>3 DEF Polled, enqueue
<1>4. CASE enqueueAdd(t) \/ enqueueEnd(t) \/ clear(t)
  BY <1>4 DEF PolledAt, enqueueAdd, enqueueEnd, clear, Goto
<1>5. CASE dequeue(t)
  BY <1>5 DEF dequeue, Goto, LogInv, PolledAt, Received, queueVars, environment
<1>6. CASE dequeueRemove(t)
  BY <1>6 DEF dequeueRemove, BeginMutation, Goto, LogInv, PolledAt, Received, queueVars, environment
<1>7. CASE dequeueEnd(t)
  <2>1. /\ operations_ # <<>> /\ operations_' = Tail(operations_)
        /\ taken' = taken \o <<Head(operations_)>>
        /\ pc'[t] = "idle" /\ latestSerialNumber_ = AsInt(Received) /\ Received =< published
        /\ UNCHANGED <<latestSerialNumber_, asked, arg, view, crashed, published>>
    BY <1>7 DEF dequeueEnd, Goto, PolledAt, FirstRemoved, environment
  <2>2. PICK m \in Nat : m = Len(taken)
    OBVIOUS
  <2>3. PICK n \in Nat : n = Len(operations_) /\ n > 0
    BY <2>1
  <2>4. Len(taken') = m + 1 /\ Len(operations_') = n - 1
    BY <2>1, <2>2, <2>3
  <2>5. operations_[1] = ServerOp(m + 1) /\ taken'[m + 1] = operations_[1]
    BY <2>1, <2>2, <2>3 DEF LogInv
  <2>6. \A k \in 1 .. m : taken'[k] = taken[k]
    BY <2>1, <2>2
  <2>7. \A k \in 1 .. n - 1 : operations_'[k] = operations_[k + 1]
    BY <2>1, <2>3
  <2>8. LogInv'
    <3>1. \A k \in 1 .. m + 1 : taken'[k] = ServerOp(k)
      <4>1. \A k \in 1 .. m : taken'[k] = ServerOp(k)
        BY <2>2, <2>6 DEF LogInv
      <4>2. \A k \in 1 .. m + 1 : k \in 1 .. m \/ k = m + 1
        BY <2>2
      <4> QED
        BY <2>5, <4>1, <4>2
    <3>2. \A k \in 1 .. n - 1 : k + 1 \in 1 .. n /\ m + (k + 1) = (m + 1) + k
      BY <2>2, <2>3
    <3>3. \A k \in 1 .. n - 1 : operations_'[k] = ServerOp((m + 1) + k)
      BY <2>2, <2>3, <2>7, <3>2 DEF LogInv
    <3> QED
      BY <2>4, <3>1, <3>3 DEF LogInv, ServerOp
  <2>9. Received' = Received
    BY <2>2, <2>3, <2>4 DEF Received
  <2> QED
    BY <2>1, <2>8, <2>9 DEF PolledAt
<1>8. CASE getServerData(t)
  <2>1. /\ pc[t] = "idle" /\ pc'[t] = "fetching"
        /\ asked'[t] = AsUint(latestSerialNumber_)
        /\ UNCHANGED <<operations_, taken, latestSerialNumber_, crashed, view, arg, published>>
    BY <1>8 DEF getServerData, Goto, queueVars, environment
  <2>2. Received \in Nat /\ Received =< published /\ latestSerialNumber_ = AsInt(Received)
    BY <2>1 DEF PolledAt
  <2>4. Received \in 0 .. MaxSerial
    BY <2>2, QueueAssumption
  <2>3. asked'[t] = Received
    BY <2>1, <2>2, <2>4, SerialsConvert
  <2> QED
    BY <2>1, <2>3 DEF LogInv, PolledAt, Received
<1>9. CASE getNothing(t)
  BY <1>1, <1>9 DEF getNothing, SerialAfterNothing, Goto, environment
<1>10. CASE getOperations(t)
  <2> DEFINE n == published - asked[t]
             answer == [i \in 1 .. n |-> ServerOp(asked[t] + i)]
  <2>1. /\ n \in Nat \ {0} /\ asked[t] = Received
        /\ latestSerialNumber_ = AsInt(Received) /\ Received + n = published
    BY <1>10 DEF getOperations, Goto, PolledAt
  <2>2. Len(answer) = n /\ \A k \in 1 .. n : answer[k] = ServerOp(Received + k)
    BY <2>1
  <2>3. answer # <<>>
    <3>1. 1 \in DOMAIN answer /\ DOMAIN <<>> = {}
      BY <2>1
    <3> QED
      BY <3>1
  <2>4. /\ arg'[t] = answer /\ view'[t] = operations_ /\ pc'[t] = "appending"
        /\ UNCHANGED <<operations_, taken, latestSerialNumber_, asked, crashed, published>>
    BY <1>10 DEF getOperations, Goto, BeginMutation, queueVars, environment
  <2>5. Received' = Received
    BY <2>4 DEF Received
  <2>6. LogInv'
    BY <2>4 DEF LogInv
  <2> HIDE DEF answer, n
  <2> QED
    BY <2>1, <2>2, <2>3, <2>4, <2>5, <2>6 DEF PolledAt
<1>11. CASE getServerDataAdd(t)
  <2>1. /\ operations_' = operations_ \o arg[t] /\ arg[t] # <<>>
        /\ pc'[t] = "appended" /\ Received + Len(arg[t]) =< published
        /\ \A k \in 1 .. Len(arg[t]) : arg[t][k] = ServerOp(Received + k)
        /\ UNCHANGED <<taken, latestSerialNumber_, arg, published>>
    BY <1>11 DEF getServerDataAdd, Goto, PolledAt, Appended
  <2>2. PICK m \in Nat, n \in Nat, l \in Nat :
          m = Len(taken) /\ n = Len(operations_) /\ l = Len(arg[t]) /\ l > 0
    BY <2>1
  <2>3. Len(operations_') = n + l
    BY <2>1, <2>2
  <2>4. \A k \in 1 .. n : operations_'[k] = ServerOp(m + k)
    BY <2>1, <2>2 DEF LogInv
  <2>5. \A k \in 1 .. l : operations_'[n + k] = ServerOp(m + (n + k))
    <3>1. \A k \in 1 .. l : operations_'[n + k] = arg[t][k]
      BY <2>1, <2>2
    <3>2. \A k \in 1 .. l : Received + k = m + (n + k)
      BY <2>1, <2>2 DEF Received
    <3> QED
      BY <2>1, <2>2, <3>1, <3>2
  <2>6. \A k \in 1 .. n + l : operations_'[k] = ServerOp(m + k)
    <3> SUFFICES ASSUME NEW k \in 1 .. n + l PROVE operations_'[k] = ServerOp(m + k)
      OBVIOUS
    <3>1. CASE k =< n
      BY <2>4, <3>1
    <3>2. CASE k > n
      <4>1. k - n \in 1 .. l /\ n + (k - n) = k
        BY <2>2, <3>2
      <4> QED
        BY <2>5, <4>1
    <3> QED
      BY <3>1, <3>2
  <2>7. LogInv'
    BY <2>1, <2>2, <2>3, <2>6 DEF LogInv, ServerOp
  <2>8. Received' = Received + l /\ Received' =< published'
    BY <2>1, <2>2, <2>3 DEF Received
  <2>9. LatestFetched(t)' = AsInt(Received')
    <3>1. arg'[t][l] = ServerOp(Received + l)
      BY <2>1, <2>2
    <3>2. LatestFetched(t)' = AsInt(Received + l)
      BY <2>1, <2>2, <3>1 DEF LatestFetched, ServerOp
    <3> QED
      BY <2>8, <3>2
  <2> QED
    BY <2>1, <2>7, <2>8, <2>9 DEF PolledAt
<1>12. CASE getServerDataEnd(t)
  BY <1>12 DEF getServerDataEnd, Goto, LogInv, PolledAt, Received, environment
<1> QED
  BY <1>2, <1>3, <1>4, <1>5, <1>6, <1>7, <1>8, <1>9, <1>10, <1>11, <1>12
     DEF Start, Advance

LEMMA PolledNext == ASSUME Polled PROVE PolledInv /\ TypeOK' /\ [Next]_vars => PolledInv'
<1> SUFFICES ASSUME PolledInv, TypeOK', [Next]_vars PROVE PolledInv'
  OBVIOUS
<1>1. ASSUME ~crashed, NEW t \in Threads, Start(t) \/ Advance(t) PROVE PolledInv'
  <2>1. LogInv' /\ PolledAt(t)'
    BY <1>1, PolledStep
  <2>2. \A s \in Threads : s = t
    BY DEF Polled
  <2> QED
    BY <2>1, <2>2 DEF PolledInv
<1>2. CASE publish \/ UNCHANGED vars
  <2>1. /\ UNCHANGED <<operations_, taken, latestSerialNumber_, crashed, view, arg, asked, pc>>
        /\ published =< published'
    BY <1>2 DEF publish, vars, queueVars, environment, PolledInv, TypeOK
  <2>2. Received \in Nat /\ Received' = Received /\ published \in Nat /\ published' \in Nat
    BY <2>1, QueueAssumption DEF Received, PolledInv, TypeOK
  <2>3. LogInv'
    BY <2>1 DEF LogInv, PolledInv
  <2>4. ASSUME NEW t \in Threads PROVE PolledAt(t)'
    <3>1. Len(arg[t]) \in Nat
      BY DEF PolledInv, TypeOK
    <3>2. Received =< published => Received' =< published'
      BY <2>1, <2>2
    <3>3. Received + Len(arg[t]) =< published => Received' + Len(arg[t]) =< published'
      BY <2>1, <2>2, <3>1
    <3>4. LatestFetched(t)' = LatestFetched(t) /\ PolledAt(t)
      BY <2>1 DEF LatestFetched, PolledInv
    <3> HIDE DEF Received, LatestFetched
    <3> QED
      BY <2>1, <2>2, <3>2, <3>3, <3>4 DEF PolledAt
  <2> QED
    BY <2>3, <2>4 DEF PolledInv
<1>3. ~corrupt
  BY DEF corrupt, Race, Polled
<1> QED
  BY <1>1, <1>2, <1>3 DEF Next, Halted

\* With one polling thread every operation of the provider comes out once and
\* in order, and the next fetch starts after the last one received, however
\* long the log is and whatever calls fail.
THEOREM PolledOnce == ASSUME Polled PROVE Spec => []FetchedExactlyOnce
<1>1. PolledInv => FetchedExactlyOnce
  <2> SUFFICES ASSUME PolledInv PROVE FetchedExactlyOnce
    OBVIOUS
  <2>1. PICK m \in Nat, n \in Nat : m = Len(taken) /\ n = Len(operations_)
    BY DEF PolledInv, TypeOK
  <2>2. \A k \in 1 .. m + n : (taken \o operations_)[k] = ServerOp(k)
    <3> SUFFICES ASSUME NEW k \in 1 .. m + n PROVE (taken \o operations_)[k] = ServerOp(k)
      OBVIOUS
    <3> taken \in Seq(Operations) /\ operations_ \in Seq(Operations)
      BY DEF PolledInv, TypeOK
    <3>1. CASE k =< m
      BY <2>1, <3>1 DEF PolledInv, LogInv
    <3>2. CASE k > m
      <4>1. k - m \in 1 .. n /\ m + (k - m) = k
        BY <2>1, <3>2
      <4>2. (taken \o operations_)[k] = operations_[k - m]
        BY <2>1, <3>2
      <4>3. \A i \in 1 .. n : operations_[i] = ServerOp(m + i)
        BY <2>1 DEF PolledInv, LogInv
      <4>4. operations_[k - m] = ServerOp(m + (k - m))
        BY <4>1, <4>3
      <4> QED
        BY <4>1, <4>2, <4>4
    <3> QED
      BY <2>1, <3>1, <3>2
  <2>3. (\A t \in Threads : pc[t] # "appended") => latestSerialNumber_ = AsInt(m + n)
    BY <2>1 DEF PolledInv, PolledAt, Received, Polled
  <2> QED
    BY <2>1, <2>2, <2>3 DEF FetchedExactlyOnce
<1> QED
  BY <1>1, PolledInit, PolledNext, TypeCorrect, PTL DEF Spec, PolledInv

\* A rest of the log that cannot be answered cannot be answered when it is
\* longer either.
LEMMA UnanswerableStays ==
  ASSUME NEW n \in Int, NEW p \in Int, NEW q \in Int,
         published = p, published' = q, p =< q, ~Answerable(n)
  PROVE  ~Answerable(n)'
<1>1. CASE ~(p - n =< MaxAnswer)
  <2>1. ~(q - n =< MaxAnswer)
    BY <1>1, QueueAssumption
  <2> QED
    BY <2>1 DEF Answerable
<1>2. CASE ~(\A m \in Unreadable : ~(n < m /\ m =< p))
  <2>1. PICK m \in Unreadable : n < m /\ m =< p
    BY <1>2
  <2>2. m =< q
    BY <2>1, QueueAssumption
  <2> QED
    BY <2>1, <2>2 DEF Answerable
<1> QED
  BY <1>1, <1>2 DEF Answerable

\* The polling thread never gets past a rest of the log that is too long for
\* an answer or that has an operation in it that it cannot read.
THEOREM NothingIsSkipped == ASSUME Polled PROVE Spec => StuckStays
<1>1. ASSUME PolledInv, TypeOK', [Next]_vars, Stuck PROVE Stuck'
  <2>1. /\ published \in 0 .. MaxSerial /\ published' \in 0 .. MaxSerial
        /\ published \in Int /\ published' \in Int /\ published =< published'
    BY <1>1, QueueAssumption
       DEF PolledInv, TypeOK, Next, Halted, publish, corrupt, Start, Advance, vars, environment,
           enqueue, lock1, getServerData, enqueueAdd, enqueueEnd, lock2, isEmpty, clear, unLock2,
           dequeue, dequeueRemove, dequeueEnd, getNothing, getOperations, getServerDataAdd,
           getServerDataEnd
  <2>2. ASSUME NEW t \in Threads PROVE latestSerialNumber_ = AsInt(Received) /\ Received \in 0 .. MaxSerial
    <3>1. pc[t] # "appended" /\ PolledAt(t) /\ Received \in Nat
      BY <1>1 DEF Stuck, PolledInv, TypeOK, Received
    <3>2. Received =< published /\ latestSerialNumber_ = AsInt(Received)
      BY <3>1 DEF PolledAt
    <3> QED
      BY <2>1, <3>1, <3>2, QueueAssumption
  <2>3. ASSUME NEW t \in Threads, getOperations(t) PROVE FALSE
    <3>1. asked[t] = Received
      BY <1>1, <2>3 DEF PolledInv, PolledAt, getOperations, Goto
    <3>2. AsUint(latestSerialNumber_) = Received
      BY <2>2, SerialsConvert
    <3> QED
      BY <1>1, <2>3, <3>1, <3>2 DEF Stuck, getOperations
  <2>4. UNCHANGED latestSerialNumber_ /\ \A t \in Threads : pc'[t] \notin {"appending", "appended"}
    <3>1. CASE publish \/ corrupt \/ UNCHANGED vars
      BY <1>1, <3>1 DEF publish, corrupt, vars, queueVars, Stuck
    <3>2. ASSUME NEW t \in Threads, Start(t) \/ Advance(t)
          PROVE  UNCHANGED latestSerialNumber_ /\ pc'[t] \notin {"appending", "appended"}
      <4>1. pc[t] \notin {"appending", "appended", "added", "adding"} /\ pc \in [Threads -> Places]
        BY <1>1 DEF Stuck, PolledInv, PolledAt, TypeOK
      <4>2. ~(\E o \in CallerOps : enqueue(t, o))
        BY DEF Polled, enqueue
      <4> QED
        BY <2>3, <3>2, <4>1, <4>2
           DEF Start, Advance, Goto, queueVars, lock1, getServerData, enqueueAdd, enqueueEnd,
               lock2, isEmpty, clear, unLock2, dequeue, dequeueRemove, dequeueEnd, getNothing,
               SerialAfterNothing, getServerDataAdd, getServerDataEnd
    <3>3. \A s, t \in Threads : s = t
      BY DEF Polled
    <3> QED
      BY <1>1, <3>1, <3>2, <3>3 DEF Next, Halted
  <2>5. AsUint(latestSerialNumber_) \in Int
    BY <1>1, SerialsConvert, QueueAssumption DEF PolledInv, TypeOK
  <2>6. ~Answerable(AsUint(latestSerialNumber_))'
    BY <1>1, <2>1, <2>4, <2>5, UnanswerableStays, QueueAssumption DEF Stuck
  <2> QED
    BY <2>4, <2>6 DEF Stuck
<1>2. PolledInv /\ TypeOK' /\ [Next]_vars => [Stuck => Stuck']_vars
  BY <1>1
<1> QED
  BY <1>2, PolledInit, PolledNext, TypeCorrect, PTL DEF Spec, PolledInv, StuckStays
-----------------------------------------------------------------------------
(***************************************************************************)
(* The queue used by anybody, with one thread that fetches: what makes it  *)
(* ask for an operation again is that enqueue: noted a serial number.      *)
(***************************************************************************)
UpTo(t) == asked[t] + Len(arg[t])

\* The answer a thread appends ends with the operation UpTo of the log.
AnswerAt(t) ==
  pc[t] \in {"appending", "appended"} =>
    UpTo(t) \in 1 .. MaxSerial /\ Len(arg[t]) > 0 /\ LatestFetched(t) = AsInt(UpTo(t))
AnswerInv == \A t \in Threads : AnswerAt(t)

\* Calls of enqueue: that have noted their serial number; at most one has
\* begun and has not.
Enqueuing == \E t \in Threads : pc[t] \in {"adding", "added"}
Resets == Cardinality(CallerOps \ fresh) - (IF Enqueuing THEN 1 ELSE 0)

\* The thread f may append operation n with no further reset.
ToCome(f, n) ==
  CASE pc[f] = "fetching" -> asked[f] < n \/ AsUint(latestSerialNumber_) < n
    [] pc[f] = "appending" -> asked[f] < n
    [] pc[f] = "appended" -> UpTo(f) < n
    [] OTHER -> AsUint(latestSerialNumber_) < n

Times(f, n) == fetched[n] + (IF ToCome(f, n) THEN 1 ELSE 0)
RepeatInv(f) ==
  /\ IsFiniteSet(CallerOps \ fresh) /\ Resets \in Nat
  /\ \A n \in 1 .. MaxSerial : Times(f, n) =< 1 + Resets

LEMMA AnswerInvNext == TypeInv /\ AnswerInv /\ [Next]_vars => AnswerInv'
<1> SUFFICES ASSUME TypeInv, AnswerInv, [Next]_vars PROVE AnswerInv'
  OBVIOUS
<1> TypeOK
  BY DEF TypeInv
<1>1. ASSUME NEW t \in Threads, Start(t) \/ Advance(t), ~crashed PROVE AnswerAt(t)'
  <2>1. CASE getOperations(t)
    <3> DEFINE a == asked[t]
               n == published - a
               answer == [i \in 1 .. n |-> ServerOp(a + i)]
    <3>1. /\ arg' = [arg EXCEPT ![t] = answer] /\ asked' = asked /\ a < published
          /\ a \in Nat /\ published \in 0 .. MaxSerial /\ MaxSerial \in Nat
      BY <2>1, QueueAssumption DEF getOperations, TypeOK
    <3>2. n \in Nat /\ n > 0 /\ a + n = published
      BY <3>1
    <3>3. arg'[t] = answer
      BY <3>1 DEF TypeOK
    <3>4. Len(answer) = n /\ answer[n] = ServerOp(a + n)
      BY <3>2
    <3> HIDE DEF answer, n
    <3>5. UpTo(t)' = published /\ LatestFetched(t)' = ServerOp(published).serial /\ Len(arg'[t]) = n
      BY <3>1, <3>2, <3>3, <3>4 DEF UpTo, LatestFetched
    <3>6. published \in 1 .. MaxSerial
      BY <3>1
    <3> QED
      BY <3>2, <3>5, <3>6 DEF AnswerAt, ServerOp
  <2>2. CASE getServerDataAdd(t)
    <3>1. pc[t] = "appending" /\ arg' = arg /\ asked' = asked /\ AnswerAt(t)
      BY <2>2 DEF getServerDataAdd, Goto, AnswerInv
    <3> QED
      BY <3>1 DEF AnswerAt, UpTo, LatestFetched
  <2>3. CASE ~getOperations(t) /\ ~getServerDataAdd(t)
    <3>1. pc'[t] \notin {"appending", "appended"}
      BY <1>1, <2>3 DEF Start, Advance, Goto, TypeOK, lock1, getServerData, enqueue, enqueueAdd,
         enqueueEnd, lock2, isEmpty, clear, unLock2, dequeue, dequeueRemove, dequeueEnd,
         getNothing, getServerDataEnd
    <3> QED
      BY <3>1 DEF AnswerAt
  <2> QED
    BY <2>1, <2>2, <2>3
<1>2. ASSUME NEW t \in Threads, Start(t) \/ Advance(t), ~crashed PROVE AnswerInv'
  <2> SUFFICES ASSUME NEW u \in Threads, u # t PROVE AnswerAt(u)'
    BY <1>1, <1>2 DEF AnswerInv
  <2>1. pc'[u] = pc[u] /\ arg'[u] = arg[u]
    BY <1>2, OthersKeep DEF Others
  <2>2. asked'[u] = asked[u]
    BY <1>2 DEF TypeOK, Start, Advance, lock1, getServerData, enqueue, enqueueAdd,
       enqueueEnd, lock2, isEmpty, clear, unLock2, dequeue, dequeueRemove, dequeueEnd,
       getNothing, getOperations, getServerDataAdd, getServerDataEnd
  <2>3. AnswerAt(u)
    BY DEF AnswerInv
  <2> QED
    BY <2>1, <2>2, <2>3 DEF AnswerAt, UpTo, LatestFetched
<1>3. CASE UNCHANGED <<pc, arg, asked>>
  BY <1>3 DEF AnswerInv, AnswerAt, UpTo, LatestFetched
<1>4. publish \/ corrupt \/ Halted \/ UNCHANGED vars => UNCHANGED <<pc, arg, asked>>
  BY DEF publish, corrupt, Halted, vars
<1> QED
  BY <1>2, <1>3, <1>4 DEF Next

LEMMA ResetsKept ==
  ASSUME NEW t \in Threads, Others(t), fresh' = fresh,
         pc'[t] \in {"adding", "added"} <=> pc[t] \in {"adding", "added"}
  PROVE  Resets' = Resets
<1>1. \A u \in Threads : pc'[u] \in {"adding", "added"} <=> pc[u] \in {"adding", "added"}
  BY DEF Others
<1>2. Enqueuing' <=> Enqueuing
  BY <1>1 DEF Enqueuing
<1> HIDE DEF Enqueuing
<1> QED
  BY <1>2 DEF Resets

\* A step after which f has no more to append, and no more is noted.
LEMMA RepeatKept ==
  ASSUME TypeOK, NEW f, RepeatInv(f), UNCHANGED <<fresh, fetched>>, Resets' = Resets,
         \A n \in 1 .. MaxSerial : ToCome(f, n)' => ToCome(f, n)
  PROVE  RepeatInv(f)'
<1>1. \A n \in 1 .. MaxSerial : fetched[n] \in Nat
  BY DEF TypeOK
<1> HIDE DEF ToCome, Resets
<1>2. \A n \in 1 .. MaxSerial : Times(f, n)' =< 1 + Resets'
  <2> SUFFICES ASSUME NEW n \in 1 .. MaxSerial PROVE Times(f, n)' =< 1 + Resets'
    OBVIOUS
  <2>1. Times(f, n) =< 1 + Resets /\ Resets \in Nat
    BY DEF RepeatInv
  <2>2. fetched'[n] = fetched[n] /\ fetched[n] \in Nat
    BY <1>1
  <2>3. CASE ToCome(f, n)
    BY <2>1, <2>2, <2>3 DEF Times
  <2>4. CASE ~ToCome(f, n)
    <3>1. ~ToCome(f, n)'
      BY <2>4
    <3> QED
      BY <2>1, <2>2, <2>4, <3>1 DEF Times
  <2> QED
    BY <2>3, <2>4
<1>3. IsFiniteSet(CallerOps \ fresh') /\ Resets' \in Nat
  BY DEF RepeatInv
<1> QED
  BY <1>2, <1>3 DEF RepeatInv

\* enqueue: begins when nobody else is in it.
LEMMA EnqueueRepeats ==
  ASSUME TypeOK, LockInv, NEW f \in Threads, RepeatInv(f),
         NEW t \in Threads, NEW o \in CallerOps, enqueue(t, o)
  PROVE  RepeatInv(f)'
<1>1. /\ o \in fresh /\ fresh' = fresh \ {o} /\ pc[t] = "idle" /\ pc' = [pc EXCEPT ![t] = "adding"]
      /\ arg' = [arg EXCEPT ![t] = <<o>>] /\ UNCHANGED <<latestSerialNumber_, asked, fetched>>
      /\ enqueueLocker_ = None
  BY DEF enqueue, Goto, TakeEnqueueLock, queueVars
<1>2. ~Enqueuing
  BY <1>1, QueueAssumption DEF Enqueuing, LockInv, HoldsEnqueue
<1>3. Enqueuing'
  BY <1>1 DEF Enqueuing, TypeOK
<1>4. /\ IsFiniteSet(CallerOps \ fresh')
      /\ Cardinality(CallerOps \ fresh') = Cardinality(CallerOps \ fresh) + 1
      /\ Cardinality(CallerOps \ fresh) \in Nat
  <2>1. CallerOps \ fresh' = (CallerOps \ fresh) \cup {o} /\ o \notin CallerOps \ fresh
    BY <1>1 DEF TypeOK
  <2>2. IsFiniteSet(CallerOps \ fresh)
    BY DEF RepeatInv
  <2> DEFINE S == CallerOps \ fresh
  <2> HIDE DEF S
  <2>3. IsFiniteSet(S) /\ o \notin S /\ CallerOps \ fresh' = S \cup {o}
    BY <2>1, <2>2 DEF S
  <2>4. IsFiniteSet(S \cup {o}) /\ Cardinality(S \cup {o}) = Cardinality(S) + 1
    BY <2>3, FS_AddElement
  <2>5. Cardinality(S) \in Nat
    BY <2>3, FS_CardinalityType
  <2> QED
    BY <2>3, <2>4, <2>5 DEF S
<1>5. Resets' = Resets
  BY <1>2, <1>3, <1>4 DEF Resets
<1>6. ASSUME NEW n \in 1 .. MaxSerial PROVE ToCome(f, n)' <=> ToCome(f, n)
  <2>1. CASE f = t
    BY <1>1, <2>1 DEF ToCome, TypeOK
  <2>2. CASE f # t
    BY <1>1, <2>2 DEF ToCome, UpTo, TypeOK
  <2> QED
    BY <2>1, <2>2
<1>7. \A n \in 1 .. MaxSerial : Times(f, n)' = Times(f, n)
  BY <1>1, <1>6 DEF Times
<1> HIDE DEF Times, Resets
<1> QED
  BY <1>4, <1>5, <1>7 DEF RepeatInv

\* enqueue: ends, and has the next call ask for anything.
LEMMA EnqueueEndRepeats ==
  ASSUME TypeOK, LockInv, LockInv', NEW f \in Threads, RepeatInv(f),
         NEW t \in Threads, enqueueEnd(t)
  PROVE  RepeatInv(f)'
<1>1. pc[t] = "added" /\ pc' = [pc EXCEPT ![t] = "idle"] /\ UNCHANGED <<fresh, fetched>>
      /\ enqueueLocker_' = None
  BY DEF enqueueEnd, Goto, environment
<1>2. Enqueuing
  BY <1>1 DEF Enqueuing
<1>3. ~Enqueuing'
  BY <1>1, QueueAssumption DEF Enqueuing, LockInv, HoldsEnqueue
<1>4. IsFiniteSet(CallerOps \ fresh) /\ Cardinality(CallerOps \ fresh) \in Nat
  BY FS_CardinalityType DEF RepeatInv
<1>5. Resets' = Resets + 1
  BY <1>1, <1>2, <1>3, <1>4 DEF Resets
<1>6. Resets \in Nat
  BY DEF RepeatInv
<1>7. ASSUME NEW n \in 1 .. MaxSerial PROVE Times(f, n)' =< 1 + Resets'
  <2>1. fetched[n] \in Nat /\ fetched'[n] = fetched[n]
    BY <1>1 DEF TypeOK
  <2>2. fetched[n] =< 1 + Resets
    <3>1. Times(f, n) =< 1 + Resets
      BY DEF RepeatInv
    <3> HIDE DEF ToCome, Resets
    <3> QED
      BY <1>6, <2>1, <3>1 DEF Times
  <2>3. Times(f, n)' \in {fetched[n], fetched[n] + 1}
    <3> HIDE DEF ToCome
    <3>1. CASE ToCome(f, n)'
      BY <2>1, <3>1 DEF Times
    <3>2. CASE ~ToCome(f, n)'
      BY <2>1, <3>2 DEF Times
    <3> QED
      BY <3>1, <3>2
  <2> HIDE DEF Times, Resets
  <2> QED
    BY <1>5, <1>6, <2>1, <2>2, <2>3
<1> HIDE DEF Times, Resets
<1> QED
  BY <1>1, <1>4, <1>5, <1>6, <1>7 DEF RepeatInv

\* The operations of an answer were to come, and are no longer.
LEMMA AddRepeats ==
  ASSUME TypeOK, AnswerInv, NEW f \in Threads, RepeatInv(f), getServerDataAdd(f)
  PROVE  RepeatInv(f)'
<1>1. /\ pc[f] = "appending" /\ pc' = [pc EXCEPT ![f] = "appended"]
      /\ fetched' = [n \in DOMAIN fetched |->
                       fetched[n] + IF n \in asked[f] + 1 .. UpTo(f) THEN 1 ELSE 0]
      /\ UNCHANGED <<arg, asked, fresh>>
  BY DEF getServerDataAdd, Goto, UpTo
<1>2. pc'[f] = "appended" /\ UpTo(f)' = UpTo(f) /\ DOMAIN fetched = 1 .. MaxSerial
  BY <1>1 DEF UpTo, TypeOK
<1>3. UpTo(f) \in Int /\ asked[f] \in Int /\ asked[f] < UpTo(f)
  <2>1. Len(arg[f]) \in Nat /\ Len(arg[f]) > 0
    BY <1>1 DEF AnswerInv, AnswerAt, TypeOK
  <2>2. asked[f] \in Int
    BY QueueAssumption DEF TypeOK
  <2> QED
    BY <2>1, <2>2 DEF UpTo
<1>4. ASSUME NEW n \in 1 .. MaxSerial PROVE Times(f, n)' = Times(f, n)
  <2>1. fetched[n] \in Nat /\ n \in Int
    BY QueueAssumption DEF TypeOK
  <2>2. ToCome(f, n) <=> asked[f] < n
    BY <1>1 DEF ToCome
  <2>3. ToCome(f, n)' <=> UpTo(f) < n
    BY <1>2 DEF ToCome
  <2>4. fetched'[n] = fetched[n] + IF n \in asked[f] + 1 .. UpTo(f) THEN 1 ELSE 0
    BY <1>1, <1>2
  <2> HIDE DEF ToCome, UpTo
  <2>5. CASE n =< asked[f]
    <3>1. ~ToCome(f, n) /\ ~ToCome(f, n)' /\ n \notin asked[f] + 1 .. UpTo(f)
      BY <1>3, <2>1, <2>2, <2>3, <2>5
    <3> QED
      BY <2>1, <2>4, <3>1 DEF Times
  <2>6. CASE asked[f] < n /\ n =< UpTo(f)
    <3>1. ToCome(f, n) /\ ~ToCome(f, n)' /\ n \in asked[f] + 1 .. UpTo(f)
      BY <1>3, <2>1, <2>2, <2>3, <2>6
    <3> QED
      BY <2>1, <2>4, <3>1 DEF Times
  <2>7. CASE UpTo(f) < n
    <3>1. ToCome(f, n) /\ ToCome(f, n)' /\ n \notin asked[f] + 1 .. UpTo(f)
      BY <1>3, <2>1, <2>2, <2>3, <2>7
    <3> QED
      BY <2>1, <2>4, <3>1 DEF Times
  <2> QED
    BY <1>3, <2>1, <2>5, <2>6, <2>7
<1>5. Resets' = Resets
  BY <1>1, OthersKeep, ResetsKept DEF Advance, TypeOK
<1> HIDE DEF Times, Resets
<1> QED
  BY <1>1, <1>4, <1>5 DEF RepeatInv

\* The other steps of the thread that fetches.
LEMMA FetchRepeats ==
  ASSUME TypeOK, AnswerInv, NEW f \in Threads, RepeatInv(f),
         getServerData(f) \/ getNothing(f) \/ getOperations(f) \/ getServerDataEnd(f)
  PROVE  RepeatInv(f)'
<1>1. UNCHANGED <<fresh, fetched>>
  BY DEF getServerData, getNothing, getOperations, getServerDataEnd, environment
<1>2. Resets' = Resets
  <2>1. pc[f] \notin {"adding", "added"} /\ pc'[f] \notin {"adding", "added"}
    BY DEF getServerData, getNothing, getOperations, getServerDataEnd, Goto, TypeOK
  <2>2. Others(f)
    BY OthersKeep DEF Start, Advance
  <2> QED
    BY <1>1, <2>1, <2>2, ResetsKept
<1>3. ASSUME NEW n \in 1 .. MaxSerial, ToCome(f, n)' PROVE ToCome(f, n)
  <2>1. CASE getServerData(f)
    BY <1>3, <2>1 DEF getServerData, Goto, queueVars, ToCome, TypeOK
  <2>2. CASE getNothing(f)
    BY <1>3, <2>2 DEF getNothing, SerialAfterNothing, Goto, ToCome, TypeOK
  <2>3. CASE getOperations(f)
    BY <1>3, <2>3 DEF getOperations, Goto, queueVars, ToCome, TypeOK
  <2>4. CASE getServerDataEnd(f)
    <3>1. pc[f] = "appended" /\ pc'[f] = "idle" /\ latestSerialNumber_' = LatestFetched(f)
      BY <2>4 DEF getServerDataEnd, Goto, TypeOK
    <3>2. UpTo(f) \in 1 .. MaxSerial /\ LatestFetched(f) = AsInt(UpTo(f))
      BY <3>1 DEF AnswerInv, AnswerAt
    <3>3. AsUint(latestSerialNumber_') = UpTo(f)
      <4> HIDE DEF UpTo
      <4>1. UpTo(f) \in 0 .. MaxSerial
        BY <3>2, QueueAssumption
      <4> QED
        BY <3>1, <3>2, <4>1, SerialsConvert
    <3> QED
      BY <1>3, <3>1, <3>3 DEF ToCome
  <2> QED
    BY <2>1, <2>2, <2>3, <2>4
<1> QED
  BY <1>1, <1>2, <1>3, RepeatKept

\* Every other step leaves what is noted, asked and appended alone.
LEMMA OtherRepeats ==
  ASSUME TypeOK, NEW f \in Threads, RepeatInv(f), NEW t \in Threads,
         \/ lock1(t) \/ enqueueAdd(t) \/ lock2(t) \/ isEmpty(t) \/ clear(t) \/ unLock2(t)
         \/ dequeue(t) \/ dequeueRemove(t) \/ dequeueEnd(t)
  PROVE  RepeatInv(f)'
<1>1. UNCHANGED <<fresh, fetched, asked, latestSerialNumber_>>
  BY DEF lock1, enqueueAdd, lock2, isEmpty, clear, unLock2, dequeue, dequeueRemove, dequeueEnd,
     environment, queueVars
<1>2. /\ pc[t] \notin {"fetching", "appending", "appended"}
      /\ pc'[t] \notin {"fetching", "appending", "appended"}
      /\ pc'[t] \in {"adding", "added"} <=> pc[t] \in {"adding", "added"}
  BY DEF lock1, enqueueAdd, lock2, isEmpty, clear, unLock2, dequeue, dequeueRemove, dequeueEnd,
     Goto, TypeOK
<1>3. Others(t)
  BY OthersKeep DEF Start, Advance
<1>4. Resets' = Resets
  BY <1>1, <1>2, <1>3, ResetsKept
<1>5. ASSUME NEW n \in 1 .. MaxSerial PROVE ToCome(f, n)' <=> ToCome(f, n)
  <2>1. CASE f = t
    BY <1>1, <1>2, <2>1 DEF ToCome
  <2>2. CASE f # t
    <3>1. pc'[f] = pc[f] /\ arg'[f] = arg[f]
      BY <1>3, <2>2 DEF Others
    <3> QED
      BY <1>1, <3>1 DEF ToCome, UpTo
  <2> QED
    BY <2>1, <2>2
<1> QED
  BY <1>1, <1>4, <1>5, RepeatKept


LEMMA RepeatInvNext ==
  ASSUME NEW f \in Fetchers, Fetchers = {f}
  PROVE  TypeInv /\ RoleInv /\ LockInv /\ LockInv' /\ AnswerInv /\ RepeatInv(f) /\ [Next]_vars
           => RepeatInv(f)'
<1> SUFFICES ASSUME TypeInv, RoleInv, LockInv, LockInv', AnswerInv, RepeatInv(f), [Next]_vars
             PROVE  RepeatInv(f)'
  OBVIOUS
<1> TypeOK /\ f \in Threads
  BY DEF TypeInv, Threads
<1>1. ASSUME NEW t \in Threads,
             \/ getServerData(t) \/ getNothing(t) \/ getOperations(t)
             \/ getServerDataAdd(t) \/ getServerDataEnd(t)
      PROVE  RepeatInv(f)'
  <2>1. t \in Fetchers
    BY <1>1 DEF RoleInv, getServerData, getNothing, getOperations, getServerDataAdd,
       getServerDataEnd, Goto
  <2>2. t = f
    BY <2>1
  <2> QED
    BY <1>1, <2>2, AddRepeats, FetchRepeats
<1>2. ASSUME NEW t \in Threads, Start(t) PROVE RepeatInv(f)'
  BY <1>1, <1>2, EnqueueRepeats, OtherRepeats DEF Start
<1>3. ASSUME NEW t \in Threads, Advance(t) PROVE RepeatInv(f)'
  BY <1>1, <1>3, EnqueueEndRepeats, OtherRepeats DEF Advance
<1>4. CASE UNCHANGED <<pc, arg, asked, fresh, fetched, latestSerialNumber_>>
  <2>1. Resets' = Resets
    BY <1>4 DEF Resets, Enqueuing
  <2>2. \A n \in 1 .. MaxSerial : ToCome(f, n)' <=> ToCome(f, n)
    BY <1>4 DEF ToCome, UpTo
  <2> QED
    BY <1>4, <2>1, <2>2, RepeatKept
<1>5. publish \/ corrupt \/ Halted \/ UNCHANGED vars =>
        UNCHANGED <<pc, arg, asked, fresh, fetched, latestSerialNumber_>>
  BY DEF publish, corrupt, Halted, vars, queueVars, environment
<1> QED
  BY <1>2, <1>3, <1>4, <1>5 DEF Next

LEMMA RepeatInvInit ==
  ASSUME NEW f \in Fetchers
  PROVE  Init => AnswerInv /\ RepeatInv(f)
<1> SUFFICES ASSUME Init PROVE AnswerInv /\ RepeatInv(f)
  OBVIOUS
<1>1. \A t \in Threads : pc[t] = "idle"
  BY DEF Init
<1>2. ~Enqueuing /\ AnswerInv
  BY <1>1 DEF Enqueuing, AnswerInv, AnswerAt
<1>3. CallerOps \ fresh = {}
  BY DEF Init
<1>4. IsFiniteSet(CallerOps \ fresh) /\ Resets = 0
  BY <1>2, <1>3, FS_EmptySet DEF Resets
<1>5. \A n \in 1 .. MaxSerial : fetched[n] = 0
  BY DEF Init
<1>6. ASSUME NEW n \in 1 .. MaxSerial PROVE Times(f, n) =< 1
  <2> HIDE DEF ToCome
  <2>1. CASE ToCome(f, n)
    BY <1>5, <2>1 DEF Times
  <2>2. CASE ~ToCome(f, n)
    BY <1>5, <2>2 DEF Times
  <2> QED
    BY <2>1, <2>2
<1> HIDE DEF Times, Resets
<1> QED
  BY <1>2, <1>4, <1>6 DEF RepeatInv

\* With one thread that fetches, and any others that enqueue, dequeue and
\* clear, an operation of the log is appended once, and once more for each
\* call of enqueue: that has made the next call ask for the whole log.
THEOREM RepeatsAreResets == Spec => []RepeatedOnlyByReset
<1>1. ASSUME NEW f \in Fetchers, Fetchers = {f} PROVE Spec => []RepeatedOnlyByReset
  <2>1. TypeOK /\ RepeatInv(f) => RepeatedOnlyByReset
    <3> SUFFICES ASSUME TypeOK, RepeatInv(f), NEW n \in 1 .. MaxSerial
                 PROVE  fetched[n] =< 1 + Cardinality(CallerOps \ fresh)
      BY DEF RepeatedOnlyByReset
    <3>1. Times(f, n) =< 1 + Resets /\ Resets \in Nat /\ fetched[n] \in Nat
      BY DEF RepeatInv, TypeOK
    <3>2. fetched[n] =< 1 + Resets
      <4> HIDE DEF ToCome, Resets
      <4> QED
        BY <3>1 DEF Times
    <3>3. Cardinality(CallerOps \ fresh) \in Nat
      BY FS_CardinalityType DEF RepeatInv
    <3>4. Resets =< Cardinality(CallerOps \ fresh)
      <4> HIDE DEF Enqueuing
      <4> QED
        BY <3>3 DEF Resets
    <3> HIDE DEF Times, Resets
    <3> QED
      BY <3>1, <3>2, <3>3, <3>4
  <2>2. Init => AnswerInv /\ RepeatInv(f)
    BY RepeatInvInit
  <2>3. TypeInv /\ RoleInv /\ LockInv /\ LockInv' /\ AnswerInv /\ RepeatInv(f) /\ [Next]_vars
          => RepeatInv(f)'
    BY <1>1, RepeatInvNext
  <2>4. TypeInv => TypeOK
    BY DEF TypeInv
  <2> QED
    BY <2>1, <2>2, <2>3, <2>4, AnswerInvNext, TypeInvHolds, RoleInvHolds, PTL DEF Spec
<1>2. CASE ~(\E f \in Fetchers : Fetchers = {f})
  <2>1. RepeatedOnlyByReset
    BY <1>2 DEF RepeatedOnlyByReset
  <2> QED
    BY <2>1, PTL
<1> QED
  BY <1>1, <1>2

\* Who asks for a lock at its next step: the first two for any, holding none,
\* the others for the second of the two, holding the first.
Asking == {"idle", "dequeue", "check1", "clear1"}

\* No thread waits for another for ever: whoever has the second lock asks for
\* none, and whoever has the first asks for none but the second.
LockOrder ==
  /\ dequeueLocker_ # None => pc[dequeueLocker_] \notin Asking
  /\ enqueueLocker_ # None => pc[enqueueLocker_] \notin {"idle", "dequeue"}
  /\ \A t \in Threads : pc[t] \in {"check1", "clear1"} => enqueueLocker_ = t

\* The two locks are taken in one order by all threads, in whatever roles, so
\* that a thread which waits for one waits for threads that can run: the part
\* of SecondLockGranted that needs no fairness.
THEOREM LocksAreOrdered == Spec => []LockOrder
<1>1. LockInv /\ TypeOK => LockOrder
  BY DEF LockInv, TypeOK, LockOrder, Asking, HoldsEnqueue, HoldsDequeue
<1> QED
  BY <1>1, LockInvHolds, TypeCorrect, PTL
=============================================================================
