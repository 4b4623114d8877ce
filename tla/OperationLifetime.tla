------------------------- MODULE OperationLifetime --------------------------
(***************************************************************************)
(* The life of the operation objects: who retains and releases them, when  *)
(* their memory is given back, and what is deleted then.                   *)
(*                                                                         *)
(*   main     the application: allocates operations, draws and enqueues    *)
(*            those it holds, and releases them; readOperationQueue and    *)
(*            drawSelf run there too                                       *)
(*   poller   getServerData: allocates the operations it received          *)
(*   board    the board queue's blocks: drawOperationBack draws duplicates *)
(*            and releases them, a load clears the queues                  *)
(*                                                                         *)
(* An array retains its elements.  The reference counts themselves, and    *)
(* malloc, are atomic.  An object's dealloc calls [super dealloc], which   *)
(* gives its memory back, before it reads operation_ from that memory and  *)
(* deletes the message: two steps, and another thread may be given the     *)
(* memory in between.                                                      *)
(***************************************************************************)
EXTENDS Integers, Sequences, FiniteSets

CONSTANTS BOARD_NUM,
          Memory,        \* the places malloc gives to operations
          MaxObjects,    \* bound: operations allocated
          MaxDrawings    \* bound: calls of drawOperation:

ASSUME LifetimeAssumption ==
  BOARD_NUM \in Nat \ {0} /\ MaxObjects \in Nat /\ MaxDrawings \in Nat

Threads == {"main", "poller", "board"}
Nil == 0

VARIABLES allocated,      \* how many operations were; they are numbered
          place,          \* place[o]: the memory of operation o
          content,        \* content[m]: the operation whose data are in m: the
                          \* one allocated there last
          retainCount,
          message,        \* message[o]: what o's operation_ points to
          deletions,      \* how often a message was deleted
          dealloc,        \* dealloc[t]: what t gave back and has not deleted
          app,            \* the operations the application holds
          operationQueue_, realOperationQueue_,
          hand,           \* what readOperationQueue has dequeued, or Nil
          boardOpQueue,   \* the operations of drawOperation:'s blocks
          op, at,         \* the block that runs: its duplicate, or Nil, and
                          \* the board
          drawings,       \* calls of drawOperation:
          queued,         \* history: the operations a queue was given
          early,          \* history: those the application let go of while a
                          \* block that draws them was waiting or running
          drawnDead,      \* history: those that were drawn after their dealloc
          misplaced       \* history: those allocated in memory another
                          \* thread's dealloc was to read

objects == <<allocated, place, content, retainCount, message, deletions, dealloc>>
queues == <<operationQueue_, realOperationQueue_, hand, queued>>
board == <<boardOpQueue, op, at>>
vars == <<objects, queues, board, app, drawings, early, drawnDead, misplaced>>

Objects == 1 .. MaxObjects
Allocated == 1 .. allocated
Live(o) == retainCount[o] > 0
Occurrences(q, o) == Cardinality({k \in 1 .. Len(q) : q[k] = o})

Init ==
  /\ allocated = 0
  /\ place = [o \in Objects |-> Nil] /\ message = [o \in Objects |-> Nil]
  /\ content = [m \in Memory |-> Nil]
  /\ retainCount = [o \in Objects |-> 0] /\ deletions = [o \in Objects |-> 0]
  /\ dealloc = [t \in Threads |-> {}]
  /\ app = {}
  /\ operationQueue_ = <<>> /\ realOperationQueue_ = <<>> /\ hand = Nil
  /\ boardOpQueue = <<>> /\ op = Nil /\ at = 1
  /\ drawings = 0
  /\ queued = {} /\ early = {} /\ drawnDead = {} /\ misplaced = {}

-----------------------------------------------------------------------------
\* The next operation, and the message that its init makes.
New == allocated + 1

\* alloc and init of the next operation, at m, with message d, retained count
\* times.
Alloc(m, d, count) ==
  /\ allocated < MaxObjects
  /\ \A o \in Allocated : Live(o) => place[o] # m
  /\ allocated' = allocated + 1
  /\ place' = [place EXCEPT ![New] = m] /\ message' = [message EXCEPT ![New] = d]
  /\ content' = [content EXCEPT ![m] = New]
  /\ retainCount' = [retainCount EXCEPT ![New] = count]
  /\ misplaced' = IF \E t \in Threads : \E o \in dealloc[t] : place[o] = m
                  THEN misplaced \cup {New} ELSE misplaced
  /\ UNCHANGED <<deletions, dealloc>>

\* Thread t retains and releases; what nobody retains any more it deallocs, up
\* to the end of [super dealloc].
Recount(t, count) ==
  /\ retainCount' = count
  /\ dealloc' = [dealloc EXCEPT ![t] = @ \cup {o \in Allocated : Live(o) /\ count[o] =< 0}]
  /\ UNCHANGED <<allocated, place, content, message, deletions, misplaced>>

Running(t) == dealloc[t] = {}

\* The rest of dealloc: delete operation_, as the memory has it.
Delete(t, o) ==
  /\ o \in dealloc[t]
  /\ deletions' = [deletions EXCEPT ![message[content[place[o]]]] = @ + 1]
  /\ dealloc' = [dealloc EXCEPT ![t] = @ \ {o}]
  /\ UNCHANGED <<allocated, place, content, message, retainCount, queues, board, app, drawings,
                 early, drawnDead, misplaced>>

-----------------------------------------------------------------------------
\* The application makes an operation, and holds it.
Create(m) ==
  /\ Running("main")
  /\ Alloc(m, New, 1)
  /\ app' = app \cup {New}
  /\ UNCHANGED <<queues, board, drawings, early, drawnDead>>

\* drawOperation: of one it holds.  The block's variable is a __block one, which
\* the block does not retain: retain, dispatch and release leave the count.
\* Mutant of drawOperation: released, but not retained.
DrawUnretained(o) ==
  /\ Running("main") /\ o \in app /\ drawings < MaxDrawings
  /\ drawings' = drawings + 1
  /\ boardOpQueue' = Append(boardOpQueue, o)
  /\ Recount("main", [retainCount EXCEPT ![o] = @ - 1])
  /\ UNCHANGED <<queues, op, at, app, early, drawnDead>>
drawOperation(o) ==
  /\ Running("main") /\ o \in app /\ drawings < MaxDrawings
  /\ drawings' = drawings + 1
  /\ boardOpQueue' = Append(boardOpQueue, o)
  /\ UNCHANGED <<objects, queues, op, at, app, early, drawnDead, misplaced>>

\* The application lets go of an operation.
release(o) ==
  /\ Running("main") /\ o \in app
  /\ app' = app \ {o}
  /\ early' = IF \E k \in 1 .. Len(boardOpQueue) : boardOpQueue[k] = o
              THEN early \cup {o} ELSE early
  /\ Recount("main", [retainCount EXCEPT ![o] = @ - 1])
  /\ UNCHANGED <<queues, board, drawings, drawnDead>>

\* What enqueue: and dequeue retain for themselves, beside the array.
\* Mutant of Own: nothing, as the array retains.
NotOwn == 0
Own == 1

\* enqueue: of an operation the application holds (bound: once each).
enqueue(o) ==
  /\ Running("main") /\ o \in app /\ o \notin queued
  /\ operationQueue_' = Append(operationQueue_, o)
  /\ queued' = queued \cup {o}
  /\ Recount("main", [retainCount EXCEPT ![o] = @ + Own + 1])
  /\ UNCHANGED <<realOperationQueue_, hand, board, app, drawings, early, drawnDead>>

\* getServerData: the factory's alloc, the list's array and the queue's; the
\* first two are never given up, as nobody releases the list.
getServerData(m) ==
  /\ Running("poller")
  /\ Alloc(m, New, 3)
  /\ operationQueue_' = Append(operationQueue_, New)
  /\ queued' = queued \cup {New}
  /\ UNCHANGED <<realOperationQueue_, hand, board, app, drawings, early, drawnDead>>

\* readOperationQueue: dequeue ...
dequeue ==
  /\ Running("main") /\ hand = Nil /\ operationQueue_ # <<>>
  /\ hand' = Head(operationQueue_)
  /\ operationQueue_' = Tail(operationQueue_)
  /\ Recount("main", [retainCount EXCEPT ![Head(operationQueue_)] = @ + Own - 1])
  /\ UNCHANGED <<realOperationQueue_, queued, board, app, drawings, early, drawnDead>>

\* ... and sliceOpertion:IntoQueue:, which is enqueue: into the other queue.
slice ==
  /\ Running("main") /\ hand # Nil
  /\ realOperationQueue_' = Append(realOperationQueue_, hand)
  /\ hand' = Nil
  /\ Recount("main", [retainCount EXCEPT ![hand] = @ + Own + 1])
  /\ UNCHANGED <<operationQueue_, queued, board, app, drawings, early, drawnDead>>

\* drawSelf: dequeue, and drawOp: of the canvas, which keeps nothing.
drawSelf ==
  /\ Running("main") /\ hand = Nil /\ realOperationQueue_ # <<>>
  /\ realOperationQueue_' = Tail(realOperationQueue_)
  /\ Recount("main", [retainCount EXCEPT ![Head(realOperationQueue_)] = @ + Own - 1])
  /\ UNCHANGED <<operationQueue_, hand, queued, board, app, drawings, early, drawnDead>>

-----------------------------------------------------------------------------
\* The block draws o, alive or not: what is read of a dead one is whatever its
\* memory holds, if the program goes on at all.
Use(o) == drawnDead' = IF Live(o) THEN drawnDead ELSE drawnDead \cup {o}

\* drawOperationBack, on board at: [operation duplicate] ...
\* Mutant of duplicate: the duplicate has the operation's message.
duplicateShallow(m) ==
  /\ Running("board") /\ boardOpQueue # <<>> /\ op = Nil
  /\ Use(Head(boardOpQueue))
  /\ Alloc(m, message[Head(boardOpQueue)], 1)
  /\ op' = New
  /\ UNCHANGED <<queues, boardOpQueue, at, app, drawings, early>>
duplicate(m) ==
  /\ Running("board") /\ boardOpQueue # <<>> /\ op = Nil
  /\ Use(Head(boardOpQueue))
  /\ Alloc(m, New, 1)
  /\ op' = New
  /\ UNCHANGED <<queues, boardOpQueue, at, app, drawings, early>>

\* ... which the operation's drawer draws, and which is released.
draw ==
  /\ Running("board") /\ op # Nil
  /\ Use(Head(boardOpQueue))
  /\ op' = Nil
  /\ Recount("board", [retainCount EXCEPT ![op] = @ - 1])
  /\ IF at = BOARD_NUM THEN at' = 1 /\ boardOpQueue' = Tail(boardOpQueue)
                       ELSE at' = at + 1 /\ UNCHANGED boardOpQueue
  /\ UNCHANGED <<queues, app, drawings, early>>

\* A load's block, which may run between any two others: both queues cleared.
clear ==
  /\ Running("board") /\ op = Nil /\ at = 1
  /\ Recount("board", [o \in Objects |-> retainCount[o] - Occurrences(operationQueue_, o)
                                                        - Occurrences(realOperationQueue_, o)])
  /\ operationQueue_' = <<>> /\ realOperationQueue_' = <<>>
  /\ UNCHANGED <<hand, queued, board, app, drawings, early, drawnDead>>

-----------------------------------------------------------------------------
Next ==
  \/ \E m \in Memory : Create(m) \/ getServerData(m) \/ duplicate(m)
  \/ \E o \in app : drawOperation(o) \/ release(o) \/ enqueue(o)
  \/ dequeue \/ slice \/ drawSelf \/ draw \/ clear
  \/ \E t \in Threads : \E o \in dealloc[t] : Delete(t, o)

Spec == Init /\ [][Next]_vars

-----------------------------------------------------------------------------
TypeOK ==
  /\ allocated \in 0 .. MaxObjects
  /\ place \in [Objects -> Memory \cup {Nil}] /\ message \in [Objects -> Objects \cup {Nil}]
  /\ content \in [Memory -> 0 .. allocated]
  /\ retainCount \in [Objects -> Int] /\ deletions \in [Objects -> Nat]
  /\ dealloc \in [Threads -> SUBSET Allocated]
  /\ app \subseteq Allocated /\ queued \subseteq Allocated
  /\ operationQueue_ \in Seq(queued) /\ realOperationQueue_ \in Seq(queued)
  /\ boardOpQueue \in Seq(Allocated)
  /\ hand \in queued \cup {Nil} /\ op \in Allocated \cup {Nil}
  /\ at \in 1 .. BOARD_NUM /\ drawings \in 0 .. MaxDrawings
  /\ early \subseteq Allocated /\ drawnDead \subseteq Allocated /\ misplaced \subseteq Allocated

\* What is in memory: the operations the application holds, the one duplicate
\* that is being drawn, and every operation a queue was ever given, which is
\* what keeps the threads of the pipeline from using a dead one, and what is
\* never given back.
InMemory == \A o \in Allocated : Live(o) <=> o \in app \/ o = op \/ o \in queued

\* drawOperation: draws a dead operation only if the application let go of it
\* before the block ended, and no queue was given it.
DrawnWhileHeld == drawnDead \subseteq early \ queued

\* A message is deleted once, and not before its operation's dealloc, unless the
\* operation was allocated where another thread's dealloc was still to read.
MessagesIntact ==
  \A o \in Allocated \ misplaced : deletions[message[o]] =< IF Live(o) THEN 0 ELSE 1
=============================================================================
