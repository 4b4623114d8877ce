----------------------------- MODULE BoardModel -----------------------------
(***************************************************************************)
(* BoardModel: the pipeline from the operations the poller receives to the *)
(* display, and the serial queue that paints the board contexts.           *)
(*                                                                         *)
(*   poller      appends to operationQueue_, then trigerReadOperationQueue *)
(*   main queue  readOperationQueue slices into realOperationQueue_,       *)
(*               drawSelf hands its operations to the canvas               *)
(*   board queue draws operations and documents on every context, takes    *)
(*               snapshots, and clears both queues after a document        *)
(*                                                                         *)
(* A dispatch queue is the sequence of its blocks; a block runs in steps   *)
(* and the two queues' threads, the poller and the callers interleave.     *)
(* An operation queue is a sequence: what its calls promise is FifoQueue.  *)
(* Received operations are numbered in the order received, documents and   *)
(* drawOperation: calls in the order of their calls; a picture is the      *)
(* sequence of what was painted.                                           *)
(***************************************************************************)
EXTENDS Integers, Sequences, SequencesExt

CONSTANTS BOARD_NUM,
          MaxOps,       \* bound: operations the poller receives
          MaxDraws,     \* bound: calls of drawOperation:
          MaxLoads,     \* bound: calls of loadDocumentAsync: and ...Sync:
          MaxSnapshots, \* bound: calls of saveSnapshot
          LoadKinds,    \* the load calls the application makes, a subset
                        \* of {"async", "sync"}
          SyncCallers   \* the threads that may be the one that calls
                        \* loadDocumentSync:, a subset of {"main", "poller"}

Boards == 1 .. BOARD_NUM

ASSUME BoardAssumption ==
  /\ BOARD_NUM \in Nat \ {0}
  /\ MaxOps \in Nat /\ MaxDraws \in Nat /\ MaxLoads \in Nat /\ MaxSnapshots \in Nat
  /\ LoadKinds \subseteq {"async", "sync"}
  /\ SyncCallers \subseteq {"main", "poller"}

VARIABLES syncCaller,     \* the thread that calls loadDocumentSync:
          operationQueue_, realOperationQueue_,
          mainQueue,      \* blocks of the main queue
          boardOpQueue,   \* blocks of the board queue
          main,           \* where the main thread is
          hand,           \* the operation readOperationQueue or drawSelf holds
          poller,         \* where the poller is
          awaited,        \* the document the caller of loadDocumentSync: loads
          block, at,      \* the board block being run (or Idle) and its place
          context_,       \* context_[i]: what was painted on board i
          latestSnapshot_,
          received, draws, loads, snapshots,   \* calls so far
          epoch,          \* history: epoch[n] = loads when n was received
          requested,      \* history: what was to be painted, as dispatched
          shown,          \* history: what the canvas was asked to show
          crashed         \* dequeue threw on an empty queue

queues == <<operationQueue_, realOperationQueue_>>
dispatched == <<mainQueue, boardOpQueue>>
threads == <<main, hand, poller, awaited>>
pictures == <<context_, latestSnapshot_>>
boardVars == <<block, at, pictures>>
calls == <<received, draws, loads, snapshots, epoch, requested>>
vars == <<syncCaller, queues, dispatched, threads, boardVars, calls, shown, crashed>>

Idle == [kind |-> "idle"]
Released == <<[kind |-> "released"]>>     \* an image after CGImageRelease
Read == [kind |-> "read"]
Draw == [kind |-> "draw"]
Display(n) == [kind |-> "display", n |-> n]
Operation(n) == [kind |-> "operation", n |-> n]
Drawing(n) == [kind |-> "draw", n |-> n]
Document(n) == [kind |-> "document", n |-> n]
Snapshot == [kind |-> "snapshot"]
Load(n, decodes, sync) ==
  [kind |-> "load", n |-> n, decodes |-> decodes, sync |-> sync]

Init ==
  /\ syncCaller \in SyncCallers
  /\ operationQueue_ = <<>> /\ realOperationQueue_ = <<>>
  /\ mainQueue = <<>> /\ boardOpQueue = <<>>
  /\ main = "idle" /\ hand = 0 /\ poller = "idle" /\ awaited = 0
  /\ block = Idle /\ at = 1
  /\ context_ = [i \in Boards |-> <<>>]
  /\ latestSnapshot_ = [i \in Boards |-> <<>>]
  /\ received = 0 /\ draws = 0 /\ loads = 0 /\ snapshots = 0
  /\ epoch = <<>> /\ requested = <<>> /\ shown = <<>>
  /\ crashed = FALSE

-----------------------------------------------------------------------------
\* The poller: getServerData appended an operation ...
Receive ==
  /\ poller = "idle" /\ received < MaxOps
  /\ received' = received + 1
  /\ epoch' = Append(epoch, loads)
  /\ operationQueue_' = Append(operationQueue_, received + 1)
  /\ poller' = "received"
  /\ UNCHANGED <<realOperationQueue_, dispatched, main, hand, awaited,
                 boardVars, draws, loads, snapshots, requested, shown, crashed>>

\* ... and the poller asks for it to be read.
trigerReadOperationQueue ==
  /\ poller = "received"
  /\ poller' = "idle"
  /\ mainQueue' = Append(mainQueue, Read)
  /\ UNCHANGED <<queues, boardOpQueue, main, hand, awaited, boardVars, calls, shown, crashed>>

-----------------------------------------------------------------------------
\* Calls of the application.
drawOperation ==
  /\ draws < MaxDraws
  /\ draws' = draws + 1
  /\ requested' = Append(requested, Drawing(draws + 1))
  /\ boardOpQueue' = Append(boardOpQueue, Drawing(draws + 1))
  /\ UNCHANGED <<queues, mainQueue, threads, boardVars, received, loads, snapshots, epoch, shown,
                 crashed>>

\* Mutants of DispatchSnapshot: the call is missing, or made only when no
\* block waits.
NoSnapshot == UNCHANGED boardOpQueue
SnapshotOnlyIfIdle ==
  boardOpQueue' = IF boardOpQueue = <<>> THEN <<Snapshot>> ELSE boardOpQueue
DispatchSnapshot == boardOpQueue' = Append(boardOpQueue, Snapshot)

\* saveSnapshot, which the displayers of a board may call too
requestSnapshot ==
  /\ snapshots < MaxSnapshots
  /\ snapshots' = snapshots + 1
  /\ DispatchSnapshot
  /\ UNCHANGED <<queues, mainQueue, threads, boardVars, received, draws, loads, epoch, requested,
                 shown, crashed>>

\* dispatch of a load; data that is no image decodes to NULL, which paints
\* nothing
DispatchLoad(sync) ==
  \E decodes \in BOOLEAN :
    /\ loads < MaxLoads
    /\ loads' = loads + 1
    /\ boardOpQueue' = Append(boardOpQueue, Load(loads + 1, decodes, sync))
    /\ requested' = IF decodes THEN Append(requested, Document(loads + 1)) ELSE requested
    /\ UNCHANGED <<queues, mainQueue, hand, boardVars, received, draws, snapshots, epoch, shown,
                   crashed>>

loadDocumentAsync ==
  /\ "async" \in LoadKinds
  /\ DispatchLoad(FALSE)
  /\ UNCHANGED <<main, poller, awaited>>

\* Where the thread that calls loadDocumentSync: is, and where it goes.
Caller == IF syncCaller = "main" THEN main ELSE poller
CallerGoes(place) ==
  IF syncCaller = "main"
  THEN main' = place /\ UNCHANGED poller
  ELSE poller' = place /\ UNCHANGED main

\* Mutant of Wait: dispatch_async in its place.
WaitForNothing == UNCHANGED <<main, poller>>

\* dispatch_sync: the caller waits for its block.
Wait == CallerGoes("waiting")

loadDocumentSync ==
  /\ "sync" \in LoadKinds
  /\ Caller = "idle"
  /\ DispatchLoad(TRUE)
  /\ Wait
  /\ awaited' = loads + 1

\* the redraw after the block, by the caller itself
displaySync ==
  /\ Caller = "display"
  /\ shown' = Append(shown, Document(awaited))
  /\ CallerGoes("idle")
  /\ UNCHANGED <<queues, dispatched, hand, awaited, boardVars, calls, crashed>>

-----------------------------------------------------------------------------
\* The main queue: the next block starts; display asks the canvas to redraw.
MainBlock ==
  /\ main = "idle" /\ mainQueue # <<>>
  /\ mainQueue' = Tail(mainQueue)
  /\ IF Head(mainQueue).kind = "display"
     THEN shown' = Append(shown, Document(Head(mainQueue).n)) /\ UNCHANGED main
     ELSE main' = Head(mainQueue).kind /\ UNCHANGED shown
  /\ UNCHANGED <<queues, boardOpQueue, hand, poller, awaited, boardVars, calls, crashed>>

\* Mutant of First: lastObject instead of objectAtIndex:0.
LastInstead(queue) == queue[Len(queue)]
First(queue) == Head(queue)

\* readOperationQueue: isEmpty under lock and unLock ...
readIsEmpty ==
  /\ main = "read"
  /\ main' = IF operationQueue_ = <<>> THEN "idle" ELSE "readSome"
  /\ UNCHANGED <<queues, dispatched, hand, poller, awaited, boardVars, calls, shown, crashed>>

\* ... dequeue, which throws if the queue was emptied meanwhile ...
readDequeue ==
  /\ main = "readSome"
  /\ IF operationQueue_ = <<>>
     THEN crashed' = TRUE /\ UNCHANGED <<operationQueue_, hand, main>>
     ELSE /\ hand' = First(operationQueue_)
          /\ operationQueue_' = Tail(operationQueue_)
          /\ main' = "slice"
          /\ UNCHANGED crashed
  /\ UNCHANGED <<realOperationQueue_, dispatched, poller, awaited, boardVars, calls, shown>>

\* Mutant of trigerDrawSelf: no block while another waits.
TrigerOnlyIfIdle == mainQueue' = IF mainQueue = <<>> THEN <<Draw>> ELSE mainQueue
trigerDrawSelf == mainQueue' = Append(mainQueue, Draw)

\* ... sliceOpertion into the real queue, trigerDrawSelf, and round again.
readSlice ==
  /\ main = "slice"
  /\ realOperationQueue_' = Append(realOperationQueue_, hand)
  /\ trigerDrawSelf
  /\ main' = "read"
  /\ UNCHANGED <<operationQueue_, boardOpQueue, hand, poller, awaited,
                 boardVars, calls, shown, crashed>>

\* drawSelf: the same check ...
drawIsEmpty ==
  /\ main = "draw"
  /\ main' = IF realOperationQueue_ = <<>> THEN "idle" ELSE "drawSome"
  /\ UNCHANGED <<queues, dispatched, hand, poller, awaited, boardVars, calls, shown, crashed>>

drawDequeue ==
  /\ main = "drawSome"
  /\ IF realOperationQueue_ = <<>>
     THEN crashed' = TRUE /\ UNCHANGED <<realOperationQueue_, hand, main>>
     ELSE /\ hand' = First(realOperationQueue_)
          /\ realOperationQueue_' = Tail(realOperationQueue_)
          /\ main' = "show"
          /\ UNCHANGED crashed
  /\ UNCHANGED <<operationQueue_, dispatched, poller, awaited, boardVars, calls, shown>>

\* ... drawOp of the canvas, and round again: sleep(0.04) is sleep(0).
drawShow ==
  /\ main = "show"
  /\ shown' = Append(shown, Operation(hand))
  /\ main' = "draw"
  /\ UNCHANGED <<queues, dispatched, hand, poller, awaited, boardVars, calls, crashed>>

-----------------------------------------------------------------------------
\* The board queue: the next block starts.
BoardBlock ==
  /\ block = Idle /\ boardOpQueue # <<>>
  /\ block' = Head(boardOpQueue)
  /\ boardOpQueue' = Tail(boardOpQueue)
  /\ at' = 1
  /\ UNCHANGED <<queues, mainQueue, threads, pictures, calls, shown, crashed>>

\* The loops over the contexts: an iteration, the next one, and the end.
InLoop == at \in Boards
NextBoard == at' = at + 1

\* Mutant of LoopDone: i < BOARD_NUM - 1.
LoopDoneEarly == at >= BOARD_NUM
LoopDone == at = BOARD_NUM + 1

\* drawOperationBack and the loads: one context painted
Paint(item) ==
  /\ context_' = [context_ EXCEPT ![at] = Append(@, item)]
  /\ NextBoard

paintBoard ==
  /\ block.kind \in {"draw", "load"} /\ InLoop
  /\ IF block.kind = "draw" THEN Paint(block)
     ELSE IF block.decodes THEN Paint(Document(block.n))
     ELSE NextBoard /\ UNCHANGED context_
  /\ UNCHANGED <<queues, dispatched, threads, block, latestSnapshot_, calls, shown, crashed>>

\* the end of drawOperationBack: saveSnapshot, a block of its own
saveSnapshot ==
  /\ block.kind = "draw" /\ LoopDone
  /\ DispatchSnapshot
  /\ block' = Idle
  /\ UNCHANGED <<queues, mainQueue, threads, at, pictures, calls, shown, crashed>>

\* the snapshot block, for each context: CGImageRelease ...
releaseSnapshot ==
  /\ block.kind = "snapshot" /\ InLoop
  /\ latestSnapshot_[at] # Released
  /\ latestSnapshot_' = [latestSnapshot_ EXCEPT ![at] = Released]
  /\ UNCHANGED <<queues, dispatched, threads, block, at, context_, calls, shown, crashed>>

\* ... then CGBitmapContextCreateImage
createSnapshot ==
  /\ block.kind = "snapshot" /\ InLoop
  /\ latestSnapshot_[at] = Released
  /\ latestSnapshot_' = [latestSnapshot_ EXCEPT ![at] = context_[at]]
  /\ NextBoard
  /\ UNCHANGED <<queues, dispatched, threads, block, context_, calls, shown, crashed>>

endSnapshot ==
  /\ block.kind = "snapshot" /\ LoopDone
  /\ block' = Idle
  /\ UNCHANGED <<queues, dispatched, threads, at, pictures, calls, shown, crashed>>

\* Mutant of EmptyReal: the clear is missing.
KeepReal == UNCHANGED realOperationQueue_
EmptyReal == realOperationQueue_' = <<>>

\* after the contexts, a load clears the real queue ...
clearReal ==
  /\ block.kind = "load" /\ LoopDone
  /\ EmptyReal
  /\ NextBoard
  /\ UNCHANGED <<operationQueue_, dispatched, threads, block, pictures, calls, shown, crashed>>

\* ... then the queue that feeds it ...
clearReceived ==
  /\ block.kind = "load" /\ at = BOARD_NUM + 2
  /\ operationQueue_' = <<>>
  /\ NextBoard
  /\ UNCHANGED <<realOperationQueue_, dispatched, threads, block, pictures, calls, shown, crashed>>

\* Mutant of Redraw: the caller is left waiting.
LeaveCaller(n) == UNCHANGED <<mainQueue, main, poller>>

\* an async load dispatches the redraw, a sync load lets its caller do it
Redraw(n) ==
  IF block.sync
  THEN CallerGoes("display") /\ UNCHANGED mainQueue
  ELSE mainQueue' = Append(mainQueue, Display(n)) /\ UNCHANGED <<main, poller>>

\* ... and has the canvas redraw.
endLoad ==
  /\ block.kind = "load" /\ at = BOARD_NUM + 3
  /\ block' = Idle
  /\ Redraw(block.n)
  /\ UNCHANGED <<queues, boardOpQueue, hand, awaited, at, pictures, calls, shown, crashed>>

-----------------------------------------------------------------------------
MainThread == \/ MainBlock \/ readIsEmpty \/ readDequeue \/ readSlice
              \/ drawIsEmpty \/ drawDequeue \/ drawShow
BoardThread == \/ BoardBlock \/ paintBoard \/ saveSnapshot
               \/ releaseSnapshot \/ createSnapshot \/ endSnapshot
               \/ clearReal \/ clearReceived \/ endLoad
Application == drawOperation \/ requestSnapshot \/ loadDocumentAsync \/ loadDocumentSync

Next == /\ ~crashed /\ UNCHANGED syncCaller
        /\ \/ Receive \/ trigerReadOperationQueue \/ displaySync
           \/ Application \/ MainThread \/ BoardThread

Spec == Init /\ [][Next]_vars

\* The system runs the blocks of both queues, and the poller asks for what it
\* received to be read.  Nothing makes the application call or the server send.
FairSpec == /\ Spec
            /\ WF_vars(~crashed /\ MainThread /\ UNCHANGED syncCaller)
            /\ WF_vars(~crashed /\ BoardThread /\ UNCHANGED syncCaller)
            /\ WF_vars(~crashed /\ trigerReadOperationQueue /\ UNCHANGED syncCaller)
            /\ WF_vars(~crashed /\ displaySync /\ UNCHANGED syncCaller)

-----------------------------------------------------------------------------
Items == [kind : {"draw"}, n : 1 .. MaxDraws] \cup [kind : {"document"}, n : 1 .. MaxLoads]
BoardBlocks ==
  {Snapshot} \cup [kind : {"draw"}, n : 1 .. MaxDraws]
  \cup [kind : {"load"}, n : 1 .. MaxLoads, decodes : BOOLEAN, sync : BOOLEAN]
MainBlocks == {Read, Draw} \cup [kind : {"display"}, n : 1 .. MaxLoads]
Showable == [kind : {"operation"}, n : 1 .. MaxOps] \cup [kind : {"document"}, n : 1 .. MaxLoads]

\* Every variable stays in its range.
TypeOK ==
  /\ syncCaller \in SyncCallers
  /\ operationQueue_ \in Seq(1 .. MaxOps) /\ realOperationQueue_ \in Seq(1 .. MaxOps)
  /\ mainQueue \in Seq(MainBlocks) /\ boardOpQueue \in Seq(BoardBlocks)
  /\ main \in {"idle", "read", "readSome", "slice", "draw", "drawSome", "show", "waiting", "display"}
  /\ hand \in 0 .. MaxOps
  /\ poller \in {"idle", "received", "waiting", "display"}
  /\ awaited \in 0 .. MaxLoads
  /\ block \in BoardBlocks \cup {Idle}
  /\ at \in 1 .. BOARD_NUM + 3
  /\ context_ \in [Boards -> Seq(Items)]
  /\ latestSnapshot_ \in [Boards -> Seq(Items) \cup {Released}]
  /\ received \in 0 .. MaxOps /\ draws \in 0 .. MaxDraws /\ loads \in 0 .. MaxLoads
  /\ snapshots \in 0 .. MaxSnapshots
  /\ epoch \in Seq(0 .. MaxLoads) /\ Len(epoch) = received
  /\ requested \in Seq(Items) /\ shown \in Seq(Showable)
  /\ crashed \in BOOLEAN

\* The contexts are replicas of one picture: each is what was asked for, in
\* the order of the calls from whatever threads, and no context is more than
\* the item being painted ahead of another.
ContextsReplayRequests ==
  \A i, j \in Boards :
    /\ IsPrefix(context_[i], requested)
    /\ i < j => Len(context_[i]) - Len(context_[j]) \in {0, 1}
    /\ block = Idle => context_[i] = context_[j]

PendingSnapshot(i) ==
  \/ block.kind = "draw"
  \/ block.kind = "snapshot" /\ at <= i
  \/ \E k \in 1 .. Len(boardOpQueue) : boardOpQueue[k] = Snapshot

\* A drawing that is on a context is in that context's latest snapshot, or a
\* snapshot that will have it is still to come.  (A document alone gets none.)
DrawnIsSnapshotted ==
  \A i \in Boards : latestSnapshot_[i] # Released =>
    \A k \in Len(latestSnapshot_[i]) + 1 .. Len(context_[i]) :
      context_[i][k].kind = "draw" => PendingSnapshot(i)

\* Whoever calls getLatestSnapshot:, on any thread, copies a picture the board
\* went through, unless the snapshot block is at that very board, where it may
\* get a released image.  Outside a snapshot block the snapshots of all boards
\* show the same moment.
SnapshotsAgree ==
  /\ \A i \in Boards :
       IsPrefix(latestSnapshot_[i], context_[i]) \/ (block.kind = "snapshot" /\ i = at)
  /\ block.kind # "snapshot" =>
       \A i, j \in Boards : latestSnapshot_[i] = latestSnapshot_[j]

\* The canvas gets operations in the order received, none twice, through both
\* queues and whatever loads clear in between.
ShownInOrder ==
  \A k, l \in 1 .. Len(shown) :
    k < l /\ shown[k].kind = "operation" /\ shown[l].kind = "operation"
      => shown[k].n < shown[l].n

OnCanvas(n) == \E k \in 1 .. Len(shown) : shown[k] = Document(n)
Decodes(n) == \E k \in 1 .. Len(requested) : requested[k] = Document(n)
Painted(n, i) == \E k \in 1 .. Len(context_[i]) : context_[i][k] = Document(n)

\* When the canvas is asked to redraw for a document, every context has it.
DisplayShowsDocument ==
  \A n \in 1 .. loads : OnCanvas(n) /\ Decodes(n) => \A i \in Boards : Painted(n, i)

ShowsOperation(n) == \E k \in 1 .. Len(shown) : shown[k] = Operation(n)
Queued(n) ==
  \/ \E k \in 1 .. Len(operationQueue_) : operationQueue_[k] = n
  \/ \E k \in 1 .. Len(realOperationQueue_) : realOperationQueue_[k] = n
  \/ main \in {"slice", "show"} /\ hand = n

\* loadDocumentSync: called by the poller: an operation that is neither on
\* its way nor shown was cleared by a load called after it was received; what
\* is newer than the document is not lost.
LostOnlyToLaterLoad ==
  syncCaller = "poller" =>
    \A n \in 1 .. received : Queued(n) \/ ShowsOperation(n) \/ epoch[n] < loads

\* loadDocumentSync: called on the main thread: once it has been called, no
\* operation received before the call is shown over the document.
NoStaleShown ==
  [][syncCaller = "main" =>
       \A n \in 1 .. received : shown' = Append(shown, Operation(n)) => epoch[n] = loads]_shown

\* loadDocumentSync: called on the main thread: the emptiness check of
\* readOperationQueue and drawSelf still holds at their dequeue.
NoEmptyDequeue == syncCaller = "main" => ~crashed

\* What is received does not stay in the queues: it is eventually given to
\* the canvas, however many blocks were triggered for it.  Only a load may
\* drop it, or end the program between a check and its dequeue.
EveryOperationShown ==
  \A n \in 1 .. MaxOps : received >= n ~>
    \/ ShowsOperation(n)
    \/ loads > 0 /\ (crashed \/ ~Queued(n))

\* What is drawn is eventually in the latest snapshot of every board.
DrawingReachesSnapshots ==
  \A n \in 1 .. MaxDraws : draws >= n ~>
    \/ crashed
    \/ \A i \in Boards : \E k \in 1 .. Len(latestSnapshot_[i]) : latestSnapshot_[i][k] = Drawing(n)

\* A load ends, sync callers go on, and the canvas is asked to redraw.
LoadIsDisplayed ==
  \A n \in 1 .. MaxLoads : loads >= n ~> OnCanvas(n) \/ crashed
=============================================================================
