-------------------------- MODULE BoardModelProofs --------------------------
(***************************************************************************)
(* Proofs about BoardModel, for any number of boards, calls and operations.*)
(* A block of the board queue has a place: 0 while it is run, k while it   *)
(* is the k-th that waits.  What a block will paint is laid down when it   *)
(* is dispatched (the history requested), so that a context is always as   *)
(* far in requested as the blocks before it account for.  First the        *)
(* operations on their way to the display, then the pictures.              *)
(***************************************************************************)
EXTENDS BoardModel, SequenceTheorems, TLAPS

Places == 0 .. Len(boardOpQueue)
BlockAt(k) == IF k = 0 THEN block ELSE boardOpQueue[k]

SyncLoad(b) == b.kind = "load" /\ b.sync

\* A load in the board queue is one that was called.
LoadsWereCalled == \A k \in Places : BlockAt(k).kind = "load" => BlockAt(k).n =< loads

\* The caller of loadDocumentSync: waits for the only such load there is.
SyncInv ==
  /\ \A k \in Places : SyncLoad(BlockAt(k)) => BlockAt(k).n = awaited /\ Caller = "waiting"
  /\ \A k, l \in Places : SyncLoad(BlockAt(k)) /\ SyncLoad(BlockAt(l)) => k = l
  /\ Caller = "display" => awaited \in 1 .. loads

\* The main thread holds an operation between dequeue and handing it on.
HandInv == main \in {"slice", "show"} => hand \in 1 .. MaxOps

\* TypeOK in the parts that a step changes together.
QueueTypes ==
  /\ operationQueue_ \in Seq(1 .. MaxOps) /\ realOperationQueue_ \in Seq(1 .. MaxOps)
  /\ mainQueue \in Seq(MainBlocks) /\ boardOpQueue \in Seq(BoardBlocks)
  /\ epoch \in Seq(0 .. MaxLoads) /\ requested \in Seq(Items) /\ shown \in Seq(Showable)

ThreadTypes ==
  /\ syncCaller \in SyncCallers
  /\ main \in {"idle", "read", "readSome", "slice", "draw", "drawSome", "show", "waiting", "display"}
  /\ hand \in 0 .. MaxOps
  /\ poller \in {"idle", "received", "waiting", "display"}
  /\ awaited \in 0 .. MaxLoads
  /\ at \in 1 .. BOARD_NUM + 3
  /\ received \in 0 .. MaxOps /\ draws \in 0 .. MaxDraws /\ loads \in 0 .. MaxLoads
  /\ snapshots \in 0 .. MaxSnapshots
  /\ crashed \in BOOLEAN

PictureTypes ==
  /\ block \in BoardBlocks \cup {Idle}
  /\ context_ \in [Boards -> Seq(Items)]
  /\ latestSnapshot_ \in [Boards -> Seq(Items) \cup {Released}]

CoreInv == TypeOK /\ LoadsWereCalled /\ SyncInv /\ HandInv

-----------------------------------------------------------------------------
\* What kind a block is decides its fields.
LEMMA BlockFacts ==
  /\ \A b \in BoardBlocks \cup {Idle} :
       /\ b.kind \in {"idle", "snapshot", "draw", "load"}
       /\ b.kind = "draw" => b \in Items
       /\ b.kind = "load" => /\ b.n \in 1 .. MaxLoads
                             /\ b.decodes \in BOOLEAN /\ b.sync \in BOOLEAN
                             /\ Document(b.n) \in Items
       /\ b.kind = "snapshot" <=> b = Snapshot
       /\ b.kind = "idle" <=> b = Idle
  /\ Idle \notin BoardBlocks
BY DEF BoardBlocks, Idle, Snapshot, Items, Document

LEMMA TypeParts ==
  /\ TypeOK <=> QueueTypes /\ ThreadTypes /\ PictureTypes /\ Len(epoch) = received
  /\ TypeOK' <=> QueueTypes' /\ ThreadTypes' /\ PictureTypes' /\ Len(epoch') = received'
BY DEF TypeOK, QueueTypes, ThreadTypes, PictureTypes

LEMMA PlaceFacts ==
  ASSUME TypeOK
  PROVE  /\ Len(boardOpQueue) \in Nat
         /\ \A k \in Places : BlockAt(k) \in BoardBlocks \cup {Idle}
         /\ BlockAt(0) = block /\ 0 \in Places
BY DEF TypeOK, Places, BlockAt

\* Which variables of the board queue a step leaves alone.
LEMMA QuietSteps ==
  /\ MainThread \/ Receive \/ trigerReadOperationQueue \/ displaySync =>
       UNCHANGED <<boardOpQueue, block, at, context_, latestSnapshot_, draws, loads, requested>>
  /\ MainThread \/ trigerReadOperationQueue \/ displaySync => UNCHANGED <<received, epoch>>
  /\ MainThread \/ Receive \/ trigerReadOperationQueue => UNCHANGED awaited
BY DEF MainThread, Receive, trigerReadOperationQueue, displaySync, MainBlock, readIsEmpty,
       readDequeue, readSlice, drawIsEmpty, drawDequeue, drawShow,
       queues, dispatched, boardVars, pictures, calls

LEMMA InitCore == Init => CoreInv
<1> SUFFICES ASSUME Init PROVE CoreInv
  OBVIOUS
<1>1. TypeOK
  <2> USE BoardAssumption DEF Init
  <2>1. QueueTypes
    BY DEF QueueTypes
  <2>2. ThreadTypes
    <3>1. /\ hand \in 0 .. MaxOps /\ awaited \in 0 .. MaxLoads /\ at \in 1 .. BOARD_NUM + 3
          /\ received \in 0 .. MaxOps /\ draws \in 0 .. MaxDraws /\ loads \in 0 .. MaxLoads
          /\ snapshots \in 0 .. MaxSnapshots
      OBVIOUS
    <3> QED
      BY <3>1 DEF ThreadTypes
  <2>3. PictureTypes
    BY DEF PictureTypes
  <2> QED
    BY <2>1, <2>2, <2>3, TypeParts
<1>2. \A k \in Places : BlockAt(k).kind = "idle"
  BY DEF Init, Places, BlockAt, Idle
<1>3. Caller = "idle" /\ HandInv
  BY DEF Init, Caller, HandInv
<1> QED
  BY <1>1, <1>2, <1>3 DEF CoreInv, LoadsWereCalled, SyncInv, SyncLoad

-----------------------------------------------------------------------------
\* The kinds of the main queue's blocks.
LEMMA MainBlockKinds ==
  \A b \in MainBlocks : b.kind # "display" => b.kind \in {"read", "draw"}
BY DEF MainBlocks, Read, Draw

\* Types, one step per action.
LEMMA TypeMain ==
  ASSUME CoreInv, MainThread, UNCHANGED syncCaller
  PROVE  TypeOK' /\ HandInv'
<1> USE BoardAssumption DEF CoreInv, TypeOK, HandInv, queues, dispatched, boardVars, pictures, calls
<1>1. CASE MainBlock
  <2>1. /\ Head(mainQueue) \in MainBlocks /\ Tail(mainQueue) \in Seq(MainBlocks)
        /\ mainQueue' = Tail(mainQueue)
    BY <1>1 DEF MainBlock
  <2>2. CASE Head(mainQueue).kind = "display"
    <3>1. Document(Head(mainQueue).n) \in Showable
      BY <2>1, <2>2 DEF MainBlocks, Showable, Document, Read, Draw
    <3>2. /\ shown' = Append(shown, Document(Head(mainQueue).n)) /\ main' = main
          /\ UNCHANGED <<queues, boardOpQueue, hand, poller, awaited, boardVars, calls, crashed>>
      BY <1>1, <2>2 DEF MainBlock
    <3>3. shown' \in Seq(Showable)
      BY <3>1, <3>2
    <3> QED
      BY <2>1, <3>2, <3>3
  <2>3. CASE Head(mainQueue).kind # "display"
    <3>1. Head(mainQueue).kind \in {"read", "draw"}
      BY <2>1, <2>3, MainBlockKinds
    <3> QED
      BY <1>1, <2>1, <2>3, <3>1 DEF MainBlock
  <2> QED
    BY <2>2, <2>3
<1>2. CASE readIsEmpty
  BY <1>2 DEF readIsEmpty
<1>3. CASE readDequeue
  <2>1. CASE operationQueue_ = <<>>
    BY <1>3, <2>1 DEF readDequeue
  <2>2. CASE operationQueue_ # <<>>
    <3>1. /\ Head(operationQueue_) \in 1 .. MaxOps
          /\ Tail(operationQueue_) \in Seq(1 .. MaxOps)
      BY <2>2
    <3>2. QueueTypes'
      BY <1>3, <2>2, <3>1 DEF readDequeue, QueueTypes
    <3>3. ThreadTypes' /\ HandInv'
      BY <1>3, <2>2, <3>1 DEF readDequeue, First, ThreadTypes
    <3>4. PictureTypes' /\ Len(epoch') = received'
      BY <1>3 DEF readDequeue, PictureTypes
    <3> QED
      BY <3>2, <3>3, <3>4, TypeParts
  <2> QED
    BY <2>1, <2>2
<1>4. CASE readSlice
  <2>1. Append(mainQueue, Draw) \in Seq(MainBlocks)
    BY DEF MainBlocks
  <2> QED
    BY <1>4, <2>1 DEF readSlice, trigerDrawSelf
<1>5. CASE drawIsEmpty
  BY <1>5 DEF drawIsEmpty
<1>6. CASE drawDequeue
  <2>1. CASE realOperationQueue_ = <<>>
    BY <1>6, <2>1 DEF drawDequeue
  <2>2. CASE realOperationQueue_ # <<>>
    <3>1. /\ Head(realOperationQueue_) \in 1 .. MaxOps
          /\ Tail(realOperationQueue_) \in Seq(1 .. MaxOps)
      BY <2>2
    <3>2. QueueTypes'
      BY <1>6, <2>2, <3>1 DEF drawDequeue, QueueTypes
    <3>3. ThreadTypes' /\ HandInv'
      BY <1>6, <2>2, <3>1 DEF drawDequeue, First, ThreadTypes
    <3>4. PictureTypes' /\ Len(epoch') = received'
      BY <1>6 DEF drawDequeue, PictureTypes
    <3> QED
      BY <3>2, <3>3, <3>4, TypeParts
  <2> QED
    BY <2>1, <2>2
<1>7. CASE drawShow
  <2>1. Operation(hand) \in Showable
    BY <1>7 DEF drawShow, Showable, Operation
  <2> QED
    BY <1>7, <2>1 DEF drawShow
<1> QED
  BY <1>1, <1>2, <1>3, <1>4, <1>5, <1>6, <1>7 DEF MainThread

LEMMA TypeCalls ==
  ASSUME CoreInv, UNCHANGED syncCaller,
         Receive \/ trigerReadOperationQueue \/ displaySync \/ Application
  PROVE  TypeOK' /\ HandInv'
<1> USE BoardAssumption DEF CoreInv, TypeOK, HandInv, queues, dispatched, boardVars, pictures,
                            calls, threads
<1>1. CASE Receive
  <2>1. /\ received + 1 \in 1 .. MaxOps /\ loads \in 0 .. MaxLoads
        /\ Append(operationQueue_, received + 1) \in Seq(1 .. MaxOps)
    BY <1>1 DEF Receive
  <2>2. Append(epoch, loads) \in Seq(0 .. MaxLoads) /\ Len(Append(epoch, loads)) = received + 1
    OBVIOUS
  <2> QED
    BY <1>1, <2>1, <2>2 DEF Receive
<1>2. CASE trigerReadOperationQueue
  <2>1. Append(mainQueue, Read) \in Seq(MainBlocks)
    BY DEF MainBlocks
  <2> QED
    BY <1>2, <2>1 DEF trigerReadOperationQueue
<1>3. CASE displaySync
  <2>1. Document(awaited) \in Showable
    BY <1>3 DEF displaySync, SyncInv, Showable, Document
  <2> QED
    BY <1>3, <2>1 DEF displaySync, CallerGoes
<1>4. CASE drawOperation
  <2>1. Drawing(draws + 1) \in Items /\ Drawing(draws + 1) \in BoardBlocks
    BY <1>4 DEF drawOperation, Items, BoardBlocks, Drawing
  <2> QED
    BY <1>4, <2>1 DEF drawOperation
<1>9. CASE requestSnapshot
  <2>1. Snapshot \in BoardBlocks
    BY DEF BoardBlocks
  <2> QED
    BY <1>9, <2>1 DEF requestSnapshot, DispatchSnapshot
<1>5. ASSUME NEW sync \in BOOLEAN, DispatchLoad(sync)
      PROVE  /\ requested' \in Seq(Items) /\ boardOpQueue' \in Seq(BoardBlocks)
             /\ loads' \in 1 .. MaxLoads /\ loads' = loads + 1
             /\ UNCHANGED <<operationQueue_, realOperationQueue_, mainQueue, hand, block, at,
                            context_, latestSnapshot_, received, draws, snapshots, epoch, shown,
                            crashed>>
  <2>1. PICK decodes \in BOOLEAN :
          /\ loads < MaxLoads /\ loads' = loads + 1
          /\ boardOpQueue' = Append(boardOpQueue, Load(loads + 1, decodes, sync))
          /\ requested' = IF decodes THEN Append(requested, Document(loads + 1)) ELSE requested
          /\ UNCHANGED <<queues, mainQueue, hand, boardVars, received, draws, snapshots, epoch,
                         shown, crashed>>
    BY <1>5 DEF DispatchLoad
  <2>2. /\ Document(loads + 1) \in Items
        /\ Load(loads + 1, decodes, sync) \in BoardBlocks
    BY <1>5, <2>1 DEF Items, BoardBlocks, Document, Load
  <2> QED
    BY <2>1, <2>2
<1>6. ASSUME NEW sync \in BOOLEAN, DispatchLoad(sync),
             main' \in {main, "waiting"} /\ poller' \in {poller, "waiting"},
             awaited' \in {awaited, loads + 1}
      PROVE  TypeOK' /\ HandInv'
  <2>1. QueueTypes' /\ PictureTypes' /\ Len(epoch') = received'
    BY <1>5, <1>6 DEF QueueTypes, PictureTypes
  <2>2. ThreadTypes /\ loads' \in 1 .. MaxLoads
    BY <1>5, <1>6, TypeParts
  <2>3. /\ UNCHANGED <<syncCaller, hand, at, received, draws, snapshots, crashed>>
        /\ loads' = loads + 1
    BY <1>5, <1>6
  <2>4. HandInv'
    BY <1>6, <2>3
  <2> HIDE DEF CoreInv, TypeOK
  <2>5. loads' \in 0 .. MaxLoads /\ awaited' \in 0 .. MaxLoads
    BY <1>6, <2>2, <2>3 DEF ThreadTypes
  <2>6. ThreadTypes'
    BY <1>6, <2>2, <2>3, <2>5 DEF ThreadTypes
  <2> QED
    BY <2>1, <2>4, <2>6, TypeParts
<1>7. CASE loadDocumentAsync
  <2>1. DispatchLoad(FALSE) /\ UNCHANGED <<main, poller, awaited>>
    BY <1>7 DEF loadDocumentAsync
  <2> QED
    BY <1>6, <2>1
<1>8. CASE loadDocumentSync
  <2>1. DispatchLoad(TRUE) /\ awaited' = loads + 1
    BY <1>8 DEF loadDocumentSync
  <2>2. \/ main' = "waiting" /\ poller' = poller
        \/ poller' = "waiting" /\ main' = main
    BY <1>8 DEF loadDocumentSync, Wait, CallerGoes
  <2> QED
    BY <1>6, <2>1, <2>2
<1> QED
  BY <1>1, <1>2, <1>3, <1>4, <1>7, <1>8, <1>9 DEF Application

LEMMA TypeBoard ==
  ASSUME CoreInv, BoardThread, UNCHANGED syncCaller
  PROVE  TypeOK' /\ HandInv'
<1> USE BoardAssumption DEF CoreInv, TypeOK, HandInv, queues, dispatched, boardVars, pictures,
                            calls, threads
<1>1. CASE BoardBlock
  <2>1. Head(boardOpQueue) \in BoardBlocks /\ Tail(boardOpQueue) \in Seq(BoardBlocks)
    BY <1>1 DEF BoardBlock
  <2> QED
    BY <1>1, <2>1 DEF BoardBlock
<1>2. CASE paintBoard
  <2>1. block.kind = "draw" => block \in Items
    BY BlockFacts
  <2>2. block.kind = "load" => Document(block.n) \in Items
    BY BlockFacts
  <2>3. /\ at \in Boards /\ at' = at + 1
        /\ \/ context_' = context_
           \/ \E item \in Items : context_' = [context_ EXCEPT ![at] = Append(@, item)]
    BY <1>2, <2>1, <2>2 DEF paintBoard, Paint, NextBoard, InLoop
  <2>4. context_' \in [Boards -> Seq(Items)]
    <3>1. ASSUME NEW item \in Items, context_' = [context_ EXCEPT ![at] = Append(@, item)]
          PROVE  context_' \in [Boards -> Seq(Items)]
      <4>1. Append(context_[at], item) \in Seq(Items)
        BY <2>3
      <4> QED
        BY <2>3, <3>1, <4>1
    <3> QED
      BY <2>3, <3>1
  <2>5. at' \in 1 .. BOARD_NUM + 3
    BY <2>3 DEF Boards
  <2> QED
    BY <1>2, <2>4, <2>5 DEF paintBoard
<1>3. CASE saveSnapshot
  <2>1. Append(boardOpQueue, Snapshot) \in Seq(BoardBlocks)
    BY DEF BoardBlocks
  <2> QED
    BY <1>3, <2>1 DEF saveSnapshot, DispatchSnapshot
<1>4. CASE releaseSnapshot
  BY <1>4 DEF releaseSnapshot, InLoop
<1>5. CASE createSnapshot
  BY <1>5 DEF createSnapshot, InLoop, NextBoard, Boards
<1>6. CASE endSnapshot
  BY <1>6 DEF endSnapshot
<1>7. CASE clearReal
  BY <1>7 DEF clearReal, EmptyReal, LoopDone, NextBoard
<1>8. CASE clearReceived
  BY <1>8 DEF clearReceived, NextBoard
<1>9. CASE endLoad
  <2>1. Append(mainQueue, Display(block.n)) \in Seq(MainBlocks)
    BY <1>9, BlockFacts DEF endLoad, MainBlocks, Display
  <2> QED
    BY <1>9, <2>1 DEF endLoad, Redraw, CallerGoes
<1> QED
  BY <1>1, <1>2, <1>3, <1>4, <1>5, <1>6, <1>7, <1>8, <1>9 DEF BoardThread

-----------------------------------------------------------------------------
\* How the places move: a block is dispatched, or none is, or the next starts.
LEMMA PlacesDispatch ==
  ASSUME TypeOK, NEW b \in BoardBlocks, boardOpQueue' = Append(boardOpQueue, b)
  PROVE  /\ Len(boardOpQueue') = Len(boardOpQueue) + 1
         /\ \A k \in Places' : k \in Places \/ k = Len(boardOpQueue) + 1
         /\ Places \subseteq Places'
         /\ \A k \in Places \ {0} : BlockAt(k)' = BlockAt(k)
         /\ BlockAt(0)' = block'
         /\ \A k \in Places' : k = Len(boardOpQueue) + 1 => BlockAt(k)' = b
<1>1. PICK n \in Nat : n = Len(boardOpQueue)
  BY DEF TypeOK
<1>2. /\ Len(boardOpQueue') = n + 1
      /\ \A k \in 1 .. n : boardOpQueue'[k] = boardOpQueue[k]
      /\ boardOpQueue'[n + 1] = b
  BY <1>1 DEF TypeOK
<1> QED
  BY <1>1, <1>2 DEF Places, BlockAt

LEMMA PlacesStay ==
  ASSUME boardOpQueue' = boardOpQueue
  PROVE  /\ Places' = Places
         /\ \A k \in Places \ {0} : BlockAt(k)' = BlockAt(k)
         /\ BlockAt(0)' = block'
BY DEF Places, BlockAt

LEMMA PlacesStart ==
  ASSUME TypeOK, BoardBlock
  PROVE  /\ block = Idle
         /\ \A k \in Places' : k + 1 \in Places /\ BlockAt(k)' = BlockAt(k + 1)
         /\ Len(boardOpQueue) = Len(boardOpQueue') + 1
<1>1. /\ block = Idle /\ boardOpQueue # <<>>
      /\ block' = Head(boardOpQueue) /\ boardOpQueue' = Tail(boardOpQueue)
  BY DEF BoardBlock
<1>2. PICK n \in Nat : n + 1 = Len(boardOpQueue)
  <2>1. Len(boardOpQueue) \in Nat \ {0}
    BY <1>1 DEF TypeOK
  <2>2. Len(boardOpQueue) - 1 \in Nat /\ (Len(boardOpQueue) - 1) + 1 = Len(boardOpQueue)
    BY <2>1
  <2> QED
    BY <2>2
<1>3. /\ Len(boardOpQueue') = n
      /\ \A k \in 1 .. n : boardOpQueue'[k] = boardOpQueue[k + 1]
      /\ block' = boardOpQueue[1]
  BY <1>1, <1>2 DEF TypeOK
<1> QED
  BY <1>1, <1>2, <1>3 DEF Places, BlockAt

-----------------------------------------------------------------------------
\* The loads that wait, one step per way the places move.
SyncParts == LoadsWereCalled /\ SyncInv

LEMMA SyncWithoutBlocks ==
  ASSUME CoreInv, MainThread \/ Receive \/ trigerReadOperationQueue \/ displaySync,
         UNCHANGED syncCaller
  PROVE  SyncParts'
<1>1. UNCHANGED <<boardOpQueue, block, loads>>
  BY QuietSteps
<1>2. CASE MainThread \/ Receive \/ trigerReadOperationQueue
  <2>1. awaited' = awaited
    BY <1>2, QuietSteps
  <2>2. Caller \in {"waiting", "display"} \/ Caller' \in {"waiting", "display"} => Caller' = Caller
    <3>1. MainThread => poller' = poller /\ main \notin {"waiting", "display"}
                        /\ (TypeOK => main' \notin {"waiting", "display"})
      <4>1. TypeOK /\ MainBlock => main' \notin {"waiting", "display"}
        <5> SUFFICES ASSUME TypeOK, MainBlock PROVE main' \notin {"waiting", "display"}
          OBVIOUS
        <5>1. Head(mainQueue) \in MainBlocks
          BY DEF TypeOK, MainBlock
        <5>2. Head(mainQueue).kind \in {"read", "draw", "display"}
          BY <5>1 DEF MainBlocks, Read, Draw
        <5> QED
          BY <5>2 DEF MainBlock
      <4> QED
        BY <4>1 DEF MainThread, MainBlock, readIsEmpty, readDequeue, readSlice, drawIsEmpty,
                    drawDequeue, drawShow
    <3>2. Receive \/ trigerReadOperationQueue =>
             /\ main' = main /\ poller \in {"idle", "received"} /\ poller' \in {"idle", "received"}
      BY DEF Receive, trigerReadOperationQueue
    <3> QED
      BY <1>2, <3>1, <3>2 DEF Caller, CoreInv
  <2> QED
    BY <1>1, <2>1, <2>2, PlacesStay
       DEF CoreInv, SyncParts, LoadsWereCalled, SyncInv, Places, BlockAt
<1>3. CASE displaySync
  <2>1. Caller = "display" /\ Caller' = "idle"
    BY <1>3 DEF displaySync, Caller, CallerGoes
  <2>2. \A k \in Places : ~SyncLoad(BlockAt(k))
    BY <2>1 DEF CoreInv, SyncInv
  <2> QED
    BY <1>1, <2>1, <2>2 DEF CoreInv, SyncParts, LoadsWereCalled, SyncInv, Places, BlockAt
<1> QED
  BY <1>2, <1>3

\* A call appends its block.
LEMMA SyncCalls ==
  ASSUME CoreInv, Application, UNCHANGED syncCaller
  PROVE  SyncParts'
<1>1. TypeOK /\ LoadsWereCalled /\ SyncInv /\ loads \in Nat
  BY BoardAssumption DEF CoreInv, TypeOK
<1>2. CASE drawOperation
  <2> DEFINE b == Drawing(draws + 1)
  <2>1. b \in BoardBlocks /\ b.kind = "draw"
    <3>1. draws + 1 \in 1 .. MaxDraws
      <4>1. draws \in 0 .. MaxDraws /\ draws < MaxDraws /\ MaxDraws \in Nat
        BY <1>1, <1>2, BoardAssumption DEF drawOperation, TypeOK
      <4> QED
        BY <4>1
    <3> QED
      BY <3>1 DEF BoardBlocks, Drawing
  <2>2. /\ boardOpQueue' = Append(boardOpQueue, b)
        /\ UNCHANGED <<block, loads, awaited, main, poller>>
    BY <1>2 DEF drawOperation, threads, boardVars
  <2> HIDE DEF b
  <2>3. \A k \in Places' : BlockAt(k)'.kind = "load" => k \in Places /\ BlockAt(k)' = BlockAt(k)
    BY <1>1, <2>1, <2>2, PlacesDispatch, PlaceFacts
  <2> QED
    BY <1>1, <2>2, <2>3 DEF SyncParts, LoadsWereCalled, SyncInv, SyncLoad, Caller
<1>6. CASE requestSnapshot
  <2>1. Snapshot \in BoardBlocks /\ Snapshot.kind # "load"
    BY DEF BoardBlocks, Snapshot
  <2>2. /\ boardOpQueue' = Append(boardOpQueue, Snapshot)
        /\ UNCHANGED <<block, loads, awaited, main, poller>>
    BY <1>6 DEF requestSnapshot, DispatchSnapshot, threads, boardVars
  <2>3. \A k \in Places' : BlockAt(k)'.kind = "load" => k \in Places /\ BlockAt(k)' = BlockAt(k)
    BY <1>1, <2>1, <2>2, PlacesDispatch, PlaceFacts
  <2> QED
    BY <1>1, <2>2, <2>3 DEF SyncParts, LoadsWereCalled, SyncInv, SyncLoad, Caller
<1>3. ASSUME NEW sync \in BOOLEAN, DispatchLoad(sync)
      PROVE  \E b \in BoardBlocks :
               /\ b.kind = "load" /\ b.n = loads + 1 /\ b.sync = sync
               /\ boardOpQueue' = Append(boardOpQueue, b)
               /\ block' = block /\ loads' = loads + 1
               /\ \A k \in Places' : \/ k \in Places /\ BlockAt(k)' = BlockAt(k)
                                     \/ k = Len(boardOpQueue) + 1 /\ BlockAt(k)' = b
               /\ LoadsWereCalled'
  <2>1. PICK decodes \in BOOLEAN :
          /\ loads < MaxLoads /\ loads' = loads + 1
          /\ boardOpQueue' = Append(boardOpQueue, Load(loads + 1, decodes, sync))
          /\ UNCHANGED boardVars
    BY <1>3 DEF DispatchLoad
  <2> DEFINE b == Load(loads + 1, decodes, sync)
  <2>2. b \in BoardBlocks
    <3>1. loads + 1 \in 1 .. MaxLoads
      <4>1. loads \in Nat /\ loads < MaxLoads /\ MaxLoads \in Nat
        BY <1>1, <2>1, BoardAssumption
      <4> QED
        BY <4>1
    <3> QED
      BY <2>1, <3>1 DEF BoardBlocks, Load
  <2>3. b.kind = "load" /\ b.n = loads + 1 /\ b.sync = sync
    BY DEF Load
  <2>4. boardOpQueue' = Append(boardOpQueue, b) /\ block' = block /\ loads' = loads + 1
    BY <2>1 DEF boardVars
  <2> HIDE DEF b
  <2>5. \A k \in Places' : \/ k \in Places /\ BlockAt(k)' = BlockAt(k)
                           \/ k = Len(boardOpQueue) + 1 /\ BlockAt(k)' = b
    BY <1>1, <2>2, <2>4, PlacesDispatch, PlaceFacts
  <2>6. LoadsWereCalled'
    <3>1. \A k \in Places : BlockAt(k).kind = "load" => BlockAt(k).n \in 1 .. MaxLoads
      BY <1>1, PlaceFacts, BlockFacts
    <3> QED
      BY <1>1, <2>3, <2>4, <2>5, <3>1 DEF LoadsWereCalled
  <2> QED
    BY <2>2, <2>3, <2>4, <2>5, <2>6
<1>4. CASE loadDocumentAsync
  <2>1. DispatchLoad(FALSE) /\ UNCHANGED <<main, poller, awaited>>
    BY <1>4 DEF loadDocumentAsync
  <2>2. PICK b \in BoardBlocks :
          /\ b.kind = "load" /\ b.sync = FALSE /\ loads' = loads + 1 /\ LoadsWereCalled'
          /\ \A k \in Places' : \/ k \in Places /\ BlockAt(k)' = BlockAt(k)
                                \/ k = Len(boardOpQueue) + 1 /\ BlockAt(k)' = b
    BY <1>3, <2>1
  <2>3. \A k \in Places' : SyncLoad(BlockAt(k))' => k \in Places /\ BlockAt(k)' = BlockAt(k)
    BY <2>2 DEF SyncLoad
  <2>4. 1 .. loads \subseteq 1 .. loads'
    BY <1>1, <2>2
  <2> QED
    BY <1>1, <2>1, <2>2, <2>3, <2>4 DEF SyncParts, SyncInv, SyncLoad, Caller
<1>5. CASE loadDocumentSync
  <2>1. DispatchLoad(TRUE) /\ awaited' = loads + 1
    BY <1>5 DEF loadDocumentSync
  <2>2. Caller = "idle" /\ Caller' = "waiting"
    BY <1>5 DEF loadDocumentSync, Wait, CallerGoes, Caller
  <2>3. PICK b \in BoardBlocks :
          /\ b.kind = "load" /\ b.n = loads + 1 /\ LoadsWereCalled'
          /\ \A k \in Places' : \/ k \in Places /\ BlockAt(k)' = BlockAt(k)
                                \/ k = Len(boardOpQueue) + 1 /\ BlockAt(k)' = b
    BY <1>3, <2>1
  <2>4. \A k \in Places : ~SyncLoad(BlockAt(k))
    BY <1>1, <2>2 DEF SyncInv
  <2>5. \A k \in Places' : SyncLoad(BlockAt(k))' => k = Len(boardOpQueue) + 1 /\ BlockAt(k)' = b
    BY <2>3, <2>4 DEF SyncLoad
  <2> QED
    BY <2>1, <2>2, <2>3, <2>5 DEF SyncParts, SyncInv
<1> QED
  BY <1>2, <1>4, <1>5, <1>6 DEF Application

\* The board queue takes blocks, runs them, and dispatches snapshots.
LEMMA SyncBoard ==
  ASSUME CoreInv, BoardThread, UNCHANGED syncCaller
  PROVE  SyncParts'
<1>1. TypeOK /\ LoadsWereCalled /\ SyncInv /\ 0 \in Places
  BY PlaceFacts DEF CoreInv
<1>2. CASE BoardBlock
  <2>1. UNCHANGED <<loads, awaited, main, poller>>
    BY <1>2 DEF BoardBlock, threads, calls
  <2>2. \A k \in Places' : k \in Nat /\ k + 1 \in Places /\ BlockAt(k)' = BlockAt(k + 1)
    BY <1>1, <1>2, PlacesStart DEF Places
  <2>3. LoadsWereCalled'
    BY <1>1, <2>1, <2>2 DEF LoadsWereCalled
  <2>4. \A k \in Places' : SyncLoad(BlockAt(k))' => SyncLoad(BlockAt(k + 1))
    BY <2>2 DEF SyncLoad
  <2>5. Caller' = Caller
    BY <2>1 DEF Caller
  <2>6. \A k, l \in Places' : SyncLoad(BlockAt(k))' /\ SyncLoad(BlockAt(l))' => k = l
    BY <1>1, <2>2, <2>4 DEF SyncInv
  <2> QED
    BY <1>1, <2>1, <2>2, <2>3, <2>4, <2>5, <2>6 DEF SyncParts, SyncInv
<1>3. CASE paintBoard \/ releaseSnapshot \/ createSnapshot \/ clearReal \/ clearReceived
  <2>1. UNCHANGED <<boardOpQueue, block, loads, awaited, main, poller>>
    BY <1>3 DEF paintBoard, releaseSnapshot, createSnapshot, clearReal, clearReceived, threads,
                calls, dispatched
  <2> QED
    BY <1>1, <2>1 DEF SyncParts, LoadsWereCalled, SyncInv, Places, BlockAt, SyncLoad, Caller
<1>4. CASE saveSnapshot
  <2>1. /\ boardOpQueue' = Append(boardOpQueue, Snapshot) /\ block' = Idle
        /\ UNCHANGED <<loads, awaited, main, poller>>
    BY <1>4 DEF saveSnapshot, DispatchSnapshot, threads, calls
  <2>2. /\ Snapshot \in BoardBlocks /\ Snapshot.kind # "load" /\ Idle.kind # "load"
    BY DEF BoardBlocks, Snapshot, Idle
  <2>3. \A k \in Places' : BlockAt(k)'.kind = "load" => k \in Places /\ BlockAt(k)' = BlockAt(k)
    BY <1>1, <2>1, <2>2, PlacesDispatch
  <2> QED
    BY <1>1, <2>1, <2>3 DEF SyncParts, LoadsWereCalled, SyncInv, SyncLoad, Caller
<1>5. CASE endSnapshot \/ endLoad
  <2>1. /\ boardOpQueue' = boardOpQueue /\ block' = Idle
        /\ UNCHANGED <<loads, awaited>>
    BY <1>5 DEF endSnapshot, endLoad, threads, calls, dispatched
  <2>2. \A k \in Places' : BlockAt(k)'.kind = "load" =>
           k \in Places /\ k # 0 /\ BlockAt(k)' = BlockAt(k)
    BY <2>1, PlacesStay DEF Idle
  <2>3. LoadsWereCalled'
    BY <1>1, <2>1, <2>2 DEF LoadsWereCalled
  <2>4. CASE Caller' = Caller
    BY <1>1, <2>1, <2>2, <2>3, <2>4 DEF SyncParts, SyncInv, SyncLoad
  <2>5. CASE Caller' # Caller
    <3>1. SyncLoad(block) /\ Caller' = "display"
      BY <1>5, <2>5 DEF endSnapshot, endLoad, Redraw, CallerGoes, Caller, SyncLoad, threads
    <3>2. SyncLoad(BlockAt(0)) /\ BlockAt(0) = block
      BY <3>1 DEF BlockAt
    <3>3. awaited = block.n /\ block.n \in 1 .. loads
      <4>1. block.n \in 1 .. MaxLoads /\ block.n =< loads /\ loads \in Nat
        BY <1>1, <3>1, <3>2, BlockFacts, BoardAssumption DEF LoadsWereCalled, SyncLoad, TypeOK
      <4> QED
        BY <1>1, <3>2, <4>1 DEF SyncInv
    <3>4. \A k \in Places' : ~SyncLoad(BlockAt(k))'
      BY <1>1, <2>2, <3>2 DEF SyncInv, SyncLoad
    <3> QED
      BY <2>1, <2>3, <3>1, <3>3, <3>4 DEF SyncParts, SyncInv
  <2> QED
    BY <2>4, <2>5
<1> QED
  BY <1>2, <1>3, <1>4, <1>5 DEF BoardThread

LEMMA NextCore == CoreInv /\ [Next]_vars => CoreInv'
<1> SUFFICES ASSUME CoreInv, [Next]_vars PROVE CoreInv'
  OBVIOUS
<1>1. CASE UNCHANGED vars
  <2>1. TypeOK' /\ HandInv'
    BY <1>1 DEF vars, queues, dispatched, threads, boardVars, pictures, calls, CoreInv,
                TypeOK, HandInv
  <2>2. LoadsWereCalled' /\ SyncInv'
    BY <1>1 DEF vars, dispatched, threads, boardVars, calls, CoreInv, LoadsWereCalled, SyncInv,
                Places, BlockAt, SyncLoad, Caller
  <2> QED
    BY <2>1, <2>2 DEF CoreInv
<1>2. CASE Next
  <2>1. UNCHANGED syncCaller
    BY <1>2 DEF Next
  <2> QED
    BY <1>2, <2>1, TypeMain, TypeCalls, TypeBoard, SyncWithoutBlocks, SyncCalls, SyncBoard
       DEF Next, CoreInv, SyncParts
<1> QED
  BY <1>1, <1>2

\* The types, with what the board queue's loads have to do with their callers.
THEOREM CoreHolds == Spec => []CoreInv
BY InitCore, NextCore, PTL DEF Spec

\* Every variable stays in its range, however many boards there are and
\* whichever loads the application makes.
THEOREM TypeCorrect == Spec => []TypeOK
<1>1. CoreInv => TypeOK
  BY DEF CoreInv
<1> QED
  BY <1>1, CoreHolds, PTL

-----------------------------------------------------------------------------
\* The operations on their way: what was shown, what drawSelf holds, the real
\* queue, what readOperationQueue holds, and what was received, in this order.
Increasing(queue) == \A k, l \in 1 .. Len(queue) : k < l => queue[k] < queue[l]
Below(S, T) == \A m \in S : \A n \in T : m < n

HeldBy(place) == IF main = place THEN {hand} ELSE {}
OnTheirWay ==
  HeldBy("show") \cup ToSet(realOperationQueue_) \cup HeldBy("slice") \cup ToSet(operationQueue_)

OrderInv ==
  /\ Increasing(operationQueue_) /\ Increasing(realOperationQueue_)
  /\ OnTheirWay \subseteq 1 .. received
  /\ Below(HeldBy("slice"), ToSet(operationQueue_))
  /\ Below(ToSet(realOperationQueue_), HeldBy("slice") \cup ToSet(operationQueue_))
  /\ Below(HeldBy("show"), ToSet(realOperationQueue_) \cup ToSet(operationQueue_))
  /\ \A k \in 1 .. Len(shown) : shown[k].kind = "operation" =>
       /\ shown[k].n \in 1 .. received
       /\ Below({shown[k].n}, OnTheirWay)
  /\ ShownInOrder

-----------------------------------------------------------------------------
\* Appending to a queue and taking its first.
LEMMA AppendFacts ==
  ASSUME NEW queue \in Seq(1 .. MaxOps), NEW e \in 1 .. MaxOps,
         NEW t, t = Append(queue, e)
  PROVE  /\ ToSet(t) = ToSet(queue) \cup {e}
         /\ t # <<>>
         /\ Increasing(queue) /\ Below(ToSet(queue), {e}) => Increasing(t)
<1>2. PICK n \in Nat : n = Len(queue)
  OBVIOUS
<1>3. /\ t \in Seq(1 .. MaxOps) /\ Len(t) = n + 1 /\ t[n + 1] = e
      /\ \A k \in 1 .. n : t[k] = queue[k]
  BY <1>2
<1>4. /\ DOMAIN t = 1 .. n + 1 /\ DOMAIN queue = 1 .. n
      /\ 1 .. n + 1 = (1 .. n) \cup {n + 1}
  BY <1>2, <1>3
<1>5. ToSet(t) = ToSet(queue) \cup {e}
  BY <1>3, <1>4 DEF ToSet
<1>6. t # <<>>
  BY <1>3
<1>7. ASSUME Increasing(queue), Below(ToSet(queue), {e}) PROVE Increasing(t)
  <2> SUFFICES ASSUME NEW k \in 1 .. n + 1, NEW l \in 1 .. n + 1, k < l PROVE t[k] < t[l]
    BY <1>3 DEF Increasing
  <2>1. k \in 1 .. n
    OBVIOUS
  <2>2. CASE l \in 1 .. n
    BY <1>2, <1>3, <1>7, <2>1, <2>2 DEF Increasing
  <2>3. CASE l = n + 1
    <3>1. queue[k] \in ToSet(queue)
      BY <1>4, <2>1 DEF ToSet
    <3> QED
      BY <1>3, <1>7, <2>1, <2>3, <3>1 DEF Below
  <2> QED
    BY <1>4, <2>2, <2>3
<1> QED
  BY <1>5, <1>6, <1>7

LEMMA TailFacts ==
  ASSUME NEW S, S \subseteq Int, NEW queue \in Seq(S), queue # <<>>
  PROVE  /\ ToSet(queue) = {Head(queue)} \cup ToSet(Tail(queue))
         /\ Increasing(queue) => /\ Increasing(Tail(queue))
                                 /\ Below({Head(queue)}, ToSet(Tail(queue)))
<1>1. PICK t : t = Tail(queue)
  OBVIOUS
<1>2. PICK n \in Nat : n = Len(t)
  BY <1>1
<1>3. /\ t \in Seq(S) /\ Len(queue) = n + 1 /\ Head(queue) = queue[1]
      /\ \A k \in 1 .. n : t[k] = queue[k + 1]
  BY <1>1, <1>2
<1>4. /\ DOMAIN t = 1 .. n /\ DOMAIN queue = 1 .. n + 1
      /\ \A k \in 1 .. n : k + 1 \in 1 .. n + 1
      /\ \A k \in 1 .. n + 1 : k = 1 \/ k - 1 \in 1 .. n
      /\ \A k \in 1 .. n + 1 : (k - 1) + 1 = k
  BY <1>2, <1>3
<1>5. ToSet(queue) = {queue[1]} \cup ToSet(t)
  <2>1. ASSUME NEW x \in ToSet(queue) PROVE x \in {queue[1]} \cup ToSet(t)
    <3>1. PICK k \in 1 .. n + 1 : x = queue[k]
      BY <1>4 DEF ToSet
    <3>2. CASE k # 1
      <4>1. k - 1 \in 1 .. n /\ t[k - 1] = x
        BY <1>3, <1>4, <3>1, <3>2
      <4> QED
        BY <1>4, <4>1 DEF ToSet
    <3> QED
      BY <3>1, <3>2
  <2>2. ASSUME NEW x \in ToSet(t) PROVE x \in ToSet(queue)
    <3>1. PICK k \in 1 .. n : x = t[k]
      BY <1>4 DEF ToSet
    <3> QED
      BY <1>3, <1>4, <3>1 DEF ToSet
  <2>3. queue[1] \in ToSet(queue)
    BY <1>4 DEF ToSet
  <2> QED
    BY <2>1, <2>2, <2>3
<1>6. ASSUME Increasing(queue) PROVE Increasing(t) /\ Below({queue[1]}, ToSet(t))
  <2>1. Increasing(t)
    <3> SUFFICES ASSUME NEW k \in 1 .. n, NEW l \in 1 .. n, k < l PROVE t[k] < t[l]
      BY <1>2 DEF Increasing
    <3>1. k + 1 \in 1 .. n + 1 /\ l + 1 \in 1 .. n + 1 /\ k + 1 < l + 1
      OBVIOUS
    <3> QED
      BY <1>3, <1>6, <3>1 DEF Increasing
  <2>2. ASSUME NEW x \in ToSet(t) PROVE queue[1] < x
    <3>1. PICK k \in 1 .. n : x = t[k]
      BY <1>4 DEF ToSet
    <3>2. k + 1 \in 1 .. n + 1 /\ 1 \in 1 .. n + 1 /\ 1 < k + 1
      OBVIOUS
    <3> QED
      BY <1>3, <1>6, <3>1, <3>2 DEF Increasing
  <2> QED
    BY <2>1, <2>2 DEF Below
<1> QED
  BY <1>1, <1>3, <1>5, <1>6

LEMMA EmptyFacts == ToSet(<<>>) = {} /\ Increasing(<<>>)
BY DEF ToSet, Increasing

-----------------------------------------------------------------------------
\* The order in which operations are shown.
LEMMA OpFacts ==
  ASSUME CoreInv
  PROVE  /\ 1 .. MaxOps \subseteq Int /\ received \in 0 .. MaxOps /\ MaxOps \in Nat
         /\ operationQueue_ \in Seq(1 .. MaxOps) /\ realOperationQueue_ \in Seq(1 .. MaxOps)
         /\ shown \in Seq(Showable) /\ Len(shown) \in Nat
         /\ main \in {"slice", "show"} => hand \in 1 .. MaxOps
BY BoardAssumption DEF CoreInv, TypeOK, HandInv

\* Which steps concern them: the others leave all of it alone.
Bystander ==
  /\ UNCHANGED <<operationQueue_, realOperationQueue_, hand, received, epoch>>
  /\ main' = main \/ {main, main'} \cap {"slice", "show", "readSome", "drawSome"} = {}
  /\ shown' = shown \/ \E n \in 1 .. MaxLoads : shown' = Append(shown, Document(n))

LEMMA BystanderSteps ==
  ASSUME CoreInv,
         \/ MainBlock \/ trigerReadOperationQueue \/ displaySync \/ Application \/ BoardBlock
         \/ paintBoard \/ saveSnapshot \/ releaseSnapshot \/ createSnapshot \/ endSnapshot
         \/ endLoad \/ UNCHANGED vars
  PROVE  Bystander
<1>1. CASE MainBlock
  <2>1. Head(mainQueue) \in MainBlocks
    BY <1>1 DEF MainBlock, CoreInv, TypeOK
  <2>2. CASE Head(mainQueue).kind = "display"
    <3>1. Head(mainQueue).n \in 1 .. MaxLoads
      BY <2>1, <2>2 DEF MainBlocks, Read, Draw
    <3> QED
      BY <1>1, <2>2, <3>1 DEF MainBlock, Bystander, queues, calls
  <2>3. CASE Head(mainQueue).kind # "display"
    <3>1. main = "idle" /\ main' \in {"read", "draw"}
      BY <1>1, <2>1, <2>3 DEF MainBlock, MainBlocks, Read, Draw
    <3> QED
      BY <1>1, <2>3, <3>1 DEF MainBlock, Bystander, queues, calls
  <2> QED
    BY <2>2, <2>3
<1>2. CASE displaySync
  <2>1. /\ awaited \in 1 .. MaxLoads /\ shown' = Append(shown, Document(awaited))
        /\ main' = main \/ (main = "display" /\ main' = "idle")
    <3>1. awaited \in 1 .. loads /\ loads \in 0 .. MaxLoads /\ MaxLoads \in Nat
      BY <1>2, BoardAssumption DEF displaySync, CoreInv, SyncInv, TypeOK
    <3> QED
      BY <1>2, <3>1 DEF displaySync, Caller, CallerGoes
  <2> QED
    BY <1>2, <2>1 DEF displaySync, Bystander, queues, calls
<1>3. CASE endLoad
  <2>1. main' = main \/ (main = "waiting" /\ main' = "display")
    <3>1. CASE SyncLoad(block) /\ syncCaller = "main"
      <4>1. main = "waiting"
        BY <3>1, PlaceFacts DEF CoreInv, SyncInv, Caller
      <4> QED
        BY <1>3, <3>1, <4>1 DEF endLoad, Redraw, CallerGoes, SyncLoad
    <3>2. CASE ~(SyncLoad(block) /\ syncCaller = "main")
      BY <1>3, <3>2 DEF endLoad, Redraw, CallerGoes, SyncLoad
    <3> QED
      BY <3>1, <3>2
  <2> QED
    BY <1>3, <2>1 DEF endLoad, Bystander, queues, calls
<1>4. CASE Application
  <2>1. main' = main \/ (main = "idle" /\ main' = "waiting")
    BY <1>4 DEF Application, drawOperation, requestSnapshot,
                loadDocumentAsync, loadDocumentSync, Wait, CallerGoes,
                Caller, threads
  <2>2. UNCHANGED <<operationQueue_, realOperationQueue_, hand, received, epoch, shown>>
    BY <1>4 DEF Application, drawOperation, requestSnapshot,
                loadDocumentAsync, loadDocumentSync, DispatchLoad,
                queues, threads
  <2> QED
    BY <2>1, <2>2 DEF Bystander
<1>5. CASE trigerReadOperationQueue \/ BoardBlock \/ paintBoard \/ saveSnapshot
           \/ releaseSnapshot \/ createSnapshot \/ endSnapshot \/ UNCHANGED vars
  BY <1>5 DEF trigerReadOperationQueue, BoardBlock, paintBoard, saveSnapshot, releaseSnapshot,
              createSnapshot, endSnapshot, vars, queues, threads, calls, Bystander
<1> QED
  BY <1>1, <1>2, <1>3, <1>4, <1>5

\* What was shown, as the canvas sees it.
ShownBelow ==
  \A k \in 1 .. Len(shown) : shown[k].kind = "operation" =>
    shown[k].n \in 1 .. received /\ Below({shown[k].n}, OnTheirWay)

\* Shown documents, and operations above all shown before, keep the order.
LEMMA ShownStays ==
  ASSUME CoreInv, ShownInOrder, ShownBelow,
         \/ shown' = shown
         \/ \E n \in 1 .. MaxLoads : shown' = Append(shown, Document(n)),
         received' \in {received, received + 1},
         OnTheirWay' \subseteq OnTheirWay \cup {received + 1}
  PROVE  ShownInOrder' /\ ShownBelow'
<1>1. PICK m \in Nat : m = Len(shown)
  BY OpFacts
<1>2. /\ \A k \in 1 .. Len(shown') : shown'[k].kind = "operation" =>
            k \in 1 .. m /\ shown'[k] = shown[k]
  <2>1. CASE shown' = shown
    BY <1>1, <2>1
  <2>2. ASSUME NEW n \in 1 .. MaxLoads, shown' = Append(shown, Document(n))
        PROVE  \A k \in 1 .. Len(shown') : shown'[k].kind = "operation" =>
                 k \in 1 .. m /\ shown'[k] = shown[k]
    <3>1. /\ Len(shown') = m + 1 /\ shown'[m + 1] = Document(n)
          /\ \A k \in 1 .. m : shown'[k] = shown[k]
      BY <1>1, <2>2, OpFacts
    <3>2. Document(n).kind # "operation"
      BY DEF Document
    <3> QED
      BY <1>1, <3>1, <3>2
  <2> QED
    BY <2>1, <2>2
<1>3. ASSUME NEW k \in 1 .. Len(shown'), shown'[k].kind = "operation"
      PROVE  shown'[k].n \in 1 .. received' /\ Below({shown'[k].n}, OnTheirWay')
  <2>1. PICK x : x = shown'[k].n
    OBVIOUS
  <2>2. x \in 1 .. received /\ Below({x}, OnTheirWay)
    BY <1>1, <1>2, <1>3, <2>1 DEF ShownBelow
  <2>3. received \in Nat
    BY OpFacts
  <2>4. x \in 1 .. received' /\ x < received + 1
    BY <2>2, <2>3
  <2> QED
    BY <2>1, <2>2, <2>4 DEF Below
<1>4. ShownInOrder'
  <2> SUFFICES ASSUME NEW k \in 1 .. Len(shown'), NEW l \in 1 .. Len(shown'), k < l,
                      shown'[k].kind = "operation", shown'[l].kind = "operation"
               PROVE  shown'[k].n < shown'[l].n
    BY DEF ShownInOrder
  <2> QED
    BY <1>1, <1>2 DEF ShownInOrder
<1> QED
  BY <1>3, <1>4 DEF ShownBelow

LEMMA NextOrder ==
  ASSUME CoreInv, OrderInv, [Next]_vars
  PROVE  OrderInv'
<1> DEFINE Got == ToSet(operationQueue_)
           Real == ToSet(realOperationQueue_)
<1>1. ShownInOrder /\ ShownBelow
  BY DEF OrderInv, ShownBelow
<1>2. CASE Bystander
  <2>1. HeldBy("show")' = HeldBy("show") /\ HeldBy("slice")' = HeldBy("slice")
    BY <1>2 DEF Bystander, HeldBy
  <2>2. OnTheirWay' = OnTheirWay /\ received' = received
    BY <1>2, <2>1 DEF Bystander, OnTheirWay
  <2>3. ShownInOrder' /\ ShownBelow'
    BY <1>1, <1>2, <2>2, ShownStays DEF Bystander
  <2> QED
    BY <1>2, <2>1, <2>2, <2>3 DEF Bystander, OrderInv, ShownBelow
<1>3. CASE Receive
  <2>1. /\ received' = received + 1 /\ operationQueue_' = Append(operationQueue_, received + 1)
        /\ UNCHANGED <<realOperationQueue_, main, hand, shown>> /\ received + 1 \in 1 .. MaxOps
    <3>1. received \in 0 .. MaxOps /\ received < MaxOps /\ MaxOps \in Nat
      BY <1>3, OpFacts DEF Receive
    <3>2. received + 1 \in 1 .. MaxOps
      BY <3>1
    <3> QED
      BY <1>3, <3>2 DEF Receive
  <2>2. /\ HeldBy("show")' = HeldBy("show") /\ HeldBy("slice")' = HeldBy("slice")
        /\ Real' = Real
    BY <2>1 DEF HeldBy
  <2>3. \A n \in OnTheirWay : n < received + 1
    <3>1. received \in Nat /\ OnTheirWay \subseteq 1 .. received
      BY OpFacts DEF OrderInv
    <3> QED
      BY <3>1
  <2>4. Got' = Got \cup {received + 1} /\ Increasing(operationQueue_')
    <3>1. Below(ToSet(operationQueue_), {received + 1})
      BY <2>3 DEF Below, OnTheirWay
    <3>2. PICK e \in 1 .. MaxOps : e = received + 1
      BY <2>1
    <3>3. Increasing(operationQueue_) /\ Below(ToSet(operationQueue_), {e})
      BY <3>1, <3>2 DEF OrderInv
    <3>4. /\ operationQueue_ \in Seq(1 .. MaxOps)
          /\ operationQueue_' = Append(operationQueue_, e)
      BY <2>1, <3>2, OpFacts
    <3>5. ToSet(operationQueue_') = ToSet(operationQueue_) \cup {e} /\ Increasing(operationQueue_')
      BY <3>3, <3>4, AppendFacts
    <3> QED
      BY <3>2, <3>5
  <2>5. OnTheirWay' = OnTheirWay \cup {received + 1}
    BY <2>2, <2>4 DEF OnTheirWay
  <2>6. ShownInOrder' /\ ShownBelow'
    BY <1>1, <2>1, <2>5, ShownStays
  <2>7. OnTheirWay' \subseteq 1 .. received'
    <3>1. received \in Nat /\ OnTheirWay \subseteq 1 .. received
      BY OpFacts DEF OrderInv
    <3>2. 1 .. received \subseteq 1 .. received + 1 /\ received + 1 \in 1 .. received + 1
      BY <3>1
    <3> QED
      BY <2>1, <2>5, <3>1, <3>2
  <2>8. /\ Below(HeldBy("slice"), Got') /\ Below(Real, HeldBy("slice") \cup Got')
        /\ Below(HeldBy("show"), Real \cup Got')
    BY <2>3, <2>4 DEF Below, OrderInv, OnTheirWay
  <2> QED
    BY <2>1, <2>2, <2>4, <2>6, <2>7, <2>8 DEF OrderInv, ShownBelow
<1>4. CASE readIsEmpty \/ drawIsEmpty
  <2>1. /\ UNCHANGED <<operationQueue_, realOperationQueue_, hand, received, shown>>
        /\ {main, main'} \cap {"slice", "show"} = {}
    BY <1>4 DEF readIsEmpty, drawIsEmpty, queues, calls
  <2>2. HeldBy("show")' = HeldBy("show") /\ HeldBy("slice")' = HeldBy("slice")
    BY <2>1 DEF HeldBy
  <2>3. OnTheirWay' = OnTheirWay
    BY <2>1, <2>2 DEF OnTheirWay
  <2>4. ShownInOrder' /\ ShownBelow'
    BY <1>1, <2>1, <2>3, ShownStays
  <2> QED
    BY <2>1, <2>2, <2>3, <2>4 DEF OrderInv, ShownBelow
<1>5. CASE readDequeue /\ operationQueue_ # <<>>
  <2>1. /\ hand' = Head(operationQueue_) /\ operationQueue_' = Tail(operationQueue_)
        /\ main = "readSome" /\ main' = "slice"
        /\ UNCHANGED <<realOperationQueue_, received, shown>>
    BY <1>5 DEF readDequeue, First, calls
  <2>2. /\ HeldBy("slice") = {} /\ HeldBy("show") = {} /\ HeldBy("show")' = {}
        /\ HeldBy("slice")' = {hand'} /\ Real' = Real
    BY <2>1 DEF HeldBy
  <2>3. /\ Got = {hand'} \cup Got' /\ Increasing(operationQueue_') /\ Below({hand'}, Got')
    BY <1>5, <2>1, OpFacts, TailFacts DEF OrderInv
  <2>4. OnTheirWay' = OnTheirWay
    BY <2>2, <2>3 DEF OnTheirWay
  <2>5. ShownInOrder' /\ ShownBelow'
    BY <1>1, <2>1, <2>4, ShownStays
  <2>6. Below(Real, {hand'} \cup Got')
    BY <2>2, <2>3 DEF OrderInv, Below
  <2>7. Below({}, Real \cup Got')
    BY DEF Below
  <2> QED
    BY <2>1, <2>2, <2>3, <2>4, <2>5, <2>6, <2>7 DEF OrderInv, ShownBelow
<1>6. CASE readSlice
  <2>1. /\ realOperationQueue_' = Append(realOperationQueue_, hand)
        /\ main = "slice" /\ main' = "read"
        /\ UNCHANGED <<operationQueue_, hand, received, shown>>
    BY <1>6 DEF readSlice, calls
  <2>2. /\ HeldBy("slice") = {hand} /\ HeldBy("show") = {} /\ HeldBy("show")' = {}
        /\ HeldBy("slice")' = {} /\ Got' = Got
    BY <2>1 DEF HeldBy
  <2>3. Below(Real, {hand}) /\ Below({hand}, Got) /\ Below(Real, Got)
    BY <2>2 DEF OrderInv, Below
  <2>4. Real' = Real \cup {hand} /\ Increasing(realOperationQueue_')
    <3>1. Increasing(realOperationQueue_) /\ hand \in 1 .. MaxOps
      BY <2>1, OpFacts DEF OrderInv
    <3>2. realOperationQueue_ \in Seq(1 .. MaxOps)
      BY OpFacts
    <3> QED
      BY <2>1, <2>3, <3>1, <3>2, AppendFacts
  <2>5. OnTheirWay' = OnTheirWay
    BY <2>2, <2>4 DEF OnTheirWay
  <2>6. ShownInOrder' /\ ShownBelow'
    BY <1>1, <2>1, <2>5, ShownStays
  <2>7. /\ Below({}, Got) /\ Below(Real', {} \cup Got) /\ Below({}, Real' \cup Got)
    BY <2>3, <2>4 DEF Below
  <2> QED
    BY <2>1, <2>2, <2>4, <2>5, <2>6, <2>7 DEF OrderInv, ShownBelow
<1>7. CASE drawDequeue /\ realOperationQueue_ # <<>>
  <2>1. /\ hand' = Head(realOperationQueue_) /\ realOperationQueue_' = Tail(realOperationQueue_)
        /\ main = "drawSome" /\ main' = "show"
        /\ UNCHANGED <<operationQueue_, received, shown>>
    BY <1>7 DEF drawDequeue, First, calls
  <2>2. /\ HeldBy("slice") = {} /\ HeldBy("show") = {} /\ HeldBy("slice")' = {}
        /\ HeldBy("show")' = {hand'} /\ Got' = Got
    BY <2>1 DEF HeldBy
  <2>3. /\ Real = {hand'} \cup Real' /\ Increasing(realOperationQueue_') /\ Below({hand'}, Real')
    BY <1>7, <2>1, OpFacts, TailFacts DEF OrderInv
  <2>4. OnTheirWay' = OnTheirWay
    BY <2>2, <2>3 DEF OnTheirWay
  <2>5. ShownInOrder' /\ ShownBelow'
    BY <1>1, <2>1, <2>4, ShownStays
  <2>6. Below(Real, Got)
    BY <2>2 DEF OrderInv, Below
  <2>7. Below({}, Got) /\ Below(Real', {} \cup Got) /\ Below({hand'}, Real' \cup Got)
    BY <2>3, <2>6 DEF Below
  <2> QED
    BY <2>1, <2>2, <2>3, <2>4, <2>5, <2>7 DEF OrderInv, ShownBelow
<1>8. CASE drawShow
  <2>1. /\ shown' = Append(shown, Operation(hand)) /\ main = "show" /\ main' = "draw"
        /\ UNCHANGED <<operationQueue_, realOperationQueue_, hand, received>>
    BY <1>8 DEF drawShow, queues, calls
  <2>2. /\ HeldBy("slice") = {} /\ HeldBy("show") = {hand} /\ HeldBy("slice")' = {}
        /\ HeldBy("show")' = {} /\ Got' = Got /\ Real' = Real
    BY <2>1 DEF HeldBy
  <2>3. Below(Real, Got) /\ Below({hand}, Real \cup Got)
    BY <2>2 DEF OrderInv, Below
  <2>4. OnTheirWay' = Real \cup Got /\ OnTheirWay = {hand} \cup Real \cup Got
    BY <2>2 DEF OnTheirWay
  <2>5. /\ Operation(hand).kind = "operation" /\ Operation(hand).n = hand
        /\ Operation(hand) \in Showable
    BY <2>1, OpFacts DEF Operation, Showable
  <2>6. PICK m \in Nat : m = Len(shown)
    BY OpFacts
  <2>7. /\ Len(shown') = m + 1 /\ shown'[m + 1] = Operation(hand)
        /\ \A k \in 1 .. m : shown'[k] = shown[k]
    BY <2>1, <2>5, <2>6, OpFacts
  <2>8. ASSUME NEW k \in 1 .. m, shown[k].kind = "operation"
        PROVE  /\ shown[k].n \in 1 .. received /\ shown[k].n < hand
               /\ Below({shown[k].n}, OnTheirWay')
    BY <1>1, <2>4, <2>6, <2>8 DEF ShownBelow, Below
  <2>9. hand \in 1 .. received /\ Below({hand}, OnTheirWay')
    BY <2>3, <2>4 DEF OrderInv
  <2>10. ShownBelow'
    <3> SUFFICES ASSUME NEW k \in 1 .. m + 1, shown'[k].kind = "operation"
                 PROVE  shown'[k].n \in 1 .. received /\ Below({shown'[k].n}, OnTheirWay')
      BY <2>1, <2>7 DEF ShownBelow
    <3>1. CASE k = m + 1
      BY <2>5, <2>7, <2>9, <3>1
    <3>2. CASE k \in 1 .. m
      BY <2>7, <2>8, <3>2
    <3> QED
      BY <3>1, <3>2
  <2>11. ShownInOrder'
    <3> SUFFICES ASSUME NEW k \in 1 .. m + 1, NEW l \in 1 .. m + 1, k < l,
                        shown'[k].kind = "operation", shown'[l].kind = "operation"
                 PROVE  shown'[k].n < shown'[l].n
      BY <2>7 DEF ShownInOrder
    <3>1. k \in 1 .. m
      OBVIOUS
    <3>2. CASE l = m + 1
      BY <2>5, <2>7, <2>8, <3>1, <3>2
    <3>3. CASE l \in 1 .. m
      BY <1>1, <2>6, <2>7, <3>1, <3>3 DEF ShownInOrder
    <3> QED
      BY <3>2, <3>3
  <2>12. /\ Below({}, Got) /\ Below(Real, {} \cup Got) /\ Below({}, Real \cup Got)
    BY <2>3 DEF Below
  <2> QED
    BY <2>1, <2>2, <2>4, <2>10, <2>11, <2>12 DEF OrderInv, ShownBelow
<1>9. CASE \/ readDequeue /\ operationQueue_ = <<>>
           \/ drawDequeue /\ realOperationQueue_ = <<>>
  <2>1. UNCHANGED <<operationQueue_, realOperationQueue_, hand, main, received, shown>>
    BY <1>9 DEF readDequeue, drawDequeue, calls
  <2>2. /\ HeldBy("show")' = HeldBy("show") /\ HeldBy("slice")' = HeldBy("slice")
    BY <2>1 DEF HeldBy
  <2>3. OnTheirWay' = OnTheirWay
    BY <2>1, <2>2 DEF OnTheirWay
  <2>4. ShownInOrder' /\ ShownBelow'
    BY <1>1, <2>1, <2>3, ShownStays
  <2> QED
    BY <2>1, <2>2, <2>3, <2>4 DEF OrderInv, ShownBelow
<1>10. CASE clearReal \/ clearReceived
  <2>1. /\ operationQueue_' \in {operationQueue_, <<>>}
        /\ realOperationQueue_' \in {realOperationQueue_, <<>>}
        /\ UNCHANGED <<hand, main, received, shown>>
    BY <1>10 DEF clearReal, clearReceived, EmptyReal, threads, calls
  <2>2. /\ HeldBy("show")' = HeldBy("show") /\ HeldBy("slice")' = HeldBy("slice")
        /\ Got' \in {Got, {}} /\ Real' \in {Real, {}}
        /\ Increasing(operationQueue_') /\ Increasing(realOperationQueue_')
    BY <2>1, EmptyFacts DEF HeldBy, OrderInv
  <2>3. OnTheirWay' \subseteq OnTheirWay
    BY <2>2 DEF OnTheirWay
  <2>4. ShownInOrder' /\ ShownBelow'
    BY <1>1, <2>1, <2>3, ShownStays
  <2>5. /\ Below(HeldBy("slice"), Got') /\ Below(Real', HeldBy("slice") \cup Got')
        /\ Below(HeldBy("show"), Real' \cup Got')
    BY <2>2 DEF Below, OrderInv
  <2> QED
    BY <2>1, <2>2, <2>3, <2>4, <2>5 DEF OrderInv, ShownBelow
<1> QED
  BY <1>2, <1>3, <1>4, <1>5, <1>6, <1>7, <1>8, <1>9, <1>10, BystanderSteps
     DEF Next, MainThread, BoardThread

LEMMA InitOrder == Init => OrderInv
<1> SUFFICES ASSUME Init PROVE OrderInv
  OBVIOUS
<1>1. /\ operationQueue_ = <<>> /\ realOperationQueue_ = <<>> /\ Len(shown) = 0
      /\ HeldBy("slice") = {} /\ HeldBy("show") = {}
  BY DEF Init, HeldBy
<1>2. ToSet(operationQueue_) = {} /\ ToSet(realOperationQueue_) = {} /\ OnTheirWay = {}
  BY <1>1, EmptyFacts DEF OnTheirWay
<1> QED
  BY <1>1, <1>2, EmptyFacts DEF OrderInv, Below, ShownInOrder

\* The operations are in the order received all along their way: shown, held
\* by drawSelf, in the real queue, held by readOperationQueue, received.
THEOREM OrderHolds == Spec => []OrderInv
<1>1. CoreInv /\ OrderInv /\ [Next]_vars => OrderInv'
  BY NextOrder
<1> QED
  BY <1>1, InitOrder, CoreHolds, PTL DEF Spec

\* The canvas gets the operations in the order received, none twice, whatever
\* loads clear in between and on whatever thread.
THEOREM OperationsInOrder == Spec => []ShownInOrder
<1>1. OrderInv => ShownInOrder
  BY DEF OrderInv
<1> QED
  BY <1>1, OrderHolds, PTL

-----------------------------------------------------------------------------
\* Nothing lost and nothing stale, when every load is loadDocumentSync:.

\* When every load is loadDocumentSync:, a load in the board queue means that
\* its caller waits.
AllSync == \A k \in Places : BlockAt(k).kind = "load" => BlockAt(k).sync

\* Called by the poller: nothing is received while a load is on its way.
LostInv ==
  /\ \A n \in 1 .. received : epoch[n] =< loads
  /\ syncCaller = "poller" /\ Caller = "waiting" => \A n \in 1 .. received : epoch[n] < loads
  /\ LostOnlyToLaterLoad

\* Called on the main thread: what is in the queues when the caller goes on
\* was received after its call, and nobody empties them behind a check.
FreshInv == syncCaller = "main" =>
  /\ main # "waiting" => \A n \in OnTheirWay : epoch[n] = loads
  /\ block.kind = "load" /\ at > BOARD_NUM + 1 => realOperationQueue_ = <<>>
  /\ block.kind = "load" /\ at > BOARD_NUM + 2 =>
       \A n \in ToSet(operationQueue_) : epoch[n] = loads
  /\ main = "readSome" => operationQueue_ # <<>>
  /\ main = "drawSome" => realOperationQueue_ # <<>>
  /\ ~crashed

\* The steps that leave the blocks of the board queue alone.
SameBlocks == UNCHANGED <<boardOpQueue, block>>

LEMMA NextAllSync ==
  ASSUME "async" \notin LoadKinds, CoreInv, AllSync, [Next]_vars
  PROVE  AllSync'
<1>1. TypeOK /\ 0 \in Places
  BY PlaceFacts DEF CoreInv
<1>2. CASE SameBlocks
  BY <1>2 DEF SameBlocks, AllSync, Places, BlockAt
<1>3. ASSUME NEW b \in BoardBlocks, boardOpQueue' = Append(boardOpQueue, b),
             b.kind = "load" => b.sync, block' \in {block, Idle}
      PROVE  AllSync'
  <2>1. \A k \in Places' : BlockAt(k)'.kind = "load" =>
           \/ k \in Places /\ BlockAt(k)' = BlockAt(k)
           \/ BlockAt(k)' = b
    BY <1>1, <1>3, PlacesDispatch, PlaceFacts DEF Idle
  <2> QED
    BY <1>3, <2>1 DEF AllSync
<1>4. CASE drawOperation
  <2>1. draws + 1 \in 1 .. MaxDraws
    <3>1. draws \in 0 .. MaxDraws /\ draws < MaxDraws /\ MaxDraws \in Nat
      BY <1>1, <1>4, BoardAssumption DEF drawOperation, TypeOK
    <3> QED
      BY <3>1
  <2>2. Drawing(draws + 1) \in BoardBlocks /\ Drawing(draws + 1).kind # "load"
    BY <2>1 DEF BoardBlocks, Drawing
  <2> QED
    BY <1>3, <1>4, <2>2 DEF drawOperation, boardVars
<1>5. CASE loadDocumentSync
  <2>1. PICK decodes \in BOOLEAN :
          /\ loads < MaxLoads
          /\ boardOpQueue' = Append(boardOpQueue, Load(loads + 1, decodes, TRUE))
          /\ block' = block
    BY <1>5 DEF loadDocumentSync, DispatchLoad, boardVars
  <2>2. loads + 1 \in 1 .. MaxLoads
    <3>1. loads \in 0 .. MaxLoads /\ loads < MaxLoads /\ MaxLoads \in Nat
      BY <1>1, <2>1, BoardAssumption DEF TypeOK
    <3> QED
      BY <3>1
  <2>3. Load(loads + 1, decodes, TRUE) \in BoardBlocks /\ Load(loads + 1, decodes, TRUE).sync
    BY <2>1, <2>2 DEF BoardBlocks, Load
  <2> QED
    BY <1>3, <2>1, <2>3
<1>6. CASE saveSnapshot
  <2>1. Snapshot \in BoardBlocks /\ Snapshot.kind # "load"
    BY DEF BoardBlocks, Snapshot
  <2> QED
    BY <1>3, <1>6, <2>1 DEF saveSnapshot, DispatchSnapshot
<1>11. CASE requestSnapshot
  <2>1. Snapshot \in BoardBlocks /\ Snapshot.kind # "load"
    BY DEF BoardBlocks, Snapshot
  <2> QED
    BY <1>3, <1>11, <2>1 DEF requestSnapshot, DispatchSnapshot, boardVars
<1>7. CASE BoardBlock
  BY <1>1, <1>7, PlacesStart DEF AllSync
<1>8. CASE endSnapshot \/ endLoad
  <2>1. boardOpQueue' = boardOpQueue /\ block' = Idle
    BY <1>8 DEF endSnapshot, endLoad, dispatched
  <2> QED
    BY <2>1, PlacesStay DEF AllSync, Idle
<1>9. CASE \/ MainThread \/ Receive \/ trigerReadOperationQueue \/ displaySync
           \/ paintBoard \/ releaseSnapshot \/ createSnapshot \/ clearReal \/ clearReceived
           \/ UNCHANGED vars
  <2>1. SameBlocks
    BY <1>9, QuietSteps DEF paintBoard, releaseSnapshot, createSnapshot, clearReal, clearReceived,
       vars, dispatched, boardVars, SameBlocks
  <2> QED
    BY <1>2, <2>1
<1>10. ~loadDocumentAsync
  BY DEF loadDocumentAsync
<1> QED
  BY <1>4, <1>5, <1>6, <1>7, <1>8, <1>9, <1>10, <1>11 DEF Next, Application, BoardThread

\* A load that is run has its caller waiting.
LEMMA CallerWaits ==
  ASSUME CoreInv, AllSync, block.kind = "load"
  PROVE  SyncLoad(block) /\ Caller = "waiting"
<1>1. 0 \in Places /\ BlockAt(0) = block
  BY PlaceFacts DEF CoreInv
<1>2. SyncLoad(block)
  BY <1>1 DEF AllSync, SyncLoad
<1> QED
  BY <1>1, <1>2 DEF CoreInv, SyncInv

\* What is received is on its way.
LEMMA ReceivedWaits ==
  ASSUME CoreInv, Receive
  PROVE  /\ OnTheirWay' = OnTheirWay \cup {received + 1} /\ shown' = shown
         /\ ToSet(operationQueue_') = ToSet(operationQueue_) \cup {received + 1}
         /\ operationQueue_' # <<>>
<1>1. /\ operationQueue_' = Append(operationQueue_, received + 1)
      /\ UNCHANGED <<realOperationQueue_, main, hand, shown>> /\ received + 1 \in 1 .. MaxOps
  <2>1. received \in 0 .. MaxOps /\ received < MaxOps /\ MaxOps \in Nat
    BY OpFacts DEF Receive
  <2>2. received + 1 \in 1 .. MaxOps
    BY <2>1
  <2> QED
    BY <2>2 DEF Receive
<1>2. HeldBy("show")' = HeldBy("show") /\ HeldBy("slice")' = HeldBy("slice")
  BY <1>1 DEF HeldBy
<1>3. PICK e \in 1 .. MaxOps : e = received + 1
  BY <1>1
<1>4. operationQueue_ \in Seq(1 .. MaxOps) /\ operationQueue_' = Append(operationQueue_, e)
  BY <1>1, <1>3, OpFacts
<1>5. ToSet(operationQueue_') = ToSet(operationQueue_) \cup {e} /\ operationQueue_' # <<>>
  BY <1>4, AppendFacts
<1> QED
  BY <1>1, <1>2, <1>3, <1>5 DEF OnTheirWay

\* How a step changes what is on its way.
LEMMA WaySteps ==
  ASSUME CoreInv, [Next]_vars
  PROVE  \/ /\ OnTheirWay' = OnTheirWay
            /\ shown' = shown \/ \E n \in 1 .. MaxLoads : shown' = Append(shown, Document(n))
         \/ Receive /\ OnTheirWay' = OnTheirWay \cup {received + 1} /\ shown' = shown
         \/ /\ drawShow /\ OnTheirWay = OnTheirWay' \cup {hand}
            /\ shown' = Append(shown, Operation(hand))
         \/ (clearReal \/ clearReceived) /\ OnTheirWay' \subseteq OnTheirWay /\ shown' = shown
<1> DEFINE Got == ToSet(operationQueue_)
           Real == ToSet(realOperationQueue_)
<1>1. CASE Bystander
  <2>1. HeldBy("show")' = HeldBy("show") /\ HeldBy("slice")' = HeldBy("slice")
    BY <1>1 DEF Bystander, HeldBy
  <2> QED
    BY <1>1, <2>1 DEF Bystander, OnTheirWay
<1>2. CASE Receive
  BY <1>2, ReceivedWaits
<1>3. CASE \/ readIsEmpty \/ drawIsEmpty
           \/ readDequeue /\ operationQueue_ = <<>>
           \/ drawDequeue /\ realOperationQueue_ = <<>>
  <2>1. /\ UNCHANGED <<operationQueue_, realOperationQueue_, hand, shown>>
        /\ main' = main \/ {main, main'} \cap {"slice", "show"} = {}
    BY <1>3 DEF readIsEmpty, drawIsEmpty, readDequeue, drawDequeue, queues
  <2>2. HeldBy("show")' = HeldBy("show") /\ HeldBy("slice")' = HeldBy("slice")
    BY <2>1 DEF HeldBy
  <2> QED
    BY <2>1, <2>2 DEF OnTheirWay
<1>4. CASE readDequeue /\ operationQueue_ # <<>>
  <2>1. /\ hand' = Head(operationQueue_) /\ operationQueue_' = Tail(operationQueue_)
        /\ main = "readSome" /\ main' = "slice"
        /\ UNCHANGED <<realOperationQueue_, shown>>
    BY <1>4 DEF readDequeue, First
  <2>2. /\ HeldBy("slice") = {} /\ HeldBy("show") = {} /\ HeldBy("show")' = {}
        /\ HeldBy("slice")' = {hand'}
    BY <2>1 DEF HeldBy
  <2>3. Got = {hand'} \cup Got'
    BY <1>4, <2>1, OpFacts, TailFacts
  <2> QED
    BY <2>1, <2>2, <2>3 DEF OnTheirWay
<1>5. CASE readSlice
  <2>1. /\ realOperationQueue_' = Append(realOperationQueue_, hand)
        /\ main = "slice" /\ main' = "read" /\ hand \in 1 .. MaxOps
        /\ UNCHANGED <<operationQueue_, hand, shown>>
    BY <1>5, OpFacts DEF readSlice
  <2>2. /\ HeldBy("slice") = {hand} /\ HeldBy("show") = {} /\ HeldBy("show")' = {}
        /\ HeldBy("slice")' = {}
    BY <2>1 DEF HeldBy
  <2>3. realOperationQueue_ \in Seq(1 .. MaxOps)
    BY OpFacts
  <2>4. Real' = Real \cup {hand}
    BY <2>1, <2>3, AppendFacts
  <2> QED
    BY <2>1, <2>2, <2>4 DEF OnTheirWay
<1>6. CASE drawDequeue /\ realOperationQueue_ # <<>>
  <2>1. /\ hand' = Head(realOperationQueue_) /\ realOperationQueue_' = Tail(realOperationQueue_)
        /\ main = "drawSome" /\ main' = "show"
        /\ UNCHANGED <<operationQueue_, shown>>
    BY <1>6 DEF drawDequeue, First
  <2>2. /\ HeldBy("slice") = {} /\ HeldBy("show") = {} /\ HeldBy("slice")' = {}
        /\ HeldBy("show")' = {hand'}
    BY <2>1 DEF HeldBy
  <2>3. Real = {hand'} \cup Real'
    BY <1>6, <2>1, OpFacts, TailFacts
  <2> QED
    BY <2>1, <2>2, <2>3 DEF OnTheirWay
<1>7. CASE drawShow
  <2>1. /\ shown' = Append(shown, Operation(hand)) /\ main = "show" /\ main' = "draw"
        /\ UNCHANGED <<operationQueue_, realOperationQueue_, hand>>
    BY <1>7 DEF drawShow, queues
  <2>2. /\ HeldBy("slice") = {} /\ HeldBy("show") = {hand} /\ HeldBy("slice")' = {}
        /\ HeldBy("show")' = {}
    BY <2>1 DEF HeldBy
  <2> QED
    BY <1>7, <2>1, <2>2 DEF OnTheirWay
<1>8. CASE clearReal \/ clearReceived
  <2>1. /\ operationQueue_' \in {operationQueue_, <<>>}
        /\ realOperationQueue_' \in {realOperationQueue_, <<>>}
        /\ UNCHANGED <<hand, main, shown>>
    BY <1>8 DEF clearReal, clearReceived, EmptyReal, threads
  <2>2. /\ HeldBy("show")' = HeldBy("show") /\ HeldBy("slice")' = HeldBy("slice")
        /\ Got' \in {Got, {}} /\ Real' \in {Real, {}}
    BY <2>1, EmptyFacts DEF HeldBy
  <2> QED
    BY <1>8, <2>1, <2>2 DEF OnTheirWay
<1> QED
  BY <1>1, <1>2, <1>3, <1>4, <1>5, <1>6, <1>7, <1>8, BystanderSteps
     DEF Next, MainThread, BoardThread

\* How a step changes the calls counted and the epochs of what was received.
LEMMA EpochSteps ==
  ASSUME CoreInv, [Next]_vars
  PROVE  /\ loads \in Nat /\ received \in Nat
         /\ loads' = loads \/ loads' = loads + 1
         /\ \A n \in 1 .. received : epoch[n] \in Nat /\ epoch'[n] = epoch[n]
         /\ \/ received' = received
            \/ /\ Receive /\ received' = received + 1 /\ loads' = loads
               /\ epoch'[received + 1] = loads
               /\ \A n \in 1 .. received' : n \in 1 .. received \/ n = received + 1
<1>1. /\ loads \in 0 .. MaxLoads /\ received \in Nat /\ loads \in Nat
      /\ epoch \in Seq(0 .. MaxLoads) /\ Len(epoch) = received
  BY BoardAssumption DEF CoreInv, TypeOK
<1>2. \A n \in 1 .. received : epoch[n] \in Nat
  <2>1. \A n \in 1 .. Len(epoch) : epoch[n] \in 0 .. MaxLoads
    BY <1>1, ElementOfSeq
  <2>2. 0 .. MaxLoads \subseteq Nat
    BY BoardAssumption
  <2> QED
    BY <1>1, <2>1, <2>2
<1>3. CASE Receive
  <2>1. received' = received + 1 /\ loads' = loads /\ epoch' = Append(epoch, loads)
    BY <1>3 DEF Receive
  <2>2. /\ \A n \in 1 .. received : epoch'[n] = epoch[n]
        /\ epoch'[received + 1] = loads
    BY <1>1, <2>1
  <2>3. \A n \in 1 .. received + 1 : n \in 1 .. received \/ n = received + 1
    BY <1>1
  <2> QED
    BY <1>1, <1>2, <1>3, <2>1, <2>2, <2>3
<1>4. CASE ~Receive
  <2>1. UNCHANGED <<received, epoch>> /\ (loads' = loads \/ loads' = loads + 1)
    <3>1. CASE Application
      BY <3>1 DEF Application, drawOperation, requestSnapshot,
                  loadDocumentAsync, loadDocumentSync, DispatchLoad
    <3>2. CASE MainThread \/ trigerReadOperationQueue \/ displaySync
      BY <3>2, QuietSteps
    <3>3. CASE BoardThread \/ UNCHANGED vars
      BY <3>3 DEF BoardThread, BoardBlock, paintBoard, saveSnapshot, releaseSnapshot,
                  createSnapshot, endSnapshot, clearReal, clearReceived, endLoad, vars, calls
    <3> QED
      BY <1>4, <3>1, <3>2, <3>3 DEF Next
  <2> QED
    BY <1>1, <1>2, <2>1
<1> QED
  BY <1>3, <1>4

\* The properties speak of queues and of shown as sequences.
LEMMA QueuedFacts == CoreInv => \A n : Queued(n) <=> n \in OnTheirWay
<1> SUFFICES ASSUME CoreInv PROVE \A n : Queued(n) <=> n \in OnTheirWay
  OBVIOUS
<1>1. /\ DOMAIN operationQueue_ = 1 .. Len(operationQueue_)
      /\ DOMAIN realOperationQueue_ = 1 .. Len(realOperationQueue_)
  BY OpFacts
<1>2. \A n : /\ n \in ToSet(operationQueue_) <=>
                  \E k \in 1 .. Len(operationQueue_) : operationQueue_[k] = n
             /\ n \in ToSet(realOperationQueue_) <=>
                  \E k \in 1 .. Len(realOperationQueue_) : realOperationQueue_[k] = n
  BY <1>1 DEF ToSet
<1>3. \A n : n \in HeldBy("show") \cup HeldBy("slice") <=>
               main \in {"slice", "show"} /\ hand = n
  BY DEF HeldBy
<1> QED
  BY <1>2, <1>3 DEF Queued, OnTheirWay

LEMMA QueuedNext == CoreInv' => (\A n : Queued(n) <=> n \in OnTheirWay)'
BY QueuedFacts, PTL

LEMMA ShownGrows ==
  ASSUME CoreInv, NEW x \in Showable, shown' = Append(shown, x)
  PROVE  /\ \A n : ShowsOperation(n) => ShowsOperation(n)'
         /\ \A n : x = Operation(n) => ShowsOperation(n)'
<1>1. PICK m \in Nat : m = Len(shown)
  BY OpFacts
<1>2. /\ Len(shown') = m + 1 /\ shown'[m + 1] = x
      /\ \A k \in 1 .. m : shown'[k] = shown[k]
  BY <1>1, OpFacts
<1>3. m + 1 \in 1 .. m + 1 /\ 1 .. m \subseteq 1 .. m + 1
  OBVIOUS
<1> QED
  BY <1>1, <1>2, <1>3 DEF ShowsOperation

\* What was shown stays shown, and drawShow adds what it holds.
LEMMA ShownStill ==
  ASSUME CoreInv, [Next]_vars
  PROVE  /\ \A n : ShowsOperation(n) => ShowsOperation(n)'
         /\ \A n : drawShow /\ n = hand => ShowsOperation(n)'
<1>1. CASE shown' = shown /\ ~drawShow
  BY <1>1 DEF ShowsOperation
<1>2. ASSUME NEW n \in 1 .. MaxLoads, shown' = Append(shown, Document(n)), ~drawShow
      PROVE  \A k : ShowsOperation(k) => ShowsOperation(k)'
  <2>1. Document(n) \in Showable
    BY DEF Document, Showable
  <2> QED
    BY <1>2, <2>1, ShownGrows
<1>3. CASE drawShow
  <2>1. shown' = Append(shown, Operation(hand)) /\ hand \in 1 .. MaxOps
    BY <1>3, OpFacts DEF drawShow
  <2>2. Operation(hand) \in Showable
    BY <2>1 DEF Operation, Showable
  <2> QED
    BY <2>1, <2>2, ShownGrows
<1> QED
  BY <1>1, <1>2, <1>3, WaySteps

\* When the caller of loadDocumentSync: is the poller, and waits.
LEMMA PollerWaits ==
  ASSUME "async" \notin LoadKinds, CoreInv, [Next]_vars,
         syncCaller = "poller", Caller' = "waiting"
  PROVE  loadDocumentSync \/ (Caller = "waiting" /\ ~Receive /\ loads' = loads)
<1>1. UNCHANGED syncCaller
  BY DEF Next, vars
<1>2. poller' = "waiting"
  BY <1>1 DEF Caller
<1>3. CASE Receive \/ trigerReadOperationQueue \/ displaySync
  BY <1>2, <1>3 DEF Receive, trigerReadOperationQueue, displaySync, CallerGoes
<1>4. CASE Application
  BY <1>2, <1>4 DEF Application, drawOperation, requestSnapshot,
                    loadDocumentAsync, threads, Caller, Receive
<1>5. CASE MainThread
  BY <1>2, <1>5 DEF MainThread, MainBlock, readIsEmpty, readDequeue, readSlice, drawIsEmpty,
                    drawDequeue, drawShow, calls, Caller, Receive
<1>6. CASE BoardThread \/ UNCHANGED vars
  <2>1. endLoad => poller' \in {poller, "display"} /\ loads' = loads
    BY DEF endLoad, Redraw, CallerGoes, calls
  <2>2. ~endLoad => poller' = poller /\ loads' = loads
    BY <1>6 DEF BoardThread, BoardBlock, paintBoard, saveSnapshot, releaseSnapshot,
                createSnapshot, endSnapshot, clearReal, clearReceived, vars, calls, threads
  <2> QED
    BY <1>2, <1>6, <2>1, <2>2 DEF Caller, Receive
<1> QED
  BY <1>3, <1>4, <1>5, <1>6 DEF Next

LEMMA NextLost ==
  ASSUME "async" \notin LoadKinds, CoreInv, AllSync, LostInv, [Next]_vars
  PROVE  LostInv'
<1>1. CoreInv' /\ syncCaller' = syncCaller
  BY NextCore DEF Next, vars
<1>2. /\ loads \in Nat /\ received \in Nat /\ loads' \in Nat /\ loads =< loads'
      /\ \A n \in 1 .. received : epoch[n] \in Nat /\ epoch'[n] = epoch[n]
  BY EpochSteps
<1>3. \A n \in 1 .. received' : epoch'[n] =< loads'
  BY <1>2, EpochSteps DEF LostInv
<1>4. ASSUME syncCaller = "poller", Caller' = "waiting"
      PROVE  \A n \in 1 .. received' : epoch'[n] < loads'
  <2>1. CASE loadDocumentSync
    <3>1. received' = received /\ epoch' = epoch /\ loads' = loads + 1
      BY <2>1 DEF loadDocumentSync, DispatchLoad
    <3> QED
      BY <1>2, <3>1 DEF LostInv
  <2>2. CASE Caller = "waiting" /\ ~Receive /\ loads' = loads
    <3>1. received' = received
      BY <2>2, EpochSteps
    <3> QED
      BY <1>2, <1>4, <2>2, <3>1 DEF LostInv
  <2> QED
    BY <1>4, <2>1, <2>2, PollerWaits
<1>5. ASSUME syncCaller = "poller", NEW n \in 1 .. received'
      PROVE  Queued(n)' \/ ShowsOperation(n)' \/ epoch'[n] < loads'
  <2>1. CASE Receive /\ n = received + 1
    <3>1. n \in OnTheirWay'
      BY <2>1, ReceivedWaits
    <3> QED
      BY <1>1, <3>1, QueuedNext
  <2>2. CASE n \in 1 .. received
    <3>1. CASE epoch[n] < loads
      BY <1>2, <2>2, <3>1
    <3>2. CASE ShowsOperation(n)
      BY <3>2, ShownStill
    <3>3. CASE n \in OnTheirWay
      <4>1. CASE n \in OnTheirWay'
        BY <1>1, <4>1, QueuedNext
      <4>2. CASE n = hand /\ drawShow
        BY <4>2, ShownStill
      <4>3. CASE clearReal \/ clearReceived
        <5>1. block.kind = "load"
          BY <4>3 DEF clearReal, clearReceived
        <5>2. epoch[n] < loads
          BY <1>5, <2>2, <5>1, CallerWaits DEF LostInv
        <5> QED
          BY <1>2, <2>2, <5>2
      <4> QED
        BY <3>3, <4>1, <4>2, <4>3, WaySteps
    <3> QED
      BY <1>5, <2>2, <3>1, <3>2, <3>3, QueuedFacts DEF LostInv, LostOnlyToLaterLoad
  <2> QED
    BY <2>1, <2>2, EpochSteps
<1> QED
  BY <1>1, <1>3, <1>4, <1>5 DEF LostInv, LostOnlyToLaterLoad

LEMMA InitLost == Init => AllSync /\ LostInv
<1> SUFFICES ASSUME Init PROVE AllSync /\ LostInv
  OBVIOUS
<1>1. \A k \in Places : BlockAt(k).kind = "idle"
  BY DEF Init, Places, BlockAt, Idle
<1>2. 1 .. received = {}
  BY DEF Init
<1> QED
  BY <1>1, <1>2 DEF AllSync, LostInv, LostOnlyToLaterLoad

\* Called by the poller, loadDocumentSync: loses nothing that is newer than
\* its document: every received operation is on its way or shown, or a load
\* was called after it was received, when the application makes no
\* asynchronous loads.
THEOREM NothingLostToEarlierLoads ==
  ASSUME "async" \notin LoadKinds
  PROVE  Spec => []LostOnlyToLaterLoad
<1>1. CoreInv /\ AllSync /\ LostInv /\ [Next]_vars => (AllSync /\ LostInv)'
  BY NextAllSync, NextLost
<1>2. LostInv => LostOnlyToLaterLoad
  BY DEF LostInv
<1> QED
  BY <1>1, <1>2, InitLost, CoreHolds, PTL DEF Spec

\* Steps that count a load, and steps at the end of one, when the main thread
\* is the caller.
LEMMA LoadSteps ==
  ASSUME "async" \notin LoadKinds, CoreInv, AllSync, syncCaller = "main", [Next]_vars
  PROVE  /\ syncCaller' = "main"
         /\ loads' = loads \/ (main = "idle" /\ main' = "waiting")
         /\ block.kind = "load" => main = "waiting" /\ block.sync
         /\ main = "waiting" => /\ ~MainThread
                                /\ main' = "waiting" \/ (endLoad /\ block.sync /\ main' = "display")
<1>1. syncCaller' = "main"
  BY DEF Next, vars
<1>2. block.kind = "load" => main = "waiting" /\ block.sync
  BY CallerWaits DEF SyncLoad, Caller
<1>3. CASE Application
  <2>1. \/ loads' = loads /\ main' = main
        \/ main = "idle" /\ main' = "waiting"
    BY <1>3 DEF Application, drawOperation, requestSnapshot,
                loadDocumentAsync, loadDocumentSync, Caller, Wait,
                CallerGoes, threads
  <2>2. ~MainThread \/ main # "waiting"
    BY DEF MainThread, MainBlock, readIsEmpty, readDequeue, readSlice, drawIsEmpty, drawDequeue,
           drawShow
  <2>3. main = "waiting" => main' = "waiting"
    BY <2>1
  <2>4. loads' = loads \/ (main = "idle" /\ main' = "waiting")
    BY <2>1
  <2> QED
    BY <1>1, <1>2, <2>2, <2>3, <2>4
<1>4. CASE MainThread
  <2>1. main # "waiting" /\ loads' = loads
    BY <1>4 DEF MainThread, MainBlock, readIsEmpty, readDequeue, readSlice, drawIsEmpty,
                drawDequeue, drawShow, calls
  <2> QED
    BY <1>1, <1>2, <2>1
<1>5. CASE \/ Receive \/ trigerReadOperationQueue \/ displaySync \/ BoardThread \/ UNCHANGED vars
  <2>1. loads' = loads
    BY <1>5 DEF Receive, trigerReadOperationQueue, displaySync, BoardThread, BoardBlock,
                paintBoard, saveSnapshot, releaseSnapshot, createSnapshot, endSnapshot, clearReal,
                clearReceived, endLoad, vars, calls
  <2>2. main = "waiting" => ~MainThread
    BY DEF MainThread, MainBlock, readIsEmpty, readDequeue, readSlice, drawIsEmpty, drawDequeue,
           drawShow
  <2>3. main = "waiting" /\ endLoad => block.sync /\ main' = "display"
    BY <1>2 DEF endLoad, Redraw, CallerGoes
  <2>4. main = "waiting" /\ ~endLoad => main' = main
    BY <1>5 DEF Receive, trigerReadOperationQueue, displaySync, BoardThread, BoardBlock,
                paintBoard, saveSnapshot, releaseSnapshot, createSnapshot, endSnapshot, clearReal,
                clearReceived, vars, threads, Caller
  <2>5. main = "waiting" => main' = "waiting" \/ (endLoad /\ block.sync /\ main' = "display")
    BY <2>3, <2>4
  <2> QED
    BY <1>1, <1>2, <2>1, <2>2, <2>5
<1> QED
  BY <1>3, <1>4, <1>5 DEF Next

\* A load past its contexts was there before the step, which is not one of the
\* main thread.
LEMMA PastContexts ==
  ASSUME "async" \notin LoadKinds, CoreInv, AllSync, syncCaller = "main", [Next]_vars,
         block'.kind = "load", at' > BOARD_NUM + 1
  PROVE  /\ block.kind = "load"
         /\ \/ clearReal /\ at' = BOARD_NUM + 2
            \/ clearReceived /\ at = BOARD_NUM + 2
            \/ /\ at' = at /\ realOperationQueue_' = realOperationQueue_
               /\ Receive \/ operationQueue_' = operationQueue_
         /\ loads' = loads
<1>1. BOARD_NUM \in Nat \ {0} /\ at \in 1 .. BOARD_NUM + 3
  BY BoardAssumption DEF CoreInv, TypeOK
<1>2. CASE MainThread
  <2>1. block' = block
    BY <1>2, QuietSteps
  <2> QED
    BY <1>2, <2>1, LoadSteps
<1>3. CASE Receive \/ trigerReadOperationQueue \/ displaySync
  BY <1>3 DEF Receive, trigerReadOperationQueue, displaySync, boardVars, queues, calls
<1>4. CASE Application
  <2>1. /\ block' = block /\ at' = at
        /\ UNCHANGED <<operationQueue_, realOperationQueue_>>
    BY <1>4 DEF Application, drawOperation, requestSnapshot,
                loadDocumentAsync, loadDocumentSync, DispatchLoad,
                boardVars, queues
  <2>2. main = "waiting"
    BY <2>1, LoadSteps
  <2>3. loads' = loads
    BY <2>2, LoadSteps
  <2> QED
    BY <2>1, <2>3
<1>5. CASE BoardBlock
  <2>1. at' = 1
    BY <1>5 DEF BoardBlock
  <2> QED
    BY <1>1, <2>1
<1>6. CASE paintBoard
  <2>1. at \in 1 .. BOARD_NUM /\ at' = at + 1
    BY <1>6 DEF paintBoard, InLoop, Boards, Paint, NextBoard
  <2> QED
    BY <1>1, <2>1
<1>7. CASE saveSnapshot \/ endSnapshot \/ endLoad
  <2>1. block' = Idle
    BY <1>7 DEF saveSnapshot, endSnapshot, endLoad
  <2> QED
    BY <2>1 DEF Idle
<1>8. CASE releaseSnapshot \/ createSnapshot
  BY <1>8 DEF releaseSnapshot, createSnapshot
<1>9. CASE clearReal
  <2>1. block.kind = "load" /\ at = BOARD_NUM + 1 /\ at' = at + 1 /\ loads' = loads
    BY <1>9 DEF clearReal, LoopDone, NextBoard, calls
  <2>2. at' = BOARD_NUM + 2
    BY <1>1, <2>1
  <2> QED
    BY <1>9, <2>1, <2>2
<1>10. CASE clearReceived
  BY <1>10 DEF clearReceived, calls
<1>11. CASE UNCHANGED vars
  BY <1>11 DEF vars, boardVars, queues, calls
<1> QED
  BY <1>2, <1>3, <1>4, <1>5, <1>6, <1>7, <1>8, <1>9, <1>10, <1>11 DEF Next, BoardThread

\* Received operations keep their epoch; a new one gets the load count.
LEMMA FreshReceived ==
  ASSUME CoreInv, [Next]_vars, loads' = loads,
         NEW S, S \subseteq 1 .. received, \A n \in S : epoch[n] = loads,
         NEW m, m \in S \/ (Receive /\ m = received + 1)
  PROVE  epoch'[m] = loads'
<1>1. CASE m \in S
  BY <1>1, EpochSteps
<1>2. CASE Receive /\ m = received + 1
  <2>1. received' = received + 1 /\ received \in Nat
    BY <1>2, EpochSteps DEF Receive
  <2>2. received' # received
    BY <2>1
  <2> QED
    BY <1>2, <2>2, EpochSteps
<1> QED
  BY <1>1, <1>2

LEMMA NextFresh ==
  ASSUME "async" \notin LoadKinds, CoreInv, AllSync, OrderInv, FreshInv, [Next]_vars
  PROVE  FreshInv'
<1> SUFFICES ASSUME syncCaller = "main"
             PROVE  FreshInv'
  BY DEF FreshInv, Next, vars
<1>1. /\ main # "waiting" => \A n \in OnTheirWay : epoch[n] = loads
      /\ block.kind = "load" /\ at > BOARD_NUM + 1 => realOperationQueue_ = <<>>
      /\ block.kind = "load" /\ at > BOARD_NUM + 2 =>
           \A n \in ToSet(operationQueue_) : epoch[n] = loads
      /\ main = "readSome" => operationQueue_ # <<>>
      /\ main = "drawSome" => realOperationQueue_ # <<>>
      /\ ~crashed
  BY DEF FreshInv
<1>2. BOARD_NUM \in Nat \ {0} /\ at \in 1 .. BOARD_NUM + 3 /\ OnTheirWay \subseteq 1 .. received
  BY BoardAssumption DEF CoreInv, TypeOK, OrderInv
<1>3. ASSUME main' # "waiting", NEW n \in OnTheirWay' PROVE epoch'[n] = loads'
  <2>1. CASE main # "waiting"
    <3>1. loads' = loads
      BY <1>3, LoadSteps
    <3>2. n \in OnTheirWay \/ (Receive /\ n = received + 1)
      BY <1>3, WaySteps
    <3> QED
      BY <1>1, <1>2, <2>1, <3>1, <3>2, FreshReceived
  <2>2. CASE main = "waiting"
    <3>1. endLoad /\ main' = "display" /\ block.kind = "load" /\ at = BOARD_NUM + 3
      BY <1>3, <2>2, LoadSteps DEF endLoad
    <3>2. at > BOARD_NUM + 1 /\ at > BOARD_NUM + 2
      BY <1>2, <3>1
    <3>3. realOperationQueue_ = <<>> /\ \A m \in ToSet(operationQueue_) : epoch[m] = loads
      BY <1>1, <3>1, <3>2
    <3>4. UNCHANGED <<operationQueue_, realOperationQueue_, epoch, loads>>
      BY <3>1 DEF endLoad, queues, calls
    <3>5. OnTheirWay' = ToSet(operationQueue_)
      BY <3>1, <3>3, <3>4, EmptyFacts DEF OnTheirWay, HeldBy
    <3> QED
      BY <1>3, <3>3, <3>4, <3>5
  <2> QED
    BY <2>1, <2>2
<1>4. ASSUME block'.kind = "load", at' > BOARD_NUM + 1 PROVE realOperationQueue_' = <<>>
  <2>1. CASE clearReal
    BY <2>1 DEF clearReal, EmptyReal
  <2>2. CASE clearReceived /\ at = BOARD_NUM + 2
    <3>1. at > BOARD_NUM + 1 /\ block.kind = "load" /\ realOperationQueue_' = realOperationQueue_
      BY <1>2, <2>2 DEF clearReceived
    <3> QED
      BY <1>1, <3>1
  <2>3. CASE at' = at /\ realOperationQueue_' = realOperationQueue_ /\ block.kind = "load"
    BY <1>1, <1>4, <2>3
  <2> QED
    BY <1>4, <2>1, <2>2, <2>3, PastContexts
<1>5. ASSUME block'.kind = "load", at' > BOARD_NUM + 2, NEW n \in ToSet(operationQueue_')
      PROVE  epoch'[n] = loads'
  <2>1. at' > BOARD_NUM + 1 /\ at' # BOARD_NUM + 2
    <3>1. at' \in Nat
      <4>1. TypeOK'
        BY NextCore DEF CoreInv
      <4>2. at' \in 1 .. BOARD_NUM + 3
        BY <4>1 DEF TypeOK
      <4> QED
        BY <1>2, <4>2
    <3> QED
      BY <1>2, <1>5, <3>1
  <2>2. CASE clearReceived
    BY <1>5, <2>2, EmptyFacts DEF clearReceived
  <2>3. CASE /\ at' = at /\ block.kind = "load"
             /\ Receive \/ operationQueue_' = operationQueue_
    <3>1. ToSet(operationQueue_) \subseteq 1 .. received
      BY <1>2 DEF OnTheirWay
    <3>2. n \in ToSet(operationQueue_) \/ (Receive /\ n = received + 1)
      <4>1. CASE operationQueue_' = operationQueue_
        BY <1>5, <4>1
      <4>2. CASE Receive
        BY <1>5, <4>2, ReceivedWaits
      <4> QED
        BY <2>3, <4>1, <4>2
    <3>3. loads' = loads
      BY <1>5, <2>1, PastContexts
    <3>4. \A m \in ToSet(operationQueue_) : epoch[m] = loads
      BY <1>1, <1>5, <2>3
    <3> QED
      BY <3>1, <3>2, <3>3, <3>4, FreshReceived
  <2> QED
    BY <1>5, <2>1, <2>2, <2>3, PastContexts
<1>6. /\ main' = "readSome" => operationQueue_' # <<>>
      /\ main' = "drawSome" => realOperationQueue_' # <<>>
      /\ ~crashed'
  <2>1. CASE MainThread
    <3>1. CASE MainBlock
      <4>1. Head(mainQueue) \in MainBlocks
        BY <3>1 DEF MainBlock, CoreInv, TypeOK
      <4>2. main' \notin {"readSome", "drawSome"} /\ crashed' = crashed
        BY <3>1, <4>1 DEF MainBlock, MainBlocks, Read, Draw
      <4> QED
        BY <1>1, <4>2
    <3> QED
      BY <1>1, <2>1, <3>1 DEF MainThread, readIsEmpty, readDequeue, readSlice, drawIsEmpty,
         drawDequeue, drawShow, queues
  <2>2. CASE Receive
    <3>1. operationQueue_' # <<>>
      BY <2>2, ReceivedWaits
    <3> QED
      BY <1>1, <2>2, <3>1 DEF Receive
  <2>3. CASE clearReal \/ clearReceived
    <3>1. main' = main /\ main = "waiting" /\ crashed' = crashed
      BY <2>3, LoadSteps DEF clearReal, clearReceived, threads
    <3> QED
      BY <1>1, <3>1
  <2>4. CASE Bystander /\ crashed' = crashed
    BY <1>1, <2>4 DEF Bystander
  <2>5. CASE \/ trigerReadOperationQueue \/ displaySync \/ Application \/ BoardBlock \/ paintBoard
             \/ saveSnapshot \/ releaseSnapshot \/ createSnapshot \/ endSnapshot \/ endLoad
             \/ UNCHANGED vars
    <3>1. crashed' = crashed
      BY <2>5 DEF trigerReadOperationQueue, displaySync, Application, drawOperation, requestSnapshot,
         loadDocumentAsync, loadDocumentSync, DispatchLoad, BoardBlock, paintBoard, saveSnapshot,
         releaseSnapshot, createSnapshot, endSnapshot, endLoad, vars
    <3> QED
      BY <2>4, <2>5, <3>1, BystanderSteps
  <2> QED
    BY <2>1, <2>2, <2>3, <2>5 DEF Next, BoardThread
<1> QED
  BY <1>3, <1>4, <1>5, <1>6 DEF FreshInv

LEMMA InitFresh == Init => FreshInv
<1> SUFFICES ASSUME Init PROVE FreshInv
  OBVIOUS
<1>1. OnTheirWay = {}
  BY EmptyFacts DEF Init, OnTheirWay, HeldBy
<1> QED
  BY <1>1 DEF Init, FreshInv, Idle

\* Without asynchronous loads every load has its caller waiting, and with the
\* main thread as the caller no queue holds an operation older than the last
\* load.
THEOREM SyncLoadsHold ==
  ASSUME "async" \notin LoadKinds
  PROVE  Spec => [](AllSync /\ FreshInv)
<1>1. /\ CoreInv /\ OrderInv /\ AllSync /\ FreshInv /\ [Next]_vars => (AllSync /\ FreshInv)'
  BY NextAllSync, NextFresh
<1> QED
  BY <1>1, InitLost, InitFresh, CoreHolds, OrderHolds, PTL DEF Spec

\* Called on the main thread, loadDocumentSync: never empties a queue between
\* the emptiness check of readOperationQueue or drawSelf and its dequeue, so
\* that dequeue never throws, when there are no asynchronous loads.
THEOREM NoDequeueOfEmpty ==
  ASSUME "async" \notin LoadKinds
  PROVE  Spec => []NoEmptyDequeue
<1>1. AllSync /\ FreshInv => NoEmptyDequeue
  BY DEF FreshInv, NoEmptyDequeue
<1> QED
  BY <1>1, SyncLoadsHold, PTL

\* The last shown is one thing.
LEMMA LastShown ==
  ASSUME CoreInv, NEW x \in Showable, NEW y \in Showable, Append(shown, x) = Append(shown, y)
  PROVE  x = y
<1>1. Append(shown, x)[Len(shown) + 1] = x /\ Append(shown, y)[Len(shown) + 1] = y
  BY OpFacts
<1> QED
  BY <1>1

\* Called on the main thread, loadDocumentSync: with no asynchronous loads, an
\* operation received before the call is never shown after it.
THEOREM NothingStaleShown ==
  ASSUME "async" \notin LoadKinds
  PROVE  Spec => NoStaleShown
<1>1. ASSUME CoreInv, OrderInv, AllSync /\ FreshInv, [Next]_vars
      PROVE  [syncCaller = "main" =>
                \A n \in 1 .. received : shown' = Append(shown, Operation(n)) => epoch[n] = loads]_shown
  <2> SUFFICES ASSUME syncCaller = "main", shown' # shown,
                      NEW n \in 1 .. received, shown' = Append(shown, Operation(n))
               PROVE  epoch[n] = loads
    OBVIOUS
  <2>1. Operation(n) \in Showable
    <3>1. n \in 1 .. MaxOps
      <4>1. received \in 0 .. MaxOps /\ MaxOps \in Nat
        BY <1>1, OpFacts
      <4> QED
        BY <4>1
    <3> QED
      BY <3>1 DEF Operation, Showable
  <2>2. ASSUME NEW m \in 1 .. MaxLoads, shown' = Append(shown, Document(m)) PROVE FALSE
    <3>1. Document(m) \in Showable /\ Document(m) # Operation(n)
      BY DEF Document, Operation, Showable
    <3> QED
      BY <1>1, <2>1, <2>2, <3>1, LastShown
  <2>3. CASE drawShow /\ shown' = Append(shown, Operation(hand))
    <3>1. main = "show" /\ hand \in 1 .. MaxOps
      BY <1>1, <2>3, OpFacts DEF drawShow
    <3>2. Operation(hand) \in Showable
      BY <3>1 DEF Operation, Showable
    <3>3. Operation(hand) = Operation(n)
      BY <1>1, <2>1, <2>3, <3>2, LastShown
    <3>4. hand = n
      BY <3>3 DEF Operation
    <3>5. n \in OnTheirWay
      BY <3>1, <3>4 DEF OnTheirWay, HeldBy
    <3> QED
      BY <1>1, <3>1, <3>5 DEF FreshInv
  <2> QED
    BY <1>1, <2>2, <2>3, WaySteps
<1> QED
  BY <1>1, CoreHolds, OrderHolds, SyncLoadsHold, PTL DEF Spec, NoStaleShown
-----------------------------------------------------------------------------
(***************************************************************************)
(* The pictures: the contexts, the snapshots and the documents on the      *)
(* display.  A context has no state of its own: it is the beginning of     *)
(* requested that the blocks before it account for (ReplayInv).  What the  *)
(* snapshots and the display promise rests on that.                        *)
(***************************************************************************)

\* A block that paints, and what it paints.
Paints(b) == b.kind = "draw" \/ (b.kind = "load" /\ b.decodes)
ItemOf(b) == IF b.kind = "draw" THEN b ELSE Document(b.n)

\* upTo[k] is how much of requested is painted when the block at place k ends.
Accounts(upTo) ==
  /\ upTo \in [Places -> 0 .. Len(requested)]
  /\ upTo[Len(boardOpQueue)] = Len(requested)
  /\ \A k \in Places \ {0} :
       upTo[k] = IF Paints(BlockAt(k)) THEN upTo[k - 1] + 1 ELSE upTo[k - 1]
  /\ \A k \in Places : Paints(BlockAt(k)) =>
       upTo[k] >= 1 /\ requested[upTo[k]] = ItemOf(BlockAt(k))
  /\ \A i \in Boards :
       Len(context_[i]) = IF Paints(block) /\ at =< i THEN upTo[0] - 1 ELSE upTo[0]

Copies == \A i \in Boards : \A k \in 1 .. Len(context_[i]) : context_[i][k] = requested[k]

ReplayInv == Copies /\ \E upTo \in [Places -> 0 .. Len(requested)] : Accounts(upTo)

\* All boards have one snapshot s, a beginning of every context; while it is
\* renewed, the boards before at have the new one.
OneSnapshot(s) ==
  /\ \A i \in Boards :
       IF block.kind = "snapshot" /\ i < at THEN latestSnapshot_[i] = context_[i]
       ELSE \/ latestSnapshot_[i] = s
            \/ block.kind = "snapshot" /\ i = at /\ latestSnapshot_[i] = Released
  /\ \A i \in Boards :
       Len(s) =< Len(context_[i]) /\ \A k \in 1 .. Len(s) : s[k] = context_[i][k]

SnapshotInv == \E s \in Seq(Items) : OneSnapshot(s)

\* A document the canvas was told of, or is about to be.
Finished(n) ==
  \/ OnCanvas(n)
  \/ \E k \in 1 .. Len(mainQueue) : mainQueue[k] = Display(n)
  \/ Caller = "display" /\ awaited = n

DocumentInv ==
  /\ \A n \in 1 .. MaxLoads : Finished(n) =>
       n =< loads /\ (Decodes(n) => \A i \in Boards : Painted(n, i))
  /\ \A k \in Places : BlockAt(k).kind = "load" /\ ~BlockAt(k).decodes =>
       ~Decodes(BlockAt(k).n)
  /\ \A k \in 1 .. Len(requested) : requested[k].kind = "document" => requested[k].n =< loads

-----------------------------------------------------------------------------
\* To the pictures, a step is one that leaves them alone, a call, or a step of
\* the board queue.
Quiet == UNCHANGED <<boardOpQueue, block, at, context_, latestSnapshot_, requested, loads>>

Call(b) ==
  /\ boardOpQueue' = Append(boardOpQueue, b)
  /\ requested' = IF Paints(b) THEN Append(requested, ItemOf(b)) ELSE requested
  /\ b.kind = "load" => loads' = loads + 1 /\ b.n = loads + 1
  /\ b.kind # "load" => loads' = loads
  /\ UNCHANGED <<block, at, context_, latestSnapshot_, mainQueue, shown>>

LEMMA CallSteps ==
  ASSUME CoreInv, Application
  PROVE  \E b \in BoardBlocks : Call(b)
<1>1. CASE drawOperation
  <2> DEFINE b == Drawing(draws + 1)
  <2>1. b \in BoardBlocks
    <3>1. draws \in 0 .. MaxDraws /\ draws < MaxDraws /\ MaxDraws \in Nat
      BY <1>1, BoardAssumption DEF drawOperation, CoreInv, TypeOK
    <3>2. draws + 1 \in 1 .. MaxDraws
      BY <3>1
    <3> QED
      BY <3>2 DEF BoardBlocks, Drawing
  <2>2. Paints(b) /\ ItemOf(b) = b /\ b.kind = "draw" /\ b # Snapshot
    BY DEF Paints, ItemOf, Drawing, Snapshot
  <2>3. /\ boardOpQueue' = Append(boardOpQueue, b) /\ requested' = Append(requested, b)
        /\ UNCHANGED <<block, at, context_, latestSnapshot_, mainQueue, shown, loads>>
    BY <1>1 DEF drawOperation, boardVars, pictures
  <2> HIDE DEF b
  <2> QED
    BY <2>1, <2>2, <2>3 DEF Call
<1>2. ASSUME NEW sync \in BOOLEAN, DispatchLoad(sync)
      PROVE  \E b \in BoardBlocks : Call(b)
  <2>1. PICK decodes \in BOOLEAN :
          /\ loads < MaxLoads /\ loads' = loads + 1
          /\ boardOpQueue' = Append(boardOpQueue, Load(loads + 1, decodes, sync))
          /\ requested' = IF decodes THEN Append(requested, Document(loads + 1)) ELSE requested
          /\ UNCHANGED <<boardVars, mainQueue, shown>>
    BY <1>2 DEF DispatchLoad
  <2> DEFINE b == Load(loads + 1, decodes, sync)
  <2>2. b \in BoardBlocks
    <3>1. loads \in 0 .. MaxLoads /\ MaxLoads \in Nat
      BY BoardAssumption DEF CoreInv, TypeOK
    <3>2. loads + 1 \in 1 .. MaxLoads
      BY <2>1, <3>1
    <3> QED
      BY <1>2, <2>1, <3>2 DEF BoardBlocks, Load
  <2>3. /\ b.kind = "load" /\ b.n = loads + 1 /\ b # Snapshot
        /\ ItemOf(b) = Document(loads + 1) /\ (Paints(b) <=> decodes)
    BY <2>1 DEF Paints, ItemOf, Load, Snapshot
  <2>4. UNCHANGED <<block, at, context_, latestSnapshot_, mainQueue, shown>>
    BY <2>1 DEF boardVars, pictures
  <2>5. /\ boardOpQueue' = Append(boardOpQueue, b)
        /\ requested' = IF Paints(b) THEN Append(requested, ItemOf(b)) ELSE requested
    BY <2>1, <2>3
  <2> HIDE DEF b
  <2> QED
    BY <2>1, <2>2, <2>3, <2>4, <2>5 DEF Call
<1>3. CASE requestSnapshot
  <2>1. Snapshot \in BoardBlocks /\ ~Paints(Snapshot) /\ Snapshot.kind = "snapshot"
    BY DEF BoardBlocks, Snapshot, Paints
  <2>2. /\ boardOpQueue' = Append(boardOpQueue, Snapshot)
        /\ UNCHANGED <<requested, block, at, context_, latestSnapshot_, mainQueue, shown, loads>>
    BY <1>3 DEF requestSnapshot, DispatchSnapshot, boardVars, pictures
  <2> QED
    BY <2>1, <2>2 DEF Call
<1> QED
  BY <1>1, <1>2, <1>3 DEF Application, loadDocumentAsync, loadDocumentSync

LEMMA PictureSteps ==
  ASSUME CoreInv, [Next]_vars
  PROVE  Quiet \/ (\E b \in BoardBlocks : Call(b)) \/ BoardThread
<1>1. UNCHANGED vars => Quiet
  BY DEF vars, Quiet, dispatched, boardVars, pictures, calls
<1>2. MainThread \/ Receive \/ trigerReadOperationQueue \/ displaySync => Quiet
  BY QuietSteps DEF Quiet
<1> QED
  BY <1>1, <1>2, CallSteps DEF Next

\* The paint of a block is an item.
LEMMA PaintFacts ==
  /\ \A b \in BoardBlocks : Paints(b) => ItemOf(b) \in Items
  /\ ~Paints(Idle) /\ ~Paints(Snapshot) /\ Snapshot \in BoardBlocks
BY BlockFacts DEF Paints, ItemOf, Idle, Snapshot, BoardBlocks

-----------------------------------------------------------------------------
\* What the blocks account for, as the places move.
LEMMA AccountsInit == Init => ReplayInv
<1> SUFFICES ASSUME Init PROVE ReplayInv
  OBVIOUS
<1>1. Len(boardOpQueue) = 0 /\ Len(requested) = 0 /\ Places = {0}
  BY DEF Init, Places
<1>2. \A i \in Boards : Len(context_[i]) = 0
  BY DEF Init
<1>3. ~Paints(BlockAt(0)) /\ ~Paints(block)
  BY PaintFacts DEF Init, BlockAt
<1> DEFINE upTo == [k \in Places |-> 0]
<1>4. upTo \in [Places -> 0 .. Len(requested)] /\ upTo[0] = 0
  BY <1>1
<1>5. Accounts(upTo)
  BY <1>1, <1>2, <1>3, <1>4 DEF Accounts
<1>6. Copies
  BY <1>2 DEF Copies
<1> QED
  BY <1>4, <1>5, <1>6 DEF ReplayInv

LEMMA AccountsStay ==
  ASSUME NEW upTo, Accounts(upTo),
         boardOpQueue' = boardOpQueue, requested' = requested,
         Paints(block') => block' = block,
         \A i \in Boards : Len(context_'[i]) =
            IF Paints(block') /\ at' =< i THEN upTo[0] - 1 ELSE upTo[0]
  PROVE  Accounts(upTo)'
<1>1. /\ Places' = Places /\ BlockAt(0)' = block' /\ BlockAt(0) = block
      /\ \A k \in Places \ {0} : BlockAt(k)' = BlockAt(k)
  BY PlacesStay DEF BlockAt
<1>2. \A k \in Places : Paints(BlockAt(k)') => BlockAt(k)' = BlockAt(k)
  BY <1>1
<1> QED
  BY <1>1, <1>2 DEF Accounts

LEMMA AccountsDispatch ==
  ASSUME TypeOK, NEW upTo, Accounts(upTo), NEW b \in BoardBlocks,
         boardOpQueue' = Append(boardOpQueue, b),
         requested' = IF Paints(b) THEN Append(requested, ItemOf(b)) ELSE requested,
         Paints(block') => block' = block,
         \A i \in Boards : Len(context_'[i]) =
            IF Paints(block') /\ at' =< i THEN upTo[0] - 1 ELSE upTo[0]
  PROVE  (\E f \in [Places -> 0 .. Len(requested)] : Accounts(f))'
<1>1. PICK n \in Nat : n = Len(boardOpQueue)
  BY DEF TypeOK
<1>2. PICK r \in Nat : r = Len(requested)
  BY DEF TypeOK
<1>3. PICK r1 \in Nat : r1 = IF Paints(b) THEN r + 1 ELSE r
  OBVIOUS
<1>4. /\ Len(requested') = r1
      /\ \A k \in 1 .. r : requested'[k] = requested[k]
      /\ Paints(b) => requested'[r1] = ItemOf(b)
  BY <1>2, <1>3, PaintFacts DEF TypeOK
<1>5. /\ Places = 0 .. n /\ Places' = 0 .. n + 1 /\ Len(boardOpQueue') = n + 1
      /\ \A k \in 1 .. n : BlockAt(k)' = BlockAt(k)
      /\ BlockAt(n + 1)' = b /\ BlockAt(0)' = block' /\ BlockAt(0) = block
  <2>1. Len(boardOpQueue') = n + 1
    BY <1>1 DEF TypeOK
  <2>2. Places = 0 .. n /\ Places' = 0 .. n + 1
    BY <1>1, <2>1 DEF Places
  <2> QED
    BY <1>1, <2>1, <2>2, PlacesDispatch DEF BlockAt
<1> DEFINE f == [k \in 0 .. n + 1 |-> IF k = n + 1 THEN r1 ELSE upTo[k]]
<1>6. upTo \in [0 .. n -> 0 .. r] /\ upTo[n] = r
  BY <1>1, <1>2, <1>5 DEF Accounts
<1>7. /\ f \in [0 .. n + 1 -> 0 .. r1] /\ f[n + 1] = r1
      /\ \A k \in 0 .. n : f[k] = upTo[k]
  BY <1>3, <1>6
<1> HIDE DEF f
<1>8. \A k \in 1 .. n + 1 : f[k] = IF Paints(BlockAt(k)') THEN f[k - 1] + 1 ELSE f[k - 1]
  <2> TAKE k \in 1 .. n + 1
  <2>1. CASE k = n + 1
    BY <1>3, <1>5, <1>6, <1>7, <2>1
  <2>2. CASE k \in 1 .. n
    <3>1. upTo[k] = IF Paints(BlockAt(k)) THEN upTo[k - 1] + 1 ELSE upTo[k - 1]
      BY <1>5, <2>2 DEF Accounts
    <3>2. f[k] = upTo[k] /\ f[k - 1] = upTo[k - 1]
      BY <1>7, <2>2
    <3> QED
      BY <1>5, <2>2, <3>1, <3>2
  <2> QED
    BY <2>1, <2>2
<1>9. \A k \in 0 .. n + 1 : Paints(BlockAt(k)') =>
         f[k] >= 1 /\ requested'[f[k]] = ItemOf(BlockAt(k)')
  <2> TAKE k \in 0 .. n + 1
  <2>1. CASE k = n + 1
    BY <1>3, <1>4, <1>5, <1>7, <2>1
  <2>2. CASE k \in 0 .. n
    <3>1. Paints(BlockAt(k)') => BlockAt(k)' = BlockAt(k)
      BY <1>5, <2>2
    <3>2. Paints(BlockAt(k)) => upTo[k] >= 1 /\ requested[upTo[k]] = ItemOf(BlockAt(k))
      BY <1>5, <2>2 DEF Accounts
    <3>3. f[k] = upTo[k] /\ upTo[k] \in 0 .. r
      BY <1>6, <1>7, <2>2
    <3>4. upTo[k] >= 1 => requested'[upTo[k]] = requested[upTo[k]]
      <4>1. upTo[k] >= 1 => upTo[k] \in 1 .. r
        BY <3>3
      <4> QED
        BY <1>4, <4>1
    <3> QED
      BY <3>1, <3>2, <3>3, <3>4
  <2>3. k = n + 1 \/ k \in 0 .. n
    OBVIOUS
  <2> QED
    BY <2>1, <2>2, <2>3
<1>10. f[0] = upTo[0]
  BY <1>7
<1>11. Accounts(f)'
  BY <1>4, <1>5, <1>7, <1>8, <1>9, <1>10 DEF Accounts
<1>12. f \in [Places' -> 0 .. Len(requested')]
  BY <1>4, <1>5, <1>7
<1> QED
  BY <1>11, <1>12

LEMMA AccountsStart ==
  ASSUME TypeOK, NEW upTo, Accounts(upTo), BoardBlock
  PROVE  (\E f \in [Places -> 0 .. Len(requested)] : Accounts(f))'
<1>1. PICK n \in Nat : n = Len(boardOpQueue')
  <2>1. boardOpQueue' \in Seq(BoardBlocks)
    BY DEF TypeOK, BoardBlock
  <2> QED
    BY <2>1
<1>2. /\ Places = 0 .. n + 1 /\ Places' = 0 .. n /\ Len(boardOpQueue) = n + 1
      /\ \A k \in 0 .. n : BlockAt(k)' = BlockAt(k + 1)
      /\ block = Idle /\ BlockAt(0)' = block'
  <2>1. Len(boardOpQueue) = n + 1
    BY <1>1, PlacesStart
  <2>2. Places = 0 .. n + 1 /\ Places' = 0 .. n
    BY <1>1, <2>1 DEF Places
  <2> QED
    BY <2>1, <2>2, PlacesStart DEF BlockAt
<1>3. at' = 1 /\ UNCHANGED <<context_, requested>>
  BY DEF BoardBlock, pictures, calls
<1>4. PICK r \in Nat : r = Len(requested)
  BY DEF TypeOK
<1> DEFINE f == [k \in 0 .. n |-> upTo[k + 1]]
<1>5. upTo \in [0 .. n + 1 -> 0 .. r] /\ upTo[n + 1] = r
  BY <1>2, <1>4 DEF Accounts
<1>6. f \in [0 .. n -> 0 .. r] /\ (\A k \in 0 .. n : f[k] = upTo[k + 1]) /\ f[n] = r
  BY <1>5
<1> HIDE DEF f
<1>7. \A k \in 1 .. n + 1 :
         upTo[k] = IF Paints(BlockAt(k)) THEN upTo[k - 1] + 1 ELSE upTo[k - 1]
  BY <1>2 DEF Accounts
<1>8. \A k \in 1 .. n : f[k] = IF Paints(BlockAt(k)') THEN f[k - 1] + 1 ELSE f[k - 1]
  <2> TAKE k \in 1 .. n
  <2>1. f[k] = upTo[k + 1] /\ f[k - 1] = upTo[k]
    BY <1>6
  <2>2. upTo[k + 1] = IF Paints(BlockAt(k + 1)) THEN upTo[k] + 1 ELSE upTo[k]
    BY <1>7
  <2> QED
    BY <1>2, <2>1, <2>2
<1>9. \A k \in 0 .. n : Paints(BlockAt(k)') =>
         f[k] >= 1 /\ requested[f[k]] = ItemOf(BlockAt(k)')
  <2> TAKE k \in 0 .. n
  <2>1. Paints(BlockAt(k + 1)) =>
          upTo[k + 1] >= 1 /\ requested[upTo[k + 1]] = ItemOf(BlockAt(k + 1))
    BY <1>2 DEF Accounts
  <2> QED
    BY <1>2, <1>6, <2>1
<1>10. \A i \in Boards : Len(context_'[i]) =
          IF Paints(block') /\ at' =< i THEN f[0] - 1 ELSE f[0]
  <2> TAKE i \in Boards
  <2>1. Len(context_[i]) = upTo[0]
    BY <1>2, PaintFacts DEF Accounts
  <2>2. f[0] = IF Paints(block') THEN upTo[0] + 1 ELSE upTo[0]
    <3>1. f[0] = upTo[1] /\ upTo[1] = IF Paints(BlockAt(1)) THEN upTo[0] + 1 ELSE upTo[0]
      BY <1>6, <1>7
    <3>2. BlockAt(1) = block'
      BY <1>2
    <3> QED
      BY <3>1, <3>2
  <2>3. at' =< i /\ upTo[0] \in Nat
    BY <1>3, <1>5, BoardAssumption DEF Boards
  <2> QED
    BY <1>3, <2>1, <2>2, <2>3
<1>11. Accounts(f)'
  BY <1>1, <1>2, <1>3, <1>4, <1>6, <1>8, <1>9, <1>10 DEF Accounts
<1>12. f \in [Places' -> 0 .. Len(requested')]
  BY <1>2, <1>3, <1>4, <1>6
<1> QED
  BY <1>11, <1>12

-----------------------------------------------------------------------------
\* The contexts.  What the inductive step needs of them as numbers:
LEMMA ReplayFacts ==
  ASSUME TypeOK, Copies, NEW upTo, Accounts(upTo)
  PROVE  /\ upTo[0] \in 0 .. Len(requested)
         /\ Len(requested) \in Nat
         /\ \A i \in Boards : /\ context_[i] \in Seq(Items)
                              /\ Len(context_[i]) \in 0 .. Len(requested)
<1>1. upTo[0] \in 0 .. Len(requested) /\ Len(requested) \in Nat
  BY PlaceFacts DEF TypeOK, Accounts
<1>2. \A i \in Boards : context_[i] \in Seq(Items) /\ Len(context_[i]) \in Nat
  BY DEF TypeOK
<1>3. \A i \in Boards : Len(context_[i]) = upTo[0] \/ Len(context_[i]) = upTo[0] - 1
  BY DEF Accounts
<1> QED
  BY <1>1, <1>2, <1>3

\* requested only grows, so what was copied stays copied.
LEMMA CopiesStay ==
  ASSUME TypeOK, ReplayInv, context_' = context_,
         requested' = requested \/ \E item \in Items : requested' = Append(requested, item)
  PROVE  Copies'
<1>1. PICK upTo : Copies /\ Accounts(upTo)
  BY DEF ReplayInv
<1>2. PICK r \in Nat : r = Len(requested)
  BY DEF TypeOK
<1>3. \A k \in 1 .. r : requested'[k] = requested[k]
  <2>1. ASSUME NEW item \in Items PROVE \A k \in 1 .. r : Append(requested, item)[k] = requested[k]
    BY <1>2 DEF TypeOK
  <2> QED
    BY <2>1
<1>4. \A i \in Boards : \A k \in 1 .. Len(context_[i]) : k \in 1 .. r
  BY <1>1, <1>2, ReplayFacts
<1> QED
  BY <1>1, <1>3, <1>4 DEF Copies

LEMMA ReplayPaint ==
  ASSUME TypeOK, Copies, NEW upTo \in [Places -> 0 .. Len(requested)], Accounts(upTo), paintBoard
  PROVE  Copies' /\ Accounts(upTo)'
<1> USE BoardAssumption
<1>1. /\ at \in Boards /\ at' = at + 1 /\ block.kind \in {"draw", "load"}
      /\ UNCHANGED <<boardOpQueue, requested, block>>
  BY DEF paintBoard, InLoop, Paint, NextBoard, dispatched, calls
<1>2. CASE Paints(block)
  <2>1. context_' = [context_ EXCEPT ![at] = Append(@, ItemOf(block))]
    BY <1>1, <1>2 DEF paintBoard, Paint, Paints, ItemOf
  <2>2. /\ Len(context_[at]) = upTo[0] - 1 /\ context_[at] \in Seq(Items)
        /\ upTo[0] >= 1 /\ upTo[0] \in Nat /\ requested[upTo[0]] = ItemOf(block)
    <3>1. at =< at
      BY <1>1 DEF Boards
    <3>2. upTo[0] >= 1 /\ requested[upTo[0]] = ItemOf(block)
      BY <1>2, PlaceFacts DEF Accounts
    <3>3. Len(context_[at]) = upTo[0] - 1
      BY <1>1, <1>2, <3>1 DEF Accounts
    <3> QED
      BY <1>1, <3>2, <3>3, ReplayFacts
  <2>3. PICK u \in Nat : u = upTo[0]
    BY <2>2
  <2>4. /\ Len(context_'[at]) = u /\ context_'[at][u] = requested[u]
        /\ \A k \in 1 .. u - 1 : context_'[at][k] = context_[at][k]
    <3>1. context_'[at] = Append(context_[at], ItemOf(block))
      BY <1>1, <2>1 DEF TypeOK
    <3>2. Len(context_[at]) = u - 1 /\ u >= 1
      BY <2>2, <2>3
    <3> QED
      BY <2>2, <2>3, <3>1, <3>2
  <2>5. \A i \in Boards \ {at} : context_'[i] = context_[i]
    BY <2>1 DEF TypeOK
  <2>6. Copies'
    <3>1. \A k \in 1 .. u : context_'[at][k] = requested[k]
      <4>1. \A k \in 1 .. u - 1 : context_[at][k] = requested[k]
        BY <1>1, <2>2, <2>3 DEF Copies
      <4> QED
        BY <2>4, <4>1
    <3> QED
      BY <1>1, <2>4, <2>5, <3>1 DEF Copies
  <2>7. \A i \in Boards : Len(context_'[i]) =
           IF Paints(block') /\ at' =< i THEN upTo[0] - 1 ELSE upTo[0]
    <3> TAKE i \in Boards
    <3>1. CASE i = at
      <4>1. ~(at' =< i)
        BY <1>1, <3>1 DEF Boards
      <4> QED
        BY <2>3, <2>4, <3>1, <4>1
    <3>2. CASE i # at
      <4>1. at' =< i <=> at =< i
        BY <1>1, <3>2 DEF Boards
      <4> QED
        BY <1>1, <2>5, <3>2, <4>1 DEF Accounts
    <3> QED
      BY <3>1, <3>2
  <2>8. Accounts(upTo)'
    BY <1>1, <2>7, AccountsStay
  <2> QED
    BY <2>6, <2>8
<1>3. CASE ~Paints(block)
  <2>1. context_' = context_
    BY <1>1, <1>3 DEF paintBoard, Paints
  <2>2. \A i \in Boards : Len(context_'[i]) =
           IF Paints(block') /\ at' =< i THEN upTo[0] - 1 ELSE upTo[0]
    BY <1>1, <1>3, <2>1 DEF Accounts
  <2> QED
    BY <1>1, <2>1, <2>2, AccountsStay DEF Copies
<1> QED
  BY <1>2, <1>3

LEMMA NextReplay ==
  ASSUME CoreInv, ReplayInv, [Next]_vars
  PROVE  ReplayInv'
<1> USE BoardAssumption
<1>1. TypeOK
  BY DEF CoreInv
<1>2. PICK upTo \in [Places -> 0 .. Len(requested)] : Copies /\ Accounts(upTo)
  BY DEF ReplayInv
<1>3. \A i \in Boards :
        Len(context_[i]) = IF Paints(block) /\ at =< i THEN upTo[0] - 1 ELSE upTo[0]
  BY <1>2 DEF Accounts
<1>4. boardOpQueue' = boardOpQueue /\ requested' = requested
         => upTo \in [Places' -> 0 .. Len(requested')]
  BY <1>2 DEF Places
<1>5. CASE Quiet
  <2>1. Accounts(upTo)'
    BY <1>2, <1>3, <1>5, AccountsStay DEF Quiet
  <2> QED
    BY <1>1, <1>4, <1>5, <2>1, CopiesStay DEF Quiet, ReplayInv
<1>6. ASSUME NEW b \in BoardBlocks, Call(b) PROVE ReplayInv'
  <2>1. (\E f \in [Places -> 0 .. Len(requested)] : Accounts(f))'
    BY <1>1, <1>2, <1>3, <1>6, AccountsDispatch DEF Call
  <2>2. requested' = requested \/ \E item \in Items : requested' = Append(requested, item)
    BY <1>6, PaintFacts DEF Call
  <2> QED
    BY <1>1, <1>6, <2>1, <2>2, CopiesStay DEF Call, ReplayInv
<1>7. CASE BoardBlock
  <2>1. (\E f \in [Places -> 0 .. Len(requested)] : Accounts(f))'
    BY <1>1, <1>2, <1>7, AccountsStart
  <2> QED
    BY <1>1, <1>7, <2>1, CopiesStay DEF BoardBlock, pictures, calls, ReplayInv
<1>8. CASE paintBoard
  <2>1. Copies' /\ Accounts(upTo)'
    BY <1>1, <1>2, <1>8, ReplayPaint
  <2> QED
    BY <1>4, <1>8, <2>1 DEF paintBoard, dispatched, calls, ReplayInv
<1>9. CASE saveSnapshot
  <2>1. /\ boardOpQueue' = Append(boardOpQueue, Snapshot) /\ block' = Idle
        /\ UNCHANGED <<context_, requested>> /\ at = BOARD_NUM + 1
    BY <1>9 DEF saveSnapshot, DispatchSnapshot, LoopDone, pictures, calls
  <2>2. \A i \in Boards : Len(context_'[i]) =
           IF Paints(block') /\ at' =< i THEN upTo[0] - 1 ELSE upTo[0]
    <3>1. \A i \in Boards : ~(at =< i)
      BY <2>1 DEF Boards
    <3> QED
      BY <1>3, <2>1, <3>1, PaintFacts
  <2>3. (\E f \in [Places -> 0 .. Len(requested)] : Accounts(f))'
    BY <1>1, <1>2, <2>1, <2>2, PaintFacts, AccountsDispatch
  <2> QED
    BY <1>1, <2>1, <2>3, CopiesStay DEF ReplayInv
<1>10. CASE releaseSnapshot \/ createSnapshot \/ endSnapshot \/ clearReal \/ clearReceived \/ endLoad
  <2>1. /\ UNCHANGED <<boardOpQueue, context_, requested>>
        /\ Paints(block') => block' = block
    BY <1>10, PaintFacts DEF releaseSnapshot, createSnapshot, endSnapshot, clearReal,
             clearReceived, endLoad, dispatched, pictures, calls
  <2>2. \/ ~Paints(block) /\ ~Paints(block')
        \/ \A i \in Boards : ~(at =< i) /\ (Paints(block') => ~(at' =< i))
    <3>1. CASE releaseSnapshot \/ createSnapshot \/ endSnapshot
      BY <2>1, <3>1 DEF releaseSnapshot, createSnapshot, endSnapshot, Paints
    <3>2. CASE clearReal \/ clearReceived \/ endLoad
      <4>1. at \in {BOARD_NUM + 1, BOARD_NUM + 2, BOARD_NUM + 3} /\ at' \in {at, at + 1}
        BY <3>2 DEF clearReal, clearReceived, endLoad, LoopDone, NextBoard
      <4> QED
        BY <4>1 DEF Boards
    <3> QED
      BY <1>10, <3>1, <3>2
  <2>3. \A i \in Boards : Len(context_'[i]) =
           IF Paints(block') /\ at' =< i THEN upTo[0] - 1 ELSE upTo[0]
    BY <1>3, <2>1, <2>2
  <2>4. Accounts(upTo)'
    BY <1>2, <2>1, <2>3, AccountsStay
  <2> QED
    BY <1>1, <1>4, <2>1, <2>4, CopiesStay DEF ReplayInv
<1> QED
  BY <1>5, <1>6, <1>7, <1>8, <1>9, <1>10, PictureSteps DEF BoardThread

\* What the blocks of the board queue will paint completes each context to
\* what was requested.
THEOREM ReplayHolds == Spec => [](CoreInv /\ ReplayInv)
<1>1. Init => CoreInv /\ ReplayInv
  BY InitCore, AccountsInit
<1>2. CoreInv /\ ReplayInv /\ [Next]_vars => (CoreInv /\ ReplayInv)'
  BY NextCore, NextReplay
<1> QED
  BY <1>1, <1>2, PTL DEF Spec

\* Between the blocks that paint, all contexts are the same.
LEMMA ContextsEqual ==
  ASSUME TypeOK, ReplayInv, ~Paints(block) \/ \A i \in Boards : ~(at =< i),
         NEW i \in Boards, NEW j \in Boards
  PROVE  context_[i] = context_[j]
<1>1. PICK upTo : Copies /\ Accounts(upTo)
  BY DEF ReplayInv
<1>2. Len(context_[i]) = upTo[0] /\ Len(context_[j]) = upTo[0]
  BY <1>1 DEF Accounts
<1>3. context_[i] \in Seq(Items) /\ context_[j] \in Seq(Items)
  BY DEF TypeOK
<1>4. \A k \in 1 .. Len(context_[i]) : context_[i][k] = context_[j][k]
  BY <1>1, <1>2 DEF Copies
<1> QED
  BY <1>2, <1>3, <1>4, SeqEqual

\* The contexts are replicas of what was asked for, in the order of the calls.
THEOREM ContextsAreReplicas == Spec => []ContextsReplayRequests
<1>1. CoreInv /\ ReplayInv => ContextsReplayRequests
  <2> SUFFICES ASSUME CoreInv, ReplayInv, NEW i \in Boards, NEW j \in Boards
               PROVE  /\ IsPrefix(context_[i], requested)
                      /\ i < j => Len(context_[i]) - Len(context_[j]) \in {0, 1}
                      /\ block = Idle => context_[i] = context_[j]
    BY DEF ContextsReplayRequests
  <2>1. TypeOK
    BY DEF CoreInv
  <2>2. PICK upTo : Copies /\ Accounts(upTo)
    BY DEF ReplayInv
  <2>3. IsPrefix(context_[i], requested)
    <3>1. /\ context_[i] \in Seq(Items) /\ requested \in Seq(Items)
          /\ Len(context_[i]) =< Len(requested)
      BY <2>1, <2>2, ReplayFacts DEF TypeOK
    <3>2. \A k \in 1 .. Len(context_[i]) : context_[i][k] = requested[k]
      BY <2>2 DEF Copies
    <3>3. SubSeq(context_[i], 1, Len(context_[i])) = SubSeq(requested, 1, Len(context_[i]))
      BY <3>1, <3>2
    <3> QED
      BY <3>1, <3>3 DEF IsPrefix
  <2>4. i < j => Len(context_[i]) - Len(context_[j]) \in {0, 1}
    <3>1. upTo[0] \in Int /\ at \in Int /\ i \in Int /\ j \in Int
      BY <2>1, <2>2, ReplayFacts DEF TypeOK, Boards
    <3>2. /\ Len(context_[i]) = IF Paints(block) /\ at =< i THEN upTo[0] - 1 ELSE upTo[0]
          /\ Len(context_[j]) = IF Paints(block) /\ at =< j THEN upTo[0] - 1 ELSE upTo[0]
      BY <2>2 DEF Accounts
    <3> QED
      BY <3>1, <3>2
  <2>5. block = Idle => context_[i] = context_[j]
    BY <2>1, ContextsEqual, PaintFacts
  <2> QED
    BY <2>3, <2>4, <2>5
<1> QED
  BY <1>1, ReplayHolds, PTL

-----------------------------------------------------------------------------
\* The snapshots.  No picture looks like a released image.
LEMMA ReleasedIsNone == Released \notin Seq(Items)
<1>1. Len(Released) = 1 /\ Released[1].kind = "released"
  BY DEF Released
<1>2. \A item \in Items : item.kind # "released"
  BY DEF Items
<1> QED
  BY <1>1, <1>2

\* A context is only ever appended to.
LEMMA ContextsGrow ==
  ASSUME TypeOK, paintBoard
  PROVE  \A i \in Boards :
           \/ context_'[i] = context_[i]
           \/ \E item \in Items : /\ context_'[i] = Append(context_[i], item)
                                  /\ item = ItemOf(block)
<1>1. CASE Paints(block)
  <2>1. context_' = [context_ EXCEPT ![at] = Append(@, ItemOf(block))] /\ at \in Boards
    BY <1>1 DEF paintBoard, Paint, Paints, ItemOf, InLoop
  <2>2. ItemOf(block) \in Items
    BY <1>1, PaintFacts DEF TypeOK
  <2> QED
    BY <2>1, <2>2 DEF TypeOK
<1>2. CASE ~Paints(block)
  BY <1>2 DEF paintBoard, Paints
<1> QED
  BY <1>1, <1>2

LEMMA SnapshotStays ==
  ASSUME NEW s, OneSnapshot(s), UNCHANGED <<context_, latestSnapshot_>>,
         \/ block' = block /\ at' = at
         \/ /\ block.kind # "snapshot"
            /\ block'.kind = "snapshot" => \A i \in Boards : ~(i < at')
  PROVE  OneSnapshot(s)'
<1>1. \A i \in Boards :
        IF block'.kind = "snapshot" /\ i < at' THEN latestSnapshot_[i] = context_[i]
        ELSE \/ latestSnapshot_[i] = s
             \/ block'.kind = "snapshot" /\ i = at' /\ latestSnapshot_[i] = Released
  BY DEF OneSnapshot
<1> QED
  BY <1>1 DEF OneSnapshot

LEMMA SnapshotPaint ==
  ASSUME TypeOK, NEW s \in Seq(Items), OneSnapshot(s), paintBoard
  PROVE  OneSnapshot(s)'
<1>1. /\ block.kind # "snapshot" /\ block' = block /\ latestSnapshot_' = latestSnapshot_
  BY DEF paintBoard
<1>2. \A i \in Boards :
        /\ Len(s) =< Len(context_'[i])
        /\ \A k \in 1 .. Len(s) : s[k] = context_'[i][k]
  <2> TAKE i \in Boards
  <2>1. /\ context_[i] \in Seq(Items) /\ Len(s) =< Len(context_[i])
        /\ \A k \in 1 .. Len(s) : s[k] = context_[i][k]
    BY DEF OneSnapshot, TypeOK
  <2>2. CASE context_'[i] = context_[i]
    BY <2>1, <2>2
  <2>3. ASSUME NEW item \in Items, context_'[i] = Append(context_[i], item)
        PROVE  /\ Len(s) =< Len(context_'[i])
               /\ \A k \in 1 .. Len(s) : s[k] = context_'[i][k]
    BY <2>1, <2>3
  <2> QED
    BY <2>2, <2>3, ContextsGrow
<1> QED
  BY <1>1, <1>2 DEF OneSnapshot

LEMMA NextSnapshot ==
  ASSUME CoreInv, ReplayInv, SnapshotInv, [Next]_vars
  PROVE  SnapshotInv'
<1> USE BoardAssumption
<1>1. TypeOK
  BY DEF CoreInv
<1>2. PICK s \in Seq(Items) : OneSnapshot(s)
  BY DEF SnapshotInv
<1>3. CASE Quiet \/ \E b \in BoardBlocks : Call(b)
  <2>1. UNCHANGED <<block, at, context_, latestSnapshot_>>
    BY <1>3 DEF Quiet, Call
  <2> QED
    BY <1>2, <2>1, SnapshotStays DEF SnapshotInv
<1>4. CASE BoardBlock
  <2>1. /\ block.kind # "snapshot" /\ at' = 1 /\ UNCHANGED <<context_, latestSnapshot_>>
        /\ \A i \in Boards : ~(i < at')
    BY <1>4 DEF BoardBlock, Idle, pictures, Boards
  <2> QED
    BY <1>2, <2>1, SnapshotStays DEF SnapshotInv
<1>5. CASE saveSnapshot \/ clearReal \/ clearReceived \/ endLoad
  <2>1. /\ block.kind # "snapshot" /\ block'.kind # "snapshot"
        /\ UNCHANGED <<context_, latestSnapshot_>>
    BY <1>5 DEF saveSnapshot, clearReal, clearReceived, endLoad, Idle, pictures
  <2> QED
    BY <1>2, <2>1, SnapshotStays DEF SnapshotInv
<1>6. CASE paintBoard
  BY <1>1, <1>2, <1>6, SnapshotPaint DEF SnapshotInv
<1>7. CASE releaseSnapshot
  <2>1. /\ block.kind = "snapshot" /\ at \in Boards
        /\ latestSnapshot_' = [latestSnapshot_ EXCEPT ![at] = Released]
        /\ UNCHANGED <<block, at, context_>>
    BY <1>7 DEF releaseSnapshot, InLoop
  <2>2. \A i \in Boards : latestSnapshot_'[i] = IF i = at THEN Released ELSE latestSnapshot_[i]
    BY <1>1, <2>1 DEF TypeOK
  <2>3. ~(at < at)
    BY <2>1 DEF Boards
  <2>4. \A i \in Boards :
          IF i < at THEN latestSnapshot_'[i] = context_[i]
          ELSE latestSnapshot_'[i] = s \/ (i = at /\ latestSnapshot_'[i] = Released)
    BY <1>2, <2>1, <2>2, <2>3 DEF OneSnapshot
  <2>5. OneSnapshot(s)'
    BY <1>2, <2>1, <2>4 DEF OneSnapshot
  <2> QED
    BY <2>5 DEF SnapshotInv
<1>8. CASE createSnapshot
  <2>1. /\ block.kind = "snapshot" /\ at \in Boards /\ at' = at + 1
        /\ latestSnapshot_' = [latestSnapshot_ EXCEPT ![at] = context_[at]]
        /\ UNCHANGED <<block, context_>>
    BY <1>8 DEF createSnapshot, InLoop, NextBoard
  <2>2. \A i \in Boards :
          latestSnapshot_'[i] = IF i = at THEN context_[at] ELSE latestSnapshot_[i]
    BY <1>1, <2>1 DEF TypeOK
  <2>3. \A i \in Boards : i < at' <=> i < at \/ i = at
    BY <2>1 DEF Boards
  <2>4. \A i \in Boards :
          IF i < at' THEN latestSnapshot_'[i] = context_[i] ELSE latestSnapshot_'[i] = s
    BY <1>2, <2>1, <2>2, <2>3 DEF OneSnapshot
  <2>5. OneSnapshot(s)'
    BY <1>2, <2>1, <2>4 DEF OneSnapshot
  <2> QED
    BY <2>5 DEF SnapshotInv
<1>9. CASE endSnapshot
  <2>1. /\ block.kind = "snapshot" /\ at = BOARD_NUM + 1 /\ block' = Idle
        /\ UNCHANGED <<context_, latestSnapshot_>> /\ 1 \in Boards
    BY <1>9 DEF endSnapshot, LoopDone, pictures, Boards
  <2>2. \A i \in Boards : i < at
    BY <2>1 DEF Boards
  <2>3. \A i \in Boards : latestSnapshot_[i] = context_[i]
    BY <1>2, <2>1, <2>2 DEF OneSnapshot
  <2>4. \A i \in Boards : context_[i] = context_[1]
    BY <1>1, <2>1, ContextsEqual DEF Paints
  <2>5. context_[1] \in Seq(Items) /\ Len(context_[1]) =< Len(context_[1])
    BY <1>1, <2>1 DEF TypeOK
  <2>6. OneSnapshot(context_[1])'
    BY <2>1, <2>3, <2>4, <2>5 DEF OneSnapshot, Idle
  <2> QED
    BY <2>1, <2>5, <2>6 DEF SnapshotInv
<1> QED
  BY <1>3, <1>4, <1>5, <1>6, <1>7, <1>8, <1>9, PictureSteps DEF BoardThread

LEMMA InitSnapshot == Init => SnapshotInv /\ DrawnIsSnapshotted
<1> SUFFICES ASSUME Init PROVE SnapshotInv /\ DrawnIsSnapshotted
  OBVIOUS
<1>1. /\ block.kind # "snapshot" /\ <<>> \in Seq(Items)
      /\ \A i \in Boards : context_[i] = <<>> /\ latestSnapshot_[i] = <<>>
  BY DEF Init, Idle
<1>2. OneSnapshot(<<>>)
  BY <1>1 DEF OneSnapshot
<1>3. DrawnIsSnapshotted
  BY <1>1 DEF DrawnIsSnapshotted
<1> QED
  BY <1>1, <1>2, <1>3 DEF SnapshotInv

\* All boards have one snapshot, a beginning of their pictures, which a
\* snapshot block replaces board by board.
THEOREM SnapshotHolds == Spec => []SnapshotInv
<1>1. Init => SnapshotInv
  BY InitSnapshot
<1>2. CoreInv /\ ReplayInv /\ SnapshotInv /\ [Next]_vars => SnapshotInv'
  BY NextSnapshot
<1> QED
  BY <1>1, <1>2, ReplayHolds, PTL DEF Spec

\* A reader of a snapshot gets a picture the board went through, unless the
\* snapshot block is at that board, and outside a snapshot block the snapshots
\* of all boards show one moment of the picture.
THEOREM SnapshotsShowOneMoment == Spec => []SnapshotsAgree
<1>1. CoreInv /\ SnapshotInv => SnapshotsAgree
  <2> SUFFICES ASSUME CoreInv, SnapshotInv PROVE SnapshotsAgree
    OBVIOUS
  <2>1. PICK s \in Seq(Items) : OneSnapshot(s)
    BY DEF SnapshotInv
  <2>2. ASSUME NEW i \in Boards, ~(block.kind = "snapshot" /\ i = at)
        PROVE  IsPrefix(latestSnapshot_[i], context_[i])
    <3>1. context_[i] \in Seq(Items)
      BY DEF CoreInv, TypeOK
    <3>2. latestSnapshot_[i] = context_[i] \/ latestSnapshot_[i] = s
      BY <2>1, <2>2 DEF OneSnapshot
    <3>3. Len(s) =< Len(context_[i]) /\ \A k \in 1 .. Len(s) : s[k] = context_[i][k]
      BY <2>1 DEF OneSnapshot
    <3>4. SubSeq(s, 1, Len(s)) = SubSeq(context_[i], 1, Len(s))
      BY <2>1, <3>1, <3>3
    <3>5. IsPrefix(s, context_[i])
      BY <3>3, <3>4 DEF IsPrefix
    <3>6. IsPrefix(context_[i], context_[i])
      BY <3>1 DEF IsPrefix
    <3> QED
      BY <3>2, <3>5, <3>6
  <2>3. ASSUME block.kind # "snapshot", NEW i \in Boards, NEW j \in Boards
        PROVE  latestSnapshot_[i] = latestSnapshot_[j]
    BY <2>1, <2>3 DEF OneSnapshot
  <2> QED
    BY <2>2, <2>3 DEF SnapshotsAgree
<1> QED
  BY <1>1, SnapshotHolds, CoreHolds, PTL

-----------------------------------------------------------------------------
\* Which drawings a snapshot still has to take up.
SnapshotWaits == \E k \in 1 .. Len(boardOpQueue) : boardOpQueue[k] = Snapshot

LEMMA DrawnStays ==
  ASSUME DrawnIsSnapshotted, UNCHANGED <<context_, latestSnapshot_>>,
         \A i \in Boards : PendingSnapshot(i) => PendingSnapshot(i)'
  PROVE  DrawnIsSnapshotted'
BY DEF DrawnIsSnapshotted

LEMMA WaitsOn ==
  ASSUME TypeOK, NEW b \in BoardBlocks, boardOpQueue' = Append(boardOpQueue, b)
  PROVE  /\ SnapshotWaits => SnapshotWaits'
         /\ b = Snapshot => SnapshotWaits'
<1>1. PICK n \in Nat : n = Len(boardOpQueue)
  BY DEF TypeOK
<1>2. /\ Len(boardOpQueue') = n + 1 /\ boardOpQueue'[n + 1] = b
      /\ \A k \in 1 .. n : boardOpQueue'[k] = boardOpQueue[k]
  BY <1>1 DEF TypeOK
<1>3. 1 .. n \subseteq 1 .. n + 1 /\ n + 1 \in 1 .. n + 1
  OBVIOUS
<1> QED
  BY <1>1, <1>2, <1>3 DEF SnapshotWaits

LEMMA NextDrawn ==
  ASSUME CoreInv, SnapshotInv, DrawnIsSnapshotted, [Next]_vars
  PROVE  DrawnIsSnapshotted'
<1> USE BoardAssumption
<1>1. TypeOK
  BY DEF CoreInv
<1>2. CASE Quiet
  <2>1. \A i \in Boards : PendingSnapshot(i) => PendingSnapshot(i)'
    BY <1>2 DEF Quiet, PendingSnapshot
  <2> QED
    BY <1>2, <2>1, DrawnStays DEF Quiet
<1>3. ASSUME NEW b \in BoardBlocks, Call(b) PROVE DrawnIsSnapshotted'
  <2>1. UNCHANGED <<context_, latestSnapshot_, block, at>> /\ (SnapshotWaits => SnapshotWaits')
    BY <1>1, <1>3, WaitsOn DEF Call
  <2>2. \A i \in Boards : PendingSnapshot(i) => PendingSnapshot(i)'
    BY <2>1 DEF PendingSnapshot, SnapshotWaits
  <2> QED
    BY <2>1, <2>2, DrawnStays
<1>4. CASE BoardBlock
  <2>1. PICK n \in Nat : n = Len(boardOpQueue')
    <3>1. boardOpQueue' \in Seq(BoardBlocks)
      BY <1>1, <1>4 DEF TypeOK, BoardBlock
    <3> QED
      BY <3>1
  <2>2. /\ Len(boardOpQueue) = n + 1 /\ block = Idle /\ at' = 1
        /\ block' = boardOpQueue[1] /\ \A k \in 1 .. n : boardOpQueue'[k] = boardOpQueue[k + 1]
        /\ UNCHANGED <<context_, latestSnapshot_>>
    <3>1. Len(boardOpQueue) = n + 1 /\ block = Idle
      BY <1>1, <1>4, <2>1, PlacesStart
    <3>2. boardOpQueue' = Tail(boardOpQueue) /\ block' = Head(boardOpQueue) /\ at' = 1
          /\ boardOpQueue # <<>> /\ UNCHANGED <<context_, latestSnapshot_>>
      BY <1>4 DEF BoardBlock, pictures
    <3> QED
      BY <1>1, <2>1, <3>1, <3>2 DEF TypeOK
  <2>3. ASSUME NEW i \in Boards, PendingSnapshot(i) PROVE PendingSnapshot(i)'
    <3>1. PICK k \in 1 .. n + 1 : boardOpQueue[k] = Snapshot
      BY <2>2, <2>3 DEF PendingSnapshot, Idle
    <3>2. CASE k = 1
      BY <2>2, <3>1, <3>2 DEF PendingSnapshot, Snapshot, Boards
    <3>3. CASE k # 1
      <4>1. k - 1 \in 1 .. n /\ (k - 1) + 1 = k
        BY <3>3
      <4>2. boardOpQueue'[k - 1] = Snapshot
        BY <2>2, <3>1, <4>1
      <4> QED
        BY <2>1, <4>1, <4>2 DEF PendingSnapshot
    <3> QED
      BY <3>2, <3>3
  <2> QED
    BY <2>2, <2>3, DrawnStays
<1>5. CASE paintBoard
  <2>1. /\ block' = block /\ block.kind \in {"draw", "load"}
        /\ UNCHANGED <<boardOpQueue, latestSnapshot_>>
    BY <1>5 DEF paintBoard, dispatched
  <2>2. CASE block.kind = "draw"
    BY <2>1, <2>2 DEF DrawnIsSnapshotted, PendingSnapshot
  <2>3. CASE block.kind = "load"
    <3> SUFFICES ASSUME NEW i \in Boards, latestSnapshot_[i] # Released,
                        NEW k \in Len(latestSnapshot_[i]) + 1 .. Len(context_'[i]),
                        context_'[i][k].kind = "draw"
                 PROVE  PendingSnapshot(i)'
      BY <2>1 DEF DrawnIsSnapshotted
    <3>1. context_[i] \in Seq(Items) /\ latestSnapshot_[i] \in Seq(Items)
      BY <1>1 DEF TypeOK
    <3>2. /\ k \in Len(latestSnapshot_[i]) + 1 .. Len(context_[i])
          /\ context_[i][k].kind = "draw"
      <4>1. CASE context_'[i] = context_[i]
        BY <4>1
      <4>2. ASSUME NEW item \in Items, context_'[i] = Append(context_[i], item),
                   item = ItemOf(block)
            PROVE  /\ k \in Len(latestSnapshot_[i]) + 1 .. Len(context_[i])
                   /\ context_[i][k].kind = "draw"
        <5>1. item.kind = "document"
          BY <2>3, <4>2 DEF ItemOf, Document
        <5>2. PICK m \in Nat : m = Len(context_[i])
          BY <3>1
        <5>3. PICK l \in Nat : l = Len(latestSnapshot_[i])
          BY <3>1
        <5>4. /\ Len(context_'[i]) = m + 1 /\ context_'[i][m + 1] = item
              /\ \A j \in 1 .. m : context_'[i][j] = context_[i][j]
          BY <3>1, <4>2, <5>2
        <5>5. k \in l + 1 .. m + 1 /\ k # m + 1
          BY <5>1, <5>3, <5>4
        <5>6. k \in l + 1 .. m /\ k \in 1 .. m
          BY <5>5
        <5> QED
          BY <5>2, <5>3, <5>4, <5>6
      <4> QED
        BY <1>1, <1>5, <4>1, <4>2, ContextsGrow
    <3>3. PendingSnapshot(i)
      BY <3>2 DEF DrawnIsSnapshotted
    <3> QED
      BY <2>1, <2>3, <3>3 DEF PendingSnapshot
  <2> QED
    BY <2>1, <2>2, <2>3
<1>6. CASE saveSnapshot
  <2>1. boardOpQueue' = Append(boardOpQueue, Snapshot) /\ UNCHANGED <<context_, latestSnapshot_>>
    BY <1>6 DEF saveSnapshot, DispatchSnapshot, pictures
  <2>2. SnapshotWaits'
    BY <1>1, <2>1, PaintFacts, WaitsOn
  <2> QED
    BY <2>1, <2>2, DrawnStays DEF PendingSnapshot, SnapshotWaits
<1>7. CASE releaseSnapshot
  <2>1. /\ block.kind = "snapshot" /\ at \in Boards
        /\ latestSnapshot_' = [latestSnapshot_ EXCEPT ![at] = Released]
        /\ UNCHANGED <<boardOpQueue, block, at, context_>>
    BY <1>7 DEF releaseSnapshot, InLoop, dispatched
  <2>2. \A i \in Boards : latestSnapshot_'[i] = IF i = at THEN Released ELSE latestSnapshot_[i]
    BY <1>1, <2>1 DEF TypeOK
  <2>3. \A i \in Boards : PendingSnapshot(i)' <=> PendingSnapshot(i)
    BY <2>1 DEF PendingSnapshot
  <2> QED
    BY <2>1, <2>2, <2>3 DEF DrawnIsSnapshotted
<1>8. CASE createSnapshot
  <2>1. /\ block.kind = "snapshot" /\ at \in Boards /\ at' = at + 1
        /\ latestSnapshot_' = [latestSnapshot_ EXCEPT ![at] = context_[at]]
        /\ UNCHANGED <<boardOpQueue, block, context_>>
    BY <1>8 DEF createSnapshot, InLoop, NextBoard, dispatched
  <2>2. \A i \in Boards :
          latestSnapshot_'[i] = IF i = at THEN context_[at] ELSE latestSnapshot_[i]
    BY <1>1, <2>1 DEF TypeOK
  <2>3. \A i \in Boards \ {at} : PendingSnapshot(i) => PendingSnapshot(i)'
    <3>1. \A i \in Boards \ {at} : at =< i => at' =< i
      BY <2>1 DEF Boards
    <3> QED
      BY <2>1, <3>1 DEF PendingSnapshot
  <2>4. Len(context_[at]) \in Nat
    BY <1>1, <2>1 DEF TypeOK
  <2>5. Len(context_[at]) + 1 .. Len(context_[at]) = {}
    BY <2>4
  <2> QED
    BY <2>1, <2>2, <2>3, <2>5 DEF DrawnIsSnapshotted
<1>9. CASE endSnapshot
  <2>1. /\ block.kind = "snapshot" /\ at = BOARD_NUM + 1
        /\ UNCHANGED <<context_, latestSnapshot_>>
    BY <1>9 DEF endSnapshot, LoopDone, pictures
  <2>2. PICK s \in Seq(Items) : OneSnapshot(s)
    BY DEF SnapshotInv
  <2>3. \A i \in Boards : i < at
    BY <2>1 DEF Boards
  <2>4. \A i \in Boards : latestSnapshot_[i] = context_[i] /\ Len(context_[i]) \in Nat
    BY <1>1, <2>1, <2>2, <2>3 DEF OneSnapshot, TypeOK
  <2>5. \A i \in Boards : Len(latestSnapshot_[i]) + 1 .. Len(context_[i]) = {}
    BY <2>4
  <2> QED
    BY <2>1, <2>5 DEF DrawnIsSnapshotted
<1>10. CASE clearReal \/ clearReceived \/ endLoad
  <2>1. /\ block.kind = "load" /\ UNCHANGED <<boardOpQueue, context_, latestSnapshot_>>
    BY <1>10 DEF clearReal, clearReceived, endLoad, dispatched, pictures
  <2>2. \A i \in Boards : PendingSnapshot(i) => PendingSnapshot(i)'
    BY <2>1 DEF PendingSnapshot
  <2> QED
    BY <2>1, <2>2, DrawnStays
<1> QED
  BY <1>2, <1>3, <1>4, <1>5, <1>6, <1>7, <1>8, <1>9, <1>10, PictureSteps DEF BoardThread

\* A drawing on a context is in the context's latest snapshot, or a snapshot
\* that will have it is still to come.
THEOREM DrawingsGetSnapshots == Spec => []DrawnIsSnapshotted
<1>1. Init => DrawnIsSnapshotted
  BY InitSnapshot
<1>2. CoreInv /\ SnapshotInv /\ DrawnIsSnapshotted /\ [Next]_vars => DrawnIsSnapshotted'
  BY NextDrawn
<1> QED
  BY <1>1, <1>2, CoreHolds, SnapshotHolds, PTL DEF Spec

-----------------------------------------------------------------------------
\* The documents.  Appending to a sequence keeps what is in it.
LEMMA InAppended ==
  ASSUME NEW S, NEW seq \in Seq(S), NEW e \in S, NEW x
  PROVE  (\E k \in 1 .. Len(Append(seq, e)) : Append(seq, e)[k] = x)
           <=> (\E k \in 1 .. Len(seq) : seq[k] = x) \/ e = x
<1>1. PICK n \in Nat : n = Len(seq)
  OBVIOUS
<1>2. PICK t : t = Append(seq, e)
  OBVIOUS
<1>3. /\ Len(t) = n + 1 /\ t[n + 1] = e
      /\ \A k \in 1 .. n : t[k] = seq[k]
  BY <1>1, <1>2
<1>4. 1 .. n + 1 = (1 .. n) \cup {n + 1}
  BY <1>1
<1>5. (\E k \in 1 .. Len(t) : t[k] = x) <=> (\E k \in 1 .. Len(seq) : seq[k] = x) \/ e = x
  BY <1>1, <1>3, <1>4
<1> QED
  BY <1>2, <1>5

LEMMA InTail ==
  ASSUME NEW S, NEW seq \in Seq(S), seq # <<>>, NEW x
  PROVE  (\E k \in 1 .. Len(Tail(seq)) : Tail(seq)[k] = x)
           => \E k \in 1 .. Len(seq) : seq[k] = x
<1> SUFFICES ASSUME NEW k \in 1 .. Len(Tail(seq)), Tail(seq)[k] = x
             PROVE  \E j \in 1 .. Len(seq) : seq[j] = x
  OBVIOUS
<1>1. PICK n \in Nat : n = Len(Tail(seq))
  OBVIOUS
<1>2. Len(seq) = n + 1 /\ seq[k + 1] = x
  BY <1>1
<1>3. k + 1 \in 1 .. n + 1
  BY <1>1
<1> QED
  BY <1>2, <1>3

\* Where the blocks of the next state come from.
LEMMA BlockOrigins ==
  ASSUME CoreInv, [Next]_vars, NEW k \in Places'
  PROVE  \/ \E j \in Places : BlockAt(k)' = BlockAt(j)
         \/ BlockAt(k)' \in {Idle, Snapshot}
         \/ \E b \in BoardBlocks : Call(b) /\ BlockAt(k)' = b
<1>1. TypeOK
  BY DEF CoreInv
<1>2. boardOpQueue' = boardOpQueue /\ block' \in {block, Idle}
        => \/ \E j \in Places : BlockAt(k)' = BlockAt(j)
           \/ BlockAt(k)' = Idle
  BY <1>1, PlacesStay, PlaceFacts
<1>3. CASE Quiet
  BY <1>2, <1>3 DEF Quiet
<1>4. ASSUME NEW b \in BoardBlocks, Call(b)
      PROVE  (\E j \in Places : BlockAt(k)' = BlockAt(j)) \/ BlockAt(k)' = b
  BY <1>1, <1>4, PlacesDispatch, PlaceFacts DEF Call
<1>5. CASE BoardBlock
  BY <1>1, <1>5, PlacesStart
<1>6. CASE saveSnapshot
  <2>1. boardOpQueue' = Append(boardOpQueue, Snapshot) /\ block' = Idle
    BY <1>6 DEF saveSnapshot, DispatchSnapshot
  <2> QED
    BY <1>1, <2>1, PlacesDispatch, PaintFacts
<1>7. CASE paintBoard \/ releaseSnapshot \/ createSnapshot \/ endSnapshot \/ clearReal
           \/ clearReceived \/ endLoad
  BY <1>2, <1>7 DEF paintBoard, releaseSnapshot, createSnapshot, endSnapshot, clearReal,
                    clearReceived, endLoad, dispatched
<1> QED
  BY <1>3, <1>4, <1>5, <1>6, <1>7, PictureSteps DEF BoardThread

\* requested gains at most the document of the call, and no context loses any.
LEMMA DecodesSteps ==
  ASSUME CoreInv, [Next]_vars, NEW n \in 1 .. MaxLoads
  PROVE  /\ Decodes(n)' => Decodes(n) \/ n = loads + 1
         /\ \A b \in BoardBlocks : Call(b) /\ b.kind = "load" /\ ~b.decodes =>
              (Decodes(n)' => Decodes(n))
         /\ loads \in Nat /\ loads' \in {loads, loads + 1}
<1>1. TypeOK
  BY DEF CoreInv
<1>2. loads \in Nat
  BY <1>1, BoardAssumption DEF TypeOK
<1>3. Quiet \/ BoardThread => requested' = requested /\ loads' = loads
  BY DEF Quiet, BoardThread, BoardBlock, paintBoard, saveSnapshot, releaseSnapshot, createSnapshot,
         endSnapshot, clearReal, clearReceived, endLoad, calls
<1>4. ASSUME NEW b \in BoardBlocks, Call(b)
      PROVE  /\ Decodes(n)' => Decodes(n) \/ n = loads + 1
             /\ b.kind = "load" /\ ~b.decodes => (Decodes(n)' => Decodes(n))
             /\ loads' \in {loads, loads + 1}
  <2>1. CASE Paints(b)
    <3>1. requested' = Append(requested, ItemOf(b)) /\ ItemOf(b) \in Items
      BY <1>4, <2>1, PaintFacts DEF Call
    <3>2. Decodes(n)' => Decodes(n) \/ ItemOf(b) = Document(n)
      <4>1. requested \in Seq(Items)
        BY <1>1 DEF TypeOK
      <4>2. PICK e \in Items : e = ItemOf(b)
        BY <3>1
      <4>3. (\E k \in 1 .. Len(Append(requested, e)) : Append(requested, e)[k] = Document(n))
              <=> Decodes(n) \/ e = Document(n)
        BY <4>1, InAppended DEF Decodes
      <4> QED
        BY <3>1, <4>2, <4>3 DEF Decodes
    <3>3. ItemOf(b) = Document(n) => b.kind = "load" /\ b.n = n
      BY <2>1 DEF ItemOf, Document, Paints
    <3> QED
      BY <1>4, <2>1, <3>2, <3>3 DEF Call, Paints
  <2>2. CASE ~Paints(b)
    BY <1>4, <2>2 DEF Call, Decodes
  <2> QED
    BY <2>1, <2>2
<1> QED
  BY <1>2, <1>3, <1>4, PictureSteps DEF Decodes

LEMMA PaintedSteps ==
  ASSUME CoreInv, [Next]_vars, NEW n, NEW i \in Boards, Painted(n, i)
  PROVE  Painted(n, i)'
<1>1. TypeOK /\ context_[i] \in Seq(Items)
  BY DEF CoreInv, TypeOK
<1>2. CASE paintBoard
  <2>1. ItemOf(block) \in Items /\ context_'[i] = Append(context_[i], ItemOf(block))
          => Painted(n, i)'
    BY <1>1, InAppended DEF Painted
  <2> QED
    BY <1>1, <1>2, <2>1, ContextsGrow DEF Painted
<1>3. CASE ~paintBoard
  <2>1. context_' = context_
    BY <1>3, PictureSteps DEF Quiet, Call, BoardThread, BoardBlock, saveSnapshot, releaseSnapshot,
           createSnapshot, endSnapshot, clearReal, clearReceived, endLoad, pictures
  <2> QED
    BY <2>1 DEF Painted
<1> QED
  BY <1>2, <1>3

\* The canvas is told of a document by the end of its load alone.
LEMMA FinishedSteps ==
  ASSUME CoreInv, [Next]_vars, NEW n \in 1 .. MaxLoads, Finished(n)'
  PROVE  Finished(n) \/ (endLoad /\ n = block.n)
<1>1. /\ TypeOK /\ mainQueue \in Seq(MainBlocks) /\ shown \in Seq(Showable)
      /\ UNCHANGED syncCaller
  BY DEF CoreInv, TypeOK, Next, vars
<1> DEFINE Told(q, x) == \E k \in 1 .. Len(q) : q[k] = x
<1>2. /\ Finished(n) <=> \/ Told(shown, Document(n)) \/ Told(mainQueue, Display(n))
                         \/ Caller = "display" /\ awaited = n
      /\ Finished(n)' <=> \/ Told(shown', Document(n)) \/ Told(mainQueue', Display(n))
                          \/ Caller' = "display" /\ awaited' = n
  BY DEF Finished, OnCanvas
<1>3. \A b \in MainBlocks : Told(Append(mainQueue, b), Display(n))
                              => Told(mainQueue, Display(n)) \/ b = Display(n)
  BY <1>1, InAppended
<1>4. \A e \in Showable : Told(Append(shown, e), Document(n))
                            => Told(shown, Document(n)) \/ e = Document(n)
  BY <1>1, InAppended
<1> HIDE DEF Told
<1>5. CASE UNCHANGED <<shown, mainQueue, awaited, main, poller>>
  BY <1>1, <1>2, <1>5 DEF Caller
<1>6. CASE MainBlock
  <2>1. /\ Head(mainQueue) \in MainBlocks /\ mainQueue # <<>> /\ mainQueue' = Tail(mainQueue)
        /\ UNCHANGED <<awaited, poller>> /\ main = "idle"
    BY <1>1, <1>6 DEF MainBlock
  <2>2. Told(mainQueue', Display(n)) => Told(mainQueue, Display(n))
    BY <1>1, <2>1, InTail DEF Told
  <2>3. CASE Head(mainQueue).kind = "display"
    <3>1. Head(mainQueue) = Display(Head(mainQueue).n)
      BY <2>1, <2>3 DEF MainBlocks, Display, Read, Draw
    <3>2. /\ shown' = Append(shown, Document(Head(mainQueue).n)) /\ main' = main
          /\ Document(Head(mainQueue).n) \in Showable
      BY <1>6, <2>1, <2>3 DEF MainBlock, MainBlocks, Showable, Document, Read, Draw
    <3>3. Head(mainQueue).n = n => Told(mainQueue, Display(n))
      <4>1. 1 \in 1 .. Len(mainQueue) /\ Head(mainQueue) = mainQueue[1]
        BY <1>1, <2>1
      <4> QED
        BY <3>1, <4>1 DEF Told
    <3>4. Document(Head(mainQueue).n) = Document(n) => Head(mainQueue).n = n
      BY DEF Document
    <3>5. Told(shown', Document(n)) => Told(shown, Document(n)) \/ Told(mainQueue, Display(n))
      BY <1>4, <3>2, <3>3, <3>4
    <3> QED
      BY <1>1, <1>2, <2>1, <2>2, <3>2, <3>5 DEF Caller
  <2>4. CASE Head(mainQueue).kind # "display"
    BY <1>1, <1>2, <1>6, <2>1, <2>2, <2>4 DEF MainBlock, Caller
  <2> QED
    BY <2>3, <2>4
<1>7. CASE readIsEmpty \/ readDequeue \/ drawIsEmpty \/ drawDequeue
  <2>1. /\ UNCHANGED <<shown, mainQueue, awaited, poller>>
        /\ main' = "display" => main = "display"
    BY <1>7 DEF readIsEmpty, readDequeue, drawIsEmpty, drawDequeue, dispatched
  <2> QED
    BY <1>1, <1>2, <2>1 DEF Caller
<1>8. CASE readSlice \/ trigerReadOperationQueue
  <2>1. /\ UNCHANGED <<shown, awaited>>
        /\ main' = "display" => main = "display"
        /\ poller' = "display" => poller = "display"
        /\ mainQueue' = Append(mainQueue, Draw) \/ mainQueue' = Append(mainQueue, Read)
    BY <1>8 DEF readSlice, trigerReadOperationQueue, trigerDrawSelf
  <2>2. /\ Draw \in MainBlocks /\ Read \in MainBlocks
        /\ Draw # Display(n) /\ Read # Display(n)
    BY DEF MainBlocks, Draw, Read, Display
  <2>3. Told(mainQueue', Display(n)) => Told(mainQueue, Display(n))
    BY <1>3, <2>1, <2>2
  <2> QED
    BY <1>1, <1>2, <2>1, <2>3 DEF Caller
<1>9. CASE drawShow
  <2>1. /\ UNCHANGED <<mainQueue, awaited, poller>> /\ main' = "draw"
        /\ shown' = Append(shown, Operation(hand))
    BY <1>9 DEF drawShow, dispatched
  <2>2. Operation(hand) \in Showable /\ Operation(hand) # Document(n)
    BY <1>9 DEF drawShow, CoreInv, HandInv, Showable, Operation, Document
  <2> QED
    BY <1>1, <1>2, <1>4, <2>1, <2>2 DEF Caller
<1>10. CASE displaySync
  <2>1. /\ Caller = "display" /\ mainQueue' = mainQueue /\ Caller' = "idle"
        /\ shown' = Append(shown, Document(awaited)) /\ awaited \in 1 .. loads
    BY <1>1, <1>10 DEF displaySync, dispatched, CallerGoes, Caller, CoreInv, SyncInv
  <2>2. Document(awaited) \in Showable /\ (Document(awaited) = Document(n) => awaited = n)
    BY <1>1, <2>1 DEF Showable, Document, TypeOK
  <2> QED
    BY <1>2, <1>4, <2>1, <2>2
<1>11. CASE Receive
  <2>1. UNCHANGED <<shown, mainQueue, awaited, main>> /\ poller' = "received"
    BY <1>11 DEF Receive, dispatched
  <2> QED
    BY <1>1, <1>2, <2>1 DEF Caller
<1>12. CASE Application
  <2>1. UNCHANGED <<shown, mainQueue>>
    BY <1>12 DEF Application, drawOperation, requestSnapshot,
                 loadDocumentAsync, loadDocumentSync, DispatchLoad
  <2>2. Caller' = "display" => Caller = "display" /\ awaited' = awaited
    BY <1>1, <1>12 DEF Application, drawOperation, requestSnapshot,
                       loadDocumentAsync, loadDocumentSync, Wait,
                       CallerGoes, Caller, threads
  <2> QED
    BY <1>2, <2>1, <2>2
<1>13. CASE endLoad
  <2>1. shown' = shown /\ awaited' = awaited /\ block.kind = "load"
    BY <1>13 DEF endLoad
  <2>2. CASE block.sync
    <3>1. awaited = block.n
      BY <1>1, <2>1, <2>2, PlaceFacts DEF CoreInv, SyncInv, SyncLoad
    <3>2. mainQueue' = mainQueue
      BY <1>13, <2>2 DEF endLoad, Redraw
    <3> QED
      BY <1>2, <1>13, <2>1, <3>1, <3>2
  <2>3. CASE ~block.sync
    <3>1. /\ mainQueue' = Append(mainQueue, Display(block.n)) /\ UNCHANGED <<main, poller>>
          /\ Display(block.n) \in MainBlocks
      BY <1>1, <1>13, <2>1, <2>3, BlockFacts DEF endLoad, Redraw, TypeOK, MainBlocks, Display
    <3>2. Display(block.n) = Display(n) => n = block.n
      BY DEF Display
    <3> QED
      BY <1>1, <1>2, <1>3, <1>13, <2>1, <3>1, <3>2 DEF Caller
  <2> QED
    BY <2>2, <2>3
<1>14. CASE BoardThread /\ ~endLoad
  <2>1. UNCHANGED <<shown, mainQueue, awaited, main, poller>>
    BY <1>14 DEF BoardThread, BoardBlock, paintBoard, saveSnapshot, releaseSnapshot, createSnapshot,
           endSnapshot, clearReal, clearReceived, threads, dispatched
  <2> QED
    BY <1>5, <2>1
<1>15. CASE UNCHANGED vars
  BY <1>5, <1>15 DEF vars, threads, dispatched
<1> QED
  BY <1>6, <1>7, <1>8, <1>9, <1>10, <1>11, <1>12, <1>13, <1>14, <1>15 DEF Next, MainThread

\* At the end of a load that decodes, every context has the document.
LEMMA LoadPainted ==
  ASSUME TypeOK, ReplayInv, endLoad, block.decodes, NEW i \in Boards
  PROVE  Painted(block.n, i)
<1>1. block.kind = "load" /\ at = BOARD_NUM + 3
  BY DEF endLoad
<1>2. Paints(block) /\ ItemOf(block) = Document(block.n) /\ ~(at =< i)
  BY <1>1, BoardAssumption DEF Paints, ItemOf, Boards
<1>3. PICK upTo : Copies /\ Accounts(upTo)
  BY DEF ReplayInv
<1>4. Len(context_[i]) = upTo[0] /\ upTo[0] >= 1 /\ requested[upTo[0]] = Document(block.n)
  BY <1>2, <1>3, PlaceFacts DEF Accounts
<1>5. upTo[0] \in 1 .. Len(context_[i])
  BY <1>3, <1>4, ReplayFacts
<1>6. context_[i][upTo[0]] = Document(block.n)
  BY <1>3, <1>4, <1>5 DEF Copies
<1> QED
  BY <1>5, <1>6 DEF Painted

LEMMA NextDocument ==
  ASSUME CoreInv, ReplayInv, DocumentInv, [Next]_vars
  PROVE  DocumentInv'
<1>1. TypeOK /\ LoadsWereCalled /\ 0 \in Places /\ BlockAt(0) = block
  BY PlaceFacts DEF CoreInv
<1>2. \A n \in 1 .. MaxLoads : n =< loads => (Decodes(n)' => Decodes(n)) /\ n =< loads'
  <2> TAKE n \in 1 .. MaxLoads
  <2>1. /\ Decodes(n)' => Decodes(n) \/ n = loads + 1
        /\ loads \in Nat /\ loads' \in {loads, loads + 1}
    BY DecodesSteps
  <2> QED
    BY <2>1
<1>3. ASSUME NEW n \in 1 .. MaxLoads, Finished(n)'
      PROVE  n =< loads' /\ (Decodes(n)' => \A i \in Boards : Painted(n, i)')
  <2>1. n =< loads /\ (Decodes(n) => \A i \in Boards : Painted(n, i))
    <3>1. CASE Finished(n)
      BY <3>1 DEF DocumentInv
    <3>2. CASE endLoad /\ n = block.n
      <4>1. block.kind = "load" /\ block.decodes \in BOOLEAN
        BY <1>1, <3>2, BlockFacts DEF endLoad, TypeOK
      <4>2. n =< loads
        BY <1>1, <3>2, <4>1 DEF LoadsWereCalled
      <4>3. ~block.decodes => ~Decodes(n)
        BY <1>1, <3>2, <4>1 DEF DocumentInv
      <4> QED
        BY <1>1, <3>2, <4>1, <4>2, <4>3, LoadPainted
    <3> QED
      BY <1>3, <3>1, <3>2, FinishedSteps
  <2>2. Decodes(n)' => Decodes(n)
    BY <1>2, <2>1
  <2> QED
    BY <1>2, <2>1, <2>2, PaintedSteps
<1>4. ASSUME NEW k \in 1 .. Len(requested'), requested'[k].kind = "document"
      PROVE  requested'[k].n =< loads'
  <2>1. requested' \in Seq(Items)
    BY NextCore DEF CoreInv, TypeOK
  <2>2. PICK n \in 1 .. MaxLoads : requested'[k] = Document(n)
    <3>1. requested'[k] \in Items
      BY <2>1
    <3> QED
      BY <1>4, <3>1 DEF Items, Document
  <2>3. Decodes(n)'
    BY <2>2 DEF Decodes
  <2>4. CASE Decodes(n)
    <3>1. n =< loads
      BY <2>4 DEF Decodes, DocumentInv, Document
    <3> QED
      BY <1>2, <2>2, <3>1 DEF Document
  <2>5. CASE ~Decodes(n)
    <3>1. n = loads + 1 /\ loads \in Nat /\ loads' \in {loads, loads + 1}
      BY <2>3, <2>5, DecodesSteps
    <3>2. loads' = loads + 1
      <4>1. requested' # requested
        BY <2>3, <2>5 DEF Decodes
      <4>2. PICK b \in BoardBlocks : Call(b)
        BY <4>1, PictureSteps DEF Quiet, BoardThread, BoardBlock, paintBoard, saveSnapshot,
           releaseSnapshot, createSnapshot, endSnapshot, clearReal, clearReceived, endLoad, calls
      <4>3. requested' = Append(requested, ItemOf(b)) /\ ItemOf(b) \in Items
        BY <4>1, <4>2, PaintFacts DEF Call
      <4>4. PICK e \in Items : e = ItemOf(b)
        BY <4>3
      <4>5. (\E j \in 1 .. Len(Append(requested, e)) : Append(requested, e)[j] = Document(n))
              <=> Decodes(n) \/ e = Document(n)
        <5>1. requested \in Seq(Items)
          BY <1>1 DEF TypeOK
        <5> QED
          BY <5>1, InAppended DEF Decodes
      <4>6. ItemOf(b) = Document(n)
        BY <2>3, <2>5, <4>3, <4>4, <4>5 DEF Decodes
      <4> QED
        BY <4>1, <4>2, <4>6 DEF Call, ItemOf, Document, Paints
    <3> QED
      BY <2>2, <3>1, <3>2 DEF Document
  <2> QED
    BY <2>4, <2>5
<1>5. ASSUME NEW k \in Places', BlockAt(k)'.kind = "load", ~BlockAt(k)'.decodes
      PROVE  (~Decodes(BlockAt(k).n))'
  <2>1. ASSUME NEW j \in Places, BlockAt(k)' = BlockAt(j) PROVE (~Decodes(BlockAt(k).n))'
    <3>1. PICK b \in BoardBlocks \cup {Idle} : b = BlockAt(j)
      BY <1>1, PlaceFacts
    <3>2. b.kind = "load" /\ b.n \in 1 .. MaxLoads /\ b.n =< loads /\ ~Decodes(b.n)
      BY <1>1, <1>5, <2>1, <3>1, BlockFacts DEF LoadsWereCalled, DocumentInv
    <3>3. PICK n \in 1 .. MaxLoads : n = b.n
      BY <3>2
    <3> QED
      BY <1>2, <2>1, <3>1, <3>2, <3>3
  <2>2. ASSUME NEW b \in BoardBlocks, Call(b), BlockAt(k)' = b PROVE (~Decodes(BlockAt(k).n))'
    <3>1. b.kind = "load" /\ ~b.decodes /\ b.n = loads + 1 /\ b.n \in 1 .. MaxLoads
      BY <1>5, <2>2, BlockFacts DEF Call
    <3>2. PICK n \in 1 .. MaxLoads : n = b.n
      BY <3>1
    <3>3. ~Decodes(n)
      <4> SUFFICES ASSUME Decodes(n) PROVE FALSE
        OBVIOUS
      <4>1. n =< loads
        BY DEF Decodes, DocumentInv, Document
      <4>2. loads \in Nat
        BY DecodesSteps
      <4> QED
        BY <3>1, <3>2, <4>1, <4>2
    <3>4. ~Decodes(n)'
      BY <2>2, <3>1, <3>3, DecodesSteps
    <3> QED
      BY <2>2, <3>2, <3>4
  <2>3. BlockAt(k)' \notin {Idle, Snapshot}
    BY <1>5 DEF Idle, Snapshot
  <2> QED
    BY <2>1, <2>2, <2>3, BlockOrigins
<1> QED
  BY <1>3, <1>4, <1>5 DEF DocumentInv

LEMMA InitDocument == Init => DocumentInv
<1> SUFFICES ASSUME Init PROVE DocumentInv
  OBVIOUS
<1>1. Len(requested) = 0 /\ Len(shown) = 0 /\ Len(mainQueue) = 0 /\ Caller = "idle"
  BY DEF Init, Caller
<1>2. \A k \in Places : BlockAt(k).kind = "idle"
  BY DEF Init, Places, BlockAt, Idle
<1> QED
  BY <1>1, <1>2 DEF DocumentInv, Finished, OnCanvas

\* When the canvas is asked to redraw for a document, every context has it.
THEOREM DocumentsArePainted == Spec => []DisplayShowsDocument
<1>1. Init => DocumentInv
  BY InitDocument
<1>2. CoreInv /\ ReplayInv /\ DocumentInv /\ [Next]_vars => DocumentInv'
  BY NextDocument
<1>3. CoreInv /\ DocumentInv => DisplayShowsDocument
  <2> SUFFICES ASSUME CoreInv, DocumentInv, NEW n \in 1 .. loads, OnCanvas(n), Decodes(n)
               PROVE  \A i \in Boards : Painted(n, i)
    BY DEF DisplayShowsDocument
  <2>1. n \in 1 .. MaxLoads
    BY BoardAssumption DEF CoreInv, TypeOK
  <2> QED
    BY <2>1 DEF DocumentInv, Finished
<1> QED
  BY <1>1, <1>2, <1>3, ReplayHolds, PTL DEF Spec

-----------------------------------------------------------------------------
(***************************************************************************)
(* What the liveness properties rest on: whatever was called or received   *)
(* is done, or something that will do it is waiting in one of the queues   *)
(* or is running.                                                          *)
(***************************************************************************)
Waits(b) == \E k \in 1 .. Len(mainQueue) : mainQueue[k] = b
Loading(n) == \E k \in Places : BlockAt(k).kind = "load" /\ BlockAt(k).n = n

LoadsCome ==
  /\ \A n \in 1 .. loads : Loading(n) \/ Finished(n)
  /\ Caller = "waiting" => \E k \in Places : SyncLoad(BlockAt(k))

OperationsCome ==
  /\ operationQueue_ # <<>> =>
       poller = "received" \/ Waits(Read) \/ main \in {"read", "readSome", "slice"}
  /\ realOperationQueue_ # <<>> => Waits(Draw) \/ main \in {"draw", "drawSome", "show"}
  /\ \A n \in 1 .. received : Queued(n) \/ ShowsOperation(n) \/ loads > 0

\* Who moves the threads.
LEMMA ThreadSteps ==
  ASSUME CoreInv, [Next]_vars
  PROVE  /\ main \in {"read", "readSome", "slice", "draw", "drawSome", "show"} =>
              main' = main \/ (MainThread /\ ~MainBlock)
         /\ poller = "received" => poller' = "received" \/ trigerReadOperationQueue
         /\ Caller' = "waiting" => Caller = "waiting" \/ loadDocumentSync
         /\ Caller = "display" => Caller' = "display" \/ displaySync
         /\ awaited' = awaited \/ loadDocumentSync
<1>1. UNCHANGED syncCaller /\ TypeOK
  BY DEF Next, vars, CoreInv
<1>2. CASE Receive \/ trigerReadOperationQueue \/ UNCHANGED vars
  BY <1>1, <1>2 DEF Receive, trigerReadOperationQueue, vars, threads, Caller
<1>3. CASE displaySync
  BY <1>1, <1>3 DEF displaySync, CallerGoes, Caller, TypeOK
<1>4. CASE drawOperation \/ requestSnapshot \/ loadDocumentAsync
  BY <1>1, <1>4 DEF drawOperation, requestSnapshot, loadDocumentAsync, threads, Caller
<1>5. CASE loadDocumentSync
  BY <1>1, <1>5 DEF loadDocumentSync, Wait, CallerGoes, Caller
<1>6. CASE MainBlock
  <2>1. Head(mainQueue) \in MainBlocks
    BY <1>1, <1>6 DEF MainBlock, TypeOK
  <2>2. main = "idle" /\ main' \in {"idle", "read", "draw"} /\ UNCHANGED <<poller, awaited>>
    BY <1>6, <2>1, MainBlockKinds DEF MainBlock
  <2> QED
    BY <1>1, <2>2 DEF Caller
<1>7. CASE MainThread /\ ~MainBlock
  BY <1>1, <1>7 DEF MainThread, readIsEmpty, readDequeue, readSlice, drawIsEmpty, drawDequeue,
                    drawShow, Caller
<1>8. CASE endLoad
  <2>1. CASE block.sync
    <3>1. Caller = "waiting"
      BY <1>1, <1>8, <2>1, PlaceFacts DEF endLoad, CoreInv, SyncInv, SyncLoad
    <3> QED
      BY <1>1, <1>8, <2>1, <3>1 DEF endLoad, Redraw, CallerGoes, Caller
  <2>2. CASE ~block.sync
    BY <1>1, <1>8, <2>2 DEF endLoad, Redraw, Caller
  <2> QED
    BY <2>1, <2>2
<1>9. CASE BoardThread /\ ~endLoad
  BY <1>1, <1>9 DEF BoardThread, BoardBlock, paintBoard, saveSnapshot, releaseSnapshot,
                    createSnapshot, endSnapshot, clearReal, clearReceived, threads, Caller
<1> QED
  BY <1>2, <1>3, <1>4, <1>5, <1>6, <1>7, <1>8, <1>9 DEF Next, Application

\* The first block of a queue leaves, the others stay.
LEMMA HeadOrTail ==
  ASSUME NEW S, NEW seq \in Seq(S), seq # <<>>, NEW x, x # Head(seq),
         \E k \in 1 .. Len(seq) : seq[k] = x
  PROVE  \E k \in 1 .. Len(Tail(seq)) : Tail(seq)[k] = x
<1>1. PICK n \in Nat : n = Len(Tail(seq))
  OBVIOUS
<1>2. PICK k \in 1 .. n + 1 : seq[k] = x
  BY <1>1
<1>3. k # 1
  BY <1>2
<1>4. k - 1 \in 1 .. n /\ (k - 1) + 1 = k
  BY <1>2, <1>3
<1>5. Tail(seq)[k - 1] = x
  BY <1>1, <1>2, <1>4
<1> QED
  BY <1>1, <1>4, <1>5

\* How the main queue changes.
LEMMA MainQueueSteps ==
  ASSUME CoreInv, [Next]_vars
  PROVE  \/ mainQueue' = mainQueue
         \/ \E b \in MainBlocks : mainQueue' = Append(mainQueue, b)
         \/ MainBlock /\ mainQueue # <<>> /\ mainQueue' = Tail(mainQueue)
<1>1. CASE MainBlock
  BY <1>1 DEF MainBlock
<1>2. CASE readSlice \/ trigerReadOperationQueue
  BY <1>2 DEF readSlice, trigerDrawSelf, trigerReadOperationQueue, MainBlocks
<1>3. CASE endLoad
  <2>1. Display(block.n) \in MainBlocks
    BY <1>3, BlockFacts DEF endLoad, CoreInv, TypeOK, MainBlocks, Display
  <2> QED
    BY <1>3, <2>1 DEF endLoad, Redraw
<1>4. CASE Application
  BY <1>4, CallSteps DEF Call
<1>5. CASE MainThread /\ ~MainBlock /\ ~readSlice
  BY <1>5 DEF MainThread, readIsEmpty, readDequeue, drawIsEmpty, drawDequeue, drawShow, dispatched
<1>6. CASE Receive \/ displaySync \/ UNCHANGED vars
  BY <1>6 DEF Receive, displaySync, vars, dispatched
<1>7. CASE BoardThread /\ ~endLoad
  BY <1>7 DEF BoardThread, BoardBlock, paintBoard, saveSnapshot, releaseSnapshot, createSnapshot,
              endSnapshot, clearReal, clearReceived, dispatched
<1> QED
  BY <1>1, <1>2, <1>3, <1>4, <1>5, <1>6, <1>7 DEF Next, MainThread

LEMMA WaitsKept ==
  ASSUME CoreInv, [Next]_vars, NEW x, Waits(x)
  PROVE  Waits(x)' \/ (MainBlock /\ Head(mainQueue) = x)
<1>1. mainQueue \in Seq(MainBlocks)
  BY DEF CoreInv, TypeOK
<1>2. ASSUME NEW b \in MainBlocks, mainQueue' = Append(mainQueue, b) PROVE Waits(x)'
  BY <1>1, <1>2, InAppended DEF Waits
<1>3. CASE MainBlock /\ mainQueue # <<>> /\ mainQueue' = Tail(mainQueue) /\ Head(mainQueue) # x
  BY <1>1, <1>3, HeadOrTail DEF Waits
<1> QED
  BY <1>2, <1>3, MainQueueSteps DEF Waits

LEMMA WaitsFromCall ==
  ASSUME CoreInv, NEW b \in MainBlocks, mainQueue' = Append(mainQueue, b)
  PROVE  Waits(b)'
<1>1. mainQueue \in Seq(MainBlocks)
  BY DEF CoreInv, TypeOK
<1> QED
  BY <1>1, InAppended DEF Waits

\* A block stays in the board queue until it has been run.
LEMMA BlocksStay ==
  ASSUME CoreInv, [Next]_vars, NEW k \in Places
  PROVE  \/ \E j \in Places' : BlockAt(j)' = BlockAt(k)
         \/ k = 0 /\ (block = Idle \/ saveSnapshot \/ endSnapshot \/ endLoad)
<1>1. TypeOK /\ BlockAt(0) = block /\ 0 \in Places
  BY PlaceFacts DEF CoreInv
<1>2. boardOpQueue' = boardOpQueue /\ block' = block => \E j \in Places' : BlockAt(j)' = BlockAt(k)
  BY <1>1, PlacesStay
<1>3. CASE Quiet
  BY <1>2, <1>3 DEF Quiet
<1>4. ASSUME NEW b \in BoardBlocks, Call(b) PROVE \E j \in Places' : BlockAt(j)' = BlockAt(k)
  BY <1>1, <1>4, PlacesDispatch DEF Call
<1>5. CASE BoardBlock /\ k # 0
  <2>1. /\ Len(boardOpQueue) = Len(boardOpQueue') + 1 /\ Len(boardOpQueue') \in Nat
        /\ \A j \in Places' : BlockAt(j)' = BlockAt(j + 1)
    <3>1. Len(boardOpQueue) \in Nat /\ boardOpQueue # <<>> /\ boardOpQueue' = Tail(boardOpQueue)
      BY <1>1, <1>5 DEF BoardBlock, TypeOK
    <3>2. boardOpQueue' \in Seq(BoardBlocks)
      BY <1>1, <3>1 DEF TypeOK
    <3> QED
      BY <1>1, <1>5, <3>2, PlacesStart
  <2>2. k - 1 \in Places' /\ (k - 1) + 1 = k
    BY <1>5, <2>1 DEF Places
  <2> QED
    BY <2>1, <2>2
<1>6. CASE saveSnapshot /\ k # 0
  BY <1>1, <1>6, PlacesDispatch, PaintFacts DEF saveSnapshot, DispatchSnapshot
<1>7. CASE (endSnapshot \/ endLoad) /\ k # 0
  BY <1>7, PlacesStay DEF endSnapshot, endLoad, dispatched
<1>8. CASE paintBoard \/ releaseSnapshot \/ createSnapshot \/ clearReal \/ clearReceived
  BY <1>2, <1>8 DEF paintBoard, releaseSnapshot, createSnapshot, clearReal, clearReceived, dispatched
<1>9. BoardBlock => block = Idle
  BY DEF BoardBlock
<1> QED
  BY <1>3, <1>4, <1>5, <1>6, <1>7, <1>8, <1>9, PictureSteps DEF BoardThread

\* What the canvas was told, or is about to be, stays so.
LEMMA FinishedKept ==
  ASSUME CoreInv, [Next]_vars, NEW n \in 1 .. MaxLoads, Finished(n)
  PROVE  Finished(n)'
<1>1. shown \in Seq(Showable) /\ mainQueue \in Seq(MainBlocks)
  BY DEF CoreInv, TypeOK
<1>2. \A e \in Showable : shown' = Append(shown, e) =>
         (OnCanvas(n)' <=> OnCanvas(n) \/ e = Document(n))
  BY <1>1, InAppended DEF OnCanvas
<1>3. CASE OnCanvas(n)
  <2>1. \A m \in 1 .. MaxLoads : Document(m) \in Showable
    BY DEF Document, Showable
  <2>2. drawShow => Operation(hand) \in Showable
    BY DEF drawShow, CoreInv, HandInv, Showable, Operation
  <2>3. shown' = shown \/ \E e \in Showable : shown' = Append(shown, e)
    BY <2>1, <2>2, WaySteps
  <2> QED
    BY <1>2, <1>3, <2>3 DEF Finished, OnCanvas
<1>4. CASE Waits(Display(n))
  <2>1. CASE Waits(Display(n))'
    BY <2>1 DEF Waits, Finished
  <2>2. CASE MainBlock /\ Head(mainQueue) = Display(n)
    <3>1. shown' = Append(shown, Document(n)) /\ Document(n) \in Showable
      BY <2>2 DEF MainBlock, Display, Document, Showable
    <3> QED
      BY <1>2, <3>1 DEF Finished
  <2> QED
    BY <1>4, <2>1, <2>2, WaitsKept
<1>5. CASE Caller = "display" /\ awaited = n
  <2>1. CASE Caller' = "display"
    <3>1. ~loadDocumentSync
      BY <1>5 DEF loadDocumentSync
    <3> QED
      BY <1>5, <2>1, <3>1, ThreadSteps DEF Finished
  <2>2. CASE displaySync
    <3>1. shown' = Append(shown, Document(n)) /\ Document(n) \in Showable
      BY <1>5, <2>2 DEF displaySync, Document, Showable
    <3> QED
      BY <1>2, <3>1 DEF Finished
  <2> QED
    BY <1>5, <2>1, <2>2, ThreadSteps
<1> QED
  BY <1>3, <1>4, <1>5 DEF Finished, Waits

LEMMA EndLoadFinishes ==
  ASSUME CoreInv, [Next]_vars, endLoad
  PROVE  /\ \A n \in 1 .. MaxLoads : n = block.n => Finished(n)'
         /\ block.sync => Caller' = "display"
<1>1. /\ block.kind = "load" /\ UNCHANGED <<syncCaller, awaited>> /\ Redraw(block.n)
      /\ block.n \in 1 .. MaxLoads /\ block \in BoardBlocks
  BY BlockFacts DEF endLoad, Next, vars, CoreInv, TypeOK, Idle
<1>2. PICK n \in 1 .. MaxLoads : n = block.n
  BY <1>1
<1>3. CASE block.sync
  <2>1. awaited = n
    BY <1>1, <1>2, <1>3, PlaceFacts DEF CoreInv, SyncInv, SyncLoad
  <2>2. Caller' = "display"
    BY <1>1, <1>3 DEF Redraw, CallerGoes, Caller
  <2>3. Finished(n)'
    BY <1>1, <2>1, <2>2 DEF Finished
  <2> QED
    BY <1>2, <2>2, <2>3
<1>4. CASE ~block.sync
  <2>1. mainQueue' = Append(mainQueue, Display(n)) /\ Display(n) \in MainBlocks
    BY <1>1, <1>2, <1>4 DEF Redraw, Display, MainBlocks
  <2>2. Waits(Display(n))'
    BY <2>1, WaitsFromCall
  <2>3. Finished(n)'
    BY <2>2 DEF Finished, Waits
  <2> QED
    BY <1>2, <1>4, <2>3
<1> QED
  BY <1>3, <1>4

LEMMA NextLoadsCome ==
  ASSUME CoreInv, LoadsCome, [Next]_vars
  PROVE  LoadsCome'
<1>1. TypeOK /\ loads \in 0 .. MaxLoads /\ BlockAt(0) = block /\ 0 \in Places
  BY PlaceFacts DEF CoreInv, TypeOK
<1>2. ASSUME NEW n \in 1 .. MaxLoads, n =< loads PROVE Loading(n)' \/ Finished(n)'
  <2>1. CASE Finished(n)
    BY <2>1, FinishedKept
  <2>2. CASE Loading(n)
    <3>1. PICK k \in Places : BlockAt(k).kind = "load" /\ BlockAt(k).n = n
      BY <2>2 DEF Loading
    <3>2. CASE \E j \in Places' : BlockAt(j)' = BlockAt(k)
      BY <3>1, <3>2 DEF Loading
    <3>3. CASE k = 0 /\ endLoad
      <4>1. block.n = n
        BY <1>1, <3>1, <3>3
      <4> QED
        BY <3>3, <4>1, EndLoadFinishes
    <3>4. k = 0 => ~(block = Idle \/ saveSnapshot \/ endSnapshot)
      BY <1>1, <3>1 DEF saveSnapshot, endSnapshot, Idle
    <3> QED
      BY <3>2, <3>3, <3>4, BlocksStay
  <2> QED
    BY <1>1, <1>2, <2>1, <2>2 DEF LoadsCome
<1>3. ASSUME NEW b \in BoardBlocks, boardOpQueue' = Append(boardOpQueue, b)
      PROVE  \E k \in Places' : BlockAt(k)' = b
  <2>1. Len(boardOpQueue') = Len(boardOpQueue) + 1 /\ Len(boardOpQueue) \in Nat
    BY <1>1, <1>3, PlacesDispatch DEF TypeOK
  <2>2. Len(boardOpQueue) + 1 \in Places'
    BY <2>1 DEF Places
  <2> QED
    BY <1>1, <1>3, <2>2, PlacesDispatch
<1>4. ASSUME NEW n \in 1 .. loads' PROVE Loading(n)' \/ Finished(n)'
  <2>1. loads' \in 0 .. MaxLoads /\ MaxLoads \in Nat
    BY NextCore, BoardAssumption DEF CoreInv, TypeOK
  <2>2. n \in 1 .. MaxLoads
    BY <2>1
  <2>3. CASE loads' = loads
    BY <1>2, <2>2, <2>3
  <2>4. ASSUME NEW b \in BoardBlocks, Call(b) PROVE Loading(n)' \/ Finished(n)'
    <3>1. CASE n =< loads
      BY <1>2, <2>2, <3>1
    <3>2. CASE ~(n =< loads)
      <4>1. b.kind = "load" /\ b.n = n
        BY <1>1, <2>1, <2>2, <2>4, <3>2 DEF Call
      <4>2. \E k \in Places' : BlockAt(k)' = b
        BY <1>3, <2>4 DEF Call
      <4> QED
        BY <4>1, <4>2 DEF Loading
    <3> QED
      BY <3>1, <3>2
  <2>5. BoardThread => loads' = loads
    BY DEF BoardThread, BoardBlock, paintBoard, saveSnapshot, releaseSnapshot, createSnapshot,
           endSnapshot, clearReal, clearReceived, endLoad, calls
  <2> QED
    BY <2>3, <2>4, <2>5, PictureSteps DEF Quiet
<1>5. ASSUME Caller' = "waiting" PROVE \E k \in Places' : SyncLoad(BlockAt(k))'
  <2>1. CASE loadDocumentSync
    <3>1. PICK decodes \in BOOLEAN :
            boardOpQueue' = Append(boardOpQueue, Load(loads + 1, decodes, TRUE)) /\ loads < MaxLoads
      BY <2>1 DEF loadDocumentSync, DispatchLoad
    <3>2. loads + 1 \in 1 .. MaxLoads
      BY <1>1, <3>1, BoardAssumption
    <3>3. Load(loads + 1, decodes, TRUE) \in BoardBlocks
      BY <3>2 DEF BoardBlocks, Load
    <3>4. PICK k \in Places' : BlockAt(k)' = Load(loads + 1, decodes, TRUE)
      BY <1>3, <3>1, <3>3
    <3> QED
      BY <3>4 DEF SyncLoad, Load
  <2>2. CASE Caller = "waiting"
    <3>1. PICK k \in Places : SyncLoad(BlockAt(k))
      BY <2>2 DEF LoadsCome
    <3>2. k = 0 => ~(block = Idle \/ saveSnapshot \/ endSnapshot)
      BY <1>1, <3>1 DEF saveSnapshot, endSnapshot, Idle, SyncLoad
    <3>3. ~(k = 0 /\ endLoad)
      BY <1>1, <1>5, <3>1, EndLoadFinishes DEF SyncLoad
    <3> QED
      BY <3>1, <3>2, <3>3, BlocksStay DEF SyncLoad
  <2> QED
    BY <1>5, <2>1, <2>2, ThreadSteps
<1> QED
  BY <1>4, <1>5 DEF LoadsCome

\* Every load that was called is in the board queue, or the canvas was asked to
\* redraw for it or will be; and whoever waits in loadDocumentSync: waits for a
\* block that is in that queue.
THEOREM LoadsStillCome == Spec => []LoadsCome
<1>1. Init => LoadsCome
  BY DEF Init, LoadsCome, Caller
<1>2. CoreInv /\ LoadsCome /\ [Next]_vars => LoadsCome'
  BY NextLoadsCome
<1> QED
  BY <1>1, <1>2, CoreHolds, PTL DEF Spec

\* Who changes the queues of operations.
LEMMA OperationQueueSteps ==
  ASSUME CoreInv, [Next]_vars
  PROVE  /\ \/ operationQueue_' = operationQueue_ \/ operationQueue_' = <<>>
            \/ Receive \/ readDequeue
         /\ \/ realOperationQueue_' = realOperationQueue_ \/ realOperationQueue_' = <<>>
            \/ readSlice \/ drawDequeue
<1>1. CASE Bystander
  BY <1>1 DEF Bystander
<1>2. CASE Receive \/ readIsEmpty \/ readDequeue \/ readSlice
  BY <1>2 DEF Receive, readIsEmpty, readDequeue, readSlice, queues
<1>3. CASE drawIsEmpty \/ drawDequeue \/ drawShow \/ clearReal \/ clearReceived
  BY <1>3 DEF drawIsEmpty, drawDequeue, drawShow, clearReal, clearReceived, EmptyReal, queues
<1> QED
  BY <1>1, <1>2, <1>3, BystanderSteps DEF Next, MainThread, BoardThread

LEMMA NextOperationsCome ==
  ASSUME CoreInv, OperationsCome, [Next]_vars
  PROVE  OperationsCome'
<1>1. CoreInv' /\ TypeOK /\ Read \in MainBlocks /\ Draw \in MainBlocks
  BY NextCore DEF CoreInv, MainBlocks
<1>2. ASSUME operationQueue_' # <<>>
      PROVE  poller' = "received" \/ Waits(Read)' \/ main' \in {"read", "readSome", "slice"}
  <2>1. CASE Receive
    BY <2>1 DEF Receive
  <2>2. CASE readDequeue \/ readIsEmpty \/ readSlice
    BY <1>2, <2>2 DEF readDequeue, readIsEmpty, readSlice, queues
  <2>3. CASE operationQueue_' = operationQueue_ /\ ~readDequeue /\ ~readIsEmpty /\ ~readSlice
    <3>1. CASE poller = "received"
      <4>1. CASE trigerReadOperationQueue
        BY <1>1, <4>1, WaitsFromCall DEF trigerReadOperationQueue
      <4> QED
        BY <3>1, <4>1, ThreadSteps
    <3>2. CASE Waits(Read)
      <4>1. CASE MainBlock /\ Head(mainQueue) = Read
        BY <4>1 DEF MainBlock, Read
      <4> QED
        BY <3>2, <4>1, WaitsKept
    <3>3. CASE main \in {"read", "readSome", "slice"}
      <4>1. ~(drawIsEmpty \/ drawDequeue \/ drawShow)
        BY <3>3 DEF drawIsEmpty, drawDequeue, drawShow
      <4>2. ~(MainThread /\ ~MainBlock)
        BY <2>3, <4>1 DEF MainThread
      <4> QED
        BY <3>3, <4>2, ThreadSteps
    <3> QED
      BY <1>2, <2>3, <3>1, <3>2, <3>3 DEF OperationsCome
  <2> QED
    BY <1>2, <2>1, <2>2, <2>3, OperationQueueSteps
<1>3. ASSUME realOperationQueue_' # <<>>
      PROVE  Waits(Draw)' \/ main' \in {"draw", "drawSome", "show"}
  <2>1. CASE readSlice
    BY <1>1, <2>1, WaitsFromCall DEF readSlice, trigerDrawSelf
  <2>2. CASE drawDequeue \/ drawIsEmpty \/ drawShow
    BY <1>3, <2>2 DEF drawDequeue, drawIsEmpty, drawShow, queues
  <2>3. CASE realOperationQueue_' = realOperationQueue_ /\ ~readSlice /\ ~drawDequeue
             /\ ~drawIsEmpty /\ ~drawShow
    <3>1. CASE Waits(Draw)
      <4>1. CASE MainBlock /\ Head(mainQueue) = Draw
        BY <4>1 DEF MainBlock, Draw
      <4> QED
        BY <3>1, <4>1, WaitsKept
    <3>2. CASE main \in {"draw", "drawSome", "show"}
      <4>1. ~(readIsEmpty \/ readDequeue \/ readSlice)
        BY <3>2 DEF readIsEmpty, readDequeue, readSlice
      <4>2. ~(MainThread /\ ~MainBlock)
        BY <2>3, <4>1 DEF MainThread
      <4> QED
        BY <3>2, <4>2, ThreadSteps
    <3> QED
      BY <1>3, <2>3, <3>1, <3>2 DEF OperationsCome
  <2> QED
    BY <1>3, <2>1, <2>2, <2>3, OperationQueueSteps
<1>4. ASSUME NEW n \in 1 .. received', ~(loads' > 0) PROVE Queued(n)' \/ ShowsOperation(n)'
  <2>1. ~(loads > 0)
    BY <1>4, EpochSteps
  <2>2. CASE Receive /\ n = received + 1
    BY <1>1, <2>2, ReceivedWaits, QueuedNext
  <2>3. CASE n \in 1 .. received
    <3>1. CASE ShowsOperation(n)
      BY <3>1, ShownStill
    <3>2. CASE n \in OnTheirWay
      <4>1. ~(clearReal \/ clearReceived)
        <5> SUFFICES ASSUME block.kind = "load" PROVE FALSE
          BY DEF clearReal, clearReceived
        <5>1. block.n =< loads /\ block.n \in 1 .. MaxLoads
          BY <1>1, PlaceFacts, BlockFacts DEF CoreInv, LoadsWereCalled, TypeOK
        <5> QED
          BY <2>1, <5>1, EpochSteps
      <4>2. CASE n \in OnTheirWay'
        BY <1>1, <4>2, QueuedNext
      <4>3. CASE n = hand /\ drawShow
        BY <4>3, ShownStill
      <4> QED
        BY <3>2, <4>1, <4>2, <4>3, WaySteps
    <3> QED
      BY <2>1, <2>3, <3>1, <3>2, QueuedFacts DEF OperationsCome
  <2> QED
    BY <2>2, <2>3, EpochSteps
<1> QED
  BY <1>2, <1>3, <1>4 DEF OperationsCome

\* What is received does not stay in a queue unseen: a block that reads the
\* queue, or draws from it, is waiting or running, or will be dispatched by the
\* poller; and without a load nothing is dropped.
THEOREM OperationsStillCome == Spec => []OperationsCome
<1>1. Init => OperationsCome
  BY DEF Init, OperationsCome
<1>2. CoreInv /\ OperationsCome /\ [Next]_vars => OperationsCome'
  BY NextOperationsCome
<1> QED
  BY <1>1, <1>2, CoreHolds, PTL DEF Spec

\* The drawings, board by board.
Drawn(n, i) == \E k \in 1 .. Len(context_[i]) : context_[i][k] = Drawing(n)
DrawingsCome ==
  \A n \in 1 .. draws : \A i \in Boards :
    \/ Drawn(n, i)
    \/ block = Drawing(n) /\ at =< i
    \/ \E k \in 1 .. Len(boardOpQueue) : boardOpQueue[k] = Drawing(n)

LEMMA DrawnKept ==
  ASSUME CoreInv, [Next]_vars, NEW n, NEW i \in Boards, Drawn(n, i)
  PROVE  Drawn(n, i)'
<1>1. context_[i] \in Seq(Items) /\ (paintBoard => ItemOf(block) \in Items)
  BY PaintFacts, BlockFacts DEF CoreInv, TypeOK, paintBoard, ItemOf
<1>2. CASE paintBoard
  <2>1. ItemOf(block) \in Items /\ context_'[i] = Append(context_[i], ItemOf(block))
          => Drawn(n, i)'
    BY <1>1, InAppended DEF Drawn
  <2> QED
    BY <1>1, <1>2, <2>1, ContextsGrow DEF Drawn, CoreInv
<1>3. CASE ~paintBoard
  <2>1. context_' = context_
    BY <1>3, PictureSteps DEF Quiet, Call, BoardThread, BoardBlock, saveSnapshot, releaseSnapshot,
           createSnapshot, endSnapshot, clearReal, clearReceived, endLoad, pictures
  <2> QED
    BY <2>1 DEF Drawn
<1> QED
  BY <1>2, <1>3

LEMMA NextDrawingsCome ==
  ASSUME CoreInv, DrawingsCome, [Next]_vars
  PROVE  DrawingsCome'
<1>1. /\ TypeOK /\ boardOpQueue \in Seq(BoardBlocks) /\ at \in Int /\ BOARD_NUM \in Nat
      /\ draws \in Nat /\ block \in BoardBlocks \cup {Idle}
  BY BoardAssumption DEF CoreInv, TypeOK
<1> DEFINE Comes(n) == \E k \in 1 .. Len(boardOpQueue) : boardOpQueue[k] = Drawing(n)
<1>2. ASSUME NEW b \in BoardBlocks, boardOpQueue' = Append(boardOpQueue, b)
      PROVE  \A n : Comes(n)' <=> Comes(n) \/ b = Drawing(n)
  BY <1>1, <1>2, InAppended
<1>3. ASSUME NEW n, NEW i \in Boards, Comes(n)
      PROVE  Comes(n)' \/ (block' = Drawing(n) /\ at' =< i)
  <2>1. CASE BoardBlock
    <3>1. /\ boardOpQueue # <<>> /\ boardOpQueue' = Tail(boardOpQueue)
          /\ block' = Head(boardOpQueue) /\ at' = 1
      BY <2>1 DEF BoardBlock
    <3>2. CASE Head(boardOpQueue) = Drawing(n)
      BY <3>1, <3>2 DEF Boards
    <3>3. CASE Head(boardOpQueue) # Drawing(n)
      BY <1>1, <1>3, <3>1, <3>3, HeadOrTail
    <3> QED
      BY <3>2, <3>3
  <2>2. CASE ~BoardBlock
    <3>1. boardOpQueue' = boardOpQueue \/ \E b \in BoardBlocks : boardOpQueue' = Append(boardOpQueue, b)
      BY <2>2, PictureSteps, PaintFacts
         DEF Quiet, Call, BoardThread, paintBoard, saveSnapshot, DispatchSnapshot,
             releaseSnapshot, createSnapshot, endSnapshot, clearReal, clearReceived, endLoad,
             dispatched
    <3> QED
      BY <1>2, <1>3, <3>1
  <2> QED
    BY <2>1, <2>2
<1>4. ASSUME NEW n, NEW i \in Boards, block = Drawing(n), at =< i
      PROVE  Drawn(n, i)' \/ (block' = Drawing(n) /\ at' =< i)
  <2>1. block.kind = "draw" /\ block # Idle
    BY <1>4 DEF Drawing, Idle
  <2>2. CASE paintBoard
    <3>1. /\ block' = block /\ at' = at + 1 /\ at \in Boards
          /\ context_' = [context_ EXCEPT ![at] = Append(@, block)]
      BY <2>1, <2>2 DEF paintBoard, Paint, NextBoard, InLoop
    <3>2. CASE at = i
      <4>1. context_'[i] = Append(context_[i], block) /\ context_[i] \in Seq(Items) /\ block \in Items
        BY <1>1, <2>1, <3>1, <3>2, BlockFacts DEF TypeOK
      <4> QED
        BY <1>4, <4>1, InAppended DEF Drawn
    <3>3. CASE at # i
      BY <1>1, <1>4, <3>1, <3>3 DEF Boards
    <3> QED
      BY <3>2, <3>3
  <2>3. CASE ~paintBoard
    <3>1. ~saveSnapshot
      BY <1>1, <1>4 DEF saveSnapshot, LoopDone, Boards
    <3>2. UNCHANGED <<block, at>>
      BY <2>1, <2>3, <3>1, PictureSteps
         DEF Quiet, Call, BoardThread, BoardBlock, releaseSnapshot, createSnapshot, endSnapshot,
             clearReal, clearReceived, endLoad
    <3> QED
      BY <1>4, <3>2
  <2> QED
    BY <2>2, <2>3
<1>5. ASSUME NEW n \in 1 .. draws, NEW i \in Boards
      PROVE  Drawn(n, i)' \/ (block' = Drawing(n) /\ at' =< i) \/ Comes(n)'
  <2>1. Drawn(n, i) \/ (block = Drawing(n) /\ at =< i) \/ Comes(n)
    BY DEF DrawingsCome
  <2> HIDE DEF Comes
  <2> QED
    BY <1>3, <1>4, <2>1, DrawnKept
<1>6. CASE drawOperation
  <2>1. PICK m \in 1 .. MaxDraws : m = draws + 1
    BY <1>1, <1>6, BoardAssumption DEF drawOperation
  <2>2. draws' = m /\ boardOpQueue' = Append(boardOpQueue, Drawing(m)) /\ Drawing(m) \in BoardBlocks
    BY <1>6, <2>1 DEF drawOperation, BoardBlocks, Drawing
  <2>3. Comes(m)'
    BY <1>2, <2>2
  <2>4. \A n \in 1 .. draws' : n \in 1 .. draws \/ n = m
    BY <1>1, <2>1, <2>2
  <2> QED
    BY <1>5, <2>3, <2>4 DEF DrawingsCome
<1>7. CASE ~drawOperation
  <2>1. draws' = draws
    BY <1>7, QuietSteps
       DEF Next, Application, requestSnapshot, loadDocumentAsync, loadDocumentSync, DispatchLoad,
           BoardThread, BoardBlock, paintBoard, saveSnapshot, releaseSnapshot, createSnapshot,
           endSnapshot, clearReal, clearReceived, endLoad, vars, calls
  <2> QED
    BY <1>5, <2>1 DEF DrawingsCome
<1> QED
  BY <1>6, <1>7

\* A drawing that was asked for is on every context that the board queue has
\* got to with it, or waits in that queue; what is on a context has its snapshot
\* to come (DrawingsGetSnapshots).
THEOREM DrawingsStillCome == Spec => []DrawingsCome
<1>1. Init => DrawingsCome
  BY DEF Init, DrawingsCome
<1>2. CoreInv /\ DrawingsCome /\ [Next]_vars => DrawingsCome'
  BY NextDrawingsCome
<1> QED
  BY <1>1, <1>2, CoreHolds, PTL DEF Spec
=============================================================================
