# TLA+ models of the online whiteboard client library

This directory holds the specifications of the client library of an online whiteboard
(`src/OwbClientlibXcode`, Objective-C++ for iOS), the TLC configurations that check them on
small instances, and machine-checked proofs about them. Paths below are relative to
`src/OwbClientlibXcode`.

1. The system  2. Modules  3. Runs and bounds  4. Fairness  5. Proofs  6. What disagrees
with the code's intent  7. Abstractions and what is not modelled  8. Plan

## 1. The system

A meeting has one host, who draws, and any number of members, who watch. The library in
each client

- sends what is drawn locally to an *updater* server and fetches what others drew, as
  operations with serial numbers, from a *data provider*; a *monitor* server manages
  meetings;
- keeps the board as five bitmaps of different sizes (`BOARD_NUM`, 1024x768 to 3072x2304),
  paints drawings and documents on all of them, and keeps a snapshot image of each.

The library creates no thread. Its code runs on the main dispatch queue, on one serial
dispatch queue of its own (`boardOpQueue`), and on whatever threads the application calls
it from (polling, networking). That is where most of what is hard about it comes from.

| Component | State | Operations | Who calls it |
|---|---|---|---|
| `Tools/OwbClientOperationQueue.mm` operation queue | an `NSMutableArray`, two recursive locks, the latest serial number | `enqueue:` `dequeue` `isEmpty` `lock` `unLock` `clear` `getServerData` | `BoardModel` (two instances), the application's poller |
| `Models/BoardModel.mm` board model | the two operation queues, the board queue, contexts, snapshots, drawer slots, canvas, host mode | `trigerReadOperationQueue` `drawOperation:` `loadDocumentAsync:` `loadDocumentSync:` `saveSnapshot` `getData:` `getLatestSnapshot:` `attach...` | application threads; its blocks run on the main and the board queue |
| same file, `reverseOp:` `resizeOperation:` board coordinates | none (works in place on an operation) | turn the y axis over, scale to a board | the board queue |
| `Tools/Drawer.mm` `PointResource`, `EraserResource` slot registries | a bit mask of free slots, a lock | `registerResource` `unRegisterResouce:` `checkRid:` | freehand drawers, for each board |
| `Tools/Drawer.mm` `PointDrawer`, `Eraser` freehand drawers | three pen points per slot, uninitialised at first | `registerDataSource` `unregisterDataSource:` `draw:` | the board queue |
| `Tools/ColorMaker.mm`, all drawers: paint state | a colour table shared by everybody; colour and alpha left in each context | `CGColorMake` `CGEraserColor`, every `draw:` | the board queue |
| `Models/MessageModel.mm` message model | a generated message each | setters and getters, `duplicate`, `initFromOperation:` | everybody |
| `NetWork/ServerDelegate.cc` remote calls | the servers' addresses; the RCF library's use count | one blocking method for each remote method | any thread, through `Server/OwbClientServerDelegate.mm` |
| `View/Canvas.mm` canvas | delegates, `isDrawable_` | `display` `drawOp:` | the board model |
| `ProtoBuffer/` wire format, `ThridParty/` RCF and protobuf | generated or vendored | | |

How a received operation travels: the poller calls `getServerData`, which appends to
`operationQueue_`; it calls `trigerReadOperationQueue`, which dispatches a block to the main
queue; the block slices each operation into `realOperationQueue_` and dispatches a
`drawSelf` block each; that one hands them to the canvas (`drawOp:`, whose body is empty in
this commit). How a local drawing travels: `drawOperation:` dispatches a block to the board
queue that draws the operation on the five contexts and dispatches another that replaces the
five snapshots. A document load paints an image on the five contexts from the board queue,
clears both operation queues from there, and has the canvas redraw: through the main queue
(async) or by its caller, who waits (sync).

What is hard: two queues and any number of callers on shared state; checks that end before
the use they protect; clears from another thread than the user's; two locks, taken together
by some and apart by others, and one method that takes none; drawers, colour table and
registries shared between the five boards; remote calls that fail after the server acted.
`PROJECT.json` lists every such place under `hazards` with its line, the properties that
cover it, and what they leave out of it, where the code does what the hazard says.

What makes each component correct:

- *operation queue*: no two threads in the array; first in, first out; every operation of
  the provider fetched once; the two locks never leave a thread waiting for ever.
- *board model*: operations reach the canvas in order; the five contexts are one picture;
  snapshots follow the drawings; loads end, and are displayed only when painted.
- *coordinates*: one picture at five sizes, upright, inside the bitmaps; the caller's
  operation untouched.
- *registries and freehand drawers*: a slot belongs to one board; each stroke consists of its
  own board's points; `draw:` throws for nobody who was given a slot.
- *paint state*: what is drawn does not depend on what was drawn before.
- *remote calls*: `true` and `false` mean what the caller takes them for; the RCF library is
  up while anybody is in a call.

## 2. Modules

| Module | Stands for | State and actions |
|---|---|---|
| `PointResource` | the slot registry (both copies: `EraserResource` is the same code) | `using_mask` is the mask as the set of its set bits; `registerResource` and `unRegisterResouce` are one step each because both run under the registry's lock |
| `RidAllocator` | what a registry promises: an owner keeps its slot alone until it releases it | `PointResource` implements it, alone and inside `Pen` (`AllocatorSpec`) |
| `Pen` | `PointDrawer` and `Eraser`; extends `PointResource` | `kind` says which of the two; `startPoint_`, `point1_`, `point2_` by slot, `Garbage` until written; `registerDataSource`, `unregisterDataSource`, `draw` (which may throw) |
| `OperationQueue` | `OwbClientOperationQueue` with any threads in any roles, and the provider's log behind it | a program counter for each thread: lock, access to the array, write-back, unlock; the unlocked append of `getServerData` likewise; serial numbers at a width of `2 * Half`, answers limited to `MaxAnswer`, operations that cannot be read |
| `FifoQueue` | a FIFO queue with the number of the latest item | implemented by `OperationQueue` when one thread enqueues and dequeues (`FifoSpec`) |
| `BoardModel` | the pipeline: poller, main queue, board queue, callers | a dispatch queue is the sequence of its blocks, a block runs in steps: one context of a loop, one half of a check and dequeue, one clear, a release or a creation of a snapshot at a time |
| `BoardImage` | the loop of `drawOperationBack:` on one operation: `duplicate`, `reverseOp`, `resizeOperation`, `draw` | `object` holds the caller's operation and the copy; `op` says which of them the loop works on |
| `Paint` | colour table, state of the contexts, five drawers, documents | one step is what a block does to one context |
| `OperationLifetime` | the operation objects: alloc, retain, release, dealloc, on the application's thread, the poller and the board queue | `retainCount`, the places malloc gives (`place`, `content`), who holds what (`app`, both queues, `hand`, `op`); `dealloc` in two steps, as `[super dealloc]` comes before the message is deleted |
| `Startup` | what threads set up while others run: `SharedBoard`, `GetInstance`, attachments, host mode, addresses, and `readOperationQueue` on whatever is attached | look, create, store and read again of the two singletons, field by field writes; `readOperationQueue` reads `operationQueue_` at each of its calls |
| `ClientStub` | RCF's client stub and session: connect, send, receive, time outs, the second try in an older server's version; servers that execute, refuse, and are restarted | `pc` of each thread in its call, `network` the messages on the connections, `executed` what the servers did |
| `ServerDelegate` | the remote methods; extends `ClientStub` | `Enter` (initialise the library, construct the client), `Return`, `Rethrow`, `Fail` (and deinitialise); the history of what the server accepted |
| `RemoteCall` | a call executed at most once, answered or failed | implemented by `ServerDelegate` (`CallSpec`) |
| `MC...` | values for constants (operations, coordinates) and symmetries | |
| `...Proofs` | theorems about the module of that name (`PenProofs`: also about `PointResource`) | section 5 |

How they fit together: `Pen` is composed with its registry, `ServerDelegate` with RCF's stub.
`BoardModel` treats an operation queue as a sequence, one step for each call; what allows
that is `FifoSpec`, and `queue_shared` shows where it stops being allowed (section 6).
`BoardImage`, `Pen` and `Paint` refine what `BoardModel` calls painting an item on context
`at`: coordinates, strokes and colours of one iteration. `OperationLifetime` goes through the
same calls as `BoardModel` with the objects instead of the order in view. `Startup` comes
before the others: they begin with one board, to which a queue is attached, and with bound
addresses. `ServerDelegate`'s failures are the empty answers of `OperationQueue`.

Operators named as mutants in their comments are deliberate mistakes (a lock not waited for,
a loop one short). No specification uses them: `PROJECT.json` names, for each property of
each run, one definition to replace by a mutant so that the property fails.

## 3. Runs and bounds

| Run | Module, configuration | What it shows |
|---|---|---|
| `slots_check` | `PointResource`, `PointResourceCheckRid.cfg` | A violation: section 6. |
| `pen` | `Pen` | Three boards register, draw and unregister in any order on a pool of two slots, with the point drawer or the eraser. The registry: slots are never shared or taken away, and a registration is refused only when every slot was handed out. The drawers: strokes join, are made of their own board's points, and never come from uninitialised points after a start; `draw:` throws only for a board that was refused. Three boards, so that one acts between two steps of another while the third is refused. |
| `queue_confined` | `MCOperationQueue`, `...Confined.cfg` | `realOperationQueue_` as `BoardModel` uses it: the main thread enqueues and dequeues, the board queue's thread and another clear. No race, a FIFO queue, and whoever has the first of the two locks gets the second. Three operations, so that two can be in the queue while one is taken. |
| `queue_shared` | `...Shared.cfg` | The queue used by everybody the interface allows: application thread, two dequeuers, clearer, fetcher. Threads meet in the array only in `getServerData`, or in `enqueue:` and `dequeue`; what is fetched twice was fetched again because `enqueue:` of a local operation had set the latest serial number back. |
| `queue_polled` | `...Polled.cfg` | `operationQueue_` with one thread that fetches and takes: each operation of the provider's log comes out once, in order, through empty and failed answers; nothing is skipped when the rest cannot be had. A log of six with 3-bit serial numbers, so that those from the fourth on are negative ints; an answer holds three operations, so that a client may fall behind too far; the sixth cannot be read. |
| `board` | `BoardModel` | Two received operations, a drawing, a load of either kind and a snapshot the application asks for: nothing shown out of order or twice, nothing left behind in the queues, the drawing gets into the snapshots, contexts are replicas of the requests in the order of dispatch, a redraw finds the document painted, snapshots show one moment. Three contexts, so that a loop has a first, a middle and a last iteration. |
| `board_sync` | `...Sync.cfg` | Three operations and two sync loads, called by the main thread (then `dequeue` never finds an emptied queue and nothing older is shown over the document) or by the poller (then no operation received after the call is lost to it). |
| `board_image` | `MCBoardImage` | One operation of each kind on the code's five boards at their sizes; points at the edges, one beyond each, and inside; thicknesses around the least visible one. |
| `paint` | `Paint` | All sequences of three items in two colours (the eraser's among them) and two alphas on two boards. Three items, because what the last shows depends on the two before it: one that sets the table, one that sets the context. |
| `lifetime` | `MCOperationLifetime` | What is in memory, what a block draws after its dealloc, and which messages are deleted. Four operations, duplicates included, in three places, so that a place is given away again, by another thread while a dealloc is between its two halves; two drawings of one or of two operations; two boards. The places are symmetric. |
| `startup` | `Startup` | Two threads do three of the things that set up the library, in all orders and interleavings, while the main thread reads. Three, because the hazards are those of two calls that meet and a third that sees the result; slots for one board of two. |
| `remote_calls` | `ServerDelegate` | Two threads, three calls that write; servers of the client's version and an older one, restarted in any order; messages lost and late. Three calls let one run while another returns and a third starts. |

Each bound is a constant (`MaxSerial`, `MaxAnswer`, `MaxOps`, `MaxDraws`, `MaxLoads`,
`MaxSnapshots`, `MaxPoints`, `MaxItems`, `MaxCalls`, `MaxObjects`, `MaxDrawings`,
`MaxOperations`) in the guard of the action it limits; `OperationLifetime` and
`OperationQueue` also have each caller's operation enqueued once. Deadlock is checked in the
runs of `PointResource` and `OperationQueue`, where the queues' threads can always do
something unless the locks stop them; the other systems stop when their environment does.

Type invariants (`TypeOK` and its like) are not run by themselves: they are proved, as parts
of the inductive invariants.

## 4. Fairness

- `OperationQueue!FairSpec`: a thread that is inside an operation keeps running (weak
  fairness on `Advance(t)`, the steps after the first). This is the scheduler's promise to a
  runnable thread. Nobody is made to *start* an operation. The locks get no strong fairness:
  that a thread gets the second lock (`SecondLockGranted`) holds because whoever has it gives
  it back and cannot come again without the first one.
- `BoardModel!FairSpec`: weak fairness on the steps of the main queue's thread and on those
  of the board queue's thread (the system runs dispatched blocks), on the poller's call of
  `trigerReadOperationQueue` after it received something, and on the redraw after a sync
  load, which is the next statement. Neither the server nor the application has to do
  anything.
- `ServerDelegate!FairSpec`: weak fairness on `Inside(t)`: a thread in a call keeps running.
  What ends a call nobody answers is its own clock, 2 s to connect and 10 s for the call
  (`gClientConnectTimeoutMs`, `gClientRemoteCallTimeoutMs`), which is the step `Failed`. The
  servers and the network have no fairness. A second try starts the 10 s over; `CallsEnd`
  holds because there is one second try.
- `Startup!FairSpec`: weak fairness on the steps of `readOperationQueue`: the main thread
  runs its blocks. The threads that attach may stop anywhere.

The other specifications state no fairness and no liveness properties are claimed for them.

## 5. Proofs

All theorems are checked by TLAPS for every value of the constants that satisfies the named
assumption of the module.

`PenProofs` (from `PoolAssumption`: the mask is not empty and narrower than the pen arrays;
and `PenAssumption`). About the registry: the invariant `IInv` says that the mask is always
an interval `k .. MaskBits-1` of free slots, that the slots handed out are `1 .. k`, that
every board's rid is one of them, and no two boards have the same. The properties alone are
not inductive: that a new slot is fresh needs the interval. From it: `TypeCorrect`,
`PensAreUnique`, `GrantedRidsPass`, `RefusalMeansExhausted`, and `ImplementsAllocator`. About
the drawers: `PenIInv` contains the registry's invariant and says that a slot not yet handed
out is untouched and that the slot of a board holds what the board's own last two points put
there. `StrokesAreOwn`, `StrokesAreJoined`, `NoGarbageDrawn`, `ThrowMeansRefused`,
`PenTypeCorrect` follow; `PensAllocate` and `PensRefuseWhenExhausted` carry the registry's
promises over to the composition.

`OperationQueueProofs` (from `QueueAssumption`). `TypeCorrect` and `LocksExclude` hold for any
threads in any roles; the invariant ties each lock's owner to the places in the code.
`ConfinedIsRaceFree` and `ConfinedImplementsFifo` assume `Confined` (one thread enqueues and
dequeues, nobody fetches), which is how `BoardModel` uses `realOperationQueue_`; the
invariant adds that what a thread saw of the array when it began to change it is still the
array when it writes back. `PolledOnce` assumes `Polled` (one thread fetches and takes,
nobody else comes); its invariant says that what was taken, then what is in the queue, then
what is being appended, is a beginning of the provider's log, and the latest serial number
its length as an `int`. `NothingIsSkipped` uses it: what cannot be answered now cannot be
answered later either, since the log only grows and the serial number does not move.
`RepeatsAreResets` allows any number of threads that enqueue, dequeue and clear, and one that
fetches. Its invariant counts for each operation of the log how often it was fetched and
whether the thread, as it stands, may fetch it once more (`ToCome`): together at most one more
than the local operations whose `enqueue:` has noted its serial number (`Resets`). An
`enqueue:` that is under way is not among them until its last write, which is why the count
of enqueued operations alone is not inductive. `LocksAreOrdered` is what `SecondLockGranted`
rests on: the owner of the second lock waits for none, that of the first for the second only.

`BoardImageProofs` (from `ImageAssumption`: up to five boards, any size, any integer
coordinates). The invariant says what the object in work is after each call of the loop, so
that each `drawn[a]` is the image of the given operation; the rest is arithmetic about
truncation, in lemmas of its own. `GivenStays`, `BoardsShowOnePicture`, `StaysInside`,
`OrderIsKept`, `StrokesAreVisible`.

`PaintProofs` (from `PaintAssumption`). The properties compare what two items paint, and so
are not inductive. `IInv` says what a context and the colour table hold after the items so
far: the alpha of the last drawing, and in the eraser's entry of the table the alpha of the
last drawing in its colour. What each item looks like is then a function (`Seen`) of the
items, the same on every board. `OwnPaint`, `LeftoverFromDrawings`, `PaintedAlike`.

`BoardModelProofs` (from `BoardAssumption`) gives each block of the board queue a place: 0
while it is run, `k` while it is the `k`-th that waits.

- `CoreInv` adds to the types that there is at most one sync load, whose caller waits for it.
  A weaker invariant would let `endLoad` move a thread that is somewhere else. `TypeCorrect`.
- `OrderInv` says that what was shown, what `drawSelf` holds, the real queue, what
  `readOperationQueue` holds and the received queue, taken in this order, are increasing.
  Each step moves one operation across one border, or a load empties a queue.
  `OperationsInOrder` needs no assumption about the loads.
- The three theorems about `loadDocumentSync:` assume `"async" \notin LoadKinds`, which is the
  way of use the properties speak of: with `loadDocumentAsync:` in the set they are false
  (section 6). Then a load in the board queue means that its caller waits (`AllSync`). If the
  poller waits, nothing is received until the queues are cleared, so whatever is cleared is
  older than the load: `NothingLostToEarlierLoads`. If the main thread waits, it is not
  between a check and its `dequeue` (`NoDequeueOfEmpty`), and when it goes on the real queue is
  empty and the received queue has only what came after the call: `FreshInv`,
  `NothingStaleShown`.

Its second part is about the pictures. `ReplayInv` has for every place how much of `requested` is
accounted for by the blocks up to it, so that a context is always that beginning of
`requested` and the rest waits in the board queue, in order: `ContextsAreReplicas`. Snapshots
are one beginning of the contexts, replaced board by board (`SnapshotsShowOneMoment`,
`DrawingsGetSnapshots`). A document of which the canvas was told, or is about to be, was
painted before (`DocumentsArePainted`): the redraw is dispatched behind the loop.

Its third part says that nothing is dropped: a load is in the board queue, running or
finished, and with it what a waiting caller waits for (`LoadsStillCome`); when a queue holds
an operation, a block that reads it is running, waits, or is about to be dispatched, so that
the emptiness checks leave nothing behind (`OperationsStillCome`); a drawing is on a context,
or its block is before that context (`DrawingsStillCome`).

`OperationLifetimeProofs` (from `LifetimeAssumption`; any memory, any number of boards). The
invariant `LifeInv` has three parts. `MemInv`: a living operation is the one its place was
given to last; a dealloc that is half done finds in its place itself, or an operation that
was allocated there meanwhile (`misplaced`); no operation is deallocated by two threads.
`HoldInv` counts: an operation a queue was ever given has a retain count for each of its
places in the arrays, one if the application holds it, and at least one that nobody will give
back; any other has exactly those of the application and of the board's loop. `InMemory` alone
is not inductive, as a count of 1 says nothing about who may release it. `DrawInv`: what a
block will draw is held by the application or was let go early. `LifeHolds`, `TypeCorrect`,
`MemoryHeld`, `DrawnHeld`, `MessagesDeletedOnce`.

`ServerDelegateProofs` (from `StubAssumption` and `DelegateAssumption`). `CoreInv`: threads are
in calls of their own, a call has at most one message on its way, a thread about to send has
none there and its call was not executed, and an answer on its way is the server's. A client
sends again only on a refusal, which takes the place of the request it refuses; so no request
reaches a server after its call's execution (`CoreHolds`). The count of the library is the
cardinality of the set of threads inside (`LibraryCounted`). `CallsKeepThePromise` maps every
step to one of `RemoteCall` or a stutter. `WritesInOrder` adds that the accepted writes are
those executed with `true`, once each. `CallsAreInHand` and `CallsComeNearer` are what
`CallsEnd` rests on: a call that was made has returned or some thread is in it, and `StepsLeft`,
at most six with the second try, falls with every step of that thread and is moved by no one
else.

`StartupProofs` (from `StartupAssumption`, which says that the slots suffice for one board: five
of eight). A thread works on the instance it has read, so nothing can be said of what is
attached or bound before it is known that there is one instance: `OneInv`, by which as long as
no two threads found it missing at once, at most one thread is between the check and the store,
and everybody who uses an instance uses the first. Then `SlotsInv` (its contexts have slots,
in order), `AttachedInv` and `ModeInv` give `BoardIsWhole`; `BoundInv` and `ExpectInv`, by which
the half of an address a thread has written or read is still there or the history says who
came in between, give `EndpointsAreWhole`. `CountInv` bounds the instances by the operations
begun, for `TypeCorrect`. `ReaderHas` says at each place of `readOperationQueue` what it has
locked and whether the check still holds: `ReaderGivesBack`, for any number of queues.
`ReaderRunsDown`: with a queue attached, every step of it lessens `ReadsLeft`, four for each
operation and the rest of the round.

Only model-checked: liveness (`SecondLockGranted`, `LoadIsDisplayed`, `EveryOperationShown`,
`DrawingReachesSnapshots`, `CallsEnd`, and the leads-to in `ReaderEnds`), as temporal proofs with
fairness and `ENABLED` are beyond the prover's installed backends. For each of them the theorems
above prove the part that needs no fairness: that what must happen stays on its way, or that
every step brings it nearer.

## 6. What disagrees with the code's intent

- `slots_check`: `unRegisterResouce:` (`Tools/Drawer.mm:207`) clears the bit of the slot
  instead of setting it. The slot is not free again, and `checkRid:` goes on accepting its
  rid, so that `draw:` does not throw "rid not register" for a board that is not registered.
  (This is also why the pool runs out for good; the runs of `PointResource` and `Pen` include
  it.)

Places the runs show to depend on how the application calls, without a text in the repository
that says otherwise:

- `dequeue` after an emptiness check throws if a load clears the queue in between
  (`crashed` in `BoardModel`). `NoEmptyDequeue` holds when documents are loaded by the main
  thread with `loadDocumentSync:`; with the other two ways it may happen, and the properties
  of those runs say what still holds then.
- `getServerData` takes no lock, and `enqueue:` and `dequeue` take different ones
  (`RaceOnlyAcrossLocks`). The queue is safe as `BoardModel` uses `realOperationQueue_`;
  `operationQueue_` is filled and emptied by different threads if the poller is not the main
  thread.
- The eraser and documents are painted with the alpha of the last drawing, and the eraser
  with the alpha last used with its colour (`LeftoverAlpha` says exactly which).
- A call to the updater that returns `false` may have been executed, or be executed later
  (`CallSpec`, `AcceptedInOrder`).
- A document alone gets no snapshot (`DrawnIsSnapshotted` speaks of drawings only).
- Every operation that passes a queue stays in memory for good: `enqueue:` and `dequeue`
  retain for themselves what the array retains already (`InMemory`). It is also what keeps
  the threads of the pipeline from using a dead operation.
- `drawOperation:` releases what its block will draw, and the block does not retain a
  `__block` variable. An application that lets go of an operation after the call has a dead
  one drawn (`DrawnWhileHeld` says when this cannot happen).
- `dealloc` calls `[super dealloc]` first. If another thread is given the memory before the
  message is deleted, its message is deleted instead (`MessagesIntact` excepts those).
- A call of `enqueue:` with an operation made on this device sets the latest serial number to
  0, and the next fetch brings the whole log again (`RepeatedOnlyByReset`).
- One operation in the provider's log that cannot be read, or a rest longer than the server
  may send, stops the stream for good (`StuckStays`).
- Two threads that find the board or the delegate missing at once make two; of the second
  board the contexts may get no slots, and what was attached or bound in the first is lost
  (`BoardWhole` and `EndpointWhole` hold when that does not happen). An address that is bound
  while another thread connects may be read in halves.
- `readOperationQueue` with no queue attached spins on the main thread; a queue attached while
  it spins is unlocked without having been locked, or dequeued without a check
  (`ReaderEnds`).
- `setOwbIdentity_:` (`Models/MessageModel.mm:579`) is not the setter of the property
  `identity_`: `user.identity_ = x` sets an instance variable that neither the getter nor
  `toUser` reads. A single assignment, and not in a model.

## 7. Abstractions and what is not modelled

- *Data*: received operations, drawings and documents are numbers; positions in `Pen` are
  values, the midpoint of two the pair of them; colours are an index and an alpha in percent.
- *Numbers*: `BoardImage` keeps the truncation to the message's 32-bit integers. `CGFloat` is
  a 32-bit float in the builds of the project (armv7, i386); for coordinates below 2^22 the
  single precision product truncates to the same integer as the exact one, which is what the
  module computes; from 6 * 2^20 + 1 on, at two thirds, it may differ by one. The largest
  board is 3072 wide. Ellipse radii are floats in the message and kept in sixths. Arithmetic
  for coordinates beyond 2^22, overflow included, is left out.
- *Races*: an access to an `NSMutableArray` that overlaps a change by another thread is
  undefined: it loses one of the writes, or the application goes down (`corrupt`). Only
  `OperationQueue` has these steps. In `BoardModel` the unlocked append of `getServerData`, of
  a whole answer, is atomic and of one operation, with a trigger for each: more blocks on the
  main queue than in the code, and no overlaps. A torn read of a `std::string` that another
  thread assigns (an ip in `ServerDelegate`) is left out of `Startup`, which has each half of
  an address read and written in one step.
- *Memory*: retain and release are atomic, and so is malloc. Drawing a dead operation is
  recorded and the model goes on, as a build may. What a block holds of it in registers, and
  the heap's own data, are not modelled. `alloc` and `init` are one step: a `dealloc` in the
  same place that comes between them would find no message and delete none.
- *Threads*: the application is one thread in `OperationLifetime` (the main one) and any in
  the others. In `Startup` the threads are not the main thread, on which `readOperationQueue`
  runs; a main thread that attaches is one that cannot come between two of its steps. In
  `Startup` a queue has at most one operation, and nothing is received or loaded while it is
  read: that its `dequeue` finds an operation (`ReaderEnds`) is said without loads, and with
  them in `BoardModel` (`NoEmptyDequeue`).
- *External code*, modelled from its use: dispatch queues (serial, in order), `NSMutableArray`,
  Core Graphics (state of a context), malloc and `NSObject`, the servers. What a server
  answers is any of what its methods may return.
- *RCF* is vendored; `ClientStub` follows the path its stub and session take for this
  client's calls: synchronous, twoway, over TCP, without filters. The archive version goes
  the same way as the runtime version and is not told apart from it. Connecting succeeds or
  ends in a time out or an error, which is `Failed`. An error of a ping back, after which the
  stub goes on receiving (`Marshal.cpp:660`), changes nothing in the model and has no action.
  Asynchronous and oneway calls,
  publish/subscribe, proxies, sessions, file transfer, filters and the serialisation of
  everything but protobuf messages have no caller in the library.
- Not modelled: line widths, caps and joins (set before every use); accessors of users,
  meetings, documents and heartbeats; the factory's exception for an operation of an unknown
  kind, which `message.proto` does not have; reading and writing of fields by the server
  facade (`Server/OwbClientServerDelegate.mm`), which is one call of `ServerDelegate` with
  conversions around it; `dealloc` of the board, which is never released; logging.
- By lines nearly all of the repository is vendored or generated: RCF, asio and protobuf with
  their tests, and `ProtoBuffer/message.pb.*`. The library's own code is about three thousand
  lines, of which the accessors above are the larger part.

## 8. What is left

- The composition of `BoardModel` with `OperationLifetime`; both are large on their own.
- The unlocked accesses of the queue (`corrupt`) lose one write or end the program; a finer
  model of `NSMutableArray` would say which states are left.
