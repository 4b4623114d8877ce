\* Operations, a drawing and both kinds of loads on three contexts (a first, a
\* middle and a last one); stops when the server and the application do, or on
\* a crash.
CONSTANTS
  BOARD_NUM = 3
  MaxOps = 2
  MaxDraws = 1
  MaxLoads = 1
  MaxSnapshots = 1
  LoadKinds = {"async", "sync"}
  SyncCallers = {"main"}
SPECIFICATION FairSpec
INVARIANTS ShownInOrder ContextsReplayRequests DrawnIsSnapshotted SnapshotsAgree DisplayShowsDocument
PROPERTIES EveryOperationShown DrawingReachesSnapshots
CHECK_DEADLOCK FALSE
