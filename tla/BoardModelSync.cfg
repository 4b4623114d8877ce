\* Operations while loadDocumentSync: is called, on the main thread or on the
\* poller; stops when nobody calls, or on a crash.
CONSTANTS
  BOARD_NUM = 2
  MaxOps = 3
  MaxDraws = 0
  MaxLoads = 2
  MaxSnapshots = 0
  LoadKinds = {"sync"}
  SyncCallers = {"main", "poller"}
SPECIFICATION FairSpec
INVARIANTS NoEmptyDequeue LostOnlyToLaterLoad
PROPERTIES NoStaleShown LoadIsDisplayed
CHECK_DEADLOCK FALSE
