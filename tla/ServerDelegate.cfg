\* Two threads write, to a server of the client's version or an older one; they
\* stop after their last call.
CONSTANTS
  Threads = {t1, t2}
  Methods = {"WriteOperationToPool"}
  MaxCalls = 3
  ClientVersion = 2
  ServerVersions = {1, 2}
SPECIFICATION FairSpec
INVARIANTS LibraryUpInCalls AcceptedInOrder
PROPERTIES CallSpec CallsEnd
CHECK_DEADLOCK FALSE
