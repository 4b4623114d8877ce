\* realOperationQueue_: main enqueues and dequeues, the board queue's thread
\* and a second one clear.
CONSTANTS
  None = None
  Enqueuers = {main}
  Dequeuers = {main}
  Clearers = {board, other}
  Fetchers = {}
  CallerOps <- SlicedOps
  MaxSerial = 0
  Half = 4
  Unreadable = {}
  MaxAnswer = 2
SPECIFICATION FairSpec
INVARIANT NoRace
PROPERTIES FifoSpec SecondLockGranted
