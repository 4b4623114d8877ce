\* operationQueue_ used by everybody the interface allows: an application
\* thread enqueues, two threads dequeue, the board queue clears, the network
\* thread fetches.
CONSTANTS
  None = None
  Enqueuers = {app}
  Dequeuers = {main, other}
  Clearers = {board}
  Fetchers = {net}
  CallerOps <- CreatedOps
  MaxSerial = 2
  Half = 4
  Unreadable = {}
  MaxAnswer = 2
SYMMETRY DequeuerSymmetry
SPECIFICATION Spec
INVARIANTS RaceOnlyAcrossLocks RepeatedOnlyByReset
