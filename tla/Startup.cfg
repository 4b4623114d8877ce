\* Two threads set up three things, in all orders; there are slots for one board
\* of two.  They stop after their last operation.
CONSTANTS
  Threads = {t1, t2}
  BOARD_NUM = 1
  MaskBits = 1
  Canvases = {canvas1}
  Queues = {queue1}
  Servers = {updater, provider}
  Endpoints = {endpoint1, endpoint2}
  MaxOperations = 3
SPECIFICATION FairSpec
INVARIANTS BoardWhole EndpointWhole
PROPERTIES ReaderEnds
CHECK_DEADLOCK FALSE
