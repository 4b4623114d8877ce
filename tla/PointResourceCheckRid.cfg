CONSTANTS
  Boards = {b1, b2, b3}
  MaskBits = 8
  MAX_RESOURCE_NUM = 32
SPECIFICATION Spec
INVARIANT PassesMeansRegistered
