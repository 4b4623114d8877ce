\* Three boards on a pool of two slots, so that registrations are refused.
\* Draws end at the bound, or when draw: throws.
CONSTANTS
  Boards = {b1, b2, b3}
  MaskBits = 2
  MAX_RESOURCE_NUM = 4
  Positions = {p, q}
  MaxPoints = 2
SPECIFICATION PenSpec
INVARIANTS RefusedOnlyWhenExhausted PiecesJoin DrawsOwnStroke NoGarbageAfterStart OnlyRefusedThrows
PROPERTY AllocatorSpec
CHECK_DEADLOCK FALSE
