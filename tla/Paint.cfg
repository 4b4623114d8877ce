\* Two colours, the eraser's among them; the queue stops when nobody draws.
CONSTANTS
  BOARD_NUM = 2
  COLOR_NUM = 6
  ERASER_COLOR = 5
  Colors = {1, 5}
  Alphas = {50, 100}
  MaxItems = 3
SPECIFICATION Spec
INVARIANTS DrawingsPaintTheirOwn BoardsPaintAlike LeftoverAlpha
CHECK_DEADLOCK FALSE
