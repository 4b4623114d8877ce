\* The sizes of the code; points at and around the edges of the largest board.
\* The loop ends.
CONSTANTS
  BOARD_NUM = 5
  BOARD_HEIGHT = 768
  BOARD_WIDTH = 1024
  Xs <- EdgeXs
  Ys <- EdgeYs
  Thicknesses = {0, 1, 3, 7}
  Radii = {1, 5}
SPECIFICATION Spec
INVARIANTS BoardsAgree InsideStaysInside ThinnestVisible
CHECK_DEADLOCK FALSE
