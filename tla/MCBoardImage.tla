---------------------------- MODULE MCBoardImage ----------------------------
\* Coordinates at the edges of the largest board, beyond them, and inside.
EXTENDS BoardImage

EdgeXs == {-1, 0, 7, 3072}
EdgeYs == {-1, 0, 5, 2304}
=============================================================================
