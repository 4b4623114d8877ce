\* Two boards; four operations, duplicates included, in three places of memory.
\* The run ends when the bounds are reached or the memory is full.
CONSTANTS
  BOARD_NUM = 2
  Memory = {m1, m2, m3}
  MaxObjects = 4
  MaxDrawings = 2
SPECIFICATION Spec
SYMMETRY MemorySymmetry
INVARIANTS InMemory DrawnWhileHeld MessagesIntact
CHECK_DEADLOCK FALSE
