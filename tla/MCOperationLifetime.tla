------------------------ MODULE MCOperationLifetime -------------------------
(***************************************************************************)
(* OperationLifetime for TLC.  No action tells one place of the memory     *)
(* from another, so the places are symmetric.                              *)
(***************************************************************************)
EXTENDS OperationLifetime, TLC

MemorySymmetry == Permutations(Memory)
=============================================================================
