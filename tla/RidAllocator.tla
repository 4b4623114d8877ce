---------------------------- MODULE RidAllocator ----------------------------
(***************************************************************************)
(* What the rid registration of a drawer promises to the boards: a rid is  *)
(* a slot of the drawer's pen state, and a board that has registered owns  *)
(* its slot alone until it unregisters.  A registration may be refused.    *)
(* Nothing is said here about how free slots are found or when the pool is *)
(* exhausted; PointResource implements this specification.                 *)
(***************************************************************************)
CONSTANTS Boards,   \* the data sources that register
          Rids,     \* the slots
          NoRid     \* what a board holds when it owns no slot

VARIABLE owned      \* owned[b]: the slot board b owns, or NoRid

Init == owned = [b \in Boards |-> NoRid]

Free == Rids \ {owned[b] : b \in Boards}

Grant(b) ==
  /\ owned[b] = NoRid
  /\ \E r \in Free : owned' = [owned EXCEPT ![b] = r]

Release(b) ==
  /\ owned[b] # NoRid
  /\ owned' = [owned EXCEPT ![b] = NoRid]

Next == \E b \in Boards : Grant(b) \/ Release(b)

Spec == Init /\ [][Next]_owned
=============================================================================
