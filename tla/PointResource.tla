--------------------------- MODULE PointResource ----------------------------
(***************************************************************************)
(* The slot registry that PointDrawer and Eraser each keep (PointResource  *)
(* and EraserResource in Drawer.mm, two copies of the same code).  A board *)
(* context registers with the drawer and gets a rid, the index of its own  *)
(* pen state; every draw first asks checkRid.  The registry is one 32-bit  *)
(* mask in which a set bit is a free slot.  A mask is modelled as the set  *)
(* of its set bits, so that & is \cap and a shift moves an interval.       *)
(*                                                                         *)
(* registerResource and unRegisterResouce run under the registry's lock,   *)
(* so each is one step.                                                    *)
(***************************************************************************)
EXTENDS Integers, FiniteSetsExt

CONSTANTS Boards,            \* the data sources that register
          MaskBits,          \* set bits of the literal 0xFF in the code: 8
          MAX_RESOURCE_NUM   \* length of the pen state arrays: 32

ASSUME PoolAssumption ==
  /\ MaskBits \in Nat \ {0}
  /\ MAX_RESOURCE_NUM \in Nat
  /\ MaskBits < MAX_RESOURCE_NUM

VARIABLES using_mask,   \* the set bits of the mask: bit b free = slot b+1 free
          contextRid,   \* contextRid[b]: what board b's last call left it with
          issued        \* history: every rid ever handed out

vars == <<using_mask, contextRid, issued>>

Literal0xFF == 0 .. MaskBits - 1

Unregistered == 0       \* no call yet, or unregistered again
Refused == -1           \* registerResource found no set bit

Holds(b) == contextRid[b] \notin {Unregistered, Refused}

-----------------------------------------------------------------------------
findTheFirst1InNum(mask) == IF mask = {} THEN Refused ELSE Min(mask) + 1

\* Mutants of MaskAfterRegister: the shift keeps the slot's own bit, or takes
\* the next slot with it.
MaskKeepsOwnBit(mask, rid) == mask \cap (rid - 1 .. rid + MaskBits - 1)
MaskSkipsASlot(mask, rid) == mask \cap (rid + 1 .. rid + MaskBits - 1)

\* using_mask &= (0XFF << rid)
MaskAfterRegister(mask, rid) == mask \cap (rid .. rid + MaskBits - 1)

\* Mutant of MaskAfterUnregister: every slot is free again.
MaskFreesAll(mask, rid) == Literal0xFF

\* using_mask &= (0XFF ^ (1 << (rid-1)))
MaskAfterUnregister(mask, rid) == mask \cap (Literal0xFF \ {rid - 1})

checkRid(rid) == rid # Refused /\ rid - 1 \notin using_mask

Init ==
  /\ using_mask = Literal0xFF
  /\ contextRid = [b \in Boards |-> Unregistered]
  /\ issued = {}

\* A board that owns no slot asks for one.
registerResource(b) ==
  LET rid == findTheFirst1InNum(using_mask)
  IN  /\ ~Holds(b)
      /\ contextRid' = [contextRid EXCEPT ![b] = rid]
      /\ IF rid # Refused
         THEN /\ using_mask' = MaskAfterRegister(using_mask, rid)
              /\ issued' = issued \cup {rid}
         ELSE UNCHANGED <<using_mask, issued>>

\* A board gives its slot up; the call answers false, and the board keeps
\* what it has, when checkRid does not know the rid.
unRegisterResouce(b) ==
  LET rid == contextRid[b]
  IN  /\ Holds(b)
      /\ checkRid(rid)
      /\ using_mask' = MaskAfterUnregister(using_mask, rid)
      /\ contextRid' = [contextRid EXCEPT ![b] = Unregistered]
      /\ UNCHANGED issued

Next == \E b \in Boards : registerResource(b) \/ unRegisterResouce(b)

Spec == Init /\ [][Next]_vars

-----------------------------------------------------------------------------
\* Every variable stays in its range; a rid is a valid index of the pen
\* arrays (length MAX_RESOURCE_NUM) that startPoint: and setStartPoint: use.
TypeOK ==
  /\ using_mask \subseteq Literal0xFF
  /\ contextRid \in [Boards -> {Unregistered, Refused} \cup (1 .. MAX_RESOURCE_NUM - 1)]
  /\ issued \subseteq 1 .. MaskBits

\* Two boards never share a pen: the strokes of one board cannot continue
\* from the points of another, however registrations and unregistrations
\* of the boards interleave.
UniqueRids ==
  \A b, c \in Boards : Holds(b) /\ contextRid[b] = contextRid[c] => b = c

\* A draw with a rid the drawer granted never throws "rid unavaible": what
\* other boards do to the mask cannot take a granted slot away.
GrantedStaysUsable ==
  \A b \in Boards : Holds(b) => checkRid(contextRid[b])

\* Clearing the bits below a slot costs no other slot: a registration is
\* refused only after each of the MaskBits slots has been handed out.
RefusedOnlyWhenExhausted ==
  (\E b \in Boards : contextRid[b] = Refused) => issued = 1 .. MaskBits

\* The registry implements the allocator it promises to be.
Allocator == INSTANCE RidAllocator
  WITH Rids <- 1 .. MaskBits, NoRid <- Unregistered,
       owned <- [b \in Boards |-> IF Holds(b) THEN contextRid[b] ELSE Unregistered]
AllocatorSpec == Allocator!Spec

\* draw: throws "rid not register" to keep unregistered data sources out, so
\* a rid that passes checkRid should be registered by somebody now.
PassesMeansRegistered ==
  \A rid \in issued : checkRid(rid) => \E b \in Boards : contextRid[b] = rid
=============================================================================
