------------------------------ MODULE PenProofs ------------------------------
(***************************************************************************)
(* Proofs about the slot registry and the freehand drawers, for any set of *)
(* boards, any positions and any width of the mask.                        *)
(*                                                                         *)
(* The registry: the mask is always the interval of the slots above the    *)
(* last one handed out, because registering clears the bits up to the slot *)
(* taken and unregistering clears a bit that is clear already.             *)
(*                                                                         *)
(* The pens: a slot nobody was given is untouched, and the slot of a board *)
(* holds what its own last two points put there.  Both rest on the         *)
(* invariant of the registry: no two boards hold the same slot, and a slot *)
(* is handed out once.                                                     *)
(***************************************************************************)
EXTENDS Pen, SequenceTheorems, TLAPS

\* The slots 1..k were handed out, bits k and up are what is left of the mask.
Interval(k) == using_mask = k .. MaskBits - 1 /\ issued = 1 .. k

\* The inductive invariant.
IInv ==
  /\ contextRid \in [Boards -> {Unregistered, Refused} \cup issued]
  /\ \E k \in 0 .. MaskBits : Interval(k)
  /\ UniqueRids
  /\ (\E b \in Boards : contextRid[b] = Refused) => issued = 1 .. MaskBits

\* findTheFirst1InNum finds the lowest slot of an interval of free ones.
LEMMA FirstOfInterval ==
  ASSUME NEW k \in 0 .. MaskBits
  PROVE  findTheFirst1InNum(k .. MaskBits - 1) =
           IF k = MaskBits THEN Refused ELSE k + 1
<1> USE PoolAssumption
<1>1. CASE k = MaskBits
  BY <1>1 DEF findTheFirst1InNum
<1>2. CASE k # MaskBits
  <2>1. k \in k .. MaskBits - 1 /\ \A y \in k .. MaskBits - 1 : k =< y
    BY <1>2
  <2>2. Min(k .. MaskBits - 1) = k
    <3>1. \A x \in k .. MaskBits - 1 :
            (\A y \in k .. MaskBits - 1 : x =< y) => x = k
      BY <2>1
    <3> QED
      BY <2>1, <3>1 DEF Min
  <2> QED
    BY <1>2, <2>1, <2>2 DEF findTheFirst1InNum
<1> QED
  BY <1>1, <1>2

\* Clearing the bits below a free slot leaves the interval above it.
LEMMA RegisterKeepsInterval ==
  ASSUME NEW k \in 0 .. MaskBits, k # MaskBits
  PROVE  MaskAfterRegister(k .. MaskBits - 1, k + 1) = k + 1 .. MaskBits - 1
BY PoolAssumption DEF MaskAfterRegister

\* Unregistering a slot that was handed out changes no bit of the mask.
LEMMA UnregisterKeepsInterval ==
  ASSUME NEW k \in 0 .. MaskBits, NEW rid \in 1 .. k
  PROVE  MaskAfterUnregister(k .. MaskBits - 1, rid) = k .. MaskBits - 1
BY PoolAssumption DEF MaskAfterUnregister, Literal0xFF

LEMMA IInvInit == Init => IInv
<1> SUFFICES ASSUME Init PROVE IInv
  OBVIOUS
<1> USE PoolAssumption DEF Init, Unregistered, Refused
<1>1. Interval(0)
  BY DEF Interval, Literal0xFF
<1>2. 0 \in 0 .. MaskBits
  OBVIOUS
<1>3. UniqueRids
  BY DEF UniqueRids, Holds
<1> QED
  BY <1>1, <1>2, <1>3 DEF IInv

LEMMA IInvRegister ==
  ASSUME IInv, NEW b \in Boards, registerResource(b)
  PROVE  IInv'
<1> USE PoolAssumption
<1> PICK k \in 0 .. MaskBits : Interval(k)
  BY DEF IInv
<1> DEFINE rid == findTheFirst1InNum(using_mask)
<1>1. rid = IF k = MaskBits THEN Refused ELSE k + 1
  BY FirstOfInterval DEF Interval
<1>2. contextRid' = [contextRid EXCEPT ![b] = rid]
  BY DEF registerResource
<1>3. CASE k = MaskBits
  <2>1. UNCHANGED <<using_mask, issued>> /\ rid = Refused
    BY <1>1, <1>3 DEF registerResource
  <2>2. Interval(k)'
    BY <2>1 DEF Interval
  <2>3. issued' = 1 .. MaskBits
    BY <2>2, <1>3 DEF Interval
  <2>4. contextRid' \in [Boards -> {Unregistered, Refused} \cup issued']
    BY <1>2, <2>1 DEF IInv
  <2>5. UniqueRids'
    BY <1>2, <2>1 DEF IInv, UniqueRids, Holds
  <2> QED
    BY <2>2, <2>3, <2>4, <2>5 DEF IInv
<1>4. CASE k # MaskBits
  <2>1. rid = k + 1 /\ rid # Refused
    BY <1>1, <1>4 DEF Refused
  <2>2. /\ using_mask' = MaskAfterRegister(using_mask, k + 1)
        /\ issued' = issued \cup {k + 1}
    BY <2>1 DEF registerResource
  <2>3. k + 1 \in 0 .. MaskBits /\ Interval(k + 1)'
    BY <1>4, <2>2, RegisterKeepsInterval DEF Interval
  <2>4. contextRid' \in [Boards -> {Unregistered, Refused} \cup issued']
    BY <1>2, <2>1, <2>2 DEF IInv
  <2>5. k + 1 \notin issued
    BY DEF Interval
  <2>6. \A c \in Boards : Holds(c) => contextRid[c] # k + 1
    BY <2>5 DEF IInv, Holds
  <2>7. UniqueRids'
    BY <1>2, <2>1, <2>6 DEF IInv, UniqueRids, Holds
  <2>8. \A c \in Boards : contextRid'[c] # Refused
    <3>1. issued # 1 .. MaskBits
      BY <1>4 DEF Interval
    <3>2. \A c \in Boards : contextRid[c] # Refused
      BY <3>1 DEF IInv
    <3> QED
      BY <1>2, <2>1, <3>2 DEF IInv
  <2> QED
    BY <2>3, <2>4, <2>7, <2>8 DEF IInv
<1> QED
  BY <1>3, <1>4

LEMMA IInvUnregister ==
  ASSUME IInv, NEW b \in Boards, unRegisterResouce(b)
  PROVE  IInv'
<1> USE PoolAssumption
<1> PICK k \in 0 .. MaskBits : Interval(k)
  BY DEF IInv
<1>1. contextRid[b] \in 1 .. k
  BY DEF IInv, Interval, unRegisterResouce, Holds
<1>2. Interval(k)'
  BY <1>1, UnregisterKeepsInterval DEF Interval, unRegisterResouce
<1>3. contextRid' = [contextRid EXCEPT ![b] = Unregistered] /\ issued' = issued
  BY DEF unRegisterResouce
<1>4. contextRid' \in [Boards -> {Unregistered, Refused} \cup issued']
  BY <1>3 DEF IInv
<1>5. UniqueRids'
  BY <1>3 DEF IInv, UniqueRids, Holds
<1>6. (\E c \in Boards : contextRid'[c] = Refused) => issued' = 1 .. MaskBits
  BY <1>3 DEF IInv, Unregistered, Refused
<1> QED
  BY <1>2, <1>4, <1>5, <1>6 DEF IInv

LEMMA IInvNext == IInv /\ [Next]_vars => IInv'
<1> SUFFICES ASSUME IInv, [Next]_vars PROVE IInv'
  OBVIOUS
<1>1. ASSUME NEW b \in Boards, registerResource(b) PROVE IInv'
  BY <1>1, IInvRegister
<1>2. ASSUME NEW b \in Boards, unRegisterResouce(b) PROVE IInv'
  BY <1>2, IInvUnregister
<1>3. CASE UNCHANGED vars
  BY <1>3 DEF vars, IInv, Interval, UniqueRids, Holds
<1> QED
  BY <1>1, <1>2, <1>3 DEF Next

\* The inductive invariant holds in every behaviour of the registry.
THEOREM IInvHolds == Spec => []IInv
BY IInvInit, IInvNext, PTL DEF Spec

-----------------------------------------------------------------------------
\* The rids the registry hands out are valid indexes of the pen arrays, for
\* any boards and any mask narrower than the arrays.
THEOREM TypeCorrect == Spec => []TypeOK
<1>1. IInv => TypeOK
  <2> SUFFICES ASSUME IInv PROVE TypeOK
    OBVIOUS
  <2> USE PoolAssumption
  <2> PICK k \in 0 .. MaskBits : Interval(k)
    BY DEF IInv
  <2>1. using_mask \subseteq Literal0xFF /\ issued \subseteq 1 .. MaskBits
    BY DEF Interval, Literal0xFF
  <2>2. issued \subseteq 1 .. MAX_RESOURCE_NUM - 1
    BY <2>1
  <2> QED
    BY <2>1, <2>2 DEF IInv, TypeOK
<1> QED
  BY <1>1, IInvHolds, PTL

\* No two boards of any number of boards ever share a pen slot.
THEOREM PensAreUnique == Spec => []UniqueRids
<1>1. IInv => UniqueRids
  BY DEF IInv
<1> QED
  BY <1>1, IInvHolds, PTL

\* A granted rid passes checkRid: its bit is below the interval.
LEMMA GrantedPasses == IInv => GrantedStaysUsable
<1> SUFFICES ASSUME IInv, NEW b \in Boards, Holds(b)
             PROVE  checkRid(contextRid[b])
  BY DEF GrantedStaysUsable
<1> PICK k \in 0 .. MaskBits : Interval(k)
  BY DEF IInv
<1>1. contextRid[b] \in 1 .. k /\ contextRid[b] # Refused
  BY DEF IInv, Interval, Holds
<1> QED
  BY <1>1, PoolAssumption DEF checkRid, Interval

\* A draw with a rid the registry granted passes checkRid, whatever the
\* other boards registered and unregistered since.
THEOREM GrantedRidsPass == Spec => []GrantedStaysUsable
BY GrantedPasses, IInvHolds, PTL

\* A registration is refused only once every slot was handed out.
THEOREM RefusalMeansExhausted == Spec => []RefusedOnlyWhenExhausted
<1>1. IInv => RefusedOnlyWhenExhausted
  BY DEF IInv, RefusedOnlyWhenExhausted
<1> QED
  BY <1>1, IInvHolds, PTL

-----------------------------------------------------------------------------
\* What each board owns in the abstract allocator.
Owned == [b \in Boards |-> IF Holds(b) THEN contextRid[b] ELSE Unregistered]

\* A registration grants a slot nobody owns, or is refused and owns nothing.
LEMMA RegisterGrants ==
  ASSUME IInv, IInv', NEW b \in Boards, registerResource(b)
  PROVE  Allocator!Grant(b) \/ UNCHANGED Owned
<1> USE PoolAssumption
<1> PICK k \in 0 .. MaskBits : Interval(k)
  BY DEF IInv
<1> DEFINE rid == findTheFirst1InNum(using_mask)
<1>1. rid = IF k = MaskBits THEN Refused ELSE k + 1
  BY FirstOfInterval DEF Interval
<1>2. /\ ~Holds(b)
      /\ contextRid' = [contextRid EXCEPT ![b] = rid]
      /\ contextRid \in [Boards -> {Unregistered, Refused} \cup issued]
  BY DEF registerResource, IInv
<1>3. CASE k = MaskBits
  BY <1>1, <1>2, <1>3 DEF Owned, Holds
<1>4. CASE k # MaskBits
  <2>1. rid = k + 1 /\ rid \in 1 .. MaskBits /\ rid \notin issued
    BY <1>1, <1>4 DEF Interval
  <2>2. \A c \in Boards : Owned[c] # rid
    BY <1>2, <2>1 DEF Owned, Holds, Unregistered, Refused
  <2>3. Owned' = [Owned EXCEPT ![b] = rid]
    <3>1. rid \notin {Unregistered, Refused}
      BY <2>1 DEF Unregistered, Refused
    <3> HIDE DEF rid
    <3>2. Holds(b)' /\ contextRid'[b] = rid
      BY <1>2, <3>1 DEF Holds
    <3>3. \A c \in Boards : c # b => contextRid'[c] = contextRid[c]
      BY <1>2
    <3> QED
      BY <3>2, <3>3 DEF Owned, Holds
  <2>4. Owned[b] = Unregistered
    BY <1>2 DEF Owned
  <2> QED
    BY <2>1, <2>2, <2>3, <2>4 DEF Allocator!Grant, Allocator!Free, Owned
<1> QED
  BY <1>3, <1>4

\* Unregistering releases the slot of the board that calls, and no other.
LEMMA UnregisterReleases ==
  ASSUME IInv, NEW b \in Boards, unRegisterResouce(b)
  PROVE  Allocator!Release(b)
<1>1. /\ Holds(b)
      /\ contextRid' = [contextRid EXCEPT ![b] = Unregistered]
      /\ contextRid \in [Boards -> {Unregistered, Refused} \cup issued]
  BY DEF unRegisterResouce, IInv
<1>2. Owned' = [Owned EXCEPT ![b] = Unregistered] /\ Owned[b] # Unregistered
  BY <1>1 DEF Owned, Holds
<1> QED
  BY <1>2 DEF Allocator!Release, Owned

\* The registry implements the allocator: a board owns its slot alone until
\* it gives it up.
THEOREM ImplementsAllocator == Spec => AllocatorSpec
<1>1. Init => Allocator!Init
  BY DEF Init, Allocator!Init, Holds
<1>2. IInv /\ IInv' /\ [Next]_vars => [Allocator!Next]_Owned
  <2> SUFFICES ASSUME IInv, IInv', [Next]_vars PROVE [Allocator!Next]_Owned
    OBVIOUS
  <2>1. ASSUME NEW b \in Boards, registerResource(b) PROVE [Allocator!Next]_Owned
    BY <2>1, RegisterGrants DEF Allocator!Next
  <2>2. ASSUME NEW b \in Boards, unRegisterResouce(b) PROVE [Allocator!Next]_Owned
    BY <2>2, UnregisterReleases DEF Allocator!Next
  <2>3. CASE UNCHANGED vars
    BY <2>3 DEF vars, Owned, Holds
  <2> QED
    BY <2>1, <2>2, <2>3 DEF Next
<1> QED
  BY <1>1, <1>2, IInvHolds, PTL DEF Spec, AllocatorSpec, Allocator!Spec, Owned

-----------------------------------------------------------------------------
\* Slots not handed out yet hold what new left in them.
UnusedSlots ==
  \A s \in Slots \ issued : startPoint_[s] = Garbage /\ point2_[s] = Garbage

\* The slot of a board is where the last point of its stroke left the pen.
LastPosition(b) == Plain(given[b][Len(given[b])].position)
SlotFollows(b) ==
  IF given[b] = <<>>
  THEN startPoint_[contextRid[b]] = Garbage /\ point2_[contextRid[b]] = Garbage
  ELSE /\ point2_[contextRid[b]] = LastPosition(b)
       /\ startPoint_[contextRid[b]] = Midpoint(Before(b, Len(given[b])), LastPosition(b))

\* The inductive invariant.
PenIInv ==
  /\ IInv
  /\ PenTypeOK
  /\ UnusedSlots
  /\ \A b \in Boards : Holds(b) => SlotFollows(b)
  /\ DrawsOwnStroke
  /\ OnlyRefusedThrows

\* A held rid is a slot of the arrays, and one that was handed out.
LEMMA HeldSlots ==
  ASSUME IInv, NEW b \in Boards, Holds(b)
  PROVE  contextRid[b] \in Slots /\ contextRid[b] \in issued
<1> PICK k \in 0 .. MaskBits : Interval(k)
  BY DEF IInv
<1> QED
  BY PoolAssumption DEF IInv, Interval, Holds, Slots

\* A slot just registered is one that was never handed out.
LEMMA RegisteredFresh ==
  ASSUME IInv, IInv', NEW b \in Boards, registerResource(b), Holds(b)'
  PROVE  contextRid'[b] \in Slots \ issued
<1> USE PoolAssumption
<1> PICK k \in 0 .. MaskBits : Interval(k)
  BY DEF IInv
<1> DEFINE rid == findTheFirst1InNum(using_mask)
<1>1. rid = IF k = MaskBits THEN Refused ELSE k + 1
  BY FirstOfInterval DEF Interval
<1>2. contextRid'[b] = rid
  BY DEF registerResource, IInv
<1>3. rid # Refused
  BY <1>2 DEF Holds
<1> QED
  BY <1>1, <1>2, <1>3 DEF Interval, Slots

\* The points the pen arrays and the pieces are made of.
LEMMA PointTypes ==
  /\ Garbage \in PlainPoints
  /\ PlainPoints \subseteq PenPoints
  /\ \A p, q \in PlainPoints : Midpoint(p, q) \in PenPoints
BY DEF PlainPoints, PenPoints

LEMMA PenInitInv == PenInit => PenIInv
<1> SUFFICES ASSUME PenInit PROVE PenIInv
  OBVIOUS
<1>1. IInv
  BY IInvInit DEF PenInit
<1>2. PenTypeOK
  <2>1. Garbage \in PlainPoints /\ Garbage \in PenPoints
    BY PointTypes
  <2>2. /\ startPoint_ \in [Slots -> PenPoints]
        /\ point1_ \in [Slots -> PlainPoints]
        /\ point2_ \in [Slots -> PlainPoints]
    BY <2>1 DEF PenInit
  <2>3. \A S : <<>> \in Seq(S)
    OBVIOUS
  <2>4. given \in [Boards -> Seq(Points)] /\ path \in [Boards -> Seq(Pieces(kind))]
    BY <2>3 DEF PenInit
  <2> QED
    BY <2>2, <2>4 DEF PenInit, PenTypeOK
<1>3. UnusedSlots
  BY DEF PenInit, UnusedSlots
<1>4. \A b \in Boards : ~Holds(b)
  BY DEF PenInit, Init, Holds
<1>5. DrawsOwnStroke /\ OnlyRefusedThrows
  BY DEF PenInit, DrawsOwnStroke, OnlyRefusedThrows
<1> QED
  BY <1>1, <1>2, <1>3, <1>4, <1>5 DEF PenIInv

-----------------------------------------------------------------------------
\* A registration gives a board a slot nobody had, and starts its strokes over.
LEMMA PenRegister ==
  ASSUME PenIInv, ~crashed, kind' = kind, NEW b \in Boards, registerDataSource(b)
  PROVE  PenIInv'
<1>1. /\ registerResource(b)
      /\ UNCHANGED <<pens, crashed>>
      /\ given' = [given EXCEPT ![b] = <<>>]
      /\ path' = [path EXCEPT ![b] = <<>>]
  BY DEF registerDataSource
<1>2. IInv /\ IInv'
  BY <1>1, IInvRegister DEF PenIInv
<1>3. PenTypeOK'
  BY <1>1 DEF PenIInv, PenTypeOK, pens
<1>4. issued \subseteq issued'
  BY <1>1 DEF registerResource
<1>5. UnusedSlots'
  BY <1>1, <1>4 DEF PenIInv, UnusedSlots, pens
<1>6. \A c \in Boards : Holds(c)' => SlotFollows(c)'
  <2> SUFFICES ASSUME NEW c \in Boards, Holds(c)' PROVE SlotFollows(c)'
    OBVIOUS
  <2>1. CASE c = b
    <3>1. given'[c] = <<>>
      BY <1>1, <2>1 DEF PenIInv, PenTypeOK
    <3>2. contextRid'[c] \in Slots \ issued
      BY <1>1, <1>2, <2>1, RegisteredFresh
    <3>3. startPoint_'[contextRid'[c]] = Garbage /\ point2_'[contextRid'[c]] = Garbage
      BY <1>1, <3>2 DEF PenIInv, UnusedSlots, pens
    <3> QED
      BY <3>1, <3>3 DEF SlotFollows
  <2>2. CASE c # b
    <3>1. contextRid'[c] = contextRid[c] /\ given'[c] = given[c]
      BY <1>1, <2>2 DEF PenIInv, PenTypeOK, IInv, registerResource
    <3>2. SlotFollows(c)
      BY <3>1 DEF PenIInv, Holds
    <3> QED
      BY <1>1, <3>1, <3>2 DEF SlotFollows, LastPosition, Before, pens
  <2> QED
    BY <2>1, <2>2
<1>7. DrawsOwnStroke'
  <2> SUFFICES ASSUME NEW c \in Boards
               PROVE  (/\ Len(path[c]) = Len(given[c])
                       /\ \A k \in 1 .. Len(path[c]) :
                            path[c][k] = Piece(kind, [start |-> Middle(c, k), last |-> Before(c, k)],
                                               Plain(given[c][k].position)))'
    BY DEF DrawsOwnStroke
  <2>1. CASE c = b
    BY <1>1, <2>1 DEF PenIInv, PenTypeOK
  <2>2. CASE c # b
    <3>1. path'[c] = path[c] /\ given'[c] = given[c]
      BY <1>1, <2>2 DEF PenIInv, PenTypeOK
    <3>2. \A k : Before(c, k)' = Before(c, k) /\ Middle(c, k)' = Middle(c, k)
      BY <3>1 DEF Middle, Before
    <3>3. /\ Len(path[c]) = Len(given[c])
          /\ \A k \in 1 .. Len(path[c]) :
               path[c][k] = Piece(kind, [start |-> Middle(c, k), last |-> Before(c, k)],
                                  Plain(given[c][k].position))
      BY DEF PenIInv, DrawsOwnStroke
    <3> QED
      BY <3>1, <3>2, <3>3
  <2> QED
    BY <2>1, <2>2
<1>8. OnlyRefusedThrows'
  BY <1>1 DEF OnlyRefusedThrows
<1> QED
  BY <1>2, <1>3, <1>5, <1>6, <1>7, <1>8 DEF PenIInv

\* Giving a slot up changes no slot and no picture.
LEMMA PenUnregister ==
  ASSUME PenIInv, ~crashed, kind' = kind, NEW b \in Boards, unregisterDataSource(b)
  PROVE  PenIInv'
<1>1. unRegisterResouce(b) /\ UNCHANGED <<pens, given, path, crashed>>
  BY DEF unregisterDataSource
<1>2. IInv /\ IInv'
  BY <1>1, IInvUnregister DEF PenIInv
<1>3. PenTypeOK'
  BY <1>1 DEF PenIInv, PenTypeOK, pens
<1>4. UnusedSlots'
  BY <1>1 DEF PenIInv, UnusedSlots, pens, unRegisterResouce
<1>5. \A c \in Boards : Holds(c)' => SlotFollows(c)'
  <2> SUFFICES ASSUME NEW c \in Boards, Holds(c)' PROVE SlotFollows(c)'
    OBVIOUS
  <2>1. c # b /\ contextRid'[c] = contextRid[c]
    BY <1>1, <1>2 DEF IInv, unRegisterResouce, Holds
  <2>2. SlotFollows(c)
    BY <2>1 DEF PenIInv, Holds
  <2> QED
    BY <1>1, <2>1, <2>2 DEF SlotFollows, LastPosition, Before, pens
<1>6. DrawsOwnStroke'
  BY <1>1 DEF PenIInv, DrawsOwnStroke, Middle, Before
<1>7. OnlyRefusedThrows'
  BY <1>1 DEF OnlyRefusedThrows
<1> QED
  BY <1>2, <1>3, <1>4, <1>5, <1>6, <1>7 DEF PenIInv

-----------------------------------------------------------------------------
\* draw: throws only for a board that was refused.
LEMMA PenThrow ==
  ASSUME PenIInv, ~crashed, kind' = kind, NEW b \in Boards, NEW o \in Points, draw(b, o),
         ~checkRid(contextRid[b])
  PROVE  PenIInv'
<1>1. crashed' /\ UNCHANGED <<vars, pens, given, path>>
  BY DEF draw
<1>2. contextRid[b] = Refused
  <2>1. ~Holds(b)
    BY GrantedPasses DEF PenIInv, GrantedStaysUsable
  <2> QED
    BY <2>1 DEF Holds, draw
<1>3. IInv'
  BY <1>1 DEF PenIInv, IInv, Interval, UniqueRids, Holds, vars
<1>4. PenTypeOK'
  <2>1. crashed' \in BOOLEAN
    BY DEF draw
  <2> QED
    BY <1>1, <2>1 DEF PenIInv, PenTypeOK, pens
<1>5. UnusedSlots' /\ \A c \in Boards : Holds(c)' => SlotFollows(c)'
  BY <1>1 DEF PenIInv, UnusedSlots, pens, vars, Holds, SlotFollows, LastPosition, Before
<1>6. DrawsOwnStroke'
  BY <1>1 DEF PenIInv, DrawsOwnStroke, Middle, Before
<1>7. OnlyRefusedThrows'
  BY <1>1, <1>2 DEF OnlyRefusedThrows, vars
<1> QED
  BY <1>3, <1>4, <1>5, <1>6, <1>7 DEF PenIInv

\* A point that is not the first has one before it.
LEMMA PointBefore ==
  ASSUME NEW n \in Nat, n # 0, n # 1
  PROVE  n - 1 \in 1 .. n
OBVIOUS

\* Where the pen stands before a point of board b is what the stroke says.
LEMMA PenStandsAtStroke ==
  ASSUME PenIInv, NEW b \in Boards, Holds(b), NEW o \in Points,
         given' = [given EXCEPT ![b] = Append(@, o)],
         NEW n \in Nat, n = Len(given[b])
  PROVE  PenBefore(contextRid[b], o) =
           [start |-> Middle(b, n + 1)', last |-> Before(b, n + 1)']
<1>1. given[b] \in Seq(Points) /\ given'[b] = Append(given[b], o)
  BY DEF PenIInv, PenTypeOK
<1>2. /\ given'[b][n + 1] = o
      /\ \A k \in 1 .. n : given'[b][k] = given[b][k]
  BY <1>1
<1>3. SlotFollows(b)
  BY DEF PenIInv
<1>4. CASE o.isStart
  BY <1>2, <1>4 DEF PenBefore, Middle, Before
<1>5. CASE ~o.isStart /\ n = 0
  <2>1. given[b] = <<>>
    BY <1>1, <1>5, EmptySeq
  <2> QED
    BY <1>2, <1>3, <1>5, <2>1 DEF PenBefore, Middle, Before, SlotFollows
<1>6. CASE ~o.isStart /\ n # 0
  <2>1. n \in 1 .. n /\ n + 1 # 1 /\ n + 1 - 1 = n
    BY <1>6
  <2>5. given[b] # <<>>
    BY <1>1, <1>6
  <2>2. Before(b, n + 1)' = LastPosition(b)
    BY <1>2, <1>6, <2>1 DEF Before, LastPosition
  <2>3. Before(b, n)' = Before(b, n)
    <3>1. n # 1 => n - 1 \in 1 .. n
      BY <1>6, PointBefore
    <3> QED
      BY <1>2, <1>6, <2>1, <3>1 DEF Before
  <2>4. Middle(b, n + 1)' = Midpoint(Before(b, n), LastPosition(b))
    BY <1>2, <1>6, <2>1, <2>2, <2>3 DEF Middle
  <2> QED
    BY <1>3, <1>6, <2>2, <2>4, <2>5 DEF PenBefore, SlotFollows
<1> QED
  BY <1>1, <1>4, <1>5, <1>6

\* A draw that goes through adds the piece its own stroke asks for, and
\* touches no slot but that of its board.
LEMMA PenDraws ==
  ASSUME PenIInv, ~crashed, kind' = kind, NEW b \in Boards, NEW o \in Points, draw(b, o),
         checkRid(contextRid[b])
  PROVE  PenIInv'
<1> DEFINE rid == contextRid[b]
           pen == PenBefore(rid, o)
           p == Plain(o.position)
<1>1. /\ given' = [given EXCEPT ![b] = Append(@, o)]
      /\ path' = [path EXCEPT ![b] = Append(@, Piece(kind, pen, p))]
      /\ point1_' = [point1_ EXCEPT ![rid] = pen.last]
      /\ point2_' = [point2_ EXCEPT ![rid] = p]
      /\ startPoint_' = [startPoint_ EXCEPT ![rid] = Midpoint(pen.last, p)]
      /\ UNCHANGED <<vars, crashed>>
      /\ rid # Unregistered
  BY DEF draw, NextPoint2
<1>2. Holds(b) /\ rid \in Slots /\ rid \in issued
  <2>1. Holds(b)
    BY <1>1 DEF Holds, checkRid
  <2> QED
    BY <2>1, HeldSlots DEF PenIInv
<1>3. IInv'
  BY <1>1 DEF PenIInv, IInv, Interval, UniqueRids, Holds, vars
<1>4. p \in PlainPoints /\ pen.last \in PlainPoints /\ pen.start \in PenPoints
  <2>1. p \in PlainPoints
    BY DEF Points, PlainPoints
  <2> QED
    BY <1>2, <2>1, PointTypes DEF PenBefore, PenIInv, PenTypeOK
<1>5. Piece(kind, pen, p) \in Pieces(kind)
  BY <1>4, PointTypes DEF Piece, Pieces
<1>6. PenTypeOK'
  <2>1. Midpoint(pen.last, p) \in PenPoints
    BY <1>4, PointTypes
  <2> HIDE DEF pen, p, rid
  <2>2. startPoint_' \in [Slots -> PenPoints]
    BY <1>1, <2>1 DEF PenIInv, PenTypeOK
  <2>3. point1_' \in [Slots -> PlainPoints] /\ point2_' \in [Slots -> PlainPoints]
    BY <1>1, <1>4 DEF PenIInv, PenTypeOK
  <2>4. given' \in [Boards -> Seq(Points)]
    BY <1>1 DEF PenIInv, PenTypeOK
  <2>5. path' \in [Boards -> Seq(Pieces(kind))]
    BY <1>1, <1>5 DEF PenIInv, PenTypeOK
  <2> QED
    BY <1>1, <2>2, <2>3, <2>4, <2>5 DEF PenIInv, PenTypeOK
<1>7. UnusedSlots'
  BY <1>1, <1>2 DEF PenIInv, PenTypeOK, UnusedSlots, vars
<1> PICK n \in Nat : n = Len(given[b])
  BY DEF PenIInv, PenTypeOK
<1>8. /\ given[b] \in Seq(Points) /\ path[b] \in Seq(Pieces(kind)) /\ Len(path[b]) = n
      /\ given'[b] = Append(given[b], o)
      /\ path'[b] = Append(path[b], Piece(kind, pen, p))
  BY <1>1 DEF PenIInv, PenTypeOK, DrawsOwnStroke
<1>9. pen = [start |-> Middle(b, n + 1)', last |-> Before(b, n + 1)']
  BY <1>1, <1>2, <1>8, PenStandsAtStroke
<1>10. \A c \in Boards : Holds(c)' => SlotFollows(c)'
  <2> SUFFICES ASSUME NEW c \in Boards, Holds(c)' PROVE SlotFollows(c)'
    OBVIOUS
  <2>1. Holds(c) /\ contextRid'[c] = contextRid[c]
    BY <1>1 DEF vars, Holds
  <2>2. CASE c = b
    <3>1. /\ given'[b] # <<>> /\ Len(given'[b]) = n + 1 /\ given'[b][n + 1] = o
      BY <1>8
    <3>2. LastPosition(b)' = p
      BY <3>1 DEF LastPosition
    <3>3. point2_'[rid] = p /\ startPoint_'[rid] = Midpoint(pen.last, p)
      BY <1>1, <1>2 DEF PenIInv, PenTypeOK
    <3>4. pen.last = Before(b, n + 1)'
      BY <1>9
    <3> HIDE DEF pen, p
    <3> QED
      BY <2>1, <2>2, <3>1, <3>2, <3>3, <3>4 DEF SlotFollows
  <2>3. CASE c # b
    <3>1. contextRid[c] # rid
      BY <1>2, <2>1, <2>3 DEF PenIInv, IInv, UniqueRids
    <3>2. /\ given'[c] = given[c]
          /\ point2_'[contextRid[c]] = point2_[contextRid[c]]
          /\ startPoint_'[contextRid[c]] = startPoint_[contextRid[c]]
      BY <1>1, <2>3, <3>1 DEF PenIInv, PenTypeOK
    <3>3. SlotFollows(c)
      BY <2>1 DEF PenIInv
    <3> QED
      BY <2>1, <3>2, <3>3 DEF SlotFollows, LastPosition, Before
  <2> QED
    BY <2>2, <2>3
<1>11. DrawsOwnStroke'
  <2> SUFFICES ASSUME NEW c \in Boards
               PROVE  (/\ Len(path[c]) = Len(given[c])
                       /\ \A k \in 1 .. Len(path[c]) :
                            path[c][k] = Piece(kind, [start |-> Middle(c, k), last |-> Before(c, k)],
                                               Plain(given[c][k].position)))'
    BY DEF DrawsOwnStroke
  <2>1. CASE c # b
    <3>1. path'[c] = path[c] /\ given'[c] = given[c]
      BY <1>1, <2>1 DEF PenIInv, PenTypeOK
    <3>2. \A k : Before(c, k)' = Before(c, k) /\ Middle(c, k)' = Middle(c, k)
      BY <3>1 DEF Middle, Before
    <3>3. /\ Len(path[c]) = Len(given[c])
          /\ \A k \in 1 .. Len(path[c]) :
               path[c][k] = Piece(kind, [start |-> Middle(c, k), last |-> Before(c, k)],
                                  Plain(given[c][k].position))
      BY DEF PenIInv, DrawsOwnStroke
    <3> QED
      BY <3>1, <3>2, <3>3
  <2>2. CASE c = b
    <3>1. Len(path'[b]) = n + 1 /\ Len(given'[b]) = n + 1
      BY <1>8
    <3>2. given'[b][n + 1] = o /\ path'[b][n + 1] = Piece(kind, pen, p)
      BY <1>8
    <3>3. ASSUME NEW k \in 1 .. n
          PROVE  /\ given'[b][k] = given[b][k] /\ path'[b][k] = path[b][k]
                 /\ Before(b, k)' = Before(b, k) /\ Middle(b, k)' = Middle(b, k)
      <4>1. \A j \in 1 .. n : given'[b][j] = given[b][j] /\ path'[b][j] = path[b][j]
        BY <1>8
      <4>2. k # 1 => k - 1 \in 1 .. n
        BY <1>8
      <4>3. \A j \in 1 .. n : Before(b, j)' = Before(b, j)
        <5> TAKE j \in 1 .. n
        <5>1. j # 1 => j - 1 \in 1 .. n
          BY <1>8
        <5> QED
          BY <4>1, <5>1 DEF Before
      <4> QED
        BY <4>1, <4>2, <4>3 DEF Middle
    <3>4. \A k \in 1 .. n + 1 :
            (path[b][k] = Piece(kind, [start |-> Middle(b, k), last |-> Before(b, k)],
                                Plain(given[b][k].position)))'
      <4> TAKE k \in 1 .. n + 1
      <4>1. CASE k = n + 1
        BY <1>9, <3>2, <4>1
      <4>2. CASE k # n + 1
        <5>1. k \in 1 .. n
          BY <1>8, <4>2
        <5>2. path[b][k] = Piece(kind, [start |-> Middle(b, k), last |-> Before(b, k)],
                                 Plain(given[b][k].position))
          BY <1>8, <5>1 DEF PenIInv, DrawsOwnStroke
        <5> QED
          BY <3>3, <5>1, <5>2
      <4> QED
        BY <4>1, <4>2
    <3> QED
      BY <2>2, <3>1, <3>4
  <2> QED
    BY <2>1, <2>2
<1>12. OnlyRefusedThrows'
  BY <1>1 DEF OnlyRefusedThrows
<1> QED
  BY <1>3, <1>6, <1>7, <1>10, <1>11, <1>12 DEF PenIInv

LEMMA PenNextInv == PenIInv /\ [PenNext]_penVars => PenIInv'
<1> SUFFICES ASSUME PenIInv, [PenNext]_penVars PROVE PenIInv'
  OBVIOUS
<1>1. ASSUME ~crashed, kind' = kind, NEW b \in Boards, registerDataSource(b) PROVE PenIInv'
  BY <1>1, PenRegister
<1>2. ASSUME ~crashed, kind' = kind, NEW b \in Boards, unregisterDataSource(b) PROVE PenIInv'
  BY <1>2, PenUnregister
<1>3. ASSUME ~crashed, kind' = kind, NEW b \in Boards, NEW o \in Points, draw(b, o) PROVE PenIInv'
  BY <1>3, PenThrow, PenDraws
<1>4. CASE UNCHANGED penVars
  <2>1. IInv'
    BY <1>4 DEF penVars, vars, PenIInv, IInv, Interval, UniqueRids, Holds
  <2>2. PenTypeOK' /\ UnusedSlots' /\ OnlyRefusedThrows'
    BY <1>4 DEF penVars, vars, pens, PenIInv, PenTypeOK, UnusedSlots, OnlyRefusedThrows
  <2>3. DrawsOwnStroke'
    BY <1>4 DEF penVars, vars, PenIInv, DrawsOwnStroke, Middle, Before
  <2>4. \A c \in Boards : Holds(c)' => SlotFollows(c)'
    BY <1>4 DEF penVars, vars, pens, PenIInv, Holds, SlotFollows, LastPosition, Before
  <2> QED
    BY <2>1, <2>2, <2>3, <2>4 DEF PenIInv
<1> QED
  BY <1>1, <1>2, <1>3, <1>4 DEF PenNext, BoardStep

\* The inductive invariant holds in every behaviour of the drawers.
THEOREM PenIInvHolds == PenSpec => []PenIInv
BY PenInitInv, PenNextInv, PTL DEF PenSpec

-----------------------------------------------------------------------------
\* Type correctness of the drawers, for any boards and positions.
THEOREM PenTypeCorrect == PenSpec => []PenTypeOK
<1>1. PenIInv => PenTypeOK
  BY DEF PenIInv
<1> QED
  BY <1>1, PenIInvHolds, PTL

\* Every board's picture is what its own points ask for, whatever the other
\* boards register, unregister and draw on the shared drawer.
THEOREM StrokesAreOwn == PenSpec => []DrawsOwnStroke
<1>1. PenIInv => DrawsOwnStroke
  BY DEF PenIInv
<1> QED
  BY <1>1, PenIInvHolds, PTL

\* draw: never throws for a board that was granted a slot.
THEOREM ThrowMeansRefused == PenSpec => []OnlyRefusedThrows
<1>1. PenIInv => OnlyRefusedThrows
  BY DEF PenIInv
<1> QED
  BY <1>1, PenIInvHolds, PTL

\* The pieces of every stroke join.
THEOREM StrokesAreJoined == PenSpec => []PiecesJoin
<1>1. PenIInv => PiecesJoin
  <2> SUFFICES ASSUME PenIInv, NEW b \in Boards, NEW k \in 2 .. Len(path[b]),
                      ~given[b][k].isStart
               PROVE  path[b][k].from = path[b][k - 1].to
    BY DEF PiecesJoin
  <2>1. Len(path[b]) \in Nat
    BY DEF PenIInv, PenTypeOK
  <2>2. k \in 1 .. Len(path[b]) /\ k - 1 \in 1 .. Len(path[b]) /\ k # 1
    BY <2>1
  <2>3. Before(b, k) = Plain(given[b][k - 1].position)
    BY <2>2 DEF Before
  <2>4. Middle(b, k) = Midpoint(Before(b, k - 1), Before(b, k))
    BY <2>2 DEF Middle
  <2>5. /\ path[b][k] = Piece(kind, [start |-> Middle(b, k), last |-> Before(b, k)],
                              Plain(given[b][k].position))
        /\ path[b][k - 1] = Piece(kind, [start |-> Middle(b, k - 1), last |-> Before(b, k - 1)],
                                  Plain(given[b][k - 1].position))
    BY <2>2 DEF PenIInv, DrawsOwnStroke
  <2> HIDE DEF Plain
  <2> QED
    BY <2>3, <2>4, <2>5 DEF Piece
<1> QED
  BY <1>1, PenIInvHolds, PTL

\* A point that was drawn is not uninitialised memory, nor halfway to it.
Drawn(p) == p # Garbage /\ \A q \in PlainPoints : p # Midpoint(Garbage, q)

LEMMA PlainIsDrawn ==
  ASSUME NEW p \in Positions
  PROVE  Plain(p) # Garbage /\ Drawn(Plain(p))
<1>1. Plain(p) # Garbage
  <2>1. "at" \in DOMAIN Plain(p) /\ "at" \notin DOMAIN Garbage
    BY DEF Plain, Garbage
  <2> QED
    BY <2>1
<1>2. ASSUME NEW q \in PlainPoints PROVE Plain(p) # Midpoint(Garbage, q)
  <2>1. "at" \in DOMAIN Plain(p) /\ "at" \notin DOMAIN [between |-> {Garbage, q}]
    BY DEF Plain
  <2>2. Plain(p) # [between |-> {Garbage, q}]
    BY <2>1
  <2> QED
    BY <1>1, <2>2 DEF Midpoint
<1> QED
  BY <1>1, <1>2 DEF Drawn

LEMMA MiddleIsDrawn ==
  ASSUME NEW a, NEW b, a # Garbage, b # Garbage, Drawn(a)
  PROVE  Drawn(Midpoint(a, b))
<1>1. CASE a = b
  BY <1>1 DEF Midpoint
<1>2. CASE a # b
  <2>1. Midpoint(a, b) = [between |-> {a, b}]
    BY <1>2 DEF Midpoint
  <2>2. "between" \in DOMAIN [between |-> {a, b}] /\ "between" \notin DOMAIN Garbage
    BY DEF Garbage
  <2>3. [between |-> {a, b}] # Garbage
    BY <2>2
  <2>4. ASSUME NEW q \in PlainPoints PROVE [between |-> {a, b}] # Midpoint(Garbage, q)
    <3>1. Garbage \notin {a, b}
      OBVIOUS
    <3>2. [between |-> {a, b}].between = {a, b}
      OBVIOUS
    <3>3. [between |-> {Garbage, q}].between = {Garbage, q}
      OBVIOUS
    <3>4. {a, b} # {Garbage, q}
      BY <3>1
    <3>5. [between |-> {a, b}] # [between |-> {Garbage, q}]
      BY <3>2, <3>3, <3>4
    <3> HIDE DEF Garbage
    <3> QED
      BY <2>3, <3>5 DEF Midpoint
  <2> QED
    BY <2>1, <2>3, <2>4 DEF Drawn
<1> QED
  BY <1>1, <1>2

\* After the first start of a board no piece of it touches uninitialised
\* memory: the points a piece depends on all come from the stroke.
THEOREM NoGarbageDrawn == PenSpec => []NoGarbageAfterStart
<1>1. PenIInv => NoGarbageAfterStart
  <2> SUFFICES ASSUME PenIInv, NEW b \in Boards, NEW k \in 1 .. Len(path[b]),
                      NEW j \in 1 .. k, given[b][j].isStart
               PROVE  \A p \in Ends(path[b][k]) : Drawn(p)
    BY DEF NoGarbageAfterStart, Drawn
  <2>1. Len(path[b]) \in Nat /\ Len(path[b]) = Len(given[b]) /\ given[b] \in Seq(Points)
    BY DEF PenIInv, PenTypeOK, DrawsOwnStroke
  <2>2. \A i \in 1 .. k : given[b][i].position \in Positions
    <3>1. ASSUME NEW i \in 1 .. k PROVE given[b][i] \in Points
      <4>1. i \in 1 .. Len(given[b])
        BY <2>1
      <4> QED
        BY <2>1, <4>1, ElementOfSeq
    <3> QED
      BY <3>1 DEF Points
  <2>3. \A i \in 1 .. k : given[b][i].isStart \/ i # 1 =>
          Before(b, i) # Garbage /\ Drawn(Before(b, i))
    BY <2>1, <2>2, PlainIsDrawn DEF Before
  <2>4. Before(b, k) # Garbage /\ Drawn(Before(b, k))
    BY <2>1, <2>3
  <2>5. Drawn(Middle(b, k))
    <3>1. CASE given[b][k].isStart
      BY <3>1, <2>2, PlainIsDrawn DEF Middle
    <3>2. CASE ~given[b][k].isStart
      <4>1. k # 1 /\ k - 1 \in 1 .. k /\ j \in 1 .. k - 1
        BY <2>1, <3>2
      <4>2. given[b][k - 1].isStart \/ k - 1 # 1
        BY <4>1
      <4>3. Before(b, k - 1) # Garbage /\ Drawn(Before(b, k - 1))
        BY <2>3, <4>1, <4>2
      <4>4. Middle(b, k) = Midpoint(Before(b, k - 1), Before(b, k))
        BY <3>2, <4>1 DEF Middle
      <4> QED
        BY <2>4, <4>3, <4>4, MiddleIsDrawn
    <3> QED
      BY <3>1, <3>2
  <2>6. LET p == Plain(given[b][k].position)
        IN  p # Garbage /\ Drawn(p)
    BY <2>1, <2>2, PlainIsDrawn
  <2>7. path[b][k] = Piece(kind, [start |-> Middle(b, k), last |-> Before(b, k)],
                           Plain(given[b][k].position))
    BY DEF PenIInv, DrawsOwnStroke
  <2>8. Drawn(Midpoint(Before(b, k), Plain(given[b][k].position)))
    BY <2>4, <2>6, MiddleIsDrawn
  <2> HIDE DEF Plain, Garbage
  <2>9. Ends(path[b][k]) \subseteq
          {Middle(b, k), Before(b, k), Plain(given[b][k].position),
           Midpoint(Before(b, k), Plain(given[b][k].position))}
    BY <2>7 DEF Ends, Piece
  <2> QED
    BY <2>4, <2>5, <2>6, <2>8, <2>9
<1> QED
  BY <1>1, PenIInvHolds, PTL

-----------------------------------------------------------------------------
\* Drawing does not touch the registry: what is proved of it above holds of
\* the drawers too.
LEMMA PenIsRegistry == PenSpec => Spec
<1>1. PenInit => Init
  BY DEF PenInit
<1>2. [PenNext]_penVars => [Next]_vars
  BY DEF PenNext, BoardStep, registerDataSource, unregisterDataSource, draw, Next, penVars, vars
<1> QED
  BY <1>1, <1>2, PTL DEF PenSpec, Spec

\* The drawers hand out each slot once, and take back only what was held.
THEOREM PensAllocate == PenSpec => AllocatorSpec
BY PenIsRegistry, ImplementsAllocator, PTL

\* A drawer refuses a board only after all its slots have been handed out.
THEOREM PensRefuseWhenExhausted == PenSpec => []RefusedOnlyWhenExhausted
BY PenIsRegistry, RefusalMeansExhausted, PTL
=============================================================================
