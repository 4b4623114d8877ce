----------------------------- MODULE BoardImage -----------------------------
(***************************************************************************)
(* How one operation gets onto boards of different sizes: the loop of      *)
(* drawOperationBack duplicates the operation for each board, turns its y  *)
(* axis over (reverseOp) and scales it (resizeOperation), in place, before *)
(* the drawer gets it.                                                     *)
(*                                                                         *)
(* Operations have the coordinates of board 4, BOARD_WIDTH * 3 wide.       *)
(* SCALE(a) is (a + 2) / 6.  Points and thickness are int32 in the         *)
(* message, so that storing a scaled one truncates it; the radii of an     *)
(* ellipse are floats and are kept here in sixths, which is exact.  The    *)
(* product in single precision truncates to the same integer as the exact  *)
(* one for coordinates of less than 2^22; beyond 6 * 2^20 it may not.      *)
(***************************************************************************)
EXTENDS Integers

CONSTANTS BOARD_NUM, BOARD_HEIGHT, BOARD_WIDTH,
          Xs, Ys, Thicknesses, Radii   \* the data of the operations

Boards == 0 .. BOARD_NUM - 1

ASSUME ImageAssumption ==
  /\ BOARD_NUM \in 1 .. 5
  /\ BOARD_HEIGHT \in Nat /\ BOARD_WIDTH \in Nat
  /\ Xs \subseteq Int /\ Ys \subseteq Int
  /\ Thicknesses \subseteq Nat /\ Radii \subseteq Nat

VARIABLES object,   \* the operation drawn and the copy in work
          op,       \* the object that op points to: "given" or "copy"
          board,    \* the loop's i
          at,       \* the call that comes next
          drawn     \* drawn[a]: what the drawer got for board a, or Nothing

vars == <<object, op, board, at, drawn>>

Types == {"LINE", "ELLIPSE", "RECTANGE", "POINT", "ERASER"}

PointFields(type) ==
  CASE type = "LINE" -> {"startPoint_", "endPoint_"}
    [] type = "ELLIPSE" -> {"center_"}
    [] type = "RECTANGE" -> {"topLeftCorner_", "bottomRightCorner_"}
    [] OTHER -> {"position_"}

RadiusFields(type) == IF type = "ELLIPSE" THEN {"a_", "b_"} ELSE {}

Operation(type, positions, thicknesses, radii) ==
  [operationType_ : {type},
   points : [PointFields(type) -> positions],
   thinkness_ : thicknesses,
   radii : [RadiusFields(type) -> radii]]

Given == UNION {Operation(t, [x : Xs, y : Ys], Thicknesses, {6 * r : r \in Radii}) : t \in Types}
Nothing == [operationType_ |-> "none"]

-----------------------------------------------------------------------------
\* The size of board a's context.
BH(a) == (BOARD_HEIGHT * (a + 2)) \div 2
BW(a) == (BOARD_WIDTH * (a + 2)) \div 2

\* The int32 a float of n sixths is stored as.
Truncated(n) == IF n >= 0 THEN n \div 6 ELSE -((-n) \div 6)

\* Mutant of OwbY: measured from the height of board 0.
OwbYOfBoard0(y) == BOARD_HEIGHT - y
OwbY(y) == BOARD_HEIGHT * 3 - y

ReversedPoint(p) == [x |-> p.x, y |-> OwbY(p.y)]
ResizedPoint(p, a) == [x |-> Truncated(p.x * (a + 2)), y |-> Truncated(p.y * (a + 2))]

\* Every point field of the operation's type is set.
Reversed(o) == [o EXCEPT !.points = [f \in DOMAIN o.points |-> ReversedPoint(o.points[f])]]

\* Mutant of Resized: the thickness is scaled by the board's number.
ThicknessByNumber(o, a) ==
  [o EXCEPT !.points = [f \in DOMAIN o.points |-> ResizedPoint(o.points[f], a)],
            !.radii = [f \in DOMAIN o.radii |-> (o.radii[f] * (a + 2)) \div 6],
            !.thinkness_ = Truncated(o.thinkness_ * a)]
Resized(o, a) ==
  [o EXCEPT !.points = [f \in DOMAIN o.points |-> ResizedPoint(o.points[f], a)],
            !.radii = [f \in DOMAIN o.radii |-> (o.radii[f] * (a + 2)) \div 6],
            !.thinkness_ = Truncated(o.thinkness_ * (a + 2))]

Init ==
  /\ \E o \in Given : object = [given |-> o, copy |-> o]
  /\ op = "given" /\ board = 0 /\ at = "duplicate"
  /\ drawn = [a \in Boards |-> Nothing]

\* Mutant of Copy: the operation itself is worked on.
NoCopy == UNCHANGED <<object, op>>
Copy == object' = [object EXCEPT !.copy = object.given] /\ op' = "copy"

duplicate ==
  /\ at = "duplicate" /\ board \in Boards
  /\ Copy
  /\ at' = "reverseOp"
  /\ UNCHANGED <<board, drawn>>

reverseOp ==
  /\ at = "reverseOp"
  /\ object' = [object EXCEPT ![op] = Reversed(@)]
  /\ at' = "resizeOperation"
  /\ UNCHANGED <<op, board, drawn>>

resizeOperation ==
  /\ at = "resizeOperation"
  /\ object' = [object EXCEPT ![op] = Resized(@, board)]
  /\ at' = "draw"
  /\ UNCHANGED <<op, board, drawn>>

draw ==
  /\ at = "draw"
  /\ drawn' = [drawn EXCEPT ![board] = object[op]]
  /\ board' = board + 1
  /\ at' = "duplicate"
  /\ UNCHANGED <<object, op>>

Next == duplicate \/ reverseOp \/ resizeOperation \/ draw

Spec == Init /\ [][Next]_vars

-----------------------------------------------------------------------------
Drawn(a) == drawn[a] # Nothing
Inside(p) == p.x \in 0 .. BOARD_WIDTH * 3 /\ p.y \in 0 .. BOARD_HEIGHT * 3

\* Drawing leaves the operation as it was given: the application sends the
\* same object to the server.
GivenIsKept == [][object'.given = object.given]_vars

\* The boards show one picture at several sizes: brought to a common scale,
\* the points of an operation are less than a pixel of either board apart,
\* and the radii do not differ at all.
BoardsAgree ==
  \A a, b \in Boards : Drawn(a) /\ Drawn(b) /\ a < b =>
    /\ \A f \in DOMAIN object.given.points :
         LET p == drawn[a].points[f]  q == drawn[b].points[f]
         IN  /\ p.x * (b + 2) - q.x * (a + 2) \in -(b + 1) .. b + 1
             /\ p.y * (b + 2) - q.y * (a + 2) \in -(b + 1) .. b + 1
    /\ \A f \in DOMAIN object.given.radii :
         drawn[a].radii[f] * (b + 2) = drawn[b].radii[f] * (a + 2)

\* What was drawn inside the largest board is inside every context's bitmap.
InsideStaysInside ==
  \A a \in Boards : Drawn(a) =>
    \A f \in DOMAIN object.given.points : Inside(object.given.points[f]) =>
      /\ drawn[a].points[f].x \in 0 .. BW(a)
      /\ drawn[a].points[f].y \in 0 .. BH(a)

\* Two points of an operation keep their order from left to right and change
\* it from top to bottom on every board.
TurnedOver ==
  \A a \in Boards : Drawn(a) =>
    \A f, g \in DOMAIN object.given.points :
      LET p == object.given.points[f]  q == object.given.points[g]
      IN  /\ p.x =< q.x => drawn[a].points[f].x =< drawn[a].points[g].x
          /\ p.y =< q.y => drawn[a].points[f].y >= drawn[a].points[g].y

\* Strokes of at least three units are visible on the smallest board; thinner
\* ones have thickness 0 there.
ThinnestVisible ==
  \A a \in Boards : Drawn(a) =>
    /\ object.given.thinkness_ >= 3 => drawn[a].thinkness_ >= 1
    /\ drawn[a].thinkness_ =< object.given.thinkness_
=============================================================================
