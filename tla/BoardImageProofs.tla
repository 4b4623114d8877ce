-------------------------- MODULE BoardImageProofs --------------------------
(***************************************************************************)
(* Proofs about the images of an operation on the boards, for operations   *)
(* with any coordinates.  The loop works on a copy, so that what board a   *)
(* gets is a function of the operation as it was given and of a alone; the *)
(* rest is arithmetic.                                                     *)
(***************************************************************************)
EXTENDS BoardImage, TLAPS

IntPoints == [x : Int, y : Int]
Sixths == {6 * r : r \in Nat}
IntOperations == UNION {Operation(t, IntPoints, Nat, Sixths) : t \in Types}

Image(o, a) == Resized(Reversed(o), a)

\* The inductive invariant: where the loop is says what the copy is, and a
\* board that was drawn has the image of the operation as it was given.
IInv ==
  /\ object = [given |-> object.given, copy |-> object.copy]
  /\ object.given \in IntOperations
  /\ board \in Nat
  /\ at \in {"duplicate", "reverseOp", "resizeOperation", "draw"}
  /\ at # "duplicate" => op = "copy" /\ board \in Boards
  /\ at = "reverseOp" => object.copy = object.given
  /\ at = "resizeOperation" => object.copy = Reversed(object.given)
  /\ at = "draw" => object.copy = Image(object.given, board)
  /\ drawn = [a \in Boards |-> drawn[a]]
  /\ \A a \in Boards : Drawn(a) => drawn[a] = Image(object.given, a)

\* The operations of a model are operations.
LEMMA GivenIsTyped == Given \subseteq IntOperations
<1> SUFFICES ASSUME NEW t \in Types,
                    NEW o \in Operation(t, [x : Xs, y : Ys], Thicknesses, {6 * r : r \in Radii})
             PROVE  o \in Operation(t, IntPoints, Nat, Sixths)
  BY DEF Given, IntOperations
<1>1. Xs \subseteq Int /\ Ys \subseteq Int /\ Thicknesses \subseteq Nat
  BY ImageAssumption
<1>2. {6 * r : r \in Radii} \subseteq Sixths
  BY ImageAssumption DEF Sixths
<1>3. o.points \in [PointFields(t) -> IntPoints]
  BY <1>1 DEF Operation, IntPoints
<1> QED BY <1>1, <1>2, <1>3 DEF Operation

\* The invariant holds in every reachable state.
THEOREM ImageOfGiven == Spec => []IInv
<1>1. Init => IInv
  BY GivenIsTyped, ImageAssumption DEF Init, IInv, Drawn, Boards
<1>2. IInv /\ [Next]_vars => IInv'
  <2> SUFFICES ASSUME IInv, [Next]_vars PROVE IInv' OBVIOUS
  <2> USE DEF IInv, Drawn
  <2>1. CASE duplicate
    BY <2>1 DEF duplicate, Copy
  <2>2. CASE reverseOp
    BY <2>2 DEF reverseOp
  <2>3. CASE resizeOperation
    BY <2>3 DEF resizeOperation, Image
  <2>4. CASE draw
    <3>1. board \in Boards /\ object[op] = Image(object.given, board)
      BY <2>4 DEF draw
    <3>2. drawn' = [a \in Boards |-> IF a = board THEN Image(object.given, a) ELSE drawn[a]]
      BY <2>4, <3>1 DEF draw
    <3>3. at' = "duplicate" /\ board' \in Nat /\ UNCHANGED object
      BY <2>4 DEF draw
    <3>4. \A a \in Boards : Drawn(a)' => drawn'[a] = Image(object'.given, a)
      BY <3>1, <3>2, <3>3
    <3>5. drawn' = [a \in Boards |-> drawn'[a]]
      BY <3>2
    <3> QED BY <3>3, <3>4, <3>5
  <2>5. CASE UNCHANGED vars
    BY <2>5 DEF vars
  <2> QED BY <2>1, <2>2, <2>3, <2>4, <2>5 DEF Next
<1> QED BY <1>1, <1>2, PTL DEF Spec

-----------------------------------------------------------------------------
\* Drawing leaves the operation as it was given: no step of the loop writes
\* through op while it points to the application's object.
THEOREM GivenStays == Spec => GivenIsKept
<1>1. IInv /\ [Next]_vars => object'.given = object.given \/ UNCHANGED vars
  BY DEF IInv, Next, duplicate, Copy, reverseOp, resizeOperation, draw, vars
<1> QED BY <1>1, ImageOfGiven, PTL DEF Spec, GivenIsKept

-----------------------------------------------------------------------------
\* Lemmas about the scaling.

\* Storing n sixths as an int drops less than one, towards zero.
LEMMA TruncatedBounds ==
  ASSUME NEW n \in Int
  PROVE  /\ Truncated(n) \in Int
         /\ n >= 0 => Truncated(n) >= 0 /\ n - 6 * Truncated(n) \in 0 .. 5
         /\ n =< 0 => Truncated(n) =< 0 /\ 6 * Truncated(n) - n \in 0 .. 5
BY DEF Truncated

\* Truncation is monotonic.
LEMMA TruncatedMonotonic ==
  ASSUME NEW m \in Int, NEW n \in Int, m =< n
  PROVE  Truncated(m) =< Truncated(n)
BY DEF Truncated

\* A board has one of five scales.
LEMMA FiveBoards == Boards \subseteq {0, 1, 2, 3, 4}
BY ImageAssumption DEF Boards

\* The images of one coordinate on two boards are less than a pixel apart.
LEMMA SameOnTwoBoards ==
  ASSUME NEW z \in Int, NEW a \in Boards, NEW b \in Boards, a < b
  PROVE  Truncated(z * (a + 2)) * (b + 2) - Truncated(z * (b + 2)) * (a + 2)
           \in -(b + 1) .. b + 1
<1>1. PICK k \in {2, 3, 4, 5, 6}, l \in {2, 3, 4, 5, 6} : k = a + 2 /\ l = b + 2 /\ k < l
  BY FiveBoards
<1>2. z * k \in Int /\ z * l \in Int
  BY <1>1
<1> DEFINE p == Truncated(z * k)
           q == Truncated(z * l)
<1>3. p \in Int /\ q \in Int
  BY <1>2, TruncatedBounds
<1>4. z >= 0 => z * k - 6 * p \in 0 .. 5 /\ z * l - 6 * q \in 0 .. 5
  BY <1>1, <1>2, TruncatedBounds
<1>5. z =< 0 => 6 * p - z * k \in 0 .. 5 /\ 6 * q - z * l \in 0 .. 5
  BY <1>1, <1>2, TruncatedBounds
<1> HIDE DEF p, q
<1>6. p * l - q * k \in -(l - 1) .. l - 1
  BY <1>1, <1>3, <1>4, <1>5
<1>7. a \in Int /\ b \in Int
  BY DEF Boards
<1>8. l - 1 = b + 1 /\ -(l - 1) = -(b + 1)
  BY <1>1, <1>7
<1> QED BY <1>1, <1>6, <1>8 DEF p, q

\* A point field of the image is the scaled, turned over point of the
\* operation; its radii and its thickness are scaled.
LEMMA ImageFields ==
  ASSUME NEW o \in IntOperations, NEW a \in Boards
  PROVE  /\ \A f \in DOMAIN o.points :
              /\ o.points[f].x \in Int /\ o.points[f].y \in Int
              /\ Image(o, a).points[f].x = Truncated(o.points[f].x * (a + 2))
              /\ Image(o, a).points[f].y = Truncated(OwbY(o.points[f].y) * (a + 2))
         /\ \A f \in DOMAIN o.radii :
              /\ o.radii[f] \in Sixths
              /\ Image(o, a).radii[f] = (o.radii[f] * (a + 2)) \div 6
         /\ o.thinkness_ \in Nat
         /\ Image(o, a).thinkness_ = Truncated(o.thinkness_ * (a + 2))
<1>1. PICK t \in Types : o \in Operation(t, IntPoints, Nat, Sixths)
  BY DEF IntOperations
<1>2. /\ o.points \in [PointFields(t) -> IntPoints]
      /\ o.radii \in [RadiusFields(t) -> Sixths]
      /\ o.thinkness_ \in Nat
      /\ o = [operationType_ |-> o.operationType_, points |-> o.points,
              thinkness_ |-> o.thinkness_, radii |-> o.radii]
  BY <1>1 DEF Operation
<1>3. Reversed(o) = [operationType_ |-> o.operationType_,
                     points |-> [f \in DOMAIN o.points |-> ReversedPoint(o.points[f])],
                     thinkness_ |-> o.thinkness_, radii |-> o.radii]
  BY <1>2 DEF Reversed
<1> DEFINE r == Reversed(o)
<1> HIDE DEF r
<1>4. Resized(r, a) = [r EXCEPT
        !.points = [f \in DOMAIN r.points |-> ResizedPoint(r.points[f], a)],
        !.radii = [f \in DOMAIN r.radii |-> (r.radii[f] * (a + 2)) \div 6],
        !.thinkness_ = Truncated(r.thinkness_ * (a + 2))]
  BY DEF Resized
<1>5. Image(o, a) = [operationType_ |-> o.operationType_,
                     points |-> [f \in DOMAIN o.points |-> ResizedPoint(ReversedPoint(o.points[f]), a)],
                     thinkness_ |-> Truncated(o.thinkness_ * (a + 2)),
                     radii |-> [f \in DOMAIN o.radii |-> (o.radii[f] * (a + 2)) \div 6]]
  <2>1. /\ r.points = [f \in DOMAIN o.points |-> ReversedPoint(o.points[f])]
        /\ r.radii = o.radii /\ r.thinkness_ = o.thinkness_
        /\ r.operationType_ = o.operationType_
    BY <1>3 DEF r
  <2>2. [f \in DOMAIN r.points |-> ResizedPoint(r.points[f], a)]
        = [f \in DOMAIN o.points |-> ResizedPoint(ReversedPoint(o.points[f]), a)]
    BY <2>1
  <2>3. r = [operationType_ |-> r.operationType_, points |-> r.points,
             thinkness_ |-> r.thinkness_, radii |-> r.radii]
    BY <1>3 DEF r
  <2> DEFINE P == [f \in DOMAIN r.points |-> ResizedPoint(r.points[f], a)]
             R == [f \in DOMAIN r.radii |-> (r.radii[f] * (a + 2)) \div 6]
             T == Truncated(r.thinkness_ * (a + 2))
  <2>4. Resized(r, a) = [r EXCEPT !.points = P, !.radii = R, !.thinkness_ = T]
    BY <1>4
  <2> HIDE DEF P, R, T
  <2>5. Resized(r, a) = [operationType_ |-> r.operationType_, points |-> P,
                         thinkness_ |-> T, radii |-> R]
    BY <2>3, <2>4
  <2> QED BY <2>1, <2>2, <2>5 DEF P, R, T, Image, r
<1>6. \A f \in DOMAIN o.points : o.points[f] \in IntPoints
  BY <1>2
<1> QED BY <1>2, <1>5, <1>6 DEF IntPoints, ResizedPoint, ReversedPoint

\* What the invariant says of a board that was drawn.
LEMMA DrawnFields ==
  ASSUME IInv, NEW a \in Boards, Drawn(a)
  PROVE  /\ a \in Int /\ a >= 0 /\ a =< 4
         /\ \A f \in DOMAIN object.given.points :
              /\ object.given.points[f].x \in Int /\ object.given.points[f].y \in Int
              /\ drawn[a].points[f].x = Truncated(object.given.points[f].x * (a + 2))
              /\ drawn[a].points[f].y = Truncated(OwbY(object.given.points[f].y) * (a + 2))
         /\ \A f \in DOMAIN object.given.radii :
              /\ object.given.radii[f] \in Sixths
              /\ drawn[a].radii[f] = (object.given.radii[f] * (a + 2)) \div 6
         /\ object.given.thinkness_ \in Nat
         /\ drawn[a].thinkness_ = Truncated(object.given.thinkness_ * (a + 2))
<1>1. a \in Int /\ a >= 0 /\ a =< 4
  BY FiveBoards
<1>2. object.given \in IntOperations /\ drawn[a] = Image(object.given, a)
  BY DEF IInv
<1> QED BY <1>1, <1>2, ImageFields

\* Turning over stays within the integers.
LEMMA OwbYInt == \A y \in Int : OwbY(y) \in Int /\ OwbY(y) = BOARD_HEIGHT * 3 - y
BY ImageAssumption DEF OwbY

-----------------------------------------------------------------------------
\* Points inside the largest board are inside every context: the bounds of the
\* contexts and the scale of the points fit for every size of the boards.
THEOREM StaysInside == Spec => []InsideStaysInside
<1>1. IInv => InsideStaysInside
  <2> SUFFICES ASSUME IInv, NEW a \in Boards, Drawn(a),
                      NEW f \in DOMAIN object.given.points, Inside(object.given.points[f])
               PROVE  /\ drawn[a].points[f].x \in 0 .. BW(a)
                      /\ drawn[a].points[f].y \in 0 .. BH(a)
    BY DEF InsideStaysInside
  <2>1. a \in {0, 1, 2, 3, 4} /\ BOARD_WIDTH \in Nat /\ BOARD_HEIGHT \in Nat
    BY FiveBoards, ImageAssumption
  <2>2. PICK x \in Int, y \in Int :
          /\ x = object.given.points[f].x /\ y = OwbY(object.given.points[f].y)
          /\ x \in 0 .. BOARD_WIDTH * 3 /\ y \in 0 .. BOARD_HEIGHT * 3
    <3> DEFINE P == object.given.points[f]
    <3>1. P.x \in Int /\ P.y \in Int
      BY DrawnFields
    <3>2. P.x \in 0 .. BOARD_WIDTH * 3 /\ P.y \in 0 .. BOARD_HEIGHT * 3
      BY DEF Inside
    <3>3. OwbY(P.y) \in 0 .. BOARD_HEIGHT * 3
      <4>1. \A y \in Int : y \in 0 .. BOARD_HEIGHT * 3 => OwbY(y) \in 0 .. BOARD_HEIGHT * 3
        BY <2>1 DEF OwbY
      <4> QED BY <3>1, <3>2, <4>1
    <3> QED BY <3>1, <3>2, <3>3
  <2>3. \A z \in Int, n \in Nat, k \in {2, 3, 4, 5, 6} :
          z \in 0 .. n * 3 => Truncated(z * k) \in 0 .. (n * k) \div 2
    BY DEF Truncated
  <2>4. /\ drawn[a].points[f].x = Truncated(x * (a + 2))
        /\ drawn[a].points[f].y = Truncated(y * (a + 2))
    BY <2>2, DrawnFields
  <2>5. a + 2 \in {2, 3, 4, 5, 6}
    BY <2>1
  <2> QED BY <2>1, <2>2, <2>3, <2>4, <2>5 DEF BW, BH
<1> QED BY <1>1, ImageOfGiven, PTL

\* A thickness of three units or more never scales to nothing.
THEOREM StrokesAreVisible == Spec => []ThinnestVisible
<1>1. IInv => ThinnestVisible
  <2> SUFFICES ASSUME IInv, NEW a \in Boards, Drawn(a)
               PROVE  /\ object.given.thinkness_ >= 3 => drawn[a].thinkness_ >= 1
                      /\ drawn[a].thinkness_ =< object.given.thinkness_
    BY DEF ThinnestVisible
  <2>1. a + 2 \in {2, 3, 4, 5, 6}
    BY FiveBoards
  <2>2. \A n \in Nat, k \in {2, 3, 4, 5, 6} :
          (n >= 3 => Truncated(n * k) >= 1) /\ Truncated(n * k) =< n
    BY DEF Truncated
  <2> QED BY <2>1, <2>2, DrawnFields
<1> QED BY <1>1, ImageOfGiven, PTL

\* Scaling keeps the order of two points, turning over reverses it.
THEOREM OrderIsKept == Spec => []TurnedOver
<1>1. IInv => TurnedOver
  <2> SUFFICES ASSUME IInv, NEW a \in Boards, Drawn(a),
                      NEW f \in DOMAIN object.given.points, NEW g \in DOMAIN object.given.points
               PROVE  /\ object.given.points[f].x =< object.given.points[g].x
                           => drawn[a].points[f].x =< drawn[a].points[g].x
                      /\ object.given.points[f].y =< object.given.points[g].y
                           => drawn[a].points[f].y >= drawn[a].points[g].y
    BY DEF TurnedOver
  <2>1. a + 2 \in {2, 3, 4, 5, 6}
    BY FiveBoards
  <2>2. \A m, n \in Int, k \in {2, 3, 4, 5, 6} :
          m =< n => Truncated(m * k) =< Truncated(n * k)
    BY DEF Truncated
  <2>3. \A y, z \in Int : y =< z => OwbY(z) =< OwbY(y)
    BY ImageAssumption DEF OwbY
  <2> DEFINE P == object.given.points[f]
             Q == object.given.points[g]
  <2>4. P.x \in Int /\ P.y \in Int /\ Q.x \in Int /\ Q.y \in Int
    BY DrawnFields
  <2>5. OwbY(P.y) \in Int /\ OwbY(Q.y) \in Int
    BY <2>4, OwbYInt
  <2>6. /\ drawn[a].points[f].x = Truncated(P.x * (a + 2))
        /\ drawn[a].points[g].x = Truncated(Q.x * (a + 2))
        /\ drawn[a].points[f].y = Truncated(OwbY(P.y) * (a + 2))
        /\ drawn[a].points[g].y = Truncated(OwbY(Q.y) * (a + 2))
    BY DrawnFields
  <2>7. P.x =< Q.x => Truncated(P.x * (a + 2)) =< Truncated(Q.x * (a + 2))
    BY <2>1, <2>2, <2>4
  <2>8. ASSUME P.y =< Q.y
        PROVE  Truncated(OwbY(Q.y) * (a + 2)) =< Truncated(OwbY(P.y) * (a + 2))
    BY <2>1, <2>2, <2>3, <2>4, <2>5, <2>8
  <2>9. \A n \in Int : Truncated(n * (a + 2)) \in Int
    BY <2>1, TruncatedBounds
  <2> QED BY <2>4, <2>5, <2>6, <2>7, <2>8, <2>9
<1> QED BY <1>1, ImageOfGiven, PTL

\* Any two boards show the same picture up to less than a pixel.
THEOREM BoardsShowOnePicture == Spec => []BoardsAgree
<1>1. IInv => BoardsAgree
  <2> SUFFICES ASSUME IInv, NEW a \in Boards, NEW b \in Boards, Drawn(a), Drawn(b), a < b
               PROVE  /\ \A f \in DOMAIN object.given.points :
                           LET p == drawn[a].points[f]  q == drawn[b].points[f]
                           IN  /\ p.x * (b + 2) - q.x * (a + 2) \in -(b + 1) .. b + 1
                               /\ p.y * (b + 2) - q.y * (a + 2) \in -(b + 1) .. b + 1
                      /\ \A f \in DOMAIN object.given.radii :
                           drawn[a].radii[f] * (b + 2) = drawn[b].radii[f] * (a + 2)
    BY DEF BoardsAgree
  <2>1. ASSUME NEW f \in DOMAIN object.given.points
        PROVE  LET p == drawn[a].points[f]  q == drawn[b].points[f]
               IN  /\ p.x * (b + 2) - q.x * (a + 2) \in -(b + 1) .. b + 1
                   /\ p.y * (b + 2) - q.y * (a + 2) \in -(b + 1) .. b + 1
    <3> DEFINE P == object.given.points[f]
    <3>1. P.x \in Int /\ OwbY(P.y) \in Int
      BY DrawnFields, OwbYInt
    <3>2. /\ drawn[a].points[f].x = Truncated(P.x * (a + 2))
          /\ drawn[b].points[f].x = Truncated(P.x * (b + 2))
          /\ drawn[a].points[f].y = Truncated(OwbY(P.y) * (a + 2))
          /\ drawn[b].points[f].y = Truncated(OwbY(P.y) * (b + 2))
      BY DrawnFields
    <3>3. \A z \in Int : Truncated(z * (a + 2)) * (b + 2) - Truncated(z * (b + 2)) * (a + 2)
                           \in -(b + 1) .. b + 1
      BY SameOnTwoBoards
    <3> QED BY <3>1, <3>2, <3>3
  <2>2. ASSUME NEW f \in DOMAIN object.given.radii
        PROVE  drawn[a].radii[f] * (b + 2) = drawn[b].radii[f] * (a + 2)
    <3>1. PICK r \in Nat : object.given.radii[f] = 6 * r
      BY DrawnFields DEF Sixths
    <3>2. /\ drawn[a].radii[f] = ((6 * r) * (a + 2)) \div 6
          /\ drawn[b].radii[f] = ((6 * r) * (b + 2)) \div 6
      BY <3>1, DrawnFields
    <3>3. PICK k \in {2, 3, 4, 5, 6}, l \in {2, 3, 4, 5, 6} : k = a + 2 /\ l = b + 2
      BY FiveBoards
    <3>4. ((6 * r) * k) \div 6 = r * k /\ ((6 * r) * l) \div 6 = r * l
      BY <3>3
    <3>5. (r * k) * l = (r * l) * k
      BY <3>3
    <3> QED BY <3>2, <3>3, <3>4, <3>5
  <2> QED BY <2>1, <2>2
<1> QED BY <1>1, ImageOfGiven, PTL
=============================================================================
