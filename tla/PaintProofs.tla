----------------------------- MODULE PaintProofs -----------------------------
(***************************************************************************)
(* Proofs about the paint of the board queue, for any number of boards and *)
(* items and any colours and alphas.  The argument: after each block, and  *)
(* for each board after its iteration of the loop, the context holds the   *)
(* alpha of the last drawing, and the table's entry of the eraser that of  *)
(* the last drawing in its colour.  So what every item looks like is a     *)
(* function of the items (Seen), the same for all boards.                  *)
(***************************************************************************)
EXTENDS Paint, SequenceTheorems, WellFoundedInduction, TLAPS

Colours == [color : 0 .. COLOR_NUM - 1, alpha : 0 .. Opaque]
Contexts == [alpha : 0 .. Opaque, stroke : Colours, fill : Colours]
Paints == [colour : Colours \cup {"image"}, through : 0 .. Opaque]

PaintTypes ==
  /\ color_table \in [0 .. COLOR_NUM - 1 -> 0 .. Opaque]
  /\ context_ \in [Boards -> Contexts]
  /\ requested \in Seq(Items)
  /\ board \in 0 .. BOARD_NUM
  /\ painted \in [Boards -> Seq(Paints)]

\* The boards before the one in work have the last item, the others have not.
Progress ==
  /\ board \in Boards => requested # <<>>
  /\ \A b \in Boards :
       Len(painted[b]) = IF b < board THEN Len(requested) ELSE Len(requested) - 1

\* What item k looks like.
Seen(k) ==
  LET o == requested[k]
  IN  IF o \in Drawings
      THEN [colour |-> [color |-> o.color_, alpha |-> o.alpha_], through |-> o.alpha_]
      ELSE IF o = Erase
      THEN [colour |-> [color |-> ERASER_COLOR, alpha |-> LastAlpha(k, Whites)],
            through |-> LastAlpha(k, Drawings)]
      ELSE [colour |-> "image", through |-> LastAlpha(k, Drawings)]

AllSeen == \A b \in Boards : \A k \in 1 .. Len(painted[b]) : painted[b][k] = Seen(k)

\* The inductive invariant.
IInv ==
  /\ PaintTypes
  /\ Progress
  /\ \A b \in Boards : context_[b].alpha = LastAlpha(Len(painted[b]), Drawings)
  /\ color_table[ERASER_COLOR] = LastAlpha(Len(painted[0]), Whites)
  /\ AllSeen

-----------------------------------------------------------------------------
\* Items: what they are and what they are not.
LEMMA ItemFacts ==
  /\ Erase \notin Drawings /\ Document \notin Drawings /\ Erase # Document
  /\ Items = Drawings \cup {Erase, Document}
  /\ Whites \subseteq Drawings
  /\ \A o \in Drawings : o.color_ \in 0 .. COLOR_NUM - 1 /\ o.alpha_ \in 0 .. Opaque
<1> USE DEF Drawings, Strokes, Shapes
<1>1. Erase \notin Drawings
  BY DEF Erase
<1>2. Document \notin Drawings
  BY DEF Document
<1>3. Erase # Document
  BY DEF Erase, Document
<1> QED
  BY <1>1, <1>2, <1>3, PaintAssumption DEF Items, Whites

\* How the last alpha changes from one item to the next.
LEMMA LastAlphaStep ==
  ASSUME NEW k \in Nat \ {0}, NEW Q
  PROVE  LastAlpha(k, Q) =
           IF requested[k] \in Q THEN requested[k].alpha_ ELSE LastAlpha(k - 1, Q)
<1> DEFINE S(n) == {j \in 1 .. n : requested[j] \in Q}
<1>1. CASE requested[k] \in Q
  <2>1. k \in S(k) /\ \A j \in S(k) : j \in Int /\ k >= j
    BY <1>1
  <2>2. Max(S(k)) = k
    <3>1. Max(S(k)) \in S(k) /\ \A j \in S(k) : Max(S(k)) >= j
      BY <2>1 DEF Max
    <3> QED
      BY <2>1, <3>1
  <2> QED
    BY <1>1, <2>1, <2>2 DEF LastAlpha
<1>2. CASE requested[k] \notin Q
  <2>1. S(k) = S(k - 1)
    BY <1>2
  <2> QED
    BY <1>2, <2>1 DEF LastAlpha
<1> QED
  BY <1>1, <1>2

LEMMA LastAlphaFirst == \A Q : LastAlpha(0, Q) = Opaque
BY DEF LastAlpha

\* The order of the natural numbers is well founded.
Less == {ss \in Nat \X Nat : ss[1] < ss[2]}

LEMMA LessWellFounded == IsWellFoundedOn(Less, Nat)
BY NatLessThanWellFounded DEF OpToRel, Less

LEMMA SmallestNumber ==
  ASSUME NEW T, T \subseteq Nat, T # {}
  PROVE  \E x \in T : \A y \in T : y >= x
<1>1. \E x \in T : \A y \in T : ~(<<y, x>> \in Less)
  BY LessWellFounded, WFMin
<1>2. \A x, y \in T : ~(<<y, x>> \in Less) => y >= x
  BY DEF Less
<1> QED
  BY <1>1, <1>2

\* A set of numbers up to k has a largest element, as the distances from k
\* have a smallest one.
LEMMA MaxOfNumbers ==
  ASSUME NEW k \in Nat, NEW S, S \subseteq 1 .. k, S # {}
  PROVE  Max(S) \in S
<1> DEFINE T == {k - j : j \in S}
<1>1. T \subseteq Nat /\ T # {}
  <2>1. T \subseteq Nat
    OBVIOUS
  <2>2. \E j \in S : k - j \in T
    OBVIOUS
  <2> QED
    BY <2>1, <2>2
<1>2. \E x \in T : \A y \in T : y >= x
  BY <1>1, SmallestNumber
<1>3. PICK x \in T : \A y \in T : y >= x
  BY <1>2
<1>4. PICK m \in S : x = k - m
  BY <1>3
<1>5. m \in S /\ \A j \in S : m >= j
  <2> SUFFICES ASSUME NEW j \in S PROVE m >= j
    BY <1>4
  <2>1. k - j >= x
    BY <1>3
  <2>2. m \in Int /\ j \in Int
    BY <1>4
  <2> QED
    BY <1>4, <2>1, <2>2
<1> QED
  BY <1>5 DEF Max

\* More items leave the last alpha of the first ones as it is.
LEMMA LastAlphaKept ==
  ASSUME NEW k \in Nat, NEW Q, \A j \in 1 .. k : requested'[j] = requested[j]
  PROVE  LastAlpha(k, Q)' = LastAlpha(k, Q)
<1> DEFINE S == {j \in 1 .. k : requested[j] \in Q}
<1>1. S' = S
  OBVIOUS
<1>2. S # {} => Max(S) \in 1 .. k
  BY MaxOfNumbers
<1>3. S # {} => requested'[Max(S)] = requested[Max(S)]
  BY <1>2
<1>4. LastAlpha(k, Q) = IF S = {} THEN Opaque ELSE requested[Max(S)].alpha_
  BY DEF LastAlpha
<1>5. LastAlpha(k, Q)' = IF S' = {} THEN Opaque ELSE requested'[Max(S')].alpha_
  BY DEF LastAlpha
<1> HIDE DEF S
<1> QED
  BY <1>1, <1>3, <1>4, <1>5

\* So what item k looks like is settled once it is there.
LEMMA SeenKept ==
  ASSUME NEW k \in Nat \ {0}, \A j \in 1 .. k : requested'[j] = requested[j]
  PROVE  Seen(k)' = Seen(k)
<1>1. requested'[k] = requested[k]
  OBVIOUS
<1>2. LastAlpha(k, Drawings)' = LastAlpha(k, Drawings)
  BY LastAlphaKept
<1>3. LastAlpha(k, Whites)' = LastAlpha(k, Whites)
  BY LastAlphaKept
<1> QED
  BY <1>1, <1>2, <1>3 DEF Seen

-----------------------------------------------------------------------------
LEMMA InitInv == Init => IInv
<1> SUFFICES ASSUME Init PROVE IInv
  OBVIOUS
<1> USE PaintAssumption
<1>1. PaintTypes
  <2>1. ERASER_COLOR \in 0 .. COLOR_NUM - 1 /\ 0 \in 0 .. COLOR_NUM - 1
    OBVIOUS
  <2>2. color_table \in [0 .. COLOR_NUM - 1 -> 0 .. Opaque]
    BY DEF Init, Opaque
  <2>3. CGEraserColor \in Colours /\ [color |-> 0, alpha |-> Opaque] \in Colours
    BY <2>1, <2>2 DEF CGEraserColor, Colours, Opaque
  <2>4. context_ \in [Boards -> Contexts]
    BY <2>3 DEF Init, Contexts, Opaque
  <2>5. requested \in Seq(Items) /\ painted \in [Boards -> Seq(Paints)]
    BY DEF Init
  <2> QED
    BY <2>2, <2>4, <2>5 DEF Init, PaintTypes
<1>2. 0 \in Boards /\ \A b \in Boards : painted[b] = <<>>
  BY DEF Init, Boards
<1>3. Progress
  BY <1>2 DEF Init, Progress, Boards
<1>4. \A b \in Boards : context_[b].alpha = LastAlpha(Len(painted[b]), Drawings)
  BY <1>2, LastAlphaFirst DEF Init
<1>5. color_table[ERASER_COLOR] = LastAlpha(Len(painted[0]), Whites)
  BY <1>2, LastAlphaFirst DEF Init
<1>6. AllSeen
  BY <1>2 DEF AllSeen
<1> QED
  BY <1>1, <1>3, <1>4, <1>5, <1>6 DEF IInv

\* A new item changes nothing of what was painted.
LEMMA TakeInv ==
  ASSUME IInv, NEW o \in Items, Take(o)
  PROVE  IInv'
<1> USE PaintAssumption
<1>0. PICK n \in Nat : n = Len(requested)
  BY DEF IInv, PaintTypes
<1>1. /\ board = BOARD_NUM /\ board' = 0
      /\ requested' = Append(requested, o)
      /\ UNCHANGED <<color_table, context_, painted>>
  BY DEF Take
<1>2. /\ n \in Nat /\ requested' \in Seq(Items) /\ Len(requested') = n + 1
      /\ \A j \in 1 .. n : requested'[j] = requested[j]
  BY <1>0, <1>1 DEF IInv, PaintTypes
<1>3. \A b \in Boards : Len(painted[b]) = n
  BY <1>0, <1>1 DEF IInv, Progress, Boards
<1>4. PaintTypes'
  BY <1>1, <1>2 DEF IInv, PaintTypes
<1>5. Progress'
  <2>1. requested' # <<>>
    BY <1>2
  <2>2. \A b \in Boards : Len(painted'[b]) = n /\ ~(b < board')
    BY <1>1, <1>3 DEF Boards
  <2> QED
    BY <1>2, <2>1, <2>2 DEF Progress
<1>6. LastAlpha(n, Drawings)' = LastAlpha(n, Drawings)
  BY <1>2, LastAlphaKept
<1>7. LastAlpha(n, Whites)' = LastAlpha(n, Whites)
  BY <1>2, LastAlphaKept
<1>8. AllSeen'
  <2> SUFFICES ASSUME NEW b \in Boards, NEW k \in 1 .. Len(painted'[b])
               PROVE  painted'[b][k] = Seen(k)'
    BY DEF AllSeen
  <2>1. k \in 1 .. n
    BY <1>1, <1>3
  <2>2. \A j \in 1 .. k : requested'[j] = requested[j]
    BY <1>2, <2>1
  <2>3. Seen(k)' = Seen(k)
    BY <2>1, <2>2, SeenKept
  <2> QED
    BY <1>1, <2>3 DEF IInv, AllSeen
<1> QED
  <2>1. \A b \in Boards : context_'[b].alpha = LastAlpha(n, Drawings)'
    BY <1>1, <1>3, <1>6 DEF IInv
  <2>2. 0 \in Boards
    BY DEF Boards
  <2>3. color_table'[ERASER_COLOR] = LastAlpha(n, Whites)'
    BY <1>1, <1>3, <1>7, <2>2 DEF IInv
  <2> QED
    BY <1>1, <1>3, <1>4, <1>5, <1>8, <2>1, <2>2, <2>3 DEF IInv

\* A block paints one context: what it adds looks as it should, and table and
\* context are left with the alphas of the last drawings.
LEMMA PaintInv ==
  ASSUME IInv, board \in Boards, board' = board + 1, UNCHANGED requested,
         NEW c \in Contexts, Set(c),
         NEW paint \in Paints, Add(paint),
         color_table' \in [0 .. COLOR_NUM - 1 -> 0 .. Opaque],
         NEW n \in Nat \ {0}, n = Len(requested),
         paint = Seen(n),
         c.alpha = LastAlpha(n, Drawings),
         color_table'[ERASER_COLOR] = LastAlpha(n, Whites)
  PROVE  IInv'
<1> USE PaintAssumption
<1>1. /\ painted \in [Boards -> Seq(Paints)] /\ Len(painted[board]) = n - 1
      /\ painted' = [painted EXCEPT ![board] = Append(@, paint)]
      /\ context_' = [context_ EXCEPT ![board] = c]
  BY DEF IInv, PaintTypes, Progress, Add, Set, Boards
<1>2. /\ Len(painted'[board]) = n /\ painted'[board][n] = paint
      /\ \A k \in 1 .. n - 1 : painted'[board][k] = painted[board][k]
  BY <1>1
<1>3. \A b \in Boards \ {board} : painted'[b] = painted[b] /\ context_'[b] = context_[b]
  BY <1>1 DEF IInv, PaintTypes
<1>4. PaintTypes'
  <2>1. board' \in 0 .. BOARD_NUM
    BY DEF Boards
  <2>2. context_' \in [Boards -> Contexts]
    BY <1>1 DEF IInv, PaintTypes
  <2>3. painted' \in [Boards -> Seq(Paints)]
    BY <1>1
  <2> QED
    BY <2>1, <2>2, <2>3 DEF IInv, PaintTypes
<1>5. Progress'
  <2>1. requested' # <<>>
    BY DEF IInv, Progress
  <2>2. ASSUME NEW b \in Boards
        PROVE  Len(painted'[b]) = IF b < board' THEN Len(requested') ELSE Len(requested') - 1
    <3>1. CASE b = board
      BY <1>2, <3>1 DEF Boards
    <3>2. CASE b # board
      <4>1. b < board' <=> b < board
        BY <3>2 DEF Boards
      <4> QED
        BY <1>3, <3>2, <4>1 DEF IInv, Progress
    <3> QED
      BY <3>1, <3>2
  <2> QED
    BY <2>1, <2>2 DEF Progress
<1>6. \A k, Q : LastAlpha(k, Q)' = LastAlpha(k, Q)
  BY DEF LastAlpha
<1>7. \A k : Seen(k)' = Seen(k)
  BY <1>6 DEF Seen
<1>8. ASSUME NEW b \in Boards
      PROVE  context_'[b].alpha = LastAlpha(Len(painted[b]), Drawings)'
  <2>1. CASE b = board
    <3>1. context_'[b] = c
      BY <1>1, <2>1 DEF IInv, PaintTypes
    <3>2. Len(painted'[b]) = n
      BY <1>2, <2>1
    <3> QED
      BY <1>6, <3>1, <3>2
  <2>2. CASE b # board
    BY <1>3, <1>6, <2>2 DEF IInv
  <2> QED
    BY <2>1, <2>2
<1>9. color_table'[ERASER_COLOR] = LastAlpha(Len(painted[0]), Whites)'
  <2>1. 0 \in Boards /\ 0 < board'
    BY DEF Boards
  <2>2. Len(painted'[0]) = n
    BY <1>5, <2>1 DEF Progress
  <2> QED
    BY <1>6, <2>2
<1>10. AllSeen'
  <2> SUFFICES ASSUME NEW b \in Boards, NEW k \in 1 .. Len(painted'[b])
               PROVE  painted'[b][k] = Seen(k)'
    BY DEF AllSeen
  <2>1. CASE b = board /\ k = n
    BY <1>2, <1>7, <2>1
  <2>2. CASE b = board /\ k # n
    <3>1. k \in 1 .. n - 1
      BY <1>2, <2>2
    <3> QED
      BY <1>1, <1>2, <1>7, <2>2, <3>1 DEF IInv, AllSeen
  <2>3. CASE b # board
    BY <1>3, <1>7, <2>3 DEF IInv, AllSeen
  <2> QED
    BY <2>1, <2>2, <2>3
<1> QED
  BY <1>4, <1>5, <1>8, <1>9, <1>10 DEF IInv

-----------------------------------------------------------------------------
\* Where the table and the context stand when a block paints a context.
LEMMA BeforePainting ==
  ASSUME IInv, board \in Boards, NEW n \in Nat, n = Len(requested)
  PROVE  /\ n # 0 /\ Current = requested[n] /\ Current \in Items
         /\ context_[board] \in Contexts
         /\ context_[board].alpha = LastAlpha(n - 1, Drawings)
         /\ color_table[ERASER_COLOR] \in {LastAlpha(n - 1, Whites), LastAlpha(n, Whites)}
<1> USE PaintAssumption
<1>1. requested \in Seq(Items) /\ requested # <<>>
  BY DEF IInv, PaintTypes, Progress
<1>2. n # 0 /\ n \in 1 .. n
  BY <1>1
<1>3. Current = requested[n] /\ Current \in Items
  BY <1>1, <1>2 DEF Current, Last
<1>4. Len(painted[board]) = n - 1
  BY DEF IInv, Progress, Boards
<1>5. 0 \in Boards /\ Len(painted[0]) \in {n - 1, n}
  BY DEF IInv, Progress, Boards
<1> QED
  BY <1>2, <1>3, <1>4, <1>5 DEF IInv, PaintTypes

\* A drawing sets the table and the context to its own alpha.
LEMMA DrawingInv ==
  ASSUME IInv, board \in Boards, board' = board + 1, UNCHANGED requested,
         Current \in Drawings,
         color_table' = TableAfter(Current),
         NEW c \in Contexts, Set(c), c.alpha = Current.alpha_,
         Add(Paint(CGColorMake(Current), c))
  PROVE  IInv'
<1> USE PaintAssumption
<1>1. PICK n \in Nat : n = Len(requested)
  BY DEF IInv, PaintTypes
<1>2. /\ n # 0 /\ Current = requested[n]
      /\ color_table[ERASER_COLOR] \in {LastAlpha(n - 1, Whites), LastAlpha(n, Whites)}
  BY <1>1, BeforePainting
<1> DEFINE o == Current
<1>3. o.color_ \in 0 .. COLOR_NUM - 1 /\ o.alpha_ \in 0 .. Opaque
  BY ItemFacts
<1> HIDE DEF o
<1>4. /\ color_table' \in [0 .. COLOR_NUM - 1 -> 0 .. Opaque]
      /\ color_table'[o.color_] = o.alpha_
      /\ o.color_ # ERASER_COLOR => color_table'[ERASER_COLOR] = color_table[ERASER_COLOR]
  BY <1>3 DEF IInv, PaintTypes, TableAfter, o
<1>5. CGColorMake(o) = [color |-> o.color_, alpha |-> o.alpha_]
  BY <1>4 DEF CGColorMake, o
<1>6. Paint(CGColorMake(o), c) \in Paints
  BY <1>3, <1>5 DEF Paint, Paints, Colours, Contexts
<1>7. Paint(CGColorMake(o), c) = Seen(n)
  BY <1>2, <1>5 DEF Paint, Seen, o
<1>8. c.alpha = LastAlpha(n, Drawings)
  BY <1>2, LastAlphaStep
<1>9. color_table'[ERASER_COLOR] = LastAlpha(n, Whites)
  <2>1. CASE o.color_ = ERASER_COLOR
    <3>1. requested[n] \in Whites
      BY <1>2, <2>1 DEF Whites, o
    <3>2. LastAlpha(n, Whites) = o.alpha_
      BY <1>2, <3>1, LastAlphaStep DEF o
    <3> QED
      BY <1>4, <2>1, <3>2
  <2>2. CASE o.color_ # ERASER_COLOR
    <3>1. requested[n] \notin Whites
      BY <1>2, <2>2 DEF Whites, o
    <3>2. LastAlpha(n, Whites) = LastAlpha(n - 1, Whites)
      BY <1>2, <3>1, LastAlphaStep
    <3> QED
      BY <1>2, <1>4, <2>2, <3>2
  <2> QED
    BY <2>1, <2>2
<1> QED
  BY <1>1, <1>2, <1>4, <1>6, <1>7, <1>8, <1>9, PaintInv DEF o

LEMMA StrokeInv == ASSUME IInv, drawStroke PROVE IInv'
<1> DEFINE o == Current
           c == StrokeState(o, context_[board])
<1>1. /\ board \in Boards /\ board' = board + 1 /\ UNCHANGED requested
      /\ o.operationType_ \in {"LINE", "POINT"}
      /\ color_table' = TableAfter(o)
      /\ Set(c) /\ Add(Paint(c.stroke, c))
  BY DEF drawStroke, OnBoard
<1>2. PICK n \in Nat : n = Len(requested)
  BY DEF IInv, PaintTypes
<1>3. o \in Items /\ context_[board] \in Contexts
  BY <1>1, <1>2, BeforePainting
<1>4. o \in Drawings
  BY <1>1, <1>3, ItemFacts DEF Erase, Document
<1>5. o.color_ \in 0 .. COLOR_NUM - 1 /\ o.alpha_ \in 0 .. Opaque
  BY <1>4, ItemFacts
<1>6. CGColorMake(o) \in Colours
  BY <1>5 DEF IInv, PaintTypes, CGColorMake, TableAfter, Colours
<1>7. c \in Contexts /\ c.alpha = o.alpha_ /\ c.stroke = CGColorMake(o)
  <2> HIDE DEF o
  <2> QED
    BY <1>3, <1>5, <1>6 DEF Contexts, StrokeState
<1> HIDE DEF c
<1> QED
  BY <1>1, <1>4, <1>7, DrawingInv

LEMMA ShapeInv == ASSUME IInv, drawShape PROVE IInv'
<1> DEFINE o == Current
           c == ShapeState(o, context_[board])
<1>1. /\ board \in Boards /\ board' = board + 1 /\ UNCHANGED requested
      /\ o.operationType_ \in {"ELLIPSE", "RECTANGE"}
      /\ color_table' = TableAfter(o)
      /\ Set(c) /\ Add(Paint(IF o.fill_ THEN c.fill ELSE c.stroke, c))
  BY DEF drawShape, OnBoard
<1>2. PICK n \in Nat : n = Len(requested)
  BY DEF IInv, PaintTypes
<1>3. o \in Items /\ context_[board] \in Contexts
  BY <1>1, <1>2, BeforePainting
<1>4. o \in Drawings
  BY <1>1, <1>3, ItemFacts DEF Erase, Document
<1>5. o.color_ \in 0 .. COLOR_NUM - 1 /\ o.alpha_ \in 0 .. Opaque
  BY <1>4, ItemFacts
<1>6. CGColorMake(o) \in Colours
  BY <1>5 DEF IInv, PaintTypes, CGColorMake, TableAfter, Colours
<1>7. /\ c \in Contexts /\ c.alpha = o.alpha_
      /\ (IF o.fill_ THEN c.fill ELSE c.stroke) = CGColorMake(o)
  <2> HIDE DEF o
  <2> QED
    BY <1>3, <1>5, <1>6 DEF Contexts, ShapeState
<1> HIDE DEF c
<1> QED
  BY <1>1, <1>4, <1>7, DrawingInv

\* The eraser and a document leave the alphas where they are.
LEMMA LeftAsTheyAre ==
  ASSUME IInv, board \in Boards, NEW n \in Nat \ {0}, n = Len(requested),
         requested[n] \in {Erase, Document}
  PROVE  /\ context_[board].alpha = LastAlpha(n, Drawings)
         /\ color_table[ERASER_COLOR] = LastAlpha(n, Whites)
<1>1. requested[n] \notin Drawings /\ requested[n] \notin Whites
  BY ItemFacts
<1>2. /\ LastAlpha(n, Drawings) = LastAlpha(n - 1, Drawings)
      /\ LastAlpha(n, Whites) = LastAlpha(n - 1, Whites)
  BY <1>1, LastAlphaStep
<1> QED
  BY <1>2, BeforePainting

LEMMA EraseInv == ASSUME IInv, drawErase PROVE IInv'
<1> USE PaintAssumption
<1> DEFINE c == EraserState(context_[board])
<1>1. /\ board \in Boards /\ board' = board + 1 /\ UNCHANGED <<requested, color_table>>
      /\ Current.operationType_ \in {"ERASER"}
      /\ Set(c) /\ Add(Paint(c.stroke, c))
  BY DEF drawErase, OnBoard
<1>2. PICK n \in Nat : n = Len(requested)
  BY DEF IInv, PaintTypes
<1>3. /\ n # 0 /\ Current = requested[n] /\ Current \in Items
      /\ context_[board] \in Contexts
  BY <1>1, <1>2, BeforePainting
<1>4. requested[n] = Erase
  BY <1>1, <1>3, ItemFacts DEF Drawings, Strokes, Shapes, Document
<1>5. /\ context_[board].alpha = LastAlpha(n, Drawings)
      /\ color_table[ERASER_COLOR] = LastAlpha(n, Whites)
  BY <1>1, <1>2, <1>3, <1>4, LeftAsTheyAre
<1>6. CGEraserColor \in Colours
  BY DEF IInv, PaintTypes, CGEraserColor, Colours
<1>7. c \in Contexts /\ c.alpha = context_[board].alpha /\ c.stroke = CGEraserColor
  BY <1>3, <1>6 DEF EraserState, Contexts
<1> HIDE DEF c
<1>8. Paint(c.stroke, c) \in Paints
  BY <1>6, <1>7 DEF Paint, Paints, Contexts
<1>9. Paint(c.stroke, c) = Seen(n)
  BY <1>4, <1>5, <1>7, ItemFacts DEF Paint, Seen, CGEraserColor
<1>10. color_table' \in [0 .. COLOR_NUM - 1 -> 0 .. Opaque]
  BY <1>1 DEF IInv, PaintTypes
<1> QED
  BY <1>1, <1>2, <1>3, <1>5, <1>7, <1>8, <1>9, <1>10, PaintInv

LEMMA DocumentInv == ASSUME IInv, drawDocument PROVE IInv'
<1> DEFINE c == context_[board]
<1>1. /\ board \in Boards /\ board' = board + 1
      /\ UNCHANGED <<requested, color_table, context_>>
      /\ Current.operationType_ \in {"DOCUMENT"}
      /\ Add(Image(c))
  BY DEF drawDocument, OnBoard
<1>2. PICK n \in Nat : n = Len(requested)
  BY DEF IInv, PaintTypes
<1>3. /\ n # 0 /\ Current = requested[n] /\ Current \in Items
      /\ c \in Contexts
  BY <1>1, <1>2, BeforePainting
<1>4. requested[n] = Document
  BY <1>1, <1>3, ItemFacts DEF Drawings, Strokes, Shapes, Erase
<1>5. /\ c.alpha = LastAlpha(n, Drawings)
      /\ color_table[ERASER_COLOR] = LastAlpha(n, Whites)
  BY <1>1, <1>2, <1>3, <1>4, LeftAsTheyAre
<1>6. Image(c) \in Paints /\ Image(c) = Seen(n)
  BY <1>3, <1>4, <1>5, ItemFacts DEF Image, Paints, Seen, Contexts
<1>7. Set(c)
  BY <1>1 DEF Set, IInv, PaintTypes
<1>8. color_table' \in [0 .. COLOR_NUM - 1 -> 0 .. Opaque]
  BY <1>1 DEF IInv, PaintTypes
<1> HIDE DEF c
<1> QED
  BY <1>1, <1>2, <1>3, <1>5, <1>6, <1>7, <1>8, PaintInv

LEMMA NextInv == IInv /\ [Next]_vars => IInv'
<1> SUFFICES ASSUME IInv, [Next]_vars PROVE IInv'
  OBVIOUS
<1>1. ASSUME NEW o \in Items, Take(o) PROVE IInv'
  BY <1>1, TakeInv
<1>2. CASE UNCHANGED vars
  <2>1. /\ color_table' = color_table /\ context_' = context_ /\ requested' = requested
        /\ board' = board /\ painted' = painted
    BY <1>2 DEF vars
  <2>2. PaintTypes' /\ Progress'
    BY <2>1 DEF IInv, PaintTypes, Progress
  <2>3. \A k, Q : LastAlpha(k, Q)' = LastAlpha(k, Q)
    BY <2>1 DEF LastAlpha
  <2>4. AllSeen'
    <3>1. \A k : Seen(k)' = Seen(k)
      BY <2>1, <2>3 DEF Seen
    <3> QED
      BY <2>1, <3>1 DEF IInv, AllSeen
  <2>5. \A b \in Boards :
          (context_[b].alpha = LastAlpha(Len(painted[b]), Drawings))'
    BY <2>1 DEF IInv, LastAlpha
  <2>6. (color_table[ERASER_COLOR] = LastAlpha(Len(painted[0]), Whites))'
    BY <2>1 DEF IInv, LastAlpha
  <2> QED
    BY <2>2, <2>4, <2>5, <2>6 DEF IInv
<1> QED
  BY <1>1, <1>2, StrokeInv, ShapeInv, EraseInv, DocumentInv DEF Next

\* The inductive invariant holds in every behaviour of the board queue.
THEOREM IInvHolds == Spec => []IInv
BY InitInv, NextInv, PTL DEF Spec

-----------------------------------------------------------------------------
\* Whatever was drawn before, a drawing is painted with its own colour and
\* its own alpha.
THEOREM OwnPaint == Spec => []DrawingsPaintTheirOwn
<1>1. IInv => DrawingsPaintTheirOwn
  BY DEF IInv, AllSeen, Seen, DrawingsPaintTheirOwn
<1> QED
  BY <1>1, IInvHolds, PTL

\* The eraser and documents are painted with the alphas that the last
\* drawings left in the context and in the colour table.
THEOREM LeftoverFromDrawings == Spec => []LeftoverAlpha
<1>1. IInv => LeftoverAlpha
  BY ItemFacts DEF IInv, AllSeen, Seen, LeftoverAlpha
<1> QED
  BY <1>1, IInvHolds, PTL

\* All boards are painted alike.
THEOREM PaintedAlike == Spec => []BoardsPaintAlike
<1>1. IInv => BoardsPaintAlike
  <2> SUFFICES ASSUME IInv, NEW a \in Boards, NEW b \in Boards, a =< b
               PROVE  IsPrefix(painted[b], painted[a])
    BY DEF BoardsPaintAlike
  <2>1. painted[a] \in Seq(Paints) /\ painted[b] \in Seq(Paints)
    BY DEF IInv, PaintTypes
  <2>2. Len(painted[b]) =< Len(painted[a])
    BY PaintAssumption DEF IInv, PaintTypes, Progress, Boards
  <2>3. \A k \in 1 .. Len(painted[b]) : painted[b][k] = painted[a][k]
    <3> TAKE k \in 1 .. Len(painted[b])
    <3>1. k \in 1 .. Len(painted[a])
      BY <2>1, <2>2
    <3> QED
      BY <3>1 DEF IInv, AllSeen
  <2>4. SubSeq(painted[b], 1, Len(painted[b])) = SubSeq(painted[a], 1, Len(painted[b]))
    BY <2>1, <2>2, <2>3
  <2> QED
    BY <2>2, <2>4 DEF IsPrefix
<1> QED
  BY <1>1, IInvHolds, PTL
=============================================================================
