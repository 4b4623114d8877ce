-------------------------------- MODULE Paint --------------------------------
(***************************************************************************)
(* The paint of what the board queue draws.  Two pieces of state outlive   *)
(* a draw: the colour table of ColorMaker, which all contexts share and    *)
(* CGColorMake writes the alpha into, and the graphics state of each       *)
(* context.  The drawers set the colour and the alpha they paint with; the *)
(* eraser leaves the context's alpha as it is and takes its colour from    *)
(* the table, and a document (one that decodes) is painted with the alpha  *)
(* left there.                                                             *)
(*                                                                         *)
(* The blocks of the board queue run one after the other (BoardModel); one *)
(* step here is what a block does to one context.  A colour is an index of *)
(* the table, whose red, green and blue never change, with an alpha in     *)
(* percent.  Line widths and caps are set by every drawer that uses them.  *)
(***************************************************************************)
EXTENDS Integers, Sequences, SequencesExt

CONSTANTS BOARD_NUM, COLOR_NUM, ERASER_COLOR,
          Colors, Alphas,   \* the colours and alphas of the operations
          MaxItems          \* bound on the operations and documents

Boards == 0 .. BOARD_NUM - 1
Opaque == 100

ASSUME PaintAssumption ==
  /\ BOARD_NUM \in Nat \ {0} /\ COLOR_NUM \in Nat
  /\ ERASER_COLOR \in 0 .. COLOR_NUM - 1
  /\ Colors \subseteq 0 .. COLOR_NUM - 1
  /\ Alphas \subseteq 0 .. Opaque
  /\ MaxItems \in Nat

VARIABLES color_table,   \* the alpha of each entry
          context_,      \* the graphics state of each context
          requested,     \* history: what the queue ran, the last one in work
          board,         \* the context the block paints next, BOARD_NUM if done
          painted        \* history: the paint each context got for each of them

vars == <<color_table, context_, requested, board, painted>>

Strokes == [operationType_ : {"LINE", "POINT"}, color_ : Colors, alpha_ : Alphas]
Shapes == [operationType_ : {"ELLIPSE", "RECTANGE"}, color_ : Colors, alpha_ : Alphas,
           fill_ : BOOLEAN]
Erase == [operationType_ |-> "ERASER"]
Document == [operationType_ |-> "DOCUMENT"]
Items == Strokes \cup Shapes \cup {Erase, Document}

-----------------------------------------------------------------------------
\* Mutant of TableAfter: the alphas multiply up.
TableMultiplied(o) == [color_table EXCEPT ![o.color_] = (@ * o.alpha_) \div Opaque]

\* CGColorMake writes the alpha into the table and makes the colour from it.
TableAfter(o) == [color_table EXCEPT ![o.color_] = o.alpha_]
CGColorMake(o) == [color |-> o.color_, alpha |-> TableAfter(o)[o.color_]]
CGEraserColor == [color |-> ERASER_COLOR, alpha |-> color_table[ERASER_COLOR]]

\* The paint that reaches the bitmap is seen through the context's alpha.
Paint(colour, c) == [colour |-> colour, through |-> c.alpha]
Image(c) == [colour |-> "image", through |-> c.alpha]

\* init: alpha 1, black strokes, and the background filled with the eraser's
\* colour.
Init ==
  /\ color_table = [c \in 0 .. COLOR_NUM - 1 |-> Opaque]
  /\ context_ = [b \in Boards |->
       [alpha |-> Opaque, stroke |-> [color |-> 0, alpha |-> Opaque], fill |-> CGEraserColor]]
  /\ requested = <<>>
  /\ board = BOARD_NUM
  /\ painted = [b \in Boards |-> <<>>]

\* The next block of the queue starts.
Take(o) ==
  /\ board = BOARD_NUM /\ Len(requested) < MaxItems
  /\ requested' = Append(requested, o)
  /\ board' = 0
  /\ UNCHANGED <<color_table, context_, painted>>

\* One context of the loop: its state set, then painted with.
Current == Last(requested)
Set(c) == context_' = [context_ EXCEPT ![board] = c]
Add(paint) == painted' = [painted EXCEPT ![board] = Append(@, paint)]
OnBoard(type) ==
  /\ board \in Boards /\ Current.operationType_ \in type
  /\ board' = board + 1
  /\ UNCHANGED requested

\* LineDrawer, PointDrawer
StrokeState(o, c) == [c EXCEPT !.stroke = CGColorMake(o), !.alpha = o.alpha_]

drawStroke ==
  /\ OnBoard({"LINE", "POINT"})
  /\ color_table' = TableAfter(Current)
  /\ LET c == StrokeState(Current, context_[board])
     IN  Set(c) /\ Add(Paint(c.stroke, c))

\* Mutant of ShapeState: the alpha is set only where a line is drawn.
AlphaOfLinesOnly(o, c) ==
  IF o.fill_ THEN [c EXCEPT !.fill = CGColorMake(o)]
  ELSE [c EXCEPT !.stroke = CGColorMake(o), !.alpha = o.alpha_]

\* EllipseDrawer, RectangeDrawer
ShapeState(o, c) ==
  IF o.fill_ THEN [c EXCEPT !.fill = CGColorMake(o), !.alpha = o.alpha_]
  ELSE [c EXCEPT !.stroke = CGColorMake(o), !.alpha = o.alpha_]

drawShape ==
  /\ OnBoard({"ELLIPSE", "RECTANGE"})
  /\ color_table' = TableAfter(Current)
  /\ LET c == ShapeState(Current, context_[board])
     IN  Set(c) /\ Add(Paint(IF Current.fill_ THEN c.fill ELSE c.stroke, c))

\* Mutant of EraserState: the context's alpha is set to that of the colour.
AlphaOfColour(c) == [c EXCEPT !.stroke = CGEraserColor, !.alpha = CGEraserColor.alpha]

\* Eraser: the table's entry as it is.
EraserState(c) == [c EXCEPT !.stroke = CGEraserColor]

drawErase ==
  /\ OnBoard({"ERASER"})
  /\ LET c == EraserState(context_[board])
     IN  Set(c) /\ Add(Paint(c.stroke, c))
  /\ UNCHANGED color_table

\* The loads: CGContextDrawImage
drawDocument ==
  /\ OnBoard({"DOCUMENT"})
  /\ Add(Image(context_[board]))
  /\ UNCHANGED <<color_table, context_>>

Next == (\E o \in Items : Take(o)) \/ drawStroke \/ drawShape \/ drawErase \/ drawDocument

Spec == Init /\ [][Next]_vars

-----------------------------------------------------------------------------
Drawings == Strokes \cup Shapes
Whites == {o \in Drawings : o.color_ = ERASER_COLOR}

\* A drawing looks the same whatever was drawn before it: its colour and both
\* alphas are its own.
DrawingsPaintTheirOwn ==
  \A b \in Boards : \A k \in 1 .. Len(painted[b]) :
    LET o == requested[k]
    IN  o \in Drawings =>
          painted[b][k] = [colour |-> [color |-> o.color_, alpha |-> o.alpha_],
                           through |-> o.alpha_]

\* The boards paint alike, erasing and documents included, although they are
\* drawn one after the other with one colour table.
BoardsPaintAlike ==
  \A a, b \in Boards : a =< b => IsPrefix(painted[b], painted[a])

\* The alpha of the last of the first k items that is in Q, 1 at first.
LastAlpha(k, Q) ==
  LET S == {j \in 1 .. k : requested[j] \in Q}
  IN  IF S = {} THEN Opaque ELSE requested[Max(S)].alpha_

\* What the eraser and a document look like depends on the drawings before
\* them: both are seen through the alpha of the last drawing, and the eraser
\* has the alpha of the last drawing in its colour.
LeftoverAlpha ==
  \A b \in Boards : \A k \in 1 .. Len(painted[b]) :
    LET last == LastAlpha(k, Drawings)
    IN  /\ requested[k] = Erase =>
             painted[b][k] = [colour |-> [color |-> ERASER_COLOR, alpha |-> LastAlpha(k, Whites)],
                              through |-> last]
        /\ requested[k] = Document => painted[b][k] = [colour |-> "image", through |-> last]
=============================================================================
