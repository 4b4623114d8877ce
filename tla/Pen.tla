-------------------------------- MODULE Pen ---------------------------------
(***************************************************************************)
(* The freehand drawers: PointDrawer and Eraser with the pen state they    *)
(* keep from one draw to the next, composed with their slot registry       *)
(* (PointResource).  A stroke arrives as single points; the first one is   *)
(* marked as its start, and each point adds a piece that continues from    *)
(* what the drawer remembers in the slot of the context it draws on.       *)
(*                                                                         *)
(* The drawers are shared by all contexts, so registrations and draws of   *)
(* different contexts come in any order.  A draw touches only the slot it  *)
(* is given and one bit of the mask, so it is one step.                    *)
(*                                                                         *)
(* Positions are values; the midpoint of two is kept as the pair.          *)
(***************************************************************************)
EXTENDS PointResource, Sequences

CONSTANTS Positions,
          MaxPoints    \* bound: points a board draws in one registration

ASSUME PenAssumption == MaxPoints \in Nat

VARIABLES kind,        \* the drawer: "POINT" or "ERASER"
          startPoint_, point1_, point2_,     \* the pen arrays, by slot
          given,       \* history: the points board b drew since it registered
          path,        \* history: the pieces this painted on board b
          crashed      \* draw: threw

pens == <<startPoint_, point1_, point2_>>
penVars == <<vars, kind, pens, given, path, crashed>>

Slots == 0 .. MAX_RESOURCE_NUM - 1
Points == [isStart : BOOLEAN, position : Positions]

Plain(p) == [at |-> p]
Garbage == [uninitialised |-> TRUE]
Midpoint(p, q) == IF p = q THEN p ELSE [between |-> {p, q}]

\* new CGPoint[MAX_RESOURCE_NUM] initialises nothing.
PenInit ==
  /\ Init
  /\ kind \in {"POINT", "ERASER"}
  /\ startPoint_ = [s \in Slots |-> Garbage]
  /\ point1_ = [s \in Slots |-> Garbage]
  /\ point2_ = [s \in Slots |-> Garbage]
  /\ given = [b \in Boards |-> <<>>]
  /\ path = [b \in Boards |-> <<>>]
  /\ crashed = FALSE

-----------------------------------------------------------------------------
\* registerDataSource: the slot comes with what its arrays hold.
registerDataSource(b) ==
  /\ registerResource(b)
  /\ given' = [given EXCEPT ![b] = <<>>]
  /\ path' = [path EXCEPT ![b] = <<>>]
  /\ UNCHANGED <<pens, crashed>>

unregisterDataSource(b) ==
  /\ unRegisterResouce(b)
  /\ UNCHANGED <<pens, given, path, crashed>>

\* Mutants of PenBefore: a start sets the start point but not point2, or the
\* other way round.
StartPointOnly(rid, o) ==
  [start |-> IF o.isStart THEN Plain(o.position) ELSE startPoint_[rid],
   last |-> point2_[rid]]
Point2Only(rid, o) ==
  [start |-> startPoint_[rid],
   last |-> IF o.isStart THEN Plain(o.position) ELSE point2_[rid]]

\* Where the pen stands: at the point itself if a stroke starts.
PenBefore(rid, o) ==
  IF o.isStart
  THEN [start |-> Plain(o.position), last |-> Plain(o.position)]
  ELSE [start |-> startPoint_[rid], last |-> point2_[rid]]

\* The pen draws a curve to the middle of the way, the eraser a line.
Piece(k, pen, p) ==
  IF k = "POINT"
  THEN [from |-> pen.start, control |-> pen.last, to |-> Midpoint(pen.last, p)]
  ELSE [from |-> pen.last, to |-> p]

\* Mutant of NextPoint2: the point reached is not kept.
KeepLast(pen, p) == pen.last
NextPoint2(pen, p) == p

\* draw: throws if checkRid does not know the rid the board got.
draw(b, o) ==
  LET rid == contextRid[b]
      pen == PenBefore(rid, o)
      p == Plain(o.position)
  IN  /\ rid # Unregistered
      /\ Len(given[b]) < MaxPoints
      /\ IF checkRid(rid)
         THEN /\ given' = [given EXCEPT ![b] = Append(@, o)]
              /\ path' = [path EXCEPT ![b] = Append(@, Piece(kind, pen, p))]
              /\ point1_' = [point1_ EXCEPT ![rid] = pen.last]
              /\ point2_' = [point2_ EXCEPT ![rid] = NextPoint2(pen, p)]
              /\ startPoint_' = [startPoint_ EXCEPT ![rid] = Midpoint(pen.last, NextPoint2(pen, p))]
              /\ UNCHANGED crashed
         ELSE crashed' = TRUE /\ UNCHANGED <<pens, given, path>>
      /\ UNCHANGED vars

BoardStep(b) ==
  \/ registerDataSource(b)
  \/ unregisterDataSource(b)
  \/ \E o \in Points : draw(b, o)

PenNext == ~crashed /\ UNCHANGED kind /\ \E b \in Boards : BoardStep(b)

PenSpec == PenInit /\ [][PenNext]_penVars

-----------------------------------------------------------------------------
PlainPoints == {Plain(p) : p \in Positions} \cup {Garbage}
PenPoints == PlainPoints \cup {Midpoint(p, q) : p, q \in PlainPoints}
Pieces(k) ==
  IF k = "POINT"
  THEN [from : PenPoints, control : PlainPoints, to : PenPoints]
  ELSE [from : PlainPoints, to : PlainPoints]

\* Every variable stays in its range.
PenTypeOK ==
  /\ kind \in {"POINT", "ERASER"}
  /\ startPoint_ \in [Slots -> PenPoints]
  /\ point1_ \in [Slots -> PlainPoints] /\ point2_ \in [Slots -> PlainPoints]
  /\ given \in [Boards -> Seq(Points)] /\ path \in [Boards -> Seq(Pieces(kind))]
  /\ crashed \in BOOLEAN

\* The pieces of a stroke join: each starts where the one before it on the
\* same board ended, whatever other boards drew on the shared drawer between.
PiecesJoin ==
  \A b \in Boards : \A k \in 2 .. Len(path[b]) :
    ~given[b][k].isStart => path[b][k].from = path[b][k - 1].to

\* What a stroke looks like, from the points alone: the k-th piece of board b
\* comes from the position before it, through the middle of the two before.
Before(b, k) ==
  IF given[b][k].isStart THEN Plain(given[b][k].position)
  ELSE IF k = 1 THEN Garbage ELSE Plain(given[b][k - 1].position)
Middle(b, k) ==
  IF given[b][k].isStart THEN Plain(given[b][k].position)
  ELSE IF k = 1 THEN Garbage ELSE Midpoint(Before(b, k - 1), Before(b, k))

\* A board's picture is a function of its own points: no other board and no
\* earlier owner of its slot shows in it, except in a stroke that has no start.
DrawsOwnStroke ==
  \A b \in Boards :
    /\ Len(path[b]) = Len(given[b])
    /\ \A k \in 1 .. Len(path[b]) :
         path[b][k] = Piece(kind, [start |-> Middle(b, k), last |-> Before(b, k)],
                            Plain(given[b][k].position))

\* Uninitialised points are painted at most before the first start of a board.
Ends(piece) == {piece.from, piece.to}
NoGarbageAfterStart ==
  \A b \in Boards : \A k \in 1 .. Len(path[b]) :
    (\E j \in 1 .. k : given[b][j].isStart) =>
      \A p \in Ends(path[b][k]) : p # Garbage /\ \A q \in PlainPoints : p # Midpoint(Garbage, q)

\* Only a board that was refused a slot makes draw: throw: a granted rid is
\* good for all its strokes.
OnlyRefusedThrows == crashed => \E b \in Boards : contextRid[b] = Refused
=============================================================================
