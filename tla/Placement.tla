------------------------------- MODULE Placement -------------------------------
(***************************************************************************)
(* Where a popup is placed (jquery.mobile-1.3.2.js): the coordinates asked *)
(* for, the tolerances it keeps to the edges of the window, and the        *)
(* document it must not lengthen.  Lengths are counted in quarters of a    *)
(* pixel, so that halves of sums of widths are exact; a string that is no  *)
(* number is None.                                                         *)
(***************************************************************************)
EXTENDS Integers, Sequences

CONSTANTS
  None,
  Lengths,          (* of windows, popups and documents                    *)
  Offsets,          (* positions wished for, and scroll positions          *)
  Margins           (* tolerances                                          *)

ASSUME PlacementAssumption ==
  /\ Lengths \subseteq Nat /\ Offsets \subseteq Nat /\ Margins \subseteq Int
  /\ None \notin Int

VARIABLES
  tolerance, winCoords, menuSize, docHeight,
  ret,              (* the offset of the container                         *)
  placed            (* it was computed from what the rest is now           *)

vars == <<tolerance, winCoords, menuSize, docHeight, ret, placed>>

Larger(a, b) == IF a > b THEN a ELSE b
Smaller(a, b) == IF a < b THEN a ELSE b

(* _setTolerance: one number, top and side, or top, right, bottom, left; a *)
(* string that is no number leaves the default of its edge.                *)
Default == [t |-> 120, r |-> 60, b |-> 120, l |-> 60]

Parsed(number, edge) == IF number = None THEN Default[edge] ELSE number

Edges == [t |-> 1, r |-> 2, b |-> 3, l |-> 4]

Tolerance(ar) ==
  LET at == CASE Len(ar) = 1 -> [t |-> 1, r |-> 1, b |-> 1, l |-> 1]
              [] Len(ar) = 2 -> [t |-> 1, r |-> 2, b |-> 1, l |-> 2]
              [] Len(ar) = 4 -> Edges
  IN  IF Len(ar) \in {1, 2, 4} THEN [e \in DOMAIN Default |-> Parsed(ar[at[e]], e)]
      ELSE Default

(* fitSegmentInsideSegment.                                                *)
Fit(winSize, segSize, offset, desired) ==
  IF winSize < segSize THEN offset + (winSize - segSize) \div 2
  ELSE Smaller(Larger(offset, desired - segSize \div 2), offset + winSize - segSize)

(* "rectangle within which the popup must fit".                            *)
RectangleFaultyRight ==
  [x |-> tolerance.l, y |-> winCoords.y + tolerance.t,
   cx |-> winCoords.cx - tolerance.l, cy |-> winCoords.cy - tolerance.t - tolerance.b]
Rectangle ==
  [x |-> tolerance.l, y |-> winCoords.y + tolerance.t,
   cx |-> winCoords.cx - tolerance.l - tolerance.r,
   cy |-> winCoords.cy - tolerance.t - tolerance.b]

(* _placementCoords: the top is made visible, then the bottom is brought   *)
(* into the document.                                                      *)
Visible(y) == Larger(0, y)

InDocument(y) == y - Smaller(y, Larger(0, y + menuSize.cy - docHeight))

PlacementCoords(desired) ==
  [left |-> Fit(Rectangle.cx, menuSize.cx, Rectangle.x, desired.x),
   top |-> InDocument(Visible(Fit(Rectangle.cy, menuSize.cy, Rectangle.y, desired.y)))]

(* _desiredCoords: the middle of the window takes the place of coordinates *)
(* that are no numbers.                                                    *)
Middle == [x |-> winCoords.cx \div 2 + winCoords.x, y |-> winCoords.cy \div 2 + winCoords.y]

DesiredCoords(o) ==
  IF o.positionTo = "window" THEN Middle
  ELSE [x |-> IF o.x = None THEN Middle.x ELSE o.x, y |-> IF o.y = None THEN Middle.y ELSE o.y]

-----------------------------------------------------------------------------
Points == [x : Offsets \cup {None}, y : Offsets \cup {None},
           positionTo : {"origin", "window"}]
Coordinates == [x : Offsets, y : Offsets, cx : Lengths, cy : Lengths]

Init ==
  /\ tolerance = Default /\ winCoords \in Coordinates
  /\ menuSize \in [cx : Lengths, cy : Lengths] /\ docHeight \in Lengths
  /\ ret = [left |-> 0, top |-> 0] /\ placed = FALSE

(* The tolerance may change later too; the next placement then differs in  *)
(* nothing from a first one.                                               *)
SetTolerance ==
  /\ ~placed
  /\ \E n \in 0..4 : \E ar \in [1..n -> Margins \cup {None}] : tolerance' = Tolerance(ar)
  /\ UNCHANGED <<winCoords, menuSize, docHeight, ret, placed>>

(* reposition.                                                             *)
Reposition ==
  /\ \E o \in Points : ret' = PlacementCoords(DesiredCoords(o))
  /\ placed' = TRUE
  /\ UNCHANGED <<tolerance, winCoords, menuSize, docHeight>>

Next == SetTolerance \/ Reposition

Spec == Init /\ [][Next]_vars

-----------------------------------------------------------------------------
TypeOK ==
  /\ tolerance \in [{"t", "r", "b", "l"} -> Int] /\ winCoords \in Coordinates
  /\ menuSize \in [cx : Lengths, cy : Lengths] /\ docHeight \in Lengths
  /\ ret \in [left : Int, top : Int] /\ placed \in BOOLEAN

(* A popup that is small enough keeps the tolerances on both sides and     *)
(* above and below, wherever the link was, as long as the window is in the *)
(* document and was not scrolled to the side.                              *)
KeepsTolerance ==
  placed =>
    /\ (menuSize.cx <= winCoords.cx - tolerance.l - tolerance.r) =>
         /\ tolerance.l <= ret.left
         /\ ret.left + menuSize.cx <= winCoords.cx - tolerance.r
    /\ (/\ menuSize.cy <= winCoords.cy - tolerance.t - tolerance.b
        /\ 0 <= tolerance.t + winCoords.y /\ 0 <= tolerance.b
        /\ winCoords.y + winCoords.cy <= docHeight) =>
         /\ winCoords.y + tolerance.t <= ret.top
         /\ ret.top + menuSize.cy <= winCoords.y + winCoords.cy - tolerance.b

(* "Make sure the top of the menu is visible", also of one higher than the *)
(* window, and after its bottom was brought into the document.             *)
TopIsVisible == placed => ret.top >= 0

(* "If the height of the menu is smaller than the height of the document   *)
(* align the bottom with the bottom of the document".                      *)
StaysInDocument ==
  (placed /\ menuSize.cy <= docHeight) => ret.top + menuSize.cy <= docHeight

(* Where a popup is placed, whatever its size and the tolerance asked for. *)
PopupIsPlaced == KeepsTolerance /\ TopIsVisible /\ StaysInDocument

=============================================================================
