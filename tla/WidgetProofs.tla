------------------------------ MODULE WidgetProofs ------------------------------
(***************************************************************************)
(* Proofs about what TLC checks of the widgets: the place of a popup, for  *)
(* all windows, and the scenes of MCWidgets, for any number of moves, from *)
(* what ScreenProofs proves of every instance of their modules.            *)
(***************************************************************************)
EXTENDS MCWidgets, SequenceTheorems, TLAPS

-----------------------------------------------------------------------------
(* Placement *)

(* What an inner segment can get from fitSegmentInsideSegment.             *)
LEMMA FitType ==
  ASSUME NEW winSize \in Int, NEW segSize \in Int, NEW offset \in Int, NEW desired \in Int
  PROVE  Fit(winSize, segSize, offset, desired) \in Int
BY DEF Fit, Smaller, Larger

(* A segment that is not longer than the other comes to lie inside.        *)
LEMMA FitInside ==
  ASSUME NEW winSize \in Int, NEW segSize \in Int, NEW offset \in Int, NEW desired \in Int,
         segSize <= winSize
  PROVE  /\ offset <= Fit(winSize, segSize, offset, desired)
         /\ Fit(winSize, segSize, offset, desired) + segSize <= offset + winSize
<1> DEFINE start == desired - segSize \div 2
<1>1. start \in Int
  OBVIOUS
<1>2. Fit(winSize, segSize, offset, desired) =
        Smaller(Larger(offset, start), offset + winSize - segSize)
  BY DEF Fit
<1>3. QED
  BY <1>1, <1>2 DEF Smaller, Larger

(* Every form of the option gives four numbers.                            *)
LEMMA ToleranceType ==
  ASSUME NEW n \in 0..4, NEW ar \in [1..n -> Margins \cup {None}]
  PROVE  Tolerance(ar) \in [{"t", "r", "b", "l"} -> Int]
<1>1. DOMAIN Default = {"t", "r", "b", "l"} /\ Default \in [{"t", "r", "b", "l"} -> Int]
  BY DEF Default
<1>2. \A i \in 1..n, e \in DOMAIN Default : Parsed(ar[i], e) \in Int
  BY <1>1, PlacementAssumption DEF Parsed
<1>3. Len(ar) = n
  <2>1. ar \in Seq(Margins \cup {None})
    OBVIOUS
  <2>2. QED
    BY <2>1
<1>4. CASE n = 1
  BY <1>1, <1>2, <1>3, <1>4 DEF Tolerance
<1>5. CASE n = 2
  BY <1>1, <1>2, <1>3, <1>5 DEF Tolerance
<1>6. CASE n = 4
  BY <1>1, <1>2, <1>3, <1>6 DEF Tolerance, Edges
<1>7. CASE n \notin {1, 2, 4}
  BY <1>1, <1>3, <1>7 DEF Tolerance
<1>8. QED
  BY <1>4, <1>5, <1>6, <1>7

(* All that is measured are numbers.                                       *)
LEMMA Numbers ==
  ASSUME TypeOK
  PROVE  /\ tolerance.t \in Int /\ tolerance.r \in Int
         /\ tolerance.b \in Int /\ tolerance.l \in Int
         /\ winCoords.x \in Nat /\ winCoords.y \in Nat
         /\ winCoords.cx \in Nat /\ winCoords.cy \in Nat
         /\ menuSize.cx \in Nat /\ menuSize.cy \in Nat /\ docHeight \in Nat
BY PlacementAssumption DEF TypeOK, Coordinates

(* The wish is always two numbers.                                         *)
LEMMA DesiredType ==
  ASSUME TypeOK, NEW o \in Points
  PROVE  /\ DesiredCoords(o).x \in Int
         /\ DesiredCoords(o).y \in Int
<1>1. winCoords.x \in Nat /\ winCoords.y \in Nat /\ winCoords.cx \in Nat /\ winCoords.cy \in Nat
  BY Numbers
<1>2. Middle.x \in Int /\ Middle.y \in Int
  BY <1>1 DEF Middle
<1>3. (o.x \in Offsets \/ o.x = None) /\ (o.y \in Offsets \/ o.y = None)
  BY DEF Points
<1>4. (o.x \in Int \/ o.x = None) /\ (o.y \in Int \/ o.y = None)
  <2>1. Offsets \subseteq Int
    BY PlacementAssumption
  <2>2. QED
    BY <1>3, <2>1
<1>5. QED
  BY <1>2, <1>4 DEF DesiredCoords

(* The bottom comes into the document, and the top does not leave it.      *)
LEMMA InDocumentBounds ==
  ASSUME NEW y \in Int, menuSize.cy \in Nat, docHeight \in Nat
  PROVE  /\ InDocument(Visible(y)) \in Nat
         /\ menuSize.cy <= docHeight => InDocument(Visible(y)) + menuSize.cy <= docHeight
         /\ (0 <= y /\ y + menuSize.cy <= docHeight) => InDocument(Visible(y)) = y
BY DEF InDocument, Visible, Smaller, Larger

-----------------------------------------------------------------------------
(* Tolerances, wishes and offsets are numbers, whatever was configured and *)
(* asked for.                                                              *)
THEOREM TypeCorrect == Spec => []TypeOK
<1>1. Init => TypeOK
  <2>1. Default \in [{"t", "r", "b", "l"} -> Int]
    BY DEF Default
  <2>2. [left |-> 0, top |-> 0] \in [left : Int, top : Int]
    OBVIOUS
  <2>3. Init => tolerance \in [{"t", "r", "b", "l"} -> Int]
    BY <2>1 DEF Init
  <2>4. QED
    BY <2>2, <2>3 DEF Init, TypeOK
<1>2. TypeOK /\ [Next]_vars => TypeOK'
  <2> SUFFICES ASSUME TypeOK, [Next]_vars PROVE TypeOK'
    OBVIOUS
  <2>1. CASE SetTolerance
    <3>1. tolerance' \in [{"t", "r", "b", "l"} -> Int]
      BY <2>1, ToleranceType DEF SetTolerance
    <3>2. QED
      BY <2>1, <3>1 DEF SetTolerance, TypeOK
  <2>2. CASE Reposition
    <3>1. PICK o \in Points : ret' = PlacementCoords(DesiredCoords(o))
      BY <2>2 DEF Reposition
    <3>2. DesiredCoords(o).x \in Int /\ DesiredCoords(o).y \in Int
      BY DesiredType
    <3>3. /\ Rectangle.x \in Int /\ Rectangle.y \in Int
          /\ Rectangle.cx \in Int /\ Rectangle.cy \in Int
      BY Numbers DEF Rectangle
    <3> menuSize.cx \in Int /\ menuSize.cy \in Int
      BY Numbers
    <3>4. Fit(Rectangle.cx, menuSize.cx, Rectangle.x, DesiredCoords(o).x) \in Int
      BY <3>2, <3>3, FitType
    <3>5. Fit(Rectangle.cy, menuSize.cy, Rectangle.y, DesiredCoords(o).y) \in Int
      BY <3>2, <3>3, FitType
    <3>6. InDocument(Visible(Fit(Rectangle.cy, menuSize.cy, Rectangle.y, DesiredCoords(o).y)))
            \in Int
      BY <3>5, InDocumentBounds, Numbers
    <3>7. ret' \in [left : Int, top : Int]
      BY <3>1, <3>4, <3>6 DEF PlacementCoords
    <3>8. QED
      BY <2>2, <3>7 DEF Reposition, TypeOK
  <2>3. CASE UNCHANGED vars
    BY <2>3 DEF vars, TypeOK
  <2>4. QED
    BY <2>1, <2>2, <2>3 DEF Next
<1>3. QED
  BY <1>1, <1>2, PTL DEF Spec

Fits == KeepsTolerance /\ TopIsVisible /\ StaysInDocument

(* One placement keeps the tolerances, the top and the document.           *)
LEMMA RepositionFits == ASSUME TypeOK, Reposition PROVE Fits'
<1>1. PICK o \in Points : ret' = PlacementCoords(DesiredCoords(o))
  BY DEF Reposition
<1> DEFINE x == Fit(Rectangle.cx, menuSize.cx, Rectangle.x, DesiredCoords(o).x)
           y == Fit(Rectangle.cy, menuSize.cy, Rectangle.y, DesiredCoords(o).y)
<1>2. DesiredCoords(o).x \in Int /\ DesiredCoords(o).y \in Int
  BY DesiredType
<1>3. /\ Rectangle.x = tolerance.l /\ Rectangle.y = winCoords.y + tolerance.t
      /\ Rectangle.cx = winCoords.cx - tolerance.l - tolerance.r
      /\ Rectangle.cy = winCoords.cy - tolerance.t - tolerance.b
  BY DEF Rectangle
<1>4. /\ Rectangle.x \in Int /\ Rectangle.y \in Int
      /\ Rectangle.cx \in Int /\ Rectangle.cy \in Int
  BY <1>3, Numbers
<1> menuSize.cx \in Int /\ menuSize.cy \in Int
  BY Numbers
<1>5. x \in Int /\ y \in Int
  BY <1>2, <1>4, FitType
<1>6. ret'.left = x /\ ret'.top = InDocument(Visible(y))
  BY <1>1 DEF PlacementCoords
<1>7. UNCHANGED <<tolerance, winCoords, menuSize, docHeight>>
  BY DEF Reposition
<1>8. menuSize.cx <= Rectangle.cx =>
        Rectangle.x <= x /\ x + menuSize.cx <= Rectangle.x + Rectangle.cx
  BY <1>2, <1>4, FitInside
<1>9. menuSize.cy <= Rectangle.cy =>
        Rectangle.y <= y /\ y + menuSize.cy <= Rectangle.y + Rectangle.cy
  BY <1>2, <1>4, FitInside
<1> HIDE DEF x, y
<1>10. /\ InDocument(Visible(y)) \in Nat
       /\ menuSize.cy <= docHeight => InDocument(Visible(y)) + menuSize.cy <= docHeight
       /\ (0 <= y /\ y + menuSize.cy <= docHeight) => InDocument(Visible(y)) = y
  BY <1>5, InDocumentBounds, Numbers
<1>11. (menuSize.cx <= winCoords.cx - tolerance.l - tolerance.r) =>
         /\ tolerance.l <= ret'.left
         /\ ret'.left + menuSize.cx <= winCoords.cx - tolerance.r
  BY <1>3, <1>5, <1>6, <1>8, Numbers
<1>12. (/\ menuSize.cy <= winCoords.cy - tolerance.t - tolerance.b
        /\ 0 <= tolerance.t + winCoords.y /\ 0 <= tolerance.b
        /\ winCoords.y + winCoords.cy <= docHeight) =>
         /\ winCoords.y + tolerance.t <= ret'.top
         /\ ret'.top + menuSize.cy <= winCoords.y + winCoords.cy - tolerance.b
  BY <1>3, <1>5, <1>6, <1>9, <1>10, Numbers
<1>13. KeepsTolerance'
  BY <1>7, <1>11, <1>12 DEF KeepsTolerance
<1>14. TopIsVisible'
  BY <1>6, <1>10 DEF TopIsVisible
<1>15. StaysInDocument'
  BY <1>6, <1>7, <1>10 DEF StaysInDocument
<1>16. QED
  BY <1>13, <1>14, <1>15 DEF Fits

LEMMA FitsAlways == Spec => []Fits
<1>1. Init => Fits
  BY DEF Init, Fits, KeepsTolerance, TopIsVisible, StaysInDocument
<1>2. TypeOK /\ Fits /\ [Next]_vars => Fits'
  <2> SUFFICES ASSUME TypeOK, Fits, [Next]_vars PROVE Fits'
    OBVIOUS
  <2>1. CASE SetTolerance
    BY <2>1 DEF SetTolerance, Fits, KeepsTolerance, TopIsVisible, StaysInDocument
  <2>2. CASE Reposition
    BY <2>2, RepositionFits
  <2>3. CASE UNCHANGED vars
    BY <2>3 DEF vars, Fits, KeepsTolerance, TopIsVisible, StaysInDocument
  <2>4. QED
    BY <2>1, <2>2, <2>3 DEF Next
<1>3. QED
  BY <1>1, <1>2, TypeCorrect, PTL DEF Spec

(* A popup that is small enough keeps the tolerances.                      *)
THEOREM ToleranceKept == Spec => []KeepsTolerance
<1>1. Fits => KeepsTolerance
  BY DEF Fits
<1>2. QED
  BY <1>1, FitsAlways, PTL

(* The top of a popup can always be seen.                                  *)
THEOREM TopVisible == Spec => []TopIsVisible
<1>1. Fits => TopIsVisible
  BY DEF Fits
<1>2. QED
  BY <1>1, FitsAlways, PTL

(* A popup makes no document longer.                                       *)
THEOREM DocumentKept == Spec => []StaysInDocument
<1>1. Fits => StaysInDocument
  BY DEF Fits
<1>2. QED
  BY <1>1, FitsAlways, PTL

(* The three together.                                                     *)
THEOREM PlacementKept == Spec => []PopupIsPlaced
BY ToleranceKept, TopVisible, DocumentKept, PTL DEF PopupIsPlaced

-----------------------------------------------------------------------------
(* The scenes *)

(* What was proved for all constants, with those of each scene.            *)
SB == INSTANCE ScreenProofs WITH
  Throttle <- 2, Native <- FALSE, MaxMoves <- Limit["set back"], MaxBack <- 2,
  Windows <- {"upright", "sideways", "zoomed"}, PopupMoves <- Limit["popup"],
  Elements <- {"link", "field"}, MaxTaps <- Limit["fingers"],
  MaxBindings <- Bindings["fingers"], Overlaps <- TRUE, Shifts <- TRUE, Holds <- TRUE,
  Panels <- {"left", "right", "menu"}, PanelsMove <- TRUE, Patience <- "comes",
  Hides <- "calm", PanelMoves <- Limit["animate"],
  shownPanels <- shown,
  IsToggle <- FALSE, Low <- 2, High <- 11, Step <- 4, Width <- 20,
  Points <- {-9, -5, 6, 13, 25}, Values <- {0, 5, 11, 15}, Initial <- 2,
  Clicks <- FALSE, Programs <- "calm", SliderMoves <- Limit["field"],
  controlValue <- value
AN == INSTANCE ScreenProofs WITH
  Throttle <- 1, Native <- TRUE, MaxMoves <- Limit["angles"], MaxBack <- 0,
  Windows <- {}, PopupMoves <- 0,
  Elements <- {"link", "field"}, MaxTaps <- Limit["taps"],
  MaxBindings <- Bindings["taps"], Overlaps <- FALSE, Shifts <- FALSE, Holds <- FALSE,
  Panels <- {"left", "right", "menu"}, PanelsMove <- FALSE, Patience <- "comes",
  Hides <- "calm", PanelMoves <- Limit["plain"],
  shownPanels <- shown,
  IsToggle <- FALSE, Low <- 0, High <- 90, Step <- 1, Width <- 30,
  Points <- {0, 7, 11, 29, 36}, Values <- {0, 45, 90}, Initial <- 10,
  Clicks <- FALSE, Programs <- "calm", SliderMoves <- Limit["fine"],
  controlValue <- value
SI == INSTANCE ScreenProofs WITH
  Throttle <- 3, Native <- FALSE, MaxMoves <- Limit["simulated"], MaxBack <- 0,
  Windows <- {}, PopupMoves <- 0,
  Elements <- {}, MaxTaps <- 0, MaxBindings <- 0,
  Overlaps <- FALSE, Shifts <- FALSE, Holds <- FALSE,
  Panels <- {"left", "right", "menu"}, PanelsMove <- TRUE, Patience <- "rests",
  Hides <- "any", PanelMoves <- Limit["rests"],
  shownPanels <- shown,
  IsToggle <- TRUE, Low <- 0, High <- 1, Step <- 1, Width <- 20,
  Points <- {-9, 1, 9, 12, 18}, Values <- {0, 1}, Initial <- 0,
  Clicks <- FALSE, Programs <- "calm", SliderMoves <- Limit["switch"],
  controlValue <- value

LEMMA SetBackIsProved ==
  /\ SetBack!ResizeAssumption <=> SB!R!ResizeAssumption
  /\ SetBack!Init <=> SB!R!Init
  /\ SetBack!Next <=> SB!R!Next
  /\ UNCHANGED SetBack!vars <=> UNCHANGED SB!R!vars
  /\ SetBack!TimersAreKept <=> SB!R!TimersAreKept
BY DEF SetBack!ResizeAssumption, SB!R!ResizeAssumption, SetBack!Init, SB!R!Init, SetBack!Next,
   SB!R!Next, SetBack!vars, SB!R!vars, SetBack!TimersAreKept, SB!R!TimersAreKept,
   SetBack!Orientations, SB!R!Orientations, SetBack!Angles, SB!R!Angles, SetBack!Shapes,
   SB!R!Shapes, SetBack!Actual, SB!R!Actual, SetBack!InitialMap, SB!R!InitialMap,
   SetBack!get_orientation, SB!R!get_orientation, SetBack!Turn, SB!R!Turn,
   SetBack!ResizeEvent, SB!R!ResizeEvent, SetBack!OrientationEvent, SB!R!OrientationEvent,
   SetBack!HeldCallRuns, SB!R!HeldCallRuns, SetBack!Bind, SB!R!Bind, SetBack!Tick,
   SB!R!Tick, SetBack!ClockSetBack, SB!R!ClockSetBack, SetBack!device, SB!R!device,
   SetBack!orientation, SB!R!orientation, SetBack!calls, SB!R!calls, SetBack!bounds,
   SB!R!bounds, SetBack!TypeOK, SB!R!TypeOK, SetBack!PromiseIsKept, SB!R!PromiseIsKept,
   SetBack!OrientationIsTrue, SB!R!OrientationIsTrue, SetBack!ActualAt, SB!R!ActualAt,
   SetBack!Upright, SB!R!Upright, SetBack!Moved, SB!R!Moved, SetBack!Handler, SB!R!Handler,
   SetBack!Setup, SB!R!Setup, SetBack!Free, SB!R!Free, SetBack!Heard, SB!R!Heard,
   SetBack!Held, SB!R!Held, SetBack!Hears, SB!R!Hears

LEMMA AnglesIsProved ==
  /\ Angles!ResizeAssumption <=> AN!R!ResizeAssumption
  /\ Angles!Init <=> AN!R!Init
  /\ Angles!Next <=> AN!R!Next
  /\ UNCHANGED Angles!vars <=> UNCHANGED AN!R!vars
  /\ Angles!TimersAreKept <=> AN!R!TimersAreKept
BY DEF Angles!ResizeAssumption, AN!R!ResizeAssumption, Angles!Init, AN!R!Init, Angles!Next,
   AN!R!Next, Angles!vars, AN!R!vars, Angles!TimersAreKept, AN!R!TimersAreKept,
   Angles!Orientations, AN!R!Orientations, Angles!Angles, AN!R!Angles, Angles!Shapes,
   AN!R!Shapes, Angles!Actual, AN!R!Actual, Angles!InitialMap, AN!R!InitialMap,
   Angles!get_orientation, AN!R!get_orientation, Angles!Turn, AN!R!Turn, Angles!ResizeEvent,
   AN!R!ResizeEvent, Angles!OrientationEvent, AN!R!OrientationEvent, Angles!HeldCallRuns,
   AN!R!HeldCallRuns, Angles!Bind, AN!R!Bind, Angles!Tick, AN!R!Tick, Angles!ClockSetBack,
   AN!R!ClockSetBack, Angles!device, AN!R!device, Angles!orientation, AN!R!orientation,
   Angles!calls, AN!R!calls, Angles!bounds, AN!R!bounds, Angles!TypeOK, AN!R!TypeOK,
   Angles!PromiseIsKept, AN!R!PromiseIsKept, Angles!OrientationIsTrue,
   AN!R!OrientationIsTrue, Angles!ActualAt, AN!R!ActualAt, Angles!Upright, AN!R!Upright,
   Angles!Moved, AN!R!Moved, Angles!Handler, AN!R!Handler, Angles!Setup, AN!R!Setup,
   Angles!Free, AN!R!Free, Angles!Heard, AN!R!Heard, Angles!Held, AN!R!Held, Angles!Hears,
   AN!R!Hears

LEMMA SimulatedIsProved ==
  /\ Simulated!ResizeAssumption <=> SI!R!ResizeAssumption
  /\ Simulated!Init <=> SI!R!Init
  /\ Simulated!Next <=> SI!R!Next
  /\ UNCHANGED Simulated!vars <=> UNCHANGED SI!R!vars
  /\ Simulated!TimersAreKept <=> SI!R!TimersAreKept
  /\ Simulated!NotTooOften <=> SI!R!NotTooOften
BY DEF Simulated!ResizeAssumption, SI!R!ResizeAssumption, Simulated!Init, SI!R!Init,
   Simulated!Next, SI!R!Next, Simulated!vars, SI!R!vars, Simulated!TimersAreKept,
   SI!R!TimersAreKept, Simulated!NotTooOften, SI!R!NotTooOften, Simulated!Orientations,
   SI!R!Orientations, Simulated!Angles, SI!R!Angles, Simulated!Shapes, SI!R!Shapes,
   Simulated!Actual, SI!R!Actual, Simulated!InitialMap, SI!R!InitialMap,
   Simulated!get_orientation, SI!R!get_orientation, Simulated!Turn, SI!R!Turn,
   Simulated!ResizeEvent, SI!R!ResizeEvent, Simulated!OrientationEvent,
   SI!R!OrientationEvent, Simulated!HeldCallRuns, SI!R!HeldCallRuns, Simulated!Bind,
   SI!R!Bind, Simulated!Tick, SI!R!Tick, Simulated!ClockSetBack, SI!R!ClockSetBack,
   Simulated!device, SI!R!device, Simulated!orientation, SI!R!orientation, Simulated!calls,
   SI!R!calls, Simulated!bounds, SI!R!bounds, Simulated!TypeOK, SI!R!TypeOK,
   Simulated!PromiseIsKept, SI!R!PromiseIsKept, Simulated!OrientationIsTrue,
   SI!R!OrientationIsTrue, Simulated!ActualAt, SI!R!ActualAt, Simulated!Upright,
   SI!R!Upright, Simulated!Moved, SI!R!Moved, Simulated!Handler, SI!R!Handler,
   Simulated!Setup, SI!R!Setup, Simulated!Free, SI!R!Free, Simulated!Heard, SI!R!Heard,
   Simulated!Held, SI!R!Held, Simulated!Hears, SI!R!Hears

LEMMA ResizedIsProved ==
  /\ Resized!PopupResizeAssumption <=> SB!PR!PopupResizeAssumption
  /\ Resized!Init <=> SB!PR!Init
  /\ Resized!Next <=> SB!PR!Next
  /\ UNCHANGED Resized!vars <=> UNCHANGED SB!PR!vars
  /\ Resized!TimersAreKept <=> SB!PR!TimersAreKept
BY DEF Resized!PopupResizeAssumption, SB!PR!PopupResizeAssumption, Resized!Init, SB!PR!Init,
   Resized!Next, SB!PR!Next, Resized!vars, SB!PR!vars, Resized!TimersAreKept,
   SB!PR!TimersAreKept, Resized!Events, SB!PR!Events, Resized!ResizeTimeout,
   SB!PR!ResizeTimeout, Resized!IgnoreTimeout, SB!PR!IgnoreTimeout, Resized!Open,
   SB!PR!Open, Resized!Close, SB!PR!Close, Resized!AnimationEnds, SB!PR!AnimationEnds,
   Resized!FocusIn, SB!PR!FocusIn, Resized!Resize, SB!PR!Resize, Resized!look, SB!PR!look,
   Resized!screen, SB!PR!screen, Resized!settling, SB!PR!settling, Resized!TypeOK,
   SB!PR!TypeOK, Resized!OneTimer, SB!PR!OneTimer, Resized!HiddenHasTimer,
   SB!PR!HiddenHasTimer, Resized!ResizeEvent, SB!PR!ResizeEvent, Resized!OrientationEvent,
   SB!PR!OrientationEvent, Resized!IsOpen, SB!PR!IsOpen, Resized!Settled, SB!PR!Settled,
   Resized!Afterwards, SB!PR!Afterwards, Resized!Shows, SB!PR!Shows, Resized!Moved,
   SB!PR!Moved, Resized!Expect, SB!PR!Expect, Resized!Hides, SB!PR!Hides, Resized!Starts,
   SB!PR!Starts, Resized!News, SB!PR!News, Resized!Cleared, SB!PR!Cleared

LEMMA AnimateIsProved ==
  /\ Animate!PanelAssumption <=> SB!PA!PanelAssumption
  /\ Animate!Init <=> SB!PA!Init
  /\ Animate!Next <=> SB!PA!Next
  /\ UNCHANGED Animate!vars <=> UNCHANGED SB!PA!vars
  /\ Animate!PanelsFit <=> SB!PA!PanelsFit
BY DEF Animate!PanelAssumption, SB!PA!PanelAssumption, Animate!Init, SB!PA!Init, Animate!Next,
   SB!PA!Next, Animate!vars, SB!PA!vars, Animate!PanelsFit, SB!PA!PanelsFit, Animate!Toggle,
   SB!PA!Toggle, Animate!PageHide, SB!PA!PageHide, Animate!PageShow, SB!PA!PageShow,
   Animate!Timeout, SB!PA!Timeout, Animate!TransitionEnds, SB!PA!TransitionEnds,
   Animate!panels, SB!PA!panels, Animate!pages, SB!PA!pages, Animate!TypeOK, SB!PA!TypeOK,
   Animate!OnePanel, SB!PA!OnePanel, Animate!ShownIsOpen, SB!PA!ShownIsOpen,
   Animate!PageKnows, SB!PA!PageKnows, Animate!ClassGoes, SB!PA!ClassGoes, Animate!Moved,
   SB!PA!Moved, Animate!Open, SB!PA!Open, Animate!Close, SB!PA!Close, Animate!Settled,
   SB!PA!Settled, Animate!Among, SB!PA!Among, Animate!Cleans, SB!PA!Cleans, Animate!Soon,
   SB!PA!Soon, Animate!KeepsClass, SB!PA!KeepsClass, Animate!Complete, SB!PA!Complete,
   Animate!Timeouts, SB!PA!Timeouts, Animate!Waits, SB!PA!Waits, Animate!Others,
   SB!PA!Others, Animate!Bind, SB!PA!Bind, Animate!TakenOff, SB!PA!TakenOff,
   Animate!Removed, SB!PA!Removed,
   Animate!IsFiniteSet, SB!PA!IsFiniteSet, Animate!SetToSeq, SB!PA!SetToSeq, Animate!Cardinality, SB!PA!Cardinality, Animate!IsInjective, SB!PA!IsInjective, Animate!Range, SB!PA!Range, Animate!Contains, SB!PA!Contains, Animate!Last, SB!PA!Last

LEMMA PlainIsProved ==
  /\ Plain!PanelAssumption <=> AN!PA!PanelAssumption
  /\ Plain!Init <=> AN!PA!Init
  /\ Plain!Next <=> AN!PA!Next
  /\ UNCHANGED Plain!vars <=> UNCHANGED AN!PA!vars
  /\ Plain!PanelsFit <=> AN!PA!PanelsFit
BY DEF Plain!PanelAssumption, AN!PA!PanelAssumption, Plain!Init, AN!PA!Init, Plain!Next,
   AN!PA!Next, Plain!vars, AN!PA!vars, Plain!PanelsFit, AN!PA!PanelsFit, Plain!Toggle,
   AN!PA!Toggle, Plain!PageHide, AN!PA!PageHide, Plain!PageShow, AN!PA!PageShow,
   Plain!Timeout, AN!PA!Timeout, Plain!TransitionEnds, AN!PA!TransitionEnds, Plain!panels,
   AN!PA!panels, Plain!pages, AN!PA!pages, Plain!TypeOK, AN!PA!TypeOK, Plain!OnePanel,
   AN!PA!OnePanel, Plain!ShownIsOpen, AN!PA!ShownIsOpen, Plain!PageKnows, AN!PA!PageKnows,
   Plain!ClassGoes, AN!PA!ClassGoes, Plain!Moved, AN!PA!Moved, Plain!Open, AN!PA!Open,
   Plain!Close, AN!PA!Close, Plain!Settled, AN!PA!Settled, Plain!Among, AN!PA!Among,
   Plain!Cleans, AN!PA!Cleans, Plain!Soon, AN!PA!Soon, Plain!KeepsClass, AN!PA!KeepsClass,
   Plain!Complete, AN!PA!Complete, Plain!Timeouts, AN!PA!Timeouts, Plain!Waits, AN!PA!Waits,
   Plain!Others, AN!PA!Others, Plain!Bind, AN!PA!Bind, Plain!TakenOff, AN!PA!TakenOff,
   Plain!Removed, AN!PA!Removed,
   Plain!IsFiniteSet, AN!PA!IsFiniteSet, Plain!SetToSeq, AN!PA!SetToSeq, Plain!Cardinality, AN!PA!Cardinality, Plain!IsInjective, AN!PA!IsInjective, Plain!Range, AN!PA!Range, Plain!Contains, AN!PA!Contains, Plain!Last, AN!PA!Last

LEMMA RestsIsProved ==
  /\ Rests!PanelAssumption <=> SI!PA!PanelAssumption
  /\ Rests!Init <=> SI!PA!Init
  /\ Rests!Next <=> SI!PA!Next
  /\ UNCHANGED Rests!vars <=> UNCHANGED SI!PA!vars
  /\ Rests!PanelsFit <=> SI!PA!PanelsFit
BY DEF Rests!PanelAssumption, SI!PA!PanelAssumption, Rests!Init, SI!PA!Init, Rests!Next,
   SI!PA!Next, Rests!vars, SI!PA!vars, Rests!PanelsFit, SI!PA!PanelsFit, Rests!Toggle,
   SI!PA!Toggle, Rests!PageHide, SI!PA!PageHide, Rests!PageShow, SI!PA!PageShow,
   Rests!Timeout, SI!PA!Timeout, Rests!TransitionEnds, SI!PA!TransitionEnds, Rests!panels,
   SI!PA!panels, Rests!pages, SI!PA!pages, Rests!TypeOK, SI!PA!TypeOK, Rests!OnePanel,
   SI!PA!OnePanel, Rests!ShownIsOpen, SI!PA!ShownIsOpen, Rests!PageKnows, SI!PA!PageKnows,
   Rests!ClassGoes, SI!PA!ClassGoes, Rests!Moved, SI!PA!Moved, Rests!Open, SI!PA!Open,
   Rests!Close, SI!PA!Close, Rests!Settled, SI!PA!Settled, Rests!Among, SI!PA!Among,
   Rests!Cleans, SI!PA!Cleans, Rests!Soon, SI!PA!Soon, Rests!KeepsClass, SI!PA!KeepsClass,
   Rests!Complete, SI!PA!Complete, Rests!Timeouts, SI!PA!Timeouts, Rests!Waits, SI!PA!Waits,
   Rests!Others, SI!PA!Others, Rests!Bind, SI!PA!Bind, Rests!TakenOff, SI!PA!TakenOff,
   Rests!Removed, SI!PA!Removed,
   Rests!IsFiniteSet, SI!PA!IsFiniteSet, Rests!SetToSeq, SI!PA!SetToSeq, Rests!Cardinality, SI!PA!Cardinality, Rests!IsInjective, SI!PA!IsInjective, Rests!Range, SI!PA!Range, Rests!Contains, SI!PA!Contains, Rests!Last, SI!PA!Last

LEMMA FingersIsProved ==
  /\ Fingers!TouchAssumption <=> SB!TH!TouchAssumption
  /\ Fingers!Init <=> SB!TH!Init
  /\ Fingers!Next <=> SB!TH!Next
  /\ UNCHANGED Fingers!vars <=> UNCHANGED SB!TH!vars
  /\ Fingers!TapsAreOnce <=> SB!TH!TapsAreOnce
BY DEF Fingers!TouchAssumption, SB!TH!TouchAssumption, Fingers!Init, SB!TH!Init, Fingers!Next,
   SB!TH!Next, Fingers!vars, SB!TH!vars, Fingers!TapsAreOnce, SB!TH!TapsAreOnce,
   Fingers!Taps, SB!TH!Taps, Fingers!Setup, SB!TH!Setup, Fingers!Teardown, SB!TH!Teardown,
   Fingers!TouchStart, SB!TH!TouchStart, Fingers!TouchMove, SB!TH!TouchMove, Fingers!Scroll,
   SB!TH!Scroll, Fingers!TouchEnd, SB!TH!TouchEnd, Fingers!TouchCancel, SB!TH!TouchCancel,
   Fingers!Mouse, SB!TH!Mouse, Fingers!ResetTimer, SB!TH!ResetTimer, Fingers!handlers,
   SB!TH!handlers, Fingers!ids, SB!TH!ids, Fingers!blocks, SB!TH!blocks, Fingers!outcome,
   SB!TH!outcome, Fingers!TypeOK, SB!TH!TypeOK, Fingers!PreventedIsNotClicked,
   SB!TH!PreventedIsNotClicked, Fingers!OneVclick, SB!TH!OneVclick, Fingers!OneTap,
   SB!TH!OneTap, Fingers!CountDown, SB!TH!CountDown, Fingers!Listening, SB!TH!Listening,
   Fingers!VmouseDown, SB!TH!VmouseDown, Fingers!VmouseCancel, SB!TH!VmouseCancel,
   Fingers!HandleTouchEnd, SB!TH!HandleTouchEnd, Fingers!MouseEvents, SB!TH!MouseEvents,
   Fingers!MouseCounts, SB!TH!MouseCounts, Fingers!IsBlocked, SB!TH!IsBlocked,
   Fingers!Vclick, SB!TH!Vclick, Fingers!NoVclick, SB!TH!NoVclick, Fingers!ClearedList,
   SB!TH!ClearedList, Fingers!Blocked, SB!TH!Blocked, Fingers!TapsOf, SB!TH!TapsOf,
   Fingers!VclickDone, SB!TH!VclickDone,
   Fingers!Cardinality, SB!TH!Cardinality, Fingers!IsFiniteSet, SB!TH!IsFiniteSet

LEMMA TapsIsProved ==
  /\ Taps!TouchAssumption <=> AN!TH!TouchAssumption
  /\ Taps!Init <=> AN!TH!Init
  /\ Taps!Next <=> AN!TH!Next
  /\ UNCHANGED Taps!vars <=> UNCHANGED AN!TH!vars
  /\ Taps!TapsAreOnce <=> AN!TH!TapsAreOnce
BY DEF Taps!TouchAssumption, AN!TH!TouchAssumption, Taps!Init, AN!TH!Init, Taps!Next,
   AN!TH!Next, Taps!vars, AN!TH!vars, Taps!TapsAreOnce, AN!TH!TapsAreOnce, Taps!Taps,
   AN!TH!Taps, Taps!Setup, AN!TH!Setup, Taps!Teardown, AN!TH!Teardown, Taps!TouchStart,
   AN!TH!TouchStart, Taps!TouchMove, AN!TH!TouchMove, Taps!Scroll, AN!TH!Scroll,
   Taps!TouchEnd, AN!TH!TouchEnd, Taps!TouchCancel, AN!TH!TouchCancel, Taps!Mouse,
   AN!TH!Mouse, Taps!ResetTimer, AN!TH!ResetTimer, Taps!handlers, AN!TH!handlers, Taps!ids,
   AN!TH!ids, Taps!blocks, AN!TH!blocks, Taps!outcome, AN!TH!outcome, Taps!TypeOK,
   AN!TH!TypeOK, Taps!PreventedIsNotClicked, AN!TH!PreventedIsNotClicked, Taps!OneVclick,
   AN!TH!OneVclick, Taps!OneTap, AN!TH!OneTap, Taps!CountDown, AN!TH!CountDown,
   Taps!Listening, AN!TH!Listening, Taps!VmouseDown, AN!TH!VmouseDown, Taps!VmouseCancel,
   AN!TH!VmouseCancel, Taps!HandleTouchEnd, AN!TH!HandleTouchEnd, Taps!MouseEvents,
   AN!TH!MouseEvents, Taps!MouseCounts, AN!TH!MouseCounts, Taps!IsBlocked, AN!TH!IsBlocked,
   Taps!Vclick, AN!TH!Vclick, Taps!NoVclick, AN!TH!NoVclick, Taps!ClearedList,
   AN!TH!ClearedList, Taps!Blocked, AN!TH!Blocked, Taps!TapsOf, AN!TH!TapsOf,
   Taps!VclickDone, AN!TH!VclickDone,
   Taps!Cardinality, AN!TH!Cardinality, Taps!IsFiniteSet, AN!TH!IsFiniteSet

LEMMA FieldIsProved ==
  /\ Field!SliderAssumption <=> SB!SL!SliderAssumption
  /\ Field!Init <=> SB!SL!Init
  /\ Field!Next <=> SB!SL!Next
  /\ UNCHANGED Field!vars <=> UNCHANGED SB!SL!vars
  /\ Field!SliderFits <=> SB!SL!SliderFits
<1>1. \A place : Field!Align(place) = SB!SL!Align(place)
  BY DEF Field!Align, SB!SL!Align, Field!Modulo, SB!SL!Modulo, Field!Absolute, SB!SL!Absolute,
     Field!Scale, SB!SL!Scale
<1>2. /\ \A place : Field!NewVal(place) = SB!SL!NewVal(place)
      /\ \A place, snaps : Field!Shown(place, snaps) = SB!SL!Shown(place, snaps)
      /\ \A x : Field!AtFinger(x) = SB!SL!AtFinger(x)
      /\ \A v : Field!Place(v) = SB!SL!Place(v)
      /\ Field!Track = SB!SL!Track
      /\ \A low, high, n : Field!Within(low, high, n) = SB!SL!Within(low, high, n)
  BY <1>1 DEF Field!NewVal, SB!SL!NewVal, Field!Shown, SB!SL!Shown, Field!AtFinger, SB!SL!AtFinger,
     Field!Place, SB!SL!Place, Field!Within, SB!SL!Within, Field!Coarse, SB!SL!Coarse,
     Field!Scale, SB!SL!Scale, Field!Track, SB!SL!Track
<1>3. \A from, place, snaps, isfromControl, moved :
        Field!Bring(from, place, snaps, isfromControl, moved)
          <=> SB!SL!Bring(from, place, snaps, isfromControl, moved)
  <2> TAKE from, place, snaps, isfromControl, moved
  <2>1. /\ Field!NewVal(Field!Place(Field!NewVal(place)))
             = SB!SL!NewVal(SB!SL!Place(SB!SL!NewVal(place)))
        /\ Field!Shown(Field!Place(Field!NewVal(place)), FALSE)
             = SB!SL!Shown(SB!SL!Place(SB!SL!NewVal(place)), FALSE)
        /\ Field!NewVal(place) = SB!SL!NewVal(place)
        /\ Field!Shown(place, snaps) = SB!SL!Shown(place, snaps)
    BY <1>2
  <2> QED
    BY <2>1 DEF Field!Bring, SB!SL!Bring, Field!Tells, SB!SL!Tells, Field!Heeds, SB!SL!Heeds
<1>4. /\ \A place, snaps, moved :
           Field!Refresh(place, snaps, moved) <=> SB!SL!Refresh(place, snaps, moved)
      /\ \A x, moved : Field!RefreshFromFinger(x, moved) <=> SB!SL!RefreshFromFinger(x, moved)
  BY <1>2, <1>3 DEF Field!Refresh, SB!SL!Refresh, Field!RefreshFromFinger, SB!SL!RefreshFromFinger,
     Field!Tells, SB!SL!Tells, Field!Told, SB!SL!Told, Field!Tolerance, SB!SL!Tolerance
<1>5. /\ Field!SliderVMouseDown <=> SB!SL!SliderVMouseDown
      /\ Field!PreventDocumentDrag <=> SB!SL!PreventDocumentDrag
      /\ Field!SliderVMouseUp <=> SB!SL!SliderVMouseUp
      /\ Field!HandleKeydown <=> SB!SL!HandleKeydown
  BY <1>2, <1>4 DEF Field!SliderVMouseDown, SB!SL!SliderVMouseDown, Field!PreventDocumentDrag,
     SB!SL!PreventDocumentDrag, Field!SliderVMouseUp, SB!SL!SliderVMouseUp,
     Field!HandleKeydown, SB!SL!HandleKeydown, Field!BeforeStart, SB!SL!BeforeStart,
     Field!Ends, SB!SL!Ends, Field!Released, SB!SL!Released, Field!Settles, SB!SL!Settles,
     Field!control, SB!SL!control, Field!drag, SB!SL!drag, Field!user, SB!SL!user,
     Field!Moved, SB!SL!Moved
<1>6. /\ Field!ControlBlur <=> SB!SL!ControlBlur
      /\ Field!ControlVMouseUp <=> SB!SL!ControlVMouseUp
      /\ Field!Write <=> SB!SL!Write
  <2>1. \A v : Field!Commit(v) = SB!SL!Commit(v)
    BY <1>2 DEF Field!Commit, SB!SL!Commit
  <2>2. Field!ControlBlur <=> SB!SL!ControlBlur
    BY <1>2, <1>3, <2>1 DEF Field!ControlBlur, SB!SL!ControlBlur, Field!Heeds, SB!SL!Heeds, Field!control,
     SB!SL!control, Field!drag, SB!SL!drag, Field!user, SB!SL!user, Field!Moved,
     SB!SL!Moved
  <2>3. Field!ControlVMouseUp <=> SB!SL!ControlVMouseUp
    BY <1>2, <1>3 DEF Field!ControlVMouseUp, SB!SL!ControlVMouseUp, Field!Told, SB!SL!Told, Field!control,
     SB!SL!control, Field!drag, SB!SL!drag, Field!user, SB!SL!user, Field!Moved,
     SB!SL!Moved
  <2>4. Field!Write <=> SB!SL!Write
    BY <1>2, <1>3 DEF Field!Write, SB!SL!Write, Field!Told, SB!SL!Told, Field!Tells, SB!SL!Tells,
     Field!MayWrite, SB!SL!MayWrite, Field!Heeds, SB!SL!Heeds, Field!control, SB!SL!control,
     Field!drag, SB!SL!drag, Field!user, SB!SL!user, Field!Moved, SB!SL!Moved
  <2> QED
    BY <2>2, <2>3, <2>4
<1>7. Field!Next <=> SB!SL!Next
  BY <1>2, <1>5, <1>6 DEF Field!Next, SB!SL!Next, Field!TouchElsewhere, SB!SL!TouchElsewhere, Field!TouchLost,
     SB!SL!TouchLost, Field!ControlKeyup, SB!SL!ControlKeyup, Field!Disable, SB!SL!Disable,
     Field!FormReset, SB!SL!FormReset, Field!Reset, SB!SL!Reset, Field!MayWrite,
     SB!SL!MayWrite, Field!Follows, SB!SL!Follows, Field!control, SB!SL!control, Field!drag,
     SB!SL!drag, Field!user, SB!SL!user, Field!Moved, SB!SL!Moved
<1>8. /\ Field!SliderAssumption <=> SB!SL!SliderAssumption
      /\ Field!Init <=> SB!SL!Init
      /\ UNCHANGED Field!vars <=> UNCHANGED SB!SL!vars
      /\ Field!SliderFits <=> SB!SL!SliderFits
  <2>1. \A v : Field!Commit(v) = SB!SL!Commit(v)
    BY <1>2 DEF Field!Commit, SB!SL!Commit
  <2>2. Field!ListenersKnow <=> SB!SL!ListenersKnow
    BY <2>1 DEF Field!ListenersKnow, SB!SL!ListenersKnow, Field!Knows, SB!SL!Knows, Field!AtRest,
     SB!SL!AtRest
  <2> QED
    BY <2>2 DEF Field!SliderAssumption, SB!SL!SliderAssumption, Field!Init, SB!SL!Init, Field!vars,
     SB!SL!vars, Field!control, SB!SL!control, Field!drag, SB!SL!drag, Field!user,
     SB!SL!user, Field!SliderFits, SB!SL!SliderFits, Field!TypeOK, SB!SL!TypeOK,
     Field!Numbers, SB!SL!Numbers, Field!AtRest, SB!SL!AtRest, Field!OnlyUnderFinger,
     SB!SL!OnlyUnderFinger, Field!ValueIsLegal, SB!SL!ValueIsLegal, Field!HandleShowsValue,
     SB!SL!HandleShowsValue, Field!Place, SB!SL!Place, Field!Scale, SB!SL!Scale,
     Field!Track, SB!SL!Track, Field!Within, SB!SL!Within, Field!Absolute, SB!SL!Absolute
<1> QED
  BY <1>7, <1>8

LEMMA FineIsProved ==
  /\ Fine!SliderAssumption <=> AN!SL!SliderAssumption
  /\ Fine!Init <=> AN!SL!Init
  /\ Fine!Next <=> AN!SL!Next
  /\ UNCHANGED Fine!vars <=> UNCHANGED AN!SL!vars
  /\ Fine!SliderFits <=> AN!SL!SliderFits
<1>1. \A place : Fine!Align(place) = AN!SL!Align(place)
  BY DEF Fine!Align, AN!SL!Align, Fine!Modulo, AN!SL!Modulo, Fine!Absolute, AN!SL!Absolute,
     Fine!Scale, AN!SL!Scale
<1>2. /\ \A place : Fine!NewVal(place) = AN!SL!NewVal(place)
      /\ \A place, snaps : Fine!Shown(place, snaps) = AN!SL!Shown(place, snaps)
      /\ \A x : Fine!AtFinger(x) = AN!SL!AtFinger(x)
      /\ \A v : Fine!Place(v) = AN!SL!Place(v)
      /\ Fine!Track = AN!SL!Track
      /\ \A low, high, n : Fine!Within(low, high, n) = AN!SL!Within(low, high, n)
  BY <1>1 DEF Fine!NewVal, AN!SL!NewVal, Fine!Shown, AN!SL!Shown, Fine!AtFinger, AN!SL!AtFinger,
     Fine!Place, AN!SL!Place, Fine!Within, AN!SL!Within, Fine!Coarse, AN!SL!Coarse,
     Fine!Scale, AN!SL!Scale, Fine!Track, AN!SL!Track
<1>3. \A from, place, snaps, isfromControl, moved :
        Fine!Bring(from, place, snaps, isfromControl, moved)
          <=> AN!SL!Bring(from, place, snaps, isfromControl, moved)
  <2> TAKE from, place, snaps, isfromControl, moved
  <2>1. /\ Fine!NewVal(Fine!Place(Fine!NewVal(place)))
             = AN!SL!NewVal(AN!SL!Place(AN!SL!NewVal(place)))
        /\ Fine!Shown(Fine!Place(Fine!NewVal(place)), FALSE)
             = AN!SL!Shown(AN!SL!Place(AN!SL!NewVal(place)), FALSE)
        /\ Fine!NewVal(place) = AN!SL!NewVal(place)
        /\ Fine!Shown(place, snaps) = AN!SL!Shown(place, snaps)
    BY <1>2
  <2> QED
    BY <2>1 DEF Fine!Bring, AN!SL!Bring, Fine!Tells, AN!SL!Tells, Fine!Heeds, AN!SL!Heeds
<1>4. /\ \A place, snaps, moved :
           Fine!Refresh(place, snaps, moved) <=> AN!SL!Refresh(place, snaps, moved)
      /\ \A x, moved : Fine!RefreshFromFinger(x, moved) <=> AN!SL!RefreshFromFinger(x, moved)
  BY <1>2, <1>3 DEF Fine!Refresh, AN!SL!Refresh, Fine!RefreshFromFinger, AN!SL!RefreshFromFinger,
     Fine!Tells, AN!SL!Tells, Fine!Told, AN!SL!Told, Fine!Tolerance, AN!SL!Tolerance
<1>5. /\ Fine!SliderVMouseDown <=> AN!SL!SliderVMouseDown
      /\ Fine!PreventDocumentDrag <=> AN!SL!PreventDocumentDrag
      /\ Fine!SliderVMouseUp <=> AN!SL!SliderVMouseUp
      /\ Fine!HandleKeydown <=> AN!SL!HandleKeydown
  BY <1>2, <1>4 DEF Fine!SliderVMouseDown, AN!SL!SliderVMouseDown, Fine!PreventDocumentDrag,
     AN!SL!PreventDocumentDrag, Fine!SliderVMouseUp, AN!SL!SliderVMouseUp,
     Fine!HandleKeydown, AN!SL!HandleKeydown, Fine!BeforeStart, AN!SL!BeforeStart,
     Fine!Ends, AN!SL!Ends, Fine!Released, AN!SL!Released, Fine!Settles, AN!SL!Settles,
     Fine!control, AN!SL!control, Fine!drag, AN!SL!drag, Fine!user, AN!SL!user, Fine!Moved,
     AN!SL!Moved
<1>6. /\ Fine!ControlBlur <=> AN!SL!ControlBlur
      /\ Fine!ControlVMouseUp <=> AN!SL!ControlVMouseUp
      /\ Fine!Write <=> AN!SL!Write
  <2>1. \A v : Fine!Commit(v) = AN!SL!Commit(v)
    BY <1>2 DEF Fine!Commit, AN!SL!Commit
  <2>2. Fine!ControlBlur <=> AN!SL!ControlBlur
    BY <1>2, <1>3, <2>1 DEF Fine!ControlBlur, AN!SL!ControlBlur, Fine!Heeds, AN!SL!Heeds, Fine!control,
     AN!SL!control, Fine!drag, AN!SL!drag, Fine!user, AN!SL!user, Fine!Moved, AN!SL!Moved
  <2>3. Fine!ControlVMouseUp <=> AN!SL!ControlVMouseUp
    BY <1>2, <1>3 DEF Fine!ControlVMouseUp, AN!SL!ControlVMouseUp, Fine!Told, AN!SL!Told, Fine!control,
     AN!SL!control, Fine!drag, AN!SL!drag, Fine!user, AN!SL!user, Fine!Moved, AN!SL!Moved
  <2>4. Fine!Write <=> AN!SL!Write
    BY <1>2, <1>3 DEF Fine!Write, AN!SL!Write, Fine!Told, AN!SL!Told, Fine!Tells, AN!SL!Tells, Fine!MayWrite,
     AN!SL!MayWrite, Fine!Heeds, AN!SL!Heeds, Fine!control, AN!SL!control, Fine!drag,
     AN!SL!drag, Fine!user, AN!SL!user, Fine!Moved, AN!SL!Moved
  <2> QED
    BY <2>2, <2>3, <2>4
<1>7. Fine!Next <=> AN!SL!Next
  BY <1>2, <1>5, <1>6 DEF Fine!Next, AN!SL!Next, Fine!TouchElsewhere, AN!SL!TouchElsewhere, Fine!TouchLost,
     AN!SL!TouchLost, Fine!ControlKeyup, AN!SL!ControlKeyup, Fine!Disable, AN!SL!Disable,
     Fine!FormReset, AN!SL!FormReset, Fine!Reset, AN!SL!Reset, Fine!MayWrite,
     AN!SL!MayWrite, Fine!Follows, AN!SL!Follows, Fine!control, AN!SL!control, Fine!drag,
     AN!SL!drag, Fine!user, AN!SL!user, Fine!Moved, AN!SL!Moved
<1>8. /\ Fine!SliderAssumption <=> AN!SL!SliderAssumption
      /\ Fine!Init <=> AN!SL!Init
      /\ UNCHANGED Fine!vars <=> UNCHANGED AN!SL!vars
      /\ Fine!SliderFits <=> AN!SL!SliderFits
  <2>1. \A v : Fine!Commit(v) = AN!SL!Commit(v)
    BY <1>2 DEF Fine!Commit, AN!SL!Commit
  <2>2. Fine!ListenersKnow <=> AN!SL!ListenersKnow
    BY <2>1 DEF Fine!ListenersKnow, AN!SL!ListenersKnow, Fine!Knows, AN!SL!Knows, Fine!AtRest,
     AN!SL!AtRest
  <2> QED
    BY <2>2 DEF Fine!SliderAssumption, AN!SL!SliderAssumption, Fine!Init, AN!SL!Init, Fine!vars,
     AN!SL!vars, Fine!control, AN!SL!control, Fine!drag, AN!SL!drag, Fine!user, AN!SL!user,
     Fine!SliderFits, AN!SL!SliderFits, Fine!TypeOK, AN!SL!TypeOK, Fine!Numbers,
     AN!SL!Numbers, Fine!AtRest, AN!SL!AtRest, Fine!OnlyUnderFinger, AN!SL!OnlyUnderFinger,
     Fine!ValueIsLegal, AN!SL!ValueIsLegal, Fine!HandleShowsValue, AN!SL!HandleShowsValue,
     Fine!Place, AN!SL!Place, Fine!Scale, AN!SL!Scale, Fine!Track, AN!SL!Track, Fine!Within,
     AN!SL!Within, Fine!Absolute, AN!SL!Absolute
<1> QED
  BY <1>7, <1>8

LEMMA SwitchIsProved ==
  /\ Switch!SliderAssumption <=> SI!SL!SliderAssumption
  /\ Switch!Init <=> SI!SL!Init
  /\ Switch!Next <=> SI!SL!Next
  /\ UNCHANGED Switch!vars <=> UNCHANGED SI!SL!vars
  /\ Switch!SliderFits <=> SI!SL!SliderFits
  /\ Switch!ClickFlips <=> SI!SL!ClickFlips
  /\ Switch!DragKeeps <=> SI!SL!DragKeeps
  /\ Switch!HandleFollows <=> SI!SL!HandleFollows
<1>1. \A place : Switch!Align(place) = SI!SL!Align(place)
  BY DEF Switch!Align, SI!SL!Align, Switch!Modulo, SI!SL!Modulo, Switch!Absolute,
     SI!SL!Absolute, Switch!Scale, SI!SL!Scale
<1>2. /\ \A place : Switch!NewVal(place) = SI!SL!NewVal(place)
      /\ \A place, snaps : Switch!Shown(place, snaps) = SI!SL!Shown(place, snaps)
      /\ \A x : Switch!AtFinger(x) = SI!SL!AtFinger(x)
      /\ \A v : Switch!Place(v) = SI!SL!Place(v)
      /\ Switch!Track = SI!SL!Track
      /\ \A low, high, n : Switch!Within(low, high, n) = SI!SL!Within(low, high, n)
  BY <1>1 DEF Switch!NewVal, SI!SL!NewVal, Switch!Shown, SI!SL!Shown, Switch!AtFinger,
     SI!SL!AtFinger, Switch!Place, SI!SL!Place, Switch!Within, SI!SL!Within, Switch!Coarse,
     SI!SL!Coarse, Switch!Scale, SI!SL!Scale, Switch!Track, SI!SL!Track
<1>3. \A from, place, snaps, isfromControl, moved :
        Switch!Bring(from, place, snaps, isfromControl, moved)
          <=> SI!SL!Bring(from, place, snaps, isfromControl, moved)
  <2> TAKE from, place, snaps, isfromControl, moved
  <2>1. /\ Switch!NewVal(Switch!Place(Switch!NewVal(place)))
             = SI!SL!NewVal(SI!SL!Place(SI!SL!NewVal(place)))
        /\ Switch!Shown(Switch!Place(Switch!NewVal(place)), FALSE)
             = SI!SL!Shown(SI!SL!Place(SI!SL!NewVal(place)), FALSE)
        /\ Switch!NewVal(place) = SI!SL!NewVal(place)
        /\ Switch!Shown(place, snaps) = SI!SL!Shown(place, snaps)
    BY <1>2
  <2> QED
    BY <2>1 DEF Switch!Bring, SI!SL!Bring, Switch!Tells, SI!SL!Tells, Switch!Heeds, SI!SL!Heeds
<1>4. /\ \A place, snaps, moved :
           Switch!Refresh(place, snaps, moved) <=> SI!SL!Refresh(place, snaps, moved)
      /\ \A x, moved : Switch!RefreshFromFinger(x, moved) <=> SI!SL!RefreshFromFinger(x, moved)
  BY <1>2, <1>3 DEF Switch!Refresh, SI!SL!Refresh, Switch!RefreshFromFinger, SI!SL!RefreshFromFinger,
     Switch!Tells, SI!SL!Tells, Switch!Told, SI!SL!Told, Switch!Tolerance, SI!SL!Tolerance
<1>5. /\ Switch!SliderVMouseDown <=> SI!SL!SliderVMouseDown
      /\ Switch!PreventDocumentDrag <=> SI!SL!PreventDocumentDrag
      /\ Switch!SliderVMouseUp <=> SI!SL!SliderVMouseUp
      /\ Switch!HandleKeydown <=> SI!SL!HandleKeydown
  BY <1>2, <1>4 DEF Switch!SliderVMouseDown, SI!SL!SliderVMouseDown, Switch!PreventDocumentDrag,
     SI!SL!PreventDocumentDrag, Switch!SliderVMouseUp, SI!SL!SliderVMouseUp,
     Switch!HandleKeydown, SI!SL!HandleKeydown, Switch!BeforeStart, SI!SL!BeforeStart,
     Switch!Ends, SI!SL!Ends, Switch!Released, SI!SL!Released, Switch!Settles,
     SI!SL!Settles, Switch!control, SI!SL!control, Switch!drag, SI!SL!drag, Switch!user,
     SI!SL!user, Switch!Moved, SI!SL!Moved
<1>6. /\ Switch!ControlBlur <=> SI!SL!ControlBlur
      /\ Switch!ControlVMouseUp <=> SI!SL!ControlVMouseUp
      /\ Switch!Write <=> SI!SL!Write
  <2>1. \A v : Switch!Commit(v) = SI!SL!Commit(v)
    BY <1>2 DEF Switch!Commit, SI!SL!Commit
  <2>2. Switch!ControlBlur <=> SI!SL!ControlBlur
    BY <1>2, <1>3, <2>1 DEF Switch!ControlBlur, SI!SL!ControlBlur, Switch!Heeds, SI!SL!Heeds, Switch!control,
     SI!SL!control, Switch!drag, SI!SL!drag, Switch!user, SI!SL!user, Switch!Moved,
     SI!SL!Moved
  <2>3. Switch!ControlVMouseUp <=> SI!SL!ControlVMouseUp
    BY <1>2, <1>3 DEF Switch!ControlVMouseUp, SI!SL!ControlVMouseUp, Switch!Told, SI!SL!Told, Switch!control,
     SI!SL!control, Switch!drag, SI!SL!drag, Switch!user, SI!SL!user, Switch!Moved,
     SI!SL!Moved
  <2>4. Switch!Write <=> SI!SL!Write
    BY <1>2, <1>3 DEF Switch!Write, SI!SL!Write, Switch!Told, SI!SL!Told, Switch!Tells, SI!SL!Tells,
     Switch!MayWrite, SI!SL!MayWrite, Switch!Heeds, SI!SL!Heeds, Switch!control,
     SI!SL!control, Switch!drag, SI!SL!drag, Switch!user, SI!SL!user, Switch!Moved,
     SI!SL!Moved
  <2> QED
    BY <2>2, <2>3, <2>4
<1>7. Switch!Next <=> SI!SL!Next
  BY <1>2, <1>5, <1>6 DEF Switch!Next, SI!SL!Next, Switch!TouchElsewhere, SI!SL!TouchElsewhere, Switch!TouchLost,
     SI!SL!TouchLost, Switch!ControlKeyup, SI!SL!ControlKeyup, Switch!Disable,
     SI!SL!Disable, Switch!FormReset, SI!SL!FormReset, Switch!Reset, SI!SL!Reset,
     Switch!MayWrite, SI!SL!MayWrite, Switch!Follows, SI!SL!Follows, Switch!control,
     SI!SL!control, Switch!drag, SI!SL!drag, Switch!user, SI!SL!user, Switch!Moved,
     SI!SL!Moved
<1>8. /\ Switch!SliderAssumption <=> SI!SL!SliderAssumption
      /\ Switch!Init <=> SI!SL!Init
      /\ UNCHANGED Switch!vars <=> UNCHANGED SI!SL!vars
      /\ Switch!SliderFits <=> SI!SL!SliderFits
  <2>1. \A v : Switch!Commit(v) = SI!SL!Commit(v)
    BY <1>2 DEF Switch!Commit, SI!SL!Commit
  <2>2. Switch!ListenersKnow <=> SI!SL!ListenersKnow
    BY <2>1 DEF Switch!ListenersKnow, SI!SL!ListenersKnow, Switch!Knows, SI!SL!Knows, Switch!AtRest,
     SI!SL!AtRest
  <2> QED
    BY <2>2 DEF Switch!SliderAssumption, SI!SL!SliderAssumption, Switch!Init, SI!SL!Init, Switch!vars,
     SI!SL!vars, Switch!control, SI!SL!control, Switch!drag, SI!SL!drag, Switch!user,
     SI!SL!user, Switch!SliderFits, SI!SL!SliderFits, Switch!TypeOK, SI!SL!TypeOK,
     Switch!Numbers, SI!SL!Numbers, Switch!AtRest, SI!SL!AtRest, Switch!OnlyUnderFinger,
     SI!SL!OnlyUnderFinger, Switch!ValueIsLegal, SI!SL!ValueIsLegal,
     Switch!HandleShowsValue, SI!SL!HandleShowsValue, Switch!Place, SI!SL!Place,
     Switch!Scale, SI!SL!Scale, Switch!Track, SI!SL!Track, Switch!Within, SI!SL!Within,
     Switch!Absolute, SI!SL!Absolute
<1>9. /\ Switch!ClickFlips <=> SI!SL!ClickFlips
      /\ Switch!DragKeeps <=> SI!SL!DragKeeps
      /\ Switch!HandleFollows <=> SI!SL!HandleFollows
  BY <1>2 DEF Switch!ClickFlips, SI!SL!ClickFlips, Switch!DragKeeps, SI!SL!DragKeeps,
     Switch!HandleFollows, SI!SL!HandleFollows, Switch!Lifted, SI!SL!Lifted
<1> QED
  BY <1>7, <1>8, <1>9

(* A behaviour stays in its scene, which starts and goes on as its module. *)
LEMMA ScenesStart ==
  ASSUME AllInit
  PROVE  /\ scene = "set back" => SetBack!Init
         /\ scene = "angles" => Angles!Init
         /\ scene = "simulated" => Simulated!Init
         /\ scene = "popup" => Resized!Init
         /\ scene = "animate" => Animate!Init
         /\ scene = "plain" => Plain!Init
         /\ scene = "rests" => Rests!Init
         /\ scene = "fingers" => Fingers!Init
         /\ scene = "taps" => Taps!Init
         /\ scene = "field" => Field!Init
         /\ scene = "fine" => Fine!Init
         /\ scene = "switch" => Switch!Init
BY DEF AllInit, Animate!Init, Plain!Init, Rests!Init

LEMMA ScenesStay == [AllNext]_all => scene' = scene
BY DEF AllNext, InPlacement, InTouch, InResize, InPopup, InPanel, InSlider, all

LEMMA ScenesGoOn ==
  ASSUME [AllNext]_all
  PROVE  /\ scene = "set back" => [SetBack!Next]_(SetBack!vars)
         /\ scene = "angles" => [Angles!Next]_(Angles!vars)
         /\ scene = "simulated" => [Simulated!Next]_(Simulated!vars)
         /\ scene = "popup" => [Resized!Next]_(Resized!vars)
         /\ scene = "animate" => [Animate!Next]_(Animate!vars)
         /\ scene = "plain" => [Plain!Next]_(Plain!vars)
         /\ scene = "rests" => [Rests!Next]_(Rests!vars)
         /\ scene = "fingers" => [Fingers!Next]_(Fingers!vars)
         /\ scene = "taps" => [Taps!Next]_(Taps!vars)
         /\ scene = "field" => [Field!Next]_(Field!vars)
         /\ scene = "fine" => [Fine!Next]_(Fine!vars)
         /\ scene = "switch" => [Switch!Next]_(Switch!vars)
<1>1. CASE UNCHANGED all
  <2>1. UNCHANGED <<touch, resize, popup, panel, slider, moves>>
    BY <1>1 DEF all
  <2>2. UNCHANGED SetBack!vars /\ UNCHANGED Angles!vars /\ UNCHANGED Simulated!vars
    BY <2>1 DEF resize, SetBack!vars, Angles!vars, Simulated!vars, SetBack!device, Angles!device,
       Simulated!device, SetBack!orientation, Angles!orientation, Simulated!orientation,
       SetBack!calls, Angles!calls, Simulated!calls, SetBack!bounds, Angles!bounds,
       Simulated!bounds
  <2>3. UNCHANGED Resized!vars
    BY <2>1 DEF popup, Resized!vars, Resized!look, Resized!screen, Resized!settling
  <2>4. UNCHANGED Animate!vars /\ UNCHANGED Plain!vars /\ UNCHANGED Rests!vars
    BY <2>1 DEF panel, Animate!vars, Plain!vars, Rests!vars, Animate!panels, Plain!panels, Rests!panels,
       Animate!pages, Plain!pages, Rests!pages
  <2>5. UNCHANGED Fingers!vars /\ UNCHANGED Taps!vars
    BY <2>1 DEF touch, Fingers!vars, Taps!vars, Fingers!handlers, Taps!handlers, Fingers!ids, Taps!ids,
       Fingers!blocks, Taps!blocks, Fingers!outcome, Taps!outcome
  <2>6. UNCHANGED Field!vars /\ UNCHANGED Fine!vars /\ UNCHANGED Switch!vars
    BY <2>1 DEF slider, Field!vars, Fine!vars, Switch!vars, Field!control, Fine!control, Switch!control,
       Field!drag, Fine!drag, Switch!drag, Field!user, Fine!user, Switch!user
  <2> QED
    BY <2>2, <2>3, <2>4, <2>5, <2>6
<1>2. CASE AllNext
  BY <1>2 DEF AllNext, InPlacement, InTouch, InResize, InPopup, InPanel, InSlider
<1> QED
  BY <1>1, <1>2

LEMMA ScenesKeep ==
  AllSpec => [](/\ (scene = "set back" => SetBack!TimersAreKept)
               /\ (scene = "angles" => Angles!TimersAreKept)
               /\ (scene = "popup" => Resized!TimersAreKept)
               /\ (scene = "animate" => Animate!PanelsFit)
               /\ (scene = "plain" => Plain!PanelsFit)
               /\ (scene = "rests" => Rests!PanelsFit)
               /\ (scene = "fingers" => Fingers!TapsAreOnce)
               /\ (scene = "taps" => Taps!TapsAreOnce)
               /\ (scene = "field" => Field!SliderFits)
               /\ (scene = "fine" => Fine!SliderFits)
               /\ (scene = "switch" => Switch!SliderFits))
<1>1. AllInit => /\ (scene = "set back" => SB!R!Init)
                 /\ (scene = "angles" => AN!R!Init)
                 /\ (scene = "popup" => SB!PR!Init)
                 /\ (scene = "animate" => SB!PA!Init)
                 /\ (scene = "plain" => AN!PA!Init)
                 /\ (scene = "rests" => SI!PA!Init)
                 /\ (scene = "fingers" => SB!TH!Init)
                 /\ (scene = "taps" => AN!TH!Init)
                 /\ (scene = "field" => SB!SL!Init)
                 /\ (scene = "fine" => AN!SL!Init)
                 /\ (scene = "switch" => SI!SL!Init)
  BY ScenesStart, SetBackIsProved, AnglesIsProved, ResizedIsProved, AnimateIsProved, PlainIsProved,
     RestsIsProved, FingersIsProved, TapsIsProved, FieldIsProved, FineIsProved,
     SwitchIsProved
<1>2. [AllNext]_all => /\ (scene = "set back" <=> (scene = "set back")')
                       /\ (scene = "angles" <=> (scene = "angles")')
                       /\ (scene = "popup" <=> (scene = "popup")')
                       /\ (scene = "animate" <=> (scene = "animate")')
                       /\ (scene = "plain" <=> (scene = "plain")')
                       /\ (scene = "rests" <=> (scene = "rests")')
                       /\ (scene = "fingers" <=> (scene = "fingers")')
                       /\ (scene = "taps" <=> (scene = "taps")')
                       /\ (scene = "field" <=> (scene = "field")')
                       /\ (scene = "fine" <=> (scene = "fine")')
                       /\ (scene = "switch" <=> (scene = "switch")')
  BY ScenesStay
<1>3. [AllNext]_all => /\ (scene = "set back" => [SB!R!Next]_(SB!R!vars))
                       /\ (scene = "angles" => [AN!R!Next]_(AN!R!vars))
                       /\ (scene = "popup" => [SB!PR!Next]_(SB!PR!vars))
                       /\ (scene = "animate" => [SB!PA!Next]_(SB!PA!vars))
                       /\ (scene = "plain" => [AN!PA!Next]_(AN!PA!vars))
                       /\ (scene = "rests" => [SI!PA!Next]_(SI!PA!vars))
                       /\ (scene = "fingers" => [SB!TH!Next]_(SB!TH!vars))
                       /\ (scene = "taps" => [AN!TH!Next]_(AN!TH!vars))
                       /\ (scene = "field" => [SB!SL!Next]_(SB!SL!vars))
                       /\ (scene = "fine" => [AN!SL!Next]_(AN!SL!vars))
                       /\ (scene = "switch" => [SI!SL!Next]_(SI!SL!vars))
  BY ScenesGoOn, SetBackIsProved, AnglesIsProved, ResizedIsProved, AnimateIsProved, PlainIsProved,
     RestsIsProved, FingersIsProved, TapsIsProved, FieldIsProved, FineIsProved,
     SwitchIsProved
<1>4. SB!R!Spec => []SB!R!TimersAreKept
  BY SB!ResizesAreKept, SetBackIsProved, ScenesAssumption
<1>5. AN!R!Spec => []AN!R!TimersAreKept
  BY AN!ResizesAreKept, AnglesIsProved, ScenesAssumption
<1>6. SB!PR!Spec => []SB!PR!TimersAreKept
  BY SB!PopupTimersAreKept, ResizedIsProved, ScenesAssumption
<1>7. SB!PA!Spec => []SB!PA!PanelsFit
  BY SB!PanelsAreOne, AnimateIsProved, ScenesAssumption
<1>8. AN!PA!Spec => []AN!PA!PanelsFit
  BY AN!PanelsAreOne, PlainIsProved, ScenesAssumption
<1>9. SI!PA!Spec => []SI!PA!PanelsFit
  BY SI!PanelsAreOne, RestsIsProved, ScenesAssumption
<1>10. SB!TH!Spec => []SB!TH!TapsAreOnce
  BY SB!TapsAreTold, FingersIsProved, ScenesAssumption
<1>11. AN!TH!Spec => []AN!TH!TapsAreOnce
  BY AN!TapsAreTold, TapsIsProved, ScenesAssumption
<1>12. SB!SL!Spec => []SB!SL!SliderFits
  BY SB!SlidersAreTrue, FieldIsProved, ScenesAssumption
<1>13. AN!SL!Spec => []AN!SL!SliderFits
  BY AN!SlidersAreTrue, FineIsProved, ScenesAssumption
<1>14. SI!SL!Spec => []SI!SL!SliderFits
  BY SI!SlidersAreTrue, SwitchIsProved, ScenesAssumption
<1>15. /\ (SB!R!TimersAreKept <=> SetBack!TimersAreKept)
       /\ (AN!R!TimersAreKept <=> Angles!TimersAreKept)
       /\ (SB!PR!TimersAreKept <=> Resized!TimersAreKept)
       /\ (SB!PA!PanelsFit <=> Animate!PanelsFit)
       /\ (AN!PA!PanelsFit <=> Plain!PanelsFit)
       /\ (SI!PA!PanelsFit <=> Rests!PanelsFit)
       /\ (SB!TH!TapsAreOnce <=> Fingers!TapsAreOnce)
       /\ (AN!TH!TapsAreOnce <=> Taps!TapsAreOnce)
       /\ (SB!SL!SliderFits <=> Field!SliderFits)
       /\ (AN!SL!SliderFits <=> Fine!SliderFits)
       /\ (SI!SL!SliderFits <=> Switch!SliderFits)
  BY SetBackIsProved, AnglesIsProved, ResizedIsProved, AnimateIsProved, PlainIsProved,
     RestsIsProved, FingersIsProved, TapsIsProved, FieldIsProved, FineIsProved,
     SwitchIsProved
<1> QED
  BY <1>1, <1>2, <1>3, <1>4, <1>5, <1>6, <1>7, <1>8, <1>9, <1>10, <1>11, <1>12, <1>13, <1>14, <1>15,
     PTL DEF AllSpec, SB!R!Spec, AN!R!Spec, SB!PR!Spec, SB!PA!Spec, AN!PA!Spec, SI!PA!Spec, SB!TH!Spec,
     AN!TH!Spec, SB!SL!Spec, AN!SL!Spec, SI!SL!Spec

(* A resize that was held back and a popup that was hidden have a timer    *)
(* that runs for them, whatever else comes in between, and the angle is    *)
(* read as the device is held.                                             *)
THEOREM TimersKept == AllSpec => []TimersAreKept
BY ScenesKeep, PTL DEF TimersAreKept

(* A tap that was prevented never comes as a click, and where touches do   *)
(* not overlap no tap makes two vclicks or taps.                           *)
THEOREM TapsOnce == AllSpec => []TapsAreOnce
BY ScenesKeep, PTL DEF TapsAreOnce

(* One panel is to be seen at most, and counts as open; with users who wait *)
(* the page knows whether a panel is there and keeps no class of one.      *)
THEOREM PanelsKept == AllSpec => []PanelsFit
BY ScenesKeep, PTL DEF PanelsFit

(* When users have finished, a control holds a value that is legal, its    *)
(* handle shows it, and who listens to "change" was told it or what it was *)
(* aligned from, but for refreshes of a switch and resets of a form, which *)
(* tell nobody; and only the finger on the handle drags it, as long as its *)
(* touch has an end.                                                       *)
THEOREM SlidersKept == AllSpec => []SlidersFit
BY ScenesKeep, PTL DEF SlidersFit

(* Two resizes that are told are throttle apart; a switch that was clicked *)
(* has changed, one that was dragged keeps what it showed, and its handle  *)
(* stays under the finger.                                                 *)
THEOREM StepsKept == AllSpec => StepsObey
<1> DEFINE Obeys == Switch!ClickFlips /\ Switch!DragKeeps /\ Switch!HandleFollows
           Told == SI!SL!ClickFlips /\ SI!SL!DragKeeps /\ SI!SL!HandleFollows
<1>1. AllInit => /\ (scene = "simulated" => SI!R!Init)
                 /\ (scene = "switch" => SI!SL!Init)
  BY ScenesStart, SimulatedIsProved, SwitchIsProved
<1>2. [AllNext]_all => /\ (scene = "simulated" <=> (scene = "simulated")')
                       /\ (scene = "switch" <=> (scene = "switch")')
  BY ScenesStay
<1>3. [AllNext]_all => /\ (scene = "simulated" => [SI!R!Next]_(SI!R!vars))
                       /\ (scene = "switch" => [SI!SL!Next]_(SI!SL!vars))
  BY ScenesGoOn, SimulatedIsProved, SwitchIsProved
<1>4. SI!R!Spec => [][SI!R!NotTooOften]_(SI!R!vars)
  BY SI!ResizesAreApart, SimulatedIsProved, ScenesAssumption
<1>5. SI!SL!Spec => [][Told]_(SI!SL!vars)
  BY SI!SwitchesObey, SwitchIsProved, ScenesAssumption
<1>6. [SI!R!NotTooOften]_(SI!R!vars) => Simulated!NotTooOften
  <2>1. UNCHANGED SI!R!vars => SI!R!NotTooOften
    BY DEF SI!R!vars, SI!R!calls, SI!R!NotTooOften
  <2> QED
    BY <2>1, SimulatedIsProved
<1>7. [Told]_(SI!SL!vars) => Obeys
  <2>1. UNCHANGED SI!SL!vars => Told
    BY DEF SI!SL!vars, SI!SL!control, SI!SL!drag, SI!SL!ClickFlips, SI!SL!DragKeeps,
       SI!SL!HandleFollows, SI!SL!Lifted
  <2> QED
    BY <2>1, SwitchIsProved
<1> QED
  BY <1>1, <1>2, <1>3, <1>4, <1>5, <1>6, <1>7, PTL DEF AllSpec, StepsObey, SI!R!Spec, SI!SL!Spec

=============================================================================
