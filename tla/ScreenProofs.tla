------------------------------ MODULE ScreenProofs -----------------------------
(***************************************************************************)
(* Proofs about the parts of jQuery Mobile that follow the screen and the  *)
(* finger, for all instances: resizes and orientation, the popup in a      *)
(* window that is resized, touches, panels and sliders.  Each part is an   *)
(* instance of its module, and a name that several parts use is declared   *)
(* once: each theorem is about one part.                                   *)
(***************************************************************************)
EXTENDS Integers, Sequences, FiniteSets, SequenceTheorems, FiniteSetTheorems, TLAPS

(* What several parts have.                                                *)
CONSTANTS None, MaxMoves
VARIABLES moves

-----------------------------------------------------------------------------
(* Resizes and turns of the screen *)

CONSTANTS Throttle, Native, MaxBack
VARIABLES usual, angle, shape, portrait_map, resizes, turned, last_orientation, sinceCall,
          heldCall, waiting, rest, beat, back, boundOrientation, told

R == INSTANCE Resize WITH bound <- boundOrientation

(* The angles of portrait are those in which the device is upright; the    *)
(* window has the shape of the way it is held; the clock of the throttle   *)
(* was set back once at most, and never runs ahead of the pause.           *)
ResizeInv ==
  /\ R!TypeOK
  /\ portrait_map = {a \in R!Angles : R!ActualAt(a) = "portrait"}
  /\ shape \in R!Shapes(R!Actual)
  /\ waiting => heldCall >= 0
  /\ -back <= sinceCall /\ sinceCall <= rest

(* A device has two orientations.                                          *)
LEMMA OtherOrientation ==
  ASSUME usual \in R!Orientations
  PROVE  /\ \A a \in R!Angles : R!ActualAt(a) \in R!Orientations
         /\ \A a \in R!Angles : (R!ActualAt(a) = "portrait") = ((a \in R!Upright) = (usual = "portrait"))
BY DEF R!ActualAt, R!Orientations

LEMMA ResizeInit == R!ResizeAssumption /\ R!Init => ResizeInv
<1> SUFFICES ASSUME R!ResizeAssumption, R!Init PROVE ResizeInv
  OBVIOUS
<1>1. usual \in R!Orientations /\ angle \in R!Angles /\ shape \in R!Shapes(R!Actual)
  BY DEF R!Init
<1>2. R!Actual \in R!Orientations
        /\ (R!Actual = "portrait") = ((angle \in R!Upright) = (usual = "portrait"))
  BY <1>1, OtherOrientation DEF R!Actual
<1>3. (shape = "wide") = (R!Actual = "landscape") /\ shape \in {"tall", "squarish", "wide"}
  BY <1>1, <1>2 DEF R!Shapes, R!Orientations
<1>4. portrait_map = IF usual = "portrait" THEN R!Upright ELSE R!Angles \ R!Upright
  BY <1>1, <1>2, <1>3 DEF R!Init, R!InitialMap, R!Orientations
<1>5. portrait_map = {a \in R!Angles : R!ActualAt(a) = "portrait"}
  <2>1. R!Upright \subseteq R!Angles
    BY DEF R!Upright, R!Angles
  <2> QED
    BY <1>1, <1>4, <2>1, OtherOrientation
<1>6. last_orientation \in R!Orientations /\ told = last_orientation
  BY DEF R!Init, R!get_orientation, R!Orientations
<1>7. R!TypeOK
  <2>1. portrait_map \in {R!Upright, R!Angles \ R!Upright}
    BY <1>4
  <2>2. /\ resizes = FALSE /\ boundOrientation = FALSE /\ turned = FALSE /\ waiting = FALSE
        /\ sinceCall = Throttle /\ heldCall = -1 /\ rest = Throttle /\ beat = 0
        /\ moves = 0 /\ back = 0
    BY DEF R!Init
  <2>3. /\ sinceCall \in (-MaxBack)..Throttle /\ heldCall \in (-1)..(Throttle + MaxBack)
        /\ rest \in 0..Throttle /\ beat \in {0, 1} /\ moves \in 0..MaxMoves /\ back \in 0..MaxBack
    BY <2>2 DEF R!ResizeAssumption
  <2> QED
    BY <1>1, <1>3, <1>6, <2>1, <2>2, <2>3 DEF R!TypeOK
<1> QED
  BY <1>1, <1>5, <1>7 DEF R!Init, ResizeInv, R!ResizeAssumption

(* What the handler of resize does, called by the event or by its timer.   *)
LEMMA ResizeHandler ==
  ASSUME R!ResizeAssumption, ResizeInv, R!Handler(heldCall) \/ R!Handler(-1),
         UNCHANGED <<usual, angle, shape, portrait_map, boundOrientation, turned, moves, back>>,
         resizes' \in BOOLEAN
  PROVE  ResizeInv'
<1>1. /\ last_orientation' \in R!Orientations /\ told' \in R!Orientations
  BY DEF R!Handler, R!Heard, R!get_orientation, R!Orientations, ResizeInv, R!TypeOK
<1>2. /\ sinceCall \in (-MaxBack)..Throttle /\ rest \in 0..Throttle /\ back \in 0..MaxBack
      /\ heldCall \in (-1)..(Throttle + MaxBack) /\ beat \in {0, 1}
      /\ Throttle \in Nat \ {0} /\ MaxBack \in Nat /\ -back <= sinceCall /\ sinceCall <= rest
      /\ waiting \in BOOLEAN
  BY DEF ResizeInv, R!TypeOK, R!ResizeAssumption
<1>3. /\ sinceCall' \in (-MaxBack)..Throttle /\ rest' \in 0..Throttle
      /\ heldCall' \in (-1)..(Throttle + MaxBack) /\ beat' \in {0, 1}
      /\ waiting' \in BOOLEAN /\ (waiting' => heldCall' >= 0)
      /\ -back <= sinceCall' /\ sinceCall' <= rest'
  <2>1. CASE R!Free
    <3>1. sinceCall' = 0 /\ waiting' = FALSE /\ rest' = 0 /\ beat' = 1 - beat
          /\ heldCall' \in {heldCall, -1}
      BY <2>1 DEF R!Handler
    <3>2. heldCall' \in (-1)..(Throttle + MaxBack)
      BY <1>2, <3>1
    <3>3. waiting' \in BOOLEAN /\ (waiting' => heldCall' >= 0)
      BY <3>1
    <3>4. beat' \in {0, 1}
      BY <1>2, <3>1
    <3>5. /\ sinceCall' \in (-MaxBack)..Throttle /\ rest' \in 0..Throttle
          /\ -back <= sinceCall' /\ sinceCall' <= rest'
      BY <1>2, <3>1
    <3> QED
      BY <3>2, <3>3, <3>4, <3>5
  <2>2. CASE ~R!Free
    <3>1. heldCall' = Throttle - sinceCall /\ waiting' = TRUE /\ UNCHANGED <<sinceCall, rest, beat>>
      BY <2>2 DEF R!Handler, R!Held
    <3>2. sinceCall < Throttle
      BY <1>2, <2>2 DEF R!Free
    <3> QED
      BY <1>2, <3>1, <3>2
  <2> QED
    BY <2>1, <2>2
<1>4. R!TypeOK'
  BY <1>1, <1>3 DEF ResizeInv, R!TypeOK
<1>5. /\ portrait_map' = {a \in R!Angles : R!ActualAt(a) = "portrait"}'
      /\ shape' \in R!Shapes(R!Actual)'
  BY DEF ResizeInv, R!ActualAt, R!Actual
<1> QED
  BY <1>3, <1>4, <1>5 DEF ResizeInv

LEMMA ResizeNext == R!ResizeAssumption /\ ResizeInv /\ [R!Next]_(R!vars) => ResizeInv'
<1> SUFFICES ASSUME R!ResizeAssumption, ResizeInv, [R!Next]_(R!vars) PROVE ResizeInv'
  OBVIOUS
<1> USE DEF R!bounds
<1>1. CASE R!Turn
  <2>1. UNCHANGED <<usual, portrait_map, boundOrientation, last_orientation, told, back>> /\ UNCHANGED R!calls
    BY <1>1 DEF R!Turn, R!Moved
  <2>2. /\ angle' \in R!Angles /\ shape' \in R!Shapes(R!ActualAt(angle'))
        /\ R!ActualAt(angle') \in R!Orientations
    BY <1>1, OtherOrientation DEF R!Turn, ResizeInv, R!TypeOK
  <2>3. shape' \in R!Shapes(R!Actual)' /\ shape' \in {"tall", "squarish", "wide"}
    BY <2>1, <2>2 DEF R!Actual, R!ActualAt, R!Shapes
  <2>4. moves' \in 0..MaxMoves /\ resizes' \in BOOLEAN /\ turned' \in BOOLEAN
    BY <1>1 DEF R!Turn, R!Moved, ResizeInv, R!TypeOK, R!ResizeAssumption
  <2>5. R!TypeOK'
    BY <2>1, <2>2, <2>3, <2>4 DEF ResizeInv, R!TypeOK, R!calls
  <2> QED
    BY <2>1, <2>3, <2>5 DEF ResizeInv, R!calls, R!ActualAt
<1>2. CASE R!ResizeEvent
  BY <1>2, ResizeHandler DEF R!ResizeEvent
<1>3. CASE R!HeldCallRuns
  BY <1>3, ResizeHandler DEF R!HeldCallRuns, R!device, ResizeInv, R!TypeOK
<1>4. CASE R!OrientationEvent
  BY <1>4 DEF R!OrientationEvent, R!device, R!calls, ResizeInv, R!TypeOK, R!ActualAt, R!Actual,
     R!get_orientation, R!Orientations
<1>5. CASE R!Bind
  <2>1. last_orientation' \in R!Orientations /\ told' \in R!Orientations /\ boundOrientation' \in BOOLEAN
    BY <1>5 DEF R!Bind, R!Setup, R!get_orientation, R!Orientations, ResizeInv, R!TypeOK
  <2>2. moves' \in 0..MaxMoves /\ back' = back
    BY <1>5 DEF R!Bind, R!Moved, ResizeInv, R!TypeOK, R!ResizeAssumption
  <2> QED
    BY <1>5, <2>1, <2>2 DEF R!Bind, R!device, R!calls, ResizeInv, R!TypeOK, R!ActualAt, R!Actual
<1>6. CASE R!Tick \/ R!ClockSetBack \/ UNCHANGED R!vars
  <2>1. /\ UNCHANGED <<usual, angle, shape, resizes, waiting, beat, moves>>
        /\ UNCHANGED R!orientation
    BY <1>6 DEF R!Tick, R!ClockSetBack, R!vars, R!device, R!calls
  <2>2. /\ sinceCall \in (-MaxBack)..Throttle /\ rest \in 0..Throttle /\ back \in 0..MaxBack
        /\ heldCall \in (-1)..(Throttle + MaxBack)
        /\ Throttle \in Nat \ {0} /\ MaxBack \in Nat /\ -back <= sinceCall /\ sinceCall <= rest
    BY DEF ResizeInv, R!TypeOK, R!ResizeAssumption
  <2>3. /\ sinceCall' \in (-MaxBack)..Throttle /\ rest' \in 0..Throttle /\ back' \in 0..MaxBack
        /\ heldCall' \in (-1)..(Throttle + MaxBack) /\ (heldCall >= 0 => heldCall' >= 0)
        /\ -back' <= sinceCall' /\ sinceCall' <= rest'
    BY <1>6, <2>2 DEF R!Tick, R!ClockSetBack, R!vars, R!calls
  <2>4. R!TypeOK'
    BY <2>1, <2>3 DEF ResizeInv, R!TypeOK, R!orientation
  <2> QED
    BY <2>1, <2>3, <2>4 DEF ResizeInv, R!orientation, R!ActualAt, R!Actual
<1> QED
  BY <1>1, <1>2, <1>3, <1>4, <1>5, <1>6 DEF R!Next

LEMMA ResizeInductive == ASSUME R!ResizeAssumption PROVE R!Spec => []ResizeInv
<1>1. R!Init => ResizeInv
  BY ResizeInit
<1>2. ResizeInv /\ [R!Next]_(R!vars) => ResizeInv'
  BY ResizeNext
<1> QED
  BY <1>1, <1>2, PTL DEF R!Spec

(* A resize that was held back has a timer that runs for it, also when the *)
(* clock is set back, and the angle is read as the device is held, in      *)
(* whatever way it was held when the page was loaded.                      *)
THEOREM ResizesAreKept == ASSUME R!ResizeAssumption PROVE R!Spec => []R!TimersAreKept
<1>1. ResizeInv => R!TimersAreKept
  <2> SUFFICES ASSUME ResizeInv PROVE R!TimersAreKept
    OBVIOUS
  <2>1. angle \in R!Angles /\ R!Actual \in R!Orientations
    BY OtherOrientation DEF ResizeInv, R!TypeOK, R!Actual
  <2>2. (shape = "wide") = (R!Actual = "landscape")
    BY <2>1 DEF ResizeInv, R!Shapes, R!Orientations
  <2>3. (angle \in portrait_map) = (R!Actual = "portrait")
    BY <2>1 DEF ResizeInv, R!Actual
  <2>4. R!OrientationIsTrue
    BY <2>1, <2>2, <2>3 DEF R!OrientationIsTrue, R!get_orientation, R!Orientations
  <2> QED
    BY <2>4 DEF ResizeInv, R!TimersAreKept, R!PromiseIsKept
<1> QED
  BY <1>1, ResizeInductive, PTL

(* Two throttledresize are throttle apart, whenever resizes come and       *)
(* timers run out.                                                         *)
THEOREM ResizesAreApart == ASSUME R!ResizeAssumption PROVE R!Spec => [][R!NotTooOften]_(R!vars)
<1>1. ResizeInv /\ [R!Next]_(R!vars) => [R!NotTooOften]_(R!vars)
  <2> SUFFICES ASSUME ResizeInv, R!Next, beat' # beat PROVE rest = Throttle
    BY DEF R!NotTooOften
  <2>1. R!Handler(heldCall) \/ R!Handler(-1)
    BY DEF R!Next, R!Turn, R!ResizeEvent, R!OrientationEvent, R!HeldCallRuns, R!Bind, R!Tick,
       R!ClockSetBack, R!calls
  <2>2. sinceCall >= Throttle
    BY <2>1 DEF R!Handler, R!Free
  <2> QED
    BY <2>2 DEF ResizeInv, R!TypeOK, R!ResizeAssumption
<1> QED
  BY <1>1, ResizeInductive, PTL DEF R!Spec

-----------------------------------------------------------------------------
(* The popup while the window is resized *)

CONSTANTS Windows, PopupMoves
VARIABLES phase, hidden, placedIn, window, turns, popupResizes, resizeData,
          ignores, orientationchangeInProgress, timers

PR == INSTANCE PopupResize WITH
  placed <- placedIn, resizes <- popupResizes, MaxMoves <- PopupMoves

(* A popup that opens is not hidden before it is open.                     *)
PopupResizeInv ==
  /\ PR!TypeOK /\ PR!OneTimer /\ PR!HiddenHasTimer
  /\ phase = "opening" => hidden = FALSE

(* _expectResizeEvent leaves one timer, for the window as it is now.       *)
LEMMA ExpectHasTimer ==
  ASSUME PR!PopupResizeAssumption, PopupResizeInv, PR!Expect(timers)
  PROVE  resizeData' = window /\ timers' = 1
<1>1. window # None /\ resizeData' = window
  BY DEF PR!PopupResizeAssumption, PopupResizeInv, PR!TypeOK, PR!Expect
<1>2. CASE resizeData = None
  BY <1>1, <1>2 DEF PopupResizeInv, PR!OneTimer, PR!Expect, PR!News, PR!Cleared
<1>3. CASE resizeData # None
  BY <1>1, <1>3 DEF PopupResizeInv, PR!OneTimer, PR!Expect, PR!News, PR!Cleared
<1> QED
  BY <1>1, <1>2, <1>3

(* A step that leaves the timers and what they are for.                    *)
LEMMA TimersStay ==
  ASSUME PopupResizeInv, UNCHANGED <<resizeData, timers, orientationchangeInProgress>>,
         hidden' /\ PR!IsOpen' => hidden /\ PR!IsOpen
  PROVE  PR!OneTimer' /\ PR!HiddenHasTimer'
<1>1. PR!OneTimer'
  BY DEF PopupResizeInv, PR!OneTimer
<1>2. PR!HiddenHasTimer'
  BY DEF PopupResizeInv, PR!HiddenHasTimer
<1> QED
  BY <1>1, <1>2

(* A step after which a timer runs, or nothing is left to wait for.        *)
LEMMA TimersHave ==
  ASSUME PR!PopupResizeAssumption, resizeData' \in Windows, timers' = 1
  PROVE  PR!OneTimer' /\ PR!HiddenHasTimer'
BY DEF PR!PopupResizeAssumption, PR!OneTimer, PR!HiddenHasTimer

LEMMA PopupResizeNext ==
  PR!PopupResizeAssumption /\ PopupResizeInv /\ [PR!Next]_(PR!vars) => PopupResizeInv'
<1> SUFFICES ASSUME PR!PopupResizeAssumption, PopupResizeInv, [PR!Next]_(PR!vars)
             PROVE  PopupResizeInv'
  OBVIOUS
<1> USE DEF PR!IsOpen
<1>0. window \in Windows /\ PR!TypeOK /\ moves \in Nat /\ PopupMoves \in Nat /\ {0, 1} = 0..1
  BY DEF PR!PopupResizeAssumption, PopupResizeInv, PR!TypeOK
<1>1. CASE PR!ResizeEvent
  <2>1. /\ UNCHANGED <<phase, placedIn, window, turns, orientationchangeInProgress, ignores, moves>>
        /\ popupResizes' = FALSE
    BY <1>1 DEF PR!ResizeEvent
  <2>2. CASE PR!IsOpen /\ ~ignores
    <3>1. resizeData' = window /\ timers' = 1 /\ hidden' \in BOOLEAN
      BY <1>1, <2>2, ExpectHasTimer DEF PR!ResizeEvent, PR!Hides, PR!News, PopupResizeInv, PR!TypeOK
    <3>2. PR!TypeOK'
      BY <1>0, <2>1, <3>1 DEF PR!TypeOK
    <3> QED
      BY <1>0, <2>1, <2>2, <3>1, <3>2, TimersHave DEF PopupResizeInv
  <2>3. CASE ~(PR!IsOpen /\ ~ignores)
    <3>1. UNCHANGED <<resizeData, timers, hidden>>
      BY <1>1, <2>3 DEF PR!ResizeEvent
    <3>2. PR!TypeOK'
      BY <1>0, <2>1, <3>1 DEF PR!TypeOK
    <3> QED
      BY <2>1, <3>1, <3>2, TimersStay DEF PopupResizeInv
  <2> QED
    BY <2>2, <2>3
<1>2. CASE PR!OrientationEvent
  <2>1. UNCHANGED <<phase, hidden, placedIn, window, popupResizes, ignores, moves>> /\ turns' = FALSE
    BY <1>2 DEF PR!OrientationEvent, PR!look
  <2>2. CASE PR!Starts
    <3>1. resizeData' = window /\ timers' = 1 /\ orientationchangeInProgress' = TRUE
      BY <1>2, <2>2, ExpectHasTimer DEF PR!OrientationEvent
    <3>2. PR!TypeOK'
      BY <1>0, <2>1, <3>1 DEF PR!TypeOK
    <3> QED
      BY <1>0, <2>1, <3>1, <3>2, TimersHave DEF PopupResizeInv
  <2>3. CASE ~PR!Starts
    <3>1. UNCHANGED <<resizeData, timers, orientationchangeInProgress>>
      BY <1>2, <2>3 DEF PR!OrientationEvent, PR!settling
    <3>2. PR!TypeOK'
      BY <1>0, <2>1, <3>1 DEF PR!TypeOK
    <3> QED
      BY <2>1, <3>1, <3>2, TimersStay DEF PopupResizeInv
  <2> QED
    BY <2>2, <2>3
<1>3. CASE PR!ResizeTimeout
  <2>1. timers = 1 /\ UNCHANGED <<phase, window, popupResizes, turns, moves>>
    BY <1>3 DEF PR!ResizeTimeout, PopupResizeInv, PR!OneTimer, PR!screen, PR!look
  <2>2. CASE PR!IsOpen /\ ~PR!Settled
    <3>1. /\ resizeData' = window /\ timers' = 1
          /\ UNCHANGED <<orientationchangeInProgress, hidden, placedIn, ignores>>
      BY <1>3, <2>1, <2>2 DEF PR!ResizeTimeout, PR!look
    <3>2. PR!TypeOK'
      BY <1>0, <2>1, <3>1 DEF PR!TypeOK
    <3> QED
      BY <1>0, <2>1, <3>1, <3>2, TimersHave DEF PopupResizeInv
  <2>3. CASE ~(PR!IsOpen /\ ~PR!Settled)
    <3>1. resizeData' = None /\ timers' = 0 /\ orientationchangeInProgress' = FALSE
      BY <1>3, <2>1, <2>3 DEF PR!ResizeTimeout, PR!Afterwards
    <3>2. /\ hidden' \in {hidden, FALSE} /\ (PR!IsOpen => hidden' = FALSE)
          /\ placedIn' \in {placedIn, window} /\ ignores' \in {ignores, TRUE}
      BY <1>0, <1>3, <2>3 DEF PR!ResizeTimeout, PR!Shows, PR!look, PR!TypeOK
    <3>3. PR!TypeOK'
      BY <1>0, <2>1, <3>1, <3>2 DEF PR!TypeOK
    <3>4. PR!OneTimer' /\ PR!HiddenHasTimer'
      BY <2>1, <3>1, <3>2 DEF PR!OneTimer, PR!HiddenHasTimer
    <3> QED
      BY <2>1, <3>2, <3>3, <3>4 DEF PopupResizeInv
  <2> QED
    BY <2>2, <2>3
<1>4. CASE PR!IgnoreTimeout \/ PR!FocusIn \/ PR!Resize \/ UNCHANGED PR!vars
  <2>1. UNCHANGED <<phase, hidden, placedIn, resizeData, timers, orientationchangeInProgress>>
    BY <1>4 DEF PR!IgnoreTimeout, PR!FocusIn, PR!Resize, PR!vars, PR!look, PR!settling
  <2>2. moves' \in 0..PopupMoves
    <3>1. moves' = moves \/ PR!Moved
      BY <1>4 DEF PR!IgnoreTimeout, PR!FocusIn, PR!Resize, PR!vars
    <3> QED
      BY <1>0, <3>1 DEF PR!Moved, PR!TypeOK
  <2>3. window' \in Windows /\ popupResizes' \in BOOLEAN /\ turns' \in BOOLEAN /\ ignores' \in BOOLEAN
    BY <1>0, <1>4 DEF PR!IgnoreTimeout, PR!FocusIn, PR!Resize, PR!vars, PR!screen, PR!TypeOK
  <2>4. PR!TypeOK'
    BY <1>0, <2>1, <2>2, <2>3 DEF PR!TypeOK
  <2> QED
    BY <2>1, <2>4, TimersStay DEF PopupResizeInv
<1>5. CASE PR!Open \/ PR!Close \/ PR!AnimationEnds
  <2>1. UNCHANGED <<window, popupResizes, turns, resizeData, timers, orientationchangeInProgress>>
    BY <1>5 DEF PR!Open, PR!Close, PR!AnimationEnds, PR!screen, PR!settling
  <2>2. hidden' \in BOOLEAN
    BY <1>0, <1>5 DEF PR!Open, PR!Close, PR!AnimationEnds, PopupResizeInv, PR!TypeOK
  <2>3. moves' \in 0..PopupMoves
    BY <1>0, <1>5 DEF PR!Open, PR!Close, PR!AnimationEnds, PR!Moved, PR!TypeOK
  <2>4. /\ phase' \in {"closed", "opening", "open", "closing"} /\ ignores' \in BOOLEAN
        /\ placedIn' \in Windows \cup {None}
    BY <1>0, <1>5 DEF PR!Open, PR!Close, PR!AnimationEnds, PR!TypeOK
  <2>5. PR!TypeOK'
    BY <1>0, <2>1, <2>2, <2>3, <2>4 DEF PR!TypeOK
  <2>6. phase' # "open" \/ hidden' = FALSE
    BY <1>5 DEF PR!Open, PR!Close, PR!AnimationEnds, PopupResizeInv
  <2>7. phase' = "opening" => hidden' = FALSE
    BY <1>5 DEF PR!Open, PR!Close, PR!AnimationEnds
  <2> QED
    BY <2>1, <2>5, <2>6, <2>7, TimersStay DEF PopupResizeInv
<1> QED
  BY <1>1, <1>2, <1>3, <1>4, <1>5 DEF PR!Next, PR!Events

(* A popup that is hidden while the window settles has just one timer that *)
(* shows it, whatever closes, opens and turns come in between.             *)
THEOREM PopupTimersAreKept ==
  ASSUME PR!PopupResizeAssumption PROVE PR!Spec => []PR!TimersAreKept
<1>1. PR!Init => PopupResizeInv
  <2> SUFFICES ASSUME PR!Init PROVE PopupResizeInv
    OBVIOUS
  <2>1. 0 \in 0..PopupMoves /\ 0 \in 0..1
    BY DEF PR!PopupResizeAssumption
  <2>2. PR!TypeOK
    BY <2>1 DEF PR!Init, PR!TypeOK
  <2>3. PR!OneTimer /\ PR!HiddenHasTimer
    BY DEF PR!Init, PR!OneTimer, PR!HiddenHasTimer, PR!IsOpen
  <2> QED
    BY <2>2, <2>3 DEF PR!Init, PopupResizeInv
<1>2. PopupResizeInv /\ [PR!Next]_(PR!vars) => PopupResizeInv'
  BY PopupResizeNext
<1>3. PopupResizeInv => PR!TimersAreKept
  BY DEF PopupResizeInv, PR!TimersAreKept
<1> QED
  BY <1>1, <1>2, <1>3, PTL DEF PR!Spec

-----------------------------------------------------------------------------
(* Touches, their mouse events and taps *)

CONSTANTS Elements, MaxTaps, MaxBindings, Overlaps, Shifts, Holds
VARIABLES bound, bindings, activeDocHandlers, touchID, lastTouchID, nextTouchID, didScroll,
          blockMouseTriggers, blockTouchTriggers, clickBlockList, resetTimer,
          tapHandlers, finger, coming, vclicks, taps, prevented, clicked

TH == INSTANCE Touch

Fingers == [on : Elements, tap : 1..MaxTaps, moved : BOOLEAN]
MouseEvent == [on : Elements, place : Elements, tap : 1..MaxTaps]

(* A tap that has not begun, or whose finger is down, has made nothing.    *)
Unmade(t) ==
  /\ t \notin clicked /\ t \notin prevented
  /\ vclicks[t] = 0 /\ taps[t] = 0 /\ \A m \in coming : m.tap # t

TapsFit ==
  /\ \A t \in 1..MaxTaps : t >= nextTouchID => Unmade(t)
  /\ finger # None =>
       /\ finger.tap < nextTouchID /\ Unmade(finger.tap)
       /\ ~blockTouchTriggers =>
            lastTouchID = finger.tap /\ touchID[finger.on] = finger.tap

(* The click of a tap that was prevented is to come where it is blocked.   *)
BlocksFit ==
  \A m \in coming :
    m.tap \in prevented => \E o \in clickBlockList : o.place = m.place

(* Without overlaps one mouse event comes at most, after the finger; where *)
(* it hits the element of the touch it is not counted a second time.       *)
ComesOnce ==
  ~Overlaps /\ ~Shifts =>
    /\ finger # None => coming = {}
    /\ \A m, n \in coming : m = n
    /\ \A m \in coming :
         \/ vclicks[m.tap] = 0
         \/ lastTouchID # 0 /\ lastTouchID = touchID[m.on]
    /\ \A t \in 1..MaxTaps : vclicks[t] <= 1

(* When fingers are lifted in time as well, the only clickHandler is that  *)
(* of the finger that is down and has not scrolled.                        *)
HandlersFit ==
  ~Overlaps /\ ~Shifts /\ ~Holds =>
    /\ finger # None => ~blockTouchTriggers /\ finger.on \in bound
    /\ \A e \in Elements :
         tapHandlers[e] = IF finger # None /\ finger.on = e /\ ~didScroll THEN <<e>> ELSE <<>>
    /\ \A m \in coming : lastTouchID # 0 /\ lastTouchID = touchID[m.on]
    /\ \A t \in 1..MaxTaps : taps[t] <= 1

TouchInv ==
  TH!TypeOK /\ TapsFit /\ BlocksFit /\ TH!PreventedIsNotClicked /\ ComesOnce /\ HandlersFit

LEMMA SameSets ==
  /\ \A S : TH!Cardinality(S) = Cardinality(S)
  /\ \A S : TH!IsFiniteSet(S) = IsFiniteSet(S)
BY DEF TH!Cardinality, Cardinality, TH!IsFiniteSet, IsFiniteSet

LEMMA TouchInit == TH!TouchAssumption /\ TH!Init => TouchInv
<1> SUFFICES ASSUME TH!TouchAssumption, TH!Init PROVE TouchInv
  OBVIOUS
<1> USE DEF TH!Init, TH!TouchAssumption, TH!Taps
<1>1. TH!TypeOK
  <2>1. tapHandlers \in [Elements -> Seq(Elements)]
    <3>1. <<>> \in Seq(Elements)
      OBVIOUS
    <3> QED
      BY <3>1
  <2>2. vclicks \in [1..MaxTaps -> Nat] /\ taps \in [1..MaxTaps -> Nat]
    OBVIOUS
  <2>3. touchID \in [Elements -> 0..MaxTaps] /\ nextTouchID \in 1..(MaxTaps + 1)
    OBVIOUS
  <2>4. bound \subseteq Elements /\ activeDocHandlers = TH!Cardinality(bound)
    OBVIOUS
  <2>5. coming = {} /\ clickBlockList = {} /\ finger = None /\ prevented = {} /\ clicked = {}
    OBVIOUS
  <2>6. lastTouchID \in 0..MaxTaps /\ didScroll = FALSE /\ resetTimer = FALSE
        /\ blockMouseTriggers = FALSE /\ blockTouchTriggers = FALSE
    OBVIOUS
  <2> QED
    BY <2>1, <2>2, <2>3, <2>4, <2>5, <2>6 DEF TH!TypeOK
<1>2. TapsFit
  BY DEF TapsFit, Unmade
<1>3. BlocksFit /\ TH!PreventedIsNotClicked /\ ComesOnce
  BY DEF BlocksFit, TH!PreventedIsNotClicked, ComesOnce
<1>4. HandlersFit
  BY DEF HandlersFit
<1> QED
  BY <1>1, <1>2, <1>3, <1>4 DEF TouchInv

LEMMA TouchType ==
  TH!TouchAssumption /\ TouchInv /\ [TH!Next]_(TH!vars) => TH!TypeOK'
<1> SUFFICES ASSUME TH!TouchAssumption, TouchInv, [TH!Next]_(TH!vars) PROVE TH!TypeOK'
  OBVIOUS
<1> USE DEF TH!TouchAssumption, TH!Taps
<1>0. TH!TypeOK /\ TapsFit
  BY DEF TouchInv
<1>f. IsFiniteSet(Elements)
  BY SameSets
<1>a. ASSUME NEW e \in Elements, NEW S \in SUBSET Elements, e \notin S
      PROVE  Cardinality(S \cup {e}) = Cardinality(S) + 1
  <2>1. IsFiniteSet(S)
    BY <1>f, FS_Subset
  <2> QED
    BY <1>a, <2>1, FS_AddElement
<1>b. ASSUME NEW e \in Elements, NEW S \in SUBSET Elements, e \in S
      PROVE  Cardinality(S \ {e}) = Cardinality(S) - 1
  <2>1. IsFiniteSet(S) /\ Cardinality(S) \in Nat
    BY <1>f, FS_Subset, FS_CardinalityType
  <2> QED
    BY <1>b, <2>1, FS_RemoveElement
<1>c. ASSUME NEW hs \in [Elements -> Seq(Elements)], NEW e \in Elements
      PROVE  /\ [hs EXCEPT ![e] = <<>>] \in [Elements -> Seq(Elements)]
             /\ TH!VmouseDown(hs, e) \in [Elements -> Seq(Elements)]
             /\ TH!VclickDone(hs, e) \in [Elements -> Seq(Elements)]
             /\ TH!VmouseCancel(hs) \in [Elements -> Seq(Elements)]
             /\ TH!TapsOf(hs, e) \in Nat
  <2>1. <<>> \in Seq(Elements) /\ Append(hs[e], e) \in Seq(Elements) /\ Len(hs[e]) \in Nat
    OBVIOUS
  <2> QED
    BY <2>1 DEF TH!VmouseDown, TH!VclickDone, TH!VmouseCancel, TH!TapsOf
<1>d. ASSUME NEW hs \in [Elements -> Seq(Elements)], NEW e \in Elements, NEW t \in 1..MaxTaps,
             TH!Vclick(hs, e, t)
      PROVE  /\ vclicks' \in [1..MaxTaps -> Nat] /\ taps' \in [1..MaxTaps -> Nat]
             /\ tapHandlers' \in [Elements -> Seq(Elements)]
  <2>1. vclicks[t] \in Nat /\ taps[t] \in Nat /\ vclicks \in [1..MaxTaps -> Nat]
        /\ taps \in [1..MaxTaps -> Nat]
    BY <1>0 DEF TH!TypeOK
  <2>2. TH!TapsOf(hs, e) \in Nat /\ TH!VclickDone(hs, e) \in [Elements -> Seq(Elements)]
    BY <1>c
  <2>3. vclicks[t] + 1 \in Nat /\ taps[t] + TH!TapsOf(hs, e) \in Nat
    BY <2>1, <2>2
  <2>4. vclicks' = [vclicks EXCEPT ![t] = vclicks[t] + 1]
        /\ taps' = [taps EXCEPT ![t] = taps[t] + TH!TapsOf(hs, e)]
        /\ tapHandlers' = TH!VclickDone(hs, e)
    BY <1>d DEF TH!Vclick
  <2> HIDE DEF TH!TapsOf, TH!VclickDone
  <2> QED
    BY <2>1, <2>2, <2>3, <2>4
<1>1. CASE TH!Setup \/ TH!Teardown
  <2>1. UNCHANGED <<touchID, lastTouchID, nextTouchID, didScroll, resetTimer, blockMouseTriggers,
                    blockTouchTriggers, clickBlockList, finger, coming, vclicks, taps,
                    prevented, clicked>>
    BY <1>1 DEF TH!Setup, TH!Teardown, TH!ids, TH!blocks, TH!outcome
  <2>2. bound' \subseteq Elements /\ activeDocHandlers' = Cardinality(bound')
    <3>1. bound \subseteq Elements /\ activeDocHandlers = Cardinality(bound)
      BY <1>0, SameSets DEF TH!TypeOK
    <3>2. CASE TH!Setup
      <4>1. PICK e \in Elements \ bound : bound' = bound \cup {e} /\ activeDocHandlers' = activeDocHandlers + 1
        BY <3>2 DEF TH!Setup
      <4> QED
        BY <3>1, <4>1, <1>a
    <3>3. CASE TH!Teardown
      <4>1. PICK e \in bound : bound' = bound \ {e} /\ activeDocHandlers' = activeDocHandlers - 1
        BY <3>3 DEF TH!Teardown, TH!CountDown
      <4> QED
        BY <3>1, <4>1, <1>b
    <3> QED
      BY <1>1, <3>2, <3>3
  <2>3. tapHandlers' \in [Elements -> Seq(Elements)]
    <3>1. tapHandlers \in [Elements -> Seq(Elements)] /\ bound \subseteq Elements
      BY <1>0, SameSets DEF TH!TypeOK
    <3>2. CASE TH!Setup
      BY <3>1, <3>2 DEF TH!Setup
    <3>3. CASE TH!Teardown
      <4>1. PICK e \in bound : tapHandlers' = [tapHandlers EXCEPT ![e] = <<>>]
        BY <3>3 DEF TH!Teardown
      <4> QED
        BY <3>1, <4>1, <1>c
    <3> QED
      BY <1>1, <3>2, <3>3
  <2> QED
    BY <1>0, <2>1, <2>2, <2>3, SameSets DEF TH!TypeOK
<1>2. CASE TH!TouchStart
  <2>1. PICK e \in bound : /\ finger' = [on |-> e, tap |-> nextTouchID, moved |-> FALSE]
                           /\ lastTouchID' = nextTouchID /\ nextTouchID' = nextTouchID + 1
                           /\ touchID' = [touchID EXCEPT ![e] = nextTouchID]
                           /\ tapHandlers' = TH!VmouseDown(tapHandlers, e)
    BY <1>2 DEF TH!TouchStart
  <2>2. e \in Elements /\ nextTouchID \in 1..MaxTaps
    BY <1>0, <1>2 DEF TH!TouchStart, TH!TypeOK
  <2>3. tapHandlers' \in [Elements -> Seq(Elements)]
    BY <1>0, <1>c, <2>1, <2>2 DEF TH!TypeOK
  <2>4. touchID' \in [Elements -> 0..MaxTaps]
    BY <1>0, <2>1, <2>2 DEF TH!TypeOK
  <2>5. finger' \in [on : Elements, tap : 1..MaxTaps, moved : BOOLEAN]
    BY <2>1, <2>2
  <2>6. lastTouchID' \in 0..MaxTaps /\ nextTouchID' \in 1..(MaxTaps + 1)
    BY <2>1, <2>2
  <2>7. resetTimer' = FALSE /\ blockTouchTriggers' = FALSE /\ didScroll' = FALSE
        /\ UNCHANGED <<bound, activeDocHandlers, blockMouseTriggers, clickBlockList, coming, vclicks,
                       taps, prevented, clicked>>
    BY <1>2 DEF TH!TouchStart, TH!handlers, TH!outcome
  <2> QED
    BY <1>0, <2>3, <2>4, <2>5, <2>6, <2>7 DEF TH!TypeOK
<1>3. CASE TH!TouchMove \/ TH!Scroll
  <2>1. UNCHANGED <<bound, activeDocHandlers, touchID, lastTouchID, nextTouchID, blockMouseTriggers,
                    blockTouchTriggers, clickBlockList, coming, vclicks, taps, prevented, clicked>>
    BY <1>3 DEF TH!TouchMove, TH!Scroll, TH!handlers, TH!outcome
  <2>2. finger \in [on : Elements, tap : 1..MaxTaps, moved : BOOLEAN]
    BY <1>0, <1>3 DEF TH!TouchMove, TH!Scroll, TH!TypeOK
  <2>3. finger' \in [on : Elements, tap : 1..MaxTaps, moved : BOOLEAN]
    BY <1>3, <2>2 DEF TH!TouchMove, TH!Scroll
  <2>4. didScroll' \in BOOLEAN /\ resetTimer' \in BOOLEAN
    <3>1. didScroll' \in {didScroll, TRUE} \/ \E far \in BOOLEAN : didScroll' = (didScroll \/ far)
      BY <1>3 DEF TH!TouchMove, TH!Scroll
    <3>2. resetTimer' = resetTimer \/ resetTimer' = TRUE
      BY <1>3 DEF TH!TouchMove, TH!Scroll
    <3> QED
      BY <1>0, <3>1, <3>2 DEF TH!TypeOK
  <2>5. tapHandlers' = tapHandlers \/ tapHandlers' = TH!VmouseCancel(tapHandlers)
    BY <1>3 DEF TH!TouchMove, TH!Scroll
  <2>6. tapHandlers' \in [Elements -> Seq(Elements)]
    <3>1. <<>> \in Seq(Elements)
      OBVIOUS
    <3> QED
      BY <1>0, <2>5, <3>1 DEF TH!TypeOK, TH!VmouseCancel
  <2> QED
    BY <1>0, <2>1, <2>3, <2>4, <2>6 DEF TH!TypeOK
<1>4. CASE TH!TouchEnd
  <2>1. finger \in [on : Elements, tap : 1..MaxTaps, moved : BOOLEAN] /\ finger' = None
    BY <1>0, <1>4 DEF TH!TouchEnd, TH!TypeOK
  <2>2. coming' \subseteq [on : Elements, place : Elements, tap : 1..MaxTaps]
    <3>1. TH!MouseEvents(finger) \subseteq [on : Elements, place : Elements, tap : 1..MaxTaps]
      BY <2>1 DEF TH!MouseEvents
    <3> QED
      BY <1>0, <1>4, <3>1 DEF TH!TouchEnd, TH!TypeOK
  <2>3. UNCHANGED <<bound, activeDocHandlers, touchID, lastTouchID, nextTouchID, clicked>>
    BY <1>4 DEF TH!TouchEnd, TH!handlers
  <2>4. CASE blockTouchTriggers \/ ~TH!Listening
    <3>1. UNCHANGED <<didScroll, blockMouseTriggers, blockTouchTriggers, clickBlockList, resetTimer,
                      tapHandlers, vclicks, taps, prevented>>
      BY <1>4, <2>4 DEF TH!TouchEnd, TH!blocks
    <3> QED
      BY <1>0, <2>1, <2>2, <2>3, <3>1 DEF TH!TypeOK
  <2>5. CASE ~blockTouchTriggers /\ TH!Listening
    <3>1. PICK prevents \in BOOLEAN : TH!HandleTouchEnd(prevents)
      BY <1>4, <2>5 DEF TH!TouchEnd
    <3>2. blockTouchTriggers' = TRUE /\ didScroll' = FALSE /\ resetTimer' = TRUE
      BY <3>1 DEF TH!HandleTouchEnd
    <3>3. /\ vclicks' \in [1..MaxTaps -> Nat] /\ taps' \in [1..MaxTaps -> Nat]
          /\ tapHandlers' \in [Elements -> Seq(Elements)]
      <4>1. TH!NoVclick(tapHandlers) \/ TH!Vclick(tapHandlers, finger.on, finger.tap)
        BY <3>1 DEF TH!HandleTouchEnd
      <4>2. CASE TH!NoVclick(tapHandlers)
        BY <1>0, <4>2 DEF TH!NoVclick, TH!TypeOK
      <4>3. CASE TH!Vclick(tapHandlers, finger.on, finger.tap)
        BY <1>0, <1>d, <2>1, <4>3 DEF TH!TypeOK
      <4> QED
        BY <4>1, <4>2, <4>3
    <3>4. lastTouchID = finger.tap
      BY <1>0, <2>1, <2>5, <1>4 DEF TapsFit, TH!TouchEnd
    <3>5. prevented' \subseteq 1..MaxTaps /\ clickBlockList' \subseteq [touchID : 1..MaxTaps, place : Elements]
          /\ blockMouseTriggers' \in BOOLEAN
      <4>1. finger.on \in Elements /\ finger.tap \in 1..MaxTaps
        BY <2>1
      <4>2. TH!Blocked(lastTouchID, finger.on) \subseteq [touchID : 1..MaxTaps, place : Elements]
        BY <3>4, <4>1 DEF TH!Blocked
      <4>3. \/ UNCHANGED <<prevented, clickBlockList, blockMouseTriggers>>
            \/ /\ prevented' = prevented \cup {finger.tap}
               /\ clickBlockList' = clickBlockList \cup TH!Blocked(lastTouchID, finger.on)
               /\ blockMouseTriggers' = TRUE
        BY <3>1 DEF TH!HandleTouchEnd
      <4>4. prevented \subseteq 1..MaxTaps /\ clickBlockList \subseteq [touchID : 1..MaxTaps, place : Elements]
            /\ blockMouseTriggers \in BOOLEAN
        BY <1>0 DEF TH!TypeOK
      <4> QED
        BY <4>1, <4>2, <4>3, <4>4
    <3> QED
      BY <1>0, <2>1, <2>2, <2>3, <3>2, <3>3, <3>5 DEF TH!TypeOK
  <2> QED
    BY <2>4, <2>5
<1>5. CASE TH!Mouse
  <2>1. PICK m \in coming : /\ coming' = coming \ {m}
                            /\ clicked' = IF TH!IsBlocked(m) THEN clicked ELSE clicked \cup {m.tap}
                            /\ \E down \in {tapHandlers, TH!VmouseDown(tapHandlers, m.on)} :
                                 TH!Vclick(down, m.on, m.tap) \/ TH!NoVclick(down)
    BY <1>5 DEF TH!Mouse
  <2>2. m.on \in Elements /\ m.tap \in 1..MaxTaps
    BY <1>0 DEF TH!TypeOK
  <2>3. PICK down \in [Elements -> Seq(Elements)] : TH!Vclick(down, m.on, m.tap) \/ TH!NoVclick(down)
    <3>1. tapHandlers \in [Elements -> Seq(Elements)] /\ TH!VmouseDown(tapHandlers, m.on) \in [Elements -> Seq(Elements)]
      BY <1>0, <1>c, <2>2 DEF TH!TypeOK
    <3> QED
      BY <2>1, <3>1
  <2>4. /\ vclicks' \in [1..MaxTaps -> Nat] /\ taps' \in [1..MaxTaps -> Nat]
        /\ tapHandlers' \in [Elements -> Seq(Elements)]
    <3>1. CASE TH!Vclick(down, m.on, m.tap)
      BY <1>d, <2>2, <3>1
    <3>2. CASE TH!NoVclick(down)
      BY <1>0, <3>2 DEF TH!NoVclick, TH!TypeOK
    <3> QED
      BY <2>3, <3>1, <3>2
  <2>5. clicked' \subseteq 1..MaxTaps /\ coming' \subseteq [on : Elements, place : Elements, tap : 1..MaxTaps]
    <3>1. coming' = coming \ {m}
      BY <2>1
    <3>2. clicked' = clicked \/ clicked' = clicked \cup {m.tap}
      BY <2>1
    <3> QED
      BY <1>0, <2>2, <3>1, <3>2 DEF TH!TypeOK
  <2>6. UNCHANGED <<bound, activeDocHandlers, touchID, lastTouchID, nextTouchID, didScroll,
                    blockMouseTriggers, blockTouchTriggers, clickBlockList, resetTimer, finger, prevented>>
    BY <1>5 DEF TH!Mouse, TH!handlers, TH!ids, TH!blocks
  <2> QED
    BY <1>0, <2>4, <2>5, <2>6 DEF TH!TypeOK
<1>6. CASE TH!TouchCancel
  BY <1>0, <1>6 DEF TH!TouchCancel, TH!TypeOK, TH!handlers, TH!ids, TH!blocks, TH!outcome
<1>7. CASE TH!ResetTimer
  <2>1. /\ resetTimer' = FALSE /\ lastTouchID' = 0 /\ clickBlockList' = {}
        /\ blockMouseTriggers' = FALSE /\ blockTouchTriggers' = TRUE
        /\ UNCHANGED <<bound, activeDocHandlers, touchID, nextTouchID, didScroll, tapHandlers, finger,
                       coming, vclicks, taps, prevented, clicked>>
    BY <1>7 DEF TH!ResetTimer, TH!handlers, TH!outcome, TH!ClearedList
  <2>2. clickBlockList' \subseteq [touchID : 1..MaxTaps, place : Elements]
    BY <2>1
  <2>3. lastTouchID' \in 0..MaxTaps
    BY <2>1
  <2> QED
    BY <1>0, <2>1, <2>2, <2>3 DEF TH!TypeOK
<1>8. CASE UNCHANGED TH!vars
  BY <1>0, <1>8 DEF TH!vars, TH!TypeOK, TH!handlers, TH!ids, TH!blocks, TH!outcome
<1> QED
  BY <1>1, <1>2, <1>3, <1>4, <1>5, <1>6, <1>7, <1>8 DEF TH!Next

(* A vclick is counted for its tap, and each clickHandler makes a tap.     *)
LEMMA VclickCounts ==
  ASSUME TH!TypeOK, NEW hs \in [Elements -> Seq(Elements)], NEW e \in Elements,
         NEW t \in 1..MaxTaps, TH!Vclick(hs, e, t)
  PROVE  /\ \A u \in 1..MaxTaps : u # t => vclicks'[u] = vclicks[u] /\ taps'[u] = taps[u]
         /\ vclicks'[t] = vclicks[t] + 1 /\ taps'[t] = taps[t] + Len(hs[e])
         /\ tapHandlers' = [hs EXCEPT ![e] = <<>>]
BY DEF TH!Vclick, TH!TypeOK, TH!Taps, TH!TapsOf, TH!VclickDone

(* What the lifting of a finger does.                                      *)
EndsQuietly ==
  /\ blockTouchTriggers \/ ~TH!Listening
  /\ UNCHANGED <<didScroll, blockTouchTriggers, clickBlockList, tapHandlers, vclicks, taps, prevented>>

EndsScrolled ==
  /\ ~blockTouchTriggers /\ (didScroll \/ finger.on \notin bound)
  /\ blockTouchTriggers' = TRUE /\ didScroll' = FALSE
  /\ UNCHANGED <<clickBlockList, tapHandlers, vclicks, taps, prevented>>

EndsClicking ==
  /\ ~blockTouchTriggers /\ TH!Listening /\ ~didScroll /\ finger.on \in bound
  /\ blockTouchTriggers' = TRUE /\ didScroll' = FALSE
  /\ TH!Vclick(tapHandlers, finger.on, finger.tap)
  /\ \/ UNCHANGED <<prevented, clickBlockList>>
     \/ /\ prevented' = prevented \cup {finger.tap}
        /\ \A o \in clickBlockList : o \in clickBlockList'
        /\ \E o \in clickBlockList' : o.place = finger.on

Follows(m) ==
  m.tap = finger.tap /\ m.place = finger.on /\ (~Shifts => m.on = finger.on)

LEMMA TouchEnds ==
  ASSUME TH!TouchAssumption, TH!TypeOK, TH!TouchEnd
  PROVE  /\ finger \in Fingers /\ finger # None /\ finger' = None
         /\ UNCHANGED <<bound, touchID, lastTouchID, nextTouchID, clicked>>
         /\ coming' = coming \/ \E m \in MouseEvent : Follows(m) /\ coming' = coming \cup {m}
         /\ EndsQuietly \/ EndsScrolled \/ EndsClicking
<1>1. finger \in Fingers /\ finger # None /\ finger' = None
  BY DEF TH!TouchEnd, TH!TypeOK, TH!Taps, Fingers
<1>2. UNCHANGED <<bound, touchID, lastTouchID, nextTouchID, clicked>>
  BY DEF TH!TouchEnd, TH!handlers
<1>3. coming' = coming \/ \E m \in MouseEvent : Follows(m) /\ coming' = coming \cup {m}
  <2>1. \A m \in TH!MouseEvents(finger) : m \in MouseEvent /\ Follows(m)
    BY <1>1 DEF TH!MouseEvents, MouseEvent, Fingers, Follows, TH!TouchAssumption
  <2>2. coming' = coming \/ \E m \in TH!MouseEvents(finger) : coming' = coming \cup {m}
    BY DEF TH!TouchEnd
  <2> QED
    BY <2>1, <2>2
<1>4. CASE blockTouchTriggers \/ ~TH!Listening
  <2>1. UNCHANGED <<didScroll, blockMouseTriggers, blockTouchTriggers, clickBlockList, resetTimer,
                    tapHandlers, vclicks, taps, prevented>>
    BY <1>4 DEF TH!TouchEnd, TH!blocks
  <2> QED
    BY <1>1, <1>2, <1>3, <1>4, <2>1 DEF EndsQuietly
<1>5. CASE ~blockTouchTriggers /\ TH!Listening
  <2>1. PICK prevents \in BOOLEAN : TH!HandleTouchEnd(prevents)
    BY <1>5 DEF TH!TouchEnd
  <2>2. CASE didScroll \/ finger.on \notin bound
    <3>1. blockTouchTriggers' = TRUE /\ didScroll' = FALSE
      BY <2>1 DEF TH!HandleTouchEnd
    <3>2. UNCHANGED <<clickBlockList, tapHandlers, vclicks, taps, prevented>>
      BY <2>1, <2>2 DEF TH!HandleTouchEnd, TH!NoVclick
    <3> QED
      BY <1>1, <1>2, <1>3, <1>5, <2>2, <3>1, <3>2 DEF EndsScrolled
  <2>3. CASE ~didScroll /\ finger.on \in bound
    <3> DEFINE o == [touchID |-> lastTouchID, place |-> finger.on]
    <3>1. TH!Vclick(tapHandlers, finger.on, finger.tap)
      BY <2>1, <2>3 DEF TH!HandleTouchEnd
    <3>2. blockTouchTriggers' = TRUE /\ didScroll' = FALSE
      BY <2>1 DEF TH!HandleTouchEnd
    <3>3. \/ UNCHANGED <<prevented, clickBlockList>>
          \/ /\ prevented' = prevented \cup {finger.tap}
             /\ clickBlockList' = clickBlockList \cup {o}
      BY <2>1, <2>3 DEF TH!HandleTouchEnd, TH!Blocked
    <3>4. o.place = finger.on
      OBVIOUS
    <3> HIDE DEF o
    <3>5. \/ UNCHANGED <<prevented, clickBlockList>>
          \/ /\ prevented' = prevented \cup {finger.tap}
             /\ \A c \in clickBlockList : c \in clickBlockList'
             /\ \E c \in clickBlockList' : c.place = finger.on
      BY <3>3, <3>4
    <3> QED
      BY <1>1, <1>2, <1>3, <1>5, <2>3, <3>1, <3>2, <3>5 DEF EndsClicking
  <2> QED
    BY <2>2, <2>3
<1> QED
  BY <1>1, <1>2, <1>3, <1>4, <1>5

(* What one mouse event does.                                              *)
LEMMA MouseDoes ==
  ASSUME TH!TypeOK, TH!Mouse
  PROVE  \E m \in coming :
           /\ m \in MouseEvent /\ coming' = coming \ {m}
           /\ clicked' = IF TH!IsBlocked(m) THEN clicked ELSE clicked \cup {m.tap}
           /\ UNCHANGED <<bound, touchID, lastTouchID, nextTouchID, didScroll, blockTouchTriggers,
                          clickBlockList, finger, prevented>>
           /\ \/ UNCHANGED <<vclicks, taps>> /\ (~TH!MouseCounts(m.on) => UNCHANGED tapHandlers)
              \/ /\ TH!MouseCounts(m.on)
                 /\ TH!Vclick(TH!VmouseDown(tapHandlers, m.on), m.on, m.tap)
<1>1. PICK m \in coming :
        /\ coming' = coming \ {m}
        /\ clicked' = IF TH!IsBlocked(m) THEN clicked ELSE clicked \cup {m.tap}
        /\ \/ TH!NoVclick(tapHandlers)
           \/ TH!MouseCounts(m.on) /\ TH!NoVclick(TH!VmouseDown(tapHandlers, m.on))
           \/ TH!MouseCounts(m.on) /\ TH!Vclick(TH!VmouseDown(tapHandlers, m.on), m.on, m.tap)
  BY DEF TH!Mouse
<1>2. UNCHANGED <<bound, touchID, lastTouchID, nextTouchID, didScroll, blockTouchTriggers,
                  clickBlockList, finger, prevented>>
  BY DEF TH!Mouse, TH!handlers, TH!ids, TH!blocks
<1>3. m \in MouseEvent
  BY DEF TH!TypeOK, TH!Taps, MouseEvent
<1> QED
  BY <1>1, <1>2, <1>3 DEF TH!NoVclick

LEMMA DownType ==
  ASSUME TH!TypeOK, NEW e \in Elements
  PROVE  TH!VmouseDown(tapHandlers, e) \in [Elements -> Seq(Elements)]
<1>1. tapHandlers \in [Elements -> Seq(Elements)] /\ Append(tapHandlers[e], e) \in Seq(Elements)
  BY DEF TH!TypeOK
<1> QED
  BY <1>1 DEF TH!VmouseDown

(* Where a finger is put down and where it moves.                          *)
LEMMA TouchStarts ==
  ASSUME TH!TouchAssumption, TH!TypeOK, TH!TouchStart
  PROVE  /\ finger = None /\ nextTouchID \in 1..MaxTaps
         /\ Overlaps \/ coming = {}
         /\ lastTouchID' = nextTouchID /\ nextTouchID' = nextTouchID + 1
         /\ blockTouchTriggers' = FALSE /\ didScroll' = FALSE
         /\ finger' # None /\ finger'.tap = nextTouchID
         /\ finger'.on \in bound /\ finger'.on \in Elements
         /\ touchID'[finger'.on] = nextTouchID
         /\ tapHandlers' = TH!VmouseDown(tapHandlers, finger'.on)
         /\ UNCHANGED <<bound, clickBlockList, coming, vclicks, taps, prevented, clicked>>
<1>1. PICK e \in bound : /\ finger' = [on |-> e, tap |-> nextTouchID, moved |-> FALSE]
                         /\ touchID' = [touchID EXCEPT ![e] = nextTouchID]
                         /\ tapHandlers' = TH!VmouseDown(tapHandlers, e)
                         /\ lastTouchID' = nextTouchID /\ nextTouchID' = nextTouchID + 1
  BY DEF TH!TouchStart
<1>2. e \in Elements /\ nextTouchID \in 1..MaxTaps
  BY DEF TH!TouchStart, TH!TypeOK, TH!TouchAssumption
<1>3. finger' # None /\ finger'.tap = nextTouchID /\ finger'.on = e
  <2>1. finger' \in [on : Elements, tap : Nat, moved : BOOLEAN]
    BY <1>1, <1>2
  <2> QED
    BY <1>1, <2>1 DEF TH!TouchAssumption
<1>4. touchID'[e] = nextTouchID
  BY <1>1, <1>2 DEF TH!TypeOK
<1>5. finger = None /\ (Overlaps \/ coming = {}) /\ blockTouchTriggers' = FALSE /\ didScroll' = FALSE
  BY DEF TH!TouchStart
<1>6. UNCHANGED <<bound, clickBlockList, coming, vclicks, taps, prevented, clicked>>
  BY DEF TH!TouchStart, TH!handlers, TH!outcome
<1> QED
  BY <1>1, <1>2, <1>3, <1>4, <1>5, <1>6

LEMMA TouchMoves ==
  ASSUME TH!TouchAssumption, TH!TypeOK, TH!TouchMove \/ TH!Scroll
  PROVE  /\ finger # None /\ finger' # None
         /\ finger'.on = finger.on /\ finger'.tap = finger.tap
         /\ \/ UNCHANGED <<didScroll, tapHandlers>>
            \/ didScroll' = TRUE /\ didScroll /\ UNCHANGED tapHandlers
            \/ didScroll' = TRUE /\ tapHandlers' = [e \in Elements |-> <<>>]
         /\ UNCHANGED <<bound, touchID, lastTouchID, nextTouchID, blockTouchTriggers,
                        clickBlockList, coming, vclicks, taps, prevented, clicked>>
<1>1. finger \in Fingers /\ finger # None
  BY DEF TH!TouchMove, TH!Scroll, TH!TypeOK, TH!Taps, Fingers
<1>2. PICK b \in BOOLEAN : finger' = [finger EXCEPT !.moved = b]
  BY DEF TH!TouchMove, TH!Scroll
<1>3. finger' \in Fingers /\ finger'.on = finger.on /\ finger'.tap = finger.tap
  BY <1>1, <1>2 DEF Fingers
<1>4. finger' # None
  BY <1>3 DEF Fingers, TH!TouchAssumption
<1>5. \/ UNCHANGED <<didScroll, tapHandlers>>
      \/ didScroll' = TRUE /\ didScroll /\ UNCHANGED tapHandlers
      \/ didScroll' = TRUE /\ tapHandlers' = [e \in Elements |-> <<>>]
  <2>1. CASE TH!TouchMove
    <3>1. PICK far \in BOOLEAN :
            \/ UNCHANGED <<didScroll, tapHandlers>>
            \/ /\ didScroll' = (didScroll \/ far)
               /\ tapHandlers' = IF didScroll' /\ ~didScroll THEN TH!VmouseCancel(tapHandlers)
                                 ELSE tapHandlers
      BY <2>1 DEF TH!TouchMove
    <3> QED
      BY <3>1 DEF TH!VmouseCancel, TH!TypeOK
  <2>2. CASE TH!Scroll
    BY <2>2 DEF TH!Scroll, TH!VmouseCancel, TH!TypeOK
  <2> QED
    BY <2>1, <2>2
<1>6. UNCHANGED <<bound, touchID, lastTouchID, nextTouchID, blockTouchTriggers,
                  clickBlockList, coming, vclicks, taps, prevented, clicked>>
  BY DEF TH!TouchMove, TH!Scroll, TH!handlers, TH!outcome
<1> QED
  BY <1>1, <1>3, <1>4, <1>5, <1>6

(* What TapsFit, BlocksFit and ComesOnce are about stays where no finger   *)
(* and no mouse event does anything.                                       *)
LEMMA BindingsStay ==
  ASSUME TH!Setup \/ TH!Teardown \/ UNCHANGED TH!vars
  PROVE  UNCHANGED <<touchID, lastTouchID, nextTouchID, didScroll, blockTouchTriggers,
                     clickBlockList, finger, coming, vclicks, taps, prevented, clicked>>
BY DEF TH!Setup, TH!Teardown, TH!vars, TH!ids, TH!blocks, TH!outcome, TH!handlers

LEMMA OthersDo ==
  ASSUME TH!TouchCancel \/ TH!ResetTimer
  PROVE  /\ TH!ResetTimer => /\ coming = {} /\ lastTouchID' = 0 /\ clickBlockList' = {}
                             /\ blockTouchTriggers' = TRUE /\ UNCHANGED finger
                             /\ finger # None => Holds
         /\ TH!TouchCancel => /\ Holds /\ finger' = None
                              /\ UNCHANGED <<lastTouchID, clickBlockList, blockTouchTriggers>>
         /\ UNCHANGED <<bound, touchID, nextTouchID, didScroll, tapHandlers, coming, vclicks, taps,
                        prevented, clicked>>
<1>1. CASE TH!TouchCancel
  BY <1>1 DEF TH!TouchCancel, TH!ResetTimer, TH!handlers, TH!ids, TH!blocks, TH!outcome
<1>2. CASE TH!ResetTimer
  BY <1>2 DEF TH!TouchCancel, TH!ResetTimer, TH!handlers, TH!outcome
<1> QED
  BY <1>1, <1>2

LEMMA TapsFitNext ==
  ASSUME TH!TouchAssumption, TouchInv, [TH!Next]_(TH!vars)
  PROVE  TapsFit'
<1>0. TH!TypeOK /\ TapsFit
  BY DEF TouchInv
<1>1. CASE TH!Setup \/ TH!Teardown \/ UNCHANGED TH!vars
  BY <1>0, <1>1, BindingsStay DEF TapsFit, Unmade
<1>2. CASE TH!TouchStart
  <2>1. nextTouchID \in 1..MaxTaps /\ nextTouchID' = nextTouchID + 1 /\ lastTouchID' = nextTouchID
        /\ finger' # None /\ finger'.tap = nextTouchID /\ touchID'[finger'.on] = nextTouchID
        /\ UNCHANGED <<coming, vclicks, taps, prevented, clicked>>
    BY <1>0, <1>2, TouchStarts
  <2>2. \A t \in 1..MaxTaps : t >= nextTouchID => Unmade(t)'
    BY <1>0, <2>1 DEF TapsFit, Unmade
  <2> QED
    BY <2>1, <2>2 DEF TapsFit
<1>3. CASE TH!TouchMove \/ TH!Scroll
  BY <1>0, <1>3, TouchMoves DEF TapsFit, Unmade
<1>4. CASE TH!TouchEnd
  <2>1. finger \in Fingers /\ finger # None /\ finger' = None /\ UNCHANGED <<nextTouchID, clicked>>
    BY <1>0, <1>4, TouchEnds
  <2>2. finger.tap \in 1..MaxTaps /\ finger.tap < nextTouchID /\ finger.on \in Elements
    BY <1>0, <2>1 DEF TapsFit, Fingers
  <2>3. ASSUME NEW t \in 1..MaxTaps, t >= nextTouchID
        PROVE  Unmade(t)'
    <3>1. t # finger.tap /\ Unmade(t)
      BY <1>0, <2>2, <2>3 DEF TapsFit, TH!TypeOK
    <3>2. \A m \in coming' : m.tap # t
      BY <1>0, <1>4, <3>1, TouchEnds DEF Unmade, Follows
    <3>3. t \notin prevented' /\ vclicks'[t] = 0 /\ taps'[t] = 0
      <4>1. CASE EndsQuietly \/ EndsScrolled
        BY <3>1, <4>1 DEF EndsQuietly, EndsScrolled, Unmade
      <4>2. CASE EndsClicking
        <5>1. tapHandlers \in [Elements -> Seq(Elements)] /\ TH!Vclick(tapHandlers, finger.on, finger.tap)
          BY <1>0, <4>2 DEF TH!TypeOK, EndsClicking
        <5>2. vclicks'[t] = vclicks[t] /\ taps'[t] = taps[t]
          BY <1>0, <2>2, <3>1, <5>1, VclickCounts
        <5> QED
          BY <3>1, <4>2, <5>2 DEF EndsClicking, Unmade
      <4> QED
        BY <1>0, <1>4, <4>1, <4>2, TouchEnds
    <3> QED
      BY <2>1, <3>1, <3>2, <3>3 DEF Unmade
  <2> QED
    BY <2>1, <2>3 DEF TapsFit
<1>5. CASE TH!Mouse
  <2>1. PICK m \in coming :
          /\ m \in MouseEvent /\ coming' = coming \ {m}
          /\ clicked' = IF TH!IsBlocked(m) THEN clicked ELSE clicked \cup {m.tap}
          /\ UNCHANGED <<bound, touchID, lastTouchID, nextTouchID, didScroll, blockTouchTriggers,
                         clickBlockList, finger, prevented>>
          /\ \/ UNCHANGED <<vclicks, taps>> /\ (~TH!MouseCounts(m.on) => UNCHANGED tapHandlers)
             \/ /\ TH!MouseCounts(m.on)
                /\ TH!Vclick(TH!VmouseDown(tapHandlers, m.on), m.on, m.tap)
    BY <1>0, <1>5, MouseDoes
  <2>2. m.on \in Elements /\ m.tap \in 1..MaxTaps
    BY <2>1 DEF MouseEvent
  <2>3. ASSUME NEW t \in 1..MaxTaps, Unmade(t)
        PROVE  Unmade(t)'
    <3>1. t # m.tap
      BY <2>1, <2>3 DEF Unmade
    <3>2. vclicks'[t] = vclicks[t] /\ taps'[t] = taps[t]
      <4>1. CASE TH!Vclick(TH!VmouseDown(tapHandlers, m.on), m.on, m.tap)
        <5> DEFINE hs == TH!VmouseDown(tapHandlers, m.on)
        <5>1. hs \in [Elements -> Seq(Elements)]
          BY <1>0, <2>2, DownType
        <5>2. TH!Vclick(hs, m.on, m.tap)
          BY <4>1
        <5> HIDE DEF hs
        <5> QED
          BY <1>0, <2>2, <2>3, <3>1, <5>1, <5>2, VclickCounts
      <4> QED
        BY <2>1, <4>1
    <3>3. t \notin clicked'
      BY <2>1, <2>3, <3>1 DEF Unmade
    <3>4. t \notin prevented' /\ \A n \in coming' : n.tap # t
      BY <2>1, <2>3 DEF Unmade
    <3> QED
      BY <2>3, <3>2, <3>3, <3>4 DEF Unmade
  <2>4. finger # None => finger.tap \in 1..MaxTaps
    BY <1>0 DEF TH!TypeOK, TH!Taps
  <2>5. UNCHANGED <<finger, nextTouchID, blockTouchTriggers, lastTouchID, touchID>>
    BY <2>1
  <2> QED
    BY <1>0, <2>3, <2>4, <2>5 DEF TapsFit
<1>6. CASE TH!TouchCancel \/ TH!ResetTimer
  BY <1>0, <1>6, OthersDo DEF TapsFit, Unmade
<1> QED
  BY <1>1, <1>2, <1>3, <1>4, <1>5, <1>6 DEF TH!Next

LEMMA BlocksFitNext ==
  ASSUME TH!TouchAssumption, TouchInv, [TH!Next]_(TH!vars)
  PROVE  BlocksFit' /\ TH!PreventedIsNotClicked'
<1>0. TH!TypeOK /\ TapsFit /\ BlocksFit /\ TH!PreventedIsNotClicked
  BY DEF TouchInv
<1>1. CASE TH!Setup \/ TH!Teardown \/ UNCHANGED TH!vars
  BY <1>0, <1>1, BindingsStay DEF BlocksFit, TH!PreventedIsNotClicked
<1>2. CASE TH!TouchStart
  BY <1>0, <1>2, TouchStarts DEF BlocksFit, TH!PreventedIsNotClicked
<1>3. CASE TH!TouchMove \/ TH!Scroll
  BY <1>0, <1>3, TouchMoves DEF BlocksFit, TH!PreventedIsNotClicked
<1>4. CASE TH!TouchEnd
  <2>1. finger \in Fingers /\ finger # None /\ UNCHANGED clicked
    BY <1>0, <1>4, TouchEnds
  <2>2. Unmade(finger.tap)
    BY <1>0, <2>1 DEF TapsFit
  <2>3. coming' = coming \/ \E m \in MouseEvent : Follows(m) /\ coming' = coming \cup {m}
    BY <1>0, <1>4, TouchEnds
  <2>4. \/ UNCHANGED <<prevented, clickBlockList>>
        \/ /\ prevented' = prevented \cup {finger.tap}
           /\ \A o \in clickBlockList : o \in clickBlockList'
           /\ \E o \in clickBlockList' : o.place = finger.on
    BY <1>0, <1>4, TouchEnds DEF EndsQuietly, EndsScrolled, EndsClicking
  <2>5. BlocksFit'
    <3>1. SUFFICES ASSUME NEW m \in coming', m.tap \in prevented'
                   PROVE  \E o \in clickBlockList' : o.place = m.place
      BY DEF BlocksFit
    <3>2. CASE m \in coming
      BY <1>0, <2>2, <2>4, <3>1, <3>2 DEF BlocksFit, Unmade
    <3>3. CASE m \notin coming
      <4>1. m.tap = finger.tap /\ m.place = finger.on
        BY <2>3, <3>3 DEF Follows
      <4> QED
        BY <2>2, <2>4, <3>1, <4>1 DEF Unmade
    <3> QED
      BY <3>2, <3>3
  <2>6. TH!PreventedIsNotClicked'
    BY <1>0, <2>1, <2>2, <2>4 DEF TH!PreventedIsNotClicked, Unmade
  <2> QED
    BY <2>5, <2>6
<1>5. CASE TH!Mouse
  <2>1. PICK m \in coming :
          /\ m \in MouseEvent /\ coming' = coming \ {m}
          /\ clicked' = IF TH!IsBlocked(m) THEN clicked ELSE clicked \cup {m.tap}
          /\ UNCHANGED <<clickBlockList, prevented>>
    BY <1>0, <1>5, MouseDoes
  <2>2. m.tap \in prevented => TH!IsBlocked(m)
    BY <1>0 DEF BlocksFit, TH!IsBlocked
  <2>3. TH!PreventedIsNotClicked'
    BY <1>0, <2>1, <2>2 DEF TH!PreventedIsNotClicked
  <2> QED
    BY <1>0, <2>1, <2>3 DEF BlocksFit
<1>6. CASE TH!TouchCancel \/ TH!ResetTimer
  BY <1>0, <1>6, OthersDo DEF BlocksFit, TH!PreventedIsNotClicked
<1> QED
  BY <1>1, <1>2, <1>3, <1>4, <1>5, <1>6 DEF TH!Next

LEMMA ComesOnceNext ==
  ASSUME TH!TouchAssumption, TouchInv, [TH!Next]_(TH!vars)
  PROVE  ComesOnce'
<1> SUFFICES ASSUME ~Overlaps, ~Shifts
             PROVE  /\ finger' # None => coming' = {}
                    /\ \A m, n \in coming' : m = n
                    /\ \A m \in coming' :
                         vclicks'[m.tap] = 0 \/ (lastTouchID' # 0 /\ lastTouchID' = touchID'[m.on])
                    /\ \A t \in 1..MaxTaps : vclicks'[t] <= 1
  BY DEF ComesOnce
<1>0. TH!TypeOK /\ TapsFit
  BY DEF TouchInv
<1>a. /\ finger # None => coming = {}
      /\ \A m, n \in coming : m = n
      /\ \A m \in coming : vclicks[m.tap] = 0 \/ (lastTouchID # 0 /\ lastTouchID = touchID[m.on])
      /\ \A t \in 1..MaxTaps : vclicks[t] <= 1
  <2>1. ComesOnce
    BY DEF TouchInv
  <2> QED
    BY <2>1 DEF ComesOnce
<1>1. CASE TH!Setup \/ TH!Teardown \/ UNCHANGED TH!vars
  BY <1>a, <1>1, BindingsStay
<1>2. CASE TH!TouchStart
  BY <1>0, <1>a, <1>2, TouchStarts
<1>3. CASE TH!TouchMove \/ TH!Scroll
  BY <1>0, <1>a, <1>3, TouchMoves
<1>4. CASE TH!TouchEnd
  <2>1. finger \in Fingers /\ finger # None /\ finger' = None
        /\ UNCHANGED <<touchID, lastTouchID>>
    BY <1>0, <1>4, TouchEnds
  <2>2. /\ finger.tap \in 1..MaxTaps /\ finger.on \in Elements
        /\ vclicks[finger.tap] = 0 /\ coming = {}
        /\ ~blockTouchTriggers => lastTouchID = finger.tap /\ touchID[finger.on] = finger.tap
    BY <1>0, <1>a, <2>1 DEF TapsFit, Unmade, Fingers
  <2>3. coming' = {} \/ \E m \in MouseEvent : Follows(m) /\ coming' = {m}
    BY <1>0, <1>4, <2>2, TouchEnds
  <2>4. \A m \in coming' : m.tap = finger.tap /\ m.on = finger.on
    BY <2>3 DEF Follows
  <2>5. CASE EndsQuietly \/ EndsScrolled
    <3>1. vclicks' = vclicks
      BY <2>5 DEF EndsQuietly, EndsScrolled
    <3>2. \A m, n \in coming' : m = n
      BY <2>3
    <3>3. \A m \in coming' : vclicks'[m.tap] = 0
      BY <2>2, <2>4, <3>1
    <3> QED
      BY <1>a, <2>1, <3>1, <3>2, <3>3
  <2>6. CASE EndsClicking
    <3>1. tapHandlers \in [Elements -> Seq(Elements)] /\ TH!Vclick(tapHandlers, finger.on, finger.tap)
          /\ ~blockTouchTriggers
      BY <1>0, <2>6 DEF TH!TypeOK, EndsClicking
    <3>2. /\ \A u \in 1..MaxTaps : u # finger.tap => vclicks'[u] = vclicks[u]
          /\ vclicks'[finger.tap] = 1
      BY <1>0, <2>2, <3>1, VclickCounts
    <3>3. lastTouchID' # 0 /\ lastTouchID' = touchID'[finger.on]
      BY <2>1, <2>2, <3>1
    <3> QED
      BY <1>a, <2>1, <2>2, <2>3, <2>4, <3>2, <3>3
  <2> QED
    BY <1>0, <1>4, <2>5, <2>6, TouchEnds
<1>5. CASE TH!Mouse
  <2>1. PICK m \in coming :
          /\ m \in MouseEvent /\ coming' = coming \ {m}
          /\ UNCHANGED <<touchID, lastTouchID, finger>>
          /\ \/ UNCHANGED vclicks
             \/ /\ TH!MouseCounts(m.on)
                /\ TH!Vclick(TH!VmouseDown(tapHandlers, m.on), m.on, m.tap)
    BY <1>0, <1>5, MouseDoes
  <2>2. m.on \in Elements /\ m.tap \in 1..MaxTaps
    BY <2>1 DEF MouseEvent
  <2>3. coming' = {}
    BY <1>a, <2>1
  <2>4. \A t \in 1..MaxTaps : vclicks'[t] <= 1
    <3>1. CASE TH!MouseCounts(m.on) /\ TH!Vclick(TH!VmouseDown(tapHandlers, m.on), m.on, m.tap)
      <4> DEFINE hs == TH!VmouseDown(tapHandlers, m.on)
      <4>1. hs \in [Elements -> Seq(Elements)]
        BY <1>0, <2>2, DownType
      <4>2. TH!Vclick(hs, m.on, m.tap)
        BY <3>1
      <4>3. vclicks[m.tap] = 0
        BY <1>a, <3>1 DEF TH!MouseCounts
      <4> HIDE DEF hs
      <4>4. /\ \A u \in 1..MaxTaps : u # m.tap => vclicks'[u] = vclicks[u]
            /\ vclicks'[m.tap] = 0 + 1
        BY <1>0, <2>2, <4>1, <4>2, <4>3, VclickCounts
      <4> QED
        BY <1>a, <4>4
    <3> QED
      BY <1>a, <2>1, <3>1
  <2> QED
    BY <2>3, <2>4
<1>6. CASE TH!TouchCancel \/ TH!ResetTimer
  BY <1>0, <1>a, <1>6, OthersDo
<1> QED
  BY <1>1, <1>2, <1>3, <1>4, <1>5, <1>6 DEF TH!Next

LEMMA HandlersFitNext ==
  ASSUME TH!TouchAssumption, TouchInv, [TH!Next]_(TH!vars)
  PROVE  HandlersFit'
<1> SUFFICES ASSUME ~Overlaps, ~Shifts, ~Holds
             PROVE  /\ finger' # None => ~blockTouchTriggers' /\ finger'.on \in bound'
                    /\ \A e \in Elements :
                         tapHandlers'[e] = IF finger' # None /\ finger'.on = e /\ ~didScroll'
                                           THEN <<e>> ELSE <<>>
                    /\ \A m \in coming' : lastTouchID' # 0 /\ lastTouchID' = touchID'[m.on]
                    /\ \A t \in 1..MaxTaps : taps'[t] <= 1
  BY DEF HandlersFit
<1>0. TH!TypeOK /\ TapsFit
  BY DEF TouchInv
<1>a. /\ finger # None => ~blockTouchTriggers /\ finger.on \in bound
      /\ \A e \in Elements :
           tapHandlers[e] = IF finger # None /\ finger.on = e /\ ~didScroll THEN <<e>> ELSE <<>>
      /\ \A m \in coming : lastTouchID # 0 /\ lastTouchID = touchID[m.on]
      /\ \A t \in 1..MaxTaps : taps[t] <= 1
  BY DEF TouchInv, HandlersFit
<1>b. finger # None => coming = {}
  BY DEF TouchInv, ComesOnce
<1>1. CASE TH!Setup \/ TH!Teardown \/ UNCHANGED TH!vars
  <2>1. UNCHANGED <<touchID, lastTouchID, didScroll, blockTouchTriggers, finger, coming, taps>>
    BY <1>1, BindingsStay
  <2>2. CASE TH!Setup
    <3>1. bound \subseteq bound' /\ UNCHANGED tapHandlers
      BY <2>2 DEF TH!Setup
    <3> QED
      BY <1>a, <2>1, <3>1
  <2>3. CASE TH!Teardown
    <3>1. PICK e \in bound : tapHandlers' = [tapHandlers EXCEPT ![e] = <<>>]
      BY <2>3 DEF TH!Teardown
    <3>2. finger = None
      BY <2>3 DEF TH!Teardown
    <3>3. \A d \in Elements : tapHandlers'[d] = <<>>
      BY <1>0, <1>a, <3>1, <3>2 DEF TH!TypeOK
    <3> QED
      BY <1>a, <2>1, <3>2, <3>3
  <2>4. CASE UNCHANGED TH!vars
    BY <1>a, <2>1, <2>4 DEF TH!vars, TH!handlers
  <2> QED
    BY <1>1, <2>2, <2>3, <2>4
<1>2. CASE TH!TouchStart
  <2>1. /\ finger = None /\ coming = {} /\ UNCHANGED <<coming, bound, taps>>
        /\ blockTouchTriggers' = FALSE /\ didScroll' = FALSE
        /\ finger' # None /\ finger'.on \in bound /\ finger'.on \in Elements
        /\ tapHandlers' = TH!VmouseDown(tapHandlers, finger'.on)
    BY <1>0, <1>2, TouchStarts
  <2>2. \A e \in Elements : tapHandlers[e] = <<>>
    BY <1>a, <2>1
  <2>3. tapHandlers' = [tapHandlers EXCEPT ![finger'.on] = Append(<<>>, finger'.on)]
    BY <2>1, <2>2 DEF TH!VmouseDown
  <2>4. Append(<<>>, finger'.on) = <<finger'.on>>
    OBVIOUS
  <2>5. \A e \in Elements : tapHandlers'[e] = IF finger'.on = e THEN <<e>> ELSE <<>>
    BY <1>0, <2>1, <2>2, <2>3, <2>4 DEF TH!TypeOK
  <2> QED
    BY <1>a, <2>1, <2>5
<1>3. CASE TH!TouchMove \/ TH!Scroll
  <2>1. /\ finger # None /\ finger' # None /\ finger'.on = finger.on
        /\ \/ UNCHANGED <<didScroll, tapHandlers>>
           \/ didScroll' = TRUE /\ didScroll /\ UNCHANGED tapHandlers
           \/ didScroll' = TRUE /\ tapHandlers' = [e \in Elements |-> <<>>]
        /\ UNCHANGED <<bound, touchID, lastTouchID, blockTouchTriggers, coming, taps>>
    BY <1>0, <1>3, TouchMoves
  <2> QED
    BY <1>a, <2>1
<1>4. CASE TH!TouchEnd
  <2>1. /\ finger \in Fingers /\ finger # None /\ finger' = None
        /\ UNCHANGED <<bound, touchID, lastTouchID>>
        /\ coming' = coming \/ \E m \in MouseEvent : Follows(m) /\ coming' = coming \cup {m}
        /\ EndsQuietly \/ EndsScrolled \/ EndsClicking
    BY <1>0, <1>4, TouchEnds
  <2>2. /\ finger.tap \in 1..MaxTaps /\ finger.on \in Elements /\ finger.on \in bound
        /\ taps[finger.tap] = 0 /\ coming = {}
        /\ lastTouchID = finger.tap /\ touchID[finger.on] = finger.tap
    BY <1>0, <1>a, <1>b, <2>1 DEF TapsFit, Unmade, Fingers
  <2>3. \A m \in coming' : lastTouchID' # 0 /\ lastTouchID' = touchID'[m.on]
    BY <2>1, <2>2 DEF Follows
  <2>4. CASE EndsQuietly
    <3>1. IsFiniteSet(bound) /\ activeDocHandlers = Cardinality(bound)
      BY <1>0, SameSets, FS_Subset DEF TH!TypeOK, TH!TouchAssumption
    <3>2. Cardinality(bound) \in Nat /\ Cardinality(bound) # 0
      BY <2>2, <3>1, FS_CardinalityType, FS_EmptySet
    <3> QED
      BY <1>a, <2>1, <2>4, <3>1, <3>2 DEF EndsQuietly, TH!Listening
  <2>5. CASE EndsScrolled
    <3>1. didScroll /\ UNCHANGED <<tapHandlers, taps>>
      BY <2>2, <2>5 DEF EndsScrolled
    <3> QED
      BY <1>a, <2>1, <2>3, <3>1
  <2>6. CASE EndsClicking
    <3>1. tapHandlers \in [Elements -> Seq(Elements)] /\ TH!Vclick(tapHandlers, finger.on, finger.tap)
          /\ ~didScroll
      BY <1>0, <2>6 DEF TH!TypeOK, EndsClicking
    <3>2. tapHandlers[finger.on] = <<finger.on>>
      BY <1>a, <2>1, <2>2, <3>1
    <3>3. /\ \A u \in 1..MaxTaps : u # finger.tap => taps'[u] = taps[u]
          /\ taps'[finger.tap] = taps[finger.tap] + Len(tapHandlers[finger.on])
          /\ tapHandlers' = [tapHandlers EXCEPT ![finger.on] = <<>>]
      <4> DEFINE e == finger.on
                 t == finger.tap
      <4>1. e \in Elements /\ t \in 1..MaxTaps /\ TH!Vclick(tapHandlers, e, t)
        BY <2>2, <3>1
      <4> HIDE DEF e, t
      <4>2. /\ \A u \in 1..MaxTaps : u # t => taps'[u] = taps[u]
            /\ taps'[t] = taps[t] + Len(tapHandlers[e])
            /\ tapHandlers' = [tapHandlers EXCEPT ![e] = <<>>]
        BY <1>0, <3>1, <4>1, VclickCounts
      <4> QED
        BY <4>2 DEF e, t
    <3>6. Len(tapHandlers[finger.on]) = 1
      BY <3>2
    <3>4. \A t \in 1..MaxTaps : taps'[t] <= 1
      BY <1>a, <2>2, <3>3, <3>6
    <3>5. \A e \in Elements : tapHandlers'[e] = <<>>
      BY <1>a, <2>2, <3>1, <3>3
    <3> QED
      BY <2>1, <2>3, <3>4, <3>5
  <2> QED
    BY <2>1, <2>4, <2>5, <2>6
<1>5. CASE TH!Mouse
  <2>1. PICK m \in coming :
          /\ coming' = coming \ {m}
          /\ UNCHANGED <<bound, touchID, lastTouchID, didScroll, blockTouchTriggers, finger>>
          /\ \/ UNCHANGED taps /\ (~TH!MouseCounts(m.on) => UNCHANGED tapHandlers)
             \/ TH!MouseCounts(m.on)
    BY <1>0, <1>5, MouseDoes
  <2>2. ~TH!MouseCounts(m.on)
    BY <1>a DEF TH!MouseCounts
  <2> QED
    BY <1>a, <2>1, <2>2
<1>6. CASE TH!TouchCancel \/ TH!ResetTimer
  BY <1>0, <1>a, <1>6, OthersDo
<1> QED
  BY <1>1, <1>2, <1>3, <1>4, <1>5, <1>6 DEF TH!Next

LEMMA TouchNext == TH!TouchAssumption /\ TouchInv /\ [TH!Next]_(TH!vars) => TouchInv'
<1> SUFFICES ASSUME TH!TouchAssumption, TouchInv, [TH!Next]_(TH!vars) PROVE TouchInv'
  OBVIOUS
<1>1. TH!TypeOK'
  BY TouchType DEF TouchInv
<1> QED
  BY <1>1, TapsFitNext, BlocksFitNext, ComesOnceNext, HandlersFitNext DEF TouchInv

LEMMA TouchKept == TouchInv => TH!TapsAreOnce
BY DEF TouchInv, ComesOnce, HandlersFit, TH!TapsAreOnce, TH!OneVclick, TH!OneTap, TH!Taps

(* A tap that was prevented never comes as a click; where touches do not   *)
(* overlap and their mouse events hit the same element, no tap makes two   *)
(* vclicks, and when the finger does not stay no two taps either.          *)
THEOREM TapsAreTold == ASSUME TH!TouchAssumption PROVE TH!Spec => []TH!TapsAreOnce
<1>1. TH!Init => TouchInv
  BY TouchInit
<1>2. TouchInv /\ [TH!Next]_(TH!vars) => TouchInv'
  BY TouchNext
<1>3. TouchInv => TH!TapsAreOnce
  BY TouchKept
<1> QED
  BY <1>1, <1>2, <1>3, PTL DEF TH!Spec

-----------------------------------------------------------------------------
(* The panels of a page *)

CONSTANTS Panels, PanelsMove, Patience, Hides, PanelMoves
VARIABLES open, shownPanels, completes, moving, timeouts, there, waitingPanels,
          pagePanelOpen, listens, page

PA == INSTANCE Panel WITH
  Animated <- PanelsMove, MaxMoves <- PanelMoves, shown <- shownPanels, waiting <- waitingPanels

PanelKinds == {"open", "close"}

(* A user who waits for a panel to come opens the next when no panel is to *)
(* come any more: at most one is open, and at most that one waits.         *)
OneOpens ==
  /\ \A p, q \in Panels : open[p] /\ open[q] => p = q
  /\ \A p \in Panels : shownPanels[p] => open[p]
  /\ waitingPanels # <<>> =>
       \E w \in Panels : waitingPanels = <<w>> /\ open[w] /\ ~shownPanels[w]

(* What the panel p has to do before all rests, and in which way it will   *)
(* be told: at the end of its transition or by a timeout.                  *)
NoneDue == [p \in Panels |-> <<>>]
OnTransition(p, kind) ==
  /\ PanelsMove /\ completes = [NoneDue EXCEPT ![p] = <<kind>>] /\ timeouts = <<>>
  /\ \A q \in Panels : moving[q] <=> q = p
OnTimeout(p, kind) ==
  completes = NoneDue /\ timeouts = <<<<p, kind>>>> /\ \A q \in Panels : ~moving[q]
DuePanel(p, kind) == OnTransition(p, kind) \/ OnTimeout(p, kind)

NoneOpen == \A p \in Panels : ~open[p]

Rested ==
  /\ completes = NoneDue /\ timeouts = <<>> /\ (\A p \in Panels : ~moving[p])
  /\ waitingPanels = <<>> /\ (there <=> ~NoneOpen) /\ (pagePanelOpen => ~NoneOpen)

(* Users who wait until all rests leave one thing to be done.              *)
PanelsRest ==
  \/ Rested
  \/ \E p \in Panels : /\ DuePanel(p, "open") /\ there /\ open[p] /\ waitingPanels = <<>>
  \/ \E p \in Panels : /\ DuePanel(p, "close") /\ there /\ ~pagePanelOpen
                       /\ waitingPanels = <<>> => NoneOpen

PanelInv ==
  /\ PA!TypeOK
  /\ Patience # "none" => OneOpens
  /\ Patience = "rests" => PanelsRest

LEMMA SetsToSeqs ==
  ASSUME NEW S, IsFiniteSet(S)
  PROVE  /\ PA!SetToSeq(S) \in [1..Cardinality(S) -> S] /\ Cardinality(S) \in Nat
         /\ PA!SetToSeq(S) \in Seq(S) /\ Len(PA!SetToSeq(S)) = Cardinality(S)
<1> DEFINE n == Cardinality(S)
<1>1. n \in Nat /\ \E f \in [1..n -> S] : PA!IsInjective(f)
  <2>1. n \in Nat /\ ExistsBijection(1..n, S)
    BY FS_CardinalityType
  <2>2. PICK f \in [1..n -> S] : \A i, j \in 1..n : i # j => f[i] # f[j]
    BY <2>1 DEF ExistsBijection, Bijection, Injection, Surjection, IsInjective
  <2>3. PA!IsInjective(f)
    BY <2>2 DEF PA!IsInjective
  <2> QED
    BY <2>1, <2>3
<1>2. PA!SetToSeq(S) \in [1..n -> S]
  BY <1>1 DEF PA!SetToSeq, PA!Cardinality, Cardinality
<1> HIDE DEF n
<1>3. PA!SetToSeq(S) \in Seq(S) /\ Len(PA!SetToSeq(S)) = n
  BY <1>1, <1>2
<1> QED
  BY <1>1, <1>2, <1>3 DEF n

LEMMA SoonIs ==
  ASSUME PA!PanelAssumption, NEW ps, ps \subseteq Panels, NEW kind \in PanelKinds
  PROVE  /\ PA!Soon(ps, kind) \in Seq(Panels \X PanelKinds)
         /\ ps = {} => PA!Soon(ps, kind) = <<>>
         /\ \A p : ps = {p} => PA!Soon(ps, kind) = <<<<p, kind>>>>
<1>1. IsFiniteSet(ps)
  <2>1. IsFiniteSet(Panels)
    BY DEF PA!PanelAssumption, PA!IsFiniteSet, IsFiniteSet
  <2> QED
    BY <2>1, FS_Subset
<1> DEFINE f == PA!SetToSeq(ps)  n == Cardinality(ps)
<1>2. f \in [1..n -> ps] /\ n \in Nat /\ Len(f) = n
  BY <1>1, SetsToSeqs
<1>3. PA!Soon(ps, kind) = [i \in 1..Len(f) |-> <<f[i], kind>>]
  BY DEF PA!Soon
<1> HIDE DEF f, n
<1>4. PA!Soon(ps, kind) = [i \in 1..n |-> <<f[i], kind>>]
  BY <1>2, <1>3
<1>5. PA!Soon(ps, kind) \in Seq(Panels \X PanelKinds)
  <2>1. \A i \in 1..n : <<f[i], kind>> \in Panels \X PanelKinds
    BY <1>2
  <2>2. [i \in 1..n |-> <<f[i], kind>>] \in [1..n -> Panels \X PanelKinds]
    BY <2>1
  <2> QED
    BY <1>2, <1>4, <2>2
<1>6. ASSUME ps = {} PROVE PA!Soon(ps, kind) = <<>>
  <2>1. n = 0
    BY <1>6, FS_EmptySet DEF n
  <2> QED
    BY <1>4, <2>1
<1>7. ASSUME NEW p, ps = {p} PROVE PA!Soon(ps, kind) = <<<<p, kind>>>>
  <2>1. n = 1
    BY <1>7, FS_Singleton DEF n
  <2>2. f[1] = p
    BY <1>2, <1>7, <2>1
  <2> QED
    BY <1>4, <2>1, <2>2
<1> QED
  BY <1>5, <1>6, <1>7

LEMMA TimeoutsAre ==
  ASSUME PA!PanelAssumption, NEW ps, ps \subseteq Panels, NEW kind \in PanelKinds
  PROVE  /\ PA!Timeouts(ps, kind) \in Seq(Panels \X PanelKinds)
         /\ PanelsMove \/ ps = {} => PA!Timeouts(ps, kind) = <<>>
         /\ ~PanelsMove => \A p : ps = {p} => PA!Timeouts(ps, kind) = <<<<p, kind>>>>
<1>1. <<>> \in Seq(Panels \X PanelKinds)
  OBVIOUS
<1>2. PA!Timeouts(ps, kind) = IF PanelsMove THEN <<>> ELSE PA!Soon(ps, kind)
  BY DEF PA!Timeouts
<1> QED
  BY <1>1, <1>2, SoonIs

LEMMA BindIs ==
  ASSUME NEW bindings0 \in [Panels -> Seq(PanelKinds)], NEW ps, NEW kind \in PanelKinds
  PROVE  /\ PA!Bind(bindings0, ps, kind) \in [Panels -> Seq(PanelKinds)]
         /\ ps = {} \/ ~PanelsMove => PA!Bind(bindings0, ps, kind) = bindings0
         /\ PanelsMove => \A p \in Panels :
              ps = {p} => PA!Bind(bindings0, ps, kind) = [bindings0 EXCEPT ![p] = Append(bindings0[p], kind)]
<1>1. \A p \in Panels : bindings0[p] \in Seq(PanelKinds) /\ Append(bindings0[p], kind) \in Seq(PanelKinds)
  OBVIOUS
<1> QED
  BY <1>1 DEF PA!Bind

LEMMA AmongIs ==
  ASSUME NEW values \in [Panels -> BOOLEAN], NEW value \in BOOLEAN, NEW ps
  PROVE  /\ PA!Among(ps, value, values) \in [Panels -> BOOLEAN]
         /\ \A p \in Panels : PA!Among(ps, value, values)[p] = IF p \in ps THEN value ELSE values[p]
BY DEF PA!Among

LEMMA Joined ==
  ASSUME NEW S, NEW s \in Seq(S), NEW t \in Seq(S)
  PROVE  s \o t \in Seq(S)
OBVIOUS

LEMMA RangeIn == ASSUME NEW S, NEW s \in Seq(S) PROVE PA!Range(s) \subseteq S
BY DEF PA!Range

LEMMA PanelFields ==
  PA!TypeOK <=>
    /\ open \in [Panels -> BOOLEAN] /\ shownPanels \in [Panels -> BOOLEAN]
    /\ moving \in [Panels -> BOOLEAN] /\ listens \in [Panels -> BOOLEAN]
    /\ completes \in [Panels -> Seq(PanelKinds)]
    /\ timeouts \in Seq(Panels \X PanelKinds)
    /\ there \in BOOLEAN /\ waitingPanels \in Seq(Panels) /\ pagePanelOpen \in BOOLEAN
    /\ page \in BOOLEAN /\ moves \in 0..PanelMoves
BY DEF PA!TypeOK, PanelKinds

LEMMA OpenType ==
  ASSUME PA!PanelAssumption, PA!TypeOK, PA!Moved, NEW p \in Panels, PA!Open(p)
  PROVE  PA!TypeOK'
<1>0. PanelsMove \in BOOLEAN /\ moves' \in 0..PanelMoves
  BY PanelFields DEF PA!PanelAssumption, PA!Moved
<1> DEFINE others == PA!Others(p)
           opened == IF there THEN {} ELSE {p}
<1>1. others \subseteq Panels /\ opened \subseteq Panels
  BY DEF PA!Others
<1>2. /\ open' = [PA!Among(others, FALSE, open) EXCEPT ![p] = TRUE]
      /\ shownPanels' = PA!Among(opened, TRUE, PA!Among(others, FALSE, shownPanels))
      /\ completes' = PA!Bind(PA!Bind(completes, others, "close"), opened, "open")
      /\ moving' = PA!Among(others \cup opened, PanelsMove, moving)
      /\ timeouts' = timeouts \o PA!Timeouts(others, "close") \o PA!Timeouts(opened, "open")
      /\ waitingPanels' = IF there THEN Append(waitingPanels, p) ELSE <<>>
      /\ there' = TRUE /\ pagePanelOpen' \in BOOLEAN /\ UNCHANGED <<listens, page>>
  BY PanelFields DEF PA!Open, PA!Waits, PA!TakenOff
<1> HIDE DEF others, opened
<1> DEFINE hidden1 == PA!Among(others, FALSE, shownPanels)
<1>a. hidden1 \in [Panels -> BOOLEAN] /\ PA!Among(others, FALSE, open) \in [Panels -> BOOLEAN]
  BY PanelFields, AmongIs
<1>b. shownPanels' = PA!Among(opened, TRUE, hidden1)
  BY <1>2
<1> HIDE DEF hidden1
<1>c. shownPanels' \in [Panels -> BOOLEAN]
  BY <1>a, <1>b, AmongIs
<1>d. open' \in [Panels -> BOOLEAN]
  BY <1>2, <1>a
<1>e. moving' \in [Panels -> BOOLEAN]
  <2>1. moving \in [Panels -> BOOLEAN]
    BY PanelFields
  <2> DEFINE all1 == others \cup opened
  <2>2. moving' = PA!Among(all1, PanelsMove, moving)
    BY <1>2
  <2> HIDE DEF all1
  <2> QED
    BY <1>0, <2>1, <2>2, AmongIs
<1>3. open' \in [Panels -> BOOLEAN] /\ shownPanels' \in [Panels -> BOOLEAN] /\ moving' \in [Panels -> BOOLEAN]
  BY <1>c, <1>d, <1>e
<1>4. completes' \in [Panels -> Seq(PanelKinds)]
  BY <1>2, PanelFields, BindIs DEF PanelKinds
<1>5. timeouts' \in Seq(Panels \X PanelKinds)
  <2>1. PA!Timeouts(others, "close") \in Seq(Panels \X PanelKinds)
        /\ PA!Timeouts(opened, "open") \in Seq(Panels \X PanelKinds)
    BY <1>1, TimeoutsAre DEF PanelKinds
  <2>2. timeouts \o PA!Timeouts(others, "close") \in Seq(Panels \X PanelKinds)
    BY <2>1, PanelFields, Joined
  <2> QED
    BY <1>2, <2>1, <2>2, Joined
<1>6. waitingPanels' \in Seq(Panels)
  BY <1>2, PanelFields
<1> QED
  BY <1>0, <1>2, <1>3, <1>4, <1>5, <1>6, PanelFields DEF PA!TypeOK, PanelKinds

LEMMA CloseType ==
  ASSUME PA!PanelAssumption, PA!TypeOK, PA!Moved, NEW p \in Panels, PA!Close(p)
  PROVE  PA!TypeOK'
<1>0. PanelsMove \in BOOLEAN /\ moves' \in 0..PanelMoves
  BY PanelFields DEF PA!PanelAssumption, PA!Moved
<1>1. /\ open' = [open EXCEPT ![p] = FALSE] /\ shownPanels' = [shownPanels EXCEPT ![p] = FALSE]
      /\ completes' = PA!Bind(completes, {p}, "close") /\ moving' = [moving EXCEPT ![p] = PanelsMove]
      /\ timeouts' = timeouts \o PA!Timeouts({p}, "close")
      /\ pagePanelOpen' \in BOOLEAN /\ UNCHANGED <<listens, there, waitingPanels, page>>
  BY PanelFields DEF PA!Close
<1>2. timeouts' \in Seq(Panels \X PanelKinds)
  <2>1. PA!Timeouts({p}, "close") \in Seq(Panels \X PanelKinds)
    BY TimeoutsAre DEF PanelKinds
  <2> QED
    BY <1>1, <2>1, PanelFields, Joined
<1>3. completes' \in [Panels -> Seq(PanelKinds)]
  BY <1>1, PanelFields, BindIs DEF PanelKinds
<1> QED
  BY <1>0, <1>1, <1>2, <1>3, PanelFields DEF PA!TypeOK, PanelKinds

LEMMA CompleteType ==
  ASSUME PA!PanelAssumption, PA!TypeOK, NEW p \in Panels, NEW kinds \in Seq(PanelKinds), kinds # <<>>,
         NEW left \in Seq(PanelKinds), PA!Complete(p, kinds, left),
         timeouts' \in Seq(Panels \X PanelKinds)
  PROVE  PA!TypeOK'
<1> DEFINE closes == PA!Contains(kinds, "close")
           opened == IF closes THEN PA!Range(waitingPanels) ELSE {}
           cut == [completes EXCEPT ![p] = left]
           rests == [moving EXCEPT ![p] = moving[p] /\ left # <<>>]
<1>1. /\ shownPanels' = PA!Among(opened, TRUE, shownPanels)
      /\ completes' = PA!Bind(cut, opened, "open")
      /\ moving' = PA!Among(opened, PanelsMove, rests)
      /\ there' = IF opened # {} THEN TRUE ELSE IF closes THEN FALSE ELSE there
      /\ waitingPanels' = IF closes THEN <<>> ELSE waitingPanels
      /\ pagePanelOpen' = (pagePanelOpen \/ PA!Contains(kinds, "open"))
      /\ listens' = [listens EXCEPT ![p] = PA!Last(kinds) = "open"]
      /\ UNCHANGED <<open, page, moves>>
  BY DEF PA!Complete, PA!Removed, PA!TakenOff
<1>2. cut \in [Panels -> Seq(PanelKinds)] /\ rests \in [Panels -> BOOLEAN] /\ PanelsMove \in BOOLEAN
  BY PanelFields DEF PA!PanelAssumption
<1> HIDE DEF cut, rests, opened, closes
<1>3. shownPanels' \in [Panels -> BOOLEAN] /\ moving' \in [Panels -> BOOLEAN]
  BY <1>1, <1>2, PanelFields, AmongIs
<1>4. completes' \in [Panels -> Seq(PanelKinds)]
  BY <1>1, <1>2, BindIs DEF PanelKinds
<1>5. there' \in BOOLEAN /\ pagePanelOpen' \in BOOLEAN /\ listens' \in [Panels -> BOOLEAN]
  BY <1>1, PanelFields DEF PA!Contains
<1>6. waitingPanels' \in Seq(Panels)
  BY <1>1, PanelFields
<1> QED
  BY <1>1, <1>3, <1>4, <1>5, <1>6, PanelFields DEF PA!TypeOK, PanelKinds

LEMMA TimeoutIs ==
  ASSUME PA!TypeOK, PA!Timeout
  PROVE  \E p \in Panels, kind \in PanelKinds :
           /\ timeouts # <<>> /\ Head(timeouts) = <<p, kind>>
           /\ PA!Complete(p, <<kind>>, completes[p])
           /\ timeouts' = Tail(timeouts) \o
                (IF kind = "close" THEN PA!Timeouts(PA!Range(waitingPanels), "open") ELSE <<>>)
<1>1. timeouts # <<>> /\ timeouts \in Seq(Panels \X PanelKinds)
  BY PanelFields DEF PA!Timeout
<1>2. Head(timeouts) \in Panels \X PanelKinds
  BY <1>1, HeadTailProperties
<1>3. PICK p \in Panels, kind \in PanelKinds : Head(timeouts) = <<p, kind>>
  BY <1>2
<1>4. Head(timeouts)[1] = p /\ Head(timeouts)[2] = kind
  BY <1>3
<1> DEFINE q == Head(timeouts)[1]  told1 == Head(timeouts)[2]
<1>5. /\ PA!Complete(q, <<told1>>, completes[q])
      /\ timeouts' = Tail(timeouts) \o
                (IF told1 = "close" THEN PA!Timeouts(PA!Range(waitingPanels), "open") ELSE <<>>)
  BY DEF PA!Timeout
<1>6. q = p /\ told1 = kind
  BY <1>4
<1> HIDE DEF q, told1
<1> QED
  BY <1>1, <1>3, <1>5, <1>6

LEMMA HideType ==
  ASSUME PA!PanelAssumption, PA!TypeOK, PA!PageHide
  PROVE  PA!TypeOK'
<1>1. /\ moves' \in 0..PanelMoves
      /\ open' = PA!Among(PA!Cleans, FALSE, open) /\ shownPanels' = PA!Among(PA!Cleans, FALSE, shownPanels)
      /\ timeouts' = timeouts \o PA!Soon(PA!Cleans, "close") /\ pagePanelOpen' \in BOOLEAN
      /\ moving' = [p \in Panels |-> FALSE] /\ page' = FALSE
      /\ UNCHANGED <<completes, listens, there, waitingPanels>>
  BY PanelFields DEF PA!PanelAssumption, PA!PageHide, PA!Moved
<1>2. open' \in [Panels -> BOOLEAN] /\ shownPanels' \in [Panels -> BOOLEAN]
  BY <1>1, PanelFields, AmongIs
<1>3. PA!Soon(PA!Cleans, "close") \in Seq(Panels \X PanelKinds)
  <2>1. PA!Cleans \subseteq Panels
    BY DEF PA!Cleans
  <2> QED
    BY <2>1, SoonIs DEF PanelKinds
<1>4. timeouts' \in Seq(Panels \X PanelKinds)
  BY <1>1, <1>3, PanelFields, Joined
<1> QED
  BY <1>1, <1>2, <1>4, PanelFields DEF PA!TypeOK, PanelKinds

LEMMA PanelType ==
  ASSUME PA!PanelAssumption, PA!TypeOK, PA!Next
  PROVE  PA!TypeOK'
<1>1. CASE PA!Toggle
  BY <1>1, OpenType, CloseType DEF PA!Toggle
<1>2. CASE PA!PageHide
  BY <1>2, HideType
<1>3. CASE PA!PageShow
  BY <1>3, PanelFields DEF PA!PageShow, PA!Moved, PA!PanelAssumption, PA!panels, PA!TypeOK, PanelKinds
<1>4. CASE PA!Timeout
  <2>1. PICK p \in Panels, kind \in PanelKinds :
           /\ timeouts # <<>> /\ PA!Complete(p, <<kind>>, completes[p])
           /\ timeouts' = Tail(timeouts) \o
                (IF kind = "close" THEN PA!Timeouts(PA!Range(waitingPanels), "open") ELSE <<>>)
    BY <1>4, TimeoutIs
  <2> DEFINE more == IF kind = "close" THEN PA!Timeouts(PA!Range(waitingPanels), "open") ELSE <<>>
  <2>2. more \in Seq(Panels \X PanelKinds)
    <3>1. PA!Range(waitingPanels) \subseteq Panels
      BY PanelFields, RangeIn
    <3>2. PA!Timeouts(PA!Range(waitingPanels), "open") \in Seq(Panels \X PanelKinds)
      BY <3>1, TimeoutsAre DEF PanelKinds
    <3>3. <<>> \in Seq(Panels \X PanelKinds)
      OBVIOUS
    <3> QED
      BY <3>2, <3>3
  <2>3. Tail(timeouts) \in Seq(Panels \X PanelKinds)
    BY <2>1, PanelFields, HeadTailProperties
  <2>4. timeouts' = Tail(timeouts) \o more
    BY <2>1
  <2> HIDE DEF more
  <2>5. timeouts' \in Seq(Panels \X PanelKinds)
    BY <2>2, <2>3, <2>4, Joined
  <2>6. <<kind>> \in Seq(PanelKinds) /\ <<kind>> # <<>> /\ completes[p] \in Seq(PanelKinds)
    BY PanelFields
  <2> QED
    BY <2>1, <2>5, <2>6, CompleteType
<1>5. ASSUME NEW p \in Panels, PA!TransitionEnds(p) PROVE PA!TypeOK'
  <2>1. /\ completes[p] # <<>> /\ completes[p] \in Seq(PanelKinds) /\ PA!Complete(p, completes[p], <<>>)
        /\ timeouts' \in Seq(Panels \X PanelKinds)
    BY <1>5, PanelFields DEF PA!TransitionEnds
  <2>2. <<>> \in Seq(PanelKinds)
    OBVIOUS
  <2> QED
    BY <2>1, <2>2, CompleteType
<1> QED
  BY <1>1, <1>2, <1>3, <1>4, <1>5 DEF PA!Next

LEMMA AmongEach ==
  ASSUME NEW values \in [Panels -> BOOLEAN], NEW ps
  PROVE  /\ PA!Among(ps, TRUE, values) \in [Panels -> BOOLEAN]
         /\ PA!Among(ps, FALSE, values) \in [Panels -> BOOLEAN]
         /\ \A p \in Panels : PA!Among(ps, TRUE, values)[p] <=> (p \in ps \/ values[p])
         /\ \A p \in Panels : PA!Among(ps, FALSE, values)[p] <=> (p \notin ps /\ values[p])
<1>1. ASSUME NEW p \in Panels
      PROVE  /\ PA!Among(ps, TRUE, values)[p] = IF p \in ps THEN TRUE ELSE values[p]
             /\ PA!Among(ps, FALSE, values)[p] = IF p \in ps THEN FALSE ELSE values[p]
  BY DEF PA!Among
<1>2. /\ PA!Among(ps, TRUE, values) \in [Panels -> BOOLEAN]
      /\ PA!Among(ps, FALSE, values) \in [Panels -> BOOLEAN]
  BY AmongIs
<1> QED
  BY <1>1, <1>2

(* While a user who waits makes a move, no panel is still to come.         *)
LEMMA NoneWaits ==
  ASSUME Patience # "none", OneOpens, PA!Moved PROVE waitingPanels = <<>>
BY DEF PA!Moved, OneOpens

LEMMA OpenOnes ==
  ASSUME PA!TypeOK, Patience # "none", OneOpens, PA!Moved, NEW p \in Panels, PA!Open(p)
  PROVE  /\ OneOpens' /\ ~open[p]
         /\ \A q \in Panels : open'[q] <=> q = p
         /\ waitingPanels' = IF there THEN <<p>> ELSE <<>>
<1> DEFINE others == PA!Others(p)
           opened == IF there THEN {} ELSE {p}
           kept == PA!Among(others, FALSE, shownPanels)
<1>1. /\ open' = [PA!Among(others, FALSE, open) EXCEPT ![p] = TRUE]
      /\ shownPanels' = PA!Among(opened, TRUE, kept)
      /\ waitingPanels' = (IF there THEN Append(waitingPanels, p) ELSE <<>>) /\ ~open[p]
  BY DEF PA!Open, PA!Waits, PA!TakenOff
<1>2. waitingPanels = <<>>
  BY NoneWaits
<1>3. waitingPanels' = IF there THEN <<p>> ELSE <<>>
  BY <1>1, <1>2
<1>4. \A q \in Panels : q \in others <=> (q # p /\ open[q])
  BY DEF PA!Others
<1> HIDE DEF others
<1>5. open \in [Panels -> BOOLEAN] /\ shownPanels \in [Panels -> BOOLEAN]
  BY PanelFields
<1>6. /\ PA!Among(others, FALSE, open) \in [Panels -> BOOLEAN]
      /\ \A q \in Panels : PA!Among(others, FALSE, open)[q] <=> (q \notin others /\ open[q])
  BY <1>5, AmongEach
<1>7. \A q \in Panels : open'[q] <=> q = p
  BY <1>1, <1>4, <1>6
<1>8. kept \in [Panels -> BOOLEAN] /\ \A q \in Panels : kept[q] <=> (q \notin others /\ shownPanels[q])
  BY <1>5, AmongEach
<1> HIDE DEF kept
<1>9. \A q \in Panels : shownPanels'[q] <=> (q \in opened \/ kept[q])
  BY <1>1, <1>8, AmongEach
<1>10. \A q \in Panels : shownPanels'[q] => q = p
  <2> SUFFICES ASSUME NEW q \in Panels, shownPanels'[q], q # p PROVE FALSE
    OBVIOUS
  <2>1. kept[q]
    BY <1>9
  <2> QED
    BY <1>4, <1>8, <2>1 DEF OneOpens
<1>11. there => ~shownPanels'[p]
  BY <1>1, <1>4, <1>8, <1>9 DEF OneOpens
<1>12. OneOpens'
  BY <1>3, <1>7, <1>10, <1>11 DEF OneOpens
<1> QED
  BY <1>1, <1>3, <1>7, <1>12

LEMMA CloseOnes ==
  ASSUME PA!TypeOK, Patience # "none", OneOpens, PA!Moved, NEW p \in Panels, PA!Close(p)
  PROVE  /\ OneOpens' /\ NoneOpen' /\ waitingPanels' = <<>> /\ open[p]
<1>1. waitingPanels = <<>>
  BY NoneWaits
<1>2. open[p] /\ open' = [open EXCEPT ![p] = FALSE] /\ shownPanels' = [shownPanels EXCEPT ![p] = FALSE]
      /\ waitingPanels' = waitingPanels
  BY DEF PA!Close
<1> QED
  BY <1>1, <1>2, PanelFields DEF OneOpens, NoneOpen

LEMMA HideOnes ==
  ASSUME PA!TypeOK, Patience # "none", OneOpens, PA!PageHide
  PROVE  OneOpens' /\ NoneOpen' /\ waitingPanels' = <<>>
<1>1. waitingPanels = <<>> /\ waitingPanels' = waitingPanels
  BY NoneWaits DEF PA!PageHide
<1>2. open' = PA!Among(PA!Cleans, FALSE, open) /\ shownPanels' = PA!Among(PA!Cleans, FALSE, shownPanels)
  BY DEF PA!PageHide
<1>3. open \in [Panels -> BOOLEAN] /\ shownPanels \in [Panels -> BOOLEAN]
  BY PanelFields
<1>4. \A q \in Panels : /\ open'[q] <=> (q \notin PA!Cleans /\ open[q])
                        /\ shownPanels'[q] <=> (q \notin PA!Cleans /\ shownPanels[q])
  BY <1>2, <1>3, AmongEach
<1>5. \A q \in Panels : ~open'[q] /\ ~shownPanels'[q]
  BY <1>4 DEF PA!Cleans, OneOpens
<1> QED
  BY <1>1, <1>5 DEF OneOpens, NoneOpen

LEMMA RangeOne == ASSUME NEW w PROVE PA!Range(<<w>>) = {w} /\ PA!Range(<<>>) = {}
<1>1. DOMAIN <<w>> = {1} /\ <<w>>[1] = w
  OBVIOUS
<1>2. PA!Range(<<w>>) = {w}
  BY <1>1 DEF PA!Range
<1>3. PA!Range(<<>>) = {}
  BY DEF PA!Range
<1> QED
  BY <1>2, <1>3

LEMMA CompleteOnes ==
  ASSUME PA!TypeOK, OneOpens, NEW p \in Panels, NEW kinds, NEW left, PA!Complete(p, kinds, left)
  PROVE  OneOpens' /\ UNCHANGED open
<1> DEFINE closes == PA!Contains(kinds, "close")
           opened == IF closes THEN PA!Range(waitingPanels) ELSE {}
<1>1. /\ shownPanels' = PA!Among(opened, TRUE, shownPanels) /\ open' = open
      /\ waitingPanels' = IF closes THEN <<>> ELSE waitingPanels
  BY DEF PA!Complete, PA!TakenOff
<1> HIDE DEF closes
<1>2. shownPanels \in [Panels -> BOOLEAN]
  BY PanelFields
<1>3. \A q \in Panels : shownPanels'[q] <=> (q \in opened \/ shownPanels[q])
  BY <1>1, <1>2, AmongEach
<1>4. \A q \in Panels : q \in opened => open[q]
  <2>1. CASE waitingPanels = <<>>
    BY <2>1, RangeOne
  <2>2. CASE waitingPanels # <<>>
    BY <2>2, RangeOne DEF OneOpens
  <2> QED
    BY <2>1, <2>2
<1>5. ~closes => opened = {}
  OBVIOUS
<1> HIDE DEF opened
<1> QED
  BY <1>1, <1>3, <1>4, <1>5 DEF OneOpens

LEMMA OneOpensKept ==
  ASSUME PA!PanelAssumption, PA!TypeOK, Patience # "none", OneOpens, PA!Next
  PROVE  OneOpens'
<1>1. CASE PA!Toggle
  BY <1>1, OpenOnes, CloseOnes DEF PA!Toggle
<1>2. CASE PA!PageHide
  BY <1>2, HideOnes
<1>3. CASE PA!PageShow
  BY <1>3 DEF PA!PageShow, PA!panels, OneOpens
<1>4. CASE PA!Timeout
  BY <1>4, TimeoutIs, CompleteOnes
<1>5. ASSUME NEW p \in Panels, PA!TransitionEnds(p) PROVE OneOpens'
  BY <1>5, CompleteOnes DEF PA!TransitionEnds
<1> QED
  BY <1>1, <1>2, <1>3, <1>4, <1>5 DEF PA!Next

(* What a panel leaves to be done that opens or closes when all rested.    *)
LEMMA BeginsDue ==
  ASSUME PA!PanelAssumption, NEW p \in Panels, NEW kind \in PanelKinds,
         completes' = PA!Bind(NoneDue, {p}, kind), timeouts' = PA!Timeouts({p}, kind),
         \A q \in Panels : moving'[q] <=> (q = p /\ PanelsMove)
  PROVE  DuePanel(p, kind)'
<1>1. NoneDue \in [Panels -> Seq(PanelKinds)] /\ NoneDue[p] = <<>>
  BY DEF NoneDue
<1>2. CASE PanelsMove
  <2>1. completes' = [NoneDue EXCEPT ![p] = Append(NoneDue[p], kind)]
    <3> HIDE DEF NoneDue
    <3>1. NoneDue \in [Panels -> Seq(PanelKinds)] /\ PanelsMove
      BY <1>1, <1>2
    <3>2. PA!Bind(NoneDue, {p}, kind) = [NoneDue EXCEPT ![p] = Append(NoneDue[p], kind)]
      BY <3>1 DEF PA!Bind
    <3>3. completes' = PA!Bind(NoneDue, {p}, kind)
      OBVIOUS
    <3> QED
      BY <3>2, <3>3
  <2>2. Append(NoneDue[p], kind) = <<kind>>
    BY <1>1
  <2>3. timeouts' = <<>>
    BY <1>2, TimeoutsAre
  <2>4. completes' = [NoneDue EXCEPT ![p] = <<kind>>]
    BY <2>1, <2>2
  <2> HIDE DEF NoneDue
  <2>5. NoneDue' = NoneDue
    BY DEF NoneDue
  <2>6. OnTransition(p, kind)'
    BY <1>2, <2>3, <2>4, <2>5 DEF OnTransition
  <2> QED
    BY <2>6 DEF DuePanel
<1>3. CASE ~PanelsMove
  <2>1. completes' = NoneDue
    BY <1>1, <1>3, BindIs
  <2>2. timeouts' = <<<<p, kind>>>>
    BY <1>3, TimeoutsAre
  <2>3. OnTimeout(p, kind)'
    BY <1>3, <2>1, <2>2 DEF OnTimeout, NoneDue
  <2> QED
    BY <2>3 DEF DuePanel
<1> QED
  BY <1>2, <1>3

LEMMA NothingBegins ==
  ASSUME PA!PanelAssumption, NEW kind \in PanelKinds
  PROVE  PA!Bind(NoneDue, {}, kind) = NoneDue /\ PA!Timeouts({}, kind) = <<>>
<1>1. NoneDue \in [Panels -> Seq(PanelKinds)]
  BY DEF NoneDue
<1>2. PA!Bind(NoneDue, {}, kind) = NoneDue
  BY <1>1, BindIs
<1>3. PA!Timeouts({}, kind) = <<>>
  BY TimeoutsAre
<1> QED
  BY <1>2, <1>3

LEMMA MovesRested ==
  ASSUME PA!TypeOK, Patience = "rests", PanelsRest, PA!Moved PROVE Rested
<1>1. timeouts = <<>> /\ \A p \in Panels : ~moving[p]
  BY DEF PA!Moved, PA!Settled
<1>2. ASSUME NEW p \in Panels, NEW kind, DuePanel(p, kind) PROVE FALSE
  BY <1>1, <1>2 DEF DuePanel, OnTransition, OnTimeout
<1> QED
  BY <1>2 DEF PanelsRest

LEMMA OpenRests ==
  ASSUME PA!PanelAssumption, PA!TypeOK, Patience = "rests", OneOpens, PanelsRest, PA!Moved,
         NEW p \in Panels, PA!Open(p)
  PROVE  PanelsRest'
<1> DEFINE others == PA!Others(p)
           opened == IF there THEN {} ELSE {p}
           all1 == others \cup opened
<1>1. /\ completes' = PA!Bind(PA!Bind(completes, others, "close"), opened, "open")
      /\ moving' = PA!Among(all1, PanelsMove, moving)
      /\ timeouts' = timeouts \o PA!Timeouts(others, "close") \o PA!Timeouts(opened, "open")
      /\ there' = TRUE /\ pagePanelOpen' = (pagePanelOpen /\ PA!KeepsClass(others))
  BY DEF PA!Open, PA!Waits
<1>2. Rested
  BY MovesRested
<1>3. completes = NoneDue /\ timeouts = <<>> /\ (\A q \in Panels : ~moving[q]) /\ (there <=> ~NoneOpen)
  BY <1>2 DEF Rested
<1>4. /\ ~open[p] /\ (\A q \in Panels : open'[q] <=> q = p)
      /\ waitingPanels' = IF there THEN <<p>> ELSE <<>>
  BY OpenOnes
<1>5. moving \in [Panels -> BOOLEAN] /\ PanelsMove \in BOOLEAN
  BY PanelFields DEF PA!PanelAssumption
<1>6. \A q \in Panels : moving'[q] <=> (q \in all1 /\ PanelsMove)
  <2> HIDE DEF all1
  <2> QED
    BY <1>1, <1>3, <1>5, AmongEach
<1>7. CASE ~there
  <2>1. others = {} /\ opened = {p} /\ all1 = {p}
    BY <1>3, <1>7 DEF PA!Others, NoneOpen
  <2>2. PA!Bind(NoneDue, others, "close") = NoneDue /\ PA!Timeouts(others, "close") = <<>>
    BY <2>1, NothingBegins DEF PanelKinds
  <2>3. completes' = PA!Bind(NoneDue, {p}, "open")
    BY <1>1, <1>3, <2>1, <2>2
  <2>4. timeouts' = <<>> \o <<>> \o PA!Timeouts({p}, "open")
    BY <1>1, <1>3, <2>1, <2>2
  <2>5. PA!Timeouts({p}, "open") \in Seq(Panels \X PanelKinds)
    BY TimeoutsAre DEF PanelKinds
  <2>6. timeouts' = PA!Timeouts({p}, "open")
    BY <2>4, <2>5, ConcatEmptySeq
  <2>7. \A q \in Panels : moving'[q] <=> (q = p /\ PanelsMove)
    BY <1>6, <2>1
  <2>8. DuePanel(p, "open")'
    BY <2>3, <2>6, <2>7, BeginsDue DEF PanelKinds
  <2> QED
    BY <1>1, <1>4, <1>7, <2>8 DEF PanelsRest
<1>8. CASE there
  <2>1. PICK q \in Panels : open[q]
    BY <1>3, <1>8 DEF NoneOpen
  <2>2. others = {q} /\ opened = {} /\ all1 = {q}
    BY <1>4, <1>8, <2>1 DEF PA!Others, OneOpens
  <2>3. completes' = PA!Bind(PA!Bind(NoneDue, {q}, "close"), {}, "open")
    BY <1>1, <1>3, <2>2
  <2>4. PA!Bind(NoneDue, {q}, "close") \in [Panels -> Seq(PanelKinds)]
    <3>1. NoneDue \in [Panels -> Seq(PanelKinds)] /\ "close" \in PanelKinds
      BY DEF NoneDue, PanelKinds
    <3> HIDE DEF NoneDue
    <3> QED
      BY <3>1, BindIs
  <2>5. completes' = PA!Bind(NoneDue, {q}, "close")
    BY <2>3, <2>4, BindIs DEF PanelKinds
  <2>6. PA!Timeouts({q}, "close") \in Seq(Panels \X PanelKinds) /\ PA!Timeouts({}, "open") = <<>>
    BY TimeoutsAre, NothingBegins DEF PanelKinds
  <2>7. timeouts' = <<>> \o PA!Timeouts({q}, "close") \o <<>>
    BY <1>1, <1>3, <2>2, <2>6
  <2>8. timeouts' = PA!Timeouts({q}, "close")
    BY <2>6, <2>7, ConcatEmptySeq
  <2>9. \A r \in Panels : moving'[r] <=> (r = q /\ PanelsMove)
    BY <1>6, <2>2
  <2>10. DuePanel(q, "close")'
    BY <2>5, <2>8, <2>9, BeginsDue DEF PanelKinds
  <2>11. ~pagePanelOpen' /\ waitingPanels' # <<>>
    BY <1>1, <1>4, <1>8, <2>2 DEF PA!KeepsClass
  <2> QED
    BY <1>1, <2>10, <2>11 DEF PanelsRest
<1> QED
  BY <1>7, <1>8

LEMMA CloseRests ==
  ASSUME PA!PanelAssumption, PA!TypeOK, Patience = "rests", OneOpens, PanelsRest, PA!Moved,
         NEW p \in Panels, PA!Close(p)
  PROVE  PanelsRest'
<1>1. /\ completes' = PA!Bind(completes, {p}, "close") /\ moving' = [moving EXCEPT ![p] = PanelsMove]
      /\ timeouts' = timeouts \o PA!Timeouts({p}, "close")
      /\ ~pagePanelOpen' /\ there' = there
  BY DEF PA!Close, PA!KeepsClass
<1>2. completes = NoneDue /\ timeouts = <<>> /\ (\A q \in Panels : ~moving[q]) /\ (there <=> ~NoneOpen)
  BY MovesRested DEF Rested
<1>3. NoneOpen' /\ open[p]
  BY CloseOnes
<1>4. PA!Timeouts({p}, "close") \in Seq(Panels \X PanelKinds)
  BY TimeoutsAre DEF PanelKinds
<1>5. timeouts' = PA!Timeouts({p}, "close")
  BY <1>1, <1>2, <1>4, ConcatEmptySeq
<1>6. \A q \in Panels : moving'[q] <=> (q = p /\ PanelsMove)
  BY <1>1, <1>2, PanelFields DEF PA!PanelAssumption
<1>7. completes' = PA!Bind(NoneDue, {p}, "close")
  BY <1>1, <1>2
<1>8. DuePanel(p, "close")'
  BY <1>5, <1>6, <1>7, BeginsDue DEF PanelKinds
<1>9. there'
  BY <1>1, <1>2, <1>3 DEF NoneOpen
<1> QED
  BY <1>1, <1>3, <1>8, <1>9 DEF PanelsRest

LEMMA HideRests ==
  ASSUME PA!PanelAssumption, PA!TypeOK, Patience = "rests", OneOpens, PanelsRest, PA!PageHide
  PROVE  PanelsRest'
<1>1. /\ timeouts' = timeouts \o PA!Soon(PA!Cleans, "close") /\ PA!Moved
      /\ pagePanelOpen' = (pagePanelOpen /\ PA!KeepsClass(PA!Cleans))
      /\ moving' = [p \in Panels |-> FALSE] /\ UNCHANGED <<completes, there>>
  BY DEF PA!PageHide
<1>2. /\ completes = NoneDue /\ timeouts = <<>> /\ (there <=> ~NoneOpen) /\ (pagePanelOpen => ~NoneOpen)
  BY <1>1, MovesRested DEF Rested
<1>3. NoneOpen' /\ waitingPanels' = <<>>
  BY HideOnes
<1>4. NoneDue' = NoneDue
  BY DEF NoneDue
<1>5. CASE NoneOpen
  <2>1. PA!Cleans = {}
    BY <1>5 DEF PA!Cleans, NoneOpen
  <2>2. PA!Soon(PA!Cleans, "close") = <<>>
    BY <2>1, SoonIs DEF PanelKinds
  <2>3. timeouts' = <<>>
    BY <1>1, <1>2, <2>2
  <2>4. Rested'
    BY <1>1, <1>2, <1>3, <1>4, <1>5, <2>3 DEF Rested
  <2> QED
    BY <2>4 DEF PanelsRest
<1>6. CASE ~NoneOpen
  <2>1. PICK q \in Panels : open[q]
    BY <1>6 DEF NoneOpen
  <2>2. PA!Cleans = {q}
    BY <2>1 DEF PA!Cleans, OneOpens
  <2>3. PA!Soon(PA!Cleans, "close") = <<<<q, "close">>>> /\ ~pagePanelOpen'
    BY <1>1, <2>2, SoonIs DEF PanelKinds, PA!KeepsClass
  <2>4. timeouts' = <<<<q, "close">>>>
    BY <1>1, <1>2, <2>3
  <2>5. OnTimeout(q, "close")'
    BY <1>1, <1>2, <1>4, <2>4 DEF OnTimeout
  <2>6. there'
    BY <1>1, <1>2, <1>6
  <2> QED
    BY <1>3, <2>3, <2>5, <2>6 DEF PanelsRest, DuePanel
<1> QED
  BY <1>5, <1>6

(* A complete that is called leaves the page at rest, or lets the panel    *)
(* come that waited.                                                       *)
LEMMA ContainsOne ==
  ASSUME NEW kind, NEW other PROVE PA!Contains(<<kind>>, other) <=> kind = other
BY DEF PA!Contains

LEMMA CompletesDue ==
  ASSUME PA!PanelAssumption, PA!TypeOK, NEW p \in Panels, NEW kind \in PanelKinds,
         DuePanel(p, kind), PA!Complete(p, <<kind>>, <<>>), NEW opened,
         opened = IF kind = "close" THEN PA!Range(waitingPanels) ELSE {}
  PROVE  /\ completes' = PA!Bind(NoneDue, opened, "open")
         /\ \A q \in Panels : moving'[q] <=> (q \in opened /\ PanelsMove)
<1> DEFINE rests == [moving EXCEPT ![p] = moving[p] /\ <<>> # <<>>]
           cut == [completes EXCEPT ![p] = <<>>]
<1>1. PA!Contains(<<kind>>, "close") <=> kind = "close"
  BY ContainsOne
<1>2. completes' = PA!Bind(cut, opened, "open") /\ moving' = PA!Among(opened, PanelsMove, rests)
  BY <1>1 DEF PA!Complete
<1>3. moving \in [Panels -> BOOLEAN] /\ PanelsMove \in BOOLEAN
  BY PanelFields DEF PA!PanelAssumption
<1>4. cut = NoneDue
  BY DEF DuePanel, OnTransition, OnTimeout, NoneDue
<1>5. \A q \in Panels : q # p => ~moving[q]
  BY DEF DuePanel, OnTransition, OnTimeout
<1>6. rests \in [Panels -> BOOLEAN] /\ \A q \in Panels : ~rests[q]
  BY <1>3, <1>5
<1> HIDE DEF rests, cut
<1>7. \A q \in Panels : moving'[q] <=> (q \in opened /\ PanelsMove)
  BY <1>2, <1>3, <1>6, AmongEach
<1> QED
  BY <1>2, <1>4, <1>7

LEMMA RestsAgain ==
  ASSUME PA!PanelAssumption, PA!TypeOK, NEW p \in Panels, NEW kind \in PanelKinds,
         DuePanel(p, kind), PA!Complete(p, <<kind>>, <<>>), timeouts' = <<>>,
         kind = "close" => waitingPanels = <<>>
  PROVE  completes' = NoneDue' /\ timeouts' = <<>> /\ \A q \in Panels : ~moving'[q]
<1> DEFINE opened == IF kind = "close" THEN PA!Range(waitingPanels) ELSE {}
<1>1. opened = {}
  BY RangeOne
<1>2. /\ completes' = PA!Bind(NoneDue, opened, "open")
      /\ \A q \in Panels : moving'[q] <=> (q \in opened /\ PanelsMove)
  <2> HIDE DEF opened
  <2>1. opened = IF kind = "close" THEN PA!Range(waitingPanels) ELSE {}
    BY DEF opened
  <2> QED
    BY <2>1, CompletesDue
<1>3. completes' = NoneDue
  BY <1>1, <1>2, NothingBegins DEF PanelKinds
<1> QED
  BY <1>1, <1>2, <1>3 DEF NoneDue

LEMMA OpenComplete ==
  ASSUME PA!PanelAssumption, PA!TypeOK, NEW p \in Panels, DuePanel(p, "open"),
         PA!Complete(p, <<"open">>, <<>>), timeouts' = <<>>,
         there, open[p], waitingPanels = <<>>
  PROVE  PanelsRest'
<1>1. ~PA!Contains(<<"open">>, "close")
  BY ContainsOne
<1>2. there' = there /\ waitingPanels' = waitingPanels /\ open' = open
  BY <1>1 DEF PA!Complete, PA!Removed
<1>3. completes' = NoneDue' /\ timeouts' = <<>> /\ \A q \in Panels : ~moving'[q]
  BY RestsAgain DEF PanelKinds
<1> QED
  BY <1>2, <1>3 DEF PanelsRest, Rested, NoneOpen

LEMMA CloseComplete ==
  ASSUME PA!PanelAssumption, PA!TypeOK, OneOpens, NEW p \in Panels, DuePanel(p, "close"),
         PA!Complete(p, <<"close">>, <<>>), timeouts' = PA!Timeouts(PA!Range(waitingPanels), "open"),
         ~pagePanelOpen, waitingPanels = <<>> => NoneOpen
  PROVE  PanelsRest'
<1> DEFINE opened == PA!Range(waitingPanels)
<1>1. PA!Contains(<<"close">>, "close") /\ ~PA!Contains(<<"close">>, "open")
  BY ContainsOne
<1>2. /\ there' = (IF opened # {} THEN TRUE ELSE FALSE)
      /\ waitingPanels' = <<>> /\ open' = open /\ pagePanelOpen' = (pagePanelOpen \/ FALSE)
  BY <1>1 DEF PA!Complete, PA!Removed, PA!TakenOff
<1>3. CASE waitingPanels = <<>>
  <2>1. opened = {} /\ NoneOpen
    BY <1>3, RangeOne
  <2>2. timeouts' = <<>>
    BY <1>3, <2>1, NothingBegins DEF PanelKinds
  <2>3. completes' = NoneDue' /\ timeouts' = <<>> /\ \A q \in Panels : ~moving'[q]
    BY <1>3, <2>2, RestsAgain DEF PanelKinds
  <2>4. ~there' /\ ~pagePanelOpen'
    BY <1>2, <2>1
  <2> QED
    BY <1>2, <2>1, <2>3, <2>4 DEF PanelsRest, Rested, NoneOpen
<1>4. CASE waitingPanels # <<>>
  <2>1. PICK w \in Panels : waitingPanels = <<w>> /\ open[w]
    BY <1>4 DEF OneOpens
  <2>2. opened = {w}
    BY <2>1, RangeOne
  <2> HIDE DEF opened
  <2>3. opened = IF "close" = "close" THEN PA!Range(waitingPanels) ELSE {}
    BY DEF opened
  <2>4. /\ completes' = PA!Bind(NoneDue, opened, "open")
        /\ \A q \in Panels : moving'[q] <=> (q \in opened /\ PanelsMove)
    BY <2>3, CompletesDue DEF PanelKinds
  <2>5. completes' = PA!Bind(NoneDue, {w}, "open") /\ timeouts' = PA!Timeouts({w}, "open")
    BY <2>2, <2>3, <2>4
  <2>6. \A q \in Panels : moving'[q] <=> (q = w /\ PanelsMove)
    BY <2>2, <2>4
  <2>7. DuePanel(w, "open")'
    BY <2>5, <2>6, BeginsDue DEF PanelKinds
  <2>8. there' /\ open'[w] /\ waitingPanels' = <<>>
    BY <1>2, <2>1, <2>2
  <2> QED
    BY <2>7, <2>8 DEF PanelsRest
<1> QED
  BY <1>3, <1>4

LEMMA CompleteRests ==
  ASSUME PA!PanelAssumption, PA!TypeOK, OneOpens, PanelsRest,
         NEW p \in Panels, NEW kind \in PanelKinds, DuePanel(p, kind), PA!Complete(p, <<kind>>, <<>>),
         timeouts' = IF kind = "close" THEN PA!Timeouts(PA!Range(waitingPanels), "open") ELSE <<>>
  PROVE  PanelsRest'
<1>1. ASSUME NEW q \in Panels, NEW other \in PanelKinds, DuePanel(q, other)
      PROVE  q = p /\ other = kind
  BY <1>1 DEF DuePanel, OnTransition, OnTimeout, NoneDue
<1>2. ~Rested
  BY DEF Rested, DuePanel, OnTransition, OnTimeout
<1>3. CASE kind = "open"
  <2>1. there /\ open[p] /\ waitingPanels = <<>>
    BY <1>1, <1>2, <1>3 DEF PanelsRest, PanelKinds
  <2> QED
    BY <1>3, <2>1, OpenComplete
<1>4. CASE kind = "close"
  <2>1. ~pagePanelOpen /\ (waitingPanels = <<>> => NoneOpen)
    BY <1>1, <1>2, <1>4 DEF PanelsRest, PanelKinds
  <2> QED
    BY <1>4, <2>1, CloseComplete
<1> QED
  BY <1>3, <1>4 DEF PanelKinds

LEMMA EndRests ==
  ASSUME PA!PanelAssumption, PA!TypeOK, OneOpens, PanelsRest, NEW p \in Panels, PA!TransitionEnds(p)
  PROVE  PanelsRest'
<1>1. moving[p] /\ PA!Complete(p, completes[p], <<>>) /\ timeouts' = timeouts
  BY DEF PA!TransitionEnds
<1>2. PICK kind \in PanelKinds : OnTransition(p, kind)
  BY <1>1 DEF PanelsRest, Rested, DuePanel, OnTransition, OnTimeout, PanelKinds
<1>3. completes[p] = <<kind>> /\ timeouts' = <<>> /\ PanelsMove
  BY <1>1, <1>2 DEF OnTransition, NoneDue
<1>4. PA!Timeouts(PA!Range(waitingPanels), "open") = <<>>
  BY <1>3, TimeoutsAre, PanelFields, RangeIn DEF PanelKinds
<1> QED
  BY <1>1, <1>2, <1>3, <1>4, CompleteRests DEF DuePanel

LEMMA TimeoutRests ==
  ASSUME PA!PanelAssumption, PA!TypeOK, OneOpens, PanelsRest, PA!Timeout
  PROVE  PanelsRest'
<1>1. PICK p \in Panels, kind \in PanelKinds :
        /\ timeouts # <<>> /\ Head(timeouts) = <<p, kind>>
        /\ PA!Complete(p, <<kind>>, completes[p])
        /\ timeouts' = Tail(timeouts) \o
             (IF kind = "close" THEN PA!Timeouts(PA!Range(waitingPanels), "open") ELSE <<>>)
  BY TimeoutIs
<1>2. PICK q \in Panels, other \in PanelKinds : OnTimeout(q, other)
  BY <1>1 DEF PanelsRest, Rested, DuePanel, OnTransition, OnTimeout, PanelKinds
<1>3. timeouts = <<<<q, other>>>> /\ completes = NoneDue
  BY <1>2 DEF OnTimeout
<1>4. q = p /\ other = kind /\ Tail(timeouts) = <<>>
  BY <1>1, <1>3
<1>5. completes[p] = <<>>
  BY <1>3 DEF NoneDue
<1>6. PA!Timeouts(PA!Range(waitingPanels), "open") \in Seq(Panels \X PanelKinds)
  BY TimeoutsAre, PanelFields, RangeIn DEF PanelKinds
<1>7. timeouts' = IF kind = "close" THEN PA!Timeouts(PA!Range(waitingPanels), "open") ELSE <<>>
  <2> DEFINE next == IF kind = "close" THEN PA!Timeouts(PA!Range(waitingPanels), "open") ELSE <<>>
  <2>1. next \in Seq(Panels \X PanelKinds)
    BY <1>6
  <2>2. timeouts' = <<>> \o next
    BY <1>1, <1>4
  <2> HIDE DEF next
  <2>3. timeouts' = next
    BY <2>1, <2>2, ConcatEmptySeq
  <2> QED
    BY <2>3 DEF next
<1> QED
  BY <1>1, <1>2, <1>4, <1>5, <1>7, CompleteRests DEF DuePanel

LEMMA PanelsRestKept ==
  ASSUME PA!PanelAssumption, PA!TypeOK, Patience = "rests", OneOpens, PanelsRest, PA!Next
  PROVE  PanelsRest'
<1>1. CASE PA!Toggle
  BY <1>1, OpenRests, CloseRests DEF PA!Toggle
<1>2. CASE PA!PageHide
  BY <1>2, HideRests
<1>3. CASE PA!PageShow
  <2>1. Rested
    BY <1>3, MovesRested DEF PA!PageShow
  <2>2. UNCHANGED <<open, completes, moving, timeouts, there, waitingPanels, pagePanelOpen>>
    BY <1>3 DEF PA!PageShow, PA!panels
  <2> QED
    BY <2>1, <2>2 DEF PanelsRest, Rested, NoneOpen, NoneDue
<1>4. CASE PA!Timeout
  BY <1>4, TimeoutRests
<1>5. ASSUME NEW p \in Panels, PA!TransitionEnds(p) PROVE PanelsRest'
  BY <1>5, EndRests
<1> QED
  BY <1>1, <1>2, <1>3, <1>4, <1>5 DEF PA!Next

LEMMA PanelInvFits == ASSUME PanelInv PROVE PA!PanelsFit
<1>1. Patience # "none" => PA!OnePanel /\ PA!ShownIsOpen
  BY DEF PanelInv, OneOpens, PA!OnePanel, PA!ShownIsOpen
<1>2. ASSUME Patience = "rests" PROVE PA!PageKnows /\ PA!ClassGoes
  <2>1. ASSUME PA!Settled PROVE Rested
    <3>1. timeouts = <<>> /\ \A p \in Panels : ~moving[p]
      BY <2>1 DEF PA!Settled
    <3>2. ASSUME NEW p \in Panels, NEW kind, DuePanel(p, kind) PROVE FALSE
      BY <3>1, <3>2 DEF DuePanel, OnTransition, OnTimeout
    <3> QED
      BY <1>2, <3>2 DEF PanelInv, PanelsRest
  <2> QED
    BY <2>1 DEF Rested, NoneOpen, PA!PageKnows, PA!ClassGoes
<1> QED
  BY <1>1, <1>2 DEF PanelInv, PA!PanelsFit

(* However many panels a page has, and whether they move or not: with      *)
(* users who wait for a panel to come one is to be seen at most, and what  *)
(* is to be seen counts as open; with users who wait until all rests the   *)
(* page knows whether a panel is there and keeps no class of one.          *)
THEOREM PanelsAreOne == ASSUME PA!PanelAssumption PROVE PA!Spec => []PA!PanelsFit
<1>1. PA!Init => PanelInv
  <2> SUFFICES ASSUME PA!Init PROVE PanelInv
    OBVIOUS
  <2>1. PA!TypeOK
    <3>1. /\ <<>> \in Seq(Panels \X PanelKinds) /\ <<>> \in Seq(Panels)
          /\ <<>> \in Seq(PanelKinds)
      OBVIOUS
    <3>2. completes \in [Panels -> Seq(PanelKinds)]
      BY <3>1 DEF PA!Init
    <3>3. /\ open \in [Panels -> BOOLEAN] /\ shownPanels \in [Panels -> BOOLEAN]
          /\ moving \in [Panels -> BOOLEAN] /\ listens \in [Panels -> BOOLEAN]
      BY DEF PA!Init
    <3>4. timeouts \in Seq(Panels \X PanelKinds) /\ waitingPanels \in Seq(Panels)
      BY <3>1 DEF PA!Init
    <3>5. moves \in 0..PanelMoves
      BY DEF PA!Init, PA!PanelAssumption
    <3>6. there \in BOOLEAN /\ pagePanelOpen \in BOOLEAN /\ page \in BOOLEAN
      BY DEF PA!Init
    <3> QED
      BY <3>2, <3>3, <3>4, <3>5, <3>6, PanelFields
  <2>2. OneOpens
    BY DEF PA!Init, OneOpens
  <2>3. Rested
    BY DEF PA!Init, Rested, NoneDue, NoneOpen
  <2> QED
    BY <2>1, <2>2, <2>3 DEF PanelInv, PanelsRest
<1>2. PanelInv /\ [PA!Next]_(PA!vars) => PanelInv'
  <2> SUFFICES ASSUME PanelInv, [PA!Next]_(PA!vars) PROVE PanelInv'
    OBVIOUS
  <2>1. CASE PA!Next
    BY <2>1, PanelType, OneOpensKept, PanelsRestKept DEF PanelInv
  <2>2. CASE UNCHANGED PA!vars
    BY <2>2 DEF PanelInv, PA!vars, PA!panels, PA!pages, PA!TypeOK, OneOpens, PanelsRest, Rested,
                NoneOpen, NoneDue, DuePanel, OnTransition, OnTimeout
  <2> QED
    BY <2>1, <2>2
<1>3. PanelInv => PA!PanelsFit
  BY PanelInvFits
<1> QED
  BY <1>1, <1>2, <1>3, PTL DEF PA!Spec

-----------------------------------------------------------------------------
(* Sliders *)

(* Steps and places.                                                       *)

CONSTANTS IsToggle, Low, High, Step, Width, Points, Values, Empty, Initial, Clicks, Programs,
          SliderMoves
VARIABLES controlValue, handle, stored, dragging, mouseMoved, userModified, beforeStart,
          disabled, text, heard, quiet, typed, resetting, fingerOnSlider, lost, was

SL == INSTANCE Slider WITH
  value <- controlValue, finger <- fingerOnSlider, MaxMoves <- SliderMoves

LEMMA Larger ==
  ASSUME NEW c \in Int, c > 0, NEW a \in Int, NEW b \in Int, a < b
  PROVE  c * a < c * b
<1>1. c * (b - a) > 0
  <2> DEFINE d == b - a
  <2>1. d \in Int /\ d > 0
    OBVIOUS
  <2> HIDE DEF d
  <2>2. c * d > 0
    BY <2>1
  <2> QED
    BY <2>2 DEF d
<1>2. c * b = c * a + c * (b - a)
  OBVIOUS
<1>3. c * a \in Int /\ c * b \in Int /\ c * (b - a) \in Int
  OBVIOUS
<1> QED
  BY <1>1, <1>2, <1>3

LEMMA Exactly ==
  ASSUME NEW b \in Int, b > 0, NEW a \in Int
  PROVE  (b * a) \div b = a /\ (b * a) % b = 0
<1>1. b * a \in Int
  OBVIOUS
<1>2. b * a = b * ((b * a) \div b) + ((b * a) % b) /\ (b * a) % b \in 0..(b - 1) /\ (b * a) \div b \in Int
  BY <1>1
<1> DEFINE q == (b * a) \div b  r == (b * a) % b
<1>3. q \in Int /\ r \in Int /\ 0 <= r /\ r < b /\ b * a = b * q + r
  BY <1>2
<1> HIDE DEF q, r
<1>4. ~(q < a)
  <2> SUFFICES ASSUME q < a PROVE FALSE
    OBVIOUS
  <2>1. q + 1 = a \/ q + 1 < a
    BY <1>3
  <2>2. b * (q + 1) = b * a \/ b * (q + 1) < b * a
    BY <1>3, <2>1, Larger
  <2>3. b * (q + 1) = b * q + b
    BY <1>3
  <2>4. b * q \in Int /\ b * a \in Int
    BY <1>3
  <2> QED
    BY <1>3, <2>2, <2>3, <2>4
<1>5. ~(a < q)
  <2> SUFFICES ASSUME a < q PROVE FALSE
    OBVIOUS
  <2>1. b * a < b * q
    BY <1>3, Larger
  <2>2. b * q \in Int /\ b * a \in Int
    BY <1>3
  <2> QED
    BY <1>3, <2>1, <2>2
<1>6. q = a
  BY <1>3, <1>4, <1>5
<1>7. r = 0
  <2>1. b * a \in Int
    OBVIOUS
  <2> QED
    BY <1>3, <1>6, <2>1
<1> QED
  BY <1>6, <1>7 DEF q, r

LEMMA ModuloIs ==
  ASSUME NEW a \in Int, NEW b \in Int, b > 0
  PROVE  /\ SL!Modulo(a, b) \in Int /\ -b < SL!Modulo(a, b) /\ SL!Modulo(a, b) < b
         /\ \E k \in Int : a = b * k + SL!Modulo(a, b)
         /\ (a % b = 0 => SL!Modulo(a, b) = 0)
<1>1. CASE a >= 0
  <2>1. SL!Modulo(a, b) = a % b
    BY <1>1 DEF SL!Modulo
  <2>2. a % b \in 0..(b - 1) /\ a \div b \in Int /\ a = b * (a \div b) + (a % b)
    OBVIOUS
  <2> QED
    BY <2>1, <2>2
<1>2. CASE a < 0
  <2> DEFINE n == -a
  <2>1. n \in Int /\ SL!Modulo(a, b) = -(n % b) /\ a = -n
    BY <1>2 DEF SL!Modulo
  <2>2. n % b \in 0..(b - 1) /\ n \div b \in Int /\ n = b * (n \div b) + (n % b)
    BY <2>1
  <2> DEFINE q == n \div b  r == n % b
  <2>3. q \in Int /\ r \in 0..(b - 1) /\ n = b * q + r
    BY <2>2
  <2> HIDE DEF n, q, r
  <2>4. b * (-q) = -(b * q) /\ b * q \in Int
    BY <2>3
  <2>5. a = b * (-q) + -r
    BY <2>1, <2>3, <2>4
  <2>6. SL!Modulo(a, b) = -r
    BY <2>1 DEF r
  <2>7. a % b = 0 => r = 0
    <3> SUFFICES ASSUME a % b = 0 PROVE r = 0
      OBVIOUS
    <3>1. a = b * (a \div b) /\ a \div b \in Int
      <4>1. a = b * (a \div b) + (a % b) /\ a \div b \in Int /\ b * (a \div b) \in Int
        OBVIOUS
      <4> QED
        BY <4>1
    <3>2. n = b * (-(a \div b))
      BY <3>1 DEF n
    <3>3. n % b = 0
      BY <3>1, <3>2, Exactly
    <3> QED
      BY <3>3 DEF r
  <2>8. -b < -r /\ -r < b /\ -r \in Int
    BY <2>3
  <2>9. \E k \in Int : a = b * k + -r
    <3>1. -q \in Int
      BY <2>3
    <3> QED
      BY <2>5, <3>1
  <2>10. a % b = 0 => -r = 0
    <3> SUFFICES ASSUME a % b = 0 PROVE -r = 0
      OBVIOUS
    <3>1. r <= 0 /\ r >= 0 /\ r \in Int
      BY <2>3, <2>7
    <3> QED
      BY <3>1
  <2> QED
    BY <2>6, <2>8, <2>9, <2>10
<1> QED
  BY <1>1, <1>2

(* A place is brought to the nearest step, which is half a step away at    *)
(* most.                                                                   *)
LEMMA Scaled ==
  ASSUME SL!SliderAssumption
  PROVE  /\ SL!Scale \in Int /\ SL!Scale > 0 /\ SL!Scale * Step \in Int /\ SL!Scale * Step > 0
         /\ SL!Track \in Int /\ SL!Track > 0 /\ Step \in Int /\ Step > 0
         /\ Low \in Int /\ High \in Int /\ Low < High
<1>1. /\ Width \in Int /\ Width > 0 /\ Step \in Int /\ Step > 0
      /\ Low \in Int /\ High \in Int /\ Low < High
  BY DEF SL!SliderAssumption
<1>2. SL!Scale \in Int /\ SL!Scale > 0
  BY <1>1 DEF SL!Scale
<1>3. \A m, n \in Int : m > 0 /\ n > 0 => m * n \in Int /\ m * n > 0
  <2> SUFFICES ASSUME NEW m \in Int, NEW n \in Int, m > 0, n > 0 PROVE m * n \in Int /\ m * n > 0
    OBVIOUS
  <2>1. m * 0 < m * n
    BY Larger
  <2> QED
    BY <2>1
<1>4. High - Low \in Int /\ High - Low > 0
  BY <1>1
<1> QED
  BY <1>1, <1>2, <1>3, <1>4 DEF SL!Track

Near(a, b) == 2 * SL!Absolute(a - b) <= SL!Scale * Step

LEMMA AlignIs ==
  ASSUME SL!SliderAssumption, NEW place \in Int
  PROVE  /\ SL!Align(place) \in Int /\ Near(place, SL!Align(place))
         /\ \E k \in Int : SL!Align(place) = (SL!Scale * Step) * k
         /\ place % (SL!Scale * Step) = 0 => SL!Align(place) = place
<1> DEFINE size == SL!Scale * Step
           over == SL!Modulo(place, size)
<1>1. size \in Int /\ size > 0
  BY Scaled
<1>2. over \in Int /\ -size < over /\ over < size /\ \E k \in Int : place = size * k + over
  <2> HIDE DEF size
  <2> QED
    BY <1>1, ModuloIs
<1>3. place % size = 0 => over = 0
  <2> HIDE DEF size
  <2> QED
    BY <1>1, ModuloIs
<1>4. SL!Align(place) =
        place - over + (IF 2 * SL!Absolute(over) < size THEN 0 ELSE IF over > 0 THEN size ELSE -size)
  BY DEF SL!Align
<1>5. Near(place, SL!Align(place)) <=> 2 * SL!Absolute(place - SL!Align(place)) <= size
  BY DEF Near
<1> HIDE DEF size, over
<1>6. PICK k \in Int : place = size * k + over
  BY <1>2
<1>7. size * k \in Int /\ place - over = size * k
  BY <1>1, <1>2, <1>6
<1>8. size * (k + 1) = size * k + size /\ size * (k - 1) = size * k - size
  BY <1>1, <1>6
<1>9. \/ SL!Align(place) = size * k /\ 2 * SL!Absolute(over) < size
      \/ SL!Align(place) = size * (k + 1) /\ ~(2 * SL!Absolute(over) < size) /\ over > 0
      \/ SL!Align(place) = size * (k - 1) /\ ~(2 * SL!Absolute(over) < size) /\ ~(over > 0)
  BY <1>1, <1>2, <1>4, <1>7, <1>8
<1>10. \E j \in Int : SL!Align(place) = size * j
  <2>1. k + 1 \in Int /\ k - 1 \in Int
    OBVIOUS
  <2> QED
    BY <1>9, <2>1
<1>11. SL!Align(place) \in Int /\ Near(place, SL!Align(place))
  <2> DEFINE whole == size * k  a == SL!Align(place)
  <2>1. whole \in Int /\ place = whole + over
    BY <1>2, <1>7
  <2>2. \/ a = whole /\ 2 * SL!Absolute(over) < size
        \/ a = whole + size /\ ~(2 * SL!Absolute(over) < size) /\ over > 0
        \/ a = whole - size /\ ~(2 * SL!Absolute(over) < size) /\ ~(over > 0)
    BY <1>8, <1>9
  <2> HIDE DEF whole, a
  <2>3. a \in Int /\ 2 * SL!Absolute(place - a) <= size
    BY <1>1, <1>2, <2>1, <2>2 DEF SL!Absolute
  <2> QED
    BY <1>5, <2>3 DEF a
<1>12. place % size = 0 => SL!Align(place) = place
  BY <1>1, <1>2, <1>3, <1>4 DEF SL!Absolute
<1> QED
  BY <1>10, <1>11, <1>12 DEF size

LEMMA WithinIs ==
  ASSUME NEW low \in Int, NEW high \in Int, low <= high, NEW a \in Int
  PROVE  /\ SL!Within(low, high, a) \in low..high
         /\ a \in low..high => SL!Within(low, high, a) = a
         /\ \A b \in Int : SL!Absolute(SL!Within(low, high, a) - SL!Within(low, high, b))
                             <= SL!Absolute(a - b)
         /\ SL!Within(low, high, SL!Within(low, high, a)) = SL!Within(low, high, a)
BY DEF SL!Within, SL!Absolute

LEMMA PlacesWithin ==
  ASSUME SL!SliderAssumption, NEW n \in Int
  PROVE  SL!Place(SL!Within(Low, High, Low + n)) = SL!Within(0, SL!Track, SL!Scale * n)
<1> DEFINE c == SL!Scale  d == High - Low
<1>1. c \in Int /\ c > 0 /\ d \in Int /\ d > 0 /\ SL!Track = c * d
  BY Scaled DEF SL!Track
<1>2. \A v \in Int : SL!Place(v) = c * (v - Low)
  BY DEF SL!Place
<1> HIDE DEF c
<1>3. Low \in Int /\ High \in Int /\ Low < High
  BY Scaled
<1>4. c * n \in Int /\ c * d \in Int /\ c * 0 = 0
  BY <1>1
<1>5. CASE n < 0
  <2>1. c * n < c * 0
    BY <1>1, <1>5, Larger
  <2>2. SL!Within(Low, High, Low + n) = Low /\ SL!Within(0, c * d, c * n) = 0
    BY <1>3, <1>4, <1>5, <2>1 DEF SL!Within
  <2>3. SL!Place(Low) = 0
    BY <1>1, <1>2, <1>3
  <2> QED
    BY <1>1, <2>2, <2>3 DEF c
<1>6. CASE d < n
  <2>1. c * d < c * n /\ c * 0 < c * d
    BY <1>1, <1>6, Larger
  <2>2. SL!Within(Low, High, Low + n) = High /\ SL!Within(0, c * d, c * n) = c * d
    BY <1>1, <1>3, <1>4, <1>6, <2>1 DEF SL!Within
  <2>3. SL!Place(High) = c * d
    BY <1>2, <1>3
  <2> QED
    BY <1>1, <2>2, <2>3 DEF c
<1>7. CASE 0 <= n /\ n <= d
  <2>1. (c * 0 < c * n \/ n = 0) /\ (c * n < c * d \/ n = d)
    BY <1>1, <1>7, Larger
  <2>2. SL!Within(0, c * d, c * n) = c * n
    BY <1>1, <1>4, <1>7, <2>1 DEF SL!Within
  <2>3. SL!Within(Low, High, Low + n) = Low + n
    BY <1>1, <1>3, <1>7 DEF SL!Within
  <2>4. Low + n \in Int /\ (Low + n) - Low = n
    BY <1>3
  <2>5. SL!Place(Low + n) = c * n
    BY <1>2, <2>4
  <2> QED
    BY <1>1, <2>2, <2>3, <2>5 DEF c
<1> QED
  BY <1>1, <1>5, <1>6, <1>7

Legal(v) == v \in Low..High /\ ((v - Low) % Step = 0 \/ v = High)

(* The value of a place is legal, and its own place is that of the step.   *)
LEMMA NewValIs ==
  ASSUME SL!SliderAssumption, NEW place \in Int
  PROVE  /\ Legal(SL!NewVal(place))
         /\ SL!Place(SL!NewVal(place)) = SL!Within(0, SL!Track, SL!Align(place))
<1>1. PICK k \in Int : SL!Align(place) = (SL!Scale * Step) * k
  BY AlignIs
<1> DEFINE c == SL!Scale  n == Step * k
<1>2. c \in Int /\ c > 0 /\ Step \in Int /\ Step > 0 /\ n \in Int
  BY Scaled
<1>3. SL!Align(place) = c * n
  BY <1>1, <1>2
<1>4. SL!Align(place) \div c = n
  <2> HIDE DEF c, n
  <2> QED
    BY <1>2, <1>3, Exactly
<1>5. SL!NewVal(place) = SL!Within(Low, High, Low + n)
  BY <1>4 DEF SL!NewVal
<1>6. SL!Place(SL!NewVal(place)) = SL!Within(0, SL!Track, SL!Align(place))
  <2> HIDE DEF n
  <2> QED
    BY <1>2, <1>3, <1>5, PlacesWithin DEF c
<1>7. n % Step = 0 /\ 0 % Step = 0
  <2>1. n % Step = 0
    BY <1>2, Exactly
  <2>2. Step * 0 = 0
    BY <1>2
  <2>3. (Step * 0) % Step = 0
    BY <1>2, Exactly
  <2> QED
    BY <2>1, <2>2, <2>3
<1> HIDE DEF n
<1>8. Low \in Int /\ High \in Int /\ Low < High
  BY Scaled
<1>9. \/ SL!NewVal(place) = Low
      \/ SL!NewVal(place) = High
      \/ SL!NewVal(place) = Low + n /\ Low + n \in Low..High
  BY <1>2, <1>5, <1>8 DEF SL!Within
<1>10. Low - Low = 0 /\ (Low + n) - Low = n
  BY <1>2, <1>8
<1>11. Legal(SL!NewVal(place))
  BY <1>7, <1>8, <1>9, <1>10 DEF Legal
<1> QED
  BY <1>6, <1>11

(* A value that is on a step is aligned to itself, and what was aligned    *)
(* twice stays.                                                            *)
LEMMA StepStays ==
  ASSUME SL!SliderAssumption, NEW v \in Low..High, (v - Low) % Step = 0
  PROVE  SL!Commit(v) = v
<1> DEFINE n == v - Low  k == n \div Step  c == SL!Scale
<1>1. /\ c \in Int /\ c > 0 /\ Step \in Int /\ Step > 0 /\ c * Step \in Int /\ c * Step > 0
      /\ Low \in Int /\ High \in Int
  BY Scaled
<1>2. v \in Int /\ n \in Int /\ k \in Int /\ Low + n = v
  BY <1>1
<1>3. n = Step * k
  <2>1. n = Step * k + (n % Step) /\ Step * k \in Int
    BY <1>1, <1>2
  <2> QED
    BY <1>2, <2>1
<1>4. SL!Place(v) = c * n /\ c * n \in Int
  BY <1>1, <1>2 DEF SL!Place
<1> HIDE DEF n, k, c
<1>5. c * n = (c * Step) * k
  BY <1>1, <1>2, <1>3
<1>6. (c * n) % (c * Step) = 0
  <2> DEFINE b == c * Step
  <2>1. b \in Int /\ b > 0 /\ c * n = b * k
    BY <1>1, <1>5
  <2> HIDE DEF b
  <2>2. (b * k) % b = 0
    BY <1>2, <2>1, Exactly
  <2> QED
    BY <2>1, <2>2 DEF b
<1>7. SL!Align(c * n) = c * n
  BY <1>4, <1>6, AlignIs DEF c
<1>8. SL!NewVal(c * n) = SL!Within(Low, High, Low + (c * n) \div c)
  BY <1>7 DEF SL!NewVal, c
<1>9. (c * n) \div c = n
  BY <1>1, <1>2, Exactly
<1>10. SL!Within(Low, High, v) = v
  BY <1>1, <1>2 DEF SL!Within
<1> QED
  BY <1>2, <1>4, <1>8, <1>9, <1>10 DEF SL!Commit

LEMMA CommitSettles ==
  ASSUME SL!SliderAssumption, NEW v \in Int
  PROVE  SL!Commit(SL!Commit(SL!Commit(v))) = SL!Commit(SL!Commit(v))
<1>1. \A w \in Int : Legal(SL!Commit(w)) /\ SL!Commit(w) \in Int
  <2> SUFFICES ASSUME NEW w \in Int PROVE Legal(SL!Commit(w)) /\ SL!Commit(w) \in Int
    OBVIOUS
  <2>1. SL!Place(w) \in Int
    BY Scaled DEF SL!Place
  <2>2. Legal(SL!Commit(w))
    BY <2>1, NewValIs DEF SL!Commit
  <2> QED
    BY <2>2, Scaled DEF Legal
<1> DEFINE a == SL!Commit(v)  b == SL!Commit(a)
<1>2. Legal(a) /\ a \in Int /\ Legal(b) /\ b \in Int
  BY <1>1
<1>3. b = SL!Commit(a)
  OBVIOUS
<1> HIDE DEF a, b
<1>4. CASE b = High /\ a = High
  BY <1>3, <1>4 DEF a, b
<1>5. CASE a # High
  <2>1. b = a
    BY <1>2, <1>3, <1>5, StepStays DEF Legal
  <2> QED
    BY <1>3, <2>1 DEF a, b
<1>6. CASE b # High
  <2>1. SL!Commit(b) = b
    BY <1>2, <1>6, StepStays DEF Legal
  <2> QED
    BY <2>1 DEF a, b
<1> QED
  BY <1>4, <1>5, <1>6

(* What a refresh does.                                                    *)

Written == SL!Numbers \cup {Empty}
Shows(v, h) == Near(h, SL!Within(0, SL!Track, SL!Place(v)))

LEMMA NumbersAre ==
  ASSUME SL!SliderAssumption
  PROVE  /\ SL!Numbers \subseteq Int /\ Empty \notin Int
         /\ \A v : Legal(v) => v \in SL!Numbers /\ v \in Int
BY Scaled DEF SL!SliderAssumption, SL!Numbers, Legal

LEMMA PlaceIsInt ==
  ASSUME SL!SliderAssumption, NEW v \in Int PROVE SL!Place(v) \in Int
BY Scaled DEF SL!Place

LEMMA FingerIsInt ==
  ASSUME SL!SliderAssumption, NEW x \in Points PROVE SL!AtFinger(x) \in Int
<1>1. x \in Int /\ Width \in Int /\ Width > 0 /\ High - Low \in Int
  BY DEF SL!SliderAssumption
<1>2. 200 * x + Width \in Int /\ 2 * Width \in Int /\ 2 * Width > 0
  BY <1>1
<1>3. (200 * x + Width) \div (2 * Width) \in Int
  BY <1>2
<1> QED
  BY <1>1, <1>3 DEF SL!AtFinger

LEMMA NearItself ==
  ASSUME SL!SliderAssumption, NEW a \in Int PROVE Near(a, a)
<1> DEFINE size == SL!Scale * Step
<1>1. size \in Int /\ size > 0
  BY Scaled
<1>2. Near(a, a) <=> 2 * SL!Absolute(a - a) <= size
  BY DEF Near
<1> HIDE DEF size
<1> QED
  BY <1>1, <1>2 DEF SL!Absolute

(* The handle that is shown for a place is half a step at most from its    *)
(* value.                                                                  *)
LEMMA ShownFits ==
  ASSUME SL!SliderAssumption, NEW place \in Int, NEW snaps
  PROVE  /\ SL!Shown(place, snaps) \in 0..SL!Track
         /\ Shows(SL!NewVal(place), SL!Shown(place, snaps))
<1> DEFINE a == SL!Align(place)  T == SL!Track
           p == IF snaps /\ SL!Coarse /\ ~IsToggle THEN a ELSE place
<1>1. T \in Int /\ T > 0 /\ a \in Int /\ Near(place, a)
  BY Scaled, AlignIs
<1>2. SL!Shown(place, snaps) = SL!Within(0, T, p)
  BY DEF SL!Shown
<1>3. SL!Place(SL!NewVal(place)) = SL!Within(0, T, a)
  BY NewValIs
<1>4. SL!Scale * Step \in Int /\ SL!Scale * Step > 0
  BY Scaled
<1>5. Near(a, a)
  BY <1>1, NearItself
<1>6. p \in Int /\ Near(p, a)
  BY <1>1, <1>5
<1> HIDE DEF a, T, p
<1>7. SL!Within(0, T, p) \in 0..T /\ SL!Within(0, T, SL!Within(0, T, a)) = SL!Within(0, T, a)
  BY <1>1, <1>6 DEF SL!Within
<1>8. SL!Absolute(SL!Within(0, T, p) - SL!Within(0, T, a)) <= SL!Absolute(p - a)
  BY <1>1, <1>6 DEF SL!Within, SL!Absolute
<1>9. SL!Absolute(SL!Within(0, T, p) - SL!Within(0, T, a)) \in Int /\ SL!Absolute(p - a) \in Int
  BY <1>1, <1>6 DEF SL!Within, SL!Absolute
<1>10. Near(SL!Within(0, T, p), SL!Within(0, T, a))
  <2> DEFINE size == SL!Scale * Step
  <2>1. size \in Int /\ 2 * SL!Absolute(p - a) <= size
    BY <1>4, <1>6 DEF Near
  <2> HIDE DEF size
  <2>2. 2 * SL!Absolute(SL!Within(0, T, p) - SL!Within(0, T, a)) <= size
    BY <1>8, <1>9, <2>1
  <2> QED
    BY <2>2 DEF size, Near
<1> QED
  BY <1>2, <1>3, <1>7, <1>10 DEF T, Shows

LEMMA BringDoes ==
  ASSUME SL!SliderAssumption, NEW from, NEW place \in Int, NEW snaps, NEW isfromControl, NEW moved,
         SL!Bring(from, place, snaps, isfromControl, moved)
  PROVE  /\ Legal(controlValue') /\ handle' \in 0..SL!Track /\ Shows(controlValue', handle')
         /\ stored' = from \/ Legal(stored')
         /\ text' = controlValue'
<1> DEFINE newval == SL!NewVal(place)  again == SL!Tells(from, isfromControl, newval) /\ SL!Heeds(moved)
<1>1. /\ controlValue' = IF again THEN SL!NewVal(SL!Place(newval)) ELSE newval
      /\ handle' = IF again THEN SL!Shown(SL!Place(newval), FALSE) ELSE SL!Shown(place, snaps)
      /\ stored' = IF again THEN newval ELSE from
      /\ text' = controlValue'
  BY DEF SL!Bring
<1>2. Legal(newval) /\ newval \in Int
  BY NewValIs, NumbersAre
<1>3. /\ SL!Shown(place, snaps) \in 0..SL!Track
      /\ Shows(newval, SL!Shown(place, snaps))
  BY ShownFits
<1> HIDE DEF newval, again
<1>4. SL!Place(newval) \in Int
  BY <1>2, PlaceIsInt
<1>5. /\ Legal(SL!NewVal(SL!Place(newval)))
      /\ SL!Shown(SL!Place(newval), FALSE) \in 0..SL!Track
      /\ Shows(SL!NewVal(SL!Place(newval)), SL!Shown(SL!Place(newval), FALSE))
  BY <1>4, NewValIs, ShownFits
<1>6. CASE again
  BY <1>1, <1>2, <1>5, <1>6
<1>7. CASE ~again
  BY <1>1, <1>2, <1>3, <1>7
<1> QED
  BY <1>6, <1>7

(* A switch stands at its one end or at the other.                         *)
LEMMA SwitchPlaces ==
  ASSUME SL!SliderAssumption, IsToggle, NEW v \in Int
  PROVE  /\ SL!NewVal(SL!Place(v)) = SL!Within(0, 1, v)
         /\ \A snaps : SL!Shown(SL!Place(v), snaps) = SL!Place(SL!Within(0, 1, v))
         /\ SL!Within(0, 1, v) \in {0, 1}
         /\ v \in {0, 1} => SL!Within(0, 1, v) = v
<1>1. Low = 0 /\ High = 1 /\ Step = 1
  BY DEF SL!SliderAssumption
<1>2. SL!Scale \in Int /\ SL!Scale > 0 /\ SL!Scale * Step = SL!Scale
  BY <1>1, Scaled
<1>3. SL!Place(v) = SL!Scale * v /\ SL!Place(v) \in Int
  BY <1>1, <1>2 DEF SL!Place
<1>4. SL!Place(v) % SL!Scale = 0 /\ SL!Place(v) \div SL!Scale = v
  <2> DEFINE c == SL!Scale
  <2>1. c \in Int /\ c > 0 /\ SL!Place(v) = c * v
    BY <1>2, <1>3
  <2> HIDE DEF c
  <2>2. (c * v) % c = 0 /\ (c * v) \div c = v
    BY <2>1, Exactly
  <2> QED
    BY <2>1, <2>2 DEF c
<1>5. SL!Align(SL!Place(v)) = SL!Place(v)
  BY <1>2, <1>3, <1>4, AlignIs
<1>6. SL!NewVal(SL!Place(v)) = SL!Within(0, 1, v)
  BY <1>1, <1>4, <1>5 DEF SL!NewVal
<1>7. SL!Place(SL!Within(0, 1, v)) = SL!Within(0, SL!Track, SL!Place(v))
  BY <1>3, <1>5, <1>6, NewValIs
<1>8. \A snaps : SL!Shown(SL!Place(v), snaps) = SL!Place(SL!Within(0, 1, v))
  BY <1>7 DEF SL!Shown
<1>9. SL!Within(0, 1, v) \in {0, 1} /\ (v \in {0, 1} => SL!Within(0, 1, v) = v)
  BY DEF SL!Within
<1> QED
  BY <1>6, <1>8, <1>9

LEMMA SwitchBrought ==
  ASSUME SL!SliderAssumption, IsToggle, NEW v \in Int, NEW from, NEW snaps, NEW isfromControl, NEW moved,
         SL!Bring(from, SL!Place(v), snaps, isfromControl, moved)
  PROVE  /\ controlValue' = SL!Within(0, 1, v) /\ controlValue' \in {0, 1}
         /\ handle' = SL!Place(controlValue')
<1> DEFINE w == SL!Within(0, 1, v)
<1>1. SL!NewVal(SL!Place(v)) = w /\ w \in {0, 1} /\ \A s : SL!Shown(SL!Place(v), s) = SL!Place(w)
  BY SwitchPlaces
<1> HIDE DEF w
<1>2. w \in Int /\ SL!Within(0, 1, w) = w
  BY <1>1 DEF SL!Within
<1>3. SL!NewVal(SL!Place(w)) = w /\ \A s : SL!Shown(SL!Place(w), s) = SL!Place(w)
  BY <1>2, SwitchPlaces
<1>4. controlValue' = w /\ handle' = SL!Place(w)
  BY <1>1, <1>3 DEF SL!Bring
<1> QED
  BY <1>1, <1>4 DEF w

(* The slider is true to its control.                                      *)

Typed ==
  /\ controlValue \in Written /\ stored \in Written /\ text \in Written
  /\ heard \in Written /\ was \in Written /\ handle \in 0..SL!Track
  /\ dragging \in BOOLEAN /\ mouseMoved \in BOOLEAN /\ userModified \in BOOLEAN
  /\ typed \in BOOLEAN /\ resetting \in BOOLEAN /\ disabled \in BOOLEAN
  /\ quiet \in BOOLEAN /\ lost \in BOOLEAN
  /\ beforeStart \in Written /\ fingerOnSlider \in {"none", "slider", "elsewhere"}
  /\ moves \in 0..SliderMoves

LEMMA TypesAre == (SL!TypeOK <=> Typed) /\ (SL!TypeOK' <=> Typed')
<1>1. SL!TypeOK <=> Typed
  BY Zenon DEF SL!TypeOK, Typed, Written
<1>2. SL!TypeOK' <=> Typed'
  BY Zenon DEF SL!TypeOK, Typed, Written
<1> QED
  BY <1>1, <1>2

Drags ==
  /\ dragging /\ ~lost => fingerOnSlider = "slider"
  /\ mouseMoved => dragging
  /\ lost => dragging
Known == quiet \/ (SL!Knows(text) /\ (typed \/ SL!Knows(controlValue)))
Switched ==
  /\ ~typed /\ controlValue \in {0, 1} /\ beforeStart \in {0, 1}
  /\ dragging /\ ~lost => beforeStart = was
  /\ Programs # "any" /\ mouseMoved /\ ~lost => (userModified <=> beforeStart # controlValue)
  /\ Programs # "any" /\ ~dragging /\ ~resetting => handle = SL!Place(controlValue)
Aligned == typed \/ controlValue = Empty \/ Legal(controlValue)
Shown == ~resetting /\ controlValue # Empty => Shows(controlValue, handle)

SliderInv ==
  /\ Typed /\ Drags /\ Known
  /\ IsToggle => Switched
  /\ Programs # "any" => Aligned
  /\ Programs # "any" /\ ~Clicks /\ ~IsToggle => Shown

(* What a refresh leaves.                                                  *)
Refreshed ==
  /\ controlValue' \in Written /\ stored' \in Written /\ heard' \in Written
  /\ handle' \in 0..SL!Track
  /\ (Legal(controlValue') /\ Shows(controlValue', handle')) \/ UNCHANGED <<controlValue, handle>>
  /\ \/ heard' = controlValue' /\ quiet' = FALSE /\ text' = controlValue'
     \/ /\ UNCHANGED <<heard, quiet, controlValue>>
        /\ UNCHANGED text \/ (text' = controlValue /\ ~typed)
  /\ IsToggle => controlValue' \in {0, 1}

LEMMA LegalIsWritten ==
  ASSUME SL!SliderAssumption, NEW v, Legal(v)
  PROVE  v \in Written /\ v \in Int /\ v # Empty /\ (IsToggle => v \in {0, 1})
<1>1. v \in Written /\ v \in Int /\ v # Empty
  BY NumbersAre DEF Written
<1>2. IsToggle => v \in 0..1
  BY DEF Legal, SL!SliderAssumption
<1> QED
  BY <1>1, <1>2

LEMMA RefreshDoes ==
  ASSUME SL!SliderAssumption, SliderInv, NEW place \in Int, NEW snaps, NEW moved,
         SL!Refresh(place, snaps, moved)
  PROVE  Refreshed
<1> DEFINE newval == SL!NewVal(place)
<1>1. SL!Bring(controlValue, place, snaps, FALSE, moved)
  BY DEF SL!Refresh
<1>2. /\ Legal(controlValue') /\ handle' \in 0..SL!Track /\ Shows(controlValue', handle')
      /\ stored' = controlValue \/ Legal(stored')
      /\ text' = controlValue'
  BY <1>1, BringDoes
<1>3. IF SL!Tells(controlValue, FALSE, newval)
      THEN heard' = controlValue' /\ quiet' = FALSE
      ELSE UNCHANGED <<heard, quiet>>
  BY DEF SL!Refresh, SL!Told
<1>4. ~SL!Tells(controlValue, FALSE, newval) =>
        controlValue' = newval /\ controlValue = newval /\ ~typed
  <2> SUFFICES ASSUME ~SL!Tells(controlValue, FALSE, newval)
               PROVE  controlValue' = newval /\ controlValue = newval /\ ~typed
    OBVIOUS
  <2>1. IsToggle /\ controlValue = newval
    BY DEF SL!Tells
  <2>2. controlValue' = newval
    BY <1>1 DEF SL!Bring
  <2> QED
    BY <2>1, <2>2 DEF SliderInv, Switched
<1>5. controlValue' \in Written /\ (IsToggle => controlValue' \in {0, 1})
  BY <1>2, LegalIsWritten
<1>6. stored' \in Written
  BY <1>2, LegalIsWritten DEF SliderInv, Typed
<1>7. \/ heard' = controlValue' /\ quiet' = FALSE /\ text' = controlValue'
      \/ UNCHANGED <<heard, quiet, controlValue>> /\ text' = controlValue /\ ~typed
  <2>1. CASE SL!Tells(controlValue, FALSE, newval)
    BY <1>2, <1>3, <2>1
  <2>2. CASE ~SL!Tells(controlValue, FALSE, newval)
    <3>1. controlValue' = controlValue /\ ~typed /\ text' = controlValue'
      BY <1>2, <1>4, <2>2
    <3>2. UNCHANGED <<heard, quiet>>
      BY <1>3, <2>2
    <3> QED
      BY <3>1, <3>2
  <2> QED
    BY <2>1, <2>2
<1>8. heard' \in Written
  BY <1>5, <1>7 DEF SliderInv, Typed
<1> QED
  BY <1>2, <1>5, <1>6, <1>7, <1>8 DEF Refreshed

LEMMA FingerRefreshes ==
  ASSUME SL!SliderAssumption, SliderInv, NEW x \in Points, NEW moved \in BOOLEAN,
         SL!RefreshFromFinger(x, moved)
  PROVE  /\ Refreshed
         /\ IsToggle /\ moved =>
              handle' = handle \/ handle' = SL!Within(0, SL!Track, SL!AtFinger(x))
<1>1. SL!AtFinger(x) \in Int
  BY FingerIsInt
<1>2. CASE SL!Refresh(SL!AtFinger(x), TRUE, moved)
  <2>1. Refreshed
    BY <1>1, <1>2, RefreshDoes
  <2>2. IsToggle /\ moved => handle' = SL!Shown(SL!AtFinger(x), TRUE)
    BY <1>2 DEF SL!Refresh, SL!Bring, SL!Heeds
  <2>3. IsToggle => SL!Shown(SL!AtFinger(x), TRUE) = SL!Within(0, SL!Track, SL!AtFinger(x))
    BY DEF SL!Shown
  <2> QED
    BY <2>1, <2>2, <2>3
<1>3. CASE stored' = controlValue /\ UNCHANGED <<controlValue, handle, text, heard, quiet>>
  BY <1>3 DEF Refreshed, SliderInv, Typed, Switched
<1> QED
  BY <1>2, <1>3 DEF SL!RefreshFromFinger

LEMMA ControlRests ==
  ASSUME SliderInv, UNCHANGED <<controlValue, handle, stored, text, heard, quiet>> PROVE Refreshed
BY DEF Refreshed, SliderInv, Typed, Switched

LEMMA SliderStarts == ASSUME SL!SliderAssumption, SL!Init PROVE SliderInv
<1>1. /\ Initial \in Int /\ Low <= Initial /\ Initial <= High /\ (Initial - Low) % Step = 0
      /\ Low \in Int /\ High \in Int /\ SliderMoves \in Nat
  BY DEF SL!SliderAssumption
<1>2. Legal(Initial) /\ Initial \in Written
  <2>1. Legal(Initial)
    BY <1>1 DEF Legal
  <2> QED
    BY <2>1, LegalIsWritten
<1>3. SL!Place(Initial) = SL!Within(0, SL!Track, SL!Place(Initial))
  <2> DEFINE n == Initial - Low
  <2>1. n \in Int /\ Low + n = Initial /\ SL!Scale * n = SL!Place(Initial)
    BY <1>1 DEF SL!Place
  <2>2. SL!Within(Low, High, Initial) = Initial
    BY <1>1 DEF SL!Within
  <2> HIDE DEF n
  <2>3. SL!Place(SL!Within(Low, High, Low + n)) = SL!Within(0, SL!Track, SL!Scale * n)
    BY <2>1, PlacesWithin
  <2> QED
    BY <2>1, <2>2, <2>3
<1>4. SL!Place(Initial) \in Int /\ SL!Track \in Int /\ SL!Track > 0
  BY <1>1, PlaceIsInt, Scaled
<1>5. SL!Place(Initial) \in 0..SL!Track
  <2> DEFINE p == SL!Place(Initial)  t == SL!Track
  <2>1. p \in Int /\ t \in Int /\ t > 0 /\ p = SL!Within(0, t, p)
    BY <1>3, <1>4
  <2> HIDE DEF p, t
  <2>2. p \in 0..t
    BY <2>1 DEF SL!Within
  <2> QED
    BY <2>2 DEF p, t
<1>6. Shows(Initial, SL!Place(Initial))
  BY <1>3, <1>4, NearItself DEF Shows
<1>7. Typed
  <2>1. /\ controlValue \in Written /\ stored \in Written /\ text \in Written
        /\ heard \in Written /\ was \in Written /\ beforeStart \in Written
        /\ handle \in 0..SL!Track
    BY <1>2, <1>5 DEF SL!Init
  <2>2. /\ dragging \in BOOLEAN /\ mouseMoved \in BOOLEAN /\ userModified \in BOOLEAN
        /\ typed \in BOOLEAN /\ resetting \in BOOLEAN /\ disabled \in BOOLEAN
        /\ quiet \in BOOLEAN /\ lost \in BOOLEAN
    BY DEF SL!Init
  <2>3. fingerOnSlider \in {"none", "slider", "elsewhere"} /\ moves \in 0..SliderMoves
    BY <1>1 DEF SL!Init
  <2> QED
    BY <2>1, <2>2, <2>3 DEF Typed
<1>8. Drags /\ Known
  BY DEF Drags, Known, SL!Init, SL!Knows
<1>9. IsToggle => Switched
  <2>1. IsToggle => Initial \in {0, 1}
    BY <1>2, LegalIsWritten
  <2> QED
    BY <2>1 DEF Switched, SL!Init
<1>10. Aligned /\ Shown
  BY <1>2, <1>6 DEF Aligned, Shown, SL!Init
<1> QED
  BY <1>7, <1>8, <1>9, <1>10 DEF SliderInv

LEMMA RefreshKeeps ==
  ASSUME SliderInv, Refreshed
  PROVE  /\ UNCHANGED typed => Known'
         /\ UNCHANGED typed /\ Programs # "any" => Aligned'
         /\ UNCHANGED resetting /\ Programs # "any" /\ ~Clicks /\ ~IsToggle => Shown'
<1>1. UNCHANGED typed => Known'
  BY DEF SliderInv, Refreshed, Known, SL!Knows
<1>2. UNCHANGED typed /\ Programs # "any" => Aligned'
  BY DEF SliderInv, Refreshed, Aligned
<1>3. UNCHANGED resetting /\ Programs # "any" /\ ~Clicks /\ ~IsToggle => Shown'
  BY DEF SliderInv, Refreshed, Shown
<1> QED
  BY <1>1, <1>2, <1>3

LEMMA SliderMovesOn ==
  ASSUME SL!SliderAssumption, SliderInv, SL!Moved PROVE moves' \in 0..SliderMoves
<1>1. SliderMoves \in Nat /\ moves \in 0..SliderMoves /\ moves < SliderMoves /\ moves' = moves + 1
  BY DEF SL!SliderAssumption, SliderInv, Typed, SL!Moved
<1> QED
  BY <1>1

LEMMA DownKeeps ==
  ASSUME SL!SliderAssumption, SliderInv, SL!SliderVMouseDown PROVE SliderInv'
<1>1. PICK x \in Points :
        /\ SL!Moved /\ fingerOnSlider = "none"
        /\ fingerOnSlider' = "slider" /\ was' = controlValue
        /\ IF disabled
           THEN UNCHANGED <<SL!control, SL!drag, lost>>
           ELSE /\ dragging' = TRUE /\ userModified' = FALSE /\ mouseMoved' = FALSE
                /\ lost' = FALSE
                /\ SL!RefreshFromFinger(x, FALSE)
                /\ beforeStart' = IF IsToggle THEN controlValue ELSE beforeStart
        /\ UNCHANGED <<typed, resetting, disabled>>
  BY DEF SL!SliderVMouseDown, SL!BeforeStart
<1>2. dragging => lost
  BY <1>1 DEF SliderInv, Drags
<1>3. Refreshed
  <2>1. CASE disabled
    BY <1>1, <2>1, ControlRests DEF SL!control
  <2>2. CASE ~disabled
    BY <1>1, <2>2, FingerRefreshes
  <2> QED
    BY <2>1, <2>2
<1>4. /\ dragging' \in BOOLEAN /\ mouseMoved' \in BOOLEAN /\ userModified' \in BOOLEAN
      /\ lost' \in BOOLEAN /\ beforeStart' \in {controlValue, beforeStart}
      /\ (mouseMoved' => dragging') /\ (lost' => dragging')
  BY <1>1 DEF SL!drag, SliderInv, Typed, Drags
<1>5. Typed'
  BY <1>1, <1>3, <1>4, SliderMovesOn DEF SliderInv, Typed, Refreshed
<1>6. Drags'
  BY <1>1, <1>4 DEF Drags
<1>7. IsToggle => Switched'
  <2> SUFFICES ASSUME IsToggle PROVE Switched'
    OBVIOUS
  <2>1. CASE disabled
    BY <1>1, <1>2, <2>1 DEF SliderInv, Switched, Drags, SL!control, SL!drag
  <2>2. CASE ~disabled
    BY <1>1, <1>3, <2>2 DEF SliderInv, Switched, Refreshed
  <2> QED
    BY <2>1, <2>2
<1> QED
  BY <1>1, <1>3, <1>5, <1>6, <1>7, RefreshKeeps DEF SliderInv

LEMMA DragKeepsInv ==
  ASSUME SL!SliderAssumption, SliderInv, SL!PreventDocumentDrag PROVE SliderInv'
<1>1. PICK x \in Points :
        /\ SL!Moved /\ fingerOnSlider # "none"
        /\ IF dragging /\ ~disabled
           THEN /\ mouseMoved' = TRUE
                /\ SL!RefreshFromFinger(x, TRUE)
                /\ userModified' = (beforeStart # controlValue')
           ELSE UNCHANGED <<SL!control, mouseMoved, userModified>>
        /\ UNCHANGED <<dragging, beforeStart, SL!user, disabled>>
  BY DEF SL!PreventDocumentDrag
<1>2. UNCHANGED <<typed, resetting, fingerOnSlider, lost, was, dragging, beforeStart, disabled>>
  BY <1>1 DEF SL!user
<1>3. CASE dragging /\ ~disabled
  <2>1. Refreshed
    BY <1>1, <1>3, FingerRefreshes
  <2>2. Typed'
    <3>1. userModified' \in BOOLEAN /\ mouseMoved' \in BOOLEAN
      BY <1>1, <1>3
    <3> QED
      BY <1>1, <1>2, <2>1, <3>1, SliderMovesOn DEF SliderInv, Typed, Refreshed
  <2>3. Drags'
    BY <1>2, <1>3 DEF SliderInv, Drags
  <2>4. IsToggle => Switched'
    <3>1. userModified' = (beforeStart' # controlValue')
      BY <1>1, <1>2, <1>3
    <3>2. userModified' <=> beforeStart' # controlValue'
      BY <3>1, Zenon
    <3>3. IsToggle => /\ ~typed' /\ controlValue' \in {0, 1} /\ beforeStart' \in {0, 1}
                      /\ ~lost' => beforeStart' = was'
      BY <1>2, <1>3, <2>1 DEF SliderInv, Switched, Refreshed
    <3>4. dragging'
      BY <1>2, <1>3
    <3> QED
      BY <3>2, <3>3, <3>4 DEF Switched
  <2> QED
    BY <1>2, <2>1, <2>2, <2>3, <2>4, RefreshKeeps DEF SliderInv
<1>4. CASE ~(dragging /\ ~disabled)
  <2>1. UNCHANGED <<controlValue, handle, stored, text, heard, quiet, mouseMoved, userModified>>
    BY <1>1, <1>4 DEF SL!control
  <2>2. Refreshed
    BY <2>1, ControlRests
  <2>3. Typed'
    BY <1>1, <1>2, <2>1, <2>2, SliderMovesOn DEF SliderInv, Typed, Refreshed
  <2>4. Drags' /\ (IsToggle => Switched')
    BY <1>2, <2>1 DEF SliderInv, Drags, Switched
  <2> QED
    BY <1>2, <2>2, <2>3, <2>4, RefreshKeeps DEF SliderInv
<1> QED
  BY <1>3, <1>4

(* The value a switch is released at is one of its two, where it stands    *)
(* then.                                                                   *)
LEMMA SwitchIsReleased ==
  ASSUME SL!SliderAssumption, SliderInv, IsToggle, NEW snaps, NEW moved,
         SL!Refresh(SL!Place(SL!Released), snaps, moved)
  PROVE  /\ controlValue' = SL!Released /\ controlValue' \in {0, 1}
         /\ handle' = SL!Place(controlValue')
<1> DEFINE r == SL!Released
<1>1. r \in {0, 1}
  BY DEF SliderInv, Switched, SL!Released
<1>2. SL!Bring(controlValue, SL!Place(r), snaps, FALSE, moved)
  BY DEF SL!Refresh
<1> HIDE DEF r
<1>3. r \in Int /\ SL!Within(0, 1, r) = r
  BY <1>1 DEF SL!Within
<1>4. controlValue' = SL!Within(0, 1, r) /\ controlValue' \in {0, 1} /\ handle' = SL!Place(controlValue')
  BY <1>2, <1>3, SwitchBrought
<1> QED
  BY <1>3, <1>4 DEF r

LEMMA UpKeeps ==
  ASSUME SL!SliderAssumption, SliderInv, SL!SliderVMouseUp PROVE SliderInv'
<1>1. /\ SL!Moved /\ fingerOnSlider' = "none" /\ lost' = FALSE
      /\ IF dragging
         THEN /\ dragging' = FALSE /\ mouseMoved' = FALSE
              /\ IF IsToggle THEN SL!Refresh(SL!Place(SL!Released), FALSE, mouseMoved)
                 ELSE UNCHANGED SL!control
         ELSE UNCHANGED <<SL!control, dragging, mouseMoved>>
      /\ UNCHANGED <<userModified, beforeStart, typed, resetting, was, disabled>>
  BY DEF SL!SliderVMouseUp, SL!Ends, SL!Settles
<1>2. dragging' = FALSE /\ mouseMoved' = FALSE
  BY <1>1 DEF SliderInv, Drags, Typed
<1>3. CASE dragging /\ IsToggle
  <2>1. SL!Refresh(SL!Place(SL!Released), FALSE, mouseMoved)
    BY <1>1, <1>3
  <2>2. SL!Place(SL!Released) \in Int
    <3>1. SL!Released \in Int
      BY <1>3 DEF SL!Released, SliderInv, Switched
    <3> DEFINE r == SL!Released
    <3> HIDE DEF r
    <3>2. SL!Place(r) \in Int
      BY <3>1, PlaceIsInt DEF r
    <3> QED
      BY <3>2 DEF r
  <2>3. Refreshed
    <3> DEFINE p == SL!Place(SL!Released)
    <3> HIDE DEF p
    <3>1. p \in Int /\ SL!Refresh(p, FALSE, mouseMoved)
      BY <2>1, <2>2 DEF p
    <3> QED
      BY <3>1, RefreshDoes
  <2>4. controlValue' \in {0, 1} /\ handle' = SL!Place(controlValue')
    BY <1>3, <2>1, SwitchIsReleased
  <2>5. Typed'
    BY <1>1, <1>2, <2>3, SliderMovesOn DEF SliderInv, Typed, Refreshed
  <2>6. Drags' /\ Switched'
    BY <1>1, <1>2, <1>3, <2>4 DEF SliderInv, Drags, Switched
  <2> QED
    BY <1>1, <2>3, <2>5, <2>6, RefreshKeeps DEF SliderInv
<1>4. CASE ~(dragging /\ IsToggle)
  <2>1. UNCHANGED <<controlValue, handle, stored, text, heard, quiet>>
    BY <1>1, <1>4 DEF SL!control
  <2>2. Refreshed
    BY <2>1, ControlRests
  <2>3. Typed'
    BY <1>1, <1>2, <2>2, SliderMovesOn DEF SliderInv, Typed, Refreshed
  <2>4. Drags' /\ (IsToggle => Switched')
    BY <1>1, <1>2, <1>4, <2>1 DEF SliderInv, Drags, Switched
  <2> QED
    BY <1>1, <2>2, <2>3, <2>4, RefreshKeeps DEF SliderInv
<1> QED
  BY <1>3, <1>4

LEMMA ElsewhereKeeps ==
  ASSUME SL!SliderAssumption, SliderInv, SL!TouchElsewhere PROVE SliderInv'
<1>1. /\ SL!Moved /\ fingerOnSlider = "none" /\ fingerOnSlider' = "elsewhere"
      /\ UNCHANGED <<controlValue, handle, stored, text, heard, quiet, dragging, mouseMoved,
                     userModified, beforeStart, typed, resetting, lost, was, disabled>>
  BY DEF SL!TouchElsewhere, SL!control, SL!drag
<1>2. Refreshed
  BY <1>1, ControlRests
<1>3. Typed'
  BY <1>1, <1>2, SliderMovesOn DEF SliderInv, Typed, Refreshed
<1>4. Drags' /\ (IsToggle => Switched')
  BY <1>1 DEF SliderInv, Drags, Switched
<1> QED
  BY <1>1, <1>2, <1>3, <1>4, RefreshKeeps DEF SliderInv

LEMMA LostKeeps ==
  ASSUME SL!SliderAssumption, SliderInv, SL!TouchLost PROVE SliderInv'
<1>1. /\ SL!Moved /\ fingerOnSlider' = "none" /\ lost' = dragging
      /\ UNCHANGED <<controlValue, handle, stored, text, heard, quiet, dragging, mouseMoved,
                     userModified, beforeStart, typed, resetting, was, disabled>>
  BY DEF SL!TouchLost, SL!control, SL!drag
<1>2. Refreshed
  BY <1>1, ControlRests
<1>3. Typed'
  BY <1>1, <1>2, SliderMovesOn DEF SliderInv, Typed, Refreshed
<1>4. Drags' /\ (IsToggle => Switched')
  BY <1>1 DEF SliderInv, Drags, Switched
<1> QED
  BY <1>1, <1>2, <1>3, <1>4, RefreshKeeps DEF SliderInv

LEMMA KeysKeep ==
  ASSUME SL!SliderAssumption, SliderInv, SL!HandleKeydown PROVE SliderInv'
<1>1. /\ SL!Moved /\ fingerOnSlider = "none" /\ ~typed
      /\ UNCHANGED <<dragging, mouseMoved, userModified, beforeStart, typed, resetting,
                     fingerOnSlider, lost, was, disabled>>
  BY DEF SL!HandleKeydown, SL!drag, SL!user
<1>2. dragging => lost
  BY <1>1 DEF SliderInv, Drags
<1>3. \/ UNCHANGED <<controlValue, handle, stored, text, heard, quiet>>
      \/ \E v \in Int : SL!Refresh(SL!Place(v), FALSE, mouseMoved)
  <2>1. \/ UNCHANGED <<controlValue, handle, stored, text, heard, quiet>>
        \/ SL!Refresh(SL!Place(Low), FALSE, mouseMoved)
        \/ SL!Refresh(SL!Place(High), FALSE, mouseMoved)
        \/ /\ controlValue # Empty
           /\ \E step \in {Step, -Step} :
                SL!Refresh(SL!Place(controlValue + step), FALSE, mouseMoved)
    BY DEF SL!HandleKeydown, SL!control
  <2>2. Low \in Int /\ High \in Int /\ Step \in Int /\ -Step \in Int
    BY Scaled
  <2>3. controlValue # Empty => controlValue \in Int
    BY NumbersAre DEF SliderInv, Typed, Written
  <2>4. controlValue # Empty => controlValue + Step \in Int /\ controlValue + (-Step) \in Int
    BY <2>2, <2>3
  <2> QED
    BY <2>1, <2>2, <2>4
<1>4. CASE UNCHANGED <<controlValue, handle, stored, text, heard, quiet>>
  <2>1. Refreshed
    BY <1>4, ControlRests
  <2>2. Typed'
    BY <1>1, <2>1, SliderMovesOn DEF SliderInv, Typed, Refreshed
  <2>3. Drags' /\ (IsToggle => Switched')
    BY <1>1, <1>4 DEF SliderInv, Drags, Switched
  <2> QED
    BY <1>1, <2>1, <2>2, <2>3, RefreshKeeps DEF SliderInv
<1>5. CASE \E v \in Int : SL!Refresh(SL!Place(v), FALSE, mouseMoved)
  <2>1. PICK v \in Int : SL!Refresh(SL!Place(v), FALSE, mouseMoved)
    BY <1>5
  <2>2. SL!Place(v) \in Int
    BY PlaceIsInt
  <2>3. Refreshed
    BY <2>1, <2>2, RefreshDoes
  <2>4. IsToggle => controlValue' \in {0, 1} /\ handle' = SL!Place(controlValue')
    BY <2>1, SwitchBrought DEF SL!Refresh
  <2>5. Typed'
    BY <1>1, <2>3, SliderMovesOn DEF SliderInv, Typed, Refreshed
  <2>6. Drags' /\ (IsToggle => Switched')
    BY <1>1, <1>2, <2>4 DEF SliderInv, Drags, Switched
  <2> QED
    BY <1>1, <2>3, <2>5, <2>6, RefreshKeeps DEF SliderInv
<1> QED
  BY <1>3, <1>4, <1>5

LEMMA WithinShows ==
  ASSUME SL!SliderAssumption, NEW v \in Int
  PROVE  SL!Shown(SL!Place(v), FALSE) \in 0..SL!Track /\ Shows(v, SL!Shown(SL!Place(v), FALSE))
<1> DEFINE w == SL!Within(0, SL!Track, SL!Place(v))
<1>1. SL!Shown(SL!Place(v), FALSE) = w
  BY DEF SL!Shown
<1>2. SL!Place(v) \in Int /\ w \in 0..SL!Track
  <2>1. SL!Place(v) \in Int
    BY PlaceIsInt
  <2>2. SL!Shown(SL!Place(v), FALSE) \in 0..SL!Track
    BY <2>1, ShownFits
  <2> QED
    BY <1>1, <2>1, <2>2
<1>3. w \in Int
  <2> DEFINE t == SL!Track
  <2>1. t \in Int /\ w \in 0..t
    BY <1>2, Scaled
  <2> HIDE DEF t, w
  <2> QED
    BY <2>1
<1>4. Near(w, w)
  <2> HIDE DEF w
  <2> QED
    BY <1>3, NearItself
<1> QED
  BY <1>1, <1>2, <1>4 DEF Shows

LEMMA TypingKeeps ==
  ASSUME SL!SliderAssumption, SliderInv, SL!ControlKeyup PROVE SliderInv'
<1>1. /\ SL!Moved /\ fingerOnSlider = "none" /\ ~IsToggle /\ typed' = TRUE
      /\ UNCHANGED <<text, heard, quiet, dragging, mouseMoved, userModified, beforeStart,
                     resetting, fingerOnSlider, lost, was, disabled>>
  BY DEF SL!ControlKeyup, SL!drag
<1>2. PICK v \in Values \cup {Empty} :
        /\ controlValue' = v /\ stored' = v
        /\ handle' = IF v = Empty THEN handle ELSE SL!Shown(SL!Place(v), FALSE)
  BY DEF SL!ControlKeyup
<1>3. v \in Written /\ (v # Empty => v \in Int)
  BY DEF Written, SL!Numbers, SL!SliderAssumption
<1>4. v # Empty => handle' \in 0..SL!Track /\ Shows(v, handle')
  BY <1>2, <1>3, WithinShows
<1>5. Typed'
  BY <1>1, <1>2, <1>3, <1>4, SliderMovesOn DEF SliderInv, Typed
<1>6. Drags' /\ Known' /\ Aligned'
  BY <1>1 DEF SliderInv, Drags, Known, Aligned, SL!Knows
<1>7. Shown'
  BY <1>2, <1>4 DEF Shown
<1> QED
  BY <1>1, <1>5, <1>6, <1>7 DEF SliderInv

(* What the control's own value brings: typed, clicked or written.         *)
LEMMA BroughtFits ==
  ASSUME SL!SliderAssumption, NEW v \in Written, v # Empty, NEW isfromControl, NEW moved,
         SL!Bring(v, SL!Place(v), FALSE, isfromControl, moved)
  PROVE  /\ controlValue' \in Written /\ stored' \in Written /\ handle' \in 0..SL!Track
         /\ text' = controlValue' /\ Legal(controlValue') /\ Shows(controlValue', handle')
         /\ IsToggle => controlValue' \in {0, 1} /\ handle' = SL!Place(controlValue')
<1>1. v \in Int
  BY NumbersAre DEF Written
<1>2. SL!Place(v) \in Int
  BY <1>1, PlaceIsInt
<1>3. /\ Legal(controlValue') /\ handle' \in 0..SL!Track /\ Shows(controlValue', handle')
      /\ stored' = v \/ Legal(stored')
      /\ text' = controlValue'
  BY <1>2, BringDoes
<1>4. IsToggle => controlValue' \in {0, 1} /\ handle' = SL!Place(controlValue')
  BY <1>1, SwitchBrought
<1> QED
  BY <1>3, <1>4, LegalIsWritten

LEMMA BlurKeeps ==
  ASSUME SL!SliderAssumption, SliderInv, SL!ControlBlur PROVE SliderInv'
<1> DEFINE changes == controlValue # text
           left == IF changes /\ controlValue # Empty /\ ~mouseMoved
                   THEN SL!Commit(controlValue) ELSE controlValue
<1>1. /\ SL!Moved /\ fingerOnSlider = "none" /\ typed /\ typed' = FALSE
      /\ UNCHANGED <<dragging, mouseMoved, userModified, beforeStart, resetting,
                     fingerOnSlider, lost, was, disabled>>
  BY DEF SL!ControlBlur, SL!drag
<1>2. /\ IF left = Empty THEN stored' = left /\ text' = left /\ UNCHANGED <<controlValue, handle>>
         ELSE SL!Bring(left, SL!Place(left), FALSE, TRUE, mouseMoved)
      /\ IF changes THEN heard' = left /\ quiet' = FALSE ELSE UNCHANGED <<heard, quiet>>
  BY DEF SL!ControlBlur, SL!Heeds
<1>3. ~IsToggle
  BY <1>1 DEF SliderInv, Switched
<1>4. /\ left \in Written /\ (left = Empty => controlValue = Empty)
      /\ ~changes => left = controlValue /\ left = text
  <2>1. controlValue # Empty => SL!Commit(controlValue) \in Written /\ SL!Commit(controlValue) # Empty
    <3> SUFFICES ASSUME controlValue # Empty
                 PROVE  SL!Commit(controlValue) \in Written /\ SL!Commit(controlValue) # Empty
      OBVIOUS
    <3>1. controlValue \in Int
      BY NumbersAre DEF SliderInv, Typed, Written
    <3>2. SL!Place(controlValue) \in Int
      BY <3>1, PlaceIsInt
    <3>3. Legal(SL!Commit(controlValue))
      BY <3>2, NewValIs DEF SL!Commit
    <3> QED
      BY <3>3, LegalIsWritten
  <2> QED
    BY <2>1 DEF SliderInv, Typed
<1> HIDE DEF changes, left
<1>5. CASE left = Empty
  <2>1. stored' = left /\ text' = left /\ UNCHANGED <<controlValue, handle>> /\ controlValue = left
    BY <1>2, <1>4, <1>5
  <2>2. Typed'
    BY <1>1, <1>2, <1>4, <2>1, SliderMovesOn DEF SliderInv, Typed
  <2>3. Known'
    BY <1>1, <1>2, <1>4, <2>1 DEF SliderInv, Known, SL!Knows
  <2>4. Drags' /\ Aligned' /\ Shown'
    BY <1>1, <1>5, <2>1 DEF SliderInv, Drags, Aligned, Shown
  <2> QED
    BY <1>3, <2>2, <2>3, <2>4 DEF SliderInv
<1>6. CASE left # Empty
  <2>1. SL!Bring(left, SL!Place(left), FALSE, TRUE, mouseMoved)
    BY <1>2, <1>6
  <2>2. /\ controlValue' \in Written /\ stored' \in Written /\ handle' \in 0..SL!Track
        /\ text' = controlValue' /\ Legal(controlValue') /\ Shows(controlValue', handle')
    BY <1>4, <1>6, <2>1, BroughtFits
  <2>3. controlValue' = SL!Commit(left)
    BY <2>1 DEF SL!Bring, SL!Tells, SL!Commit
  <2>4. Typed'
    BY <1>1, <1>2, <1>4, <2>2, SliderMovesOn DEF SliderInv, Typed
  <2>5. Known'
    <3>1. CASE changes
      BY <1>2, <1>6, <2>2, <2>3, <3>1 DEF Known, SL!Knows
    <3>2. CASE ~changes /\ ~quiet
      <4>1. UNCHANGED <<heard, quiet>> /\ SL!Knows(left)
        BY <1>2, <1>4, <3>2 DEF SliderInv, Known
      <4>2. heard # Empty /\ left \in {heard, SL!Commit(heard), SL!Commit(SL!Commit(heard))}
        BY <1>6, <4>1 DEF SL!Knows
      <4>3. heard \in Int
        BY <4>2, NumbersAre DEF SliderInv, Typed, Written
      <4>4. controlValue' \in {SL!Commit(heard), SL!Commit(SL!Commit(heard))}
        BY <2>3, <4>2, <4>3, CommitSettles
      <4> QED
        BY <2>2, <4>1, <4>2, <4>4 DEF Known, SL!Knows
    <3>3. CASE ~changes /\ quiet
      BY <1>2, <3>3 DEF Known
    <3> QED
      BY <3>1, <3>2, <3>3
  <2>6. Drags' /\ Aligned' /\ Shown'
    BY <1>1, <2>2 DEF SliderInv, Drags, Aligned, Shown
  <2> QED
    BY <1>3, <2>4, <2>5, <2>6 DEF SliderInv
<1> QED
  BY <1>5, <1>6

LEMMA ClickKeeps ==
  ASSUME SL!SliderAssumption, SliderInv, SL!ControlVMouseUp PROVE SliderInv'
<1>1. /\ SL!Moved /\ fingerOnSlider = "none" /\ ~IsToggle /\ Clicks /\ controlValue # Empty
      /\ typed' = TRUE
      /\ UNCHANGED <<dragging, mouseMoved, userModified, beforeStart, resetting,
                     fingerOnSlider, lost, was, disabled>>
  BY DEF SL!ControlVMouseUp, SL!drag
<1>2. PICK step \in {Step, 0, -Step} :
        LET v == SL!Within(Low, High, controlValue + step) IN
        IF stored # v THEN SL!Bring(v, SL!Place(v), FALSE, FALSE, mouseMoved) /\ SL!Told
        ELSE controlValue' = v /\ UNCHANGED <<handle, stored, text, heard, quiet>>
  BY DEF SL!ControlVMouseUp
<1> DEFINE v == SL!Within(Low, High, controlValue + step)
<1>3. v \in Written /\ v # Empty
  <2>1. Low \in Int /\ High \in Int /\ Low < High /\ step \in Int
    BY Scaled
  <2>2. controlValue \in Int
    BY <1>1, NumbersAre DEF SliderInv, Typed, Written
  <2>3. v \in Low..High
    BY <2>1, <2>2 DEF SL!Within
  <2> QED
    BY <2>3, NumbersAre DEF Written, SL!Numbers
<1>4. CASE stored # v
  <2>1. SL!Bring(v, SL!Place(v), FALSE, FALSE, mouseMoved) /\ SL!Told
    BY <1>2, <1>4
  <2> HIDE DEF v
  <2>2. /\ controlValue' \in Written /\ stored' \in Written /\ handle' \in 0..SL!Track
        /\ text' = controlValue'
    BY <1>3, <2>1, BroughtFits
  <2>3. Typed'
    BY <1>1, <2>1, <2>2, SliderMovesOn DEF SliderInv, Typed, SL!Told
  <2>4. Drags' /\ Known' /\ Aligned'
    BY <1>1, <2>1, <2>2 DEF SliderInv, Drags, Known, Aligned, SL!Told, SL!Knows
  <2> QED
    BY <1>1, <2>3, <2>4 DEF SliderInv
<1>5. CASE ~(stored # v)
  <2>1. controlValue' = v /\ UNCHANGED <<handle, stored, text, heard, quiet>>
    BY <1>2, <1>5
  <2> HIDE DEF v
  <2> QED
    BY <1>1, <1>3, <2>1, SliderMovesOn DEF SliderInv, Typed, Drags, Known, Aligned, SL!Knows
<1> QED
  BY <1>4, <1>5

LEMMA WritingKeeps ==
  ASSUME SL!SliderAssumption, SliderInv, SL!Write PROVE SliderInv'
<1>1. /\ SL!Moved
      /\ Programs # "any" => ~dragging
      /\ UNCHANGED <<dragging, mouseMoved, userModified, beforeStart, typed, resetting,
                     fingerOnSlider, lost, was, disabled>>
  BY DEF SL!Write, SL!MayWrite, SL!drag, SL!user
<1>2. PICK v \in Values :
        \/ /\ SL!Bring(v, SL!Place(v), FALSE, FALSE, mouseMoved)
           /\ \/ SL!Told
              \/ UNCHANGED heard /\ quiet' = TRUE
        \/ /\ IF ~mouseMoved THEN SL!Bring(v, SL!Place(v), FALSE, TRUE, mouseMoved)
              ELSE controlValue' = v /\ text' = v /\ UNCHANGED <<handle, stored>>
           /\ SL!Told
  BY DEF SL!Write, SL!Heeds
<1>3. v \in Written /\ v # Empty /\ (IsToggle => v \in {0, 1})
  BY DEF Written, SL!Numbers, SL!SliderAssumption
<1>4. CASE /\ \E isfromControl \in BOOLEAN :
                SL!Bring(v, SL!Place(v), FALSE, isfromControl, mouseMoved)
           /\ SL!Told \/ (UNCHANGED heard /\ quiet' = TRUE)
  <2>1. /\ controlValue' \in Written /\ stored' \in Written /\ handle' \in 0..SL!Track
        /\ text' = controlValue' /\ Legal(controlValue') /\ Shows(controlValue', handle')
        /\ IsToggle => controlValue' \in {0, 1} /\ handle' = SL!Place(controlValue')
    BY <1>3, <1>4, BroughtFits
  <2>2. Typed'
    BY <1>1, <1>4, <2>1, SliderMovesOn DEF SliderInv, Typed, SL!Told
  <2>3. Known'
    BY <1>1, <1>4, <2>1 DEF SliderInv, Known, SL!Knows, SL!Told
  <2>5. Drags' /\ Aligned' /\ Shown'
    BY <1>1, <2>1 DEF SliderInv, Drags, Aligned, Shown
  <2>4. IsToggle => Switched'
    BY <1>1, <2>1 DEF SliderInv, Drags, Switched
  <2> QED
    BY <2>2, <2>3, <2>4, <2>5 DEF SliderInv
<1>5. CASE /\ mouseMoved /\ controlValue' = v /\ text' = v
           /\ UNCHANGED <<handle, stored>> /\ SL!Told
  <2>1. Programs = "any"
    BY <1>1, <1>5 DEF SliderInv, Drags
  <2>2. Typed'
    BY <1>1, <1>3, <1>5, SliderMovesOn DEF SliderInv, Typed, SL!Told
  <2>4. Known'
    BY <1>1, <1>3, <1>5 DEF SliderInv, Known, SL!Knows, SL!Told
  <2>3. Drags' /\ (IsToggle => Switched')
    BY <1>1, <1>3, <1>5, <2>1 DEF SliderInv, Drags, Switched
  <2> QED
    BY <2>1, <2>2, <2>3, <2>4 DEF SliderInv
<1> QED
  BY <1>2, <1>4, <1>5

LEMMA DisablingKeeps ==
  ASSUME SL!SliderAssumption, SliderInv, SL!Disable PROVE SliderInv'
<1>1. /\ SL!Moved /\ disabled' = ~disabled
      /\ UNCHANGED <<controlValue, handle, stored, text, heard, quiet, dragging, mouseMoved,
                     userModified, beforeStart, typed, resetting, fingerOnSlider, lost, was>>
  BY DEF SL!Disable, SL!control, SL!drag, SL!user
<1>2. Refreshed
  BY <1>1, ControlRests
<1>3. Typed'
  BY <1>1, <1>2, SliderMovesOn DEF SliderInv, Typed, Refreshed
<1>4. Drags' /\ (IsToggle => Switched')
  BY <1>1 DEF SliderInv, Drags, Switched
<1> QED
  BY <1>1, <1>2, <1>3, <1>4, RefreshKeeps DEF SliderInv

LEMMA FormResetKeeps ==
  ASSUME SL!SliderAssumption, SliderInv, SL!FormReset PROVE SliderInv'
<1>1. /\ SL!Moved /\ (Programs # "any" => ~dragging)
      /\ controlValue' = Initial /\ text' = Initial /\ quiet' = TRUE /\ resetting' = TRUE
      /\ UNCHANGED <<handle, stored, heard, dragging, mouseMoved, userModified, beforeStart,
                     typed, fingerOnSlider, lost, was, disabled>>
  BY DEF SL!FormReset, SL!MayWrite, SL!drag
<1>2. Legal(Initial)
  BY DEF Legal, SL!SliderAssumption
<1>3. Initial \in Written /\ (IsToggle => Initial \in {0, 1})
  BY <1>2, LegalIsWritten
<1>4. Typed'
  BY <1>1, <1>3, SliderMovesOn DEF SliderInv, Typed
<1>5. Drags' /\ Known' /\ Aligned' /\ Shown'
  BY <1>1, <1>2 DEF SliderInv, Drags, Known, Aligned, Shown
<1>6. IsToggle => Switched'
  BY <1>1, <1>3 DEF SliderInv, Drags, Switched
<1> QED
  BY <1>4, <1>5, <1>6 DEF SliderInv

LEMMA ResetKeeps ==
  ASSUME SL!SliderAssumption, SliderInv, SL!Reset PROVE SliderInv'
<1>1. /\ resetting' = FALSE
      /\ handle' = SL!Shown(SL!Place(SL!Follows), FALSE) /\ stored' = controlValue
      /\ UNCHANGED <<controlValue, text, heard, quiet, dragging, mouseMoved, userModified,
                     beforeStart, typed, fingerOnSlider, lost, was, disabled, moves>>
  BY DEF SL!Reset, SL!drag
<1>2. SL!Follows \in Int /\ (controlValue # Empty => SL!Follows = controlValue)
  BY NumbersAre DEF SL!Follows, SliderInv, Typed, Written
<1> DEFINE f == SL!Follows
<1>3. f \in Int /\ handle' = SL!Shown(SL!Place(f), FALSE)
  BY <1>1, <1>2
<1>4. handle' \in 0..SL!Track /\ Shows(f, handle')
  <2> HIDE DEF f
  <2> QED
    BY <1>3, WithinShows
<1>5. IsToggle => handle' = SL!Place(controlValue)
  <2> SUFFICES ASSUME IsToggle PROVE handle' = SL!Place(controlValue)
    OBVIOUS
  <2>1. controlValue \in {0, 1} /\ controlValue \in Int
    BY DEF SliderInv, Switched
  <2>2. f = controlValue
    BY <1>2, <2>1 DEF SL!SliderAssumption
  <2>3. SL!Shown(SL!Place(controlValue), FALSE) = SL!Place(controlValue)
    <3>1. /\ \A snaps : SL!Shown(SL!Place(controlValue), snaps) =
                          SL!Place(SL!Within(0, 1, controlValue))
          /\ SL!Within(0, 1, controlValue) = controlValue
      BY <2>1, SwitchPlaces
    <3> QED
      BY <3>1
  <2> QED
    BY <1>3, <2>2, <2>3
<1>6. Typed'
  BY <1>1, <1>4 DEF SliderInv, Typed
<1>7. Drags' /\ Known' /\ (Programs # "any" => Aligned')
  BY <1>1 DEF SliderInv, Drags, Known, Aligned, SL!Knows
<1>8. Shown'
  BY <1>1, <1>2, <1>4 DEF Shown
<1>9. IsToggle => Switched'
  BY <1>1, <1>5 DEF SliderInv, Switched
<1> QED
  BY <1>6, <1>7, <1>8, <1>9 DEF SliderInv

LEMMA SliderSteps ==
  ASSUME SL!SliderAssumption, SliderInv, [SL!Next]_(SL!vars) PROVE SliderInv'
<1>1. CASE UNCHANGED SL!vars
  <2>1. UNCHANGED <<controlValue, handle, stored, text, heard, quiet, dragging, mouseMoved,
                    userModified, beforeStart, typed, resetting, fingerOnSlider, lost, was,
                    disabled, moves>>
    BY <1>1 DEF SL!vars, SL!control, SL!drag, SL!user
  <2>2. Typed' /\ Drags' /\ Known' /\ (IsToggle => Switched')
    BY <2>1 DEF SliderInv, Typed, Drags, Known, Switched, SL!Knows
  <2>3. (Programs # "any" => Aligned') /\ (Programs # "any" /\ ~Clicks /\ ~IsToggle => Shown')
    BY <2>1 DEF SliderInv, Aligned, Shown
  <2> QED
    BY <2>2, <2>3 DEF SliderInv
<1>2. CASE SL!Next
  BY <1>2, DownKeeps, DragKeepsInv, UpKeeps, ElsewhereKeeps, LostKeeps, KeysKeep, TypingKeeps, BlurKeeps,
     ClickKeeps, WritingKeeps, DisablingKeeps, FormResetKeeps, ResetKeeps DEF SL!Next
<1> QED
  BY <1>1, <1>2

LEMMA SwitchGap ==
  ASSUME SL!SliderAssumption, IsToggle, NEW v \in {0, 1}, NEW h, h = SL!Place(v)
  PROVE  SL!Absolute(h - SL!Within(0, SL!Track, SL!Place(v))) = 0
<1>1. v \in Int /\ SL!Within(0, 1, v) = v
  BY DEF SL!Within
<1>2. SL!Shown(SL!Place(v), FALSE) = SL!Place(v)
  <2>1. \A snaps : SL!Shown(SL!Place(v), snaps) = SL!Place(SL!Within(0, 1, v))
    BY <1>1, SwitchPlaces
  <2> QED
    BY <1>1, <2>1
<1>3. SL!Within(0, SL!Track, SL!Place(v)) = h
  BY <1>2 DEF SL!Shown
<1>4. h \in Int
  BY <1>1, PlaceIsInt
<1>5. h - h = 0 /\ SL!Absolute(0) = 0
  BY <1>4 DEF SL!Absolute
<1> QED
  BY <1>3, <1>5

LEMMA SliderFitsThen == ASSUME SL!SliderAssumption, SliderInv PROVE SL!SliderFits
<1>1. SL!TypeOK /\ SL!ListenersKnow /\ SL!OnlyUnderFinger
  BY TypesAre DEF SliderInv, Drags, Known, SL!ListenersKnow, SL!OnlyUnderFinger
<1>2. Programs # "any" => SL!ValueIsLegal
  BY DEF SliderInv, Aligned, Legal, SL!ValueIsLegal
<1>3. Programs # "any" /\ ~Clicks => SL!HandleShowsValue
  <2> SUFFICES ASSUME Programs # "any", ~Clicks, ~dragging, ~resetting, controlValue # Empty
               PROVE  IF IsToggle
                      THEN SL!Absolute(handle - SL!Within(0, SL!Track, SL!Place(controlValue))) = 0
                      ELSE Shows(controlValue, handle)
    BY DEF SL!HandleShowsValue, SL!AtRest, Shows, Near
  <2>1. CASE IsToggle
    BY <2>1, SwitchGap DEF SliderInv, Switched
  <2>2. CASE ~IsToggle
    BY <2>2 DEF SliderInv, Shown
  <2> QED
    BY <2>1, <2>2
<1> QED
  BY <1>1, <1>2, <1>3 DEF SL!SliderFits

LEMMA SliderHolds == ASSUME SL!SliderAssumption PROVE SL!Spec => []SliderInv
<1>1. SL!Init => SliderInv
  BY SliderStarts
<1>2. SliderInv /\ [SL!Next]_(SL!vars) => SliderInv'
  BY SliderSteps
<1> QED
  BY <1>1, <1>2, PTL DEF SL!Spec

(* When users have finished, the control holds a value that is in its      *)
(* range and on a step, the handle shows it, and who listens to "change"   *)
(* was told it or what it was aligned from, whatever was typed, dragged,   *)
(* clicked and written, until a program refreshes a switch or a form is    *)
(* reset, of which nobody is told; and only the finger that was put on the *)
(* handle drags it, as long as its touch has an end.                       *)
THEOREM SlidersAreTrue ==
  ASSUME SL!SliderAssumption
  PROVE  SL!Spec => []SL!SliderFits
<1>1. SliderInv => SL!SliderFits
  BY SliderFitsThen
<1> QED
  BY <1>1, SliderHolds, PTL

SwitchObeys == SL!ClickFlips /\ SL!DragKeeps /\ SL!HandleFollows

LEMMA UpObeys ==
  ASSUME SL!SliderAssumption, SliderInv, IsToggle, Programs # "any", SL!SliderVMouseUp
  PROVE  SwitchObeys
<1>1. /\ dragging => /\ dragging' = FALSE /\ mouseMoved' = FALSE
                     /\ SL!Refresh(SL!Place(SL!Released), FALSE, mouseMoved)
      /\ ~dragging => UNCHANGED <<dragging, mouseMoved>>
  BY DEF SL!SliderVMouseUp, SL!Ends, SL!Settles
<1>2. ~mouseMoved'
  BY <1>1 DEF SliderInv, Drags
<1>3. dragging => controlValue' = SL!Released
  BY <1>1, SwitchIsReleased
<1>4. dragging /\ ~lost /\ ~mouseMoved => controlValue' # was
  BY <1>3 DEF SliderInv, Switched, SL!Released
<1>5. dragging /\ ~lost /\ mouseMoved => controlValue' = controlValue
  <2> SUFFICES ASSUME dragging, ~lost, mouseMoved PROVE SL!Released = controlValue
    BY <1>3
  <2>1. /\ controlValue \in {0, 1} /\ beforeStart \in {0, 1}
        /\ userModified <=> beforeStart # controlValue
    BY DEF SliderInv, Switched
  <2> QED
    BY <2>1 DEF SL!Released
<1> QED
  BY <1>2, <1>4, <1>5 DEF SwitchObeys, SL!ClickFlips, SL!DragKeeps, SL!HandleFollows, SL!Lifted

LEMMA DragObeys ==
  ASSUME SL!SliderAssumption, SliderInv, IsToggle, SL!PreventDocumentDrag
  PROVE  SwitchObeys
<1>1. PICK x \in Points :
        /\ IF dragging /\ ~disabled THEN SL!RefreshFromFinger(x, TRUE)
           ELSE UNCHANGED handle
        /\ UNCHANGED dragging
  BY DEF SL!PreventDocumentDrag, SL!control
<1>2. handle' = handle \/ handle' = SL!Within(0, SL!Track, SL!AtFinger(x))
  BY <1>1, FingerRefreshes
<1> QED
  BY <1>1, <1>2 DEF SwitchObeys, SL!ClickFlips, SL!DragKeeps, SL!HandleFollows, SL!Lifted

(* What is neither drag nor release leaves the handle that is dragged.     *)
LEMMA OthersObey ==
  ASSUME SL!SliderAssumption, SliderInv, IsToggle, Programs # "any",
         \/ SL!SliderVMouseDown \/ SL!TouchElsewhere \/ SL!TouchLost
         \/ SL!HandleKeydown \/ SL!ControlKeyup
         \/ SL!ControlBlur \/ SL!ControlVMouseUp \/ SL!Write \/ SL!Disable \/ SL!FormReset
         \/ SL!Reset \/ UNCHANGED SL!vars
  PROVE  SwitchObeys
<1>1. UNCHANGED dragging \/ dragging' = TRUE
  BY DEF SL!SliderVMouseDown, SL!TouchElsewhere, SL!TouchLost, SL!HandleKeydown,
     SL!ControlKeyup, SL!ControlBlur, SL!ControlVMouseUp, SL!Write, SL!Disable, SL!FormReset,
     SL!Reset, SL!vars, SL!drag
<1>2. SL!ClickFlips /\ SL!DragKeeps
  BY <1>1 DEF SL!ClickFlips, SL!DragKeeps, SL!Lifted
<1>3. fingerOnSlider = "none" /\ mouseMoved => lost
  BY DEF SliderInv, Drags
<1>4. SL!HandleFollows
  <2>1. CASE \/ SL!TouchElsewhere \/ SL!HandleKeydown \/ SL!ControlKeyup
             \/ SL!ControlBlur \/ SL!ControlVMouseUp
    <3>1. fingerOnSlider = "none" /\ UNCHANGED <<mouseMoved, lost>>
      BY <2>1 DEF SL!TouchElsewhere, SL!HandleKeydown, SL!ControlKeyup,
         SL!ControlBlur, SL!ControlVMouseUp, SL!drag, SL!user
    <3> QED
      BY <1>3, <3>1 DEF SL!HandleFollows
  <2>2. CASE SL!SliderVMouseDown
    <3>1. mouseMoved' = FALSE \/ UNCHANGED handle
      BY <2>2 DEF SL!SliderVMouseDown, SL!control
    <3> QED
      BY <3>1 DEF SL!HandleFollows
  <2>3. CASE SL!Write
    <3>1. ~dragging /\ UNCHANGED mouseMoved
      BY <2>3 DEF SL!Write, SL!MayWrite, SL!drag
    <3>2. ~mouseMoved
      BY <3>1 DEF SliderInv, Drags
    <3> QED
      BY <3>1, <3>2 DEF SL!HandleFollows
  <2>4. CASE SL!TouchLost \/ SL!Disable \/ SL!FormReset \/ UNCHANGED SL!vars
    <3>1. UNCHANGED handle
      BY <2>4 DEF SL!TouchLost, SL!Disable, SL!FormReset, SL!vars, SL!control
    <3> QED
      BY <3>1 DEF SL!HandleFollows
  <2>5. CASE SL!Reset
    <3>1. resetting # resetting'
      BY <2>5 DEF SL!Reset
    <3> QED
      BY <3>1 DEF SL!HandleFollows
  <2> QED
    BY <2>1, <2>2, <2>3, <2>4, <2>5
<1> QED
  BY <1>2, <1>4 DEF SwitchObeys

(* A switch that was clicked has changed when the finger is lifted, one    *)
(* that was dragged keeps what it showed, and its handle is dragged under  *)
(* the finger, unless the touch ended without an event.                    *)
THEOREM SwitchesObey ==
  ASSUME SL!SliderAssumption, IsToggle, Programs # "any"
  PROVE  SL!Spec => [][SL!ClickFlips /\ SL!DragKeeps /\ SL!HandleFollows]_(SL!vars)
<1>1. SliderInv /\ [SL!Next]_(SL!vars) => SwitchObeys
  BY UpObeys, DragObeys, OthersObey DEF SL!Next
<1>2. SwitchObeys <=> SL!ClickFlips /\ SL!DragKeeps /\ SL!HandleFollows
  BY DEF SwitchObeys
<1> QED
  BY <1>1, <1>2, SliderHolds, PTL DEF SL!Spec

=============================================================================
