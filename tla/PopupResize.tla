----------------------------- MODULE PopupResize -----------------------------
(***************************************************************************)
(* A popup while the window is resized or turned (jquery.mobile-1.3.2.js). *)
(* The popup is hidden at the first resize and comes back, placed anew,    *)
(* when the window has had the same size for 200 milliseconds; for a       *)
(* second after it came, or got the focus, resizes are not looked at.      *)
(* Popup has the opening and closing; timers run out in any order.         *)
(***************************************************************************)
EXTENDS Integers

CONSTANTS
  Windows, None,    (* what windowCoords answers                           *)
  MaxMoves          (* what the user does                                  *)

PopupResizeAssumption == None \notin Windows /\ MaxMoves \in Nat

VARIABLES
  phase,            (* of the popup; _isOpen only in the phase "open"      *)
  hidden,           (* ui-popup-hidden                                     *)
  placed,           (* the window the popup was placed in                  *)
  window,
  resizes, turns,   (* whether an event is on its way                      *)
  resizeData,       (* its winCoords                                       *)
  timers,           (* calls of _resizeTimeout to come                     *)
  ignores,          (* _ignoreResizeTo                                     *)
  orientationchangeInProgress,
  moves

screen == <<window, resizes, turns>>
settling == <<resizeData, timers, orientationchangeInProgress>>
look == <<phase, hidden, placed>>
vars == <<look, screen, settling, ignores, moves>>

Init ==
  /\ phase = "closed" /\ hidden = TRUE /\ placed = None
  /\ window \in Windows /\ resizes = FALSE /\ turns = FALSE
  /\ resizeData = None /\ timers = 0 /\ ignores = FALSE
  /\ orientationchangeInProgress = FALSE /\ moves = 0

IsOpen == phase = "open"

-----------------------------------------------------------------------------
(* _expectResizeEvent: the timer is set anew if the window has changed.    *)
News == resizeData # window

Cleared == IF resizeData = None THEN 0 ELSE 1

Expect(left) ==
  /\ resizeData' = window
  /\ timers' = IF News THEN left - Cleared + 1 ELSE left

(* _handleWindowResize.                                                    *)
Hides == News \/ orientationchangeInProgress

ResizeEvent ==
  /\ resizes /\ resizes' = FALSE
  /\ \/ /\ IsOpen /\ ~ignores
        /\ Expect(timers)
        /\ hidden' = (hidden \/ Hides)
     \/ (~IsOpen \/ ignores) /\ UNCHANGED <<resizeData, timers, hidden>>
  /\ UNCHANGED <<phase, placed, window, turns, orientationchangeInProgress, ignores, moves>>

(* _handleWindowOrientationchange.                                         *)
Starts == ~orientationchangeInProgress /\ IsOpen /\ ~ignores

OrientationEvent ==
  /\ turns /\ turns' = FALSE
  /\ \/ Starts /\ Expect(timers) /\ orientationchangeInProgress' = TRUE
     \/ ~Starts /\ UNCHANGED settling
  /\ UNCHANGED <<look, window, resizes, ignores, moves>>

(* _resizeTimeout: the timer that ran out is the one of resizeData.        *)
Settled == ~News

Shows == hidden

AfterwardsFaultyKept == resizeData
Afterwards == None

ResizeTimeout ==
  /\ timers > 0
  /\ \/ /\ IsOpen /\ ~Settled
        /\ resizeData' = window /\ UNCHANGED <<timers, orientationchangeInProgress>>
        /\ UNCHANGED <<look, ignores>>
     \/ /\ IsOpen /\ Settled
        /\ resizeData' = Afterwards /\ timers' = timers - 1 /\ orientationchangeInProgress' = FALSE
        /\ \/ /\ Shows
              /\ hidden' = FALSE /\ placed' = window /\ ignores' = TRUE
           \/ ~Shows /\ UNCHANGED <<hidden, placed, ignores>>
        /\ UNCHANGED phase
     \/ /\ ~IsOpen
        /\ resizeData' = Afterwards /\ timers' = timers - 1 /\ orientationchangeInProgress' = FALSE
        /\ UNCHANGED <<look, ignores>>
  /\ UNCHANGED <<screen, moves>>

IgnoreTimeout ==
  /\ ignores /\ ignores' = FALSE
  /\ UNCHANGED <<look, screen, settling, moves>>

-----------------------------------------------------------------------------
Moved == moves < MaxMoves /\ moves' = moves + 1

(* _open and _close, when they begin and when their animation has ended.   *)
Open ==
  /\ Moved /\ phase = "closed" /\ phase' = "opening"
  /\ hidden' = FALSE /\ placed' = window
  /\ UNCHANGED <<screen, settling, ignores>>

Close ==
  /\ Moved /\ phase \in {"opening", "open"} /\ phase' = "closing"
  /\ UNCHANGED <<hidden, placed, screen, settling, ignores>>

AnimationEnds ==
  /\ \/ phase = "opening" /\ phase' = "open" /\ ignores' = TRUE /\ UNCHANGED hidden
     \/ phase = "closing" /\ phase' = "closed" /\ hidden' = TRUE /\ UNCHANGED ignores
  /\ UNCHANGED <<placed, screen, settling, moves>>

(* _handleDocumentFocusIn, for an element in the popup.                    *)
FocusIn ==
  /\ Moved /\ IsOpen /\ ignores' = TRUE
  /\ UNCHANGED <<look, screen, settling>>

(* External: the window is resized, by a turn of the device or otherwise.  *)
Resize ==
  /\ Moved /\ window' \in Windows \ {window}
  /\ resizes' = TRUE /\ turns' \in {turns, TRUE}
  /\ UNCHANGED <<look, settling, ignores>>

Events == ResizeEvent \/ OrientationEvent
Next ==
  \/ Events \/ ResizeTimeout \/ IgnoreTimeout
  \/ Open \/ Close \/ AnimationEnds \/ FocusIn \/ Resize

Spec == Init /\ [][Next]_vars

(* Events come and timers run out.                                         *)
FairSpec == Spec /\ WF_vars(Events) /\ WF_vars(ResizeTimeout) /\ WF_vars(IgnoreTimeout)

-----------------------------------------------------------------------------
TypeOK ==
  /\ phase \in {"closed", "opening", "open", "closing"} /\ hidden \in BOOLEAN
  /\ placed \in Windows \cup {None} /\ window \in Windows
  /\ resizes \in BOOLEAN /\ turns \in BOOLEAN
  /\ resizeData \in Windows \cup {None} /\ timers \in 0..1
  /\ ignores \in BOOLEAN /\ orientationchangeInProgress \in BOOLEAN /\ moves \in 0..MaxMoves

(* A timer runs as long as there is something to wait for, and never two,  *)
(* whatever came in while the popup was closed and opened again.           *)
OneTimer == timers = IF resizeData = None THEN 0 ELSE 1

(* A popup that is open and hidden waits for a timer that shows it, and so *)
(* does the flag that one orientationchange is being waited for.           *)
HiddenHasTimer == (hidden /\ IsOpen) \/ orientationchangeInProgress => timers > 0

(* What waits for a timer has just one.                                    *)
TimersAreKept == TypeOK /\ OneTimer /\ HiddenHasTimer

(* A popup that was hidden comes back, where it belongs in the window.     *)
HiddenComesBack == (IsOpen /\ hidden) ~> (~IsOpen \/ (~hidden /\ placed = window))

=============================================================================
