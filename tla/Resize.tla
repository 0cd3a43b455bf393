-------------------------------- MODULE Resize --------------------------------
(***************************************************************************)
(* Resizes and turns of the screen (throttledresize and orientationchange  *)
(* of jquery.mobile-1.3.2.js).  A resize is passed on at once or held for  *)
(* a timer, so that two are throttle apart; where the browser has no       *)
(* orientationchange the turns are read off the sizes.  Time is counted in *)
(* ticks, from the last call and until the timer; timers may be late, and  *)
(* the clock of Date may be set.  The device is external.                  *)
(***************************************************************************)
EXTENDS Integers

CONSTANTS
  Throttle,       (* 250 milliseconds, in ticks                            *)
  Native,         (* whether the browser has orientationchange             *)
  MaxMoves,       (* turns, resizes and bindings                           *)
  MaxBack         (* ticks by which the clock may be set back, once        *)

ResizeAssumption ==
  /\ Throttle \in Nat \ {0} /\ Native \in BOOLEAN
  /\ MaxMoves \in Nat /\ MaxBack \in Nat

VARIABLES
  usual,              (* the orientation in which the device counts 0      *)
  angle,              (* window.orientation                                *)
  shape,              (* of the window: "tall", "wide", or "squarish",     *)
                      (* a little wider than high                          *)
  portrait_map,       (* the angles of portrait                            *)
  resizes,            (* a resize event is on its way                      *)
  bound,              (* orientationchange has handlers                    *)
  turned,             (* a native event is on its way                      *)
  last_orientation,
  told,               (* what the handlers know                            *)
  sinceCall,          (* curr - lastCall, at most Throttle                 *)
  heldCall,           (* ticks until its timer runs out; -1 if none runs   *)
  waiting,            (* a resize was not passed on yet                    *)
  rest, beat,         (* ticks since the last throttledresize; its parity  *)
  moves, back

device == <<usual, angle, shape, resizes>>
orientation == <<portrait_map, bound, turned, last_orientation, told>>
calls == <<sinceCall, heldCall, waiting, rest, beat>>
bounds == <<moves, back>>
vars == <<device, orientation, calls, bounds>>

Orientations == {"portrait", "landscape"}
Angles == {-90, 0, 90, 180}
Upright == {0, 180}

(* How the device is held.                                                 *)
ActualAt(a) ==
  IF a \in Upright THEN usual ELSE CHOOSE o \in Orientations : o # usual

Actual == ActualAt(angle)

Shapes(o) ==
  IF o = "landscape" THEN {"wide"} ELSE IF Native THEN {"tall", "squarish"} ELSE {"tall"}

(* At the load: is what the window looks like and what the angle says the  *)
(* same?  Squarish windows stay below landscape_threshold.                 *)
InitialMap(ww, at) ==
  IF (ww = "wide") = (at \in Upright) THEN Angles \ Upright ELSE Upright

get_orientation ==
  IF Native THEN IF angle \in portrait_map THEN "portrait" ELSE "landscape"
  ELSE IF shape = "wide" THEN "landscape" ELSE "portrait"

Init ==
  /\ usual \in Orientations /\ angle \in Angles /\ shape \in Shapes(Actual) /\ resizes = FALSE
  /\ portrait_map = InitialMap(shape, angle)
  /\ bound = FALSE /\ turned = FALSE
  /\ last_orientation = get_orientation /\ told = last_orientation
  /\ sinceCall = Throttle /\ heldCall = -1 /\ waiting = FALSE
  /\ rest = Throttle /\ beat = 0
  /\ moves = 0 /\ back = 0

-----------------------------------------------------------------------------
Moved == moves < MaxMoves /\ moves' = moves + 1 /\ UNCHANGED back

(* handler of orientationchange, when throttledresize is triggered.        *)
Hears == bound /\ ~Native /\ get_orientation # last_orientation

Heard(o) ==
  IF Hears THEN last_orientation' = o /\ told' = o ELSE UNCHANGED <<last_orientation, told>>

(* The handler of resize, also called by the timer of heldCall.            *)
Free == sinceCall >= Throttle

Held == Throttle - sinceCall

Handler(left) ==
  \/ /\ Free
     /\ sinceCall' = 0 /\ waiting' = FALSE /\ rest' = 0 /\ beat' = 1 - beat
     /\ heldCall' = left
     /\ Heard(get_orientation)
  \/ /\ ~Free
     /\ heldCall' = Held /\ waiting' = TRUE
     /\ UNCHANGED <<sinceCall, rest, beat, last_orientation, told>>

(* External: the device is turned, or its window resized as it is.         *)
Turn ==
  /\ Moved
  /\ angle' \in Angles /\ shape' \in Shapes(ActualAt(angle'))
  /\ resizes' = TRUE /\ turned' = (turned \/ angle' # angle)
  /\ UNCHANGED <<usual, portrait_map, bound, last_orientation, told, calls>>

(* The events of the browser.  The resize is listened to all the time, by  *)
(* resetActivePageHeight if by nobody else.                                *)
ResizeEvent ==
  /\ resizes /\ resizes' = FALSE
  /\ Handler(heldCall)
  /\ UNCHANGED <<usual, angle, shape, portrait_map, bound, turned, bounds>>

OrientationEvent ==
  /\ turned /\ turned' = FALSE
  /\ told' = IF bound /\ Native THEN get_orientation ELSE told
  /\ UNCHANGED <<device, portrait_map, bound, last_orientation, calls, bounds>>

HeldCallRunsFaultyOnce ==
  /\ heldCall = 0 /\ heldCall' = -1
  /\ UNCHANGED <<device, orientation, bounds, sinceCall, waiting, rest, beat>>
HeldCallRuns ==
  /\ heldCall = 0
  /\ Handler(-1)
  /\ UNCHANGED <<device, portrait_map, bound, turned, bounds>>

(* setup and teardown of orientationchange, for the first handler and the  *)
(* last; a timer of heldCall goes on.                                      *)
Setup == IF Native THEN last_orientation ELSE get_orientation

Bind ==
  /\ Moved /\ bound' = ~bound
  /\ last_orientation' = IF bound THEN last_orientation ELSE Setup
  /\ told' = IF bound THEN told ELSE get_orientation
  /\ UNCHANGED <<device, portrait_map, turned, calls>>

(* Time goes on; what is over is counted no further.                       *)
Tick ==
  /\ sinceCall' = IF sinceCall < Throttle THEN sinceCall + 1 ELSE sinceCall
  /\ heldCall' = IF heldCall > 0 THEN heldCall - 1 ELSE heldCall
  /\ rest' = IF rest < Throttle THEN rest + 1 ELSE rest
  /\ UNCHANGED <<device, orientation, waiting, beat, bounds>>

(* External: the clock is set back.                                        *)
ClockSetBack ==
  /\ back = 0 /\ back' \in 1..MaxBack
  /\ sinceCall' = sinceCall - back'
  /\ UNCHANGED <<device, orientation, heldCall, waiting, rest, beat, moves>>

Next ==
  \/ Turn \/ ResizeEvent \/ OrientationEvent \/ HeldCallRuns \/ Bind \/ Tick \/ ClockSetBack

Spec == Init /\ [][Next]_vars

(* Time goes on, events come and timers run out.                           *)
FairSpec ==
  /\ Spec
  /\ WF_vars(Tick) /\ WF_vars(ResizeEvent) /\ WF_vars(OrientationEvent)
  /\ WF_vars(HeldCallRuns)

-----------------------------------------------------------------------------
TypeOK ==
  /\ usual \in Orientations /\ angle \in Angles /\ shape \in {"tall", "squarish", "wide"}
  /\ resizes \in BOOLEAN /\ turned \in BOOLEAN /\ bound \in BOOLEAN
  /\ portrait_map \in {Upright, Angles \ Upright}
  /\ last_orientation \in Orientations /\ told \in Orientations
  /\ sinceCall \in (-MaxBack)..Throttle /\ heldCall \in (-1)..(Throttle + MaxBack)
  /\ waiting \in BOOLEAN /\ rest \in 0..Throttle /\ beat \in {0, 1}
  /\ moves \in 0..MaxMoves /\ back \in 0..MaxBack

(* What the angle is read as is how the device is held, whatever way it    *)
(* counts its angles and however it was held when the page was loaded, and *)
(* also with a developer console in the window.                            *)
OrientationIsTrue == get_orientation = Actual

(* "Promise a held call will still execute" (3427): while a resize waits a *)
(* timer runs for it.                                                      *)
PromiseIsKept == waiting => heldCall >= 0

(* Two throttledresize are throttle apart, also when a resize comes just   *)
(* before the late timer of a held call.                                   *)
NotTooOften == beat' # beat => rest = Throttle

(* The timer that is waited for runs, and the angle is read as the device  *)
(* is held.                                                                *)
TimersAreKept == TypeOK /\ PromiseIsKept /\ OrientationIsTrue

(* When the device is left alone the handlers of orientationchange know    *)
(* how it is held, though turns fell into the pauses of the throttle, and  *)
(* handlers came and went.                                                 *)
HeardInTheEnd == <>[](bound => told = Actual)

=============================================================================
