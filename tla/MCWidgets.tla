------------------------------- MODULE MCWidgets -------------------------------
(***************************************************************************)
(* Instances for TLC of what jQuery Mobile makes of fingers, of the window *)
(* and of forms: the place of a popup (the constants of Placement are in   *)
(* the configuration), the virtual mouse, resizes and orientation, the     *)
(* popup in a window that is resized, panels and sliders.  Each scene is   *)
(* one of these modules with one set of constants; a behaviour plays one   *)
(* scene, and the parts the scene is not about stay in their first states. *)
(***************************************************************************)
EXTENDS Placement

CONSTANTS
  Empty,
  Limit,          (* what bounds each scene: touches, or moves               *)
  Bindings        (* and the bindings under the touches                       *)

VARIABLES
  scene,
  bound, activeDocHandlers, touchID, lastTouchID, nextTouchID, didScroll,
  blockMouseTriggers, blockTouchTriggers, clickBlockList, resetTimer, tapHandlers,
  finger, coming, vclicks, taps, prevented, clicked, bindings,     (* Touch *)
  usual, angle, shape, portrait_map, resizes, boundOrientation, turned,
  last_orientation, told, sinceCall, heldCall, waiting, rest, beat, back,
                                                                  (* Resize *)
  phase, hidden, placedIn, window, popupResizes, turns, resizeData, timers, ignores,
  orientationchangeInProgress,                               (* PopupResize *)
  open, shown, completes, moving, timeouts, there, waitingPanels, pagePanelOpen,
  listens, page,                                                   (* Panel *)
  value, handle, stored, dragging, mouseMoved, userModified, beforeStart, disabled,
  text, heard, quiet, typed, resetting, fingerOnSlider, lost, was,  (* Slider *)
  moves                                          (* of all of them but Touch *)

touch == <<bound, activeDocHandlers, touchID, lastTouchID, nextTouchID, didScroll,
           blockMouseTriggers, blockTouchTriggers, clickBlockList, resetTimer,
           tapHandlers, finger, coming, vclicks, taps, prevented, clicked, bindings>>
resize == <<usual, angle, shape, portrait_map, resizes, boundOrientation, turned,
            last_orientation, told, sinceCall, heldCall, waiting, rest, beat, back>>
popup == <<phase, hidden, placedIn, window, popupResizes, turns, resizeData, timers,
           ignores, orientationchangeInProgress>>
panel == <<open, shown, completes, moving, timeouts, there, waitingPanels,
           pagePanelOpen, listens, page>>
slider == <<value, handle, stored, dragging, mouseMoved, userModified, beforeStart,
            disabled, text, heard, quiet, typed, resetting, fingerOnSlider, lost, was>>
all == <<scene, vars, touch, resize, popup, panel, slider, moves>>

(* Fingers that stay, overlap, and mouse events that hit another element;  *)
(* taps with bindings that come and go.                                    *)
Fingers == INSTANCE Touch WITH
  Elements <- {"link", "field"}, MaxTaps <- Limit["fingers"],
  MaxBindings <- Bindings["fingers"],
  Overlaps <- TRUE, Shifts <- TRUE, Holds <- TRUE
Taps == INSTANCE Touch WITH
  Elements <- {"link", "field"}, MaxTaps <- Limit["taps"],
  MaxBindings <- Bindings["taps"],
  Overlaps <- FALSE, Shifts <- FALSE, Holds <- FALSE

(* Orientation by the shape of the window, with a clock that is set back,  *)
(* and by the angle the device tells.                                      *)
Simulated == INSTANCE Resize WITH
  Throttle <- 3, Native <- FALSE, MaxMoves <- Limit["simulated"], MaxBack <- 0,
  bound <- boundOrientation
SetBack == INSTANCE Resize WITH
  Throttle <- 2, Native <- FALSE, MaxMoves <- Limit["set back"], MaxBack <- 2,
  bound <- boundOrientation
Angles == INSTANCE Resize WITH
  Throttle <- 1, Native <- TRUE, MaxMoves <- Limit["angles"], MaxBack <- 0,
  bound <- boundOrientation

Resized == INSTANCE PopupResize WITH
  Windows <- {"upright", "sideways", "zoomed"}, MaxMoves <- Limit["popup"],
  placed <- placedIn, resizes <- popupResizes

(* Panels of a page that is left between their transitions, of one that is *)
(* not animated, and with users who wait until all has come to rest.       *)
Animate == INSTANCE Panel WITH
  Panels <- {"left", "right", "menu"}, Animated <- TRUE, Patience <- "comes",
  Hides <- "calm", MaxMoves <- Limit["animate"], waiting <- waitingPanels
Plain == INSTANCE Panel WITH
  Panels <- {"left", "right", "menu"}, Animated <- FALSE, Patience <- "comes",
  Hides <- "calm", MaxMoves <- Limit["plain"], waiting <- waitingPanels
Rests == INSTANCE Panel WITH
  Panels <- {"left", "right", "menu"}, Animated <- TRUE, Patience <- "rests",
  Hides <- "any", MaxMoves <- Limit["rests"], waiting <- waitingPanels

(* A control of few values, where the finger is put beside the tolerance,  *)
(* within it, on the track and behind its end; one of many; a switch.      *)
Field == INSTANCE Slider WITH
  IsToggle <- FALSE, Low <- 2, High <- 11, Step <- 4, Width <- 20,
  Points <- {-9, -5, 6, 13, 25}, Values <- {0, 5, 11, 15}, Initial <- 2,
  Clicks <- FALSE, Programs <- "calm", MaxMoves <- Limit["field"], finger <- fingerOnSlider
Fine == INSTANCE Slider WITH
  IsToggle <- FALSE, Low <- 0, High <- 90, Step <- 1, Width <- 30,
  Points <- {0, 7, 11, 29, 36}, Values <- {0, 45, 90}, Initial <- 10,
  Clicks <- FALSE, Programs <- "calm", MaxMoves <- Limit["fine"], finger <- fingerOnSlider
Switch == INSTANCE Slider WITH
  IsToggle <- TRUE, Low <- 0, High <- 1, Step <- 1, Width <- 20,
  Points <- {-9, 1, 9, 12, 18}, Values <- {0, 1}, Initial <- 0,
  Clicks <- FALSE, Programs <- "calm", MaxMoves <- Limit["switch"], finger <- fingerOnSlider

Resizes == {"simulated", "set back", "angles"}
Sliders == {"field", "fine", "switch"}
Scenes == {"placement", "fingers", "taps", "popup", "animate", "plain", "rests"}
            \cup Resizes \cup Sliders

Limits ==
  [s \in Scenes |->
     CASE s \in {"fingers", "taps", "set back", "angles"} -> 3
       [] s = "simulated" -> 4
       [] s \in {"popup", "fine"} -> 5
       [] s \in {"animate", "plain", "field"} -> 6
       [] s = "switch" -> 7
       [] OTHER -> 8]
BindingLimits == [s \in Scenes |-> IF s = "fingers" THEN 1 ELSE 3]

ASSUME LimitAssumption == Limit \in [Scenes -> Nat] /\ Bindings \in [Scenes -> Nat]
ASSUME ScenesAssumption ==
  /\ Fingers!TouchAssumption /\ Taps!TouchAssumption
  /\ Simulated!ResizeAssumption /\ SetBack!ResizeAssumption /\ Angles!ResizeAssumption
  /\ Resized!PopupResizeAssumption
  /\ Animate!PanelAssumption /\ Plain!PanelAssumption /\ Rests!PanelAssumption
  /\ Field!SliderAssumption /\ Fine!SliderAssumption /\ Switch!SliderAssumption

(* Where the first states of two instances differ, each has its own; a     *)
(* part that the scene is not about has one first state.                   *)
AllInit ==
  /\ scene \in Scenes
  /\ IF scene = "placement" THEN Init
     ELSE /\ tolerance = Default
          /\ winCoords = [x |-> 0, y |-> 0, cx |-> 200, cy |-> 200]
          /\ menuSize = [cx |-> 200, cy |-> 200] /\ docHeight = 200
          /\ ret = [left |-> 0, top |-> 0] /\ placed = FALSE
  /\ IF scene = "fingers" THEN Fingers!Init ELSE Taps!Init
  /\ CASE scene = "set back" -> SetBack!Init
       [] scene = "angles" -> Angles!Init
       [] OTHER -> Simulated!Init
  /\ scene \notin Resizes => usual = "portrait" /\ angle = 0
  /\ Resized!Init /\ (scene # "popup" => window = "upright")
  /\ Animate!Init
  /\ CASE scene = "fine" -> Fine!Init
       [] scene = "switch" -> Switch!Init
       [] OTHER -> Field!Init
  /\ scene \notin Sliders => ~disabled

InPlacement == scene = "placement" /\ UNCHANGED <<scene, touch, resize, popup, panel, slider, moves>>
InTouch(s) == scene = s /\ UNCHANGED <<scene, vars, resize, popup, panel, slider, moves>>
InResize(s) == scene = s /\ UNCHANGED <<scene, vars, touch, popup, panel, slider>>
InPopup == scene = "popup" /\ UNCHANGED <<scene, vars, touch, resize, panel, slider>>
InPanel(s) == scene = s /\ UNCHANGED <<scene, vars, touch, resize, popup, slider>>
InSlider(s) == scene = s /\ UNCHANGED <<scene, vars, touch, resize, popup, panel>>

(* One placement: the next one does what a first one does.                 *)
AllNext ==
  \/ InPlacement /\ ~placed /\ Next
  \/ InTouch("fingers") /\ Fingers!Next
  \/ InTouch("taps") /\ Taps!Next
  \/ InResize("simulated") /\ Simulated!Next
  \/ InResize("set back") /\ SetBack!Next
  \/ InResize("angles") /\ Angles!Next
  \/ InPopup /\ Resized!Next
  \/ InPanel("animate") /\ Animate!Next
  \/ InPanel("plain") /\ Plain!Next
  \/ InPanel("rests") /\ Rests!Next
  \/ InSlider("field") /\ Field!Next
  \/ InSlider("fine") /\ Fine!Next
  \/ InSlider("switch") /\ Switch!Next

AllSpec == AllInit /\ [][AllNext]_all

(* The fairness of Touch, Resize, PopupResize and Panel.  A behaviour      *)
(* stays in its scene, so that one conjunct serves actions of several.     *)
AllFairSpec ==
  /\ AllSpec
  /\ WF_all(\/ InTouch("taps") /\ Taps!TouchEnd
            \/ InResize("simulated") /\ Simulated!Tick
            \/ InPopup /\ Resized!Events
            \/ InPanel("animate") /\ Animate!Timeout
            \/ InPanel("plain") /\ Plain!Timeout)
  /\ WF_all(\/ InTouch("taps") /\ Taps!Mouse
            \/ InResize("simulated") /\ Simulated!ResizeEvent
            \/ InPopup /\ Resized!ResizeTimeout
            \/ InPanel("animate") /\ Animate!TransitionEnds("left")
            \/ InPanel("plain") /\ Plain!TransitionEnds("left"))
  /\ WF_all(\/ InTouch("taps") /\ Taps!ResetTimer
            \/ InResize("simulated") /\ Simulated!OrientationEvent
            \/ InPopup /\ Resized!IgnoreTimeout
            \/ InPanel("animate") /\ Animate!TransitionEnds("right")
            \/ InPanel("plain") /\ Plain!TransitionEnds("right"))
  /\ WF_all(\/ InResize("simulated") /\ Simulated!HeldCallRuns
            \/ InPanel("animate") /\ Animate!TransitionEnds("menu")
            \/ InPanel("plain") /\ Plain!TransitionEnds("menu"))

-----------------------------------------------------------------------------
(* A tap whose vclick was prevented never reaches the page as a click;     *)
(* where touches do not overlap, one tap makes one vclick and one tap.     *)
TapsAreOnce ==
  /\ scene = "fingers" => Fingers!TapsAreOnce
  /\ scene = "taps" => Taps!TapsAreOnce

(* What waits for a timer has one: a resize that was held back, a popup    *)
(* that is hidden.  And the angle is read as the device is held.           *)
TimersAreKept ==
  /\ scene = "set back" => SetBack!TimersAreKept
  /\ scene = "angles" => Angles!TimersAreKept
  /\ scene = "popup" => Resized!TimersAreKept

(* What waits for a timer comes: the mouse after a touch, the orientation  *)
(* when the device is left alone, the popup that was hidden.               *)
WhatWaitsComes ==
  /\ scene = "taps" => Taps!MouseComesBack
  /\ scene = "simulated" => Simulated!HeardInTheEnd
  /\ scene = "popup" => Resized!HiddenComesBack

(* One panel is to be seen at most, and counts as open; when all has come  *)
(* to rest the page knows whether a panel is there, and its class is taken *)
(* back with the panel.                                                    *)
PanelsFit ==
  /\ scene = "animate" => Animate!PanelsFit
  /\ scene = "plain" => Plain!PanelsFit
  /\ scene = "rests" => Rests!PanelsFit

(* A panel that was opened comes, or was closed again.                     *)
OpenComes ==
  /\ scene = "animate" => Animate!OpenComes
  /\ scene = "plain" => Plain!OpenComes

(* The handle shows the value of the control, the value is in its range    *)
(* and on a step, who listens to "change" knows it when the user has       *)
(* finished, and the handle follows only the finger that was put on it.    *)
SlidersFit ==
  /\ scene = "field" => Field!SliderFits
  /\ scene = "fine" => Fine!SliderFits
  /\ scene = "switch" => Switch!SliderFits

(* What no step may do: tell of two resizes that are less than throttle    *)
(* apart; leave a switch that was clicked as it was, or one that was       *)
(* dragged other than it showed; move its handle from under the finger.    *)
StepsObey ==
  [][/\ scene = "simulated" => Simulated!NotTooOften
     /\ scene = "switch" => Switch!ClickFlips /\ Switch!DragKeeps /\ Switch!HandleFollows]_all

=============================================================================
