--------------------------------- MODULE Slider ---------------------------------
(***************************************************************************)
(* The slider widget of jquery.mobile-1.3.2.js: a number field with a      *)
(* handle on a track, or a select shown as a switch with two positions.    *)
(* refresh brings handle and control together: from the finger, from the   *)
(* control, or from a number.  Each time it writes a control that is a     *)
(* field it tells "change", for it compares a text with a number.          *)
(* Places are integers: Scale parts for a unit of the value, all of the    *)
(* track is Scale * (High - Low), which is the code's percent as a whole   *)
(* number.  (toFixed(5) is left out: these numbers are exact.)             *)
(***************************************************************************)
EXTENDS Integers

CONSTANTS
  IsToggle,
  Low, High, Step,  (* min, max and step of the control; 0, 1, 1           *)
  Width,            (* pixels of the track                                 *)
  Points,           (* where the finger is put, from the left of the track *)
  Values,           (* what users type and programs write                  *)
  Empty,            (* the field holds no number                           *)
  Initial,
  Clicks,           (* whether the field has arrows to be clicked on       *)
  Programs,         (* when a program writes: "never", "calm", "any" (also *)
                    (* while the handle is dragged)                        *)
  MaxMoves

SliderAssumption ==
  /\ IsToggle \in BOOLEAN /\ Clicks \in BOOLEAN
  /\ Programs \in {"never", "calm", "any"}
  /\ Low \in Int /\ High \in Int /\ Low < High /\ Step \in Nat \ {0}
  /\ Width \in Nat \ {0} /\ Points \subseteq Int
  /\ Values \subseteq Int /\ Empty \notin Int
  /\ Initial \in Low..High /\ (Initial - Low) % Step = 0
  /\ IsToggle => Low = 0 /\ High = 1 /\ Step = 1 /\ Values \subseteq {0, 1}
  /\ MaxMoves \in Nat

VARIABLES
  value,            (* of the control                                      *)
  handle,           (* its place                                           *)
  stored,           (* this.value                                          *)
  dragging, mouseMoved, userModified, beforeStart,
  disabled,
  text,             (* what the browser compares the field with when it is *)
                    (* left: written last by anyone but the user           *)
  heard,            (* the value of the last "change"                      *)
  quiet,            (* it was written since by what tells nobody           *)
  typed,            (* the field has the focus and was written by the user *)
  resetting,        (* _reset is set on a timeout                          *)
  finger,           (* where it was put: "none", "slider", "elsewhere"     *)
  lost,             (* the finger that drags was lifted without vmouseup   *)
  was,              (* the value before the finger was put on the slider   *)
  moves

control == <<value, handle, stored, text, heard, quiet>>
drag == <<dragging, mouseMoved, userModified, beforeStart>>
user == <<typed, resetting, finger, lost, was>>
vars == <<control, drag, user, disabled, moves>>

Scale == 100 * Width
Track == Scale * (High - Low)
Place(v) == Scale * (v - Low)

Within(low, high, n) == IF n < low THEN low ELSE IF n > high THEN high ELSE n
Absolute(n) == IF n < 0 THEN -n ELSE n

(* JavaScript's remainder has the sign of the dividend.                    *)
Modulo(a, b) == IF a < 0 THEN -((-a) % b) ELSE a % b

-----------------------------------------------------------------------------
(* The nearest step, and the step of which a pixel is a part or not.       *)
AlignFaultyDown(place) == place - Modulo(place, Scale * Step)
Align(place) ==
  LET size == Scale * Step
      rest == Modulo(place, size)
  IN  place - rest +
        IF 2 * Absolute(rest) < size THEN 0 ELSE IF rest > 0 THEN size ELSE -size

Coarse == Width * Step > High - Low

AtFinger(x) ==
  IF Coarse THEN x * 100 * (High - Low)
  ELSE ((200 * x + Width) \div (2 * Width)) * Width * (High - Low)

NewVal(place) == Within(Low, High, Low + Align(place) \div Scale)

(* refresh, for a place, when from is the control's value: told "change"   *)
(* it is called again by _controlChange, unless the handle is dragged.     *)
Heeds(moved) == ~moved

Shown(place, snaps) ==
  Within(0, Track, IF snaps /\ Coarse /\ ~IsToggle THEN Align(place) ELSE place)

Tells(from, isfromControl, newval) == ~isfromControl /\ (IsToggle => from # newval)

Bring(from, place, snaps, isfromControl, moved) ==
  LET newval == NewVal(place)
      again == Tells(from, isfromControl, newval) /\ Heeds(moved)
  IN  /\ value' = IF again THEN NewVal(Place(newval)) ELSE newval
      /\ handle' = IF again THEN Shown(Place(newval), FALSE) ELSE Shown(place, snaps)
      /\ stored' = IF again THEN newval ELSE from
      /\ text' = value'

Told == heard' = value' /\ quiet' = FALSE

Refresh(place, snaps, moved) ==
  /\ Bring(value, place, snaps, FALSE, moved)
  /\ IF Tells(value, FALSE, NewVal(place)) THEN Told ELSE UNCHANGED <<heard, quiet>>

(* The finger is heeded up to 8 pixels beside the track.                   *)
Tolerance == 8

RefreshFromFinger(x, moved) ==
  IF -Tolerance <= x /\ x <= Width + Tolerance
  THEN Refresh(AtFinger(x), TRUE, moved)
  ELSE stored' = value /\ UNCHANGED <<value, handle, text, heard, quiet>>

-----------------------------------------------------------------------------
Init ==
  /\ value = Initial /\ handle = Place(Initial) /\ stored = Initial
  /\ dragging = FALSE /\ mouseMoved = FALSE /\ userModified = FALSE
  /\ beforeStart = Initial /\ disabled \in BOOLEAN
  /\ text = Initial /\ heard = Initial /\ quiet = FALSE
  /\ typed = FALSE /\ resetting = FALSE
  /\ finger = "none" /\ lost = FALSE /\ was = Initial
  /\ moves = 0

Moved == moves < MaxMoves /\ moves' = moves + 1

BeforeStartFaulty == value'
BeforeStart == value

SliderVMouseDown ==
  \E x \in Points :
    /\ Moved /\ finger = "none"
    /\ finger' = "slider" /\ was' = value
    /\ IF disabled
       THEN UNCHANGED <<control, drag, lost>>
       ELSE /\ dragging' = TRUE /\ userModified' = FALSE /\ mouseMoved' = FALSE
            /\ lost' = FALSE
            /\ RefreshFromFinger(x, FALSE)
            /\ beforeStart' = IF IsToggle THEN BeforeStart ELSE beforeStart
    /\ UNCHANGED <<typed, resetting, disabled>>

PreventDocumentDrag ==
  \E x \in Points :
    /\ Moved /\ finger # "none"
    /\ IF dragging /\ ~disabled
       THEN /\ mouseMoved' = TRUE
            /\ RefreshFromFinger(x, TRUE)
            /\ userModified' = (beforeStart # value')
       ELSE UNCHANGED <<control, mouseMoved, userModified>>
    /\ UNCHANGED <<dragging, beforeStart, user, disabled>>

(* A switch that was dragged goes on only if it was dragged far enough.    *)
Ends == dragging

Released == IF mouseMoved /\ ~userModified THEN beforeStart ELSE 1 - beforeStart

Settles == IsToggle

SliderVMouseUp ==
  /\ Moved /\ finger # "none" /\ finger' = "none" /\ lost' = FALSE
  /\ IF Ends
     THEN /\ dragging' = FALSE /\ mouseMoved' = FALSE
          /\ IF Settles THEN Refresh(Place(Released), FALSE, mouseMoved)
             ELSE UNCHANGED control
     ELSE UNCHANGED <<control, dragging, mouseMoved>>
  /\ UNCHANGED <<userModified, beforeStart, typed, resetting, was, disabled>>

(* External: the finger is put down beside the slider.                     *)
TouchElsewhere ==
  /\ Moved /\ finger = "none" /\ finger' = "elsewhere"
  /\ UNCHANGED <<control, drag, typed, resetting, lost, was, disabled>>

(* External: the touch is cancelled, or its end is suppressed: there is no *)
(* vmouseup, and the handle goes on with the next finger.                  *)
TouchLost ==
  /\ Moved /\ finger # "none" /\ finger' = "none" /\ lost' = dragging
  /\ UNCHANGED <<control, drag, typed, resetting, was, disabled>>

(* Keys on the handle, which takes the focus from the field.               *)
HandleKeydown ==
  /\ Moved /\ finger = "none" /\ ~typed
  /\ IF disabled THEN UNCHANGED control
     ELSE \/ Refresh(Place(Low), FALSE, mouseMoved)
          \/ Refresh(Place(High), FALSE, mouseMoved)
          \/ /\ value # Empty
             /\ \E step \in {Step, -Step} :
                  Refresh(Place(value + step), FALSE, mouseMoved)
  /\ UNCHANGED <<drag, user, disabled>>

-----------------------------------------------------------------------------
(* The user types; a field that is disabled takes nothing.                 *)
ControlKeyup ==
  /\ Moved /\ finger = "none" /\ ~disabled /\ ~IsToggle
  /\ typed' = TRUE
  /\ \E v \in Values \cup {Empty} :
       /\ value' = v /\ stored' = v
       /\ handle' = IF v = Empty THEN handle ELSE Shown(Place(v), FALSE)
  /\ UNCHANGED <<text, heard, quiet, drag, resetting, finger, lost, was, disabled>>

(* The field is left: the browser tells "change" if its text is another;   *)
(* the blur aligns once more, from the control, and tells nobody.          *)
Commit(v) == NewVal(Place(v))

ControlBlur ==
  /\ Moved /\ finger = "none" /\ typed /\ typed' = FALSE
  /\ LET changes == value # text
         left == IF changes /\ value # Empty /\ Heeds(mouseMoved) THEN Commit(value) ELSE value
     IN  /\ IF left = Empty THEN stored' = left /\ text' = left /\ UNCHANGED <<value, handle>>
            ELSE Bring(left, Place(left), FALSE, TRUE, mouseMoved)
         /\ IF changes THEN heard' = left /\ quiet' = FALSE ELSE UNCHANGED <<heard, quiet>>
  /\ UNCHANGED <<drag, resetting, finger, lost, was, disabled>>

(* A click into the field, on its arrows or beside them: _checkedRefresh.  *)
ControlVMouseUp ==
  /\ Moved /\ finger = "none" /\ ~disabled /\ ~IsToggle /\ Clicks /\ value # Empty
  /\ typed' = TRUE
  /\ \E step \in {Step, 0, -Step} :
       LET v == Within(Low, High, value + step) IN
       IF stored # v THEN Bring(v, Place(v), FALSE, FALSE, mouseMoved) /\ Told
       ELSE value' = v /\ UNCHANGED <<handle, stored, text, heard, quiet>>
  /\ UNCHANGED <<drag, resetting, finger, lost, was, disabled>>

(* A program writes the control and calls refresh, or triggers "change".   *)
MayWrite == Programs = "any" \/ (Programs = "calm" /\ ~dragging)

(* A switch that was written already is not changed by refresh, which      *)
(* tells nobody then.                                                      *)
Write ==
  /\ Moved /\ MayWrite
  /\ \E v \in Values :
       \/ /\ Bring(v, Place(v), FALSE, FALSE, mouseMoved)
          /\ IF Tells(v, FALSE, NewVal(Place(v))) THEN Told
             ELSE UNCHANGED heard /\ quiet' = TRUE
       \/ /\ IF Heeds(mouseMoved) THEN Bring(v, Place(v), FALSE, TRUE, mouseMoved)
             ELSE value' = v /\ text' = v /\ UNCHANGED <<handle, stored>>
          /\ Told
  /\ UNCHANGED <<drag, user, disabled>>

Disable ==
  /\ Moved /\ Programs # "never" /\ disabled' = ~disabled
  /\ UNCHANGED <<control, drag, user>>

(* The form is reset, which tells nobody; the slider follows on a timeout. *)
FormReset ==
  /\ Moved /\ MayWrite
  /\ value' = Initial /\ text' = Initial /\ quiet' = TRUE
  /\ resetting' = TRUE
  /\ UNCHANGED <<handle, stored, heard, drag, typed, finger, lost, was, disabled>>

Follows == IF value = Empty THEN 0 ELSE value

Reset ==
  /\ resetting /\ resetting' = FALSE
  /\ handle' = Shown(Place(Follows), FALSE) /\ stored' = value
  /\ UNCHANGED <<value, text, heard, quiet, drag, typed, finger, lost, was, disabled, moves>>

Next ==
  \/ SliderVMouseDown \/ PreventDocumentDrag \/ SliderVMouseUp \/ TouchElsewhere \/ TouchLost
  \/ HandleKeydown \/ ControlKeyup \/ ControlBlur \/ ControlVMouseUp
  \/ Write \/ Disable \/ FormReset \/ Reset

Spec == Init /\ [][Next]_vars

-----------------------------------------------------------------------------
Numbers == Low..High \cup Values
TypeOK ==
  /\ \A v \in {value, stored, text, heard, was} : v \in Numbers \cup {Empty}
  /\ handle \in 0..Track
  /\ \A b \in {dragging, mouseMoved, userModified, typed, resetting, disabled, quiet, lost} :
       b \in BOOLEAN
  /\ beforeStart \in Numbers \cup {Empty} /\ finger \in {"none", "slider", "elsewhere"}
  /\ moves \in 0..MaxMoves

AtRest == ~dragging /\ ~resetting

(* The handle shows the value of the control, to half a step; a switch     *)
(* shows it to the point.                                                  *)
HandleShowsValue ==
  AtRest /\ value # Empty =>
    LET gap == Absolute(handle - Within(0, Track, Place(value))) IN
    IF IsToggle THEN gap = 0 ELSE 2 * gap <= Scale * Step

(* What users leave in the field is in its range and on one of its steps,  *)
(* or its end.                                                             *)
ValueIsLegal ==
  ~typed /\ value # Empty =>
    value \in Low..High /\ ((value - Low) % Step = 0 \/ value = High)

(* Who listens to "change" knows the value when the user has finished, or  *)
(* the one it was aligned from when the field was left, unless a program   *)
(* refreshed a switch or the form was reset since, of which nobody is      *)
(* told.                                                                   *)
Knows(v) ==
  \/ v = heard
  \/ heard # Empty /\ v \in {Commit(heard), Commit(Commit(heard))}

ListenersKnow == AtRest /\ ~typed /\ ~quiet => Knows(value)

(* The handle follows only the finger that was put on it, as long as its   *)
(* touch has an end.                                                       *)
OnlyUnderFinger == dragging /\ ~lost => finger = "slider"

(* What of this holds with which controls and programs: a program that     *)
(* writes while the handle is dragged is not aligned, and a click into the *)
(* field may leave the handle.                                             *)
SliderFits ==
  /\ TypeOK /\ ListenersKnow /\ OnlyUnderFinger
  /\ Programs # "any" => ValueIsLegal
  /\ Programs # "any" /\ ~Clicks => HandleShowsValue

Lifted == dragging /\ ~dragging' /\ ~lost

(* A switch that was just clicked has changed when the finger is lifted.   *)
ClickFlips == Lifted /\ ~mouseMoved => value' # was

(* A switch that was dragged keeps what it showed when it was released.    *)
DragKeeps == Lifted /\ mouseMoved => value' = value

(* The handle of a switch is dragged under the finger: it does not jump to *)
(* the value meanwhile.                                                    *)
HandleFollows ==
  mouseMoved' /\ ~lost' /\ handle' # handle =>
    resetting # resetting' \/ \E x \in Points : handle' = Within(0, Track, AtFinger(x))

=============================================================================
