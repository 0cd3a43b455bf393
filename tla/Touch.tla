--------------------------------- MODULE Touch ---------------------------------
(***************************************************************************)
(* Virtual mouse events and taps (vmouse and the tap event of              *)
(* jquery.mobile-1.3.2.js).  A browser with touch sends touch events, and  *)
(* after a tap the mouse events of old some time later; vmouse makes one   *)
(* stream of both.  A tap is numbered by the order of touchstart.  Elements *)
(* lie apart from each other; the browser is external.                     *)
(***************************************************************************)
EXTENDS Integers, Sequences, FiniteSets, SequencesExt

CONSTANTS
  Elements, None,
  MaxTaps,        (* touches                                               *)
  MaxBindings,    (* calls of setup and of teardown                        *)
  Overlaps,       (* whether a touch may begin before the mouse events of  *)
                  (* the one before                                        *)
  Shifts,         (* whether the mouse events may hit another element      *)
  Holds           (* whether a finger may stay, or lose its touchend or    *)
                  (* the bindings under it                                 *)

TouchAssumption ==
  /\ None \notin [on : Elements, tap : Nat, moved : BOOLEAN] /\ IsFiniteSet(Elements)
  /\ MaxTaps \in Nat /\ MaxBindings \in Nat
  /\ Overlaps \in BOOLEAN /\ Shifts \in BOOLEAN /\ Holds \in BOOLEAN

VARIABLES
  bound,              (* elements with virtual bindings                    *)
  activeDocHandlers,
  touchID,            (* the virtualTouchID of each element, 0 for none    *)
  lastTouchID, nextTouchID, didScroll,
  blockMouseTriggers, blockTouchTriggers, clickBlockList,
  resetTimer,         (* it is running                                     *)
  tapHandlers,        (* on each element: the targets of the clickHandlers *)
  finger,             (* where it is, with its tap and whether it moved    *)
  coming,             (* mouse events on their way: target, place, tap     *)
  vclicks, taps,      (* how often each tap made them                      *)
  prevented,          (* taps whose vclick was prevented                   *)
  clicked,            (* taps whose click reached the page                 *)
  bindings

ids == <<touchID, lastTouchID, nextTouchID, didScroll>>
blocks == <<blockMouseTriggers, blockTouchTriggers, clickBlockList, resetTimer>>
handlers == <<bound, activeDocHandlers, bindings>>
outcome == <<vclicks, taps, prevented, clicked>>
vars == <<handlers, ids, blocks, tapHandlers, finger, coming, outcome>>

Taps == 1..MaxTaps

Init ==
  /\ bound = Elements /\ activeDocHandlers = Cardinality(Elements) /\ bindings = 0
  /\ touchID = [e \in Elements |-> 0] /\ lastTouchID = 0 /\ nextTouchID = 1
  /\ didScroll = FALSE
  /\ blockMouseTriggers = FALSE /\ blockTouchTriggers = FALSE
  /\ clickBlockList = {} /\ resetTimer = FALSE
  /\ tapHandlers = [e \in Elements |-> <<>>]
  /\ finger = None /\ coming = {}
  /\ vclicks = [t \in Taps |-> 0] /\ taps = [t \in Taps |-> 0]
  /\ prevented = {} /\ clicked = {}

Listening == activeDocHandlers > 0

-----------------------------------------------------------------------------
(* The handlers of tap: vmousedown binds a clickHandler, vclick runs and   *)
(* unbinds all there are, vmousecancel unbinds them everywhere.            *)
VmouseDown(handlersNow, e) == [handlersNow EXCEPT ![e] = Append(@, e)]
VclickDone(handlersNow, e) == [handlersNow EXCEPT ![e] = <<>>]
VmouseCancel(handlersNow) == [e \in Elements |-> <<>>]

TapsOf(handlersNow, e) == Len(handlersNow[e])

Vclick(handlersNow, e, tap) ==
  /\ vclicks' = [vclicks EXCEPT ![tap] = @ + 1]
  /\ taps' = [taps EXCEPT ![tap] = @ + TapsOf(handlersNow, e)]
  /\ tapHandlers' = VclickDone(handlersNow, e)

NoVclick(handlersNow) == tapHandlers' = handlersNow /\ UNCHANGED <<vclicks, taps>>

(* getSpecialEventObject: setup and teardown of the bindings of an element.*)
Setup ==
  /\ bindings < MaxBindings /\ bindings' = bindings + 1
  /\ \E e \in Elements \ bound :
       bound' = bound \cup {e} /\ activeDocHandlers' = activeDocHandlers + 1
  /\ UNCHANGED <<ids, blocks, tapHandlers, finger, coming, outcome>>

CountDown == activeDocHandlers - 1

Teardown ==
  /\ finger = None \/ Holds
  /\ bindings < MaxBindings /\ bindings' = bindings + 1
  /\ \E e \in bound :
       /\ bound' = bound \ {e} /\ activeDocHandlers' = CountDown
       /\ tapHandlers' = [tapHandlers EXCEPT ![e] = <<>>]
  /\ UNCHANGED <<ids, blocks, finger, coming, outcome>>

(* handleTouchStart for one finger.                                        *)
TouchStart ==
  /\ finger = None /\ nextTouchID <= MaxTaps
  /\ Overlaps \/ coming = {}
  /\ \E e \in bound :
       /\ Listening
       /\ finger' = [on |-> e, tap |-> nextTouchID, moved |-> FALSE]
       /\ lastTouchID' = nextTouchID /\ nextTouchID' = nextTouchID + 1
       /\ touchID' = [touchID EXCEPT ![e] = nextTouchID]
       /\ tapHandlers' = VmouseDown(tapHandlers, e)
  /\ resetTimer' = FALSE /\ blockTouchTriggers' = FALSE /\ didScroll' = FALSE
  /\ UNCHANGED <<handlers, blockMouseTriggers, clickBlockList, coming, outcome>>

(* handleTouchMove, beyond moveDistanceThreshold or below.                 *)
TouchMove ==
  /\ finger # None /\ ~finger.moved
  /\ \E far \in BOOLEAN :
       /\ finger' = [finger EXCEPT !.moved = far]
       /\ IF blockTouchTriggers \/ ~Listening
          THEN UNCHANGED <<didScroll, tapHandlers, resetTimer>>
          ELSE /\ didScroll' = (didScroll \/ far)
               /\ tapHandlers' = IF didScroll' /\ ~didScroll THEN VmouseCancel(tapHandlers)
                                 ELSE tapHandlers
               /\ resetTimer' = TRUE
  /\ UNCHANGED <<handlers, touchID, lastTouchID, nextTouchID, blockMouseTriggers,
                 blockTouchTriggers, clickBlockList, coming, outcome>>

(* handleScroll: the window scrolls under the finger.                      *)
Scroll ==
  /\ finger # None /\ ~blockTouchTriggers /\ Listening
  /\ didScroll' = TRUE /\ resetTimer' = TRUE
  /\ finger' = [finger EXCEPT !.moved = TRUE]
  /\ tapHandlers' = IF didScroll THEN tapHandlers ELSE VmouseCancel(tapHandlers)
  /\ UNCHANGED <<handlers, touchID, lastTouchID, nextTouchID, blockMouseTriggers,
                 blockTouchTriggers, clickBlockList, coming, outcome>>

(* External: the mouse events that follow a finger that did not move.      *)
MouseEvents(f) ==
  IF f.moved THEN {}
  ELSE {[on |-> e, place |-> f.on, tap |-> f.tap] :
          e \in IF Shifts THEN Elements ELSE {f.on}}

(* handleTouchEnd; a listener may prevent the vclick.                      *)
Blocked(tap, place) == {[touchID |-> tap, place |-> place]}

HandleTouchEnd(prevents) ==
  /\ blockTouchTriggers' = TRUE /\ didScroll' = FALSE /\ resetTimer' = TRUE
  /\ IF didScroll \/ finger.on \notin bound
     THEN NoVclick(tapHandlers) /\ UNCHANGED <<prevented, clickBlockList, blockMouseTriggers>>
     ELSE /\ Vclick(tapHandlers, finger.on, finger.tap)
          /\ IF prevents
             THEN /\ prevented' = prevented \cup {finger.tap}
                  /\ clickBlockList' = clickBlockList \cup Blocked(lastTouchID, finger.on)
                  /\ blockMouseTriggers' = TRUE
             ELSE UNCHANGED <<prevented, clickBlockList, blockMouseTriggers>>

TouchEnd ==
  /\ finger # None /\ finger' = None
  /\ IF blockTouchTriggers \/ ~Listening
     THEN UNCHANGED <<didScroll, blocks, tapHandlers, vclicks, taps, prevented>>
     ELSE \E prevents \in BOOLEAN : HandleTouchEnd(prevents)
  /\ \/ MouseEvents(finger) = {} /\ UNCHANGED coming
     \/ \E m \in MouseEvents(finger) : coming' = coming \cup {m}
  /\ UNCHANGED <<handlers, touchID, lastTouchID, nextTouchID, clicked>>

(* External: the touchend never comes.                                     *)
TouchCancel ==
  /\ Holds /\ finger # None /\ finger' = None
  /\ UNCHANGED <<handlers, ids, blocks, tapHandlers, coming, outcome>>

(* mouseEventCallback for mousedown, mouseup and click, and the capturing  *)
(* handler that looks for the click in clickBlockList first.               *)
MouseCountsFaultyUnblocked(e) == ~blockMouseTriggers
MouseCounts(e) ==
  ~blockMouseTriggers /\ (lastTouchID = 0 \/ lastTouchID # touchID[e])

IsBlocked(m) ==
  \E o \in clickBlockList : o.place = m.place \/ o.touchID = touchID[m.on]

Mouse ==
  \E m \in coming :
    /\ coming' = coming \ {m}
    /\ LET down == IF MouseCounts(m.on) /\ m.on \in bound THEN VmouseDown(tapHandlers, m.on)
                   ELSE tapHandlers
       IN  IF MouseCounts(m.on) /\ m.on \in bound /\ ~IsBlocked(m)
           THEN Vclick(down, m.on, m.tap)
           ELSE NoVclick(down)
    /\ clicked' = IF IsBlocked(m) THEN clicked ELSE clicked \cup {m.tap}
    /\ UNCHANGED <<handlers, ids, blocks, finger, prevented>>

(* The reset timer, enableMouseBindings.  Mouse events come before it, and *)
(* a finger does not stay that long, unless Holds.                         *)
ClearedList == FALSE

ResetTimer ==
  /\ resetTimer /\ resetTimer' = FALSE
  /\ coming = {} /\ (finger # None => Holds)
  /\ lastTouchID' = 0 /\ clickBlockList' = {}
  /\ blockMouseTriggers' = ClearedList /\ blockTouchTriggers' = TRUE
  /\ UNCHANGED <<handlers, touchID, nextTouchID, didScroll, tapHandlers, finger, coming,
                 outcome>>

Next ==
  \/ Setup \/ Teardown \/ TouchStart \/ TouchMove \/ Scroll \/ TouchEnd \/ TouchCancel
  \/ Mouse \/ ResetTimer

Spec == Init /\ [][Next]_vars

(* A finger is lifted, the mouse events come, the timer runs out.          *)
FairSpec == Spec /\ WF_vars(TouchEnd) /\ WF_vars(Mouse) /\ WF_vars(ResetTimer)

-----------------------------------------------------------------------------
TypeOK ==
  /\ bound \subseteq Elements /\ activeDocHandlers = Cardinality(bound)
  /\ touchID \in [Elements -> 0..MaxTaps]
  /\ lastTouchID \in 0..MaxTaps /\ nextTouchID \in 1..(MaxTaps + 1)
  /\ didScroll \in BOOLEAN /\ resetTimer \in BOOLEAN
  /\ blockMouseTriggers \in BOOLEAN /\ blockTouchTriggers \in BOOLEAN
  /\ clickBlockList \subseteq [touchID : Taps, place : Elements]
  /\ tapHandlers \in [Elements -> Seq(Elements)]
  /\ finger = None \/ finger \in [on : Elements, tap : Taps, moved : BOOLEAN]
  /\ coming \subseteq [on : Elements, place : Elements, tap : Taps]
  /\ vclicks \in [Taps -> Nat] /\ taps \in [Taps -> Nat]
  /\ prevented \subseteq Taps /\ clicked \subseteq Taps

(* A tap whose vclick was prevented never reaches the page as a click,     *)
(* wherever its mouse events land and whatever is touched before they come.*)
PreventedIsNotClicked == prevented \cap clicked = {}

(* "while still retaining the order of event firing in the traditional     *)
(* mouse environment": one tap makes one vclick.                           *)
OneVclick == \A t \in Taps : vclicks[t] <= 1

(* One tap makes one tap event: no clickHandler of an earlier touch, that  *)
(* moved or scrolled away, is left to answer too.                          *)
OneTap == \A t \in Taps : taps[t] <= 1

(* How often a tap is told, by how far touches keep apart.                 *)
TapsAreOnce ==
  /\ TypeOK /\ PreventedIsNotClicked
  /\ ~Overlaps /\ ~Shifts => OneVclick
  /\ ~Overlaps /\ ~Shifts /\ ~Holds => OneTap

(* Every touch ends with the mouse events enabled again.                   *)
MouseComesBack == (lastTouchID # 0 \/ blockMouseTriggers)
                    ~> (lastTouchID = 0 /\ ~blockMouseTriggers)

=============================================================================
