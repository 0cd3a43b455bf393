--------------------------------- MODULE Panel ---------------------------------
(***************************************************************************)
(* The panels of one page (the panel widget of jquery.mobile-1.3.2.js).    *)
(* A panel that is opened closes the others, and comes when the first of   *)
(* them has gone: the page says that a panel is there until its closing    *)
(* has ended.  The end of a transition runs every complete that is bound   *)
(* to its panel; panels lie over the page, so that its wrapper, to which   *)
(* they are bound too, does not move.  The browser is external: a          *)
(* transition never ends on a page that is hidden.                         *)
(***************************************************************************)
EXTENDS Integers, Sequences, FiniteSets, SequencesExt

CONSTANTS
  Panels,
  Animated,         (* options.animate, where there are transforms         *)
  Patience,         (* until when the user waits: "none", "comes" (the     *)
                    (* panel comes) or "rests" (all has come to rest)      *)
  Hides,            (* whether the page is left: "never", "calm" (not      *)
                    (* during transitions) or "any"                        *)
  MaxMoves

PanelAssumption ==
  /\ IsFiniteSet(Panels) /\ Animated \in BOOLEAN
  /\ Patience \in {"none", "comes", "rests"} /\ Hides \in {"never", "calm", "any"}
  /\ MaxMoves \in Nat

VARIABLES
  open,             (* _open of each                                       *)
  shown,            (* the class panelOpen                                 *)
  completes,        (* bound to the end of its transition, in order        *)
  moving,           (* its transition runs                                 *)
  timeouts,         (* completes to be called at once                      *)
  there,            (* the data "panel" of the page                        *)
  waiting,          (* panels that wait for panelclose, in order           *)
  pagePanelOpen,    (* the class of the page                               *)
  listens,          (* to throttledresize                                  *)
  page,             (* whether the page is the active one                  *)
  moves

panels == <<open, shown, completes, moving, listens>>
pages == <<there, waiting, pagePanelOpen, page>>
vars == <<panels, timeouts, pages, moves>>

Init ==
  /\ open = [p \in Panels |-> FALSE] /\ shown = open /\ moving = open /\ listens = open
  /\ completes = [p \in Panels |-> <<>>] /\ timeouts = <<>>
  /\ there = FALSE /\ waiting = <<>> /\ pagePanelOpen = FALSE
  /\ page = TRUE /\ moves = 0

-----------------------------------------------------------------------------
(* A panel begins to open or close: its complete is bound to the end of    *)
(* the transition or set on a timeout of 0.                                *)
Bind(bound, ps, kind) ==
  [p \in Panels |-> IF p \in ps /\ Animated THEN Append(bound[p], kind) ELSE bound[p]]

Soon(ps, kind) == [i \in 1..Len(SetToSeq(ps)) |-> <<SetToSeq(ps)[i], kind>>]
Timeouts(ps, kind) == IF Animated THEN <<>> ELSE Soon(ps, kind)

Among(ps, value, values) == [p \in Panels |-> IF p \in ps THEN value ELSE values[p]]

(* The panels that panelbeforeopen closes.                                 *)
Others(p) == {q \in Panels \ {p} : open[q]}

(* open, with panelbeforeopen and the _closePanel of the others, and       *)
(* _openPanel when no panel is there; panelclose handlers are taken off.   *)
Waits == there

TakenOffFaultyNever == waiting
TakenOff == <<>>

KeepsClass(ps) == ps = {}

Open(p) ==
  LET opened == IF Waits THEN {} ELSE {p} IN
  /\ ~open[p]
  /\ open' = [Among(Others(p), FALSE, open) EXCEPT ![p] = TRUE]
  /\ shown' = Among(opened, TRUE, Among(Others(p), FALSE, shown))
  /\ completes' = Bind(Bind(completes, Others(p), "close"), opened, "open")
  /\ moving' = Among(Others(p) \cup opened, Animated, moving)
  /\ timeouts' = timeouts \o Timeouts(Others(p), "close") \o Timeouts(opened, "open")
  /\ waiting' = IF Waits THEN Append(waiting, p) ELSE TakenOff
  /\ there' = TRUE
  /\ pagePanelOpen' = (pagePanelOpen /\ KeepsClass(Others(p)))
  /\ UNCHANGED <<listens, page>>

(* close: by its link, the screen beside it, a swipe, the escape key.      *)
Close(p) ==
  /\ open[p]
  /\ open' = [open EXCEPT ![p] = FALSE] /\ shown' = [shown EXCEPT ![p] = FALSE]
  /\ completes' = Bind(completes, {p}, "close")
  /\ moving' = [moving EXCEPT ![p] = Animated]
  /\ timeouts' = timeouts \o Timeouts({p}, "close")
  /\ pagePanelOpen' = (pagePanelOpen /\ KeepsClass({p}))
  /\ UNCHANGED <<listens, there, waiting, page>>

(* The completes of open and of close.  The event of a close lets every    *)
(* panel that waits open; a handler that is bound meanwhile runs later.    *)
RemovedFaultyNever == there
Removed == FALSE

Complete(p, kinds, left) ==
  LET closes == Contains(kinds, "close")
      opened == IF closes THEN Range(waiting) ELSE {}
  IN  /\ shown' = Among(opened, TRUE, shown)
      /\ completes' = Bind([completes EXCEPT ![p] = left], opened, "open")
      /\ moving' = Among(opened, Animated, [moving EXCEPT ![p] = moving[p] /\ left # <<>>])
      /\ there' = IF opened # {} THEN TRUE ELSE IF closes THEN Removed ELSE there
      /\ waiting' = IF closes THEN TakenOff ELSE waiting
      /\ pagePanelOpen' = (pagePanelOpen \/ Contains(kinds, "open"))
      /\ listens' = [listens EXCEPT ![p] = Last(kinds) = "open"]
      /\ UNCHANGED <<open, page, moves>>

(* External: the end of the transition of a panel.                         *)
TransitionEnds(p) ==
  /\ moving[p] /\ page /\ completes[p] # <<>>
  /\ Complete(p, completes[p], <<>>)
  /\ UNCHANGED timeouts

Timeout ==
  LET p == Head(timeouts)[1]
      kind == Head(timeouts)[2]
  IN  /\ timeouts # <<>>
      /\ Complete(p, <<kind>>, completes[p])
      /\ timeouts' = Tail(timeouts) \o
           (IF kind = "close" THEN Timeouts(Range(waiting), "open") ELSE <<>>)

-----------------------------------------------------------------------------
Settled == timeouts = <<>> /\ \A p \in Panels : ~moving[p]

Moved ==
  /\ moves < MaxMoves /\ moves' = moves + 1
  /\ Patience # "none" => \A p \in Panels : open[p] => shown[p]
  /\ Patience = "rests" => Settled

Toggle == Moved /\ page /\ \E p \in Panels : Open(p) \/ Close(p)

(* pagehide: the panels that are open are closed at once; transitions that *)
(* run are stopped and their completes stay bound.                         *)
Cleans == {p \in Panels : open[p]}

PageHide ==
  /\ Moved /\ page /\ Hides # "never"
  /\ Hides = "calm" => Settled
  /\ open' = Among(Cleans, FALSE, open) /\ shown' = Among(Cleans, FALSE, shown)
  /\ timeouts' = timeouts \o Soon(Cleans, "close")
  /\ pagePanelOpen' = (pagePanelOpen /\ KeepsClass(Cleans))
  /\ moving' = [p \in Panels |-> FALSE]
  /\ page' = FALSE
  /\ UNCHANGED <<completes, listens, there, waiting>>

PageShow ==
  /\ Moved /\ ~page /\ page' = TRUE
  /\ UNCHANGED <<panels, timeouts, there, waiting, pagePanelOpen>>

Next ==
  Toggle \/ PageHide \/ PageShow \/ Timeout \/ \E p \in Panels : TransitionEnds(p)

Spec == Init /\ [][Next]_vars

(* Timers run out and transitions end.                                     *)
FairSpec ==
  /\ Spec
  /\ WF_vars(Timeout) /\ \A p \in Panels : WF_vars(TransitionEnds(p))

-----------------------------------------------------------------------------
TypeOK ==
  /\ \A f \in {open, shown, moving, listens} : f \in [Panels -> BOOLEAN]
  /\ completes \in [Panels -> Seq({"open", "close"})]
  /\ timeouts \in Seq(Panels \X {"open", "close"})
  /\ there \in BOOLEAN /\ waiting \in Seq(Panels) /\ pagePanelOpen \in BOOLEAN
  /\ page \in BOOLEAN /\ moves \in 0..MaxMoves

(* "Close the panel if another panel on the page opens": one is to be seen *)
(* at most.                                                                *)
OnePanel == \A p, q \in Panels : shown[p] /\ shown[q] => p = q

(* A panel that is to be seen can be closed: it counts as open.            *)
ShownIsOpen == \A p \in Panels : shown[p] => open[p]

(* When all has come to rest the page knows whether a panel is there.      *)
PageKnows == Settled => (there <=> \E p \in Panels : open[p])

(* The class of the page is taken back with the panel.                     *)
ClassGoes == Settled /\ pagePanelOpen => \E p \in Panels : open[p]

(* What of this holds with which users: those who wait for a panel to come *)
(* see one; those who wait until all rests know what the page says.        *)
PanelsFit ==
  /\ TypeOK
  /\ Patience # "none" => OnePanel /\ ShownIsOpen
  /\ Patience = "rests" => PageKnows /\ ClassGoes

(* A panel that was opened comes, or was closed again.                     *)
OpenComes == \A p \in Panels : open[p] ~> (shown[p] \/ ~open[p] \/ ~page)

=============================================================================
