--------------------------------- MODULE Popup ---------------------------------
(***************************************************************************)
(* The popups of jQuery Mobile (the popup widget of                        *)
(* jquery.mobile-1.3.2.js), on the history of Navigation with popstate,    *)
(* where the library's history is the browser's.  A popup puts an entry    *)
(* of its own into the history, and a navigation away from it closes it.   *)
(* Page transitions take no time here (Pages has them).  The browser and   *)
(* its animations are external: history.back returns at once and moves     *)
(* later, and an animation ends only while its page is shown.              *)
(***************************************************************************)
EXTENDS Integers, Sequences, FiniteSets

CONSTANTS
  Popups, Pages, None,
  PageOf,           (* the page a popup is in                              *)
  Start,            (* the first page                                      *)
  Keeps,            (* options.history                                     *)
  Animated,         (* whether the transition is not "none"                *)
  UserMoves,        (* of "back" and "forward", what the user does         *)
  Calm,             (* whether links wait until the browser has moved      *)
  MaxMoves

PopupAssumption ==
  /\ None \notin Popups \cup {"open", "close"} /\ PageOf \in [Popups -> Pages] /\ Start \in Pages
  /\ Keeps \in BOOLEAN /\ Calm \in BOOLEAN /\ Animated \in BOOLEAN
  /\ UserMoves \subseteq {"back", "forward"} /\ MaxMoves \in Nat

VARIABLES
  entries, position,    (* the history: pages, and popups on them          *)
  asked,                (* history.back and forward that are to come       *)
  events,               (* navigate events on a timeout of 0               *)
  page,                 (* the active page                                 *)
  active,               (* $.mobile.popup.active                           *)
  bound,                (* the popup with handlers of closeEvents          *)
  popup,                (* the fields of each                              *)
  moves

browser == <<entries, position, asked, events>>
vars == <<browser, page, active, bound, popup, moves>>

(* The url with the dialogHashKey is that of the page with popup.          *)
Entry(p, isPopup) == [page |-> p, popup |-> isPopup]
Active == entries[position]

(* shown is the absence of ui-popup-hidden; stale are the prereqs that     *)
(* were replaced and are still attached to the end of the next animation.  *)
Fields == [isOpen : BOOLEAN, shown : BOOLEAN, urlAltered : BOOLEAN,
           myUrl : [page : Pages, popup : BOOLEAN],
           prereqs : {"open", "close", None}, stale : SUBSET {"open", "close"}]

Init ==
  /\ entries = <<Entry(Start, FALSE)>> /\ position = 1 /\ asked = <<>> /\ events = <<>>
  /\ page = Start /\ active = None /\ bound = None
  /\ popup = [p \in Popups |-> [isOpen |-> FALSE, shown |-> FALSE, urlAltered |-> FALSE,
                                myUrl |-> Entry(PageOf[p], FALSE), prereqs |-> None,
                                stale |-> {}]]
  /\ moves = 0

-----------------------------------------------------------------------------
(* _createPrereqs.                                                         *)
Begins(fields, kind) ==
  [fields EXCEPT !.prereqs = kind, !.stale = @ \cup ({fields.prereqs} \ {None})]

(* _open and _openPrereqsComplete, at once without an animation.           *)
Opens(fields) ==
  LET begun == [Begins(fields, "open") EXCEPT !.shown = TRUE, !.myUrl = Active]
  IN  IF Animated THEN begun ELSE [begun EXCEPT !.prereqs = None, !.isOpen = TRUE]

(* _close and _closePrereqsDone, at once without an animation.             *)
Waits(immediate) == Animated /\ ~immediate

Closes(fields, immediate) ==
  LET begun == [Begins(fields, "close") EXCEPT !.isOpen = FALSE]
  IN  IF Waits(immediate) THEN begun ELSE [begun EXCEPT !.prereqs = None, !.shown = FALSE]

(* _closePopup: the handlers go, and the mutex once the popup is closed.   *)
Released(immediate) == IF Waits(immediate) THEN active ELSE None

ClosePopup(p, immediate) ==
  /\ popup' = [popup EXCEPT ![p] = Closes(@, immediate)]
  /\ active' = Released(immediate)
  /\ bound' = None

(* pagebeforechange: the popup that is bound takes its time only when the  *)
(* page it is on is gone to, and prevents that.                            *)
Immediate(url) == popup[bound].myUrl # url

PageBeforeChange(url) ==
  IF bound # None THEN ClosePopup(bound, Immediate(url)) ELSE UNCHANGED <<popup, active, bound>>

Prevents(url) == bound # None /\ ~Immediate(url)

-----------------------------------------------------------------------------
Moved == moves < MaxMoves /\ moves' = moves + 1

(* The location was a popup's already.                                     *)
HasHash == Active.popup /\ position > 1

Pushed(entry) == Append(SubSeq(entries, 1, position), entry)

BindsFaultyWithoutHash(p) == IF HasHash THEN None ELSE p
Binds(p) == p

(* open and handleLink, with the pagebeforechange of a link in a popup     *)
(* that is open: that one is closed at once.  While one is being closed    *)
(* nothing opens.  beforenavigate comes during navigate.                   *)
LeftOpen == IF bound = None THEN popup ELSE [popup EXCEPT ![bound] = Closes(@, TRUE)]

Altered(fields) == [fields EXCEPT !.urlAltered = @ \/ (Keeps /\ ~HasHash)]

MayOpen == active = None \/ bound # None

Open(p) ==
  /\ Moved /\ page = PageOf[p] /\ MayOpen
  /\ active' = p /\ bound' = Binds(p)
  /\ popup' = [LeftOpen EXCEPT ![p] = Altered(Opens(@))]
  /\ \/ /\ Keeps /\ ~HasHash
        /\ entries' = Pushed(Entry(Active.page, TRUE))
        /\ position' = position + 1
     \/ (HasHash \/ ~Keeps) /\ UNCHANGED <<entries, position>>
  /\ UNCHANGED <<asked, events, page>>

(* close: by the screen behind it, the escape key or the program.          *)
ClosesByBack(p) == Keeps /\ popup[p].urlAltered

Close(p) ==
  /\ Moved /\ active = p
  /\ \/ /\ ClosesByBack(p)
        /\ asked' = Append(asked, "back")
        /\ popup' = [popup EXCEPT ![p].urlAltered = FALSE]
        /\ UNCHANGED <<active, bound>>
     \/ /\ ~ClosesByBack(p)
        /\ ClosePopup(p, FALSE)
        /\ UNCHANGED asked
  /\ UNCHANGED <<entries, position, events, page>>

(* External: the end of the animation of a popup's container.  The         *)
(* handlers of prereqs that were replaced run too, and do nothing.         *)
RunsFaultyDropped(fields) == IF fields.stale = {} THEN {fields.prereqs} ELSE {}
Runs(fields) == {fields.prereqs}

AnimationEnds(p) ==
  /\ popup[p].prereqs # None /\ page = PageOf[p]
  /\ popup' = [popup EXCEPT ![p].prereqs = None, ![p].stale = {},
                            ![p].isOpen = @ \/ "open" \in Runs(popup[p]),
                            ![p].shown = @ /\ "close" \notin Runs(popup[p])]
  /\ active' = IF "close" \in Runs(popup[p]) THEN None ELSE active
  /\ UNCHANGED <<browser, page, bound, moves>>

(* A link to another page.                                                 *)
Follow ==
  /\ Moved /\ (Calm => asked = <<>> /\ events = <<>>)
  /\ \E p \in Pages \ {page} :
       /\ PageBeforeChange(Entry(p, FALSE))
       /\ page' = p
       /\ entries' = Pushed(Entry(p, FALSE))
  /\ position' = position + 1
  /\ UNCHANGED <<asked, events>>

User ==
  /\ Moved
  /\ \E m \in UserMoves : asked' = Append(asked, m)
  /\ UNCHANGED <<entries, position, events, page, active, bound, popup>>

(* External: the browser goes back or forward, if there is an entry.       *)
Traverse ==
  /\ asked # <<>> /\ asked' = Tail(asked)
  /\ position' = IF Head(asked) = "back" THEN position - 1 ELSE position + 1
  /\ position' \in DOMAIN entries
  /\ events' = Append(events, [url |-> entries[position'], direction |-> Head(asked)])
  /\ UNCHANGED <<entries, page, active, bound, popup, moves>>

NowhereToGo ==
  /\ asked # <<>> /\ asked' = Tail(asked)
  /\ position = IF Head(asked) = "back" THEN 1 ELSE Len(entries)
  /\ UNCHANGED <<entries, position, events, page, active, bound, popup, moves>>

(* The navigate event and _handleHashChange: the entry of a popup is       *)
(* skipped, the page of another entry is changed to.                       *)
Skips(url) == url.popup

NavigateEvent ==
  /\ events # <<>> /\ events' = Tail(events)
  /\ LET event == Head(events) IN
     \/ /\ Skips(event.url)
        /\ asked' = Append(asked, event.direction)
        /\ UNCHANGED <<page, active, bound, popup>>
     \/ /\ ~Skips(event.url)
        /\ PageBeforeChange(event.url)
        /\ page' = IF Prevents(event.url) THEN page ELSE event.url.page
        /\ UNCHANGED asked
  /\ UNCHANGED <<entries, position, moves>>

Next ==
  \/ \E p \in Popups : Open(p) \/ Close(p) \/ AnimationEnds(p)
  \/ Follow \/ User \/ Traverse \/ NowhereToGo \/ NavigateEvent

Spec == Init /\ [][Next]_vars

(* The browser moves, timers run out and animations end.                   *)
FairSpec ==
  /\ Spec
  /\ WF_vars(Traverse) /\ WF_vars(NowhereToGo) /\ WF_vars(NavigateEvent)
  /\ \A p \in Popups : WF_vars(AnimationEnds(p))

-----------------------------------------------------------------------------
TypeOK ==
  /\ entries \in Seq([page : Pages, popup : BOOLEAN]) /\ position \in DOMAIN entries
  /\ asked \in Seq({"back", "forward"})
  /\ events \in Seq([url : [page : Pages, popup : BOOLEAN], direction : {"back", "forward"}])
  /\ page \in Pages /\ active \in Popups \cup {None} /\ bound \in Popups \cup {None}
  /\ popup \in [Popups -> Fields] /\ moves \in 0..MaxMoves

(* The mutex: one popup is to be seen at most, the active one, whichever   *)
(* of the others are still being closed, and one that is being closed is   *)
(* not opened by the late end of its opening.                              *)
OnlyActiveIsShown ==
  \A p \in Popups :
    /\ popup[p].shown => active = p
    /\ popup[p].isOpen => active = p /\ popup[p].prereqs # "close"

(* "any navigation event after a popup is opened should close the popup":  *)
(* a popup that is not being closed is on the page that is shown.          *)
OpenIsOnItsPage ==
  \A p \in Popups : (popup[p].shown /\ popup[p].prereqs # "close") => page = PageOf[p]

(* "Going to a different page - close immediately": no popup is left on a  *)
(* page that was left.                                                     *)
ShownIsOnItsPage == \A p \in Popups : popup[p].shown => page = PageOf[p]

(* The mutex holds, and popups are where they belong; without animations   *)
(* none waits for its closing to end.                                      *)
PopupsFit ==
  TypeOK /\ OnlyActiveIsShown /\ OpenIsOnItsPage /\ (~Animated => ShownIsOnItsPage)

(* A move back from the entry of a popup comes to the entry of the page it *)
(* is on: whoever moves, and whatever else is open, closing or gone back   *)
(* from, one step leaves behind what a popup put into the history.         *)
BackFromPopup ==
  (Traverse /\ Active.popup /\ Head(asked) = "back")
    => entries[position'] = Entry(Active.page, FALSE)

(* Opening and closing popups in any order, twice too, leaves no page: it  *)
(* goes back over what the popups put into the history and no further.     *)
(* That takes popups that close at once, one on a page, links that wait,   *)
(* and nobody at the buttons: otherwise urlAltered may outlive the entry   *)
(* it stands for.                                                          *)
CloseKeepsPage == page' # page => entries' # entries

(* A popup that was asked to close by way of the history does close.       *)
CloseCloses == \A p \in Popups : (asked # <<>> /\ active = p) ~> active # p

(* The mutex of a popup that is being closed is released, and others can   *)
(* be opened.                                                              *)
MutexIsReleased == \A p \in Popups : (popup[p].prereqs = "close") ~> (active # p)

=============================================================================
