------------------------------ MODULE MCHistory ------------------------------
(***************************************************************************)
(* Instances for TLC of what jQuery Mobile builds on the location: the     *)
(* history, the changes of pages, the polling for a changed hash and the   *)
(* popups.  Each scene below is one of these modules with one set of       *)
(* constants; a behaviour plays one scene, and the parts the scene is not  *)
(* about stay in their first states.                                       *)
(***************************************************************************)
EXTENDS Integers, Sequences

CONSTANTS
  None,
  Limit,          (* what bounds each scene: moves, or changes of the hash   *)
  Bindings        (* and the handlers that are bound and unbound meanwhile   *)

VARIABLES
  scene,
  entries, position, due, lastHash, loads, stack, activeIndex,
  preventNextHashChange, ignoreInitialHashChange, told,        (* Navigation *)
  dom, activePage, shown, isPageTransitioning, pageTransitionQueue, call, loading,
  held, transition, timers, message, loadMsgDelay, strayDelays, hides,    (* Pages *)
  hash, last_hash, bound, ready, whenReady, timeout_id, otherTimers, depth, frame,
  frameEntries, framePosition, changes, bindings,                (* HashPoll *)
  popupEntries, popupPosition, asked, events, page, active, boundPopup, popup,
                                                                    (* Popup *)
  moves                                       (* of Navigation and of Popup  *)

navigation == <<entries, position, due, lastHash, loads, stack, activeIndex,
                preventNextHashChange, ignoreInitialHashChange, told>>
changing == <<dom, activePage, shown, isPageTransitioning, pageTransitionQueue, call,
              loading, held, transition, timers, message, loadMsgDelay, strayDelays, hides>>
polling == <<hash, last_hash, bound, ready, whenReady, timeout_id, otherTimers, depth,
             frame, frameEntries, framePosition, changes, bindings>>
popups == <<popupEntries, popupPosition, asked, events, page, active, boundPopup, popup>>
all == <<scene, navigation, changing, polling, popups, moves>>

(* The history where popstate tells of every move at once; the same where  *)
(* urls come back and the event of the load is late; and where hashchange  *)
(* events come late and urls come back.                                    *)
Mirror == INSTANCE Navigation WITH
  Urls <- {"home", "a", "b", "c"}, Home <- "home", Paths <- {"home", "c"},
  Events <- "popstate", HashFires <- TRUE, LoadFires <- "early", Revisits <- FALSE,
  Stays <- TRUE, MaxMoves <- Limit["mirror"]
Again == INSTANCE Navigation WITH
  Urls <- {"home", "a", "b", "c"}, Home <- "home", Paths <- {"home", "c"},
  Events <- "popstate", HashFires <- TRUE, LoadFires <- "late", Revisits <- TRUE,
  Stays <- TRUE, MaxMoves <- Limit["again"]
Late == INSTANCE Navigation WITH
  Urls <- {"home", "a", "b", "c"}, Home <- "home", Paths <- {"home", "c"},
  Events <- "hashchange", HashFires <- TRUE, LoadFires <- "early", Revisits <- TRUE,
  Stays <- FALSE, MaxMoves <- Limit["late"]

(* Users who do not wait for a change of page, a server that fails, a page *)
(* of another domain, and listeners that prevent what they can; with       *)
(* liveness properties nearly the same, and one whose listeners only take  *)
(* over loads; users who wait.                                             *)
Preventable == {"pagebeforechange", "pagebeforeload", "pageloadfailed"}
Busy == INSTANCE Pages WITH
  Urls <- {"home", "r", "far"}, Home <- "home", Paths <- {"home", "r", "far"},
  Events <- "popstate", HashFires <- TRUE, LoadFires <- "never", Revisits <- TRUE,
  Stays <- TRUE, MaxMoves <- Limit["busy"],
  Embedded <- {"home"}, Remote <- {"r"}, Foreign <- {"far"},
  ListenersPrevent <- Preventable, Fails <- TRUE, Calm <- FALSE
Held == INSTANCE Pages WITH
  Urls <- {"home", "r", "lost"}, Home <- "home", Paths <- {"home", "r"},
  Events <- "popstate", HashFires <- TRUE, LoadFires <- "never", Revisits <- TRUE,
  Stays <- TRUE, MaxMoves <- Limit["held"],
  Embedded <- {"home"}, Remote <- {"r"}, Foreign <- {},
  ListenersPrevent <- Preventable, Fails <- TRUE, Calm <- FALSE
Lock == INSTANCE Pages WITH
  Urls <- {"home", "r", "lost"}, Home <- "home", Paths <- {"home", "r"},
  Events <- "popstate", HashFires <- TRUE, LoadFires <- "never", Revisits <- TRUE,
  Stays <- TRUE, MaxMoves <- Limit["lock"],
  Embedded <- {"home"}, Remote <- {"r"}, Foreign <- {},
  ListenersPrevent <- {"pagebeforeload"}, Fails <- TRUE, Calm <- FALSE
Patient == INSTANCE Pages WITH
  Urls <- {"home", "e", "r", "s"}, Home <- "home", Paths <- {"home", "r", "s"},
  Events <- "popstate", HashFires <- TRUE, LoadFires <- "never", Revisits <- TRUE,
  Stays <- TRUE, MaxMoves <- Limit["calm"],
  Embedded <- {"home", "e"}, Remote <- {"r", "s"}, Foreign <- {},
  ListenersPrevent <- {}, Fails <- FALSE, Calm <- TRUE

(* A browser that polls; handlers that bind and unbind; one with the frame.*)
Loop == INSTANCE HashPoll WITH
  Hashes <- {"h1", "h2"}, Frame <- FALSE, Reentrant <- FALSE, MaxChanges <- Limit["loop"],
  MaxBindings <- Bindings["loop"], entries <- frameEntries, position <- framePosition
Inside == INSTANCE HashPoll WITH
  Hashes <- {"h1", "h2"}, Frame <- FALSE, Reentrant <- TRUE, MaxChanges <- Limit["inside"],
  MaxBindings <- Bindings["inside"], entries <- frameEntries, position <- framePosition
Framed == INSTANCE HashPoll WITH
  Hashes <- {"h1", "h2", "h3"}, Frame <- TRUE, Reentrant <- TRUE, MaxChanges <- Limit["framed"],
  MaxBindings <- Bindings["framed"], entries <- frameEntries, position <- framePosition

(* Two popups: users with the back button, closings by way of the history, *)
(* popups without history, and links between pages that wait.              *)
Two == {"left", "right"}
Apart == [p \in Two |-> IF p = "left" THEN "list" ELSE "home"]
Users == INSTANCE Popup WITH
  Popups <- Two, Pages <- {"home", "list"}, PageOf <- Apart, Start <- "home",
  Keeps <- TRUE, Animated <- TRUE, UserMoves <- {"back", "forward"}, Calm <- FALSE,
  MaxMoves <- Limit["users"], entries <- popupEntries, position <- popupPosition,
  bound <- boundPopup
Closings == INSTANCE Popup WITH
  Popups <- Two, Pages <- {"home"}, PageOf <- [p \in Two |-> "home"], Start <- "home",
  Keeps <- TRUE, Animated <- TRUE, UserMoves <- {}, Calm <- FALSE,
  MaxMoves <- Limit["closings"], entries <- popupEntries, position <- popupPosition,
  bound <- boundPopup
NoHistory == INSTANCE Popup WITH
  Popups <- Two, Pages <- {"home"}, PageOf <- [p \in Two |-> "home"], Start <- "home",
  Keeps <- FALSE, Animated <- TRUE, UserMoves <- {"back"}, Calm <- FALSE,
  MaxMoves <- Limit["no history"], entries <- popupEntries, position <- popupPosition,
  bound <- boundPopup
Links == INSTANCE Popup WITH
  Popups <- Two, Pages <- {"home", "list"}, PageOf <- Apart, Start <- "home",
  Keeps <- TRUE, Animated <- FALSE, UserMoves <- {}, Calm <- TRUE,
  MaxMoves <- Limit["links"], entries <- popupEntries, position <- popupPosition,
  bound <- boundPopup

Histories == {"mirror", "again", "late"}
PageScenes == {"busy", "held", "lock", "calm"}
HashScenes == {"loop", "inside", "framed"}
PopupScenes == {"users", "closings", "no history", "links"}
Scenes == Histories \cup PageScenes \cup HashScenes \cup PopupScenes

Limits ==
  [s \in Scenes |->
     CASE s = "inside" -> 2
       [] s \in {"held", "lock", "loop"} -> 3
       [] s \in {"again", "busy", "framed"} -> 4
       [] s \in {"late", "calm", "users", "no history"} -> 5
       [] OTHER -> 6]
BindingLimits == [s \in Scenes |-> IF s = "framed" THEN 2 ELSE 4]

ASSUME LimitAssumption == Limit \in [Scenes -> Nat] /\ Bindings \in [Scenes -> Nat]
ASSUME ScenesAssumption ==
  /\ Mirror!NavigationAssumption /\ Again!NavigationAssumption /\ Late!NavigationAssumption
  /\ Busy!PagesAssumption /\ Held!PagesAssumption /\ Lock!PagesAssumption
  /\ Patient!PagesAssumption
  /\ Loop!HashPollAssumption /\ Inside!HashPollAssumption /\ Framed!HashPollAssumption
  /\ Users!PopupAssumption /\ Closings!PopupAssumption
  /\ NoHistory!PopupAssumption /\ Links!PopupAssumption

(* Where the first states of two instances differ, each has its own.       *)
Init ==
  /\ scene \in Scenes
  /\ IF scene \in {"mirror", "again"} THEN Mirror!Init ELSE Late!Init
  /\ IF scene = "calm" THEN Patient!InitializePage ELSE Busy!InitializePage
  /\ Framed!Init
  /\ scene \notin HashScenes => hash = "h1"
  /\ scene \in {"loop", "inside"} => hash # "h3"
  /\ IF scene \in {"users", "links"} THEN Users!Init ELSE Closings!Init

InHistory(s) == scene = s /\ UNCHANGED <<scene, changing, polling, popups>>
InPages(s) == scene = s /\ UNCHANGED <<scene, polling, popups>>
InHash(s) == scene = s /\ UNCHANGED <<scene, navigation, changing, popups, moves>>
InPopup(s) == scene = s /\ UNCHANGED <<scene, navigation, changing, polling>>

Next ==
  \/ InHistory("mirror") /\ Mirror!Next
  \/ InHistory("again") /\ Again!Next
  \/ InHistory("late") /\ Late!Next
  \/ InPages("busy") /\ Busy!PagesNext
  \/ InPages("held") /\ Held!PagesNext
  \/ InPages("lock") /\ Lock!PagesNext
  \/ InPages("calm") /\ Patient!PagesNext
  \/ InHash("loop") /\ Loop!Next
  \/ InHash("inside") /\ Inside!Next
  \/ InHash("framed") /\ Framed!Next
  \/ InPopup("users") /\ Users!Next
  \/ InPopup("closings") /\ Closings!Next
  \/ InPopup("no history") /\ NoHistory!Next
  \/ InPopup("links") /\ Links!Next

Spec == Init /\ [][Next]_all

(* The fairness of Pages, HashPoll and Popup.  A behaviour stays in its    *)
(* scene, so that one conjunct serves actions of several.                  *)
FairSpec ==
  /\ Spec
  /\ WF_all(\/ InPages("held") /\ Held!Turn
            \/ InPages("lock") /\ Lock!Turn
            \/ InHash("loop") /\ Loop!HandlersReturn
            \/ InHash("framed") /\ Framed!HandlersReturn
            \/ InPopup("closings") /\ Closings!Traverse
            \/ InPopup("no history") /\ NoHistory!Traverse)
  /\ WF_all(\/ InPages("held") /\ Held!NavigateEvent
            \/ InPages("lock") /\ Lock!NavigateEvent
            \/ InHash("loop") /\ Loop!TimerRunsOut
            \/ InHash("framed") /\ Framed!TimerRunsOut
            \/ InPopup("closings") /\ Closings!NavigateEvent
            \/ InPopup("no history") /\ NoHistory!NavigateEvent)
  /\ WF_all(\/ InPages("held") /\ Held!Answer
            \/ InPages("lock") /\ Lock!Answer
            \/ InHash("loop") /\ Loop!DOMReady
            \/ InHash("framed") /\ Framed!DOMReady
            \/ InPopup("closings") /\ Closings!NowhereToGo
            \/ InPopup("no history") /\ NoHistory!NowhereToGo)
  /\ WF_all(\/ InPages("held") /\ Held!OutDone
            \/ InPages("lock") /\ Lock!OutDone
            \/ InHash("framed") /\ Framed!FrameLoads
            \/ InPopup("closings") /\ Closings!AnimationEnds("left")
            \/ InPopup("no history") /\ NoHistory!AnimationEnds("left"))
  /\ WF_all(\/ InPages("held") /\ Held!InDone
            \/ InPages("lock") /\ Lock!InDone
            \/ InPopup("closings") /\ Closings!AnimationEnds("right")
            \/ InPopup("no history") /\ NoHistory!AnimationEnds("right"))
  /\ WF_all(\/ InPages("held") /\ Held!ListenerSettles
            \/ InPages("lock") /\ Lock!ListenerSettles)
  /\ WF_all(InPages("lock") /\ Lock!ShowMessage)
  /\ WF_all(InPages("lock") /\ Lock!HideMessage)

-----------------------------------------------------------------------------
(* When every event was handled, the active entry is the one the user      *)
(* looks at; with popstate the stack is the browser's, entry by entry; and *)
(* the flag that swallows an event is only up while its event is due.      *)
HistoryFollows ==
  /\ scene = "mirror" => Mirror!HistoryFollows
  /\ scene = "late" => Late!HistoryFollows

(* What no step may do: report a move in the wrong direction, or let the   *)
(* stack part from the browser's history, unless the library is misled;    *)
(* go back from the entry of a popup to another page than its own; leave a *)
(* page by opening or closing popups that close at once.                   *)
MovesAreTrue ==
  [][/\ scene = "mirror" => Mirror!DirectionIsTrue
     /\ scene = "again" => Again!DirectionIsTrue
     /\ scene = "users" => Users!BackFromPopup
     /\ scene = "links" => Links!CloseKeepsPage]_all

(* Between two changes just the active page is shown, and the document     *)
(* has it; the lock is held for one load, one request that a listener took *)
(* over or one transition, never for nothing; when the user waits, the     *)
(* page is the one of the location.                                        *)
PagesFit ==
  /\ scene = "busy" => Busy!PagesFit
  /\ scene = "calm" => Patient!PagesFit

(* No answer, animation or listener leaves the application locked, given   *)
(* that a listener settles what it took over; and a message goes away      *)
(* again, whatever became of the page it was shown for, where listeners    *)
(* neither stop changes nor take over failures.                            *)
LockIsReleased ==
  /\ scene = "held" => Held!LockIsReleased
  /\ scene = "lock" => Lock!LockIsReleased /\ Lock!MessageGoes

(* One loop polls while a handler is bound and none without, whatever the  *)
(* handlers do; and the history in the frame has no entry twice in a row.  *)
OneLoopPolls ==
  /\ scene = "loop" => Loop!OneLoopPolls
  /\ scene = "inside" => Inside!OneLoopPolls
  /\ scene = "framed" => Framed!OneLoopPolls

(* A hash that stays is seen while a handler is bound; location, frame and *)
(* handlers come together once the user rests.                             *)
ChangesAreSeen ==
  /\ scene = "loop" => Loop!ChangesAreSeen
  /\ scene = "framed" => Framed!ComesTogether

(* The mutex: one popup is to be seen at most, the active one, and unless  *)
(* it is being closed it is on the page that is shown.  Where popups close *)
(* at once, none is left on a page that was left.                          *)
PopupsFit ==
  /\ scene = "users" => Users!PopupsFit
  /\ scene = "no history" => NoHistory!PopupsFit
  /\ scene = "links" => Links!PopupsFit

(* A popup that was asked to close does close, and its mutex is released.  *)
PopupsClose ==
  /\ scene = "closings" => Closings!CloseCloses /\ Closings!MutexIsReleased
  /\ scene = "no history" => NoHistory!MutexIsReleased

=============================================================================
