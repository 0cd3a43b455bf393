--------------------------------- MODULE Pages ---------------------------------
(***************************************************************************)
(* Changing pages in jQuery Mobile (changePage, loadPage, transitionPages  *)
(* and the transition handler of jquery.mobile-1.3.2.js), on top of the    *)
(* history with popstate.  One turn of JavaScript runs to its end: call is *)
(* the call of changePage the turn still has to make, and nothing else     *)
(* happens before it.  A page has the url it is found by: one of the       *)
(* document a hash, one that is loaded a path.  Dialogs, forms and reloads *)
(* of a page are left out.                                                 *)
(***************************************************************************)
EXTENDS Navigation, SequencesExt

CONSTANTS
  Embedded,        (* the pages of the document                            *)
  Remote,          (* those a server has                                   *)
  Foreign,         (* those of another domain; other urls have no page     *)
  ListenersPrevent,(* the events whose default listeners prevent           *)
  Fails,           (* whether the server may fail                          *)
  Calm             (* whether the user waits until a change is over        *)

(* A request is for a url or, found says, for its page; fromHash is the    *)
(* option fromHashChange.  A transition goes from a page to a page.        *)
Requests == [url : Urls, found : BOOLEAN, fromHash : BOOLEAN]
Transitions == [from : Urls, to : Urls, stage : {"out", "in"}]

PagesAssumption ==
  /\ NavigationAssumption /\ None \notin Requests \cup Transitions
  /\ Events = "popstate" /\ Home \in Embedded
  /\ Embedded \cup Remote \cup Foreign \subseteq Urls
  /\ Paths = Remote \cup Foreign \cup {Home}
  /\ Embedded \cap Remote = {} /\ Foreign \cap (Embedded \cup Remote) = {}
  /\ ListenersPrevent \subseteq {"pagebeforechange", "pagebeforeload", "pageloadfailed"}
  /\ Fails \in BOOLEAN /\ Calm \in BOOLEAN

VARIABLES
  dom,                  (* pages in the page container                     *)
  activePage,
  shown,                (* pages with the activePageClass                  *)
  isPageTransitioning, pageTransitionQueue,
  call,
  loading,              (* the request whose page the server is asked for  *)
  held,                 (* the request whose deferred a listener took over *)
  transition,           (* the pages and the stage of the animation        *)
  timers,               (* navigate events set on a timeout of 0           *)
  message,              (* what the loader shows                           *)
  loadMsgDelay,         (* the timer of loading on showing it is set       *)
  strayDelays, hides    (* other timers on showing it, and on hiding it    *)

pages == <<dom, activePage, shown>>
lock == <<isPageTransitioning, pageTransitionQueue, call>>
loader == <<message, loadMsgDelay, strayDelays, hides>>
vars == <<navigation, pages, lock, loading, held, transition, timers, loader>>

Request(url, found, fromHash) == [url |-> url, found |-> found, fromHash |-> fromHash]

InitializePage ==
  /\ dom = Embedded /\ activePage = None /\ shown = {}
  /\ isPageTransitioning = FALSE /\ pageTransitionQueue = <<>>
  /\ call = Request(Home, TRUE, TRUE)      (* at the end of initializePage *)
  /\ loading = None /\ held = None /\ transition = None /\ timers = <<>>
  /\ message = "loading" /\ loadMsgDelay = FALSE /\ strayDelays = 0 /\ hides = 0

PagesInit == Init /\ InitializePage

-----------------------------------------------------------------------------
(* releasePageTransitionLock: the oldest request that waits runs next.     *)
Waiting == IF pageTransitionQueue = <<>> THEN None ELSE Head(pageTransitionQueue)

Release ==
  /\ isPageTransitioning' = FALSE
  /\ call' = Waiting
  /\ pageTransitionQueue' = IF pageTransitionQueue = <<>> THEN <<>>
                            ELSE Tail(pageTransitionQueue)

IsLockedFaultyNever == FALSE
IsLocked == isPageTransitioning

(* A change of page while another is under way waits.                      *)
Queue ==
  /\ call # None /\ IsLocked
  /\ pageTransitionQueue' = Append(pageTransitionQueue, call)
  /\ call' = None
  /\ UNCHANGED <<navigation, pages, isPageTransitioning, loading, held, transition, timers,
                 loader>>

(* A listener of pagebeforechange prevents it.                             *)
Prevented ==
  /\ call # None /\ ~IsLocked /\ "pagebeforechange" \in ListenersPrevent
  /\ call' = None
  /\ UNCHANGED <<navigation, pages, isPageTransitioning, pageTransitionQueue, loading, held,
                 transition, timers, loader>>

(* changePage with a url: loadPage finds the page in the container, asks   *)
(* the server for it, rejects, or leaves it to a listener that prevented   *)
(* pagebeforeload, with the lock and the deferred.  The delay for the      *)
(* message is set before the domain is looked at.                          *)
LoadPage ==
  /\ call # None /\ ~IsLocked /\ ~call.found
  /\ \/ /\ call.url \in dom
        /\ call' = [call EXCEPT !.found = TRUE]
        /\ UNCHANGED <<isPageTransitioning, pageTransitionQueue, loading, held, loader>>
     \/ /\ call.url \in (Remote \cup Foreign) \ dom /\ "pagebeforeload" \in ListenersPrevent
        /\ isPageTransitioning' = TRUE /\ held' = call /\ call' = None
        /\ UNCHANGED <<pageTransitionQueue, loading, loader>>
     \/ /\ call.url \in Remote \ dom
        /\ isPageTransitioning' = TRUE /\ loading' = call /\ call' = None
        /\ loadMsgDelay' = TRUE
        /\ UNCHANGED <<pageTransitionQueue, held, message, strayDelays, hides>>
     \/ /\ call.url \in Foreign \ dom
        /\ strayDelays' = strayDelays + 1 /\ Release
        /\ UNCHANGED <<loading, held, message, loadMsgDelay, hides>>
     \/ /\ call.url \notin dom \cup Remote \cup Foreign
        /\ Release
        /\ UNCHANGED <<loading, held, loader>>
  /\ UNCHANGED <<navigation, pages, transition, timers>>

(* The done callback of changePage.                                        *)
Resolved(request) ==
  /\ dom' = dom \cup {request.url}
  /\ isPageTransitioning' = FALSE /\ call' = [request EXCEPT !.found = TRUE]
  /\ UNCHANGED <<activePage, shown, pageTransitionQueue>>

(* External: the answer of the server; success and error of loadPage.      *)
Loaded ==
  /\ call = None /\ loading # None
  /\ Resolved(loading)
  /\ loading' = None /\ message' = None /\ loadMsgDelay' = FALSE
  /\ UNCHANGED <<navigation, held, transition, timers, strayDelays, hides>>

HideLater == hides + 1

(* A listener that prevents pageloadfailed is left the lock, the deferred  *)
(* and the message, whose timer nobody clears any more.                    *)
LoadFails ==
  /\ call = None /\ loading # None /\ Fails
  /\ loading' = None /\ loadMsgDelay' = FALSE
  /\ \/ /\ Release
        /\ message' = "error" /\ hides' = HideLater
        /\ UNCHANGED <<held, strayDelays>>
     \/ /\ "pageloadfailed" \in ListenersPrevent
        /\ held' = loading
        /\ strayDelays' = IF loadMsgDelay THEN strayDelays + 1 ELSE strayDelays
        /\ UNCHANGED <<lock, message, hides>>
  /\ UNCHANGED <<navigation, pages, transition, timers>>

(* External: "it is the responsibility of the listener/handler that called *)
(* preventDefault(), to resolve/reject the deferred object".               *)
ListenerSettles ==
  /\ call = None /\ held # None
  /\ \/ Resolved(held)
     \/ Release /\ UNCHANGED pages
  /\ held' = None
  /\ UNCHANGED <<navigation, loading, transition, timers, loader>>

(* changePage with the page that is shown: nothing is left to do.  The     *)
(* urlHistory.direct of a change that follows the hash finds no entry: it  *)
(* looks for the data-url of the page ("foo", "/x.html"), and an entry has *)
(* an absolute url and a hash that begins with "#" (History.add, squash).  *)
UnlockedFaultyForgotten == TRUE
Unlocked == FALSE

SamePage ==
  /\ call # None /\ ~IsLocked /\ call.found /\ call.url = activePage
  /\ isPageTransitioning' = Unlocked /\ call' = None
  /\ UNCHANGED <<navigation, pages, pageTransitionQueue, loading, held, transition, timers,
                 loader>>

(* doneOut and startIn: the page to be shown takes the place of the other. *)
InPlace(from, to) == (shown \ {from}) \cup {to}

(* A page that was loaded is removed when it is hidden (_bindPageRemove).  *)
Removed(from, to) == dom \ ({from} \cap Remote)

FollowsHash(request) == request.fromHash

(* changePage with another page: the hash is set unless the change follows *)
(* one, and the transition begins, with an animation or without.           *)
ChangePage ==
  /\ call # None /\ ~IsLocked /\ call.found /\ call.url # activePage
  /\ IF FollowsHash(call) THEN UNCHANGED <<browser, history, flags, told>>
     ELSE Go(call.url, TRUE)
  /\ activePage' = call.url
  /\ message' = None
  /\ \/ /\ isPageTransitioning' = TRUE /\ call' = None
        /\ activePage # None
        /\ transition' = [from |-> activePage, to |-> call.url, stage |-> "out"]
        /\ UNCHANGED <<dom, shown, pageTransitionQueue>>
     \/ /\ shown' = InPlace(activePage, call.url)
        /\ dom' = Removed(activePage, call.url)
        /\ Release /\ UNCHANGED transition
  /\ UNCHANGED <<moves, loading, held, timers, loadMsgDelay, strayDelays, hides>>

OutDone ==
  /\ call = None /\ transition # None /\ transition.stage = "out"
  /\ shown' = InPlace(transition.from, transition.to)
  /\ transition' = [transition EXCEPT !.stage = "in"]
  /\ UNCHANGED <<navigation, dom, activePage, lock, loading, held, timers, loader>>

(* doneIn, pagehide, pageshow, and the end of changePage.                  *)
InDone ==
  /\ call = None /\ transition # None /\ transition.stage = "in"
  /\ dom' = Removed(transition.from, transition.to)
  /\ transition' = None
  /\ Release
  /\ UNCHANGED <<navigation, activePage, shown, loading, held, timers, loader>>

-----------------------------------------------------------------------------
Idle == ~isPageTransitioning /\ timers = <<>>
UserActs == call = None /\ activePage # None /\ (Calm => Idle)

(* External: a link is followed, or the program changes the page.          *)
Follow ==
  /\ UserActs /\ Moved
  /\ \E url \in Urls : call' = Request(url, FALSE, FALSE)
  /\ UNCHANGED <<browser, history, flags, told, pages, isPageTransitioning,
                 pageTransitionQueue, loading, held, transition, timers, loader>>

(* The popstate handler of the navigate event sets a timer of its own.     *)
Back ==
  /\ UserActs
  /\ Traverse \/ Assign
  /\ timers' = Append(timers, told'.url)
  /\ UNCHANGED <<pages, lock, loading, held, transition, loader>>

(* The navigate event, _handleHashChange.                                  *)
NavigateEvent ==
  /\ call = None /\ timers # <<>>
  /\ call' = Request(Head(timers), FALSE, TRUE)
  /\ timers' = Tail(timers)
  /\ UNCHANGED <<navigation, pages, isPageTransitioning, pageTransitionQueue, loading, held,
                 transition, loader>>

ShowMessage ==
  /\ call = None
  /\ \/ loadMsgDelay /\ loadMsgDelay' = FALSE /\ UNCHANGED strayDelays
     \/ strayDelays > 0 /\ strayDelays' = strayDelays - 1 /\ UNCHANGED loadMsgDelay
  /\ message' = "loading"
  /\ UNCHANGED <<navigation, pages, lock, loading, held, transition, timers, hides>>

HideMessage ==
  /\ call = None /\ hides > 0
  /\ message' = None /\ hides' = hides - 1
  /\ UNCHANGED <<navigation, pages, lock, loading, held, transition, timers, loadMsgDelay,
                 strayDelays>>

Turn == Queue \/ Prevented \/ LoadPage \/ SamePage \/ ChangePage
Answer == Loaded \/ LoadFails

PagesNext ==
  Turn \/ Answer \/ ListenerSettles \/ OutDone \/ InDone \/ NavigateEvent \/ ShowMessage \/ HideMessage
  \/ Follow \/ Back

PagesSpec == PagesInit /\ [][PagesNext]_vars

(* The turn goes on, the server answers, listeners settle what they took,  *)
(* animations end, timers run out.                                         *)
FairSpec ==
  /\ PagesSpec
  /\ WF_vars(Turn) /\ WF_vars(Answer) /\ WF_vars(ListenerSettles)
  /\ WF_vars(OutDone) /\ WF_vars(InDone)
  /\ WF_vars(NavigateEvent) /\ WF_vars(ShowMessage) /\ WF_vars(HideMessage)

-----------------------------------------------------------------------------
PagesTypeOK ==
  /\ TypeOK
  /\ dom \subseteq Urls /\ activePage \in Urls \cup {None} /\ shown \subseteq Urls
  /\ isPageTransitioning \in BOOLEAN /\ pageTransitionQueue \in Seq(Requests)
  /\ {call, loading, held} \subseteq Requests \cup {None}
  /\ transition = None \/ transition \in Transitions
  /\ timers \in Seq(Urls)
  /\ message \in {None, "loading", "error"} /\ loadMsgDelay \in BOOLEAN
  /\ strayDelays \in Nat /\ hides \in Nat

(* Between two changes just the active page is shown, however requests,    *)
(* answers and the back button fell into the changes before.               *)
OnePageShown == (activePage # None /\ transition = None) => shown = {activePage}

(* A page that is removed when it is hidden is not needed any more.        *)
ShownPagesExist == shown \cup ({activePage} \ {None}) \subseteq dom

(* The lock is held for one load, one request that a listener took over or *)
(* one transition, never for two of them and never for nothing.            *)
LockHasReason ==
  /\ loading = None \/ held = None
  /\ transition = None \/ (loading = None /\ held = None)
  /\ isPageTransitioning <=> (loading # None \/ held # None \/ transition # None)

(* No answer, animation or listener leaves the application locked, given   *)
(* that a listener settles the deferred it took over.                      *)
LockIsReleased == isPageTransitioning ~> ~isPageTransitioning

(* When the user waits for every change, the page that is shown is the one *)
(* the location names.                                                     *)
ShowsLocation == (call = None /\ Idle /\ activePage # None) => activePage = Location

(* The user waits for every change, nobody prevents one, and every page is *)
(* there or with the server.                                               *)
Certain == Calm /\ ListenersPrevent = {} /\ ~Fails /\ Urls \subseteq Embedded \cup Remote

(* Between changes one page is shown, the document has it, the lock is     *)
(* held for a reason, and what is shown is where a user who waits went.    *)
PagesFit ==
  /\ PagesTypeOK /\ OnePageShown /\ ShownPagesExist /\ LockHasReason
  /\ Certain => ShowsLocation

(* "Remove loading message.": a message goes away again, whatever became   *)
(* of the page it was shown for, unless a listener took over its failure   *)
(* or prevented the change that would have hidden it.                      *)
MessageGoes == (message # None) ~> (message = None)

=============================================================================
