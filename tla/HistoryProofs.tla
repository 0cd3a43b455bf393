----------------------------- MODULE HistoryProofs -----------------------------
(***************************************************************************)
(* Proofs about what TLC checks of the history, the changes of pages, the  *)
(* polling and the popups: the scenes of MCHistory, for any number of      *)
(* moves, from what MobileProofs proves of every instance of their modules.*)
(***************************************************************************)
EXTENDS MCHistory, TLAPS

(* What was proved for all constants, with those of a scene of each part.  *)
M1 == INSTANCE MobileProofs WITH
  Urls <- {"home", "a", "b", "c"}, Home <- "home", Events <- "popstate",
  Paths <- {"home", "c"}, HashFires <- TRUE, LoadFires <- "early", Revisits <- FALSE,
  Stays <- TRUE, MaxMoves <- Limit["mirror"],
  Embedded <- {"home"}, Remote <- {}, Foreign <- {},
  ListenersPrevent <- {}, Fails <- FALSE, Calm <- FALSE,
  Hashes <- {"h1", "h2"}, Frame <- FALSE, Reentrant <- FALSE, MaxChanges <- Limit["loop"],
  MaxBindings <- Bindings["loop"],
  Popups <- Two, Pages <- {"home", "list"}, PageOf <- Apart, Start <- "home",
  Keeps <- TRUE, Animated <- TRUE, UserMoves <- {"back", "forward"}, PopupsWait <- FALSE,
  PopupMoves <- Limit["users"]
M2 == INSTANCE MobileProofs WITH
  Urls <- {"home", "a", "b", "c"}, Home <- "home", Events <- "hashchange",
  Paths <- {"home", "c"}, HashFires <- TRUE, LoadFires <- "early", Revisits <- TRUE,
  Stays <- FALSE, MaxMoves <- Limit["late"],
  Embedded <- {"home"}, Remote <- {}, Foreign <- {},
  ListenersPrevent <- {}, Fails <- FALSE, Calm <- FALSE,
  Hashes <- {"h1", "h2"}, Frame <- FALSE, Reentrant <- TRUE, MaxChanges <- Limit["inside"],
  MaxBindings <- Bindings["inside"],
  Popups <- Two, Pages <- {"home"}, PageOf <- [p \in Two |-> "home"], Start <- "home",
  Keeps <- FALSE, Animated <- TRUE, UserMoves <- {"back"}, PopupsWait <- FALSE,
  PopupMoves <- Limit["no history"]
M3 == INSTANCE MobileProofs WITH
  Urls <- {"home", "r", "far"}, Home <- "home", Events <- "popstate",
  Paths <- {"home", "r", "far"}, HashFires <- TRUE, LoadFires <- "never", Revisits <- TRUE,
  Stays <- TRUE, MaxMoves <- Limit["busy"],
  Embedded <- {"home"}, Remote <- {"r"}, Foreign <- {"far"},
  ListenersPrevent <- Preventable, Fails <- TRUE, Calm <- FALSE,
  Hashes <- {"h1", "h2", "h3"}, Frame <- TRUE, Reentrant <- TRUE, MaxChanges <- Limit["framed"],
  MaxBindings <- Bindings["framed"],
  Popups <- Two, Pages <- {"home", "list"}, PageOf <- Apart, Start <- "home",
  Keeps <- TRUE, Animated <- FALSE, UserMoves <- {}, PopupsWait <- TRUE,
  PopupMoves <- Limit["links"]
M4 == INSTANCE MobileProofs WITH
  Urls <- {"home", "e", "r", "s"}, Home <- "home", Events <- "popstate",
  Paths <- {"home", "r", "s"}, HashFires <- TRUE, LoadFires <- "never", Revisits <- TRUE,
  Stays <- TRUE, MaxMoves <- Limit["calm"],
  Embedded <- {"home", "e"}, Remote <- {"r", "s"}, Foreign <- {},
  ListenersPrevent <- {}, Fails <- FALSE, Calm <- TRUE,
  Hashes <- {"h1", "h2"}, Frame <- FALSE, Reentrant <- FALSE, MaxChanges <- 0,
  MaxBindings <- 0,
  Popups <- {}, Pages <- {"home"}, PageOf <- [p \in {} |-> "home"], Start <- "home",
  Keeps <- FALSE, Animated <- TRUE, UserMoves <- {}, PopupsWait <- FALSE, PopupMoves <- 0
M5 == INSTANCE MobileProofs WITH
  Urls <- {"home", "a", "b", "c"}, Home <- "home", Events <- "popstate",
  Paths <- {"home", "c"}, HashFires <- TRUE, LoadFires <- "late", Revisits <- TRUE,
  Stays <- TRUE, MaxMoves <- Limit["again"],
  Embedded <- {"home"}, Remote <- {}, Foreign <- {},
  ListenersPrevent <- {}, Fails <- FALSE, Calm <- FALSE,
  Hashes <- {"h1", "h2"}, Frame <- FALSE, Reentrant <- FALSE, MaxChanges <- 0,
  MaxBindings <- 0,
  Popups <- {}, Pages <- {"home"}, PageOf <- [p \in {} |-> "home"], Start <- "home",
  Keeps <- FALSE, Animated <- TRUE, UserMoves <- {}, PopupsWait <- FALSE, PopupMoves <- 0

LEMMA MirrorIsProved ==
  /\ Mirror!NavigationAssumption <=> M1!NavigationAssumption
  /\ Mirror!Init <=> M1!Init
  /\ Mirror!Next <=> M1!Next
  /\ UNCHANGED Mirror!navigation <=> UNCHANGED M1!navigation
  /\ Mirror!HistoryFollows <=> M1!HistoryFollows
  /\ Mirror!DirectionIsTrue <=> M1!DirectionIsTrue
BY DEF Mirror!NavigationAssumption, M1!NavigationAssumption, Mirror!Init, M1!Init,
   Mirror!Next, M1!Next, Mirror!navigation, M1!navigation, Mirror!HistoryFollows,
   M1!HistoryFollows, Mirror!DirectionIsTrue, M1!DirectionIsTrue, Mirror!PushState,
   M1!PushState, Mirror!Navigate, M1!Navigate, Mirror!Traverse, M1!Traverse,
   Mirror!Assign, M1!Assign, Mirror!Hashchange, M1!Hashchange, Mirror!LoadEvent,
   M1!LoadEvent, Mirror!browser, M1!browser, Mirror!history, M1!history, Mirror!flags,
   M1!flags, Mirror!TypeOK, M1!TypeOK, Mirror!Mirrors, M1!Mirrors,
   Mirror!ActiveIsLocation, M1!ActiveIsLocation, Mirror!StackIsBrowsers,
   M1!StackIsBrowsers, Mirror!FlagHasItsEvent, M1!FlagHasItsEvent, Mirror!Location,
   M1!Location, Mirror!Misleads, M1!Misleads, Mirror!Moved, M1!Moved, Mirror!Settled,
   M1!Settled, Mirror!New, M1!New, Mirror!Go, M1!Go, Mirror!Popstate, M1!Popstate,
   Mirror!Assigned, M1!Assigned, Mirror!Fired, M1!Fired, Mirror!Due, M1!Due,
   Mirror!Found, M1!Found, Mirror!Closest, M1!Closest, Mirror!Add, M1!Add,
   Mirror!Differs, M1!Differs, Mirror!Prevents, M1!Prevents, Mirror!SkipsInitial,
   M1!SkipsInitial, Mirror!Missed, M1!Missed, Mirror!Direction, M1!Direction,
   Mirror!Max, M1!Max, Mirror!Min, M1!Min

LEMMA AgainIsProved ==
  /\ Again!NavigationAssumption <=> M5!NavigationAssumption
  /\ Again!Init <=> M5!Init
  /\ Again!Next <=> M5!Next
  /\ UNCHANGED Again!navigation <=> UNCHANGED M5!navigation
  /\ Again!HistoryFollows <=> M5!HistoryFollows
  /\ Again!DirectionIsTrue <=> M5!DirectionIsTrue
BY DEF Again!NavigationAssumption, M5!NavigationAssumption, Again!Init, M5!Init,
   Again!Next, M5!Next, Again!navigation, M5!navigation, Again!HistoryFollows,
   M5!HistoryFollows, Again!DirectionIsTrue, M5!DirectionIsTrue, Again!PushState,
   M5!PushState, Again!Navigate, M5!Navigate, Again!Traverse, M5!Traverse,
   Again!Assign, M5!Assign, Again!Hashchange, M5!Hashchange, Again!LoadEvent,
   M5!LoadEvent, Again!browser, M5!browser, Again!history, M5!history, Again!flags,
   M5!flags, Again!TypeOK, M5!TypeOK, Again!Mirrors, M5!Mirrors,
   Again!ActiveIsLocation, M5!ActiveIsLocation, Again!StackIsBrowsers,
   M5!StackIsBrowsers, Again!FlagHasItsEvent, M5!FlagHasItsEvent, Again!Location,
   M5!Location, Again!Misleads, M5!Misleads, Again!Moved, M5!Moved, Again!Settled,
   M5!Settled, Again!New, M5!New, Again!Go, M5!Go, Again!Popstate, M5!Popstate,
   Again!Assigned, M5!Assigned, Again!Fired, M5!Fired, Again!Due, M5!Due, Again!Found,
   M5!Found, Again!Closest, M5!Closest, Again!Add, M5!Add, Again!Differs, M5!Differs,
   Again!Prevents, M5!Prevents, Again!SkipsInitial, M5!SkipsInitial, Again!Missed,
   M5!Missed, Again!Direction, M5!Direction, Again!Max, M5!Max, Again!Min, M5!Min

LEMMA LateIsProved ==
  /\ Late!NavigationAssumption <=> M2!NavigationAssumption
  /\ Late!Init <=> M2!Init
  /\ Late!Next <=> M2!Next
  /\ UNCHANGED Late!navigation <=> UNCHANGED M2!navigation
  /\ Late!HistoryFollows <=> M2!HistoryFollows
BY DEF Late!NavigationAssumption, M2!NavigationAssumption, Late!Init, M2!Init, Late!Next,
   M2!Next, Late!navigation, M2!navigation, Late!HistoryFollows, M2!HistoryFollows,
   Late!PushState, M2!PushState, Late!Navigate, M2!Navigate, Late!Traverse,
   M2!Traverse, Late!Assign, M2!Assign, Late!Hashchange, M2!Hashchange,
   Late!LoadEvent, M2!LoadEvent, Late!browser, M2!browser, Late!history, M2!history,
   Late!flags, M2!flags, Late!TypeOK, M2!TypeOK, Late!Mirrors, M2!Mirrors,
   Late!ActiveIsLocation, M2!ActiveIsLocation, Late!StackIsBrowsers,
   M2!StackIsBrowsers, Late!FlagHasItsEvent, M2!FlagHasItsEvent, Late!Moved, M2!Moved,
   Late!Settled, M2!Settled, Late!New, M2!New, Late!Location, M2!Location, Late!Go,
   M2!Go, Late!Popstate, M2!Popstate, Late!Assigned, M2!Assigned, Late!Fired,
   M2!Fired, Late!Due, M2!Due, Late!Found, M2!Found, Late!Closest, M2!Closest,
   Late!Add, M2!Add, Late!Differs, M2!Differs, Late!Prevents, M2!Prevents,
   Late!SkipsInitial, M2!SkipsInitial, Late!Missed, M2!Missed, Late!Direction,
   M2!Direction, Late!Max, M2!Max, Late!Min, M2!Min

LEMMA BusyIsProved ==
  /\ Busy!PagesAssumption <=> M3!PagesAssumption
  /\ Busy!PagesInit <=> M3!PagesInit
  /\ Busy!PagesNext <=> M3!PagesNext
  /\ UNCHANGED Busy!vars <=> UNCHANGED M3!vars
  /\ Busy!PagesFit <=> M3!PagesFit
BY DEF Busy!PagesAssumption, M3!PagesAssumption, Busy!PagesInit, M3!PagesInit,
   Busy!PagesNext, M3!PagesNext, Busy!vars, M3!vars, Busy!PagesFit, M3!PagesFit,
   Busy!NavigationAssumption, M3!NavigationAssumption, Busy!Requests, M3!Requests,
   Busy!Transitions, M3!Transitions, Busy!Init, M3!Init, Busy!InitializePage,
   M3!InitializePage, Busy!Turn, M3!Turn, Busy!Answer, M3!Answer,
   Busy!ListenerSettles, M3!ListenerSettles, Busy!OutDone, M3!OutDone, Busy!InDone,
   M3!InDone, Busy!NavigateEvent, M3!NavigateEvent, Busy!ShowMessage, M3!ShowMessage,
   Busy!HideMessage, M3!HideMessage, Busy!Follow, M3!Follow, Busy!Back, M3!Back,
   Busy!navigation, M3!navigation, Busy!pages, M3!pages, Busy!lock, M3!lock,
   Busy!loader, M3!loader, Busy!PagesTypeOK, M3!PagesTypeOK, Busy!OnePageShown,
   M3!OnePageShown, Busy!ShownPagesExist, M3!ShownPagesExist, Busy!LockHasReason,
   M3!LockHasReason, Busy!Certain, M3!Certain, Busy!ShowsLocation, M3!ShowsLocation,
   Busy!PushState, M3!PushState, Busy!Request, M3!Request, Busy!Queue, M3!Queue,
   Busy!Prevented, M3!Prevented, Busy!LoadPage, M3!LoadPage, Busy!SamePage,
   M3!SamePage, Busy!ChangePage, M3!ChangePage, Busy!Loaded, M3!Loaded,
   Busy!LoadFails, M3!LoadFails, Busy!Resolved, M3!Resolved, Busy!Release, M3!Release,
   Busy!InPlace, M3!InPlace, Busy!Removed, M3!Removed, Busy!UserActs, M3!UserActs,
   Busy!Moved, M3!Moved, Busy!browser, M3!browser, Busy!history, M3!history,
   Busy!flags, M3!flags, Busy!Traverse, M3!Traverse, Busy!Assign, M3!Assign,
   Busy!TypeOK, M3!TypeOK, Busy!Idle, M3!Idle, Busy!Location, M3!Location,
   Busy!IsLocked, M3!IsLocked, Busy!Unlocked, M3!Unlocked, Busy!FollowsHash,
   M3!FollowsHash, Busy!Go, M3!Go, Busy!HideLater, M3!HideLater, Busy!Waiting,
   M3!Waiting, Busy!Popstate, M3!Popstate, Busy!Settled, M3!Settled, Busy!New, M3!New,
   Busy!Assigned, M3!Assigned, Busy!Fired, M3!Fired, Busy!Differs, M3!Differs,
   Busy!Prevents, M3!Prevents, Busy!Add, M3!Add, Busy!SkipsInitial, M3!SkipsInitial,
   Busy!Missed, M3!Missed, Busy!Found, M3!Found, Busy!Closest, M3!Closest,
   Busy!Direction, M3!Direction, Busy!Max, M3!Max, Busy!Min, M3!Min

LEMMA PatientIsProved ==
  /\ Patient!PagesAssumption <=> M4!PagesAssumption
  /\ Patient!PagesInit <=> M4!PagesInit
  /\ Patient!PagesNext <=> M4!PagesNext
  /\ UNCHANGED Patient!vars <=> UNCHANGED M4!vars
  /\ Patient!PagesFit <=> M4!PagesFit
BY DEF Patient!PagesAssumption, M4!PagesAssumption, Patient!PagesInit, M4!PagesInit,
   Patient!PagesNext, M4!PagesNext, Patient!vars, M4!vars, Patient!PagesFit,
   M4!PagesFit, Patient!NavigationAssumption, M4!NavigationAssumption,
   Patient!Requests, M4!Requests, Patient!Transitions, M4!Transitions, Patient!Init,
   M4!Init, Patient!InitializePage, M4!InitializePage, Patient!Turn, M4!Turn,
   Patient!Answer, M4!Answer, Patient!ListenerSettles, M4!ListenerSettles,
   Patient!OutDone, M4!OutDone, Patient!InDone, M4!InDone, Patient!NavigateEvent,
   M4!NavigateEvent, Patient!ShowMessage, M4!ShowMessage, Patient!HideMessage,
   M4!HideMessage, Patient!Follow, M4!Follow, Patient!Back, M4!Back,
   Patient!navigation, M4!navigation, Patient!pages, M4!pages, Patient!lock, M4!lock,
   Patient!loader, M4!loader, Patient!PagesTypeOK, M4!PagesTypeOK,
   Patient!OnePageShown, M4!OnePageShown, Patient!ShownPagesExist, M4!ShownPagesExist,
   Patient!LockHasReason, M4!LockHasReason, Patient!Certain, M4!Certain,
   Patient!ShowsLocation, M4!ShowsLocation, Patient!PushState, M4!PushState,
   Patient!Request, M4!Request, Patient!Queue, M4!Queue, Patient!Prevented,
   M4!Prevented, Patient!LoadPage, M4!LoadPage, Patient!SamePage, M4!SamePage,
   Patient!ChangePage, M4!ChangePage, Patient!Loaded, M4!Loaded, Patient!LoadFails,
   M4!LoadFails, Patient!Resolved, M4!Resolved, Patient!Release, M4!Release,
   Patient!InPlace, M4!InPlace, Patient!Removed, M4!Removed, Patient!UserActs,
   M4!UserActs, Patient!Moved, M4!Moved, Patient!browser, M4!browser, Patient!history,
   M4!history, Patient!flags, M4!flags, Patient!Traverse, M4!Traverse, Patient!Assign,
   M4!Assign, Patient!TypeOK, M4!TypeOK, Patient!Idle, M4!Idle, Patient!Location,
   M4!Location, Patient!IsLocked, M4!IsLocked, Patient!Unlocked, M4!Unlocked,
   Patient!FollowsHash, M4!FollowsHash, Patient!Go, M4!Go, Patient!HideLater,
   M4!HideLater, Patient!Waiting, M4!Waiting, Patient!Popstate, M4!Popstate,
   Patient!Settled, M4!Settled, Patient!New, M4!New, Patient!Assigned, M4!Assigned,
   Patient!Fired, M4!Fired, Patient!Differs, M4!Differs, Patient!Prevents,
   M4!Prevents, Patient!Add, M4!Add, Patient!SkipsInitial, M4!SkipsInitial,
   Patient!Missed, M4!Missed, Patient!Found, M4!Found, Patient!Closest, M4!Closest,
   Patient!Direction, M4!Direction, Patient!Max, M4!Max, Patient!Min, M4!Min

LEMMA LoopIsProved ==
  /\ Loop!HashPollAssumption <=> M1!HP!HashPollAssumption
  /\ Loop!Init <=> M1!HP!Init
  /\ Loop!Next <=> M1!HP!Next
  /\ UNCHANGED Loop!vars <=> UNCHANGED M1!HP!vars
  /\ Loop!OneLoopPolls <=> M1!HP!OneLoopPolls
BY DEF Loop!HashPollAssumption, M1!HP!HashPollAssumption, Loop!Init, M1!HP!Init,
   Loop!Next, M1!HP!Next, Loop!vars, M1!HP!vars, Loop!OneLoopPolls,
   M1!HP!OneLoopPolls, Loop!HandlersReturn, M1!HP!HandlersReturn, Loop!Bind,
   M1!HP!Bind, Loop!DOMReady, M1!HP!DOMReady, Loop!TimerRunsOut, M1!HP!TimerRunsOut,
   Loop!FrameLoads, M1!HP!FrameLoads, Loop!Change, M1!HP!Change, Loop!timers,
   M1!HP!timers, Loop!iframe, M1!HP!iframe, Loop!bounds, M1!HP!bounds, Loop!TypeOK,
   M1!HP!TypeOK, Loop!OneLoop, M1!HP!OneLoop, Loop!BoundIsPolled, M1!HP!BoundIsPolled,
   Loop!StopStops, M1!HP!StopStops, Loop!NoEntryTwice, M1!HP!NoEntryTwice,
   Loop!AfterHandlers, M1!HP!AfterHandlers, Loop!MayAct, M1!HP!MayAct, Loop!Call,
   M1!HP!Call, Loop!poll, M1!HP!poll, Loop!Seen, M1!HP!Seen, Loop!history_set,
   M1!HP!history_set, Loop!history_get, M1!HP!history_get, Loop!Follows,
   M1!HP!Follows, Loop!Armed, M1!HP!Armed, Loop!Quiet, M1!HP!Quiet, Loop!start,
   M1!HP!start, Loop!stop, M1!HP!stop, Loop!Writes, M1!HP!Writes, Loop!Behind,
   M1!HP!Behind, Loop!Starts, M1!HP!Starts, Loop!Cleared, M1!HP!Cleared

LEMMA InsideIsProved ==
  /\ Inside!HashPollAssumption <=> M2!HP!HashPollAssumption
  /\ Inside!Init <=> M2!HP!Init
  /\ Inside!Next <=> M2!HP!Next
  /\ UNCHANGED Inside!vars <=> UNCHANGED M2!HP!vars
  /\ Inside!OneLoopPolls <=> M2!HP!OneLoopPolls
BY DEF Inside!HashPollAssumption, M2!HP!HashPollAssumption, Inside!Init, M2!HP!Init,
   Inside!Next, M2!HP!Next, Inside!vars, M2!HP!vars, Inside!OneLoopPolls,
   M2!HP!OneLoopPolls, Inside!HandlersReturn, M2!HP!HandlersReturn, Inside!Bind,
   M2!HP!Bind, Inside!DOMReady, M2!HP!DOMReady, Inside!TimerRunsOut,
   M2!HP!TimerRunsOut, Inside!FrameLoads, M2!HP!FrameLoads, Inside!Change,
   M2!HP!Change, Inside!timers, M2!HP!timers, Inside!iframe, M2!HP!iframe,
   Inside!bounds, M2!HP!bounds, Inside!TypeOK, M2!HP!TypeOK, Inside!OneLoop,
   M2!HP!OneLoop, Inside!BoundIsPolled, M2!HP!BoundIsPolled, Inside!StopStops,
   M2!HP!StopStops, Inside!NoEntryTwice, M2!HP!NoEntryTwice, Inside!AfterHandlers,
   M2!HP!AfterHandlers, Inside!MayAct, M2!HP!MayAct, Inside!Call, M2!HP!Call,
   Inside!poll, M2!HP!poll, Inside!Seen, M2!HP!Seen, Inside!history_set,
   M2!HP!history_set, Inside!history_get, M2!HP!history_get, Inside!Follows,
   M2!HP!Follows, Inside!Armed, M2!HP!Armed, Inside!Quiet, M2!HP!Quiet, Inside!start,
   M2!HP!start, Inside!stop, M2!HP!stop, Inside!Writes, M2!HP!Writes, Inside!Behind,
   M2!HP!Behind, Inside!Starts, M2!HP!Starts, Inside!Cleared, M2!HP!Cleared

LEMMA FramedIsProved ==
  /\ Framed!HashPollAssumption <=> M3!HP!HashPollAssumption
  /\ Framed!Init <=> M3!HP!Init
  /\ Framed!Next <=> M3!HP!Next
  /\ UNCHANGED Framed!vars <=> UNCHANGED M3!HP!vars
  /\ Framed!OneLoopPolls <=> M3!HP!OneLoopPolls
BY DEF Framed!HashPollAssumption, M3!HP!HashPollAssumption, Framed!Init, M3!HP!Init,
   Framed!Next, M3!HP!Next, Framed!vars, M3!HP!vars, Framed!OneLoopPolls,
   M3!HP!OneLoopPolls, Framed!HandlersReturn, M3!HP!HandlersReturn, Framed!Bind,
   M3!HP!Bind, Framed!DOMReady, M3!HP!DOMReady, Framed!TimerRunsOut,
   M3!HP!TimerRunsOut, Framed!FrameLoads, M3!HP!FrameLoads, Framed!Change,
   M3!HP!Change, Framed!timers, M3!HP!timers, Framed!iframe, M3!HP!iframe,
   Framed!bounds, M3!HP!bounds, Framed!TypeOK, M3!HP!TypeOK, Framed!OneLoop,
   M3!HP!OneLoop, Framed!BoundIsPolled, M3!HP!BoundIsPolled, Framed!StopStops,
   M3!HP!StopStops, Framed!NoEntryTwice, M3!HP!NoEntryTwice, Framed!AfterHandlers,
   M3!HP!AfterHandlers, Framed!MayAct, M3!HP!MayAct, Framed!Call, M3!HP!Call,
   Framed!poll, M3!HP!poll, Framed!Seen, M3!HP!Seen, Framed!history_set,
   M3!HP!history_set, Framed!history_get, M3!HP!history_get, Framed!Follows,
   M3!HP!Follows, Framed!Armed, M3!HP!Armed, Framed!Quiet, M3!HP!Quiet, Framed!start,
   M3!HP!start, Framed!stop, M3!HP!stop, Framed!Writes, M3!HP!Writes, Framed!Behind,
   M3!HP!Behind, Framed!Starts, M3!HP!Starts, Framed!Cleared, M3!HP!Cleared

LEMMA UsersIsProved ==
  /\ Users!PopupAssumption <=> M1!P!PopupAssumption
  /\ Users!Init <=> M1!P!Init
  /\ Users!Next <=> M1!P!Next
  /\ UNCHANGED Users!vars <=> UNCHANGED M1!P!vars
  /\ Users!PopupsFit <=> M1!P!PopupsFit
  /\ Users!BackFromPopup <=> M1!P!BackFromPopup
BY DEF Users!PopupAssumption, M1!P!PopupAssumption, Users!Init, M1!P!Init, Users!Next,
   M1!P!Next, Users!vars, M1!P!vars, Users!PopupsFit, M1!P!PopupsFit,
   Users!BackFromPopup, M1!P!BackFromPopup, Users!Entry, M1!P!Entry, Users!Open,
   M1!P!Open, Users!Close, M1!P!Close, Users!AnimationEnds, M1!P!AnimationEnds,
   Users!Follow, M1!P!Follow, Users!User, M1!P!User, Users!Traverse, M1!P!Traverse,
   Users!NowhereToGo, M1!P!NowhereToGo, Users!NavigateEvent, M1!P!NavigateEvent,
   Users!browser, M1!P!browser, Users!TypeOK, M1!P!TypeOK, Users!OnlyActiveIsShown,
   M1!P!OnlyActiveIsShown, Users!OpenIsOnItsPage, M1!P!OpenIsOnItsPage,
   Users!ShownIsOnItsPage, M1!P!ShownIsOnItsPage, Users!Active, M1!P!Active,
   Users!Moved, M1!P!Moved, Users!MayOpen, M1!P!MayOpen, Users!Binds, M1!P!Binds,
   Users!LeftOpen, M1!P!LeftOpen, Users!Altered, M1!P!Altered, Users!Opens,
   M1!P!Opens, Users!HasHash, M1!P!HasHash, Users!Pushed, M1!P!Pushed,
   Users!ClosesByBack, M1!P!ClosesByBack, Users!ClosePopup, M1!P!ClosePopup,
   Users!Runs, M1!P!Runs, Users!PageBeforeChange, M1!P!PageBeforeChange, Users!Skips,
   M1!P!Skips, Users!Prevents, M1!P!Prevents, Users!Fields, M1!P!Fields, Users!Closes,
   M1!P!Closes, Users!Begins, M1!P!Begins, Users!Released, M1!P!Released,
   Users!Immediate, M1!P!Immediate, Users!Waits, M1!P!Waits

LEMMA NoHistoryIsProved ==
  /\ NoHistory!PopupAssumption <=> M2!P!PopupAssumption
  /\ NoHistory!Init <=> M2!P!Init
  /\ NoHistory!Next <=> M2!P!Next
  /\ UNCHANGED NoHistory!vars <=> UNCHANGED M2!P!vars
  /\ NoHistory!PopupsFit <=> M2!P!PopupsFit
BY DEF NoHistory!PopupAssumption, M2!P!PopupAssumption, NoHistory!Init, M2!P!Init,
   NoHistory!Next, M2!P!Next, NoHistory!vars, M2!P!vars, NoHistory!PopupsFit,
   M2!P!PopupsFit, NoHistory!Entry, M2!P!Entry, NoHistory!Open, M2!P!Open,
   NoHistory!Close, M2!P!Close, NoHistory!AnimationEnds, M2!P!AnimationEnds,
   NoHistory!Follow, M2!P!Follow, NoHistory!User, M2!P!User, NoHistory!Traverse,
   M2!P!Traverse, NoHistory!NowhereToGo, M2!P!NowhereToGo, NoHistory!NavigateEvent,
   M2!P!NavigateEvent, NoHistory!browser, M2!P!browser, NoHistory!TypeOK, M2!P!TypeOK,
   NoHistory!OnlyActiveIsShown, M2!P!OnlyActiveIsShown, NoHistory!OpenIsOnItsPage,
   M2!P!OpenIsOnItsPage, NoHistory!ShownIsOnItsPage, M2!P!ShownIsOnItsPage,
   NoHistory!Moved, M2!P!Moved, NoHistory!MayOpen, M2!P!MayOpen, NoHistory!Binds,
   M2!P!Binds, NoHistory!LeftOpen, M2!P!LeftOpen, NoHistory!Altered, M2!P!Altered,
   NoHistory!Opens, M2!P!Opens, NoHistory!HasHash, M2!P!HasHash, NoHistory!Pushed,
   M2!P!Pushed, NoHistory!Active, M2!P!Active, NoHistory!ClosesByBack,
   M2!P!ClosesByBack, NoHistory!ClosePopup, M2!P!ClosePopup, NoHistory!Runs,
   M2!P!Runs, NoHistory!PageBeforeChange, M2!P!PageBeforeChange, NoHistory!Skips,
   M2!P!Skips, NoHistory!Prevents, M2!P!Prevents, NoHistory!Fields, M2!P!Fields,
   NoHistory!Closes, M2!P!Closes, NoHistory!Begins, M2!P!Begins, NoHistory!Released,
   M2!P!Released, NoHistory!Immediate, M2!P!Immediate, NoHistory!Waits, M2!P!Waits

LEMMA LinksIsProved ==
  /\ Links!PopupAssumption <=> M3!P!PopupAssumption
  /\ Links!Init <=> M3!P!Init
  /\ Links!Next <=> M3!P!Next
  /\ UNCHANGED Links!vars <=> UNCHANGED M3!P!vars
  /\ Links!PopupsFit <=> M3!P!PopupsFit
  /\ Links!CloseKeepsPage <=> M3!P!CloseKeepsPage
BY DEF Links!PopupAssumption, M3!P!PopupAssumption, Links!Init, M3!P!Init, Links!Next,
   M3!P!Next, Links!vars, M3!P!vars, Links!PopupsFit, M3!P!PopupsFit,
   Links!CloseKeepsPage, M3!P!CloseKeepsPage, Links!Entry, M3!P!Entry, Links!Open,
   M3!P!Open, Links!Close, M3!P!Close, Links!AnimationEnds, M3!P!AnimationEnds,
   Links!Follow, M3!P!Follow, Links!User, M3!P!User, Links!Traverse, M3!P!Traverse,
   Links!NowhereToGo, M3!P!NowhereToGo, Links!NavigateEvent, M3!P!NavigateEvent,
   Links!browser, M3!P!browser, Links!TypeOK, M3!P!TypeOK, Links!OnlyActiveIsShown,
   M3!P!OnlyActiveIsShown, Links!OpenIsOnItsPage, M3!P!OpenIsOnItsPage,
   Links!ShownIsOnItsPage, M3!P!ShownIsOnItsPage, Links!Moved, M3!P!Moved,
   Links!MayOpen, M3!P!MayOpen, Links!Binds, M3!P!Binds, Links!LeftOpen,
   M3!P!LeftOpen, Links!Altered, M3!P!Altered, Links!Opens, M3!P!Opens, Links!HasHash,
   M3!P!HasHash, Links!Pushed, M3!P!Pushed, Links!Active, M3!P!Active,
   Links!ClosesByBack, M3!P!ClosesByBack, Links!ClosePopup, M3!P!ClosePopup,
   Links!Runs, M3!P!Runs, Links!PageBeforeChange, M3!P!PageBeforeChange, Links!Skips,
   M3!P!Skips, Links!Prevents, M3!P!Prevents, Links!Fields, M3!P!Fields, Links!Closes,
   M3!P!Closes, Links!Begins, M3!P!Begins, Links!Released, M3!P!Released,
   Links!Immediate, M3!P!Immediate, Links!Waits, M3!P!Waits

(* A behaviour stays in its scene, which starts and goes on as its module. *)
LEMMA ScenesStart ==
  ASSUME Init
  PROVE  /\ scene = "mirror" => Mirror!Init
         /\ scene = "again" => Again!Init
         /\ scene = "late" => Late!Init
         /\ scene = "busy" => Busy!PagesInit
         /\ scene = "calm" => Patient!PagesInit
         /\ scene = "loop" => Loop!Init
         /\ scene = "inside" => Inside!Init
         /\ scene = "framed" => Framed!Init
         /\ scene = "users" => Users!Init
         /\ scene = "no history" => NoHistory!Init
         /\ scene = "links" => Links!Init
<1>1. Init => /\ scene = "mirror" => Mirror!Init
              /\ scene = "again" => Mirror!Init
              /\ scene = "late" => Late!Init
  BY DEF Init
<1>9. Mirror!Init <=> Again!Init
  BY DEF Mirror!Init, Again!Init, Mirror!PushState, Again!PushState
<1>2. Late!Init <=> Busy!Init
  BY DEF Late!Init, Busy!Init, Late!PushState, Busy!PushState
<1>3. Late!Init <=> Patient!Init
  BY DEF Late!Init, Patient!Init, Late!PushState, Patient!PushState
<1>4. Init => /\ scene = "busy" => Busy!PagesInit
              /\ scene = "calm" => Patient!PagesInit
  BY <1>2, <1>3 DEF Init, Busy!PagesInit, Patient!PagesInit
<1>5. Init => /\ scene = "loop" => Loop!Init
              /\ scene = "inside" => Inside!Init
              /\ scene = "framed" => Framed!Init
  BY DEF Init, Loop!Init, Inside!Init, Framed!Init
<1>6. Users!Init <=> Links!Init
  BY DEF Users!Init, Links!Init, Users!Entry, Links!Entry
<1>7. Closings!Init <=> NoHistory!Init
  BY DEF Closings!Init, NoHistory!Init, Closings!Entry, NoHistory!Entry
<1>8. Init => /\ scene = "users" => Users!Init
              /\ scene = "no history" => NoHistory!Init
              /\ scene = "links" => Links!Init
  BY <1>6, <1>7 DEF Init
<1> QED
  BY <1>1, <1>4, <1>5, <1>8, <1>9

LEMMA ScenesStay == [Next]_all => scene' = scene
BY DEF Next, InHistory, InPages, InHash, InPopup, all

LEMMA ScenesGoOn ==
  ASSUME [Next]_all
  PROVE  /\ scene = "mirror" => [Mirror!Next]_(Mirror!navigation)
         /\ scene = "again" => [Again!Next]_(Again!navigation)
         /\ scene = "late" => [Late!Next]_(Late!navigation)
         /\ scene = "busy" => [Busy!PagesNext]_(Busy!vars)
         /\ scene = "calm" => [Patient!PagesNext]_(Patient!vars)
         /\ scene = "loop" => [Loop!Next]_(Loop!vars)
         /\ scene = "inside" => [Inside!Next]_(Inside!vars)
         /\ scene = "framed" => [Framed!Next]_(Framed!vars)
         /\ scene = "users" => [Users!Next]_(Users!vars)
         /\ scene = "no history" => [NoHistory!Next]_(NoHistory!vars)
         /\ scene = "links" => [Links!Next]_(Links!vars)
<1>1. CASE UNCHANGED all
  <2>1. UNCHANGED <<navigation, changing, polling, popups, moves>>
    BY <1>1 DEF all
  <2>2. UNCHANGED Mirror!navigation /\ UNCHANGED Again!navigation /\
        UNCHANGED Late!navigation
    BY <2>1 DEF navigation, Mirror!navigation, Again!navigation, Late!navigation, Mirror!browser,
       Again!browser, Late!browser, Mirror!history, Again!history, Late!history,
       Mirror!flags, Again!flags, Late!flags
  <2>3. UNCHANGED Busy!vars /\ UNCHANGED Patient!vars
    BY <2>1 DEF navigation, changing, Busy!vars, Patient!vars, Busy!navigation, Patient!navigation, Busy!pages,
       Patient!pages, Busy!lock, Patient!lock, Busy!loader, Patient!loader, Busy!browser,
       Patient!browser, Busy!history, Patient!history, Busy!flags, Patient!flags
  <2>4. UNCHANGED Loop!vars /\ UNCHANGED Inside!vars /\ UNCHANGED Framed!vars
    BY <2>1 DEF polling, Loop!vars, Inside!vars, Framed!vars, Loop!timers, Inside!timers, Framed!timers,
       Loop!iframe, Inside!iframe, Framed!iframe, Loop!bounds, Inside!bounds,
       Framed!bounds
  <2>5. UNCHANGED Users!vars /\ UNCHANGED NoHistory!vars /\ UNCHANGED Links!vars
    BY <2>1 DEF popups, Users!vars, NoHistory!vars, Links!vars, Users!browser, NoHistory!browser,
       Links!browser
  <2> QED
    BY <2>2, <2>3, <2>4, <2>5
<1>2. CASE Next
  BY <1>2 DEF Next, InHistory, InPages, InHash, InPopup
<1> QED
  BY <1>1, <1>2

LEMMA ScenesKeep ==
  Spec => [](/\ (scene = "mirror" => Mirror!HistoryFollows)
            /\ (scene = "again" => Again!HistoryFollows)
            /\ (scene = "late" => Late!HistoryFollows)
            /\ (scene = "busy" => Busy!PagesFit)
            /\ (scene = "calm" => Patient!PagesFit)
            /\ (scene = "loop" => Loop!OneLoopPolls)
            /\ (scene = "inside" => Inside!OneLoopPolls)
            /\ (scene = "framed" => Framed!OneLoopPolls)
            /\ (scene = "users" => Users!PopupsFit)
            /\ (scene = "no history" => NoHistory!PopupsFit)
            /\ (scene = "links" => Links!PopupsFit))
<1>1. Init => /\ (scene = "mirror" => M1!Init)
              /\ (scene = "again" => M5!Init)
              /\ (scene = "late" => M2!Init)
              /\ (scene = "busy" => M3!PagesInit)
              /\ (scene = "calm" => M4!PagesInit)
              /\ (scene = "loop" => M1!HP!Init)
              /\ (scene = "inside" => M2!HP!Init)
              /\ (scene = "framed" => M3!HP!Init)
              /\ (scene = "users" => M1!P!Init)
              /\ (scene = "no history" => M2!P!Init)
              /\ (scene = "links" => M3!P!Init)
  BY ScenesStart, MirrorIsProved, AgainIsProved, LateIsProved, BusyIsProved, PatientIsProved,
     LoopIsProved, InsideIsProved, FramedIsProved, UsersIsProved, NoHistoryIsProved,
     LinksIsProved
<1>2. [Next]_all => /\ (scene = "mirror" <=> (scene = "mirror")')
                    /\ (scene = "again" <=> (scene = "again")')
                    /\ (scene = "late" <=> (scene = "late")')
                    /\ (scene = "busy" <=> (scene = "busy")')
                    /\ (scene = "calm" <=> (scene = "calm")')
                    /\ (scene = "loop" <=> (scene = "loop")')
                    /\ (scene = "inside" <=> (scene = "inside")')
                    /\ (scene = "framed" <=> (scene = "framed")')
                    /\ (scene = "users" <=> (scene = "users")')
                    /\ (scene = "no history" <=> (scene = "no history")')
                    /\ (scene = "links" <=> (scene = "links")')
  BY ScenesStay
<1>3. [Next]_all => /\ (scene = "mirror" => [M1!Next]_(M1!navigation))
                    /\ (scene = "again" => [M5!Next]_(M5!navigation))
                    /\ (scene = "late" => [M2!Next]_(M2!navigation))
                    /\ (scene = "busy" => [M3!PagesNext]_(M3!vars))
                    /\ (scene = "calm" => [M4!PagesNext]_(M4!vars))
                    /\ (scene = "loop" => [M1!HP!Next]_(M1!HP!vars))
                    /\ (scene = "inside" => [M2!HP!Next]_(M2!HP!vars))
                    /\ (scene = "framed" => [M3!HP!Next]_(M3!HP!vars))
                    /\ (scene = "users" => [M1!P!Next]_(M1!P!vars))
                    /\ (scene = "no history" => [M2!P!Next]_(M2!P!vars))
                    /\ (scene = "links" => [M3!P!Next]_(M3!P!vars))
  BY ScenesGoOn, MirrorIsProved, AgainIsProved, LateIsProved, BusyIsProved, PatientIsProved,
     LoopIsProved, InsideIsProved, FramedIsProved, UsersIsProved, NoHistoryIsProved,
     LinksIsProved
<1>4. M1!Spec => []M1!HistoryFollows
  BY M1!FollowsBrowser, MirrorIsProved, ScenesAssumption
<1>5. M5!Spec => []M5!HistoryFollows
  BY M5!FollowsBrowser, AgainIsProved, ScenesAssumption
<1>6. M2!Spec => []M2!HistoryFollows
  BY M2!FollowsBrowser, LateIsProved, ScenesAssumption
<1>7. M3!PagesSpec => []M3!PagesFit
  BY M3!PagesAreShown, BusyIsProved, ScenesAssumption
<1>8. M4!PagesSpec => []M4!PagesFit
  BY M4!PagesAreShown, PatientIsProved, ScenesAssumption
<1>9. M1!HP!Spec => []M1!HP!OneLoopPolls
  BY M1!OneLoopIsEnough, LoopIsProved, ScenesAssumption
<1>10. M2!HP!Spec => []M2!HP!OneLoopPolls
  BY M2!OneLoopIsEnough, InsideIsProved, ScenesAssumption
<1>11. M3!HP!Spec => []M3!HP!OneLoopPolls
  BY M3!OneLoopIsEnough, FramedIsProved, ScenesAssumption
<1>12. M1!P!Spec => []M1!P!PopupsFit
  BY M1!PopupsAreWhereTheyFit, UsersIsProved, ScenesAssumption
<1>13. M2!P!Spec => []M2!P!PopupsFit
  BY M2!PopupsAreWhereTheyFit, NoHistoryIsProved, ScenesAssumption
<1>14. M3!P!Spec => []M3!P!PopupsFit
  BY M3!PopupsAreWhereTheyFit, LinksIsProved, ScenesAssumption
<1>15. /\ (M1!HistoryFollows <=> Mirror!HistoryFollows)
       /\ (M5!HistoryFollows <=> Again!HistoryFollows)
       /\ (M2!HistoryFollows <=> Late!HistoryFollows)
       /\ (M3!PagesFit <=> Busy!PagesFit)
       /\ (M4!PagesFit <=> Patient!PagesFit)
       /\ (M1!HP!OneLoopPolls <=> Loop!OneLoopPolls)
       /\ (M2!HP!OneLoopPolls <=> Inside!OneLoopPolls)
       /\ (M3!HP!OneLoopPolls <=> Framed!OneLoopPolls)
       /\ (M1!P!PopupsFit <=> Users!PopupsFit)
       /\ (M2!P!PopupsFit <=> NoHistory!PopupsFit)
       /\ (M3!P!PopupsFit <=> Links!PopupsFit)
  BY MirrorIsProved, AgainIsProved, LateIsProved, BusyIsProved, PatientIsProved,
     LoopIsProved, InsideIsProved, FramedIsProved, UsersIsProved, NoHistoryIsProved,
     LinksIsProved
<1> QED
  BY <1>1, <1>2, <1>3, <1>4, <1>5, <1>6, <1>7, <1>8, <1>9, <1>10, <1>11, <1>12, <1>13, <1>14, <1>15,
     PTL DEF Spec, M1!Spec, M5!Spec, M2!Spec, M3!PagesSpec, M4!PagesSpec, M1!HP!Spec, M2!HP!Spec,
     M3!HP!Spec, M1!P!Spec, M2!P!Spec, M3!P!Spec

(* The stack of pages follows the history of the browser, whatever moves   *)
(* the user and the application make.                                      *)
THEOREM Follows == Spec => []HistoryFollows
BY ScenesKeep, PTL DEF HistoryFollows

(* Between two changes just the active page is shown, and the lock is held *)
(* for a load, a request that a listener took over or a transition; when   *)
(* the user waits, the page is that of the location.                       *)
THEOREM Shown == Spec => []PagesFit
BY ScenesKeep, PTL DEF PagesFit

(* One loop polls while a handler is bound and none without.               *)
THEOREM OneLoop == Spec => []OneLoopPolls
BY ScenesKeep, PTL DEF OneLoopPolls

(* One popup is to be seen at most, on the page that is shown.             *)
THEOREM Fits == Spec => []PopupsFit
BY ScenesKeep, PTL DEF PopupsFit

(* No step tells of a move in the wrong direction but where the library is *)
(* misled, none goes back from a popup past the page it is on, and where   *)
(* popups close at once and links wait none leaves a page by opening or    *)
(* closing one.                                                            *)
THEOREM Moves == Spec => MovesAreTrue
<1>1. Init => /\ (scene = "mirror" => M1!Init)
              /\ (scene = "again" => M5!Init)
              /\ (scene = "users" => M1!P!Init)
              /\ (scene = "links" => M3!P!Init)
  BY ScenesStart, MirrorIsProved, AgainIsProved, UsersIsProved, LinksIsProved
<1>2. [Next]_all => /\ (scene = "mirror" <=> (scene = "mirror")')
                    /\ (scene = "again" <=> (scene = "again")')
                    /\ (scene = "users" <=> (scene = "users")')
                    /\ (scene = "links" <=> (scene = "links")')
  BY ScenesStay
<1>3. [Next]_all => /\ (scene = "mirror" => [M1!Next]_(M1!navigation))
                    /\ (scene = "again" => [M5!Next]_(M5!navigation))
                    /\ (scene = "users" => [M1!P!Next]_(M1!P!vars))
                    /\ (scene = "links" => [M3!P!Next]_(M3!P!vars))
  BY ScenesGoOn, MirrorIsProved, AgainIsProved, UsersIsProved, LinksIsProved
<1>4. M1!Spec => [][M1!DirectionIsTrue]_(M1!navigation)
  <2>1. M1!PushState
    BY DEF M1!PushState
  <2> QED
    BY <2>1, M1!MovesAreTold, MirrorIsProved, ScenesAssumption
<1>5. M5!Spec => [][M5!DirectionIsTrue]_(M5!navigation)
  <2>1. M5!PushState
    BY DEF M5!PushState
  <2> QED
    BY <2>1, M5!MovesAreTold, AgainIsProved, ScenesAssumption
<1>6. M1!P!Spec => [][M1!P!BackFromPopup]_(M1!P!vars)
  BY M1!BackComesToThePage, UsersIsProved, ScenesAssumption
<1>7. M3!P!Spec => [][M3!P!CloseKeepsPage]_(M3!P!vars)
  <2>1. M3!Quietly
    BY DEF M3!Quietly, Two, Apart
  <2> QED
    BY <2>1, M3!ClosingKeepsPage, LinksIsProved, ScenesAssumption
<1>8. [Next]_all =>
        /\ (scene = "mirror" /\ [M1!DirectionIsTrue]_(M1!navigation))
             => [scene = "mirror" => Mirror!DirectionIsTrue]_all
        /\ (scene = "again" /\ [M5!DirectionIsTrue]_(M5!navigation))
             => [scene = "again" => Again!DirectionIsTrue]_all
        /\ (scene = "users" /\ [M1!P!BackFromPopup]_(M1!P!vars))
             => [scene = "users" => Users!BackFromPopup]_all
        /\ (scene = "links" /\ [M3!P!CloseKeepsPage]_(M3!P!vars))
             => [scene = "links" => Links!CloseKeepsPage]_all
  <2>1. SUFFICES ASSUME [Next]_all, ~UNCHANGED all
                 PROVE  /\ scene = "mirror" /\ [M1!DirectionIsTrue]_(M1!navigation)
                              => Mirror!DirectionIsTrue
                        /\ scene = "again" /\ [M5!DirectionIsTrue]_(M5!navigation)
                              => Again!DirectionIsTrue
                        /\ scene = "users" /\ [M1!P!BackFromPopup]_(M1!P!vars)
                              => Users!BackFromPopup
                        /\ scene = "links" /\ [M3!P!CloseKeepsPage]_(M3!P!vars)
                              => Links!CloseKeepsPage
    OBVIOUS
  <2>2. Next
    BY <2>1
  <2>3. ASSUME scene = "mirror" PROVE ~UNCHANGED Mirror!navigation
    BY <2>1, <2>2, <2>3 DEF Next, InHistory, InPages, InHash, InPopup, all, navigation,
       Mirror!navigation, Mirror!browser, Mirror!history, Mirror!flags
  <2>4. ASSUME scene = "again" PROVE ~UNCHANGED Again!navigation
    BY <2>1, <2>2, <2>4 DEF Next, InHistory, InPages, InHash, InPopup, all, navigation,
       Again!navigation, Again!browser, Again!history, Again!flags
  <2>5. ASSUME scene = "users" PROVE ~UNCHANGED Users!vars
    BY <2>1, <2>2, <2>5 DEF Next, InHistory, InPages, InHash, InPopup, all, popups,
       Users!vars, Users!browser
  <2>6. ASSUME scene = "links" PROVE ~UNCHANGED Links!vars
    BY <2>1, <2>2, <2>6 DEF Next, InHistory, InPages, InHash, InPopup, all, popups,
       Links!vars, Links!browser
  <2> QED
    BY <2>3, <2>4, <2>5, <2>6, MirrorIsProved, AgainIsProved, UsersIsProved, LinksIsProved
<1> QED
  BY <1>1, <1>2, <1>3, <1>4, <1>5, <1>6, <1>7, <1>8,
     PTL DEF Spec, MovesAreTrue, M1!P!Spec, M1!Spec, M3!P!Spec, M5!Spec

================================================================================
