------------------------------ MODULE Navigation ------------------------------
(***************************************************************************)
(* The navigation history of jQuery Mobile (the navigate event, History    *)
(* and Navigator in jquery.mobile-1.3.2.js), after initializePage.  The    *)
(* library keeps a stack of its own beside the history of the browser,     *)
(* which it cannot read, and follows it by the events of the browser.  A   *)
(* url stands for all its spellings (path.squash, Navigator.hash): the     *)
(* location, the hash and the entry a page has.  The browser is external:  *)
(* it moves and fires popstate in one go, hashchange some time later, and  *)
(* one that has no hashchange is polled.                                   *)
(***************************************************************************)
EXTENDS Integers, Sequences, FiniteSets, FiniteSetsExt

CONSTANTS
  Urls, Home,       (* Home is the url of the document, without a hash     *)
  Paths,            (* those that are paths, which popstate shows without  *)
                    (* a hash; the others are hashes                       *)
  None,
  Events,           (* what the browser has: "popstate", "hashchange" or   *)
                    (* "polled" (only the location)                        *)
  HashFires,        (* whether assigning location.hash fires popstate      *)
  LoadFires,        (* whether the load does: "never", "early" (before     *)
                    (* anything moves) or "late"                           *)
  Revisits,         (* whether a url is gone to that is in the history     *)
  Stays,            (* and silently to a hash that is the location's       *)
  MaxMoves          (* what the user and the program do                    *)

NavigationAssumption ==
  /\ Paths \subseteq Urls /\ Home \in Paths /\ MaxMoves \in Nat
  /\ None \notin Urls /\ None \notin {"back", "forward"}
  /\ Events \in {"popstate", "hashchange", "polled"}
  /\ HashFires \in BOOLEAN /\ Revisits \in BOOLEAN /\ Stays \in BOOLEAN
  /\ LoadFires \in {"never", "early", "late"}

VARIABLES
  entries, position,      (* the browser's history: urls with their state  *)
  due,                    (* hashchange events that are on their way       *)
  lastHash,               (* what polling saw last                         *)
  loads,                  (* the popstate of the load is still to come     *)
  stack, activeIndex,     (* of History, counted from 1                    *)
  preventNextHashChange, ignoreInitialHashChange,
  told,                   (* the url and direction of the last navigation  *)
  moves

browser == <<entries, position, due, lastHash, loads>>
history == <<stack, activeIndex>>
flags == <<preventNextHashChange, ignoreInitialHashChange>>
navigation == <<browser, history, flags, told, moves>>

Location == entries[position].url
PushState == Events = "popstate"

(* An event is still to come for what the browser did last.                *)
Due == IF Events = "polled" THEN lastHash # Location ELSE due > 0

Init ==
  /\ entries = <<[url |-> Home, state |-> Home]>> /\ position = 1
  /\ due = 0 /\ lastHash = Home /\ loads \in {FALSE, PushState /\ LoadFires # "never"}
  /\ stack = <<Home>> /\ activeIndex = 1
  /\ preventNextHashChange = FALSE /\ ignoreInitialHashChange = TRUE
  /\ told = [url |-> None, direction |-> None] /\ moves = 0

-----------------------------------------------------------------------------
(* The hash that go assigns differs from the one of the location.  With    *)
(* popstate a path does so although it is the location: it is assigned as  *)
(* a hash and then replaced (Navigator.hash, squash).                      *)
Differs(url) == url # Location \/ (PushState /\ url \in Paths)

(* External: assigning another location.hash drops what is ahead.          *)
Assigned(url, state) ==
  IF Differs(url) THEN Append(SubSeq(entries, 1, position), [url |-> url, state |-> state])
                  ELSE entries

Fired(url) == IF Differs(url) /\ Events = "hashchange" THEN due + 1 ELSE due

(* History.add, with clearForward.                                         *)
AddFaultyKeepsForward(url) ==
  /\ stack' = Append(stack, url)
  /\ activeIndex' = Len(stack')
Add(url) ==
  /\ stack' = Append(SubSeq(stack, 1, activeIndex), url)
  /\ activeIndex' = Len(stack')

(* History.closest: the nearest entry behind, then the nearest ahead; 0    *)
(* for undefined.                                                          *)
Closest(url) ==
  LET behind == {i \in 1..(activeIndex - 1) : stack[i] = url}
      ahead  == {i \in activeIndex..Len(stack) : stack[i] = url}
  IN  IF behind # {} THEN Max(behind) ELSE IF ahead # {} THEN Min(ahead) ELSE 0

(* History.direct.                                                         *)
DirectionFaultyLate(index) == None
Direction(index) ==
  IF index < activeIndex THEN "back" ELSE IF index > activeIndex THEN "forward" ELSE None

Found(url) ==
  /\ Closest(url) # 0
  /\ activeIndex' = Closest(url) /\ UNCHANGED stack
  /\ told' = [url |-> url, direction |-> Direction(Closest(url))]

(* Navigator.go, and $.mobile.navigate.  The popstate that the assignment  *)
(* fires is stopped (preventHashAssignPopState), the one go triggers is    *)
(* let through to the navigate event only (ignorePopState): neither flag   *)
(* outlives the call.  What is compared with the location's hash, without  *)
(* its "#", is the hash as it is assigned, with one unless it is a path:   *)
(* preventNextHashChange goes up also for a hash that is the location's.   *)
Prevents(url, noEvents) == noEvents /\ (url \notin Paths \/ Differs(url))

Go(url, noEvents) ==
  /\ position' = IF Differs(url) THEN position + 1 ELSE position
  /\ entries' = IF PushState THEN [Assigned(url, url) EXCEPT ![position'].state = url]
                ELSE Assigned(url, None)
  /\ due' = Fired(url)
  /\ preventNextHashChange' = (Prevents(url, noEvents) \/ preventNextHashChange)
  /\ Add(url)
  /\ told' = IF PushState /\ ~noEvents THEN [url |-> url, direction |-> None] ELSE told
  /\ UNCHANGED <<lastHash, loads, ignoreInitialHashChange>>

(* Navigator.popstate for the event of an entry with that state; where is  *)
(* the location when it comes, and hashed says whether that has a hash:    *)
(* without state and without hash direct looks for the empty url.          *)
SkipsInitial(state, where) ==
  state = None /\ Len(stack) = 1 /\ ignoreInitialHashChange /\ where = Home

Missed(state, where) == state = None \/ Closest(where) = 0

Popstate(state, where, hashed) ==
  /\ ignoreInitialHashChange' =
       (ignoreInitialHashChange /\ ~(state = None /\ Len(stack) = 1))
  /\ UNCHANGED preventNextHashChange
  /\ \/ SkipsInitial(state, where) /\ UNCHANGED <<history, told>>
     \/ /\ ~SkipsInitial(state, where) /\ state = None /\ hashed
        /\ Add(where) /\ told' = [url |-> where, direction |-> None]
     \/ /\ ~SkipsInitial(state, where) /\ (state # None \/ ~hashed)
        /\ \/ ~Missed(state, where) /\ Found(where)
           \/ /\ Missed(state, where) /\ UNCHANGED history
              /\ told' = [url |-> where, direction |-> None]

(* Navigator.hashchange; it looks at the location of its own time.         *)
Hashchange ==
  /\ ~PushState /\ Due
  /\ due' = IF Events = "hashchange" THEN due - 1 ELSE due
  /\ lastHash' = Location
  /\ \/ /\ preventNextHashChange /\ preventNextHashChange' = FALSE
        /\ UNCHANGED <<history, told>>
     \/ /\ ~preventNextHashChange /\ UNCHANGED preventNextHashChange
        /\ \/ Found(Location)
           \/ /\ Closest(Location) = 0 /\ Add(Location)
              /\ told' = [url |-> Location, direction |-> None]
  /\ UNCHANGED <<entries, position, loads, ignoreInitialHashChange, moves>>

-----------------------------------------------------------------------------
Moved == moves < MaxMoves /\ moves' = moves + 1

New(url) ==
  \/ Revisits /\ (PushState \/ url # Home)
  \/ /\ \A i \in 1..position : entries[i].url # url
     /\ \A i \in 1..activeIndex : stack[i] # url

(* A page is gone to by the program.                                       *)
Settled == LoadFires = "early" => ~loads

Navigate ==
  /\ Moved /\ Settled
  /\ \E url \in Urls, noEvents \in BOOLEAN :
       /\ New(url)
       /\ url \in Paths \/ url # Location \/ ~noEvents \/ Stays
       /\ Go(url, noEvents)

(* External: the user goes back or forward, by one entry or by several.    *)
Traverse ==
  /\ Moved
  /\ \E p \in DOMAIN entries \ {position} :
       /\ position' = p
       /\ IF PushState THEN Popstate(entries[p].state, entries[p].url, entries[p].url \notin Paths)
                       ELSE UNCHANGED <<history, flags, told>>
  /\ due' = IF Events = "hashchange" /\ entries[position'].url # Location THEN due + 1 ELSE due
  /\ UNCHANGED <<entries, lastHash, loads>>

(* External: the user or a script sets the hash without the library; in a  *)
(* browser that fires popstate squash adds the state.                      *)
Assign ==
  /\ PushState => HashFires
  /\ Moved /\ Settled
  /\ \E url \in Urls \ {Home, Location} :
       /\ New(url)
       /\ entries' = Assigned(url, IF PushState THEN url ELSE None)
       /\ due' = Fired(url)
       /\ IF PushState THEN Popstate(None, url, TRUE) ELSE UNCHANGED <<history, flags, told>>
  /\ position' = position + 1
  /\ UNCHANGED <<lastHash, loads>>

(* External: some browsers fire popstate after the load.                   *)
LoadEvent ==
  /\ loads /\ loads' = FALSE
  /\ Popstate(None, Location, Location \notin Paths)
  /\ UNCHANGED <<entries, position, due, lastHash, moves>>

Next == Navigate \/ Traverse \/ Assign \/ Hashchange \/ LoadEvent

Spec == Init /\ [][Next]_navigation

-----------------------------------------------------------------------------
TypeOK ==
  /\ entries \in Seq([url : Urls, state : Urls \cup {None}])
  /\ position \in 1..Len(entries)
  /\ due \in Nat /\ lastHash \in Urls /\ loads \in BOOLEAN
  /\ stack \in Seq(Urls) /\ activeIndex \in 1..Len(stack)
  /\ preventNextHashChange \in BOOLEAN /\ ignoreInitialHashChange \in BOOLEAN
  /\ told \in [url : Urls \cup {None}, direction : {"back", "forward", None}]
  /\ moves \in 0..MaxMoves

(* When every event was handled the active entry is the one the user looks *)
(* at, whatever was gone to, gone back from or typed while the events of   *)
(* earlier moves were still on their way.                                  *)
ActiveIsLocation == ~Due => stack[activeIndex] = Location

(* With popstate nothing is on its way: the stack is the browser's history *)
(* entry by entry, also what is ahead.                                     *)
StackIsBrowsers ==
  /\ activeIndex = position
  /\ stack = [i \in DOMAIN entries |-> entries[i].url]

(* Where the library cannot know which entry is meant: the user goes to a  *)
(* url that several entries have (closest prefers one behind); the program *)
(* goes to the hash that is shown, which the browser adds no entry for;    *)
(* and the event of the load comes late and is taken for a move.           *)
Misleads ==
  \/ Traverse /\ \E i \in DOMAIN entries \ {position'} : entries[i].url = Location'
  \/ Navigate /\ position' = position
  \/ LoadEvent

(* "record the directionality": while the stack is the browser's, a move   *)
(* back is reported as one back, forward is only said of a move forward,   *)
(* and is said of every one to a url that is not behind as well.  The      *)
(* stack stays the browser's through every step that does not mislead.     *)
DirectionIsTrue ==
  PushState /\ StackIsBrowsers =>
    /\ Traverse =>
         /\ position' < position => told'.direction = "back"
         /\ told'.direction = "forward" => position' > position
         /\ (position' > position /\ \A i \in 1..position : entries[i].url # Location')
               => told'.direction = "forward"
    /\ Misleads \/ StackIsBrowsers'

(* "In the case of hashchange we don't swallow it if there will be no      *)
(* hashchange fired (since that won't reset the value) and will swallow    *)
(* the following hashchange": the flag is only up while its event is due.  *)
FlagHasItsEvent == preventNextHashChange /\ ~PushState => Due

(* What of this holds with which browser: where the library is never       *)
(* misled, and where the program does not go silently to what is shown.    *)
Mirrors == PushState /\ ~Revisits /\ LoadFires # "late"

HistoryFollows ==
  /\ TypeOK
  /\ Mirrors => ActiveIsLocation /\ StackIsBrowsers
  /\ Events = "hashchange" /\ ~Stays => ActiveIsLocation /\ FlagHasItsEvent

=============================================================================
