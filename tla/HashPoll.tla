------------------------------- MODULE HashPoll -------------------------------
(***************************************************************************)
(* The hashchange event for browsers that have none (fake_onhashchange of  *)
(* jquery.mobile-1.3.2.js): a loop of timers compares the hash of the      *)
(* location with the last one, and a hidden frame, where the browser needs *)
(* it, keeps the history.  Handlers run inside poll; depth counts the      *)
(* activations of poll whose handlers still run.  The location, the frame  *)
(* and the user are external.                                              *)
(***************************************************************************)
EXTENDS Integers, Sequences

CONSTANTS
  Hashes,
  Frame,          (* whether the browser needs the frame                   *)
  Reentrant,      (* whether handlers bind, unbind and set the hash        *)
  MaxChanges,     (* of the location, by the user or a script              *)
  MaxBindings     (* calls of bind and unbind                              *)

HashPollAssumption ==
  /\ Hashes # {} /\ Frame \in BOOLEAN /\ Reentrant \in BOOLEAN
  /\ MaxChanges \in Nat /\ MaxBindings \in Nat

VARIABLES
  hash,           (* of the location                                       *)
  last_hash,
  bound,          (* whether the window has a handler of hashchange        *)
  ready,          (* the DOM is                                            *)
  whenReady,      (* start and stop, called before that                    *)
  timeout_id,     (* "undefined", of a timer that is "set", or of none     *)
  otherTimers,    (* timers set on poll that timeout_id does not name      *)
  depth,
  frame,          (* "none", "loading" or "loaded"                         *)
  entries, position,  (* its history                                       *)
  changes, bindings

timers == <<timeout_id, otherTimers>>
iframe == <<frame, entries, position>>
bounds == <<changes, bindings>>
vars == <<hash, last_hash, bound, ready, whenReady, timers, depth, iframe, bounds>>

Init ==
  /\ hash \in Hashes /\ last_hash = hash
  /\ bound = FALSE /\ ready = FALSE /\ whenReady = <<>>
  /\ timeout_id = "undefined" /\ otherTimers = 0 /\ depth = 0
  /\ frame = "none" /\ entries = <<>> /\ position = 0
  /\ changes = 0 /\ bindings = 0

-----------------------------------------------------------------------------
(* timeout_id = setTimeout(poll).                                          *)
Armed(id) == timeout_id' = "set" /\ otherTimers' = otherTimers + (IF id = "set" THEN 1 ELSE 0)

history_get == IF Frame THEN entries[position] ELSE last_hash

(* history_set: writing to the frame adds an entry.                        *)
Writes(history_hash) == hash # history_hash

Behind == SubSeq(entries, 1, position)

history_set(history_hash) ==
  IF Frame /\ Writes(history_hash)
  THEN /\ entries' = Append(Behind, hash)
       /\ position' = position + 1
  ELSE UNCHANGED <<entries, position>>

(* poll, up to the handlers it triggers if it sees another hash; with id,  *)
(* the value of timeout_id, as it is by then.                              *)
Seen == last_hash' = hash /\ depth' = depth + 1

Follows == history_get

poll(id) ==
  \/ /\ hash # last_hash
     /\ Seen /\ history_set(history_get)
     /\ timeout_id' = id /\ UNCHANGED <<hash, otherTimers>>
  \/ /\ hash = last_hash
     /\ hash' = Follows
     /\ Armed(id)
     /\ UNCHANGED <<last_hash, depth, entries, position>>

AfterHandlersFaultyNever == UNCHANGED timers
AfterHandlers == Armed(timeout_id)

(* The handlers of an activation return: whatever they did to the timers,  *)
(* poll sets its own.                                                      *)
HandlersReturn ==
  /\ depth > 0 /\ depth' = depth - 1
  /\ AfterHandlers
  /\ UNCHANGED <<hash, last_hash, bound, ready, whenReady, iframe, bounds>>

Starts == timeout_id = "undefined"

start ==
  \/ /\ ~Frame /\ Starts /\ poll(timeout_id) /\ UNCHANGED frame
  \/ /\ ~Frame /\ ~Starts
     /\ UNCHANGED <<hash, last_hash, timers, depth, iframe>>
  \/ /\ Frame /\ frame' = IF frame = "none" THEN "loading" ELSE frame
     /\ UNCHANGED <<hash, last_hash, timers, depth, entries, position>>

ClearedFaultyNever == timeout_id
Cleared == "undefined"

stop ==
  /\ timeout_id' = IF Frame THEN timeout_id ELSE Cleared
  /\ UNCHANGED <<hash, last_hash, otherTimers, depth, iframe>>

Call(step) == (step = "start" /\ start) \/ (step = "stop" /\ stop)

-----------------------------------------------------------------------------
MayAct == depth > 0 => Reentrant

(* setup and teardown: start and stop wait until the DOM is ready.         *)
Bind ==
  /\ MayAct /\ bindings < MaxBindings /\ bindings' = bindings + 1
  /\ bound' = ~bound
  /\ LET step == IF bound THEN "stop" ELSE "start"
     IN  \/ ready /\ Call(step) /\ UNCHANGED whenReady
         \/ /\ ~ready /\ whenReady' = Append(whenReady, step)
            /\ UNCHANGED <<hash, last_hash, timers, depth, iframe>>
  /\ UNCHANGED <<ready, changes>>

DOMReady ==
  /\ ~ready /\ depth = 0
  /\ \/ whenReady = <<>> /\ ready' = TRUE
        /\ UNCHANGED <<hash, last_hash, timers, depth, iframe, whenReady>>
     \/ /\ whenReady # <<>> /\ Call(Head(whenReady)) /\ whenReady' = Tail(whenReady)
        /\ UNCHANGED ready
  /\ UNCHANGED <<bound, bounds>>

(* A timer set on poll runs out; timeout_id keeps the number of its own.   *)
TimerRunsOut ==
  /\ depth = 0
  /\ \/ timeout_id = "set" /\ poll("over")
     \/ /\ otherTimers > 0
        /\ \/ /\ hash # last_hash /\ Seen /\ history_set(history_get)
              /\ otherTimers' = otherTimers - 1 /\ UNCHANGED <<hash, timeout_id>>
           \/ /\ hash = last_hash /\ hash' = Follows
              /\ timeout_id' = "set"
              /\ otherTimers' = IF timeout_id = "set" THEN otherTimers ELSE otherTimers - 1
              /\ UNCHANGED <<last_hash, depth, entries, position>>
  /\ UNCHANGED <<bound, ready, whenReady, frame, bounds>>

(* The load event of the frame.                                            *)
FrameLoads ==
  /\ frame = "loading" /\ frame' = "loaded" /\ depth = 0
  /\ entries' = <<hash>> /\ position' = 1
  /\ \/ /\ hash # last_hash /\ Seen /\ UNCHANGED timers
     \/ hash = last_hash /\ Armed(timeout_id) /\ UNCHANGED <<last_hash, depth>>
  /\ UNCHANGED <<hash, bound, ready, whenReady, bounds>>

(* External: the user or a script sets the hash; where there is a frame,   *)
(* the user goes back and forward in its history.                          *)
Change ==
  /\ MayAct /\ changes < MaxChanges /\ changes' = changes + 1
  /\ \/ hash' \in Hashes \ {hash} /\ UNCHANGED position
     \/ depth = 0 /\ position' \in DOMAIN entries \ {position} /\ UNCHANGED hash
  /\ UNCHANGED <<last_hash, bound, ready, whenReady, timers, depth, frame, entries, bindings>>

Next ==
  \/ HandlersReturn \/ Bind \/ DOMReady \/ TimerRunsOut \/ FrameLoads \/ Change

Spec == Init /\ [][Next]_vars

(* Handlers return, timers run out, the DOM and the frame get ready.       *)
FairSpec ==
  /\ Spec
  /\ WF_vars(HandlersReturn) /\ WF_vars(TimerRunsOut) /\ WF_vars(DOMReady)
  /\ WF_vars(FrameLoads)

-----------------------------------------------------------------------------
TypeOK ==
  /\ hash \in Hashes /\ last_hash \in Hashes
  /\ bound \in BOOLEAN /\ ready \in BOOLEAN
  /\ whenReady \in Seq({"start", "stop"})
  /\ timeout_id \in {"undefined", "set", "over"}
  /\ otherTimers \in Nat /\ depth \in Nat
  /\ frame \in {"none", "loading", "loaded"}
  /\ entries \in Seq(Hashes) /\ position \in 0..Len(entries)
  /\ changes \in 0..MaxChanges /\ bindings \in 0..MaxBindings

Quiet == ready /\ depth = 0 /\ frame # "loading"

(* A handler that is bound has a loop that polls for it, also when it was  *)
(* bound and unbound before the DOM was ready or from inside a handler.    *)
BoundIsPolled == Quiet /\ bound => timeout_id = "set"

(* "Stop the polling loop." (1381): without a handler no timer polls any   *)
(* more, and there is never a second loop.                                 *)
StopStops == ~Frame /\ Quiet => otherTimers = 0 /\ (~bound => timeout_id # "set")

(* Where handlers leave the event and the hash alone, or a frame keeps the *)
(* history, there is never a second loop, and poll never runs inside poll. *)
OneLoop == Frame \/ ~Reentrant => otherTimers = 0 /\ depth \in {0, 1}

(* A hash that stays is seen while a handler is bound.                     *)
ChangesAreSeen == bound ~> (~bound \/ hash = last_hash)

(* The history in the frame has no entry twice in a row: going back always *)
(* goes to another hash, also after changes that poll itself followed.     *)
NoEntryTwice == \A i \in 1..(Len(entries) - 1) : entries[i] # entries[i + 1]

(* What holds with which browser and which handlers.                       *)
OneLoopPolls ==
  /\ TypeOK /\ OneLoop
  /\ ~Frame => BoundIsPolled
  /\ ~Reentrant => StopStops
  /\ Frame => NoEntryTwice

(* The location, the history in the frame and the hash the handlers heard  *)
(* of come together once the user rests.                                   *)
ComesTogether ==
  <>[](frame = "loaded" => (hash = last_hash /\ entries[position] = hash))

=============================================================================
