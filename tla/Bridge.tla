-------------------------------- MODULE Bridge --------------------------------
(***************************************************************************)
(* The bridge between the page and the native side (cordova/exec and the   *)
(* callback table of cordova in cordova.js).  JavaScript has one thread,   *)
(* but its functions call each other back: stack holds the activations of  *)
(* the bridge and of the callbacks that wait for one another.  The native  *)
(* side is external: it answers calls whenever it likes, in an order of    *)
(* its own, and hands over what is queued when it is asked.                *)
(***************************************************************************)
EXTENDS Integers, Sequences, FiniteSets, SequencesExt

CONSTANTS
  MaxCalls,      (* calls of androidExec                                   *)
  MaxMessages,   (* messages of the native side                            *)
  ChunkSize,     (* messages the native side hands over at a time          *)
  MayReenter,    (* whether callbacks call androidExec                     *)
  Throwing,      (* the calls whose callbacks may throw                    *)
  MaxSwitches    (* calls of setNativeToJsBridgeMode                       *)

ASSUME BridgeAssumption ==
  /\ MaxCalls \in Nat /\ MaxMessages \in Nat /\ MaxSwitches \in Nat
  /\ ChunkSize \in Nat \ {0}
  /\ MayReenter \in BOOLEAN /\ Throwing \subseteq 1..MaxCalls

VARIABLES
  callbackId,    (* the last number given                                  *)
  callbacks,     (* the numbers with an entry in the table                 *)
  messagesFromNative, (* chunks that were handed over                      *)
  stack,         (* the activations, the running one last                  *)
  jsToNativeBridgeMode,
  nativeToJsBridgeMode, pollEnabled,
  polls,         (* timers set on pollOnce                                 *)
  pollers,       (* timers set on pollingTimerFunc                         *)
  handed,        (* calls the native side was handed                       *)
  queued,        (* messages that wait on the native side                  *)
  announced,     (* an online event is on its way to the page              *)
  sent,          (* how many it made                                       *)
  processed,     (* the number of the message processMessage had last      *)
  runs,          (* how often the callback of a call got its last result   *)
  switches

table == <<callbackId, callbacks>>
timers == <<nativeToJsBridgeMode, pollEnabled, polls, pollers, switches>>
native == <<handed, queued, announced, sent>>
vars == <<table, messagesFromNative, stack, jsToNativeBridgeMode, timers,
          native, processed, runs>>

Star == [n |-> 0, id |-> 0, kind |-> "star", keep |-> FALSE]
Ids == 1..MaxCalls
Kinds == {"ok", "no result", "error"}

Init ==
  /\ callbackId = 0 /\ callbacks = {} /\ messagesFromNative = <<>>
  /\ stack = <<>> /\ jsToNativeBridgeMode = "JS_OBJECT"
  /\ nativeToJsBridgeMode = "ONLINE_EVENT" /\ pollEnabled = FALSE
  /\ polls = 0 /\ pollers = 0 /\ switches = 0
  /\ handed = {} /\ queued = <<>> /\ announced = FALSE /\ sent = 0
  /\ processed = 0 /\ runs = [c \in Ids |-> 0]

Idle == stack = <<>>
Running(at) == ~Idle /\ Last(stack).at = at
Activation(at, id, keep) == [at |-> at, id |-> id, keep |-> keep]
Loop == Activation("processMessages", 0, FALSE)
Retry == Activation("retry", 0, FALSE)

-----------------------------------------------------------------------------
(* External: popAndEncode of the native queue.  What does not fit stays,   *)
(* and a star says so.                                                     *)
Encoded(q) ==
  IF Len(q) > ChunkSize THEN Append(SubSeq(q, 1, ChunkSize), Star) ELSE q
Remaining(q) == SubSeq(q, ChunkSize + 1, Len(q))

(* Whether processMessages only leaves its chunk to the loop below it.     *)
IsReentrantFaultyNever(chunks) == FALSE
IsReentrant(chunks) == Len(chunks) > 1

(* androidExec.processMessages, up to its loop: an empty answer is none.   *)

ProcessMessages(chunk, below) ==
  IF chunk = <<>> THEN /\ stack' = below /\ UNCHANGED messagesFromNative
  ELSE /\ messagesFromNative' = Append(messagesFromNative, chunk)
       /\ stack' = IF IsReentrant(messagesFromNative') THEN below
                   ELSE Append(below, Loop)

(* pollOnce: retrieveJsMessages and processMessages.                       *)
PollOnce ==
  /\ queued' = Remaining(queued)
  /\ ProcessMessages(Encoded(queued), stack)

(* External: the native side makes a message for a call it was handed.     *)
Message(id, kind, keep) == [n |-> sent + 1, id |-> id, kind |-> kind, keep |-> keep]

(* What is queued after the native side executed a call: perhaps an answer.*)
Answers(id) ==
  {<<>>} \cup
  {<<Message(id, kind, keep)>> : kind \in {k \in Kinds : sent < MaxMessages}, keep \in BOOLEAN}

(* androidExec, by an event of the page or by a callback.  A call has an   *)
(* entry when it names a callback.  The native side may answer at once or  *)
(* not, and hands over what is queued.                                     *)
MayCall ==
  /\ callbackId < MaxCalls
  /\ \/ Idle
     \/ MayReenter /\ Running("callback")

Exec(id, withCallback, below) ==
  /\ callbackId' = id
  /\ callbacks' = callbacks \cup {c \in {id} : withCallback}
  /\ handed' = handed \cup {id}
  /\ \E answer \in Answers(id) :
       /\ sent' = sent + Len(answer)
       /\ queued' = Remaining(queued \o answer)
       /\ ProcessMessages(Encoded(queued \o answer), below)

AndroidExec ==
  /\ MayCall
  /\ \E withCallback \in BOOLEAN : Exec(callbackId + 1, withCallback, stack)
  /\ UNCHANGED <<jsToNativeBridgeMode, timers, announced, processed, runs>>

(* "@Null arguments.": the call is made again, under another number, over  *)
(* prompt; the entry under the first number stays.                         *)
AndroidExecNullArguments ==
  /\ MayCall /\ callbackId + 1 < MaxCalls
  /\ jsToNativeBridgeMode = "JS_OBJECT"
  /\ jsToNativeBridgeMode' = "PROMPT"
  /\ callbackId' = callbackId + 1 /\ callbacks' = callbacks \cup {callbackId + 1}
  /\ stack' = Append(stack, Retry)
  /\ UNCHANGED <<messagesFromNative, timers, native, processed, runs>>

RetryCall ==
  /\ Running("retry")
  /\ Exec(callbackId + 1, TRUE, [stack EXCEPT ![Len(stack)].at = "restore"])
  /\ UNCHANGED <<jsToNativeBridgeMode, timers, announced, processed, runs>>

RetryRestore ==
  /\ Running("restore")
  /\ jsToNativeBridgeMode' = "JS_OBJECT" /\ stack' = Front(stack)
  /\ UNCHANGED <<table, messagesFromNative, timers, native, processed, runs>>

-----------------------------------------------------------------------------
(* The chunks after the first message of the first one is done with.       *)
Shifted(chunks) ==
  IF Len(Head(chunks)) > 1 THEN [chunks EXCEPT ![1] = Tail(@)] ELSE Tail(chunks)

(* The end of the loop of processMessages.                                 *)
Done == messagesFromNative = <<>>

LoopEnds ==
  /\ Running("processMessages") /\ Done
  /\ stack' = Front(stack)
  /\ UNCHANGED <<table, messagesFromNative, jsToNativeBridgeMode, timers, native,
                 processed, runs>>

(* A star: ask again later and return, whatever else waits.                *)
PolledFaultyNever == polls
Polled == polls + 1

LoopStar ==
  /\ Running("processMessages") /\ messagesFromNative # <<>>
  /\ Head(Head(messagesFromNative)) = Star
  /\ messagesFromNative' = Tail(messagesFromNative)
  /\ polls' = Polled /\ stack' = Front(stack)
  /\ UNCHANGED <<table, jsToNativeBridgeMode, nativeToJsBridgeMode, pollEnabled,
                 pollers, switches, native, processed, runs>>

(* processMessage and callbackFromNative: a result that asks for a handler *)
(* runs it, in an activation of its own; without a handler to run, the     *)
(* entry goes at once unless more results are expected.                    *)
RunsHandler(m) == m.id \in callbacks /\ m.kind # "no result"

LoopMessage ==
  /\ Running("processMessages") /\ messagesFromNative # <<>>
  /\ Head(Head(messagesFromNative)) # Star
  /\ LET m == Head(Head(messagesFromNative))
     IN  /\ processed' = m.n
         /\ IF RunsHandler(m)
            THEN /\ stack' = Append(stack, Activation("callback", m.id, m.keep))
                 /\ runs' = [runs EXCEPT ![m.id] = @ + (IF m.keep THEN 0 ELSE 1)]
                 /\ UNCHANGED <<callbacks, messagesFromNative>>
            ELSE /\ callbacks' = callbacks \ {c \in {m.id} : ~m.keep}
                 /\ messagesFromNative' = Shifted(messagesFromNative)
                 /\ UNCHANGED <<stack, runs>>
  /\ UNCHANGED <<callbackId, jsToNativeBridgeMode, timers, native>>

(* The handler returns, or throws into the catch of processMessage, which  *)
(* skips the clearing of the entry; the loop goes on.                      *)
ClearedFaultyNever(top) == callbacks
Cleared(top) == callbacks \ {c \in {top.id} : ~top.keep}

CallbackEnds ==
  /\ Running("callback")
  /\ \/ callbacks' = Cleared(Last(stack))
     \/ Last(stack).id \in Throwing /\ UNCHANGED callbacks
  /\ stack' = Front(stack) /\ messagesFromNative' = Shifted(messagesFromNative)
  /\ UNCHANGED <<callbackId, jsToNativeBridgeMode, timers, native, processed, runs>>

-----------------------------------------------------------------------------
(* setTimeout(pollOnce, 0) after a star.                                   *)
PollTimer ==
  /\ Idle /\ polls > 0 /\ polls' = polls - 1
  /\ PollOnce
  /\ UNCHANGED <<table, jsToNativeBridgeMode, nativeToJsBridgeMode, pollEnabled,
                 pollers, switches, handed, announced, sent, processed, runs>>

(* pollingTimerFunc: polls and sets itself again, or stops.                *)
PollingTimer ==
  /\ Idle /\ pollers > 0
  /\ \/ pollEnabled /\ PollOnce /\ UNCHANGED pollers
     \/ /\ ~pollEnabled /\ pollers' = pollers - 1
        /\ UNCHANGED <<messagesFromNative, stack, queued>>
  /\ UNCHANGED <<table, jsToNativeBridgeMode, nativeToJsBridgeMode, pollEnabled,
                 polls, switches, handed, announced, sent, processed, runs>>

(* The online or offline event by which the native side announces a message*)
(* when it is queued.                                                      *)
PollOnceFromOnlineEvent ==
  /\ Idle /\ nativeToJsBridgeMode = "ONLINE_EVENT"
  /\ announced /\ announced' = FALSE
  /\ PollOnce
  /\ UNCHANGED <<table, jsToNativeBridgeMode, timers, handed, sent, processed, runs>>

WithPoller == pollers + 1

(* setNativeToJsBridgeMode, by an event of the page.  The native side,     *)
(* which is told, announces what is queued.                                *)
SetNativeToJsBridgeMode ==
  /\ Idle /\ switches < MaxSwitches /\ switches' = switches + 1
  /\ \E mode \in {"POLLING", "ONLINE_EVENT"} :
       /\ mode # nativeToJsBridgeMode
       /\ nativeToJsBridgeMode' = mode
       /\ pollEnabled' = (mode = "POLLING")
       /\ pollers' = IF mode = "POLLING" THEN WithPoller ELSE pollers
  /\ announced' = (queued # <<>>)
  /\ UNCHANGED <<table, messagesFromNative, stack, jsToNativeBridgeMode, polls,
                 handed, queued, sent, processed, runs>>

(* External: the native side answers a call it was handed, perhaps again.  *)
NativeAnswer ==
  /\ sent < MaxMessages /\ sent' = sent + 1 /\ announced' = TRUE
  /\ \E id \in handed, kind \in Kinds, keep \in BOOLEAN :
       queued' = Append(queued, Message(id, kind, keep))
  /\ UNCHANGED <<table, messagesFromNative, stack, jsToNativeBridgeMode, timers,
                 handed, processed, runs>>

Run ==
  \/ RetryCall \/ RetryRestore
  \/ LoopEnds \/ LoopStar \/ LoopMessage \/ CallbackEnds

Next ==
  \/ Run \/ AndroidExec \/ AndroidExecNullArguments
  \/ PollTimer \/ PollingTimer \/ PollOnceFromOnlineEvent
  \/ SetNativeToJsBridgeMode \/ NativeAnswer

Spec == Init /\ [][Next]_vars

(* Activations end, timers fire, and messages are announced.               *)
FairSpec ==
  /\ Spec
  /\ WF_vars(Run) /\ WF_vars(PollTimer) /\ WF_vars(PollingTimer)
  /\ WF_vars(PollOnceFromOnlineEvent)

-----------------------------------------------------------------------------
CallbackRuns == \E i \in 1..Len(stack) : stack[i].at = "callback"

(* The messages that were not given to processMessage yet, by the places   *)
(* where they wait: in the chunks that were handed over, then in the queue *)
(* of the native side.  The first of messagesFromNative stays there while  *)
(* its callback runs.                                                      *)
Lines == Append(messagesFromNative, queued)
Waiting ==
  {p \in UNION {{k} \X (1..Len(Lines[k])) : k \in 1..Len(Lines)} :
     /\ Lines[p[1]][p[2]] # Star
     /\ CallbackRuns => p # <<1, 1>>}
Number(p) == Lines[p[1]][p[2]].n
Before(p, q) == p[1] < q[1] \/ (p[1] = q[1] /\ p[2] < q[2])

TypeOK ==
  /\ callbackId \in 0..MaxCalls /\ callbacks \subseteq 1..callbackId
  /\ \A i \in 1..Len(messagesFromNative) : messagesFromNative[i] # <<>>
  /\ \A i \in 1..Len(stack) :
       stack[i].at \in {"processMessages", "callback", "retry", "restore"}
  /\ jsToNativeBridgeMode \in {"JS_OBJECT", "PROMPT"}
  /\ nativeToJsBridgeMode \in {"ONLINE_EVENT", "POLLING"}
  /\ pollEnabled = (nativeToJsBridgeMode = "POLLING")
  /\ polls \in Nat /\ pollers \in 0..switches /\ switches \in 0..MaxSwitches
  /\ handed \subseteq 1..callbackId /\ sent \in 0..MaxMessages /\ processed \in 0..sent

(* "Check for the reentrant case, and enqueue the message": however calls  *)
(* nest, one loop at most works on messagesFromNative.                     *)
OneLoop ==
  Cardinality({i \in 1..Len(stack) : stack[i].at = "processMessages"}) <= 1

(* Messages are handled in the order in which the native side made them,   *)
(* none twice and none left out, through chunks that are cut off, calls    *)
(* from callbacks, late polls and handlers that throw.                     *)
MessagesInOrder ==
  /\ {Number(p) : p \in Waiting} = (processed + 1)..sent
  /\ \A p, q \in Waiting : Before(p, q) => Number(p) < Number(q)

HandledInOrder == TypeOK /\ MessagesInOrder

(* A callback that does not throw runs once for a result after which no    *)
(* more are expected, also when the native side sends that result twice,   *)
(* and whatever the callbacks it runs within or after throw.               *)
OnceCallbacksRunOnce == \A c \in Ids \ Throwing : runs[c] <= 1

(* "Clear callback if not expecting any more results": a callback that     *)
(* does not throw is out of the table when the activation that has its     *)
(* last result is over, whatever other callbacks throw.                    *)
AnsweredCallbacksCleared ==
  \A c \in (Ids \ Throwing) \cap callbacks :
    \/ runs[c] = 0
    \/ \E i \in 1..Len(stack) : stack[i].at = "callback" /\ stack[i].id = c

(* While polling is on some timer polls, however the modes were switched.  *)
PollingGoesOn == pollEnabled => pollers > 0

(* What the bridge keeps however calls, chunks and callbacks nest, whatever*)
(* callbacks throw and however the modes are switched: one loop, each      *)
(* callback once and then out of the table, polling while it is on.        *)
BridgeSafe ==
  OneLoop /\ OnceCallbacksRunOnce /\ AnsweredCallbacksCleared /\ PollingGoesOn

(* Every message the native side makes is handled in the end.              *)
EveryMessageProcessed ==
  \A n \in 1..MaxMessages : sent >= n ~> processed >= n

=============================================================================
