------------------------------- MODULE Receiver -------------------------------
(***************************************************************************)
(* The events receiver (apps/events_receiver): one thread that connects to *)
(* the hub, reads the JSON texts the hub relays, and turns the key texts   *)
(* into X key events.  A text is its kind; texts are told apart by their   *)
(* place in the stream.                                                    *)
(***************************************************************************)
EXTENDS Integers, Sequences

CONSTANTS
  Arguments,    (* what argv[1] may be: an "address" inet_pton knows, or a *)
                (*  "name" it refuses                                      *)
  Kinds,        (* kinds of texts that peers make the hub relay            *)
  MaxTexts,     (* texts the hub relays at most                            *)
  BufferTexts   (* texts that fill the buffer to its last byte             *)

AllKinds == {"accelerometer", "up", "down", "other", "malformed"}

ASSUME ReceiverAssumption ==
  /\ Arguments \subseteq {"address", "name"}
  /\ Kinds \subseteq AllKinds
  /\ MaxTexts \in Nat /\ BufferTexts \in Nat \ {0}

VARIABLES
  argument,
  pc,
  running,      (* cl->running                                             *)
  cl,           (* whether client_init returned a client                   *)
  msg,          (* the number of the decoded text, 0 if there is none      *)
  keys,         (* the X events made, with the number of their text        *)
  crashed,      (* an assertion or a fault ended the process               *)
  filled,       (* a read has filled the buffer                            *)
  hub,          (* the hub's end of the connection                         *)
  texts,        (* everything the hub has written                          *)
  taken         (* how many of them have been read                         *)

client == <<running, cl>>
outside == <<argument, hub, texts>>
receiverVars == <<outside, pc, client, msg, keys, crashed, filled, taken>>

ReceiverInit ==
  /\ argument \in Arguments
  /\ pc = "client_init" /\ running = FALSE /\ cl = FALSE
  /\ msg = 0 /\ keys = <<>> /\ crashed = FALSE /\ filled = FALSE
  /\ hub \in {"absent", "up"} /\ texts = <<>> /\ taken = 0

At(label) == ~crashed /\ pc = label
Goto(label) == pc' = label

-----------------------------------------------------------------------------
(* inet_pton answers 1 for an address, 0 for anything else, in which case  *)
(* the address stays 0.0.0.0: the hub of this machine.                     *)
inet_pton(a) == IF a = "address" THEN 1 ELSE 0

(* client_init: no client without a socket, with an answer of inet_pton    *)
(* other than 0, or without a connection.                                  *)
ClientInit ==
  /\ At("client_init") /\ Goto("client_main_loop")
  /\ \/ UNCHANGED client
     \/ /\ inet_pton(argument) = 0 /\ hub = "up"
        /\ cl' = TRUE /\ running' = TRUE
  /\ UNCHANGED <<outside, msg, keys, crashed, filled, taken>>

(* assert(cl != NULL)                                                      *)
MainLoop ==
  /\ At("client_main_loop")
  /\ IF cl THEN Goto("loop") /\ UNCHANGED crashed
     ELSE crashed' = TRUE /\ UNCHANGED pc
  /\ UNCHANGED <<outside, client, msg, keys, filled, taken>>

Loop ==
  /\ At("loop") /\ Goto(IF running THEN "poll" ELSE "exit")
  /\ UNCHANGED <<outside, client, msg, keys, crashed, filled, taken>>

Revents ==
  IF hub = "reset" THEN "other"
  ELSE IF taken < Len(texts) \/ hub = "eof" THEN "POLLIN" ELSE "none"

HangsUpFaultyOnTimeout(r) == r # "POLLIN"
HangsUp(r) == r \notin {"none", "POLLIN"}

Poll ==
  /\ At("poll")
  /\ Goto(IF Revents = "POLLIN" THEN "read" ELSE "loop")
  /\ running' = (running /\ ~HangsUp(Revents))
  /\ UNCHANGED <<outside, cl, msg, keys, crashed, filled, taken>>

(* Nothing is done about an end of stream, or an error.                    *)
ReadNothing ==
  /\ At("read") /\ Goto("loop")
  /\ hub = "reset" \/ taken = Len(texts)
  /\ UNCHANGED <<outside, client, msg, keys, crashed, filled, taken>>

ConsumedFaultyKeepsLast(k) == taken + k - 1
Consumed(k) == taken + k

(* A read takes what there is, up to the buffer; _decode_message makes one *)
(* message of the last text, or none.  The 0 written behind a full buffer  *)
(* falls on cl->running, the next field of the struct.                     *)
Read ==
  /\ At("read")
  /\ \E k \in 1 .. BufferTexts :
       /\ taken + k <= Len(texts)
       /\ taken' = Consumed(k)
       /\ filled' = (filled \/ k = BufferTexts)
       /\ running' = (running /\ k # BufferTexts)
       /\ \/ Goto("loop") /\ UNCHANGED <<msg, crashed>>
          \/ /\ texts[taken + k] # "malformed"
             /\ Goto("callback") /\ msg' = taken + k
             /\ UNCHANGED crashed
          \/ /\ texts[taken + k] = "malformed"
             /\ crashed' = TRUE /\ UNCHANGED <<pc, msg>>
  /\ UNCHANGED <<outside, cl, keys>>

KeyOf(kind) == IF kind = "up" THEN "XK_Up" ELSE "XK_Down"
Event(n, key, press) == [n |-> n, key |-> key, press |-> press]

AfterPressFaulty == "loop"
AfterPress == "release"

(* callback and event_sender_keyboard_event: a press, then the release.    *)
Press ==
  /\ At("callback")
  /\ IF texts[msg] \in {"up", "down"}
     THEN /\ keys' = Append(keys, Event(msg, KeyOf(texts[msg]), 1))
          /\ Goto(AfterPress) /\ UNCHANGED msg
     ELSE /\ Goto("loop") /\ msg' = 0 /\ UNCHANGED keys
  /\ UNCHANGED <<outside, client, crashed, filled, taken>>

Release ==
  /\ At("release") /\ Goto("loop")
  /\ keys' = Append(keys, Event(msg, KeyOf(texts[msg]), 0))
  /\ msg' = 0
  /\ UNCHANGED <<outside, client, crashed, filled, taken>>

Receive ==
  ClientInit \/ MainLoop \/ Loop \/ Poll \/ ReadNothing \/ Read \/ Press \/ Release

-----------------------------------------------------------------------------
(* The hub *)

HubWrites(kind) ==
  /\ hub = "up" /\ cl /\ Len(texts) < MaxTexts
  /\ texts' = Append(texts, kind)
  /\ UNCHANGED <<argument, hub, pc, client, msg, keys, crashed, filled, taken>>

(* The hub closes the connection, or its end is reset.                     *)
HubEnds(how) ==
  /\ hub \in {"up", "eof"} /\ hub # how
  /\ hub' = how
  /\ UNCHANGED <<argument, texts, pc, client, msg, keys, crashed, filled, taken>>

ReceiverNext ==
  \/ Receive
  \/ \E kind \in Kinds : HubWrites(kind)
  \/ \E how \in {"eof", "reset"} : HubEnds(how)

ReceiverSpec == ReceiverInit /\ [][ReceiverNext]_receiverVars

(* The one thread runs; the hub owes nothing.                              *)
ReceiverFairSpec == ReceiverSpec /\ WF_receiverVars(Receive)

-----------------------------------------------------------------------------
(* Properties *)

ReceiverTypeOK ==
  /\ argument \in {"address", "name"} /\ cl \in BOOLEAN /\ running \in BOOLEAN
  /\ pc \in {"client_init", "client_main_loop", "loop", "poll", "read",
             "callback", "release", "exit"}
  /\ msg \in 0 .. MaxTexts
  /\ keys \in Seq([n : 1 .. MaxTexts, key : {"XK_Up", "XK_Down"}, press : {0, 1}])
  /\ crashed \in BOOLEAN /\ filled \in BOOLEAN
  /\ hub \in {"absent", "up", "eof", "reset"}
  /\ texts \in Seq(AllKinds) /\ Len(texts) <= MaxTexts /\ taken \in 0 .. Len(texts)

(* Key events come in pairs, a press and its release, one pair at most for *)
(* a text, in the order of the texts, and with the key the text names:     *)
(* however the stream is cut into reads.                                   *)
KeysFollowTexts ==
  \A a \in 1 .. Len(keys) :
    /\ keys[a].press = a % 2
    /\ texts[keys[a].n] = (IF keys[a].key = "XK_Up" THEN "up" ELSE "down")
    /\ \A b \in 1 .. a - 1 :
         IF a % 2 = 0 /\ b = a - 1 THEN keys[b].n = keys[a].n /\ keys[b].key = keys[a].key
         ELSE keys[b].n < keys[a].n

(* A connected receiver stops only for the hub's reset, or because a read  *)
(* that filled the buffer cleared cl->running.                             *)
EndsWithCause == cl /\ ~running => hub = "reset" \/ filled

(* A key that was pressed is released.                                     *)
KeysAreReleased == Len(keys) % 2 = 1 ~> Len(keys) % 2 = 0

(* A reset connection ends the main loop.  (An end of stream does not: the *)
(* loop then polls and reads nothing for ever.)                            *)
ResetEndsLoop == cl /\ hub = "reset" ~> pc = "exit" \/ crashed

(* The one thread of the receiver gets through what it has begun.          *)
LoopMovesOn == KeysAreReleased /\ ResetEndsLoop

(* What client_main_loop asserts of its argument (client.c:145).           *)
ClientExists == pc = "client_main_loop" => cl
=============================================================================
