----------------------------- MODULE CordovaProofs -----------------------------
(***************************************************************************)
(* Proofs about PhoneGap around the page.  The bridge, for any number of   *)
(* calls, messages and callbacks that call the bridge again: first how     *)
(* activations nest, then what that means for callbacks, for polling, and  *)
(* for the order of the messages.  Then building and deploying, for any    *)
(* devices, emulators, images and API levels and however often the lists   *)
(* of adb change.  Then the start of a page, for any modules, features     *)
(* they wait for, and functions that listen: where the start is, by what   *)
(* the running script has still to do, and what is settled there.          *)
(***************************************************************************)
EXTENDS MCCordova, SequenceTheorems, FiniteSetTheorems, WellFoundedInduction, TLAPS

Msg == [n : Nat, id : Nat, kind : Kinds \cup {"star"}, keep : BOOLEAN]
Chunk == Seq(Msg) \ {<<>>}
Act == [at : {"processMessages", "callback", "retry", "restore"}, id : Nat, keep : BOOLEAN]

Types ==
  /\ callbackId \in Nat /\ callbacks \subseteq 1..callbackId
  /\ handed \subseteq 1..callbackId
  /\ messagesFromNative \in Seq(Chunk) /\ stack \in Seq(Act) /\ queued \in Seq(Msg)
  /\ pollers \in Nat /\ sent \in Nat /\ runs \in [Ids -> Nat]

(* A callback lies on the loop that runs it; there is one loop; and while  *)
(* it waits for what it called, messagesFromNative holds the message it    *)
(* works on, which is what makes a call from there reentrant.              *)
OnLoops(st) ==
  \A i \in 1..Len(st) : st[i].at = "callback" => i > 1 /\ st[i - 1].at = "processMessages"
LoopIn(st) ==
  \A i, j \in 1..Len(st) :
    st[i].at = "processMessages" /\ st[j].at = "processMessages" => i = j
HasMessage(st, n, chunks) ==
  \A i \in 1..n : st[i].at = "processMessages" => chunks # <<>>

Nesting ==
  OnLoops(stack) /\ LoopIn(stack) /\ HasMessage(stack, Len(stack) - 1, messagesFromNative)

(* A callback that does not throw and had its last result is in the table  *)
(* only while that result runs it.                                         *)
RunsIt(st, c) ==
  \E i \in 1..Len(st) : st[i].at = "callback" /\ st[i].id = c /\ ~st[i].keep
Quiet == Ids \ Throwing
Once ==
  \A c \in Quiet :
    /\ runs[c] <= 1 /\ (c > callbackId => runs[c] = 0)
    /\ runs[c] = 1 /\ c \in callbacks => RunsIt(stack, c)

IInv == Types /\ Nesting
OnceInv == IInv /\ Once

-----------------------------------------------------------------------------
LEMMA FrontFacts ==
  ASSUME NEW S, NEW s \in Seq(S), s # <<>>
  PROVE  /\ Front(s) \in Seq(S) /\ Len(Front(s)) = Len(s) - 1 /\ Len(s) \in Nat \ {0}
         /\ \A i \in 1..Len(s) - 1 : Front(s)[i] = s[i]
         /\ Last(s) \in S
<1>1. Len(s) \in Nat \ {0} /\ \A i \in 1..Len(s) : s[i] \in S
  OBVIOUS
<1>2. \A i \in 1..Len(s) - 1 : s[i] \in S
  BY <1>1
<1>3. /\ SubSeq(s, 1, Len(s) - 1) \in Seq(S)
      /\ Len(SubSeq(s, 1, Len(s) - 1)) = IF 1 <= Len(s) - 1 THEN Len(s) - 1 - 1 + 1 ELSE 0
      /\ \A i \in 1..Len(s) - 1 - 1 + 1 : SubSeq(s, 1, Len(s) - 1)[i] = s[1 + i - 1]
  <2>1. Len(s) - 1 \in Int
    BY <1>1
  <2> QED
    BY <2>1, <1>2, SubSeqProperties
<1>4. Front(s) = SubSeq(s, 1, Len(s) - 1) /\ Last(s) = s[Len(s)]
  BY DEF Front, Last
<1>5. \A i \in 1..Len(s) - 1 : SubSeq(s, 1, Len(s) - 1)[i] = s[i]
  <2> SUFFICES ASSUME NEW i \in 1..Len(s) - 1 PROVE SubSeq(s, 1, Len(s) - 1)[i] = s[i]
    OBVIOUS
  <2>1. i \in 1..Len(s) - 1 - 1 + 1 /\ 1 + i - 1 = i
    BY <1>1
  <2> QED
    BY <2>1, <1>3
<1>6. Len(SubSeq(s, 1, Len(s) - 1)) = Len(s) - 1
  <2>1. CASE Len(s) = 1
    BY <1>1, <1>3, <2>1
  <2>2. CASE Len(s) # 1
    <3>0. \A n \in Nat \ {0} : n # 1 => 1 <= n - 1 /\ n - 1 - 1 + 1 = n - 1
      OBVIOUS
    <3>1. 1 <= Len(s) - 1 /\ Len(s) - 1 - 1 + 1 = Len(s) - 1
      BY <1>1, <2>2, <3>0
    <3> QED
      BY <3>1, <1>3
  <2> QED
    BY <2>1, <2>2
<1>7. s[Len(s)] \in S
  BY <1>1
<1> QED
  BY <1>1, <1>3, <1>4, <1>5, <1>6, <1>7

LEMMA EncodedType ==
  ASSUME NEW q \in Seq(Msg)
  PROVE  Encoded(q) \in Seq(Msg) /\ Remaining(q) \in Seq(Msg)
<1>1. Star \in Msg
  BY DEF Star, Msg
<1>2. SubSeq(q, 1, ChunkSize) \in Seq(Msg) \/ ~(Len(q) > ChunkSize)
  <2>1. ASSUME Len(q) > ChunkSize PROVE \A i \in 1..ChunkSize : q[i] \in Msg
    BY <2>1, BridgeAssumption
  <2> QED
    BY <2>1, BridgeAssumption, SubSeqProperties
<1>3. Encoded(q) \in Seq(Msg)
  BY <1>1, <1>2 DEF Encoded
<1>4. Remaining(q) \in Seq(Msg)
  <2>1. \A i \in (ChunkSize + 1)..Len(q) : q[i] \in Msg
    BY BridgeAssumption
  <2> QED
    BY <2>1, BridgeAssumption, SubSeqProperties DEF Remaining
<1> QED
  BY <1>3, <1>4

LEMMA AnswersType ==
  ASSUME NEW id \in Nat, sent \in Nat, NEW answer \in Answers(id)
  PROVE  answer \in Seq(Msg) /\ Len(answer) \in Nat
<1>1. \A kind \in Kinds, keep \in BOOLEAN : Message(id, kind, keep) \in Msg
  BY DEF Message, Msg
<1>2. CASE answer = <<>>
  BY <1>2
<1>3. ASSUME NEW kind \in Kinds, NEW keep \in BOOLEAN, answer = <<Message(id, kind, keep)>>
      PROVE  answer \in Seq(Msg) /\ Len(answer) \in Nat
  BY <1>1, <1>3
<1> QED
  BY <1>2, <1>3 DEF Answers

(* What processMessages makes of a stack whose last activation is no loop. *)
LEMMA ProcessNests ==
  ASSUME messagesFromNative \in Seq(Chunk),
         NEW chunk \in Seq(Msg), NEW below \in Seq(Act), ProcessMessages(chunk, below),
         OnLoops(below), LoopIn(below), HasMessage(below, Len(below), messagesFromNative)
  PROVE  /\ messagesFromNative' \in Seq(Chunk) /\ stack' \in Seq(Act) /\ Nesting'
         /\ Len(below) <= Len(stack')
         /\ \A i \in 1..Len(below) : stack'[i] = below[i]
<1>1. CASE chunk = <<>>
  <2>1. stack' = below /\ messagesFromNative' = messagesFromNative
    BY <1>1 DEF ProcessMessages
  <2> QED
    BY <2>1 DEF Nesting, HasMessage
<1>2. CASE chunk # <<>>
  <2>1. messagesFromNative' = Append(messagesFromNative, chunk) /\ chunk \in Chunk
    BY <1>2 DEF ProcessMessages, Chunk
  <2>2. /\ messagesFromNative' \in Seq(Chunk) /\ messagesFromNative' # <<>>
        /\ Len(messagesFromNative') = Len(messagesFromNative) + 1
    BY <2>1
  <2>3. CASE messagesFromNative # <<>>
    <3>1. stack' = below
      BY <1>2, <2>2, <2>3 DEF ProcessMessages, IsReentrant
    <3> QED
      BY <3>1, <2>2 DEF Nesting, HasMessage
  <2>4. CASE messagesFromNative = <<>>
    <3>1. stack' = Append(below, Loop)
      BY <1>2, <2>2, <2>4 DEF ProcessMessages, IsReentrant
    <3>2. Loop \in Act /\ Loop.at = "processMessages"
      BY DEF Loop, Activation, Act
    <3>3. /\ stack' \in Seq(Act) /\ Len(stack') = Len(below) + 1 /\ Len(below) \in Nat
          /\ stack'[Len(below) + 1].at = "processMessages"
          /\ \A i \in 1..Len(below) : stack'[i] = below[i]
      BY <3>1, <3>2
    <3>4. \A i \in 1..Len(below) : below[i].at # "processMessages"
      BY <2>4 DEF HasMessage
    <3>5. ASSUME NEW i \in 1..Len(below) PROVE stack'[i].at # "callback"
      <4>1. SUFFICES ASSUME below[i].at = "callback" PROVE FALSE
        BY <3>3
      <4>2. i - 1 \in 1..Len(below) /\ below[i - 1].at = "processMessages"
        BY <4>1, <3>3 DEF OnLoops
      <4> QED
        BY <4>2, <3>4
    <3>6. \A i \in 1..Len(stack') : i \in 1..Len(below) \/ i = Len(below) + 1
      BY <3>3
    <3>7. OnLoops(stack')
      BY <3>3, <3>5, <3>6 DEF OnLoops
    <3>8. LoopIn(stack')
      BY <3>3, <3>4, <3>6 DEF LoopIn
    <3>9. HasMessage(stack', Len(stack') - 1, messagesFromNative')
      BY <2>2 DEF HasMessage
    <3> QED
      BY <2>2, <3>3, <3>7, <3>8, <3>9 DEF Nesting
  <2> QED
    BY <2>3, <2>4
<1> QED
  BY <1>1, <1>2

(* An activation that has something on it, or is none of a loop, needs no  *)
(* more than Nesting for what is put on it.                                *)
LEMMA BelowFits ==
  ASSUME IInv, stack = <<>> \/ Last(stack).at # "processMessages"
  PROVE  OnLoops(stack) /\ LoopIn(stack) /\ HasMessage(stack, Len(stack), messagesFromNative)
<1>1. Len(stack) \in Nat /\ (stack = <<>> \/ stack[Len(stack)].at # "processMessages")
  BY DEF IInv, Types, Last
<1>2. \A i \in 1..Len(stack) : i \in 1..Len(stack) - 1 \/ i = Len(stack)
  BY <1>1
<1> QED
  BY <1>1, <1>2 DEF IInv, Nesting, HasMessage

LEMMA PollNests ==
  ASSUME IInv, Idle, PollOnce
  PROVE  /\ messagesFromNative' \in Seq(Chunk) /\ stack' \in Seq(Act)
         /\ queued' \in Seq(Msg) /\ Nesting'
<1>1. queued \in Seq(Msg) /\ messagesFromNative \in Seq(Chunk) /\ stack \in Seq(Act)
  BY DEF IInv, Types
<1> QED
  BY <1>1, EncodedType, BelowFits, ProcessNests DEF PollOnce, Idle

(* A call, by an event, a callback or the retry on top of below.           *)
LEMMA ExecNests ==
  ASSUME IInv, NEW id \in Nat \ {0}, NEW withCallback \in BOOLEAN, NEW below \in Seq(Act),
         Exec(id, withCallback, below), callbackId <= id,
         OnLoops(below), LoopIn(below), HasMessage(below, Len(below), messagesFromNative)
  PROVE  /\ messagesFromNative' \in Seq(Chunk) /\ stack' \in Seq(Act)
         /\ queued' \in Seq(Msg) /\ sent' \in Nat /\ Nesting'
         /\ callbackId' = id /\ callbacks' \subseteq 1..id /\ handed' \subseteq 1..id
         /\ callbacks \subseteq callbacks' /\ callbacks' \subseteq callbacks \cup {id}
         /\ Len(below) <= Len(stack')
         /\ \A i \in 1..Len(below) : stack'[i] = below[i]
<1>1. queued \in Seq(Msg) /\ messagesFromNative \in Seq(Chunk) /\ sent \in Nat
  BY DEF IInv, Types
<1>2. callbacks \subseteq 1..callbackId /\ handed \subseteq 1..callbackId /\ callbackId \in Nat
  BY DEF IInv, Types
<1>3. /\ callbackId' = id /\ callbacks' = callbacks \cup {c \in {id} : withCallback}
      /\ handed' = handed \cup {id}
  BY DEF Exec
<1>4. callbacks' \subseteq 1..id /\ handed' \subseteq 1..id
  <2>1. 1..callbackId \subseteq 1..id /\ id \in 1..id
    BY <1>2
  <2> QED
    BY <2>1, <1>2, <1>3
<1>5. PICK answer \in Answers(id) :
        /\ sent' = sent + Len(answer)
        /\ queued' = Remaining(queued \o answer)
        /\ ProcessMessages(Encoded(queued \o answer), below)
  BY DEF Exec
<1>6. answer \in Seq(Msg) /\ Len(answer) \in Nat
  BY <1>1, AnswersType
<1>7. queued \o answer \in Seq(Msg)
  BY <1>1, <1>6
<1>8. Encoded(queued \o answer) \in Seq(Msg) /\ Remaining(queued \o answer) \in Seq(Msg)
  BY <1>7, EncodedType
<1>9. /\ messagesFromNative' \in Seq(Chunk) /\ stack' \in Seq(Act) /\ Nesting'
      /\ Len(below) <= Len(stack') /\ \A i \in 1..Len(below) : stack'[i] = below[i]
  BY <1>1, <1>5, <1>8, ProcessNests
<1> QED
  BY <1>1, <1>3, <1>4, <1>5, <1>6, <1>8, <1>9

(* Shifted keeps the chunks what they are.                                 *)
LEMMA ShiftedType ==
  ASSUME NEW chunks \in Seq(Chunk), chunks # <<>>
  PROVE  Shifted(chunks) \in Seq(Chunk)
<1>1. chunks[1] \in Seq(Msg) /\ Head(chunks) = chunks[1] /\ 1 \in 1..Len(chunks)
  BY DEF Chunk
<1>2. CASE Len(Head(chunks)) > 1
  <2>1. Tail(chunks[1]) \in Chunk
    <3>1. Tail(chunks[1]) \in Seq(Msg) /\ Len(Tail(chunks[1])) = Len(chunks[1]) - 1
      BY <1>1, <1>2
    <3>2. Tail(chunks[1]) # <<>>
      <4>1. Len(Tail(chunks[1])) >= 1
        BY <1>1, <1>2, <3>1
      <4> QED
        BY <4>1
    <3> QED
      BY <3>1, <3>2 DEF Chunk
  <2> QED
    BY <1>1, <1>2, <2>1, ExceptSeq DEF Shifted
<1>3. CASE ~(Len(Head(chunks)) > 1)
  BY <1>3 DEF Shifted
<1> QED
  BY <1>2, <1>3

(* When the last activation is over, what is left nests: the loop that had *)
(* a callback on it is the last again.                                     *)
LEMMA FrontNests ==
  ASSUME IInv, stack # <<>>, stack' = Front(stack),
         stack[Len(stack)].at = "processMessages" \/ stack[Len(stack)].at = "callback" \/ UNCHANGED messagesFromNative
  PROVE  stack' \in Seq(Act) /\ Nesting'
<1>1. /\ stack' \in Seq(Act) /\ Len(stack') = Len(stack) - 1 /\ Len(stack) \in Nat \ {0}
      /\ \A i \in 1..Len(stack) - 1 : stack'[i] = stack[i]
  BY FrontFacts DEF IInv, Types
<1>2. OnLoops(stack') /\ LoopIn(stack')
  <2>1. OnLoops(stack) /\ LoopIn(stack)
    BY DEF IInv, Nesting
  <2>2. OnLoops(stack')
    <3> SUFFICES ASSUME NEW i \in 1..Len(stack'), stack'[i].at = "callback"
                 PROVE  i > 1 /\ stack'[i - 1].at = "processMessages"
      BY DEF OnLoops
    <3>1. i \in 1..Len(stack) - 1 /\ i \in 1..Len(stack) /\ stack[i].at = "callback"
      BY <1>1
    <3>2. i > 1 /\ stack[i - 1].at = "processMessages"
      BY <2>1, <3>1 DEF OnLoops
    <3>3. i - 1 \in 1..Len(stack) - 1
      BY <1>1, <3>1, <3>2
    <3> QED
      BY <1>1, <3>2, <3>3
  <2>3. LoopIn(stack')
    <3> SUFFICES ASSUME NEW i \in 1..Len(stack'), NEW j \in 1..Len(stack'),
                        stack'[i].at = "processMessages", stack'[j].at = "processMessages"
                 PROVE  i = j
      BY DEF LoopIn
    <3>1. i \in 1..Len(stack) - 1 /\ i \in 1..Len(stack) /\ j \in 1..Len(stack) - 1 /\ j \in 1..Len(stack)
      BY <1>1
    <3> QED
      BY <1>1, <2>1, <3>1 DEF LoopIn
  <2> QED
    BY <2>2, <2>3
<1>3. CASE stack[Len(stack)].at = "processMessages"
  <2>1. \A i \in 1..Len(stack) - 1 : stack[i].at # "processMessages"
    BY <1>1, <1>3 DEF IInv, Nesting, LoopIn
  <2> QED
    BY <1>1, <1>2, <2>1 DEF Nesting, HasMessage
<1>4. CASE stack[Len(stack)].at = "callback"
  <2>1. Len(stack) > 1 /\ stack[Len(stack) - 1].at = "processMessages"
    BY <1>1, <1>4 DEF IInv, Nesting, OnLoops
  <2>2. \A i \in 1..Len(stack) - 2 : stack[i].at # "processMessages"
    BY <1>1, <2>1 DEF IInv, Nesting, LoopIn
  <2> QED
    BY <1>1, <1>2, <2>2 DEF Nesting, HasMessage
<1>5. CASE UNCHANGED messagesFromNative
  BY <1>1, <1>2, <1>5 DEF IInv, Nesting, HasMessage
<1> QED
  BY <1>3, <1>4, <1>5

-----------------------------------------------------------------------------
(* The activation that runs is the last one, and those below it stay.      *)
LEMMA LoopMessagePushes ==
  ASSUME IInv, LoopMessage, NEW m, m = Head(Head(messagesFromNative)), RunsHandler(m)
  PROVE  /\ stack' \in Seq(Act) /\ Nesting' /\ m.id \in callbacks
         /\ Len(stack) \in Nat /\ Len(stack') = Len(stack) + 1
         /\ stack'[Len(stack) + 1] = Activation("callback", m.id, m.keep)
         /\ \A i \in 1..Len(stack) : stack'[i] = stack[i]
<1>1. /\ stack \in Seq(Act) /\ messagesFromNative \in Seq(Chunk)
      /\ messagesFromNative # <<>> /\ stack # <<>> /\ Last(stack).at = "processMessages"
      /\ callbacks \subseteq Nat
  BY DEF IInv, Types, LoopMessage, Running, Idle
<1>2. m \in Msg
  <2>1. Head(messagesFromNative) \in Chunk
    BY <1>1
  <2> QED
    BY <2>1 DEF Chunk
<1>3. m.id \in callbacks
  BY DEF RunsHandler
<1>4. Activation("callback", m.id, m.keep) \in Act
  BY <1>2 DEF Activation, Act, Msg
<1>5. /\ stack' = Append(stack, Activation("callback", m.id, m.keep))
      /\ UNCHANGED messagesFromNative
  BY DEF LoopMessage
<1>6. /\ stack' \in Seq(Act) /\ Len(stack') = Len(stack) + 1 /\ Len(stack) \in Nat \ {0}
      /\ stack'[Len(stack) + 1] = Activation("callback", m.id, m.keep)
      /\ \A i \in 1..Len(stack) : stack'[i] = stack[i]
  BY <1>1, <1>4, <1>5
<1>7. stack'[Len(stack) + 1].at = "callback"
  BY <1>6 DEF Activation
<1>8. \A i \in 1..Len(stack') : i \in 1..Len(stack) \/ i = Len(stack) + 1
  BY <1>6
<1>9. stack[Len(stack)].at = "processMessages"
  BY <1>1 DEF Last
<1>10. OnLoops(stack')
  <2> SUFFICES ASSUME NEW i \in 1..Len(stack'), stack'[i].at = "callback"
               PROVE  i > 1 /\ stack'[i - 1].at = "processMessages"
    BY DEF OnLoops
  <2>1. CASE i = Len(stack) + 1
    BY <2>1, <1>6, <1>9
  <2>2. CASE i \in 1..Len(stack)
    <3>1. i > 1 /\ stack[i - 1].at = "processMessages"
      BY <2>2, <1>6 DEF IInv, Nesting, OnLoops
    <3> QED
      BY <2>2, <3>1, <1>6
  <2> QED
    BY <2>1, <2>2, <1>8
<1>11. LoopIn(stack')
  BY <1>6, <1>7, <1>8 DEF IInv, Nesting, LoopIn
<1>12. HasMessage(stack', Len(stack') - 1, messagesFromNative')
  BY <1>1, <1>5 DEF HasMessage
<1> QED
  BY <1>3, <1>6, <1>10, <1>11, <1>12 DEF Nesting

(* The retry of a call puts what it sets in motion on its own activation,  *)
(* and touches no callback below.                                          *)
LEMMA RetryBelow ==
  ASSUME IInv, RetryCall
  PROVE  \E below \in Seq(Act) :
           /\ Exec(callbackId + 1, TRUE, below)
           /\ OnLoops(below) /\ LoopIn(below)
           /\ HasMessage(below, Len(below), messagesFromNative)
           /\ Len(below) = Len(stack)
           /\ \A i \in 1..Len(stack) : stack[i].at = "callback" => below[i] = stack[i]
<1> DEFINE below == [stack EXCEPT ![Len(stack)].at = "restore"]
<1>t. Types /\ Nesting
  BY DEF IInv
<1>1. stack # <<>> /\ Last(stack).at = "retry" /\ Exec(callbackId + 1, TRUE, below)
  BY DEF RetryCall, Running, Idle
<1>2. /\ below \in Seq(Act) /\ Len(below) = Len(stack) /\ Len(stack) \in Nat \ {0}
      /\ \A i \in 1..Len(stack) : i # Len(stack) => below[i] = stack[i]
      /\ below[Len(stack)].at = "restore" /\ stack[Len(stack)].at = "retry"
  <2>1. stack[Len(stack)] \in Act /\ Len(stack) \in 1..Len(stack)
    BY <1>1, <1>t DEF Types
  <2>2. [stack[Len(stack)] EXCEPT !.at = "restore"] \in Act
    BY <2>1 DEF Act
  <2>3. below = [stack EXCEPT ![Len(stack)] = [stack[Len(stack)] EXCEPT !.at = "restore"]]
    OBVIOUS
  <2> QED
    BY <2>1, <2>2, <2>3, <1>1, <1>t, ExceptSeq DEF Types, Last, Act
<1> HIDE DEF below
<1>3. OnLoops(below) /\ LoopIn(below)
  <2>1. OnLoops(stack) /\ LoopIn(stack)
    BY <1>t DEF Nesting
  <2>2. \A i \in 1..Len(stack) : stack[i].at = "processMessages" => i # Len(stack) /\ below[i] = stack[i]
    BY <1>2
  <2>3. \A i \in 1..Len(stack) : below[i].at \in {"callback", "processMessages"} => i # Len(stack) /\ below[i] = stack[i]
    BY <1>2
  <2>4. OnLoops(below)
    <3> SUFFICES ASSUME NEW i \in 1..Len(below), below[i].at = "callback"
                 PROVE  i > 1 /\ below[i - 1].at = "processMessages"
      BY DEF OnLoops
    <3>1. i \in 1..Len(stack) /\ stack[i].at = "callback"
      BY <1>2, <2>3
    <3>2. i > 1 /\ stack[i - 1].at = "processMessages"
      BY <2>1, <3>1 DEF OnLoops
    <3>3. i - 1 \in 1..Len(stack)
      BY <1>2, <3>1, <3>2
    <3> QED
      BY <2>2, <3>2, <3>3
  <2>5. LoopIn(below)
    <3> SUFFICES ASSUME NEW i \in 1..Len(below), NEW j \in 1..Len(below),
                        below[i].at = "processMessages", below[j].at = "processMessages"
                 PROVE  i = j
      BY DEF LoopIn
    <3>1. i \in 1..Len(stack) /\ j \in 1..Len(stack) /\ below[i] = stack[i] /\ below[j] = stack[j]
      BY <1>2, <2>3
    <3> QED
      BY <2>1, <3>1 DEF LoopIn
  <2> QED
    BY <2>4, <2>5
<1>4. HasMessage(below, Len(below), messagesFromNative)
  <2>1. HasMessage(stack, Len(stack), messagesFromNative)
    BY <1>1, BelowFits
  <2> QED
    BY <1>2, <2>1 DEF HasMessage
<1>5. \A i \in 1..Len(stack) : stack[i].at = "callback" => below[i] = stack[i]
  BY <1>2
<1> QED
  BY <1>1, <1>2, <1>3, <1>4, <1>5

LEMMA IInvNext == IInv /\ [Next]_vars => IInv'
<1> SUFFICES ASSUME IInv, [Next]_vars PROVE IInv'
  OBVIOUS
<1>t. Types /\ Nesting
  BY DEF IInv
<1>0. CASE UNCHANGED <<callbackId, callbacks, handed, messagesFromNative, stack, queued, pollers, sent, runs>>
  BY <1>0, <1>t DEF IInv, Types, Nesting
<1>1. CASE RetryCall
  <2>1. PICK below \in Seq(Act) :
          /\ Exec(callbackId + 1, TRUE, below)
          /\ OnLoops(below) /\ LoopIn(below)
          /\ HasMessage(below, Len(below), messagesFromNative)
    BY <1>1, RetryBelow
  <2>5. callbackId + 1 \in Nat \ {0} /\ callbackId <= callbackId + 1
    BY <1>t DEF Types
  <2>6. /\ messagesFromNative' \in Seq(Chunk) /\ stack' \in Seq(Act)
        /\ queued' \in Seq(Msg) /\ sent' \in Nat /\ Nesting'
        /\ callbackId' = callbackId + 1
        /\ callbacks' \subseteq 1..callbackId + 1 /\ handed' \subseteq 1..callbackId + 1
    BY <2>1, <2>5, ExecNests
  <2>7. UNCHANGED <<pollers, runs>>
    BY <1>1 DEF RetryCall, timers
  <2> QED
    BY <2>5, <2>6, <2>7, <1>t DEF IInv, Types
<1>2. CASE AndroidExec
  <2>1. PICK withCallback \in BOOLEAN : Exec(callbackId + 1, withCallback, stack)
    BY <1>2 DEF AndroidExec
  <2>2. stack = <<>> \/ Last(stack).at # "processMessages"
    BY <1>2 DEF AndroidExec, MayCall, Idle, Running
  <2>3. callbackId + 1 \in Nat \ {0} /\ callbackId <= callbackId + 1 /\ stack \in Seq(Act)
    BY <1>t DEF Types
  <2>4. /\ messagesFromNative' \in Seq(Chunk) /\ stack' \in Seq(Act)
        /\ queued' \in Seq(Msg) /\ sent' \in Nat /\ Nesting'
        /\ callbackId' = callbackId + 1
        /\ callbacks' \subseteq 1..callbackId + 1 /\ handed' \subseteq 1..callbackId + 1
    BY <2>1, <2>2, <2>3, BelowFits, ExecNests
  <2>5. UNCHANGED <<pollers, runs>>
    BY <1>2 DEF AndroidExec, timers
  <2> QED
    BY <2>3, <2>4, <2>5, <1>t DEF IInv, Types
<1>3. CASE AndroidExecNullArguments
  <2>1. stack' = Append(stack, Retry) /\ stack \in Seq(Act)
    BY <1>3, <1>t DEF AndroidExecNullArguments, Types
  <2>2. Retry \in Act /\ Retry.at = "retry"
    BY DEF Retry, Activation, Act
  <2>3. /\ stack' \in Seq(Act) /\ Len(stack') = Len(stack) + 1 /\ Len(stack) \in Nat
        /\ stack'[Len(stack) + 1].at = "retry"
        /\ \A i \in 1..Len(stack) : stack'[i] = stack[i]
    BY <2>1, <2>2
  <2>4. \A i \in 1..Len(stack') : i \in 1..Len(stack) \/ i = Len(stack) + 1
    BY <2>3
  <2>5. UNCHANGED <<messagesFromNative, queued, pollers, sent, runs, handed>>
    BY <1>3 DEF AndroidExecNullArguments, timers, native
  <2>6. HasMessage(stack, Len(stack), messagesFromNative)
    <3>1. stack = <<>> \/ Last(stack).at # "processMessages"
      BY <1>3 DEF AndroidExecNullArguments, MayCall, Idle, Running
    <3> QED
      BY <3>1, BelowFits
  <2>7. OnLoops(stack')
    BY <2>3, <2>4, <1>t DEF Nesting, OnLoops
  <2>8. LoopIn(stack')
    BY <2>3, <2>4, <1>t DEF Nesting, LoopIn
  <2>9. HasMessage(stack', Len(stack') - 1, messagesFromNative')
    BY <2>3, <2>5, <2>6 DEF HasMessage
  <2>10. /\ callbackId' \in Nat /\ callbacks' \subseteq 1..callbackId'
         /\ handed' \subseteq 1..callbackId'
    <3>1. callbackId' = callbackId + 1 /\ callbacks' = callbacks \cup {callbackId + 1}
      BY <1>3 DEF AndroidExecNullArguments
    <3>2. 1..callbackId \subseteq 1..callbackId + 1 /\ callbackId + 1 \in 1..callbackId + 1
      BY <1>t DEF Types
    <3> QED
      BY <3>1, <3>2, <2>5, <1>t DEF Types
  <2> QED
    BY <2>3, <2>5, <2>7, <2>8, <2>9, <2>10, <1>t DEF IInv, Types, Nesting
<1>4. CASE RetryRestore
  <2>1. stack # <<>> /\ stack' = Front(stack) /\ UNCHANGED messagesFromNative
    BY <1>4 DEF RetryRestore, Running, Idle
  <2>2. stack' \in Seq(Act) /\ Nesting'
    BY <2>1, FrontNests
  <2> QED
    BY <1>4, <2>1, <2>2, <1>t DEF RetryRestore, table, timers, native, IInv, Types
<1>5. CASE LoopEnds
  <2>1. stack # <<>> /\ stack' = Front(stack) /\ UNCHANGED messagesFromNative
    BY <1>5 DEF LoopEnds, Running, Idle
  <2>2. stack' \in Seq(Act) /\ Nesting'
    BY <2>1, FrontNests
  <2> QED
    BY <1>5, <2>1, <2>2, <1>t DEF LoopEnds, table, timers, native, IInv, Types
<1>6. CASE LoopStar
  <2>1. /\ stack # <<>> /\ stack' = Front(stack) /\ stack[Len(stack)].at = "processMessages"
        /\ messagesFromNative # <<>> /\ messagesFromNative' = Tail(messagesFromNative)
    BY <1>6 DEF LoopStar, Running, Idle, Last
  <2>2. stack' \in Seq(Act) /\ Nesting'
    BY <2>1, FrontNests
  <2>3. messagesFromNative' \in Seq(Chunk)
    BY <2>1, <1>t DEF Types
  <2> QED
    BY <1>6, <2>2, <2>3, <1>t DEF LoopStar, table, native, IInv, Types
<1>7. CASE LoopMessage
  <2> DEFINE m == Head(Head(messagesFromNative))
  <2>1. messagesFromNative # <<>> /\ UNCHANGED <<callbackId, timers, native>>
    BY <1>7 DEF LoopMessage
  <2>2. CASE RunsHandler(m)
    <3>1. stack' \in Seq(Act) /\ Nesting' /\ m.id \in callbacks
      BY <1>7, <2>2, LoopMessagePushes
    <3>2. runs' = [runs EXCEPT ![m.id] = @ + (IF m.keep THEN 0 ELSE 1)]
      BY <1>7, <2>2 DEF LoopMessage
    <3>3. runs' \in [Ids -> Nat]
      <4>1. \A c \in Ids : runs[c] + (IF m.keep THEN 0 ELSE 1) \in Nat
        BY <1>t DEF Types
      <4> HIDE DEF m
      <4> QED
        BY <3>2, <4>1, <1>t DEF Types
    <3>4. UNCHANGED <<callbacks, messagesFromNative>>
      BY <1>7, <2>2 DEF LoopMessage
    <3> QED
      BY <2>1, <3>1, <3>3, <3>4, <1>t DEF IInv, Types, timers, native
  <2>3. CASE ~RunsHandler(m)
    <3>1. /\ callbacks' \subseteq callbacks /\ UNCHANGED <<stack, runs>>
          /\ messagesFromNative' = Shifted(messagesFromNative)
      BY <1>7, <2>3 DEF LoopMessage
    <3>2. messagesFromNative' \in Seq(Chunk)
      BY <2>1, <3>1, <1>t, ShiftedType DEF Types
    <3>3. \A i \in 1..Len(stack) - 1 : stack[i].at # "processMessages"
      <4>1. stack # <<>> /\ stack[Len(stack)].at = "processMessages" /\ stack \in Seq(Act)
        BY <1>7, <1>t DEF LoopMessage, Running, Idle, Last, Types
      <4> QED
        BY <4>1, <1>t DEF Nesting, LoopIn
    <3>4. Nesting'
      BY <3>1, <3>3, <1>t DEF Nesting, HasMessage
    <3> QED
      BY <2>1, <3>1, <3>2, <3>4, <1>t DEF IInv, Types, timers, native
  <2> QED
    BY <2>2, <2>3
<1>8. CASE CallbackEnds
  <2>1. /\ stack # <<>> /\ stack' = Front(stack) /\ stack[Len(stack)].at = "callback"
        /\ stack \in Seq(Act)
        /\ messagesFromNative' = Shifted(messagesFromNative) /\ callbacks' \subseteq callbacks
    BY <1>8, <1>t DEF CallbackEnds, Running, Idle, Last, Cleared, Types
  <2>2. stack' \in Seq(Act) /\ Nesting'
    BY <2>1, FrontNests
  <2>3. messagesFromNative # <<>>
    <3>1. /\ Len(stack) - 1 \in 1..Len(stack) - 1
          /\ stack[Len(stack) - 1].at = "processMessages"
      BY <2>1, <1>t DEF Nesting, OnLoops
    <3> QED
      BY <3>1, <1>t DEF Nesting, HasMessage
  <2>4. messagesFromNative' \in Seq(Chunk)
    BY <2>1, <2>3, <1>t, ShiftedType DEF Types
  <2> QED
    BY <1>8, <2>1, <2>2, <2>4, <1>t DEF CallbackEnds, timers, native, IInv, Types
<1>9. CASE PollTimer
  <2>1. Idle /\ PollOnce
    BY <1>9 DEF PollTimer
  <2> QED
    BY <1>9, <2>1, PollNests, <1>t DEF PollTimer, table, IInv, Types
<1>10. CASE PollingTimer
  <2>1. pollers' \in Nat /\ UNCHANGED <<callbackId, callbacks, handed, sent, runs>>
    BY <1>10, <1>t DEF PollingTimer, table, Types
  <2>2. CASE PollOnce
    BY <1>10, <2>1, <2>2, PollNests, <1>t DEF PollingTimer, IInv, Types
  <2>3. CASE UNCHANGED <<messagesFromNative, stack, queued>>
    BY <2>1, <2>3, <1>t DEF IInv, Types, Nesting
  <2> QED
    BY <1>10, <2>2, <2>3 DEF PollingTimer
<1>11. CASE PollOnceFromOnlineEvent
  <2>1. Idle /\ PollOnce
    BY <1>11 DEF PollOnceFromOnlineEvent
  <2> QED
    BY <1>11, <2>1, PollNests, <1>t DEF PollOnceFromOnlineEvent, table, timers, IInv, Types
<1>12. CASE SetNativeToJsBridgeMode
  <2>1. pollers' \in Nat
    BY <1>12, <1>t DEF SetNativeToJsBridgeMode, WithPoller, Types
  <2> QED
    BY <1>12, <2>1, <1>t DEF SetNativeToJsBridgeMode, table, IInv, Types, Nesting
<1>13. CASE NativeAnswer
  <2>1. PICK id \in handed, kind \in Kinds, keep \in BOOLEAN :
          queued' = Append(queued, Message(id, kind, keep))
    BY <1>13 DEF NativeAnswer
  <2>2. Message(id, kind, keep) \in Msg
    BY <1>t DEF Types, Message, Msg
  <2>3. queued' \in Seq(Msg) /\ sent' \in Nat
    BY <1>13, <2>1, <2>2, <1>t DEF NativeAnswer, Types
  <2> QED
    BY <1>13, <2>3, <1>t DEF NativeAnswer, table, timers, IInv, Types, Nesting
<1>14. CASE UNCHANGED vars
  BY <1>14, <1>0 DEF vars, table, timers, native
<1> QED
  BY <1>1, <1>2, <1>3, <1>4, <1>5, <1>6, <1>7, <1>8, <1>9, <1>10, <1>11, <1>12, <1>13, <1>14
  DEF Next, Run

LEMMA IInvInit == Init => IInv
<1> SUFFICES ASSUME Init PROVE IInv
  OBVIOUS
<1>1. messagesFromNative \in Seq(Chunk) /\ stack \in Seq(Act) /\ queued \in Seq(Msg)
  BY DEF Init
<1>2. Len(stack) = 0
  BY DEF Init
<1>3. Nesting
  BY <1>2 DEF Nesting, OnLoops, LoopIn, HasMessage
<1> QED
  BY <1>1, <1>3 DEF Init, IInv, Types

LEMMA Inductive == Spec => []IInv
BY IInvInit, IInvNext, PTL DEF Spec

(* However calls nest, one loop at most works on messagesFromNative.       *)
THEOREM OneLoopRuns == Spec => []OneLoop
<1>1. IInv => OneLoop
  <2> SUFFICES ASSUME IInv PROVE OneLoop
    OBVIOUS
  <2> DEFINE loops == {i \in 1..Len(stack) : stack[i].at = "processMessages"}
  <2>1. \A i, j \in loops : i = j
    BY DEF IInv, Nesting, LoopIn
  <2> HIDE DEF loops
  <2>2. CASE loops = {}
    BY <2>2, FS_EmptySet DEF OneLoop, loops
  <2>3. CASE loops # {}
    <3>1. PICK i : loops = {i}
      BY <2>1, <2>3
    <3>2. Cardinality(loops) = 1
      BY <3>1, FS_Singleton
    <3> QED
      BY <3>2 DEF OneLoop, loops
  <2> QED
    BY <2>2, <2>3
<1> QED
  BY <1>1, Inductive, PTL

-----------------------------------------------------------------------------
(* A callback is run by a loop only when no other callback waits.          *)
LEMMA LoopRunsAlone ==
  ASSUME IInv, Running("processMessages")
  PROVE  \A i \in 1..Len(stack) : stack[i].at # "callback"
<1>1. Len(stack) \in Nat /\ Len(stack) \in 1..Len(stack) /\ stack[Len(stack)].at = "processMessages"
  BY DEF IInv, Types, Running, Idle, Last
<1> SUFFICES ASSUME NEW i \in 1..Len(stack), stack[i].at = "callback" PROVE FALSE
  OBVIOUS
<1>2. i - 1 \in 1..Len(stack) /\ stack[i - 1].at = "processMessages"
  BY <1>1 DEF IInv, Nesting, OnLoops
<1>3. i - 1 = Len(stack)
  BY <1>1, <1>2 DEF IInv, Nesting, LoopIn
<1> QED
  BY <1>1, <1>3

(* What runs stays on the stack when other activations are put on it.      *)
LEMMA RunsOn ==
  ASSUME Once, UNCHANGED runs, Types, callbackId' \in Nat, callbackId <= callbackId',
         \A c \in Ids \cap callbacks' : c \in callbacks \/ c > callbackId,
         \A c \in Ids : RunsIt(stack, c) => RunsIt(stack', c)
  PROVE  Once'
BY DEF Once, Types, Ids, Quiet

LEMMA OnceNext == OnceInv /\ [Next]_vars => Once'
<1> SUFFICES ASSUME OnceInv, [Next]_vars PROVE Once'
  OBVIOUS
<1>t. IInv /\ Types /\ Nesting /\ Once /\ stack \in Seq(Act) /\ Len(stack) \in Nat
  BY DEF OnceInv, IInv, Types
<1>a. ASSUME UNCHANGED <<runs, callbackId>>, callbacks' \subseteq callbacks,
             \A c \in Ids : RunsIt(stack, c) => RunsIt(stack', c)
      PROVE  Once'
  <2>1. callbackId' \in Nat /\ callbackId <= callbackId'
    BY <1>t, <1>a DEF Types
  <2>2. \A c \in Ids \cap callbacks' : c \in callbacks
    BY <1>a
  <2> QED
    BY <1>t, <1>a, <2>1, <2>2, RunsOn
<1>b. ASSUME NEW below \in Seq(Act), Len(below) <= Len(stack'), Len(stack') \in Nat,
             \A i \in 1..Len(below) : stack'[i] = below[i],
             Len(below) = Len(stack),
             \A i \in 1..Len(stack) : stack[i].at = "callback" => below[i] = stack[i]
      PROVE  \A c \in Ids : RunsIt(stack, c) => RunsIt(stack', c)
  <2> SUFFICES ASSUME NEW c \in Ids, RunsIt(stack, c) PROVE RunsIt(stack', c)
    OBVIOUS
  <2>1. PICK i \in 1..Len(stack) : stack[i].at = "callback" /\ stack[i].id = c /\ ~stack[i].keep
    BY DEF RunsIt
  <2>2. i \in 1..Len(stack') /\ stack'[i] = stack[i]
    BY <2>1, <1>b, <1>t
  <2> QED
    BY <2>1, <2>2 DEF RunsIt
<1>c. ASSUME NEW below \in Seq(Act), NEW withCallback \in BOOLEAN,
             Exec(callbackId + 1, withCallback, below), UNCHANGED runs,
             OnLoops(below), LoopIn(below), HasMessage(below, Len(below), messagesFromNative),
             Len(below) = Len(stack),
             \A i \in 1..Len(stack) : stack[i].at = "callback" => below[i] = stack[i]
      PROVE  Once'
  <2>1. callbackId + 1 \in Nat \ {0} /\ callbackId <= callbackId + 1
    BY <1>t DEF Types
  <2>2. /\ stack' \in Seq(Act) /\ callbackId' = callbackId + 1
        /\ callbacks' \subseteq callbacks \cup {callbackId + 1}
        /\ Len(below) <= Len(stack') /\ \A i \in 1..Len(below) : stack'[i] = below[i]
    BY <1>c, <1>t, <2>1, ExecNests
  <2>3. \A c \in Ids : RunsIt(stack, c) => RunsIt(stack', c)
    BY <1>b, <1>c, <2>2
  <2>4. \A c \in Ids \cap callbacks' : c \in callbacks \/ c > callbackId
    <3>1. callbackId + 1 > callbackId
      BY <1>t DEF Types
    <3> QED
      BY <2>2, <3>1
  <2> QED
    BY <1>c, <1>t, <2>1, <2>2, <2>3, <2>4, RunsOn
<1>d. ASSUME Idle, UNCHANGED <<runs, callbackId, callbacks>> PROVE Once'
  <2>1. \A c \in Ids : ~RunsIt(stack, c)
    BY <1>d DEF Idle, RunsIt
  <2> QED
    BY <1>a, <1>d, <2>1
<1>e. ASSUME UNCHANGED <<runs, callbackId, callbacks, stack>> PROVE Once'
  BY <1>a, <1>e
<1>f. ASSUME stack # <<>>, stack[Len(stack)].at # "callback", stack' = Front(stack),
             UNCHANGED <<runs, callbackId, callbacks>>
      PROVE  Once'
  <2>1. /\ Len(stack') = Len(stack) - 1 /\ Len(stack) \in Nat \ {0}
        /\ \A i \in 1..Len(stack) - 1 : stack'[i] = stack[i]
    BY <1>f, <1>t, FrontFacts
  <2>2. \A i \in 1..Len(stack) : stack[i].at = "callback" => i \in 1..Len(stack) - 1
    BY <1>f, <2>1
  <2>3. \A c \in Ids : RunsIt(stack, c) => RunsIt(stack', c)
    BY <2>1, <2>2 DEF RunsIt
  <2> QED
    BY <1>a, <1>f, <2>3
<1>1. CASE RetryCall
  <2>1. PICK below \in Seq(Act) :
          /\ Exec(callbackId + 1, TRUE, below)
          /\ OnLoops(below) /\ LoopIn(below)
          /\ HasMessage(below, Len(below), messagesFromNative)
          /\ Len(below) = Len(stack)
          /\ \A i \in 1..Len(stack) : stack[i].at = "callback" => below[i] = stack[i]
    BY <1>1, <1>t, RetryBelow
  <2>2. UNCHANGED runs
    BY <1>1 DEF RetryCall
  <2> QED
    BY <1>c, <2>1, <2>2
<1>2. CASE AndroidExec
  <2>1. PICK withCallback \in BOOLEAN : Exec(callbackId + 1, withCallback, stack)
    BY <1>2 DEF AndroidExec
  <2>2. OnLoops(stack) /\ LoopIn(stack) /\ HasMessage(stack, Len(stack), messagesFromNative)
    <3>1. stack = <<>> \/ Last(stack).at # "processMessages"
      BY <1>2 DEF AndroidExec, MayCall, Idle, Running
    <3> QED
      BY <1>t, <3>1, BelowFits
  <2>3. UNCHANGED runs
    BY <1>2 DEF AndroidExec
  <2> QED
    BY <1>c, <1>t, <2>1, <2>2, <2>3
<1>3. CASE AndroidExecNullArguments
  <2>1. /\ stack' = Append(stack, Retry) /\ UNCHANGED runs
        /\ callbackId' = callbackId + 1 /\ callbacks' = callbacks \cup {callbackId + 1}
    BY <1>3 DEF AndroidExecNullArguments
  <2>2. Retry \in Act
    BY DEF Retry, Activation, Act
  <2>3. /\ Len(stack') = Len(stack) + 1
        /\ \A i \in 1..Len(stack) : stack'[i] = stack[i]
    BY <2>1, <2>2, <1>t
  <2>4. \A c \in Ids : RunsIt(stack, c) => RunsIt(stack', c)
    BY <2>3, <1>t DEF RunsIt
  <2>5. callbackId' \in Nat /\ callbackId <= callbackId' /\ callbackId + 1 > callbackId
    BY <2>1, <1>t DEF Types
  <2>6. \A c \in Ids \cap callbacks' : c \in callbacks \/ c > callbackId
    BY <2>1, <2>5
  <2> QED
    BY <1>t, <2>1, <2>4, <2>5, <2>6, RunsOn
<1>4. CASE RetryRestore
  <2>1. stack # <<>> /\ Last(stack).at = "restore" /\ stack' = Front(stack)
    BY <1>4 DEF RetryRestore, Running, Idle
  <2>2. UNCHANGED <<runs, callbackId, callbacks>>
    BY <1>4 DEF RetryRestore, table
  <2> QED
    BY <1>f, <2>1, <2>2 DEF Last
<1>5. CASE LoopEnds
  <2>1. stack # <<>> /\ Last(stack).at = "processMessages" /\ stack' = Front(stack)
    BY <1>5 DEF LoopEnds, Running, Idle
  <2>2. UNCHANGED <<runs, callbackId, callbacks>>
    BY <1>5 DEF LoopEnds, table
  <2> QED
    BY <1>f, <2>1, <2>2 DEF Last
<1>6. CASE LoopStar
  <2>1. stack # <<>> /\ Last(stack).at = "processMessages" /\ stack' = Front(stack)
    BY <1>6 DEF LoopStar, Running, Idle
  <2>2. UNCHANGED <<runs, callbackId, callbacks>>
    BY <1>6 DEF LoopStar, table
  <2> QED
    BY <1>f, <2>1, <2>2 DEF Last
<1>7. CASE LoopMessage
  <2> DEFINE m == Head(Head(messagesFromNative))
  <2>1. UNCHANGED callbackId
    BY <1>7 DEF LoopMessage
  <2>2. CASE ~RunsHandler(m)
    <3>1. callbacks' \subseteq callbacks /\ UNCHANGED <<stack, runs>>
      BY <1>7, <2>2 DEF LoopMessage
    <3> QED
      BY <1>a, <2>1, <3>1
  <2>3. CASE RunsHandler(m)
    <3>1. /\ UNCHANGED callbacks
          /\ runs' = [runs EXCEPT ![m.id] = @ + (IF m.keep THEN 0 ELSE 1)]
      BY <1>7, <2>3 DEF LoopMessage
    <3>2. /\ m.id \in callbacks /\ Len(stack) + 1 \in 1..Len(stack')
          /\ stack'[Len(stack) + 1] = Activation("callback", m.id, m.keep)
      BY <1>7, <1>t, <2>3, LoopMessagePushes
    <3>3. Running("processMessages")
      BY <1>7 DEF LoopMessage
    <3>4. \A c \in Ids : ~RunsIt(stack, c)
      BY <1>t, <3>3, LoopRunsAlone DEF RunsIt
    <3>5. \A c \in Quiet : c \in callbacks => runs[c] = 0
      BY <1>t, <3>4 DEF Once, Types, Quiet
    <3> HIDE DEF m
    <3>6. \A c \in Ids : c # m.id => runs'[c] = runs[c]
      BY <3>1, <1>t DEF Types
    <3>7. m.id \in Quiet => runs'[m.id] = (IF m.keep THEN 0 ELSE 1)
      BY <3>1, <3>2, <3>5, <1>t DEF Types, Quiet
    <3>8. ~m.keep => RunsIt(stack', m.id)
      BY <3>2 DEF RunsIt, Activation
    <3>9. m.id <= callbackId /\ m.id \in Int /\ callbackId \in Nat
      <4>1. callbacks \subseteq 1..callbackId /\ callbackId \in Nat
        BY <1>t DEF Types
      <4>2. m.id \in 1..callbackId
        BY <3>2, <4>1
      <4> QED
        BY <4>1, <4>2
    <3> SUFFICES ASSUME NEW c \in Quiet
                 PROVE  /\ runs'[c] <= 1 /\ (c > callbackId => runs'[c] = 0)
                        /\ runs'[c] = 1 /\ c \in callbacks => RunsIt(stack', c)
      BY <2>1, <3>1 DEF Once
    <3>10. CASE c # m.id
      BY <3>5, <3>6, <3>10, <1>t DEF Once, Quiet
    <3>11. CASE c = m.id
      <4>1. runs'[c] = (IF m.keep THEN 0 ELSE 1) /\ ~(c > callbackId)
        BY <3>7, <3>9, <3>11
      <4> QED
        BY <3>8, <3>11, <4>1
    <3> QED
      BY <3>10, <3>11
  <2> QED
    BY <2>2, <2>3
<1>8. CASE CallbackEnds
  <2>1. /\ stack # <<>> /\ stack[Len(stack)].at = "callback"
        /\ UNCHANGED <<runs, callbackId>>
        /\ \/ callbacks' = Cleared(stack[Len(stack)])
           \/ stack[Len(stack)].id \in Throwing /\ UNCHANGED callbacks
    BY <1>8 DEF CallbackEnds, Running, Idle, Last
  <2>2. ASSUME NEW i \in 1..Len(stack), stack[i].at = "callback" PROVE i = Len(stack)
    <3>1. /\ i - 1 \in 1..Len(stack) /\ stack[i - 1].at = "processMessages"
          /\ Len(stack) - 1 \in 1..Len(stack)
          /\ stack[Len(stack) - 1].at = "processMessages"
      BY <2>1, <2>2, <1>t DEF Nesting, OnLoops
    <3>2. i - 1 = Len(stack) - 1
      BY <3>1, <1>t DEF Nesting, LoopIn
    <3> QED
      BY <3>2, <1>t
  <2>3. ASSUME NEW c \in Quiet, c \in callbacks', runs[c] = 1 PROVE FALSE
    <3>1. c \in callbacks /\ ~(c = stack[Len(stack)].id /\ ~stack[Len(stack)].keep)
      BY <2>1, <2>3 DEF Cleared, Quiet
    <3>2. RunsIt(stack, c)
      BY <2>3, <3>1, <1>t DEF Once
    <3> QED
      BY <2>2, <3>1, <3>2 DEF RunsIt
  <2> QED
    BY <2>1, <2>3, <1>t DEF Once
<1>9. CASE PollTimer
  <2>1. Idle /\ UNCHANGED <<runs, callbackId, callbacks>>
    BY <1>9 DEF PollTimer, table
  <2> QED
    BY <1>d, <2>1
<1>10. CASE PollingTimer
  <2>1. Idle /\ UNCHANGED <<runs, callbackId, callbacks>>
    BY <1>10 DEF PollingTimer, table
  <2> QED
    BY <1>d, <2>1
<1>11. CASE PollOnceFromOnlineEvent
  <2>1. Idle /\ UNCHANGED <<runs, callbackId, callbacks>>
    BY <1>11 DEF PollOnceFromOnlineEvent, table
  <2> QED
    BY <1>d, <2>1
<1>12. CASE SetNativeToJsBridgeMode
  <2>1. UNCHANGED <<runs, callbackId, callbacks, stack>>
    BY <1>12 DEF SetNativeToJsBridgeMode, table
  <2> QED
    BY <1>e, <2>1
<1>13. CASE NativeAnswer
  <2>1. UNCHANGED <<runs, callbackId, callbacks, stack>>
    BY <1>13 DEF NativeAnswer, table
  <2> QED
    BY <1>e, <2>1
<1>14. CASE UNCHANGED vars
  <2>1. UNCHANGED <<runs, callbackId, callbacks, stack>>
    BY <1>14 DEF vars, table
  <2> QED
    BY <1>e, <2>1
<1> QED
  BY <1>1, <1>2, <1>3, <1>4, <1>5, <1>6, <1>7, <1>8, <1>9, <1>10, <1>11, <1>12, <1>13, <1>14
  DEF Next, Run

LEMMA OnceInductive == Spec => []OnceInv
<1>1. Init => OnceInv
  <2> SUFFICES ASSUME Init PROVE OnceInv
    OBVIOUS
  <2>1. \A c \in Ids : runs[c] = 0 /\ c \notin callbacks
    BY DEF Init
  <2>2. Once
    BY <2>1 DEF Once, Quiet
  <2> QED
    BY <2>2, IInvInit DEF OnceInv
<1>2. OnceInv /\ [Next]_vars => OnceInv'
  <2>1. OnceInv /\ [Next]_vars => Once'
    BY OnceNext
  <2>2. OnceInv /\ [Next]_vars => IInv'
    BY IInvNext DEF OnceInv
  <2> QED
    BY <2>1, <2>2 DEF OnceInv
<1> QED
  BY <1>1, <1>2, PTL DEF Spec

(* A callback that does not throw runs once for a result after which no    *)
(* more are expected, also when the native side sends that result twice    *)
(* and whatever other callbacks throw.                                     *)
THEOREM CallbacksOnce == Spec => []OnceCallbacksRunOnce
<1>1. OnceInv => OnceCallbacksRunOnce
  BY DEF OnceInv, Once, OnceCallbacksRunOnce, Quiet
<1> QED
  BY <1>1, OnceInductive, PTL

(* A callback that does not throw and has had its last result is out of    *)
(* the table when its activation is over, whatever other callbacks throw.  *)
THEOREM AnsweredCleared == Spec => []AnsweredCallbacksCleared
<1>1. OnceInv => AnsweredCallbacksCleared
  <2> SUFFICES ASSUME OnceInv, NEW c \in Quiet, c \in callbacks, runs[c] # 0
               PROVE  \E i \in 1..Len(stack) : stack[i].at = "callback" /\ stack[i].id = c
    BY DEF AnsweredCallbacksCleared, Quiet
  <2>1. runs[c] = 1
    BY DEF OnceInv, IInv, Types, Once, Quiet
  <2> QED
    BY <2>1 DEF OnceInv, Once, RunsIt
<1> QED
  BY <1>1, OnceInductive, PTL

-----------------------------------------------------------------------------
(* While polling is on some timer polls, however often and in whatever     *)
(* order the modes are switched.                                           *)
THEOREM PollingKept == Spec => []PollingGoesOn
<1> DEFINE I == IInv /\ PollingGoesOn
<1>1. Init => I
  BY IInvInit DEF Init, PollingGoesOn
<1>2. I /\ [Next]_vars => I'
  <2> SUFFICES ASSUME IInv, PollingGoesOn, [Next]_vars PROVE PollingGoesOn'
    BY IInvNext
  <2>t. pollers \in Nat
    BY DEF IInv, Types
  <2>1. CASE UNCHANGED <<pollEnabled, pollers>>
    BY <2>1 DEF PollingGoesOn
  <2>2. CASE PollingTimer
    BY <2>2, <2>t DEF PollingTimer, PollingGoesOn
  <2>3. CASE SetNativeToJsBridgeMode
    <3>1. PICK mode \in {"POLLING", "ONLINE_EVENT"} :
            /\ pollEnabled' = (mode = "POLLING")
            /\ pollers' = IF mode = "POLLING" THEN WithPoller ELSE pollers
      BY <2>3 DEF SetNativeToJsBridgeMode
    <3>2. CASE mode = "POLLING"
      <4>1. pollers' > 0
        BY <3>1, <3>2, <2>t DEF WithPoller
      <4> QED
        BY <4>1 DEF PollingGoesOn
    <3>3. CASE mode # "POLLING"
      <4>1. ~pollEnabled'
        BY <3>1, <3>3
      <4> QED
        BY <4>1 DEF PollingGoesOn
    <3> QED
      BY <3>2, <3>3
  <2>4. CASE RetryCall \/ RetryRestore \/ LoopEnds \/ LoopStar
    BY <2>1, <2>4 DEF RetryCall, RetryRestore, LoopEnds, LoopStar, timers
  <2>5. CASE LoopMessage \/ CallbackEnds \/ AndroidExec \/ AndroidExecNullArguments
    BY <2>1, <2>5 DEF LoopMessage, CallbackEnds, AndroidExec, AndroidExecNullArguments, timers
  <2>6. CASE PollTimer \/ PollOnceFromOnlineEvent \/ NativeAnswer \/ UNCHANGED vars
    BY <2>1, <2>6 DEF PollTimer, PollOnceFromOnlineEvent, NativeAnswer, vars, timers
  <2> QED
    BY <2>2, <2>3, <2>4, <2>5, <2>6 DEF Next, Run
<1> QED
  BY <1>1, <1>2, PTL DEF Spec

(* What the bridge keeps however calls, chunks and callbacks nest.         *)
THEOREM BridgeIsSafe == Spec => []BridgeSafe
<1> QED
  BY OneLoopRuns, CallbacksOnce, AnsweredCleared, PollingKept, PTL DEF BridgeSafe

-----------------------------------------------------------------------------
(* The order of the messages, over any chunks and any queue: at the places *)
(* that wait are the numbers from lo + 1 to hi, in this order.             *)
Stays(lines, skip, k, i) ==
  /\ k \in 1..Len(lines) /\ i \in 1..Len(lines[k]) /\ lines[k][i] # Star
  /\ ~(skip /\ k = 1 /\ i = 1)
InRange(lines, skip, lo, hi) ==
  \A k, i \in Nat : Stays(lines, skip, k, i) => lo < lines[k][i].n /\ lines[k][i].n <= hi
AllThere(lines, skip, lo, hi) ==
  \A n \in (lo + 1)..hi : \E k, i \in Nat : Stays(lines, skip, k, i) /\ lines[k][i].n = n
Rising(lines, skip) ==
  \A k, i, l, j \in Nat :
    Stays(lines, skip, k, i) /\ Stays(lines, skip, l, j) /\ (k < l \/ (k = l /\ i < j))
      => lines[k][i].n < lines[l][j].n
Ordered(lines, skip, lo, hi) ==
  InRange(lines, skip, lo, hi) /\ AllThere(lines, skip, lo, hi) /\ Rising(lines, skip)

(* Only the last message of a chunk may be a star, and none waits on the   *)
(* native side.                                                            *)
StarsLast(chunks) ==
  \A k \in 1..Len(chunks) : \A i \in 1..Len(chunks[k]) :
    chunks[k][i] = Star => i = Len(chunks[k])
NoStar(q) == \A i \in 1..Len(q) : q[i] # Star

LEMMA WaitType ==
  ASSUME NEW lines \in Seq(Seq(Msg)), NEW skip, NEW k, NEW i, Stays(lines, skip, k, i)
  PROVE  lines[k][i] \in Msg /\ lines[k][i].n \in Nat
<1>1. lines[k] \in Seq(Msg)
  BY DEF Stays
<1>2. lines[k][i] \in Msg
  BY <1>1 DEF Stays
<1> QED
  BY <1>2 DEF Msg

(* The native side makes a message.                                        *)
LEMMA LineAppends ==
  ASSUME NEW c \in Seq(Seq(Msg)), NEW q \in Seq(Msg), NEW m \in Msg, m # Star,
         NEW skip \in BOOLEAN, NEW lo \in Nat, NEW hi \in Nat, lo <= hi, m.n = hi + 1,
         skip => c # <<>>, Ordered(Append(c, q), skip, lo, hi)
  PROVE  Ordered(Append(c, Append(q, m)), skip, lo, hi + 1)
<1> DEFINE old == Append(c, q)
           new == Append(c, Append(q, m))
<1>1. /\ Len(old) = Len(c) + 1 /\ Len(new) = Len(c) + 1 /\ Len(c) \in Nat /\ Len(q) \in Nat
      /\ Append(q, m) \in Seq(Msg) /\ Len(Append(q, m)) = Len(q) + 1
      /\ new[Len(c) + 1] = Append(q, m) /\ old[Len(c) + 1] = q
      /\ \A k \in 1..Len(c) : new[k] = c[k] /\ old[k] = c[k]
      /\ \A i \in 1..Len(q) : Append(q, m)[i] = q[i]
      /\ Append(q, m)[Len(q) + 1] = m
      /\ \A k \in 1..Len(c) : c[k] \in Seq(Msg)
      /\ skip => Len(c) > 0
  OBVIOUS
<1>0. old \in Seq(Seq(Msg))
  OBVIOUS
<1> HIDE DEF old, new
<1>2. \A k, i \in Nat : Stays(new, skip, k, i) <=>
         \/ Stays(old, skip, k, i)
         \/ k = Len(c) + 1 /\ i = Len(q) + 1
  <2> SUFFICES ASSUME NEW k \in Nat, NEW i \in Nat
               PROVE  Stays(new, skip, k, i) <=> \/ Stays(old, skip, k, i)
                                                 \/ k = Len(c) + 1 /\ i = Len(q) + 1
    OBVIOUS
  <2>1. CASE k \in 1..Len(c)
    BY <2>1, <1>1 DEF Stays
  <2>2. CASE k = Len(c) + 1
    <3>1. i \in 1..Len(q) + 1 <=> i \in 1..Len(q) \/ i = Len(q) + 1
      BY <1>1
    <3> QED
      BY <2>2, <1>1, <3>1 DEF Stays
  <2>3. CASE k \notin 1..Len(c) + 1
    BY <2>3, <1>1 DEF Stays
  <2> QED
    BY <2>1, <2>2, <2>3, <1>1
<1>3. \A k, i \in Nat : Stays(old, skip, k, i) =>
         new[k][i] = old[k][i] /\ k <= Len(c) + 1 /\ (k = Len(c) + 1 => i <= Len(q))
  <2> SUFFICES ASSUME NEW k \in Nat, NEW i \in Nat, Stays(old, skip, k, i)
               PROVE  new[k][i] = old[k][i] /\ k <= Len(c) + 1 /\ (k = Len(c) + 1 => i <= Len(q))
    OBVIOUS
  <2>1. k \in 1..Len(c) \/ k = Len(c) + 1
    BY <1>1 DEF Stays
  <2>2. i \in 1..Len(old[k])
    BY DEF Stays
  <2>3. CASE k = Len(c) + 1
    BY <2>2, <2>3, <1>1
  <2>4. CASE k \in 1..Len(c)
    BY <2>4, <1>1
  <2> QED
    BY <2>1, <2>3, <2>4
<1>4. new[Len(c) + 1][Len(q) + 1].n = hi + 1
  BY <1>1
<1>5. Ordered(old, skip, lo, hi)
  BY DEF old
<1>6. InRange(new, skip, lo, hi + 1)
  <2> SUFFICES ASSUME NEW k \in Nat, NEW i \in Nat, Stays(new, skip, k, i)
               PROVE  lo < new[k][i].n /\ new[k][i].n <= hi + 1
    BY DEF InRange
  <2>1. CASE Stays(old, skip, k, i)
    <3>1. lo < old[k][i].n /\ old[k][i].n <= hi
      BY <2>1, <1>5 DEF Ordered, InRange
    <3>2. old[k][i].n \in Nat
      BY <2>1, <1>0, WaitType
    <3> QED
      BY <2>1, <1>3, <3>1, <3>2
  <2> QED
    BY <1>2, <1>4, <2>1
<1>7. AllThere(new, skip, lo, hi + 1)
  <2> SUFFICES ASSUME NEW n \in (lo + 1)..(hi + 1)
               PROVE  \E k, i \in Nat : Stays(new, skip, k, i) /\ new[k][i].n = n
    BY DEF AllThere
  <2>1. CASE n = hi + 1
    <3>1. Len(c) + 1 \in Nat /\ Len(q) + 1 \in Nat
      BY <1>1
    <3> QED
      BY <2>1, <3>1, <1>2, <1>4
  <2>2. CASE n \in (lo + 1)..hi
    <3>1. PICK k \in Nat, i \in Nat : Stays(old, skip, k, i) /\ old[k][i].n = n
      BY <2>2, <1>5 DEF Ordered, AllThere
    <3> QED
      BY <3>1, <1>2, <1>3
  <2>3. n = hi + 1 \/ n \in (lo + 1)..hi
    OBVIOUS
  <2> QED
    BY <2>1, <2>2, <2>3
<1>8. Rising(new, skip)
  <2> SUFFICES ASSUME NEW k \in Nat, NEW i \in Nat, NEW l \in Nat, NEW j \in Nat,
                      Stays(new, skip, k, i), Stays(new, skip, l, j),
                      k < l \/ (k = l /\ i < j)
               PROVE  new[k][i].n < new[l][j].n
    BY DEF Rising
  <2>1. Stays(old, skip, k, i)
    BY <1>1, <1>2, <1>3
  <2>2. CASE Stays(old, skip, l, j)
    BY <2>1, <2>2, <1>3, <1>5 DEF Ordered, Rising
  <2>3. CASE l = Len(c) + 1 /\ j = Len(q) + 1
    <3>1. old[k][i].n <= hi /\ old[k][i].n \in Nat
      BY <2>1, <1>0, <1>5, WaitType DEF Ordered, InRange
    <3> QED
      BY <2>3, <3>1, <2>1, <1>3, <1>4
  <2> QED
    BY <2>2, <2>3, <1>2
<1> QED
  BY <1>6, <1>7, <1>8 DEF Ordered, new

(* What the native side hands over, and what stays with it.                *)
LEMMA CutFacts ==
  ASSUME NEW q \in Seq(Msg)
  PROVE  /\ Encoded(q) \in Seq(Msg) /\ Remaining(q) \in Seq(Msg)
         /\ \A i \in 1..Len(q) : i <= ChunkSize => i \in 1..Len(Encoded(q)) /\ Encoded(q)[i] = q[i]
         /\ \A i \in 1..Len(Encoded(q)) :
              \/ i <= Len(q) /\ i <= ChunkSize /\ Encoded(q)[i] = q[i]
              \/ i = Len(Encoded(q)) /\ Encoded(q)[i] = Star
         /\ \A i \in Nat : i \in 1..Len(Remaining(q)) <=> i >= 1 /\ i + ChunkSize <= Len(q)
         /\ \A i \in 1..Len(Remaining(q)) : Remaining(q)[i] = q[i + ChunkSize]
<1>0. ChunkSize \in Nat \ {0} /\ Len(q) \in Nat
  BY BridgeAssumption
<1>1. Encoded(q) \in Seq(Msg) /\ Remaining(q) \in Seq(Msg)
  BY EncodedType
<1>2. /\ Len(Remaining(q)) = IF ChunkSize + 1 <= Len(q) THEN Len(q) - ChunkSize ELSE 0
      /\ \A i \in 1..Len(q) - ChunkSize : Remaining(q)[i] = q[i + ChunkSize]
  <2>1. \A i \in (ChunkSize + 1)..Len(q) : q[i] \in Msg
    BY <1>0
  <2>2. /\ Len(SubSeq(q, ChunkSize + 1, Len(q))) = IF ChunkSize + 1 <= Len(q) THEN Len(q) - (ChunkSize + 1) + 1 ELSE 0
        /\ \A i \in 1..Len(q) - (ChunkSize + 1) + 1 :
             SubSeq(q, ChunkSize + 1, Len(q))[i] = q[ChunkSize + 1 + i - 1]
    BY <1>0, <2>1, SubSeqProperties
  <2>3. \A i \in 1..Len(q) - ChunkSize : ChunkSize + 1 + i - 1 = i + ChunkSize
    BY <1>0
  <2> QED
    BY <1>0, <2>2, <2>3 DEF Remaining
<1>3. CASE Len(q) > ChunkSize
  <2>1. /\ SubSeq(q, 1, ChunkSize) \in Seq(Msg) /\ Len(SubSeq(q, 1, ChunkSize)) = ChunkSize
        /\ \A i \in 1..ChunkSize : SubSeq(q, 1, ChunkSize)[i] = q[i]
    <3>1. \A i \in 1..ChunkSize : q[i] \in Msg
      BY <1>0, <1>3
    <3> QED
      BY <1>0, <1>3, <3>1, SubSeqProperties
  <2>2. /\ Len(Encoded(q)) = ChunkSize + 1 /\ Encoded(q)[ChunkSize + 1] = Star
        /\ \A i \in 1..ChunkSize : Encoded(q)[i] = q[i]
    BY <1>3, <2>1, <1>0 DEF Encoded
  <2> HIDE DEF Star
  <2>3. \A i \in 1..Len(q) : i <= ChunkSize => i \in 1..Len(Encoded(q)) /\ Encoded(q)[i] = q[i]
    BY <1>0, <2>2
  <2>4. \A i \in 1..Len(Encoded(q)) : i \in 1..ChunkSize \/ i = ChunkSize + 1
    BY <1>0, <2>2
  <2>5. \A i \in Nat : i \in 1..Len(Remaining(q)) <=> i >= 1 /\ i + ChunkSize <= Len(q)
    BY <1>0, <1>2, <1>3
  <2>6. \A i \in 1..Len(Remaining(q)) : Remaining(q)[i] = q[i + ChunkSize]
    BY <1>0, <1>2, <1>3
  <2>7. \A i \in 1..Len(Encoded(q)) :
          \/ i <= Len(q) /\ i <= ChunkSize /\ Encoded(q)[i] = q[i]
          \/ i = Len(Encoded(q)) /\ Encoded(q)[i] = Star
    BY <1>0, <1>3, <2>2, <2>4
  <2> QED
    BY <1>1, <2>3, <2>5, <2>6, <2>7
<1>4. CASE ~(Len(q) > ChunkSize)
  BY <1>1, <1>2, <1>4, <1>0 DEF Encoded
<1> QED
  BY <1>3, <1>4

(* The native side hands over what fits in a chunk.                        *)
LEMMA LineCut ==
  ASSUME NEW c \in Seq(Seq(Msg)), NEW q \in Seq(Msg), NoStar(q), NEW skip \in BOOLEAN,
         skip => c # <<>>, NEW lo \in Nat, NEW hi \in Nat,
         Ordered(Append(c, q), skip, lo, hi)
  PROVE  Ordered(Append(Append(c, Encoded(q)), Remaining(q)), skip, lo, hi)
<1> DEFINE old == Append(c, q)
           new == Append(Append(c, Encoded(q)), Remaining(q))
           K == Len(c)
<1>0. ChunkSize \in Nat \ {0} /\ K \in Nat /\ Len(q) \in Nat
  BY BridgeAssumption
<1>1. Encoded(q) \in Seq(Msg) /\ Remaining(q) \in Seq(Msg)
  BY EncodedType
<1>2. /\ old \in Seq(Seq(Msg)) /\ new \in Seq(Seq(Msg))
      /\ Len(old) = K + 1 /\ Len(new) = K + 2
      /\ old[K + 1] = q /\ new[K + 1] = Encoded(q) /\ new[K + 2] = Remaining(q)
      /\ \A k \in 1..K : old[k] = c[k] /\ new[k] = c[k]
      /\ skip => K > 0
  BY <1>1
<1>3. Ordered(old, skip, lo, hi)
  OBVIOUS
<1> HIDE DEF old, new, K
<1>4. ASSUME NEW k \in Nat, NEW i \in Nat, Stays(new, skip, k, i), k # K + 2
      PROVE  /\ Stays(old, skip, k, i) /\ new[k][i] = old[k][i]
             /\ k <= K + 1 /\ (k = K + 1 => i <= ChunkSize)
  <2>1. k \in 1..Len(new) /\ i \in 1..Len(new[k]) /\ new[k][i] # Star
    BY <1>4 DEF Stays
  <2>2. k \in 1..K \/ k = K + 1
    <3>1. Len(new) = K + 2
      BY <1>2
    <3> QED
      BY <1>0, <1>4, <2>1, <3>1
  <2>3. CASE k \in 1..K
    <3>1. new[k] = old[k]
      BY <1>2, <2>3
    <3>2. k \in 1..Len(old) /\ k <= K + 1 /\ k # K + 1
      BY <1>0, <1>2, <2>3
    <3>3. ~(skip /\ k = 1 /\ i = 1)
      BY <1>4 DEF Stays
    <3>4. i \in 1..Len(old[k]) /\ old[k][i] # Star
      BY <2>1, <3>1
    <3>5. Stays(old, skip, k, i)
      BY <3>2, <3>3, <3>4 DEF Stays
    <3> QED
      BY <3>1, <3>2, <3>5
  <2>4. CASE k = K + 1
    <3>1. i \in 1..Len(Encoded(q)) /\ Encoded(q)[i] # Star
      BY <1>2, <2>1, <2>4
    <3>2. i \in 1..Len(q) /\ Encoded(q)[i] = q[i] /\ i <= ChunkSize
      BY <3>1, <1>0, CutFacts
    <3>3. k \in 1..Len(old) /\ k <= K + 1 /\ ~(skip /\ k = 1 /\ i = 1)
      BY <1>0, <1>2, <1>4, <2>4 DEF Stays
    <3>4. i \in 1..Len(old[k]) /\ old[k][i] # Star /\ new[k][i] = old[k][i]
      BY <1>2, <2>4, <3>1, <3>2
    <3>5. Stays(old, skip, k, i)
      BY <3>3, <3>4 DEF Stays
    <3> QED
      BY <3>2, <3>3, <3>4, <3>5
  <2> QED
    BY <2>2, <2>3, <2>4
<1>5. ASSUME NEW i \in Nat, Stays(new, skip, K + 2, i)
      PROVE  /\ Stays(old, skip, K + 1, i + ChunkSize) /\ i >= 1
             /\ new[K + 2][i] = old[K + 1][i + ChunkSize]
  <2>1. i \in 1..Len(Remaining(q))
    BY <1>2, <1>5 DEF Stays
  <2>2. i + ChunkSize \in 1..Len(q) /\ Remaining(q)[i] = q[i + ChunkSize] /\ i >= 1
    BY <1>0, <2>1, CutFacts
  <2>3. q[i + ChunkSize] # Star
    BY <2>2 DEF NoStar
  <2> QED
    BY <1>0, <1>2, <2>2, <2>3 DEF Stays
<1>6. ASSUME NEW k \in Nat, NEW i \in Nat, Stays(old, skip, k, i)
      PROVE  \E l, j \in Nat : Stays(new, skip, l, j) /\ new[l][j] = old[k][i]
  <2>1. k \in 1..Len(old) /\ i \in 1..Len(old[k]) /\ old[k][i] # Star
    BY <1>6 DEF Stays
  <2>2. k \in 1..K \/ k = K + 1
    BY <1>0, <1>2, <2>1
  <2>3. CASE k \in 1..K
    <3>1. new[k] = old[k] /\ k \in 1..Len(new)
      BY <1>0, <1>2, <2>3
    <3>2. Stays(new, skip, k, i) /\ new[k][i] = old[k][i]
      BY <1>6, <2>1, <3>1 DEF Stays
    <3> QED
      BY <3>2
  <2>4. CASE k = K + 1 /\ i <= ChunkSize
    <3>1. i \in 1..Len(q) /\ q[i] # Star
      BY <1>2, <2>1, <2>4
    <3>2. i \in 1..Len(Encoded(q)) /\ Encoded(q)[i] = q[i]
      BY <2>4, <3>1, CutFacts
    <3>3. Stays(new, skip, k, i) /\ new[k][i] = old[k][i]
      BY <1>0, <1>2, <1>6, <2>4, <3>1, <3>2 DEF Stays
    <3> QED
      BY <3>3
  <2>5. CASE k = K + 1 /\ ~(i <= ChunkSize)
    <3> DEFINE j == i - ChunkSize
    <3>1. i \in 1..Len(q) /\ q[i] # Star
      BY <1>2, <2>1, <2>5
    <3>2. j \in Nat /\ j >= 1 /\ j + ChunkSize = i /\ j + ChunkSize <= Len(q)
      BY <1>0, <2>5, <3>1
    <3> HIDE DEF j
    <3>3. j \in 1..Len(Remaining(q)) /\ Remaining(q)[j] = q[i]
      BY <3>2, CutFacts
    <3>4. Stays(new, skip, K + 2, j) /\ new[K + 2][j] = old[k][i] /\ K + 2 \in Nat
      BY <1>0, <1>2, <2>5, <3>1, <3>3 DEF Stays
    <3> QED
      BY <3>2, <3>4
  <2> QED
    BY <2>2, <2>3, <2>4, <2>5
<1>7. K + 1 \in Nat /\ K + 2 \in Nat /\ \A i \in Nat : i + ChunkSize \in Nat
  BY <1>0
<1>8. InRange(new, skip, lo, hi)
  <2> SUFFICES ASSUME NEW k \in Nat, NEW i \in Nat, Stays(new, skip, k, i)
               PROVE  lo < new[k][i].n /\ new[k][i].n <= hi
    BY DEF InRange
  <2>1. CASE k = K + 2
    <3>1. Stays(old, skip, K + 1, i + ChunkSize) /\ new[k][i] = old[K + 1][i + ChunkSize]
      BY <2>1, <1>5
    <3> QED
      BY <3>1, <1>3, <1>7 DEF Ordered, InRange
  <2>2. CASE k # K + 2
    <3>1. Stays(old, skip, k, i) /\ new[k][i] = old[k][i]
      BY <2>2, <1>4
    <3> QED
      BY <3>1, <1>3 DEF Ordered, InRange
  <2> QED
    BY <2>1, <2>2
<1>9. AllThere(new, skip, lo, hi)
  <2> SUFFICES ASSUME NEW n \in (lo + 1)..hi
               PROVE  \E k, i \in Nat : Stays(new, skip, k, i) /\ new[k][i].n = n
    BY DEF AllThere
  <2>1. PICK k \in Nat, i \in Nat : Stays(old, skip, k, i) /\ old[k][i].n = n
    BY <1>3 DEF Ordered, AllThere
  <2>2. PICK l \in Nat, j \in Nat : Stays(new, skip, l, j) /\ new[l][j] = old[k][i]
    BY <2>1, <1>6
  <2> QED
    BY <2>1, <2>2
<1>10. Rising(new, skip)
  <2> SUFFICES ASSUME NEW k \in Nat, NEW i \in Nat, NEW l \in Nat, NEW j \in Nat,
                      Stays(new, skip, k, i), Stays(new, skip, l, j),
                      k < l \/ (k = l /\ i < j)
               PROVE  new[k][i].n < new[l][j].n
    BY DEF Rising
  <2>0. l <= K + 2
    BY <1>2 DEF Stays
  <2>1. CASE k = K + 2
    <3>1. /\ Stays(old, skip, K + 1, i + ChunkSize) /\ new[k][i] = old[K + 1][i + ChunkSize]
          /\ Stays(old, skip, K + 1, j + ChunkSize) /\ new[l][j] = old[K + 1][j + ChunkSize]
          /\ i + ChunkSize < j + ChunkSize
      <4>1. l = K + 2 /\ i < j
        BY <1>0, <2>0, <2>1
      <4>2. Stays(old, skip, K + 1, i + ChunkSize) /\ new[k][i] = old[K + 1][i + ChunkSize]
        BY <1>5, <2>1
      <4>3. Stays(old, skip, K + 1, j + ChunkSize) /\ new[l][j] = old[K + 1][j + ChunkSize]
        BY <1>5, <4>1
      <4>4. i + ChunkSize < j + ChunkSize
        BY <1>0, <4>1
      <4> QED
        BY <4>2, <4>3, <4>4
    <3> QED
      BY <3>1, <1>3, <1>7 DEF Ordered, Rising
  <2>2. CASE k # K + 2 /\ l = K + 2
    <3>1. /\ Stays(old, skip, k, i) /\ new[k][i] = old[k][i]
          /\ k <= K + 1 /\ (k = K + 1 => i <= ChunkSize)
      BY <1>4, <2>2
    <3>2. /\ Stays(old, skip, K + 1, j + ChunkSize) /\ new[l][j] = old[K + 1][j + ChunkSize]
          /\ j >= 1
      BY <1>5, <2>2
    <3>3. k < K + 1 \/ (k = K + 1 /\ i < j + ChunkSize)
      BY <1>0, <3>1, <3>2
    <3> QED
      BY <3>1, <3>2, <3>3, <1>3, <1>7 DEF Ordered, Rising
  <2>3. CASE k # K + 2 /\ l # K + 2
    <3>1. /\ Stays(old, skip, k, i) /\ new[k][i] = old[k][i]
          /\ Stays(old, skip, l, j) /\ new[l][j] = old[l][j]
      BY <1>4, <2>3
    <3> QED
      BY <3>1, <1>3 DEF Ordered, Rising
  <2> QED
    BY <2>1, <2>2, <2>3
<1>11. Ordered(new, skip, lo, hi)
  BY <1>8, <1>9, <1>10 DEF Ordered
<1> QED
  BY <1>11 DEF new

(* The first message is taken: processMessage gets the next number, and no *)
(* other waits before it.                                                  *)
LEMMA LineServes ==
  ASSUME NEW lines \in Seq(Seq(Msg)), NEW lo \in Nat, NEW hi \in Nat,
         Ordered(lines, FALSE, lo, hi),
         1 \in 1..Len(lines), 1 \in 1..Len(lines[1]), lines[1][1] # Star
  PROVE  /\ lines[1][1].n = lo + 1 /\ lo + 1 <= hi
         /\ Ordered(lines, TRUE, lo + 1, hi)
<1>1. Stays(lines, FALSE, 1, 1) /\ lines[1][1].n \in Nat
  BY WaitType DEF Stays
<1>2. lo < lines[1][1].n /\ lines[1][1].n <= hi
  BY <1>1 DEF Ordered, InRange
<1>3. ASSUME NEW k \in Nat, NEW i \in Nat, Stays(lines, FALSE, k, i), ~(k = 1 /\ i = 1)
      PROVE  lines[1][1].n < lines[k][i].n
  <2>1. k >= 1 /\ i >= 1
    BY <1>3 DEF Stays
  <2>2. 1 < k \/ (1 = k /\ 1 < i)
    BY <1>3, <2>1
  <2>3. Rising(lines, FALSE)
    BY DEF Ordered
  <2>4. 1 \in Nat
    OBVIOUS
  <2> QED
    BY <1>1, <1>3, <2>2, <2>3, <2>4 DEF Rising
<1>4. lines[1][1].n = lo + 1
  <2>1. PICK k \in Nat, i \in Nat : Stays(lines, FALSE, k, i) /\ lines[k][i].n = lo + 1
    <3>1. lo + 1 \in (lo + 1)..hi
      BY <1>1, <1>2
    <3> QED
      BY <3>1 DEF Ordered, AllThere
  <2>2. CASE k = 1 /\ i = 1
    BY <2>1, <2>2
  <2>3. CASE ~(k = 1 /\ i = 1)
    <3>1. lines[1][1].n < lo + 1
      BY <1>3, <2>1, <2>3
    <3> QED
      BY <1>1, <1>2, <3>1
  <2> QED
    BY <2>2, <2>3
<1>5. \A k, i \in Nat :
        Stays(lines, TRUE, k, i) <=> Stays(lines, FALSE, k, i) /\ ~(k = 1 /\ i = 1)
  BY DEF Stays
<1>6. InRange(lines, TRUE, lo + 1, hi)
  <2> SUFFICES ASSUME NEW k \in Nat, NEW i \in Nat, Stays(lines, TRUE, k, i)
               PROVE  lo + 1 < lines[k][i].n /\ lines[k][i].n <= hi
    BY DEF InRange
  <2> QED
    BY <1>3, <1>4, <1>5 DEF Ordered, InRange
<1>7. AllThere(lines, TRUE, lo + 1, hi)
  <2> SUFFICES ASSUME NEW n \in (lo + 1 + 1)..hi
               PROVE  \E k, i \in Nat : Stays(lines, TRUE, k, i) /\ lines[k][i].n = n
    BY DEF AllThere
  <2>1. n \in (lo + 1)..hi /\ n # lo + 1
    OBVIOUS
  <2>2. PICK k \in Nat, i \in Nat : Stays(lines, FALSE, k, i) /\ lines[k][i].n = n
    BY <2>1 DEF Ordered, AllThere
  <2> QED
    BY <1>4, <1>5, <2>1, <2>2
<1>8. Rising(lines, TRUE)
  BY <1>5 DEF Ordered, Rising
<1> QED
  BY <1>1, <1>2, <1>4, <1>6, <1>7, <1>8 DEF Ordered

(* The loop drops the message it is done with: the first places move up.   *)
LEMMA LineShifts ==
  ASSUME NEW c \in Seq(Chunk), c # <<>>, NEW q \in Seq(Msg), NEW lo \in Nat, NEW hi \in Nat,
         Ordered(Append(c, q), TRUE, lo, hi)
  PROVE  Ordered(Append(Shifted(c), q), FALSE, lo, hi)
<1> DEFINE old == Append(c, q)
           new == Append(Shifted(c), q)
<1>1. /\ Shifted(c) \in Seq(Chunk) /\ Head(c) = c[1] /\ c[1] \in Seq(Msg)
      /\ Len(c) \in Nat \ {0} /\ Len(c[1]) \in Nat \ {0} /\ c \in Seq(Seq(Msg))
      /\ Shifted(c) \in Seq(Seq(Msg))
  <2>1. Shifted(c) \in Seq(Chunk)
    BY ShiftedType
  <2>2. Seq(Chunk) \subseteq Seq(Seq(Msg))
    BY SeqMonotonic DEF Chunk
  <2>3. c[1] \in Chunk /\ Len(c) \in Nat \ {0}
    OBVIOUS
  <2>4. c[1] \in Seq(Msg) /\ c[1] # <<>>
    BY <2>3 DEF Chunk
  <2> QED
    BY <2>1, <2>2, <2>3, <2>4
<1>2. Ordered(old, TRUE, lo, hi)
  OBVIOUS
<1>3. /\ Len(old) = Len(c) + 1 /\ old[Len(c) + 1] = q
      /\ \A k \in 1..Len(c) : old[k] = c[k]
  BY <1>1
<1>4. CASE Len(c[1]) > 1
  <2>1. Shifted(c) = [c EXCEPT ![1] = Tail(c[1])]
    BY <1>1, <1>4 DEF Shifted
  <2>2. /\ Tail(c[1]) \in Seq(Msg) /\ Len(Tail(c[1])) = Len(c[1]) - 1
        /\ \A i \in 1..Len(c[1]) - 1 : Tail(c[1])[i] = c[1][i + 1]
    BY <1>1
  <2>3. /\ Len(new) = Len(c) + 1 /\ new[Len(c) + 1] = q /\ new[1] = Tail(c[1])
        /\ \A k \in 2..Len(c) : new[k] = c[k]
    <3>1. Len(Shifted(c)) = Len(c) /\ Shifted(c)[1] = Tail(c[1])
      BY <1>1, <2>1, ExceptSeq
    <3>2. \A k \in 2..Len(c) : Shifted(c)[k] = c[k]
      BY <1>1, <2>1
    <3> QED
      BY <1>1, <3>1, <3>2
  <2> HIDE DEF old, new
  <2>4. \A i \in Nat : Stays(new, FALSE, 1, i) =>
          i + 1 \in Nat /\ Stays(old, TRUE, 1, i + 1) /\ new[1][i] = old[1][i + 1]
    <3> SUFFICES ASSUME NEW i \in Nat, Stays(new, FALSE, 1, i)
                 PROVE  i + 1 \in Nat /\ Stays(old, TRUE, 1, i + 1) /\ new[1][i] = old[1][i + 1]
      OBVIOUS
    <3>1. i \in 1..Len(c[1]) - 1 /\ new[1][i] # Star
      BY <1>1, <2>2, <2>3 DEF Stays
    <3>2. i + 1 \in 1..Len(c[1]) /\ new[1][i] = c[1][i + 1] /\ old[1] = c[1] /\ i + 1 # 1
      BY <1>1, <1>3, <2>2, <2>3, <3>1
    <3>3. 1 \in 1..Len(old) /\ i + 1 \in Nat
      BY <1>1, <1>3
    <3>4. i + 1 \in 1..Len(old[1]) /\ old[1][i + 1] # Star /\ new[1][i] = old[1][i + 1]
      BY <3>1, <3>2
    <3>5. Stays(old, TRUE, 1, i + 1)
      BY <3>2, <3>3, <3>4 DEF Stays
    <3> QED
      BY <3>3, <3>4, <3>5
  <2>5. \A i \in Nat : Stays(old, TRUE, 1, i) =>
          i - 1 \in Nat /\ Stays(new, FALSE, 1, i - 1) /\ new[1][i - 1] = old[1][i]
    <3> SUFFICES ASSUME NEW i \in Nat, Stays(old, TRUE, 1, i)
                 PROVE  i - 1 \in Nat /\ Stays(new, FALSE, 1, i - 1) /\ new[1][i - 1] = old[1][i]
      OBVIOUS
    <3>0. old[1] = c[1]
      BY <1>1, <1>3
    <3>1. i \in 1..Len(c[1]) /\ i # 1 /\ c[1][i] # Star /\ old[1] = c[1]
      BY <3>0 DEF Stays
    <3>2. i - 1 \in 1..Len(c[1]) - 1 /\ i - 1 + 1 = i
      BY <1>1, <3>1
    <3>3. Tail(c[1])[i - 1] = c[1][i]
      BY <2>2, <3>2
    <3>4. 1 \in 1..Len(new) /\ i - 1 \in Nat
      BY <1>1, <2>3, <3>2
    <3>5. /\ i - 1 \in 1..Len(new[1]) /\ new[1][i - 1] # Star
          /\ new[1][i - 1] = old[1][i]
      BY <2>2, <2>3, <3>1, <3>2, <3>3
    <3>6. Stays(new, FALSE, 1, i - 1)
      BY <3>4, <3>5 DEF Stays
    <3> QED
      BY <3>4, <3>5, <3>6
  <2>6. \A k, i \in Nat : k # 1 =>
          /\ Stays(old, TRUE, k, i) <=> Stays(new, FALSE, k, i)
          /\ Stays(new, FALSE, k, i) => new[k] = old[k]
    <3> SUFFICES ASSUME NEW k \in Nat, NEW i \in Nat, k # 1
                 PROVE  /\ Stays(old, TRUE, k, i) <=> Stays(new, FALSE, k, i)
                        /\ Stays(new, FALSE, k, i) => new[k] = old[k]
      OBVIOUS
    <3>1. CASE k \in 2..Len(c) + 1
      <4>0. k \in 2..Len(c) \/ k = Len(c) + 1
        BY <1>1, <3>1
      <4>1. CASE k = Len(c) + 1
        <5>1. new[k] = old[k] /\ k \in 1..Len(new) /\ k \in 1..Len(old)
          BY <1>1, <1>3, <2>3, <4>1
        <5> QED
          BY <3>1, <5>1 DEF Stays
      <4>2. CASE k \in 2..Len(c)
        <5>0. k \in 1..Len(c)
          BY <1>1, <4>2
        <5>1. new[k] = old[k]
          BY <1>3, <2>3, <4>2, <5>0
        <5>2. k \in 1..Len(new) /\ k \in 1..Len(old)
          BY <1>1, <1>3, <2>3, <5>0
        <5> QED
          BY <3>1, <5>1, <5>2 DEF Stays
      <4> QED
        BY <4>0, <4>1, <4>2
    <3>2. CASE k \notin 1..Len(c) + 1
      BY <1>1, <1>3, <2>3, <3>2 DEF Stays
    <3>3. k \in 2..Len(c) + 1 \/ k \notin 1..Len(c) + 1
      BY <1>1
    <3> QED
      BY <3>1, <3>2, <3>3
  <2>7. InRange(new, FALSE, lo, hi)
    <3> SUFFICES ASSUME NEW k \in Nat, NEW i \in Nat, Stays(new, FALSE, k, i)
                 PROVE  lo < new[k][i].n /\ new[k][i].n <= hi
      BY DEF InRange
    <3>0. InRange(old, TRUE, lo, hi)
      BY <1>2 DEF Ordered
    <3>1. CASE k = 1
      <4>1. i + 1 \in Nat /\ Stays(old, TRUE, 1, i + 1) /\ new[k][i] = old[1][i + 1]
        BY <2>4, <3>1
      <4>2. 1 \in Nat
        OBVIOUS
      <4> QED
        BY <3>0, <4>1, <4>2 DEF InRange
    <3>2. CASE k # 1
      BY <2>6, <3>0, <3>2 DEF InRange
    <3> QED
      BY <3>1, <3>2
  <2>8. AllThere(new, FALSE, lo, hi)
    <3> SUFFICES ASSUME NEW n \in (lo + 1)..hi
                 PROVE  \E k, i \in Nat : Stays(new, FALSE, k, i) /\ new[k][i].n = n
      BY DEF AllThere
    <3>1. PICK k \in Nat, i \in Nat : Stays(old, TRUE, k, i) /\ old[k][i].n = n
      BY <1>2 DEF Ordered, AllThere
    <3> QED
      BY <2>5, <2>6, <3>1
  <2>9. Rising(new, FALSE)
    <3> SUFFICES ASSUME NEW k \in Nat, NEW i \in Nat, NEW l \in Nat, NEW j \in Nat,
                        Stays(new, FALSE, k, i), Stays(new, FALSE, l, j),
                        k < l \/ (k = l /\ i < j)
                 PROVE  new[k][i].n < new[l][j].n
      BY DEF Rising
    <3>0. Rising(old, TRUE) /\ 1 \in Nat
      BY <1>2 DEF Ordered
    <3>1. CASE k = 1 /\ l = 1
      <4>1. Stays(old, TRUE, 1, i + 1) /\ new[1][i] = old[1][i + 1] /\ i + 1 \in Nat
        BY <2>4, <3>1
      <4>2. Stays(old, TRUE, 1, j + 1) /\ new[1][j] = old[1][j + 1] /\ j + 1 \in Nat
        BY <2>4, <3>1
      <4>3. i + 1 < j + 1
        BY <3>1
      <4> QED
        BY <3>0, <3>1, <4>1, <4>2, <4>3 DEF Rising
    <3>2. CASE k = 1 /\ l # 1
      <4>1. Stays(old, TRUE, 1, i + 1) /\ new[1][i] = old[1][i + 1] /\ i + 1 \in Nat
        BY <2>4, <3>2
      <4>2. Stays(old, TRUE, l, j) /\ new[l] = old[l] /\ 1 < l
        BY <2>6, <3>2
      <4> QED
        BY <1>2, <4>1, <4>2, <3>2 DEF Ordered, Rising
    <3>3. CASE k # 1
      <4>1. l # 1
        BY <3>3 DEF Stays
      <4> QED
        BY <1>2, <2>6, <3>3, <4>1 DEF Ordered, Rising
    <3> QED
      BY <3>1, <3>2, <3>3
  <2>10. Ordered(new, FALSE, lo, hi)
    BY <2>7, <2>8, <2>9 DEF Ordered
  <2> QED
    BY <2>10 DEF new
<1>5. CASE ~(Len(c[1]) > 1)
  <2>0. Len(c[1]) = 1
    <3>1. Len(c[1]) \in Nat \ {0}
      BY <1>1
    <3> QED
      BY <3>1, <1>5
  <2>1. Shifted(c) = Tail(c)
    <3>0. Len(Head(c)) = 1
      BY <1>1, <2>0, Zenon
    <3>1. ~(Len(Head(c)) > 1)
      <4>1. \A n : n = 1 => ~(n > 1)
        OBVIOUS
      <4> QED
        BY <3>0, <4>1, Zenon
    <3> QED
      BY <3>1 DEF Shifted
  <2>2. /\ Len(new) = Len(c)
        /\ \A k \in 1..Len(c) : new[k] = old[k + 1]
    BY <1>1, <1>3, <2>1
  <2> HIDE DEF old, new
  <2>3. \A k, i \in Nat : Stays(new, FALSE, k, i) =>
          k + 1 \in Nat /\ Stays(old, TRUE, k + 1, i) /\ new[k] = old[k + 1]
    <3> SUFFICES ASSUME NEW k \in Nat, NEW i \in Nat, Stays(new, FALSE, k, i)
                 PROVE  k + 1 \in Nat /\ Stays(old, TRUE, k + 1, i) /\ new[k] = old[k + 1]
      OBVIOUS
    <3>1. k \in 1..Len(c)
      BY <2>2 DEF Stays
    <3>2. new[k] = old[k + 1] /\ k + 1 \in 1..Len(old) /\ k + 1 # 1 /\ k + 1 \in Nat
      BY <1>1, <1>3, <2>2, <3>1
    <3>3. i \in 1..Len(old[k + 1]) /\ old[k + 1][i] # Star
      BY <3>2 DEF Stays
    <3>4. Stays(old, TRUE, k + 1, i)
      BY <3>2, <3>3 DEF Stays
    <3> QED
      BY <3>2, <3>4
  <2>4. \A k, i \in Nat : Stays(old, TRUE, k, i) =>
          k - 1 \in Nat /\ Stays(new, FALSE, k - 1, i) /\ new[k - 1] = old[k]
    <3> SUFFICES ASSUME NEW k \in Nat, NEW i \in Nat, Stays(old, TRUE, k, i)
                 PROVE  k - 1 \in Nat /\ Stays(new, FALSE, k - 1, i) /\ new[k - 1] = old[k]
      OBVIOUS
    <3>0. old[1] = c[1]
      BY <1>1, <1>3
    <3>1. k # 1
      BY <2>0, <3>0 DEF Stays
    <3>2. k - 1 \in 1..Len(c) /\ k - 1 + 1 = k
      BY <1>1, <1>3, <3>1 DEF Stays
    <3>3. new[k - 1] = old[k]
      BY <2>2, <3>2
    <3> QED
      BY <1>1, <2>2, <3>2, <3>3 DEF Stays
  <2>5. InRange(new, FALSE, lo, hi)
    <3> SUFFICES ASSUME NEW k \in Nat, NEW i \in Nat, Stays(new, FALSE, k, i)
                 PROVE  lo < new[k][i].n /\ new[k][i].n <= hi
      BY DEF InRange
    <3> QED
      BY <1>2, <2>3 DEF Ordered, InRange
  <2>6. AllThere(new, FALSE, lo, hi)
    <3> SUFFICES ASSUME NEW n \in (lo + 1)..hi
                 PROVE  \E k, i \in Nat : Stays(new, FALSE, k, i) /\ new[k][i].n = n
      BY DEF AllThere
    <3>1. PICK k \in Nat, i \in Nat : Stays(old, TRUE, k, i) /\ old[k][i].n = n
      BY <1>2 DEF Ordered, AllThere
    <3> QED
      BY <2>4, <3>1
  <2>7. Rising(new, FALSE)
    <3> SUFFICES ASSUME NEW k \in Nat, NEW i \in Nat, NEW l \in Nat, NEW j \in Nat,
                        Stays(new, FALSE, k, i), Stays(new, FALSE, l, j),
                        k < l \/ (k = l /\ i < j)
                 PROVE  new[k][i].n < new[l][j].n
      BY DEF Rising
    <3>1. /\ Stays(old, TRUE, k + 1, i) /\ new[k] = old[k + 1] /\ k + 1 \in Nat
          /\ Stays(old, TRUE, l + 1, j) /\ new[l] = old[l + 1] /\ l + 1 \in Nat
      BY <2>3
    <3>2. k + 1 < l + 1 \/ (k + 1 = l + 1 /\ i < j)
      OBVIOUS
    <3> QED
      BY <1>2, <3>1, <3>2 DEF Ordered, Rising
  <2>8. Ordered(new, FALSE, lo, hi)
    BY <2>5, <2>6, <2>7 DEF Ordered
  <2> QED
    BY <2>8 DEF new
<1> QED
  BY <1>4, <1>5

(* The loop drops a chunk of which only the star is left.                  *)
LEMMA LineStars ==
  ASSUME NEW c \in Seq(Chunk), c # <<>>, NEW q \in Seq(Msg), NEW lo \in Nat, NEW hi \in Nat,
         Len(c[1]) = 1, c[1][1] = Star, Ordered(Append(c, q), FALSE, lo, hi)
  PROVE  Ordered(Append(Tail(c), q), FALSE, lo, hi)
<1>1. /\ c \in Seq(Seq(Msg)) /\ Len(c) \in Nat \ {0} /\ c[1] \in Seq(Msg)
      /\ Shifted(c) = Tail(c)
  <2>1. c[1] \in Chunk /\ Len(c) \in Nat \ {0} /\ Head(c) = c[1]
    OBVIOUS
  <2>0. Len(Head(c)) = 1
    BY <2>1, Zenon
  <2>2. ~(Len(Head(c)) > 1)
    <3>1. \A n : n = 1 => ~(n > 1)
      OBVIOUS
    <3> QED
      BY <2>0, <3>1, Zenon
  <2>3. Shifted(c) = Tail(c)
    BY <2>2 DEF Shifted
  <2>4. Seq(Chunk) \subseteq Seq(Seq(Msg))
    BY SeqMonotonic DEF Chunk
  <2> QED
    BY <2>1, <2>3, <2>4 DEF Chunk
<1>2. Append(c, q)[1] = c[1]
  BY <1>1
<1>3. \A k, i \in Nat : Stays(Append(c, q), TRUE, k, i) <=> Stays(Append(c, q), FALSE, k, i)
  <2>1. ~Stays(Append(c, q), FALSE, 1, 1)
    BY <1>2 DEF Stays
  <2> QED
    BY <2>1 DEF Stays
<1>4. Ordered(Append(c, q), TRUE, lo, hi)
  BY <1>3 DEF Ordered, InRange, AllThere, Rising
<1> QED
  BY <1>1, <1>4, LineShifts

(* The order of the lines is MessagesInOrder.                              *)
LEMMA InOrder ==
  ASSUME messagesFromNative \in Seq(Chunk), queued \in Seq(Msg), processed \in Nat, sent \in Nat
  PROVE  MessagesInOrder <=> Ordered(Lines, CallbackRuns, processed, sent)
<1>1. Lines \in Seq(Seq(Msg)) /\ Len(Lines) \in Nat
  <2>1. Seq(Chunk) \subseteq Seq(Seq(Msg))
    BY SeqMonotonic DEF Chunk
  <2> QED
    BY <2>1 DEF Lines
<1>2. \A p : p \in Waiting <=>
        \E k, i \in Nat : p = <<k, i>> /\ Stays(Lines, CallbackRuns, k, i)
  <2> SUFFICES ASSUME NEW p
               PROVE  p \in Waiting <=>
                        \E k, i \in Nat : p = <<k, i>> /\ Stays(Lines, CallbackRuns, k, i)
    OBVIOUS
  <2>1. ASSUME p \in Waiting
        PROVE  \E k, i \in Nat : p = <<k, i>> /\ Stays(Lines, CallbackRuns, k, i)
    <3>1. PICK k \in 1..Len(Lines) : p \in {k} \X (1..Len(Lines[k]))
      BY <2>1 DEF Waiting
    <3>2. PICK i \in 1..Len(Lines[k]) : p = <<k, i>>
      BY <3>1
    <3>3. Lines[k] \in Seq(Msg)
      BY <1>1
    <3>4. k \in Nat /\ i \in Nat
      BY <1>1, <3>3
    <3>5. Lines[k][i] # Star /\ ~(CallbackRuns /\ k = 1 /\ i = 1)
      BY <2>1, <3>2 DEF Waiting
    <3> QED
      BY <3>2, <3>4, <3>5 DEF Stays
  <2>2. ASSUME NEW k \in Nat, NEW i \in Nat, p = <<k, i>>, Stays(Lines, CallbackRuns, k, i)
        PROVE  p \in Waiting
    <3>1. p[1] = k /\ p[2] = i /\ p \in {k} \X (1..Len(Lines[k])) /\ k \in 1..Len(Lines)
      BY <2>2 DEF Stays
    <3>2. p # <<1, 1>> <=> ~(k = 1 /\ i = 1)
      BY <2>2
    <3> QED
      BY <2>2, <3>1, <3>2 DEF Waiting, Stays
  <2> QED
    BY <2>1, <2>2
<1>3. {Number(p) : p \in Waiting} = (processed + 1)..sent <=>
        InRange(Lines, CallbackRuns, processed, sent) /\ AllThere(Lines, CallbackRuns, processed, sent)
  <2>1. ASSUME {Number(p) : p \in Waiting} = (processed + 1)..sent
        PROVE  /\ InRange(Lines, CallbackRuns, processed, sent)
               /\ AllThere(Lines, CallbackRuns, processed, sent)
    <3>1. ASSUME NEW k \in Nat, NEW i \in Nat, Stays(Lines, CallbackRuns, k, i)
          PROVE  processed < Lines[k][i].n /\ Lines[k][i].n <= sent
      <4>1. <<k, i>> \in Waiting /\ Number(<<k, i>>) = Lines[k][i].n
        BY <1>2, <3>1 DEF Number
      <4>2. Lines[k][i].n \in (processed + 1)..sent
        BY <2>1, <4>1
      <4> QED
        BY <4>2
    <3>2. ASSUME NEW n \in (processed + 1)..sent
          PROVE  \E k, i \in Nat : Stays(Lines, CallbackRuns, k, i) /\ Lines[k][i].n = n
      <4>1. PICK p \in Waiting : Number(p) = n
        BY <2>1
      <4>2. PICK k \in Nat, i \in Nat : p = <<k, i>> /\ Stays(Lines, CallbackRuns, k, i)
        BY <1>2
      <4> QED
        BY <4>1, <4>2 DEF Number
    <3> QED
      BY <3>1, <3>2 DEF InRange, AllThere
  <2>2. ASSUME InRange(Lines, CallbackRuns, processed, sent),
               AllThere(Lines, CallbackRuns, processed, sent)
        PROVE  {Number(p) : p \in Waiting} = (processed + 1)..sent
    <3>1. ASSUME NEW p \in Waiting
          PROVE  Number(p) \in (processed + 1)..sent
      <4>1. PICK k \in Nat, i \in Nat : p = <<k, i>> /\ Stays(Lines, CallbackRuns, k, i)
        BY <1>2
      <4>2. Lines[k][i].n \in Nat
        BY <1>1, <4>1, WaitType
      <4>3. processed < Lines[k][i].n /\ Lines[k][i].n <= sent
        BY <2>2, <4>1 DEF InRange
      <4>4. Number(p) = Lines[k][i].n
        BY <4>1 DEF Number
      <4> QED
        BY <4>2, <4>3, <4>4
    <3>2. ASSUME NEW n \in (processed + 1)..sent
          PROVE  \E p \in Waiting : Number(p) = n
      <4>1. PICK k \in Nat, i \in Nat : Stays(Lines, CallbackRuns, k, i) /\ Lines[k][i].n = n
        BY <2>2 DEF AllThere
      <4>2. <<k, i>> \in Waiting /\ Number(<<k, i>>) = n
        BY <1>2, <4>1 DEF Number
      <4> QED
        BY <4>2
    <3> QED
      BY <3>1, <3>2
  <2> QED
    BY <2>1, <2>2
<1>4. (\A p, q \in Waiting : Before(p, q) => Number(p) < Number(q)) <=>
        Rising(Lines, CallbackRuns)
  <2>1. ASSUME \A p, q \in Waiting : Before(p, q) => Number(p) < Number(q)
        PROVE  Rising(Lines, CallbackRuns)
    <3> SUFFICES ASSUME NEW k \in Nat, NEW i \in Nat, NEW l \in Nat, NEW j \in Nat,
                        Stays(Lines, CallbackRuns, k, i), Stays(Lines, CallbackRuns, l, j),
                        k < l \/ (k = l /\ i < j)
                 PROVE  Lines[k][i].n < Lines[l][j].n
      BY DEF Rising
    <3>1. <<k, i>> \in Waiting /\ <<l, j>> \in Waiting /\ Before(<<k, i>>, <<l, j>>)
      BY <1>2 DEF Before
    <3>2. Number(<<k, i>>) < Number(<<l, j>>)
      BY <2>1, <3>1
    <3> QED
      BY <3>2 DEF Number
  <2>2. ASSUME Rising(Lines, CallbackRuns), NEW p \in Waiting, NEW q \in Waiting, Before(p, q)
        PROVE  Number(p) < Number(q)
    <3>1. PICK k \in Nat, i \in Nat : p = <<k, i>> /\ Stays(Lines, CallbackRuns, k, i)
      BY <1>2
    <3>2. PICK l \in Nat, j \in Nat : q = <<l, j>> /\ Stays(Lines, CallbackRuns, l, j)
      BY <1>2
    <3>3. k < l \/ (k = l /\ i < j)
      BY <2>2, <3>1, <3>2 DEF Before
    <3>4. Lines[k][i].n < Lines[l][j].n
      BY <2>2, <3>1, <3>2, <3>3 DEF Rising
    <3> QED
      BY <3>1, <3>2, <3>4 DEF Number
  <2> QED
    BY <2>1, <2>2
<1> QED
  BY <1>3, <1>4 DEF MessagesInOrder, Ordered
-----------------------------------------------------------------------------
OrderInv ==
  /\ processed \in Nat /\ processed <= sent
  /\ Ordered(Lines, CallbackRuns, processed, sent)
  /\ StarsLast(messagesFromNative) /\ NoStar(queued)

LEMMA ChunksAreSeqs == Seq(Chunk) \subseteq Seq(Seq(Msg))
BY SeqMonotonic DEF Chunk

(* While a callback runs, the loop below it keeps the message it got.      *)
LEMMA CallbackHasMessage ==
  ASSUME IInv, CallbackRuns
  PROVE  messagesFromNative # <<>>
<1>1. stack \in Seq(Act) /\ Len(stack) \in Nat /\ Nesting
  BY DEF IInv, Types
<1>2. PICK i \in 1..Len(stack) : stack[i].at = "callback"
  BY DEF CallbackRuns
<1>3. i - 1 \in 1..Len(stack) - 1 /\ stack[i - 1].at = "processMessages"
  BY <1>1, <1>2 DEF Nesting, OnLoops
<1> QED
  BY <1>1, <1>3 DEF Nesting, HasMessage

LEMMA StarsLastAppend ==
  ASSUME NEW c \in Seq(Chunk), StarsLast(c), NEW q \in Seq(Msg), NoStar(q)
  PROVE  StarsLast(Append(c, Encoded(q)))
<1> DEFINE new == Append(c, Encoded(q))
<1>1. /\ Len(new) = Len(c) + 1 /\ new[Len(c) + 1] = Encoded(q) /\ Len(c) \in Nat
      /\ \A k \in 1..Len(c) : new[k] = c[k]
  OBVIOUS
<1> HIDE DEF new
<1>2. ASSUME NEW i \in 1..Len(Encoded(q)), Encoded(q)[i] = Star
      PROVE  i = Len(Encoded(q))
  <2>1. CASE i <= Len(q) /\ i <= ChunkSize /\ Encoded(q)[i] = q[i]
    <3>1. i \in 1..Len(q)
      BY <2>1
    <3> QED
      BY <1>2, <2>1, <3>1 DEF NoStar
  <2> QED
    BY <2>1, CutFacts
<1>3. \A k \in 1..Len(new) : k \in 1..Len(c) \/ k = Len(c) + 1
  BY <1>1
<1>4. StarsLast(new)
  BY <1>1, <1>2, <1>3 DEF StarsLast
<1> QED
  BY <1>4 DEF new

LEMMA StarsLastShifted ==
  ASSUME NEW c \in Seq(Chunk), c # <<>>, StarsLast(c)
  PROVE  StarsLast(Tail(c)) /\ StarsLast(Shifted(c))
<1>1. /\ Len(c) \in Nat \ {0} /\ Len(Tail(c)) = Len(c) - 1 /\ Head(c) = c[1]
      /\ \A k \in 1..Len(c) - 1 : Tail(c)[k] = c[k + 1]
  OBVIOUS
<1>2. StarsLast(Tail(c))
  <2> SUFFICES ASSUME NEW k \in 1..Len(c) - 1, NEW i \in 1..Len(Tail(c)[k]), Tail(c)[k][i] = Star
               PROVE  i = Len(Tail(c)[k])
    BY <1>1 DEF StarsLast
  <2>1. Tail(c)[k] = c[k + 1] /\ k + 1 \in 1..Len(c)
    BY <1>1
  <2> QED
    BY <2>1 DEF StarsLast
<1>3. CASE Len(Head(c)) > 1
  <2> DEFINE new == [c EXCEPT ![1] = Tail(Head(c))]
  <2>1. Shifted(c) = new
    BY <1>1, <1>3 DEF Shifted
  <2>2. /\ Head(c) \in Seq(Msg) /\ Len(Tail(Head(c))) = Len(Head(c)) - 1
        /\ \A i \in 1..Len(Head(c)) - 1 : Tail(Head(c))[i] = Head(c)[i + 1]
        /\ Len(Head(c)) \in Nat
    <3>1. Head(c) \in Seq(Msg)
      BY <1>1 DEF Chunk
    <3> HIDE DEF Chunk
    <3> DEFINE h == Head(c)
    <3> HIDE DEF h
    <3>2. h \in Seq(Msg) /\ Len(h) > 1
      BY <3>1, <1>3 DEF h
    <3>3. /\ Len(Tail(h)) = Len(h) - 1 /\ Len(h) \in Nat
          /\ \A i \in 1..Len(h) - 1 : Tail(h)[i] = h[i + 1]
      BY <3>2
    <3> QED
      BY <3>1, <3>3 DEF h
  <2>3. Len(new) = Len(c) /\ new[1] = Tail(Head(c)) /\ \A k \in 2..Len(c) : new[k] = c[k]
    BY <1>1
  <2> HIDE DEF new
  <2>4. ASSUME NEW i \in 1..Len(new[1]), new[1][i] = Star PROVE i = Len(new[1])
    <3>1. i + 1 \in 1..Len(Head(c)) /\ Head(c)[i + 1] = Star
      BY <2>2, <2>3, <2>4
    <3>2. i + 1 = Len(Head(c))
      BY <1>1, <3>1 DEF StarsLast
    <3> QED
      BY <2>2, <2>3, <3>2
  <2>5. ASSUME NEW k \in 2..Len(c), NEW i \in 1..Len(new[k]), new[k][i] = Star
        PROVE  i = Len(new[k])
    <3>1. k \in 1..Len(c) /\ new[k] = c[k]
      BY <1>1, <2>3
    <3> QED
      BY <2>5, <3>1 DEF StarsLast
  <2>6. \A k \in 1..Len(new) : k = 1 \/ k \in 2..Len(c)
    BY <1>1, <2>3
  <2>7. StarsLast(new)
    BY <2>4, <2>5, <2>6 DEF StarsLast
  <2> QED
    BY <1>2, <2>1, <2>7
<1>4. CASE ~(Len(Head(c)) > 1)
  BY <1>2, <1>4 DEF Shifted
<1> QED
  BY <1>3, <1>4

(* What the native side hands over goes on in order.                       *)
LEMMA HandsOver ==
  ASSUME IInv, OrderInv, NEW q \in Seq(Msg), NoStar(q), NEW hi \in Nat, NEW below,
         processed <= hi, Ordered(Append(messagesFromNative, q), CallbackRuns, processed, hi),
         queued' = Remaining(q), ProcessMessages(Encoded(q), below),
         UNCHANGED processed, sent' = hi, CallbackRuns' = CallbackRuns
  PROVE  OrderInv'
<1>1. /\ messagesFromNative \in Seq(Chunk) /\ messagesFromNative \in Seq(Seq(Msg))
      /\ CallbackRuns \in BOOLEAN /\ processed \in Nat
  BY ChunksAreSeqs DEF IInv, Types, OrderInv, CallbackRuns
<1>2. NoStar(queued')
  <2> SUFFICES ASSUME NEW i \in 1..Len(Remaining(q)) PROVE Remaining(q)[i] # Star
    BY DEF NoStar
  <2>1. /\ i \in Nat /\ i + ChunkSize <= Len(q) /\ i >= 1 /\ Remaining(q)[i] = q[i + ChunkSize]
        /\ ChunkSize \in Nat /\ Len(q) \in Nat
    <3>1. Remaining(q) \in Seq(Msg)
      BY EncodedType
    <3>2. i \in Nat
      BY <3>1
    <3> QED
      BY <3>2, CutFacts, BridgeAssumption
  <2>2. i + ChunkSize \in 1..Len(q)
    BY <2>1
  <2> QED
    BY <2>1, <2>2 DEF NoStar
<1>3. CASE Encoded(q) = <<>>
  <2>1. q = <<>>
    <3>1. CASE Len(q) > ChunkSize
      <4>1. 1 \in 1..Len(q) /\ 1 <= ChunkSize
        BY <3>1, BridgeAssumption
      <4>2. 1 \in 1..Len(Encoded(q))
        BY <4>1, CutFacts
      <4> QED
        BY <1>3, <4>2
    <3>2. CASE ~(Len(q) > ChunkSize)
      BY <1>3, <3>2 DEF Encoded
    <3> QED
      BY <3>1, <3>2
  <2>2. queued' = <<>>
    <3>1. Remaining(q) \in Seq(Msg) /\ Len(q) = 0 /\ ChunkSize \in Nat
      BY <2>1, EncodedType, BridgeAssumption
    <3>2. \A i \in 1..Len(Remaining(q)) : FALSE
      <4> SUFFICES ASSUME NEW i \in 1..Len(Remaining(q)) PROVE FALSE
        OBVIOUS
      <4>1. i \in Nat /\ i >= 1
        BY <3>1
      <4>2. i + ChunkSize <= Len(q)
        BY <4>1, CutFacts
      <4> QED
        BY <3>1, <4>1, <4>2
    <3>3. Len(Remaining(q)) = 0
      BY <3>1, <3>2
    <3> QED
      BY <3>1, <3>3
  <2>3. messagesFromNative' = messagesFromNative
    BY <1>3 DEF ProcessMessages
  <2>4. Lines' = Append(messagesFromNative, q)
    BY <2>1, <2>2, <2>3 DEF Lines
  <2> QED
    BY <1>1, <1>2, <2>3, <2>4 DEF OrderInv
<1>4. CASE Encoded(q) # <<>>
  <2>1. messagesFromNative' = Append(messagesFromNative, Encoded(q))
    BY <1>4 DEF ProcessMessages
  <2>2. Lines' = Append(Append(messagesFromNative, Encoded(q)), Remaining(q))
    BY <2>1 DEF Lines
  <2>3. Ordered(Lines', CallbackRuns', processed', sent')
    BY <1>1, <2>2, LineCut, CallbackHasMessage
  <2>4. StarsLast(messagesFromNative')
    BY <1>1, <2>1, StarsLastAppend DEF OrderInv
  <2> QED
    BY <1>1, <1>2, <2>3, <2>4 DEF OrderInv
<1> QED
  BY <1>3, <1>4

(* The same with what the native side answers at once.                     *)
LEMMA ExecHandsOver ==
  ASSUME IInv, OrderInv, NEW id \in Nat, NEW b, NEW below, Exec(id, b, below),
         UNCHANGED processed, CallbackRuns' = CallbackRuns
  PROVE  OrderInv'
<1>1. PICK answer \in Answers(id) :
        /\ sent' = sent + Len(answer)
        /\ queued' = Remaining(queued \o answer)
        /\ ProcessMessages(Encoded(queued \o answer), below)
  BY DEF Exec
<1>2. /\ messagesFromNative \in Seq(Seq(Msg)) /\ queued \in Seq(Msg) /\ sent \in Nat
      /\ CallbackRuns \in BOOLEAN /\ processed \in Nat /\ processed <= sent
      /\ NoStar(queued)
      /\ Ordered(Append(messagesFromNative, queued), CallbackRuns, processed, sent)
  BY ChunksAreSeqs DEF IInv, Types, OrderInv, CallbackRuns, Lines
<1>3. CASE answer = <<>>
  <2>1. queued \o answer = queued /\ sent' = sent
    BY <1>1, <1>2, <1>3
  <2> QED
    BY <1>1, <1>2, <2>1, HandsOver
<1>4. CASE answer # <<>>
  <2>1. PICK kind \in Kinds, keep \in BOOLEAN : answer = <<Message(id, kind, keep)>>
    BY <1>4 DEF Answers
  <2> DEFINE m == Message(id, kind, keep)
  <2>2. m \in Msg /\ m # Star /\ m.n = sent + 1
    <3>1. m.kind = kind /\ m.n = sent + 1
      BY DEF Message
    <3>2. m.kind # Star.kind
      BY <3>1 DEF Kinds, Star
    <3>3. m \in Msg
      BY <1>2 DEF Message, Msg
    <3> QED
      BY <3>1, <3>2, <3>3
  <2> HIDE DEF m
  <2>3. queued \o answer = Append(queued, m) /\ sent' = sent + 1
    BY <1>1, <1>2, <2>1, <2>2 DEF m
  <2>4. Append(queued, m) \in Seq(Msg) /\ NoStar(Append(queued, m))
    <3>1. /\ Append(queued, m) \in Seq(Msg) /\ Len(Append(queued, m)) = Len(queued) + 1
          /\ Append(queued, m)[Len(queued) + 1] = m /\ Len(queued) \in Nat
          /\ \A i \in 1..Len(queued) : Append(queued, m)[i] = queued[i]
      BY <1>2, <2>2
    <3>2. \A i \in 1..Len(queued) + 1 : i \in 1..Len(queued) \/ i = Len(queued) + 1
      BY <3>1
    <3> QED
      BY <1>2, <2>2, <3>1, <3>2 DEF NoStar
  <2>5. Ordered(Append(messagesFromNative, Append(queued, m)), CallbackRuns, processed, sent + 1)
    BY <1>2, <2>2, LineAppends, CallbackHasMessage
  <2>6. sent + 1 \in Nat /\ processed <= sent + 1
    BY <1>2
  <2> QED
    BY <1>1, <1>2, <2>3, <2>4, <2>5, <2>6, HandsOver
<1> QED
  BY <1>3, <1>4

(* Handing messages over runs no callback.                                 *)
LEMMA HandingRunsNone ==
  ASSUME NEW chunk, NEW below \in Seq(Act), ProcessMessages(chunk, below), stack \in Seq(Act),
         Len(below) = Len(stack),
         \A i \in 1..Len(stack) : below[i].at = "callback" <=> stack[i].at = "callback"
  PROVE  CallbackRuns' = CallbackRuns
<1>1. CASE stack' = below
  BY <1>1 DEF CallbackRuns
<1>2. CASE stack' = Append(below, Loop)
  <2>1. /\ Len(stack') = Len(below) + 1 /\ stack'[Len(below) + 1] = Loop /\ Len(below) \in Nat
        /\ \A i \in 1..Len(below) : stack'[i] = below[i]
    BY <1>2
  <2>2. \A i \in 1..Len(stack') : i \in 1..Len(below) \/ i = Len(below) + 1
    BY <2>1
  <2>3. Loop.at # "callback"
    BY DEF Loop, Activation
  <2>4. \A i \in 1..Len(stack) : i \in 1..Len(stack')
    BY <2>1
  <2> QED
    BY <2>1, <2>2, <2>3, <2>4 DEF CallbackRuns
<1> QED
  BY <1>1, <1>2 DEF ProcessMessages

(* When the running activation is a callback it is the only one; the end   *)
(* of another leaves it running.                                           *)
LEMMA FrontRuns ==
  ASSUME IInv, stack # <<>>, stack' = Front(stack)
  PROVE  /\ stack[Len(stack)].at = "callback" => CallbackRuns /\ CallbackRuns' = FALSE
         /\ stack[Len(stack)].at # "callback" => CallbackRuns' = CallbackRuns
<1>1. /\ stack \in Seq(Act) /\ Len(stack) \in Nat \ {0} /\ Len(stack') = Len(stack) - 1
      /\ \A i \in 1..Len(stack) - 1 : stack'[i] = stack[i]
  BY FrontFacts DEF IInv, Types
<1>2. \A i \in 1..Len(stack) : i \in 1..Len(stack) - 1 \/ i = Len(stack)
  BY <1>1
<1>3. \A i \in 1..Len(stack) - 1 : i \in 1..Len(stack)
  BY <1>1
<1>4. ASSUME stack[Len(stack)].at = "callback", NEW i \in 1..Len(stack) - 1,
             stack[i].at = "callback"
      PROVE  FALSE
  <2>1. i \in 1..Len(stack) /\ Len(stack) \in 1..Len(stack)
    BY <1>1
  <2>2. /\ i > 1 /\ stack[i - 1].at = "processMessages"
        /\ Len(stack) > 1 /\ stack[Len(stack) - 1].at = "processMessages"
    BY <1>4, <2>1 DEF IInv, Nesting, OnLoops
  <2>3. i - 1 \in 1..Len(stack) /\ Len(stack) - 1 \in 1..Len(stack)
    BY <1>1, <2>1, <2>2
  <2>4. i - 1 = Len(stack) - 1
    BY <2>2, <2>3 DEF IInv, Nesting, LoopIn
  <2> QED
    BY <1>1, <2>4
<1>5. Len(stack) \in 1..Len(stack)
  BY <1>1
<1> QED
  BY <1>1, <1>2, <1>3, <1>4, <1>5 DEF CallbackRuns

(* The message the loop works on is the first that waits.                  *)
LEMMA LoopServes ==
  ASSUME IInv, OrderInv, Running("processMessages"), messagesFromNative # <<>>,
         NEW m, m = Head(Head(messagesFromNative)), m # Star
  PROVE  /\ m.n = processed + 1 /\ processed + 1 <= sent /\ processed + 1 \in Nat
         /\ Ordered(Lines, TRUE, processed + 1, sent)
<1>1. /\ messagesFromNative \in Seq(Seq(Msg)) /\ queued \in Seq(Msg)
      /\ messagesFromNative \in Seq(Chunk) /\ sent \in Nat /\ processed \in Nat
  BY ChunksAreSeqs DEF IInv, Types, OrderInv
<1>2. CallbackRuns = FALSE
  BY LoopRunsAlone DEF CallbackRuns
<1>3. /\ messagesFromNative[1] \in Chunk /\ Head(messagesFromNative) = messagesFromNative[1]
      /\ Lines[1] = messagesFromNative[1] /\ 1 \in 1..Len(Lines) /\ Lines \in Seq(Seq(Msg))
  BY <1>1 DEF Lines
<1>4. 1 \in 1..Len(Lines[1]) /\ Lines[1][1] = m
  BY <1>3 DEF Chunk
<1>5. Ordered(Lines, FALSE, processed, sent)
  BY <1>2 DEF OrderInv
<1>6. Lines[1][1] # Star
  BY <1>4
<1>7. /\ Lines[1][1].n = processed + 1 /\ processed + 1 <= sent
      /\ Ordered(Lines, TRUE, processed + 1, sent)
  BY <1>1, <1>3, <1>4, <1>5, <1>6, LineServes
<1>8. processed + 1 \in Nat
  BY <1>1
<1> QED
  BY <1>4, <1>7, <1>8

LEMMA OrderNext == IInv /\ OrderInv /\ [Next]_vars => OrderInv'
<1> SUFFICES ASSUME IInv, OrderInv, [Next]_vars PROVE OrderInv'
  OBVIOUS
<1>t. /\ Types /\ Nesting /\ stack \in Seq(Act) /\ Len(stack) \in Nat
      /\ messagesFromNative \in Seq(Chunk) /\ messagesFromNative \in Seq(Seq(Msg))
      /\ queued \in Seq(Msg) /\ sent \in Nat /\ processed \in Nat /\ processed <= sent
      /\ callbackId \in Nat
  BY ChunksAreSeqs DEF IInv, Types, OrderInv
<1>0. CASE UNCHANGED <<messagesFromNative, queued, sent, processed>> /\ CallbackRuns' = CallbackRuns
  BY <1>0 DEF OrderInv, Lines
<1>p. ASSUME Idle, PollOnce, UNCHANGED <<sent, processed>>
      PROVE  OrderInv'
  <2>1. stack = <<>>
    BY <1>p DEF Idle
  <2>2. ProcessMessages(Encoded(queued), stack) /\ queued' = Remaining(queued)
    BY <1>p DEF PollOnce
  <2>3. CallbackRuns' = CallbackRuns
    BY <1>t, <2>2, HandingRunsNone
  <2> QED
    BY <1>p, <1>t, <2>2, <2>3, HandsOver DEF OrderInv, Lines
<1>1. CASE RetryCall
  <2> DEFINE below == [stack EXCEPT ![Len(stack)].at = "restore"]
  <2>1. /\ stack # <<>> /\ stack[Len(stack)].at = "retry" /\ UNCHANGED processed
        /\ Exec(callbackId + 1, TRUE, below)
    BY <1>1 DEF RetryCall, Running, Idle, Last
  <2>2. /\ below \in Seq(Act) /\ Len(below) = Len(stack)
        /\ \A i \in 1..Len(stack) : below[i].at = "callback" <=> stack[i].at = "callback"
    <3>1. Len(stack) \in 1..Len(stack) /\ stack[Len(stack)] \in Act
      BY <1>t, <2>1
    <3>2. [stack[Len(stack)] EXCEPT !.at = "restore"] \in Act
      BY <3>1 DEF Act
    <3>3. below = [stack EXCEPT ![Len(stack)] = [stack[Len(stack)] EXCEPT !.at = "restore"]]
      OBVIOUS
    <3>4. below \in Seq(Act) /\ Len(below) = Len(stack)
      BY <3>1, <3>2, <3>3, <1>t, ExceptSeq
    <3>5. below[Len(stack)].at = "restore"
      BY <3>1, <1>t DEF Act
    <3>6. \A i \in 1..Len(stack) : i # Len(stack) => below[i] = stack[i]
      BY <1>t
    <3> HIDE DEF below
    <3> QED
      BY <2>1, <3>4, <3>5, <3>6
  <2> HIDE DEF below
  <2>3. CallbackRuns' = CallbackRuns
    BY <1>t, <2>1, <2>2, HandingRunsNone DEF Exec
  <2>4. callbackId + 1 \in Nat
    BY <1>t
  <2> QED
    BY <2>1, <2>3, <2>4, ExecHandsOver
<1>2. CASE RetryRestore
  <2>1. /\ stack # <<>> /\ stack' = Front(stack) /\ stack[Len(stack)].at # "callback"
        /\ UNCHANGED <<messagesFromNative, queued, sent, processed>>
    BY <1>2 DEF RetryRestore, Running, Idle, Last, native
  <2> QED
    BY <1>0, <2>1, FrontRuns
<1>3. CASE AndroidExec
  <2>1. PICK withCallback \in BOOLEAN : Exec(callbackId + 1, withCallback, stack)
    BY <1>3 DEF AndroidExec
  <2>2. CallbackRuns' = CallbackRuns
    BY <1>t, <2>1, HandingRunsNone DEF Exec
  <2>3. callbackId + 1 \in Nat /\ UNCHANGED processed
    BY <1>3, <1>t DEF AndroidExec
  <2> QED
    BY <2>1, <2>2, <2>3, ExecHandsOver
<1>4. CASE AndroidExecNullArguments
  <2>1. /\ stack' = Append(stack, Retry) /\ UNCHANGED <<messagesFromNative, queued, sent, processed>>
    BY <1>4 DEF AndroidExecNullArguments, native
  <2>2. /\ Len(stack') = Len(stack) + 1 /\ stack'[Len(stack) + 1] = Retry
        /\ \A i \in 1..Len(stack) : stack'[i] = stack[i]
    BY <2>1, <1>t
  <2>3. Retry.at # "callback"
    BY DEF Retry, Activation
  <2>4. \A i \in 1..Len(stack') : i \in 1..Len(stack) \/ i = Len(stack) + 1
    BY <2>2, <1>t
  <2>5. \A i \in 1..Len(stack) : i \in 1..Len(stack')
    BY <2>2, <1>t
  <2>6. CallbackRuns' = CallbackRuns
    BY <2>2, <2>3, <2>4, <2>5 DEF CallbackRuns
  <2> QED
    BY <1>0, <2>1, <2>6
<1>5. CASE LoopEnds
  <2>1. /\ stack # <<>> /\ stack' = Front(stack) /\ stack[Len(stack)].at # "callback"
        /\ UNCHANGED <<messagesFromNative, queued, sent, processed>>
    BY <1>5 DEF LoopEnds, Running, Idle, Last, native
  <2> QED
    BY <1>0, <2>1, FrontRuns
<1>6. CASE LoopStar
  <2>1. /\ stack # <<>> /\ stack' = Front(stack) /\ stack[Len(stack)].at # "callback"
        /\ messagesFromNative # <<>> /\ Head(Head(messagesFromNative)) = Star
        /\ messagesFromNative' = Tail(messagesFromNative) /\ UNCHANGED <<queued, sent, processed>>
    BY <1>6 DEF LoopStar, Running, Idle, Last, native
  <2>2. CallbackRuns = FALSE /\ CallbackRuns' = FALSE
    <3>1. CallbackRuns = FALSE
      BY <1>6, LoopRunsAlone DEF CallbackRuns, LoopStar
    <3> QED
      BY <2>1, <3>1, FrontRuns
  <2>3. messagesFromNative[1][1] = Star /\ Len(messagesFromNative[1]) = 1
    <3>1. /\ messagesFromNative[1] \in Chunk /\ 1 \in 1..Len(messagesFromNative)
          /\ Head(messagesFromNative) = messagesFromNative[1]
      BY <1>t, <2>1
    <3>2. /\ 1 \in 1..Len(messagesFromNative[1])
          /\ messagesFromNative[1][1] = Head(Head(messagesFromNative))
      BY <3>1 DEF Chunk
    <3>3. 1 = Len(messagesFromNative[1])
      BY <2>1, <3>1, <3>2 DEF OrderInv, StarsLast
    <3> QED
      BY <2>1, <3>2, <3>3
  <2>4. Ordered(Lines', FALSE, processed, sent)
    BY <1>t, <2>1, <2>2, <2>3, LineStars DEF OrderInv, Lines
  <2>5. StarsLast(messagesFromNative')
    BY <1>t, <2>1, StarsLastShifted DEF OrderInv
  <2> QED
    BY <2>1, <2>2, <2>4, <2>5 DEF OrderInv
<1>7. CASE LoopMessage
  <2> DEFINE m == Head(Head(messagesFromNative))
  <2>1. /\ messagesFromNative # <<>> /\ m # Star /\ Running("processMessages")
        /\ processed' = m.n /\ UNCHANGED <<queued, sent>>
    BY <1>7 DEF LoopMessage, native
  <2>2. /\ m.n = processed + 1 /\ processed + 1 <= sent /\ processed + 1 \in Nat
        /\ Ordered(Lines, TRUE, processed + 1, sent)
    BY <2>1, LoopServes
  <2>3. CASE RunsHandler(m)
    <3>1. UNCHANGED messagesFromNative
      BY <1>7, <2>3 DEF LoopMessage
    <3>2. /\ Len(stack') = Len(stack) + 1
          /\ stack'[Len(stack) + 1] = Activation("callback", m.id, m.keep)
      BY <1>7, <2>3, LoopMessagePushes
    <3>3. CallbackRuns' = TRUE
      <4>1. Len(stack) + 1 \in 1..Len(stack')
        BY <1>t, <3>2
      <4>2. stack'[Len(stack) + 1].at = "callback"
        BY <3>2 DEF Activation
      <4> QED
        BY <4>1, <4>2 DEF CallbackRuns
    <3>4. Lines' = Lines
      BY <2>1, <3>1 DEF Lines
    <3> HIDE DEF m
    <3> QED
      BY <2>1, <2>2, <3>1, <3>3, <3>4 DEF OrderInv
  <2>4. CASE ~RunsHandler(m)
    <3>1. messagesFromNative' = Shifted(messagesFromNative) /\ UNCHANGED stack
      BY <1>7, <2>4 DEF LoopMessage
    <3>2. CallbackRuns' = FALSE
      BY <2>1, <3>1, LoopRunsAlone DEF CallbackRuns
    <3>3. Ordered(Lines', FALSE, processed + 1, sent)
      BY <1>t, <2>1, <2>2, <3>1, LineShifts DEF Lines
    <3>4. StarsLast(messagesFromNative')
      BY <1>t, <2>1, <3>1, StarsLastShifted DEF OrderInv
    <3> HIDE DEF m
    <3> QED
      BY <2>1, <2>2, <3>2, <3>3, <3>4 DEF OrderInv
  <2> QED
    BY <2>3, <2>4
<1>8. CASE CallbackEnds
  <2>1. /\ stack # <<>> /\ stack' = Front(stack) /\ stack[Len(stack)].at = "callback"
        /\ messagesFromNative' = Shifted(messagesFromNative) /\ UNCHANGED <<queued, sent, processed>>
    BY <1>8 DEF CallbackEnds, Running, Idle, Last, native
  <2>2. CallbackRuns /\ CallbackRuns' = FALSE
    BY <2>1, FrontRuns
  <2>3. messagesFromNative # <<>>
    BY <2>2, CallbackHasMessage
  <2>4. Ordered(Lines, TRUE, processed, sent)
    <3>1. CallbackRuns = TRUE
      BY <2>2 DEF CallbackRuns
    <3> QED
      BY <3>1 DEF OrderInv
  <2>5. Ordered(Lines', FALSE, processed, sent)
    BY <1>t, <2>1, <2>3, <2>4, LineShifts DEF Lines
  <2>6. StarsLast(messagesFromNative')
    BY <1>t, <2>1, <2>3, StarsLastShifted DEF OrderInv
  <2> QED
    BY <2>1, <2>2, <2>5, <2>6 DEF OrderInv
<1>9. CASE PollTimer
  BY <1>9, <1>p DEF PollTimer
<1>10. CASE PollingTimer
  <2>1. CASE PollOnce
    BY <1>10, <1>p, <2>1 DEF PollingTimer
  <2>2. CASE UNCHANGED <<messagesFromNative, stack, queued>>
    BY <1>10, <1>0, <2>2 DEF PollingTimer, CallbackRuns
  <2> QED
    BY <1>10, <2>1, <2>2 DEF PollingTimer
<1>11. CASE PollOnceFromOnlineEvent
  BY <1>11, <1>p DEF PollOnceFromOnlineEvent
<1>12. CASE SetNativeToJsBridgeMode
  BY <1>12, <1>0 DEF SetNativeToJsBridgeMode, CallbackRuns
<1>13. CASE NativeAnswer
  <2>1. PICK id \in handed, kind \in Kinds, keep \in BOOLEAN :
          queued' = Append(queued, Message(id, kind, keep))
    BY <1>13 DEF NativeAnswer
  <2> DEFINE m == Message(id, kind, keep)
  <2>2. m \in Msg /\ m # Star /\ m.n = sent + 1
    <3>1. m.kind = kind /\ m.n = sent + 1
      BY DEF Message
    <3>2. m.kind # Star.kind
      BY <3>1 DEF Kinds, Star
    <3>3. m \in Msg
      BY <1>t DEF Types, Message, Msg
    <3> QED
      BY <3>1, <3>2, <3>3
  <2>3. queued' = Append(queued, m) /\ sent' = sent + 1
        /\ UNCHANGED <<messagesFromNative, stack, processed>>
    BY <1>13, <2>1 DEF NativeAnswer
  <2> HIDE DEF m
  <2>4. CallbackRuns' = CallbackRuns /\ CallbackRuns \in BOOLEAN
    BY <2>3 DEF CallbackRuns
  <2>5. Ordered(Lines', CallbackRuns, processed, sent + 1)
    BY <1>t, <2>2, <2>3, <2>4, LineAppends, CallbackHasMessage DEF OrderInv, Lines
  <2>6. NoStar(queued')
    <3>1. /\ Len(queued') = Len(queued) + 1 /\ queued'[Len(queued) + 1] = m /\ Len(queued) \in Nat
          /\ \A i \in 1..Len(queued) : queued'[i] = queued[i]
      BY <1>t, <2>2, <2>3
    <3>2. \A i \in 1..Len(queued) + 1 : i \in 1..Len(queued) \/ i = Len(queued) + 1
      BY <3>1
    <3> QED
      BY <2>2, <3>1, <3>2 DEF NoStar, OrderInv
  <2>7. processed <= sent + 1
    BY <1>t
  <2> QED
    BY <2>3, <2>4, <2>5, <2>6, <2>7, <1>t DEF OrderInv
<1>14. CASE UNCHANGED vars
  BY <1>14, <1>0 DEF vars, native, CallbackRuns
<1> QED
  BY <1>1, <1>2, <1>3, <1>4, <1>5, <1>6, <1>7, <1>8, <1>9, <1>10, <1>11, <1>12, <1>13, <1>14
  DEF Next, Run

-----------------------------------------------------------------------------
(* The rest of the type invariant.  A call that is made again is the last  *)
(* activation, and there is a number left for it.                          *)
NoRetry(st) == \A i \in 1..Len(st) : st[i].at # "retry"
Fields ==
  /\ callbackId <= MaxCalls /\ sent <= MaxMessages
  /\ jsToNativeBridgeMode \in {"JS_OBJECT", "PROMPT"}
  /\ nativeToJsBridgeMode \in {"ONLINE_EVENT", "POLLING"}
  /\ pollEnabled = (nativeToJsBridgeMode = "POLLING")
  /\ polls \in Nat /\ pollers \in Nat /\ switches \in Nat
  /\ pollers <= switches /\ switches <= MaxSwitches
  /\ \A i \in 1..Len(stack) :
       stack[i].at = "retry" => i = Len(stack) /\ callbackId < MaxCalls

LEMMA ProcessRetries ==
  ASSUME NEW chunk, NEW below \in Seq(Act), NoRetry(below), ProcessMessages(chunk, below)
  PROVE  NoRetry(stack')
<1>1. CASE stack' = below
  BY <1>1
<1>2. CASE stack' = Append(below, Loop)
  <2>1. /\ Len(stack') = Len(below) + 1 /\ stack'[Len(below) + 1] = Loop /\ Len(below) \in Nat
        /\ \A i \in 1..Len(below) : stack'[i] = below[i]
    BY <1>2
  <2>2. \A i \in 1..Len(stack') : i \in 1..Len(below) \/ i = Len(below) + 1
    BY <2>1
  <2>3. Loop.at # "retry"
    BY DEF Loop, Activation
  <2> QED
    BY <2>1, <2>2, <2>3 DEF NoRetry
<1> QED
  BY <1>1, <1>2 DEF ProcessMessages

LEMMA ExecCounts ==
  ASSUME IInv, Fields, NEW id \in Nat, NEW b, NEW below, Exec(id, b, below)
  PROVE  callbackId' = id /\ sent' <= MaxMessages
<1>1. PICK answer \in Answers(id) : sent' = sent + Len(answer)
  BY DEF Exec
<1>2. sent \in Nat /\ MaxMessages \in Nat /\ sent <= MaxMessages
  BY BridgeAssumption DEF IInv, Types, Fields
<1>3. CASE answer = <<>>
  <2>1. Len(answer) = 0
    BY <1>3
  <2> QED
    BY <1>1, <1>2, <2>1 DEF Exec
<1>4. CASE answer # <<>>
  <2>1. PICK kind \in Kinds, keep \in BOOLEAN :
          answer = <<Message(id, kind, keep)>> /\ sent < MaxMessages
    BY <1>4 DEF Answers
  <2>2. Len(answer) = 1
    BY <2>1
  <2> QED
    BY <1>1, <1>2, <2>1, <2>2
    DEF Exec
<1> QED
  BY <1>3, <1>4 DEF Exec

LEMMA FieldsNext == IInv /\ Fields /\ [Next]_vars => Fields'
<1> SUFFICES ASSUME IInv, Fields, [Next]_vars PROVE Fields'
  OBVIOUS
<1>t. /\ stack \in Seq(Act) /\ Len(stack) \in Nat /\ callbackId \in Nat /\ sent \in Nat
      /\ MaxCalls \in Nat /\ MaxMessages \in Nat /\ MaxSwitches \in Nat
  BY BridgeAssumption DEF IInv, Types
<1>n. stack = <<>> \/ stack[Len(stack)].at # "retry" => NoRetry(stack)
  BY <1>t DEF Fields, NoRetry
<1>s. ASSUME NoRetry(stack'), UNCHANGED timers, UNCHANGED jsToNativeBridgeMode,
             callbackId' <= MaxCalls, sent' <= MaxMessages
      PROVE  Fields'
  BY <1>s DEF Fields, NoRetry, timers
<1>f. ASSUME stack # <<>>, stack' = Front(stack), stack[Len(stack)].at # "retry"
      PROVE  NoRetry(stack')
  <2>1. /\ Len(stack') = Len(stack) - 1 /\ \A i \in 1..Len(stack) - 1 : stack'[i] = stack[i]
    BY <1>f, <1>t, FrontFacts
  <2>2. \A i \in 1..Len(stack') : i \in 1..Len(stack)
    BY <1>t, <2>1
  <2> QED
    BY <1>n, <1>f, <2>1, <2>2 DEF NoRetry
<1>p. ASSUME Idle, PollOnce PROVE NoRetry(stack')
  <2>1. stack = <<>> /\ NoRetry(stack) /\ ProcessMessages(Encoded(queued), stack)
    BY <1>p, <1>n DEF Idle, PollOnce
  <2> QED
    BY <1>t, <2>1, ProcessRetries
<1>1. CASE RetryCall
  <2> DEFINE below == [stack EXCEPT ![Len(stack)].at = "restore"]
  <2>1. /\ stack # <<>> /\ stack[Len(stack)].at = "retry"
        /\ Exec(callbackId + 1, TRUE, below)
        /\ UNCHANGED <<jsToNativeBridgeMode, timers>>
    BY <1>1 DEF RetryCall, Running, Idle, Last
  <2>2. Len(stack) \in 1..Len(stack) /\ stack[Len(stack)] \in Act
    BY <1>t, <2>1
  <2>3. below \in Seq(Act) /\ NoRetry(below)
    <3>2. [stack[Len(stack)] EXCEPT !.at = "restore"] \in Act
      BY <2>2 DEF Act
    <3>3. below = [stack EXCEPT ![Len(stack)] = [stack[Len(stack)] EXCEPT !.at = "restore"]]
      OBVIOUS
    <3>4. below \in Seq(Act) /\ Len(below) = Len(stack)
      BY <2>2, <3>2, <3>3, <1>t, ExceptSeq
    <3>5. below[Len(stack)].at = "restore"
      BY <2>2, <1>t DEF Act
    <3>6. \A i \in 1..Len(stack) : i # Len(stack) => below[i] = stack[i]
      BY <1>t
    <3>7. \A i \in 1..Len(stack) : i # Len(stack) => stack[i].at # "retry"
      BY DEF Fields
    <3> HIDE DEF below
    <3> QED
      BY <3>4, <3>5, <3>6, <3>7 DEF NoRetry
  <2> HIDE DEF below
  <2>4. callbackId + 1 \in Nat /\ callbackId + 1 <= MaxCalls
    BY <1>t, <2>1, <2>2 DEF Fields
  <2>5. callbackId' = callbackId + 1 /\ sent' <= MaxMessages
    BY <2>1, <2>4, ExecCounts
  <2>6. NoRetry(stack')
    BY <2>1, <2>3, ProcessRetries DEF Exec
  <2> QED
    BY <1>s, <2>1, <2>4, <2>5, <2>6
<1>2. CASE RetryRestore
  <2>1. /\ stack # <<>> /\ stack' = Front(stack) /\ stack[Len(stack)].at # "retry"
        /\ UNCHANGED <<callbackId, sent, timers>> /\ jsToNativeBridgeMode' = "JS_OBJECT"
    BY <1>2 DEF RetryRestore, Running, Idle, Last, native, table
  <2> QED
    BY <1>f, <2>1 DEF Fields, NoRetry, timers
<1>3. CASE AndroidExec
  <2>1. PICK withCallback \in BOOLEAN : Exec(callbackId + 1, withCallback, stack)
    BY <1>3 DEF AndroidExec
  <2>2. callbackId + 1 \in Nat /\ callbackId + 1 <= MaxCalls
    BY <1>3, <1>t DEF AndroidExec, MayCall
  <2>3. NoRetry(stack)
    BY <1>3, <1>n DEF AndroidExec, MayCall, Idle, Running, Last
  <2>4. NoRetry(stack')
    BY <1>t, <2>1, <2>3, ProcessRetries DEF Exec
  <2>5. callbackId' = callbackId + 1 /\ sent' <= MaxMessages
    BY <2>1, <2>2, ExecCounts
  <2> QED
    BY <1>3, <1>s, <2>2, <2>4, <2>5 DEF AndroidExec
<1>4. CASE AndroidExecNullArguments
  <2>1. /\ stack' = Append(stack, Retry) /\ callbackId' = callbackId + 1
        /\ callbackId + 1 < MaxCalls /\ jsToNativeBridgeMode' = "PROMPT"
        /\ UNCHANGED <<sent, timers>>
    BY <1>4 DEF AndroidExecNullArguments, native
  <2>2. /\ Len(stack') = Len(stack) + 1 /\ \A i \in 1..Len(stack) : stack'[i] = stack[i]
    BY <2>1, <1>t
  <2>3. NoRetry(stack)
    BY <1>4, <1>n DEF AndroidExecNullArguments, MayCall, Idle, Running, Last
  <2>4. \A i \in 1..Len(stack') : stack'[i].at = "retry" => i = Len(stack')
    <3>1. \A i \in 1..Len(stack') : i \in 1..Len(stack) \/ i = Len(stack')
      BY <1>t, <2>2
    <3> QED
      BY <2>2, <2>3, <3>1 DEF NoRetry
  <2>5. callbackId' <= MaxCalls /\ callbackId' < MaxCalls
    BY <1>t, <2>1
  <2> QED
    BY <2>1, <2>4, <2>5 DEF Fields, timers
<1>5. CASE LoopEnds
  <2>1. /\ stack # <<>> /\ stack' = Front(stack) /\ stack[Len(stack)].at # "retry"
        /\ UNCHANGED <<callbackId, sent, timers, jsToNativeBridgeMode>>
    BY <1>5 DEF LoopEnds, Running, Idle, Last, native, table
  <2> QED
    BY <1>f, <1>s, <2>1 DEF Fields
<1>6. CASE LoopStar
  <2>1. /\ stack # <<>> /\ stack' = Front(stack) /\ stack[Len(stack)].at # "retry"
        /\ UNCHANGED <<callbackId, sent, jsToNativeBridgeMode, nativeToJsBridgeMode,
                       pollEnabled, pollers, switches>>
        /\ polls' = polls + 1
    BY <1>6 DEF LoopStar, Running, Idle, Last, native, table, Polled
  <2> QED
    BY <1>f, <2>1 DEF Fields, NoRetry
<1>7. CASE LoopMessage
  <2>1. NoRetry(stack)
    BY <1>7, <1>n DEF LoopMessage, Running, Idle, Last
  <2>2. UNCHANGED <<callbackId, sent, timers, jsToNativeBridgeMode>>
    BY <1>7 DEF LoopMessage, native
  <2> DEFINE m == Head(Head(messagesFromNative))
  <2>3. CASE RunsHandler(m)
    <3>2. /\ Len(stack') = Len(stack) + 1
          /\ stack'[Len(stack) + 1] = Activation("callback", m.id, m.keep)
          /\ \A i \in 1..Len(stack) : stack'[i] = stack[i]
      BY <1>7, <2>3, LoopMessagePushes
    <3>3. stack'[Len(stack) + 1].at # "retry"
      BY <3>2 DEF Activation
    <3>4. \A i \in 1..Len(stack') : i \in 1..Len(stack) \/ i = Len(stack) + 1
      BY <1>t, <3>2
    <3>5. NoRetry(stack')
      BY <2>1, <3>2, <3>3, <3>4 DEF NoRetry
    <3> QED
      BY <1>s, <2>2, <3>5 DEF Fields
  <2>4. CASE ~RunsHandler(m)
    <3>1. UNCHANGED stack
      BY <1>7, <2>4 DEF LoopMessage
    <3> QED
      BY <1>s, <2>1, <2>2, <3>1 DEF Fields
  <2> QED
    BY <2>3, <2>4
<1>8. CASE CallbackEnds
  <2>1. /\ stack # <<>> /\ stack' = Front(stack) /\ stack[Len(stack)].at # "retry"
        /\ UNCHANGED <<callbackId, sent, timers, jsToNativeBridgeMode>>
    BY <1>8 DEF CallbackEnds, Running, Idle, Last, native
  <2> QED
    BY <1>f, <1>s, <2>1 DEF Fields
<1>9. CASE PollTimer
  <2>1. NoRetry(stack') /\ polls' = polls - 1 /\ polls > 0
    BY <1>9, <1>p DEF PollTimer
  <2> QED
    BY <1>9, <2>1 DEF PollTimer, Fields, NoRetry, table
<1>10. CASE PollingTimer
  <2>1. NoRetry(stack')
    <3>1. CASE PollOnce
      BY <1>10, <1>p, <3>1 DEF PollingTimer
    <3>2. CASE UNCHANGED stack
      BY <1>10, <1>n, <3>2 DEF PollingTimer, Idle
    <3> QED
      BY <1>10, <3>1, <3>2 DEF PollingTimer
  <2>2. pollers' \in Nat /\ pollers' <= pollers
    BY <1>10 DEF PollingTimer, Fields
  <2> QED
    BY <1>10, <2>1, <2>2 DEF PollingTimer, Fields, NoRetry, table
<1>11. CASE PollOnceFromOnlineEvent
  <2>1. NoRetry(stack')
    BY <1>11, <1>p DEF PollOnceFromOnlineEvent
  <2> QED
    BY <1>11, <1>s, <2>1 DEF PollOnceFromOnlineEvent, Fields, table
<1>12. CASE SetNativeToJsBridgeMode
  <2>1. /\ nativeToJsBridgeMode' \in {"ONLINE_EVENT", "POLLING"}
        /\ pollEnabled' = (nativeToJsBridgeMode' = "POLLING")
        /\ pollers' = pollers + 1 \/ pollers' = pollers
        /\ switches < MaxSwitches /\ switches' = switches + 1
        /\ UNCHANGED <<callbackId, sent, stack, jsToNativeBridgeMode, polls>>
    BY <1>12 DEF SetNativeToJsBridgeMode, WithPoller, table
  <2> QED
    BY <1>t, <2>1 DEF Fields
<1>13. CASE NativeAnswer
  <2>1. sent < MaxMessages /\ sent' = sent + 1
        /\ UNCHANGED <<callbackId, stack, jsToNativeBridgeMode, timers>>
    BY <1>13 DEF NativeAnswer, table
  <2> QED
    BY <1>t, <2>1 DEF Fields, timers
<1>14. CASE UNCHANGED vars
  BY <1>14 DEF vars, native, table, timers, Fields
<1> QED
  BY <1>1, <1>2, <1>3, <1>4, <1>5, <1>6, <1>7, <1>8, <1>9, <1>10, <1>11, <1>12, <1>13, <1>14
  DEF Next, Run

LEMMA OrderInit == Init => OrderInv /\ Fields
<1> SUFFICES ASSUME Init PROVE OrderInv /\ Fields
  OBVIOUS
<1>1. /\ messagesFromNative = <<>> /\ queued = <<>> /\ sent = 0 /\ processed = 0 /\ stack = <<>>
      /\ callbackId = 0 /\ jsToNativeBridgeMode = "JS_OBJECT"
      /\ nativeToJsBridgeMode = "ONLINE_EVENT" /\ pollEnabled = FALSE
      /\ polls = 0 /\ pollers = 0 /\ switches = 0
  BY DEF Init
<1>2. Lines = << <<>> >>
  BY <1>1 DEF Lines
<1>3. \A skip, k, i : ~Stays(Lines, skip, k, i)
  BY <1>2 DEF Stays
<1>4. Ordered(Lines, CallbackRuns, processed, sent)
  BY <1>1, <1>3 DEF Ordered, InRange, AllThere, Rising
<1>5. StarsLast(messagesFromNative) /\ NoStar(queued)
  BY <1>1 DEF StarsLast, NoStar
<1>6. Fields
  <2>1. \A i \in 1..Len(stack) : FALSE
    BY <1>1
  <2>2. pollEnabled = (nativeToJsBridgeMode = "POLLING")
    BY <1>1
  <2> QED
    BY <1>1, <2>1, <2>2, BridgeAssumption DEF Fields
<1> QED
  BY <1>1, <1>4, <1>5, <1>6 DEF OrderInv

LEMMA OrderImplies == IInv /\ OrderInv /\ Fields => HandledInOrder
<1> SUFFICES ASSUME IInv, OrderInv, Fields PROVE HandledInOrder
  OBVIOUS
<1>1. MessagesInOrder
  BY InOrder DEF IInv, Types, OrderInv
<1>2. TypeOK
  <2>1. /\ callbackId \in 0..MaxCalls /\ callbacks \subseteq 1..callbackId
        /\ handed \subseteq 1..callbackId /\ sent \in 0..MaxMessages /\ processed \in 0..sent
        /\ pollers \in 0..switches /\ switches \in 0..MaxSwitches
    BY BridgeAssumption DEF IInv, Types, Fields, OrderInv
  <2>2. \A i \in 1..Len(messagesFromNative) : messagesFromNative[i] # <<>>
    BY DEF IInv, Types, Chunk
  <2>3. \A i \in 1..Len(stack) : stack[i].at \in {"processMessages", "callback", "retry", "restore"}
    <3>1. \A i \in 1..Len(stack) : stack[i] \in Act
      BY DEF IInv, Types
    <3> QED
      BY <3>1 DEF Act
  <2> QED
    BY <2>1, <2>2, <2>3 DEF TypeOK, Fields
<1> QED
  BY <1>1, <1>2 DEF HandledInOrder

(* Messages are handled in the order in which the native side made them,   *)
(* none twice and none left out, for any number of calls and messages, any *)
(* size of the chunks and any callbacks that throw.                        *)
THEOREM MessagesHandledInOrder == Spec => []HandledInOrder
<1>1. Init => IInv /\ OrderInv /\ Fields
  BY IInvInit, OrderInit
<1>2. (IInv /\ OrderInv /\ Fields) /\ [Next]_vars => (IInv /\ OrderInv /\ Fields)'
  BY IInvNext, OrderNext, FieldsNext
<1> QED
  BY <1>1, <1>2, OrderImplies, PTL DEF Spec

LEMMA Least ==
  ASSUME NEW T, T \subseteq Nat, T # {}
  PROVE  \E n \in T : \A m \in T : ~(m < n)
<1>1. PICK n \in T : \A m \in T : ~(<<m, n>> \in OpToRel(<, Nat))
  BY NatLessThanWellFounded, WFMin
<1> QED
  BY <1>1 DEF OpToRel

-----------------------------------------------------------------------------
(* The choice of an image, by induction on how many were looked at: it is  *)
(* one of them, and one of the project's level if there is one.            *)
Matches(images, i) == level[images[i]] = ProjectTarget

Chosen(images, n, choice) ==
  /\ \E i \in 1..Len(images) : choice.best = images[i]
  /\ (\E i \in 1..n : Matches(images, i)) => level[choice.best] = ProjectTarget

First(images) == [best |-> images[1], closest |-> 9999]

IsBest(f, images, n) ==
  /\ DOMAIN f = 0..n /\ f[0] = First(images)
  /\ \A i \in 1..n : f[i] = Deploys!Better(f[i - 1], images[i])

LEMMA BestExists ==
  ASSUME NEW images, NEW n \in Nat
  PROVE  \E f : IsBest(f, images, n)
<1> DEFINE T == {m \in 0..n : ~\E f : IsBest(f, images, m)}
<1>0. n \in 0..n /\ T \subseteq Nat
  OBVIOUS
<1> SUFFICES ASSUME T # {} PROVE FALSE
  BY <1>0
<1> HIDE DEF T
<1>1. PICK m \in T : \A k \in T : ~(k < m)
  BY <1>0, Least
<1> USE DEF T
<1>2. m \in 0..n /\ ~\E f : IsBest(f, images, m)
  BY <1>1
<1>3. m # 0
  <2>1. IsBest([i \in 0..0 |-> First(images)], images, 0)
    BY DEF IsBest
  <2> QED
    BY <1>2, <2>1
<1>4. m - 1 \in 0..n /\ m \in Nat
  BY <1>2, <1>3
<1>5. PICK f : IsBest(f, images, m - 1)
  BY <1>1, <1>4
<1> DEFINE g == [i \in 0..m |-> IF i = m THEN Deploys!Better(f[m - 1], images[m]) ELSE f[i]]
<1>6. DOMAIN g = 0..m /\ g[0] = First(images)
  BY <1>3, <1>4, <1>5 DEF IsBest
<1>7. ASSUME NEW i \in 1..m PROVE g[i] = Deploys!Better(g[i - 1], images[i])
  <2>1. i \in 0..m /\ i - 1 \in 0..m /\ i - 1 # m
    BY <1>4
  <2>2. g[i - 1] = f[i - 1]
    BY <2>1
  <2>3. CASE i = m
    BY <2>1, <2>2, <2>3
  <2>4. CASE i # m
    <3>1. i \in 1..(m - 1)
      BY <2>1, <2>4, <1>4
    <3>2. g[i] = f[i] /\ f[i] = Deploys!Better(f[i - 1], images[i])
      BY <2>1, <2>4, <3>1, <1>5 DEF IsBest
    <3> QED
      BY <2>2, <3>2
  <2> QED
    BY <2>3, <2>4
<1> HIDE DEF g
<1>8. IsBest(g, images, m)
  BY <1>6, <1>7 DEF IsBest
<1> QED
  BY <1>2, <1>8

LEMMA BestOfFirstIs ==
  ASSUME NEW images, Len(images) \in Nat
  PROVE  IsBest(Deploys!BestOfFirst(images), images, Len(images))
<1> DEFINE n == Len(images)
           F(f) == [i \in 0..n |-> IF i = 0 THEN First(images) ELSE Deploys!Better(f[i - 1], images[i])]
<1>1. PICK f : IsBest(f, images, n)
  BY BestExists
<1>2. f = F(f)
  <2>1. \A i \in 0..n : i = 0 \/ i \in 1..n
    OBVIOUS
  <2>2. \A i \in 0..n : f[i] = IF i = 0 THEN First(images) ELSE Deploys!Better(f[i - 1], images[i])
    BY <1>1, <2>1 DEF IsBest
  <2>3. f = [i \in 0..n |-> f[i]]
    BY <1>1 DEF IsBest
  <2> QED
    BY <2>2, <2>3
<1>3. Deploys!BestOfFirst(images) = F(Deploys!BestOfFirst(images))
  <2>1. Deploys!BestOfFirst(images) = CHOOSE choice : choice = F(choice)
    BY DEF Deploys!BestOfFirst, First
  <2> HIDE DEF F
  <2>2. (CHOOSE choice : choice = F(choice)) = F(CHOOSE choice : choice = F(choice))
    BY <1>2
  <2> QED
    BY <2>1, <2>2
<1> DEFINE g == Deploys!BestOfFirst(images)
<1> HIDE DEF g
<1>4. g = F(g)
  BY <1>3 DEF g
<1>5. DOMAIN g = 0..n /\ g[0] = First(images) /\ \A i \in 1..n : g[i] = Deploys!Better(g[i - 1], images[i])
  BY <1>4
<1> QED
  BY <1>5 DEF IsBest, g

LEMMA BetterChosen ==
  ASSUME NEW images, NEW choice, NEW n \in 1..Len(images), Len(images) \in Nat,
         Chosen(images, n - 1, choice)
  PROVE  Chosen(images, n, Deploys!Better(choice, images[n]))
<1> DEFINE next == Deploys!Better(choice, images[n])
<1>1. \/ next = choice /\ level[choice.best] = ProjectTarget
      \/ next = choice /\ ~Matches(images, n)
      \/ next.best = images[n] /\ level[choice.best] # ProjectTarget
  BY DEF Deploys!Better, Matches
<1>2. \A i \in 1..n : i \in 1..(n - 1) \/ i = n
  OBVIOUS
<1> HIDE DEF next
<1>3. \E i \in 1..Len(images) : next.best = images[i]
  BY <1>1 DEF Chosen
<1>4. (\E i \in 1..n : Matches(images, i)) => level[next.best] = ProjectTarget
  <2> SUFFICES ASSUME NEW i \in 1..n, Matches(images, i) PROVE level[next.best] = ProjectTarget
    OBVIOUS
  <2>1. CASE level[choice.best] = ProjectTarget
    BY <1>1, <2>1
  <2>2. CASE level[choice.best] # ProjectTarget
    <3>1. i = n
      BY <1>2, <2>2 DEF Chosen
    <3> QED
      BY <1>1, <2>2, <3>1 DEF Matches
  <2> QED
    BY <2>1, <2>2
<1> QED
  BY <1>3, <1>4 DEF Chosen, next

(* emulator.start, asked for no image, takes one that is there, and one of *)
(* the project's API level whenever there is one, in whatever order they   *)
(* are listed and however their levels compare as strings.                 *)
THEOREM BestImageFits ==
  ASSUME NEW images, Len(images) \in Nat \ {0}
  PROVE  /\ \E i \in 1..Len(images) : Deploys!BestImage(images) = images[i]
         /\ (\E i \in 1..Len(images) : Matches(images, i)) => level[Deploys!BestImage(images)] = ProjectTarget
<1> DEFINE f == Deploys!BestOfFirst(images)
           T == {n \in 0..Len(images) : ~Chosen(images, n, f[n])}
<1>1. IsBest(f, images, Len(images))
  BY BestOfFirstIs
<1> HIDE DEF f
<1>2. T = {}
  <2> SUFFICES ASSUME T # {} PROVE FALSE
    OBVIOUS
  <2>1. T \subseteq Nat
    OBVIOUS
  <2> HIDE DEF T
  <2>2. PICK n \in T : \A m \in T : ~(m < n)
    BY <2>1, Least
  <2> USE DEF T
  <2>3. n \in 0..Len(images) /\ ~Chosen(images, n, f[n])
    BY <2>2
  <2>4. n # 0
    <3>1. First(images).best = images[1] /\ 1 \in 1..Len(images)
      BY DEF First
    <3> QED
      BY <1>1, <2>3, <3>1 DEF Chosen, IsBest
  <2>5. n - 1 \in 0..Len(images) /\ n - 1 < n /\ n \in 1..Len(images)
    BY <2>3, <2>4
  <2>6. Chosen(images, n - 1, f[n - 1])
    BY <2>2, <2>5
  <2>7. f[n] = Deploys!Better(f[n - 1], images[n])
    BY <1>1, <2>5 DEF IsBest
  <2> QED
    BY <2>3, <2>5, <2>6, <2>7, BetterChosen
<1>3. Chosen(images, Len(images), f[Len(images)])
  BY <1>2
<1> QED
  BY <1>3 DEF Chosen, Deploys!BestImage, f
-----------------------------------------------------------------------------
(* The inductive invariant: what is settled when the script is at a place. *)
Unbuilt == {"check_reqs", "run", "clean", "ant"}
Listing == {"device.list", "emulator.list_started"}
Starting == {"emulator.start", "wait_for_emulator", "wait_for_boot"}

BuildInv == pc \notin Unbuilt /\ option.build # "--nobuild" => built

(* The lists that were looked at before a target is chosen.                *)
SeenInv ==
  /\ option.target \in Targets
  /\ pc \in Unbuilt \cup Listing \cup {"choose"} => seen \subseteq Devices
  /\ pc = "wait_for_boot" => startedEmulator.serial \in Serials

(* No target is chosen before the script knows whether it goes to a device *)
(* or to an emulator, and then it is the one that was asked for, if one    *)
(* was.                                                                    *)
TargetInv ==
  /\ pc \in Unbuilt \cup Listing \cup Starting \cup {"choose"} => target = None
  /\ pc \in Listing => option.target \notin {"--device", "--emulator"}
  /\ pc \in Starting => option.target \in Avds \cup {None, "--emulator"}
  /\ pc = "device.install" =>
       \/ target = None /\ option.target = "--device"
       \/ target \in Devices /\ option.target \in {None, target}
  /\ pc = "emulator.install" =>
       \/ target = None /\ option.target = "--emulator"
       \/ target \in Serials /\ option.target \in Avds \cup {None, target}

LaunchInv ==
  /\ installed # None <=> pc = "launch"
  /\ took \/ code = 0 => pc = "launch"

(* The emulator the script has started for an image it was asked for, and  *)
(* that it runs this image while nothing else comes or goes.               *)
OwnEmulator ==
  option.target \in Avds =>
    /\ pc \in {"emulator.start", "wait_for_emulator"} => wanted = option.target
    /\ pc \in {"emulator.install", "launch"} =>
         target = startedEmulator.serial /\ target \in Serials

Unstarted == Unbuilt \cup Listing \cup {"choose", "emulator.start"}

OwnImage ==
  changes = 0 /\ option.target \in Avds =>
    /\ launching \subseteq {option.target}
    /\ pc \in Unstarted =>
         launching = {} /\ \A s \in Serials : emulators[s] \in {Deploys!Off, Deploys!Foreign}
    /\ pc = "wait_for_emulator" =>
         /\ seen \subseteq Deploys!Running
         /\ \A s \in Deploys!Running \ seen : emulators[s] = option.target
    /\ pc \in {"wait_for_boot", "emulator.install", "launch"} =>
         startedEmulator.serial \in Serials /\ emulators[startedEmulator.serial] = option.target

InstallInv ==
  installed # None =>
    /\ option.target = "--device" => installed \in Devices
    /\ option.target = "--emulator" => installed \in Serials
    /\ option.target \in Devices \cup Serials => installed = option.target
    /\ target # None => installed = target

DeployInv ==
  /\ Deploys!TypeOK /\ changes \in Nat
  /\ BuildInv /\ SeenInv /\ TargetInv /\ LaunchInv /\ InstallInv /\ OwnEmulator /\ OwnImage

LEMMA DeployInvInit == Deploys!DeployAssumption /\ Deploys!Init => DeployInv
<1> SUFFICES ASSUME Deploys!DeployAssumption, Deploys!Init PROVE DeployInv
  OBVIOUS
<1>1. Deploys!TypeOK
  BY DEF Deploys!Init, Deploys!TypeOK, Deploys!Places, Deploys!Running, Deploys!Images, Deploys!DeployAssumption, Deploys!Off, Deploys!Foreign
<1>2. BuildInv /\ SeenInv /\ TargetInv /\ LaunchInv /\ InstallInv /\ OwnEmulator
  BY DEF Deploys!Init, BuildInv, SeenInv, TargetInv, LaunchInv, InstallInv, OwnEmulator, Unbuilt, Listing,
         Starting, Deploys!DeployAssumption, Deploys!Options
<1>3. OwnImage /\ changes \in Nat
  BY DEF Deploys!Init, OwnImage
<1> QED
  BY <1>1, <1>2, <1>3 DEF DeployInv

(* An image that is chosen is one that there is.                           *)
LEMMA BestImageType ==
  ASSUME Deploys!DeployAssumption, Deploys!Images # {}, NEW images \in Deploys!SetToSeqs(Deploys!Images)
  PROVE  Deploys!BestImage(images) \in Deploys!Images
<1>1. Deploys!Images \subseteq Avds /\ IsFiniteSet(Avds)
  BY DEF Deploys!Images, Deploys!DeployAssumption, IsFiniteSet, Deploys!IsFiniteSet
<1>2. IsFiniteSet(Deploys!Images) /\ Cardinality(Deploys!Images) \in Nat \ {0}
  BY <1>1, FS_Subset, FS_CardinalityType, FS_EmptySet
<1>3. images \in [1..Cardinality(Deploys!Images) -> Deploys!Images]
  BY DEF Deploys!SetToSeqs, Deploys!Cardinality, Cardinality
<1>4. Len(images) = Cardinality(Deploys!Images)
  BY <1>2, <1>3
<1> QED
  BY <1>2, <1>3, <1>4, BestImageFits

LEMMA DeployTypeNext == Deploys!DeployAssumption /\ Deploys!TypeOK /\ SeenInv /\ TargetInv /\ [Deploys!Next]_(Deploys!vars) => Deploys!TypeOK'
<1> SUFFICES ASSUME Deploys!DeployAssumption, Deploys!TypeOK, SeenInv, TargetInv, [Deploys!Next]_(Deploys!vars) PROVE Deploys!TypeOK'
  OBVIOUS
<1> USE DEF Deploys!Goto, Deploys!Exit, Deploys!At, Deploys!Places
<1>0. ASSUME UNCHANGED <<level, Deploys!bin, Deploys!world, Deploys!chosen, Deploys!deployed>>,
             pc' \in Deploys!Places, code' \in {None, 0, 2}
      PROVE  Deploys!TypeOK'
  BY <1>0 DEF Deploys!TypeOK, Deploys!bin, Deploys!world, Deploys!chosen, Deploys!deployed, Deploys!Running, Deploys!Images
<1>1. CASE Deploys!CheckReqs \/ Deploys!ParseArgs \/ Deploys!Choose \/ Deploys!Launch \/ Deploys!CommandFails \/ UNCHANGED Deploys!vars
  <2>1. pc' \in Deploys!Places /\ code' \in {None, 0, 2}
    BY <1>1 DEF Deploys!CheckReqs, Deploys!ParseArgs, Deploys!Choose, Deploys!Launch, Deploys!CommandFails, Deploys!vars, Deploys!TypeOK
  <2>2. UNCHANGED <<level, Deploys!bin, Deploys!world, Deploys!chosen, Deploys!deployed>>
    BY <1>1 DEF Deploys!CheckReqs, Deploys!ParseArgs, Deploys!Choose, Deploys!Launch, Deploys!CommandFails, Deploys!vars
  <2> QED
    BY <1>0, <2>1, <2>2
<1>2. CASE Deploys!Clean \/ Deploys!Ant
  BY <1>2 DEF Deploys!Clean, Deploys!Ant, Deploys!TypeOK, Deploys!world, Deploys!chosen, Deploys!deployed, Deploys!Running, Deploys!Images
<1>3. CASE Deploys!ListDevices
  BY <1>3 DEF Deploys!ListDevices, Deploys!TypeOK, Deploys!deployed, Deploys!bin, Deploys!world, Deploys!Running, Deploys!Images
<1>4. CASE Deploys!ListStarted
  <2>1. target' \in Devices \cup Serials \cup {None}
    BY <1>4 DEF Deploys!ListStarted, Deploys!TypeOK, Deploys!Running
  <2>2. wanted' \in Deploys!Images \cup {None}
    BY <1>4 DEF Deploys!ListStarted, Deploys!ImageNamed, Deploys!TypeOK
  <2>3. pc' \in Deploys!Places /\ code' \in {None, 0, 2}
    BY <1>4 DEF Deploys!ListStarted, Deploys!TypeOK
  <2> QED
    BY <1>4, <2>1, <2>2, <2>3 DEF Deploys!ListStarted, Deploys!TypeOK, Deploys!deployed, Deploys!bin, Deploys!world, Deploys!Running, Deploys!Images
<1>5. CASE Deploys!Start
  <2>1. CASE Deploys!Images = {} /\ wanted = None
    BY <1>5, <2>1 DEF Deploys!Start, Deploys!TypeOK, Deploys!deployed, Deploys!bin, Deploys!Running, Deploys!Images
  <2>2. CASE ~(Deploys!Images = {} /\ wanted = None)
    <3>1. wanted' \in Deploys!Images
      BY <1>5, <2>2, BestImageType DEF Deploys!Start, Deploys!TypeOK
    <3>2. launching' \subseteq Avds
      BY <1>5, <2>2, <3>1 DEF Deploys!Start, Deploys!TypeOK, Deploys!Images
    <3>3. seen' \subseteq Devices \cup Serials
      BY <1>5, <2>2 DEF Deploys!Start, Deploys!Running
    <3>4. pc' \in Deploys!Places /\ code' \in {None, 0, 2}
      BY <1>5, <2>2 DEF Deploys!Start, Deploys!TypeOK
    <3> QED
      BY <1>5, <3>1, <3>2, <3>3, <3>4 DEF Deploys!Start, Deploys!TypeOK, Deploys!deployed, Deploys!bin, Deploys!Running, Deploys!Images
  <2> QED
    BY <2>1, <2>2
<1>6. CASE Deploys!WaitForEmulator
  <2>1. startedEmulator' \in [serial : Serials, image : Avds \cup {Deploys!Foreign}]
    BY <1>6 DEF Deploys!WaitForEmulator, Deploys!Running, Deploys!TypeOK
  <2> QED
    BY <1>6, <2>1 DEF Deploys!WaitForEmulator, Deploys!TypeOK, Deploys!deployed, Deploys!bin, Deploys!world, Deploys!Running, Deploys!Images
<1>7. CASE Deploys!WaitForBoot
  BY <1>7 DEF Deploys!WaitForBoot, SeenInv, Deploys!TypeOK, Deploys!deployed, Deploys!bin, Deploys!world, Deploys!Running, Deploys!Images
<1>8. CASE Deploys!DeviceInstall \/ Deploys!EmulatorInstall
  <2>1. installed' \in Devices \cup Serials \cup {None} /\ took' \in BOOLEAN
    BY <1>8 DEF Deploys!DeviceInstall, Deploys!EmulatorInstall, Deploys!Install, Deploys!deployed, Deploys!Takes, Deploys!Running, Deploys!TypeOK
  <2>2. pc' \in Deploys!Places /\ code' \in {None, 0, 2}
    BY <1>8 DEF Deploys!DeviceInstall, Deploys!EmulatorInstall, Deploys!Install, Deploys!TypeOK
  <2>3. UNCHANGED <<level, Deploys!bin, Deploys!world, Deploys!chosen>>
    BY <1>8 DEF Deploys!DeviceInstall, Deploys!EmulatorInstall, Deploys!Install
  <2> QED
    BY <2>1, <2>2, <2>3 DEF Deploys!TypeOK, Deploys!deployed, Deploys!bin, Deploys!world, Deploys!chosen, Deploys!Running, Deploys!Images
<1>9. CASE Deploys!Appears
  <2>1. PICK a \in launching, s \in Serials \ Deploys!Running : emulators' = [emulators EXCEPT ![s] = a]
    BY <1>9 DEF Deploys!Appears
  <2>2. booted \subseteq Deploys!Running'
    BY <2>1 DEF Deploys!TypeOK, Deploys!Running
  <2>3. emulators' \in [Serials -> {Deploys!Off, Deploys!Foreign} \cup Avds] /\ launching' \subseteq Avds
    BY <1>9, <2>1 DEF Deploys!Appears, Deploys!TypeOK
  <2> QED
    BY <1>9, <2>2, <2>3 DEF Deploys!Appears, Deploys!TypeOK, Deploys!deployed, Deploys!bin, Deploys!chosen, Deploys!Images
<1>10. CASE Deploys!Boots
  BY <1>10 DEF Deploys!Boots, Deploys!TypeOK, Deploys!deployed, Deploys!bin, Deploys!chosen, Deploys!Running, Deploys!Images
<1>11. CASE Deploys!SomethingElse
  <2>1. devices' \subseteq Devices
    BY <1>11 DEF Deploys!SomethingElse, Deploys!TypeOK
  <2>2. emulators' \in [Serials -> {Deploys!Off, Deploys!Foreign} \cup Avds]
    BY <1>11 DEF Deploys!SomethingElse, Deploys!TypeOK
  <2>3. booted' \subseteq Deploys!Running'
    BY <1>11 DEF Deploys!SomethingElse, Deploys!TypeOK, Deploys!Running
  <2> QED
    BY <1>11, <2>1, <2>2, <2>3 DEF Deploys!SomethingElse, Deploys!TypeOK, Deploys!deployed, Deploys!bin, Deploys!chosen, Deploys!Images
<1> QED
  BY <1>1, <1>2, <1>3, <1>4, <1>5, <1>6, <1>7, <1>8, <1>9, <1>10, <1>11 DEF Deploys!Next, Deploys!Script

(* What happens outside of the script does not touch what it has settled.  *)
Settled == <<pc, option, apk, built, seen, wanted, target, startedEmulator, installed, took, code>>

LEMMA SettledStays ==
  (BuildInv /\ SeenInv /\ TargetInv /\ LaunchInv /\ InstallInv /\ OwnEmulator) /\ UNCHANGED Settled
    => (BuildInv /\ SeenInv /\ TargetInv /\ LaunchInv /\ InstallInv /\ OwnEmulator)'
BY DEF Settled, BuildInv, SeenInv, TargetInv, LaunchInv, InstallInv, OwnEmulator

(* Nothing but the image that was asked for appears by itself.             *)
LEMMA OwnImageOutside ==
  ASSUME Deploys!DeployAssumption, DeployInv, Deploys!Appears \/ Deploys!Boots \/ Deploys!SomethingElse
  PROVE  OwnImage'
<1> SUFFICES ASSUME changes' = 0, (option.target)' \in Avds PROVE OwnImage'
  BY DEF OwnImage
<1>1. CASE Deploys!SomethingElse
  BY <1>1 DEF Deploys!SomethingElse, DeployInv
<1>2. CASE Deploys!Boots
  BY <1>2 DEF Deploys!Boots, Deploys!bin, Deploys!chosen, Deploys!deployed, DeployInv, OwnImage, Deploys!Running
<1>3. CASE Deploys!Appears
  <2>1. PICK a \in launching, s \in Serials \ Deploys!Running :
          /\ emulators' = [emulators EXCEPT ![s] = a] /\ launching' = launching \ {a}
    BY <1>3 DEF Deploys!Appears
  <2>2. UNCHANGED <<pc, option, changes, seen, startedEmulator>>
    BY <1>3 DEF Deploys!Appears, Deploys!chosen
  <2>3. a = option.target /\ pc \notin Unstarted /\ a # Deploys!Off
    BY <2>1, <2>2 DEF DeployInv, OwnImage, Deploys!DeployAssumption
  <2>4. /\ emulators' \in [Serials -> {Deploys!Off, Deploys!Foreign} \cup Avds] /\ emulators'[s] = a
        /\ \A r \in Serials : r # s => emulators'[r] = emulators[r]
    BY <2>1, <2>2, <2>3 DEF DeployInv, Deploys!TypeOK
  <2>5. Deploys!Running' = Deploys!Running \cup {s}
    BY <2>1, <2>3, <2>4 DEF Deploys!Running
  <2> QED
    BY <2>1, <2>2, <2>3, <2>4, <2>5 DEF DeployInv, OwnImage, Deploys!Running
<1> QED
  BY <1>1, <1>2, <1>3

(* Of the emulators that run when there are more than before, the one that *)
(* start takes was not known.                                              *)
LEMMA NewOne ==
  ASSUME seen \subseteq Deploys!Running, Deploys!Grown, NEW s \in Deploys!Running,
         s \notin seen \/ Deploys!Running = {s}
  PROVE  s \notin seen
<1> SUFFICES ASSUME Deploys!Running = {s}, s \in seen PROVE FALSE
  OBVIOUS
<1>1. seen = Deploys!Running
  OBVIOUS
<1>2. Cardinality({s}) > Cardinality({s})
  BY <1>1 DEF Deploys!Grown, Deploys!Cardinality, Cardinality
<1>3. Cardinality({s}) = 1
  BY FS_Singleton
<1> QED
  BY <1>2, <1>3

LEMMA OwnImageScript ==
  ASSUME Deploys!DeployAssumption, DeployInv, Deploys!Script
  PROVE  OwnImage'
<1> SUFFICES ASSUME changes = 0, option.target \in Avds PROVE OwnImage'
  <2>1. UNCHANGED <<changes, option>>
    BY DEF Deploys!Script, Deploys!CheckReqs, Deploys!ParseArgs, Deploys!Clean, Deploys!Ant, Deploys!Choose,
       Deploys!ListDevices, Deploys!ListStarted, Deploys!Start, Deploys!WaitForEmulator, Deploys!WaitForBoot,
       Deploys!DeviceInstall, Deploys!EmulatorInstall, Deploys!Install, Deploys!Launch, Deploys!CommandFails,
       Deploys!world
  <2> QED
    BY <2>1 DEF OwnImage
<1> USE DEF Deploys!Goto, Deploys!Exit, Deploys!At
<1>0. OwnImage /\ OwnEmulator /\ TargetInv /\ Deploys!TypeOK
  BY DEF DeployInv
<1>1. CASE UNCHANGED <<option, Deploys!world, seen, startedEmulator>> /\ (pc' = pc \/ (pc \in Unstarted /\ pc' \in Unstarted))
  BY <1>0, <1>1 DEF OwnImage, Deploys!world, Deploys!Running, Unstarted, Unbuilt, Listing
<1>2. CASE Deploys!CheckReqs \/ Deploys!ParseArgs \/ Deploys!Clean \/ Deploys!Ant \/ Deploys!Launch \/ Deploys!CommandFails
  BY <1>1, <1>2 DEF Deploys!CheckReqs, Deploys!ParseArgs, Deploys!Clean, Deploys!Ant, Deploys!Launch,
     Deploys!CommandFails, Deploys!chosen, Unstarted, Unbuilt, Listing
<1>3. CASE Deploys!Choose
  <2>1. option.target \notin {"--device", "--emulator"}
    BY DEF Deploys!DeployAssumption, Deploys!Options
  <2> QED
    BY <1>1, <1>3, <2>1 DEF Deploys!Choose, Deploys!chosen, Unstarted, Unbuilt, Listing
<1>4. CASE Deploys!ListDevices
  <2>1. pc \in Unstarted /\ pc' \in Unstarted /\ UNCHANGED <<option, Deploys!world, startedEmulator>>
    <3>1. option.target # None
      BY DEF Deploys!DeployAssumption, Deploys!Options
    <3> QED
      BY <1>4, <3>1 DEF Deploys!ListDevices, Unstarted, Listing
  <2> QED
    BY <1>0, <2>1 DEF OwnImage, Deploys!world, Unstarted, Unbuilt, Listing
<1>5. CASE Deploys!ListStarted
  <2>1. option.target \notin seen \cup Deploys!Running /\ option.target # None
    BY <1>5 DEF DeployInv, SeenInv, Deploys!ListStarted, Deploys!DeployAssumption, Deploys!Options, Deploys!Running,
       Listing
  <2> QED
    BY <1>1, <1>5, <2>1 DEF Deploys!ListStarted, Unstarted, Listing
<1>6. CASE Deploys!Start
  <2>1. CASE pc' = pc
    <3>1. UNCHANGED <<option, emulators, changes, startedEmulator, pc>> /\ pc \in Unstarted /\ launching' = launching
      BY <1>6, <2>1 DEF Deploys!Start, Unstarted
    <3> QED
      BY <1>0, <3>1 DEF OwnImage, Unstarted, Unbuilt, Listing
  <2>2. CASE pc' = "wait_for_emulator"
    <3>1. wanted = option.target /\ wanted # None /\ pc = "emulator.start"
      BY <1>0, <1>6 DEF Deploys!Start, OwnEmulator, Deploys!DeployAssumption, Deploys!Options
    <3>2. /\ seen' = Deploys!Running /\ launching' = launching \cup {wanted}
          /\ UNCHANGED <<option, emulators, startedEmulator>>
      BY <1>6, <2>2, <3>1 DEF Deploys!Start
    <3>3. Deploys!Running' = Deploys!Running
      BY <3>2 DEF Deploys!Running
    <3> QED
      BY <1>0, <2>2, <3>1, <3>2, <3>3 DEF OwnImage, Unstarted, Unbuilt, Listing
  <2> QED
    BY <1>6, <2>1, <2>2 DEF Deploys!Start
<1>7. CASE Deploys!WaitForEmulator
  <2>1. PICK s \in Deploys!Running :
          /\ s \notin seen \/ Deploys!Running = {s}
          /\ startedEmulator' = [serial |-> s, image |-> emulators[s]]
    BY <1>7 DEF Deploys!WaitForEmulator
  <2>2. pc = "wait_for_emulator" /\ pc' = "wait_for_boot" /\ UNCHANGED <<option, Deploys!world>> /\ Deploys!Grown
    BY <1>7 DEF Deploys!WaitForEmulator
  <2>3. emulators[s] = option.target /\ s \in Serials
    <3>1. seen \subseteq Deploys!Running /\ \A r \in Deploys!Running \ seen : emulators[r] = option.target
      BY <1>0, <2>2 DEF OwnImage
    <3>2. s \notin seen
      BY <2>1, <2>2, <3>1, NewOne
    <3> QED
      BY <3>1, <3>2 DEF Deploys!Running
  <2> QED
    BY <1>0, <2>1, <2>2, <2>3 DEF OwnImage, Deploys!world, Unstarted, Unbuilt, Listing
<1>8. CASE Deploys!WaitForBoot
  <2>1. pc = "wait_for_boot" /\ pc' = "emulator.install" /\ UNCHANGED <<option, Deploys!world, startedEmulator>>
    BY <1>8 DEF Deploys!WaitForBoot
  <2> QED
    BY <1>0, <2>1 DEF OwnImage, Deploys!world, Unstarted, Unbuilt, Listing
<1>9. CASE Deploys!DeviceInstall \/ Deploys!EmulatorInstall
  <2>1. pc = "emulator.install" /\ pc' \in {pc, "launch"} /\ UNCHANGED <<option, Deploys!world, startedEmulator>>
    BY <1>0, <1>9 DEF Deploys!DeviceInstall, Deploys!EmulatorInstall, Deploys!Install, Deploys!chosen, TargetInv,
       Deploys!DeployAssumption, Deploys!Options
  <2> QED
    BY <1>0, <2>1 DEF OwnImage, Deploys!world, Unstarted, Unbuilt, Listing
<1> QED
  BY <1>2, <1>3, <1>4, <1>5, <1>6, <1>7, <1>8, <1>9 DEF Deploys!Script

LEMMA OwnEmulatorScript ==
  ASSUME Deploys!DeployAssumption, DeployInv, Deploys!Script
  PROVE  OwnEmulator'
<1> SUFFICES ASSUME option.target \in Avds, option' = option PROVE OwnEmulator'
  <2>1. UNCHANGED option
    BY DEF Deploys!Script, Deploys!CheckReqs, Deploys!ParseArgs, Deploys!Clean, Deploys!Ant, Deploys!Choose,
       Deploys!ListDevices, Deploys!ListStarted, Deploys!Start, Deploys!WaitForEmulator, Deploys!WaitForBoot,
       Deploys!DeviceInstall, Deploys!EmulatorInstall, Deploys!Install, Deploys!Launch, Deploys!CommandFails
  <2> QED
    BY <2>1 DEF OwnEmulator
<1> USE DEF Deploys!Goto, Deploys!Exit, Deploys!At
<1>0. /\ OwnEmulator /\ TargetInv /\ Deploys!TypeOK
      /\ option.target \notin {None, "--device", "--emulator"} /\ option.target \notin Devices \cup Serials
  BY DEF DeployInv, Deploys!DeployAssumption, Deploys!Options
<1>1. CASE Deploys!CheckReqs \/ Deploys!ParseArgs \/ Deploys!Clean \/ Deploys!Ant \/ Deploys!Choose
  BY <1>0, <1>1 DEF Deploys!CheckReqs, Deploys!ParseArgs, Deploys!Clean, Deploys!Ant, Deploys!Choose,
     Deploys!chosen, OwnEmulator
<1>2. CASE Deploys!Launch \/ Deploys!CommandFails
  BY <1>0, <1>2 DEF Deploys!Launch, Deploys!CommandFails, Deploys!chosen, OwnEmulator
<1>3. CASE Deploys!ListDevices
  BY <1>0, <1>3 DEF Deploys!ListDevices, OwnEmulator
<1>4. CASE Deploys!ListStarted
  <2>1. option.target \notin seen \cup Deploys!Running
    BY <1>0, <1>4 DEF DeployInv, SeenInv, Deploys!ListStarted, Deploys!Running, Listing
  <2> QED
    BY <1>0, <1>4, <2>1 DEF Deploys!ListStarted, Deploys!ImageNamed, OwnEmulator
<1>5. CASE Deploys!Start
  BY <1>0, <1>5 DEF Deploys!Start, OwnEmulator
<1>6. CASE Deploys!WaitForEmulator
  BY <1>6 DEF Deploys!WaitForEmulator, OwnEmulator
<1>7. CASE Deploys!WaitForBoot
  BY <1>0, <1>7 DEF Deploys!WaitForBoot, OwnEmulator, DeployInv, SeenInv
<1>8. CASE Deploys!DeviceInstall \/ Deploys!EmulatorInstall
  <2>1. pc = "emulator.install" /\ pc' \in {pc, "launch"} /\ UNCHANGED Deploys!chosen
    BY <1>0, <1>8 DEF Deploys!DeviceInstall, Deploys!EmulatorInstall, Deploys!Install, TargetInv
  <2> QED
    BY <1>0, <2>1 DEF OwnEmulator, Deploys!chosen
<1> QED
  BY <1>1, <1>2, <1>3, <1>4, <1>5, <1>6, <1>7, <1>8 DEF Deploys!Script

LEMMA DeployInvNext == Deploys!DeployAssumption /\ DeployInv /\ [Deploys!Next]_(Deploys!vars) => DeployInv'
<1> SUFFICES ASSUME Deploys!DeployAssumption, DeployInv, [Deploys!Next]_(Deploys!vars) PROVE DeployInv'
  OBVIOUS
<1>0. Deploys!TypeOK /\ Deploys!TypeOK'
  BY DeployTypeNext DEF DeployInv
<1> USE DEF Deploys!Goto, Deploys!Exit, Deploys!At
<1>1. CASE Deploys!Appears \/ Deploys!Boots \/ Deploys!SomethingElse \/ UNCHANGED Deploys!vars
  <2>1. UNCHANGED Settled
    BY <1>1 DEF Deploys!Appears, Deploys!Boots, Deploys!SomethingElse, Deploys!vars, Deploys!bin, Deploys!chosen, Deploys!deployed, Settled
  <2>2. OwnImage' /\ changes' \in Nat
    <3>1. CASE UNCHANGED Deploys!vars
      BY <3>1 DEF Deploys!vars, Deploys!world, Deploys!chosen, DeployInv, OwnImage, Deploys!Running
    <3>2. CASE Deploys!Appears \/ Deploys!Boots \/ Deploys!SomethingElse
      BY <3>2, OwnImageOutside DEF Deploys!Appears, Deploys!Boots, Deploys!SomethingElse, DeployInv
    <3> QED
      BY <1>1, <3>1, <3>2
  <2> QED
    BY <1>0, <2>1, <2>2, SettledStays DEF DeployInv
<1>2. CASE Deploys!Script
  <2>1. BuildInv'
    BY <1>2 DEF Deploys!Script, Deploys!CheckReqs, Deploys!ParseArgs, Deploys!Clean, Deploys!Ant, Deploys!Choose, Deploys!ListDevices, Deploys!ListStarted, Deploys!Start,
       Deploys!WaitForEmulator, Deploys!WaitForBoot, Deploys!DeviceInstall, Deploys!EmulatorInstall, Deploys!Install, Deploys!Launch, Deploys!CommandFails,
       DeployInv, BuildInv, Deploys!Builds, Unbuilt, Deploys!bin
  <2>2. LaunchInv'
    <3>1. CASE Deploys!DeviceInstall \/ Deploys!EmulatorInstall
      <4>1. installed = None /\ ~took /\ installed' \in Devices \cup Serials \cup {None}
        BY <1>0, <3>1 DEF Deploys!DeviceInstall, Deploys!EmulatorInstall, DeployInv, LaunchInv, Deploys!TypeOK
      <4> QED
        BY <3>1, <4>1 DEF Deploys!DeviceInstall, Deploys!EmulatorInstall, Deploys!Install, Deploys!Takes, Deploys!Running, DeployInv,
           LaunchInv, Deploys!deployed, Deploys!DeployAssumption, Deploys!Options, Deploys!TypeOK
    <3>2. CASE ~(Deploys!DeviceInstall \/ Deploys!EmulatorInstall)
      BY <1>2, <3>2 DEF Deploys!Script, Deploys!CheckReqs, Deploys!ParseArgs, Deploys!Clean, Deploys!Ant, Deploys!Choose, Deploys!ListDevices, Deploys!ListStarted,
         Deploys!Start, Deploys!WaitForEmulator, Deploys!WaitForBoot, Deploys!Launch, Deploys!CommandFails, DeployInv, LaunchInv, Deploys!chosen,
         Deploys!deployed, Deploys!DeployAssumption
    <3> QED
      BY <3>1, <3>2
  <2>3. SeenInv' /\ TargetInv'
    <3>1. CASE Deploys!CheckReqs \/ Deploys!ParseArgs \/ Deploys!Clean \/ Deploys!Ant \/ Deploys!Choose \/ Deploys!Launch \/ Deploys!CommandFails
      BY <3>1 DEF Deploys!CheckReqs, Deploys!ParseArgs, Deploys!Clean, Deploys!Ant, Deploys!Choose, Deploys!Launch, Deploys!CommandFails, DeployInv, SeenInv,
         TargetInv, Unbuilt, Listing, Starting, Deploys!chosen
    <3>2. CASE Deploys!ListDevices
      BY <1>0, <3>2 DEF Deploys!ListDevices, DeployInv, SeenInv, TargetInv, Unbuilt, Listing, Starting, Deploys!TypeOK,
         Deploys!DeployAssumption, Deploys!Options
    <3>3. CASE Deploys!ListStarted
      <4>1. SeenInv'
        BY <3>3 DEF Deploys!ListStarted, DeployInv, SeenInv, Unbuilt, Listing
      <4>2. CASE option.target = None
        BY <3>3, <4>2 DEF Deploys!ListStarted, DeployInv, SeenInv, TargetInv, Unbuilt, Listing, Starting,
           Deploys!Running
      <4>3. CASE option.target # None
        BY <1>0, <3>3, <4>3 DEF Deploys!ListStarted, DeployInv, SeenInv, TargetInv, Unbuilt, Listing, Starting,
           Deploys!Running, Deploys!Images, Deploys!TypeOK, Deploys!DeployAssumption, Deploys!Options
      <4> QED
        BY <4>1, <4>2, <4>3
    <3>4. CASE Deploys!Start
      BY <3>4 DEF Deploys!Start, DeployInv, SeenInv, TargetInv, Unbuilt, Listing, Starting
    <3>5. CASE Deploys!WaitForEmulator
      BY <3>5 DEF Deploys!WaitForEmulator, DeployInv, SeenInv, TargetInv, Unbuilt, Listing, Starting, Deploys!Running
    <3>6. CASE Deploys!WaitForBoot
      BY <3>6 DEF Deploys!WaitForBoot, DeployInv, SeenInv, TargetInv, Unbuilt, Listing, Starting,
         Deploys!DeployAssumption, Deploys!Options
    <3>7. CASE Deploys!DeviceInstall \/ Deploys!EmulatorInstall
      BY <3>7 DEF Deploys!DeviceInstall, Deploys!EmulatorInstall, Deploys!Install, Deploys!chosen, DeployInv, SeenInv, TargetInv,
         Unbuilt, Listing, Starting
    <3> QED
      BY <1>2, <3>1, <3>2, <3>3, <3>4, <3>5, <3>6, <3>7 DEF Deploys!Script
  <2>4. InstallInv'
    <3>1. CASE Deploys!DeviceInstall
      BY <1>0, <3>1 DEF Deploys!DeviceInstall, Deploys!Install, Deploys!Takes, Deploys!chosen, Deploys!deployed, DeployInv, TargetInv, LaunchInv,
         InstallInv, Deploys!DeployAssumption, Deploys!Options, Deploys!TypeOK
    <3>2. CASE Deploys!EmulatorInstall
      BY <1>0, <3>2 DEF Deploys!EmulatorInstall, Deploys!Install, Deploys!Takes, Deploys!chosen, Deploys!deployed, Deploys!Running, DeployInv, TargetInv,
         LaunchInv, InstallInv, Deploys!DeployAssumption, Deploys!Options, Deploys!TypeOK
    <3>3. CASE ~(Deploys!DeviceInstall \/ Deploys!EmulatorInstall)
      BY <1>2, <3>3 DEF Deploys!Script, Deploys!CheckReqs, Deploys!ParseArgs, Deploys!Clean, Deploys!Ant, Deploys!Choose, Deploys!ListDevices, Deploys!ListStarted,
         Deploys!Start, Deploys!WaitForEmulator, Deploys!WaitForBoot, Deploys!Launch, Deploys!CommandFails, DeployInv, LaunchInv, Deploys!chosen,
         InstallInv, Deploys!deployed
    <3> QED
      BY <3>1, <3>2, <3>3
  <2>5. changes' \in Nat
    BY <1>2 DEF DeployInv, Deploys!Script, Deploys!CheckReqs, Deploys!ParseArgs, Deploys!Clean, Deploys!Ant,
       Deploys!Choose, Deploys!ListDevices, Deploys!ListStarted, Deploys!Start, Deploys!WaitForEmulator,
       Deploys!WaitForBoot, Deploys!DeviceInstall, Deploys!EmulatorInstall, Deploys!Install, Deploys!Launch,
       Deploys!CommandFails, Deploys!world
  <2> QED
    BY <1>0, <1>2, <2>1, <2>2, <2>3, <2>4, <2>5, OwnEmulatorScript, OwnImageScript DEF DeployInv
<1> QED
  BY <1>1, <1>2 DEF Deploys!Next

(* The scripts that run from one event to the next, and what of them the   *)
(* invariant tells apart.                                                  *)
Fires(c) == <<Rough!Do("fire", c)>>
Calls(c) == <<Rough!Do("call", "device"), Rough!Do("clear", c)>>
Sets(c) == <<Rough!Do("fireDocumentEvent", "deviceready"), Rough!Do("clear", c)>>
Clears(c) == <<Rough!Do("clear", c)>>

(* What the channels of the device call: the document and the features.    *)
Loose == {"onDOMContentLoaded"} \cup Rough!Features
LooseScripts(c) == {Fires(c), Calls(c), Sets(c), Clears(c)}
Between(a) == a = <<>> \/ \E c \in Loose : a \in LooseScripts(c)

PlatformCalls == <<Rough!Do("call", "platform"), Rough!Do("clear", "onPluginsReady")>>
ModulesMap == <<Rough!Do("mapModules", "platform"), Rough!Do("fire", "onCordovaReady"),
                Rough!Do("join", "device"), Rough!Do("clear", "onPluginsReady")>>
ReadyFires == <<Rough!Do("fire", "onCordovaReady"), Rough!Do("join", "device"), Rough!Do("clear", "onPluginsReady")>>
ShowCalls == <<Rough!Do("call", "show"), Rough!Do("clear", "onCordovaReady"), Rough!Do("join", "device"),
               Rough!Do("clear", "onPluginsReady")>>
ReadyClears == <<Rough!Do("clear", "onCordovaReady"), Rough!Do("join", "device"), Rough!Do("clear", "onPluginsReady")>>
DeviceJoins == <<Rough!Do("join", "device"), Rough!Do("clear", "onPluginsReady")>>
OpenScripts == {ShowCalls, ReadyClears, DeviceJoins}

InitSteps == {Rough!Do("fire", "onDOMContentLoaded"), Rough!Do("clear", "onDOMContentLoaded"),
              Rough!Do("fire", "onNativeReady"), Rough!Do("clear", "onNativeReady"),
              Rough!Do("subscribe", "show"), Rough!Do("load", "cordova_plugins.js")}
PageSteps == [step : {"call"}, of : PageHandlers]

(* Steps of one kind and one that comes last.                              *)
Script(a, steps, last) ==
  /\ a \in Seq(steps \cup {last}) /\ Len(a) > 0 /\ a[Len(a)] = last
  /\ \A i \in 1..(Len(a) - 1) : a[i] \in steps

InitScript(a) == Script(a, InitSteps, Rough!Do("join", "platform"))
PageScript(a, last) ==
  /\ Script(a, PageSteps, last)
  /\ \A i, j \in 1..(Len(a) - 1) : i # j => a[i] # a[j]
Dispatches(a) == PageScript(a, Rough!Do("fire", "deviceready"))
Tells(a) == PageScript(a, Rough!Do("clear", "deviceready"))
TellsLate(a) == \E h \in PageHandlers : a = <<Rough!Do("call", h)>>

Has(a, step) == \E i \in 1..Len(a) : a[i] = step
Begun(a, step) == Len(a) > 0 /\ a[1] = step
Ends(a, step) == Len(a) > 0 /\ a[Len(a)] = step
SetsTimer(a) == Len(a) > 0 /\ a[1].step = "fireDocumentEvent"
DeviceCalls(a) == IF Begun(a, Rough!Do("call", "device")) THEN 1 ELSE 0

(* Where the start of a page is: cordova/init runs until it has joined the *)
(* channels of the platform, the plugins load, their modules are mapped,   *)
(* the web view opens and the device joins.                                *)
NotStarted ==
  /\ ~started /\ agenda = <<>> /\ pluginList = "none" /\ loading = {}
  /\ state["onPluginsReady"] = 1 /\ state["onCordovaReady"] = 1 /\ joins.platform = 0
  /\ handlers["onPluginsReady"] = {} /\ handlers["onCordovaReady"] = {}
  /\ Rough!ToSet(deviceReadyChannelsArray) \cap Rough!Features = {}

Begins ==
  /\ started /\ InitScript(agenda) /\ pluginList \in {"none", "loading"} /\ loading = {}
  /\ state["onPluginsReady"] = 1 /\ state["onCordovaReady"] = 1 /\ joins.platform = 0
  /\ handlers["onPluginsReady"] = {} /\ handlers["onCordovaReady"] \subseteq {"show"}
  /\ Has(agenda, Rough!Do("subscribe", "show")) \/ "show" \in handlers["onCordovaReady"]
  /\ Has(agenda, Rough!Do("fire", "onNativeReady")) \/ state["onNativeReady"] = 2
  /\ Has(agenda, Rough!Do("fire", "onDOMContentLoaded")) => readyState = "complete"

PluginsLoad ==
  /\ started
  /\ Between(agenda) \/ (agenda = Fires("onPluginsReady") /\ pluginList = "done" /\ loading = {})
  /\ pluginList \in {"none", "loading"} => loading = {}
  /\ state["onPluginsReady"] = 1 /\ state["onCordovaReady"] = 1 /\ joins.platform = 1
  /\ handlers["onPluginsReady"] = {"platform"} /\ handlers["onCordovaReady"] = {"show"}
  /\ state["onNativeReady"] = 2

Loaded ==
  /\ started /\ pluginList = "done" /\ loading = {}
  /\ state["onPluginsReady"] = 2 /\ state["onNativeReady"] = 2

Maps ==
  /\ Loaded /\ state["onCordovaReady"] = 1 /\ handlers["onCordovaReady"] = {"show"}
  /\ \/ agenda = PlatformCalls /\ joins.platform = 1
     \/ agenda \in {ModulesMap, ReadyFires} /\ joins.platform = 0

(* A module threw.                                                         *)
Broken == Loaded /\ state["onCordovaReady"] = 1 /\ Between(agenda) /\ joins.platform = 0

Opens ==
  /\ Loaded /\ state["onCordovaReady"] = 2 /\ handlers["onCordovaReady"] \subseteq {"show"}
  /\ agenda \in OpenScripts /\ (agenda # ShowCalls => shown) /\ joins.platform = 0

Opened ==
  /\ Loaded /\ state["onCordovaReady"] = 2 /\ shown /\ joins.platform = 0
  /\ \/ Between(agenda) \/ agenda \in {Sets("onPluginsReady"), Clears("onPluginsReady")}
     \/ Dispatches(agenda) \/ Tells(agenda) \/ TellsLate(agenda)

StageInv == NotStarted \/ Begins \/ PluginsLoad \/ Maps \/ Broken \/ Opens \/ Opened

(* What the device waits for was fired when its join needs no calls any    *)
(* more, and only then the page is told.                                   *)
Joins == state["onCordovaReady"] = 2 /\ ~Has(agenda, Rough!Do("join", "device"))
Unfired == {j \in 1..Len(deviceReadyChannelsArray) : state[deviceReadyChannelsArray[j]] # 2}
Told == state["deviceready"] = 2 \/ Ends(agenda, Rough!Do("fire", "deviceready"))

LooseInv ==
  \A c \in Loose :
    /\ handlers[c] \subseteq {"device"}
    /\ state[c] = 2 /\ handlers[c] # {} => Ends(agenda, Rough!Do("clear", c))
    /\ handlers[c] # {} => Joins /\ c \in Rough!ToSet(deviceReadyChannelsArray)

CountInv ==
  /\ joins.device <= Len(deviceReadyChannelsArray)
  /\ IF Joins THEN Cardinality(Unfired) + DeviceCalls(agenda) <= joins.device
     ELSE joins.device = 0 /\ DeviceCalls(agenda) = 0

TimerInv ==
  /\ SetsTimer(agenda) \/ deviceReadyTimer \/ Told => Joins /\ joins.device = 0
  /\ SetsTimer(agenda) => ~deviceReadyTimer /\ ~Told
  /\ Told => ~deviceReadyTimer

FiredInv ==
  /\ \A f \in Rough!Features : state[f] = 2 \/ Begun(agenda, Rough!Do("fire", f)) => f \in initialized
  /\ state["onDOMContentLoaded"] = 2 \/ Begun(agenda, Rough!Do("fire", "onDOMContentLoaded"))
       => readyState = "complete"

PageInv ==
  /\ handlers["deviceready"] \subseteq PageHandlers /\ domListeners \subseteq PageHandlers
  /\ handlers["deviceready"] \cap domListeners = {}
  /\ \A h \in PageHandlers :
       /\ called[h] \in 0..1 /\ (called[h] = 1 => Told /\ ~Has(agenda, Rough!Do("call", h)))
       /\ state["deviceready"] = 1 /\ (called[h] = 1 \/ Has(agenda, Rough!Do("call", h)))
            => h \in domListeners
       /\ Has(agenda, Rough!Do("call", h)) => Told
  /\ Ends(agenda, Rough!Do("clear", "deviceready")) => state["deviceready"] = 2
  /\ Ends(agenda, Rough!Do("fire", "deviceready")) => state["deviceready"] = 1

ButtonInv ==
  /\ handlers["backbutton"] \subseteq PageHandlers
  /\ override = (handlers["backbutton"] # {})

StartTypes ==
  /\ state \in [Rough!Channels -> 0..2] /\ \A c \in Rough!Channels : state[c] = 0 <=> c \notin Rough!Sticky
  /\ handlers \in [Rough!Channels -> SUBSET (PageHandlers \cup {"platform", "device", "show"})]
  /\ handlers["onNativeReady"] = {}
  /\ joins \in [platform : 0..1, device : Nat]
  /\ deviceReadyChannelsArray \in Seq(Loose \cup {"onCordovaReady"})
  /\ "onCordovaReady" \in Rough!ToSet(deviceReadyChannelsArray)
  /\ "onDOMContentLoaded" \in Rough!ToSet(deviceReadyChannelsArray)
  /\ loading \subseteq Modules /\ loaded \subseteq Modules \ loading
  /\ pluginList \in {"none", "loading", "done"} /\ (pluginList # "done" => loaded = {})
  /\ called \in [PageHandlers -> Nat] /\ deviceReadyTimer \in BOOLEAN /\ started \in BOOLEAN
  /\ initialized \subseteq Rough!Features

StartInv ==
  /\ StartTypes /\ StageInv /\ LooseInv /\ CountInv /\ TimerInv /\ FiredInv /\ PageInv /\ ButtonInv

-----------------------------------------------------------------------------
(* Scripts *)

LEMMA Tails ==
  ASSUME NEW S, NEW a \in Seq(S), Len(a) > 0
  PROVE  /\ Head(a) = a[1] /\ Tail(a) \in Seq(S) /\ Len(a) \in Nat /\ Len(Tail(a)) = Len(a) - 1
         /\ \A i \in 1..(Len(a) - 1) : Tail(a)[i] = a[i + 1]
OBVIOUS

LEMMA HasTail ==
  ASSUME NEW S, NEW a \in Seq(S), Len(a) > 0, NEW step
  PROVE  Has(a, step) <=> a[1] = step \/ Has(Tail(a), step)
<1>1. Len(a) \in Nat /\ Len(Tail(a)) = Len(a) - 1 /\ \A i \in 1..(Len(a) - 1) : Tail(a)[i] = a[i + 1]
  BY Tails
<1>2. ASSUME NEW i \in 1..Len(a), a[i] = step, i # 1 PROVE Has(Tail(a), step)
  <2>1. i - 1 \in 1..(Len(a) - 1) /\ (i - 1) + 1 = i
    BY <1>1, <1>2
  <2> QED
    BY <1>1, <1>2, <2>1 DEF Has
<1>3. ASSUME NEW i \in 1..(Len(a) - 1), Tail(a)[i] = step PROVE Has(a, step)
  <2>1. i + 1 \in 1..Len(a)
    BY <1>1
  <2> QED
    BY <1>1, <1>3, <2>1 DEF Has
<1> QED
  BY <1>1, <1>2, <1>3 DEF Has

LEMMA Pushed ==
  ASSUME NEW S, NEW a \in Seq(S), NEW x \in S
  PROVE  /\ <<x>> \o a \in Seq(S) /\ Len(<<x>> \o a) = Len(a) + 1 /\ (<<x>> \o a)[1] = x
         /\ \A i \in 1..Len(a) : (<<x>> \o a)[i + 1] = a[i]
         /\ Len(a) \in Nat /\ Len(a) > 0 => (<<x>> \o a)[Len(<<x>> \o a)] = a[Len(a)]
OBVIOUS

LEMMA HasPushed ==
  ASSUME NEW S, NEW a \in Seq(S), NEW x \in S, NEW step
  PROVE  Has(<<x>> \o a, step) <=> x = step \/ Has(a, step)
<1> DEFINE b == <<x>> \o a
<1>1. b \in Seq(S) /\ Len(b) = Len(a) + 1 /\ b[1] = x /\ Len(a) \in Nat
      /\ \A i \in 1..Len(a) : b[i + 1] = a[i]
  BY Pushed
<1> HIDE DEF b
<1>2. ASSUME NEW i \in 1..Len(b), b[i] = step, i # 1 PROVE Has(a, step)
  <2>1. i - 1 \in 1..Len(a) /\ (i - 1) + 1 = i
    BY <1>1, <1>2
  <2> QED
    BY <1>1, <1>2, <2>1 DEF Has
<1>3. ASSUME NEW i \in 1..Len(a), a[i] = step PROVE Has(b, step)
  <2>1. i + 1 \in 1..Len(b)
    BY <1>1
  <2> QED
    BY <1>1, <1>3, <2>1 DEF Has
<1>4. 1 \in 1..Len(b)
  BY <1>1
<1>5. Has(b, step) <=> x = step \/ Has(a, step)
  BY <1>1, <1>2, <1>3, <1>4 DEF Has
<1> QED
  BY <1>5 DEF b

LEMMA ScriptTail ==
  ASSUME NEW a, NEW steps, NEW last, Script(a, steps, last), last \notin steps, a[1] # last
  PROVE  /\ Script(Tail(a), steps, last) /\ Head(a) = a[1] /\ a[1] \in steps
         /\ \A step : Has(a, step) <=> a[1] = step \/ Has(Tail(a), step)
         /\ Len(Tail(a)) = Len(a) - 1 /\ Len(a) \in Nat
         /\ \A i \in 1..(Len(a) - 1) : Tail(a)[i] = a[i + 1]
<1> DEFINE S == steps \cup {last}
<1>1. a \in Seq(S) /\ Len(a) > 0 /\ a[Len(a)] = last /\ \A i \in 1..(Len(a) - 1) : a[i] \in steps
  BY DEF Script
<1> HIDE DEF S
<1>2. /\ Head(a) = a[1] /\ Tail(a) \in Seq(S) /\ Len(a) \in Nat /\ Len(Tail(a)) = Len(a) - 1
      /\ \A i \in 1..(Len(a) - 1) : Tail(a)[i] = a[i + 1]
  BY <1>1, Tails
<1>3. \A step : Has(a, step) <=> a[1] = step \/ Has(Tail(a), step)
  BY <1>1, HasTail
<1>4. Len(a) # 1
  BY <1>1
<1>5. Len(a) - 1 \in 1..(Len(a) - 1) /\ 1 \in 1..(Len(a) - 1)
  BY <1>1, <1>2, <1>4
<1>6. Tail(a)[Len(Tail(a))] = last /\ Len(Tail(a)) > 0
  BY <1>1, <1>2, <1>5
<1>7. ASSUME NEW i \in 1..(Len(Tail(a)) - 1) PROVE Tail(a)[i] \in steps
  <2>1. i + 1 \in 1..(Len(a) - 1) /\ i \in 1..(Len(a) - 1)
    BY <1>2
  <2> QED
    BY <1>1, <1>2, <2>1
<1> QED
  BY <1>1, <1>2, <1>3, <1>5, <1>6, <1>7 DEF Script, S

LEMMA ScriptPushed ==
  ASSUME NEW a, NEW steps, NEW last, Script(a, steps, last), NEW x \in steps
  PROVE  /\ Script(<<x>> \o a, steps, last)
         /\ \A step : Has(<<x>> \o a, step) <=> x = step \/ Has(a, step)
<1> DEFINE S == steps \cup {last}
           b == <<x>> \o a
<1>1. a \in Seq(S) /\ Len(a) > 0 /\ a[Len(a)] = last /\ \A i \in 1..(Len(a) - 1) : a[i] \in steps
  BY DEF Script
<1>2. x \in S
  OBVIOUS
<1> HIDE DEF S
<1>3. /\ b \in Seq(S) /\ Len(b) = Len(a) + 1 /\ b[1] = x /\ Len(a) \in Nat
      /\ \A i \in 1..Len(a) : b[i + 1] = a[i]
      /\ b[Len(b)] = a[Len(a)]
  BY <1>1, <1>2, Pushed
<1>4. \A step : Has(b, step) <=> x = step \/ Has(a, step)
  BY <1>1, <1>2, HasPushed
<1> HIDE DEF b
<1>5. ASSUME NEW i \in 1..(Len(b) - 1), i # 1 PROVE b[i] \in steps
  <2>1. i - 1 \in 1..(Len(a) - 1) /\ i - 1 \in 1..Len(a) /\ (i - 1) + 1 = i
    BY <1>3, <1>5
  <2> QED
    BY <1>1, <1>3, <2>1
<1>6. Script(b, steps, last)
  BY <1>1, <1>3, <1>5 DEF Script, S
<1> QED
  BY <1>4, <1>6 DEF b

LEMMA ScriptOne ==
  ASSUME NEW steps, NEW last
  PROVE  Script(<<last>>, steps, last) /\ \A step : Has(<<last>>, step) <=> step = last
<1>1. <<last>> \in Seq(steps \cup {last}) /\ Len(<<last>>) = 1 /\ <<last>>[1] = last
  OBVIOUS
<1> QED
  BY <1>1 DEF Script, Has

LEMMA MoreThanOne == ASSUME NEW n \in Nat, n > 0, n # 1 PROVE 1 \in 1..(n - 1)
OBVIOUS

LEMMA ScriptLast ==
  ASSUME NEW a, NEW steps, NEW last, Script(a, steps, last), last \notin steps, a[1] = last
  PROVE  a = <<last>>
<1>1. Len(a) \in Nat /\ a \in Seq(steps \cup {last}) /\ Len(a) > 0
      /\ \A i \in 1..(Len(a) - 1) : a[i] \in steps
  BY DEF Script
<1>2. Len(a) = 1
  <2>1. SUFFICES ASSUME Len(a) # 1 PROVE FALSE
    OBVIOUS
  <2>2. Len(a) \in Nat /\ Len(a) > 0 /\ Len(a) # 1
    BY <1>1, <2>1
  <2>3. 1 \in 1..(Len(a) - 1)
    BY <2>2, MoreThanOne
  <2> QED
    BY <1>1, <2>3
<1> QED
  BY <1>1, <1>2

(* Scripts of none of the steps that the invariant speaks of, and those of *)
(* each of them.                                                           *)
NoPageCalls(a) == \A h \in PageHandlers : ~Has(a, Rough!Do("call", h))
NotReady(a) == ~Ends(a, Rough!Do("fire", "deviceready")) /\ ~Ends(a, Rough!Do("clear", "deviceready"))
Plain(a) == ~SetsTimer(a) /\ DeviceCalls(a) = 0 /\ NotReady(a) /\ NoPageCalls(a)
JoinsDevice(a) == Has(a, Rough!Do("join", "device"))

LEMMA OwnNames ==
  ASSUME Rough!StartupAssumption
  PROVE  /\ "platform" \notin PageHandlers /\ "device" \notin PageHandlers /\ "show" \notin PageHandlers
         /\ \A c \in Loose : c \notin {"onNativeReady", "onCordovaReady", "onPluginsReady",
                                       "deviceready", "backbutton"}
         /\ "onDOMContentLoaded" \notin Rough!Features
BY DEF Rough!StartupAssumption, Loose, Rough!InitChannels

LEMMA FinitePages ==
  ASSUME Rough!StartupAssumption PROVE IsFiniteSet(PageHandlers) /\ IsFiniteSet(Modules)
BY DEF Rough!StartupAssumption, Rough!IsFiniteSet, IsFiniteSet

LEMMA PlainEmpty == Plain(<<>>) /\ ~JoinsDevice(<<>>)
BY DEF Plain, SetsTimer, DeviceCalls, Begun, Ends, Has, NotReady, NoPageCalls, JoinsDevice

LEMMA PlainShort ==
  ASSUME NEW c, c # "deviceready"
  PROVE  Plain(Fires(c)) /\ Plain(Clears(c)) /\ ~JoinsDevice(Fires(c)) /\ ~JoinsDevice(Clears(c))
BY DEF Plain, SetsTimer, DeviceCalls, Begun, Ends, Has, NotReady, NoPageCalls, JoinsDevice, Fires, Clears, Rough!Do

LEMMA PlainLong ==
  ASSUME Rough!StartupAssumption, NEW a, a \in {ModulesMap, ReadyFires} \cup OpenScripts
  PROVE  Plain(a) /\ JoinsDevice(a) /\ a # <<>>
<1> USE OwnNames DEF Plain, SetsTimer, DeviceCalls, Begun, Ends, Has, NotReady, NoPageCalls, JoinsDevice, Rough!Do
<1>1. CASE a = ModulesMap
  BY <1>1 DEF ModulesMap
<1>2. CASE a = ReadyFires
  BY <1>2 DEF ReadyFires
<1>3. CASE a = ShowCalls
  BY <1>3 DEF ShowCalls
<1>4. CASE a = ReadyClears
  BY <1>4 DEF ReadyClears
<1>5. CASE a = DeviceJoins
  BY <1>5 DEF DeviceJoins
<1> QED
  BY <1>1, <1>2, <1>3, <1>4, <1>5 DEF OpenScripts

LEMMA PlainPlatform ==
  ASSUME Rough!StartupAssumption PROVE Plain(PlatformCalls) /\ ~JoinsDevice(PlatformCalls)
BY OwnNames DEF Plain, SetsTimer, DeviceCalls, Begun, Ends, Has, NotReady, NoPageCalls, JoinsDevice,
   PlatformCalls, Rough!Do

LEMMA PlainInit ==
  ASSUME NEW a, InitScript(a)
  PROVE  Plain(a) /\ Len(a) > 0 /\ Len(a) \in Nat
         /\ \A c : c \notin {"onDOMContentLoaded", "onNativeReady"} => ~Begun(a, Rough!Do("fire", c))
<1>1. /\ a \in Seq(InitSteps \cup {Rough!Do("join", "platform")}) /\ Len(a) > 0 /\ Len(a) \in Nat
      /\ a[Len(a)] = Rough!Do("join", "platform") /\ \A i \in 1..Len(a) : a[i] \in InitSteps \cup {Rough!Do("join", "platform")}
  BY DEF InitScript, Script
<1>2. ASSUME NEW i \in 1..Len(a)
      PROVE  /\ a[i].step \in {"fire", "clear", "subscribe", "load", "join"}
             /\ \A h : a[i] # Rough!Do("call", h)
             /\ \A c : c \notin {"onDOMContentLoaded", "onNativeReady"} => a[i] # Rough!Do("fire", c)
  BY <1>1 DEF InitSteps, Rough!Do
<1>3. 1 \in 1..Len(a)
  BY <1>1
<1>4. NotReady(a)
  BY <1>1 DEF NotReady, Ends, Rough!Do
<1> QED
  BY <1>1, <1>2, <1>3, <1>4 DEF Plain, SetsTimer, DeviceCalls, Begun, Has, NoPageCalls

LEMMA CallsOne ==
  ASSUME Rough!StartupAssumption, NEW c, c # "deviceready"
  PROVE  /\ ~SetsTimer(Calls(c)) /\ DeviceCalls(Calls(c)) = 1 /\ NotReady(Calls(c))
         /\ NoPageCalls(Calls(c)) /\ ~JoinsDevice(Calls(c))
BY OwnNames DEF SetsTimer, DeviceCalls, Begun, Ends, Has, NotReady, NoPageCalls, JoinsDevice, Calls, Rough!Do

LEMMA SetsOne ==
  ASSUME NEW c, c # "deviceready"
  PROVE  /\ SetsTimer(Sets(c)) /\ DeviceCalls(Sets(c)) = 0 /\ NotReady(Sets(c))
         /\ NoPageCalls(Sets(c)) /\ ~JoinsDevice(Sets(c))
BY DEF SetsTimer, DeviceCalls, Begun, Ends, Has, NotReady, NoPageCalls, JoinsDevice, Sets, Rough!Do

LEMMA PageOnes ==
  ASSUME Rough!StartupAssumption, NEW a, NEW step \in {"fire", "clear"}, PageScript(a, Rough!Do(step, "deviceready"))
  PROVE  /\ ~SetsTimer(a) /\ DeviceCalls(a) = 0 /\ ~JoinsDevice(a) /\ Ends(a, Rough!Do(step, "deviceready"))
         /\ \A c : c # "deviceready" => ~Begun(a, Rough!Do("fire", c)) /\ ~Ends(a, Rough!Do("clear", c))
<1> DEFINE last == Rough!Do(step, "deviceready")
<1>1. /\ a \in Seq(PageSteps \cup {last}) /\ Len(a) > 0 /\ Len(a) \in Nat /\ a[Len(a)] = last
      /\ \A i \in 1..Len(a) : a[i] \in PageSteps \cup {last}
  BY DEF PageScript, Script
<1>2. ASSUME NEW i \in 1..Len(a)
      PROVE  /\ a[i].step \in {"call", "fire", "clear"} /\ a[i] # Rough!Do("join", "device")
             /\ a[i] # Rough!Do("call", "device")
             /\ \A c : c # "deviceready" => a[i] # Rough!Do("fire", c) /\ a[i] # Rough!Do("clear", c)
  <2>1. CASE a[i] = last
    BY <2>1 DEF Rough!Do
  <2>2. CASE a[i] \in PageSteps
    BY <2>2, OwnNames DEF PageSteps, Rough!Do
  <2> QED
    BY <1>1, <2>1, <2>2
<1>3. 1 \in 1..Len(a) /\ Len(a) \in 1..Len(a)
  BY <1>1
<1> QED
  BY <1>1, <1>2, <1>3 DEF SetsTimer, DeviceCalls, Begun, Ends, Has, JoinsDevice

LEMMA LateOnes ==
  ASSUME Rough!StartupAssumption, NEW h \in PageHandlers
  PROVE  /\ ~SetsTimer(<<Rough!Do("call", h)>>) /\ DeviceCalls(<<Rough!Do("call", h)>>) = 0
         /\ ~JoinsDevice(<<Rough!Do("call", h)>>) /\ NotReady(<<Rough!Do("call", h)>>)
         /\ \A g : Has(<<Rough!Do("call", h)>>, Rough!Do("call", g)) => g = h
         /\ \A c : ~Begun(<<Rough!Do("call", h)>>, Rough!Do("fire", c)) /\ ~Ends(<<Rough!Do("call", h)>>, Rough!Do("clear", c))
BY OwnNames DEF SetsTimer, DeviceCalls, Begun, Ends, Has, JoinsDevice, NotReady, Rough!Do

LEMMA BetweenOnes ==
  ASSUME Rough!StartupAssumption, NEW a, Between(a)
  PROVE  NotReady(a) /\ NoPageCalls(a) /\ ~JoinsDevice(a)
<1>1. CASE a = <<>>
  BY <1>1, PlainEmpty DEF Plain
<1>2. ASSUME NEW c \in Loose, a \in LooseScripts(c) PROVE NotReady(a) /\ NoPageCalls(a) /\ ~JoinsDevice(a)
  BY <1>2, OwnNames, PlainShort, CallsOne, SetsOne DEF LooseScripts, Plain
<1> QED
  BY <1>1, <1>2 DEF Between

-----------------------------------------------------------------------------
(* Events of the browser, the plugins and the page: no script runs.        *)

LEMMA IdleFacts ==
  ASSUME Rough!StartupAssumption, StartInv, agenda = <<>>
  PROVE  /\ NotStarted \/ PluginsLoad \/ Broken \/ Opened
         /\ Plain(agenda) /\ ~JoinsDevice(agenda) /\ Joins = (state["onCordovaReady"] = 2)
         /\ Joins => Opened
         /\ \A step : ~Begun(agenda, step) /\ ~Ends(agenda, step) /\ ~Has(agenda, step)
         /\ \A c \in Loose : state[c] = 2 => handlers[c] = {}
<1>1. \A step : ~Begun(agenda, step) /\ ~Ends(agenda, step) /\ ~Has(agenda, step)
  BY DEF Begun, Ends, Has
<1>2. Plain(agenda) /\ ~JoinsDevice(agenda)
  BY PlainEmpty
<1>3. ~Begins /\ ~Maps /\ ~Opens
  BY DEF Begins, InitScript, Script, Maps, Opens, OpenScripts, PlatformCalls, ModulesMap, ReadyFires,
     ShowCalls, ReadyClears, DeviceJoins
<1>4. Joins = (state["onCordovaReady"] = 2)
  BY <1>2 DEF Joins, JoinsDevice
<1>5. NotStarted \/ PluginsLoad \/ Broken \/ Opened
  BY <1>3 DEF StartInv, StageInv
<1>6. Joins => Opened
  <2>1. NotStarted \/ PluginsLoad \/ Broken => state["onCordovaReady"] # 2
    BY DEF NotStarted, PluginsLoad, Broken
  <2> QED
    BY <1>4, <1>5, <2>1
<1>7. \A c \in Loose : state[c] = 2 => handlers[c] = {}
  BY <1>1 DEF StartInv, LooseInv
<1> QED
  BY <1>1, <1>2, <1>4, <1>5, <1>6, <1>7

(* An event that starts a script of fire, or none, leaves the handlers and *)
(* the joins as they are.                                                  *)
LEMMA EventKept ==
  ASSUME Rough!StartupAssumption, StartInv, agenda = <<>>, Plain(agenda'), ~JoinsDevice(agenda'),
         UNCHANGED <<state, handlers, domListeners, joins, deviceReadyChannelsArray,
                     deviceReadyTimer, called, override>>
  PROVE  (LooseInv /\ CountInv /\ TimerInv /\ PageInv /\ ButtonInv)'
<1>1. Joins' = Joins /\ Unfired' = Unfired /\ Told' = Told
  BY IdleFacts DEF Joins, Unfired, Told, JoinsDevice, Plain, NotReady
<1>2. LooseInv'
  BY <1>1, IdleFacts DEF StartInv, LooseInv
<1>3. CountInv'
  BY <1>1, IdleFacts DEF StartInv, CountInv, Plain
<1>4. TimerInv'
  BY <1>1, IdleFacts DEF StartInv, TimerInv, Plain
<1>5. PageInv'
  BY <1>1, IdleFacts DEF StartInv, PageInv, Plain, NoPageCalls, NotReady
<1>6. ButtonInv'
  BY DEF StartInv, ButtonInv
<1> QED
  BY <1>2, <1>3, <1>4, <1>5, <1>6

LEMMA CordovaInitKept == ASSUME Rough!StartupAssumption, StartInv, Rough!CordovaInit PROVE StartInv'
<1>1. /\ agenda = <<>> /\ ~started /\ started' = TRUE
      /\ UNCHANGED <<state, handlers, domListeners, joins, deviceReadyChannelsArray, deviceReadyTimer,
                     readyState, pluginList, loading, loaded, initialized, called, override>>
  BY DEF Rough!CordovaInit, Rough!Idle, Rough!channel, Rough!browser, Rough!effects
<1>2. NotStarted
  BY <1>1, IdleFacts DEF PluginsLoad, Broken, Opened, Loaded
<1> DEFINE four == <<Rough!Do("fire", "onNativeReady"), Rough!Do("subscribe", "show"),
                     Rough!Do("load", "cordova_plugins.js"), Rough!Do("join", "platform")>>
           fourAgain == <<Rough!Do("fire", "onNativeReady"), Rough!Do("fire", "onNativeReady"), Rough!Do("subscribe", "show"),
                     Rough!Do("load", "cordova_plugins.js"), Rough!Do("join", "platform")>>
           dom == Rough!Do("fire", "onDOMContentLoaded")
<1>0. fourAgain = <<Rough!Do("fire", "onNativeReady")>> \o four
  OBVIOUS
<1>3. InitScript(four) /\ Has(four, Rough!Do("subscribe", "show")) /\ Has(four, Rough!Do("fire", "onNativeReady"))
      /\ ~Has(four, dom)
  <2>1. Script(<<Rough!Do("join", "platform")>>, InitSteps, Rough!Do("join", "platform"))
        /\ \A step : Has(<<Rough!Do("join", "platform")>>, step) <=> step = Rough!Do("join", "platform")
    BY ScriptOne
  <2> DEFINE one == <<Rough!Do("join", "platform")>>
             two == <<Rough!Do("load", "cordova_plugins.js"), Rough!Do("join", "platform")>>
             three == <<Rough!Do("subscribe", "show"), Rough!Do("load", "cordova_plugins.js"), Rough!Do("join", "platform")>>
  <2>2. two = <<Rough!Do("load", "cordova_plugins.js")>> \o one /\ three = <<Rough!Do("subscribe", "show")>> \o two
        /\ four = <<Rough!Do("fire", "onNativeReady")>> \o three
    OBVIOUS
  <2>3. {Rough!Do("load", "cordova_plugins.js"), Rough!Do("subscribe", "show"), Rough!Do("fire", "onNativeReady")} \subseteq InitSteps
    BY DEF InitSteps
  <2> HIDE DEF one, two, three, four
  <2> DEFINE last == Rough!Do("join", "platform")
             load == Rough!Do("load", "cordova_plugins.js")
             show == Rough!Do("subscribe", "show")
             nativeReady == Rough!Do("fire", "onNativeReady")
  <2>8. load \in InitSteps /\ show \in InitSteps /\ nativeReady \in InitSteps
    BY DEF InitSteps
  <2> HIDE DEF last, load, show, nativeReady
  <2>4. Script(two, InitSteps, last) /\ \A step : Has(two, step) <=> step = load \/ Has(one, step)
    <3>1. two = <<load>> \o one /\ Script(one, InitSteps, last)
      BY <2>1, <2>2 DEF one, load, last
    <3> QED
      BY <2>8, <3>1, ScriptPushed
  <2>5. Script(three, InitSteps, last) /\ \A step : Has(three, step) <=> step = show \/ Has(two, step)
    <3>1. three = <<show>> \o two
      BY <2>2 DEF show
    <3> QED
      BY <2>4, <2>8, <3>1, ScriptPushed
  <2>6. Script(four, InitSteps, last) /\ \A step : Has(four, step) <=> step = nativeReady \/ Has(three, step)
    <3>1. four = <<nativeReady>> \o three
      BY <2>2 DEF nativeReady
    <3> QED
      BY <2>5, <2>8, <3>1, ScriptPushed
  <2>7. dom # Rough!Do("join", "platform") /\ dom # Rough!Do("load", "cordova_plugins.js")
        /\ dom # Rough!Do("subscribe", "show") /\ dom # Rough!Do("fire", "onNativeReady")
    BY DEF Rough!Do
  <2> HIDE DEF dom
  <2> QED
    BY <2>1, <2>4, <2>5, <2>6, <2>7 DEF InitScript, one, last, load, show, nativeReady
<1>4. InitScript(fourAgain) /\ Has(fourAgain, Rough!Do("subscribe", "show"))
      /\ Has(fourAgain, Rough!Do("fire", "onNativeReady")) /\ ~Has(fourAgain, dom)
  <2>1. fourAgain = <<Rough!Do("fire", "onNativeReady")>> \o four
    OBVIOUS
  <2>2. Rough!Do("fire", "onNativeReady") \in InitSteps /\ dom # Rough!Do("fire", "onNativeReady")
    BY DEF InitSteps, Rough!Do
  <2> HIDE DEF four, fourAgain, dom
  <2> QED
    BY <1>3, <2>1, <2>2, ScriptPushed DEF InitScript
<1>5. PICK rest \in {four, fourAgain} : agenda' = rest \/ (readyState = "complete" /\ agenda' = <<dom>> \o rest)
  <2>1. PICK nativeReady \in {<<>>, <<Rough!Do("fire", "onNativeReady")>>} : agenda' = (Rough!DOMReady \o nativeReady) \o four
    BY DEF Rough!CordovaInit
  <2>2. Rough!DOMReady = <<>> \/ (readyState = "complete" /\ Rough!DOMReady = <<dom>>)
    BY DEF Rough!DOMReady
  <2>3. CASE nativeReady = <<>>
    <3>1. Rough!DOMReady \o nativeReady = Rough!DOMReady
      BY <2>2, <2>3, ConcatEmptySeq
    <3>2. <<>> \o four = four
      OBVIOUS
    <3> QED
      BY <2>1, <2>2, <3>1, <3>2
  <2>4. CASE nativeReady = <<Rough!Do("fire", "onNativeReady")>>
    <3>1. CASE Rough!DOMReady = <<>>
      <4>1. Rough!DOMReady \o nativeReady = nativeReady
        BY <2>4, <3>1
      <4>3. nativeReady \o four = fourAgain
        BY <1>0, <2>4
      <4> QED
        BY <2>1, <4>1, <4>3
    <3>2. CASE readyState = "complete" /\ Rough!DOMReady = <<dom>>
      <4>1. (Rough!DOMReady \o nativeReady) \o four = <<dom>> \o fourAgain
        BY <2>4, <3>2
      <4> QED
        BY <2>1, <3>2, <4>1
    <3> QED
      BY <2>2, <3>1, <3>2
  <2> QED
    BY <2>1, <2>3, <2>4
<1>6. InitScript(rest) /\ Has(rest, Rough!Do("subscribe", "show")) /\ Has(rest, Rough!Do("fire", "onNativeReady"))
      /\ ~Has(rest, dom)
  BY <1>3, <1>4
<1> HIDE DEF four, fourAgain
<1>7. dom \in InitSteps
  BY DEF InitSteps
<1> HIDE DEF dom
<1>8. InitScript(agenda') /\ Has(agenda', Rough!Do("subscribe", "show")) /\ Has(agenda', Rough!Do("fire", "onNativeReady"))
      /\ (Has(agenda', dom) => readyState = "complete")
  <2>1. CASE agenda' = rest
    BY <1>6, <2>1
  <2>2. CASE readyState = "complete" /\ agenda' = <<dom>> \o rest
    <3>1. Script(rest, InitSteps, Rough!Do("join", "platform"))
      BY <1>6 DEF InitScript
    <3>2. Script(<<dom>> \o rest, InitSteps, Rough!Do("join", "platform"))
          /\ \A step : Has(<<dom>> \o rest, step) <=> dom = step \/ Has(rest, step)
      BY <1>7, <3>1, ScriptPushed
    <3> QED
      BY <1>6, <2>2, <3>2 DEF InitScript
  <2> QED
    BY <1>5, <2>1, <2>2
<1>9. Begins'
  BY <1>1, <1>2, <1>8 DEF Begins, NotStarted, dom
<1>10. Plain(agenda') /\ \A f \in Rough!Features : ~Begun(agenda', Rough!Do("fire", f))
  BY <1>8, PlainInit, OwnNames DEF Loose
<1>11. state["onCordovaReady"] # 2
  BY <1>2 DEF NotStarted
<1>12. Joins' = Joins /\ ~Joins /\ Unfired' = Unfired /\ Told' = Told
  BY <1>1, <1>10, <1>11, IdleFacts DEF Joins, Unfired, Told, Plain, NotReady
<1>13. LooseInv' /\ CountInv' /\ TimerInv'
  BY <1>1, <1>10, <1>12, IdleFacts DEF StartInv, LooseInv, CountInv, TimerInv, Plain
<1>14. PageInv' /\ ButtonInv'
  BY <1>1, <1>10, <1>12, IdleFacts DEF StartInv, PageInv, ButtonInv, Plain, NoPageCalls, NotReady
<1>15. FiredInv'
  <2>1. Begun(agenda', dom) => Has(agenda', dom)
    <3>1. Begun(agenda', dom) => 1 \in 1..Len(agenda') /\ agenda'[1] = dom
      BY <1>8, PlainInit DEF Begun
    <3> QED
      BY <3>1 DEF Has
  <2> QED
    BY <1>1, <1>8, <1>10, <2>1 DEF StartInv, FiredInv, dom
<1>16. StartTypes'
  BY <1>1 DEF StartInv, StartTypes
<1> QED
  BY <1>9, <1>13, <1>14, <1>15, <1>16 DEF StartInv, StageInv

LEMMA DOMContentLoadedKept == ASSUME Rough!StartupAssumption, StartInv, Rough!DOMContentLoaded PROVE StartInv'
<1>1. /\ agenda = <<>> /\ readyState' = "complete"
      /\ agenda' = IF started THEN Fires("onDOMContentLoaded") ELSE <<>>
      /\ UNCHANGED <<state, handlers, domListeners, joins, deviceReadyChannelsArray, deviceReadyTimer,
                     started, pluginList, loading, loaded, initialized, shown, called, override>>
  BY DEF Rough!DOMContentLoaded, Rough!Idle, Rough!channel, Rough!effects, Fires
<1>2. Plain(agenda') /\ ~JoinsDevice(agenda')
  <2>1. Plain(Fires("onDOMContentLoaded")) /\ ~JoinsDevice(Fires("onDOMContentLoaded"))
    BY PlainShort
  <2> QED
    BY <1>1, <2>1, PlainEmpty
<1>3. (LooseInv /\ CountInv /\ TimerInv /\ PageInv /\ ButtonInv)'
  BY <1>1, <1>2, EventKept
<1>4. FiredInv'
  <2>1. \A f \in Rough!Features : ~Begun(agenda', Rough!Do("fire", f))
    BY <1>1, OwnNames DEF Begun, Fires, Rough!Do
  <2> QED
    BY <1>1, <2>1 DEF StartInv, FiredInv
<1>5. StartTypes'
  BY <1>1 DEF StartInv, StartTypes
<1>6. StageInv'
  <2>1. started => Between(agenda')
    BY <1>1 DEF Between, Loose, LooseScripts
  <2>2. CASE NotStarted
    BY <1>1, <2>2 DEF StageInv, NotStarted
  <2>3. CASE ~NotStarted
    <3>1. PluginsLoad \/ Broken \/ Opened
      BY <1>1, <2>3, IdleFacts
    <3>2. started
      BY <3>1 DEF PluginsLoad, Broken, Opened, Loaded
    <3> QED
      BY <1>1, <2>1, <3>1, <3>2 DEF StageInv, PluginsLoad, Broken, Opened, Loaded
  <2> QED
    BY <2>2, <2>3
<1> QED
  BY <1>3, <1>4, <1>5, <1>6 DEF StartInv

LEMMA PluginListLoadedKept == ASSUME Rough!StartupAssumption, StartInv, Rough!PluginListLoaded PROVE StartInv'
<1>1. /\ agenda = <<>> /\ pluginList = "loading" /\ pluginList' = "done"
      /\ \/ loading' = Modules /\ agenda' = <<>>
         \/ agenda' = Fires("onPluginsReady") /\ loading' = loading
      /\ UNCHANGED <<state, handlers, domListeners, joins, deviceReadyChannelsArray, deviceReadyTimer,
                     started, readyState, loaded, initialized, shown, called, override>>
  BY DEF Rough!PluginListLoaded, Rough!Idle, Rough!channel, Rough!effects, Fires
<1>2. Plain(agenda') /\ ~JoinsDevice(agenda')
  <2>1. Plain(Fires("onPluginsReady")) /\ ~JoinsDevice(Fires("onPluginsReady"))
    BY PlainShort
  <2> QED
    BY <1>1, <2>1, PlainEmpty
<1>3. (LooseInv /\ CountInv /\ TimerInv /\ PageInv /\ ButtonInv)'
  BY <1>1, <1>2, EventKept
<1>4. FiredInv'
  <2>1. \A c \in Loose : ~Begun(agenda', Rough!Do("fire", c))
    BY <1>1, OwnNames DEF Begun, Fires, Rough!Do
  <2> QED
    BY <1>1, <2>1 DEF StartInv, FiredInv, Loose
<1>5. loading = {} /\ loaded = {} /\ PluginsLoad
  BY <1>1, IdleFacts DEF StartInv, StartTypes, PluginsLoad, NotStarted, Broken, Opened, Loaded
<1>6. StartTypes'
  BY <1>1, <1>5 DEF StartInv, StartTypes
<1>7. StageInv'
  BY <1>1, <1>5 DEF StageInv, PluginsLoad, Between
<1> QED
  BY <1>3, <1>4, <1>6, <1>7 DEF StartInv

LEMMA ScriptLoadedKept == ASSUME Rough!StartupAssumption, StartInv, Rough!ScriptLoaded PROVE StartInv'
<1>1. PICK m \in loading :
        /\ agenda = <<>> /\ loading' = loading \ {m}
        /\ loaded' = loaded \cup {m} \/ loaded' = loaded
        /\ agenda' = IF loading = {m} THEN Fires("onPluginsReady") ELSE <<>>
        /\ UNCHANGED <<state, handlers, domListeners, joins, deviceReadyChannelsArray, deviceReadyTimer,
                       started, readyState, pluginList, initialized, shown, called, override>>
  BY DEF Rough!ScriptLoaded, Rough!Idle, Rough!channel, Rough!effects, Fires, Rough!Pending, Rough!AllLoaded
<1>2. Plain(agenda') /\ ~JoinsDevice(agenda')
  <2>1. Plain(Fires("onPluginsReady")) /\ ~JoinsDevice(Fires("onPluginsReady"))
    BY PlainShort
  <2> QED
    BY <1>1, <2>1, PlainEmpty
<1>3. (LooseInv /\ CountInv /\ TimerInv /\ PageInv /\ ButtonInv)'
  BY <1>1, <1>2, EventKept
<1>4. FiredInv'
  <2>1. \A c \in Loose : ~Begun(agenda', Rough!Do("fire", c))
    BY <1>1, OwnNames DEF Begun, Fires, Rough!Do
  <2> QED
    BY <1>1, <2>1 DEF StartInv, FiredInv, Loose
<1>5. PluginsLoad /\ pluginList \notin {"none", "loading"}
  BY <1>1, IdleFacts DEF PluginsLoad, NotStarted, Broken, Opened, Loaded
<1>6. StartTypes'
  BY <1>1, <1>5 DEF StartInv, StartTypes
<1>7. pluginList = "done"
  BY <1>5 DEF StartInv, StartTypes
<1>8. StageInv'
  BY <1>1, <1>5, <1>7 DEF StageInv, PluginsLoad, Between
<1> QED
  BY <1>3, <1>4, <1>6, <1>8 DEF StartInv

LEMMA InitializationCompleteKept == ASSUME Rough!StartupAssumption, StartInv, Rough!InitializationComplete PROVE StartInv'
<1>1. PICK f \in Rough!Features :
        /\ agenda = <<>> /\ f \in Rough!ToSet(deviceReadyChannelsArray)
        /\ initialized' = initialized \cup {f} /\ agenda' = Fires(f)
        /\ UNCHANGED <<state, handlers, domListeners, joins, deviceReadyChannelsArray, deviceReadyTimer,
                       started, readyState, pluginList, loading, loaded, shown, called, override>>
  BY DEF Rough!InitializationComplete, Rough!Idle, Rough!channel, Rough!browser, Rough!effects, Fires
<1>2. f \in Loose /\ f # "deviceready" /\ f # "onDOMContentLoaded"
  BY OwnNames DEF Loose
<1>3. Plain(agenda') /\ ~JoinsDevice(agenda')
  BY <1>1, <1>2, PlainShort
<1>4. (LooseInv /\ CountInv /\ TimerInv /\ PageInv /\ ButtonInv)'
  BY <1>1, <1>3, EventKept
<1>5. FiredInv'
  <2>1. \A c : Begun(agenda', Rough!Do("fire", c)) => c = f
    BY <1>1 DEF Begun, Fires, Rough!Do
  <2> QED
    BY <1>1, <1>2, <2>1 DEF StartInv, FiredInv
<1>6. StartTypes'
  BY <1>1 DEF StartInv, StartTypes
<1>7. PluginsLoad \/ Broken \/ Opened
  BY <1>1, IdleFacts DEF NotStarted
<1>8. Between(agenda')
  BY <1>1, <1>2 DEF Between, LooseScripts
<1>9. StageInv'
  BY <1>1, <1>7, <1>8 DEF StageInv, PluginsLoad, Broken, Opened, Loaded
<1> QED
  BY <1>4, <1>5, <1>6, <1>9 DEF StartInv

-----------------------------------------------------------------------------
(* What fire calls, and the document when its event is there.              *)
CallsTo(seq) == [i \in 1..Len(seq) |-> Rough!Do("call", seq[i])]

LEMMA SameStep == \A s, c, t, d : Rough!Do(s, c) = Rough!Do(t, d) <=> s = t /\ c = d
<1> SUFFICES ASSUME NEW s, NEW c, NEW t, NEW d, Rough!Do(s, c) = Rough!Do(t, d) PROVE s = t /\ c = d
  OBVIOUS
<1>1. Rough!Do(s, c).step = s /\ Rough!Do(s, c).of = c /\ Rough!Do(t, d).step = t /\ Rough!Do(t, d).of = d
  BY DEF Rough!Do
<1> QED
  BY <1>1

LEMMA CallsNone ==
  ASSUME NEW seq \in Rough!SetToSeqs({}) PROVE CallsTo(seq) = <<>>
<1>1. seq \in [1..0 -> {}]
  BY FS_EmptySet DEF Rough!SetToSeqs,
     Rough!Cardinality, Cardinality
<1>2. Len(seq) = 0
  BY <1>1
<1> QED
  BY <1>2 DEF CallsTo

LEMMA CallsOnly ==
  ASSUME NEW x, NEW seq \in Rough!SetToSeqs({x}) PROVE CallsTo(seq) = <<Rough!Do("call", x)>>
<1>1. seq \in [1..1 -> {x}]
  BY FS_Singleton DEF Rough!SetToSeqs,
     Rough!Cardinality, Cardinality
<1>2. Len(seq) = 1 /\ seq[1] = x
  BY <1>1
<1> QED
  BY <1>2 DEF CallsTo

LEMMA CallsToPages ==
  ASSUME NEW H, H \subseteq PageHandlers, IsFiniteSet(H), NEW seq \in Rough!SetToSeqs(H),
         NEW last, last \notin PageSteps
  PROVE  /\ PageScript(CallsTo(seq) \o <<last>>, last)
         /\ \A h : Has(CallsTo(seq) \o <<last>>, Rough!Do("call", h)) => h \in H \/ Rough!Do("call", h) = last
<1> DEFINE n == Len(seq)
           a == CallsTo(seq) \o <<last>>
<1>0. Rough!SetToSeqs(H) = {f \in [1..Cardinality(H) -> H] : \A i, j \in 1..Cardinality(H) : i # j => f[i] # f[j]}
  BY DEF Rough!SetToSeqs,
     Rough!Cardinality, Cardinality
<1>1. Cardinality(H) \in Nat
  BY FS_CardinalityType
<1>2. n \in Nat /\ seq \in [1..n -> H] /\ \A i, j \in 1..n : i # j => seq[i] # seq[j]
  BY <1>0, <1>1
<1> HIDE DEF n
<1>3. CallsTo(seq) = [i \in 1..n |-> Rough!Do("call", seq[i])]
  BY DEF CallsTo, n
<1>4. \A i \in 1..n : Rough!Do("call", seq[i]) \in PageSteps
  BY <1>2 DEF PageSteps, Rough!Do
<1>5. CallsTo(seq) \in Seq(PageSteps \cup {last}) /\ Len(CallsTo(seq)) = n
  BY <1>2, <1>3, <1>4
<1>6. \A i \in 1..n : CallsTo(seq)[i] = Rough!Do("call", seq[i])
  BY <1>3
<1> HIDE DEF a
<1>7. <<last>> \in Seq(PageSteps \cup {last}) /\ Len(<<last>>) = 1 /\ <<last>>[1] = last
  OBVIOUS
<1>8. /\ a \in Seq(PageSteps \cup {last}) /\ Len(a) = n + 1 /\ a[n + 1] = last
      /\ \A i \in 1..n : a[i] = CallsTo(seq)[i]
  BY <1>2, <1>5, <1>7 DEF a
<1>9. \A i \in 1..n : a[i] = Rough!Do("call", seq[i])
  BY <1>6, <1>8
<1>10. \A i, j \in 1..n : i # j => a[i] # a[j]
  BY <1>2, <1>9, SameStep
<1>11. PageScript(a, last)
  BY <1>2, <1>4, <1>8, <1>9, <1>10 DEF PageScript, Script
<1>12. ASSUME NEW h, Has(a, Rough!Do("call", h)) PROVE h \in H \/ Rough!Do("call", h) = last
  <2>1. PICK i \in 1..(n + 1) : a[i] = Rough!Do("call", h)
    BY <1>8, <1>12 DEF Has
  <2>2. CASE i \in 1..n
    <3>1. Rough!Do("call", seq[i]) = Rough!Do("call", h)
      BY <1>9, <2>1, <2>2
    <3>2. seq[i] = h
      BY <3>1, SameStep
    <3> QED
      BY <1>2, <2>2, <3>2
  <2>3. CASE i = n + 1
    BY <1>8, <2>1, <2>3
  <2> QED
    BY <1>2, <2>1, <2>2, <2>3
<1> QED
  BY <1>11, <1>12 DEF a

LEMMA OneSequence ==
  ASSUME NEW H, IsFiniteSet(H)
  PROVE  /\ Rough!SetToSeq(H) \in Rough!SetToSeqs(H)
         /\ [i \in 1..Cardinality(H) |-> Rough!Do("call", Rough!SetToSeq(H)[i])] = CallsTo(Rough!SetToSeq(H))
<1> DEFINE n == Cardinality(H)
<1>1. n \in Nat /\ \E f \in [1..n -> H] : IsInjective(f)
  <2>1. n \in Nat /\ ExistsBijection(1..n, H)
    BY FS_CardinalityType
  <2>2. PICK f \in [1..n -> H] : \A i, j \in 1..n : i # j => f[i] # f[j]
    BY <2>1 DEF ExistsBijection, Bijection, Injection, Surjection, IsInjective
  <2>3. IsInjective(f)
    BY <2>2 DEF IsInjective
  <2> QED
    BY <2>1, <2>3
<1> DEFINE f == Rough!SetToSeq(H)
<1>2. f \in [1..n -> H] /\ IsInjective(f)
  BY <1>1 DEF Rough!SetToSeq,
     Rough!Cardinality, Cardinality, Rough!IsInjective, IsInjective
<1> HIDE DEF f
<1>3. \A i, j \in 1..n : i # j => f[i] # f[j]
  BY <1>2 DEF IsInjective
<1>4. Len(f) = n
  BY <1>1, <1>2
<1>5. f \in Rough!SetToSeqs(H)
  BY <1>2, <1>3 DEF Rough!SetToSeqs,
     Rough!Cardinality, Cardinality
<1>6. [i \in 1..n |-> Rough!Do("call", f[i])] = CallsTo(f)
  BY <1>4 DEF CallsTo
<1> QED
  BY <1>5, <1>6 DEF f

LEMMA DeviceReadyKept == ASSUME Rough!StartupAssumption, StartInv, Rough!DeviceReady PROVE StartInv'
<1> DEFINE last == Rough!Do("fire", "deviceready")
<1>1. /\ agenda = <<>> /\ deviceReadyTimer /\ deviceReadyTimer' = FALSE
      /\ agenda' = [i \in 1..Cardinality(domListeners) |-> Rough!Do("call", Rough!SetToSeq(domListeners)[i])] \o <<last>>
      /\ UNCHANGED <<state, handlers, domListeners, joins, deviceReadyChannelsArray, started,
                     readyState, pluginList, loading, loaded, initialized, shown, called, override>>
  BY DEF Rough!DeviceReady, Rough!Idle, Rough!channel, Rough!browser, Rough!effects, Rough!Dispatched,
     Rough!Cardinality, Cardinality
<1>2. domListeners \subseteq PageHandlers /\ IsFiniteSet(domListeners)
  BY FinitePages, FS_Subset DEF StartInv, PageInv
<1>3. last \notin PageSteps /\ \A h : Rough!Do("call", h) # last
  BY SameStep DEF PageSteps, Rough!Do
<1>4. agenda' = CallsTo(Rough!SetToSeq(domListeners)) \o <<last>> /\ Rough!SetToSeq(domListeners) \in Rough!SetToSeqs(domListeners)
  BY <1>1, <1>2, OneSequence
<1>5. PageScript(agenda', last) /\ \A h : Has(agenda', Rough!Do("call", h)) => h \in domListeners
  BY <1>2, <1>3, <1>4, CallsToPages
<1>6. /\ ~SetsTimer(agenda') /\ DeviceCalls(agenda') = 0 /\ ~JoinsDevice(agenda') /\ Ends(agenda', last)
      /\ \A c : c # "deviceready" => ~Begun(agenda', Rough!Do("fire", c)) /\ ~Ends(agenda', Rough!Do("clear", c))
  BY <1>5, PageOnes
<1>7. Joins /\ joins.device = 0 /\ ~Told /\ Opened
  BY <1>1, IdleFacts DEF StartInv, TimerInv
<1>8. state["deviceready"] = 1 /\ \A h \in PageHandlers : called[h] # 1
  <2>1. state["deviceready"] # 2 /\ \A h \in PageHandlers : called[h] # 1
    BY <1>7 DEF Told, StartInv, PageInv
  <2>2. "deviceready" \in Rough!Channels /\ "deviceready" \in Rough!Sticky
    BY DEF Rough!Channels, Rough!Sticky, Rough!InitChannels
  <2>3. state["deviceready"] \in 0..2 /\ state["deviceready"] # 0
    BY <2>2 DEF StartInv, StartTypes
  <2> QED
    BY <2>1, <2>3
<1>9. Joins' /\ Told' /\ Unfired' = Unfired
  BY <1>1, <1>6, <1>7 DEF Joins, Told, Unfired, JoinsDevice
<1> HIDE DEF last
<1>10. LooseInv'
  BY <1>1, <1>7, <1>9, IdleFacts DEF StartInv, LooseInv
<1>11. CountInv'
  BY <1>1, <1>6, <1>7, <1>9, IdleFacts DEF StartInv, CountInv, Plain
<1>12. TimerInv'
  BY <1>1, <1>6, <1>7, <1>9 DEF TimerInv
<1>13. FiredInv'
  <2>1. \A f \in Rough!Features : f # "deviceready"
    BY OwnNames DEF Loose
  <2> QED
    BY <1>1, <1>6, <2>1 DEF StartInv, FiredInv
<1>14. PageInv' /\ ButtonInv'
  <2>1. /\ handlers["deviceready"] \subseteq PageHandlers
        /\ handlers["deviceready"] \cap domListeners = {} /\ ButtonInv
        /\ \A h \in PageHandlers : called[h] \in 0..1
    BY DEF StartInv, PageInv
  <2>2. ~Ends(agenda', Rough!Do("clear", "deviceready"))
    <3>1. Rough!Do("clear", "deviceready") # last
      BY DEF Rough!Do, last
    <3> QED
      BY <1>6, <3>1 DEF Ends
  <2> QED
    BY <1>1, <1>2, <1>5, <1>8, <1>9, <2>1, <2>2 DEF PageInv, ButtonInv
<1>15. StartTypes'
  BY <1>1 DEF StartInv, StartTypes
<1>16. Opened'
  BY <1>1, <1>5, <1>7 DEF Opened, Loaded, Dispatches, last
<1> QED
  BY <1>10, <1>11, <1>12, <1>13, <1>14, <1>15, <1>16 DEF StartInv, StageInv

LEMMA AddDeviceReadyListenerKept == ASSUME Rough!StartupAssumption, StartInv, Rough!AddDeviceReadyListener PROVE StartInv'
<1>1. PICK h \in PageHandlers :
        /\ h \notin handlers["deviceready"] \cup domListeners /\ ~(called[h] > 0)
        /\ \/ /\ started /\ state["deviceready"] = 2 /\ agenda' = <<Rough!Do("call", h)>> \o <<>>
              /\ UNCHANGED <<handlers, domListeners>>
           \/ /\ started /\ state["deviceready"] # 2 /\ agenda' = <<>> /\ UNCHANGED domListeners
              /\ handlers' = [handlers EXCEPT !["deviceready"] = handlers["deviceready"] \cup {h}]
           \/ ~started /\ domListeners' = domListeners \cup {h} /\ UNCHANGED <<agenda, handlers>>
  BY DEF Rough!AddDeviceReadyListener, Rough!Listened, Rough!Subscribe
<1>2. /\ agenda = <<>>
      /\ UNCHANGED <<state, joins, deviceReadyChannelsArray, deviceReadyTimer, started, readyState,
                     pluginList, loading, loaded, initialized, shown, called, override>>
  BY DEF Rough!AddDeviceReadyListener, Rough!Idle, Rough!browser, Rough!effects
<1>3. handlers \in [Rough!Channels -> SUBSET (PageHandlers \cup {"platform", "device", "show"})]
      /\ "deviceready" \in Rough!Channels
  BY DEF StartInv, StartTypes, Rough!Channels, Rough!Sticky, Rough!InitChannels
<1>4. CASE agenda' = <<>>
  <2>1. /\ handlers' \in [Rough!Channels -> SUBSET (PageHandlers \cup {"platform", "device", "show"})]
        /\ \A c \in Rough!Channels : c # "deviceready" => handlers'[c] = handlers[c]
    BY <1>1, <1>2, <1>3
  <2>2. {"onPluginsReady", "onCordovaReady", "onNativeReady", "backbutton"} \cup Loose \subseteq Rough!Channels \ {"deviceready"}
    BY OwnNames DEF Rough!Channels, Rough!Sticky, Rough!InitChannels, Loose
  <2>3. /\ \A c \in Loose : handlers'[c] = handlers[c]
        /\ handlers'["onPluginsReady"] = handlers["onPluginsReady"]
        /\ handlers'["onCordovaReady"] = handlers["onCordovaReady"]
        /\ handlers'["onNativeReady"] = handlers["onNativeReady"]
        /\ handlers'["backbutton"] = handlers["backbutton"]
    BY <2>1, <2>2
  <2>4. UNCHANGED agenda
    BY <1>2, <1>4
  <2>5. Joins' = Joins /\ Unfired' = Unfired /\ Told' = Told
    BY <1>2, <2>4 DEF Joins, Unfired, Told
  <2>6. (LooseInv /\ CountInv /\ TimerInv /\ FiredInv /\ ButtonInv)'
    BY <1>2, <2>3, <2>4, <2>5 DEF StartInv, LooseInv, CountInv, TimerInv, FiredInv, ButtonInv
  <2>7. StartTypes'
    BY <1>2, <2>1, <2>3 DEF StartInv, StartTypes
  <2>8. (NotStarted \/ PluginsLoad \/ Broken \/ Opened)'
    BY <1>2, <2>3, <2>4, IdleFacts DEF NotStarted, PluginsLoad, Broken, Opened, Loaded
  <2>9. PageInv'
    <3>1. \A g : ~Has(agenda', Rough!Do("call", g))
      BY <1>4 DEF Has
    <3>2. \/ handlers'["deviceready"] = handlers["deviceready"] \cup {h} /\ domListeners' = domListeners
          \/ handlers'["deviceready"] = handlers["deviceready"] /\ domListeners' = domListeners \cup {h}
      BY <1>1, <1>2, <1>3, <1>4
    <3>3. handlers'["deviceready"] \subseteq PageHandlers /\ domListeners' \subseteq PageHandlers
          /\ handlers'["deviceready"] \cap domListeners' = {}
      BY <1>1, <3>2 DEF StartInv, PageInv
    <3>4. domListeners \subseteq domListeners'
      BY <3>2
    <3> QED
      BY <1>2, <2>4, <2>5, <3>1, <3>3, <3>4 DEF StartInv, PageInv
  <2> QED
    BY <2>6, <2>7, <2>8, <2>9 DEF StartInv, StageInv
<1>5. CASE agenda' # <<>>
  <2>1. state["deviceready"] = 2 /\ agenda' = <<Rough!Do("call", h)>> /\ UNCHANGED <<handlers, domListeners>>
    <3>1. <<Rough!Do("call", h)>> \o <<>> = <<Rough!Do("call", h)>>
      BY ConcatEmptySeq
    <3> QED
      BY <1>1, <1>2, <1>5, <3>1
  <2>2. Told /\ Joins /\ Opened
    <3>1. Told
      BY <2>1 DEF Told
    <3> QED
      BY <1>2, <3>1, IdleFacts DEF StartInv, TimerInv
  <2>3. Opened'
    BY <1>1, <1>2, <2>1, <2>2 DEF Opened, Loaded, TellsLate
  <2>4. /\ ~SetsTimer(agenda') /\ DeviceCalls(agenda') = 0 /\ ~JoinsDevice(agenda') /\ NotReady(agenda')
        /\ \A g : Has(agenda', Rough!Do("call", g)) => g = h
        /\ \A c : ~Begun(agenda', Rough!Do("fire", c)) /\ ~Ends(agenda', Rough!Do("clear", c))
    BY <2>1, LateOnes
  <2>5. Joins' /\ Unfired' = Unfired /\ Told'
    BY <1>2, <2>1, <2>2, <2>4 DEF Joins, Unfired, Told, JoinsDevice
  <2>6. LooseInv'
    BY <1>2, <2>1, <2>2, <2>5, IdleFacts DEF StartInv, LooseInv
  <2>7. CountInv'
    BY <1>2, <2>2, <2>4, <2>5, IdleFacts DEF StartInv, CountInv, Plain
  <2>8. TimerInv'
    BY <1>2, <2>2, <2>4, <2>5 DEF StartInv, TimerInv
  <2>9. FiredInv' /\ ButtonInv'
    BY <1>2, <2>1, <2>4 DEF StartInv, FiredInv, ButtonInv
  <2>10. PageInv'
    <3>1. called[h] # 1
      BY <1>1
    <3> QED
      BY <1>2, <2>1, <2>2, <2>4, <2>5, <3>1 DEF StartInv, PageInv, NotReady
  <2>11. StartTypes'
    BY <1>2, <2>1 DEF StartInv, StartTypes
  <2> QED
    BY <2>3, <2>6, <2>7, <2>8, <2>9, <2>10, <2>11 DEF StartInv, StageInv
<1> QED
  BY <1>4, <1>5

LEMMA ChangeBackbuttonKept == ASSUME Rough!StartupAssumption, StartInv, Rough!ChangeBackbutton PROVE StartInv'
<1>1. PICK h \in PageHandlers, hs \in SUBSET PageHandlers :
        /\ hs = handlers["backbutton"] \cup {h} \/ hs = handlers["backbutton"] \ {h}
        /\ handlers' = [handlers EXCEPT !["backbutton"] = hs]
        /\ override' = IF Rough!TellsNative(handlers["backbutton"], hs) THEN Cardinality(hs) = 1 ELSE override
  BY DEF Rough!ChangeBackbutton,
     Rough!Cardinality, Cardinality
<1>2. /\ agenda = <<>>
      /\ UNCHANGED <<state, domListeners, agenda, joins, deviceReadyChannelsArray, deviceReadyTimer, started,
                     readyState, pluginList, loading, loaded, initialized, shown, called>>
  BY DEF Rough!ChangeBackbutton, Rough!Idle, Rough!browser,
     Rough!Cardinality, Cardinality
<1>3. handlers \in [Rough!Channels -> SUBSET (PageHandlers \cup {"platform", "device", "show"})]
      /\ "backbutton" \in Rough!Channels
  BY DEF StartInv, StartTypes, Rough!Channels
<1>4. /\ handlers' \in [Rough!Channels -> SUBSET (PageHandlers \cup {"platform", "device", "show"})]
      /\ handlers'["backbutton"] = hs
      /\ \A c \in Rough!Channels : c # "backbutton" => handlers'[c] = handlers[c]
  BY <1>1, <1>3
<1>5. {"onPluginsReady", "onCordovaReady", "onNativeReady", "deviceready"} \cup Loose \subseteq Rough!Channels \ {"backbutton"}
  BY OwnNames DEF Rough!Channels, Rough!Sticky, Rough!InitChannels, Loose
<1>6. /\ \A c \in Loose : handlers'[c] = handlers[c]
      /\ handlers'["onPluginsReady"] = handlers["onPluginsReady"]
      /\ handlers'["onCordovaReady"] = handlers["onCordovaReady"]
      /\ handlers'["onNativeReady"] = handlers["onNativeReady"]
      /\ handlers'["deviceready"] = handlers["deviceready"]
  BY <1>4, <1>5
<1>7. Joins' = Joins /\ Unfired' = Unfired /\ Told' = Told
  BY <1>2 DEF Joins, Unfired, Told
<1>8. (LooseInv /\ CountInv /\ TimerInv /\ FiredInv /\ PageInv)'
  BY <1>2, <1>6, <1>7 DEF StartInv, LooseInv, CountInv, TimerInv, FiredInv, PageInv
<1>9. StartTypes'
  BY <1>2, <1>4, <1>6 DEF StartInv, StartTypes
<1>10. StageInv'
  BY <1>2, <1>6, IdleFacts DEF StageInv, NotStarted, PluginsLoad, Broken, Opened, Loaded
<1>11. ButtonInv'
  <2>1. override = (handlers["backbutton"] # {})
    BY DEF StartInv, ButtonInv
  <2>2. CASE handlers["backbutton"] = {} /\ hs # {}
    <3>1. hs = {h}
      BY <1>1, <2>2
    <3>2. Cardinality(hs) = 1
      BY <3>1, FS_Singleton
    <3>3. Rough!TellsNative(handlers["backbutton"], hs)
      BY <2>2 DEF Rough!TellsNative
    <3> QED
      BY <1>1, <1>4, <2>2, <3>2, <3>3 DEF ButtonInv
  <2>3. CASE handlers["backbutton"] # {} /\ hs = {}
    <3>1. Cardinality(hs) # 1
      BY <2>3, FS_EmptySet
    <3>2. Rough!TellsNative(handlers["backbutton"], hs)
      BY <2>3 DEF Rough!TellsNative
    <3> QED
      BY <1>1, <1>4, <2>3, <3>1, <3>2 DEF ButtonInv
  <2>4. CASE (handlers["backbutton"] = {}) = (hs = {})
    <3>1. ~Rough!TellsNative(handlers["backbutton"], hs)
      BY <2>4 DEF Rough!TellsNative
    <3> QED
      BY <1>1, <1>4, <2>1, <2>4, <3>1 DEF ButtonInv
  <2> QED
    BY <2>2, <2>3, <2>4
<1> QED
  BY <1>8, <1>9, <1>10, <1>11 DEF StartInv

-----------------------------------------------------------------------------
(* What runs, and where the start is then.                                 *)
LEMMA Heads ==
  /\ \A c : /\ Head(Fires(c)) = Rough!Do("fire", c) /\ Tail(Fires(c)) = <<>>
            /\ Head(Calls(c)) = Rough!Do("call", "device") /\ Tail(Calls(c)) = Clears(c)
            /\ Head(Sets(c)) = Rough!Do("fireDocumentEvent", "deviceready") /\ Tail(Sets(c)) = Clears(c)
            /\ Head(Clears(c)) = Rough!Do("clear", c) /\ Tail(Clears(c)) = <<>>
  /\ Head(PlatformCalls) = Rough!Do("call", "platform") /\ Tail(PlatformCalls) = Clears("onPluginsReady")
  /\ Head(ModulesMap) = Rough!Do("mapModules", "platform") /\ Tail(ModulesMap) = ReadyFires
  /\ Head(ReadyFires) = Rough!Do("fire", "onCordovaReady") /\ Tail(ReadyFires) = DeviceJoins
  /\ Head(ShowCalls) = Rough!Do("call", "show") /\ Tail(ShowCalls) = ReadyClears
  /\ Head(ReadyClears) = Rough!Do("clear", "onCordovaReady") /\ Tail(ReadyClears) = DeviceJoins
  /\ Head(DeviceJoins) = Rough!Do("join", "device") /\ Tail(DeviceJoins) = Clears("onPluginsReady")
<1>1. ASSUME NEW c
      PROVE  /\ Head(Fires(c)) = Rough!Do("fire", c) /\ Tail(Fires(c)) = <<>>
             /\ Head(Calls(c)) = Rough!Do("call", "device") /\ Tail(Calls(c)) = Clears(c)
             /\ Head(Sets(c)) = Rough!Do("fireDocumentEvent", "deviceready") /\ Tail(Sets(c)) = Clears(c)
             /\ Head(Clears(c)) = Rough!Do("clear", c) /\ Tail(Clears(c)) = <<>>
  BY DEF Fires, Calls, Sets, Clears
<1>2. Head(PlatformCalls) = Rough!Do("call", "platform") /\ Tail(PlatformCalls) = Clears("onPluginsReady")
  BY DEF PlatformCalls, Clears
<1>3. Head(ModulesMap) = Rough!Do("mapModules", "platform") /\ Tail(ModulesMap) = ReadyFires
  BY DEF ModulesMap, ReadyFires
<1>4. Head(ReadyFires) = Rough!Do("fire", "onCordovaReady") /\ Tail(ReadyFires) = DeviceJoins
  BY DEF DeviceJoins, ReadyFires
<1>5. Head(ShowCalls) = Rough!Do("call", "show") /\ Tail(ShowCalls) = ReadyClears
  BY DEF ShowCalls, ReadyClears
<1>6. Head(ReadyClears) = Rough!Do("clear", "onCordovaReady") /\ Tail(ReadyClears) = DeviceJoins
  BY DEF DeviceJoins, ReadyClears
<1>7. Head(DeviceJoins) = Rough!Do("join", "device") /\ Tail(DeviceJoins) = Clears("onPluginsReady")
  BY DEF DeviceJoins, Clears
<1> QED
  BY <1>1, <1>2, <1>3, <1>4, <1>5, <1>6, <1>7

LEMMA InitHead ==
  ASSUME NEW a, InitScript(a)
  PROVE  /\ Head(a) = a[1] /\ a # <<>>
         /\ a[1] \in InitSteps \/ a = <<Rough!Do("join", "platform")>>
<1> DEFINE last == Rough!Do("join", "platform")
<1>1. last \notin InitSteps
  BY SameStep DEF InitSteps, Rough!Do
<1>2. a \in Seq(InitSteps \cup {last}) /\ Len(a) > 0 /\ Len(a) \in Nat
  BY DEF InitScript, Script
<1>3. Head(a) = a[1] /\ 1 \in 1..Len(a) /\ a # <<>>
  BY <1>2
<1>4. a[1] \in InitSteps \cup {last}
  BY <1>2, <1>3
<1> HIDE DEF last
<1>5. a[1] = last => a = <<last>>
  BY <1>1, ScriptLast DEF InitScript, last
<1> QED
  BY <1>3, <1>4, <1>5 DEF last

LEMMA PageHead ==
  ASSUME NEW a, NEW step \in {"fire", "clear"}, PageScript(a, Rough!Do(step, "deviceready"))
  PROVE  /\ Head(a) = a[1] /\ a # <<>>
         /\ a[1] \in PageSteps \/ a = <<Rough!Do(step, "deviceready")>>
         /\ Rough!Do(step, "deviceready") \notin PageSteps
<1> DEFINE last == Rough!Do(step, "deviceready")
<1>1. last \notin PageSteps
  BY DEF PageSteps, Rough!Do
<1>2. a \in Seq(PageSteps \cup {last}) /\ Len(a) > 0 /\ Len(a) \in Nat
  BY DEF PageScript, Script
<1>3. Head(a) = a[1] /\ 1 \in 1..Len(a) /\ a # <<>>
  BY <1>2
<1>4. a[1] \in PageSteps \cup {last}
  BY <1>2, <1>3
<1> HIDE DEF last
<1>5. a[1] = last => a = <<last>>
  BY <1>1, ScriptLast DEF PageScript, last
<1> QED
  BY <1>1, <1>3, <1>4, <1>5 DEF last

(* Which scripts run a step of each kind.                                  *)
Somewhere == PluginsLoad \/ Broken \/ Opened
FinalScripts == {Sets("onPluginsReady"), Clears("onPluginsReady")}

LEMMA Shapes ==
  ASSUME Rough!StartupAssumption, StartInv, agenda # <<>>
  PROVE  \/ Begins
         \/ Somewhere /\ \E c \in Loose : agenda \in LooseScripts(c)
         \/ PluginsLoad /\ agenda = Fires("onPluginsReady") /\ pluginList = "done" /\ loading = {}
         \/ Maps \/ Opens
         \/ Opened /\ agenda \in FinalScripts
         \/ Opened /\ (Dispatches(agenda) \/ Tells(agenda) \/ TellsLate(agenda))
BY DEF StartInv, StageInv, NotStarted, PluginsLoad, Broken, Opened, Somewhere, FinalScripts, Between

LEMMA NotInit ==
  ASSUME Begins PROVE /\ Head(agenda) = agenda[1] /\ InitScript(agenda)
                      /\ agenda[1] \in InitSteps \/ agenda = <<Rough!Do("join", "platform")>>
BY InitHead DEF Begins

LEMMA FireShapes ==
  ASSUME Rough!StartupAssumption, StartInv, Rough!At("fire")
  PROVE  \/ Begins /\ agenda[1] \in {Rough!Do("fire", "onDOMContentLoaded"), Rough!Do("fire", "onNativeReady")}
         \/ Somewhere /\ \E c \in Loose : agenda = Fires(c)
         \/ PluginsLoad /\ agenda = Fires("onPluginsReady") /\ pluginList = "done" /\ loading = {}
         \/ Maps /\ agenda = ReadyFires
         \/ Opened /\ agenda = <<Rough!Do("fire", "deviceready")>>
<1>1. agenda # <<>> /\ Head(agenda).step = "fire"
  BY DEF Rough!At, Rough!Idle
<1> USE DEF Rough!Do
<1>2. CASE Begins
  BY <1>1, <1>2, NotInit DEF InitSteps
<1>3. CASE Somewhere /\ \E c \in Loose : agenda \in LooseScripts(c)
  BY <1>1, <1>3, Heads DEF LooseScripts
<1>4. CASE Maps
  BY <1>1, <1>4, Heads DEF Maps
<1>5. ~Opens
  BY <1>1, Heads DEF Opens, OpenScripts
<1>6. ~(agenda \in FinalScripts)
  BY <1>1, Heads DEF FinalScripts
<1>7. CASE Opened /\ (Dispatches(agenda) \/ Tells(agenda) \/ TellsLate(agenda))
  <2>1. CASE Dispatches(agenda)
    BY <1>1, <1>7, <2>1, PageHead DEF Dispatches, PageSteps
  <2>2. CASE Tells(agenda)
    <3>1. Head(agenda) = agenda[1] /\ (agenda[1] \in PageSteps \/ agenda = <<Rough!Do("clear", "deviceready")>>)
      BY <2>2, PageHead DEF Tells
    <3> QED
      BY <1>1, <3>1 DEF PageSteps
  <2>3. CASE TellsLate(agenda)
    BY <1>1, <2>3 DEF TellsLate
  <2> QED
    BY <1>7, <2>1, <2>2, <2>3
<1> QED
  BY <1>1, <1>2, <1>3, <1>4, <1>5, <1>6, <1>7, Shapes

LEMMA ClearShapes ==
  ASSUME Rough!StartupAssumption, StartInv, Rough!At("clear")
  PROVE  \/ Begins /\ agenda[1] \in {Rough!Do("clear", "onDOMContentLoaded"), Rough!Do("clear", "onNativeReady")}
         \/ Somewhere /\ \E c \in Loose : agenda = Clears(c)
         \/ Opens /\ agenda = ReadyClears
         \/ Opened /\ agenda = Clears("onPluginsReady")
         \/ Opened /\ agenda = <<Rough!Do("clear", "deviceready")>>
<1>1. agenda # <<>> /\ Head(agenda).step = "clear"
  BY DEF Rough!At, Rough!Idle
<1> USE DEF Rough!Do
<1>2. CASE Begins
  BY <1>1, <1>2, NotInit DEF InitSteps
<1>3. CASE Somewhere /\ \E c \in Loose : agenda \in LooseScripts(c)
  BY <1>1, <1>3, Heads DEF LooseScripts
<1>4. ~Maps /\ agenda # Fires("onPluginsReady")
  BY <1>1, Heads DEF Maps
<1>5. CASE Opens
  BY <1>1, <1>5, Heads DEF Opens, OpenScripts
<1>6. CASE Opened /\ agenda \in FinalScripts
  BY <1>1, <1>6, Heads DEF FinalScripts
<1>7. CASE Opened /\ (Dispatches(agenda) \/ Tells(agenda) \/ TellsLate(agenda))
  <2>1. CASE Dispatches(agenda)
    <3>1. Head(agenda) = agenda[1] /\ (agenda[1] \in PageSteps \/ agenda = <<Rough!Do("fire", "deviceready")>>)
      BY <2>1, PageHead DEF Dispatches
    <3> QED
      BY <1>1, <3>1 DEF PageSteps
  <2>2. CASE Tells(agenda)
    <3>1. Head(agenda) = agenda[1] /\ (agenda[1] \in PageSteps \/ agenda = <<Rough!Do("clear", "deviceready")>>)
      BY <2>2, PageHead DEF Tells
    <3> QED
      BY <1>1, <1>7, <3>1 DEF PageSteps
  <2>3. CASE TellsLate(agenda)
    BY <1>1, <2>3 DEF TellsLate
  <2> QED
    BY <1>7, <2>1, <2>2, <2>3
<1> QED
  BY <1>1, <1>2, <1>3, <1>4, <1>5, <1>6, <1>7, Shapes

LEMMA CallShapes ==
  ASSUME Rough!StartupAssumption, StartInv, Rough!At("call")
  PROVE  \/ Somewhere /\ Rough!Of = "device" /\ \E c \in Loose : agenda = Calls(c)
         \/ Maps /\ agenda = PlatformCalls /\ Rough!Of = "platform"
         \/ Opens /\ agenda = ShowCalls /\ Rough!Of = "show"
         \/ Opened /\ Rough!Of \in PageHandlers /\ Head(agenda) = Rough!Do("call", Rough!Of)
            /\ (Dispatches(agenda) \/ Tells(agenda) \/ TellsLate(agenda))
<1>1. agenda # <<>> /\ Head(agenda).step = "call" /\ Rough!Of = Head(agenda).of
  BY DEF Rough!At, Rough!Idle, Rough!Of
<1> USE DEF Rough!Do
<1>2. ~Begins
  <2>1. ASSUME Begins PROVE FALSE
    BY <1>1, <2>1, NotInit DEF InitSteps
  <2> QED
    BY <2>1
<1>3. CASE Somewhere /\ \E c \in Loose : agenda \in LooseScripts(c)
  BY <1>1, <1>3, Heads DEF LooseScripts
<1>4. CASE Maps
  BY <1>1, <1>4, Heads DEF Maps
<1>5. CASE Opens
  BY <1>1, <1>5, Heads DEF Opens, OpenScripts
<1>6. ~(agenda \in FinalScripts) /\ agenda # Fires("onPluginsReady")
  BY <1>1, Heads DEF FinalScripts
<1>7. CASE Opened /\ (Dispatches(agenda) \/ Tells(agenda) \/ TellsLate(agenda))
  <2>1. CASE Dispatches(agenda)
    <3>1. Head(agenda) = agenda[1] /\ (agenda[1] \in PageSteps \/ agenda = <<Rough!Do("fire", "deviceready")>>)
      BY <2>1, PageHead DEF Dispatches
    <3> QED
      BY <1>1, <1>7, <2>1, <3>1 DEF PageSteps
  <2>2. CASE Tells(agenda)
    <3>1. Head(agenda) = agenda[1] /\ (agenda[1] \in PageSteps \/ agenda = <<Rough!Do("clear", "deviceready")>>)
      BY <2>2, PageHead DEF Tells
    <3> QED
      BY <1>1, <1>7, <2>2, <3>1 DEF PageSteps
  <2>3. CASE TellsLate(agenda)
    BY <1>1, <1>7, <2>3 DEF TellsLate
  <2> QED
    BY <1>7, <2>1, <2>2, <2>3
<1> QED
  BY <1>1, <1>2, <1>3, <1>4, <1>5, <1>6, <1>7, Shapes

LEMMA OtherShapes ==
  ASSUME Rough!StartupAssumption, StartInv, agenda # <<>>
  PROVE  /\ Head(agenda).step = "join" =>
              \/ Begins /\ agenda = <<Rough!Do("join", "platform")>>
              \/ Opens /\ agenda = DeviceJoins
         /\ Head(agenda).step = "subscribe" => Begins /\ agenda[1] = Rough!Do("subscribe", "show")
         /\ Head(agenda).step = "load" => Begins /\ agenda[1] = Rough!Do("load", "cordova_plugins.js")
         /\ Head(agenda).step = "mapModules" => Maps /\ agenda = ModulesMap
         /\ Head(agenda).step = "fireDocumentEvent" =>
              \/ Somewhere /\ \E c \in Loose : agenda = Sets(c)
              \/ Opened /\ agenda = Sets("onPluginsReady")
<1> DEFINE step == Head(agenda).step
<1> USE DEF Rough!Do
<1>1. CASE Begins
  BY <1>1, NotInit DEF InitSteps
<1>2. CASE Somewhere /\ \E c \in Loose : agenda \in LooseScripts(c)
  BY <1>2, Heads DEF LooseScripts
<1>3. CASE PluginsLoad /\ agenda = Fires("onPluginsReady")
  BY <1>3, Heads
<1>4. CASE Maps
  BY <1>4, Heads DEF Maps
<1>5. CASE Opens
  BY <1>5, Heads DEF Opens, OpenScripts
<1>6. CASE Opened /\ agenda \in FinalScripts
  BY <1>6, Heads DEF FinalScripts
<1>7. CASE Opened /\ (Dispatches(agenda) \/ Tells(agenda) \/ TellsLate(agenda))
  <2>1. CASE Dispatches(agenda)
    <3>1. Head(agenda) = agenda[1] /\ (agenda[1] \in PageSteps \/ agenda = <<Rough!Do("fire", "deviceready")>>)
      BY <2>1, PageHead DEF Dispatches
    <3> QED
      BY <1>7, <3>1 DEF PageSteps
  <2>2. CASE Tells(agenda)
    <3>1. Head(agenda) = agenda[1] /\ (agenda[1] \in PageSteps \/ agenda = <<Rough!Do("clear", "deviceready")>>)
      BY <2>2, PageHead DEF Tells
    <3> QED
      BY <1>7, <3>1 DEF PageSteps
  <2>3. CASE TellsLate(agenda)
    BY <1>7, <2>3 DEF TellsLate
  <2> QED
    BY <1>7, <2>1, <2>2, <2>3
<1> QED
  BY <1>1, <1>2, <1>3, <1>4, <1>5, <1>6, <1>7, Shapes

-----------------------------------------------------------------------------
(* Steps before the device has joined its channels, and steps that do not  *)
(* touch what the page is told.                                            *)
Calm(a) == ~SetsTimer(a) /\ NotReady(a) /\ NoPageCalls(a)

LEMMA PlainIsCalm == \A a : Plain(a) => Calm(a) /\ DeviceCalls(a) = 0
BY DEF Plain, Calm

LEMMA CalmKept ==
  ASSUME StartInv, Calm(agenda), Calm(agenda'), Joins => Joins',
         UNCHANGED <<domListeners, deviceReadyTimer, called, override>>,
         joins'.device = joins.device, state'["deviceready"] = state["deviceready"],
         handlers'["deviceready"] = handlers["deviceready"],
         handlers'["backbutton"] = handlers["backbutton"]
  PROVE  TimerInv' /\ PageInv' /\ ButtonInv'
<1>1. Told' = Told
  BY DEF Told, Calm, NotReady
<1>2. TimerInv'
  BY <1>1 DEF StartInv, TimerInv, Calm
<1>3. PageInv'
  BY <1>1 DEF StartInv, PageInv, Calm, NoPageCalls, NotReady
<1> QED
  BY <1>2, <1>3 DEF StartInv, ButtonInv

LEMMA EarlyKept ==
  ASSUME StartInv, ~Joins, ~Joins', DeviceCalls(agenda') = 0,
         \A c \in Loose : handlers'[c] = handlers[c], joins'.device = joins.device,
         deviceReadyChannelsArray' \in Seq(Loose \cup {"onCordovaReady"})
  PROVE  LooseInv' /\ CountInv'
<1>1. \A c \in Loose : handlers'[c] = {}
  BY DEF StartInv, LooseInv
<1>2. Len(deviceReadyChannelsArray') \in Nat
  OBVIOUS
<1>3. CountInv'
  BY <1>2 DEF StartInv, CountInv
<1> QED
  BY <1>1, <1>3 DEF LooseInv

LEMMA Early ==
  ASSUME Rough!StartupAssumption, StartInv
  PROVE  /\ NotStarted \/ Begins \/ PluginsLoad \/ Maps \/ Broken \/ Opens => ~Joins
         /\ ~Joins => /\ \A c \in Loose : handlers[c] = {}
                      /\ DeviceCalls(agenda) = 0 /\ ~SetsTimer(agenda)
<1>1. NotStarted \/ Begins \/ PluginsLoad \/ Maps \/ Broken => ~Joins
  BY DEF NotStarted, Begins, PluginsLoad, Maps, Broken, Joins
<1>2. Opens => ~Joins
  <2>1. ASSUME Opens PROVE JoinsDevice(agenda)
    BY <2>1, PlainLong DEF Opens
  <2> QED
    BY <2>1 DEF Joins, JoinsDevice
<1>3. ~Joins => DeviceCalls(agenda) = 0 /\ ~SetsTimer(agenda) /\ \A c \in Loose : handlers[c] = {}
  BY DEF StartInv, CountInv, TimerInv, LooseInv
<1> QED
  BY <1>1, <1>2, <1>3

LEMMA Names ==
  ASSUME Rough!StartupAssumption
  PROVE  /\ Loose \cup {"onNativeReady", "onCordovaReady", "onPluginsReady", "deviceready"} = Rough!Sticky
         /\ Rough!Sticky \subseteq Rough!Channels /\ "backbutton" \in Rough!Channels /\ "backbutton" \notin Rough!Sticky
         /\ "onDOMContentLoaded" \in Loose /\ Rough!Features \subseteq Loose
BY OwnNames DEF Loose, Rough!Sticky, Rough!Channels, Rough!InitChannels, Rough!StartupAssumption

LEMMA TwoSteps == ASSUME NEW s, NEW t PROVE <<s>> \o <<t>> = <<s, t>>
<1> DEFINE S == {s, t}
<1>1. s \in S /\ t \in S
  OBVIOUS
<1> HIDE DEF S
<1>2. <<s>> \in Seq(S) /\ <<t>> \in Seq(S) /\ <<s, t>> \in Seq(S)
  BY <1>1
<1>3. Len(<<s>>) = 1 /\ Len(<<t>>) = 1 /\ <<s>>[1] = s /\ <<t>>[1] = t
      /\ Len(<<s, t>>) = 2 /\ <<s, t>>[1] = s /\ <<s, t>>[2] = t
  OBVIOUS
<1> DEFINE a == <<s>>
           b == <<t>>
           c == <<s, t>>
<1> HIDE DEF a, b, c
<1>4. a \in Seq(S) /\ b \in Seq(S) /\ c \in Seq(S) /\ Len(a) = 1 /\ Len(b) = 1 /\ Len(c) = 2
      /\ a[1] = s /\ b[1] = t /\ c[1] = s /\ c[2] = t
  BY <1>2, <1>3 DEF a, b, c
<1>5. a \o b = c
  <2>1. a \o b \in Seq(S) /\ Len(a \o b) = 2 /\ (a \o b)[1] = s /\ (a \o b)[2] = t
    <3>1. /\ a \o b \in Seq(S) /\ Len(a \o b) = Len(a) + Len(b)
          /\ \A i \in 1..Len(a) + Len(b) : (a \o b)[i] = IF i <= Len(a) THEN a[i] ELSE b[i - Len(a)]
      BY <1>4, ConcatProperties
    <3>2. 1 \in 1..Len(a) + Len(b) /\ 2 \in 1..Len(a) + Len(b) /\ 1 <= Len(a) /\ ~(2 <= Len(a)) /\ 2 - Len(a) = 1
      BY <1>4
    <3> QED
      BY <1>4, <3>1, <3>2
  <2>2. \A i \in 1..Len(a \o b) : (a \o b)[i] = c[i]
    BY <1>4, <2>1
  <2>3. Len(a \o b) = Len(c)
    BY <1>4, <2>1
  <2> QED
    BY <1>4, <2>1, <2>2, <2>3, SeqEqual
<1> QED
  BY <1>5 DEF a, b, c

LEMMA FireFacts ==
  ASSUME Rough!StartupAssumption, StartInv, Rough!Fire, NEW c \in Rough!Sticky, Head(agenda) = Rough!Do("fire", c)
  PROVE  /\ state' \in [Rough!Channels -> 0..2] /\ \A d \in Rough!Channels : state'[d] = 0 <=> d \notin Rough!Sticky
         /\ state'[c] = 2 /\ \A d \in Rough!Channels : d # c => state'[d] = state[d]
         /\ UNCHANGED <<handlers, domListeners, joins, deviceReadyChannelsArray, deviceReadyTimer, started,
                        readyState, pluginList, loading, loaded, initialized, shown, called, override>>
         /\ handlers[c] = {} => agenda' = <<Rough!Do("clear", c)>> \o Tail(agenda)
         /\ \A x : handlers[c] = {x} => agenda' = <<Rough!Do("call", x), Rough!Do("clear", c)>> \o Tail(agenda)
         /\ \E seq \in Rough!SetToSeqs(handlers[c]) : agenda' = CallsTo(seq) \o <<Rough!Do("clear", c)>> \o Tail(agenda)
<1>1. Rough!Of = c
  BY DEF Rough!Of, Rough!Do
<1>2. PICK seq \in Rough!SetToSeqs(handlers[c]) : agenda' = CallsTo(seq) \o <<Rough!Do("clear", c)>> \o Tail(agenda)
  BY <1>1 DEF Rough!Fire, CallsTo
<1>3. state' = IF state[c] = 1 THEN [state EXCEPT ![c] = 2] ELSE state
  BY <1>1 DEF Rough!Fire, Rough!Fired
<1>4. state \in [Rough!Channels -> 0..2] /\ c \in Rough!Channels /\ \A d \in Rough!Channels : state[d] = 0 <=> d \notin Rough!Sticky
  BY Names DEF StartInv, StartTypes
<1>5. state[c] \in {1, 2}
  BY <1>4
<1>6. /\ state' \in [Rough!Channels -> 0..2] /\ state'[c] = 2
      /\ \A d \in Rough!Channels : d # c => state'[d] = state[d]
  BY <1>3, <1>4, <1>5
<1>7. \A d \in Rough!Channels : state'[d] = 0 <=> d \notin Rough!Sticky
  BY <1>4, <1>6
<1>8. ASSUME handlers[c] = {} PROVE agenda' = <<Rough!Do("clear", c)>> \o Tail(agenda)
  <2>1. CallsTo(seq) = <<>>
    BY <1>2, <1>8, CallsNone
  <2>2. <<>> \o <<Rough!Do("clear", c)>> = <<Rough!Do("clear", c)>>
    OBVIOUS
  <2> QED
    BY <1>2, <2>1, <2>2
<1>9. ASSUME NEW x, handlers[c] = {x} PROVE agenda' = <<Rough!Do("call", x), Rough!Do("clear", c)>> \o Tail(agenda)
  <2>1. CallsTo(seq) = <<Rough!Do("call", x)>>
    BY <1>2, <1>9, CallsOnly
  <2> QED
    BY <1>2, <2>1, TwoSteps
<1>10. UNCHANGED <<handlers, domListeners, joins, deviceReadyChannelsArray, deviceReadyTimer, started,
                   readyState, pluginList, loading, loaded, initialized, shown, called, override>>
  BY DEF Rough!Fire, Rough!browser, Rough!effects
<1> QED
  BY <1>2, <1>6, <1>7, <1>8, <1>9, <1>10

(* Channels of the start itself: neither the device nor the page hears.    *)
LEMMA FireEarlyKept ==
  ASSUME Rough!StartupAssumption, StartInv, Rough!Fire, NEW c \in Rough!Sticky \ {"deviceready"},
         Head(agenda) = Rough!Do("fire", c), ~Joins, ~Joins', Calm(agenda), Plain(agenda'), StageInv',
         c \in Rough!Features => c \in initialized, c = "onDOMContentLoaded" => readyState = "complete",
         \A d \in Loose : ~Begun(agenda', Rough!Do("fire", d)) \/ (d = "onDOMContentLoaded" /\ readyState = "complete")
  PROVE  StartInv'
<1>1. /\ state' \in [Rough!Channels -> 0..2] /\ \A d \in Rough!Channels : state'[d] = 0 <=> d \notin Rough!Sticky
      /\ state'[c] = 2 /\ \A d \in Rough!Channels : d # c => state'[d] = state[d]
      /\ UNCHANGED <<handlers, domListeners, joins, deviceReadyChannelsArray, deviceReadyTimer, started,
                     readyState, pluginList, loading, loaded, initialized, shown, called, override>>
  BY FireFacts
<1>2. state'["deviceready"] = state["deviceready"]
  BY <1>1, Names
<1>3. StartTypes'
  BY <1>1 DEF StartInv, StartTypes
<1>4. LooseInv' /\ CountInv'
  <2>1. deviceReadyChannelsArray' \in Seq(Loose \cup {"onCordovaReady"}) /\ \A d \in Loose : handlers'[d] = handlers[d]
    BY <1>1 DEF StartInv, StartTypes
  <2>2. DeviceCalls(agenda') = 0 /\ UNCHANGED joins
    BY <1>1 DEF Plain
  <2> QED
    BY <2>1, <2>2, EarlyKept
<1>5. TimerInv' /\ PageInv' /\ ButtonInv'
  <2>1. UNCHANGED <<domListeners, deviceReadyTimer, called, override, joins>>
        /\ handlers'["deviceready"] = handlers["deviceready"] /\ handlers'["backbutton"] = handlers["backbutton"]
    BY <1>1
  <2> QED
    BY <1>2, <2>1, CalmKept DEF Calm, Plain
<1>6. FiredInv'
  <2>1. ASSUME NEW d \in Loose, state'[d] = 2 PROVE state[d] = 2 \/ d = c
    <3>1. d \in Rough!Channels
      BY Names
    <3> QED
      BY <1>1, <2>1, <3>1
  <2>2. \A f \in Rough!Features : f \in Loose /\ f # "onDOMContentLoaded"
    BY Names, OwnNames
  <2>3. \A f \in Rough!Features : ~Begun(agenda', Rough!Do("fire", f))
    BY <2>2
  <2>4. "onDOMContentLoaded" \in Loose
    BY Names
  <2> QED
    BY <1>1, <2>1, <2>2, <2>3, <2>4 DEF StartInv, FiredInv
<1> QED
  BY <1>3, <1>4, <1>5, <1>6 DEF StartInv

LEMMA FireInitKept ==
  ASSUME Rough!StartupAssumption, StartInv, Rough!Fire, Begins,
         NEW c \in {"onDOMContentLoaded", "onNativeReady"}, agenda[1] = Rough!Do("fire", c)
  PROVE  StartInv'
<1> DEFINE last == Rough!Do("join", "platform")
           step == Rough!Do("clear", c)
           fire == Rough!Do("fire", c)
<1>1. c \in Rough!Sticky \ {"deviceready"} /\ c \notin Rough!Features /\ c # "onPluginsReady" /\ c # "onCordovaReady"
  BY Names, OwnNames
<1>2. InitScript(agenda) /\ Head(agenda) = fire /\ step \in InitSteps /\ fire # last /\ last \notin InitSteps
  BY NotInit, SameStep DEF InitSteps, Rough!Do
<1>3. ~Joins /\ handlers[c] = {}
  BY <1>1, Early DEF StartInv, StartTypes, Loose
<1>4. agenda' = <<step>> \o Tail(agenda)
  BY <1>1, <1>2, <1>3, FireFacts
<1>5. /\ state'[c] = 2 /\ \A d \in Rough!Channels : d # c => state'[d] = state[d]
      /\ UNCHANGED <<handlers, domListeners, joins, deviceReadyChannelsArray, deviceReadyTimer, started,
                     readyState, pluginList, loading, loaded, initialized, shown, called, override>>
  BY <1>1, <1>2, FireFacts
<1> HIDE DEF last, step, fire
<1>6. Script(Tail(agenda), InitSteps, last) /\ \A s : Has(agenda, s) <=> fire = s \/ Has(Tail(agenda), s)
  BY <1>2, ScriptTail DEF InitScript, last, fire
<1>7. Script(agenda', InitSteps, last) /\ \A s : Has(agenda', s) <=> step = s \/ Has(Tail(agenda), s)
  BY <1>2, <1>4, <1>6, ScriptPushed
<1>8. InitScript(agenda')
  BY <1>7 DEF InitScript, last
<1>9. Plain(agenda') /\ Plain(agenda) /\ \A d : d \notin {"onDOMContentLoaded", "onNativeReady"} => ~Begun(agenda', Rough!Do("fire", d))
  BY <1>2, <1>8, PlainInit
<1>10. c = "onDOMContentLoaded" => readyState = "complete"
  <2>1. Has(agenda, fire)
    BY <1>6
  <2> QED
    BY <2>1 DEF Begins, fire
<1>11. \A s, d : s # "fire" \/ d # c => Rough!Do(s, d) # fire
  BY SameStep DEF fire
<1>12. \A s, d : s # "clear" => Rough!Do(s, d) # step
  BY SameStep DEF step
<1>13. \A s, d : s # "clear" /\ (s # "fire" \/ d # c) => (Has(agenda', Rough!Do(s, d)) <=> Has(agenda, Rough!Do(s, d)))
  BY <1>6, <1>7, <1>11, <1>12
<1>14. state'["onPluginsReady"] = state["onPluginsReady"] /\ state'["onCordovaReady"] = state["onCordovaReady"]
  BY <1>1, <1>5, Names
<1>15. Begins'
  <2>1. Has(agenda', Rough!Do("subscribe", "show")) \/ "show" \in handlers["onCordovaReady"]
    BY <1>13 DEF Begins
  <2>2. Has(agenda', Rough!Do("fire", "onNativeReady")) \/ state'["onNativeReady"] = 2
    <3>1. CASE c = "onNativeReady"
      BY <1>5, <3>1
    <3>2. CASE c # "onNativeReady"
      <4>1. state'["onNativeReady"] = state["onNativeReady"]
        BY <1>5, <3>2, Names
      <4> QED
        BY <1>13, <3>2, <4>1 DEF Begins
    <3> QED
      BY <3>1, <3>2
  <2>3. Has(agenda', Rough!Do("fire", "onDOMContentLoaded")) => readyState = "complete"
    <3>1. CASE c = "onDOMContentLoaded"
      BY <1>10, <3>1
    <3>2. CASE c # "onDOMContentLoaded"
      BY <1>13, <3>2 DEF Begins
    <3> QED
      BY <3>1, <3>2
  <2> QED
    BY <1>5, <1>8, <1>14, <2>1, <2>2, <2>3 DEF Begins
<1>16. ~Joins'
  BY <1>14 DEF Begins, Joins
<1>17. \A d \in Loose : ~Begun(agenda', Rough!Do("fire", d)) \/ (d = "onDOMContentLoaded" /\ readyState = "complete")
  <2>1. ASSUME Begun(agenda', Rough!Do("fire", "onDOMContentLoaded")) PROVE readyState = "complete"
    <3>1. 1 \in 1..Len(agenda') /\ agenda'[1] = Rough!Do("fire", "onDOMContentLoaded")
      BY <1>8, <2>1, PlainInit DEF Begun
    <3>2. Has(agenda', Rough!Do("fire", "onDOMContentLoaded"))
      BY <3>1 DEF Has
    <3> QED
      BY <1>5, <1>15, <3>2 DEF Begins
  <2> QED
    BY <1>9, <2>1, OwnNames
<1>18. Head(agenda) = Rough!Do("fire", c) /\ Calm(agenda) /\ StageInv'
  BY <1>2, <1>9, <1>15, PlainIsCalm DEF StageInv, fire
<1> QED
  BY <1>1, <1>3, <1>9, <1>10, <1>16, <1>17, <1>18, FireEarlyKept

(* A channel of the document or of a feature, before the device joined it. *)
LEMMA FireLooseKept ==
  ASSUME Rough!StartupAssumption, StartInv, Rough!Fire, PluginsLoad \/ Broken, NEW c \in Loose, agenda = Fires(c)
  PROVE  StartInv'
<1>1. c \in Rough!Sticky \ {"deviceready"} /\ c # "onPluginsReady" /\ c # "onCordovaReady" /\ c # "onNativeReady"
  BY Names, OwnNames
<1>2. Head(agenda) = Rough!Do("fire", c) /\ Tail(agenda) = <<>>
  BY Heads
<1>3. ~Joins /\ handlers[c] = {}
  BY Early
<1>4. /\ handlers[c] = {} => agenda' = <<Rough!Do("clear", c)>> \o Tail(agenda)
      /\ state'[c] = 2 /\ \A d \in Rough!Channels : d # c => state'[d] = state[d]
      /\ UNCHANGED <<handlers, domListeners, joins, deviceReadyChannelsArray, deviceReadyTimer, started,
                     readyState, pluginList, loading, loaded, initialized, shown, called, override>>
  BY <1>1, <1>2, FireFacts
<1>5. agenda' = Clears(c)
  <2>1. <<Rough!Do("clear", c)>> \o <<>> = <<Rough!Do("clear", c)>>
    BY ConcatEmptySeq
  <2> QED
    BY <1>2, <1>3, <1>4, <2>1 DEF Clears
<1>6. Plain(agenda) /\ Calm(agenda) /\ Plain(Clears(c)) /\ ~JoinsDevice(Clears(c))
  BY <1>1, PlainShort, PlainIsCalm
<1>7. /\ state'["onPluginsReady"] = state["onPluginsReady"] /\ state'["onCordovaReady"] = state["onCordovaReady"]
      /\ state'["onNativeReady"] = state["onNativeReady"]
  BY <1>1, <1>4, Names
<1>8. (PluginsLoad \/ Broken)'
  <2>1. Between(agenda')
    BY <1>5 DEF Between, LooseScripts
  <2> QED
    BY <1>4, <1>7, <2>1 DEF PluginsLoad, Broken, Loaded
<1>9. ~Joins'
  BY <1>7 DEF PluginsLoad, Broken, Joins
<1>10. Begun(agenda, Rough!Do("fire", c))
  BY DEF Begun, Fires
<1>11. (c \in Rough!Features => c \in initialized) /\ (c = "onDOMContentLoaded" => readyState = "complete")
  BY <1>10 DEF StartInv, FiredInv
<1>12. \A d \in Loose : ~Begun(agenda', Rough!Do("fire", d))
  BY <1>5 DEF Begun, Clears, Rough!Do
<1>13. StageInv'
  BY <1>8 DEF StageInv
<1> QED
  BY <1>1, <1>2, <1>3, <1>5, <1>6, <1>9, <1>11, <1>12, <1>13, FireEarlyKept

(* The plugins are ready; Cordova is ready.                                *)
LEMMA FirePluginsKept ==
  ASSUME Rough!StartupAssumption, StartInv, Rough!Fire, PluginsLoad, agenda = Fires("onPluginsReady"),
         pluginList = "done", loading = {}
  PROVE  StartInv'
<1> DEFINE c == "onPluginsReady"
<1>1. c \in Rough!Sticky \ {"deviceready"} /\ c \notin Rough!Features
  BY Names, OwnNames
<1>2. Head(agenda) = Rough!Do("fire", c) /\ Tail(agenda) = <<>>
  BY Heads
<1>3. ~Joins /\ handlers[c] = {"platform"}
  BY Early DEF PluginsLoad
<1>4. /\ \A x : handlers[c] = {x} => agenda' = <<Rough!Do("call", x), Rough!Do("clear", c)>> \o Tail(agenda)
      /\ state'[c] = 2 /\ \A d \in Rough!Channels : d # c => state'[d] = state[d]
      /\ UNCHANGED <<handlers, domListeners, joins, deviceReadyChannelsArray, deviceReadyTimer, started,
                     readyState, pluginList, loading, loaded, initialized, shown, called, override>>
  BY <1>1, <1>2, FireFacts
<1>5. agenda' = PlatformCalls
  <2>1. <<Rough!Do("call", "platform"), Rough!Do("clear", c)>> \o <<>> = <<Rough!Do("call", "platform"), Rough!Do("clear", c)>>
    BY ConcatEmptySeq
  <2> QED
    BY <1>2, <1>3, <1>4, <2>1 DEF PlatformCalls
<1>6. Plain(agenda) /\ Calm(agenda) /\ Plain(PlatformCalls)
  BY PlainShort, PlainIsCalm, PlainPlatform
<1>7. state'["onCordovaReady"] = state["onCordovaReady"] /\ state'["onNativeReady"] = state["onNativeReady"]
  BY <1>4, Names
<1>8. Maps'
  BY <1>4, <1>5, <1>7 DEF PluginsLoad, Maps, Loaded
<1>9. ~Joins'
  BY <1>7 DEF PluginsLoad, Joins
<1>10. \A d \in Loose : ~Begun(agenda', Rough!Do("fire", d))
  BY <1>5 DEF Begun, PlatformCalls, Rough!Do
<1>11. StageInv' /\ c # "onDOMContentLoaded"
  BY <1>8 DEF StageInv
<1> QED
  BY <1>1, <1>2, <1>3, <1>5, <1>6, <1>9, <1>10, <1>11, FireEarlyKept

LEMMA FireReadyKept ==
  ASSUME Rough!StartupAssumption, StartInv, Rough!Fire, Maps, agenda = ReadyFires
  PROVE  StartInv'
<1> DEFINE c == "onCordovaReady"
<1>1. c \in Rough!Sticky \ {"deviceready"} /\ c \notin Rough!Features
  BY Names, OwnNames
<1>2. Head(agenda) = Rough!Do("fire", c) /\ Tail(agenda) = DeviceJoins
  BY Heads
<1>3. ~Joins /\ handlers[c] = {"show"}
  BY Early DEF Maps
<1>4. /\ \A x : handlers[c] = {x} => agenda' = <<Rough!Do("call", x), Rough!Do("clear", c)>> \o Tail(agenda)
      /\ state'[c] = 2 /\ \A d \in Rough!Channels : d # c => state'[d] = state[d]
      /\ UNCHANGED <<handlers, domListeners, joins, deviceReadyChannelsArray, deviceReadyTimer, started,
                     readyState, pluginList, loading, loaded, initialized, shown, called, override>>
  BY <1>1, <1>2, FireFacts
<1>5. agenda' = ShowCalls
  <2>1. ShowCalls = <<Rough!Do("call", "show"), Rough!Do("clear", c)>> \o DeviceJoins
    BY DEF DeviceJoins, ShowCalls
  <2> QED
    BY <1>2, <1>3, <1>4, <2>1
<1>6. Plain(agenda) /\ Calm(agenda) /\ Plain(ShowCalls) /\ JoinsDevice(ShowCalls)
  BY PlainLong, PlainIsCalm DEF OpenScripts
<1>7. state'["onPluginsReady"] = state["onPluginsReady"] /\ state'["onNativeReady"] = state["onNativeReady"]
  BY <1>4, Names
<1>8. Opens'
  <2>1. joins.platform = 0
    <3>1. ReadyFires # PlatformCalls
      <4>1. Head(ReadyFires).step = "fire" /\ Head(PlatformCalls).step = "call"
        BY Heads DEF Rough!Do
      <4> QED
        BY <4>1
    <3> QED
      BY <3>1 DEF Maps
  <2> QED
    BY <1>3, <1>4, <1>5, <1>7, <2>1 DEF Maps, Opens, Loaded, OpenScripts
<1>9. ~Joins'
  BY <1>5, <1>6 DEF Joins, JoinsDevice
<1>10. \A d \in Loose : ~Begun(agenda', Rough!Do("fire", d))
  BY <1>5 DEF Begun, ShowCalls, Rough!Do
<1>11. StageInv' /\ c # "onDOMContentLoaded"
  BY <1>8 DEF StageInv
<1> QED
  BY <1>1, <1>2, <1>3, <1>5, <1>6, <1>9, <1>10, <1>11, FireEarlyKept

LEMMA UnfiredFinite ==
  ASSUME StartInv PROVE IsFiniteSet(Unfired) /\ Cardinality(Unfired) \in Nat
<1>1. Len(deviceReadyChannelsArray) \in Nat
  BY DEF StartInv, StartTypes
<1>2. IsFiniteSet(1..Len(deviceReadyChannelsArray))
  BY <1>1, FS_Interval
<1>3. Unfired \subseteq 1..Len(deviceReadyChannelsArray)
  BY DEF Unfired
<1>4. IsFiniteSet(Unfired)
  BY <1>2, <1>3, FS_Subset
<1> QED
  BY <1>4, FS_CardinalityType

(* The channel that fires is not waited for any more.                      *)
LEMMA FewerUnfired ==
  ASSUME StartInv, UNCHANGED deviceReadyChannelsArray, NEW c, state'[c] = 2,
         \A d \in Loose \cup {"onCordovaReady"} : d # c => state'[d] = state[d]
  PROVE  /\ Cardinality(Unfired') \in Nat /\ Cardinality(Unfired') <= Cardinality(Unfired)
         /\ state[c] # 2 /\ c \in Rough!ToSet(deviceReadyChannelsArray)
              => Cardinality(Unfired') + 1 <= Cardinality(Unfired)
<1>1. \A j \in 1..Len(deviceReadyChannelsArray) : deviceReadyChannelsArray[j] \in Loose \cup {"onCordovaReady"}
  BY DEF StartInv, StartTypes
<1>2. Unfired' \subseteq Unfired
  BY <1>1 DEF Unfired
<1>3. IsFiniteSet(Unfired) /\ Cardinality(Unfired) \in Nat
  BY UnfiredFinite
<1> DEFINE U == Unfired
           V == Unfired'
<1> HIDE DEF U, V
<1>4. IsFiniteSet(V) /\ Cardinality(V) <= Cardinality(U) /\ (Cardinality(U) = Cardinality(V) <=> U = V)
  BY <1>2, <1>3, FS_Subset DEF U, V
<1>5. Cardinality(V) \in Nat
  BY <1>4, FS_CardinalityType
<1>6. ASSUME state[c] # 2, c \in Rough!ToSet(deviceReadyChannelsArray) PROVE U # V
  <2>1. PICK j \in 1..Len(deviceReadyChannelsArray) : deviceReadyChannelsArray[j] = c
    <3>1. Rough!ToSet(deviceReadyChannelsArray) = {deviceReadyChannelsArray[j] : j \in DOMAIN deviceReadyChannelsArray}
      BY DEF Rough!ToSet
    <3>2. DOMAIN deviceReadyChannelsArray = 1..Len(deviceReadyChannelsArray)
      BY DEF StartInv, StartTypes
    <3> QED
      BY <1>6, <3>1, <3>2
  <2>2. j \in Unfired /\ j \notin Unfired'
    BY <1>6, <2>1 DEF Unfired
  <2> QED
    BY <2>2 DEF U, V
<1> QED
  BY <1>3, <1>4, <1>5, <1>6 DEF U, V

LEMMA FireOpenKept ==
  ASSUME Rough!StartupAssumption, StartInv, Rough!Fire, Opened, NEW c \in Loose, agenda = Fires(c)
  PROVE  StartInv'
<1>1. c \in Rough!Sticky \ {"deviceready"} /\ c # "onPluginsReady" /\ c # "onCordovaReady" /\ c # "onNativeReady"
      /\ c # "deviceready"
  BY Names, OwnNames
<1>2. Head(agenda) = Rough!Do("fire", c) /\ Tail(agenda) = <<>>
  BY Heads
<1>3. handlers[c] \subseteq {"device"}
  BY DEF StartInv, LooseInv
<1>4. /\ handlers[c] = {} => agenda' = <<Rough!Do("clear", c)>> \o Tail(agenda)
      /\ \A x : handlers[c] = {x} => agenda' = <<Rough!Do("call", x), Rough!Do("clear", c)>> \o Tail(agenda)
      /\ state' \in [Rough!Channels -> 0..2] /\ \A d \in Rough!Channels : state'[d] = 0 <=> d \notin Rough!Sticky
      /\ state'[c] = 2 /\ \A d \in Rough!Channels : d # c => state'[d] = state[d]
      /\ UNCHANGED <<handlers, domListeners, joins, deviceReadyChannelsArray, deviceReadyTimer, started,
                     readyState, pluginList, loading, loaded, initialized, shown, called, override>>
  BY <1>1, <1>2, FireFacts
<1>5. \/ handlers[c] = {} /\ agenda' = Clears(c)
      \/ handlers[c] = {"device"} /\ agenda' = Calls(c)
  <2>1. <<Rough!Do("clear", c)>> \o <<>> = <<Rough!Do("clear", c)>>
        /\ <<Rough!Do("call", "device"), Rough!Do("clear", c)>> \o <<>> = <<Rough!Do("call", "device"), Rough!Do("clear", c)>>
    BY ConcatEmptySeq
  <2>2. handlers[c] = {} \/ handlers[c] = {"device"}
    BY <1>3
  <2> QED
    BY <1>2, <1>4, <2>1, <2>2 DEF Clears, Calls
<1>6. /\ Calm(agenda) /\ DeviceCalls(agenda) = 0 /\ ~JoinsDevice(agenda)
      /\ Calm(Clears(c)) /\ DeviceCalls(Clears(c)) = 0 /\ ~JoinsDevice(Clears(c))
      /\ Calm(Calls(c)) /\ DeviceCalls(Calls(c)) = 1 /\ ~JoinsDevice(Calls(c))
  <2>1. Plain(Fires(c)) /\ ~JoinsDevice(Fires(c)) /\ Plain(Clears(c)) /\ ~JoinsDevice(Clears(c))
    BY <1>1, PlainShort
  <2>2. Calm(Calls(c)) /\ DeviceCalls(Calls(c)) = 1 /\ ~JoinsDevice(Calls(c))
    BY <1>1, CallsOne DEF Calm
  <2> QED
    BY <2>1, <2>2, PlainIsCalm
<1>7. /\ state'["onPluginsReady"] = state["onPluginsReady"] /\ state'["onCordovaReady"] = state["onCordovaReady"]
      /\ state'["onNativeReady"] = state["onNativeReady"] /\ state'["deviceready"] = state["deviceready"]
  BY <1>1, <1>4, Names
<1>8. Joins /\ Joins'
  BY <1>5, <1>6, <1>7 DEF Opened, Joins, JoinsDevice
<1>9. Opened'
  <2>1. Between(agenda')
    BY <1>5 DEF Between, LooseScripts
  <2> QED
    BY <1>4, <1>7, <2>1 DEF Opened, Loaded
<1>10. TimerInv' /\ PageInv' /\ ButtonInv'
  <2>1. Calm(agenda') /\ UNCHANGED <<domListeners, deviceReadyTimer, called, override, joins>>
        /\ handlers'["deviceready"] = handlers["deviceready"] /\ handlers'["backbutton"] = handlers["backbutton"]
    BY <1>4, <1>5, <1>6
  <2> QED
    BY <1>6, <1>7, <1>8, <2>1, CalmKept
<1>11. \A d \in Loose : state[d] = 2 => handlers[d] = {}
  <2>1. \A d : ~Ends(agenda, Rough!Do("clear", d))
    BY DEF Ends, Fires, Rough!Do
  <2> QED
    BY <2>1 DEF StartInv, LooseInv
<1>12. LooseInv'
  <2>1. Ends(agenda', Rough!Do("clear", c))
    BY <1>5 DEF Ends, Clears, Calls
  <2>2. ASSUME NEW d \in Loose, state'[d] = 2, handlers[d] # {} PROVE d = c
    <3>1. d \in Rough!Channels
      BY Names
    <3> QED
      BY <1>4, <1>11, <2>2, <3>1
  <2> QED
    BY <1>4, <1>8, <2>1, <2>2 DEF StartInv, LooseInv
<1>13. CountInv'
  <2>1. joins.device <= Len(deviceReadyChannelsArray) /\ Cardinality(Unfired) + 0 <= joins.device
    BY <1>6, <1>8 DEF StartInv, CountInv
  <2>2. Cardinality(Unfired) \in Nat /\ joins.device \in Nat
    BY UnfiredFinite DEF StartInv, StartTypes
  <2>3. /\ Cardinality(Unfired') \in Nat /\ Cardinality(Unfired') <= Cardinality(Unfired)
        /\ state[c] # 2 /\ c \in Rough!ToSet(deviceReadyChannelsArray)
             => Cardinality(Unfired') + 1 <= Cardinality(Unfired)
    <3>1. \A d \in Loose \cup {"onCordovaReady"} : d # c => state'[d] = state[d]
      BY <1>4, Names
    <3> QED
      BY <1>4, <3>1, FewerUnfired
  <2>4. CASE agenda' = Clears(c)
    <3>1. Cardinality(Unfired') + 0 <= joins.device
      BY <2>1, <2>2, <2>3
    <3> QED
      BY <1>4, <1>6, <1>8, <2>1, <2>4, <3>1 DEF CountInv
  <2>5. CASE handlers[c] = {"device"} /\ agenda' = Calls(c)
    <3>1. c \in Rough!ToSet(deviceReadyChannelsArray) /\ state[c] # 2
      BY <1>11, <2>5 DEF StartInv, LooseInv
    <3>2. Cardinality(Unfired') + 1 <= joins.device
      BY <2>1, <2>2, <2>3, <3>1
    <3> QED
      BY <1>4, <1>6, <1>8, <2>1, <2>5, <3>2 DEF CountInv
  <2> QED
    BY <1>5, <2>4, <2>5
<1>14. FiredInv'
  <2>1. Begun(agenda, Rough!Do("fire", c))
    BY DEF Begun, Fires
  <2>2. \A d : ~Begun(agenda', Rough!Do("fire", d))
    BY <1>5 DEF Begun, Clears, Calls, Rough!Do
  <2>3. ASSUME NEW d \in Loose, state'[d] = 2 PROVE state[d] = 2 \/ d = c
    BY <1>4, <2>3, Names
  <2>4. "onDOMContentLoaded" \in Loose /\ Rough!Features \subseteq Loose
    BY Names
  <2> QED
    BY <1>4, <2>1, <2>2, <2>3, <2>4 DEF StartInv, FiredInv
<1>15. StartTypes'
  BY <1>4 DEF StartInv, StartTypes
<1> QED
  BY <1>9, <1>10, <1>12, <1>13, <1>14, <1>15 DEF StartInv, StageInv

(* deviceready reaches the handlers of its channel.                        *)
LEMMA FireDeviceReadyKept ==
  ASSUME Rough!StartupAssumption, StartInv, Rough!Fire, Opened, agenda = <<Rough!Do("fire", "deviceready")>>
  PROVE  StartInv'
<1> DEFINE c == "deviceready"
           last == Rough!Do("clear", "deviceready")
           H == handlers["deviceready"]
<1>1. c \in Rough!Sticky
  BY Names
<1>2. Head(agenda) = Rough!Do("fire", c) /\ Tail(agenda) = <<>> /\ Len(agenda) = 1 /\ agenda[1] = Rough!Do("fire", c)
  OBVIOUS
<1>3. PICK seq \in Rough!SetToSeqs(H) : agenda' = CallsTo(seq) \o <<last>> \o Tail(agenda)
  BY <1>1, <1>2, FireFacts
<1>4. /\ state' \in [Rough!Channels -> 0..2] /\ \A d \in Rough!Channels : state'[d] = 0 <=> d \notin Rough!Sticky
      /\ state'[c] = 2 /\ \A d \in Rough!Channels : d # c => state'[d] = state[d]
      /\ UNCHANGED <<handlers, domListeners, joins, deviceReadyChannelsArray, deviceReadyTimer, started,
                     readyState, pluginList, loading, loaded, initialized, shown, called, override>>
  BY <1>1, <1>2, FireFacts
<1>5. H \subseteq PageHandlers /\ IsFiniteSet(H)
  BY FinitePages, FS_Subset DEF StartInv, PageInv
<1>6. last \notin PageSteps /\ \A h : Rough!Do("call", h) # last
  BY SameStep DEF PageSteps, Rough!Do
<1> HIDE DEF H, last
<1>7. PageScript(CallsTo(seq) \o <<last>>, last)
      /\ \A h : Has(CallsTo(seq) \o <<last>>, Rough!Do("call", h)) => h \in H
  BY <1>3, <1>5, <1>6, CallsToPages
<1>8. agenda' = CallsTo(seq) \o <<last>>
  <2>1. CallsTo(seq) \o <<last>> \in Seq(PageSteps \cup {last})
    BY <1>7 DEF PageScript, Script
  <2> QED
    BY <1>2, <1>3, <2>1, ConcatEmptySeq
<1>9. Tells(agenda') /\ \A h : Has(agenda', Rough!Do("call", h)) => h \in H
  BY <1>7, <1>8 DEF Tells, last
<1>10. /\ ~SetsTimer(agenda') /\ DeviceCalls(agenda') = 0 /\ ~JoinsDevice(agenda') /\ Ends(agenda', last)
       /\ \A d : d # "deviceready" => ~Begun(agenda', Rough!Do("fire", d)) /\ ~Ends(agenda', Rough!Do("clear", d))
  BY <1>9, PageOnes DEF Tells, last
<1>11. /\ Ends(agenda, Rough!Do("fire", c)) /\ ~SetsTimer(agenda) /\ DeviceCalls(agenda) = 0
       /\ \A d : ~Ends(agenda, Rough!Do("clear", d)) /\ ~Has(agenda, Rough!Do("call", d))
  BY <1>2 DEF Ends, SetsTimer, DeviceCalls, Begun, Has, Rough!Do
<1>12. Told /\ Joins /\ joins.device = 0 /\ ~deviceReadyTimer /\ state[c] = 1
  <2>1. Told
    BY <1>11 DEF Told
  <2> QED
    BY <1>11, <2>1 DEF StartInv, TimerInv, PageInv
<1>13. \A d \in Loose \cup {"onCordovaReady", "onPluginsReady", "onNativeReady"} : state'[d] = state[d]
  BY <1>4, Names, OwnNames
<1>14. Joins' /\ Told' /\ Unfired' = Unfired
  <2>1. \A j \in 1..Len(deviceReadyChannelsArray) : deviceReadyChannelsArray[j] \in Loose \cup {"onCordovaReady"}
    BY DEF StartInv, StartTypes
  <2>2. Unfired' = Unfired
    BY <1>4, <1>13, <2>1 DEF Unfired
  <2> QED
    BY <1>4, <1>10, <1>12, <1>13, <2>2 DEF Joins, Told, JoinsDevice
<1>15. Opened'
  BY <1>4, <1>9, <1>13 DEF Opened, Loaded
<1>16. LooseInv'
  BY <1>4, <1>11, <1>12, <1>13, <1>14 DEF StartInv, LooseInv
<1>17. CountInv'
  BY <1>4, <1>10, <1>11, <1>12, <1>14 DEF StartInv, CountInv
<1>18. TimerInv'
  BY <1>4, <1>10, <1>12, <1>14 DEF TimerInv
<1>19. FiredInv'
  <2>1. "onDOMContentLoaded" \in Loose /\ \A f \in Rough!Features : f \in Loose /\ f # "deviceready"
    BY Names, OwnNames
  <2> QED
    BY <1>4, <1>10, <1>13, <2>1 DEF StartInv, FiredInv
<1>20. PageInv' /\ ButtonInv'
  <2>1. ~Ends(agenda', Rough!Do("fire", "deviceready"))
    <3>1. last # Rough!Do("fire", "deviceready")
      BY DEF Rough!Do, last
    <3> QED
      BY <1>10, <3>1 DEF Ends
  <2>2. ASSUME NEW h \in PageHandlers, called[h] = 1 PROVE ~Has(agenda', Rough!Do("call", h))
    <3>1. h \in domListeners /\ h \notin H
      BY <1>12, <2>2 DEF StartInv, PageInv, H
    <3> QED
      BY <1>9, <3>1
  <2> QED
    BY <1>4, <1>14, <2>1, <2>2 DEF StartInv, PageInv, ButtonInv
<1>21. StartTypes'
  BY <1>4 DEF StartInv, StartTypes
<1> QED
  BY <1>15, <1>16, <1>17, <1>18, <1>19, <1>20, <1>21 DEF StartInv, StageInv

LEMMA FireKept == ASSUME Rough!StartupAssumption, StartInv, Rough!Fire PROVE StartInv'
<1>1. Rough!At("fire")
  BY DEF Rough!Fire
<1>2. CASE Begins /\ agenda[1] \in {Rough!Do("fire", "onDOMContentLoaded"), Rough!Do("fire", "onNativeReady")}
  <2>1. PICK c \in {"onDOMContentLoaded", "onNativeReady"} : agenda[1] = Rough!Do("fire", c)
    BY <1>2
  <2> QED
    BY <1>2, <2>1, FireInitKept
<1>3. CASE Somewhere /\ \E c \in Loose : agenda = Fires(c)
  <2>1. PICK c \in Loose : agenda = Fires(c)
    BY <1>3
  <2>2. CASE Opened
    BY <2>1, <2>2, FireOpenKept
  <2>3. CASE PluginsLoad \/ Broken
    BY <2>1, <2>3, FireLooseKept
  <2> QED
    BY <1>3, <2>2, <2>3 DEF Somewhere
<1>4. CASE PluginsLoad /\ agenda = Fires("onPluginsReady") /\ pluginList = "done" /\ loading = {}
  BY <1>4, FirePluginsKept
<1>5. CASE Maps /\ agenda = ReadyFires
  BY <1>5, FireReadyKept
<1>6. CASE Opened /\ agenda = <<Rough!Do("fire", "deviceready")>>
  BY <1>6, FireDeviceReadyKept
<1> QED
  BY <1>1, <1>2, <1>3, <1>4, <1>5, <1>6, FireShapes

(* A step of cordova/init that fires nothing.                              *)
LEMMA BeginsKept ==
  ASSUME Rough!StartupAssumption, StartInv, Begins, agenda' = Tail(agenda), agenda[1] \in InitSteps,
         \A c : agenda[1] # Rough!Do("fire", c), pluginList' \in {"none", "loading"},
         UNCHANGED <<state, domListeners, joins, deviceReadyChannelsArray, deviceReadyTimer, started,
                     readyState, loading, loaded, initialized, called, override>>,
         handlers' \in [Rough!Channels -> SUBSET (PageHandlers \cup {"platform", "device", "show"})],
         \A d \in Rough!Channels : d # "onCordovaReady" => handlers'[d] = handlers[d],
         handlers'["onCordovaReady"] \subseteq {"show"},
         "show" \in handlers["onCordovaReady"] \/ agenda[1] = Rough!Do("subscribe", "show")
           => "show" \in handlers'["onCordovaReady"]
  PROVE  StartInv'
<1> DEFINE last == Rough!Do("join", "platform")
<1>1. InitScript(agenda) /\ last \notin InitSteps
  BY NotInit, SameStep DEF InitSteps, Rough!Do
<1> HIDE DEF last
<1>2. /\ Script(Tail(agenda), InitSteps, last)
      /\ \A s : Has(agenda, s) <=> agenda[1] = s \/ Has(Tail(agenda), s)
  <2>1. Script(agenda, InitSteps, last) /\ agenda[1] # last
    BY <1>1 DEF InitScript, last
  <2> QED
    BY <1>1, <2>1, ScriptTail
<1>3. InitScript(agenda') /\ \A s : Has(agenda, s) <=> agenda[1] = s \/ Has(agenda', s)
  BY <1>2 DEF InitScript, last
<1>4. Plain(agenda') /\ Plain(agenda) /\ \A d : d \notin {"onDOMContentLoaded", "onNativeReady"} => ~Begun(agenda', Rough!Do("fire", d))
  BY <1>1, <1>3, PlainInit
<1>5. \A c : Has(agenda', Rough!Do("fire", c)) <=> Has(agenda, Rough!Do("fire", c))
  BY <1>3
<1>6. /\ \A d \in Loose : handlers'[d] = handlers[d]
      /\ handlers'["onPluginsReady"] = handlers["onPluginsReady"]
      /\ handlers'["onNativeReady"] = handlers["onNativeReady"]
      /\ handlers'["deviceready"] = handlers["deviceready"]
      /\ handlers'["backbutton"] = handlers["backbutton"]
  BY Names, OwnNames
<1>7. Begins'
  <2>1. Has(agenda', Rough!Do("subscribe", "show")) \/ "show" \in handlers'["onCordovaReady"]
    BY <1>3 DEF Begins
  <2> QED
    BY <1>3, <1>5, <1>6, <2>1 DEF Begins
<1>8. ~Joins /\ ~Joins'
  BY DEF Begins, Joins
<1>9. LooseInv' /\ CountInv'
  <2>1. DeviceCalls(agenda') = 0 /\ joins'.device = joins.device
        /\ deviceReadyChannelsArray' \in Seq(Loose \cup {"onCordovaReady"})
    BY <1>4 DEF Plain, StartInv, StartTypes
  <2> QED
    BY <1>6, <1>8, <2>1, EarlyKept
<1>10. TimerInv' /\ PageInv' /\ ButtonInv'
  BY <1>4, <1>6, <1>8, PlainIsCalm, CalmKept
<1>11. FiredInv'
  <2>1. Begun(agenda', Rough!Do("fire", "onDOMContentLoaded")) => Has(agenda', Rough!Do("fire", "onDOMContentLoaded"))
    <3>1. Len(agenda') > 0 /\ Len(agenda') \in Nat
      BY <1>3, PlainInit
    <3>2. 1 \in 1..Len(agenda')
      BY <3>1
    <3> QED
      BY <3>2 DEF Begun, Has
  <2>2. \A f \in Rough!Features : ~Begun(agenda', Rough!Do("fire", f))
    BY <1>4, OwnNames DEF Loose
  <2> QED
    BY <1>5, <2>1, <2>2 DEF StartInv, FiredInv, Begins
<1>12. StartTypes'
  BY <1>6 DEF StartInv, StartTypes, Begins
<1> QED
  BY <1>7, <1>9, <1>10, <1>11, <1>12 DEF StartInv, StageInv

LEMMA LoadKept == ASSUME Rough!StartupAssumption, StartInv, Rough!Load PROVE StartInv'
<1>1. Begins /\ agenda[1] = Rough!Do("load", "cordova_plugins.js")
  BY OtherShapes DEF Rough!Load, Rough!At, Rough!Idle
<1>2. /\ agenda' = Tail(agenda) /\ pluginList' = "loading"
      /\ UNCHANGED <<state, handlers, domListeners, joins, deviceReadyChannelsArray, deviceReadyTimer, started,
                     readyState, loading, loaded, initialized, called, override>>
  BY DEF Rough!Load, Rough!channel, Rough!effects
<1>3. agenda[1] \in InitSteps /\ \A c : agenda[1] # Rough!Do("fire", c)
  BY <1>1, SameStep DEF InitSteps
<1>4. handlers \in [Rough!Channels -> SUBSET (PageHandlers \cup {"platform", "device", "show"})]
      /\ handlers["onCordovaReady"] \subseteq {"show"}
  BY <1>1 DEF StartInv, StartTypes, Begins
<1>5. agenda[1] # Rough!Do("subscribe", "show")
  BY <1>1, SameStep
<1> QED
  BY <1>1, <1>2, <1>3, <1>4, <1>5, BeginsKept

LEMMA SubscribeShowKept == ASSUME Rough!StartupAssumption, StartInv, Rough!SubscribeShow PROVE StartInv'
<1>1. Begins /\ agenda[1] = Rough!Do("subscribe", "show")
  BY OtherShapes DEF Rough!SubscribeShow, Rough!At, Rough!Idle
<1>2. state["onCordovaReady"] = 1 /\ pluginList \in {"none", "loading"}
      /\ handlers["onCordovaReady"] \subseteq {"show"}
  BY <1>1 DEF Begins
<1>3. /\ agenda' = Tail(agenda)
      /\ handlers' = [handlers EXCEPT !["onCordovaReady"] = handlers["onCordovaReady"] \cup {"show"}]
      /\ UNCHANGED <<state, domListeners, joins, deviceReadyChannelsArray, deviceReadyTimer, started,
                     readyState, pluginList, loading, loaded, initialized, called, override>>
  BY <1>2 DEF Rough!SubscribeShow, Rough!Subscribe, Rough!browser, Rough!effects
<1>4. handlers \in [Rough!Channels -> SUBSET (PageHandlers \cup {"platform", "device", "show"})]
      /\ "onCordovaReady" \in Rough!Channels
  BY Names DEF StartInv, StartTypes
<1>5. /\ handlers' \in [Rough!Channels -> SUBSET (PageHandlers \cup {"platform", "device", "show"})]
      /\ \A d \in Rough!Channels : d # "onCordovaReady" => handlers'[d] = handlers[d]
      /\ handlers'["onCordovaReady"] = handlers["onCordovaReady"] \cup {"show"}
  BY <1>3, <1>4
<1>6. agenda[1] \in InitSteps /\ \A c : agenda[1] # Rough!Do("fire", c)
  BY <1>1, SameStep DEF InitSteps
<1> QED
  BY <1>1, <1>2, <1>3, <1>5, <1>6, BeginsKept

LEMMA ClearFacts ==
  ASSUME StartInv, Rough!Clear, NEW c \in Rough!Channels, Head(agenda) = Rough!Do("clear", c)
  PROVE  /\ agenda' = Tail(agenda)
         /\ handlers' \in [Rough!Channels -> SUBSET (PageHandlers \cup {"platform", "device", "show"})]
         /\ \A d \in Rough!Channels : d # c => handlers'[d] = handlers[d]
         /\ handlers'[c] \subseteq handlers[c] /\ (state[c] = 2 => handlers'[c] = {})
         /\ UNCHANGED <<state, domListeners, joins, deviceReadyChannelsArray, deviceReadyTimer, started,
                        readyState, pluginList, loading, loaded, initialized, shown, called, override>>
<1>1. Rough!Of = c
  BY DEF Rough!Of, Rough!Do
<1>2. handlers \in [Rough!Channels -> SUBSET (PageHandlers \cup {"platform", "device", "show"})]
  BY DEF StartInv, StartTypes
<1>3. handlers' = IF state[c] = 2 THEN [handlers EXCEPT ![c] = {}] ELSE handlers
  BY <1>1 DEF Rough!Clear
<1>4. CASE state[c] = 2
  BY <1>2, <1>3, <1>4 DEF Rough!Clear, Rough!browser, Rough!effects
<1>5. CASE state[c] # 2
  BY <1>2, <1>3, <1>5 DEF Rough!Clear, Rough!browser, Rough!effects
<1> QED
  BY <1>4, <1>5

(* The end of a script, or of a part of it, clears nothing that is needed. *)
LEMMA ClearInitKept ==
  ASSUME Rough!StartupAssumption, StartInv, Rough!Clear, Begins,
         NEW c \in {"onDOMContentLoaded", "onNativeReady"}, agenda[1] = Rough!Do("clear", c)
  PROVE  StartInv'
<1>1. c \in Rough!Channels /\ c # "onCordovaReady"
  BY Names
<1>2. Head(agenda) = Rough!Do("clear", c)
  BY NotInit
<1>3. /\ agenda' = Tail(agenda)
      /\ handlers' \in [Rough!Channels -> SUBSET (PageHandlers \cup {"platform", "device", "show"})]
      /\ \A d \in Rough!Channels : d # c => handlers'[d] = handlers[d]
      /\ handlers'[c] \subseteq handlers[c]
      /\ UNCHANGED <<state, domListeners, joins, deviceReadyChannelsArray, deviceReadyTimer, started,
                     readyState, pluginList, loading, loaded, initialized, shown, called, override>>
  BY <1>1, <1>2, ClearFacts
<1>4. handlers[c] = {}
  BY Early DEF StartInv, StartTypes, Loose
<1>5. \A d \in Rough!Channels : handlers'[d] = handlers[d]
  BY <1>3, <1>4
<1>6. agenda[1] \in InitSteps /\ \A d : agenda[1] # Rough!Do("fire", d)
  BY SameStep DEF InitSteps
<1>7. agenda[1] # Rough!Do("subscribe", "show")
  BY SameStep
<1>8. handlers'["onCordovaReady"] = handlers["onCordovaReady"]
  BY <1>5, Names
<1> QED
  BY <1>3, <1>5, <1>6, <1>7, <1>8, BeginsKept DEF Begins

LEMMA ClearOpensKept ==
  ASSUME Rough!StartupAssumption, StartInv, Rough!Clear, Opens, agenda = ReadyClears
  PROVE  StartInv'
<1> DEFINE c == "onCordovaReady"
<1>1. c \in Rough!Channels /\ Head(agenda) = Rough!Do("clear", c) /\ Tail(agenda) = DeviceJoins
  BY Names, Heads
<1>2. /\ agenda' = DeviceJoins
      /\ handlers' \in [Rough!Channels -> SUBSET (PageHandlers \cup {"platform", "device", "show"})]
      /\ \A d \in Rough!Channels : d # c => handlers'[d] = handlers[d]
      /\ handlers'[c] \subseteq handlers[c]
      /\ UNCHANGED <<state, domListeners, joins, deviceReadyChannelsArray, deviceReadyTimer, started,
                     readyState, pluginList, loading, loaded, initialized, shown, called, override>>
  BY <1>1, ClearFacts
<1>3. /\ \A d \in Loose : handlers'[d] = handlers[d]
      /\ handlers'["onNativeReady"] = handlers["onNativeReady"]
      /\ handlers'["deviceready"] = handlers["deviceready"]
      /\ handlers'["backbutton"] = handlers["backbutton"]
  BY <1>2, Names, OwnNames
<1>4. Plain(agenda) /\ Plain(agenda') /\ JoinsDevice(agenda') /\ ReadyClears # ShowCalls
  BY <1>2, PlainLong, Heads, SameStep DEF OpenScripts
<1>5. Opens'
  BY <1>2, <1>4 DEF Opens, OpenScripts, Loaded
<1>6. ~Joins /\ ~Joins'
  BY <1>4, Early DEF Joins, JoinsDevice
<1>7. LooseInv' /\ CountInv'
  <2>1. DeviceCalls(agenda') = 0 /\ joins'.device = joins.device
        /\ deviceReadyChannelsArray' \in Seq(Loose \cup {"onCordovaReady"})
    BY <1>2, <1>4 DEF Plain, StartInv, StartTypes
  <2> QED
    BY <1>3, <1>6, <2>1, EarlyKept
<1>8. TimerInv' /\ PageInv' /\ ButtonInv'
  BY <1>2, <1>3, <1>4, <1>6, PlainIsCalm, CalmKept
<1>9. FiredInv'
  <2>1. \A d : ~Begun(agenda', Rough!Do("fire", d))
    BY <1>2 DEF Begun, DeviceJoins, Rough!Do
  <2> QED
    BY <1>2, <2>1 DEF StartInv, FiredInv
<1>10. StartTypes'
  BY <1>2, <1>3 DEF StartInv, StartTypes
<1> QED
  BY <1>5, <1>7, <1>8, <1>9, <1>10 DEF StartInv, StageInv

LEMMA ClearLastKept ==
  ASSUME Rough!StartupAssumption, StartInv, Rough!Clear, NEW c, agenda = <<Rough!Do("clear", c)>>,
         \/ (PluginsLoad \/ Broken) /\ c \in Loose
         \/ Opened /\ c \in Loose \cup {"onPluginsReady", "deviceready"}
  PROVE  StartInv'
<1>1. c \in Rough!Channels /\ Head(agenda) = Rough!Do("clear", c) /\ Tail(agenda) = <<>>
      /\ c # "onNativeReady" /\ c # "backbutton" /\ c # "onCordovaReady"
  BY Names, OwnNames
<1>2. /\ agenda' = <<>>
      /\ handlers' \in [Rough!Channels -> SUBSET (PageHandlers \cup {"platform", "device", "show"})]
      /\ \A d \in Rough!Channels : d # c => handlers'[d] = handlers[d]
      /\ handlers'[c] \subseteq handlers[c] /\ (state[c] = 2 => handlers'[c] = {})
      /\ UNCHANGED <<state, domListeners, joins, deviceReadyChannelsArray, deviceReadyTimer, started,
                     readyState, pluginList, loading, loaded, initialized, shown, called, override>>
  BY <1>1, ClearFacts
<1>3. /\ handlers'["onNativeReady"] = handlers["onNativeReady"]
      /\ handlers'["onCordovaReady"] = handlers["onCordovaReady"]
      /\ handlers'["backbutton"] = handlers["backbutton"]
      /\ \A d \in Rough!Channels : handlers'[d] \subseteq handlers[d]
  BY <1>1, <1>2, Names
<1>4. /\ ~SetsTimer(agenda) /\ DeviceCalls(agenda) = 0 /\ ~JoinsDevice(agenda)
      /\ ~Ends(agenda, Rough!Do("fire", "deviceready"))
      /\ \A h : ~Has(agenda, Rough!Do("call", h))
      /\ \A d : Ends(agenda, Rough!Do("clear", d)) => d = c
  BY DEF SetsTimer, DeviceCalls, Begun, Ends, Has, JoinsDevice, Rough!Do
<1>5. /\ ~SetsTimer(agenda') /\ DeviceCalls(agenda') = 0 /\ ~JoinsDevice(agenda')
      /\ \A step : ~Ends(agenda', step) /\ ~Has(agenda', step) /\ ~Begun(agenda', step)
  BY <1>2 DEF SetsTimer, DeviceCalls, Begun, Ends, Has, JoinsDevice
<1>6. Joins' = Joins /\ Told' = Told /\ Unfired' = Unfired
  BY <1>2, <1>4, <1>5 DEF Joins, JoinsDevice, Told, Unfired
<1>7. LooseInv'
  <2>1. ASSUME NEW d \in Loose, state[d] = 2 PROVE handlers'[d] = {}
    <3>1. d \in Rough!Channels
      BY Names
    <3>2. CASE d = c
      BY <1>2, <2>1, <3>2
    <3>3. CASE d # c
      BY <1>2, <1>4, <2>1, <3>1, <3>3 DEF StartInv, LooseInv
    <3> QED
      BY <3>2, <3>3
  <2> QED
    BY <1>2, <1>3, <1>6, <2>1, Names DEF StartInv, LooseInv
<1>8. CountInv' /\ TimerInv' /\ FiredInv'
  BY <1>2, <1>4, <1>5, <1>6 DEF StartInv, CountInv, TimerInv, FiredInv
<1>9. PageInv' /\ ButtonInv'
  <2>1. handlers'["deviceready"] \subseteq handlers["deviceready"]
    BY <1>3, Names
  <2> QED
    BY <1>2, <1>3, <1>4, <1>5, <1>6, <2>1 DEF StartInv, PageInv, ButtonInv
<1>10. StartTypes'
  BY <1>2, <1>3 DEF StartInv, StartTypes
<1>11. (PluginsLoad \/ Broken \/ Opened)'
  <2>1. Between(agenda')
    BY <1>2 DEF Between
  <2>2. CASE (PluginsLoad \/ Broken) /\ c \in Loose
    <3>1. handlers'["onPluginsReady"] = handlers["onPluginsReady"]
      BY <1>2, <2>2, Names, OwnNames
    <3> QED
      BY <1>2, <1>3, <2>1, <2>2, <3>1 DEF PluginsLoad, Broken, Loaded
  <2>3. CASE Opened
    BY <1>2, <2>1, <2>3 DEF Opened, Loaded
  <2> QED
    BY <2>2, <2>3
<1> QED
  BY <1>7, <1>8, <1>9, <1>10, <1>11 DEF StartInv, StageInv

LEMMA ClearKept == ASSUME Rough!StartupAssumption, StartInv, Rough!Clear PROVE StartInv'
<1>1. Rough!At("clear")
  BY DEF Rough!Clear
<1>2. CASE Begins /\ agenda[1] \in {Rough!Do("clear", "onDOMContentLoaded"), Rough!Do("clear", "onNativeReady")}
  <2>1. PICK c \in {"onDOMContentLoaded", "onNativeReady"} : agenda[1] = Rough!Do("clear", c)
    BY <1>2
  <2> QED
    BY <1>2, <2>1, ClearInitKept
<1>3. CASE Somewhere /\ \E c \in Loose : agenda = Clears(c)
  BY <1>3, ClearLastKept DEF Somewhere, Clears
<1>4. CASE Opens /\ agenda = ReadyClears
  BY <1>4, ClearOpensKept
<1>5. CASE Opened /\ agenda = Clears("onPluginsReady")
  BY <1>5, ClearLastKept DEF Clears
<1>6. CASE Opened /\ agenda = <<Rough!Do("clear", "deviceready")>>
  BY <1>6, ClearLastKept
<1> QED
  BY <1>1, <1>2, <1>3, <1>4, <1>5, <1>6, ClearShapes

-----------------------------------------------------------------------------
(* Handlers of the channels: the web view, the page, the joins.            *)
LEMMA CallShowKept == ASSUME Rough!StartupAssumption, StartInv, Rough!CallShow PROVE StartInv'
<1>1. Opens /\ agenda = ShowCalls
  <2>1. Rough!At("call") /\ Rough!Of = "show"
    BY DEF Rough!CallShow
  <2> QED
    BY <2>1, CallShapes, OwnNames
<1>2. /\ agenda' = ReadyClears /\ shown'
      /\ UNCHANGED <<state, handlers, domListeners, joins, deviceReadyChannelsArray, deviceReadyTimer, started,
                     readyState, pluginList, loading, loaded, initialized, called, override>>
  BY <1>1, Heads DEF Rough!CallShow, Rough!channel, Rough!browser
<1>3. Plain(agenda) /\ Plain(agenda') /\ JoinsDevice(agenda')
  BY <1>1, <1>2, PlainLong DEF OpenScripts
<1>4. Opens'
  BY <1>1, <1>2 DEF Opens, OpenScripts, Loaded
<1>5. ~Joins /\ ~Joins'
  BY <1>1, <1>3, Early DEF Joins, JoinsDevice
<1>6. LooseInv' /\ CountInv'
  <2>1. DeviceCalls(agenda') = 0 /\ joins'.device = joins.device
        /\ deviceReadyChannelsArray' \in Seq(Loose \cup {"onCordovaReady"})
    BY <1>2, <1>3 DEF Plain, StartInv, StartTypes
  <2> QED
    BY <1>2, <1>5, <2>1, EarlyKept
<1>7. TimerInv' /\ PageInv' /\ ButtonInv'
  BY <1>2, <1>3, <1>5, PlainIsCalm, CalmKept
<1>8. FiredInv'
  <2>1. \A d : ~Begun(agenda', Rough!Do("fire", d))
    BY <1>2 DEF Begun, ReadyClears, Rough!Do
  <2> QED
    BY <1>2, <2>1 DEF StartInv, FiredInv
<1>9. StartTypes'
  BY <1>2 DEF StartInv, StartTypes
<1> QED
  BY <1>4, <1>6, <1>7, <1>8, <1>9 DEF StartInv, StageInv

LEMMA PageTail ==
  ASSUME NEW a, NEW last, PageScript(a, last), last \notin PageSteps, a[1] # last
  PROVE  /\ PageScript(Tail(a), last) /\ ~Has(Tail(a), a[1]) /\ Ends(a, last) /\ Ends(Tail(a), last)
         /\ \A step : Has(a, step) <=> a[1] = step \/ Has(Tail(a), step)
<1>1. Script(a, PageSteps, last) /\ \A i, j \in 1..(Len(a) - 1) : i # j => a[i] # a[j]
  BY DEF PageScript
<1>2. /\ Script(Tail(a), PageSteps, last) /\ a[1] \in PageSteps
      /\ \A step : Has(a, step) <=> a[1] = step \/ Has(Tail(a), step)
      /\ Len(Tail(a)) = Len(a) - 1 /\ Len(a) \in Nat
      /\ \A i \in 1..(Len(a) - 1) : Tail(a)[i] = a[i + 1]
  BY <1>1, ScriptTail
<1>3. Len(Tail(a)) > 0 /\ Tail(a)[Len(Tail(a))] = last /\ Len(a) > 0 /\ a[Len(a)] = last
  BY <1>1, <1>2 DEF Script
<1> DEFINE b == Tail(a)
<1> HIDE DEF b
<1>4. /\ Len(b) = Len(a) - 1 /\ Len(b) > 0 /\ b[Len(b)] = last
      /\ \A i \in 1..(Len(a) - 1) : b[i] = a[i + 1]
  BY <1>2, <1>3 DEF b
<1>5. ASSUME NEW i \in 1..(Len(b) - 1), NEW j \in 1..(Len(b) - 1), i # j PROVE b[i] # b[j]
  <2>1. i + 1 \in 1..(Len(a) - 1) /\ j + 1 \in 1..(Len(a) - 1) /\ i \in 1..(Len(a) - 1)
        /\ j \in 1..(Len(a) - 1) /\ i + 1 # j + 1
    BY <1>2, <1>4, <1>5
  <2> QED
    BY <1>1, <1>4, <2>1
<1>6. ASSUME NEW i \in 1..Len(b) PROVE b[i] # a[1]
  <2>1. CASE i = Len(b)
    BY <1>4, <2>1
  <2>2. CASE i # Len(b)
    <3>1. i + 1 \in 1..(Len(a) - 1) /\ i \in 1..(Len(a) - 1) /\ 1 \in 1..(Len(a) - 1) /\ i + 1 # 1
      BY <1>2, <1>4, <2>2
    <3> QED
      BY <1>1, <1>4, <3>1
  <2> QED
    BY <2>1, <2>2
<1>7. PageScript(b, last)
  BY <1>2, <1>5 DEF PageScript, b
<1>8. ~Has(b, a[1]) /\ Ends(b, last) /\ Ends(a, last)
  BY <1>3, <1>4, <1>6 DEF Has, Ends
<1> QED
  BY <1>2, <1>7, <1>8 DEF b

LEMMA CallPageKept == ASSUME Rough!StartupAssumption, StartInv, Rough!CallPage PROVE StartInv'
<1> DEFINE h == Rough!Of
<1>1. /\ h \in PageHandlers /\ Opened /\ Head(agenda) = Rough!Do("call", h)
      /\ Dispatches(agenda) \/ Tells(agenda) \/ TellsLate(agenda)
  BY CallShapes, OwnNames DEF Rough!CallPage
<1>2. /\ agenda' = Tail(agenda) /\ called' = [called EXCEPT ![h] = called[h] + 1]
      /\ UNCHANGED <<state, handlers, domListeners, joins, deviceReadyChannelsArray, deviceReadyTimer, started,
                     readyState, pluginList, loading, loaded, initialized, shown, override>>
  BY DEF Rough!CallPage, Rough!channel, Rough!browser
<1> HIDE DEF h
<1>3. /\ Has(agenda, Rough!Do("call", h)) /\ ~Has(agenda', Rough!Do("call", h))
      /\ \A g : Has(agenda', Rough!Do("call", g)) => Has(agenda, Rough!Do("call", g))
      /\ \A step \in {"fire", "clear"} : Ends(agenda', Rough!Do(step, "deviceready")) <=> Ends(agenda, Rough!Do(step, "deviceready"))
      /\ (Dispatches(agenda') \/ Tells(agenda') \/ agenda' = <<>>)
      /\ ~SetsTimer(agenda) /\ DeviceCalls(agenda) = 0 /\ ~JoinsDevice(agenda)
      /\ \A d : d # "deviceready" => ~Ends(agenda, Rough!Do("clear", d))
  <2>1. ASSUME NEW step \in {"fire", "clear"}, PageScript(agenda, Rough!Do(step, "deviceready"))
        PROVE  /\ PageScript(agenda', Rough!Do(step, "deviceready"))
               /\ Has(agenda, Rough!Do("call", h)) /\ ~Has(agenda', Rough!Do("call", h))
               /\ \A g : Has(agenda', Rough!Do("call", g)) => Has(agenda, Rough!Do("call", g))
               /\ \A s : Ends(agenda', Rough!Do(s, "deviceready")) <=> Ends(agenda, Rough!Do(s, "deviceready"))
    <3> DEFINE last == Rough!Do(step, "deviceready")
    <3>1. last \notin PageSteps /\ Head(agenda) = agenda[1]
      BY <2>1, PageHead
    <3>2. Rough!Do("call", h) # last
      BY SameStep
    <3> HIDE DEF last
    <3>3. agenda[1] = Rough!Do("call", h) /\ agenda[1] # last
      BY <1>1, <3>1, <3>2
    <3>4. /\ PageScript(Tail(agenda), last) /\ ~Has(Tail(agenda), agenda[1])
          /\ Ends(agenda, last) /\ Ends(Tail(agenda), last)
          /\ \A s : Has(agenda, s) <=> agenda[1] = s \/ Has(Tail(agenda), s)
      BY <2>1, <3>1, <3>3, PageTail DEF last
    <3> QED
      BY <1>2, <3>3, <3>4 DEF last, Ends
  <2>2. CASE Dispatches(agenda)
    <3>1. ~SetsTimer(agenda) /\ DeviceCalls(agenda) = 0 /\ ~JoinsDevice(agenda)
          /\ \A d : d # "deviceready" => ~Ends(agenda, Rough!Do("clear", d))
      BY <2>2, PageOnes DEF Dispatches
    <3> QED
      BY <2>1, <2>2, <3>1 DEF Dispatches
  <2>3. CASE Tells(agenda)
    <3>1. ~SetsTimer(agenda) /\ DeviceCalls(agenda) = 0 /\ ~JoinsDevice(agenda)
          /\ \A d : d # "deviceready" => ~Ends(agenda, Rough!Do("clear", d))
      BY <2>3, PageOnes DEF Tells
    <3> QED
      BY <2>1, <2>3, <3>1 DEF Tells
  <2>4. CASE TellsLate(agenda)
    <3>1. agenda = <<Rough!Do("call", h)>> /\ agenda' = <<>>
      BY <1>1, <1>2, <2>4, SameStep DEF TellsLate
    <3>2. /\ ~SetsTimer(agenda) /\ DeviceCalls(agenda) = 0 /\ ~JoinsDevice(agenda) /\ NotReady(agenda)
          /\ \A d : ~Ends(agenda, Rough!Do("clear", d))
      BY <1>1, <3>1, LateOnes
    <3>3. Has(agenda, Rough!Do("call", h)) /\ \A s : ~Has(agenda', s) /\ ~Ends(agenda', s)
      BY <3>1 DEF Has, Ends
    <3> QED
      BY <3>1, <3>2, <3>3 DEF NotReady
  <2> QED
    BY <1>1, <2>2, <2>3, <2>4
<1>4. /\ ~SetsTimer(agenda') /\ DeviceCalls(agenda') = 0 /\ ~JoinsDevice(agenda')
      /\ \A d : d # "deviceready" => ~Begun(agenda', Rough!Do("fire", d))
  <2>1. CASE Dispatches(agenda')
    BY <2>1, PageOnes DEF Dispatches
  <2>2. CASE Tells(agenda')
    BY <2>2, PageOnes DEF Tells
  <2>3. CASE agenda' = <<>>
    BY <2>3 DEF SetsTimer, DeviceCalls, JoinsDevice, Begun, Has
  <2> QED
    BY <1>3, <2>1, <2>2, <2>3
<1>5. Joins' = Joins /\ Told' = Told /\ Unfired' = Unfired /\ Told
  <2>1. Told
    BY <1>1, <1>3 DEF StartInv, PageInv
  <2> QED
    BY <1>2, <1>3, <1>4, <2>1 DEF Joins, JoinsDevice, Told, Unfired
<1>6. called[h] = 0 /\ called' \in [PageHandlers -> Nat] /\ called'[h] = 1
      /\ \A g \in PageHandlers : g # h => called'[g] = called[g]
  <2>1. called \in [PageHandlers -> Nat] /\ called[h] \in 0..1 /\ called[h] # 1
    BY <1>1, <1>3 DEF StartInv, StartTypes, PageInv
  <2> QED
    BY <1>1, <1>2, <2>1
<1>7. Opened'
  <2>1. (Between(agenda) \/ Dispatches(agenda) \/ Tells(agenda) \/ TellsLate(agenda))'
    BY <1>3 DEF Between
  <2> QED
    BY <1>1, <1>2, <2>1 DEF Opened, Loaded
<1>8. LooseInv'
  <2>1. \A d \in Loose : d # "deviceready"
    BY OwnNames
  <2> QED
    BY <1>2, <1>3, <1>5, <2>1 DEF StartInv, LooseInv
<1>9. CountInv' /\ TimerInv'
  BY <1>2, <1>3, <1>4, <1>5 DEF StartInv, CountInv, TimerInv
<1>10. FiredInv'
  <2>1. \A f \in Rough!Features : f # "deviceready"
    BY OwnNames DEF Loose
  <2> QED
    BY <1>2, <1>4, <2>1 DEF StartInv, FiredInv
<1>11. PageInv' /\ ButtonInv'
  <2>1. ASSUME NEW g \in PageHandlers
        PROVE  /\ called'[g] \in 0..1 /\ (called'[g] = 1 => Told' /\ ~Has(agenda', Rough!Do("call", g)))
               /\ (state["deviceready"] = 1 /\ (called'[g] = 1 \/ Has(agenda', Rough!Do("call", g))) => g \in domListeners)
               /\ (Has(agenda', Rough!Do("call", g)) => Told')
    <3>1. CASE g = h
      BY <1>1, <1>3, <1>5, <1>6, <3>1 DEF StartInv, PageInv
    <3>2. CASE g # h
      BY <1>3, <1>5, <1>6, <3>2 DEF StartInv, PageInv
    <3> QED
      BY <3>1, <3>2
  <2> QED
    BY <1>2, <1>3, <2>1 DEF StartInv, PageInv, ButtonInv
<1>12. StartTypes'
  BY <1>2, <1>6 DEF StartInv, StartTypes
<1> QED
  BY <1>7, <1>8, <1>9, <1>10, <1>11, <1>12 DEF StartInv, StageInv

LEMMA FireDocumentEventKept == ASSUME Rough!StartupAssumption, StartInv, Rough!FireDocumentEvent PROVE StartInv'
<1>1. agenda # <<>> /\ Head(agenda).step = "fireDocumentEvent"
  BY DEF Rough!FireDocumentEvent, Rough!At, Rough!Idle
<1>2. PICK c \in Loose \cup {"onPluginsReady"} : agenda = Sets(c)
  BY <1>1, OtherShapes
<1>3. /\ agenda' = Clears(c) /\ deviceReadyTimer'
      /\ UNCHANGED <<state, handlers, domListeners, joins, deviceReadyChannelsArray, started,
                     readyState, pluginList, loading, loaded, initialized, shown, called, override>>
  BY <1>2, Heads DEF Rough!FireDocumentEvent, Rough!channel, Rough!browser, Rough!effects
<1>4. c # "deviceready"
  BY OwnNames
<1>5. /\ SetsTimer(agenda) /\ DeviceCalls(agenda) = 0 /\ Calm(agenda') /\ DeviceCalls(agenda') = 0
      /\ NotReady(agenda) /\ NoPageCalls(agenda) /\ ~JoinsDevice(agenda) /\ ~JoinsDevice(agenda')
      /\ \A d : Ends(agenda, Rough!Do("clear", d)) <=> Ends(agenda', Rough!Do("clear", d))
      /\ \A d : ~Begun(agenda', Rough!Do("fire", d))
  <2>1. /\ SetsTimer(agenda) /\ DeviceCalls(agenda) = 0 /\ NotReady(agenda) /\ NoPageCalls(agenda)
        /\ ~JoinsDevice(agenda)
    BY <1>2, <1>4, SetsOne
  <2>2. Calm(agenda') /\ DeviceCalls(agenda') = 0 /\ ~JoinsDevice(agenda')
    BY <1>3, <1>4, PlainShort, PlainIsCalm
  <2>3. \A d : ~Begun(agenda', Rough!Do("fire", d)) /\ (Ends(agenda, Rough!Do("clear", d)) <=> Ends(agenda', Rough!Do("clear", d)))
    BY <1>2, <1>3 DEF Begun, Ends, Sets, Clears, Rough!Do
  <2> QED
    BY <2>1, <2>2, <2>3
<1>6. Joins /\ joins.device = 0 /\ ~Told
  BY <1>5 DEF StartInv, TimerInv
<1>7. Opened
  BY <1>6, Early DEF StartInv, StageInv
<1>8. Joins' /\ ~Told' /\ Unfired' = Unfired
  BY <1>3, <1>5, <1>6 DEF Joins, JoinsDevice, Told, Unfired, Calm, NotReady
<1>9. Opened'
  <2>1. Between(agenda') \/ agenda' \in {Sets("onPluginsReady"), Clears("onPluginsReady")}
    BY <1>3 DEF Between, LooseScripts
  <2> QED
    BY <1>3, <1>7, <2>1 DEF Opened, Loaded
<1>10. LooseInv' /\ CountInv' /\ FiredInv'
  BY <1>3, <1>5, <1>6, <1>8 DEF StartInv, LooseInv, CountInv, FiredInv
<1>11. TimerInv'
  BY <1>3, <1>5, <1>6, <1>8 DEF TimerInv, Calm
<1>12. PageInv' /\ ButtonInv'
  BY <1>3, <1>5, <1>6, <1>8 DEF StartInv, PageInv, ButtonInv, Calm, NotReady, NoPageCalls
<1>13. StartTypes'
  BY <1>3 DEF StartInv, StartTypes
<1> QED
  BY <1>9, <1>10, <1>11, <1>12, <1>13 DEF StartInv, StageInv

(* A channel of the device calls its join.                                 *)
LEMMA CallDeviceKept ==
  ASSUME Rough!StartupAssumption, StartInv, Rough!CallJoin, Rough!Of = "device", NEW c \in Loose, agenda = Calls(c)
  PROVE  StartInv'
<1>1. c # "deviceready"
  BY OwnNames
<1>2. /\ ~SetsTimer(agenda) /\ DeviceCalls(agenda) = 1 /\ Calm(agenda) /\ ~JoinsDevice(agenda)
      /\ \A d : Ends(agenda, Rough!Do("clear", d)) <=> d = c
  <2>1. \A d : Ends(agenda, Rough!Do("clear", d)) <=> d = c
    BY DEF Ends, Calls, Rough!Do
  <2> QED
    BY <1>1, <2>1, CallsOne DEF Calm
<1>3. Joins /\ Opened
  <2>1. Joins
    BY <1>2 DEF StartInv, CountInv
  <2> QED
    BY <2>1, Early DEF StartInv, StageInv
<1>4. /\ joins \in [platform : 0..1, device : Nat] /\ Cardinality(Unfired) \in Nat
      /\ Cardinality(Unfired) + 1 <= joins.device /\ joins.device <= Len(deviceReadyChannelsArray)
  BY <1>2, <1>3, UnfiredFinite DEF StartInv, CountInv, StartTypes
<1>5. /\ joins' = [joins EXCEPT !["device"] = joins["device"] - 1]
      /\ agenda' = IF joins["device"] = 1 THEN Rough!Joined("device") \o Tail(agenda) ELSE Tail(agenda)
      /\ UNCHANGED <<state, handlers, domListeners, deviceReadyChannelsArray, deviceReadyTimer, started,
                     readyState, pluginList, loading, loaded, initialized, shown, called, override>>
  BY DEF Rough!CallJoin, Rough!channel, Rough!browser, Rough!effects
<1>6. /\ joins' \in [platform : 0..1, device : Nat] /\ joins'.device = joins.device - 1
      /\ joins'.platform = joins.platform /\ joins.device > 0
  BY <1>4, <1>5
<1>7. \/ joins.device = 1 /\ agenda' = Sets(c)
      \/ agenda' = Clears(c)
  <2>1. Tail(agenda) = Clears(c)
    BY Heads
  <2>2. Rough!Joined("device") = <<Rough!Do("fireDocumentEvent", "deviceready")>>
    BY DEF Rough!Joined
  <2>3. <<Rough!Do("fireDocumentEvent", "deviceready")>> \o Clears(c) = Sets(c)
    BY TwoSteps DEF Clears, Sets
  <2> QED
    BY <1>5, <2>1, <2>2, <2>3
<1>8. /\ DeviceCalls(agenda') = 0 /\ ~JoinsDevice(agenda') /\ NotReady(agenda') /\ NoPageCalls(agenda')
      /\ \A d : Ends(agenda', Rough!Do("clear", d)) <=> d = c
      /\ \A d : ~Begun(agenda', Rough!Do("fire", d))
      /\ SetsTimer(agenda') => joins'.device = 0
  <2>1. CASE joins.device = 1 /\ agenda' = Sets(c)
    <3>1. \A d : ~Begun(agenda', Rough!Do("fire", d)) /\ (Ends(agenda', Rough!Do("clear", d)) <=> d = c)
      BY <2>1 DEF Begun, Ends, Sets, Rough!Do
    <3> QED
      BY <1>1, <1>6, <2>1, <3>1, SetsOne
  <2>2. CASE agenda' = Clears(c)
    <3>1. \A d : ~Begun(agenda', Rough!Do("fire", d)) /\ (Ends(agenda', Rough!Do("clear", d)) <=> d = c)
      BY <2>2 DEF Begun, Ends, Clears, Rough!Do
    <3> QED
      BY <1>1, <2>2, <3>1, PlainShort, PlainIsCalm DEF Calm
  <2> QED
    BY <1>7, <2>1, <2>2
<1>9. ~Told /\ ~deviceReadyTimer
  BY <1>3, <1>4 DEF StartInv, TimerInv
<1>10. Joins' /\ ~Told' /\ Unfired' = Unfired
  BY <1>3, <1>5, <1>8, <1>9 DEF Joins, JoinsDevice, Told, Unfired, NotReady
<1>11. Opened'
  <2>1. Between(agenda')
    BY <1>7 DEF Between, LooseScripts
  <2> QED
    BY <1>3, <1>5, <1>6, <2>1 DEF Opened, Loaded
<1>12. LooseInv' /\ FiredInv'
  BY <1>2, <1>3, <1>5, <1>8, <1>10 DEF StartInv, LooseInv, FiredInv
<1>13. CountInv'
  <2>1. Cardinality(Unfired) + 0 <= joins'.device /\ joins'.device <= Len(deviceReadyChannelsArray)
    <3>1. Len(deviceReadyChannelsArray) \in Nat /\ joins.device \in Nat
      BY <1>4 DEF StartInv, StartTypes
    <3> QED
      BY <1>4, <1>6, <3>1
  <2> QED
    BY <1>5, <1>8, <1>10, <2>1 DEF CountInv
<1>14. TimerInv'
  BY <1>5, <1>8, <1>9, <1>10 DEF TimerInv
<1>15. PageInv' /\ ButtonInv'
  BY <1>2, <1>5, <1>8, <1>9, <1>10 DEF StartInv, PageInv, ButtonInv, Calm, NotReady, NoPageCalls
<1>16. StartTypes'
  BY <1>5, <1>6 DEF StartInv, StartTypes
<1> QED
  BY <1>11, <1>12, <1>13, <1>14, <1>15, <1>16 DEF StartInv, StageInv

(* onPluginsReady calls the join of the platform.                          *)
LEMMA CallPlatformKept ==
  ASSUME Rough!StartupAssumption, StartInv, Rough!CallJoin, Rough!Of = "platform", Maps, agenda = PlatformCalls
  PROVE  StartInv'
<1>1. joins \in [platform : 0..1, device : Nat] /\ joins.platform = 1
  <2>1. PlatformCalls # ModulesMap /\ PlatformCalls # ReadyFires
    BY Heads, SameStep
  <2> QED
    BY <2>1 DEF Maps, StartInv, StartTypes
<1>2. /\ joins' = [joins EXCEPT !["platform"] = joins["platform"] - 1]
      /\ agenda' = IF joins["platform"] = 1 THEN Rough!Joined("platform") \o Tail(agenda) ELSE Tail(agenda)
      /\ UNCHANGED <<state, handlers, domListeners, deviceReadyChannelsArray, deviceReadyTimer, started,
                     readyState, pluginList, loading, loaded, initialized, shown, called, override>>
  BY DEF Rough!CallJoin, Rough!channel, Rough!browser, Rough!effects
<1>3. /\ joins' \in [platform : 0..1, device : Nat] /\ joins'.device = joins.device /\ joins'.platform = 0
  BY <1>1, <1>2
<1>4. agenda' = ModulesMap
  <2>1. Rough!Joined("platform") = <<Rough!Do("mapModules", "platform"), Rough!Do("fire", "onCordovaReady"), Rough!Do("join", "device")>>
    BY DEF Rough!Joined
  <2>2. ModulesMap = <<Rough!Do("mapModules", "platform"), Rough!Do("fire", "onCordovaReady"), Rough!Do("join", "device")>>
                     \o Clears("onPluginsReady")
    BY DEF ModulesMap, Clears
  <2> QED
    BY <1>1, <1>2, <2>1, <2>2, Heads
<1>5. Plain(agenda) /\ Plain(agenda')
  BY <1>4, PlainPlatform, PlainLong
<1>6. Maps'
  BY <1>2, <1>3, <1>4 DEF Maps, Loaded
<1>7. ~Joins /\ ~Joins'
  BY <1>2 DEF Maps, Joins
<1>8. LooseInv' /\ CountInv'
  <2>1. DeviceCalls(agenda') = 0 /\ deviceReadyChannelsArray' \in Seq(Loose \cup {"onCordovaReady"})
    BY <1>2, <1>5 DEF Plain, StartInv, StartTypes
  <2> QED
    BY <1>2, <1>3, <1>7, <2>1, EarlyKept
<1>9. TimerInv' /\ PageInv' /\ ButtonInv'
  BY <1>2, <1>3, <1>5, <1>7, PlainIsCalm, CalmKept
<1>10. FiredInv'
  <2>1. \A d : ~Begun(agenda', Rough!Do("fire", d))
    BY <1>4 DEF Begun, ModulesMap, Rough!Do
  <2> QED
    BY <1>2, <2>1 DEF StartInv, FiredInv
<1>11. StartTypes'
  BY <1>2, <1>3 DEF StartInv, StartTypes
<1> QED
  BY <1>6, <1>8, <1>9, <1>10, <1>11 DEF StartInv, StageInv

LEMMA CallJoinKept == ASSUME Rough!StartupAssumption, StartInv, Rough!CallJoin PROVE StartInv'
<1>1. Rough!At("call") /\ Rough!Of \in {"platform", "device"}
  BY DEF Rough!CallJoin
<1>2. \/ Rough!Of = "device" /\ \E c \in Loose : agenda = Calls(c)
      \/ Maps /\ agenda = PlatformCalls /\ Rough!Of = "platform"
  BY <1>1, CallShapes, OwnNames
<1> QED
  BY <1>2, CallDeviceKept, CallPlatformKept

-----------------------------------------------------------------------------
(* The joins: what is missing is counted, and is waited for.               *)
LEMMA JoinPlatformKept ==
  ASSUME Rough!StartupAssumption, StartInv, Rough!JoinStep, Begins, agenda = <<Rough!Do("join", "platform")>>
  PROVE  StartInv'
<1> DEFINE channels == <<"onNativeReady", "onPluginsReady">>
<1>1. Rough!Of = "platform" /\ Tail(agenda) = <<>>
  BY DEF Rough!Of, Rough!Do
<1>2. /\ joins' = [joins EXCEPT !["platform"] = Rough!Missing(channels)]
      /\ handlers' = [c \in Rough!Channels |-> IF c \in Rough!ToSet(channels) /\ state[c] # 2
                                         THEN handlers[c] \cup {"platform"} ELSE handlers[c]]
      /\ agenda' = IF Rough!Missing(channels) = 0 THEN Rough!Joined("platform") \o Tail(agenda) ELSE Tail(agenda)
      /\ UNCHANGED <<state, domListeners, deviceReadyChannelsArray, deviceReadyTimer, started,
                     readyState, pluginList, loading, loaded, initialized, shown, called, override>>
  BY <1>1 DEF Rough!JoinStep, Rough!Join, Rough!browser, Rough!effects
<1>3. \A step : Has(agenda, step) => step = Rough!Do("join", "platform")
  BY DEF Has
<1>4. state["onNativeReady"] = 2 /\ handlers["onCordovaReady"] = {"show"} /\ state["onPluginsReady"] = 1
  BY <1>3, SameStep DEF Begins
<1>5. Rough!Missing(channels) = 1
  <2>0. Rough!Missing(channels) = Cardinality({j \in 1..Len(channels) : state[channels[j]] # 2})
    BY DEF Rough!Missing,
     Rough!Cardinality, Cardinality
  <2>1. {j \in 1..Len(channels) : state[channels[j]] # 2} = {2}
    BY <1>4
  <2> QED
    BY <2>0, <2>1, FS_Singleton
<1>6. Rough!ToSet(channels) = {"onNativeReady", "onPluginsReady"}
  BY DEF Rough!ToSet
<1>7. /\ handlers \in [Rough!Channels -> SUBSET (PageHandlers \cup {"platform", "device", "show"})]
      /\ joins \in [platform : 0..1, device : Nat]
  BY DEF StartInv, StartTypes
<1> HIDE DEF channels
<1>8. /\ handlers' \in [Rough!Channels -> SUBSET (PageHandlers \cup {"platform", "device", "show"})]
      /\ \A c \in Rough!Channels : c # "onPluginsReady" => handlers'[c] = handlers[c]
      /\ handlers'["onPluginsReady"] = {"platform"}
  <2>1. \A c \in Rough!Channels : handlers'[c] = IF c = "onPluginsReady" THEN handlers[c] \cup {"platform"} ELSE handlers[c]
    BY <1>2, <1>4, <1>6
  <2>2. handlers["onPluginsReady"] = {} /\ "onPluginsReady" \in Rough!Channels
    BY Names DEF Begins
  <2>3. handlers' = [c \in Rough!Channels |-> handlers'[c]]
    BY <1>2
  <2>4. \A c \in Rough!Channels : handlers'[c] \in SUBSET (PageHandlers \cup {"platform", "device", "show"})
    BY <1>7, <2>1
  <2> QED
    BY <2>1, <2>2, <2>3, <2>4
<1>9. /\ joins' \in [platform : 0..1, device : Nat] /\ joins'.device = joins.device /\ joins'.platform = 1
      /\ agenda' = <<>>
  BY <1>1, <1>2, <1>5, <1>7
<1>10. /\ \A d \in Loose : handlers'[d] = handlers[d]
       /\ handlers'["onNativeReady"] = handlers["onNativeReady"]
       /\ handlers'["onCordovaReady"] = handlers["onCordovaReady"]
       /\ handlers'["deviceready"] = handlers["deviceready"]
       /\ handlers'["backbutton"] = handlers["backbutton"]
  BY <1>8, Names, OwnNames
<1>11. Plain(agenda) /\ Plain(agenda')
  <2>1. InitScript(agenda)
    BY DEF Begins
  <2> QED
    BY <1>9, <2>1, PlainInit, PlainEmpty
<1>12. PluginsLoad'
  BY <1>2, <1>4, <1>8, <1>9, <1>10 DEF Begins, PluginsLoad, Between
<1>13. ~Joins /\ ~Joins'
  BY <1>2 DEF Begins, Joins
<1>14. LooseInv' /\ CountInv'
  <2>1. DeviceCalls(agenda') = 0 /\ deviceReadyChannelsArray' \in Seq(Loose \cup {"onCordovaReady"})
    BY <1>2, <1>11 DEF Plain, StartInv, StartTypes
  <2> QED
    BY <1>9, <1>10, <1>13, <2>1, EarlyKept
<1>15. TimerInv' /\ PageInv' /\ ButtonInv'
  BY <1>2, <1>9, <1>10, <1>11, <1>13, PlainIsCalm, CalmKept
<1>16. FiredInv'
  <2>1. \A d : ~Begun(agenda', Rough!Do("fire", d))
    BY <1>9 DEF Begun
  <2> QED
    BY <1>2, <2>1 DEF StartInv, FiredInv
<1>17. StartTypes'
  BY <1>2, <1>8, <1>9, <1>10 DEF StartInv, StartTypes
<1> QED
  BY <1>12, <1>14, <1>15, <1>16, <1>17 DEF StartInv, StageInv

LEMMA JoinDeviceKept ==
  ASSUME Rough!StartupAssumption, StartInv, Rough!JoinStep, Opens, agenda = DeviceJoins
  PROVE  StartInv'
<1> DEFINE channels == deviceReadyChannelsArray
<1>1. Rough!Of = "device" /\ Tail(agenda) = Clears("onPluginsReady")
  BY Heads DEF Rough!Of, Rough!Do
<1>2. /\ joins' = [joins EXCEPT !["device"] = Rough!Missing(channels)]
      /\ handlers' = [c \in Rough!Channels |-> IF c \in Rough!ToSet(channels) /\ state[c] # 2
                                         THEN handlers[c] \cup {"device"} ELSE handlers[c]]
      /\ agenda' = IF Rough!Missing(channels) = 0 THEN Rough!Joined("device") \o Tail(agenda) ELSE Tail(agenda)
      /\ UNCHANGED <<state, domListeners, deviceReadyChannelsArray, deviceReadyTimer, started,
                     readyState, pluginList, loading, loaded, initialized, shown, called, override>>
  BY <1>1 DEF Rough!JoinStep, Rough!Join, Rough!browser, Rough!effects
<1>3. Rough!Missing(channels) = Cardinality(Unfired) /\ Rough!Missing(channels) \in Nat
  BY UnfiredFinite DEF Rough!Missing, Unfired,
     Rough!Cardinality, Cardinality
<1>4. Rough!Missing(channels) <= Len(channels)
  <2>1. Len(channels) \in Nat
    BY DEF StartInv, StartTypes
  <2>2. IsFiniteSet(1..Len(channels)) /\ Cardinality(1..Len(channels)) = Len(channels)
    BY <2>1, FS_Interval
  <2>3. Unfired \subseteq 1..Len(channels)
    BY DEF Unfired
  <2>4. Cardinality(Unfired) <= Cardinality(1..Len(channels))
    BY <2>2, <2>3, FS_Subset
  <2> QED
    BY <1>3, <2>2, <2>4
<1>5. /\ handlers \in [Rough!Channels -> SUBSET (PageHandlers \cup {"platform", "device", "show"})]
      /\ joins \in [platform : 0..1, device : Nat]
      /\ Rough!ToSet(channels) \subseteq Loose \cup {"onCordovaReady"} /\ state["onCordovaReady"] = 2
  <2>1. channels \in Seq(Loose \cup {"onCordovaReady"})
    BY DEF StartInv, StartTypes
  <2>2. Rough!ToSet(channels) \subseteq Loose \cup {"onCordovaReady"}
    BY <2>1 DEF Rough!ToSet
  <2> QED
    BY <2>2 DEF StartInv, StartTypes, Opens
<1>6. /\ handlers' \in [Rough!Channels -> SUBSET (PageHandlers \cup {"platform", "device", "show"})]
      /\ \A c \in Rough!Channels : c \notin Loose => handlers'[c] = handlers[c]
      /\ \A c \in Loose : \/ handlers'[c] = handlers[c]
                          \/ handlers'[c] = handlers[c] \cup {"device"} /\ c \in Rough!ToSet(channels) /\ state[c] # 2
  <2>1. \A c \in Rough!Channels : handlers'[c] = IF c \in Rough!ToSet(channels) /\ state[c] # 2
                                           THEN handlers[c] \cup {"device"} ELSE handlers[c]
    BY <1>2
  <2>2. handlers' = [c \in Rough!Channels |-> handlers'[c]]
    BY <1>2
  <2>3. \A c \in Rough!Channels : handlers'[c] \in SUBSET (PageHandlers \cup {"platform", "device", "show"})
    BY <1>5, <2>1
  <2>4. Loose \subseteq Rough!Channels
    BY Names
  <2> QED
    BY <1>5, <2>1, <2>2, <2>3, <2>4
<1>7. /\ joins' \in [platform : 0..1, device : Nat] /\ joins'.device = Cardinality(Unfired)
      /\ joins'.platform = joins.platform
  BY <1>2, <1>3, <1>5
<1>8. \/ Cardinality(Unfired) = 0 /\ agenda' = Sets("onPluginsReady")
      \/ agenda' = Clears("onPluginsReady")
  <2>1. Rough!Joined("device") = <<Rough!Do("fireDocumentEvent", "deviceready")>>
    BY DEF Rough!Joined
  <2>2. <<Rough!Do("fireDocumentEvent", "deviceready")>> \o Clears("onPluginsReady") = Sets("onPluginsReady")
    BY TwoSteps DEF Clears, Sets
  <2> QED
    BY <1>1, <1>2, <1>3, <2>1, <2>2
<1>9. /\ DeviceCalls(agenda') = 0 /\ ~JoinsDevice(agenda') /\ NotReady(agenda') /\ NoPageCalls(agenda')
      /\ \A d : ~Begun(agenda', Rough!Do("fire", d))
      /\ SetsTimer(agenda') => joins'.device = 0
  <2>1. CASE Cardinality(Unfired) = 0 /\ agenda' = Sets("onPluginsReady")
    <3>1. \A d : ~Begun(agenda', Rough!Do("fire", d))
      BY <2>1 DEF Begun, Sets, Rough!Do
    <3> QED
      BY <1>7, <2>1, <3>1, SetsOne
  <2>2. CASE agenda' = Clears("onPluginsReady")
    <3>1. \A d : ~Begun(agenda', Rough!Do("fire", d))
      BY <2>2 DEF Begun, Clears, Rough!Do
    <3> QED
      BY <2>2, <3>1, PlainShort, PlainIsCalm DEF Calm
  <2> QED
    BY <1>8, <2>1, <2>2
<1>10. ~Joins /\ ~Told /\ ~deviceReadyTimer /\ Plain(agenda) /\ \A d \in Loose : handlers[d] = {}
  <2>1. ~Joins /\ \A d \in Loose : handlers[d] = {}
    BY Early
  <2>2. Plain(agenda)
    BY PlainLong DEF OpenScripts
  <2> QED
    BY <2>1, <2>2 DEF StartInv, TimerInv
<1>11. Joins' /\ ~Told' /\ Unfired' = Unfired
  BY <1>2, <1>5, <1>9, <1>10 DEF Joins, JoinsDevice, Told, Unfired, NotReady
<1>12. /\ handlers'["onNativeReady"] = handlers["onNativeReady"]
       /\ handlers'["deviceready"] = handlers["deviceready"]
       /\ handlers'["backbutton"] = handlers["backbutton"]
  BY <1>6, Names, OwnNames
<1>13. Opened'
  <2>1. shown
    <3>1. DeviceJoins # ShowCalls
      BY Heads, SameStep
    <3> QED
      BY <3>1 DEF Opens
  <2> QED
    BY <1>2, <1>7, <1>8, <2>1 DEF Opens, Opened, Loaded
<1>14. LooseInv'
  <2>1. ASSUME NEW d \in Loose
        PROVE handlers'[d] \subseteq {"device"} /\ (handlers'[d] # {} => state[d] # 2 /\ d \in Rough!ToSet(channels))
    BY <1>6, <1>10
  <2> QED
    BY <1>2, <1>11, <2>1 DEF LooseInv
<1>15. CountInv'
  <2>1. Cardinality(Unfired) + 0 <= joins'.device /\ joins'.device <= Len(deviceReadyChannelsArray)
    BY <1>3, <1>4, <1>7
  <2> QED
    BY <1>2, <1>9, <1>11, <2>1 DEF CountInv
<1>16. TimerInv'
  BY <1>2, <1>9, <1>10, <1>11 DEF TimerInv
<1>17. PageInv' /\ ButtonInv' /\ FiredInv'
  BY <1>2, <1>9, <1>10, <1>11, <1>12 DEF StartInv, PageInv, ButtonInv, FiredInv, Plain, NotReady, NoPageCalls
<1>18. StartTypes'
  BY <1>2, <1>6, <1>7, <1>12 DEF StartInv, StartTypes
<1> QED
  BY <1>13, <1>14, <1>15, <1>16, <1>17, <1>18 DEF StartInv, StageInv

LEMMA JoinStepKept == ASSUME Rough!StartupAssumption, StartInv, Rough!JoinStep PROVE StartInv'
<1>1. agenda # <<>> /\ Head(agenda).step = "join"
  BY DEF Rough!JoinStep, Rough!At, Rough!Idle
<1> QED
  BY <1>1, OtherShapes, JoinPlatformKept, JoinDeviceKept

-----------------------------------------------------------------------------
(* FlattenSeq, by induction on how many sequences are joined.              *)
Flattens(f, seqs, n) ==
  f = [i \in 1..n |-> f[i]] /\ \A i \in 1..n : f[i] = IF i = 1 THEN seqs[i] ELSE f[i - 1] \o seqs[i]

LEMMA FlattenExists ==
  ASSUME NEW seqs, NEW n \in Nat
  PROVE  \E f : Flattens(f, seqs, n)
<1> DEFINE T == {m \in 0..n : ~\E f : Flattens(f, seqs, m)}
<1>1. n \in 0..n /\ T \subseteq Nat
  OBVIOUS
<1> SUFFICES ASSUME T # {} PROVE FALSE
  BY <1>1
<1> HIDE DEF T
<1>2. PICK m \in T : \A k \in T : ~(k < m)
  BY <1>1, Least
<1> USE DEF T
<1>3. m \in 0..n /\ ~\E f : Flattens(f, seqs, m)
  BY <1>2
<1>4. m # 0
  <2> DEFINE e == [i \in 1..0 |-> i]
  <2>1. e = [i \in 1..0 |-> e[i]] /\ \A i \in 1..0 : e[i] = IF i = 1 THEN seqs[i] ELSE e[i - 1] \o seqs[i]
    OBVIOUS
  <2> HIDE DEF e
  <2>2. Flattens(e, seqs, 0)
    BY <2>1 DEF Flattens
  <2> QED
    BY <1>3, <2>2
<1>5. m - 1 \in 0..n /\ m \in Nat
  BY <1>3, <1>4
<1>6. PICK f : Flattens(f, seqs, m - 1)
  BY <1>2, <1>5
<1> DEFINE g == [i \in 1..m |-> IF i = m THEN (IF i = 1 THEN seqs[i] ELSE f[i - 1] \o seqs[i]) ELSE f[i]]
<1>7. ASSUME NEW i \in 1..m PROVE g[i] = IF i = 1 THEN seqs[i] ELSE g[i - 1] \o seqs[i]
  <2>1. i # 1 => i - 1 \in 1..m /\ i - 1 # m
    BY <1>5
  <2>2. i # 1 => g[i - 1] = f[i - 1]
    BY <2>1
  <2>3. CASE i = m
    <3>1. g[i] = IF i = 1 THEN seqs[i] ELSE f[i - 1] \o seqs[i]
      BY <2>3
    <3> HIDE DEF g
    <3> QED
      BY <2>2, <3>1
  <2>4. CASE i # m
    <3>1. i \in 1..(m - 1)
      BY <2>4, <1>5
    <3>2. g[i] = f[i] /\ f[i] = IF i = 1 THEN seqs[i] ELSE f[i - 1] \o seqs[i]
      BY <2>4, <3>1, <1>6 DEF Flattens
    <3> HIDE DEF g
    <3> QED
      BY <2>2, <3>2
  <2> QED
    BY <2>3, <2>4
<1>8. g = [i \in 1..m |-> g[i]]
  OBVIOUS
<1> HIDE DEF g
<1>9. Flattens(g, seqs, m)
  BY <1>7, <1>8 DEF Flattens
<1> QED
  BY <1>3, <1>9

LEMMA FlattenTyped ==
  ASSUME NEW S, NEW seqs \in Seq(Seq(S)) PROVE Rough!FlattenSeq(seqs) \in Seq(S)
<1> DEFINE n == Len(seqs)
           F(f) == [i \in 1..n |-> IF i = 1 THEN seqs[i] ELSE f[i - 1] \o seqs[i]]
           flatten == CHOOSE f : f = F(f)
<1>1. n \in Nat /\ \A i \in 1..n : seqs[i] \in Seq(S)
  OBVIOUS
<1>2. CASE n = 0
  <2>1. seqs = <<>> /\ <<>> \in Seq(S)
    BY <1>2
  <2>2. Rough!FlattenSeq(seqs) = seqs
    BY <1>2 DEF Rough!FlattenSeq
  <2> QED
    BY <2>1, <2>2
<1>3. CASE n # 0
  <2>1. Rough!FlattenSeq(seqs) = flatten[n]
    BY <1>3 DEF Rough!FlattenSeq
  <2>2. PICK f : Flattens(f, seqs, n)
    BY <1>1, FlattenExists
  <2>3. f = F(f)
    <3>1. /\ f = [i \in 1..n |-> f[i]]
          /\ \A i \in 1..n : f[i] = IF i = 1 THEN seqs[i] ELSE f[i - 1] \o seqs[i]
      BY <2>2 DEF Flattens
    <3> QED
      BY <3>1
  <2> HIDE DEF F
  <2>4. flatten = F(flatten)
    BY <2>3
  <2> HIDE DEF flatten
  <2>5. \A i \in 1..n : flatten[i] = IF i = 1 THEN seqs[i] ELSE flatten[i - 1] \o seqs[i]
    BY <2>4 DEF F
  <2> DEFINE T == {i \in 1..n : flatten[i] \notin Seq(S)}
  <2>6. T = {}
    <3> SUFFICES ASSUME T # {} PROVE FALSE
      OBVIOUS
    <3>1. T \subseteq Nat
      BY <1>1
    <3> HIDE DEF T
    <3>2. PICK i \in T : \A j \in T : ~(j < i)
      BY <3>1, Least
    <3> USE DEF T
    <3>3. i \in 1..n /\ flatten[i] \notin Seq(S)
      BY <3>2
    <3>4. i # 1
      BY <1>1, <2>5, <3>3
    <3>5. i - 1 \in 1..n /\ i - 1 < i
      BY <1>1, <3>3, <3>4
    <3>6. flatten[i - 1] \in Seq(S)
      BY <3>2, <3>5
    <3>7. flatten[i] = flatten[i - 1] \o seqs[i] /\ seqs[i] \in Seq(S)
      BY <1>1, <2>5, <3>3, <3>4
    <3> QED
      BY <3>3, <3>6, <3>7
  <2>7. n \in 1..n
    BY <1>1, <1>3
  <2> QED
    BY <2>1, <2>6, <2>7
<1> QED
  BY <1>2, <1>3

LEMMA MoreToWaitFor ==
  ASSUME NEW S, NEW s \in Seq(S), NEW t \in Seq(S)
  PROVE  s \o t \in Seq(S) /\ \A x \in Rough!ToSet(s) : x \in Rough!ToSet(s \o t)
<1>1. s \o t \in Seq(S) /\ Len(s \o t) = Len(s) + Len(t) /\ Len(s) \in Nat /\ Len(t) \in Nat
      /\ \A i \in 1..Len(s) : (s \o t)[i] = s[i]
  OBVIOUS
<1>2. DOMAIN s = 1..Len(s) /\ DOMAIN (s \o t) = 1..Len(s \o t)
  BY <1>1
<1>3. \A i \in 1..Len(s) : i \in 1..Len(s \o t)
  BY <1>1
<1> QED
  BY <1>1, <1>2, <1>3 DEF Rough!ToSet

LEMMA MapModulesKept == ASSUME Rough!StartupAssumption, StartInv, Rough!MapModules PROVE StartInv'
<1> DEFINE S == Loose \cup {"onCordovaReady"}
<1>1. Maps /\ agenda = ModulesMap
  <2>1. agenda # <<>> /\ Head(agenda).step = "mapModules"
    BY DEF Rough!MapModules, Rough!At, Rough!Idle
  <2> QED
    BY <2>1, OtherShapes
<1>2. /\ agenda' = ReadyFires \/ agenda' = <<>>
      /\ UNCHANGED <<state, handlers, domListeners, joins, deviceReadyTimer, started,
                     readyState, pluginList, loading, loaded, initialized, shown, called, override>>
  BY <1>1, Heads DEF Rough!MapModules, Rough!channel, Rough!browser, Rough!effects
<1>3. PICK order \in Rough!SetToSeqs(loaded) :
        deviceReadyChannelsArray' = deviceReadyChannelsArray
          \o Rough!FlattenSeq([i \in 1..Len(order) |-> Waits[order[i]]])
  BY DEF Rough!MapModules
<1>4. deviceReadyChannelsArray' \in Seq(S)
      /\ \A x \in Rough!ToSet(deviceReadyChannelsArray) : x \in Rough!ToSet(deviceReadyChannelsArray')
  <2> DEFINE seqs == [i \in 1..Len(order) |-> Waits[order[i]]]
  <2>1. IsFiniteSet(loaded)
    BY FinitePages, FS_Subset DEF StartInv, StartTypes
  <2>2. Cardinality(loaded) \in Nat
    BY <2>1, FS_CardinalityType
  <2>3. order \in [1..Cardinality(loaded) -> loaded]
    BY DEF Rough!SetToSeqs,
     Rough!Cardinality, Cardinality
  <2>4. Len(order) = Cardinality(loaded) /\ \A i \in 1..Len(order) : order[i] \in Modules
    BY <2>2, <2>3 DEF StartInv, StartTypes
  <2>5. \A i \in 1..Len(order) : Waits[order[i]] \in Seq(Rough!Features)
    BY <2>4 DEF Rough!StartupAssumption
  <2>6. seqs \in Seq(Seq(Rough!Features))
    BY <2>2, <2>4, <2>5
  <2> HIDE DEF seqs
  <2>7. Rough!FlattenSeq(seqs) \in Seq(Rough!Features)
    BY <2>6, FlattenTyped
  <2>8. Rough!Features \subseteq S
    BY Names
  <2>9. Rough!FlattenSeq(seqs) \in Seq(S) /\ deviceReadyChannelsArray \in Seq(S)
    BY <2>7, <2>8 DEF StartInv, StartTypes
  <2> HIDE DEF S
  <2>10. deviceReadyChannelsArray' = deviceReadyChannelsArray \o Rough!FlattenSeq(seqs)
    BY <1>3 DEF seqs
  <2> QED
    BY <2>9, <2>10, MoreToWaitFor
<1>5. Plain(agenda) /\ Plain(agenda')
  BY <1>1, <1>2, PlainLong, PlainEmpty
<1>6. Maps' \/ Broken'
  <2>1. joins.platform = 0
    <3>1. ModulesMap # PlatformCalls
      BY Heads, SameStep
    <3> QED
      BY <1>1, <3>1 DEF Maps
  <2> QED
    BY <1>1, <1>2, <2>1 DEF Maps, Broken, Loaded, Between
<1>7. ~Joins /\ ~Joins'
  BY <1>1, <1>2 DEF Maps, Joins
<1>8. LooseInv' /\ CountInv'
  BY <1>2, <1>4, <1>5, <1>7, EarlyKept DEF Plain
<1>9. TimerInv' /\ PageInv' /\ ButtonInv'
  BY <1>2, <1>5, <1>7, PlainIsCalm, CalmKept
<1>10. FiredInv'
  <2>1. \A d \in Rough!Features \cup {"onDOMContentLoaded"} : ~Begun(agenda', Rough!Do("fire", d))
    <3>1. \A d \in Rough!Features \cup {"onDOMContentLoaded"} : d # "onCordovaReady"
      BY OwnNames, Names
    <3>2. CASE agenda' = ReadyFires
      BY <3>1, <3>2, SameStep DEF Begun, ReadyFires
    <3>3. CASE agenda' = <<>>
      BY <3>3 DEF Begun
    <3> QED
      BY <1>2, <3>2, <3>3
  <2> QED
    BY <1>2, <2>1 DEF StartInv, FiredInv
<1>11. StartTypes'
  BY <1>2, <1>4 DEF StartInv, StartTypes
<1> QED
  BY <1>6, <1>8, <1>9, <1>10, <1>11 DEF StartInv, StageInv

-----------------------------------------------------------------------------
LEMMA StartInvInit == ASSUME Rough!StartupAssumption, Rough!Init PROVE StartInv
<1>1. /\ agenda = <<>> /\ deviceReadyTimer = FALSE /\ started = FALSE /\ pluginList = "none"
      /\ joins = [platform |-> 0, device |-> 0] /\ domListeners = {} /\ override = FALSE
      /\ loading = {} /\ loaded = {} /\ initialized = {}
      /\ deviceReadyChannelsArray = <<"onCordovaReady", "onDOMContentLoaded">>
      /\ called = [h \in PageHandlers |-> 0]
  BY DEF Rough!Init
<1>2. /\ state \in [Rough!Channels -> 0..2] /\ \A c \in Rough!Channels : state[c] = 0 <=> c \notin Rough!Sticky
      /\ \A c \in Rough!Sticky : state[c] = 1
  <2>1. state = [c \in Rough!Channels |-> IF c \in Rough!Sticky THEN 1 ELSE 0]
    BY DEF Rough!Init
  <2> QED
    BY <2>1, Names
<1>3. /\ handlers \in [Rough!Channels -> SUBSET (PageHandlers \cup {"platform", "device", "show"})]
      /\ \A c \in Rough!Channels : handlers[c] = {}
  BY DEF Rough!Init
<1>4. \A c \in Loose \cup {"onNativeReady", "onCordovaReady", "onPluginsReady", "deviceready"} :
        state[c] = 1 /\ handlers[c] = {}
  BY <1>2, <1>3, Names
<1>5. handlers["backbutton"] = {}
  BY <1>3, Names
<1>6. /\ deviceReadyChannelsArray \in Seq(Loose \cup {"onCordovaReady"})
      /\ Rough!ToSet(deviceReadyChannelsArray) = {"onCordovaReady", "onDOMContentLoaded"}
  <2>1. "onDOMContentLoaded" \in Loose \cup {"onCordovaReady"} /\ "onCordovaReady" \in Loose \cup {"onCordovaReady"}
    BY Names
  <2> QED
    BY <1>1, <2>1 DEF Rough!ToSet
<1>7. Rough!ToSet(deviceReadyChannelsArray) \cap Rough!Features = {}
  BY <1>6, OwnNames DEF Rough!StartupAssumption, Rough!InitChannels
<1>8. /\ ~SetsTimer(agenda) /\ DeviceCalls(agenda) = 0
      /\ \A step : ~Has(agenda, step) /\ ~Begun(agenda, step) /\ ~Ends(agenda, step)
  BY <1>1 DEF SetsTimer, DeviceCalls, Begun, Ends, Has
<1>9. ~Joins /\ ~Told
  BY <1>4, <1>8 DEF Joins, Told
<1>10. NotStarted
  BY <1>1, <1>4, <1>7 DEF NotStarted
<1>11. StartTypes
  <2>1. joins \in [platform : 0..1, device : Nat] /\ called \in [PageHandlers -> Nat]
    BY <1>1
  <2>2. handlers["onNativeReady"] = {} /\ "onCordovaReady" \in Rough!ToSet(deviceReadyChannelsArray)
        /\ "onDOMContentLoaded" \in Rough!ToSet(deviceReadyChannelsArray)
    BY <1>4, <1>6
  <2>3. deviceReadyTimer \in BOOLEAN /\ started \in BOOLEAN
    BY <1>1
  <2> QED
    BY <1>1, <1>2, <1>3, <1>6, <2>1, <2>2, <2>3 DEF StartTypes
<1>12. LooseInv
  BY <1>4 DEF LooseInv
<1>13. CountInv
  <2>1. Len(deviceReadyChannelsArray) = 2
    BY <1>1
  <2> QED
    BY <1>1, <1>8, <1>9, <2>1 DEF CountInv
<1>14. TimerInv
  BY <1>1, <1>8, <1>9 DEF TimerInv
<1>15. FiredInv
  BY <1>4, <1>8, Names DEF FiredInv
<1>16. PageInv /\ ButtonInv
  <2>1. \A h \in PageHandlers : called[h] = 0
    BY <1>1
  <2>2. handlers["deviceready"] = {}
    BY <1>4
  <2>3. PageInv
    BY <1>1, <1>8, <2>1, <2>2 DEF PageInv
  <2> QED
    BY <1>1, <1>5, <2>3 DEF ButtonInv
<1> QED
  BY <1>10, <1>11, <1>12, <1>13, <1>14, <1>15, <1>16 DEF StartInv, StageInv

LEMMA SameStart == ASSUME StartInv, UNCHANGED Rough!vars PROVE StartInv'
<1>1. UNCHANGED <<state, handlers, agenda, joins, deviceReadyChannelsArray, deviceReadyTimer, started,
                  readyState, pluginList, loading, loaded, initialized, domListeners, shown, called, override>>
  BY DEF Rough!vars, Rough!channel, Rough!browser, Rough!effects
<1>2. Joins' = Joins /\ Told' = Told /\ Unfired' = Unfired
  BY <1>1 DEF Joins, Told, Unfired
<1>3. StartTypes' /\ LooseInv' /\ CountInv'
  BY <1>1, <1>2 DEF StartInv, StartTypes, LooseInv, CountInv
<1>4. TimerInv' /\ FiredInv' /\ PageInv' /\ ButtonInv'
  BY <1>1, <1>2 DEF StartInv, TimerInv, FiredInv, PageInv, ButtonInv
<1>5. StageInv'
  BY <1>1 DEF StartInv, StageInv, NotStarted, Begins, PluginsLoad, Maps, Broken, Opens, Opened, Loaded
<1> QED
  BY <1>3, <1>4, <1>5 DEF StartInv

LEMMA StartInvNext == ASSUME Rough!StartupAssumption, StartInv, [Rough!Next]_(Rough!vars) PROVE StartInv'
<1>1. CASE Rough!Run
  BY <1>1, FireKept, ClearKept, JoinStepKept, CallJoinKept, CallShowKept, CallPageKept,
     SubscribeShowKept, LoadKept, MapModulesKept, FireDocumentEventKept DEF Rough!Run
<1>2. CASE Rough!Event
  BY <1>2, CordovaInitKept, DOMContentLoadedKept, PluginListLoadedKept, ScriptLoadedKept,
     InitializationCompleteKept, DeviceReadyKept DEF Rough!Event
<1>3. CASE Rough!AddDeviceReadyListener \/ Rough!ChangeBackbutton
  BY <1>3, AddDeviceReadyListenerKept, ChangeBackbuttonKept
<1>4. CASE UNCHANGED Rough!vars
  BY <1>4, SameStart
<1> QED
  BY <1>1, <1>2, <1>3, <1>4 DEF Rough!Next

(* What the invariant says of the page.                                    *)
LEMMA StartFits ==
  ASSUME Rough!StartupAssumption, StartInv
  PROVE  Rough!TypeOK /\ Rough!NotReadyTooEarly /\ Rough!ReadyOnce /\ Rough!OverrideMatches
<1>1. deviceReadyChannelsArray \in Seq(Loose \cup {"onCordovaReady"}) /\ Len(deviceReadyChannelsArray) \in Nat
      /\ Rough!ToSet(deviceReadyChannelsArray) = {deviceReadyChannelsArray[j] : j \in 1..Len(deviceReadyChannelsArray)}
  <2>1. DOMAIN deviceReadyChannelsArray = 1..Len(deviceReadyChannelsArray)
    BY DEF StartInv, StartTypes
  <2> QED
    BY <2>1 DEF StartInv, StartTypes, Rough!ToSet
<1>2. Rough!TypeOK
  <2>1. Rough!ToSet(deviceReadyChannelsArray) \subseteq Rough!Sticky
    BY <1>1, Names
  <2>2. joins.platform \in 0..2 /\ joins.device \in 0..Len(deviceReadyChannelsArray)
    BY <1>1 DEF StartInv, StartTypes, CountInv
  <2> QED
    BY <2>1, <2>2 DEF StartInv, StartTypes, Rough!TypeOK
<1>3. Rough!NotReadyTooEarly
  <2> SUFFICES ASSUME NEW h \in PageHandlers, called[h] > 0
               PROVE  /\ readyState = "complete" /\ loading = {} /\ shown
                      /\ Rough!ToSet(deviceReadyChannelsArray) \cap Rough!Features \subseteq initialized
                      /\ \A c \in Rough!InitChannels \ {"deviceready"} : state[c] = 2
    BY DEF Rough!NotReadyTooEarly
  <2>1. Told
    <3>1. called[h] \in 0..1
      BY DEF StartInv, PageInv
    <3>2. called[h] = 1
      BY <3>1
    <3> QED
      BY <3>2 DEF StartInv, PageInv
  <2>2. Joins /\ joins.device = 0
    BY <2>1 DEF StartInv, TimerInv
  <2>3. Opened
    BY <2>2, Early DEF StartInv, StageInv
  <2>4. Unfired = {}
    <3>1. Cardinality(Unfired) + DeviceCalls(agenda) <= 0
      BY <2>2 DEF StartInv, CountInv
    <3>2. DeviceCalls(agenda) \in 0..1 /\ Cardinality(Unfired) \in Nat /\ IsFiniteSet(Unfired)
      BY UnfiredFinite DEF DeviceCalls
    <3>3. Cardinality(Unfired) = 0
      BY <3>1, <3>2
    <3> QED
      BY <3>2, <3>3, FS_EmptySet
  <2>5. \A c \in Rough!ToSet(deviceReadyChannelsArray) : state[c] = 2
    BY <1>1, <2>4 DEF Unfired
  <2>6. \A f \in Rough!Features : state[f] = 2 => f \in initialized
    BY DEF StartInv, FiredInv
  <2>7. state["onDOMContentLoaded"] = 2
    BY <2>5 DEF StartInv, StartTypes
  <2>8. readyState = "complete"
    BY <2>7 DEF StartInv, FiredInv
  <2> QED
    BY <2>3, <2>5, <2>6, <2>7, <2>8 DEF Opened, Loaded, Rough!InitChannels
<1>4. Rough!ReadyOnce /\ Rough!OverrideMatches
  BY DEF StartInv, PageInv, ButtonInv, Rough!ReadyOnce, Rough!OverrideMatches
<1> QED
  BY <1>2, <1>3, <1>4

-----------------------------------------------------------------------------
(* A start in which nothing fails is one of those in which something may.  *)
LEMMA SmoothSteps == Smooth!Next /\ changes \in Nat => Rough!Next
<1> SUFFICES ASSUME changes \in Nat PROVE Smooth!Next => Rough!Next
  OBVIOUS
<1>1. Smooth!Fire => Rough!Fire
  BY DEF Smooth!Fire, Rough!Fire, Smooth!At, Rough!At, Smooth!Fired, Rough!Fired, Smooth!Of,
     Rough!Of, Smooth!SetToSeqs, Rough!SetToSeqs, Smooth!Do, Rough!Do, Smooth!browser,
     Rough!browser, Smooth!effects, Rough!effects, Smooth!Idle, Rough!Idle, Smooth!Cardinality,
     Rough!Cardinality
<1>2. Smooth!Clear => Rough!Clear
  BY DEF Smooth!Clear, Rough!Clear, Smooth!At, Rough!At, Smooth!Of, Rough!Of, Smooth!browser,
     Rough!browser, Smooth!effects, Rough!effects, Smooth!Idle, Rough!Idle
<1>3. Smooth!JoinStep => Rough!JoinStep
  BY DEF Smooth!JoinStep, Rough!JoinStep, Smooth!At, Rough!At, Smooth!Of, Rough!Of, Smooth!Join,
     Rough!Join, Smooth!Missing, Rough!Missing, Smooth!Joined, Rough!Joined, Smooth!browser,
     Rough!browser, Smooth!effects, Rough!effects, Smooth!Idle, Rough!Idle, Smooth!Channels,
     Rough!Channels, Smooth!ToSet, Rough!ToSet, Smooth!Cardinality, Rough!Cardinality, Smooth!Do,
     Rough!Do, Smooth!Sticky, Rough!Sticky, Smooth!InitChannels, Rough!InitChannels,
     Smooth!Features, Rough!Features
<1>4. Smooth!CallJoin => Rough!CallJoin
  BY DEF Smooth!CallJoin, Rough!CallJoin, Smooth!At, Rough!At, Smooth!Of, Rough!Of, Smooth!Joined,
     Rough!Joined, Smooth!channel, Rough!channel, Smooth!browser, Rough!browser, Smooth!effects,
     Rough!effects, Smooth!Idle, Rough!Idle, Smooth!Do, Rough!Do
<1>5. Smooth!CallShow => Rough!CallShow
  BY DEF Smooth!CallShow, Rough!CallShow, Smooth!At, Rough!At, Smooth!Of, Rough!Of, Smooth!channel,
     Rough!channel, Smooth!browser, Rough!browser, Smooth!Idle, Rough!Idle
<1>6. Smooth!CallPage => Rough!CallPage
  BY DEF Smooth!CallPage, Rough!CallPage, Smooth!At, Rough!At, Smooth!Of, Rough!Of, Smooth!channel,
     Rough!channel, Smooth!browser, Rough!browser, Smooth!Idle, Rough!Idle
<1>7. Smooth!SubscribeShow => Rough!SubscribeShow
  BY DEF Smooth!SubscribeShow, Rough!SubscribeShow, Smooth!At, Rough!At, Smooth!Subscribe,
     Rough!Subscribe, Smooth!browser, Rough!browser, Smooth!effects, Rough!effects, Smooth!Idle,
     Rough!Idle, Smooth!Do, Rough!Do
<1>8. Smooth!Load => Rough!Load
  BY DEF Smooth!Load, Rough!Load, Smooth!At, Rough!At, Smooth!channel, Rough!channel,
     Smooth!effects, Rough!effects, Smooth!Idle, Rough!Idle
<1>9. Smooth!MapModules => Rough!MapModules
  BY DEF Smooth!MapModules, Rough!MapModules, Smooth!At, Rough!At, Smooth!SetToSeqs,
     Rough!SetToSeqs, Smooth!FlattenSeq, Rough!FlattenSeq, Smooth!channel, Rough!channel,
     Smooth!browser, Rough!browser, Smooth!effects, Rough!effects, Smooth!Idle, Rough!Idle,
     Smooth!Cardinality, Rough!Cardinality
<1>10. Smooth!FireDocumentEvent => Rough!FireDocumentEvent
  BY DEF Smooth!FireDocumentEvent, Rough!FireDocumentEvent, Smooth!At, Rough!At, Smooth!channel,
     Rough!channel, Smooth!browser, Rough!browser, Smooth!effects, Rough!effects, Smooth!Idle,
     Rough!Idle
<1>11. Smooth!CordovaInit => Rough!CordovaInit
  BY DEF Smooth!CordovaInit, Rough!CordovaInit, Smooth!Idle, Rough!Idle, Smooth!Do, Rough!Do,
     Smooth!DOMReady, Rough!DOMReady, Smooth!channel, Rough!channel, Smooth!browser, Rough!browser,
     Smooth!effects, Rough!effects
<1>12. Smooth!DOMContentLoaded => Rough!DOMContentLoaded
  BY DEF Smooth!DOMContentLoaded, Rough!DOMContentLoaded, Smooth!Idle, Rough!Idle, Smooth!Do,
     Rough!Do, Smooth!channel, Rough!channel, Smooth!effects, Rough!effects
<1>13. Smooth!PluginListLoaded => Rough!PluginListLoaded
  BY DEF Smooth!PluginListLoaded, Rough!PluginListLoaded, Smooth!Idle, Rough!Idle, Smooth!Do,
     Rough!Do, Smooth!channel, Rough!channel, Smooth!effects, Rough!effects
<1>14. Smooth!ScriptLoaded => Rough!ScriptLoaded
  BY DEF Smooth!ScriptLoaded, Rough!ScriptLoaded, Smooth!Idle, Rough!Idle, Smooth!Pending,
     Rough!Pending, Smooth!AllLoaded, Rough!AllLoaded, Smooth!Do, Rough!Do, Smooth!channel,
     Rough!channel, Smooth!effects, Rough!effects
<1>15. Smooth!InitializationComplete => Rough!InitializationComplete
  BY DEF Smooth!InitializationComplete, Rough!InitializationComplete, Smooth!Idle, Rough!Idle,
     Smooth!Features, Rough!Features, Smooth!ToSet, Rough!ToSet, Smooth!Do, Rough!Do,
     Smooth!channel, Rough!channel, Smooth!browser, Rough!browser, Smooth!effects, Rough!effects
<1>16. Smooth!DeviceReady => Rough!DeviceReady
  BY DEF Smooth!DeviceReady, Rough!DeviceReady, Smooth!Idle, Rough!Idle, Smooth!Cardinality,
     Rough!Cardinality, Smooth!Dispatched, Rough!Dispatched, Smooth!Do, Rough!Do, Smooth!SetToSeq,
     Rough!SetToSeq, Smooth!channel, Rough!channel, Smooth!browser, Rough!browser, Smooth!effects,
     Rough!effects, Smooth!IsInjective, Rough!IsInjective
<1>17. Smooth!AddDeviceReadyListener => Rough!AddDeviceReadyListener
  BY DEF Smooth!AddDeviceReadyListener, Rough!AddDeviceReadyListener, Smooth!Idle, Rough!Idle,
     Smooth!Listened, Rough!Listened, Smooth!Subscribe, Rough!Subscribe, Smooth!browser,
     Rough!browser, Smooth!effects, Rough!effects, Smooth!Do, Rough!Do
<1>18. ~Smooth!ChangeBackbutton
  BY DEF Smooth!ChangeBackbutton
<1> QED
  BY <1>1, <1>2, <1>3, <1>4, <1>5, <1>6, <1>7, <1>8, <1>9, <1>10, <1>11, <1>12, <1>13, <1>14, <1>15, <1>16, <1>17, <1>18
     DEF Smooth!Next, Smooth!Run, Smooth!Event, Rough!Next, Rough!Run, Rough!Event

LEMMA ChangesCounted == Rough!Next /\ changes \in Nat => changes' \in Nat
BY DEF Rough!Next, Rough!Run, Rough!Event, Rough!Fire, Rough!Clear, Rough!JoinStep, Rough!CallJoin,
   Rough!CallShow, Rough!CallPage, Rough!SubscribeShow, Rough!Load, Rough!MapModules,
   Rough!FireDocumentEvent, Rough!CordovaInit, Rough!DOMContentLoaded, Rough!PluginListLoaded,
   Rough!ScriptLoaded, Rough!InitializationComplete, Rough!DeviceReady,
   Rough!AddDeviceReadyListener, Rough!ChangeBackbutton

LEMMA SmoothFits ==
  /\ Rough!TypeOK => Smooth!TypeOK
  /\ Rough!NotReadyTooEarly => Smooth!NotReadyTooEarly
  /\ Rough!ReadyOnce => Smooth!ReadyOnce
<1>1. Rough!TypeOK => Smooth!TypeOK
  BY DEF Smooth!TypeOK, Rough!TypeOK, Smooth!Channels, Rough!Channels, Smooth!Sticky, Rough!Sticky,
     Smooth!ToSet, Rough!ToSet, Smooth!InitChannels, Rough!InitChannels, Smooth!Features,
     Rough!Features
<1>2. Rough!NotReadyTooEarly => Smooth!NotReadyTooEarly
  BY DEF Smooth!NotReadyTooEarly, Rough!NotReadyTooEarly, Smooth!ToSet, Rough!ToSet,
     Smooth!Features, Rough!Features, Smooth!InitChannels, Rough!InitChannels
<1>3. Rough!ReadyOnce => Smooth!ReadyOnce
  BY DEF Smooth!ReadyOnce, Rough!ReadyOnce
<1> QED
  BY <1>1, <1>2, <1>3

SceneStarts == scene \in {"rough", "smooth"} => StartInv /\ changes \in Nat

LEMMA SceneStartsNext == SceneStarts /\ [AllNext]_all => SceneStarts'
<1> SUFFICES ASSUME SceneStarts, [AllNext]_all, scene' \in {"rough", "smooth"}
             PROVE  StartInv' /\ changes' \in Nat
  BY DEF SceneStarts
<1>1. scene' = scene /\ StartInv /\ changes \in Nat
  BY DEF AllNext, InBridge, InStartup, InDeploy, all, SceneStarts
<1>2. Rough!Next \/ UNCHANGED <<startup, changes>>
  <2>1. CASE InBridge("calls") \/ InBridge("answers") \/ InDeploy
    BY <1>1, <2>1 DEF InBridge, InDeploy
  <2>2. CASE InStartup("rough") /\ Rough!Next
    BY <2>2
  <2>3. CASE InStartup("smooth") /\ Smooth!Next
    BY <1>1, <2>3, SmoothSteps
  <2>4. CASE UNCHANGED all
    BY <2>4 DEF all
  <2> QED
    BY <2>1, <2>2, <2>3, <2>4 DEF AllNext
<1>3. [Rough!Next]_(Rough!vars)
  BY <1>2 DEF startup, Rough!vars, Rough!channel, Rough!browser, Rough!effects
<1>4. StartInv'
  BY <1>1, <1>3, StartInvNext, StartupsAssumption
<1>5. changes' \in Nat
  BY <1>1, <1>2, ChangesCounted
<1> QED
  BY <1>4, <1>5

(* A page hears deviceready only after all it holds back for, and once,    *)
(* however many modules, features and listeners there are, in whatever     *)
(* order the document, the native side and the plugins get ready, and      *)
(* whether or not scripts fail; and the native side overrides the back     *)
(* button exactly while the page handles it.                               *)
THEOREM StartsAsOrdered == AllSpec => []StartsInOrder
<1>1. AllInit => SceneStarts
  <2>1. AllInit => Rough!Init
    BY DEF AllInit
  <2>2. Rough!Init => changes \in Nat
    BY DEF Rough!Init
  <2>3. Rough!Init => StartInv
    BY StartInvInit, StartupsAssumption
  <2> QED
    BY <2>1, <2>2, <2>3 DEF SceneStarts
<1>2. SceneStarts /\ [AllNext]_all => SceneStarts'
  BY SceneStartsNext
<1>3. SceneStarts => StartsInOrder
  BY StartFits, SmoothFits, StartupsAssumption DEF SceneStarts, StartsInOrder
<1> QED
  BY <1>1, <1>2, <1>3, PTL DEF AllSpec

-----------------------------------------------------------------------------
(* A behaviour stays in its scene.                                         *)
SceneDeploys == scene = "deploy" => DeployInv

LEMMA SceneDeploysInit == AllInit => SceneDeploys
<1> SUFFICES ASSUME AllInit, scene = "deploy" PROVE DeployInv
  BY DEF SceneDeploys
<1>1. Deploys!Init
  BY DEF AllInit
<1> QED
  BY <1>1, DeployInvInit, DeploysAssumption

LEMMA SceneDeploysNext == SceneDeploys /\ [AllNext]_all => SceneDeploys'
<1> SUFFICES ASSUME SceneDeploys, [AllNext]_all, scene' = "deploy" PROVE DeployInv'
  BY DEF SceneDeploys
<1>1. scene = "deploy" /\ [Deploys!Next]_(Deploys!vars)
  <2>1. CASE InDeploy /\ Deploys!Next
    BY <2>1 DEF InDeploy
  <2>2. CASE UNCHANGED all
    BY <2>2 DEF all, deploy, Deploys!vars, Deploys!bin, Deploys!world, Deploys!chosen, Deploys!deployed
  <2> QED
    BY <2>1, <2>2 DEF AllNext, InBridge, InStartup
<1> QED
  BY <1>1, DeployInvNext, DeploysAssumption DEF SceneDeploys

(* A script that ends well has gone where it was asked to, with what was   *)
(* to be built, whatever else is connected or started between the lists it *)
(* looks at; for an image that is the emulator that start returned, which  *)
(* runs that image when nothing else came or went.                         *)
THEOREM DeploysAsAsked == AllSpec => []InstalledAsAsked
<1>1. AllInit => SceneDeploys
  BY SceneDeploysInit
<1>2. SceneDeploys /\ [AllNext]_all => SceneDeploys'
  BY SceneDeploysNext
<1>3. SceneDeploys => InstalledAsAsked
  <2>1. DeployInv => Deploys!BuildsAreFresh
    BY DEF DeployInv, BuildInv, LaunchInv, Deploys!BuildsAreFresh, Unbuilt
  <2>2. DeployInv => Deploys!GoesWhereAsked
    BY DeploysAssumption DEF Deploys!DeployAssumption, Deploys!Options, DeployInv, InstallInv, LaunchInv, OwnEmulator, OwnImage, TargetInv,
       Deploys!GoesWhereAsked, Deploys!TypeOK
  <2> QED
    BY <2>1, <2>2 DEF SceneDeploys, InstalledAsAsked, Deploys!InstalledAsAsked, DeployInv
<1> QED
  BY <1>1, <1>2, <1>3, PTL DEF AllSpec

(* What was proved of the bridge holds in every scene.                     *)
LEMMA PlaysBridge == AllSpec => Spec
<1>1. AllInit => Init
  BY DEF AllInit
<1>2. [AllNext]_all => [Next]_vars
  BY DEF AllNext, InBridge, InStartup, InDeploy, all
<1> QED
  BY <1>1, <1>2, PTL DEF AllSpec, Spec

THEOREM SceneHandledInOrder == AllSpec => []HandledInOrder
BY PlaysBridge, MessagesHandledInOrder

THEOREM SceneBridgeIsSafe == AllSpec => []BridgeSafe
BY PlaysBridge, BridgeIsSafe

=============================================================================
