------------------------------ MODULE ClientProofs ------------------------------
(***************************************************************************)
(* The clients of the hub.  The phone, for any number of taps, readings,   *)
(* devices and axes: its connection, and then the movement it sends, with  *)
(* what sums need.  The events receiver, for every stream of texts and     *)
(* every way it is cut into reads.                                         *)
(***************************************************************************)
EXTENDS Controller, Receiver, SequenceTheorems, WellFoundedInduction, TLAPS

-----------------------------------------------------------------------------
(* The phone *)

(* The queues of the bridge hold calls and answers of these forms.         *)
Call == [action : {"init", "connect", "sendmsg"},
         argument : Names \cup {NoDevice} \cup Vectors]
Fits(call) ==
  \/ call.action = "init"
  \/ call.action = "connect" /\ call.argument \in Names
  \/ call.action = "sendmsg" /\ call.argument \in Vectors
Answer == [action : {"init", "connect", "sendmsg"}, ok : BOOLEAN]

Queued == requests \in Seq(Call) /\ \A i \in 1..Len(requests) : Fits(requests[i])

IInv == TypeOK /\ Queued /\ OneOpenSocket

-----------------------------------------------------------------------------
(* A call that fits may be queued behind the others.                       *)
LEMMA ExecQueues ==
  ASSUME NEW action, NEW arg, Queued, Exec(action, arg),
         [action |-> action, argument |-> arg] \in Call,
         Fits([action |-> action, argument |-> arg])
  PROVE  Queued'
<1> DEFINE call == [action |-> action, argument |-> arg]
<1>1. requests' = Append(requests, call)
  BY DEF Exec
<1>2. /\ requests' \in Seq(Call) /\ Len(requests') = Len(requests) + 1
      /\ requests'[Len(requests) + 1] = call
      /\ \A i \in 1..Len(requests) : requests'[i] = requests[i]
  BY <1>1 DEF Queued
<1>3. \A i \in 1..Len(requests') : i \in 1..Len(requests) \/ i = Len(requests) + 1
  BY <1>2 DEF Queued
<1> HIDE DEF call
<1>4. Fits(call)
  BY DEF call
<1> QED
  BY <1>2, <1>3, <1>4 DEF Queued, Fits

(* The movement is a vector of numbers.                                    *)
LEMMA MovementType ==
  ASSUME NEW event \in [Axes -> Readings], position \in Vectors
  PROVE  Movement(event) \in Vectors
<1>1. \A a \in Axes : event[a] - position[a] \in Int
  <2> SUFFICES ASSUME NEW a \in Axes PROVE event[a] - position[a] \in Int
    OBVIOUS
  <2>1. event[a] \in Int
    BY ControllerAssumption
  <2>2. position[a] \in Int
    BY DEF Vectors
  <2> QED
    BY <2>1, <2>2
<1>2. \A a \in Axes :
        (IF Abs(event[a] - position[a]) < noiseValue THEN 0 ELSE event[a] - position[a]) \in Int
  BY <1>1
<1> QED
  BY <1>2 DEF Movement, Vectors

LEMMA QueuedNext == TypeOK /\ Queued /\ [Next]_vars => Queued'
<1> SUFFICES ASSUME TypeOK, Queued, [Next]_vars PROVE Queued'
  OBVIOUS
<1>0. CASE UNCHANGED requests
  BY <1>0 DEF Queued, Fits
<1>1. CASE OnDeviceReadyBT
  <2>1. Exec("init", NoDevice)
    BY <1>1 DEF OnDeviceReadyBT
  <2> QED
    BY <2>1, ExecQueues DEF Call, Fits
<1>2. CASE SelectDevice
  <2>1. ASSUME NEW name \in Names, Exec("connect", name) PROVE Queued'
    BY <2>1, ExecQueues DEF Call, Fits
  <2> QED
    BY <1>2, <1>0, <2>1 DEF SelectDevice
<1>3. CASE OnAccSuccess
  <2>1. PICK event \in [Axes -> Readings] :
          Exec("sendmsg", Movement(event)) \/ UNCHANGED requests
    BY <1>3 DEF OnAccSuccess
  <2>2. Movement(event) \in Vectors
    BY MovementType DEF TypeOK
  <2>3. ASSUME Exec("sendmsg", Movement(event)) PROVE Queued'
    BY <2>2, <2>3, ExecQueues DEF Call, Fits
  <2> QED
    BY <2>1, <2>3, <1>0
<1>4. CASE Execute
  <2>1. requests # <<>> /\ requests' = Tail(requests)
    BY <1>4 DEF Execute
  <2>2. /\ requests' \in Seq(Call) /\ Len(requests') = Len(requests) - 1
        /\ \A i \in 1..Len(requests') : requests'[i] = requests[i + 1]
    BY <2>1 DEF Queued
  <2>3. \A i \in 1..Len(requests') : i + 1 \in 1..Len(requests)
    BY <2>1, <2>2 DEF Queued
  <2> QED
    BY <2>2, <2>3 DEF Queued, Fits
<1>5. CASE OnAnswer \/ LinkLost \/ UNCHANGED vars
  BY <1>5, <1>0 DEF OnAnswer, LinkLost, vars
<1> QED
  BY <1>1, <1>2, <1>3, <1>4, <1>5 DEF Next

-----------------------------------------------------------------------------
Sockets == sockets \in Seq({"open", "closed"}) /\ btSocket \in 0..Len(sockets)

(* Whatever fails in bluetoothConnect, one socket at most stays open.      *)
LEMMA ConnectSockets ==
  ASSUME Sockets, OneOpenSocket, BluetoothConnect
  PROVE  Sockets' /\ OneOpenSocket'
<1>1. CASE UNCHANGED <<btSocket, sockets>>
  BY <1>1 DEF Sockets, OneOpenSocket
<1>2. /\ CloseOld \in Seq({"open", "closed"}) /\ Len(CloseOld) = Len(sockets)
      /\ \A s \in 1..Len(sockets) : CloseOld[s] = "closed"
  <2>1. CASE btSocket = 0
    <3>1. \A s \in 1..Len(sockets) : sockets[s] \in {"open", "closed"} /\ sockets[s] # "open"
      BY <2>1 DEF Sockets, OneOpenSocket
    <3> QED
      BY <2>1, <3>1 DEF CloseOld, Sockets
  <2>2. CASE btSocket # 0
    <3>1. CloseOld = [sockets EXCEPT ![btSocket] = "closed"]
      BY <2>2 DEF CloseOld
    <3>2. \A s \in 1..Len(sockets) : sockets[s] = "open" => s = btSocket
      BY DEF OneOpenSocket
    <3>3. \A s \in 1..Len(sockets) : CloseOld[s] = "closed"
      BY <3>1, <3>2 DEF Sockets
    <3> QED
      BY <3>1, <3>3, <2>2, ExceptSeq DEF Sockets
  <2> QED
    BY <2>1, <2>2
<1>3. CASE sockets' = CloseOld /\ UNCHANGED btSocket
  BY <1>2, <1>3 DEF Sockets, OneOpenSocket
<1>4. CASE sockets' = Append(CloseOld, "open") /\ btSocket' = Len(sockets) + 1
  <2>1. /\ sockets' \in Seq({"open", "closed"}) /\ Len(sockets') = Len(sockets) + 1
        /\ \A s \in 1..Len(sockets) : sockets'[s] = "closed"
    BY <1>2, <1>4
  <2>2. Len(sockets) \in Nat
    BY DEF Sockets
  <2>3. ASSUME NEW s \in 1..Len(sockets'), s # btSocket' PROVE sockets'[s] # "open"
    <3>1. s \in 1..Len(sockets)
      BY <2>1, <2>2, <2>3, <1>4
    <3> QED
      BY <2>1, <3>1
  <2> QED
    BY <2>1, <2>2, <2>3, <1>4 DEF Sockets, OneOpenSocket
<1> QED
  BY <1>1, <1>3, <1>4 DEF BluetoothConnect

LEMMA SocketsNext == Sockets /\ OneOpenSocket /\ [Next]_vars => Sockets' /\ OneOpenSocket'
<1> SUFFICES ASSUME Sockets, OneOpenSocket, [Next]_vars PROVE Sockets' /\ OneOpenSocket'
  OBVIOUS
<1>0. CASE UNCHANGED <<btSocket, sockets>>
  BY <1>0 DEF Sockets, OneOpenSocket
<1>1. CASE Execute
  <2>1. BluetoothConnect \/ UNCHANGED plugin
    BY <1>1 DEF Execute, InitCommand, ConnectCommand, SendMessageCommand
  <2> QED
    BY <2>1, <1>0, ConnectSockets DEF plugin
<1>2. CASE LinkLost
  <2>1. sockets' = [sockets EXCEPT ![btSocket] = "closed"] /\ UNCHANGED btSocket
    BY <1>2 DEF LinkLost
  <2>2. /\ sockets' \in Seq({"open", "closed"}) /\ Len(sockets') = Len(sockets)
        /\ \A s \in 1..Len(sockets) : sockets'[s] = "open" => sockets[s] = "open"
    <3>1. btSocket \in 1..Len(sockets)
      BY <1>2 DEF LinkLost, State, Sockets
    <3> QED
      BY <2>1, <3>1, ExceptSeq DEF Sockets
  <2> QED
    BY <2>1, <2>2 DEF Sockets, OneOpenSocket
<1>3. CASE OnDeviceReadyBT \/ SelectDevice \/ OnAccSuccess \/ OnAnswer \/ UNCHANGED vars
  BY <1>3, <1>0 DEF OnDeviceReadyBT, SelectDevice, OnAccSuccess, OnAnswer, vars, plugin
<1> QED
  BY <1>1, <1>2, <1>3 DEF Next

-----------------------------------------------------------------------------
Fields ==
  /\ {ready, connected, firstAccelerometerValue} \subseteq BOOLEAN
  /\ position \in Vectors /\ base \in Vectors /\ written \in Vectors
  /\ followed \in Nat
  /\ btDevice \in Paired \cup {NoDevice}
  /\ answers \in Seq(Answer)

LEMMA Parts == Queued => (TypeOK <=> Fields /\ Sockets)
BY DEF TypeOK, Fields, Sockets, Answer, Calls, Queued, Fits

LEMMA FieldsNext == Fields /\ Queued /\ [Next]_vars => Fields'
<1> SUFFICES ASSUME Fields, Queued, [Next]_vars PROVE Fields'
  OBVIOUS
<1> USE DEF Fields
<1>1. CASE OnDeviceReadyBT
  BY <1>1 DEF OnDeviceReadyBT, plugin, ghosts, bounds
<1>2. CASE SelectDevice
  BY <1>2 DEF SelectDevice, page, plugin, ghosts
<1>3. CASE OnAccSuccess
  <2>1. PICK event \in [Axes -> Readings] :
          position' = event /\ base' \in {event, base} /\ followed' \in {0, followed + 1}
    BY <1>3 DEF OnAccSuccess
  <2>2. event \in Vectors
    BY ControllerAssumption DEF Vectors
  <2>3. position' \in Vectors /\ base' \in Vectors
    BY <2>1, <2>2
  <2>4. followed' \in Nat
    BY <2>1
  <2> QED
    BY <1>3, <2>3, <2>4 DEF OnAccSuccess, plugin
<1>4. CASE Execute
  <2>1. requests # <<>> /\ UNCHANGED <<page, base, followed>>
    BY <1>4 DEF Execute
  <2>2. Fits(Head(requests)) /\ Head(requests) = requests[1]
    BY <2>1 DEF Queued
  <2>3. CASE InitCommand
    BY <2>1, <2>3 DEF InitCommand, page, plugin, Answer
  <2>4. ASSUME NEW name \in Names, ConnectCommand(name) PROVE Fields'
    <3>1. btDevice' \in Paired \cup {NoDevice} /\ UNCHANGED written
      BY <2>4 DEF ConnectCommand, plugin
    <3>2. PICK ok \in BOOLEAN : answers' = Append(answers, [action |-> "connect", ok |-> ok])
      BY <2>4 DEF ConnectCommand
    <3>3. answers' \in Seq(Answer)
      BY <3>2 DEF Answer
    <3> QED
      BY <2>1, <3>1, <3>3 DEF page
  <2>5. ASSUME NEW d \in Vectors, SendMessageCommand(d) PROVE Fields'
    <3>1. \A a \in Axes : written[a] + d[a] \in Int
      BY DEF Vectors
    <3>2. written' \in Vectors
      BY <2>5, <3>1 DEF SendMessageCommand, Vectors
    <3>3. (State(btSocket) = "open") \in BOOLEAN
      OBVIOUS
    <3>4. answers' \in Seq(Answer)
      BY <2>5, <3>3 DEF SendMessageCommand, Answer
    <3> QED
      BY <2>1, <2>5, <3>2, <3>4 DEF SendMessageCommand, page, plugin
  <2>6. \/ InitCommand
        \/ \E name \in Names : ConnectCommand(name)
        \/ \E d \in Vectors : SendMessageCommand(d)
    BY <1>4, <2>2 DEF Execute, Fits
  <2> QED
    BY <2>3, <2>4, <2>5, <2>6
<1>5. CASE OnAnswer
  <2>1. answers' \in Seq(Answer)
    BY <1>5 DEF OnAnswer
  <2>2. connected' \in BOOLEAN
    BY <1>5 DEF OnAnswer
  <2> QED
    BY <1>5, <2>1, <2>2 DEF OnAnswer, plugin, ghosts
<1>6. CASE LinkLost
  BY <1>6 DEF LinkLost, page, ghosts
<1>7. CASE UNCHANGED vars
  BY <1>7 DEF vars, page, plugin, ghosts
<1> QED
  BY <1>1, <1>2, <1>3, <1>4, <1>5, <1>6, <1>7 DEF Next

LEMMA IInvInit == Init => IInv
<1> SUFFICES ASSUME Init PROVE IInv
  OBVIOUS
<1>1. Queued
  BY DEF Init, Queued
<1>2. Sockets /\ OneOpenSocket
  BY DEF Init, Sockets, OneOpenSocket
<1>3. position \in Vectors /\ base = position /\ written = position
  BY DEF Init, Vectors
<1>4. Fields
  <2>1. answers \in Seq(Answer)
    BY DEF Init
  <2> QED
    BY <1>3, <2>1 DEF Init, Fields
<1> QED
  BY <1>1, <1>2, <1>4, Parts DEF IInv

LEMMA Inductive == Spec => []IInv
<1>1. IInv /\ [Next]_vars => IInv'
  <2> SUFFICES ASSUME IInv, [Next]_vars PROVE IInv'
    OBVIOUS
  <2>1. Fields /\ Sockets
    BY Parts DEF IInv
  <2>2. Queued'
    BY QueuedNext DEF IInv
  <2>3. Fields' /\ Sockets' /\ OneOpenSocket'
    BY <2>1, FieldsNext, SocketsNext DEF IInv
  <2>4. Queued' => (TypeOK' <=> Fields' /\ Sockets')
    BY DEF TypeOK, Fields, Sockets, Answer, Calls, Queued, Fits
  <2> QED
    BY <2>2, <2>3, <2>4 DEF IInv
<1> QED
  BY <1>1, IInvInit, PTL DEF Spec

(* The script, the bridge and the plugin keep their ranges.                *)
THEOREM TypeCorrect == Spec => []TypeOK
<1>1. IInv => TypeOK
  BY DEF IInv
<1> QED
  BY <1>1, Inductive, PTL

(* However often the button is touched and whatever fails in               *)
(* bluetoothConnect, the hub holds one connection of the phone at most.    *)
THEOREM OneConnection == Spec => []OneOpenSocket
<1>1. IInv => OneOpenSocket
  BY DEF IInv
<1> QED
  BY <1>1, Inductive, PTL

(* A link that is dead when no call to connect is on its way stays dead.   *)
THEOREM NeverReconnects == Spec => DeadLinkStaysDead
<1>1. IInv /\ [Next]_vars => (Dead => Dead')
  <2> SUFFICES ASSUME IInv, [Next]_vars, Dead PROVE Dead'
    OBVIOUS
  <2>1. Queued /\ Sockets /\ connected
    BY Parts DEF IInv, Dead
  <2>2. State(btSocket) # "open" /\ \A i \in 1..Len(requests) : requests[i].action # "connect"
    BY DEF Dead, Connecting, Calls
  <2>3. ASSUME connected', UNCHANGED <<btSocket, sockets>>,
               \A i \in 1..Len(requests') : requests'[i].action # "connect"
        PROVE  Dead'
    BY <2>2, <2>3 DEF Dead, Connecting, Calls, State
  <2>4. ASSUME NEW action, NEW arg, Exec(action, arg), action # "connect"
        PROVE  \A i \in 1..Len(requests') : requests'[i].action # "connect"
    <3>1. /\ Len(requests') = Len(requests) + 1
          /\ requests'[Len(requests) + 1].action = action
          /\ \A i \in 1..Len(requests) : requests'[i] = requests[i]
      BY <2>1, <2>4 DEF Exec, Queued
    <3>2. \A i \in 1..Len(requests') : i \in 1..Len(requests) \/ i = Len(requests) + 1
      BY <2>1, <3>1 DEF Queued
    <3> QED
      BY <2>2, <2>4, <3>1, <3>2
  <2>5. CASE OnDeviceReadyBT
    BY <2>5, <2>1, <2>3, <2>4 DEF OnDeviceReadyBT, plugin
  <2>6. CASE SelectDevice
    BY <2>6, <2>1, <2>2, <2>3 DEF SelectDevice, MayConnect, plugin, page
  <2>7. CASE OnAccSuccess
    BY <2>7, <2>1, <2>2, <2>3, <2>4 DEF OnAccSuccess, plugin
  <2>8. CASE Execute
    <3>1. requests # <<>> /\ requests' = Tail(requests) /\ UNCHANGED page
      BY <2>8 DEF Execute
    <3>2. Head(requests).action # "connect"
      BY <3>1, <2>1, <2>2 DEF Queued
    <3>3. UNCHANGED plugin
      BY <2>8, <3>2 DEF Execute, InitCommand, SendMessageCommand
    <3>4. \A i \in 1..Len(requests') : requests'[i] = requests[i + 1] /\ i + 1 \in 1..Len(requests)
      BY <3>1, <2>1 DEF Queued
    <3> QED
      BY <3>1, <3>3, <3>4, <2>1, <2>2, <2>3 DEF page, plugin
  <2>9. CASE OnAnswer
    BY <2>9, <2>1, <2>2, <2>3 DEF OnAnswer, plugin
  <2>10. CASE LinkLost
    BY <2>10, <2>2 DEF LinkLost
  <2>11. CASE UNCHANGED vars
    BY <2>11, <2>1, <2>2, <2>3 DEF vars, page, plugin
  <2> QED
    BY <2>5, <2>6, <2>7, <2>8, <2>9, <2>10, <2>11 DEF Next
<1>2. IInv /\ [Next]_vars => [Dead => Dead']_vars
  BY <1>1
<1> QED
  BY <1>2, Inductive, PTL DEF Spec, DeadLinkStaysDead

-----------------------------------------------------------------------------
(* Sums are defined by recursion: what they are follows by induction on the*)
(* number of terms, and the least counterexample is given by the order of  *)
(* the natural numbers being well founded.                                 *)
LEMMA Least ==
  ASSUME NEW T, T \subseteq Nat, T # {}
  PROVE  \E n \in T : \A m \in T : ~(m < n)
<1>1. PICK n \in T : \A m \in T : ~(<<m, n>> \in OpToRel(<, Nat))
  BY NatLessThanWellFounded, WFMin
<1> QED
  BY <1>1 DEF OpToRel

IsSums(f, v, n) ==
  /\ f \in [0..n -> Int] /\ f[0] = 0
  /\ \A i \in 1..n : f[i] = f[i - 1] + v[i]

LEMMA SumsExist ==
  ASSUME NEW n \in Nat, NEW v \in [1..n -> Int]
  PROVE  \E f : IsSums(f, v, n)
<1> DEFINE T == {m \in 0..n : ~\E f : IsSums(f, v, m)}
<1>0. n \in 0..n /\ T \subseteq Nat
  OBVIOUS
<1> SUFFICES ASSUME T # {} PROVE FALSE
  BY <1>0
<1> HIDE DEF T
<1>1. PICK m \in T : \A k \in T : ~(k < m)
  BY <1>0, Least
<1> USE DEF T
<1>2. m \in 0..n /\ ~\E f : IsSums(f, v, m)
  BY <1>1
<1>3. m # 0
  <2>1. IsSums([i \in 0..0 |-> 0], v, 0)
    BY DEF IsSums
  <2> QED
    BY <1>2, <2>1
<1>4. m - 1 \in 0..n /\ m \in Nat
  BY <1>2, <1>3
<1>5. PICK f : IsSums(f, v, m - 1)
  BY <1>1, <1>4
<1> DEFINE g == [i \in 0..m |-> IF i = m THEN f[m - 1] + v[m] ELSE f[i]]
<1>6. v[m] \in Int
  BY <1>2, <1>3
<1>7. /\ f \in [0..(m - 1) -> Int] /\ f[0] = 0
      /\ \A i \in 1..(m - 1) : f[i] = f[i - 1] + v[i]
  BY <1>5 DEF IsSums
<1>8. f[m - 1] \in Int
  BY <1>4, <1>7, <1>3
<1>9. \A i \in 0..m : i = m \/ i \in 0..(m - 1)
  BY <1>4
<1>10. g \in [0..m -> Int]
  BY <1>6, <1>7, <1>8, <1>9
<1>11. g[0] = 0
  BY <1>3, <1>4, <1>7
<1>12. ASSUME NEW i \in 1..m PROVE g[i] = g[i - 1] + v[i]
  <2>1. i \in 0..m /\ i - 1 \in 0..m /\ i - 1 # m
    BY <1>4
  <2>2. g[i - 1] = f[i - 1]
    BY <2>1
  <2>3. CASE i = m
    BY <2>1, <2>2, <2>3
  <2>4. CASE i # m
    <3>1. i \in 1..(m - 1)
      BY <2>1, <2>4, <1>4
    <3> QED
      BY <2>1, <2>2, <2>4, <3>1, <1>7
  <2> QED
    BY <2>3, <2>4
<1> HIDE DEF g
<1>13. IsSums(g, v, m)
  BY <1>10, <1>11, <1>12 DEF IsSums
<1> QED
  BY <1>2, <1>13

LEMMA SumsAre ==
  ASSUME NEW n \in Nat, NEW v \in [1..n -> Int], Len(v) = n
  PROVE  IsSums(Sums(v), v, n)
<1> DEFINE F(f) == [i \in 0..n |-> IF i = 0 THEN 0 ELSE f[i - 1] + v[i]]
<1>1. PICK f : IsSums(f, v, n)
  BY SumsExist
<1>2. f = F(f)
  <2>1. \A i \in 0..n : i = 0 \/ i \in 1..n
    OBVIOUS
  <2>2. \A i \in 0..n : f[i] = IF i = 0 THEN 0 ELSE f[i - 1] + v[i]
    BY <1>1, <2>1 DEF IsSums
  <2> QED
    BY <1>1, <2>2 DEF IsSums
<1>3. Sums(v) = F(Sums(v))
  BY <1>2 DEF Sums
<1> DEFINE g == Sums(v)
<1> HIDE DEF g
<1>4. g = F(g)
  BY <1>3 DEF g
<1>5. g[0] = 0 /\ \A i \in 1..n : g[i] = g[i - 1] + v[i]
  BY <1>4
<1>6. \A i \in 0..n : g[i] \in Int
  <2> DEFINE T == {i \in 0..n : g[i] \notin Int}
  <2> SUFFICES ASSUME T # {} PROVE FALSE
    OBVIOUS
  <2>1. T \subseteq Nat
    OBVIOUS
  <2> HIDE DEF T
  <2>2. PICK m \in T : \A k \in T : ~(k < m)
    BY <2>1, Least
  <2> USE DEF T
  <2>3. m \in 1..n
    BY <1>5
  <2>4. m - 1 \in 0..n /\ m - 1 < m
    BY <2>3
  <2>5. g[m - 1] \in Int
    BY <2>2, <2>4
  <2> QED
    BY <1>5, <2>3, <2>5
<1>7. g \in [0..n -> Int]
  BY <1>4, <1>6
<1> QED
  BY <1>5, <1>7 DEF IsSums, g

(* Two sums of the same terms are the same.                                *)
LEMMA SumsOnly ==
  ASSUME NEW n \in Nat, NEW v, NEW f, NEW g, IsSums(f, v, n), IsSums(g, v, n)
  PROVE  \A i \in 0..n : f[i] = g[i]
<1> DEFINE T == {i \in 0..n : f[i] # g[i]}
<1> SUFFICES ASSUME T # {} PROVE FALSE
  OBVIOUS
<1>1. T \subseteq Nat
  OBVIOUS
<1> HIDE DEF T
<1>2. PICK m \in T : \A k \in T : ~(k < m)
  BY <1>1, Least
<1> USE DEF T
<1>3. m \in 1..n
  BY DEF IsSums
<1>4. m - 1 \in 0..n /\ m - 1 < m
  BY <1>3
<1>5. f[m - 1] = g[m - 1]
  BY <1>2, <1>4
<1> QED
  BY <1>3, <1>5 DEF IsSums

LEMMA SumAppends ==
  ASSUME NEW n \in Nat, NEW v \in [1..n -> Int], Len(v) = n,
         NEW w \in [1..(n + 1) -> Int], Len(w) = n + 1, \A i \in 1..n : w[i] = v[i]
  PROVE  Sum(w) = Sum(v) + w[n + 1] /\ Sum(v) \in Int
<1> DEFINE f == Sums(v)
           g == Sums(w)
<1>1. IsSums(f, v, n) /\ IsSums(g, w, n + 1)
  BY SumsAre
<1> HIDE DEF f, g
<1>2. \A i \in 0..n : i \in 0..(n + 1)
  OBVIOUS
<1>3. g[0] = 0 /\ \A i \in 1..n : g[i] = g[i - 1] + v[i]
  BY <1>1 DEF IsSums
<1> DEFINE h == [i \in 0..n |-> g[i]]
<1>4. IsSums(h, v, n)
  <2>1. h \in [0..n -> Int]
    BY <1>1, <1>2 DEF IsSums
  <2>2. \A i \in 1..n : i - 1 \in 0..n /\ i \in 0..n
    OBVIOUS
  <2> QED
    BY <1>3, <2>1, <2>2 DEF IsSums
<1> HIDE DEF h
<1>5. f[n] = h[n]
  BY <1>1, <1>4, SumsOnly
<1>6. f[n] = g[n] /\ f[n] \in Int
  BY <1>1, <1>5 DEF h, IsSums
<1>7. g[n + 1] = g[n] + w[n + 1]
  BY <1>1 DEF IsSums
<1> QED
  BY <1>6, <1>7 DEF Sum, f, g

LEMMA SumTail ==
  ASSUME NEW n \in Nat, NEW v \in [1..(n + 1) -> Int], Len(v) = n + 1,
         NEW w \in [1..n -> Int], Len(w) = n, \A i \in 1..n : w[i] = v[i + 1]
  PROVE  Sum(v) = v[1] + Sum(w) /\ Sum(w) \in Int
<1> DEFINE f == Sums(v)
           g == Sums(w)
<1>1. IsSums(f, v, n + 1) /\ IsSums(g, w, n)
  BY SumsAre
<1> HIDE DEF f, g
<1>2. v[1] \in Int
  OBVIOUS
<1>3. /\ f[0] = 0 /\ \A i \in 0..(n + 1) : f[i] \in Int
      /\ \A i \in 1..(n + 1) : f[i] = f[i - 1] + v[i]
  BY <1>1 DEF IsSums
<1>4. f[1] = v[1]
  BY <1>2, <1>3
<1> DEFINE h == [i \in 0..n |-> f[i + 1] - v[1]]
<1>5. IsSums(h, w, n)
  <2>1. h \in [0..n -> Int]
    BY <1>2, <1>3
  <2>2. h[0] = 0
    BY <1>2, <1>4
  <2>3. ASSUME NEW i \in 1..n PROVE h[i] = h[i - 1] + w[i]
    <3>1. i \in 0..n /\ i - 1 \in 0..n /\ i + 1 \in 1..(n + 1) /\ i \in 0..(n + 1)
          /\ i - 1 + 1 = i /\ i + 1 - 1 = i
      OBVIOUS
    <3>2. h[i] = f[i + 1] - v[1] /\ h[i - 1] = f[i] - v[1]
      BY <3>1
    <3>3. f[i + 1] = f[i] + v[i + 1] /\ f[i] \in Int /\ v[i + 1] \in Int
      BY <3>1, <1>3
    <3>4. w[i] = v[i + 1]
      OBVIOUS
    <3> HIDE DEF h
    <3> QED
      BY <3>2, <3>3, <3>4, <1>2
  <2> HIDE DEF h
  <2> QED
    BY <2>1, <2>2, <2>3 DEF IsSums
<1>6. h[n] = f[n + 1] - v[1]
  OBVIOUS
<1> HIDE DEF h
<1>7. g[n] = h[n]
  BY <1>1, <1>5, SumsOnly
<1>8. g[n] \in Int /\ f[n + 1] \in Int
  BY <1>1 DEF IsSums
<1> QED
  BY <1>2, <1>6, <1>7, <1>8 DEF Sum, f, g

(* Without negative terms the sum is at least each of them.                *)
LEMMA SumBounds ==
  ASSUME NEW n \in Nat, NEW v \in [1..n -> Nat], Len(v) = n, NEW k \in 1..n
  PROVE  Sum(v) >= v[k]
<1> DEFINE f == Sums(v)
<1>0. v \in [1..n -> Int]
  OBVIOUS
<1>1. IsSums(f, v, n)
  BY <1>0, SumsAre
<1> HIDE DEF f
<1>2. /\ f[0] = 0 /\ \A i \in 0..n : f[i] \in Int
      /\ \A i \in 1..n : f[i] = f[i - 1] + v[i]
  BY <1>1 DEF IsSums
<1> DEFINE T == {i \in 0..n : f[i] < 0 \/ (i >= k /\ f[i] < v[k])}
<1>3. T = {}
  <2> SUFFICES ASSUME T # {} PROVE FALSE
    OBVIOUS
  <2>1. T \subseteq Nat
    OBVIOUS
  <2> HIDE DEF T
  <2>2. PICK m \in T : \A j \in T : ~(j < m)
    BY <2>1, Least
  <2> USE DEF T
  <2>3. m \in 1..n
    BY <1>2
  <2>4. m - 1 \in 0..n /\ m - 1 < m /\ f[m - 1] \in Int /\ v[m] \in Nat /\ v[k] \in Nat
    BY <2>3, <1>2
  <2>5. f[m - 1] >= 0 /\ (m - 1 >= k => f[m - 1] >= v[k])
    <3>1. m - 1 \notin T
      BY <2>2, <2>4
    <3> QED
      BY <3>1, <2>4
  <2>6. f[m] = f[m - 1] + v[m]
    BY <2>3, <1>2
  <2>7. m = k \/ m - 1 >= k \/ m < k
    BY <2>3
  <2> QED
    BY <2>4, <2>5, <2>6, <2>7
<1>4. n \in 0..n /\ n >= k /\ v[k] \in Nat
  OBVIOUS
<1>5. f[n] >= v[k]
  <2>1. n \notin T
    BY <1>3
  <2>2. f[n] \in Int /\ ~(f[n] < v[k])
    BY <1>2, <1>4, <2>1
  <2> QED
    BY <1>4, <2>2
<1> QED
  BY <1>5 DEF Sum, f

-----------------------------------------------------------------------------
LEMMA MovesType ==
  ASSUME NEW call, Fits(call), NEW a \in Axes
  PROVE  Moves(call, a) \in Int
BY DEF Fits, Moves, Vectors

LEMMA WaitingType ==
  ASSUME Queued, NEW a \in Axes
  PROVE  Waiting(a) \in Int
<1> DEFINE n == Len(requests)
           v == [i \in 1..Len(requests) |-> Moves(requests[i], a)]
<1>1. n \in Nat /\ n \in 0..n
  BY DEF Queued
<1>2. v \in [1..n -> Int] /\ Len(v) = n
  BY <1>1, MovesType DEF Queued
<1> HIDE DEF v, n
<1>3. IsSums(Sums(v), v, n)
  BY <1>1, <1>2, SumsAre
<1> QED
  BY <1>1, <1>2, <1>3 DEF IsSums, Sum, Waiting, v

LEMMA WaitingAppends ==
  ASSUME Queued, Queued', NEW call, Fits(call), requests' = Append(requests, call),
         NEW a \in Axes
  PROVE  Waiting(a)' = Waiting(a) + Moves(call, a) /\ Waiting(a) \in Int
<1> DEFINE n == Len(requests)
           v == [i \in 1..Len(requests) |-> Moves(requests[i], a)]
           w == [i \in 1..Len(requests') |-> Moves(requests'[i], a)]
<1>1. /\ n \in Nat /\ Len(requests') = n + 1 /\ requests'[n + 1] = call
      /\ \A i \in 1..n : requests'[i] = requests[i]
  BY DEF Queued
<1>2. \A i \in 1..n : Moves(requests[i], a) \in Int
  BY MovesType DEF Queued
<1>3. \A i \in 1..(n + 1) : Moves(requests'[i], a) \in Int
  BY <1>1, MovesType DEF Queued
<1>4. v \in [1..n -> Int] /\ Len(v) = n
  BY <1>1, <1>2
<1>5. /\ w \in [1..(n + 1) -> Int] /\ Len(w) = n + 1 /\ w[n + 1] = Moves(call, a)
      /\ \A i \in 1..n : w[i] = v[i]
  BY <1>1, <1>3
<1> HIDE DEF v, w
<1>6. Sum(w) = Sum(v) + w[n + 1] /\ Sum(v) \in Int
  BY <1>1, <1>4, <1>5, SumAppends
<1>7. Waiting(a) = Sum(v) /\ Waiting(a)' = Sum(w)
  BY DEF Waiting, v, w
<1> QED
  BY <1>5, <1>6, <1>7

LEMMA WaitingTakes ==
  ASSUME Queued, Queued', requests # <<>>, requests' = Tail(requests), NEW a \in Axes
  PROVE  /\ Waiting(a) = Moves(Head(requests), a) + Waiting(a)'
         /\ Waiting(a)' \in Int /\ Moves(Head(requests), a) \in Int
<1> DEFINE n == Len(requests')
           v == [i \in 1..Len(requests) |-> Moves(requests[i], a)]
           w == [i \in 1..Len(requests') |-> Moves(requests'[i], a)]
<1>1. /\ n \in Nat /\ Len(requests) = n + 1 /\ requests[1] = Head(requests)
      /\ \A i \in 1..n : requests'[i] = requests[i + 1] /\ i + 1 \in 1..(n + 1)
  BY DEF Queued
<1>2. \A i \in 1..(n + 1) : Moves(requests[i], a) \in Int
  BY <1>1, MovesType DEF Queued
<1>4. v \in [1..(n + 1) -> Int] /\ Len(v) = n + 1 /\ v[1] = Moves(Head(requests), a)
  BY <1>1, <1>2
<1>5. /\ w \in [1..n -> Int] /\ Len(w) = n
      /\ \A i \in 1..n : w[i] = v[i + 1]
  BY <1>1, <1>2
<1> HIDE DEF v, w
<1>6. Sum(v) = v[1] + Sum(w) /\ Sum(w) \in Int
  BY <1>1, <1>4, <1>5, SumTail
<1>7. Waiting(a) = Sum(v) /\ Waiting(a)' = Sum(w)
  BY DEF Waiting, v, w
<1>8. v[1] \in Int
  BY <1>1, <1>4
<1> QED
  BY <1>4, <1>6, <1>7, <1>8

(* What a reading leaves unsent is below the noise, on every axis: a part  *)
(* of the movement, or all of it where that is not significant.            *)
LEMMA LittleDropped ==
  ASSUME NEW event \in [Axes -> Readings], position \in Vectors, NEW a \in Axes
  PROVE  /\ Abs(event[a] - position[a] - Movement(event)[a]) < noiseValue
         /\ ~Significant(Movement(event)) => Movement(event)[a] = 0
<1> DEFINE d == Movement(event)
           v == [b \in Axes |-> Abs(d[b])]
<1>1. \A b \in Axes : event[b] \in Int /\ position[b] \in Int
  BY ControllerAssumption DEF Vectors
<1>2. d[a] = IF Abs(event[a] - position[a]) < noiseValue THEN 0 ELSE event[a] - position[a]
  BY DEF Movement
<1>3. Abs(event[a] - position[a] - d[a]) < noiseValue
  BY <1>1, <1>2 DEF Abs, noiseValue
<1>4. d[a] \in Int /\ (d[a] # 0 => Abs(d[a]) >= noiseValue)
  BY <1>1, <1>2 DEF Abs, noiseValue
<1>5. d \in Vectors
  BY MovementType
<1> HIDE DEF d
<1>6. Dimensions \in Nat /\ a \in 1..Dimensions
  BY ControllerAssumption DEF Axes
<1>7. \A b \in Axes : Abs(d[b]) \in Nat
  BY <1>5 DEF Abs, Vectors
<1>8. /\ v \in [1..Dimensions -> Nat] /\ v \in [1..Dimensions -> Int]
      /\ Len(v) = Dimensions /\ v[a] = Abs(d[a])
  BY <1>6, <1>7 DEF Axes
<1> HIDE DEF v
<1>9. Sum(v) >= v[a]
  BY <1>6, <1>8, SumBounds
<1>10. Sum(v) \in Int
  <2>1. IsSums(Sums(v), v, Dimensions)
    BY <1>6, <1>8, SumsAre
  <2>2. Dimensions \in 0..Dimensions
    BY <1>6
  <2> QED
    BY <1>8, <2>1, <2>2 DEF IsSums, Sum
<1>11. ASSUME d[a] # 0 PROVE Significant(d)
  <2>1. Sum(v) > noiseValueSummed
    BY <1>4, <1>7, <1>8, <1>9, <1>10, <1>11 DEF noiseValue, noiseValueSummed
  <2> QED
    BY <2>1 DEF Significant, v
<1> QED
  BY <1>3, <1>11 DEF d

LEMMA ConservedInit == Init => MovementConserved
<1> SUFFICES ASSUME Init, NEW a \in Axes
             PROVE  Abs(Dropped(a)) <= (noiseValue - 1) * followed
  BY DEF MovementConserved
<1> DEFINE v == [i \in 1..Len(requests) |-> Moves(requests[i], a)]
<1>1. Len(requests) = 0
  BY DEF Init
<1>2. v \in [1..0 -> Int] /\ Len(v) = 0 /\ 0 \in Nat
  BY <1>1
<1> HIDE DEF v
<1>3. \A n \in Nat : n = 0 => IsSums(Sums(v), v, n)
  BY <1>2, SumsAre
<1>4. Sum(v) = 0
  BY <1>2, <1>3 DEF IsSums, Sum
<1>5. Waiting(a) = 0
  BY <1>4 DEF Waiting, v
<1>6. Dropped(a) = 0 /\ followed = 0
  BY <1>5 DEF Init, Dropped
<1> QED
  BY <1>6 DEF Abs, noiseValue

(* While nothing is sent, the last reading is where movement starts from.  *)
Tracks == Unsent => base = position /\ followed = 0

LEMMA TracksNext == Tracks /\ [Next]_vars => Tracks'
<1> SUFFICES ASSUME Tracks, [Next]_vars PROVE Tracks'
  OBVIOUS
<1> USE DEF Tracks, Unsent
<1>1. CASE OnAccSuccess
  BY <1>1 DEF OnAccSuccess
<1>2. CASE OnAnswer
  BY <1>2 DEF OnAnswer, ghosts
<1>3. CASE UNCHANGED <<page, base, followed>>
  BY <1>3 DEF page
<1>4. CASE OnDeviceReadyBT
  BY <1>4 DEF OnDeviceReadyBT, ghosts
<1> QED
  BY <1>1, <1>2, <1>3, <1>4
  DEF Next, vars, SelectDevice, Execute, LinkLost, page, ghosts

LEMMA ConservedNext ==
  IInv /\ IInv' /\ Tracks /\ MovementConserved /\ [Next]_vars => MovementConserved'
<1> SUFFICES ASSUME IInv, IInv', Tracks, MovementConserved, [Next]_vars, NEW a \in Axes
             PROVE  Abs((position'[a] - base'[a]) - (written'[a] + Waiting(a)'))
                      <= (noiseValue - 1) * followed'
  BY DEF MovementConserved, Dropped
<1>t. /\ Queued /\ Queued' /\ followed \in Nat
      /\ position[a] \in Int /\ base[a] \in Int /\ written[a] \in Int
      /\ position'[a] \in Int /\ base'[a] \in Int /\ written'[a] \in Int
  BY DEF IInv, TypeOK, Vectors
<1>w. Waiting(a) \in Int
  BY <1>t, WaitingType
<1>c. Abs((position[a] - base[a]) - (written[a] + Waiting(a))) <= (noiseValue - 1) * followed
  BY DEF MovementConserved, Dropped
<1>0. CASE UNCHANGED <<requests, written, position, base, followed>>
  BY <1>0, <1>c DEF Waiting
<1>e. ASSUME NEW action, NEW arg, Exec(action, arg),
             Fits([action |-> action, argument |-> arg])
      PROVE  /\ Waiting(a)' = Waiting(a) + (IF action = "sendmsg" THEN arg[a] ELSE 0)
             /\ Waiting(a) \in Int
  BY <1>e, <1>t, WaitingAppends DEF Exec, Moves
<1>1. CASE OnDeviceReadyBT
  <2>1. Waiting(a)' = Waiting(a) + 0 /\ Waiting(a) \in Int
    BY <1>1, <1>e DEF OnDeviceReadyBT, Fits
  <2> QED
    BY <1>1, <1>c, <2>1 DEF OnDeviceReadyBT, ghosts
<1>2. CASE SelectDevice
  <2>1. CASE UNCHANGED requests
    BY <1>2, <1>0, <2>1 DEF SelectDevice, page, ghosts
  <2>2. CASE \E deviceName \in Names : Exec("connect", deviceName)
    <3>1. Waiting(a)' = Waiting(a) + 0 /\ Waiting(a) \in Int
      BY <2>2, <1>e DEF Fits
    <3> QED
      BY <1>2, <1>c, <3>1 DEF SelectDevice, page, ghosts
  <2> QED
    BY <1>2, <2>1, <2>2 DEF SelectDevice
<1>3. CASE OnAccSuccess
  <2>1. PICK event \in [Axes -> Readings] :
          /\ IF Sends(event) THEN Exec("sendmsg", Movement(event)) ELSE UNCHANGED requests
          /\ position' = event
          /\ IF Unsent THEN base' = event /\ followed' = 0
             ELSE UNCHANGED base /\ followed' = followed + 1
    BY <1>3 DEF OnAccSuccess
  <2>2. UNCHANGED written
    BY <1>3 DEF OnAccSuccess
  <2>3. CASE Unsent
    <3>1. base = position /\ followed = 0 /\ UNCHANGED requests
      BY <2>1, <2>3 DEF Sends, Tracks
    <3>2. base' = position' /\ followed' = 0 /\ Waiting(a)' = Waiting(a)
      BY <2>1, <2>3, <3>1 DEF Waiting
    <3>3. Waiting(a) = -written[a]
      <4>1. Waiting(a) \in Int
        BY <1>w
      <4> QED
        BY <1>c, <1>t, <3>1, <4>1 DEF Abs, noiseValue
    <3> QED
      BY <1>t, <1>w, <2>2, <3>2, <3>3 DEF Abs, noiseValue
  <2>4. CASE ~Unsent
    <3> DEFINE d == Movement(event)[a]
    <3>1. /\ Abs(event[a] - position[a] - d) < noiseValue
          /\ ~Significant(Movement(event)) => d = 0
      BY LittleDropped DEF IInv, TypeOK
    <3>2. Movement(event) \in Vectors /\ d \in Int
      BY MovementType DEF IInv, TypeOK, Vectors
    <3>3. event[a] \in Int /\ position'[a] = event[a]
      BY <2>1, <1>t
    <3>4. Waiting(a)' = Waiting(a) + d
      <4>1. CASE Sends(event)
        BY <1>e, <2>1, <3>2, <4>1 DEF Fits
      <4>2. CASE ~Sends(event)
        <5>1. d = 0 /\ Waiting(a)' = Waiting(a)
          BY <2>1, <2>4, <3>1, <4>2 DEF Sends, Waiting
        <5> HIDE DEF d
        <5> QED
          BY <1>w, <5>1
      <4> QED
        BY <4>1, <4>2
    <3>5. base'[a] = base[a] /\ followed' = followed + 1 /\ written'[a] = written[a]
      BY <2>1, <2>2, <2>4
    <3> HIDE DEF d, Waiting
    <3> QED
      BY <1>t, <1>c, <1>w, <3>1, <3>2, <3>3, <3>4, <3>5 DEF Abs, noiseValue
  <2> QED
    BY <2>3, <2>4
<1>4. CASE Execute
  <2>1. requests # <<>> /\ requests' = Tail(requests) /\ UNCHANGED <<position, base, followed>>
    BY <1>4 DEF Execute, page
  <2>2. /\ Waiting(a) = Moves(Head(requests), a) + Waiting(a)'
        /\ Waiting(a)' \in Int /\ Moves(Head(requests), a) \in Int
    BY <1>t, <2>1, WaitingTakes
  <2>3. written'[a] = written[a] + Moves(Head(requests), a)
    BY <1>4, <1>t DEF Execute, InitCommand, ConnectCommand, SendMessageCommand, Moves
  <2> QED
    BY <1>t, <1>c, <2>1, <2>2, <2>3
<1>5. CASE OnAnswer
  BY <1>5, <1>0 DEF OnAnswer, ghosts
<1>6. CASE LinkLost
  BY <1>6, <1>0 DEF LinkLost, page, ghosts
<1>7. CASE UNCHANGED vars
  BY <1>7, <1>0 DEF vars, page, ghosts
<1> QED
  BY <1>1, <1>2, <1>3, <1>4, <1>5, <1>6, <1>7 DEF Next

(* On any number of axes and for any readings, also those closer together  *)
(* than the noise: no step of the phone is given to the plugin twice, and  *)
(* none is lost but what each reading drops below the noise.               *)
THEOREM NoMovementLost == Spec => []MovementConserved
<1>1. Init => Tracks /\ MovementConserved
  <2>1. Init => Tracks
    BY DEF Init, Tracks
  <2> QED
    BY <2>1, ConservedInit
<1>2. IInv /\ IInv' /\ (Tracks /\ MovementConserved) /\ [Next]_vars =>
        (Tracks /\ MovementConserved)'
  BY TracksNext, ConservedNext
<1> QED
  BY <1>1, <1>2, Inductive, PTL DEF Spec

-----------------------------------------------------------------------------
(* The events receiver *)

Keys == [n : 1 .. MaxTexts, key : {"XK_Up", "XK_Down"}, press : {0, 1}]

(* What holds between two actions: outside callback and release all keys   *)
(* are in pairs and of texts that were read; the message in hand is one    *)
(* that was read and is behind all of them, or that of the last press.     *)
KeysPaired == pc \notin {"callback", "release"} => Len(keys) % 2 = 0

InHand ==
  pc = "callback" =>
    /\ msg \in 1 .. taken /\ Len(keys) % 2 = 0
    /\ \A b \in 1 .. Len(keys) : keys[b].n < msg

Pressed ==
  pc = "release" =>
    /\ msg \in 1 .. taken /\ texts[msg] \in {"up", "down"}
    /\ Len(keys) % 2 = 1
    /\ keys[Len(keys)].n = msg /\ keys[Len(keys)].key = KeyOf(texts[msg])

FromTexts == \A b \in 1 .. Len(keys) : keys[b].n \in 1 .. taken

Ahead == KeysPaired /\ InHand /\ Pressed /\ FromTexts
ReceiverInv == ReceiverTypeOK /\ Ahead /\ KeysFollowTexts

(* What KeysFollowTexts says of one key event.                             *)
Good(ks, ts, a) ==
  /\ ks[a].press = a % 2
  /\ ts[ks[a].n] = (IF ks[a].key = "XK_Up" THEN "up" ELSE "down")
  /\ \A b \in 1 .. a - 1 :
       IF a % 2 = 0 /\ b = a - 1 THEN ks[b].n = ks[a].n /\ ks[b].key = ks[a].key
       ELSE ks[b].n < ks[a].n

-----------------------------------------------------------------------------
LEMMA ReceiverTypeInit == ReceiverInit => ReceiverTypeOK
<1> SUFFICES ASSUME ReceiverInit PROVE ReceiverTypeOK
  OBVIOUS
<1>1. texts \in Seq(AllKinds) /\ Len(texts) = 0
  BY DEF ReceiverInit
<1>2. keys \in Seq(Keys)
  BY DEF ReceiverInit
<1>3. argument \in {"address", "name"}
  BY ReceiverAssumption DEF ReceiverInit
<1>4. msg \in 0 .. MaxTexts /\ Len(texts) <= MaxTexts /\ taken \in 0 .. Len(texts)
  BY <1>1, ReceiverAssumption DEF ReceiverInit
<1> QED
  BY <1>1, <1>2, <1>3, <1>4 DEF ReceiverInit, ReceiverTypeOK, Keys

(* An event of the message in hand is one of the receiver's.               *)
LEMMA EventType ==
  ASSUME NEW n \in 1 .. MaxTexts, NEW kind, NEW press \in {0, 1}, keys \in Seq(Keys)
  PROVE  Append(keys, Event(n, KeyOf(kind), press)) \in Seq(Keys)
<1>1. Event(n, KeyOf(kind), press) \in Keys
  BY DEF Event, KeyOf, Keys
<1> QED
  BY <1>1

LEMMA ReceiverTypeNext ==
  ReceiverTypeOK /\ Ahead /\ [ReceiverNext]_receiverVars => ReceiverTypeOK'
<1> SUFFICES ASSUME ReceiverTypeOK, Ahead, [ReceiverNext]_receiverVars PROVE ReceiverTypeOK'
  OBVIOUS
<1> USE ReceiverAssumption DEF ReceiverTypeOK, At, Goto
<1>k. keys \in Seq(Keys)
  BY DEF Keys
<1>1. CASE ClientInit
  BY <1>1 DEF ClientInit, client, outside
<1>2. CASE MainLoop
  BY <1>2 DEF MainLoop, client, outside
<1>3. CASE Loop
  BY <1>3 DEF Loop, client, outside
<1>4. CASE Poll
  BY <1>4 DEF Poll, outside
<1>5. CASE ReadNothing
  BY <1>5 DEF ReadNothing, client, outside
<1>6. CASE Read
  <2>1. PICK k \in 1 .. BufferTexts :
          /\ taken + k <= Len(texts)
          /\ taken' = taken + k
          /\ filled' = (filled \/ k = BufferTexts)
          /\ running' = (running /\ k # BufferTexts)
          /\ \/ pc' = "loop" /\ UNCHANGED <<msg, crashed>>
             \/ pc' = "callback" /\ msg' = taken + k /\ UNCHANGED crashed
             \/ crashed' = TRUE /\ UNCHANGED <<pc, msg>>
    BY <1>6 DEF Read, Consumed
  <2>2. UNCHANGED <<argument, hub, texts, cl, keys>>
    BY <1>6 DEF Read, outside
  <2>3. taken' \in 0 .. Len(texts) /\ msg' \in 0 .. MaxTexts
    BY <2>1
  <2>4. filled' \in BOOLEAN /\ running' \in BOOLEAN /\ crashed' \in BOOLEAN
    BY <2>1
  <2>5. pc' \in {"client_init", "client_main_loop", "loop", "poll", "read",
                 "callback", "release", "exit"}
    BY <2>1
  <2> QED
    BY <2>2, <2>3, <2>4, <2>5
<1>7. CASE Press
  <2>1. CASE texts[msg] \in {"up", "down"}
    <3>1. msg \in 1 .. MaxTexts
      BY <1>7 DEF Press, Ahead, InHand
    <3>2. keys' \in Seq(Keys)
      BY <3>1, <1>7, <2>1, <1>k, EventType DEF Press
    <3> QED
      BY <1>7, <2>1, <3>2 DEF Press, AfterPress, client, outside, Keys
  <2>2. CASE texts[msg] \notin {"up", "down"}
    BY <1>7, <2>2 DEF Press, client, outside
  <2> QED
    BY <2>1, <2>2
<1>8. CASE Release
  <2>1. msg \in 1 .. MaxTexts
    BY <1>8 DEF Release, Ahead, Pressed
  <2>2. keys' \in Seq(Keys)
    BY <2>1, <1>8, <1>k, EventType DEF Release
  <2> QED
    BY <1>8, <2>2 DEF Release, client, outside, Keys
<1>9. ASSUME NEW kind \in Kinds, HubWrites(kind) PROVE ReceiverTypeOK'
  <2>1. kind \in AllKinds
    OBVIOUS
  <2>2. /\ texts' \in Seq(AllKinds) /\ Len(texts') = Len(texts) + 1
        /\ Len(texts') <= MaxTexts
    BY <2>1, <1>9 DEF HubWrites
  <2>3. UNCHANGED <<argument, hub, pc, running, cl, msg, keys, crashed, filled, taken>>
    BY <1>9 DEF HubWrites, client
  <2>4. taken' \in 0 .. Len(texts')
    BY <2>2, <2>3
  <2> QED
    BY <2>2, <2>3, <2>4
<1>10. ASSUME NEW how \in {"eof", "reset"}, HubEnds(how) PROVE ReceiverTypeOK'
  <2>1. hub' \in {"eof", "reset"}
    BY <1>10 DEF HubEnds
  <2>2. UNCHANGED <<argument, texts, pc, running, cl, msg, keys, crashed, filled, taken>>
    BY <1>10 DEF HubEnds, client
  <2> QED
    BY <2>1, <2>2
<1>11. CASE UNCHANGED receiverVars
  BY <1>11 DEF receiverVars, client, outside
<1> QED
  BY <1>1, <1>2, <1>3, <1>4, <1>5, <1>6, <1>7, <1>8, <1>9, <1>10, <1>11 DEF ReceiverNext, Receive

-----------------------------------------------------------------------------
LEMMA AheadNext == ReceiverInv /\ [ReceiverNext]_receiverVars => Ahead'
<1> SUFFICES ASSUME ReceiverInv, [ReceiverNext]_receiverVars PROVE Ahead'
  OBVIOUS
<1> USE DEF ReceiverInv, ReceiverTypeOK, At, Goto
<1>1. CASE pc' \notin {"callback", "release"} /\ UNCHANGED <<pc, keys, texts, taken>>
  BY <1>1 DEF Ahead, KeysPaired, InHand, Pressed, FromTexts
<1>2. CASE UNCHANGED <<pc, keys, msg, texts, taken>>
  BY <1>2 DEF Ahead, KeysPaired, InHand, Pressed, FromTexts
<1>3. ASSUME pc \notin {"callback", "release"}, pc' \notin {"callback", "release"},
             UNCHANGED <<keys, texts, taken>>
      PROVE  Ahead'
  BY <1>3 DEF Ahead, KeysPaired, InHand, Pressed, FromTexts
<1>4. CASE ClientInit
  BY <1>4, <1>3 DEF ClientInit, outside
<1>5. CASE MainLoop
  BY <1>5, <1>2, <1>3 DEF MainLoop, outside
<1>6. CASE Loop
  BY <1>6, <1>3 DEF Loop, outside
<1>7. CASE Poll
  BY <1>7, <1>3 DEF Poll, outside
<1>8. CASE ReadNothing
  BY <1>8, <1>3 DEF ReadNothing, outside
<1>9. CASE Read
  <2>1. /\ pc = "read" /\ keys' = keys /\ taken' \in Nat /\ taken < taken'
        /\ \/ pc' = "loop"
           \/ pc' = "callback" /\ msg' = taken'
           \/ pc' = pc
    BY <1>9 DEF Read, Consumed
  <2>2. Len(keys) % 2 = 0 /\ \A b \in 1 .. Len(keys) : keys[b].n \in 1 .. taken
    BY <2>1 DEF Ahead, KeysPaired, FromTexts
  <2>3. \A b \in 1 .. Len(keys) : keys[b].n \in 1 .. taken' /\ keys[b].n < taken'
    BY <2>1, <2>2
  <2>4. pc' # "release"
    BY <2>1
  <2>5. KeysPaired' /\ Pressed' /\ FromTexts'
    BY <2>1, <2>2, <2>3, <2>4 DEF KeysPaired, Pressed, FromTexts
  <2>6. InHand'
    BY <2>1, <2>2, <2>3 DEF InHand
  <2> QED
    BY <2>5, <2>6 DEF Ahead
<1>10. CASE Press
  <2>1. /\ msg \in 1 .. taken /\ Len(keys) % 2 = 0
        /\ \A b \in 1 .. Len(keys) : keys[b].n < msg
    BY <1>10 DEF Press, Ahead, InHand
  <2>2. UNCHANGED <<texts, taken>>
    BY <1>10 DEF Press, outside
  <2>3. CASE texts[msg] \in {"up", "down"}
    <3>1. keys' = Append(keys, Event(msg, KeyOf(texts[msg]), 1)) /\ pc' = "release" /\ msg' = msg
      BY <1>10, <2>3 DEF Press, AfterPress
    <3>2. /\ Len(keys') = Len(keys) + 1
          /\ keys'[Len(keys')] = Event(msg, KeyOf(texts[msg]), 1)
          /\ \A b \in 1 .. Len(keys) : keys'[b] = keys[b]
      BY <3>1
    <3>3. Len(keys') % 2 = 1
      BY <3>2, <2>1
    <3>4. \A b \in 1 .. Len(keys') : keys'[b].n \in 1 .. taken
      BY <3>2, <2>1 DEF Event, Ahead, FromTexts
    <3>5. keys'[Len(keys')].n = msg /\ keys'[Len(keys')].key = KeyOf(texts[msg])
      BY <3>2 DEF Event
    <3> QED
      BY <3>1, <3>3, <3>4, <3>5, <2>1, <2>2, <2>3 DEF Ahead, KeysPaired, InHand, Pressed, FromTexts
  <2>4. CASE texts[msg] \notin {"up", "down"}
    <3>1. pc' = "loop" /\ keys' = keys
      BY <1>10, <2>4 DEF Press
    <3> QED
      BY <3>1, <2>1, <2>2 DEF Ahead, KeysPaired, InHand, Pressed, FromTexts
  <2> QED
    BY <2>3, <2>4
<1>11. CASE Release
  <2>1. /\ pc' = "loop" /\ UNCHANGED <<texts, taken>>
        /\ keys' = Append(keys, Event(msg, KeyOf(texts[msg]), 0))
    BY <1>11 DEF Release, outside
  <2>2. msg \in 1 .. taken /\ Len(keys) % 2 = 1
    BY <1>11 DEF Release, Ahead, Pressed
  <2>3. /\ Len(keys') = Len(keys) + 1
        /\ keys'[Len(keys')] = Event(msg, KeyOf(texts[msg]), 0)
        /\ \A b \in 1 .. Len(keys) : keys'[b] = keys[b]
    BY <2>1
  <2> DEFINE l == Len(keys)
  <2>l. l \in Nat
    OBVIOUS
  <2>4. Len(keys') % 2 = 0
    <3>1. l % 2 = 1 => (l + 1) % 2 = 0
      BY <2>l, SMTT(20)
    <3> QED
      BY <3>1, <2>2, <2>3
  <2>5. \A b \in 1 .. Len(keys') : keys'[b].n \in 1 .. taken
    <3>1. \A b \in 1 .. l : keys'[b].n \in 1 .. taken
      BY <2>3 DEF Ahead, FromTexts
    <3>2. keys'[l + 1].n = msg
      BY <2>3 DEF Event
    <3> HIDE DEF l
    <3> QED
      BY <3>1, <3>2, <2>l, <2>2, <2>3 DEF l
  <2> QED
    BY <2>1, <2>4, <2>5 DEF Ahead, KeysPaired, InHand, Pressed, FromTexts
<1>12. ASSUME NEW kind \in Kinds, HubWrites(kind) PROVE Ahead'
  <2>1. /\ UNCHANGED <<pc, msg, keys, taken>>
        /\ \A i \in 1 .. taken : texts'[i] = texts[i]
    BY <1>12 DEF HubWrites
  <2>2. KeysPaired' /\ InHand' /\ FromTexts'
    BY <2>1 DEF Ahead, KeysPaired, InHand, FromTexts
  <2>3. Pressed'
    BY <2>1 DEF Ahead, Pressed
  <2> QED
    BY <2>2, <2>3 DEF Ahead
<1>13. ASSUME NEW how \in {"eof", "reset"}, HubEnds(how) PROVE Ahead'
  BY <1>13, <1>2 DEF HubEnds
<1>14. CASE UNCHANGED receiverVars
  BY <1>14, <1>2 DEF receiverVars, outside
<1> QED
  BY <1>4, <1>5, <1>6, <1>7, <1>8, <1>9, <1>10, <1>11, <1>12, <1>13, <1>14 DEF ReceiverNext, Receive

-----------------------------------------------------------------------------
(* Only a press and a release change what KeysFollowTexts speaks of: texts *)
(* that were read stay what they are.                                      *)
LEMMA ReceiverUnchanged ==
  ASSUME ReceiverInv, keys' = keys, \A i \in 1 .. taken : texts'[i] = texts[i]
  PROVE  KeysFollowTexts'
BY DEF ReceiverInv, Ahead, FromTexts, KeysFollowTexts

LEMMA FollowNext == ReceiverInv /\ [ReceiverNext]_receiverVars => KeysFollowTexts'
<1> SUFFICES ASSUME ReceiverInv, [ReceiverNext]_receiverVars PROVE KeysFollowTexts'
  OBVIOUS
<1> USE DEF At, Goto
<1>t. ReceiverTypeOK /\ Ahead /\ KeysFollowTexts /\ keys \in Seq(Keys) /\ Len(keys) \in Nat
  BY DEF ReceiverInv, ReceiverTypeOK, Keys
<1>1. CASE UNCHANGED <<keys, texts>>
  BY <1>1, ReceiverUnchanged
<1>2. CASE Press
  <2>1. UNCHANGED texts
    BY <1>2 DEF Press, outside
  <2>2. CASE texts[msg] \in {"up", "down"}
    <3> DEFINE l == Len(keys)
    <3>1. l % 2 = 0 /\ \A b \in 1 .. l : keys[b].n < msg
      BY <1>2, <1>t DEF Press, Ahead, InHand
    <3>2. keys' = Append(keys, Event(msg, KeyOf(texts[msg]), 1))
      BY <1>2, <2>2 DEF Press
    <3>3. /\ Len(keys') = l + 1 /\ \A b \in 1 .. l : keys'[b] = keys[b]
          /\ keys'[l + 1] = Event(msg, KeyOf(texts[msg]), 1)
      BY <3>2, <1>t
    <3>4. /\ keys'[l + 1].n = msg /\ keys'[l + 1].press = 1
          /\ texts[msg] = IF keys'[l + 1].key = "XK_Up" THEN "up" ELSE "down"
      BY <3>3, <2>2 DEF Event, KeyOf
    <3>5. (l + 1) % 2 = 1
      BY <3>1, <1>t
    <3> HIDE DEF l
    <3>6. \A a \in 1 .. l : Good(keys, texts, a)
      BY <1>t DEF KeysFollowTexts, Good, l
    <3>7. ASSUME NEW a \in 1 .. l
          PROVE  Good(keys', texts', a)
      <4>1. keys'[a] = keys[a] /\ \A b \in 1 .. a - 1 : keys'[b] = keys[b]
        BY <3>3, <1>t DEF l
      <4> QED
        BY <4>1, <3>6, <2>1 DEF Good
    <3>8. \A b \in 1 .. l : keys'[b].n < keys'[l + 1].n
      BY <3>1, <3>3, <3>4
    <3>9. Good(keys', texts', l + 1)
      BY <3>4, <3>5, <3>8, <2>1, <1>t DEF l, Good
    <3>10. 1 .. Len(keys') = (1 .. l) \cup {l + 1}
      BY <3>3, <1>t DEF l
    <3> QED
      BY <3>7, <3>9, <3>10 DEF KeysFollowTexts, Good
  <2> QED
    BY <2>1, <2>2, <1>2, <1>1 DEF Press
<1>3. CASE Release
  <2>1. UNCHANGED texts
    BY <1>3 DEF Release, outside
  <2> DEFINE l == Len(keys)
  <2>2. /\ texts[msg] \in {"up", "down"} /\ l % 2 = 1
        /\ keys[l].n = msg /\ keys[l].key = KeyOf(texts[msg])
    BY <1>3, <1>t DEF Release, Ahead, Pressed
  <2>3. keys' = Append(keys, Event(msg, KeyOf(texts[msg]), 0))
    BY <1>3 DEF Release
  <2>4. /\ Len(keys') = l + 1 /\ \A b \in 1 .. l : keys'[b] = keys[b]
        /\ keys'[l + 1] = Event(msg, KeyOf(texts[msg]), 0)
    BY <2>3, <1>t
  <2>5. /\ keys'[l + 1].n = msg /\ keys'[l + 1].press = 0
        /\ keys'[l + 1].key = KeyOf(texts[msg])
        /\ texts[msg] = IF keys'[l + 1].key = "XK_Up" THEN "up" ELSE "down"
    BY <2>4, <2>2 DEF Event, KeyOf
  <2>6. l \in Nat
    BY <1>t
  <2>7. \A a \in 1 .. l : Good(keys, texts, a)
    BY <1>t DEF KeysFollowTexts, Good
  <2> HIDE DEF l
  <2>8. (l + 1) % 2 = 0 /\ l >= 1
    BY <2>2, <2>6
  <2>9. ASSUME NEW a \in 1 .. l
        PROVE  Good(keys', texts', a)
    <3>1. keys'[a] = keys[a] /\ \A b \in 1 .. a - 1 : keys'[b] = keys[b]
      BY <2>4, <2>6
    <3> QED
      BY <3>1, <2>7, <2>1 DEF Good
  <2>10. \A b \in 1 .. l - 1 : keys'[b].n < keys'[l + 1].n
    <3>1. ASSUME NEW b \in 1 .. l - 1 PROVE keys[b].n < keys[l].n
      <4>1. l \in 1 .. l /\ b \in 1 .. l - 1
        BY <2>6, <2>8
      <4> QED
        BY <4>1, <2>7, <2>2 DEF Good
    <3> QED
      BY <3>1, <2>2, <2>4, <2>5, <2>6
  <2>11. keys'[l].n = keys'[l + 1].n /\ keys'[l].key = keys'[l + 1].key
    BY <2>2, <2>4, <2>5, <2>6, <2>8
  <2>12. \A b \in 1 .. l :
           IF b = l THEN keys'[b].n = keys'[l + 1].n /\ keys'[b].key = keys'[l + 1].key
           ELSE keys'[b].n < keys'[l + 1].n
    BY <2>6, <2>10, <2>11
  <2>13. Good(keys', texts', l + 1)
    BY <2>1, <2>5, <2>6, <2>8, <2>12 DEF Good
  <2>14. 1 .. Len(keys') = (1 .. l) \cup {l + 1}
    BY <2>4, <2>6
  <2> QED
    BY <2>9, <2>13, <2>14 DEF KeysFollowTexts, Good
<1>4. ASSUME NEW kind \in Kinds, HubWrites(kind) PROVE KeysFollowTexts'
  <2>1. keys' = keys /\ \A i \in 1 .. taken : texts'[i] = texts[i]
    BY <1>4, <1>t DEF HubWrites, ReceiverTypeOK
  <2> QED
    BY <2>1, ReceiverUnchanged
<1>5. CASE ClientInit \/ MainLoop \/ Loop \/ Poll \/ ReadNothing \/ Read
  BY <1>5, <1>1 DEF ClientInit, MainLoop, Loop, Poll, ReadNothing, Read, outside
<1>6. ASSUME NEW how \in {"eof", "reset"}, HubEnds(how) PROVE KeysFollowTexts'
  BY <1>6, <1>1 DEF HubEnds
<1>7. CASE UNCHANGED receiverVars
  BY <1>7, <1>1 DEF receiverVars, outside
<1> QED
  BY <1>2, <1>3, <1>4, <1>5, <1>6, <1>7 DEF ReceiverNext, Receive

LEMMA ReceiverInvInit == ReceiverInit => ReceiverInv
<1> SUFFICES ASSUME ReceiverInit PROVE ReceiverInv
  OBVIOUS
<1>1. Len(keys) = 0
  BY DEF ReceiverInit
<1>2. Ahead
  BY <1>1, ReceiverAssumption DEF ReceiverInit, Ahead, KeysPaired, InHand, Pressed, FromTexts
<1>3. KeysFollowTexts
  BY <1>1 DEF KeysFollowTexts
<1> QED
  BY <1>2, <1>3, ReceiverTypeInit DEF ReceiverInv

LEMMA ReceiverInductive == ReceiverSpec => []ReceiverInv
<1>1. ReceiverInv /\ [ReceiverNext]_receiverVars => ReceiverInv'
  BY ReceiverTypeNext, AheadNext, FollowNext DEF ReceiverInv
<1> QED
  BY <1>1, ReceiverInvInit, PTL DEF ReceiverSpec

(* Every field of the receiver keeps its range.                            *)
THEOREM ReceiverTypeCorrect == ReceiverSpec => []ReceiverTypeOK
<1>1. ReceiverInv => ReceiverTypeOK
  BY DEF ReceiverInv
<1> QED
  BY <1>1, ReceiverInductive, PTL

(* Key events are pairs of press and release, one at most for a text, with *)
(* the key it names and in the order of the texts.                         *)
THEOREM FollowsTexts == ReceiverSpec => []KeysFollowTexts
<1>1. ReceiverInv => KeysFollowTexts
  BY DEF ReceiverInv
<1> QED
  BY <1>1, ReceiverInductive, PTL

(* A connected receiver stops for a reset, or for a read that filled its   *)
(* buffer, and for nothing else.                                           *)
THEOREM StopsWithCause == ReceiverSpec => []EndsWithCause
<1>1. ReceiverInit => EndsWithCause
  BY DEF ReceiverInit, EndsWithCause
<1>2. ReceiverTypeOK /\ EndsWithCause /\ [ReceiverNext]_receiverVars => EndsWithCause'
  <2> SUFFICES ASSUME ReceiverTypeOK, EndsWithCause, [ReceiverNext]_receiverVars PROVE EndsWithCause'
    OBVIOUS
  <2> USE DEF EndsWithCause
  <2>1. CASE ClientInit
    <3>1. running' = TRUE \/ UNCHANGED <<cl, running, hub, filled>>
      BY <2>1 DEF ClientInit, client, outside
    <3> QED
      BY <3>1
  <2>2. CASE Poll
    BY <2>2 DEF Poll, HangsUp, Revents, outside
  <2>3. CASE Read
    BY <2>3 DEF Read, outside
  <2>4. CASE MainLoop \/ Loop \/ ReadNothing \/ Press \/ Release
    BY <2>4 DEF MainLoop, Loop, ReadNothing, Press, Release, client, outside
  <2>5. ASSUME NEW kind \in Kinds, HubWrites(kind) PROVE EndsWithCause'
    BY <2>5 DEF HubWrites, client
  <2>6. ASSUME NEW how \in {"eof", "reset"}, HubEnds(how) PROVE EndsWithCause'
    BY <2>6 DEF HubEnds, client
  <2>7. CASE UNCHANGED receiverVars
    BY <2>7 DEF receiverVars, client, outside
  <2> QED
    BY <2>1, <2>2, <2>3, <2>4, <2>5, <2>6, <2>7 DEF ReceiverNext, Receive
<1> QED
  BY <1>1, <1>2, ReceiverTypeCorrect, PTL DEF ReceiverSpec

=================================================================================
