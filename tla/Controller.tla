------------------------------ MODULE Controller ------------------------------
(***************************************************************************)
(* The phone: the page script (bluetooth.js) and the Bluetooth plugin it   *)
(* calls through the bridge (BluetoothClient.java).  The script runs one   *)
(* handler at a time and only queues calls; the plugin executes them in    *)
(* order, later, and its answers come back later still.  What the commands *)
(* of the plugin do is external: their package is not in the repository.   *)
(* Accelerations are integers, in tenths of the unit of the sensor.        *)
(***************************************************************************)
EXTENDS Integers, Sequences

CONSTANTS
  Dimensions,   (* how many axes the accelerometer has                     *)
  Readings,     (* what the accelerometer may report on an axis            *)
  Paired,       (* the names of the paired devices                         *)
  Names,        (* the values of the options of the select element         *)
  NoDevice,
  MaxReadings, MaxTaps   (* bounds of the runs                             *)

ASSUME ControllerAssumption ==
  /\ Dimensions \in Nat /\ Readings \subseteq Int
  /\ Paired \subseteq Names /\ NoDevice \notin Names
  /\ MaxReadings \in Nat /\ MaxTaps \in Nat

VARIABLES
  ready,        (* the handler of deviceready has run                      *)
  connected,
  firstAccelerometerValue,
  position,     (* x, y and z of the script                                *)
  requests,     (* calls the plugin has not executed                       *)
  answers,      (* answers the script has not seen                         *)
  btDevice,
  btSocket,     (* the number of the socket, 0 for null                    *)
  sockets,      (* the state of every socket made                          *)
  base,         (* the last reading from which no movement could be sent   *)
  followed,     (* the readings since then                                 *)
  written,      (* the sum of the movements the plugin was given           *)
  taps, readings

page == <<ready, connected, firstAccelerometerValue, position>>
plugin == <<btDevice, btSocket, sockets>>
bounds == <<taps, readings>>
ghosts == <<base, followed, written>>
vars == <<page, plugin, requests, answers, ghosts, bounds>>

noiseValue == 3
noiseValueSummed == 1

Axes == 1..Dimensions
Vectors == [Axes -> Int]
Sums(v) ==
  LET sum[n \in 0..Len(v)] == IF n = 0 THEN 0 ELSE sum[n - 1] + v[n]
  IN  sum
Sum(v) == Sums(v)[Len(v)]
Abs(n) == IF n < 0 THEN -n ELSE n

Init ==
  /\ ready = FALSE /\ connected = FALSE
  /\ firstAccelerometerValue = TRUE
  /\ position \in [Axes -> {0}]
  /\ requests = <<>> /\ answers = <<>>
  /\ btDevice = NoDevice /\ btSocket = 0 /\ sockets = <<>>
  /\ base = position /\ followed = 0 /\ written = position
  /\ taps = 0 /\ readings = 0

Exec(action, argument) ==
  requests' = Append(requests, [action |-> action, argument |-> argument])

-----------------------------------------------------------------------------
(* onDeviceReadyBT: asks for the devices, then watches the accelerometer.  *)
OnDeviceReadyBT ==
  /\ ~ready /\ ready' = TRUE
  /\ Exec("init", NoDevice)
  /\ UNCHANGED <<connected, firstAccelerometerValue, position>>
  /\ UNCHANGED <<plugin, answers, ghosts, bounds>>

(* selectDevice, at the end of a touch of the button.                      *)
MayConnectFaulty == TRUE
MayConnect == ~connected

SelectDevice ==
  /\ taps < MaxTaps /\ taps' = taps + 1
  /\ \/ ~MayConnect /\ UNCHANGED requests
     \/ MayConnect /\ \E deviceName \in Names : Exec("connect", deviceName)
  /\ UNCHANGED <<page, plugin, answers, ghosts, readings>>

(* What onAccSuccess takes for movement: changes below the noise are none. *)
MovementFaultyAtNoise(event) ==
  [a \in Axes |-> LET d == event[a] - position[a]
                  IN  IF Abs(d) <= noiseValue THEN 0 ELSE d]

Movement(event) ==
  [a \in Axes |-> LET d == event[a] - position[a]
                  IN  IF Abs(d) < noiseValue THEN 0 ELSE d]

Significant(d) == Sum([a \in Axes |-> Abs(d[a])]) > noiseValueSummed

Unsent == firstAccelerometerValue \/ ~connected
Sends(event) == ~Unsent /\ Significant(Movement(event))

(* onAccSuccess, every 100 milliseconds once the watch has begun.          *)
OnAccSuccess ==
  /\ ready /\ readings < MaxReadings /\ readings' = readings + 1
  /\ \E event \in [Axes -> Readings] :
       /\ IF Sends(event) THEN Exec("sendmsg", Movement(event)) ELSE UNCHANGED requests
       /\ position' = event
       /\ IF Unsent THEN base' = event /\ followed' = 0
          ELSE UNCHANGED base /\ followed' = followed + 1
  /\ firstAccelerometerValue' = FALSE
  /\ UNCHANGED <<ready, connected, plugin, answers, written, taps>>

-----------------------------------------------------------------------------
State(s) == IF s = 0 THEN "null" ELSE sockets[s]

CloseOldFaultyNever == sockets
CloseOld == IF btSocket = 0 THEN sockets ELSE [sockets EXCEPT ![btSocket] = "closed"]

(* bluetoothConnect.  close or the reflective createRfcommSocket may throw *)
(* and the exception is only printed: the old socket stays in its field.   *)
BluetoothConnect ==
  \/ btDevice' = NoDevice /\ UNCHANGED <<btSocket, sockets>>
  \/ btDevice' # NoDevice /\ UNCHANGED <<btSocket, sockets>> /\ btSocket # 0
  \/ btDevice' # NoDevice /\ sockets' = CloseOld /\ UNCHANGED btSocket
  \/ /\ btDevice' # NoDevice
     /\ sockets' = Append(CloseOld, "open")
     /\ btSocket' = Len(sockets) + 1

(* External: ConnectCommand looks the name up and notes the device it      *)
(* found.  bluetoothConnect itself always answers true; the command may    *)
(* also fail without it, and either way its answer is one of success, one  *)
(* other than "true", or an error: the script only tells the first apart.  *)
ConnectCommand(name) ==
  /\ \/ /\ btDevice' = IF name \in Paired THEN name ELSE NoDevice
        /\ BluetoothConnect
     \/ UNCHANGED plugin
  /\ \E ok \in BOOLEAN : answers' = Append(answers, [action |-> "connect", ok |-> ok])
  /\ UNCHANGED written

(* External: SendMessageCommand writes to the socket, or answers an error. *)
SendMessageCommand(d) ==
  /\ answers' = Append(answers, [action |-> "sendmsg", ok |-> State(btSocket) = "open"])
  /\ written' = [a \in Axes |-> written[a] + d[a]]
  /\ UNCHANGED plugin

(* External: InitCommand answers the names of the paired devices.          *)
InitCommand ==
  /\ answers' = Append(answers, [action |-> "init", ok |-> TRUE])
  /\ UNCHANGED <<plugin, written>>

(* execute of the plugin: the command named by the first call that waits.  *)
Execute ==
  /\ requests # <<>> /\ requests' = Tail(requests)
  /\ LET call == Head(requests)
     IN  \/ call.action = "init" /\ InitCommand
         \/ call.action = "connect" /\ ConnectCommand(call.argument)
         \/ call.action = "sendmsg" /\ SendMessageCommand(call.argument)
  /\ UNCHANGED <<page, base, followed, bounds>>

Connects(answer) == answer.action = "connect" /\ answer.ok

(* The success and error handlers given to cordova.exec: any answer but    *)
(* success only alerts, and the button connects again.                     *)
OnAnswer ==
  /\ answers # <<>> /\ answers' = Tail(answers)
  /\ connected' = (connected \/ Connects(Head(answers)))
  /\ UNCHANGED <<ready, firstAccelerometerValue, position>>
  /\ UNCHANGED <<plugin, requests, ghosts, bounds>>

(* External: the hub, or the radio, ends the connection.                   *)
LinkLost ==
  /\ State(btSocket) = "open"
  /\ sockets' = [sockets EXCEPT ![btSocket] = "closed"]
  /\ UNCHANGED <<page, requests, answers, btDevice, btSocket, ghosts, bounds>>

Next ==
  \/ OnDeviceReadyBT \/ SelectDevice \/ OnAccSuccess
  \/ Execute \/ OnAnswer \/ LinkLost

Spec == Init /\ [][Next]_vars

-----------------------------------------------------------------------------
Calls == {requests[i] : i \in 1..Len(requests)}
Connecting == \E call \in Calls : call.action = "connect"

(* Every field keeps its range, and every socket the plugin made is in     *)
(* sockets.                                                                *)
TypeOK ==
  /\ {ready, connected, firstAccelerometerValue} \subseteq BOOLEAN
  /\ position \in Vectors /\ base \in Vectors /\ written \in Vectors
  /\ followed \in Nat
  /\ btDevice \in Paired \cup {NoDevice}
  /\ sockets \in Seq({"open", "closed"}) /\ btSocket \in 0..Len(sockets)
  /\ \A call \in Calls : \/ call.action = "init"
                         \/ call.action = "connect" /\ call.argument \in Names
                         \/ call.action = "sendmsg" /\ call.argument \in Vectors
  /\ answers \in Seq([action : {"init", "connect", "sendmsg"}, ok : BOOLEAN])

(* However often the button is touched before the first answer, and        *)
(* whatever fails in bluetoothConnect: no socket but the current one is    *)
(* open, so the hub never holds two connections of one phone.              *)
OneOpenSocket ==
  \A s \in 1..Len(sockets) : sockets[s] = "open" => s = btSocket

(* What the plugin was given and what still waits in the bridge add up to  *)
(* the movement since the last reading that could not be sent, but for     *)
(* what each reading may drop, which is below the noise: connecting, or    *)
(* being refused, while the phone moves neither loses nor repeats a step.  *)
Moves(call, a) == IF call.action = "sendmsg" THEN call.argument[a] ELSE 0
Waiting(a) == Sum([i \in 1..Len(requests) |-> Moves(requests[i], a)])

Dropped(a) == (position[a] - base[a]) - (written[a] + Waiting(a))

MovementConserved ==
  \A a \in Axes : Abs(Dropped(a)) <= (noiseValue - 1) * followed

(* The script never takes connected back and selectDevice does nothing     *)
(* once it is set: a link that is dead when no call to connect is on its   *)
(* way stays dead, whatever the user does.                                 *)
Dead == connected /\ State(btSocket) # "open" /\ ~Connecting
DeadLinkStaysDead == [][Dead => Dead']_vars

=============================================================================
