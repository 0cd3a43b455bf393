------------------------------ MODULE MCClients ------------------------------
(***************************************************************************)
(* Instances for TLC of the two clients of the hub, which share nothing:   *)
(* a behaviour is one of the phone or one of the events receiver, while    *)
(* the other stays in its first states.  The option "null" of the page is  *)
(* a name without a device; the readings differ by less than the noise     *)
(* threshold, by it, and by more.                                          *)
(***************************************************************************)
EXTENDS Controller, Receiver

VARIABLE scene

all == <<scene, vars, receiverVars>>

AllInit ==
  /\ scene \in {"phone", "receiver"}
  /\ Init
  /\ ReceiverInit /\ (scene = "phone" => argument = "address" /\ hub = "up")

InPhone == scene = "phone" /\ UNCHANGED <<scene, receiverVars>>
InReceiver == scene = "receiver" /\ UNCHANGED <<scene, vars>>

AllNext ==
  \/ InPhone /\ Next
  \/ InReceiver /\ ReceiverNext

AllSpec == AllInit /\ [][AllNext]_all

(* The fairness of Receiver; the phone owes nothing here.                  *)
AllFairSpec == AllSpec /\ WF_all(InReceiver /\ Receive)
=============================================================================
