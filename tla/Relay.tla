-------------------------------- MODULE Relay --------------------------------
(***************************************************************************)
(* What the hub promises its peers, whatever its threads do: a text that   *)
(* a peer sent is handed to another peer at most once, after every earlier *)
(* text of the same sender that this peer got, under the number the hub    *)
(* gave the sender, and only if it was sent to everyone or to that peer.   *)
(* Texts may be lost.  Listener.tla is shown to implement this module.     *)
(***************************************************************************)
EXTENDS Integers, Sequences

CONSTANTS
  Peers,
  MaxSend,     (* texts a peer sends at most                               *)
  Numbers,     (* what "to" may hold, and the numbers of peers             *)
  Unknown      (* the number of a peer the hub does not know               *)

VARIABLES
  number,      (* the number the hub gave each peer                        *)
  sent,        (* how many texts each peer has sent                        *)
  handed       (* the texts handed to each peer                            *)

vars == <<number, sent, handed>>

Init ==
  /\ number = [p \in Peers |-> Unknown]
  /\ sent = [p \in Peers |-> 0]
  /\ handed = [p \in Peers |-> <<>>]

(* Numbers are given once and for all.                                     *)
Admit(p, f) ==
  /\ number[p] = Unknown /\ f # Unknown
  /\ number' = [number EXCEPT ![p] = f]
  /\ UNCHANGED <<sent, handed>>

Send(p) ==
  /\ sent[p] < MaxSend
  /\ sent' = [sent EXCEPT ![p] = @ + 1]
  /\ UNCHANGED <<number, handed>>

HandedFrom(p, q) == {handed[q][k].n : k \in {h \in DOMAIN handed[q] : handed[q][h].src = p}}

Hand(p, n, to, q) ==
  /\ number[p] # Unknown /\ number[q] # Unknown
  /\ n <= sent[p] /\ \A m \in HandedFrom(p, q) : m < n
  /\ to \in {0, number[q]}
  /\ handed' = [handed EXCEPT
       ![q] = Append(@, [type |-> "MESSAGE", src |-> p, n |-> n, from |-> number[p], to |-> to])]
  /\ UNCHANGED <<number, sent>>

Next ==
  \E p \in Peers :
    \/ \E f \in Numbers : Admit(p, f)
    \/ Send(p)
    \/ \E q \in Peers, n \in 1 .. MaxSend, to \in Numbers : Hand(p, n, to, q)

Spec == Init /\ [][Next]_vars
=============================================================================
