------------------------------ MODULE MCListener ------------------------------
(* Instances of Listener for TLC: one cfg for each question, with the      *)
(* peers, servers and signals that its question needs and no others.       *)
EXTENDS Listener

(* The peers send two texts between them: one of them two, or two one.     *)
TwoTexts == \A c, d \in Conns : c # d => sent[c] + sent[d] <= 2
=============================================================================
