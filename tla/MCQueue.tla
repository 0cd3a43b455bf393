------------------------------- MODULE MCQueue -------------------------------
(* Instances of Queue for TLC: rival producers and rival consumers.        *)
EXTENDS Queue
=============================================================================
