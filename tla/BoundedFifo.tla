----------------------------- MODULE BoundedFifo -----------------------------
(***************************************************************************)
(* What a queue of the hub promises the threads that share it: a bounded   *)
(* first-in-first-out buffer whose operations happen at one instant.  A    *)
(* push is refused only at the instant the buffer is full, a pop comes     *)
(* back empty-handed only at an instant the buffer is empty, and whatever  *)
(* is taken is the oldest element.  Queue.tla is shown to implement this   *)
(* module; Listener.tla uses its queues at this level.                     *)
(***************************************************************************)
EXTENDS Naturals, Sequences

CONSTANTS
  Producers,   (* threads that push                                        *)
  Consumers,   (* threads that pop                                         *)
  Values,      (* what is pushed                                           *)
  Capacity,    (* elements the buffer holds at most                        *)
  None         (* the empty-handed answer of a pop (NULL in the code)      *)

VARIABLES
  contents,    (* the buffered elements, oldest first                      *)
  answer       (* what the last operation of each thread returned          *)

vars == <<contents, answer>>

Answer(t, a) == answer' = [answer EXCEPT ![t] = a]

Init ==
  /\ contents = <<>>
  /\ answer = [t \in Producers \cup Consumers |-> None]

Accept(p, v) ==
  /\ Len(contents) < Capacity
  /\ contents' = Append(contents, v)
  /\ Answer(p, TRUE)

Refuse(p) ==
  /\ Len(contents) = Capacity
  /\ Answer(p, FALSE)
  /\ UNCHANGED contents

Take(c) ==
  /\ contents # <<>>
  /\ contents' = Tail(contents)
  /\ Answer(c, Head(contents))

Miss(c) ==
  /\ contents = <<>>
  /\ Answer(c, None)
  /\ UNCHANGED contents

Next ==
  \/ \E p \in Producers : Refuse(p) \/ \E v \in Values : Accept(p, v)
  \/ \E c \in Consumers : Take(c) \/ Miss(c)

Spec == Init /\ [][Next]_vars
=============================================================================
