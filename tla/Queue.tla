-------------------------------- MODULE Queue --------------------------------
(***************************************************************************)
(* queue.c: a ring of MAX_SIZE_QUEUE pointers guarded by a mutex and a     *)
(* condition variable.  queue_push never blocks on a full ring, it answers *)
(* FALSE; queue_pop waits at most once, so it may answer NULL; a push      *)
(* broadcasts only when it makes the size 1.                               *)
(*                                                                         *)
(* Every access to the ring is made between pthread_mutex_lock and         *)
(* pthread_mutex_unlock.  The broadcast is a step of its own: until it     *)
(* happens there may be an element and a sleeping consumer.                *)
(***************************************************************************)
EXTENDS Integers, Sequences

CONSTANTS
  Producers,        (* threads that call queue_push on this queue          *)
  Consumers,        (* threads that call queue_pop on this queue           *)
  Values,           (* the non-NULL pointers that are pushed               *)
  MAX_SIZE_QUEUE,
  NULL,
  Nobody            (* the value of mutex when no thread holds it          *)

Threads == Producers \cup Consumers

ASSUME QueueAssumption ==
  /\ MAX_SIZE_QUEUE \in Nat \ {0}
  /\ Producers \cap Consumers = {}
  /\ NULL \notin Values        \* assert(str != NULL)
  /\ Nobody \notin Threads

VARIABLES
  queue, front, rear, size,    (* the fields of struct _Queue              *)
  mutex,                       (* the thread holding q->lock               *)
  pc,                          (* where each thread is                     *)
  res                          (* what its last operation returned         *)

ring == <<queue, front, rear, size>>
vars == <<queue, front, rear, size, mutex, pc, res>>

Slots == 0 .. MAX_SIZE_QUEUE - 1

(* Forms of the two operators below with a slip in them, for the runs      *)
(* that show the properties notice it.                                     *)
HasRoomOneTooMany(n) == n <= MAX_SIZE_QUEUE
MustBroadcastWhenFull(n) == n = MAX_SIZE_QUEUE

Advance(i) == (i + 1) % MAX_SIZE_QUEUE
HasRoom(n) == n < MAX_SIZE_QUEUE
MustBroadcast(n) == n = 1

Goto(t, label) == pc' = [pc EXCEPT ![t] = label]
Lock(t) == mutex = Nobody /\ mutex' = t
Unlock(t) == mutex' = Nobody
Return(t, r) == res' = [res EXCEPT ![t] = r]

Init ==
  /\ queue = [i \in Slots |-> NULL]
  /\ front = 0 /\ rear = 0 /\ size = 0
  /\ mutex = Nobody
  /\ pc = [t \in Threads |-> "idle"]
  /\ res = [t \in Threads |-> NULL]

-----------------------------------------------------------------------------
(* queue_push *)

PushLock(p) ==
  /\ pc[p] = "idle" /\ Lock(p) /\ Goto(p, "push")
  /\ UNCHANGED <<ring, res>>

PushStore(p, v) ==
  /\ pc[p] = "push"
  /\ HasRoom(size)
  /\ queue' = [queue EXCEPT ![front] = v]
  /\ front' = Advance(front)
  /\ size' = size + 1
  /\ Return(p, TRUE)
  /\ Goto(p, IF MustBroadcast(size + 1) THEN "broadcast" ELSE "unlock")
  /\ UNCHANGED <<rear, mutex>>

PushFull(p) ==
  /\ pc[p] = "push"
  /\ ~HasRoom(size)
  /\ Return(p, FALSE)
  /\ Goto(p, "unlock")
  /\ UNCHANGED <<ring, mutex>>

(* pthread_cond_broadcast: every sleeper has to take the mutex again.      *)
PushBroadcast(p) ==
  /\ pc[p] = "broadcast"
  /\ pc' = [t \in Threads |-> IF t = p THEN "unlock"
                              ELSE IF pc[t] = "asleep" THEN "woken" ELSE pc[t]]
  /\ UNCHANGED <<ring, mutex, res>>

-----------------------------------------------------------------------------
(* queue_pop *)

PopLock(c) ==
  /\ pc[c] = "idle" /\ Lock(c) /\ Goto(c, "pop")
  /\ UNCHANGED <<ring, res>>

PopWait(c) ==
  /\ pc[c] = "pop"
  /\ size = 0
  /\ Unlock(c) /\ Goto(c, "asleep")
  /\ UNCHANGED <<ring, res>>

(* pthread_cond_wait may return without a broadcast.                       *)
SpuriousWake(c) ==
  /\ pc[c] = "asleep" /\ Goto(c, "woken")
  /\ UNCHANGED <<ring, mutex, res>>

PopRelock(c) ==
  /\ pc[c] = "woken" /\ Lock(c) /\ Goto(c, "after wait")
  /\ UNCHANGED <<ring, res>>

PopTake(c) ==
  /\ pc[c] \in {"pop", "after wait"}
  /\ size > 0
  /\ Return(c, queue[rear])
  /\ rear' = Advance(rear)
  /\ size' = size - 1
  /\ Goto(c, "unlock")
  /\ UNCHANGED <<queue, front, mutex>>

PopNothing(c) ==
  /\ pc[c] = "after wait"
  /\ size = 0
  /\ Return(c, NULL)
  /\ Goto(c, "unlock")
  /\ UNCHANGED <<ring, mutex>>

(* The unlock and the return that end both operations.                     *)
Leave(t) ==
  /\ pc[t] = "unlock" /\ Unlock(t) /\ Goto(t, "idle")
  /\ UNCHANGED <<ring, res>>

-----------------------------------------------------------------------------
Push(p) ==
  \/ PushLock(p) \/ PushFull(p) \/ PushBroadcast(p)
  \/ \E v \in Values : PushStore(p, v)

Pop(c) ==
  \/ PopLock(c) \/ PopWait(c) \/ SpuriousWake(c)
  \/ PopRelock(c) \/ PopTake(c) \/ PopNothing(c)

Next ==
  \/ \E p \in Producers : Push(p)
  \/ \E c \in Consumers : Pop(c)
  \/ \E t \in Threads : Leave(t)

Spec == Init /\ [][Next]_vars

(* A thread inside an operation keeps running, a consumer calls pop again  *)
(* and again (the loops of the message processor and of the write thread)  *)
(* and wins the mutex some day if it is free again and again.  Nobody has  *)
(* to push, and no sleeper wakes without a broadcast.                      *)
Fairness ==
  /\ \A p \in Producers :
       WF_vars(PushFull(p) \/ PushBroadcast(p) \/ \E v \in Values : PushStore(p, v))
  /\ \A c \in Consumers :
       /\ WF_vars(PopWait(c) \/ PopTake(c) \/ PopNothing(c))
       /\ SF_vars(PopLock(c)) /\ SF_vars(PopRelock(c))
  /\ \A t \in Threads : WF_vars(Leave(t))

FairSpec == Spec /\ Fairness

-----------------------------------------------------------------------------
(* Properties *)

CriticalSection == {"push", "broadcast", "pop", "after wait", "unlock"}
Places == CriticalSection \cup {"idle", "asleep", "woken"}

(* The fields keep their ranges and every thread is somewhere in its       *)
(* operation.                                                              *)
TypeOK ==
  /\ queue \in [Slots -> Values \cup {NULL}]
  /\ front \in Slots /\ rear \in Slots
  /\ size \in 0 .. MAX_SIZE_QUEUE
  /\ mutex \in Threads \cup {Nobody}
  /\ pc \in [Threads -> Places]
  /\ res \in [Threads -> Values \cup {NULL, TRUE, FALSE}]

(* What the ring holds, oldest first.                                      *)
Contents == [i \in 1 .. size |-> queue[(rear + i - 1) % MAX_SIZE_QUEUE]]

(* front is where the next element goes: right behind the youngest one,    *)
(* and no slot between rear and front holds NULL or a leftover of it.      *)
RingConsistent ==
  /\ front = (rear + size) % MAX_SIZE_QUEUE
  /\ \A i \in 1 .. size : Contents[i] \in Values

(* No lost wake-up: a consumer sleeps beside an element only until the     *)
(* push that brought the element has broadcast, although later pushes do   *)
(* not broadcast.                                                          *)
NoSleeperBesideElement ==
  size > 0 /\ (\E c \in Consumers : pc[c] = "asleep")
    => \E p \in Producers : pc[p] = "broadcast"

(* What the ring, its lock and its sleepers keep at every step.            *)
QueueSafe == TypeOK /\ RingConsistent /\ NoSleeperBesideElement

(* queue_push and queue_pop are the atomic operations of a bounded FIFO:   *)
(* their answers (TRUE, FALSE, an element, NULL) are right at one instant. *)
Fifo == INSTANCE BoundedFifo
          WITH contents <- Contents, answer <- res,
               Capacity <- MAX_SIZE_QUEUE, None <- NULL
ImplementsFifo == Fifo!Spec

(* While consumers keep calling queue_pop, whatever is in the queue is     *)
(* taken: the queue does not stay non-empty with nobody taking.            *)
ElementsAreTaken ==
  size > 0 ~> \E c \in Consumers : pc[c] = "unlock" /\ res[c] # NULL
=============================================================================
