----------------------------- MODULE QueueProofs -----------------------------
(***************************************************************************)
(* Proofs about queue.c for every number of threads and every capacity:    *)
(* the inductive invariant, the safety properties of Queue that follow     *)
(* from it, and that Queue implements BoundedFifo.                         *)
(***************************************************************************)
EXTENDS Queue, SequenceTheorems, TLAPS

(* A position of the ring moved by at most one turn, without %.            *)
LEMMA ModWrap ==
  ASSUME NEW n \in Nat \ {0}, NEW x \in 0 .. n - 1, NEW y \in 0 .. n
  PROVE  (x + y) % n = IF x + y < n THEN x + y ELSE x + y - n
BY SMT

LEMMA AdvanceInSlots == \A i \in Slots : Advance(i) \in Slots
BY SMT, QueueAssumption DEF Advance, Slots

(* A thread is inside lock and unlock exactly when it holds the mutex, and *)
(* is at a place of the operation it calls.                                *)
LockInv ==
  /\ \A t \in Threads : pc[t] \in CriticalSection <=> mutex = t
  /\ \A p \in Producers : pc[p] \in {"idle", "push", "broadcast", "unlock"}
  /\ \A c \in Consumers : pc[c] \notin {"push", "broadcast"}

IInv == TypeOK /\ LockInv /\ RingConsistent /\ NoSleeperBesideElement

-----------------------------------------------------------------------------
(* RingConsistent and Contents in terms of slots.                          *)
LEMMA ContentsSlots ==
  ASSUME TypeOK
  PROVE  /\ \A i \in 1 .. size :
              Contents[i] = queue[(rear + i - 1) % MAX_SIZE_QUEUE]
         /\ \A i \in 1 .. size : (rear + i - 1) % MAX_SIZE_QUEUE \in Slots
<1>1. \A i \in 1 .. size : i - 1 \in 0 .. MAX_SIZE_QUEUE /\ rear + i - 1 = rear + (i - 1)
  BY SMT, QueueAssumption DEF TypeOK, Slots
<1>2. \A i \in 1 .. size : (rear + i - 1) % MAX_SIZE_QUEUE \in Slots
  BY <1>1, SMT, QueueAssumption DEF TypeOK, Slots
<1> QED  BY <1>2 DEF Contents

LEMMA InitIInv == Init => IInv
<1> SUFFICES ASSUME Init PROVE IInv  OBVIOUS
<1>1. TypeOK
  BY QueueAssumption DEF Init, TypeOK, Slots, Places, CriticalSection
<1>2. LockInv
  BY QueueAssumption DEF Init, LockInv, CriticalSection, Threads
<1>3. RingConsistent
  BY QueueAssumption, ModWrap DEF Init, RingConsistent, Contents
<1>4. NoSleeperBesideElement
  BY DEF Init, NoSleeperBesideElement
<1> QED  BY <1>1, <1>2, <1>3, <1>4 DEF IInv

(* Every step keeps the types.                                             *)
LEMMA TypeStep == TypeOK /\ LockInv /\ [Next]_vars => TypeOK'
<1> SUFFICES ASSUME TypeOK, LockInv, [Next]_vars PROVE TypeOK'  OBVIOUS
<1> USE QueueAssumption DEF TypeOK, Threads, Places, CriticalSection, Goto, Lock, Unlock, Return, ring
<1>a. \A i \in Slots : Advance(i) \in Slots
  BY AdvanceInSlots
<1>1. ASSUME NEW p \in Producers, PushLock(p) PROVE TypeOK'
  BY <1>1 DEF PushLock
<1>2. ASSUME NEW p \in Producers, NEW v \in Values, PushStore(p, v) PROVE TypeOK'
  <2>1. size' \in 0 .. MAX_SIZE_QUEUE
    <3>1. MAX_SIZE_QUEUE \in Nat /\ size \in 0 .. MAX_SIZE_QUEUE
      OBVIOUS
    <3>2. size < MAX_SIZE_QUEUE /\ size' = size + 1
      BY <1>2 DEF PushStore, HasRoom
    <3> HIDE DEF TypeOK
    <3> QED  BY <3>1, <3>2
  <2>2. front' \in Slots /\ queue' \in [Slots -> Values \cup {NULL}]
    BY <1>2, <1>a DEF PushStore
  <2>3. pc' \in [Threads -> Places] /\ res' \in [Threads -> Values \cup {NULL, TRUE, FALSE}]
    BY <1>2 DEF PushStore
  <2> QED  BY <1>2, <2>1, <2>2, <2>3 DEF PushStore
<1>3. ASSUME NEW p \in Producers, PushFull(p) PROVE TypeOK'
  BY <1>3 DEF PushFull
<1>4. ASSUME NEW p \in Producers, PushBroadcast(p) PROVE TypeOK'
  BY <1>4 DEF PushBroadcast
<1>5. ASSUME NEW c \in Consumers, PopLock(c) PROVE TypeOK'
  BY <1>5 DEF PopLock
<1>6. ASSUME NEW c \in Consumers, PopWait(c) PROVE TypeOK'
  BY <1>6 DEF PopWait
<1>7. ASSUME NEW c \in Consumers, SpuriousWake(c) PROVE TypeOK'
  BY <1>7 DEF SpuriousWake
<1>8. ASSUME NEW c \in Consumers, PopRelock(c) PROVE TypeOK'
  BY <1>8 DEF PopRelock
<1>9. ASSUME NEW c \in Consumers, PopTake(c) PROVE TypeOK'
  <2>1. size' \in 0 .. MAX_SIZE_QUEUE
    <3>1. MAX_SIZE_QUEUE \in Nat /\ size \in 0 .. MAX_SIZE_QUEUE
      OBVIOUS
    <3>2. size > 0 /\ size' = size - 1
      BY <1>9 DEF PopTake
    <3> HIDE DEF TypeOK
    <3> QED  BY <3>1, <3>2
  <2>2. rear' \in Slots
    BY <1>9, <1>a DEF PopTake
  <2>3. pc' \in [Threads -> Places] /\ res' \in [Threads -> Values \cup {NULL, TRUE, FALSE}]
    BY <1>9 DEF PopTake
  <2> QED  BY <1>9, <2>1, <2>2, <2>3 DEF PopTake
<1>10. ASSUME NEW c \in Consumers, PopNothing(c) PROVE TypeOK'
  BY <1>10 DEF PopNothing
<1>11. ASSUME NEW t \in Threads, Leave(t) PROVE TypeOK'
  BY <1>11 DEF Leave
<1>12. CASE UNCHANGED vars
  BY <1>12 DEF vars
<1> QED
  BY <1>1, <1>2, <1>3, <1>4, <1>5, <1>6, <1>7, <1>8, <1>9, <1>10, <1>11, <1>12
     DEF Next, Push, Pop

(* The mutex discipline: what makes one thread at a time touch the ring.   *)
LEMMA LockStep == TypeOK /\ LockInv /\ [Next]_vars => LockInv'
<1> SUFFICES ASSUME TypeOK, LockInv, [Next]_vars PROVE LockInv'  OBVIOUS
<1>t. /\ pc \in [Threads -> Places] /\ mutex \in Threads \cup {Nobody}
      /\ Nobody \notin Threads
      /\ \A p \in Producers : p \in Threads /\ p \notin Consumers
      /\ \A c \in Consumers : c \in Threads /\ c \notin Producers
  BY QueueAssumption DEF TypeOK, Threads
<1> USE <1>t DEF LockInv, CriticalSection, Goto, Lock, Unlock
<1>1. ASSUME NEW p \in Producers, PushLock(p) PROVE LockInv'
  BY <1>1 DEF PushLock
<1>2. ASSUME NEW p \in Producers, NEW v \in Values, PushStore(p, v) PROVE LockInv'
  BY <1>2 DEF PushStore
<1>3. ASSUME NEW p \in Producers, PushFull(p) PROVE LockInv'
  BY <1>3 DEF PushFull
<1>4. ASSUME NEW p \in Producers, PushBroadcast(p) PROVE LockInv'
  BY <1>4 DEF PushBroadcast
<1>5. ASSUME NEW c \in Consumers, PopLock(c) PROVE LockInv'
  BY <1>5 DEF PopLock
<1>6. ASSUME NEW c \in Consumers, PopWait(c) PROVE LockInv'
  BY <1>6 DEF PopWait
<1>7. ASSUME NEW c \in Consumers, SpuriousWake(c) PROVE LockInv'
  BY <1>7 DEF SpuriousWake
<1>8. ASSUME NEW c \in Consumers, PopRelock(c) PROVE LockInv'
  BY <1>8 DEF PopRelock
<1>9. ASSUME NEW c \in Consumers, PopTake(c) PROVE LockInv'
  BY <1>9 DEF PopTake
<1>10. ASSUME NEW c \in Consumers, PopNothing(c) PROVE LockInv'
  BY <1>10 DEF PopNothing
<1>11. ASSUME NEW t \in Threads, Leave(t) PROVE LockInv'
  BY <1>11 DEF Leave
<1>12. CASE UNCHANGED vars
  BY <1>12 DEF vars
<1> QED
  BY <1>1, <1>2, <1>3, <1>4, <1>5, <1>6, <1>7, <1>8, <1>9, <1>10, <1>11, <1>12
     DEF Next, Push, Pop

-----------------------------------------------------------------------------
(* What the two steps that move the ring do to its contents.               *)
LEMMA StoreAppends ==
  ASSUME TypeOK, RingConsistent, NEW p \in Producers, NEW v \in Values, PushStore(p, v)
  PROVE  Contents' = Append(Contents, v) /\ front' = (rear' + size') % MAX_SIZE_QUEUE
<1>1. /\ MAX_SIZE_QUEUE \in Nat \ {0} /\ size \in Nat /\ size < MAX_SIZE_QUEUE
      /\ rear \in 0 .. MAX_SIZE_QUEUE - 1
      /\ rear' = rear /\ size' = size + 1
      /\ front = (rear + size) % MAX_SIZE_QUEUE
      /\ front' = (front + 1) % MAX_SIZE_QUEUE
  BY QueueAssumption
     DEF PushStore, HasRoom, TypeOK, Slots, RingConsistent, Advance
<1>2. \A i \in 1 .. size : (rear + i - 1) % MAX_SIZE_QUEUE # front
  BY <1>1, SMT
<1>3. (rear + size) % MAX_SIZE_QUEUE = (rear' + (size + 1) - 1) % MAX_SIZE_QUEUE
  BY <1>1, SMT
<1>4. front' = (rear' + size') % MAX_SIZE_QUEUE
  BY <1>1, SMT
<1>5. queue' = [queue EXCEPT ![front] = v] /\ front \in DOMAIN queue
  BY DEF PushStore, TypeOK
<1>6. Contents' = [i \in 1 .. size + 1 |-> IF i = size + 1 THEN v ELSE Contents[i]]
  <2>1. \A i \in 1 .. size + 1 :
          queue'[(rear' + i - 1) % MAX_SIZE_QUEUE] = IF i = size + 1 THEN v ELSE Contents[i]
    <3> SUFFICES ASSUME NEW i \in 1 .. size + 1
                 PROVE  queue'[(rear' + i - 1) % MAX_SIZE_QUEUE]
                          = IF i = size + 1 THEN v ELSE Contents[i]
      OBVIOUS
    <3>1. CASE i = size + 1
      BY <1>1, <1>3, <1>5, <3>1
    <3>2. CASE i # size + 1
      <4>1. i \in 1 .. size
        BY <1>1, <3>2
      <4>2. Contents[i] = queue[(rear + i - 1) % MAX_SIZE_QUEUE]
        BY <4>1, ContentsSlots
      <4>3. queue'[(rear + i - 1) % MAX_SIZE_QUEUE] = queue[(rear + i - 1) % MAX_SIZE_QUEUE]
        <5>1. (rear + i - 1) % MAX_SIZE_QUEUE \in DOMAIN queue
          BY <4>1, ContentsSlots DEF TypeOK
        <5> QED  BY <4>1, <1>2, <1>5, <5>1
      <4> QED  BY <1>1, <3>2, <4>2, <4>3
    <3> QED  BY <3>1, <3>2
  <2> QED  BY <1>1, <2>1, Zenon DEF Contents
<1>7. Contents \in Seq(Values) /\ Len(Contents) = size
  BY <1>1 DEF Contents, RingConsistent
<1>8. Contents' \in Seq(Values) /\ Len(Contents') = size + 1
  BY <1>1, <1>6, <1>7
<1>9. /\ Append(Contents, v) \in Seq(Values)
      /\ Len(Append(Contents, v)) = size + 1
      /\ \A i \in 1 .. size + 1 :
           Append(Contents, v)[i] = IF i = size + 1 THEN v ELSE Contents[i]
  BY <1>1, <1>7
<1>10. \A i \in 1 .. size + 1 : Contents'[i] = Append(Contents, v)[i]
  BY <1>6, <1>9
<1>11. Contents' = Append(Contents, v)
  BY <1>8, <1>9, <1>10, SeqEqual
<1> QED  BY <1>4, <1>11

LEMMA TakeRemovesHead ==
  ASSUME TypeOK, RingConsistent, NEW c \in Consumers, PopTake(c)
  PROVE  /\ Contents # <<>> /\ Contents' = Tail(Contents)
         /\ queue[rear] = Head(Contents)
         /\ front' = (rear' + size') % MAX_SIZE_QUEUE
<1>1. /\ MAX_SIZE_QUEUE \in Nat \ {0} /\ size \in 1 .. MAX_SIZE_QUEUE
      /\ rear \in 0 .. MAX_SIZE_QUEUE - 1
      /\ rear' = (rear + 1) % MAX_SIZE_QUEUE /\ size' = size - 1
      /\ front' = (rear + size) % MAX_SIZE_QUEUE
      /\ queue' = queue
  <2>1. MAX_SIZE_QUEUE \in Nat \ {0} /\ size \in 0 .. MAX_SIZE_QUEUE /\ size > 0
    BY QueueAssumption DEF PopTake, TypeOK
  <2>2. size \in 1 .. MAX_SIZE_QUEUE
    BY <2>1
  <2>3. rear \in 0 .. MAX_SIZE_QUEUE - 1 /\ front = (rear + size) % MAX_SIZE_QUEUE
    BY DEF TypeOK, Slots, RingConsistent
  <2> QED  BY <2>1, <2>2, <2>3 DEF PopTake, Advance
<1>2. rear % MAX_SIZE_QUEUE = rear
  BY <1>1, SMT
<1>3. front' = (rear' + size') % MAX_SIZE_QUEUE
  BY <1>1, SMT
<1>4. \A i \in 1 .. size - 1 :
        (rear' + i - 1) % MAX_SIZE_QUEUE = (rear + (i + 1) - 1) % MAX_SIZE_QUEUE
  <2> SUFFICES ASSUME NEW i \in 1 .. size - 1
               PROVE  (rear' + i - 1) % MAX_SIZE_QUEUE = (rear + (i + 1) - 1) % MAX_SIZE_QUEUE
    OBVIOUS
  <2>1. rear + (i + 1) - 1 = rear + i /\ i \in 0 .. MAX_SIZE_QUEUE /\ i - 1 \in 0 .. MAX_SIZE_QUEUE
    BY <1>1
  <2>2. rear' = IF rear + 1 < MAX_SIZE_QUEUE THEN rear + 1 ELSE 0
    BY <1>1, SMT
  <2>3. rear' \in 0 .. MAX_SIZE_QUEUE - 1
    BY <1>1, <2>2
  <2>4. (rear' + (i - 1)) % MAX_SIZE_QUEUE
          = IF rear' + (i - 1) < MAX_SIZE_QUEUE THEN rear' + (i - 1)
            ELSE rear' + (i - 1) - MAX_SIZE_QUEUE
    BY <1>1, <2>1, <2>3, ModWrap
  <2>5. (rear + i) % MAX_SIZE_QUEUE
          = IF rear + i < MAX_SIZE_QUEUE THEN rear + i ELSE rear + i - MAX_SIZE_QUEUE
    BY <1>1, <2>1, ModWrap
  <2>6. rear' + i - 1 = rear' + (i - 1)
    BY <2>3
  <2> HIDE <1>1
  <2>7. MAX_SIZE_QUEUE \in Nat \ {0} /\ rear \in 0 .. MAX_SIZE_QUEUE - 1 /\ i \in 1 .. MAX_SIZE_QUEUE
    BY <1>1
  <2> QED  BY <2>1, <2>2, <2>4, <2>5, <2>6, <2>7
<1>5. Contents \in Seq(Values) /\ Len(Contents) = size
  BY <1>1 DEF Contents, RingConsistent
<1>6. Contents # <<>> /\ Head(Contents) = Contents[1]
  BY <1>1, <1>5
<1>7. Contents[1] = queue[rear]
  BY <1>1, <1>2 DEF Contents
<1>8. Contents' = [i \in 1 .. size - 1 |-> queue[(rear' + i - 1) % MAX_SIZE_QUEUE]]
  BY <1>1 DEF Contents
<1>9. \A i \in 1 .. size - 1 : Contents'[i] = Contents[i + 1]
  <2> SUFFICES ASSUME NEW i \in 1 .. size - 1 PROVE Contents'[i] = Contents[i + 1]
    OBVIOUS
  <2>1. Contents'[i] = queue[(rear + (i + 1) - 1) % MAX_SIZE_QUEUE]
    BY <1>4, <1>8
  <2>2. i + 1 \in 1 .. size
    BY <1>1
  <2> QED  BY <2>1, <2>2, ContentsSlots
<1>10. Contents' \in Seq(Values) /\ Len(Contents') = size - 1
  BY <1>1, <1>5, <1>8, <1>9
<1>11. /\ Tail(Contents) \in Seq(Values)
       /\ Len(Tail(Contents)) = size - 1
       /\ \A i \in 1 .. size - 1 : Tail(Contents)[i] = Contents[i + 1]
  BY <1>5, <1>6, HeadTailProperties
<1>12. Contents' = Tail(Contents)
  BY <1>9, <1>10, <1>11, SeqEqual
<1> QED  BY <1>3, <1>6, <1>7, <1>12

-----------------------------------------------------------------------------
LEMMA RingStep == TypeOK /\ LockInv /\ RingConsistent /\ [Next]_vars => RingConsistent'
<1> SUFFICES ASSUME TypeOK, LockInv, RingConsistent, [Next]_vars PROVE RingConsistent'
  OBVIOUS
<1>s. /\ size \in Nat /\ Len(Contents) = size /\ Contents \in Seq(Values)
  BY QueueAssumption DEF Contents, RingConsistent, TypeOK
<1>r. ASSUME UNCHANGED ring PROVE RingConsistent'
  BY <1>r DEF ring, RingConsistent, Contents
<1>1. ASSUME NEW p \in Producers, NEW v \in Values, PushStore(p, v) PROVE RingConsistent'
  <2>1. Contents' = Append(Contents, v) /\ front' = (rear' + size') % MAX_SIZE_QUEUE
    BY <1>1, StoreAppends
  <2>2. size' = size + 1
    BY <1>1 DEF PushStore
  <2>3. \A i \in 1 .. size + 1 : Append(Contents, v)[i] \in Values
    BY <1>s
  <2> QED  BY <2>1, <2>2, <2>3 DEF RingConsistent
<1>2. ASSUME NEW c \in Consumers, PopTake(c) PROVE RingConsistent'
  <2>1. /\ Contents # <<>> /\ Contents' = Tail(Contents)
        /\ front' = (rear' + size') % MAX_SIZE_QUEUE
    BY <1>2, TakeRemovesHead
  <2>2. size' = size - 1
    BY <1>2 DEF PopTake
  <2>3. \A i \in 1 .. size - 1 : Tail(Contents)[i] \in Values
    BY <1>s, <2>1
  <2> QED  BY <2>1, <2>2, <2>3 DEF RingConsistent
<1>3. CASE UNCHANGED ring
  BY <1>3, <1>r
<1>4. \/ UNCHANGED ring
      \/ \E p \in Producers, v \in Values : PushStore(p, v)
      \/ \E c \in Consumers : PopTake(c)
  BY DEF Next, Push, Pop, PushLock, PushFull, PushBroadcast, PopLock, PopWait,
         SpuriousWake, PopRelock, PopNothing, Leave, vars, ring
<1> QED  BY <1>1, <1>2, <1>3, <1>4

LEMMA WakeStep ==
  TypeOK /\ LockInv /\ NoSleeperBesideElement /\ [Next]_vars => NoSleeperBesideElement'
<1> SUFFICES ASSUME TypeOK, LockInv, NoSleeperBesideElement, [Next]_vars
             PROVE  NoSleeperBesideElement'
  OBVIOUS
<1>t. /\ pc \in [Threads -> Places] /\ size \in Nat
      /\ \A p \in Producers : p \in Threads
      /\ \A c \in Consumers : c \in Threads
  BY QueueAssumption DEF TypeOK, Threads
<1> USE <1>t DEF NoSleeperBesideElement, Goto
(* The thread inside the mutex is the only one that could be broadcasting. *)
<1>m. ASSUME NEW t \in Threads, pc[t] \in CriticalSection, pc[t] # "broadcast",
             NEW p \in Producers, pc[p] = "broadcast"
      PROVE  FALSE
  BY <1>m DEF LockInv, CriticalSection
<1>1. ASSUME NEW p \in Producers, PushLock(p) PROVE NoSleeperBesideElement'
  BY <1>1 DEF PushLock, ring
<1>2. ASSUME NEW p \in Producers, NEW v \in Values, PushStore(p, v)
      PROVE  NoSleeperBesideElement'
  <2>1. pc[p] = "push" /\ size' = size + 1
    BY <1>2 DEF PushStore
  <2>2. CASE size = 0
    BY <1>2, <2>1, <2>2 DEF PushStore, MustBroadcast
  <2>3. CASE size > 0
    <3>1. \A c \in Consumers : pc[c] # "asleep"
      BY <1>m, <2>1, <2>3 DEF CriticalSection
    <3>2. \A c \in Consumers : pc'[c] # "asleep"
      BY <1>2, <3>1 DEF PushStore
    <3> QED  BY <3>2
  <2> QED  BY <2>2, <2>3
<1>3. ASSUME NEW p \in Producers, PushFull(p) PROVE NoSleeperBesideElement'
  BY <1>3 DEF PushFull, ring
<1>4. ASSUME NEW p \in Producers, PushBroadcast(p) PROVE NoSleeperBesideElement'
  <2>1. \A c \in Consumers : pc'[c] # "asleep"
    BY <1>4 DEF PushBroadcast
  <2> QED  BY <2>1
<1>5. ASSUME NEW c \in Consumers, PopLock(c) PROVE NoSleeperBesideElement'
  BY <1>5 DEF PopLock, ring
<1>6. ASSUME NEW c \in Consumers, PopWait(c) PROVE NoSleeperBesideElement'
  BY <1>6 DEF PopWait, ring
<1>7. ASSUME NEW c \in Consumers, SpuriousWake(c) PROVE NoSleeperBesideElement'
  BY <1>7 DEF SpuriousWake, ring
<1>8. ASSUME NEW c \in Consumers, PopRelock(c) PROVE NoSleeperBesideElement'
  BY <1>8 DEF PopRelock, ring
<1>9. ASSUME NEW c \in Consumers, PopTake(c) PROVE NoSleeperBesideElement'
  <2>1. size' = size - 1 /\ size > 0 /\ pc[c] \in {"pop", "after wait"}
    BY <1>9 DEF PopTake
  <2>2. \A d \in Consumers : pc[d] # "asleep"
    BY <1>m, <2>1 DEF CriticalSection
  <2>3. \A d \in Consumers : pc'[d] # "asleep"
    BY <1>9, <2>2 DEF PopTake
  <2> QED  BY <2>3
<1>10. ASSUME NEW c \in Consumers, PopNothing(c) PROVE NoSleeperBesideElement'
  BY <1>10 DEF PopNothing, ring
<1>11. ASSUME NEW t \in Threads, Leave(t) PROVE NoSleeperBesideElement'
  BY <1>11 DEF Leave, ring
<1>12. CASE UNCHANGED vars
  BY <1>12 DEF vars
<1> QED
  BY <1>1, <1>2, <1>3, <1>4, <1>5, <1>6, <1>7, <1>8, <1>9, <1>10, <1>11, <1>12
     DEF Next, Push, Pop

-----------------------------------------------------------------------------
(* The invariant that carries all of the results below: the types, the     *)
(* mutex discipline, the shape of the ring and the wake-up rule together   *)
(* are kept by every step of queue_push and queue_pop.                     *)
THEOREM QueueInvariant == Spec => []IInv
<1>1. Init => IInv
  BY InitIInv
<1>2. IInv /\ [Next]_vars => IInv'
  BY TypeStep, LockStep, RingStep, WakeStep DEF IInv
<1> QED  BY <1>1, <1>2, PTL DEF Spec

(* The fields of the queue and the places of its threads keep their types. *)
THEOREM QueueTypeCorrect == Spec => []TypeOK
<1>1. IInv => TypeOK
  BY DEF IInv
<1> QED  BY <1>1, QueueInvariant, PTL

(* front, rear and size of queue.c always describe one run of non-NULL     *)
(* elements of the ring, for every MAX_SIZE_QUEUE.                         *)
THEOREM QueueRingIsConsistent == Spec => []RingConsistent
<1>1. IInv => RingConsistent
  BY DEF IInv
<1> QED  BY <1>1, QueueInvariant, PTL

(* Broadcasting only when the size becomes 1 loses no wake-up, for every   *)
(* number of producers and consumers.                                      *)
THEOREM QueueLosesNoWakeup == Spec => []NoSleeperBesideElement
<1>1. IInv => NoSleeperBesideElement
  BY DEF IInv
<1> QED  BY <1>1, QueueInvariant, PTL

(* The three together, for any capacity and any number of threads.         *)
THEOREM QueueIsSafe == Spec => []QueueSafe
<1>1. IInv => QueueSafe
  BY DEF IInv, QueueSafe
<1> QED  BY <1>1, QueueInvariant, PTL

-----------------------------------------------------------------------------
(* queue.c implements the atomic bounded FIFO that Listener.tla relies on. *)
THEOREM QueueImplementsFifo == Spec => ImplementsFifo
<1>1. Init => Fifo!Init
  <2> SUFFICES ASSUME Init PROVE Fifo!Init  OBVIOUS
  <2>1. Contents = <<>>
    BY DEF Init, Contents
  <2> QED  BY <2>1 DEF Init, Fifo!Init, Threads
<1>2. IInv /\ [Next]_vars => [Fifo!Next]_(Fifo!vars)
  <2> SUFFICES ASSUME IInv, [Next]_vars PROVE [Fifo!Next]_(Fifo!vars)  OBVIOUS
  <2> USE DEF IInv
  <2>s. size \in 0 .. MAX_SIZE_QUEUE /\ MAX_SIZE_QUEUE \in Nat /\ Len(Contents) = size
    BY QueueAssumption DEF TypeOK, Contents
  <2>1. ASSUME UNCHANGED <<ring, res>> PROVE UNCHANGED Fifo!vars
    BY <2>1 DEF ring, Fifo!vars, Contents
  <2>2. ASSUME NEW p \in Producers, NEW v \in Values, PushStore(p, v) PROVE Fifo!Next
    <3>1. Contents' = Append(Contents, v)
      BY <2>2, StoreAppends
    <3>2. size < MAX_SIZE_QUEUE /\ res' = [res EXCEPT ![p] = TRUE]
      BY <2>2 DEF PushStore, HasRoom, Return
    <3>3. Fifo!Accept(p, v)
      BY <2>s, <3>1, <3>2 DEF Fifo!Accept, Fifo!Answer
    <3> QED  BY <3>3 DEF Fifo!Next
  <2>3. ASSUME NEW p \in Producers, PushFull(p) PROVE Fifo!Next
    <3>1. ~(size < MAX_SIZE_QUEUE) /\ UNCHANGED ring /\ res' = [res EXCEPT ![p] = FALSE]
      BY <2>3 DEF PushFull, HasRoom, Return
    <3>2. size = MAX_SIZE_QUEUE
      BY <2>s, <3>1
    <3>3. Contents' = Contents
      BY <3>1 DEF ring, Contents
    <3>4. Fifo!Refuse(p)
      BY <2>s, <3>1, <3>2, <3>3 DEF Fifo!Refuse, Fifo!Answer
    <3> QED  BY <3>4 DEF Fifo!Next
  <2>4. ASSUME NEW c \in Consumers, PopTake(c) PROVE Fifo!Next
    <3>1. Contents # <<>> /\ Contents' = Tail(Contents) /\ queue[rear] = Head(Contents)
      BY <2>4, TakeRemovesHead
    <3>2. res' = [res EXCEPT ![c] = queue[rear]]
      BY <2>4 DEF PopTake, Return
    <3>3. Fifo!Take(c)
      BY <3>1, <3>2 DEF Fifo!Take, Fifo!Answer
    <3> QED  BY <3>3 DEF Fifo!Next
  <2>5. ASSUME NEW c \in Consumers, PopNothing(c) PROVE Fifo!Next
    <3>1. size = 0 /\ UNCHANGED ring /\ res' = [res EXCEPT ![c] = NULL]
      BY <2>5 DEF PopNothing, Return
    <3>2. Contents = <<>> /\ Contents' = Contents
      BY <3>1 DEF ring, Contents
    <3>3. Fifo!Miss(c)
      BY <3>1, <3>2 DEF Fifo!Miss, Fifo!Answer
    <3> QED  BY <3>3 DEF Fifo!Next
  <2>6. \/ UNCHANGED <<ring, res>>
        \/ \E p \in Producers : PushFull(p) \/ \E v \in Values : PushStore(p, v)
        \/ \E c \in Consumers : PopTake(c) \/ PopNothing(c)
    BY DEF Next, Push, Pop, PushLock, PushBroadcast, PopLock, PopWait,
           SpuriousWake, PopRelock, Leave, vars, ring
  <2> QED  BY <2>1, <2>2, <2>3, <2>4, <2>5, <2>6
<1> QED  BY <1>1, <1>2, QueueInvariant, PTL DEF Spec, ImplementsFifo, Fifo!Spec
=============================================================================
