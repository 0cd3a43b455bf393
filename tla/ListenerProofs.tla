---------------------------- MODULE ListenerProofs ----------------------------
(***************************************************************************)
(* Proofs about the hub for every number of connections, slots, servers,   *)
(* queue capacity and text: the inductive invariant of Listener and the    *)
(* safety properties that follow from it.                                  *)
(***************************************************************************)
EXTENDS Listener, FiniteSetTheorems, SequenceTheorems, TLAPS

-----------------------------------------------------------------------------
(* The inductive invariant *)

StopPlaces ==
  {"stop", "get_quit_msg", "push_lock", "push", "join_read", "join_write", "free", "clear"}
ClosePlaces == {"close_lock", "close"}
InstallPlaces == {"install_lock", "install"}
Closing == mpc \in ClosePlaces \/ (mpc \in StopPlaces /\ caller = "close")

(* npfs counts the entries of pf in use.                                   *)
Used == {k \in PfIndex : pf[k] # NONE}
CountInv == npfs = Cardinality(Used)

(* What poll reported about the entries main has not looked at yet is      *)
(* about entries still in use, and main closes only such an entry.         *)
ScanInv ==
  /\ mpc = "scan" \/ mpc \in InstallPlaces \/ Closing =>
       \A k \in PfIndex : k >= i /\ revents[k] # "none" => pf[k] # NONE
  /\ mpc \in InstallPlaces \/ Closing => i < size /\ revents[i] # "none"

(* While main stops a client it is the one in slot j.                      *)
StopInv == mpc \in StopPlaces => j \in Slots /\ clients[j] # NONE

(* A thread that handles a message has one.                                *)
HandsFull ==
  /\ ppc \in {"lock", "scan", "match", "send"} => front \in Messages
  /\ ppc \in {"match", "send"} => pi \in Slots
  /\ \A c \in Conns : rpc[c] = "push" => msgObj[c] \in Messages
  /\ \A c \in Conns : wpc[c] \in {"write", "blocked"} => wfront[c] \in Messages

ShapeInv == TypeOK /\ CountInv /\ ScanInv /\ StopInv /\ HandsFull

-----------------------------------------------------------------------------
(* Facts about the helpers *)

LEMMA NoneIsNone ==
  /\ NONE \notin Conns /\ NONE \notin Servers /\ NONE # "main" /\ NONE # "proc"
BY ListenerAssumption DEF Servers

LEMMA PutInQueues ==
  ASSUME NEW q \in Queues, NEW m \in Messages
  PROVE  Put(q, m) \in Queues
BY ListenerAssumption DEF Queues, Put, HasRoom

LEMMA TailInQueues ==
  ASSUME NEW q \in Queues, q # <<>>
  PROVE  Tail(q) \in Queues /\ Head(q) \in Messages
<1>1. q \in Seq(Messages) /\ Len(q) <= MAX_SIZE_QUEUE
  BY DEF Queues
<1>2. Head(q) \in Messages /\ Tail(q) \in Seq(Messages) /\ Len(Tail(q)) = Len(q) - 1
  BY <1>1, HeadTailProperties
<1>3. Len(q) \in Nat /\ MAX_SIZE_QUEUE \in Nat
  BY <1>1, ListenerAssumption
<1> QED  BY <1>1, <1>2, <1>3 DEF Queues

LEMMA SpecialMessages ==
  /\ QuitMsg \in Messages /\ HalfQuit \in Messages
  /\ \A c \in Conns, f \in Nat, text \in Texts : Message(c, f, text) \in Messages
BY DEF QuitMsg, HalfQuit, Message, Messages, Texts

(* What a step leaves alone keeps its type.                                *)
LEMMA PartsStandStill ==
  /\ TableOK /\ UNCHANGED <<table, queue, clients_lock>> => TableOK'
  /\ StructsOK /\ UNCHANGED <<structs, flags, in_queue, in_lock, quit>> => StructsOK'
  /\ MainOK /\ UNCHANGED <<main, hpc>> => MainOK'
  /\ ProcessorOK /\ UNCHANGED <<processor, crashed>> => ProcessorOK'
  /\ ReadersOK /\ UNCHANGED reader => ReadersOK'
  /\ WritersOK /\ UNCHANGED writer => WritersOK'
  /\ NetOK /\ UNCHANGED net => NetOK'
BY DEF TableOK, StructsOK, MainOK, ProcessorOK, ReadersOK, WritersOK, NetOK, table, structs,
       flags, main, processor, reader, writer, net

(* The steps of main outside the queues, the processor and the peers.      *)
LEMMA HandsStandStill ==
  ASSUME HandsFull, UNCHANGED <<processor, reader, writer>>
  PROVE  HandsFull'
BY DEF HandsFull, processor, reader, writer

LEMMA UsedFinite == IsFiniteSet(Used) /\ Cardinality(Used) \in 0 .. LISTENER_MAX_SERVERS
<1>1. IsFiniteSet(PfIndex) /\ Cardinality(PfIndex) = LISTENER_MAX_SERVERS
  BY FS_Interval, ListenerAssumption DEF PfIndex
<1>2. Used \subseteq PfIndex
  BY DEF Used
<1>3. IsFiniteSet(Used) /\ Cardinality(Used) <= Cardinality(PfIndex)
  BY <1>1, <1>2, FS_Subset
<1> QED  BY <1>1, <1>3, FS_CardinalityType

LEMMA UsedFinitePrime == Cardinality(Used') \in 0 .. LISTENER_MAX_SERVERS
<1>1. IsFiniteSet(PfIndex) /\ Cardinality(PfIndex) = LISTENER_MAX_SERVERS
  BY FS_Interval, ListenerAssumption DEF PfIndex
<1>2. Used' \subseteq PfIndex
  BY DEF Used
<1>3. IsFiniteSet(Used') /\ Cardinality(Used') <= Cardinality(PfIndex)
  BY <1>1, <1>2, FS_Subset
<1> QED  BY <1>1, <1>3, FS_CardinalityType

-----------------------------------------------------------------------------
(* The steps of main keep the shape *)

LEMMA CountStandsStill ==
  ASSUME ShapeInv, UNCHANGED <<pf, npfs>>
  PROVE  CountInv'
BY DEF ShapeInv, CountInv, Used

(* listener_add fills an entry that was not counted.                       *)
LEMMA ServerInitShape ==
  ASSUME ShapeInv, NEW s \in Servers, NEW next \in {"bt", "listener_run"},
         ServerInit(s, next)
  PROVE  ShapeInv'
<1>1. StructsOK' /\ ProcessorOK' /\ ReadersOK' /\ WritersOK' /\ NetOK' /\ HandsFull'
  BY PartsStandStill, HandsStandStill DEF ShapeInv, TypeOK, ServerInit, data, queues, locks, threads
<1>2. MainOK'
  BY DEF ShapeInv, TypeOK, MainOK, ServerInit, Goto, MainPlaces, threads
<1>3. mpc' \in {"bt", "listener_run"}
  BY DEF ServerInit, At, Goto
<1>4. ScanInv' /\ StopInv'
  BY <1>3 DEF ScanInv, StopInv, Closing, InstallPlaces, ClosePlaces, StopPlaces
<1>5. CASE UNCHANGED <<pf, npfs>>
  <2>1. TableOK' /\ CountInv'
    BY <1>5 DEF ShapeInv, TypeOK, TableOK, CountInv, Used, ServerInit, data, queues, locks
  <2> QED  BY <1>1, <1>2, <1>4, <2>1 DEF ShapeInv, TypeOK
<1>6. CASE \E k \in PfIndex :
             pf[k] = NONE /\ pf' = [pf EXCEPT ![k] = s] /\ npfs' = npfs + 1
  <2>1. PICK k \in PfIndex :
          pf[k] = NONE /\ pf' = [pf EXCEPT ![k] = s] /\ npfs' = npfs + 1
    BY <1>6
  <2>2. k \notin Used /\ Used' = Used \cup {k}
    BY <2>1, NoneIsNone DEF Used, ShapeInv, TypeOK, TableOK
  <2>3. Cardinality(Used') = Cardinality(Used) + 1
    BY <2>2, UsedFinite, FS_AddElement
  <2>4. CountInv'
    BY <2>1, <2>3 DEF ShapeInv, CountInv
  <2>5. Cardinality(Used') \in 0 .. LISTENER_MAX_SERVERS
    BY UsedFinitePrime
  <2>6. TableOK'
    BY <2>1, <2>4, <2>5 DEF ShapeInv, TypeOK, TableOK, CountInv, ServerInit, data, queues, locks
  <2> QED  BY <1>1, <1>2, <1>4, <2>4, <2>6 DEF ShapeInv, TypeOK
<1> QED  BY <1>5, <1>6 DEF ServerInit, ListenerAdd

(* NoEvent: the entries behind are those already reported on.             *)
LEMMA NoEventShape ==
  ASSUME ShapeInv, NoEvent PROVE ShapeInv'
<1>1. mpc = "scan" /\ mpc' = "scan" /\ i' = i + 1 /\ i \in Nat
  BY DEF NoEvent, At, ShapeInv, TypeOK, MainOK
<1>2. \A k \in PfIndex : k >= i + 1 => k >= i
  BY <1>1, SMT, ListenerAssumption DEF PfIndex
<1>3. ScanInv'
  BY <1>1, <1>2 DEF NoEvent, table, ShapeInv, ScanInv, Closing, InstallPlaces, ClosePlaces, StopPlaces
<1>4. TableOK' /\ StructsOK' /\ ProcessorOK' /\ ReadersOK' /\ WritersOK' /\ NetOK' /\ HandsFull'
  BY PartsStandStill, HandsStandStill
  DEF ShapeInv, TypeOK, NoEvent, data, queues, locks, threads
<1>5. MainOK'
  BY SMT, ListenerAssumption DEF ShapeInv, TypeOK, MainOK, NoEvent, threads
<1>6. CountInv' /\ StopInv'
  BY <1>1, CountStandsStill DEF NoEvent, table, StopInv, StopPlaces
<1> QED  BY <1>3, <1>4, <1>5, <1>6 DEF ShapeInv, TypeOK

LEMMA AcceptShape ==
  ASSUME ShapeInv, Accept PROVE ShapeInv'
<1>1. TableOK' /\ ProcessorOK' /\ ReadersOK' /\ WritersOK' /\ HandsFull'
  BY PartsStandStill, HandsStandStill DEF ShapeInv, TypeOK, Accept, queues, locks, threads
<1>2. StructsOK'
  BY ListenerAssumption DEF ShapeInv, TypeOK, StructsOK, Accept, flags, queues, locks, LowestFree
<1>3. MainOK'
  BY NoneIsNone DEF ShapeInv, TypeOK, MainOK, Accept, At, Goto, MainPlaces, Backlog, threads
<1>4. NetOK'
  BY DEF ShapeInv, TypeOK, NetOK, Accept, Backlog
<1>5. CountInv' /\ ScanInv' /\ StopInv'
  BY CountStandsStill
  DEF ShapeInv, Accept, At, Goto, table, ScanInv, StopInv, Closing, InstallPlaces, ClosePlaces, StopPlaces
<1> QED  BY <1>1, <1>2, <1>3, <1>4, <1>5 DEF ShapeInv, TypeOK

LEMMA InstallShape ==
  ASSUME ShapeInv, Install PROVE ShapeInv'
<1>1. ProcessorOK' /\ NetOK'
  BY PartsStandStill DEF ShapeInv, TypeOK, Install, net
<1>2. TableOK'
  BY NoneIsNone DEF ShapeInv, TypeOK, TableOK, MainOK, Install, UnlockClients, queues
<1>3. StructsOK'
  BY NoneIsNone DEF ShapeInv, TypeOK, StructsOK, MainOK, Install, flags, queues
<1>4. i < size
  BY DEF ShapeInv, ScanInv, Install, At, InstallPlaces
<1>5. MainOK'
  BY <1>4, SMT, ListenerAssumption DEF ShapeInv, TypeOK, MainOK, Install, At, Goto, MainPlaces
<1>6. ReadersOK' /\ WritersOK'
  BY DEF ShapeInv, TypeOK, MainOK, ReadersOK, WritersOK, Install
<1>7. HandsFull'
  BY DEF ShapeInv, TypeOK, MainOK, ReadersOK, WritersOK, HandsFull, Install, processor
<1>8. \A k \in PfIndex : k >= i + 1 => k >= i
  BY SMT, ListenerAssumption DEF PfIndex, ShapeInv, TypeOK, MainOK
<1>9. ScanInv'
  BY <1>8 DEF ShapeInv, ScanInv, Install, At, Goto, Closing, InstallPlaces, ClosePlaces, StopPlaces
<1>10. CountInv' /\ StopInv'
  BY CountStandsStill DEF Install, Goto, StopInv, StopPlaces
<1> QED  BY <1>1, <1>2, <1>3, <1>5, <1>6, <1>7, <1>9, <1>10 DEF ShapeInv, TypeOK

(* Main has found a client to stop in slot j.                             *)
LEMMA ChooseClientShape ==
  ASSUME ShapeInv, ReapClient \/ CloseClient PROVE ShapeInv'
<1>1. TableOK' /\ StructsOK' /\ ProcessorOK' /\ ReadersOK' /\ WritersOK' /\ NetOK' /\ HandsFull'
  BY PartsStandStill, HandsStandStill
  DEF ShapeInv, TypeOK, ReapClient, CloseClient, data, queues, locks, threads
<1>2. MainOK'
  BY DEF ShapeInv, TypeOK, MainOK, ReapClient, CloseClient, Goto, MainPlaces, threads
<1>3. StopInv'
  BY SMT, ListenerAssumption
  DEF ShapeInv, TypeOK, MainOK, StopInv, ReapClient, CloseClient, Current, Slots, table
<1>4. CountInv' /\ ScanInv'
  BY CountStandsStill
  DEF ShapeInv, ReapClient, CloseClient, At, Goto, table, ScanInv, Closing, InstallPlaces, ClosePlaces, StopPlaces
<1> QED  BY <1>1, <1>2, <1>3, <1>4 DEF ShapeInv, TypeOK

(* The emptied entry is one that was counted.                             *)
LEMMA CloseDoneShape ==
  ASSUME ShapeInv, CloseDone PROVE ShapeInv'
<1>1. i \in PfIndex /\ pf[i] # NONE /\ mpc' = "scan"
  BY ListenerAssumption, SMT
  DEF ShapeInv, TypeOK, MainOK, ScanInv, CloseDone, At, Goto, Closing, ClosePlaces, PfIndex
<1>2. Used' = Used \ {i}
  BY <1>1 DEF Used, CloseDone, ShapeInv, TypeOK, TableOK
<1>3. CountInv' /\ npfs' \in 0 .. LISTENER_MAX_SERVERS
  <2>0. i \in Used
    BY <1>1 DEF Used
  <2>1. Cardinality(Used') = Cardinality(Used) - 1
    BY <1>2, <2>0, UsedFinite, FS_RemoveElement
  <2>2. npfs' = npfs - 1 /\ npfs = Cardinality(Used) /\ Cardinality(Used') \in Nat
    BY <1>2, UsedFinite, FS_RemoveElement, FS_CardinalityType DEF CloseDone, ShapeInv, CountInv
  <2> QED  BY <2>1, <2>2, UsedFinite, ListenerAssumption DEF CountInv
<1>4. TableOK'
  BY <1>3 DEF CloseDone, UnlockClients, ShapeInv, TypeOK, TableOK, data, queues
<1>5. \A k \in PfIndex : k >= i + 1 => k >= i /\ k # i
  BY SMT, ListenerAssumption DEF PfIndex, ShapeInv, TypeOK, MainOK
<1>6. ScanInv'
  BY <1>1, <1>5 DEF ShapeInv, ScanInv, CloseDone, At, Goto, Closing, InstallPlaces, ClosePlaces, StopPlaces, TypeOK, TableOK
<1>7. StructsOK' /\ ProcessorOK' /\ ReadersOK' /\ WritersOK' /\ NetOK' /\ HandsFull'
  BY PartsStandStill, HandsStandStill DEF ShapeInv, TypeOK, CloseDone, data, queues, threads
<1>8. MainOK'
  BY <1>1, SMT, ListenerAssumption
  DEF ShapeInv, TypeOK, MainOK, CloseDone, MainPlaces, PfIndex, threads
<1>9. StopInv'
  BY <1>1 DEF StopInv, StopPlaces
<1> QED  BY <1>3, <1>4, <1>6, <1>7, <1>8, <1>9 DEF ShapeInv, TypeOK

LEMMA GetQuitMsgShape ==
  ASSUME ShapeInv, GetQuitMsg PROVE ShapeInv'
<1>1. TableOK' /\ ProcessorOK' /\ ReadersOK' /\ WritersOK' /\ NetOK' /\ HandsFull'
  BY PartsStandStill, HandsStandStill
  DEF ShapeInv, TypeOK, GetQuitMsg, queues, locks, threads
<1>2. StructsOK'
  BY DEF ShapeInv, TypeOK, StructsOK, GetQuitMsg, structs, flags, queues, locks
<1>3. MainOK'
  BY DEF ShapeInv, TypeOK, MainOK, GetQuitMsg, Goto, MainPlaces, threads
<1>4. CountInv' /\ ScanInv' /\ StopInv'
  BY CountStandsStill
  DEF ShapeInv, GetQuitMsg, At, Goto, table, ScanInv, StopInv, Closing, InstallPlaces, ClosePlaces, StopPlaces
<1> QED  BY <1>1, <1>2, <1>3, <1>4 DEF ShapeInv, TypeOK

LEMMA PushQuitShape ==
  ASSUME ShapeInv, PushQuit PROVE ShapeInv'
<1>1. Current \in Conns
  BY DEF ShapeInv, StopInv, PushQuit, At, StopPlaces, Current, TypeOK, TableOK
<1>2. Put(in_queue[Current], QuitMsg) \in Queues
  BY <1>1, PutInQueues, SpecialMessages DEF ShapeInv, TypeOK, StructsOK
<1>3. StructsOK'
  BY <1>1, <1>2 DEF ShapeInv, TypeOK, StructsOK, PushQuit, structs, flags, queues
<1>4. TableOK' /\ ProcessorOK' /\ ReadersOK' /\ WritersOK' /\ NetOK' /\ HandsFull'
  BY PartsStandStill, HandsStandStill DEF ShapeInv, TypeOK, PushQuit, threads
<1>5. MainOK'
  BY DEF ShapeInv, TypeOK, MainOK, PushQuit, Goto, MainPlaces, threads
<1>6. CountInv' /\ ScanInv' /\ StopInv'
  BY CountStandsStill
  DEF ShapeInv, PushQuit, At, Goto, table, ScanInv, StopInv, Closing, InstallPlaces, ClosePlaces, StopPlaces
<1> QED  BY <1>3, <1>4, <1>5, <1>6 DEF ShapeInv, TypeOK

LEMMA ClearSlotShape ==
  ASSUME ShapeInv, ClearSlot PROVE ShapeInv'
<1>1. StructsOK' /\ ProcessorOK' /\ ReadersOK' /\ WritersOK' /\ NetOK' /\ HandsFull'
  BY PartsStandStill, HandsStandStill
  DEF ShapeInv, TypeOK, ClearSlot, data, queues, locks, threads
<1>2. TableOK'
  BY DEF ShapeInv, TypeOK, TableOK, ClearSlot, ClearedSlot, data, queues, locks
<1>3. j \in Slots
  BY DEF ShapeInv, StopInv, ClearSlot, At, StopPlaces
<1>4. MainOK'
  BY <1>3, ListenerAssumption
  DEF ShapeInv, TypeOK, MainOK, ClearSlot, Goto, MainPlaces, NextSlot, threads, Slots
<1>5. CountInv' /\ ScanInv' /\ StopInv'
  BY CountStandsStill
  DEF ShapeInv, TypeOK, MainOK, ClearSlot, At, Goto, ScanInv, StopInv, Closing, InstallPlaces, ClosePlaces, StopPlaces
<1> QED  BY <1>1, <1>2, <1>4, <1>5 DEF ShapeInv, TypeOK

(* Steps that move main, take a lock or look at the next slot.             *)
LEMMA WalkShape ==
  ASSUME ShapeInv,
         \/ ListenerInit \/ Poll \/ ServerDown \/ InstallLock \/ ReapNext \/ ReapDone
         \/ CloseLock \/ CloseNext \/ PushQuitLock \/ JoinRead \/ JoinWrite
  PROVE  ShapeInv'
<1> USE DEF ListenerInit, Poll, ServerDown, InstallLock, ReapNext, ReapDone, CloseLock,
            CloseNext, PushQuitLock, JoinRead, JoinWrite, At, Goto, NextSlot, Current
<1>1. UNCHANGED <<table, structs, flags, in_queue, queue, quit, threads, net>>
  BY DEF data, queues, locks
<1>2. StructsOK' /\ ProcessorOK' /\ ReadersOK' /\ WritersOK' /\ NetOK' /\ HandsFull'
  <2>1. in_lock' \in Conns \cup {NONE}
    BY DEF locks, ShapeInv, TypeOK, StructsOK, TableOK, StopInv, StopPlaces
  <2>2. StructsOK'
    BY <1>1, <2>1 DEF ShapeInv, TypeOK, StructsOK, structs, flags
  <2> QED  BY <1>1, <2>2, PartsStandStill, HandsStandStill DEF ShapeInv, TypeOK, threads
<1>3. TableOK'
  <2>1. clients_lock' \in {"main", "proc", NONE}
    BY DEF locks, ShapeInv, TypeOK, TableOK
  <2> QED  BY <1>1, <2>1 DEF ShapeInv, TypeOK, TableOK, table
<1>4. MainOK'
  BY <1>1, ListenerAssumption, SMT DEF ShapeInv, TypeOK, TableOK, MainOK, MainPlaces, threads
<1>5. CountInv'
  BY <1>1 DEF ShapeInv, CountInv, Used, table
<1>6. ScanInv'
  BY <1>1, ListenerAssumption, SMT DEF ShapeInv, TypeOK, MainOK, ScanInv, Closing, InstallPlaces, ClosePlaces, StopPlaces, table
<1>7. StopInv'
  BY <1>1 DEF ShapeInv, StopInv, StopPlaces, table
<1> QED  BY <1>2, <1>3, <1>4, <1>5, <1>6, <1>7 DEF ShapeInv, TypeOK

LEMMA StartShape ==
  ASSUME ShapeInv, Start \/ ScanDone PROVE ShapeInv'
<1>1. StructsOK' /\ ReadersOK' /\ WritersOK' /\ NetOK'
  BY PartsStandStill DEF ShapeInv, TypeOK, Start, ScanDone, data, queues, locks, threads
<1>2. TableOK'
  BY DEF ShapeInv, TypeOK, TableOK, Start, ScanDone, data, queues, locks
<1>3. MainOK' /\ ProcessorOK'
  BY ListenerAssumption DEF ShapeInv, TypeOK, MainOK, ProcessorOK, Start, ScanDone, Goto, MainPlaces, threads, processor
<1>4. CountInv' /\ ScanInv' /\ StopInv'
  BY CountStandsStill
  DEF ShapeInv, Start, ScanDone, At, Goto, ScanInv, StopInv, Closing, InstallPlaces, ClosePlaces, StopPlaces
<1>5. HandsFull'
  BY DEF ShapeInv, HandsFull, Start, ScanDone, threads, processor, reader, writer
<1> QED  BY <1>1, <1>2, <1>3, <1>4, <1>5 DEF ShapeInv, TypeOK

LEMMA StopAndFreeShape ==
  ASSUME ShapeInv, StopClient \/ Free PROVE ShapeInv'
<1>1. TableOK' /\ ProcessorOK' /\ ReadersOK' /\ WritersOK' /\ HandsFull'
  BY PartsStandStill, HandsStandStill
  DEF ShapeInv, TypeOK, StopClient, Free, queues, locks, threads
<1>2. StructsOK' /\ NetOK'
  BY DEF ShapeInv, TypeOK, StructsOK, NetOK, StopClient, Free, structs, flags, queues, locks, net
<1>3. MainOK'
  BY DEF ShapeInv, TypeOK, MainOK, StopClient, Free, Goto, MainPlaces, threads
<1>4. CountInv' /\ ScanInv' /\ StopInv'
  BY CountStandsStill
  DEF ShapeInv, StopClient, Free, At, Goto, table, ScanInv, StopInv, Closing, InstallPlaces, ClosePlaces, StopPlaces
<1> QED  BY <1>1, <1>2, <1>3, <1>4 DEF ShapeInv, TypeOK

LEMMA MainShape ==
  ASSUME ShapeInv, Main PROVE ShapeInv'
<1>1. CASE ServerInit("tcp", "bt")
  BY <1>1, ServerInitShape DEF Servers
<1>2. CASE ServerInit("bt", "listener_run")
  BY <1>2, ServerInitShape DEF Servers
<1> QED
  BY <1>1, <1>2, WalkShape, NoEventShape, AcceptShape, InstallShape, ChooseClientShape,
     CloseDoneShape, GetQuitMsgShape, PushQuitShape, ClearSlotShape, StartShape,
     StopAndFreeShape
  DEF Main, tcpserver_init, bt_server_init

-----------------------------------------------------------------------------
(* The other threads and the peers keep the shape *)

LEMMA MainStandsStill ==
  ASSUME ShapeInv, UNCHANGED <<main, pf, npfs, clients>>
  PROVE  CountInv' /\ ScanInv' /\ StopInv'
BY CountStandsStill DEF ShapeInv, ScanInv, StopInv, Closing, main

LEMMA HandlerShape ==
  ASSUME ShapeInv, Handler PROVE ShapeInv'
<1> USE DEF Handler, HandlerRuns, Sigint, CloseServers, PushQuitToProcessor, AssertionFails,
            JoinProcessor, JoinNoThread, HandlerAt, HandlerGoto
<1>1. UNCHANGED <<table, structs, flags, in_queue, locks, main, processor, reader, writer>>
  BY DEF data, queues
<1>2. ReadersOK' /\ WritersOK' /\ HandsFull'
  BY <1>1, PartsStandStill, HandsStandStill DEF ShapeInv, TypeOK
<1>3. TableOK'
  <2>1. queue' = queue \/ queue' = Put(queue, QuitMsg) \/ queue' = Put(queue, HalfQuit)
    BY DEF data, queues
  <2>2. queue' \in Queues
    BY <2>1, PutInQueues, SpecialMessages DEF ShapeInv, TypeOK, TableOK
  <2> QED  BY <1>1, <2>2 DEF ShapeInv, TypeOK, TableOK, table, locks
<1>4. StructsOK'
  BY <1>1 DEF ShapeInv, TypeOK, StructsOK, structs, flags, locks, data
<1>5. MainOK' /\ ProcessorOK'
  BY <1>1 DEF ShapeInv, TypeOK, MainOK, ProcessorOK, main, processor
<1>6. NetOK'
  BY <1>1, NoneIsNone DEF ShapeInv, TypeOK, TableOK, NetOK, net
<1>7. CountInv' /\ ScanInv' /\ StopInv'
  BY <1>1, MainStandsStill DEF table
<1> QED  BY <1>2, <1>3, <1>4, <1>5, <1>6, <1>7 DEF ShapeInv, TypeOK

LEMMA ProcessorShape ==
  ASSUME ShapeInv, Processor PROVE ShapeInv'
<1> USE DEF Processor, PLoop, PPop, PLock, PScan, PFault, PMatch, PSend, PDone, ProcAt, ProcGoto
<1>1. UNCHANGED <<table, structs, flags, quit, in_lock, main, hpc, reader, writer, net>>
  BY DEF data, queues, locks
<1>2. ReadersOK' /\ WritersOK' /\ NetOK' /\ MainOK'
  BY <1>1, PartsStandStill DEF ShapeInv, TypeOK
<1>3. TableOK'
  <2>1. queue' \in Queues
    BY TailInQueues DEF ShapeInv, TypeOK, TableOK, data, queues
  <2>2. clients_lock' \in {"main", "proc", NONE}
    BY DEF ShapeInv, TypeOK, TableOK, locks, UnlockClients
  <2> QED  BY <1>1, <2>1, <2>2 DEF ShapeInv, TypeOK, TableOK, table
<1>4. StructsOK'
  <2>1. in_queue' \in [Conns -> Queues]
    <3>1. CASE in_queue' = in_queue
      BY <3>1 DEF ShapeInv, TypeOK, StructsOK
    <3>2. CASE /\ ppc = "send" /\ clients[pi] # NONE
               /\ in_queue' = [in_queue EXCEPT ![clients[pi]] = Put(@, front)]
      <4>1. clients[pi] \in Conns /\ front \in Messages
        BY <3>2 DEF ShapeInv, TypeOK, TableOK, HandsFull
      <4>2. Put(in_queue[clients[pi]], front) \in Queues
        BY <4>1, PutInQueues DEF ShapeInv, TypeOK, StructsOK
      <4> QED  BY <3>2, <4>1, <4>2 DEF ShapeInv, TypeOK, StructsOK
    <3> QED  BY <3>1, <3>2 DEF data, queues
  <2> QED  BY <1>1, <2>1 DEF ShapeInv, TypeOK, StructsOK, structs, flags
<1>5. ProcessorOK' /\ HandsFull'
  <2>1. queue # <<>> => Head(queue) \in Messages
    BY TailInQueues DEF ShapeInv, TypeOK, TableOK
  <2>2. ProcessorOK'
    <3>1. pi' \in 0 .. LISTENER_MAX_CLIENTS
      BY ListenerAssumption, SMT DEF ShapeInv, TypeOK, ProcessorOK, HandsFull, Slots, processor
    <3>2. front' \in MessageOrNone
      BY <2>1 DEF ShapeInv, TypeOK, ProcessorOK, MessageOrNone, processor
    <3> QED  BY <3>1, <3>2 DEF ShapeInv, TypeOK, ProcessorOK, processor
  <2>3. HandsFull'
    BY <1>1, <2>1, ListenerAssumption, SMT
    DEF ShapeInv, TypeOK, ProcessorOK, HandsFull, Slots, processor, reader, writer
  <2> QED  BY <2>2, <2>3
<1>6. CountInv' /\ ScanInv' /\ StopInv'
  BY <1>1, MainStandsStill DEF table
<1> QED  BY <1>2, <1>3, <1>4, <1>5, <1>6 DEF ShapeInv, TypeOK

LEMMA ReaderShape ==
  ASSUME ShapeInv, NEW c \in Conns, Reader(c) PROVE ShapeInv'
<1> USE DEF Reader, RPoll, ReadFails, Read, RPush, ReadAt, ReadGoto, EndReading
<1>1. UNCHANGED <<table, structs, running_write, in_queue, quit, locks, main, hpc,
                  processor, writer, crashed, peer, stalled, sock, sent, down, delivered>>
  BY DEF data, flags, queues, net
<1>2. WritersOK' /\ ProcessorOK' /\ MainOK'
  BY <1>1, PartsStandStill DEF ShapeInv, TypeOK
<1>3. TableOK'
  <2>1. CASE UNCHANGED queue
    BY <1>1, <2>1 DEF ShapeInv, TypeOK, TableOK, table, locks
  <2>2. CASE rpc[c] = "push" /\ queue' = Put(queue, msgObj[c])
    <3>1. queue' \in Queues
      BY <2>2, PutInQueues DEF ShapeInv, TypeOK, TableOK, HandsFull
    <3> QED  BY <1>1, <3>1 DEF ShapeInv, TypeOK, TableOK, table, locks
  <2> QED  BY <2>1, <2>2 DEF data, queues
<1>4. StructsOK'
  <2>1. running_read' \in [Conns -> BOOLEAN]
    BY DEF ShapeInv, TypeOK, StructsOK, data, flags
  <2> QED  BY <1>1, <2>1 DEF ShapeInv, TypeOK, StructsOK, structs, flags, locks
<1>5. \A k \in 1 .. Len(inbox[c]) :
        /\ Message(c, fd[c], inbox[c][k]) \in Messages
        /\ SubSeq(inbox[c], k + 1, Len(inbox[c])) \in Seq(Texts)
  <2>1. inbox[c] \in Seq(Texts) /\ fd[c] \in Nat
    BY DEF ShapeInv, TypeOK, NetOK, StructsOK
  <2>2. ASSUME NEW k \in 1 .. Len(inbox[c])
        PROVE  SubSeq(inbox[c], k + 1, Len(inbox[c])) \in Seq(Texts)
    <3>1. k + 1 \in Int /\ Len(inbox[c]) \in Int
          /\ \A h \in k + 1 .. Len(inbox[c]) : inbox[c][h] \in Texts
      BY <2>1
    <3> QED  BY <3>1, SubSeqProperties
  <2> QED  BY <2>1, <2>2, SpecialMessages
<1>6. ReadersOK'
  BY <1>5 DEF ShapeInv, TypeOK, ReadersOK, MessageOrNone, reader
<1>7. NetOK'
  BY <1>1, <1>5 DEF ShapeInv, TypeOK, NetOK, net
<1>8. HandsFull'
  BY <1>1, <1>5 DEF ShapeInv, TypeOK, ReadersOK, HandsFull, processor, writer
<1>9. CountInv' /\ ScanInv' /\ StopInv'
  BY <1>1, MainStandsStill DEF table
<1> QED  BY <1>2, <1>3, <1>4, <1>6, <1>7, <1>8, <1>9 DEF ShapeInv, TypeOK

LEMMA WriterShape ==
  ASSUME ShapeInv, NEW c \in Conns, Writer(c) PROVE ShapeInv'
<1> USE DEF Writer, WLoop, WPop, WriteFails, WriteBlocks, Write, WriteAt, WriteGoto, EndWriting
<1>1. UNCHANGED <<table, structs, running_read, queue, quit, locks, main, hpc,
                  processor, reader, crashed, peer, stalled, sock, sent, down, inbox>>
  BY DEF data, flags, queues, net
<1>2. ReadersOK' /\ ProcessorOK' /\ MainOK'
  BY <1>1, PartsStandStill DEF ShapeInv, TypeOK
<1>3. TableOK'
  BY <1>1 DEF ShapeInv, TypeOK, TableOK, table, locks
<1>4. in_queue[c] # <<>> => Head(in_queue[c]) \in Messages /\ Tail(in_queue[c]) \in Queues
  BY TailInQueues DEF ShapeInv, TypeOK, StructsOK
<1>5. StructsOK'
  <2>1. running_write' \in [Conns -> BOOLEAN]
    BY DEF ShapeInv, TypeOK, StructsOK, data, flags
  <2>2. in_queue' \in [Conns -> Queues]
    BY <1>4 DEF ShapeInv, TypeOK, StructsOK, data, queues
  <2> QED  BY <1>1, <2>1, <2>2 DEF ShapeInv, TypeOK, StructsOK, structs, flags, locks
<1>6. WritersOK'
  BY <1>4 DEF ShapeInv, TypeOK, WritersOK, MessageOrNone, writer
<1>7. NetOK'
  <2>1. delivered' \in [Conns -> Seq(Messages)]
    <3>1. CASE UNCHANGED delivered
      BY <3>1 DEF ShapeInv, TypeOK, NetOK
    <3>2. CASE /\ wpc[c] = "write"
               /\ delivered' = [delivered EXCEPT ![c] = Append(@, wfront[c])]
      BY <3>2 DEF ShapeInv, TypeOK, NetOK, HandsFull
    <3> QED  BY <3>1, <3>2 DEF net
  <2> QED  BY <1>1, <2>1 DEF ShapeInv, TypeOK, NetOK
<1>8. HandsFull'
  BY <1>1, <1>4 DEF ShapeInv, TypeOK, WritersOK, HandsFull, processor, reader
<1>9. CountInv' /\ ScanInv' /\ StopInv'
  BY <1>1, MainStandsStill DEF table
<1> QED  BY <1>2, <1>3, <1>5, <1>6, <1>7, <1>8, <1>9 DEF ShapeInv, TypeOK

LEMMA EnvironmentShape ==
  ASSUME ShapeInv, Environment PROVE ShapeInv'
<1> USE DEF Environment, Connect, Withdraw, Send, PeerEof, PeerGone, Stall, ServerFails
<1>1. UNCHANGED Program
  OBVIOUS
<1>2. TableOK' /\ MainOK' /\ ProcessorOK' /\ ReadersOK' /\ WritersOK' /\ HandsFull'
  BY <1>1, PartsStandStill, HandsStandStill DEF ShapeInv, TypeOK, Program, queues, locks, threads
<1>3. StructsOK'
  <2>1. fd_server' \in [Conns -> Servers \cup {NONE}]
    BY DEF ShapeInv, TypeOK, StructsOK
  <2> QED  BY <1>1, <2>1 DEF ShapeInv, TypeOK, StructsOK, Program, flags, queues, locks
<1>4. NetOK'
  <2>1. sent' \in [Conns -> 0 .. MaxSend] /\ inbox' \in [Conns -> Seq(Texts)]
    <3>1. CASE UNCHANGED <<sent, inbox>>
      BY <3>1 DEF ShapeInv, TypeOK, NetOK
    <3>2. ASSUME NEW c \in Conns, NEW to \in Targets, Send(c, to)
          PROVE  sent' \in [Conns -> 0 .. MaxSend] /\ inbox' \in [Conns -> Seq(Texts)]
      <4>1. sent[c] \in Nat /\ sent[c] + 1 \in 0 .. MaxSend /\ to \in Nat
        BY <3>2, ListenerAssumption DEF ShapeInv, TypeOK, NetOK
      <4>2. [n |-> sent[c] + 1, to |-> to] \in Texts
        BY <4>1 DEF Texts
      <4> QED  BY <3>2, <4>1, <4>2 DEF ShapeInv, TypeOK, NetOK
    <3> QED  BY <3>1, <3>2
  <2>2. /\ sock' \in [Conns -> {"none", "backlog", "withdrawn", "open", "closed"}]
        /\ peer' \in [Conns -> {"up", "eof", "gone"}]
    BY DEF ShapeInv, TypeOK, NetOK
  <2>3. stalled' \in [Conns -> BOOLEAN] /\ down' \subseteq Servers
    BY DEF ShapeInv, TypeOK, NetOK
  <2>4. delivered' \in [Conns -> Seq(Messages)]
    BY <1>1 DEF ShapeInv, TypeOK, NetOK, Program
  <2> QED  BY <2>1, <2>2, <2>3, <2>4 DEF NetOK
<1>5. CountInv' /\ ScanInv' /\ StopInv'
  BY <1>1, MainStandsStill DEF Program, table
<1> QED  BY <1>2, <1>3, <1>4, <1>5 DEF ShapeInv, TypeOK

-----------------------------------------------------------------------------
LEMMA InitShape == Init => ShapeInv
<1> SUFFICES ASSUME Init PROVE ShapeInv  OBVIOUS
<1>1. <<>> \in Queues
  BY ListenerAssumption DEF Queues
<1>2. TypeOK
  <2>1. TableOK
    <3>1. running \in BOOLEAN
      BY DEF Init
    <3>2. npfs \in 0 .. LISTENER_MAX_SERVERS
      BY ListenerAssumption DEF Init
    <3> QED  BY <1>1, <3>1, <3>2 DEF Init, TableOK
  <2>5. MainOK
    BY ListenerAssumption DEF Init, MainOK, MainPlaces
  <2>6. ProcessorOK
    <3>1. pi \in 0 .. LISTENER_MAX_CLIENTS
      BY ListenerAssumption DEF Init
    <3> QED  BY <3>1 DEF Init, ProcessorOK, MessageOrNone
  <2>2. StructsOK
    BY <1>1 DEF Init, StructsOK
  <2>3. ReadersOK /\ WritersOK
    BY DEF Init, ReadersOK, WritersOK, MessageOrNone
  <2>4. NetOK
    BY ListenerAssumption DEF Init, NetOK
  <2> QED  BY <2>1, <2>2, <2>3, <2>4, <2>5, <2>6 DEF TypeOK
<1>3. CountInv
  <2>1. Used = {}
    BY DEF Init, Used
  <2> QED  BY <2>1, FS_EmptySet DEF Init, CountInv
<1>4. ScanInv /\ StopInv /\ HandsFull
  BY DEF Init, ScanInv, StopInv, HandsFull, Closing, InstallPlaces, ClosePlaces, StopPlaces
<1> QED  BY <1>2, <1>3, <1>4 DEF ShapeInv

LEMMA ShapeStep == ShapeInv /\ [Next]_vars => ShapeInv'
<1> SUFFICES ASSUME ShapeInv, [Next]_vars PROVE ShapeInv'  OBVIOUS
<1>1. CASE UNCHANGED vars
  <2>1. TypeOK' /\ HandsFull'
    BY <1>1, PartsStandStill, HandsStandStill
    DEF ShapeInv, TypeOK, vars, data, queues, locks, threads
  <2>2. CountInv' /\ ScanInv' /\ StopInv'
    BY <1>1, MainStandsStill DEF vars, table
  <2> QED  BY <2>1, <2>2 DEF ShapeInv
<1> QED
  BY <1>1, MainShape, HandlerShape, ProcessorShape, EnvironmentShape, ReaderShape, WriterShape
  DEF Next

(* Whatever the hub does, its fields keep their ranges: no queue outgrows  *)
(* its ring, the loops stay inside the tables, npfs is never more than the *)
(* servers or below 0, and no thread handles a message it does not have.   *)
THEOREM ListenerTypeCorrect == Spec => []TypeOK
<1>1. ShapeInv => TypeOK
  BY DEF ShapeInv
<1> QED  BY InitShape, ShapeStep, <1>1, PTL DEF Spec

-----------------------------------------------------------------------------
(* Clients from accept to free *)

AfterStop == mpc \in StopPlaces \ {"stop", "clear"}

(* A connection is served by a ClientListener from Install on; its socket  *)
(* is closed, and its struct freed, only by the stop that main is in, and  *)
(* freed only with both threads gone.                                      *)
LifeInv ==
  /\ \A c \in Conns : sock[c] \in {"none", "backlog", "withdrawn"} => obj[c] = "unborn"
  /\ \A c \in Conns : obj[c] = "unborn" => rpc[c] = "unborn" /\ wpc[c] = "unborn"
  /\ \A c \in Conns : Freed(c) => sock[c] = "closed" /\ ThreadsGone(c)
  /\ \A c \in Conns : sock[c] = "closed" => Freed(c) \/ (AfterStop /\ clients[j] = c)

(* The connection that accept returned is nobody's yet.                    *)
AcceptedInv ==
  client # NONE => mpc \in InstallPlaces /\ obj[client] = "unborn" /\ sock[client] = "open"

(* How far main has come with the client in slot j.                        *)
StoppingInv ==
  /\ mpc = "stop" \/ AfterStop => obj[clients[j]] = "live"
  /\ AfterStop => sock[clients[j]] = "closed"
  /\ mpc \in {"join_write", "free"} => rpc[clients[j]] = "exit"
  /\ mpc = "free" => wpc[clients[j]] = "exit"
  /\ mpc = "clear" => Freed(clients[j])

FdInv ==
  \A c, d \in Conns :
    c # d /\ sock[d] = "open" /\ (sock[c] = "open" \/ ThreadsRun(c)) => fd[c] # fd[d]

ClientInv == LifeInv /\ AcceptedInv /\ StoppingInv /\ SlotsConsistent /\ FdInv

clientVars == <<sock, obj, fd, clients, client, mpc, j, rpc, wpc>>

LEMMA ClientsStandStill ==
  ASSUME ClientInv, UNCHANGED clientVars PROVE ClientInv'
BY DEF ClientInv, LifeInv, AcceptedInv, StoppingInv, SlotsConsistent, FdInv, clientVars,
       Freed, AfterStop, ThreadsGone, ThreadsRun

(* Walking about changes no client.                                        *)
LEMMA WalkClients ==
  ASSUME ShapeInv, ClientInv,
         \/ ListenerInit \/ Start \/ Poll \/ NoEvent \/ ServerDown \/ InstallLock \/ ScanDone
         \/ ReapNext \/ ReapDone \/ CloseLock \/ CloseNext \/ CloseDone
         \/ \E s \in Servers, next \in {"bt", "listener_run"} : ServerInit(s, next)
  PROVE  ClientInv'
<1> USE DEF ListenerInit, Start, Poll, NoEvent, ServerDown, InstallLock, ScanDone, ReapNext,
            ReapDone, CloseLock, CloseNext, CloseDone, ServerInit, At, Goto, NextSlot, Servers
<1>1. UNCHANGED <<sock, obj, fd, clients, client, rpc, wpc>>
  BY DEF table, data, structs, threads, reader, writer, net
<1>2. mpc \notin StopPlaces /\ mpc' \notin StopPlaces
  BY DEF StopPlaces
<1>3. mpc \in InstallPlaces => mpc' \in InstallPlaces
  BY DEF InstallPlaces
<1> QED  BY <1>1, <1>2, <1>3 DEF ClientInv, LifeInv, AcceptedInv, StoppingInv, SlotsConsistent, FdInv, Freed, ThreadsGone, ThreadsRun, AfterStop, InstallPlaces, StopPlaces

LEMMA AcceptClients ==
  ASSUME ShapeInv, ClientInv, Accept PROVE ClientInv'
<1>1. UNCHANGED <<obj, clients, j, rpc, wpc>> /\ mpc = "scan" /\ mpc' = "install_lock"
  BY DEF Accept, At, Goto, table, threads, reader, writer
<1>2. CASE client' = NONE /\ UNCHANGED <<fd, sock>>
  BY <1>1, <1>2 DEF ClientInv, LifeInv, AcceptedInv, StoppingInv, SlotsConsistent, FdInv, Freed, ThreadsGone, ThreadsRun, AfterStop, InstallPlaces, StopPlaces
<1>3. CASE \E c \in Backlog(pf[i]), f \in Nat :
             /\ LowestFree(f) /\ client' = c
             /\ fd' = [fd EXCEPT ![c] = f] /\ sock' = [sock EXCEPT ![c] = "open"]
  <2>0. PICK c \in Backlog(pf[i]), f \in Nat :
             /\ LowestFree(f) /\ client' = c
             /\ fd' = [fd EXCEPT ![c] = f] /\ sock' = [sock EXCEPT ![c] = "open"]
    BY <1>3
  <2>1. /\ c \in Conns /\ f \in Nat /\ sock[c] = "backlog"
        /\ \A d \in Conns : sock[d] = "open" => fd[d] # f
        /\ client' = c
        /\ fd' = [fd EXCEPT ![c] = f] /\ sock' = [sock EXCEPT ![c] = "open"]
    <3>1. c \in Conns /\ sock[c] = "backlog"
      BY DEF Backlog
    <3>2. f \notin OpenFds
      BY <2>0 DEF LowestFree
    <3> QED  BY <2>0, <3>1, <3>2 DEF OpenFds
  <2>2. \A d \in Conns : ThreadsRun(d) => sock[d] = "open"
    BY <1>1 DEF ShapeInv, TypeOK, NetOK, ClientInv, LifeInv, AcceptedInv, StoppingInv, SlotsConsistent, FdInv, Freed, ThreadsGone, ThreadsRun, AfterStop, InstallPlaces, StopPlaces
  <2>3. FdInv'
    BY <1>1, <2>1, <2>2 DEF ShapeInv, TypeOK, StructsOK, NetOK, ClientInv, FdInv, ThreadsRun
  <2>4. LifeInv' /\ AcceptedInv' /\ StoppingInv' /\ SlotsConsistent'
    BY <1>1, <2>1 DEF ShapeInv, TypeOK, NetOK, ClientInv, LifeInv, AcceptedInv, StoppingInv, SlotsConsistent, Freed, ThreadsGone, AfterStop, InstallPlaces, StopPlaces
  <2> QED  BY <2>3, <2>4 DEF ClientInv
<1>4. \A f \in FirstFd .. FirstFd + Cardinality(Conns) : f \in Nat
  BY ListenerAssumption
<1> QED  BY <1>2, <1>3, <1>4 DEF Accept

LEMMA InstallClients ==
  ASSUME ShapeInv, ClientInv, Install PROVE ClientInv'
<1>1. UNCHANGED <<sock, fd, j>> /\ mpc = "install" /\ mpc' = "scan" /\ client' = NONE
  BY DEF Install, At, Goto, net
<1>2. CASE UNCHANGED <<clients, obj, rpc, wpc>>
  BY <1>1, <1>2 DEF ClientInv, LifeInv, AcceptedInv, StoppingInv, SlotsConsistent, FdInv, Freed, ThreadsGone, ThreadsRun, AfterStop, InstallPlaces, StopPlaces
<1>3. CASE \E k \in Slots :
             /\ client # NONE /\ clients[k] = NONE
             /\ clients' = [clients EXCEPT ![k] = client]
             /\ obj' = [obj EXCEPT ![client] = "live"]
             /\ rpc' = [rpc EXCEPT ![client] = "poll"]
             /\ wpc' = [wpc EXCEPT ![client] = "loop"]
  <2>1. client \in Conns /\ obj[client] = "unborn" /\ sock[client] = "open"
    BY <1>3 DEF ShapeInv, TypeOK, MainOK, ClientInv, AcceptedInv
  <2>2. LifeInv' /\ AcceptedInv' /\ StoppingInv'
    BY <1>1, <1>3, <2>1
    DEF ShapeInv, TypeOK, StructsOK, ReadersOK, WritersOK, ClientInv, LifeInv, AcceptedInv, StoppingInv, Freed, ThreadsGone, AfterStop, InstallPlaces, StopPlaces
  <2>3. SlotsConsistent'
    <3>1. PICK k \in Slots :
             /\ clients[k] = NONE
             /\ clients' = [clients EXCEPT ![k] = client]
             /\ obj' = [obj EXCEPT ![client] = "live"]
      BY <1>3
    <3>2. \A h \in Slots : clients[h] # NONE => clients[h] \in Conns /\ obj[clients[h]] = "live"
      BY <1>1 DEF ShapeInv, TypeOK, TableOK, ClientInv, SlotsConsistent
    <3>3. \A h \in Slots : clients[h] # client
      BY <2>1, <3>2, NoneIsNone
    <3>4. clients \in [Slots -> Conns \cup {NONE}] /\ obj \in [Conns -> {"unborn", "live", "reaped", "closed"}]
      BY DEF ShapeInv, TypeOK, TableOK, StructsOK
    <3>5. \A h, g \in Slots : h # g /\ clients'[h] # NONE => clients'[h] # clients'[g]
      BY <3>1, <3>3, <3>4 DEF ClientInv, SlotsConsistent
    <3>6. \A c \in Conns : obj'[c] = "live" => \E h \in Slots : clients'[h] = c
      <4> SUFFICES ASSUME NEW c \in Conns, obj'[c] = "live" PROVE \E h \in Slots : clients'[h] = c
        OBVIOUS
      <4>1. CASE c = client
        BY <3>1, <3>4, <4>1
      <4>2. CASE c # client
        <5>1. PICK h \in Slots : clients[h] = c
          BY <3>1, <3>4, <4>2 DEF ClientInv, SlotsConsistent
        <5> QED  BY <2>1, <3>1, <3>4, <5>1, NoneIsNone
      <4> QED  BY <4>1, <4>2
    <3>7. \A h \in Slots : clients'[h] # NONE => obj'[clients'[h]] = "live"
      BY <2>1, <3>1, <3>2, <3>4
    <3> QED  BY <3>5, <3>6, <3>7 DEF SlotsConsistent
  <2>4. FdInv'
    BY <1>1, <1>3, <2>1
    DEF ShapeInv, TypeOK, ReadersOK, WritersOK, ClientInv, FdInv, ThreadsRun
  <2> QED  BY <2>2, <2>3, <2>4 DEF ClientInv
<1> QED  BY <1>2, <1>3 DEF Install, flags

LEMMA StopClients ==
  ASSUME ShapeInv, ClientInv,
         \/ ReapClient \/ CloseClient \/ StopClient \/ GetQuitMsg \/ PushQuitLock \/ PushQuit
         \/ JoinRead \/ JoinWrite \/ Free \/ ClearSlot
  PROVE  ClientInv'
<1>1. j \in 0 .. LISTENER_MAX_CLIENTS /\ (mpc \in StopPlaces => j \in Slots /\ clients[j] \in Conns)
  BY DEF ShapeInv, StopInv, TypeOK, MainOK, TableOK
<1>2. CASE ReapClient \/ CloseClient
  <2>1. UNCHANGED <<sock, obj, fd, clients, client, rpc, wpc, j>>
        /\ mpc \in {"reap", "close"} /\ mpc' = "stop" /\ j \in Slots /\ clients[j] # NONE
    BY <1>1, <1>2, ListenerAssumption
    DEF ReapClient, CloseClient, At, Goto, Current, table, data, structs, threads, reader, writer, net, Slots
  <2> QED  BY <2>1 DEF ClientInv, LifeInv, AcceptedInv, StoppingInv, SlotsConsistent, FdInv, Freed, ThreadsGone, ThreadsRun, AfterStop, InstallPlaces, StopPlaces
<1>3. CASE StopClient
  <2>1. UNCHANGED <<obj, fd, clients, client, rpc, wpc, j>> /\ mpc = "stop" /\ mpc' = "get_quit_msg"
        /\ sock' = [sock EXCEPT ![clients[j]] = "closed"]
    BY <1>3 DEF StopClient, At, Goto, Current, table, structs, threads, reader, writer
  <2> QED  BY <1>1, <2>1 DEF ShapeInv, TypeOK, NetOK, ClientInv, LifeInv, AcceptedInv, StoppingInv, SlotsConsistent, FdInv, Freed, ThreadsGone, ThreadsRun, AfterStop, InstallPlaces, StopPlaces
<1>4. CASE GetQuitMsg \/ PushQuitLock \/ PushQuit \/ JoinRead \/ JoinWrite
  <2>1. UNCHANGED <<sock, obj, fd, clients, client, rpc, wpc, j>> /\ AfterStop /\ AfterStop'
    BY <1>4
    DEF GetQuitMsg, PushQuitLock, PushQuit, JoinRead, JoinWrite, At, Goto, table, data,
        structs, threads, reader, writer, net, AfterStop, StopPlaces
  <2>2. /\ mpc' \in {"join_write", "free"} => rpc[clients[j]] = "exit"
        /\ mpc' = "free" => wpc[clients[j]] = "exit"
    BY <1>4
    DEF GetQuitMsg, PushQuitLock, PushQuit, JoinRead, JoinWrite, At, Goto, ReadJoined,
        WriteJoined, Current, ClientInv, StoppingInv
  <2> QED  BY <2>1, <2>2 DEF ClientInv, LifeInv, AcceptedInv, StoppingInv, SlotsConsistent, FdInv, Freed, ThreadsGone, ThreadsRun, AfterStop, InstallPlaces, StopPlaces
<1>5. CASE Free
  <2>1. UNCHANGED <<sock, fd, clients, client, rpc, wpc, j>> /\ mpc = "free" /\ mpc' = "clear"
    BY <1>5 DEF Free, At, Goto, table, threads, reader, writer, net
  <2>2. \E what \in {"closed", "reaped"} : obj' = [obj EXCEPT ![clients[j]] = what]
    BY <1>5 DEF Free, Current
  <2> QED  BY <1>1, <2>1, <2>2 DEF ShapeInv, TypeOK, StructsOK, ClientInv, LifeInv, AcceptedInv, StoppingInv, SlotsConsistent, FdInv, Freed, ThreadsGone, ThreadsRun, AfterStop, InstallPlaces, StopPlaces
<1>6. CASE ClearSlot
  <2>1. UNCHANGED <<sock, obj, fd, client, rpc, wpc>> /\ mpc = "clear" /\ mpc' \in {"reap", "close"}
        /\ clients' = [clients EXCEPT ![j] = NONE]
    BY <1>6
    DEF ClearSlot, ClearedSlot, At, Goto, data, structs, threads, reader, writer, net, ShapeInv, TypeOK, MainOK
  <2> QED  BY <1>1, <2>1 DEF ShapeInv, TypeOK, TableOK, ClientInv, LifeInv, AcceptedInv, StoppingInv, SlotsConsistent, FdInv, Freed, ThreadsGone, ThreadsRun, AfterStop, InstallPlaces, StopPlaces
<1> QED  BY <1>2, <1>3, <1>4, <1>5, <1>6

LEMMA MainClients ==
  ASSUME ShapeInv, ClientInv, Main PROVE ClientInv'
BY WalkClients, AcceptClients, InstallClients, StopClients DEF Main, Servers, tcpserver_init, bt_server_init

(* A read or write thread can only move towards its end.                   *)
LEMMA ThreadClients ==
  ASSUME ShapeInv, ClientInv, NEW c \in Conns, Reader(c) \/ Writer(c) PROVE ClientInv'
<1>1. UNCHANGED <<sock, obj, fd, clients, client, mpc, j>>
  BY DEF Reader, RPoll, ReadFails, Read, RPush, Writer, WLoop, WPop, WriteFails, WriteBlocks,
         Write, table, data, structs, main, net
<1>2. /\ rpc' = rpc \/ rpc[c] \notin {"unborn", "exit"}
      /\ wpc' = wpc \/ wpc[c] \notin {"unborn", "exit"}
  BY DEF Reader, RPoll, ReadFails, Read, RPush, Writer, WLoop, WPop, WriteFails, WriteBlocks,
         Write, ReadAt, WriteAt, reader, writer
<1>3. \A d \in Conns \ {c} : rpc'[d] = rpc[d] /\ wpc'[d] = wpc[d]
  BY DEF Reader, RPoll, ReadFails, Read, RPush, Writer, WLoop, WPop, WriteFails, WriteBlocks,
         Write, ReadGoto, WriteGoto, EndReading, EndWriting, reader, writer, ShapeInv, TypeOK,
         ReadersOK, WritersOK
<1>4. /\ \A d \in Conns : rpc[d] = "unborn" => rpc'[d] = "unborn"
      /\ \A d \in Conns : wpc[d] = "unborn" => wpc'[d] = "unborn"
      /\ \A d \in Conns : rpc[d] = "exit" => rpc'[d] = "exit"
      /\ \A d \in Conns : wpc[d] = "exit" => wpc'[d] = "exit"
  BY <1>2, <1>3
<1>5. LifeInv'
  <2>1. \A d \in Conns : Freed(d)' <=> Freed(d)
    BY <1>1 DEF Freed
  <2>2. \A d \in Conns : ThreadsGone(d) => ThreadsGone(d)'
    BY <1>4 DEF ThreadsGone
  <2>3. AfterStop' <=> AfterStop
    BY <1>1 DEF AfterStop
  <2> QED  BY <1>1, <1>4, <2>1, <2>2, <2>3 DEF ClientInv, LifeInv
<1>6. AcceptedInv' /\ SlotsConsistent'
  BY <1>1 DEF ClientInv, AcceptedInv, SlotsConsistent
<1>7. StoppingInv'
  <2>1. mpc \in {"join_write", "free"} => clients[j] \in Conns
    BY DEF ShapeInv, StopInv, StopPlaces, TypeOK, TableOK
  <2> QED  BY <1>1, <1>4, <2>1 DEF ClientInv, StoppingInv, AfterStop, Freed
<1>8. FdInv'
  <2>1. \A d \in Conns : ThreadsRun(d)' => ThreadsRun(d)
    BY <1>4 DEF ThreadsRun
  <2> QED  BY <1>1, <2>1 DEF ClientInv, FdInv
<1> QED  BY <1>5, <1>6, <1>7, <1>8 DEF ClientInv

LEMMA OtherClients ==
  ASSUME ShapeInv, ClientInv, Handler \/ Processor \/ Environment PROVE ClientInv'
<1>1. CASE Handler \/ Processor
  <2>1. UNCHANGED clientVars
    BY <1>1
    DEF Handler, HandlerRuns, Sigint, CloseServers, PushQuitToProcessor, AssertionFails,
        JoinProcessor, JoinNoThread, Processor, PLoop, PPop, PLock, PScan, PFault, PMatch,
        PSend, PDone, clientVars, table, data, structs, main, reader, writer, net
  <2> QED  BY <2>1, ClientsStandStill
<1>2. CASE Environment
  <2>1. UNCHANGED <<obj, fd, clients, client, mpc, j, rpc, wpc>>
    BY <1>2
    DEF Environment, Connect, Withdraw, Send, PeerEof, PeerGone, Stall, ServerFails, Program,
        table, main, threads, reader, writer
  <2>2. \/ UNCHANGED sock
        \/ \E c \in Conns : sock[c] = "none" /\ sock' = [sock EXCEPT ![c] = "backlog"]
        \/ \E c \in Conns : sock[c] = "backlog" /\ sock' = [sock EXCEPT ![c] = "withdrawn"]
    BY <1>2 DEF Environment, Connect, Withdraw, Send, PeerEof, PeerGone, Stall, ServerFails
  <2>3. /\ \A c \in Conns : sock'[c] = "open" <=> sock[c] = "open"
        /\ \A c \in Conns : sock'[c] = "closed" <=> sock[c] = "closed"
        /\ \A c \in Conns : sock'[c] \in {"none", "backlog", "withdrawn"}
             => sock[c] \in {"none", "backlog", "withdrawn"}
    BY <2>2 DEF ShapeInv, TypeOK, NetOK
  <2>4. LifeInv'
    BY <2>1, <2>3 DEF ClientInv, LifeInv, Freed, ThreadsGone, AfterStop
  <2>5. AcceptedInv' /\ SlotsConsistent'
    BY <2>1, <2>3 DEF ClientInv, AcceptedInv, SlotsConsistent, ShapeInv, TypeOK, MainOK
  <2>6. StoppingInv'
    <3>1. AfterStop => clients[j] \in Conns
      BY DEF ShapeInv, StopInv, AfterStop, StopPlaces, TypeOK, TableOK
    <3> QED  BY <2>1, <2>3, <3>1 DEF ClientInv, StoppingInv, AfterStop, Freed
  <2>7. FdInv'
    BY <2>1, <2>3 DEF ClientInv, FdInv, ThreadsRun
  <2> QED  BY <2>4, <2>5, <2>6, <2>7 DEF ClientInv
<1> QED  BY <1>1, <1>2

-----------------------------------------------------------------------------
IInv == ShapeInv /\ ClientInv

LEMMA InitIInv == Init => IInv
<1>1. Init => ClientInv
  BY NoneIsNone DEF Init, ClientInv, LifeInv, AcceptedInv, StoppingInv, SlotsConsistent, FdInv, Freed, ThreadsGone, ThreadsRun, AfterStop, InstallPlaces, StopPlaces
<1> QED  BY <1>1, InitShape DEF IInv

LEMMA IInvStep == IInv /\ [Next]_vars => IInv'
<1> SUFFICES ASSUME IInv, [Next]_vars PROVE ClientInv'
  BY ShapeStep DEF IInv
<1>1. CASE UNCHANGED vars
  BY <1>1, ClientsStandStill
  DEF IInv, vars, clientVars, table, data, structs, main, threads, reader, writer, net
<1> QED  BY <1>1, MainClients, ThreadClients, OtherClients DEF IInv, Next

THEOREM ListenerInvariant == Spec => []IInv
BY InitIInv, IInvStep, PTL DEF Spec

(* The hub never frees a ClientListener while its read or write thread can *)
(* still use it: use-after-free is left to the message processor.          *)
THEOREM ListenerJoinsBeforeFree == Spec => []FreedThreadsGone
<1>1. IInv => FreedThreadsGone
  BY DEF IInv, ClientInv, LifeInv, FreedThreadsGone
<1> QED  BY <1>1, ListenerInvariant, PTL

(* No thread reads from, writes to or closes another client's connection   *)
(* through a descriptor number that was used again.                        *)
THEOREM ListenerDescriptorsDistinct == Spec => []DescriptorsDistinct
<1>1. IInv => DescriptorsDistinct
  BY DEF IInv, ClientInv, FdInv, DescriptorsDistinct
<1> QED  BY <1>1, ListenerInvariant, PTL

(* Every live client is in exactly one slot, and a slot dangles only at    *)
(* the instant between free and its clearing.                              *)
THEOREM ListenerSlotsConsistent == Spec => []SlotsConsistent
<1>1. IInv => SlotsConsistent
  BY DEF IInv, ClientInv
<1> QED  BY <1>1, ListenerInvariant, PTL

(* The three together: from accept to free, struct, number and slot serve  *)
(* one client, and no thread of it is left when they are given back.       *)
THEOREM ListenerClientLife == Spec => []ClientLife
<1> QED
  BY ListenerJoinsBeforeFree, ListenerDescriptorsDistinct, ListenerSlotsConsistent, PTL
  DEF ClientLife
-----------------------------------------------------------------------------
(* The clients: who changes the table of clients under clients_lock, that   *)
(* no client outlives its server, and that the hub drops a client only     *)
(* when its peer has left or its server is down.                           *)

(* Main is between locking and unlocking clients_lock.                     *)
MainInTable == mpc \in {"install", "close"} \/ (mpc \in StopPlaces /\ caller = "close")
ProcessorInTable == ppc \in {"scan", "match", "send"}

LockInv ==
  /\ MainInTable => clients_lock = "main"
  /\ ProcessorInTable => clients_lock = "proc"

-----------------------------------------------------------------------------
(* clients_lock *)

(* The steps of main that take or give back no lock.                       *)
LEMMA MainKeepsLock ==
  ASSUME MainOK, LockInv,
         \/ ListenerInit \/ Start \/ Poll \/ NoEvent \/ ServerDown \/ Accept \/ ScanDone
         \/ ReapNext \/ ReapClient \/ ReapDone \/ CloseNext \/ CloseClient
         \/ StopClient \/ GetQuitMsg \/ PushQuitLock \/ PushQuit
         \/ JoinRead \/ JoinWrite \/ Free \/ ClearSlot
         \/ \E s \in Servers, next \in {"bt", "listener_run"} : ServerInit(s, next)
  PROVE  LockInv'
<1> USE DEF ListenerInit, Start, Poll, NoEvent, ServerDown, Accept, ScanDone, ReapNext,
            ReapClient, ReapDone, CloseNext, CloseClient, StopClient, GetQuitMsg,
            PushQuitLock, PushQuit, JoinRead, JoinWrite, Free, ClearSlot, ServerInit,
            At, Goto, Servers
<1>1. UNCHANGED clients_lock
  BY DEF locks
<1>2. MainInTable' => MainInTable
  <2>1. caller \in {"reap", "close"}
    BY DEF MainOK
  <2>2. CASE ClearSlot
    BY <2>1, <2>2 DEF MainInTable, StopPlaces
  <2>3. CASE ~ClearSlot
    BY <2>3 DEF MainInTable, StopPlaces
  <2> QED  BY <2>2, <2>3
<1>3. ProcessorInTable' => ProcessorInTable
  BY DEF ProcessorInTable, threads, processor
<1> QED  BY <1>1, <1>2, <1>3 DEF LockInv

LEMMA MainLocks ==
  ASSUME LockInv, InstallLock \/ CloseLock PROVE LockInv'
<1>1. clients_lock = NONE /\ clients_lock' = "main" /\ UNCHANGED ppc
  BY DEF InstallLock, CloseLock, ClientsUnlocked, threads, processor
<1> QED  BY <1>1, NoneIsNone DEF LockInv, ProcessorInTable

LEMMA MainUnlocks ==
  ASSUME LockInv, Install \/ CloseDone PROVE LockInv'
<1>1. mpc \in {"install", "close"} /\ mpc' = "scan" /\ UNCHANGED ppc
  BY DEF Install, CloseDone, At, Goto, threads, processor
<1> QED  BY <1>1 DEF LockInv, MainInTable, ProcessorInTable, StopPlaces

LEMMA ProcessorLock ==
  ASSUME LockInv, Processor PROVE LockInv'
<1>1. UNCHANGED <<mpc, caller>>
  BY DEF Processor, PLoop, PPop, PLock, PScan, PFault, PMatch, PSend, PDone, main
<1>2. MainInTable' <=> MainInTable
  BY <1>1 DEF MainInTable
<1>3. CASE PLock
  BY <1>2, <1>3, NoneIsNone DEF LockInv, PLock, ClientsUnlocked
<1>4. CASE PDone
  BY <1>2, <1>4
  DEF LockInv, PDone, UnlockClients, ProcAt, ProcGoto, ProcessorInTable
<1>5. CASE PLoop \/ PPop \/ PScan \/ PFault \/ PMatch \/ PSend
  <2>1. UNCHANGED clients_lock
    BY <1>5 DEF PLoop, PPop, PScan, PFault, PMatch, PSend, locks
  <2>2. ProcessorInTable' => ProcessorInTable
    BY <1>5
    DEF PLoop, PPop, PScan, PFault, PMatch, PSend, ProcAt, ProcGoto, ProcessorInTable, processor
  <2> QED  BY <1>2, <2>1, <2>2 DEF LockInv
<1> QED  BY <1>3, <1>4, <1>5 DEF Processor

LEMMA OthersLock ==
  ASSUME LockInv,
         Handler \/ Environment \/ (\E c \in Conns : Reader(c) \/ Writer(c)) \/ UNCHANGED vars
  PROVE  LockInv'
<1>1. CASE Handler
  BY <1>1
  DEF Handler, HandlerRuns, Sigint, CloseServers, PushQuitToProcessor, AssertionFails,
      JoinProcessor, JoinNoThread, locks, main, processor,
      LockInv, MainInTable, ProcessorInTable
<1>2. CASE Environment
  BY <1>2
  DEF Environment, Connect, Withdraw, Send, PeerEof, PeerGone, Stall, ServerFails, Program,
      locks, main, threads, processor, LockInv, MainInTable, ProcessorInTable
<1>3. CASE \E c \in Conns : Reader(c) \/ Writer(c)
  BY <1>3
  DEF Reader, RPoll, ReadFails, Read, RPush, Writer, WLoop, WPop, WriteFails, WriteBlocks,
      Write, locks, main, processor, LockInv, MainInTable, ProcessorInTable
<1>4. CASE UNCHANGED vars
  BY <1>4
  DEF vars, locks, main, threads, processor, LockInv, MainInTable, ProcessorInTable
<1> QED  BY <1>1, <1>2, <1>3, <1>4

LEMMA LockStep == MainOK /\ LockInv /\ [Next]_vars => LockInv'
<1> SUFFICES ASSUME MainOK, LockInv, [Next]_vars PROVE LockInv'  OBVIOUS
<1> QED
  BY MainKeepsLock, MainLocks, MainUnlocks, ProcessorLock, OthersLock
  DEF Next, Main, tcpserver_init, bt_server_init, Servers

LEMMA LockInitially == Init => LockInv
BY DEF Init, LockInv, MainInTable, ProcessorInTable, StopPlaces

(* Only three steps change the table or the life of a struct.              *)
LEMMA TableChanges ==
  ASSUME [Next]_vars PROVE UNCHANGED <<clients, obj>> \/ Install \/ Free \/ ClearSlot
<1>1. CASE Main
  BY <1>1
  DEF Main, tcpserver_init, bt_server_init, ListenerInit, Start, Poll, NoEvent, ServerDown,
      Accept, InstallLock, ScanDone, ReapNext, ReapClient, ReapDone, CloseLock, CloseNext,
      CloseClient, CloseDone, StopClient, GetQuitMsg, PushQuitLock, PushQuit, JoinRead,
      JoinWrite, ServerInit, table, data, structs
<1>2. CASE Handler \/ Processor
  BY <1>2
  DEF Handler, HandlerRuns, Sigint, CloseServers, PushQuitToProcessor, AssertionFails,
      JoinProcessor, JoinNoThread, Processor, PLoop, PPop, PLock, PScan, PFault, PMatch,
      PSend, PDone, table, data, structs
<1>3. CASE Environment
  BY <1>3
  DEF Environment, Connect, Withdraw, Send, PeerEof, PeerGone, Stall, ServerFails, Program, table
<1>4. CASE \E c \in Conns : Reader(c) \/ Writer(c)
  BY <1>4
  DEF Reader, RPoll, ReadFails, Read, RPush, Writer, WLoop, WPop, WriteFails, WriteBlocks,
      Write, table, data, structs
<1>5. CASE UNCHANGED vars
  BY <1>5 DEF vars, table, data, structs
<1> QED  BY <1>1, <1>2, <1>3, <1>4, <1>5 DEF Next

(* Accepting a client and closing a server are safe against the message    *)
(* processor; what pulls a client from under it is the reaper alone.       *)
THEOREM ListenerOnlyReaperRaces == Spec => OnlyReaperRaces
<1> DEFINE Races ==
      clients_lock = "proc" /\ ~UNCHANGED <<clients, obj>>
        => mpc \in {"free", "clear"} /\ caller = "reap"
<1>1. IInv /\ LockInv /\ [Next]_vars => [Races]_vars
  <2> SUFFICES ASSUME IInv, LockInv, [Next]_vars, clients_lock = "proc",
                      ~UNCHANGED <<clients, obj>>
               PROVE  mpc \in {"free", "clear"} /\ caller = "reap"
    OBVIOUS
  <2>1. mpc \in {"install", "free", "clear"}
    BY TableChanges DEF Install, Free, ClearSlot, At
  <2>2. ~MainInTable
    BY DEF LockInv
  <2>3. caller \in {"reap", "close"}
    BY DEF IInv, ShapeInv, TypeOK, MainOK
  <2> QED  BY <2>1, <2>2, <2>3 DEF MainInTable, StopPlaces
<1>2. IInv => MainOK
  BY DEF IInv, ShapeInv, TypeOK
<1> QED
  BY <1>1, <1>2, InitIInv, IInvStep, LockInitially, LockStep, PTL DEF Spec, OnlyReaperRaces
-----------------------------------------------------------------------------
(* Clients and their servers *)

(* Main sweeps the table for the clients of pf[i].                         *)
Sweeping == mpc = "close" \/ (mpc \in StopPlaces /\ caller = "close")

Served(c) == fd_server[c] # NONE /\ \E k \in PfIndex : pf[k] = fd_server[c]

SweptInv ==
  Sweeping => \A k \in Slots : k < j /\ clients[k] # NONE => fd_server[clients[k]] # pf[i]

ServerInv ==
  /\ \A c \in Conns : obj[c] = "live" => Served(c)
  /\ mpc \in InstallPlaces /\ client # NONE => Served(client)
  /\ SweptInv

serverVars == <<obj, pf, fd_server, clients, client, mpc, i, j, caller>>

LEMMA ServersStandStill ==
  ASSUME ServerInv, UNCHANGED serverVars PROVE ServerInv'
BY DEF ServerInv, SweptInv, Served, Sweeping, InstallPlaces, StopPlaces, serverVars

(* The steps of main that leave pf and the structs alone and do not sweep. *)
LEMMA WalkServers ==
  ASSUME ServerInv,
         \/ ListenerInit \/ Start \/ Poll \/ NoEvent \/ ServerDown \/ ScanDone
         \/ InstallLock \/ ReapNext \/ ReapDone \/ ReapClient
  PROVE  ServerInv'
<1> USE DEF ListenerInit, Start, Poll, NoEvent, ServerDown, ScanDone, InstallLock, ReapNext,
            ReapDone, ReapClient, At, Goto
<1>1. UNCHANGED <<obj, pf, fd_server, client>>
  BY DEF table, data, structs
<1>2. mpc' \in InstallPlaces => mpc \in InstallPlaces
  BY DEF InstallPlaces
<1>3. ~Sweeping'
  BY DEF Sweeping, StopPlaces
<1> QED  BY <1>1, <1>2, <1>3 DEF ServerInv, SweptInv, Served

(* listener_add fills a free entry only.                                   *)
LEMMA AddServers ==
  ASSUME IInv, ServerInv, NEW s \in Servers, NEW next \in {"bt", "listener_run"},
         ServerInit(s, next)
  PROVE  ServerInv'
<1>1. UNCHANGED <<obj, fd_server>> /\ mpc' \in {"bt", "listener_run"}
  BY DEF ServerInit, Goto, data, structs
<1>2. \A k \in PfIndex : pf[k] # NONE => pf'[k] = pf[k]
  BY DEF ServerInit, ListenerAdd, IInv, ShapeInv, TypeOK, TableOK
<1> QED  BY <1>1, <1>2 DEF ServerInv, SweptInv, Served, Sweeping, InstallPlaces, StopPlaces

LEMMA AcceptServers ==
  ASSUME IInv, ServerInv, Accept PROVE ServerInv'
<1>1. UNCHANGED <<obj, pf, fd_server>> /\ mpc' = "install_lock" /\ i \in PfIndex
  BY ListenerAssumption
  DEF Accept, At, Goto, table, IInv, ShapeInv, TypeOK, MainOK, PfIndex
<1>2. client' # NONE => fd_server[client'] = pf[i]
  BY DEF Accept, Backlog
<1>3. pf[i] # NONE
  BY <1>1 DEF Accept, At, IInv, ShapeInv, ScanInv, TypeOK, MainOK
<1> QED  BY <1>1, <1>2, <1>3 DEF ServerInv, SweptInv, Served, Sweeping, InstallPlaces, StopPlaces

LEMMA InstallServers ==
  ASSUME IInv, ServerInv, Install PROVE ServerInv'
<1>1. UNCHANGED <<pf, fd_server>> /\ mpc = "install" /\ mpc' = "scan"
  BY DEF Install, At, Goto
<1>2. \A c \in Conns : obj'[c] = "live" => obj[c] = "live" \/ (client # NONE /\ c = client)
  BY DEF Install, IInv, ShapeInv, TypeOK, StructsOK
<1> QED  BY <1>1, <1>2 DEF ServerInv, SweptInv, Served, Sweeping, InstallPlaces, StopPlaces

LEMMA CloseLockServers ==
  ASSUME ServerInv, CloseLock PROVE ServerInv'
<1>1. UNCHANGED <<obj, pf, fd_server>> /\ mpc' = "close" /\ j' = 0
  BY DEF CloseLock, Goto, table, data, structs
<1>2. \A k \in Slots : ~(k < 0)
  BY DEF Slots
<1> QED  BY <1>1, <1>2 DEF ServerInv, SweptInv, Served, InstallPlaces

(* Looking at the next slot.                                               *)
LEMMA SweepServers ==
  ASSUME IInv, ServerInv, CloseNext \/ CloseClient PROVE ServerInv'
<1>1. UNCHANGED <<obj, pf, fd_server, clients, i>>
      /\ mpc = "close" /\ mpc' \in {"close", "stop"}
  BY DEF CloseNext, CloseClient, At, Goto, table, data, structs
<1>2. CASE CloseClient
  <2>1. UNCHANGED j
    BY <1>2 DEF CloseClient
  <2> QED  BY <1>1, <2>1 DEF ServerInv, SweptInv, Served, Sweeping, InstallPlaces
<1>3. CASE CloseNext
  <2>1. j \in Nat /\ j' = j + 1 /\ \A k \in Slots : k \in Int
    BY <1>3, ListenerAssumption
    DEF CloseNext, NextSlot, IInv, ShapeInv, TypeOK, MainOK, Slots
  <2>2. clients[j] # NONE => fd_server[clients[j]] # pf[i]
    BY <1>3 DEF CloseNext, Current, OfServer
  <2>3. \A k \in Slots : k < j' => k < j \/ k = j
    BY <2>1
  <2> QED  BY <1>1, <2>2, <2>3 DEF ServerInv, SweptInv, Served, Sweeping, InstallPlaces
<1> QED  BY <1>2, <1>3

(* The steps of a stop keep what was swept.                                *)
LEMMA StopServers ==
  ASSUME IInv, ServerInv,
         \/ StopClient \/ GetQuitMsg \/ PushQuitLock \/ PushQuit
         \/ JoinRead \/ JoinWrite \/ Free
  PROVE  ServerInv'
<1> USE DEF StopClient, GetQuitMsg, PushQuitLock, PushQuit, JoinRead, JoinWrite, Free, At, Goto
<1>1. UNCHANGED <<pf, fd_server, clients, i, j, caller>>
  BY DEF table, data, structs
<1>2. mpc \in StopPlaces /\ mpc' \in StopPlaces
  BY DEF StopPlaces
<1>3. \A c \in Conns : obj'[c] = "live" => obj[c] = "live"
  BY DEF data, structs, Current, IInv, ShapeInv, TypeOK, StructsOK
<1> QED  BY <1>1, <1>2, <1>3 DEF ServerInv, SweptInv, Served, Sweeping, InstallPlaces, StopPlaces

LEMMA ClearSlotServers ==
  ASSUME IInv, ServerInv, ClearSlot PROVE ServerInv'
<1>1. UNCHANGED <<obj, pf, fd_server, i>> /\ mpc = "clear" /\ mpc' = caller /\ UNCHANGED caller
  BY DEF ClearSlot, At, Goto, data, structs
<1>2. caller \in {"reap", "close"} /\ j \in Slots /\ j' = j + 1
  BY DEF ClearSlot, At, NextSlot, IInv, ShapeInv, StopInv, StopPlaces, TypeOK, MainOK
<1>3. clients' = [clients EXCEPT ![j] = NONE] /\ clients \in [Slots -> Conns \cup {NONE}]
  BY DEF ClearSlot, ClearedSlot, IInv, ShapeInv, TypeOK, TableOK
<1>4. \A k \in Slots : k < j' => k < j \/ k = j
  BY <1>2 DEF Slots
<1>5. SweptInv'
  BY <1>1, <1>2, <1>3, <1>4 DEF ServerInv, SweptInv, Sweeping, StopPlaces
<1> QED  BY <1>1, <1>2, <1>5 DEF ServerInv, Served, InstallPlaces

(* The sweep has found every client of pf[i]: the entry can go.            *)
LEMMA CloseDoneServers ==
  ASSUME IInv, ServerInv, CloseDone PROVE ServerInv'
<1>1. UNCHANGED <<obj, fd_server, clients>> /\ mpc = "close" /\ mpc' = "scan"
      /\ j = LISTENER_MAX_CLIENTS /\ pf' = [pf EXCEPT ![i] = NONE]
  BY DEF CloseDone, At, Goto, data, structs
<1>2. \A k \in Slots : k < j
  BY <1>1, ListenerAssumption DEF Slots
<1>3. \A c \in Conns : obj[c] = "live" => fd_server[c] # pf[i]
  <2> SUFFICES ASSUME NEW c \in Conns, obj[c] = "live" PROVE fd_server[c] # pf[i]
    OBVIOUS
  <2>1. PICK k \in Slots : clients[k] = c
    BY DEF IInv, ClientInv, SlotsConsistent
  <2> QED  BY <1>1, <1>2, <2>1, NoneIsNone DEF ServerInv, SweptInv, Sweeping
<1>4. pf \in [PfIndex -> Servers \cup {NONE}]
  BY DEF IInv, ShapeInv, TypeOK, TableOK
<1>5. \A c \in Conns : obj'[c] = "live" => Served(c)'
  <2> SUFFICES ASSUME NEW c \in Conns, obj[c] = "live" PROVE Served(c)'
    BY <1>1
  <2>1. PICK k \in PfIndex : pf[k] = fd_server[c] /\ fd_server[c] # NONE
    BY DEF ServerInv, Served
  <2>2. pf'[k] = pf[k]
    BY <1>1, <1>3, <1>4, <2>1
  <2> QED  BY <1>1, <2>1, <2>2 DEF Served
<1> QED  BY <1>1, <1>5 DEF ServerInv, SweptInv, Sweeping, InstallPlaces, StopPlaces

LEMMA MainServers ==
  ASSUME IInv, ServerInv, Main PROVE ServerInv'
BY WalkServers, AddServers, AcceptServers, InstallServers, CloseLockServers, SweepServers,
   StopServers, ClearSlotServers, CloseDoneServers
DEF Main, tcpserver_init, bt_server_init, Servers

(* A server takes a connection into its backlog before it is a client.     *)
LEMMA ConnectServers ==
  ASSUME IInv, ServerInv, NEW c \in Conns, NEW s \in Servers, Connect(c, s)
  PROVE  ServerInv'
<1>1. UNCHANGED <<obj, pf, clients, client, mpc, i, j, caller>> /\ sock[c] = "none"
      /\ fd_server' = [fd_server EXCEPT ![c] = s]
  BY DEF Connect, Program, table, main
<1>2. obj[c] = "unborn" /\ client # c
  BY <1>1, NoneIsNone DEF IInv, ClientInv, LifeInv, AcceptedInv
<1>3. \A d \in Conns : d # c => fd_server'[d] = fd_server[d]
  BY <1>1 DEF IInv, ShapeInv, TypeOK, StructsOK
<1>4. \A k \in Slots : clients[k] # c
  <2> SUFFICES ASSUME NEW k \in Slots, clients[k] = c PROVE FALSE
    OBVIOUS
  <2>1. mpc = "clear" /\ j = k
    BY <1>2, NoneIsNone DEF IInv, ClientInv, SlotsConsistent
  <2> QED  BY <1>2, <2>1 DEF IInv, ClientInv, StoppingInv, Freed
<1>5. clients \in [Slots -> Conns \cup {NONE}] /\ client \in Conns \cup {NONE}
  BY DEF IInv, ShapeInv, TypeOK, TableOK, MainOK
<1>6. \A d \in Conns : d # c /\ Served(d) => Served(d)'
  BY <1>1, <1>3 DEF Served
<1>7. SweptInv'
  BY <1>1, <1>3, <1>4, <1>5 DEF ServerInv, SweptInv, Sweeping
<1> QED  BY <1>1, <1>2, <1>5, <1>6, <1>7 DEF ServerInv, InstallPlaces

LEMMA OtherServers ==
  ASSUME ServerInv,
         \/ Handler \/ Processor \/ UNCHANGED vars
         \/ \E c \in Conns : \/ Reader(c) \/ Writer(c) \/ Withdraw(c) \/ PeerEof(c)
                            \/ PeerGone(c) \/ Stall(c) \/ \E to \in Targets : Send(c, to)
         \/ \E s \in Servers : ServerFails(s)
  PROVE  ServerInv'
<1>1. CASE Handler \/ Processor \/ UNCHANGED vars
  <2>1. UNCHANGED serverVars
    BY <1>1
    DEF Handler, HandlerRuns, Sigint, CloseServers, PushQuitToProcessor, AssertionFails,
        JoinProcessor, JoinNoThread, Processor, PLoop, PPop, PLock, PScan, PFault, PMatch,
        PSend, PDone, vars, serverVars, table, data, structs, main
  <2> QED  BY <2>1, ServersStandStill
<1>2. CASE \E c \in Conns : Reader(c) \/ Writer(c)
  <2>1. UNCHANGED serverVars
    BY <1>2
    DEF Reader, RPoll, ReadFails, Read, RPush, Writer, WLoop, WPop, WriteFails, WriteBlocks,
        Write, serverVars, table, data, structs, main
  <2> QED  BY <2>1, ServersStandStill
<1>3. CASE \/ \E c \in Conns : \/ Withdraw(c) \/ PeerEof(c) \/ PeerGone(c) \/ Stall(c)
                             \/ \E to \in Targets : Send(c, to)
           \/ \E s \in Servers : ServerFails(s)
  <2>1. UNCHANGED serverVars
    BY <1>3
    DEF Withdraw, PeerEof, PeerGone, Stall, Send, ServerFails, Program, serverVars, table, main
  <2> QED  BY <2>1, ServersStandStill
<1> QED  BY <1>1, <1>2, <1>3

LEMMA ServerStep == IInv /\ ServerInv /\ [Next]_vars => ServerInv'
<1> SUFFICES ASSUME IInv, ServerInv, [Next]_vars PROVE ServerInv'  OBVIOUS
<1> QED  BY MainServers, ConnectServers, OtherServers DEF Next, Environment

LEMMA ServerInitially == Init => ServerInv
BY DEF Init, ServerInv, SweptInv, Sweeping, InstallPlaces, StopPlaces

(* When a server goes down, every client that came through it has been     *)
(* stopped and freed before its entry of pf is given up.                   *)
THEOREM ListenerClientsOfOpenServers == Spec => []ClientsOfOpenServers
<1>1. ServerInv => ClientsOfOpenServers
  BY DEF ServerInv, Served, ClientsOfOpenServers
<1> QED  BY <1>1, InitIInv, IInvStep, ServerInitially, ServerStep, PTL DEF Spec

-----------------------------------------------------------------------------
(* What the hub drops *)

NoQuit(q) == \A k \in 1 .. Len(q) : ~Quits(q[k])
Routing == ppc \in {"lock", "scan", "match", "send"}

(* QUIT is in the queue of a client only once its socket is closed: the    *)
(* processor ends at a QUIT and passes none on.                            *)
QuitInv ==
  /\ \A c \in Conns : sock[c] # "closed" => NoQuit(in_queue[c])
  /\ Routing => ~Quits(front)

(* A thread of a served client gives up only when the peer does.           *)
FlagInv ==
  \A c \in Conns : obj[c] = "live" /\ sock[c] = "open" =>
    /\ ~running_read[c] => peer[c] # "up"
    /\ ~running_write[c] => peer[c] # "up"
    /\ rpc[c] = "read" /\ inbox[c] = <<>> => peer[c] # "up"

(* A server that main closes is down.                                      *)
DownInv ==
  /\ mpc = "scan" \/ mpc \in InstallPlaces \/ Closing =>
       \A k \in PfIndex : k >= i /\ revents[k] = "other" => Shut(pf[k])
  /\ Closing => revents[i] = "other"

(* Main has a reason to stop the client it is about to stop.               *)
ReasonInv ==
  mpc = "stop" => IF caller = "reap" THEN Broken(Current) ELSE OfServer(Current, pf[i])

DropInv == QuitInv /\ FlagInv /\ DownInv /\ ReasonInv

-----------------------------------------------------------------------------
(* Queues without QUIT *)

LEMMA TailNoQuit ==
  ASSUME NEW q \in Queues, q # <<>>, NoQuit(q)
  PROVE  NoQuit(Tail(q)) /\ ~Quits(Head(q))
<1>1. q \in Seq(Messages) /\ Len(q) \in Nat /\ Len(q) > 0
  BY EmptySeq DEF Queues
<1>2. Len(Tail(q)) = Len(q) - 1 /\ Head(q) = q[1]
  BY <1>1
<1>3. \A k \in 1 .. Len(Tail(q)) : Tail(q)[k] = q[k + 1] /\ k + 1 \in 1 .. Len(q)
  BY <1>1, <1>2
<1>4. 1 \in 1 .. Len(q)
  BY <1>1
<1> QED  BY <1>2, <1>3, <1>4 DEF NoQuit

LEMMA PutNoQuit ==
  ASSUME NEW q \in Queues, NEW m \in Messages, NoQuit(q), ~Quits(m)
  PROVE  NoQuit(Put(q, m))
<1>1. q \in Seq(Messages) /\ Len(q) \in Nat
  BY DEF Queues
<1>2. \A k \in 1 .. Len(Append(q, m)) :
        Append(q, m)[k] = IF k = Len(q) + 1 THEN m ELSE q[k]
  BY <1>1
<1>3. \A k \in 1 .. Len(Append(q, m)) : k = Len(q) + 1 \/ k \in 1 .. Len(q)
  BY <1>1
<1>4. NoQuit(Append(q, m))
  BY <1>2, <1>3 DEF NoQuit
<1> QED  BY <1>4 DEF Put

-----------------------------------------------------------------------------
(* Sockets and queues *)

(* A closed socket stays closed, and only StopClient closes one.           *)
LEMMA OnlyStopCloses ==
  ASSUME ShapeInv, [Next]_vars, NEW c \in Conns
  PROVE  /\ sock[c] = "closed" => sock'[c] = "closed"
         /\ sock[c] # "closed" /\ sock'[c] = "closed" => StopClient /\ c = Current
<1>1. sock \in [Conns -> {"none", "backlog", "withdrawn", "open", "closed"}]
  BY DEF ShapeInv, TypeOK, NetOK
<1>2. CASE StopClient
  BY <1>1, <1>2 DEF StopClient
<1>3. CASE Accept
  BY <1>1, <1>3 DEF Accept, Backlog
<1>4. CASE Main /\ ~StopClient /\ ~Accept
  BY <1>4
  DEF Main, tcpserver_init, bt_server_init, ListenerInit, Start, Poll, NoEvent, ServerDown,
      InstallLock, Install, ScanDone, ReapNext, ReapClient, ReapDone, CloseLock, CloseNext,
      CloseClient, CloseDone, GetQuitMsg, PushQuitLock, PushQuit, JoinRead,
      JoinWrite, Free, ClearSlot, ServerInit, net
<1>5. CASE Handler \/ Processor
  BY <1>5
  DEF Handler, HandlerRuns, Sigint, CloseServers, PushQuitToProcessor, AssertionFails,
      JoinProcessor, JoinNoThread, Processor, PLoop, PPop, PLock, PScan, PFault, PMatch,
      PSend, PDone, net
<1>6. CASE Environment
  BY <1>1, <1>6
  DEF Environment, Connect, Withdraw, Send, PeerEof, PeerGone, Stall, ServerFails
<1>7. CASE \E d \in Conns : Reader(d) \/ Writer(d)
  BY <1>7
  DEF Reader, RPoll, ReadFails, Read, RPush, Writer, WLoop, WPop, WriteFails, WriteBlocks,
      Write, net
<1>8. CASE UNCHANGED vars
  BY <1>8 DEF vars, net
<1> QED  BY <1>2, <1>3, <1>4, <1>5, <1>6, <1>7, <1>8 DEF Next

(* The steps that touch no client's queue and take no message to route.    *)
LEMMA QueuesStandStill ==
  ASSUME [Next]_vars
  PROVE  \/ PushQuit \/ PPop \/ PSend \/ \E c \in Conns : WPop(c)
         \/ UNCHANGED in_queue /\ (Routing' => Routing /\ UNCHANGED front)
<1>1. CASE Main /\ ~PushQuit
  BY <1>1
  DEF Main, tcpserver_init, bt_server_init, ListenerInit, Start, Poll, NoEvent, ServerDown,
      Accept, InstallLock, Install, ScanDone, ReapNext, ReapClient, ReapDone, CloseLock,
      CloseNext, CloseClient, CloseDone, StopClient, GetQuitMsg, PushQuitLock, JoinRead,
      JoinWrite, Free, ClearSlot, ServerInit, data, queues, threads, processor, Routing
<1>2. CASE Handler
  BY <1>2
  DEF Handler, HandlerRuns, Sigint, CloseServers, PushQuitToProcessor, AssertionFails,
      JoinProcessor, JoinNoThread, data, queues, processor, Routing
<1>3. CASE Processor
  BY <1>3
  DEF Processor, PLoop, PLock, PScan, PFault, PMatch, PDone, ProcAt, ProcGoto, data, queues,
      processor, Routing
<1>4. CASE Environment
  BY <1>4
  DEF Environment, Connect, Withdraw, Send, PeerEof, PeerGone, Stall, ServerFails, Program,
      queues, threads, processor, Routing
<1>5. CASE \E c \in Conns : Reader(c) \/ (Writer(c) /\ ~WPop(c))
  BY <1>5
  DEF Reader, RPoll, ReadFails, Read, RPush, Writer, WLoop, WriteFails, WriteBlocks, Write,
      data, queues, processor, Routing
<1>6. CASE UNCHANGED vars
  BY <1>6 DEF vars, data, queues, threads, processor, Routing
<1> QED  BY <1>1, <1>2, <1>3, <1>4, <1>5, <1>6 DEF Next

LEMMA QuitStep ==
  ASSUME IInv, QuitInv, [Next]_vars PROVE QuitInv'
<1>1. \A c \in Conns : sock'[c] # "closed" => sock[c] # "closed"
  BY OnlyStopCloses DEF IInv
<1>2. in_queue \in [Conns -> Queues]
  BY DEF IInv, ShapeInv, TypeOK, StructsOK
<1>3. CASE PushQuit
  <2>1. sock[Current] = "closed" /\ mpc = "push"
    BY <1>3 DEF PushQuit, At, IInv, ClientInv, StoppingInv, AfterStop, StopPlaces, Current
  <2>2. \A c \in Conns : c # Current => in_queue'[c] = in_queue[c]
    BY <1>2, <1>3 DEF PushQuit
  <2>3. UNCHANGED <<ppc, front>>
    BY <1>3 DEF PushQuit, threads, processor
  <2> QED  BY <1>1, <2>1, <2>2, <2>3 DEF QuitInv, Routing
<1>4. CASE PPop
  <2>1. UNCHANGED in_queue
    BY <1>4 DEF PPop
  <2>2. Routing' => ~Quits(front')
    BY <1>4 DEF PPop, ProcGoto, Routing, Quits
  <2> QED  BY <1>1, <2>1, <2>2 DEF QuitInv
<1>5. CASE PSend
  <2>1. Routing /\ UNCHANGED front /\ front \in Messages
    BY <1>5 DEF PSend, ProcAt, Routing, IInv, ShapeInv, HandsFull
  <2>2. clients[pi] \in Conns
    BY <1>5 DEF PSend, ProcAt, IInv, ShapeInv, HandsFull, TypeOK, TableOK
  <2>3. UNCHANGED in_queue \/ in_queue' = [in_queue EXCEPT ![clients[pi]] = Put(@, front)]
    BY <1>5 DEF PSend
  <2>4. \A c \in Conns : sock[c] # "closed" => NoQuit(in_queue'[c])
    BY <1>2, <2>1, <2>2, <2>3, PutNoQuit DEF QuitInv
  <2> QED  BY <1>1, <2>1, <2>4 DEF QuitInv
<1>6. CASE \E c \in Conns : WPop(c)
  <2>1. PICK c \in Conns : WPop(c)
    BY <1>6
  <2>2. UNCHANGED <<ppc, front>>
    BY <2>1 DEF WPop, processor
  <2>3. \/ UNCHANGED in_queue
        \/ in_queue[c] # <<>> /\ in_queue' = [in_queue EXCEPT ![c] = Tail(@)]
    BY <2>1 DEF WPop
  <2>4. \A d \in Conns : sock[d] # "closed" => NoQuit(in_queue'[d])
    BY <1>2, <2>3, TailNoQuit DEF QuitInv
  <2> QED  BY <1>1, <2>2, <2>4 DEF QuitInv, Routing
<1>7. CASE UNCHANGED in_queue /\ (Routing' => Routing /\ UNCHANGED front)
  BY <1>1, <1>7 DEF QuitInv
<1> QED  BY <1>3, <1>4, <1>5, <1>6, <1>7, QueuesStandStill
-----------------------------------------------------------------------------
(* Flags and peers *)

flagVars == <<obj, sock, running_read, running_write, peer, rpc, inbox>>

LEMMA FlagsStandStill ==
  ASSUME FlagInv, UNCHANGED flagVars PROVE FlagInv'
BY DEF FlagInv, flagVars

LEMMA FlagTypes ==
  ASSUME ShapeInv
  PROVE  /\ obj \in [Conns -> {"unborn", "live", "reaped", "closed"}]
         /\ sock \in [Conns -> {"none", "backlog", "withdrawn", "open", "closed"}]
         /\ running_read \in [Conns -> BOOLEAN] /\ running_write \in [Conns -> BOOLEAN]
         /\ peer \in [Conns -> {"up", "eof", "gone"}]
         /\ rpc \in [Conns -> {"unborn", "poll", "read", "push", "exit"}]
         /\ inbox \in [Conns -> Seq(Texts)]
BY DEF ShapeInv, TypeOK, StructsOK, NetOK, ReadersOK

LEMMA MainFlags ==
  ASSUME IInv, FlagInv, Main PROVE FlagInv'
<1>t. ShapeInv
  BY DEF IInv
<1>1. CASE Accept
  <2>1. UNCHANGED <<obj, running_read, running_write, peer, rpc, inbox>>
    BY <1>1 DEF Accept, flags, threads, reader
  <2>2. \A c \in Conns : sock'[c] = "open" => sock[c] \in {"open", "backlog"}
    BY <1>1, <1>t, FlagTypes DEF Accept, Backlog
  <2>3. \A c \in Conns : obj[c] = "live" => sock[c] # "backlog"
    BY DEF IInv, ClientInv, LifeInv
  <2> QED  BY <2>1, <2>2, <2>3 DEF FlagInv
<1>2. CASE Install
  <2>1. UNCHANGED <<sock, peer, inbox>>
    BY <1>2 DEF Install, net
  <2>2. CASE UNCHANGED <<obj, flags, rpc>>
    BY <2>1, <2>2 DEF FlagInv, flags
  <2>3. CASE /\ client \in Conns
             /\ obj' = [obj EXCEPT ![client] = "live"]
             /\ running_read' = [running_read EXCEPT ![client] = TRUE]
             /\ running_write' = [running_write EXCEPT ![client] = TRUE]
             /\ rpc' = [rpc EXCEPT ![client] = "poll"]
    <3>1. running_read'[client] /\ running_write'[client] /\ rpc'[client] = "poll"
      BY <2>3, <1>t, FlagTypes
    <3>2. \A c \in Conns \ {client} :
            /\ obj'[c] = obj[c] /\ running_read'[c] = running_read[c]
            /\ running_write'[c] = running_write[c] /\ rpc'[c] = rpc[c]
      BY <2>3, <1>t, FlagTypes
    <3> QED  BY <2>1, <2>3, <3>1, <3>2 DEF FlagInv
  <2>4. client \in Conns \cup {NONE}
    BY <1>t DEF ShapeInv, TypeOK, MainOK
  <2> QED  BY <1>2, <2>2, <2>3, <2>4 DEF Install
<1>3. CASE StopClient
  <2>1. UNCHANGED <<obj, peer, rpc, inbox>>
    BY <1>3 DEF StopClient, structs, threads, reader
  <2>2. \A c \in Conns : c = Current => sock'[c] = "closed"
    BY <1>3, <1>t, FlagTypes DEF StopClient
  <2>3. \A c \in Conns : c # Current => /\ sock'[c] = sock[c]
                                     /\ running_read'[c] = running_read[c]
                                     /\ running_write'[c] = running_write[c]
    BY <1>3, <1>t, FlagTypes DEF StopClient
  <2> QED  BY <2>1, <2>2, <2>3 DEF FlagInv
<1>4. CASE Free
  <2>1. UNCHANGED <<sock, flags, peer, rpc, inbox>>
    BY <1>4 DEF Free, threads, reader, net
  <2>2. \A c \in Conns : obj'[c] = "live" => obj[c] = "live"
    BY <1>4, <1>t, FlagTypes DEF Free
  <2> QED  BY <2>1, <2>2 DEF FlagInv, flags
<1>5. CASE Main /\ ~Accept /\ ~Install /\ ~StopClient /\ ~Free
  <2>1. UNCHANGED flagVars
    BY <1>5
    DEF Main, tcpserver_init, bt_server_init, ListenerInit, Start, Poll, NoEvent, ServerDown,
        InstallLock, ScanDone, ReapNext, ReapClient, ReapDone, CloseLock, CloseNext,
        CloseClient, CloseDone, GetQuitMsg, PushQuitLock, PushQuit, JoinRead, JoinWrite,
        ClearSlot, ServerInit, data, structs, flags, threads, reader, net, flagVars
  <2> QED  BY <2>1, FlagsStandStill
<1> QED  BY <1>1, <1>2, <1>3, <1>4, <1>5

(* A read thread ends because of its peer, or for a closed socket.         *)
LEMMA ReaderFlags ==
  ASSUME IInv, FlagInv, NEW c \in Conns, Reader(c) PROVE FlagInv'
<1>t. ShapeInv
  BY DEF IInv
<1>1. UNCHANGED <<obj, sock, running_write, peer>>
  BY DEF Reader, RPoll, ReadFails, Read, RPush, data, structs, flags, net
<1>2. \A d \in Conns \ {c} :
        rpc'[d] = rpc[d] /\ inbox'[d] = inbox[d] /\ running_read'[d] = running_read[d]
  BY <1>t, FlagTypes
  DEF Reader, RPoll, ReadFails, Read, RPush, ReadGoto, EndReading, data, flags, net
<1>3. obj[c] = "live" /\ sock[c] = "open" =>
        /\ ~running_read'[c] => peer[c] # "up"
        /\ rpc'[c] = "read" /\ inbox'[c] = <<>> => peer[c] # "up"
  <2> SUFFICES ASSUME obj[c] = "live", sock[c] = "open", peer[c] = "up"
               PROVE  running_read'[c] /\ (rpc'[c] = "read" => inbox'[c] # <<>>)
    OBVIOUS
  <2>1. running_read[c] /\ (rpc[c] = "read" => inbox[c] # <<>>)
    BY DEF FlagInv
  <2>2. CASE RPoll(c)
    BY <1>t, <2>1, <2>2, FlagTypes DEF RPoll, ReadGoto, net
  <2>3. CASE ReadFails(c)
    BY <2>1, <2>3 DEF ReadFails, ReadAt
  <2>4. CASE Read(c)
    <3>1. rpc'[c] \in {"poll", "push"} /\ UNCHANGED running_read
      BY <1>t, <2>4, FlagTypes DEF Read, ReadGoto, data, flags
    <3> QED  BY <2>1, <3>1
  <2>5. CASE RPush(c)
    <3>1. rpc'[c] = "poll" /\ UNCHANGED running_read
      BY <1>t, <2>5, FlagTypes DEF RPush, ReadGoto, flags
    <3> QED  BY <2>1, <3>1
  <2> QED  BY <2>2, <2>3, <2>4, <2>5 DEF Reader
<1> QED  BY <1>1, <1>2, <1>3 DEF FlagInv

(* A write thread ends because of its peer, or for a QUIT, which finds the *)
(* socket closed.                                                          *)
LEMMA WriterFlags ==
  ASSUME IInv, QuitInv, FlagInv, NEW c \in Conns, Writer(c) PROVE FlagInv'
<1>t. ShapeInv
  BY DEF IInv
<1>1. UNCHANGED <<obj, sock, running_read, peer, rpc, inbox>>
  BY DEF Writer, WLoop, WPop, WriteFails, WriteBlocks, Write, data, structs, flags, reader, net
<1>2. \A d \in Conns \ {c} : running_write'[d] = running_write[d]
  BY <1>t, FlagTypes
  DEF Writer, WLoop, WPop, WriteFails, WriteBlocks, Write, EndWriting, data, flags
<1>3. obj[c] = "live" /\ sock[c] = "open" /\ peer[c] = "up" => running_write'[c]
  <2> SUFFICES ASSUME obj[c] = "live", sock[c] = "open", peer[c] = "up"
               PROVE  running_write'[c]
    OBVIOUS
  <2>1. running_write[c]
    BY DEF FlagInv
  <2>2. CASE WPop(c)
    <3>1. in_queue[c] # <<>> => ~Quits(Head(in_queue[c]))
      BY <1>t, TailNoQuit DEF QuitInv, ShapeInv, TypeOK, StructsOK
    <3>2. UNCHANGED running_write
      <4>1. CASE in_queue[c] = <<>>
        BY <2>2, <4>1 DEF WPop
      <4>2. CASE in_queue[c] # <<>>
        BY <2>2, <3>1, <4>2 DEF WPop
      <4> QED  BY <4>1, <4>2
    <3> QED  BY <2>1, <3>2
  <2>3. CASE WriteFails(c)
    BY <2>3 DEF WriteFails
  <2>4. CASE WLoop(c) \/ WriteBlocks(c) \/ Write(c)
    BY <2>1, <2>4 DEF WLoop, WriteBlocks, Write, data, flags
  <2> QED  BY <2>2, <2>3, <2>4 DEF Writer
<1> QED  BY <1>1, <1>2, <1>3 DEF FlagInv

LEMMA OtherFlags ==
  ASSUME IInv, FlagInv, Handler \/ Processor \/ Environment \/ UNCHANGED vars PROVE FlagInv'
<1>t. ShapeInv
  BY DEF IInv
<1>1. CASE Handler \/ Processor \/ UNCHANGED vars
  <2>1. UNCHANGED flagVars
    BY <1>1
    DEF Handler, HandlerRuns, Sigint, CloseServers, PushQuitToProcessor, AssertionFails,
        JoinProcessor, JoinNoThread, Processor, PLoop, PPop, PLock, PScan, PFault, PMatch,
        PSend, PDone, vars, data, structs, flags, threads, reader, net, flagVars
  <2> QED  BY <2>1, FlagsStandStill
<1>2. CASE Environment
  <2>1. UNCHANGED <<obj, running_read, running_write, rpc>>
    BY <1>2
    DEF Environment, Connect, Withdraw, Send, PeerEof, PeerGone, Stall, ServerFails, Program,
        flags, threads, reader
  <2>2. \A c \in Conns : sock'[c] = "open" => sock[c] = "open"
    BY <1>2, <1>t, FlagTypes
    DEF Environment, Connect, Withdraw, Send, PeerEof, PeerGone, Stall, ServerFails
  <2>3. \A c \in Conns : peer'[c] = "up" => peer[c] = "up"
    BY <1>2, <1>t, FlagTypes
    DEF Environment, Connect, Withdraw, Send, PeerEof, PeerGone, Stall, ServerFails
  <2>4. \A c \in Conns : inbox'[c] = <<>> => inbox[c] = <<>>
    <3>1. CASE UNCHANGED inbox
      BY <3>1
    <3>2. CASE \E c \in Conns, to \in Targets : Send(c, to)
      <4>1. PICK c \in Conns, to \in Targets : Send(c, to)
        BY <3>2
      <4>2. sent[c] \in 0 .. MaxSend /\ MaxSend \in Nat /\ to \in Nat
        BY <1>t, <4>1, ListenerAssumption DEF ShapeInv, TypeOK, NetOK
      <4>3. [n |-> sent[c] + 1, to |-> to] \in Texts
        BY <4>2 DEF Texts
      <4>4. PICK text \in Texts : inbox' = [inbox EXCEPT ![c] = Append(@, text)]
        BY <4>1, <4>3 DEF Send
      <4>5. \A q \in Seq(Texts) : Len(Append(q, text)) = Len(q) + 1 /\ Len(q) \in Nat
        OBVIOUS
      <4>6. \A q \in Seq(Texts) : Append(q, text) # <<>>
        BY <4>5
      <4> QED  BY <1>t, <4>4, <4>6, FlagTypes
    <3> QED
      BY <1>2, <3>1, <3>2
      DEF Environment, Connect, Withdraw, PeerEof, PeerGone, Stall, ServerFails
  <2> QED  BY <2>1, <2>2, <2>3, <2>4 DEF FlagInv
<1> QED  BY <1>1, <1>2

LEMMA FlagStep ==
  ASSUME IInv, QuitInv, FlagInv, [Next]_vars PROVE FlagInv'
BY MainFlags, ReaderFlags, WriterFlags, OtherFlags DEF Next

-----------------------------------------------------------------------------
(* The server being closed *)

Scanned == mpc = "scan" \/ mpc \in InstallPlaces \/ Closing

(* What leaves the scan of pf, and what poll said of it, as it was.        *)
ScanStays ==
  /\ Scanned' => Scanned /\ UNCHANGED <<i, revents, pf>>
  /\ down \subseteq down'
  /\ Closing' => Closing

LEMMA ScanStaysDown ==
  ASSUME TypeOK, DownInv, ScanStays PROVE DownInv'
BY DEF DownInv, ScanStays, Scanned, Shut

LEMMA MainScan ==
  ASSUME TypeOK, Main
  PROVE  ScanStays \/ Poll \/ ServerDown \/ NoEvent \/ Install \/ CloseDone
<1>1. caller \in {"reap", "close"}
  BY DEF TypeOK, MainOK
<1>2. CASE \/ ListenerInit \/ tcpserver_init \/ bt_server_init \/ Start
           \/ Accept \/ InstallLock \/ ScanDone \/ ReapNext \/ ReapClient \/ ReapDone
  <2>1. ~Closing'
    BY <1>1, <1>2
    DEF ListenerInit, tcpserver_init, bt_server_init, ServerInit, Start, Accept, InstallLock,
        ScanDone, ReapNext, ReapClient, ReapDone, At, Goto, Closing, ClosePlaces, StopPlaces
  <2>2. mpc' \in InstallPlaces \cup {"scan"} => Scanned
    BY <1>2
    DEF ListenerInit, tcpserver_init, bt_server_init, ServerInit, Start, Accept, InstallLock,
        ScanDone, ReapNext, ReapClient, ReapDone, At, Goto, Scanned, InstallPlaces
  <2>3. UNCHANGED <<i, revents, down>>
    BY <1>2
    DEF ListenerInit, tcpserver_init, bt_server_init, ServerInit, Start, Accept, InstallLock,
        ScanDone, ReapNext, ReapClient, ReapDone, net
  <2>4. UNCHANGED pf \/ ~Scanned'
    BY <1>2, <2>1
    DEF ListenerInit, tcpserver_init, bt_server_init, ServerInit, Start, Accept, InstallLock,
        ScanDone, ReapNext, ReapClient, ReapDone, At, Goto, table, Scanned, InstallPlaces
  <2> QED  BY <2>1, <2>2, <2>3, <2>4 DEF ScanStays, Scanned
<1>3. CASE \/ CloseLock \/ CloseNext \/ CloseClient \/ StopClient \/ GetQuitMsg
           \/ PushQuitLock \/ PushQuit \/ JoinRead \/ JoinWrite \/ Free \/ ClearSlot
  <2>1. Scanned' => Closing'
    BY <1>1, <1>3
    DEF CloseLock, CloseNext, CloseClient, StopClient, GetQuitMsg, PushQuitLock, PushQuit,
        JoinRead, JoinWrite, Free, ClearSlot, At, Goto, Scanned, Closing, ClosePlaces,
        StopPlaces, InstallPlaces
  <2>2. Closing' => Closing
    BY <1>1, <1>3
    DEF CloseLock, CloseNext, CloseClient, StopClient, GetQuitMsg, PushQuitLock, PushQuit,
        JoinRead, JoinWrite, Free, ClearSlot, At, Goto, Closing, ClosePlaces, StopPlaces
  <2>3. UNCHANGED <<i, revents, pf, down>>
    BY <1>3
    DEF CloseLock, CloseNext, CloseClient, StopClient, GetQuitMsg, PushQuitLock, PushQuit,
        JoinRead, JoinWrite, Free, ClearSlot, table, net
  <2> QED  BY <2>1, <2>2, <2>3 DEF ScanStays, Scanned
<1> QED  BY <1>2, <1>3 DEF Main

LEMMA OtherScan ==
  ASSUME \/ Handler \/ Processor \/ Environment \/ UNCHANGED vars
         \/ \E c \in Conns : Reader(c) \/ Writer(c)
  PROVE  ScanStays /\ UNCHANGED <<pf, clients, main>>
<1>1. UNCHANGED <<pf, clients, main>>
  <2>1. CASE Handler \/ Processor \/ UNCHANGED vars
    BY <2>1
    DEF Handler, HandlerRuns, Sigint, CloseServers, PushQuitToProcessor, AssertionFails,
        JoinProcessor, JoinNoThread, Processor, PLoop, PPop, PLock, PScan, PFault, PMatch,
        PSend, PDone, vars, table
  <2>2. CASE Environment
    BY <2>2
    DEF Environment, Connect, Withdraw, Send, PeerEof, PeerGone, Stall, ServerFails, Program,
        table
  <2>3. CASE \E c \in Conns : Reader(c) \/ Writer(c)
    BY <2>3
    DEF Reader, RPoll, ReadFails, Read, RPush, Writer, WLoop, WPop, WriteFails, WriteBlocks,
        Write, table
  <2> QED  BY <2>1, <2>2, <2>3
<1>2. down \subseteq down'
  <2>1. CASE Handler \/ Processor \/ UNCHANGED vars
    BY <2>1
    DEF Handler, HandlerRuns, Sigint, CloseServers, PushQuitToProcessor, AssertionFails,
        JoinProcessor, JoinNoThread, Processor, PLoop, PPop, PLock, PScan, PFault, PMatch,
        PSend, PDone, vars, net
  <2>2. CASE Environment
    BY <2>2
    DEF Environment, Connect, Withdraw, Send, PeerEof, PeerGone, Stall, ServerFails
  <2>3. CASE \E c \in Conns : Reader(c) \/ Writer(c)
    BY <2>3
    DEF Reader, RPoll, ReadFails, Read, RPush, Writer, WLoop, WPop, WriteFails, WriteBlocks,
        Write, net
  <2> QED  BY <2>1, <2>2, <2>3
<1> QED  BY <1>1, <1>2 DEF ScanStays, Scanned, Closing, main

LEMMA DownStep ==
  ASSUME IInv, DownInv, [Next]_vars PROVE DownInv'
<1>t. TypeOK /\ ScanInv
  BY DEF IInv, ShapeInv
<1>i. i \in Int /\ size \in Int /\ revents \in [PfIndex -> {"none", "POLLIN", "other"}]
  BY <1>t DEF TypeOK, MainOK
<1>1. CASE Poll
  <2>1. mpc' = "scan" /\ ~Closing'
    BY <1>1 DEF Poll, Goto, Closing, ClosePlaces, StopPlaces
  <2>2. \A k \in PfIndex : revents'[k] = "other" => Shut(pf[k])
    BY <1>1 DEF Poll
  <2>3. UNCHANGED <<pf, down>>
    BY <1>1 DEF Poll, table, net
  <2> QED  BY <2>1, <2>2, <2>3 DEF DownInv, Shut
<1>2. CASE ServerDown
  BY <1>2 DEF ServerDown, At, DownInv, table, net, Shut
<1>3. CASE NoEvent \/ Install \/ CloseDone
  <2>1. mpc' = "scan" \/ UNCHANGED mpc
    BY <1>3 DEF NoEvent, Install, CloseDone, Goto
  <2>2. mpc = "scan" \/ mpc \in InstallPlaces \/ Closing
    BY <1>3 DEF NoEvent, Install, CloseDone, At, InstallPlaces, Closing, ClosePlaces
  <2>3. mpc' = "scan"
    BY <1>3 DEF NoEvent, Install, CloseDone, At, Goto
  <2>4. i' = i + 1 /\ UNCHANGED <<revents, down>>
    BY <1>3 DEF NoEvent, Install, CloseDone, net
  <2>5. \A k \in PfIndex : k # i => pf'[k] = pf[k]
    BY <1>3, <1>t DEF NoEvent, Install, CloseDone, table, TypeOK, TableOK
  <2>6. \A k \in PfIndex : k >= i + 1 => k >= i /\ k # i
    BY <1>i, ListenerAssumption DEF PfIndex
  <2>7. ~Closing'
    BY <2>3 DEF Closing, ClosePlaces, StopPlaces
  <2> QED  BY <2>2, <2>4, <2>5, <2>6, <2>7 DEF DownInv, Shut
<1> QED  BY <1>t, <1>1, <1>2, <1>3, MainScan, OtherScan, ScanStaysDown DEF Next

-----------------------------------------------------------------------------
(* The reason to stop a client *)

(* Outside main, flags only fall and a served client keeps its server.     *)
LEMMA OtherReasons ==
  ASSUME IInv, NEW c \in Conns, obj[c] = "live",
         \/ Handler \/ Processor \/ Environment \/ UNCHANGED vars
         \/ \E d \in Conns : Reader(d) \/ Writer(d)
  PROVE  (Broken(c) => Broken(c)') /\ UNCHANGED fd_server[c]
<1>t. TypeOK
  BY DEF IInv, ShapeInv
<1>1. CASE Handler \/ Processor \/ UNCHANGED vars
  BY <1>1
  DEF Handler, HandlerRuns, Sigint, CloseServers, PushQuitToProcessor, AssertionFails,
      JoinProcessor, JoinNoThread, Processor, PLoop, PPop, PLock, PScan, PFault, PMatch,
      PSend, PDone, vars, data, structs, flags, Broken
<1>2. CASE Environment
  <2>1. UNCHANGED flags
    BY <1>2
    DEF Environment, Connect, Withdraw, Send, PeerEof, PeerGone, Stall, ServerFails, Program
  <2>2. sock[c] # "none"
    BY DEF IInv, ClientInv, LifeInv
  <2>3. fd_server'[c] = fd_server[c]
    BY <1>2, <1>t, <2>2
    DEF TypeOK, StructsOK, Environment, Connect, Withdraw, Send, PeerEof, PeerGone, Stall,
        ServerFails
  <2> QED  BY <2>1, <2>3 DEF Broken, flags
<1>3. CASE \E d \in Conns : Reader(d)
  BY <1>3, <1>t
  DEF TypeOK, StructsOK, Reader, RPoll, ReadFails, Read, RPush, EndReading, data, structs,
      flags, Broken
<1>4. CASE \E d \in Conns : Writer(d)
  BY <1>4, <1>t
  DEF TypeOK, StructsOK, Writer, WLoop, WPop, WriteFails, WriteBlocks, Write, EndWriting, data,
      structs, flags, Broken
<1> QED  BY <1>1, <1>2, <1>3, <1>4

LEMMA ReasonStep ==
  ASSUME IInv, ReasonInv, [Next]_vars PROVE ReasonInv'
<1>t. ShapeInv /\ TypeOK
  BY DEF IInv, ShapeInv
<1>1. CASE ReapClient \/ CloseClient
  <2>1. UNCHANGED <<clients, j, pf, i, flags, fd_server>>
    BY <1>1 DEF ReapClient, CloseClient, table, data, structs
  <2>2. IF caller' = "reap" THEN Broken(Current) ELSE OfServer(Current, pf[i])
    BY <1>1 DEF ReapClient, CloseClient
  <2> QED  BY <2>1, <2>2 DEF ReasonInv, Broken, OfServer, Current, flags
<1>2. CASE Main /\ ~ReapClient /\ ~CloseClient
  <2>1. mpc' # "stop"
    BY <1>t, <1>2
    DEF TypeOK, MainOK, Main, tcpserver_init, bt_server_init, ServerInit, ListenerInit, Start,
        Poll, NoEvent, ServerDown, Accept, InstallLock, Install, ScanDone, ReapNext, ReapDone,
        CloseLock, CloseNext, CloseDone, StopClient, GetQuitMsg, PushQuitLock, PushQuit,
        JoinRead, JoinWrite, Free, ClearSlot, At, Goto
  <2> QED  BY <2>1 DEF ReasonInv
<1>3. CASE \/ Handler \/ Processor \/ Environment \/ UNCHANGED vars
           \/ \E c \in Conns : Reader(c) \/ Writer(c)
  <2>1. UNCHANGED <<pf, clients, main>>
    BY <1>3, OtherScan
  <2>2. CASE mpc = "stop"
    <3> DEFINE c == clients[j]
    <3>1. c \in Conns /\ obj[c] = "live"
      BY <1>t, <2>2
      DEF IInv, ClientInv, StoppingInv, ShapeInv, StopInv, StopPlaces, TypeOK, TableOK
    <3>2. (Broken(c) => Broken(c)') /\ fd_server'[c] = fd_server[c] /\ c' = c
      BY <1>3, <2>1, <3>1, OtherReasons DEF main
    <3> QED  BY <2>1, <2>2, <3>2 DEF ReasonInv, OfServer, Current, main
  <2> QED  BY <2>1, <2>2 DEF ReasonInv, main
<1> QED  BY <1>1, <1>2, <1>3 DEF Next

-----------------------------------------------------------------------------
LEMMA DropInitially == Init => DropInv
<1> SUFFICES ASSUME Init PROVE DropInv
  OBVIOUS
<1>1. mpc = "listener_init" /\ ppc = "unborn"
  BY DEF Init
<1>2. \A c \in Conns : in_queue[c] = <<>> /\ obj[c] = "unborn"
  BY DEF Init
<1> QED
  BY <1>1, <1>2
  DEF DropInv, QuitInv, NoQuit, Routing, FlagInv, DownInv, ReasonInv, InstallPlaces, Closing,
      ClosePlaces, StopPlaces

LEMMA DropStep == IInv /\ DropInv /\ [Next]_vars => DropInv'
BY QuitStep, FlagStep, DownStep, ReasonStep DEF DropInv

(* A client that is stopped has lost its peer, or its server.              *)
LEMMA StopHasReason ==
  ASSUME IInv, DropInv, StopClient, sock[Current] = "open"
  PROVE  peer[Current] # "up" \/ Shut(fd_server[Current])
<1>1. mpc = "stop"
  BY DEF StopClient, At
<1>2. Current \in Conns /\ obj[Current] = "live"
  BY <1>1
  DEF IInv, ClientInv, StoppingInv, ShapeInv, StopInv, StopPlaces, TypeOK, TableOK, Current
<1>3. CASE caller = "reap"
  BY <1>1, <1>2, <1>3 DEF DropInv, ReasonInv, FlagInv, Broken
<1>4. CASE caller # "reap"
  <2>1. Closing /\ revents[i] = "other"
    BY <1>1, <1>4
    DEF IInv, ShapeInv, TypeOK, MainOK, DropInv, DownInv, Closing, StopPlaces
  <2>2. i \in PfIndex
    BY <2>1, ListenerAssumption DEF IInv, ShapeInv, TypeOK, MainOK, ScanInv, PfIndex
  <2>3. Shut(pf[i])
    BY <2>1, <2>2 DEF DropInv, DownInv, PfIndex
  <2> QED  BY <1>1, <1>4, <2>3 DEF DropInv, ReasonInv, OfServer
<1> QED  BY <1>3, <1>4

(* The hub never drops a client on its own: whoever is disconnected has    *)
(* closed or lost its end, or came through a server that is down.          *)
THEOREM ListenerDropsOnlyBroken == Spec => OnlyBrokenClientsDropped
<1>1. IInv /\ DropInv /\ [Next]_vars =>
        [\A c \in Conns : sock[c] = "open" /\ sock'[c] = "closed"
           => peer[c] # "up" \/ Shut(fd_server[c])]_vars
  BY OnlyStopCloses, StopHasReason DEF IInv
<1> QED
  BY <1>1, InitIInv, IInvStep, DropInitially, DropStep, PTL
  DEF Spec, OnlyBrokenClientsDropped

-----------------------------------------------------------------------------
(* The hub implements Relay: what a peer is written was sent, under the     *)
(* sender's number, in the sender's order, once, and to everyone or to that *)
(* peer.                                                                    *)

(* The numbers that sender p gave its messages in a queue, in their order. *)
Numbers(p, q) == {q[k].n : k \in {h \in DOMAIN q : q[h].src = p}}
Rising(p, q) ==
  \A h, k \in DOMAIN q : h < k /\ q[h].src = p /\ q[k].src = p => q[h].n < q[k].n

Climbing(texts) == \A h, k \in DOMAIN texts : h < k => texts[h].n < texts[k].n

(* The processor has yet to offer front to q.                              *)
Pending(q) ==
  \/ ppc = "lock"
  \/ ppc \in {"scan", "match", "send"} /\ \E k \in Slots : k >= pi /\ clients[k] = q
Writing(q) == wpc[q] \in {"write", "blocked"}

(* The way of the messages of p to q, from what q was written back to what *)
(* the hub has not read yet: the numbers at each stage.                    *)
Stages == 1 .. 7
Written(p, q) == Numbers(p, delivered[q])
InHand(p, q) == IF Writing(q) /\ wfront[q].src = p THEN {wfront[q].n} ELSE {}
Waiting(p, q) == Numbers(p, in_queue[q])
Offered(p, q) == IF Pending(q) /\ front.src = p THEN {front.n} ELSE {}
Queued(p) == Numbers(p, queue)
Held(p) == IF rpc[p] = "push" THEN {msgObj[p].n} ELSE {}
Unread(p) == {inbox[p][k].n : k \in DOMAIN inbox[p]}
Path(p, q) ==
  <<Written(p, q), InHand(p, q), Waiting(p, q), Offered(p, q), Queued(p), Held(p), Unread(p)>>

Paths == [Stages -> SUBSET Nat]
Ordered(path) == \A s, t \in Stages : s < t => \A m \in path[s], n \in path[t] : m < n
Bounded(path, b) == \A s \in Stages : \A n \in path[s] : n \in 1 .. b

(* Every message is behind the later ones of its sender.                   *)
PathInv == \A p, q \in Conns : Ordered(Path(p, q)) /\ Bounded(Path(p, q), sent[p])
LineInv ==
  /\ \A p, q \in Conns : Rising(p, in_queue[q])
  /\ \A p \in Conns : Rising(p, queue) /\ Climbing(inbox[p])

(* A message carries the number of its sender; those of listener_close     *)
(* have no sender, and the one that is no QUIT goes to nobody.             *)
Signed(m) == m.src \in Conns => m.type = "MESSAGE" /\ fd[m.src] # 0 /\ m.from = fd[m.src]
Routable(m) == Signed(m) /\ (m.src = NONE => Quits(m) \/ m.to = -1)
Reaching(m, q) ==
  /\ Signed(m) /\ fd[q] # 0
  /\ IF m.src = NONE THEN Quits(m) ELSE m.to \in {0, fd[q]}

FromInv ==
  /\ \A k \in DOMAIN queue : Routable(queue[k])
  /\ Routing => Routable(front)
  /\ \A c \in Conns : rpc[c] = "push" => msgObj[c].src = c /\ Signed(msgObj[c])
  /\ \A c \in Conns : \A k \in DOMAIN in_queue[c] : Reaching(in_queue[c][k], c)
  /\ \A c \in Conns : Writing(c) => Reaching(wfront[c], c) /\ ~Quits(wfront[c])
  /\ ppc = "send" /\ clients[pi] # NONE /\ obj[clients[pi]] = "live"
       => Addressed(front, clients[pi])

(* A number is given at accept, for good.                                  *)
KnownInv ==
  \A c \in Conns :
    /\ sock[c] \in {"open", "closed"} <=> fd[c] # 0
    /\ fd[c] # 0 => fd[c] \in FirstFd .. FirstFd + Cardinality(Conns)

RelayInv == PathInv /\ LineInv /\ FromInv /\ KnownInv

-----------------------------------------------------------------------------
(* Queues *)

LEMMA PutIsAppend ==
  ASSUME NEW q \in Queues, NEW m \in Messages
  PROVE  Put(q, m) = q \/ Put(q, m) = Append(q, m)
BY DEF Put

LEMMA AppendParts ==
  ASSUME NEW q \in Seq(Messages), NEW m \in Messages
  PROVE  /\ DOMAIN q = 1 .. Len(q) /\ Len(q) \in Nat
         /\ DOMAIN Append(q, m) = 1 .. Len(q) + 1
         /\ \A k \in 1 .. Len(q) : Append(q, m)[k] = q[k]
         /\ Append(q, m)[Len(q) + 1] = m
         /\ \A k \in 1 .. Len(q) + 1 : k \in 1 .. Len(q) \/ k = Len(q) + 1
<1>1. Len(q) \in Nat /\ DOMAIN q = 1 .. Len(q)
  OBVIOUS
<1>2. Len(Append(q, m)) = Len(q) + 1 /\ DOMAIN Append(q, m) = 1 .. Len(Append(q, m))
  OBVIOUS
<1>3. \A k \in 1 .. Len(q) : Append(q, m)[k] = q[k]
  OBVIOUS
<1>4. Append(q, m)[Len(q) + 1] = m
  OBVIOUS
<1>5. \A k \in 1 .. Len(q) + 1 : k \in 1 .. Len(q) \/ k = Len(q) + 1
  BY <1>1
<1> QED  BY <1>1, <1>2, <1>3, <1>4, <1>5

LEMMA AppendNumbers ==
  ASSUME NEW p \in Conns, NEW q \in Seq(Messages), NEW m \in Messages
  PROVE  /\ Numbers(p, Append(q, m)) \subseteq Numbers(p, q) \cup {m.n}
         /\ m.src # p => Numbers(p, Append(q, m)) = Numbers(p, q)
<1> DEFINE a == Append(q, m)
           l == Len(q)
<1>1. /\ DOMAIN q = 1 .. l /\ DOMAIN a = 1 .. l + 1
      /\ \A k \in 1 .. l : a[k] = q[k]
      /\ a[l + 1] = m
      /\ \A k \in 1 .. l + 1 : k \in 1 .. l \/ k = l + 1
      /\ \A k \in 1 .. l : k \in 1 .. l + 1
  BY AppendParts
<1> HIDE DEF a, l
<1>2. \A k \in DOMAIN a : a[k].src = p => a[k].n \in Numbers(p, q) \cup {m.n}
  BY <1>1 DEF Numbers
<1>3. m.src # p => \A k \in DOMAIN a : a[k].src = p => a[k].n \in Numbers(p, q)
  BY <1>1 DEF Numbers
<1>4. \A k \in DOMAIN q : k \in DOMAIN a /\ a[k] = q[k]
  BY <1>1
<1>5. Numbers(p, q) \subseteq Numbers(p, a)
  BY <1>4 DEF Numbers
<1>6. Numbers(p, a) \subseteq Numbers(p, q) \cup {m.n}
  BY <1>2 DEF Numbers
<1>7. m.src # p => Numbers(p, a) \subseteq Numbers(p, q)
  BY <1>3 DEF Numbers
<1> QED  BY <1>5, <1>6, <1>7 DEF a

LEMMA AppendRising ==
  ASSUME NEW p \in Conns, NEW q \in Seq(Messages), NEW m \in Messages, Rising(p, q),
         m.src = p => \A n \in Numbers(p, q) : n < m.n
  PROVE  Rising(p, Append(q, m))
<1> DEFINE a == Append(q, m)
           l == Len(q)
<1>1. /\ DOMAIN q = 1 .. l /\ DOMAIN a = 1 .. l + 1 /\ l \in Nat
      /\ \A k \in 1 .. l : a[k] = q[k]
      /\ a[l + 1] = m
      /\ \A k \in 1 .. l + 1 : k \in 1 .. l \/ k = l + 1
  BY AppendParts
<1> HIDE DEF a, l
<1>2. SUFFICES ASSUME NEW h \in DOMAIN a, NEW k \in DOMAIN a, h < k, a[h].src = p, a[k].src = p
               PROVE  a[h].n < a[k].n
  BY DEF Rising, a
<1>3. CASE k \in 1 .. l
  <2>1. h \in 1 .. l
    BY <1>1, <1>2, <1>3
  <2> QED  BY <1>1, <1>2, <1>3, <2>1 DEF Rising
<1>4. CASE k = l + 1
  <2>1. h \in 1 .. l /\ a[k] = m
    BY <1>1, <1>2, <1>4
  <2>2. a[h].n \in Numbers(p, q)
    BY <1>1, <1>2, <2>1 DEF Numbers
  <2> QED  BY <1>2, <2>1, <2>2
<1> QED  BY <1>1, <1>3, <1>4

LEMMA TailParts ==
  ASSUME NEW q \in Seq(Messages), q # <<>>
  PROVE  /\ Len(q) \in Nat /\ DOMAIN q = 1 .. Len(q) /\ 1 \in 1 .. Len(q) /\ Head(q) = q[1]
         /\ DOMAIN Tail(q) = 1 .. Len(q) - 1
         /\ \A k \in 1 .. Len(q) - 1 : Tail(q)[k] = q[k + 1] /\ k + 1 \in 1 .. Len(q)
<1>1. Len(q) \in Nat /\ DOMAIN q = 1 .. Len(q) /\ Len(q) > 0
  BY EmptySeq
<1>2. Head(q) = q[1] /\ Tail(q) \in Seq(Messages) /\ Len(Tail(q)) = Len(q) - 1
  BY <1>1
<1>3. DOMAIN Tail(q) = 1 .. Len(q) - 1
  BY <1>2
<1>4. \A k \in 1 .. Len(q) - 1 : Tail(q)[k] = q[k + 1] /\ k + 1 \in 1 .. Len(q)
  BY <1>1
<1> QED  BY <1>1, <1>2, <1>3, <1>4

(* What is taken from a rising queue is behind what stays in it.           *)
LEMMA TailNumbers ==
  ASSUME NEW p \in Conns, NEW q \in Seq(Messages), q # <<>>
  PROVE  /\ Numbers(p, Tail(q)) \subseteq Numbers(p, q)
         /\ Head(q).src = p => Head(q).n \in Numbers(p, q)
         /\ Rising(p, q) => Rising(p, Tail(q))
         /\ Rising(p, q) /\ Head(q).src = p => \A n \in Numbers(p, Tail(q)) : Head(q).n < n
<1> DEFINE t == Tail(q)
           l == Len(q)
<1>1. /\ l \in Nat /\ DOMAIN q = 1 .. l /\ 1 \in 1 .. l /\ Head(q) = q[1]
      /\ DOMAIN t = 1 .. l - 1
      /\ \A k \in 1 .. l - 1 : t[k] = q[k + 1] /\ k + 1 \in 1 .. l
  BY TailParts
<1> HIDE DEF t, l
<1>2. \A k \in DOMAIN t : k + 1 \in DOMAIN q /\ t[k] = q[k + 1] /\ 1 < k + 1
  BY <1>1
<1>3. Numbers(p, t) \subseteq Numbers(p, q)
  BY <1>2 DEF Numbers
<1>4. Head(q).src = p => Head(q).n \in Numbers(p, q)
  BY <1>1 DEF Numbers
<1>5. Rising(p, q) => Rising(p, t)
  <2> SUFFICES ASSUME Rising(p, q), NEW h \in DOMAIN t, NEW k \in DOMAIN t, h < k,
                      t[h].src = p, t[k].src = p
               PROVE  t[h].n < t[k].n
    BY DEF Rising
  <2>1. h + 1 < k + 1
    BY <1>1
  <2> QED  BY <1>2, <2>1 DEF Rising
<1>6. Rising(p, q) /\ Head(q).src = p => \A n \in Numbers(p, t) : Head(q).n < n
  <2> SUFFICES ASSUME Rising(p, q), q[1].src = p, NEW k \in DOMAIN t, t[k].src = p
               PROVE  q[1].n < t[k].n
    BY <1>1 DEF Numbers
  <2> QED  BY <1>1, <1>2 DEF Rising
<1> QED  BY <1>3, <1>4, <1>5, <1>6 DEF t

LEMMA PutNumbers ==
  ASSUME NEW p \in Conns, NEW q \in Queues, NEW m \in Messages
  PROVE  /\ Numbers(p, Put(q, m)) \subseteq Numbers(p, q) \cup {m.n}
         /\ m.src # p => Numbers(p, Put(q, m)) = Numbers(p, q)
         /\ Rising(p, q) /\ (m.src = p => \A n \in Numbers(p, q) : n < m.n)
              => Rising(p, Put(q, m))
<1>1. q \in Seq(Messages)
  BY DEF Queues
<1> QED  BY <1>1, PutIsAppend, AppendNumbers, AppendRising

(* The entries of a queue that grew or lost its head.                      *)
LEMMA QueueEntries ==
  ASSUME NEW q \in Queues
  PROVE  /\ \A m \in Messages : \A k \in DOMAIN Put(q, m) :
              Put(q, m)[k] = m \/ \E h \in DOMAIN q : Put(q, m)[k] = q[h]
         /\ q # <<>> => /\ \E h \in DOMAIN q : Head(q) = q[h]
                        /\ \A k \in DOMAIN Tail(q) : \E h \in DOMAIN q : Tail(q)[k] = q[h]
<1>1. q \in Seq(Messages)
  BY DEF Queues
<1>2. ASSUME NEW m \in Messages, NEW k \in DOMAIN Append(q, m)
      PROVE  Append(q, m)[k] = m \/ \E h \in DOMAIN q : Append(q, m)[k] = q[h]
  <2>1. k \in 1 .. Len(q) + 1 /\ DOMAIN q = 1 .. Len(q)
    BY <1>1, <1>2, AppendParts
  <2>2. CASE k \in 1 .. Len(q)
    BY <1>1, <2>1, <2>2, AppendParts
  <2>3. CASE k = Len(q) + 1
    BY <1>1, <2>3, AppendParts
  <2> QED  BY <1>1, <2>1, <2>2, <2>3, AppendParts
<1>3. ASSUME NEW m \in Messages, NEW k \in DOMAIN Put(q, m)
      PROVE  Put(q, m)[k] = m \/ \E h \in DOMAIN q : Put(q, m)[k] = q[h]
  BY <1>2, <1>3, PutIsAppend
<1>4. q # <<>> => /\ \E h \in DOMAIN q : Head(q) = q[h]
                  /\ \A k \in DOMAIN Tail(q) : \E h \in DOMAIN q : Tail(q)[k] = q[h]
  BY <1>1, TailParts
<1> QED  BY <1>3, <1>4

-----------------------------------------------------------------------------
(* Paths *)

LEMMA PathShrinks ==
  ASSUME NEW S \in Paths, NEW T \in Paths, NEW b \in Nat, NEW c \in Nat, b <= c,
         Ordered(S), Bounded(S, b), \A s \in Stages : T[s] \subseteq S[s]
  PROVE  Ordered(T) /\ Bounded(T, c)
<1>1. Ordered(T)
  BY DEF Ordered
<1>2. \A n \in 1 .. b : n \in 1 .. c
  OBVIOUS
<1>3. Bounded(T, c)
  BY <1>2 DEF Bounded
<1> QED  BY <1>1, <1>3

(* A number moves one stage on, past none of those it leaves behind.       *)
LEMMA PathMoves ==
  ASSUME NEW S \in Paths, NEW T \in Paths, NEW b \in Nat,
         Ordered(S), Bounded(S, b),
         NEW g \in 1 .. 6, NEW n \in S[g + 1],
         \A s \in Stages : s # g => T[s] \subseteq S[s],
         T[g] \subseteq S[g] \cup {n},
         \A m \in T[g + 1] : n < m
  PROVE  Ordered(T) /\ Bounded(T, b)
<1>0. g \in Stages /\ g + 1 \in Stages
  BY DEF Stages
<1>1. Bounded(T, b)
  <2>1. n \in 1 .. b
    BY <1>0 DEF Bounded
  <2> QED  BY <2>1 DEF Bounded
<1>2. ASSUME NEW s \in Stages, NEW t \in Stages, s < t, NEW x \in T[s], NEW y \in T[t]
      PROVE  x < y
  <2>1. CASE s # g /\ t # g
    BY <1>2, <2>1 DEF Ordered
  <2>2. CASE s = g
    <3>1. t = g + 1 \/ t > g + 1
      BY <1>2, <2>2 DEF Stages
    <3>2. y \in S[t] /\ t # g
      BY <1>2, <2>2 DEF Stages
    <3>3. CASE x \in S[g]
      BY <1>2, <2>2, <3>2, <3>3 DEF Ordered
    <3>4. CASE x = n /\ t = g + 1
      BY <1>2, <3>4
    <3>5. CASE x = n /\ t > g + 1
      BY <1>0, <3>2, <3>5 DEF Ordered
    <3> QED  BY <1>2, <2>2, <3>1, <3>3, <3>4, <3>5
  <2>3. CASE t = g
    <3>1. s < g + 1 /\ s # g /\ x \in S[s]
      BY <1>2, <2>3 DEF Stages
    <3>2. CASE y \in S[g]
      BY <1>2, <2>3, <3>1, <3>2 DEF Ordered
    <3>3. CASE y = n
      BY <1>0, <3>1, <3>3 DEF Ordered
    <3> QED  BY <1>2, <2>3, <3>2, <3>3
  <2> QED  BY <2>1, <2>2, <2>3
<1> QED  BY <1>1, <1>2 DEF Ordered
(* A number above all others joins the last stage.                         *)
LEMMA PathGrows ==
  ASSUME NEW S \in Paths, NEW T \in Paths, NEW b \in Nat,
         Ordered(S), Bounded(S, b),
         \A s \in Stages : s # 7 => T[s] \subseteq S[s],
         T[7] \subseteq S[7] \cup {b + 1}
  PROVE  Ordered(T) /\ Bounded(T, b + 1)
<1>1. \A n \in 1 .. b : n \in 1 .. b + 1 /\ n < b + 1
  OBVIOUS
<1>2. b + 1 \in 1 .. b + 1
  OBVIOUS
<1>3. \A s, t \in Stages : s < t => s # 7
  BY DEF Stages
<1>4. Bounded(T, b + 1)
  <2>1. \A s \in Stages : \A n \in S[s] : n \in 1 .. b + 1
    BY <1>1 DEF Bounded
  <2> QED  BY <1>2, <2>1 DEF Bounded
<1>5. ASSUME NEW s \in Stages, NEW t \in Stages, s < t, NEW x \in T[s], NEW y \in T[t]
      PROVE  x < y
  <2>1. x \in S[s]
    BY <1>3, <1>5
  <2>2. CASE y \in S[t]
    BY <1>5, <2>1, <2>2 DEF Ordered
  <2>3. CASE y = b + 1
    BY <1>1, <2>1, <2>3 DEF Bounded
  <2> QED  BY <1>5, <2>2, <2>3
<1> QED  BY <1>4, <1>5 DEF Ordered

-----------------------------------------------------------------------------
(* The stages of a path *)

LEMMA SevenStages ==
  ASSUME NEW a, NEW b, NEW c, NEW d, NEW e, NEW f, NEW g
  PROVE  LET path == <<a, b, c, d, e, f, g>> IN
         /\ path[1] = a /\ path[2] = b /\ path[3] = c /\ path[4] = d
         /\ path[5] = e /\ path[6] = f /\ path[7] = g
         /\ DOMAIN path = Stages
BY DEF Stages

LEMMA StageNumbers == \A s \in Stages :
  s = 1 \/ s = 2 \/ s = 3 \/ s = 4 \/ s = 5 \/ s = 6 \/ s = 7
BY DEF Stages

LEMMA PathOfStages ==
  ASSUME NEW a \in SUBSET Nat, NEW b \in SUBSET Nat, NEW c \in SUBSET Nat, NEW d \in SUBSET Nat,
         NEW e \in SUBSET Nat, NEW f \in SUBSET Nat, NEW g \in SUBSET Nat
  PROVE  <<a, b, c, d, e, f, g>> \in Paths
<1> DEFINE path == <<a, b, c, d, e, f, g>>
<1>1. DOMAIN path = Stages /\ path = [s \in DOMAIN path |-> path[s]]
  BY SevenStages
<1>2. /\ path[1] = a /\ path[2] = b /\ path[3] = c /\ path[4] = d
      /\ path[5] = e /\ path[6] = f /\ path[7] = g
  BY SevenStages
<1> HIDE DEF path
<1>3. \A s \in Stages : path[s] \in SUBSET Nat
  BY <1>2, StageNumbers
<1>4. path \in Paths
  BY <1>1, <1>3 DEF Paths
<1> QED  BY <1>4 DEF path

LEMMA PathOf ==
  \A p, q \in Conns :
    /\ Path(p, q)[1] = Written(p, q) /\ Path(p, q)[2] = InHand(p, q)
    /\ Path(p, q)[3] = Waiting(p, q) /\ Path(p, q)[4] = Offered(p, q)
    /\ Path(p, q)[5] = Queued(p) /\ Path(p, q)[6] = Held(p) /\ Path(p, q)[7] = Unread(p)
BY SevenStages DEF Path

LEMMA PathOfPrime ==
  \A p, q \in Conns :
    /\ Path(p, q)'[1] = Written(p, q)' /\ Path(p, q)'[2] = InHand(p, q)'
    /\ Path(p, q)'[3] = Waiting(p, q)' /\ Path(p, q)'[4] = Offered(p, q)'
    /\ Path(p, q)'[5] = Queued(p)' /\ Path(p, q)'[6] = Held(p)' /\ Path(p, q)'[7] = Unread(p)'
BY SevenStages DEF Path

LEMMA NumbersNat ==
  ASSUME NEW p \in Conns, NEW q \in Seq(Messages) PROVE Numbers(p, q) \subseteq Nat
<1>1. \A k \in DOMAIN q : q[k] \in Messages
  OBVIOUS
<1>2. \A m \in Messages : m.n \in Nat
  BY DEF Messages
<1> QED  BY <1>1, <1>2 DEF Numbers

LEMMA PathType ==
  ASSUME ShapeInv, NEW p \in Conns, NEW q \in Conns
  PROVE  /\ Written(p, q) \subseteq Nat /\ InHand(p, q) \subseteq Nat
         /\ Waiting(p, q) \subseteq Nat /\ Offered(p, q) \subseteq Nat
         /\ Queued(p) \subseteq Nat /\ Held(p) \subseteq Nat /\ Unread(p) \subseteq Nat
         /\ Path(p, q) \in Paths
<1>1. \A m \in Messages : m.n \in Nat
  BY DEF Messages
<1>2. Written(p, q) \subseteq Nat
  BY NumbersNat DEF Written, ShapeInv, TypeOK, NetOK
<1>3. Waiting(p, q) \subseteq Nat
  BY NumbersNat DEF Waiting, ShapeInv, TypeOK, StructsOK, Queues
<1>4. Queued(p) \subseteq Nat
  BY NumbersNat DEF Queued, ShapeInv, TypeOK, TableOK, Queues
<1>5. InHand(p, q) \subseteq Nat
  BY <1>1 DEF InHand, Writing, ShapeInv, HandsFull
<1>6. Offered(p, q) \subseteq Nat
  BY <1>1 DEF Offered, Pending, ShapeInv, HandsFull
<1>7. Held(p) \subseteq Nat
  BY <1>1 DEF Held, ShapeInv, HandsFull
<1>8. Unread(p) \subseteq Nat
  <2>1. inbox[p] \in Seq(Texts)
    BY DEF ShapeInv, TypeOK, NetOK
  <2>2. \A k \in DOMAIN inbox[p] : inbox[p][k] \in Texts
    BY <2>1
  <2> QED  BY <2>2 DEF Unread, Texts
<1> QED  BY <1>2, <1>3, <1>4, <1>5, <1>6, <1>7, <1>8, PathOfStages DEF Path

PathAfter(p, q) == Ordered(Path(p, q)) /\ Bounded(Path(p, q), sent[p])

(* A step after which no stage holds more than before.                     *)
LEMMA PathShrinkStep ==
  ASSUME ShapeInv, PathInv, NEW p \in Conns, NEW q \in Conns,
         sent'[p] \in Nat, sent[p] <= sent'[p],
         Written(p, q)' \subseteq Written(p, q), InHand(p, q)' \subseteq InHand(p, q),
         Waiting(p, q)' \subseteq Waiting(p, q), Offered(p, q)' \subseteq Offered(p, q),
         Queued(p)' \subseteq Queued(p), Held(p)' \subseteq Held(p), Unread(p)' \subseteq Unread(p)
  PROVE  PathAfter(p, q)'
<1>1. Path(p, q) \in Paths /\ Path(p, q)' \in Paths
  <2>1. Path(p, q) \in Paths
    BY PathType
  <2>2. /\ Written(p, q)' \subseteq Nat /\ InHand(p, q)' \subseteq Nat
        /\ Waiting(p, q)' \subseteq Nat /\ Offered(p, q)' \subseteq Nat
        /\ Queued(p)' \subseteq Nat /\ Held(p)' \subseteq Nat /\ Unread(p)' \subseteq Nat
    BY PathType
  <2> QED  BY <2>1, <2>2, PathOfStages DEF Path
<1>2. \A s \in Stages : Path(p, q)'[s] \subseteq Path(p, q)[s]
  BY StageNumbers, PathOf, PathOfPrime
<1>3. Ordered(Path(p, q)) /\ Bounded(Path(p, q), sent[p]) /\ sent[p] \in Nat
  BY DEF PathInv, ShapeInv, TypeOK, NetOK
<1>4. Ordered(Path(p, q)') /\ Bounded(Path(p, q)', sent'[p])
  BY <1>1, <1>2, <1>3, PathShrinks
<1> QED  BY <1>4 DEF PathAfter, Ordered, Bounded

(* A step that takes n from the stage behind stage g to stage g.           *)
LEMMA PathMoveStep ==
  ASSUME ShapeInv, PathInv, NEW p \in Conns, NEW q \in Conns, sent'[p] = sent[p],
         NEW g \in 1 .. 6, NEW n \in Path(p, q)[g + 1],
         \A s \in Stages : s # g => Path(p, q)'[s] \subseteq Path(p, q)[s],
         Path(p, q)'[g] \subseteq Path(p, q)[g] \cup {n},
         \A m \in Path(p, q)'[g + 1] : n < m
  PROVE  PathAfter(p, q)'
<1>1. Path(p, q) \in Paths
  BY PathType
<1>2. g \in Stages /\ g + 1 \in Stages /\ n \in Nat
  BY <1>1 DEF Stages, Paths
<1>3. \A s \in Stages : Path(p, q)'[s] \subseteq Nat
  BY <1>1, <1>2 DEF Paths
<1>4. Path(p, q)' \in Paths
  <2>1. /\ Written(p, q)' \subseteq Nat /\ InHand(p, q)' \subseteq Nat
        /\ Waiting(p, q)' \subseteq Nat /\ Offered(p, q)' \subseteq Nat
        /\ Queued(p)' \subseteq Nat /\ Held(p)' \subseteq Nat /\ Unread(p)' \subseteq Nat
    BY <1>3, PathOfPrime DEF Stages
  <2> QED  BY <2>1, PathOfStages DEF Path
<1>5. Ordered(Path(p, q)) /\ Bounded(Path(p, q), sent[p]) /\ sent[p] \in Nat
  BY DEF PathInv, ShapeInv, TypeOK, NetOK
<1>6. Ordered(Path(p, q)') /\ Bounded(Path(p, q)', sent[p])
  BY <1>1, <1>4, <1>5, PathMoves
<1> QED  BY <1>6 DEF PathAfter, Ordered, Bounded

-----------------------------------------------------------------------------
(* What leaves the messages where they are *)

ReadersCalm == \A c \in Conns : rpc'[c] = "push" => rpc[c] = "push" /\ msgObj'[c] = msgObj[c]
WritersCalm == \A c \in Conns : Writing(c)' => Writing(c) /\ wfront'[c] = wfront[c]
FrontCalm == \A c \in Conns : Pending(c)' => Pending(c) /\ front' = front
Calm ==
  /\ UNCHANGED <<delivered, in_queue, queue, inbox, sent>>
  /\ ReadersCalm /\ WritersCalm /\ FrontCalm

LEMMA ThreadsCalm ==
  /\ UNCHANGED reader => ReadersCalm
  /\ UNCHANGED writer => WritersCalm
  /\ UNCHANGED <<processor, clients>> => FrontCalm
BY DEF reader, writer, processor, ReadersCalm, WritersCalm, FrontCalm, Writing, Pending

(* Slots that are emptied, and those passed over, take q from the list.    *)
LEMMA PendingShrinks ==
  ASSUME ShapeInv, front' = front, ppc \in {"lock", "scan", "match", "send"},
         ppc' \in {"scan", "match", "send"}, ppc # "lock" => pi' \in Int /\ pi' >= pi,
         \A k \in Slots : clients'[k] = clients[k] \/ clients'[k] = NONE
  PROVE  FrontCalm
<1>1. \A k \in Slots : k \in Int
  BY DEF Slots
<1>2. pi \in Int
  BY DEF ShapeInv, TypeOK, ProcessorOK
<1>3. ppc # "lock" => \A k \in Slots : k >= pi' => k >= pi
  BY <1>1, <1>2
<1>4. \A c \in Conns : c # NONE
  BY NoneIsNone
<1> QED  BY <1>3, <1>4 DEF FrontCalm, Pending

LEMMA MainCalm ==
  ASSUME IInv, LockInv, Main PROVE PushQuit \/ Calm
<1>t. TypeOK /\ ShapeInv
  BY DEF IInv, ShapeInv
<1>1. CASE Install
  <2>1. UNCHANGED <<delivered, in_queue, queue, inbox, sent, msgObj, wfront, processor>>
        /\ mpc = "install"
    BY <1>1 DEF Install, At, queues, net
  <2>2. ReadersCalm
    BY <1>1, <1>t, <2>1 DEF Install, ReadersCalm, TypeOK, ReadersOK
  <2>3. WritersCalm
    BY <1>1, <1>t, <2>1 DEF Install, WritersCalm, Writing, TypeOK, WritersOK
  <2>4. ppc \notin {"scan", "match", "send"}
    BY <2>1, NoneIsNone DEF LockInv, MainInTable, ProcessorInTable
  <2>5. FrontCalm
    BY <2>1, <2>4 DEF FrontCalm, Pending, processor
  <2> QED  BY <2>1, <2>2, <2>3, <2>5 DEF Calm
<1>2. CASE ClearSlot
  <2>1. UNCHANGED <<delivered, in_queue, queue, inbox, sent, reader, writer, processor>>
    BY <1>2 DEF ClearSlot, data, queues, threads, net
  <2>2. \A k \in Slots : clients'[k] = clients[k] \/ clients'[k] = NONE
    BY <1>2, <1>t DEF ClearSlot, ClearedSlot, TypeOK, TableOK
  <2>3. \A c \in Conns : c # NONE
    BY NoneIsNone
  <2>4. FrontCalm
    BY <2>1, <2>2, <2>3 DEF FrontCalm, Pending, processor
  <2> QED  BY <2>1, <2>4, ThreadsCalm DEF Calm
<1>3. CASE Start
  <2>1. UNCHANGED <<delivered, in_queue, queue, inbox, sent, reader, writer>> /\ ppc' = "loop"
    BY <1>3 DEF Start, data, queues, net
  <2>2. FrontCalm
    BY <2>1 DEF FrontCalm, Pending
  <2> QED  BY <2>1, <2>2, ThreadsCalm DEF Calm
<1>4. CASE Main /\ ~Install /\ ~ClearSlot /\ ~Start /\ ~PushQuit
  <2>1. UNCHANGED <<delivered, in_queue, queue, inbox, sent, reader, writer, processor, clients>>
    BY <1>4
    DEF Main, tcpserver_init, bt_server_init, ListenerInit, Poll, NoEvent, ServerDown,
        Accept, InstallLock, ScanDone, ReapNext, ReapClient, ReapDone, CloseLock,
        CloseNext, CloseClient, CloseDone, StopClient, GetQuitMsg, PushQuitLock, JoinRead,
        JoinWrite, Free, ServerInit, table, data, queues, threads, net
  <2> QED  BY <2>1, ThreadsCalm DEF Calm
<1> QED  BY <1>1, <1>2, <1>3, <1>4

LEMMA HandlerCalm ==
  ASSUME Handler PROVE PushQuitToProcessor \/ Calm
<1> SUFFICES ASSUME ~PushQuitToProcessor PROVE Calm
  OBVIOUS
<1>1. UNCHANGED <<delivered, in_queue, queue, inbox, sent, reader, writer, processor, clients>>
  BY DEF Handler, HandlerRuns, Sigint, CloseServers, AssertionFails, JoinProcessor,
         JoinNoThread, table, data, queues, net
<1> QED  BY <1>1, ThreadsCalm DEF Calm

(* The processor goes on to slots it has not looked at.                    *)
LEMMA ProcessorCalm ==
  ASSUME ShapeInv, Processor
  PROVE  /\ UNCHANGED <<delivered, inbox, sent, reader, writer, clients>>
         /\ PPop \/ FrontCalm
         /\ PPop \/ UNCHANGED queue
         /\ PSend \/ UNCHANGED in_queue
<1>1. UNCHANGED <<delivered, inbox, sent, reader, writer, clients>>
  BY DEF Processor, PLoop, PPop, PLock, PScan, PFault, PMatch, PSend, PDone, table, net
<1>2. pi \in Int
  BY DEF ShapeInv, TypeOK, ProcessorOK
<1>3. PPop \/ FrontCalm
  <2>1. CASE PLoop \/ PDone
    <3>1. ppc' \notin {"lock", "scan", "match", "send"}
      BY <2>1 DEF PLoop, PDone, ProcGoto
    <3> QED  BY <3>1 DEF FrontCalm, Pending
  <2>2. CASE PFault
    <3>1. UNCHANGED <<processor, clients>>
      BY <2>2 DEF PFault, table
    <3> QED  BY <3>1, ThreadsCalm
  <2>3. CASE PLock \/ PScan \/ PMatch \/ PSend
    <3>1. /\ front' = front /\ ppc \in {"lock", "scan", "match", "send"}
          /\ ppc' \in {"scan", "match", "send"} /\ (ppc # "lock" => pi' \in {pi, pi + 1})
      BY <2>3 DEF PLock, PScan, PMatch, PSend, ProcAt, ProcGoto
    <3>2. ppc # "lock" => pi' \in Int /\ pi' >= pi
      BY <1>2, <3>1
    <3>3. \A k \in Slots : clients'[k] = clients[k]
      BY <1>1
    <3> QED  BY <3>1, <3>2, <3>3, PendingShrinks
  <2> QED  BY <2>1, <2>2, <2>3 DEF Processor
<1>4. (PPop \/ UNCHANGED queue) /\ (PSend \/ UNCHANGED in_queue)
  BY DEF Processor, PLoop, PPop, PLock, PScan, PFault, PMatch, PSend, PDone, data, queues
<1> QED  BY <1>1, <1>3, <1>4

LEMMA EnvironmentCalm ==
  ASSUME Environment
  PROVE  (\E c \in Conns, to \in Targets : Send(c, to)) \/ Calm
<1> SUFFICES ASSUME ~\E c \in Conns, to \in Targets : Send(c, to) PROVE Calm
  OBVIOUS
<1>1. UNCHANGED <<delivered, in_queue, queue, inbox, sent, reader, writer, processor, clients>>
  BY DEF Environment, Connect, Withdraw, PeerEof, PeerGone, Stall, ServerFails, Program,
         table, queues, threads
<1> QED  BY <1>1, ThreadsCalm DEF Calm

LEMMA ReaderCalm ==
  ASSUME ShapeInv, NEW c \in Conns, RPoll(c) \/ ReadFails(c) PROVE Calm
<1>1. UNCHANGED <<delivered, in_queue, queue, inbox, sent, msgObj, writer, processor, clients>>
  BY DEF RPoll, ReadFails, table, queues, net
<1>2. ReadersCalm
  BY <1>1
  DEF RPoll, ReadFails, ReadGoto, EndReading, ReadersCalm, ShapeInv, TypeOK, ReadersOK
<1> QED  BY <1>1, <1>2, ThreadsCalm DEF Calm

LEMMA WriterCalm ==
  ASSUME ShapeInv, NEW c \in Conns, WLoop(c) \/ WriteFails(c) \/ WriteBlocks(c) PROVE Calm
<1>1. UNCHANGED <<delivered, in_queue, queue, inbox, sent, reader, processor, clients>>
  BY DEF WLoop, WriteFails, WriteBlocks, table, data, queues, net
<1>2. WritersCalm
  <2>1. \A d \in Conns : d # c => wpc'[d] = wpc[d] /\ wfront'[d] = wfront[d]
    BY DEF WLoop, WriteFails, WriteBlocks, WriteGoto, EndWriting, ShapeInv, TypeOK, WritersOK
  <2>2. CASE WLoop(c) \/ WriteFails(c)
    <3>1. ~Writing(c)'
      BY <2>2 DEF WLoop, WriteFails, WriteGoto, EndWriting, Writing, ShapeInv, TypeOK, WritersOK
    <3> QED  BY <2>1, <3>1 DEF WritersCalm, Writing
  <2>3. CASE WriteBlocks(c)
    <3>1. Writing(c) /\ UNCHANGED wfront
      BY <2>3 DEF WriteBlocks, WriteAt, Writing
    <3> QED  BY <2>1, <3>1 DEF WritersCalm, Writing
  <2> QED  BY <2>2, <2>3
<1> QED  BY <1>1, <1>2, ThreadsCalm DEF Calm

LEMMA NextCalm ==
  ASSUME IInv, LockInv, [Next]_vars
  PROVE  \/ Calm \/ PushQuit \/ PushQuitToProcessor \/ PPop \/ PSend
         \/ \E c \in Conns : \/ Read(c) \/ RPush(c) \/ WPop(c) \/ Write(c)
                            \/ \E to \in Targets : Send(c, to)
<1>t. ShapeInv
  BY DEF IInv
<1>1. CASE UNCHANGED vars
  BY <1>1, ThreadsCalm DEF Calm, vars, table, data, queues, threads, net
<1>2. CASE Processor
  BY <1>2, <1>t, ProcessorCalm, ThreadsCalm DEF Calm
<1> QED
  BY <1>t, <1>1, <1>2, MainCalm, HandlerCalm, EnvironmentCalm, ReaderCalm, WriterCalm
  DEF Next, Reader, Writer
-----------------------------------------------------------------------------
(* Numbers of clients *)

LEMMA OnlyAcceptNumbers ==
  ASSUME [Next]_vars PROVE Accept \/ UNCHANGED fd
<1>1. CASE Main /\ ~Accept
  BY <1>1
  DEF Main, tcpserver_init, bt_server_init, ListenerInit, Start, Poll, NoEvent, ServerDown,
      InstallLock, Install, ScanDone, ReapNext, ReapClient, ReapDone, CloseLock, CloseNext,
      CloseClient, CloseDone, StopClient, GetQuitMsg, PushQuitLock, PushQuit, JoinRead,
      JoinWrite, Free, ClearSlot, ServerInit, data, structs
<1>2. CASE Handler \/ Processor \/ UNCHANGED vars
  BY <1>2
  DEF Handler, HandlerRuns, Sigint, CloseServers, PushQuitToProcessor, AssertionFails,
      JoinProcessor, JoinNoThread, Processor, PLoop, PPop, PLock, PScan, PFault, PMatch,
      PSend, PDone, vars, data, structs
<1>3. CASE Environment
  BY <1>3
  DEF Environment, Connect, Withdraw, Send, PeerEof, PeerGone, Stall, ServerFails, Program
<1>4. CASE \E c \in Conns : Reader(c) \/ Writer(c)
  BY <1>4
  DEF Reader, RPoll, ReadFails, Read, RPush, Writer, WLoop, WPop, WriteFails, WriteBlocks,
      Write, data, structs
<1> QED  BY <1>1, <1>2, <1>3, <1>4 DEF Next

LEMMA AcceptGives ==
  ASSUME ShapeInv, KnownInv, Accept
  PROVE  \/ UNCHANGED <<fd, sock>>
         \/ \E c \in Conns, f \in FirstFd .. FirstFd + Cardinality(Conns) :
              /\ fd[c] = 0 /\ f # 0 /\ sock[c] = "backlog"
              /\ fd' = [fd EXCEPT ![c] = f] /\ sock' = [sock EXCEPT ![c] = "open"]
<1>1. ASSUME NEW c \in Backlog(pf[i]), NEW f \in FirstFd .. FirstFd + Cardinality(Conns)
      PROVE  c \in Conns /\ sock[c] = "backlog" /\ fd[c] = 0 /\ f # 0
  BY <1>1, ListenerAssumption DEF Backlog, KnownInv
<1> QED  BY <1>1 DEF Accept

LEMMA NumbersStay ==
  ASSUME ShapeInv, KnownInv, [Next]_vars, NEW c \in Conns, fd[c] # 0
  PROVE  fd'[c] = fd[c]
<1>1. fd \in [Conns -> Nat]
  BY DEF ShapeInv, TypeOK, StructsOK
<1> QED  BY <1>1, OnlyAcceptNumbers, AcceptGives

LEMMA KnownStep ==
  ASSUME IInv, KnownInv, [Next]_vars PROVE KnownInv'
<1>s. ShapeInv
  BY DEF IInv
<1>t. /\ fd \in [Conns -> Nat]
      /\ sock \in [Conns -> {"none", "backlog", "withdrawn", "open", "closed"}]
  BY <1>s DEF ShapeInv, TypeOK, StructsOK, NetOK
<1>1. CASE Accept
  <2>1. CASE UNCHANGED <<fd, sock>>
    BY <2>1 DEF KnownInv
  <2>2. ASSUME NEW c \in Conns, NEW f \in FirstFd .. FirstFd + Cardinality(Conns), f # 0,
               fd' = [fd EXCEPT ![c] = f], sock' = [sock EXCEPT ![c] = "open"]
        PROVE  KnownInv'
    <3>1. \A d \in Conns : d # c => fd'[d] = fd[d] /\ sock'[d] = sock[d]
      BY <1>t, <2>2
    <3>2. fd'[c] = f /\ sock'[c] = "open"
      BY <1>t, <2>2
    <3> QED  BY <2>2, <3>1, <3>2 DEF KnownInv
  <2> QED  BY <1>1, <1>s, <2>1, <2>2, AcceptGives
<1>2. CASE StopClient
  <2>1. UNCHANGED fd /\ sock' = [sock EXCEPT ![Current] = "closed"]
    BY <1>2 DEF StopClient, structs
  <2>2. Current \in Conns /\ obj[Current] = "live"
    BY <1>2
    DEF StopClient, At, Current, IInv, ClientInv, StoppingInv, ShapeInv, StopInv, StopPlaces,
        TypeOK, TableOK
  <2>3. sock[Current] \in {"open", "closed"}
    BY <1>t, <2>2 DEF IInv, ClientInv, LifeInv
  <2>4. \A c \in Conns : sock'[c] = IF c = Current THEN "closed" ELSE sock[c]
    BY <1>t, <2>1
  <2> QED  BY <2>1, <2>2, <2>3, <2>4 DEF KnownInv
<1>3. CASE Environment
  <2>1. UNCHANGED fd
    BY <1>3
    DEF Environment, Connect, Withdraw, Send, PeerEof, PeerGone, Stall, ServerFails, Program
  <2>2. \A c \in Conns : sock'[c] \in {"open", "closed"} <=> sock[c] \in {"open", "closed"}
    BY <1>3, <1>t
    DEF Environment, Connect, Withdraw, Send, PeerEof, PeerGone, Stall, ServerFails
  <2> QED  BY <2>1, <2>2 DEF KnownInv
<1>4. CASE ~Accept /\ ~StopClient /\ ~Environment
  <2>1. UNCHANGED sock
    <3>1. CASE Main
      BY <1>4, <3>1
      DEF Main, tcpserver_init, bt_server_init, ListenerInit, Start, Poll, NoEvent, ServerDown,
          InstallLock, Install, ScanDone, ReapNext, ReapClient, ReapDone, CloseLock, CloseNext,
          CloseClient, CloseDone, GetQuitMsg, PushQuitLock, PushQuit, JoinRead,
          JoinWrite, Free, ClearSlot, ServerInit, net
    <3>2. CASE Handler \/ Processor \/ UNCHANGED vars
      BY <3>2
      DEF Handler, HandlerRuns, Sigint, CloseServers, PushQuitToProcessor, AssertionFails,
          JoinProcessor, JoinNoThread, Processor, PLoop, PPop, PLock, PScan, PFault, PMatch,
          PSend, PDone, vars, net
    <3>3. CASE \E c \in Conns : Reader(c) \/ Writer(c)
      BY <3>3
      DEF Reader, RPoll, ReadFails, Read, RPush, Writer, WLoop, WPop, WriteFails, WriteBlocks,
          Write, net
    <3> QED  BY <1>4, <3>1, <3>2, <3>3 DEF Next
  <2> QED  BY <1>4, <2>1, OnlyAcceptNumbers DEF KnownInv
<1> QED  BY <1>1, <1>2, <1>3, <1>4

-----------------------------------------------------------------------------
(* Who a message is from, and for *)

LEMMA LiveHasNumber ==
  ASSUME IInv, KnownInv, NEW c \in Conns, obj[c] = "live" PROVE fd[c] # 0
<1>1. sock[c] \in {"none", "backlog", "withdrawn", "open", "closed"}
  BY DEF IInv, ShapeInv, TypeOK, NetOK
<1>2. sock[c] \notin {"none", "backlog", "withdrawn"}
  BY DEF IInv, ClientInv, LifeInv
<1> QED  BY <1>1, <1>2 DEF KnownInv

(* The client that front is sent to, when its struct is still there.       *)
LEMMA SendsToLive ==
  ASSUME IInv, PSend
  PROVE  /\ clients[pi] \in Conns /\ pi \in Slots
         /\ ~Freed(clients[pi]) => obj[clients[pi]] = "live"
<1>1. clients[pi] \in Conns /\ pi \in Slots
  BY DEF PSend, ProcAt, IInv, ShapeInv, HandsFull, TypeOK, TableOK
<1>2. obj[clients[pi]] # "live" => Freed(clients[pi])
  BY <1>1, NoneIsNone DEF IInv, ClientInv, SlotsConsistent, StoppingInv
<1> QED  BY <1>1, <1>2

LEMMA KeptNumbers ==
  ASSUME IInv, KnownInv, [Next]_vars
  PROVE  \A c \in Conns : fd[c] # 0 => fd'[c] = fd[c]
BY NumbersStay DEF IInv

(* The queue of the processor.                                             *)
LEMMA QueueFrom ==
  ASSUME IInv, LockInv, FromInv, KnownInv, [Next]_vars
  PROVE  (\A k \in DOMAIN queue : Routable(queue[k]))'
<1>t. queue \in Queues /\ ShapeInv
  BY DEF IInv, ShapeInv, TypeOK, TableOK
<1>1. \A k \in DOMAIN queue' : Routable(queue'[k])
  <2>1. CASE UNCHANGED queue
    BY <2>1 DEF FromInv
  <2>2. ASSUME NEW m \in Messages, Routable(m), queue' = Put(queue, m)
        PROVE  \A k \in DOMAIN queue' : Routable(queue'[k])
    <3>1. \A k \in DOMAIN queue' : queue'[k] = m \/ \E h \in DOMAIN queue : queue'[k] = queue[h]
      BY <1>t, <2>2, QueueEntries
    <3> QED  BY <2>2, <3>1 DEF FromInv
  <2>3. CASE queue # <<>> /\ queue' = Tail(queue)
    <3>1. \A k \in DOMAIN queue' : \E h \in DOMAIN queue : queue'[k] = queue[h]
      BY <1>t, <2>3, QueueEntries
    <3> QED  BY <3>1 DEF FromInv
  <2>4. CASE PushQuitToProcessor
    <3>1. Routable(QuitMsg) /\ Routable(HalfQuit)
      BY NoneIsNone DEF Routable, Signed, QuitMsg, HalfQuit, Quits
    <3> QED  BY <2>2, <2>4, <3>1, SpecialMessages DEF PushQuitToProcessor
  <2>5. CASE PPop
    BY <2>1, <2>3, <2>5 DEF PPop
  <2>6. ASSUME NEW c \in Conns, RPush(c) PROVE \A k \in DOMAIN queue' : Routable(queue'[k])
    <3>1. rpc[c] = "push" /\ queue' = Put(queue, msgObj[c])
      BY <2>6 DEF RPush, ReadAt
    <3>2. msgObj[c] \in Messages /\ msgObj[c].src = c /\ Signed(msgObj[c])
      BY <1>t, <3>1 DEF ShapeInv, HandsFull, FromInv
    <3>3. Routable(msgObj[c])
      BY <3>2, NoneIsNone DEF Routable
    <3> QED  BY <2>2, <3>1, <3>2, <3>3
  <2>7. CASE PushQuit \/ PSend \/ Calm
             \/ \E c \in Conns : Read(c) \/ WPop(c) \/ Write(c) \/ \E to \in Targets : Send(c, to)
    <3>1. UNCHANGED queue
      BY <2>7 DEF PushQuit, PSend, Calm, Read, WPop, Write, Send, Program, data, queues
    <3> QED  BY <2>1, <3>1
  <2> QED  BY <2>4, <2>5, <2>6, <2>7, NextCalm
<1> QED  BY <1>1, KeptNumbers DEF Routable, Signed, Quits
LEMMA FrontFrom ==
  ASSUME IInv, FromInv, KnownInv, [Next]_vars
  PROVE  (Routing => Routable(front))'
<1>t. queue \in Queues
  BY DEF IInv, ShapeInv, TypeOK, TableOK
<1>1. Routing' => Routable(front')
  <2>1. CASE PPop
    <3>1. queue # <<>> => Routable(Head(queue))
      BY <1>t, QueueEntries DEF FromInv
    <3>2. Routing' => queue # <<>> /\ front' = Head(queue)
      BY <2>1 DEF PPop, ProcGoto, Routing
    <3> QED  BY <3>1, <3>2
  <2>2. CASE PushQuit \/ PSend \/ \E c \in Conns : WPop(c)
    <3>1. UNCHANGED front /\ (Routing' => Routing)
      BY <2>2 DEF PushQuit, PSend, WPop, ProcAt, ProcGoto, threads, processor, Routing
    <3> QED  BY <3>1 DEF FromInv
  <2> QED  BY <2>1, <2>2, QueuesStandStill DEF FromInv
<1> QED  BY <1>1, KeptNumbers DEF Routable, Signed, Quits

(* The message that a read thread is about to queue.                       *)
LEMMA HeldFrom ==
  ASSUME IInv, LockInv, FromInv, KnownInv, [Next]_vars
  PROVE  (\A c \in Conns : rpc[c] = "push" => msgObj[c].src = c /\ Signed(msgObj[c]))'
<1>1. ASSUME NEW c \in Conns, rpc'[c] = "push"
      PROVE  msgObj'[c].src = c /\ Signed(msgObj'[c])
  <2>1. CASE ReadersCalm
    BY <1>1, <2>1 DEF ReadersCalm, FromInv
  <2>2. ASSUME NEW d \in Conns, Read(d) PROVE msgObj'[c].src = c /\ Signed(msgObj'[c])
    <3>t. rpc \in [Conns -> {"unborn", "poll", "read", "push", "exit"}]
          /\ msgObj \in [Conns -> Messages \cup {NONE}]
      BY DEF IInv, ShapeInv, TypeOK, ReadersOK, MessageOrNone
    <3>1. CASE c # d
      <4>1. rpc[c] = "push" /\ msgObj'[c] = msgObj[c]
        BY <1>1, <2>2, <3>t, <3>1 DEF Read, ReadGoto
      <4> QED  BY <4>1 DEF FromInv
    <3>2. CASE c = d
      <4>1. PICK k \in 1 .. Len(inbox[c]) : msgObj'[c] = Message(c, fd[c], inbox[c][k])
        BY <1>1, <2>2, <3>t, <3>2 DEF Read, ReadGoto
      <4>2. fd[c] # 0
        BY <2>2, <3>2 DEF Read, KnownInv
      <4> QED  BY <4>1, <4>2 DEF Message, Signed
    <3> QED  BY <3>1, <3>2
  <2>3. ASSUME NEW d \in Conns, RPush(d) PROVE ReadersCalm
    BY <2>3 DEF RPush, ReadGoto, ReadersCalm, IInv, ShapeInv, TypeOK, ReadersOK
  <2>4. CASE PushQuit \/ PushQuitToProcessor \/ PPop \/ PSend
             \/ \E d \in Conns : WPop(d) \/ Write(d) \/ \E to \in Targets : Send(d, to)
    <3>1. UNCHANGED reader
      BY <2>4 DEF PushQuit, PushQuitToProcessor, PPop, PSend, WPop, Write, Send, Program, threads
    <3> QED  BY <2>1, <3>1, ThreadsCalm
  <2> QED  BY <2>1, <2>2, <2>3, <2>4, NextCalm DEF Calm
<1> QED  BY <1>1, KeptNumbers DEF Signed

(* What the processor gives to a client is for it.                         *)
LEMMA SentReaches ==
  ASSUME IInv, QuitInv, FromInv, KnownInv, PSend, ~Freed(clients[pi])
  PROVE  front \in Messages /\ Reaching(front, clients[pi])
<1>1. clients[pi] \in Conns /\ obj[clients[pi]] = "live" /\ clients[pi] # NONE /\ Routing
      /\ ppc = "send"
  BY SendsToLive DEF PSend, ProcAt, Routing
<1>2. front \in Messages /\ Routable(front) /\ ~Quits(front)
  BY <1>1 DEF IInv, ShapeInv, HandsFull, Routing, FromInv, QuitInv
<1>4. fd[clients[pi]] # 0 /\ fd[clients[pi]] \in Nat
  BY <1>1, LiveHasNumber DEF IInv, ShapeInv, TypeOK, StructsOK
<1>5. front.to = fd[clients[pi]] \/ front.to = 0
  BY <1>1 DEF FromInv, Addressed
<1>6. front.src # NONE
  BY <1>2, <1>4, <1>5 DEF Routable
<1> QED  BY <1>2, <1>4, <1>5, <1>6 DEF Routable, Reaching

LEMMA WaitingFrom ==
  ASSUME IInv, LockInv, QuitInv, FromInv, KnownInv, [Next]_vars
  PROVE  (\A c \in Conns : \A k \in DOMAIN in_queue[c] : Reaching(in_queue[c][k], c))'
<1>t. in_queue \in [Conns -> Queues]
  BY DEF IInv, ShapeInv, TypeOK, StructsOK
<1> DEFINE Goal == \A c \in Conns : \A k \in DOMAIN in_queue'[c] : Reaching(in_queue'[c][k], c)
<1>1. Goal
  <2>1. CASE UNCHANGED in_queue
    BY <2>1 DEF FromInv
  <2>2. ASSUME NEW d \in Conns, NEW m \in Messages, Reaching(m, d),
               in_queue' = [in_queue EXCEPT ![d] = Put(@, m)]
        PROVE  Goal
    <3>1. in_queue'[d] = Put(in_queue[d], m) /\ \A c \in Conns : c # d => in_queue'[c] = in_queue[c]
      BY <1>t, <2>2
    <3>2. \A k \in DOMAIN Put(in_queue[d], m) :
            Put(in_queue[d], m)[k] = m \/ \E h \in DOMAIN in_queue[d] : Put(in_queue[d], m)[k] = in_queue[d][h]
      BY <1>t, <2>2, QueueEntries
    <3>3. \A k \in DOMAIN in_queue'[d] : Reaching(in_queue'[d][k], d)
      BY <2>2, <3>1, <3>2 DEF FromInv
    <3> QED  BY <3>1, <3>3 DEF FromInv
  <2>3. CASE PushQuit
    <3>1. Current \in Conns /\ obj[Current] = "live"
      BY <2>3
      DEF PushQuit, At, Current, IInv, ClientInv, StoppingInv, AfterStop, ShapeInv, StopInv,
          StopPlaces, TypeOK, TableOK
    <3>2. fd[Current] # 0
      BY <3>1, LiveHasNumber
    <3>3. Reaching(QuitMsg, Current)
      BY <3>2, NoneIsNone DEF Reaching, Signed, QuitMsg, Quits
    <3> QED  BY <2>2, <2>3, <3>1, <3>3, SpecialMessages DEF PushQuit
  <2>4. CASE PSend
    <3>1. CASE Freed(clients[pi])
      BY <2>1, <2>4, <3>1 DEF PSend
    <3>2. CASE ~Freed(clients[pi])
      <4>1. in_queue' = [in_queue EXCEPT ![clients[pi]] = Put(@, front)] /\ clients[pi] \in Conns
        BY <2>4, <3>2, SendsToLive DEF PSend
      <4> QED  BY <2>2, <2>4, <3>2, <4>1, SentReaches
    <3> QED  BY <3>1, <3>2
  <2>5. ASSUME NEW d \in Conns, WPop(d) PROVE Goal
    <3>1. CASE in_queue[d] # <<>> /\ in_queue' = [in_queue EXCEPT ![d] = Tail(@)]
      <4>1. in_queue'[d] = Tail(in_queue[d]) /\ \A c \in Conns : c # d => in_queue'[c] = in_queue[c]
        BY <1>t, <3>1
      <4>2. \A k \in DOMAIN in_queue'[d] : \E h \in DOMAIN in_queue[d] : in_queue'[d][k] = in_queue[d][h]
        BY <1>t, <3>1, <4>1, QueueEntries
      <4>3. \A k \in DOMAIN in_queue'[d] : Reaching(in_queue'[d][k], d)
        BY <4>2 DEF FromInv
      <4> QED  BY <4>1, <4>3 DEF FromInv
    <3>2. \/ UNCHANGED in_queue
          \/ in_queue[d] # <<>> /\ in_queue' = [in_queue EXCEPT ![d] = Tail(@)]
      BY <2>5 DEF WPop
    <3> QED  BY <2>1, <3>1, <3>2
  <2>6. CASE PPop
    BY <2>1, <2>6 DEF PPop
  <2> QED  BY <2>1, <2>3, <2>4, <2>5, <2>6, QueuesStandStill
<1> QED  BY <1>1, KeptNumbers DEF Reaching, Signed, Quits

LEMMA HandFrom ==
  ASSUME IInv, LockInv, FromInv, KnownInv, [Next]_vars
  PROVE  (\A c \in Conns : Writing(c) => Reaching(wfront[c], c) /\ ~Quits(wfront[c]))'
<1>t. /\ wpc \in [Conns -> {"unborn", "loop", "pop", "write", "blocked", "exit"}]
      /\ wfront \in [Conns -> Messages \cup {NONE}]
      /\ in_queue \in [Conns -> Queues]
  BY DEF IInv, ShapeInv, TypeOK, WritersOK, StructsOK, MessageOrNone
<1>1. ASSUME NEW c \in Conns, Writing(c)' PROVE Reaching(wfront'[c], c) /\ ~Quits(wfront'[c])
  <2>1. CASE WritersCalm
    BY <1>1, <2>1 DEF WritersCalm, FromInv
  <2>2. ASSUME NEW d \in Conns, WPop(d) PROVE Reaching(wfront'[c], c) /\ ~Quits(wfront'[c])
    <3>1. CASE c # d
      <4>1. wpc'[c] = wpc[c] /\ wfront'[c] = wfront[c]
        BY <1>t, <2>2, <3>1 DEF WPop, WriteGoto, EndWriting
      <4> QED  BY <1>1, <4>1 DEF FromInv, Writing
    <3>2. CASE c = d
      <4>1. in_queue[c] # <<>> /\ ~Quits(Head(in_queue[c])) /\ wfront'[c] = Head(in_queue[c])
        BY <1>1, <1>t, <2>2, <3>2 DEF WPop, WriteGoto, EndWriting, Writing
      <4>2. \E h \in DOMAIN in_queue[c] : Head(in_queue[c]) = in_queue[c][h]
        BY <1>t, <4>1, QueueEntries
      <4> QED  BY <4>1, <4>2 DEF FromInv
    <3> QED  BY <3>1, <3>2
  <2>3. ASSUME NEW d \in Conns, Write(d) PROVE WritersCalm
    <3>1. ~Writing(d)' /\ \A e \in Conns : e # d => wpc'[e] = wpc[e] /\ wfront'[e] = wfront[e]
      BY <1>t, <2>3 DEF Write, WriteGoto, Writing
    <3> QED  BY <3>1 DEF WritersCalm, Writing
  <2>4. CASE PushQuit \/ PushQuitToProcessor \/ PPop \/ PSend
             \/ \E d \in Conns : Read(d) \/ RPush(d) \/ \E to \in Targets : Send(d, to)
    <3>1. UNCHANGED writer
      BY <2>4 DEF PushQuit, PushQuitToProcessor, PPop, PSend, Read, RPush, Send, Program, threads
    <3> QED  BY <2>1, <3>1, ThreadsCalm
  <2> QED  BY <2>1, <2>2, <2>3, <2>4, NextCalm DEF Calm
<1> QED  BY <1>1, KeptNumbers DEF Reaching, Signed, Quits

(* The client in slot pi stays the one that was found addressed.           *)
LEMMA AddressedStays ==
  ASSUME IInv, LockInv, FromInv, KnownInv, [Next]_vars
  PROVE  (ppc = "send" /\ clients[pi] # NONE /\ obj[clients[pi]] = "live"
            => Addressed(front, clients[pi]))'
<1> SUFFICES ASSUME ppc' = "send", clients'[pi'] # NONE, obj'[clients'[pi']] = "live"
             PROVE  Addressed(front, clients[pi])'
  OBVIOUS
<1>1. CASE PMatch
  <2>1. UNCHANGED <<clients, obj, fd, front>> /\ pi' = pi
    BY <1>1 DEF PMatch, ProcGoto, table, data, structs
  <2>2. Addressed(front, clients[pi])
    BY <1>1, <2>1 DEF PMatch, ProcGoto, Freed
  <2> QED  BY <2>1, <2>2 DEF Addressed
<1>2. CASE ~PMatch
  <2>1. ppc = "send" /\ UNCHANGED <<pi, front>>
    <3>1. CASE Processor
      BY <1>2, <3>1
      DEF Processor, PLoop, PPop, PLock, PScan, PFault, PSend, PDone, ProcAt, ProcGoto, processor
    <3>2. CASE Main
      BY <3>2
      DEF Main, tcpserver_init, bt_server_init, ListenerInit, Start, Poll, NoEvent, ServerDown,
          Accept, InstallLock, Install, ScanDone, ReapNext, ReapClient, ReapDone, CloseLock,
          CloseNext, CloseClient, CloseDone, StopClient, GetQuitMsg, PushQuitLock, PushQuit,
          JoinRead, JoinWrite, Free, ClearSlot, ServerInit, threads, processor
    <3>3. CASE Handler \/ Environment \/ UNCHANGED vars
      BY <3>3
      DEF Handler, HandlerRuns, Sigint, CloseServers, PushQuitToProcessor, AssertionFails,
          JoinProcessor, JoinNoThread, Environment, Connect, Withdraw, Send, PeerEof, PeerGone,
          Stall, ServerFails, Program, vars, threads, processor
    <3>4. CASE \E c \in Conns : Reader(c) \/ Writer(c)
      BY <3>4
      DEF Reader, RPoll, ReadFails, Read, RPush, Writer, WLoop, WPop, WriteFails, WriteBlocks,
          Write, processor
    <3> QED  BY <3>1, <3>2, <3>3, <3>4 DEF Next
  <2>t. /\ clients \in [Slots -> Conns \cup {NONE}] /\ pi \in Slots
        /\ obj \in [Conns -> {"unborn", "live", "reaped", "closed"}]
    BY <2>1 DEF IInv, ShapeInv, HandsFull, TypeOK, TableOK, StructsOK
  <2>2. ~Install
    BY <2>1, NoneIsNone DEF Install, At, LockInv, MainInTable, ProcessorInTable
  <2>3. clients'[pi] = clients[pi] /\ (obj'[clients[pi]] = "live" => obj[clients[pi]] = "live")
    BY <2>1, <2>2, <2>t, TableChanges DEF Free, ClearSlot, ClearedSlot, table, data, structs
  <2>4. Addressed(front, clients[pi]) /\ clients[pi] \in Conns /\ obj[clients[pi]] = "live"
    BY <2>1, <2>3, <2>t DEF FromInv
  <2>5. fd[clients[pi]] # 0
    BY <2>4, LiveHasNumber
  <2>6. fd'[clients[pi]] = fd[clients[pi]]
    BY <2>4, <2>5, KeptNumbers
  <2> QED  BY <2>1, <2>3, <2>4, <2>6 DEF Addressed
<1> QED  BY <1>1, <1>2

LEMMA FromStep ==
  ASSUME IInv, LockInv, QuitInv, FromInv, KnownInv, [Next]_vars PROVE FromInv'
BY QueueFrom, FrontFrom, HeldFrom, WaitingFrom, HandFrom, AddressedStays DEF FromInv
-----------------------------------------------------------------------------
(* The order of the messages *)

(* What the invariant says of two stages of a path.                        *)
LEMMA StagesInOrder ==
  ASSUME PathInv, NEW p \in Conns, NEW q \in Conns
  PROVE  /\ \A m \in Written(p, q), n \in InHand(p, q) : m < n
         /\ \A m \in Waiting(p, q), n \in Offered(p, q) : m < n
         /\ \A m \in Queued(p), n \in Held(p) : m < n
         /\ \A n \in Unread(p) \cup InHand(p, q) : n \in 1 .. sent[p]
<1>1. \A s, t \in Stages : s < t => \A m \in Path(p, q)[s], n \in Path(p, q)[t] : m < n
  BY DEF PathInv, Ordered
<1>2. \A s \in Stages : \A n \in Path(p, q)[s] : n \in 1 .. sent[p]
  BY DEF PathInv, Bounded
<1>3. 1 \in Stages /\ 2 \in Stages /\ 3 \in Stages /\ 4 \in Stages
      /\ 5 \in Stages /\ 6 \in Stages /\ 7 \in Stages
      /\ 1 < 2 /\ 3 < 4 /\ 5 < 6
  BY DEF Stages
<1>4. \A m \in Written(p, q), n \in InHand(p, q) : m < n
  BY <1>1, <1>3, PathOf
<1>5. \A m \in Waiting(p, q), n \in Offered(p, q) : m < n
  BY <1>1, <1>3, PathOf
<1>6. \A m \in Queued(p), n \in Held(p) : m < n
  BY <1>1, <1>3, PathOf
<1>7. \A n \in Unread(p) \cup InHand(p, q) : n \in 1 .. sent[p]
  BY <1>2, <1>3, PathOf
<1> QED  BY <1>4, <1>5, <1>6, <1>7

LEMMA PushQuitLines ==
  ASSUME IInv, LineInv, PushQuit \/ PushQuitToProcessor
  PROVE  /\ \A p, q \in Conns : Waiting(p, q)' = Waiting(p, q) /\ Rising(p, in_queue[q])'
         /\ \A p \in Conns : Queued(p)' = Queued(p) /\ Rising(p, queue)'
<1>t. in_queue \in [Conns -> Queues] /\ queue \in Queues
  BY DEF IInv, ShapeInv, TypeOK, TableOK, StructsOK
<1>s. QuitMsg \in Messages /\ HalfQuit \in Messages
      /\ \A p \in Conns : QuitMsg.src # p /\ HalfQuit.src # p
  BY SpecialMessages, NoneIsNone DEF QuitMsg, HalfQuit
<1>1. ASSUME NEW p \in Conns, NEW q \in Queues, NEW m \in {QuitMsg, HalfQuit}
      PROVE  Numbers(p, Put(q, m)) = Numbers(p, q) /\ (Rising(p, q) => Rising(p, Put(q, m)))
  BY <1>s, PutNumbers
<1>2. CASE PushQuit
  <2>1. UNCHANGED queue
    BY <1>2 DEF PushQuit
  <2>2. \A q \in Conns : in_queue'[q] = in_queue[q] \/ in_queue'[q] = Put(in_queue[q], QuitMsg)
    BY <1>2, <1>t DEF PushQuit
  <2> QED  BY <1>t, <1>1, <2>1, <2>2 DEF Waiting, Queued, LineInv
<1>3. CASE PushQuitToProcessor
  <2>1. UNCHANGED in_queue
    BY <1>3 DEF PushQuitToProcessor
  <2>2. queue' = Put(queue, QuitMsg) \/ queue' = Put(queue, HalfQuit)
    BY <1>3 DEF PushQuitToProcessor
  <2> QED  BY <1>t, <1>1, <2>1, <2>2 DEF Waiting, Queued, LineInv
<1> QED  BY <1>2, <1>3

LEMMA CalmStages ==
  ASSUME NEW p \in Conns, NEW q \in Conns
  PROVE  /\ UNCHANGED delivered => Written(p, q)' = Written(p, q)
         /\ WritersCalm => InHand(p, q)' \subseteq InHand(p, q)
         /\ UNCHANGED in_queue => Waiting(p, q)' = Waiting(p, q)
         /\ FrontCalm => Offered(p, q)' \subseteq Offered(p, q)
         /\ UNCHANGED queue => Queued(p)' = Queued(p)
         /\ ReadersCalm => Held(p)' \subseteq Held(p)
         /\ UNCHANGED inbox => Unread(p)' = Unread(p)
<1>1. UNCHANGED delivered => Written(p, q)' = Written(p, q)
  BY DEF Written
<1>2. WritersCalm => InHand(p, q)' \subseteq InHand(p, q)
  BY DEF WritersCalm, InHand
<1>3. UNCHANGED in_queue => Waiting(p, q)' = Waiting(p, q)
  BY DEF Waiting
<1>4. FrontCalm => Offered(p, q)' \subseteq Offered(p, q)
  BY DEF FrontCalm, Offered
<1>5. UNCHANGED queue => Queued(p)' = Queued(p)
  BY DEF Queued
<1>6. ReadersCalm => Held(p)' \subseteq Held(p)
  BY DEF ReadersCalm, Held
<1>7. UNCHANGED inbox => Unread(p)' = Unread(p)
  BY DEF Unread
<1> QED  BY <1>1, <1>2, <1>3, <1>4, <1>5, <1>6, <1>7

Sequel == (PathInv /\ LineInv)'

LEMMA SentNat ==
  ASSUME IInv PROVE \A p \in Conns : sent[p] \in Nat /\ sent[p] <= sent[p]
BY DEF IInv, ShapeInv, TypeOK, NetOK

LEMMA CalmOrder ==
  ASSUME IInv, PathInv, LineInv, Calm \/ PushQuit \/ PushQuitToProcessor PROVE Sequel
<1>1. UNCHANGED <<delivered, inbox, sent>> /\ ReadersCalm /\ WritersCalm /\ FrontCalm
  <2>1. CASE PushQuit \/ PushQuitToProcessor
    <3>1. UNCHANGED <<delivered, inbox, sent, reader, writer, processor, clients>>
      BY <2>1 DEF PushQuit, PushQuitToProcessor, threads, table, net
    <3> QED  BY <3>1, ThreadsCalm
  <2> QED  BY <2>1 DEF Calm
<1>2. /\ \A p, q \in Conns : Waiting(p, q)' = Waiting(p, q) /\ Rising(p, in_queue[q])'
      /\ \A p \in Conns : Queued(p)' = Queued(p) /\ Rising(p, queue)'
  <2>1. CASE Calm
    <3>1. UNCHANGED <<in_queue, queue>>
      BY <2>1 DEF Calm
    <3> QED  BY <3>1 DEF Waiting, Queued, LineInv
  <2> QED  BY <2>1, PushQuitLines
<1>3. ASSUME NEW p \in Conns, NEW q \in Conns PROVE PathAfter(p, q)'
  <2>1. sent'[p] \in Nat /\ sent[p] <= sent'[p]
    BY <1>1, SentNat
  <2>2. ShapeInv
    BY DEF IInv
  <2> QED  BY <1>1, <1>2, <2>1, <2>2, CalmStages, PathShrinkStep
<1>4. PathInv'
  BY <1>3 DEF PathAfter, PathInv
<1>5. LineInv'
  BY <1>1, <1>2 DEF LineInv
<1> QED  BY <1>4, <1>5 DEF Sequel
(* A text is sent: its number is above all others of its sender.           *)
LEMMA SendOrder ==
  ASSUME IInv, PathInv, LineInv, NEW c \in Conns, NEW to \in Targets, Send(c, to)
  PROVE  Sequel
<1>s. ShapeInv
  BY DEF IInv
<1>t. /\ inbox \in [Conns -> Seq(Texts)] /\ sent \in [Conns -> 0 .. MaxSend]
      /\ MaxSend \in Nat /\ to \in Nat
  BY <1>s, ListenerAssumption DEF ShapeInv, TypeOK, NetOK
<1> DEFINE text == [n |-> sent[c] + 1, to |-> to]
<1>1. text \in Texts /\ text.n = sent[c] + 1
  BY <1>t DEF Texts
<1>2. /\ UNCHANGED <<delivered, in_queue, queue, reader, writer, processor, clients>>
      /\ sent' = [sent EXCEPT ![c] = @ + 1]
      /\ inbox' = [inbox EXCEPT ![c] = Append(@, text)]
  BY DEF Send, Program, table, queues, threads
<1> HIDE DEF text
<1>3. \A p \in Conns : p # c => inbox'[p] = inbox[p] /\ sent'[p] = sent[p]
  BY <1>t, <1>2
<1>4. inbox'[c] = Append(inbox[c], text) /\ sent'[c] = sent[c] + 1 /\ sent[c] \in Nat
      /\ inbox[c] \in Seq(Texts)
  BY <1>t, <1>2
<1>5. /\ Len(inbox[c]) \in Nat /\ DOMAIN inbox[c] = 1 .. Len(inbox[c])
      /\ DOMAIN inbox'[c] = 1 .. Len(inbox[c]) + 1
      /\ \A k \in 1 .. Len(inbox[c]) : inbox'[c][k] = inbox[c][k]
      /\ inbox'[c][Len(inbox[c]) + 1] = text
  BY <1>1, <1>4
<1>6. \A k \in DOMAIN inbox'[c] : k \in DOMAIN inbox[c] \/ k = Len(inbox[c]) + 1
  BY <1>5
<1>7. Unread(c)' \subseteq Unread(c) \cup {sent[c] + 1}
  BY <1>1, <1>5, <1>6 DEF Unread
<1>8. \A n \in Unread(c) : n \in 1 .. sent[c]
  BY StagesInOrder
<1>9. Climbing(inbox[c])'
  <2> SUFFICES ASSUME NEW h \in DOMAIN inbox'[c], NEW k \in DOMAIN inbox'[c], h < k
               PROVE  inbox'[c][h].n < inbox'[c][k].n
    BY DEF Climbing
  <2>1. h \in DOMAIN inbox[c]
    BY <1>5
  <2>2. CASE k \in DOMAIN inbox[c]
    BY <1>5, <2>1, <2>2 DEF LineInv, Climbing
  <2>3. CASE k = Len(inbox[c]) + 1
    <3>1. inbox[c][h].n \in 1 .. sent[c]
      BY <1>8, <2>1 DEF Unread
    <3>2. inbox'[c][h] = inbox[c][h] /\ inbox'[c][k].n = sent[c] + 1
      BY <1>1, <1>5, <2>1, <2>3
    <3> QED  BY <1>4, <3>1, <3>2
  <2> QED  BY <1>6, <2>2, <2>3
<1>10. LineInv'
  BY <1>2, <1>3, <1>9 DEF LineInv, Climbing, Rising
<1>11. ASSUME NEW p \in Conns, NEW q \in Conns PROVE PathAfter(p, q)'
  <2>1. /\ Written(p, q)' \subseteq Written(p, q) /\ InHand(p, q)' \subseteq InHand(p, q)
        /\ Waiting(p, q)' \subseteq Waiting(p, q) /\ Offered(p, q)' \subseteq Offered(p, q)
        /\ Queued(p)' \subseteq Queued(p) /\ Held(p)' \subseteq Held(p)
    BY <1>2, ThreadsCalm, CalmStages
  <2>2. CASE p # c
    <3>1. Unread(p)' = Unread(p) /\ sent'[p] \in Nat /\ sent[p] <= sent'[p]
      BY <1>3, <2>2, SentNat DEF Unread
    <3> QED  BY <1>s, <2>1, <3>1, PathShrinkStep
  <2>3. CASE p = c
    <3>1. \A s \in Stages : s # 7 => Path(p, q)'[s] \subseteq Path(p, q)[s]
      BY <2>1, StageNumbers, PathOf, PathOfPrime
    <3>2. Path(p, q)'[7] \subseteq Path(p, q)[7] \cup {sent[p] + 1}
      BY <1>7, <2>3, PathOf, PathOfPrime
    <3>3. Path(p, q) \in Paths
      BY <1>s, PathType
    <3>4. Path(p, q)' \in Paths
      <4>1. Unread(p)' \subseteq Nat
        BY <1>s, <1>7, <1>4, <2>3, PathType
      <4>2. /\ Written(p, q)' \subseteq Nat /\ InHand(p, q)' \subseteq Nat
            /\ Waiting(p, q)' \subseteq Nat /\ Offered(p, q)' \subseteq Nat
            /\ Queued(p)' \subseteq Nat /\ Held(p)' \subseteq Nat
        BY <1>s, <2>1, PathType
      <4> QED  BY <4>1, <4>2, PathOfStages DEF Path
    <3>5. Ordered(Path(p, q)) /\ Bounded(Path(p, q), sent[p])
      BY DEF PathInv
    <3>6. Ordered(Path(p, q)') /\ Bounded(Path(p, q)', sent[p] + 1)
      BY <1>4, <2>3, <3>1, <3>2, <3>3, <3>4, <3>5, PathGrows
    <3> QED  BY <1>4, <2>3, <3>6 DEF PathAfter, Ordered, Bounded
  <2> QED  BY <2>2, <2>3
<1> QED  BY <1>10, <1>11 DEF Sequel, PathInv, PathAfter

(* A read drops texts from the front of the stream and keeps the last of   *)
(* them, which is before all that stay.                                    *)
LEMMA ReadOrder ==
  ASSUME IInv, PathInv, LineInv, NEW c \in Conns, Read(c) PROVE Sequel
<1>s. ShapeInv
  BY DEF IInv
<1>t. /\ inbox \in [Conns -> Seq(Texts)]
      /\ rpc \in [Conns -> {"unborn", "poll", "read", "push", "exit"}]
      /\ msgObj \in [Conns -> Messages \cup {NONE}]
  BY <1>s DEF ShapeInv, TypeOK, NetOK, ReadersOK, MessageOrNone
<1>1. PICK k \in 1 .. Len(inbox[c]) :
        /\ inbox' = [inbox EXCEPT ![c] = SubSeq(@, k + 1, Len(@))]
        /\ \/ ReadGoto(c, "poll") /\ UNCHANGED msgObj
           \/ /\ ReadGoto(c, "push")
              /\ msgObj' = [msgObj EXCEPT ![c] = Message(c, fd[c], inbox[c][k])]
  BY DEF Read
<1>2. UNCHANGED <<delivered, in_queue, queue, sent, writer, processor, clients>>
  BY DEF Read, table, data, queues
<1>3. inbox'[c] = SubSeq(inbox[c], k + 1, Len(inbox[c])) /\ inbox[c] \in Seq(Texts)
      /\ \A p \in Conns : p # c => inbox'[p] = inbox[p]
  BY <1>t, <1>1
<1>4. /\ Len(inbox[c]) \in Nat /\ k \in 1 .. Len(inbox[c])
      /\ DOMAIN inbox[c] = 1 .. Len(inbox[c])
      /\ DOMAIN inbox'[c] = 1 .. Len(inbox[c]) - k
      /\ \A h \in 1 .. Len(inbox[c]) - k : inbox'[c][h] = inbox[c][h + k]
  BY <1>1, <1>3
<1>5. \A h \in DOMAIN inbox'[c] :
        h + k \in DOMAIN inbox[c] /\ inbox'[c][h] = inbox[c][h + k] /\ k < h + k
  BY <1>4
<1>6. Unread(c)' \subseteq Unread(c) /\ inbox[c][k].n \in Unread(c)
  BY <1>4, <1>5 DEF Unread
<1>7. \A n \in Unread(c)' : inbox[c][k].n < n
  BY <1>4, <1>5 DEF Unread, LineInv, Climbing
<1>8. Climbing(inbox[c])'
  <2> SUFFICES ASSUME NEW g \in DOMAIN inbox'[c], NEW h \in DOMAIN inbox'[c], g < h
               PROVE  inbox'[c][g].n < inbox'[c][h].n
    BY DEF Climbing
  <2>1. g + k < h + k
    BY <1>4
  <2> QED  BY <1>5, <2>1 DEF LineInv, Climbing
<1>9. LineInv'
  BY <1>2, <1>3, <1>8 DEF LineInv, Climbing, Rising
<1>10. \A p \in Conns : p # c => Held(p)' = Held(p) /\ Unread(p)' = Unread(p)
  <2>1. \A p \in Conns : p # c => rpc'[p] = rpc[p] /\ msgObj'[p] = msgObj[p]
    BY <1>t, <1>1 DEF ReadGoto
  <2>2. \A p \in Conns : p # c => Held(p)' = Held(p)
    BY <2>1 DEF Held
  <2>3. \A p \in Conns : p # c => Unread(p)' = Unread(p)
    BY <1>3 DEF Unread
  <2> QED  BY <2>2, <2>3
<1>11. Held(c)' = {} \/ Held(c)' = {inbox[c][k].n}
  BY <1>t, <1>1 DEF Held, ReadGoto, Message
<1>12. ASSUME NEW p \in Conns, NEW q \in Conns PROVE PathAfter(p, q)'
  <2>1. /\ Written(p, q)' \subseteq Written(p, q) /\ InHand(p, q)' \subseteq InHand(p, q)
        /\ Waiting(p, q)' \subseteq Waiting(p, q) /\ Offered(p, q)' \subseteq Offered(p, q)
        /\ Queued(p)' \subseteq Queued(p)
    BY <1>2, ThreadsCalm, CalmStages
  <2>0. sent'[p] \in Nat /\ sent[p] <= sent'[p] /\ sent'[p] = sent[p]
    BY <1>2, SentNat
  <2>2. CASE p # c \/ Held(c)' = {}
    <3>1. Held(p)' \subseteq Held(p) /\ Unread(p)' \subseteq Unread(p)
      BY <1>6, <1>10, <2>2
    <3> QED  BY <1>s, <2>0, <2>1, <3>1, PathShrinkStep
  <2>3. CASE p = c /\ Held(c)' = {inbox[c][k].n}
    <3>1. \A s \in Stages : s # 6 => Path(p, q)'[s] \subseteq Path(p, q)[s]
      BY <1>6, <2>1, <2>3, StageNumbers, PathOf, PathOfPrime
    <3>2. Path(p, q)'[6] \subseteq Path(p, q)[6] \cup {inbox[c][k].n}
      BY <2>3, PathOfPrime
    <3>3. inbox[c][k].n \in Path(p, q)[6 + 1]
      BY <1>6, <2>3, PathOf
    <3>4. \A m \in Path(p, q)'[6 + 1] : inbox[c][k].n < m
      BY <1>7, <2>3, PathOfPrime
    <3>5. 6 \in 1 .. 6
      OBVIOUS
    <3> QED  BY <1>s, <2>0, <3>1, <3>2, <3>3, <3>4, <3>5, PathMoveStep
  <2> QED  BY <1>11, <2>2, <2>3
<1> QED  BY <1>9, <1>12 DEF Sequel, PathInv, PathAfter
(* A message that was read joins the queue behind those of its sender, or  *)
(* is lost.                                                                *)
LEMMA RPushOrder ==
  ASSUME IInv, PathInv, LineInv, FromInv, NEW c \in Conns, RPush(c) PROVE Sequel
<1>s. ShapeInv
  BY DEF IInv
<1>t. /\ queue \in Queues
      /\ rpc \in [Conns -> {"unborn", "poll", "read", "push", "exit"}]
      /\ msgObj \in [Conns -> Messages \cup {NONE}]
  BY <1>s DEF ShapeInv, TypeOK, TableOK, ReadersOK, MessageOrNone
<1>1. UNCHANGED <<delivered, in_queue, inbox, sent, writer, processor, clients>>
  BY DEF RPush, table, net
<1>2. rpc[c] = "push" /\ rpc' = [rpc EXCEPT ![c] = "poll"]
      /\ queue' = Put(queue, msgObj[c]) /\ msgObj' = [msgObj EXCEPT ![c] = NONE]
  BY DEF RPush, ReadAt, ReadGoto
<1>3. msgObj[c] \in Messages /\ msgObj[c].src = c
  BY <1>s, <1>2 DEF ShapeInv, HandsFull, FromInv
<1>4. Held(c) = {msgObj[c].n} /\ Held(c)' = {} /\ \A p \in Conns : p # c => Held(p)' = Held(p)
  <2>1. \A p \in Conns : p # c => rpc'[p] = rpc[p] /\ msgObj'[p] = msgObj[p]
    BY <1>t, <1>2
  <2>2. rpc'[c] = "poll"
    BY <1>t, <1>2
  <2> QED  BY <1>2, <2>1, <2>2 DEF Held
<1>5. \A n \in Queued(c) : n < msgObj[c].n
  BY <1>4, StagesInOrder
<1>6. /\ Queued(c)' \subseteq Queued(c) \cup {msgObj[c].n}
      /\ \A p \in Conns : p # c => Queued(p)' = Queued(p)
      /\ \A p \in Conns : Rising(p, queue)'
  BY <1>2, <1>3, <1>5, <1>t, PutNumbers DEF Queued, LineInv
<1>7. LineInv'
  BY <1>1, <1>6 DEF LineInv
<1>8. ASSUME NEW p \in Conns, NEW q \in Conns PROVE PathAfter(p, q)'
  <2>1. /\ Written(p, q)' \subseteq Written(p, q) /\ InHand(p, q)' \subseteq InHand(p, q)
        /\ Waiting(p, q)' \subseteq Waiting(p, q) /\ Offered(p, q)' \subseteq Offered(p, q)
        /\ Unread(p)' \subseteq Unread(p) /\ Held(p)' \subseteq Held(p)
    BY <1>1, <1>4, ThreadsCalm, CalmStages
  <2>0. sent'[p] \in Nat /\ sent[p] <= sent'[p] /\ sent'[p] = sent[p]
    BY <1>1, SentNat
  <2>2. CASE p # c
    <3>1. Queued(p)' \subseteq Queued(p)
      BY <1>6, <2>2
    <3> QED  BY <1>s, <2>0, <2>1, <3>1, PathShrinkStep
  <2>3. CASE p = c
    <3>1. \A s \in Stages : s # 5 => Path(p, q)'[s] \subseteq Path(p, q)[s]
      BY <2>1, StageNumbers, PathOf, PathOfPrime
    <3>2. Path(p, q)'[5] \subseteq Path(p, q)[5] \cup {msgObj[c].n}
      BY <1>6, <2>3, PathOf, PathOfPrime
    <3>3. msgObj[c].n \in Path(p, q)[5 + 1]
      BY <1>4, <2>3, PathOf
    <3>4. \A m \in Path(p, q)'[5 + 1] : msgObj[c].n < m
      BY <1>4, <2>3, PathOfPrime
    <3>5. 5 \in 1 .. 6
      OBVIOUS
    <3> QED  BY <1>s, <2>0, <3>1, <3>2, <3>3, <3>4, <3>5, PathMoveStep
  <2> QED  BY <2>2, <2>3
<1> QED  BY <1>7, <1>8 DEF Sequel, PathInv, PathAfter

(* The processor takes the first message, which is now to be offered to    *)
(* every client.                                                           *)
LEMMA PPopOrder ==
  ASSUME IInv, PathInv, LineInv, PPop PROVE Sequel
<1>s. ShapeInv
  BY DEF IInv
<1>t. queue \in Queues /\ queue \in Seq(Messages)
  BY <1>s DEF ShapeInv, TypeOK, TableOK, Queues
<1>1. UNCHANGED <<delivered, in_queue, inbox, sent, reader, writer, clients>>
  BY DEF PPop, table, net
<1>2. /\ UNCHANGED queue \/ (queue # <<>> /\ queue' = Tail(queue))
      /\ \/ ppc' \in {"loop", "exit"}
         \/ queue # <<>> /\ queue' = Tail(queue) /\ front' = Head(queue)
  BY DEF PPop, ProcGoto
<1>3. \A p \in Conns : Queued(p)' \subseteq Queued(p) /\ Rising(p, queue)'
  <2>1. CASE UNCHANGED queue
    BY <2>1 DEF Queued, LineInv
  <2>2. CASE queue # <<>> /\ queue' = Tail(queue)
    <3>1. \A p \in Conns : Numbers(p, Tail(queue)) \subseteq Numbers(p, queue)
                          /\ (Rising(p, queue) => Rising(p, Tail(queue)))
      BY <1>t, <2>2, TailNumbers
    <3> QED  BY <2>2, <3>1 DEF Queued, LineInv
  <2> QED  BY <1>2, <2>1, <2>2
<1>4. LineInv'
  BY <1>1, <1>3 DEF LineInv
<1>5. ASSUME NEW p \in Conns, NEW q \in Conns PROVE PathAfter(p, q)'
  <2>1. /\ Written(p, q)' \subseteq Written(p, q) /\ InHand(p, q)' \subseteq InHand(p, q)
        /\ Waiting(p, q)' \subseteq Waiting(p, q) /\ Queued(p)' \subseteq Queued(p)
        /\ Unread(p)' \subseteq Unread(p) /\ Held(p)' \subseteq Held(p)
    BY <1>1, <1>3, ThreadsCalm, CalmStages
  <2>0. sent'[p] \in Nat /\ sent[p] <= sent'[p] /\ sent'[p] = sent[p]
    BY <1>1, SentNat
  <2>2. CASE Offered(p, q)' = {}
    <3>1. Offered(p, q)' \subseteq Offered(p, q)
      BY <2>2
    <3> QED  BY <1>s, <2>0, <2>1, <3>1, PathShrinkStep
  <2>3. CASE Offered(p, q)' # {}
    <3>1. Pending(q)' /\ front'.src = p /\ Offered(p, q)' = {front'.n}
      BY <2>3 DEF Offered
    <3>2. queue # <<>> /\ queue' = Tail(queue) /\ front' = Head(queue)
      BY <1>2, <3>1 DEF Pending
    <3> DEFINE n == Head(queue).n
    <3>3. n \in Queued(p) /\ \A m \in Queued(p)' : n < m
      BY <1>t, <3>1, <3>2, TailNumbers DEF Queued, LineInv
    <3>4. Offered(p, q)' = {n}
      BY <3>1, <3>2
    <3> HIDE DEF n
    <3>5. \A s \in Stages : s # 4 => Path(p, q)'[s] \subseteq Path(p, q)[s]
      BY <2>1, StageNumbers, PathOf, PathOfPrime
    <3>6. Path(p, q)'[4] \subseteq Path(p, q)[4] \cup {n}
      BY <3>4, PathOfPrime
    <3>7. n \in Path(p, q)[4 + 1]
      BY <3>3, PathOf
    <3>8. \A m \in Path(p, q)'[4 + 1] : n < m
      BY <3>3, PathOfPrime
    <3>9. 4 \in 1 .. 6
      OBVIOUS
    <3> QED  BY <1>s, <2>0, <3>5, <3>6, <3>7, <3>8, <3>9, PathMoveStep
  <2> QED  BY <2>2, <2>3
<1> QED  BY <1>4, <1>5 DEF Sequel, PathInv, PathAfter

(* The client in slot pi gets a copy; it is in no other slot, so front has *)
(* been offered to it.                                                     *)
LEMMA PSendOrder ==
  ASSUME IInv, PathInv, LineInv, PSend PROVE Sequel
<1>s. ShapeInv /\ Processor
  BY DEF IInv, Processor
<1>t. in_queue \in [Conns -> Queues] /\ front \in Messages
  BY <1>s DEF ShapeInv, TypeOK, StructsOK, HandsFull, PSend, ProcAt
<1>1. UNCHANGED <<delivered, queue, inbox, sent, reader, writer, clients, front>> /\ FrontCalm
      /\ ppc = "send" /\ ppc' = "scan" /\ pi' = pi + 1
  BY <1>s, ProcessorCalm DEF PSend, ProcAt, ProcGoto, PPop
<1>2. PICK c \in Conns : c = clients[pi] /\ pi \in Slots
  BY SendsToLive
<1>3. Pending(c)
  <2>1. pi >= pi
    BY <1>2 DEF Slots
  <2> QED  BY <1>1, <1>2, <2>1 DEF Pending
<1>4. ~Pending(c)'
  <2>1. \A k \in Slots : k >= pi + 1 => k # pi
    BY <1>2 DEF Slots
  <2>2. \A k \in Slots : k # pi => clients[k] # c
    BY <1>2, NoneIsNone DEF IInv, ClientInv, SlotsConsistent
  <2> QED  BY <1>1, <2>1, <2>2 DEF Pending
<1>5. \/ UNCHANGED in_queue
      \/ in_queue'[c] = Put(in_queue[c], front) /\ \A q \in Conns : q # c => in_queue'[q] = in_queue[q]
  BY <1>2, <1>t DEF PSend
<1>6. ASSUME NEW p \in Conns
      PROVE  front.src = p => Offered(p, c) = {front.n} /\ \A n \in Waiting(p, c) : n < front.n
  BY <1>2, <1>3, StagesInOrder DEF Offered
<1>7. ASSUME NEW p \in Conns, in_queue'[c] = Put(in_queue[c], front)
      PROVE  /\ Waiting(p, c)' \subseteq Waiting(p, c) \cup {front.n}
             /\ front.src # p => Waiting(p, c)' = Waiting(p, c)
             /\ Rising(p, in_queue[c])'
  BY <1>2, <1>6, <1>7, <1>t, PutNumbers DEF Waiting, LineInv
<1>8. \A p, q \in Conns : Rising(p, in_queue[q])'
  <2>1. CASE UNCHANGED in_queue
    BY <2>1 DEF LineInv
  <2>2. CASE in_queue'[c] = Put(in_queue[c], front) /\ \A q \in Conns : q # c => in_queue'[q] = in_queue[q]
    BY <1>7, <2>2 DEF LineInv
  <2> QED  BY <1>5, <2>1, <2>2
<1>9. LineInv'
  BY <1>1, <1>8 DEF LineInv
<1>10. ASSUME NEW p \in Conns, NEW q \in Conns PROVE PathAfter(p, q)'
  <2>1. /\ Written(p, q)' \subseteq Written(p, q) /\ InHand(p, q)' \subseteq InHand(p, q)
        /\ Offered(p, q)' \subseteq Offered(p, q) /\ Queued(p)' \subseteq Queued(p)
        /\ Unread(p)' \subseteq Unread(p) /\ Held(p)' \subseteq Held(p)
    BY <1>1, ThreadsCalm, CalmStages
  <2>0. sent'[p] \in Nat /\ sent[p] <= sent'[p] /\ sent'[p] = sent[p]
    BY <1>1, SentNat
  <2>2. CASE Waiting(p, q)' \subseteq Waiting(p, q)
    BY <1>s, <2>0, <2>1, <2>2, PathShrinkStep
  <2>3. CASE ~(Waiting(p, q)' \subseteq Waiting(p, q))
    <3>1. q = c /\ in_queue'[c] = Put(in_queue[c], front)
      BY <1>5, <2>3 DEF Waiting
    <3>2. front.src = p
      BY <1>7, <2>3, <3>1
    <3> DEFINE n == front.n
    <3>3. n \in Offered(p, q) /\ Offered(p, q)' = {} /\ Waiting(p, q)' \subseteq Waiting(p, q) \cup {n}
      BY <1>4, <1>6, <1>7, <3>1, <3>2 DEF Offered
    <3> HIDE DEF n
    <3>5. \A s \in Stages : s # 3 => Path(p, q)'[s] \subseteq Path(p, q)[s]
      BY <2>1, StageNumbers, PathOf, PathOfPrime
    <3>6. Path(p, q)'[3] \subseteq Path(p, q)[3] \cup {n}
      BY <3>3, PathOf, PathOfPrime
    <3>7. n \in Path(p, q)[3 + 1]
      BY <3>3, PathOf
    <3>8. \A m \in Path(p, q)'[3 + 1] : n < m
      BY <3>3, PathOfPrime
    <3>9. 3 \in 1 .. 6
      OBVIOUS
    <3> QED  BY <1>s, <2>0, <3>5, <3>6, <3>7, <3>8, <3>9, PathMoveStep
  <2> QED  BY <2>2, <2>3
<1> QED  BY <1>9, <1>10 DEF Sequel, PathInv, PathAfter
(* A write thread takes the first message of its client.                   *)
LEMMA WPopOrder ==
  ASSUME IInv, PathInv, LineInv, NEW c \in Conns, WPop(c) PROVE Sequel
<1>s. ShapeInv
  BY DEF IInv
<1>t. /\ in_queue \in [Conns -> Queues] /\ in_queue[c] \in Seq(Messages)
      /\ wpc \in [Conns -> {"unborn", "loop", "pop", "write", "blocked", "exit"}]
      /\ wfront \in [Conns -> Messages \cup {NONE}]
  BY <1>s DEF ShapeInv, TypeOK, StructsOK, WritersOK, MessageOrNone, Queues
<1>1. UNCHANGED <<delivered, queue, inbox, sent, reader, processor, clients>>
  BY DEF WPop, table, net
<1>2. /\ \A q \in Conns : q # c => /\ in_queue'[q] = in_queue[q] /\ wpc'[q] = wpc[q]
                               /\ wfront'[q] = wfront[q]
      /\ in_queue'[c] = in_queue[c] \/ (in_queue[c] # <<>> /\ in_queue'[c] = Tail(in_queue[c]))
      /\ Writing(c)' => /\ in_queue[c] # <<>> /\ in_queue'[c] = Tail(in_queue[c])
                        /\ wfront'[c] = Head(in_queue[c])
  <2>1. CASE in_queue[c] = <<>>
    BY <1>t, <2>1 DEF WPop, WriteGoto, Writing
  <2>2. CASE in_queue[c] # <<>> /\ Quits(Head(in_queue[c]))
    BY <1>t, <2>2 DEF WPop, WriteGoto, Writing, EndWriting
  <2>3. CASE in_queue[c] # <<>> /\ ~Quits(Head(in_queue[c]))
    BY <1>t, <2>3 DEF WPop, WriteGoto, Writing
  <2> QED  BY <2>1, <2>2, <2>3
<1>3. \A p \in Conns : Waiting(p, c)' \subseteq Waiting(p, c) /\ Rising(p, in_queue[c])'
  <2>1. CASE in_queue'[c] = in_queue[c]
    BY <2>1 DEF Waiting, LineInv, Rising
  <2>2. CASE in_queue[c] # <<>> /\ in_queue'[c] = Tail(in_queue[c])
    <3>1. \A p \in Conns : Numbers(p, Tail(in_queue[c])) \subseteq Numbers(p, in_queue[c])
                          /\ (Rising(p, in_queue[c]) => Rising(p, Tail(in_queue[c])))
      BY <1>t, <2>2, TailNumbers
    <3> QED  BY <2>2, <3>1 DEF Waiting, LineInv
  <2> QED  BY <1>2, <2>1, <2>2
<1>4. \A p, q \in Conns : q # c => /\ Waiting(p, q)' = Waiting(p, q) /\ Rising(p, in_queue[q])'
                                /\ InHand(p, q)' = InHand(p, q)
  <2>1. \A p, q \in Conns : q # c => Waiting(p, q)' = Waiting(p, q) /\ Rising(p, in_queue[q])'
    BY <1>2 DEF Waiting, LineInv
  <2>2. \A p, q \in Conns : q # c => InHand(p, q)' = InHand(p, q)
    BY <1>2 DEF InHand, Writing
  <2> QED  BY <2>1, <2>2
<1>5. LineInv'
  BY <1>1, <1>3, <1>4 DEF LineInv
<1>6. ASSUME NEW p \in Conns, NEW q \in Conns PROVE PathAfter(p, q)'
  <2>1. /\ Written(p, q)' \subseteq Written(p, q) /\ Waiting(p, q)' \subseteq Waiting(p, q)
        /\ Offered(p, q)' \subseteq Offered(p, q) /\ Queued(p)' \subseteq Queued(p)
        /\ Unread(p)' \subseteq Unread(p) /\ Held(p)' \subseteq Held(p)
    BY <1>1, <1>3, <1>4, ThreadsCalm, CalmStages
  <2>0. sent'[p] \in Nat /\ sent[p] <= sent'[p] /\ sent'[p] = sent[p]
    BY <1>1, SentNat
  <2>2. CASE InHand(p, q)' \subseteq InHand(p, q)
    BY <1>s, <2>0, <2>1, <2>2, PathShrinkStep
  <2>3. CASE ~(InHand(p, q)' \subseteq InHand(p, q))
    <3>1. q = c
      BY <1>4, <2>3
    <3>2. Writing(c)' /\ wfront'[c].src = p /\ InHand(p, q)' = {wfront'[c].n}
      BY <2>3, <3>1 DEF InHand
    <3>3. PICK n : n = Head(in_queue[c]).n
      OBVIOUS
    <3>4. /\ in_queue[c] # <<>> /\ in_queue'[c] = Tail(in_queue[c])
          /\ Head(in_queue[c]).src = p /\ InHand(p, q)' = {n}
      BY <1>2, <3>2, <3>3
    <3>5. Rising(p, in_queue[c])
      BY DEF LineInv
    <3>6. n \in Numbers(p, in_queue[c]) /\ \A m \in Numbers(p, Tail(in_queue[c])) : n < m
      BY <1>t, <3>3, <3>4, <3>5, TailNumbers
    <3>7. n \in Waiting(p, q) /\ \A m \in Waiting(p, q)' : n < m
      BY <3>1, <3>4, <3>6 DEF Waiting
    <3>8. \A s \in Stages : s # 2 => Path(p, q)'[s] \subseteq Path(p, q)[s]
      BY <2>1, StageNumbers, PathOf, PathOfPrime
    <3>9. Path(p, q)'[2] \subseteq Path(p, q)[2] \cup {n}
      BY <3>4, PathOfPrime
    <3>10. n \in Path(p, q)[2 + 1]
      BY <3>7, PathOf
    <3>11. \A m \in Path(p, q)'[2 + 1] : n < m
      BY <3>7, PathOfPrime
    <3>12. 2 \in 1 .. 6
      OBVIOUS
    <3> QED  BY <1>s, <2>0, <3>8, <3>9, <3>10, <3>11, <3>12, PathMoveStep
  <2> QED  BY <2>2, <2>3
<1> QED  BY <1>5, <1>6 DEF Sequel, PathInv, PathAfter

(* The message in hand is written.                                         *)
LEMMA WriteOrder ==
  ASSUME IInv, PathInv, LineInv, NEW c \in Conns, Write(c) PROVE Sequel
<1>s. ShapeInv
  BY DEF IInv
<1>t. /\ wpc \in [Conns -> {"unborn", "loop", "pop", "write", "blocked", "exit"}]
      /\ wfront \in [Conns -> Messages \cup {NONE}]
      /\ delivered \in [Conns -> Seq(Messages)]
  BY <1>s DEF ShapeInv, TypeOK, WritersOK, NetOK, MessageOrNone
<1>1. UNCHANGED <<in_queue, queue, inbox, sent, reader, processor, clients>>
  BY DEF Write, table, data, queues
<1>2. /\ Writing(c) /\ ~Writing(c)'
      /\ delivered'[c] = Append(delivered[c], wfront[c])
      /\ \A q \in Conns : q # c => /\ delivered'[q] = delivered[q] /\ wpc'[q] = wpc[q]
                               /\ wfront'[q] = wfront[q]
  BY <1>t DEF Write, WriteAt, WriteGoto, Writing
<1>3. wfront[c] \in Messages /\ delivered[c] \in Seq(Messages)
  BY <1>s, <1>t, <1>2 DEF ShapeInv, HandsFull, Writing
<1>4. LineInv'
  BY <1>1 DEF LineInv
<1>5. ASSUME NEW p \in Conns, NEW q \in Conns PROVE PathAfter(p, q)'
  <2>1. /\ Waiting(p, q)' \subseteq Waiting(p, q)
        /\ Offered(p, q)' \subseteq Offered(p, q) /\ Queued(p)' \subseteq Queued(p)
        /\ Unread(p)' \subseteq Unread(p) /\ Held(p)' \subseteq Held(p)
    BY <1>1, ThreadsCalm, CalmStages
  <2>0. sent'[p] \in Nat /\ sent[p] <= sent'[p] /\ sent'[p] = sent[p]
    BY <1>1, SentNat
  <2>2. InHand(p, q)' \subseteq InHand(p, q)
    BY <1>2 DEF InHand, Writing
  <2>3. CASE Written(p, q)' \subseteq Written(p, q)
    BY <1>s, <2>0, <2>1, <2>2, <2>3, PathShrinkStep
  <2>4. CASE ~(Written(p, q)' \subseteq Written(p, q))
    <3>1. q = c
      BY <1>2, <2>4 DEF Written
    <3>2. wfront[c].src = p
      <4>1. wfront[c].src # p => Numbers(p, Append(delivered[c], wfront[c])) = Numbers(p, delivered[c])
        BY <1>3, AppendNumbers
      <4>2. Written(p, c)' = Numbers(p, Append(delivered[c], wfront[c]))
        BY <1>2 DEF Written
      <4> QED  BY <2>4, <3>1, <4>1, <4>2 DEF Written
    <3>3. PICK n : n = wfront[c].n
      OBVIOUS
    <3>4. InHand(p, q) = {n} /\ InHand(p, q)' = {}
      BY <1>2, <3>1, <3>2, <3>3 DEF InHand
    <3>5. Written(p, q)' \subseteq Written(p, q) \cup {n}
      BY <1>2, <1>3, <3>1, <3>3, AppendNumbers DEF Written
    <3>8. \A s \in Stages : s # 1 => Path(p, q)'[s] \subseteq Path(p, q)[s]
      BY <2>1, <2>2, StageNumbers, PathOf, PathOfPrime
    <3>9. Path(p, q)'[1] \subseteq Path(p, q)[1] \cup {n}
      BY <3>5, PathOf, PathOfPrime
    <3>10. n \in Path(p, q)[1 + 1]
      BY <3>4, PathOf
    <3>11. \A m \in Path(p, q)'[1 + 1] : n < m
      BY <3>4, PathOfPrime
    <3>12. 1 \in 1 .. 6
      OBVIOUS
    <3> QED  BY <1>s, <2>0, <3>8, <3>9, <3>10, <3>11, <3>12, PathMoveStep
  <2> QED  BY <2>3, <2>4
<1> QED  BY <1>4, <1>5 DEF Sequel, PathInv, PathAfter

LEMMA OrderStep ==
  ASSUME IInv, LockInv, PathInv, LineInv, FromInv, [Next]_vars
  PROVE  PathInv' /\ LineInv'
<1>1. Sequel
  BY NextCalm, CalmOrder, SendOrder, ReadOrder, RPushOrder, PPopOrder, PSendOrder, WPopOrder,
     WriteOrder
<1> QED  BY <1>1 DEF Sequel

LEMMA RelayStep ==
  IInv /\ LockInv /\ DropInv /\ RelayInv /\ [Next]_vars => RelayInv'
BY OrderStep, FromStep, KnownStep DEF RelayInv, DropInv

LEMMA RelayInitially == Init => RelayInv
<1> SUFFICES ASSUME Init PROVE RelayInv
  OBVIOUS
<1>1. \A c \in Conns :
        /\ delivered[c] = <<>> /\ in_queue[c] = <<>> /\ inbox[c] = <<>> /\ fd[c] = 0
        /\ wpc[c] = "unborn" /\ rpc[c] = "unborn" /\ sock[c] = "none" /\ sent[c] = 0
  BY DEF Init
<1>2. queue = <<>> /\ ppc = "unborn"
  BY DEF Init
<1>3. DOMAIN <<>> = {}
  OBVIOUS
<1>4. LineInv
  BY <1>1, <1>2, <1>3 DEF LineInv, Rising, Climbing
<1>5. FromInv
  BY <1>1, <1>2, <1>3 DEF FromInv, Routing, Writing
<1>6. KnownInv
  BY <1>1 DEF KnownInv
<1>7. ASSUME NEW p \in Conns, NEW q \in Conns
      PROVE  \A s \in Stages : Path(p, q)[s] = {}
  <2>1. /\ Written(p, q) = {} /\ InHand(p, q) = {} /\ Waiting(p, q) = {} /\ Offered(p, q) = {}
        /\ Queued(p) = {} /\ Held(p) = {} /\ Unread(p) = {}
    BY <1>1, <1>2, <1>3
    DEF Written, InHand, Waiting, Offered, Queued, Held, Unread, Numbers, Writing, Pending
  <2> QED  BY <2>1, StageNumbers, PathOf
<1>8. PathInv
  BY <1>7 DEF PathInv, Ordered, Bounded
<1> QED  BY <1>4, <1>5, <1>6, <1>8 DEF RelayInv
-----------------------------------------------------------------------------
(* The hub implements Relay *)

(* Writing a message to c hands it over: it was sent, everything c got of  *)
(* its sender so far was sent before it, and it is for c.                  *)
LEMMA WriteHands ==
  ASSUME IsFiniteSet(Conns), IInv, RelayInv, NEW c \in Conns, Write(c)
  PROVE  HubRelay!Next
<1>1. /\ delivered' = [delivered EXCEPT ![c] = Append(@, wfront[c])]
      /\ UNCHANGED <<fd, sent>> /\ Writing(c)
  BY DEF Write, WriteAt, Writing, data, structs
<1>2. PICK m \in Messages : m = wfront[c]
  BY <1>1 DEF IInv, ShapeInv, HandsFull, Writing
<1>3. Reaching(m, c) /\ ~Quits(m)
  BY <1>1, <1>2 DEF RelayInv, FromInv
<1>4. m.src \in Conns /\ m.type = "MESSAGE" /\ m.from = fd[m.src] /\ fd[m.src] # 0 /\ fd[c] # 0
      /\ m.to \in {0, fd[c]}
  BY <1>3, NoneIsNone DEF Reaching, Signed, Messages
<1>5. m = [type |-> "MESSAGE", src |-> m.src, n |-> m.n, from |-> fd[m.src], to |-> m.to]
  BY <1>4 DEF Messages
<1>6. m.n \in InHand(m.src, c)
  BY <1>1, <1>2 DEF InHand
<1>7. m.n \in 1 .. sent[m.src] /\ \A n \in Written(m.src, c) : n < m.n
  BY <1>4, <1>6, StagesInOrder DEF RelayInv
<1>8. HubRelay!HandedFrom(m.src, c) = Written(m.src, c)
  BY DEF HubRelay!HandedFrom, Written, Numbers
<1>9. m.n \in 1 .. MaxSend /\ m.n <= sent[m.src]
  <2>1. sent[m.src] \in 0 .. MaxSend /\ MaxSend \in Nat
    BY <1>4, ListenerAssumption DEF IInv, ShapeInv, TypeOK, NetOK
  <2> QED  BY <1>7, <2>1
<1>10. m.to \in 0 .. FirstFd + Cardinality(Conns)
  <2>1. Cardinality(Conns) \in Nat /\ FirstFd \in Nat
    BY FS_CardinalityType, ListenerAssumption
  <2>2. fd[c] \in FirstFd .. FirstFd + Cardinality(Conns)
    BY <1>4 DEF RelayInv, KnownInv
  <2> QED  BY <1>4, <2>1, <2>2
<1>11. delivered' = [delivered EXCEPT
         ![c] = Append(@, [type |-> "MESSAGE", src |-> m.src, n |-> m.n, from |-> fd[m.src], to |-> m.to])]
  BY <1>1, <1>2, <1>5
<1>12. HubRelay!Hand(m.src, m.n, m.to, c)
  BY <1>1, <1>4, <1>7, <1>8, <1>9, <1>11 DEF HubRelay!Hand
<1> QED  BY <1>4, <1>9, <1>10, <1>12 DEF HubRelay!Next

LEMMA AcceptAdmits ==
  ASSUME IsFiniteSet(Conns), IInv, KnownInv, Accept
  PROVE  HubRelay!Next \/ UNCHANGED HubRelay!vars
<1>1. UNCHANGED <<sent, delivered>>
  BY DEF Accept
<1>2. CASE UNCHANGED fd
  BY <1>1, <1>2 DEF HubRelay!vars
<1>3. ASSUME NEW c \in Conns, NEW f \in FirstFd .. FirstFd + Cardinality(Conns),
             fd[c] = 0, f # 0, fd' = [fd EXCEPT ![c] = f]
      PROVE  HubRelay!Next
  <2>1. f \in 0 .. FirstFd + Cardinality(Conns)
    BY FS_CardinalityType, ListenerAssumption
  <2>2. HubRelay!Admit(c, f)
    BY <1>1, <1>3 DEF HubRelay!Admit
  <2> QED  BY <2>1, <2>2 DEF HubRelay!Next
<1> QED  BY <1>2, <1>3, AcceptGives DEF IInv

LEMMA SendSends ==
  ASSUME NEW c \in Conns, NEW to \in Targets, Send(c, to) PROVE HubRelay!Next
<1>1. sent[c] < MaxSend /\ sent' = [sent EXCEPT ![c] = @ + 1] /\ UNCHANGED <<fd, delivered>>
  BY DEF Send, Program
<1>2. HubRelay!Send(c)
  BY <1>1 DEF HubRelay!Send
<1> QED  BY <1>2 DEF HubRelay!Next

(* The other steps are stutters of Relay.                                  *)
LEMMA OthersStutter ==
  ASSUME IInv, LockInv, [Next]_vars, ~Accept,
         ~\E c \in Conns : Write(c) \/ \E to \in Targets : Send(c, to)
  PROVE  UNCHANGED HubRelay!vars
<1>1. UNCHANGED fd
  BY OnlyAcceptNumbers
<1>2. UNCHANGED <<sent, delivered>>
  BY NextCalm
  DEF Calm, PushQuit, PushQuitToProcessor, PPop, PSend, Read, RPush, WPop, net
<1> QED  BY <1>1, <1>2 DEF HubRelay!vars

(* Whatever its threads do, however often servers and clients come and go  *)
(* and whoever of them fails: the hub writes to a peer only what another   *)
(* peer sent to it or to everyone, signed with the number of the sender    *)
(* and in the order of sending.                                            *)
THEOREM ListenerImplementsRelay ==
  ASSUME IsFiniteSet(Conns) PROVE Spec => ImplementsRelay
<1>1. Init => HubRelay!Init
  BY DEF Init, HubRelay!Init
<1>2. IInv /\ LockInv /\ RelayInv /\ [Next]_vars => [HubRelay!Next]_(HubRelay!vars)
  <2> SUFFICES ASSUME IInv, LockInv, RelayInv, [Next]_vars
               PROVE  HubRelay!Next \/ UNCHANGED HubRelay!vars
    OBVIOUS
  <2> QED  BY WriteHands, AcceptAdmits, SendSends, OthersStutter DEF RelayInv
<1>3. IInv => MainOK
  BY DEF IInv, ShapeInv, TypeOK
<1> QED
  BY <1>1, <1>2, <1>3, InitIInv, IInvStep, LockInitially, LockStep, DropInitially, DropStep,
     RelayInitially, RelayStep, PTL
  DEF Spec, ImplementsRelay, HubRelay!Spec

=============================================================================
