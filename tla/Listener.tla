------------------------------- MODULE Listener -------------------------------
(***************************************************************************)
(* The hub (btserver.c, listener.c, msg.c): the main thread that accepts   *)
(* and reaps clients, the message processor that routes, the read and the  *)
(* write thread of every client, and the SIGINT handler, which runs on the *)
(* main thread and suspends it.  Queues are used as the atomic bounded     *)
(* FIFOs that Queue.tla implements.                                        *)
(*                                                                         *)
(* A connection stands for the ClientListener made for it.  A step ends    *)
(* where another thread, or the handler, can see or change what it used.   *)
(***************************************************************************)
EXTENDS Integers, Sequences, FiniteSets

CONSTANTS
  LISTENER_MAX_SERVERS, LISTENER_MAX_CLIENTS, MAX_SIZE_QUEUE,
  FirstFd,     (* lowest descriptor number a client can get                *)
  NONE,        (* a free slot (NULL, or -1 in pf), no thread, no message   *)
  Conns,       (* the connections that may be made                         *)
  Senders,     (* connections whose peer sends                             *)
  MaxSend,     (* texts each of them sends at most                         *)
  Targets,     (* the "to" members the peers use                           *)
  Available,   (* servers whose socket, bind and listen succeed            *)
  Fallible,    (* servers whose socket may fail later                      *)
  Quitters,    (* connections whose peer may end them                      *)
  Stallers,    (* connections whose peer may stop reading                  *)
  MaySignal    (* whether SIGINT may arrive (once)                         *)

ASSUME ListenerAssumption ==
  /\ LISTENER_MAX_SERVERS \in Nat \ {0}
  /\ LISTENER_MAX_CLIENTS \in Nat \ {0}
  /\ MAX_SIZE_QUEUE \in Nat \ {0}
  /\ FirstFd \in Nat \ {0}
  /\ NONE \notin Conns \cup {"tcp", "bt", "main", "proc"}
  /\ MaxSend \in Nat /\ Targets \subseteq Nat
  /\ MaySignal \in BOOLEAN

Servers == {"tcp", "bt"}
PfIndex == 0 .. LISTENER_MAX_SERVERS - 1
Slots == 0 .. LISTENER_MAX_CLIENTS - 1
Texts == [n : Nat, to : Nat]

(* struct _Message; src and n only tell messages apart.                    *)
Message(c, f, text) ==
  [type |-> "MESSAGE", src |-> c, n |-> text.n, from |-> f, to |-> text.to]
QuitMsg ==  [type |-> "SIG_QUIT", src |-> NONE, n |-> 0, from |-> -1, to |-> -1]
HalfQuit == [type |-> "MESSAGE", src |-> NONE, n |-> 0, from |-> -1, to |-> -1]
Messages ==
  [type : {"MESSAGE", "SIG_QUIT"}, src : Conns \cup {NONE}, n : Nat, from : Int, to : Int]

VARIABLES
  running, pf, npfs, clients, queue,     (* struct _Listener               *)
  clients_lock,                          (* its holder: main, proc or NONE *)
  obj, fd, fd_server, in_queue,          (* struct _ClientListener: obj is *)
  running_read, running_write,           (*  unborn, live, reaped, closed  *)
  in_lock,                               (* whose in_queue main has locked *)
  quit,                                  (* the static of msg_get_quit_msg *)
  mpc, i, j, size, revents, client, caller,          (* main thread        *)
  hpc,                                               (* SIGINT handler     *)
  ppc, pi, front,                                    (* message processor  *)
  rpc, msgObj,                                       (* read threads       *)
  wpc, wfront,                                       (* write threads      *)
  crashed,                               (* the process died of a fault    *)
  sock, peer, stalled, inbox, sent,      (* connections, seen from outside *)
  down,                                  (* server sockets shut or failed  *)
  delivered                              (* what each peer was written     *)

table == <<running, pf, npfs, clients>>
structs == <<obj, fd, fd_server>>
flags == <<running_read, running_write>>
queues == <<queue, in_queue>>
locks == <<clients_lock, in_lock>>
main == <<mpc, i, j, size, revents, client, caller>>
processor == <<ppc, pi, front>>
reader == <<rpc, msgObj>>
writer == <<wpc, wfront>>
data == <<structs, flags, queues, quit>>
threads == <<hpc, processor, reader, writer, crashed>>
net == <<sock, peer, stalled, inbox, sent, down, delivered>>
vars == <<table, data, locks, main, threads, net>>

Init ==
  /\ running = FALSE /\ npfs = 0
  /\ pf = [k \in PfIndex |-> NONE]
  /\ clients = [k \in Slots |-> NONE]
  /\ queue = <<>> /\ clients_lock = NONE /\ in_lock = NONE
  /\ obj = [c \in Conns |-> "unborn"]
  /\ fd = [c \in Conns |-> 0]
  /\ fd_server = [c \in Conns |-> NONE]
  /\ in_queue = [c \in Conns |-> <<>>]
  /\ running_read = [c \in Conns |-> FALSE]
  /\ running_write = [c \in Conns |-> FALSE]
  /\ quit = "null"
  /\ mpc = "listener_init" /\ i = 0 /\ j = 0 /\ size = 0 /\ client = NONE
  /\ revents = [k \in PfIndex |-> "none"] /\ caller = "reap"
  /\ hpc = "idle"
  /\ ppc = "unborn" /\ pi = 0 /\ front = NONE
  /\ rpc = [c \in Conns |-> "unborn"] /\ msgObj = [c \in Conns |-> NONE]
  /\ wpc = [c \in Conns |-> "unborn"] /\ wfront = [c \in Conns |-> NONE]
  /\ crashed = FALSE
  /\ sock = [c \in Conns |-> "none"]
  /\ peer = [c \in Conns |-> "up"]
  /\ stalled = [c \in Conns |-> FALSE]
  /\ inbox = [c \in Conns |-> <<>>]
  /\ sent = [c \in Conns |-> 0]
  /\ down = {}
  /\ delivered = [c \in Conns |-> <<>>]

-----------------------------------------------------------------------------
(* Helpers *)

Alive == ~crashed /\ mpc # "exit"          (* the process still exists     *)
MainRuns == Alive /\ hpc \in {"idle", "done"}

At(label) == MainRuns /\ mpc = label
Goto(label) == mpc' = label

(* Operators ending in a word after "Faulty" are slips that the runs must   *)
(* notice; each stands before the operator it could replace.               *)
HasRoom(q) == Len(q) < MAX_SIZE_QUEUE

PutFaultyAtHead(q, m) == IF HasRoom(q) THEN <<m>> \o q ELSE q
Put(q, m) == IF HasRoom(q) THEN Append(q, m) ELSE q

ClientsUnlockedFaulty == TRUE
ClientsUnlocked == clients_lock = NONE

UnlockClients == clients_lock' = NONE

NoServerLeftFaulty(n) == n < 0
NoServerLeft(n) == n = 0

(* The test of the processor's loop over the clients.                      *)
Addressed(m, c) == m.to = fd[c] \/ m.to = 0

(* The test of the reaper.                                                 *)
BrokenFaultyAlways(c) == TRUE
BrokenFaultyBoth(c) == ~running_read[c] /\ ~running_write[c]
Broken(c) == ~(running_read[c] /\ running_write[c])

OfServerFaultyNone(c, s) == FALSE
OfServer(c, s) == fd_server[c] = s

(* clients[j] = NULL.                                                      *)
ClearedSlot == [clients EXCEPT ![j] = NONE]

(* pthread_join of the threads of a client.                                *)
ReadJoinedFaulty(c) == TRUE
ReadJoined(c) == rpc[c] = "exit"
WriteJoined(c) == wpc[c] = "exit"

Shut(s) == s \in down
Backlog(s) == {c \in Conns : sock[c] = "backlog" /\ fd_server[c] = s}
OpenFds == {fd[c] : c \in {d \in Conns : sock[d] = "open"}}
LowestFree(f) ==
  f >= FirstFd /\ f \notin OpenFds /\ \A g \in FirstFd .. f - 1 : g \in OpenFds

(* The loops over sl->clients look at one slot per step.                   *)
Current == clients[j]
NextSlot == j' = j + 1

-----------------------------------------------------------------------------
(* main: btserver.c, with tcpserver_init, bt_server_init and listener_add  *)

ListenerInit ==
  /\ At("listener_init") /\ Goto("tcp")
  /\ UNCHANGED <<table, data, locks, i, j, size, revents, client, caller, threads, net>>

(* listener_add: the first free entry of pf, if there is one.              *)
ListenerAdd(s) ==
  IF \E k \in PfIndex : pf[k] = NONE
  THEN /\ \E k \in PfIndex :
            /\ pf[k] = NONE /\ \A h \in 0 .. k - 1 : pf[h] # NONE
            /\ pf' = [pf EXCEPT ![k] = s]
       /\ npfs' = npfs + 1
  ELSE UNCHANGED <<pf, npfs>>

ServerInit(s, next) ==
  /\ At(s) /\ Goto(next)
  /\ IF s \in Available THEN ListenerAdd(s) ELSE UNCHANGED <<pf, npfs>>
  /\ UNCHANGED <<running, clients, data, locks, i, j, size, revents, client, caller, threads, net>>

tcpserver_init == ServerInit("tcp", "bt")
bt_server_init == ServerInit("bt", "listener_run")

(* listener_run up to its loop.                                            *)
Start ==
  /\ At("listener_run") /\ Goto("poll")
  /\ running' = TRUE
  /\ ppc' = "loop"
  /\ UNCHANGED <<pf, npfs, clients, data, locks, i, j, size, revents, client, caller, hpc, pi, front, reader, writer, crashed, net>>

-----------------------------------------------------------------------------
(* main: the loop of listener_run                                          *)

(* poll looks at the first npfs entries only; it returns after 3 seconds   *)
(* whatever happens.  An entry without a descriptor has no events.         *)
Poll ==
  /\ At("poll") /\ Goto("scan")
  /\ revents' = [k \in PfIndex |->
       IF k >= npfs \/ pf[k] = NONE THEN "none"
       ELSE IF Shut(pf[k]) THEN "other"
       ELSE IF Backlog(pf[k]) # {} THEN "POLLIN" ELSE "none"]
  /\ size' = npfs /\ i' = 0
  /\ UNCHANGED <<table, data, locks, j, client, caller, threads, net>>

NoEvent ==
  /\ At("scan") /\ i < size /\ revents[i] = "none"
  /\ i' = i + 1
  /\ UNCHANGED <<table, data, locks, mpc, j, size, revents, client, caller, threads, net>>

ServerDown ==
  /\ At("scan") /\ i < size /\ revents[i] = "other"
  /\ Goto("close_lock")
  /\ UNCHANGED <<table, data, locks, i, j, size, revents, client, caller, threads, net>>

(* accept: the new descriptor is the lowest free number; a socket shut     *)
(* since the poll fails the call, an emptied backlog blocks it.            *)
Accept ==
  /\ At("scan") /\ i < size /\ revents[i] = "POLLIN"
  /\ Goto("install_lock")
  /\ \/ /\ Shut(pf[i])
        /\ client' = NONE
        /\ UNCHANGED <<fd, sock>>
     \/ \E c \in Backlog(pf[i]), f \in FirstFd .. FirstFd + Cardinality(Conns) :
          /\ ~Shut(pf[i]) /\ LowestFree(f)
          /\ client' = c
          /\ fd' = [fd EXCEPT ![c] = f]
          /\ sock' = [sock EXCEPT ![c] = "open"]
  /\ UNCHANGED <<table, obj, fd_server, flags, queues, locks, quit, i, j, size, revents, caller, threads, peer, stalled, inbox, sent, down, delivered>>

InstallLock ==
  /\ At("install_lock") /\ Goto("install")
  /\ ClientsUnlocked /\ clients_lock' = "main"
  /\ UNCHANGED <<table, data, in_lock, i, j, size, revents, client, caller, threads, net>>

(* _client_init in the first free slot; without one the descriptor stays   *)
(* open and nobody serves it.                                              *)
Install ==
  /\ At("install") /\ Goto("scan")
  /\ IF client # NONE /\ \E k \in Slots : clients[k] = NONE
     THEN /\ \E k \in Slots :
               /\ clients[k] = NONE /\ \A h \in 0 .. k - 1 : clients[h] # NONE
               /\ clients' = [clients EXCEPT ![k] = client]
          /\ obj' = [obj EXCEPT ![client] = "live"]
          /\ running_read' = [running_read EXCEPT ![client] = TRUE]
          /\ running_write' = [running_write EXCEPT ![client] = TRUE]
          /\ rpc' = [rpc EXCEPT ![client] = "poll"]
          /\ wpc' = [wpc EXCEPT ![client] = "loop"]
     ELSE UNCHANGED <<clients, obj, flags, rpc, wpc>>
  /\ UnlockClients
  /\ client' = NONE /\ i' = i + 1
  /\ UNCHANGED <<running, pf, npfs, fd, fd_server, queues, in_lock, quit, j, size, revents, caller, hpc, processor, msgObj, wfront, crashed, net>>

ScanDone ==
  /\ At("scan") /\ i >= size /\ Goto("reap")
  /\ running' = (running /\ ~NoServerLeft(size))
  /\ j' = 0
  /\ UNCHANGED <<pf, npfs, clients, data, locks, i, size, revents, client, caller, threads, net>>

(* The reaper takes no lock.                                               *)
ReapNext ==
  /\ At("reap") /\ j < LISTENER_MAX_CLIENTS
  /\ (Current # NONE => ~Broken(Current))
  /\ NextSlot
  /\ UNCHANGED <<table, data, locks, mpc, i, size, revents, client, caller, threads, net>>

ReapClient ==
  /\ At("reap") /\ j < LISTENER_MAX_CLIENTS
  /\ Current # NONE /\ Broken(Current)
  /\ Goto("stop") /\ caller' = "reap"
  /\ UNCHANGED <<table, data, locks, i, j, size, revents, client, threads, net>>

ReapDone ==
  /\ At("reap") /\ j = LISTENER_MAX_CLIENTS
  /\ Goto(IF running THEN "poll" ELSE "exit")
  /\ UNCHANGED <<table, data, locks, i, j, size, revents, client, caller, threads, net>>

-----------------------------------------------------------------------------
(* main: _close_server of pf[i], under clients_lock                        *)

CloseLock ==
  /\ At("close_lock") /\ Goto("close")
  /\ ClientsUnlocked /\ clients_lock' = "main"
  /\ j' = 0
  /\ UNCHANGED <<table, data, in_lock, i, size, revents, client, caller, threads, net>>

CloseNext ==
  /\ At("close") /\ j < LISTENER_MAX_CLIENTS
  /\ (Current # NONE => ~OfServer(Current, pf[i]))
  /\ NextSlot
  /\ UNCHANGED <<table, data, locks, mpc, i, size, revents, client, caller, threads, net>>

CloseClient ==
  /\ At("close") /\ j < LISTENER_MAX_CLIENTS
  /\ Current # NONE /\ OfServer(Current, pf[i])
  /\ Goto("stop") /\ caller' = "close"
  /\ UNCHANGED <<table, data, locks, i, j, size, revents, client, threads, net>>

(* The entry of pf is emptied in place: the entries behind it stay put.    *)
(* No close callback is ever registered.                                   *)
CloseDone ==
  /\ At("close") /\ j = LISTENER_MAX_CLIENTS /\ Goto("scan")
  /\ pf' = [pf EXCEPT ![i] = NONE] /\ npfs' = npfs - 1
  /\ UnlockClients
  /\ i' = i + 1
  /\ UNCHANGED <<running, clients, data, in_lock, j, size, revents, client, caller, threads, net>>

-----------------------------------------------------------------------------
(* main: _client_stop of Current, then free and the emptied slot           *)

(* The flags, and the descriptor, whose number is free from here on.       *)
StopClient ==
  /\ At("stop") /\ Goto("get_quit_msg")
  /\ running_read' = [running_read EXCEPT ![Current] = FALSE]
  /\ running_write' = [running_write EXCEPT ![Current] = FALSE]
  /\ sock' = [sock EXCEPT ![Current] = "closed"]
  /\ UNCHANGED <<table, structs, queues, quit, locks, i, j, size, revents, client, caller,
                 threads, peer, stalled, inbox, sent, down, delivered>>

(* msg_get_quit_msg: the first call stores a message whose type is still   *)
(* MESSAGE, then sets the type.                                            *)
GetQuitMsg ==
  /\ At("get_quit_msg")
  /\ quit' = CASE quit = "null" -> "half" [] quit = "half" -> "ready" [] OTHER -> quit
  /\ Goto(IF quit = "ready" THEN "push_lock" ELSE "get_quit_msg")
  /\ UNCHANGED <<table, structs, flags, queues, locks, i, j, size, revents, client, caller,
                 threads, net>>

PushQuitLock ==
  /\ At("push_lock") /\ Goto("push")
  /\ in_lock' = Current
  /\ UNCHANGED <<table, data, clients_lock, i, j, size, revents, client, caller, threads, net>>

(* while (!queue_push(...)) sleep(3)                                       *)
PushQuit ==
  /\ At("push")
  /\ Goto(IF HasRoom(in_queue[Current]) THEN "join_read" ELSE "push_lock")
  /\ in_queue' = [in_queue EXCEPT ![Current] = Put(@, QuitMsg)]
  /\ in_lock' = NONE
  /\ UNCHANGED <<table, structs, flags, queue, quit, clients_lock, i, j, size, revents,
                 client, caller, threads, net>>

JoinRead ==
  /\ At("join_read") /\ Goto("join_write")
  /\ ReadJoined(Current)
  /\ UNCHANGED <<table, data, locks, i, j, size, revents, client, caller, threads, net>>

JoinWrite ==
  /\ At("join_write") /\ Goto("free")
  /\ WriteJoined(Current)
  /\ UNCHANGED <<table, data, locks, i, j, size, revents, client, caller, threads, net>>

Free ==
  /\ At("free") /\ Goto("clear")
  /\ obj' = [obj EXCEPT ![Current] = IF caller = "close" THEN "closed" ELSE "reaped"]
  /\ UNCHANGED <<table, fd, fd_server, flags, queues, quit, locks, i, j, size, revents,
                 client, caller, threads, net>>

ClearSlot ==
  /\ At("clear") /\ Goto(caller)
  /\ clients' = ClearedSlot
  /\ NextSlot
  /\ UNCHANGED <<running, pf, npfs, data, locks, i, size, revents, client, caller, threads, net>>

Main ==
  \/ ListenerInit \/ tcpserver_init \/ bt_server_init \/ Start
  \/ Poll \/ NoEvent \/ ServerDown \/ Accept \/ InstallLock \/ Install \/ ScanDone
  \/ ReapNext \/ ReapClient \/ ReapDone
  \/ CloseLock \/ CloseNext \/ CloseClient \/ CloseDone
  \/ StopClient \/ GetQuitMsg \/ PushQuitLock \/ PushQuit
  \/ JoinRead \/ JoinWrite \/ Free \/ ClearSlot

-----------------------------------------------------------------------------
(* _sig_handler(SIGINT) and listener_close: main stands still meanwhile    *)

HandlerAt(label) == Alive /\ hpc = label
HandlerGoto(label) == hpc' = label

Sigint ==
  /\ MaySignal /\ HandlerAt("idle") /\ HandlerGoto("shutdown")
  /\ UNCHANGED <<table, data, locks, main, processor, reader, writer, crashed, net>>

(* shutdown of the first npfs entries of pf.                               *)
CloseServers ==
  /\ HandlerAt("shutdown") /\ HandlerGoto("push")
  /\ down' = down \cup ({pf[k] : k \in {h \in PfIndex : h < npfs}} \ {NONE})
  /\ UNCHANGED <<table, data, locks, main, processor, reader, writer, crashed,
                 sock, peer, stalled, inbox, sent, delivered>>

(* The answer of queue_push is ignored.  Before listener_init there is no  *)
(* queue: assert(q != NULL) ends the process.                              *)
PushQuitToProcessor ==
  /\ HandlerAt("push") /\ mpc # "listener_init" /\ HandlerGoto("join")
  /\ queue' = Put(queue, IF quit = "half" THEN HalfQuit ELSE QuitMsg)
  /\ quit' = IF quit = "null" THEN "ready" ELSE quit
  /\ UNCHANGED <<table, structs, flags, in_queue, locks, main, processor, reader, writer,
                 crashed, net>>

AssertionFails ==
  /\ HandlerAt("push") /\ mpc = "listener_init"
  /\ crashed' = TRUE
  /\ UNCHANGED <<table, data, locks, main, hpc, processor, reader, writer, net>>

JoinProcessor ==
  /\ HandlerAt("join") /\ ppc = "exit" /\ HandlerGoto("done")
  /\ UNCHANGED <<table, data, locks, main, processor, reader, writer, crashed, net>>

(* pthread_join of a thread that was never created.                        *)
JoinNoThread ==
  /\ HandlerAt("join") /\ ppc = "unborn"
  /\ crashed' = TRUE
  /\ UNCHANGED <<table, data, locks, main, hpc, processor, reader, writer, net>>

HandlerRuns ==
  CloseServers \/ PushQuitToProcessor \/ AssertionFails \/ JoinProcessor \/ JoinNoThread
Handler == Sigint \/ HandlerRuns

-----------------------------------------------------------------------------
(* __msg_processor                                                         *)

ProcAt(label) == Alive /\ ppc = label
ProcGoto(label) == ppc' = label
QuitsFaultyInverted(m) == m.type # "SIG_QUIT"
Quits(m) == m.type = "SIG_QUIT"

PLoop ==
  /\ ProcAt("loop") /\ ProcGoto(IF running THEN "pop" ELSE "exit")
  /\ UNCHANGED <<table, data, locks, main, hpc, pi, front, reader, writer, crashed, net>>

(* queue_pop may answer NULL.                                              *)
PPop ==
  /\ ProcAt("pop")
  /\ \/ /\ queue = <<>>
        /\ ProcGoto("loop")
        /\ UNCHANGED <<queue, front>>
     \/ /\ queue # <<>>
        /\ queue' = Tail(queue)
        /\ IF Quits(Head(queue))
           THEN ProcGoto("exit") /\ UNCHANGED front
           ELSE ProcGoto("lock") /\ front' = Head(queue)
  /\ UNCHANGED <<table, structs, flags, in_queue, quit, locks, main, hpc, pi, reader, writer, crashed, net>>

PLock ==
  /\ ProcAt("lock") /\ ProcGoto("scan")
  /\ ClientsUnlocked /\ clients_lock' = "proc"
  /\ pi' = 0
  /\ UNCHANGED <<table, data, in_lock, main, hpc, front, reader, writer, crashed, net>>

(* clients[i] is read three times: for the test against NULL, for fd, and  *)
(* for in_queue.                                                           *)
PScan ==
  /\ ProcAt("scan") /\ pi < LISTENER_MAX_CLIENTS
  /\ IF clients[pi] = NONE
     THEN pi' = pi + 1 /\ UNCHANGED ppc
     ELSE ProcGoto("match") /\ UNCHANGED pi
  /\ UNCHANGED <<table, data, locks, main, hpc, front, reader, writer, crashed, net>>

Freed(c) == obj[c] \in {"reaped", "closed"}

(* A slot emptied since, or a struct freed since: a fault, or whatever the *)
(* freed memory holds.                                                     *)
PFault ==
  /\ ProcAt(ppc) /\ ppc \in {"match", "send"}
  /\ clients[pi] # NONE => Freed(clients[pi])
  /\ crashed' = TRUE
  /\ UNCHANGED <<table, data, locks, main, hpc, processor, reader, writer, net>>

PMatch ==
  /\ ProcAt("match") /\ clients[pi] # NONE
  /\ LET c == clients[pi] IN
       \/ /\ IF Freed(c) THEN TRUE ELSE Addressed(front, c)
          /\ ProcGoto("send") /\ UNCHANGED pi
       \/ /\ IF Freed(c) THEN front.to # 0 ELSE ~Addressed(front, c)
          /\ ProcGoto("scan") /\ pi' = pi + 1
  /\ UNCHANGED <<table, data, locks, main, hpc, front, reader, writer, crashed, net>>

(* A copy of front; a full queue loses it.                                 *)
PSend ==
  /\ ProcAt("send") /\ clients[pi] # NONE /\ in_lock # clients[pi]
  /\ IF Freed(clients[pi])
     THEN UNCHANGED in_queue
     ELSE in_queue' = [in_queue EXCEPT ![clients[pi]] = Put(@, front)]
  /\ ProcGoto("scan") /\ pi' = pi + 1
  /\ UNCHANGED <<table, structs, flags, queue, quit, locks, main, hpc, front, reader, writer, crashed, net>>

PDone ==
  /\ ProcAt("scan") /\ pi = LISTENER_MAX_CLIENTS /\ ProcGoto("loop")
  /\ UnlockClients /\ front' = NONE
  /\ UNCHANGED <<table, data, in_lock, main, hpc, pi, reader, writer, crashed, net>>

Processor == PLoop \/ PPop \/ PLock \/ PScan \/ PFault \/ PMatch \/ PSend \/ PDone

-----------------------------------------------------------------------------
(* _client_thread_read of client c                                         *)

ReadAt(c, label) == Alive /\ rpc[c] = label
ReadGoto(c, label) == rpc' = [rpc EXCEPT ![c] = label]

EndReading(c) ==
  /\ ReadGoto(c, "exit")
  /\ running_read' = [running_read EXCEPT ![c] = FALSE]

(* One round of the loop: the flag, then poll for at most 3 seconds.  Only *)
(* a bare POLLIN is read: what a peer sent before it hung up is lost.      *)
RPoll(c) ==
  /\ ReadAt(c, "poll")
  /\ \/ /\ ~running_read[c] \/ sock[c] = "closed" \/ peer[c] = "gone"
        /\ EndReading(c)
     \/ /\ running_read[c] /\ sock[c] = "open" /\ peer[c] # "gone"
        /\ inbox[c] # <<>> \/ peer[c] = "eof"
        /\ ReadGoto(c, "read") /\ UNCHANGED running_read
  /\ UNCHANGED <<table, structs, running_write, queues, quit, locks, main, hpc, processor, msgObj, writer, crashed, net>>

ReadFails(c) ==
  /\ ReadAt(c, "read")
  /\ sock[c] = "closed" \/ peer[c] = "gone" \/ inbox[c] = <<>>
  /\ EndReading(c)
  /\ UNCHANGED <<table, structs, running_write, queues, quit, locks, main, hpc, processor, msgObj, writer, crashed, net>>

(* One read takes any number of texts off the stream, or part of one;      *)
(* msg_from_json makes at most one message of them, the last, or none.     *)
Read(c) ==
  /\ ReadAt(c, "read") /\ sock[c] = "open"
  /\ \E k \in 1 .. Len(inbox[c]) :
       /\ inbox' = [inbox EXCEPT ![c] = SubSeq(@, k + 1, Len(@))]
       /\ \/ ReadGoto(c, "poll") /\ UNCHANGED msgObj
          \/ /\ ReadGoto(c, "push")
             /\ msgObj' = [msgObj EXCEPT ![c] = Message(c, fd[c], inbox[c][k])]
  /\ UNCHANGED <<table, data, locks, main, hpc, processor, writer, crashed,
                 sock, peer, stalled, sent, down, delivered>>

(* The answer of queue_push is ignored: a full queue loses the message.    *)
RPush(c) ==
  /\ ReadAt(c, "push") /\ ReadGoto(c, "poll")
  /\ queue' = Put(queue, msgObj[c])
  /\ msgObj' = [msgObj EXCEPT ![c] = NONE]
  /\ UNCHANGED <<table, structs, flags, in_queue, quit, locks, main, hpc, processor, writer, crashed, net>>

Reader(c) == RPoll(c) \/ ReadFails(c) \/ Read(c) \/ RPush(c)

-----------------------------------------------------------------------------
(* _client_thread_write of client c                                        *)

WriteAt(c, label) == Alive /\ wpc[c] = label
WriteGoto(c, label) == wpc' = [wpc EXCEPT ![c] = label]

EndWriting(c) ==
  /\ WriteGoto(c, "exit")
  /\ running_write' = [running_write EXCEPT ![c] = FALSE]
  /\ wfront' = [wfront EXCEPT ![c] = NONE]

WLoop(c) ==
  /\ WriteAt(c, "loop") /\ WriteGoto(c, IF running_write[c] THEN "pop" ELSE "exit")
  /\ UNCHANGED <<table, data, locks, main, hpc, processor, reader, wfront, crashed, net>>

WPop(c) ==
  /\ WriteAt(c, "pop") /\ in_lock # c
  /\ \/ /\ in_queue[c] = <<>>
        /\ WriteGoto(c, "loop")
        /\ UNCHANGED <<in_queue, running_write, wfront>>
     \/ /\ in_queue[c] # <<>>
        /\ in_queue' = [in_queue EXCEPT ![c] = Tail(@)]
        /\ IF Quits(Head(in_queue[c])) THEN EndWriting(c)
           ELSE /\ WriteGoto(c, "write")
                /\ wfront' = [wfront EXCEPT ![c] = Head(in_queue[c])]
                /\ UNCHANGED running_write
  /\ UNCHANGED <<table, structs, running_read, queue, quit, locks, main, hpc, processor, reader, crashed, net>>

(* EBADF, or EPIPE (SIGPIPE is caught).                                    *)
WriteFails(c) ==
  /\ WriteAt(c, "write") \/ WriteAt(c, "blocked")
  /\ peer[c] = "gone" \/ (wpc[c] = "write" /\ sock[c] = "closed")
  /\ EndWriting(c)
  /\ UNCHANGED <<table, structs, running_read, queues, quit, locks, main, hpc, processor, reader, crashed, net>>

(* A peer that does not read makes write block.                            *)
WriteBlocks(c) ==
  /\ WriteAt(c, "write") /\ sock[c] = "open" /\ peer[c] # "gone" /\ stalled[c]
  /\ WriteGoto(c, "blocked")
  /\ UNCHANGED <<table, data, locks, main, hpc, processor, reader, wfront, crashed, net>>

Write(c) ==
  /\ WriteAt(c, "write") /\ sock[c] = "open" /\ peer[c] # "gone" /\ ~stalled[c]
  /\ WriteGoto(c, "loop")
  /\ delivered' = [delivered EXCEPT ![c] = Append(@, wfront[c])]
  /\ wfront' = [wfront EXCEPT ![c] = NONE]
  /\ UNCHANGED <<table, data, locks, main, hpc, processor, reader, crashed,
                 sock, peer, stalled, inbox, sent, down>>

Writer(c) == WLoop(c) \/ WPop(c) \/ WriteFails(c) \/ WriteBlocks(c) \/ Write(c)

-----------------------------------------------------------------------------
(* What the peers, the network and the adapters do                         *)

Program == <<table, obj, fd, flags, queues, quit, locks, main, threads, delivered>>

(* A server accepts connections into its backlog once it listens.          *)
Connect(c, s) ==
  /\ Alive /\ sock[c] = "none"
  /\ ~Shut(s) /\ \E k \in PfIndex : pf[k] = s
  /\ sock' = [sock EXCEPT ![c] = "backlog"]
  /\ fd_server' = [fd_server EXCEPT ![c] = s]
  /\ UNCHANGED <<Program, peer, stalled, inbox, sent, down>>

(* A peer that gives up before it is accepted.                             *)
Withdraw(c) ==
  /\ Alive /\ sock[c] = "backlog" /\ c \in Quitters
  /\ sock' = [sock EXCEPT ![c] = "withdrawn"]
  /\ UNCHANGED <<Program, fd_server, peer, stalled, inbox, sent, down>>

Send(c, to) ==
  /\ Alive /\ sock[c] \in {"backlog", "open"} /\ peer[c] = "up"
  /\ c \in Senders /\ sent[c] < MaxSend
  /\ sent' = [sent EXCEPT ![c] = @ + 1]
  /\ inbox' = [inbox EXCEPT ![c] = Append(@, [n |-> sent[c] + 1, to |-> to])]
  /\ UNCHANGED <<Program, fd_server, sock, peer, stalled, down>>

(* The peer closes its end; or it vanishes, or what was sent to it after   *)
(* it closed is answered with a reset.                                     *)
PeerEof(c) ==
  /\ Alive /\ sock[c] = "open" /\ c \in Quitters /\ peer[c] = "up"
  /\ peer' = [peer EXCEPT ![c] = "eof"]
  /\ UNCHANGED <<Program, fd_server, sock, stalled, inbox, sent, down>>

PeerGone(c) ==
  /\ Alive /\ sock[c] = "open" /\ c \in Quitters /\ peer[c] # "gone"
  /\ peer' = [peer EXCEPT ![c] = "gone"]
  /\ UNCHANGED <<Program, fd_server, sock, stalled, inbox, sent, down>>

Stall(c) ==
  /\ Alive /\ sock[c] = "open" /\ c \in Stallers /\ ~stalled[c]
  /\ stalled' = [stalled EXCEPT ![c] = TRUE]
  /\ UNCHANGED <<Program, fd_server, sock, peer, inbox, sent, down>>

ServerFails(s) ==
  /\ Alive /\ s \in Fallible \ down /\ \E k \in PfIndex : pf[k] = s
  /\ down' = down \cup {s}
  /\ UNCHANGED <<Program, fd_server, sock, peer, stalled, inbox, sent>>

Environment ==
  \/ \E c \in Conns :
       \/ \E s \in Servers : Connect(c, s)
       \/ \E to \in Targets : Send(c, to)
       \/ Withdraw(c) \/ PeerEof(c) \/ PeerGone(c) \/ Stall(c)
  \/ \E s \in Servers : ServerFails(s)

-----------------------------------------------------------------------------
Next ==
  \/ Main \/ Handler \/ Processor \/ Environment
  \/ \E c \in Conns : Reader(c) \/ Writer(c)

Spec == Init /\ [][Next]_vars

(* Every thread of the program runs while it can, a mutex that is free     *)
(* again and again is got some day, and a handler that was called goes on. *)
(* Peers, adapters and the signal owe nothing.                             *)
Fairness ==
  /\ SF_vars(Main) /\ WF_vars(HandlerRuns) /\ SF_vars(Processor)
  /\ \A c \in Conns : WF_vars(Reader(c)) /\ SF_vars(Writer(c))

FairSpec == Spec /\ Fairness

-----------------------------------------------------------------------------
(* Properties *)

MainPlaces ==
  {"listener_init", "tcp", "bt", "listener_run", "poll", "scan", "install_lock", "install",
   "reap", "close_lock", "close", "stop", "get_quit_msg", "push_lock", "push",
   "join_read", "join_write", "free", "clear", "exit"}
MessageOrNone == Messages \cup {NONE}
Queues == {q \in Seq(Messages) : Len(q) <= MAX_SIZE_QUEUE}

TableOK ==
  /\ running \in BOOLEAN /\ npfs \in 0 .. LISTENER_MAX_SERVERS
  /\ pf \in [PfIndex -> Servers \cup {NONE}]
  /\ clients \in [Slots -> Conns \cup {NONE}]
  /\ queue \in Queues
  /\ clients_lock \in {"main", "proc", NONE}
StructsOK ==
  /\ obj \in [Conns -> {"unborn", "live", "reaped", "closed"}]
  /\ fd \in [Conns -> Nat] /\ fd_server \in [Conns -> Servers \cup {NONE}]
  /\ in_queue \in [Conns -> Queues] /\ in_lock \in Conns \cup {NONE}
  /\ running_read \in [Conns -> BOOLEAN] /\ running_write \in [Conns -> BOOLEAN]
  /\ quit \in {"null", "half", "ready"}
MainOK ==
  /\ mpc \in MainPlaces /\ caller \in {"reap", "close"}
  /\ i \in 0 .. LISTENER_MAX_SERVERS /\ size \in 0 .. LISTENER_MAX_SERVERS
  /\ j \in 0 .. LISTENER_MAX_CLIENTS
  /\ revents \in [PfIndex -> {"none", "POLLIN", "other"}]
  /\ client \in Conns \cup {NONE}
  /\ hpc \in {"idle", "shutdown", "push", "join", "done"}
ProcessorOK ==
  /\ ppc \in {"unborn", "loop", "pop", "lock", "scan", "match", "send", "exit"}
  /\ pi \in 0 .. LISTENER_MAX_CLIENTS /\ front \in MessageOrNone
  /\ crashed \in BOOLEAN
ReadersOK ==
  /\ rpc \in [Conns -> {"unborn", "poll", "read", "push", "exit"}]
  /\ msgObj \in [Conns -> MessageOrNone]
WritersOK ==
  /\ wpc \in [Conns -> {"unborn", "loop", "pop", "write", "blocked", "exit"}]
  /\ wfront \in [Conns -> MessageOrNone]
NetOK ==
  /\ sock \in [Conns -> {"none", "backlog", "withdrawn", "open", "closed"}]
  /\ peer \in [Conns -> {"up", "eof", "gone"}] /\ stalled \in [Conns -> BOOLEAN]
  /\ inbox \in [Conns -> Seq(Texts)] /\ sent \in [Conns -> 0 .. MaxSend]
  /\ down \subseteq Servers
  /\ delivered \in [Conns -> Seq(Messages)]

(* Every variable keeps its range; in particular no queue outgrows its     *)
(* ring, and npfs counts down from no more than the servers there are.     *)
TypeOK ==
  /\ TableOK /\ StructsOK /\ MainOK /\ ProcessorOK /\ ReadersOK /\ WritersOK /\ NetOK

ThreadsGone(c) == rpc[c] = "exit" /\ wpc[c] = "exit"
ThreadsRun(c) == rpc[c] \notin {"unborn", "exit"} \/ wpc[c] \notin {"unborn", "exit"}

(* A ClientListener is freed only when neither of its threads can touch it *)
(* again, whichever of reaper and server close frees it.                   *)
FreedThreadsGone == \A c \in Conns : Freed(c) => ThreadsGone(c)

(* The number that close gives back while a read or a write thread may     *)
(* still use it belongs to no other open connection.                       *)
DescriptorsDistinct ==
  \A c, d \in Conns : c # d /\ ThreadsRun(c) /\ sock[d] = "open" => fd[c] # fd[d]

(* A client is in one slot while it lives; a slot points to freed memory   *)
(* only at the instant before main empties it.                             *)
SlotsConsistent ==
  /\ \A k, h \in Slots : k # h /\ clients[k] # NONE => clients[k] # clients[h]
  /\ \A c \in Conns : obj[c] = "live" => \E k \in Slots : clients[k] = c
  /\ \A k \in Slots :
       clients[k] # NONE /\ obj[clients[k]] # "live" => mpc = "clear" /\ j = k

(* The life of a client: struct, number and slot serve one client at a     *)
(* time, and are given back only when its threads are gone.                *)
ClientLife == FreedThreadsGone /\ DescriptorsDistinct /\ SlotsConsistent

(* While the message processor holds clients_lock the table, and the       *)
(* structs it points to, change under it only where the reaper, which      *)
(* takes no lock, frees a client: never by an accept or a server close.    *)
OnlyReaperRaces ==
  [][clients_lock = "proc" /\ ~UNCHANGED <<clients, obj>>
       => mpc \in {"free", "clear"} /\ caller = "reap"]_vars

(* No client outlives the closing of the server it came through.           *)
ClientsOfOpenServers ==
  \A c \in Conns : obj[c] = "live" => \E k \in PfIndex : pf[k] = fd_server[c]

(* The hub is a relay: a peer is written only what some peer sent, under   *)
(* the number the hub gave the sender, in its order, once, and only if it  *)
(* went to everyone or to the number of the reader.                        *)
HubRelay == INSTANCE Relay
  WITH Peers <- Conns, Unknown <- 0, number <- fd, handed <- delivered,
       Numbers <- 0 .. FirstFd + Cardinality(Conns)
ImplementsRelay == HubRelay!Spec

(* The hub never closes a connection whose peer is still there and whose   *)
(* server is up.                                                           *)
OnlyBrokenClientsDropped ==
  [][\A c \in Conns : sock[c] = "open" /\ sock'[c] = "closed"
       => peer[c] # "up" \/ Shut(fd_server[c])]_vars

-----------------------------------------------------------------------------
(* The states the hub cannot leave by itself. *)

(* _client_stop pushes QUIT into a full queue nobody will empty.           *)
NoRoomForQuit ==
  /\ mpc \in {"push_lock", "push"} /\ ~HasRoom(in_queue[Current])
  /\ wpc[Current] \in {"exit", "blocked"}
(* _client_stop joins a writer that is blocked in write.                   *)
WriterBlocked == mpc = "join_write" /\ wpc[Current] = "blocked"
(* accept waits for a connection that was announced and is gone.           *)
AcceptBlocked ==
  mpc = "scan" /\ i < size /\ revents[i] = "POLLIN" /\ ~Shut(pf[i]) /\ Backlog(pf[i]) = {}
(* The handler joins a processor that waits for a mutex of the suspended   *)
(* main thread.                                                            *)
HandlerDeadlock ==
  /\ hpc = "join"
  /\ \/ ppc = "lock" /\ clients_lock = "main"
     \/ ppc = "send" /\ in_lock = clients[pi]
(* The handler joins a processor that was not told to quit: its queue was  *)
(* full, or the message was not a quit message yet.                        *)
QuitNotSent ==
  hpc = "join" /\ ppc # "exit" /\ ~\E k \in 1 .. Len(queue) : Quits(queue[k])
(* A server behind the first npfs entries of pf is not polled any more.    *)
ServerForgotten == mpc # "exit" /\ \E k \in PfIndex : k >= npfs /\ pf[k] # NONE

Stuck ==
  \/ crashed \/ NoRoomForQuit \/ WriterBlocked \/ AcceptBlocked
  \/ HandlerDeadlock \/ QuitNotSent

(* A SIGINT ends the program, unless it runs into one of the above.        *)
SigintEndsProgram ==
  hpc # "idle" ~> mpc = "exit" \/ Stuck \/ ServerForgotten

(* A client whose peer is gone is reaped, unless main is stuck.            *)
BrokenClientIsReaped ==
  \A c \in Conns : obj[c] = "live" /\ peer[c] = "gone" ~> Freed(c) \/ mpc = "exit" \/ Stuck

(* Messages that were queued for routing are routed and those queued for a *)
(* client whose peer is there are written, unless the hub is stuck or ends.*)
QueuesDrain ==
  /\ queue # <<>> ~> queue = <<>> \/ mpc = "exit" \/ Stuck
  /\ \A c \in Conns : in_queue[c] # <<>> ~>
       in_queue[c] = <<>> \/ peer[c] # "up" \/ stalled[c] \/ mpc = "exit" \/ Stuck

(* queue_push asserts that its queue exists (queue.c:26); the handler may  *)
(* call it before listener_init made one.                                  *)
QueueExists == ~(hpc = "push" /\ mpc = "listener_init")
=============================================================================
