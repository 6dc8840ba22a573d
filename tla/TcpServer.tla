------------------------------ MODULE TcpServer ------------------------------
(***************************************************************************)
(* tcp_mod/tcp_server_mod.c: the TCP server's table of clients and the     *)
(* four threads that share it without a lock (server_mod_t has a mutex,    *)
(* and nothing locks it):                                                  *)
(*                                                                         *)
(*   listen      accepts a connection and puts it in the table;            *)
(*   recv        selects over the clients, reads the ready ones and drops  *)
(*               those whose connection ended;                             *)
(*   handle      takes the packets recv queued, notes that their client is *)
(*               alive and replies;                                        *)
(*   check_alive drops the clients that have been silent for too long.     *)
(*                                                                         *)
(* One step is one access to the shared state or a few that commute with   *)
(* everything the other threads do in between; client_conectnum++ and --   *)
(* are a load and a store, and a client_socketfd that the code reads anew  *)
(* on every line is read anew here.  The FD_ macros, one iteration of a    *)
(* search through the slots, and a select's return are one step each.  The *)
(* kernel's sockets are modelled because descriptor numbers are reused:    *)
(* accept hands out the lowest free one.                                   *)
(***************************************************************************)
EXTENDS Integers, Sequences, FiniteSets

CONSTANTS
  CLIENT_MAX_NUM,          \* slots of the table, and the limit on clients
  CLIENT_KEEP_ALIVE_TIME,  \* clock ticks of silence that end a connection
  Ip,                      \* the hosts clients connect from
  NoIp,                    \* the empty ip_addr
  Commands,                \* what clients send, within {"keep_alive", "pass_through"}
  Garbage,                 \* what the uninitialised fd_group may hold
  FdRange,                 \* the values of client_socketfd, a uint8_t: 256
  MaxFd,                   \* bound: descriptors are 0 .. MaxFd
  MaxConnects,             \* bound: connections the clients open, over time
  MaxSends,                \* bound: packets the clients send, over time
  MaxEvents                \* bound: both together

ASSUME ServerAssumption ==
  /\ CLIENT_MAX_NUM \in Nat \ {0} /\ CLIENT_KEEP_ALIVE_TIME \in Nat \ {0}
  /\ {NoIp, "stdin", "closed"} \cap Ip = {}
  /\ FdRange \in Nat \ {0}
  /\ MaxFd \in Nat /\ MaxConnects \in Nat /\ MaxSends \in Nat /\ MaxEvents \in Nat
  /\ Garbage \subseteq 0 .. MaxFd /\ Garbage # {}
  /\ Commands \subseteq {"keep_alive", "pass_through"}

VARIABLES
  \* the kernel
  owner,      \* descriptor -> the host at its other end, "stdin" or "closed"
  rcv,        \* descriptor -> the packets in its receive buffer
  fin,        \* descriptor -> the peer has closed its end
  backlog,    \* the hosts whose connections wait to be accepted
  \* server_mod_t
  client_socketfd, ip_addr, connect_client_status,  \* client_info, by slot
  age,                \* by slot: the ticks since send_time, up to the timeout
  client_conectnum, fd_group, read_fd_group, recv_fifo,
  \* the threads: where each one is, and its local variables
  listen, recv, handle, check,
  \* the budgets of the clients
  connects, sends

kernel  == <<owner, rcv, fin, backlog>>
info    == <<client_socketfd, ip_addr, connect_client_status, age>>
selects == <<fd_group, read_fd_group>>
budget  == <<connects, sends>>
vars == <<kernel, info, client_conectnum, selects, recv_fifo,
          listen, recv, handle, check, budget>>

Slot == 0 .. CLIENT_MAX_NUM - 1
Fd   == 0 .. MaxFd
Listen == -1   \* the listening socket, as a member of an fd_set

\* x is the lowest member of S: the slot or the descriptor a search finds.
First(x, S) == x \in S /\ \A y \in S : x <= y

Packet == [fd : Fd, from : Ip, cmd : Commands]

\* The idle states of the threads; a local variable that is dead is reset.
ListenIdle == [pc |-> "idle", set |-> {}, fd |-> 0, ip |-> NoIp, count |-> 0, load |-> 0]
RecvIdle   == [pc |-> "idle", set |-> {}, num |-> 0, count |-> 0, slot |-> 0, load |-> 0]
CheckAt(s) == [pc |-> "scan", count |-> s, load |-> 0]

-----------------------------------------------------------------------------
\* tcp_server_mod_init: the table is zeroed, so every send_time is long past;
\* fd_group is on main's stack and not set.  Descriptor 0 is standard input.
Init ==
  /\ owner = [f \in Fd |-> IF f = 0 THEN "stdin" ELSE "closed"]
  /\ rcv = [f \in Fd |-> <<>>]
  /\ fin = [f \in Fd |-> FALSE]
  /\ backlog = <<>>
  /\ client_socketfd = [s \in Slot |-> 0]
  /\ ip_addr = [s \in Slot |-> NoIp]
  /\ connect_client_status = [s \in Slot |-> "UNCONNECT"]
  /\ age = [s \in Slot |-> CLIENT_KEEP_ALIVE_TIME]
  /\ client_conectnum = 0
  /\ fd_group \in [Slot -> Garbage]
  /\ read_fd_group = {}
  /\ recv_fifo = <<>>
  /\ listen = ListenIdle
  /\ recv = RecvIdle
  /\ handle = <<>>
  /\ check = CheckAt(0)
  /\ connects = 0
  /\ sends = 0

-----------------------------------------------------------------------------
(* The clients, the network and the clock (external).                      *)

Connected(f) == owner[f] \in Ip

ClientConnect(ip) ==
  /\ connects < MaxConnects /\ connects + sends < MaxEvents
  /\ connects' = connects + 1
  /\ backlog' = Append(backlog, ip)
  /\ UNCHANGED <<owner, rcv, fin, info, client_conectnum, selects, recv_fifo,
                 listen, recv, handle, check, sends>>

ClientSend(f, cmd) ==
  /\ sends < MaxSends /\ connects + sends < MaxEvents
  /\ Connected(f) /\ ~fin[f]
  /\ sends' = sends + 1
  /\ rcv' = [rcv EXCEPT ![f] = Append(@, cmd)]
  /\ UNCHANGED <<owner, fin, backlog, info, client_conectnum, selects, recv_fifo,
                 listen, recv, handle, check, connects>>

ClientClose(f) ==
  /\ Connected(f) /\ ~fin[f]
  /\ fin' = [fin EXCEPT ![f] = TRUE]
  /\ UNCHANGED <<owner, rcv, backlog, info, client_conectnum, selects, recv_fifo,
                 listen, recv, handle, check, budget>>

Tick ==
  /\ age' = [s \in Slot |-> IF age[s] < CLIENT_KEEP_ALIVE_TIME THEN age[s] + 1 ELSE age[s]]
  /\ age' # age
  /\ UNCHANGED <<kernel, client_socketfd, ip_addr, connect_client_status,
                 client_conectnum, selects, recv_fifo, listen, recv, handle, check, budget>>

(* System calls.                                                           *)

FreeFd == {f \in Fd : owner[f] = "closed"}

\* close(f) of a descriptor that is not open changes nothing.
Close(f) ==
  /\ owner' = [owner EXCEPT ![f] = "closed"]
  /\ rcv' = [rcv EXCEPT ![f] = <<>>]
  /\ fin' = [fin EXCEPT ![f] = FALSE]
  /\ UNCHANGED backlog

Readable(f) ==
  IF f = Listen THEN backlog # <<>> ELSE Connected(f) /\ (rcv[f] # <<>> \/ fin[f])

\* What select may return of a set.  Standard input is readable or not.
Ready(set) ==
  {{f \in set : Readable(f)} \cup typed :
     typed \in SUBSET {f \in set \cap Fd : owner[f] = "stdin"}}

\* select fails with EBADF when a member of the set is not open.
BadSet(set) == \E f \in set \ {Listen} : owner[f] = "closed"

-----------------------------------------------------------------------------
(* tcp_server_listen_pthread                                               *)

\* check_fd_isread(SELECT_LISTEN_FD) starts the set over.  It is the set the
\* recv thread uses too.
ListenBuildSet ==
  /\ listen.pc = "idle"
  /\ read_fd_group' = {Listen}
  /\ listen' = [listen EXCEPT !.pc = "select"]
  /\ UNCHANGED <<kernel, info, client_conectnum, fd_group, recv_fifo,
                 recv, handle, check, budget>>

\* The kernel takes the set as it now is.
ListenSelect ==
  /\ listen.pc = "select"
  /\ ~BadSet(read_fd_group)
  /\ listen' = [listen EXCEPT !.pc = "wait", !.set = read_fd_group]
  /\ UNCHANGED <<kernel, info, client_conectnum, selects, recv_fifo,
                 recv, handle, check, budget>>

\* On an error the listening socket is closed and bound again: connections
\* waiting in its backlog are reset.
ListenRebind ==
  /\ listen.pc = "select"
  /\ BadSet(read_fd_group)
  /\ backlog' = <<>>
  /\ listen' = ListenIdle
  /\ UNCHANGED <<owner, rcv, fin, info, client_conectnum, selects, recv_fifo,
                 recv, handle, check, budget>>

\* select returns the ready members, or none when the time is up.
ListenReturn ==
  /\ listen.pc = "wait"
  /\ read_fd_group' \in Ready(listen.set)
  /\ listen' = IF read_fd_group' = {} THEN ListenIdle ELSE [ListenIdle EXCEPT !.pc = "accept"]
  /\ UNCHANGED <<kernel, info, client_conectnum, fd_group, recv_fifo,
                 recv, handle, check, budget>>

\* accept blocks until a connection is there.
ListenAccept(new_fd) ==
  /\ listen.pc = "accept"
  /\ backlog # <<>>
  /\ First(new_fd, FreeFd)
  /\ owner' = [owner EXCEPT ![new_fd] = Head(backlog)]
  /\ backlog' = Tail(backlog)
  /\ listen' = [listen EXCEPT !.pc = "add", !.fd = new_fd, !.ip = Head(backlog)]
  /\ UNCHANGED <<rcv, fin, info, client_conectnum, selects, recv_fifo,
                 recv, handle, check, budget>>

\* server_add_newclient_fd, one slot per step.  A slot that holds the
\* client's address: the new connection is closed.
AddExists ==
  /\ listen.pc = "add"
  /\ ip_addr[listen.count] = listen.ip
  /\ Close(listen.fd)
  /\ listen' = ListenIdle
  /\ UNCHANGED <<info, client_conectnum, selects, recv_fifo, recv, handle, check, budget>>

\* Mutant: the last slot is never given away.
AddFullEarly ==
  /\ listen.pc = "add"
  /\ ip_addr[listen.count] # listen.ip
  /\ client_conectnum + 1 >= CLIENT_MAX_NUM
  /\ listen' = ListenIdle
  /\ UNCHANGED <<kernel, info, client_conectnum, selects, recv_fifo,
                 recv, handle, check, budget>>

\* The count says the table is full: the connection stays open, in no slot.
AddFull ==
  /\ listen.pc = "add"
  /\ ip_addr[listen.count] # listen.ip
  /\ client_conectnum >= CLIENT_MAX_NUM
  /\ listen' = ListenIdle
  /\ UNCHANGED <<kernel, info, client_conectnum, selects, recv_fifo,
                 recv, handle, check, budget>>

\* Mutant: the loop runs one slot too far.
AddSkipPast ==
  /\ listen.pc = "add"
  /\ ip_addr[listen.count] \notin {listen.ip, NoIp}
  /\ client_conectnum < CLIENT_MAX_NUM
  /\ listen' = IF listen.count = CLIENT_MAX_NUM THEN ListenIdle
               ELSE [listen EXCEPT !.count = @ + 1]
  /\ UNCHANGED <<kernel, info, client_conectnum, selects, recv_fifo,
                 recv, handle, check, budget>>

\* The slot is another client's: on to the next, and after the last one out.
AddSkip ==
  /\ listen.pc = "add"
  /\ ip_addr[listen.count] \notin {listen.ip, NoIp}
  /\ client_conectnum < CLIENT_MAX_NUM
  /\ listen' = IF listen.count + 1 = CLIENT_MAX_NUM THEN ListenIdle
               ELSE [listen EXCEPT !.count = @ + 1]
  /\ UNCHANGED <<kernel, info, client_conectnum, selects, recv_fifo,
                 recv, handle, check, budget>>

\* What a uint8_t keeps of a descriptor.
Uint8(fd) == fd % FdRange

\* Mutant: an empty slot is taken without a look at the count.
AddClaimUncounted ==
  /\ listen.pc = "add"
  /\ ip_addr[listen.count] = NoIp
  /\ age' = [age EXCEPT ![listen.count] = 0]
  /\ ip_addr' = [ip_addr EXCEPT ![listen.count] = listen.ip]
  /\ client_socketfd' = [client_socketfd EXCEPT ![listen.count] = Uint8(listen.fd)]
  /\ listen' = [ListenIdle EXCEPT !.pc = "status", !.count = listen.count]
  /\ UNCHANGED <<kernel, connect_client_status, client_conectnum, selects, recv_fifo,
                 recv, handle, check, budget>>

\* The first slot without an address is the client's.
AddClaim ==
  /\ listen.pc = "add"
  /\ ip_addr[listen.count] = NoIp
  /\ client_conectnum < CLIENT_MAX_NUM
  /\ age' = [age EXCEPT ![listen.count] = 0]
  /\ ip_addr' = [ip_addr EXCEPT ![listen.count] = listen.ip]
  /\ client_socketfd' = [client_socketfd EXCEPT ![listen.count] = Uint8(listen.fd)]
  /\ listen' = [ListenIdle EXCEPT !.pc = "status", !.count = listen.count]
  /\ UNCHANGED <<kernel, connect_client_status, client_conectnum, selects, recv_fifo,
                 recv, handle, check, budget>>

AddStatus ==
  /\ listen.pc = "status"
  /\ connect_client_status' = [connect_client_status EXCEPT ![listen.count] = "CONNECT"]
  /\ listen' = [ListenIdle EXCEPT !.pc = "load"]
  /\ UNCHANGED <<kernel, client_socketfd, ip_addr, age, client_conectnum, selects,
                 recv_fifo, recv, handle, check, budget>>

AddLoad ==
  /\ listen.pc = "load"
  /\ listen' = [listen EXCEPT !.pc = "store", !.load = client_conectnum]
  /\ UNCHANGED <<kernel, info, client_conectnum, selects, recv_fifo,
                 recv, handle, check, budget>>

AddStore ==
  /\ listen.pc = "store"
  /\ client_conectnum' = listen.load + 1
  /\ listen' = ListenIdle
  /\ UNCHANGED <<kernel, info, selects, recv_fifo, recv, handle, check, budget>>

ListenStep ==
  \/ ListenBuildSet \/ ListenSelect \/ ListenRebind \/ ListenReturn
  \/ \E new_fd \in Fd : ListenAccept(new_fd)
  \/ AddExists \/ AddFull \/ AddSkip \/ AddClaim \/ AddStatus \/ AddLoad \/ AddStore

-----------------------------------------------------------------------------
(* tcp_server_recv_pthread                                                 *)

RecvZeroSet ==
  /\ recv.pc = "idle"
  /\ read_fd_group' = {}
  /\ recv' = [recv EXCEPT !.pc = "build"]
  /\ UNCHANGED <<kernel, info, client_conectnum, fd_group, recv_fifo,
                 listen, handle, check, budget>>

\* check_fd_isread(SELECT_CLIENT_FD).  A slot in use is read three times: for
\* the test, for fd_group and for the set.
BuildNext ==
  IF recv.count + 1 = CLIENT_MAX_NUM THEN [RecvIdle EXCEPT !.pc = "select"]
  ELSE [recv EXCEPT !.pc = "build", !.count = @ + 1]

BuildTest ==
  /\ recv.pc = "build"
  /\ recv' = IF client_socketfd[recv.count] # 0 THEN [recv EXCEPT !.pc = "group"]
             ELSE BuildNext
  /\ UNCHANGED <<kernel, info, client_conectnum, selects, recv_fifo,
                 listen, handle, check, budget>>

BuildGroup ==
  /\ recv.pc = "group"
  /\ fd_group' = [fd_group EXCEPT ![recv.num] = client_socketfd[recv.count]]
  /\ recv' = [recv EXCEPT !.pc = "set", !.num = @ + 1]
  /\ UNCHANGED <<kernel, info, client_conectnum, read_fd_group, recv_fifo,
                 listen, handle, check, budget>>

BuildSet ==
  /\ recv.pc = "set"
  /\ read_fd_group' = read_fd_group \cup {client_socketfd[recv.count]}
  /\ recv' = BuildNext
  /\ UNCHANGED <<kernel, info, client_conectnum, fd_group, recv_fifo,
                 listen, handle, check, budget>>

\* On an error the thread sleeps and starts over.
RecvSelect ==
  /\ recv.pc = "select"
  /\ recv' = IF BadSet(read_fd_group) THEN RecvIdle
             ELSE [recv EXCEPT !.pc = "wait", !.set = read_fd_group]
  /\ UNCHANGED <<kernel, info, client_conectnum, selects, recv_fifo,
                 listen, handle, check, budget>>

RecvReturn ==
  /\ recv.pc = "wait"
  /\ read_fd_group' \in Ready(recv.set)
  /\ recv' = IF read_fd_group' = {} THEN RecvIdle ELSE [RecvIdle EXCEPT !.pc = "round"]
  /\ UNCHANGED <<kernel, info, client_conectnum, fd_group, recv_fifo,
                 listen, handle, check, budget>>

\* The round over the ready clients; its bound is the count of this moment.
InRound  == recv.pc = "round" /\ recv.count < client_conectnum
Current  == fd_group[recv.count]
NextTurn == [recv EXCEPT !.pc = "round", !.count = @ + 1, !.slot = 0, !.load = 0]

RecvRoundEnd ==
  /\ recv.pc = "round"
  /\ recv.count >= client_conectnum
  /\ recv' = RecvIdle
  /\ UNCHANGED <<kernel, info, client_conectnum, selects, recv_fifo,
                 listen, handle, check, budget>>

RecvSkip ==
  /\ InRound
  /\ Current \notin read_fd_group
  /\ recv' = NextTurn
  /\ UNCHANGED <<kernel, info, client_conectnum, selects, recv_fifo,
                 listen, handle, check, budget>>

\* recv returns data, and recv_data_write_fifo queues it with its descriptor.
RecvData ==
  /\ InRound
  /\ Current \in read_fd_group
  /\ rcv[Current] # <<>>
  /\ recv_fifo' = recv_fifo \o [i \in 1 .. Len(rcv[Current]) |->
                     [fd |-> Current, from |-> owner[Current], cmd |-> rcv[Current][i]]]
  /\ rcv' = [rcv EXCEPT ![Current] = <<>>]
  /\ recv' = NextTurn
  /\ UNCHANGED <<owner, fin, backlog, info, client_conectnum, selects,
                 listen, handle, check, budget>>

\* recv returns 0 or -1: the connection is over, or was closed meanwhile, or
\* the descriptor is standard input, which is no socket.
RecvLost ==
  /\ InRound
  /\ Current \in read_fd_group
  /\ rcv[Current] = <<>>
  /\ fin[Current] \/ ~Connected(Current)
  /\ recv' = [recv EXCEPT !.pc = "lost"]
  /\ UNCHANGED <<kernel, info, client_conectnum, selects, recv_fifo,
                 listen, handle, check, budget>>

\* tcp_close_client_connect looks for the descriptor slot after slot, in as
\* many slots as the count says there are clients.
InSearch == recv.pc = "lost" /\ recv.slot < client_conectnum

CloseNotFound ==
  /\ recv.pc = "lost"
  /\ recv.slot >= client_conectnum
  /\ recv' = NextTurn
  /\ UNCHANGED <<kernel, info, client_conectnum, selects, recv_fifo,
                 listen, handle, check, budget>>

CloseSkip ==
  /\ InSearch
  /\ client_socketfd[recv.slot] # Current
  /\ recv' = [recv EXCEPT !.slot = @ + 1]
  /\ UNCHANGED <<kernel, info, client_conectnum, selects, recv_fifo,
                 listen, handle, check, budget>>

CloseFound ==
  /\ InSearch
  /\ client_socketfd[recv.slot] = Current
  /\ Close(Current)
  /\ recv' = [recv EXCEPT !.pc = "clear"]
  /\ UNCHANGED <<info, client_conectnum, selects, recv_fifo, listen, handle, check, budget>>

\* Mutant: the slot keeps its status.
CloseFdOnly ==
  /\ recv.pc = "clear"
  /\ client_socketfd' = [client_socketfd EXCEPT ![recv.slot] = 0]
  /\ recv' = [recv EXCEPT !.pc = "load"]
  /\ UNCHANGED <<kernel, ip_addr, connect_client_status, age, client_conectnum, selects,
                 recv_fifo, listen, handle, check, budget>>

CloseFd ==
  /\ recv.pc = "clear"
  /\ client_socketfd' = [client_socketfd EXCEPT ![recv.slot] = 0]
  /\ recv' = [recv EXCEPT !.pc = "status"]
  /\ UNCHANGED <<kernel, ip_addr, connect_client_status, age, client_conectnum, selects,
                 recv_fifo, listen, handle, check, budget>>

CloseStatus ==
  /\ recv.pc = "status"
  /\ connect_client_status' = [connect_client_status EXCEPT ![recv.slot] = "UNCONNECT"]
  /\ recv' = [recv EXCEPT !.pc = "load"]
  /\ UNCHANGED <<kernel, client_socketfd, ip_addr, age, client_conectnum, selects,
                 recv_fifo, listen, handle, check, budget>>

CloseLoad ==
  /\ recv.pc = "load"
  /\ recv' = [recv EXCEPT !.pc = "store", !.load = client_conectnum]
  /\ UNCHANGED <<kernel, info, client_conectnum, selects, recv_fifo,
                 listen, handle, check, budget>>

CloseStore ==
  /\ recv.pc = "store"
  /\ client_conectnum' = recv.load - 1
  /\ recv' = [recv EXCEPT !.pc = "ip", !.load = 0]
  /\ UNCHANGED <<kernel, info, selects, recv_fifo, listen, handle, check, budget>>

CloseIp ==
  /\ recv.pc = "ip"
  /\ ip_addr' = [ip_addr EXCEPT ![recv.slot] = NoIp]
  /\ recv' = NextTurn
  /\ UNCHANGED <<kernel, client_socketfd, connect_client_status, age, client_conectnum,
                 selects, recv_fifo, listen, handle, check, budget>>

RecvStep ==
  \/ RecvZeroSet \/ BuildTest \/ BuildGroup \/ BuildSet
  \/ RecvSelect \/ RecvReturn \/ RecvRoundEnd
  \/ RecvSkip \/ RecvData \/ RecvLost
  \/ CloseNotFound \/ CloseSkip \/ CloseFound \/ CloseFd \/ CloseStatus
  \/ CloseLoad \/ CloseStore \/ CloseIp

-----------------------------------------------------------------------------
(* tcp_server_recv_handle_pthread                                          *)

\* handle is the packet the thread has to reply to, or <<>>.
SlotsOf(f) == {s \in Slot : client_socketfd[s] = f}

\* A keep-alive or login packet: set_client_send_time, and then the reply.
HandleBeat ==
  LET packet == Head(recv_fifo) IN
  /\ handle = <<>> /\ recv_fifo # <<>>
  /\ packet.cmd = "keep_alive"
  /\ age' = [s \in Slot |-> IF First(s, SlotsOf(packet.fd)) THEN 0 ELSE age[s]]
  /\ handle' = <<packet>>
  /\ recv_fifo' = Tail(recv_fifo)
  /\ UNCHANGED <<kernel, client_socketfd, ip_addr, connect_client_status,
                 client_conectnum, selects, listen, recv, check, budget>>

\* Pass-through data goes to the message queue; it is no sign of life.
HandlePassThrough ==
  /\ handle = <<>> /\ recv_fifo # <<>>
  /\ Head(recv_fifo).cmd = "pass_through"
  /\ recv_fifo' = Tail(recv_fifo)
  /\ UNCHANGED <<kernel, info, client_conectnum, selects, listen, recv, handle,
                 check, budget>>

\* tcp_server_mod_send to the descriptor the packet came from.
HandleReply ==
  /\ handle # <<>>
  /\ handle' = <<>>
  /\ UNCHANGED <<kernel, info, client_conectnum, selects, recv_fifo, listen, recv,
                 check, budget>>

HandleStep == HandleBeat \/ HandlePassThrough \/ HandleReply

-----------------------------------------------------------------------------
(* tcp_server_check_alive_pthread                                          *)

Expired(s) == connect_client_status[s] = "CONNECT" /\ age[s] >= CLIENT_KEEP_ALIVE_TIME

NextSlot == CheckAt((check.count + 1) % CLIENT_MAX_NUM)

CheckSkip ==
  /\ check.pc = "scan"
  /\ ~Expired(check.count)
  /\ check' = NextSlot
  /\ UNCHANGED <<kernel, info, client_conectnum, selects, recv_fifo,
                 listen, recv, handle, budget>>

\* Mutant: the loop is bounded by the count, as those of the recv thread are.
CheckExpiredCounted ==
  /\ check.pc = "scan"
  /\ Expired(check.count)
  /\ check' = IF check.count < client_conectnum THEN [check EXCEPT !.pc = "close"] ELSE NextSlot
  /\ UNCHANGED <<kernel, info, client_conectnum, selects, recv_fifo,
                 listen, recv, handle, budget>>

CheckExpired ==
  /\ check.pc = "scan"
  /\ Expired(check.count)
  /\ check' = [check EXCEPT !.pc = "close"]
  /\ UNCHANGED <<kernel, info, client_conectnum, selects, recv_fifo,
                 listen, recv, handle, budget>>

CheckClose ==
  /\ check.pc = "close"
  /\ Close(client_socketfd[check.count])
  /\ check' = [check EXCEPT !.pc = "fd"]
  /\ UNCHANGED <<info, client_conectnum, selects, recv_fifo, listen, recv, handle, budget>>

CheckFd ==
  /\ check.pc = "fd"
  /\ client_socketfd' = [client_socketfd EXCEPT ![check.count] = 0]
  /\ check' = [check EXCEPT !.pc = "load"]
  /\ UNCHANGED <<kernel, ip_addr, connect_client_status, age, client_conectnum, selects,
                 recv_fifo, listen, recv, handle, budget>>

CheckLoad ==
  /\ check.pc = "load"
  /\ check' = [check EXCEPT !.pc = "store", !.load = client_conectnum]
  /\ UNCHANGED <<kernel, info, client_conectnum, selects, recv_fifo,
                 listen, recv, handle, budget>>

CheckStore ==
  /\ check.pc = "store"
  /\ client_conectnum' = check.load - 1
  /\ check' = [check EXCEPT !.pc = "ip", !.load = 0]
  /\ UNCHANGED <<kernel, info, selects, recv_fifo, listen, recv, handle, budget>>

CheckIp ==
  /\ check.pc = "ip"
  /\ ip_addr' = [ip_addr EXCEPT ![check.count] = NoIp]
  /\ check' = [check EXCEPT !.pc = "status"]
  /\ UNCHANGED <<kernel, client_socketfd, connect_client_status, age, client_conectnum,
                 selects, recv_fifo, listen, recv, handle, budget>>

CheckStatus ==
  /\ check.pc = "status"
  /\ connect_client_status' = [connect_client_status EXCEPT ![check.count] = "UNCONNECT"]
  /\ check' = NextSlot
  /\ UNCHANGED <<kernel, client_socketfd, ip_addr, age, client_conectnum, selects,
                 recv_fifo, listen, recv, handle, budget>>

CheckStep ==
  \/ CheckSkip \/ CheckExpired \/ CheckClose \/ CheckFd
  \/ CheckLoad \/ CheckStore \/ CheckIp \/ CheckStatus

-----------------------------------------------------------------------------
ClientStep ==
  \/ \E ip \in Ip : ClientConnect(ip)
  \/ \E f \in Fd, cmd \in Commands : ClientSend(f, cmd)
  \/ \E f \in Fd : ClientClose(f)
  \/ Tick

Next == ListenStep \/ RecvStep \/ HandleStep \/ CheckStep \/ ClientStep

Spec == Init /\ [][Next]_vars

\* Every thread keeps being scheduled; the clients and the network owe
\* nothing.
Fairness ==
  /\ WF_vars(ListenStep)
  /\ WF_vars(RecvStep)
  /\ WF_vars(HandleStep)
  /\ WF_vars(CheckStep)

FairSpec == Spec /\ Fairness

-----------------------------------------------------------------------------
(* Properties                                                              *)

ListenType ==
  [pc : {"idle", "select", "wait", "accept", "add", "status", "load", "store"},
   set : SUBSET (Fd \cup {Listen}), fd : Fd, ip : Ip \cup {NoIp}, count : Slot, load : Int]
RecvType ==
  [pc : {"idle", "build", "group", "set", "select", "wait", "round", "lost",
         "clear", "status", "load", "store", "ip"},
   set : SUBSET (Fd \cup {Listen}), num : 0 .. CLIENT_MAX_NUM, count : 0 .. CLIENT_MAX_NUM,
   slot : 0 .. CLIENT_MAX_NUM, load : Int]
CheckType ==
  [pc : {"scan", "close", "fd", "load", "store", "ip", "status"}, count : Slot, load : Int]

\* The table, the fd sets, the queue and the threads keep their shape.
TypeOK ==
  /\ owner \in [Fd -> Ip \cup {"stdin", "closed"}]
  /\ rcv \in [Fd -> Seq(Commands)]
  /\ fin \in [Fd -> BOOLEAN]
  /\ backlog \in Seq(Ip)
  /\ client_socketfd \in [Slot -> Fd]
  /\ ip_addr \in [Slot -> Ip \cup {NoIp}]
  /\ connect_client_status \in [Slot -> {"CONNECT", "UNCONNECT"}]
  /\ age \in [Slot -> 0 .. CLIENT_KEEP_ALIVE_TIME]
  /\ client_conectnum \in Int
  /\ fd_group \in [Slot -> Fd]
  /\ read_fd_group \subseteq Fd \cup {Listen}
  /\ recv_fifo \in Seq(Packet) /\ handle \in Seq(Packet)
  /\ listen \in ListenType /\ recv \in RecvType /\ check \in CheckType
  /\ connects \in 0 .. MaxConnects /\ sends \in 0 .. MaxSends

\* Increments and decrements of the count get lost when the threads collide,
\* and the count drifts from the table for good.  However they collide, it
\* never passes CLIENT_MAX_NUM, so the loops it bounds (lines 105 and 210)
\* stay inside client_info and fd_group.
CountBounded ==
  /\ client_conectnum <= CLIENT_MAX_NUM
  /\ InRound => recv.count \in Slot
  /\ InSearch => recv.slot \in Slot

\* The three sections that change the table, each run by its own thread.
ListenInside == listen.pc \in {"status", "load", "store"} \/ (listen.pc = "add" /\ listen.count > 0)
RecvInside   == \/ recv.pc \in {"clear", "status", "load", "store", "ip"}
                \/ recv.pc = "lost" /\ recv.slot > 0
CheckInside  == check.pc # "scan"

\* The section that reads a slot it found in use twice more.
Building == recv.pc \in {"group", "set"}

\* What locking server_mod_t's mutex around the four would give.  Of what it
\* gives the last one, only that check_alive waits is needed.
Exclusive ==
  /\ ~(ListenInside /\ RecvInside)
  /\ ~(ListenInside /\ CheckInside)
  /\ ~(RecvInside /\ CheckInside)
  /\ ~(Building /\ CheckInside)

SerialSpec == Init /\ [][Next /\ Exclusive']_vars

Vacant(s) ==
  /\ client_socketfd[s] = 0
  /\ ip_addr[s] = NoIp
  /\ connect_client_status[s] = "UNCONNECT"
Occupied(s) ==
  /\ client_socketfd[s] # 0
  /\ ip_addr[s] \in Ip
  /\ connect_client_status[s] = "CONNECT"
  /\ owner[client_socketfd[s]] = ip_addr[s]

\* While the sections exclude each other, and no descriptor is too large for
\* client_socketfd (MaxFd < FdRange), the table is sound whenever no section
\* changes it: a slot is vacant or holds an open connection from its address,
\* no two slots hold the same one, and the count counts them.  Holes in the
\* table, reused descriptors and stale fd_group entries do not break it.  Two
\* sections at once do, the one of lines 82-84 included: descriptor 0 gets
\* into the set when check_alive clears a slot between those lines, and a
\* readable standard input then makes tcp_close_client_connect drop a slot
\* that is vacant.
TableSound ==
  ~ListenInside /\ ~RecvInside /\ ~CheckInside =>
    /\ \A s \in Slot : Vacant(s) \/ Occupied(s)
    /\ \A s, t \in Slot : client_socketfd[s] = client_socketfd[t] /\ s # t => Vacant(s)
    /\ client_conectnum = Cardinality({s \in Slot : Occupied(s)})

\* While the sections exclude each other, and descriptors fit client_socketfd,
\* a connection is left without a slot (lines 122-125) only when none is free.
RefusedOnlyWhenFull ==
  [][AddFull \/ (AddSkip /\ listen' = ListenIdle) =>
       RecvInside \/ CheckInside \/ \A s \in Slot : ip_addr[s] # NoIp]_vars

\* A client the table calls connected and that has been silent for too long
\* is dropped, unless it gives a sign of life first: under fairness alone,
\* for every interleaving of the threads.
SilentDropped ==
  \A s \in Slot :
    Expired(s) ~> (connect_client_status[s] = "UNCONNECT" \/ age[s] < CLIENT_KEEP_ALIVE_TIME)

(* What the comments of the code say and the code does not keep.           *)

\* Line 337: check_alive looks at every client, and one that was silent for
\* too long is cleaned up.  A slot that holds a descriptor is a client's.
SilentCleaned ==
  \A s \in Slot :
    (client_socketfd[s] # 0 /\ age[s] >= CLIENT_KEEP_ALIVE_TIME)
      ~> (client_socketfd[s] = 0 \/ age[s] < CLIENT_KEEP_ALIVE_TIME)

\* Line 231: the reply is sent to the client it belongs to.
ReplyToSender ==
  handle # <<>> => owner[Head(handle).fd] \in {Head(handle).from, "closed"}

=============================================================================
