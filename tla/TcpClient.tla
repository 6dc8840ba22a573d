------------------------------ MODULE TcpClient ------------------------------
(***************************************************************************)
(* tcp_mod/tcp_client_mod.c: the TCP client's one connection and the five  *)
(* threads that share client_mod_t without a lock:                         *)
(*                                                                         *)
(*   send        sends what is queued in send_fifo;                        *)
(*   recv        reads the connection into recv_fifo, and closes it when   *)
(*               it has ended;                                             *)
(*   handle      handles the server's packets (recv_handle);               *)
(*   reconnect   connects when there is no connection, logs in when the    *)
(*               client is not logged in, and closes the connection when   *)
(*               that has failed too often;                                *)
(*   keep_alive  sends keep-alives, and closes the connection when the     *)
(*               server has been silent for too long.                      *)
(*                                                                         *)
(* One step is one access to the shared state, or a few where what the     *)
(* other threads do in between makes no difference.  The fifos hold whole  *)
(* packets: ByteChannel says why they may, as long as one thread at a time *)
(* writes.  A connection has a number; a descriptor leads to a connection  *)
(* and is reused after close, the lowest free one first.                   *)
(***************************************************************************)
EXTENDS Integers, Sequences

CONSTANTS
  SEND_KEEP_ALIVE_TIME,     \* clock ticks after which a keep-alive is due
  KEEP_ALIVE_TIMEOUT_TIME,  \* clock ticks of silence that end a connection
  Commands,                 \* what is sent, within {"login", "keep_alive", "pass_through"}
  LoginTries,               \* logins sent before the connection is given up
  MaxFd,                    \* bound: descriptors are 0 .. MaxFd
  MaxConnects,              \* bound: connections made, over time
  SendFifoPackets,          \* packets that fit in send_fifo
  RecvFifoPackets,          \* packets that fit in recv_fifo
  MaxInbox                  \* bound: packets in a receive buffer

ASSUME ClientAssumption ==
  /\ SEND_KEEP_ALIVE_TIME \in Nat /\ KEEP_ALIVE_TIMEOUT_TIME \in Nat \ {0}
  /\ {"login", "keep_alive"} \subseteq Commands
  /\ Commands \subseteq {"login", "keep_alive", "pass_through"}
  /\ LoginTries \in Nat \ {0} /\ MaxFd \in Nat /\ MaxConnects \in Nat
  /\ SendFifoPackets \in Nat /\ RecvFifoPackets \in Nat /\ MaxInbox \in Nat

VARIABLES
  \* the kernel and the server
  conn,       \* descriptor -> the connection it leads to, Stdin or Closed
  inbox,      \* connection -> what the server sent and nobody has received
  ended,      \* connection -> the server has closed it
  \* client_mod_t
  tcp_socketfd, g_connect_master_status, send_log_num, send_fifo, recv_fifo,
  send_age, recv_age,   \* ticks since send_time and recv_time, up to the timeouts
  \* the threads
  recv, handle, reconnect, keep_alive,
  closing,    \* thread -> where it is in tcp_close_client_connect
  connects    \* the connections made so far

kernel   == <<conn, inbox, ended, connects>>
fifos    == <<send_fifo, recv_fifo>>
ages     == <<send_age, recv_age>>
vars == <<kernel, tcp_socketfd, g_connect_master_status, send_log_num, fifos, ages,
          recv, handle, reconnect, keep_alive, closing>>

Fd       == 0 .. MaxFd
Closed   == 0
Stdin    == -1
Conn     == 1 .. MaxConnects
Closer   == {"recv", "reconnect", "keep_alive"}

\* What a descriptor variable, which may be -1, leads to.
Lookup(fd)    == IF fd \in Fd THEN conn[fd] ELSE Closed
Connected(fd) == Lookup(fd) \in Conn
FreeFd        == {f \in Fd : conn[f] = Closed}

RecvIdle == [pc |-> "idle", conn |-> Closed]

\* fifo_write of whole packets: all of them, or none when they do not fit.
\* Its callers do not look at what it returns.
Written(fifo, packets, room) ==
  IF Len(fifo) + Len(packets) <= room THEN fifo \o packets ELSE fifo

-----------------------------------------------------------------------------
\* tcp_client_mod_init
Init ==
  /\ conn = [f \in Fd |-> IF f = 0 THEN Stdin ELSE Closed]
  /\ inbox = [c \in Conn |-> <<>>]
  /\ ended = [c \in Conn |-> FALSE]
  /\ tcp_socketfd = 0
  /\ g_connect_master_status = "UNCONNECT_SERVER"
  /\ send_log_num = 0
  /\ send_fifo = <<>> /\ recv_fifo = <<>>
  /\ send_age = 0 /\ recv_age = 0
  /\ recv = RecvIdle
  /\ handle = "idle"
  /\ reconnect = [pc |-> "check", fd |-> 0, load |-> 0]
  /\ keep_alive = "check"
  /\ closing = [t \in Closer |-> "no"]
  /\ connects = 0

-----------------------------------------------------------------------------
(* The server, the clock and the app thread (external).                    *)

Room(c) == ~ended[c] /\ Len(inbox[c]) < MaxInbox

\* The server passes data through.
ServerSend(c) ==
  /\ "pass_through" \in Commands
  /\ c <= connects /\ Room(c)
  /\ inbox' = [inbox EXCEPT ![c] = Append(@, "pass_through")]
  /\ UNCHANGED <<conn, ended, connects, tcp_socketfd, g_connect_master_status, send_log_num,
                 fifos, ages, recv, handle, reconnect, keep_alive, closing>>

ServerClose(c) ==
  /\ c <= connects /\ ~ended[c]
  /\ ended' = [ended EXCEPT ![c] = TRUE]
  /\ UNCHANGED <<conn, inbox, connects, tcp_socketfd, g_connect_master_status,
                 send_log_num, fifos, ages, recv, handle, reconnect, keep_alive, closing>>

Tick ==
  /\ send_age' = IF send_age < SEND_KEEP_ALIVE_TIME THEN send_age + 1 ELSE send_age
  /\ recv_age' = IF recv_age < KEEP_ALIVE_TIMEOUT_TIME THEN recv_age + 1 ELSE recv_age
  /\ ages' # ages
  /\ UNCHANGED <<kernel, tcp_socketfd, g_connect_master_status, send_log_num, fifos,
                 recv, handle, reconnect, keep_alive, closing>>

\* tcp_client_mod_send, called by the app thread for data of the UART.
AppSend ==
  /\ "pass_through" \in Commands
  /\ send_fifo' = Written(send_fifo, <<"pass_through">>, SendFifoPackets)
  /\ UNCHANGED <<kernel, tcp_socketfd, g_connect_master_status, send_log_num, recv_fifo, ages,
                 recv, handle, reconnect, keep_alive, closing>>

-----------------------------------------------------------------------------
(* tcp_close_client_connect, called by three threads.  Every line reads    *)
(* tcp_socketfd anew.                                                      *)

\* close(fd), which does nothing for a descriptor that is not open.  The
\* connection lives on while the recv thread is in select or recv with it.
Close(fd) ==
  LET over == {Lookup(fd)} \ {recv.conn} IN
  /\ conn' = [f \in Fd |-> IF f = fd THEN Closed ELSE conn[f]]
  /\ inbox' = [c \in Conn |-> IF c \in over THEN <<>> ELSE inbox[c]]
  /\ ended' = [c \in Conn |-> c \in over \/ ended[c]]

Inside(t) == closing[t] # "no"

StartClose(t) == closing' = [closing EXCEPT ![t] = "check"]

CloseCheck(t) ==
  /\ closing[t] = "check"
  /\ closing' = [closing EXCEPT ![t] = IF tcp_socketfd > 0 THEN "close" ELSE "status"]
  /\ UNCHANGED <<kernel, tcp_socketfd, g_connect_master_status, send_log_num, fifos, ages,
                 recv, handle, reconnect, keep_alive>>

\* Mutant: tcp_socketfd is not reset.
CloseFdOnly(t) ==
  /\ closing[t] = "close"
  /\ Close(tcp_socketfd)
  /\ closing' = [closing EXCEPT ![t] = "status"]
  /\ UNCHANGED <<connects, tcp_socketfd, g_connect_master_status,
                 send_log_num, fifos, ages, recv, handle, reconnect, keep_alive>>

\* By now tcp_socketfd may be 0, another connection's, or -1.
CloseFd(t) ==
  /\ closing[t] = "close"
  /\ Close(tcp_socketfd)
  /\ closing' = [closing EXCEPT ![t] = "zero"]
  /\ UNCHANGED <<connects, tcp_socketfd, g_connect_master_status,
                 send_log_num, fifos, ages, recv, handle, reconnect, keep_alive>>

CloseZero(t) ==
  /\ closing[t] = "zero"
  /\ tcp_socketfd' = 0
  /\ closing' = [closing EXCEPT ![t] = "status"]
  /\ UNCHANGED <<kernel, g_connect_master_status, send_log_num, fifos, ages,
                 recv, handle, reconnect, keep_alive>>

CloseStatus(t) ==
  /\ closing[t] = "status"
  /\ g_connect_master_status' = "UNCONNECT_SERVER"
  /\ closing' = [closing EXCEPT ![t] = "no"]
  /\ UNCHANGED <<kernel, tcp_socketfd, send_log_num, fifos, ages,
                 recv, handle, reconnect, keep_alive>>

CloseStep(t) == CloseCheck(t) \/ CloseFd(t) \/ CloseZero(t) \/ CloseStatus(t)

-----------------------------------------------------------------------------
(* tcp_client_send_pthread                                                 *)

\* The packet goes to whatever connection there is now, and is lost without
\* one.  The server answers a login or a keep-alive, or does not; the answer
\* is on its way, or waits to be received, in inbox.
SendPacket(answered) ==
  LET c == Lookup(tcp_socketfd) IN
  /\ send_fifo # <<>>
  /\ answered => c \in Conn /\ Room(c) /\ Head(send_fifo) # "pass_through"
  /\ send_fifo' = Tail(send_fifo)
  /\ inbox' = IF answered
              THEN [inbox EXCEPT ![c] = Append(@, Head(send_fifo))]
              ELSE inbox
  /\ UNCHANGED <<conn, ended, connects, tcp_socketfd, g_connect_master_status,
                 send_log_num, recv_fifo, ages, recv, handle, reconnect, keep_alive, closing>>

SendStep == \E answered \in BOOLEAN : SendPacket(answered)

-----------------------------------------------------------------------------
(* tcp_client_recv_pthread                                                 *)

RecvCheck ==
  /\ recv.pc = "idle" /\ ~Inside("recv")
  /\ tcp_socketfd > 0
  /\ recv' = [recv EXCEPT !.pc = "select"]
  /\ UNCHANGED <<kernel, tcp_socketfd, g_connect_master_status, send_log_num, fifos, ages,
                 handle, reconnect, keep_alive, closing>>

\* tcp_socketfd is read again; select fails if it is not open any more.
RecvSelect ==
  LET c == Lookup(tcp_socketfd) IN
  /\ recv.pc = "select"
  /\ recv' = IF c = Closed THEN RecvIdle ELSE [recv EXCEPT !.pc = "wait", !.conn = c]
  /\ UNCHANGED <<kernel, tcp_socketfd, g_connect_master_status, send_log_num, fifos, ages,
                 handle, reconnect, keep_alive, closing>>

\* The time is up.  Standard input may be readable or not.
RecvTimeout ==
  /\ recv.pc = "wait"
  /\ recv.conn \in Conn => inbox[recv.conn] = <<>> /\ ~ended[recv.conn]
  /\ recv' = RecvIdle
  /\ UNCHANGED <<kernel, tcp_socketfd, g_connect_master_status, send_log_num, fifos, ages,
                 handle, reconnect, keep_alive, closing>>

\* Something is there: recv is called, and tcp_socketfd is read once more.
\* The connection it leads to need not be the one select looked at; recv
\* blocks when nothing is there.
RecvCall ==
  /\ recv.pc = "wait"
  /\ recv.conn \in Conn => inbox[recv.conn] # <<>> \/ ended[recv.conn]
  /\ recv' = [recv EXCEPT !.pc = "reading", !.conn = Lookup(tcp_socketfd)]
  /\ UNCHANGED <<kernel, tcp_socketfd, g_connect_master_status, send_log_num, fifos, ages,
                 handle, reconnect, keep_alive, closing>>

\* recv returns data, which is a sign of life, and it is queued.
RecvData ==
  /\ recv.pc = "reading" /\ recv.conn \in Conn
  /\ inbox[recv.conn] # <<>>
  /\ inbox' = [inbox EXCEPT ![recv.conn] = <<>>]
  /\ recv_age' = 0
  /\ recv_fifo' = Written(recv_fifo, inbox[recv.conn], RecvFifoPackets)
  /\ recv' = RecvIdle
  /\ UNCHANGED <<conn, ended, connects, tcp_socketfd, g_connect_master_status,
                 send_log_num, send_fifo, send_age, handle, reconnect, keep_alive, closing>>

\* recv returns 0, or -1 for a descriptor that is no connection.
RecvLost ==
  /\ recv.pc = "reading"
  /\ recv.conn \in Conn => inbox[recv.conn] = <<>> /\ ended[recv.conn]
  /\ recv' = RecvIdle
  /\ StartClose("recv")
  /\ UNCHANGED <<kernel, tcp_socketfd, g_connect_master_status, send_log_num, fifos, ages,
                 handle, reconnect, keep_alive>>

RecvStep ==
  RecvCheck \/ RecvSelect \/ RecvTimeout \/ RecvCall \/ RecvData \/ RecvLost

-----------------------------------------------------------------------------
(* tcp_client_recv_handle_pthread and tcp_client_cmd_deal                  *)

\* handle is "login" while the answer to a login is being dealt with.
HandleLogin ==
  /\ handle = "idle" /\ recv_fifo # <<>>
  /\ Head(recv_fifo) = "login"
  /\ handle' = "login"
  /\ send_log_num' = 0
  /\ recv_fifo' = Tail(recv_fifo)
  /\ UNCHANGED <<kernel, tcp_socketfd, g_connect_master_status, send_fifo, ages,
                 recv, reconnect, keep_alive, closing>>

HandleConnect ==
  /\ handle = "login"
  /\ g_connect_master_status' = "CONNECT_SERVER"
  /\ recv_age' = 0
  /\ handle' = "idle"
  /\ UNCHANGED <<kernel, tcp_socketfd, send_log_num, fifos, send_age,
                 recv, reconnect, keep_alive, closing>>

HandleKeepAlive ==
  /\ handle = "idle" /\ recv_fifo # <<>>
  /\ Head(recv_fifo) = "keep_alive"
  /\ recv_age' = 0
  /\ recv_fifo' = Tail(recv_fifo)
  /\ UNCHANGED <<kernel, tcp_socketfd, g_connect_master_status, send_log_num, send_fifo,
                 send_age, recv, handle, reconnect, keep_alive, closing>>

\* The data goes to the message queue.
HandlePassThrough ==
  /\ handle = "idle" /\ recv_fifo # <<>>
  /\ Head(recv_fifo) = "pass_through"
  /\ recv_fifo' = Tail(recv_fifo)
  /\ UNCHANGED <<kernel, tcp_socketfd, g_connect_master_status, send_log_num, send_fifo, ages,
                 recv, handle, reconnect, keep_alive, closing>>

HandleStep == HandleLogin \/ HandleConnect \/ HandleKeepAlive \/ HandlePassThrough

-----------------------------------------------------------------------------
(* tcp_client_reconnect_pthread                                            *)

\* Mutant: a client that is not logged in connects once more.
ReconnectUnlessLoggedIn ==
  /\ reconnect.pc = "check" /\ ~Inside("reconnect")
  /\ reconnect' = [reconnect EXCEPT !.pc =
       IF g_connect_master_status = "UNCONNECT_SERVER" THEN "connect" ELSE "status"]
  /\ UNCHANGED <<kernel, tcp_socketfd, g_connect_master_status, send_log_num, fifos, ages,
                 recv, handle, keep_alive, closing>>

\* Mutant: only a failed connect is tried again.
ReconnectAfterFailure ==
  /\ reconnect.pc = "check" /\ ~Inside("reconnect")
  /\ reconnect' = [reconnect EXCEPT !.pc = IF tcp_socketfd < 0 THEN "connect" ELSE "status"]
  /\ UNCHANGED <<kernel, tcp_socketfd, g_connect_master_status, send_log_num, fifos, ages,
                 recv, handle, keep_alive, closing>>

ReconnectCheck ==
  /\ reconnect.pc = "check" /\ ~Inside("reconnect")
  /\ reconnect' = [reconnect EXCEPT !.pc = IF tcp_socketfd <= 0 THEN "connect" ELSE "status"]
  /\ UNCHANGED <<kernel, tcp_socketfd, g_connect_master_status, send_log_num, fifos, ages,
                 recv, handle, keep_alive, closing>>

\* client_connect_server: socket and connect succeed with the lowest free
\* descriptor, which is 0 once standard input has been closed ...
Connect(fd) ==
  /\ reconnect.pc = "connect"
  /\ connects < MaxConnects
  /\ fd \in FreeFd /\ \A f \in FreeFd : fd <= f
  /\ connects' = connects + 1
  /\ conn' = [conn EXCEPT ![fd] = connects']
  /\ reconnect' = [reconnect EXCEPT !.pc = "store", !.fd = fd]
  /\ UNCHANGED <<inbox, ended, tcp_socketfd, g_connect_master_status, send_log_num,
                 fifos, ages, recv, handle, keep_alive, closing>>

\* ... or connect fails, and so does client_connect_server.
ConnectFail ==
  /\ reconnect.pc = "connect"
  /\ reconnect' = [reconnect EXCEPT !.pc = "store", !.fd = -1]
  /\ UNCHANGED <<kernel, tcp_socketfd, g_connect_master_status, send_log_num, fifos, ages,
                 recv, handle, keep_alive, closing>>

ReconnectStore ==
  /\ reconnect.pc = "store"
  /\ tcp_socketfd' = reconnect.fd
  /\ reconnect' = [reconnect EXCEPT !.pc = "status", !.fd = 0]
  /\ UNCHANGED <<kernel, g_connect_master_status, send_log_num, fifos, ages,
                 recv, handle, keep_alive, closing>>

LoggedIn ==
  /\ reconnect.pc = "status"
  /\ g_connect_master_status = "CONNECT_SERVER" \/ tcp_socketfd <= 0
  /\ reconnect' = [reconnect EXCEPT !.pc = "check"]
  /\ UNCHANGED <<kernel, tcp_socketfd, g_connect_master_status, send_log_num, fifos, ages,
                 recv, handle, keep_alive, closing>>

Login ==
  /\ reconnect.pc = "status"
  /\ g_connect_master_status = "UNCONNECT_SERVER" /\ tcp_socketfd > 0
  /\ send_fifo' = Written(send_fifo, <<"login">>, SendFifoPackets)
  /\ send_age' = 0
  /\ reconnect' = [reconnect EXCEPT !.pc = "load"]
  /\ UNCHANGED <<kernel, tcp_socketfd, g_connect_master_status, send_log_num, recv_fifo,
                 recv_age, recv, handle, keep_alive, closing>>

\* send_log_num++ is a load and a store.
LoginLoad ==
  /\ reconnect.pc = "load"
  /\ reconnect' = [reconnect EXCEPT !.pc = "increment", !.load = send_log_num]
  /\ UNCHANGED <<kernel, tcp_socketfd, g_connect_master_status, send_log_num, fifos, ages,
                 recv, handle, keep_alive, closing>>

LoginStore ==
  /\ reconnect.pc = "increment"
  /\ send_log_num' = reconnect.load + 1
  /\ reconnect' = [reconnect EXCEPT !.pc = "tries", !.load = 0]
  /\ UNCHANGED <<kernel, tcp_socketfd, g_connect_master_status, fifos, ages,
                 recv, handle, keep_alive, closing>>

\* Mutant: the count is not reset when the connection is given up.
LoginGiveUpCounting ==
  /\ reconnect.pc = "tries"
  /\ reconnect' = [reconnect EXCEPT !.pc = "check"]
  /\ send_log_num >= LoginTries
  /\ StartClose("reconnect")
  /\ UNCHANGED <<kernel, tcp_socketfd, g_connect_master_status, send_log_num, fifos, ages,
                 recv, handle, keep_alive>>

LoginGiveUp ==
  /\ reconnect.pc = "tries"
  /\ send_log_num >= LoginTries
  /\ send_log_num' = 0
  /\ reconnect' = [reconnect EXCEPT !.pc = "check"]
  /\ StartClose("reconnect")
  /\ UNCHANGED <<kernel, tcp_socketfd, g_connect_master_status, fifos, ages,
                 recv, handle, keep_alive>>

LoginRetry ==
  /\ reconnect.pc = "tries"
  /\ send_log_num < LoginTries
  /\ reconnect' = [reconnect EXCEPT !.pc = "check"]
  /\ UNCHANGED <<kernel, tcp_socketfd, g_connect_master_status, send_log_num, fifos, ages,
                 recv, handle, keep_alive, closing>>

ReconnectStep ==
  \/ ReconnectCheck \/ (\E fd \in Fd : Connect(fd)) \/ ConnectFail \/ ReconnectStore
  \/ LoggedIn \/ Login \/ LoginLoad \/ LoginStore \/ LoginGiveUp \/ LoginRetry

-----------------------------------------------------------------------------
(* tcp_client_keep_alive_pthread; the clock is read at each comparison.    *)

KeepAliveSend ==
  LET due == send_age >= SEND_KEEP_ALIVE_TIME IN
  /\ keep_alive = "check" /\ ~Inside("keep_alive")
  /\ g_connect_master_status = "CONNECT_SERVER"
  /\ send_fifo' = IF due THEN Written(send_fifo, <<"keep_alive">>, SendFifoPackets) ELSE send_fifo
  /\ send_age' = IF due THEN 0 ELSE send_age
  /\ keep_alive' = "timeout"
  /\ UNCHANGED <<kernel, tcp_socketfd, g_connect_master_status, send_log_num, recv_fifo,
                 recv_age, recv, handle, reconnect, closing>>

\* Mutant: the timeout is exceeded, not reached.
KeepAliveTimeoutLate ==
  /\ keep_alive = "timeout"
  /\ keep_alive' = "check"
  /\ IF recv_age > KEEP_ALIVE_TIMEOUT_TIME THEN StartClose("keep_alive") ELSE UNCHANGED closing
  /\ UNCHANGED <<kernel, tcp_socketfd, g_connect_master_status, send_log_num, fifos, ages,
                 recv, handle, reconnect>>

KeepAliveTimeout ==
  /\ keep_alive = "timeout"
  /\ keep_alive' = "check"
  /\ IF recv_age >= KEEP_ALIVE_TIMEOUT_TIME THEN StartClose("keep_alive") ELSE UNCHANGED closing
  /\ UNCHANGED <<kernel, tcp_socketfd, g_connect_master_status, send_log_num, fifos, ages,
                 recv, handle, reconnect>>

KeepAliveStep == KeepAliveSend \/ KeepAliveTimeout

-----------------------------------------------------------------------------
ServerStep == \E c \in Conn : ServerClose(c) \/ ServerSend(c)

Next ==
  \/ SendStep \/ RecvStep \/ HandleStep \/ ReconnectStep \/ KeepAliveStep
  \/ \E t \in Closer : CloseStep(t)
  \/ ServerStep \/ Tick \/ AppSend

Spec == Init /\ [][Next]_vars

\* Every thread keeps being scheduled, and a server that is asked for a
\* connection over and over accepts one in the end.
Fairness ==
  /\ WF_vars(SendStep) /\ WF_vars(RecvStep) /\ WF_vars(HandleStep)
  /\ WF_vars(ReconnectStep) /\ WF_vars(KeepAliveStep)
  /\ \A t \in Closer : WF_vars(CloseStep(t))
  /\ SF_vars(\E fd \in Fd : Connect(fd))

FairSpec == Spec /\ Fairness

-----------------------------------------------------------------------------
(* Properties                                                              *)

ReconnectPc ==
  {"check", "connect", "store", "status", "load", "increment", "tries"}

\* The client's record, the kernel's tables and the threads keep their shape.
\* In particular send_log_num, which the handle thread resets between the
\* load and the store of an increment, never passes the number of tries.
TypeOK ==
  /\ conn \in [Fd -> Conn \cup {Closed, Stdin}]
  /\ inbox \in [Conn -> Seq(Commands)]
  /\ ended \in [Conn -> BOOLEAN]
  /\ tcp_socketfd \in Fd \cup {-1}
  /\ g_connect_master_status \in {"CONNECT_SERVER", "UNCONNECT_SERVER"}
  /\ send_log_num \in 0 .. LoginTries
  /\ send_fifo \in Seq(Commands) /\ recv_fifo \in Seq(Commands)
  /\ send_age \in 0 .. SEND_KEEP_ALIVE_TIME /\ recv_age \in 0 .. KEEP_ALIVE_TIMEOUT_TIME
  /\ recv \in [pc : {"idle", "select", "wait", "reading"}, conn : Conn \cup {Closed, Stdin}]
  /\ handle \in {"idle", "login"}
  /\ reconnect \in [pc : ReconnectPc, fd : Fd \cup {-1}, load : 0 .. LoginTries - 1]
  /\ keep_alive \in {"check", "timeout"}
  /\ closing \in [Closer -> {"no", "check", "close", "zero", "status"}]
  /\ connects \in 0 .. MaxConnects

\* Three threads close the connection and a fourth one opens it, each at its
\* own pace (lines 62-70 and 222-223).  Nevertheless tcp_socketfd leads to an
\* open connection unless a thread has just closed it and is about to reset
\* it: no other thread ever finds a dead descriptor there for longer.
SocketOpen ==
  tcp_socketfd > 0 /\ (\A t \in Closer : closing[t] # "zero") => Connected(tcp_socketfd)

\* At most one thread is in tcp_close_client_connect: what locking
\* client_mod_t's mutex in it would give.
Alone == \A t, u \in Closer : Inside(t) /\ Inside(u) => t = u

SerialSpec == Init /\ [][Next /\ Alone']_vars

\* While at most one thread closes at a time, every open connection is
\* tcp_socketfd's or about to be, and standard input stays open, whatever the
\* recv thread does with the descriptor it read earlier.  Only two threads in
\* tcp_close_client_connect at once leave a connection open that nobody
\* knows any more, or close descriptor 0.
NothingLeaks ==
  /\ conn[0] = Stdin
  /\ \A f \in Fd : Connected(f) =>
       f = tcp_socketfd \/ (reconnect.pc = "store" /\ f = reconnect.fd)

\* A client without a connection gets one, as long as the model has one left
\* and the server accepts connections now and then (lines 222-225).
Reconnects ==
  tcp_socketfd <= 0 ~> tcp_socketfd > 0 \/ connects = MaxConnects

\* A client that calls itself connected does not go on when the server is
\* silent (lines 255-259): it calls itself unconnected, or hears something.
SilentServerDropped ==
  (g_connect_master_status = "CONNECT_SERVER" /\ recv_age >= KEEP_ALIVE_TIMEOUT_TIME)
    ~> (g_connect_master_status = "UNCONNECT_SERVER" \/ recv_age < KEEP_ALIVE_TIMEOUT_TIME)

=============================================================================
