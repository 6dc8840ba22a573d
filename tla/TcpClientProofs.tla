--------------------------- MODULE TcpClientProofs ---------------------------
(***************************************************************************)
(* Proofs about TcpClient for every timeout, number of tries, descriptor   *)
(* and connection: the types; that tcp_socketfd is never dead for longer   *)
(* than a closing thread takes to reset it; and that nothing leaks while   *)
(* at most one thread closes at a time.                                    *)
(*                                                                         *)
(* SocketOpen is not inductive: the reconnect thread stores a descriptor   *)
(* it got some steps ago.  SocketInv adds that nobody can have closed it   *)
(* since, because tcp_socketfd holds no descriptor in the meantime.        *)
(***************************************************************************)
EXTENDS TcpClient, TLAPS

\* Only the thread that counts the logins sees the count at its limit.
TriesInv == reconnect.pc # "tries" => send_log_num < LoginTries

\* A thread that is in tcp_close_client_connect is nowhere else.
ThreadInv ==
  /\ Inside("recv") => recv.pc = "idle"
  /\ Inside("reconnect") => reconnect.pc = "check"
  /\ Inside("keep_alive") => keep_alive = "check"

SocketInv ==
  /\ reconnect.pc \in {"connect", "store"} => tcp_socketfd <= 0
  /\ reconnect.pc = "store" /\ reconnect.fd > 0 => Connected(reconnect.fd)
  /\ SocketOpen

ReconnectType == [pc : ReconnectPc, fd : Fd \cup {-1}, load : 0 .. LoginTries - 1]

\* The inductive invariant.
IInv == TypeOK /\ TriesInv /\ ThreadInv /\ SocketInv

-----------------------------------------------------------------------------
\* tcp_client_mod_init establishes the invariant.
LEMMA InvInit == Init => IInv
<1> SUFFICES ASSUME Init PROVE IInv
  OBVIOUS
<1>1. 0 \in Fd /\ 0 \in 0 .. LoginTries /\ 0 \in 0 .. LoginTries - 1 /\ 0 < LoginTries
      /\ 0 \in 0 .. SEND_KEEP_ALIVE_TIME /\ 0 \in 0 .. KEEP_ALIVE_TIMEOUT_TIME
      /\ 0 \in 0 .. MaxConnects
  BY ClientAssumption DEF Fd
<1>2. TypeOK
  BY <1>1 DEF Init, TypeOK, RecvIdle, ReconnectPc
<1>3. TriesInv /\ ThreadInv /\ SocketInv
  BY <1>1 DEF Init, TriesInv, ThreadInv, Inside, SocketInv, SocketOpen, RecvIdle
<1>4. QED
  BY <1>2, <1>3 DEF IInv

\* fifo_write keeps what a fifo holds.
LEMMA WrittenType ==
  ASSUME NEW S, NEW fifo \in Seq(S), NEW packets \in Seq(S), NEW room
  PROVE  Written(fifo, packets, room) \in Seq(S)
  BY DEF Written

LEMMA SentType ==
  ASSUME IInv, NEW cmd \in Commands
  PROVE  Written(send_fifo, <<cmd>>, SendFifoPackets) \in Seq(Commands)
<1>1. <<cmd>> \in Seq(Commands) /\ send_fifo \in Seq(Commands)
  BY DEF IInv, TypeOK
<1>2. QED
  BY <1>1, WrittenType

\* A descriptor that leads to a connection is open.
LEMMA ConnectedFd ==
  ASSUME TypeOK, NEW fd \in Fd
  PROVE  /\ Connected(fd) <=> conn[fd] \in Conn
         /\ Connected(fd)' <=> conn'[fd] \in Conn
  BY DEF Connected, Lookup

\* The connections are numbered from 1.
LEMMA NotConn == Closed \notin Conn /\ Stdin \notin Conn
  BY ClientAssumption DEF Closed, Stdin, Conn

\* SocketInv outlives a step that moves no descriptor, lets no thread leave
\* the window between close and reset, and has the reconnect thread neither
\* connect nor store.
LEMMA SocketKept ==
  ASSUME SocketInv, UNCHANGED <<conn, tcp_socketfd>>,
         \A t \in Closer : closing[t] = "zero" => closing'[t] = "zero",
         reconnect' = reconnect \/ reconnect'.pc \notin {"connect", "store"}
  PROVE  SocketInv'
  BY DEF SocketInv, SocketOpen, Connected, Lookup

-----------------------------------------------------------------------------
\* The count of logins, and the reconnect thread's record of itself.
LEMMA OneMoreTry ==
  ASSUME NEW n \in 0 .. LoginTries - 1
  PROVE  n + 1 \in 0 .. LoginTries /\ 0 \in 0 .. LoginTries - 1
  BY ClientAssumption

LEMMA ReconnectMoves ==
  ASSUME NEW pc \in ReconnectPc, NEW n \in 0 .. LoginTries - 1, TypeOK
  PROVE  /\ [reconnect EXCEPT !.pc = pc] \in ReconnectType
         /\ [reconnect EXCEPT !.pc = pc].pc = pc
         /\ [reconnect EXCEPT !.pc = pc, !.load = n] \in ReconnectType
         /\ [reconnect EXCEPT !.pc = pc, !.load = n].pc = pc
<1>1. reconnect \in ReconnectType
  BY DEF TypeOK, ReconnectType
<1>2. [reconnect EXCEPT !.pc = pc] \in ReconnectType /\ [reconnect EXCEPT !.pc = pc].pc = pc
  BY <1>1 DEF ReconnectType
<1>3. /\ [[reconnect EXCEPT !.pc = pc] EXCEPT !.load = n] \in ReconnectType
      /\ [[reconnect EXCEPT !.pc = pc] EXCEPT !.load = n].pc = pc
  BY <1>2 DEF ReconnectType
<1>4. QED
  BY <1>2, <1>3

\* The descriptor the reconnect thread is about to store stays open when
\* another one is closed.
LEMMA StoreKept ==
  ASSUME TypeOK, SocketInv, tcp_socketfd' = tcp_socketfd, reconnect' = reconnect,
         \A f \in Fd : f # tcp_socketfd => conn'[f] = conn[f]
  PROVE  reconnect'.pc = "store" /\ reconnect'.fd > 0 => Connected(reconnect.fd)'
<1> SUFFICES ASSUME reconnect.pc = "store", reconnect.fd > 0
             PROVE  Connected(reconnect.fd)'
  OBVIOUS
<1>1. reconnect.fd \in Fd /\ tcp_socketfd \in Fd \cup {-1} /\ tcp_socketfd <= 0
  BY DEF TypeOK, SocketInv
<1>2. reconnect.fd # tcp_socketfd
  BY <1>1 DEF Fd
<1>3. Connected(reconnect.fd)
  BY DEF SocketInv
<1>4. QED
  BY <1>1, <1>2, <1>3 DEF Connected, Lookup

\* The server, the clock, the app and the send thread.
LEMMA OthersKeepInv == IInv /\ (ServerStep \/ Tick \/ AppSend \/ SendStep) => IInv'
<1> SUFFICES ASSUME IInv, ServerStep \/ Tick \/ AppSend \/ SendStep PROVE IInv'
  OBVIOUS
<1> USE ClientAssumption DEF IInv, TypeOK, TriesInv, ThreadInv, Inside, kernel, fifos, ages
<1>1. ASSUME NEW c \in Conn, ServerClose(c) PROVE IInv'
  BY <1>1, SocketKept DEF ServerClose
<1>2. ASSUME NEW c \in Conn, ServerSend(c) PROVE IInv'
  <2>1. "pass_through" \in Commands
    BY <1>2 DEF ServerSend
  <2>2. inbox' \in [Conn -> Seq(Commands)]
    BY <1>2, <2>1 DEF ServerSend
  <2>3. QED
    BY <1>2, <2>2, SocketKept DEF ServerSend
<1>3. CASE Tick
  <2>1. send_age' \in 0 .. SEND_KEEP_ALIVE_TIME /\ recv_age' \in 0 .. KEEP_ALIVE_TIMEOUT_TIME
    BY <1>3 DEF Tick
  <2>2. QED
    BY <1>3, <2>1, SocketKept DEF Tick
<1>4. CASE AppSend
  <2>1. <<"pass_through">> \in Seq(Commands)
    BY <1>4 DEF AppSend
  <2>2. send_fifo' \in Seq(Commands)
    BY <1>4, <2>1, WrittenType DEF AppSend
  <2>3. QED
    BY <1>4, <2>2, SocketKept DEF AppSend
<1>5. ASSUME NEW answered \in BOOLEAN, SendPacket(answered) PROVE IInv'
  <2>1. Head(send_fifo) \in Commands /\ send_fifo' \in Seq(Commands)
    BY <1>5 DEF SendPacket
  <2>2. inbox' \in [Conn -> Seq(Commands)]
    BY <1>5, <2>1 DEF SendPacket
  <2>3. QED
    BY <1>5, <2>1, <2>2, SocketKept DEF SendPacket
<1>6. QED
  BY <1>1, <1>2, <1>3, <1>4, <1>5 DEF ServerStep, SendStep

\* The recv thread.
LEMMA RecvKeepsInv == IInv /\ RecvStep => IInv'
<1> SUFFICES ASSUME IInv, RecvStep PROVE IInv'
  OBVIOUS
<1> USE ClientAssumption DEF IInv, TypeOK, TriesInv, ThreadInv, Inside, kernel, fifos, ages
<1>1. Lookup(tcp_socketfd) \in Conn \cup {Closed, Stdin}
  BY DEF Lookup
<1>2. CASE RecvCheck
  BY <1>2, SocketKept DEF RecvCheck
<1>3. CASE RecvSelect
  BY <1>1, <1>3, SocketKept DEF RecvSelect, RecvIdle
<1>4. CASE RecvTimeout
  BY <1>4, SocketKept DEF RecvTimeout, RecvIdle
<1>5. CASE RecvCall
  BY <1>1, <1>5, SocketKept DEF RecvCall
<1>6. CASE RecvData
  <2>1. recv.conn \in Conn /\ inbox[recv.conn] \in Seq(Commands)
    BY <1>6 DEF RecvData
  <2>2. recv_fifo' \in Seq(Commands)
    BY <1>6, <2>1, WrittenType DEF RecvData
  <2>3. QED
    BY <1>6, <2>1, <2>2, SocketKept DEF RecvData, RecvIdle
<1>7. CASE RecvLost
  <2>1. closing' \in [Closer -> {"no", "check", "close", "zero", "status"}]
    BY <1>7 DEF RecvLost, StartClose
  <2>2. closing["recv"] = "no" /\ \A t \in Closer : t # "recv" => closing'[t] = closing[t]
    BY <1>7 DEF RecvLost, StartClose, Closer
  <2>3. QED
    BY <1>7, <2>1, <2>2, SocketKept DEF RecvLost, RecvIdle, Closer
<1>8. QED
  BY <1>2, <1>3, <1>4, <1>5, <1>6, <1>7 DEF RecvStep

\* The handle thread.
LEMMA HandleKeepsInv == IInv /\ HandleStep => IInv'
<1> SUFFICES ASSUME IInv, HandleStep PROVE IInv'
  OBVIOUS
<1> USE ClientAssumption DEF IInv, TypeOK, TriesInv, ThreadInv, Inside, kernel, fifos, ages
<1>1. CASE HandleLogin
  <2>1. recv_fifo' \in Seq(Commands)
    BY <1>1 DEF HandleLogin
  <2>2. QED
    BY <1>1, <2>1, SocketKept DEF HandleLogin
<1>2. CASE HandleConnect
  BY <1>2, SocketKept DEF HandleConnect
<1>3. CASE HandleKeepAlive
  BY <1>3, SocketKept DEF HandleKeepAlive
<1>4. CASE HandlePassThrough
  BY <1>4, SocketKept DEF HandlePassThrough
<1>5. QED
  BY <1>1, <1>2, <1>3, <1>4 DEF HandleStep

\* The keep-alive thread.
LEMMA KeepAliveKeepsInv == IInv /\ KeepAliveStep => IInv'
<1> SUFFICES ASSUME IInv, KeepAliveStep PROVE IInv'
  OBVIOUS
<1> USE ClientAssumption DEF IInv, TypeOK, TriesInv, ThreadInv, Inside, kernel, fifos, ages
<1>1. CASE KeepAliveSend
  <2>1. Written(send_fifo, <<"keep_alive">>, SendFifoPackets) \in Seq(Commands)
    BY SentType
  <2>2. QED
    BY <1>1, <2>1, SocketKept DEF KeepAliveSend
<1>2. CASE KeepAliveTimeout
  <2>1. closing' \in [Closer -> {"no", "check", "close", "zero", "status"}]
    BY <1>2 DEF KeepAliveTimeout, StartClose
  <2>2. /\ closing["keep_alive"] = "no"
        /\ \A t \in Closer : t # "keep_alive" => closing'[t] = closing[t]
    BY <1>2 DEF KeepAliveTimeout, StartClose, Closer
  <2>3. QED
    BY <1>2, <2>1, <2>2, SocketKept DEF KeepAliveTimeout, Closer
<1>3. QED
  BY <1>1, <1>2 DEF KeepAliveStep

\* The reconnect thread.
LEMMA ReconnectKeepsInv == IInv /\ ReconnectStep => IInv'
<1> SUFFICES ASSUME IInv, ReconnectStep PROVE IInv'
  OBVIOUS
<1> USE ClientAssumption DEF IInv, TypeOK, TriesInv, ThreadInv, Inside, kernel, fifos, ages
<1>a. reconnect \in ReconnectType
  BY DEF ReconnectType
<1>1. CASE ReconnectCheck
  <2>1. SocketInv'
    BY <1>1 DEF ReconnectCheck, SocketInv, SocketOpen, Connected, Lookup
  <2>2. QED
    BY <1>1, <2>1 DEF ReconnectCheck, ReconnectPc
<1>2. ASSUME NEW fd \in Fd, Connect(fd) PROVE IInv'
  <2>1. connects' \in Conn /\ connects' \in 0 .. MaxConnects
    <3>1. connects \in 0 .. MaxConnects /\ connects < MaxConnects /\ connects' = connects + 1
      BY <1>2 DEF Connect
    <3>2. QED
      BY <3>1 DEF Conn
  <2>2. conn' \in [Fd -> Conn \cup {Closed, Stdin}] /\ conn'[fd] \in Conn
    BY <1>2, <2>1 DEF Connect
  <2>3. SocketInv'
    BY <1>2, <2>2 DEF Connect, SocketInv, SocketOpen, Connected, Lookup
  <2>4. QED
    BY <1>2, <2>1, <2>2, <2>3 DEF Connect, ReconnectPc
<1>3. CASE ConnectFail
  <2>1. SocketInv'
    BY <1>3 DEF ConnectFail, SocketInv, SocketOpen, Connected, Lookup
  <2>2. QED
    BY <1>3, <2>1 DEF ConnectFail, ReconnectPc
<1>4. CASE ReconnectStore
  <2>1. SocketInv'
    BY <1>4 DEF ReconnectStore, SocketInv, SocketOpen, Connected, Lookup, Fd
  <2>2. 0 \in Fd
    BY DEF Fd
  <2>3. QED
    BY <1>4, <2>1, <2>2 DEF ReconnectStore, ReconnectPc
<1>5. CASE LoggedIn
  BY <1>5, SocketKept DEF LoggedIn, ReconnectPc
<1>6. CASE Login
  <2>1. Written(send_fifo, <<"login">>, SendFifoPackets) \in Seq(Commands)
    BY SentType
  <2>2. reconnect' \in ReconnectType /\ reconnect'.pc = "load"
    BY <1>6, <1>a DEF Login, ReconnectType, ReconnectPc
  <2>3. SocketInv'
    BY <1>6, <2>2, SocketKept DEF Login
  <2>4. 0 \in 0 .. SEND_KEEP_ALIVE_TIME
    OBVIOUS
  <2>5. QED
    BY <1>6, <2>1, <2>2, <2>3, <2>4 DEF Login, ReconnectType
<1>7. CASE LoginLoad
  <2>1. send_log_num \in 0 .. LoginTries - 1
    BY <1>7 DEF LoginLoad
  <2>2. reconnect' \in ReconnectType /\ reconnect'.pc = "increment"
    BY <1>7, <1>a, <2>1 DEF LoginLoad, ReconnectType, ReconnectPc
  <2>3. QED
    BY <1>7, <2>2, SocketKept DEF LoginLoad, ReconnectType
<1>8. CASE LoginStore
  <2>1. reconnect.load \in 0 .. LoginTries - 1
    BY <1>a DEF ReconnectType
  <2>2. send_log_num' \in 0 .. LoginTries
    BY <1>8, <2>1, OneMoreTry DEF LoginStore
  <2>3. reconnect' \in ReconnectType /\ reconnect'.pc = "tries"
    <3>1. "tries" \in ReconnectPc /\ 0 \in 0 .. LoginTries - 1
      BY <2>1, OneMoreTry DEF ReconnectPc
    <3>2. QED
      BY <1>8, <3>1, ReconnectMoves DEF LoginStore
  <2>4. QED
    BY <1>8, <2>2, <2>3, SocketKept DEF LoginStore, ReconnectType
<1>9. CASE LoginGiveUp
  <2>1. closing' \in [Closer -> {"no", "check", "close", "zero", "status"}]
    BY <1>9 DEF LoginGiveUp, StartClose
  <2>2. /\ closing["reconnect"] = "no"
        /\ \A t \in Closer : t # "reconnect" => closing'[t] = closing[t]
    BY <1>9 DEF LoginGiveUp, StartClose, Closer
  <2>3. reconnect' \in ReconnectType /\ reconnect'.pc = "check"
    BY <1>9, <1>a DEF LoginGiveUp, ReconnectType, ReconnectPc
  <2>4. 0 \in 0 .. LoginTries /\ 0 < LoginTries
    OBVIOUS
  <2>5. SocketInv'
    BY <1>9, <2>2, <2>3, SocketKept DEF LoginGiveUp
  <2>6. ThreadInv'
    BY <1>9, <2>2, <2>3 DEF LoginGiveUp, Closer
  <2>7. QED
    BY <1>9, <2>1, <2>3, <2>4, <2>5, <2>6 DEF LoginGiveUp, ReconnectType
<1>10. CASE LoginRetry
  BY <1>10, SocketKept DEF LoginRetry, ReconnectPc
<1>11. QED
  BY <1>1, <1>2, <1>3, <1>4, <1>5, <1>6, <1>7, <1>8, <1>9, <1>10 DEF ReconnectStep

\* tcp_close_client_connect, in any of its threads.
LEMMA CloseKeepsInv ==
  ASSUME IInv, NEW t \in Closer, CloseStep(t)
  PROVE  IInv'
<1> USE ClientAssumption DEF IInv, TypeOK, TriesInv, ThreadInv, Inside, kernel, fifos, ages
<1>1. CASE CloseCheck(t)
  BY <1>1, SocketKept DEF CloseCheck
<1>2. CASE CloseFd(t)
  <2>1. /\ conn' \in [Fd -> Conn \cup {Closed, Stdin}]
        /\ inbox' \in [Conn -> Seq(Commands)] /\ ended' \in [Conn -> BOOLEAN]
    BY <1>2 DEF CloseFd, Close
  <2>2. closing'[t] = "zero"
    BY <1>2 DEF CloseFd
  <2>3. SocketInv'
    <3>1. tcp_socketfd' = tcp_socketfd /\ reconnect' = reconnect
      BY <1>2, <2>2 DEF CloseFd
    <3>2. \A f \in Fd : f # tcp_socketfd => conn'[f] = conn[f]
      BY <1>2 DEF CloseFd, Close
    <3>3. reconnect'.pc = "store" /\ reconnect'.fd > 0 => Connected(reconnect.fd)'
      BY <3>1, <3>2, StoreKept
    <3>4. SocketOpen'
      BY <2>2 DEF SocketOpen
    <3>5. QED
      BY <3>1, <3>3, <3>4 DEF SocketInv
  <2>4. QED
    BY <1>2, <2>1, <2>3 DEF CloseFd
<1>3. CASE CloseZero(t)
  <2>1. 0 \in Fd
    BY DEF Fd
  <2>2. SocketInv'
    BY <1>3 DEF CloseZero, SocketInv, SocketOpen, Connected, Lookup
  <2>3. QED
    BY <1>3, <2>1, <2>2 DEF CloseZero
<1>4. CASE CloseStatus(t)
  BY <1>4, SocketKept DEF CloseStatus
<1>5. QED
  BY <1>1, <1>2, <1>3, <1>4 DEF CloseStep

\* No step breaks the invariant.
LEMMA InvStep == IInv /\ [Next]_vars => IInv'
<1> SUFFICES ASSUME IInv, [Next]_vars PROVE IInv'
  OBVIOUS
<1>1. CASE UNCHANGED vars
  BY <1>1, SocketKept DEF vars, IInv, TypeOK, TriesInv, ThreadInv, Inside, kernel, fifos, ages
<1>2. QED
  BY <1>1, OthersKeepInv, RecvKeepsInv, HandleKeepsInv, ReconnectKeepsInv,
     KeepAliveKeepsInv, CloseKeepsInv DEF Next

\* However the five threads interleave, every field keeps its type, and the
\* count of logins never passes the number of tries.
THEOREM TypeCorrect == Spec => []TypeOK
<1>1. IInv => TypeOK
  BY DEF IInv
<1>2. QED
  BY InvInit, InvStep, <1>1, PTL DEF Spec

\* However the three closing threads and the reconnect thread interleave, a
\* dead descriptor stays in tcp_socketfd only until the thread that closed it
\* resets it.
THEOREM SocketStaysOpen == Spec => []SocketOpen
<1>1. IInv => SocketOpen
  BY DEF IInv, SocketInv
<1>2. QED
  BY InvInit, InvStep, <1>1, PTL DEF Spec

-----------------------------------------------------------------------------
(* SerialSpec.  NothingLeaks is not inductive: a thread between the check  *)
(* and the close must still have the descriptor it checked.  AloneInv adds *)
(* that, and what the reset relies on.                                     *)

AloneInv ==
  /\ Alone
  /\ \A t \in Closer : closing[t] \in {"close", "zero"} => tcp_socketfd > 0
  /\ \A t \in Closer : closing[t] = "zero" => ~Connected(tcp_socketfd)
  /\ NothingLeaks

SerialInv == IInv /\ AloneInv

\* tcp_client_mod_init establishes it.
LEMMA AloneInit == Init => AloneInv
<1> SUFFICES ASSUME Init PROVE AloneInv
  OBVIOUS
<1>1. 0 \in Fd /\ \A f \in Fd : conn[f] \notin Conn /\ conn[0] = Stdin
  BY ClientAssumption, NotConn DEF Init, Fd
<1>2. Alone /\ \A t \in Closer : closing[t] = "no"
  BY DEF Init, Alone, Inside
<1>3. NothingLeaks
  BY <1>1 DEF NothingLeaks, Connected, Lookup
<1>4. QED
  BY <1>2, <1>3 DEF AloneInv

\* A step that moves no descriptor and no closing thread past the check, and
\* leaves the reconnect thread's pending descriptor alone, keeps it.
LEMMA AloneKept ==
  ASSUME AloneInv, Alone', UNCHANGED <<conn, tcp_socketfd>>,
         \A t \in Closer : closing'[t] \in {"close", "zero"} => closing'[t] = closing[t],
         reconnect.pc = "store" => reconnect' = reconnect
  PROVE  AloneInv'
  BY DEF AloneInv, NothingLeaks, Connected, Lookup

\* While another thread closes with the descriptor it checked, the reconnect
\* thread neither connects nor stores.
LEMMA ConnectAlone ==
  ASSUME SerialInv, reconnect.pc \in {"connect", "store"}
  PROVE  /\ tcp_socketfd <= 0
         /\ \A t \in Closer : closing[t] \notin {"close", "zero"}
<1>1. tcp_socketfd <= 0 /\ tcp_socketfd \in Fd \cup {-1}
  BY DEF SerialInv, IInv, SocketInv, TypeOK
<1>2. ~(tcp_socketfd > 0)
  BY <1>1 DEF Fd
<1>3. QED
  BY <1>1, <1>2 DEF SerialInv, AloneInv

\* The reconnect thread.
LEMMA ReconnectKeepsAlone == SerialInv /\ ReconnectStep /\ Alone' => AloneInv'
<1> SUFFICES ASSUME SerialInv, ReconnectStep, Alone' PROVE AloneInv'
  OBVIOUS
<1>t. TypeOK /\ SocketInv /\ AloneInv /\ IInv
  BY DEF SerialInv, IInv
<1>1. ASSUME NEW fd \in Fd, Connect(fd) PROVE AloneInv'
  <2>1. /\ conn[fd] = Closed /\ \A f \in Fd \ {fd} : conn'[f] = conn[f]
        /\ conn'[fd] = connects' /\ tcp_socketfd' = tcp_socketfd /\ closing' = closing
        /\ reconnect'.pc = "store" /\ reconnect'.fd = fd
    BY <1>1, <1>t DEF Connect, TypeOK, FreeFd
  <2>2. \A t \in Closer : closing[t] \notin {"close", "zero"}
    BY <1>1, ConnectAlone DEF Connect
  <2>3. conn[0] = Stdin /\ fd # 0
    BY <1>t, <2>1 DEF AloneInv, NothingLeaks, Closed, Stdin
  <2>4. \A f \in Fd : Connected(f) => f = tcp_socketfd
    BY <1>1, <1>t DEF AloneInv, NothingLeaks, Connect
  <2>5. \A f \in Fd : Connected(f)' => f = tcp_socketfd \/ f = fd
    BY <2>1, <2>4 DEF Connected, Lookup
  <2>6. 0 \in Fd
    BY ClientAssumption DEF Fd
  <2>7. NothingLeaks'
    BY <2>1, <2>3, <2>5, <2>6 DEF NothingLeaks
  <2>8. QED
    BY <2>1, <2>2, <2>7 DEF AloneInv
<1>2. CASE ReconnectStore
  <2>1. /\ conn' = conn /\ closing' = closing /\ tcp_socketfd' = reconnect.fd
        /\ reconnect.pc = "store"
    BY <1>2 DEF ReconnectStore, kernel
  <2>2. tcp_socketfd <= 0 /\ \A t \in Closer : closing[t] \notin {"close", "zero"}
    BY <2>1, ConnectAlone
  <2>3. \A f \in Fd : Connected(f) => f # tcp_socketfd
    <3> SUFFICES ASSUME NEW f \in Fd, Connected(f), f = tcp_socketfd PROVE FALSE
      OBVIOUS
    <3>1. f = 0
      BY <2>2, ClientAssumption DEF Fd
    <3>2. QED
      BY <1>t, <3>1, NotConn DEF AloneInv, NothingLeaks, Connected, Lookup
  <2>4. NothingLeaks'
    BY <1>t, <2>1, <2>3 DEF AloneInv, NothingLeaks, Connected, Lookup
  <2>5. QED
    BY <2>1, <2>2, <2>4 DEF AloneInv
<1>3. CASE LoginGiveUp
  BY <1>3, <1>t, AloneKept DEF LoginGiveUp, StartClose, kernel, TypeOK
<1>4. CASE ReconnectCheck \/ ConnectFail \/ LoggedIn \/ Login \/ LoginLoad \/ LoginStore \/ LoginRetry
  <2>1. reconnect.pc # "store" /\ UNCHANGED <<conn, tcp_socketfd, closing>>
    BY <1>4 DEF ReconnectCheck, ConnectFail, LoggedIn, Login, LoginLoad, LoginStore,
                LoginRetry, kernel
  <2>2. QED
    BY <1>t, <2>1, AloneKept
<1>5. QED
  BY <1>1, <1>2, <1>3, <1>4 DEF ReconnectStep

\* tcp_close_client_connect, with no other thread in it.
LEMMA CloseKeepsAlone ==
  ASSUME SerialInv, NEW t \in Closer, CloseStep(t), Alone'
  PROVE  AloneInv'
<1>t. TypeOK /\ SocketInv /\ AloneInv /\ IInv
  BY DEF SerialInv, IInv
<1>a. \A u \in Closer : Inside(t) /\ u # t => closing[u] = "no"
  BY <1>t DEF AloneInv, Alone, Inside
<1>1. CASE CloseCheck(t)
  <2>1. UNCHANGED <<conn, tcp_socketfd, reconnect>>
    BY <1>1 DEF CloseCheck, kernel
  <2>2. /\ closing'[t] \in {"close", "status"} /\ (closing'[t] = "close" => tcp_socketfd > 0)
        /\ \A u \in Closer : u # t => closing'[u] = closing[u]
    BY <1>1, <1>t DEF CloseCheck, TypeOK
  <2>3. NothingLeaks'
    BY <1>t, <2>1 DEF AloneInv, NothingLeaks, Connected, Lookup
  <2>4. QED
    BY <1>t, <2>1, <2>2, <2>3 DEF AloneInv, Connected, Lookup
<1>2. CASE CloseFd(t)
  <2>1. /\ tcp_socketfd' = tcp_socketfd /\ reconnect' = reconnect /\ tcp_socketfd > 0
        /\ closing[t] = "close" /\ closing'[t] = "zero"
        /\ \A u \in Closer : u # t => closing'[u] = closing[u]
        /\ conn' = [f \in Fd |-> IF f = tcp_socketfd THEN Closed ELSE conn[f]]
    BY <1>2, <1>t DEF CloseFd, Close, TypeOK, AloneInv
  <2>2. \A f \in Fd : Connected(f)' => Connected(f)
    BY <2>1, NotConn DEF Connected, Lookup
  <2>3. ~Connected(tcp_socketfd)'
    BY <2>1, NotConn DEF Connected, Lookup
  <2>4. 0 \in Fd /\ 0 # tcp_socketfd
    BY <2>1, ClientAssumption DEF Fd
  <2>5. NothingLeaks'
    BY <1>t, <2>1, <2>2, <2>4 DEF AloneInv, NothingLeaks
  <2>6. QED
    BY <1>a, <2>1, <2>3, <2>5 DEF AloneInv, Inside, Connected, Lookup
<1>3. CASE CloseZero(t)
  <2>1. /\ tcp_socketfd' = 0 /\ conn' = conn /\ reconnect' = reconnect
        /\ closing[t] = "zero" /\ closing'[t] = "status"
        /\ \A u \in Closer : u # t => closing'[u] = closing[u]
    BY <1>3, <1>t DEF CloseZero, TypeOK, kernel
  <2>2. ~Connected(tcp_socketfd)
    BY <1>t, <2>1 DEF AloneInv
  <2>3. NothingLeaks'
    BY <1>t, <2>1, <2>2 DEF AloneInv, NothingLeaks, Connected, Lookup
  <2>4. QED
    BY <1>a, <2>1, <2>3 DEF AloneInv, Inside
<1>4. CASE CloseStatus(t)
  BY <1>4, <1>t, AloneKept DEF CloseStatus, kernel, TypeOK
<1>5. QED
  BY <1>1, <1>2, <1>3, <1>4 DEF CloseStep

\* The other threads and the outside move no descriptor.
LEMMA OthersKeepAlone ==
  ASSUME SerialInv, Alone',
         \/ SendStep \/ RecvStep \/ HandleStep \/ KeepAliveStep
         \/ ServerStep \/ Tick \/ AppSend
  PROVE  AloneInv'
<1>t. TypeOK /\ AloneInv
  BY DEF SerialInv, IInv
<1>1. UNCHANGED <<conn, tcp_socketfd, reconnect>>
  BY DEF SendStep, SendPacket, RecvStep, RecvCheck, RecvSelect, RecvTimeout, RecvCall, RecvData,
         RecvLost, HandleStep, HandleLogin, HandleConnect, HandleKeepAlive, HandlePassThrough,
         KeepAliveStep, KeepAliveSend, KeepAliveTimeout, ServerStep, ServerClose, ServerSend,
         Tick, AppSend, kernel
<1>2. closing' = closing \/ \E t \in Closer : StartClose(t)
  BY DEF SendStep, SendPacket, RecvStep, RecvCheck, RecvSelect, RecvTimeout, RecvCall, RecvData,
         RecvLost, HandleStep, HandleLogin, HandleConnect, HandleKeepAlive, HandlePassThrough,
         KeepAliveStep, KeepAliveSend, KeepAliveTimeout, ServerStep, ServerClose, ServerSend,
         Tick, AppSend, Closer
<1>3. \A t \in Closer : closing'[t] \in {"close", "zero"} => closing'[t] = closing[t]
  BY <1>2, <1>t DEF StartClose, TypeOK
<1>4. QED
  BY <1>t, <1>1, <1>3, AloneKept

\* As long as at most one thread at a time is in tcp_close_client_connect,
\* every open connection is known and standard input stays open.
THEOREM NothingLeaksAlone == SerialSpec => []NothingLeaks
<1>1. Init => SerialInv
  BY InvInit, AloneInit DEF SerialInv
<1>2. SerialInv /\ [Next /\ Alone']_vars => SerialInv'
  <2> SUFFICES ASSUME SerialInv, [Next /\ Alone']_vars PROVE SerialInv'
    OBVIOUS
  <2>1. IInv'
    BY InvStep DEF SerialInv
  <2>2. CASE UNCHANGED vars
    <3>1. UNCHANGED <<conn, tcp_socketfd, reconnect, closing>>
      BY <2>2 DEF vars, kernel
    <3>2. Alone' /\ AloneInv
      BY <3>1 DEF SerialInv, AloneInv, Alone, Inside
    <3>3. QED
      BY <2>1, <3>1, <3>2, AloneKept DEF SerialInv
  <2>3. CASE Next /\ Alone'
    BY <2>1, <2>3, ReconnectKeepsAlone, CloseKeepsAlone, OthersKeepAlone DEF Next, SerialInv
  <2>4. QED
    BY <2>2, <2>3
<1>3. SerialInv => NothingLeaks
  BY DEF SerialInv, AloneInv
<1>4. QED
  BY <1>1, <1>2, <1>3, PTL DEF SerialSpec

=============================================================================
