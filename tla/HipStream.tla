------------------------------ MODULE HipStream ------------------------------
(***************************************************************************)
(* hip_mod/hip_mod.c and the three pipes that HIP packets take through a   *)
(* fifo as a stream of bytes:                                              *)
(*                                                                         *)
(*   client_send   tcp_client_mod_send to tcp_client_send_pthread;         *)
(*   client_recv   tcp_client_recv_pthread to its handle thread;           *)
(*   server_recv   tcp_server_recv_pthread to its handle thread.           *)
(*                                                                         *)
(* TcpClient and TcpServer pass whole packets; here recv returns any part  *)
(* of what has come, the fifo fills byte by byte (Fifo is its detail, one  *)
(* writer at a time), and the reader finds the packets again.  What a      *)
(* reader does that has lost the packets is modelled too, up to the point  *)
(* where it writes past its buffer, "overrun".                             *)
(***************************************************************************)
EXTENDS Integers, Sequences, FiniteSets, SequencesExt, Bytes

CONSTANTS
  FifoSize,             \* TCP_FIFO_SIZE
  BYTE_PACK_HEAD_SIZE,
  TEMP_BUF_SIZE,
  PackSlots,            \* the packets msg_data_pack has room for
  LocalIp,              \* the bytes of what get_local_ip finds
  Packets,              \* the packets that are sent: records of cmd and data
  Traffic,              \* for either end, what its connections may carry
  MaxPackets,           \* bound: packets the client sends
  ChunkSizes            \* bound: the numbers of bytes recv may return

LOGIN == 2
KEEP_ALIVE == 3
PASS_THROUGH == 7

Byte == 0 .. 255

ASSUME HipAssumption ==
  /\ FifoSize \in Nat \ {0} /\ PackSlots \in Nat \ {0} /\ MaxPackets \in Nat
  /\ BYTE_PACK_HEAD_SIZE = 17 /\ TEMP_BUF_SIZE \in 34 .. 256
  /\ LocalIp \in Seq(Byte) /\ Len(LocalIp) \in 7 .. 15
  /\ \A n \in ChunkSizes : n \in Nat /\ n > 0 /\ n <= 1024   \* the larger recv buffer

ASSUME PacketAssumption ==
  /\ Packets \subseteq [cmd : {LOGIN, KEEP_ALIVE, PASS_THROUGH}, data : Seq(Byte)]
  /\ \A p \in Packets : Len(p.data) <= TEMP_BUF_SIZE - 17   \* longer ones overrun the sender's buffer

ASSUME TrafficAssumption ==
  /\ Traffic["client_recv"] \subseteq [{0} -> Seq(Packets)]
  /\ \A s \in Traffic["server_recv"] :
       DOMAIN s \subseteq Byte /\ s \in [DOMAIN s -> Seq(Packets)]

\* The server sends nothing but answers (tcp_server_cmd_deal; tcp_mod_send is
\* called at a client only), and inet_ntop writes digits and dots.
ASSUME AnswerAssumption ==
  /\ \A s \in Traffic["client_recv"] : \A i \in 1 .. Len(s[0]) : s[0][i].cmd # PASS_THROUGH
  /\ \A i \in 1 .. Len(LocalIp) : LocalIp[i] \in {46} \cup 48 .. 57

VARIABLES
  pipe,     \* which of the three
  sent,     \* connection -> the packets sent
  net,      \* connection -> the bytes recv has not returned
  chunk,    \* what the writer still has to put into the fifo,
  waiting,  \* and whether it waits for room first
  fifo,
  handle,   \* where the reader is, and its local variables
  handled,  \* connection -> the packets it has handled (history)
  regular   \* whole packets, and not too many of them, have come so far (history)

vars == <<pipe, sent, net, chunk, waiting, fifo, handle, handled, regular>>

-----------------------------------------------------------------------------
(* hip_mod                                                                 *)

HiLo(len) == <<len \div 256, len % 256>>
Head17(cmd, len) ==
  <<1, cmd>> \o HiLo(len) \o <<1, 0, 0, 0, 12, 41, 230, 250, 99>> \o <<cmd, cmd, cmd, cmd>>

hip_pack_tcp_data(p) == Head17(p.cmd, 2 + Len(LocalIp)) \o <<250, 99>> \o LocalIp

hip_pack_uart_data(p) == Head17(p.cmd, Len(p.data)) \o p.data

\* The caller takes as many bytes as the lengths, or'ed, say.
hip_mod_pack(p) ==
  LET bytes == IF p.cmd = PASS_THROUGH THEN hip_pack_uart_data(p) ELSE hip_pack_tcp_data(p)
  IN  SubSeq(bytes, 1, BYTE_PACK_HEAD_SIZE + BitOr(bytes[3], bytes[4]))

Stream(packets) == FlattenSeq([i \in 1 .. Len(packets) |-> hip_mod_pack(packets[i])])

-----------------------------------------------------------------------------
(* State                                                                   *)

\* The reader waits for a header ("head"), the rest of a packet ("data"), or
\* at the server first for a chunk ("fd").
Idle(pp) == [pc |-> IF pp = "server_recv" THEN "fd" ELSE "head",
             fd |-> 0, size |-> <<>>, read |-> 0, head |-> <<>>, packs |-> <<>>]

Init ==
  /\ pipe \in {"client_send", "client_recv", "server_recv"}
  /\ sent \in IF pipe = "client_send" THEN {[f \in {0} |-> <<>>]} ELSE Traffic[pipe]
  /\ net = [f \in DOMAIN sent |-> Stream(sent[f])]
  /\ chunk = <<>> /\ waiting = FALSE /\ fifo = <<>>
  /\ handle = Idle(pipe)
  /\ handled = [f \in DOMAIN sent |-> <<>>]
  /\ regular = TRUE

Writeable == FifoSize - 1 - Len(fifo)
Drop(s, n) == SubSeq(s, n + 1, Len(s))
Overrun == [pc |-> "overrun"]

-----------------------------------------------------------------------------
(* The writers                                                             *)

\* tcp_client_mod_send; a packet that does not fit is dropped, no trace left.
ClientSend(p) ==
  LET bytes == hip_mod_pack(p) IN
  /\ pipe = "client_send" /\ chunk = <<>>
  /\ Len(sent[0]) < MaxPackets
  /\ Len(bytes) <= Writeable
  /\ chunk' = bytes
  /\ sent' = [sent EXCEPT ![0] = Append(@, p)]
  /\ UNCHANGED <<pipe, net, waiting, fifo, handle, handled, regular>>

\* What n bytes of connection f are: whole packets, or not.
CutsNone(f, n) ==
  \E k \in 0 .. Len(sent[f]) : Drop(net[f], n) = Stream(Drop(sent[f], k))
PacketsIn(f, n) ==
  Cardinality({k \in 1 .. Len(sent[f]) :
                 Len(Stream(Drop(sent[f], k - 1))) \in Len(net[f]) - n + 1 .. Len(net[f])})

\* Mutant: what recv returned before is still in recvbuf, and written again.
ClientRecvAgain(n) ==
  LET all == SubSeq(Stream(sent[0]), 1, Len(Stream(sent[0])) - Len(net[0]) + n) IN
  /\ pipe = "client_recv" /\ chunk = <<>>
  /\ n <= Len(net[0])
  /\ net' = [net EXCEPT ![0] = Drop(@, n)]
  /\ IF Len(all) <= Writeable
     THEN chunk' = all /\ UNCHANGED regular
     ELSE regular' = FALSE /\ UNCHANGED chunk
  /\ UNCHANGED <<pipe, sent, waiting, fifo, handle, handled>>

\* recv at the client; fifo_write's refusal is ignored.
ClientRecv(n) ==
  /\ pipe = "client_recv" /\ chunk = <<>>
  /\ n <= Len(net[0])
  /\ net' = [net EXCEPT ![0] = Drop(@, n)]
  /\ IF n <= Writeable
     THEN chunk' = SubSeq(net[0], 1, n) /\ UNCHANGED regular
     ELSE regular' = FALSE /\ UNCHANGED chunk
  /\ UNCHANGED <<pipe, sent, waiting, fifo, handle, handled>>

\* recv at the server, and what recv_data_write_fifo puts before the data.
ServerRecv(f, n) ==
  /\ pipe = "server_recv" /\ chunk = <<>>
  /\ n <= Len(net[f])
  /\ net' = [net EXCEPT ![f] = Drop(@, n)]
  /\ chunk' = <<f, 0, 0>> \o HiLo(n) \o SubSeq(net[f], 1, n)
  /\ waiting' = TRUE
  /\ regular' = (regular /\ CutsNone(f, n) /\ PacketsIn(f, n) <= PackSlots /\ n + 5 < FifoSize - 1)
  /\ UNCHANGED <<pipe, sent, fifo, handle, handled>>

\* Mutant: the wait leaves the five bytes before the data out.
ServerRoomForData ==
  /\ waiting /\ Writeable > Len(chunk) - 5
  /\ waiting' = FALSE
  /\ UNCHANGED <<pipe, sent, net, chunk, fifo, handle, handled, regular>>

ServerRoom ==
  /\ waiting /\ Writeable > Len(chunk)
  /\ waiting' = FALSE
  /\ UNCHANGED <<pipe, sent, net, chunk, fifo, handle, handled, regular>>

\* fifo_write's loop.
Store ==
  /\ ~waiting /\ chunk # <<>>
  /\ fifo' = Append(fifo, Head(chunk))
  /\ chunk' = Tail(chunk)
  /\ UNCHANGED <<pipe, sent, net, waiting, handle, handled, regular>>

WriteStep == ServerRoom \/ Store
RecvStep  == \E n \in ChunkSizes : ClientRecv(n) \/ \E f \in DOMAIN sent : ServerRecv(f, n)

-----------------------------------------------------------------------------
(* The readers                                                             *)

\* tcp_server_recv_handle_pthread: the descriptor and the length of a chunk.
ServerTake ==
  /\ handle.pc = "fd" /\ Len(fifo) >= 5
  /\ handle' = [handle EXCEPT !.pc = "head", !.fd = fifo[1], !.size = SubSeq(fifo, 2, 5)]
  /\ fifo' = Drop(fifo, 5)
  /\ UNCHANGED <<pipe, sent, net, chunk, waiting, handled, regular>>

\* All three: a header.  The server has PackSlots places for packets.
TakeHead ==
  /\ handle.pc = "head" /\ Len(fifo) >= BYTE_PACK_HEAD_SIZE
  /\ handle' = IF Len(handle.packs) = PackSlots THEN Overrun
               ELSE [handle EXCEPT !.pc = "data", !.head = SubSeq(fifo, 1, BYTE_PACK_HEAD_SIZE),
                                   !.read = IF pipe = "server_recv" THEN @ + BYTE_PACK_HEAD_SIZE ELSE @]
  /\ fifo' = Drop(fifo, BYTE_PACK_HEAD_SIZE)
  /\ UNCHANGED <<pipe, sent, net, chunk, waiting, handled, regular>>

LengthOred == BitOr(handle.head[3], handle.head[4])
LengthHiLo == 256 * handle.head[3] + handle.head[4]
Taken(n)   == [cmd |-> handle.head[2], data |-> SubSeq(fifo, 1, n)]

\* cmd_deal; a descriptor that is garbage has no connection.
Handles(f, packs) == handled' = [handled EXCEPT ![f] = @ \o packs]

\* Mutant: the wait is for one byte more than the packet has.
ClientSendDataStrict ==
  /\ pipe = "client_send" /\ handle.pc = "data"
  /\ Len(fifo) > LengthOred
  /\ Handles(0, <<Taken(LengthOred)>>)
  /\ handle' = Idle(pipe)
  /\ fifo' = Drop(fifo, LengthOred)
  /\ UNCHANGED <<pipe, sent, net, chunk, waiting, regular>>

\* get_send_data waits for the rest of the packet, and send takes it.
ClientSendData ==
  /\ pipe = "client_send" /\ handle.pc = "data"
  /\ Len(fifo) >= LengthOred
  /\ Handles(0, <<Taken(LengthOred)>>)
  /\ handle' = Idle(pipe)
  /\ fifo' = Drop(fifo, LengthOred)
  /\ UNCHANGED <<pipe, sent, net, chunk, waiting, regular>>

\* The client's handle thread waits for more bytes than the high byte of the
\* length and takes what is there.  deal_buf has no room for every length.
\* What goes to cmd_deal as the data is temp_buf from its beginning: the header
\* once more.  (What older packets left in temp_buf may follow; left out.)
ClientData ==
  LET n == Min({Len(fifo), LengthOred}) IN
  /\ pipe = "client_recv" /\ handle.pc = "data"
  /\ Len(fifo) > handle.head[3]
  /\ IF BYTE_PACK_HEAD_SIZE + LengthOred > TEMP_BUF_SIZE
     THEN handle' = Overrun /\ UNCHANGED handled
     ELSE /\ Handles(0, <<[cmd |-> handle.head[2],
                            data |-> SubSeq(handle.head \o SubSeq(fifo, 1, n), 1,
                                            Min({LengthOred, BYTE_PACK_HEAD_SIZE + n}))]>>)
          /\ handle' = Idle(pipe)
  /\ regular' = (regular /\ n = LengthOred)
  /\ fifo' = Drop(fifo, n)
  /\ UNCHANGED <<pipe, sent, net, chunk, waiting>>

\* Mutant: the packet is read as the client reads it.
ServerDataShort ==
  LET n == Min({Len(fifo), LengthHiLo})
      packs == Append(handle.packs, Taken(n))
      read == handle.read + n IN
  /\ pipe = "server_recv" /\ handle.pc = "data"
  /\ Len(fifo) > handle.head[3]
  /\ fifo' = Drop(fifo, n)
  /\ IF <<0, 0>> \o HiLo(read) = handle.size
     THEN Handles(handle.fd, packs) /\ handle' = Idle(pipe)
     ELSE handle' = [handle EXCEPT !.pc = "head", !.packs = packs, !.read = read] /\ UNCHANGED handled
  /\ UNCHANGED <<pipe, sent, net, chunk, waiting, regular>>

\* read_recv_data_pack: one more packet, and the end when the packets make up
\* the chunk; then they are handled.
ServerData ==
  LET n == LengthHiLo
      packs == Append(handle.packs, Taken(n))
      read == handle.read + n IN
  /\ pipe = "server_recv" /\ handle.pc = "data"
  /\ Len(fifo) >= n
  /\ fifo' = Drop(fifo, n)
  /\ IF <<0, 0>> \o HiLo(read) = handle.size
     THEN Handles(handle.fd, packs) /\ handle' = Idle(pipe)
     ELSE handle' = [handle EXCEPT !.pc = "head", !.packs = packs, !.read = read] /\ UNCHANGED handled
  /\ UNCHANGED <<pipe, sent, net, chunk, waiting, regular>>

HandleStep == ServerTake \/ TakeHead \/ ClientSendData \/ ClientData \/ ServerData

-----------------------------------------------------------------------------
Next == (\E p \in Packets : ClientSend(p)) \/ RecvStep \/ WriteStep \/ HandleStep

Spec == Init /\ [][Next]_vars

\* The threads that move bytes are scheduled; packets and recv owe nothing.
FairSpec == Spec /\ WF_vars(WriteStep) /\ WF_vars(HandleStep)

-----------------------------------------------------------------------------
(* Properties                                                              *)

HandleType ==
  [pc : {"fd", "head", "data"}, fd : Byte, size : Seq(Byte), read : Nat, head : Seq(Byte),
   packs : Seq([cmd : Byte, data : Seq(Byte)])]

\* Bytes stay bytes, and no writer puts more into the fifo than fits: the
\* room found before the first byte is still there at the last.
TypeOK ==
  /\ DOMAIN net = DOMAIN sent /\ DOMAIN handled = DOMAIN sent
  /\ fifo \in Seq(Byte) /\ chunk \in Seq(Byte)
  /\ Len(fifo) < FifoSize
  /\ waiting \in BOOLEAN /\ regular \in BOOLEAN
  /\ handle = Overrun \/ handle \in HandleType

\* What a reader makes of a packet that came whole.
Whole(p) ==
  LET bytes == hip_mod_pack(p)
      data == Drop(bytes, BYTE_PACK_HEAD_SIZE)
  IN  [cmd |-> p.cmd, data |-> IF pipe = "client_recv" THEN SubSeq(bytes, 1, Len(data)) ELSE data]
AsSent(f) == [i \in 1 .. Len(sent[f]) |-> Whole(sent[f][i])]

\* However the bytes are cut by the threads' interleaving, packets come out
\* whole, in the order of their connection and under its descriptor, as long
\* as the server's recv returns whole packets, at most PackSlots of them and
\* fewer bytes than fit, and the client's handle thread never reads ahead of
\* the recv thread.
Intact ==
  regular =>
    /\ handle # Overrun
    /\ \A f \in DOMAIN sent : IsPrefix(handled[f], AsSent(f))

\* Even a client that has read ahead and lost the packets takes no garbage for
\* an answer: the commands it obeys are, in order, commands it was sent, each
\* at most once.
Obeyed == {i \in DOMAIN handled[0] : handled[0][i].cmd \in {LOGIN, KEEP_ALIVE, PASS_THROUGH}}
NoPhantoms ==
  pipe = "client_recv" =>
    \E place \in [Obeyed -> 1 .. Len(sent[0])] :
      /\ \A i \in Obeyed : handled[0][i].cmd = sent[0][place[i]].cmd
      /\ \A i, k \in Obeyed : i < k => place[i] < place[k]

\* No thread waits for ever, for room or for bytes, as long as the chunks are
\* regular: once recv has returned everything, everything is handled.
AllHandled ==
  (\A f \in DOMAIN net : net[f] = <<>>)
    ~> (~regular \/ \A f \in DOMAIN sent : handled[f] = AsSent(f))

=============================================================================
