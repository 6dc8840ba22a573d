--------------------------- MODULE TcpServerProofs ---------------------------
(***************************************************************************)
(* Proofs about TcpServer for every number of slots, hosts, descriptors    *)
(* and packets, and every interleaving of the four threads: the types, and *)
(* that the racy count never passes CLIENT_MAX_NUM.                        *)
(*                                                                         *)
(* CountBounded is not inductive: the increment is a load and a store with *)
(* the check of line 122 long past.  CountInv adds that no thread can      *)
(* raise the count in between: the only increment is the listen thread's   *)
(* own, and what the other two store is below what they loaded.            *)
(***************************************************************************)
EXTENDS TcpServer, TLAPS

\* What the threads rely on to stay inside the arrays.
LocalInv ==
  /\ \A f \in Fd : rcv[f] # <<>> => owner[f] \in Ip
  /\ recv.pc = "idle" => recv.count = 0 /\ recv.num = 0
  /\ recv.pc \in {"build", "group", "set"} => recv.count \in Slot
  /\ recv.pc \in {"build", "group"} => recv.num <= recv.count
  /\ recv.pc = "set" => recv.num <= recv.count + 1
  /\ recv.pc \in {"lost", "clear", "status", "load", "store", "ip"} => recv.count \in Slot
  /\ recv.pc \in {"clear", "status", "load", "store", "ip"} => recv.slot \in Slot

CountInv ==
  /\ client_conectnum <= CLIENT_MAX_NUM
  /\ listen.pc \in {"status", "load"} => client_conectnum < CLIENT_MAX_NUM
  /\ listen.pc = "store" => listen.load < CLIENT_MAX_NUM
  /\ recv.pc = "store" => recv.load <= CLIENT_MAX_NUM
  /\ check.pc = "store" => check.load <= CLIENT_MAX_NUM

\* The inductive invariant.
IInv == TypeOK /\ LocalInv /\ CountInv

-----------------------------------------------------------------------------
\* The zeroed table satisfies the invariant.
LEMMA InvInit == Init => IInv
<1> SUFFICES ASSUME Init PROVE IInv
  OBVIOUS
<1>1. 0 \in Slot /\ 0 \in Fd /\ CLIENT_MAX_NUM \in Nat /\ CLIENT_MAX_NUM > 0
      /\ CLIENT_KEEP_ALIVE_TIME \in Nat /\ Garbage \subseteq Fd
  BY ServerAssumption DEF Slot, Fd
<1>2. TypeOK
  BY <1>1, ServerAssumption
     DEF Init, TypeOK, ListenType, RecvType, CheckType, ListenIdle, RecvIdle, CheckAt
<1>3. LocalInv /\ CountInv
  BY <1>1 DEF Init, LocalInv, CountInv, ListenIdle, RecvIdle, CheckAt
<1>4. QED
  BY <1>2, <1>3 DEF IInv

\* The steps of the clients, the network and the clock.
LEMMA ClientKeepsInv == IInv /\ ClientStep => IInv'
<1> SUFFICES ASSUME IInv, ClientStep PROVE IInv'
  OBVIOUS
<1> USE ServerAssumption
    DEF IInv, TypeOK, LocalInv, CountInv, info, selects, budget, kernel
<1>1. ASSUME NEW ip \in Ip, ClientConnect(ip) PROVE IInv'
  BY <1>1 DEF ClientConnect
<1>2. ASSUME NEW f \in Fd, NEW cmd \in Commands, ClientSend(f, cmd) PROVE IInv'
  BY <1>2 DEF ClientSend, Connected
<1>3. ASSUME NEW f \in Fd, ClientClose(f) PROVE IInv'
  BY <1>3 DEF ClientClose
<1>4. CASE Tick
  <2>1. age' \in [Slot -> 0 .. CLIENT_KEEP_ALIVE_TIME]
    BY <1>4 DEF Tick
  <2>2. QED
    BY <1>4, <2>1 DEF Tick
<1>5. QED
  BY <1>1, <1>2, <1>3, <1>4 DEF ClientStep

\* close of a descriptor keeps the kernel's part of the invariant.
LEMMA CloseKeeps ==
  ASSUME IInv, NEW f \in Fd, Close(f)
  PROVE  /\ owner' \in [Fd -> Ip \cup {"stdin", "closed"}]
         /\ rcv' \in [Fd -> Seq(Commands)]
         /\ fin' \in [Fd -> BOOLEAN]
         /\ backlog' = backlog
         /\ \A g \in Fd : rcv'[g] # <<>> => owner'[g] \in Ip
  BY DEF IInv, TypeOK, LocalInv, Close

\* select returns members of the set it was given.
LEMMA ReadySubset ==
  ASSUME NEW set, NEW ready \in Ready(set)
  PROVE  ready \subseteq set
  BY DEF Ready

\* What is left of a descriptor is one.
LEMMA Uint8Fd ==
  ASSUME NEW fd \in Fd
  PROVE  Uint8(fd) \in Fd
<1>1. fd \in Nat /\ FdRange \in Nat /\ FdRange > 0 /\ MaxFd \in Nat /\ fd <= MaxFd
  BY ServerAssumption DEF Fd
<1>2. fd % FdRange \in Nat /\ fd % FdRange < FdRange
  BY <1>1
<1>3. fd % FdRange <= fd
  <2>1. CASE fd < FdRange
    BY <1>1, <2>1
  <2>2. CASE ~(fd < FdRange)
    BY <1>1, <1>2, <2>2
  <2>3. QED
    BY <2>1, <2>2
<1>4. QED
  BY <1>1, <1>2, <1>3 DEF Uint8, Fd

\* What a load and a store make of the count.
LEMMA StoreBounds ==
  ASSUME NEW x \in Int
  PROVE  /\ x + 1 \in Int /\ x - 1 \in Int
         /\ x < CLIENT_MAX_NUM => x + 1 <= CLIENT_MAX_NUM
         /\ x <= CLIENT_MAX_NUM => x - 1 < CLIENT_MAX_NUM /\ x - 1 <= CLIENT_MAX_NUM
  BY ServerAssumption

\* A slot that is not the last has a successor.
LEMMA NextInSlot ==
  ASSUME NEW s \in Slot
  PROVE  /\ s + 1 \in 0 .. CLIENT_MAX_NUM
         /\ s + 1 # CLIENT_MAX_NUM => s + 1 \in Slot
         /\ (s + 1) % CLIENT_MAX_NUM \in Slot
         /\ \A n \in Slot : n <= s =>
              n <= s + 1 /\ n + 1 <= s + 1 /\ (s + 1 \in Slot => n + 1 \in Slot)
  BY ServerAssumption DEF Slot

\* What is not above a slot is a slot.
LEMMA UpToSlot ==
  ASSUME NEW s \in Slot, NEW n \in 0 .. CLIENT_MAX_NUM, n <= s
  PROVE  n \in Slot
  BY ServerAssumption DEF Slot

\* The two threads that drop clients, once they have stored the count.
LEMMA StoredTypes ==
  ASSUME IInv
  PROVE  /\ [check EXCEPT !.pc = "ip", !.load = 0] \in CheckType
         /\ [check EXCEPT !.pc = "ip", !.load = 0].pc = "ip"
         /\ [recv EXCEPT !.pc = "ip", !.load = 0] \in RecvType
         /\ [recv EXCEPT !.pc = "ip", !.load = 0].pc = "ip"
         /\ [recv EXCEPT !.pc = "ip", !.load = 0].count = recv.count
         /\ [recv EXCEPT !.pc = "ip", !.load = 0].slot = recv.slot
<1>1. check \in CheckType /\ recv \in RecvType /\ 0 \in Int
  BY DEF IInv, TypeOK
<1>2. /\ [check EXCEPT !.pc = "ip", !.load = 0] \in CheckType
      /\ [check EXCEPT !.pc = "ip", !.load = 0].pc = "ip"
  BY <1>1 DEF CheckType
<1>3. /\ [recv EXCEPT !.pc = "ip", !.load = 0] \in RecvType
      /\ [recv EXCEPT !.pc = "ip", !.load = 0].pc = "ip"
      /\ [recv EXCEPT !.pc = "ip", !.load = 0].count = recv.count
      /\ [recv EXCEPT !.pc = "ip", !.load = 0].slot = recv.slot
  BY <1>1 DEF RecvType
<1>4. QED
  BY <1>2, <1>3

\* The steps of the listen thread.
LEMMA ListenKeepsInv == IInv /\ ListenStep => IInv'
<1> SUFFICES ASSUME IInv, ListenStep PROVE IInv'
  OBVIOUS
<1>a. /\ listen \in ListenType
      /\ CLIENT_MAX_NUM \in Nat /\ CLIENT_MAX_NUM > 0
      /\ 0 \in Fd /\ 0 \in Slot
      /\ ListenIdle \in ListenType
      /\ ListenIdle.pc = "idle"
  BY ServerAssumption DEF IInv, TypeOK, ListenIdle, ListenType, Fd, Slot
<1> USE <1>a DEF IInv, TypeOK, LocalInv, CountInv, info, selects, budget, kernel
<1>1. CASE ListenBuildSet
  BY <1>1 DEF ListenBuildSet, ListenType
<1>2. CASE ListenSelect
  BY <1>2 DEF ListenSelect, ListenType
<1>3. CASE ListenRebind
  BY <1>3 DEF ListenRebind
<1>4. CASE ListenReturn
  <2>1. read_fd_group' \subseteq listen.set
    BY <1>4, ReadySubset DEF ListenReturn
  <2>2. QED
    BY <1>4, <2>1 DEF ListenReturn, ListenType, ListenIdle
<1>5. ASSUME NEW new_fd \in Fd, ListenAccept(new_fd) PROVE IInv'
  <2>1. Head(backlog) \in Ip /\ Tail(backlog) \in Seq(Ip)
    BY <1>5 DEF ListenAccept
  <2>2. listen' \in ListenType /\ listen'.pc = "add"
    BY <1>5, <2>1 DEF ListenAccept, ListenType
  <2>3. QED
    BY <1>5, <2>1, <2>2 DEF ListenAccept
<1>6. CASE AddExists
  <2>1. Close(listen.fd) /\ listen.fd \in Fd
    BY <1>6 DEF AddExists, ListenType
  <2>2. QED
    BY <1>6, <2>1, CloseKeeps DEF AddExists
<1>7. CASE AddFull
  BY <1>7 DEF AddFull
<1>8. CASE AddSkip
  <2>0. listen.count \in Slot
    BY DEF ListenType
  <2>1. listen' \in ListenType /\ listen'.pc \in {"idle", "add"}
    BY <1>8, <2>0, NextInSlot DEF AddSkip, ListenType
  <2>2. QED
    BY <1>8, <2>1 DEF AddSkip
<1>9. CASE AddClaim
  <2>1. listen' \in ListenType /\ listen'.pc = "status" /\ client_conectnum < CLIENT_MAX_NUM
    BY <1>9 DEF AddClaim, ListenType, ListenIdle
  <2>2. 0 \in 0 .. CLIENT_KEEP_ALIVE_TIME
    BY ServerAssumption
  <2>3. listen.fd \in Fd /\ Uint8(listen.fd) \in Fd
    BY Uint8Fd DEF ListenType
  <2>4. QED
    BY <1>9, <2>1, <2>2, <2>3 DEF AddClaim, ListenType
<1>10. CASE AddStatus
  <2>1. listen' \in ListenType /\ listen'.pc = "load" /\ listen.pc = "status"
    BY <1>10 DEF AddStatus, ListenType, ListenIdle
  <2>2. QED
    BY <1>10, <2>1 DEF AddStatus
<1>11. CASE AddLoad
  <2>1. listen' \in ListenType /\ listen'.pc = "store" /\ listen'.load < CLIENT_MAX_NUM
    BY <1>11 DEF AddLoad, ListenType
  <2>2. QED
    BY <1>11, <2>1 DEF AddLoad
<1>12. CASE AddStore
  <2>0. listen.load \in Int /\ listen.load < CLIENT_MAX_NUM
    BY <1>12 DEF AddStore, ListenType
  <2>1. client_conectnum' \in Int /\ client_conectnum' <= CLIENT_MAX_NUM
    BY <1>12, <2>0, StoreBounds DEF AddStore
  <2>2. QED
    BY <1>12, <2>1 DEF AddStore
<1>13. QED
  BY <1>1, <1>2, <1>3, <1>4, <1>5, <1>6, <1>7, <1>8, <1>9, <1>10, <1>11, <1>12
     DEF ListenStep

\* The steps of the recv thread.
LEMMA RecvKeepsInv == IInv /\ RecvStep => IInv'
<1> SUFFICES ASSUME IInv, RecvStep PROVE IInv'
  OBVIOUS
<1>a. /\ recv \in RecvType
      /\ CLIENT_MAX_NUM \in Nat /\ CLIENT_MAX_NUM > 0
      /\ 0 \in Fd /\ 0 \in Slot /\ 0 \in 0 .. CLIENT_MAX_NUM
      /\ RecvIdle \in RecvType
      /\ RecvIdle.pc = "idle" /\ RecvIdle.count = 0 /\ RecvIdle.num = 0
  <2>1. 0 \in Fd /\ 0 \in Slot /\ 0 \in 0 .. CLIENT_MAX_NUM
    BY ServerAssumption DEF Fd, Slot
  <2>2. RecvIdle \in RecvType
    BY <2>1 DEF RecvIdle, RecvType
  <2>3. QED
    BY <2>1, <2>2, ServerAssumption DEF IInv, TypeOK, RecvIdle
<1>b. recv.pc \in {"round", "lost", "ip"} /\ recv.count \in Slot =>
        NextTurn \in RecvType /\ NextTurn.pc = "round"
  <2> SUFFICES ASSUME recv.count \in Slot
               PROVE  NextTurn \in RecvType /\ NextTurn.pc = "round"
    OBVIOUS
  <2>1. recv.count + 1 \in 0 .. CLIENT_MAX_NUM /\ 0 \in Int
    BY NextInSlot
  <2>2. QED
    BY <1>a, <2>1 DEF NextTurn, RecvType
<1>c. InRound => recv.count \in Slot
  BY <1>a DEF InRound, IInv, TypeOK, CountInv, RecvType, Slot
<1>d. recv.count \in Slot => Current \in Fd
  BY DEF Current, IInv, TypeOK
<1>e. InSearch => recv.slot \in Slot
  BY <1>a DEF InSearch, IInv, TypeOK, CountInv, RecvType, Slot
<1> USE <1>a, <1>b, <1>c, <1>d
    DEF IInv, TypeOK, LocalInv, CountInv, info, selects, budget, kernel
<1>1. CASE RecvZeroSet
  <2>1. recv' \in RecvType /\ recv'.pc = "build" /\ recv'.count = recv.count /\ recv'.num = recv.num
    BY <1>1 DEF RecvZeroSet, RecvType
  <2>2. QED
    BY <1>1, <2>1 DEF RecvZeroSet
<1>f. recv.pc \in {"build", "set"} /\ recv.count \in Slot /\ recv.num <= recv.count + 1 =>
        /\ BuildNext \in RecvType
        /\ BuildNext.pc \in {"build", "select"}
        /\ BuildNext.pc = "build" => BuildNext.count \in Slot /\ BuildNext.num <= BuildNext.count
  <2> SUFFICES ASSUME recv.count \in Slot, recv.num <= recv.count + 1
               PROVE  /\ BuildNext \in RecvType
                      /\ BuildNext.pc \in {"build", "select"}
                      /\ BuildNext.pc = "build" =>
                           BuildNext.count \in Slot /\ BuildNext.num <= BuildNext.count
    OBVIOUS
  <2>1. CASE recv.count + 1 = CLIENT_MAX_NUM
    BY <2>1 DEF BuildNext, RecvType
  <2>2. CASE recv.count + 1 # CLIENT_MAX_NUM
    <3>1. recv.count + 1 \in Slot /\ recv.count + 1 \in 0 .. CLIENT_MAX_NUM
      BY <2>2, NextInSlot
    <3>2. BuildNext = [recv EXCEPT !.pc = "build", !.count = recv.count + 1]
      BY <2>2 DEF BuildNext
    <3>3. QED
      BY <3>1, <3>2 DEF RecvType
  <2>3. QED
    BY <2>1, <2>2
<1>2. CASE BuildTest
  <2>1. recv.pc = "build" /\ recv.count \in Slot /\ recv.num <= recv.count
        /\ recv.num <= recv.count + 1
    BY <1>2 DEF BuildTest, RecvType, Slot
  <2>2. /\ recv' \in RecvType
        /\ recv'.pc \in {"build", "group", "select"}
        /\ recv'.pc \in {"build", "group"} => recv'.count \in Slot /\ recv'.num <= recv'.count
    <3>1. CASE recv' = [recv EXCEPT !.pc = "group"]
      BY <2>1, <3>1 DEF RecvType
    <3>2. CASE recv' = BuildNext
      BY <1>f, <2>1, <3>2
    <3>3. QED
      BY <1>2, <3>1, <3>2 DEF BuildTest
  <2>3. QED
    BY <1>2, <2>2 DEF BuildTest
<1>17. CASE BuildGroup
  <2>0. recv.pc = "group" /\ recv.count \in Slot /\ recv.num <= recv.count
        /\ recv.num \in 0 .. CLIENT_MAX_NUM
    BY <1>17 DEF BuildGroup, RecvType
  <2>1. recv.num \in Slot
    BY <2>0, UpToSlot
  <2>2. client_socketfd[recv.count] \in Fd /\ fd_group' \in [Slot -> Fd]
    BY <1>17, <2>0, <2>1 DEF BuildGroup
  <2>3. recv.num + 1 \in 0 .. CLIENT_MAX_NUM /\ recv.num + 1 <= recv.count + 1
    BY <2>0, <2>1, NextInSlot
  <2>4. /\ recv' \in RecvType /\ recv'.pc = "set" /\ recv'.count = recv.count
        /\ recv'.num <= recv'.count + 1
    BY <1>17, <2>0, <2>3 DEF BuildGroup, RecvType
  <2>5. QED
    BY <1>17, <2>0, <2>2, <2>4 DEF BuildGroup
<1>18. CASE BuildSet
  <2>1. recv.pc = "set" /\ recv.count \in Slot /\ recv.num <= recv.count + 1
    BY <1>18 DEF BuildSet
  <2>2. read_fd_group' \subseteq Fd \cup {Listen}
    BY <1>18, <2>1 DEF BuildSet
  <2>3. recv' = BuildNext
    BY <1>18 DEF BuildSet
  <2>4. QED
    BY <1>18, <1>f, <2>1, <2>2, <2>3 DEF BuildSet
<1>3. CASE RecvSelect
  BY <1>3 DEF RecvSelect, RecvType
<1>4. CASE RecvReturn
  <2>1. read_fd_group' \subseteq recv.set
    BY <1>4, ReadySubset DEF RecvReturn
  <2>2. QED
    BY <1>4, <2>1 DEF RecvReturn, RecvType
<1>5. CASE RecvRoundEnd
  BY <1>5 DEF RecvRoundEnd
<1>6. CASE RecvSkip
  BY <1>6 DEF RecvSkip, InRound
<1>7. CASE RecvData
  <2> DEFINE queued == [i \in 1 .. Len(rcv[Current]) |->
                          [fd |-> Current, from |-> owner[Current], cmd |-> rcv[Current][i]]]
  <2>1. /\ Current \in Fd /\ owner[Current] \in Ip /\ rcv[Current] \in Seq(Commands)
        /\ recv.pc = "round" /\ recv.count \in Slot
    BY <1>7 DEF RecvData, InRound
  <2>2. queued \in Seq(Packet)
    BY <2>1 DEF Packet
  <2>3. recv_fifo' \in Seq(Packet)
    BY <1>7, <2>2, SMTT(60) DEF RecvData
  <2>4. /\ rcv' \in [Fd -> Seq(Commands)]
        /\ \A f \in Fd : rcv'[f] # <<>> => owner[f] \in Ip
    BY <1>7, <2>1, SMTT(60) DEF RecvData
  <2>5. recv' = NextTurn
    BY <1>7 DEF RecvData
  <2>6. QED
    BY <1>7, <2>1, <2>3, <2>4, <2>5 DEF RecvData
<1>8. CASE RecvLost
  BY <1>8 DEF RecvLost, RecvType
<1>9. CASE CloseNotFound
  BY <1>9 DEF CloseNotFound
<1>10. CASE CloseSkip
  <2>1. recv.slot \in Slot /\ recv.slot + 1 \in 0 .. CLIENT_MAX_NUM /\ recv.pc = "lost"
    BY <1>e, <1>10, NextInSlot DEF CloseSkip, InSearch
  <2>2. recv' \in RecvType /\ recv'.pc = "lost" /\ recv'.count = recv.count
    BY <1>10, <2>1 DEF CloseSkip, RecvType
  <2>3. QED
    BY <1>10, <2>1, <2>2 DEF CloseSkip
<1>11. CASE CloseFound
  <2>1. Close(Current) /\ Current \in Fd /\ recv.slot \in Slot
    BY <1>11, <1>e DEF CloseFound, InSearch
  <2>2. /\ recv' \in RecvType /\ recv'.pc = "clear" /\ recv'.count = recv.count
        /\ recv'.slot = recv.slot /\ recv.pc = "lost"
    BY <1>11 DEF CloseFound, InSearch, RecvType
  <2>3. QED
    BY <1>11, <2>1, <2>2, CloseKeeps DEF CloseFound
<1>12. CASE CloseFd
  BY <1>12 DEF CloseFd, RecvType
<1>19. CASE CloseStatus
  BY <1>19 DEF CloseStatus, RecvType
<1>13. CASE CloseLoad
  BY <1>13 DEF CloseLoad, RecvType
<1>14. CASE CloseStore
  <2>1. recv.load \in Int /\ recv.load <= CLIENT_MAX_NUM
    BY <1>14 DEF CloseStore, RecvType
  <2>2. /\ client_conectnum' \in Int /\ client_conectnum' < CLIENT_MAX_NUM
        /\ client_conectnum' <= CLIENT_MAX_NUM
    BY <1>14, <2>1, StoreBounds DEF CloseStore
  <2>3. recv' \in RecvType /\ recv'.pc = "ip" /\ recv'.count = recv.count
        /\ recv'.slot = recv.slot /\ recv.pc = "store"
    BY <1>14, StoredTypes DEF CloseStore
  <2>4. QED
    BY <1>14, <2>2, <2>3 DEF CloseStore
<1>15. CASE CloseIp
  BY <1>15 DEF CloseIp, RecvType
<1>16. QED
  BY <1>1, <1>2, <1>3, <1>4, <1>5, <1>6, <1>7, <1>8, <1>9, <1>10, <1>11, <1>12, <1>13,
     <1>14, <1>15, <1>17, <1>18, <1>19 DEF RecvStep

\* The steps of the thread that handles packets.
LEMMA HandleKeepsInv == IInv /\ HandleStep => IInv'
<1> SUFFICES ASSUME IInv, HandleStep PROVE IInv'
  OBVIOUS
<1> USE ServerAssumption
    DEF IInv, TypeOK, LocalInv, CountInv, info, selects, budget, kernel
<1>1. CASE HandleBeat
  <2>1. /\ Head(recv_fifo) \in Packet /\ Tail(recv_fifo) \in Seq(Packet)
        /\ <<Head(recv_fifo)>> \in Seq(Packet)
    BY <1>1 DEF HandleBeat
  <2>2. age' \in [Slot -> 0 .. CLIENT_KEEP_ALIVE_TIME]
    BY <1>1 DEF HandleBeat
  <2>3. QED
    BY <1>1, <2>1, <2>2 DEF HandleBeat
<1>2. CASE HandlePassThrough
  BY <1>2 DEF HandlePassThrough
<1>3. CASE HandleReply
  BY <1>3 DEF HandleReply
<1>4. QED
  BY <1>1, <1>2, <1>3 DEF HandleStep

\* The steps of the check_alive thread.
LEMMA CheckKeepsInv == IInv /\ CheckStep => IInv'
<1> SUFFICES ASSUME IInv, CheckStep PROVE IInv'
  OBVIOUS
<1>a. /\ check \in CheckType
      /\ CLIENT_MAX_NUM \in Nat /\ CLIENT_MAX_NUM > 0
      /\ 0 \in Fd
      /\ NextSlot \in CheckType /\ NextSlot.pc = "scan"
  <2>1. check \in CheckType /\ check.count \in Slot
    BY DEF IInv, TypeOK, CheckType
  <2>2. (check.count + 1) % CLIENT_MAX_NUM \in Slot
    BY <2>1, NextInSlot
  <2>3. NextSlot \in CheckType /\ NextSlot.pc = "scan"
    BY <2>2 DEF NextSlot, CheckAt, CheckType
  <2>4. QED
    BY <2>1, <2>3, ServerAssumption DEF Fd
<1> USE <1>a DEF IInv, TypeOK, LocalInv, CountInv, info, selects, budget, kernel
<1>1. CASE CheckSkip
  BY <1>1 DEF CheckSkip
<1>2. CASE CheckExpired
  BY <1>2 DEF CheckExpired, CheckType
<1>3. CASE CheckClose
  <2>1. Close(client_socketfd[check.count]) /\ client_socketfd[check.count] \in Fd
    BY <1>3 DEF CheckClose, CheckType
  <2>2. check' \in CheckType /\ check'.pc = "fd"
    BY <1>3 DEF CheckClose, CheckType
  <2>3. QED
    BY <1>3, <2>1, <2>2, CloseKeeps DEF CheckClose
<1>4. CASE CheckFd
  BY <1>4 DEF CheckFd, CheckType
<1>5. CASE CheckLoad
  BY <1>5 DEF CheckLoad, CheckType
<1>6. CASE CheckStore
  <2>1. check.load \in Int /\ check.load <= CLIENT_MAX_NUM
    BY <1>6 DEF CheckStore, CheckType
  <2>2. /\ client_conectnum' \in Int /\ client_conectnum' < CLIENT_MAX_NUM
        /\ client_conectnum' <= CLIENT_MAX_NUM
    BY <1>6, <2>1, StoreBounds DEF CheckStore
  <2>3. check' \in CheckType /\ check'.pc = "ip"
    BY <1>6, StoredTypes DEF CheckStore
  <2>4. QED
    BY <1>6, <2>2, <2>3 DEF CheckStore
<1>7. CASE CheckIp
  BY <1>7 DEF CheckIp, CheckType
<1>8. CASE CheckStatus
  BY <1>8 DEF CheckStatus
<1>9. QED
  BY <1>1, <1>2, <1>3, <1>4, <1>5, <1>6, <1>7, <1>8 DEF CheckStep

\* No step of any thread breaks the invariant.
LEMMA InvStep == IInv /\ [Next]_vars => IInv'
<1> SUFFICES ASSUME IInv, [Next]_vars PROVE IInv'
  OBVIOUS
<1>1. CASE UNCHANGED vars
  BY <1>1 DEF vars, IInv, TypeOK, LocalInv, CountInv, info, selects, budget, kernel
<1>2. QED
  BY <1>1, ListenKeepsInv, RecvKeepsInv, HandleKeepsInv, CheckKeepsInv, ClientKeepsInv
     DEF Next

\* However the four threads interleave, every field keeps its type: no index
\* leaves client_info or fd_group.
THEOREM TypeCorrect == Spec => []TypeOK
<1>1. IInv => TypeOK
  BY DEF IInv
<1>2. QED
  BY InvInit, InvStep, <1>1, PTL DEF Spec

\* However increments and decrements are lost, client_conectnum never passes
\* CLIENT_MAX_NUM, so the loops it bounds stay inside the arrays.
THEOREM CountStaysBounded == Spec => []CountBounded
<1>1. ASSUME IInv PROVE CountBounded
  <2>1. /\ recv.count \in 0 .. CLIENT_MAX_NUM /\ recv.slot \in 0 .. CLIENT_MAX_NUM
        /\ client_conectnum \in Int /\ client_conectnum <= CLIENT_MAX_NUM
        /\ CLIENT_MAX_NUM \in Nat
    BY <1>1, ServerAssumption DEF IInv, TypeOK, RecvType, CountInv
  <2>2. InRound => recv.count \in Slot
    BY <2>1 DEF InRound, Slot
  <2>3. InSearch => recv.slot \in Slot
    BY <2>1 DEF InSearch, Slot
  <2>4. QED
    BY <2>1, <2>2, <2>3 DEF CountBounded
<1>2. QED
  BY InvInit, InvStep, <1>1, PTL DEF Spec

=============================================================================
