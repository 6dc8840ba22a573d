------------------------ MODULE TcpServerSerialProofs ------------------------
(***************************************************************************)
(* Proofs about TcpServer when the sections that change the table and the  *)
(* one that reads it for the fd set exclude each other, as server_mod_t's  *)
(* mutex would make them if anything locked it, and descriptors fit        *)
(* client_socketfd: the table is sound whenever no section changes it, and *)
(* a client is left without a slot only when there is none.                *)
(*                                                                         *)
(* TableSound says nothing while a section runs, so it is not inductive.   *)
(* Sections says what each section has done to its slot so far; Settled,   *)
(* that every other slot is sound; Tally, by how much the count is off.    *)
(* NewFd is why a reused descriptor does no harm: until its section sets   *)
(* it to 0, a slot may hold the number accept has just handed out again.   *)
(***************************************************************************)
EXTENDS TcpServerProofs, FiniteSetTheorems

\* Every descriptor fits client_socketfd.
FewFds == MaxFd < FdRange

\* The slot a section has in hand.
Busy(s) ==
  \/ listen.pc = "status" /\ s = listen.count
  \/ recv.pc \in {"clear", "status", "load", "store", "ip"} /\ s = recv.slot
  \/ check.pc \in {"fd", "load", "store", "ip", "status"} /\ s = check.count

Settled == \A s \in Slot : Busy(s) \/ Vacant(s) \/ Occupied(s)

ListenSection ==
  listen.pc = "status" =>
    /\ client_socketfd[listen.count] # 0
    /\ ip_addr[listen.count] \in Ip
    /\ owner[client_socketfd[listen.count]] = ip_addr[listen.count]
RecvSection ==
  /\ recv.pc = "clear" => client_socketfd[recv.slot] # 0
  /\ recv.pc \in {"status", "load", "store", "ip"} => client_socketfd[recv.slot] = 0
  /\ recv.pc \in {"load", "store", "ip"} => connect_client_status[recv.slot] = "UNCONNECT"
CheckSection ==
  /\ check.pc = "close" => Occupied(check.count)
  /\ check.pc = "fd" => client_socketfd[check.count] # 0
  /\ check.pc \in {"load", "store", "ip", "status"} => client_socketfd[check.count] = 0
  /\ check.pc = "status" => ip_addr[check.count] = NoIp
Sections == ListenSection /\ RecvSection /\ CheckSection

\* No two slots hold the same descriptor.
Distinct ==
  \A s, t \in Slot : client_socketfd[s] = client_socketfd[t] /\ s # t => client_socketfd[s] = 0

\* The accepted descriptor that has no slot yet is open and in no slot, but
\* for one that a section is about to clear.
NewFd ==
  listen.pc = "add" =>
    /\ listen.fd # 0 /\ listen.ip \in Ip /\ owner[listen.fd] = listen.ip
    /\ \A s \in Slot : client_socketfd[s] = listen.fd =>
         \/ recv.pc = "clear" /\ s = recv.slot
         \/ check.pc = "fd" /\ s = check.count

\* The slots the listen thread passed have an address.
Passed ==
  /\ listen.pc = "accept" => listen.count = 0
  /\ listen.pc = "add" => \A s \in Slot : s < listen.count => ip_addr[s] # NoIp

\* Descriptor 0 is in no set, so no thread reads or closes it.
ZeroUnused ==
  /\ owner[0] = "stdin"
  /\ 0 \notin read_fd_group /\ 0 \notin listen.set /\ 0 \notin recv.set
  /\ recv.pc = "lost" => Current # 0

\* The slot that is being added to the set stays in use.
Chosen == Building => client_socketfd[recv.count] # 0

\* The count counts the slots in use, but for the section that has changed
\* its slot and not yet the count.
Held   == {s \in Slot : client_socketfd[s] # 0}
Adding == listen.pc \in {"status", "load", "store"}
Ending == recv.pc \in {"status", "load", "store"} \/ check.pc \in {"load", "store"}
Off    == IF Adding THEN -1 ELSE IF Ending THEN 1 ELSE 0
Tally ==
  /\ client_conectnum = Cardinality(Held) + Off
  /\ listen.pc = "store" => listen.load = client_conectnum
  /\ recv.pc = "store" => recv.load = client_conectnum
  /\ check.pc = "store" => check.load = client_conectnum

\* The inductive invariant.
TableInv == Settled /\ Sections /\ Distinct /\ NewFd /\ Passed
SerialInv == IInv /\ FewFds /\ Exclusive /\ TableInv /\ ZeroUnused /\ Chosen /\ Tally

-----------------------------------------------------------------------------
\* What the types say of the parts the sections touch.
LEMMA Types ==
  ASSUME IInv
  PROVE  /\ owner \in [Fd -> Ip \cup {"stdin", "closed"}]
         /\ client_socketfd \in [Slot -> Fd]
         /\ ip_addr \in [Slot -> Ip \cup {NoIp}]
         /\ connect_client_status \in [Slot -> {"CONNECT", "UNCONNECT"}]
         /\ client_conectnum \in Int
         /\ listen \in ListenType /\ recv \in RecvType /\ check \in CheckType
         /\ listen.count \in Slot /\ listen.fd \in Fd /\ check.count \in Slot
         /\ recv.pc \in {"clear", "status", "load", "store", "ip"} => recv.slot \in Slot
         /\ recv.pc \in {"lost", "clear", "status", "load", "store", "ip"} =>
              recv.count \in Slot /\ Current \in Fd
         /\ InSearch => recv.slot \in Slot
         /\ InRound => recv.count \in Slot /\ Current \in Fd
<1>1. /\ listen \in ListenType /\ recv \in RecvType /\ check \in CheckType
      /\ client_conectnum \in Int /\ client_conectnum <= CLIENT_MAX_NUM
      /\ CLIENT_MAX_NUM \in Nat
  BY ServerAssumption DEF IInv, TypeOK, CountInv
<1>2. listen.count \in Slot /\ listen.fd \in Fd /\ check.count \in Slot
  BY <1>1 DEF ListenType, CheckType
<1>3. (InSearch => recv.slot \in Slot) /\ (InRound => recv.count \in Slot)
  BY <1>1 DEF InSearch, InRound, RecvType, Slot
<1>4. QED
  BY <1>1, <1>2, <1>3 DEF IInv, TypeOK, LocalInv, Current

\* A descriptor that fits client_socketfd is stored as it is.
LEMMA Uint8Same ==
  ASSUME FewFds, NEW fd \in Fd
  PROVE  Uint8(fd) = fd
  BY ServerAssumption DEF FewFds, Uint8, Fd

\* A step that leaves the table and the descriptors alone, and in which no
\* thread enters, leaves or ends a part of its section.
LEMMA QuietTable ==
  ASSUME TableInv,
         UNCHANGED <<owner, client_socketfd, ip_addr, connect_client_status>>,
         \/ listen' = listen
         \/ /\ listen.pc # "status" /\ listen'.pc \notin {"add", "status"}
            /\ listen'.pc = "accept" => listen'.count = 0,
         \/ recv' = recv
         \/ /\ recv.pc \notin {"clear", "status", "load", "store", "ip"}
            /\ recv'.pc \notin {"clear", "status", "load", "store", "ip"}
         \/ /\ recv.pc \in {"load", "store"} /\ recv'.pc \in {"store", "ip"}
            /\ recv'.slot = recv.slot,
         \/ check' = check
         \/ check.pc = "scan" /\ check'.pc = "scan"
         \/ /\ check.pc \in {"load", "store"} /\ check'.pc \in {"store", "ip"}
            /\ check'.count = check.count
  PROVE  TableInv'
<1> USE DEF TableInv, Vacant, Occupied
<1>1. Settled'
  BY DEF Settled, Busy
<1>2. ListenSection'
  BY DEF Sections, ListenSection
<1>3. RecvSection'
  BY DEF Sections, RecvSection
<1>4. CheckSection'
  BY DEF Sections, CheckSection
<1>5. Distinct' /\ Passed'
  BY DEF Distinct, Passed
<1>6. NewFd'
  BY DEF NewFd
<1>7. QED
  BY <1>1, <1>2, <1>3, <1>4, <1>5, <1>6 DEF Sections

\* The zeroed table satisfies the invariant.
LEMMA SerialInit == FewFds /\ Init => SerialInv
<1> SUFFICES ASSUME FewFds, Init PROVE SerialInv
  OBVIOUS
<1>1. IInv
  BY InvInit
<1>2. listen.pc = "idle" /\ listen.set = {} /\ recv.pc = "idle" /\ recv.set = {} /\ check.pc = "scan"
  BY DEF Init, ListenIdle, RecvIdle, CheckAt
<1>3. Exclusive
  BY <1>2 DEF Exclusive, ListenInside, RecvInside, CheckInside, Building
<1>8. Chosen
  BY <1>2 DEF Chosen, Building
<1>4. TableInv
  BY <1>2 DEF Init, TableInv, Settled, Vacant, Sections, ListenSection, RecvSection,
              CheckSection, Distinct, NewFd, Passed
<1>5. ZeroUnused
  BY <1>2, ServerAssumption DEF Init, ZeroUnused, Fd
<1>6. Tally
  <2>1. Held = {}
    BY DEF Held, Init
  <2>2. QED
    BY <1>2, <2>1, FS_EmptySet DEF Init, Tally, Off, Adding, Ending
<1>7. QED
  BY <1>1, <1>3, <1>4, <1>5, <1>6, <1>8 DEF SerialInv

\* close of a descriptor that is in no slot but those about to be cleared
\* takes no connection from an occupied slot.
LEMMA CloseUnslotted ==
  ASSUME IInv, NEW f \in Fd, Close(f), NEW s \in Slot, client_socketfd[s] # f
  PROVE  owner'[client_socketfd[s]] = owner[client_socketfd[s]]
  BY Types DEF Close

\* The steps of the listen thread and the table.
LEMMA ListenKeepsTable == SerialInv /\ ListenStep /\ Exclusive' => TableInv'
<1> SUFFICES ASSUME SerialInv, ListenStep, Exclusive' PROVE TableInv'
  OBVIOUS
<1>a. IInv /\ Exclusive /\ TableInv /\ ZeroUnused
  BY DEF SerialInv
<1>b. /\ listen \in ListenType /\ ListenIdle \in ListenType
      /\ ListenIdle.pc = "idle" /\ ListenIdle.count = 0
  BY <1>a, Types, ServerAssumption DEF ListenIdle, ListenType, Fd, Slot
<1>1. CASE ListenBuildSet \/ ListenSelect \/ ListenRebind \/ ListenReturn \/ AddFull
           \/ AddLoad \/ AddStore
  <2>1. /\ UNCHANGED <<owner, client_socketfd, ip_addr, connect_client_status, recv, check>>
        /\ listen.pc # "status" /\ listen'.pc \notin {"add", "status"}
        /\ listen'.pc = "accept" => listen'.count = 0
    <3> USE <1>b DEF info, kernel, ListenType
    <3>1. CASE ListenBuildSet
      BY <3>1 DEF ListenBuildSet
    <3>2. CASE ListenSelect
      BY <3>2 DEF ListenSelect
    <3>3. CASE ListenRebind
      BY <3>3 DEF ListenRebind
    <3>4. CASE ListenReturn
      BY <3>4 DEF ListenReturn
    <3>5. CASE AddFull
      BY <3>5 DEF AddFull
    <3>6. CASE AddLoad
      BY <3>6 DEF AddLoad
    <3>7. CASE AddStore
      BY <3>7 DEF AddStore
    <3>8. QED
      BY <1>1, <3>1, <3>2, <3>3, <3>4, <3>5, <3>6, <3>7
  <2>2. QED
    BY <1>a, <2>1, QuietTable
<1>2. ASSUME NEW new_fd \in Fd, ListenAccept(new_fd) PROVE TableInv'
  <2>1. /\ UNCHANGED <<client_socketfd, ip_addr, connect_client_status, recv, check>>
        /\ listen.pc = "accept" /\ listen'.pc = "add"
        /\ listen'.fd = new_fd /\ listen'.count = listen.count
        /\ listen'.ip \in Ip /\ owner' = [owner EXCEPT ![new_fd] = listen'.ip]
        /\ owner[new_fd] = "closed"
    <3>1. Head(backlog) \in Ip
      BY <1>a, <1>2 DEF ListenAccept, IInv, TypeOK
    <3>2. QED
      BY <1>b, <1>2, <3>1 DEF ListenAccept, ListenType, First, FreeFd, info
  <2>2. /\ owner \in [Fd -> Ip \cup {"stdin", "closed"}] /\ "closed" \notin Ip
        /\ \A s \in Slot : client_socketfd[s] \in Fd
    BY <1>a, Types, ServerAssumption
  <2>3. new_fd # 0 /\ owner'[new_fd] = listen'.ip
    BY <1>a, <2>1, <2>2 DEF ZeroUnused
  <2>4. \A s \in Slot : Occupied(s) => client_socketfd[s] # new_fd /\ Occupied(s)'
    BY <2>1, <2>2 DEF Occupied
  <2>5. Settled'
    BY <1>a, <2>1, <2>4 DEF TableInv, Settled, Busy, Vacant
  <2>6. Sections'
    BY <1>a, Types, <2>1, <2>4
       DEF TableInv, Sections, ListenSection, RecvSection, CheckSection
  <2>7. Distinct'
    BY <1>a, <2>1 DEF TableInv, Distinct
  <2>8. NewFd'
    <3>1. ASSUME NEW s \in Slot, client_socketfd[s] = new_fd
          PROVE  \/ recv.pc = "clear" /\ s = recv.slot
                 \/ check.pc = "fd" /\ s = check.count
      BY <1>a, <2>1, <2>3, <2>4, <3>1
         DEF TableInv, Settled, Busy, Vacant, Sections, RecvSection, CheckSection
    <3>2. QED
      BY <2>1, <2>3, <3>1 DEF NewFd
  <2>9. Passed'
    BY <1>a, <2>1, ServerAssumption DEF TableInv, Passed, Slot
  <2>10. QED
    BY <2>5, <2>6, <2>7, <2>8, <2>9 DEF TableInv
<1>3. CASE AddExists
  <2>1. /\ UNCHANGED <<client_socketfd, ip_addr, connect_client_status, recv, check>>
        /\ listen.pc = "add" /\ listen'.pc = "idle" /\ listen'.count = 0
        /\ Close(listen.fd) /\ listen.fd \in Fd
    BY <1>a, <1>b, <1>3, Types DEF AddExists, info
  <2>2. ASSUME NEW s \in Slot, Occupied(s), ~Busy(s) PROVE Occupied(s)'
    <3>1. client_socketfd[s] # listen.fd
      BY <1>a, <2>1, <2>2 DEF TableInv, NewFd, Busy
    <3>2. QED
      BY <1>a, <2>1, <2>2, <3>1, CloseUnslotted DEF Occupied
  <2>3. Settled'
    <3>1. \A s \in Slot : Busy(s) => Busy(s)'
      BY <2>1 DEF Busy
    <3>2. QED
      BY <1>a, <2>1, <2>2, <3>1 DEF TableInv, Settled, Vacant
  <2>4. Sections'
    <3>1. check.pc = "close" => Occupied(check.count)'
      <4>1. check.pc = "close" => CheckInside
        BY DEF CheckInside
      <4>2. check.pc = "close" => Occupied(check.count) /\ check.count \in Slot
        BY <1>a, Types DEF TableInv, Sections, CheckSection
      <4>3. check.pc = "close" => ~Busy(check.count)
        BY <1>a, <2>1, <4>1 DEF Exclusive, RecvInside, Busy
      <4>4. QED
        BY <2>1, <2>2, <4>2, <4>3 DEF Occupied
    <3>2. QED
      BY <1>a, <2>1, <3>1 DEF TableInv, Sections, ListenSection, RecvSection, CheckSection
  <2>5. Distinct' /\ NewFd' /\ Passed'
    BY <1>a, <2>1 DEF TableInv, Distinct, NewFd, Passed
  <2>6. QED
    BY <2>3, <2>4, <2>5 DEF TableInv
<1>4. CASE AddSkip
  <2>1. /\ UNCHANGED <<owner, client_socketfd, ip_addr, connect_client_status, recv, check>>
        /\ listen.pc = "add" /\ ip_addr[listen.count] # NoIp
    BY <1>4 DEF AddSkip, info, kernel
  <2>2. CASE listen.count + 1 = CLIENT_MAX_NUM
    <3>1. listen' = ListenIdle
      BY <1>4, <2>2 DEF AddSkip
    <3>2. QED
      BY <1>a, <1>b, <2>1, <3>1, QuietTable
  <2>3. CASE listen.count + 1 # CLIENT_MAX_NUM
    <3>1. listen' = [listen EXCEPT !.count = @ + 1]
      BY <1>4, <2>3 DEF AddSkip
    <3>2. /\ listen'.pc = "add" /\ listen'.fd = listen.fd /\ listen'.ip = listen.ip
          /\ listen'.count = listen.count + 1
      BY <1>b, <2>1, <3>1 DEF ListenType
    <3>3. Settled'
      BY <1>a, <2>1, <3>2 DEF TableInv, Settled, Busy, Vacant, Occupied
    <3>4. Sections'
      BY <1>a, <2>1, <3>2
         DEF TableInv, Sections, ListenSection, RecvSection, CheckSection, Occupied
    <3>5. Distinct' /\ NewFd'
      BY <1>a, <2>1, <3>2 DEF TableInv, Distinct, NewFd
    <3>6. Passed'
      <4>1. listen.count \in Slot /\ \A s \in Slot : s < listen.count + 1 => s < listen.count \/ s = listen.count
        BY <1>a, Types DEF Slot
      <4>2. QED
        BY <1>a, <2>1, <3>2, <4>1 DEF TableInv, Passed
    <3>7. QED
      BY <3>3, <3>4, <3>5, <3>6 DEF TableInv
  <2>4. QED
    BY <2>2, <2>3
<1>5. CASE AddClaim
  <2>1. /\ UNCHANGED <<owner, connect_client_status, recv, check>>
        /\ listen.pc = "add" /\ ip_addr[listen.count] = NoIp
        /\ ip_addr' = [ip_addr EXCEPT ![listen.count] = listen.ip]
        /\ client_socketfd' = [client_socketfd EXCEPT ![listen.count] = listen.fd]
        /\ listen'.pc = "status" /\ listen'.count = listen.count
        /\ listen.count \in Slot
    <3>1. listen.fd \in Fd /\ Uint8(listen.fd) = listen.fd
      BY <1>a, Types, Uint8Same DEF SerialInv
    <3>2. QED
      BY <1>a, <1>b, <1>5, <3>1, Types DEF AddClaim, ListenType, kernel
  <2>2. ~RecvInside /\ ~CheckInside
    BY <2>1 DEF Exclusive, ListenInside, RecvInside, CheckInside
  <2>3. /\ recv.pc \notin {"clear", "status", "load", "store", "ip"} /\ check.pc = "scan"
        /\ \A s \in Slot : ~Busy(s)
    BY <2>1, <2>2 DEF Busy, RecvInside, CheckInside
  <2>4. /\ listen.fd # 0 /\ listen.ip \in Ip /\ owner[listen.fd] = listen.ip
        /\ \A s \in Slot : client_socketfd[s] # listen.fd
    BY <1>a, <2>1, <2>3 DEF TableInv, NewFd
  <2>5. /\ client_socketfd'[listen.count] = listen.fd /\ ip_addr'[listen.count] = listen.ip
        /\ \A s \in Slot : s # listen.count =>
             client_socketfd'[s] = client_socketfd[s] /\ ip_addr'[s] = ip_addr[s]
    BY <1>a, <2>1, Types
  <2>6. Settled'
    <3>1. Busy(listen.count)'
      BY <2>1 DEF Busy
    <3>2. ASSUME NEW s \in Slot, s # listen.count PROVE Vacant(s)' \/ Occupied(s)'
      BY <1>a, <2>1, <2>3, <2>5, <3>2 DEF TableInv, Settled, Vacant, Occupied
    <3>3. QED
      BY <2>1, <3>1, <3>2 DEF Settled
  <2>7. Sections'
    BY <2>1, <2>3, <2>4, <2>5 DEF Sections, ListenSection, RecvSection, CheckSection
  <2>8. Distinct'
    BY <1>a, <2>1, <2>4, <2>5 DEF TableInv, Distinct
  <2>9. NewFd' /\ Passed'
    BY <2>1 DEF NewFd, Passed
  <2>10. QED
    BY <2>6, <2>7, <2>8, <2>9 DEF TableInv
<1>6. CASE AddStatus
  <2>1. /\ UNCHANGED <<owner, client_socketfd, ip_addr, recv, check>>
        /\ listen.pc = "status" /\ listen'.pc = "load" /\ listen.count \in Slot
        /\ connect_client_status' = [connect_client_status EXCEPT ![listen.count] = "CONNECT"]
    BY <1>a, <1>b, <1>6, Types DEF AddStatus, ListenType, ListenIdle, kernel
  <2>2. /\ recv.pc \notin {"clear", "status", "load", "store", "ip"} /\ check.pc = "scan"
        /\ \A s \in Slot : Busy(s) => s = listen.count
    BY <1>a, <2>1 DEF Exclusive, ListenInside, RecvInside, CheckInside, Busy
  <2>3. /\ connect_client_status'[listen.count] = "CONNECT"
        /\ \A s \in Slot : s # listen.count =>
             connect_client_status'[s] = connect_client_status[s]
    BY <1>a, <2>1, Types
  <2>4. Settled'
    <3>1. ASSUME NEW s \in Slot, s = listen.count PROVE Occupied(s)'
      BY <1>a, <2>1, <2>3, <3>1 DEF TableInv, Sections, ListenSection, Occupied
    <3>2. ASSUME NEW s \in Slot, s # listen.count PROVE Vacant(s)' \/ Occupied(s)'
      BY <1>a, <2>1, <2>2, <2>3, <3>2 DEF TableInv, Settled, Vacant, Occupied
    <3>3. QED
      BY <3>1, <3>2 DEF Settled
  <2>5. Sections' /\ Distinct' /\ NewFd' /\ Passed'
    BY <1>a, <2>1, <2>2
       DEF TableInv, Sections, ListenSection, RecvSection, CheckSection, Distinct, NewFd, Passed
  <2>6. QED
    BY <2>4, <2>5 DEF TableInv
<1>7. QED
  BY <1>1, <1>2, <1>3, <1>4, <1>5, <1>6 DEF ListenStep

\* The steps of the recv thread and the table.
LEMMA RecvKeepsTable == SerialInv /\ RecvStep /\ Exclusive' => TableInv'
<1> SUFFICES ASSUME SerialInv, RecvStep, Exclusive' PROVE TableInv'
  OBVIOUS
<1>a. IInv /\ Exclusive /\ TableInv /\ ZeroUnused
  BY DEF SerialInv
<1>b. recv \in RecvType /\ RecvIdle.pc = "idle"
  BY <1>a, Types DEF RecvIdle
<1>c. NextTurn.pc = "round"
  BY <1>b DEF NextTurn, RecvType
<1>1. CASE \/ RecvZeroSet \/ BuildTest \/ BuildGroup \/ BuildSet
           \/ RecvSelect \/ RecvReturn \/ RecvRoundEnd \/ RecvSkip
           \/ RecvData \/ RecvLost \/ CloseNotFound \/ CloseSkip
  <2>1. /\ UNCHANGED <<owner, client_socketfd, ip_addr, connect_client_status, listen, check>>
        /\ recv.pc \notin {"clear", "status", "load", "store", "ip"}
        /\ recv'.pc \notin {"clear", "status", "load", "store", "ip"}
    <3> USE <1>b, <1>c DEF info, kernel, RecvType, InRound, InSearch
    <3>1. CASE RecvZeroSet
      BY <3>1 DEF RecvZeroSet
    <3>2. CASE BuildTest
      BY <3>2 DEF BuildTest, BuildNext, RecvIdle
    <3>15. CASE BuildGroup
      BY <3>15 DEF BuildGroup
    <3>16. CASE BuildSet
      BY <3>16 DEF BuildSet, BuildNext, RecvIdle
    <3>3. CASE RecvSelect
      BY <3>3 DEF RecvSelect
    <3>4. CASE RecvReturn
      BY <3>4 DEF RecvReturn, RecvIdle
    <3>5. CASE RecvRoundEnd
      BY <3>5 DEF RecvRoundEnd
    <3>6. CASE RecvSkip
      BY <3>6 DEF RecvSkip
    <3>7. CASE RecvData
      BY <3>7 DEF RecvData
    <3>8. CASE RecvLost
      BY <3>8 DEF RecvLost
    <3>9. CASE CloseNotFound
      BY <3>9 DEF CloseNotFound
    <3>10. CASE CloseSkip
      BY <3>10 DEF CloseSkip
    <3>11. QED
      BY <1>1, <3>1, <3>2, <3>3, <3>4, <3>5, <3>6, <3>7, <3>8, <3>9, <3>10, <3>15, <3>16
  <2>2. QED
    BY <1>a, <2>1, QuietTable
<1>2. CASE CloseLoad \/ CloseStore
  <2>1. /\ UNCHANGED <<owner, client_socketfd, ip_addr, connect_client_status, listen, check>>
        /\ recv.pc \in {"load", "store"} /\ recv'.pc \in {"store", "ip"}
        /\ recv'.slot = recv.slot
    <3>1. CASE CloseLoad
      BY <1>b, <3>1 DEF CloseLoad, RecvType, info, kernel
    <3>2. CASE CloseStore
      BY <1>a, <1>b, <3>2, StoredTypes DEF CloseStore, info, kernel
    <3>3. QED
      BY <1>2, <3>1, <3>2
  <2>2. QED
    BY <1>a, <2>1, QuietTable
<1>3. CASE CloseFound
  <2>1. /\ UNCHANGED <<client_socketfd, ip_addr, connect_client_status, listen, check>>
        /\ recv.pc = "lost" /\ recv'.pc = "clear" /\ recv'.slot = recv.slot
        /\ recv.slot \in Slot /\ Current \in Fd /\ Current # 0
        /\ client_socketfd[recv.slot] = Current /\ Close(Current)
    BY <1>a, <1>b, <1>3, Types DEF CloseFound, InSearch, ZeroUnused, RecvType, info
  <2>2. ~ListenInside /\ ~CheckInside
    BY <2>1 DEF Exclusive, ListenInside, RecvInside, CheckInside
  <2>3. /\ listen.pc # "status" /\ check.pc = "scan" /\ \A s \in Slot : ~Busy(s)
    BY <2>1, <2>2 DEF ListenInside, CheckInside, Busy
  <2>4. ASSUME NEW s \in Slot, s # recv.slot, Occupied(s) PROVE Occupied(s)'
    <3>1. client_socketfd[s] # Current
      BY <1>a, <2>1, <2>4 DEF TableInv, Distinct
    <3>2. QED
      BY <1>a, <2>1, <2>4, <3>1, CloseUnslotted DEF Occupied
  <2>5. Settled'
    <3>1. \A s \in Slot : s = recv.slot => Busy(s)'
      BY <2>1 DEF Busy
    <3>2. \A s \in Slot : Vacant(s) => Vacant(s)'
      BY <2>1 DEF Vacant
    <3>3. QED
      BY <1>a, <2>3, <2>4, <3>1, <3>2 DEF TableInv, Settled
  <2>6. Sections' /\ Distinct' /\ Passed'
    BY <1>a, <2>1, <2>3
       DEF TableInv, Sections, ListenSection, RecvSection, CheckSection, Distinct, Passed
  <2>7. NewFd'
    <3>1. listen.pc = "add" => listen.fd # Current /\ listen.fd \in Fd
      BY <1>a, Types, <2>1, <2>3 DEF TableInv, NewFd
    <3>2. listen.pc = "add" => owner'[listen.fd] = owner[listen.fd]
      BY <1>a, Types, <2>1, <3>1 DEF Close
    <3>3. QED
      BY <1>a, <2>1, <2>3, <3>2 DEF TableInv, NewFd
  <2>8. QED
    BY <2>5, <2>6, <2>7 DEF TableInv
<1>4. CASE CloseFd
  <2>1. /\ UNCHANGED <<owner, ip_addr, connect_client_status, listen, check>>
        /\ recv.pc = "clear" /\ recv'.pc = "status" /\ recv'.slot = recv.slot
        /\ recv.slot \in Slot
        /\ client_socketfd' = [client_socketfd EXCEPT ![recv.slot] = 0]
    BY <1>a, <1>b, <1>4, Types DEF CloseFd, RecvType, kernel
  <2>2. /\ listen.pc # "status" /\ check.pc = "scan"
        /\ \A s \in Slot : Busy(s) => s = recv.slot
    BY <1>a, <2>1 DEF Exclusive, ListenInside, RecvInside, CheckInside, Busy
  <2>3. /\ client_socketfd'[recv.slot] = 0
        /\ \A s \in Slot : s # recv.slot => client_socketfd'[s] = client_socketfd[s]
    BY <1>a, <2>1, Types
  <2>4. Settled'
    <3>1. \A s \in Slot : s = recv.slot => Busy(s)'
      BY <2>1 DEF Busy
    <3>2. ASSUME NEW s \in Slot, s # recv.slot PROVE Vacant(s)' \/ Occupied(s)'
      BY <1>a, <2>1, <2>2, <2>3, <3>2 DEF TableInv, Settled, Vacant, Occupied
    <3>3. QED
      BY <3>1, <3>2 DEF Settled
  <2>5. Sections'
    BY <2>1, <2>2, <2>3 DEF Sections, ListenSection, RecvSection, CheckSection
  <2>6. Distinct'
    BY <1>a, <2>1, <2>3 DEF TableInv, Distinct
  <2>7. NewFd' /\ Passed'
    BY <1>a, <2>1, <2>2, <2>3 DEF TableInv, NewFd, Passed
  <2>8. QED
    BY <2>4, <2>5, <2>6, <2>7 DEF TableInv
<1>7. CASE CloseStatus
  <2>1. /\ UNCHANGED <<owner, client_socketfd, ip_addr, listen, check>>
        /\ recv.pc = "status" /\ recv'.pc = "load" /\ recv'.slot = recv.slot
        /\ recv.slot \in Slot
        /\ connect_client_status' = [connect_client_status EXCEPT ![recv.slot] = "UNCONNECT"]
    BY <1>a, <1>b, <1>7, Types DEF CloseStatus, RecvType, kernel
  <2>2. /\ listen.pc # "status" /\ check.pc = "scan"
        /\ \A s \in Slot : Busy(s) => s = recv.slot
    BY <1>a, <2>1 DEF Exclusive, ListenInside, RecvInside, CheckInside, Busy
  <2>3. /\ connect_client_status'[recv.slot] = "UNCONNECT"
        /\ \A s \in Slot : s # recv.slot =>
             connect_client_status'[s] = connect_client_status[s]
    BY <1>a, <2>1, Types
  <2>4. Settled'
    <3>1. \A s \in Slot : s = recv.slot => Busy(s)'
      BY <2>1 DEF Busy
    <3>2. ASSUME NEW s \in Slot, s # recv.slot PROVE Vacant(s)' \/ Occupied(s)'
      BY <1>a, <2>1, <2>2, <2>3, <3>2 DEF TableInv, Settled, Vacant, Occupied
    <3>3. QED
      BY <3>1, <3>2 DEF Settled
  <2>5. Sections'
    BY <1>a, <2>1, <2>2, <2>3
       DEF TableInv, Sections, ListenSection, RecvSection, CheckSection
  <2>6. Distinct' /\ NewFd' /\ Passed'
    BY <1>a, <2>1, <2>2 DEF TableInv, Distinct, NewFd, Passed
  <2>7. QED
    BY <2>4, <2>5, <2>6 DEF TableInv
<1>5. CASE CloseIp
  <2>1. /\ UNCHANGED <<owner, client_socketfd, connect_client_status, listen, check>>
        /\ recv.pc = "ip" /\ recv'.pc = "round" /\ recv.slot \in Slot
        /\ ip_addr' = [ip_addr EXCEPT ![recv.slot] = NoIp]
    BY <1>a, <1>b, <1>c, <1>5, Types DEF CloseIp, kernel
  <2>2. /\ listen.pc # "status" /\ check.pc = "scan"
        /\ listen.pc = "add" => ~(listen.count > 0)
        /\ \A s \in Slot : Busy(s) => s = recv.slot
    BY <1>a, <2>1 DEF Exclusive, ListenInside, RecvInside, CheckInside, Busy
  <2>3. /\ ip_addr'[recv.slot] = NoIp
        /\ \A s \in Slot : s # recv.slot => ip_addr'[s] = ip_addr[s]
    BY <1>a, <2>1, Types
  <2>4. Settled'
    <3>1. ASSUME NEW s \in Slot, s = recv.slot PROVE Vacant(s)'
      BY <1>a, <2>1, <2>3, <3>1 DEF TableInv, Sections, RecvSection, Vacant
    <3>2. ASSUME NEW s \in Slot, s # recv.slot PROVE Vacant(s)' \/ Occupied(s)'
      BY <1>a, <2>1, <2>2, <2>3, <3>2 DEF TableInv, Settled, Vacant, Occupied
    <3>3. QED
      BY <3>1, <3>2 DEF Settled
  <2>5. Sections' /\ Distinct' /\ NewFd'
    BY <1>a, <2>1, <2>2
       DEF TableInv, Sections, ListenSection, RecvSection, CheckSection, Distinct, NewFd
  <2>6. Passed'
    <3>1. listen.pc = "add" => \A s \in Slot : ~(s < listen.count)
      BY <1>a, <2>2, Types, ServerAssumption DEF Slot
    <3>2. QED
      BY <1>a, <2>1, <3>1 DEF TableInv, Passed
  <2>7. QED
    BY <2>4, <2>5, <2>6 DEF TableInv
<1>6. QED
  BY <1>1, <1>2, <1>3, <1>4, <1>5, <1>7 DEF RecvStep

\* The steps of the check_alive thread and the table.
LEMMA CheckKeepsTable == SerialInv /\ CheckStep /\ Exclusive' => TableInv'
<1> SUFFICES ASSUME SerialInv, CheckStep, Exclusive' PROVE TableInv'
  OBVIOUS
<1>a. IInv /\ Exclusive /\ TableInv /\ ZeroUnused
  BY DEF SerialInv
<1>b. check \in CheckType /\ check.count \in Slot /\ NextSlot.pc = "scan"
  BY <1>a, Types DEF NextSlot, CheckAt
<1> USE <1>b
<1>1. CASE CheckSkip
  <2>1. /\ UNCHANGED <<owner, client_socketfd, ip_addr, connect_client_status, listen, recv>>
        /\ check.pc = "scan" /\ check'.pc = "scan"
    BY <1>1 DEF CheckSkip, info, kernel
  <2>2. QED
    BY <1>a, <2>1, QuietTable
<1>2. CASE CheckLoad \/ CheckStore
  <2>1. /\ UNCHANGED <<owner, client_socketfd, ip_addr, connect_client_status, listen, recv>>
        /\ check.pc \in {"load", "store"} /\ check'.pc \in {"store", "ip"}
        /\ check'.count = check.count
    BY <1>2 DEF CheckLoad, CheckStore, CheckType, info, kernel
  <2>2. QED
    BY <1>a, <2>1, QuietTable
<1>3. CASE CheckExpired
  <2>1. /\ UNCHANGED <<owner, client_socketfd, ip_addr, connect_client_status, listen, recv>>
        /\ check.pc = "scan" /\ check'.pc = "close" /\ check'.count = check.count
        /\ connect_client_status[check.count] = "CONNECT"
    BY <1>3 DEF CheckExpired, Expired, CheckType, info, kernel
  <2>2. \A s \in Slot : ~Busy(s)
    BY <2>1 DEF Exclusive, ListenInside, RecvInside, CheckInside, Busy
  <2>3. Occupied(check.count)
    BY <1>a, <2>1, <2>2 DEF TableInv, Settled, Vacant
  <2>4. Settled'
    BY <1>a, <2>1 DEF TableInv, Settled, Busy, Vacant, Occupied
  <2>5. Sections'
    BY <1>a, <2>1, <2>3
       DEF TableInv, Sections, ListenSection, RecvSection, CheckSection, Occupied
  <2>6. Distinct' /\ NewFd' /\ Passed'
    BY <1>a, <2>1 DEF TableInv, Distinct, NewFd, Passed
  <2>7. QED
    BY <2>4, <2>5, <2>6 DEF TableInv
<1>c. check.pc # "scan" =>
        /\ listen.pc # "status" /\ recv.pc \notin {"clear", "status", "load", "store", "ip"}
        /\ listen.pc = "add" => ~(listen.count > 0)
        /\ \A s \in Slot : Busy(s) => s = check.count
  BY <1>a DEF Exclusive, ListenInside, RecvInside, CheckInside, Busy
<1>4. CASE CheckClose
  <2> DEFINE fd == client_socketfd[check.count]
  <2>1. /\ UNCHANGED <<client_socketfd, ip_addr, connect_client_status, listen, recv>>
        /\ check.pc = "close" /\ check'.pc = "fd" /\ check'.count = check.count
        /\ Close(fd) /\ fd \in Fd
    BY <1>a, <1>4, Types DEF CheckClose, CheckType, info
  <2>2. fd # 0
    BY <1>a, <2>1 DEF TableInv, Sections, CheckSection, Occupied
  <2>3. ASSUME NEW s \in Slot, s # check.count, Occupied(s) PROVE Occupied(s)'
    <3>1. client_socketfd[s] # fd
      BY <1>a, <2>2, <2>3 DEF TableInv, Distinct
    <3>2. QED
      BY <1>a, <2>1, <2>3, <3>1, CloseUnslotted DEF Occupied
  <2>4. Settled'
    <3>1. \A s \in Slot : s = check.count => Busy(s)'
      BY <2>1 DEF Busy
    <3>2. \A s \in Slot : Vacant(s) => Vacant(s)'
      BY <2>1 DEF Vacant
    <3>3. QED
      BY <1>a, <1>c, <2>1, <2>3, <3>1, <3>2 DEF TableInv, Settled
  <2>5. Sections' /\ Distinct' /\ Passed'
    BY <1>a, <1>c, <2>1, <2>2
       DEF TableInv, Sections, ListenSection, RecvSection, CheckSection, Distinct, Passed
  <2>6. NewFd'
    <3>1. listen.pc = "add" => listen.fd # fd /\ listen.fd \in Fd
      BY <1>a, <1>c, Types, <2>1 DEF TableInv, NewFd
    <3>2. listen.pc = "add" => owner'[listen.fd] = owner[listen.fd]
      BY <1>a, Types, <2>1, <3>1 DEF Close
    <3>3. QED
      BY <1>a, <1>c, <2>1, <3>2 DEF TableInv, NewFd
  <2>7. QED
    BY <2>4, <2>5, <2>6 DEF TableInv
<1>5. CASE CheckFd
  <2>1. /\ UNCHANGED <<owner, ip_addr, connect_client_status, listen, recv>>
        /\ check.pc = "fd" /\ check'.pc = "load" /\ check'.count = check.count
        /\ client_socketfd' = [client_socketfd EXCEPT ![check.count] = 0]
    BY <1>5 DEF CheckFd, CheckType, kernel
  <2>2. /\ client_socketfd'[check.count] = 0
        /\ \A s \in Slot : s # check.count => client_socketfd'[s] = client_socketfd[s]
    BY <1>a, <2>1, Types
  <2>3. Settled'
    <3>1. \A s \in Slot : s = check.count => Busy(s)'
      BY <2>1 DEF Busy
    <3>2. ASSUME NEW s \in Slot, s # check.count PROVE Vacant(s)' \/ Occupied(s)'
      BY <1>a, <1>c, <2>1, <2>2, <3>2 DEF TableInv, Settled, Vacant, Occupied
    <3>3. QED
      BY <3>1, <3>2 DEF Settled
  <2>4. Sections'
    BY <1>c, <2>1, <2>2 DEF Sections, ListenSection, RecvSection, CheckSection
  <2>5. Distinct'
    BY <1>a, <2>1, <2>2 DEF TableInv, Distinct
  <2>6. NewFd' /\ Passed'
    BY <1>a, <1>c, <2>1, <2>2 DEF TableInv, NewFd, Passed
  <2>7. QED
    BY <2>3, <2>4, <2>5, <2>6 DEF TableInv
<1>6. CASE CheckIp
  <2>1. /\ UNCHANGED <<owner, client_socketfd, connect_client_status, listen, recv>>
        /\ check.pc = "ip" /\ check'.pc = "status" /\ check'.count = check.count
        /\ ip_addr' = [ip_addr EXCEPT ![check.count] = NoIp]
    BY <1>6 DEF CheckIp, CheckType, kernel
  <2>2. /\ ip_addr'[check.count] = NoIp
        /\ \A s \in Slot : s # check.count => ip_addr'[s] = ip_addr[s]
    BY <1>a, <2>1, Types
  <2>3. Settled'
    <3>1. \A s \in Slot : s = check.count => Busy(s)'
      BY <2>1 DEF Busy
    <3>2. ASSUME NEW s \in Slot, s # check.count PROVE Vacant(s)' \/ Occupied(s)'
      BY <1>a, <1>c, <2>1, <2>2, <3>2 DEF TableInv, Settled, Vacant, Occupied
    <3>3. QED
      BY <3>1, <3>2 DEF Settled
  <2>4. Sections' /\ Distinct' /\ NewFd'
    BY <1>a, <1>c, <2>1, <2>2
       DEF TableInv, Sections, ListenSection, RecvSection, CheckSection, Distinct, NewFd
  <2>5. Passed'
    <3>1. listen.pc = "add" => \A s \in Slot : ~(s < listen.count)
      BY <1>a, <1>c, <2>1, Types, ServerAssumption DEF Slot
    <3>2. QED
      BY <1>a, <2>1, <3>1 DEF TableInv, Passed
  <2>6. QED
    BY <2>3, <2>4, <2>5 DEF TableInv
<1>7. CASE CheckStatus
  <2>1. /\ UNCHANGED <<owner, client_socketfd, ip_addr, listen, recv>>
        /\ check.pc = "status" /\ check'.pc = "scan"
        /\ connect_client_status' = [connect_client_status EXCEPT ![check.count] = "UNCONNECT"]
    BY <1>7 DEF CheckStatus, kernel
  <2>2. /\ connect_client_status'[check.count] = "UNCONNECT"
        /\ \A s \in Slot : s # check.count => connect_client_status'[s] = connect_client_status[s]
    BY <1>a, <2>1, Types
  <2>3. Settled'
    <3>1. ASSUME NEW s \in Slot, s = check.count PROVE Vacant(s)'
      BY <1>a, <2>1, <2>2, <3>1 DEF TableInv, Sections, CheckSection, Vacant
    <3>2. ASSUME NEW s \in Slot, s # check.count PROVE Vacant(s)' \/ Occupied(s)'
      BY <1>a, <1>c, <2>1, <2>2, <3>2 DEF TableInv, Settled, Vacant, Occupied
    <3>3. QED
      BY <3>1, <3>2 DEF Settled
  <2>4. Sections' /\ Distinct' /\ NewFd' /\ Passed'
    BY <1>a, <1>c, <2>1, <2>2
       DEF TableInv, Sections, ListenSection, RecvSection, CheckSection, Distinct, NewFd, Passed
  <2>5. QED
    BY <2>3, <2>4 DEF TableInv
<1>8. QED
  BY <1>1, <1>2, <1>3, <1>4, <1>5, <1>6, <1>7 DEF CheckStep

\* The other steps do not touch the table.
LEMMA OthersKeepTable == SerialInv /\ (HandleStep \/ ClientStep) => TableInv'
<1> SUFFICES ASSUME SerialInv, HandleStep \/ ClientStep PROVE TableInv'
  OBVIOUS
<1>1. TableInv
  BY DEF SerialInv
<1>2. UNCHANGED <<owner, client_socketfd, ip_addr, connect_client_status, listen, recv, check>>
  BY DEF HandleStep, HandleBeat, HandlePassThrough, HandleReply,
         ClientStep, ClientConnect, ClientSend, ClientClose, Tick, info, kernel
<1>3. QED
  BY <1>1, <1>2, QuietTable

-----------------------------------------------------------------------------
\* No thread reads or closes descriptor 0.
LEMMA ZeroStep == SerialInv /\ Next => ZeroUnused'
<1> SUFFICES ASSUME SerialInv, Next PROVE ZeroUnused'
  OBVIOUS
<1>a. IInv /\ TableInv /\ ZeroUnused
  BY DEF SerialInv
<1>b. /\ listen \in ListenType /\ recv \in RecvType
      /\ ListenIdle.set = {} /\ RecvIdle.set = {} /\ RecvIdle.pc = "idle"
      /\ NextTurn.set = recv.set /\ NextTurn.pc = "round"
  BY <1>a, Types DEF ListenIdle, RecvIdle, NextTurn, RecvType
<1>c. owner \in [Fd -> Ip \cup {"stdin", "closed"}] /\ 0 \in Fd
  BY <1>a, Types, ServerAssumption DEF Fd
<1>1. CASE ListenStep
  <2> USE <1>a, <1>b DEF ZeroUnused, selects, kernel, info, ListenType
  <2>1. UNCHANGED <<recv, fd_group>>
    BY <1>1 DEF ListenStep, ListenBuildSet, ListenSelect, ListenRebind, ListenReturn,
                ListenAccept, AddExists, AddFull, AddSkip, AddClaim, AddStatus, AddLoad, AddStore
  <2>2. recv'.pc = "lost" => Current' # 0
    BY <2>1 DEF Current
  <2>3. CASE ListenBuildSet
    BY <2>1, <2>2, <2>3 DEF ListenBuildSet, Listen
  <2>4. CASE ListenSelect
    BY <2>1, <2>2, <2>4 DEF ListenSelect
  <2>5. CASE ListenRebind
    BY <2>1, <2>2, <2>5 DEF ListenRebind
  <2>6. CASE ListenReturn
    <3>1. read_fd_group' \subseteq listen.set
      BY <2>6, ReadySubset DEF ListenReturn
    <3>2. QED
      BY <2>1, <2>2, <2>6, <3>1 DEF ListenReturn, ListenIdle
  <2>7. ASSUME NEW new_fd \in Fd, ListenAccept(new_fd) PROVE ZeroUnused'
    <3>1. owner' = [owner EXCEPT ![new_fd] = Head(backlog)] /\ owner[new_fd] = "closed"
      BY <2>7 DEF ListenAccept, First, FreeFd
    <3>2. owner'[0] = "stdin"
      BY <1>c, <3>1
    <3>3. read_fd_group' = read_fd_group /\ listen'.set = listen.set
      BY <2>7 DEF ListenAccept
    <3>4. QED
      BY <2>1, <2>2, <3>2, <3>3
  <2>8. CASE AddExists
    <3>1. owner' = [owner EXCEPT ![listen.fd] = "closed"] /\ listen.fd # 0
      BY <2>8 DEF AddExists, Close, TableInv, NewFd
    <3>2. owner'[0] = "stdin"
      BY <1>c, <3>1
    <3>3. read_fd_group' = read_fd_group /\ listen'.set = {}
      BY <2>8 DEF AddExists
    <3>4. QED
      BY <2>1, <2>2, <3>2, <3>3
  <2>9. CASE AddFull
    BY <2>1, <2>2, <2>9 DEF AddFull
  <2>10. CASE AddSkip
    BY <2>1, <2>2, <2>10 DEF AddSkip
  <2>11. CASE AddClaim
    BY <2>1, <2>2, <2>11 DEF AddClaim, ListenIdle
  <2>12. CASE AddStatus
    BY <2>1, <2>2, <2>12 DEF AddStatus, ListenIdle
  <2>13. CASE AddLoad
    BY <2>1, <2>2, <2>13 DEF AddLoad
  <2>14. CASE AddStore
    BY <2>1, <2>2, <2>14 DEF AddStore
  <2>15. QED
    BY <1>1, <2>3, <2>4, <2>5, <2>6, <2>7, <2>8, <2>9, <2>10, <2>11, <2>12, <2>13, <2>14
       DEF ListenStep
<1>2. CASE RecvStep
  <2> USE <1>a, <1>b DEF ZeroUnused, selects, kernel, info, RecvType, InRound, InSearch
  <2>1. UNCHANGED listen
    BY <1>2 DEF RecvStep, RecvZeroSet, BuildTest, BuildGroup, BuildSet, RecvSelect,
                RecvReturn, RecvRoundEnd, RecvSkip, RecvData, RecvLost, CloseNotFound, CloseSkip,
                CloseFound, CloseFd, CloseStatus, CloseLoad, CloseStore, CloseIp
  <2>2. CASE RecvZeroSet
    BY <2>1, <2>2 DEF RecvZeroSet
  <2>a. BuildNext.set \in {recv.set, {}} /\ BuildNext.pc # "lost"
    BY DEF BuildNext, RecvIdle
  <2>3. CASE BuildTest
    BY <2>1, <2>3, <2>a DEF BuildTest
  <2>18. CASE BuildGroup
    BY <2>1, <2>18 DEF BuildGroup
  <2>19. CASE BuildSet
    BY <2>1, <2>19, <2>a DEF BuildSet, SerialInv, Chosen, Building
  <2>4. CASE RecvSelect
    BY <2>1, <2>4 DEF RecvSelect
  <2>5. CASE RecvReturn
    <3>1. read_fd_group' \subseteq recv.set
      BY <2>5, ReadySubset DEF RecvReturn
    <3>2. QED
      BY <2>1, <2>5, <3>1 DEF RecvReturn, RecvIdle
  <2>6. CASE RecvRoundEnd
    BY <2>1, <2>6 DEF RecvRoundEnd
  <2>7. CASE RecvSkip
    BY <2>1, <2>7 DEF RecvSkip
  <2>8. CASE RecvData
    BY <2>1, <2>8 DEF RecvData
  <2>9. CASE RecvLost
    BY <2>1, <2>9 DEF RecvLost, Current
  <2>10. CASE CloseNotFound
    BY <2>1, <2>10 DEF CloseNotFound
  <2>11. CASE CloseSkip
    BY <2>1, <2>11 DEF CloseSkip, Current
  <2>12. CASE CloseFound
    <3>1. owner' = [owner EXCEPT ![Current] = "closed"] /\ Current # 0
      BY <2>12 DEF CloseFound, Close
    <3>2. owner'[0] = "stdin"
      BY <1>c, <3>1
    <3>3. read_fd_group' = read_fd_group /\ recv'.set = recv.set /\ recv'.pc = "clear"
      BY <2>12 DEF CloseFound
    <3>4. QED
      BY <2>1, <3>2, <3>3
  <2>13. CASE CloseFd
    BY <2>1, <2>13 DEF CloseFd
  <2>20. CASE CloseStatus
    BY <2>1, <2>20 DEF CloseStatus
  <2>14. CASE CloseLoad
    BY <2>1, <2>14 DEF CloseLoad
  <2>15. CASE CloseStore
    <3>1. recv'.set = recv.set /\ recv'.pc = "ip" /\ UNCHANGED <<owner, read_fd_group>>
      BY <2>15 DEF CloseStore
    <3>2. QED
      BY <2>1, <3>1
  <2>16. CASE CloseIp
    BY <2>1, <2>16 DEF CloseIp
  <2>17. QED
    BY <1>2, <2>2, <2>3, <2>4, <2>5, <2>6, <2>7, <2>8, <2>9, <2>10, <2>11, <2>12, <2>13,
       <2>14, <2>15, <2>16, <2>18, <2>19, <2>20 DEF RecvStep
<1>3. CASE CheckClose
  <2>1. /\ owner' = [owner EXCEPT ![client_socketfd[check.count]] = "closed"]
        /\ client_socketfd[check.count] # 0
    BY <1>a, <1>3 DEF CheckClose, Close, TableInv, Sections, CheckSection, Occupied
  <2>2. owner'[0] = "stdin"
    BY <1>a, <1>c, <2>1 DEF ZeroUnused
  <2>3. UNCHANGED <<read_fd_group, fd_group, listen, recv>>
    BY <1>3 DEF CheckClose, selects
  <2>4. QED
    BY <1>a, <2>2, <2>3 DEF ZeroUnused, Current
<1>4. CASE (CheckStep /\ ~CheckClose) \/ HandleStep \/ ClientStep
  <2>1. UNCHANGED <<owner, read_fd_group, fd_group, listen, recv>>
    BY <1>4 DEF CheckStep, CheckSkip, CheckExpired, CheckFd, CheckLoad, CheckStore, CheckIp,
                CheckStatus, HandleStep, HandleBeat, HandlePassThrough, HandleReply,
                ClientStep, ClientConnect, ClientSend, ClientClose, Tick, selects, kernel
  <2>2. QED
    BY <1>a, <2>1 DEF ZeroUnused, Current
<1>5. QED
  BY <1>1, <1>2, <1>3, <1>4 DEF Next

\* check_alive waits while a slot is added to the set, and the listen thread
\* only stores descriptors that are open.
LEMMA ChosenStep == SerialInv /\ Next => Chosen'
<1> SUFFICES ASSUME SerialInv, Next, Building' PROVE client_socketfd'[recv'.count] # 0
  BY DEF Chosen
<1>a. IInv /\ Exclusive /\ TableInv /\ Chosen
  BY DEF SerialInv
<1>b. /\ recv \in RecvType /\ RecvIdle.pc = "idle" /\ NextTurn.pc = "round"
      /\ BuildNext.pc \in {"build", "select"}
  BY <1>a, Types DEF RecvIdle, NextTurn, BuildNext, RecvType
<1>1. CASE RecvStep
  <2>1. CASE BuildTest
    BY <1>b, <2>1 DEF BuildTest, Building, RecvType, info
  <2>2. CASE BuildGroup
    BY <1>a, <1>b, <2>2 DEF BuildGroup, Chosen, Building, RecvType, info
  <2>3. CASE ~BuildTest /\ ~BuildGroup
    <3> USE <1>b DEF Building, RecvType
    <3>1. ~(BuildSet \/ RecvZeroSet \/ RecvSelect \/ RecvReturn \/ RecvRoundEnd \/ RecvLost)
      BY DEF BuildSet, RecvZeroSet, RecvSelect, RecvReturn, RecvRoundEnd, RecvLost, RecvIdle
    <3>2. ~(RecvSkip \/ RecvData \/ CloseNotFound \/ CloseIp)
      BY DEF RecvSkip, RecvData, CloseNotFound, CloseIp
    <3>3. ~(CloseSkip \/ CloseFound \/ CloseFd \/ CloseStatus \/ CloseLoad \/ CloseStore)
      BY DEF CloseSkip, InSearch, CloseFound, CloseFd, CloseStatus, CloseLoad, CloseStore
    <3>4. QED
      BY <1>1, <2>3, <3>1, <3>2, <3>3 DEF RecvStep
  <2>4. QED
    BY <2>1, <2>2, <2>3
<1>2. CASE AddClaim
  <2>1. listen.fd \in Fd /\ Uint8(listen.fd) = listen.fd /\ listen.count \in Slot
    BY <1>a, Types, Uint8Same DEF SerialInv
  <2>2. listen.fd # 0
    BY <1>a, <1>2 DEF AddClaim, TableInv, NewFd
  <2>3. recv' = recv /\ client_socketfd' = [client_socketfd EXCEPT ![listen.count] = listen.fd]
    BY <1>2, <2>1 DEF AddClaim
  <2>4. client_socketfd[recv.count] # 0 /\ recv.count \in Slot
    BY <1>a, <2>3 DEF Chosen, Building, IInv, LocalInv
  <2>5. QED
    BY <1>a, <2>1, <2>2, <2>3, <2>4, Types
<1>3. CASE CheckFd
  BY <1>a, <1>3 DEF CheckFd, Exclusive, CheckInside, Building
<1>4. CASE (ListenStep /\ ~AddClaim) \/ (CheckStep /\ ~CheckFd) \/ HandleStep \/ ClientStep
  <2>1. UNCHANGED <<client_socketfd, recv>>
    BY <1>4 DEF ListenStep, ListenBuildSet, ListenSelect, ListenRebind, ListenReturn,
                ListenAccept, AddExists, AddFull, AddSkip, AddStatus, AddLoad, AddStore,
                CheckStep, CheckSkip, CheckExpired, CheckClose, CheckLoad, CheckStore, CheckIp,
                CheckStatus, HandleStep, HandleBeat, HandlePassThrough, HandleReply,
                ClientStep, ClientConnect, ClientSend, ClientClose, Tick, info
  <2>2. QED
    BY <1>a, <2>1 DEF Chosen, Building
<1>5. QED
  BY <1>1, <1>2, <1>3, <1>4 DEF Next

-----------------------------------------------------------------------------
\* The slots in use are finitely many, so they can be counted.
LEMMA HeldFinite == IsFiniteSet(Held) /\ Cardinality(Held) \in Nat
<1>1. IsFiniteSet(Slot)
  BY ServerAssumption, FS_Interval DEF Slot
<1>2. Held \in SUBSET Slot
  BY DEF Held
<1>3. IsFiniteSet(Held)
  BY <1>1, <1>2, FS_Subset
<1>4. QED
  BY <1>3, FS_CardinalityType

\* A connection put into an empty slot, and the descriptor of a slot cleared.
LEMMA HeldAdd ==
  ASSUME IInv, NEW s \in Slot, NEW f, f # 0, client_socketfd[s] = 0,
         client_socketfd' = [client_socketfd EXCEPT ![s] = f]
  PROVE  Cardinality(Held') = Cardinality(Held) + 1
<1>1. client_socketfd \in [Slot -> Fd]
  BY Types
<1>2. Held' = Held \cup {s} /\ s \notin Held
  BY <1>1 DEF Held
<1>3. QED
  BY <1>2, HeldFinite, FS_AddElement

LEMMA HeldRemove ==
  ASSUME IInv, NEW s \in Slot, client_socketfd[s] # 0,
         client_socketfd' = [client_socketfd EXCEPT ![s] = 0]
  PROVE  Cardinality(Held') = Cardinality(Held) - 1
<1>1. client_socketfd \in [Slot -> Fd]
  BY Types
<1>2. Held' = Held \ {s} /\ s \in Held
  BY <1>1 DEF Held
<1>3. QED
  BY <1>2, HeldFinite, FS_RemoveElement

\* A step that neither changes a slot's descriptor nor the count, nor takes a
\* thread into or out of the part of its section in which the two differ.
LEMMA QuietTally ==
  ASSUME Tally, UNCHANGED <<client_conectnum, client_socketfd>>,
         Adding' <=> Adding, Ending' <=> Ending,
         listen' = listen \/ listen'.pc # "store",
         recv' = recv \/ recv'.pc # "store",
         check' = check \/ check'.pc # "store"
  PROVE  Tally'
<1>1. Held' = Held
  BY DEF Held
<1>2. Off' = Off
  BY DEF Off
<1>3. QED
  BY <1>1, <1>2 DEF Tally

\* The steps of the listen thread and the count.
LEMMA ListenKeepsTally == SerialInv /\ ListenStep /\ Exclusive' => Tally'
<1> SUFFICES ASSUME SerialInv, ListenStep, Exclusive' PROVE Tally'
  OBVIOUS
<1>a. IInv /\ Exclusive /\ TableInv /\ Tally
  BY DEF SerialInv
<1>b. listen \in ListenType /\ ListenIdle.pc = "idle" /\ client_conectnum \in Int
  BY <1>a, Types DEF ListenIdle
<1>c. Adding => ~Ending /\ recv.pc # "store" /\ check.pc # "store"
  BY <1>a DEF Adding, Ending, Exclusive, ListenInside, RecvInside, CheckInside
<1>1. CASE /\ ~AddClaim /\ ~AddStatus /\ ~AddLoad /\ ~AddStore
  <2>1. /\ UNCHANGED <<client_conectnum, client_socketfd, recv, check>>
        /\ listen.pc \notin {"status", "load", "store"}
        /\ listen'.pc \notin {"status", "load", "store"}
    <3> USE <1>b DEF info, ListenType
    <3>1. CASE ListenBuildSet
      BY <3>1 DEF ListenBuildSet
    <3>2. CASE ListenSelect
      BY <3>2 DEF ListenSelect
    <3>3. CASE ListenRebind
      BY <3>3 DEF ListenRebind
    <3>4. CASE ListenReturn
      BY <3>4 DEF ListenReturn, ListenIdle
    <3>5. CASE \E new_fd \in Fd : ListenAccept(new_fd)
      BY <3>5 DEF ListenAccept
    <3>6. CASE AddExists
      BY <3>6 DEF AddExists
    <3>7. CASE AddFull
      BY <3>7 DEF AddFull
    <3>8. CASE AddSkip
      BY <3>8 DEF AddSkip
    <3>9. QED
      BY <1>1, <3>1, <3>2, <3>3, <3>4, <3>5, <3>6, <3>7, <3>8 DEF ListenStep
  <2>2. (Adding' <=> Adding) /\ (Ending' <=> Ending)
    BY <2>1 DEF Adding, Ending
  <2>3. QED
    BY <1>a, <2>1, <2>2, QuietTally
<1>2. CASE AddClaim
  <2>1. /\ UNCHANGED <<client_conectnum, recv, check>>
        /\ listen.pc = "add" /\ listen'.pc = "status" /\ ip_addr[listen.count] = NoIp
        /\ client_socketfd' = [client_socketfd EXCEPT ![listen.count] = listen.fd]
        /\ listen.count \in Slot /\ listen.fd # 0
    <3>1. listen.fd \in Fd /\ Uint8(listen.fd) = listen.fd
      BY <1>a, Types, Uint8Same DEF SerialInv
    <3>2. QED
      BY <1>a, <1>b, <1>2, <3>1, Types DEF AddClaim, ListenType, TableInv, NewFd
  <2>2. ~RecvInside /\ ~CheckInside
    BY <2>1 DEF Exclusive, ListenInside, RecvInside, CheckInside
  <2>3. client_socketfd[listen.count] = 0
    <3>1. ~Busy(listen.count)
      BY <2>1, <2>2 DEF Busy, RecvInside, CheckInside
    <3>2. NoIp \notin Ip
      BY ServerAssumption
    <3>3. QED
      BY <1>a, <2>1, <3>1, <3>2 DEF TableInv, Settled, Vacant, Occupied
  <2>4. Cardinality(Held') = Cardinality(Held) + 1
    BY <1>a, <2>1, <2>3, HeldAdd
  <2>5. Off = 0 /\ Off' = -1
    BY <2>1, <2>2 DEF Off, Adding, Ending, RecvInside, CheckInside
  <2>6. recv.pc # "store" /\ check.pc # "store"
    BY <2>2 DEF RecvInside, CheckInside
  <2>7. QED
    BY <1>a, <1>b, <2>1, <2>4, <2>5, <2>6, HeldFinite DEF Tally
<1>3. CASE AddStatus \/ AddLoad
  <2>1. /\ UNCHANGED <<client_conectnum, client_socketfd, recv, check>>
        /\ Adding /\ Adding'
        /\ listen'.pc = "store" => listen'.load = client_conectnum
    <3>1. CASE AddStatus
      BY <3>1 DEF AddStatus, Adding, ListenIdle
    <3>2. CASE AddLoad
      BY <1>b, <3>2 DEF AddLoad, Adding, ListenType, info
    <3>3. QED
      BY <1>3, <3>1, <3>2
  <2>2. Held' = Held /\ Off' = Off
    BY <2>1 DEF Held, Off
  <2>3. QED
    BY <1>a, <2>1, <2>2 DEF Tally
<1>4. CASE AddStore
  <2>1. /\ UNCHANGED <<client_socketfd, recv, check>>
        /\ listen.pc = "store" /\ listen'.pc = "idle" /\ client_conectnum' = listen.load + 1
    BY <1>b, <1>4 DEF AddStore, info
  <2>2. Held' = Held /\ Off = -1 /\ Off' = 0
    BY <1>c, <2>1 DEF Held, Off, Adding, Ending
  <2>3. QED
    BY <1>a, <1>b, <1>c, <2>1, <2>2, HeldFinite DEF Tally, Adding
<1>5. QED
  BY <1>1, <1>2, <1>3, <1>4

\* The steps of the recv thread and the count.
LEMMA RecvKeepsTally == SerialInv /\ RecvStep => Tally'
<1> SUFFICES ASSUME SerialInv, RecvStep PROVE Tally'
  OBVIOUS
<1>a. IInv /\ Exclusive /\ TableInv /\ Tally
  BY DEF SerialInv
<1>b. /\ recv \in RecvType /\ RecvIdle.pc = "idle" /\ NextTurn.pc = "round"
      /\ client_conectnum \in Int
  BY <1>a, Types DEF RecvIdle, NextTurn, RecvType
<1>c. recv.pc \in {"clear", "status", "load", "store"} =>
        ~Adding /\ listen.pc # "store" /\ check.pc \notin {"load", "store"}
  BY <1>a DEF Adding, Exclusive, ListenInside, RecvInside, CheckInside
<1>1. CASE ~CloseFd /\ ~CloseStatus /\ ~CloseLoad /\ ~CloseStore
  <2>1. /\ UNCHANGED <<client_conectnum, client_socketfd, listen, check>>
        /\ recv.pc \notin {"status", "load", "store"}
        /\ recv'.pc \notin {"status", "load", "store"}
    <3> USE <1>b DEF info, RecvType, InRound, InSearch
    <3>1. CASE RecvZeroSet
      BY <3>1 DEF RecvZeroSet
    <3>2. CASE BuildTest
      BY <3>2 DEF BuildTest, BuildNext, RecvIdle
    <3>15. CASE BuildGroup
      BY <3>15 DEF BuildGroup
    <3>16. CASE BuildSet
      BY <3>16 DEF BuildSet, BuildNext, RecvIdle
    <3>3. CASE RecvSelect
      BY <3>3 DEF RecvSelect
    <3>4. CASE RecvReturn
      BY <3>4 DEF RecvReturn, RecvIdle
    <3>5. CASE RecvRoundEnd
      BY <3>5 DEF RecvRoundEnd
    <3>6. CASE RecvSkip
      BY <3>6 DEF RecvSkip
    <3>7. CASE RecvData
      BY <3>7 DEF RecvData
    <3>8. CASE RecvLost
      BY <3>8 DEF RecvLost
    <3>9. CASE CloseNotFound
      BY <3>9 DEF CloseNotFound
    <3>10. CASE CloseSkip
      BY <3>10 DEF CloseSkip
    <3>11. CASE CloseFound
      BY <3>11 DEF CloseFound
    <3>12. CASE CloseIp
      BY <3>12 DEF CloseIp
    <3>13. QED
      BY <1>1, <3>1, <3>2, <3>3, <3>4, <3>5, <3>6, <3>7, <3>8, <3>9, <3>10, <3>11, <3>12,
         <3>15, <3>16
         DEF RecvStep
  <2>2. (Adding' <=> Adding) /\ (Ending' <=> Ending)
    BY <2>1 DEF Adding, Ending
  <2>3. QED
    BY <1>a, <2>1, <2>2, QuietTally
<1>2. CASE CloseFd
  <2>1. /\ UNCHANGED <<client_conectnum, listen, check>>
        /\ recv.pc = "clear" /\ recv'.pc = "status" /\ recv.slot \in Slot
        /\ client_socketfd' = [client_socketfd EXCEPT ![recv.slot] = 0]
        /\ client_socketfd[recv.slot] # 0
    BY <1>a, <1>b, <1>2, Types DEF CloseFd, RecvType, TableInv, Sections, RecvSection
  <2>2. Cardinality(Held') = Cardinality(Held) - 1
    BY <1>a, <2>1, HeldRemove
  <2>3. Off = 0 /\ Off' = 1
    BY <1>c, <2>1 DEF Off, Adding, Ending
  <2>4. QED
    BY <1>a, <1>b, <1>c, <2>1, <2>2, <2>3, HeldFinite DEF Tally
<1>3. CASE CloseLoad
  <2>1. /\ UNCHANGED <<client_conectnum, client_socketfd, listen, check>>
        /\ recv.pc = "load" /\ recv'.pc = "store" /\ recv'.load = client_conectnum
    BY <1>b, <1>3 DEF CloseLoad, RecvType, info
  <2>2. Held' = Held /\ Off' = Off
    BY <2>1 DEF Held, Off, Adding, Ending
  <2>3. QED
    BY <1>a, <2>1, <2>2 DEF Tally
<1>6. CASE CloseStatus
  <2>1. /\ UNCHANGED <<client_conectnum, client_socketfd, listen, check>>
        /\ recv.pc = "status" /\ recv'.pc = "load"
    BY <1>b, <1>6 DEF CloseStatus, RecvType, info
  <2>2. (Adding' <=> Adding) /\ (Ending' <=> Ending)
    BY <2>1 DEF Adding, Ending
  <2>3. QED
    BY <1>a, <2>1, <2>2, QuietTally
<1>4. CASE CloseStore
  <2>1. /\ UNCHANGED <<client_socketfd, listen, check>>
        /\ recv.pc = "store" /\ recv'.pc = "ip" /\ client_conectnum' = recv.load - 1
    BY <1>a, <1>4, StoredTypes DEF CloseStore, info
  <2>2. Held' = Held /\ Off = 1 /\ Off' = 0
    BY <1>c, <2>1 DEF Held, Off, Adding, Ending
  <2>3. QED
    BY <1>a, <1>b, <1>c, <2>1, <2>2, HeldFinite DEF Tally
<1>5. QED
  BY <1>1, <1>2, <1>3, <1>4, <1>6

\* The steps of the check_alive thread and the count.
LEMMA CheckKeepsTally == SerialInv /\ CheckStep => Tally'
<1> SUFFICES ASSUME SerialInv, CheckStep PROVE Tally'
  OBVIOUS
<1>a. IInv /\ Exclusive /\ TableInv /\ Tally
  BY DEF SerialInv
<1>b. check \in CheckType /\ NextSlot.pc = "scan" /\ client_conectnum \in Int
  BY <1>a, Types DEF NextSlot, CheckAt
<1>c. check.pc # "scan" =>
        ~Adding /\ listen.pc # "store" /\ recv.pc \notin {"status", "load", "store"}
  BY <1>a DEF Adding, Exclusive, ListenInside, RecvInside, CheckInside
<1>1. CASE ~CheckFd /\ ~CheckLoad /\ ~CheckStore
  <2>1. /\ UNCHANGED <<client_conectnum, client_socketfd, listen, recv>>
        /\ check.pc \notin {"load", "store"} /\ check'.pc \notin {"load", "store"}
    BY <1>b, <1>1 DEF CheckStep, CheckSkip, CheckExpired, CheckClose, CheckIp, CheckStatus,
                      CheckType, info
  <2>2. (Adding' <=> Adding) /\ (Ending' <=> Ending)
    BY <2>1 DEF Adding, Ending
  <2>3. QED
    BY <1>a, <2>1, <2>2, QuietTally
<1>2. CASE CheckFd
  <2>1. /\ UNCHANGED <<client_conectnum, listen, recv>>
        /\ check.pc = "fd" /\ check'.pc = "load" /\ check.count \in Slot
        /\ client_socketfd' = [client_socketfd EXCEPT ![check.count] = 0]
        /\ client_socketfd[check.count] # 0
    BY <1>a, <1>b, <1>2, Types DEF CheckFd, CheckType, TableInv, Sections, CheckSection
  <2>2. Cardinality(Held') = Cardinality(Held) - 1
    BY <1>a, <2>1, HeldRemove
  <2>3. Off = 0 /\ Off' = 1
    BY <1>c, <2>1 DEF Off, Adding, Ending
  <2>4. QED
    BY <1>a, <1>b, <1>c, <2>1, <2>2, <2>3, HeldFinite DEF Tally
<1>3. CASE CheckLoad
  <2>1. /\ UNCHANGED <<client_conectnum, client_socketfd, listen, recv>>
        /\ check.pc = "load" /\ check'.pc = "store" /\ check'.load = client_conectnum
    BY <1>b, <1>3 DEF CheckLoad, CheckType, info
  <2>2. Held' = Held /\ Off' = Off
    BY <2>1 DEF Held, Off, Adding, Ending
  <2>3. QED
    BY <1>a, <2>1, <2>2 DEF Tally
<1>4. CASE CheckStore
  <2>1. /\ UNCHANGED <<client_socketfd, listen, recv>>
        /\ check.pc = "store" /\ check'.pc = "ip" /\ client_conectnum' = check.load - 1
    BY <1>a, <1>4, StoredTypes DEF CheckStore, info
  <2>2. Held' = Held /\ Off = 1 /\ Off' = 0
    BY <1>c, <2>1 DEF Held, Off, Adding, Ending
  <2>3. QED
    BY <1>a, <1>b, <1>c, <2>1, <2>2, HeldFinite DEF Tally
<1>5. QED
  BY <1>1, <1>2, <1>3, <1>4

\* The other steps do not touch the count.
LEMMA OthersKeepTally == SerialInv /\ (HandleStep \/ ClientStep) => Tally'
<1> SUFFICES ASSUME SerialInv, HandleStep \/ ClientStep PROVE Tally'
  OBVIOUS
<1>1. UNCHANGED <<client_conectnum, client_socketfd, listen, recv, check>>
  BY DEF HandleStep, HandleBeat, HandlePassThrough, HandleReply,
         ClientStep, ClientConnect, ClientSend, ClientClose, Tick, info
<1>2. (Adding' <=> Adding) /\ (Ending' <=> Ending)
  BY <1>1 DEF Adding, Ending
<1>3. QED
  BY <1>1, <1>2, QuietTally DEF SerialInv

-----------------------------------------------------------------------------
\* No step that leaves at most one section running breaks the invariant.
LEMMA SerialStep == SerialInv /\ [Next /\ Exclusive']_vars => SerialInv'
<1> SUFFICES ASSUME SerialInv, [Next /\ Exclusive']_vars PROVE SerialInv'
  OBVIOUS
<1>1. IInv'
  BY InvStep DEF SerialInv
<1>5. FewFds'
  BY DEF SerialInv, FewFds
<1>2. CASE UNCHANGED vars
  <2>1. /\ UNCHANGED <<owner, client_socketfd, ip_addr, connect_client_status, client_conectnum>>
        /\ UNCHANGED <<fd_group, read_fd_group, listen, recv, check>>
    BY <1>2 DEF vars, kernel, info, selects
  <2>2. Exclusive'
    BY <2>1 DEF SerialInv, Exclusive, ListenInside, RecvInside, CheckInside, Building
  <2>3. TableInv'
    BY <2>1, QuietTable DEF SerialInv
  <2>4. ZeroUnused'
    BY <2>1 DEF SerialInv, ZeroUnused, Current
  <2>7. Chosen'
    BY <2>1 DEF SerialInv, Chosen, Building
  <2>5. Tally'
    <3>1. (Adding' <=> Adding) /\ (Ending' <=> Ending)
      BY <2>1 DEF Adding, Ending
    <3>2. QED
      BY <2>1, <3>1, QuietTally DEF SerialInv
  <2>6. QED
    BY <1>1, <1>5, <2>2, <2>3, <2>4, <2>5, <2>7 DEF SerialInv
<1>3. CASE Next /\ Exclusive'
  <2>1. TableInv'
    BY <1>3, ListenKeepsTable, RecvKeepsTable, CheckKeepsTable, OthersKeepTable DEF Next
  <2>2. Tally'
    BY <1>3, ListenKeepsTally, RecvKeepsTally, CheckKeepsTally, OthersKeepTally DEF Next
  <2>3. ZeroUnused'
    BY <1>3, ZeroStep
  <2>5. Chosen'
    BY <1>3, ChosenStep
  <2>4. QED
    BY <1>1, <1>3, <1>5, <2>1, <2>2, <2>3, <2>5 DEF SerialInv
<1>4. QED
  BY <1>2, <1>3

\* What the invariant says when no section runs.
LEMMA SerialSound == SerialInv => TableSound
<1> SUFFICES ASSUME SerialInv, ~ListenInside, ~RecvInside, ~CheckInside
             PROVE  /\ \A s \in Slot : Vacant(s) \/ Occupied(s)
                    /\ \A s, t \in Slot :
                         client_socketfd[s] = client_socketfd[t] /\ s # t => Vacant(s)
                    /\ client_conectnum = Cardinality({s \in Slot : Occupied(s)})
  BY DEF TableSound
<1>1. \A s \in Slot : Vacant(s) \/ Occupied(s)
  BY DEF SerialInv, TableInv, Settled, Busy, ListenInside, RecvInside, CheckInside
<1>2. \A s \in Slot : client_socketfd[s] # 0 <=> Occupied(s)
  BY <1>1 DEF Vacant, Occupied
<1>3. \A s, t \in Slot : client_socketfd[s] = client_socketfd[t] /\ s # t => Vacant(s)
  BY <1>1, <1>2 DEF SerialInv, TableInv, Distinct
<1>4. Held = {s \in Slot : Occupied(s)}
  BY <1>2 DEF Held
<1>5. Off = 0
  BY DEF Off, Adding, Ending, ListenInside, RecvInside, CheckInside
<1>6. QED
  BY <1>1, <1>3, <1>4, <1>5, HeldFinite DEF SerialInv, Tally

\* What the invariant says when a connection finds no slot.
LEMMA FullTable ==
  ASSUME SerialInv, ~RecvInside, ~CheckInside,
         AddFull \/ (AddSkip /\ listen' = ListenIdle)
  PROVE  \A s \in Slot : ip_addr[s] # NoIp
<1>a. IInv /\ TableInv /\ Tally
  BY DEF SerialInv
<1>1. CASE AddFull
  <2>1. listen.pc = "add" /\ client_conectnum >= CLIENT_MAX_NUM
    BY <1>1 DEF AddFull
  <2>2. Off = 0
    BY <2>1 DEF Off, Adding, Ending, RecvInside, CheckInside
  <2>3. Cardinality(Held) >= CLIENT_MAX_NUM
    BY <1>a, <2>1, <2>2, HeldFinite DEF Tally
  <2>4. IsFiniteSet(Slot) /\ Cardinality(Slot) = CLIENT_MAX_NUM
    BY ServerAssumption, FS_Interval DEF Slot
  <2>5. Held \in SUBSET Slot
    BY DEF Held
  <2>6. Held = Slot
    <3>1. Cardinality(Held) <= Cardinality(Slot) /\ (Cardinality(Slot) = Cardinality(Held) => Slot = Held)
      BY <2>4, <2>5, FS_Subset
    <3>2. QED
      BY <2>3, <2>4, <3>1, HeldFinite, ServerAssumption
  <2>7. \A s \in Slot : Occupied(s)
    BY <1>a, <2>1, <2>6
       DEF Held, TableInv, Settled, Busy, Vacant, RecvInside, CheckInside
  <2>8. QED
    BY <2>7, ServerAssumption DEF Occupied
<1>2. CASE AddSkip /\ listen' = ListenIdle
  <2>1. /\ listen.pc = "add" /\ ip_addr[listen.count] # NoIp /\ listen.count \in Slot
        /\ listen \in ListenType
    BY <1>a, <1>2, Types DEF AddSkip
  <2>2. listen.count + 1 = CLIENT_MAX_NUM
    BY <1>2, <2>1 DEF AddSkip, ListenIdle, ListenType
  <2>3. \A s \in Slot : s < listen.count \/ s = listen.count
    BY <2>1, <2>2, ServerAssumption DEF Slot
  <2>4. QED
    BY <1>a, <2>1, <2>3 DEF TableInv, Passed
<1>3. QED
  BY <1>1, <1>2

\* While the sections exclude each other, the table is sound whenever none of
\* them changes it: each slot is vacant or holds its own open connection from
\* its address, and the count counts them, whatever descriptors are reused and
\* however stale fd_group is.  It takes that the process has no more than
\* FdRange descriptors open, 256, at a time: the refused connections that
\* lines 122-125 leave open count too, and descriptor 256 would be stored as 0.
THEOREM TableStaysSound == FewFds => (SerialSpec => []TableSound)
<1>1. SerialInv => TableSound
  BY SerialSound
<1>2. QED
  BY SerialInit, SerialStep, <1>1, PTL DEF SerialSpec

\* While the sections exclude each other and descriptors fit client_socketfd,
\* server_add_newclient_fd leaves a connection without a slot only when every
\* slot has an address.
THEOREM RefusalMeansFull == FewFds => (SerialSpec => RefusedOnlyWhenFull)
<1>1. SerialInv /\ [Next /\ Exclusive']_vars =>
        [AddFull \/ (AddSkip /\ listen' = ListenIdle) =>
           RecvInside \/ CheckInside \/ \A s \in Slot : ip_addr[s] # NoIp]_vars
  BY FullTable
<1>2. QED
  BY SerialInit, SerialStep, <1>1, PTL DEF SerialSpec, RefusedOnlyWhenFull

=============================================================================
