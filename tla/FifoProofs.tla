----------------------------- MODULE FifoProofs -----------------------------
(***************************************************************************)
(* Proofs about Fifo for every Byte, Size, MaxWrite and MaxRead: with one  *)
(* writer the types, the reservations and the refinement of ByteChannel.   *)
(*                                                                         *)
(* Reservations is not inductive.  IInv adds what each thread knows        *)
(* between its steps: the writer, that the byte it stored is still in the  *)
(* slot it is about to advance over; the reader, that the byte it loaded   *)
(* is the one in the slot it is about to release, and, between the two     *)
(* statements of its count, that the ring is not empty.                    *)
(***************************************************************************)
EXTENDS Fifo, TLAPS

\* What a writer's own steps keep true, whatever the other threads do.
WriterLocal ==
  \A w \in Writers :
    /\ wpc[w] # "idle" => write_cbuf[w] \in Chunk
    /\ wpc[w] \in {"compare", "subtract"} => wcount[w] = 0 /\ Len(write_cbuf[w]) > 0
    /\ Writing(w) => wcount[w] < Len(write_cbuf[w])

TypeInv == TypeOK /\ WriterLocal

StoredByte ==
  \A w \in Writers :
    wpc[w] = "advance" => buffer_addr[wr_place] = write_cbuf[w][wcount[w] + 1]

ReaderInv ==
  /\ rpc \in {"compare", "subtract"} => rcount = 0 /\ read_size > 0
  /\ rpc = "subtract" => Used > 0
  /\ Len(read_save_buf) = IF rpc = "advance" THEN rcount + 1 ELSE rcount
  /\ rpc = "advance" => read_save_buf[rcount + 1] = buffer_addr[rd_place]

\* The inductive invariant.
IInv == TypeInv /\ Reservations /\ StoredByte /\ ReaderInv

-----------------------------------------------------------------------------
(* The modulus of the code, away.                                          *)

\* (place + 1) % size is one slot further, or the first slot.
LEMMA SuccIs ==
  ASSUME NEW p \in Slot
  PROVE  /\ Succ(p) \in Slot
         /\ Succ(p) = IF p = Size - 1 THEN 0 ELSE p + 1
  BY SizeAssumption, SMT DEF Slot, Succ

\* The difference of line 38 is the number of unread bytes.
LEMMA DistanceIsUsed ==
  ASSUME rd_place \in Slot, wr_place \in Slot
  PROVE  Distance = Used
  BY SizeAssumption, SMT DEF Slot, Distance, Used

\* Between 0 and Size - 1 bytes are unread; none exactly when the indices meet.
LEMMA UsedRange ==
  ASSUME rd_place \in Slot, wr_place \in Slot
  PROVE  /\ Used \in 0 .. Size - 1
         /\ Used = 0 <=> rd_place = wr_place
         /\ wr_place = SlotAt(Used)
  BY SizeAssumption, SMT DEF Slot, Used, SlotAt

\* Advancing wr_place makes one byte more readable unless it closes the ring.
LEMMA UsedAfterWrite ==
  ASSUME rd_place \in Slot, wr_place \in Slot, Used < Size - 1,
         rd_place' = rd_place, wr_place' = Succ(wr_place)
  PROVE  Used' = Used + 1
  BY SuccIs, SizeAssumption, SMT DEF Slot, Used

\* Advancing rd_place frees one slot when a byte was unread.
LEMMA UsedAfterRead ==
  ASSUME rd_place \in Slot, wr_place \in Slot, Used > 0,
         wr_place' = wr_place, rd_place' = Succ(rd_place)
  PROVE  Used' = Used - 1
  BY SuccIs, SizeAssumption, SMT DEF Slot, Used

\* A chunk has at least one byte and at most MaxWrite.
LEMMA ChunkIs ==
  ASSUME NEW c \in Chunk
  PROVE  c \in Seq(Byte) /\ Len(c) \in Nat /\ Len(c) > 0
<1>1. PICK n \in 1 .. MaxWrite : c \in [1 .. n -> Byte]
  BY RequestAssumption DEF Chunk
<1>2. n \in Nat /\ n > 0
  BY RequestAssumption
<1>3. QED
  BY <1>1, <1>2

-----------------------------------------------------------------------------
(* Types, with any number of writers.                                      *)

\* The initial state is well typed.
LEMMA TypeInit == Init => TypeInv
<1> SUFFICES ASSUME Init PROVE TypeInv
  OBVIOUS
<1>1. 0 \in Slot
  BY SizeAssumption DEF Slot
<1>2. TypeOK
  BY <1>1 DEF Init, TypeOK
<1>3. WriterLocal
  BY DEF Init, WriterLocal, Writing
<1>4. QED
  BY <1>2, <1>3 DEF TypeInv

\* A step of any thread keeps the types.
LEMMA TypeStep == TypeInv /\ [Next]_vars => TypeInv'
<1> SUFFICES ASSUME TypeInv, [Next]_vars PROVE TypeInv'
  OBVIOUS
<1> USE DEF TypeInv, TypeOK, WriterLocal, Writing
<1>1. ASSUME NEW w \in Writers, NEW c \in Chunk, WriteCall(w, c)
      PROVE  TypeInv'
  BY <1>1, ChunkIs DEF WriteCall, ring, reader
<1>2. ASSUME NEW w \in Writers, WriteCompareEmpty(w) PROVE TypeInv'
  BY <1>2, SizeAssumption DEF WriteCompareEmpty, AcceptOrRefuse, ring, reader
<1>3. ASSUME NEW w \in Writers, WriteCompareNonEmpty(w) PROVE TypeInv'
  BY <1>3 DEF WriteCompareNonEmpty, ring, reader
<1>4. ASSUME NEW w \in Writers, WriteSubtract(w) PROVE TypeInv'
  <2>1. Distance \in Nat
    BY DistanceIsUsed, UsedRange
  <2>2. QED
    BY <1>4, <2>1, SizeAssumption DEF WriteSubtract, AcceptOrRefuse, ring, reader
<1>5. ASSUME NEW w \in Writers, StoreByte(w) PROVE TypeInv'
  BY <1>5 DEF StoreByte, reader
<1>6. ASSUME NEW w \in Writers, AdvanceWr(w) PROVE TypeInv'
  BY <1>6, SuccIs DEF AdvanceWr, reader
<1>7. ASSUME NEW n \in 1 .. MaxRead, ReadCall(n) PROVE TypeInv'
  BY <1>7, RequestAssumption DEF ReadCall, ring, writer
<1>8. CASE ReadCompareEmpty
  BY <1>8 DEF ReadCompareEmpty, ring, writer
<1>9. CASE ReadCompareNonEmpty
  BY <1>9 DEF ReadCompareNonEmpty, ring, writer
<1>10. CASE ReadSubtract
  BY <1>10, DistanceIsUsed, UsedRange DEF ReadSubtract, ring, writer
<1>11. CASE LoadByte
  BY <1>11 DEF LoadByte, ring, writer
<1>12. CASE AdvanceRd
  BY <1>12, SuccIs DEF AdvanceRd, writer
<1>13. CASE UNCHANGED vars
  BY <1>13 DEF vars, ring, writer, reader
<1>14. QED
  BY <1>1, <1>2, <1>3, <1>4, <1>5, <1>6, <1>7, <1>8, <1>9, <1>10, <1>11, <1>12, <1>13
     DEF Next, WriterStep, ReaderStep

\* Every field keeps its type and the indices stay inside the buffer, even
\* when several threads write: fifo.c never leaves its allocation.
THEOREM TypeCorrect == Spec => []TypeOK
<1>1. TypeInv => TypeOK
  BY DEF TypeInv
<1>2. QED
  BY TypeInit, TypeStep, <1>1, PTL DEF Spec

-----------------------------------------------------------------------------
(* The inductive invariant, with one writer.                               *)

\* The initial ring is empty and no call is under way.
LEMMA InvInit == Init => IInv
<1> SUFFICES ASSUME Init PROVE IInv
  OBVIOUS
<1>1. TypeInv
  BY TypeInit
<1>2. Reservations /\ StoredByte /\ ReaderInv
  BY DEF Init, Reservations, StoredByte, ReaderInv, Writing, Reading
<1>3. QED
  BY <1>1, <1>2 DEF IInv

\* No step of the writer or of the reader breaks the invariant.
LEMMA InvStep == ASSUME SingleWriter PROVE IInv /\ [Next]_vars => IInv'
<1> SUFFICES ASSUME IInv, [Next]_vars PROVE IInv'
  OBVIOUS
<1>0. TypeInv /\ TypeInv'
  BY TypeStep DEF IInv
<1>a. rd_place \in Slot /\ wr_place \in Slot
  BY <1>0 DEF TypeInv, TypeOK
<1>b. /\ Used \in 0 .. Size - 1
      /\ Used = 0 <=> rd_place = wr_place
      /\ Distance = Used
  BY <1>a, UsedRange, DistanceIsUsed
<1>c. Size \in Nat /\ Size > 0
  BY SizeAssumption
<1> SUFFICES Reservations' /\ StoredByte' /\ ReaderInv'
  BY <1>0 DEF IInv
<1> USE <1>0, <1>a, <1>b, <1>c
    DEF IInv, TypeInv, TypeOK, WriterLocal, Reservations, StoredByte, ReaderInv,
        Writing, Reading
<1>1. ASSUME NEW w \in Writers, NEW c \in Chunk, WriteCall(w, c)
      PROVE  Reservations' /\ StoredByte' /\ ReaderInv'
  BY <1>1 DEF WriteCall, ring, reader, Used
<1>2. ASSUME NEW w \in Writers, WriteCompareEmpty(w)
      PROVE  Reservations' /\ StoredByte' /\ ReaderInv'
  <2>1. Used = 0 /\ Used' = Used
    BY <1>2 DEF WriteCompareEmpty, ring, Used
  <2>2. QED
    BY <1>2, <2>1 DEF WriteCompareEmpty, AcceptOrRefuse, ring, reader
<1>3. ASSUME NEW w \in Writers, WriteCompareNonEmpty(w)
      PROVE  Reservations' /\ StoredByte' /\ ReaderInv'
  BY <1>3 DEF WriteCompareNonEmpty, ring, reader, Used
<1>4. ASSUME NEW w \in Writers, WriteSubtract(w)
      PROVE  Reservations' /\ StoredByte' /\ ReaderInv'
  <2>1. Used' = Used
    BY <1>4 DEF WriteSubtract, ring, Used
  <2>2. QED
    BY <1>4, <2>1 DEF WriteSubtract, AcceptOrRefuse, ring, reader
<1>5. ASSUME NEW w \in Writers, StoreByte(w)
      PROVE  Reservations' /\ StoredByte' /\ ReaderInv'
  <2>1. Used' = Used
    BY <1>5 DEF StoreByte, Used
  <2>2. Reservations'
    BY <1>5, <2>1 DEF StoreByte, reader
  <2>3. StoredByte'
    BY <1>5 DEF StoreByte, SingleWriter
  \* the slot being stored is free, so it is not the one being loaded
  <2>4. rpc = "advance" => rd_place # wr_place
    OBVIOUS
  <2>5. ReaderInv'
    BY <1>5, <2>1, <2>4 DEF StoreByte, reader
  <2>6. QED
    BY <2>2, <2>3, <2>5
<1>6. ASSUME NEW w \in Writers, AdvanceWr(w)
      PROVE  Reservations' /\ StoredByte' /\ ReaderInv'
  <2>1. Used < Size - 1
    BY <1>6 DEF AdvanceWr
  <2>2. Used' = Used + 1
    BY <1>6, <2>1, UsedAfterWrite DEF AdvanceWr
  <2>3. Reservations'
    BY <1>6, <2>2 DEF AdvanceWr, reader, SingleWriter
  <2>4. StoredByte'
    BY <1>6 DEF AdvanceWr, SingleWriter
  <2>5. ReaderInv'
    BY <1>6, <2>2 DEF AdvanceWr, reader
  <2>6. QED
    BY <2>3, <2>4, <2>5
<1>7. ASSUME NEW n \in 1 .. MaxRead, ReadCall(n)
      PROVE  Reservations' /\ StoredByte' /\ ReaderInv'
  BY <1>7, RequestAssumption DEF ReadCall, ring, writer, Used
<1>8. CASE ReadCompareEmpty
  BY <1>8 DEF ReadCompareEmpty, ring, writer, Used
<1>9. CASE ReadCompareNonEmpty
  BY <1>9 DEF ReadCompareNonEmpty, ring, writer, Used
<1>10. CASE ReadSubtract
  <2>1. Used' = Used
    BY <1>10 DEF ReadSubtract, ring, Used
  <2>2. QED
    BY <1>10, <2>1 DEF ReadSubtract, ring, writer
<1>11. CASE LoadByte
  <2>1. Used' = Used
    BY <1>11 DEF LoadByte, ring, Used
  <2>2. QED
    BY <1>11, <2>1 DEF LoadByte, ring, writer
<1>12. CASE AdvanceRd
  <2>1. Used > 0
    BY <1>12 DEF AdvanceRd
  <2>2. Used' = Used - 1
    BY <1>12, <2>1, UsedAfterRead DEF AdvanceRd
  <2>3. QED
    BY <1>12, <2>2 DEF AdvanceRd, writer
<1>13. CASE UNCHANGED vars
  BY <1>13 DEF vars, ring, writer, reader, Used
<1>14. QED
  BY <1>1, <1>2, <1>3, <1>4, <1>5, <1>6, <1>7, <1>8, <1>9, <1>10, <1>11, <1>12, <1>13
     DEF Next, WriterStep, ReaderStep

\* With one writer an accepted chunk always has its room and a granted read
\* its bytes: the counts of fifo.c are stale only to the safe side.
THEOREM ReservationsHold == ASSUME SingleWriter PROVE Spec => []Reservations
<1>1. IInv => Reservations
  BY DEF IInv
<1>2. QED
  BY InvInit, InvStep, <1>1, PTL DEF Spec

-----------------------------------------------------------------------------
(* Refinement.  The three sequences of the mapping, element by element,    *)
(* and what one step does to each of them.                                 *)

\* Two sequences of bytes are equal when they agree element by element.
LEMMA SameSeq ==
  ASSUME NEW s \in Seq(Byte), NEW t \in Seq(Byte), Len(s) = Len(t),
         \A i \in 1 .. Len(s) : s[i] = t[i]
  PROVE  s = t
  BY SMT

\* The tail of a sequence of bytes, element by element.
LEMMA TailIs ==
  ASSUME NEW s \in Seq(Byte), Len(s) > 0
  PROVE  /\ Tail(s) \in Seq(Byte)
         /\ Len(Tail(s)) = Len(s) - 1
         /\ \A i \in 1 .. Len(s) - 1 : Tail(s)[i] = s[i + 1]
  BY SMT

\* Every slot the mapping of Unread looks into is a slot of the buffer.
LEMMA SlotAtIs ==
  ASSUME rd_place \in Slot, NEW k \in 0 .. Size - 1
  PROVE  SlotAt(k) \in Slot
  BY SizeAssumption, SMT DEF Slot, SlotAt

\* Unread is a sequence of Used bytes, the ones in the slots from rd_place on.
UnreadShape ==
  /\ Unread \in Seq(Byte)
  /\ Len(Unread) = Used
  /\ \A i \in 1 .. Used : Unread[i] = buffer_addr[SlotAt(i - 1)]

\* Unread has that shape in every well-typed state.
LEMMA UnreadIs == TypeOK => UnreadShape
<1> SUFFICES ASSUME TypeOK PROVE UnreadShape
  OBVIOUS
<1>1. Used \in 0 .. Size - 1
  BY UsedRange DEF TypeOK
<1>2. \A i \in 1 .. Used : buffer_addr[SlotAt(i - 1)] \in Byte
  BY <1>1, SlotAtIs, SizeAssumption DEF TypeOK
<1>3. QED
  BY <1>1, <1>2, SizeAssumption DEF Unread, UnreadShape

\* Rest(w) is the part of the chunk after the bytes already written.
LEMMA RestIs ==
  ASSUME TypeInv, NEW w \in Writers
  PROVE  /\ Rest(w) \in Seq(Byte)
         /\ Writing(w) =>
              /\ Len(Rest(w)) = Len(write_cbuf[w]) - wcount[w]
              /\ \A i \in 1 .. Len(write_cbuf[w]) - wcount[w] :
                   Rest(w)[i] = write_cbuf[w][wcount[w] + i]
         /\ ~Writing(w) => Rest(w) = <<>>
<1>1. CASE ~Writing(w)
  BY <1>1 DEF Rest
<1>2. CASE Writing(w)
  <2>1. /\ write_cbuf[w] \in Seq(Byte)
        /\ wcount[w] \in Nat
        /\ Len(write_cbuf[w]) - wcount[w] \in Nat
    BY <1>2 DEF TypeInv, TypeOK, WriterLocal
  <2>2. \A i \in 1 .. Len(write_cbuf[w]) - wcount[w] : write_cbuf[w][wcount[w] + i] \in Byte
    BY <2>1
  <2>3. QED
    BY <1>2, <2>1, <2>2 DEF Rest
<1>3. QED
  BY <1>1, <1>2

\* Taken is the part of read_save_buf that rd_place has moved over.
LEMMA TakenIs ==
  ASSUME TypeOK, rcount <= Len(read_save_buf)
  PROVE  /\ Taken \in Seq(Byte)
         /\ Len(Taken) = rcount
         /\ \A i \in 1 .. rcount : Taken[i] = read_save_buf[i]
<1>1. \A i \in 1 .. rcount : read_save_buf[i] \in Byte
  BY DEF TypeOK
<1>2. QED
  BY <1>1 DEF TypeOK, Taken

\* Storing into the free slot changes nothing a reader can see.
LEMMA StoreKeepsUnread ==
  ASSUME IInv, TypeOK', NEW w \in Writers, StoreByte(w)
  PROVE  Unread' = Unread
<1>1. /\ rd_place \in Slot /\ wr_place \in Slot
      /\ Used \in 0 .. Size - 1
      /\ Used' = Used
      /\ Size \in Nat /\ Size > 0
  BY UsedRange, SizeAssumption DEF IInv, TypeInv, TypeOK, StoreByte, Used
<1>2. ASSUME NEW i \in 1 .. Used
      PROVE  buffer_addr'[SlotAt(i - 1)'] = buffer_addr[SlotAt(i - 1)]
  <2>1. SlotAt(i - 1)' = SlotAt(i - 1)
    BY DEF StoreByte, SlotAt
  <2>2. SlotAt(i - 1) \in Slot /\ SlotAt(i - 1) # wr_place
    BY <1>1, SMT DEF SlotAt, Slot, Used
  <2>3. QED
    BY <2>1, <2>2 DEF StoreByte, IInv, TypeInv, TypeOK
<1>3. QED
  BY <1>1, <1>2 DEF Unread

\* Advancing wr_place appends the byte that was stored.
LEMMA AdvanceWrAppends ==
  ASSUME IInv, TypeOK', NEW w \in Writers, AdvanceWr(w)
  PROVE  Unread' = Append(Unread, buffer_addr[wr_place])
<1>1. /\ rd_place \in Slot /\ wr_place \in Slot
      /\ Used \in 0 .. Size - 1 /\ Used < Size - 1
      /\ Size \in Nat /\ Size > 0
      /\ buffer_addr[wr_place] \in Byte
  BY UsedRange, SizeAssumption
     DEF IInv, TypeInv, TypeOK, WriterLocal, Reservations, Writing, AdvanceWr
<1>2. Used' = Used + 1
  BY <1>1, UsedAfterWrite DEF AdvanceWr
<1>3. \A k \in Nat : SlotAt(k)' = SlotAt(k)
  BY DEF AdvanceWr, SlotAt
<1>4. /\ Unread \in Seq(Byte) /\ Len(Unread) = Used
      /\ \A i \in 1 .. Used : Unread[i] = buffer_addr[SlotAt(i - 1)]
  BY UnreadIs DEF IInv, TypeInv, UnreadShape
<1>5. /\ Unread' \in Seq(Byte) /\ Len(Unread') = Used + 1
      /\ \A i \in 1 .. Used + 1 : Unread'[i] = buffer_addr[SlotAt(i - 1)]
  <2>0. UnreadShape'
    BY UnreadIs, PTL
  <2>1. /\ Unread' \in Seq(Byte) /\ Len(Unread') = Used'
        /\ \A i \in 1 .. Used' : Unread'[i] = buffer_addr'[SlotAt(i - 1)']
    BY <2>0 DEF UnreadShape
  <2>2. buffer_addr' = buffer_addr
    BY DEF AdvanceWr
  <2>3. QED
    BY <1>1, <1>2, <1>3, <2>1, <2>2
<1>6. SlotAt(Used) = wr_place
  BY <1>1, UsedRange
<1>7. Append(Unread, buffer_addr[wr_place]) \in Seq(Byte)
  BY <1>1, <1>4
<1>8. \A i \in 1 .. Used + 1 : Append(Unread, buffer_addr[wr_place])[i] = Unread'[i]
  BY <1>1, <1>4, <1>5, <1>6
<1>9. QED
  BY <1>1, <1>4, <1>5, <1>7, <1>8, SameSeq

\* Advancing rd_place drops the oldest unread byte, the one it was on.
LEMMA AdvanceRdTakes ==
  ASSUME IInv, TypeOK', AdvanceRd
  PROVE  /\ Unread # <<>>
         /\ Head(Unread) = buffer_addr[rd_place]
         /\ Unread' = Tail(Unread)
<1>1. /\ rd_place \in Slot /\ wr_place \in Slot
      /\ Used \in 0 .. Size - 1 /\ Used > 0
      /\ Size \in Nat /\ Size > 0
  BY UsedRange, SizeAssumption DEF IInv, TypeInv, TypeOK, Reservations, Reading, AdvanceRd
<1>2. Used' = Used - 1
  BY <1>1, UsedAfterRead DEF AdvanceRd
<1>3. \A k \in 0 .. Used - 2 : SlotAt(k)' = SlotAt(k + 1)
  BY <1>1, SuccIs, SMT DEF AdvanceRd, SlotAt, Slot
<1>4. /\ Unread \in Seq(Byte) /\ Len(Unread) = Used
      /\ \A i \in 1 .. Used : Unread[i] = buffer_addr[SlotAt(i - 1)]
  BY UnreadIs DEF IInv, TypeInv, UnreadShape
<1>5. /\ Unread' \in Seq(Byte) /\ Len(Unread') = Used - 1
      /\ \A i \in 1 .. Used - 1 : Unread'[i] = Unread[i + 1]
  <2>0. UnreadShape'
    BY UnreadIs, PTL
  <2>1. /\ Unread' \in Seq(Byte) /\ Len(Unread') = Used'
        /\ \A i \in 1 .. Used' : Unread'[i] = buffer_addr'[SlotAt(i - 1)']
    BY <2>0 DEF UnreadShape
  <2>2. buffer_addr' = buffer_addr
    BY DEF AdvanceRd
  <2>3. ASSUME NEW i \in 1 .. Used - 1 PROVE Unread'[i] = Unread[i + 1]
    <3>1. SlotAt(i - 1)' = SlotAt(i)
      <4>1. i - 1 \in 0 .. Used - 2 /\ (i - 1) + 1 = i
        BY <1>1
      <4>2. SlotAt(i - 1)' = SlotAt((i - 1) + 1)
        BY <1>3, <4>1
      <4>3. QED
        BY <4>1, <4>2
    <3>2. Unread'[i] = buffer_addr[SlotAt(i - 1)']
      BY <1>1, <1>2, <2>1, <2>2
    <3>3. Unread[i + 1] = buffer_addr[SlotAt((i + 1) - 1)] /\ (i + 1) - 1 = i
      BY <1>1, <1>4
    <3>4. QED
      BY <3>1, <3>2, <3>3
  <2>4. QED
    BY <1>1, <1>2, <2>1, <2>3
<1>6. Unread # <<>> /\ Tail(Unread) \in Seq(Byte) /\ Len(Tail(Unread)) = Used - 1
  BY <1>1, <1>4
<1>7. \A i \in 1 .. Used - 1 : Tail(Unread)[i] = Unread[i + 1]
  BY <1>1, <1>4
<1>8. Unread' = Tail(Unread)
  BY <1>1, <1>5, <1>6, <1>7, SameSeq
<1>9. SlotAt(0) = rd_place /\ Head(Unread) = Unread[1]
  BY <1>1, <1>4 DEF SlotAt, Slot
<1>10. QED
  BY <1>1, <1>4, <1>6, <1>8, <1>9

\* The empty ring is the empty channel.
LEMMA RefinesInit == Init => Channel!Init
<1> SUFFICES ASSUME Init PROVE Channel!Init
  OBVIOUS
<1>1. Used = 0
  BY DEF Init, Used
<1>2. Unread = <<>>
  BY <1>1 DEF Unread
<1>3. Taken = <<>>
  BY DEF Init, Taken
<1>4. [w \in Writers |-> Rest(w)] = [w \in Writers |-> <<>>]
  BY DEF Init, Rest, Writing
<1>5. QED
  BY <1>2, <1>3, <1>4 DEF Channel!Init

\* Accepting a chunk of fifo_write is Accept, refusing it a stutter.
LEMMA RefinesAccept ==
  ASSUME SingleWriter, IInv, TypeInv', NEW w \in Writers,
         WriteCompareEmpty(w) \/ WriteSubtract(w)
  PROVE  (\E c \in Chunk : Channel!Accept(w, c)) \/ UNCHANGED Channel!vars
<1>1. /\ UNCHANGED <<ring, write_cbuf, wcount, reader>>
      /\ AcceptOrRefuse(w, Size - 1 - Used)
      /\ wpc[w] \in {"compare", "subtract"}
  <2>1. CASE WriteCompareEmpty(w)
    BY <2>1, UsedRange, SizeAssumption
       DEF WriteCompareEmpty, IInv, TypeInv, TypeOK
  <2>2. CASE WriteSubtract(w)
    BY <2>2, UsedRange, DistanceIsUsed, SizeAssumption
       DEF WriteSubtract, IInv, TypeInv, TypeOK
  <2>3. QED
    BY <2>1, <2>2
<1>2. Unread' = Unread /\ Taken' = Taken
  BY <1>1 DEF ring, reader, Unread, Used, SlotAt, Taken
<1>3. Rest(w) = <<>>
  BY <1>1 DEF Rest, Writing
<1>4. CASE wpc'[w] = "idle"
  <2>1. [v \in Writers |-> Rest(v)]' = [v \in Writers |-> Rest(v)]
    BY <1>1, <1>3, <1>4 DEF SingleWriter, Rest, Writing
  <2>2. QED
    BY <1>2, <2>1 DEF Channel!vars
<1>5. CASE wpc'[w] # "idle"
  <2>1. /\ wpc'[w] = "store"
        /\ Len(write_cbuf[w]) <= Size - 1 - Used
        /\ wcount[w] = 0
    <3>1. /\ Used \in 0 .. Size - 1
          /\ Len(write_cbuf[w]) \in Nat
      BY UsedRange DEF IInv, TypeInv, TypeOK
    <3>2. QED
      BY <1>1, <1>5, <3>1, SizeAssumption
         DEF AcceptOrRefuse, IInv, TypeInv, TypeOK, WriterLocal
  <2>2. /\ write_cbuf[w] \in Seq(Byte)
        /\ write_cbuf'[w] = write_cbuf[w] /\ wcount'[w] = 0
    BY <1>1, <2>1 DEF IInv, TypeInv, TypeOK
  <2>3. Rest(w)' = write_cbuf[w]
    <3>1. Rest(w)' = [i \in 1 .. Len(write_cbuf[w]) - 0 |-> write_cbuf[w][0 + i]]
      BY <2>1, <2>2 DEF Rest, Writing
    <3>2. QED
      BY <2>2, <3>1
  <2>4. Channel!Accept(w, write_cbuf[w])
    <3>1. [v \in Writers |-> Rest(v)][w] = <<>>
      BY <1>3
    <3>2. Len(Unread) + Len(write_cbuf[w]) <= Size - 1
      <4>1. Len(Unread) = Used
        BY UnreadIs DEF IInv, TypeInv, UnreadShape
      <4>2. Used \in Nat /\ Len(write_cbuf[w]) \in Nat
        BY UsedRange, <2>2 DEF IInv, TypeInv, TypeOK
      <4>3. QED
        BY <2>1, <4>1, <4>2, SizeAssumption
    <3>3. [v \in Writers |-> Rest(v)]' = [[v \in Writers |-> Rest(v)] EXCEPT ![w] = write_cbuf[w]]
      BY <2>3 DEF SingleWriter
    <3>4. QED
      BY <1>2, <3>1, <3>2, <3>3 DEF Channel!Accept
  <2>5. write_cbuf[w] \in Chunk
    BY <1>1 DEF IInv, TypeInv, WriterLocal
  <2>6. QED
    BY <2>4, <2>5
<1>6. QED
  BY <1>4, <1>5

\* Advancing wr_place is Put.
LEMMA RefinesPut ==
  ASSUME SingleWriter, IInv, TypeInv', NEW w \in Writers, AdvanceWr(w)
  PROVE  Channel!Put(w)
<1>1. /\ write_cbuf[w] \in Seq(Byte) /\ wcount[w] \in Nat
      /\ Len(write_cbuf[w]) \in Nat
      /\ wcount[w] < Len(write_cbuf[w])
      /\ buffer_addr[wr_place] = write_cbuf[w][wcount[w] + 1]
      /\ Writing(w)
      /\ Used < Size - 1
  <2>1. Used \in Nat /\ Size \in Nat
    BY UsedRange, SizeAssumption DEF IInv, TypeInv, TypeOK
  <2>2. QED
    BY <2>1 DEF IInv, TypeInv, TypeOK, WriterLocal, StoredByte, Reservations,
                Writing, AdvanceWr
<1>2. /\ Rest(w) \in Seq(Byte)
      /\ Len(Rest(w)) = Len(write_cbuf[w]) - wcount[w]
      /\ \A i \in 1 .. Len(write_cbuf[w]) - wcount[w] :
           Rest(w)[i] = write_cbuf[w][wcount[w] + i]
  BY <1>1, RestIs DEF IInv
<1>3. Rest(w) # <<>> /\ Head(Rest(w)) = buffer_addr[wr_place]
  BY <1>1, <1>2
<1>4. /\ write_cbuf' = write_cbuf
      /\ wcount'[w] = wcount[w] + 1
      /\ wpc'[w] = IF wcount[w] + 1 < Len(write_cbuf[w]) THEN "store" ELSE "idle"
      /\ UNCHANGED <<rpc, read_size, rcount, read_save_buf>>
  BY DEF AdvanceWr, reader, IInv, TypeInv, TypeOK
<1>5. Rest(w)' = Tail(Rest(w))
  <2>1. /\ Tail(Rest(w)) \in Seq(Byte)
        /\ Len(Tail(Rest(w))) = Len(write_cbuf[w]) - (wcount[w] + 1)
        /\ \A i \in 1 .. Len(write_cbuf[w]) - (wcount[w] + 1) :
             Tail(Rest(w))[i] = write_cbuf[w][(wcount[w] + 1) + i]
    <3>1. /\ Len(Rest(w)) \in Nat /\ Len(Rest(w)) > 0
          /\ Len(write_cbuf[w]) - (wcount[w] + 1) = Len(Rest(w)) - 1
      BY <1>1, <1>2
    <3>2. /\ Tail(Rest(w)) \in Seq(Byte)
          /\ Len(Tail(Rest(w))) = Len(Rest(w)) - 1
          /\ \A i \in 1 .. Len(Rest(w)) - 1 : Tail(Rest(w))[i] = Rest(w)[i + 1]
      BY <1>2, <3>1, TailIs
    <3>3. \A i \in 1 .. Len(Rest(w)) - 1 :
            Rest(w)[i + 1] = write_cbuf[w][wcount[w] + (i + 1)]
      BY <1>1, <1>2, <3>1
    <3>4. ASSUME NEW i \in 1 .. Len(Rest(w)) - 1
          PROVE  Tail(Rest(w))[i] = write_cbuf[w][(wcount[w] + 1) + i]
      <4>1. i \in Int /\ wcount[w] \in Int
        BY <1>1, <3>1
      <4>2. wcount[w] + (i + 1) = (wcount[w] + 1) + i
        BY <4>1
      <4>3. QED
        BY <3>2, <3>3, <4>2
    <3>5. QED
      BY <3>1, <3>2, <3>4
  <2>2. CASE wcount[w] + 1 < Len(write_cbuf[w])
    <3>1. Rest(w)' = [i \in 1 .. Len(write_cbuf[w]) - (wcount[w] + 1) |->
                        write_cbuf[w][(wcount[w] + 1) + i]]
      BY <1>4, <2>2 DEF Rest, Writing
    <3> DEFINE n == Len(write_cbuf[w]) - (wcount[w] + 1)
    <3>2. n \in Nat
      BY <1>1, <2>2
    <3>3. \A i \in 1 .. n : write_cbuf[w][(wcount[w] + 1) + i] \in Byte
      BY <1>1
    <3> HIDE DEF n
    <3>4. Rest(w)' = [i \in 1 .. n |-> write_cbuf[w][(wcount[w] + 1) + i]]
      BY <3>1 DEF n
    <3>5. Rest(w)' \in Seq(Byte) /\ Len(Rest(w)') = n
      BY <3>2, <3>3, <3>4
    <3>6. \A i \in 1 .. n : Rest(w)'[i] = Tail(Rest(w))[i]
      BY <2>1, <3>4 DEF n
    <3>7. QED
      BY <2>1, <3>5, <3>6, SameSeq DEF n
  <2>3. CASE ~(wcount[w] + 1 < Len(write_cbuf[w]))
    <3>1. Rest(w)' = <<>>
      BY <1>4, <2>3 DEF Rest, Writing
    <3>2. Len(write_cbuf[w]) - (wcount[w] + 1) = 0
      BY <1>1, <2>3
    <3>3. QED
      BY <2>1, <3>1, <3>2
  <2>4. QED
    BY <2>2, <2>3
<1>6. [v \in Writers |-> Rest(v)]' = [[v \in Writers |-> Rest(v)] EXCEPT ![w] = Tail(@)]
  BY <1>5 DEF SingleWriter
<1>7. Unread' = Append(Unread, Head([v \in Writers |-> Rest(v)][w]))
  BY <1>3, AdvanceWrAppends DEF TypeInv
<1>8. Len(Unread) < Size - 1
  BY <1>1, UnreadIs DEF IInv, TypeInv, UnreadShape
<1>9. Taken' = Taken
  BY <1>4 DEF Taken
<1>10. QED
  BY <1>3, <1>6, <1>7, <1>8, <1>9 DEF Channel!Put

\* Advancing rd_place is Take.
LEMMA RefinesTake ==
  ASSUME IInv, TypeInv', AdvanceRd
  PROVE  Channel!Take
<1>1. /\ rcount \in Nat /\ read_save_buf \in Seq(Byte)
      /\ Len(read_save_buf) = rcount + 1
      /\ read_save_buf[rcount + 1] = buffer_addr[rd_place]
      /\ rcount' = rcount + 1 /\ read_save_buf' = read_save_buf
      /\ UNCHANGED <<wpc, write_cbuf, wcount>>
  BY DEF IInv, TypeInv, TypeOK, ReaderInv, AdvanceRd, writer
<1>2. /\ Taken \in Seq(Byte) /\ Len(Taken) = rcount
      /\ \A i \in 1 .. rcount : Taken[i] = read_save_buf[i]
  BY <1>1, TakenIs DEF IInv, TypeInv
<1>3. \A i \in 1 .. rcount + 1 : read_save_buf[i] \in Byte
  BY <1>1
<1>4. Taken' = [i \in 1 .. rcount + 1 |-> read_save_buf[i]]
  BY <1>1 DEF Taken
<1>5. Taken' = Append(Taken, buffer_addr[rd_place])
  <2>1. Taken' \in Seq(Byte) /\ Len(Taken') = rcount + 1
    BY <1>1, <1>3, <1>4
  <2>2. /\ Append(Taken, buffer_addr[rd_place]) \in Seq(Byte)
        /\ Len(Append(Taken, buffer_addr[rd_place])) = rcount + 1
    BY <1>1, <1>2, <1>3
  <2>3. \A i \in 1 .. rcount + 1 : Taken'[i] = Append(Taken, buffer_addr[rd_place])[i]
    BY <1>1, <1>2, <1>4
  <2>4. QED
    BY <2>1, <2>2, <2>3, SameSeq
<1>6. [v \in Writers |-> Rest(v)]' = [v \in Writers |-> Rest(v)]
  BY <1>1 DEF Rest, Writing
<1>7. QED
  BY <1>5, <1>6, AdvanceRdTakes DEF Channel!Take, TypeInv

\* Every step of the ring buffer is a step of the channel or a stutter.
LEMMA RefinesStep ==
  ASSUME SingleWriter
  PROVE  IInv /\ TypeInv' /\ [Next]_vars => [Channel!Next]_(Channel!vars)
<1> SUFFICES ASSUME IInv, TypeInv', [Next]_vars PROVE [Channel!Next]_(Channel!vars)
  OBVIOUS
<1> USE DEF Channel!vars
<1>1. ASSUME NEW w \in Writers, NEW c \in Chunk, WriteCall(w, c)
      PROVE  UNCHANGED Channel!vars
  <2>1. Rest(w) = <<>> /\ Rest(w)' = <<>>
    BY <1>1 DEF WriteCall, Rest, Writing, IInv, TypeInv, TypeOK
  <2>2. QED
    BY <1>1, <2>1
       DEF WriteCall, SingleWriter, ring, reader, Unread, Used, SlotAt, Taken
<1>2. ASSUME NEW w \in Writers, WriteCompareEmpty(w) \/ WriteSubtract(w)
      PROVE  (\E c \in Chunk : Channel!Accept(w, c)) \/ UNCHANGED Channel!vars
  BY <1>2, RefinesAccept
<1>3. ASSUME NEW w \in Writers, WriteCompareNonEmpty(w)
      PROVE  UNCHANGED Channel!vars
  <2>1. Rest(w) = <<>> /\ Rest(w)' = <<>>
    BY <1>3 DEF WriteCompareNonEmpty, Rest, Writing, IInv, TypeInv, TypeOK
  <2>2. QED
    BY <1>3, <2>1
       DEF WriteCompareNonEmpty, SingleWriter, ring, reader, Unread, Used, SlotAt, Taken
<1>4. ASSUME NEW w \in Writers, StoreByte(w)
      PROVE  UNCHANGED Channel!vars
  <2>1. Unread' = Unread
    BY <1>4, StoreKeepsUnread DEF TypeInv
  <2>2. Rest(w)' = Rest(w)
    BY <1>4 DEF StoreByte, Rest, Writing, IInv, TypeInv, TypeOK
  <2>3. Taken' = Taken
    BY <1>4 DEF StoreByte, reader, Taken
  <2>4. QED
    BY <2>1, <2>2, <2>3 DEF SingleWriter
<1>5. ASSUME NEW w \in Writers, AdvanceWr(w)
      PROVE  Channel!Put(w)
  BY <1>5, RefinesPut
<1>6. ASSUME NEW n \in 1 .. MaxRead, ReadCall(n)
      PROVE  Channel!NewRead
  BY <1>6 DEF ReadCall, ring, writer, Unread, Used, SlotAt, Taken, Rest, Writing,
              Channel!NewRead
<1>7. CASE ReadCompareEmpty \/ ReadCompareNonEmpty \/ ReadSubtract
  <2>1. UNCHANGED <<ring, writer, rcount, read_save_buf>>
    BY <1>7 DEF ReadCompareEmpty, ReadCompareNonEmpty, ReadSubtract
  <2>2. QED
    BY <2>1 DEF ring, writer, Unread, Used, SlotAt, Taken, Rest, Writing
<1>8. CASE LoadByte
  <2>1. Taken' = Taken
    <3>1. /\ Len(read_save_buf) = rcount /\ read_save_buf \in Seq(Byte)
          /\ rcount' = rcount /\ rcount \in Nat
          /\ read_save_buf' = Append(read_save_buf, buffer_addr[rd_place])
      BY <1>8 DEF LoadByte, IInv, TypeInv, TypeOK, ReaderInv
    <3>2. \A i \in 1 .. rcount : read_save_buf'[i] = read_save_buf[i]
      BY <3>1
    <3>3. QED
      BY <3>1, <3>2 DEF Taken
  <2>2. QED
    BY <1>8, <2>1 DEF LoadByte, ring, writer, Unread, Used, SlotAt, Rest, Writing
<1>9. ASSUME AdvanceRd
      PROVE  Channel!Take
  BY <1>9, RefinesTake
<1>10. CASE UNCHANGED vars
  BY <1>10 DEF vars, ring, writer, reader, Unread, Used, SlotAt, Taken, Rest, Writing
<1>11. QED
  <2>1. CASE \E w \in Writers : WriterStep(w)
    BY <1>1, <1>2, <1>3, <1>4, <1>5, <2>1 DEF WriterStep, Channel!Next
  <2>2. CASE ReaderStep
    BY <1>6, <1>7, <1>8, <1>9, <2>2 DEF ReaderStep, Channel!Next
  <2>3. QED
    BY <1>10, <2>1, <2>2 DEF Next

\* With one writer fifo.c is a bounded byte channel: no byte is lost,
\* duplicated or reordered, and a chunk goes in whole or not at all.
THEOREM Implements == ASSUME SingleWriter PROVE Spec => ImplementsChannel
<1>1. IInv => TypeInv
  BY DEF IInv
<1>2. QED
  BY RefinesInit, RefinesStep, InvInit, InvStep, <1>1, PTL
     DEF Spec, ImplementsChannel, Channel!Spec

=============================================================================
