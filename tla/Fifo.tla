-------------------------------- MODULE Fifo --------------------------------
(***************************************************************************)
(* fifo/fifo.c: the byte ring buffer every pair of threads of the program  *)
(* communicates through.  It has no lock.  fifo_write runs in a producer   *)
(* thread and fifo_read in a consumer thread, each a sequence of accesses  *)
(* to the shared fields buffer_addr, rd_place and wr_place between which   *)
(* the other thread may run:                                               *)
(*                                                                         *)
(*   - the count of fifo_get_readable_num is computed in two statements,   *)
(*     the comparison of line 35 and the difference of line 38, and the    *)
(*     other end may move its index between them and after them;           *)
(*   - a byte is stored (line 111) before the index moves over it (line    *)
(*     112), and loaded (line 80) before rd_place moves (line 81).         *)
(*                                                                         *)
(* One step of the model is one statement of the code.  Each statement     *)
(* loads the one field the other end changes once, and the target is a     *)
(* single Cortex-A8 core, so with one writer this is exact.  With several  *)
(* writers (the send fifo of the TCP client has three) it leaves out the   *)
(* interleavings inside a statement.                                       *)
(***************************************************************************)
EXTENDS Integers, Sequences

CONSTANTS
  Byte,      \* the byte values (uint8_t)
  Size,      \* fifo_size: the number of slots
  Writers,   \* the threads that call fifo_write on this fifo
  MaxWrite,  \* the longest chunk a caller of fifo_write passes
  MaxRead    \* the largest read_size a caller of fifo_read passes

\* fifo_init refuses fifo_size <= 0 (line 13).
ASSUME SizeAssumption == Size \in Nat /\ Size > 0
ASSUME RequestAssumption == MaxWrite \in Nat /\ MaxRead \in Nat

VARIABLES
  buffer_addr,    \* slot -> byte
  rd_place,       \* the next slot to read
  wr_place,       \* the next slot to write
  wpc,            \* per writer: where in fifo_write it is
  write_cbuf,     \* per writer: the chunk it was called with
  wcount,         \* per writer: the loop counter, the bytes written so far
  rpc,            \* where in fifo_read the reader is
  read_size,      \* what it was asked for, then what it will read
  rcount,         \* its loop counter, the bytes read so far
  read_save_buf   \* the bytes it has loaded

ring   == <<buffer_addr, rd_place, wr_place>>
writer == <<wpc, write_cbuf, wcount>>
reader == <<rpc, read_size, rcount, read_save_buf>>
vars   == <<ring, writer, reader>>

Slot  == 0 .. Size - 1
Chunk == UNION {[1 .. n -> Byte] : n \in 1 .. MaxWrite}

\* The difference of line 38.  It is only evaluated when the two indices
\* differed a moment before, at line 35.
Distance == (Size + (wr_place - rd_place)) % Size

\* Mutant: the index does not wrap.
SuccNoWrap(place) == place + 1

Succ(place) == (place + 1) % Size

-----------------------------------------------------------------------------
\* fifo_init: the slots hold whatever malloc returned.
Init ==
  /\ buffer_addr \in [Slot -> Byte]
  /\ rd_place = 0
  /\ wr_place = 0
  /\ wpc = [w \in Writers |-> "idle"]
  /\ write_cbuf = [w \in Writers |-> <<>>]
  /\ wcount = [w \in Writers |-> 0]
  /\ rpc = "idle"
  /\ read_size = 0
  /\ rcount = 0
  /\ read_save_buf = <<>>

-----------------------------------------------------------------------------
(* fifo_write.  A call with write_size <= 0 returns -1 at once and is not  *)
(* a step.                                                                 *)

WriteCall(w, c) ==
  /\ wpc[w] = "idle"
  /\ wpc' = [wpc EXCEPT ![w] = "compare"]
  /\ write_cbuf' = [write_cbuf EXCEPT ![w] = c]
  /\ wcount' = [wcount EXCEPT ![w] = 0]
  /\ UNCHANGED <<ring, reader>>

\* Mutant: only a full ring refuses a chunk.
AcceptUnlessFull(w, count) ==
  wpc' = [wpc EXCEPT ![w] = IF count = 0 THEN "idle" ELSE "store"]

\* With count writeable slots: return -1 unless the whole chunk fits.
AcceptOrRefuse(w, count) ==
  wpc' = [wpc EXCEPT ![w] =
            IF count = 0 \/ count < Len(write_cbuf[w]) THEN "idle" ELSE "store"]

\* fifo_get_writeable_num, when line 35 finds the ring empty.
WriteCompareEmpty(w) ==
  /\ wpc[w] = "compare"
  /\ rd_place = wr_place
  /\ AcceptOrRefuse(w, Size - 1)
  /\ UNCHANGED <<ring, write_cbuf, wcount, reader>>

\* fifo_get_writeable_num, when line 35 does not: on to line 38.
WriteCompareNonEmpty(w) ==
  /\ wpc[w] = "compare"
  /\ rd_place # wr_place
  /\ wpc' = [wpc EXCEPT ![w] = "subtract"]
  /\ UNCHANGED <<ring, write_cbuf, wcount, reader>>

WriteSubtract(w) ==
  /\ wpc[w] = "subtract"
  /\ AcceptOrRefuse(w, Size - Distance - 1)
  /\ UNCHANGED <<ring, write_cbuf, wcount, reader>>

StoreByte(w) ==
  /\ wpc[w] = "store"
  /\ buffer_addr' = [buffer_addr EXCEPT ![wr_place] = write_cbuf[w][wcount[w] + 1]]
  /\ wpc' = [wpc EXCEPT ![w] = "advance"]
  /\ UNCHANGED <<rd_place, wr_place, write_cbuf, wcount, reader>>

\* The loop ends, and fifo_write returns write_size, after the last byte.
AdvanceWr(w) ==
  /\ wpc[w] = "advance"
  /\ wr_place' = Succ(wr_place)
  /\ wcount' = [wcount EXCEPT ![w] = @ + 1]
  /\ wpc' = [wpc EXCEPT ![w] =
               IF wcount[w] + 1 < Len(write_cbuf[w]) THEN "store" ELSE "idle"]
  /\ UNCHANGED <<buffer_addr, rd_place, write_cbuf, reader>>

-----------------------------------------------------------------------------
(* fifo_read.  A call with read_size <= 0 returns -1 at once and is not a  *)
(* step.                                                                   *)

ReadCall(n) ==
  /\ rpc = "idle"
  /\ rpc' = "compare"
  /\ read_size' = n
  /\ rcount' = 0
  /\ read_save_buf' = <<>>
  /\ UNCHANGED <<ring, writer>>

\* Line 35 finds the ring empty: fifo_read returns -1.
ReadCompareEmpty ==
  /\ rpc = "compare"
  /\ rd_place = wr_place
  /\ rpc' = "idle"
  /\ UNCHANGED <<ring, writer, read_size, rcount, read_save_buf>>

ReadCompareNonEmpty ==
  /\ rpc = "compare"
  /\ rd_place # wr_place
  /\ rpc' = "subtract"
  /\ UNCHANGED <<ring, writer, read_size, rcount, read_save_buf>>

\* Mutant: the number to read is not clamped to what is there.
ReadSubtractUnclamped ==
  /\ rpc = "subtract"
  /\ rpc' = IF Distance = 0 THEN "idle" ELSE "load"
  /\ UNCHANGED <<ring, writer, read_size, rcount, read_save_buf>>

\* Line 38, then the clamp of lines 73-78.
ReadSubtract ==
  /\ rpc = "subtract"
  /\ read_size' = IF Distance < read_size THEN Distance ELSE read_size
  /\ rpc' = IF Distance = 0 THEN "idle" ELSE "load"
  /\ UNCHANGED <<ring, writer, rcount, read_save_buf>>

LoadByte ==
  /\ rpc = "load"
  /\ read_save_buf' = Append(read_save_buf, buffer_addr[rd_place])
  /\ rpc' = "advance"
  /\ UNCHANGED <<ring, writer, read_size, rcount>>

AdvanceRd ==
  /\ rpc = "advance"
  /\ rd_place' = Succ(rd_place)
  /\ rcount' = rcount + 1
  /\ rpc' = IF rcount + 1 < read_size THEN "load" ELSE "idle"
  /\ UNCHANGED <<buffer_addr, wr_place, writer, read_size, read_save_buf>>

-----------------------------------------------------------------------------
WriterStep(w) ==
  \/ \E c \in Chunk : WriteCall(w, c)
  \/ WriteCompareEmpty(w)
  \/ WriteCompareNonEmpty(w)
  \/ WriteSubtract(w)
  \/ StoreByte(w)
  \/ AdvanceWr(w)

ReaderStep ==
  \/ \E n \in 1 .. MaxRead : ReadCall(n)
  \/ ReadCompareEmpty
  \/ ReadCompareNonEmpty
  \/ ReadSubtract
  \/ LoadByte
  \/ AdvanceRd

Next == (\E w \in Writers : WriterStep(w)) \/ ReaderStep

Spec == Init /\ [][Next]_vars

-----------------------------------------------------------------------------
(* Properties                                                              *)

\* The discipline the code has to keep, fifo by fifo, since nothing else
\* protects the indices: one thread writes.  The uart fifos and the receive
\* fifos of the TCP modules keep it; the TCP client's send fifo does not.
SingleWriter == \E w : Writers = {w}

\* Every field has its type; the indices stay inside the buffer.
TypeOK ==
  /\ buffer_addr \in [Slot -> Byte]
  /\ rd_place \in Slot
  /\ wr_place \in Slot
  /\ wpc \in [Writers -> {"idle", "compare", "subtract", "store", "advance"}]
  /\ write_cbuf \in [Writers -> Seq(Byte)]
  /\ wcount \in [Writers -> Nat]
  /\ rpc \in {"idle", "compare", "subtract", "load", "advance"}
  /\ read_size \in Nat
  /\ rcount \in Nat
  /\ read_save_buf \in Seq(Byte)

\* The number of unread bytes, and the slot k places after rd_place, both
\* stated without the modulus of the code.
Used == IF rd_place <= wr_place THEN wr_place - rd_place ELSE Size - rd_place + wr_place
SlotAt(k) == IF rd_place + k < Size THEN rd_place + k ELSE rd_place + k - Size

Writing(w) == wpc[w] \in {"store", "advance"}
Reading == rpc \in {"load", "advance"}

\* A count goes stale the moment it is computed (fifo.c:72, fifo.c:102), but
\* only to the safe side: what is left of an accepted chunk always fits in
\* the free slots, one of which stays free for ever, and what is left of a
\* read is always there to be read.
Reservations ==
  /\ \A w \in Writers : Writing(w) =>
       /\ wcount[w] < Len(write_cbuf[w])
       /\ Used + (Len(write_cbuf[w]) - wcount[w]) <= Size - 1
  /\ Reading => rcount < read_size /\ read_size - rcount <= Used

\* The refinement mapping: the unread slots in order, the rest of the chunk
\* being written, the bytes rd_place has already moved over.
Unread == [i \in 1 .. Used |-> buffer_addr[SlotAt(i - 1)]]
Rest(w) == IF Writing(w)
           THEN [i \in 1 .. Len(write_cbuf[w]) - wcount[w] |-> write_cbuf[w][wcount[w] + i]]
           ELSE <<>>
Taken == [i \in 1 .. rcount |-> read_save_buf[i]]

Channel == INSTANCE ByteChannel WITH
  Capacity <- Size - 1,
  queue    <- Unread,
  pending  <- [w \in Writers |-> Rest(w)],
  taken    <- Taken

\* fifo.c implements the byte channel: a chunk goes in whole or not at all,
\* and every byte comes out once and in order, however the two threads
\* interleave inside fifo_read and fifo_write.
ImplementsChannel == Channel!Spec

=============================================================================
