----------------------------- MODULE ByteChannel -----------------------------
(***************************************************************************)
(* What fifo/fifo.c promises the threads on its two ends: a bounded byte   *)
(* channel.  fifo_write takes a chunk as a whole or not at all, and a      *)
(* chunk it has taken goes in byte by byte, in order, into room that was   *)
(* there when the chunk was taken; fifo_read hands bytes out in the order  *)
(* they went in, each of them once.                                        *)
(*                                                                         *)
(* The module knows nothing of slots, of indices or of the counts the      *)
(* threads compute from them; Fifo.tla implements it.                      *)
(***************************************************************************)
EXTENDS Integers, Sequences

CONSTANTS
  Byte,      \* the byte values
  Capacity,  \* how many unread bytes the channel can hold
  Writers,   \* the threads that write
  Chunk      \* the byte sequences a writer may ask to write

VARIABLES
  queue,     \* the bytes written and not yet read, oldest first
  pending,   \* per writer, the bytes of its accepted chunk not yet in queue
  taken      \* the bytes the current read has taken so far

vars == <<queue, pending, taken>>

Init ==
  /\ queue = <<>>
  /\ pending = [w \in Writers |-> <<>>]
  /\ taken = <<>>

\* A chunk is accepted as a whole, and only when all of it fits.
Accept(w, c) ==
  /\ pending[w] = <<>>
  /\ Len(queue) + Len(c) <= Capacity
  /\ pending' = [pending EXCEPT ![w] = c]
  /\ UNCHANGED <<queue, taken>>

\* The next byte of an accepted chunk becomes readable.
Put(w) ==
  /\ pending[w] # <<>>
  /\ Len(queue) < Capacity
  /\ queue' = Append(queue, Head(pending[w]))
  /\ pending' = [pending EXCEPT ![w] = Tail(@)]
  /\ UNCHANGED taken

\* The oldest byte leaves the channel for the reader.
Take ==
  /\ queue # <<>>
  /\ taken' = Append(taken, Head(queue))
  /\ queue' = Tail(queue)
  /\ UNCHANGED pending

\* The reader starts over with an empty buffer.
NewRead ==
  /\ taken' = <<>>
  /\ UNCHANGED <<queue, pending>>

Next ==
  \/ \E w \in Writers, c \in Chunk : Accept(w, c)
  \/ \E w \in Writers : Put(w)
  \/ Take
  \/ NewRead

Spec == Init /\ [][Next]_vars

==============================================================================
