------------------------------- MODULE MCFifo -------------------------------
(***************************************************************************)
(* Fifo for TLC, and the mutants of fifo.c its properties are tried on.    *)
(***************************************************************************)
EXTENDS Fifo
=============================================================================
