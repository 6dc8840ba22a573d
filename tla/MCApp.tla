------------------------------- MODULE MCApp -------------------------------
(* App on a small instance: the constants are in the .cfg file.            *)
EXTENDS App
=============================================================================
