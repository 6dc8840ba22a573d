---------------------------- MODULE MCTcpClient ----------------------------
(* TcpClient on small instances: the constants are in the .cfg files.      *)
EXTENDS TcpClient
=============================================================================
