----------------------------- MODULE MCTcpServer -----------------------------
(* Instances of TcpServer for TLC.  Hosts are compared and nothing else, so *)
(* safety is checked up to a permutation of them.                           *)
EXTENDS TcpServer, TLC

CONSTANTS a, b   \* hosts

Hosts == Permutations(Ip)

=============================================================================
