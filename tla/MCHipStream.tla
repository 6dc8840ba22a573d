---------------------------- MODULE MCHipStream ----------------------------
(* HipStream on a small instance: sequences cannot be written in a .cfg.   *)
(* A packet with an address of seven bytes has 26 bytes, the pass-through  *)
(* packets have 18.                                                        *)
EXTENDS HipStream

Ip1111 == <<49, 46, 49, 46, 49, 46, 49>>

Login == [cmd |-> LOGIN, data |-> <<>>]
Beat  == [cmd |-> KEEP_ALIVE, data |-> <<>>]
Data  == [cmd |-> PASS_THROUGH, data |-> <<7>>]
Mix   == {Login, Beat, Data}

\* The answer to a login comes first.
Carried == [client_recv |-> {0 :> <<Login>> \o s : s \in [1 .. 3 -> {Login, Beat}]},
            server_recv |-> {4 :> <<Login, Data, Data>> @@ 5 :> <<Beat>>,
                             4 :> <<Data, Beat>> @@ 5 :> <<Data, Data>>}]

=============================================================================
