------------------------------- MODULE Relay -------------------------------
(***************************************************************************)
(* What the threads between the serial line, the network and the app       *)
(* thread promise: a command that was accepted is handed to the app at     *)
(* most once and in the order of its source, and only the newest commands  *)
(* are lost when the process dies.  Once an end-of-program command has     *)
(* been handed over, the last command may be handed over again, and        *)
(* everything that waits may be lost.                                      *)
(***************************************************************************)
EXTENDS Naturals

CONSTANT Command   \* records with a source, src, and a number, id

VARIABLES
  newest,    \* the number of the newest command that has arrived
  pending,   \* the commands accepted and not handed over
  last,      \* the command handed over last,
  turns,     \* and how often one was
  stopped    \* an end-of-program command was handed over in this run

vars == <<newest, pending, last, turns, stopped>>

Before(x, y) == x.src = y.src /\ x.id < y.id

Init == newest = 0 /\ pending = {} /\ turns = 0 /\ stopped = FALSE

\* A command arrives, and is accepted or not.
Arrive(c) ==
  /\ c.id > newest
  /\ newest' = c.id
  /\ pending' \in {pending, pending \cup {c}}
  /\ UNCHANGED <<last, turns, stopped>>

Handle(c) ==
  /\ c \in pending
  /\ \A x \in pending : ~Before(x, c)
  /\ pending' = pending \ {c}
  /\ last' = c
  /\ turns' = turns + 1
  /\ stopped' = (stopped \/ c.cmd = "end")
  /\ UNCHANGED newest

Repeat ==
  /\ stopped
  /\ turns' = turns + 1
  /\ UNCHANGED <<newest, pending, last, stopped>>

\* The process is gone; a new one knows nothing of the last command.
Crash ==
  /\ pending' \in SUBSET pending
  /\ \A c \in pending', x \in pending : Before(x, c) => x \in pending'
  /\ stopped' = FALSE
  /\ UNCHANGED <<newest, turns>>

Shutdown ==
  /\ stopped
  /\ pending' = {}
  /\ UNCHANGED <<newest, last, turns, stopped>>

Next ==
  \/ \E c \in Command : Arrive(c) \/ Handle(c)
  \/ Repeat \/ Crash \/ Shutdown

Spec == Init /\ [][Next]_vars

=============================================================================
