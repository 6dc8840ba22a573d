-------------------------------- MODULE App --------------------------------
(***************************************************************************)
(* main.c, app/app.c, uart_mod/uart_mod.c and msg_queue_mod/msg_queue_mod.c *)
(* together: start, the threads of the serial line, the message queue, the *)
(* command loop and shutdown.                                              *)
(*                                                                         *)
(*   read    takes what the line brings to the uart's recv_fifo;           *)
(*   hand    parses it and puts the commands into the queue;               *)
(*   send    empties the uart's send_fifo to the line;                     *)
(*   tcp     the network's handle thread, which puts commands too;         *)
(*   app     takes commands from the queue and carries them out;           *)
(*   main    starts everything, waits for the end and tears it down.       *)
(*                                                                         *)
(* The process may die at any time; the System V queue stays behind.  A    *)
(* frame of the line is whole (Hup says when it is reported) and fits in   *)
(* recv_fifo or is dropped; send_fifo counts bytes, because the app thread *)
(* waits for room for a whole frame.  A thread tests its run flag and      *)
(* begins the round in one step: a flag cleared in between gives one round *)
(* more, which might as well have come before the clearing.                *)
(***************************************************************************)
EXTENDS Naturals, Sequences

CONSTANTS
  QueueSize,   \* messages that fit in the queue
  RecvRoom,    \* frames that fit in recv_fifo
  SendRoom,    \* bytes that fit in send_fifo
  Sizes,       \* the sizes of the frames hup_pack makes
  MaxRuns,     \* bound: runs of the program
  MaxCommands  \* bound: commands that arrive, over time

ASSUME AppAssumption ==
  /\ QueueSize \in Nat \ {0} /\ RecvRoom \in Nat \ {0} /\ SendRoom \in Nat
  /\ Sizes \subseteq Nat \ {0} /\ MaxRuns \in Nat /\ MaxCommands \in Nat

VARIABLES
  queue, queue_exists,   \* the kernel's
  main_run_flag, app_run_flag, tcp_run_flag,
  uart_run_flag,   \* the three flags of uart_mod_t, and the line is open
  recv_fifo,       \* the frames in it
  send_fifo,       \* the bytes in it
  main, app,       \* where these two threads are
  msg_queue_ptr,   \* the app thread's command
  batch,           \* the frames the hand thread has read
  packet,          \* the packet of the tcp thread
  cmd_dev,         \* the kind of device
  \* history
  run, arrived,    \* runs of the program, commands that arrived
  crashed,         \* the runs that died
  turns            \* how often app_cmd_process was called

kernel  == <<queue, queue_exists>>
flags   == <<main_run_flag, app_run_flag, tcp_run_flag, uart_run_flag>>
fifos   == <<recv_fifo, send_fifo>>
history == <<run, arrived, crashed, turns>>
vars == <<kernel, flags, fifos, main, app, msg_queue_ptr, batch, packet, cmd_dev, history>>

Command == [id : 1 .. MaxCommands, src : {"uart", "tcp"}, run : 1 .. MaxRuns,
            cmd : {"end", "print", "pass_through"}, size : Sizes]
NoCommand == [id |-> 0]

-----------------------------------------------------------------------------
Init ==
  /\ queue = <<>> /\ queue_exists = FALSE
  /\ main_run_flag = FALSE /\ app_run_flag = FALSE
  /\ tcp_run_flag = FALSE /\ uart_run_flag = FALSE
  /\ recv_fifo = <<>> /\ send_fifo = 0
  /\ main = "off" /\ app = "none" /\ msg_queue_ptr = NoCommand
  /\ batch = <<>> /\ packet = NoCommand
  /\ cmd_dev \in {"client", "server"}
  /\ run = 0 /\ arrived = 0 /\ crashed = {} /\ turns = 0

\* What is gone when the process has ended, in whichever way.
ProcessGone ==
  /\ main' = "off" /\ app' = "none" /\ msg_queue_ptr' = NoCommand
  /\ main_run_flag' = FALSE /\ app_run_flag' = FALSE
  /\ tcp_run_flag' = FALSE /\ uart_run_flag' = FALSE
  /\ recv_fifo' = <<>> /\ send_fifo' = 0
  /\ batch' = <<>> /\ packet' = NoCommand
  /\ UNCHANGED cmd_dev

\* The process is killed (external): by a signal, the SIGPIPE of a send to a
\* connection that was reset among them.
Crash ==
  /\ main # "off"
  /\ crashed' = crashed \cup {run}
  /\ ProcessGone
  /\ UNCHANGED <<kernel, run, arrived, turns>>

\* A command arrives over the line or the network (external).
Arrives(c) ==
  /\ c.id = arrived + 1 /\ c.run = run
  /\ arrived' = arrived + 1
  /\ UNCHANGED <<run, crashed, turns>>

-----------------------------------------------------------------------------
(* main                                                                    *)

\* msg_queue_init: the queue that is there is used.
MainQueue ==
  /\ main = "off" /\ run < MaxRuns
  /\ run' = run + 1
  /\ queue_exists' = TRUE
  /\ main' = "init"
  /\ UNCHANGED <<queue, flags, fifos, app, msg_queue_ptr, batch, packet, cmd_dev,
                 arrived, crashed, turns>>

\* uart_mod_init, and tcp_mod_init
MainInit ==
  /\ main = "init"
  /\ recv_fifo' = <<>> /\ send_fifo' = 0
  /\ main' = "uart"
  /\ UNCHANGED <<kernel, flags, app, msg_queue_ptr, batch, packet, cmd_dev, history>>

\* uart_mod_start
MainUart ==
  /\ main = "uart"
  /\ uart_run_flag' = TRUE
  /\ main' = "tcp"
  /\ UNCHANGED <<kernel, main_run_flag, app_run_flag, tcp_run_flag, fifos, app,
                 msg_queue_ptr, batch, packet, cmd_dev, history>>

\* tcp_mod_start
MainTcp ==
  /\ main = "tcp"
  /\ tcp_run_flag' = TRUE
  /\ main' = "flags"
  /\ UNCHANGED <<kernel, main_run_flag, app_run_flag, uart_run_flag, fifos, app,
                 msg_queue_ptr, batch, packet, cmd_dev, history>>

\* app_start_handle sets both flags before there is a thread to clear one.
MainFlags ==
  /\ main = "flags"
  /\ main_run_flag' = TRUE /\ app_run_flag' = TRUE
  /\ main' = "app"
  /\ UNCHANGED <<kernel, uart_run_flag, tcp_run_flag, fifos, app, msg_queue_ptr,
                 batch, packet, cmd_dev, history>>

\* Mutant: main_run_flag is set after the thread was started.
MainAppFlagLate ==
  /\ main = "app"
  /\ \/ app = "none" /\ app' = "recv" /\ UNCHANGED <<main, main_run_flag>>
     \/ app # "none" /\ main' = "loop" /\ main_run_flag' = TRUE /\ UNCHANGED app
  /\ UNCHANGED <<kernel, app_run_flag, uart_run_flag, tcp_run_flag, fifos, msg_queue_ptr,
                 batch, packet, cmd_dev, history>>

MainApp ==
  /\ main = "app"
  /\ app' = "recv"
  /\ main' = "loop"
  /\ UNCHANGED <<kernel, flags, fifos, msg_queue_ptr, batch, packet, cmd_dev, history>>

\* app_stop_handle: the thread may be in msgrcv or anywhere else.
MainStop ==
  /\ main = "loop" /\ ~main_run_flag
  /\ app_run_flag' = FALSE
  /\ main' = "stop_tcp"
  /\ UNCHANGED <<kernel, main_run_flag, uart_run_flag, tcp_run_flag, fifos, app,
                 msg_queue_ptr, batch, packet, cmd_dev, history>>

\* tcp_mod_deinit
MainStopTcp ==
  /\ main = "stop_tcp"
  /\ tcp_run_flag' = FALSE
  /\ main' = "stop_uart"
  /\ UNCHANGED <<kernel, main_run_flag, app_run_flag, uart_run_flag, fifos, app,
                 msg_queue_ptr, batch, packet, cmd_dev, history>>

\* uart_mod_deinit: it closes the line and frees the buffers of both fifos,
\* though not their indices; hand and app may still be using them.
MainStopUart ==
  /\ main = "stop_uart"
  /\ uart_run_flag' = FALSE
  /\ main' = "remove"
  /\ UNCHANGED <<kernel, main_run_flag, app_run_flag, tcp_run_flag, fifos, app,
                 msg_queue_ptr, batch, packet, cmd_dev, history>>

\* Mutant: msg_queue_deinit is forgotten.
MainRemoveNothing ==
  /\ main = "remove"
  /\ main' = "exit"
  /\ UNCHANGED <<kernel, flags, fifos, app, msg_queue_ptr, batch, packet, cmd_dev, history>>

\* msg_queue_deinit
MainRemove ==
  /\ main = "remove"
  /\ queue' = <<>> /\ queue_exists' = FALSE
  /\ main' = "exit"
  /\ UNCHANGED <<flags, fifos, app, msg_queue_ptr, batch, packet, cmd_dev, history>>

\* main returns, and the threads are gone.
MainExit ==
  /\ main = "exit"
  /\ ProcessGone
  /\ UNCHANGED <<kernel, history>>

MainStep ==
  \/ MainInit \/ MainUart \/ MainTcp \/ MainFlags \/ MainApp
  \/ MainStop \/ MainStopTcp \/ MainStopUart \/ MainRemove \/ MainExit

-----------------------------------------------------------------------------
(* The threads of uart_mod                                                 *)

\* A frame is there; fifo_write takes it whole or not at all.
ReadFrame(c) ==
  /\ uart_run_flag
  /\ c.src = "uart" /\ Arrives(c)
  /\ recv_fifo' = IF Len(recv_fifo) < RecvRoom THEN Append(recv_fifo, c) ELSE recv_fifo
  /\ UNCHANGED <<kernel, flags, send_fifo, main, app, msg_queue_ptr, batch, packet, cmd_dev>>

\* Everything readable is read and goes through hup_unpack.
HandRead ==
  /\ uart_run_flag /\ batch = <<>> /\ recv_fifo # <<>>
  /\ batch' = recv_fifo
  /\ recv_fifo' = <<>>
  /\ UNCHANGED <<kernel, flags, send_fifo, main, app, msg_queue_ptr, packet, cmd_dev, history>>

\* msgsnd blocks while the queue is full, and fails when it is gone.
CanSend   == queue_exists => Len(queue) < QueueSize
Queued(c) == IF queue_exists THEN Append(queue, c) ELSE queue

HandSend ==
  /\ batch # <<>> /\ CanSend
  /\ queue' = Queued(Head(batch))
  /\ batch' = Tail(batch)
  /\ UNCHANGED <<queue_exists, flags, fifos, main, app, msg_queue_ptr, packet, cmd_dev, history>>

HandStep == HandRead \/ HandSend

\* Everything readable is read and written to the line.
SendStep ==
  /\ uart_run_flag /\ send_fifo > 0
  /\ send_fifo' = 0
  /\ UNCHANGED <<kernel, flags, recv_fifo, main, app, msg_queue_ptr, batch, packet,
                 cmd_dev, history>>

-----------------------------------------------------------------------------
(* The handle thread of the TCP client or server, as far as the queue goes. *)

TcpPacket(c) ==
  /\ tcp_run_flag /\ packet = NoCommand
  /\ c.src = "tcp" /\ c.cmd = "pass_through" /\ Arrives(c)
  /\ packet' = c
  /\ UNCHANGED <<kernel, flags, fifos, main, app, msg_queue_ptr, batch, cmd_dev>>

TcpSend ==
  /\ packet # NoCommand /\ CanSend
  /\ queue' = Queued(packet)
  /\ packet' = NoCommand
  /\ UNCHANGED <<queue_exists, flags, fifos, main, app, msg_queue_ptr, batch, cmd_dev, history>>

-----------------------------------------------------------------------------
(* app_pthread_handle                                                      *)

AppRecv ==
  /\ app = "recv" /\ queue # <<>>
  /\ msg_queue_ptr' = Head(queue)
  /\ queue' = Tail(queue)
  /\ turns' = turns + 1
  /\ app' = "process"
  /\ UNCHANGED <<queue_exists, flags, fifos, main, batch, packet, cmd_dev,
                 run, arrived, crashed>>

\* Mutant: msgrcv does not wait (IPC_NOWAIT).
AppRecvFailsEmpty ==
  /\ app = "recv" /\ queue = <<>> /\ msg_queue_ptr # NoCommand
  /\ turns' = turns + 1
  /\ app' = "process"
  /\ UNCHANGED <<kernel, flags, fifos, main, msg_queue_ptr, batch, packet, cmd_dev,
                 run, arrived, crashed>>

\* msgrcv fails for a queue that is gone.  Nobody looks at the result, and
\* the command of the last time is carried out again: with its id and length,
\* while its data, which is no part of a command here, has been zeroed.
AppRecvFails ==
  /\ app = "recv" /\ ~queue_exists
  /\ turns' = turns + 1
  /\ app' = "process"
  /\ UNCHANGED <<kernel, flags, fifos, main, msg_queue_ptr, batch, packet, cmd_dev,
                 run, arrived, crashed>>

NextRound == app' = IF app_run_flag THEN "recv" ELSE "ended"

\* app_cmd_process: the end of the program ...
AppEnd ==
  /\ app = "process" /\ msg_queue_ptr.cmd = "end"
  /\ main_run_flag' = FALSE
  /\ NextRound
  /\ UNCHANGED <<kernel, app_run_flag, uart_run_flag, tcp_run_flag, fifos, main,
                 msg_queue_ptr, batch, packet, cmd_dev, history>>

\* ... data for the network (tcp_mod_send, that is TcpClient!AppSend; an
\* unknown command does as little here) ...
ToNetwork == cmd_dev = "client" /\ msg_queue_ptr.cmd = "pass_through"
ToLine    == msg_queue_ptr.cmd # "end" /\ ~ToNetwork

AppTcpSend ==
  /\ app = "process" /\ ToNetwork
  /\ NextRound
  /\ UNCHANGED <<kernel, flags, fifos, main, msg_queue_ptr, batch, packet, cmd_dev, history>>

\* Mutant: uart_mod_send writes without waiting for room.
AppUartSendAtOnce ==
  /\ app = "process" /\ ToLine
  /\ send_fifo' = send_fifo + msg_queue_ptr.size
  /\ NextRound
  /\ UNCHANGED <<kernel, flags, recv_fifo, main, msg_queue_ptr, batch, packet, cmd_dev, history>>

\* ... or a frame for the line: uart_mod_send waits for room.
AppUartSend ==
  /\ app = "process" /\ ToLine
  /\ send_fifo + msg_queue_ptr.size <= SendRoom
  /\ send_fifo' = send_fifo + msg_queue_ptr.size
  /\ NextRound
  /\ UNCHANGED <<kernel, flags, recv_fifo, main, msg_queue_ptr, batch, packet, cmd_dev, history>>

AppStep == AppRecv \/ AppRecvFails \/ AppEnd \/ AppTcpSend \/ AppUartSend

-----------------------------------------------------------------------------
Next ==
  \/ MainQueue \/ MainStep \/ Crash
  \/ HandStep \/ SendStep \/ TcpSend \/ AppStep
  \/ \E c \in Command : ReadFrame(c) \/ TcpPacket(c)

Spec == Init /\ [][Next]_vars

FairSpec ==
  /\ Spec
  /\ WF_vars(MainStep) /\ WF_vars(HandStep) /\ WF_vars(SendStep) /\ WF_vars(TcpSend)
  /\ WF_vars(AppStep)

-----------------------------------------------------------------------------
(* Properties                                                              *)

Stopping == {"stop_tcp", "stop_uart", "remove", "exit"}

\* Every variable keeps its shape, no queue or fifo holds more than fits, and
\* whatever the app thread carries out was once received.
TypeOK ==
  /\ queue \in Seq(Command) /\ Len(queue) <= QueueSize /\ queue_exists \in BOOLEAN
  /\ main_run_flag \in BOOLEAN /\ app_run_flag \in BOOLEAN
  /\ uart_run_flag \in BOOLEAN /\ tcp_run_flag \in BOOLEAN
  /\ recv_fifo \in Seq(Command) /\ Len(recv_fifo) <= RecvRoom
  /\ send_fifo \in 0 .. SendRoom
  /\ main \in {"off", "init", "uart", "tcp", "flags", "app", "loop"} \cup Stopping
  /\ app \in {"none", "recv", "process", "ended"}
  /\ msg_queue_ptr \in Command \cup {NoCommand}
  /\ app = "process" => msg_queue_ptr \in Command
  /\ batch \in Seq(Command)
  /\ packet \in Command \cup {NoCommand}
  /\ cmd_dev \in {"client", "server"}
  /\ run \in 0 .. MaxRuns /\ arrived \in 0 .. MaxCommands
  /\ crashed \subseteq 1 .. run /\ turns \in Nat

\* The queue outlives the process (msg_queue_mod.c:13), and a run takes over
\* what it finds there, an end-of-program command too.  Only a run that died
\* leaves something: whatever the threads still do during shutdown, nothing
\* of theirs is in the queue when the next run starts.
StaleOnlyAfterCrash ==
  \A i \in 1 .. Len(queue) : queue[i].run = run \/ queue[i].run \in crashed

\* The commands that are on their way to the app thread.
Elements(seq) == {seq[i] : i \in 1 .. Len(seq)}
Pending ==
  IF queue_exists
  THEN (Elements(queue) \cup Elements(batch) \cup Elements(recv_fifo) \cup {packet}) \ {NoCommand}
  ELSE {}

\* A frame that is larger than send_fifo: uart_mod_send never ends.
Stuck == app = "process" /\ ToLine /\ msg_queue_ptr.size > SendRoom

\* An accepted end-of-program command ends the program, however full queue
\* and fifos are: the waits for room (msgsnd, uart_mod_send) form no circle,
\* and the start does not undo what the app thread did to main_run_flag.
EndStops == (\E c \in Pending : c.cmd = "end") ~> (main = "off" \/ Stuck)

\* An end-of-program command was taken in this run.
Ended ==
  \/ main \in Stopping
  \/ main = "loop" /\ ~main_run_flag
  \/ app = "process" /\ msg_queue_ptr.cmd = "end"

\* The threads, the queue and its survival are a Relay: at most once, in the
\* order of each source, the newest lost first, and a command carried out
\* twice (AppRecvFails) only in a run that an end command has ended.
Commands == INSTANCE Relay WITH
  newest <- arrived, pending <- Pending, last <- msg_queue_ptr, stopped <- Ended

RelaysCommands == Commands!Spec

=============================================================================
