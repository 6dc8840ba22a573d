------------------------------ MODULE AppProofs ------------------------------
(***************************************************************************)
(* Proofs about App for every size of the queue, of the fifos and of the   *)
(* frames, and for any number of commands and runs: the types; that only a *)
(* run that died leaves commands behind; and that the threads, the queue   *)
(* and its survival implement Relay.                                       *)
(***************************************************************************)
EXTENDS App, TLAPS

Starting == {"init", "uart", "tcp", "flags", "app"}

\* Where main is says what the others may have done.
MainInv ==
  /\ main \in {"off", "init"} => /\ ~uart_run_flag /\ ~tcp_run_flag
                                 /\ batch = <<>> /\ packet = NoCommand
  /\ main \in {"off", "init"} => recv_fifo = <<>>
  /\ main \in Starting \cup {"off"} => app = "none"
  /\ main = "app" => main_run_flag
  /\ main # "off" => run > 0
  /\ ~queue_exists => queue = <<>> /\ main \in {"off", "exit"}
  /\ main = "exit" => ~queue_exists

\* A stopped program has carried out a command.
StopInv == Ended => msg_queue_ptr \in Command

\* Commands that are still with the threads are of this run.
RunInv ==
  /\ \A i \in 1 .. Len(batch) : batch[i].run = run
  /\ \A i \in 1 .. Len(recv_fifo) : recv_fifo[i].run = run
  /\ packet # NoCommand => packet.run = run
  /\ StaleOnlyAfterCrash
  /\ main = "off" => \A i \in 1 .. Len(queue) : queue[i].run \in crashed

IInv == TypeOK /\ MainInv /\ StopInv /\ RunInv

-----------------------------------------------------------------------------
(* Sequences                                                               *)

\* The empty sequence.
LEMMA EmptyFacts ==
  ASSUME NEW S
  PROVE  <<>> \in Seq(S) /\ Len(<<>>) = 0
  OBVIOUS

\* Whoever takes the head of a sequence leaves a sequence.
LEMMA TailFacts ==
  ASSUME NEW S, NEW seq \in Seq(S), seq # <<>>
  PROVE  /\ Head(seq) \in S /\ Head(seq) = seq[1] /\ Tail(seq) \in Seq(S)
         /\ Len(seq) > 0 /\ Len(Tail(seq)) = Len(seq) - 1
         /\ \A i \in 1 .. Len(Tail(seq)) : Tail(seq)[i] = seq[i + 1] /\ i + 1 \in 1 .. Len(seq)
  OBVIOUS

\* Whoever appends to a sequence leaves the rest of it alone.
LEMMA AppendFacts ==
  ASSUME NEW S, NEW seq \in Seq(S), NEW e \in S
  PROVE  /\ Append(seq, e) \in Seq(S) /\ Len(Append(seq, e)) = Len(seq) + 1
         /\ Append(seq, e)[Len(seq) + 1] = e
         /\ \A i \in 1 .. Len(seq) : Append(seq, e)[i] = seq[i]
         /\ \A i \in 1 .. Len(seq) + 1 : i \in 1 .. Len(seq) \/ i = Len(seq) + 1
  OBVIOUS

\* No command is NoCommand.
LEMMA NoCommandIsNone == NoCommand \notin Command
  BY DEF Command, NoCommand

-----------------------------------------------------------------------------
(* Types                                                                   *)

\* Init establishes the invariant.
LEMMA InvInit == Init => IInv
<1> SUFFICES ASSUME Init PROVE IInv
  OBVIOUS
<1>1. TypeOK
  <2>1. <<>> \in Seq(Command) /\ Len(<<>>) = 0
    BY EmptyFacts
  <2>2. 0 \in 0 .. SendRoom /\ 0 <= RecvRoom /\ 0 <= QueueSize
        /\ 0 \in 0 .. MaxRuns /\ 0 \in 0 .. MaxCommands
    BY AppAssumption
  <2>3. QED
    BY <2>1, <2>2 DEF Init, TypeOK
<1>2. MainInv /\ StopInv /\ RunInv
  BY DEF Init, MainInv, Starting, StopInv, Ended, Stopping, RunInv, StaleOnlyAfterCrash
<1>3. QED
  BY <1>1, <1>2 DEF IInv

\* What arrives is a command of this run and raises the count by one.
LEMMA ArrivesType ==
  ASSUME TypeOK, NEW c \in Command, Arrives(c)
  PROVE  arrived' \in 0 .. MaxCommands
  BY AppAssumption DEF TypeOK, Arrives, Command

\* A process that is gone leaves a well-typed state.
LEMMA GoneType ==
  ASSUME TypeOK, ProcessGone, UNCHANGED <<kernel, run, arrived, turns>>,
         crashed' \subseteq 1 .. run
  PROVE  TypeOK'
<1>1. <<>> \in Seq(Command) /\ Len(<<>>) = 0
  BY EmptyFacts
<1>2. 0 \in 0 .. SendRoom /\ 0 <= RecvRoom
  BY AppAssumption
<1>3. queue \in Seq(Command) /\ Len(queue) <= QueueSize /\ queue_exists \in BOOLEAN
      /\ UNCHANGED <<queue, queue_exists, run, arrived, turns>>
  BY DEF TypeOK, kernel
<1>4. QED
  BY <1>1, <1>2, <1>3 DEF TypeOK, ProcessGone

\* Every step of main keeps the types.
LEMMA MainType ==
  ASSUME IInv, MainQueue \/ MainStep \/ Crash
  PROVE  TypeOK'
<1> USE AppAssumption DEF IInv, kernel, flags, fifos, history, Stopping
<1>1. CASE MainQueue
  BY <1>1 DEF TypeOK, MainQueue
<1>2. CASE MainInit
  BY <1>2, EmptyFacts DEF TypeOK, MainInit
<1>3. CASE MainUart
  BY <1>3 DEF TypeOK, MainUart
<1>4. CASE MainTcp
  BY <1>4 DEF TypeOK, MainTcp
<1>5. CASE MainFlags
  BY <1>5 DEF TypeOK, MainFlags
<1>6. CASE MainApp
  BY <1>6 DEF TypeOK, MainApp
<1>7. CASE MainStop
  BY <1>7 DEF TypeOK, MainStop
<1>8. CASE MainStopTcp
  BY <1>8 DEF TypeOK, MainStopTcp
<1>9. CASE MainStopUart
  BY <1>9 DEF TypeOK, MainStopUart
<1>10. CASE MainRemove
  <2>1. <<>> \in Seq(Command) /\ Len(<<>>) = 0 /\ 0 <= QueueSize
    BY EmptyFacts
  <2>2. QED
    BY <1>10, <2>1 DEF TypeOK, MainRemove
<1>11. CASE MainExit
  BY <1>11, GoneType DEF TypeOK, MainExit
<1>12. CASE Crash
  <2>1. crashed' \subseteq 1 .. run
    BY <1>12 DEF Crash, MainInv, TypeOK
  <2>2. QED
    BY <1>12, <2>1, GoneType DEF Crash
<1>13. QED
  BY <1>1, <1>2, <1>3, <1>4, <1>5, <1>6, <1>7, <1>8, <1>9, <1>10, <1>11, <1>12 DEF MainStep

\* Every step of a thread of uart_mod or of the network keeps the types.
LEMMA ThreadType ==
  ASSUME IInv,
         \/ HandStep \/ SendStep \/ TcpSend
         \/ \E c \in Command : ReadFrame(c) \/ TcpPacket(c)
  PROVE  TypeOK'
<1> USE AppAssumption DEF IInv, kernel, flags, fifos, history, Stopping
<1>1. ASSUME NEW c \in Command, ReadFrame(c) PROVE TypeOK'
  <2>1. arrived' \in 0 .. MaxCommands
    BY <1>1, ArrivesType DEF ReadFrame
  <2>2. recv_fifo' \in Seq(Command) /\ Len(recv_fifo') <= RecvRoom
    BY <1>1, AppendFacts DEF TypeOK, ReadFrame
  <2>3. QED
    BY <1>1, <2>1, <2>2 DEF TypeOK, ReadFrame, Arrives
<1>2. ASSUME NEW c \in Command, TcpPacket(c) PROVE TypeOK'
  <2>1. arrived' \in 0 .. MaxCommands
    BY <1>2, ArrivesType DEF TcpPacket
  <2>2. QED
    BY <1>2, <2>1 DEF TypeOK, TcpPacket, Arrives
<1>3. CASE HandRead
  BY <1>3, EmptyFacts DEF TypeOK, HandRead
<1>4. CASE HandSend
  <2>1. Head(batch) \in Command /\ Tail(batch) \in Seq(Command)
    BY <1>4, TailFacts DEF TypeOK, HandSend
  <2>2. queue' \in Seq(Command) /\ Len(queue') <= QueueSize
    BY <1>4, <2>1, AppendFacts DEF TypeOK, HandSend, CanSend, Queued
  <2>3. QED
    BY <1>4, <2>1, <2>2 DEF TypeOK, HandSend
<1>5. CASE SendStep
  BY <1>5 DEF TypeOK, SendStep
<1>6. CASE TcpSend
  <2>1. packet \in Command
    BY <1>6 DEF TypeOK, TcpSend
  <2>2. queue' \in Seq(Command) /\ Len(queue') <= QueueSize
    BY <1>6, <2>1, AppendFacts DEF TypeOK, TcpSend, CanSend, Queued
  <2>3. QED
    BY <1>6, <2>2 DEF TypeOK, TcpSend
<1>7. QED
  BY <1>1, <1>2, <1>3, <1>4, <1>5, <1>6 DEF HandStep

\* Every step of the app thread keeps the types.  Only a stopped program has
\* no queue, so the command that is repeated is one.
LEMMA AppType ==
  ASSUME IInv, AppStep
  PROVE  TypeOK'
<1> USE AppAssumption DEF IInv, kernel, flags, fifos, history
<1>1. CASE AppRecv
  <2>1. Head(queue) \in Command /\ Tail(queue) \in Seq(Command) /\ Len(Tail(queue)) <= QueueSize
    BY <1>1, TailFacts DEF TypeOK, AppRecv
  <2>2. QED
    BY <1>1, <2>1 DEF TypeOK, AppRecv
<1>2. CASE AppRecvFails
  <2>1. msg_queue_ptr \in Command
    BY <1>2 DEF AppRecvFails, MainInv, StopInv, Ended, Stopping
  <2>2. QED
    BY <1>2, <2>1 DEF TypeOK, AppRecvFails
<1>3. CASE AppEnd
  BY <1>3 DEF TypeOK, AppEnd, NextRound
<1>4. CASE AppTcpSend
  BY <1>4 DEF TypeOK, AppTcpSend, NextRound
<1>5. CASE AppUartSend
  <2>1. msg_queue_ptr.size \in Nat
    BY <1>5 DEF TypeOK, AppUartSend, Command
  <2>2. QED
    BY <1>5, <2>1 DEF TypeOK, AppUartSend, NextRound
<1>6. QED
  BY <1>1, <1>2, <1>3, <1>4, <1>5 DEF AppStep

-----------------------------------------------------------------------------
(* Where main is                                                           *)

\* Every step keeps MainInv.
LEMMA MainInvNext ==
  ASSUME IInv, Next
  PROVE  MainInv'
<1> USE DEF IInv, MainInv, Starting, Stopping, kernel, flags, fifos, history
<1>1. CASE MainQueue
  BY <1>1 DEF MainQueue, TypeOK
<1>2. CASE MainStep
  <2>1. CASE MainInit \/ MainUart \/ MainTcp
    BY <2>1 DEF MainInit, MainUart, MainTcp
  <2>2. CASE MainFlags \/ MainApp
    BY <2>2 DEF MainFlags, MainApp
  <2>3. CASE MainStop \/ MainStopTcp \/ MainStopUart
    BY <2>3 DEF MainStop, MainStopTcp, MainStopUart
  <2>4. CASE MainRemove
    BY <2>4 DEF MainRemove
  <2>5. CASE MainExit
    BY <2>5 DEF MainExit, ProcessGone
  <2>6. QED
    BY <1>2, <2>1, <2>2, <2>3, <2>4, <2>5 DEF MainStep
<1>3. CASE Crash
  <2>1. queue_exists
        \/ queue = <<>>
    BY DEF MainInv
  <2>2. QED
    BY <1>3, <2>1 DEF Crash, ProcessGone
<1>4. CASE HandRead
  BY <1>4 DEF HandRead
<1>5. CASE HandSend
  BY <1>5 DEF HandSend, Queued
<1>6. CASE SendStep
  BY <1>6 DEF SendStep
<1>7. CASE TcpSend
  BY <1>7 DEF TcpSend, Queued
<1>8. CASE AppRecv
  BY <1>8 DEF AppRecv
<1>9. CASE AppRecvFails
  BY <1>9 DEF AppRecvFails
<1>10. CASE AppEnd
  BY <1>10 DEF AppEnd, NextRound
<1>11. CASE AppTcpSend
  BY <1>11 DEF AppTcpSend, NextRound
<1>12. CASE AppUartSend
  BY <1>12 DEF AppUartSend, NextRound
<1>13. ASSUME NEW c \in Command, ReadFrame(c) PROVE MainInv'
  BY <1>13 DEF ReadFrame, Arrives
<1>14. ASSUME NEW c \in Command, TcpPacket(c) PROVE MainInv'
  BY <1>14 DEF TcpPacket, Arrives
<1>15. QED
  BY <1>1, <1>2, <1>3, <1>4, <1>5, <1>6, <1>7, <1>8, <1>9, <1>10, <1>11, <1>12, <1>13, <1>14
     DEF Next, HandStep, AppStep

\* A program only ends once the app thread has a command.
LEMMA StopInvNext ==
  ASSUME IInv, Next
  PROVE  StopInv'
<1> USE DEF IInv, MainInv, Starting, Stopping, StopInv, Ended, kernel, flags, fifos, history
<1>1. CASE MainQueue
  BY <1>1 DEF MainQueue
<1>2. CASE MainStep
  <2>1. CASE MainInit \/ MainUart \/ MainTcp
    BY <2>1 DEF MainInit, MainUart, MainTcp
  <2>2. CASE MainFlags \/ MainApp
    BY <2>2 DEF MainFlags, MainApp
  <2>3. CASE MainStop \/ MainStopTcp \/ MainStopUart
    BY <2>3 DEF MainStop, MainStopTcp, MainStopUart
  <2>4. CASE MainRemove
    BY <2>4 DEF MainRemove
  <2>5. CASE MainExit
    BY <2>5 DEF MainExit, ProcessGone
  <2>6. QED
    BY <1>2, <2>1, <2>2, <2>3, <2>4, <2>5 DEF MainStep
<1>3. CASE Crash
  BY <1>3 DEF Crash, ProcessGone
<1>4. CASE HandStep \/ SendStep \/ TcpSend
  BY <1>4 DEF HandStep, HandRead, HandSend, SendStep, TcpSend
<1>5. CASE AppRecv
  BY <1>5, TailFacts DEF AppRecv, TypeOK
<1>6. CASE AppRecvFails
  BY <1>6 DEF AppRecvFails
<1>7. CASE AppEnd
  BY <1>7 DEF AppEnd, TypeOK
<1>8. CASE AppTcpSend \/ AppUartSend
  BY <1>8 DEF AppTcpSend, AppUartSend, TypeOK
<1>9. ASSUME NEW c \in Command, ReadFrame(c) \/ TcpPacket(c) PROVE StopInv'
  BY <1>9 DEF ReadFrame, TcpPacket, Arrives
<1>10. QED
  BY <1>1, <1>2, <1>3, <1>4, <1>5, <1>6, <1>7, <1>8, <1>9 DEF Next, AppStep

-----------------------------------------------------------------------------
(* The run of a command                                                    *)

\* A command that enters the queue is of this run.
LEMMA QueuedRun ==
  ASSUME TypeOK, StaleOnlyAfterCrash, UNCHANGED <<run, crashed>>,
         NEW c \in Command, c.run = run, queue' = Queued(c)
  PROVE  StaleOnlyAfterCrash'
  BY AppendFacts DEF TypeOK, StaleOnlyAfterCrash, Queued

\* Every step keeps RunInv: main gives way to the next run only after the
\* queue is removed or the run is counted among the dead.
LEMMA RunInvNext ==
  ASSUME IInv, Next
  PROVE  RunInv'
<1> USE DEF IInv, RunInv, StaleOnlyAfterCrash, kernel, flags, fifos, history
<1>1. CASE MainQueue
  BY <1>1, EmptyFacts DEF MainQueue, MainInv
<1>2. CASE MainStep
  <2>1. CASE MainInit
    BY <2>1, EmptyFacts DEF MainInit
  <2>2. CASE MainUart \/ MainTcp \/ MainFlags \/ MainApp
    BY <2>2 DEF MainUart, MainTcp, MainFlags, MainApp
  <2>3. CASE MainStop \/ MainStopTcp \/ MainStopUart
    BY <2>3 DEF MainStop, MainStopTcp, MainStopUart
  <2>4. CASE MainRemove
    BY <2>4, EmptyFacts DEF MainRemove
  <2>5. CASE MainExit
    BY <2>5, EmptyFacts DEF MainExit, ProcessGone, MainInv
  <2>6. QED
    BY <1>2, <2>1, <2>2, <2>3, <2>4, <2>5 DEF MainStep
<1>3. CASE Crash
  BY <1>3, EmptyFacts DEF Crash, ProcessGone
<1>4. CASE HandRead
  BY <1>4, EmptyFacts DEF HandRead
<1>5. CASE HandSend
  <2>1. Head(batch) \in Command /\ Head(batch).run = run
    BY <1>5, TailFacts DEF HandSend, TypeOK
  <2>2. StaleOnlyAfterCrash'
    BY <1>5, <2>1, QueuedRun DEF HandSend
  <2>3. \A i \in 1 .. Len(batch') : batch'[i].run = run
    BY <1>5, TailFacts DEF HandSend, TypeOK
  <2>4. main # "off"
    BY <1>5 DEF HandSend, MainInv
  <2>5. QED
    BY <1>5, <2>2, <2>3, <2>4 DEF HandSend
<1>6. CASE SendStep
  BY <1>6 DEF SendStep
<1>7. CASE TcpSend
  <2>1. packet \in Command /\ packet.run = run
    BY <1>7 DEF TcpSend, TypeOK
  <2>2. StaleOnlyAfterCrash'
    BY <1>7, <2>1, QueuedRun DEF TcpSend
  <2>3. main # "off"
    BY <1>7 DEF TcpSend, MainInv
  <2>4. QED
    BY <1>7, <2>2, <2>3 DEF TcpSend
<1>8. CASE AppRecv
  BY <1>8, TailFacts DEF AppRecv, TypeOK
<1>9. CASE AppRecvFails \/ AppEnd \/ AppTcpSend \/ AppUartSend
  BY <1>9 DEF AppRecvFails, AppEnd, AppTcpSend, AppUartSend
<1>10. ASSUME NEW c \in Command, ReadFrame(c) PROVE RunInv'
  <2>1. \A i \in 1 .. Len(recv_fifo') : recv_fifo'[i].run = run
    BY <1>10, AppendFacts DEF ReadFrame, Arrives, TypeOK
  <2>2. QED
    BY <1>10, <2>1 DEF ReadFrame, Arrives
<1>11. ASSUME NEW c \in Command, TcpPacket(c) PROVE RunInv'
  BY <1>11 DEF TcpPacket, Arrives
<1>12. QED
  BY <1>1, <1>2, <1>3, <1>4, <1>5, <1>6, <1>7, <1>8, <1>9, <1>10, <1>11
     DEF Next, HandStep, AppStep

-----------------------------------------------------------------------------
(* The invariant                                                           *)

\* A stuttering step keeps everything.
LEMMA InvStutter ==
  ASSUME IInv, UNCHANGED vars
  PROVE  IInv'
  BY DEF IInv, TypeOK, Stopping, MainInv, Starting, StopInv, Ended, RunInv,
         StaleOnlyAfterCrash, vars, kernel, flags, fifos, history

\* A step keeps all of it.
LEMMA InvNext == IInv /\ [Next]_vars => IInv'
<1> SUFFICES ASSUME IInv, Next PROVE IInv'
  BY InvStutter
<1>1. TypeOK'
  BY MainType, ThreadType, AppType DEF Next
<1>2. QED
  BY <1>1, MainInvNext, StopInvNext, RunInvNext DEF IInv

\* The inductive invariant of App.
THEOREM Invariant == Spec => []IInv
<1>1. QED
  BY InvInit, InvNext, PTL DEF Spec

\* The fifos and the queue never hold more than fits, and what the app
\* thread carries out was once received, for every size of them.
THEOREM TypeCorrect == Spec => []TypeOK
<1>1. IInv => TypeOK
  BY DEF IInv
<1>2. QED
  BY <1>1, Invariant, PTL

\* What is in the queue comes from this run or from one that died.
THEOREM StaleCommands == Spec => []StaleOnlyAfterCrash
<1>1. IInv => StaleOnlyAfterCrash
  BY DEF IInv, RunInv
<1>2. QED
  BY <1>1, Invariant, PTL

-----------------------------------------------------------------------------
(* The order of the commands                                               *)

Ordered(seq) ==
  \A i, j \in 1 .. Len(seq) : i < j /\ seq[i].src = seq[j].src => seq[i].id < seq[j].id
Precedes(s, t) ==
  \A i \in 1 .. Len(s), j \in 1 .. Len(t) : s[i].src = t[j].src => s[i].id < t[j].id
AllFrom(seq, src) == \A i \in 1 .. Len(seq) : seq[i].src = src
UpTo(seq, n) == \A i \in 1 .. Len(seq) : seq[i].id <= n

\* What has come further is older.  One source each feeds batch and packet.
OrderInv ==
  /\ Ordered(queue) /\ Ordered(batch) /\ Ordered(recv_fifo)
  /\ Precedes(queue, batch) /\ Precedes(queue, recv_fifo) /\ Precedes(batch, recv_fifo)
  /\ AllFrom(batch, "uart") /\ AllFrom(recv_fifo, "uart")
  /\ UpTo(queue, arrived) /\ UpTo(batch, arrived) /\ UpTo(recv_fifo, arrived)
  /\ packet # NoCommand =>
       /\ packet.src = "tcp" /\ packet.id <= arrived
       /\ \A i \in 1 .. Len(queue) : queue[i].src = "tcp" => queue[i].id < packet.id

\* A newer element may be appended.
LEMMA OrderedAppend ==
  ASSUME NEW s \in Seq(Command), NEW c \in Command, Ordered(s),
         \A i \in 1 .. Len(s) : s[i].src = c.src => s[i].id < c.id
  PROVE  Ordered(Append(s, c))
  BY AppendFacts DEF Ordered

\* So it is when the sequence is of one source or the other.
LEMMA PrecedesAppend ==
  ASSUME NEW s \in Seq(Command), NEW t \in Seq(Command), NEW c \in Command, Precedes(s, t),
         \A i \in 1 .. Len(s) : s[i].src = c.src => s[i].id < c.id
  PROVE  Precedes(s, Append(t, c))
  BY AppendFacts DEF Precedes

\* An element that precedes a sequence may be appended to what precedes it.
LEMMA AppendPrecedes ==
  ASSUME NEW s \in Seq(Command), NEW t \in Seq(Command), NEW c \in Command, Precedes(s, t),
         \A i \in 1 .. Len(t) : t[i].src = c.src => c.id < t[i].id
  PROVE  Precedes(Append(s, c), t)
  BY AppendFacts DEF Precedes

\* A sequence keeps its order when its head is taken.
LEMMA TailOrder ==
  ASSUME NEW s \in Seq(Command), s # <<>>, Ordered(s)
  PROVE  /\ Ordered(Tail(s))
         /\ \A i \in 1 .. Len(Tail(s)) : Tail(s)[i].src = Head(s).src => Head(s).id < Tail(s)[i].id
  BY TailFacts DEF Ordered

\* What arrives next is newer than everything in a sequence.
LEMMA NextIsNewer ==
  ASSUME NEW s \in Seq(Command), NEW n \in Nat, UpTo(s, n)
  PROVE  UpTo(s, n + 1) /\ \A i \in 1 .. Len(s) : s[i].id < n + 1
<1>1. \A i \in 1 .. Len(s) : s[i].id \in Nat
  <2>1. \A c \in Command : c.id \in Nat
    BY DEF Command
  <2>2. QED
    BY <2>1
<1>2. QED
  BY <1>1 DEF UpTo

\* The head of a batch moves to the end of the queue.
LEMMA MoveOrder ==
  ASSUME TypeOK, OrderInv, batch # <<>>
  PROVE  LET q == Append(queue, Head(batch)) IN
         /\ Ordered(q) /\ Precedes(q, Tail(batch)) /\ Precedes(q, recv_fifo)
         /\ Precedes(Tail(batch), recv_fifo) /\ Precedes(queue, Tail(batch))
         /\ Ordered(Tail(batch)) /\ AllFrom(Tail(batch), "uart")
         /\ UpTo(q, arrived) /\ UpTo(Tail(batch), arrived)
<1> DEFINE h == Head(batch)
           t == Tail(batch)
<1> USE DEF TypeOK, OrderInv
<1>1. /\ h \in Command /\ h = batch[1] /\ t \in Seq(Command) /\ 1 \in 1 .. Len(batch)
      /\ Len(t) = Len(batch) - 1
      /\ \A i \in 1 .. Len(t) : t[i] = batch[i + 1] /\ i + 1 \in 1 .. Len(batch)
  BY TailFacts
<1>2. \A i \in 1 .. Len(queue) : queue[i].src = h.src => queue[i].id < h.id
  BY <1>1 DEF Precedes
<1>3. \A i \in 1 .. Len(recv_fifo) : recv_fifo[i].src = h.src => h.id < recv_fifo[i].id
  BY <1>1 DEF Precedes
<1>4. /\ Ordered(t)
      /\ \A i \in 1 .. Len(t) : t[i].src = h.src => h.id < t[i].id
  BY TailOrder
<1>5. Precedes(queue, t) /\ Precedes(t, recv_fifo)
  BY <1>1 DEF Precedes
<1>6. AllFrom(t, "uart") /\ UpTo(t, arrived) /\ h.id <= arrived
  BY <1>1 DEF AllFrom, UpTo
<1> HIDE DEF h, t
<1>7. Ordered(Append(queue, h))
  BY <1>1, <1>2, OrderedAppend
<1>8. Precedes(Append(queue, h), t) /\ Precedes(Append(queue, h), recv_fifo)
  BY <1>1, <1>3, <1>4, <1>5, AppendPrecedes
<1>9. UpTo(Append(queue, h), arrived)
  BY <1>1, <1>6, AppendFacts DEF UpTo
<1>10. QED
  BY <1>4, <1>5, <1>6, <1>7, <1>8, <1>9 DEF h, t

\* Every step keeps the order.
LEMMA OrderNext ==
  ASSUME IInv, OrderInv, Next
  PROVE  OrderInv'
<1> USE DEF IInv, kernel, flags, fifos, history
<1>1. CASE UNCHANGED <<queue, batch, recv_fifo, packet, arrived>>
  BY <1>1 DEF OrderInv, Ordered, Precedes, AllFrom, UpTo
<1>2. CASE UNCHANGED <<arrived>> /\ packet' = NoCommand /\ batch' = <<>> /\ recv_fifo' = <<>>
           /\ queue' \in {queue, <<>>}
  BY <1>2, EmptyFacts DEF OrderInv, Ordered, Precedes, AllFrom, UpTo
<1>3. CASE MainQueue
  BY <1>1, <1>3 DEF MainQueue
<1>4. CASE MainStep
  <2>1. CASE MainInit
    <3>1. recv_fifo' = recv_fifo
      BY <2>1 DEF MainInit, MainInv
    <3>2. QED
      BY <1>1, <2>1, <3>1 DEF MainInit
  <2>2. CASE MainUart \/ MainTcp \/ MainFlags \/ MainApp
    BY <1>1, <2>2 DEF MainUart, MainTcp, MainFlags, MainApp
  <2>3. CASE MainStop \/ MainStopTcp \/ MainStopUart
    BY <1>1, <2>3 DEF MainStop, MainStopTcp, MainStopUart
  <2>4. CASE MainRemove
    BY <2>4, EmptyFacts DEF MainRemove, OrderInv, Ordered, Precedes, AllFrom, UpTo
  <2>5. CASE MainExit
    BY <1>2, <2>5 DEF MainExit, ProcessGone
  <2>6. QED
    BY <1>4, <2>1, <2>2, <2>3, <2>4, <2>5 DEF MainStep
<1>5. CASE Crash
  BY <1>2, <1>5 DEF Crash, ProcessGone
<1>6. CASE HandRead
  BY <1>6, EmptyFacts DEF HandRead, OrderInv, Ordered, Precedes, AllFrom, UpTo
<1>7. CASE HandSend
  <2>1. CASE queue_exists
    <3>1. queue' = Append(queue, Head(batch)) /\ batch' = Tail(batch)
          /\ UNCHANGED <<recv_fifo, packet, arrived>> /\ batch # <<>>
      BY <1>7, <2>1 DEF HandSend, Queued
    <3>2. packet # NoCommand => \A i \in 1 .. Len(queue') :
                                 queue'[i].src = "tcp" => queue'[i].id < packet.id
      <4>1. Head(batch) \in Command /\ Head(batch).src = "uart"
        BY <3>1, TailFacts DEF TypeOK, OrderInv, AllFrom
      <4>2. QED
        BY <3>1, <4>1, AppendFacts DEF TypeOK, OrderInv
    <3>3. QED
      BY <3>1, <3>2, MoveOrder DEF OrderInv
  <2>2. CASE ~queue_exists
    <3>1. queue' = queue /\ batch' = Tail(batch)
          /\ UNCHANGED <<recv_fifo, packet, arrived>> /\ batch # <<>>
      BY <1>7, <2>2 DEF HandSend, Queued
    <3>2. QED
      BY <3>1, MoveOrder DEF OrderInv
  <2>3. QED
    BY <2>1, <2>2
<1>8. CASE SendStep
  BY <1>1, <1>8 DEF SendStep
<1>9. CASE TcpSend
  <2>1. packet \in Command /\ packet # NoCommand /\ packet.src = "tcp" /\ packet.id <= arrived
    BY <1>9 DEF TcpSend, TypeOK, OrderInv
  <2>2. CASE queue_exists
    <3>1. queue' = Append(queue, packet) /\ packet' = NoCommand
          /\ UNCHANGED <<batch, recv_fifo, arrived>>
      BY <1>9, <2>2 DEF TcpSend, Queued
    <3>2. Ordered(queue')
      BY <2>1, <3>1, OrderedAppend DEF TypeOK, OrderInv
    <3>3. Precedes(queue', batch) /\ Precedes(queue', recv_fifo)
      BY <2>1, <3>1, AppendPrecedes DEF TypeOK, OrderInv, AllFrom
    <3>4. UpTo(queue', arrived)
      BY <2>1, <3>1, AppendFacts DEF TypeOK, OrderInv, UpTo
    <3>5. QED
      BY <3>1, <3>2, <3>3, <3>4 DEF OrderInv
  <2>3. CASE ~queue_exists
    BY <1>9, <2>3 DEF TcpSend, Queued, OrderInv
  <2>4. QED
    BY <2>2, <2>3
<1>10. CASE AppRecv
  <2>1. queue # <<>> /\ queue' = Tail(queue) /\ UNCHANGED <<batch, recv_fifo, packet, arrived>>
    BY <1>10 DEF AppRecv
  <2>2. Ordered(queue')
    BY <2>1, TailOrder DEF TypeOK, OrderInv
  <2>3. QED
    BY <2>1, <2>2, TailFacts DEF TypeOK, OrderInv, Precedes, UpTo
<1>11. CASE AppRecvFails \/ AppEnd \/ AppTcpSend \/ AppUartSend
  BY <1>1, <1>11 DEF AppRecvFails, AppEnd, AppTcpSend, AppUartSend
<1>12. ASSUME NEW c \in Command, ReadFrame(c) PROVE OrderInv'
  <2>1. /\ arrived' = arrived + 1 /\ c.id = arrived + 1 /\ c.src = "uart"
        /\ recv_fifo' \in {recv_fifo, Append(recv_fifo, c)}
        /\ UNCHANGED <<queue, batch, packet>> /\ arrived \in Nat
    BY <1>12 DEF ReadFrame, Arrives, TypeOK
  <2>2. UpTo(queue, arrived') /\ UpTo(batch, arrived') /\ UpTo(recv_fifo, arrived')
    BY <2>1, NextIsNewer DEF TypeOK, OrderInv
  <2>3. \A s \in {queue, batch, recv_fifo} : \A i \in 1 .. Len(s) : s[i].id < c.id
    BY <2>1, NextIsNewer DEF TypeOK, OrderInv
  <2>4. Ordered(recv_fifo')
    BY <2>1, <2>3, OrderedAppend DEF TypeOK, OrderInv
  <2>5. Precedes(queue, recv_fifo') /\ Precedes(batch, recv_fifo')
    BY <2>1, <2>3, PrecedesAppend DEF TypeOK, OrderInv
  <2>6. AllFrom(recv_fifo', "uart") /\ UpTo(recv_fifo', arrived')
    <3>1. c.id <= arrived'
      BY <2>1
    <3>2. CASE recv_fifo' = recv_fifo
      BY <2>2, <3>2 DEF OrderInv
    <3>3. CASE recv_fifo' = Append(recv_fifo, c)
      BY <2>1, <2>2, <3>1, <3>3, AppendFacts DEF TypeOK, OrderInv, AllFrom, UpTo
    <3>4. QED
      BY <2>1, <3>2, <3>3
  <2>7. packet # NoCommand => packet.id <= arrived'
    BY <2>1 DEF TypeOK, OrderInv, Command
  <2>8. QED
    BY <2>1, <2>2, <2>4, <2>5, <2>6, <2>7 DEF OrderInv
<1>13. ASSUME NEW c \in Command, TcpPacket(c) PROVE OrderInv'
  <2>1. /\ arrived' = arrived + 1 /\ c.id = arrived + 1 /\ c.src = "tcp" /\ packet' = c
        /\ UNCHANGED <<queue, batch, recv_fifo>> /\ arrived \in Nat
    BY <1>13 DEF TcpPacket, Arrives, TypeOK
  <2>2. UpTo(queue, arrived') /\ UpTo(batch, arrived') /\ UpTo(recv_fifo, arrived')
    BY <2>1, NextIsNewer DEF TypeOK, OrderInv
  <2>3. \A i \in 1 .. Len(queue) : queue[i].id < c.id
    BY <2>1, NextIsNewer DEF TypeOK, OrderInv
  <2>4. QED
    BY <2>1, <2>2, <2>3 DEF OrderInv
<1>14. QED
  BY <1>3, <1>4, <1>5, <1>6, <1>7, <1>8, <1>9, <1>10, <1>11, <1>12, <1>13
     DEF Next, HandStep, AppStep

-----------------------------------------------------------------------------
(* The refinement of Relay                                                 *)

\* The empty sequence has no elements, and a sequence of commands has commands.
LEMMA ElementsFacts ==
  /\ Elements(<<>>) = {}
  /\ \A s \in Seq(Command) : Elements(s) \subseteq Command
  BY DEF Elements

\* Append adds one element.
LEMMA ElementsAppend ==
  ASSUME NEW s \in Seq(Command), NEW c \in Command
  PROVE  Elements(Append(s, c)) = Elements(s) \cup {c}
<1>1. Elements(Append(s, c)) \subseteq Elements(s) \cup {c}
  BY AppendFacts DEF Elements
<1>2. Elements(s) \subseteq Elements(Append(s, c))
  BY AppendFacts DEF Elements
<1>3. c \in Elements(Append(s, c))
  BY AppendFacts DEF Elements
<1>4. QED
  BY <1>1, <1>2, <1>3

\* A sequence is its head and its tail.
LEMMA ElementsTail ==
  ASSUME NEW s \in Seq(Command), s # <<>>
  PROVE  Elements(s) = Elements(Tail(s)) \cup {Head(s)}
<1>1. Elements(Tail(s)) \subseteq Elements(s)
  BY TailFacts DEF Elements
<1>2. Head(s) \in Elements(s)
  BY TailFacts DEF Elements
<1>3. ASSUME NEW i \in 1 .. Len(s) PROVE s[i] \in Elements(Tail(s)) \cup {Head(s)}
  <2>1. CASE i = 1
    BY <2>1, TailFacts
  <2>2. CASE i # 1
    <3>1. i - 1 \in 1 .. Len(Tail(s)) /\ Tail(s)[i - 1] = s[i]
      BY <2>2, TailFacts
    <3>2. QED
      BY <3>1 DEF Elements
  <2>3. QED
    BY <2>1, <2>2
<1>4. QED
  BY <1>1, <1>2, <1>3 DEF Elements

\* Without a step of the threads or the queue Relay does not move.
LEMMA Stutters ==
  ASSUME UNCHANGED <<queue_exists, queue, batch, recv_fifo, packet, arrived, turns, msg_queue_ptr>>,
         Ended' = Ended
  PROVE  UNCHANGED Commands!vars
  BY DEF Pending, Elements, Commands!vars

\* The steps of main, and the death of the process.
LEMMA RefinesMain ==
  ASSUME IInv, OrderInv, MainQueue \/ MainStep \/ Crash
  PROVE  [Commands!Next]_(Commands!vars)
<1> USE DEF IInv, MainInv, Starting, Stopping, kernel, flags, fifos, history
<1>1. CASE MainQueue
  <2>1. Pending' = Pending
    BY <1>1, ElementsFacts DEF MainQueue, Pending
  <2>2. Ended' = Ended
    BY <1>1 DEF MainQueue, Ended
  <2>3. QED
    BY <1>1, <2>1, <2>2 DEF MainQueue, Commands!vars
<1>2. CASE MainInit
  <2>1. recv_fifo' = recv_fifo /\ Ended' = Ended
    BY <1>2 DEF MainInit, Ended
  <2>2. QED
    BY <1>2, <2>1, Stutters DEF MainInit
<1>3. CASE MainUart \/ MainTcp \/ MainFlags
  <2>1. Ended' = Ended
    BY <1>3 DEF MainUart, MainTcp, MainFlags, Ended
  <2>2. QED
    BY <1>3, <2>1, Stutters DEF MainUart, MainTcp, MainFlags
<1>4. CASE MainApp
  <2>1. Ended' = Ended
    BY <1>4 DEF MainApp, Ended
  <2>2. QED
    BY <1>4, <2>1, Stutters DEF MainApp
<1>5. CASE MainStop \/ MainStopTcp \/ MainStopUart
  <2>1. Ended' = Ended
    BY <1>5 DEF MainStop, MainStopTcp, MainStopUart, Ended
  <2>2. QED
    BY <1>5, <2>1, Stutters DEF MainStop, MainStopTcp, MainStopUart
<1>6. CASE MainRemove
  <2>1. Ended /\ Ended' = Ended /\ Pending' = {}
    BY <1>6 DEF MainRemove, Ended, Pending
  <2>2. Commands!Shutdown
    BY <1>6, <2>1 DEF MainRemove, Commands!Shutdown
  <2>3. QED
    BY <2>2 DEF Commands!Next
<1>7. CASE MainExit
  <2>1. Pending' = {} /\ Ended' = FALSE
    BY <1>7 DEF MainExit, ProcessGone, Ended, Pending
  <2>2. Commands!Crash
    BY <1>7, <2>1 DEF MainExit, Commands!Crash
  <2>3. QED
    BY <2>2 DEF Commands!Next
<1>8. CASE Crash
  <2>1. ~Ended'
    BY <1>8 DEF Crash, ProcessGone, Ended
  <2>2. Pending' = IF queue_exists THEN Elements(queue) \ {NoCommand} ELSE {}
    <3>1. batch' = <<>> /\ recv_fifo' = <<>> /\ packet' = NoCommand
          /\ UNCHANGED <<queue, queue_exists>>
      BY <1>8 DEF Crash, ProcessGone
    <3>2. QED
      BY <3>1, ElementsFacts DEF Pending
  <2>3. Pending' \in SUBSET Pending
    BY <2>2 DEF Pending
  <2>4. ASSUME NEW c \in Pending', NEW x \in Pending, Commands!Before(x, c)
        PROVE  x \in Pending'
    <3>1. queue_exists /\ c \in Elements(queue) /\ x # NoCommand
      BY <2>2, <2>4 DEF Pending
    <3>2. PICK i \in 1 .. Len(queue) : c = queue[i]
      BY <3>1 DEF Elements
    <3>3. c.id \in Nat /\ x.id \in Nat
      <4>1. c \in Command /\ x \in Command
        BY <3>1, ElementsFacts DEF TypeOK, Pending
      <4>2. QED
        BY <4>1 DEF Command
    <3>4. x \notin Elements(batch) \cup Elements(recv_fifo) \cup {packet}
      <4>1. x.src = queue[i].src /\ ~(queue[i].id < x.id)
        BY <2>4, <3>2, <3>3 DEF Commands!Before
      <4>2. x \notin Elements(batch)
        BY <4>1 DEF OrderInv, Precedes, Elements
      <4>3. x \notin Elements(recv_fifo)
        BY <4>1 DEF OrderInv, Precedes, Elements
      <4>4. x # packet
        BY <3>1, <4>1 DEF OrderInv
      <4>5. QED
        BY <4>2, <4>3, <4>4
    <3>5. QED
      BY <2>2, <3>1, <3>4 DEF Pending
  <2>5. Commands!Crash
    BY <1>8, <2>1, <2>3, <2>4 DEF Crash, Commands!Crash
  <2>6. QED
    BY <2>5 DEF Commands!Next
<1>9. QED
  BY <1>1, <1>2, <1>3, <1>4, <1>5, <1>6, <1>7, <1>8 DEF MainStep

\* The steps of uart_mod's threads and of the network's.
LEMMA RefinesThreads ==
  ASSUME IInv, OrderInv,
         \/ HandStep \/ SendStep \/ TcpSend
         \/ \E c \in Command : ReadFrame(c) \/ TcpPacket(c)
  PROVE  [Commands!Next]_(Commands!vars)
<1> USE DEF IInv, kernel, flags, fifos, history
<1>1. CASE HandRead
  <2>1. Pending' = Pending
    <3>1. batch = <<>> /\ batch' = recv_fifo /\ recv_fifo' = <<>>
          /\ UNCHANGED <<queue, queue_exists, packet>>
      BY <1>1 DEF HandRead
    <3>2. QED
      BY <3>1, ElementsFacts DEF Pending
  <2>2. QED
    BY <1>1, <2>1 DEF HandRead, Ended, Commands!vars
<1>2. CASE HandSend
  <2>1. batch # <<>> /\ batch' = Tail(batch) /\ queue' = Queued(Head(batch))
        /\ UNCHANGED <<queue_exists, recv_fifo, packet>>
    BY <1>2 DEF HandSend
  <2>2. Elements(batch) = Elements(batch') \cup {Head(batch)} /\ Head(batch) \in Command
    BY <2>1, ElementsTail, TailFacts DEF TypeOK
  <2>3. queue_exists => Elements(queue') = Elements(queue) \cup {Head(batch)}
    BY <2>1, <2>2, ElementsAppend DEF TypeOK, Queued
  <2>4. Pending' = Pending
    BY <2>1, <2>2, <2>3 DEF Pending
  <2>5. QED
    BY <1>2, <2>4 DEF HandSend, Ended, Commands!vars
<1>3. CASE SendStep
  <2>1. Ended' = Ended
    BY <1>3 DEF SendStep, Ended
  <2>2. QED
    BY <1>3, <2>1, Stutters DEF SendStep
<1>4. CASE TcpSend
  <2>1. packet \in Command /\ packet' = NoCommand /\ queue' = Queued(packet)
        /\ UNCHANGED <<queue_exists, recv_fifo, batch>>
    BY <1>4 DEF TcpSend, TypeOK
  <2>2. queue_exists => Elements(queue') = Elements(queue) \cup {packet}
    BY <2>1, ElementsAppend DEF TypeOK, Queued
  <2>3. Pending' = Pending
    BY <2>1, <2>2, NoCommandIsNone DEF Pending
  <2>4. QED
    BY <1>4, <2>3 DEF TcpSend, Ended, Commands!vars
<1>5. ASSUME NEW c \in Command, ReadFrame(c)
      PROVE  Commands!Next
  <2>1. recv_fifo' \in {recv_fifo, Append(recv_fifo, c)}
        /\ UNCHANGED <<queue_exists, queue, batch, packet>>
    BY <1>5 DEF ReadFrame
  <2>2. Elements(recv_fifo') \in {Elements(recv_fifo), Elements(recv_fifo) \cup {c}}
    BY <2>1, ElementsAppend DEF TypeOK
  <2>3. Pending' \in {Pending, Pending \cup {c}}
    BY <2>1, <2>2, NoCommandIsNone DEF Pending
  <2>4. Commands!Arrive(c)
    BY <1>5, <2>3 DEF ReadFrame, Arrives, Ended, TypeOK, Commands!Arrive
  <2>5. QED
    BY <2>4 DEF Commands!Next
<1>6. ASSUME NEW c \in Command, TcpPacket(c)
      PROVE  Commands!Next
  <2>1. packet = NoCommand /\ packet' = c /\ UNCHANGED <<queue_exists, queue, batch, recv_fifo>>
    BY <1>6 DEF TcpPacket
  <2>2. Pending' \in {Pending, Pending \cup {c}}
    BY <2>1, NoCommandIsNone DEF Pending
  <2>3. Commands!Arrive(c)
    BY <1>6, <2>2 DEF TcpPacket, Arrives, Ended, TypeOK, Commands!Arrive
  <2>4. QED
    BY <2>3 DEF Commands!Next
<1>7. QED
  BY <1>1, <1>2, <1>3, <1>4, <1>5, <1>6 DEF HandStep

\* The steps of the app thread.  The head of the queue is the oldest of its
\* source and is nowhere else.
LEMMA RefinesApp ==
  ASSUME IInv, OrderInv, AppStep
  PROVE  [Commands!Next]_(Commands!vars)
<1> USE DEF IInv, MainInv, Starting, Stopping, kernel, flags, fifos, history
<1>1. CASE AppRecv
  <2> DEFINE h == Head(queue)
  <2>1. /\ queue # <<>> /\ queue_exists /\ queue' = Tail(queue) /\ msg_queue_ptr' = h
        /\ UNCHANGED <<queue_exists, batch, recv_fifo, packet, main, main_run_flag, arrived>>
        /\ app = "recv" /\ app' = "process" /\ turns' = turns + 1
    BY <1>1 DEF AppRecv
  <2>2. /\ h \in Command /\ h = queue[1] /\ 1 \in 1 .. Len(queue)
        /\ Elements(queue) = Elements(queue') \cup {h}
    BY <2>1, TailFacts, ElementsTail DEF TypeOK
  <2>3. h # NoCommand
    BY <2>2, NoCommandIsNone
  <2>4. \A x \in Command : x.id \in Nat
    BY DEF Command
  <2>5. \A x \in Elements(queue') : x.src = h.src => h.id < x.id
    BY <2>1, TailOrder DEF TypeOK, OrderInv, Elements
  <2>6. \A x \in Elements(batch) \cup Elements(recv_fifo) : x.src = h.src => h.id < x.id
    BY <2>2 DEF OrderInv, Precedes, Elements
  <2>7. packet # NoCommand => (packet.src = h.src => h.id < packet.id)
    BY <2>2 DEF OrderInv
  <2>8. \A x \in (Elements(queue') \cup Elements(batch) \cup Elements(recv_fifo) \cup {packet})
                     \ {NoCommand} :
          (x.src = h.src => h.id < x.id) /\ x # h
    BY <2>2, <2>4, <2>5, <2>6, <2>7
  <2>9. /\ Pending = Pending' \cup {h} /\ h \notin Pending'
        /\ \A x \in Pending' : x.src = h.src => h.id < x.id
    BY <2>1, <2>2, <2>3, <2>8 DEF Pending
  <2>10. \A x \in Pending : ~Commands!Before(x, h)
    <3>1. Pending \subseteq Command
      BY ElementsFacts DEF Pending, TypeOK
    <3>2. QED
      BY <2>2, <2>4, <2>9, <3>1 DEF Commands!Before
  <2>11. Ended' = (Ended \/ h.cmd = "end")
    BY <2>1 DEF Ended
  <2>12. Commands!Handle(h)
    BY <2>1, <2>9, <2>10, <2>11 DEF Commands!Handle
  <2>13. QED
    BY <2>2, <2>12 DEF Commands!Next
<1>2. CASE AppRecvFails
  <2>1. Ended /\ Ended' = Ended
    BY <1>2 DEF AppRecvFails, Ended
  <2>2. Pending' = Pending
    BY <1>2 DEF AppRecvFails, Pending, Elements
  <2>3. Commands!Repeat
    BY <1>2, <2>1, <2>2 DEF AppRecvFails, Commands!Repeat
  <2>4. QED
    BY <2>3 DEF Commands!Next
<1>3. CASE AppEnd
  <2>1. main \in {"loop"} \cup Stopping
    BY <1>3 DEF AppEnd, TypeOK
  <2>2. Ended' = Ended
    BY <1>3, <2>1 DEF AppEnd, Ended
  <2>3. QED
    BY <1>3, <2>2, Stutters DEF AppEnd
<1>4. CASE AppTcpSend
  <2>1. Ended' = Ended
    BY <1>4 DEF AppTcpSend, ToNetwork, NextRound, Ended
  <2>2. QED
    BY <1>4, <2>1, Stutters DEF AppTcpSend
<1>5. CASE AppUartSend
  <2>1. Ended' = Ended
    BY <1>5 DEF AppUartSend, ToLine, NextRound, Ended
  <2>2. QED
    BY <1>5, <2>1, Stutters DEF AppUartSend
<1>6. QED
  BY <1>1, <1>2, <1>3, <1>4, <1>5 DEF AppStep

\* The initial state maps to one of Relay.
LEMMA RefinesInit == Init => Commands!Init
  BY ElementsFacts DEF Init, Pending, Ended, Stopping, Commands!Init

\* Every step maps to one of Relay.
LEMMA RefinesNext ==
  ASSUME IInv, OrderInv, [Next]_vars
  PROVE  [Commands!Next]_(Commands!vars)
<1>1. CASE UNCHANGED vars
  BY <1>1 DEF vars, kernel, flags, fifos, history, Pending, Elements, Ended, Stopping, Commands!vars
<1>2. QED
  BY <1>1, RefinesMain, RefinesThreads, RefinesApp DEF Next

\* The order holds from the start.
LEMMA OrderInit == Init => OrderInv
  BY EmptyFacts DEF Init, OrderInv, Ordered, Precedes, AllFrom, UpTo

\* A step or none keeps the order.
LEMMA OrderStep ==
  ASSUME IInv, OrderInv, [Next]_vars
  PROVE  OrderInv'
<1>1. CASE UNCHANGED vars
  BY <1>1 DEF vars, kernel, flags, fifos, history, OrderInv, Ordered, Precedes, AllFrom, UpTo
<1>2. QED
  BY <1>1, OrderNext

\* The threads, the queue and its survival relay commands as Relay says,
\* across crashes and restarts and whatever the sizes.
THEOREM Implements == Spec => RelaysCommands
<1>1. QED
  BY RefinesInit, RefinesNext, OrderInit, OrderStep, InvInit, InvNext, PTL
     DEF Spec, RelaysCommands, Commands!Spec

=============================================================================
