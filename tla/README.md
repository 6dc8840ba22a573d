# Verification of tcp_multi_client

The program joins a serial line to TCP.  One executable (`src/main.c`) runs on
a single-core ARM board (`src/common.h`, `src/Makefile`: `arm-linux-gnueabihf-gcc`,
no optimisation) and is either a TCP client or a TCP server, by its first
argument.  Frames from the serial line are passed through to the network and
back.  Nearly everything happens in detached POSIX threads that share plain
structs: the structs have mutexes, and no line of the program locks one.

This directory holds TLA+ modules of that program, TLC configurations that
check them on small instances, and proofs checked by TLAPS.

    tlc -workers 2 -config fifo_spsc.cfg MCFifo      # a run: module and .cfg as in PROJECT.json
    tlapm FifoProofs.tla                             # the proofs of a module

## The system

| component | state | operations and threads | what is hard | what makes it correct |
|---|---|---|---|---|
| `fifo` | ring buffer, `rd_place`, `wr_place` | `fifo_write`, `fifo_read`, the two counts | lock-free, counts go stale between two statements | it is a byte channel: chunks whole or not at all, bytes once and in order |
| `tcp_server_mod` | table `client_info`, `client_conectnum`, `fd_group`, `read_fd_group`, receive fifo | threads listen, recv, recv_handle, check_alive | four threads, one table, no lock; descriptor numbers are reused | the arrays are never overrun; the table agrees with the open connections; silent clients are dropped |
| `tcp_client_mod` | `tcp_socketfd`, login status, `send_log_num`, two times, two fifos | threads send, recv, recv_handle, reconnect, keep_alive | three threads close the one connection and a fourth opens it | no dead descriptor stays in `tcp_socketfd`; nothing leaks; a lost connection comes back; a silent server is noticed |
| `hup` | static parser state | `hup_unpack` (one byte per call), `hup_pack` | two-byte lengths against a buffer of 255 bytes, noise on the line, no timeout | a frame whose data fits is reported exactly when its bytes came |
| `hip_mod` | none | `hip_mod_pack`, and the unpacking in the two TCP modules | packets cut or joined by TCP; a length taken as `hi \| lo`; a reader that reads ahead of the writer | the packets handled are the packets sent, all of them |
| `uart_mod`, `uart_drv` | descriptor, two fifos, run flags | threads read, handle, send; `uart_mod_send` | waiting for room at both ends of the queue, one failing `select` ends a thread | the waits form no circle |
| `msg_queue_mod` | a System V queue | `msg_queue_send`, `msg_queue_recv` | blocks when full, outlives the process | commands handled at most once and in order, across crashes and restarts |
| `app`, `main` | `main_run_flag`, the last message | command loop thread, start, shutdown | the loop is at the end of every queue; threads are not joined; the result of `msgrcv` is ignored | an end command ends the program; a run leaves no commands to the next unless it is killed |
| `tcp_mod` | kind of device | dispatch to client or server | in server mode `tcp_mod_send` passes `*((int *)tcp_ptr)` as a descriptor (nobody calls it there) | - |
| `cmd_ctrl_led`, `led_drv`, `timer_drv` | - | LED commands, timers | not called by the program | - |

How they interact.  Serial bytes: uart read thread -> `recv_fifo` -> uart
handle thread (`hup_unpack`) -> message queue -> app thread.  The app thread
sends to the network through `tcp_mod_send` (the client's `send_fifo`) and to
the line through `uart_mod_send` (`hup_pack`, the uart's `send_fifo`, uart send
thread).  Network bytes: recv thread -> `recv_fifo` -> handle thread (HIP
packets) -> message queue -> app thread.  In the server several connections
share the `recv_fifo`, each chunk headed by its descriptor and its length.  The
client's `send_fifo` is the one fifo with several writers: the app, reconnect
and keep_alive threads.

What can go wrong and a test would hardly reach is listed under "hazards" in
`PROJECT.json`, at the line where it bites, with the properties about it.

## The modules

| module | what it is |
|---|---|
| `ByteChannel` | abstract specification of a fifo |
| `Fifo`, `MCFifo`, `FifoProofs` | `fifo/fifo.c`, statement by statement; TLC instance; proofs |
| `TcpServer`, `MCTcpServer`, `TcpServerProofs`, `TcpServerSerialProofs` | `tcp_mod/tcp_server_mod.c` and the kernel's sockets; TLC instance; proofs |
| `TcpClient`, `MCTcpClient`, `TcpClientProofs` | `tcp_mod/tcp_client_mod.c` and its connections; TLC instance; proofs |
| `Bytes` | C's `^` and `|` on bytes |
| `Hup`, `MCHup`, `HupProofs` | `hup/hup.c`, byte by byte; TLC instance; proofs |
| `HipStream`, `MCHipStream`, `HipStreamProofs` | `hip_mod/hip_mod.c` and the three pipes of HIP packets through a fifo, byte by byte; TLC instance; proofs |
| `Induction` | lemmas about sets of numbers, in place of the library's induction rule |
| `Relay` | abstract specification of the way of a command from its source to the app thread |
| `App`, `MCApp`, `AppProofs` | `main.c`, `app/app.c`, `uart_mod/uart_mod.c`, `msg_queue_mod/msg_queue_mod.c`, with what `tcp_mod/tcp_mod.c` contributes; TLC instance; proofs |

How they fit.  `Fifo` implements `ByteChannel`; `HipStream` uses a fifo as
such a channel and finds the packets in it that `TcpClient` and `TcpServer`
pass as wholes.  `App` takes the frames that `Hup` reports and the packets of
the TCP modules as commands, and implements `Relay`.

Definitions with a comment "Mutant:" are plausible bugs; they are not part of
any specification.  Substituted for the definition next to them, they show
that a property can fail.

### Fifo

State: the fields of `fifo_buf_t`, and for every writer and the reader the
place in `fifo_write` or `fifo_read` and its local variables.  One step is one
statement.  The two statements of `fifo_get_readable_num`, the comparison
(line 35) and the difference (line 38), are steps of their own, since the
other end may move its index between and after them; so are the store of a
byte and the advance of the index over it.  A statement reads one field that
the other end changes, once, and the target is one core, so with one writer
this granularity is exact.  Left out: `fifo_uninit`, and calls with a size of
zero or less, which return at once.

`Channel` is the refinement mapping to `ByteChannel`: the queue is the slots
from `rd_place` to `wr_place`, pending is the rest of the accepted chunk, taken
is what `rd_place` has moved over.  Loading a byte and advancing `rd_place` are
two steps and only the second one maps to `Take`, which is why the proof must
know that the slot still holds the byte that was loaded.

### TcpServer

State: `client_info` field by field, the count, both descriptor sets, the
receive fifo as a sequence of packets with the descriptor they came from, and
what each thread has in its local variables.  The kernel's part is explicit,
because it is where the table goes wrong: `owner` says what an open descriptor
leads to, `accept` takes the lowest free one, and closing a descriptor makes
its number available.  Steps: one per access to the shared state that another
thread can tell; `client_conectnum++` and `--` are a load and a store.  The
`FD_` macros, one iteration of a search through the slots, and the return of
`select` with the copy of its set are one step each; so is the search for the
slot whose `send_time` is set (lines 25-34).  The loop that builds the set of
the recv thread reads `client_socketfd` three times, in lines 82, 83 and 84, and
check_alive may set it to 0 in between: descriptor 0 then gets into `fd_group`
or into the set.  Standard input may be readable or not (`Ready`).

`client_socketfd` is a `uint8_t` (`tcp_server_mod.h:28`) and `accept` returns an
int; connections that are refused stay open (lines 122-125), so the numbers
grow.  `Uint8` takes the remainder by `FdRange`, which is 256 in the code and
small in the runs.

Abstractions.  A host is a model value, and a packet is its command.
`login` and `keep_alive` are handled alike, so one command stands for both.
The ages of the slots count clock ticks and stop at the timeout (the code only
compares with it); the clock is read when a slot is looked at, where the code
reads it once per pass over the table.  The fifo holds whole packets and is
unbounded: the framing inside it and the wait for room are in `HipStream`.  The
listening socket has the symbolic number -1, and a failing `bind` is left out.
`fd_group` starts with arbitrary descriptors (`Garbage`), because `app_mod_t` is
an uninitialised local of `main` and `tcp_server_mod_init` does not set it; values
that are no descriptor at all, for which `FD_ISSET` is undefined, are left out.
A `send` to a client changes nothing the server looks at.  Left out are an
`accept` that fails because descriptors have run out, and the first argument of
`select` (line 98, the size of the set in bytes plus one, 129): descriptors
from there on are not watched.

### TcpClient

State: the fields of `client_mod_t`, the place of every thread, and a table of
descriptors.  Connections are numbered, descriptors are reused.  Every read of
`tcp_socketfd` is a step of its own, because the code reads it anew on every
line (62-70, 161-172) and three threads reset it.  `closing[t]` is where thread
t is in `tcp_close_client_connect`.  A closed connection stays in the kernel as
long as the recv thread is blocked in `select` or `recv` on it, as on Linux.

Abstractions.  Fifos hold whole packets; `fifo_write` takes a packet or drops
it, and nobody looks at its result.  That is what `ByteChannel` promises for
one writer, while the client's `send_fifo` has three: run `fifo_writers` shows
what can happen then, and `TcpClient` leaves it out.  The server's answers
appear in the receive buffer when the request is sent, or never: the
network's delay is the time they wait there.  Standard input, which `select`
looks at once descriptor 0 is in `tcp_socketfd`, may be readable or not.
`SIGPIPE`, which `send` to a reset connection raises and which ends the process,
is the `Crash` of `App`, framing is in `HipStream`, and the run flags that stop
and deinit clear are in `App`.

### Hup

State: the static variables of `hup_unpack`, the fields of `pack_msg_t`, the data
received, and a history variable `seen` with the bytes since the parser last
looked for a first tag.  One step is one call.  A byte has `Radix` values, a
power of two, so that two-byte lengths appear with short frames.  The
exclusive or (`Bytes`) is a sum over the eight bits, and the checksum of
`hup_pack`'s loop a recursive function.

Every length is in the model.  Nothing compares it with the size of `data_buf`
(`DATA_BUF_SIZE`, 255), so a length whose high byte is not zero leads past its
end.  The first byte there is `status` (`hup.h:10-11`), which the caller takes
for the report of a frame (`uart_mod.c:108`): `Store` writes it, and a byte that
is neither 0 nor 1 may be read as either.  The byte after that is outside the
record, C does not say what it changes, and the model stops.

### HipStream

One behaviour is about one of the three pipes (`pipe`).  State: the packets a
connection was sent, the bytes `recv` has not returned yet, what the writing
thread still has to put into the fifo, the fifo as a sequence of bytes, and the
reading thread's place and local variables.  `hip_mod_pack` is an operator that
yields the bytes of a packet, the constant ones included, because a reader that
has lost the packets takes them for a header.  One step is one `recv`, the wait
for room, one byte of `fifo_write`'s loop, or one `fifo_read` of a reader:
`Fifo` is the detail below that, and implements it for one writer.  (At the
client's `send_fifo`, which has three, packets are put in one after the other.)

The three readers differ, and the model keeps the difference.  The client's
send thread waits for as many bytes as the two length bytes, or'ed, say.  The
server's handle thread waits for the length, and goes on until the packets add
up to the chunk; what it does when they never do is in the model, up to the
eleventh packet in a chunk (`PackSlots` in general), which goes past the end of
`msg_data_pack`.  The client's handle thread compares the readable bytes with
the high byte of the length, so it waits for one byte and reads what is there;
then it copies the header where the data should be (line 208).  Nobody reads
that data: a server sends the client no pass-through packets.  `regular` is
history: whether the chunks have been whole packets, few and small enough, and
the client's reader has not read ahead.

### App

State: the System V queue and whether it exists, the run flags, the frames in
the uart's `recv_fifo`, the bytes in its `send_fifo`, where main and the app
thread are, the message the app thread has, and what the handle threads of the
line and of the network hold.  History: the number of the run, the commands
that arrived, the runs that died, and how often a command was carried out.
Steps: the calls of `main`, one each; a frame arriving; reading everything
from a fifo; a blocking `msgsnd` (`CanSend`); `msgrcv`; `app_cmd_process` with
the wait for room in `send_fifo`.  `MainExit` and `Crash` end all threads, the
queue stays, and `MainQueue` starts the next run with the queue that is there.
`msg_queue_recv` fails once the queue is removed, and the loop carries the last
command out again (`AppRecvFails`).

Abstractions.  A command is its source, number, run, kind and the size of its
frame; one kind stands for `HUP_UART_PRINT` and one for pass-through, and an
unknown command does what a pass-through to the network does here, nothing.
The data of a command is left out, so it does not show that `msg_queue_recv`
zeroes the data first (`msg_queue_mod.c:61`): what a failed `msgrcv` repeats is
the last command with its length and empty data.
The three run flags of `uart_mod_t` are cleared one after the other with
nothing in between and are one flag; so are those of the TCP module.  A thread
looks at its flag and begins the round in one step.  `uart_mod_deinit` frees the
fifos while the hand and the app thread may still use them; what they then read
or write is undefined and left out: the model goes on with the fifos as they
were.  Failing `ftok`, `msgget` and `malloc` are left out.

## What the runs check

| run | specification | checks | states |
|---|---|---|---|
| `fifo_spsc` | one writer | `TypeOK`, `Reservations`, `ImplementsChannel` | 283,000 |
| `server_liveness` | `FairSpec` | `TypeOK`, `CountBounded`, `SilentDropped` | 681,000 |
| `server_serial` | `SerialSpec` | `TableSound`, `RefusedOnlyWhenFull` | 1.2 million |
| `client_serial` | `SerialSpec` | `NothingLeaks` | 1.7 million |
| `client_reconnect` | `FairSpec` | `TypeOK`, `SocketOpen`, `Reconnects` | 234,000 |
| `client_silent` | `FairSpec` | `SocketOpen`, `SilentServerDropped` | 531,000 |
| `hup_frames` | `Spec` | `TypeOK`, `FramesReported` | 32,700 |
| `hip_stream` | `FairSpec` | `TypeOK`, `Intact`, `NoPhantoms`, `AllHandled` | 449,000 |
| `app_runs` | `FairSpec` | `TypeOK`, `StaleOnlyAfterCrash`, `EndStops`, `RelaysCommands` | 148,000 |
| `fifo_writers` | two writers | `ImplementsChannel` fails | |
| `server_silent` | `FairSpec` | `SilentCleaned` fails | |
| `server_reply` | `Spec` | `ReplyToSender` fails | |

Deadlock is checked in every run but three: some thread can always move.
`hip_stream` ends when all bytes are handled, or when a reader waits for bytes
that will not come; `app_runs` when the last run has ended; `hup_frames` before
a byte is written behind `status`.

**fifo_spsc.**  Four slots, so that the indices wrap several times, chunks and
reads of one to three bytes, so that a chunk may fill the ring, be refused, or
be read in parts, and two byte values, so that a byte out of place shows.  It
holds for every initial content of the buffer.

**server_liveness.**  One slot and two connections from two hosts are enough for
two threads to be inside the table at once: the listen thread claims the slot
that check_alive is emptying, while the recv thread drops the same client.
The count drifts, also below zero; it never passes the limit (`CountBounded`).
Whatever else has gone wrong with the count, the descriptors or `fd_group`, the
check_alive thread looks at the slot alone, and under fairness a slot that is
called connected and stays silent is emptied.  `MaxEvents` bounds connections
and packets together: two connections, or one and a packet.  With `FdRange = 2`
descriptor 2 is stored as 0 and 3 as 1, so that the run has connections in no
slot, closes of the wrong one, and closes of standard input.

**server_serial.**  The code has no mutual exclusion.  `SerialSpec` is the same
program with only those behaviours in which the sections that change the table
exclude each other, and check_alive's also excludes the lines in which the recv
thread reads a slot it found in use again (`Building`, lines 83 and 84).  Locking
the mutex that is there around the four would give that.  Then the table is
sound between the sections, and a client is refused only when no slot is free.
So holes in the table, reused descriptors and stale entries of `fd_group` do no
harm by themselves: what breaks `TableSound` is two of these sections at once, or
a descriptor that does not fit `client_socketfd` (`FdRange` is above `MaxFd` here).

Both conditions are needed.  Without the fourth section TLC finds that
check_alive clears slot 0 between lines 82 and 84, descriptor 0 gets into
`fd_group` and the set, `recv(0)` fails on a readable standard input, and
`tcp_close_client_connect(0)` closes it, takes the vacant slot for that of a lost
client and decrements the count a second time.  With `FdRange = 3` it finds a
third connection, stored as descriptor 0.  Neither is a behaviour of
`SerialSpec` or of this run, and the run says nothing of the code's behaviour in
the races it excludes; `server_liveness` and `server_silent` are about that.

Two slots and three connections, so that there is a hole, a client behind it,
and a third one that takes it.

**client_serial.**  Two connections: the first one is closed by one, two or
three threads, while the second is made.  `NothingLeaks` holds while one thread closes at a time
(`SerialSpec`, in the sense of above); with two, a connection can be forgotten
while it is open, or descriptor 0 closed, and TLC shows it in a moment when
`client_serial` is run with `Spec`.  In the runs of the client other than
`client_serial` keep-alives are always due (`SEND_KEEP_ALIVE_TIME = 0`): the
keep_alive thread does everything it can do but wait.

**client_reconnect.**  Three connections and every race of the closing threads
between them, leaks and a closed descriptor 0 included.  Received packets do
not fit in `recv_fifo` and are dropped (`RecvFifoPackets = 0`), so the client
never gets logged in; it gives connections up, the server closes them, and the
client always gets another one.  `SocketOpen` holds all along.

**client_silent.**  One connection with logins, answers, data both ways and a
clock.  The connection may end at any time while its answers are still in
`recv_fifo`: a late answer to a login then makes the client call itself
connected without a connection (lines 133-138 do not look), and the timeout is
what gets it out of there.

**hup_frames.**  Bytes of two bits and a `data_buf` of three bytes, which stand to
each other as 256 and 255 do in the code: the shortest length with a high byte
has one byte of data more than fits, and that byte is `status`.  Every byte may
follow every other, so lengths up to fifteen are announced.  Within `data_buf`
nothing is reported but frames of `hup_pack`, with their data; beyond it a byte
of data may report a frame that has not ended, and all that is claimed is that
the end of a whole frame is still reported.

**hip_stream.**  Login and keep-alive packets of 26 bytes and pass-through
packets of 18.  The client sends two of any kind.  To the client come a login's
answer and three more packets, to the server packets of two connections, and
`recv` returns 13, 18, 26, 44, 62 or 70 bytes: half a packet, one, two, three
whole ones, or a whole one and a part.  The fifo of 72 bytes holds two packets
and not three, so the server waits for room, a chunk of 70 bytes never gets any
(as 250 bytes never do in the fifo of 256), and the client drops what does not
fit.  The server's room for two packets in a chunk is overrun by a chunk of
three.  `Intact` says that regular chunks come out as they went in, at every
interleaving; `AllHandled` that then nobody waits for ever; `NoPhantoms` that a
client that has lost the packets obeys nothing but commands it was sent.

**app_runs.**  Two runs of the program and three commands from the line or the
network, a queue with one place, a `recv_fifo` with one, and a `send_fifo` that
a frame of one byte fits into twice and one of three bytes never.  With these
the hand thread waits for the queue while the app thread waits for the send
thread, and all of them while main stops them.  `EndStops` holds because the
send thread waits for nobody, and main not for the app thread; only a frame larger than `send_fifo` can be in the way
(`Stuck`).  A run that dies with an end command in the queue ends the next one.

### Bounds

Connections (`MaxConnects`), packets (`MaxSends`, `MaxEvents`, `MaxInbox`, `MaxPackets`,
`Traffic`, the capacities of the fifos), the bytes `recv` returns (`ChunkSizes`),
runs (`MaxRuns`), commands (`MaxCommands`) and descriptors (`MaxFd`) are bounded.
`Radix`, `DATA_BUF_SIZE` and `FdRange` are sizes of the code made small.  The
budgets of the environment are what makes the models finite; each is large enough for a descriptor to be
reused by another connection, which is when the interesting cases happen.
Descriptors never run out within the bounds of `TcpServer` and of the safety
runs of `TcpClient`.  Clocks saturate at the timeouts and need no bound.
Hosts are compared with each other and with nothing else, so the safety runs
of `TcpServer` are checked up to a permutation of them.

### Fairness

`FairSpec` asks of every thread that it takes a step when it can go on for
ever doing so (WF): the threads are ordinary Linux threads of one priority and
sleep or block between the rounds of their loops.  Of the clients and of the
network nothing is asked.  For the TCP client there is one assumption on the
server: a client that tries to connect over and over is accepted at some time
(SF on `Connect`).  Without it no program could get its connection back.  In
`HipStream` `recv` owes nothing: `AllHandled` begins when everything has been
returned.  In `App` nothing is asked of the line, the network or crashes.

### What the code does not keep

- `fifo_writers`.  `fifo_write` reports bytes as written that are overwritten,
  or are accepted into room that is gone, when two threads write.  The client's
  `send_fifo` has three writers and no lock.
- `server_silent`.  check_alive empties a slot's address before its status.  The
  listen thread can claim the slot in between; the new client is then marked
  unconnected and is never checked again, contrary to the comment at line 337.
- `server_reply`.  A packet waits with the number of its descriptor.  When the
  connection ends and the number is reused before the packet is handled, the
  reply goes to another client, contrary to the comment at line 231.

Met while modelling, without a run of their own: the client's handle thread does
not wait for the whole packet (line 203) and copies the header instead of the
data (line 208); the comment at `uart_mod.c:215` says that deinit ends the three
threads, while it clears their flags and frees what they use; a first tag that
comes twice makes `hup_unpack` miss the frame behind it (`hup.c:46-52`,
`TagTwo`).

## What is proved

For every value of the constants that satisfies the assumptions
(`SizeAssumption`, `RequestAssumption`, `ServerAssumption`, `ClientAssumption`,
`AppAssumption`, `HupAssumption`, and of `HipStream` `HipAssumption`,
`PacketAssumption`, `TrafficAssumption`, `AnswerAssumption`):

| theorem | statement |
|---|---|
| `FifoProofs!TypeCorrect` | `Spec => []TypeOK`, any number of writers |
| `FifoProofs!ReservationsHold` | `SingleWriter => (Spec => []Reservations)` |
| `FifoProofs!Implements` | `SingleWriter => (Spec => Channel!Spec)` |
| `TcpServerProofs!TypeCorrect` | `Spec => []TypeOK` |
| `TcpServerProofs!CountStaysBounded` | `Spec => []CountBounded` |
| `TcpServerSerialProofs!TableStaysSound` | `FewFds => (SerialSpec => []TableSound)` |
| `TcpServerSerialProofs!RefusalMeansFull` | `FewFds => (SerialSpec => RefusedOnlyWhenFull)` |
| `TcpClientProofs!TypeCorrect` | `Spec => []TypeOK` |
| `TcpClientProofs!SocketStaysOpen` | `Spec => []SocketOpen` |
| `TcpClientProofs!NothingLeaksAlone` | `SerialSpec => []NothingLeaks` |
| `AppProofs!TypeCorrect` | `Spec => []TypeOK` |
| `AppProofs!StaleCommands` | `Spec => []StaleOnlyAfterCrash` |
| `AppProofs!Implements` | `Spec => RelaysCommands`, that is `Commands!Spec` |
| `HupProofs!TypeCorrect` | `Spec => []TypeOK` |
| `HupProofs!ReportsFrames` | `Spec => []FramesReported` |
| `HipStreamProofs!TypeCorrect` | `Spec => []TypeOK` |
| `HipStreamProofs!StaysIntact` | `Spec => []Intact` |
| `HipStreamProofs!NeverPhantoms` | `Spec => []NoPhantoms` |

*Fifo.*  `Reservations` says that a count that has gone stale errs on the safe
side.  It is not inductive: the writer must also know that the byte it stored
is still in the slot it is about to advance over, and the reader that the byte
it loaded is the one in the slot it releases, and that the ring is not empty
between the two statements of its count (`StoredByte`, `ReaderInv`).  The modulus is
dealt with once, in lemmas about `Succ`, `Distance` and `Used`; a second group of
lemmas says what a store, an advance and a release do to the unread bytes.
Refinement is then one lemma per action: a step of the abstract channel or a
stutter.

*TcpServer.*  The check of the count (line 122) is long past when it is
incremented (line 132).  `CountInv` says why that is harmless: the listen thread
alone increments, and what the other two threads store is less than what they
loaded, which was within the limit.

`TableSound` says nothing while a section runs.  The invariant of `SerialSpec`
(`SerialInv`) adds what each section has done to its slot so far (`Sections`), that
every other slot is sound (`Settled`), and by how much the count is off meanwhile
(`Tally`, with the cardinality theorems of the library).  Descriptors are reused
between a section's `close` and its `client_socketfd = 0`, so the slot in hand
may hold the number `accept` has just returned; `NewFd` says that it is the only
one that may, and only until the new connection claims a slot, since the listen
thread is then the one section.  `Distinct` makes the slot that
`tcp_close_client_connect` finds the right one, and `ZeroUnused` that a stale or
uninitialised `fd_group` entry leads to a close only through a descriptor that
`select` has returned.  That descriptor 0 is never one of them is `Chosen`: while
the recv thread is at lines 83 and 84 the slot it looks at stays in use, because
check_alive waits and nobody else clears it.  `FewFds` is the premise
`MaxFd < FdRange`, that every descriptor fits `client_socketfd`; the other
theorems about the server do without it.  `RefusedOnlyWhenFull` follows from `Tally` and from
`Passed`, the addresses the search has seen.

*TcpClient.*  The reconnect thread stores a descriptor it got some steps ago.
`SocketInv` adds that while it holds one `tcp_socketfd` is not positive, so the
closing threads can close nothing but descriptor 0 or nothing.  For
`NothingLeaks` the invariant of `SerialSpec` adds that a thread between the
check and the reset of `tcp_socketfd` finds there what it found before, because
nobody else resets it and the reconnect thread is not connecting.

*App.*  `IInv` adds to the types what the place of main says of the others
(`MainInv`: no thread before its flag, no queue only at the end), that a
program only stops once the app thread has a command (`StopInv`, without which
the command that `AppRecvFails` repeats need not be one), and that what the
threads hold is of this run (`RunInv`).  For the refinement `OrderInv` says that
what has come further is older, source by source: the head of the queue is
then the oldest of its source and is nowhere else, so `AppRecv` is `Handle`; and a
crash, which keeps only the queue, loses the newest.  Every other step of the
threads moves a command within `Pending` and is a stutter.

*Hup.*  `FramesReported` speaks of the whole of `seen` at its last byte.  The
invariant says, for every state of the parser, which bytes of a frame `seen` is
so far, and that `s_check_num` is the exclusive or of those that count: the
running checksum is that of `Xored` up to there (`HeadNum` plus the data so far).
One lemma extends `Xored` by a byte; that bytes stay bytes under `^` is shown bit
by bit.  What is assumed of a byte is that it has at most eight bits, and of
`data_buf` nothing, so the theorem is about real bytes and 255 of them, where the
run has two bits and three bytes.  Of data that is longer it says what the run
says: up to the byte in `status`, the end of a whole frame is reported.

*HipStream.*  `TypeOK` needs that the room a writer found is still there while it
writes (`Room`), and that a header being read has seventeen bytes (`Reader`).

`Intact` compares the commands handled with the packets sent and says nothing of
the bytes in between.  `IntactInv` accounts for every one of them.  At the client
(`ClientInv`) what is read of a header, the fifo, the chunk being written and what
`recv` has not returned are, joined, the bytes of exactly the packets that are
not handled yet.  At the server (`ServerInv`) the connections share the fifo, so
the invariant names the chunks that `recv` has made: which connection each came
from, how many packets of every connection had come before it and with it, and
which bytes are behind it (`Chunks`).  The reader is between two chunks
(`Between`) or inside one, with some of its packets collected (`Within`); there
the bytes read so far are less than the chunk's, so the comparison of the sizes
ends the chunk at its last packet and not before (`HiLoDiffers`).  That a chunk
holds at most `PackSlots` packets is what keeps `msg_data_pack` from overrunning,
and that it is whole packets is what `regular` asks.  At the client `regular`
also says that the reader did not run ahead, and the packets' size
(`PacketAssumption`) keeps `deal_buf` from overrunning.

`NoPhantoms` is about a client that has run ahead, or whose fifo had no room: what
it takes for a header may begin anywhere.  `LostInv` still knows that much: the
bytes to be read are bytes of the answers' stream, in their order, each from a
place of its own (`Scattered`), and the commands handled were found there at places
at least a header's length apart, before all those bytes (`FoundIn`).  In an
answer only the bytes 2 and 14 to 17 can be taken for a command, and all five are
its command (`ReplyNames`): so a command that the client obeys is the one of the
packet its byte is in, and two commands seventeen bytes apart are of two packets
(`FoundWasSent`).

The lemmas under them are about bytes: what a packet's header says of its size
(`PackBytes`, where `hi | lo` is the length because `hi` is zero), that the bytes
of a list of packets split between any two of them (`SliceSplits`), and that
seventeen bytes off the front of such bytes are the header of the first packet
(`ReadsPacket`).  The library's rule of induction takes an operator as a
parameter, which the provers cannot instantiate; `Induction` states it for a set
of numbers instead, and proves it from the library's facts on well-founded
orders.  `FlattenSeq`, which `Stream` is built with, is met in one lemma only
(`FlattenExists`); all others use the function it finds.

What is assumed.  `HipAssumption`: a header has 17 bytes (`hip_mod.h`), `temp_buf`
room for a header and an answer, a local address 7 to 15 characters, and `recv`
returns at most 1024 bytes.  `PacketAssumption`: the data of a packet fits the
buffers of 256 bytes it is built in, which nothing in the code checks.
`TrafficAssumption`: the connections carry such packets, under descriptors that
fit the one byte the server writes of them.  `AnswerAssumption`, which only
`NoPhantoms` needs: a server sends nothing but the answers to logins and
keep-alives (`tcp_server_mod.c:237` to 247), and the address in them is what
`inet_ntop` writes, digits and dots.  TLC checks all four for the constants of the
run.

Only model-checked: the liveness properties (`SilentDropped`, `Reconnects`,
`SilentServerDropped`, `EndStops`, `AllHandled`), which are outside the prover's
reach.

## What is not modelled

- The use of fifos and descriptors after shutdown has freed them, and of a
  receive buffer past its end: undefined, and the models stop short of it
  (`overrun`, and `Store` in `Hup`) or leave it out (`App`).  `fifo_uninit`, which only shutdown calls.
- The end of the uart read thread after a failing `select` (`uart_mod.c:64`):
  afterwards nothing comes over the line, and nothing else changes.
- Failing `socket`, `bind`, `malloc`, `msgget` and `pthread_create`, and an
  `accept` that fails because no descriptor is left.
- The limit of 129 on the descriptors `select` looks at (`tcp_server_mod.c:98`).
- `hip_mod_unpack`, `tcp_mod_stop`, `tcp_mod_send` at a server, `cmd_deal` and the
  timers: nobody calls them.  `led_drv` and `uart_drv` set up devices.

## What remains

Client and server are modelled each against any peer.  Their composition, a
client that calls itself connected against the server's table, would be the
next module (`TcpSession`); its state is the product of the two largest modules
here, so it needs an abstraction of either first.
