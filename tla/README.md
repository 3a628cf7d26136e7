# A verification development for the IC-7610 I/Q tools

The repository reads the I/Q stream of an Icom IC-7610 transceiver over its
USB 3 port (an FTDI FT601 bridge, driven through the vendor's D3XX library) and
hands it to programs: a TCP server, a ZeroMQ pusher, a recorder, and the
SoapySDR framework. This directory holds TLA+ models of the code, TLC
configurations that check them on small instances, and proofs, checked by TLAPS,
that hold for every value of the constants.

- `tlc -workers 2 -config Reader.cfg MCIQAsyncReader.tla` checks one run; the
  table under [Runs](#runs) pairs configurations and modules.
- `tlapm CivSerialProofs.tla` checks the proofs of one module.
- `PROJECT.json` maps every definition to the lines it models and lists the
  runs, the hazards, the findings, the theorems, and for each property a mutation
  of the model that makes the property false.

Paths below are relative to the repository, `src/` being its root.

## The system

```
  radio ==USB3== FTDI driver                      radio ==USB serial== libserialport
                    |                                                   |
                IcomIQPort                                         IcomCIVPort
     commands  /    |    \ direct reads                             (CI-V commands)
              /     |     \
             /   worker    \--- IcomIQPortStream + BufferPool --- disk
            /       |        \         (SigMFFileWriter)
           /   BlockingRing-  \
          /      Buffer        SoapyIC7610SDR --- SoapySDR applications
         /          |
        /       iqReadBuf
       /            |
   TCP server, TCP client, ZeroMQ pusher
```

| Component | Code | State | Operations |
|---|---|---|---|
| Sample ring | `src/include/BlockingRingBuffer.hpp` | buffer, `head_`, `tail_`, one mutex, two condition variables | `writebuf`, `readbuf`, `clear_ringbuffer`, `size` |
| Asynchronous reader | `src/src/IcomIQPort.cpp` (init, close, destructor, 901-1166) | `_running`, `_read_thread`, the driver handle, the pending `OVERLAPPED` on the worker's stack, the ring | `iqAsyncStart`, `iqAsyncStop`, `iqAsyncReadWorker`, `iqReadBuf`, `iqClearReadBuf`, `close` |
| IQ command layer | `src/src/IcomIQPort.cpp` (172-900) | two pipes of the driver, `_iqDataEnabled` | `sendIQCommand`, `readIQReply`, `icomIQCommand`, the getters and setters over them |
| Disk stream | `src/include/IcomIQStream.hpp`, `BufferPool.hpp` | pool, the buffer under the device, the writes outstanding, totals, stop flag | `start`, `initiate_read`, `handle_read`, `initiate_write`, `handle_write`, `acquire`, `release` |
| SoapySDR driver | `src/src/IC7610SDR_*.cpp` | caches of frequency and antenna, `_vfo`, the stream's format, a mutex nobody locks | `setupStream`, `getStreamMTU`, make, unmake, `setFrequency`, `setAntenna`, `activateStream`, `deactivateStream`, `closeStream`, `readStream` |
| Tools | `src/Tools/*.cpp` | one global port, a thread per connection | options, opening, settings, listening, accept, handle, push, exit, record |
| CI-V port | `src/src/IcomCIVPort.cpp` | `_civ_port`, `_isOpen`, the bytes on the line | `init`, destructor, `sendCIVCmd`, `readCIVReply`, `icomCIVCommand` |
| Others | `findDevice.cpp`, `BufferMGR.hpp`, tests, GNU Radio blocks, notes | none of the system's | not modelled |

How they interact, and where it is hard:

- **Threads over one port.** The worker, a client's thread and, in the server,
  one detached thread per connection call the same `IcomIQPort`. The only things
  between them are the ring's mutex and `_running`, an atomic flag that is tested
  in one step and set in another, with no lock over both. A stop aborts the pipe under the worker, joins it,
  and then switches the radio off; the worker, when a transfer fails, calls the
  same stop from inside.
- **Commands over an unlocked pair of pipes.** A command and its reply are two
  driver calls; replies carry no number. A reply that is late, or another thread's
  command in between, shifts every later reply.
- **Completion handlers.** The disk stream hands each buffer from device to disk
  to pool through handlers that record nowhere who holds it.
- **A mutex that is documented and not taken.** The SoapySDR driver's
  `_device_mutex`.
- **A serial line.** Bytes come in pieces, late, behind an echo, or unasked.
- **One stream for all.** Every stream an application sets up with the SoapySDR driver
  is the device object: one format, looked up several times in one read.
- **Caches.** `_iqDataEnabled`, the driver's frequency and antenna
  say what the radio was told last, not what it does.

What makes each part correct is stated with its module below; the hazards are
listed, each at its line, in `PROJECT.json`.

## Modules

| Module | Models | Built on |
|---|---|---|
| `SampleQueue` | what the ring promises: a bounded queue whose calls take all their samples at once and only when they can | |
| `BlockingRingBuffer` | the ring, step by step between lock and notify | refines `SampleQueue` |
| `IQAsyncReader` | start, stop, worker, reads, clear, close, init, destructor, and the driver's transfer | instantiates `SampleQueue` as its ring |
| `TCPServer` | `main` of the server, the TCP client and the pusher, and their handlers | extends `IQAsyncReader` |
| `IQCommands` | commands and replies over two pipes | |
| `BufferOwnership` | what the disk stream promises of its buffers: one owner each, and how they pass from one to the next | |
| `IQStream` | the disk stream and its pool, and the recorder's use of them | refines `BufferOwnership` |
| `SoapyDevice` | the SoapySDR device object and the radio it drives | |
| `SoapyStream` | setting up a stream, its MTU and the conversions of a read | |
| `CivSerial` | the CI-V port and its serial line | |
| `MC*` | one per module: model values and symmetry | |
| `*Proofs` | theorems and proofs, one module for each of the others but `SampleQueue` and `BufferOwnership` | |

Definitions headed "Faulty variant" in the modules belong to no specification: each is a
plausible mistake in the operator that follows it, and the property it is paired with in
`PROJECT.json` is violated when it takes that operator's place.

The composition is the code's: the ring implements `SampleQueue`
(`ImplementsQueue`, checked and proved), the reader is modelled over `SampleQueue`
in place of the ring's details (its calls of the ring are that specification's own actions,
so that it can do nothing else to it), and the tools are modelled over the reader
(`ToolsUseReader` proves that they do nothing to it that its clients may not, and
`ToolsInherit` draws from it what the reader's theorems say). What
is checked of the reader therefore does not depend on the ring's inside, and what
goes wrong inside the ring (the two copies below) cannot change when a thread waits.

### BlockingRingBuffer

Each thread has a place: `enter` (about to take the mutex, or woken), `asleep` on
its condition, `notify` (unlocked, about to call `notify_one`), `idle`. A critical
section is one step, as the mutex makes it; the notification after the unlock is
a step of its own, and a sleeper may wake for no reason, as
`std::condition_variable` allows. Samples are numbered modulo `Labels`; a slot
holds the number of the *byte* its contents begin at, so that the offset error of
the second `memcpy` (line 80) is modelled by what it does: the slot gets bytes from
inside the same block. A read that does not wrap leaves its destination unwritten,
as the code does (lines 111-114 are commented out).

- `Accounting`: with the indices reduced modulo the capacity, and equal indices
  meaning empty, `tail - head` is what was written and not read.
- `DamageConfined`: the wrong offset reaches only the first slots, and only bytes of
  the block itself.
- `NoWakeupLost`, `SomeoneCanRun`: about `notify_one` and about waiting for whole
  blocks. With several readers the first needs reads of one size and blocks no larger
  than a read; the tools use one size. The second needs every block and every read to fit
  together, `write + read <= BuffSize + 1`, and then holds for any mixture of sizes.
- `ImplementsQueue`, `ServesCalls`, `ReadReturns`: refinement of the queue, and with
  the radio streaming every call is served.
- `SizeCanBeRead`: `available_data()` is called by `iqGetSizeOfAvailableData` without the
  mutex. The two loads are two steps (`PeekFirst`, `PeekSecond`), in either order, with the
  other threads between them; what the only reader is told it can then read without waiting.
- `ReadsDeliver` is what the Application Note says of `iqReadBuf`; it is false.

Each index is taken to be loaded once, as the Release build (`CMakeLists.txt:39-42`) does. A
build without optimisation may load one of them twice; that is not covered.

### IQAsyncReader

`pc[c]` is a client's place inside a call; `worker` is the place of
`iqAsyncReadWorker`; `transfer` and `stray` are the driver's pending read and one that
has outlived the worker's stack frame. `fault` names the way the process ended:
joining oneself, assigning over a joinable thread, joining twice, destroying a
joinable thread, an exception out of the worker, a transfer completing into a frame
that is gone. Every test and every assignment of `_running`, the
thread and the handle that another thread can come between is a step of its own.
The driver is external: a transfer ends with data, empty, with a ragged number of
bytes, with a timeout or with a failure (`DriverResults`). An abort makes a pending
transfer fail, or fails itself, which the code only logs; the transfer is `unaborted` then.
The three aborts of a stop, a close or the destructor are one step, since only the one on
`IQ_IN` touches what is modelled here.

`handle` joins `_isOpen` and `ftHandle`. `close` tests `_isOpen` first and lowers it last
(`CloseCall`, `CloseHandle`, `CloseEnd`), so that a start, a stop or another close may come
between; in between, and after an `FT_Create` that fails but leaves the old value in `ftHandle`,
which `init` does not notice, the handle is `stale`: open for the port, unknown to the driver. An
`init` that throws changes nothing of this. Bound: `init` is not called while another client
is inside `close`.

- `ThreadLostOnlyGivingUp`: one client can assign over a joinable thread, and its destructor
  join no thread or leave one behind, only between the two halves of the worker's own stop.
- `StopLeavesNoWait`: once a stop's aborts are done the worker waits for no transfer: a
  read cannot be queued behind the abort and then waited for, unless the abort itself
  fails. (Checked in `Server`, where several stops meet.)
- `NoBlockBehindStop`: however many clients start and stop it, a block reaches the ring
  while `_running` is down only for a stop that is still to return from its join. (Checked in
  `Server`.) That a stop lowers the flag, aborts, and joins before it returns is not enough by
  itself: another's start may have raised the flag, and another's join may have taken the thread.
- `LeavesWhenCalled`: the worker returns only for a stop that has yet to join it, on no result of
  the driver's; the one exception is the race of a start (`SetRunning`).
- `WorkerWindsDown`: while `_running` is down each step of the worker brings it nearer to
  its end, by the measure `StepsLeft`. (Checked in `Server`.)
- `BlockedWorkerFeeds`: a worker that waits for room has left every waiting read enough,
  when any block and any read fit the ring together. (A theorem; no run lists it.)
- `StopEndsOrRingFull`: a stop comes back unless the worker waits in `writebuf` for
  room nobody will make or for a read whose abort failed, or the process ends. The exceptions
  are real: with nobody reading, a full ring keeps `iqAsyncStop` waiting for ever, and so does
  a driver that neither aborts a read nor ends it.
- `ReadersFed`: timeouts do not starve a reader while the radio streams.
- `StopKeepsProcess` and `NoReadLeftByStop` are false; see [Findings](#findings).

The port begins closed, as constructed; `init` opens it, and after `close` opens it again.
`_running` is raised after the thread was started (`SpawnWorker`, `SetRunning`), so a worker
may see it down and leave, after which every start is refused; nothing in the repository says
otherwise, so no property does.

### TCPServer

`tool` says which program runs and `main` how far its `main` is: reading the options,
opening the port, testing it, making the settings, and binding, listening or connecting. Each
may end the program (`exited`, or `killed` by an exception or by the null `optarg` a port
operand is read through, `src/Tools/IC7610TCPServer.cpp`); the results of `bind` and `listen`
are not looked at, and a server without them accepts nothing (`deaf`). `at[c]` is the place of a handler (or of the
client's or pusher's only loop); `peer[c]` says whether its connection is up. The
server's port is one global object shared by all handlers. On POSIX a failed
`send` raises SIGPIPE, which nothing ignores, so it may end the program
(`tool = "killed"`); elsewhere it returns an error and the handler leaves its loop. The
pusher's send waits for a puller instead, and copies past its buffer when a wide format was
asked for. The client ends in the destructor of its port (`Exit`).

- `IdleServerIsClean`: when the last handler has gone, no worker reads, a start would
  not be refused, and the ring is empty, whatever the handlers did to one another.
- `OneHandlerJoinsOnce`: programs with one handler never assign over, join twice or
  destroy a joinable thread. A server with two connections does all of it.
- `StopLeavesNoWait`, `WorkerWindsDown` and `NoBlockBehindStop` of the reader are checked
  here, where several handlers start and stop it.
- `HandlersEnd`: the handler of a peer that has gone ends, but for four hangs the
  model shows: a read nobody will serve (`Starved`), a stop whose worker another
  handler's start has told to go on (`Overruled`), a full ring (`WorkerBlocked`), and a read
  that the driver has failed to abort.

### IQCommands

A call writes its command into one pipe and reads whatever the other pipe holds
next, or times out; the radio takes commands in order and obeys, refuses or stays
silent. Replies are values that say which command they answer; digits are
abstracted. `disturbed` is up once a read has timed out or two calls
have been inside the port at once, `mixed[c]` when a call got another's reply.

- `MixedOnlyDisturbed`: order alone matches replies, and until it is disturbed it does.
- `SuccessMeansObeyed`: the setters that look at their reply say success only if the
  radio obeyed, or the reply was another's.
- `EveryCallReturns`.

### IQStream

`free` is the pool as a bag (nothing in `release` prevents a buffer being in it
twice), `target` and `read` the device's buffer, `writes` the buffers of each block
with the disk. The output formats differ in the buffers they need: S16 writes the
buffer read, CF32 converts into two more, CF64 is accepted and converts nothing.
`fault` is the dereference of the null pointer an empty pool gives.

- `NeverShared`, `NothingLeaks`: each buffer is in one hand and in some hand.
- `DryOnlyBehindDisk`: the null pointer is met only with the whole pool (but two
  buffers, for CF32) waiting for the disk.
- `TotalsAgree`: read = written + failed + outstanding.
- `DeadStreamEndsRecording`: a read that fails or is refused ends the stream silently; the
  recording then ends too, early, when the disk has what was read (`OutOfWork`: `run_for`
  returns because no event is left to wait for), unless the null pointer comes first.
- `DeadStreamWindsDown`: its safety half. Such a stream stays dead, and each of its steps
  leaves fewer reports to come (`WorkLeft`) or ends the recording. (A theorem; no run lists
  it.)
- `HandsBuffersOn`: the stream refines `BufferOwnership`, with `Owner(b)` as the mapping. The
  handlers know only pointers and the pool only a list; the abstract module knows only
  owners. A buffer changes hands from pool to device, device to disk and disk to pool, a
  converted block takes two and gives one back, and one is lost only with the read that
  failed or was refused, or in the format that no branch writes.

The properties are about who holds a buffer, not about what is in it: the CF32 write gathers
the first output buffer twice and never reads the second (lines 258-261), yet both are the
disk's until it reports.

### SoapyDevice

Two threads of an application on one device object. An exchange is three steps
(send, sent, reply), since the mutex that would make it one is never locked. The
radio's truth (`tuned`, `selected`, `source`) stands beside the object's caches
(`frequency`, `antenna`, `enabled`). `doubt` records which of them a refused, unsent or
unanswered command may have left wrong. `member` is the uninitialised `_vfo`: main, sub, a
byte that wraps to "off", or another. A frequency is a double in the cache and whole hertz
in the command (`Whole`). `activateStream` goes by the flag that `enableIQData` returns,
whoever raised it (`Continue`). Once exchanges have overlapped or a reply is missing
(`confused`) no further call begins: which reply a call then gets is the subject of
`IQCommands`.

- `FrequencyTrue`, `AntennaTrue`: the caches against the radio, the frequency but for the
  fraction of a hertz.
- `FlagTrue`: while the flag of IQ data is up, the radio does what the byte made of the
  uninitialised `_vfo`, whatever it is, tells it.
- `VainReadsAreLate`: a read waits on a radio that is off only if it began in the gap
  between a deactivation's abort and its command, but for a `_vfo` that names no receiver and a
  stream in doubt.
- `DeactivatedIsOff`: when deactivate or close returns the radio has stopped, but for
  commands refused, not sent or not answered.

### SoapyStream

`setupStream` returns the device object, whatever streams exist, so all callers share
`_rx_stream.format`, a string that is assigned in two steps (`text`, then `size`) and compared
by every `readStream` as many as six times: to bound the request by the MTU, to halve it, and in
each of the comparisons of the conversion. `agreed[s]` is the format the caller set up, and
so the size of the elements of its buffer; `disturbed[s]` says that another set-up has come in
between. Of the transfer only its size is kept (`readIQData` rounds down to 512 bytes), of the
conversions how far they go in the caller's buffer and whether they write there.

- `MemoryRespected`: no overrun of the caller's buffer while no other set-up disturbs, nor of
  the driver's own ever.
- `FloatsDelivered`: the float formats deliver what they report. S16 and CS16 do not: their
  `memcpy` goes from the caller's buffer to the driver's (476, 488).
- `MTUIsOneBlock`: the MTU, counted in elements of each format, makes one whole block.

### CivSerial

One object after another on a line. The line has two parts, bytes received and bytes
under way; of a byte only its place in its message (`head`, `body`, `eom`) and whether it
answers the current command are kept. A write that does not fail counts as whole. The
radio may echo, answer or not, speak unasked, and the line may lose a byte.
`disturbed` is up once something but the answers waited for has been on the line.

- `AnswersAreOwn`: until then a call returns its whole answer and nothing else.
- `RepliesNeverJoin`: however disturbed, a reply never runs from one message into the
  next while no byte is lost. A reply may still be the tail of a message, or another's.
- `OpenMeansUsable`: `isOpen()` and the port behind it, over every sequence of init and
  use. A port that could not be opened is freed while `_civ_port` still names it.
- `CallsReturn`: the read of every byte has a timeout, and the buffer an end.

Assumed: a command fits the 32-byte buffer (every caller in the repository's does); the
caller gives each call an empty vector, since `readCIVReply` appends.

## Runs

| Run | Module, configuration | Bounds | States | Shows |
|---|---|---|---|---|
| RingSafety | MCBlockingRingBuffer, RingSafety.cfg | ring of 4, labels 6, 1 writer (blocks 1, 2), 2 readers (reads 2), readers symmetric | 893 130 | that the ring counts right, wakes whom it must and implements the queue |
| RingLiveness | same, RingLiveness.cfg | 1 reader (reads 1, 3), fairness | 25 638 | calls are served, reads return, a size that was seen can be read |
| RingDelivery | same, RingDelivery.cfg | 1 reader | violated | finding 1 |
| Reader | MCIQAsyncReader, Reader.cfg | 1 client, ring 3, blocks and reads 1, 2, every driver result, fairness | 11 536 | the start/stop protocol and where it ends, and when the worker leaves |
| ReaderStopKills, ReaderStrayRead | same, own .cfg | driver gives data and timeouts only | violated | findings 2, 3 |
| Stream | MCIQStream, Stream.cfg | 4 buffers, 6 blocks, 3 formats, fairness | 46 376 | ownership and its refinement, totals, when the null buffer is met, that a dead stream ends the recording |
| Commands | MCIQCommands, Commands.cfg | 2 callers, 3 settings, 2 messages a pipe, fairness | 491 434 | whose reply, what is reported, that calls return |
| Server | MCTCPServer, Server.cfg | 2 connections, ring 2, blocks and reads 1, data and timeouts, fairness | 107 211 | handlers against handlers, the tools with one, and the reader's stop under several: no wait left, no block behind it |
| Civ | MCCivSerial, Civ.cfg | messages of 2 and 4 bytes, buffer 3, line 5, fairness | 790 480 | whose bytes, the end of reading, the object's life |
| Soapy | MCSoapyDevice, Soapy.cfg | 2 threads, 3 frequencies of which two are one in whole hertz, 2 antennas (threads and antennas symmetric) | 1 800 890 | caches and flag against the radio |
| SoapyRead | MCSoapyStream, SoapyRead.cfg | 2 streams (symmetric), units of 2 samples, blocks of 4, requests of 1, 4, 5, 9 | 646 905 | the numbers of a read under set-ups of the format |

Why the bounds are enough to be interesting:

- *Ring.* Blocks of 1 and 2 in a capacity of 5 reach every index and every kind of wrap,
  full and empty, and a read that does not divide the capacity. Two readers are the least
  for which `notify_one` can wake the wrong one. `Labels` needs only to exceed
  `BuffSize + 1`, so that a sample cannot be taken for one a ring earlier. `ReadReturns`
  is about one reader: with two, the other may take the samples.
- *Reader.* One client is what the pusher and the client tool have; `Server` has two. A
  ring of 3 is filled by two blocks, and blocked with one more.
- *Stream.* Four buffers are the least with which CF32 (one read, two converted) runs
  beside another read; six blocks let the pool go once round and more.
- *Commands.* Two messages a pipe let one reply be late and a second be taken for it. A
  full pipe only delays.
- *Civ.* The 4-byte message exceeds the 3-byte buffer as a message over 127 bytes
  exceeds the code's, the 2-byte one fits; five bytes hold one whole message and part of
  another.
- *SoapyRead.* Of the requests one is below a unit, one is a block of complex samples, one no
  whole number of units, and one above the MTU of every format. Two streams are the least that
  disturb one another; what a third could do, the second does.
- *Soapy.* Two values, and two that one command cannot tell apart, tell the cache and the radio apart; two threads make every overlap
  of two exchanges.

Symmetry is used only where no liveness property is checked. The only type invariant a
run lists is that of `CivSerial`, which bounds the reply by its buffer; the others are
theorems (that of `SoapyStream` is part of its proofs' invariant). Deadlock is checked except
where the system may stop: a process that has ended (Reader, Server, Civ), or a stream
that is stopped or has used its blocks (Stream).

## Fairness

- *Ring.* A thread inside a call is scheduled: weak fairness of entering, waiting's end
  and notifying, and of the worker's next block while the radio streams. Clients need not
  call. Nothing is assumed of spurious wake-ups.
- *Reader, Server.* Weak fairness of the worker and of every client inside a call, since
  threads are scheduled; strong fairness of the driver delivering a block, since a
  streaming radio fills a transfer now and then although timeouts may come in between.
  Nothing makes a client call, a peer connect or a peer leave.
- *Commands, Civ.* Weak fairness of a caller's own step: every driver or serial
  read and write it waits in has a timeout. The radio owes nothing.
- *Stream.* Weak fairness of the loop's handlers and of the disk, and of `run_for`'s return once
  nothing is left to wait for. The device owes nothing, and the recording time need not end.
- *Soapy, SoapyRead.* None; their properties are safety.

## What is proved

TLAPS checks these for every value of the constants that satisfies the named
assumptions (`SizesAssumption`, `ThreadsAssumption`, `LabelsAssumption`,
`ReaderAssumption`, `WorkerAssumption`, `CivAssumption` and the like in the modules, and
those a theorem states itself).

| Theorem | Says | Argument |
|---|---|---|
| `BlockingRingBufferProofs!TypeCorrect` | indices stay in the ring for every size, so every `memcpy` is in bounds | inductive with the critical sections' guards; `FillRange`, `ModuloSize`, `TailAdvances`, `HeadAdvances` do the arithmetic modulo the capacity once |
| `…!SamplesAccounted` | the indices account for what was written and not read | inductive with `TypeOK`; `LabelsMove` carries the arithmetic modulo the labels, which exceed the capacity |
| `…!DamageIsConfined` | any blocks of which one is the largest: the wrong offset damages only the slots a block wraps into, and stays in the block | `AllConfined` is inductive with `Accounting`, which says which label the slot a sample goes to is owed; `OffsetError` does the arithmetic of one sample, `MovedOn` that of a read |
| `…!SizeIsReadable` | the only reader can read the size it saw | `LoadsTrue`: `head_` is still what it loaded, since it alone moves it, and from a loaded `tail_` only the writer has moved on |
| `…!NoLostWakeup` | one writer, one reader: no notification is lost, whatever the sizes | inductive with `TypeOK`, one half for each side: what makes a sleeper's condition true is a step of the only other thread, which is then about to notify |
| `…!NoLostWakeupShared` | one writer and any finite number of readers of one size, no block larger: no notification is lost, whichever reader it wakes | `EnoughAlert`: while a reader sleeps, the threads that are awake or about to notify (`Alert`) outnumber the whole reads in the ring; counted by cardinalities (`AlertChange`, `AlertKept`), since a read takes one such thread away and may leave the samples of another |
| `…!NoMutualWait` | any numbers of writers and readers, any mixture of sizes that fit together: they never all wait for each other | `ReadersCalled`, `WritersCalled`: what remains of no wake-up being lost when the counts differ. With enough for every count, one thread is up or about to be woken. All asleep would need too little for some read and some block at once |
| `…!Implementation` | the ring implements `SampleQueue`, for any threads | refinement mapping `fill <- available_data`, `want <- Pending`; `QueueStep` takes each action to a step of the queue or a stutter |
| `IQAsyncReaderProofs!TypeCorrect` | any number of clients | |
| `…!StartFindsNoThread` | one client: a start or a destructor loses a thread only in the worker's own stop | `ThreadInv` relates the client's place, `_running` and the worker's place; the property is not inductive without it, since it speaks of one moment |
| `…!NoReadBehindAbort` | any number of clients: once the aborts are done, a worker whose `_running` is down waits for room, for a read whose abort failed, or for nothing | `WaitInv`: a worker that waits for a transfer has queued one, and if that is pending with `_running` down, the client that lowered it has its abort still before it |
| `…!WorkerHasAnEnd` | any number of clients, any driver: the worker winds down | `StepsLeft` is a measure over the worker's loop (`WindingDown`); types suffice |
| `…!NoRingDeadlock` | any number of clients whose reads fit the ring beside any block: a worker without room feeds every reader | arithmetic on `WaitInv`, which says that only the sizes of the constants are asked for |
| `…!NoBlockAfterStops`, `…!WorkerLeavesWhenCalled` | any number of clients: no block behind a stop; the worker leaves only when it is called for | `Called`: while there is a worker and `_running` is down, some client is before its join, or is the start that has not raised the flag; a client that raises or lowers the flag, and one that joins, is looked at by itself (`CalledClient`, `CalledWorker`) |
| `TCPServerProofs!ToolsUseReader`, `…!ServerTypeCorrect` | the tools are clients of the reader; their types | each step of a tool is one of the reader's or leaves the port alone; the reader's types then follow from its own theorem |
| `…!ToolsInherit` | any number of connections: `StopLeavesNoWait`, `WorkerWindsDown`, `NoBlockBehindStop` and `LeavesWhenCalled` hold in the tools | the reader's theorems, by `ToolsUseReader` |
| `…!IdleIsClean` | any number of connections: the last handler leaves a stopped reader and an empty ring | `Answerable`: while `_running` is up some handler has its stop before it, while there is a thread its join, while there are samples its clear. Handlers may undo each other's work, but then have their own to do |
| `…!OneHandlerIsSafe` | the client and the pusher never lose a thread or join it twice, up to the destructor | `Alone`: the only handler's place says whether there is a thread |
| `IQStreamProofs!TypeCorrect`, `…!BuffersNeverShared` | any finite pool | `NeverShared` needs also: buffers with the disk are apart, none is away and free, and the one just acquired is fresh (`Apart`, `Away`, `Fresh`) |
| `…!NoBufferLost` | any finite pool: no buffer is lost while the stream runs | `Kept` extends it to before the first read |
| `…!NullOnlyBehindDisk` | the null pointer is met only a whole pool (for CF32, but two) behind the disk | nothing follows the step that meets it, and `Kept` says where the buffers are then; two acquires that fail leave two buffers unaccounted for at most |
| `…!TotalsAccounted` | read = written + failed + outstanding | inductive; a new block's number is not among the outstanding (`Fresh`), so that cardinalities move by one |
| `…!DeadStreamHasAnEnd` | any pool, any number of blocks: a dead stream winds down | `WorkLeft` counts the reports to come; `OneWriteLess` takes one from it |
| `…!StreamHandsOn` | any finite pool: the stream implements `BufferOwnership` | since no buffer is in two hands (`NeverShared` and its invariant), each hand is its owner (`OwnerIs`); one lemma per handler shows the passes it makes (`NativePasses`, `ConvertedPasses`, `DroppedPasses`, `FailedPasses`, `WrittenPasses`), over the one for the next read (`InitiateReadPasses`) |
| `IQCommandsProofs!TypeCorrect` | any callers, settings and room in the pipes | what is left of a queue when a caller gives up fits where it was |
| `…!RepliesMatch` | any callers and settings | until disturbed at most one message is in the two pipes, and the call it belongs to waits for it (`Quiet`) |
| `…!SuccessIsEarned` | a reported success is the radio's, or another's reply | `Honest`: an ACK in the pipe whose sender still waits means that its command was obeyed |
| `CivSerialProofs!TypeCorrect` | a reply never outgrows the buffer | a caller that still reads has room for one more byte (`Typed`) |
| `…!AnswersOwn` | any sizes: an undisturbed call gets its whole answer and nothing else | `AnswerInv`: reply, line and what is under way are together exactly the one answer, in order; `ByteMoves` moves a byte from each to the next |
| `…!RepliesFramed` | any sizes: replies never join two messages | the line is always in frames (each head after an end, and the last message complete), and a call in the middle of a reply is in the middle of a message, its next byte being no head (`LineFramed`); lemmas on concatenation, arrival and taking a byte carry frames through every step |
| `…!OpenIsUsable` | any life of an object | `ObjectInv`: what the number of inits and how they ended say of the port |
| `SoapyDeviceProofs!TypeCorrect` | any threads, frequencies, antennas | |
| `…!FrequencyIsTrue`, `…!AntennaIsTrue`, `…!FlagIsTrue` | caches and flag are true but for what `doubt` names, for any value of the uninitialised `_vfo` | until replies are confused one exchange is under way at most and is answered (`Orderly`); what the radio did is known from the answer that waits (`CarriedOut`), and what is cached is true or about to be overwritten by it (`Kept`). Actions are sorted by what they touch (`OutsideStep`, `SentStep`, `ObeyStep`, `FinishStep`) |
| `…!VainReads` | reads that wait in vain began in the gap | `WaitsAreLate` with the above |
| `…!DeactivationStops` | a deactivation that returns has stopped the radio | an action property of the same invariant |
| `SoapyStreamProofs!MemoryIsRespected`, `…!FloatsAreDelivered`, `…!MTUReadsOneBlock` | any streams, requests, unit and block | while nobody disturbs, whoever assigns the format assigns this stream's own, so that every look sees it (`OthersAgree`, `FormatIsOwn`); `Sizes` gives the numbers at each place, and `NotPast` that the comparison that holds is still to come; `RoundedDown` does the division |

Every safety property the passing runs check is thus stated by a theorem. Only model-checked:
the liveness properties, since fairness and ENABLED are beyond the prover. What they rest on
is proved where it is safety: `StopEndsOrRingFull` and `HandlersEnd` on `NoReadBehindAbort`
and `WorkerHasAnEnd` (no wait without an end but for room, and a measure that falls),
`ReadReturns` and `ServesCalls` on the two theorems of lost wake-ups and `NoMutualWait`,
`DeadStreamEndsRecording` on `DeadStreamHasAnEnd`. No theorem covers the wake-ups of several
readers that read different sizes: there a notification can be lost, which is why
`NoLostWakeupShared` asks for one. Facts about what a recursive definition
computes would need induction over data, which the prover does not do here; no
module uses recursion.

## Findings

Each is shown by a run that states what the repository says and finds it false.

1. `RingDelivery` (`src/include/BlockingRingBuffer.hpp:113`): a read that does not wrap
   reports samples it has not copied; the `memcpy` is commented out.
2. `ReaderStopKills` (`src/src/IcomIQPort.cpp:1157`): a client's stop aborts the pending read
   and waits in its join; the worker takes the aborted read for a failure, calls `iqAsyncStop`
   and joins itself.
3. `ReaderStrayRead` (`:1094`): a worker queues a read just behind the abort of the stop that
   waits for it, finds `_running` down and returns with the read pending on its own stack.

Met while modelling, and modelled as the code has them, without a run of their own:

- `BlockingRingBuffer.hpp:80` adds a number of samples to a byte pointer (`DamageConfined`
  bounds what it does).
- A stop hangs on a full ring nobody reads (`StopEndsOrRingFull` excepts it). Two
  connections that start at once end the server; two that stop join one thread twice
  (`OneHandlerJoinsOnce` excepts the server).
- `IcomIQPort.cpp:937`: `_running` is raised after the worker has started; a worker quick enough
  to see it down leaves, its first read pending, and every later start is refused
  (`LeavesWhenCalled` excepts the worker, `HandlersEnd` the read that then waits).
- `IcomIQPort.cpp:62-69`: `init` takes a handle that was closed for one that `FT_Create` has
  opened, since only null tells it of a failure.
- `IcomIQStream.hpp:258-261` gives the disk the first output buffer twice; the second never
  reaches it.
- `IC7610TCPServer.cpp:346` reads the port operand through `optarg`, null by then. The pusher's wide formats copy
  from a buffer of the narrow one (`IC7610zmqPush.cpp`).
- `SigMFFileWriter.cpp:478` constructs the stream without the data type that `-t` puts into the
  metadata.
- The Application Note asks for one command at a time; after a timeout the port
  itself breaks the pairing (`MixedOnlyDisturbed`).
- `IC7610SDR_Streaming.cpp:342` streams the receiver that the uninitialised `_vfo` names; the
  "vfo" argument, "Main or Sub vfo (default MAIN)" (`IC7610SDR_Settings.cpp:32`), only reaches
  `_rx_stream._vfo`. A device made for main streams sub as soon as the byte is 1, and nothing
  when it is 255.
- `IC7610SDR_Streaming.cpp`: 360's "active reader,
  return -1" never happens; 402-404, a read of an inactive stream, should time out and fails at
  once; 476 and 488 copy from the caller's buffer; 210-211, no format is ever refused.
- `CIVPort_test.cpp` says a reply is a whole packet or empty; partial replies are returned.
  `sendCIVCmd` returns the full size although a write may have been partial.

## Not modelled

- The vendored FTDI header and libserialport: external, by what the code uses of them.
- The SoapySDR driver's gains (stubs in the code), names and ranges; descriptor queries,
  `setTimeout` and the stream-pipe calls of `IcomIQPort`, which pass a call to the FTDI driver
  and keep nothing; the recorder's options and its metadata file; log text. They have no
  control of their own. Sample values are not modelled, only where they go.
- `findIcomCIVPort`, which always throws; `BufferMGR.hpp`, which nothing includes; the
  device finder, the tests, GNU Radio blocks and notes.
- Weak memory: `_running` is atomic; the other members (`_read_thread`, `_iqDataEnabled`, the
  caches) are plain and are modelled as read and written in some order of steps.

## Plan

Done so far, in order: ring and queue; reader; disk stream; commands; SoapySDR
device; tools; CI-V port; the ring's size without its lock; how the tools begin and end;
streams of the SoapySDR driver; the end of a recording; the theorems above.

Left, in the order of what it would add:

1. `MixedOnlyDisturbed` under the tools: a contract of one exchange that `IQCommands`
   implements and `SoapyDevice` uses, as `SampleQueue` is for the ring, with the server's
   settings and its handlers' commands as callers of `IQCommands`. The models now only share
   what an exchange may do.
2. The recorder's options and its metadata, should they be tested or documented.
3. A stream that stops by itself, should the repository promise its user anything of it.
