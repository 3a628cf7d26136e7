--------------------------- MODULE IQAsyncReader ---------------------------
(***************************************************************************)
(* The asynchronous reader of IcomIQPort (src/IcomIQPort.cpp): the thread  *)
(* that keeps one overlapped read on the IQ pipe and copies each block to  *)
(* the sample ring, and the calls of the clients around it: iqAsyncStart,  *)
(* iqAsyncStop, iqReadBuf, iqClearReadBuf, init, close and the destructor. *)
(*                                                                         *)
(* The ring is the SampleQueue that BlockingRingBuffer implements.  The    *)
(* FTDI driver is external: a pending transfer ends with one of            *)
(* DriverResults, and an aborted one fails.  The commands that switch the  *)
(* radio's IQ output on and off are exchanges that may be answered or not, *)
(* carried out or not.                                                     *)
(***************************************************************************)
EXTENDS Naturals, FiniteSets

CONSTANTS Clients,        \* threads that call the port
          BuffSize,       \* samples the ring holds
          BlockSizes,     \* samples a completed transfer carries
          ReadSizes,      \* samples a client reads
          DriverResults   \* how a transfer may end by itself

ASSUME ReaderAssumption ==
    /\ BuffSize \in Nat \ {0}
    /\ BlockSizes \subseteq Nat \ {0}
    /\ ReadSizes \subseteq Nat \ {0}
    /\ DriverResults \subseteq {"data", "empty", "ragged", "timeout", "failed"}

Worker == "iqAsyncReadWorker"
ASSUME WorkerAssumption == Worker \notin Clients

VARIABLES handle,      \* ftHandle and _isOpen: "open", "stale" when _isOpen is up over a handle
                       \* the driver does not know, "closed" when it is down, "destroyed"
          enabled,     \* _iqDataEnabled
          running,     \* _running
          worker,      \* where _read_thread is; "absent" when it is not joinable
          transfer,    \* the worker's overlapped read
          block,       \* samples the finished transfer left in temp_buffer
          stray,       \* a read is pending on the temp_buffer of a worker that is gone
          pc,          \* where each client is
          fault,       \* what ended the process, or "none"
          streaming,   \* the radio sends IQ data
          fill, want   \* the sample ring

portVars == <<handle, enabled, running>>
deviceVars == <<transfer, block, stray>>
ringVars == <<fill, want>>
vars == <<portVars, worker, deviceVars, pc, fault, streaming, ringVars>>

Ring == INSTANCE SampleQueue WITH
           Writers <- {Worker}, Readers <- Clients, WriteSizes <- BlockSizes

WorkerAt == {"absent", "queue", "test", "wait", "copy", "selfStop", "done"}
ClientAt == {"idle", "enabling", "spawn", "setRunning", "abort", "join", "disable",
             "reading", "closing", "closeEnd", "destroying", "destroyJoin", "gone"}
Faults == {"none", "selfJoin", "lostThread", "doubleJoin", "badJoin", "thrown", "strayWrite"}

\* The worker's function has not returned.
Alive == worker \notin {"absent", "done"}

\* _isOpen
IsOpen == handle \in {"open", "stale"}

\* The driver has the worker's read; an FT_AbortPipe for an unaborted one has failed.
Pending == transfer \in {"pending", "unaborted"}

TypeOK ==
    /\ handle \in {"open", "stale", "closed", "destroyed"}
    /\ enabled \in BOOLEAN
    /\ running \in BOOLEAN
    /\ worker \in WorkerAt
    /\ transfer \in {"none", "pending", "unaborted", "data", "empty", "ragged", "timeout",
                      "failed"}
    /\ block \in BlockSizes \cup {0}
    /\ stray \in BOOLEAN
    /\ pc \in [Clients -> ClientAt]
    /\ fault \in Faults
    /\ streaming \in BOOLEAN
    /\ Ring!QueueTypeOK

\* The port as constructed: not opened, IQ data off, no thread.
Init ==
    /\ handle = "closed"
    /\ enabled = FALSE
    /\ running = FALSE
    /\ worker = "absent"
    /\ transfer = "none"
    /\ block = 0
    /\ stray = FALSE
    /\ pc = [c \in Clients |-> "idle"]
    /\ fault = "none"
    /\ streaming = FALSE
    /\ Ring!QueueInit

Goto(c, from, to) ==
    /\ pc[c] = from
    /\ pc' = [pc EXCEPT ![c] = to]

-----------------------------------------------------------------------------
(* iqAsyncReadWorker                                                       *)

\* FT_ReadPipe, first or again: its status is not looked at.
QueueRead ==
    /\ worker = "queue"
    /\ transfer' = IF handle = "open" THEN "pending" ELSE "failed"
    /\ worker' = "test"
    /\ UNCHANGED <<portVars, block, stray, pc, fault, streaming, ringVars>>

\* Faulty variant: the loop does not look at _running.
TestRunning_Not ==
    /\ worker = "test"
    /\ worker' = "wait"
    /\ UNCHANGED <<portVars, deviceVars, pc, fault, streaming, ringVars>>

\* while (_running); a thread that leaves does not wait for the read it has queued.
TestRunning ==
    /\ worker = "test"
    /\ worker' = IF running THEN "wait" ELSE "done"
    /\ IF running
       THEN UNCHANGED <<transfer, stray>>
       ELSE transfer' = "none" /\ stray' = (stray \/ Pending)
    /\ UNCHANGED <<portVars, block, pc, fault, streaming, ringVars>>

\* FT_GetOverlappedResult returned a block: writebuf is called with it.
TakeBlock ==
    /\ worker = "wait"
    /\ transfer = "data"
    /\ transfer' = "none"
    /\ worker' = "copy"
    /\ Ring!Ask(Worker, block)
    /\ UNCHANGED <<portVars, block, stray, pc, fault, streaming>>

\* writebuf returns: the block is in the ring.
CopyBlock ==
    /\ worker = "copy"
    /\ Ring!Put(Worker)
    /\ worker' = "queue"
    /\ UNCHANGED <<portVars, deviceVars, pc, fault, streaming>>

\* A number of bytes that is not a whole number of samples: an exception no one catches.
ThrowRagged ==
    /\ worker = "wait"
    /\ transfer = "ragged"
    /\ fault' = "thrown"
    /\ UNCHANGED <<portVars, worker, deviceVars, pc, streaming, ringVars>>

\* Faulty variant: after a timeout the loop goes on without a new read.
RetryTimeout_NoRead ==
    /\ worker = "wait"
    /\ transfer = "timeout"
    /\ transfer' = "none"
    /\ worker' = "test"
    /\ UNCHANGED <<portVars, block, stray, pc, fault, streaming, ringVars>>

\* A timeout only queues the read again.
RetryTimeout ==
    /\ worker = "wait"
    /\ transfer = "timeout"
    /\ transfer' = "none"
    /\ worker' = "queue"
    /\ UNCHANGED <<portVars, block, stray, pc, fault, streaming, ringVars>>

\* Faulty variant: the loop is left without a stop.
GiveUp_Breaks ==
    /\ worker = "wait"
    /\ transfer \in {"failed", "empty"}
    /\ transfer' = "none"
    /\ worker' = "done"
    /\ UNCHANGED <<portVars, block, stray, pc, fault, streaming, ringVars>>

\* Any other status, and a transfer of no bytes, make the worker call iqAsyncStop itself.
GiveUp ==
    /\ worker = "wait"
    /\ transfer \in {"failed", "empty"}
    /\ transfer' = "none"
    /\ worker' = "selfStop"
    /\ running' = FALSE
    /\ UNCHANGED <<handle, enabled, block, stray, pc, fault, streaming, ringVars>>

\* _read_thread.join() from that very thread throws, and no one catches it.
JoinSelf ==
    /\ worker = "selfStop"
    /\ fault' = "selfJoin"
    /\ UNCHANGED <<portVars, worker, deviceVars, pc, streaming, ringVars>>

WorkerStep ==
    QueueRead \/ TestRunning \/ TakeBlock \/ CopyBlock \/ ThrowRagged
      \/ RetryTimeout \/ GiveUp \/ JoinSelf

-----------------------------------------------------------------------------
(* The driver (external)                                                   *)

\* The radio's data fills the worker's buffer.
DeliverBlock ==
    /\ Pending
    /\ streaming
    /\ "data" \in DriverResults
    /\ transfer' = "data"
    /\ block' \in BlockSizes
    /\ UNCHANGED <<portVars, worker, stray, pc, fault, streaming, ringVars>>

\* A transfer ends without usable data.
EndTransfer ==
    /\ Pending
    /\ transfer' \in DriverResults \ {"data"}
    /\ block' = 0
    /\ UNCHANGED <<portVars, worker, stray, pc, fault, streaming, ringVars>>

\* Data arrives for the read of a worker whose stack is gone.
DeliverStray ==
    /\ stray
    /\ streaming
    /\ fault' = "strayWrite"
    /\ UNCHANGED <<portVars, worker, deviceVars, pc, streaming, ringVars>>

DriverStep == DeliverBlock \/ EndTransfer \/ DeliverStray

\* FT_AbortPipe(IQ_IN): what is pending fails, or the abort does, and nothing changes
\* but that this is known of the read.
AbortPipe ==
    \/ /\ transfer' = IF Pending THEN "failed" ELSE transfer
       /\ stray' = FALSE
    \/ /\ transfer' = IF Pending THEN "unaborted" ELSE transfer
       /\ UNCHANGED stray

-----------------------------------------------------------------------------
(* The clients                                                             *)

\* A command to the radio: whether a reply, any reply, was read, and whether it was obeyed.
Exchange(replied, acted) == handle # "open" => ~replied /\ ~acted

\* Faulty variant: a second start is not refused.
StartCall_NoTest(c) ==
    /\ IsOpen
    /\ Goto(c, "idle", "enabling")
    /\ UNCHANGED <<portVars, worker, deviceVars, fault, streaming, ringVars>>

\* iqAsyncStart, up to its two tests; it returns false when either fails.
StartCall(c) ==
    /\ IsOpen
    /\ ~running
    /\ Goto(c, "idle", "enabling")
    /\ UNCHANGED <<portVars, worker, deviceVars, fault, streaming, ringVars>>

\* enableIQData: a reply of any kind, ACK or NAK, counts as enabled.
EnableData(c) ==
    /\ \/ /\ enabled
          /\ Goto(c, "enabling", "spawn")
          /\ UNCHANGED <<enabled, streaming>>
       \/ /\ ~enabled
          /\ \E replied, acted \in BOOLEAN :
               /\ Exchange(replied, acted)
               /\ Goto(c, "enabling", IF replied THEN "spawn" ELSE "idle")
               /\ enabled' = replied
               /\ streaming' = (streaming \/ acted)
    /\ UNCHANGED <<handle, running, worker, deviceVars, fault, ringVars>>

\* _read_thread = std::thread(...): assigning to a joinable thread ends the process.
SpawnWorker(c) ==
    /\ Goto(c, "spawn", "setRunning")
    /\ IF worker = "absent"
       THEN worker' = "queue" /\ UNCHANGED fault
       ELSE fault' = "lostThread" /\ UNCHANGED worker
    /\ UNCHANGED <<portVars, deviceVars, streaming, ringVars>>

\* _running = true, after the thread was started.
SetRunning(c) ==
    /\ Goto(c, "setRunning", "idle")
    /\ running' = TRUE
    /\ UNCHANGED <<handle, enabled, worker, deviceVars, fault, streaming, ringVars>>

StopCall(c) ==
    /\ Goto(c, "idle", "abort")
    /\ running' = FALSE
    /\ UNCHANGED <<handle, enabled, worker, deviceVars, fault, streaming, ringVars>>

\* Faulty variant: the pending read is left alone.
StopAbort_NoAbort(c) ==
    /\ Goto(c, "abort", "join")
    /\ fault' = IF worker # "absent" /\ \E d \in Clients : pc[d] = "join"
                THEN "doubleJoin" ELSE fault
    /\ UNCHANGED <<portVars, worker, deviceVars, streaming, ringVars>>

\* The three FT_AbortPipe calls, whose failures are only logged; two threads that join one
\* thread are undefined behaviour.
StopAbort(c) ==
    /\ Goto(c, "abort", "join")
    /\ AbortPipe
    /\ fault' = IF worker # "absent" /\ \E d \in Clients : pc[d] = "join"
                THEN "doubleJoin" ELSE fault
    /\ UNCHANGED <<portVars, worker, block, streaming, ringVars>>

\* Faulty variant: the thread is not waited for.
StopJoin_NoWait(c) ==
    /\ Goto(c, "join", "disable")
    /\ UNCHANGED <<portVars, worker, deviceVars, fault, streaming, ringVars>>

\* if (joinable) join: waits until the worker's function has returned.
StopJoin(c) ==
    /\ ~Alive
    /\ Goto(c, "join", "disable")
    /\ worker' = "absent"
    /\ UNCHANGED <<portVars, deviceVars, fault, streaming, ringVars>>

\* disableIQData: without a reply the flag stays up.
DisableData(c) ==
    /\ Goto(c, "disable", "idle")
    /\ \E replied, acted \in BOOLEAN :
         /\ Exchange(replied, acted)
         /\ enabled' = (enabled /\ ~replied)
         /\ streaming' = (streaming /\ ~acted)
    /\ UNCHANGED <<handle, running, worker, deviceVars, fault, ringVars>>

\* iqReadBuf waits in readbuf until the ring holds the samples.
ReadCall(c, n) ==
    /\ Goto(c, "idle", "reading")
    /\ Ring!Ask(c, n)
    /\ UNCHANGED <<portVars, worker, deviceVars, fault, streaming>>

ReadReturn(c) ==
    /\ Goto(c, "reading", "idle")
    /\ Ring!Take(c)
    /\ UNCHANGED <<portVars, worker, deviceVars, fault, streaming>>

\* iqClearReadBuf
ClearCall(c) ==
    /\ pc[c] = "idle"
    /\ Ring!Empty
    /\ UNCHANGED <<portVars, worker, deviceVars, pc, fault, streaming>>

\* close, when _isOpen is up, aborts the pipes; the worker is not told.
CloseCall(c) ==
    /\ IsOpen
    /\ Goto(c, "idle", "closing")
    /\ AbortPipe
    /\ UNCHANGED <<portVars, worker, block, fault, streaming, ringVars>>

\* FT_Close, which ends a read that was queued behind the abort, or outlived it.
CloseHandle(c) ==
    /\ Goto(c, "closing", "closeEnd")
    /\ handle' = IF handle = "open" THEN "stale" ELSE handle
    /\ transfer' = IF Pending THEN "failed" ELSE transfer
    /\ stray' = FALSE
    /\ UNCHANGED <<enabled, running, worker, block, fault, streaming, ringVars>>

\* _isOpen = false
CloseEnd(c) ==
    /\ Goto(c, "closeEnd", "idle")
    /\ handle' = "closed"
    /\ UNCHANGED <<enabled, running, worker, deviceVars, fault, streaming, ringVars>>

\* init, first or again, when it does not throw; _iqDataEnabled keeps its value.  ftHandle
\* tells a failed FT_Create only if it was null: a handle that was closed, or was never
\* written in a port that is not a global, is taken for an open one.  Where init throws it
\* has changed nothing of this; a bound: it is not called while another client closes.
InitCall(c) ==
    /\ pc[c] = "idle"
    /\ handle \in {"closed", "stale"}
    /\ \A d \in Clients : pc[d] \notin {"closing", "closeEnd"}
    /\ handle' \in {"open", "stale"}
    /\ UNCHANGED <<enabled, running, worker, deviceVars, pc, fault, streaming, ringVars>>

\* The destructor, when no other client uses the port: abort, then join if _running.
DestroyCall(c) ==
    /\ \A d \in Clients \ {c} : pc[d] \in {"idle", "gone"}
    /\ Goto(c, "idle", "destroying")
    /\ AbortPipe
    /\ UNCHANGED <<portVars, worker, block, fault, streaming, ringVars>>

\* if (_running), and when it is down FT_Close and the end of the members: the end of
\* a joinable std::thread ends the process.
DestroyTest(c) ==
    /\ pc[c] = "destroying"
    /\ \/ /\ running
          /\ pc' = [pc EXCEPT ![c] = "destroyJoin"]
          /\ UNCHANGED <<handle, fault>>
       \/ /\ ~running
          /\ pc' = [d \in Clients |-> "gone"]
          /\ handle' = "destroyed"
          /\ fault' = IF worker = "absent" THEN "none" ELSE "badJoin"
    /\ UNCHANGED <<enabled, running, worker, deviceVars, streaming, ringVars>>

\* _read_thread.join() without a test: joining no thread throws.
DestroyJoin(c) ==
    /\ pc[c] = "destroyJoin"
    /\ ~Alive
    /\ pc' = [d \in Clients |-> "gone"]
    /\ handle' = "destroyed"
    /\ worker' = "absent"
    /\ fault' = IF worker = "absent" THEN "badJoin" ELSE "none"
    /\ UNCHANGED <<enabled, running, deviceVars, streaming, ringVars>>

\* The steps of a client inside a call, and the calls it may make.
InCall(c) ==
    EnableData(c) \/ SpawnWorker(c) \/ SetRunning(c) \/ StopAbort(c) \/ StopJoin(c)
      \/ DisableData(c) \/ ReadReturn(c) \/ CloseHandle(c) \/ CloseEnd(c)
      \/ DestroyTest(c) \/ DestroyJoin(c)

ClientStep(c) ==
    InCall(c) \/ StartCall(c) \/ StopCall(c) \/ (\E n \in ReadSizes : ReadCall(c, n))
      \/ ClearCall(c) \/ CloseCall(c) \/ InitCall(c) \/ DestroyCall(c)

-----------------------------------------------------------------------------

\* Nothing runs after the process has ended.
Next ==
    /\ fault = "none"
    /\ \/ WorkerStep
       \/ DriverStep
       \/ \E c \in Clients : ClientStep(c)

Spec == Init /\ [][Next]_vars

(***************************************************************************)
(* The threads are scheduled: the worker, and a client inside a call, take *)
(* the steps they can.  The radio, while it streams, fills a transfer now  *)
(* and then, although the driver may report timeouts in between.           *)
(***************************************************************************)
Running(A) == fault = "none" /\ A

Fairness ==
    /\ WF_vars(Running(WorkerStep))
    /\ \A c \in Clients : WF_vars(Running(InCall(c)))
    /\ SF_vars(Running(DeliverBlock))

FairSpec == Spec /\ Fairness

-----------------------------------------------------------------------------
(* Properties, for any number of clients                                   *)

\* The worker waits in writebuf for room in a full ring.
WorkerBlocked == worker = "copy" /\ fill + want[Worker] > BuffSize

(***************************************************************************)
(* Each stop lowers _running before it aborts the pipe, so that no read is *)
(* queued behind the abort's back and then waited for: once the aborts are *)
(* done and _running is still down, the worker waits for no transfer, and  *)
(* for nothing else that will not come, except room in the ring, or the    *)
(* driver with a read whose abort it has failed.                           *)
(***************************************************************************)
StopLeavesNoWait ==
    (fault = "none" /\ ~running /\ \A c \in Clients : pc[c] # "abort") =>
        /\ worker = "wait" => transfer \notin {"none", "pending"}
        /\ worker = "copy" => want[Worker] > 0

\* The steps a worker takes at most, where it is, when _running is down.
StepsLeft ==
    [absent |-> 0, done |-> 0, test |-> 1, selfStop |-> 1, queue |-> 2, copy |-> 3,
     wait |-> 4][worker]

(***************************************************************************)
(* While _running is down every step of the worker brings it nearer to its *)
(* end, whatever the driver reports and the clients do meanwhile: the loop *)
(* tests the flag between any two waits.                                   *)
(***************************************************************************)
WorkerWindsDown ==
    [][Alive /\ ~running /\ ~running' =>
           UNCHANGED worker \/ StepsLeft' < StepsLeft]_vars

(***************************************************************************)
(* The worker and a client never wait for each other: when a block does    *)
(* not fit, every read that waits can be served.  It needs blocks and      *)
(* reads that fit together: BlockSizes + ReadSizes <= BuffSize + 1.        *)
(***************************************************************************)
BlockedWorkerFeeds ==
    WorkerBlocked => \A c \in Clients : pc[c] = "reading" => want[c] <= fill

(***************************************************************************)
(* However many clients start and stop the port, no block reaches the ring *)
(* behind a stop: while _running is down a block still comes only for a    *)
(* stop that has not returned from its join, and after that none does.     *)
(***************************************************************************)
NoBlockBehindStop ==
    [][fill' > fill /\ ~running => \E c \in Clients : pc[c] \in {"abort", "join"}]_vars

(***************************************************************************)
(* The worker returns only when it is called for: for a stop that has yet  *)
(* to join it or, the one exception, because it looked at _running before  *)
(* iqAsyncStart had raised it.  It leaves on no result of the driver's,    *)
(* and never behind the back of a port that reports it running.            *)
(***************************************************************************)
LeavesWhenCalled ==
    [][worker # "done" /\ worker' = "done" =>
           \E c \in Clients : pc[c] \in {"setRunning", "abort", "join"}]_vars

-----------------------------------------------------------------------------
(* Properties, for one client                                              *)

(***************************************************************************)
(* _running, set by three different threads of control and tested without  *)
(* a lock, keeps one client from starting a thread over another, and its   *)
(* destructor from joining no thread or leaving a joinable one behind: the *)
(* only way to lose one is a start, or the end of the port, that falls     *)
(* between the two halves of the worker's own iqAsyncStop.                 *)
(***************************************************************************)
ThreadLostOnlyGivingUp == fault \in {"lostThread", "badJoin"} => worker = "selfStop"

(***************************************************************************)
(* iqAsyncStop comes back from join, or the process ends, or the worker is *)
(* the one that waits: in writebuf, for room in a full ring, or for a read *)
(* whose abort has failed.  There is no other hang.                        *)
(***************************************************************************)
StopEndsOrRingFull ==
    \A c \in Clients :
        pc[c] = "join" ~>
            pc[c] # "join" \/ fault # "none" \/ WorkerBlocked \/ transfer = "unaborted"

(***************************************************************************)
(* A client that waits in iqReadBuf is served as long as the radio streams *)
(* and the worker lives, whatever timeouts the driver reports.             *)
(***************************************************************************)
ReadersFed ==
    \A c \in Clients :
        pc[c] = "reading" ~> pc[c] # "reading" \/ fault # "none" \/ ~streaming \/ ~Alive

-----------------------------------------------------------------------------
(* What the interface says, and the code does not do                       *)

(* "stop asynchronous processing" (Application Note, of iqAsyncStop): with *)
(* a driver that never fails, the process does not end while a client      *)
(* waits in a stop of an open port.                                        *)
StopKeepsProcess ==
    fault = "selfJoin" /\ handle = "open" => \A c \in Clients : pc[c] # "join"

(* "stop asynchronous processing": the worker that a stop waits for does   *)
(* not return with a read pending that the stop has not tried to abort.    *)
NoReadLeftByStop ==
    [][worker = "test" /\ worker' = "done" /\ transfer = "pending" =>
           \A c \in Clients : pc[c] # "join"]_vars
=============================================================================
