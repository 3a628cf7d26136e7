------------------------------ MODULE IQStream ------------------------------
(***************************************************************************)
(* IcomIQPortStream (include/IcomIQStream.hpp) and its BufferPool: one     *)
(* read on the IQ pipe at a time, each block written to disk from a buffer *)
(* of the pool while the next read runs.  Everything but the device and    *)
(* the disk happens in the handlers of one event loop, so a handler is one *)
(* step, and the steps interleave with completions in any order.           *)
(*                                                                         *)
(* A native block (S16) is written from the buffer it was read into.  A    *)
(* CF32 block is converted into two more buffers.  A CF64 block is dropped *)
(* with its buffer.  Blocks are counted, not their bytes.                  *)
(***************************************************************************)
EXTENDS Naturals, FiniteSets

CONSTANTS Buffers,    \* the pool's buffers (16 in the code)
          NoBuffer,   \* nullptr
          Formats,    \* output types the stream is constructed with
          MaxBlocks   \* bound: blocks the device delivers

ASSUME StreamAssumption ==
    /\ IsFiniteSet(Buffers)
    /\ Formats \subseteq {"S16", "CF32", "CF64"}
    /\ MaxBlocks \in Nat

ASSUME NoBufferAssumption == NoBuffer \notin Buffers

VARIABLES format,       \* outType
          free,         \* how often each buffer is in freeBuffers
          target,       \* overlapped.buffer
          read,         \* the overlapped read, or what its event will report
          enabled,      \* _iqDataEnabled
          writes,       \* writes[k]: the buffers the disk still reads block k from
          total_read,   \* blocks read
          total_write,  \* blocks whose write was reported and counted
          failed,       \* blocks whose write was reported to have failed
          looping,      \* ctx.run_for has not returned
          fault         \* a null buffer was dereferenced

vars == <<format, free, target, read, enabled, writes, total_read, total_write, failed,
          looping, fault>>

Blocks == 1 .. MaxBlocks
Outstanding == {k \in Blocks : writes[k] # {}}

TypeOK ==
    /\ format \in Formats
    /\ free \in [Buffers -> Nat]
    /\ target \in Buffers \cup {NoBuffer}
    /\ read \in {"none", "pending", "data", "failed"}
    /\ enabled \in BOOLEAN
    /\ writes \in [Blocks -> SUBSET Buffers]
    /\ total_read \in 0 .. MaxBlocks
    /\ total_write \in Nat
    /\ failed \in Nat
    /\ looping \in BOOLEAN
    /\ fault \in BOOLEAN

Init ==
    /\ format \in Formats
    /\ free = [b \in Buffers |-> 1]
    /\ target = NoBuffer
    /\ read = "none"
    /\ enabled = FALSE
    /\ writes = [k \in Blocks |-> {}]
    /\ total_read = 0
    /\ total_write = 0
    /\ failed = 0
    /\ looping = TRUE
    /\ fault = FALSE

-----------------------------------------------------------------------------
(* BufferPool.  acquire returns the top of a stack, null when it is empty; *)
(* release pushes whatever it is given.  The order of the stack is         *)
(* abstracted: any of the buffers in it may be the top.                    *)

Acquirable(pool) == {b \in Buffers : pool[b] > 0}
acquire(pool, b) == [pool EXCEPT ![b] = @ - 1]
release(pool, S) == [b \in Buffers |-> IF b \in S THEN pool[b] + 1 ELSE pool[b]]

-----------------------------------------------------------------------------

(***************************************************************************)
(* initiate_read: enable the radio's IQ data unless it is (the result is   *)
(* not looked at), take a buffer, dereference it, queue the read.  When    *)
(* the read is refused nothing waits for it and the stream is over.        *)
(***************************************************************************)
initiate_read(pool) ==
    /\ enabled' \in {enabled, TRUE}
    /\ IF Acquirable(pool) = {}
       THEN /\ fault' = TRUE
            /\ free' = pool
            /\ target' = NoBuffer
            /\ read' = "none"
       ELSE /\ \E b \in Acquirable(pool) :
                 free' = acquire(pool, b) /\ target' = b
            /\ read' \in {"pending", "none"}
            /\ UNCHANGED fault

\* start: called once, before the loop runs.
Start ==
    /\ read = "none"
    /\ target = NoBuffer
    /\ initiate_read(free)
    /\ UNCHANGED <<format, writes, total_read, total_write, failed, looping>>

\* The device (external) completes the read with a block, or fails it.
CompleteRead ==
    /\ read = "pending"
    /\ \/ total_read < MaxBlocks /\ enabled /\ read' = "data"
       \/ read' = "failed"
    /\ UNCHANGED <<format, free, target, enabled, writes, total_read, total_write, failed,
                   looping, fault>>

\* Faulty variant: the buffer goes back to the pool as soon as its write has started.
processAndWriteCS16_EarlyRelease ==
    /\ writes' = [writes EXCEPT ![total_read + 1] = {target}]
    /\ initiate_read(release(free, {target}))

\* processAndWriteCS16 and the next initiate_read.
processAndWriteCS16 ==
    /\ writes' = [writes EXCEPT ![total_read + 1] = {target}]
    /\ initiate_read(free)

\* Faulty variant: the input buffer is not released.
processAndWriteCF32_NoRelease ==
    \E raw1 \in Acquirable(free) : \E raw2 \in Acquirable(acquire(free, raw1)) :
        /\ writes' = [writes EXCEPT ![total_read + 1] = {raw1, raw2}]
        /\ initiate_read(acquire(acquire(free, raw1), raw2))

\* Faulty variant: an output buffer is released in place of the input.
processAndWriteCF32_ReleasesOutput ==
    \E raw1 \in Acquirable(free) : \E raw2 \in Acquirable(acquire(free, raw1)) :
        /\ writes' = [writes EXCEPT ![total_read + 1] = {raw1, raw2}]
        /\ initiate_read(release(acquire(acquire(free, raw1), raw2), {raw2}))

(***************************************************************************)
(* processAndWriteCF32 and the next initiate_read: two output buffers are  *)
(* taken, and the input is released once it is converted.  Both are kept   *)
(* for the disk until the write is reported; that the write gathers the    *)
(* contents of raw1 twice and those of raw2 never (lines 258-261) is not   *)
(* told apart here: writes says who may touch a buffer, not what is read.  *)
(***************************************************************************)
processAndWriteCF32 ==
    \E raw1 \in Acquirable(free) : \E raw2 \in Acquirable(acquire(free, raw1)) :
        /\ writes' = [writes EXCEPT ![total_read + 1] = {raw1, raw2}]
        /\ initiate_read(release(acquire(acquire(free, raw1), raw2), {target}))

\* No branch of handle_read_complete writes CF64: the next read takes another buffer.
dropCF64 == initiate_read(free) /\ UNCHANGED writes

\* handle_read_complete, when the read brought data.
handle_read_complete ==
    /\ looping
    /\ read = "data"
    /\ total_read' = total_read + 1
    /\ \/ format = "S16" /\ processAndWriteCS16
       \/ format = "CF32" /\ processAndWriteCF32
       \/ format = "CF64" /\ dropCF64
    /\ UNCHANGED <<format, total_write, failed, looping>>

\* One of the two acquires of processAndWriteCF32 returns null, and is not tested.
convert_without_buffers ==
    /\ looping
    /\ read = "data"
    /\ format = "CF32"
    /\ \A raw1 \in Acquirable(free) : Acquirable(acquire(free, raw1)) = {}
    /\ fault' = TRUE
    /\ UNCHANGED <<format, free, target, read, enabled, writes, total_read, total_write,
                   failed, looping>>

\* Faulty variant: the event of the failed read is waited for again.
handle_read_failed_WaitsAgain ==
    /\ looping
    /\ read = "failed"
    /\ read' = "pending"
    /\ UNCHANGED <<format, free, target, enabled, writes, total_read, total_write, failed,
                   looping, fault>>

\* When the read failed: nothing is reported, and no read follows.
handle_read_failed ==
    /\ looping
    /\ read = "failed"
    /\ read' = "none"
    /\ UNCHANGED <<format, free, target, enabled, writes, total_read, total_write, failed,
                   looping, fault>>

\* Faulty variant: the failure of a write goes unnoticed.
handle_write_complete_CountsErrors(k, ok) ==
    /\ looping
    /\ writes[k] # {}
    /\ free' = release(free, writes[k])
    /\ writes' = [writes EXCEPT ![k] = {}]
    /\ total_write' = total_write + 1
    /\ failed' = failed + (IF ok THEN 0 ELSE 1)
    /\ UNCHANGED <<format, target, read, enabled, total_read, looping, fault>>

\* Faulty variant: the buffers of a failed write are not released.
handle_write_complete_KeepsOnError(k, ok) ==
    /\ looping
    /\ writes[k] # {}
    /\ free' = IF ok THEN release(free, writes[k]) ELSE free
    /\ writes' = [writes EXCEPT ![k] = {}]
    /\ total_write' = total_write + (IF ok /\ format = "S16" THEN 1 ELSE 0)
    /\ failed' = failed + (IF ok THEN 0 ELSE 1)
    /\ UNCHANGED <<format, target, read, enabled, total_read, looping, fault>>

(***************************************************************************)
(* The disk is done with block k, well or not, and the handler runs: the   *)
(* buffers return to the pool.  Only native writes are counted.            *)
(***************************************************************************)
handle_write_complete(k, ok) ==
    /\ looping
    /\ writes[k] # {}
    /\ free' = release(free, writes[k])
    /\ writes' = [writes EXCEPT ![k] = {}]
    /\ total_write' = total_write + (IF ok /\ format = "S16" THEN 1 ELSE 0)
    /\ failed' = failed + (IF ok THEN 0 ELSE 1)
    /\ UNCHANGED <<format, target, read, enabled, total_read, looping, fault>>

\* ctx.run_for returns, and no handler runs any more.
RunForEnds ==
    /\ looping
    /\ target # NoBuffer
    /\ looping' = FALSE
    /\ UNCHANGED <<format, free, target, read, enabled, writes, total_read, total_write,
                   failed, fault>>

\* Before the recording time is over: no read and no write is left to wait for.
OutOfWork == read = "none" /\ Outstanding = {} /\ RunForEnds

Next ==
    /\ ~fault
    /\ \/ Start
       \/ CompleteRead
       \/ handle_read_complete
       \/ convert_without_buffers
       \/ handle_read_failed
       \/ \E k \in Blocks, ok \in BOOLEAN : handle_write_complete(k, ok)
       \/ RunForEnds

Spec == Init /\ [][Next]_vars

\* The loop runs the handlers of what has completed, and the disk completes its writes;
\* nothing says when the device completes a read, or when the recording time is over.
Fairness ==
    /\ WF_vars(~fault /\ (handle_read_complete \/ handle_read_failed))
    /\ WF_vars(~fault /\ \E k \in Blocks, ok \in BOOLEAN : handle_write_complete(k, ok))
    /\ WF_vars(~fault /\ OutOfWork)

FairSpec == Spec /\ Fairness
-----------------------------------------------------------------------------
(* Properties                                                              *)

\* The device fills b, or its data has not been taken out yet.
Reading(b) == target = b /\ read # "none"
Writing(b) == {k \in Blocks : b \in writes[k]}

(***************************************************************************)
(* No buffer is in two hands.  The pool releases what it is given, without *)
(* a test, so nothing but the order of the handlers keeps the device from  *)
(* filling a buffer the disk still reads, or two blocks from sharing one.  *)
(***************************************************************************)
NeverShared ==
    \A b \in Buffers :
        /\ free[b] <= 1
        /\ Reading(b) => free[b] = 0 /\ Writing(b) = {}
        /\ Writing(b) # {} => free[b] = 0
        /\ \A j, k \in Writing(b) : j = k

(***************************************************************************)
(* While the stream runs in a format it writes, no buffer is lost, whether *)
(* the writes succeed or fail.                                             *)
(***************************************************************************)
NothingLeaks ==
    read # "none" /\ ~fault /\ format # "CF64" =>
        \A b \in Buffers : free[b] > 0 \/ Reading(b) \/ Writing(b) # {}

(***************************************************************************)
(* The unchecked null pointer is met only when the disk is a whole pool    *)
(* behind: every buffer waits for it (S16), or all but at most two (CF32,  *)
(* which needs two more at once).                                          *)
(***************************************************************************)
DryOnlyBehindDisk ==
    LET waiting == UNION {writes[k] : k \in Blocks}
    IN /\ fault /\ format = "S16" => waiting = Buffers
       /\ fault /\ format = "CF32" => Cardinality(Buffers \ waiting) <= 2

(***************************************************************************)
(* Every native block the totals count as read is counted as written, was  *)
(* reported as failed, or is still with the disk; the sample count of a    *)
(* recording's metadata is the first of these totals.                      *)
(***************************************************************************)
TotalsAgree ==
    format = "S16" => total_read = total_write + failed + Cardinality(Outstanding)

(***************************************************************************)
(* A read that fails, or is refused, ends the stream without a word.  The  *)
(* recording does not then run to its end for nothing: once the disk has   *)
(* what was read, nothing is left to wait for and run_for returns, without *)
(* a handler that waits for an event that will not come.                   *)
(***************************************************************************)
DeadStreamEndsRecording ==
    (target # NoBuffer /\ read \in {"failed", "none"}) ~> ~looping \/ fault

\* No read is pending or will be started.
Dead == target # NoBuffer /\ read \in {"failed", "none"}

\* What the event loop has still to report.
WorkLeft == Cardinality(Outstanding) + (IF read = "failed" THEN 1 ELSE 0)

(***************************************************************************)
(* No handler of a dead stream starts anything: each of its steps is one   *)
(* of the reports that are left, or the end of the recording.              *)
(***************************************************************************)
DeadStreamWindsDown ==
    [][Dead => Dead' /\ (WorkLeft' < WorkLeft \/ ~looping')]_vars

\* Who may touch buffer b.
Owner(b) ==
    CASE free[b] > 0 -> "pool"
      [] free[b] = 0 /\ Reading(b) -> "device"
      [] free[b] = 0 /\ ~Reading(b) /\ Writing(b) # {} -> "disk"
      [] OTHER -> "lost"

Ownership == INSTANCE BufferOwnership WITH owner <- [b \in Buffers |-> Owner(b)]

(***************************************************************************)
(* The stream hands its buffers on as BufferOwnership says, although a     *)
(* handler carries only pointers, and the pool takes back what it is       *)
(* given: no buffer changes hands but from pool to device, device to disk  *)
(* and disk to pool, and none is lost but with the read that failed, or    *)
(* the format nobody writes.                                               *)
(***************************************************************************)
HandsBuffersOn == Ownership!OwnerSpec
=============================================================================
