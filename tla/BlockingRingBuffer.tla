------------------------- MODULE BlockingRingBuffer -------------------------
(***************************************************************************)
(* include/BlockingRingBuffer.hpp: the ring that carries samples from the  *)
(* reader thread of IcomIQPort (writebuf) to the clients of iqReadBuf      *)
(* (readbuf), with one mutex and two condition variables.                  *)
(*                                                                         *)
(* The body of a call runs under the mutex, so it is one step; what other  *)
(* threads can do falls between the steps: before the first evaluation of  *)
(* a wait's condition, while the caller sleeps, and between the unlock and *)
(* the notify_one that follows it.                                         *)
(*                                                                         *)
(* The bytes the radio sends are labelled by their position in the stream, *)
(* modulo BYTES_PER_SAMPLE * Labels: a slot of the ring holds the label of *)
(* the first of the four bytes copied into it, which tells the right       *)
(* sample from a neighbour, from an older one and from one put together    *)
(* from the bytes of two.                                                  *)
(***************************************************************************)
EXTENDS Integers, Sequences

CONSTANTS BuffSize,    \* buff_size_: samples the ring can hold (32768 in the code)
          Writers,     \* threads that call writebuf
          Readers,     \* threads that call readbuf and clear_ringbuffer
          WriteSizes,  \* sizes of the blocks the device delivers, in samples
          ReadSizes,   \* sizes the clients read, in samples
          Labels       \* number of distinct sample labels

ASSUME SizesAssumption ==
    /\ BuffSize \in Nat \ {0}
    /\ WriteSizes \subseteq Nat \ {0}
    /\ ReadSizes \subseteq Nat \ {0}

ASSUME ThreadsAssumption == Writers \cap Readers = {}

\* More labels than slots, or a sample could not be told from the one a lap before it.
ASSUME LabelsAssumption == Labels \in Nat /\ Labels > BuffSize + 1

VARIABLES head,   \* head_: slot of the oldest sample
          tail,   \* tail_: slot the next sample goes to
          cells,  \* buffer_: the byte label each slot holds
          pc,     \* where each thread is in its call
          req,    \* the count each thread passed to its call
          dest,   \* dest[r]: what readbuf left in the memory of reader r, until the call returns
          next,   \* label of the next sample the device delivers
          due,    \* label of the sample the next read owes its caller
          seen    \* seen[r]: the indices reader r has loaded without the mutex

vars == <<head, tail, cells, pc, req, dest, next, due, seen>>

Threads == Writers \cup Readers
BYTES_PER_SAMPLE == 4

capacity == BuffSize + 1
Slots == 0 .. BuffSize

Zeroed == -1      \* a slot that was cleared
Unfilled == -2    \* a place of the destination that readbuf did not write
Unread == -3      \* an index not loaded
NothingSeen == [head |-> Unread, tail |-> Unread]

\* Samples between two values of head_ and tail_.
Between(h, t) == IF t >= h THEN t - h ELSE capacity - h + t

available_data == Between(head, tail)
\* Faulty variant: every slot used, so that a full ring looks empty.
available_space_NoSpareSlot == capacity - available_data
available_space == capacity - available_data - 1

\* Label of the byte at the given offset from the start of the block being written.
ByteAt(offset) == (BYTES_PER_SAMPLE * next + offset) % (BYTES_PER_SAMPLE * Labels)
\* Label of the first byte of sample i.
SampleAt(i) == BYTES_PER_SAMPLE * (i % Labels)

TypeOK ==
    /\ head \in Slots
    /\ tail \in Slots
    /\ cells \in [Slots -> Int]
    /\ pc \in [Threads -> {"idle", "enter", "asleep", "notify", "peek"}]
    /\ req \in [Threads -> Nat]
    /\ dest \in [Readers -> Seq(Int)]
    /\ next \in 0 .. Labels - 1
    /\ due \in 0 .. Labels - 1
    /\ seen \in [Readers -> [head : Slots \cup {Unread}, tail : Slots \cup {Unread}]]
    /\ \A w \in Writers : pc[w] \in {"enter", "asleep"} => req[w] \in WriteSizes
    /\ \A r \in Readers : pc[r] \in {"enter", "asleep"} => req[r] \in ReadSizes

Init ==
    /\ head = 0
    /\ tail = 0
    /\ cells = [i \in Slots |-> Zeroed]
    /\ pc = [t \in Threads |-> "idle"]
    /\ req = [t \in Threads |-> 0]
    /\ dest = [r \in Readers |-> <<>>]
    /\ next = 0
    /\ due = 0
    /\ seen = [r \in Readers |-> NothingSeen]

-----------------------------------------------------------------------------
(* A thread calls, sleeps, or is woken.                                    *)

Call(t, n) ==
    /\ pc[t] = "idle"
    /\ pc' = [pc EXCEPT ![t] = "enter"]
    /\ req' = [req EXCEPT ![t] = n]
    /\ seen' = [r \in Readers |-> IF r = t THEN NothingSeen ELSE seen[r]]
    /\ UNCHANGED <<head, tail, cells, dest, next, due>>

\* wait() releases the mutex and sleeps because its condition is false.
Sleep(t, condition) ==
    /\ pc[t] = "enter"
    /\ ~condition
    /\ pc' = [pc EXCEPT ![t] = "asleep"]
    /\ UNCHANGED <<head, tail, cells, req, dest, next, due, seen>>

\* wait() may return without a notification; it evaluates its condition again.
SpuriousWake(t) ==
    /\ pc[t] = "asleep"
    /\ pc' = [pc EXCEPT ![t] = "enter"]
    /\ UNCHANGED <<head, tail, cells, req, dest, next, due, seen>>

\* notify_one by t: one of the sleeping threads wakes, whichever; t's call returns.
NotifyOne(t, sleepers) ==
    LET waiting == {s \in sleepers : pc[s] = "asleep"}
    IN /\ pc[t] = "notify"
       /\ \/ /\ waiting = {}
             /\ pc' = [pc EXCEPT ![t] = "idle"]
          \/ \E s \in waiting : pc' = [pc EXCEPT ![t] = "idle", ![s] = "enter"]
       /\ req' = [req EXCEPT ![t] = 0]
       /\ UNCHANGED <<head, tail, cells, next, due, seen>>

-----------------------------------------------------------------------------
(* writebuf                                                                *)

CanWrite(w) == available_space >= req[w]

\* The slots up to the end of the ring, and those the block wraps around to.
FirstChunk(n) == {i \in Slots : tail <= i /\ i < tail + n}
SecondChunk(n) == {i \in Slots : i < n - (capacity - tail)}

\* Faulty variant: the second chunk starts again from the first byte of the block.
CopyIn_Restart(n) ==
    [i \in Slots |->
        IF i \in FirstChunk(n) THEN ByteAt(BYTES_PER_SAMPLE * (i - tail))
        ELSE IF i \in SecondChunk(n) THEN ByteAt(BYTES_PER_SAMPLE * i)
        ELSE cells[i]]

(***************************************************************************)
(* The two memcpys.  The second starts at data + first_chunk_size, where   *)
(* data points to bytes and first_chunk_size counts samples.               *)
(***************************************************************************)
CopyIn(n) ==
    LET space_to_end == capacity - tail
    IN [i \in Slots |->
          IF i \in FirstChunk(n) THEN ByteAt(BYTES_PER_SAMPLE * (i - tail))
          ELSE IF i \in SecondChunk(n) THEN ByteAt(space_to_end + BYTES_PER_SAMPLE * i)
          ELSE cells[i]]

NewTail(n) ==
    IF n <= capacity - tail THEN (tail + n) % capacity ELSE n - (capacity - tail)

WriteBody(w) ==
    /\ pc[w] = "enter"
    /\ CanWrite(w)
    /\ cells' = CopyIn(req[w])
    /\ tail' = NewTail(req[w])
    /\ next' = (next + req[w]) % Labels
    /\ pc' = [pc EXCEPT ![w] = "notify"]
    /\ UNCHANGED <<head, req, dest, due, seen>>

\* Faulty variant: the writer notifies its own condition.
WriteReturn_WrongCondition(w) ==
    /\ NotifyOne(w, Writers)
    /\ UNCHANGED dest

WriteReturn(w) ==
    /\ NotifyOne(w, Readers)
    /\ UNCHANGED dest

-----------------------------------------------------------------------------
(* readbuf                                                                 *)

CanRead(r) == available_data >= req[r]

(***************************************************************************)
(* What reaches the caller's memory.  The copy of a contiguous read is     *)
(* commented out; a read that wraps around copies both of its parts.       *)
(***************************************************************************)
CopyOut(n) ==
    [j \in 1 .. n |->
        IF n <= capacity - head THEN Unfilled ELSE cells[(head + j - 1) % capacity]]

NewHead(n) ==
    IF n <= capacity - head THEN (head + n) % capacity ELSE n - (capacity - head)

ReadBody(r) ==
    /\ pc[r] = "enter"
    /\ CanRead(r)
    /\ dest' = [dest EXCEPT ![r] = CopyOut(req[r])]
    /\ head' = NewHead(req[r])
    /\ due' = (due + req[r]) % Labels
    /\ pc' = [pc EXCEPT ![r] = "notify"]
    /\ UNCHANGED <<tail, cells, req, next, seen>>

\* Faulty variant: the reader notifies its own condition.
ReadReturn_WrongCondition(r) ==
    /\ NotifyOne(r, Readers)
    /\ dest' = [dest EXCEPT ![r] = <<>>]

\* readbuf and clear_ringbuffer end with the same notify_one on not_full_.
ReadReturn(r) ==
    /\ NotifyOne(r, Writers)
    /\ dest' = [dest EXCEPT ![r] = <<>>]

-----------------------------------------------------------------------------
\* Faulty variant: only the read index is reset.
Clear_HeadOnly(r) ==
    /\ pc[r] = "idle"
    /\ head' = 0
    /\ cells' = [i \in Slots |-> Zeroed]
    /\ due' = next
    /\ pc' = [pc EXCEPT ![r] = "notify"]
    /\ seen' = [seen EXCEPT ![r] = NothingSeen]
    /\ UNCHANGED <<tail, req, dest, next>>

\* clear_ringbuffer, called by a client: the samples in the ring are never read.
Clear(r) ==
    /\ pc[r] = "idle"
    /\ head' = 0
    /\ tail' = 0
    /\ cells' = [i \in Slots |-> Zeroed]
    /\ due' = next
    /\ pc' = [pc EXCEPT ![r] = "notify"]
    /\ seen' = [seen EXCEPT ![r] = NothingSeen]
    /\ UNCHANGED <<req, dest, next>>

-----------------------------------------------------------------------------
(***************************************************************************)
(* available_data, called by iqGetSizeOfAvailableData without the mutex.   *)
(* The two indices are plain members: an optimised build loads each once,  *)
(* in either order, and the other threads run in between.                  *)
(***************************************************************************)
PeekFirst(r) ==
    /\ pc[r] = "idle"
    /\ pc' = [pc EXCEPT ![r] = "peek"]
    /\ \E s \in {[head |-> head, tail |-> Unread], [head |-> Unread, tail |-> tail]} :
         seen' = [seen EXCEPT ![r] = s]
    /\ UNCHANGED <<head, tail, cells, req, dest, next, due>>

PeekSecond(r) ==
    /\ pc[r] = "peek"
    /\ pc' = [pc EXCEPT ![r] = "idle"]
    /\ seen' = [seen EXCEPT ![r] =
                   IF @.head = Unread THEN [@ EXCEPT !.head = head]
                                      ELSE [@ EXCEPT !.tail = tail]]
    /\ UNCHANGED <<head, tail, cells, req, dest, next, due>>

\* What iqGetSizeOfAvailableData returned to r, which has called nothing since.
KnowsSize(r) == seen[r].head # Unread /\ seen[r].tail # Unread

\* Faulty variant: equal indices count as a full ring.
SizeSeen_NeverEmpty(r) ==
    LET h == seen[r].head
        t == seen[r].tail
    IN IF t > h THEN t - h ELSE capacity - h + t

SizeSeen(r) == Between(seen[r].head, seen[r].tail)

-----------------------------------------------------------------------------

WriterStep(w) ==
    \/ \E n \in WriteSizes : Call(w, n)
    \/ Sleep(w, CanWrite(w))
    \/ WriteBody(w)
    \/ WriteReturn(w)

ReaderStep(r) ==
    \/ \E n \in ReadSizes : Call(r, n)
    \/ Sleep(r, CanRead(r))
    \/ ReadBody(r)
    \/ ReadReturn(r)
    \/ Clear(r)
    \/ PeekFirst(r)
    \/ PeekSecond(r)

Next ==
    \/ \E w \in Writers : WriterStep(w)
    \/ \E r \in Readers : ReaderStep(r)
    \/ \E t \in Threads : SpuriousWake(t)

Spec == Init /\ [][Next]_vars

(***************************************************************************)
(* A thread inside a call keeps running unless it sleeps, and the device   *)
(* thread goes on delivering blocks while the radio streams.  A client is  *)
(* free to stop reading.                                                   *)
(***************************************************************************)
Fairness ==
    /\ \A w \in Writers :
         /\ WF_vars(\E n \in WriteSizes : Call(w, n))
         /\ WF_vars(Sleep(w, CanWrite(w)) \/ WriteBody(w))
         /\ WF_vars(WriteReturn(w))
    /\ \A r \in Readers :
         /\ WF_vars(Sleep(r, CanRead(r)) \/ ReadBody(r))
         /\ WF_vars(ReadReturn(r))

FairSpec == Spec /\ Fairness

-----------------------------------------------------------------------------
(* Properties                                                              *)

\* Slots that hold a sample, by their distance from the head.
Held == 0 .. available_data - 1
SlotOf(j) == (head + j) % capacity

(***************************************************************************)
(* The two indices account for the stream: head_ and tail_, each reduced   *)
(* modulo the capacity and told apart only by the slot left unused, are as *)
(* far apart as the samples written and not yet read.                      *)
(***************************************************************************)
Accounting == (next - due) % Labels = available_data

(***************************************************************************)
(* The offset error of writebuf's second memcpy stays inside its block: a  *)
(* held sample away from the start of the ring is exact, and one in the    *)
(* slots a block wraps into was read from the bytes of that very block, at *)
(* most three bytes early per sample of the first chunk (no over-read).    *)
(***************************************************************************)
DamageConfined ==
    LET MaxWrite == CHOOSE n \in WriteSizes : \A m \in WriteSizes : m <= n
        Early(j) == (SampleAt(due + j) - cells[SlotOf(j)]) % (BYTES_PER_SAMPLE * Labels)
    IN \A j \in Held :
         /\ cells[SlotOf(j)] # Zeroed
         /\ \/ Early(j) = 0
            \/ SlotOf(j) < MaxWrite - 1 /\ Early(j) <= 3 * (MaxWrite - 1)

(***************************************************************************)
(* No wake-up is lost: while a thread sleeps although what it waits for    *)
(* has come true, some thread is still about to notify its condition or    *)
(* has been woken on it.  notify_one wakes one thread, whichever and       *)
(* whatever its count, so with several readers this needs reads of one     *)
(* size and no block larger than a read; one reader needs nothing.         *)
(***************************************************************************)
ReadersAwake ==
    (\E r \in Readers : pc[r] = "asleep" /\ CanRead(r)) =>
        \/ \E w \in Writers : pc[w] = "notify"
        \/ \E r \in Readers : pc[r] = "enter"

WritersAwake ==
    (\E w \in Writers : pc[w] = "asleep" /\ CanWrite(w)) =>
        \/ \E r \in Readers : pc[r] = "notify"
        \/ \E w \in Writers : pc[w] = "enter"

NoWakeupLost == ReadersAwake /\ WritersAwake

(***************************************************************************)
(* Writers and readers never all sleep at once, so nobody waits for a      *)
(* thread that waits for him.  It needs reads and blocks that fit together *)
(* with a slot to spare: ReadSizes + WriteSizes <= BuffSize + 1.           *)
(***************************************************************************)
SomeoneCanRun == \E t \in Threads : pc[t] # "asleep"

(***************************************************************************)
(* WriteToFile.cpp asks how many samples are left and reads that many: by  *)
(* the only reader, whose own reads alone take samples out, they can be    *)
(* read without waiting, although the device may write, and wrap around,   *)
(* between the two loads and after them.                                   *)
(***************************************************************************)
SizeCanBeRead ==
    \A r \in Readers : Readers = {r} /\ KnowsSize(r) => SizeSeen(r) <= available_data

(***************************************************************************)
(* The ring, seen through available_data and the counts of the calls that  *)
(* have not taken effect, is the bounded queue of SampleQueue: a call      *)
(* moves all of its samples at once, and only when there is room or data.  *)
(***************************************************************************)
Pending(t) == IF pc[t] \in {"enter", "asleep"} THEN req[t] ELSE 0

Queue == INSTANCE SampleQueue WITH
            fill <- available_data,
            want <- [t \in Threads |-> Pending(t)]

ImplementsQueue == Queue!QueueSpec

(* A call whose condition stays true takes effect: no caller is left behind. *)
ServesCalls == Queue!CallsServed

(* While the radio streams, a call of readbuf by the only reader returns.  *)
ReadReturns == \A r \in Readers : pc[r] = "enter" ~> pc[r] = "idle"

(***************************************************************************)
(* What the interface says, and the code does not do.                      *)
(*                                                                         *)
(* "Read n samples from the asynchronous buffer" (Application Note, of     *)
(* iqReadBuf): when readbuf is about to return, the caller's memory holds  *)
(* the n samples after those of the previous read.                         *)
(***************************************************************************)
ReadsDeliver ==
    \A r \in Readers : \A j \in DOMAIN dest[r] : dest[r][j] # Unfilled
=============================================================================
