---------------------------- MODULE SampleQueue ----------------------------
(***************************************************************************)
(* What the asynchronous sample buffer promises its callers, with the      *)
(* ring, the mutex and the condition variables left out: a bounded queue   *)
(* on which a call waits until the queue has room for the whole block it   *)
(* writes, or holds all the samples it reads, and then takes effect at     *)
(* once.  Samples are counted, not named.                                  *)
(***************************************************************************)
EXTENDS Naturals

CONSTANTS BuffSize,    \* samples the queue can hold
          Writers,     \* threads that call writebuf
          Readers,     \* threads that call readbuf and clear_ringbuffer
          WriteSizes,  \* block sizes of the writes, in samples
          ReadSizes    \* sizes of the reads, in samples

VARIABLES fill,        \* samples in the queue
          want         \* want[t]: samples thread t waits to move, 0 when it waits for none

queueVars == <<fill, want>>

Threads == Writers \cup Readers

QueueTypeOK ==
    /\ fill \in 0 .. BuffSize
    /\ want \in [Threads -> Nat]

QueueInit ==
    /\ fill = 0
    /\ want = [t \in Threads |-> 0]

-----------------------------------------------------------------------------

\* Thread t calls writebuf or readbuf for n samples.
Ask(t, n) ==
    /\ want[t] = 0
    /\ want' = [want EXCEPT ![t] = n]
    /\ UNCHANGED fill

\* The block of writer w fits: it enters the queue whole.
Put(w) ==
    /\ want[w] > 0
    /\ fill + want[w] <= BuffSize
    /\ fill' = fill + want[w]
    /\ want' = [want EXCEPT ![w] = 0]

\* Reader r finds all the samples it asked for: they leave the queue.
Take(r) ==
    /\ want[r] > 0
    /\ fill >= want[r]
    /\ fill' = fill - want[r]
    /\ want' = [want EXCEPT ![r] = 0]

\* A client empties the queue.
Empty ==
    /\ fill' = 0
    /\ UNCHANGED want

QueueNext ==
    \/ \E w \in Writers : Put(w) \/ \E n \in WriteSizes : Ask(w, n)
    \/ \E r \in Readers : Take(r) \/ \E n \in ReadSizes : Ask(r, n)
    \/ Empty

QueueSpec == QueueInit /\ [][QueueNext]_queueVars

-----------------------------------------------------------------------------
(***************************************************************************)
(* The promise to a waiting caller: a call the queue can satisfy takes     *)
(* effect, unless what it waits for goes away again.                       *)
(***************************************************************************)
CallsServed ==
    /\ \A w \in Writers :
         want[w] > 0 /\ fill + want[w] <= BuffSize
            ~> want[w] = 0 \/ fill + want[w] > BuffSize
    /\ \A r \in Readers :
         want[r] > 0 /\ fill >= want[r] ~> want[r] = 0 \/ fill < want[r]
=============================================================================
