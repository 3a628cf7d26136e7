------------------------ MODULE IQAsyncReaderProofs ------------------------
(***************************************************************************)
(* Theorems about IQAsyncReader, for every ring, every block and read size *)
(* and every behaviour of the driver and the radio.  For any number of     *)
(* clients: the types, what the worker may wait for, who has called for it *)
(* while _running is down, and its way to its end.  For one client: the    *)
(* thread discipline of _running and _read_thread.                         *)
(***************************************************************************)
EXTENDS IQAsyncReader, TLAPS

-----------------------------------------------------------------------------
(* Type correctness                                                        *)

LEMMA TypeInit == Init => TypeOK
  <1>1. Ring!QueueInit => Ring!QueueTypeOK
    BY ReaderAssumption DEF Ring!QueueInit, Ring!QueueTypeOK
  <1> QED
    BY <1>1 DEF Init, TypeOK, WorkerAt, ClientAt, Faults

(* The ring stays within its bounds in each of its steps.                  *)
LEMMA RingType ==
    ASSUME Ring!QueueTypeOK,
           \/ UNCHANGED ringVars
           \/ \E t \in Clients \cup {Worker}, n \in Nat : Ring!Ask(t, n)
           \/ Ring!Put(Worker)
           \/ \E c \in Clients : Ring!Take(c)
           \/ Ring!Empty
    PROVE  Ring!QueueTypeOK'
  BY ReaderAssumption
  DEF ringVars, Ring!QueueTypeOK, Ring!Threads, Ring!Ask, Ring!Put, Ring!Take, Ring!Empty

(* The worker and the driver keep every variable in its type.              *)
LEMMA WorkerType == TypeOK /\ (WorkerStep \/ DriverStep) => TypeOK'
  <1> SUFFICES ASSUME TypeOK, WorkerStep \/ DriverStep PROVE TypeOK'
    OBVIOUS
  <1> USE DEF TypeOK, portVars, deviceVars, WorkerAt, ClientAt, Faults
  <1>1. CASE QueueRead
    BY <1>1, RingType DEF QueueRead
  <1>2. CASE TestRunning
    BY <1>2, RingType, ZenonT(60) DEF TestRunning, Pending
  <1>3. CASE TakeBlock
    <2>1. block \in Nat
      BY ReaderAssumption
    <2>2. Ring!QueueTypeOK'
      BY <1>3, <2>1, RingType DEF TakeBlock
    <2> QED
      BY <1>3, <2>2 DEF TakeBlock
  <1>4. CASE CopyBlock
    BY <1>4, RingType DEF CopyBlock
  <1>5. CASE ThrowRagged \/ RetryTimeout \/ GiveUp \/ JoinSelf
    BY <1>5, RingType, ZenonT(60) DEF ThrowRagged, RetryTimeout, GiveUp, JoinSelf
  <1>6. CASE DeliverBlock \/ DeliverStray
    BY <1>6, RingType DEF DeliverBlock, DeliverStray
  <1>7. CASE EndTransfer
    BY <1>7, RingType, ReaderAssumption DEF EndTransfer
  <1> QED
    BY <1>1, <1>2, <1>3, <1>4, <1>5, <1>6, <1>7 DEF WorkerStep, DriverStep

(* The calls of a client keep every variable in its type.                  *)
LEMMA ClientType ==
    ASSUME TypeOK, fault = "none", NEW c \in Clients, ClientStep(c)
    PROVE  TypeOK'
  <1> USE DEF TypeOK, portVars, deviceVars, WorkerAt, ClientAt, Faults, Goto
  <1>1. CASE StartCall(c) \/ StopCall(c) \/ SetRunning(c)
    BY <1>1, RingType DEF StartCall, StopCall, SetRunning
  <1>2. CASE EnableData(c)
    BY <1>2, RingType DEF EnableData
  <1>3. CASE SpawnWorker(c)
    BY <1>3, RingType DEF SpawnWorker
  <1>4. CASE StopAbort(c)
    <2>1. Ring!QueueTypeOK' /\ pc' \in [Clients -> ClientAt] /\ fault' \in Faults
      BY <1>4, RingType DEF StopAbort
    <2>2. transfer' \in {transfer, "failed", "unaborted"} /\ stray' \in BOOLEAN
      BY <1>4 DEF StopAbort, AbortPipe
    <2> QED
      BY <1>4, <2>1, <2>2 DEF StopAbort
  <1>5. CASE StopJoin(c)
    BY <1>5, RingType DEF StopJoin
  <1>6. CASE DisableData(c)
    BY <1>6, RingType DEF DisableData
  <1>7. ASSUME NEW n \in ReadSizes, ReadCall(c, n) PROVE TypeOK'
    BY <1>7, RingType, ReaderAssumption DEF ReadCall
  <1>8. CASE ReadReturn(c)
    BY <1>8, RingType DEF ReadReturn
  <1>9. CASE ClearCall(c)
    BY <1>9, RingType DEF ClearCall
  <1>10. CASE CloseCall(c) \/ DestroyCall(c)
    <2>1. Ring!QueueTypeOK' /\ pc' \in [Clients -> ClientAt]
      BY <1>10, RingType DEF CloseCall, DestroyCall
    <2>2. transfer' \in {transfer, "failed", "unaborted"} /\ stray' \in BOOLEAN
      BY <1>10 DEF CloseCall, DestroyCall, AbortPipe
    <2> QED
      BY <1>10, <2>1, <2>2 DEF CloseCall, DestroyCall
  <1>11. CASE CloseHandle(c) \/ CloseEnd(c) \/ InitCall(c)
    BY <1>11, RingType DEF CloseHandle, CloseEnd, InitCall
  <1>12. CASE DestroyTest(c) \/ DestroyJoin(c)
    BY <1>12, RingType DEF DestroyTest, DestroyJoin
  <1> QED
    BY <1>1, <1>2, <1>3, <1>4, <1>5, <1>6, <1>7, <1>8, <1>9, <1>10, <1>11, <1>12
    DEF ClientStep, InCall

(* TypeOK holds in every reachable state; the ring never overflows.        *)
THEOREM TypeCorrect == Spec => []TypeOK
  <1>1. TypeOK /\ [Next]_vars => TypeOK'
    <2> SUFFICES ASSUME TypeOK, [Next]_vars PROVE TypeOK'
      OBVIOUS
    <2>1. CASE UNCHANGED vars
      BY <2>1, RingType DEF vars, portVars, deviceVars, TypeOK
    <2> QED
      BY <2>1, WorkerType, ClientType DEF Next
  <1> QED
    BY <1>1, TypeInit, PTL DEF Spec

-----------------------------------------------------------------------------
(* The thread discipline, for one client                                   *)

(***************************************************************************)
(* What one client's calls know of the worker.  The third conjunct is what *)
(* makes the test of _running in iqAsyncStart, and in the destructor,      *)
(* enough: when _running is down and the client has no stop to finish,     *)
(* there is no thread, or it is the thread that has just lowered _running  *)
(* itself.  The second is its other half: while _running is up, or about   *)
(* to be, there is a thread to join.                                       *)
(***************************************************************************)
ThreadInv(c) ==
    /\ pc[c] \in {"enabling", "spawn", "abort", "join", "disable"} => ~running
    /\ pc[c] \in {"setRunning", "destroyJoin"} \/ (running /\ pc[c] # "gone") =>
          worker # "absent"
    /\ pc[c] \notin {"setRunning", "abort", "join", "destroyJoin", "gone"} /\ ~running =>
          worker \in {"absent", "selfStop"}
    /\ fault \in {"lostThread", "badJoin"} => worker = "selfStop"

(* A step of the worker keeps ThreadInv: it lowers _running only on its    *)
(* way to joining itself, and no other of its steps matters to a client.   *)
LEMMA ThreadInvWorker ==
    ASSUME NEW c \in Clients, TypeOK, ThreadInv(c), fault = "none", WorkerStep \/ DriverStep
    PROVE  ThreadInv(c)'
  <1> USE DEF ThreadInv, portVars, deviceVars
  <1>1. CASE QueueRead
    BY <1>1 DEF QueueRead
  <1>2. CASE TestRunning
    BY <1>2 DEF TestRunning
  <1>3. CASE TakeBlock \/ CopyBlock
    BY <1>3 DEF TakeBlock, CopyBlock
  <1>4. CASE ThrowRagged \/ RetryTimeout \/ JoinSelf
    BY <1>4 DEF ThrowRagged, RetryTimeout, JoinSelf
  <1>5. CASE GiveUp
    BY <1>5 DEF GiveUp
  <1>6. CASE DriverStep
    BY <1>6 DEF DriverStep, DeliverBlock, EndTransfer, DeliverStray
  <1> QED
    BY <1>1, <1>2, <1>3, <1>4, <1>5, <1>6 DEF WorkerStep

(* A step of the only client keeps ThreadInv.                              *)
LEMMA ThreadInvClient ==
    ASSUME NEW c, Clients = {c}, TypeOK, ThreadInv(c), fault = "none", ClientStep(c)
    PROVE  ThreadInv(c)'
  <1> USE DEF ThreadInv, TypeOK, portVars, deviceVars, Goto
  <1>1. CASE StartCall(c) \/ SetRunning(c) \/ StopCall(c)
    BY <1>1 DEF StartCall, SetRunning, StopCall
  <1>2. CASE EnableData(c)
    BY <1>2 DEF EnableData
  <1>3. CASE SpawnWorker(c)
    BY <1>3 DEF SpawnWorker
  <1>4. CASE StopAbort(c)
    BY <1>4 DEF StopAbort
  <1>5. CASE StopJoin(c) \/ DisableData(c)
    BY <1>5 DEF StopJoin, DisableData
  <1>6. ASSUME NEW n \in ReadSizes, ReadCall(c, n) PROVE ThreadInv(c)'
    BY <1>6 DEF ReadCall
  <1>7. CASE ReadReturn(c) \/ ClearCall(c)
    BY <1>7 DEF ReadReturn, ClearCall
  <1>8. CASE CloseCall(c) \/ CloseHandle(c) \/ CloseEnd(c) \/ InitCall(c) \/ DestroyCall(c)
    BY <1>8 DEF CloseCall, CloseHandle, CloseEnd, InitCall, DestroyCall
  <1>9. CASE DestroyTest(c) \/ DestroyJoin(c)
    BY <1>9 DEF DestroyTest, DestroyJoin
  <1> QED
    BY <1>1, <1>2, <1>3, <1>4, <1>5, <1>6, <1>7, <1>8, <1>9 DEF ClientStep, InCall

LEMMA ThreadInvHolds ==
    ASSUME NEW c, Clients = {c}
    PROVE  Spec => []ThreadInv(c)
  <1>1. Init => ThreadInv(c)
    BY DEF Init, ThreadInv
  <1>2. TypeOK /\ ThreadInv(c) /\ [Next]_vars => ThreadInv(c)'
    <2> SUFFICES ASSUME TypeOK, ThreadInv(c), [Next]_vars PROVE ThreadInv(c)'
      OBVIOUS
    <2>1. CASE UNCHANGED vars
      BY <2>1 DEF vars, portVars, ThreadInv
    <2> QED
      BY <2>1, ThreadInvWorker, ThreadInvClient DEF Next
  <1> QED
    BY <1>1, <1>2, TypeCorrect, PTL DEF Spec

(***************************************************************************)
(* With one client, neither a start nor the end of the port replaces or    *)
(* leaves a thread that is not about to end the process.                   *)
(***************************************************************************)
THEOREM StartFindsNoThread ==
    ASSUME NEW c, Clients = {c}
    PROVE  Spec => []ThreadLostOnlyGivingUp
  <1>1. ThreadInv(c) => ThreadLostOnlyGivingUp
    BY DEF ThreadInv, ThreadLostOnlyGivingUp
  <1> QED
    BY <1>1, ThreadInvHolds, PTL
-----------------------------------------------------------------------------
(* What the worker waits for, for any number of clients                    *)

(***************************************************************************)
(* A worker that waits for a transfer has queued one; and when _running is *)
(* down while that transfer is pending, the client that lowered it has its *)
(* aborts still before it.  The other conjuncts say which sizes the ring   *)
(* is asked for.                                                           *)
(***************************************************************************)
WaitInv ==
    /\ transfer = "data" => block \in BlockSizes
    /\ worker = "copy" => want[Worker] \in BlockSizes
    /\ \A c \in Clients : pc[c] = "reading" => want[c] \in ReadSizes
    /\ worker \in {"test", "wait"} => transfer # "none"
    /\ fault = "none" /\ worker = "wait" /\ transfer = "pending" /\ ~running =>
          \E c \in Clients : pc[c] = "abort"

LEMMA WaitInvInit == Init => WaitInv
  BY DEF Init, WaitInv

LEMMA WaitInvWorker ==
    ASSUME TypeOK, WaitInv, fault = "none", WorkerStep \/ DriverStep
    PROVE  WaitInv'
  <1> USE WorkerAssumption DEF WaitInv, TypeOK, portVars, deviceVars, ringVars
  <1>1. CASE QueueRead
    BY <1>1 DEF QueueRead
  <1>2. CASE TestRunning
    BY <1>2 DEF TestRunning
  <1>3. CASE TakeBlock
    BY <1>3 DEF TakeBlock, Ring!Ask, Ring!QueueTypeOK, Ring!Threads
  <1>4. CASE CopyBlock
    BY <1>4 DEF CopyBlock, Ring!Put, Ring!QueueTypeOK, Ring!Threads
  <1>5. CASE ThrowRagged \/ RetryTimeout \/ GiveUp \/ JoinSelf
    BY <1>5 DEF ThrowRagged, RetryTimeout, GiveUp, JoinSelf
  <1>6. CASE DriverStep
    BY <1>6, ReaderAssumption DEF DriverStep, DeliverBlock, EndTransfer, DeliverStray
  <1> QED
    BY <1>1, <1>2, <1>3, <1>4, <1>5, <1>6 DEF WorkerStep

LEMMA WaitInvClient ==
    ASSUME TypeOK, WaitInv, fault = "none", NEW c \in Clients, ClientStep(c)
    PROVE  WaitInv'
  <1> USE WorkerAssumption DEF WaitInv, TypeOK, portVars, deviceVars, ringVars, Goto
  <1>1. CASE StartCall(c) \/ SetRunning(c) \/ StopCall(c)
    BY <1>1 DEF StartCall, SetRunning, StopCall
  <1>2. CASE EnableData(c)
    BY <1>2 DEF EnableData
  <1>3. CASE SpawnWorker(c)
    BY <1>3 DEF SpawnWorker
  <1>4. CASE StopAbort(c)
    BY <1>4 DEF StopAbort, AbortPipe, Pending
  <1>5. CASE StopJoin(c) \/ DisableData(c)
    BY <1>5 DEF StopJoin, DisableData, Alive
  <1>6. ASSUME NEW n \in ReadSizes, ReadCall(c, n) PROVE WaitInv'
    BY <1>6 DEF ReadCall, Ring!Ask, Ring!QueueTypeOK, Ring!Threads
  <1>7. CASE ReadReturn(c)
    BY <1>7 DEF ReadReturn, Ring!Take, Ring!QueueTypeOK, Ring!Threads
  <1>8. CASE ClearCall(c)
    BY <1>8 DEF ClearCall, Ring!Empty
  <1>9. CASE CloseCall(c) \/ DestroyCall(c)
    BY <1>9 DEF CloseCall, DestroyCall, AbortPipe, Pending
  <1>10. CASE CloseHandle(c) \/ CloseEnd(c) \/ InitCall(c)
    BY <1>10 DEF CloseHandle, CloseEnd, InitCall, Pending
  <1>11. CASE DestroyTest(c)
    BY <1>11 DEF DestroyTest
  <1>12. CASE DestroyJoin(c)
    BY <1>12 DEF DestroyJoin
  <1> QED
    BY <1>1, <1>2, <1>3, <1>4, <1>5, <1>6, <1>7, <1>8, <1>9, <1>10, <1>11, <1>12
    DEF ClientStep, InCall

LEMMA WaitInvHolds == Spec => [](TypeOK /\ WaitInv)
  <1>1. TypeOK /\ WaitInv /\ [Next]_vars => WaitInv'
    <2> SUFFICES ASSUME TypeOK, WaitInv, [Next]_vars PROVE WaitInv'
      OBVIOUS
    <2>1. CASE UNCHANGED vars
      BY <2>1 DEF vars, portVars, deviceVars, ringVars, WaitInv
    <2> QED
      BY <2>1, WaitInvWorker, WaitInvClient DEF Next
  <1> QED
    BY <1>1, WaitInvInit, TypeCorrect, PTL DEF Spec

(***************************************************************************)
(* For any number of clients that start, stop and destroy the port in any  *)
(* order: once the aborts of every stop are done, a worker whose _running  *)
(* is down waits for nothing but room in the ring, or for a read that the  *)
(* driver has refused to abort.                                            *)
(***************************************************************************)
THEOREM NoReadBehindAbort == Spec => []StopLeavesNoWait
  <1>1. WaitInv => StopLeavesNoWait
    <2> SUFFICES ASSUME WaitInv, fault = "none", ~running,
                        \A c \in Clients : pc[c] # "abort"
                 PROVE  /\ worker = "wait" => transfer \notin {"none", "pending"}
                        /\ worker = "copy" => want[Worker] > 0
      BY DEF StopLeavesNoWait
    <2>1. \A n \in BlockSizes : n > 0
      BY ReaderAssumption
    <2> QED
      BY <2>1 DEF WaitInv
  <1> QED
    BY <1>1, WaitInvHolds, PTL

(***************************************************************************)
(* When any block and any read fit into the ring together, a worker that   *)
(* waits for room has left enough in it for every client that reads.       *)
(***************************************************************************)
THEOREM NoRingDeadlock ==
    ASSUME \A m \in BlockSizes, n \in ReadSizes : m + n <= BuffSize + 1
    PROVE  Spec => []BlockedWorkerFeeds
  <1>1. TypeOK /\ WaitInv => BlockedWorkerFeeds
    <2> SUFFICES ASSUME TypeOK, WaitInv, WorkerBlocked,
                        NEW c \in Clients, pc[c] = "reading"
                 PROVE  want[c] <= fill
      BY DEF BlockedWorkerFeeds
    <2>1. /\ want[Worker] \in BlockSizes /\ want[c] \in ReadSizes
          /\ fill + want[Worker] > BuffSize
      BY DEF WorkerBlocked, WaitInv
    <2>2. want[Worker] + want[c] <= BuffSize + 1
      BY <2>1
    <2>3. want[Worker] \in Nat /\ want[c] \in Nat /\ BuffSize \in Nat
      BY <2>1, ReaderAssumption
    <2>4. fill \in 0 .. BuffSize
      BY DEF TypeOK, Ring!QueueTypeOK
    <2> QED
      BY <2>1, <2>2, <2>3, <2>4
  <1> QED
    BY <1>1, WaitInvHolds, PTL

-----------------------------------------------------------------------------
(* Who has called for the worker, for any number of clients                *)

(***************************************************************************)
(* While _running is down and the worker is in its loop there is a client  *)
(* that has a stop of it still to finish, and until the worker has passed  *)
(* the loop's test that client may instead be the start that has yet to    *)
(* raise the flag.  Any number of clients may have lowered and raised it   *)
(* in between: a stop leaves its place only when there is no worker left,  *)
(* and a start only by raising the flag.                                   *)
(***************************************************************************)
Called ==
    fault = "none" /\ ~running =>
      /\ worker \in {"wait", "copy"} => \E c \in Clients : pc[c] \in {"abort", "join"}
      /\ worker \in {"queue", "test"} =>
            \E c \in Clients : pc[c] \in {"setRunning", "abort", "join"}

(* The worker passes its test only with _running up, and lowers it only on *)
(* its way to joining itself.                                              *)
LEMMA CalledWorker ==
    ASSUME Called, fault = "none", WorkerStep \/ DriverStep
    PROVE  Called'
  <1> USE DEF Called, portVars, deviceVars
  <1>1. CASE QueueRead \/ TestRunning
    BY <1>1 DEF QueueRead, TestRunning
  <1>2. CASE TakeBlock \/ CopyBlock
    BY <1>2 DEF TakeBlock, CopyBlock
  <1>3. CASE ThrowRagged \/ RetryTimeout \/ GiveUp \/ JoinSelf
    BY <1>3 DEF ThrowRagged, RetryTimeout, GiveUp, JoinSelf
  <1>4. CASE DriverStep
    BY <1>4 DEF DriverStep, DeliverBlock, EndTransfer, DeliverStray
  <1> QED
    BY <1>1, <1>2, <1>3, <1>4 DEF WorkerStep

(* A client leaves a stop only when the worker has left its loop, and a    *)
(* start only by raising _running.                                         *)
LEMMA CalledClient ==
    ASSUME TypeOK, Called, fault = "none", NEW c \in Clients, ClientStep(c)
    PROVE  Called'
  <1> USE DEF Called, TypeOK, portVars, deviceVars, Goto
  <1>1. CASE StartCall(c) \/ SetRunning(c) \/ StopCall(c)
    BY <1>1 DEF StartCall, SetRunning, StopCall
  <1>2. CASE EnableData(c)
    BY <1>2 DEF EnableData
  <1>3. CASE SpawnWorker(c)
    BY <1>3 DEF SpawnWorker
  <1>4. CASE StopAbort(c)
    BY <1>4 DEF StopAbort
  <1>5. CASE StopJoin(c)
    BY <1>5 DEF StopJoin
  <1>6. CASE DisableData(c)
    BY <1>6 DEF DisableData
  <1>7. ASSUME NEW n \in ReadSizes, ReadCall(c, n) PROVE Called'
    BY <1>7 DEF ReadCall
  <1>8. CASE ReadReturn(c) \/ ClearCall(c)
    BY <1>8 DEF ReadReturn, ClearCall
  <1>9. CASE CloseCall(c) \/ CloseHandle(c) \/ CloseEnd(c)
    BY <1>9 DEF CloseCall, CloseHandle, CloseEnd
  <1>10. CASE InitCall(c) \/ DestroyCall(c)
    BY <1>10 DEF InitCall, DestroyCall
  <1>11. CASE DestroyTest(c)
    BY <1>11 DEF DestroyTest
  <1>12. CASE DestroyJoin(c)
    BY <1>12 DEF DestroyJoin
  <1> QED
    BY <1>1, <1>2, <1>3, <1>4, <1>5, <1>6, <1>7, <1>8, <1>9, <1>10, <1>11, <1>12
    DEF ClientStep, InCall

LEMMA CalledHolds == Spec => [](TypeOK /\ Called)
  <1>1. Init => Called
    BY DEF Init, Called
  <1>2. TypeOK /\ Called /\ [Next]_vars => Called'
    <2> SUFFICES ASSUME TypeOK, Called, [Next]_vars PROVE Called'
      OBVIOUS
    <2>1. CASE UNCHANGED vars
      BY <2>1 DEF vars, portVars, Called
    <2> QED
      BY <2>1, CalledWorker, CalledClient DEF Next
  <1> QED
    BY <1>1, <1>2, TypeCorrect, PTL DEF Spec

(* Only the worker's copy adds to the ring, and only its test ends it.     *)
LEMMA WhoFillsWhoEnds ==
    ASSUME TypeOK, [Next]_vars
    PROVE  /\ fill' > fill => fault = "none" /\ worker = "copy"
           /\ worker # "done" /\ worker' = "done" =>
                 fault = "none" /\ worker = "test" /\ ~running
  <1> USE DEF portVars, deviceVars, ringVars
  <1>1. CASE fault = "none" /\ (WorkerStep \/ DriverStep)
    <2>1. CASE TakeBlock \/ CopyBlock
      BY <1>1, <2>1 DEF TakeBlock, CopyBlock, Ring!Ask, TypeOK, Ring!QueueTypeOK
    <2>2. CASE QueueRead \/ TestRunning \/ ThrowRagged \/ RetryTimeout \/ GiveUp \/ JoinSelf
      BY <1>1, <2>2, ReaderAssumption
      DEF QueueRead, TestRunning, ThrowRagged, RetryTimeout, GiveUp, JoinSelf,
          TypeOK, Ring!QueueTypeOK
    <2>3. CASE DriverStep
      BY <1>1, <2>3, ReaderAssumption
      DEF DriverStep, DeliverBlock, EndTransfer, DeliverStray, TypeOK, Ring!QueueTypeOK
    <2> QED
      BY <1>1, <2>1, <2>2, <2>3 DEF WorkerStep
  <1>2. ASSUME fault = "none", NEW c \in Clients, ClientStep(c)
        PROVE  ~(fill' > fill) /\ (worker' = worker \/ worker' # "done")
    <2> USE ReaderAssumption DEF TypeOK, Ring!QueueTypeOK, Ring!Threads
    <2>1. CASE ReadReturn(c) \/ ClearCall(c)
      BY <2>1 DEF ReadReturn, ClearCall, Ring!Take, Ring!Empty
    <2>2. ASSUME NEW n \in ReadSizes, ReadCall(c, n)
          PROVE  ~(fill' > fill) /\ worker' = worker
      BY <2>2 DEF ReadCall, Ring!Ask
    <2>3. CASE SpawnWorker(c) \/ StopJoin(c) \/ DestroyJoin(c)
      BY <2>3 DEF SpawnWorker, StopJoin, DestroyJoin
    <2>4. CASE StartCall(c) \/ EnableData(c) \/ SetRunning(c)
      BY <2>4 DEF StartCall, EnableData, SetRunning
    <2>5. CASE StopCall(c) \/ StopAbort(c) \/ DisableData(c)
      BY <2>5 DEF StopCall, StopAbort, DisableData
    <2>6. CASE CloseCall(c) \/ CloseHandle(c) \/ CloseEnd(c)
      BY <2>6 DEF CloseCall, CloseHandle, CloseEnd
    <2>7. CASE InitCall(c) \/ DestroyCall(c) \/ DestroyTest(c)
      BY <2>7 DEF InitCall, DestroyCall, DestroyTest
    <2> QED
      BY <1>2, <2>1, <2>2, <2>3, <2>4, <2>5, <2>6, <2>7 DEF ClientStep, InCall
  <1>3. CASE UNCHANGED vars
    BY <1>3, ReaderAssumption DEF vars, TypeOK, Ring!QueueTypeOK
  <1> QED
    BY <1>1, <1>2, <1>3 DEF Next

(***************************************************************************)
(* For any number of clients that start and stop the port under each       *)
(* other: a block that reaches the ring with _running down does so while a *)
(* stop waits for the worker, and none does once the stops have returned.  *)
(***************************************************************************)
THEOREM NoBlockAfterStops == Spec => NoBlockBehindStop
  <1>1. TypeOK /\ Called /\ [Next]_vars =>
          [fill' > fill /\ ~running => \E c \in Clients : pc[c] \in {"abort", "join"}]_vars
    BY WhoFillsWhoEnds DEF Called
  <1> QED
    BY <1>1, CalledHolds, PTL DEF Spec, NoBlockBehindStop

(***************************************************************************)
(* For any number of clients and every result of the driver: the worker    *)
(* returns only for a stop that has yet to join it, or for a start that    *)
(* has not raised _running yet.                                            *)
(***************************************************************************)
THEOREM WorkerLeavesWhenCalled == Spec => LeavesWhenCalled
  <1>1. TypeOK /\ Called /\ [Next]_vars =>
          [worker # "done" /\ worker' = "done" =>
             \E c \in Clients : pc[c] \in {"setRunning", "abort", "join"}]_vars
    BY WhoFillsWhoEnds DEF Called
  <1> QED
    BY <1>1, CalledHolds, PTL DEF Spec, LeavesWhenCalled

-----------------------------------------------------------------------------
(* The worker's way to its end                                             *)

LEMMA WindingDown ==
    ASSUME TypeOK, [Next]_vars, Alive, ~running, ~running'
    PROVE  UNCHANGED worker \/ StepsLeft' < StepsLeft
  <1> USE DEF TypeOK, WorkerAt, Alive, StepsLeft
  <1>1. CASE WorkerStep
    BY <1>1 DEF WorkerStep, QueueRead, TestRunning, TakeBlock, CopyBlock, ThrowRagged,
                RetryTimeout, GiveUp, JoinSelf
  <1>2. CASE DriverStep
    BY <1>2 DEF DriverStep, DeliverBlock, EndTransfer, DeliverStray
  <1>3. ASSUME NEW c \in Clients, ClientStep(c) PROVE UNCHANGED worker
    BY <1>3 DEF ClientStep, InCall, StartCall, StopCall, ReadCall, ClearCall, CloseCall,
                CloseHandle, CloseEnd, InitCall, DestroyCall, EnableData, SpawnWorker, SetRunning, StopAbort,
                StopJoin, DisableData, ReadReturn, DestroyTest, DestroyJoin
  <1>4. CASE UNCHANGED vars
    BY <1>4 DEF vars
  <1> QED
    BY <1>1, <1>2, <1>3, <1>4 DEF Next

(***************************************************************************)
(* For any number of clients, and whatever the driver reports: while       *)
(* _running stays down, a step of the worker brings it nearer to its end.  *)
(* With NoReadBehindAbort this is why a join comes back, unless the ring   *)
(* is full; that the steps are taken is the fairness TLC assumes.          *)
(***************************************************************************)
THEOREM WorkerHasAnEnd == Spec => WorkerWindsDown
  <1>1. TypeOK /\ [Next]_vars =>
          [Alive /\ ~running /\ ~running' =>
             UNCHANGED worker \/ StepsLeft' < StepsLeft]_vars
    BY WindingDown
  <1> QED
    BY <1>1, TypeCorrect, PTL DEF Spec, WorkerWindsDown
=============================================================================
