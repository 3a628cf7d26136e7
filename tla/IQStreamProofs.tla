--------------------------- MODULE IQStreamProofs ---------------------------
(***************************************************************************)
(* Proofs about IQStream, for a pool of any finite size and any number of  *)
(* blocks: its type invariant, that no buffer is in two hands, that none   *)
(* is lost in a format that is written, that the null buffer is met only   *)
(* behind a slow disk, that the totals account for every native block,     *)
(* that a dead stream starts nothing, and that buffers change hands as     *)
(* BufferOwnership says.                                                   *)
(***************************************************************************)
EXTENDS IQStream, FiniteSetTheorems, TLAPS

(***************************************************************************)
(* A pool and a set of writes that have no buffer in common, nor one       *)
(* twice: NeverShared, but for the buffer the device fills.                *)
(***************************************************************************)
Apart(pool, wr) ==
    \A b \in Buffers :
        /\ pool[b] <= 1
        /\ \A k \in Blocks : b \in wr[k] => pool[b] = 0
        /\ \A j, k \in Blocks : b \in wr[j] /\ b \in wr[k] => j = k

\* The device's buffer is neither in the pool nor with the disk.
Away(pool, wr) ==
    read # "none" =>
        /\ target \in Buffers
        /\ pool[target] = 0
        /\ \A k \in Blocks : target \notin wr[k]

\* The block being read has not been written: its number is new.
Fresh ==
    /\ \A k \in Blocks : k > total_read => writes[k] = {}
    /\ read = "data" => total_read < MaxBlocks

Inv == TypeOK /\ Apart(free, writes) /\ Away(free, writes) /\ Fresh

LEMMA InvShares == ASSUME Inv PROVE NeverShared
  BY DEF Inv, TypeOK, Apart, Away, NeverShared, Reading, Writing

\* Whatever initiate_read takes was in the pool, so it is in nobody else's hands.
LEMMA InitiateRead ==
    ASSUME NEW pool \in [Buffers -> Nat], enabled \in BOOLEAN, fault \in BOOLEAN,
           initiate_read(pool), Apart(pool, writes')
    PROVE  /\ free' \in [Buffers -> Nat]
           /\ target' \in Buffers \cup {NoBuffer}
           /\ read' \in {"pending", "none"}
           /\ enabled' \in BOOLEAN
           /\ fault' \in BOOLEAN
           /\ Apart(free', writes')
           /\ Away(free, writes)'
  <1>1. CASE Acquirable(pool) = {}
    BY <1>1 DEF initiate_read, Away
  <1>2. CASE Acquirable(pool) # {}
    <2>1. PICK b \in Acquirable(pool) : free' = acquire(pool, b) /\ target' = b
      BY <1>2 DEF initiate_read
    <2>2. b \in Buffers /\ pool[b] = 1
      BY DEF Acquirable, Apart
    <2>3. /\ read' \in {"pending", "none"}
          /\ enabled' \in BOOLEAN
          /\ fault' \in BOOLEAN
      BY <1>2 DEF initiate_read
    <2>4. free' \in [Buffers -> Nat]
      BY <2>1, <2>2 DEF acquire
    <2>5. Apart(free', writes')
      BY <2>1, <2>2 DEF acquire, Apart
    <2>6. Away(free, writes)'
      BY <2>1, <2>2 DEF acquire, Apart, Away
    <2> QED
      BY <2>1, <2>2, <2>3, <2>4, <2>5, <2>6
  <1> QED
    BY <1>1, <1>2

LEMMA InvInit == ASSUME Init PROVE Inv
  <1>1. TypeOK
    <2>1. writes \in [Blocks -> SUBSET Buffers] /\ free \in [Buffers -> Nat]
      BY DEF Init
    <2>2. total_read \in 0 .. MaxBlocks
      BY StreamAssumption DEF Init
    <2> QED
      BY <2>1, <2>2 DEF Init, TypeOK
  <1>2. Apart(free, writes) /\ Away(free, writes)
    BY DEF Init, Apart, Away
  <1>3. Fresh
    BY DEF Init, Fresh
  <1> QED
    BY <1>1, <1>2, <1>3 DEF Inv

\* A block read in the native format keeps its buffer until the disk is done with it.
LEMMA NativeBlock ==
    ASSUME Inv, handle_read_complete, processAndWriteCS16
    PROVE  Inv'
  <1>1. total_read + 1 \in Blocks
    BY StreamAssumption DEF Inv, TypeOK, Fresh, handle_read_complete, Blocks
  <1>2. writes' \in [Blocks -> SUBSET Buffers]
    BY DEF Inv, TypeOK, Away, handle_read_complete, processAndWriteCS16
  <1>3. Apart(free, writes')
    BY <1>1 DEF Inv, TypeOK, Apart, Away, handle_read_complete, processAndWriteCS16
  <1>4. /\ free' \in [Buffers -> Nat]
        /\ target' \in Buffers \cup {NoBuffer}
        /\ read' \in {"pending", "none"}
        /\ enabled' \in BOOLEAN
        /\ fault' \in BOOLEAN
        /\ Apart(free', writes')
        /\ Away(free, writes)'
    BY <1>3, InitiateRead DEF Inv, TypeOK, processAndWriteCS16
  <1>5. Fresh'
    BY <1>1, <1>4 DEF Inv, TypeOK, Fresh, handle_read_complete, processAndWriteCS16, Blocks
  <1> QED
    BY <1>1, <1>2, <1>4, <1>5, StreamAssumption
    DEF Inv, TypeOK, handle_read_complete, Blocks

\* A converted block moves to two buffers from the pool, and its own returns there.
LEMMA ConvertedBlock ==
    ASSUME Inv, handle_read_complete, processAndWriteCF32
    PROVE  Inv'
  <1>1. total_read + 1 \in Blocks
    BY StreamAssumption DEF Inv, TypeOK, Fresh, handle_read_complete, Blocks
  <1>2. PICK raw1 \in Acquirable(free) : \E raw2 \in Acquirable(acquire(free, raw1)) :
          /\ writes' = [writes EXCEPT ![total_read + 1] = {raw1, raw2}]
          /\ initiate_read(release(acquire(acquire(free, raw1), raw2), {target}))
    BY DEF processAndWriteCF32
  <1>3. PICK raw2 \in Acquirable(acquire(free, raw1)) :
          /\ writes' = [writes EXCEPT ![total_read + 1] = {raw1, raw2}]
          /\ initiate_read(release(acquire(acquire(free, raw1), raw2), {target}))
    BY <1>2
  <1> DEFINE pool == release(acquire(acquire(free, raw1), raw2), {target})
  <1>4. /\ raw1 \in Buffers /\ free[raw1] = 1
        /\ raw2 \in Buffers /\ free[raw2] = 1
        /\ raw1 # raw2
    BY DEF Inv, TypeOK, Apart, Acquirable, acquire
  <1>5. /\ target \in Buffers
        /\ free[target] = 0
        /\ target # raw1 /\ target # raw2
        /\ \A k \in Blocks : target \notin writes[k]
    BY <1>4 DEF Inv, Away, handle_read_complete
  <1>6. pool = [b \in Buffers |-> IF b \in {raw1, raw2} THEN 0
                                  ELSE IF b = target THEN 1 ELSE free[b]]
    BY <1>4, <1>5 DEF Inv, TypeOK, acquire, release
  <1>7. pool \in [Buffers -> Nat]
    <2>1. \A b \in Buffers : pool[b] \in Nat
      BY <1>6 DEF Inv, TypeOK
    <2> QED
      BY <1>6, <2>1
  <1>8. writes' \in [Blocks -> SUBSET Buffers]
    BY <1>3, <1>4 DEF Inv, TypeOK
  <1>9. Apart(pool, writes')
    <2> SUFFICES ASSUME NEW b \in Buffers
                 PROVE  /\ pool[b] <= 1
                        /\ \A k \in Blocks : b \in writes'[k] => pool[b] = 0
                        /\ \A j, k \in Blocks : b \in writes'[j] /\ b \in writes'[k] => j = k
      BY DEF Apart
    <2>1. pool[b] <= 1
      BY <1>6 DEF Inv, Apart
    <2>2. \A k \in Blocks : b \in writes'[k] =>
            (b \in {raw1, raw2} /\ k = total_read + 1) \/ b \in writes[k]
      BY <1>3 DEF Inv, TypeOK
    <2>3. b \in {raw1, raw2} => \A k \in Blocks : b \notin writes[k]
      BY <1>4 DEF Inv, Apart
    <2>4. \A k \in Blocks : b \in writes'[k] => pool[b] = 0
      BY <1>5, <1>6, <2>2 DEF Inv, Apart
    <2>5. \A j, k \in Blocks : b \in writes'[j] /\ b \in writes'[k] => j = k
      BY <2>2, <2>3 DEF Inv, Apart
    <2> QED
      BY <2>1, <2>4, <2>5
  <1>10. /\ free' \in [Buffers -> Nat]
         /\ target' \in Buffers \cup {NoBuffer}
         /\ read' \in {"pending", "none"}
         /\ enabled' \in BOOLEAN
         /\ fault' \in BOOLEAN
         /\ Apart(free', writes')
         /\ Away(free, writes)'
    BY <1>3, <1>7, <1>9, InitiateRead DEF Inv, TypeOK
  <1>11. Fresh'
    BY <1>1, <1>3, <1>10 DEF Inv, TypeOK, Fresh, handle_read_complete, Blocks
  <1> QED
    BY <1>1, <1>8, <1>10, <1>11, StreamAssumption
    DEF Inv, TypeOK, handle_read_complete, Blocks

\* A CF64 block's buffer, and the block, are forgotten.
LEMMA DroppedBlock ==
    ASSUME Inv, handle_read_complete, dropCF64
    PROVE  Inv'
  <1>1. Apart(free, writes')
    BY DEF Inv, dropCF64
  <1>2. /\ free' \in [Buffers -> Nat]
        /\ target' \in Buffers \cup {NoBuffer}
        /\ read' \in {"pending", "none"}
        /\ enabled' \in BOOLEAN
        /\ fault' \in BOOLEAN
        /\ Apart(free', writes')
        /\ Away(free, writes)'
    BY <1>1, InitiateRead DEF Inv, TypeOK, dropCF64
  <1>3. Fresh'
    BY <1>2 DEF Inv, TypeOK, Fresh, handle_read_complete, dropCF64, Blocks
  <1> QED
    BY <1>2, <1>3, StreamAssumption
    DEF Inv, TypeOK, Fresh, handle_read_complete, dropCF64

\* What the disk is done with returns to the pool once.
LEMMA WrittenBlock ==
    ASSUME Inv, NEW k \in Blocks, NEW ok \in BOOLEAN, handle_write_complete(k, ok)
    PROVE  Inv'
  <1>1. /\ free' = [b \in Buffers |-> IF b \in writes[k] THEN 1 ELSE free[b]]
        /\ free' \in [Buffers -> Nat]
    BY DEF Inv, TypeOK, Apart, handle_write_complete, release
  <1>2. TypeOK'
    BY <1>1 DEF Inv, TypeOK, handle_write_complete
  <1>3. Apart(free', writes')
    <2> SUFFICES ASSUME NEW b \in Buffers
                 PROVE  /\ free'[b] <= 1
                        /\ \A j \in Blocks : b \in writes'[j] => free'[b] = 0
                        /\ \A i, j \in Blocks : b \in writes'[i] /\ b \in writes'[j] => i = j
      BY DEF Apart
    <2>1. \A j \in Blocks : b \in writes'[j] => j # k /\ b \in writes[j]
      BY DEF Inv, TypeOK, handle_write_complete
    <2> QED
      BY <1>1, <2>1 DEF Inv, Apart
  <1>4. Away(free, writes)'
    BY <1>1 DEF Inv, TypeOK, Away, handle_write_complete
  <1>5. Fresh'
    BY DEF Inv, TypeOK, Fresh, handle_write_complete
  <1> QED
    BY <1>2, <1>3, <1>4, <1>5 DEF Inv

LEMMA InvStep == ASSUME Inv, [Next]_vars PROVE Inv'
  <1>1. CASE Start
    <2>1. Apart(free, writes')
      BY <1>1 DEF Inv, Start
    <2>2. /\ free' \in [Buffers -> Nat]
          /\ target' \in Buffers \cup {NoBuffer}
          /\ read' \in {"pending", "none"}
          /\ enabled' \in BOOLEAN
          /\ fault' \in BOOLEAN
          /\ Apart(free', writes')
          /\ Away(free, writes)'
      BY <1>1, <2>1, InitiateRead DEF Inv, TypeOK, Start
    <2> QED
      BY <1>1, <2>2 DEF Inv, TypeOK, Fresh, Start
  <1>2. CASE CompleteRead
    BY <1>2 DEF Inv, TypeOK, Apart, Away, Fresh, CompleteRead
  <1>3. CASE handle_read_complete
    BY <1>3, NativeBlock, ConvertedBlock, DroppedBlock DEF handle_read_complete
  <1>4. CASE convert_without_buffers
    BY <1>4 DEF Inv, TypeOK, Apart, Away, Fresh, convert_without_buffers
  <1>5. CASE handle_read_failed
    BY <1>5 DEF Inv, TypeOK, Apart, Away, Fresh, handle_read_failed
  <1>6. CASE \E k \in Blocks, ok \in BOOLEAN : handle_write_complete(k, ok)
    BY <1>6, WrittenBlock
  <1>7. CASE RunForEnds
    BY <1>7 DEF Inv, TypeOK, Apart, Away, Fresh, RunForEnds
  <1>8. CASE UNCHANGED vars
    BY <1>8 DEF Inv, TypeOK, Apart, Away, Fresh, vars
  <1> QED
    BY <1>1, <1>2, <1>3, <1>4, <1>5, <1>6, <1>7, <1>8 DEF Next

\* Type correctness of the stream, for any pool and any number of blocks.
THEOREM TypeCorrect == Spec => []TypeOK
  <1>1. Inv => TypeOK
    BY DEF Inv
  <1> QED
    BY <1>1, InvInit, InvStep, PTL DEF Spec

(***************************************************************************)
(* No buffer of the pool is ever in two hands: the device's, a pending     *)
(* write's or the pool's own.                                              *)
(***************************************************************************)
THEOREM BuffersNeverShared == Spec => []NeverShared
  <1> QED
    BY InvShares, InvInit, InvStep, PTL DEF Spec

-----------------------------------------------------------------------------
(* No buffer is lost                                                       *)

\* In the pool, with the device, or with the disk.
Held(b) == free[b] > 0 \/ Reading(b) \/ \E k \in Blocks : b \in writes[k]

(***************************************************************************)
(* NothingLeaks, and what it rests on before the first read: all is in the *)
(* pool.                                                                   *)
(***************************************************************************)
Kept ==
    (read # "none" \/ target = NoBuffer) /\ ~fault /\ format # "CF64"
      => \A b \in Buffers : Held(b)

\* initiate_read takes at most the buffer it gives the device.
LEMMA InitiateReadKeeps ==
    ASSUME NEW pool \in [Buffers -> Nat], initiate_read(pool),
           \A b \in Buffers : pool[b] > 0 \/ \E k \in Blocks : b \in writes'[k]
    PROVE  Kept'
  <1>1. CASE Acquirable(pool) = {}
    BY <1>1 DEF initiate_read, Kept
  <1>2. CASE Acquirable(pool) # {}
    <2>1. PICK b \in Acquirable(pool) : free' = acquire(pool, b) /\ target' = b
      BY <1>2 DEF initiate_read
    <2>2. b \in Buffers /\ b # NoBuffer
      BY NoBufferAssumption DEF Acquirable
    <2>3. \A d \in Buffers \ {b} : free'[d] = pool[d]
      BY <2>1 DEF acquire
    <2>4. read' # "none" => \A d \in Buffers : Held(d)'
      BY <2>1, <2>2, <2>3 DEF Held, Reading
    <2> QED
      BY <2>1, <2>2, <2>4 DEF Kept
  <1> QED
    BY <1>1, <1>2

LEMMA KeptStep == ASSUME Inv, Kept, [Next]_vars PROVE Kept'
  <1>1. CASE Start
    <2>1. CASE fault \/ format = "CF64"
      BY <1>1, <2>1 DEF Start, initiate_read, Kept
    <2>2. CASE ~fault /\ format # "CF64"
      <3>1. \A b \in Buffers : free[b] > 0 \/ \E k \in Blocks : b \in writes'[k]
        BY <1>1, <2>2 DEF Start, Kept, Held, Reading
      <3> QED
        BY <1>1, <3>1, InitiateReadKeeps DEF Start, Inv, TypeOK
    <2> QED
      BY <2>1, <2>2
  <1>2. CASE CompleteRead
    BY <1>2 DEF CompleteRead, Kept, Held, Reading
  <1>3. CASE handle_read_complete /\ ~fault
    <2>1. total_read + 1 \in Blocks /\ writes[total_read + 1] = {}
      BY <1>3, StreamAssumption DEF handle_read_complete, Inv, TypeOK, Fresh, Blocks
    <2>2. format # "CF64" => \A b \in Buffers : Held(b)
      BY <1>3 DEF handle_read_complete, Kept
    <2>3. CASE format = "S16" /\ processAndWriteCS16
      <3>1. \A b \in Buffers : free[b] > 0 \/ \E k \in Blocks : b \in writes'[k]
        BY <2>1, <2>2, <2>3 DEF processAndWriteCS16, Held, Reading, Inv, TypeOK
      <3> QED
        BY <2>3, <3>1, InitiateReadKeeps DEF processAndWriteCS16, Inv, TypeOK
    <2>4. CASE format = "CF32" /\ processAndWriteCF32
      <3>1. PICK raw1 \in Acquirable(free) : \E raw2 \in Acquirable(acquire(free, raw1)) :
              /\ writes' = [writes EXCEPT ![total_read + 1] = {raw1, raw2}]
              /\ initiate_read(release(acquire(acquire(free, raw1), raw2), {target}))
        BY <2>4 DEF processAndWriteCF32
      <3>2. PICK raw2 \in Acquirable(acquire(free, raw1)) :
              /\ writes' = [writes EXCEPT ![total_read + 1] = {raw1, raw2}]
              /\ initiate_read(release(acquire(acquire(free, raw1), raw2), {target}))
        BY <3>1
      <3> DEFINE pool == release(acquire(acquire(free, raw1), raw2), {target})
      <3>3. /\ raw1 \in Buffers /\ raw2 \in Buffers
            /\ free[raw1] = 1 /\ free[raw2] = 1 /\ raw1 # raw2
        BY DEF Inv, TypeOK, Apart, Acquirable, acquire
      <3>4. /\ pool = [b \in Buffers |-> IF b \in {raw1, raw2} /\ b # target THEN 0
                                         ELSE IF b = target THEN free[b] + (IF b \in {raw1, raw2}
                                                                            THEN 0 ELSE 1)
                                         ELSE free[b]]
        BY <3>3 DEF acquire, release, Inv, TypeOK
      <3>5. pool \in [Buffers -> Nat]
        <4>1. \A b \in Buffers : pool[b] \in Nat
          BY <3>4 DEF Inv, TypeOK
        <4> QED
          BY <3>4, <4>1
      <3>6. ASSUME NEW b \in Buffers PROVE pool[b] > 0 \/ \E k \in Blocks : b \in writes'[k]
        <4>1. CASE b \in {raw1, raw2}
          BY <2>1, <3>2, <4>1 DEF Inv, TypeOK
        <4>2. CASE b = target /\ b \notin {raw1, raw2}
          BY <3>4, <4>2 DEF Inv, TypeOK
        <4>3. CASE b # target /\ b \notin {raw1, raw2}
          <5>1. free[b] > 0 \/ \E k \in Blocks : b \in writes[k]
            BY <2>2, <2>4, <4>3 DEF Held, Reading
          <5>2. \A k \in Blocks : b \in writes[k] => b \in writes'[k]
            BY <2>1, <3>2 DEF Inv, TypeOK
          <5> QED
            BY <3>4, <4>3, <5>1, <5>2
        <4> QED
          BY <4>1, <4>2, <4>3
      <3> HIDE DEF pool
      <3>7. initiate_read(pool)
        BY <3>2 DEF pool
      <3> QED
        BY <3>5, <3>6, <3>7, InitiateReadKeeps
    <2>5. CASE format = "CF64"
      BY <1>3, <2>5 DEF handle_read_complete, Kept
    <2> QED
      BY <1>3, <2>3, <2>4, <2>5 DEF handle_read_complete
  <1>4. CASE convert_without_buffers
    BY <1>4 DEF convert_without_buffers, Kept
  <1>5. CASE handle_read_failed
    <2>1. target # NoBuffer
      BY <1>5, NoBufferAssumption DEF handle_read_failed, Inv, Away
    <2> QED
      BY <1>5, <2>1 DEF handle_read_failed, Kept
  <1>6. ASSUME NEW k \in Blocks, NEW ok \in BOOLEAN, handle_write_complete(k, ok)
        PROVE Kept'
    <2>1. \A b \in Buffers : Held(b) => Held(b)'
      <3> SUFFICES ASSUME NEW b \in Buffers, Held(b) PROVE Held(b)'
        OBVIOUS
      <3>1. b \in writes[k] => free'[b] > 0
        BY <1>6 DEF handle_write_complete, release, Inv, TypeOK
      <3>2. b \notin writes[k] => free'[b] = free[b]
        BY <1>6 DEF handle_write_complete, release, Inv, TypeOK
      <3>3. \A j \in Blocks : j # k => writes'[j] = writes[j]
        BY <1>6 DEF handle_write_complete, Inv, TypeOK
      <3> QED
        BY <1>6, <3>1, <3>2, <3>3 DEF Held, Reading, handle_write_complete
    <2> QED
      BY <1>6, <2>1 DEF handle_write_complete, Kept
  <1>7. CASE RunForEnds
    BY <1>7 DEF RunForEnds, Kept, Held, Reading
  <1>8. CASE UNCHANGED vars
    BY <1>8 DEF vars, Kept, Held, Reading
  <1> QED
    BY <1>1, <1>2, <1>3, <1>4, <1>5, <1>6, <1>7, <1>8 DEF Next

(***************************************************************************)
(* While the stream runs in a format it writes, every buffer of the pool   *)
(* is in it, with the device or with the disk, whatever writes fail.       *)
(***************************************************************************)
THEOREM NoBufferLost == Spec => []NothingLeaks
  <1>1. Init => Kept
    BY DEF Init, Kept, Held
  <1>2. Kept => NothingLeaks
    BY DEF Kept, Held, NothingLeaks, Writing
  <1> QED
    BY <1>1, <1>2, InvInit, InvStep, KeptStep, PTL DEF Spec

-----------------------------------------------------------------------------
(* The null buffer                                                         *)

\* The buffers that wait for the disk.
Waiting == UNION {writes[k] : k \in Blocks}

LEMMA TwoAtMost == ASSUME NEW S, NEW a, NEW b, S \subseteq {a, b} PROVE Cardinality(S) <= 2
  <1>1. IsFiniteSet({a, b}) /\ Cardinality({a, b}) <= 2
    <2>1. IsFiniteSet({a}) /\ Cardinality({a}) = 1
      BY FS_Singleton
    <2>2. {a, b} = {a} \cup {b}
      OBVIOUS
    <2>3. /\ IsFiniteSet({a} \cup {b})
          /\ Cardinality({a} \cup {b}) = IF b \in {a} THEN 1 ELSE 2
      BY <2>1, FS_AddElement
    <2> QED
      BY <2>2, <2>3
  <1>2. IsFiniteSet(S) /\ Cardinality(S) <= Cardinality({a, b})
    BY <1>1, FS_Subset
  <1>3. Cardinality(S) \in Nat /\ Cardinality({a, b}) \in Nat
    BY <1>1, <1>2, FS_CardinalityType
  <1> QED
    BY <1>1, <1>2, <1>3

\* If initiate_read meets it while every buffer is in the pool or with the disk.
LEMMA InitiateReadDry ==
    ASSUME NEW pool \in [Buffers -> Nat], initiate_read(pool), ~fault, fault',
           \A b \in Buffers : pool[b] > 0 \/ \E k \in Blocks : b \in writes'[k],
           writes' \in [Blocks -> SUBSET Buffers]
    PROVE  DryOnlyBehindDisk'
  <1>1. Acquirable(pool) = {}
    BY DEF initiate_read
  <1>2. Waiting' = Buffers
    BY <1>1 DEF Acquirable, Waiting
  <1>3. Cardinality(Buffers \ Waiting') <= 2
    BY <1>2, FS_EmptySet
  <1> QED
    BY <1>2, <1>3 DEF DryOnlyBehindDisk, Waiting

(***************************************************************************)
(* Nothing happens after the null buffer is met, so only the step that     *)
(* meets it matters, and Kept says where the buffers are then.             *)
(***************************************************************************)
LEMMA DryStep == ASSUME Inv, Kept, DryOnlyBehindDisk, [Next]_vars PROVE DryOnlyBehindDisk'
  <1>1. CASE ~fault'
    BY <1>1 DEF DryOnlyBehindDisk
  <1>2. CASE UNCHANGED vars
    BY <1>2 DEF vars, DryOnlyBehindDisk
  <1>3. CASE Start /\ ~fault /\ fault'
    <2>1. CASE format = "CF64"
      BY <1>3, <2>1 DEF Start, DryOnlyBehindDisk
    <2>2. CASE format # "CF64"
      <3>1. \A b \in Buffers : free[b] > 0 \/ \E k \in Blocks : b \in writes'[k]
        BY <1>3, <2>2 DEF Start, Kept, Held, Reading
      <3> QED
        BY <1>3, <3>1, InitiateReadDry DEF Start, Inv, TypeOK
    <2> QED
      BY <2>1, <2>2
  <1>4. CASE handle_read_complete /\ ~fault /\ fault'
    <2>1. total_read + 1 \in Blocks /\ writes[total_read + 1] = {}
      BY <1>4, StreamAssumption DEF handle_read_complete, Inv, TypeOK, Fresh, Blocks
    <2>2. CASE format = "S16" /\ processAndWriteCS16
      <3>1. \A b \in Buffers : Held(b)
        BY <1>4, <2>2 DEF handle_read_complete, Kept
      <3>2. \A b \in Buffers : free[b] > 0 \/ \E k \in Blocks : b \in writes'[k]
        BY <2>1, <2>2, <3>1 DEF processAndWriteCS16, Held, Reading, Inv, TypeOK
      <3>3. writes' \in [Blocks -> SUBSET Buffers]
        BY <1>4, <2>2 DEF processAndWriteCS16, handle_read_complete, Inv, TypeOK, Away
      <3> QED
        BY <1>4, <2>2, <3>2, <3>3, InitiateReadDry DEF processAndWriteCS16, Inv, TypeOK
    <2>3. CASE format = "CF32" /\ processAndWriteCF32
      <3>1. PICK raw1 \in Acquirable(free) : \E raw2 \in Acquirable(acquire(free, raw1)) :
              initiate_read(release(acquire(acquire(free, raw1), raw2), {target}))
        BY <2>3 DEF processAndWriteCF32
      <3>2. PICK raw2 \in Acquirable(acquire(free, raw1)) :
              initiate_read(release(acquire(acquire(free, raw1), raw2), {target}))
        BY <3>1
      <3>3. target \in Buffers /\ free[target] = 0
        BY <1>4 DEF handle_read_complete, Inv, Away
      <3>4. raw1 # target /\ raw2 # target
        BY <3>3 DEF Acquirable, acquire, Inv, TypeOK
      <3>5. target \in Acquirable(release(acquire(acquire(free, raw1), raw2), {target}))
        BY <3>3, <3>4 DEF Acquirable, acquire, release, Inv, TypeOK
      <3> QED
        BY <1>4, <3>2, <3>5 DEF initiate_read
    <2>4. CASE format = "CF64"
      BY <1>4, <2>4 DEF handle_read_complete, DryOnlyBehindDisk
    <2> QED
      BY <1>4, <2>2, <2>3, <2>4 DEF handle_read_complete
  <1>5. CASE convert_without_buffers /\ ~fault
    <2>1. \A b \in Buffers : Held(b)
      BY <1>5 DEF convert_without_buffers, Kept
    <2>2. PICK last : \A b \in Buffers : free[b] > 0 => b = last
      <3>1. CASE Acquirable(free) = {}
        BY <3>1 DEF Acquirable
      <3>2. CASE Acquirable(free) # {}
        <4>1. PICK raw1 \in Acquirable(free) : Acquirable(acquire(free, raw1)) = {}
          BY <1>5, <3>2 DEF convert_without_buffers
        <4>2. \A b \in Buffers : b # raw1 => acquire(free, raw1)[b] = free[b]
          BY DEF acquire, Inv, TypeOK
        <4>3. \A b \in Buffers : free[b] > 0 => b = raw1
          BY <4>1, <4>2 DEF Acquirable
        <4> QED
          BY <4>3
      <3> QED
        BY <3>1, <3>2
    <2>3. Buffers \ Waiting \subseteq {target, last}
      BY <2>1, <2>2 DEF Held, Reading, Waiting
    <2>4. Cardinality(Buffers \ Waiting) <= 2
      BY <2>3, TwoAtMost
    <2>5. format' = "CF32" /\ Waiting' = Waiting
      BY <1>5 DEF convert_without_buffers, Waiting
    <2>6. Cardinality(Buffers \ Waiting') <= 2
      BY <2>4, <2>5
    <2> QED
      BY <2>5, <2>6 DEF DryOnlyBehindDisk, Waiting
  <1>6. CASE ~fault /\ fault' = fault
    BY <1>6 DEF DryOnlyBehindDisk
  <1>7. CASE Next
    <2>1. ~fault
      BY <1>7 DEF Next
    <2>2. CompleteRead \/ handle_read_failed \/ RunForEnds
            \/ (\E k \in Blocks, ok \in BOOLEAN : handle_write_complete(k, ok))
              => fault' = fault
      BY DEF CompleteRead, handle_read_failed, RunForEnds, handle_write_complete
    <2> QED
      BY <1>1, <1>3, <1>4, <1>5, <1>6, <1>7, <2>1, <2>2 DEF Next
  <1> QED
    BY <1>2, <1>7

(***************************************************************************)
(* For any pool: the null pointer of an empty pool is dereferenced only    *)
(* when the disk is a whole pool behind, or, converting to CF32, a pool    *)
(* but two buffers.                                                        *)
(***************************************************************************)
THEOREM NullOnlyBehindDisk == Spec => []DryOnlyBehindDisk
  <1>1. Init => Kept /\ DryOnlyBehindDisk
    BY DEF Init, Kept, Held, DryOnlyBehindDisk
  <1> QED
    BY <1>1, InvInit, InvStep, KeptStep, DryStep, PTL DEF Spec

-----------------------------------------------------------------------------
(* The totals                                                              *)

\* There are only so many blocks.
LEMMA OutstandingFinite == IsFiniteSet(Outstanding) /\ Cardinality(Outstanding) \in Nat
  <1>1. IsFiniteSet(Blocks)
    BY StreamAssumption, FS_Interval DEF Blocks
  <1>2. Outstanding \subseteq Blocks
    BY DEF Outstanding
  <1>3. IsFiniteSet(Outstanding)
    BY <1>1, <1>2, FS_Subset
  <1> QED
    BY <1>3, FS_CardinalityType

\* One write less to report.
LEMMA OneWriteLess ==
    ASSUME Inv, NEW k \in Blocks, NEW ok \in BOOLEAN, handle_write_complete(k, ok)
    PROVE  Cardinality(Outstanding') = Cardinality(Outstanding) - 1
  <1>1. Outstanding' = Outstanding \ {k} /\ k \in Outstanding
    BY DEF handle_write_complete, Outstanding, Inv, TypeOK
  <1> QED
    BY <1>1, OutstandingFinite, FS_RemoveElement

LEMMA TotalsStep == ASSUME Inv, TotalsAgree, [Next]_vars PROVE TotalsAgree'
  <1>1. CASE handle_read_complete /\ format = "S16"
    <2>1. /\ total_read + 1 \in Blocks /\ writes[total_read + 1] = {}
          /\ writes' = [writes EXCEPT ![total_read + 1] = {target}]
      BY <1>1, StreamAssumption
      DEF handle_read_complete, processAndWriteCS16, Inv, TypeOK, Fresh, Blocks
    <2>2. /\ Outstanding' = Outstanding \cup {total_read + 1}
          /\ total_read + 1 \notin Outstanding
      BY <2>1 DEF Outstanding, Inv, TypeOK
    <2>3. Cardinality(Outstanding') = Cardinality(Outstanding) + 1
      BY <2>2, OutstandingFinite, FS_AddElement
    <2> QED
      BY <1>1, <2>3, OutstandingFinite, StreamAssumption
      DEF handle_read_complete, TotalsAgree, Inv, TypeOK
  <1>2. ASSUME NEW k \in Blocks, NEW ok \in BOOLEAN, handle_write_complete(k, ok),
               format = "S16"
        PROVE TotalsAgree'
    <2>1. Cardinality(Outstanding') = Cardinality(Outstanding) - 1
      BY <1>2, OneWriteLess
    <2>2. /\ total_write' = total_write + (IF ok THEN 1 ELSE 0)
          /\ failed' = failed + (IF ok THEN 0 ELSE 1)
          /\ total_read' = total_read
      BY <1>2 DEF handle_write_complete
    <2> QED
      BY <1>2, <2>1, <2>2, OutstandingFinite, StreamAssumption DEF TotalsAgree, Inv, TypeOK
  <1>3. CASE Start \/ CompleteRead \/ convert_without_buffers \/ handle_read_failed
               \/ RunForEnds \/ UNCHANGED vars
    <2>1. UNCHANGED <<format, writes, total_read, total_write, failed>>
      BY <1>3 DEF Start, CompleteRead, convert_without_buffers, handle_read_failed,
                  RunForEnds, vars
    <2>2. Outstanding' = Outstanding
      BY <2>1 DEF Outstanding
    <2> QED
      BY <2>1, <2>2 DEF TotalsAgree
  <1>4. format' = format
    BY DEF Next, Start, CompleteRead, handle_read_complete, convert_without_buffers,
           handle_read_failed, handle_write_complete, RunForEnds, vars
  <1>5. CASE format # "S16"
    BY <1>4, <1>5 DEF TotalsAgree
  <1> QED
    BY <1>1, <1>2, <1>3, <1>5 DEF Next

(***************************************************************************)
(* For any number of blocks: each native block counted as read is counted  *)
(* as written, was reported as failed, or is still with the disk.          *)
(***************************************************************************)
THEOREM TotalsAccounted == Spec => []TotalsAgree
  <1>1. Init => TotalsAgree
    <2> SUFFICES ASSUME Init PROVE TotalsAgree
      OBVIOUS
    <2>1. Outstanding = {}
      BY DEF Init, Outstanding
    <2> QED
      BY <2>1, FS_EmptySet DEF Init, TotalsAgree
  <1> QED
    BY <1>1, InvInit, InvStep, TotalsStep, PTL DEF Spec

-----------------------------------------------------------------------------
(* The end of a dead stream                                                *)

LEMMA DeadStep ==
    ASSUME Inv, Dead, [Next]_vars
    PROVE  UNCHANGED vars \/ (Dead' /\ (WorkLeft' < WorkLeft \/ ~looping'))
  <1> USE DEF Dead
  <1>1. ASSUME NEW k \in Blocks, NEW ok \in BOOLEAN, handle_write_complete(k, ok)
        PROVE  Dead' /\ WorkLeft' < WorkLeft
    <2>1. read' = read /\ target' = target
      BY <1>1 DEF handle_write_complete
    <2> QED
      BY <1>1, <2>1, OneWriteLess, OutstandingFinite DEF WorkLeft
  <1>2. CASE handle_read_failed
    <2>1. Outstanding' = Outstanding
      BY <1>2 DEF handle_read_failed, Outstanding
    <2> QED
      BY <1>2, <2>1, OutstandingFinite DEF handle_read_failed, WorkLeft
  <1>3. CASE RunForEnds
    BY <1>3 DEF RunForEnds
  <1>4. ~Start /\ ~CompleteRead /\ ~handle_read_complete /\ ~convert_without_buffers
    BY DEF Start, CompleteRead, handle_read_complete, convert_without_buffers
  <1> QED
    BY <1>1, <1>2, <1>3, <1>4 DEF Next

(***************************************************************************)
(* For any pool: once a read has failed or was refused, no handler starts  *)
(* a read or a write; what is left to report only grows less.              *)
(***************************************************************************)
THEOREM DeadStreamHasAnEnd == Spec => DeadStreamWindsDown
  <1>1. Inv /\ [Next]_vars => [Dead => Dead' /\ (WorkLeft' < WorkLeft \/ ~looping')]_vars
    BY DeadStep
  <1> QED
    BY <1>1, InvInit, InvStep, PTL DEF Spec, DeadStreamWindsDown

-----------------------------------------------------------------------------
(* The owner of each buffer                                                *)

\* Where a buffer is when the device has none.
Place(pool, wr, b) ==
    IF pool[b] > 0 THEN "pool" ELSE IF \E k \in Blocks : b \in wr[k] THEN "disk" ELSE "lost"

\* Before the first read all is in the pool.
Unstarted ==
    target = NoBuffer /\ ~fault =>
        /\ \A b \in Buffers : free[b] > 0
        /\ \A k \in Blocks : writes[k] = {}

LEMMA UnstartedStep == ASSUME Inv, Unstarted, [Next]_vars PROVE Unstarted'
  <1> USE NoBufferAssumption DEF Unstarted
  <1>1. ASSUME NEW pool, initiate_read(pool) PROVE Unstarted'
    BY <1>1 DEF initiate_read, Acquirable
  <1>2. CASE Start \/ handle_read_complete
    BY <1>1, <1>2 DEF Start, handle_read_complete, processAndWriteCS16, processAndWriteCF32,
                      dropCF64
  <1>3. CASE CompleteRead \/ handle_read_failed \/ RunForEnds \/ convert_without_buffers
    BY <1>3 DEF CompleteRead, handle_read_failed, RunForEnds, convert_without_buffers
  <1>4. CASE \E k \in Blocks, ok \in BOOLEAN : handle_write_complete(k, ok)
    BY <1>4 DEF handle_write_complete
  <1>5. CASE UNCHANGED vars
    BY <1>5 DEF vars
  <1> QED
    BY <1>2, <1>3, <1>4, <1>5 DEF Next

\* Since no buffer is in two hands, each hand is its owner.
LEMMA OwnerIs ==
    ASSUME Inv, NEW b \in Buffers
    PROVE  /\ Owner(b) = "pool" <=> free[b] > 0
           /\ Owner(b) = "device" <=> target = b /\ read # "none"
           /\ Owner(b) = "disk" <=> \E k \in Blocks : b \in writes[k]
           /\ ~(target = b /\ read # "none") => Owner(b) = Place(free, writes, b)
  <1>1. free[b] \in Nat
    BY DEF Inv, TypeOK
  <1>2. Writing(b) # {} <=> \E k \in Blocks : b \in writes[k]
    BY DEF Writing
  <1>3. free[b] > 0 => ~Reading(b) /\ Writing(b) = {}
    BY <1>1, <1>2 DEF Inv, Apart, Away, Reading
  <1>4. Reading(b) => Writing(b) = {}
    BY <1>2 DEF Inv, Away, Reading
  <1> QED
    BY <1>1, <1>2, <1>3, <1>4 DEF Owner, Reading, Place

\* initiate_read passes one buffer of the pool on, or finds none.
LEMMA InitiateReadPasses ==
    ASSUME NEW pool \in [Buffers -> Nat], initiate_read(pool), Apart(pool, writes')
    PROVE  Ownership!NextRead([b \in Buffers |-> Place(pool, writes', b)])
  <1> DEFINE o == [b \in Buffers |-> Place(pool, writes', b)]
             next == [b \in Buffers |-> Owner(b)]'
  <1>1. next = [b \in Buffers |-> Owner(b)']
    OBVIOUS
  <1>2. \A b \in Buffers : Writing(b)' # {} <=> \E k \in Blocks : b \in writes'[k]
    BY DEF Writing
  <1>3. Ownership!OwnedBy(o, "pool") = Acquirable(pool)
    BY DEF Ownership!OwnedBy, Place, Acquirable
  <1>4. CASE Acquirable(pool) = {}
    <2>1. free' = pool /\ read' = "none"
      BY <1>4 DEF initiate_read
    <2>2. \A b \in Buffers : Owner(b)' = Place(pool, writes', b)
      BY <1>2, <1>4, <2>1 DEF Owner, Place, Reading, Acquirable
    <2>3. next = o
      BY <1>1, <2>2
    <2> QED
      BY <1>3, <1>4, <2>3 DEF Ownership!NextRead
  <1>5. CASE Acquirable(pool) # {}
    <2>1. PICK d \in Acquirable(pool) : free' = acquire(pool, d) /\ target' = d
      BY <1>5 DEF initiate_read
    <2>2. d \in Buffers /\ pool[d] = 1
      BY DEF Acquirable, Apart
    <2>3. free'[d] = 0 /\ \A b \in Buffers \ {d} : free'[b] = pool[b]
      BY <2>1, <2>2 DEF acquire
    <2>4. Writing(d)' = {}
      BY <1>2, <2>2 DEF Apart
    <2>5. Owner(d)' \in {"device", "lost"}
      BY <2>3, <2>4 DEF Owner
    <2>6. \A b \in Buffers \ {d} : Owner(b)' = Place(pool, writes', b)
      BY <1>2, <2>1, <2>3 DEF Owner, Place, Reading
    <2>7. next = Ownership!Give(o, {d}, Owner(d)')
      BY <1>1, <2>2, <2>6 DEF Ownership!Give
    <2> QED
      BY <1>3, <2>5, <2>7 DEF Ownership!NextRead
  <1> QED
    BY <1>4, <1>5

\* The owners of all buffers.
Owners == [b \in Buffers |-> Owner(b)]

LEMMA StartPasses == ASSUME Inv, Unstarted, ~fault, Start PROVE Ownership!FirstRead
  <1>1. \A b \in Buffers : Owner(b) = "pool" /\ Owner(b) = Place(free, writes', b)
    BY OwnerIs DEF Start, Unstarted
  <1>2. Ownership!OwnedBy(Owners, "pool") = Buffers
    BY <1>1 DEF Ownership!OwnedBy, Owners
  <1>3. Owners = [b \in Buffers |-> Place(free, writes', b)]
    BY <1>1 DEF Owners
  <1>4. Ownership!NextRead([b \in Buffers |-> Place(free, writes', b)])
    BY InitiateReadPasses DEF Start, Inv, TypeOK
  <1> QED
    BY <1>2, <1>3, <1>4 DEF Ownership!FirstRead, Owners

LEMMA NativePasses ==
    ASSUME Inv, handle_read_complete, format = "S16", processAndWriteCS16
    PROVE  Ownership!WriteNative
  <1>1. total_read + 1 \in Blocks /\ writes[total_read + 1] = {}
    BY StreamAssumption DEF handle_read_complete, Inv, TypeOK, Fresh, Blocks
  <1>2. target \in Buffers /\ free[target] = 0 /\ \A k \in Blocks : target \notin writes[k]
    BY DEF handle_read_complete, Inv, Away
  <1>3. \A b \in Buffers :
          (\E k \in Blocks : b \in writes'[k]) <=> b = target \/ \E k \in Blocks : b \in writes[k]
    BY <1>1 DEF processAndWriteCS16, Inv, TypeOK
  <1>4. Apart(free, writes')
    BY <1>1, <1>2 DEF processAndWriteCS16, Inv, TypeOK, Apart
  <1>5. Ownership!NextRead([b \in Buffers |-> Place(free, writes', b)])
    BY <1>4, InitiateReadPasses DEF processAndWriteCS16, Inv, TypeOK
  <1>6. Owner(target) = "device"
    BY <1>2, OwnerIs DEF handle_read_complete
  <1>7. \A b \in Buffers :
          Place(free, writes', b) = IF b = target THEN "disk" ELSE Owner(b)
    BY <1>2, <1>3, OwnerIs DEF Place
  <1>8. Ownership!Give(Owners, {target}, "disk") = [b \in Buffers |-> Place(free, writes', b)]
    BY <1>7 DEF Ownership!Give, Owners
  <1> QED
    BY <1>2, <1>5, <1>6, <1>8 DEF Ownership!WriteNative, Ownership!OwnedBy, Owners

LEMMA ConvertedPasses ==
    ASSUME Inv, handle_read_complete, format = "CF32", processAndWriteCF32
    PROVE  Ownership!WriteConverted
  <1>1. total_read + 1 \in Blocks /\ writes[total_read + 1] = {}
    BY StreamAssumption DEF handle_read_complete, Inv, TypeOK, Fresh, Blocks
  <1>2. PICK raw1 \in Acquirable(free) : \E raw2 \in Acquirable(acquire(free, raw1)) :
          /\ writes' = [writes EXCEPT ![total_read + 1] = {raw1, raw2}]
          /\ initiate_read(release(acquire(acquire(free, raw1), raw2), {target}))
    BY DEF processAndWriteCF32
  <1>3. PICK raw2 \in Acquirable(acquire(free, raw1)) :
          /\ writes' = [writes EXCEPT ![total_read + 1] = {raw1, raw2}]
          /\ initiate_read(release(acquire(acquire(free, raw1), raw2), {target}))
    BY <1>2
  <1> DEFINE pool == release(acquire(acquire(free, raw1), raw2), {target})
  <1>4. /\ raw1 \in Buffers /\ free[raw1] = 1
        /\ raw2 \in Buffers /\ free[raw2] = 1
        /\ raw1 # raw2
    BY DEF Inv, TypeOK, Apart, Acquirable, acquire
  <1>5. /\ target \in Buffers /\ free[target] = 0
        /\ target # raw1 /\ target # raw2
        /\ \A k \in Blocks : target \notin writes[k]
    BY <1>4 DEF Inv, Away, handle_read_complete
  <1>6. pool = [b \in Buffers |-> IF b \in {raw1, raw2} THEN 0
                                  ELSE IF b = target THEN 1 ELSE free[b]]
    BY <1>4, <1>5 DEF Inv, TypeOK, acquire, release
  <1>7. pool \in [Buffers -> Nat]
    <2>1. \A b \in Buffers : pool[b] \in Nat
      BY <1>6 DEF Inv, TypeOK
    <2> QED
      BY <1>6, <2>1
  <1>8. \A b \in Buffers : \A k \in Blocks :
          b \in writes'[k] <=> b \in writes[k] \/ (b \in {raw1, raw2} /\ k = total_read + 1)
    BY <1>1, <1>3 DEF Inv, TypeOK
  <1>9. Apart(pool, writes')
    <2> SUFFICES ASSUME NEW b \in Buffers
                 PROVE  /\ pool[b] <= 1
                        /\ \A k \in Blocks : b \in writes'[k] => pool[b] = 0
                        /\ \A j, k \in Blocks : b \in writes'[j] /\ b \in writes'[k] => j = k
      BY DEF Apart
    <2>1. b \in {raw1, raw2} => \A k \in Blocks : b \notin writes[k]
      BY <1>4 DEF Inv, Apart
    <2> QED
      BY <1>5, <1>6, <1>8, <2>1 DEF Inv, Apart
  <1> HIDE DEF pool
  <1>10. Ownership!NextRead([b \in Buffers |-> Place(pool, writes', b)])
    <2>1. initiate_read(pool)
      BY <1>3 DEF pool
    <2> QED
      BY <1>7, <1>9, <2>1, InitiateReadPasses
  <1>11. Owner(target) = "device" /\ Owner(raw1) = "pool" /\ Owner(raw2) = "pool"
    BY <1>4, <1>5, OwnerIs DEF handle_read_complete
  <1>12. \A b \in Buffers :
           Place(pool, writes', b) = IF b = target THEN "pool"
                                     ELSE IF b \in {raw1, raw2} THEN "disk" ELSE Owner(b)
    <2> SUFFICES ASSUME NEW b \in Buffers
                 PROVE  Place(pool, writes', b)
                          = IF b = target THEN "pool"
                            ELSE IF b \in {raw1, raw2} THEN "disk" ELSE Owner(b)
      OBVIOUS
    <2>1. CASE b = target
      BY <1>5, <1>6, <2>1 DEF Place
    <2>2. CASE b \in {raw1, raw2}
      BY <1>1, <1>5, <1>6, <1>8, <2>2 DEF Place
    <2>3. CASE b # target /\ b \notin {raw1, raw2}
      <3>1. Owner(b) = Place(free, writes, b)
        BY <2>3, OwnerIs
      <3> QED
        BY <1>6, <1>8, <2>3, <3>1 DEF Place
    <2> QED
      BY <2>1, <2>2, <2>3
  <1>13. Ownership!Give(Ownership!Give(Owners, {raw1, raw2}, "disk"), {target}, "pool")
           = [b \in Buffers |-> Place(pool, writes', b)]
    BY <1>12 DEF Ownership!Give, Owners
  <1>14. /\ target \in Ownership!OwnedBy(Owners, "device")
         /\ raw1 \in Ownership!OwnedBy(Owners, "pool")
         /\ raw2 \in Ownership!OwnedBy(Owners, "pool")
    BY <1>4, <1>5, <1>11 DEF Ownership!OwnedBy, Owners
  <1>15. Ownership!NextRead(
           Ownership!Give(Ownership!Give(Owners, {raw1, raw2}, "disk"), {target}, "pool"))
    BY <1>10, <1>13
  <1> QED
    BY <1>4, <1>14, <1>15, Zenon DEF Ownership!WriteConverted, Owners

LEMMA DroppedPasses ==
    ASSUME Inv, handle_read_complete, format = "CF64", dropCF64
    PROVE  Ownership!Forget
  <1>1. target \in Buffers /\ free[target] = 0 /\ \A k \in Blocks : target \notin writes[k]
    BY DEF handle_read_complete, Inv, Away
  <1>2. Ownership!NextRead([b \in Buffers |-> Place(free, writes', b)])
    BY InitiateReadPasses DEF dropCF64, Inv, TypeOK
  <1>3. Owner(target) = "device"
    BY <1>1, OwnerIs DEF handle_read_complete
  <1>4. \A b \in Buffers :
          Place(free, writes', b) = IF b = target THEN "lost" ELSE Owner(b)
    BY <1>1, OwnerIs DEF Place, dropCF64
  <1>5. Ownership!Give(Owners, {target}, "lost") = [b \in Buffers |-> Place(free, writes', b)]
    BY <1>4 DEF Ownership!Give, Owners
  <1> QED
    BY <1>1, <1>2, <1>3, <1>5 DEF Ownership!Forget, Ownership!OwnedBy, Owners

LEMMA FailedPasses == ASSUME Inv, handle_read_failed PROVE Ownership!EndReading
  <1>1. target \in Buffers /\ free[target] = 0 /\ \A k \in Blocks : target \notin writes[k]
    BY DEF handle_read_failed, Inv, Away
  <1>2. Owner(target) = "device"
    BY <1>1, OwnerIs DEF handle_read_failed
  <1>3. \A b \in {target} : Owner(b)' = "lost"
    BY <1>1 DEF Owner, Reading, Writing, handle_read_failed
  <1>4. \A b \in Buffers \ {target} : Owner(b)' = Owner(b)
    BY DEF Owner, Reading, Writing, handle_read_failed
  <1>5. Owners' = Ownership!Give(Owners, {target}, "lost")
    BY <1>3, <1>4 DEF Ownership!Give, Owners
  <1> QED
    BY <1>1, <1>2, <1>5 DEF Ownership!EndReading, Ownership!OwnedBy, Owners

LEMMA WrittenPasses ==
    ASSUME Inv, NEW k \in Blocks, NEW ok \in BOOLEAN, handle_write_complete(k, ok)
    PROVE  Ownership!Return
  <1>1. writes[k] \subseteq Buffers
    BY DEF Inv, TypeOK
  <1>2. \A b \in writes[k] : Owner(b) = "disk"
    BY <1>1, OwnerIs
  <1>3. \A b \in writes[k] : Owner(b)' = "pool"
    BY <1>1 DEF Owner, handle_write_complete, release, Inv, TypeOK
  <1>4. ASSUME NEW b \in Buffers, b \notin writes[k] PROVE Owner(b)' = Owner(b)
    <2>1. free'[b] = free[b]
      BY <1>4 DEF handle_write_complete, release
    <2>2. Writing(b)' = Writing(b)
      BY <1>4 DEF Writing, handle_write_complete, Inv, TypeOK
    <2>3. Reading(b)' = Reading(b)
      BY DEF Reading, handle_write_complete
    <2> QED
      BY <2>1, <2>2, <2>3 DEF Owner
  <1>5. Owners' = Ownership!Give(Owners, writes[k], "pool")
    BY <1>3, <1>4 DEF Ownership!Give, Owners
  <1>6. writes[k] \in SUBSET Ownership!OwnedBy(Owners, "disk")
    BY <1>1, <1>2 DEF Ownership!OwnedBy, Owners
  <1> QED
    BY <1>5, <1>6 DEF Ownership!Return, Owners

LEMMA OwnerStep ==
    ASSUME Inv, Unstarted, [Next]_vars
    PROVE  [Ownership!OwnerNext]_Ownership!ownerVars
  <1> USE DEF Ownership!OwnerNext
  <1>1. CASE Start /\ ~fault
    BY <1>1, StartPasses DEF Start
  <1>2. CASE handle_read_complete
    BY <1>2, NativePasses, ConvertedPasses, DroppedPasses DEF handle_read_complete
  <1>3. CASE handle_read_failed
    BY <1>3, FailedPasses DEF handle_read_failed
  <1>4. ASSUME NEW k \in Blocks, NEW ok \in BOOLEAN, handle_write_complete(k, ok)
        PROVE  Ownership!OwnerNext
    BY <1>4, WrittenPasses DEF handle_write_complete
  <1>5. CASE CompleteRead
    <2>1. \A b \in Buffers : Owner(b)' = Owner(b)
      BY <1>5 DEF CompleteRead, Owner, Reading, Writing
    <2> QED
      BY <1>5, <2>1 DEF CompleteRead, Ownership!ownerVars
  <1>6. CASE convert_without_buffers \/ RunForEnds \/ UNCHANGED vars
    <2>1. UNCHANGED <<format, free, target, read, writes>>
      BY <1>6 DEF convert_without_buffers, RunForEnds, vars
    <2>2. \A b \in Buffers : Owner(b)' = Owner(b)
      BY <2>1 DEF Owner, Reading, Writing
    <2> QED
      BY <2>1, <2>2 DEF Ownership!ownerVars
  <1> QED
    BY <1>1, <1>2, <1>3, <1>4, <1>5, <1>6 DEF Next

(***************************************************************************)
(* The stream, its pool and its handlers implement the protocol by which   *)
(* a buffer changes hands, for any pool and any number of blocks.          *)
(***************************************************************************)
THEOREM StreamHandsOn == Spec => HandsBuffersOn
  <1>1. Init => Unstarted
    BY DEF Init, Unstarted
  <1>2. Init => Ownership!OwnerInit
    BY DEF Init, Ownership!OwnerInit, Owner
  <1> QED
    BY <1>1, <1>2, InvInit, InvStep, UnstartedStep, OwnerStep, PTL
    DEF Spec, HandsBuffersOn, Ownership!OwnerSpec
=============================================================================
