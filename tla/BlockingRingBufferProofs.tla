---------------------- MODULE BlockingRingBufferProofs ----------------------
(***************************************************************************)
(* Theorems about BlockingRingBuffer for every buffer size, every set of   *)
(* threads and every set of block and read sizes.                          *)
(***************************************************************************)
EXTENDS BlockingRingBuffer, FiniteSets, FiniteSetTheorems, TLAPS

-----------------------------------------------------------------------------
(* The index arithmetic                                                    *)

(* The number of samples between two indices is between 0 and BuffSize.    *)
LEMMA FillRange ==
    ASSUME TypeOK
    PROVE  available_data \in 0 .. BuffSize
  BY SizesAssumption DEF TypeOK, available_data, Between, capacity, Slots

(* An index reduced modulo the size of the ring, below and at the wrap.    *)
LEMMA ModuloSize ==
    ASSUME NEW m \in Nat \ {0}, NEW x \in 0 .. m
    PROVE  x % m = IF x < m THEN x ELSE 0
  OBVIOUS

(* The same before and after a step that keeps the types.                  *)
LEMMA FillsAreNat ==
    ASSUME TypeOK, TypeOK'
    PROVE  available_data \in Nat /\ available_data' \in Nat
  <1>1. \A h, t \in 0 .. BuffSize : Between(h, t) \in Nat
    BY SizesAssumption DEF Between, capacity
  <1>2. head \in 0 .. BuffSize /\ tail \in 0 .. BuffSize
    BY DEF TypeOK, Slots
  <1>3. head' \in 0 .. BuffSize /\ tail' \in 0 .. BuffSize
    BY DEF TypeOK, Slots
  <1>4. Between(head, tail) \in Nat /\ Between(head', tail') \in Nat
    BY <1>1, <1>2, <1>3
  <1> QED
    BY <1>4 DEF available_data

(***************************************************************************)
(* Writing n samples into a ring with room for them moves tail_ to a slot  *)
(* n samples further from head_, whether or not the block wraps around.    *)
(***************************************************************************)
LEMMA TailAdvances ==
    ASSUME TypeOK, NEW n \in Nat \ {0}, available_space >= n,
           tail' = NewTail(n), head' = head
    PROVE  tail' \in Slots /\ available_data' = available_data + n
  <1>1. /\ BuffSize \in Nat \ {0}
        /\ head \in 0 .. BuffSize /\ tail \in 0 .. BuffSize
    BY SizesAssumption DEF TypeOK, Slots
  <1>2. tail + n <= capacity =>
            (tail + n) % capacity = IF tail + n < capacity THEN tail + n ELSE 0
    <2>1. capacity \in Nat \ {0}
      BY <1>1 DEF capacity
    <2>2. ASSUME tail + n <= capacity PROVE tail + n \in 0 .. capacity
      BY <1>1, <2>1, <2>2
    <2> QED
      BY <2>1, <2>2, ModuloSize
  <1> QED
    BY <1>1, <1>2 DEF NewTail, capacity, available_data, Between, available_space, Slots

(***************************************************************************)
(* Reading n of the samples in the ring moves head_ to a slot n samples    *)
(* nearer to tail_.                                                        *)
(***************************************************************************)
LEMMA HeadAdvances ==
    ASSUME TypeOK, NEW n \in Nat \ {0}, available_data >= n,
           head' = NewHead(n), tail' = tail
    PROVE  head' \in Slots /\ available_data' = available_data - n
  <1>1. /\ BuffSize \in Nat \ {0}
        /\ head \in 0 .. BuffSize /\ tail \in 0 .. BuffSize
    BY SizesAssumption DEF TypeOK, Slots
  <1>2. head + n <= capacity =>
            (head + n) % capacity = IF head + n < capacity THEN head + n ELSE 0
    <2>1. capacity \in Nat \ {0}
      BY <1>1 DEF capacity
    <2>2. ASSUME head + n <= capacity PROVE head + n \in 0 .. capacity
      BY <1>1, <2>1, <2>2
    <2> QED
      BY <2>1, <2>2, ModuloSize
  <1> QED
    BY <1>1, <1>2 DEF NewHead, capacity, available_data, Between, Slots

(* Labels are integers, so a copied block leaves integers in the slots.    *)
LEMMA CopyInType ==
    ASSUME TypeOK, NEW n \in Nat
    PROVE  CopyIn(n) \in [Slots -> Int]
  <1>1. \A offset \in Int : ByteAt(offset) \in Int
    BY LabelsAssumption DEF TypeOK, ByteAt, BYTES_PER_SAMPLE
  <1>2. \A i \in Slots : i - tail \in Int /\ i \in Int
    BY SizesAssumption DEF TypeOK, Slots
  <1>3. \A i \in Slots : /\ BYTES_PER_SAMPLE * (i - tail) \in Int
                         /\ capacity - tail + BYTES_PER_SAMPLE * i \in Int
    BY <1>2, SizesAssumption DEF TypeOK, Slots, BYTES_PER_SAMPLE, capacity
  <1> QED
    BY <1>1, <1>3 DEF TypeOK, CopyIn

(* readbuf leaves a sequence of n places, read or not, with its caller.    *)
LEMMA CopyOutType ==
    ASSUME TypeOK, NEW n \in Nat
    PROVE  CopyOut(n) \in Seq(Int)
  <1>1. \A j \in 1 .. n : (head + j - 1) % capacity \in Slots
    BY SizesAssumption DEF TypeOK, Slots, capacity
  <1>2. \A j \in 1 .. n : cells[(head + j - 1) % capacity] \in Int
    BY <1>1 DEF TypeOK
  <1> QED
    BY <1>2 DEF CopyOut, Unfilled

-----------------------------------------------------------------------------
(* Type correctness                                                        *)

LEMMA TypeInit == Init => TypeOK
  BY SizesAssumption, LabelsAssumption
  DEF Init, TypeOK, Slots, Threads, Zeroed, NothingSeen, Unread

(***************************************************************************)
(* Every step keeps the indices inside the ring, the slots and the         *)
(* callers' memory filled with labels, and the count of a call that has    *)
(* not taken effect among the sizes its thread may ask for.                *)
(***************************************************************************)
LEMMA TypeStep == TypeOK /\ [Next]_vars => TypeOK'
  <1> SUFFICES ASSUME TypeOK, [Next]_vars PROVE TypeOK'
    OBVIOUS
  <1> USE DEF Threads
  <1>1. ASSUME NEW w \in Writers, NEW n \in WriteSizes, Call(w, n) PROVE TypeOK'
    BY <1>1, SizesAssumption, ThreadsAssumption DEF Call, TypeOK, Slots, NothingSeen, Unread
  <1>2. ASSUME NEW r \in Readers, NEW n \in ReadSizes, Call(r, n) PROVE TypeOK'
    BY <1>2, SizesAssumption, ThreadsAssumption DEF Call, TypeOK, Slots, NothingSeen, Unread
  <1>3. ASSUME NEW t \in Threads, NEW c, Sleep(t, c) PROVE TypeOK'
    BY <1>3 DEF Sleep, TypeOK, Slots
  <1>4. ASSUME NEW t \in Threads, SpuriousWake(t) PROVE TypeOK'
    BY <1>4 DEF SpuriousWake, TypeOK, Slots
  <1>5. ASSUME NEW w \in Writers, WriteBody(w) PROVE TypeOK'
    <2>1. req[w] \in Nat \ {0}
      BY <1>5, SizesAssumption DEF WriteBody, TypeOK
    <2>2. tail' \in Slots
      BY <1>5, <2>1, TailAdvances DEF WriteBody, CanWrite
    <2>3. cells' \in [Slots -> Int]
      BY <1>5, <2>1, CopyInType DEF WriteBody
    <2>4. next' \in 0 .. Labels - 1
      BY <1>5, <2>1, LabelsAssumption, SizesAssumption DEF WriteBody, TypeOK
    <2> QED
      BY <1>5, <2>2, <2>3, <2>4 DEF WriteBody, TypeOK, Slots
  <1>6. ASSUME NEW r \in Readers, ReadBody(r) PROVE TypeOK'
    <2>1. req[r] \in Nat \ {0}
      BY <1>6, SizesAssumption DEF ReadBody, TypeOK
    <2>2. head' \in Slots
      BY <1>6, <2>1, HeadAdvances DEF ReadBody, CanRead
    <2>3. dest' \in [Readers -> Seq(Int)]
      BY <1>6, <2>1, CopyOutType DEF ReadBody, TypeOK
    <2>4. due' \in 0 .. Labels - 1
      BY <1>6, <2>1, LabelsAssumption, SizesAssumption DEF ReadBody, TypeOK
    <2> QED
      BY <1>6, <2>2, <2>3, <2>4 DEF ReadBody, TypeOK, Slots
  <1>7. ASSUME NEW w \in Writers, WriteReturn(w) PROVE TypeOK'
    BY <1>7 DEF WriteReturn, NotifyOne, TypeOK, Slots
  <1>8. ASSUME NEW r \in Readers, ReadReturn(r) PROVE TypeOK'
    <2>1. dest' \in [Readers -> Seq(Int)]
      BY <1>8 DEF ReadReturn, TypeOK
    <2>2. /\ pc' \in [Threads -> {"idle", "enter", "asleep", "notify", "peek"}]
          /\ req' \in [Threads -> Nat]
      BY <1>8 DEF ReadReturn, NotifyOne, TypeOK
    <2>3. \A t \in Threads : pc'[t] \in {"enter", "asleep"} =>
              pc[t] \in {"enter", "asleep"} /\ req'[t] = req[t]
      BY <1>8 DEF ReadReturn, NotifyOne, TypeOK
    <2> QED
      BY <1>8, <2>1, <2>2, <2>3 DEF ReadReturn, NotifyOne, TypeOK, Slots
  <1>9. ASSUME NEW r \in Readers, Clear(r) PROVE TypeOK'
    BY <1>9, SizesAssumption DEF Clear, TypeOK, Slots, Zeroed, NothingSeen, Unread
  <1>10. CASE UNCHANGED vars
    BY <1>10 DEF vars, TypeOK, Slots
  <1>11. ASSUME NEW r \in Readers, PeekFirst(r) \/ PeekSecond(r) PROVE TypeOK'
    <2>1. seen' \in [Readers -> [head : Slots \cup {Unread}, tail : Slots \cup {Unread}]]
      <3>1. PICK s \in [head : Slots \cup {Unread}, tail : Slots \cup {Unread}] :
                seen' = [seen EXCEPT ![r] = s]
        <4>1. CASE PeekFirst(r)
          BY <4>1 DEF PeekFirst, TypeOK
        <4>2. CASE PeekSecond(r)
          <5>1. seen[r] \in [head : Slots \cup {Unread}, tail : Slots \cup {Unread}]
            BY DEF TypeOK
          <5>2. /\ [seen[r] EXCEPT !.head = head]
                     \in [head : Slots \cup {Unread}, tail : Slots \cup {Unread}]
                /\ [seen[r] EXCEPT !.tail = tail]
                     \in [head : Slots \cup {Unread}, tail : Slots \cup {Unread}]
            BY <5>1 DEF TypeOK
          <5> QED
            BY <4>2, <5>2 DEF PeekSecond
        <4> QED
          BY <1>11, <4>1, <4>2
      <3> QED
        BY <3>1 DEF TypeOK
    <2>2. /\ pc' \in [Threads -> {"idle", "enter", "asleep", "notify", "peek"}]
          /\ \A t \in Threads : pc'[t] \in {"enter", "asleep"} => pc'[t] = pc[t]
          /\ UNCHANGED <<head, tail, cells, req, dest, next, due>>
      BY <1>11 DEF PeekFirst, PeekSecond, TypeOK
    <2> QED
      BY <2>1, <2>2 DEF TypeOK, Slots
  <1> QED
    BY <1>1, <1>2, <1>3, <1>4, <1>5, <1>6, <1>7, <1>8, <1>9, <1>10, <1>11
    DEF Next, WriterStep, ReaderStep

(* TypeOK holds in every reachable state.                                  *)
THEOREM TypeCorrect == Spec => []TypeOK
  BY TypeInit, TypeStep, PTL DEF Spec

-----------------------------------------------------------------------------
(* Accounting                                                              *)

(* Division by m, one step above and one step below the range of %.        *)
LEMMA ModuloSum ==
    ASSUME NEW m \in Nat \ {0}, NEW x \in Int, -m <= x, x < 2 * m
    PROVE  x % m = IF x < 0 THEN x + m ELSE IF x < m THEN x ELSE x - m
  OBVIOUS

(* The distance of two labels, when one of them moves on by n.             *)
LEMMA LabelsMove ==
    ASSUME NEW m \in Nat \ {0}, NEW a \in 0 .. m - 1, NEW b \in 0 .. m - 1,
           NEW n \in 0 .. m - 1
    PROVE  /\ ((a - b) % m) + n < m => (((a + n) % m) - b) % m = ((a - b) % m) + n
           /\ n <= (a - b) % m => (a - ((b + n) % m)) % m = ((a - b) % m) - n
  <1> DEFINE Reduced(x) == IF x < 0 THEN x + m ELSE IF x < m THEN x ELSE x - m
  <1>1. \A x \in Int : -m <= x /\ x < 2 * m => x % m = Reduced(x)
    BY ModuloSum
  <1> HIDE DEF Reduced
  <1>2. /\ (a - b) % m = Reduced(a - b)
        /\ (a + n) % m = Reduced(a + n)
        /\ (b + n) % m = Reduced(b + n)
    <2>1. /\ a - b \in Int /\ -m <= a - b /\ a - b < 2 * m
          /\ a + n \in Int /\ -m <= a + n /\ a + n < 2 * m
          /\ b + n \in Int /\ -m <= b + n /\ b + n < 2 * m
      OBVIOUS
    <2> QED
      BY <1>1, <2>1
  <1>3. Reduced(a + n) \in 0 .. m - 1 /\ Reduced(b + n) \in 0 .. m - 1
    BY DEF Reduced
  <1>4. /\ (Reduced(a + n) - b) % m = Reduced(Reduced(a + n) - b)
        /\ (a - Reduced(b + n)) % m = Reduced(a - Reduced(b + n))
    <2>1. ASSUME NEW c \in 0 .. m - 1, NEW d \in 0 .. m - 1
          PROVE  (c - d) % m = Reduced(c - d)
      <3>1. c - d \in Int /\ -m <= c - d /\ c - d < 2 * m
        OBVIOUS
      <3> QED
        BY <1>1, <3>1
    <2> QED
      BY <1>3, <2>1
  <1> QED
    BY <1>2, <1>4 DEF Reduced

(***************************************************************************)
(* A block moves tail_ and the stream by its samples, a read moves head_   *)
(* and what is owed by its samples; a clear makes both distances zero.     *)
(***************************************************************************)
LEMMA AccountingStep == TypeOK /\ Accounting /\ [Next]_vars => Accounting'
  <1> SUFFICES ASSUME TypeOK, Accounting, [Next]_vars PROVE Accounting'
    OBVIOUS
  <1> USE DEF Threads
  <1>1. /\ Labels \in Nat \ {0} /\ BuffSize \in Nat /\ BuffSize < Labels
        /\ next \in 0 .. Labels - 1 /\ due \in 0 .. Labels - 1
        /\ available_data \in 0 .. BuffSize
    BY LabelsAssumption, SizesAssumption, FillRange DEF TypeOK
  <1>2. CASE UNCHANGED <<head, tail, next, due>>
    BY <1>2 DEF Accounting, available_data
  <1>3. ASSUME NEW w \in Writers, WriteBody(w) PROVE Accounting'
    <2>1. req[w] \in Nat \ {0} /\ available_data + req[w] <= BuffSize
      BY <1>1, <1>3, SizesAssumption
      DEF WriteBody, CanWrite, available_space, capacity, TypeOK
    <2>2. available_data' = available_data + req[w]
      BY <1>3, <2>1, TailAdvances DEF WriteBody, CanWrite
    <2>3. req[w] \in 0 .. Labels - 1 /\ ((next - due) % Labels) + req[w] < Labels
      BY <1>1, <2>1 DEF Accounting
    <2>4. (((next + req[w]) % Labels) - due) % Labels = ((next - due) % Labels) + req[w]
      BY <1>1, <2>3, LabelsMove
    <2>5. next' = (next + req[w]) % Labels /\ due' = due
      BY <1>3 DEF WriteBody
    <2> QED
      BY <2>2, <2>4, <2>5 DEF Accounting
  <1>4. ASSUME NEW r \in Readers, ReadBody(r) PROVE Accounting'
    <2>1. req[r] \in Nat \ {0} /\ req[r] <= available_data
      BY <1>4, SizesAssumption DEF ReadBody, CanRead, TypeOK
    <2>2. available_data' = available_data - req[r]
      BY <1>4, <2>1, HeadAdvances DEF ReadBody, CanRead
    <2>3. req[r] \in 0 .. Labels - 1 /\ req[r] <= (next - due) % Labels
      BY <1>1, <2>1 DEF Accounting
    <2>4. (next - ((due + req[r]) % Labels)) % Labels = ((next - due) % Labels) - req[r]
      BY <1>1, <2>3, LabelsMove
    <2>5. due' = (due + req[r]) % Labels /\ next' = next
      BY <1>4 DEF ReadBody
    <2>6. (next' - due') % Labels = ((next - due) % Labels) - req[r]
      BY <2>4, <2>5
    <2>7. (next - due) % Labels = available_data
      BY DEF Accounting
    <2> QED
      BY <2>2, <2>6, <2>7 DEF Accounting
  <1>5. ASSUME NEW r \in Readers, Clear(r) PROVE Accounting'
    <2>1. next' = next /\ due' = next /\ available_data' = 0
      BY <1>5 DEF Clear, available_data, Between
    <2>2. (next - next) % Labels = 0
      <3>1. next - next = 0
        BY <1>1
      <3>2. 0 % Labels = 0
        BY <1>1, ModuloSum
      <3> QED
        BY <3>1, <3>2
    <2> QED
      BY <2>1, <2>2 DEF Accounting
  <1> QED
    BY <1>2, <1>3, <1>4, <1>5
    DEF Next, vars, WriterStep, ReaderStep, Call, Sleep, SpuriousWake, WriteReturn,
        ReadReturn, NotifyOne, PeekFirst, PeekSecond

(***************************************************************************)
(* For every size of the ring, the blocks and the reads: what the indices  *)
(* say is held is what was written and not read.                           *)
(***************************************************************************)
THEOREM SamplesAccounted == Spec => []Accounting
  <1>1. Init => Accounting
    <2>1. (0 - 0) % Labels = 0
      BY LabelsAssumption, SizesAssumption, ModuloSum
    <2> QED
      BY <2>1 DEF Init, Accounting, available_data, Between
  <1> QED
    BY <1>1, AccountingStep, TypeCorrect, PTL DEF Spec

-----------------------------------------------------------------------------
(* The damage of the second memcpy                                         *)

\* How many bytes before those of sample i the contents of a slot begin.
EarlyBy(i, cell) == (SampleAt(i) - cell) % (BYTES_PER_SAMPLE * Labels)

\* What DamageConfined says of one slot, for blocks of at most mx samples.
Confined(mx, i, cell, slot) ==
    /\ cell # Zeroed
    /\ \/ EarlyBy(i, cell) = 0
       \/ slot < mx - 1 /\ EarlyBy(i, cell) <= 3 * (mx - 1)

AllConfined(mx) == \A j \in Held : Confined(mx, due + j, cells[SlotOf(j)], SlotOf(j))

\* What % makes of a number one step outside its range.
Reduced(x, m) == IF x < 0 THEN x + m ELSE IF x < m THEN x ELSE x - m

LEMMA ModuloReduced ==
    \A m \in Nat \ {0}, x \in Int : -m <= x /\ x < 2 * m => x % m = Reduced(x, m)
  BY ModuloSum DEF Reduced

\* The slot of a held sample, or of the first free ones, without the modulo.
LEMMA SlotPlace ==
    ASSUME TypeOK, NEW j \in 0 .. BuffSize
    PROVE  SlotOf(j) = IF head + j < capacity THEN head + j ELSE head + j - capacity
  <1>1. /\ capacity \in Nat \ {0} /\ head + j \in Int
        /\ -capacity <= head + j /\ head + j < 2 * capacity
    BY SizesAssumption DEF TypeOK, Slots, capacity
  <1>2. (head + j) % capacity = Reduced(head + j, capacity)
    BY <1>1, ModuloReduced
  <1>3. Reduced(head + j, capacity)
          = IF head + j < capacity THEN head + j ELSE head + j - capacity
    <2>1. head \in Nat /\ j \in Nat
      BY SizesAssumption DEF TypeOK, Slots
    <2> QED
      BY <1>1, <2>1 DEF Reduced
  <1>4. SlotOf(j) = (head + j) % capacity
    BY DEF SlotOf
  <1> QED
    BY <1>2, <1>3, <1>4

(***************************************************************************)
(* Sample i of a block that begins with label n, when the wrong offset     *)
(* takes it 3 bytes early for each of the c samples before the wrap: its   *)
(* bytes are of the block (4 * i - 3 * c is not negative), and it is early *)
(* by no more than that.                                                   *)
(***************************************************************************)
LEMMA OffsetError ==
    ASSUME NEW m \in Nat \ {0}, NEW n \in 0 .. m - 1, NEW i \in 0 .. m - 1, NEW c \in 0 .. i
    PROVE  LET cell == (4 * n + (4 * i - 3 * c)) % (4 * m)
               early == (4 * ((n + i) % m) - cell) % (4 * m)
           IN cell >= 0 /\ early \in 0 .. 3 * c
  <1> DEFINE at == 4 * n + (4 * i - 3 * c)
             cell == Reduced(at, 4 * m)
             label == Reduced(n + i, m)
  <1>2. at \in Int /\ 0 <= at /\ at < 2 * (4 * m)
    OBVIOUS
  <1>3. 4 * m \in Nat \ {0} /\ -(4 * m) <= at
    BY <1>2
  <1>4. at % (4 * m) = cell
    <2> HIDE DEF at
    <2> QED
      BY <1>2, <1>3, ModuloReduced
  <1>5. (n + i) % m = label
    <2>1. n + i \in Int /\ -m <= n + i /\ n + i < 2 * m
      OBVIOUS
    <2> QED
      BY <2>1, ModuloReduced
  <1>6. cell \in 0 .. 4 * m - 1 /\ label \in 0 .. m - 1
    BY <1>2 DEF Reduced
  <1>7. (4 * label - cell) % (4 * m) = Reduced(4 * label - cell, 4 * m)
    <2> HIDE DEF cell, label
    <2>1. /\ 4 * label - cell \in Int /\ -(4 * m) <= 4 * label - cell
          /\ 4 * label - cell < 2 * (4 * m)
      BY <1>6
    <2> QED
      BY <1>3, <2>1, ModuloReduced
  <1>8. Reduced(4 * label - cell, 4 * m) \in 0 .. 3 * c
    BY <1>2 DEF Reduced
  <1> QED
    BY <1>4, <1>5, <1>6, <1>7, <1>8

\* Samples are told apart by their labels, whichever lap they are counted from.
LEMMA SameLabel ==
    ASSUME TypeOK, Accounting, NEW i \in Nat, available_data + i <= BuffSize
    PROVE  (due + (available_data + i)) % Labels = (next + i) % Labels
  <1>1. /\ Labels \in Nat \ {0} /\ BuffSize \in Nat /\ BuffSize < Labels
        /\ next \in 0 .. Labels - 1 /\ due \in 0 .. Labels - 1
        /\ available_data \in 0 .. BuffSize
    BY LabelsAssumption, SizesAssumption, FillRange DEF TypeOK
  <1> DEFINE held == available_data
  <1>2. (next - due) % Labels = held
    BY DEF Accounting
  <1> HIDE DEF held
  <1>3. held \in 0 .. BuffSize /\ held + i <= BuffSize
    BY <1>1 DEF held
  <1>4. held = Reduced(next - due, Labels)
    <2>1. next - due \in Int /\ -Labels <= next - due /\ next - due < 2 * Labels
      BY <1>1
    <2> QED
      BY <1>1, <1>2, <2>1, ModuloReduced
  <1>5. (next + i) % Labels = Reduced(next + i, Labels)
    <2>1. next + i \in Int /\ -Labels <= next + i /\ next + i < 2 * Labels
      BY <1>1, <1>3
    <2> QED
      BY <1>1, <2>1, ModuloReduced
  <1>6. (due + (held + i)) % Labels = Reduced(due + (held + i), Labels)
    <2>1. /\ due + (held + i) \in Int
          /\ -Labels <= due + (held + i) /\ due + (held + i) < 2 * Labels
      BY <1>1, <1>3
    <2> QED
      BY <1>1, <2>1, ModuloReduced
  <1>7. (due + (held + i)) % Labels = (next + i) % Labels
    BY <1>1, <1>3, <1>4, <1>5, <1>6 DEF Reduced
  <1> QED
    BY <1>7 DEF held

\* Confined, when the slot's contents begin c samples' bytes, three each, too early.
LEMMA WrittenSlot ==
    ASSUME TypeOK, NEW mx \in Nat, NEW i \in 0 .. BuffSize, NEW c \in 0 .. i, NEW slot \in Nat,
           c # 0 => c < mx /\ slot < mx - 1, NEW k \in Nat, k % Labels = (next + i) % Labels
    PROVE  Confined(mx, k, (4 * next + (4 * i - 3 * c)) % (4 * Labels), slot)
  <1> DEFINE cell == (4 * next + (4 * i - 3 * c)) % (4 * Labels)
             early == (4 * ((next + i) % Labels) - cell) % (4 * Labels)
  <1>1. /\ Labels \in Nat \ {0} /\ next \in 0 .. Labels - 1 /\ i \in 0 .. Labels - 1
        /\ c \in 0 .. i
    BY LabelsAssumption, SizesAssumption DEF TypeOK
  <1>2. cell >= 0 /\ early \in 0 .. 3 * c
    BY <1>1, OffsetError
  <1>3. EarlyBy(k, cell) = early
    BY DEF EarlyBy, SampleAt, BYTES_PER_SAMPLE
  <1> HIDE DEF cell, early
  <1>4. cell # -1
    BY <1>2
  <1>5. EarlyBy(k, cell) = 0 \/ (slot < mx - 1 /\ EarlyBy(k, cell) <= 3 * (mx - 1))
    <2>1. CASE c = 0
      BY <1>2, <1>3, <2>1
    <2>2. CASE c # 0
      BY <1>2, <1>3, <2>2
    <2> QED
      BY <2>1, <2>2
  <1>6. Confined(mx, k, cell, slot)
    BY <1>4, <1>5 DEF Confined, Zeroed
  <1> QED
    BY <1>6 DEF cell

(***************************************************************************)
(* writebuf leaves the samples that are held alone, and its own are exact  *)
(* up to the end of the ring and confined behind it.                       *)
(***************************************************************************)
LEMMA WriteConfined ==
    ASSUME TypeOK, Accounting, NEW mx \in Nat, AllConfined(mx),
           NEW w \in Writers, WriteBody(w), req[w] <= mx, req[w] \in Nat \ {0}
    PROVE  AllConfined(mx)'
  <1> DEFINE n == req[w]
             held == available_data
             end == capacity - tail
  <1>1. /\ BuffSize \in Nat \ {0} /\ capacity = BuffSize + 1
        /\ head \in 0 .. BuffSize /\ tail \in 0 .. BuffSize
        /\ due \in Nat /\ next \in Nat /\ held \in 0 .. BuffSize
    BY SizesAssumption, LabelsAssumption, FillRange DEF TypeOK, Slots, capacity
  <1>2. held + n <= BuffSize
    BY <1>1 DEF WriteBody, CanWrite, available_space
  <1>3. head' = head /\ due' = due /\ available_data' = held + n
    BY TailAdvances DEF WriteBody, CanWrite
  <1>4. cells' = CopyIn(n)
    BY DEF WriteBody
  <1>5. tail = IF head + held < capacity THEN head + held ELSE head + held - capacity
    BY <1>1 DEF available_data, Between
  <1>6. \A j \in 0 .. BuffSize :
          SlotOf(j) = IF head + j < capacity THEN head + j ELSE head + j - capacity
    BY SlotPlace
  <1>7. \A slot \in Slots :
          cells'[slot] = IF tail <= slot /\ slot < tail + n
                           THEN (4 * next + 4 * (slot - tail)) % (4 * Labels)
                         ELSE IF slot < n - end
                           THEN (4 * next + (end + 4 * slot)) % (4 * Labels)
                         ELSE cells[slot]
    BY <1>4 DEF CopyIn, FirstChunk, SecondChunk, ByteAt, BYTES_PER_SAMPLE
  <1> SUFFICES ASSUME NEW j \in 0 .. held + n - 1
               PROVE  Confined(mx, due + j, cells'[SlotOf(j)], SlotOf(j))
    BY <1>1, <1>3 DEF AllConfined, Held, SlotOf
  <1> HIDE DEF n, held, end
  <1>8. /\ n \in Nat \ {0} /\ n <= mx /\ end = BuffSize + 1 - tail /\ j \in 0 .. BuffSize
        /\ SlotOf(j) \in Slots
    BY <1>1, <1>2, <1>6 DEF n, end, Slots
  <1>9. CASE j < held
    <2>1. ~(tail <= SlotOf(j) /\ SlotOf(j) < tail + n) /\ ~(SlotOf(j) < n - end)
      BY <1>1, <1>2, <1>5, <1>6, <1>8, <1>9
    <2>2. cells'[SlotOf(j)] = cells[SlotOf(j)]
      BY <1>7, <1>8, <2>1
    <2>3. j \in Held
      BY <1>1, <1>8, <1>9 DEF Held, held
    <2> QED
      BY <2>2, <2>3 DEF AllConfined
  <1>10. ASSUME held <= j
         PROVE  Confined(mx, due + j, cells'[SlotOf(j)], SlotOf(j))
    <2> DEFINE i == j - held
    <2>1. i \in 0 .. n - 1 /\ i \in 0 .. BuffSize /\ j = held + i /\ held + i <= BuffSize
      BY <1>1, <1>2, <1>8, <1>10
    <2> HIDE DEF i
    <2>2. (due + j) % Labels = (next + i) % Labels /\ due + j \in Nat
      BY <1>1, <2>1, SameLabel DEF held
    <2>3. CASE i < end
      <3>1. SlotOf(j) = tail + i
        BY <1>1, <1>5, <1>6, <1>8, <2>1, <2>3
      <3>2. cells'[SlotOf(j)] = (4 * next + 4 * (SlotOf(j) - tail)) % (4 * Labels)
        BY <1>1, <1>7, <1>8, <2>1, <3>1
      <3>3. 4 * (SlotOf(j) - tail) = 4 * i - 3 * 0 /\ SlotOf(j) \in Nat /\ 0 \in 0 .. i
        BY <1>1, <2>1, <3>1
      <3>4. Confined(mx, due + j, (4 * next + (4 * i - 3 * 0)) % (4 * Labels), SlotOf(j))
        BY <2>1, <2>2, <3>3, WrittenSlot
      <3> QED
        BY <3>2, <3>3, <3>4
    <2>4. CASE end <= i
      <3>1. SlotOf(j) = i - end
        BY <1>1, <1>5, <1>6, <1>8, <2>1, <2>4
      <3>2. /\ SlotOf(j) < n - end
            /\ ~(tail <= SlotOf(j) /\ SlotOf(j) < tail + n)
        BY <1>1, <1>2, <1>8, <2>1, <3>1
      <3>3. cells'[SlotOf(j)] = (4 * next + (end + 4 * SlotOf(j))) % (4 * Labels)
        BY <1>7, <1>8, <3>2
      <3>4. end + 4 * SlotOf(j) = 4 * i - 3 * end
        BY <1>1, <1>8, <2>1, <3>1
      <3>5. end \in 0 .. i /\ end < mx /\ SlotOf(j) \in Nat /\ SlotOf(j) < mx - 1
        BY <1>1, <1>8, <2>1, <2>4, <3>1
      <3>6. Confined(mx, due + j, (4 * next + (4 * i - 3 * end)) % (4 * Labels), SlotOf(j))
        BY <2>1, <2>2, <3>5, WrittenSlot
      <3> QED
        BY <3>3, <3>4, <3>6
    <2> QED
      BY <1>1, <1>8, <2>1, <2>3, <2>4
  <1> QED
    BY <1>1, <1>8, <1>9, <1>10

\* An index that has moved on by n, and on by j from there.
LEMMA MovedOn ==
    ASSUME NEW m \in Nat \ {0}, NEW a \in 0 .. m - 1, NEW n \in Nat, NEW j \in Nat, n + j < m
    PROVE  (((a + n) % m) + j) % m = (a + (n + j)) % m
  <1>1. /\ a + n \in Int /\ -m <= a + n /\ a + n < 2 * m
        /\ a + (n + j) \in Int /\ -m <= a + (n + j) /\ a + (n + j) < 2 * m
    OBVIOUS
  <1>2. /\ (a + n) % m = Reduced(a + n, m)
        /\ (a + (n + j)) % m = Reduced(a + (n + j), m)
    BY <1>1, ModuloReduced
  <1> DEFINE b == Reduced(a + n, m)
  <1>3. b \in 0 .. m - 1
    BY DEF Reduced
  <1> HIDE DEF b
  <1>4. b + j \in Int /\ -m <= b + j /\ b + j < 2 * m
    BY <1>3
  <1>5. (b + j) % m = Reduced(b + j, m)
    BY <1>4, ModuloReduced
  <1>6. Reduced(b + j, m) = Reduced(a + (n + j), m)
    BY DEF Reduced, b
  <1> QED
    BY <1>2, <1>5, <1>6 DEF b

\* readbuf takes samples from the front and leaves the others where they are.
LEMMA ReadConfined ==
    ASSUME TypeOK, NEW mx \in Nat, AllConfined(mx), NEW r \in Readers, ReadBody(r),
           req[r] \in Nat \ {0}
    PROVE  AllConfined(mx)'
  <1> DEFINE n == req[r]
             held == available_data
  <1>1. /\ BuffSize \in Nat \ {0} /\ capacity = BuffSize + 1
        /\ head \in 0 .. BuffSize /\ due \in Nat /\ due \in 0 .. Labels - 1
        /\ held \in 0 .. BuffSize /\ Labels \in Nat /\ BuffSize < Labels
    BY SizesAssumption, LabelsAssumption, FillRange DEF TypeOK, Slots, capacity
  <1>2. n <= held /\ head' = NewHead(n) /\ cells' = cells /\ due' = (due + n) % Labels
    BY DEF ReadBody, CanRead
  <1>3. available_data' = held - n /\ head' \in 0 .. BuffSize
    BY HeadAdvances DEF ReadBody, CanRead, Slots
  <1>4. TypeOK'
    BY TypeStep DEF Next, ReaderStep
  <1> SUFFICES ASSUME NEW j \in Nat, j <= held - n - 1
               PROVE  Confined(mx, due' + j, cells[SlotOf(j)'], SlotOf(j)')
    <2>1. \A j \in Held' : j \in Nat /\ j <= held - n - 1
      BY <1>1, <1>2, <1>3 DEF Held
    <2> QED
      BY <1>2, <2>1 DEF AllConfined, SlotOf
  <1> HIDE DEF n, held
  <1>5. n \in Nat \ {0} /\ j \in 0 .. BuffSize /\ n + j \in 0 .. BuffSize
    BY <1>1, <1>2 DEF n
  <1>6. head' = (head + n) % capacity
    <2>1. /\ capacity \in Nat \ {0} /\ head + n \in Int
          /\ -capacity <= head + n /\ head + n < 2 * capacity
      BY <1>1, <1>5
    <2>2. (head + n) % capacity = Reduced(head + n, capacity)
      BY <2>1, ModuloReduced
    <2> QED
      BY <1>1, <1>2, <1>5, <2>2 DEF Reduced, NewHead
  <1>7. SlotOf(j)' = SlotOf(n + j)
    <2>1. /\ capacity \in Nat \ {0} /\ head \in 0 .. capacity - 1 /\ j \in Nat /\ n \in Nat
          /\ n + j < capacity
      BY <1>1, <1>5
    <2>2. (((head + n) % capacity) + j) % capacity = (head + (n + j)) % capacity
      BY <2>1, MovedOn
    <2> QED
      BY <1>6, <2>2 DEF SlotOf
  <1>8. (due' + j) % Labels = (due + (n + j)) % Labels
    <2>1. Labels \in Nat \ {0} /\ j \in Nat /\ n \in Nat /\ n + j < Labels
      BY <1>1, <1>5
    <2>2. (((due + n) % Labels) + j) % Labels = (due + (n + j)) % Labels
      BY <1>1, <2>1, MovedOn
    <2> QED
      BY <1>2, <2>2
  <1>9. n + j \in Held
    BY <1>1, <1>2, <1>5 DEF Held, held
  <1>10. Confined(mx, due + (n + j), cells[SlotOf(n + j)], SlotOf(n + j))
    BY <1>9 DEF AllConfined
  <1>11. EarlyBy(due' + j, cells[SlotOf(n + j)]) = EarlyBy(due + (n + j), cells[SlotOf(n + j)])
    BY <1>8 DEF EarlyBy, SampleAt
  <1> QED
    BY <1>7, <1>10, <1>11 DEF Confined

LEMMA ConfinedStep ==
    ASSUME TypeOK, Accounting, NEW mx \in WriteSizes, \A m \in WriteSizes : m <= mx,
           AllConfined(mx), [Next]_vars
    PROVE  AllConfined(mx)'
  <1> USE DEF Threads
  <1>1. CASE UNCHANGED <<head, tail, cells, due>>
    BY <1>1 DEF AllConfined, Held, SlotOf, available_data
  <1>2. ASSUME NEW w \in Writers, WriteBody(w) PROVE AllConfined(mx)'
    <2>1. req[w] \in WriteSizes
      BY <1>2 DEF WriteBody, TypeOK
    <2> QED
      BY <1>2, <2>1, WriteConfined, SizesAssumption
  <1>3. ASSUME NEW r \in Readers, ReadBody(r) PROVE AllConfined(mx)'
    <2>1. req[r] \in ReadSizes
      BY <1>3 DEF ReadBody, TypeOK
    <2> QED
      BY <1>3, <2>1, ReadConfined, SizesAssumption
  <1>4. ASSUME NEW r \in Readers, Clear(r) PROVE AllConfined(mx)'
    <2>1. Held' = {}
      BY <1>4 DEF Clear, Held, available_data, Between
    <2> QED
      BY <2>1 DEF AllConfined
  <1> QED
    BY <1>1, <1>2, <1>3, <1>4
    DEF Next, vars, WriterStep, ReaderStep, Call, Sleep, SpuriousWake, WriteReturn,
        ReadReturn, NotifyOne, PeekFirst, PeekSecond

(***************************************************************************)
(* For every ring and any blocks of which one is the largest: the wrong    *)
(* offset of the second memcpy reaches only the slots a block wraps into,  *)
(* and takes their contents from the bytes of the block itself.            *)
(***************************************************************************)
THEOREM DamageIsConfined ==
    ASSUME NEW mx \in WriteSizes, \A m \in WriteSizes : m <= mx
    PROVE  Spec => []DamageConfined
  <1>1. Init => AllConfined(mx)
    BY DEF Init, AllConfined, Held, available_data, Between
  <1>2. AllConfined(mx) => DamageConfined
    <2> DEFINE MaxWrite == CHOOSE n \in WriteSizes : \A m \in WriteSizes : m <= n
    <2>1. MaxWrite \in WriteSizes /\ \A m \in WriteSizes : m <= MaxWrite
      OBVIOUS
    <2> HIDE DEF MaxWrite
    <2>2. MaxWrite = mx
      BY <2>1, SizesAssumption
    <2>3. AllConfined(MaxWrite) => DamageConfined
      BY DEF MaxWrite, AllConfined, Confined, EarlyBy, DamageConfined
    <2> QED
      BY <2>2, <2>3
  <1>3. TypeOK /\ Accounting /\ AllConfined(mx) /\ [Next]_vars => AllConfined(mx)'
    BY ConfinedStep
  <1> QED
    BY <1>1, <1>2, <1>3, TypeCorrect, SamplesAccounted, PTL DEF Spec

-----------------------------------------------------------------------------
(* The size a client is told                                               *)

(***************************************************************************)
(* What the only reader has loaded: head_ as it is, since nobody else      *)
(* moves it, and a tail_ no further than the present one.  Inside readbuf  *)
(* and clear_ringbuffer, which move head_, it has loaded nothing.          *)
(***************************************************************************)
LoadsTrue(rd) ==
    /\ seen[rd].head \in {Unread, head}
    /\ seen[rd].tail # Unread => Between(head, seen[rd].tail) <= available_data
    /\ pc[rd] \in {"enter", "asleep", "notify"} => seen[rd] = NothingSeen

LEMMA LoadsTrueStep ==
    ASSUME TypeOK, NEW rd, Readers = {rd}, LoadsTrue(rd), [Next]_vars
    PROVE  LoadsTrue(rd)'
  <1> USE DEF Threads
  <1>1. /\ seen[rd].head \in Slots \cup {Unread}
        /\ seen[rd].tail \in Slots \cup {Unread}
        /\ seen[rd] \in [head : Slots \cup {Unread}, tail : Slots \cup {Unread}]
        /\ head \in Slots /\ tail \in Slots /\ BuffSize \in Nat
    BY SizesAssumption DEF TypeOK
  <1>2. ASSUME UNCHANGED <<head, tail, seen>>,
               pc'[rd] = pc[rd] \/ pc'[rd] = "idle" \/ pc[rd] \in {"enter", "asleep"}
        PROVE  LoadsTrue(rd)'
    BY <1>2 DEF LoadsTrue, Between, available_data
  <1>3. ASSUME UNCHANGED <<head, tail>>, seen'[rd] = NothingSeen PROVE LoadsTrue(rd)'
    BY <1>3 DEF LoadsTrue, NothingSeen, Unread
  <1>4. ASSUME NEW w \in Writers, WriteBody(w) PROVE LoadsTrue(rd)'
    <2>1. req[w] \in Nat \ {0}
      BY <1>4, SizesAssumption DEF WriteBody, TypeOK
    <2>2. available_data' = available_data + req[w]
      BY <1>4, <2>1, TailAdvances DEF WriteBody, CanWrite
    <2>3. head' = head /\ seen' = seen /\ pc'[rd] = pc[rd]
      BY <1>4, ThreadsAssumption DEF WriteBody, TypeOK
    <2>4. available_data \in Int
      BY FillRange
    <2>5. ASSUME seen[rd].tail # Unread
          PROVE  Between(head', seen'[rd].tail) <= available_data'
      <3>1. Between(head, seen[rd].tail) <= available_data
        BY <2>5 DEF LoadsTrue
      <3>2. Between(head, seen[rd].tail) \in Int
        BY <1>1, <2>5 DEF Between, capacity, Slots
      <3> QED
        BY <2>1, <2>2, <2>3, <2>4, <3>1, <3>2
    <2> QED
      BY <2>3, <2>5 DEF LoadsTrue, Between
  <1>5. CASE ReadBody(rd)
    <2>1. seen'[rd] = NothingSeen
      BY <1>5 DEF ReadBody, LoadsTrue
    <2> QED
      BY <2>1 DEF LoadsTrue, NothingSeen, Unread
  <1>6. CASE Clear(rd)
    <2>1. seen'[rd] = NothingSeen
      BY <1>6 DEF Clear, TypeOK
    <2> QED
      BY <2>1 DEF LoadsTrue, NothingSeen, Unread
  <1>7. CASE PeekFirst(rd)
    <2>1. /\ seen'[rd] \in {[head |-> head, tail |-> Unread], [head |-> Unread, tail |-> tail]}
          /\ pc'[rd] = "peek" /\ head' = head /\ tail' = tail
      BY <1>7 DEF PeekFirst, TypeOK
    <2> QED
      BY <1>1, <2>1, FillRange DEF LoadsTrue, available_data, Between
  <1>8. CASE PeekSecond(rd)
    <2>1. /\ pc'[rd] = "idle" /\ head' = head /\ tail' = tail
          /\ seen'[rd] = IF seen[rd].head = Unread THEN [seen[rd] EXCEPT !.head = head]
                                                   ELSE [seen[rd] EXCEPT !.tail = tail]
      BY <1>8 DEF PeekSecond, TypeOK
    <2>2. /\ seen'[rd].head = head
          /\ seen'[rd].tail = seen[rd].tail \/ seen'[rd].tail = tail
      BY <1>1, <2>1 DEF LoadsTrue
    <2>3. available_data \in Int
      BY FillRange
    <2> QED
      BY <2>1, <2>2, <2>3 DEF LoadsTrue, available_data
  <1>9. ASSUME NEW t \in Threads, NEW n, Call(t, n) PROVE LoadsTrue(rd)'
    <2>1. CASE t = rd
      BY <1>3, <1>9, <2>1 DEF Call
    <2>2. CASE t # rd
      BY <1>2, <1>9, <2>2 DEF Call, TypeOK
    <2> QED
      BY <2>1, <2>2
  <1>10. ASSUME NEW t \in Threads, NEW c, Sleep(t, c) \/ SpuriousWake(t)
         PROVE  LoadsTrue(rd)'
    BY <1>2, <1>10 DEF Sleep, SpuriousWake, TypeOK
  <1>11. ASSUME NEW w \in Writers, WriteReturn(w) PROVE LoadsTrue(rd)'
    BY <1>2, <1>11, ThreadsAssumption DEF WriteReturn, NotifyOne, TypeOK
  <1>12. CASE ReadReturn(rd)
    BY <1>2, <1>12, ThreadsAssumption DEF ReadReturn, NotifyOne, TypeOK
  <1>13. CASE UNCHANGED vars
    BY <1>2, <1>13 DEF vars
  <1> QED
    BY <1>4, <1>5, <1>6, <1>7, <1>8, <1>9, <1>10, <1>11, <1>12, <1>13
    DEF Next, WriterStep, ReaderStep

(***************************************************************************)
(* For every size of the ring, the blocks and the reads: the only reader   *)
(* can read what iqGetSizeOfAvailableData told it without waiting.         *)
(***************************************************************************)
THEOREM SizeIsReadable == Spec => []SizeCanBeRead
  <1>1. ASSUME NEW rd, Readers = {rd} PROVE Spec => []SizeCanBeRead
    <2>1. Init => LoadsTrue(rd)
      BY <1>1 DEF Init, LoadsTrue, NothingSeen, Unread
    <2>2. TypeOK /\ LoadsTrue(rd) /\ [Next]_vars => LoadsTrue(rd)'
      BY <1>1, LoadsTrueStep
    <2>3. LoadsTrue(rd) => SizeCanBeRead
      BY <1>1 DEF LoadsTrue, SizeCanBeRead, KnowsSize, SizeSeen
    <2> QED
      BY <2>1, <2>2, <2>3, TypeCorrect, PTL DEF Spec
  <1>2. ASSUME \A rd : Readers # {rd} PROVE Spec => []SizeCanBeRead
    <2>1. SizeCanBeRead
      BY <1>2 DEF SizeCanBeRead
    <2> QED
      BY <2>1, PTL
  <1> QED
    BY <1>1, <1>2

-----------------------------------------------------------------------------
(* Lost wake-ups and mutual waiting                                        *)

(***************************************************************************)
(* With one reader no wake-up of not_empty_ is lost, whatever the sizes of *)
(* the reads and of the blocks and however many threads write: only        *)
(* writebuf makes the reader's condition true, and it goes on to notify.   *)
(***************************************************************************)
LEMMA ReadersAwakeStep ==
    ASSUME TypeOK, ReadersAwake, [Next]_vars, NEW rd, Readers = {rd}
    PROVE  ReadersAwake'
  <1> SUFFICES ASSUME pc'[rd] = "asleep", CanRead(rd)'
               PROVE  \E w \in Writers : pc'[w] = "notify"
    BY DEF ReadersAwake
  <1> USE DEF Threads
  <1>1. ASSUME UNCHANGED <<head, tail, pc, req>>
        PROVE  \E w \in Writers : pc'[w] = "notify"
    BY <1>1 DEF ReadersAwake, CanRead, available_data
  <1>2. ASSUME NEW t \in Threads, NEW n, Call(t, n)
        PROVE  \E w \in Writers : pc'[w] = "notify"
    BY <1>2 DEF Call, ReadersAwake, CanRead, available_data, TypeOK
  <1>3. ASSUME NEW w \in Writers, Sleep(w, CanWrite(w))
        PROVE  \E v \in Writers : pc'[v] = "notify"
    BY <1>3, ThreadsAssumption DEF Sleep, ReadersAwake, CanRead, available_data, TypeOK
  <1>4. ASSUME Sleep(rd, CanRead(rd)) PROVE FALSE
    BY <1>4 DEF Sleep, CanRead, available_data
  <1>5. ASSUME NEW t \in Threads, SpuriousWake(t)
        PROVE  \E w \in Writers : pc'[w] = "notify"
    BY <1>5 DEF SpuriousWake, ReadersAwake, CanRead, available_data, TypeOK
  <1>6. ASSUME NEW w \in Writers, WriteBody(w)
        PROVE  \E v \in Writers : pc'[v] = "notify"
    BY <1>6 DEF WriteBody, TypeOK
  <1>7. ASSUME NEW w \in Writers, WriteReturn(w) PROVE FALSE
    <2>1. pc[rd] = "asleep"
      BY <1>7, ThreadsAssumption DEF WriteReturn, NotifyOne, TypeOK
    <2> QED
      BY <1>7, <2>1 DEF WriteReturn, NotifyOne, TypeOK
  <1>8. ASSUME \/ ReadBody(rd) \/ ReadReturn(rd) \/ Clear(rd)
               \/ PeekFirst(rd) \/ PeekSecond(rd)
        PROVE  FALSE
    BY <1>8, ThreadsAssumption
    DEF ReadBody, ReadReturn, NotifyOne, Clear, PeekFirst, PeekSecond, TypeOK
  <1> QED
    BY <1>1, <1>2, <1>3, <1>4, <1>5, <1>6, <1>7, <1>8
    DEF Next, WriterStep, ReaderStep, vars

(***************************************************************************)
(* With one writer no wake-up of not_full_ is lost: only readbuf and       *)
(* clear_ringbuffer make room, and they go on to notify.                   *)
(***************************************************************************)
LEMMA WritersAwakeStep ==
    ASSUME TypeOK, WritersAwake, [Next]_vars, NEW wr, Writers = {wr}
    PROVE  WritersAwake'
  <1> SUFFICES ASSUME pc'[wr] = "asleep", CanWrite(wr)'
               PROVE  \E r \in Readers : pc'[r] = "notify"
    BY DEF WritersAwake
  <1> USE DEF Threads
  <1>1. ASSUME UNCHANGED <<head, tail, pc, req>>
        PROVE  \E r \in Readers : pc'[r] = "notify"
    BY <1>1 DEF WritersAwake, CanWrite, available_space, available_data
  <1>2. ASSUME NEW t \in Threads, NEW n, Call(t, n)
        PROVE  \E r \in Readers : pc'[r] = "notify"
    BY <1>2 DEF Call, WritersAwake, CanWrite, available_space, available_data, TypeOK
  <1>3. ASSUME NEW r \in Readers, Sleep(r, CanRead(r))
        PROVE  \E s \in Readers : pc'[s] = "notify"
    BY <1>3, ThreadsAssumption
    DEF Sleep, WritersAwake, CanWrite, available_space, available_data, TypeOK
  <1>4. ASSUME Sleep(wr, CanWrite(wr)) PROVE FALSE
    BY <1>4 DEF Sleep, CanWrite, available_space, available_data
  <1>5. ASSUME NEW t \in Threads, SpuriousWake(t)
        PROVE  \E r \in Readers : pc'[r] = "notify"
    BY <1>5 DEF SpuriousWake, WritersAwake, CanWrite, available_space, available_data, TypeOK
  <1>6. ASSUME NEW r \in Readers, ReadBody(r) \/ Clear(r)
        PROVE  \E s \in Readers : pc'[s] = "notify"
    BY <1>6 DEF ReadBody, Clear, TypeOK
  <1>7. ASSUME NEW r \in Readers, ReadReturn(r) PROVE FALSE
    <2>1. pc[wr] = "asleep"
      BY <1>7, ThreadsAssumption DEF ReadReturn, NotifyOne, TypeOK
    <2> QED
      BY <1>7, <2>1 DEF ReadReturn, NotifyOne, TypeOK
  <1>8. ASSUME WriteBody(wr) \/ WriteReturn(wr) PROVE FALSE
    BY <1>8, ThreadsAssumption DEF WriteBody, WriteReturn, NotifyOne, TypeOK
  <1>9. ASSUME NEW r \in Readers, PeekFirst(r) \/ PeekSecond(r)
        PROVE  \E s \in Readers : pc'[s] = "notify"
    BY <1>9, ThreadsAssumption
    DEF PeekFirst, PeekSecond, WritersAwake, CanWrite, available_space, available_data, TypeOK
  <1> QED
    BY <1>1, <1>2, <1>3, <1>4, <1>5, <1>6, <1>7, <1>8, <1>9
    DEF Next, WriterStep, ReaderStep, vars

(***************************************************************************)
(* The reader thread of IcomIQPort and one client: no wake-up is lost.     *)
(***************************************************************************)
THEOREM NoLostWakeup ==
    ASSUME NEW wr, Writers = {wr}, NEW rd, Readers = {rd}
    PROVE  Spec => []NoWakeupLost
  <1>1. Init => NoWakeupLost
    BY DEF Init, NoWakeupLost, ReadersAwake, WritersAwake, Threads
  <1>2. TypeOK /\ NoWakeupLost /\ [Next]_vars => NoWakeupLost'
    BY ReadersAwakeStep, WritersAwakeStep DEF NoWakeupLost
  <1> QED
    BY <1>1, <1>2, TypeCorrect, PTL DEF Spec

-----------------------------------------------------------------------------
(* Several readers                                                         *)

(***************************************************************************)
(* The threads that will see that the readers' condition has come true, or *)
(* will tell a sleeping reader.                                            *)
(***************************************************************************)
Alert ==
    {w \in Writers : pc[w] = "notify"} \cup {r \in Readers : pc[r] = "enter"}

(***************************************************************************)
(* While a reader sleeps, there are as many alert threads as whole reads   *)
(* of n samples in the ring.  ReadersAwake alone is not inductive: a read  *)
(* takes one alert thread away and may leave the samples of another read.  *)
(***************************************************************************)
EnoughAlert(n) ==
    (\E r \in Readers : pc[r] = "asleep") => available_data < n * (Cardinality(Alert) + 1)

(* One alert thread more pays for n samples more, one less for n less.     *)
LEMMA AlertChange ==
    ASSUME NEW n \in Nat, NEW a \in Nat, NEW b \in Nat, NEW c \in Nat, NEW d \in Nat,
           a < n * (c + 1),
           \/ b <= a /\ c <= d
           \/ b <= a + n /\ d = c + 1
           \/ b = a - n /\ d = c - 1
    PROVE  b < n * (d + 1)
  <1>1. CASE b <= a /\ c <= d
    <2>1. n * (c + 1) <= n * (d + 1)
      BY <1>1
    <2> QED
      BY <1>1, <2>1
  <1>2. CASE b <= a + n /\ d = c + 1
    <2>1. n * (c + 1 + 1) = n * (c + 1) + n
      OBVIOUS
    <2> QED
      BY <1>2, <2>1
  <1>3. CASE b = a - n /\ d = c - 1
    <2>1. n * (c + 1) = n * c + n
      OBVIOUS
    <2> QED
      BY <1>3, <2>1
  <1> QED
    BY <1>1, <1>2, <1>3

(* A step that leaves samples, alert threads and sleepers no worse.        *)
LEMMA AlertKept ==
    ASSUME TypeOK, TypeOK', NEW n \in Nat, EnoughAlert(n), IsFiniteSet(Threads),
           available_data' <= available_data, Alert \subseteq Alert',
           (\E r \in Readers : pc'[r] = "asleep") => \E r \in Readers : pc[r] = "asleep"
    PROVE  EnoughAlert(n)'
  <1>1. IsFiniteSet(Alert')
    BY FS_Subset DEF Alert, Threads
  <1>2. Cardinality(Alert) <= Cardinality(Alert')
    BY <1>1, FS_Subset
  <1>3. Cardinality(Alert) \in Nat /\ Cardinality(Alert') \in Nat
    BY <1>1, FS_Subset, FS_CardinalityType
  <1>4. available_data \in Nat /\ available_data' \in Nat
    BY FillsAreNat
  <1> QED
    BY <1>2, <1>3, <1>4, AlertChange DEF EnoughAlert

(***************************************************************************)
(* Reads of one size and blocks no larger: every step keeps enough threads *)
(* alert.  A block adds at most one read and one thread that will notify;  *)
(* a notification hands its alertness to the reader it wakes; a reader     *)
(* falls asleep only when there is no whole read; and a read is paid for   *)
(* by the alert reader that makes it.                                      *)
(***************************************************************************)
LEMMA EnoughAlertStep ==
    ASSUME TypeOK, [Next]_vars, IsFiniteSet(Threads), NEW n \in Nat, ReadSizes = {n},
           \A m \in WriteSizes : m <= n, EnoughAlert(n)
    PROVE  EnoughAlert(n)'
  <1> USE DEF Threads
  <1>1. TypeOK' /\ n \in Nat \ {0}
    BY TypeStep, SizesAssumption
  <1>2. available_data \in Nat /\ available_data' \in Nat
    BY <1>1, FillsAreNat
  <1>3. /\ IsFiniteSet(Alert) /\ Cardinality(Alert) \in Nat
        /\ IsFiniteSet(Alert') /\ Cardinality(Alert') \in Nat
    BY FS_Subset, FS_CardinalityType DEF Alert
  <1>4. CASE UNCHANGED <<head, tail, pc>>
    BY <1>1, <1>2, <1>4, AlertKept DEF available_data, Alert
  <1>5. ASSUME NEW t \in Threads, NEW m, Call(t, m) \/ SpuriousWake(t)
        PROVE  EnoughAlert(n)'
    <2>1. /\ available_data' = available_data
          /\ Alert \subseteq Alert'
          /\ \A r \in Readers : pc'[r] = "asleep" => pc[r] = "asleep"
      BY <1>5, ThreadsAssumption
      DEF Call, SpuriousWake, Alert, available_data, TypeOK
    <2> QED
      BY <1>1, <1>2, <2>1, AlertKept
  <1>6. ASSUME NEW w \in Writers, NEW c, Sleep(w, c) PROVE EnoughAlert(n)'
    <2>1. /\ available_data' = available_data
          /\ Alert \subseteq Alert'
          /\ \A r \in Readers : pc'[r] = "asleep" => pc[r] = "asleep"
      BY <1>6, ThreadsAssumption DEF Sleep, Alert, available_data, TypeOK
    <2> QED
      BY <1>1, <1>2, <2>1, AlertKept
  <1>7. ASSUME NEW r \in Readers, Sleep(r, CanRead(r)) PROVE EnoughAlert(n)'
    <2>1. available_data' < n
      <3>1. req[r] = n
        BY <1>7 DEF Sleep, TypeOK
      <3>2. available_data' = available_data
        BY <1>7 DEF Sleep, available_data
      <3> QED
        BY <1>2, <1>7, <3>1, <3>2 DEF Sleep, CanRead
    <2>2. n <= n * (Cardinality(Alert') + 1)
      BY <1>1, <1>3
    <2> QED
      BY <1>2, <1>3, <2>1, <2>2 DEF EnoughAlert
  <1>8. ASSUME NEW w \in Writers, WriteBody(w) PROVE EnoughAlert(n)'
    <2>1. req[w] \in Nat \ {0} /\ req[w] <= n
      BY <1>8, SizesAssumption DEF WriteBody, TypeOK
    <2>2. available_data' = available_data + req[w]
      BY <1>8, <2>1, TailAdvances DEF WriteBody, CanWrite
    <2>3. Alert' = Alert \cup {w} /\ w \notin Alert
      BY <1>8, ThreadsAssumption DEF WriteBody, Alert, TypeOK
    <2>4. Cardinality(Alert') = Cardinality(Alert) + 1
      BY <1>3, <2>3, FS_AddElement
    <2>5. \A r \in Readers : pc'[r] = "asleep" => pc[r] = "asleep"
      BY <1>8, ThreadsAssumption DEF WriteBody, TypeOK
    <2> QED
      BY <1>2, <1>3, <2>1, <2>2, <2>4, <2>5, AlertChange DEF EnoughAlert
  <1>9. ASSUME NEW w \in Writers, WriteReturn(w) PROVE EnoughAlert(n)'
    <2>1. SUFFICES ASSUME NEW q \in Readers, pc'[q] = "asleep"
                   PROVE  available_data' < n * (Cardinality(Alert') + 1)
      BY DEF EnoughAlert
    <2>2. pc[q] = "asleep"
      BY <1>9, <2>1, ThreadsAssumption DEF WriteReturn, NotifyOne, TypeOK
    <2>3. PICK s \in Readers : /\ pc[s] = "asleep" /\ pc[w] = "notify"
                               /\ pc' = [pc EXCEPT ![w] = "idle", ![s] = "enter"]
      BY <1>9, <2>2 DEF WriteReturn, NotifyOne
    <2>4. Alert' = (Alert \ {w}) \cup {s} /\ w \in Alert /\ s \notin Alert
      BY <2>3, ThreadsAssumption DEF Alert, TypeOK
    <2>5. Cardinality(Alert') = Cardinality(Alert)
      <3>1. /\ IsFiniteSet(Alert \ {w})
            /\ Cardinality(Alert \ {w}) = Cardinality(Alert) - 1
        BY <1>3, <2>4, FS_RemoveElement
      <3>2. Cardinality((Alert \ {w}) \cup {s}) = Cardinality(Alert \ {w}) + 1
        BY <2>4, <3>1, FS_AddElement
      <3> QED
        BY <1>3, <2>4, <3>1, <3>2
    <2>6. available_data' = available_data
      BY <1>9 DEF WriteReturn, NotifyOne, available_data
    <2> QED
      BY <2>2, <2>5, <2>6 DEF EnoughAlert
  <1>10. ASSUME NEW r \in Readers, ReadBody(r) PROVE EnoughAlert(n)'
    <2>1. req[r] = n /\ available_data >= n
      BY <1>10 DEF ReadBody, CanRead, TypeOK
    <2>2. available_data' = available_data - n
      BY <1>1, <1>10, <2>1, HeadAdvances DEF ReadBody
    <2>3. Alert' = Alert \ {r} /\ r \in Alert
      BY <1>10, ThreadsAssumption DEF ReadBody, Alert, TypeOK
    <2>4. Cardinality(Alert') = Cardinality(Alert) - 1
      BY <1>3, <2>3, FS_RemoveElement
    <2>5. \A q \in Readers : pc'[q] = "asleep" => pc[q] = "asleep"
      BY <1>10 DEF ReadBody, TypeOK
    <2> QED
      BY <1>2, <1>3, <2>2, <2>4, <2>5, AlertChange DEF EnoughAlert
  <1>11. ASSUME NEW r \in Readers, ReadReturn(r) \/ PeekFirst(r) \/ PeekSecond(r)
         PROVE  EnoughAlert(n)'
    <2>1. /\ available_data' = available_data
          /\ Alert \subseteq Alert'
          /\ \A q \in Readers : pc'[q] = "asleep" => pc[q] = "asleep"
      BY <1>11, ThreadsAssumption
      DEF ReadReturn, NotifyOne, PeekFirst, PeekSecond, Alert, available_data, TypeOK
    <2> QED
      BY <1>1, <1>2, <2>1, AlertKept
  <1>12. ASSUME NEW r \in Readers, Clear(r) PROVE EnoughAlert(n)'
    <2>1. available_data' = 0
      BY <1>12 DEF Clear, available_data, Between
    <2>2. 0 < n * (Cardinality(Alert') + 1)
      BY <1>1, <1>3
    <2> QED
      BY <2>1, <2>2 DEF EnoughAlert
  <1> QED
    BY <1>4, <1>5, <1>6, <1>7, <1>8, <1>9, <1>10, <1>11, <1>12
    DEF Next, WriterStep, ReaderStep, vars

(***************************************************************************)
(* The reader thread of IcomIQPort and any number of clients: no wake-up   *)
(* is lost when all reads are of one size and no block is larger, although *)
(* notify_one may wake any of them and another may take the samples first. *)
(***************************************************************************)
THEOREM NoLostWakeupShared ==
    ASSUME NEW wr, Writers = {wr}, IsFiniteSet(Readers),
           NEW n \in Nat, ReadSizes = {n}, \A m \in WriteSizes : m <= n
    PROVE  Spec => []NoWakeupLost
  <1>1. IsFiniteSet(Threads)
    BY FS_Singleton, FS_Union DEF Threads
  <1>2. Init => EnoughAlert(n) /\ WritersAwake
    BY DEF Init, EnoughAlert, WritersAwake, Threads
  <1>3. TypeOK /\ EnoughAlert(n) /\ [Next]_vars => EnoughAlert(n)'
    BY <1>1, EnoughAlertStep
  <1>4. TypeOK /\ WritersAwake /\ [Next]_vars => WritersAwake'
    BY WritersAwakeStep
  <1>5. TypeOK /\ EnoughAlert(n) => ReadersAwake
    <2> SUFFICES ASSUME TypeOK, EnoughAlert(n),
                        NEW r \in Readers, pc[r] = "asleep", CanRead(r)
                 PROVE  Alert # {}
      BY DEF ReadersAwake, Alert
    <2>1. available_data >= n /\ available_data < n * (Cardinality(Alert) + 1)
      BY DEF EnoughAlert, CanRead, TypeOK, Threads
    <2>2. Alert = {} => n * (Cardinality(Alert) + 1) = n
      BY FS_EmptySet
    <2> QED
      BY <2>1, <2>2, FillRange, SizesAssumption
  <1> QED
    BY <1>2, <1>3, <1>4, <1>5, TypeCorrect, PTL DEF Spec, NoWakeupLost

-----------------------------------------------------------------------------
(* Mutual waiting                                                          *)

(***************************************************************************)
(* Every read and every block fit the ring together: the sizes with which  *)
(* the writer and a reader cannot both find too little.  1024 samples each *)
(* and 32768 slots in the code.                                            *)
(***************************************************************************)
SizesFit == \A m \in WriteSizes, n \in ReadSizes : m + n <= BuffSize + 1

(***************************************************************************)
(* What remains of NoWakeupLost when several threads wait on a condition   *)
(* for different counts: with enough for every count, at least one of them *)
(* is up, or somebody is about to notify one.  The one that is woken may   *)
(* be the wrong one only while there is too little for somebody.           *)
(***************************************************************************)
ReadersCalled ==
    Readers # {} /\ (\A n \in ReadSizes : n <= available_data) =>
        \/ \E r \in Readers : pc[r] # "asleep"
        \/ \E w \in Writers : pc[w] = "notify"

WritersCalled ==
    Writers # {} /\ (\A n \in WriteSizes : n <= available_space) =>
        \/ \E w \in Writers : pc[w] # "asleep"
        \/ \E r \in Readers : pc[r] = "notify"

LEMMA ReadersCalledStep ==
    ASSUME TypeOK, ReadersCalled, [Next]_vars
    PROVE  ReadersCalled'
  <1> SUFFICES ASSUME NEW q \in Readers, \A r \in Readers : pc'[r] = "asleep",
                      \A n \in ReadSizes : n <= available_data'
               PROVE  \E w \in Writers : pc'[w] = "notify"
    BY DEF ReadersCalled
  <1> USE DEF Threads
  <1>1. ASSUME UNCHANGED <<head, tail>>, \A r \in Readers : pc[r] = "asleep",
               \A w \in Writers : pc[w] = "notify" => pc'[w] = "notify"
        PROVE  \E w \in Writers : pc'[w] = "notify"
    BY <1>1 DEF ReadersCalled, available_data
  <1>2. CASE UNCHANGED <<head, tail, pc>>
    BY <1>1, <1>2
  <1>3. ASSUME NEW w \in Writers, NEW c, \/ \E n \in WriteSizes : Call(w, n)
                                         \/ Sleep(w, c) \/ SpuriousWake(w)
        PROVE  \E v \in Writers : pc'[v] = "notify"
    BY <1>1, <1>3, ThreadsAssumption DEF Call, Sleep, SpuriousWake, TypeOK
  <1>4. ASSUME NEW w \in Writers, WriteBody(w)
        PROVE  \E v \in Writers : pc'[v] = "notify"
    BY <1>4 DEF WriteBody, TypeOK
  <1>5. ASSUME NEW w \in Writers, WriteReturn(w) PROVE FALSE
    <2>1. pc[q] = "asleep"
      BY <1>5, ThreadsAssumption DEF WriteReturn, NotifyOne, TypeOK
    <2> QED
      BY <1>5, <2>1, ThreadsAssumption DEF WriteReturn, NotifyOne, TypeOK
  <1>6. ASSUME NEW r \in Readers, Sleep(r, CanRead(r)) PROVE FALSE
    <2>1. req[r] \in ReadSizes /\ available_data' = available_data
      BY <1>6 DEF Sleep, TypeOK, available_data
    <2>2. available_data \in Nat /\ req[r] \in Nat
      BY <2>1, TypeStep, FillsAreNat, SizesAssumption
    <2> QED
      BY <1>6, <2>1, <2>2 DEF Sleep, CanRead
  <1>7. ASSUME NEW r \in Readers,
               \/ \E n \in ReadSizes : Call(r, n)
               \/ SpuriousWake(r) \/ ReadBody(r) \/ ReadReturn(r) \/ Clear(r)
               \/ PeekFirst(r) \/ PeekSecond(r)
        PROVE  FALSE
    BY <1>7, ThreadsAssumption
    DEF Call, SpuriousWake, ReadBody, ReadReturn, NotifyOne, Clear, PeekFirst, PeekSecond,
        TypeOK
  <1> QED
    BY <1>2, <1>3, <1>4, <1>5, <1>6, <1>7 DEF Next, WriterStep, ReaderStep, vars

LEMMA WritersCalledStep ==
    ASSUME TypeOK, WritersCalled, [Next]_vars
    PROVE  WritersCalled'
  <1> SUFFICES ASSUME NEW q \in Writers, \A w \in Writers : pc'[w] = "asleep",
                      \A n \in WriteSizes : n <= available_space'
               PROVE  \E r \in Readers : pc'[r] = "notify"
    BY DEF WritersCalled
  <1> USE DEF Threads
  <1>1. ASSUME UNCHANGED <<head, tail>>, \A w \in Writers : pc[w] = "asleep",
               \A r \in Readers : pc[r] = "notify" => pc'[r] = "notify"
        PROVE  \E r \in Readers : pc'[r] = "notify"
    BY <1>1 DEF WritersCalled, available_space, available_data
  <1>2. CASE UNCHANGED <<head, tail, pc>>
    BY <1>1, <1>2
  <1>3. ASSUME NEW r \in Readers, NEW c, \/ \E n \in ReadSizes : Call(r, n)
                                         \/ Sleep(r, c) \/ SpuriousWake(r)
                                         \/ PeekFirst(r) \/ PeekSecond(r)
        PROVE  \E s \in Readers : pc'[s] = "notify"
    BY <1>1, <1>3, ThreadsAssumption
    DEF Call, Sleep, SpuriousWake, PeekFirst, PeekSecond, TypeOK
  <1>4. ASSUME NEW r \in Readers, ReadBody(r) \/ Clear(r)
        PROVE  \E s \in Readers : pc'[s] = "notify"
    BY <1>4 DEF ReadBody, Clear, TypeOK
  <1>5. ASSUME NEW r \in Readers, ReadReturn(r) PROVE FALSE
    <2>1. pc[q] = "asleep"
      BY <1>5, ThreadsAssumption DEF ReadReturn, NotifyOne, TypeOK
    <2> QED
      BY <1>5, <2>1, ThreadsAssumption DEF ReadReturn, NotifyOne, TypeOK
  <1>6. ASSUME NEW w \in Writers, Sleep(w, CanWrite(w)) PROVE FALSE
    <2>1. req[w] \in WriteSizes /\ available_space' = available_space
      BY <1>6 DEF Sleep, TypeOK, available_space, available_data
    <2>2. available_data \in Nat /\ req[w] \in Nat
      BY <2>1, TypeStep, FillsAreNat, SizesAssumption
    <2>3. available_space \in Int
      BY <2>2, SizesAssumption DEF available_space, capacity
    <2> QED
      BY <1>6, <2>1, <2>2, <2>3 DEF Sleep, CanWrite
  <1>7. ASSUME NEW w \in Writers,
               \/ \E n \in WriteSizes : Call(w, n)
               \/ SpuriousWake(w) \/ WriteBody(w) \/ WriteReturn(w)
        PROVE  FALSE
    BY <1>7, ThreadsAssumption
    DEF Call, SpuriousWake, WriteBody, WriteReturn, NotifyOne, TypeOK
  <1> QED
    BY <1>2, <1>3, <1>4, <1>5, <1>6, <1>7 DEF Next, WriterStep, ReaderStep, vars

(* If all threads slept, there would be too little for a read and no room. *)
LEMMA CalledCanRun ==
    ASSUME TypeOK, ReadersCalled, WritersCalled, SizesFit, Writers # {}, Readers # {}
    PROVE  SomeoneCanRun
  <1> SUFFICES ASSUME \A t \in Threads : pc[t] = "asleep" PROVE FALSE
    BY DEF SomeoneCanRun
  <1>1. /\ \A w \in Writers : pc[w] = "asleep"
        /\ \A r \in Readers : pc[r] = "asleep"
    BY DEF Threads
  <1>2. PICK n \in ReadSizes : ~(n <= available_data)
    BY <1>1 DEF ReadersCalled
  <1>3. PICK m \in WriteSizes : ~(m <= available_space)
    BY <1>1 DEF WritersCalled
  <1>4. m + n <= BuffSize + 1 /\ m \in Nat /\ n \in Nat
    BY SizesAssumption DEF SizesFit
  <1> QED
    BY <1>2, <1>3, <1>4, FillRange, SizesAssumption DEF available_space, capacity

(***************************************************************************)
(* Any number of writers and readers whose sizes fit, whatever counts they *)
(* wait for: they never all wait for each other.                           *)
(***************************************************************************)
THEOREM NoMutualWait ==
    ASSUME Writers # {}, Readers # {}, SizesFit
    PROVE  Spec => []SomeoneCanRun
  <1>1. Init => ReadersCalled /\ WritersCalled
    BY DEF Init, ReadersCalled, WritersCalled, Threads
  <1>2. TypeOK /\ ReadersCalled /\ WritersCalled => SomeoneCanRun
    BY CalledCanRun
  <1>3. TypeOK /\ ReadersCalled /\ WritersCalled /\ [Next]_vars
          => ReadersCalled' /\ WritersCalled'
    BY ReadersCalledStep, WritersCalledStep
  <1> QED
    BY <1>1, <1>2, <1>3, TypeCorrect, PTL DEF Spec

-----------------------------------------------------------------------------
(* The ring implements the bounded queue                                   *)

(***************************************************************************)
(* A call, the body of writebuf or readbuf and clear_ringbuffer are the    *)
(* steps of the queue; sleeping, waking and notifying do not show in it.   *)
(***************************************************************************)
LEMMA QueueStep == TypeOK /\ [Next]_vars => [Queue!QueueNext]_(Queue!queueVars)
  <1> SUFFICES ASSUME TypeOK, [Next]_vars
               PROVE  Queue!QueueNext \/ UNCHANGED Queue!queueVars
    OBVIOUS
  <1> DEFINE want == [t \in Threads |-> Pending(t)]
  <1> USE DEF Threads, Queue!Threads
  <1>1. ASSUME UNCHANGED <<head, tail>>,
               \A t \in Threads : Pending(t)' = Pending(t)
        PROVE  UNCHANGED Queue!queueVars
    <2>1. available_data' = available_data
      BY <1>1 DEF available_data
    <2>2. want' = want
      BY <1>1
    <2> QED
      BY <2>1, <2>2 DEF Queue!queueVars
  <1>2. ASSUME NEW t \in Threads, NEW n \in Nat, Call(t, n) PROVE Queue!Ask(t, n)
    <2>1. want[t] = 0 /\ want' = [want EXCEPT ![t] = n]
      BY <1>2 DEF Call, Pending, TypeOK
    <2> QED
      BY <1>2, <2>1 DEF Call, Queue!Ask, available_data
  <1>3. ASSUME NEW t \in Threads, NEW c, Sleep(t, c) \/ SpuriousWake(t)
        PROVE  UNCHANGED Queue!queueVars
    BY <1>1, <1>3 DEF Sleep, SpuriousWake, Pending, TypeOK
  <1>4. ASSUME NEW t \in Threads, NEW S \in SUBSET Threads, NotifyOne(t, S)
        PROVE  UNCHANGED Queue!queueVars
    BY <1>1, <1>4 DEF NotifyOne, Pending, TypeOK
  <1>5. ASSUME NEW w \in Writers, WriteBody(w) PROVE Queue!Put(w)
    <2>1. req[w] \in Nat \ {0}
      BY <1>5, SizesAssumption DEF WriteBody, TypeOK
    <2>2. available_data' = available_data + req[w]
      BY <1>5, <2>1, TailAdvances DEF WriteBody, CanWrite
    <2>3. want[w] = req[w] /\ want' = [want EXCEPT ![w] = 0]
      BY <1>5 DEF WriteBody, Pending, TypeOK
    <2>4. available_data + req[w] <= BuffSize
      BY <1>5, <2>1, FillRange, SizesAssumption
      DEF WriteBody, CanWrite, available_space, capacity
    <2> QED
      BY <2>1, <2>2, <2>3, <2>4 DEF Queue!Put
  <1>6. ASSUME NEW r \in Readers, ReadBody(r) PROVE Queue!Take(r)
    <2>1. req[r] \in Nat \ {0}
      BY <1>6, SizesAssumption DEF ReadBody, TypeOK
    <2>2. available_data' = available_data - req[r]
      BY <1>6, <2>1, HeadAdvances DEF ReadBody, CanRead
    <2>3. want[r] = req[r] /\ want' = [want EXCEPT ![r] = 0]
      BY <1>6 DEF ReadBody, Pending, TypeOK
    <2> QED
      BY <1>6, <2>1, <2>2, <2>3 DEF ReadBody, CanRead, Queue!Take
  <1>7. ASSUME NEW r \in Readers, Clear(r) PROVE Queue!Empty
    <2>1. want' = want
      BY <1>7 DEF Clear, Pending, TypeOK
    <2> QED
      BY <1>7, <2>1 DEF Clear, available_data, Between, Queue!Empty
  <1>8. CASE UNCHANGED vars
    BY <1>1, <1>8 DEF vars, Pending
  <1>9. ASSUME NEW r \in Readers, PeekFirst(r) \/ PeekSecond(r)
        PROVE  UNCHANGED Queue!queueVars
    BY <1>1, <1>9 DEF PeekFirst, PeekSecond, Pending, TypeOK
  <1>10. ASSUME NEW w \in Writers, WriterStep(w)
         PROVE  Queue!QueueNext \/ UNCHANGED Queue!queueVars
    BY <1>2, <1>3, <1>4, <1>5, <1>10, SizesAssumption
    DEF WriterStep, WriteReturn, Queue!QueueNext
  <1>11. ASSUME NEW r \in Readers, ReaderStep(r)
         PROVE  Queue!QueueNext \/ UNCHANGED Queue!queueVars
    BY <1>2, <1>3, <1>4, <1>6, <1>7, <1>9, <1>11, SizesAssumption
    DEF ReaderStep, ReadReturn, Queue!QueueNext
  <1> QED
    BY <1>3, <1>8, <1>10, <1>11 DEF Next

(***************************************************************************)
(* BlockingRingBuffer implements SampleQueue: the modular indices and the  *)
(* wrap-around never lose, invent or split the samples of a call.          *)
(***************************************************************************)
THEOREM Implementation == Spec => ImplementsQueue
  <1>1. Init => Queue!QueueInit
    BY DEF Init, Queue!QueueInit, available_data, Between, Pending, Threads, Queue!Threads
  <1> QED
    BY <1>1, QueueStep, TypeCorrect, PTL DEF Spec, ImplementsQueue, Queue!QueueSpec
=============================================================================
