------------------------- MODULE SoapyStreamProofs -------------------------
(***************************************************************************)
(* Proofs about SoapyStream, for any number of streams, any requests, any  *)
(* unit of transfer and any block.  The invariant says, of a stream that   *)
(* no other set-up has disturbed, that whoever is assigning the shared     *)
(* format assigns this stream's own, so that every look at it sees that    *)
(* one, and what the numbers of a readStream are at each of its steps.     *)
(***************************************************************************)
EXTENDS SoapyStream, TLAPS

(* Rounding down gives no more than it was given, and all of a whole block.*)
LEMMA RoundedDown ==
    /\ \A n \in Nat : Aligned(n) \in Nat /\ Aligned(n) <= n
    /\ Aligned(Block) = Block
  <1>1. Align \in Nat \ {0} /\ Block \in Nat \ {0} /\ Block % Align = 0
    BY StreamAssumption
  <1>2. ASSUME NEW n \in Nat
        PROVE  /\ n \div Align \in Nat /\ n % Align \in 0 .. Align - 1
               /\ n = Align * (n \div Align) + (n % Align)
    BY <1>1
  <1>3. ASSUME NEW n \in Nat PROVE Aligned(n) \in Nat /\ Aligned(n) <= n
    <2> DEFINE q == n \div Align
    <2>1. q \in Nat /\ n >= Align * q
      BY <1>1, <1>2
    <2>2. q * Align = Align * q /\ q * Align \in Nat
      <3> HIDE DEF q
      <3> QED
        BY <1>1, <2>1
    <2> QED
      BY <2>1, <2>2 DEF Aligned
  <1>4. Aligned(Block) = Block
    <2> DEFINE q == Block \div Align
    <2>1. q \in Nat /\ Block = Align * q
      BY <1>1, <1>2
    <2>2. q * Align = Align * q
      <3> HIDE DEF q
      <3> QED
        BY <1>1, <2>1
    <2> QED
      BY <2>1, <2>2 DEF Aligned
  <1> QED
    BY <1>3, <1>4

-----------------------------------------------------------------------------
(* The invariant                                                           *)

\* Everybody who is assigning the shared format assigns the one of s.
OthersAgree(s) == \A v \in Streams \ {s} : SettingUp(v) => Effective(agreed[v]) = agreed[s]

\* What the string holds once s has assigned it.
FormatIsOwn(s) ==
    /\ pc[s] # "text" => text = agreed[s]
    /\ ~SettingUp(s) => size = Lengths[agreed[s]]

\* The size of readStream's own buffer, before and after it is halved.
Requested(s) == Smaller(want[s], StreamMTU(agreed[s]))
Own(s) == IF agreed[s] = "S16" THEN Requested(s) \div 2 ELSE Requested(s)

Sizes(s) ==
    /\ pc[s] = "halve" => elems[s] = Requested(s)
    /\ pc[s] \in {"read"} \cup Formats => elems[s] = Own(s)

\* The comparisons have not gone past the one that holds.
Order == [S16 |-> 1, CS16 |-> 2, CF32 |-> 3, CF64 |-> 4]
NotPast(s) == pc[s] \in Formats => Order[pc[s]] <= Order[agreed[s]]

\* What a call that is over has done.
Done(s) ==
    pc[s] = "idle" =>
        /\ touched[s] <= want[s] * ElementSize[agreed[s]]
        /\ agreed[s] \in {"CF32", "CF64"} => delivered[s] = got[s]

\* Until its comparisons a call has reached nothing of the caller's.
Untouched(s) ==
    /\ got[s] <= elems[s]
    /\ pc[s] \in {"text", "size", "halve", "read"} => got[s] = 0
    /\ pc[s] # "idle" => touched[s] = 0 /\ delivered[s] = 0

LooksAgree(s) == OthersAgree(s) /\ FormatIsOwn(s) /\ Sizes(s) /\ NotPast(s) /\ Done(s)

Inv ==
    /\ TypeOK
    /\ \A s \in Streams : Untouched(s) /\ (Undisturbed(s) => LooksAgree(s))

LEMMA StepActions ==
    [Next]_vars <=>
        \/ \E s \in Streams, f \in Names : setupStream(s, f)
        \/ \E s \in Streams : SetText(s)
        \/ \E s \in Streams : SetSize(s)
        \/ \E s \in Streams, n \in Requests : readStream(s, n)
        \/ \E s \in Streams : Halve(s)
        \/ \E s \in Streams : readIQData(s)
        \/ \E s \in Streams, f \in Formats : Compare(s, f)
        \/ UNCHANGED vars
  BY DEF Next

(* The numbers of a readStream are natural numbers.                        *)
LEMMA Numbers ==
    /\ \A f \in Names \cup {"none"} : StreamMTU(f) \in Nat
    /\ \A n, m \in Nat : Smaller(n, m) \in Nat /\ Smaller(n, m) <= n
    /\ \A n \in Nat : n \div 2 \in Nat /\ 2 * (n \div 2) <= n
    /\ \A n \in Nat, f \in Formats : Touched(f, n) \in Nat /\ Delivered(f, n) \in Nat
    /\ \A f \in Names : Effective(f) \in Formats
  <1>1. \A f \in Names \cup {"none"} : StreamMTU(f) \in Nat
    BY StreamAssumption DEF StreamMTU
  <1>2. \A n, m \in Nat : Smaller(n, m) \in Nat /\ Smaller(n, m) <= n
    BY DEF Smaller
  <1>3. \A n \in Nat : n \div 2 \in Nat /\ 2 * (n \div 2) <= n
    OBVIOUS
  <1>4. ASSUME NEW n \in Nat, NEW f \in Formats
        PROVE  Touched(f, n) \in Nat /\ Delivered(f, n) \in Nat
    BY DEF Formats, Touched, Delivered, ElementSize, SampleSize
  <1>5. \A f \in Names : Effective(f) \in Formats
    BY DEF Effective, Formats
  <1> QED
    BY <1>1, <1>2, <1>3, <1>4, <1>5

LEMMA FormatTyped == ASSUME TypeOK PROVE Format \in Formats \cup {"none"}
  BY DEF TypeOK, Format

-----------------------------------------------------------------------------
(* Types                                                                   *)

LEMMA TypedStep == TypeOK /\ [Next]_vars => TypeOK'
  <1> SUFFICES ASSUME TypeOK, [Next]_vars PROVE TypeOK'
    OBVIOUS
  <1> USE DEF TypeOK, reading
  <1>1. ASSUME NEW s \in Streams, NEW f \in Names, setupStream(s, f) PROVE TypeOK'
    BY <1>1 DEF setupStream, Goto, Names
  <1>2. ASSUME NEW s \in Streams, SetText(s) PROVE TypeOK'
    <2>1. text' \in Formats
      BY <1>2 DEF SetText, Effective, Formats, Names
    <2> QED
      BY <1>2, <2>1 DEF SetText, Goto
  <1>3. ASSUME NEW s \in Streams, SetSize(s) PROVE TypeOK'
    <2>1. size' \in {3, 4}
      BY <1>3 DEF SetSize, Effective, Lengths, Formats, Names
    <2> QED
      BY <1>3, <2>1 DEF SetSize, Goto
  <1>4. ASSUME NEW s \in Streams, NEW n \in Requests, readStream(s, n) PROVE TypeOK'
    <2>1. n \in Nat /\ Smaller(n, StreamMTU(Format)) \in Nat
      BY StreamAssumption, Numbers, FormatTyped DEF Names
    <2> QED
      BY <1>4, <2>1 DEF readStream, Goto
  <1>5. ASSUME NEW s \in Streams, Halve(s) PROVE TypeOK'
    <2>1. elems' \in [Streams -> Nat]
      BY <1>5, Numbers DEF Halve
    <2> QED
      BY <1>5, <2>1 DEF Halve, Goto
  <1>6. ASSUME NEW s \in Streams, readIQData(s) PROVE TypeOK'
    <2>1. got' \in [Streams -> Nat]
      BY <1>6, RoundedDown DEF readIQData
    <2> QED
      BY <1>6, <2>1 DEF readIQData, Goto, Formats
  <1>7. ASSUME NEW s \in Streams, NEW f \in Formats, Compare(s, f) PROVE TypeOK'
    <2>1. Touched(f, got[s]) \in Nat /\ Delivered(f, got[s]) \in Nat
      BY Numbers
    <2>2. Following[f] \in {"idle"} \cup Formats
      BY DEF Following, Formats
    <2> QED
      BY <1>7, <2>1, <2>2 DEF Compare, Goto
  <1>8. CASE UNCHANGED vars
    BY <1>8 DEF vars
  <1> QED
    BY <1>1, <1>2, <1>3, <1>4, <1>5, <1>6, <1>7, <1>8, StepActions

LEMMA InitTyped == Init => TypeOK
  BY DEF Init, TypeOK, Lengths, Formats, Nothing, Names

-----------------------------------------------------------------------------
(* What holds of every stream                                              *)

LEMMA UntouchedStep ==
    ASSUME TypeOK, \A s \in Streams : Untouched(s), [Next]_vars
    PROVE  \A s \in Streams : Untouched(s)'
  <1> SUFFICES ASSUME NEW u \in Streams PROVE Untouched(u)'
    OBVIOUS
  <1>0. Untouched(u) /\ elems[u] \in Nat /\ got[u] \in Nat
    BY DEF TypeOK
  <1> USE DEF Untouched, TypeOK, reading
  <1>1. ASSUME NEW s \in Streams, NEW f \in Names, setupStream(s, f) PROVE Untouched(u)'
    BY <1>0, <1>1 DEF setupStream, Goto
  <1>2. ASSUME NEW s \in Streams, SetText(s) PROVE Untouched(u)'
    BY <1>0, <1>2 DEF SetText, Goto
  <1>3. ASSUME NEW s \in Streams, SetSize(s) PROVE Untouched(u)'
    BY <1>0, <1>3 DEF SetSize, Goto
  <1>4. ASSUME NEW s \in Streams, NEW n \in Requests, readStream(s, n) PROVE Untouched(u)'
    <2>1. n \in Nat /\ Smaller(n, StreamMTU(Format)) \in Nat
      BY StreamAssumption, Numbers, FormatTyped DEF Names
    <2> QED
      BY <1>0, <1>4, <2>1 DEF readStream, Goto
  <1>5. ASSUME NEW s \in Streams, Halve(s) PROVE Untouched(u)'
    <2>1. elems'[u] \in Nat
      BY <1>0, <1>5, Numbers DEF Halve
    <2> QED
      BY <1>0, <1>5, <2>1 DEF Halve, Goto
  <1>6. ASSUME NEW s \in Streams, readIQData(s) PROVE Untouched(u)'
    <2>1. \A n \in 1 .. Aligned(elems[s]) : n \in Nat /\ n <= elems[s]
      BY RoundedDown
    <2> QED
      BY <1>0, <1>6, <2>1 DEF readIQData, Goto, Formats
  <1>7. ASSUME NEW s \in Streams, NEW f \in Formats, Compare(s, f) PROVE Untouched(u)'
    <2>1. Following[f] \in {"idle", "CS16", "CF32", "CF64"}
      BY DEF Following, Formats
    <2> QED
      BY <1>0, <1>7, <2>1 DEF Compare, Goto, Formats
  <1>8. CASE UNCHANGED vars
    BY <1>0, <1>8 DEF vars
  <1> QED
    BY <1>1, <1>2, <1>3, <1>4, <1>5, <1>6, <1>7, <1>8, StepActions

-----------------------------------------------------------------------------
(* What holds of a stream that was left alone                              *)

\* Every step but its own set-up finds a stream as undisturbed as it leaves it.
LEMMA UndisturbedBefore ==
    ASSUME TypeOK, NEW u \in Streams, [Next]_vars, Undisturbed(u)',
           \A f \in Names : ~setupStream(u, f)
    PROVE  Undisturbed(u) /\ agreed'[u] = agreed[u]
  <1>1. ASSUME NEW s \in Streams, NEW f \in Names, setupStream(s, f)
        PROVE  Undisturbed(u) /\ agreed'[u] = agreed[u]
    <2>1. s # u
      BY <1>1
    <2> QED
      BY <1>1, <2>1 DEF setupStream, TypeOK, Undisturbed
  <1>2. ASSUME UNCHANGED <<agreed, disturbed>> PROVE Undisturbed(u) /\ agreed'[u] = agreed[u]
    BY <1>2 DEF Undisturbed
  <1> QED
    BY <1>1, <1>2, StepActions DEF SetText, SetSize, readStream, Halve, readIQData, Compare, vars

\* Between set-ups every look at the shared format sees this stream's own.
LEMMA OwnFormatSeen ==
    ASSUME TypeOK, NEW s \in Streams, Undisturbed(s), FormatIsOwn(s), ~SettingUp(s)
    PROVE  Format = agreed[s]
  BY DEF FormatIsOwn, SettingUp, Format, Lengths, Undisturbed, Formats

LEMMA AgreementStep ==
    ASSUME TypeOK, NEW u \in Streams, Undisturbed(u) => OthersAgree(u) /\ FormatIsOwn(u),
           [Next]_vars, Undisturbed(u)'
    PROVE  OthersAgree(u)' /\ FormatIsOwn(u)'
  <1> USE DEF OthersAgree, FormatIsOwn, SettingUp
  <1>1. ASSUME NEW f \in Names, setupStream(u, f) PROVE OthersAgree(u)' /\ FormatIsOwn(u)'
    <2>1. \A v \in Streams \ {u} : pc[v] \notin {"text", "size"}
      BY <1>1 DEF setupStream, Undisturbed, TypeOK
    <2> QED
      BY <1>1, <2>1 DEF setupStream, Goto, TypeOK
  <1>2. CASE \A f \in Names : ~setupStream(u, f)
    <2>1. Undisturbed(u) /\ agreed'[u] = agreed[u] /\ agreed[u] \in Formats
      BY <1>2, UndisturbedBefore DEF Undisturbed
    <2>2. OthersAgree(u) /\ FormatIsOwn(u)
      BY <2>1
    <2>3. Effective(agreed[u]) = agreed[u]
      BY <2>1 DEF Effective
    <2>4. ASSUME NEW s \in Streams, NEW f \in Names, setupStream(s, f)
          PROVE  OthersAgree(u)' /\ FormatIsOwn(u)'
      <3>1. s # u
        BY <1>2, <2>4
      <3>2. Effective(f) = agreed[u]
        <4>1. disturbed'[u] = (disturbed[u] \/ (agreed[u] # "none" /\ Effective(agreed[u]) # Effective(f)))
          BY <2>4, <3>1 DEF setupStream
        <4>2. disturbed'[u] = FALSE /\ agreed[u] # "none"
          BY <2>1 DEF Undisturbed, TypeOK, Formats
        <4> QED
          BY <4>1, <4>2, <2>3
      <3>3. OthersAgree(u)'
        BY <2>1, <2>2, <2>4, <3>1, <3>2 DEF setupStream, Goto, TypeOK
      <3> QED
        BY <2>1, <2>2, <2>4, <3>1, <3>3 DEF setupStream, Goto, TypeOK
    <2>5. ASSUME NEW s \in Streams, SetText(s) PROVE OthersAgree(u)' /\ FormatIsOwn(u)'
      <3>1. text' = agreed[u]
        BY <2>2, <2>3, <2>5 DEF SetText, Goto
      <3> QED
        BY <2>1, <2>2, <2>5, <3>1 DEF SetText, Goto, TypeOK
    <2>6. ASSUME NEW s \in Streams, SetSize(s) PROVE OthersAgree(u)' /\ FormatIsOwn(u)'
      <3>1. size' = Lengths[agreed[u]]
        BY <2>2, <2>3, <2>6 DEF SetSize, Goto
      <3> QED
        BY <2>1, <2>2, <2>6, <3>1 DEF SetSize, Goto, TypeOK
    <2>7. ASSUME NEW s \in Streams, UNCHANGED <<text, size, agreed>>,
                 pc[s] \notin {"text", "size"},
                 \E q \in {"idle", "halve", "read"} \cup Formats : pc' = [pc EXCEPT ![s] = q]
          PROVE  OthersAgree(u)' /\ FormatIsOwn(u)'
      <3>1. \A v \in Streams : pc'[v] \in {"text", "size"} <=> pc[v] \in {"text", "size"}
        BY <2>7 DEF TypeOK, Formats
      <3>2. pc'[u] = "text" <=> pc[u] = "text"
        BY <2>7 DEF TypeOK, Formats
      <3> QED
        BY <2>2, <2>7, <3>1, <3>2
    <2>8. ASSUME NEW s \in Streams, NEW n \in Requests, readStream(s, n)
          PROVE  OthersAgree(u)' /\ FormatIsOwn(u)'
      BY <2>7, <2>8 DEF readStream, Goto
    <2>9. ASSUME NEW s \in Streams, Halve(s) PROVE OthersAgree(u)' /\ FormatIsOwn(u)'
      BY <2>7, <2>9 DEF Halve, Goto
    <2>10. ASSUME NEW s \in Streams, readIQData(s) PROVE OthersAgree(u)' /\ FormatIsOwn(u)'
      BY <2>7, <2>10 DEF readIQData, Goto, Formats
    <2>11. ASSUME NEW s \in Streams, NEW f \in Formats, Compare(s, f)
           PROVE  OthersAgree(u)' /\ FormatIsOwn(u)'
      <3>1. Following[f] \in {"idle"} \cup Formats
        BY DEF Following, Formats
      <3> QED
        BY <2>7, <2>11, <3>1 DEF Compare, Goto, Formats
    <2>12. CASE UNCHANGED vars
      BY <2>2, <2>12 DEF vars
    <2> QED
      BY <2>4, <2>5, <2>6, <2>8, <2>9, <2>10, <2>11, <2>12, StepActions
  <1> QED
    BY <1>1, <1>2

\* Own read of n samples reaches no further than the caller's buffer.
LEMMA OwnReadFits ==
    ASSUME TypeOK, NEW u \in Streams, agreed[u] \in Formats,
           elems[u] = Own(u), got[u] <= elems[u]
    PROVE  /\ Touched(agreed[u], got[u]) <= want[u] * ElementSize[agreed[u]]
           /\ agreed[u] \in {"CF32", "CF64"} => Delivered(agreed[u], got[u]) = got[u]
  <1>1. want[u] \in Nat /\ got[u] \in Nat
    BY DEF TypeOK
  <1>2. Requested(u) \in Nat /\ Requested(u) <= want[u]
    BY <1>1, Numbers DEF Requested, Names
  <1>3. CASE agreed[u] = "S16"
    <2>1. 2 * got[u] <= want[u]
      BY <1>1, <1>2, <1>3, Numbers DEF Own
    <2> QED
      BY <1>1, <1>3, <2>1 DEF Touched, ElementSize, SampleSize
  <1>4. CASE agreed[u] # "S16"
    <2>1. got[u] <= want[u]
      BY <1>1, <1>2, <1>4 DEF Own
    <2> QED
      BY <1>1, <1>4, <2>1 DEF Touched, Delivered, ElementSize, Formats
  <1> QED
    BY <1>3, <1>4

Figures(u) == Sizes(u) /\ NotPast(u) /\ Done(u)

LEMMA NumbersStep ==
    ASSUME TypeOK, NEW u \in Streams, Untouched(u), Undisturbed(u) => LooksAgree(u),
           [Next]_vars, Undisturbed(u)'
    PROVE  Figures(u)'
  <1> USE DEF TypeOK, reading
  <1>1. ASSUME NEW f \in Names, setupStream(u, f) PROVE Figures(u)'
    BY <1>1 DEF setupStream, Goto, Figures, Sizes, NotPast, Done, Formats
  <1>2. CASE \A f \in Names : ~setupStream(u, f)
    <2>1. Undisturbed(u) /\ agreed'[u] = agreed[u] /\ agreed[u] \in Formats
      BY <1>2, UndisturbedBefore DEF Undisturbed
    <2>2. Figures(u) /\ FormatIsOwn(u) /\ (~SettingUp(u) => Format = agreed[u])
      BY <2>1, OwnFormatSeen DEF LooksAgree, Figures
    <2>3. ASSUME pc'[u] = pc[u], UNCHANGED <<want[u], elems[u], got[u], touched[u], delivered[u]>>
          PROVE  Figures(u)'
      BY <2>1, <2>2, <2>3 DEF Figures, Sizes, NotPast, Done, Own, Requested
    <2>4. ASSUME NEW s \in Streams, s # u,
                 \/ \E f \in Names : setupStream(s, f)
                 \/ SetText(s) \/ SetSize(s)
                 \/ \E n \in Requests : readStream(s, n)
                 \/ Halve(s) \/ readIQData(s) \/ \E f \in Formats : Compare(s, f)
          PROVE  Figures(u)'
      BY <2>3, <2>4, ZenonT(60)
      DEF setupStream, SetText, SetSize, readStream, Halve, readIQData, Compare, Goto
    <2>5. CASE SetText(u)
      BY <2>5 DEF SetText, Goto, Figures, Sizes, NotPast, Done, Formats
    <2>6. CASE SetSize(u)
      <3>1. touched[u] = 0 /\ delivered[u] = 0 /\ got[u] = 0
        BY <2>6 DEF SetSize, Goto, Untouched
      <3>2. want[u] * ElementSize[agreed[u]] >= 0
        BY <2>1 DEF ElementSize, Formats
      <3> QED
        BY <2>1, <2>6, <3>1, <3>2 DEF SetSize, Goto, Figures, Sizes, NotPast, Done, Formats
    <2>7. ASSUME NEW n \in Requests, readStream(u, n) PROVE Figures(u)'
      <3>1. Format = agreed[u]
        BY <2>2, <2>7 DEF readStream, Goto, SettingUp
      <3> QED
        BY <2>1, <2>7, <3>1
        DEF readStream, Goto, Figures, Sizes, NotPast, Done, Requested, Formats
    <2>8. CASE Halve(u)
      <3>1. Format = agreed[u] /\ elems[u] = Requested(u)
        BY <2>2, <2>8 DEF Halve, Goto, SettingUp, Figures, Sizes
      <3> QED
        BY <2>1, <2>8, <3>1
        DEF Halve, Goto, Figures, Sizes, NotPast, Done, Own, Requested, Formats
    <2>9. CASE readIQData(u)
      <3>1. /\ elems[u] = Own(u) /\ got[u] = 0 /\ touched[u] = 0 /\ delivered[u] = 0
            /\ pc[u] = "read"
        BY <2>2, <2>9 DEF readIQData, Goto, Figures, Sizes, Untouched
      <3>2. elems'[u] = Own(u)' /\ UNCHANGED <<touched, delivered, want>>
        BY <2>1, <2>9, <3>1 DEF readIQData, Own, Requested
      <3>3. CASE pc'[u] = "S16"
        <4>1. Order["S16"] <= Order[agreed[u]]
          BY <2>1 DEF Order, Formats
        <4> QED
          BY <2>1, <3>2, <3>3, <4>1 DEF Figures, Sizes, NotPast, Done
      <3>4. CASE pc'[u] = "idle" /\ got' = got
        <4>1. want[u] * ElementSize[agreed[u]] >= 0
          BY <2>1 DEF ElementSize, Formats
        <4> QED
          BY <2>1, <3>1, <3>2, <3>4, <4>1 DEF Figures, Sizes, NotPast, Done, Formats
      <3> QED
        BY <2>9, <3>3, <3>4 DEF readIQData, Goto
    <2>10. ASSUME NEW f \in Formats, Compare(u, f) PROVE Figures(u)'
      <3>1. /\ Format = agreed[u] /\ elems[u] = Own(u) /\ got[u] <= elems[u]
            /\ Order[f] <= Order[agreed[u]] /\ pc[u] = f
        BY <2>2, <2>10
        DEF Compare, Goto, SettingUp, Figures, Sizes, NotPast, Untouched, Formats
      <3>2. elems'[u] = Own(u)' /\ UNCHANGED <<got, want>>
        BY <2>1, <2>10, <3>1 DEF Compare, Own, Requested
      <3>3. CASE f = agreed[u]
        <4>1. /\ pc'[u] = "idle"
              /\ touched'[u] = Touched(f, got[u]) /\ delivered'[u] = Delivered(f, got[u])
          BY <2>10, <3>1, <3>3 DEF Compare, Goto
        <4>2. /\ Touched(f, got[u]) <= want[u] * ElementSize[f]
              /\ f \in {"CF32", "CF64"} => Delivered(f, got[u]) = got[u]
          BY <2>1, <3>1, <3>3, OwnReadFits
        <4> QED
          BY <2>1, <3>2, <3>3, <4>1, <4>2 DEF Figures, Sizes, NotPast, Done, Formats
      <3>4. CASE f # agreed[u]
        <4>1. pc'[u] = Following[f] /\ UNCHANGED <<touched, delivered>>
          BY <2>10, <3>1, <3>4 DEF Compare, Goto
        <4>2. Following[f] \in Formats /\ Order[Following[f]] <= Order[agreed[u]]
          BY <2>1, <3>1, <3>4 DEF Order, Following, Formats
        <4>3. pc'[u] \in Formats /\ pc'[u] \notin {"idle", "halve"}
          BY <4>1, <4>2 DEF Formats
        <4> QED
          BY <2>1, <3>2, <4>1, <4>2, <4>3 DEF Figures, Sizes, NotPast, Done
      <3> QED
        BY <3>3, <3>4
    <2>11. CASE UNCHANGED vars
      BY <2>3, <2>11 DEF vars
    <2> QED
      BY <1>2, <2>4, <2>5, <2>6, <2>7, <2>8, <2>9, <2>10, <2>11, StepActions
  <1> QED
    BY <1>1, <1>2

LEMMA InitInv == Init => Inv
  <1> SUFFICES ASSUME Init PROVE Inv
    OBVIOUS
  <1>1. TypeOK
    BY InitTyped
  <1>2. ASSUME NEW s \in Streams PROVE Untouched(s) /\ ~Undisturbed(s)
    <2>1. got[s] = 0 /\ elems[s] = 0 /\ touched[s] = 0 /\ delivered[s] = 0
      BY DEF Init, Nothing
    <2>2. agreed[s] = "none" /\ pc[s] = "idle"
      BY DEF Init
    <2> QED
      BY <2>1, <2>2 DEF Untouched, Undisturbed, Formats
  <1> QED
    BY <1>1, <1>2 DEF Inv

LEMMA InvStep == Inv /\ [Next]_vars => Inv'
  <1> SUFFICES ASSUME Inv, [Next]_vars PROVE Inv'
    OBVIOUS
  <1>1. TypeOK'
    BY TypedStep DEF Inv
  <1>2. \A s \in Streams : Untouched(s)'
    BY UntouchedStep DEF Inv
  <1>3. ASSUME NEW s \in Streams, Undisturbed(s)' PROVE LooksAgree(s)'
    <2>1. TypeOK /\ Untouched(s) /\ (Undisturbed(s) => LooksAgree(s))
      BY DEF Inv
    <2>2. OthersAgree(s)' /\ FormatIsOwn(s)'
      BY <1>3, <2>1, AgreementStep DEF LooksAgree
    <2>3. Figures(s)'
      BY <1>3, <2>1, NumbersStep
    <2> QED
      BY <2>2, <2>3 DEF LooksAgree, Figures
  <1> QED
    BY <1>1, <1>2, <1>3 DEF Inv

LEMMA Invariant == Spec => []Inv
  BY InitInv, InvStep, PTL DEF Spec

(***************************************************************************)
(* For any streams, requests, alignment and block: readStream stays inside *)
(* its own buffer always, and inside the caller's as long as no other      *)
(* set-up has changed the format the buffer was made for.                  *)
(***************************************************************************)
THEOREM MemoryIsRespected == Spec => []MemoryRespected
  <1>1. Inv => MemoryRespected
    <2> SUFFICES ASSUME Inv, NEW s \in Streams
                 PROVE  /\ Undisturbed(s) => touched[s] <= want[s] * ElementSize[agreed[s]]
                        /\ got[s] <= elems[s]
      BY DEF MemoryRespected
    <2>1. Untouched(s) /\ want[s] \in Nat
      BY DEF Inv, TypeOK
    <2>2. ASSUME Undisturbed(s) PROVE touched[s] <= want[s] * ElementSize[agreed[s]]
      <3>1. want[s] * ElementSize[agreed[s]] >= 0
        BY <2>1, <2>2 DEF Undisturbed, ElementSize, Formats
      <3> QED
        BY <2>1, <2>2, <3>1 DEF Inv, LooksAgree, Done, Untouched
    <2> QED
      BY <2>1, <2>2 DEF Untouched
  <1> QED
    BY <1>1, Invariant, PTL

(***************************************************************************)
(* A float stream that was left alone delivers every sample it reports.    *)
(***************************************************************************)
THEOREM FloatsAreDelivered == Spec => []FloatsDelivered
  <1>1. Inv => FloatsDelivered
    BY DEF Inv, LooksAgree, Done, FloatsDelivered
  <1> QED
    BY <1>1, Invariant, PTL

(***************************************************************************)
(* Asking for the MTU makes the driver read exactly one block, in every    *)
(* format and for any block of whole transfer units.                       *)
(***************************************************************************)
THEOREM MTUReadsOneBlock == Spec => []MTUIsOneBlock
  <1>1. Inv => MTUIsOneBlock
    <2> SUFFICES ASSUME Inv, NEW s \in Streams, Undisturbed(s), pc[s] = "read",
                        want[s] >= StreamMTU(agreed[s])
                 PROVE  Aligned(elems[s]) = Block
      BY DEF MTUIsOneBlock
    <2>1. elems[s] = Own(s) /\ want[s] \in Nat /\ agreed[s] \in Formats
      BY DEF Inv, TypeOK, LooksAgree, Sizes, Undisturbed
    <2>2. StreamMTU(agreed[s]) \in Nat /\ Block \in Nat
      BY <2>1, Numbers, StreamAssumption DEF Names
    <2>3. Requested(s) = StreamMTU(agreed[s])
      BY <2>1, <2>2 DEF Requested, Smaller
    <2>4. elems[s] = Block
      BY <2>1, <2>2, <2>3 DEF Own, StreamMTU
    <2> QED
      BY <2>4, RoundedDown
  <1> QED
    BY <1>1, Invariant, PTL
=============================================================================
