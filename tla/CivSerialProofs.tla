-------------------------- MODULE CivSerialProofs --------------------------
(***************************************************************************)
(* Theorems about CivSerial for every size of message, reply buffer and    *)
(* line: the types, that a reply is never made of two messages, the life   *)
(* of the object, and that an undisturbed call gets its own answer whole.  *)
(***************************************************************************)
EXTENDS CivSerial, SequenceTheorems, TLAPS

-----------------------------------------------------------------------------
(* Messages on a line                                                      *)

\* Every message that begins follows one that has ended, and the other way round.
Framed(s) == \A i \in 1 .. Len(s) - 1 : s[i].at = "eom" <=> s[i + 1].at = "head"

\* The last message is complete.
Whole(s) == s # <<>> => s[Len(s)].at = "eom"

(* A message is a sequence of bytes, a head first and the end last.        *)
LEMMA MessageIsFramed ==
    ASSUME NEW n \in Nat \ {0, 1}, NEW own \in BOOLEAN
    PROVE  /\ Message(n, own) \in Seq(Bytes)
           /\ Message(n, own) # <<>>
           /\ Message(n, own)[1].at = "head"
           /\ Framed(Message(n, own)) /\ Whole(Message(n, own))
  <1>1. n \in Nat /\ n >= 2
    OBVIOUS
  <1>2. /\ Message(n, own) \in Seq(Bytes)
        /\ Len(Message(n, own)) = n
        /\ \A i \in 1 .. n : Message(n, own)[i].at =
                               IF i = 1 THEN "head" ELSE IF i = n THEN "eom" ELSE "body"
    BY <1>1 DEF Message, Bytes
  <1> QED
    BY <1>1, <1>2 DEF Framed, Whole

(* A message behind complete ones leaves them framed and complete.         *)
LEMMA MessageBehind ==
    ASSUME NEW s \in Seq(Bytes), Framed(s), Whole(s),
           NEW m \in Seq(Bytes), m # <<>> => m[1].at = "head", Framed(m), Whole(m)
    PROVE  /\ s \o m \in Seq(Bytes)
           /\ Framed(s \o m) /\ Whole(s \o m)
           /\ s # <<>> => s \o m # <<>> /\ (s \o m)[1] = s[1]
           /\ s = <<>> => s \o m = m
  <1>1. /\ s \o m \in Seq(Bytes)
        /\ Len(s \o m) = Len(s) + Len(m)
        /\ \A i \in 1 .. Len(s) + Len(m) :
             (s \o m)[i] = IF i <= Len(s) THEN s[i] ELSE m[i - Len(s)]
        /\ Len(s) \in Nat /\ Len(m) \in Nat
        /\ s = <<>> <=> Len(s) = 0
        /\ m = <<>> <=> Len(m) = 0
    BY ConcatProperties, EmptySeq, LenProperties
  <1>2. Framed(s \o m)
    <2> SUFFICES ASSUME NEW i \in 1 .. Len(s) + Len(m) - 1
                 PROVE  (s \o m)[i].at = "eom" <=> (s \o m)[i + 1].at = "head"
      BY <1>1 DEF Framed
    <2>1. CASE i < Len(s)
      BY <1>1, <2>1 DEF Framed
    <2>2. CASE i = Len(s)
      BY <1>1, <2>2 DEF Whole
    <2>3. CASE i > Len(s)
      <3>1. i - Len(s) \in 1 .. Len(m) - 1 /\ (i + 1) - Len(s) = (i - Len(s)) + 1
        BY <1>1, <2>3
      <3> QED
        BY <1>1, <2>3, <3>1 DEF Framed
    <2> QED
      BY <1>1, <2>1, <2>2, <2>3
  <1>3. Whole(s \o m)
    BY <1>1 DEF Whole
  <1> QED
    BY <1>1, <1>2, <1>3, ConcatEmptySeq

(* A byte that arrives moves from one part of the line to the other.       *)
LEMMA Arrival ==
    ASSUME NEW s \in Seq(Bytes), NEW t \in Seq(Bytes), t # <<>>
    PROVE  /\ Append(s, Head(t)) \in Seq(Bytes) /\ Tail(t) \in Seq(Bytes)
           /\ Append(s, Head(t)) \o Tail(t) = s \o t
  <1>1. /\ Head(t) = t[1] /\ Head(t) \in Bytes /\ Tail(t) \in Seq(Bytes)
        /\ Len(t) \in Nat \ {0} /\ Len(s) \in Nat
        /\ Len(Tail(t)) = Len(t) - 1
        /\ \A i \in 1 .. Len(Tail(t)) : Tail(t)[i] = t[i + 1]
    BY HeadTailProperties, EmptySeq, LenProperties
  <1>2. /\ Append(s, Head(t)) \in Seq(Bytes)
        /\ Len(Append(s, Head(t))) = Len(s) + 1
        /\ \A i \in 1 .. Len(s) : Append(s, Head(t))[i] = s[i]
        /\ Append(s, Head(t))[Len(s) + 1] = t[1]
    BY <1>1
  <1> DEFINE a == Append(s, Head(t)) \o Tail(t)
             b == s \o t
  <1>3. /\ b \in Seq(Bytes) /\ Len(b) = Len(s) + Len(t)
        /\ \A i \in 1 .. Len(s) + Len(t) : b[i] = IF i <= Len(s) THEN s[i] ELSE t[i - Len(s)]
    BY ConcatProperties
  <1>4. /\ a \in Seq(Bytes) /\ Len(a) = Len(s) + Len(t)
        /\ \A i \in 1 .. Len(s) + Len(t) :
             a[i] = IF i <= Len(s) + 1 THEN Append(s, Head(t))[i] ELSE Tail(t)[i - (Len(s) + 1)]
    <2>1. Len(s) + 1 + Len(Tail(t)) = Len(s) + Len(t)
      BY <1>1
    <2> QED
      BY <1>1, <1>2, <2>1, ConcatProperties
  <1>5. ASSUME NEW i \in 1 .. Len(s) + Len(t) PROVE a[i] = b[i]
    <2>1. CASE i <= Len(s)
      BY <1>1, <1>2, <1>3, <1>4, <2>1
    <2>2. CASE i = Len(s) + 1
      BY <1>1, <1>2, <1>3, <1>4, <2>2
    <2>3. CASE i > Len(s) + 1
      <3>1. i - (Len(s) + 1) \in 1 .. Len(Tail(t)) /\ (i - (Len(s) + 1)) + 1 = i - Len(s)
        BY <1>1, <2>3
      <3> QED
        BY <1>1, <1>3, <1>4, <2>3, <3>1
    <2> QED
      BY <1>1, <2>1, <2>2, <2>3
  <1>6. a = b
    <2> HIDE DEF a, b
    <2> QED
      BY <1>3, <1>4, <1>5, SeqEqual
  <1> QED
    BY <1>1, <1>2, <1>6

(* What is on the line keeps its places when a new command is sent.        *)
LEMMA StaleKeepsPlaces ==
    ASSUME NEW s \in Seq(Bytes)
    PROVE  /\ Stale(s) \in Seq(Bytes)
           /\ Len(Stale(s)) = Len(s)
           /\ \A i \in 1 .. Len(s) : Stale(s)[i].at = s[i].at
  <1>1. Len(s) \in Nat /\ DOMAIN s = 1 .. Len(s)
    BY LenProperties
  <1>2. ASSUME NEW i \in 1 .. Len(s)
        PROVE  [at |-> s[i].at, own |-> FALSE] \in Bytes
    <2>1. s[i] \in Bytes
      BY ElementOfSeq
    <2> QED
      BY <2>1 DEF Bytes
  <1> QED
    BY <1>1, <1>2 DEF Stale

(* Taking the first byte of the line leaves the rest in frames.            *)
LEMMA FirstTaken ==
    ASSUME NEW s \in Seq(Bytes), NEW t \in Seq(Bytes), s # <<>>, Framed(s \o t), Whole(s \o t)
    PROVE  /\ Head(s) \in Bytes /\ Head(s) = (s \o t)[1]
           /\ Tail(s) \in Seq(Bytes) /\ Len(Tail(s)) + 1 = Len(s)
           /\ Framed(Tail(s) \o t) /\ Whole(Tail(s) \o t)
           /\ Head(s).at # "eom" => Tail(s) \o t # <<>> /\ (Tail(s) \o t)[1].at # "head"
  <1> DEFINE r == Tail(s) \o t
             q == s \o t
  <1>1. /\ Head(s) = s[1] /\ Head(s) \in Bytes /\ Tail(s) \in Seq(Bytes)
        /\ Len(s) \in Nat \ {0} /\ Len(t) \in Nat
        /\ Len(Tail(s)) = Len(s) - 1
        /\ \A i \in 1 .. Len(Tail(s)) : Tail(s)[i] = s[i + 1]
    BY HeadTailProperties, EmptySeq, LenProperties
  <1>2. /\ q \in Seq(Bytes) /\ Len(q) = Len(s) + Len(t)
        /\ \A i \in 1 .. Len(s) + Len(t) : q[i] = IF i <= Len(s) THEN s[i] ELSE t[i - Len(s)]
    BY ConcatProperties
  <1>3. /\ r \in Seq(Bytes) /\ Len(r) = Len(Tail(s)) + Len(t)
        /\ \A i \in 1 .. Len(Tail(s)) + Len(t) :
             r[i] = IF i <= Len(Tail(s)) THEN Tail(s)[i] ELSE t[i - Len(Tail(s))]
    BY <1>1, ConcatProperties
  <1>4. ASSUME NEW i \in 1 .. Len(r) PROVE i + 1 \in 1 .. Len(q) /\ r[i] = q[i + 1]
    <2>1. CASE i <= Len(Tail(s))
      BY <1>1, <1>2, <1>3, <2>1
    <2>2. CASE i > Len(Tail(s))
      <3>1. i - Len(Tail(s)) = (i + 1) - Len(s) /\ i + 1 \in 1 .. Len(s) + Len(t) /\ ~(i + 1 <= Len(s))
        BY <1>1, <1>3, <2>2
      <3> QED
        BY <1>1, <1>2, <1>3, <2>2, <3>1
    <2> QED
      BY <1>1, <1>3, <2>1, <2>2
  <1>5. Len(q) = Len(r) + 1 /\ Len(r) \in Nat /\ (r = <<>> <=> Len(r) = 0) /\ q # <<>>
    <2>1. Len(q) = Len(r) + 1 /\ Len(r) \in Nat
      BY <1>1, <1>2, <1>3
    <2>2. Len(q) # 0
      BY <2>1
    <2> HIDE DEF r, q
    <2> QED
      BY <1>2, <1>3, <2>1, <2>2, EmptySeq
  <1>6. Framed(q) /\ Whole(q) /\ q[1] = Head(s)
    BY <1>1, <1>2
  <1> HIDE DEF r, q
  <1>7. Framed(r)
    <2> SUFFICES ASSUME NEW i \in 1 .. Len(r) - 1
                 PROVE  r[i].at = "eom" <=> r[i + 1].at = "head"
      BY DEF Framed
    <2>1. i \in 1 .. Len(r) /\ i + 1 \in 1 .. Len(r) /\ i + 1 \in 1 .. Len(q) - 1
      BY <1>5
    <2> QED
      BY <1>4, <1>6, <2>1, SMTT(60) DEF Framed
  <1>8. Whole(r)
    BY <1>4, <1>5, <1>6 DEF Whole
  <1>9. Head(s).at # "eom" => r # <<>> /\ r[1].at # "head"
    <2> SUFFICES ASSUME q[1].at # "eom" PROVE Len(r) # 0 /\ r[1].at # "head"
      BY <1>5, <1>6
    <2>1. Len(r) # 0
      BY <1>5, <1>6 DEF Whole
    <2>2. 1 \in 1 .. Len(q) - 1 /\ r[1] = q[2]
      BY <1>4, <1>5, <2>1
    <2> QED
      BY <1>6, <2>1, <2>2 DEF Framed
  <1> QED
    BY <1>1, <1>6, <1>7, <1>8, <1>9 DEF r, q

\* A sequence of complete messages, or nothing.
Messages(s) ==
    s \in Seq(Bytes) /\ Framed(s) /\ Whole(s) /\ (s # <<>> => s[1].at = "head")

(* An echo and an answer are complete messages.                            *)
LEMMA SentIsMessages ==
    ASSUME echoes \in BOOLEAN,
           NEW answers \in {<<>>} \cup {Message(n, TRUE) : n \in MsgSizes}
    PROVE  Messages(Sent(answers))
  <1> DEFINE echo == IF echoes THEN Message(2, FALSE) ELSE <<>>
  <1>1. Messages(<<>>)
    BY EmptySeq DEF Messages, Framed, Whole
  <1>2. ASSUME NEW n \in Nat \ {0, 1}, NEW own \in BOOLEAN PROVE Messages(Message(n, own))
    BY <1>2, MessageIsFramed DEF Messages
  <1>3. Messages(echo)
    <2> DEFINE m == Message(2, FALSE)
    <2>1. Messages(m)
      <3>1. 2 \in Nat \ {0, 1} /\ FALSE \in BOOLEAN
        OBVIOUS
      <3> QED
        BY <3>1, MessageIsFramed DEF Messages
    <2> HIDE DEF m
    <2> QED
      BY <1>1, <2>1 DEF m
  <1>4. Messages(answers)
    <2>1. \A n \in MsgSizes : n \in Nat \ {0, 1}
      BY CivAssumption
    <2> QED
      BY <1>1, <1>2, <2>1
  <1> HIDE DEF echo
  <1>5. Messages(echo \o answers)
    BY <1>3, <1>4, MessageBehind DEF Messages
  <1> QED
    BY <1>5 DEF Sent, echo

-----------------------------------------------------------------------------
(* Type correctness                                                        *)

\* A caller that still reads has room for the next byte.
Typed == TypeOK /\ (pc = "reading" => Len(reply) < MaxReply)

(* Every step keeps the types, and the bounds of the reply and the line.   *)
LEMMA TypedStep == Typed /\ [Next]_vars => Typed'
  <1> SUFFICES ASSUME Typed, [Next]_vars PROVE Typed'
    OBVIOUS
  <1> USE DEF Typed, TypeOK, objectVars, lineVars, historyVars
  <1>1. CASE UNCHANGED vars
    BY <1>1 DEF vars
  <1>2. CASE Construct
    <2>1. reply' \in Seq(Bytes) /\ Len(reply') = 0
      BY <1>2, EmptySeq DEF Construct
    <2>2. 0 <= MaxReply
      BY CivAssumption
    <2>3. UNCHANGED <<line, coming, echoes, disturbed, lost, fault>>
      BY <1>2 DEF Construct
    <2>4. port' = "unset" /\ isOpen' = FALSE /\ inits' = "none" /\ pc' = "idle" /\ result' = "none"
      BY <1>2 DEF Construct
    <2>5. isOpen' \in BOOLEAN
      BY <2>4
    <2> QED
      BY <2>1, <2>2, <2>3, <2>4, <2>5
  <1>3. CASE InitPort
    BY <1>3 DEF InitPort, InitOutcomes, OpenAfter
  <1>4. CASE Destroy
    BY <1>4 DEF Destroy
  <1>5. CASE sendCIVCmd
    <2>1. PICK answers \in {<<>>} \cup {Message(n, TRUE) : n \in MsgSizes} :
             /\ coming' = Stale(coming) \o Sent(answers)
             /\ Len(line) + Len(coming') <= MaxLine
      BY <1>5 DEF sendCIVCmd
    <2>2. coming' \in Seq(Bytes)
      BY <2>1, StaleKeepsPlaces, SentIsMessages, ConcatProperties DEF Messages
    <2>3. line' \in Seq(Bytes) /\ Len(line') = Len(line)
      BY <1>5, StaleKeepsPlaces DEF sendCIVCmd
    <2>4. reply' = <<>> /\ reply' \in Seq(Bytes) /\ Len(reply') = 0
      BY <1>5, EmptySeq DEF sendCIVCmd
    <2>5. Len(line') + Len(coming') <= MaxLine
      BY <2>1, <2>3
    <2>6. disturbed' \in BOOLEAN
      BY <1>5 DEF sendCIVCmd
    <2>7. UNCHANGED <<port, isOpen, inits, result, echoes, lost, fault>> /\ pc' = "reading"
      BY <1>5 DEF sendCIVCmd
    <2>8. 0 <= MaxReply /\ 0 < MaxReply
      BY CivAssumption
    <2> QED
      BY <2>2, <2>3, <2>4, <2>5, <2>6, <2>7, <2>8
  <1>6. CASE sendCIVCmd_fails
    <2>1. <<>> \in Seq(Bytes) /\ Len(<<>>) = 0
      BY EmptySeq
    <2> QED
      BY <1>6, <2>1, CivAssumption DEF sendCIVCmd_fails
  <1>7. CASE UseNoPort
    BY <1>7 DEF UseNoPort
  <1>8. CASE ReadByte
    <2>1. Head(line) \in Bytes /\ Tail(line) \in Seq(Bytes) /\ Len(Tail(line)) = Len(line) - 1
      BY <1>8, HeadTailProperties DEF ReadByte
    <2>2. reply' \in Seq(Bytes) /\ Len(reply') = Len(reply) + 1 /\ Len(reply) \in Nat
      BY <1>8, <2>1, LenProperties DEF ReadByte
    <2>3. Len(reply') <= MaxReply
      BY <1>8, <2>2, CivAssumption DEF ReadByte
    <2>4. pc' = "reading" => Len(reply') # MaxReply
      BY <1>8 DEF ReadByte, EndsReply, Return
    <2>5. pc' \in {"idle", "reading"} /\ result' \in {"none", "failed", "nothing", "bytes"}
      BY <1>8 DEF ReadByte, Return
    <2>6. line' \in Seq(Bytes) /\ Len(line') + Len(coming') <= MaxLine
      BY <1>8, <2>1, LenProperties, CivAssumption DEF ReadByte
    <2>7. disturbed' \in BOOLEAN
      BY <1>8 DEF ReadByte
    <2> QED
      BY <1>8, <2>2, <2>3, <2>4, <2>5, <2>6, <2>7, CivAssumption DEF ReadByte
  <1>9. CASE ReadTimeout
    BY <1>9 DEF ReadTimeout, Return
  <1>10. CASE ReadFails
    BY <1>10 DEF ReadFails, Return
  <1>11. CASE Receive
    <2>1. line' \in Seq(Bytes) /\ coming' \in Seq(Bytes)
      BY <1>11, Arrival DEF Receive
    <2>2. Len(line') = Len(line) + 1 /\ Len(coming') = Len(coming) - 1
      BY <1>11, HeadTailProperties DEF Receive
    <2>3. Len(line) \in Nat /\ Len(coming) \in Nat
      BY LenProperties
    <2> QED
      BY <1>11, <2>1, <2>2, <2>3 DEF Receive
  <1>12. CASE Lose
    <2>1. coming' \in Seq(Bytes) /\ Len(coming') = Len(coming) - 1
      BY <1>12, HeadTailProperties DEF Lose
    <2>2. Len(line) \in Nat /\ Len(coming) \in Nat
      BY LenProperties
    <2> QED
      BY <1>12, <2>1, <2>2, CivAssumption DEF Lose
  <1>13. CASE Transceive
    <2>1. PICK n \in MsgSizes : coming' = coming \o Message(n, FALSE)
      BY <1>13 DEF Transceive
    <2>2. n \in Nat \ {0, 1}
      BY CivAssumption
    <2>3. coming' \in Seq(Bytes)
      BY <2>1, <2>2, MessageIsFramed, ConcatProperties
    <2> QED
      BY <1>13, <2>3, ZenonT(60) DEF Transceive
  <1> QED
    BY <1>1, <1>2, <1>3, <1>4, <1>5, <1>6, <1>7, <1>8, <1>9, <1>10, <1>11, <1>12, <1>13
    DEF Next, CallerStep

(* What a process begins with has its types.                               *)
LEMMA InitTyped == Init => Typed
  <1> SUFFICES ASSUME Init PROVE Typed
    OBVIOUS
  <1>1. <<>> \in Seq(Bytes) /\ Len(<<>>) = 0
    BY EmptySeq
  <1>2. reply \in Seq(Bytes) /\ Len(reply) = 0 /\ line \in Seq(Bytes) /\ Len(line) = 0
          /\ coming \in Seq(Bytes) /\ Len(coming) = 0
    BY <1>1 DEF Init
  <1>3. 0 <= MaxReply /\ 0 + 0 <= MaxLine
    BY CivAssumption
  <1>4. /\ isOpen \in BOOLEAN /\ echoes \in BOOLEAN /\ disturbed \in BOOLEAN
        /\ lost \in BOOLEAN /\ fault \in BOOLEAN
    BY Zenon DEF Init
  <1>5. port = "unset" /\ inits = "none" /\ pc = "none" /\ result = "none"
    BY <1>1 DEF Init
  <1> QED
    BY <1>2, <1>3, <1>4, <1>5 DEF Typed, TypeOK

(***************************************************************************)
(* The types hold for every size of message, reply and line: a reply never *)
(* has more bytes than readCIVReply's buffer size allows.                  *)
(***************************************************************************)
THEOREM TypeCorrect == Spec => []TypeOK
  <1>1. Typed => TypeOK
    BY DEF Typed
  <1> QED
    BY <1>1, InitTyped, TypedStep, PTL DEF Spec

-----------------------------------------------------------------------------
(* Replies and messages                                                    *)

\* What the caller may still read, in the order it will come.
Rest == line \o coming

\* A call in the middle of a reply is in the middle of a message.
MidMessage ==
    pc = "reading" /\ reply # <<>> =>
        reply[Len(reply)].at # "eom" /\ Rest # <<>> /\ Rest[1].at # "head"

\* Not known of the reply alone: what comes next goes on with what has been read.
LineFramed == ~lost => Framed(Rest) /\ Whole(Rest) /\ MidMessage /\ RepliesNeverJoin

(* Bytes at the same places are framed alike.                              *)
LEMMA SamePlaces ==
    ASSUME NEW s \in Seq(Bytes), NEW t \in Seq(Bytes),
           Framed(s \o t), Whole(s \o t)
    PROVE  /\ Stale(s) \o Stale(t) \in Seq(Bytes)
           /\ Framed(Stale(s) \o Stale(t)) /\ Whole(Stale(s) \o Stale(t))
  <1> DEFINE q == s \o t
             r == Stale(s) \o Stale(t)
  <1>1. /\ q \in Seq(Bytes) /\ Len(q) = Len(s) + Len(t)
        /\ \A i \in 1 .. Len(s) + Len(t) : q[i] = IF i <= Len(s) THEN s[i] ELSE t[i - Len(s)]
    BY ConcatProperties
  <1>2. /\ Stale(s) \in Seq(Bytes) /\ Len(Stale(s)) = Len(s)
        /\ Stale(t) \in Seq(Bytes) /\ Len(Stale(t)) = Len(t)
        /\ Len(s) \in Nat /\ Len(t) \in Nat
    BY StaleKeepsPlaces, LenProperties
  <1>3. /\ r \in Seq(Bytes) /\ Len(r) = Len(s) + Len(t)
        /\ \A i \in 1 .. Len(s) + Len(t) :
             r[i] = IF i <= Len(s) THEN Stale(s)[i] ELSE Stale(t)[i - Len(s)]
    <2> DEFINE ss == Stale(s)
               tt == Stale(t)
    <2> HIDE DEF ss, tt
    <2>1. /\ ss \o tt \in Seq(Bytes) /\ Len(ss \o tt) = Len(ss) + Len(tt)
          /\ \A i \in 1 .. Len(ss) + Len(tt) :
               (ss \o tt)[i] = IF i <= Len(ss) THEN ss[i] ELSE tt[i - Len(ss)]
      BY <1>2, ConcatProperties DEF ss, tt
    <2> QED
      BY <1>2, <2>1 DEF ss, tt
  <1>4. ASSUME NEW i \in 1 .. Len(r) PROVE i \in 1 .. Len(q) /\ r[i].at = q[i].at
    <2>1. CASE i <= Len(s)
      BY <1>1, <1>2, <1>3, <2>1, StaleKeepsPlaces
    <2>2. CASE i > Len(s)
      <3>1. i - Len(s) \in 1 .. Len(t)
        BY <1>2, <1>3, <2>2
      <3>2. Stale(t)[i - Len(s)].at = t[i - Len(s)].at
        BY <3>1, StaleKeepsPlaces
      <3> QED
        BY <1>1, <1>2, <1>3, <2>2, <3>2
    <2> QED
      BY <1>2, <1>3, <2>1, <2>2
  <1>5. Len(r) = Len(q) /\ Len(r) \in Nat /\ (r = <<>> <=> Len(r) = 0) /\ (q = <<>> <=> Len(q) = 0)
    <2>1. Len(r) = Len(q) /\ Len(r) \in Nat
      BY <1>1, <1>2, <1>3
    <2> HIDE DEF r, q
    <2> QED
      BY <1>1, <1>3, <2>1, EmptySeq
  <1>6. Framed(q) /\ Whole(q)
    OBVIOUS
  <1> HIDE DEF r, q
  <1>7. Framed(r)
    <2> SUFFICES ASSUME NEW i \in 1 .. Len(r) - 1
                 PROVE  r[i].at = "eom" <=> r[i + 1].at = "head"
      BY DEF Framed
    <2>1. i \in 1 .. Len(r) /\ i + 1 \in 1 .. Len(r) /\ i \in 1 .. Len(q) - 1
      BY <1>5
    <2> QED
      BY <1>4, <1>6, <2>1 DEF Framed
  <1>8. Whole(r)
    BY <1>4, <1>5, <1>6 DEF Whole
  <1> QED
    BY <1>3, <1>7, <1>8 DEF r

(* Every step keeps the line framed, and the reply within one message.     *)
LEMMA FramedStep == Typed /\ LineFramed /\ [Next]_vars => LineFramed'
  <1> SUFFICES ASSUME Typed, LineFramed, [Next]_vars, ~lost'
               PROVE  Framed(Rest') /\ Whole(Rest') /\ MidMessage' /\ RepliesNeverJoin'
    BY DEF LineFramed
  <1>1. /\ line \in Seq(Bytes) /\ coming \in Seq(Bytes) /\ Rest \in Seq(Bytes)
        /\ reply \in Seq(Bytes) /\ echoes \in BOOLEAN
    BY ConcatProperties DEF Typed, TypeOK, Rest
  <1>2. ~lost
    BY DEF Next, CallerStep, vars, historyVars, Construct, InitPort, Destroy, sendCIVCmd,
           sendCIVCmd_fails, UseNoPort, ReadByte, ReadTimeout, ReadFails, Receive, Lose,
           Transceive
  <1>3. Framed(Rest) /\ Whole(Rest) /\ MidMessage /\ RepliesNeverJoin
    BY <1>2 DEF LineFramed
  <1>4. ASSUME reply' = <<>>, Rest' = Rest
        PROVE  Framed(Rest') /\ Whole(Rest') /\ MidMessage' /\ RepliesNeverJoin'
    <2>1. \A i \in DOMAIN reply' \ {1} : FALSE
      BY <1>4, EmptySeq
    <2> QED
      BY <1>3, <1>4, <2>1 DEF MidMessage, RepliesNeverJoin
  <1>5. ASSUME reply' = reply, Rest' = Rest, pc' = "reading" => pc = "reading"
        PROVE  Framed(Rest') /\ Whole(Rest') /\ MidMessage' /\ RepliesNeverJoin'
    BY <1>2, <1>3, <1>5 DEF MidMessage, RepliesNeverJoin
  <1>6. CASE UNCHANGED vars
    BY <1>5, <1>6 DEF vars, lineVars, Rest
  <1>7. CASE Construct
    BY <1>4, <1>7 DEF Construct, lineVars, Rest
  <1>8. CASE InitPort \/ Destroy \/ UseNoPort
    BY <1>5, <1>8 DEF InitPort, Destroy, UseNoPort, lineVars, Rest
  <1>9. CASE sendCIVCmd_fails
    BY <1>4, <1>9 DEF sendCIVCmd_fails, lineVars, Rest
  <1>10. CASE ReadTimeout \/ ReadFails
    BY <1>5, <1>10 DEF ReadTimeout, ReadFails, Return, lineVars, Rest
  <1>11. CASE sendCIVCmd
    <2>1. PICK answers \in {<<>>} \cup {Message(n, TRUE) : n \in MsgSizes} :
             coming' = Stale(coming) \o Sent(answers)
      BY <1>11 DEF sendCIVCmd
    <2> DEFINE sent == Sent(answers)
               left == Stale(line) \o Stale(coming)
    <2>2. Messages(sent)
      BY <1>1, SentIsMessages
    <2>3. left \in Seq(Bytes) /\ Framed(left) /\ Whole(left)
      BY <1>1, <1>3, SamePlaces DEF Rest
    <2>4. Rest' = left \o sent
      <3>1. Rest' = Stale(line) \o (Stale(coming) \o sent)
        BY <1>11, <2>1 DEF sendCIVCmd, Rest
      <3>2. Stale(line) \in Seq(Bytes) /\ Stale(coming) \in Seq(Bytes) /\ sent \in Seq(Bytes)
        BY <1>1, <2>2, StaleKeepsPlaces DEF Messages
      <3> HIDE DEF sent
      <3> QED
        BY <3>1, <3>2, ConcatAssociative, SMTT(60)
    <2> HIDE DEF sent, left
    <2>5. Framed(Rest') /\ Whole(Rest')
      BY <2>2, <2>3, <2>4, MessageBehind DEF Messages
    <2>6. reply' = <<>>
      BY <1>11 DEF sendCIVCmd
    <2>7. \A i \in DOMAIN reply' \ {1} : FALSE
      BY <2>6, EmptySeq
    <2> QED
      BY <2>5, <2>6, <2>7 DEF MidMessage, RepliesNeverJoin
  <1>12. CASE Transceive
    <2>1. PICK n \in MsgSizes : coming' = coming \o Message(n, FALSE)
      BY <1>12 DEF Transceive
    <2> DEFINE m == Message(n, FALSE)
    <2>2. m \in Seq(Bytes) /\ m # <<>> /\ m[1].at = "head" /\ Framed(m) /\ Whole(m)
      <3>1. n \in Nat \ {0, 1} /\ FALSE \in BOOLEAN
        BY CivAssumption
      <3> QED
        BY <3>1, MessageIsFramed
    <2>3. UNCHANGED <<pc, reply, line>>
      BY <1>12 DEF Transceive
    <2> HIDE DEF m
    <2>4. Rest' = Rest \o m
      <3>1. Rest' = line \o (coming \o m)
        BY <2>1, <2>3 DEF Rest, m
      <3>2. line \in Seq(Bytes) /\ coming \in Seq(Bytes) /\ m \in Seq(Bytes)
        BY <1>1, <2>2
      <3>3. (line \o coming) \o m = line \o (coming \o m)
        BY <3>2, ConcatAssociative
      <3> QED
        BY <3>1, <3>3 DEF Rest
    <2>5. /\ Framed(Rest') /\ Whole(Rest')
          /\ Rest # <<>> => Rest' # <<>> /\ Rest'[1] = Rest[1]
      BY <1>1, <1>3, <2>2, <2>4, MessageBehind
    <2> QED
      BY <1>2, <1>3, <2>3, <2>5 DEF MidMessage, RepliesNeverJoin
  <1>13. CASE Receive
    <2>1. Rest' = Rest
      BY <1>1, <1>13, Arrival DEF Receive, Rest
    <2> QED
      BY <1>5, <1>13, <2>1 DEF Receive
  <1>14. CASE ReadByte
    <2>1. /\ Head(line) \in Bytes /\ Head(line) = Rest[1]
          /\ Framed(Rest') /\ Whole(Rest')
          /\ Head(line).at # "eom" => Rest' # <<>> /\ Rest'[1].at # "head"
      BY <1>1, <1>3, <1>14, FirstTaken DEF ReadByte, Rest
    <2>2. /\ Len(reply) \in Nat
          /\ Len(reply') = Len(reply) + 1
          /\ reply'[Len(reply) + 1] = Head(line)
          /\ \A i \in 1 .. Len(reply) : reply'[i] = reply[i]
          /\ DOMAIN reply' = 1 .. Len(reply) + 1 /\ DOMAIN reply = 1 .. Len(reply)
          /\ reply = <<>> <=> Len(reply) = 0
      BY <1>1, <1>14, <2>1, EmptySeq, LenProperties DEF ReadByte
    <2>3. MidMessage'
      <3>1. pc' = "reading" => Head(line).at # "eom"
        BY <1>14 DEF ReadByte, EndsReply, Return
      <3> QED
        BY <2>1, <2>2, <3>1 DEF MidMessage
    <2>4. RepliesNeverJoin'
      <3> SUFFICES ASSUME NEW i \in DOMAIN reply' \ {1}
                   PROVE  reply'[i].at # "head" /\ reply'[i - 1].at # "eom"
        BY DEF RepliesNeverJoin
      <3>1. CASE i <= Len(reply)
        <4>1. i \in DOMAIN reply \ {1} /\ i \in 1 .. Len(reply) /\ i - 1 \in 1 .. Len(reply)
          BY <2>2, <3>1
        <4> QED
          BY <1>2, <1>3, <2>2, <4>1 DEF RepliesNeverJoin
      <3>2. CASE i = Len(reply) + 1
        <4>1. reply # <<>> /\ i - 1 = Len(reply) /\ Len(reply) \in 1 .. Len(reply)
          BY <2>2, <3>2
        <4>2. reply[Len(reply)].at # "eom" /\ Rest[1].at # "head"
          BY <1>3, <1>14, <4>1 DEF MidMessage, ReadByte
        <4> QED
          BY <2>1, <2>2, <3>2, <4>1, <4>2
      <3> QED
        BY <2>2, <3>1, <3>2
    <2> QED
      BY <2>1, <2>3, <2>4
  <1>15. CASE Lose
    BY <1>15 DEF Lose
  <1> QED
    BY <1>6, <1>7, <1>8, <1>9, <1>10, <1>11, <1>12, <1>13, <1>14, <1>15 DEF Next, CallerStep

(***************************************************************************)
(* For every size of message, reply and line: while the line loses no      *)
(* byte, readCIVReply never runs from one message into the next, whatever  *)
(* pieces the bytes come in and wherever earlier calls gave up.            *)
(***************************************************************************)
THEOREM RepliesFramed == Spec => []RepliesNeverJoin
  <1>1. Init => Typed /\ LineFramed
    <2> SUFFICES ASSUME Init PROVE Typed /\ LineFramed
      OBVIOUS
    <2>1. Typed
      BY InitTyped
    <2>2. Rest = <<>> /\ reply = <<>>
      BY ConcatEmptySeq, EmptySeq DEF Init, Rest
    <2>3. Framed(<<>>) /\ Whole(<<>>)
      BY EmptySeq DEF Framed, Whole
    <2>4. \A i \in DOMAIN reply \ {1} : FALSE
      BY <2>2, EmptySeq
    <2> QED
      BY <2>1, <2>2, <2>3, <2>4 DEF LineFramed, MidMessage, RepliesNeverJoin
  <1>2. Typed /\ LineFramed => RepliesNeverJoin
    BY DEF LineFramed, RepliesNeverJoin
  <1> QED
    BY <1>1, <1>2, TypedStep, FramedStep, PTL DEF Spec

-----------------------------------------------------------------------------
(* The life of an object                                                   *)

\* What the number of calls of init, and how they ended, say of the port.
ObjectInv ==
    /\ inits = "none" => port = "unset"
    /\ inits \in {"none", "failed"} => ~isOpen
    /\ inits = "ok" => port = "valid"
    /\ isOpen => port = "valid" \/ inits = "again"
    /\ fault => inits # "ok"

(* Every step keeps it, a first init above all.                            *)
LEMMA ObjectStep == Typed /\ ObjectInv /\ [Next]_vars => ObjectInv'
  <1> SUFFICES ASSUME Typed, ObjectInv, [Next]_vars PROVE ObjectInv'
    OBVIOUS
  <1>1. isOpen \in BOOLEAN /\ inits \in {"none", "ok", "failed", "again"}
    BY DEF Typed, TypeOK
  <1>2. ASSUME UNCHANGED <<port, isOpen, inits, fault>> PROVE ObjectInv'
    BY <1>2 DEF ObjectInv
  <1>3. CASE Construct
    BY <1>3 DEF Construct, ObjectInv
  <1>4. CASE InitPort /\ ~fault
    <2>1. PICK outcome \in InitOutcomes, opened \in BOOLEAN :
             /\ opened => outcome = "valid"
             /\ outcome = "valid" => opened \/ port = "valid"
             /\ port' = outcome
             /\ isOpen' = (isOpen \/ opened)
             /\ inits' = IF inits # "none" THEN "again" ELSE IF opened THEN "ok" ELSE "failed"
      BY <1>4 DEF InitPort, OpenAfter
    <2>2. ~fault'
      BY <1>4 DEF InitPort
    <2>3. CASE inits = "none"
      BY <2>1, <2>2, <2>3 DEF ObjectInv
    <2>4. CASE inits # "none"
      BY <2>1, <2>2, <2>4 DEF ObjectInv
    <2> QED
      BY <2>3, <2>4
  <1>5. CASE Destroy
    BY <1>5 DEF Destroy, ObjectInv, objectVars
  <1>6. CASE UseNoPort
    BY <1>6 DEF UseNoPort, ObjectInv, objectVars
  <1>7. CASE sendCIVCmd \/ sendCIVCmd_fails \/ CallerStep \/ ReadFails \/ Receive \/ Lose \/ Transceive
    BY <1>2, <1>7 DEF sendCIVCmd, sendCIVCmd_fails, CallerStep, ReadByte, ReadTimeout, ReadFails,
       Receive, Lose, Transceive, objectVars
  <1>8. CASE UNCHANGED vars
    BY <1>2, <1>8 DEF vars, objectVars
  <1> QED
    BY <1>3, <1>4, <1>5, <1>6, <1>7, <1>8 DEF Next

(***************************************************************************)
(* In every life of an IcomCIVPort: while it says it is open it has a port,*)
(* unless init has been called again, and one whose only init went well    *)
(* comes to no harm, in a call or in the destructor.                       *)
(***************************************************************************)
THEOREM OpenIsUsable == Spec => []OpenMeansUsable
  <1>1. Init => ObjectInv
    BY DEF Init, ObjectInv
  <1>2. ObjectInv => OpenMeansUsable
    BY DEF ObjectInv, OpenMeansUsable
  <1> QED
    BY <1>1, <1>2, InitTyped, TypedStep, ObjectStep, PTL DEF Spec

-----------------------------------------------------------------------------
(* Whose answer                                                            *)

OwnAnswer(n) == Message(n, TRUE)

\* The first l of s are the part of an answer of n bytes that lies behind its first k.
Part(s, l, n, k) == \A i \in 1 .. l : k + i <= n /\ s[i] = OwnAnswer(n)[k + i]

\* One answer of n bytes, part of it read, part received and part under way.
Answer(n) ==
    /\ (Len(reply) + Len(line)) + Len(coming) = n
    /\ Part(reply, Len(reply), n, 0)
    /\ Part(line, Len(line), n, Len(reply))
    /\ Part(coming, Len(coming), n, Len(reply) + Len(line))

Silence == Len(reply) = 0 /\ Len(line) = 0 /\ Len(coming) = 0

\* An undisturbed line holds nothing but the answer that is waited for.
AnswerInv ==
    ~disturbed =>
        /\ pc # "reading" => Len(line) = 0 /\ Len(coming) = 0
        /\ pc = "reading" => Silence \/ \E n \in MsgSizes : Answer(n)
        /\ pc = "idle" /\ result = "bytes" => \E n \in MsgSizes : Answer(n)

LEMMA AnswerBytes ==
    ASSUME NEW n \in MsgSizes
    PROVE  /\ n \in Nat /\ n >= 2
           /\ OwnAnswer(n) \in Seq(Bytes) /\ Len(OwnAnswer(n)) = n
           /\ \A i \in 1 .. n : OwnAnswer(n)[i].own = TRUE
           /\ \A i \in 1 .. n : OwnAnswer(n)[i].at = "head" <=> i = 1
           /\ \A i \in 1 .. n : OwnAnswer(n)[i].at = "eom" <=> i = n
  <1>1. n \in Nat /\ n >= 2
    BY CivAssumption
  <1> DEFINE byte(i) == [at |-> IF i = 1 THEN "head" ELSE IF i = n THEN "eom" ELSE "body",
                         own |-> TRUE]
  <1>2. OwnAnswer(n) = [i \in 1 .. n |-> byte(i)]
    BY DEF OwnAnswer, Message
  <1>3. \A i \in 1 .. n : byte(i) \in Bytes
    BY DEF Bytes
  <1>4. /\ \A i \in 1 .. n : byte(i).own = TRUE
        /\ \A i \in 1 .. n : byte(i).at = "head" <=> i = 1
        /\ \A i \in 1 .. n : byte(i).at = "eom" <=> i = n
    BY <1>1
  <1> HIDE DEF byte
  <1>5. OwnAnswer(n) \in Seq(Bytes) /\ Len(OwnAnswer(n)) = n
    BY <1>1, <1>2, <1>3
  <1>6. \A i \in 1 .. n : OwnAnswer(n)[i] = byte(i)
    BY <1>2
  <1> QED
    BY <1>1, <1>4, <1>5, <1>6

\* The first of q bytes goes from the head of t to the end of p bytes of s.
Moved(s, p, t, q, s2, t2) ==
    /\ q # 0
    /\ \A i \in 1 .. p : s2[i] = s[i]
    /\ s2[p + 1] = t[1]
    /\ \A i \in 1 .. q - 1 : t2[i] = t[i + 1]

(* Each then remains its part of the answer.                               *)
LEMMA ByteMoves ==
    ASSUME NEW n \in Nat, NEW k \in Nat, NEW p \in Nat, NEW q \in Nat,
           NEW s, NEW t, NEW s2, NEW t2,
           Moved(s, p, t, q, s2, t2), Part(s, p, n, k), Part(t, q, n, k + p)
    PROVE  /\ Part(s2, p + 1, n, k) /\ Part(t2, q - 1, n, k + (p + 1))
           /\ (k + p) + 1 <= n /\ t[1] = OwnAnswer(n)[(k + p) + 1]
  <1>1. 1 \in 1 .. q /\ (k + p) + 1 = k + (p + 1)
    BY DEF Moved
  <1>2. (k + p) + 1 <= n /\ t[1] = OwnAnswer(n)[(k + p) + 1]
    BY <1>1 DEF Part
  <1>3. Part(s2, p + 1, n, k)
    <2> SUFFICES ASSUME NEW i \in 1 .. p + 1
                 PROVE  k + i <= n /\ s2[i] = OwnAnswer(n)[k + i]
      BY DEF Part
    <2>1. CASE i = p + 1
      BY <1>1, <1>2, <2>1 DEF Moved
    <2>2. CASE i \in 1 .. p
      BY <2>2 DEF Part, Moved
    <2>3. i = p + 1 \/ i \in 1 .. p
      OBVIOUS
    <2> QED
      BY <2>1, <2>2, <2>3
  <1>4. Part(t2, q - 1, n, k + (p + 1))
    <2> SUFFICES ASSUME NEW i \in 1 .. q - 1
                 PROVE  (k + (p + 1)) + i <= n /\ t2[i] = OwnAnswer(n)[(k + (p + 1)) + i]
      BY DEF Part
    <2>1. i + 1 \in 1 .. q /\ (k + (p + 1)) + i = (k + p) + (i + 1)
      OBVIOUS
    <2>2. (k + p) + (i + 1) <= n /\ t[i + 1] = OwnAnswer(n)[(k + p) + (i + 1)]
      BY <2>1 DEF Part
    <2> QED
      BY <2>1, <2>2 DEF Moved
  <1> QED
    BY <1>2, <1>3, <1>4

\* On an undisturbed line a command is followed by its whole answer, or by nothing.
LEMMA AnswerSent ==
    ASSUME Typed, AnswerInv, sendCIVCmd
    PROVE  AnswerInv'
  <1> SUFFICES ASSUME ~disturbed' PROVE AnswerInv'
    BY DEF AnswerInv
  <1>1. ~disturbed /\ ~echoes /\ pc = "idle" /\ pc' = "reading"
    BY DEF sendCIVCmd, Typed, TypeOK
  <1>2. line = <<>> /\ coming = <<>>
    BY <1>1, EmptySeq DEF AnswerInv, Typed, TypeOK
  <1>3. Stale(<<>>) = <<>>
    <2>1. Stale(<<>>) \in Seq(Bytes) /\ Len(Stale(<<>>)) = 0
      BY StaleKeepsPlaces, EmptySeq
    <2> QED
      BY <2>1, EmptySeq
  <1>4. reply' = <<>> /\ line' = <<>>
    BY <1>2, <1>3 DEF sendCIVCmd
  <1>5. PICK answers \in {<<>>} \cup {OwnAnswer(n) : n \in MsgSizes} :
          coming' = <<>> \o (<<>> \o answers)
    BY <1>1, <1>2, <1>3 DEF sendCIVCmd, Sent, OwnAnswer
  <1>6. Len(<<>>) = 0
    OBVIOUS
  <1>7. CASE answers = <<>>
    <2>1. coming' = <<>>
      BY <1>5, <1>7
    <2> QED
      BY <1>1, <1>4, <1>6, <2>1 DEF AnswerInv, Silence
  <1>8. CASE \E n \in MsgSizes : answers = OwnAnswer(n)
    <2>1. PICK n \in MsgSizes : answers = OwnAnswer(n)
      BY <1>8
    <2>2. answers \in Seq(Bytes)
      BY <2>1, AnswerBytes
    <2>3. coming' = OwnAnswer(n)
      BY <1>5, <2>1, <2>2, ConcatEmptySeq
    <2>4. Len(reply') = 0 /\ Len(line') = 0 /\ Len(coming') = n /\ n \in Nat
      BY <1>4, <1>6, <2>3, AnswerBytes
    <2>5. Part(reply, Len(reply), n, 0)' /\ Part(line, Len(line), n, Len(reply))'
      BY <2>4 DEF Part
    <2>6. Part(coming', n, n, 0 + 0)
      BY <2>3, <2>4 DEF Part
    <2>7. Answer(n)'
      BY <2>4, <2>5, <2>6 DEF Answer
    <2> QED
      BY <1>1, <2>7 DEF AnswerInv
  <1> QED
    BY <1>5, <1>7, <1>8

\* The last byte of an answer is its end, and nothing is left behind it.
LEMMA AnswerRead ==
    ASSUME Typed, AnswerInv, ReadByte
    PROVE  AnswerInv'
  <1> SUFFICES ASSUME ~disturbed' PROVE AnswerInv'
    BY DEF AnswerInv
  <1> DEFINE p == Len(reply)
             q == Len(line)
             r == Len(coming)
  <1>1. ~disturbed /\ pc = "reading" /\ line # <<>> /\ coming' = coming
    BY DEF ReadByte, Typed, TypeOK
  <1>2. /\ reply \in Seq(Bytes) /\ line \in Seq(Bytes) /\ coming \in Seq(Bytes)
        /\ p \in Nat /\ q \in Nat /\ r \in Nat /\ q # 0
    BY <1>1, LenProperties, EmptySeq DEF Typed, TypeOK
  <1>3. /\ Head(line) = line[1] /\ Head(line) \in Bytes
        /\ Len(line') = q - 1
        /\ \A i \in 1 .. q - 1 : line'[i] = line[i + 1]
    BY <1>1, <1>2, HeadTailProperties DEF ReadByte
  <1>4. /\ Len(reply') = p + 1
        /\ \A i \in 1 .. p : reply'[i] = reply[i]
        /\ reply'[p + 1] = line[1]
    BY <1>2, <1>3 DEF ReadByte
  <1>5. PICK n \in MsgSizes : Answer(n)
    BY <1>1, <1>2 DEF AnswerInv, Silence
  <1>6. /\ (p + q) + r = n /\ Part(reply, p, n, 0) /\ Part(line, q, n, p)
        /\ Part(coming, r, n, p + q)
    BY <1>5 DEF Answer
  <1> HIDE DEF p, q, r
  <1>7. n \in Nat
    BY AnswerBytes
  <1>8. /\ Part(reply', p + 1, n, 0) /\ Part(line', q - 1, n, 0 + (p + 1))
        /\ (0 + p) + 1 <= n /\ line[1] = OwnAnswer(n)[(0 + p) + 1]
    <2>1. 0 \in Nat /\ 0 + p = p
      BY <1>2
    <2>2. Part(line, q, n, 0 + p)
      BY <1>6, <2>1
    <2>3. Moved(reply, p, line, q, reply', line')
      BY <1>2, <1>3, <1>4 DEF Moved
    <2>4. Part(reply, p, n, 0) /\ p \in Nat /\ q \in Nat
      BY <1>2, <1>6
    <2> QED
      BY <1>7, <2>1, <2>2, <2>3, <2>4, ByteMoves
  <1>9. Answer(n)'
    <2>1. 0 + (p + 1) = p + 1 /\ (p + 1) + (q - 1) = p + q
      BY <1>2
    <2>2. Part(line', q - 1, n, p + 1)
      BY <1>8, <2>1
    <2>3. Part(coming', r, n, (p + 1) + (q - 1)) /\ Len(coming') = r
      BY <1>1, <1>6, <2>1 DEF r
    <2>4. ((p + 1) + (q - 1)) + r = n
      BY <1>6, <2>1
    <2> QED
      BY <1>3, <1>4, <1>8, <2>2, <2>3, <2>4 DEF Answer
  <1>10. CASE pc' = "reading"
    BY <1>9, <1>10 DEF AnswerInv
  <1>11. CASE pc' # "reading"
    <2>1. EndsReply(Head(line), Len(reply'))
      BY <1>1, <1>11 DEF ReadByte
    <2>2. Head(line).at = "eom"
      BY <2>1 DEF ReadByte, EndsReply
    <2>3. p + 1 \in 1 .. n /\ OwnAnswer(n)[p + 1].at = "eom"
      <3>1. (0 + p) + 1 = p + 1 /\ p + 1 >= 1
        BY <1>2
      <3> QED
        BY <1>2, <1>3, <1>7, <1>8, <2>2, <3>1
    <2>4. p + 1 = n
      BY <2>3, AnswerBytes
    <2>5. Len(line') = 0 /\ Len(coming') = 0
      BY <1>1, <1>2, <1>3, <1>6, <2>4 DEF r
    <2> QED
      BY <1>9, <1>11, <2>5 DEF AnswerInv
  <1> QED
    BY <1>10, <1>11

LEMMA AnswerReceived ==
    ASSUME Typed, AnswerInv, Receive
    PROVE  AnswerInv'
  <1> SUFFICES ASSUME ~disturbed' PROVE AnswerInv'
    BY DEF AnswerInv
  <1> DEFINE k == Len(reply)
             p == Len(line)
             q == Len(coming)
  <1>1. ~disturbed /\ coming # <<>> /\ UNCHANGED <<pc, reply, result>>
    BY DEF Receive, historyVars
  <1>2. /\ reply \in Seq(Bytes) /\ line \in Seq(Bytes) /\ coming \in Seq(Bytes)
        /\ k \in Nat /\ p \in Nat /\ q \in Nat /\ q # 0
    BY <1>1, LenProperties, EmptySeq DEF Typed, TypeOK
  <1>3. /\ Head(coming) = coming[1] /\ Head(coming) \in Bytes
        /\ Len(coming') = q - 1
        /\ \A i \in 1 .. q - 1 : coming'[i] = coming[i + 1]
    BY <1>1, <1>2, HeadTailProperties DEF Receive
  <1>4. /\ Len(line') = p + 1
        /\ \A i \in 1 .. p : line'[i] = line[i]
        /\ line'[p + 1] = coming[1]
    BY <1>2, <1>3 DEF Receive
  <1>5. pc = "reading"
    BY <1>1, <1>2 DEF AnswerInv
  <1>6. PICK n \in MsgSizes : Answer(n)
    BY <1>1, <1>2, <1>5 DEF AnswerInv, Silence
  <1>7. /\ (k + p) + q = n /\ Part(reply, k, n, 0) /\ Part(line, p, n, k)
        /\ Part(coming, q, n, k + p) /\ Len(reply') = k
    BY <1>1, <1>6 DEF Answer
  <1> HIDE DEF k, p, q
  <1>8. n \in Nat
    BY AnswerBytes
  <1>9. Part(line', p + 1, n, k) /\ Part(coming', q - 1, n, k + (p + 1))
    <2>1. Moved(line, p, coming, q, line', coming')
      BY <1>2, <1>3, <1>4 DEF Moved
    <2> QED
      BY <1>2, <1>7, <1>8, <2>1, ByteMoves
  <1>10. (k + (p + 1)) + (q - 1) = n
    BY <1>2, <1>7
  <1>11. Answer(n)'
    BY <1>1, <1>3, <1>4, <1>7, <1>9, <1>10 DEF Answer
  <1> QED
    BY <1>1, <1>5, <1>11 DEF AnswerInv

LEMMA AnswerStep == Typed /\ AnswerInv /\ [Next]_vars => AnswerInv'
  <1> SUFFICES ASSUME Typed, AnswerInv, [Next]_vars PROVE AnswerInv'
    OBVIOUS
  <1>1. CASE sendCIVCmd \/ ReadByte \/ Receive
    BY <1>1, AnswerSent, AnswerRead, AnswerReceived
  <1>2. CASE ReadTimeout \/ ReadFails \/ Lose \/ Transceive
    BY <1>2 DEF ReadTimeout, ReadFails, Lose, Transceive, AnswerInv
  <1>3. CASE Construct \/ sendCIVCmd_fails
    BY <1>3 DEF Construct, sendCIVCmd_fails, AnswerInv, lineVars, historyVars
  <1>4. CASE InitPort \/ Destroy \/ UseNoPort \/ UNCHANGED vars
    <2>1. /\ UNCHANGED <<reply, result, line, coming, disturbed>>
          /\ pc' # "reading" \/ pc' = pc
          /\ pc' = "idle" => pc = "idle"
          /\ pc = "reading" => pc' = "reading"
      BY <1>4 DEF InitPort, Destroy, UseNoPort, vars, lineVars, historyVars
    <2>2. \A n : Answer(n) => Answer(n)'
      BY <2>1 DEF Answer, Part
    <2> QED
      BY <2>1, <2>2 DEF AnswerInv, Silence
  <1> QED
    BY <1>1, <1>2, <1>3, <1>4 DEF Next, CallerStep

(***************************************************************************)
(* For any sizes of message, buffer and line: until something but the      *)
(* answers waited for has been on the line, a call that returns bytes      *)
(* returns the whole answer to its command and nothing else.               *)
(***************************************************************************)
THEOREM AnswersOwn == Spec => []AnswersAreOwn
  <1>1. Init => AnswerInv
    BY EmptySeq DEF Init, AnswerInv
  <1>2. Typed /\ AnswerInv => AnswersAreOwn
    <2> SUFFICES ASSUME Typed, AnswerInv, ~disturbed, pc = "idle", result = "bytes"
                 PROVE  /\ \A i \in DOMAIN reply : reply[i].own
                        /\ reply # <<>> /\ reply[1].at = "head" /\ reply[Len(reply)].at = "eom"
      BY DEF AnswersAreOwn
    <2>1. PICK n \in MsgSizes : Answer(n)
      BY DEF AnswerInv
    <2>2. reply \in Seq(Bytes) /\ Len(reply) \in Nat
      BY LenProperties DEF Typed, TypeOK
    <2>3. n \in Nat /\ n >= 2 /\ Len(reply) = n
      <3>1. Len(line) = 0 /\ Len(coming) = 0
        BY DEF AnswerInv
      <3>2. (Len(reply) + Len(line)) + Len(coming) = n
        BY <2>1 DEF Answer
      <3> QED
        <4>1. n \in Nat /\ n >= 2
          BY AnswerBytes
        <4> QED
          BY <2>2, <3>1, <3>2, <4>1
    <2>4. DOMAIN reply = 1 .. n /\ reply # <<>>
      BY <2>2, <2>3, LenProperties, EmptySeq
    <2>5. \A i \in 1 .. n : reply[i] = OwnAnswer(n)[i]
      <3>1. Part(reply, n, n, 0)
        BY <2>1, <2>3 DEF Answer
      <3> QED
        BY <2>3, <3>1 DEF Part
    <2>6. 1 \in 1 .. n /\ n \in 1 .. n
      BY <2>3
    <2>7. \A i \in DOMAIN reply : reply[i].own
      <3>1. \A i \in DOMAIN reply : reply[i].own = TRUE
        BY <2>4, <2>5, AnswerBytes
      <3> QED
        BY <3>1
    <2>8. reply[1].at = "head" /\ reply[Len(reply)].at = "eom"
      <3>1. OwnAnswer(n)[1].at = "head" /\ OwnAnswer(n)[n].at = "eom"
        BY <2>6, AnswerBytes
      <3>2. reply[1] = OwnAnswer(n)[1] /\ reply[n] = OwnAnswer(n)[n]
        BY <2>5, <2>6
      <3> QED
        BY <2>3, <3>1, <3>2
    <2> QED
      BY <2>4, <2>7, <2>8
  <1> QED
    BY <1>1, <1>2, InitTyped, TypedStep, AnswerStep, PTL DEF Spec
=============================================================================
