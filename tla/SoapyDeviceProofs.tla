------------------------- MODULE SoapyDeviceProofs -------------------------
(***************************************************************************)
(* Proofs about SoapyDevice, for any threads, frequencies and antennas:    *)
(* what the object keeps of the radio is true, as far as the module states *)
(* it.  Until replies are confused one exchange is under way at most, and  *)
(* what the radio has done is known from the answer that waits to be read; *)
(* whatever the object keeps is then true, or about to be overwritten by   *)
(* that answer.                                                            *)
(***************************************************************************)
EXTENDS SoapyDevice, TLAPS

Streaming == {"enable", "stop", "disable"}

\* The radio has carried out the command of t, which has yet to read so.
Understood(t) == pc[t] = "reply" /\ answer[t] \in {"ack", "echo"}

\* One exchange at a time, and each is answered.
Orderly ==
    /\ \A t, u \in Threads : pc[t] \in {"sent", "reply"} /\ pc[u] \in {"sent", "reply"} => t = u
    /\ \A t \in Threads : pc[t] = "reply" => answer[t] # "none"

CarriedOut ==
    \A t \in Threads : Understood(t) =>
        /\ call[t].op = "frequency" => call[t].to \in Frequencies /\ tuned = Whole[call[t].to]
        /\ call[t].op = "antenna" => selected = call[t].to
        /\ call[t].op = "enable" => source = Source
        /\ call[t].op \in {"stop", "disable"} => source = "off"

\* No thread is about to overwrite what these commands set.
Settled(ops) == \A t \in Threads : Understood(t) => call[t].op \notin ops

FrequencyKept ==
    made /\ "frequency" \notin doubt /\ Settled({"frequency"})
      => frequency \in Frequencies /\ Whole[frequency] = tuned

AntennaKept ==
    made /\ "antenna" \notin doubt /\ Settled({"antenna"}) => antenna \in {selected, "RX"}

FlagKept ==
    made /\ enabled /\ "stream" \notin doubt /\ Settled(Streaming) => source = Source

Kept == FrequencyKept /\ AntennaKept /\ FlagKept

\* Reads that wait during a deactivation began after its abort.
WaitsAreLate == Deactivating => \A t \in Threads : pc[t] = "wait" => late[t]

InUse == \A t \in Threads : pc[t] # "idle" => made

-----------------------------------------------------------------------------
(* Types                                                                   *)

LEMMA WholeKnown ==
    /\ \A f \in Frequencies : Whole[f] \in WholeHertz
    /\ \A f \in WholeHertz : f \in Frequencies /\ Whole[f] = f
  BY SoapyAssumption DEF WholeHertz

LEMMA CallsKnown ==
    /\ {Enable, Stop, Disable} \subseteq Calls
    /\ \A f \in Frequencies : [op |-> "frequency", to |-> f] \in Calls
    /\ \A a \in Antennas : [op |-> "antenna", to |-> a] \in Calls
  BY DEF Calls, Enable, Stop, Disable

LEMMA CallParts ==
    ASSUME NEW k \in Calls
    PROVE  \/ k.op = "frequency" /\ k.to \in Frequencies
           \/ k.op = "antenna" /\ k.to \in Antennas
           \/ k.op \in Streaming
  <1>1. CASE k \in [op : {"frequency"}, to : Frequencies]
    BY <1>1
  <1>2. CASE k \in [op : {"antenna"}, to : Antennas]
    BY <1>2
  <1>3. CASE k \in [op : {"enable", "stop", "disable"}, to : {"stream"}]
    <2>1. k.op \in {"enable", "stop", "disable"}
      BY <1>3
    <2> QED
      BY <2>1 DEF Streaming
  <1> QED
    BY <1>1, <1>2, <1>3 DEF Calls

LEMMA DoubtTyped ==
    ASSUME NEW k, NEW r \in Answers, doubt \in SUBSET Subjects
    PROVE  Doubt(k, r) \in SUBSET Subjects
  BY DEF Doubt, Subjects, Answers

LEMMA TypedInit == Init => TypeOK
  BY CallsKnown DEF Init, TypeOK, Receivers, Members, Answers, Subjects

LEMMA TypedFinish ==
    ASSUME TypeOK, NEW t \in Threads, NEW r \in Answers, Finish(t, r)
    PROVE  TypeOK'
  <1>1. call[t] \in Calls
    BY DEF TypeOK
  <1>2. Continue(call[t], r) \in {"abort", "send", "idle"}
    BY DEF Continue
  <1>3. doubt' \in SUBSET Subjects
    BY DoubtTyped DEF Finish, TypeOK
  <1>4. frequency' \in Frequencies \cup {"unknown"}
    BY <1>1, CallParts DEF Streaming, Finish, TypeOK, FrequencyAfter
  <1>5. antenna' \in Antennas \cup {"RX", "unknown"}
    BY <1>1, CallParts DEF Streaming, Finish, TypeOK, AntennaAfter
  <1>6. enabled' \in BOOLEAN
    BY DEF Finish, TypeOK, EnabledAfter
  <1>7. /\ pc' \in [Threads -> Exchanging \cup {"idle", "abort", "stop", "read", "wait"}]
        /\ call' \in [Threads -> Calls] /\ answer' \in [Threads -> Answers]
    BY <1>2, CallsKnown DEF Finish, TypeOK, Exchanging, Answers
  <1> QED
    BY <1>3, <1>4, <1>5, <1>6, <1>7 DEF Finish, TypeOK, radio

LEMMA TypedCarryOut ==
    ASSUME TypeOK, NEW t \in Threads, CarryOut(call[t])
    PROVE  /\ source' \in Receivers \cup {"off"}
           /\ tuned' \in WholeHertz /\ selected' \in Antennas
  <1>1. call[t] \in Calls
    BY DEF TypeOK
  <1> QED
    BY <1>1, CallParts, WholeKnown DEF Streaming, TypeOK, CarryOut, Source

LEMMA TypedStep == ASSUME TypeOK, [Next]_vars PROVE TypeOK'
  <1> USE CallsKnown DEF TypeOK, Exchanging, Answers
  <1>1. CASE Make
    <2>1. frequency' \in Frequencies \cup {"unknown"}
      BY <1>1, WholeKnown DEF Make
    <2>2. antenna' \in Antennas \cup {"RX", "unknown"}
      BY <1>1 DEF Make
    <2>3. confused' \in BOOLEAN /\ doubt' \in SUBSET Subjects
      BY <1>1 DEF Make, Subjects
    <2>4. /\ made' \in BOOLEAN /\ enabled' \in BOOLEAN /\ member' \in Members
          /\ UNCHANGED <<source, tuned, selected, pc, call, answer, late>>
      BY <1>1 DEF Make
    <2> QED
      BY <2>1, <2>2, <2>3, <2>4
  <1>2. CASE Unmake
    BY <1>2 DEF Unmake, radio
  <1>3. ASSUME NEW t \in Threads, Application(t) PROVE TypeOK'
    BY <1>3 DEF Application, SetFrequency, SetAntenna, SetAntennaRX, ActivateStream,
                DeactivateStream, ReadStream, Enter, device, radio
  <1>4. ASSUME NEW t \in Threads, Step(t) PROVE TypeOK'
    <2>1. CASE StartRead(t) \/ EndRead(t)
      BY <2>1 DEF StartRead, EndRead, device, radio
    <2>2. CASE iqAbortPipe(t)
      BY <2>2 DEF iqAbortPipe, Aborted, device, radio
    <2>3. CASE iqAsyncStop(t)
      BY <2>3 DEF iqAsyncStop, Aborted, Subjects, device, radio
    <2>4. CASE Send(t)
      BY <2>4 DEF Send, Subjects, device, radio
    <2>5. CASE SendFails(t)
      BY <2>5, TypedFinish DEF SendFails
    <2>6. CASE Reply(t)
      BY <2>6, TypedFinish DEF Reply
    <2> QED
      BY <1>4, <2>1, <2>2, <2>3, <2>4, <2>5, <2>6 DEF Step
  <1>5. ASSUME NEW t \in Threads, Radio(t) PROVE TypeOK'
    <2>1. CASE Obey(t)
      BY <2>1, TypedCarryOut DEF Obey, device
    <2>2. CASE Refuse(t)
      BY <2>2 DEF Refuse, device, radio
    <2>3. CASE NoReply(t)
      BY <2>3, TypedCarryOut DEF NoReply, Subjects, device, radio
    <2>4. CASE Mixed(t)
      BY <2>4 DEF Mixed, device, radio
    <2> QED
      BY <1>5, <2>1, <2>2, <2>3, <2>4 DEF Radio
  <1>6. CASE UNCHANGED vars
    BY <1>6 DEF vars
  <1> QED
    BY <1>1, <1>2, <1>3, <1>4, <1>5, <1>6 DEF Next

(***************************************************************************)
(* For any threads, frequencies and antennas the device object and the     *)
(* radio stay in their types.                                              *)
(***************************************************************************)
THEOREM TypeCorrect == Spec => []TypeOK
  BY TypedInit, TypedStep, PTL DEF Spec

-----------------------------------------------------------------------------
(* What the object keeps                                                   *)

True ==
    /\ confused => doubt = Subjects
    /\ ~confused => Orderly /\ CarriedOut /\ Kept

LEMMA TrueInit == Init => True
  BY DEF Init, True, Orderly, CarriedOut, Understood, Kept, FrequencyKept, AntennaKept,
         FlagKept

(***************************************************************************)
(* A step that leaves the exchanges and the radio alone, and of what is    *)
(* kept changes the antenna to a name at most, disturbs nothing.           *)
(***************************************************************************)
LEMMA OutsideStep ==
    ASSUME TypeOK, True,
           \A u \in Threads : pc'[u] \in {"sent", "reply"} =>
               pc'[u] = pc[u] /\ call'[u] = call[u] /\ answer'[u] = answer[u],
           \A u \in Threads : pc[u] \in {"sent", "reply"} => pc'[u] = pc[u],
           UNCHANGED <<made, member, enabled, frequency, source, tuned, selected,
                       confused, doubt>>,
           antenna' \in {antenna, "RX"}
    PROVE  True'
  <1>1. \A u \in Threads : Understood(u)' <=> Understood(u)
    BY DEF Understood
  <1>2. \A u \in Threads : Understood(u) => call'[u] = call[u]
    BY DEF Understood
  <1>3. ASSUME ~confused PROVE Orderly' /\ CarriedOut' /\ Kept'
    <2>1. Orderly /\ CarriedOut /\ Kept
      BY <1>3 DEF True
    <2>2. Orderly'
      BY <2>1 DEF Orderly
    <2>3. CarriedOut'
      BY <1>1, <1>2, <2>1 DEF CarriedOut, Source
    <2>4. \A ops : Settled(ops)' <=> Settled(ops)
      BY <1>1, <1>2 DEF Settled
    <2>5. Kept'
      BY <2>1, <2>4 DEF Kept, FrequencyKept, AntennaKept, FlagKept, Source
    <2> QED
      BY <2>2, <2>3, <2>5
  <1> QED
    BY <1>3 DEF True

(* A command is sent, or a reply comes from elsewhere: the exchanges of the others are *)
(* as they were, and what t has is not yet understood.                                 *)
LEMMA SentStep ==
    ASSUME TypeOK, True, NEW t \in Threads, Send(t) \/ Refuse(t)
    PROVE  True'
  <1>1. \A u \in Threads : Understood(u)' => Understood(u) /\ u # t
    BY DEF Understood, Send, Refuse, TypeOK
  <1>2. ASSUME ~confused'
        PROVE  /\ Orderly' /\ ~confused
               /\ \A u \in Threads : Understood(u) => Understood(u)'
    <2>1. ~confused /\ Orderly
      BY <1>2 DEF True, Send, Refuse, TypeOK
    <2>2. Orderly'
      BY <1>2, <2>1 DEF Orderly, Send, Refuse, TypeOK
    <2>3. \A u \in Threads : Understood(u) => Understood(u)'
      BY <2>1, <1>2 DEF Understood, Orderly, Send, Refuse, TypeOK
    <2> QED
      BY <2>1, <2>2, <2>3
  <1>3. UNCHANGED <<made, member, enabled, frequency, antenna, source, tuned, selected, call>>
    BY DEF Send, Refuse, device, radio
  <1>4. ASSUME ~confused' PROVE doubt' = doubt
    BY <1>4 DEF Send, Refuse
  <1>5. ASSUME ~confused' PROVE Orderly' /\ CarriedOut' /\ Kept'
    <2>1. CarriedOut'
      BY <1>1, <1>2, <1>3, <1>5 DEF True, CarriedOut, Source
    <2>2. \A ops : Settled(ops)' <=> Settled(ops)
      BY <1>1, <1>2, <1>3, <1>5 DEF Settled
    <2>3. Kept'
      BY <1>2, <1>3, <1>4, <1>5, <2>2
      DEF True, Kept, FrequencyKept, AntennaKept, FlagKept, Source
    <2> QED
      BY <1>2, <1>5, <2>1, <2>3
  <1>6. confused' => doubt' = Subjects
    BY DEF True, Send, Refuse
  <1> QED
    BY <1>5, <1>6 DEF True

\* Aborted exchanges leave replies confused; without them nothing is disturbed.
LEMMA StopStep ==
    ASSUME TypeOK, True, NEW t \in Threads, iqAsyncStop(t)
    PROVE  True'
  <1> DEFINE cut == {u \in Threads : pc[u] \in {"sent", "reply"}}
  <1>1. CASE cut # {}
    BY <1>1 DEF iqAsyncStop, True
  <1>2. CASE cut = {}
    <2>1. \A u \in Threads : pc[u] \notin {"sent", "reply"}
      BY <1>2
    <2>2. \A u \in Threads : pc'[u] \notin {"sent", "reply"}
      BY <1>2, <2>1 DEF iqAsyncStop, TypeOK, Aborted
    <2>3. UNCHANGED <<made, member, enabled, frequency, antenna, source, tuned, selected,
                      confused, doubt>>
      BY <1>2 DEF iqAsyncStop, device, radio, TypeOK
    <2> QED
      BY <2>1, <2>2, <2>3, OutsideStep
  <1> QED
    BY <1>1, <1>2

\* The radio carries out a command: until the reply is read the object is behind.
LEMMA ObeyStep ==
    ASSUME TypeOK, True, NEW t \in Threads, Obey(t)
    PROVE  True'
  <1>1. call[t] \in Calls /\ call' = call
    BY DEF TypeOK, Obey
  <1>2. Understood(t)' /\ UNCHANGED <<made, member, enabled, frequency, antenna, confused, doubt>>
    BY DEF Understood, Obey, TypeOK, device
  <1>3. ASSUME ~confused PROVE Orderly' /\ CarriedOut' /\ Kept'
    <2>1. Orderly /\ CarriedOut /\ Kept
      BY <1>3 DEF True
    <2>2. \A u \in Threads \ {t} : pc[u] \notin {"sent", "reply"} /\ pc'[u] = pc[u]
      BY <2>1 DEF Orderly, Obey, TypeOK
    <2>3. Orderly'
      BY <2>2, <1>2 DEF Orderly, Understood
    <2>4. \A u \in Threads : Understood(u)' => u = t
      BY <2>2 DEF Understood
    <2>5. \A u \in Threads : ~Understood(u)
      BY <2>2 DEF Understood, Obey
    <2>6. CarriedOut'
      BY <1>1, <1>2, <2>4, CallParts DEF CarriedOut, Obey, CarryOut, Source, Streaming
    <2>7. FrequencyKept'
      BY <1>1, <1>2, <2>1, <2>5 DEF Kept, FrequencyKept, Settled, Obey, CarryOut
    <2>8. AntennaKept'
      BY <1>1, <1>2, <2>1, <2>5 DEF Kept, AntennaKept, Settled, Obey, CarryOut
    <2>9. FlagKept'
      <3>1. CASE call[t].op \in Streaming
        <4>1. ~Settled(Streaming)'
          BY <1>1, <1>2, <3>1 DEF Settled
        <4> QED
          BY <4>1 DEF FlagKept
      <3>2. CASE call[t].op \notin Streaming
        <4>1. source' = source
          BY <3>2 DEF Obey, CarryOut, Streaming
        <4> QED
          BY <1>2, <2>1, <2>5, <4>1 DEF Kept, FlagKept, Settled, Source
      <3> QED
        BY <3>1, <3>2
    <2> QED
      BY <2>3, <2>6, <2>7, <2>8, <2>9 DEF Kept
  <1> QED
    BY <1>2, <1>3 DEF True

\* What an interpreted reply does to the doubts, when replies are not confused.
LEMMA DoubtAfter ==
    ASSUME ~confused, NEW k \in Calls, NEW r \in Answers
    PROVE  /\ k.op # "frequency" => ("frequency" \in Doubt(k, r) <=> "frequency" \in doubt)
           /\ k.op # "antenna" => ("antenna" \in Doubt(k, r) <=> "antenna" \in doubt)
           /\ k.op \notin Streaming => ("stream" \in Doubt(k, r) <=> "stream" \in doubt)
           /\ k.op = "frequency" /\ r = "echo" => "frequency" \in Doubt(k, r)
           /\ k.op = "frequency" /\ r \in {"nak", "none"} => Doubt(k, r) = doubt
           /\ k.op = "enable" /\ r = "none" => Doubt(k, r) = doubt
           /\ k.op = "antenna" /\ r \in {"nak", "none"} => "antenna" \in Doubt(k, r)
           /\ k.op \in Streaming /\ r = "nak" => "stream" \in Doubt(k, r)
           /\ k.op \in {"stop", "disable"} /\ r = "none" => "stream" \in Doubt(k, r)
  <1>1. CASE k.op = "frequency"
    BY <1>1 DEF Doubt, Answers, Streaming
  <1>2. CASE k.op = "antenna"
    BY <1>2 DEF Doubt, Answers, Streaming
  <1>3. CASE k.op \in Streaming
    BY <1>3 DEF Doubt, Answers, Streaming
  <1> QED
    BY <1>1, <1>2, <1>3, CallParts

LEMMA FinishStep ==
    ASSUME TypeOK, True, NEW t \in Threads, NEW r \in Answers, Finish(t, r),
           \/ pc[t] = "send" /\ r = "none"
           \/ pc[t] = "reply" /\ r = answer[t]
    PROVE  True'
  <1> DEFINE k == call[t]
  <1>1. /\ k \in Calls /\ doubt' = Doubt(k, r)
        /\ UNCHANGED <<made, member, source, tuned, selected, confused>>
    BY DEF TypeOK, Finish, radio
  <1>2. pc'[t] \notin {"sent", "reply"}
    BY DEF Finish, TypeOK, Continue
  <1>3. \A u \in Threads \ {t} : pc'[u] = pc[u] /\ call'[u] = call[u] /\ answer'[u] = answer[u]
    BY DEF Finish, TypeOK
  <1>4. CASE confused
    BY <1>1, <1>4 DEF True, Doubt
  <1>5. CASE ~confused
    <2>1. Orderly /\ CarriedOut /\ Kept
      BY <1>5 DEF True
    <2>2. Orderly'
      BY <1>2, <1>3, <2>1 DEF Orderly
    <2>3. \A u \in Threads : Understood(u)' <=> u # t /\ Understood(u)
      BY <1>2, <1>3 DEF Understood
    <2>4. CarriedOut'
      BY <1>1, <1>3, <2>1, <2>3 DEF CarriedOut, Source
    <2>5. Understood(t) <=> r \in {"ack", "echo"}
      BY DEF Understood
    <2>6. ASSUME NEW ops, k.op \notin ops \/ ~Understood(t) PROVE Settled(ops)' => Settled(ops)
      BY <1>3, <2>3, <2>6 DEF Settled
    <2>7. r = "none" => pc[t] = "send"
      BY <2>1 DEF Orderly
    <2> HIDE DEF k
    <2>8. FrequencyKept'
      <3>1. CASE k.op = "frequency"
        <4>1. frequency' \in FrequencyAfter(k, r)
          BY <3>1 DEF Finish, k
        <4>2. CASE r = "ack"
          BY <1>1, <2>1, <2>5, <3>1, <4>1, <4>2 DEF FrequencyKept, FrequencyAfter, CarriedOut, k
        <4>3. CASE r = "echo"
          BY <1>1, <1>5, <3>1, <4>3, DoubtAfter DEF FrequencyKept
        <4>4. CASE r \in {"nak", "none"}
          <5>1. frequency' = frequency /\ doubt' = doubt
            BY <1>1, <1>5, <3>1, <4>1, <4>4, DoubtAfter DEF FrequencyAfter
          <5>2. Settled({"frequency"})' => Settled({"frequency"})
            BY <2>5, <2>6, <4>4
          <5> QED
            BY <1>1, <2>1, <5>1, <5>2 DEF Kept, FrequencyKept
        <4> QED
          BY <4>2, <4>3, <4>4 DEF Answers
      <3>2. CASE k.op # "frequency"
        <4>1. frequency' = frequency /\ ("frequency" \in doubt' <=> "frequency" \in doubt)
          BY <1>1, <1>5, <3>2, DoubtAfter DEF Finish, k
        <4>2. Settled({"frequency"})' => Settled({"frequency"})
          BY <2>6, <3>2
        <4> QED
          BY <1>1, <2>1, <4>1, <4>2 DEF Kept, FrequencyKept
      <3> QED
        BY <3>1, <3>2
    <2>9. AntennaKept'
      <3>1. CASE k.op = "antenna"
        <4>1. antenna' = k.to
          BY <3>1 DEF Finish, AntennaAfter, k
        <4>2. CASE r \in {"ack", "echo"}
          BY <1>1, <2>1, <2>5, <3>1, <4>1, <4>2 DEF AntennaKept, CarriedOut, k
        <4>3. CASE r \in {"nak", "none"}
          BY <1>1, <1>5, <3>1, <4>3, DoubtAfter DEF AntennaKept
        <4> QED
          BY <4>2, <4>3 DEF Answers
      <3>2. CASE k.op # "antenna"
        <4>1. antenna' = antenna /\ ("antenna" \in doubt' <=> "antenna" \in doubt)
          BY <1>1, <1>5, <3>2, DoubtAfter DEF Finish, k
        <4>2. Settled({"antenna"})' => Settled({"antenna"})
          BY <2>6, <3>2
        <4> QED
          BY <1>1, <2>1, <4>1, <4>2 DEF Kept, AntennaKept
      <3> QED
        BY <3>1, <3>2
    <2>10. FlagKept'
      <3>1. CASE k.op \in Streaming /\ r \in {"ack", "echo"}
        <4>1. enabled' = (k.op = "enable")
          BY <3>1 DEF Finish, EnabledAfter, Streaming, k
        <4>2. k.op = "enable" => source = Source
          BY <2>1, <2>5, <3>1 DEF CarriedOut, k
        <4> QED
          BY <1>1, <4>1, <4>2 DEF FlagKept, Source
      <3>2. CASE k.op \in Streaming /\ r \in {"nak", "none"}
        <4>1. CASE k.op = "enable" /\ r = "none"
          <5>1. enabled' = enabled /\ doubt' = doubt
            BY <1>1, <1>5, <4>1, DoubtAfter DEF Finish, EnabledAfter, k
          <5>2. Settled(Streaming)' => Settled(Streaming)
            BY <2>5, <2>6, <3>2
          <5> QED
            BY <1>1, <2>1, <5>1, <5>2 DEF Kept, FlagKept, Source
        <4>2. CASE ~(k.op = "enable" /\ r = "none")
          <5>1. "stream" \in doubt'
            BY <1>1, <1>5, <3>2, <4>2, DoubtAfter DEF Streaming
          <5> QED
            BY <5>1 DEF FlagKept
        <4> QED
          BY <4>1, <4>2
      <3>3. CASE k.op \notin Streaming
        <4>1. enabled' = enabled /\ ("stream" \in doubt' <=> "stream" \in doubt)
          BY <1>1, <1>5, <3>3, CallParts, DoubtAfter DEF Finish, k
        <4>2. Settled(Streaming)' => Settled(Streaming)
          BY <2>6, <3>3
        <4> QED
          BY <1>1, <2>1, <4>1, <4>2 DEF Kept, FlagKept, Source
      <3> QED
        BY <3>1, <3>2, <3>3 DEF Answers
    <2> QED
      BY <1>1, <1>5, <2>2, <2>4, <2>8, <2>9, <2>10 DEF True, Kept
  <1> QED
    BY <1>4, <1>5

\* The constructor meets no exchange, and what it does not know is in doubt.
LEMMA MakeStep == ASSUME TypeOK, True, Make PROVE True'
  <1>1. \A u \in Threads : pc'[u] = "idle"
    BY DEF Make, Idle
  <1>2. Orderly' /\ CarriedOut' /\ enabled' = FALSE
    BY <1>1 DEF Make, Orderly, CarriedOut, Understood
  <1>3. FlagKept'
    BY <1>2 DEF FlagKept
  <1>4. CASE frequency' = tuned /\ antenna' = selected /\ confused' = FALSE
    BY <1>2, <1>3, <1>4, WholeKnown DEF TypeOK, Make, True, Kept, FrequencyKept, AntennaKept
  <1>5. CASE confused' = TRUE /\ doubt' = Subjects
    BY <1>5 DEF True
  <1>6. CASE confused' = FALSE /\ doubt' = {"frequency", "antenna"}
    BY <1>2, <1>3, <1>6 DEF True, Kept, FrequencyKept, AntennaKept
  <1> QED
    BY <1>4, <1>5, <1>6 DEF Make, TypeOK

LEMMA UnmakeStep == ASSUME TypeOK, True, Unmake PROVE True'
  <1>1. UNCHANGED <<source, tuned, selected, member, pc, call, answer, confused, doubt>>
    BY DEF Unmake, radio
  <1>2. made' = FALSE
    BY DEF Unmake
  <1>3. Kept'
    BY <1>2 DEF Kept, FrequencyKept, AntennaKept, FlagKept
  <1> QED
    BY <1>1, <1>3 DEF True, Orderly, CarriedOut, Understood, Source

LEMMA TrueStep == ASSUME TypeOK, True, [Next]_vars PROVE True'
  <1>1. CASE Make \/ Unmake
    BY <1>1, MakeStep, UnmakeStep
  <1>2. ASSUME NEW t \in Threads, Application(t) PROVE True'
    <2>1. /\ \A u \in Threads : pc'[u] \in {"sent", "reply"} =>
                pc'[u] = pc[u] /\ call'[u] = call[u] /\ answer'[u] = answer[u]
          /\ \A u \in Threads : pc[u] \in {"sent", "reply"} => pc'[u] = pc[u]
      BY <1>2 DEF TypeOK, Application, SetFrequency, SetAntenna, SetAntennaRX, ActivateStream,
                  DeactivateStream, ReadStream, Enter, device, radio
    <2>2. /\ UNCHANGED <<made, member, enabled, frequency, source, tuned, selected,
                         confused, doubt>>
          /\ antenna' \in {antenna, "RX"}
      BY <1>2 DEF TypeOK, Application, SetFrequency, SetAntenna, SetAntennaRX, ActivateStream,
                  DeactivateStream, ReadStream, Enter, device, radio
    <2> QED
      BY <2>1, <2>2, OutsideStep
  <1>3. ASSUME NEW t \in Threads, Step(t) PROVE True'
    <2>1. CASE StartRead(t) \/ EndRead(t) \/ iqAbortPipe(t)
      <3>1. /\ \A u \in Threads : pc'[u] \in {"sent", "reply"} =>
                  pc'[u] = pc[u] /\ call'[u] = call[u] /\ answer'[u] = answer[u]
            /\ \A u \in Threads : pc[u] \in {"sent", "reply"} => pc'[u] = pc[u]
        BY <2>1 DEF TypeOK, StartRead, EndRead, iqAbortPipe, Aborted, radio
      <3>2. UNCHANGED <<made, member, enabled, frequency, antenna, source, tuned, selected,
                        confused, doubt>>
        BY <2>1 DEF StartRead, EndRead, iqAbortPipe, device, radio
      <3> QED
        BY <3>1, <3>2, OutsideStep
    <2>2. CASE iqAsyncStop(t)
      BY <2>2, StopStep
    <2>3. CASE Send(t)
      BY <2>3, SentStep
    <2>4. CASE SendFails(t)
      BY <2>4, FinishStep DEF SendFails, Answers
    <2>5. CASE Reply(t)
      <3>1. answer[t] \in Answers
        BY DEF TypeOK
      <3> QED
        BY <2>5, <3>1, FinishStep DEF Reply
    <2> QED
      BY <1>3, <2>1, <2>2, <2>3, <2>4, <2>5 DEF Step
  <1>4. ASSUME NEW t \in Threads, Radio(t) PROVE True'
    <2>1. CASE Obey(t)
      BY <2>1, ObeyStep
    <2>2. CASE Refuse(t)
      BY <2>2, SentStep
    <2>3. CASE NoReply(t)
      BY <2>3 DEF NoReply, True
    <2>4. CASE Mixed(t)
      BY <2>4 DEF Mixed, True
    <2> QED
      BY <1>4, <2>1, <2>2, <2>3, <2>4 DEF Radio
  <1>5. CASE UNCHANGED vars
    BY <1>5 DEF vars, True, Orderly, CarriedOut, Understood, Source, Kept, FrequencyKept,
                AntennaKept, FlagKept, Settled
  <1> QED
    BY <1>1, <1>2, <1>3, <1>4, <1>5 DEF Next

-----------------------------------------------------------------------------
(* Reads                                                                   *)

Reads == InUse /\ WaitsAreLate /\ VainReadsAreLate

LEMMA ReadsInit == Init => Reads
  BY DEF Init, Reads, InUse, WaitsAreLate, VainReadsAreLate, Deactivating

\* A step that starts no read and no deactivation, and after which the radio is not off
\* for the first time, nor trusted again.
LEMMA NothingStarts ==
    ASSUME TypeOK, Reads, [Next]_vars,
           \A u \in Threads : pc'[u] = "wait" => pc[u] = "wait" /\ late'[u] = late[u],
           Deactivating' => Deactivating,
           \A u \in Threads : pc'[u] # "idle" => made',
           \/ Deactivating
           \/ member' \in Receivers => source' # "off"
           \/ "stream" \in doubt'
           \/ source' = source /\ member' = member /\ ("stream" \in doubt => "stream" \in doubt')
    PROVE  Reads'
  BY DEF Reads, InUse, WaitsAreLate, VainReadsAreLate

LEMMA ReadStarts ==
    ASSUME TypeOK, True, Reads, NEW t \in Threads, StartRead(t)
    PROVE  Reads'
  <1>1. made /\ UNCHANGED <<made, member, enabled, source, doubt, call>>
    BY DEF StartRead, Reads, InUse, device, radio
  <1>2. /\ \A u \in Threads \ {t} : pc'[u] = pc[u] /\ late'[u] = late[u]
        /\ pc[t] = "read" /\ pc'[t] = "wait" /\ late'[t] = (~enabled \/ Deactivating)
    BY DEF StartRead, TypeOK
  <1>3. Deactivating' => Deactivating
    BY <1>1, <1>2 DEF Deactivating, Exchanging
  <1>4. ASSUME ~late'[t], source = "off", member \in Receivers PROVE "stream" \in doubt
    <2>1. enabled /\ ~Deactivating
      BY <1>2, <1>4 DEF TypeOK
    <2>2. SUFFICES ASSUME "stream" \notin doubt PROVE FALSE
      OBVIOUS
    <2>3. CarriedOut /\ FlagKept
      BY <2>2 DEF True, Kept, Subjects
    <2>4. ASSUME NEW v \in Threads, Understood(v) PROVE call[v].op \notin Streaming
      <3>1. call[v].op \notin {"stop", "disable"}
        BY <2>1, <2>4 DEF Deactivating, Understood, Exchanging
      <3>2. call[v].op # "enable"
        BY <1>4, <2>3, <2>4 DEF CarriedOut, Source, Receivers
      <3> QED
        BY <3>1, <3>2 DEF Streaming
    <2>5. source = member
      BY <1>1, <1>4, <2>1, <2>2, <2>3, <2>4 DEF FlagKept, Settled, Source
    <2> QED
      BY <1>4, <2>5 DEF Receivers
  <1>5. InUse' /\ WaitsAreLate'
    BY <1>1, <1>2, <1>3 DEF Reads, InUse, WaitsAreLate
  <1>6. VainReadsAreLate'
    BY <1>1, <1>2, <1>4 DEF Reads, VainReadsAreLate
  <1> QED
    BY <1>5, <1>6 DEF Reads

\* An abort leaves no read waiting.
LEMMA AbortReads ==
    ASSUME TypeOK, Reads, NEW t \in Threads, iqAsyncStop(t) \/ iqAbortPipe(t)
    PROVE  Reads'
  <1>1. \A u \in Threads : pc'[u] # "wait"
    BY DEF TypeOK, iqAsyncStop, iqAbortPipe, Aborted
  <1>2. made' = made /\ pc[t] # "idle"
    BY DEF iqAsyncStop, iqAbortPipe, device
  <1> QED
    BY <1>1, <1>2 DEF Reads, InUse, WaitsAreLate, VainReadsAreLate

\* A reply that ends a doubt about the stream is read while the radio streams, or by a
\* deactivation.
LEMMA FinishReads ==
    ASSUME TypeOK, True, Reads, [Next]_vars, NEW t \in Threads, NEW r \in Answers, Finish(t, r),
           \/ pc[t] = "send" /\ r = "none"
           \/ pc[t] = "reply" /\ r = answer[t]
    PROVE  Reads'
  <1> DEFINE k == call[t]
  <1>1. /\ k \in Calls /\ doubt' = Doubt(k, r)
        /\ UNCHANGED <<made, member, source, tuned, selected, confused, late>>
    BY DEF TypeOK, Finish, radio
  <1>2. /\ \A u \in Threads \ {t} : pc'[u] = pc[u] /\ call'[u] = call[u]
        /\ pc'[t] = Continue(k, r) /\ pc[t] \in Exchanging
    BY DEF Finish, TypeOK, Exchanging
  <1>3. \A u \in Threads : pc'[u] = "wait" => pc[u] = "wait" /\ late'[u] = late[u]
    BY <1>1, <1>2 DEF Continue
  <1>4. Deactivating' => Deactivating
    <2>1. pc'[t] \in Exchanging => k.op = "stop"
      BY <1>2 DEF Continue, Exchanging
    <2> QED
      BY <1>2, <2>1 DEF Deactivating
  <1>5. \A u \in Threads : pc'[u] # "idle" => made'
    BY <1>1, <1>2 DEF Reads, InUse, Exchanging
  <1>6. \/ Deactivating
        \/ member' \in Receivers => source' # "off"
        \/ "stream" \in doubt'
        \/ source' = source /\ member' = member /\ ("stream" \in doubt => "stream" \in doubt')
    <2>1. CASE confused
      BY <1>1, <2>1 DEF Doubt, Subjects
    <2>2. CASE k.op \in {"stop", "disable"}
      BY <1>2, <2>2 DEF Deactivating
    <2>3. CASE ~confused /\ k.op = "enable"
      <3>1. CASE r \in {"ack", "echo"}
        <4>1. source = Source
          BY <2>3, <3>1 DEF True, CarriedOut, Understood
        <4> QED
          BY <1>1, <4>1 DEF Source, Receivers
      <3>2. CASE r = "nak"
        BY <1>1, <2>3, <3>2, DoubtAfter DEF Streaming
      <3>3. CASE r = "none"
        BY <1>1, <2>3, <3>3, DoubtAfter
      <3> QED
        BY <3>1, <3>2, <3>3 DEF Answers
    <2>4. CASE ~confused /\ k.op \notin Streaming
      BY <1>1, <2>4, DoubtAfter
    <2> QED
      BY <2>1, <2>2, <2>3, <2>4 DEF Streaming
  <1> QED
    BY <1>3, <1>4, <1>5, <1>6, NothingStarts

LEMMA RadioReads ==
    ASSUME TypeOK, True, Reads, [Next]_vars, NEW t \in Threads, Radio(t)
    PROVE  Reads'
  <1>1. /\ \A u \in Threads \ {t} : pc'[u] = pc[u]
        /\ pc[t] = "sent" /\ pc'[t] = "reply"
        /\ UNCHANGED <<made, member, late, call>>
    BY DEF TypeOK, Radio, Obey, Refuse, NoReply, Mixed, device
  <1>2. \A u \in Threads : pc'[u] = "wait" => pc[u] = "wait" /\ late'[u] = late[u]
    BY <1>1
  <1>3. Deactivating' => Deactivating
    BY <1>1 DEF Deactivating, Exchanging
  <1>4. \A u \in Threads : pc'[u] # "idle" => made'
    BY <1>1 DEF Reads, InUse
  <1>5. \/ Deactivating
        \/ member' \in Receivers => source' # "off"
        \/ "stream" \in doubt'
        \/ source' = source /\ member' = member /\ ("stream" \in doubt => "stream" \in doubt')
    <2>1. CASE Obey(t)
      <3>1. CASE call[t].op \in {"stop", "disable"}
        BY <1>1, <3>1 DEF Deactivating, Exchanging
      <3>2. CASE call[t].op = "enable"
        BY <1>1, <2>1, <3>2 DEF Obey, CarryOut, Source, Receivers
      <3>3. CASE call[t].op \notin Streaming
        BY <1>1, <2>1, <3>3 DEF Obey, CarryOut, Streaming
      <3> QED
        BY <3>1, <3>2, <3>3 DEF Streaming
    <2>2. CASE NoReply(t)
      BY <2>2 DEF NoReply, Subjects
    <2>3. CASE Refuse(t) \/ Mixed(t)
      BY <1>1, <2>3 DEF Refuse, Mixed, radio
    <2> QED
      BY <2>1, <2>2, <2>3 DEF Radio
  <1> QED
    BY <1>2, <1>3, <1>4, <1>5, NothingStarts

LEMMA ReadsStep == ASSUME TypeOK, True, Reads, [Next]_vars PROVE Reads'
  <1>1. CASE Make \/ Unmake
    BY <1>1 DEF Make, Unmake, Idle, Reads, InUse, WaitsAreLate, VainReadsAreLate
  <1>2. ASSUME NEW t \in Threads, Application(t) PROVE Reads'
    <2>1. /\ made /\ UNCHANGED <<made, member, source, late, doubt>>
          /\ \A u \in Threads : pc'[u] = "wait" => pc[u] = "wait"
      BY <1>2 DEF TypeOK, Application, SetFrequency, SetAntenna, SetAntennaRX, ActivateStream,
                  DeactivateStream, ReadStream, Enter, device, radio
    <2>2. /\ \A u \in Threads \ {t} : pc'[u] = pc[u] /\ call'[u] = call[u]
          /\ pc'[t] \in Exchanging => call'[t].op \notin {"stop", "disable"}
      BY <1>2 DEF TypeOK, Application, SetFrequency, SetAntenna, SetAntennaRX, ActivateStream,
                  DeactivateStream, ReadStream, Enter, Exchanging, Enable
    <2>3. Deactivating' => Deactivating
      BY <2>2 DEF Deactivating
    <2> QED
      BY <2>1, <2>3, NothingStarts
  <1>3. ASSUME NEW t \in Threads, Step(t) PROVE Reads'
    <2>1. CASE StartRead(t)
      BY <2>1, ReadStarts
    <2>2. CASE EndRead(t)
      <3>1. /\ UNCHANGED <<made, member, source, doubt, call>> /\ pc[t] = "wait" /\ pc'[t] = "idle"
            /\ \A u \in Threads \ {t} : pc'[u] = pc[u] /\ late'[u] = late[u]
        BY <2>2 DEF TypeOK, EndRead, device, radio
      <3>2. Deactivating' => Deactivating
        BY <3>1 DEF Deactivating, Exchanging
      <3>3. \A u \in Threads : pc'[u] # "idle" => made'
        BY <3>1 DEF Reads, InUse
      <3> QED
        BY <3>1, <3>2, <3>3, NothingStarts
    <2>3. CASE iqAbortPipe(t) \/ iqAsyncStop(t)
      BY <2>3, AbortReads
    <2>4. CASE Send(t)
      <3>1. /\ UNCHANGED <<made, member, source, call, late>> /\ pc[t] = "send" /\ pc'[t] = "sent"
            /\ \A u \in Threads \ {t} : pc'[u] = pc[u]
            /\ "stream" \in doubt => "stream" \in doubt'
        BY <2>4 DEF TypeOK, Send, Subjects, device, radio
      <3>2. Deactivating' => Deactivating
        BY <3>1 DEF Deactivating, Exchanging
      <3>3. \A u \in Threads : pc'[u] # "idle" => made'
        BY <3>1 DEF Reads, InUse
      <3> QED
        BY <3>1, <3>2, <3>3, NothingStarts
    <2>5. CASE SendFails(t)
      BY <2>5, FinishReads DEF SendFails, Answers
    <2>6. CASE Reply(t)
      <3>1. answer[t] \in Answers
        BY DEF TypeOK
      <3> QED
        BY <2>6, <3>1, FinishReads DEF Reply
    <2> QED
      BY <1>3, <2>1, <2>2, <2>3, <2>4, <2>5, <2>6 DEF Step
  <1>4. ASSUME NEW t \in Threads, Radio(t) PROVE Reads'
    BY <1>4, RadioReads
  <1>5. CASE UNCHANGED vars
    BY <1>5 DEF vars, Reads, InUse, WaitsAreLate, VainReadsAreLate, Deactivating
  <1> QED
    BY <1>1, <1>2, <1>3, <1>4, <1>5 DEF Next

Inv == TypeOK /\ True /\ Reads

LEMMA Invariant == Spec => []Inv
  <1>1. Init => Inv
    BY TypedInit, TrueInit, ReadsInit DEF Inv
  <1>2. Inv /\ [Next]_vars => Inv'
    BY TypedStep, TrueStep, ReadsStep DEF Inv
  <1> QED
    BY <1>1, <1>2, PTL DEF Spec

(***************************************************************************)
(* For any threads, frequencies and antennas: the frequency that           *)
(* getFrequency answers from its cache is the radio's, between calls and   *)
(* until something has happened that leaves it in doubt.                   *)
(***************************************************************************)
THEOREM FrequencyIsTrue == Spec => []FrequencyTrue
  <1>1. Inv => FrequencyTrue
    BY DEF Inv, True, Kept, FrequencyKept, Settled, Understood, FrequencyTrue, Busy,
           Exchanging, Subjects
  <1> QED
    BY <1>1, Invariant, PTL

\* The same of getAntenna, for the antennas that are sent to the radio.
THEOREM AntennaIsTrue == Spec => []AntennaTrue
  <1>1. Inv => AntennaTrue
    BY DEF Inv, True, Kept, AntennaKept, Settled, Understood, AntennaTrue, Busy,
           Exchanging, Subjects
  <1> QED
    BY <1>1, Invariant, PTL

\* The flag that readStream goes by is up only while the radio does what the byte made of
\* the uninitialised _vfo, whatever it is, tells it.
THEOREM FlagIsTrue == Spec => []FlagTrue
  <1>1. Inv => FlagTrue
    BY DEF Inv, True, Kept, FlagKept, Settled, Understood, FlagTrue, StreamKnown, Busy, Exchanging,
           Streaming, Subjects
  <1> QED
    BY <1>1, Invariant, PTL

(***************************************************************************)
(* For any number of threads: a read waits on a radio that is off only     *)
(* when it began between the abort of a deactivation and its last command. *)
(***************************************************************************)
THEOREM VainReads == Spec => []VainReadsAreLate
  BY Invariant, PTL DEF Inv, Reads

LEMMA DeactivatedStep ==
    ASSUME Inv, [Next]_vars, NEW t \in Threads,
           \/ pc[t] = "stop"
           \/ pc[t] \in Exchanging /\ call[t].op \in {"stop", "disable"},
           pc'[t] = "idle"
    PROVE  source' = "off" \/ "stream" \in doubt'
  <1>1. TypeOK /\ True
    BY DEF Inv
  <1>2. pc[t] # "idle" /\ pc[t] \notin {"abort", "read", "wait"}
    BY DEF Exchanging
  <1>3. PICK r \in Answers : /\ Finish(t, r)
                             /\ \/ pc[t] = "send" /\ r = "none"
                                \/ pc[t] = "reply" /\ r = answer[t]
    <2>1. ~Make /\ ~Unmake /\ ~UNCHANGED vars
      BY <1>2 DEF Make, Unmake, Idle, vars
    <2>2. PICK u \in Threads : Application(u) \/ Step(u) \/ Radio(u)
      BY <2>1 DEF Next
    <2>3. ~Application(u)
      BY <1>1, <1>2 DEF TypeOK, Application, SetFrequency, SetAntenna, SetAntennaRX,
         ActivateStream, DeactivateStream, ReadStream, Enter
    <2>4. ~Radio(u)
      BY <1>1, <1>2 DEF TypeOK, Radio, Obey, Refuse, NoReply, Mixed
    <2>5. ~StartRead(u) /\ ~EndRead(u) /\ ~Send(u)
      BY <1>1, <1>2 DEF TypeOK, StartRead, EndRead, Send
    <2>6. ~iqAbortPipe(u) /\ ~iqAsyncStop(u)
      BY <1>1, <1>2 DEF TypeOK, iqAbortPipe, iqAsyncStop, Aborted
    <2>7. SendFails(u) \/ Reply(u)
      BY <2>2, <2>3, <2>4, <2>5, <2>6 DEF Step
    <2>8. u = t
      BY <1>1, <1>2, <2>7 DEF TypeOK, SendFails, Reply, Finish
    <2>9. answer[t] \in Answers
      BY <1>1 DEF TypeOK
    <2> QED
      BY <2>7, <2>8, <2>9 DEF SendFails, Reply, Answers
  <1>4. call[t] \in Calls /\ doubt' = Doubt(call[t], r) /\ source' = source
    BY <1>1, <1>3 DEF TypeOK, Finish, radio
  <1>5. call[t].op \in {"stop", "disable"}
    BY <1>3 DEF Exchanging
  <1>6. CASE confused
    BY <1>4, <1>6 DEF Doubt, Subjects
  <1>7. CASE ~confused /\ r \in {"ack", "echo"}
    BY <1>1, <1>3, <1>4, <1>5, <1>7 DEF True, CarriedOut, Understood
  <1>8. CASE ~confused /\ r \in {"nak", "none"}
    BY <1>4, <1>5, <1>8, DoubtAfter DEF Streaming
  <1> QED
    BY <1>6, <1>7, <1>8 DEF Answers

(***************************************************************************)
(* For any number of threads: when deactivateStream or closeStream returns *)
(* the radio has stopped, or a command was refused, not sent or not        *)
(* answered.                                                               *)
(***************************************************************************)
THEOREM DeactivationStops == Spec => DeactivatedIsOff
  <1>1. Inv /\ [Next]_vars
        => [\A t \in Threads :
              /\ \/ pc[t] = "stop"
                 \/ pc[t] \in Exchanging /\ call[t].op \in {"stop", "disable"}
              /\ pc'[t] = "idle"
              => source' = "off" \/ "stream" \in doubt']_vars
    BY DeactivatedStep
  <1> QED
    BY <1>1, Invariant, PTL DEF Spec, DeactivatedIsOff
=============================================================================
