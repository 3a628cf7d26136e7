---------------------------- MODULE SoapyDevice ----------------------------
(***************************************************************************)
(* The SoapySDR driver of the radio (src/src/IC7610SDR_Settings.cpp and    *)
(* IC7610SDR_Streaming.cpp): an object that keeps what it last knew of the *)
(* radio (the frequency, the antenna, whether IQ data is on) and turns the *)
(* application's calls into exchanges of IQCommands and direct reads.  Its *)
(* mutex is never locked: an application that tunes from one thread and    *)
(* reads from another interleaves these calls at every exchange.           *)
(*                                                                         *)
(* One exchange is a command sent, the radio's answer and the reply read;  *)
(* how replies are mixed up once two overlap or one comes too late is      *)
(* IQCommands' subject, and here a confused pipe yields any reply.  Sample *)
(* formats, gains that are never set and the digits of values are left     *)
(* out; the radio is external.                                             *)
(***************************************************************************)
EXTENDS Naturals, FiniteSets

CONSTANTS Threads,       \* threads of the application
          Frequencies,   \* frequencies it tunes to, as doubles, from 1 Hz up to 2^31
          Whole,         \* what a frequency is as a uint32_t: its whole hertz
          Antennas       \* antenna settings that are sent to the radio

Receivers == {"main", "sub"}

ASSUME SoapyAssumption ==
    /\ Frequencies # {} /\ "unknown" \notin Frequencies
    /\ Whole \in [Frequencies -> Frequencies]
    /\ \A f \in Frequencies : Whole[Whole[f]] = Whole[f]
    /\ Antennas # {} /\ {"unknown", "RX"} \cap Antennas = {}

VARIABLES made,        \* the device object exists
          member,      \* _vfo, which no line sets and activateStream uses
          enabled,     \* iqPort._iqDataEnabled
          frequency,   \* _rx_stream.frequency ("unknown": 0)
          antenna,     \* _rx_stream.antenna ("unknown": empty)
          source,      \* the radio: what it streams, or "off"
          tuned,       \* the radio: frequency of the chosen receiver
          selected,    \* the radio: antenna of that receiver
          pc,          \* where each thread is
          call,        \* the command of its current or last exchange
          answer,      \* what came of that exchange
          late,        \* its read began when a deactivation had aborted the others
          confused,    \* exchanges have overlapped, or a reply did not come in time
          doubt        \* what the device may be wrong about, for a reason it cannot see

device == <<made, member, enabled, frequency, antenna>>
radio == <<source, tuned, selected>>
vars == <<made, member, enabled, frequency, antenna, source, tuned, selected,
          pc, call, answer, late, confused, doubt>>

\* What the radio can be told, and tells.
WholeHertz == {f \in Frequencies : Whole[f] = f}

\* What an uninitialised byte may be: 0, 1, 255, or a value the radio does not know.
Members == Receivers \cup {"wraps", "other"}

(***************************************************************************)
(* "stop" is the first disable command of deactivateStream, in             *)
(* iqAsyncStop; "disable" the second, its own.                             *)
(***************************************************************************)
Calls == [op : {"frequency"}, to : Frequencies] \cup [op : {"antenna"}, to : Antennas]
           \cup [op : {"enable", "stop", "disable"}, to : {"stream"}]
Enable == [op |-> "enable", to |-> "stream"]
Stop == [op |-> "stop", to |-> "stream"]
Disable == [op |-> "disable", to |-> "stream"]

\* FB, FA, an echo of the command, or no reply.
Answers == {"ack", "nak", "echo", "none"}

Subjects == {"frequency", "antenna", "stream"}

Exchanging == {"send", "sent", "reply"}

TypeOK ==
    /\ made \in BOOLEAN /\ enabled \in BOOLEAN
    /\ member \in Members
    /\ frequency \in Frequencies \cup {"unknown"}
    /\ antenna \in Antennas \cup {"RX", "unknown"}
    /\ source \in Receivers \cup {"off"}
    /\ tuned \in WholeHertz /\ selected \in Antennas
    /\ pc \in [Threads -> Exchanging \cup {"idle", "abort", "stop", "read", "wait"}]
    /\ call \in [Threads -> Calls]
    /\ answer \in [Threads -> Answers]
    /\ late \in [Threads -> BOOLEAN]
    /\ confused \in BOOLEAN
    /\ doubt \in SUBSET Subjects

\* Before the device is made; the radio may still stream for an earlier program.
Init ==
    /\ made = FALSE /\ enabled = FALSE
    /\ member \in Members
    /\ frequency = "unknown" /\ antenna = "unknown"
    /\ source \in {"main", "off"}
    /\ tuned \in WholeHertz /\ selected \in Antennas
    /\ pc = [t \in Threads |-> "idle"]
    /\ call = [t \in Threads |-> Disable]
    /\ answer = [t \in Threads |-> "none"]
    /\ late = [t \in Threads |-> FALSE]
    /\ confused = FALSE /\ doubt = {}

Idle == \A t \in Threads : pc[t] = "idle"

-----------------------------------------------------------------------------
(* The device object                                                       *)

(***************************************************************************)
(* The constructor asks for the frequency and the antenna.  An exchange    *)
(* that is refused leaves what lies behind the reply, one that is not      *)
(* answered leaves the value unknown and the pipe confused.                *)
(***************************************************************************)
Make ==
    /\ ~made /\ Idle
    /\ made' = TRUE /\ enabled' = FALSE
    /\ member' \in Members
    /\ \/ /\ ~confused
          /\ frequency' = tuned /\ antenna' = selected
          /\ doubt' = {} /\ UNCHANGED confused
       \/ /\ frequency' \in WholeHertz \cup {"unknown"}
          /\ antenna' \in Antennas \cup {"unknown"}
          /\ \/ confused' = TRUE /\ doubt' = Subjects
             \/ ~confused /\ doubt' = {"frequency", "antenna"} /\ UNCHANGED confused
    /\ UNCHANGED <<source, tuned, selected, pc, call, answer, late>>

\* The destructor closes the port; a radio that streams goes on.
Unmake ==
    /\ made /\ Idle
    /\ made' = FALSE
    /\ UNCHANGED <<member, enabled, frequency, antenna, radio, pc, call, answer, late,
                   confused, doubt>>

-----------------------------------------------------------------------------
(* The calls of the application                                            *)

\* Bound: no call is followed that begins when replies are confused; nothing holds of it.
Enter(t, state) ==
    /\ made /\ ~confused
    /\ pc[t] = "idle"
    /\ pc' = [pc EXCEPT ![t] = state]

SetFrequency(t, f) ==
    /\ Enter(t, "send")
    /\ call' = [call EXCEPT ![t] = [op |-> "frequency", to |-> f]]
    /\ UNCHANGED <<device, radio, answer, late, confused, doubt>>

SetAntenna(t, a) ==
    /\ Enter(t, "send")
    /\ call' = [call EXCEPT ![t] = [op |-> "antenna", to |-> a]]
    /\ UNCHANGED <<device, radio, answer, late, confused, doubt>>

\* The receive antenna's names are kept and not sent.
SetAntennaRX(t) ==
    /\ Enter(t, "idle")
    /\ antenna' = "RX"
    /\ UNCHANGED <<made, member, enabled, frequency, radio, call, answer, late,
                   confused, doubt>>

\* enableIQData sends nothing when the flag is up; "opened" is never set, so none is refused.
ActivateStream(t) ==
    /\ Enter(t, IF enabled THEN "abort" ELSE "send")
    /\ call' = IF enabled THEN call ELSE [call EXCEPT ![t] = Enable]
    /\ UNCHANGED <<device, radio, answer, late, confused, doubt>>

DeactivateStream(t) ==
    /\ Enter(t, "stop")
    /\ UNCHANGED <<device, radio, call, answer, late, confused, doubt>>

\* readStream finds the flag up; otherwise it returns at once.
ReadStream(t) ==
    /\ enabled
    /\ Enter(t, "read")
    /\ UNCHANGED <<device, radio, call, answer, late, confused, doubt>>

\* A deactivation is between its abort and the end of its second disable command.
Deactivating == \E u \in Threads : pc[u] \in Exchanging /\ call[u].op \in {"stop", "disable"}

\* Only now FT_ReadPipe is called.
StartRead(t) ==
    /\ pc[t] = "read"
    /\ pc' = [pc EXCEPT ![t] = "wait"]
    /\ late' = [late EXCEPT ![t] = ~enabled \/ Deactivating]
    /\ UNCHANGED <<device, radio, call, answer, confused, doubt>>

\* It ends with samples while the radio streams, with a timeout at any time.
EndRead(t) ==
    /\ pc[t] = "wait"
    /\ pc' = [pc EXCEPT ![t] = "idle"]
    /\ late' = [late EXCEPT ![t] = FALSE]
    /\ UNCHANGED <<device, radio, call, answer, confused, doubt>>

\* FT_AbortPipe(IQ_IN): every read that waits fails, whosever it is.
Aborted(state) == IF state = "wait" THEN "idle" ELSE state

\* The last step of activateStream clears the pipe.
iqAbortPipe(t) ==
    /\ pc[t] = "abort"
    /\ pc' = [[u \in Threads |-> Aborted(pc[u])] EXCEPT ![t] = "idle"]
    /\ late' = [u \in Threads |-> FALSE]
    /\ UNCHANGED <<device, radio, call, answer, confused, doubt>>

\* Faulty variant: the pipes are not aborted.
iqAsyncStop_NoAbort(t) ==
    /\ pc[t] = "stop"
    /\ pc' = [pc EXCEPT ![t] = "send"]
    /\ call' = [call EXCEPT ![t] = Stop]
    /\ UNCHANGED <<device, radio, answer, late, confused, doubt>>

\* Faulty variant: nothing is done when the flag is down.
iqAsyncStop_OnlyEnabled(t) ==
    /\ pc[t] = "stop"
    /\ pc' = [pc EXCEPT ![t] = IF enabled THEN "send" ELSE "idle"]
    /\ call' = IF enabled THEN [call EXCEPT ![t] = Stop] ELSE call
    /\ UNCHANGED <<device, radio, answer, late, confused, doubt>>

(***************************************************************************)
(* iqAsyncStop aborts IQ_IN and both command pipes: another thread that    *)
(* waits for a reply gets none, and the reply comes to somebody else.      *)
(***************************************************************************)
iqAsyncStop(t) ==
    LET cut == {u \in Threads : pc[u] \in {"sent", "reply"}}
    IN /\ pc[t] = "stop"
       /\ pc' = [u \in Threads |-> IF u = t THEN "send"
                                   ELSE IF u \in cut THEN "reply" ELSE Aborted(pc[u])]
       /\ call' = [call EXCEPT ![t] = Stop]
       /\ answer' = [u \in Threads |-> IF u \in cut THEN "none" ELSE answer[u]]
       /\ late' = [u \in Threads |-> FALSE]
       /\ confused' = (confused \/ cut # {})
       /\ doubt' = IF cut # {} THEN Subjects ELSE doubt
       /\ UNCHANGED <<device, radio>>

-----------------------------------------------------------------------------
(* What a call makes of its reply                                          *)

\* Faulty variant: any reply sets the frequency.
FrequencyAfter_AnyReply(k, r) == IF r = "none" THEN {frequency} ELSE {k.to}

\* setFrequency keeps what it was asked for, fraction and all, when the result is above 0:
\* FB gives the frequency, an echo what lies behind it.
FrequencyAfter(k, r) ==
    CASE r = "ack" -> {k.to} [] r = "echo" -> {frequency, k.to} [] OTHER -> {frequency}

\* Faulty variant: iqSetAntenna's success, 1, is not what setAntenna looks for.
AntennaAfter_Never(k) == antenna

\* iqSetAntenna returns 0 whatever the reply, which setAntenna takes for success.
AntennaAfter(k) == k.to

\* Faulty variant: the flag is not taken down.
EnabledAfter_StaysUp(k, r) == enabled \/ (r # "none" /\ k.op = "enable")

\* Any reply counts.
EnabledAfter(k, r) == IF r = "none" THEN enabled ELSE k.op = "enable"

(***************************************************************************)
(* What the device is now right or wrong about.  A setting the radio has   *)
(* carried out and whose reply the call understood is right from here on,  *)
(* unless replies are confused.                                            *)
(***************************************************************************)
Doubt(k, r) ==
    LET subject == IF k.op \in {"frequency", "antenna"} THEN k.op ELSE "stream"
    IN IF confused THEN Subjects
       ELSE CASE r = "ack" -> doubt \ {subject}
              [] r = "echo" -> IF k.op = "frequency" THEN doubt \cup {subject}
                               ELSE doubt \ {subject}
              [] r = "nak" -> IF k.op = "frequency" THEN doubt ELSE doubt \cup {subject}
              [] r = "none" -> IF k.op \in {"frequency", "enable"} THEN doubt
                               ELSE doubt \cup {subject}

\* Where the call goes on: the first disable to the second, and activateStream to its
\* abort when enableIQData returns the flag up, whoever has raised it.
Continue(k, r) ==
    CASE k.op = "stop" -> "send"
      [] k.op = "enable" /\ EnabledAfter(k, r) -> "abort"
      [] OTHER -> "idle"

\* The reply r, or none, is interpreted.
Finish(t, r) ==
    LET k == call[t]
    IN /\ pc' = [pc EXCEPT ![t] = Continue(k, r)]
       /\ call' = [call EXCEPT ![t] = Disable]
       /\ answer' = [answer EXCEPT ![t] = "none"]
       /\ frequency' \in IF k.op = "frequency" THEN FrequencyAfter(k, r) ELSE {frequency}
       /\ antenna' = IF k.op = "antenna" THEN AntennaAfter(k) ELSE antenna
       /\ enabled' = IF k.op \in {"frequency", "antenna"} THEN enabled
                      ELSE EnabledAfter(k, r)
       /\ doubt' = Doubt(k, r)
       /\ UNCHANGED <<made, member, radio, late, confused>>

-----------------------------------------------------------------------------
(* One exchange (sendIQCommand and readIQReply), and the radio             *)

Send(t) ==
    LET overlap == \E u \in Threads : pc[u] \in {"sent", "reply"}
    IN /\ pc[t] = "send"
       /\ pc' = [pc EXCEPT ![t] = "sent"]
       /\ confused' = (confused \/ overlap)
       /\ doubt' = IF overlap THEN Subjects ELSE doubt
       /\ UNCHANGED <<device, radio, call, answer, late>>

\* FT_WritePipe fails, by itself or because the pipe is aborted.
SendFails(t) ==
    /\ pc[t] = "send"
    /\ Finish(t, "none")

\* The source byte is _vfo + 1: 255 becomes 0, which is off.
Source == IF member \in Receivers THEN member ELSE "off"

\* A frequency is sent in whole hertz.
CarryOut(k) ==
    /\ tuned' = IF k.op = "frequency" THEN Whole[k.to] ELSE tuned
    /\ selected' = IF k.op = "antenna" THEN k.to ELSE selected
    /\ source' = CASE k.op = "enable" -> Source
                   [] k.op \in {"stop", "disable"} -> "off"
                   [] OTHER -> source

\* The radio does not know other receivers.
Known(k) == ~(k.op = "enable" /\ member = "other")

\* The radio carries out the command and answers.
Obey(t) ==
    /\ pc[t] = "sent"
    /\ Known(call[t])
    /\ CarryOut(call[t])
    /\ pc' = [pc EXCEPT ![t] = "reply"]
    /\ \E r \in {"ack", "echo"} : answer' = [answer EXCEPT ![t] = r]
    /\ UNCHANGED <<device, call, late, confused, doubt>>

Refuse(t) ==
    /\ pc[t] = "sent"
    /\ pc' = [pc EXCEPT ![t] = "reply"]
    /\ answer' = [answer EXCEPT ![t] = "nak"]
    /\ UNCHANGED <<device, radio, call, late, confused, doubt>>

\* FT_ReadPipe times out; the command is lost, or on its way, or its reply is.
NoReply(t) ==
    /\ pc[t] = "sent"
    /\ \/ UNCHANGED radio
       \/ Known(call[t]) /\ CarryOut(call[t])
    /\ pc' = [pc EXCEPT ![t] = "reply"]
    /\ answer' = [answer EXCEPT ![t] = "none"]
    /\ confused' = TRUE /\ doubt' = Subjects
    /\ UNCHANGED <<device, call, late>>

\* In a confused pipe the reply to another command comes first.
Mixed(t) ==
    /\ confused
    /\ pc[t] = "sent"
    /\ pc' = [pc EXCEPT ![t] = "reply"]
    /\ \E r \in {"ack", "nak", "echo"} : answer' = [answer EXCEPT ![t] = r]
    /\ UNCHANGED <<device, radio, call, late, confused, doubt>>

Reply(t) ==
    /\ pc[t] = "reply"
    /\ Finish(t, answer[t])

Application(t) ==
    \/ \E f \in Frequencies : SetFrequency(t, f)
    \/ \E a \in Antennas : SetAntenna(t, a)
    \/ SetAntennaRX(t)
    \/ ActivateStream(t)
    \/ DeactivateStream(t)
    \/ ReadStream(t)

Step(t) ==
    \/ StartRead(t) \/ EndRead(t)
    \/ iqAbortPipe(t) \/ iqAsyncStop(t)
    \/ Send(t) \/ SendFails(t) \/ Reply(t)

Radio(t) == Obey(t) \/ Refuse(t) \/ NoReply(t) \/ Mixed(t)

Next ==
    \/ Make
    \/ Unmake
    \/ \E t \in Threads : Application(t) \/ Step(t) \/ Radio(t)

Spec == Init /\ [][Next]_vars

-----------------------------------------------------------------------------
(* Properties                                                              *)

Busy(op) == \E t \in Threads : pc[t] \in Exchanging /\ call[t].op = op

(***************************************************************************)
(* getFrequency answers from a cache.  Between calls it is, but for the    *)
(* fraction of a hertz that is not sent, the frequency the radio is tuned  *)
(* to, whatever was refused or could not be sent, until a reply is missed  *)
(* or mixed up, or an echo is taken for a value.                           *)
(***************************************************************************)
FrequencyTrue ==
    made /\ "frequency" \notin doubt /\ ~Busy("frequency")
      => frequency \in Frequencies /\ Whole[frequency] = tuned

(***************************************************************************)
(* getAntenna's cache is the radio's antenna, or a receive antenna's name, *)
(* as long as every antenna command was carried out; one that was refused  *)
(* or not sent is cached all the same.                                     *)
(***************************************************************************)
AntennaTrue ==
    made /\ "antenna" \notin doubt /\ ~Busy("antenna") => antenna \in {selected, "RX"}

\* The stream is known, and no command that switches it is under way.
StreamKnown == "stream" \notin doubt /\ \A op \in {"enable", "stop", "disable"} : ~Busy(op)

(***************************************************************************)
(* The flag that readStream and enableIQData go by is up only while the    *)
(* radio does what the byte made of the uninitialised _vfo tells it, which *)
(* for 255 is to stream nothing; between the commands that switch the      *)
(* stream, and while none of them was refused.                             *)
(***************************************************************************)
FlagTrue == StreamKnown => (made /\ enabled => source = Source)

(***************************************************************************)
(* deactivateStream aborts the reads first and switches the stream off     *)
(* afterwards, while readStream tests the flag some time before it reads.  *)
(* A read waits on a radio that is off only when it began in that gap.     *)
(* Two things are excepted: a _vfo that names no receiver, with which      *)
(* every read waits in vain, and a stream in doubt, because a command that *)
(* switches it was refused or its reply missed or mixed up.                *)
(***************************************************************************)
VainReadsAreLate ==
    \A t \in Threads :
        pc[t] = "wait" /\ source = "off" /\ member \in Receivers
          => late[t] \/ "stream" \in doubt

(***************************************************************************)
(* When deactivateStream or closeStream returns, the radio has stopped,    *)
(* unless its last command was refused, not sent or not answered.  Disable *)
(* is sent even when the flag is down, which ends what an earlier program  *)
(* or device object left on.                                               *)
(***************************************************************************)
DeactivatedIsOff ==
    [][\A t \in Threads :
          /\ \/ pc[t] = "stop"
             \/ pc[t] \in Exchanging /\ call[t].op \in {"stop", "disable"}
          /\ pc'[t] = "idle"
          => source' = "off" \/ "stream" \in doubt']_vars
=============================================================================
