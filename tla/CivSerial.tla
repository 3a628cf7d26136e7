----------------------------- MODULE CivSerial -----------------------------
(***************************************************************************)
(* IcomCIVPort (src/IcomCIVPort.cpp): CI-V commands over the radio's       *)
(* serial port.  A command is written whole, and its reply is read byte by *)
(* byte until the end-of-message byte, a timeout or a full buffer; nothing *)
(* in it is compared with the command, and what is not read stays on the   *)
(* line for the next call.                                                 *)
(*                                                                         *)
(* libserialport and the radio are external.  The radio answers at any     *)
(* time or not at all, may echo what it receives, and sends messages of    *)
(* its own (its transceive mode); the line may lose a byte.  Of a byte     *)
(* only its place in its message and the command it answers are kept.      *)
(***************************************************************************)
EXTENDS Naturals, Sequences

CONSTANTS MsgSizes,   \* bytes in a message of the radio
          MaxReply,   \* CIV_READ_BUFFER_SIZE - 1
          MaxLine     \* bound: bytes under way or received and not read

ASSUME CivAssumption ==
    /\ MsgSizes \subseteq Nat \ {0, 1}
    /\ MaxReply \in Nat \ {0}
    /\ MaxLine \in Nat

VARIABLES port,       \* what _civ_port points to
          isOpen,     \* _isOpen
          inits,      \* how the calls of init on this object have ended
          pc,         \* "none" without an object, else where its caller is
          reply,      \* the bytes the current or last call has read
          result,     \* what the last call returned
          line,       \* bytes received and not read
          coming,     \* bytes the radio has sent that are under way
          echoes,     \* the radio repeats what it receives
          disturbed,  \* the line has held more or less than the answers waited for
          lost,       \* a byte has been lost
          fault       \* a pointer to no port has been used

objectVars == <<port, isOpen, inits>>
lineVars == <<line, coming, echoes>>
historyVars == <<disturbed, lost>>
vars == <<objectVars, pc, reply, result, lineVars, historyVars, fault>>

\* A byte: its place in its message, and whether it answers the current command.
Bytes == [at : {"head", "body", "eom"}, own : BOOLEAN]

Message(n, own) ==
    [i \in 1 .. n |-> [at |-> IF i = 1 THEN "head" ELSE IF i = n THEN "eom" ELSE "body",
                       own |-> own]]

TypeOK ==
    /\ port \in {"unset", "null", "valid", "freed"}
    /\ isOpen \in BOOLEAN
    /\ inits \in {"none", "ok", "failed", "again"}
    /\ pc \in {"none", "idle", "reading"}
    /\ reply \in Seq(Bytes) /\ Len(reply) <= MaxReply
    /\ result \in {"none", "failed", "nothing", "bytes"}
    /\ line \in Seq(Bytes)
    /\ coming \in Seq(Bytes)
    /\ Len(line) + Len(coming) <= MaxLine
    /\ echoes \in BOOLEAN /\ disturbed \in BOOLEAN /\ lost \in BOOLEAN /\ fault \in BOOLEAN

Init ==
    /\ port = "unset"
    /\ isOpen = FALSE
    /\ inits = "none"
    /\ pc = "none"
    /\ reply = <<>>
    /\ result = "none"
    /\ line = <<>>
    /\ coming = <<>>
    /\ echoes \in BOOLEAN
    /\ disturbed = FALSE
    /\ lost = FALSE
    /\ fault = FALSE

-----------------------------------------------------------------------------
(* The object                                                              *)

\* The constructor leaves _civ_port unset.
Construct ==
    /\ pc = "none"
    /\ pc' = "idle"
    /\ port' = "unset"
    /\ isOpen' = FALSE
    /\ inits' = "none"
    /\ reply' = <<>>
    /\ result' = "none"
    /\ UNCHANGED <<lineVars, historyVars, fault>>

\* What init may leave in _civ_port: no port was named, or found, or opened, or all went well.
InitOutcomes == {port, "null", "freed", "valid"}

\* Faulty variant: _isOpen is set before the port is opened.
OpenAfter_Early(opened) == TRUE

OpenAfter(opened) == isOpen \/ opened

\* init, with the name findIcomCtrlPort gave, empty when it found no port.
InitPort ==
    /\ pc = "idle"
    /\ \E outcome \in InitOutcomes, opened \in BOOLEAN :
         /\ opened => outcome = "valid"
         /\ outcome = "valid" => opened \/ port = "valid"
         /\ port' = outcome
         /\ isOpen' = OpenAfter(opened)
         /\ inits' = IF inits # "none" THEN "again" ELSE IF opened THEN "ok" ELSE "failed"
    /\ UNCHANGED <<pc, reply, result, lineVars, historyVars, fault>>

\* sp_close and sp_free_port, whatever _civ_port is; they take a null pointer.
Destroy ==
    /\ pc = "idle"
    /\ pc' = "none"
    /\ fault' = (port \in {"unset", "freed"})
    /\ UNCHANGED <<objectVars, reply, result, lineVars, historyVars>>

-----------------------------------------------------------------------------
(* icomCIVCommand                                                          *)

\* What is on the line when a call begins answers an earlier command.
Stale(bytes) == [i \in DOMAIN bytes |-> [at |-> bytes[i].at, own |-> FALSE]]

\* The radio's echo of the command, if it echoes, and its answer, if it answers.
Sent(answers) == (IF echoes THEN Message(2, FALSE) ELSE <<>>) \o answers

(***************************************************************************)
(* sendCIVCmd: a write that does not fail counts as whole, although it may *)
(* have timed out in the middle, and the radio ignores what it then has.   *)
(***************************************************************************)
sendCIVCmd ==
    /\ pc = "idle"
    /\ port = "valid"
    /\ pc' = "reading"
    /\ reply' = <<>>
    /\ line' = Stale(line)
    /\ \E answers \in {<<>>} \cup {Message(n, TRUE) : n \in MsgSizes} :
         /\ coming' = Stale(coming) \o Sent(answers)
         /\ Len(line) + Len(coming') <= MaxLine
    /\ disturbed' = (disturbed \/ echoes)
    /\ UNCHANGED <<objectVars, result, echoes, lost, fault>>

\* sp_blocking_write fails: no reply is read.
sendCIVCmd_fails ==
    /\ pc = "idle"
    /\ port \in {"valid", "null"}
    /\ reply' = <<>>
    /\ result' = "failed"
    /\ UNCHANGED <<objectVars, pc, lineVars, historyVars, fault>>

\* A call on an object without a port.
UseNoPort ==
    /\ pc = "idle"
    /\ port \in {"unset", "freed"}
    /\ fault' = TRUE
    /\ UNCHANGED <<objectVars, pc, reply, result, lineVars, historyVars>>

Return(outcome) ==
    /\ pc' = "idle"
    /\ result' = outcome

\* Faulty variants: the end of the message is not seen, the buffer is taken to hold one
\* byte more, and one read is taken for the whole message.
EndsReply_PastEnd(byte, n) == n = MaxReply
EndsReply_OneMore(byte, n) == byte.at = "eom" \/ n = MaxReply + 1
EndsReply_Once(byte, n) == TRUE

\* CIV_EOM ends the reply, and so does a full buffer.
EndsReply(byte, n) == byte.at = "eom" \/ n = MaxReply

\* readCIVReply takes the n-th byte.
ReadByte ==
    /\ pc = "reading"
    /\ line # <<>>
    /\ reply' = Append(reply, Head(line))
    /\ line' = Tail(line)
    /\ IF EndsReply(Head(line), Len(reply')) THEN Return("bytes") ELSE UNCHANGED <<pc, result>>
    /\ disturbed' = (disturbed \/ (Len(reply') = MaxReply /\ Head(line).at # "eom"))
    /\ UNCHANGED <<objectVars, coming, echoes, lost, fault>>

\* Faulty variant: a byte is waited for without a timeout.
ReadTimeout_Never == FALSE /\ UNCHANGED vars

\* No byte came for half a second: what has been read is the reply.
ReadTimeout ==
    /\ pc = "reading"
    /\ line = <<>>
    /\ Return(IF reply = <<>> THEN "nothing" ELSE "bytes")
    /\ disturbed' = TRUE
    /\ UNCHANGED <<objectVars, reply, lineVars, lost, fault>>

\* sp_blocking_read fails: the bytes read stay in the caller's vector.
ReadFails ==
    /\ pc = "reading"
    /\ Return("failed")
    /\ disturbed' = TRUE
    /\ UNCHANGED <<objectVars, reply, lineVars, lost, fault>>

\* The caller's own way on in readCIVReply; a failure is not its choice.
CallerStep == ReadByte \/ ReadTimeout

-----------------------------------------------------------------------------
(* The line and the radio (external)                                       *)

Receive ==
    /\ coming # <<>>
    /\ line' = Append(line, Head(coming))
    /\ coming' = Tail(coming)
    /\ UNCHANGED <<objectVars, pc, reply, result, echoes, historyVars, fault>>

Lose ==
    /\ coming # <<>>
    /\ coming' = Tail(coming)
    /\ disturbed' = TRUE
    /\ lost' = TRUE
    /\ UNCHANGED <<objectVars, pc, reply, result, line, echoes, fault>>

\* A message no one asked for: the operator has turned a knob.
Transceive ==
    /\ \E n \in MsgSizes : coming' = coming \o Message(n, FALSE)
    /\ Len(line) + Len(coming') <= MaxLine
    /\ disturbed' = TRUE
    /\ UNCHANGED <<objectVars, pc, reply, result, line, echoes, lost, fault>>

-----------------------------------------------------------------------------

Next ==
    /\ ~fault
    /\ \/ Construct \/ InitPort \/ Destroy
       \/ sendCIVCmd \/ sendCIVCmd_fails \/ UseNoPort
       \/ CallerStep \/ ReadFails
       \/ Receive \/ Lose \/ Transceive

Spec == Init /\ [][Next]_vars

\* A caller inside readCIVReply goes on: every read of a byte has a timeout.
FairSpec == Spec /\ WF_vars(CallerStep)

-----------------------------------------------------------------------------
(* Properties                                                              *)

(***************************************************************************)
(* Until the line has been disturbed (by an echo, a message of the radio's *)
(* own, a lost byte, a read that ended early, an answer too long for the   *)
(* buffer or too late), a call that returns bytes returns the whole answer *)
(* to its own command and nothing else.                                    *)
(***************************************************************************)
AnswersAreOwn ==
    ~disturbed /\ pc = "idle" /\ result = "bytes" =>
        /\ \A i \in DOMAIN reply : reply[i].own
        /\ reply # <<>> /\ reply[1].at = "head" /\ reply[Len(reply)].at = "eom"

(***************************************************************************)
(* Whatever the line brings, in whatever pieces, a reply never runs from   *)
(* one message into the next, as long as the line itself loses nothing.    *)
(***************************************************************************)
RepliesNeverJoin ==
    ~lost => \A i \in DOMAIN reply \ {1} : reply[i].at # "head" /\ reply[i - 1].at # "eom"

(***************************************************************************)
(* An object that says it is open has a port, and one initialised once and *)
(* well is used and destroyed without harm: only a second init can leave   *)
(* _isOpen up over a port that is gone.                                    *)
(***************************************************************************)
OpenMeansUsable ==
    /\ isOpen /\ pc # "none" => port = "valid" \/ inits = "again"
    /\ fault => inits # "ok"

(* icomCIVCommand returns, whatever the radio sends and however long.      *)
CallsReturn == pc = "reading" ~> pc = "idle"
=============================================================================
