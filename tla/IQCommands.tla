----------------------------- MODULE IQCommands -----------------------------
(***************************************************************************)
(* The CI-V commands of IcomIQPort (src/IcomIQPort.cpp): a command is      *)
(* written to the pipe CMD_OUT and one reply is read from CMD_IN, without  *)
(* a lock around the two, and nothing in a reply is compared with the      *)
(* command.  Every get, set, enable and disable call goes through this     *)
(* exchange and interprets the reply in its own way.                       *)
(*                                                                         *)
(* The radio is external: it obeys a command or refuses it, answers late   *)
(* or never.  The value a setting is given or has, its BCD digits and the  *)
(* VFO it is for are left out: what counts is whose reply a call reads and *)
(* what it makes of it.                                                    *)
(***************************************************************************)
EXTENDS Naturals, Sequences

CONSTANTS Callers,    \* threads that call the port
          Nobody,     \* stands for the caller of an exchange that was given up
          Settings,   \* the settings commands are about
          MaxQueued   \* bound: messages either pipe holds

ASSUME CommandsAssumption ==
    /\ Nobody \notin Callers
    /\ Settings # {}
    /\ Settings \subseteq {"gain", "attenuator", "antenna", "preamp", "digiSel", "ipPlus",
                           "frequency", "iqData"}
    /\ MaxQueued \in Nat \ {0}

VARIABLES out, in,    \* what is in CMD_OUT and in CMD_IN
          enabled,    \* _iqDataEnabled
          pc,         \* where each caller is in icomIQCommand
          cmd,        \* the command of each caller's current or last call
          result,     \* what that call returned
          obeyed,     \* the radio carried out that command
          mixed,      \* the reply that call interpreted was not the reply to it
          disturbed   \* a read has timed out, or two exchanges have overlapped

vars == <<out, in, enabled, pc, cmd, result, obeyed, mixed, disturbed>>

\* iqData is switched on and off, and cannot be read; preamp can only be read.
Commands ==
    [op : {"get"}, setting : Settings \ {"iqData"}]
      \cup [op : {"set"}, setting : Settings \ {"iqData", "preamp"}]
      \cup [op : {"enable", "disable"}, setting : Settings \cap {"iqData"}]

Owners == Callers \cup {Nobody}
Requests == [cmd : Commands, owner : Owners]

(***************************************************************************)
(* A reply is FB ("ack"), another message of that length ("nak": FA, or an *)
(* echo of enable or disable), or a longer one with a value ("full": an    *)
(* answer, or an echo of any other command).  No caller tells more apart.  *)
(***************************************************************************)
Replies == [kind : {"ack", "nak", "full"}, owner : Owners]

(***************************************************************************)
(* What a call returns: a value, its error value, success, nothing, or     *)
(* whatever lies behind the end of the reply vector it indexed.            *)
(***************************************************************************)
Results == {"none", "value", "error", "success", "overrun"}

TypeOK ==
    /\ out \in Seq(Requests) /\ Len(out) <= MaxQueued
    /\ in \in Seq(Replies) /\ Len(in) <= MaxQueued
    /\ enabled \in BOOLEAN
    /\ pc \in [Callers -> {"idle", "send", "read"}]
    /\ cmd \in [Callers -> Commands]
    /\ result \in [Callers -> Results]
    /\ obeyed \in [Callers -> BOOLEAN]
    /\ mixed \in [Callers -> BOOLEAN]
    /\ disturbed \in BOOLEAN

Init ==
    /\ out = <<>>
    /\ in = <<>>
    /\ enabled = FALSE
    /\ pc = [c \in Callers |-> "idle"]
    /\ cmd \in [Callers -> {CHOOSE k \in Commands : TRUE}]
    /\ result = [c \in Callers |-> "none"]
    /\ obeyed = [c \in Callers |-> FALSE]
    /\ mixed = [c \in Callers |-> FALSE]
    /\ disturbed = FALSE

-----------------------------------------------------------------------------
(* How a call interprets its reply                                         *)

(***************************************************************************)
(* A getter takes the bytes behind the command's header.  FB and FA are    *)
(* shorter than that: it reads padding (attenuator) or past the end.       *)
(***************************************************************************)
GetResult(setting, reply) ==
    IF reply.kind = "full" \/ setting = "attenuator" THEN "value" ELSE "overrun"

\* iqSetFrequency reads the value out of an echo, where its indices end behind it.
FrequencyResult(reply) ==
    IF reply.kind = "ack" THEN "success"
    ELSE IF reply.kind = "full" THEN "overrun" ELSE "error"

\* Faulty variant: any reply is success.
SetResult_AnyReply(setting, reply) == "success"

(***************************************************************************)
(* A setter: FB is success, and nothing else is for gain and attenuator.   *)
(* For antenna the value is overwritten with the one its caller takes for  *)
(* success; DIGI-SEL and IP+ return nothing, and the flags they set are    *)
(* never read; enable and disable count any reply.                         *)
(***************************************************************************)
SetResult(setting, reply) ==
    CASE setting \in {"gain", "attenuator"} ->
           IF reply.kind = "ack" THEN "success" ELSE "error"
      [] setting = "frequency" -> FrequencyResult(reply)
      [] setting \in {"antenna", "iqData"} -> "success"
      [] setting \in {"digiSel", "ipPlus"} -> "none"

\* Without a reply: three setters index the empty vector all the same.
NoReplyResult(k) ==
    IF k.op = "set" /\ k.setting \in {"antenna", "digiSel", "ipPlus"} THEN "overrun" ELSE "error"

-----------------------------------------------------------------------------
(* The exchange                                                            *)

\* What is queued for a caller that no longer waits belongs to nobody.
Disowned(queue, c) ==
    [i \in DOMAIN queue |->
        IF queue[i].owner = c THEN [queue[i] EXCEPT !.owner = Nobody] ELSE queue[i]]

\* A call is made; enableIQData sends nothing when the flag is up already.
Call(c, k) ==
    /\ pc[c] = "idle"
    /\ ~(k.op = "enable" /\ enabled)
    /\ pc' = [pc EXCEPT ![c] = "send"]
    /\ cmd' = [cmd EXCEPT ![c] = k]
    /\ result' = [result EXCEPT ![c] = "none"]
    /\ obeyed' = [obeyed EXCEPT ![c] = FALSE]
    /\ mixed' = [mixed EXCEPT ![c] = FALSE]
    /\ UNCHANGED <<out, in, enabled, disturbed>>

\* sendIQCommand: FT_WritePipe takes the whole message.
sendIQCommand(c) ==
    /\ pc[c] = "send"
    /\ Len(out) < MaxQueued
    /\ out' = Append(out, [cmd |-> cmd[c], owner |-> c])
    /\ pc' = [pc EXCEPT ![c] = "read"]
    /\ disturbed' = (disturbed \/ \E d \in Callers : pc[d] = "read")
    /\ UNCHANGED <<in, enabled, cmd, result, obeyed, mixed>>

\* The call ends without a reply.
ReturnEmpty(c) ==
    /\ pc' = [pc EXCEPT ![c] = "idle"]
    /\ result' = [result EXCEPT ![c] = NoReplyResult(cmd[c])]
    /\ out' = Disowned(out, c)
    /\ in' = Disowned(in, c)
    /\ UNCHANGED <<enabled, cmd, obeyed, mixed>>

\* FT_WritePipe fails: no reply is read.
sendIQCommand_fails(c) ==
    /\ pc[c] = "send"
    /\ ReturnEmpty(c)
    /\ UNCHANGED disturbed

\* Faulty variant: FT_ReadPipe without a timeout.
readIQReply_fails_Never(c) == FALSE /\ ReturnEmpty(c) /\ UNCHANGED disturbed

(***************************************************************************)
(* readIQReply: FT_ReadPipe times out, and FT_AbortPipe ends the transfer  *)
(* that was pending.  What the radio sends later stays in the pipe.        *)
(***************************************************************************)
readIQReply_fails(c) ==
    /\ pc[c] = "read"
    /\ in = <<>>
    /\ ReturnEmpty(c)
    /\ disturbed' = TRUE

\* Faulty variant: a reply that was read stays in the pipe.
readIQReply_Peek(c) ==
    /\ pc[c] = "read"
    /\ in # <<>>
    /\ LET reply == Head(in)
           k == cmd[c]
       IN /\ result' = [result EXCEPT ![c] = IF k.op = "get"
                                             THEN GetResult(k.setting, reply)
                                             ELSE SetResult(k.setting, reply)]
          /\ enabled' = IF k.setting = "iqData" THEN k.op = "enable" ELSE enabled
          /\ mixed' = [mixed EXCEPT ![c] = reply.owner # c]
    /\ in' = Disowned(in, c)
    /\ out' = Disowned(out, c)
    /\ pc' = [pc EXCEPT ![c] = "idle"]
    /\ UNCHANGED <<cmd, obeyed, disturbed>>

\* readIQReply takes the oldest reply, whosever it is, and the call interprets it.
readIQReply(c) ==
    /\ pc[c] = "read"
    /\ in # <<>>
    /\ LET reply == Head(in)
           k == cmd[c]
       IN /\ result' = [result EXCEPT ![c] = IF k.op = "get"
                                             THEN GetResult(k.setting, reply)
                                             ELSE SetResult(k.setting, reply)]
          /\ enabled' = IF k.setting = "iqData" THEN k.op = "enable" ELSE enabled
          /\ mixed' = [mixed EXCEPT ![c] = reply.owner # c]
    /\ in' = Disowned(Tail(in), c)
    /\ out' = Disowned(out, c)
    /\ pc' = [pc EXCEPT ![c] = "idle"]
    /\ UNCHANGED <<cmd, obeyed, disturbed>>

CallerStep(c) ==
    \/ sendIQCommand(c)
    \/ sendIQCommand_fails(c)
    \/ readIQReply(c)
    \/ readIQReply_fails(c)

-----------------------------------------------------------------------------
(* The radio (external)                                                    *)

Obeyed(request) ==
    obeyed' = [c \in Callers |-> obeyed[c] \/ c = request.owner]

\* What it answers when it does as it is told: the value asked for, FB, or an echo.
Answers(op) ==
    CASE op = "get" -> {"full"}
      [] op = "set" -> {"ack", "full"}
      [] op \in {"enable", "disable"} -> {"ack", "nak"}

Obey ==
    /\ out # <<>>
    /\ Len(in) < MaxQueued
    /\ \E kind \in Answers(Head(out).cmd.op) :
         in' = Append(in, [kind |-> kind, owner |-> Head(out).owner])
    /\ Obeyed(Head(out))
    /\ out' = Tail(out)
    /\ UNCHANGED <<enabled, pc, cmd, result, mixed, disturbed>>

Refuse ==
    /\ out # <<>>
    /\ Len(in) < MaxQueued
    /\ in' = Append(in, [kind |-> "nak", owner |-> Head(out).owner])
    /\ out' = Tail(out)
    /\ UNCHANGED <<enabled, pc, cmd, result, obeyed, mixed, disturbed>>

\* The command, or its reply, is lost.
Lose ==
    /\ out # <<>>
    /\ \/ UNCHANGED obeyed
       \/ Obeyed(Head(out))
    /\ out' = Tail(out)
    /\ UNCHANGED <<in, enabled, pc, cmd, result, mixed, disturbed>>

-----------------------------------------------------------------------------

Next ==
    \/ \E c \in Callers : CallerStep(c) \/ \E k \in Commands : Call(c, k)
    \/ Obey
    \/ Refuse
    \/ Lose

Spec == Init /\ [][Next]_vars

\* A caller inside icomIQCommand goes on: FT_WritePipe and FT_ReadPipe have timeouts.
Fairness == \A c \in Callers : WF_vars(CallerStep(c))

FairSpec == Spec /\ Fairness

-----------------------------------------------------------------------------
(* Properties                                                              *)

(***************************************************************************)
(* Replies carry no number and none is compared with its command; they     *)
(* match by their order alone.  So no call is given another's reply before *)
(* a read has timed out or two threads have used the port at once.         *)
(***************************************************************************)
MixedOnlyDisturbed == \A c \in Callers : mixed[c] => disturbed

(***************************************************************************)
(* The setters that look at their reply report success only when the radio *)
(* has carried out their command, unless the reply was another's.          *)
(***************************************************************************)
SuccessMeansObeyed ==
    \A c \in Callers :
        result[c] = "success" /\ cmd[c].setting \in {"gain", "attenuator", "frequency"}
          => obeyed[c] \/ mixed[c]

(* Every call returns, whether or not the radio answers.                   *)
EveryCallReturns == \A c \in Callers : pc[c] = "send" ~> pc[c] = "idle"
=============================================================================
