-------------------------- MODULE IQCommandsProofs --------------------------
(***************************************************************************)
(* Proofs about IQCommands, for any number of callers, any settings and    *)
(* any pipe size.  Until a read times out or two exchanges overlap, there  *)
(* is at most one message in the two pipes and it belongs to the caller    *)
(* that waits for it, so no call interprets the reply to another; the      *)
(* types; and that a setter's success is the radio's, for which a reply    *)
(* with an ACK must mean that its sender's command has been obeyed.        *)
(***************************************************************************)
EXTENDS IQCommands, TLAPS

\* The messages in a pipe are those of callers that wait in readIQReply.
Awaited(queue) ==
    \A i \in DOMAIN queue : queue[i].owner \in Callers /\ pc[queue[i].owner] = "read"

\* The state of the port before anything has disturbed it.
Quiet ==
    /\ Len(out) + Len(in) <= 1
    /\ Awaited(out) /\ Awaited(in)
    /\ \A c, d \in Callers : pc[c] = "read" /\ pc[d] = "read" => c = d
    /\ \A c \in Callers : ~mixed[c]

Typed ==
    /\ out \in Seq(Requests)
    /\ in \in Seq(Replies)
    /\ pc \in [Callers -> {"idle", "send", "read"}]
    /\ mixed \in [Callers -> BOOLEAN]
    /\ disturbed \in BOOLEAN

Inv == Typed /\ (~disturbed => Quiet)

LEMMA MessagesDisowned ==
    /\ \A m \in Requests : [m EXCEPT !.owner = Nobody] \in Requests
    /\ \A m \in Replies : [m EXCEPT !.owner = Nobody] \in Replies
  <1>1. ASSUME NEW m \in Requests PROVE [m EXCEPT !.owner = Nobody] \in Requests
    <2>1. m = [cmd |-> m.cmd, owner |-> m.owner] /\ m.cmd \in Commands
      BY DEF Requests
    <2>2. [m EXCEPT !.owner = Nobody] = [cmd |-> m.cmd, owner |-> Nobody]
      BY <2>1
    <2> QED
      BY <2>1, <2>2 DEF Requests, Owners
  <1>2. ASSUME NEW m \in Replies PROVE [m EXCEPT !.owner = Nobody] \in Replies
    <2>1. m = [kind |-> m.kind, owner |-> m.owner] /\ m.kind \in {"ack", "nak", "full"}
      BY DEF Replies
    <2>2. [m EXCEPT !.owner = Nobody] = [kind |-> m.kind, owner |-> Nobody]
      BY <2>1
    <2> QED
      BY <2>1, <2>2 DEF Replies, Owners
  <1> QED
    BY <1>1, <1>2

\* Disowning changes neither the length of a queue nor the kind of its messages.
LEMMA DisownedQueue ==
    ASSUME NEW Messages, NEW queue \in Seq(Messages), NEW c \in Callers,
           \A m \in Messages : [m EXCEPT !.owner = Nobody] \in Messages
    PROVE  /\ Disowned(queue, c) \in Seq(Messages)
           /\ Len(Disowned(queue, c)) = Len(queue)
  <1> DEFINE Changed(i) == IF queue[i].owner = c
                           THEN [queue[i] EXCEPT !.owner = Nobody] ELSE queue[i]
  <1>1. \A i \in 1 .. Len(queue) : Changed(i) \in Messages
    BY DEF Disowned
  <1>2. Disowned(queue, c) = [i \in 1 .. Len(queue) |-> Changed(i)]
    BY DEF Disowned
  <1> HIDE DEF Changed
  <1> QED
    BY <1>1, <1>2

LEMMA TypedInit == ASSUME Init PROVE Inv /\ cmd \in [Callers -> Commands]
  <1>1. Typed
    <2>1. pc \in [Callers -> {"idle", "send", "read"}] /\ mixed \in [Callers -> BOOLEAN]
      BY DEF Init
    <2>2. out \in Seq(Requests) /\ in \in Seq(Replies)
      BY DEF Init
    <2> QED
      BY <2>1, <2>2 DEF Init, Typed
  <1>2. Quiet
    BY DEF Init, Quiet, Awaited
  <1>3. Commands # {}
    <2>1. PICK s \in Settings : TRUE
      BY CommandsAssumption
    <2>2. CASE s = "iqData"
      <3>1. [op |-> "enable", setting |-> s] \in Commands
        BY <2>2 DEF Commands
      <3> QED
        BY <3>1
    <2>3. CASE s # "iqData"
      <3>1. [op |-> "get", setting |-> s] \in Commands
        BY <2>3 DEF Commands
      <3> QED
        BY <3>1
    <2> QED
      BY <2>2, <2>3
  <1> QED
    BY <1>1, <1>2, <1>3 DEF Init, Inv

LEMMA CallStep ==
    ASSUME Inv, NEW c \in Callers, NEW k \in Commands, Call(c, k)
    PROVE  Inv'
  <1>1. Typed'
    BY DEF Inv, Typed, Call
  <1>2. ASSUME ~disturbed' PROVE Quiet'
    BY <1>2 DEF Inv, Typed, Quiet, Awaited, Call
  <1> QED
    BY <1>1, <1>2 DEF Inv

\* While nothing is disturbed a command is sent over empty pipes.
LEMMA SendStep ==
    ASSUME Inv, cmd \in [Callers -> Commands], NEW c \in Callers, sendIQCommand(c)
    PROVE  Inv'
  <1>1. Typed'
    BY DEF Inv, Typed, sendIQCommand, Requests, Owners
  <1>2. ASSUME ~disturbed' PROVE Quiet'
    <2>1. Quiet /\ \A d \in Callers : pc[d] # "read"
      BY <1>2 DEF Inv, Typed, sendIQCommand
    <2>2. out = <<>> /\ in = <<>>
      <3>1. DOMAIN out = {} /\ DOMAIN in = {}
        BY <2>1 DEF Quiet, Awaited
      <3> QED
        BY <3>1 DEF Inv, Typed
    <2>3. out' = <<[cmd |-> cmd[c], owner |-> c]>> /\ in' = <<>>
      BY <2>2 DEF sendIQCommand
    <2> QED
      BY <2>1, <2>3 DEF Inv, Typed, Quiet, Awaited, sendIQCommand
  <1> QED
    BY <1>1, <1>2 DEF Inv

\* A call whose command was not sent leaves no message behind.
LEMMA SendFailsStep ==
    ASSUME Inv, NEW c \in Callers, sendIQCommand_fails(c)
    PROVE  Inv'
  <1>1. Typed'
    BY MessagesDisowned, DisownedQueue
    DEF Inv, Typed, sendIQCommand_fails, ReturnEmpty
  <1>2. ASSUME ~disturbed' PROVE Quiet'
    <2>1. Quiet
      BY <1>2 DEF Inv, sendIQCommand_fails
    <2>2. out' = out /\ in' = in
      BY <2>1 DEF Inv, Typed, Quiet, Awaited, sendIQCommand_fails, ReturnEmpty, Disowned
    <2> QED
      BY <2>1, <2>2 DEF Inv, Typed, Quiet, Awaited, sendIQCommand_fails, ReturnEmpty
  <1> QED
    BY <1>1, <1>2 DEF Inv

LEMMA TimeoutStep ==
    ASSUME Inv, NEW c \in Callers, readIQReply_fails(c)
    PROVE  Inv'
  BY MessagesDisowned, DisownedQueue
  DEF Inv, Typed, readIQReply_fails, ReturnEmpty

\* The only message is the reply the caller waits for.
LEMMA ReadStep ==
    ASSUME Inv, NEW c \in Callers, readIQReply(c)
    PROVE  Inv'
  <1>1. Tail(in) \in Seq(Replies) /\ Len(Tail(in)) = Len(in) - 1 /\ Head(in) = in[1]
        /\ 1 \in DOMAIN in
    BY DEF Inv, Typed, readIQReply
  <1>2. Typed'
    BY <1>1, MessagesDisowned, DisownedQueue DEF Inv, Typed, readIQReply
  <1>3. ASSUME ~disturbed' PROVE Quiet'
    <2>1. Quiet
      BY <1>3 DEF Inv, readIQReply
    <2>2. Head(in).owner = c
      BY <1>1, <2>1 DEF Quiet, Awaited, readIQReply
    <2>3. Len(out) = 0 /\ Len(Tail(in)) = 0
      BY <1>1, <2>1 DEF Inv, Typed, Quiet
    <2>4. Len(out') = 0 /\ Len(in') = 0 /\ DOMAIN out' = {} /\ DOMAIN in' = {}
      <3>1. Len(Disowned(out, c)) = Len(out)
        BY MessagesDisowned, DisownedQueue DEF Inv, Typed
      <3>2. Len(Disowned(Tail(in), c)) = Len(Tail(in))
        BY <1>1, MessagesDisowned, DisownedQueue
      <3>3. Len(out') = 0 /\ Len(in') = 0
        BY <2>3, <3>1, <3>2 DEF readIQReply
      <3> QED
        BY <1>2, <3>3 DEF Typed
    <2>5. \A d \in Callers : ~mixed'[d]
      BY <2>1, <2>2 DEF Inv, Typed, Quiet, readIQReply
    <2> QED
      BY <2>1, <2>4, <2>5 DEF Inv, Typed, Quiet, Awaited, readIQReply
  <1> QED
    BY <1>2, <1>3 DEF Inv

\* The radio turns a command into a reply for the same caller, or drops it.
LEMMA RadioStep ==
    ASSUME Inv, Obey \/ Refuse \/ Lose
    PROVE  Inv'
  <1>1. /\ out # <<>>
        /\ out' = Tail(out)
        /\ Tail(out) \in Seq(Requests)
        /\ Len(Tail(out)) = Len(out) - 1
        /\ \A i \in DOMAIN Tail(out) : Tail(out)[i] = out[i + 1] /\ i + 1 \in DOMAIN out
        /\ Head(out) = out[1] /\ 1 \in DOMAIN out /\ Head(out) \in Requests
    BY DEF Inv, Typed, Obey, Refuse, Lose
  <1>2. \/ in' = in
        \/ \E kind \in {"ack", "nak", "full"} :
             in' = Append(in, [kind |-> kind, owner |-> Head(out).owner])
    <2>1. \A op \in {"get", "set", "enable", "disable"} :
            Answers(op) \subseteq {"ack", "nak", "full"}
      BY DEF Answers
    <2>2. Head(out).cmd.op \in {"get", "set", "enable", "disable"}
      BY <1>1 DEF Requests, Commands
    <2> QED
      BY <2>1, <2>2 DEF Obey, Refuse, Lose
  <1>3. UNCHANGED <<pc, mixed, disturbed>>
    BY DEF Obey, Refuse, Lose
  <1>4. Typed'
    <2>1. \A kind \in {"ack", "nak", "full"} :
            [kind |-> kind, owner |-> Head(out).owner] \in Replies
      BY <1>1 DEF Requests, Replies
    <2>2. in' \in Seq(Replies)
      <3> DEFINE answer(kind) == [kind |-> kind, owner |-> Head(out).owner]
      <3>1. \A kind \in {"ack", "nak", "full"} : Append(in, answer(kind)) \in Seq(Replies)
        <4> HIDE DEF answer
        <4> QED
          BY <2>1 DEF Inv, Typed, answer
      <3> QED
        BY <1>2, <3>1 DEF Inv, Typed
    <2> QED
      BY <1>1, <1>3, <2>2 DEF Inv, Typed
  <1>5. ASSUME ~disturbed' PROVE Quiet'
    <2>1. Quiet
      BY <1>3, <1>5 DEF Inv
    <2>2. Head(out).owner \in Callers /\ pc[Head(out).owner] = "read"
      BY <1>1, <2>1 DEF Quiet, Awaited
    <2>3. Awaited(out)'
      BY <1>1, <1>3, <2>1 DEF Quiet, Awaited
    <2>4. Awaited(in)' /\ Len(in') <= Len(in) + 1
      BY <1>2, <1>3, <2>1, <2>2, SMTT(60) DEF Inv, Typed, Quiet, Awaited
    <2>5. Len(out') + Len(in') <= 1
      BY <1>1, <1>4, <2>1, <2>4 DEF Inv, Typed, Quiet
    <2> QED
      BY <1>3, <2>1, <2>3, <2>4, <2>5 DEF Quiet
  <1> QED
    BY <1>4, <1>5 DEF Inv

LEMMA CommandTyped == ASSUME cmd \in [Callers -> Commands], [Next]_vars
                      PROVE  cmd' \in [Callers -> Commands]
  BY DEF Next, CallerStep, Call, sendIQCommand, sendIQCommand_fails, readIQReply,
         readIQReply_fails, ReturnEmpty, Obey, Refuse, Lose, vars

LEMMA InvStep == ASSUME Inv, cmd \in [Callers -> Commands], [Next]_vars PROVE Inv'
  <1>1. CASE \E c \in Callers : CallerStep(c) \/ \E k \in Commands : Call(c, k)
    BY <1>1, CallStep, SendStep, SendFailsStep, ReadStep, TimeoutStep DEF CallerStep
  <1>2. CASE Obey \/ Refuse \/ Lose
    BY <1>2, RadioStep
  <1>3. CASE UNCHANGED vars
    BY <1>3 DEF Inv, Typed, Quiet, Awaited, vars
  <1> QED
    BY <1>1, <1>2, <1>3 DEF Next

(***************************************************************************)
(* No call is given another's reply before a read has timed out or two     *)
(* threads have used the port at once, however many callers there are.     *)
(***************************************************************************)
THEOREM RepliesMatch == Spec => []MixedOnlyDisturbed
  <1> DEFINE IInv == Inv /\ cmd \in [Callers -> Commands]
  <1>1. Init => IInv
    BY TypedInit
  <1>2. IInv /\ [Next]_vars => IInv'
    BY InvStep, CommandTyped
  <1>3. IInv => MixedOnlyDisturbed
    BY DEF Inv, Quiet, MixedOnlyDisturbed
  <1> QED
    BY <1>1, <1>2, <1>3, PTL DEF Spec

-----------------------------------------------------------------------------
(* Types                                                                   *)

LEMMA QueuesDisowned ==
    ASSUME TypeOK, NEW c \in Callers
    PROVE  /\ Disowned(out, c) \in Seq(Requests) /\ Len(Disowned(out, c)) <= MaxQueued
           /\ Disowned(in, c) \in Seq(Replies) /\ Len(Disowned(in, c)) <= MaxQueued
  BY MessagesDisowned, DisownedQueue DEF TypeOK

LEMMA CommandParts ==
    ASSUME NEW k \in Commands
    PROVE  /\ k.op \in {"get", "set", "enable", "disable"} /\ k.setting \in Settings
           /\ k.op = "set" => k.setting \in Settings \ {"iqData", "preamp"}
           /\ k.op \in {"enable", "disable"} => k.setting = "iqData"
  <1>1. CASE k \in [op : {"get"}, setting : Settings \ {"iqData"}]
    BY <1>1
  <1>2. CASE k \in [op : {"set"}, setting : Settings \ {"iqData", "preamp"}]
    BY <1>2
  <1>3. CASE k \in [op : {"enable", "disable"}, setting : Settings \cap {"iqData"}]
    BY <1>3
  <1> QED
    BY <1>1, <1>2, <1>3 DEF Commands

\* Every call makes something of every reply, and of none.
LEMMA ResultsKnown ==
    ASSUME NEW k \in Commands, NEW reply \in Replies
    PROVE  /\ k.op = "get" => GetResult(k.setting, reply) \in Results
           /\ k.op # "get" => SetResult(k.setting, reply) \in Results
           /\ NoReplyResult(k) \in Results
  <1>1. k.op # "get"
        => k.setting \in {"gain", "attenuator", "antenna", "digiSel", "ipPlus", "frequency",
                          "iqData"}
    BY CommandParts, CommandsAssumption
  <1> QED
    BY <1>1 DEF GetResult, SetResult, FrequencyResult, NoReplyResult, Results

LEMMA TypeOKInit == Init => TypeOK
  <1> SUFFICES ASSUME Init PROVE TypeOK
    OBVIOUS
  <1>1. cmd \in [Callers -> Commands]
    BY TypedInit
  <1>2. out \in Seq(Requests) /\ in \in Seq(Replies) /\ Len(out) = 0 /\ Len(in) = 0
    BY DEF Init
  <1>3. /\ pc \in [Callers -> {"idle", "send", "read"}] /\ result \in [Callers -> Results]
        /\ obeyed \in [Callers -> BOOLEAN] /\ mixed \in [Callers -> BOOLEAN]
        /\ enabled \in BOOLEAN /\ disturbed \in BOOLEAN
    BY DEF Init, Results
  <1> QED
    BY <1>1, <1>2, <1>3, CommandsAssumption DEF TypeOK

LEMMA TypeOKCaller ==
    ASSUME TypeOK, NEW c \in Callers, CallerStep(c)
    PROVE  TypeOK'
  <1>1. CASE sendIQCommand(c)
    <2>1. [cmd |-> cmd[c], owner |-> c] \in Requests
      BY DEF TypeOK, Requests, Owners
    <2>2. out' \in Seq(Requests) /\ Len(out') = Len(out) + 1
      BY <1>1, <2>1 DEF TypeOK, sendIQCommand
    <2> QED
      BY <1>1, <2>2, CommandsAssumption DEF TypeOK, sendIQCommand
  <1>2. CASE sendIQCommand_fails(c) \/ readIQReply_fails(c)
    <2>1. NoReplyResult(cmd[c]) \in Results
      BY DEF NoReplyResult, Results
    <2> QED
      BY <1>2, <2>1, QueuesDisowned DEF TypeOK, sendIQCommand_fails, readIQReply_fails, ReturnEmpty
  <1>3. CASE readIQReply(c)
    <2> DEFINE made == IF cmd[c].op = "get" THEN GetResult(cmd[c].setting, Head(in))
                       ELSE SetResult(cmd[c].setting, Head(in))
    <2>1. Head(in) \in Replies /\ Tail(in) \in Seq(Replies) /\ Len(Tail(in)) <= MaxQueued
      BY <1>3, CommandsAssumption DEF TypeOK, readIQReply
    <2>2. made \in Results
      BY <2>1, ResultsKnown DEF TypeOK
    <2>3. Disowned(Tail(in), c) \in Seq(Replies) /\ Len(Disowned(Tail(in), c)) <= MaxQueued
      BY <2>1, MessagesDisowned, DisownedQueue
    <2>4. result' = [result EXCEPT ![c] = made]
      BY <1>3 DEF readIQReply
    <2> HIDE DEF made
    <2>5. result' \in [Callers -> Results]
      BY <2>2, <2>4 DEF TypeOK
    <2>6. enabled' \in BOOLEAN /\ mixed' \in [Callers -> BOOLEAN]
      BY <1>3 DEF TypeOK, readIQReply
    <2>7. /\ pc' \in [Callers -> {"idle", "send", "read"}]
          /\ UNCHANGED <<cmd, obeyed, disturbed>>
      BY <1>3 DEF TypeOK, readIQReply
    <2>8. in' = Disowned(Tail(in), c) /\ out' = Disowned(out, c)
      BY <1>3 DEF readIQReply
    <2> QED
      BY <2>3, <2>5, <2>6, <2>7, <2>8, QueuesDisowned DEF TypeOK
  <1> QED
    BY <1>1, <1>2, <1>3 DEF CallerStep

\* A reply that the radio puts into the pipe, to the oldest command.
LEMMA ReplyQueued ==
    ASSUME TypeOK, Obey \/ Refuse
    PROVE  \E kind \in {"ack", "nak", "full"} :
              /\ [kind |-> kind, owner |-> Head(out).owner] \in Replies
              /\ in' = Append(in, [kind |-> kind, owner |-> Head(out).owner])
              /\ Refuse => kind = "nak"
  <1>1. Head(out) \in Requests
    BY DEF TypeOK, Obey, Refuse
  <1>2. Head(out).owner \in Owners /\ Head(out).cmd \in Commands
    BY <1>1 DEF Requests
  <1>3. Answers(Head(out).cmd.op) \subseteq {"ack", "nak", "full"}
    BY <1>2, CommandParts DEF Answers
  <1>4. \A kind \in {"ack", "nak", "full"} :
          [kind |-> kind, owner |-> Head(out).owner] \in Replies
    BY <1>2 DEF Replies
  <1>5. CASE Refuse
    BY <1>4, <1>5 DEF Refuse
  <1>6. CASE ~Refuse
    BY <1>3, <1>4, <1>6 DEF Obey
  <1> QED
    BY <1>5, <1>6

LEMMA TypeOKRadio ==
    ASSUME TypeOK, Obey \/ Refuse \/ Lose
    PROVE  TypeOK'
  <1>1. out' \in Seq(Requests) /\ Len(out') <= MaxQueued
    <2>1. out # <<>> /\ out' = Tail(out)
      BY DEF Obey, Refuse, Lose
    <2>2. Tail(out) \in Seq(Requests) /\ Len(Tail(out)) = Len(out) - 1 /\ Len(out) \in Nat
      BY <2>1 DEF TypeOK
    <2> QED
      BY <2>1, <2>2, CommandsAssumption DEF TypeOK
  <1>2. in' \in Seq(Replies) /\ Len(in') <= MaxQueued
    <2>1. CASE Lose
      BY <2>1 DEF Lose, TypeOK
    <2>2. CASE Obey \/ Refuse
      <3>1. PICK reply \in Replies : in' = Append(in, reply)
        BY <2>2, ReplyQueued
      <3>2. Len(in) < MaxQueued
        BY <2>2 DEF Obey, Refuse
      <3> QED
        BY <3>1, <3>2, CommandsAssumption DEF TypeOK
    <2> QED
      BY <2>1, <2>2
  <1>3. obeyed' \in [Callers -> BOOLEAN]
    BY DEF TypeOK, Obey, Refuse, Lose, Obeyed
  <1> QED
    BY <1>1, <1>2, <1>3 DEF TypeOK, Obey, Refuse, Lose

LEMMA TypeOKStep == ASSUME TypeOK, [Next]_vars PROVE TypeOK'
  <1>1. ASSUME NEW c \in Callers, NEW k \in Commands, Call(c, k) PROVE TypeOK'
    BY <1>1 DEF TypeOK, Call, Results
  <1>2. CASE UNCHANGED vars
    BY <1>2 DEF TypeOK, vars
  <1> QED
    BY <1>1, <1>2, TypeOKCaller, TypeOKRadio DEF Next

(***************************************************************************)
(* For any callers, settings and pipe size: the pipes hold messages, never *)
(* more than they have room for, and every call makes something of every   *)
(* reply.                                                                  *)
(***************************************************************************)
THEOREM TypeCorrect == Spec => []TypeOK
  BY TypeOKInit, TypeOKStep, PTL DEF Spec

-----------------------------------------------------------------------------
(* Reported success                                                        *)

\* A message is a waiting caller's, or nobody's.
Owned(queue) ==
    \A i \in DOMAIN queue :
        queue[i].owner \in Callers => pc[queue[i].owner] = "read"

\* The radio has carried out what it acknowledges, as long as somebody waits for that.
AcksObeyed ==
    \A i \in DOMAIN in : in[i].kind = "ack" /\ in[i].owner \in Callers => obeyed[in[i].owner]

Honest == Owned(out) /\ Owned(in) /\ AcksObeyed /\ SuccessMeansObeyed

\* A disowned queue has no message of that caller, and changes none of the others'.
LEMMA DisownedOwners ==
    ASSUME NEW queue, NEW c \in Callers,
           \A j \in DOMAIN queue : [queue[j] EXCEPT !.owner = Nobody].owner = Nobody,
           NEW i \in DOMAIN Disowned(queue, c), Disowned(queue, c)[i].owner \in Callers
    PROVE  /\ i \in DOMAIN queue /\ queue[i] = Disowned(queue, c)[i]
           /\ queue[i].owner # c
  <1>1. i \in DOMAIN queue
    BY DEF Disowned
  <1>2. CASE queue[i].owner = c
    <2>1. Disowned(queue, c)[i] = [queue[i] EXCEPT !.owner = Nobody]
      BY <1>1, <1>2 DEF Disowned
    <2>2. Disowned(queue, c)[i].owner = Nobody
      BY <1>1, <2>1
    <2> QED
      BY <2>2, CommandsAssumption
  <1>3. CASE queue[i].owner # c
    BY <1>1, <1>3 DEF Disowned
  <1> QED
    BY <1>2, <1>3, <1>1

LEMMA OwnersDisowned ==
    /\ \A m \in Requests : [m EXCEPT !.owner = Nobody].owner = Nobody
    /\ \A m \in Replies : [m EXCEPT !.owner = Nobody].owner = Nobody
  BY DEF Requests, Replies

\* What a returning call leaves in the pipes is as honest as before.
LEMMA ReturnHonest ==
    ASSUME TypeOK, Honest, NEW c \in Callers, NEW queue \in Seq(Replies),
           \A i \in DOMAIN queue : \E j \in DOMAIN in : queue[i] = in[j],
           out' = Disowned(out, c), in' = Disowned(queue, c),
           pc' = [pc EXCEPT ![c] = "idle"], obeyed' = obeyed
    PROVE  Owned(out)' /\ Owned(in)' /\ AcksObeyed'
  <1>1. ASSUME NEW i \in DOMAIN out', out'[i].owner \in Callers
        PROVE  pc'[out'[i].owner] = "read"
    <2>1. \A j \in DOMAIN out : [out[j] EXCEPT !.owner = Nobody].owner = Nobody
      BY OwnersDisowned DEF TypeOK
    <2>2. i \in DOMAIN out /\ out[i] = out'[i] /\ out[i].owner # c
      BY <1>1, <2>1, DisownedOwners
    <2> QED
      BY <1>1, <2>2 DEF TypeOK, Honest, Owned
  <1>2. ASSUME NEW i \in DOMAIN in', in'[i].owner \in Callers
        PROVE  /\ pc'[in'[i].owner] = "read"
               /\ in'[i].kind = "ack" => obeyed'[in'[i].owner]
    <2>1. \A j \in DOMAIN queue : [queue[j] EXCEPT !.owner = Nobody].owner = Nobody
      BY OwnersDisowned
    <2>2. /\ i \in DOMAIN queue /\ queue[i] = in'[i] /\ queue[i].owner # c
      BY <1>2, <2>1, DisownedOwners
    <2>3. PICK j \in DOMAIN in : queue[i] = in[j]
      BY <2>2
    <2> QED
      BY <1>2, <2>2, <2>3 DEF TypeOK, Honest, Owned, AcksObeyed
  <1> QED
    BY <1>1, <1>2 DEF Owned, AcksObeyed

\* Success is FB, and FB is the radio's word for this command or another's.
LEMMA ReadHonest ==
    ASSUME TypeOK, Honest, NEW c \in Callers, readIQReply(c)
    PROVE  Honest'
  <1> DEFINE k == cmd[c]
             made == IF k.op = "get" THEN GetResult(k.setting, Head(in))
                     ELSE SetResult(k.setting, Head(in))
  <1>1. /\ Tail(in) \in Seq(Replies) /\ Head(in) = in[1] /\ 1 \in DOMAIN in
        /\ \A i \in DOMAIN Tail(in) : i + 1 \in DOMAIN in /\ Tail(in)[i] = in[i + 1]
    BY DEF TypeOK, readIQReply
  <1>2. Owned(out)' /\ Owned(in)' /\ AcksObeyed'
    BY <1>1, ReturnHonest DEF readIQReply
  <1>3. /\ result' = [result EXCEPT ![c] = made]
        /\ mixed' = [mixed EXCEPT ![c] = Head(in).owner # c]
        /\ UNCHANGED <<cmd, obeyed>>
    BY DEF readIQReply
  <1>4. ASSUME made = "success", k.setting \in {"gain", "attenuator", "frequency"}
        PROVE  obeyed[c] \/ Head(in).owner # c
    <2>1. Head(in).kind = "ack"
      BY <1>4 DEF GetResult, SetResult, FrequencyResult
    <2> QED
      BY <1>1, <2>1 DEF Honest, AcksObeyed
  <1> HIDE DEF made
  <1>5. SuccessMeansObeyed'
    BY <1>3, <1>4 DEF TypeOK, Honest, SuccessMeansObeyed
  <1> QED
    BY <1>2, <1>5 DEF Honest

LEMMA CallerHonest ==
    ASSUME TypeOK, Honest, NEW c \in Callers, CallerStep(c)
    PROVE  Honest'
  <1>1. CASE sendIQCommand(c)
    <2>1. \A i \in DOMAIN out' : (i \in DOMAIN out /\ out'[i] = out[i]) \/ out'[i].owner = c
      BY <1>1 DEF TypeOK, sendIQCommand
    <2>2. pc' = [pc EXCEPT ![c] = "read"] /\ UNCHANGED <<in, cmd, result, obeyed, mixed>>
      BY <1>1 DEF sendIQCommand
    <2> QED
      BY <2>1, <2>2 DEF TypeOK, Honest, Owned, AcksObeyed, SuccessMeansObeyed
  <1>2. CASE sendIQCommand_fails(c) \/ readIQReply_fails(c)
    <2>1. ReturnEmpty(c)
      BY <1>2 DEF sendIQCommand_fails, readIQReply_fails
    <2>2. Owned(out)' /\ Owned(in)' /\ AcksObeyed'
      BY <2>1, ReturnHonest DEF TypeOK, ReturnEmpty
    <2>3. result'[c] # "success" /\ \A d \in Callers \ {c} : result'[d] = result[d]
      BY <2>1 DEF TypeOK, ReturnEmpty, NoReplyResult
    <2>4. SuccessMeansObeyed'
      BY <2>1, <2>3 DEF ReturnEmpty, Honest, SuccessMeansObeyed
    <2> QED
      BY <2>2, <2>4 DEF Honest
  <1>3. CASE readIQReply(c)
    BY <1>3, ReadHonest
  <1> QED
    BY <1>1, <1>2, <1>3 DEF CallerStep

\* Nothing in the pipes is the caller's that makes a call.
LEMMA CallHonest ==
    ASSUME TypeOK, Honest, NEW c \in Callers, NEW k \in Commands, Call(c, k)
    PROVE  Honest'
  <1>1. Owned(out)' /\ Owned(in)'
    BY DEF TypeOK, Honest, Owned, Call
  <1>2. AcksObeyed'
    BY DEF TypeOK, Honest, Owned, AcksObeyed, Call
  <1>3. SuccessMeansObeyed'
    BY DEF TypeOK, Honest, SuccessMeansObeyed, Call
  <1> QED
    BY <1>1, <1>2, <1>3 DEF Honest

\* The radio acknowledges what it has just carried out.
LEMMA RadioHonest ==
    ASSUME TypeOK, Honest, Obey \/ Refuse \/ Lose
    PROVE  Honest'
  <1>1. /\ out # <<>> /\ out' = Tail(out)
        /\ UNCHANGED <<pc, cmd, result, mixed>>
    BY DEF Obey, Refuse, Lose
  <1>2. /\ \A i \in DOMAIN Tail(out) : i + 1 \in DOMAIN out /\ Tail(out)[i] = out[i + 1]
        /\ Head(out) = out[1] /\ 1 \in DOMAIN out
    BY <1>1 DEF TypeOK
  <1>3. Owned(out)' /\ (Head(out).owner \in Callers => pc[Head(out).owner] = "read")
    BY <1>1, <1>2 DEF Honest, Owned
  <1>4. \A d \in Callers : obeyed[d] => obeyed'[d]
    BY DEF TypeOK, Obey, Refuse, Lose, Obeyed
  <1>5. SuccessMeansObeyed'
    BY <1>1, <1>4 DEF Honest, SuccessMeansObeyed
  <1>6. Owned(in)' /\ AcksObeyed'
    <2>1. CASE Lose
      BY <1>1, <1>4, <2>1 DEF Lose, Honest, Owned, AcksObeyed
    <2>2. CASE Obey \/ Refuse
      <3>1. PICK reply \in Replies :
              /\ reply.owner = Head(out).owner
              /\ in' = Append(in, reply)
              /\ reply.kind = "ack" /\ reply.owner \in Callers => obeyed'[reply.owner]
        <4>1. PICK kind \in {"ack", "nak", "full"} :
                /\ [kind |-> kind, owner |-> Head(out).owner] \in Replies
                /\ in' = Append(in, [kind |-> kind, owner |-> Head(out).owner])
                /\ Refuse => kind = "nak"
          BY <2>2, ReplyQueued
        <4>2. Obey => \A d \in Callers : d = Head(out).owner => obeyed'[d]
          BY DEF Obey, Obeyed
        <4> QED
          BY <2>2, <4>1, <4>2
      <3>2. \A i \in DOMAIN in' : (i \in DOMAIN in /\ in'[i] = in[i]) \/ in'[i] = reply
        BY <3>1 DEF TypeOK
      <3> QED
        BY <1>1, <1>3, <1>4, <3>1, <3>2 DEF Honest, Owned, AcksObeyed
    <2> QED
      BY <2>1, <2>2
  <1> QED
    BY <1>3, <1>5, <1>6 DEF Honest

(***************************************************************************)
(* For any callers, settings and pipe size: a setter that looks at its     *)
(* reply reports success only for what the radio carried out, or on the    *)
(* strength of another's reply.                                            *)
(***************************************************************************)
THEOREM SuccessIsEarned == Spec => []SuccessMeansObeyed
  <1> DEFINE IInv == TypeOK /\ Honest
  <1>1. Init => IInv
    BY TypeOKInit DEF Init, Honest, Owned, AcksObeyed, SuccessMeansObeyed
  <1>2. IInv /\ [Next]_vars => IInv'
    <2> SUFFICES ASSUME IInv, [Next]_vars PROVE Honest'
      BY TypeOKStep
    <2>1. CASE UNCHANGED vars
      BY <2>1 DEF Honest, Owned, AcksObeyed, SuccessMeansObeyed, vars
    <2> QED
      BY <2>1, CallHonest, CallerHonest, RadioHonest DEF Next
  <1>3. IInv => SuccessMeansObeyed
    BY DEF Honest
  <1> QED
    BY <1>1, <1>2, <1>3, PTL DEF Spec
=============================================================================
