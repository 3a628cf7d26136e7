--------------------------- MODULE TCPServerProofs ---------------------------
(***************************************************************************)
(* Theorems about TCPServer, for any number of connections, any ring, any  *)
(* sizes and any driver: the tools use the port as IQAsyncReader says it   *)
(* may be used, so what is proved for any number of its clients holds in   *)
(* them; an idle server is clean; and a program with one handler neither   *)
(* loses a thread nor joins one twice.                                     *)
(***************************************************************************)
EXTENDS TCPServer, IQAsyncReaderProofs

-----------------------------------------------------------------------------
(* The tools are clients of the reader                                     *)

LEMMA HandlerIsClient ==
    ASSUME NEW c \in Clients, Handler(c) PROVE ClientStep(c) \/ UNCHANGED vars
  <1>1. CASE Start(c)
    BY <1>1 DEF Start, ClientStep
  <1>2. CASE Read(c)
    BY <1>2 DEF Read, ClientStep
  <1>3. CASE Send(c)
    BY <1>3 DEF Send
  <1>4. CASE Stop(c)
    BY <1>4 DEF Stop, ClientStep
  <1>5. CASE Clear(c)
    BY <1>5 DEF Clear, ClientStep
  <1>6. CASE Exit(c) \/ InPort(c)
    BY <1>6 DEF Exit, InPort, ClientStep, InCall
  <1> QED
    BY <1>1, <1>2, <1>3, <1>4, <1>5, <1>6 DEF Handler

\* Before it serves, a tool only opens its port.
LEMMA MainIsClient == ASSUME Main PROVE InitCall(Sole) \/ UNCHANGED vars
  BY DEF Main, Options, OpenPort, TestPort, Settings, Listen, Connect, Bind

LEMMA ReaderStep == ASSUME [ServerNext]_allVars PROVE [Next]_vars
  <1>1. CASE Lives /\ \E c \in Clients : Handler(c)
    BY <1>1, HandlerIsClient DEF Lives, Next
  <1>2. CASE Lives /\ Main
    BY <1>2, MainIsClient, SoleAssumption DEF Lives, Next, ClientStep
  <1>3. CASE Network
    BY <1>3 DEF Network, Accept, PeerGoes, PeerComes
  <1>4. CASE Lives /\ (WorkerStep \/ DriverStep)
    BY <1>4 DEF Lives, Next
  <1>5. CASE UNCHANGED allVars
    BY <1>5 DEF allVars
  <1> QED
    BY <1>1, <1>2, <1>3, <1>4, <1>5 DEF ServerNext

(***************************************************************************)
(* Every behaviour of the server, the client or the pusher is a behaviour  *)
(* of the reader: a tool does nothing to the port that the calls of        *)
(* IQAsyncReader's clients do not.                                         *)
(***************************************************************************)
THEOREM ToolsUseReader == ServerSpec => Spec
  <1>1. ServerInit => Init
    BY DEF ServerInit
  <1> QED
    BY <1>1, ReaderStep, PTL DEF ServerSpec, Spec

(***************************************************************************)
(* Handlers that start and stop the port under each other keep what the    *)
(* reader's stop rests on: no read is queued behind an abort, the worker   *)
(* of a stopped port goes to its end, no block reaches the ring behind a   *)
(* stop, and the worker leaves only when it is called for.                 *)
(***************************************************************************)
THEOREM ToolsInherit ==
    ServerSpec => /\ []StopLeavesNoWait
                  /\ WorkerWindsDown
                  /\ NoBlockBehindStop
                  /\ LeavesWhenCalled
  <1> QED
    BY ToolsUseReader, NoReadBehindAbort, WorkerHasAnEnd, NoBlockAfterStops,
       WorkerLeavesWhenCalled

-----------------------------------------------------------------------------
(* Type correctness                                                        *)

\* ServerTypeOK, but for what is the reader's.
ToolTypeOK ==
    /\ tool \in Tools \cup Ends
    /\ main \in {"options", "open", "test", "settings", "network", "serving", "deaf"}
    /\ wide \in BOOLEAN
    /\ at \in [Clients -> {"none", "start", "loop", "send", "stop", "clear", "exit"}]
    /\ peer \in [Clients -> BOOLEAN]

LEMMA ToolTypeStep == ASSUME ToolTypeOK, [ServerNext]_allVars PROVE ToolTypeOK'
  <1> USE DEF ToolTypeOK, Tools, Ends, mainVars, handlerVars
  <1>1. ASSUME NEW c \in Clients, Handler(c) PROVE ToolTypeOK'
    <2>1. CASE Start(c) \/ Read(c) \/ Stop(c)
      BY <2>1 DEF Start, Read, Stop, Move
    <2>2. CASE Send(c)
      BY <2>2 DEF Send, SendTCP, SendZMQ, Move
    <2>3. CASE Clear(c)
      BY <2>3 DEF Clear, Move, Ended
    <2>4. CASE Exit(c) \/ InPort(c)
      BY <2>4 DEF Exit, InPort
    <2> QED
      BY <1>1, <2>1, <2>2, <2>3, <2>4 DEF Handler
  <1>2. CASE Options
    BY <1>2 DEF Options, ServerOptions, ClientOptions, PusherOptions, AdvanceOr
  <1>3. CASE OpenPort \/ TestPort \/ Settings \/ Listen
    BY <1>3 DEF OpenPort, TestPort, Settings, Listen, AdvanceOr, Advance
  <1>4. CASE Connect \/ Bind
    BY <1>4, SoleAssumption DEF Connect, Bind, Advance, Move
  <1>5. CASE Network
    BY <1>5 DEF Network, Accept, PeerGoes, PeerComes, Move
  <1>6. CASE UNCHANGED handlerVars
    BY <1>6
  <1> QED
    BY <1>1, <1>2, <1>3, <1>4, <1>5, <1>6 DEF ServerNext, Main, allVars

LEMMA ToolTypeInit == ServerInit => ToolTypeOK
  BY DEF ServerInit, ToolTypeOK, Tools, Ends

\* Type correctness of the tools and of the port they use.
THEOREM ServerTypeCorrect == ServerSpec => []ServerTypeOK
  <1>1. TypeOK /\ ToolTypeOK => ServerTypeOK
    BY DEF ServerTypeOK, ToolTypeOK
  <1> QED
    BY <1>1, ToolTypeInit, ToolTypeStep, ToolsUseReader, TypeCorrect, PTL DEF ServerSpec

-----------------------------------------------------------------------------
(* An idle server is clean                                                 *)

\* Handlers that have begun to start the reader and not to stop it.
Using == {c \in Clients : at[c] \in {"loop", "send", "stop"}}

\* Handlers in a stop that have not waited for the worker yet.
Stopping == {c \in Clients : at[c] = "clear" /\ pc[c] \in {"abort", "join"}}

(***************************************************************************)
(* While _running is up some handler has its stop before it; while there   *)
(* is a thread, its join; and while the ring holds samples, its clear.  A  *)
(* handler may undo what another has just done, but then has its own part  *)
(* to do: that is why nothing is left when the last one has gone.          *)
(***************************************************************************)
Answerable ==
    /\ running => Using # {}
    /\ worker # "absent" => Using \cup Stopping # {}
    /\ fill = 0 \/ \E c \in Clients : at[c] # "none"
    /\ \A c \in Clients : pc[c] \in {"enabling", "spawn", "setRunning"} => at[c] = "loop"
    /\ \A c \in Clients : pc[c] \in {"abort", "join", "disable"} => at[c] = "clear"
    /\ \A c \in Clients : pc[c] = "reading" => at[c] = "send"
    /\ \A c \in Clients : at[c] # "exit"

LEMMA AnswerableHandler ==
    ASSUME TypeOK, ToolTypeOK, Answerable, tool = "server", NEW c \in Clients, Handler(c)
    PROVE  Answerable'
  <1> USE DEF Answerable, Using, Stopping, TypeOK, ToolTypeOK, ClientAt, WorkerAt
  <1>1. CASE Start(c)
    BY <1>1 DEF Start, Move, StartCall, Goto, vars, portVars, ringVars
  <1>2. CASE Read(c)
    BY <1>2 DEF Read, Move, ReadCall, Goto, portVars, Ring!Ask
  <1>3. CASE Send(c)
    BY <1>3 DEF Send, SendTCP, SendZMQ, Move, vars, portVars, ringVars
  <1>4. CASE Stop(c)
    BY <1>4 DEF Stop, Move, StopCall, Goto, ringVars
  <1>5. CASE Clear(c)
    BY <1>5 DEF Clear, Move, Ended, ClearCall, portVars, Ring!Empty
  <1>6. CASE Exit(c)
    BY <1>6 DEF Exit
  <1>7. CASE InPort(c)
    <2> USE DEF Goto, handlerVars, portVars, ringVars
    <2>1. at' = at
      BY <1>7 DEF InPort
    <2>2. CASE EnableData(c)
      BY <2>1, <2>2 DEF EnableData
    <2>3. CASE SpawnWorker(c)
      BY <2>1, <2>3 DEF SpawnWorker
    <2>4. CASE SetRunning(c)
      BY <2>1, <2>4 DEF SetRunning
    <2>5. CASE StopAbort(c)
      BY <2>1, <2>5 DEF StopAbort
    <2>6. CASE StopJoin(c)
      BY <2>1, <2>6 DEF StopJoin
    <2>7. CASE DisableData(c)
      BY <2>1, <2>7 DEF DisableData
    <2>8. CASE ReadReturn(c)
      BY <2>1, <2>8 DEF ReadReturn, Ring!Take
    <2> QED
      BY <1>7, <2>2, <2>3, <2>4, <2>5, <2>6, <2>7, <2>8 DEF InPort
  <1> QED
    BY <1>1, <1>2, <1>3, <1>4, <1>5, <1>6, <1>7 DEF Handler

\* The worker goes on only while it is there, and nothing else fills the ring.
LEMMA WorkerKeepsAbsence ==
    ASSUME WorkerStep \/ DriverStep
    PROVE  /\ pc' = pc
           /\ running' => running
           /\ worker' = "absent" <=> worker = "absent"
           /\ fill' = fill \/ worker # "absent"
           /\ fault' = fault \/ fault' \in {"selfJoin", "thrown", "strayWrite"}
  <1> USE DEF portVars, deviceVars, ringVars
  <1>1. CASE QueueRead \/ TestRunning \/ ThrowRagged \/ RetryTimeout \/ GiveUp \/ JoinSelf
    BY <1>1 DEF QueueRead, TestRunning, ThrowRagged, RetryTimeout, GiveUp, JoinSelf
  <1>2. CASE TakeBlock \/ CopyBlock
    BY <1>2 DEF TakeBlock, CopyBlock, Ring!Ask
  <1>3. CASE DriverStep
    BY <1>3 DEF DriverStep, DeliverBlock, EndTransfer, DeliverStray
  <1> QED
    BY <1>1, <1>2, <1>3 DEF WorkerStep

-----------------------------------------------------------------------------
(* A program with one handler                                              *)

(***************************************************************************)
(* What the only handler's place says of the port: it starts the reader    *)
(* once, so that its start finds no thread; its stop is the only one, so   *)
(* that its join is; and after that join nothing is left for the exit's    *)
(* destructor.                                                             *)
(***************************************************************************)
Alone ==
    /\ \A c \in Clients \ {Sole} : at[c] = "none" /\ pc[c] \in {"idle", "gone"}
    /\ at[Sole] \in {"none", "start"} => pc[Sole] = "idle"
    /\ at[Sole] = "loop" => pc[Sole] \in {"idle", "enabling", "spawn", "setRunning"}
    /\ at[Sole] = "send" => pc[Sole] \in {"idle", "reading"}
    /\ at[Sole] = "stop" => pc[Sole] = "idle"
    /\ at[Sole] = "clear" => pc[Sole] \in {"idle", "abort", "join", "disable"}
    /\ at[Sole] = "exit" => pc[Sole] \in {"idle", "destroying", "gone"}
    /\ at[Sole] = "none" => fill = 0
    /\ at[Sole] \in {"none", "start", "exit"} => worker = "absent" /\ ~running
    /\ pc[Sole] \in {"enabling", "spawn"} => worker = "absent" /\ ~running
    /\ at[Sole] = "clear" /\ pc[Sole] \in {"idle", "disable"} => worker = "absent"
    /\ at[Sole] = "clear" => ~running
    /\ pc[Sole] = "setRunning" => worker # "absent"
    /\ running => worker # "absent"
    /\ fault \notin {"lostThread", "doubleJoin", "badJoin"}

LEMMA AloneHandler ==
    ASSUME TypeOK, ToolTypeOK, Alone, fault = "none", tool \in {"client", "pusher"},
           NEW c \in Clients, Handler(c)
    PROVE  Alone'
  <1> USE SoleAssumption DEF Alone, TypeOK, ToolTypeOK, ClientAt, WorkerAt, Goto, Move
  <1>1. CASE Start(c)
    BY <1>1 DEF Start, StartCall, vars, portVars, ringVars
  <1>2. CASE Read(c)
    BY <1>2 DEF Read, ReadCall, portVars, Ring!Ask
  <1>3. CASE Send(c)
    BY <1>3 DEF Send, SendTCP, SendZMQ, vars, portVars, ringVars
  <1>4. CASE Stop(c)
    BY <1>4 DEF Stop, StopCall, ringVars
  <1>5. CASE Clear(c)
    BY <1>5 DEF Clear, Ended, ClearCall, portVars, Ring!Empty
  <1>6. CASE Exit(c)
    BY <1>6 DEF Exit, DestroyCall, DestroyTest, DestroyJoin, handlerVars, portVars, ringVars
  <1>7. CASE InPort(c)
    <2> USE DEF handlerVars, portVars, ringVars
    <2>1. at' = at
      BY <1>7 DEF InPort
    <2>2. CASE EnableData(c)
      BY <2>1, <2>2 DEF EnableData
    <2>3. CASE SpawnWorker(c)
      BY <2>1, <2>3 DEF SpawnWorker
    <2>4. CASE SetRunning(c)
      BY <2>1, <2>4 DEF SetRunning
    <2>5. CASE StopAbort(c)
      BY <2>1, <2>5 DEF StopAbort
    <2>6. CASE StopJoin(c)
      BY <2>1, <2>6 DEF StopJoin
    <2>7. CASE DisableData(c)
      BY <2>1, <2>7 DEF DisableData
    <2>8. CASE ReadReturn(c)
      BY <2>1, <2>8 DEF ReadReturn, Ring!Take
    <2> QED
      BY <1>7, <2>2, <2>3, <2>4, <2>5, <2>6, <2>7, <2>8 DEF InPort
  <1> QED
    BY <1>1, <1>2, <1>3, <1>4, <1>5, <1>6, <1>7 DEF Handler

-----------------------------------------------------------------------------
(* The three tools                                                         *)

ServerInv ==
    /\ tool = "server" => Answerable
    /\ tool \in {"client", "pusher"} => Alone
    /\ tool \in Ends => fault = "none"

\* A tool stays the one it is until it ends.
LEMMA ToolStays ==
    ASSUME [ServerNext]_allVars
    PROVE  tool' = tool \/ (tool' \in Ends /\ fault' = fault)
  <1>1. ASSUME NEW c \in Clients, Handler(c)
        PROVE tool' = tool \/ (tool' \in Ends /\ fault' = fault)
    BY <1>1
    DEF Handler, Start, Read, Send, SendTCP, SendZMQ, Stop, Clear, Exit, InPort, mainVars,
        handlerVars, vars, Ends
  <1>2. CASE Main
    BY <1>2
    DEF Main, Options, ServerOptions, ClientOptions, PusherOptions, OpenPort, TestPort,
        Settings, Listen, Connect, Bind, AdvanceOr, vars, Ends
  <1>3. CASE Network
    BY <1>3 DEF Network, Accept, PeerGoes, PeerComes, mainVars
  <1>4. CASE UNCHANGED handlerVars
    BY <1>4 DEF handlerVars
  <1> QED
    BY <1>1, <1>2, <1>3, <1>4 DEF ServerNext, allVars

\* The port is opened before there is a handler, and main begins the only one itself.
LEMMA MainTouches ==
    ASSUME ToolTypeOK, Main
    PROVE  /\ UNCHANGED <<fill, running, worker, pc, fault>>
           /\ at' = at \/ (tool # "server" /\ at[Sole] = "none" /\ pc[Sole] = "idle"
                             /\ at' = [at EXCEPT ![Sole] = "start"])
  BY DEF Main, Options, ServerOptions, ClientOptions, PusherOptions, OpenPort, TestPort, Settings,
         Listen, Connect, Bind, AdvanceOr, Advance, Move, InitCall, vars, portVars, ringVars

\* The network begins handlers of the server only.
LEMMA NetworkTouches ==
    ASSUME Network
    PROVE  /\ UNCHANGED <<fill, running, worker, pc, fault>>
           /\ at' = at \/ (tool = "server"
                             /\ \E c \in Clients : /\ at[c] = "none" /\ pc[c] = "idle"
                                                   /\ at' = [at EXCEPT ![c] = "start"])
  BY DEF Network, Accept, PeerGoes, PeerComes, Move, vars, portVars, ringVars

LEMMA ServerInvStep ==
    ASSUME TypeOK, ToolTypeOK, ServerInv, [ServerNext]_allVars PROVE ServerInv'
  <1> USE SoleAssumption DEF ToolTypeOK
  <1>1. CASE UNCHANGED allVars
    BY <1>1
    DEF allVars, vars, portVars, ringVars, handlerVars, ServerInv, Answerable, Using, Stopping, Alone
  <1>2. CASE ServerNext /\ tool' \in Ends
    BY <1>2, ToolStays DEF ServerInv, ServerNext, Lives, Tools, Ends
  <1>3. CASE ServerNext /\ tool' \notin Ends
    <2>1. tool' = tool /\ fault = "none" /\ tool \in Tools
      BY <1>3, ToolStays DEF ServerNext, Lives
    <2>2. CASE tool = "server"
      <3>1. Answerable
        BY <2>2 DEF ServerInv
      <3>2. Answerable'
        <4>1. CASE \E c \in Clients : Handler(c)
          BY <2>2, <3>1, <4>1, AnswerableHandler
        <4>2. CASE Main
          <5>1. UNCHANGED <<fill, running, worker, pc, at>>
            BY <2>2, <4>2, MainTouches
          <5> QED
            BY <3>1, <5>1 DEF Answerable, Using, Stopping
        <4>3. CASE Network
          BY <3>1, <4>3, NetworkTouches DEF Answerable, Using, Stopping
        <4>4. CASE (WorkerStep \/ DriverStep) /\ UNCHANGED handlerVars
          BY <3>1, <4>4, WorkerKeepsAbsence DEF handlerVars, Answerable, Using, Stopping
        <4> QED
          BY <1>3, <4>1, <4>2, <4>3, <4>4 DEF ServerNext
      <3> QED
        BY <2>1, <2>2, <3>2 DEF ServerInv, Ends
    <2>3. CASE tool \in {"client", "pusher"}
      <3>1. Alone
        BY <2>3 DEF ServerInv
      <3>2. Alone'
        <4>1. CASE \E c \in Clients : Handler(c)
          BY <2>1, <2>3, <3>1, <4>1, AloneHandler
        <4>2. CASE Main
          BY <3>1, <4>2, MainTouches DEF Alone
        <4>3. CASE Network
          BY <2>3, <3>1, <4>3, NetworkTouches DEF Alone
        <4>4. CASE (WorkerStep \/ DriverStep) /\ UNCHANGED handlerVars
          BY <2>1, <3>1, <4>4, WorkerKeepsAbsence DEF handlerVars, Alone
        <4> QED
          BY <1>3, <4>1, <4>2, <4>3, <4>4 DEF ServerNext
      <3> QED
        BY <2>1, <2>3, <3>2 DEF ServerInv, Ends
    <2> QED
      BY <2>1, <2>2, <2>3 DEF Tools
  <1> QED
    BY <1>1, <1>2, <1>3
LEMMA ServerInvInit == ServerInit => ServerInv
  <1> USE SoleAssumption
  <1> QED
    BY DEF ServerInit, Init, ServerInv, Answerable, Using, Stopping, Alone, Tools, Ends,
           Ring!QueueInit

LEMMA ServerInvHolds == ServerSpec => [](ToolTypeOK /\ ServerInv)
  <1> QED
    BY ToolTypeInit, ToolTypeStep, ServerInvInit, ServerInvStep, ToolsUseReader, TypeCorrect, PTL
    DEF ServerSpec

(***************************************************************************)
(* For any number of connections: when the last handler has gone, in       *)
(* whatever order they started, stopped and cleared the port under each    *)
(* other, no worker reads, a start is not refused and the ring is empty.   *)
(***************************************************************************)
THEOREM IdleIsClean == ServerSpec => []IdleServerIsClean
  <1>1. ToolTypeOK /\ ServerInv => IdleServerIsClean
    <2> SUFFICES ASSUME ToolTypeOK, ServerInv, Lives, \A c \in Clients : at[c] = "none"
                 PROVE  ~running /\ worker = "absent" /\ fill = 0
      BY DEF IdleServerIsClean
    <2>1. CASE tool = "server"
      BY <2>1 DEF ServerInv, Answerable, Using, Stopping
    <2>2. CASE tool \in {"client", "pusher"}
      BY <2>2, SoleAssumption DEF ServerInv, Alone
    <2> QED
      BY <2>1, <2>2 DEF ToolTypeOK, Lives, Tools
  <1> QED
    BY <1>1, ServerInvHolds, PTL

(***************************************************************************)
(* A program with one handler never assigns over a joinable thread, joins  *)
(* one twice or destroys one, up to its exit's destructor.                 *)
(***************************************************************************)
THEOREM OneHandlerIsSafe == ServerSpec => []OneHandlerJoinsOnce
  <1>1. ToolTypeOK /\ ServerInv => OneHandlerJoinsOnce
    BY DEF ToolTypeOK, ServerInv, Alone, OneHandlerJoinsOnce, Tools
  <1> QED
    BY <1>1, ServerInvHolds, PTL
=============================================================================
