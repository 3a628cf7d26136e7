----------------------------- MODULE TCPServer -----------------------------
(***************************************************************************)
(* The tools that send samples over a network, composed with the reader    *)
(* they use: IC7610TCPServer.cpp starts a detached thread, handleClient,   *)
(* for each connection, all of them on one global IcomIQPort;              *)
(* IC7610TCPClient.cpp runs the same loop once and ends;                   *)
(* IC7610zmqPush.cpp runs it for ever.  A handler starts the reader, reads *)
(* and sends until a send fails, then stops the reader and clears the      *)
(* ring, for itself and for everyone else.                                 *)
(*                                                                         *)
(* Before that main reads the options, opens the port, has the radio       *)
(* answer once, and makes its settings, in the same way in the three       *)
(* tools.  What the options say is left out but for what ends the program  *)
(* and for the pusher's sample format.                                     *)
(*                                                                         *)
(* Every step inside the port is IQAsyncReader's.  The network is          *)
(* external: a connection is up until its sender's side knows that the     *)
(* peer has gone, which may be at any time.                                *)
(***************************************************************************)
EXTENDS IQAsyncReader

CONSTANT Sole     \* the one handler of the tools that have one

ASSUME SoleAssumption == Sole \in Clients

VARIABLES tool,    \* which program this is, or how it ended: "killed" or "exited"
          main,    \* where its main is
          wide,    \* the pusher was asked for CF32 or CF64
          at,      \* where each handler is in its own code
          peer     \* whether its connection is up

mainVars == <<tool, main, wide>>
handlerVars == <<tool, main, wide, at, peer>>
allVars == <<vars, handlerVars>>

Tools == {"server", "client", "pusher"}
Ends == {"killed", "exited"}

ServerTypeOK ==
    /\ TypeOK
    /\ tool \in Tools \cup Ends
    /\ main \in {"options", "open", "test", "settings", "network", "serving", "deaf"}
    /\ wide \in BOOLEAN
    /\ at \in [Clients -> {"none", "start", "loop", "send", "stop", "clear", "exit"}]
    /\ peer \in [Clients -> BOOLEAN]

\* A program with its global port has just started.
ServerInit ==
    /\ Init
    /\ tool \in Tools
    /\ main = "options" /\ wide = FALSE
    /\ at = [c \in Clients |-> "none"]
    /\ peer = [c \in Clients |-> FALSE]

Move(c, from, to) ==
    /\ pc[c] = "idle"
    /\ at[c] = from
    /\ at' = [at EXCEPT ![c] = to]

-----------------------------------------------------------------------------
(* main, up to its loop                                                    *)

Advance(from, to) == main = from /\ main' = to

\* main goes on, or the program ends in one of the ways given.
AdvanceOr(from, to, ends) ==
    /\ main = from
    /\ \/ main' = to /\ UNCHANGED tool
       \/ tool' \in ends /\ UNCHANGED main
    /\ UNCHANGED <<at, peer>>

\* Wrong options, -h and a second operand print the usage and exit; a port operand is
\* read through optarg, which getopt has set to null by then.
ServerOptions == AdvanceOr("options", "open", Ends) /\ UNCHANGED wide

\* Any other number of operands than two exits, after printing two that may not be there.
ClientOptions == AdvanceOr("options", "open", Ends) /\ UNCHANGED wide

\* Operands are ignored; the sample format counts.
PusherOptions == AdvanceOr("options", "open", {"exited"}) /\ wide' \in BOOLEAN

Options ==
    /\ \/ tool = "server" /\ ServerOptions
       \/ tool = "client" /\ ClientOptions
       \/ tool = "pusher" /\ PusherOptions
    /\ UNCHANGED vars

\* getDeviceSerialNum exits when there is no driver; init throws when there is no radio,
\* which it notices: the handle of a global port is null until it is opened.
OpenPort ==
    /\ AdvanceOr("open", "test", Ends)
    /\ IF tool' \in Ends THEN UNCHANGED vars ELSE InitCall(Sole) /\ handle' = "open"
    /\ UNCHANGED wide

\* The radio is asked for the IQ mode: any reply will do, without one the program exits.
TestPort ==
    /\ AdvanceOr("test", "settings", {"exited"})
    /\ UNCHANGED <<vars, wide>>

\* The frequency, when one is given, the gain and the timeout: no result is looked at.
Settings ==
    /\ Advance("settings", "network")
    /\ UNCHANGED <<vars, tool, wide, at, peer>>

-----------------------------------------------------------------------------
(* The network (external)                                                  *)

\* bind and listen, whose results the server does not look at.
Listen ==
    /\ tool = "server"
    /\ main = "network" /\ main' \in {"serving", "deaf"}
    /\ UNCHANGED <<vars, tool, wide, at, peer>>

\* accept returns with a connection; without a listening socket it fails again and again.
Accept(c) ==
    /\ tool = "server" /\ main = "serving"
    /\ Move(c, "none", "start")
    /\ peer' = [peer EXCEPT ![c] = TRUE]
    /\ UNCHANGED <<vars, mainVars>>

\* tcp_connect, which exits when no address answers.
Connect ==
    /\ tool = "client"
    /\ \/ /\ Advance("network", "serving")
          /\ Move(Sole, "none", "start")
          /\ peer' = [peer EXCEPT ![Sole] = TRUE]
          /\ UNCHANGED tool
       \/ /\ main = "network" /\ tool' = "exited"
          /\ UNCHANGED <<main, at, peer>>
    /\ UNCHANGED <<vars, wide>>

\* The pusher's bind, which throws when it fails; pullers come when they like.
Bind ==
    /\ tool = "pusher"
    /\ \/ Advance("network", "serving") /\ Move(Sole, "none", "start") /\ UNCHANGED tool
       \/ main = "network" /\ tool' = "killed" /\ UNCHANGED <<main, at>>
    /\ UNCHANGED <<vars, wide, peer>>

Main == Options \/ OpenPort \/ TestPort \/ Settings \/ Listen \/ Connect \/ Bind

PeerGoes(c) ==
    /\ peer[c]
    /\ peer' = [peer EXCEPT ![c] = FALSE]
    /\ UNCHANGED <<vars, mainVars, at>>

\* A puller connects to the pusher.
PeerComes(c) ==
    /\ tool = "pusher"
    /\ at[c] # "none" /\ ~peer[c]
    /\ peer' = [peer EXCEPT ![c] = TRUE]
    /\ UNCHANGED <<vars, mainVars, at>>

-----------------------------------------------------------------------------
(* handleClient, and the loops of the other two tools                      *)

\* iqAsyncStart; whether it is refused or fails is not looked at.
Start(c) ==
    /\ Move(c, "start", "loop")
    /\ \/ StartCall(c)
       \/ running /\ UNCHANGED vars
    /\ UNCHANGED <<mainVars, peer>>

\* The loop's iqReadBuf.
Read(c) ==
    /\ Move(c, "loop", "send")
    /\ \E n \in ReadSizes : ReadCall(c, n)
    /\ UNCHANGED <<mainVars, peer>>

\* Faulty variant: an error of send does not end the loop.
Send_KeepsOn(c) ==
    /\ Move(c, "send", "loop")
    /\ UNCHANGED <<vars, mainVars, peer>>

\* send: without its connection it returns an error, which ends the loop, or raises
\* SIGPIPE, which on POSIX ends the process.
SendTCP(c) ==
    \/ peer[c] /\ Move(c, "send", "loop") /\ UNCHANGED tool
    \/ ~peer[c] /\ Move(c, "send", "stop") /\ tool' \in {tool, "killed"}

\* The pusher waits for a puller.  Its message has the size of the wide format and is
\* copied from a buffer of the narrow one, past whose end there may be nothing.
SendZMQ(c) ==
    /\ Move(c, "send", "loop")
    /\ \/ peer[c] /\ UNCHANGED tool
       \/ wide /\ tool' = "killed"

Send(c) ==
    /\ IF tool = "pusher" THEN SendZMQ(c) ELSE SendTCP(c)
    /\ UNCHANGED <<vars, main, wide, peer>>

\* Where a handler is after its last call.
Ended == IF tool = "server" THEN "none" ELSE "exit"

\* iqAsyncStop
Stop(c) ==
    /\ Move(c, "stop", "clear")
    /\ StopCall(c)
    /\ UNCHANGED <<mainVars, peer>>

\* Faulty variant: the ring is not cleared.
Clear_Not(c) ==
    /\ Move(c, "clear", Ended)
    /\ UNCHANGED <<vars, mainVars, peer>>

\* iqClearReadBuf, the socket is closed, and the thread or the program ends.
Clear(c) ==
    /\ Move(c, "clear", Ended)
    /\ ClearCall(c)
    /\ UNCHANGED <<mainVars, peer>>

\* At its exit a program destroys its global port.
Exit(c) ==
    /\ at[c] = "exit"
    /\ DestroyCall(c) \/ DestroyTest(c) \/ DestroyJoin(c)
    /\ UNCHANGED handlerVars

\* A handler is inside one of the port's calls.
InPort(c) ==
    /\ \/ EnableData(c) \/ SpawnWorker(c) \/ SetRunning(c) \/ StopAbort(c) \/ StopJoin(c)
       \/ DisableData(c) \/ ReadReturn(c)
    /\ UNCHANGED handlerVars

Handler(c) ==
    Start(c) \/ Read(c) \/ Send(c) \/ Stop(c) \/ Clear(c) \/ Exit(c) \/ InPort(c)

-----------------------------------------------------------------------------

Network == \E c \in Clients : Accept(c) \/ PeerGoes(c) \/ PeerComes(c)

Lives == fault = "none" /\ tool \notin Ends

ServerNext ==
    /\ Lives
    /\ \/ \E c \in Clients : Handler(c)
       \/ Main
       \/ Network
       \/ (WorkerStep \/ DriverStep) /\ UNCHANGED handlerVars

ServerSpec == ServerInit /\ [][ServerNext]_allVars

(***************************************************************************)
(* The threads are scheduled, and the radio fills a transfer now and then  *)
(* while it streams.  Nothing makes a peer come or go.                     *)
(***************************************************************************)
ServerFairness ==
    /\ WF_allVars(Lives /\ WorkerStep /\ UNCHANGED handlerVars)
    /\ SF_allVars(Lives /\ DeliverBlock /\ UNCHANGED handlerVars)
    /\ \A c \in Clients : WF_allVars(Lives /\ Handler(c))

ServerFairSpec == ServerSpec /\ ServerFairness

-----------------------------------------------------------------------------
(* Properties                                                              *)

(***************************************************************************)
(* Handlers start, stop and clear the port under each other, in any order: *)
(* when the last one has gone no thread reads, a start is not refused, and *)
(* the next connection begins with an empty ring.                          *)
(***************************************************************************)
IdleServerIsClean ==
    (Lives /\ \A c \in Clients : at[c] = "none")
      => ~running /\ worker = "absent" /\ fill = 0

(***************************************************************************)
(* A program that starts and stops the reader once, from one thread, never *)
(* assigns over, joins twice or destroys a thread, to its exit's           *)
(* destructor: these ends of the process need a second connection.         *)
(***************************************************************************)
OneHandlerJoinsOnce ==
    tool # "server" => fault \notin {"lostThread", "doubleJoin", "badJoin"}

\* A read waits for samples that no worker will bring, or that another read may take.
Starved(c) ==
    /\ pc[c] = "reading"
    /\ ~Alive \/ ~streaming \/ \E d \in Clients \ {c} : pc[d] = "reading"

\* A stop waits for a worker that another handler's start has told to go on.
Overruled(c) == pc[c] = "join" /\ running

(***************************************************************************)
(* The handler of a peer that has gone ends, and makes room for the next,  *)
(* unless it waits in a read for samples that do not come or that other    *)
(* handlers may take first, in a stop that another handler's start         *)
(* overrules, or in a stop while the worker waits for room in the ring or  *)
(* for a read whose abort has failed.                                      *)
(***************************************************************************)
HandlersEnd ==
    \A c \in Clients :
        tool # "pusher" /\ at[c] = "loop" /\ ~peer[c]
          ~> \/ at[c] \in {"none", "exit"} \/ ~Lives
             \/ WorkerBlocked \/ transfer = "unaborted" \/ Starved(c) \/ Overruled(c)
=============================================================================
