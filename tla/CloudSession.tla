----------------------------- MODULE CloudSession -----------------------------
(***************************************************************************)
(* The session with the cloud server (src/src/grpc/cloud.rs, CloudSession, *)
(* and the watcher of src/src/main.rs): one gRPC client behind one lock,   *)
(* used by                                                                 *)
(*   - the heartbeat task, whose answers may bring a command;              *)
(*   - the registrar, which registers, reads commands from the stream, and *)
(*     registers again after a reConnect;                                  *)
(*   - the watcher, which dials when there is no client and then registers *)
(*     like the registrar;                                                 *)
(*   - senders: the report, status and monitor loops and the PLC status    *)
(*     task, through send_plc_response.                                    *)
(*                                                                         *)
(* Every RPC is made with the write guard of the client alive and is one   *)
(* step, taken when it completes.  What commands do beside answering is in *)
(* modules PlcInfo and S7Manager.                                          *)
(***************************************************************************)
EXTENDS FairRwLock, FiniteSets

CONSTANTS
    Heartbeat, Registrar, Watcher, Sender,  \* the tasks
    Random,         \* random numbers the server may ask for
    FirstRandom,    \* the edge's own, taken from the clock at startup
    NoRandom,
    BeatBrings,     \* kinds of commands that come with heartbeat answers
    StreamBrings,   \* kinds of commands that come on the stream
    MaxAnswers      \* bound: answers one command makes the edge send

\* "answer": plcInfo, read, write, status, clientInfo, which are answered;
\* "quiet": config, ReportSubmitted, upgrade, restart, unknown ones, requests
\* that cannot be parsed.
Kind == {"reConnect", "answer", "quiet"}

Task == Heartbeat \cup Registrar \cup Watcher \cup Sender

Registering == Registrar \cup Watcher

ASSUME SessionTasks ==
    /\ Heartbeat \cap (Registrar \cup Watcher \cup Sender) = {}
    /\ Registrar \cap (Watcher \cup Sender) = {}
    /\ Watcher \cap Sender = {}

ASSUME RandomAssumption == FirstRandom \in Random /\ NoRandom \notin Random

ASSUME CommandKinds == BeatBrings \subseteq Kind /\ StreamBrings \subseteq Kind

ASSUME AnswersBound == MaxAnswers \in Nat \ {0}

VARIABLES
    pc,
    client,     \* CloudSession.client is Some
    clientLock, \* RwLock around client
    random,     \* CloudSession.random_number
    carried,    \* the random number in the registration a task has built
    command,    \* kind of the command a task handles
    left,       \* answers the command still makes it send
    registered, \* random number of the last registration the server got
    reachable   \* the network: the server can be dialled

locals == <<carried, command, left>>
vars == <<pc, client, clientLock, random, locals, registered, reachable>>

Label == {"idle", "beat", "check", "dial", "setClient", "build", "register",
          "stream", "handle", "compose", "send", "done"}

Goto(t, label) == pc' = [pc EXCEPT ![t] = label]

\* Where a task goes on after a command that does not make it register again.
Return(t) == IF t \in Registering THEN "stream" ELSE "idle"

\* register() returned: the registrar's task ends, the watcher ticks on.
Ended(t) == IF t \in Registrar THEN "done" ELSE "idle"

Release(t) == clientLock' = Drop(clientLock, t)

Init ==
    /\ client \in BOOLEAN       \* how connect() ended before the tasks start
    /\ reachable \in BOOLEAN
    /\ pc = [t \in Task |-> IF t \in Registrar THEN "build" ELSE "idle"]
    /\ clientLock = FreeLock
    /\ random = FirstRandom
    /\ carried = [t \in Task |-> NoRandom]
    /\ command = [t \in Task |-> "quiet"]
    /\ left = [t \in Task |-> 0]
    /\ registered = NoRandom

-----------------------------------------------------------------------------
(* start_heartbeat_loop, send_heartbeat                                     *)

Tick(t) ==
    /\ t \in Heartbeat /\ pc[t] = "idle"
    /\ clientLock' = Ask(clientLock, t, "w")
    /\ Goto(t, "beat")
    /\ UNCHANGED <<client, random, locals, registered, reachable>>

\* Mutant: the command is handled where the answer arrives, with the guard of
\* the client alive.
BeatKeepsGuard(t) ==
    /\ pc[t] = "beat" /\ Holds(clientLock, t)
    /\ \/ /\ Release(t)
          /\ Goto(t, "idle")
          /\ UNCHANGED command
       \/ /\ client /\ reachable
          /\ \E k \in BeatBrings : command' = [command EXCEPT ![t] = k]
          /\ Goto(t, "handle")
          /\ UNCHANGED clientLock
    /\ UNCHANGED <<client, random, carried, left, registered, reachable>>

\* No client, a failed heartbeat or one whose answer has no command; or an
\* answer with a command, handled after the guard is dropped.
Beat(t) ==
    /\ pc[t] = "beat" /\ Holds(clientLock, t)
    /\ Release(t)
    /\ \/ /\ Goto(t, "idle")
          /\ UNCHANGED command
       \/ /\ client /\ reachable
          /\ \E k \in BeatBrings : command' = [command EXCEPT ![t] = k]
          /\ Goto(t, "handle")
    /\ UNCHANGED <<client, random, carried, left, registered, reachable>>

-----------------------------------------------------------------------------
(* register, register_once                                                  *)

\* build_ecn_info, before the lock is awaited.
Build(t) ==
    /\ t \in Registering /\ pc[t] = "build"
    /\ carried' = [carried EXCEPT ![t] = random]
    /\ clientLock' = Ask(clientLock, t, "w")
    /\ Goto(t, "register")
    /\ UNCHANGED <<client, random, command, left, registered, reachable>>

\* Mutant: the guard of the client lives as long as the stream.
RegisterKeepsGuard(t) ==
    /\ pc[t] = "register" /\ Holds(clientLock, t)
    /\ \/ /\ ~client \/ ~reachable
          /\ Goto(t, Ended(t))
          /\ Release(t)
          /\ UNCHANGED registered
       \/ /\ client
          /\ registered' = carried[t]
          /\ \/ Goto(t, Ended(t)) /\ Release(t)
             \/ reachable /\ Goto(t, "stream") /\ UNCHANGED clientLock
    /\ carried' = [carried EXCEPT ![t] = NoRandom]
    /\ UNCHANGED <<client, random, command, left, reachable>>

\* No client; or the RPC fails, before or after the server saw it; or the
\* server answers with the stream.
Register(t) ==
    /\ pc[t] = "register" /\ Holds(clientLock, t)
    /\ Release(t)
    /\ \/ /\ ~client \/ ~reachable
          /\ Goto(t, Ended(t))
          /\ UNCHANGED registered
       \/ /\ client
          /\ registered' = carried[t]
          /\ \/ Goto(t, Ended(t))
             \/ reachable /\ Goto(t, "stream")
    /\ carried' = [carried EXCEPT ![t] = NoRandom]
    /\ UNCHANGED <<client, random, command, left, reachable>>

\* The next command of the stream.
StreamCommand(t) ==
    /\ pc[t] = "stream" /\ reachable
    /\ \E k \in StreamBrings : command' = [command EXCEPT ![t] = k]
    /\ Goto(t, "handle")
    /\ UNCHANGED <<client, clientLock, random, carried, left, registered, reachable>>

\* The stream ends or fails: register() returns.
StreamEnd(t) ==
    /\ pc[t] = "stream"
    /\ Goto(t, Ended(t))
    /\ UNCHANGED <<client, clientLock, random, locals, registered, reachable>>

-----------------------------------------------------------------------------
(* handle_command                                                           *)

\* The command goes out of scope.
Handled(t) == command' = [command EXCEPT ![t] = "quiet"]

HandleQuiet(t) ==
    /\ pc[t] = "handle" /\ command[t] = "quiet"
    /\ Goto(t, Return(t))
    /\ UNCHANGED <<client, clientLock, random, locals, registered, reachable>>

\* plcInfo answers once for every PLC and once at the end, the others once.
HandleAnswer(t) ==
    /\ pc[t] = "handle" /\ command[t] = "answer"
    /\ \E n \in 1..MaxAnswers : left' = [left EXCEPT ![t] = n]
    /\ Goto(t, "compose")
    /\ Handled(t)
    /\ UNCHANGED <<client, clientLock, random, carried, registered, reachable>>

\* Mutant: the stream is read on after a reConnect.
HandleReconnectStays(t) ==
    /\ pc[t] = "handle" /\ command[t] = "reConnect"
    /\ \E r \in Random : random' = r
    /\ Goto(t, Return(t))
    /\ Handled(t)
    /\ UNCHANGED <<client, clientLock, carried, left, registered, reachable>>

\* The new number is stored; `true` makes register() loop, send_heartbeat
\* ignores it.
HandleReconnect(t) ==
    /\ pc[t] = "handle" /\ command[t] = "reConnect"
    /\ \E r \in Random : random' = r
    /\ Goto(t, IF t \in Registering THEN "build" ELSE "idle")
    /\ Handled(t)
    /\ UNCHANGED <<client, clientLock, carried, left, registered, reachable>>

Handle(t) == HandleQuiet(t) \/ HandleAnswer(t) \/ HandleReconnect(t)

-----------------------------------------------------------------------------
(* send_plc_response                                                        *)

\* A loop has something to send; it sends several as one after the other.
Produce(t) ==
    /\ t \in Sender /\ pc[t] = "idle"
    /\ left' = [left EXCEPT ![t] = 1]
    /\ Goto(t, "compose")
    /\ UNCHANGED <<client, clientLock, random, carried, command, registered, reachable>>

\* The message is built and signed, then the lock is awaited.
Compose(t) ==
    /\ pc[t] = "compose"
    /\ clientLock' = Ask(clientLock, t, "w")
    /\ Goto(t, "send")
    /\ UNCHANGED <<client, random, locals, registered, reachable>>

\* Mutant: one answer too many.
SendOnceMore(t) ==
    /\ pc[t] = "send" /\ Holds(clientLock, t)
    /\ Release(t)
    /\ left' = [left EXCEPT ![t] = @ - 1]
    /\ Goto(t, IF left[t] >= 1 THEN "compose" ELSE Return(t))
    /\ UNCHANGED <<client, random, carried, command, registered, reachable>>

\* Sent, dropped for want of a client, or failed: nobody is told.
Send(t) ==
    /\ pc[t] = "send" /\ Holds(clientLock, t)
    /\ Release(t)
    /\ left' = [left EXCEPT ![t] = @ - 1]
    /\ Goto(t, IF left[t] > 1 THEN "compose" ELSE Return(t))
    /\ UNCHANGED <<client, random, carried, command, registered, reachable>>

-----------------------------------------------------------------------------
(* The connection watcher, connect                                          *)

\* is_connected(), every 5 s.
AskClient(t) ==
    /\ t \in Watcher /\ pc[t] = "idle"
    /\ clientLock' = Ask(clientLock, t, "r")
    /\ Goto(t, "check")
    /\ UNCHANGED <<client, random, locals, registered, reachable>>

CheckClient(t) ==
    /\ pc[t] = "check" /\ Holds(clientLock, t)
    /\ Release(t)
    /\ Goto(t, IF client THEN "idle" ELSE "dial")
    /\ UNCHANGED <<client, random, locals, registered, reachable>>

Dial(t) ==
    /\ pc[t] = "dial"
    /\ \/ /\ ~reachable
          /\ Goto(t, "idle")
          /\ UNCHANGED clientLock
       \/ /\ reachable
          /\ clientLock' = Ask(clientLock, t, "w")
          /\ Goto(t, "setClient")
    /\ UNCHANGED <<client, random, locals, registered, reachable>>

\* Mutant: the watcher leaves registering to the registrar.
SetClientOnly(t) ==
    /\ pc[t] = "setClient" /\ Holds(clientLock, t)
    /\ client' = TRUE
    /\ Release(t)
    /\ Goto(t, "idle")
    /\ UNCHANGED <<random, locals, registered, reachable>>

\* The client is stored and the watcher registers, for as long as the stream
\* lasts.
SetClient(t) ==
    /\ pc[t] = "setClient" /\ Holds(clientLock, t)
    /\ client' = TRUE
    /\ Release(t)
    /\ Goto(t, "build")
    /\ UNCHANGED <<random, locals, registered, reachable>>

-----------------------------------------------------------------------------
AdmitClient ==
    /\ Admissible(clientLock)
    /\ clientLock' = Admit(clientLock)
    /\ UNCHANGED <<pc, client, random, locals, registered, reachable>>

Network ==
    /\ reachable' = ~reachable
    /\ UNCHANGED <<pc, client, clientLock, random, locals, registered>>

\* A task goes on with what it has begun; the stream may stay silent.
Step(t) ==
    \/ Beat(t) \/ Build(t) \/ Register(t) \/ Handle(t) \/ Compose(t) \/ Send(t)
    \/ CheckClient(t) \/ Dial(t) \/ SetClient(t)

Next ==
    \/ \E t \in Task :
          Tick(t) \/ AskClient(t) \/ Produce(t) \/ StreamCommand(t) \/ StreamEnd(t) \/ Step(t)
    \/ AdmitClient
    \/ Network

Spec == Init /\ [][Next]_vars

\* Tasks are polled, guards are granted in order, RPCs and dials end, and the
\* intervals of the heartbeat and the watcher tick.
FairSpec ==
    /\ Spec
    /\ \A t \in Task : WF_vars(Step(t))
    /\ \A t \in Heartbeat : WF_vars(Tick(t))
    /\ \A t \in Watcher : WF_vars(AskClient(t))
    /\ WF_vars(AdmitClient)

-----------------------------------------------------------------------------
(* Properties                                                               *)

\* Types of the variables.
TypeOK ==
    /\ pc \in [Task -> Label]
    /\ client \in BOOLEAN /\ reachable \in BOOLEAN
    /\ clientLock \in Locks(Task)
    /\ random \in Random
    /\ carried \in [Task -> Random \cup {NoRandom}]
    /\ command \in [Task -> Kind]
    /\ left \in [Task -> 0..MaxAnswers]
    /\ registered \in Random \cup {NoRandom}

\* No task asks for the client while it has it: a handler that answers while
\* its caller still holds the guard would wait for itself for ever, and every
\* heartbeat, answer and registration behind it.
NeverTwice == \A t \in Task : ~(Holds(clientLock, t) /\ Waits(clientLock, t))

\* Heartbeats go on for ever, however many answers, registrations and failed
\* RPCs share the client with them.
HeartbeatsGoOn == \A t \in Heartbeat : []<>(pc[t] = "beat")

\* Every report, status, monitor value and answer gets its turn on the client.
SendsReturn == \A t \in Task : pc[t] = "send" ~> pc[t] # "send"

\* An edge that has no client, because the cloud was out of reach when it
\* started, registers when the cloud comes into reach and stays there.
LateStartRegisters ==
    [](~client /\ []reachable => <>(registered # NoRandom))

Reconnects(t) == pc[t] = "handle" /\ command[t] = "reConnect"

\* cloud.rs, reConnect: "update randomNumber then re-register": when a reConnect
\* came on the stream, and after it none on a heartbeat, the number the server
\* has registered is in the end the one the edge signs with, although the
\* registrar and the watcher may both register, each with a number it read
\* before it waited for the client.
ReconnectRegisters ==
    []((/\ \E t \in Registering : Reconnects(t)
        /\ []reachable
        /\ [](\A h \in Heartbeat : ~Reconnects(h))
        /\ <>[](\A t \in Registering : ~Reconnects(t)))
         => <>[](registered = random))
=============================================================================
