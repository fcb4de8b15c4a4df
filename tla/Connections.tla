---------------------------- MODULE Connections ----------------------------
(***************************************************************************)
(* A client's commands and their answers: the client's line loop and the   *)
(* thread that forwards its stdin while it is attached                     *)
(* (src/client/main.rs, connection.rs); the server's thread for a          *)
(* connection, the writer thread of an attach, the start-up and the SIGHUP *)
(* thread (src/server/main.rs); and the order in which the orchestrator    *)
(* takes and answers requests (src/server/orchestrate.rs).                 *)
(*                                                                         *)
(* There is one job.  Of its process the module keeps whether it lives and *)
(* how full its stdin is; of the I/O router who is attached, as IoRouter   *)
(* has it.  A command is a number: the n-th that any client has sent.      *)
(* There may be more clients than those in Client: all that is seen of     *)
(* them is that they have the job, or detach it.                           *)
(***************************************************************************)
EXTENDS Integers, Sequences

CONSTANTS
    Client,
    Main, Sighup, Watcher,  \* the other senders to the orchestrator
    NoClient,
    PipeSize,       \* inputs that fit into the stdin of the process
    MaxRuns,        \* bound: processes started
    MaxCommands,    \* bound: commands of all clients
    MaxInputs,      \* bound: inputs of all clients
    MaxChunks,      \* bound: chunks of output that are streamed
    MaxSignals,     \* bound: SIGHUPs
    MaxStimuli      \* bound: commands, inputs and SIGHUPs together

(* The commands whose effect is not seen here are answered like a start     *)
(* that is refused; unknown is any word that is no command.                 *)
Kind == {"attach", "detach", "start", "unknown"}

ASSUME ConnectionsAssumption ==
    /\ Client \intersect {Main, Sighup, Watcher, NoClient} = {}
    /\ PipeSize \in Nat \ {0}
    /\ {MaxRuns, MaxCommands, MaxInputs, MaxChunks, MaxSignals, MaxStimuli}
           \subseteq Nat

Id == 1 .. MaxCommands
NoId == 0   \* of the answer to an input

VARIABLES
    main,       \* the main thread: starting, waiting, started, serving, down
    commands,   \* the commands so far: by whom, and their kind
    user,       \* the line loop of a client: where it is, in which command
    typing,     \* the thread that forwards the client's stdin
    up, down,   \* the two directions of the socket of a client
    handler,    \* the thread of a connection and the answer it has received
    outbox,     \* the response channel of an attach, read by its writer
    stream,     \* the forwarding of an attach, from the router to the writer
    queue,      \* the orchestrator's channel
    orch,       \* the client whose input the orchestrator is writing
    process,    \* none, alive, exited, reported, finished
    pipe,       \* inputs in the stdin of the process
    flag,       \* SIGHUP_FLAG
    sighup,     \* the SIGHUP thread: polling, waiting, answered
    unheard,    \* history: no reload has read the files since a SIGHUP
    failed,     \* history: clients one of whose inputs failed
    count       \* of runs, inputs, chunks, signals, for the bounds

vars == <<main, commands, user, typing, up, down, handler, outbox, stream,
          queue, orch, process, pipe, flag, sighup, unheard, failed, count>>
clientVars == <<commands, user, typing>>
signalVars == <<flag, sighup, unheard>>
jobVars == <<process, pipe>>

-----------------------------------------------------------------------------
(* A part of an answer; of is history, the parts carry no number. *)
Streamed(n) == [kind |-> "Stream", of |-> n]
Final(n) == [kind |-> "Final", of |-> n]    \* Info or Error

Request(from, kind, n) == [from |-> from, kind |-> kind, id |-> n]

Free == [pc |-> "free"]
Waiting == [pc |-> "waiting"]
Answered(n) == [pc |-> "answered", id |-> n]

Init ==
    /\ main = "starting"
    /\ commands = <<>>
    /\ user = [c \in Client |-> [pc |-> "prompt", id |-> NoId]]
    /\ typing = [c \in Client |-> "off"]
    /\ up = [c \in Client |-> <<>>]
    /\ down = [c \in Client |-> <<>>]
    /\ handler = [c \in Client |-> Free]
    /\ outbox = [n \in Id |-> <<>>]
    /\ stream = [n \in Id |-> "none"]
    /\ queue = <<>>
    /\ orch = NoClient
    /\ process = "none"
    /\ pipe = 0
    /\ flag = FALSE
    /\ sighup = "polling"
    /\ unheard = FALSE
    /\ failed = {}
    /\ count = [runs |-> 0, inputs |-> 0, chunks |-> 0, signals |-> 0]

MoreStimuli ==
    Len(commands) + count.inputs + count.signals < MaxStimuli

Tick(what, bound) ==
    /\ count[what] < bound
    /\ count' = [count EXCEPT ![what] = @ + 1]

-----------------------------------------------------------------------------
(* The client *)

KindOf(c) == commands[user[c].id].kind

(* write: an attach starts the thread that forwards stdin before it is      *)
(* answered.                                                                *)
SendCommand(c, kind) ==
    /\ main = "serving"
    /\ user[c].pc = "prompt"
    /\ Len(commands) < MaxCommands /\ MoreStimuli
    /\ LET n == Len(commands) + 1 IN
       /\ commands' = Append(commands, [client |-> c, kind |-> kind])
       /\ user' = [user EXCEPT ![c] = [pc |-> "reading", id |-> n]]
       /\ up' = [up EXCEPT ![c] = Append(@, Request(c, kind, n))]
    /\ typing' = [typing EXCEPT ![c] = IF kind = "attach" THEN "check" ELSE @]
    /\ UNCHANGED <<main, down, handler, outbox, stream, queue, orch, jobVars,
                   signalVars, failed, count>>

(* process_response: a streaming message is printed, any other ends the     *)
(* command, and sets stop_stdio (pc is joining).                            *)
ReadResponse(c) ==
    /\ user[c].pc = "reading"
    /\ down[c] # <<>>
    /\ down' = [down EXCEPT ![c] = Tail(@)]
    /\ IF Head(down[c]).kind = "Stream" THEN UNCHANGED user
       ELSE user' = [user EXCEPT ![c].pc =
                        IF KindOf(c) = "attach" THEN "joining" ELSE "prompt"]
    /\ UNCHANGED <<main, commands, typing, up, handler, outbox, stream, queue,
                   orch, jobVars, signalVars, failed, count>>

Join(c) ==
    /\ user[c].pc = "joining"
    /\ typing[c] = "off"
    /\ user' = [user EXCEPT ![c].pc = "prompt"]
    /\ UNCHANGED <<main, commands, typing, up, down, handler, outbox, stream,
                   queue, orch, jobVars, signalVars, failed, count>>

(* Variant of CheckStop: the thread looks at stdin only. *)
CheckNothing(c) ==
    /\ typing[c] = "check"
    /\ typing' = [typing EXCEPT ![c] = "read"]
    /\ UNCHANGED <<main, commands, user, up, down, handler, outbox, stream,
                   queue, orch, jobVars, signalVars, failed, count>>

CheckStop(c) ==
    /\ typing[c] = "check"
    /\ typing' = [typing EXCEPT ![c] =
                     IF user[c].pc = "joining" THEN "off" ELSE "read"]
    /\ UNCHANGED <<main, commands, user, up, down, handler, outbox, stream,
                   queue, orch, jobVars, signalVars, failed, count>>

ReadNothing(c) ==
    /\ typing[c] = "read"
    /\ typing' = [typing EXCEPT ![c] = "check"]
    /\ UNCHANGED <<main, commands, user, up, down, handler, outbox, stream,
                   queue, orch, jobVars, signalVars, failed, count>>

ReadEof(c) ==
    /\ typing[c] = "read"
    /\ typing' = [typing EXCEPT ![c] = "off"]
    /\ UNCHANGED <<main, commands, user, up, down, handler, outbox, stream,
                   queue, orch, jobVars, signalVars, failed, count>>

ReadInput(c) ==
    /\ typing[c] = "read"
    /\ Tick("inputs", MaxInputs) /\ MoreStimuli
    /\ typing' = [typing EXCEPT ![c] = "check"]
    /\ up' = [up EXCEPT ![c] = Append(@, Request(c, "input", NoId))]
    /\ UNCHANGED <<main, commands, user, down, handler, outbox, stream, queue,
                   orch, jobVars, signalVars, failed>>

-----------------------------------------------------------------------------
(* The server's threads for a connection *)

(* Variant of NoAction: any word is taken for some command. *)
NoActionNever(req) == FALSE

(* command_to_action finds no command. *)
NoAction(req) == req.kind = "unknown"

(* process_request: a word that is no command is answered at once; an       *)
(* attach is left to a writer thread; of any other request the thread waits *)
(* for the answer.                                                          *)
ProcessRequest(c) ==
    /\ handler[c] = Free
    /\ up[c] # <<>>
    /\ up' = [up EXCEPT ![c] = Tail(@)]
    /\ LET req == Head(up[c]) IN
       IF NoAction(req)
       THEN /\ down' = [down EXCEPT ![c] = Append(@, Final(req.id))]
            /\ UNCHANGED <<queue, handler>>
       ELSE /\ queue' = Append(queue, req)
            /\ IF req.kind = "attach" THEN UNCHANGED handler
               ELSE handler' = [handler EXCEPT ![c] = Waiting]
            /\ UNCHANGED down
    /\ UNCHANGED <<main, clientVars, outbox, stream, orch, jobVars,
                   signalVars, failed, count>>

WriteResponse(c) ==
    /\ handler[c].pc = "answered"
    /\ down' = [down EXCEPT ![c] = Append(@, Final(handler[c].id))]
    /\ handler' = [handler EXCEPT ![c] = Free]
    /\ UNCHANGED <<main, clientVars, up, outbox, stream, queue, orch, jobVars,
                   signalVars, failed, count>>

(* The writer thread of an attach. *)
WritePart(n) ==
    /\ outbox[n] # <<>>
    /\ outbox' = [outbox EXCEPT ![n] = Tail(@)]
    /\ down' = [down EXCEPT ![commands[n].client] =
                   Append(@, Head(outbox[n]))]
    /\ UNCHANGED <<main, clientVars, up, handler, stream, queue, orch,
                   jobVars, signalVars, failed, count>>

-----------------------------------------------------------------------------
(* The streams of the attached, of which IoRouter has the details *)

Open == {n \in Id : stream[n] = "open"}

(* StopForwarding *)
Stopped == [n \in Id |-> IF n \in Open THEN "released" ELSE stream[n]]

Output(n) ==
    /\ process = "alive"
    /\ n \in Open
    /\ Tick("chunks", MaxChunks)
    /\ outbox' = [outbox EXCEPT ![n] = Append(@, Streamed(n))]
    /\ UNCHANGED <<main, clientVars, up, down, handler, stream, queue, orch,
                   jobVars, signalVars, failed>>

EndOfStream(n) ==
    /\ stream[n] = "released"
    /\ stream' = [stream EXCEPT ![n] = "stopping"]
    /\ outbox' = [outbox EXCEPT ![n] = Append(@, Final(n))]
    /\ UNCHANGED <<main, clientVars, up, down, handler, queue, orch, jobVars,
                   signalVars, failed, count>>

(* The forwarder's own StopForwarding takes the job from whoever has it. *)
StopOwn(n) ==
    /\ stream[n] = "stopping"
    /\ stream' = [Stopped EXCEPT ![n] = "done"]
    /\ UNCHANGED <<main, clientVars, up, down, handler, outbox, queue, orch,
                   jobVars, signalVars, failed, count>>

-----------------------------------------------------------------------------
(* The process and the watcher *)

ReadStdin ==
    /\ process = "alive"
    /\ pipe > 0
    /\ pipe' = pipe - 1
    /\ UNCHANGED <<main, clientVars, up, down, handler, outbox, stream, queue,
                   orch, process, signalVars, failed, count>>

Exit ==
    /\ process = "alive"
    /\ process' = "exited"
    /\ UNCHANGED <<main, clientVars, up, down, handler, outbox, stream, queue,
                   orch, pipe, signalVars, failed, count>>

Report ==
    /\ main # "down"
    /\ process = "exited"
    /\ process' = "reported"
    /\ queue' = Append(queue, Request(Watcher, "finished", NoId))
    /\ UNCHANGED <<main, clientVars, up, down, handler, outbox, stream, orch,
                   pipe, signalVars, failed, count>>

-----------------------------------------------------------------------------
(* The orchestrator *)

Receive(kind) ==
    /\ orch = NoClient
    /\ queue # <<>>
    /\ Head(queue).kind = kind
    /\ queue' = Tail(queue)

Requester == Head(queue).from

(* The response and the end of the channel, of a client's request. *)
Respond(c, n) == handler' = [handler EXCEPT ![c] = Answered(n)]

(* The Detach of a client that is not in Client. *)
DetachByOther ==
    /\ main # "down"
    /\ orch = NoClient
    /\ Open # {}
    /\ stream' = Stopped
    /\ UNCHANGED <<main, clientVars, up, down, handler, outbox, queue, orch,
                   jobVars, signalVars, failed, count>>

HandleDetach ==
    /\ Receive("detach")
    /\ stream' = Stopped
    /\ Respond(Requester, Head(queue).id)
    /\ UNCHANGED <<main, clientVars, up, down, outbox, orch, jobVars,
                   signalVars, failed, count>>

Spawn ==
    /\ Tick("runs", MaxRuns)
    /\ process' = "alive"
    /\ pipe' = 0

(* Start of a client or of the start-up, which an error ends. *)
HandleStart ==
    /\ Receive("start")
    /\ \E ok \in BOOLEAN :
          /\ IF ok THEN process \in {"none", "finished"} /\ Spawn
             ELSE UNCHANGED <<jobVars, count>>
          /\ IF Requester = Main
             THEN /\ main' = IF ok THEN "started" ELSE "down"
                  /\ UNCHANGED handler
             ELSE Respond(Requester, Head(queue).id) /\ UNCHANGED main
    /\ UNCHANGED <<clientVars, up, down, outbox, stream, orch, signalVars,
                   failed>>

(* attach_job: no response while streaming, or an error; a client that is   *)
(* not in Client may have the job.                                          *)
HandleAttach ==
    /\ Receive("attach")
    /\ LET n == Head(queue).id IN
       \/ /\ process \in {"alive", "exited", "reported"}
          /\ Open = {}
          /\ stream' = [stream EXCEPT ![n] = "open"]
          /\ UNCHANGED outbox
       \/ /\ stream' = [stream EXCEPT ![n] = "refused"]
          /\ outbox' = [outbox EXCEPT ![n] = Append(@, Final(n))]
    /\ UNCHANGED <<main, clientVars, up, down, handler, orch, jobVars,
                   signalVars, failed, count>>

(* forward_stdin_job: nothing happens if the job has no stdin. *)
HandleInput ==
    /\ Receive("input")
    /\ IF process = "none"
       THEN handler' = [handler EXCEPT ![Requester] = Free] /\ UNCHANGED orch
       ELSE orch' = Requester /\ UNCHANGED handler
    /\ UNCHANGED <<main, clientVars, up, down, outbox, stream, jobVars,
                   signalVars, failed, count>>

(* Variant of InputDone: an input that was written is answered. *)
InputAnswered(c) == Answered(NoId)

(* No response to an input that was written. *)
InputDone(c) == Free

Room == pipe < PipeSize

(* write_all waits until there is room in the pipe, or nobody to read it. *)
WriteStdin ==
    /\ orch # NoClient
    /\ process = "alive"
    /\ Room
    /\ pipe' = pipe + 1
    /\ handler' = [handler EXCEPT ![orch] = InputDone(orch)]
    /\ orch' = NoClient
    /\ UNCHANGED <<main, clientVars, up, down, outbox, stream, queue, process,
                   signalVars, failed, count>>

WriteStdinFails ==
    /\ orch # NoClient
    /\ process # "alive"
    /\ Respond(orch, NoId)
    /\ failed' = failed \union {orch}
    /\ orch' = NoClient
    /\ UNCHANGED <<main, clientVars, up, down, outbox, stream, queue, jobVars,
                   signalVars, count>>

(* manage_event: the client is detached, the policy may restart the job. *)
HandleFinished ==
    /\ Receive("finished")
    /\ stream' = Stopped
    /\ \/ process' = "finished" /\ UNCHANGED <<pipe, count>>
       \/ Spawn
    /\ UNCHANGED <<main, clientVars, up, down, handler, outbox, orch,
                   signalVars, failed>>

(* Services::update reads the files. *)
HandleReload ==
    /\ Receive("reload")
    /\ unheard' = FALSE
    /\ sighup' = "answered"
    /\ UNCHANGED <<main, clientVars, up, down, handler, outbox, stream, orch,
                   jobVars, flag, failed, count>>

-----------------------------------------------------------------------------
(* Start-up and SIGHUP *)

(* startup_services, with one configured service. *)
StartUp ==
    /\ main = "starting"
    /\ main' = "waiting"
    /\ queue' = Append(queue, Request(Main, "start", NoId))
    /\ UNCHANGED <<clientVars, up, down, handler, outbox, stream, orch,
                   jobVars, signalVars, failed, count>>

(* sighup_reload_config_init, and the socket. *)
Listen ==
    /\ main = "started"
    /\ main' = "serving"
    /\ UNCHANGED <<clientVars, up, down, handler, outbox, stream, queue, orch,
                   jobVars, signalVars, failed, count>>

(* The signal ends a server that has not yet installed its handler. *)
Signal ==
    /\ main # "down"
    /\ Tick("signals", MaxSignals) /\ MoreStimuli
    /\ IF main = "serving"
       THEN flag' = TRUE /\ unheard' = TRUE /\ UNCHANGED main
       ELSE main' = "down" /\ UNCHANGED <<flag, unheard>>
    /\ UNCHANGED <<clientVars, up, down, handler, outbox, stream, queue, orch,
                   jobVars, sighup, failed>>

(* SIGHUP_FLAG.swap(false) *)
SendReload ==
    /\ main = "serving"
    /\ sighup = "polling"
    /\ flag
    /\ flag' = FALSE
    /\ sighup' = "waiting"
    /\ queue' = Append(queue, Request(Sighup, "reload", NoId))
    /\ UNCHANGED <<main, clientVars, up, down, handler, outbox, stream, orch,
                   jobVars, unheard, failed, count>>

(* Variant of PollAgain: the flag is reset when the reload is done. *)
PollAgainReset ==
    /\ sighup = "answered"
    /\ sighup' = "polling"
    /\ flag' = FALSE
    /\ UNCHANGED <<main, clientVars, up, down, handler, outbox, stream, queue,
                   orch, jobVars, unheard, failed, count>>

PollAgain ==
    /\ sighup = "answered"
    /\ sighup' = "polling"
    /\ UNCHANGED <<main, clientVars, up, down, handler, outbox, stream, queue,
                   orch, jobVars, flag, unheard, failed, count>>

Orchestrator ==
    /\ main # "down"
    /\ \/ HandleDetach \/ HandleStart \/ HandleAttach
       \/ HandleInput \/ WriteStdin \/ WriteStdinFails
       \/ HandleFinished \/ HandleReload

LineLoop(c) == ReadResponse(c) \/ Join(c)

Typing(c) == CheckStop(c) \/ ReadNothing(c) \/ ReadEof(c)

Connection(c) == ProcessRequest(c) \/ WriteResponse(c)

Forwarder(n) == EndOfStream(n) \/ StopOwn(n)

Next ==
    \/ \E c \in Client :
          \/ \E kind \in Kind : SendCommand(c, kind)
          \/ LineLoop(c) \/ Typing(c) \/ ReadInput(c)
          \/ Connection(c)
    \/ \E n \in Id : WritePart(n) \/ Output(n) \/ Forwarder(n)
    \/ ReadStdin \/ Exit \/ Report \/ DetachByOther
    \/ Orchestrator
    \/ StartUp \/ Listen \/ Signal \/ SendReload \/ PollAgain

Spec == Init /\ [][Next]_vars

(* The threads of the client and of the server run.  Nothing makes a user   *)
(* type, a process read its stdin or end, or an operator send a signal.     *)
Fairness ==
    /\ WF_vars(Orchestrator)
    /\ WF_vars(SendReload \/ PollAgain)
    /\ WF_vars(Report)
    /\ \A c \in Client :
          WF_vars(LineLoop(c)) /\ WF_vars(Typing(c)) /\ WF_vars(Connection(c))
    /\ \A n \in Id : WF_vars(WritePart(n)) /\ WF_vars(Forwarder(n))

FairSpec == Spec /\ Fairness
=============================================================================
