------------------------------ MODULE IoRouter ------------------------------
(***************************************************************************)
(* The I/O router thread, src/server/io_router.rs, and the threads around  *)
(* it: the orchestrator, which sends it requests and waits for some of its *)
(* answers; the processes, which write to their pipes; and the forwarder   *)
(* thread that attach_job (src/server/jobs.rs) starts for every            *)
(* attachment.  Of the orchestrator's jobs the module keeps the process    *)
(* each has, and that the handling of a Finished event takes it away.      *)
(*                                                                         *)
(* Output is counted in chunks, what one read takes from a pipe: a chunk   *)
(* is the n-th that a process (a run of its alias) wrote to a stream.      *)
(***************************************************************************)
EXTENDS Integers, Sequences

CONSTANTS
    Alias,
    Session,    \* attachments: each has a response channel and a forwarder
    NoSession,
    Capacity,   \* of the channel to a forwarder: IO_ROUTER_READ_BUF_LEN
    PipeSize,   \* chunks that fit into a pipe
    DrainTimes, \* DRAIN_TIMES
    MaxRuns,    \* bound: processes started
    MaxChunks,  \* bound: chunks a process writes
    MaxCommands,\* bound on commands for a Detach or a Status
    MaxStale    \* bound on commands for a Finished event that comes late

ASSUME RouterAssumption ==
    /\ NoSession \notin Session
    /\ Capacity \in Nat \ {0} /\ PipeSize \in Nat \ {0}
    /\ DrainTimes \in Nat
    /\ MaxRuns \in Nat /\ MaxChunks \in Nat
    /\ MaxCommands \in Nat /\ MaxStale \in Nat

(* The drain of a StopForwarding can empty a pipe: 65536 bytes on Linux, at *)
(* most 64 reads of IO_ROUTER_READ_BUF_LEN, and it makes up to 101.         *)
ASSUME DrainAssumption == PipeSize <= DrainTimes + 1

Run == 1 .. MaxRuns
NoRun == 0
Stream == {"stdout", "stderr"}
Chunk == [run : Run, stream : Stream, n : 1 .. MaxChunks]

VARIABLES
    process,    \* of each run: its alias and whether it is alive
    job,        \* the run an alias has, until its end has been handled
    written,    \* chunks written by a run to a stream
    read,       \* chunks the router has read of them
    requests,   \* the router's channel
    tees,       \* ios: whose pipes the router reads, and the channel tx
    router,     \* where the router thread is
    orch,       \* what the orchestrator waits for
    reply,      \* the answer of the router to it
    chan,       \* the bounded channel of a session
    forwarder,  \* the forwarder thread of a session
    got,        \* chunks that have reached the connection of a session
    gone,       \* sessions whose connection has failed
    commands,   \* Detach, Status and late Finished so far, for the bounds
    att         \* history of a session: to what it was attached, from which
                \* chunk on, and whose request detached it

vars == <<process, job, written, read, requests, tees, router, orch, reply,
          chan, forwarder, got, gone, commands, att>>

-----------------------------------------------------------------------------
(* enum IoRouterRequest; by is a history field: the code does not say who   *)
(* wants a forwarding to stop.                                              *)
CreateMsg(a, r) == [kind |-> "Create", alias |-> a, run |-> r]
RemoveMsg(a) == [kind |-> "Remove", alias |-> a]
ReadBuffMsg(a) == [kind |-> "ReadBuff", alias |-> a]
StartForwardingMsg(a, s) ==
    [kind |-> "StartForwarding", alias |-> a, session |-> s]
StopForwardingMsg(a, by) == [kind |-> "StopForwarding", alias |-> a, by |-> by]

(* Tee without its buffers and log files; NoTee is a missing entry. *)
NoTee == [run |-> NoRun, tx |-> NoSession]
HasTee(a) == tees[a].run # NoRun

(* The loops of the router thread: over its requests, over the reads of a   *)
(* StopForwarding, over the pipes of all the Tees.                          *)
AtRequests == [pc |-> "requests"]
AtDrain(a, stream, by) ==
    [pc |-> "drain", alias |-> a, stream |-> stream, left |-> DrainTimes + 1,
     by |-> by]
AtPoll(a, stream, todo) ==
    [pc |-> "poll", alias |-> a, stream |-> stream, todo |-> todo]

Idle == [pc |-> "recv"]

NotAttached == [alias |-> "none", run |-> NoRun, first |-> [st \in Stream |-> 0],
                end |-> "none"]

Init ==
    /\ process = [r \in Run |-> [alias |-> "none", state |-> "unborn"]]
    /\ job = [a \in Alias |-> NoRun]
    /\ written = [r \in Run |-> [st \in Stream |-> 0]]
    /\ read = [r \in Run |-> [st \in Stream |-> 0]]
    /\ requests = <<>>
    /\ tees = [a \in Alias |-> NoTee]
    /\ router = AtRequests
    /\ orch = Idle
    /\ reply = "none"
    /\ chan = [s \in Session |-> <<>>]
    /\ forwarder = [s \in Session |-> "none"]
    /\ got = [s \in Session |-> <<>>]
    /\ gone = {}
    /\ commands = 0
    /\ att = [s \in Session |-> NotAttached]

-----------------------------------------------------------------------------
(* The processes *)

Write(r, stream) ==
    /\ process[r].state = "alive"
    /\ written[r]["stdout"] + written[r]["stderr"] < MaxChunks
    /\ written[r][stream] - read[r][stream] < PipeSize
    /\ written' = [written EXCEPT ![r][stream] = @ + 1]
    /\ UNCHANGED <<process, job, read, requests, tees, router, orch, reply,
                   chan, forwarder, got, gone, commands, att>>

Exit(r) ==
    /\ process[r].state = "alive"
    /\ process' = [process EXCEPT ![r].state = "exited"]
    /\ UNCHANGED <<job, written, read, requests, tees, router, orch, reply,
                   chan, forwarder, got, gone, commands, att>>

-----------------------------------------------------------------------------
(* The orchestrator *)

(* start_job: a process and the request to read its pipes. *)
StartJob(a) ==
    /\ orch = Idle
    /\ job[a] = NoRun
    /\ \E r \in Run :
          /\ process[r].state = "unborn"
          /\ \A q \in 1 .. r - 1 : process[q].state # "unborn"
          /\ process' = [process EXCEPT ![r] = [alias |-> a, state |-> "alive"]]
          /\ job' = [job EXCEPT ![a] = r]
          /\ requests' = Append(requests, CreateMsg(a, r))
    /\ UNCHANGED <<written, read, tees, router, orch, reply, chan, forwarder,
                   got, gone, commands, att>>

(* A Finished event of an earlier process of the alias, which NoStaleEvents *)
(* of the server's model excludes but for a late timer, takes away a living *)
(* one.                                                                     *)
FinishedBy(a) == IF process[job[a]].state = "exited" THEN "finish" ELSE "stale"

(* manage_event, Finished: two requests to the router. *)
FinishJob(a) ==
    /\ orch = Idle
    /\ job[a] # NoRun
    /\ requests' = Append(requests, StopForwardingMsg(a, FinishedBy(a)))
    /\ orch' = [pc |-> "remove", alias |-> a]
    /\ IF FinishedBy(a) = "finish" THEN UNCHANGED commands
       ELSE commands < MaxStale /\ commands' = commands + 1
    /\ UNCHANGED <<process, job, written, read, tees, router, reply, chan,
                   forwarder, got, gone, att>>

FinishEnded(a) == FinishJob(a) /\ FinishedBy(a) = "finish"

(* Variant of RemoveJob: the router is not told. *)
RemoveJobUntold ==
    /\ orch.pc = "remove"
    /\ job' = [job EXCEPT ![orch.alias] = NoRun]
    /\ orch' = Idle
    /\ UNCHANGED <<process, written, read, requests, tees, router, reply, chan,
                   forwarder, got, gone, commands, att>>

RemoveJob ==
    /\ orch.pc = "remove"
    /\ requests' = Append(requests, RemoveMsg(orch.alias))
    /\ job' = [job EXCEPT ![orch.alias] = NoRun]
    /\ orch' = Idle
    /\ UNCHANGED <<process, written, read, tees, router, reply, chan, forwarder,
                   got, gone, commands, att>>

(* attach_job: the orchestrator waits for the router's answer. *)
Attach(s, a) ==
    /\ orch = Idle
    /\ forwarder[s] = "none"
    /\ forwarder' = [forwarder EXCEPT ![s] = "asking"]
    /\ requests' = Append(requests, StartForwardingMsg(a, s))
    /\ orch' = [pc |-> "attach", session |-> s]
    /\ UNCHANGED <<process, job, written, read, tees, router, reply, chan, got,
                   gone, commands, att>>

(* The forwarder thread is started, or the client is told the error. *)
AttachReturns ==
    /\ orch.pc = "attach"
    /\ reply # "none"
    /\ forwarder' = [forwarder EXCEPT ![orch.session] =
                        IF reply = "Ok" THEN "running" ELSE "refused"]
    /\ reply' = "none"
    /\ orch' = Idle
    /\ UNCHANGED <<process, job, written, read, requests, tees, router, chan,
                   got, gone, commands, att>>

(* detach_job *)
Detach(a) ==
    /\ orch = Idle
    /\ commands < MaxCommands
    /\ commands' = commands + 1
    /\ requests' = Append(requests, StopForwardingMsg(a, "detach"))
    /\ UNCHANGED <<process, job, written, read, tees, router, orch, reply, chan,
                   forwarder, got, gone, att>>

(* job_status: the orchestrator waits for the buffers. *)
Status(a) ==
    /\ orch = Idle
    /\ commands < MaxCommands
    /\ commands' = commands + 1
    /\ requests' = Append(requests, ReadBuffMsg(a))
    /\ orch' = [pc |-> "status"]
    /\ UNCHANGED <<process, job, written, read, tees, router, reply, chan,
                   forwarder, got, gone, att>>

StatusReturns ==
    /\ orch.pc = "status"
    /\ reply # "none"
    /\ reply' = "none"
    /\ orch' = Idle
    /\ UNCHANGED <<process, job, written, read, requests, tees, router, chan,
                   forwarder, got, gone, commands, att>>

-----------------------------------------------------------------------------
(* The router thread: its requests *)

Receive(kind) ==
    /\ router = AtRequests
    /\ requests # <<>>
    /\ Head(requests).kind = kind
    /\ requests' = Tail(requests)

(* or_insert: the pipes are dropped if the alias has a Tee.  There is none  *)
(* either if a log file cannot be opened.                                   *)
HandleCreate ==
    /\ Receive("Create")
    /\ LET req == Head(requests) IN
       \/ UNCHANGED tees
       \/ /\ ~HasTee(req.alias)
          /\ tees' = [tees EXCEPT ![req.alias] =
                         [run |-> req.run, tx |-> NoSession]]
    /\ UNCHANGED <<process, job, written, read, router, orch, reply, chan,
                   forwarder, got, gone, commands, att>>

(* Variant of HandleRemove: the Tee stays, without its channel. *)
HandleRemoveForwarding ==
    /\ Receive("Remove")
    /\ tees' = [tees EXCEPT ![Head(requests).alias].tx = NoSession]
    /\ UNCHANGED <<process, job, written, read, router, orch, reply, chan,
                   forwarder, got, gone, commands, att>>

HandleRemove ==
    /\ Receive("Remove")
    /\ tees' = [tees EXCEPT ![Head(requests).alias] = NoTee]
    /\ UNCHANGED <<process, job, written, read, router, orch, reply, chan,
                   forwarder, got, gone, commands, att>>

HandleReadBuff ==
    /\ Receive("ReadBuff")
    /\ reply' = "Ok"
    /\ UNCHANGED <<process, job, written, read, tees, router, orch, chan,
                   forwarder, got, gone, commands, att>>

Refusal(a) == IF HasTee(a) THEN "JobAlreadyAttached" ELSE "JobNotFound"

(* Variant of MayForward: the last client to attach gets the job. *)
MayForwardAgain(a) == HasTee(a)

MayForward(a) == HasTee(a) /\ tees[a].tx = NoSession

HandleStartForwarding ==
    /\ Receive("StartForwarding")
    /\ LET a == Head(requests).alias
           s == Head(requests).session
       IN IF MayForward(a)
          THEN /\ tees' = [tees EXCEPT ![a].tx = s]
               /\ att' = [att EXCEPT ![s] = [alias |-> a, run |-> tees[a].run,
                                             first |-> read[tees[a].run],
                                             end |-> "none"]]
               /\ reply' = "Ok"
          ELSE /\ reply' = Refusal(a)
               /\ UNCHANGED <<tees, att>>
    /\ UNCHANGED <<process, job, written, read, router, orch, chan, forwarder,
                   got, gone, commands>>

(* A forwarding ends after a last look at the pipes. *)
HandleStopForwarding ==
    /\ Receive("StopForwarding")
    /\ LET req == Head(requests) IN
       router' = IF tees[req.alias].tx # NoSession
                 THEN AtDrain(req.alias, "stdout", req.by)
                 ELSE AtRequests
    /\ UNCHANGED <<process, job, written, read, tees, orch, reply, chan,
                   forwarder, got, gone, commands, att>>

-----------------------------------------------------------------------------
(* The router thread: reading the pipes *)

Unread(a, stream) == read[tees[a].run][stream] < written[tees[a].run][stream]

(* Variant of Room: a channel without a bound. *)
RoomAlways(s) == TRUE

Room(s) == Len(chan[s]) < Capacity

(* forward: one read, and a send that blocks while the channel is full and  *)
(* fails when its receiver is gone.                                         *)
Forward(a, stream) ==
    LET r == tees[a].run
        s == tees[a].tx
        listening == s # NoSession /\ forwarder[s] # "done"
    IN /\ Unread(a, stream)
       /\ read' = [read EXCEPT ![r][stream] = @ + 1]
       /\ \/ ~listening /\ UNCHANGED chan
          \/ /\ listening
             /\ Room(s)
             /\ chan' = [chan EXCEPT ![s] =
                            Append(@, [run |-> r, stream |-> stream,
                                       n |-> read[r][stream] + 1])]

DrainRead ==
    /\ router.pc = "drain"
    /\ router.left > 0
    /\ Forward(router.alias, router.stream)
    /\ router' = [router EXCEPT !.left = @ - 1]
    /\ UNCHANGED <<process, job, written, requests, tees, orch, reply,
                   forwarder, got, gone, commands, att>>

(* Variant of DrainedStream: no last look at the pipes. *)
DrainedUnread(stream) ==
    /\ router.pc = "drain"
    /\ router.stream = stream

DrainedStream(stream) ==
    /\ router.pc = "drain"
    /\ router.stream = stream
    /\ router.left = 0 \/ ~Unread(router.alias, stream)

DrainStderr ==
    /\ DrainedStream("stdout")
    /\ router' = AtDrain(router.alias, "stderr", router.by)
    /\ UNCHANGED <<process, job, written, read, requests, tees, orch, reply,
                   chan, forwarder, got, gone, commands, att>>

(* The forward channels are dropped. *)
Release ==
    /\ DrainedStream("stderr")
    /\ tees' = [tees EXCEPT ![router.alias].tx = NoSession]
    /\ att' = [att EXCEPT ![tees[router.alias].tx].end = router.by]
    /\ router' = AtRequests
    /\ UNCHANGED <<process, job, written, read, requests, orch, reply, chan,
                   forwarder, got, gone, commands>>

(* Without a request: one read from every pipe, in the order of a HashMap,  *)
(* then a sleep.                                                            *)
PollAnyOf(todo) ==
    IF todo = {} THEN router' = AtRequests
    ELSE \E a \in todo : router' = AtPoll(a, "stdout", todo \ {a})

BeginPoll ==
    /\ router = AtRequests
    /\ requests = <<>>
    /\ \E a \in Alias : HasTee(a)
    /\ PollAnyOf({a \in Alias : HasTee(a)})
    /\ UNCHANGED <<process, job, written, read, requests, tees, orch, reply,
                   chan, forwarder, got, gone, commands, att>>

(* Variant of Poll: without O_NONBLOCK a read waits for the process. *)
PollBlocking ==
    /\ router.pc = "poll"
    /\ \/ Forward(router.alias, router.stream)
       \/ /\ process[tees[router.alias].run].state = "exited"
          /\ ~Unread(router.alias, router.stream)
          /\ UNCHANGED <<read, chan>>
    /\ IF router.stream = "stdout"
       THEN router' = AtPoll(router.alias, "stderr", router.todo)
       ELSE PollAnyOf(router.todo)
    /\ UNCHANGED <<process, job, written, requests, tees, orch, reply,
                   forwarder, got, gone, commands, att>>

(* The pipes are read without waiting (O_NONBLOCK, jobs.rs:109 and 115). *)
Poll ==
    /\ router.pc = "poll"
    /\ \/ Forward(router.alias, router.stream)
       \/ ~Unread(router.alias, router.stream) /\ UNCHANGED <<read, chan>>
    /\ IF router.stream = "stdout"
       THEN router' = AtPoll(router.alias, "stderr", router.todo)
       ELSE PollAnyOf(router.todo)
    /\ UNCHANGED <<process, job, written, requests, tees, orch, reply,
                   forwarder, got, gone, commands, att>>

-----------------------------------------------------------------------------
(* The forwarder thread of a session, in attach_job *)

ForwardData(s) ==
    /\ forwarder[s] = "running"
    /\ chan[s] # <<>>
    /\ s \notin gone
    /\ got' = [got EXCEPT ![s] = Append(@, Head(chan[s]))]
    /\ chan' = [chan EXCEPT ![s] = Tail(@)]
    /\ UNCHANGED <<process, job, written, read, requests, tees, router, orch,
                   reply, forwarder, gone, commands, att>>

ForwardFails(s) ==
    /\ forwarder[s] = "running"
    /\ chan[s] # <<>>
    /\ s \in gone
    /\ forwarder' = [forwarder EXCEPT ![s] = "ending"]
    /\ chan' = [chan EXCEPT ![s] = Tail(@)]
    /\ UNCHANGED <<process, job, written, read, requests, tees, router, orch,
                   reply, got, gone, commands, att>>

(* Variant of EndOfStream: the thread holds a sender of its own. *)
EndOfStreamNever(s) ==
    /\ forwarder[s] = "running"
    /\ FALSE
    /\ UNCHANGED vars

(* Both senders have been dropped and the channel is empty. *)
EndOfStream(s) ==
    /\ forwarder[s] = "running"
    /\ chan[s] = <<>>
    /\ \A a \in Alias : tees[a].tx # s
    /\ forwarder' = [forwarder EXCEPT ![s] = "ending"]
    /\ UNCHANGED <<process, job, written, read, requests, tees, router, orch,
                   reply, chan, got, gone, commands, att>>

(* The thread ends with a StopForwarding of its own, and its receiver with  *)
(* what is in it.                                                           *)
StopOwn(s) ==
    /\ forwarder[s] = "ending"
    /\ forwarder' = [forwarder EXCEPT ![s] = "done"]
    /\ requests' = Append(requests, StopForwardingMsg(att[s].alias, "forwarder"))
    /\ chan' = [chan EXCEPT ![s] = <<>>]
    /\ UNCHANGED <<process, job, written, read, tees, router, orch, reply, got,
                   gone, commands, att>>

(* The thread that writes to the socket notices that the client is gone by  *)
(* a write that fails.                                                      *)
Disconnect(s) ==
    /\ forwarder[s] = "running"
    /\ got[s] # <<>>
    /\ s \notin gone
    /\ gone' = gone \union {s}
    /\ UNCHANGED <<process, job, written, read, requests, tees, router, orch,
                   reply, chan, forwarder, got, commands, att>>

-----------------------------------------------------------------------------
Router ==
    \/ HandleCreate \/ HandleRemove \/ HandleReadBuff
    \/ HandleStartForwarding \/ HandleStopForwarding
    \/ DrainRead \/ DrainStderr \/ Release
    \/ BeginPoll \/ Poll

Forwarder(s) ==
    ForwardData(s) \/ ForwardFails(s) \/ EndOfStream(s) \/ StopOwn(s)

Orchestrator ==
    \/ \E a \in Alias : StartJob(a) \/ FinishJob(a) \/ Detach(a) \/ Status(a)
    \/ \E s \in Session, a \in Alias : Attach(s, a)
    \/ RemoveJob \/ AttachReturns \/ StatusReturns

Next ==
    \/ \E r \in Run : Exit(r) \/ \E stream \in Stream : Write(r, stream)
    \/ Orchestrator
    \/ Router
    \/ \E s \in Session : Forwarder(s) \/ Disconnect(s)

Spec == Init /\ [][Next]_vars

(* The threads run; the orchestrator comes to the Finished events in its    *)
(* channel, between requests of whatever number.                            *)
Fairness ==
    /\ WF_vars(Router)
    /\ \A s \in Session : WF_vars(Forwarder(s))
    /\ WF_vars(RemoveJob \/ AttachReturns \/ StatusReturns)
    /\ \A a \in Alias : SF_vars(FinishEnded(a))

FairSpec == Spec /\ Fairness
=============================================================================
