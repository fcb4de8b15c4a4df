------------------------- MODULE IoRouterProperties -------------------------
(***************************************************************************)
(* Properties of the I/O router and the threads around it.                 *)
(***************************************************************************)
EXTENDS IoRouter

(* Who a StopForwarding is from. *)
Requester == {"detach", "finish", "stale", "forwarder"}

Request ==
    [kind : {"Create"}, alias : Alias, run : Run]
    \union [kind : {"Remove", "ReadBuff"}, alias : Alias]
    \union [kind : {"StartForwarding"}, alias : Alias, session : Session]
    \union [kind : {"StopForwarding"}, alias : Alias, by : Requester]

RouterState ==
    {AtRequests}
    \union [pc : {"drain"}, alias : Alias, stream : Stream,
            left : 0 .. DrainTimes + 1, by : Requester]
    \union [pc : {"poll"}, alias : Alias, stream : Stream,
            todo : SUBSET Alias]

OrchState ==
    {Idle, [pc |-> "status"]}
    \union [pc : {"remove"}, alias : Alias]
    \union [pc : {"attach"}, session : Session]

Tee == [run : Run \union {NoRun}, tx : Session \union {NoSession}]

History ==
    [alias : Alias \union {"none"}, run : Run \union {NoRun},
     first : [Stream -> 0 .. MaxChunks], end : {"none"} \union Requester]

Attached(s) == att[s].run # NoRun

(* Every variable has its type, and no count or channel exceeds its bound. *)
TypeOK ==
    /\ process \in [Run -> [alias : Alias \union {"none"},
                            state : {"unborn", "alive", "exited"}]]
    /\ job \in [Alias -> Run \union {NoRun}]
    /\ written \in [Run -> [Stream -> 0 .. MaxChunks]]
    /\ read \in [Run -> [Stream -> 0 .. MaxChunks]]
    /\ \A r \in Run, st \in Stream :
          written[r][st] - read[r][st] \in 0 .. PipeSize
    /\ requests \in Seq(Request)
    /\ tees \in [Alias -> Tee]
    /\ router \in RouterState
    /\ orch \in OrchState
    /\ reply \in {"none", "Ok", "JobAlreadyAttached", "JobNotFound"}
    /\ chan \in [Session -> Seq(Chunk)]
    /\ \A s \in Session : Len(chan[s]) <= Capacity
    /\ forwarder \in [Session -> {"none", "asking", "refused", "running",
                                  "ending", "done"}]
    /\ got \in [Session -> Seq(Chunk)]
    /\ gone \subseteq Session
    /\ commands \in Nat
    /\ att \in [Session -> History]
    /\ \A s \in Session : Attached(s) => att[s].alias \in Alias

-----------------------------------------------------------------------------
(* The chunks of a stream in a sequence are those that a run wrote from     *)
(* after the first-th to the last-th, each of them once and in order.       *)
Whole(chunks, r, st, first, last) ==
    LET Of == {i \in DOMAIN chunks : chunks[i].stream = st} IN
    /\ \A i \in Of : chunks[i].run = r /\ chunks[i].n \in first + 1 .. last
    /\ \A n \in first + 1 .. last : \E i \in Of : chunks[i].n = n
    /\ \A i, j \in Of : i < j => chunks[i].n < chunks[j].n

(* A client sees each stream of a job without a gap, a repetition or a      *)
(* change of order: from the read that followed its attach to the last read *)
(* of the router while it is attached, and to the last chunk the process    *)
(* wrote if the end of the process ended the forwarding ("First drain all   *)
(* the pipes", io_router.rs:186).  The channel may be full, the process may *)
(* write on, other clients may attach before and after, and the Finished of *)
(* an earlier process may end the forwarding.                               *)
StreamIsWhole ==
    \A s \in Session, st \in Stream : Attached(s) /\ s \notin gone =>
        LET r == att[s].run  first == att[s].first[st] IN
        \E last \in first .. written[r][st] :
            /\ Whole(got[s] \o chan[s], r, st, first, last)
            /\ tees[att[s].alias].tx = s => last = read[r][st]
            /\ att[s].end = "finish" => last = written[r][st]

(* A client that is told that it is attached gets the output of the process *)
(* the job has now, whatever Creates and Removes of earlier processes were  *)
(* in the router's channel (attach_job, jobs.rs:353).                       *)
AttachedToCurrent ==
    orch.pc = "attach" /\ reply = "Ok" =>
        LET s == orch.session IN
        /\ att[s].run # NoRun
        /\ att[s].run = job[att[s].alias]

(* The requests in the router's channel that change what it holds for an    *)
(* alias.                                                                   *)
Changes(kind, a) ==
    {i \in DOMAIN requests : requests[i].kind = kind /\ requests[i].alias = a}

(* The router ends up with the pipes of the process the orchestrator has    *)
(* for the alias, or with none if a log file could not be opened.  The Tee  *)
(* of a process that has ended is never kept; or_insert (io_router.rs:206)  *)
(* never drops the pipes of a new process in favour of an old one; and the  *)
(* last Create is of the process the job has, or a Remove follows it.       *)
TeesFollowJobs ==
    \A a \in Alias :
        /\ Changes("Remove", a) = {} => tees[a].run \in {job[a], NoRun}
        /\ \A i \in Changes("Create", a) :
              /\ tees[a].run = NoRun \/ \E j \in Changes("Remove", a) : j < i
              /\ \/ requests[i].run = job[a]
                 \/ \E j \in Changes("Remove", a) : i < j

-----------------------------------------------------------------------------
(* The orchestrator's waits for the router end (io_router.rs:268 and 316),  *)
(* although the router itself waits for the forwarder of a slow client.     *)
WaitsEnd == orch.pc \in {"attach", "status"} ~> orch = Idle

(* The stream of an attached client ends when the process has: the drain,   *)
(* the end of the forwarder and its own StopForwarding do not wait for each *)
(* other for ever.                                                          *)
StreamsEnd ==
    \A s \in Session :
        Attached(s) /\ process[att[s].run].state = "exited"
            ~> forwarder[s] = "done"

-----------------------------------------------------------------------------
(* The router, its requests and the forwarders implement Attachment.  A     *)
(* session holds a job while the Tee has the channel to its forwarder.      *)
Refused(s) ==
    \/ forwarder[s] = "refused"
    \/ /\ orch.pc = "attach" /\ orch.session = s
       /\ reply \notin {"none", "Ok"}

Phase(s) ==
    IF forwarder[s] = "none" THEN "new"
    ELSE IF Refused(s) THEN "refused"
    ELSE IF ~Attached(s) THEN "asking"
    ELSE IF s \in gone THEN "broken"
    ELSE IF tees[att[s].alias].tx = s THEN "attached"
    ELSE IF forwarder[s] \in {"ending", "done"} THEN "ended"
    ELSE "released"

Attachments == INSTANCE Attachment WITH
    holder <- [a \in Alias |-> tees[a].tx],
    phase <- [s \in Session |-> Phase(s)],
    sent <- [s \in Session |-> IF s \in gone THEN got[s] ELSE got[s] \o chan[s]]

(* One client at a time holds a job; a chunk goes to one client; "End Of    *)
(* Stream" is told to a client whose connection has not failed only when    *)
(* everything that was routed to it has arrived, in order (jobs.rs:369).    *)
ImplementsAttachment == Attachments!Spec
=============================================================================
