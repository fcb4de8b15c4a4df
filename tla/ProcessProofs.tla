---------------------------- MODULE ProcessProofs ---------------------------
(***************************************************************************)
(* Proofs about the processes of the server: one that must not go on is    *)
(* told so, none is without supervision, and what the channel says is of   *)
(* the process under watch.                                                *)
(***************************************************************************)
EXTENDS SupervisionProofs

-----------------------------------------------------------------------------
(* Signals *)

Living(a) == IsWatched(a) /\ proc[watched[a].pid].state = "alive"

(* The process was signalled, or kill_job is just about to. *)
Told(a) ==
    \/ proc[watched[a].pid].signal # "none"
    \/ orch.pc = "kill" /\ orch.pid = watched[a].pid

Due(a) == \E ch \in Pending : ch.alias = a

Outdated(a) ==
    a \notin missed /\ proc[watched[a].pid].def # services[a] /\ ~Due(a)

(* A process whose job is being stopped was told so: a reload that finds a  *)
(* job Stopping sends nothing (jobs.rs:246).                                *)
ToldToStop(a) ==
    Living(a) /\ (jobs[a].status = "Stopping" \/ Outdated(a)) => Told(a)

(* stop_request on behalf of a client leaves nothing to apply. *)
NothingLeft ==
    orch.pc \in {"stop", "kill", "return"} /\ orch.call.by = "request"
        => orch.call.todo = {}

Signals == NothingLeft /\ \A a \in Alias \ lost : ToldToStop(a)

(* Steps that give an alias no new reason to be signalled. *)
KeepsProcess(a) ==
    /\ watched'[a].pid = watched[a].pid
    /\ IsWatched(a) =>
          LET p == watched[a].pid IN
          /\ proc'[p].state = "alive" =>
                proc[p].state = "alive" /\ proc'[p].def = proc[p].def
          /\ proc[p].signal # "none" => proc'[p].signal # "none"

Calm(a) ==
    /\ KeepsProcess(a)
    /\ services'[a] = services[a]
    /\ jobs'[a].status = "Stopping" => jobs[a].status = "Stopping"
    /\ a \in missed => a \in missed'
    /\ Due(a) => Due(a)' \/ a \in missed'
    /\ orch.pc = "kill" => orch' = orch

SignalsKept ==
    \A p \in Pid :
        /\ proc'[p].state = "alive" =>
              proc[p].state = "alive" /\ proc'[p].def = proc[p].def
        /\ proc[p].signal # "none" => proc'[p].signal # "none"

LEMMA CalmStep ==
    ASSUME NEW a \in Alias, ToldToStop(a), Calm(a)
    PROVE  ToldToStop(a)'
  BY DEF ToldToStop, Calm, KeepsProcess, Living, Outdated, Told, IsWatched

LEMMA PendingIs ==
    /\ orch.pc = "reload" => Pending = orch.todo
    /\ orch.pc \in {"kill", "return"} => Pending = orch.call.todo
    /\ orch.pc \notin {"reload", "kill", "return"} => Pending = {}
  BY DEF Pending

LEMMA PendingIsNext ==
    /\ orch'.pc = "reload" => Pending' = orch'.todo
    /\ orch'.pc \in {"kill", "return"} => Pending' = orch'.call.todo
    /\ orch'.pc \notin {"reload", "kill", "return"} => Pending' = {}
  BY DEF Pending

LEMMA SignalsInit == Init => Signals
  BY DEF Init, Signals, NothingLeft, ToldToStop, Living, IsWatched, NoWatch,
         Recv

LEMMA SignalsEnvironment ==
    ASSUME TypeInv, Signals, Environment
    PROVE  Signals'
  <1>1. PidsKept /\ UNCHANGED <<services, jobs, orch, lost, missed>>
    BY EnvironmentFrame
  <1>2. SignalsKept
    <2>1. CASE \E p \in Pid : Exit(p)
      BY <2>1 DEF SignalsKept, Exit, TypeInv, TypeOK, Process
    <2>2. ASSUME NEW a \in Alias, ScanPoll(a)
          PROVE  SignalsKept
      <3>1. UNCHANGED proc \/ \E p \in Pid : proc' = [proc EXCEPT ![p].state = "reaped"]
        BY <2>2, WatchedTypes DEF ScanPoll, TypeInv, ScannedAreWatched
      <3> QED BY <3>1 DEF SignalsKept, TypeInv, TypeOK, Process
    <2>3. CASE UNCHANGED proc
      BY <2>3 DEF SignalsKept
    <2> QED
      BY <2>1, <2>2, <2>3
      DEF Environment, SendJobRequest, SendReload, Send, BeginScan, ScanJob,
          ScanTimedOut, Elapse, vars
  <1>3. \A a \in Alias : IsWatched(a) => watched[a].pid \in Pid
    BY WatchedTypes DEF TypeInv
  <1>4. Pending' = Pending
    BY <1>1 DEF Pending
  <1>5. \A a \in Alias : Calm(a)
    BY <1>1, <1>2, <1>3, <1>4 DEF Calm, KeepsProcess, SignalsKept, PidsKept, Due
  <1> QED
    BY <1>1, <1>4, <1>5, CalmStep DEF Signals, NothingLeft

(* The steps of the orchestrator that touch no process and apply no change. *)
LEMMA SignalsQuiet ==
    ASSUME TypeInv, Signals,
           \/ StartUnknown \/ StartService \/ StartDone \/ ReceiveRestart
           \/ ReloadFails \/ ReloadDone \/ ReturnToRequest \/ ReloadRestarted
           \/ EventDropped \/ EventRunning
    PROVE  Signals'
  <1>1. UNCHANGED <<watched, proc, services, history>>
    BY DEF StartUnknown, StartService, StartDone, ReceiveRestart, ReloadFails,
           ReloadDone, ReturnToRequest, ReloadRestarted, ReturnToReload,
           EventDropped, EventRunning
  <1>2. ASSUME NEW a \in Alias, jobs'[a].status = "Stopping"
        PROVE  jobs[a].status = "Stopping"
    <2>1. CASE ReceiveRestart
      BY <1>2, <2>1, RequestHead DEF ReceiveRestart, TypeInv, TypeOK, Job
    <2>2. CASE EventRunning
      BY <1>2, <2>2, EventHead DEF EventRunning, TypeInv, TypeOK, Job
    <2>3. CASE UNCHANGED jobs
      BY <1>2, <2>3
    <2> QED
      BY <2>1, <2>2, <2>3
      DEF StartUnknown, StartService, StartDone, ReloadFails, ReloadDone,
          ReturnToRequest, ReloadRestarted, EventDropped
  <1>3. orch.pc # "kill" /\ NothingLeft' /\ (Pending # {} => Pending' = Pending)
    <2>1. CASE orch = Recv /\ orch'.pc \notin {"reload", "kill", "return", "stop"}
      BY <2>1, PendingIs DEF Recv, NothingLeft
    <2>2. CASE ReceiveRestart
      BY <2>2, PendingIs
      DEF ReceiveRestart, ReceiveRequest, Recv, AtStop, RequestCall, NothingLeft
    <2>3. CASE StartDone \/ ReloadDone \/ ReturnToRequest
      BY <2>3, PendingIs
      DEF StartDone, ReloadDone, ReturnToRequest, Answer, Recv, NothingLeft,
          Signals
    <2>4. CASE ReloadRestarted
      BY <2>4, PendingIs, PendingIsNext
      DEF ReloadRestarted, ReturnToReload, AtReload, NothingLeft
    <2> QED
      BY <2>1, <2>2, <2>3, <2>4
      DEF StartUnknown, StartService, ReloadFails, EventDropped, EventRunning,
          ReceiveRequest, Receive, Answer, AtStart, Recv
  <1>4. \A a \in Alias : Due(a) => Due(a)'
    BY <1>3 DEF Due
  <1>5. \A a \in Alias : Calm(a)
    BY <1>1, <1>2, <1>3, <1>4 DEF Calm, KeepsProcess, missed
  <1> QED
    BY <1>1, <1>3, <1>5, CalmStep DEF Signals, lost

(* stop_request: the process of its job is told, or was before. *)
LEMMA SignalsStopRequest ==
    ASSUME TypeInv, Managed, Signals, NEW call \in Call, StopRequest(call),
           UNCHANGED <<proc, history>>, orch.pc # "kill",
           call.by = "request" => call.todo = {},
           \A ch \in Pending : ch \in call.todo \/ ch.alias = call.alias
    PROVE  Signals'
  <1> DEFINE b == call.alias
  <1>1. b \in Alias /\ PidsKept
    BY StopRequestTypes DEF Call
  <1>2. \A a \in Alias \ {b} :
          jobs'[a] = jobs[a] /\ services'[a] = services[a]
    BY <1>1 DEF StopRequest, StopLiveJob, StopIdleJob, TypeInv, TypeOK, Table
  <1>3. /\ Pending' = call.todo /\ NothingLeft'
    <2>1. orch'.pc \in {"kill", "return"} /\ orch'.call = call
      BY DEF StopRequest, StopLiveJob, StopIdleJob, AtKill, AtReturn
    <2> QED BY <2>1, PendingIsNext DEF NothingLeft
  <1>4. \A a \in Alias \ {b} : Calm(a)
    BY <1>1, <1>2, <1>3 DEF Calm, KeepsProcess, PidsKept, missed, Due
  <1>5. b \notin lost /\ Living(b)' => Told(b)'
    <2> SUFFICES ASSUME b \notin lost, Living(b)' PROVE Told(b)'
      OBVIOUS
    <2>1. IsWatched(b) /\ Living(b)
      BY <1>1 DEF Living, IsWatched, PidsKept
    <2>2. services[b] # NoService /\ jobs[b].status \in Live \cup {"Stopping"}
      BY <1>1, <2>1 DEF Managed, WatchedIsManaged
    <2>3. CASE StopLiveJob(call)
      <3>1. orch' = AtKill(call, watched[b].pid)
        BY <2>1, <2>2, <2>3 DEF StopLiveJob
      <3> QED BY <1>1, <3>1 DEF Told, AtKill, PidsKept
    <2>4. CASE StopIdleJob(call)
      <3>1. jobs[b].status = "Stopping"
        BY <2>2, <2>4 DEF StopIdleJob
      <3>2. proc[watched[b].pid].signal # "none"
        BY <1>1, <2>1, <3>1 DEF Signals, ToldToStop, Told
      <3> QED BY <1>1, <3>2 DEF Told, PidsKept
    <2> QED BY <2>3, <2>4 DEF StopRequest
  <1>6. lost' = lost
    BY DEF lost
  <1>7. \A a \in Alias \ lost' : ToldToStop(a)'
    <2> SUFFICES ASSUME NEW a \in Alias, a \notin lost
                 PROVE  ToldToStop(a)'
      BY <1>6
    <2>1. CASE a = b
      BY <1>5, <2>1 DEF ToldToStop
    <2>2. CASE a # b
      BY <1>4, <2>2, CalmStep DEF Signals
    <2> QED BY <2>1, <2>2
  <1> QED BY <1>3, <1>7 DEF Signals

LEMMA SignalsStops ==
    ASSUME TypeInv, Managed, Signals, StopService \/ RestartService \/ ReloadNext
    PROVE  Signals'
  <1>1. CASE StopService
    <2>1. PICK call : /\ call = RequestCall(Head(queue).client, Head(queue).alias, {})
                      /\ StopRequest(call)
      BY <1>1 DEF StopService
    <2>2. call \in Call /\ call.todo = {} /\ orch = Recv
      BY <1>1, <2>1, RequestHead, RequestCallType
      DEF StopService, RequestCall, ReceiveRequest, TypeInv
    <2>3. Pending = {} /\ orch.pc # "kill"
      BY <2>2, PendingIs DEF Recv
    <2> QED
      BY <1>1, <2>1, <2>2, <2>3, SignalsStopRequest DEF StopService
  <1>2. CASE RestartService
    <2>1. orch.call \in Call /\ Pending = {}
      BY <1>2, OrchShape, PendingIs DEF RestartService, TypeInv, TypeOK
    <2> QED
      BY <1>2, <2>1, SignalsStopRequest
      DEF RestartService, Signals, NothingLeft
  <1>3. CASE ReloadNext
    <2>1. orch.client \in Client /\ orch.todo \in SUBSET Change /\ Pending = orch.todo
      BY <1>3, OrchShape, PendingIs DEF ReloadNext, TypeInv, TypeOK
    <2>2. PICK change \in NextChanges : StopRequest(ReloadCall(change))
      BY <1>3 DEF ReloadNext
    <2>3. PICK call : call = ReloadCall(change)
      OBVIOUS
    <2>4. /\ call \in Call /\ call.by = "reload"
          /\ call.todo = orch.todo \ {change} /\ call.alias = change.alias
      BY <2>1, <2>2, <2>3 DEF NextChanges, ReloadCall, Call, Change, Flag
    <2> QED
      BY <1>3, <2>1, <2>2, <2>3, <2>4, SignalsStopRequest DEF ReloadNext
  <1> QED BY <1>1, <1>2, <1>3

(* What a reload changes is due, what it forgets has no process or is lost, *)
(* what a broken one does not come to is missed.                            *)
LEMMA SignalsReload ==
    ASSUME TypeInv, Managed, Signals,
           Reload \/ ReloadForgetsJob \/ ReloadForgetsService \/ ReloadBreaks
    PROVE  Signals'
  <1>1. CASE Reload
    <2>1. PICK new \in Catalog :
            /\ services' = Updated(services, new)
            /\ orch' = AtReload(Head(queue).client, Changes(services, new))
      BY <1>1 DEF Reload
    <2>2. /\ UNCHANGED <<jobs, watched, proc, lost, missed>>
          /\ orch = Recv /\ Pending = {} /\ orch.pc # "kill"
          /\ NothingLeft'
          /\ Pending' = Changes(services, new)
      <3>1. UNCHANGED <<jobs, watched, proc, lost, missed>> /\ orch = Recv
        BY <1>1, ReloadHistory DEF Reload, ReceiveRequest
      <3>2. orch'.pc = "reload" /\ orch'.todo = Changes(services, new)
        BY <2>1 DEF AtReload
      <3> QED BY <3>1, <3>2, PendingIs, PendingIsNext DEF Recv, NothingLeft
    <2>3. ASSUME NEW a \in Alias \ lost
          PROVE  ToldToStop(a)'
      <3>1. CASE services'[a] = services[a]
        <4>1. Calm(a)
          BY <2>2, <3>1 DEF Calm, KeepsProcess, Due
        <4> QED BY <4>1, CalmStep DEF Signals
      <3>2. CASE services'[a] # services[a] /\ ~IsWatched(a)
        BY <2>2, <3>2 DEF ToldToStop, Living, IsWatched
      <3>3. CASE services'[a] # services[a] /\ IsWatched(a)
        <4>1. services[a] # NoService /\ services'[a] = new[a]
          BY <2>1, <3>3 DEF Managed, WatchedIsManaged, Updated
        <4>2. [act |-> "Restart", alias |-> a] \in Changes(services, new)
          BY <2>1, <3>3, <4>1 DEF Changes, Updated
        <4>3. Due(a)'
          BY <2>2, <4>2 DEF Due
        <4> QED
          BY <2>2, <4>3
          DEF Signals, ToldToStop, Living, IsWatched, Outdated, Told
      <3>4. CASE new[a] = NoService
        BY <2>1, <3>1, <3>4 DEF Updated
      <3> QED BY <3>1, <3>2, <3>3
    <2> QED BY <2>2, <2>3 DEF Signals
  <1>2. ASSUME ReloadForgetsJob \/ ReloadForgetsService \/ ReloadBreaks
        PROVE  Signals'
    <2>1. PICK b \in Alias : b = orch.call.alias
      BY <1>2, OrchShape
      DEF ReloadForgetsJob, ReloadForgetsService, ReloadBreaks,
          ReturnToReload, Call, TypeInv, TypeOK
    <2>2. /\ UNCHANGED <<watched, proc>> /\ orch.pc = "return"
          /\ orch'.pc \in {"reload", "recv"} /\ NothingLeft'
      BY <1>2
      DEF ReloadForgetsJob, ReloadForgetsService, ReloadBreaks,
          ReturnToReload, AtReload, Answer, Recv, NothingLeft
    <2>3. \A a \in Alias : Due(a) => Due(a)' \/ a \in missed'
      <3>1. Pending = orch.call.todo
        BY <2>2, PendingIs
      <3>2. CASE ReloadBreaks
        <4>1. missed' = missed \cup {ch.alias : ch \in orch.call.todo}
          BY <3>2 DEF ReloadBreaks, missed, TypeInv, TypeOK, History
        <4> QED BY <3>1, <4>1 DEF Due
      <3>3. CASE ReturnToReload
        <4>1. orch'.pc = "reload" /\ orch'.todo = orch.call.todo
          BY <3>3 DEF ReturnToReload, AtReload
        <4> QED BY <3>1, <4>1, PendingIsNext DEF Due
      <3> QED BY <1>2, <3>2, <3>3 DEF ReloadForgetsJob, ReloadForgetsService
    <2>4. /\ \A a \in Alias : a \in missed => a \in missed'
          /\ lost \subseteq lost'
          /\ \A a \in Alias \ {b} : jobs'[a] = jobs[a] /\ services'[a] = services[a]
      BY <1>2, <2>1
      DEF ReloadForgetsJob, ReloadForgetsService, ReloadBreaks, lost, missed,
          TypeInv, TypeOK, History, Table
    <2>5. /\ jobs'[b].status \in {jobs[b].status, "Absent"}
          /\ \/ services'[b] = services[b]
             \/ b \notin lost => ~IsWatched(b)
      <3>1. CASE ReloadForgetsJob
        BY <2>1, <3>1 DEF ReloadForgetsJob, NoJob, TypeInv, TypeOK
      <3>2. CASE ReloadForgetsService
        BY <2>1, <3>2
        DEF ReloadForgetsService, ReturnToReload, Managed, NotFoundIsUnwatched
      <3> QED BY <1>2, <3>1, <3>2 DEF ReloadBreaks
    <2>6. ASSUME NEW a \in Alias \ lost
          PROVE  ToldToStop(a)'
      <3>1. CASE a = b /\ ~IsWatched(b)
        BY <2>2, <3>1 DEF ToldToStop, Living, IsWatched
      <3>2. CASE a # b \/ services'[b] = services[b]
        <4>1. Calm(a)
          BY <2>2, <2>3, <2>4, <2>5, <3>2 DEF Calm, KeepsProcess
        <4> QED BY <4>1, CalmStep DEF Signals
      <3> QED BY <2>5, <3>1, <3>2
    <2> QED BY <2>2, <2>4, <2>6 DEF Signals
  <1> QED BY <1>1, <1>2

(* A new process runs the definition its service has now. *)
LEMMA SignalsStartJob ==
    ASSUME TypeInv, Managed, Exits, Signals, NEW a \in Alias, NEW job \in Job,
           job.status = CreateJob(a).status,
           StartJob(a, job) \/ StartFails(a, job),
           UNCHANGED services,
           orch.pc \in {"start", "restart"}, orch'.pc \in {"start", "recv"}
    PROVE  Signals'
  <1> USE DEF TypeInv, TypeOK, History
  <1>1. Pending = {} /\ NothingLeft'
    BY PendingIs DEF NothingLeft
  <1>2. CASE StartJob(a, job)
    <2>1. PICK p \in Pid :
            /\ IsFresh(p)
            /\ proc' = [proc EXCEPT ![p] = [Unborn EXCEPT
                          !.state = "alive", !.alias = a, !.def = services[a]]]
            /\ jobs' = [jobs EXCEPT ![a] = [job EXCEPT !.status = "Starting",
                                                       !.stdin = p]]
            /\ watched' = [watched EXCEPT ![a] =
                             [pid |-> p, prev |-> "Starting",
                              timer |-> NewTimer(services[a].startTime)]]
      BY <1>2 DEF StartJob
    <2>2. /\ jobs'[a].status = "Starting" /\ watched'[a].pid = p
          /\ proc'[p].def = services'[a]
          /\ lost' = lost /\ missed' = missed \ {a}
      BY <1>2, <2>1 DEF StartJob, Unborn, lost, missed, Job
    <2>3. ToldToStop(a)'
      BY <2>2 DEF ToldToStop, Outdated
    <2>4. \A b \in Alias \ {a} :
            /\ jobs'[b] = jobs[b] /\ watched'[b] = watched[b]
            /\ IsWatched(b) => proc'[watched[b].pid] = proc[watched[b].pid]
      <3>1. \A b \in Alias : IsWatched(b) => watched[b].pid # p
        BY <2>1 DEF IsFresh, Exits, WatchedAreReal
      <3> QED BY <2>1, <3>1, WatchedTypes
    <2>5. \A b \in Alias \ {a} : Calm(b)
      BY <1>1, <2>2, <2>4 DEF Calm, KeepsProcess, Due
    <2>6. \A b \in Alias \ lost' : ToldToStop(b)'
      BY <2>2, <2>3, <2>5, CalmStep DEF Signals
    <2> QED BY <1>1, <2>6 DEF Signals
  <1>3. CASE StartFails(a, job)
    <2>1. /\ jobs'[a].status = IF HasJob(a) THEN jobs[a].status ELSE "Created"
          /\ \A b \in Alias \ {a} : jobs'[b] = jobs[b]
      BY <1>3, JobTypes DEF StartFails, CreateJob, NewJob, NoJob
    <2>2. \A b \in Alias : Calm(b)
      BY <1>1, <1>3, <2>1 DEF StartFails, Calm, KeepsProcess, Due, missed
    <2> QED BY <1>1, <1>3, <2>2, CalmStep DEF Signals, StartFails, lost
  <1> QED BY <1>2, <1>3

LEMMA SignalsStarts ==
    ASSUME TypeInv, Managed, Exits, Signals, StartNext \/ RestartJob
    PROVE  Signals'
  <1> USE DEF TypeInv, TypeOK
  <1>1. CASE StartNext
    <2> DEFINE a == Head(orch.todo)
               job == ResetJobRetries(CreateJob(a))
    <2>1. a \in Alias
      BY <1>1, OrchShape, HeadTailProperties DEF StartNext
    <2>2. CreateJob(a) \in Job /\ job \in Job
      BY <2>1, CreateJobType
    <2>3. job.status = CreateJob(a).status
      BY <2>2 DEF ResetJobRetries, Job
    <2> QED
      BY <1>1, <2>1, <2>2, <2>3, SignalsStartJob
      DEF StartNext, Answer, AtStart, Recv
  <1>2. CASE RestartJob
    BY <1>2, OrchShape, CreateJobType, SignalsStartJob DEF RestartJob, Recv
  <1> QED BY <1>1, <1>2

LEMMA SignalsEvents ==
    ASSUME TypeInv, Managed, Exits, Signals,
           EventFinished \/ EventTimedOut \/ KillForStop \/ KillForTimeOut
    PROVE  Signals'
  <1> USE DEF TypeInv
  <1>1. CASE EventFinished
    <2>1. PICK b \in Alias : b = Head(queue).alias
      BY <1>1, EventHead DEF EventFinished
    <2>2. /\ watched' = [watched EXCEPT ![b] = NoWatch]
          /\ UNCHANGED <<proc, history>> /\ orch = Recv
          /\ orch' \in {AtRestart(b), Recv}
      BY <1>1, <2>1
      DEF EventFinished, Forget, FinishStopping, FinishByItself, RestartIf,
          Receive
    <2>3. Pending = {} /\ NothingLeft' /\ orch.pc # "kill"
      BY <2>2, PendingIs DEF NothingLeft, Recv, AtRestart
    <2>4. \A a \in Alias \ {b} : /\ watched'[a] = watched[a]
                                 /\ jobs'[a] = jobs[a]
                                 /\ services'[a] = services[a]
      BY <1>1, <2>1, <2>2
      DEF EventFinished, FinishStopping, FinishByItself, TypeOK, Table
    <2>5. ~IsWatched(b)'
      BY <2>2 DEF IsWatched, NoWatch, TypeOK
    <2>6. \A a \in Alias \ {b} : Calm(a)
      BY <2>2, <2>3, <2>4 DEF Calm, KeepsProcess, missed, Due
    <2>7. \A a \in Alias \ lost : ToldToStop(a)'
      BY <2>5, <2>6, CalmStep DEF Signals, ToldToStop, Living
    <2> QED BY <2>2, <2>3, <2>7 DEF Signals, lost
  <1>2. CASE EventTimedOut
    <2>1. PICK b \in Alias : b = Head(queue).alias
      BY <1>2, EventHead DEF EventTimedOut
    <2>2. /\ UNCHANGED <<services, proc, history>> /\ PidsKept
          /\ orch = Recv /\ orch'.pc \in {"recv", "escalate"}
      BY <1>2, TimeOutTypes
      DEF EventTimedOut, TimeOutLive, TimeOutStopping, TimeOutIdle, Receive,
          AtEscalate, Recv
    <2>3. Pending = {} /\ NothingLeft' /\ orch.pc # "kill"
      BY <2>2, PendingIs DEF NothingLeft, Recv
    <2>4. /\ \A a \in Alias \ {b} : jobs'[a] = jobs[a]
          /\ jobs'[b].status = "Stopping" => jobs[b].status \in {"Stopping", "TimedOut"}
      BY <1>2, <2>1
      DEF EventTimedOut, TimeOutLive, TimeOutStopping, TimeOutIdle, TypeOK, Job
    <2>5. \A a \in Alias : jobs[a].status # "TimedOut" => Calm(a)
      BY <2>2, <2>3, <2>4 DEF Calm, KeepsProcess, PidsKept, missed, Due
    <2>6. \A a \in Alias \ lost : jobs[a].status = "TimedOut" => ~IsWatched(a)'
      BY <2>2 DEF Managed, WatchedIsManaged, PidsKept, IsWatched, Live
    <2>7. \A a \in Alias \ lost : ToldToStop(a)'
      BY <2>5, <2>6, CalmStep DEF Signals, ToldToStop, Living
    <2> QED BY <2>2, <2>3, <2>7 DEF Signals, lost
  <1>3. CASE KillForStop \/ KillForTimeOut
    <2> DEFINE k == orch.pid
    <2>0. PICK sig \in {"stop", "kill"} : k \in Pid /\ Signal(k, sig)
      BY <1>3, OrchShape DEF KillForStop, KillForTimeOut, TypeOK
    <2>1. /\ UNCHANGED <<services, jobs, watched, history>>
          /\ orch.pc = "kill" \/ (orch.pc = "escalate" /\ orch' = Recv)
          /\ orch.pc = "kill" => orch'.pc = "return" /\ orch'.call = orch.call
      BY <1>3 DEF KillForStop, KillForTimeOut, AtReturn
    <2>2. Pending' = Pending /\ NothingLeft'
      BY <2>1, PendingIs, PendingIsNext DEF Signals, NothingLeft, Recv
    <2>3. /\ SignalsKept
          /\ \A p \in Pid : proc'[p].state = proc[p].state /\ proc'[p].def = proc[p].def
          /\ proc[k].state = "alive" => proc'[k].signal # "none"
      <3>1. \/ proc[k].signal = "kill" /\ proc' = proc
            \/ proc[k].state # "alive" /\ proc' = proc
            \/ proc' = [proc EXCEPT ![k].signal = sig]
        BY <2>0 DEF Signal
      <3>2. proc \in [Pid -> Process]
        BY DEF TypeOK
      <3> HIDE DEF k
      <3> QED BY <2>0, <3>1, <3>2 DEF SignalsKept, Process
    <2>4. \A a \in Alias : IsWatched(a) => watched[a].pid \in Pid
      BY WatchedTypes
    <2>5. ASSUME NEW a \in Alias \ lost, Living(a)', 
                 (jobs[a].status = "Stopping" \/ Outdated(a))'
          PROVE  Told(a)'
      <3>1. Living(a) /\ (jobs[a].status = "Stopping" \/ Outdated(a))
        BY <2>1, <2>2, <2>3, <2>4, <2>5
        DEF Living, Outdated, IsWatched, Due, missed
      <3>2. Told(a)
        BY <3>1 DEF Signals, ToldToStop
      <3> QED
        BY <2>1, <2>3, <2>4, <3>1, <3>2 DEF Told, Living, SignalsKept
    <2> QED BY <2>1, <2>2, <2>5 DEF Signals, ToldToStop, lost
  <1> QED BY <1>1, <1>2, <1>3

LEMMA SignalsStep ==
    TypeInv /\ Managed /\ Exits /\ Signals /\ [Next]_vars => Signals'
  BY NextIsStep, SignalsEnvironment, SignalsQuiet, SignalsStops, SignalsReload,
     SignalsStarts, SignalsEvents
  DEF Orchestrator, ManageEvent

(* The inductive invariant behind ExitsAreReported, for what builds on it.  *)
THEOREM ExitsInvariant == Spec => []Exits
  BY ExitInit, ExitStep, TypeInvariant, ManagedInvariant, PTL DEF Spec

(* A process that runs with another definition than its service has now was *)
(* told to stop or is about to be, unless the reload broke before it came   *)
(* to it, or has forgotten its job.                                         *)
THEOREM OutdatedAreSignalled == Spec => []OutdatedIsSignalled
  <1>1. Signals => OutdatedIsSignalled
    BY DEF Signals, ToldToStop, Living, Outdated, Due, Told, OutdatedIsSignalled
  <1> QED
    BY <1>1, SignalsInit, SignalsStep, TypeInvariant, ManagedInvariant,
       ExitsInvariant, PTL DEF Spec

-----------------------------------------------------------------------------
(* Events.  Nothing is claimed of a job that a reload has forgotten, and of *)
(* one of which a timer ran out behind the report of the end.               *)
Excepted == lost \cup late

EventOf(i, a) == queue[i].kind = "event" /\ queue[i].alias = a

Current(a) ==
    \A i \in DOMAIN queue : EventOf(i, a) => queue[i].pid = watched[a].pid

(* The watcher says nothing of a process after its end.                     *)
EndIsLast(a) ==
    \A i \in DOMAIN queue : EventOf(i, a) /\ queue[i].status = "Finished" =>
        /\ watched[a].prev = "Finished"
        /\ \A j \in DOMAIN queue : EventOf(j, a) => j <= i

Unreaped(p) == proc[p].state \in {"alive", "exited"}

OnlyOne(a) ==
    \A p \in Pid : Unreaped(p) /\ proc[p].alias = a => watched[a].pid = p

Restarts(a) == orch.pc = "restart" /\ orch.alias = a

(* A process whose end may be counted has a retry left to count.            *)
Room(a) == IsWatched(a) \/ Restarts(a) => jobs[a].retries + 1 < U8

Orderly(a) ==
    /\ Current(a) /\ EndIsLast(a) /\ OnlyOne(a)
    /\ Refused(a) => IsWatched(a)
    /\ Room(a)

(* Every process was started for an alias.                                  *)
Named == \A p \in Pid : Unreaped(p) => proc[p].alias \in Alias

Order == Named /\ \A a \in Alias \ Excepted : Orderly(a)

-----------------------------------------------------------------------------
(* Steps that send no event of an alias, and leave its process.             *)

NoNewEvents(a) ==
    \E k \in {0, 1} : \A i \in DOMAIN queue' :
        queue'[i].kind = "event" /\ queue'[i].alias = a
            => i + k \in DOMAIN queue /\ queue'[i] = queue[i + k]

NoNewProcess ==
    \A p \in Pid : proc'[p].state \in {"alive", "exited"} =>
        proc[p].state \in {"alive", "exited"} /\ proc'[p].alias = proc[p].alias

Steady(a) ==
    /\ NoNewEvents(a)
    /\ watched'[a].pid = watched[a].pid
    /\ watched[a].prev = "Finished" => watched'[a].prev = "Finished"
    /\ \/ jobs'[a].status \in {jobs[a].status, "Absent", "Created", "Finished"}
       \/ IsWatched(a)
    /\ jobs'[a].retries \in {jobs[a].retries, 0}
    /\ Restarts(a)' => Restarts(a)

LEMMA QueueSame ==
    ASSUME queue' = queue, queue \in Seq(Message)
    PROVE  \A a : NoNewEvents(a)
  <1>1. \A i \in DOMAIN queue : i + 0 = i
    OBVIOUS
  <1> QED BY <1>1 DEF NoNewEvents

LEMMA QueueTail ==
    ASSUME queue' = Tail(queue), queue \in Seq(Message), queue # <<>>
    PROVE  \A a : NoNewEvents(a)
  <1>1. \A i \in DOMAIN queue' : i + 1 \in DOMAIN queue /\ queue'[i] = queue[i + 1]
    BY HeadTailProperties
  <1> QED BY <1>1 DEF NoNewEvents

LEMMA QueueAppend ==
    ASSUME NEW m \in Message, queue' = Append(queue, m), queue \in Seq(Message),
           NEW a, ~(m.kind = "event" /\ m.alias = a)
    PROVE  NoNewEvents(a)
  <1>1. \A i \in DOMAIN queue' :
          \/ i + 0 \in DOMAIN queue /\ queue'[i] = queue[i + 0]
          \/ queue'[i] = m
    BY AppendProperties
  <1> QED BY <1>1 DEF NoNewEvents

LEMMA SteadyStep ==
    ASSUME NEW a \in Alias, Orderly(a), Steady(a), NoNewProcess,
           DOMAIN queue' \subseteq Nat
    PROVE  Orderly(a)'
  <1>1. PICK k \in {0, 1} : \A i \in DOMAIN queue' :
          queue'[i].kind = "event" /\ queue'[i].alias = a
            => i + k \in DOMAIN queue /\ queue'[i] = queue[i + k]
    BY DEF Steady, NoNewEvents
  <1>2. Current(a)'
    BY <1>1 DEF Current, EventOf, Orderly, Steady
  <1>3. EndIsLast(a)'
    <2> SUFFICES ASSUME NEW i \in DOMAIN queue', NEW j \in DOMAIN queue',
                        queue'[i].kind = "event", queue'[i].alias = a,
                        queue'[i].status = "Finished",
                        queue'[j].kind = "event", queue'[j].alias = a
                 PROVE  watched'[a].prev = "Finished" /\ j <= i
      BY DEF EndIsLast, EventOf
    <2>1. /\ i + k \in DOMAIN queue /\ queue'[i] = queue[i + k]
          /\ j + k \in DOMAIN queue /\ queue'[j] = queue[j + k]
      BY <1>1
    <2>2. watched[a].prev = "Finished" /\ j + k <= i + k
      BY <2>1 DEF Orderly, EndIsLast, EventOf
    <2> QED BY <2>2 DEF Steady
  <1>4. OnlyOne(a)'
    BY DEF OnlyOne, Unreaped, NoNewProcess, Steady, Orderly
  <1>5. (Refused(a) => IsWatched(a))'
    BY DEF Refused, IsWatched, Steady, Orderly, Live
  <1>6. Room(a)'
    BY ServicesAssumption DEF Room, Restarts, IsWatched, Steady, Orderly
  <1> QED BY <1>2, <1>3, <1>4, <1>5, <1>6 DEF Orderly

LEMMA OrderInit ==
    ASSUME Init
    PROVE  Order
  <1>1. \A a \in Alias : Orderly(a)
    <2> SUFFICES ASSUME NEW a \in Alias PROVE Orderly(a)
      OBVIOUS
    <2>1. /\ DOMAIN queue = {} /\ ~IsWatched(a) /\ jobs[a].status = "Absent"
          /\ orch.pc = "recv" /\ \A p \in Pid : proc[p].state = "unborn"
      BY DEF Init, IsWatched, NoWatch, NoJob, Unborn, Recv
    <2>2. Current(a) /\ EndIsLast(a) /\ OnlyOne(a)
      BY <2>1 DEF Current, EndIsLast, OnlyOne, Unreaped
    <2>3. ~Refused(a) /\ Room(a)
      BY <2>1 DEF Refused, Room, Restarts, Live
    <2> QED BY <2>2, <2>3 DEF Orderly
  <1>2. Named
    BY DEF Init, Named, Unreaped, Unborn
  <1> QED BY <1>1, <1>2 DEF Order

-----------------------------------------------------------------------------
(* The order of the events, step by step *)

(* What the steps have to show, when no process is started. *)
AllSteady ==
    /\ Excepted \subseteq Excepted'
    /\ NoNewProcess
    /\ \A a \in Alias \ Excepted' : Steady(a)

LEMMA AllSteadyStep ==
    ASSUME Order, AllSteady, queue' \in Seq(Message)
    PROVE  Order'
  <1>1. DOMAIN queue' \subseteq Nat
    OBVIOUS
  <1>2. \A a \in Alias \ Excepted' : Orderly(a)'
    BY <1>1, SteadyStep DEF Order, AllSteady
  <1>3. Named'
    BY DEF Named, Unreaped, NoNewProcess, Order, AllSteady
  <1> QED BY <1>2, <1>3 DEF Order, AllSteady

(* A report of the watcher: if nothing has been said of an end, it is the   *)
(* last event of its alias, and if something has, the timer ran out behind. *)
LEMMA OrderReport ==
    ASSUME TypeInv, Exits, Order, NEW a \in Alias, IsWatched(a),
           NEW st \in {"Running", "Finished", "TimedOut"}, NEW code \in ExitCode,
           Report(a, st, code), NoNewProcess, UNCHANGED <<jobs, orch>>,
           Excepted \subseteq Excepted',
           watched[a].prev = "Finished" => a \in Excepted'
    PROVE  Order'
  <1> USE DEF TypeInv, TypeOK
  <1> DEFINE m == Event(a, st, code, watched[a].pid)
             n == Len(queue) + 1
  <1>1. m \in Message /\ queue' = Append(queue, m)
    <2>1. watched[a].pid \in Pid
      BY WatchedTypes
    <2> QED BY <2>1 DEF Report, Event, Message, EventMsg
  <1>2. /\ watched' = [watched EXCEPT ![a].prev = st]
        /\ watched[a] \in Watched
        /\ m.kind = "event" /\ m.alias = a /\ m.pid = watched[a].pid /\ m.status = st
    BY WatchedTypes DEF Report, Event
  <1>3. /\ DOMAIN queue' \subseteq Nat
        /\ \A i \in DOMAIN queue' :
             \/ i \in DOMAIN queue /\ queue'[i] = queue[i]
             \/ i = n /\ queue'[i] = m
        /\ \A i \in DOMAIN queue' : i <= n
    BY <1>1, AppendProperties
  <1>4. /\ watched'[a].pid = watched[a].pid /\ watched'[a].prev = st
        /\ \A b \in Alias \ {a} : watched'[b] = watched[b]
    BY <1>2 DEF Watched
  <1> HIDE DEF m, n
  <1>5. ASSUME NEW b \in Alias \ Excepted', b # a
        PROVE  Orderly(b)'
    <2>1. NoNewEvents(b)
      BY <1>1, <1>2, <1>5, QueueAppend
    <2>2. Steady(b)
      BY <1>4, <1>5, <2>1 DEF Steady, Restarts
    <2> QED BY <1>3, <1>5, <2>2, SteadyStep DEF Order
  <1>6. ASSUME a \notin Excepted'
        PROVE  Orderly(a)'
    <2>1. Orderly(a) /\ watched[a].prev # "Finished"
      BY <1>6 DEF Order
    <2>2. Current(a)'
      BY <1>2, <1>3, <1>4, <2>1 DEF Current, EventOf, Orderly
    <2>3. EndIsLast(a)'
      <3>1. \A i \in DOMAIN queue : ~(EventOf(i, a) /\ queue[i].status = "Finished")
        BY <2>1 DEF Orderly, EndIsLast
      <3>2. ASSUME NEW i \in DOMAIN queue', queue'[i].kind = "event",
                   queue'[i].alias = a, queue'[i].status = "Finished"
            PROVE  i = n /\ st = "Finished"
        BY <1>2, <1>3, <3>1, <3>2 DEF EventOf
      <3> QED BY <1>3, <1>4, <3>2 DEF EndIsLast, EventOf
    <2>4. OnlyOne(a)'
      BY <1>4, <2>1 DEF OnlyOne, Unreaped, NoNewProcess, Orderly
    <2>5. (Refused(a) => IsWatched(a))' /\ Room(a)'
      BY <1>4, <2>1 DEF Refused, IsWatched, Orderly, Room, Restarts
    <2> QED BY <2>2, <2>3, <2>4, <2>5 DEF Orderly
  <1>7. Named'
    BY DEF Named, Unreaped, NoNewProcess, Order
  <1> QED BY <1>5, <1>6, <1>7 DEF Order

LEMMA OrderEnvironment ==
    ASSUME TypeInv, TypeInv', Exits, Order, Environment
    PROVE  Order'
  <1> USE DEF TypeInv, TypeOK
  <1>1. /\ PidsKept /\ UNCHANGED <<services, jobs, orch>>
        /\ Excepted \subseteq Excepted'
    BY EnvironmentFrame DEF Excepted
  <1>2. ASSUME NoNewProcess, \A a \in Alias : NoNewEvents(a),
               \A a \in Alias : watched[a].prev = "Finished" =>
                                   watched'[a].prev = "Finished"
        PROVE  Order'
    BY <1>1, <1>2, AllSteadyStep DEF AllSteady, Steady, Restarts, PidsKept
  <1>3. CASE SendJobRequest \/ SendReload
    <2>1. PICK c \in Client, act \in {"Start", "Stop", "Restart", "Reload"},
               a \in Alias \cup {NoAlias} :
            Send(c, act, a) /\ (act = "Reload" <=> a = NoAlias)
      BY <1>3, ServicesAssumption DEF SendJobRequest, SendReload, NoAlias
    <2>2. /\ Request(c, act, a) \in Message
          /\ Request(c, act, a).kind = "request"
          /\ queue' = Append(queue, Request(c, act, a))
      BY <2>1 DEF Request, Message, RequestMsg, Send
    <2>3. \A b \in Alias : NoNewEvents(b)
      BY <2>2, QueueAppend
    <2> QED BY <1>2, <2>1, <2>3 DEF Send, NoNewProcess
  <1>4. CASE BeginScan \/ UNCHANGED vars
    <2>1. UNCHANGED <<queue, proc, watched>>
      BY <1>4 DEF BeginScan, vars
    <2> QED BY <1>2, <2>1, QueueSame DEF NoNewProcess
  <1>5. ASSUME NEW a \in Alias, ScanTimedOut(a)
        PROVE  Order'
    <2>1. IsWatched(a) /\ watched[a] \in Watched /\ 0 \in ExitCode
      BY <1>5, WatchedTypes, ServicesAssumption
      DEF ScanTimedOut, ScannedAreWatched
    <2>2. /\ NoNewProcess
          /\ watched[a].prev = "Finished" => a \in Excepted'
      BY <1>5 DEF ScanTimedOut, NoNewProcess, Excepted, late, History
    <2>3. CASE Report(a, "TimedOut", 0)
      BY <1>1, <2>1, <2>2, <2>3, OrderReport
    <2>4. CASE UNCHANGED <<watched, queue>>
      BY <1>2, <2>2, <2>4, QueueSame
    <2> QED BY <1>5, <2>3, <2>4 DEF ScanTimedOut
  <1>6. ASSUME NEW a \in Alias, ScanPoll(a)
        PROVE  Order'
    <2> DEFINE p == watched[a].pid
               status == IF proc[p].state = "alive" THEN "Running" ELSE "Finished"
               code == IF proc[p].state = "alive" THEN 0 ELSE ReportedCode(p)
    <2>1. IsWatched(a) /\ p \in Pid /\ proc[p] \in Process
      BY <1>6, WatchedTypes DEF ScanPoll, ScannedAreWatched
    <2>2. code \in ExitCode
      BY <2>1, ServicesAssumption DEF ReportedCode, Process
    <2>3. NoNewProcess
      BY <1>6, <2>1 DEF ScanPoll, NoNewProcess, Process
    <2>4. CASE Report(a, status, code) /\ watched[a].prev # status
      <3>1. watched[a].prev # "Finished"
        BY <2>1, <2>4 DEF Exits, WatchedAreReal
      <3> QED BY <1>1, <2>1, <2>2, <2>3, <2>4, <3>1, OrderReport
    <2>5. CASE UNCHANGED <<watched, queue>>
      BY <1>2, <2>3, <2>5, QueueSame
    <2> QED BY <1>6, <2>4, <2>5 DEF ScanPoll
  <1>7. ASSUME NEW a \in Alias, Elapse(a)
        PROVE  Order'
    <2>1. \A b \in Alias : watched'[b].prev = watched[b].prev
      BY <1>7 DEF Elapse, Watched, NoWatch
    <2> QED BY <1>2, <1>7, <2>1, QueueSame DEF Elapse, NoNewProcess
  <1>8. ASSUME NEW p \in Pid, Exit(p)
        PROVE  Order'
    <2>1. NoNewProcess
      BY <1>8 DEF Exit, NoNewProcess, Process
    <2> QED BY <1>2, <1>8, <2>1, QueueSame DEF Exit
  <1> QED
    BY <1>3, <1>4, <1>5, <1>6, <1>7, <1>8 DEF Environment, ScanJob

(* An event that the orchestrator takes is of the process under watch.      *)
LEMMA ReceiveCurrent ==
    ASSUME TypeInv, Order, NEW status, Receive(status),
           NEW a \in Alias, a = Head(queue).alias, a \notin Excepted
    PROVE  IsWatched(a)
  <1>1. /\ queue \in Seq(Message) /\ queue # <<>> /\ Head(queue) = queue[1]
        /\ 1 \in DOMAIN queue /\ queue[1].kind = "event" /\ queue[1].alias = a
    BY HeadTailProperties DEF Receive, TypeInv, TypeOK
  <1>2. queue[1].pid \in Pid
    BY <1>1, MessageShape
  <1>3. queue[1].pid = watched[a].pid
    BY <1>1 DEF Order, Orderly, Current, EventOf
  <1> QED BY <1>2, <1>3 DEF IsWatched, Pid, NoPid

LEMMA QueueTaken ==
    ASSUME TypeInv, (\E act : ReceiveRequest(act)) \/ (\E status : Receive(status))
    PROVE  \A a : NoNewEvents(a)
  BY QueueTail DEF TypeInv, TypeOK, ReceiveRequest, Receive

(* Steps that neither start, stop nor end a process. *)
LEMMA OrderQuiet ==
    ASSUME TypeInv, TypeInv', Order,
           \/ StartUnknown \/ StartService \/ StartDone \/ ReceiveRestart
           \/ ReloadFails \/ Reload \/ ReloadDone \/ ReturnToRequest
           \/ ReloadRestarted \/ ReloadForgetsJob \/ ReloadForgetsService
           \/ ReloadBreaks \/ EventDropped \/ KillForStop \/ KillForTimeOut
    PROVE  Order'
  <1> USE DEF TypeInv, TypeOK
  <1>1. UNCHANGED watched /\ Excepted \subseteq Excepted'
    BY DEF StartUnknown, StartService, StartDone, ReceiveRestart, ReloadFails,
           Reload, ReloadDone, ReturnToRequest, ReloadRestarted,
           ReloadForgetsJob, ReloadForgetsService, ReturnToReload,
           ReloadBreaks, EventDropped, KillForStop, KillForTimeOut, Excepted, lost, late, History
  <1>2. NoNewProcess
    <2>1. CASE KillForStop \/ KillForTimeOut
      BY <2>1, OrchShape
      DEF KillForStop, KillForTimeOut, Signal, NoNewProcess, Process
    <2>2. CASE UNCHANGED proc
      BY <2>2 DEF NoNewProcess
    <2> QED
      BY <2>1, <2>2
      DEF StartUnknown, StartService, StartDone, ReceiveRestart, ReloadFails,
          Reload, ReloadDone, ReturnToRequest, ReloadRestarted,
          ReloadForgetsJob, ReloadForgetsService, ReturnToReload,
          ReloadBreaks, EventDropped
  <1>3. \A a \in Alias : NoNewEvents(a)
    <2>1. CASE \/ StartUnknown \/ StartService \/ ReceiveRestart \/ ReloadFails
               \/ Reload \/ EventDropped
      BY <2>1, QueueTaken
      DEF StartUnknown, StartService, ReceiveRestart, ReloadFails, Reload,
          EventDropped
    <2>2. CASE UNCHANGED queue
      BY <2>2, QueueSame
    <2> QED
      BY <2>1, <2>2
      DEF StartDone, ReloadDone, ReturnToRequest, ReloadRestarted,
          ReloadForgetsJob, ReloadForgetsService, ReturnToReload,
          ReloadBreaks, KillForStop, KillForTimeOut
  <1>4. \A a \in Alias : /\ jobs'[a].status \in {jobs[a].status, "Absent"}
                         /\ jobs'[a].retries \in {jobs[a].retries, 0}
    <2>1. CASE ReceiveRestart
      BY <2>1, RequestHead DEF ReceiveRestart, Job
    <2>2. CASE ReloadForgetsJob
      BY <2>2, OrchShape DEF ReloadForgetsJob, ReturnToReload, NoJob, Call
    <2>3. CASE UNCHANGED jobs
      BY <2>3
    <2> QED
      BY <2>1, <2>2, <2>3
      DEF StartUnknown, StartService, StartDone, ReloadFails, Reload,
          ReloadDone, ReturnToRequest, ReloadRestarted, ReloadForgetsService,
          ReloadBreaks, EventDropped, KillForStop, KillForTimeOut
  <1>5. orch'.pc # "restart" \/ orch' = orch
    BY DEF StartUnknown, StartService, StartDone, ReceiveRestart, ReloadFails,
           Reload, ReloadDone, ReturnToRequest, ReloadRestarted,
           ReloadForgetsJob, ReloadForgetsService, ReturnToReload,
           ReloadBreaks, EventDropped, KillForStop, KillForTimeOut, Answer,
           Recv, AtStart, AtStop, AtReload, AtReturn
  <1> QED
    BY <1>1, <1>2, <1>3, <1>4, <1>5, AllSteadyStep
    DEF AllSteady, Steady, Restarts

(* A timer that is set leaves what the watcher has recorded. *)
LEMMA TimerKeepsPrev ==
    ASSUME TypeInv, NEW b \in Alias, NEW t,
           watched' = [watched EXCEPT ![b].timer = t]
    PROVE  \A a \in Alias : watched'[a].prev = watched[a].prev
  <1>1. watched \in [Alias -> Watched \cup {NoWatch}]
    BY DEF TypeInv, TypeOK
  <1> QED BY <1>1 DEF Watched, NoWatch

LEMMA OrderStopRequest ==
    ASSUME TypeInv, TypeInv', Order, NEW call \in Call, StopRequest(call),
           UNCHANGED <<proc, history>>, \A a \in Alias : NoNewEvents(a)
    PROVE  Order'
  <1>1. PidsKept /\ NoNewProcess /\ Excepted' = Excepted
    BY StopRequestTypes DEF NoNewProcess, Excepted, lost, late
  <1>2. \A a \in Alias : watched'[a].prev = watched[a].prev
    <2>1. UNCHANGED watched \/ \E b \in Alias : \E t :
            watched' = [watched EXCEPT ![b].timer = t]
      BY DEF StopRequest, StopLiveJob, StopIdleJob, Call
    <2> QED BY <2>1, TimerKeepsPrev
  <1>3. \A a \in Alias : /\ \/ jobs'[a].status = jobs[a].status
                            \/ jobs[a].status \in Live
                         /\ jobs'[a].retries = jobs[a].retries
    BY DEF StopRequest, StopLiveJob, StopIdleJob, Call, TypeInv, TypeOK, Job
  <1>4. \A a \in Alias \ Excepted : jobs[a].status \in Live => IsWatched(a)
    BY DEF Order, Orderly, Refused
  <1>5. orch'.pc # "restart"
    BY DEF StopRequest, StopLiveJob, StopIdleJob, AtKill, AtReturn
  <1>6. \A a \in Alias \ Excepted : Steady(a)
    BY <1>1, <1>2, <1>3, <1>4, <1>5 DEF Steady, Restarts, PidsKept
  <1> QED BY <1>1, <1>6, AllSteadyStep DEF AllSteady, TypeInv, TypeOK

LEMMA OrderStops ==
    ASSUME TypeInv, TypeInv', Order,
           StopService \/ RestartService \/ ReloadNext
    PROVE  Order'
  <1> USE DEF TypeInv, TypeOK
  <1>1. CASE StopService
    <2>1. PICK call : /\ call = RequestCall(Head(queue).client, Head(queue).alias, {})
                      /\ StopRequest(call)
      BY <1>1 DEF StopService
    <2>2. call \in Call
      BY <1>1, <2>1, RequestHead, RequestCallType DEF StopService
    <2>3. \A a \in Alias : NoNewEvents(a)
      BY <1>1, QueueTaken DEF StopService
    <2> QED
      BY <1>1, <2>1, <2>2, <2>3, OrderStopRequest DEF StopService
  <1>2. CASE RestartService
    BY <1>2, OrchShape, QueueSame, OrderStopRequest DEF RestartService
  <1>3. CASE ReloadNext
    <2>1. orch.client \in Client /\ orch.todo \in SUBSET Change
      BY <1>3, OrchShape DEF ReloadNext
    <2>2. PICK change \in NextChanges : StopRequest(ReloadCall(change))
      BY <1>3 DEF ReloadNext
    <2>3. ReloadCall(change) \in Call
      BY <2>1, <2>2 DEF NextChanges, ReloadCall, Call, Change, Flag
    <2> QED
      BY <1>3, <2>2, <2>3, QueueSame, OrderStopRequest DEF ReloadNext
  <1> QED BY <1>1, <1>2, <1>3

(* The alias of a process that is started has no other, and no event. *)
LEMMA OrderStartJob ==
    ASSUME TypeInv, TypeInv', Managed, Exits, Order,
           NEW a \in Alias, NEW job \in Job,
           job.status = CreateJob(a).status,
           job.retries = 0 \/ (Restarts(a) /\ job.retries = CreateJob(a).retries),
           StartJob(a, job) \/ StartFails(a, job),
           UNCHANGED queue, orch'.pc # "restart"
    PROVE  Order'
  <1> USE DEF TypeInv, TypeOK
  <1>1. CASE StartJob(a, job)
    <2>1. PICK p \in Pid :
            /\ IsFresh(p)
            /\ proc' = [proc EXCEPT ![p] = [Unborn EXCEPT
                          !.state = "alive", !.alias = a, !.def = services[a]]]
            /\ jobs' = [jobs EXCEPT ![a] = [job EXCEPT !.status = "Starting",
                                                       !.stdin = p]]
            /\ watched' = [watched EXCEPT ![a] =
                             [pid |-> p, prev |-> "Starting",
                              timer |-> NewTimer(services[a].startTime)]]
      BY <1>1 DEF StartJob
    <2>2. /\ jobs'[a].status = "Starting" /\ jobs'[a].retries = job.retries
          /\ watched'[a].pid = p /\ proc'[p].state = "alive" /\ proc'[p].alias = a
          /\ \A q \in Pid \ {p} : proc'[q] = proc[q]
          /\ Excepted' = Excepted
      <3>1. proc'[p].state = "alive" /\ proc'[p].alias = a
        BY <2>1 DEF Unborn
      <3>2. jobs'[a].status = "Starting" /\ jobs'[a].retries = job.retries
        BY <2>1 DEF Job
      <3>3. watched'[a].pid = p /\ \A q \in Pid \ {p} : proc'[q] = proc[q]
        BY <2>1
      <3>4. Excepted' = Excepted
        BY <1>1 DEF StartJob, Excepted, lost, late, History
      <3> QED BY <3>1, <3>2, <3>3, <3>4
    <2>3. \A b \in Alias \ {a} : jobs'[b] = jobs[b] /\ watched'[b] = watched[b]
      BY <2>1
    <2>4. ASSUME NEW b \in Alias \ Excepted, b # a
          PROVE  Orderly(b)'
      <3>1. Orderly(b)
        BY <2>4 DEF Order
      <3>2. Current(b)' /\ EndIsLast(b)'
        BY <2>3, <2>4, <3>1 DEF Current, EndIsLast, EventOf, Orderly
      <3>3. OnlyOne(b)'
        BY <2>2, <2>3, <2>4, <3>1 DEF OnlyOne, Unreaped, Orderly
      <3>4. (Refused(b) => IsWatched(b))' /\ Room(b)'
        BY <2>3, <2>4, <3>1 DEF Refused, IsWatched, Room, Restarts, Orderly
      <3> QED BY <3>2, <3>3, <3>4 DEF Orderly
    <2>5. ASSUME a \notin Excepted
          PROVE  Orderly(a)'
      <3>1. Orderly(a)
        BY <2>5 DEF Order
      <3>2. ~IsWatched(a)
        BY <1>1, <2>5
        DEF StartJob, MayStart, CreateJob, NewJob, NoJob, HasJob, Managed,
            WatchedIsManaged, Live, Excepted
      <3>3. \A i \in DOMAIN queue : ~EventOf(i, a)
        <4>1. \A i \in DOMAIN queue : EventOf(i, a) => queue[i].pid \in Pid
          BY MessageShape DEF EventOf
        <4> QED
          BY <3>1, <3>2, <4>1 DEF Orderly, Current, IsWatched, Pid, NoPid
      <3>4. Current(a)' /\ EndIsLast(a)'
        BY <3>3 DEF Current, EndIsLast, EventOf
      <3>5. OnlyOne(a)'
        BY <2>2, <3>1, <3>2
        DEF OnlyOne, Unreaped, Orderly, IsWatched, Pid, NoPid
      <3>6. IsWatched(a)'
        BY <2>2 DEF IsWatched, Pid, NoPid
      <3>7. job.retries + 1 < U8
        BY <3>1, ServicesAssumption
        DEF Orderly, Room, CreateJob, NewJob, NoJob
      <3>8. Room(a)'
        BY <2>2, <3>7 DEF Room
      <3> QED BY <3>4, <3>5, <3>6, <3>8 DEF Orderly
    <2>6. Named'
      BY <2>2 DEF Named, Unreaped, Order
    <2> QED BY <2>2, <2>4, <2>5, <2>6 DEF Order
  <1>2. CASE StartFails(a, job)
    <2>1. /\ jobs'[a].status = IF HasJob(a) THEN jobs[a].status ELSE "Created"
          /\ jobs'[a].retries \in {jobs[a].retries, 0}
          /\ \A b \in Alias \ {a} : jobs'[b] = jobs[b]
      BY <1>2, JobTypes DEF StartFails, CreateJob, NewJob, NoJob
    <2>2. /\ \A b \in Alias : NoNewEvents(b)
          /\ NoNewProcess /\ UNCHANGED <<watched, history>>
      BY <1>2, QueueSame DEF StartFails, NoNewProcess
    <2> QED
      BY <2>1, <2>2, AllSteadyStep
      DEF AllSteady, Steady, Restarts, Excepted, lost, late
  <1> QED BY <1>1, <1>2

LEMMA OrderStarts ==
    ASSUME TypeInv, TypeInv', Managed, Exits, Order,
           StartNext \/ RestartJob
    PROVE  Order'
  <1> USE DEF TypeInv, TypeOK
  <1>1. CASE StartNext
    <2> DEFINE a == Head(orch.todo)
               job == ResetJobRetries(CreateJob(a))
    <2>1. a \in Alias
      BY <1>1, OrchShape, HeadTailProperties DEF StartNext
    <2>2. CreateJob(a) \in Job /\ job \in Job
      BY <2>1, CreateJobType
    <2>3. job.status = CreateJob(a).status /\ job.retries = 0
      BY <2>2 DEF ResetJobRetries, Job
    <2> QED
      BY <1>1, <2>1, <2>2, <2>3, OrderStartJob
      DEF StartNext, Answer, AtStart, Recv
  <1>2. CASE RestartJob
    BY <1>2, OrchShape, CreateJobType, OrderStartJob
    DEF RestartJob, Restarts, Recv
  <1> QED BY <1>1, <1>2

(* Events that do not end a job are of a process under watch. *)
LEMMA OrderEvents ==
    ASSUME TypeInv, TypeInv', Order, EventRunning \/ EventTimedOut
    PROVE  Order'
  <1> USE DEF TypeInv, TypeOK
  <1>1. PICK b \in Alias : /\ b = Head(queue).alias
                           /\ b \notin Excepted => IsWatched(b)
    BY EventHead, ReceiveCurrent DEF EventRunning, EventTimedOut
  <1>2. PidsKept /\ UNCHANGED <<proc, history>> /\ \A a \in Alias : NoNewEvents(a)
    BY TimeOutTypes, QueueTaken DEF EventRunning, EventTimedOut, PidsKept
  <1>3. \A a \in Alias : watched'[a].prev = watched[a].prev
    <2>1. UNCHANGED watched \/ \E t \in Timer :
            watched' = [watched EXCEPT ![b].timer = t]
      BY <1>1
      DEF EventRunning, EventTimedOut, TimeOutLive, TimeOutStopping,
          TimeOutIdle, NewTimer, Timer
    <2> QED BY <2>1, TimerKeepsPrev
  <1>4. /\ \A a \in Alias \ {b} : jobs'[a] = jobs[a]
        /\ jobs'[b].retries = jobs[b].retries
    <2>1. \E st : jobs' = [jobs EXCEPT ![b].status = st]
      BY <1>1
      DEF EventRunning, EventTimedOut, TimeOutLive, TimeOutStopping, TimeOutIdle
    <2> QED BY <2>1 DEF Job
  <1>5. orch'.pc # "restart" \/ orch' = orch
    BY DEF EventRunning, EventTimedOut, TimeOutLive, TimeOutStopping,
           TimeOutIdle, AtEscalate
  <1>6. \A a \in Alias \ Excepted : Steady(a)
    BY <1>1, <1>2, <1>3, <1>4, <1>5 DEF Steady, Restarts, PidsKept
  <1> QED
    BY <1>2, <1>6, AllSteadyStep DEF AllSteady, NoNewProcess, Excepted, lost, late

(* The event of an end is the last of its alias, and the process reaped. *)
LEMMA OrderFinished ==
    ASSUME TypeInv, TypeInv', Managed, Exits, Order, EventFinished
    PROVE  Order'
  <1> USE DEF TypeInv, TypeOK
  <1>1. PICK b \in Alias : b = Head(queue).alias
    BY EventHead DEF EventFinished
  <1>2. /\ watched' = [watched EXCEPT ![b] = NoWatch]
        /\ UNCHANGED <<proc, history>>
        /\ orch' \in {AtRestart(b), Recv}
        /\ queue # <<>> /\ queue' = Tail(queue)
    BY <1>1
    DEF EventFinished, Forget, FinishStopping, FinishByItself, RestartIf,
        Receive
  <1>3. \A a \in Alias \ {b} : watched'[a] = watched[a] /\ jobs'[a] = jobs[a]
    BY <1>1, <1>2 DEF EventFinished, FinishStopping, FinishByItself
  <1>4. NoNewProcess /\ Excepted' = Excepted /\ \A a \in Alias : NoNewEvents(a)
    BY <1>2, QueueTail DEF NoNewProcess, Excepted, lost, late
  <1>5. DOMAIN queue' \subseteq Nat
    OBVIOUS
  <1>6. ASSUME NEW a \in Alias \ Excepted, a # b
        PROVE  Orderly(a)'
    <2>1. ~Restarts(a)'
      BY <1>2, <1>6 DEF Restarts, AtRestart, Recv
    <2>2. Steady(a)
      BY <1>3, <1>4, <1>6, <2>1 DEF Steady
    <2> QED BY <1>4, <1>5, <1>6, <2>2, SteadyStep DEF Order
  <1>7. ASSUME b \notin Excepted
        PROVE  Orderly(b)'
    <2>1. Orderly(b)
      BY <1>7 DEF Order
    <2>2. /\ 1 \in DOMAIN queue /\ EventOf(1, b) /\ queue[1].status = "Finished"
          /\ Head(queue) = queue[1]
      <3>1. 1 \in DOMAIN queue /\ Head(queue) = queue[1]
        BY <1>2, HeadTailProperties
      <3> QED BY <1>1, <3>1 DEF EventFinished, Receive, EventOf
    <2>3. /\ watched[b].prev = "Finished"
          /\ \A j \in DOMAIN queue : EventOf(j, b) => j <= 1
      BY <2>1, <2>2 DEF Orderly, EndIsLast
    <2>4. \A i \in DOMAIN queue' :
            ~(queue'[i].kind = "event" /\ queue'[i].alias = b)
      <3>1. \A i \in DOMAIN queue' :
              /\ i \in Nat \ {0} /\ i + 1 \in DOMAIN queue
              /\ queue'[i] = queue[i + 1]
        BY <1>2, HeadTailProperties
      <3> QED BY <2>3, <3>1 DEF EventOf
    <2>5. Current(b)' /\ EndIsLast(b)'
      BY <2>4 DEF Current, EndIsLast, EventOf
    <2>6. OnlyOne(b)'
      <3>1. IsWatched(b)
        BY <1>7, <1>1, ReceiveCurrent DEF EventFinished
      <3>2. proc[watched[b].pid].state = "reaped"
        BY <2>3, <3>1 DEF Exits, WatchedAreReal
      <3>3. \A p \in Pid : ~(Unreaped(p) /\ proc[p].alias = b)
        BY <2>1, <3>2 DEF Orderly, OnlyOne, Unreaped
      <3> QED BY <1>2, <3>3 DEF OnlyOne, Unreaped
    <2>7. ~Refused(b)' /\ ~IsWatched(b)'
      <3>1. jobs'[b].status = "Finished"
        BY <1>1 DEF EventFinished, FinishStopping, FinishByItself, Job
      <3>2. watched'[b].pid = NoPid
        BY <1>2 DEF NoWatch
      <3> QED BY <3>1, <3>2 DEF Refused, IsWatched, Live
    <2>8. Room(b)'
      <3>1. IsWatched(b) /\ jobs[b].retries + 1 < U8
        BY <1>1, <1>7, <2>1, ReceiveCurrent DEF EventFinished, Orderly, Room
      <3>2. CASE jobs'[b].retries = jobs[b].retries
        BY <2>7, <3>1, <3>2 DEF Room
      <3>3. CASE FinishByItself(b, Head(queue).code) /\ orch' = AtRestart(b)
        <4>1. /\ PolicyRestarts(b, Head(queue).code)
              /\ jobs'[b].retries = CountRetry(b)
          BY <3>3 DEF FinishByItself, RestartIf, AtRestart, Recv, Job
        <4>2. services[b].retries \in 0 .. U8 - 1
          BY <1>1 DEF EventFinished, Known, Table, Service
        <4>3. CountRetry(b) \in 0 .. U8 - 1 /\ CountRetry(b) < services[b].retries
          BY <4>1, CountRetryType DEF PolicyRestarts
        <4> QED BY <2>7, <4>1, <4>2, <4>3, ServicesAssumption DEF Room
      <3>4. CASE orch' = Recv
        BY <2>7, <3>4 DEF Room, Restarts, Recv
      <3>5. FinishStopping(b) => jobs'[b].retries = jobs[b].retries
        BY DEF FinishStopping, Job
      <3> QED
        BY <1>1, <1>2, <3>2, <3>3, <3>4, <3>5 DEF EventFinished
    <2> QED BY <2>5, <2>6, <2>7, <2>8 DEF Orderly
  <1>8. Named'
    BY <1>4 DEF Named, Unreaped, NoNewProcess, Order
  <1> QED BY <1>4, <1>6, <1>7, <1>8 DEF Order

LEMMA OrderStep ==
    ASSUME TypeInv, TypeInv', Managed, Exits, Order, [Next]_vars
    PROVE  Order'
  BY NextIsStep, OrderEnvironment, OrderQuiet, OrderStops, OrderStarts,
     OrderEvents, OrderFinished
  DEF Orchestrator, ManageEvent

(* The channel and the table of processes stay in order, whatever the      *)
(* threads wait for and however short the waits of the services are: a job  *)
(* leaves the order only by a reload that forgets it, or by a timer that    *)
(* runs out between the report of its end and the handling of the report.   *)
THEOREM OrderInvariant == Spec => []Order
  <1>1. Init => Order
    BY OrderInit
  <1>2. TypeInv /\ TypeInv' /\ Managed /\ Exits /\ Order /\ [Next]_vars => Order'
    BY OrderStep
  <1> QED
    BY <1>1, <1>2, TypeInvariant, ManagedInvariant, ExitsInvariant, PTL
    DEF Spec

(* An event is handled while the process it was sent for is under watch,    *)
(* although it names only the alias, unless its job is one of the two kinds *)
(* that NoStaleEvents excepts.                                              *)
THEOREM EventsAreCurrent == Spec => []NoStaleEvents
  <1>1. TypeInv /\ Order => NoStaleEvents
    <2> SUFFICES ASSUME TypeInv, Order, NEW i \in DOMAIN queue,
                        queue[i].kind = "event", queue[i].alias \notin lost \cup late
                 PROVE  watched[queue[i].alias].pid = queue[i].pid
      BY DEF NoStaleEvents
    <2>1. queue[i].alias \in Alias
      BY MessageShape DEF TypeInv, TypeOK
    <2> QED BY <2>1 DEF Order, Excepted, Orderly, Current, EventOf
  <1> QED BY <1>1, OrderInvariant, TypeInvariant, PTL

(* A process that has not been reaped is under watch, so its end will be    *)
(* noticed and no second process runs under its alias beside it, with the   *)
(* same two exceptions.                                                     *)
THEOREM ProcessesAreWatched == Spec => []NoOrphans
  <1>1. Order => NoOrphans
    <2> SUFFICES ASSUME Order, NEW p \in Pid,
                        proc[p].state \in {"alive", "exited"},
                        proc[p].alias \notin lost \cup late
                 PROVE  watched[proc[p].alias].pid = p
      BY DEF NoOrphans
    <2>1. proc[p].alias \in Alias
      BY DEF Order, Named, Unreaped
    <2> QED BY <2>1 DEF Order, Excepted, Orderly, OnlyOne, Unreaped
  <1> QED BY <1>1, OrderInvariant, PTL

(* A job that start_request refuses as already started has a process, with  *)
(* the same two exceptions: a refused job without a process is one of which *)
(* a timer ran out behind the report of the end.                            *)
THEOREM RefusedJobsHaveProcesses == Spec => []RefusedIsWatched
  <1>1. Order => RefusedIsWatched
    BY DEF Order, Excepted, Orderly, RefusedIsWatched
  <1> QED BY <1>1, OrderInvariant, PTL

(* The u8 of the retries does not wrap: a process whose end is counted was  *)
(* started by hand, which resets it, or by the policy, below its maximum.   *)
THEOREM RetriesOnlyGrow == Spec => RetriesNeverWrap
  <1>1. ASSUME TypeInv, Order, EventFinished, NEW a \in Alias \ (lost \cup late)
        PROVE  jobs'[a].retries >= jobs[a].retries
    <2> USE DEF TypeInv, TypeOK
    <2>1. PICK b \in Alias : b = Head(queue).alias
      BY <1>1, EventHead DEF EventFinished
    <2>2. jobs[a] \in Job /\ jobs[a].retries \in 0 .. U8 - 1
      BY <1>1 DEF Job
    <2>3. CASE jobs'[a].retries = jobs[a].retries
      BY <2>2, <2>3
    <2>4. CASE a = b /\ jobs'[b].retries = CountRetry(b)
      <3>1. jobs[b].retries + 1 < U8
        BY <1>1, <2>1, <2>4, ReceiveCurrent
        DEF EventFinished, Order, Excepted, Orderly, Room
      <3> QED
        BY <2>2, <2>4, <3>1, ServicesAssumption DEF CountRetry
    <2>5. a # b => jobs'[a] = jobs[a]
      BY <1>1, <2>1 DEF EventFinished, FinishStopping, FinishByItself
    <2>6. jobs'[b].retries \in {jobs[b].retries, CountRetry(b)}
      <3>1. FinishStopping(b) => jobs'[b].retries = jobs[b].retries
        BY <1>1 DEF FinishStopping, Job
      <3>2. FinishByItself(b, Head(queue).code) => jobs'[b].retries = CountRetry(b)
        BY <1>1 DEF FinishByItself, Job
      <3> QED BY <1>1, <2>1, <3>1, <3>2 DEF EventFinished
    <2> QED BY <2>3, <2>4, <2>5, <2>6
  <1>2. TypeInv /\ Order /\ [Next]_vars =>
          [EventFinished => \A a \in Alias \ (lost \cup late) :
                               jobs'[a].retries >= jobs[a].retries]_vars
    BY <1>1
  <1> QED
    BY <1>2, OrderInvariant, TypeInvariant, PTL DEF Spec, RetriesNeverWrap
=============================================================================
