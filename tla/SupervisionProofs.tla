-------------------------- MODULE SupervisionProofs -------------------------
(***************************************************************************)
(* Proofs of what ties the jobs, the table of watched processes, the pipes *)
(* and the event channel of the server together, and that the end of a     *)
(* process is never lost.                                                  *)
(***************************************************************************)
EXTENDS ServerProofs

-----------------------------------------------------------------------------
(* The job at the end of a stop_request that found nothing to stop has no  *)
(* process: a reload then removes its service.                             *)
NotFoundIsUnwatched ==
    /\ orch.pc = "return"
    /\ orch.res = "JobNotFound"
    /\ orch.call.alias \notin lost
    => ~IsWatched(orch.call.alias)

Managed == FinishedIsUnwatched /\ WatchedIsManaged /\ NotFoundIsUnwatched

(* The steps of everybody but the orchestrator. *)
Environment ==
    \/ SendJobRequest \/ SendReload \/ BeginScan
    \/ \E a \in Alias : ScanJob(a) \/ Elapse(a)
    \/ \E p \in Pid : Exit(p)
    \/ UNCHANGED vars

LEMMA EnvironmentFrame ==
    ASSUME TypeInv, Environment
    PROVE  /\ PidsKept
           /\ UNCHANGED <<services, jobs, orch, tees, lost, missed>>
           /\ late \subseteq late'
  <1> USE DEF TypeInv, TypeOK, PidsKept, History, lost, missed, late
  <1>1. CASE SendJobRequest \/ SendReload
    BY <1>1 DEF SendJobRequest, SendReload, Send
  <1>2. CASE BeginScan
    BY <1>2 DEF BeginScan
  <1>3. ASSUME NEW a \in Alias, ScanJob(a)
        PROVE  /\ PidsKept
               /\ UNCHANGED <<services, jobs, orch, tees, lost, missed>>
               /\ late \subseteq late'
    <2>1. watched[a] \in Watched
      BY <1>3, WatchedTypes DEF ScanJob, ScanTimedOut, ScanPoll, ScannedAreWatched
    <2>2. UNCHANGED watched \/ \E st \in Status :
            watched' = [watched EXCEPT ![a] = [watched[a] EXCEPT !.prev = st]]
      BY <1>3 DEF ScanJob, ScanTimedOut, ScanPoll, Report, Status, Live
    <2>3. PidsKept
      BY <2>1, <2>2 DEF Watched
    <2> QED
      BY <1>3, <2>3 DEF ScanJob, ScanTimedOut, ScanPoll
  <1>4. ASSUME NEW a \in Alias, Elapse(a)
        PROVE  /\ PidsKept
               /\ UNCHANGED <<services, jobs, orch, tees, lost, missed, late>>
    BY <1>4 DEF Elapse, Watched, NoWatch
  <1>5. CASE \E p \in Pid : Exit(p)
    BY <1>5 DEF Exit
  <1>6. CASE UNCHANGED vars
    BY <1>6 DEF vars
  <1> QED BY <1>1, <1>2, <1>3, <1>4, <1>5, <1>6 DEF Environment

(* A reload notes which services the files have dropped, and no more. *)
LEMMA ReloadHistory ==
    ASSUME TypeInv, Reload
    PROVE  UNCHANGED <<lost, missed, late>>
  BY DEF Reload, TypeInv, TypeOK, History, lost, missed, late

-----------------------------------------------------------------------------
(* Managed, handler by handler. *)

LEMMA ManagedInit == Init => Managed
  BY DEF Init, Managed, FinishedIsUnwatched, WatchedIsManaged,
         NotFoundIsUnwatched, IsWatched, NoWatch, Recv

LEMMA ManagedEnvironment ==
    ASSUME TypeInv, Managed, Environment
    PROVE  Managed'
  <1>1. \A b \in Alias : IsWatched(b)' <=> IsWatched(b)
    BY EnvironmentFrame DEF PidsKept, IsWatched
  <1>2. orch \in OrchState
    BY DEF TypeInv, TypeOK
  <1>3. orch.pc = "return" => orch.call.alias \in Alias
    BY <1>2, OrchShape DEF Call
  <1> QED
    BY <1>1, <1>3, EnvironmentFrame
    DEF Managed, FinishedIsUnwatched, WatchedIsManaged, NotFoundIsUnwatched,
        lost

(* start_request: the job that is started has no process under watch. *)
LEMMA ManagedStartJob ==
    ASSUME TypeInv, Managed, NEW a \in Alias, NEW job \in Job,
           job.status = CreateJob(a).status,
           StartJob(a, job) \/ StartFails(a, job),
           UNCHANGED services, orch'.pc # "return"
    PROVE  Managed'
  <1>1. CASE StartJob(a, job)
    <2>1. PICK p \in Pid :
            /\ jobs' = [jobs EXCEPT ![a] = [job EXCEPT !.status = "Starting",
                                                       !.stdin = p]]
            /\ watched' = [watched EXCEPT ![a] =
                             [pid |-> p, prev |-> "Starting",
                              timer |-> NewTimer(services[a].startTime)]]
      BY <1>1 DEF StartJob
    <2>2. jobs'[a].status = "Starting" /\ services[a] # NoService
      BY <1>1, <2>1 DEF StartJob, TypeInv, TypeOK, Job
    <2>3. \A b \in Alias \ {a} : /\ jobs'[b] = jobs[b]
                                 /\ IsWatched(b)' <=> IsWatched(b)
      BY <2>1 DEF TypeInv, TypeOK, IsWatched
    <2>4. lost' = lost
      BY <1>1 DEF StartJob, lost, TypeInv, TypeOK, History
    <2> QED
      BY <2>2, <2>3, <2>4
      DEF Managed, FinishedIsUnwatched, WatchedIsManaged, NotFoundIsUnwatched,
          Live
  <1>2. CASE StartFails(a, job)
    <2>1. /\ jobs'[a].status = IF HasJob(a) THEN jobs[a].status ELSE "Created"
          /\ \A b \in Alias \ {a} : jobs'[b] = jobs[b]
      BY <1>2, JobTypes
      DEF StartFails, CreateJob, NewJob, NoJob, TypeInv, TypeOK
    <2> QED
      BY <1>2, <2>1
      DEF StartFails, Managed, FinishedIsUnwatched, WatchedIsManaged,
          NotFoundIsUnwatched, IsWatched, lost, HasJob, Live
  <1> QED BY <1>1, <1>2

(* stop_request keeps every process under watch, and answers JobNotFound   *)
(* only if there is none.                                                  *)
LEMMA ManagedStopRequest ==
    ASSUME TypeInv, Managed, NEW call \in Call, StopRequest(call),
           UNCHANGED history
    PROVE  Managed'
  <1> DEFINE a == call.alias
  <1>1. a \in Alias /\ \A b \in Alias : IsWatched(b)' <=> IsWatched(b)
    BY StopRequestTypes DEF Call, PidsKept, IsWatched
  <1>2. lost' = lost
    BY DEF lost
  <1>3. CASE StopLiveJob(call)
    <2>1. /\ jobs'[a].status = "Stopping"
          /\ \A b \in Alias \ {a} : jobs'[b] = jobs[b]
      BY <1>1, <1>3 DEF StopLiveJob, TypeInv, TypeOK, Job
    <2>2. services' = services /\ (IsWatched(a) /\ a \notin lost => services[a] # NoService)
      BY <1>1, <1>3 DEF StopLiveJob, Managed, WatchedIsManaged
    <2>3. NotFoundIsUnwatched'
      BY <1>1, <1>2, <1>3, <2>2
      DEF StopLiveJob, NotFoundIsUnwatched, AtKill, AtReturn, StopOutcome,
          Live
    <2> QED
      BY <1>1, <1>2, <1>3, <2>1, <2>2, <2>3
      DEF StopLiveJob, Managed, FinishedIsUnwatched, WatchedIsManaged, Live
  <1>4. CASE StopIdleJob(call)
    <2>1. jobs' = jobs /\ \A b \in Alias :
            services'[b] = NoService /\ services[b] # NoService
              => b = a /\ jobs[b].status = "Finished"
      BY <1>1, <1>4 DEF StopIdleJob, TypeInv, TypeOK, Table
    <2>2. NotFoundIsUnwatched'
      BY <1>1, <1>2, <1>4
      DEF StopIdleJob, NotFoundIsUnwatched, AtReturn, StopOutcome, Managed,
          WatchedIsManaged, Live
    <2> QED
      BY <1>1, <1>2, <2>1, <2>2
      DEF Managed, FinishedIsUnwatched, WatchedIsManaged
  <1> QED BY <1>3, <1>4 DEF StopRequest

LEMMA ManagedRequests ==
    ASSUME TypeInv, Managed,
           \/ StartUnknown \/ StartService \/ StartNext \/ StartDone
           \/ StopService \/ ReceiveRestart \/ RestartService
    PROVE  Managed'
  <1> USE DEF TypeInv
  <1>1. CASE StartUnknown \/ StartService \/ StartDone
    BY <1>1
    DEF StartUnknown, StartService, StartDone, Answer, AtStart, Recv, Managed,
        FinishedIsUnwatched, WatchedIsManaged, NotFoundIsUnwatched, IsWatched,
        lost
  <1>2. CASE StartNext
    <2> DEFINE a == Head(orch.todo)
               job == ResetJobRetries(CreateJob(a))
    <2>1. a \in Alias
      BY <1>2, OrchShape, HeadTailProperties DEF StartNext, TypeOK
    <2>2. CreateJob(a) \in Job /\ job \in Job
      BY <2>1, CreateJobType
    <2>3. job.status = CreateJob(a).status
      BY <2>2 DEF ResetJobRetries, Job
    <2> QED
      BY <1>2, <2>1, <2>2, <2>3, ManagedStartJob
      DEF StartNext, Answer, AtStart, Recv
  <1>3. CASE StopService
    BY <1>3, RequestHead, RequestCallType, ManagedStopRequest DEF StopService
  <1>4. CASE ReceiveRestart
    <2>1. \A b \in Alias : jobs'[b].status = jobs[b].status
      BY <1>4, RequestHead DEF ReceiveRestart, TypeOK, Job
    <2> QED
      BY <1>4, <2>1
      DEF ReceiveRestart, AtStop, Managed, FinishedIsUnwatched,
          WatchedIsManaged, NotFoundIsUnwatched, IsWatched, lost
  <1>5. CASE RestartService
    BY <1>5, OrchShape, ManagedStopRequest DEF RestartService, TypeOK
  <1> QED BY <1>1, <1>2, <1>3, <1>4, <1>5

(* A reload only forgets jobs that have no process, or notes them in lost. *)
LEMMA ManagedReload ==
    ASSUME TypeInv, Managed,
           \/ ReloadFails \/ Reload \/ ReloadNext \/ ReloadDone
           \/ ReturnToRequest \/ ReloadRestarted \/ ReloadForgetsJob
           \/ ReloadForgetsService \/ ReloadBreaks
    PROVE  Managed'
  <1> USE DEF TypeInv
  <1> DEFINE a == orch.call.alias
  <1>1. CASE ReloadFails \/ ReloadDone \/ ReturnToRequest \/ ReloadRestarted
    BY <1>1
    DEF ReloadFails, ReloadDone, ReturnToRequest, ReloadRestarted,
        ReturnToReload, AtReload, Answer, Recv, Managed, FinishedIsUnwatched,
        WatchedIsManaged, NotFoundIsUnwatched, IsWatched, lost
  <1>2. CASE Reload
    <2>1. \A b \in Alias : services[b] # NoService => services'[b] # NoService
      BY <1>2 DEF Reload, Updated
    <2>2. lost' = lost
      BY <1>2, ReloadHistory
    <2> QED
      BY <1>2, <2>1, <2>2
      DEF Reload, AtReload, Managed, FinishedIsUnwatched, WatchedIsManaged,
          NotFoundIsUnwatched, IsWatched
  <1>3. CASE ReloadNext
    <2>1. orch.client \in Client /\ orch.todo \in SUBSET Change
      BY <1>3, OrchShape DEF ReloadNext, TypeOK
    <2>2. PICK change \in NextChanges : StopRequest(ReloadCall(change))
      BY <1>3 DEF ReloadNext
    <2>3. ReloadCall(change) \in Call
      BY <2>1, <2>2 DEF NextChanges, ReloadCall, Call, Change, Flag
    <2> QED BY <1>3, <2>2, <2>3, ManagedStopRequest DEF ReloadNext
  <1>4. CASE ReloadForgetsJob
    <2>1. a \in Alias
      BY <1>4, OrchShape DEF ReloadForgetsJob, ReturnToReload, TypeOK, Call
    <2>2. /\ lost' = IF IsWatched(a) THEN lost \cup {a} ELSE lost
          /\ jobs' = [jobs EXCEPT ![a] = NoJob]
          /\ UNCHANGED <<services, watched>> /\ orch'.pc = "reload"
      BY <1>4
      DEF ReloadForgetsJob, ReturnToReload, AtReload, lost, TypeOK, History
    <2> QED
      BY <2>1, <2>2
      DEF TypeOK, NoJob, Managed, FinishedIsUnwatched, WatchedIsManaged,
          NotFoundIsUnwatched, IsWatched
  <1>5. CASE ReloadForgetsService
    <2>1. a \in Alias
      BY <1>5, OrchShape DEF ReloadForgetsService, ReturnToReload, TypeOK, Call
    <2>2. /\ services' = [services EXCEPT ![a] = NoService]
          /\ UNCHANGED <<jobs, watched, history>> /\ orch'.pc = "reload"
          /\ a \notin lost => ~IsWatched(a)
      BY <1>5
      DEF ReloadForgetsService, ReturnToReload, AtReload, Managed,
          NotFoundIsUnwatched
    <2> QED
      BY <2>1, <2>2
      DEF TypeOK, Table, Managed, FinishedIsUnwatched, WatchedIsManaged,
          NotFoundIsUnwatched, IsWatched, lost
  <1>6. CASE ReloadBreaks
    <2>1. lost' = lost
      BY <1>6 DEF ReloadBreaks, lost, TypeOK, History
    <2> QED
      BY <1>6, <2>1
      DEF ReloadBreaks, Answer, Recv, Managed, FinishedIsUnwatched,
          WatchedIsManaged, NotFoundIsUnwatched, IsWatched
  <1> QED BY <1>1, <1>2, <1>3, <1>4, <1>5, <1>6

LEMMA ManagedEvents ==
    ASSUME TypeInv, Managed,
           ManageEvent \/ RestartJob \/ KillForStop \/ KillForTimeOut
    PROVE  Managed'
  <1> USE DEF TypeInv
  <1> DEFINE a == Head(queue).alias
  <1>1. CASE EventDropped
    BY <1>1
    DEF EventDropped, Managed, FinishedIsUnwatched, WatchedIsManaged,
        NotFoundIsUnwatched, IsWatched, lost
  <1>2. CASE EventRunning
    <2>1. a \in Alias
      BY <1>2, EventHead DEF EventRunning
    <2>2. /\ jobs'[a].status \in {"Running", "Healthy"}
          /\ \A b \in Alias \ {a} : jobs'[b] = jobs[b]
          /\ services[a] # NoService
      BY <1>2, <2>1 DEF EventRunning, Known, TypeOK, Job
    <2> QED
      BY <1>2, <2>1, <2>2
      DEF EventRunning, Receive, Managed, FinishedIsUnwatched,
          WatchedIsManaged, NotFoundIsUnwatched, IsWatched, lost, Live, Recv
  <1>3. CASE EventFinished
    <2>1. PICK b \in Alias : b = a
      BY <1>3, EventHead DEF EventFinished
    <2>2. ~IsWatched(b)' /\ \A c \in Alias \ {b} : IsWatched(c)' <=> IsWatched(c)
      BY <1>3, <2>1 DEF EventFinished, Forget, NoWatch, IsWatched, TypeOK
    <2>3. /\ \A c \in Alias \ {b} : /\ jobs'[c] = jobs[c]
                                    /\ services'[c] = services[c]
          /\ orch' \in {AtRestart(b), Recv}
      <3>1. CASE FinishStopping(b)
        BY <3>1 DEF FinishStopping, RestartIf, TypeOK, Table
      <3>2. CASE FinishByItself(b, Head(queue).code)
        BY <3>2 DEF FinishByItself, RestartIf, TypeOK
      <3> QED BY <1>3, <2>1, <3>1, <3>2 DEF EventFinished
    <2>4. orch'.pc # "return"
      BY <2>3 DEF AtRestart, Recv
    <2> QED
      BY <1>3, <2>2, <2>3, <2>4
      DEF EventFinished, Managed, FinishedIsUnwatched, WatchedIsManaged,
          NotFoundIsUnwatched, lost
  <1>4. CASE EventTimedOut
    <2>1. a \in Alias
      BY <1>4, EventHead DEF EventTimedOut
    <2>2. TimeOutLive(a) \/ TimeOutStopping(a) \/ TimeOutIdle(a)
      BY <1>4 DEF EventTimedOut
    <2>3. \A b \in Alias : IsWatched(b)' <=> IsWatched(b)
      BY <1>4, TimeOutTypes DEF PidsKept, IsWatched
    <2>4. /\ \A b \in Alias \ {a} : jobs'[b] = jobs[b]
          /\ \/ jobs'[a].status \in Live \cup {"Stopping"}
             \/ /\ jobs[a].status \in {"Created", "Finished"}
                /\ jobs'[a].status = "TimedOut"
      BY <2>1, <2>2
      DEF TimeOutLive, TimeOutStopping, TimeOutIdle, TypeOK, Job, Live
    <2>5. orch'.pc # "return" /\ services'[a] # NoService
      BY <1>4
      DEF EventTimedOut, Receive, Known, TimeOutLive, TimeOutStopping,
          TimeOutIdle, AtEscalate, Recv
    <2> QED
      BY <1>4, <2>1, <2>3, <2>4, <2>5
      DEF EventTimedOut, Managed, FinishedIsUnwatched, WatchedIsManaged,
          NotFoundIsUnwatched, lost, Live
  <1>5. CASE RestartJob
    <2>1. orch.alias \in Alias
      BY <1>5, OrchShape DEF RestartJob, TypeOK
    <2> QED
      BY <1>5, <2>1, CreateJobType, ManagedStartJob DEF RestartJob, Recv
  <1>6. CASE KillForStop \/ KillForTimeOut
    BY <1>6
    DEF KillForStop, KillForTimeOut, AtReturn, KillOutcome, Recv, Managed,
        FinishedIsUnwatched, WatchedIsManaged, NotFoundIsUnwatched, IsWatched,
        lost
  <1> QED BY <1>1, <1>2, <1>3, <1>4, <1>5, <1>6 DEF ManageEvent

LEMMA NextIsStep == [Next]_vars => Environment \/ Orchestrator
  BY DEF Next, Environment

LEMMA ManagedStep == TypeInv /\ Managed /\ [Next]_vars => Managed'
  BY NextIsStep, ManagedEnvironment, ManagedRequests, ManagedReload,
     ManagedEvents
  DEF Orchestrator

THEOREM ManagedInvariant == Spec => []Managed
  BY TypeInvariant, ManagedInit, ManagedStep, PTL DEF Spec

(* A finished job has left the table of watched processes, which           *)
(* start_request and stop_request take for granted.                        *)
THEOREM FinishedJobsAreUnwatched == Spec => []FinishedIsUnwatched
  <1>1. Managed => FinishedIsUnwatched
    BY DEF Managed
  <1> QED BY <1>1, ManagedInvariant, PTL

(* A watched process has a job in a state its events act on, and a         *)
(* service, unless a reload has forgotten the job.                         *)
THEOREM WatchedJobsAreManaged == Spec => []WatchedIsManaged
  <1>1. Managed => WatchedIsManaged
    BY DEF Managed
  <1> QED BY <1>1, ManagedInvariant, PTL

-----------------------------------------------------------------------------
(* The pipes.  Most steps replace no process, no pipe and no stdin. *)

IoKept ==
    /\ PidsKept
    /\ UNCHANGED tees
    /\ lost \subseteq lost'
    /\ \A a \in Alias \ lost' : jobs'[a].stdin = jobs[a].stdin

LEMMA IoKeptStep ==
    ASSUME IoFollowsProcess, IoKept
    PROVE  IoFollowsProcess'
  BY DEF IoFollowsProcess, IoKept, PidsKept, IsWatched

LEMMA StopRequestKeepsIo ==
    ASSUME TypeInv, NEW call \in Call, StopRequest(call),
           UNCHANGED <<tees, history>>
    PROVE  IoKept
  <1>1. jobs \in [Alias -> Job] /\ call.alias \in Alias
    BY DEF TypeInv, TypeOK, Call
  <1>2. \A a \in Alias : jobs'[a].stdin = jobs[a].stdin
    BY <1>1 DEF StopRequest, StopLiveJob, StopIdleJob, Job
  <1> QED
    BY <1>2, StopRequestTypes DEF IoKept, lost

(* The steps that touch neither processes nor pipes. *)
LEMMA QuietSteps ==
    ASSUME TypeInv,
           \/ StartUnknown \/ StartService \/ StartDone
           \/ StopService \/ ReceiveRestart \/ RestartService
           \/ ReloadFails \/ Reload \/ ReloadNext \/ ReloadDone
           \/ ReturnToRequest \/ ReloadRestarted \/ ReloadForgetsService
           \/ ReloadBreaks
           \/ EventDropped \/ EventRunning \/ EventTimedOut
           \/ KillForStop \/ KillForTimeOut
    PROVE  IoKept
  <1> USE DEF TypeInv
  <1>1. CASE \/ StartUnknown \/ StartService \/ StartDone \/ ReloadFails
             \/ ReloadDone \/ ReturnToRequest \/ ReloadRestarted
             \/ ReloadForgetsService \/ EventDropped
             \/ KillForStop \/ KillForTimeOut
    BY <1>1
    DEF StartUnknown, StartService, StartDone, ReloadFails, ReloadDone,
        ReturnToRequest, ReloadRestarted, ReloadForgetsService, ReturnToReload,
        EventDropped, KillForStop, KillForTimeOut, IoKept, PidsKept, lost
  <1>2. CASE StopService
    BY <1>2, RequestHead, RequestCallType, StopRequestKeepsIo DEF StopService
  <1>3. CASE ReceiveRestart
    <2>1. \A a \in Alias : jobs'[a].stdin = jobs[a].stdin
      BY <1>3, RequestHead DEF ReceiveRestart, TypeOK, Job
    <2> QED BY <1>3, <2>1 DEF ReceiveRestart, IoKept, PidsKept, lost
  <1>4. CASE RestartService
    BY <1>4, OrchShape, StopRequestKeepsIo DEF RestartService, TypeOK
  <1>5. CASE ReloadNext
    <2>1. orch.client \in Client /\ orch.todo \in SUBSET Change
      BY <1>5, OrchShape DEF ReloadNext, TypeOK
    <2>2. PICK change \in NextChanges : StopRequest(ReloadCall(change))
      BY <1>5 DEF ReloadNext
    <2>3. ReloadCall(change) \in Call
      BY <2>1, <2>2 DEF NextChanges, ReloadCall, Call, Change, Flag
    <2> QED BY <1>5, <2>2, <2>3, StopRequestKeepsIo DEF ReloadNext
  <1>6. CASE ReloadBreaks
    <2>1. lost' = lost
      BY <1>6 DEF ReloadBreaks, lost, TypeOK, History
    <2> QED BY <1>6, <2>1 DEF ReloadBreaks, IoKept, PidsKept
  <1>7. CASE EventRunning
    <2>1. \A a \in Alias : jobs'[a].stdin = jobs[a].stdin
      BY <1>7, EventHead DEF EventRunning, TypeOK, Job
    <2> QED BY <1>7, <2>1 DEF EventRunning, IoKept, PidsKept, lost
  <1>8. CASE EventTimedOut
    <2>1. PICK b \in Alias :
            TimeOutLive(b) \/ TimeOutStopping(b) \/ TimeOutIdle(b)
      BY <1>8, EventHead DEF EventTimedOut
    <2>2. PICK st \in Status : jobs' = [jobs EXCEPT ![b].status = st]
      BY <2>1 DEF TimeOutLive, TimeOutStopping, TimeOutIdle, Status, Live
    <2>3. \A a \in Alias : jobs'[a].stdin = jobs[a].stdin
      BY <2>2 DEF TypeOK, Job
    <2> QED BY <1>8, <2>3, TimeOutTypes DEF EventTimedOut, IoKept, lost
  <1>9. CASE Reload
    BY <1>9, ReloadHistory DEF Reload, IoKept, PidsKept
  <1> QED BY <1>1, <1>2, <1>3, <1>4, <1>5, <1>6, <1>7, <1>8, <1>9

(* A job that is started has no pipes left: those of an earlier process    *)
(* would belong to a process under watch.                                  *)
LEMMA StartJobIo ==
    ASSUME TypeInv, Managed, IoFollowsProcess, NEW a \in Alias, NEW job \in Job,
           job.status = CreateJob(a).status, job.stdin = CreateJob(a).stdin,
           StartJob(a, job) \/ StartFails(a, job)
    PROVE  IoFollowsProcess'
  <1> USE DEF TypeInv, TypeOK, History
  <1>1. CASE StartJob(a, job)
    <2>1. PICK p \in Pid :
            /\ jobs' = [jobs EXCEPT ![a] = [job EXCEPT !.status = "Starting",
                                                       !.stdin = p]]
            /\ watched' = [watched EXCEPT ![a] =
                             [pid |-> p, prev |-> "Starting",
                              timer |-> NewTimer(services[a].startTime)]]
            /\ tees' \in CreateTee(a, p)
      BY <1>1 DEF StartJob
    <2>2. lost' = lost
      BY <1>1 DEF StartJob, lost
    <2>3. jobs'[a].stdin = p /\ watched'[a].pid = p
      BY <2>1 DEF Job
    <2>4. a \notin lost => ~IsWatched(a)
      BY <1>1
      DEF StartJob, MayStart, CreateJob, NewJob, NoJob, HasJob, Managed,
          WatchedIsManaged, Live
    <2>5. a \notin lost => tees[a] = NoPid
      BY <2>4 DEF IoFollowsProcess, IsWatched
    <2>6. a \notin lost => tees'[a] \in {NoPid, p}
      BY <2>1, <2>5 DEF CreateTee
    <2>7. \A b \in Alias \ {a} : /\ jobs'[b] = jobs[b] /\ tees'[b] = tees[b]
                                 /\ watched'[b] = watched[b]
      BY <2>1 DEF CreateTee
    <2> QED
      BY <2>2, <2>3, <2>6, <2>7 DEF IoFollowsProcess, IsWatched
  <1>2. CASE StartFails(a, job)
    BY <1>2 DEF StartFails, CreateJob, NewJob, NoJob, HasJob, IoFollowsProcess,
                IsWatched, lost, Managed, WatchedIsManaged, Live
  <1> QED BY <1>1, <1>2

LEMMA IoStep ==
    ASSUME TypeInv, Managed, IoFollowsProcess, [Next]_vars
    PROVE  IoFollowsProcess'
  <1> USE DEF TypeInv, TypeOK, History
  <1>1. CASE Environment
    BY <1>1, EnvironmentFrame, IoKeptStep DEF IoKept
  <1>2. CASE StartNext
    <2> DEFINE a == Head(orch.todo)
               job == ResetJobRetries(CreateJob(a))
    <2>1. a \in Alias
      BY <1>2, OrchShape, HeadTailProperties DEF StartNext
    <2>2. CreateJob(a) \in Job /\ job \in Job
      BY <2>1, CreateJobType
    <2>3. job.status = CreateJob(a).status /\ job.stdin = CreateJob(a).stdin
      BY <2>2 DEF ResetJobRetries, Job
    <2> QED BY <1>2, <2>1, <2>2, <2>3, StartJobIo DEF StartNext
  <1>3. CASE RestartJob
    BY <1>3, OrchShape, CreateJobType, StartJobIo DEF RestartJob
  <1>4. CASE EventFinished
    <2>1. PICK b \in Alias : b = Head(queue).alias
      BY <1>4, EventHead DEF EventFinished
    <2>2. /\ watched' = [watched EXCEPT ![b] = NoWatch]
          /\ tees' = [tees EXCEPT ![b] = NoPid]
          /\ lost' = lost
      BY <1>4, <2>1 DEF EventFinished, Forget, lost
    <2>3. \A c \in Alias \ {b} : jobs'[c] = jobs[c]
      BY <1>4, <2>1 DEF EventFinished, FinishStopping, FinishByItself
    <2> QED
      BY <2>2, <2>3 DEF IoFollowsProcess, IsWatched, NoWatch
  <1>5. CASE ReloadForgetsJob
    <2>1. PICK b \in Alias : b = orch.call.alias
      BY <1>5, OrchShape DEF ReloadForgetsJob, ReturnToReload, Call
    <2>2. /\ lost' = IF IsWatched(b) THEN lost \cup {b} ELSE lost
          /\ \A c \in Alias \ {b} : jobs'[c] = jobs[c]
          /\ UNCHANGED <<watched, tees>>
      BY <1>5, <2>1 DEF ReloadForgetsJob, ReturnToReload, lost
    <2> QED
      BY <2>2 DEF IoFollowsProcess, IsWatched
  <1>6. CASE Orchestrator /\ ~(StartNext \/ RestartJob \/ EventFinished
                                 \/ ReloadForgetsJob)
    BY <1>6, QuietSteps, IoKeptStep DEF Orchestrator, ManageEvent
  <1> QED BY NextIsStep, <1>1, <1>2, <1>3, <1>4, <1>5, <1>6

(* Input and output of a job belong to the process under watch, unless a   *)
(* reload has forgotten the job.                                           *)
THEOREM IoBelongsToProcess == Spec => []IoFollowsProcess
  <1>1. Init => IoFollowsProcess
    <2> SUFFICES ASSUME Init, NEW a \in Alias \ lost
                 PROVE  /\ IsWatched(a) => jobs[a].stdin = watched[a].pid
                        /\ tees[a] # NoPid => tees[a] = watched[a].pid
      BY DEF IoFollowsProcess
    <2>1. watched[a].pid = NoPid /\ tees[a] = NoPid
      BY DEF Init, NoWatch
    <2> QED BY <2>1 DEF IsWatched
  <1>2. TypeInv /\ Managed /\ IoFollowsProcess /\ [Next]_vars
          => IoFollowsProcess'
    BY IoStep
  <1> QED
    BY <1>1, <1>2, TypeInvariant, ManagedInvariant, PTL DEF Spec

-----------------------------------------------------------------------------
(* Exits: between the try_wait that reaps a process and the handler that    *)
(* takes it out of the table, the event of its end is in the channel.       *)

(* The event of the end of a's process is in the channel. *)
Reported(a) ==
    \E i \in DOMAIN queue : /\ queue[i].kind = "event"
                            /\ queue[i].alias = a
                            /\ queue[i].status = "Finished"

(* A watched process is one that was spawned for the alias, and the watcher *)
(* has recorded an end only of a process it has reaped.                     *)
WatchedAreReal ==
    \A a \in Alias : IsWatched(a) =>
        LET p == proc[watched[a].pid] IN
        /\ p.state # "unborn"
        /\ p.alias = a
        /\ watched[a].prev = "Finished" => p.state = "reaped"

Exits == WatchedAreReal /\ ExitIsReported

-----------------------------------------------------------------------------
(* The channel *)

LEMMA AppendKeepsReports ==
    ASSUME queue \in Seq(Message), NEW m, queue' = Append(queue, m),
           NEW a, Reported(a)
    PROVE  Reported(a)'
  <1>1. PICK i \in DOMAIN queue : /\ queue[i].kind = "event"
                                  /\ queue[i].alias = a
                                  /\ queue[i].status = "Finished"
    BY DEF Reported
  <1>2. i \in DOMAIN queue' /\ queue'[i] = queue[i]
    OBVIOUS
  <1> QED BY <1>1, <1>2 DEF Reported

LEMMA AppendReports ==
    ASSUME queue \in Seq(Message), NEW a, NEW code, NEW p,
           queue' = Append(queue, Event(a, "Finished", code, p))
    PROVE  Reported(a)'
  <1>1. /\ Len(queue) + 1 \in DOMAIN queue'
        /\ queue'[Len(queue) + 1] = Event(a, "Finished", code, p)
    OBVIOUS
  <1> QED BY <1>1 DEF Reported, Event

(* Only the receipt of the report itself takes it out of the channel. *)
LEMMA TailKeepsReports ==
    ASSUME queue \in Seq(Message), queue # <<>>, queue' = Tail(queue),
           NEW a, Reported(a),
           ~(/\ Head(queue).kind = "event" /\ Head(queue).alias = a
             /\ Head(queue).status = "Finished")
    PROVE  Reported(a)'
  <1>1. PICK i \in 1 .. Len(queue) : /\ queue[i].kind = "event"
                                     /\ queue[i].alias = a
                                     /\ queue[i].status = "Finished"
    BY DEF Reported
  <1>2. i # 1
    BY <1>1
  <1>3. i - 1 \in 1 .. Len(queue') /\ queue'[i - 1] = queue[i]
    BY <1>2, HeadTailProperties
  <1>4. DOMAIN queue' = 1 .. Len(queue')
    BY HeadTailProperties
  <1> QED BY <1>1, <1>3, <1>4 DEF Reported

(* The orchestrator takes something else than a report of an end. *)
LEMMA ReceiveKeepsReports ==
    ASSUME TypeOK,
           \/ \E act : ReceiveRequest(act)
           \/ \E status \in {"Running", "TimedOut"} : Receive(status)
    PROVE  \A a \in Alias : Reported(a) => Reported(a)'
  <1>1. /\ queue \in Seq(Message) /\ queue # <<>> /\ queue' = Tail(queue)
        /\ Head(queue).kind = "event" => Head(queue).status # "Finished"
    BY DEF TypeOK, ReceiveRequest, Receive
  <1> QED BY <1>1, TailKeepsReports

-----------------------------------------------------------------------------
(* Steps that replace and reap no process and take no report. *)

ProcessesKept ==
    \A p \in Pid : /\ proc'[p].alias = proc[p].alias
                   /\ \/ proc'[p].state = proc[p].state
                      \/ proc[p].state = "alive" /\ proc'[p].state = "exited"

PrevsKept ==
    \A a \in Alias : \/ watched'[a].prev = watched[a].prev
                     \/ watched'[a].prev # "Finished"

ReportsKept ==
    \A a \in Alias \ lost : IsWatched(a) /\ Reported(a) => Reported(a)'

ExitKept ==
    PidsKept /\ PrevsKept /\ ProcessesKept /\ ReportsKept /\ lost \subseteq lost'

LEMMA ExitKeptStep ==
    ASSUME TypeOK, Exits, ExitKept
    PROVE  Exits'
  <1>1. \A a \in Alias : /\ IsWatched(a)' <=> IsWatched(a)
                         /\ IsWatched(a) => watched[a].pid \in Pid
    BY WatchedTypes DEF ExitKept, PidsKept, IsWatched
  <1>2. WatchedAreReal'
    BY <1>1
    DEF Exits, WatchedAreReal, ExitKept, PidsKept, PrevsKept, ProcessesKept
  <1>3. \A a \in Alias \ lost :
          IsWatched(a) /\ proc[watched[a].pid].state = "reaped" => Reported(a)
    BY DEF Exits, ExitIsReported, Reported
  <1>4. \A a \in Alias \ lost' :
          IsWatched(a)' /\ proc'[watched'[a].pid].state = "reaped"
            => Reported(a)'
    BY <1>1, <1>3 DEF ExitKept, PidsKept, ProcessesKept, ReportsKept
  <1>5. ExitIsReported'
    BY <1>4 DEF ExitIsReported, Reported
  <1> QED BY <1>2, <1>5 DEF Exits

-----------------------------------------------------------------------------
(* The watcher and everybody else but the orchestrator *)

(* A poll that finds a process ended reaps it and reports it. *)
LEMMA PollReports ==
    ASSUME TypeInv, Exits, NEW a \in Alias, ScanPoll(a),
           proc[watched[a].pid].state # "alive"
    PROVE  Exits'
  <1> USE DEF TypeInv
  <1> DEFINE p == watched[a].pid
  <1>1. IsWatched(a) /\ p \in Pid /\ proc[p] \in Process /\ watched[a] \in Watched
    BY WatchedTypes DEF ScanPoll, ScannedAreWatched
  <1>2. /\ proc' = [proc EXCEPT ![p].state = "reaped"]
        /\ lost' = lost
    BY DEF ScanPoll, lost
  <1>3. CASE watched[a].prev = "Finished"
    <2>1. proc[p].state = "reaped"
      BY <1>1, <1>3 DEF Exits, WatchedAreReal
    <2>2. proc' = proc
      BY <1>1, <1>2, <2>1 DEF TypeOK, Process
    <2>3. UNCHANGED <<watched, queue>>
      BY <1>3 DEF ScanPoll, Report
    <2>4. ExitKept
      BY <1>2, <2>2, <2>3
      DEF ExitKept, PidsKept, PrevsKept, ProcessesKept, ReportsKept, Reported
    <2> QED BY <2>4, ExitKeptStep
  <1>4. CASE watched[a].prev # "Finished"
    <2>1. PICK code : Report(a, "Finished", code)
      BY <1>4 DEF ScanPoll
    <2>2. /\ watched' = [watched EXCEPT ![a].prev = "Finished"]
          /\ queue' = Append(queue, Event(a, "Finished", code, p))
      BY <2>1 DEF Report
    <2>3. /\ watched'[a].pid = p
          /\ \A b \in Alias \ {a} : watched'[b] = watched[b]
      BY <1>1, <2>2 DEF TypeOK, Watched
    <2>4. proc'[p].state = "reaped" /\ proc'[p].alias = proc[p].alias
      BY <1>1, <1>2 DEF TypeOK, Process
    <2>5. \A b \in Alias \ {a} : IsWatched(b) =>
             proc'[watched[b].pid] = proc[watched[b].pid]
      <3>1. \A b \in Alias \ {a} : IsWatched(b) => watched[b].pid # p
        BY <1>1 DEF Exits, WatchedAreReal
      <3> QED BY <1>2, <3>1, WatchedTypes DEF TypeOK
    <2>6. WatchedAreReal'
      BY <1>1, <2>3, <2>4, <2>5 DEF Exits, WatchedAreReal, IsWatched
    <2>7. Reported(a)' /\ \A b \in Alias : Reported(b) => Reported(b)'
      BY <2>2, AppendReports, AppendKeepsReports DEF TypeOK
    <2>8. \A b \in Alias \ lost :
            IsWatched(b) /\ proc[watched[b].pid].state = "reaped" => Reported(b)
      BY DEF Exits, ExitIsReported, Reported
    <2>9. ASSUME NEW b \in Alias \ lost',
                 IsWatched(b)', proc'[watched'[b].pid].state = "reaped"
          PROVE  Reported(b)'
      <3>1. CASE b = a
        BY <2>7, <3>1
      <3>2. CASE b # a
        BY <1>2, <2>3, <2>5, <2>7, <2>8, <2>9, <3>2 DEF IsWatched
      <3> QED BY <3>1, <3>2
    <2>10. ExitIsReported'
      BY <2>9 DEF ExitIsReported, Reported
    <2> QED BY <2>6, <2>10 DEF Exits
  <1> QED BY <1>3, <1>4

LEMMA ExitEnvironment ==
    ASSUME TypeInv, Exits, Environment
    PROVE  Exits'
  <1> USE DEF TypeInv
  <1>1. PidsKept /\ lost' = lost
    BY EnvironmentFrame
  <1>2. CASE SendJobRequest \/ SendReload
    <2>1. (\E m : queue' = Append(queue, m)) /\ UNCHANGED <<watched, proc>>
      BY <1>2 DEF SendJobRequest, SendReload, Send
    <2>2. ReportsKept
      BY <2>1, AppendKeepsReports DEF ReportsKept, TypeOK
    <2> QED
      BY <1>1, <2>1, <2>2, ExitKeptStep DEF ExitKept, PrevsKept, ProcessesKept
  <1>3. CASE BeginScan \/ UNCHANGED vars
    BY <1>1, <1>3, ExitKeptStep
    DEF BeginScan, vars, ExitKept, PrevsKept, ProcessesKept, ReportsKept,
        Reported
  <1>4. ASSUME NEW a \in Alias,
               \/ ScanTimedOut(a)
               \/ ScanPoll(a) /\ proc[watched[a].pid].state = "alive"
        PROVE  Exits'
    <2>1. watched[a] \in Watched
      BY <1>4, WatchedTypes DEF ScanTimedOut, ScanPoll, ScannedAreWatched
    <2>2. /\ UNCHANGED proc
          /\ \/ UNCHANGED <<watched, queue>>
             \/ \E st, code : Report(a, st, code) /\ st # "Finished"
      BY <1>4 DEF ScanTimedOut, ScanPoll
    <2>3. PrevsKept
      BY <2>1, <2>2 DEF PrevsKept, Report, TypeOK, Watched
    <2>4. ReportsKept
      BY <2>2, AppendKeepsReports DEF ReportsKept, Report, Reported, TypeOK
    <2> QED
      BY <1>1, <2>2, <2>3, <2>4, ExitKeptStep DEF ExitKept, ProcessesKept
  <1>5. ASSUME NEW a \in Alias, ScanJob(a)
        PROVE  Exits'
    BY <1>4, <1>5, PollReports DEF ScanJob
  <1>6. ASSUME NEW a \in Alias, Elapse(a)
        PROVE  Exits'
    <2>1. PrevsKept
      BY <1>6 DEF Elapse, PrevsKept, TypeOK, Watched, NoWatch
    <2> QED
      BY <1>1, <1>6, <2>1, ExitKeptStep
      DEF Elapse, ExitKept, ProcessesKept, ReportsKept, Reported
  <1>7. ASSUME NEW p \in Pid, Exit(p)
        PROVE  Exits'
    <2>1. ProcessesKept
      BY <1>7 DEF Exit, ProcessesKept, TypeOK, Process
    <2> QED
      BY <1>1, <1>7, <2>1, ExitKeptStep
      DEF Exit, ExitKept, PrevsKept, ReportsKept, Reported
  <1> QED BY <1>2, <1>3, <1>5, <1>6, <1>7 DEF Environment

-----------------------------------------------------------------------------
(* The orchestrator *)

(* stop_request rewinds a timer, and no more, in the table. *)
LEMMA StopRequestExits ==
    ASSUME TypeInv, Exits, NEW call \in Call, StopRequest(call),
           UNCHANGED <<proc, history>>,
           \A a \in Alias : Reported(a) => Reported(a)'
    PROVE  Exits'
  <1>1. PrevsKept
    <2>1. UNCHANGED watched \/ \E b \in Alias, t \in Timer :
            watched' = [watched EXCEPT ![b].timer = t]
      BY DEF StopRequest, StopLiveJob, StopIdleJob, Call, NewTimer, Timer
    <2> QED
      BY <2>1 DEF PrevsKept, TypeInv, TypeOK, Watched, NoWatch
  <1> QED
    BY <1>1, StopRequestTypes, ExitKeptStep
    DEF TypeInv, ExitKept, ProcessesKept, ReportsKept, lost

LEMMA QuietExits ==
    ASSUME TypeInv, Exits,
           \/ StartUnknown \/ StartService \/ StartDone
           \/ StopService \/ ReceiveRestart \/ RestartService
           \/ ReloadFails \/ Reload \/ ReloadNext \/ ReloadDone
           \/ ReturnToRequest \/ ReloadRestarted \/ ReloadForgetsJob
           \/ ReloadForgetsService \/ ReloadBreaks
    PROVE  Exits'
  <1> USE DEF TypeInv
  <1>1. CASE StartUnknown \/ StartService \/ ReceiveRestart \/ ReloadFails
             \/ Reload
    <2>1. UNCHANGED <<watched, proc>> /\ \E act : ReceiveRequest(act)
      BY <1>1 DEF StartUnknown, StartService, ReceiveRestart, ReloadFails,
                  Reload
    <2>2. lost' = lost
      BY <1>1, ReloadHistory
      DEF StartUnknown, StartService, ReceiveRestart, ReloadFails, lost
    <2>3. \A a \in Alias : Reported(a) => Reported(a)'
      BY <2>1, ReceiveKeepsReports
    <2> QED
      BY <2>1, <2>2, <2>3, ExitKeptStep
      DEF ExitKept, PidsKept, PrevsKept, ProcessesKept, ReportsKept
  <1>2. CASE StopService
    <2>1. \A a \in Alias : Reported(a) => Reported(a)'
      BY <1>2, ReceiveKeepsReports DEF StopService
    <2> QED
      BY <1>2, <2>1, RequestHead, RequestCallType, StopRequestExits
      DEF StopService
  <1>3. CASE RestartService
    <2>1. \A a \in Alias : Reported(a) => Reported(a)'
      BY <1>3 DEF RestartService, Reported
    <2> QED
      BY <1>3, <2>1, OrchShape, StopRequestExits DEF RestartService, TypeOK
  <1>4. CASE ReloadNext
    <2>1. orch.client \in Client /\ orch.todo \in SUBSET Change
      BY <1>4, OrchShape DEF ReloadNext, TypeOK
    <2>2. PICK change \in NextChanges : StopRequest(ReloadCall(change))
      BY <1>4 DEF ReloadNext
    <2>3. ReloadCall(change) \in Call
      BY <2>1, <2>2 DEF NextChanges, ReloadCall, Call, Change, Flag
    <2>4. \A a \in Alias : Reported(a) => Reported(a)'
      BY <1>4 DEF ReloadNext, Reported
    <2> QED
      BY <1>4, <2>2, <2>3, <2>4, StopRequestExits DEF ReloadNext
  <1>5. CASE \/ StartDone \/ ReloadDone \/ ReturnToRequest \/ ReloadRestarted
             \/ ReloadForgetsJob \/ ReloadForgetsService \/ ReloadBreaks
    <2>1. UNCHANGED <<watched, proc, queue>>
      BY <1>5
      DEF StartDone, ReloadDone, ReturnToRequest, ReloadRestarted,
          ReloadForgetsJob, ReloadForgetsService, ReloadBreaks, ReturnToReload
    <2>2. lost \subseteq lost'
      BY <1>5
      DEF StartDone, ReloadDone, ReturnToRequest, ReloadRestarted,
          ReloadForgetsJob, ReloadForgetsService, ReloadBreaks, lost, TypeOK,
          History
    <2> QED
      BY <2>1, <2>2, ExitKeptStep
      DEF ExitKept, PidsKept, PrevsKept, ProcessesKept, ReportsKept, Reported
  <1> QED BY <1>1, <1>2, <1>3, <1>4, <1>5

(* A new process takes a pid that no watched process has. *)
LEMMA StartJobExits ==
    ASSUME TypeInv, Exits, NEW a \in Alias, NEW job \in Job,
           StartJob(a, job) \/ StartFails(a, job), UNCHANGED queue
    PROVE  Exits'
  <1> USE DEF TypeInv, TypeOK, History
  <1>1. CASE StartJob(a, job)
    <2>1. PICK p \in Pid :
            /\ IsFresh(p)
            /\ proc' = [proc EXCEPT ![p] = [Unborn EXCEPT
                          !.state = "alive", !.alias = a, !.def = services[a]]]
            /\ watched' = [watched EXCEPT ![a] =
                             [pid |-> p, prev |-> "Starting",
                              timer |-> NewTimer(services[a].startTime)]]
      BY <1>1 DEF StartJob
    <2>2. /\ watched'[a].pid = p /\ watched'[a].prev = "Starting"
          /\ proc'[p].state = "alive" /\ proc'[p].alias = a
          /\ lost' = lost
      BY <1>1, <2>1 DEF StartJob, Unborn, lost
    <2>3. \A b \in Alias \ {a} :
            /\ watched'[b] = watched[b]
            /\ IsWatched(b) => proc'[watched[b].pid] = proc[watched[b].pid]
      <3>1. \A b \in Alias : IsWatched(b) => watched[b].pid # p
        BY <2>1 DEF IsFresh, Exits, WatchedAreReal
      <3> QED BY <2>1, <3>1, WatchedTypes
    <2>4. WatchedAreReal'
      BY <2>2, <2>3 DEF Exits, WatchedAreReal, IsWatched
    <2>5. \A b \in Alias \ lost :
            IsWatched(b) /\ proc[watched[b].pid].state = "reaped" => Reported(b)
      BY DEF Exits, ExitIsReported, Reported
    <2>6. ASSUME NEW b \in Alias \ lost',
                 IsWatched(b)', proc'[watched'[b].pid].state = "reaped"
          PROVE  Reported(b)'
      BY <2>2, <2>3, <2>5, <2>6 DEF IsWatched, Reported
    <2>7. ExitIsReported'
      BY <2>6 DEF ExitIsReported, Reported
    <2> QED BY <2>4, <2>7 DEF Exits
  <1>2. CASE StartFails(a, job)
    BY <1>2, ExitKeptStep
    DEF StartFails, ExitKept, PidsKept, PrevsKept, ProcessesKept, ReportsKept,
        Reported, lost
  <1> QED BY <1>1, <1>2

LEMMA ExitStarts ==
    ASSUME TypeInv, Exits, StartNext \/ RestartJob
    PROVE  Exits'
  <1> USE DEF TypeInv, TypeOK
  <1>1. CASE StartNext
    <2>1. Head(orch.todo) \in Alias
      BY <1>1, OrchShape, HeadTailProperties DEF StartNext
    <2> QED BY <1>1, <2>1, CreateJobType, StartJobExits DEF StartNext
  <1>2. CASE RestartJob
    BY <1>2, OrchShape, CreateJobType, StartJobExits DEF RestartJob
  <1> QED BY <1>1, <1>2

LEMMA ExitEvents ==
    ASSUME TypeInv, Managed, Exits,
           ManageEvent \/ KillForStop \/ KillForTimeOut
    PROVE  Exits'
  <1> USE DEF TypeInv
  <1>1. CASE EventDropped
    <2>1. PICK b \in Alias : b = Head(queue).alias
      BY <1>1, EventHead DEF EventDropped
    <2>2. b \notin lost => ~IsWatched(b)
      BY <1>1, <2>1
      DEF EventDropped, Known, HasJob, Managed, WatchedIsManaged, Live
    <2>3. /\ UNCHANGED <<watched, proc, history>>
          /\ queue \in Seq(Message) /\ queue # <<>> /\ queue' = Tail(queue)
      BY <1>1 DEF EventDropped, Receive, TypeOK
    <2>4. \A a \in Alias \ {b} : Reported(a) => Reported(a)'
      BY <2>1, <2>3, TailKeepsReports
    <2> QED
      BY <2>2, <2>3, <2>4, ExitKeptStep
      DEF ExitKept, PidsKept, PrevsKept, ProcessesKept, ReportsKept, lost
  <1>2. CASE EventRunning
    <2>1. \A a \in Alias : Reported(a) => Reported(a)'
      BY <1>2, ReceiveKeepsReports DEF EventRunning
    <2> QED
      BY <1>2, <2>1, ExitKeptStep
      DEF EventRunning, ExitKept, PidsKept, PrevsKept, ProcessesKept,
          ReportsKept, lost
  <1>3. CASE EventFinished
    <2>1. PICK b \in Alias : b = Head(queue).alias
      BY <1>3, EventHead DEF EventFinished
    <2>2. /\ watched' = [watched EXCEPT ![b] = NoWatch]
          /\ UNCHANGED <<proc, history>>
          /\ queue \in Seq(Message) /\ queue # <<>> /\ queue' = Tail(queue)
      BY <1>3, <2>1 DEF EventFinished, Forget, Receive, TypeOK
    <2>3. /\ ~IsWatched(b)'
          /\ \A a \in Alias \ {b} : watched'[a] = watched[a]
      BY <2>2 DEF IsWatched, NoWatch, TypeOK
    <2>4. \A a \in Alias \ {b} : Reported(a) => Reported(a)'
      BY <2>1, <2>2, TailKeepsReports
    <2>5. WatchedAreReal'
      BY <2>2, <2>3 DEF Exits, WatchedAreReal, IsWatched
    <2>6. \A a \in Alias \ lost :
            IsWatched(a) /\ proc[watched[a].pid].state = "reaped" => Reported(a)
      BY DEF Exits, ExitIsReported, Reported
    <2>7. ASSUME NEW a \in Alias \ lost',
                 IsWatched(a)', proc'[watched'[a].pid].state = "reaped"
          PROVE  Reported(a)'
      BY <2>2, <2>3, <2>4, <2>6, <2>7 DEF IsWatched, lost
    <2>8. ExitIsReported'
      BY <2>7 DEF ExitIsReported, Reported
    <2> QED BY <2>5, <2>8 DEF Exits
  <1>4. CASE EventTimedOut
    <2>1. \A a \in Alias : Reported(a) => Reported(a)'
      BY <1>4, ReceiveKeepsReports DEF EventTimedOut
    <2>2. UNCHANGED watched \/ \E b \in Alias, t \in Timer :
            watched' = [watched EXCEPT ![b].timer = t]
      BY <1>4, EventHead
      DEF EventTimedOut, TimeOutLive, TimeOutStopping, TimeOutIdle, NewTimer,
          Timer
    <2>3. PrevsKept
      BY <2>2 DEF PrevsKept, TypeOK, Watched, NoWatch
    <2> QED
      BY <1>4, <2>1, <2>3, TimeOutTypes, ExitKeptStep
      DEF EventTimedOut, ExitKept, ProcessesKept, ReportsKept, lost
  <1>5. CASE KillForStop \/ KillForTimeOut
    <2>1. ProcessesKept
      BY <1>5, OrchShape
      DEF KillForStop, KillForTimeOut, Signal, ProcessesKept, TypeOK, Process
    <2> QED
      BY <1>5, <2>1, ExitKeptStep
      DEF KillForStop, KillForTimeOut, ExitKept, PidsKept, PrevsKept,
          ReportsKept, Reported, lost
  <1> QED BY <1>1, <1>2, <1>3, <1>4, <1>5 DEF ManageEvent

-----------------------------------------------------------------------------
LEMMA ExitInit == Init => Exits
  <1> SUFFICES ASSUME Init PROVE Exits
    OBVIOUS
  <1>1. \A a \in Alias : ~IsWatched(a)
    BY DEF Init, NoWatch, IsWatched
  <1> QED BY <1>1 DEF Exits, WatchedAreReal, ExitIsReported

LEMMA ExitStep == TypeInv /\ Managed /\ Exits /\ [Next]_vars => Exits'
  BY NextIsStep, ExitEnvironment, QuietExits, ExitStarts, ExitEvents
  DEF Orchestrator

(* A process that has been reaped stays in the table only while the event   *)
(* of its end is on its way to the orchestrator, so no end is ever lost,    *)
(* unless a reload has forgotten the job.                                   *)
THEOREM ExitsAreReported == Spec => []ExitIsReported
  <1>1. Exits => ExitIsReported
    BY DEF Exits
  <1> QED
    BY <1>1, ExitInit, ExitStep, TypeInvariant, ManagedInvariant, PTL DEF Spec
=============================================================================
