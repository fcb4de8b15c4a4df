-------------------------------- MODULE Jobs --------------------------------
(***************************************************************************)
(* The job operations of the orchestrator, src/server/jobs.rs: starting a  *)
(* process and putting it under watch, and asking a process to stop.       *)
(***************************************************************************)
EXTENDS Watcher

(* create_job: the job of the alias, new if there is none. *)
CreateJob(a) == IF HasJob(a) THEN jobs[a] ELSE NewJob

(* reset_job_retries, applied to the job create_job returns next. *)
ResetJobRetries(job) == [job EXCEPT !.retries = 0]

(* IoRouterRequest::Create: an alias that already has a Tee keeps it, and a *)
(* Tee whose log files cannot be opened is not created.                     *)
CreateTee(a, p) == {tees, [tees EXCEPT ![a] = IF @ = NoPid THEN p ELSE @]}

(* Variant of MayStart: a job that has become healthy may start again. *)
MayStartHealthy(job) == job.status \in {"Created", "Finished", "Healthy"}

(* The states in which start_request does not refuse a job. *)
MayStart(job) == job.status \in {"Created", "Finished"}

(* start_request, as far as start_job succeeds: the process replaces        *)
(* whatever the table of watched processes held for the alias.              *)
StartJob(a, job) ==
    /\ MayStart(job)
    /\ services[a] # NoService
    /\ LockFree
    /\ \E p \in Pid :
          /\ IsFresh(p)
          /\ proc' = [proc EXCEPT ![p] = [Unborn EXCEPT
                        !.state = "alive", !.alias = a, !.def = services[a]]]
          /\ jobs' = [jobs EXCEPT ![a] = [job EXCEPT !.status = "Starting",
                                                     !.stdin = p]]
          /\ watched' = [watched EXCEPT ![a] =
                           [pid |-> p, prev |-> "Starting",
                            timer |-> NewTimer(services[a].startTime)]]
          /\ tees' \in CreateTee(a, p)
    /\ history' = [history EXCEPT !.missed = @ \ {a}]

(* start_request with an error: the job is not in a state to start, it has  *)
(* no service, or the process cannot be spawned.  The job stays created.    *)
StartFails(a, job) ==
    /\ jobs' = [jobs EXCEPT ![a] = job]
    /\ UNCHANGED <<proc, watched, tees, history>>

-----------------------------------------------------------------------------
(* stop_request up to the point where kill_job has released the mutex: the  *)
(* job is marked and its timer rewound, but no signal has been sent yet.    *)

(* What stop_request answers without a process to signal. *)
StopOutcome(a, flags) ==
    CASE jobs[a].status = "Absent" -> "JobNotFound"
      [] jobs[a].status = "Created" -> "ServiceStopped"
      [] jobs[a].status \in {"Stopping", "TimedOut"} -> "ServiceAlreadyStopping"
      [] jobs[a].status = "Finished" ->
            IF "restart_job" \in flags THEN "ServiceStopped" ELSE "Ok"
      [] OTHER -> IF services[a] = NoService THEN "ServiceNotFound"
                                             ELSE "JobNotFound"

(* The job runs: it is marked, then stop_job looks for its service and      *)
(* kill_job for its watched process.                                        *)
StopLiveJob(call) ==
    LET a == call.alias IN
    /\ jobs[a].status \in Live
    /\ services[a] # NoService => LockFree
    /\ jobs' = [jobs EXCEPT ![a].status = "Stopping", ![a].flags = call.flags]
    /\ IF services[a] # NoService /\ IsWatched(a)
       THEN /\ watched' = [watched EXCEPT
                             ![a].timer = NewTimer(services[a].stopWait)]
            /\ orch' = AtKill(call, watched[a].pid)
       ELSE /\ orch' = AtReturn(call, StopOutcome(a, call.flags))
            /\ UNCHANGED watched
    /\ UNCHANGED services

(* The job does not run: only a service to remove is removed, and only if   *)
(* the job has finished.                                                    *)
StopIdleJob(call) ==
    LET a == call.alias IN
    /\ jobs[a].status \notin Live
    /\ services' =
         IF jobs[a].status = "Finished" /\ "remove_service" \in call.flags
         THEN [services EXCEPT ![a] = NoService]
         ELSE services
    /\ orch' = AtReturn(call, StopOutcome(a, call.flags))
    /\ UNCHANGED <<jobs, watched>>

StopRequest(call) == StopLiveJob(call) \/ StopIdleJob(call)

(* The signal of kill_job.  Only a living process notices it; after a       *)
(* SIGKILL no weaker signal matters.                                        *)
Signal(p, sig) ==
    proc' = IF proc[p].state = "alive" /\ proc[p].signal # "kill"
            THEN [proc EXCEPT ![p].signal = sig]
            ELSE proc

(* kill(2) fails once the process has been reaped. *)
KillOutcome(p) == IF proc[p].state = "reaped" THEN "JobIoError" ELSE "Ok"

(* The end of kill_job when stop_request called it. *)
KillForStop ==
    /\ orch.pc = "kill"
    /\ Signal(orch.pid, "stop")
    /\ orch' = AtReturn(orch.call, KillOutcome(orch.pid))
    /\ UNCHANGED <<services, jobs, watched, scanning, queue, tees, client,
                   sent, history>>

(* The end of kill_job when a time-out called it: errors are only logged. *)
KillForTimeOut ==
    /\ orch.pc = "escalate"
    /\ Signal(orch.pid, "kill")
    /\ orch' = Recv
    /\ UNCHANGED <<services, jobs, watched, scanning, queue, tees, client,
                   sent, history>>
=============================================================================
