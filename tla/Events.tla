------------------------------- MODULE Events -------------------------------
(***************************************************************************)
(* The orchestrator's handler of watcher events, manage_event in           *)
(* src/server/events.rs.  An event names an alias, never a process.        *)
(***************************************************************************)
EXTENDS Jobs

(* The orchestrator takes the event e off its channel. *)
Receive(status) ==
    /\ orch = Recv
    /\ queue # <<>>
    /\ Head(queue).kind = "event"
    /\ Head(queue).status = status
    /\ queue' = Tail(queue)

(* Variant of Known: nothing is of interest once a job is stopping. *)
KnownUnlessStopping(a) ==
    services[a] # NoService /\ HasJob(a) /\ jobs[a].status # "Stopping"

(* Both early returns of manage_event. *)
Known(a) == services[a] # NoService /\ HasJob(a)

EventDropped ==
    /\ \E status \in {"Running", "Finished", "TimedOut"} : Receive(status)
    /\ ~Known(Head(queue).alias)
    /\ UNCHANGED <<services, jobs, watched, scanning, orch, tees, proc, client,
                   sent, history>>

(* The process has been polled alive.  Whatever the job was, it is running. *)
EventRunning ==
    LET a == Head(queue).alias IN
    /\ Receive("Running")
    /\ Known(a)
    /\ jobs' = [jobs EXCEPT ![a].status =
                   IF @ = "Healthy" THEN "Healthy" ELSE "Running"]
    /\ UNCHANGED <<services, watched, scanning, orch, tees, proc, client, sent,
                   history>>

-----------------------------------------------------------------------------
(* The retries of the job after inc_job_retries, where the policy counts. *)
CountRetry(a) ==
    IF services[a].restart = "Never" THEN jobs[a].retries
                                     ELSE (jobs[a].retries + 1) % U8

(* Variant of PolicyRestarts: one retry too many. *)
PolicyRestartsUpTo(a, code) ==
    /\ services[a].restart # "Never"
    /\ services[a].restart = "Unexpected" => code \notin services[a].exitCodes
    /\ CountRetry(a) <= services[a].retries

(* RestartOptions, with validate_exit_code for Unexpected. *)
PolicyRestarts(a, code) ==
    /\ services[a].restart # "Never"
    /\ services[a].restart = "Unexpected" => code \notin services[a].exitCodes
    /\ CountRetry(a) < services[a].retries

(* Variants of Forget: the process, or the pipes, are not dropped. *)
ForgetTee(a) == UNCHANGED watched /\ tees' = [tees EXCEPT ![a] = NoPid]

ForgetWatch(a) ==
    LockFree /\ watched' = [watched EXCEPT ![a] = NoWatch] /\ UNCHANGED tees

(* The router drops the pipes and the watcher the process, whichever        *)
(* process the alias has by now.                                            *)
Forget(a) ==
    /\ LockFree
    /\ watched' = [watched EXCEPT ![a] = NoWatch]
    /\ tees' = [tees EXCEPT ![a] = NoPid]

RestartIf(restart, a) == orch' = IF restart THEN AtRestart(a) ELSE Recv

(* The end of a job that was being stopped: its flags are consumed. *)
FinishStopping(a) ==
    /\ jobs[a].status = "Stopping"
    /\ jobs' = [jobs EXCEPT ![a].status = "Finished", ![a].flags = {}]
    /\ services' = IF "remove_service" \in jobs[a].flags
                   THEN [services EXCEPT ![a] = NoService] ELSE services
    /\ RestartIf("restart_job" \in jobs[a].flags, a)

(* Variant of FinishByItself: the job keeps its status. *)
FinishUnmarked(a, code) ==
    /\ jobs[a].status # "Stopping"
    /\ jobs' = [jobs EXCEPT ![a].retries = CountRetry(a)]
    /\ RestartIf(PolicyRestarts(a, code), a)
    /\ UNCHANGED services

(* The end of any other job: the policy of its service decides. *)
FinishByItself(a, code) ==
    /\ jobs[a].status # "Stopping"
    /\ jobs' = [jobs EXCEPT ![a].status = "Finished",
                            ![a].retries = CountRetry(a)]
    /\ RestartIf(PolicyRestarts(a, code), a)
    /\ UNCHANGED services

EventFinished ==
    LET e == Head(queue) IN
    /\ Receive("Finished")
    /\ Known(e.alias)
    /\ Forget(e.alias)
    /\ FinishStopping(e.alias) \/ FinishByItself(e.alias, e.code)
    /\ UNCHANGED <<scanning, proc, client, sent, history>>

(* The start_request at the end of manage_event. *)
RestartJob ==
    /\ orch.pc = "restart"
    /\ LET a == orch.alias IN
          StartJob(a, CreateJob(a)) \/ StartFails(a, CreateJob(a))
    /\ orch' = Recv
    /\ UNCHANGED <<services, scanning, queue, client, sent>>

-----------------------------------------------------------------------------
(* Variant of TimeOutLive: the timer that ran out is not removed. *)
TimeOutLiveTimed(a) ==
    /\ jobs[a].status \in Live
    /\ jobs' = [jobs EXCEPT ![a].status = "Healthy"]
    /\ UNCHANGED <<watched, orch>>

(* A timer ran out while the job was live: it is healthy and has no timer. *)
TimeOutLive(a) ==
    /\ jobs[a].status \in Live
    /\ LockFree
    /\ watched' = IF IsWatched(a) THEN [watched EXCEPT ![a].timer = "none"]
                                  ELSE watched
    /\ jobs' = [jobs EXCEPT ![a].status = "Healthy"]
    /\ UNCHANGED orch

(* A timer ran out while the job was being stopped: SIGKILL, and a new      *)
(* timer.  kill_job fails if nothing is watched.                            *)
TimeOutStopping(a) ==
    /\ jobs[a].status \in {"Stopping", "TimedOut"}
    /\ LockFree
    /\ jobs' = [jobs EXCEPT ![a].status = "Stopping"]
    /\ IF IsWatched(a)
       THEN /\ watched' = [watched EXCEPT
                             ![a].timer = NewTimer(services[a].stopWait)]
            /\ orch' = AtEscalate(watched[a].pid)
       ELSE UNCHANGED <<watched, orch>>

(* A timer ran out, but the job is not running. *)
TimeOutIdle(a) ==
    /\ jobs[a].status \in {"Created", "Finished"}
    /\ jobs' = [jobs EXCEPT ![a].status = "TimedOut"]
    /\ UNCHANGED <<watched, orch>>

EventTimedOut ==
    LET a == Head(queue).alias IN
    /\ Receive("TimedOut")
    /\ Known(a)
    /\ TimeOutLive(a) \/ TimeOutStopping(a) \/ TimeOutIdle(a)
    /\ UNCHANGED <<services, scanning, tees, proc, client, sent, history>>

ManageEvent == EventDropped \/ EventRunning \/ EventFinished \/ EventTimedOut
=============================================================================
