-------------------------- MODULE ServerProperties --------------------------
(***************************************************************************)
(* What the server is expected to guarantee.                               *)
(***************************************************************************)
EXTENDS Orchestrate

(* A job that has finished is not in the table of watched processes any    *)
(* more: start_request and stop_request rely on it (jobs.rs:200, 250).     *)
FinishedIsUnwatched ==
    \A a \in Alias : jobs[a].status = "Finished" => ~IsWatched(a)

(* A watched process always has a job in a state that a later event can    *)
(* act on, and a service, without which manage_event would drop its exit   *)
(* and leave it in the table for ever.  The one way out is a reload that   *)
(* forgets the job of a running process.                                   *)
WatchedIsManaged ==
    \A a \in Alias \ lost :
        IsWatched(a) => /\ jobs[a].status \in Live \cup {"Stopping"}
                        /\ services[a] # NoService

(* Input typed by a client and output read by the router belong to the     *)
(* process under watch, never to an earlier process of the same alias.     *)
IoFollowsProcess ==
    \A a \in Alias \ lost :
        /\ IsWatched(a) => jobs[a].stdin = watched[a].pid
        /\ tees[a] # NoPid => tees[a] = watched[a].pid

(* An event in the channel speaks of the process that is watched under its *)
(* alias now: no event outlives the process it was sent for, although it   *)
(* names the alias only.  The exceptions are a job a reload forgot, and one *)
(* whose timer ran out behind the report of its end (watcher.rs:67 does not *)
(* ask whether the end was reported).                                      *)
NoStaleEvents ==
    \A i \in DOMAIN queue :
        queue[i].kind = "event" /\ queue[i].alias \notin lost \cup late
            => watched[queue[i].alias].pid = queue[i].pid

(* A process that is not reaped is under watch: its end will be noticed    *)
(* and no second process of its alias is started beside it, with the same  *)
(* two exceptions.                                                         *)
NoOrphans ==
    \A p \in Pid :
        proc[p].state \in {"alive", "exited"} /\ proc[p].alias \notin lost \cup late
            => watched[proc[p].alias].pid = p

(* A reaped process is still in the table only while the event of its end  *)
(* is in the channel: the end of a process is never lost.                  *)
ExitIsReported ==
    \A a \in Alias \ lost :
        IsWatched(a) /\ proc[watched[a].pid].state = "reaped"
            => \E i \in DOMAIN queue :
                  /\ queue[i].kind = "event"
                  /\ queue[i].alias = a
                  /\ queue[i].status = "Finished"

(* The changes a reload has still to apply. *)
Pending == CASE orch.pc = "reload" -> orch.todo
             [] orch.pc \in {"kill", "return"} -> orch.call.todo
             [] OTHER -> {}

(* No process outlives a reload unnoticed: one that runs with another       *)
(* definition than its service has now was told to stop, is about to be,    *)
(* or belongs to a change that a broken reload did not come to.             *)
OutdatedIsSignalled ==
    \A a \in Alias \ (lost \cup missed) :
        LET p == watched[a].pid IN
        IsWatched(a) /\ proc[p].state = "alive" /\ proc[p].def # services[a]
            => \/ proc[p].signal # "none"
               \/ orch.pc = "kill" /\ orch.pid = p
               \/ \E ch \in Pending : ch.alias = a

(* What start_request refuses as already started, and why it should. *)
Refused(a) == jobs[a].status \in Live \cup {"Stopping", "TimedOut"}

(* A job that start_request refuses as already started (jobs.rs:195-198) has *)
(* a process, unless a timer ran out behind the report of its end: no other *)
(* order of events, stops, restarts and reloads leaves a job that can never *)
(* be started again.                                                       *)
RefusedIsWatched ==
    \A a \in Alias \ (lost \cup late) : Refused(a) => IsWatched(a)

(* A job whose process has finished may be started: "Only finished, created *)
(* and Free are considered valid states to start a job" (jobs.rs:193).  It  *)
(* is false of a job in late, which events.rs:124 makes TimedOut.          *)
FinishedMayStart ==
    \A a \in Alias \ lost : HasJob(a) /\ ~IsWatched(a) => MayStart(jobs[a])

(* The u8 that counts retries never wraps around: inc_job_retries only     *)
(* counts up, although nothing in it stops at the policy's maximum.  An end *)
(* that is reported twice, which takes a job in late, is counted twice.    *)
RetriesNeverWrap ==
    [][EventFinished => \A a \in Alias \ (lost \cup late) :
                           jobs'[a].retries >= jobs[a].retries]_vars

(* A process that was asked to stop, and not to restart, is not replaced   *)
(* when it ends, whatever the restart policy of its service.               *)
StoppedJobJustEnds ==
    [][EventFinished /\ Head(queue).alias \notin lost
         /\ proc[Head(queue).pid].signal # "none"
         /\ "restart_job" \notin jobs[Head(queue).alias].flags
             => orch' = Recv]_vars

(* When the process of a job that a reload removed ends, its service goes. *)
RemovedServiceGoes ==
    [][Receive("Finished") /\ Head(queue).alias \in lost
         /\ ~HasJob(Head(queue).alias)
             => services'[Head(queue).alias] = NoService]_vars

-----------------------------------------------------------------------------
(* A client is not left without an answer. *)
RequestsAreAnswered ==
    \A c \in Client : client[c] = "waiting" ~> client[c] = "idle"

(* The watcher has reported a time-out of the job, and the timer that the  *)
(* stop or the SIGKILL has set since has run out before a scan polled the  *)
(* job, at once if stop_wait is zero: watcher.rs:67-72 skips it from now on. *)
Skipped(a) ==
    /\ jobs[a].status = "Stopping"
    /\ watched[a].prev = "TimedOut" /\ HasTimedOut(a)
    /\ \A i \in DOMAIN queue :
          ~(queue[i].kind = "event" /\ queue[i].alias = a)

(* When a process ends, the watcher reaps it and the orchestrator takes it *)
(* out of the table, unless its job is being stopped and is skipped: that  *)
(* is the only way in which a timer keeps the watcher from polling for ever. *)
ExitIsNoticed ==
    \A a \in Alias, p \in Pid :
        (watched[a].pid = p /\ proc[p].state = "exited" /\ a \notin lost)
            ~> (watched[a].pid # p \/ a \in lost \/ Skipped(a))
=============================================================================
