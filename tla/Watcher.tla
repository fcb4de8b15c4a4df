------------------------------ MODULE Watcher -------------------------------
(***************************************************************************)
(* The watcher thread, src/server/watcher.rs, and the processes it looks   *)
(* at.  A scan holds the mutex of the watched table from its first job to  *)
(* its last: scanning is the set of jobs it has still to visit, and the    *)
(* orchestrator gets the mutex only while that set is empty.               *)
(***************************************************************************)
EXTENDS TaskState

(* WatchedTimeout::new: a timer of zero seconds has already run out. *)
NewTimer(secs) == IF secs = 0 THEN "elapsed" ELSE "running"

HasTimedOut(a) == watched[a].timer = "elapsed"

(* Variant of Report: the status is sent but not recorded. *)
ReportUnrecorded(a, status, code) ==
    /\ UNCHANGED watched
    /\ queue' = Append(queue, Event(a, status, code, watched[a].pid))

(* The two lines that record a status and send it as an event. *)
Report(a, status, code) ==
    /\ watched' = [watched EXCEPT ![a].prev = status]
    /\ queue' = Append(queue, Event(a, status, code, watched[a].pid))

BeginScan ==
    /\ LockFree
    /\ \E a \in Alias : IsWatched(a)
    /\ scanning' = {a \in Alias : IsWatched(a)}
    /\ UNCHANGED <<services, jobs, watched, queue, orch, tees, proc, client,
                   sent, history>>

(* A job whose timer has run out is reported once and not polled, be its    *)
(* process alive or its end reported already.                               *)
ScanTimedOut(a) ==
    /\ a \in scanning
    /\ scanning' = scanning \ {a}
    /\ HasTimedOut(a)
    /\ \/ watched[a].prev # "TimedOut" /\ Report(a, "TimedOut", 0)
       \/ watched[a].prev = "TimedOut" /\ UNCHANGED <<watched, queue>>
    /\ history' = IF watched[a].prev = "Finished"
                  THEN [history EXCEPT !.late = @ \cup {a}] ELSE history
    /\ UNCHANGED <<services, jobs, orch, tees, proc, client, sent>>

(* Variant of ReportedCode: no code is made up after a signal. *)
ReportedRawCode(p) == proc[p].code

(* exit_status_to_job_status: a process ended by a signal counts as exit 0. *)
ReportedCode(p) == IF proc[p].code = NoCode THEN 0 ELSE proc[p].code

(* try_wait, which reaps an exited process, and the report of a change. *)
ScanPoll(a) ==
    LET p == watched[a].pid
        alive == proc[p].state = "alive"
        status == IF alive THEN "Running" ELSE "Finished"
        code == IF alive THEN 0 ELSE ReportedCode(p)
    IN  /\ a \in scanning
        /\ scanning' = scanning \ {a}
        /\ ~HasTimedOut(a)
        /\ proc' = IF alive THEN proc ELSE [proc EXCEPT ![p].state = "reaped"]
        /\ \/ watched[a].prev # status /\ Report(a, status, code)
           \/ watched[a].prev = status /\ UNCHANGED <<watched, queue>>
        /\ UNCHANGED <<services, jobs, orch, tees, client, sent, history>>

-----------------------------------------------------------------------------
(* Time and the operating system *)

(* A timer runs out, at any moment. *)
Elapse(a) ==
    /\ watched[a].timer = "running"
    /\ watched' = [watched EXCEPT ![a].timer = "elapsed"]
    /\ UNCHANGED <<services, jobs, scanning, queue, orch, tees, proc, client,
                   sent, history>>

(* A process ends, on its own or because of a signal. *)
Exit(p) ==
    /\ proc[p].state = "alive"
    /\ \E code \in ExitCode \cup {NoCode} :
          proc' = [proc EXCEPT ![p].state = "exited", ![p].code = code,
                               ![p].def = NoService]
    /\ UNCHANGED <<services, jobs, watched, scanning, queue, orch, tees,
                   client, sent, history>>
=============================================================================
