----------------------------- MODULE Orchestrate ----------------------------
(***************************************************************************)
(* The taskmeister server: the request dispatch of the orchestrator,       *)
(* src/server/orchestrate.rs, composed with its event handler, with the    *)
(* watcher thread, with the clients that send requests and with the        *)
(* operating system.                                                       *)
(***************************************************************************)
EXTENDS Events

(* process_request: a connection sends one request and waits for its answer *)
(* before it reads the next one.                                            *)
Send(c, act, a) ==
    /\ client[c] = "idle"
    /\ sent < MaxRequests
    /\ sent' = sent + 1
    /\ client' = [client EXCEPT ![c] = "waiting"]
    /\ queue' = Append(queue, Request(c, act, a))
    /\ UNCHANGED <<services, jobs, watched, scanning, orch, tees, proc, history>>

SendJobRequest ==
    \E c \in Client, act \in {"Start", "Stop", "Restart"}, a \in Alias :
        Send(c, act, a)

SendReload == \E c \in Client : Send(c, "Reload", NoAlias)

-----------------------------------------------------------------------------
(* The orchestrator takes a request off its channel. *)
ReceiveRequest(act) ==
    /\ orch = Recv
    /\ queue # <<>>
    /\ Head(queue).kind = "request"
    /\ Head(queue).act = act
    /\ queue' = Tail(queue)

(* ServiceAction::Start of a name that is no service. *)
StartUnknown ==
    /\ ReceiveRequest("Start")
    /\ services[Head(queue).alias] = NoService
    /\ Answer(Head(queue).client)
    /\ UNCHANGED <<services, jobs, watched, scanning, tees, proc, sent, history>>

(* ServiceAction::Start: one start_request per process of the service. *)
StartService ==
    LET r == Head(queue) IN
    /\ ReceiveRequest("Start")
    /\ services[r.alias] # NoService
    /\ orch' = AtStart(r.client, GenerateAliasNames(r.alias,
                                              services[r.alias].numprocs))
    /\ UNCHANGED <<services, jobs, watched, scanning, tees, proc, client, sent,
                   history>>

(* try_for_each: the next process, or the end of the loop at the first one  *)
(* that cannot be started.                                                  *)
StartNext ==
    /\ orch.pc = "start"
    /\ orch.todo # <<>>
    /\ LET a == Head(orch.todo)
           job == ResetJobRetries(CreateJob(a))
       IN  \/ /\ StartJob(a, job)
              /\ orch' = AtStart(orch.client, Tail(orch.todo))
              /\ UNCHANGED client
           \/ /\ StartFails(a, job)
              /\ Answer(orch.client)
    /\ UNCHANGED <<services, scanning, queue, sent>>

StartDone ==
    /\ orch.pc = "start"
    /\ orch.todo = <<>>
    /\ Answer(orch.client)
    /\ UNCHANGED <<services, jobs, watched, scanning, queue, tees, proc, sent,
                   history>>

-----------------------------------------------------------------------------
RequestCall(c, a, flags) ==
    [by |-> "request", client |-> c, alias |-> a, flags |-> flags, todo |-> {}]

StopService ==
    LET r == Head(queue) IN
    /\ ReceiveRequest("Stop")
    /\ StopRequest(RequestCall(r.client, r.alias, {}))
    /\ UNCHANGED <<scanning, tees, proc, client, sent, history>>

(* ServiceAction::Restart resets the retries, then stops the job with the   *)
(* flag that makes its end start it again.  The reset touches no field      *)
(* stop_request looks at.                                                   *)
ReceiveRestart ==
    LET r == Head(queue) IN
    /\ ReceiveRequest("Restart")
    /\ jobs' = [jobs EXCEPT ![r.alias].retries = 0]
    /\ orch' = AtStop(RequestCall(r.client, r.alias, {"restart_job"}))
    /\ UNCHANGED <<services, watched, scanning, tees, proc, client, sent, history>>

RestartService ==
    /\ orch.pc = "stop"
    /\ StopRequest(orch.call)
    /\ UNCHANGED <<scanning, queue, tees, proc, client, sent, history>>

(* stop_request returns to a request: whatever it returned is the answer. *)
ReturnToRequest ==
    /\ orch.pc = "return"
    /\ orch.call.by = "request"
    /\ Answer(orch.call.client)
    /\ UNCHANGED <<services, jobs, watched, scanning, queue, tees, proc, sent,
                   history>>

-----------------------------------------------------------------------------
(* ServiceAction::Reload.  The files hold any table of the catalog when     *)
(* they are read, or cannot be loaded.                                      *)
ReloadFails ==
    /\ ReceiveRequest("Reload")
    /\ Answer(Head(queue).client)
    /\ UNCHANGED <<services, jobs, watched, scanning, tees, proc, sent, history>>

Reload ==
    /\ ReceiveRequest("Reload")
    /\ \E new \in Catalog :
          /\ services' = Updated(services, new)
          /\ orch' = AtReload(Head(queue).client, Changes(services, new))
    /\ UNCHANGED <<jobs, watched, scanning, tees, proc, client, sent, history>>

(* The restarts come before the stops, in no particular order. *)
NextChanges ==
    LET restarts == {ch \in orch.todo : ch.act = "Restart"}
    IN  IF restarts # {} THEN restarts ELSE orch.todo

ReloadCall(change) ==
    [by |-> "reload", client |-> orch.client, alias |-> change.alias,
     flags |-> IF change.act = "Stop" THEN {"remove_service"}
                                      ELSE {"restart_job"},
     todo |-> orch.todo \ {change}]

ReloadNext ==
    /\ orch.pc = "reload"
    /\ \E change \in NextChanges : StopRequest(ReloadCall(change))
    /\ UNCHANGED <<scanning, queue, tees, proc, client, sent, history>>

ReloadDone ==
    /\ orch.pc = "reload"
    /\ orch.todo = {}
    /\ Answer(orch.client)
    /\ UNCHANGED <<services, jobs, watched, scanning, queue, tees, proc, sent,
                   history>>

(* The outcomes after which a reload goes on. *)
Tolerated(flags) == IF "restart_job" \in flags
                    THEN {"Ok", "ServiceStopped", "JobNotFound"}
                    ELSE {"Ok", "JobNotFound"}

(* stop_request returns to the reload loop, which goes on... *)
ReturnToReload ==
    /\ orch.pc = "return"
    /\ orch.call.by = "reload"
    /\ orch' = AtReload(orch.call.client, orch.call.todo)
    /\ UNCHANGED <<watched, scanning, queue, tees, proc, client, sent>>

(* ...after a restart that was accepted or had nothing to restart, *)
ReloadRestarted ==
    /\ ReturnToReload
    /\ "restart_job" \in orch.call.flags
    /\ orch.res \in Tolerated(orch.call.flags)
    /\ UNCHANGED <<services, jobs, history>>

(* after a stop that was accepted: the job is forgotten, flags and all, *)
ReloadForgetsJob ==
    LET a == orch.call.alias IN
    /\ ReturnToReload
    /\ "remove_service" \in orch.call.flags
    /\ orch.res = "Ok"
    /\ jobs' = [jobs EXCEPT ![a] = NoJob]
    /\ history' = IF IsWatched(a) THEN [history EXCEPT !.lost = @ \cup {a}]
                                  ELSE history
    /\ UNCHANGED services

(* or after the removal of a service that has no job. *)
ReloadForgetsService ==
    /\ ReturnToReload
    /\ "remove_service" \in orch.call.flags
    /\ orch.res = "JobNotFound"
    /\ services' = [services EXCEPT ![orch.call.alias] = NoService]
    /\ UNCHANGED <<jobs, history>>

(* Variant of ReloadBreaks: nobody is told. *)
ReloadBreaksSilently ==
    /\ orch.pc = "return"
    /\ orch.call.by = "reload"
    /\ orch.res \notin Tolerated(orch.call.flags)
    /\ orch' = Recv
    /\ UNCHANGED <<services, jobs, watched, scanning, queue, tees, proc, client,
                   sent, history>>

(* Any other outcome breaks the loop; it is the answer of the reload, and   *)
(* the changes that are left are never applied.                             *)
ReloadBreaks ==
    /\ orch.pc = "return"
    /\ orch.call.by = "reload"
    /\ orch.res \notin Tolerated(orch.call.flags)
    /\ Answer(orch.call.client)
    /\ history' = [history EXCEPT
                     !.missed = @ \cup {ch.alias : ch \in orch.call.todo}]
    /\ UNCHANGED <<services, jobs, watched, scanning, queue, tees, proc, sent>>
-----------------------------------------------------------------------------
Orchestrator ==
    \/ StartUnknown \/ StartService \/ StartNext \/ StartDone
    \/ StopService \/ ReceiveRestart \/ RestartService \/ ReturnToRequest
    \/ ReloadFails \/ Reload \/ ReloadNext \/ ReloadDone
    \/ ReloadRestarted \/ ReloadForgetsJob \/ ReloadForgetsService
    \/ ReloadBreaks
    \/ KillForStop \/ KillForTimeOut
    \/ ManageEvent \/ RestartJob

ScanJob(a) == ScanTimedOut(a) \/ ScanPoll(a)

Next ==
    \/ SendJobRequest
    \/ SendReload
    \/ Orchestrator
    \/ BeginScan
    \/ \E a \in Alias : ScanJob(a) \/ Elapse(a)
    \/ \E p \in Pid : Exit(p)

Spec == Init /\ [][Next]_vars

(* The threads keep running, time passes, and a process that was sent       *)
(* SIGKILL ends.  The orchestrator gets the mutex although the watcher      *)
(* takes it again and again, because the watcher sleeps 100 ms without it:  *)
(* hence strong fairness.  Nothing makes a client send, or a process that   *)
(* was not killed end.                                                      *)
Fairness ==
    /\ SF_vars(Orchestrator)
    /\ WF_vars(BeginScan)
    /\ \A a \in Alias : WF_vars(ScanJob(a)) /\ WF_vars(Elapse(a))
    /\ \A p \in Pid : WF_vars(proc[p].signal = "kill" /\ Exit(p))

FairSpec == Spec /\ Fairness
=============================================================================
