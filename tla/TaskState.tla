----------------------------- MODULE TaskState ------------------------------
(***************************************************************************)
(* The state of the taskmeister server, shared by the modules of its       *)
(* threads: the orchestrator's services and jobs (orchestrate.rs,          *)
(* jobs.rs), the mutex-protected table of watched processes (watcher.rs),  *)
(* the channel both threads and the clients send into, and the operating   *)
(* system's processes, which are external to the code.                     *)
(***************************************************************************)
EXTENDS Services

CONSTANTS
    Client,     \* connection handlers, the SIGHUP thread and the start-up
    Catalog,    \* the tables load_services can return, over all files
    MaxSpawns,  \* bound: processes started in a behaviour
    MaxRequests \* bound: requests sent in a behaviour

ASSUME CatalogAssumption ==
    /\ Catalog # {}
    /\ Catalog \subseteq Table
    /\ \A table \in Catalog : \A a \in Alias :
          table[a] # NoService =>
             GenerateAliasNames(a, table[a].numprocs) \in Seq(Alias)

ASSUME BoundsAssumption == MaxSpawns \in Nat /\ MaxRequests \in Nat

VARIABLES
    services,   \* Orchestrator.services
    jobs,       \* Orchestrator.jobs
    watched,    \* Orchestrator.watched, the table behind the mutex
    scanning,   \* jobs the scan that holds the mutex has still to visit
    queue,      \* the mpsc channel of OrchestratorMsg
    orch,       \* where the orchestrator thread is inside a handler
    tees,       \* the process whose pipes the I/O router reads for an alias
    proc,       \* the operating system's processes
    client,     \* whether a client waits for its answer
    sent,       \* requests sent so far, for the bound
    history     \* what happened before, for the properties, see below

vars == <<services, jobs, watched, scanning, queue, orch, tees, proc, client,
          sent, history>>

-----------------------------------------------------------------------------
(* Jobs *)

Pid == 1 .. MaxSpawns
NoPid == 0

(* enum JobStatus.  Healthy is Running(true); the exit code of Finished is  *)
(* carried by the event only, no handler reads it from the job.             *)
Live == {"Starting", "Running", "Healthy"}
Status == Live \cup {"Created", "Stopping", "Finished", "TimedOut"}

(* struct Job and struct JobFlags, the flags as the set of those raised.    *)
(* "Absent" is a missing entry of the HashMap.                              *)
Flag == {"remove_service", "restart_job"}
Job == [status  : Status \cup {"Absent"},
        retries : 0 .. U8 - 1,
        flags   : SUBSET Flag,
        stdin   : Pid \cup {NoPid}]

NoJob == [status |-> "Absent", retries |-> 0, flags |-> {}, stdin |-> NoPid]

(* Job created by create_job. *)
NewJob == [NoJob EXCEPT !.status = "Created"]

HasJob(a) == jobs[a].status # "Absent"

-----------------------------------------------------------------------------
(* Processes: alive, exited but not waited for, or reaped by try_wait.      *)
(* signal is the strongest signal the server has sent; alias and def, the   *)
(* service a living process was spawned from, are history.                  *)

NoCode == -1    \* ExitStatus::code() of a process ended by a signal

Process ==
    [state  : {"unborn", "alive", "exited", "reaped"},
     code   : ExitCode \cup {NoCode},
     signal : {"none", "stop", "kill"},
     alias  : Alias \cup {NoAlias},
     def    : Service \cup {NoService}]

Unborn == [state |-> "unborn", code |-> NoCode, signal |-> "none",
           alias |-> NoAlias, def |-> NoService]

IsFresh(p) == /\ proc[p].state = "unborn"
              /\ \A q \in 1 .. p - 1 : proc[q].state # "unborn"

-----------------------------------------------------------------------------
(* The watched table *)

(* struct Watched.  The vectors of the code have one element each. *)
Timer == {"none", "running", "elapsed"}
Watched == [pid : Pid, prev : Status, timer : Timer]
NoWatch == [pid |-> NoPid, prev |-> "Created", timer |-> "none"]

IsWatched(a) == watched[a].pid # NoPid

(* The mutex is free: the watcher is between two scans. *)
LockFree == scanning = {}

-----------------------------------------------------------------------------
(* Messages *)

Request(c, act, a) ==
    [kind |-> "request", client |-> c, act |-> act, alias |-> a]

Event(a, status, code, p) ==
    [kind |-> "event", alias |-> a, status |-> status, code |-> code,
     pid |-> p]     \* pid is a history field: the code sends no pid

RequestMsg ==
    [kind : {"request"}, client : Client, act : {"Start", "Stop", "Restart"},
     alias : Alias]
    \cup
    [kind : {"request"}, client : Client, act : {"Reload"},
     alias : {NoAlias}]

EventMsg ==
    [kind : {"event"}, alias : Alias,
     status : {"Running", "Finished", "TimedOut"}, code : ExitCode, pid : Pid]

Message == RequestMsg \cup EventMsg

-----------------------------------------------------------------------------
(* Where the orchestrator is.  A handler that releases the mutex between    *)
(* two effects, or that loops over several jobs, is split at those points;  *)
(* no message is received before the handler is back at Recv.               *)

Outcome == {"Ok", "JobNotFound", "ServiceStopped", "ServiceAlreadyStopping",
            "ServiceNotFound", "JobIoError"}

(* A call of stop_request and what its caller does next: answer the client  *)
(* of the request, or go on with the other changes of a reload.             *)
Call == [by : {"request", "reload"}, client : Client, alias : Alias,
         flags : SUBSET Flag, todo : SUBSET Change]

Recv == [pc |-> "recv"]
AtStart(c, todo)     == [pc |-> "start", client |-> c, todo |-> todo]
AtRestart(a)         == [pc |-> "restart", alias |-> a]
AtStop(call)         == [pc |-> "stop", call |-> call]
AtReload(c, todo)    == [pc |-> "reload", client |-> c, todo |-> todo]
AtKill(call, p)      == [pc |-> "kill", call |-> call, pid |-> p]
AtReturn(call, res)  == [pc |-> "return", call |-> call, res |-> res]
AtEscalate(p)        == [pc |-> "escalate", pid |-> p]

OrchState ==
    {Recv}
    \cup [pc : {"start"}, client : Client, todo : Seq(Alias)]
    \cup [pc : {"restart"}, alias : Alias]
    \cup [pc : {"stop"}, call : Call]
    \cup [pc : {"reload"}, client : Client, todo : SUBSET Change]
    \cup [pc : {"kill"}, call : Call, pid : Pid]
    \cup [pc : {"return"}, call : Call, res : Outcome]
    \cup [pc : {"escalate"}, pid : Pid]

(* The request has its answer and its channel is dropped. *)
Answer(c) == /\ client' = [client EXCEPT ![c] = "idle"]
             /\ orch' = Recv

-----------------------------------------------------------------------------
(* History.  lost: the jobs a reload forgot while their process was watched. *)
(* missed: the changes a broken reload did not come to.  late: the jobs of  *)
(* which a timer has run out after the end of the process was reported and  *)
(* before the report was handled.                                           *)
History == [lost : SUBSET Alias, missed : SUBSET Alias, late : SUBSET Alias]

lost == history.lost
missed == history.missed
late == history.late

Init ==
    /\ services \in Catalog
    /\ jobs = [a \in Alias |-> NoJob]
    /\ watched = [a \in Alias |-> NoWatch]
    /\ scanning = {}
    /\ queue = <<>>
    /\ orch = Recv
    /\ tees = [a \in Alias |-> NoPid]
    /\ proc = [p \in Pid |-> Unborn]
    /\ client = [c \in Client |-> "idle"]
    /\ sent = 0
    /\ history = [lost |-> {}, missed |-> {}, late |-> {}]

(* Every variable ranges over the values its Rust type, or its role as a    *)
(* history variable, allows.                                                *)
TypeOK ==
    /\ services \in Table
    /\ jobs \in [Alias -> Job]
    /\ watched \in [Alias -> Watched \cup {NoWatch}]
    /\ scanning \subseteq Alias
    /\ queue \in Seq(Message)
    /\ orch \in OrchState
    /\ tees \in [Alias -> Pid \cup {NoPid}]
    /\ proc \in [Pid -> Process]
    /\ client \in [Client -> {"idle", "waiting"}]
    /\ sent \in 0 .. MaxRequests
    /\ history \in History
=============================================================================
