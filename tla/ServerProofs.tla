---------------------------- MODULE ServerProofs ----------------------------
(***************************************************************************)
(* Proofs about the server for every set of aliases and clients, every     *)
(* catalog of service tables and every bound.                              *)
(***************************************************************************)
EXTENDS ServerProperties, SequenceTheorems, TLAPS

-----------------------------------------------------------------------------
(* Shapes of the data the handlers take apart. *)

LEMMA OrchShape ==
    ASSUME orch \in OrchState
    PROVE  /\ orch.pc = "start" => orch.client \in Client /\ orch.todo \in Seq(Alias)
           /\ orch.pc = "restart" => orch.alias \in Alias
           /\ orch.pc = "stop" => orch.call \in Call
           /\ orch.pc = "reload" => orch.client \in Client /\ orch.todo \in SUBSET Change
           /\ orch.pc = "kill" => orch.call \in Call /\ orch.pid \in Pid
           /\ orch.pc = "return" => orch.call \in Call /\ orch.res \in Outcome
           /\ orch.pc = "escalate" => orch.pid \in Pid
  BY DEF OrchState, Recv

LEMMA QueueHead ==
    ASSUME queue \in Seq(Message), queue # <<>>
    PROVE  Head(queue) \in Message /\ Tail(queue) \in Seq(Message)
  BY HeadTailProperties

LEMMA MessageShape ==
    ASSUME NEW m \in Message
    PROVE  /\ m.kind = "request" =>
                /\ m.client \in Client
                /\ m.act # "Reload" => m.alias \in Alias
           /\ m.kind = "event" =>
                /\ m.alias \in Alias /\ m.code \in ExitCode /\ m.pid \in Pid
                /\ m.status \in {"Running", "Finished", "TimedOut"}
  BY DEF Message, RequestMsg, EventMsg

LEMMA EventIsMessage ==
    ASSUME NEW a \in Alias, NEW s \in {"Running", "Finished", "TimedOut"},
           NEW c \in ExitCode, NEW p \in Pid, queue \in Seq(Message)
    PROVE  Append(queue, Event(a, s, c, p)) \in Seq(Message)
  <1>1. Event(a, s, c, p) \in Message
    BY DEF Event, Message, EventMsg
  <1> QED BY <1>1, AppendProperties

LEMMA JobTypes ==
    /\ NoJob \in Job /\ NewJob \in Job
    /\ Unborn \in Process
    /\ NoWatch \notin Watched
  BY ServicesAssumption
  DEF NoJob, NewJob, Job, Status, Live, Flag, Pid, NoPid, Unborn, Process,
      NoCode, NoAlias, NoWatch, Watched, Timer

-----------------------------------------------------------------------------
(* The types are not inductive by themselves.  StartService builds the     *)
(* names of a group, which are aliases because every service the files     *)
(* define has its virtual services; and a scan looks up processes, which   *)
(* are watched because no entry leaves the table while the mutex is held.  *)
NamesAreAliases ==
    \A a \in Alias :
        services[a] # NoService =>
            GenerateAliasNames(a, services[a].numprocs) \in Seq(Alias)

ScannedAreWatched == \A a \in scanning : IsWatched(a)

TypeInv == TypeOK /\ NamesAreAliases /\ ScannedAreWatched

LEMMA TypeInvInit == Init => TypeInv
  <1> SUFFICES ASSUME Init PROVE TypeInv
    OBVIOUS
  <1> USE DEF Init
  <1>1. TypeOK
    BY CatalogAssumption, BoundsAssumption, JobTypes, EmptySeq
    DEF TypeOK, OrchState, NoPid, History
  <1>2. NamesAreAliases
    BY CatalogAssumption DEF NamesAreAliases
  <1>3. ScannedAreWatched
    BY DEF ScannedAreWatched
  <1> QED BY <1>1, <1>2, <1>3 DEF TypeInv

(* Sending a request, and the end of a process. *)
LEMMA TypeInvSend ==
    ASSUME TypeInv, SendJobRequest \/ SendReload
    PROVE  TypeInv'
  <1> USE DEF TypeInv
  <1>1. PICK c \in Client, act \in {"Start", "Stop", "Restart", "Reload"},
             a \in Alias \cup {NoAlias} :
          Send(c, act, a) /\ (act = "Reload" <=> a = NoAlias)
    BY ServicesAssumption DEF SendJobRequest, SendReload, NoAlias
  <1>2. Request(c, act, a) \in Message
    BY <1>1 DEF Request, Message, RequestMsg
  <1>3. queue' \in Seq(Message)
    BY <1>1, <1>2, AppendProperties DEF Send, TypeOK
  <1>4. client' \in [Client -> {"idle", "waiting"}] /\ sent' \in 0 .. MaxRequests
    BY <1>1, BoundsAssumption DEF Send, TypeOK
  <1> QED
    BY <1>1, <1>3, <1>4
    DEF Send, TypeOK, NamesAreAliases, ScannedAreWatched, IsWatched

-----------------------------------------------------------------------------
(* A step that replaces no process under watch. *)
PidsKept == \A b \in Alias : watched'[b].pid = watched[b].pid

(* The watcher, time and the processes. *)

LEMMA WatchedTypes ==
    ASSUME TypeOK, NEW a \in Alias, IsWatched(a)
    PROVE  /\ watched[a] \in Watched
           /\ watched[a].pid \in Pid
           /\ proc[watched[a].pid] \in Process
  BY DEF TypeOK, IsWatched, NoWatch, Watched

LEMMA ReportTypes ==
    ASSUME TypeOK, NEW a \in Alias, IsWatched(a),
           NEW status \in {"Running", "Finished", "TimedOut"},
           NEW code \in ExitCode, Report(a, status, code)
    PROVE  /\ watched' \in [Alias -> Watched \cup {NoWatch}]
           /\ queue' \in Seq(Message)
           /\ \A b \in Alias : IsWatched(b)' <=> IsWatched(b)
  <1>1. queue' \in Seq(Message)
    BY WatchedTypes, EventIsMessage DEF TypeOK, Report
  <1>2. [watched[a] EXCEPT !.prev = status] \in Watched
    BY WatchedTypes DEF Watched, Status, Live
  <1> QED
    BY <1>1, <1>2 DEF TypeOK, Report, IsWatched

LEMMA TypeInvScan ==
    ASSUME TypeInv, NEW a \in Alias, BeginScan \/ ScanJob(a)
    PROVE  TypeInv'
  <1> USE DEF TypeInv
  <1>1. CASE BeginScan
    BY <1>1 DEF BeginScan, TypeOK, NamesAreAliases, ScannedAreWatched, IsWatched
  <1>2. CASE ScanTimedOut(a)
    <2>1. IsWatched(a) /\ 0 \in ExitCode
      BY <1>2, ServicesAssumption DEF ScanTimedOut, ScannedAreWatched
    <2>2. /\ watched' \in [Alias -> Watched \cup {NoWatch}]
          /\ queue' \in Seq(Message)
          /\ \A b \in Alias : IsWatched(b)' <=> IsWatched(b)
      BY <1>2, <2>1, ReportTypes DEF ScanTimedOut, TypeOK, IsWatched
    <2>3. history' \in History
      BY <1>2, <2>1 DEF ScanTimedOut, TypeOK, History
    <2> QED
      BY <1>2, <2>2, <2>3
      DEF ScanTimedOut, TypeOK, NamesAreAliases, ScannedAreWatched
  <1>3. CASE ScanPoll(a)
    <2> DEFINE p == watched[a].pid
               alive == proc[p].state = "alive"
               status == IF alive THEN "Running" ELSE "Finished"
               code == IF alive THEN 0 ELSE ReportedCode(p)
    <2>1. IsWatched(a)
      BY <1>3 DEF ScanPoll, ScannedAreWatched
    <2>2. p \in Pid /\ proc[p] \in Process
      BY <2>1, WatchedTypes
    <2>3. code \in ExitCode /\ status \in {"Running", "Finished", "TimedOut"}
      BY <2>2, ServicesAssumption DEF ReportedCode, Process
    <2>4. /\ Report(a, status, code) \/ UNCHANGED <<watched, queue>>
          /\ proc' = IF alive THEN proc ELSE [proc EXCEPT ![p].state = "reaped"]
      BY <1>3 DEF ScanPoll
    <2>5. /\ watched' \in [Alias -> Watched \cup {NoWatch}]
          /\ queue' \in Seq(Message)
          /\ \A b \in Alias : IsWatched(b)' <=> IsWatched(b)
      BY <2>1, <2>3, <2>4, ReportTypes DEF TypeOK, IsWatched
    <2>6. proc' \in [Pid -> Process]
      BY <2>2, <2>4 DEF TypeOK, Process
    <2> QED
      BY <1>3, <2>5, <2>6
      DEF ScanPoll, TypeOK, NamesAreAliases, ScannedAreWatched
  <1> QED BY <1>1, <1>2, <1>3 DEF ScanJob

LEMMA TypeInvElapse ==
    ASSUME TypeInv, NEW a \in Alias, Elapse(a)
    PROVE  TypeInv'
  <1> USE DEF TypeInv
  <1>1. watched[a] \in Watched /\ IsWatched(a)
    BY DEF Elapse, TypeOK, NoWatch, IsWatched, NoPid, Watched, Pid
  <1>2. watched' = [watched EXCEPT ![a] = [watched[a] EXCEPT !.timer = "elapsed"]]
    BY DEF Elapse, TypeOK
  <1>3. [watched[a] EXCEPT !.timer = "elapsed"] \in Watched
    BY <1>1 DEF Watched, Timer
  <1>4. watched' \in [Alias -> Watched \cup {NoWatch}]
    BY <1>2, <1>3 DEF TypeOK
  <1>5. \A b \in Alias : IsWatched(b)' <=> IsWatched(b)
    BY <1>1, <1>2 DEF IsWatched, TypeOK, Watched
  <1> QED
    BY <1>4, <1>5 DEF Elapse, TypeOK, NamesAreAliases, ScannedAreWatched

LEMMA TypeInvExit ==
    ASSUME TypeInv, NEW p \in Pid, Exit(p)
    PROVE  TypeInv'
  <1> USE DEF TypeInv
  <1>1. PICK code \in ExitCode \cup {NoCode} :
          proc' = [proc EXCEPT ![p].state = "exited", ![p].code = code,
                               ![p].def = NoService]
    BY DEF Exit
  <1>2. proc[p] \in Process
    BY DEF TypeOK
  <1>3. [proc[p] EXCEPT !.state = "exited", !.code = code, !.def = NoService]
          \in Process
    BY <1>2 DEF Process
  <1>4. proc' = [proc EXCEPT ![p] = [proc[p] EXCEPT
                   !.state = "exited", !.code = code, !.def = NoService]]
    BY <1>1, <1>2 DEF TypeOK, Process
  <1>5. proc' \in [Pid -> Process]
    BY <1>3, <1>4 DEF TypeOK
  <1> QED
    BY <1>5
    DEF Exit, TypeOK, NamesAreAliases, ScannedAreWatched, IsWatched

-----------------------------------------------------------------------------
(* The job operations. *)

LEMMA TimerTypes ==
    ASSUME NEW a \in Alias, TypeOK, NEW secs \in Nat
    PROVE  /\ NewTimer(secs) \in Timer
           /\ IsWatched(a) =>
                [watched[a] EXCEPT !.timer = NewTimer(secs)] \in Watched
  <1>1. NewTimer(secs) \in Timer
    BY DEF NewTimer, Timer
  <1> QED BY <1>1, WatchedTypes DEF Watched

LEMMA CreateJobType ==
    ASSUME TypeOK, NEW a \in Alias
    PROVE  CreateJob(a) \in Job /\ ResetJobRetries(CreateJob(a)) \in Job
  <1>1. CreateJob(a) \in Job
    BY JobTypes DEF CreateJob, TypeOK
  <1> QED BY <1>1, ServicesAssumption DEF ResetJobRetries, Job

LEMMA StartJobTypes ==
    ASSUME TypeOK, NEW a \in Alias, NEW job \in Job,
           StartJob(a, job) \/ StartFails(a, job)
    PROVE  /\ jobs' \in [Alias -> Job]
           /\ watched' \in [Alias -> Watched \cup {NoWatch}]
           /\ tees' \in [Alias -> Pid \cup {NoPid}]
           /\ proc' \in [Pid -> Process]
           /\ history' \in History
           /\ \A b \in Alias : IsWatched(b) => IsWatched(b)'
  <1>1. CASE StartFails(a, job)
    BY <1>1 DEF StartFails, TypeOK, IsWatched
  <1>2. CASE StartJob(a, job)
    <2>1. PICK p \in Pid :
            /\ proc' = [proc EXCEPT ![p] = [Unborn EXCEPT
                          !.state = "alive", !.alias = a, !.def = services[a]]]
            /\ jobs' = [jobs EXCEPT ![a] = [job EXCEPT !.status = "Starting",
                                                       !.stdin = p]]
            /\ watched' = [watched EXCEPT ![a] =
                             [pid |-> p, prev |-> "Starting",
                              timer |-> NewTimer(services[a].startTime)]]
            /\ tees' \in CreateTee(a, p)
      BY <1>2 DEF StartJob
    <2>2. services[a] \in Service /\ services[a].startTime \in Nat
      BY <1>2 DEF StartJob, TypeOK, Table, Service
    <2>3. [Unborn EXCEPT !.state = "alive", !.alias = a, !.def = services[a]]
            \in Process
      BY <2>2, JobTypes DEF Process
    <2>4. [job EXCEPT !.status = "Starting", !.stdin = p] \in Job
      BY DEF Job, Status, Live
    <2>5. [pid |-> p, prev |-> "Starting",
           timer |-> NewTimer(services[a].startTime)] \in Watched
      BY <2>2, TimerTypes DEF Watched, Status, Live
    <2>6. tees' \in [Alias -> Pid \cup {NoPid}]
      BY <2>1 DEF CreateTee, TypeOK
    <2>7. history' \in History
      BY <1>2 DEF StartJob, TypeOK, History
    <2>8. \A b \in Alias : IsWatched(b) => IsWatched(b)'
      BY <2>1 DEF IsWatched, TypeOK, Pid, NoPid
    <2> QED
      BY <2>1, <2>3, <2>4, <2>5, <2>6, <2>7, <2>8 DEF TypeOK
  <1> QED BY <1>1, <1>2

LEMMA StopOutcomeType ==
    ASSUME NEW a \in Alias, NEW flags \in SUBSET Flag
    PROVE  StopOutcome(a, flags) \in Outcome
  BY DEF StopOutcome, Outcome

LEMMA StopRequestTypes ==
    ASSUME TypeInv, NEW call \in Call, StopRequest(call)
    PROVE  /\ services' \in Table
           /\ NamesAreAliases'
           /\ jobs' \in [Alias -> Job]
           /\ watched' \in [Alias -> Watched \cup {NoWatch}]
           /\ orch' \in OrchState
           /\ PidsKept
  <1> DEFINE a == call.alias
  <1>1. a \in Alias /\ call.flags \in SUBSET Flag
    BY DEF Call
  <1>2. AtReturn(call, StopOutcome(a, call.flags)) \in OrchState
    BY <1>1, StopOutcomeType DEF AtReturn, OrchState
  <1>3. CASE StopLiveJob(call)
    <2>0. jobs[a] \in Job
      BY <1>1 DEF TypeInv, TypeOK
    <2>1. [jobs[a] EXCEPT !.status = "Stopping", !.flags = call.flags] \in Job
      BY <1>1, <2>0 DEF Job, Status
    <2>2. jobs' = [jobs EXCEPT ![a] =
                     [jobs[a] EXCEPT !.status = "Stopping", !.flags = call.flags]]
      BY <1>1, <1>3 DEF StopLiveJob, TypeInv, TypeOK
    <2>3. jobs' \in [Alias -> Job]
      BY <2>1, <2>2 DEF TypeInv, TypeOK
    <2>4. CASE services[a] # NoService /\ IsWatched(a)
      <3>1. services[a].stopWait \in Nat
        BY <1>1, <2>4 DEF TypeInv, TypeOK, Table, Service
      <3>2. /\ watched' = [watched EXCEPT ![a] =
                 [watched[a] EXCEPT !.timer = NewTimer(services[a].stopWait)]]
            /\ orch' = AtKill(call, watched[a].pid)
        BY <1>3, <2>4 DEF StopLiveJob
      <3>3. [watched[a] EXCEPT !.timer = NewTimer(services[a].stopWait)]
               \in Watched
        BY <1>1, <2>4, <3>1, TimerTypes DEF TypeInv
      <3>4. orch' \in OrchState
        BY <1>1, <2>4, <3>2, WatchedTypes DEF AtKill, OrchState, TypeInv
      <3>5. PidsKept
        BY <1>1, <3>2, <2>4, WatchedTypes
        DEF PidsKept, TypeInv, TypeOK, Watched
      <3> QED
        BY <1>3, <2>3, <3>2, <3>3, <3>4, <3>5
        DEF StopLiveJob, TypeInv, TypeOK, NamesAreAliases
    <2>5. CASE ~(services[a] # NoService /\ IsWatched(a))
      BY <1>2, <1>3, <2>3, <2>5
      DEF StopLiveJob, TypeInv, TypeOK, NamesAreAliases, PidsKept
    <2> QED BY <2>4, <2>5
  <1>4. CASE StopIdleJob(call)
    BY <1>1, <1>2, <1>4
    DEF StopIdleJob, TypeInv, TypeOK, Table, NamesAreAliases, PidsKept
  <1> QED BY <1>3, <1>4 DEF StopRequest

LEMMA TypeInvKill ==
    ASSUME TypeInv, KillForStop \/ KillForTimeOut
    PROVE  TypeInv'
  <1> USE DEF TypeInv
  <1>1. orch.pid \in Pid /\ (orch.pc = "kill" => orch.call \in Call)
    BY OrchShape DEF KillForStop, KillForTimeOut, TypeOK
  <1>2. PICK sig \in {"stop", "kill"} : Signal(orch.pid, sig)
    BY DEF KillForStop, KillForTimeOut
  <1>3. [proc[orch.pid] EXCEPT !.signal = sig] \in Process
    BY <1>1 DEF TypeOK, Process
  <1>4. proc' \in [Pid -> Process]
    BY <1>1, <1>2, <1>3 DEF Signal, TypeOK
  <1>5. orch' \in OrchState
    BY <1>1 DEF KillForStop, KillForTimeOut, AtReturn, KillOutcome, OrchState,
                Outcome
  <1> QED
    BY <1>4, <1>5
    DEF KillForStop, KillForTimeOut, TypeOK, NamesAreAliases,
        ScannedAreWatched, IsWatched

-----------------------------------------------------------------------------
(* The event handlers. *)

LEMMA EventHead ==
    ASSUME TypeOK, NEW status, Receive(status)
    PROVE  /\ Head(queue).alias \in Alias
           /\ Head(queue).code \in ExitCode
           /\ Head(queue).pid \in Pid
           /\ queue' \in Seq(Message)
  BY QueueHead, MessageShape DEF Receive, TypeOK

LEMMA TypeInvEventDropped ==
    ASSUME TypeInv, EventDropped
    PROVE  TypeInv'
  BY EventHead
  DEF EventDropped, TypeInv, TypeOK, NamesAreAliases, ScannedAreWatched,
      IsWatched

LEMMA StatusUpdate ==
    ASSUME jobs \in [Alias -> Job], NEW a \in Alias, NEW st \in Status
    PROVE  [jobs EXCEPT ![a].status = st] \in [Alias -> Job]
  <1>1. jobs[a] \in Job
    OBVIOUS
  <1>2. [jobs[a] EXCEPT !.status = st] \in Job
    BY <1>1 DEF Job
  <1> QED BY <1>2

LEMMA TypeInvEventRunning ==
    ASSUME TypeInv, EventRunning
    PROVE  TypeInv'
  <1> USE DEF TypeInv
  <1> DEFINE a == Head(queue).alias
  <1>1. a \in Alias /\ queue' \in Seq(Message)
    BY EventHead DEF EventRunning
  <1>2. \A st \in Status : [jobs EXCEPT ![a].status = st] \in [Alias -> Job]
    BY <1>1, StatusUpdate DEF TypeOK
  <1>3. jobs' \in [Alias -> Job]
    BY <1>1, <1>2 DEF EventRunning, Status, Live
  <1> QED
    BY <1>1, <1>3
    DEF EventRunning, TypeOK, NamesAreAliases, ScannedAreWatched, IsWatched

LEMMA CountRetryType ==
    ASSUME TypeOK, NEW a \in Alias
    PROVE  CountRetry(a) \in 0 .. U8 - 1
  BY ServicesAssumption DEF CountRetry, TypeOK, Job

LEMMA FinishTypes ==
    ASSUME TypeInv, NEW a \in Alias, NEW code,
           orch \in OrchState,
           FinishStopping(a) \/ FinishByItself(a, code)
    PROVE  /\ jobs' \in [Alias -> Job]
           /\ services' \in Table
           /\ NamesAreAliases'
           /\ orch' \in OrchState
  <1> USE DEF TypeInv
  <1>1. jobs[a] \in Job
    BY DEF TypeOK
  <1>2. orch' \in OrchState
    BY DEF FinishStopping, FinishByItself, RestartIf, AtRestart, OrchState
  <1>3. CASE FinishStopping(a)
    <2>1. [jobs[a] EXCEPT !.status = "Finished", !.flags = {}] \in Job
      BY <1>1 DEF Job, Status
    <2>2. jobs' = [jobs EXCEPT ![a] =
                     [jobs[a] EXCEPT !.status = "Finished", !.flags = {}]]
      BY <1>3 DEF FinishStopping, TypeOK
    <2>3. services' = services \/ services' = [services EXCEPT ![a] = NoService]
      BY <1>3 DEF FinishStopping
    <2>4. services' \in Table /\ NamesAreAliases'
      BY <2>3 DEF TypeOK, Table, NamesAreAliases
    <2> QED BY <1>2, <2>1, <2>2, <2>4 DEF TypeOK
  <1>4. CASE FinishByItself(a, code)
    <2>1. [jobs[a] EXCEPT !.status = "Finished", !.retries = CountRetry(a)] \in Job
      BY <1>1, CountRetryType DEF Job, Status
    <2>2. jobs' = [jobs EXCEPT ![a] =
            [jobs[a] EXCEPT !.status = "Finished", !.retries = CountRetry(a)]]
      BY <1>4 DEF FinishByItself, TypeOK
    <2> QED
      BY <1>2, <1>4, <2>1, <2>2
      DEF FinishByItself, TypeOK, NamesAreAliases
  <1> QED BY <1>3, <1>4

LEMMA TypeInvEventFinished ==
    ASSUME TypeInv, EventFinished
    PROVE  TypeInv'
  <1> USE DEF TypeInv
  <1> DEFINE e == Head(queue)
  <1>1. e.alias \in Alias /\ queue' \in Seq(Message)
    BY EventHead DEF EventFinished
  <1>2. Forget(e.alias) /\ (FinishStopping(e.alias) \/ FinishByItself(e.alias, e.code))
    BY DEF EventFinished
  <1>3. /\ jobs' \in [Alias -> Job] /\ services' \in Table
        /\ NamesAreAliases' /\ orch' \in OrchState
    BY <1>1, <1>2, FinishTypes DEF TypeOK
  <1>4. /\ watched' \in [Alias -> Watched \cup {NoWatch}]
        /\ tees' \in [Alias -> Pid \cup {NoPid}]
        /\ scanning = {}
    BY <1>1, <1>2 DEF Forget, TypeOK, LockFree
  <1> QED
    BY <1>1, <1>3, <1>4 DEF EventFinished, TypeOK, ScannedAreWatched

LEMMA TimeOutTypes ==
    ASSUME TypeInv, EventTimedOut
    PROVE  /\ watched' \in [Alias -> Watched \cup {NoWatch}]
           /\ orch' \in OrchState
           /\ PidsKept
  <1> USE DEF TypeInv
  <1> DEFINE a == Head(queue).alias
  <1>1. a \in Alias
    BY EventHead DEF EventTimedOut
  <1>2. TimeOutLive(a) \/ TimeOutStopping(a) \/ TimeOutIdle(a)
    BY DEF EventTimedOut
  <1>3. CASE ~IsWatched(a) \/ TimeOutIdle(a)
    BY <1>2, <1>3
    DEF TimeOutLive, TimeOutStopping, TimeOutIdle, TypeOK, PidsKept
  <1>4. CASE IsWatched(a) /\ TimeOutLive(a)
    <2>1. [watched[a] EXCEPT !.timer = "none"] \in Watched
      BY <1>1, <1>4, WatchedTypes DEF Watched, Timer
    <2>2. watched' = [watched EXCEPT ![a] = [watched[a] EXCEPT !.timer = "none"]]
      BY <1>1, <1>4 DEF TimeOutLive, TypeOK
    <2>3. PidsKept
      BY <1>1, <1>4, <2>2, WatchedTypes DEF PidsKept, TypeOK, Watched
    <2> QED
      BY <1>4, <2>1, <2>2, <2>3 DEF TimeOutLive, TypeOK
  <1>5. CASE IsWatched(a) /\ TimeOutStopping(a)
    <2> DEFINE timer == NewTimer(services[a].stopWait)
    <2>1. services[a].stopWait \in Nat
      BY <1>1 DEF EventTimedOut, Known, TypeOK, Table, Service
    <2>2. [watched[a] EXCEPT !.timer = timer] \in Watched
      BY <1>1, <1>5, <2>1, TimerTypes
    <2>3. watched' = [watched EXCEPT ![a] = [watched[a] EXCEPT !.timer = timer]]
      BY <1>1, <1>5 DEF TimeOutStopping, TypeOK
    <2>4. orch' \in OrchState
      BY <1>1, <1>5, WatchedTypes DEF TimeOutStopping, AtEscalate, OrchState
    <2>5. PidsKept
      BY <1>1, <1>5, <2>3, WatchedTypes DEF PidsKept, TypeOK, Watched
    <2> QED
      BY <2>2, <2>3, <2>4, <2>5 DEF TypeOK
  <1> QED BY <1>2, <1>3, <1>4, <1>5

LEMMA TypeInvEventTimedOut ==
    ASSUME TypeInv, EventTimedOut
    PROVE  TypeInv'
  <1> USE DEF TypeInv
  <1> DEFINE a == Head(queue).alias
  <1>1. a \in Alias /\ queue' \in Seq(Message)
    BY EventHead DEF EventTimedOut
  <1>2. \A st \in Status : [jobs EXCEPT ![a].status = st] \in [Alias -> Job]
    BY <1>1, StatusUpdate DEF TypeOK
  <1>3. jobs' \in [Alias -> Job]
    BY <1>2
    DEF EventTimedOut, TimeOutLive, TimeOutStopping, TimeOutIdle, Status, Live
  <1> QED
    BY <1>1, <1>3, TimeOutTypes
    DEF EventTimedOut, TypeOK, NamesAreAliases, ScannedAreWatched, PidsKept,
        IsWatched

LEMMA TypeInvRestartJob ==
    ASSUME TypeInv, RestartJob
    PROVE  TypeInv'
  <1> USE DEF TypeInv
  <1>1. orch.alias \in Alias
    BY OrchShape DEF RestartJob, TypeOK
  <1>2. /\ jobs' \in [Alias -> Job]
        /\ watched' \in [Alias -> Watched \cup {NoWatch}]
        /\ tees' \in [Alias -> Pid \cup {NoPid}]
        /\ proc' \in [Pid -> Process]
        /\ history' \in History
        /\ \A b \in Alias : IsWatched(b) => IsWatched(b)'
    BY <1>1, CreateJobType, StartJobTypes DEF RestartJob
  <1> QED
    BY <1>2
    DEF RestartJob, TypeOK, OrchState, NamesAreAliases, ScannedAreWatched

-----------------------------------------------------------------------------
(* The request handlers. *)

LEMMA RequestHead ==
    ASSUME TypeOK, NEW act, ReceiveRequest(act)
    PROVE  /\ Head(queue).client \in Client
           /\ act # "Reload" => Head(queue).alias \in Alias
           /\ queue' \in Seq(Message)
  BY QueueHead, MessageShape DEF ReceiveRequest, TypeOK

LEMMA AnswerTypes ==
    ASSUME TypeOK, NEW c \in Client, Answer(c)
    PROVE  client' \in [Client -> {"idle", "waiting"}] /\ orch' \in OrchState
  BY DEF Answer, TypeOK, OrchState

LEMMA TypeInvStart ==
    ASSUME TypeInv, StartUnknown \/ StartService \/ StartNext \/ StartDone
    PROVE  TypeInv'
  <1> USE DEF TypeInv
  <1>1. CASE StartUnknown
    BY <1>1, RequestHead, AnswerTypes
    DEF StartUnknown, TypeOK, NamesAreAliases, ScannedAreWatched, IsWatched
  <1>2. CASE StartService
    <2> DEFINE r == Head(queue)
    <2>1. r.client \in Client /\ r.alias \in Alias /\ queue' \in Seq(Message)
      BY <1>2, RequestHead DEF StartService
    <2>2. orch' = AtStart(r.client,
                          GenerateAliasNames(r.alias, services[r.alias].numprocs))
          /\ services[r.alias] # NoService
      BY <1>2 DEF StartService
    <2>3. orch' \in OrchState
      BY <2>1, <2>2 DEF NamesAreAliases, AtStart, OrchState
    <2> QED
      BY <1>2, <2>1, <2>3
      DEF StartService, TypeOK, NamesAreAliases, ScannedAreWatched, IsWatched
  <1>3. CASE StartNext
    <2> DEFINE a == Head(orch.todo)
               job == ResetJobRetries(CreateJob(a))
    <2>1. /\ orch.client \in Client /\ orch.todo \in Seq(Alias)
          /\ a \in Alias /\ Tail(orch.todo) \in Seq(Alias)
      BY <1>3, OrchShape, HeadTailProperties DEF StartNext, TypeOK
    <2>2. StartJob(a, job) \/ StartFails(a, job)
      BY <1>3 DEF StartNext
    <2>3. /\ jobs' \in [Alias -> Job]
          /\ watched' \in [Alias -> Watched \cup {NoWatch}]
          /\ tees' \in [Alias -> Pid \cup {NoPid}]
          /\ proc' \in [Pid -> Process]
          /\ history' \in History
          /\ \A b \in Alias : IsWatched(b) => IsWatched(b)'
      BY <2>1, <2>2, CreateJobType, StartJobTypes
    <2>4. client' \in [Client -> {"idle", "waiting"}] /\ orch' \in OrchState
      <3>1. CASE Answer(orch.client)
        BY <2>1, <3>1, AnswerTypes
      <3>2. CASE orch' = AtStart(orch.client, Tail(orch.todo)) /\ UNCHANGED client
        BY <2>1, <3>2 DEF AtStart, OrchState, TypeOK
      <3> QED BY <1>3, <3>1, <3>2 DEF StartNext
    <2> QED
      BY <1>3, <2>3, <2>4
      DEF StartNext, TypeOK, NamesAreAliases, ScannedAreWatched
  <1>4. CASE StartDone
    BY <1>4, OrchShape, AnswerTypes
    DEF StartDone, TypeOK, NamesAreAliases, ScannedAreWatched, IsWatched
  <1> QED BY <1>1, <1>2, <1>3, <1>4

LEMMA RequestCallType ==
    ASSUME NEW c \in Client, NEW a \in Alias, NEW flags \in SUBSET Flag
    PROVE  RequestCall(c, a, flags) \in Call
  BY DEF RequestCall, Call

(* What a step that ends in stop_request leaves to be shown. *)
LEMMA TypeInvStopRequest ==
    ASSUME TypeInv, NEW call \in Call, StopRequest(call),
           queue' \in Seq(Message),
           UNCHANGED <<scanning, tees, proc, client, sent, history>>
    PROVE  TypeInv'
  BY StopRequestTypes
  DEF TypeInv, TypeOK, ScannedAreWatched, PidsKept, IsWatched

LEMMA TypeInvStopRestart ==
    ASSUME TypeInv, StopService \/ ReceiveRestart \/ RestartService
    PROVE  TypeInv'
  <1> USE DEF TypeInv
  <1>1. CASE StopService
    BY <1>1, RequestHead, RequestCallType, TypeInvStopRequest DEF StopService
  <1>2. CASE ReceiveRestart
    <2> DEFINE r == Head(queue)
               call == RequestCall(r.client, r.alias, {"restart_job"})
    <2>1. r.client \in Client /\ r.alias \in Alias /\ queue' \in Seq(Message)
      BY <1>2, RequestHead DEF ReceiveRestart
    <2>2. orch' = AtStop(call) /\ call \in Call
      BY <1>2, <2>1, RequestCallType DEF ReceiveRestart, Flag
    <2>3. orch' \in OrchState
      BY <2>2 DEF AtStop, OrchState
    <2>4. jobs' \in [Alias -> Job]
      <3>1. jobs[r.alias] \in Job
        BY <2>1 DEF TypeOK
      <3>2. [jobs[r.alias] EXCEPT !.retries = 0] \in Job
        BY <3>1, ServicesAssumption DEF Job
      <3>3. jobs' = [jobs EXCEPT ![r.alias] = [jobs[r.alias] EXCEPT !.retries = 0]]
        BY <1>2 DEF ReceiveRestart
      <3> QED BY <3>2, <3>3 DEF TypeOK
    <2> QED
      BY <1>2, <2>1, <2>3, <2>4
      DEF ReceiveRestart, TypeOK, NamesAreAliases, ScannedAreWatched, IsWatched
  <1>3. CASE RestartService
    BY <1>3, OrchShape, TypeInvStopRequest DEF RestartService, TypeOK
  <1> QED BY <1>1, <1>2, <1>3

LEMMA UpdateTypes ==
    ASSUME TypeOK, NamesAreAliases, NEW new \in Catalog
    PROVE  /\ Updated(services, new) \in Table
           /\ Changes(services, new) \in SUBSET Change
           /\ \A a \in Alias :
                LET s == Updated(services, new)[a]
                IN  s # NoService => GenerateAliasNames(a, s.numprocs) \in Seq(Alias)
  <1>1. new \in Table
    BY CatalogAssumption
  <1>2. Updated(services, new) \in Table
    BY <1>1 DEF Updated, TypeOK, Table
  <1>3. Changes(services, new) \in SUBSET Change
    BY DEF Changes, Change
  <1> QED
    BY <1>2, <1>3, CatalogAssumption DEF Updated, NamesAreAliases

LEMMA TypeInvReload ==
    ASSUME TypeInv, ReloadFails \/ Reload \/ ReloadNext \/ ReloadDone
    PROVE  TypeInv'
  <1> USE DEF TypeInv
  <1>1. CASE ReloadFails
    BY <1>1, RequestHead, AnswerTypes
    DEF ReloadFails, TypeOK, NamesAreAliases, ScannedAreWatched, IsWatched
  <1>2. CASE Reload
    <2>1. PICK new \in Catalog :
            /\ services' = Updated(services, new)
            /\ orch' = AtReload(Head(queue).client, Changes(services, new))
      BY <1>2 DEF Reload
    <2>2. Head(queue).client \in Client /\ queue' \in Seq(Message)
      BY <1>2, RequestHead DEF Reload
    <2>3. services' \in Table /\ NamesAreAliases'
      BY <2>1, UpdateTypes DEF NamesAreAliases
    <2>4. orch' \in OrchState
      BY <2>1, <2>2, UpdateTypes DEF AtReload, OrchState
    <2>5. history' \in History
      BY <1>2, <2>1 DEF Reload, TypeOK, History, Changes, Change
    <2> QED
      BY <1>2, <2>2, <2>3, <2>4, <2>5
      DEF Reload, TypeOK, ScannedAreWatched, IsWatched
  <1>3. CASE ReloadNext
    <2>1. orch.client \in Client /\ orch.todo \in SUBSET Change
      BY <1>3, OrchShape DEF ReloadNext, TypeOK
    <2>2. PICK change \in NextChanges : StopRequest(ReloadCall(change))
      BY <1>3 DEF ReloadNext
    <2>3. change \in Change
      BY <2>1 DEF NextChanges
    <2>4. ReloadCall(change) \in Call
      BY <2>1, <2>3 DEF ReloadCall, Call, Change, Flag
    <2> QED
      BY <1>3, <2>2, <2>4, TypeInvStopRequest DEF ReloadNext, TypeOK
  <1>4. CASE ReloadDone
    BY <1>4, OrchShape, AnswerTypes
    DEF ReloadDone, TypeOK, NamesAreAliases, ScannedAreWatched, IsWatched
  <1> QED BY <1>1, <1>2, <1>3, <1>4

LEMMA TypeInvReturn ==
    ASSUME TypeInv,
           ReturnToRequest \/ ReloadRestarted \/ ReloadForgetsJob
             \/ ReloadForgetsService \/ ReloadBreaks
    PROVE  TypeInv'
  <1> USE DEF TypeInv
  <1> DEFINE a == orch.call.alias
  <1>1. /\ orch.call \in Call
        /\ orch.call.client \in Client /\ a \in Alias
        /\ orch.call.todo \in SUBSET Change
    BY OrchShape
    DEF ReturnToRequest, ReloadRestarted, ReloadForgetsJob,
        ReloadForgetsService, ReloadBreaks, ReturnToReload, TypeOK, Call
  <1>2. AtReload(orch.call.client, orch.call.todo) \in OrchState
    BY <1>1 DEF AtReload, OrchState
  <1>3. CASE ReturnToRequest
    BY <1>1, <1>3, AnswerTypes
    DEF ReturnToRequest, TypeOK, NamesAreAliases, ScannedAreWatched, IsWatched
  <1>4. CASE ReloadRestarted
    BY <1>2, <1>4
    DEF ReloadRestarted, ReturnToReload, TypeOK, NamesAreAliases,
        ScannedAreWatched, IsWatched
  <1>5. CASE ReloadForgetsJob
    <2>1. jobs' \in [Alias -> Job]
      BY <1>1, <1>5, JobTypes DEF ReloadForgetsJob, TypeOK
    <2>2. history' \in History
      BY <1>1, <1>5 DEF ReloadForgetsJob, TypeOK, History
    <2> QED
      BY <1>2, <1>5, <2>1, <2>2
      DEF ReloadForgetsJob, ReturnToReload, TypeOK, NamesAreAliases,
          ScannedAreWatched, IsWatched
  <1>6. CASE ReloadForgetsService
    BY <1>1, <1>2, <1>6
    DEF ReloadForgetsService, ReturnToReload, TypeOK, Table, NamesAreAliases,
        ScannedAreWatched, IsWatched
  <1>7. CASE ReloadBreaks
    <2>1. history' \in History
      BY <1>1, <1>7 DEF ReloadBreaks, TypeOK, Change, History
    <2> QED
      BY <1>1, <1>7, <2>1, AnswerTypes
      DEF ReloadBreaks, TypeOK, NamesAreAliases, ScannedAreWatched, IsWatched
  <1> QED BY <1>3, <1>4, <1>5, <1>6, <1>7

-----------------------------------------------------------------------------
LEMMA TypeInvStep == TypeInv /\ [Next]_vars => TypeInv'
  <1> SUFFICES ASSUME TypeInv, [Next]_vars PROVE TypeInv'
    OBVIOUS
  <1>1. CASE SendJobRequest \/ SendReload
    BY <1>1, TypeInvSend
  <1>2. CASE Orchestrator
    BY <1>2, TypeInvStart, TypeInvStopRestart, TypeInvReload, TypeInvReturn,
       TypeInvKill, TypeInvEventDropped, TypeInvEventRunning,
       TypeInvEventFinished, TypeInvEventTimedOut, TypeInvRestartJob
    DEF Orchestrator, ManageEvent
  <1>3. CASE BeginScan \/ \E a \in Alias : ScanJob(a) \/ Elapse(a)
    <2>1. CASE BeginScan
      BY <2>1
      DEF BeginScan, TypeInv, TypeOK, NamesAreAliases, ScannedAreWatched,
          IsWatched
    <2>2. CASE \E a \in Alias : ScanJob(a) \/ Elapse(a)
      BY <2>2, TypeInvScan, TypeInvElapse
    <2> QED BY <1>3, <2>1, <2>2
  <1>4. CASE \E p \in Pid : Exit(p)
    BY <1>4, TypeInvExit
  <1>5. CASE UNCHANGED vars
    BY <1>5
    DEF vars, TypeInv, TypeOK, NamesAreAliases, ScannedAreWatched, IsWatched
  <1> QED BY <1>1, <1>2, <1>3, <1>4, <1>5 DEF Next

THEOREM TypeInvariant == Spec => []TypeInv
  BY TypeInvInit, TypeInvStep, PTL DEF Spec

(* Every variable keeps its type.  What matters of it: no name of a group  *)
(* is outside the service table's names, and no scan looks at an alias     *)
(* whose process the orchestrator has taken out of the table.              *)
THEOREM TypeCorrect == Spec => []TypeOK
  <1>1. TypeInv => TypeOK
    BY DEF TypeInv
  <1> QED BY <1>1, TypeInvariant, PTL
=============================================================================
