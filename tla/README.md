# taskmeister: a verification project

taskmeister is a process supervisor: a server that keeps a table of services
loaded from TOML files, starts their processes, watches them, restarts them
according to a policy, and answers a command-line client over TCP. These modules
model its core in TLA+, check it with TLC on small instances and prove some of
its properties with TLAPS.

Source paths below are relative to `src/src/` unless they start with `src/`.

## 1. The system

### Components, their state and their operations

| Component | State | Operations | Talks to |
|---|---|---|---|
| service registry, `server/service.rs`, `lib.rs:94` | `Services.services`: alias to `Service`; the files on disk | `load_services`, `update`, `get`, `remove`, `validate_exit_code`, `generate_alias_names` | owned by the orchestrator |
| orchestrator, `server/orchestrate.rs` | `jobs`: alias to `Job` (status, retries, flags, stdin); the receiving end of the message channel | one handler per request: Start, Stop, Restart, Reload, Status, List, Attach, Detach, Input, Help | receives requests of the connections and events of the watcher over **one** mpsc channel; shares the watched table with the watcher; sends requests to the I/O router |
| job operations, `server/jobs.rs` | the jobs, the watched table | `start_request`/`start_job`, `stop_request`/`stop_job`/`kill_job`, `attach_job`, `detach_job`, `forward_stdin_job` | the operating system: `spawn`, `kill(2)` |
| event handler, `server/events.rs` | the jobs, the watched table | `manage_event`: Running, Finished, TimedOut | the router: StopForwarding, Remove |
| watcher thread, `server/watcher.rs` | `watched`: alias to child process, timer, previous status, behind a mutex | every 100 ms one scan of the whole table with the mutex held: time-out or `try_wait`, and an event for a change | sends events to the orchestrator |
| I/O router thread, `server/io_router.rs` | `ios`: alias to `Tee` (pipes, forward channels, ring buffers, log files) | Create, Remove, ReadBuff, StartForwarding, StopForwarding; reads the pipes every 100 ms | writes to the bounded channel of an attached client's forwarder thread |
| connections, start-up, SIGHUP thread, `server/main.rs` | one thread per client | `process_request`, `startup_services`, `sighup_reload_config_init` | send a request with a response channel, wait until it closes |
| client, `client/*.rs` | a socket, the line editor | sends a command, reads answers until one is no stream; while attached forwards its stdin | the server |
| logger, `src/logger/src/lib.rs` | a channel and a thread | `send`, `log_loop`, `timestamp` | none of the others depends on it |
| configuration and directories, `server/config.rs`, `dir_utils.rs` | none | read once at start-up | |

### What makes it hard

* **Two threads and one table.** The watcher holds the mutex for a scan and the
  orchestrator takes it for each access on its own. `kill_job` collects the pids
  under the mutex and signals them after it, so a process can be reaped in
  between (`jobs.rs:166-183`). `start_request` and `stop_request` say that "at
  this point event loop will have moved the job out from the watcher".
* **Events travel through a queue, and name only an alias.** Between the moment
  the watcher sends an event and the moment the orchestrator handles it, requests
  may stop or restart the job, a timer may run out, a reload may forget the job
  or remove its service.
* **A timer has two meanings.** Before a stop it is `start_time` (the job is
  healthy when it runs out), after a stop it is `stop_wait` (SIGKILL). The handler
  tells them apart by the status of the job alone.
* **Reload applies several changes, one after another**, stops at the first
  error, and commits the new table before the first of them.
* **Processes** end at any moment, with any code or by a signal; they may fail
  to start.
* **Names.** A service of several processes occupies virtual names, which may
  clash with names in other files.

### What makes each component correct

* registry: a load refuses exactly the directories in which a name is defined
  twice, whatever the order of the walk; an update loses nothing; every member of
  a group has a definition.
* orchestrator, watcher: a process in the table has a job and a service that can
  act on its end; a process that is alive is in the table; its end is reported and
  handled; an event is applied to the process it speaks of; a job that is refused
  has a process; SIGKILL waits for `stop_wait`; a stopped job ends; only a service
  that has disappeared is removed; the retry counter never wraps; every request is
  answered; a reload leaves no process with an outdated definition.
* connections and client: an answer is taken for that to the command it answers;
  the prompt comes back; a SIGHUP is never lost.
* logger: the date is that of the calendar.
* router: the output of a job is that of its current process; a client that
  attaches is forwarded until it detaches or the process ends; output that was
  written before the end is delivered.

## 2. The modules

    Services <- TaskState <- Watcher <- Jobs <- Events <- Orchestrate
                                                             ^
                                     ServerProperties ------/
                                       ^          ^
                                 MCServer      ServerProofs <- SupervisionProofs
                                                                     ^
                                                               ProcessProofs

    Services <- ServiceFiles <- MCServiceFiles
                     ^
              ServiceFilesProofs

    IoRouter <- IoRouterProperties <- MCIoRouter
                     | INSTANCE  ^
                 Attachment      |
                            RouterProofs <- StreamProofs

    Connections <- ConnectionsProperties <- MCConnections
                             ^
                     ConnectionsProofs

    Timestamp <- TimestampProofs

(`A <- B`: B EXTENDS A.)

| Module | Models | Correspondence |
|---|---|---|
| `Services` | `server/service.rs`, `lib.rs:94` | Pure operators. A table is a total function with `NoService` for a missing entry. An alias is a sequence: `"web"` is `<<"web">>`, the formatted `"web.1"` is `<<"web", 1>>`. `version` stands for the fields that are only compared. |
| `TaskState` | the structs of all the server's threads | VARIABLES, types, `Init`, `TypeOK`. A missing job has status `Absent`, a missing entry of the watched table pid 0. |
| `Watcher` | `server/watcher.rs` | `BeginScan` takes the mutex, `ScanTimedOut`/`ScanPoll` visit one job, the last visit frees the mutex. `Elapse` and `Exit` are time and the operating system. |
| `Jobs` | `server/jobs.rs` | `StartJob`/`StartFails` and `StopRequest` are whole functions used by the handlers. `KillForStop`/`KillForTimeOut` are the part of `kill_job` after the mutex. |
| `Events` | `server/events.rs` | One action per branch of `manage_event`; `RestartJob` is the `start_request` at its end. |
| `Orchestrate` | `server/orchestrate.rs`, the senders in `server/main.rs` | One action per branch of the dispatch, and one per turn of its loops; `Next`, `Spec`, `Fairness`. |
| `ServerProperties` | | The properties of the server. |
| `ServiceFiles` | `server/service.rs` over directories | `Init` is `Services::new`; `Edit` is somebody at the files, `Update` and `RemoveService` the two calls of the orchestrator. `stopped` has every service that an update has ever told it to stop: the stop, or the end of the job, may call `remove` at any time after, also when a later update has found the service again. |
| `IoRouter` | `server/io_router.rs`, `attach_job` and `detach_job` of `server/jobs.rs` | The router thread (`router.pc`: its requests, the reads of a drain, the reads of all pipes), its unbounded channel, the bounded channel and the forwarder thread of each attachment, the orchestrator's waits for an answer. |
| `Attachment` | | What attach promises, abstractly. |
| `IoRouterProperties` | | The properties of the router, and the refinement mapping to `Attachment`. |
| `Connections` | `client/connection.rs`, the line loop of `client/main.rs`, `server/main.rs`, the dispatch of Start, Attach, Detach and Input in `server/orchestrate.rs`, `forward_stdin_job` | Each thread its own actions: the client's loop (`user`) and stdin thread (`typing`), the connection's thread (`handler`), the writer of an attach (`outbox`), the forwarder of an attach (`stream`), the start-up (`main`), the SIGHUP thread, the orchestrator with its channel (`queue`) and the input it may be stuck in (`orch`). |
| `ConnectionsProperties` | | The properties of commands, answers and signals. |
| `Timestamp` | `timestamp` of `src/logger/src/lib.rs` | The algorithm as operators; a clock with a calendar beside it. |
| `MCServer`, `MCServiceFiles`, `MCIoRouter`, `MCConnections` | | Instances for TLC; every table of a catalog is computed by `LoadServices`. |
| `ServerProofs`, `SupervisionProofs`, `ProcessProofs`, `ConnectionsProofs`, `RouterProofs`, `StreamProofs`, `ServiceFilesProofs`, `TimestampProofs` | | Theorems and proofs. |

### How a handler becomes actions

The orchestrator runs one handler at a time. A handler is one action unless it
releases the mutex between two effects or loops over jobs; `orch.pc` then says
where it is, and only the watcher, the clients, time and the processes move in
between: `start` (the group loop), `kill` and `escalate` (between the mutex and
the signal), `return` (`stop_request` has returned), `reload` (between two
changes), `stop` (after the reset of the retries) and `restart` (before the
`start_request` at the end of an event). Every access to the watched table needs
the mutex, hence the guard `LockFree`.

### Abstractions

* A pid is never used again, and `kill` reaches the process it was meant for.
* `Vec<Watched>` has exactly one element in this code and is modelled as such.
* In the server's model the I/O router applies Create and Remove when they are
  sent, and only the identity of the process whose pipes it reads is kept
  (`tees`). `TeesFollowJobs` of `IoRouter`, where the requests are in a channel,
  says why that is right. Its log files may fail to open: then no Tee is created.
* `IoRouter` in turn keeps of the orchestrator which process a job has, and that
  the handling of a Finished event takes it away. The event is normally that of the
  process itself, which has ended; `NoStaleEvents` of the server's model says so but
  for its two exceptions. For one of them, the timer that overtakes the report of an
  end, `FinishJob` may also take a living process away (`FinishedBy` is then
  `"stale"`); the other, a reload that forgets a job, sends the router nothing. A
  Finished event of a job without a process finds nothing in the router, and is left
  out.
* The orchestrator's wait for an answer of the router also ends with an error if the
  router drops the response channel (`io_router.rs:275` and `316-318`). The router
  answers every such request before it takes the next, so this could happen only if
  its thread panicked, which is left out.
* Output is counted in chunks: what one read takes. A pipe holds `PipeSize` of
  them; the read that frees room in the pipe and the send that may block are one
  step. The ring buffers and log files get what is read and influence nothing.
  Only the process itself writes to its pipes: children that inherited them and
  outlive it are left out.
* A forwarder's connection fails at a write, so only after something was sent.
* Time is a timer that is running, has run out, or has been removed. A timer of
  zero seconds has run out from the start.
* Spawning may always fail; a failure leaves the job as `create_job` made it.
* Process creation, `set_job_stdin`, Create and the insertion into the table are
  one step: between them nobody else can see the new process.
* On disk lies any table of `Catalog` when a reload reads the files, or files
  that cannot be loaded. `ServiceFiles` models how such a table is made.
* In the server's model connections, the SIGHUP thread and the start-up are
  clients: they send one request and wait for the answer. Requests that change no
  state (Status, List, Help) and those of the I/O router (Attach, Detach, Input) are
  not sent.
* `Connections` in turn keeps of the server one job, whose process is alive, has
  exited, has been reported or has finished, and of the router who is attached. A
  StopForwarding takes effect at once; its drain is in `IoRouter`. Clients beyond
  `Client` are seen only as holding or detaching the job. A Stop shows as the end of
  the process that it brings about, Status, List and the like as a Start that is
  refused: all are answered by one part and a closed channel. A reload changes
  nothing here but that it has read the files. One service is configured for the
  start-up. An input is one piece that fits into a pipe or does not.
* A socket takes any amount and fails never (`IoRouter` has a connection that
  fails); an answer is written whole. A client does not quit.
* `ServiceAction::Start` is never among the changes of a reload (`update`
  returns Restart and Stop only), so that branch is dead and left out; so are
  the branches of `manage_event` for events no thread sends (`events.rs:29-32`).
* Retries are counted modulo `U8`: a release build wraps, a debug build panics.

Some fields are history and steer nothing: the pid in an event, `signal`,
`alias` and `def` of a process, and the variable `history`. Its `lost` holds the
aliases whose job a reload has forgotten while the process was under watch,
`missed` those of changes a broken reload did not come to, and `late` those of which a
timer ran out between the report of an end and its handling. Properties that make an
exception for one of them say so: all are real behaviours of the code. `removed_stays` shows
the first, `finished_refused` the third. The second: `Services::update` has committed the
new table when the loop over the changes breaks at an error (`orchestrate.rs:270`),
so the next reload finds no difference and answers OK, while a process of a change
that was not reached still runs its old definition. In `ServiceFiles`, `removed` and
`current` are history.

## 3. The runs

| Run | Asks | States |
|---|---|---|
| `server_reload` | `TypeOK`, `FinishedIsUnwatched`, `WatchedIsManaged`, `IoFollowsProcess`, `ExitIsReported`, `NoStaleEvents`, `NoOrphans`, `RefusedIsWatched`, `RetriesNeverWrap`: one service with a restart policy, whose file changes and disappears | 7.3 M |
| `server_group` | `OutdatedIsSignalled`, with a group of two processes reloaded as one of one | 10.0 M |
| `server_live` | `RequestsAreAnswered`, `ExitIsNoticed`, under fairness | 0.4 M |
| `service_files` | `LoadIsDeclared`, `HeldIsCurrent`, `GroupsAreWhole` | 45 k |
| `io_sessions` | `TypeOK`, `StreamIsWhole`, `AttachedToCurrent`, `TeesFollowJobs`, with two processes, two sessions and a late Finished | 6.4 M |
| `io_live` | `ImplementsAttachment`, and under fairness `WaitsEnd`, `StreamsEnd`, with a Detach, a Status or a late Finished | 0.2 M |
| `connections` | `TypeOK`, `AnswersMatchUnlessFailed`, and under fairness `PromptReturns`, `SignalsAreHeard` | 0.8 M |
| `timestamp` | `TimestampIsCivil` | 0.2 M |
| `stop_restarts` | violation of `StoppedJobJustEnds` | |
| `removed_stays` | violation of `RemovedServiceGoes` | |
| `finished_refused` | violation of `FinishedMayStart` | |
| `answers_shift` | violation of `AnswersMatch` | |

### Bounds

`MaxSpawns` bounds the processes ever started, `MaxRequests` the requests ever
sent. `server_reload` has four processes, which two Starts by hand and their
restarts by the policy use up (one each with `retries` 2): enough for events of one process to be in the channel when the next is
started, for two to be alive at once if anything let them, and for a count that goes
past its maximum. Its two requests, of one client or of two, let a stop, a restart or a
reload meet the start, its end, or the restarts of the policy at any point; the runs
with an expected violation have three, and the theorems hold for any number. Two
clients differ only in their names, so they are symmetric in the runs without liveness
properties. `U8` is 2 or 3 instead of 256: it must exceed the retries of the services,
as 256 does, and is the least that does, so that the maximum of the policy is the last
value of the count.
`stopWait` is 1 in one version of the service and 0 in the other, which a reload
replaces by each other. The groups of `server_group` have `startTime` 0, so that a
time-out is reported at the first scan.

`server_group` bounds the requests to two and the exit code to 0: its question is
about changes of the files, not about policies. `service_files` takes directories
of up to two files, enough for a group and a service that clashes with its virtual
name, or a repeated name, in both orders; `LoadsAreDeclared` is about directories of
any size.

The router's runs have one alias, because the requests of another share only the
thread's time; two sessions, so that one can attach while the other ends; a channel
of one chunk, so that the router blocks in `send`; two chunks a process.
`io_sessions` has two processes and no Detach, so that a job changes hands by the
end of a process, by a connection that fails, or by a Finished event that comes late
(`MaxStale`); `io_live` has one process and a Detach, a Status or a late Finished
(`MaxCommands` and `MaxStale` bound one count of them all). `DrainTimes` is 1, which makes
two reads, exactly what a pipe of `PipeSize` 2 may hold. In the code the relation is
the same: the drain makes up to 101 reads of 1024 bytes, and a Linux pipe holds
65536. A larger pipe or more output than the drain reads would break the last part
of `StreamIsWhole`, so the relation is an assumption of the model with a name,
`DrainAssumption`.

`connections` has one client, with two commands and two inputs of its own: a
command is answered before the next is sent, so an answer that comes too early or
too late meets the next command, and two inputs fill a pipe of one and block the
orchestrator. What other clients can do to this one, hold the job or detach it, may
happen at any time. `MaxStimuli` bounds commands, inputs and signals together,
because each of them is rare and their product is not; two SIGHUPs are enough for
one to come while the reload of the other is under way. Two processes let the policy
or a Start replace the one that has ended. `timestamp` goes through the first day by
seconds and then through 146097 days, the 400 years after which the calendar repeats.

The system stops when the bound on requests is used up and no process is left, so
the runs of the server, of the router and of the connections do not check deadlock,
nor does the clock; that no handler gets stuck is what `RequestsAreAnswered`,
`WaitsEnd` and `PromptReturns` say. `service_files` never stops and checks it.

### Time

The runs and the theorems assume nothing about how long anything takes: a timer may
run out at any moment (`Elapse`), also between the report of an exit and its handling,
and at once if its time is zero. Two states that the code can thus reach are excepted
where a property would fail of them, by what happened and not by a bound on time:

* `late`. `watcher.rs:67` looks at the timer before it polls, and does not ask whether
  the end was reported. If the orchestrator has not handled the report when the timer
  of the job runs out (it waits for the router at `io_router.rs:268` and `316`, and in
  `write_all` at `jobs.rs:398`), TimedOut follows Finished into the channel, and a
  stop that rewinds the timer makes the watcher report the end once more. `NoStaleEvents`,
  `NoOrphans`, `RefusedIsWatched` and `RetriesNeverWrap` fail of such a job. The run
  `finished_refused` shows the plainest consequence. Excepting the job by this history
  makes the four properties say that nothing else breaks them.
* `Skipped`. After a time-out was reported the watcher polls the job only once its
  timer has been rewound or removed (`continue`, `watcher.rs:72`). The timer that
  `kill_job` sets with SIGKILL may run out before the next scan, and has run out at
  once if `stop_wait` is 0, a legal value: the job stays Stopping, its end is never
  noticed. `ExitIsNoticed` says that a process that has ended is reaped and handled
  or its job gets into this state.

### Fairness

The orchestrator is strongly fair: the watcher takes the mutex again and again,
but sleeps 100 ms without it, so the orchestrator gets it. The watcher's steps and
the passing of time are weakly fair. A process that was sent SIGKILL ends. Nothing
obliges a client to send, or any other process to end.

In `io_live` the router and every forwarder are weakly fair threads. The
orchestrator returns from its waits when it can, and handles the end of a process
whenever it is again and again free to do so (strong fairness): the event is in a
first-in first-out channel, which only finitely many messages precede.

In `connections` every thread of the client and of the server is weakly fair; the
user, the process and the operator are not. The process may therefore leave its stdin
unread for ever, and `write_all` (`jobs.rs:398`) holds the orchestrator as long, with
every request, event and reload behind it. `PromptReturns` and `SignalsAreHeard`
except exactly that: an orchestrator that waits for ever for a living process whose
pipe is full.

### What the violations show

* `stop_restarts`: Start, scan (Running is queued), Stop, then the event: the job
  is Running again, its process gets the stop signal and ends, and the policy
  starts it anew, although `events.rs:58` says "If job was stopping just end".
* `removed_stays`: a reload stops and removes a running service
  (`orchestrate.rs:249`, "Stop and remove service"), the job is removed with the
  flag that would remove the service (`jobs.rs:26`), and the exit is dropped.
* `finished_refused`: Start, exit, scan (Finished is queued), the start timer runs
  out, scan (TimedOut is queued behind it), then both events: the first makes the job
  Finished, the second TimedOut (`events.rs:124`), and `start_request` refuses it as
  already started for ever, although "Only finished, created and Free are considered
  valid states to start a job" (`jobs.rs:193`) and this one had finished.
* `answers_shift`: a process ends while its client types. The write of the input
  fails, and `orchestrate.rs:299` answers the input with an Error, although a client
  that is attached takes any part that is no stream for the end of its command
  (`connection.rs:44`). It leaves an attach that goes on; the end of that stream is
  then read as the answer to the next command, and so on: every answer is that to the
  command before. An input typed at the very end of an attach does the same.

Three more behaviours were found with the models and have no run of their own. A
service that the files define may be removed: a reload finds it gone, puts
`remove_service` on its job and breaks because `kill(2)` fails, the watcher having just
reaped the process (`orchestrate.rs:264-270`); a second reload takes the service back
from the files; then the event of the end removes it (`events.rs:62`). So `RemoveService`
of `ServiceFiles` does not ask whether the service is defined, and `HeldIsCurrent` and
`GroupsAreWhole` except the names that were removed since the last good update: a
group with such a member cannot be started to its end.
SIGKILL may follow a stop at once: the event of the start timer, queued before
`kill_job` rewound the timer, finds the job Stopping (`events.rs:112`), which is taken
to mean that `stop_wait` is over. And every forwarder ends with a StopForwarding that
names only the alias (`jobs.rs:373`): if another client attaches before the router
handles it, that client is detached although nobody asked for it; `IoRouter` has this
as a StopForwarding `by` a forwarder, `Connections` as `StopOwn`.

## 4. The proofs

All theorems are about `Spec`, of `Orchestrate` for every value of the constants that
satisfies `ServicesAssumption`, `NoServiceAssumption`, `CatalogAssumption` and
`BoundsAssumption`, of `Connections` under `ConnectionsAssumption`, of `IoRouter`
under `RouterAssumption`, of `ServiceFiles` under `FilesAssumption`, and of `Timestamp`
for any bounds: any number of clients, jobs, sessions, files and days, and any bound.
`FilesAssumption` says that an alias is a sequence and that `Alias` has every name a
file generates. None uses fairness, and none assumes anything about time.
`StreamsAreWhole` uses `DrainAssumption`.

| Theorem | States |
|---|---|
| `ServerProofs!TypeCorrect` | `[]TypeOK` |
| `SupervisionProofs!FinishedJobsAreUnwatched` | `[]FinishedIsUnwatched` |
| `SupervisionProofs!WatchedJobsAreManaged` | `[]WatchedIsManaged` |
| `SupervisionProofs!IoBelongsToProcess` | `[]IoFollowsProcess` |
| `SupervisionProofs!ExitsAreReported` | `[]ExitIsReported` |
| `ProcessProofs!OutdatedAreSignalled` | `[]OutdatedIsSignalled` |
| `ProcessProofs!OrderInvariant` | `[]Order` |
| `ProcessProofs!EventsAreCurrent` | `[]NoStaleEvents` |
| `ProcessProofs!ProcessesAreWatched` | `[]NoOrphans` |
| `ProcessProofs!RefusedJobsHaveProcesses` | `[]RefusedIsWatched` |
| `ProcessProofs!RetriesOnlyGrow` | `RetriesNeverWrap` |
| `ConnectionsProofs!TypeCorrect` | `[]TypeOK` of `ConnectionsProperties` |
| `ConnectionsProofs!AnsweringInvariant` | `[]Answering` |
| `ConnectionsProofs!AnswersMatched` | `AnswersMatchUnlessFailed` |
| `RouterProofs!RouterTypeOK` | `[]TypeOK` of `IoRouterProperties` |
| `RouterProofs!RouterInvariant` | `[]RouterInv` |
| `RouterProofs!TeesFollowTheJobs` | `[]TeesFollowJobs` |
| `RouterProofs!ClientsGetTheCurrentRun` | `[]AttachedToCurrent` |
| `StreamProofs!StreamsAreWhole` | `[]StreamIsWhole` |
| `StreamProofs!RouterImplementsAttachment` | `ImplementsAttachment` |
| `ServiceFilesProofs!FilesInvariant` | `[]FilesInv` |
| `ServiceFilesProofs!LoadsAreDeclared` | `[]LoadIsDeclared` |
| `ServiceFilesProofs!TableIsCurrent` | `[]HeldIsCurrent` |
| `ServiceFilesProofs!GroupsStayWhole` | `[]GroupsAreWhole` |
| `ServiceFilesProofs!LoadedTablesFitTheCatalog` | what `CatalogAssumption` says, of every loaded table |
| `TimestampProofs!TimestampsAreCivil` | `[]TimestampIsCivil` |
| `TimestampProofs!TimestampIsUnsigned` | no subtraction of `timestamp` underflows |

**Types.** `TypeOK` is not inductive. A Start request puts the generated names of
the service on the loop's list, so every name a held service generates must be an
alias (`NamesAreAliases`, which `CatalogAssumption` gives for the files); a scan
reports the pid of what it visits, so what it has still to visit must be watched
(`ScannedAreWatched`, which holds because the mutex keeps the orchestrator out).
`TypeInv` is the three together.

**Supervision.** `FinishedIsUnwatched` and `WatchedIsManaged` need each other: a
job becomes Finished in the very step that takes its process out of the table,
and a process is put under watch only when its job is Created or Finished. The
reload removes a service after JobNotFound, which is harmless only if nothing is
under watch; `stop_request` has returned by then, hence `NotFoundIsUnwatched` about
the state in between. `Managed` is the three together.

**Input and output.** `IoFollowsProcess` is inductive relative to `Managed`: a job
that starts has no process under watch, hence no pipes left in the router, so
`or_insert` takes the new ones.

**Exits.** `ExitIsReported` needs to know of the table that a watched process was
spawned for its alias, and that the watcher has recorded an end only of a process
it reaped (`WatchedAreReal`): a poll that finds a process ended then finds no end
recorded, and sends the report. The report leaves the channel only by the handler
that takes the process out of the table, because `Managed` excludes the early
return of `manage_event`. `Exits` is the two together.

**Answers.** An answer carries no number, so `AnswersMatchUnlessFailed` rests on
where things are. A command of a client, and then its answer, is in the socket, in
the orchestrator's channel, with the connection's thread, or with the stream and
its writer thread, and arrives at last (`Sent`, `Queued`, `Ready`, `Streaming`,
`Boxed`, `Arriving`); it is in one of them (`Staged`), in none while the client is
at its prompt (`Quiet`), and what is there is of the client's current command, its
end last (`OfCommand`). Inputs share the first two with commands, hence
`Commands(s, c)`, the positions of the others. `Matched` is the three together, for
the clients none of whose inputs failed: the answer to a failed input is exactly
what breaks it. That what the orchestrator takes was sent by its client
(`AnswersOwned`) needs no such exception. Each action either moves the command of
one client a place further, for which there is a lemma, or leaves it where it is
(`UntouchedMatched`).

**Signals.** A reload sends nothing to a job that is already Stopping
(`jobs.rs:246`), so `OutdatedIsSignalled` rests on another fact: the process of a job
that is Stopping has been signalled, or `kill_job` has its pid and is about to
(`ToldToStop`, which says both). The pending changes of a reload are carried through
`stop_request` by its call; that of a client's request carries none (`NothingLeft`).

**Events.** `NoStaleEvents` is not inductive: the end of a process empties its place in
the table, so no other event of its alias may be left behind the report of the end. That
is `EndIsLast`: once a Finished is in the channel the watcher has recorded the end and it
is the last event of its alias. It stays the last because a reaped process is not reported
again as long as the record says Finished, and the only step that changes the record is
that of a timer that has run out, which puts the job into `late`. An event that the
orchestrator takes is then of a process under watch, so that Running and TimedOut make no
job busy that has no process; the process that Finished removes is reaped, so that none
is orphaned (`OnlyOne`); and an end is counted once for each start, which the policy
grants only below the maximum (`Room`), so that the count never reaches its last value.
`Orderly` is all of this of one alias, and `Order` says it of every alias that is not in
`Excepted`, that is `lost` or `late`. Both only grow, so that an alias that leaves
`Order` need not come back.

**Router.** `TeesFollowJobs` is not inductive either: it says where the last Create and
Remove lead, and a drained Remove uncovers what is behind it. `Following` adds that
between any two Creates of an alias there is a Remove. `Held` says whose the channel in a
Tee is, `Waits` that the request the orchestrator waits for is followed by nothing but
StopForwardings of forwarders (so that the answer is about the process the job has now,
`AttachedToCurrent`), `Sessions` how far each session is, `Routed` that nothing has
reached a client that the router has not read, and `AtWork` what a drain or a round of
reads in progress relies on. `RouterInv` is all of them.

**Streams.** That a stream is whole while the session is attached follows from the steps
of the router alone: a chunk goes to the channel in the step that reads it. That it is
whole to the end needs the way of a StopForwarding from the end of the process to the
drain: a run belongs to one alias (`OfAlias`); when the router comes to the request it
holds the pipes of an ended process or none (`Ending`); and while it drains, the reads
left are no fewer than the chunks left (`Draining`), which is where `DrainAssumption`
comes in. `StreamInv` is these with `RouterInv`.

**Attachment.** A step simulation: a lemma for each action of `Attachment` says what
must be true of the phases, the holders and the sent chunks of all sessions, and each step
of `IoRouter` is shown to fit one of them or to leave all three alone. The invariant comes
in at three places: the session that is dropped was the holder (`Held`), a chunk that is
routed is new (`Routed`), and a session that was refused never held anything (`Stage`).

**Service files.** What `load_services` computes is proved by induction on the
number of entries and of files. The library states induction with an operator as a
parameter, which no installed prover can instantiate; `Induction` states it of a
set, and rests on strict inclusion of finite sets being well-founded
(`LeastElement`). With it, the recursive functions in `LoadServices` and
`FlattenSeq` exist and satisfy their equations (`LoadIsFold`, `FlattenIsFold`); the
load has succeeded as long as no name came twice, and has every entry so far
(`Loaded`); and flattening keeps every entry of every file once (`Gathers`, a
bijection with the places in the files). The names of a group differ from each other
(`NamesDiffer`), so a name that comes twice comes from two files: `FilesLoad`.
`HeldIsCurrent` is inductive with the types: an update keeps what it does not find
and adds it to `stopped`, and a removal, of whatever it is, is noted in `removed`
until an update finds the name again. `GroupsAreWhole` follows from it only if the
files of the last good update define no name twice (`Unequivocal(current)`), for
then the file of a group decides what each of its names is. `FilesInv` is all of
these. `LoadedTablesFitTheCatalog` closes the gap to the server: the theorems about
it assume nothing of a table that the files do not give.

**Timestamp.** `ClockInv` is `TimestampIsCivil` with the range of the seconds. It is kept
because `Date` of the next day is the calendar's next date (`NextDay`): the day of the
era, the year of the era and the month are the only ones whose spans contain the day
(`EraSplit`, `YearOfEraBounds` with `YearUnique`, `MonthOfYear`), a year and a month are
as long as the calendar says (`YearLength`, `MonthLength`), and the day after is in the
same month, the next month, the next year or the next era. The run goes through the 400
years of an era, the theorem through all of them.

**Only model-checked.** Liveness, which is out of the prover's reach:
`RequestsAreAnswered`, `ExitIsNoticed`, `WaitsEnd`, `StreamsEnd`, `PromptReturns`,
`SignalsAreHeard`. Every other property of a passing run is proved.

## 5. Not modelled

* The contents of the ring buffers and log files. Unless a client is attached, what
  a process writes just before its end is in neither: Remove does not drain.
* List, Help, the text of Status: they read state and format it.
* `stop_server`: the server exits at once and leaves its processes behind.
* The client's line editor, history, arguments, configuration and exit code; the
  server's configuration: plain I/O.
* The logger's channel and output: no effect on the other parts. (Its prefix is that
  of the configured level, not of the message: `log_loop` matches on `level`,
  `src/logger/src/lib.rs:93`.) `timestamp` says "[Wrong System Time]" before 1970;
  its "[Time Overflow]" cannot happen, since the days of 2^64 seconds are far from 2^64.
* Parsing of TOML and JSON, signal names, paths. The directory walk (`dir_utils.rs`) is
  any order of the files.
* A panic of a thread, and so the router's response channel that closes without an
  answer (section 2).

## 6. Plan

1. Done: the registry, the server's threads, the proofs above.
2. Done: `IoRouter` and `Attachment`.
3. Done: `Connections` with the start-up and SIGHUP, its proofs, `Timestamp`.
4. Not planned any more: an abstract specification of one supervised job. It would
   have to allow each behaviour of section 3 (a stopped job that restarts, a
   removed service that stays, a job that is refused for ever), and would then say
   little that `WatchedIsManaged`, `NoOrphans` and `ExitIsReported` do not.
5. Done: proofs of every safety and action property of a passing run, and of the step
   simulation of `Attachment`.
