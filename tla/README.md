# A TLA+ model of lumn

lumn runs Lua workflows. `lumnd` keeps workflows active, fires them from
triggers, queues their executions in SQLite and runs them one after the other;
`lumn` is its command line client and can also run a file by itself. These
modules model the part of it that is concurrent and persistent (the store, the
daemon's managed workflows and workers, and the calls that start, stop, delete,
restart, execute and shut down), its triggers, the processes of `lumnd` and the
commands of `lumn` that start, use and stop them, and the executor that loads
and runs one workflow.

## The system

| component | state | operations | talks to |
|---|---|---|---|
| store (`internal/store`, `sql/`) | tables workflows, triggers, executions, queue | upsert, delete, set status, create/claim/complete/cancel execution, mark stale, retention | SQLite |
| daemon core (`internal/daemon/daemon.go`) | `d.workflows`, `d.waiters`, `shuttingDown`; per workflow `accepting`, `running`, `notifyCh`, `stopCh`, trigger handles | start, stop, delete, restart, exec, shutdown, enqueue, restore | store, engine, triggers |
| worker (`workerLoop`) | the item it holds | claim, run, complete, publish | store, engine, waiters |
| triggers (scheduler, webhook, file watcher) | next run; routes; debounce timers | fire, catch up, stop | `enqueueExecution` |
| process (`cmd/lumnd`) | up or down; socket file, webhook port, PID file | boot, restore, retention loop, shutdown, exit | all |
| API (`api.go`), client (`client.go`) | none | one handler per call | daemon core |
| CLI (`internal/cli`) | the calls a command has made | `run`, `start`, `stop`, `delete`, `restart`, `daemon start`, `stop` and `status` | client, engine, new processes |
| engine (`internal/engine`) | none | find the file a target means and its workspace, load, report | files, dag, executor |
| dag (`internal/dag`) | none | check a flow before it runs | Lua runtime |
| executor, Lua runtime | one execution's items and Lua references | run | interpreter |
| config, paths, errkind, primitive | none | read, format | |

How they interact: every HTTP handler, trigger and worker is a goroutine. They
share the database, `d.workflows` under `d.mu`, and each managed workflow under
its own mutex. A trigger or an exec call enqueues (check accepting, count,
insert, notify); the worker of the workflow wakes from its channel of capacity
one, claims the oldest item, runs it, completes its row and hands the report to
whoever waits in `d.waiters`. A stop closes `accepting`, polls `running`,
cancels the queue, stops the triggers, closes the worker's channel, writes the
rows and forgets the workflow, each a separate step. Processes share the state
directory: every `lumnd` that boots on it removes the socket file, makes its
own, and only then asks for the webhook port, which one of them can have. A
command of `lumn` is a sequence of calls with nothing held between them.

What is hard: none of these sequences holds a lock from its check to its
effect; two lifecycle calls of one workflow are not serialised; the API serves
before the restore has finished; every store call can fail half way through a
sequence; the process can die anywhere and starts from the rows it left; a
second process can boot at any time; a call can be done although its answer is
lost; the table changes between the two calls of a command.
`hazards` of `PROJECT.json` lists these places line by line.

What makes each component correct:

- store: the tables agree with each other; an execution is queued, then runs
  once or is cancelled, then finishes once; no worker's execution is touched
  behind its back; first in, first out; retention takes the oldest.
- daemon core: rows and memory agree when no call is in progress; a report is
  the one on record; no execution in two hands; no lost wake-up; a queued
  execution is served while the process lives.
- process: what a dead process left running is closed, what a live one works
  on is not; what was left queued is served by the next; a process that serves can be
  reached; one that was stopped has given everything back.
- CLI: a run happens once, in the daemon or locally; a command acts on the
  workflow it found; client and daemon mean the same workflow by a selector; a
  local run takes the file the help says.
- engine and dag: a flow runs whole or not at all.
- triggers: a scheduled time is run at most once, also across kills; a next run
  to come in a row is the one the goroutine waits for; a route belongs to a
  workflow that is up; a burst of file events is reported once, by a timer that a
  stop can stop.
- executor: items keep their order, every reference is released once.

## Modules

| module | models |
|---|---|
| `ExecutionLifecycle` | the abstract promise about one execution: absent, queued, running, finished, gone |
| `ExecutionStore` | `store.go` and the SQL it runs: one action per operation that writes |
| `ExecutionStore_proofs` | its theorems |
| `MCExecutionStore` | the store for TLC |
| `Daemon` | `daemon.go`: extends `ExecutionStore` with the goroutines that call it |
| `Daemon_proofs` | its types, and that it implements the store's steps |
| `DaemonExecutions_proofs` | its theorems about executions, reports, queues and wake-ups |
| `DaemonQuiet_proofs` | its theorem about the rows and the memory |
| `MCDaemon` | the daemon for TLC |
| `Scheduler` | the goroutine of a scheduler trigger and its plan |
| `WebhookRegistry` | the routes of the webhook server |
| `FileWatcher` | the goroutine of a file watcher trigger and its debounce timers |
| `Triggers` | the three together, in the steps that start and stop a workflow, with kills and restore |
| `Triggers_proofs` | its theorems |
| `MCTriggers` | the triggers for TLC |
| `DaemonProcess` | the processes of `lumnd` and the files, port and rows they share |
| `DaemonProcess_proofs` | its theorems |
| `Selectors` | what a selector names, in `cli.go` and in `store.go` |
| `Targets` | `engine.go`: the file that a target means and its workspace |
| `Cli` | `cli.go`, `client.go` and `api.go`: commands as sequences of calls, over `DaemonProcess`, `Selectors` and `Targets` |
| `Cli_proofs` | its theorems |
| `MCCli` | the commands for TLC, and the situations they start from |
| `DagBuilder` | `dag.go`: the checks of a flow |
| `BatchPipeline` | the abstract promise about a flow: what each primitive makes of the batch |
| `Executor` | the load of `engine.go`, and `executor.go` with the Lua references of `runtime.go` it works on |
| `Executor_proofs` | its theorems |
| `MCExecutor` | the executor for TLC |

### ExecutionStore

`workflows`, `status`, `owner`, `at` and `queue` are the columns and tables.
`at` is `queued_at` until an execution finishes and `finished_at` from then on:
the code never orders by both. `held` are the executions claimed and not yet
completed, `up` says whether the process is past the boot's cleanup.
`txNow` holds the time a caller read in `CreateQueuedExecution` before its
first INSERT took the write lock, so creations can commit out of the order of
their times. `pooled` is the connection pool: `PRAGMA foreign_keys = ON` runs
on one connection (store.go:86), so once a second one exists a statement may
run without the keys (`EnforcesKeys`). `seen`, `txSeen` and `lost` are history.

A transaction is one action, because SQLite serialises writers and rolls an
interleaved one back. The daemon's `Fault` gives any store call the chance to
fail, which is what the missing `busy_timeout` does in practice.

### Daemon

`call[p]` is a goroutine: `pc` names the point in the code where it stands and
the other fields are its locals. `inst[i]` is one `managedWorkflow` and its
worker; `current` is `d.workflows`. A step ends where the code calls the store
or takes a lock; the module's header says which points are joined and why.
`Main` is the main goroutine: boot, restore, signals. `Operators` make
lifecycle calls, `Users` exec calls, `Firers` are triggers that fire.

A `start`, `stop`, `restart`, `delete` and `shutdown` share their first half:
`Close`, `Drain`, `Reopen` when the drain times out, then `finalizeWorkflowStop`
as `Cancel`, `Halt`, `TriggersOff`, `StatusOff`, `Unmap`. `Loaded` to `WakeUp`
is the second half of `StartWorkflow` with `activateWorkflow`, which the
restore of the boot shares. A timeout is a choice available while the worker
runs: no clock is needed for it.

`overlapped`, `failed` and `stray` are history that properties use as escapes:
lifecycle calls that overlapped, a store call that returned an error, and
executions created through an instance already replaced. Where a property has
such an escape, the code breaks the property without it, and the hazards say so.

### Triggers

`Daemon` has every step of starting and stopping a workflow and one abstract
trigger; `Triggers` has a list of real triggers and of those steps only the
ones that triggers can see. `inst[i]` is again a `managedWorkflow`: `n` counts
the triggers of its list that have started and `phase` is the point in
`activateWorkflow` or `finalizeWorkflowStop`. `rows` are the rows of the
`triggers` table, replaced as a whole by a start (`id`). The calls of one
workflow do not overlap here, those of two workflows do. A start is refused for
one reason, a route that another workflow has, and what was started before is
then stopped (`Undo`).

`Scheduler`: the goroutine waits, fires, calls `enqueueAsync`, computes the
next run and writes the row, four steps, because a stop or a kill can come
between any two. `fired` is `firedAt`. A goroutine that finds both its timer
and its `stopCh` ready takes either. Time is counted in units of half an
interval, a cron is the multiples of the interval, and the clock runs only
while a scheduler can see it. Which of its steps are slow is left open, so a
goroutine can be stopped in the middle of a write and go on an interval later:
the runs of such a goroutine (`late`) are the exception in `OneRunPerTime`.

`FileWatcher`: `time.AfterFunc` starts its callback in a goroutine of its own,
so firing (`TimerFires`) and the callback under `timersMu` (`Callback`) are two
steps, and `Reset` in between makes the timer fire twice. How long the debounce
takes is not modelled: an armed timer may fire at any time. The pattern of file
names is not modelled; `Ops` are the events that pass it.

`WebhookRegistry` has one action per method, each under the lock of the
registry. What a request finds behind its route is in `Daemon` (`Fire`).

### DaemonProcess, Cli, Selectors, Targets

`Daemon` is the inside of one process; `DaemonProcess` has several and of each
only what the others can see. `pc[p]` is the point in `main`, `New` and `Run`,
`shut[p]` the point in `Shutdown`, `closer[p]` the goroutine that called it.
`socket`, `port` and `pidFile` say which process a name leads to: a Go listener
removes its socket file by name when it closes, so whoever closes removes
whatever the name leads to by then. The work of a process is one execution
(`job`) and its row; `late` is history, an execution that was claimed when
`waitIdle` looked and was not yet `running`.

`Cli` gives each client the command it carries out and the call it is in. A
call goes through `Dial`, then `Handle`, or `Reset` when the listener closes,
or `Lost`; the answer is taken up by the action named after the function that
made the call. `Handle` is the whole handler in one step, with every outcome
that the steps of `Daemon` can produce for one call, the answer of which may
still be lost. The handler of a shutdown is the exception: it waits
(`waiting`) while the `Shutdown` of its process goes on step by step, and its
client may give up before it ends. `rows` are the workflows, `fs` the files.
`acted`, `ran`, `entry` and `out` record what became of a command, and
`overlapped` the processes that were busy beside another one: the second
removes the files of the first by name, so `ServingIsReachable` makes an
exception of both.

`Selectors` is written twice from the code: `SelectWorkflowID` as the client
searches its list, `ResolveWorkflowSelector` as SQL does, with `LIKE` as a
choice of the place in the text where each character of the pattern matches.
`Targets` resolves a path over a set of files and directories (`IsTree`); an
error of `Stat` other than "does not exist" is left out, and so is a directory
whose name ends in `.lua`, which the code enters and the help does not speak of.

### DagBuilder and Executor

A node is what a file can write there: a kind, the field that kind has, and an
`on_data`. `DagBuilder` is the sequence of checks of `Build`, of which the first
that fails decides; "panic" stands for the Lua error that is raised outside of
a protected call. What the interpreter answers when a node is asked for a field
is behaviour of go-lua, modelled from how `dag.go` uses it.

One behaviour of `Executor` is one load and one `Run` over a flow that TLC
chooses among all flows up to the bound (`Load`, `LoadFails`). `node` and `pos` are the loops; a step is one iteration of an inner
loop, so it calls at most one Lua function. `registry` maps the keys of
`StoreRef` in use to values, `items` and `out` are the slices of keys the code
holds (`out` is `filtered`, or the `items` of `buildCallItems`), and `source`
is what the callable of a call returned. A value is its identity; what a Lua
function returns is chosen among what it was given, what Lua code has kept
(`known`, for the state of `lumn.get` and `lumn.set`, globals and upvalues) and
a new value. Keys made and deleted within one step are left out. The actions
named `...Fails` are the error returns, and `Fail` the report that
`RunTargetWithOptions` makes of them. `before` and `reached` are history.
Daemon sees none of this: there an execution is one step with an outcome, one
of the three statuses a run of `Executor` ends in.

`BatchPipeline` has one step per node and no references: `PipelineSpec` maps
its `batch` to the values of the batch when the node began, so the loop inside
a node is a stutter and its end must be what the primitive promises.

## Runs

| run | instance | shows |
|---|---|---|
| `store` | 2 workflows, 2 callers, 2 executions, 3 instants, a growing pool | the store's invariants, FIFO, retention, and the refinement of `ExecutionLifecycle` |
| `queue` | 1 exec caller, 1 trigger, 3 executions, limit 1 | the queue exceeds its limit by less than the number of callers that can race |
| `faults` | 1 exec caller, 1 execution, 1 error or kill, start/stop/restart/delete, signals, retention keeps none | reports are true, database and memory agree when no call is in progress, no lost wake-up, whatever fails half way and wherever the process dies |
| `workers` | 2 instances of one workflow, 2 executions, 1 exec caller | a client gets the report on record; no execution in two hands; at most one late start per closed instance; no lost wake-up |
| `liveness` | 1 exec caller, 2 executions, 1 error or kill, start/shutdown | while the process lives, a queued execution of an active workflow is served, also when a shutdown times out or the process before was killed |
| `parallel` | 2 instances of one workflow, 2 executions | violation: two executions of a workflow run at once |
| `shutdown_status` | 1 workflow, start, signals | violation: a shutdown changes the status of workflows |
| `exec_report` | 1 exec caller | violation: an exec whose execution has finished is never told |
| `executor` | every flow of up to 3 nodes, sound or not, arrays of up to 2 values, 1 kept value | a flow runs whole or not at all; references are used and deleted once; taps, calls and on_data cannot change the batch; the flow implements `BatchPipeline` |
| `triggers` | 2 workflows that want the same routes, a scheduler or a file watcher, 2 instances, 5 instants, 3 file events, 1 kill | routes follow the workflows; a time is run once; a stored next run is the goroutine's or gone by; a burst is kept and its timer can be stopped |
| `cli` | 2 clients, 2 processes, 2 commands, 27 initial situations | a daemon that serves can be reached; a stopped one has given back what it had; a run happens once; a command acts on what it found; selectors agree; local runs take the documented file; no boot steals an execution |
| `daemon_stop` | 1 client, 1 process | violation: after `lumn daemon stop` the process goes on |

Bounds. `MaxExec` bounds executions ever created, `MaxInst` the instances one
process makes, `MaxFaults` store errors and kills together, `MaxClock` time.
Two executions show every order of two items and a claim beside a creation;
three are needed to overshoot a limit of one with two callers. Two instances
are an old and a new one; a third would be a second old one, already told to
stop. One fault reaches every single failure, and every kill between two steps
with the boot that follows; `faults` has one execution, because what it asks is
what a failure leaves behind, and `workers` has the order of two. Where a run
leaves a feature out (no triggers, no clock) it is because its question does not
depend on it and another run has it.
`CHECK_DEADLOCK FALSE` is set for the daemon because clients may have nothing
more to ask and all bounded identifiers may be used up.

For the executor, three nodes show a batch that is made, changed and replaced
or read, which is all one node can see of those before it; two items show an
order and a duplicate; `Objs` is as many values as can be alive at once, and
one kept value is enough to alias an item with the state.

For the commands, two clients are one between whose calls another one changes
the table or stops the daemon, and two processes are one beside or after
another, which killed or stopped may leave its files. `MaxCommands` is three
and every situation of the run counts one as given, so there are two commands.
A situation is one question: daemons without and with one running; a daemon
with three workflows whose names and ids are prefixes of each other; no daemon
and one of 24 choices of the files that a target can mean. Each has the
commands its question needs. Two hashes that agree in the part a selector can
give are excluded (`CliConstants`).

For the triggers, two instances are one workflow before and after a stop or a
kill, or two workflows at once. Five instants with an interval of two are two
points of a cron and a kill that outlasts one. Three file events are one that
makes a timer, one that resets it after it fired, and one that makes another
timer while the first still has a callback to come.

Symmetry is used over workflows, over callers or triggers, and over clients and
processes, never in the run
with a liveness property.

Fairness (`FairDaemonSpec`): Go's scheduler runs a goroutine that can run, so
each worker, each call in progress and the restore of a boot that has begun are
weakly fair. Arrivals are not: requests, triggers, errors, kills and signals may
never come, and neither may `Boot`: after a kill nothing in the code starts
`lumnd` again (`client.go:158-164` tells the user to), so the end of the process
is an escape of `QueueIsServed`. The property holds anew in every process that
is started, for what it finds in the queue too. That an
execution ends is assumed (`Run` of a fair worker). `FairSpec` of `Cli` is the
same for the steps of a process, the work it has taken and the calls of a
client; commands, signals and kills may never come. In `daemon_stop` the
signals that come are refused, so no fairness of theirs would change the
result.

## What is proved

`ExecutionStore_proofs` proves, for every set of workflows and callers and
every bound, that `StoreSpec` implies each property of the `store` run:
`TypeOK`, `QueueIntegrity`, `HeldIsRunning`, `RunningIsAccountedFor`,
`ClaimIsFifo`, `RetentionDropsOldest` and the refinement `LifecycleSpec`. The
assumption is `StoreConstants`, which TLC evaluates in the `store` run.

The invariants of the store are not inductive alone. `StoreInv` adds to `TypeOK` that
identifiers from `nextId` on are unused, that a queue row is of a queued
execution, that a held one is running or gone, that nothing is held and nobody
creates while the process is down, and that while the keys are enforced every
execution has its workflow, every queued one its queue row, and every running
one a worker, a failed completion or a dead process. Each of the three
invariants is a part of it. The refinement needs only `StoreInv`: `PhaseStep`
shows, action by action, that no execution makes a move that
`ExecutionLifecycle` does not allow. The FIFO property needs `FifoInv`, which
relates `seen` to time: an execution whose creation began after another had
committed carries a time that is not earlier. `RetentionDropsOldest` is an
action property: `OnlyRetentionDrops` shows that only retention removes rows
while the workflows stay, and `KeptIsNewer` that the rows it keeps are newer.

`DaemonProcess_proofs` proves, for every set of processes and callers,
`ProcessTypeCorrect` and `BootStealsNothing`: no boot closes as stale an
execution that a live process works on. Its invariant `LockInv` is the reason:
a process has the port from `Bind`, before `MarkStale`, until its `Shutdown`
gives it back, after the wait for the worker (`PortIsHeld`), and what is
running outside of that stretch has escaped the wait (`DrainedIsLate`). So the
port is the lock that the PID file is not.

### The daemon

`Daemon_proofs` proves `DaemonTypeCorrect` and `DaemonImplementsStore`: every
step of the daemon is a step of `ExecutionStore` or none. The invariants of the
store are therefore those of the daemon, although the daemon has far more
behaviours and calls the store from many goroutines: `DaemonQueueIntegrity`,
`DaemonHeldIsRunning`, `DaemonRunningIsAccountedFor`. The invariant is
`Control`. `CallsOK` says for each point of the code which calls can be there
and what the locals hold (a goroutine at `halt` has an instance, one at
`notify` an execution); a step along the code keeps it (`Follows`).
`InstancesOK` says that instances are numbered in the order they are made, that
a goroutine works on one of its own workflow, and that nobody else has the one
a start is building. `DownOK` says that no memory outlives the process: without
it a boot could find a worker of the process before. None of the parts is
inductive without the others and the types.

`DaemonExecutions_proofs` builds on `Base`, that is `Control` and `StoreInv`:

- `OneWorkerPerExecutionHolds` and `AtMostOneLateStartHolds`: what workers have
  in hand is what the store holds, and a claim takes only what is queued, so
  two instances of a workflow never share an execution. A closed worker has
  passed at most one check of `isAccepting` (`LateOK`).
- `ReportsAreTrueHolds`: a report is on its way in a mailbox, in the hands of a
  worker that has completed the row, or with a goroutine that has cancelled it;
  in each of the three places it is what the row says (`ReportInv`). And a row
  that is finished stays as it is until it is dropped (`ReportsStay`).
- `QueueBoundedHolds`: the length of a queue and the callers between the check
  and the insert together stay below the limit plus the number of callers that
  exist (`RoomOK`). The last one that passes the check found room, so the sum
  grows by one only from below the limit plus the others.
- `NoLostWakeupHolds` is inductive over `Base`. A worker that falls asleep has
  found its queue empty (`WorkerSleeps`). Only the commit of a creation puts
  something in a queue, and who commits it is at `notify` with the instance it
  enqueues for (`QueueStep`). Nobody leaves one of the points before a wake-up
  without moving to the next or setting the token (`CallsStep`). A new instance
  comes with the call that will wake it.

`DaemonQuiet_proofs` proves `ConsistentWhenQuietHolds`. The property speaks of
the moments at which no lifecycle call is in progress; what makes it inductive,
`QuietInv`, speaks of the others. As long as calls have not overlapped, at most
one is in progress (`Single`). `Local` says for every point of its code how far
the rows and the memory of its workflow are apart there, `Elsewhere` that all
other workflows agree or, during a boot, wait to be restored. An error of the
store or a kill ends what is known of the memory (`Sound`) but not of the
database: what is active has had triggers, so that a boot can restore it
(`Database`). `Strays` is the half that a leak would break: an instance that no
workflow has is closed and watches nothing. The proof follows the calls: a turn
of a call establishes `Local` at its next point (`StartingTurn`,
`StoppingTurn`, `ShutdownTurn`, `RestoringTurn`, `BootTurn`) or, with its last,
the agreement of its workflow; workers, triggers and clients change nothing of
it (`AsideSteps`), and a process that ends leaves `Database` (`EndQuiet`).

### The executor

`Executor_proofs` proves all properties of the `executor` run, for every flow,
batch and set of values: `RunTypeCorrect`, `KeysAreOwnedHolds`,
`NothingAccumulatesHolds`, `RunsWhole`, `IsolationHolds` and
`ExecutorImplementsPipeline`. The invariant `RunInv` has a part for what each
loop knows. `Places` is how far the loop of a node is and what it has set up by
then. `Keys` says that the keys in the registry are exactly those of the items
not dropped yet, of those collected and of the array read, and no two of these
are the same key: so a deletion is of a key in use and takes nothing else with
it. `Aliases` says that what a call collects is no value of the batch unless
Lua code kept it, which isolation rests on. `Contents` is what has become of
the batch the node began with, from which the end of a node is what
`BatchPipeline` promises. Even the types rest on these: a key is looked up only
because `Keys` says that it is there, and a new value can be chosen because
what the registry holds is bounded by the batch and the call (`EnoughValues`).
`DagBuilder` contributes that a flow `Build` accepts has at every node
everything the executor calls there, which it does not check again.

### The triggers

`Triggers_proofs` proves every property of the `triggers` run: `RoutesMatchHolds`,
`OneRunPerTimeHolds`, `RowIsNextRunHolds`, `EventIsKeptHolds`,
`ArmedIsStoppableHolds` and `TriggersTypeCorrect`, for every number of
workflows, instances, keys, files, events and kills. The invariant `Inv` is
proved in layers (`Lives`, `Stored`, `Mapped`, `Timely`, `Ticking`, `Routed`,
`Watching`, `Kept`, `Once`, `Unseen`), each from those before. The routes need
to know how many triggers of a list have started, and that only one instance of
a workflow is on its way. That a time is run once needs most: the time a
goroutine waits for has not been run and is later than any that another
goroutine of the workflow is about to run, those told to stop apart (`Once`);
for a goroutine that starts, because the runs of a restored workflow are older
than its boot and the row of a new one has no next run (`Unseen`). That the
row names the goroutine's time or one gone by (`Kept`) rests on the order of the
goroutine, which writes the row after it has enqueued and computed the next
time, and on rows replaced by a newer start not being written (`Ticking`,
`Stored`); what a late `WriteRow` takes the row back to has fired by then.

### The commands

`Cli_proofs` proves `CliImplementsProcess`: whatever clients do, the processes
take only steps of `DaemonProcess`. `CommandsStealNothing` follows from it and
`BootStealsNothing`.

- `RunsAtMostOnce` needs `RunInv`: before the last answer nothing has run, and
  an answer after which something may have run is none that a run falls back on.
- `ServingIsReachableHolds` needs `Sharing`: only a busy process takes files
  away by name, and processes that were busy together are remembered, so what
  one that is not remembered has made is still there.
- `StoppedMeansStoppedHolds` needs `StopInv`: the answer of a shutdown is given
  when the files are gone, and a process that has given them back gets nothing
  back, killed or not, whatever starts beside it (`ReturnedStep`).
- `CliTypeCorrect`: no handler, failed start or shutdown gives a workflow a
  second row, and a selector that is resolved names a row of the table,
  whatever `LIKE` matches.
- `SelectorsAgreeHolds` is about any finite table and any selector. Where the
  client finds something by an id or a name, the daemon looks for the same. Where
  it finds it by a prefix, the selector is made of the digits of an id
  (`PrefixIsPlain`), and on these `LIKE` is a search for a prefix
  (`LikeIsPrefix`), so both find the same rows.
- `ActsOnFoundHolds` needs `CommandInv`: what a client calls for is an id. An id
  names its own workflow to the daemon, or none when the workflow has gone: ids
  are equally long and are nobody's name (`IdNamesItself`).
- `LocalRunIsDocumentedHolds` is about any tree of files: `DirectoryTarget` says
  what becomes of a directory, `LocalEntry` of the three kinds of target.
  `CommandInv` adds that a run ends locally only by that resolution.

### Assumptions

Each proof uses only the named assumptions on the constants, all evaluated by
TLC in the runs: `StoreConstants`, `DaemonConstants` (finitely many goroutines,
for `QueueBounded`), `ProcessConstants`, `CliConstants` (ids are equally long,
made of digits, different, and nobody's name), `SituationsArise` (a situation
is a table, a tree of files, a count of commands, and commands that start only
what has an id), `ExecutorConstants` (what a file writes is a node, and a call
may return at least one item), `EnoughValues` (there are more values than a run
can hold at once), `TriggersConstants` (the clock can reach one interval; a
missing value is no number) and `ListsAreBounded` (one scheduler and one file
watcher in a list, the bound of the model).

### Only model-checked

- `QueueIsServed`: liveness under fairness is out of the prover's reach.
- The properties of the runs that expect a violation, which are false.

## Where the documents and the code differ

1. `.specs/daemon-triggers.md:19` says no two executions of a workflow run in
   parallel: run `parallel`.
2. `.specs/daemon-triggers.md:468` says a daemon stopped and started shows its
   workflows active: run `shutdown_status`.
3. `.specs/daemon-triggers.md:94` says exec returns the report: run
   `exec_report`.
4. `.specs/daemon-triggers.md:386` and `:422-424` say that `lumn daemon stop`
   ends the process: run `daemon_stop`. The process stays, its servers closed,
   and refuses every later signal (`shutdown already in progress`).

Also seen, without a run.

In the daemon and its triggers: callers that read the same length overfill the
queue (`QueueBounded` says by how much), where `.specs/daemon-triggers.md:226`
says executions beyond the limit are dropped; the run a restored scheduler has
missed is enqueued before `d.workflows` has the workflow, and so always refused
(`StartScheduler`, `Accepts`): a time that passes between a kill and
the next boot is never run, although it is in the row (`RowIsNextRun` promises
only the times still to come at the boot); the write of
`activateWorkflow` can take the row of a scheduler back to a time that has been
run, which `status` shows as the next run until the next one; a scheduler stopped in the middle of a tick
leaves its row active; two overlapping lifecycle calls of one workflow can
leave it active without a worker; a debounce timer that is reset after it fired
gives an execution an empty event, where
`docs/reference/contracts/trigger-data.md:62` says create, modify or delete;
when a shutdown fails in `finalizeWorkflowStop`, `shuttingDown` stays set.

Among the processes and commands: a second `lumnd` that does not get the port
has by then removed the socket file of the first, which goes on but can no
longer be reached; the client gives up after 30 seconds, so a `daemon stop`
that waits for an execution longer than that reports an error and is carried
out all the same; the selectors of the API are patterns of `LIKE`, where case
does not matter and `_` is any character (`SelectorsAgree` holds in one
direction only); `run` with a selector takes a file of just that name before
`<selector>.lua`, which the help (`cli.go:862-880`) does not list
(`Candidates`); `run` with a selector that the list of a live daemon does not
have fails instead of falling back to the local file (`FallsBack`).

In a flow: `call` may stand anywhere and replaces the batch, where
`docs/reference/primitives/call.md:28-29` and `:70`, `types/primitives.lua:8-9`,
`types/contracts.lua:45` and `.specs/engine-core.md:129-132` and `:209-213` say
that it must be the first node and only that (`ERR_STRUCTURE`): `Build` has no
such check (`NodeChecks`). And an emptied batch does not end the flow: set and
filter pass it on, tap runs once and a later call fills it again, where
`docs/reference/primitives/filter.md:22`, `types/primitives.lua:55-56` and
`.specs/engine-core.md:143-145` say that the workflow ends as `empty` there. On
both the documents disagree among themselves: `docs/index.md:275` and
`:1309-1311` and `docs/reference/contracts/workflow.md:26-29` describe what the
code does, and the tests ask for it (`engine_test.go:420`, `:471`, `:510`).
`BatchPipeline` states the rule of the code and of these tests, so
`PipelineSpec` shows nothing of the other. Also in a flow: a
function as `exec`, or a node that is no table, ends the process in a panic
(`NodeChecks`), because the field is asked for outside of a protected call; an
undefined name as the flow is an empty flow that ends well; the deferred
`deleteItemRefs` of `executor.go:55` gets the empty slice that `items` is at
that point; a tap is given a copy of the item, but a table that an earlier
`lumn.set` put into the state is the item's own, and a tap that gets it there
can change the item (`known` in `Isolation`).

## Not modelled

- migrations, the state directory, configuration and paths: read or written
  once before anything runs, with no state of their own;
- JSON, HTTP routing, logging, listings, argument parsing, help, tables and exit
  codes: formats that no property is about;
- the named pipes of Windows: the models have the socket;
- what `LoadDefinition` reads of a file's triggers: in `Daemon` it is a step
  that may refuse the file;
- a second scheduler or file watcher of one workflow: the code takes any number
  of each, `Triggers` one (`ListsAreBounded`), so a goroutine is that of its
  instance;
- the calendar of cron, time zones, the pattern of a file watcher: a plan is
  the multiples of an interval, an event is one that passed the pattern;
- of the Lua runtime the sandbox, `require` and the conversion of values to Go:
  sequential code over the values of the interpreter, which the models have as
  identities only;
- a handler that goes on after its client has given up, beyond the lost answer
  (`Cli`); inside one process `Daemon` has those steps;
- generated queries: `ExecutionStore` models the SQL they come from.

## Plan

1. Done: the store, its abstract lifecycle and its proofs; the daemon's
   lifecycle calls, workers and restore.
2. Done: the executor and the Lua references it holds.
3. Done: the scheduler with its catch-up, the webhook registry with several
   workflows and the debounce timers of the file watcher.
4. Done: the processes and the files they share; the commands of the CLI with
   selectors and target resolution; the checks of a flow before it runs; the
   proofs about processes and commands.
5. Done: the proofs about the daemon, the executor, the triggers and the
   commands.
6. Next: several schedulers and file watchers of one workflow in `Triggers`.
