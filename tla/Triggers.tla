------------------------------ MODULE Triggers ------------------------------
(***************************************************************************)
(* internal/daemon/daemon.go: the triggers of the managed workflows, from  *)
(* startTrigger to the Stop of their handles.  Of the calls that start and *)
(* stop a workflow only the steps that triggers see are kept, and no two   *)
(* of one workflow overlap: Daemon has all of them.  enqueueExecution is   *)
(* one step here, accepted while the workflow is mapped and accepting.     *)
(* Triggers are a list, with at most one scheduler and one file watcher.   *)
(***************************************************************************)
EXTENDS Naturals, Sequences, FiniteSets

CONSTANTS Workflows, Keys, Files, Ops, None,
          Lists,      \* the lists of triggers the file of each workflow can hold
          Interval,   \* of a scheduler
          MaxInst,    \* bound: instances ever made
          MaxEvents,  \* bound: file events
          MaxTime,    \* bound: the clock
          MaxKills    \* bound: kills of the process

ASSUME TriggersConstants ==
  /\ Interval \in Nat \ {0} /\ MaxInst \in Nat /\ MaxEvents \in Nat /\ MaxTime \in Nat /\ MaxKills \in Nat
  /\ Interval <= MaxTime + 1
  /\ None \notin Workflows \cup Files \cup Nat

Insts == 1..MaxInst

VARIABLES
  inst,      \* the managed workflows
  nextInst,
  current,   \* d.workflows
  stopped,   \* instances whose handles were told to stop
  rows,      \* the triggers of each workflow in the database
  active,    \* the workflows whose row says active
  boot,      \* those the restore of the boot has still to activate
  kills,     \* kills still to come
  runs,      \* history: executions by workflow and scheduled_at, those apart
             \* that a goroutine asks for which fires after it was told to stop
  routes, watcher, timer, callbacks, events, clock, ticker

INSTANCE WebhookRegistry
INSTANCE FileWatcher
INSTANCE Scheduler

Trigger == [kind : {"webhook"}, key : Keys] \cup [kind : {"scheduler"}, plan : Plans]
             \cup [kind : {"file_watcher"}, event : EventKinds \cup {"any"}]

AtMostOne(list, kind) ==
  \A m, n \in 1..Len(list) : list[m].kind = kind /\ list[n].kind = kind => m = n

TriggerLists ==
  {list \in Seq(Trigger) : AtMostOne(list, "scheduler") /\ AtMostOne(list, "file_watcher")}

(* Bound: one scheduler and one file watcher each, where the code takes any     *)
(* number of them.                                                             *)
ASSUME ListsAreBounded == \A w \in Workflows : Lists[w] \subseteq TriggerLists

callVars == <<inst, nextInst, current, stopped, boot, kills>>
storeVars == <<rows, active>>
watcherVars == <<watcher, timer, callbacks, events>>
schedulerVars == <<clock, ticker>>
vars == <<callVars, storeVars, runs, routes, watcherVars, schedulerVars>>

NoInst == [w |-> None, list |-> << >>, n |-> 0, phase |-> "none", row |-> 0,
           next |-> None, restoring |-> FALSE, found |-> FALSE]
Gone == [NoInst EXCEPT !.phase = "gone"]
NoRows == [id |-> 0, list |-> << >>, on |-> << >>, next |-> << >>]

Init ==
  /\ inst = [i \in Insts |-> NoInst] /\ nextInst = 1
  /\ current = [w \in Workflows |-> 0]
  /\ kills = MaxKills /\ stopped = {} /\ boot = {} /\ active = {}
  /\ rows = [w \in Workflows |-> NoRows]
  /\ runs = [w \in Workflows |-> [t \in 0..MaxTime |-> 0]]
  /\ RegistryInit /\ WatcherInit /\ SchedulerInit

At(i, phase) == inst[i].phase = phase
StepTo(i, phase) == inst' = [inst EXCEPT ![i].phase = phase]
KeysOf(list, n) == {list[m].key : m \in {m \in 1..n : list[m].kind = "webhook"}}

(* enqueueAsync of workflow w, for a run scheduled at t. *)
Accepts(w) == current[w] # 0 /\ inst[current[w]].phase \in {"mapped", "active"}
EnqueueRun(w, t) ==
  runs' = IF Accepts(w) THEN [runs EXCEPT ![w][t] = runs[w][t] + 1] ELSE runs

(* SetTriggerRuntime of trigger n of row id: nothing if the rows were replaced. *)
SetTriggerRuntime(w, id, n, on, next) ==
  rows' = IF rows[w].id = id /\ id # 0
            THEN [rows EXCEPT ![w].on[n] = on, ![w].next[n] = next] ELSE rows
-----------------------------------------------------------------------------
(* activateWorkflow, called by StartWorkflow with new rows or by the restore.  *)

Busy(w) == \E i \in Insts : inst[i].w = w

Start(w, list) ==
  /\ nextInst <= MaxInst /\ ~Busy(w) /\ w \notin boot
  /\ rows' = [rows EXCEPT ![w] =
       [id |-> nextInst, list |-> list, on |-> [n \in 1..Len(list) |-> FALSE],
        next |-> [n \in 1..Len(list) |-> None]]]
  /\ inst' = [inst EXCEPT ![nextInst] =
       [NoInst EXCEPT !.w = w, !.list = list, !.phase = "starting", !.row = nextInst,
                      !.found = rows[w] # NoRows]]
  /\ nextInst' = nextInst + 1
  /\ UNCHANGED <<kills, current, stopped, boot, active, runs, routes, watcherVars, schedulerVars>>

Restoring == \E i \in Insts : inst[i].restoring /\ inst[i].phase \notin {"active", "gone"}

Restore(w) ==
  /\ nextInst <= MaxInst /\ w \in boot /\ ~Restoring
  /\ boot' = boot \ {w}
  /\ inst' = [inst EXCEPT ![nextInst] =
       [NoInst EXCEPT !.w = w, !.list = rows[w].list, !.phase = "starting",
                      !.row = rows[w].id, !.restoring = TRUE, !.found = TRUE]]
  /\ nextInst' = nextInst + 1
  /\ UNCHANGED <<kills, current, stopped, storeVars, runs, routes, watcherVars, schedulerVars>>

(* Mutant of Started: the count of triggers is one ahead. *)
StartedAhead(i, n, next) ==
  inst' = [inst EXCEPT ![i].n = n + 1, ![i].next = next, ![i].phase = "writing"]

(* Trigger n of instance i has started; next is its next run. *)
Started(i, n, next) ==
  inst' = [inst EXCEPT ![i].n = n, ![i].next = next, ![i].phase = "writing"]

(* A run missed while no process ran is enqueued at once, when it is restored. *)
StartScheduler(i) ==
  LET n == inst[i].n + 1
      plan == inst[i].list[n].plan
      stored == rows[inst[i].w].next[n]
      missed == stored # None /\ inst[i].restoring /\ stored < clock
      next == IF stored = None \/ missed THEN NextRun(plan, clock) ELSE stored
  IN /\ At(i, "starting") /\ n <= Len(inst[i].list) /\ inst[i].list[n].kind = "scheduler"
     /\ IF missed THEN EnqueueRun(inst[i].w, stored) ELSE UNCHANGED runs
     /\ StartTicker(i, inst[i].w, inst[i].row, n, plan, next)
     /\ Started(i, n, next)
     /\ UNCHANGED <<kills, nextInst, current, stopped, boot, storeVars, routes, watcherVars>>

StartWebhook(i) ==
  LET n == inst[i].n + 1
  IN /\ At(i, "starting") /\ n <= Len(inst[i].list) /\ inst[i].list[n].kind = "webhook"
     /\ \/ Register(inst[i].w, inst[i].list[n].key) /\ Started(i, n, None)
        \/ RegisterRefused(inst[i].w, inst[i].list[n].key) /\ StepTo(i, "refused")
     /\ UNCHANGED <<kills, nextInst, current, stopped, boot, storeVars, runs,
                    watcherVars, schedulerVars>>

StartWatcher(i) ==
  LET n == inst[i].n + 1
  IN /\ At(i, "starting") /\ n <= Len(inst[i].list) /\ inst[i].list[n].kind = "file_watcher"
     /\ Watch(i, inst[i].w, inst[i].list[n].event)
     /\ Started(i, n, None)
     /\ UNCHANGED <<kills, nextInst, current, stopped, boot, storeVars, runs, routes, schedulerVars>>

(* Activation failed: the handles started are stopped, ...                     *)
Undo(i) ==
  /\ At(i, "refused")
  /\ Unregister(inst[i].w, KeysOf(inst[i].list, inst[i].n))
  /\ stopped' = stopped \cup {i}
  /\ StepTo(i, "undone")
  /\ UNCHANGED <<kills, nextInst, current, boot, storeVars, runs, watcherVars, schedulerVars>>

(* ... and the caller cleans up the database: the restore marks all stopped, a *)
(* start deletes a workflow it has created.                                    *)
GiveUp(i) ==
  LET w == inst[i].w
  IN /\ At(i, "undone")
     /\ rows' = IF inst[i].restoring
                  THEN [rows EXCEPT ![w].on = [n \in DOMAIN @ |-> FALSE],
                                    ![w].next = [n \in DOMAIN @ |-> None]]
                ELSE IF inst[i].found THEN rows ELSE [rows EXCEPT ![w] = NoRows]
     /\ active' = active \ {w}
     /\ inst' = [inst EXCEPT ![i] = Gone]
     /\ UNCHANGED <<kills, nextInst, current, stopped, boot, runs, routes, watcherVars, schedulerVars>>

(* Mutant of WriteRow: the next run is computed again.                         *)
WriteRowAgain(i) ==
  LET n == inst[i].n  trigger == inst[i].list[n]
  IN /\ At(i, "writing")
     /\ SetTriggerRuntime(inst[i].w, inst[i].row, n, TRUE,
          IF trigger.kind = "scheduler" THEN NextRun(trigger.plan, clock) ELSE None)
     /\ StepTo(i, "starting")
     /\ UNCHANGED <<kills, nextInst, current, stopped, boot, active, runs, routes,
                    watcherVars, schedulerVars>>

(* The row of a trigger that has been started: its goroutine may be ahead.     *)
WriteRow(i) ==
  /\ At(i, "writing")
  /\ SetTriggerRuntime(inst[i].w, inst[i].row, inst[i].n, TRUE, inst[i].next)
  /\ inst' = [inst EXCEPT ![i].phase = "starting", ![i].next = None]
  /\ UNCHANGED <<kills, nextInst, current, stopped, boot, active, runs, routes,
                 watcherVars, schedulerVars>>

Map(i) ==
  /\ At(i, "starting") /\ inst[i].n = Len(inst[i].list)
  /\ current' = [current EXCEPT ![inst[i].w] = i]
  /\ StepTo(i, "mapped")
  /\ UNCHANGED <<kills, nextInst, stopped, boot, storeVars, runs, routes, watcherVars, schedulerVars>>

Activate(i) ==
  /\ At(i, "mapped")
  /\ active' = active \cup {inst[i].w}
  /\ StepTo(i, "active")
  /\ UNCHANGED <<kills, nextInst, current, stopped, boot, rows, runs, routes,
                 watcherVars, schedulerVars>>
-----------------------------------------------------------------------------
(* StopWorkflow: accepting, then the steps of finalizeWorkflowStop.            *)

Close(i) ==
  /\ At(i, "active")
  /\ StepTo(i, "closed")
  /\ UNCHANGED <<kills, nextInst, current, stopped, boot, storeVars, runs, routes,
                 watcherVars, schedulerVars>>

(* Stop of each handle. *)
Halt(i) ==
  /\ At(i, "closed")
  /\ stopped' = stopped \cup {i}
  /\ Unregister(inst[i].w, KeysOf(inst[i].list, inst[i].n))
  /\ StepTo(i, "halted")
  /\ UNCHANGED <<kills, nextInst, current, boot, storeVars, runs, watcherVars, schedulerVars>>

RowsOff(i) ==
  /\ At(i, "halted")
  /\ rows' = IF rows[inst[i].w].id = inst[i].row
               THEN [rows EXCEPT ![inst[i].w].on = [n \in DOMAIN @ |-> FALSE],
                                 ![inst[i].w].next = [n \in DOMAIN @ |-> None]]
               ELSE rows
  /\ StepTo(i, "rowsOff")
  /\ UNCHANGED <<kills, nextInst, current, stopped, boot, active, runs, routes,
                 watcherVars, schedulerVars>>

StatusOff(i) ==
  /\ At(i, "rowsOff")
  /\ active' = active \ {inst[i].w}
  /\ StepTo(i, "statusOff")
  /\ UNCHANGED <<kills, nextInst, current, stopped, boot, rows, runs, routes,
                 watcherVars, schedulerVars>>

Unmap(i) ==
  /\ At(i, "statusOff")
  /\ RemoveWorkflow(inst[i].w)
  /\ current' = [current EXCEPT ![inst[i].w] = 0]
  /\ inst' = [inst EXCEPT ![i] = Gone]
  /\ UNCHANGED <<kills, nextInst, stopped, boot, storeVars, runs, watcherVars, schedulerVars>>

(* The process is killed, and another boots later: it restores what is active. *)
Kill ==
  /\ kills > 0 /\ kills' = kills - 1
  /\ clock < MaxTime /\ clock' = clock + 1
  /\ inst' = [i \in Insts |-> NoInst]
  /\ current' = [w \in Workflows |-> 0]
  /\ stopped' = {} /\ boot' = active
  /\ routes' = [k \in Keys |-> None]
  /\ watcher' = [i \in Insts |-> Off] /\ timer' = [t \in Timers |-> NoTimer]
  /\ callbacks' = {}
  /\ ticker' = [i \in Insts |-> NoTicker]
  /\ UNCHANGED <<nextInst, storeVars, runs, events>>
-----------------------------------------------------------------------------
(* The goroutines of the handles. *)

SchedulerFires(i) ==
  /\ TickerFires(i, i \in stopped)
  /\ UNCHANGED <<callVars, storeVars, runs, routes, watcherVars>>

SchedulerEnqueues(i) ==
  /\ TickerEnqueues(i)
  /\ IF ticker[i].late THEN UNCHANGED runs ELSE EnqueueRun(ticker[i].w, ticker[i].next)
  /\ UNCHANGED <<callVars, storeVars, routes, watcherVars>>

SchedulerWrites(i) ==
  /\ TickerWrites(i)
  /\ SetTriggerRuntime(ticker[i].w, ticker[i].id, ticker[i].n, TRUE, ticker[i].next)
  /\ UNCHANGED <<callVars, active, runs, routes, watcherVars>>

SchedulerStops(i) ==
  /\ i \in stopped /\ TickerStops(i)
  /\ UNCHANGED <<callVars, storeVars, runs, routes, watcherVars>>

Time ==
  /\ Tick
  /\ UNCHANGED <<callVars, storeVars, runs, routes, watcherVars>>

Rest == <<callVars, storeVars, runs, routes, schedulerVars>>
FileEvent(i) == (\E f \in Files, ops \in Ops : Event(i, f, ops)) /\ UNCHANGED Rest
DebounceFires(t) == TimerFires(t) /\ UNCHANGED Rest
DebounceCallback(t) == Callback(t) /\ UNCHANGED Rest
DebounceEnqueues == (\E c \in callbacks : CallbackEnds(c)) /\ UNCHANGED Rest
WatcherExits(i) == i \in stopped /\ WatcherStops(i) /\ UNCHANGED Rest

Next ==
  \/ \E w \in Workflows : (\E list \in Lists[w] : Start(w, list)) \/ Restore(w)
  \/ \E i \in Insts :
       \/ StartScheduler(i) \/ StartWebhook(i) \/ StartWatcher(i)
       \/ Undo(i) \/ GiveUp(i) \/ WriteRow(i) \/ Map(i) \/ Activate(i)
       \/ Close(i) \/ Halt(i) \/ RowsOff(i) \/ StatusOff(i) \/ Unmap(i)
       \/ SchedulerFires(i) \/ SchedulerEnqueues(i) \/ SchedulerWrites(i)
       \/ SchedulerStops(i) \/ FileEvent(i) \/ WatcherExits(i)
  \/ \E t \in Timers : DebounceFires(t) \/ DebounceCallback(t)
  \/ DebounceEnqueues \/ Time \/ Kill

Spec == Init /\ [][Next]_vars
-----------------------------------------------------------------------------
Phases == {"none", "starting", "writing", "refused", "undone", "mapped", "active",
           "closed", "halted", "rowsOff", "statusOff", "gone"}

(* Every variable has its type. *)
TypeOK ==
  /\ \A i \in Insts : inst[i].phase \in Phases /\ inst[i].n \in 0..Len(inst[i].list)
  /\ nextInst \in 1..(MaxInst + 1)
  /\ current \in [Workflows -> 0..MaxInst]
  /\ stopped \subseteq Insts /\ boot \subseteq Workflows /\ active \subseteq Workflows
  /\ \A w \in Workflows : \A n \in 1..Len(rows[w].list) :
       rows[w].on[n] \in BOOLEAN /\ rows[w].next[n] \in Nat \cup {None}
  /\ runs \in [Workflows -> [0..MaxTime -> Nat]]
  /\ routes \in [Keys -> Workflows \cup {None}]
  /\ \A i \in Insts : ticker[i].next \in Nat /\ ticker[i].plan \in Plans
  /\ \A t \in Timers : timer[t].due \in Nat /\ timer[t].armed \in BOOLEAN
  /\ clock \in 0..MaxTime /\ kills \in 0..MaxKills /\ events \in 0..MaxEvents

(* A route belongs to a workflow that has it among its triggers and is not     *)
(* stopped, and a workflow that is up has all its routes, whatever others      *)
(* register, fail to register or give up meanwhile (register, unregister and   *)
(* removeWorkflow).                                                            *)
RoutesMatch ==
  /\ \A k \in Keys : routes[k] # None =>
       \E i \in Insts :
         /\ inst[i].w = routes[k] /\ k \in KeysOf(inst[i].list, inst[i].n)
         /\ inst[i].phase \in {"starting", "writing", "refused", "mapped", "active", "closed"}
  /\ \A i \in Insts : inst[i].phase \in {"mapped", "active", "closed"} =>
       \A k \in KeysOf(inst[i].list, inst[i].n) : routes[k] = inst[i].w

(* A scheduled time is run at most once, across stops, starts and kills: none  *)
(* of the goroutines, the old ones and the one of a restored row, fires a time *)
(* that another has fired (startSchedulerTrigger).  The exception, which the   *)
(* code allows: a goroutine that finds its time and its stop both come.        *)
OneRunPerTime == \A w \in Workflows, t \in 0..MaxTime : runs[w][t] <= 1

(* The next run in the database, which status shows and a boot restores from,  *)
(* is the one the goroutine waits for, or a time that has come already: the    *)
(* write of activateWorkflow can come after those of the goroutine and take    *)
(* the row back (WriteRow).  So a boot that finds a time still to come waits   *)
(* for the right one (scheduler.md:31).  One that finds a time gone by drops   *)
(* that run, since its catch-up is refused, and computes the next from now.    *)
RowIsNextRun ==
  \A i \in Insts :
    inst[i].phase \in {"mapped", "active", "closed"} /\ ticker[i].pc = "waiting" =>
      LET next == rows[ticker[i].w].next[ticker[i].n]
      IN next # None /\ (next = ticker[i].next \/ (next < ticker[i].next /\ next <= clock))
=============================================================================
