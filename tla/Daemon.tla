------------------------------- MODULE Daemon -------------------------------
(***************************************************************************)
(* internal/daemon/daemon.go: the managed workflows of lumnd, the worker   *)
(* goroutine of each, and the goroutines that call into the daemon: HTTP   *)
(* handlers of the API (Operators for start, stop, restart, delete and     *)
(* shutdown, Users for exec), trigger goroutines (Firers) and the main     *)
(* goroutine (Main), which boots the daemon, restores the active workflows *)
(* and answers signals.                                                    *)
(*                                                                         *)
(* A step of a goroutine ends where it calls the store or takes a lock: in *)
(* between, every other goroutine may run.  Two such points are joined in  *)
(* one step only where the second cannot see what happens between them:    *)
(* looking a workflow up and taking its managed instance, setting          *)
(* accepting and the notify after it, publishing a report and clearing     *)
(* running; and in the boot, where nothing else runs yet.  A workflow has  *)
(* one trigger here, standing for its list; a generation of a workflow in  *)
(* d.workflows is an instance, numbered in the order they are made.        *)
(***************************************************************************)
EXTENDS ExecutionStore

CONSTANTS Operators, Users, Firers,  \* the goroutines that make calls
          Main,                      \* the main goroutine
          QueueLimit,                \* config.QueueLimit
          MaxInst,                   \* bound: instances one process makes
          MaxFaults,                 \* bound: store errors and kills together
          Requests,                  \* the lifecycle calls Operators make
          Signals,                   \* whether the process is sent SIGTERM
          RunOutcomes                \* the statuses the engine reports

Insts == 1..MaxInst

ASSUME DaemonConstants ==
  /\ Callers = Operators \cup Users \cup Firers \cup {Main}
  /\ IsFiniteSet(Callers)
  /\ Main \notin Operators \cup Users \cup Firers
  /\ Operators \cap Users = {} /\ Operators \cap Firers = {} /\ Users \cap Firers = {}
  /\ QueueLimit \in Nat \ {0} /\ MaxInst \in Nat /\ MaxFaults \in Nat
  /\ Requests \subseteq {"start", "stop", "restart", "delete", "shutdown"}
  /\ Signals \in BOOLEAN /\ RunOutcomes \subseteq Outcomes

VARIABLES
  call,          \* call[p]: where goroutine p is in the daemon's code, its locals
  inst,          \* inst[i]: managedWorkflow i and its worker
  current,       \* d.workflows: the instance of each workflow, 0 for none
  nextInst,      \* instances made so far, plus one
  waiters,       \* keys of d.waiters
  mailbox,       \* the report in the waiter channel of each execution, or None
  triggers,      \* the trigger row of each workflow: its id and whether it is active
  shuttingDown,  \* d.shuttingDown
  serving,       \* the API and webhook servers accept requests
  faults,        \* store errors and kills still to come
  failed,        \* history: a store call of this process returned an error
  overlapped,    \* history: two lifecycle calls of one process overlapped
  stray          \* history: executions created for an instance already replaced

memoryVars == <<inst, current, nextInst, waiters, mailbox, shuttingDown, serving>>
historyVars == <<overlapped, stray>>
faultVars == <<faults, failed>>
vars == <<storeVars, call, memoryVars, triggers, faultVars, historyVars>>

Idle == [pc |-> "idle", op |-> "none", w |-> None, i |-> 0, e |-> 0, trig |-> 0,
         insts |-> {}, rest |-> {}, found |-> FALSE, cancelled |-> {}]

NoInst == [w |-> None, accepting |-> FALSE, running |-> FALSE, token |-> FALSE,
           closed |-> FALSE, watching |-> FALSE, trig |-> 0,
           pc |-> "none", e |-> 0, out |-> None, late |-> 0]

NoRow == [id |-> None, active |-> FALSE]

DaemonInit ==
  /\ StoreInit
  /\ call = [p \in Callers |-> IF p = Main THEN [Idle EXCEPT !.pc = "down"] ELSE Idle]
  /\ inst = [i \in Insts |-> NoInst]
  /\ current = [w \in Workflows |-> 0]
  /\ nextInst = 1
  /\ waiters = {}
  /\ mailbox = [e \in Ids |-> None]
  /\ triggers = [w \in Workflows |-> NoRow]
  /\ shuttingDown = FALSE
  /\ serving = FALSE
  /\ faults = MaxFaults /\ failed = FALSE
  /\ overlapped = FALSE
  /\ stray = {}
-----------------------------------------------------------------------------
At(p, pc) == call[p].pc = pc
StepTo(p, pc) == call' = [call EXCEPT ![p].pc = pc]
Return(p) == call' = [call EXCEPT ![p] = Idle]

(* A store call of p returns an error and writes nothing. *)
Fault == faults > 0 /\ faults' = faults - 1 /\ failed' = TRUE

(* notify: a send on a channel of capacity one that never blocks; nobody reads *)
(* the channel of a worker that has returned.                                  *)
Notify(i) == inst' = [inst EXCEPT ![i].token = inst[i].pc # "exited"]

(* SetTriggerRuntime on row id of workflow w: nothing if the row was replaced. *)
SetTrigger(w, id, active) ==
  triggers' = IF id # None /\ triggers[w].id = id THEN [triggers EXCEPT ![w].active = active]
                                     ELSE triggers

(* Mutant of Publish: whoever waits is given the report. *)
PublishToAll(es, s) ==
  /\ mailbox' = [e \in Ids |-> IF e \in waiters /\ es # {} THEN s ELSE mailbox[e]]
  /\ waiters' = IF es # {} THEN {} ELSE waiters

(* Mutant of Publish: a report of a cancellation says ok. *)
PublishAsOk(es, s) ==
  /\ mailbox' = [e \in Ids |-> IF e \in es \cap waiters THEN "ok" ELSE mailbox[e]]
  /\ waiters' = waiters \ es

(* publishWaiter for each execution of es, with report s. *)
Publish(es, s) ==
  /\ mailbox' = [e \in Ids |-> IF e \in es \cap waiters THEN s ELSE mailbox[e]]
  /\ waiters' = waiters \ es

(* The process ends: only the database is left.  Trigger rows keep their ids;  *)
(* those of earlier processes are all written 0 here.                          *)
ProcessEnds ==
  /\ Crash
  /\ call' = [p \in Callers |-> IF p = Main THEN [Idle EXCEPT !.pc = "down"] ELSE Idle]
  /\ inst' = [i \in Insts |-> NoInst]
  /\ current' = [w \in Workflows |-> 0]
  /\ nextInst' = 1
  /\ waiters' = {}
  /\ mailbox' = [e \in Ids |-> None]
  /\ triggers' = [w \in Workflows |-> IF triggers[w] = NoRow THEN NoRow
                                     ELSE [triggers[w] EXCEPT !.id = 0]]
  /\ shuttingDown' = FALSE
  /\ serving' = FALSE
  /\ stray' = {}
  /\ failed' = FALSE
  /\ UNCHANGED overlapped
-----------------------------------------------------------------------------
(* enqueueExecution, called by a trigger goroutine or by ExecWorkflow.         *)

(* A live trigger of instance i fires: a scheduler ("tick"), whose goroutine   *)
(* then writes its next run, or a webhook or file watcher ("fire").            *)
Fire(p, i, op) ==
  /\ p \in Firers /\ At(p, "idle") /\ up /\ nextId <= MaxExec
  /\ inst[i].watching
  /\ call' = [call EXCEPT ![p] = [Idle EXCEPT !.pc = "accept", !.op = op,
                                   !.w = inst[i].w, !.trig = inst[i].trig]]
  /\ UNCHANGED <<storeVars, memoryVars, triggers, faultVars, historyVars>>

(* Where a caller goes when enqueueExecution has returned. *)
AfterEnqueue(p) ==
  IF call[p].op = "tick" THEN StepTo(p, "rearm") ELSE Return(p)

(* resolveWorkflow, getManagedWorkflowByID, isAccepting find instance i.  *)
Accepts(w, i) == Exists(w) /\ i = current[w] /\ i # 0 /\ inst[i].accepting

Accept(p) ==
  LET i == current[call[p].w]
  IN /\ At(p, "accept")
     /\ IF Accepts(call[p].w, i)
          THEN call' = [call EXCEPT ![p].pc = "count", ![p].i = i]
          ELSE AfterEnqueue(p)
     /\ UNCHANGED <<storeVars, memoryVars, triggers, faultVars, historyVars>>

(* POST /exec, up to the same point: when it arrives does not matter before.   *)
(* An instance restored without trigger rows has no manual trigger.            *)
Exec(p, w) ==
  LET i == current[w]
  IN /\ p \in Users /\ At(p, "idle") /\ serving /\ nextId <= MaxExec
     /\ Accepts(w, i) /\ inst[i].trig # None
     /\ call' = [call EXCEPT ![p] = [Idle EXCEPT !.pc = "count", !.op = "exec",
                                                 !.w = w, !.i = i]]
     /\ UNCHANGED <<storeVars, memoryVars, triggers, faultVars, historyVars>>

(* Mutant of Count: no limit. *)
CountUnlimited(p) ==
  /\ At(p, "count")
  /\ BeginCreate(p)
  /\ StepTo(p, "create")
  /\ UNCHANGED <<memoryVars, triggers, faultVars, historyVars>>

(* QueueCount; below the limit, CreateQueuedExecution begins. *)
Count(p) ==
  /\ At(p, "count")
  /\ \/ /\ QueueCount(call[p].w) < QueueLimit
        /\ BeginCreate(p)
        /\ StepTo(p, "create")
        /\ UNCHANGED faultVars
     \/ /\ QueueCount(call[p].w) >= QueueLimit
        /\ AfterEnqueue(p)
        /\ UNCHANGED <<storeVars, faultVars>>
     \/ Fault /\ AfterEnqueue(p) /\ UNCHANGED storeVars
  /\ UNCHANGED <<memoryVars, triggers, historyVars>>

(* The transaction commits, or fails: on a store error, because the workflow's *)
(* row is gone, or (a bound of the model) because MaxExec rows were created.   *)
Create(p) ==
  LET w == call[p].w
  IN /\ At(p, "create")
     /\ \/ /\ CommitCreate(p, w)
           /\ call' = [call EXCEPT ![p].pc = "notify", ![p].e = nextId]
           /\ stray' = IF current[w] \in {0, call[p].i} THEN stray ELSE stray \cup {nextId}
           /\ UNCHANGED faultVars
        \/ /\ AbortCreate(p)
           /\ Fault \/ ((~Exists(w) \/ nextId > MaxExec) /\ UNCHANGED faultVars)
           /\ AfterEnqueue(p)
           /\ UNCHANGED stray
     /\ UNCHANGED <<memoryVars, triggers, overlapped>>

NotifyWorker(p) ==
  /\ At(p, "notify")
  /\ Notify(call[p].i)
  /\ IF call[p].op = "exec" THEN StepTo(p, "register") ELSE AfterEnqueue(p)
  /\ UNCHANGED <<storeVars, current, nextInst, waiters, mailbox, shuttingDown, serving,
                 triggers, faultVars, historyVars>>

(* The scheduler goroutine writes its next run: the row is active again. *)
Rearm(p) ==
     /\ At(p, "rearm")
     /\ \/ SetTrigger(call[p].w, call[p].trig, TRUE) /\ UNCHANGED faultVars
        \/ Fault /\ UNCHANGED triggers
     /\ Return(p)
     /\ UNCHANGED <<storeVars, memoryVars, historyVars>>

(* ExecWorkflow stores its waiter, notifies again and waits. *)
Register(p) ==
  /\ At(p, "register")
  /\ waiters' = waiters \cup {call[p].e}
  /\ Notify(call[p].i)
  /\ StepTo(p, "await")
  /\ UNCHANGED <<storeVars, current, nextInst, mailbox, shuttingDown, serving, triggers,
                 faultVars, historyVars>>

(* The report arrives, or ShutdownTimeout passes first; deleteWaiter. *)
Await(p) ==
  LET e == call[p].e
  IN /\ At(p, "await")
     /\ waiters' = waiters \ {e}
     /\ mailbox' = [mailbox EXCEPT ![e] = None]
     /\ Return(p)
     /\ UNCHANGED <<storeVars, inst, current, nextInst, shuttingDown, serving, triggers,
                    faultVars, historyVars>>
-----------------------------------------------------------------------------
(* workerLoop of instance i. *)

WorkerAt(i, pc) == inst[i].pc = pc
WorkerTo(i, pc) == inst' = [inst EXCEPT ![i].pc = pc]

(* Mutant of LoopPc: the inner loop goes on until the queue is empty. *)
LoopPcAlways(i) == "claim"

(* The inner loop goes on while isAccepting. *)
LoopPc(i) == IF inst[i].accepting THEN "claim" ELSE "wait"

(* select: a notification, or stopCh closed; with both, either.  The first     *)
(* isAccepting joins the receive: whoever accepts again notifies after.        *)
Wake(i) ==
  /\ WorkerAt(i, "wait")
  /\ \/ inst[i].token /\ inst' = [inst EXCEPT ![i].pc = LoopPc(i), ![i].token = FALSE]
     \/ inst[i].closed /\ inst' = [inst EXCEPT ![i].pc = "exited", ![i].token = FALSE,
                                                  ![i].late = 0]
  /\ UNCHANGED <<storeVars, call, current, nextInst, waiters, mailbox, shuttingDown,
                 serving, triggers, faultVars, historyVars>>

Check(i) ==
  /\ WorkerAt(i, "check")
  /\ WorkerTo(i, LoopPc(i))
  /\ UNCHANGED <<storeVars, call, current, nextInst, waiters, mailbox, shuttingDown,
                 serving, triggers, faultVars, historyVars>>

(* An item, none, or an error: the last two end the inner loop. *)
Claim(i) ==
  /\ WorkerAt(i, "claim")
  /\ \/ /\ \E e \in Ids :
             /\ ClaimNextQueueItem(inst[i].w, e)
             /\ inst' = [inst EXCEPT ![i].pc = "mark", ![i].e = e,
                          ![i].late = IF inst[i].accepting THEN @ ELSE @ + 1]
        /\ UNCHANGED faultVars
     \/ /\ QueueOf(inst[i].w) = {}
        /\ WorkerTo(i, "wait")
        /\ UNCHANGED <<storeVars, faultVars>>
     \/ Fault /\ WorkerTo(i, "wait") /\ UNCHANGED storeVars
  /\ UNCHANGED <<call, current, nextInst, waiters, mailbox, shuttingDown, serving,
                 triggers, historyVars>>

Mark(i) ==
  /\ WorkerAt(i, "mark")
  /\ inst' = [inst EXCEPT ![i].pc = "run", ![i].running = TRUE]
  /\ UNCHANGED <<storeVars, call, current, nextInst, waiters, mailbox, shuttingDown,
                 serving, triggers, faultVars, historyVars>>

(* The engine returns a report; CompleteExecution writes it, or fails. *)
Run(i) ==
  /\ WorkerAt(i, "run")
  /\ \E s \in RunOutcomes :
       /\ inst' = [inst EXCEPT ![i].pc = "report", ![i].out = s]
       /\ \/ CompleteExecution(inst[i].e, s) /\ UNCHANGED faultVars
          \/ FailCompletion(inst[i].e) /\ Fault
  /\ UNCHANGED <<call, current, nextInst, waiters, mailbox, shuttingDown, serving,
                 triggers, historyVars>>

(* publishWaiter, setRunning(false). *)
Report(i) ==
  /\ WorkerAt(i, "report")
  /\ Publish({inst[i].e}, inst[i].out)
  /\ inst' = [inst EXCEPT ![i].pc = "check", ![i].running = FALSE,
                          ![i].e = 0, ![i].out = None]
  /\ UNCHANGED <<storeVars, call, current, nextInst, shuttingDown, serving, triggers,
                 faultVars, historyVars>>

Worker(i) == Wake(i) \/ Check(i) \/ Claim(i) \/ Mark(i) \/ Run(i) \/ Report(i)
-----------------------------------------------------------------------------
(* StopWorkflow, DeleteWorkflow, RestartWorkflow, StartWorkflow and Shutdown   *)
(* share their first half: stop accepting, wait for the worker, then           *)
(* finalizeWorkflowStop.  op says which of them continues after it.            *)

LifecycleOps == {"start", "stop", "restart", "delete", "shutdown", "restore"}
Busy(p) == call[p].op \in LifecycleOps
NoteOverlap == overlapped' = (overlapped \/ \E p \in Operators \cup {Main} : Busy(p))

(* resolveWorkflow, and the branch on the status read with it; a call that     *)
(* returns at once is no step.                                                 *)
Request(p, op, w) ==
  /\ p \in Operators /\ At(p, "idle") /\ serving /\ op # "shutdown"
  /\ \/ workflows[w] = "active"
     \/ workflows[w] = "stopped" /\ op \in {"delete", "restart"}
  /\ call' = [call EXCEPT ![p] = [Idle EXCEPT !.op = op, !.w = w,
                 !.pc = IF workflows[w] = "active" THEN "close"
                        ELSE IF op = "delete" THEN "deleteRow" ELSE "load"]]
  /\ NoteOverlap
  /\ UNCHANGED <<storeVars, memoryVars, triggers, faultVars, stray>>

(* StartWorkflow: LoadDefinition and validateTriggers may refuse the file on   *)
(* disk; then GetWorkflowByNameVersion.                                        *)
Loaded(p, w) ==
  call' = [call EXCEPT ![p] = [Idle EXCEPT !.op = "start", !.w = w, !.found = Exists(w),
             !.pc = IF workflows[w] = "active" THEN "close" ELSE "upsert"]]

RequestStart(p, w) ==
  /\ p \in Operators /\ At(p, "idle") /\ serving /\ nextInst <= MaxInst
  /\ Loaded(p, w)
  /\ NoteOverlap
  /\ UNCHANGED <<storeVars, memoryVars, triggers, faultVars, stray>>

Load(p) ==
  /\ At(p, "load")
  /\ Loaded(p, call[p].w) \/ Return(p)
  /\ UNCHANGED <<storeVars, memoryVars, triggers, faultVars, historyVars>>

(* getManagedWorkflowByID, setAccepting(false).  Without an instance the call  *)
(* fails, except in StartWorkflow, which only writes the status.               *)
Close(p) ==
  LET i == current[call[p].w]
  IN /\ At(p, "close")
     /\ \/ /\ i # 0
           /\ inst' = [inst EXCEPT ![i].accepting = FALSE]
           /\ call' = [call EXCEPT ![p].pc = "drain", ![p].i = i]
        \/ /\ i = 0
           /\ IF call[p].op = "start" THEN StepTo(p, "markStopped") ELSE Return(p)
           /\ UNCHANGED inst
     /\ UNCHANGED <<storeVars, current, nextInst, waiters, mailbox, shuttingDown, serving,
                    triggers, faultVars, historyVars>>

MarkStopped(p) ==
  /\ At(p, "markStopped")
  /\ \/ SetWorkflowStatus(call[p].w, "stopped") /\ StepTo(p, "upsert") /\ UNCHANGED faultVars
     \/ Fault /\ Return(p) /\ UNCHANGED storeVars
  /\ UNCHANGED <<memoryVars, triggers, historyVars>>

(* waitIdle: running is false, or the deadline passes while it is true. *)
Drain(p) ==
  /\ At(p, "drain")
  /\ StepTo(p, IF inst[call[p].i].running THEN "reopen" ELSE "cancel")
  /\ UNCHANGED <<storeVars, memoryVars, triggers, faultVars, historyVars>>

(* Mutant of Reopen: no notify. *)
ReopenQuietly(p) ==
  /\ At(p, "reopen")
  /\ inst' = [inst EXCEPT ![call[p].i].accepting = TRUE, ![call[p].i].late = 0]
  /\ Return(p)
  /\ UNCHANGED <<storeVars, current, nextInst, waiters, mailbox, shuttingDown, serving,
                 triggers, faultVars, historyVars>>

Reopen(p) ==
  /\ At(p, "reopen")
  /\ inst' = [inst EXCEPT ![call[p].i].accepting = TRUE, ![call[p].i].token = TRUE,
                          ![call[p].i].late = 0]
  /\ Return(p)
  /\ UNCHANGED <<storeVars, current, nextInst, waiters, mailbox, shuttingDown, serving,
                 triggers, faultVars, historyVars>>

(* finalizeWorkflowStop, one action per step; an error returns at once. *)
Cancel(p) ==
  LET w == call[p].w
  IN /\ At(p, "cancel")
     /\ \/ /\ CancelQueuedExecutions(w)
           /\ call' = [call EXCEPT ![p].pc = "halt", ![p].cancelled = Cancelled(w)]
           /\ UNCHANGED faultVars
        \/ Fault /\ Return(p) /\ UNCHANGED storeVars
     /\ UNCHANGED <<memoryVars, triggers, historyVars>>

(* Publish the cancellations, stop the trigger handles, close(stopCh).         *)
(* Closing it twice panics: the server recovers a handler's panic, the main    *)
(* goroutine's ends the process.                                               *)
Halt(p) ==
  LET i == call[p].i
  IN /\ At(p, "halt")
     /\ IF inst[i].closed /\ p = Main
          THEN ProcessEnds /\ UNCHANGED faults
          ELSE /\ Publish({e \in call[p].cancelled : status[e] # "none"}, "error")
               /\ inst' = [inst EXCEPT ![i].closed = TRUE, ![i].watching = FALSE]
               /\ IF inst[i].closed THEN Return(p)
                  ELSE call' = [call EXCEPT ![p].pc = "triggersOff", ![p].cancelled = {}]
               /\ UNCHANGED <<storeVars, current, nextInst, shuttingDown, serving, triggers,
                              faultVars, historyVars>>

TriggersOff(p) ==
  LET w == call[p].w
  IN /\ At(p, "triggersOff")
     /\ \/ /\ SetTrigger(w, inst[call[p].i].trig, FALSE)
           /\ StepTo(p, "statusOff")
           /\ UNCHANGED faultVars
        \/ Fault /\ Return(p) /\ UNCHANGED triggers
     /\ UNCHANGED <<storeVars, memoryVars, historyVars>>

StatusOff(p) ==
  /\ At(p, "statusOff")
  /\ \/ SetWorkflowStatus(call[p].w, "stopped") /\ StepTo(p, "unmap") /\ UNCHANGED faultVars
     \/ Fault /\ Return(p) /\ UNCHANGED storeVars
  /\ UNCHANGED <<memoryVars, triggers, historyVars>>

(* Shutdown finalizes its instances one after the other. *)
NextToFinalize(p) ==
  LET rest == call[p].rest
  IN IF rest = {} THEN StepTo(p, "disconnect")
     ELSE \E i \in rest : call' = [call EXCEPT ![p].pc = "cancel", ![p].i = i,
                                    ![p].w = inst[i].w, ![p].rest = rest \ {i}]

Unmap(p) ==
  /\ At(p, "unmap")
  /\ current' = [current EXCEPT ![call[p].w] = 0]
  /\ CASE call[p].op = "stop"     -> Return(p)
       [] call[p].op = "delete"   -> StepTo(p, "deleteRow")
       [] call[p].op = "restart"  -> StepTo(p, "load")
       [] call[p].op = "start"    -> StepTo(p, "upsert")
       [] call[p].op = "shutdown" -> NextToFinalize(p)
  /\ UNCHANGED <<storeVars, inst, nextInst, waiters, mailbox, shuttingDown, serving,
                 triggers, faultVars, historyVars>>

(* store.DeleteWorkflow, by DELETE or to undo a first start that failed. *)
DeleteRow(p) ==
  LET w == call[p].w
  IN /\ At(p, "deleteRow")
     /\ \/ /\ \E enforced \in EnforcesKeys :
                /\ DeleteWorkflow(w, enforced)
                /\ triggers' = IF enforced THEN [triggers EXCEPT ![w] = NoRow] ELSE triggers
           /\ UNCHANGED faultVars
        \/ Fault /\ UNCHANGED <<storeVars, triggers>>
     /\ Return(p)
     /\ UNCHANGED <<memoryVars, historyVars>>
-----------------------------------------------------------------------------
(* The second half of StartWorkflow, and activateWorkflow, which the restore   *)
(* of the boot runs too.                                                       *)

Upsert(p) ==
  /\ At(p, "upsert")
  /\ \/ UpsertWorkflow(call[p].w, "stopped") /\ StepTo(p, "replace") /\ UNCHANGED faultVars
     \/ Fault /\ Return(p) /\ UNCHANGED storeVars
  /\ UNCHANGED <<memoryVars, triggers, historyVars>>

(* What a failed step leaves to do: StartWorkflow deletes the row it added,    *)
(* the restore marks the workflow stopped.                                     *)
ActivationFails(p) ==
  CASE call[p].op = "restore" -> StepTo(p, "giveUp")
    [] call[p].op = "start" /\ ~call[p].found -> StepTo(p, "deleteRow")
    [] OTHER -> Return(p)

(* ReplaceWorkflowTriggers; its foreign key needs the row of the workflow.     *)
Replace(p) ==
  LET w == call[p].w
  IN /\ At(p, "replace")
     /\ \/ /\ nextInst <= MaxInst
           /\ \E enforced \in EnforcesKeys : enforced => Exists(w)
           /\ triggers' = [triggers EXCEPT ![w] = [id |-> nextInst, active |-> FALSE]]
           /\ call' = [call EXCEPT ![p].pc = "arm", ![p].i = nextInst, ![p].trig = nextInst]
           /\ nextInst' = nextInst + 1
           /\ UNCHANGED faultVars
        \/ /\ Fault \/ ((~Exists(w) \/ nextInst > MaxInst) /\ UNCHANGED faultVars)
           /\ ActivationFails(p)
           /\ UNCHANGED <<triggers, nextInst>>
     /\ UNCHANGED <<storeVars, inst, current, waiters, mailbox, shuttingDown, serving,
                    historyVars>>

(* startTrigger: from here on the trigger fires.  It may fail (a path that is  *)
(* gone, a route already taken), and then the handles are stopped again.       *)
Arm(p) ==
  /\ At(p, "arm")
  /\ \/ /\ inst' = [inst EXCEPT ![call[p].i] =
                  [NoInst EXCEPT !.w = call[p].w, !.trig = call[p].trig,
                                 !.accepting = TRUE, !.watching = call[p].trig # None]]
        /\ StepTo(p, "triggersOn")
     \/ ActivationFails(p) /\ UNCHANGED inst
  /\ UNCHANGED <<storeVars, current, nextInst, waiters, mailbox, shuttingDown, serving,
                 triggers, faultVars, historyVars>>

TriggersOn(p) ==
  /\ At(p, "triggersOn")
  /\ \/ /\ SetTrigger(call[p].w, call[p].trig, TRUE)
        /\ StepTo(p, "spawn")
        /\ UNCHANGED faultVars
     \/ Fault /\ ActivationFails(p) /\ UNCHANGED triggers
  /\ UNCHANGED <<storeVars, memoryVars, historyVars>>

(* go workerLoop; d.workflows[w] is this instance, whatever it was.            *)
Spawn(p) ==
  /\ At(p, "spawn")
  /\ inst' = [inst EXCEPT ![call[p].i].pc = "wait"]
  /\ current' = [current EXCEPT ![call[p].w] = call[p].i]
  /\ StepTo(p, "statusOn")
  /\ UNCHANGED <<storeVars, nextInst, waiters, mailbox, shuttingDown, serving, triggers,
                 faultVars, historyVars>>

StatusOn(p) ==
  /\ At(p, "statusOn")
  /\ \/ UpsertWorkflow(call[p].w, "active") /\ StepTo(p, "wake") /\ UNCHANGED faultVars
     \/ Fault /\ ActivationFails(p) /\ UNCHANGED storeVars
  /\ UNCHANGED <<memoryVars, triggers, historyVars>>

(* Mutant of WakeUp: what was queued before the activation wakes nobody. *)
WakeUpQuietly(p) ==
  /\ At(p, "wake")
  /\ IF call[p].op = "restore" THEN StepTo(p, "restore") ELSE Return(p)
  /\ UNCHANGED <<storeVars, memoryVars, triggers, faultVars, historyVars>>

WakeUp(p) ==
  /\ At(p, "wake")
  /\ Notify(call[p].i)
  /\ IF call[p].op = "restore" THEN StepTo(p, "restore") ELSE Return(p)
  /\ UNCHANGED <<storeVars, current, nextInst, waiters, mailbox, shuttingDown, serving,
                 triggers, faultVars, historyVars>>
-----------------------------------------------------------------------------
(* Run: close what the last process left running, apply the retention, serve,  *)
(* restore.  An error before the restore ends the process (log.Fatal).         *)
Boot ==
  /\ At(Main, "down")
  /\ MarkStaleRunningExecutions
  /\ call' = [call EXCEPT ![Main].pc = "retain", ![Main].op = "restore"]
  /\ UNCHANGED <<memoryVars, triggers, faultVars, historyVars>>

Retain ==
  /\ At(Main, "retain")
  /\ ApplyRetention
  /\ serving' = TRUE
  /\ StepTo(Main, "list")
  /\ UNCHANGED <<inst, current, nextInst, waiters, mailbox, shuttingDown, triggers,
                 faultVars, historyVars>>

ListActive ==
  /\ At(Main, "list")
  /\ call' = [call EXCEPT ![Main].pc = "restore",
                          ![Main].rest = {w \in Workflows : workflows[w] = "active"}]
  /\ UNCHANGED <<storeVars, memoryVars, triggers, faultVars, historyVars>>

(* The next workflow of the list, with the trigger rows it has now.            *)
RestoreNext ==
  LET rest == call[Main].rest
  IN /\ At(Main, "restore")
     /\ \/ /\ rest = {} /\ Return(Main)
           /\ UNCHANGED nextInst
        \/ /\ nextInst <= MaxInst
           /\ \E w \in rest :
                call' = [call EXCEPT ![Main].pc = "arm", ![Main].w = w, ![Main].i = nextInst,
                           ![Main].trig = triggers[w].id, ![Main].rest = rest \ {w}]
           /\ nextInst' = nextInst + 1
     /\ UNCHANGED <<storeVars, inst, current, waiters, mailbox, shuttingDown, serving,
                    triggers, faultVars, historyVars>>

(* Mutant of GiveUp: a workflow that could not be restored stays active. *)
GiveUpSilently ==
  /\ At(Main, "giveUp")
  /\ StepTo(Main, "giveUpTriggers")
  /\ UNCHANGED <<storeVars, memoryVars, triggers, faultVars, historyVars>>

(* restoreActiveWorkflows ignores the errors of these two calls.               *)
GiveUp ==
  /\ At(Main, "giveUp")
  /\ \/ SetWorkflowStatus(call[Main].w, "stopped") /\ UNCHANGED faultVars
     \/ Fault /\ UNCHANGED storeVars
  /\ StepTo(Main, "giveUpTriggers")
  /\ UNCHANGED <<memoryVars, triggers, historyVars>>

GiveUpTriggers ==
  /\ At(Main, "giveUpTriggers")
  /\ \/ SetTrigger(call[Main].w, call[Main].trig, FALSE) /\ UNCHANGED faultVars
     \/ Fault /\ UNCHANGED triggers
  /\ StepTo(Main, "restore")
  /\ UNCHANGED <<storeVars, memoryVars, historyVars>>

BootFails ==
  /\ call[Main].pc \in {"retain", "list"} \/ (At(Main, "restore") /\ call[Main].rest # {})
  /\ faults > 0 /\ faults' = faults - 1
  /\ ProcessEnds
-----------------------------------------------------------------------------
(* Shutdown, called by a signal (Main, which then leaves the process) or by    *)
(* POST /daemon/shutdown (a handler, after which the process goes on).         *)

Shutdown(p) ==
  LET managed == {current[w] : w \in Workflows} \ {0}
  IN /\ At(p, "idle") /\ ~shuttingDown
     /\ IF p = Main THEN Signals ELSE serving /\ "shutdown" \in Requests
     /\ shuttingDown' = TRUE
     /\ inst' = [i \in Insts |-> IF i \in managed
                                THEN [inst[i] EXCEPT !.accepting = FALSE] ELSE inst[i]]
     /\ call' = [call EXCEPT ![p] = [Idle EXCEPT !.pc = "drainAll", !.op = "shutdown",
                                      !.insts = managed, !.rest = managed]]
     /\ NoteOverlap
     /\ UNCHANGED <<storeVars, current, nextInst, waiters, mailbox, serving, triggers,
                    faultVars, stray>>

(* waitIdle of one instance after the other, all before one deadline.          *)
DrainAll(p) ==
  LET rest == call[p].rest
  IN /\ At(p, "drainAll")
     /\ \/ \E i \in rest : /\ ~inst[i].running
                           /\ call' = [call EXCEPT ![p].rest = rest \ {i}]
        \/ (\E i \in rest : inst[i].running) /\ StepTo(p, "reopenAll")
        \/ /\ rest = {}
           /\ call' = [call EXCEPT ![p].pc = "finalize", ![p].rest = call[p].insts]
     /\ UNCHANGED <<storeVars, memoryVars, triggers, faultVars, historyVars>>

(* Mutant of ReopenAll: no notify. *)
ReopenAllQuietly(p) ==
  /\ At(p, "reopenAll")
  /\ inst' = [i \in Insts |-> IF i \in call[p].insts
                             THEN [inst[i] EXCEPT !.accepting = TRUE, !.late = 0] ELSE inst[i]]
  /\ shuttingDown' = FALSE
  /\ Return(p)
  /\ UNCHANGED <<storeVars, current, nextInst, waiters, mailbox, serving, triggers,
                 faultVars, historyVars>>

ReopenAll(p) ==
  /\ At(p, "reopenAll")
  /\ inst' = [i \in Insts |-> IF i \in call[p].insts
                             THEN [inst[i] EXCEPT !.accepting = TRUE, !.token = TRUE,
                                                  !.late = 0] ELSE inst[i]]
  /\ shuttingDown' = FALSE
  /\ Return(p)
  /\ UNCHANGED <<storeVars, current, nextInst, waiters, mailbox, serving, triggers,
                 faultVars, historyVars>>

Finalize(p) ==
  /\ At(p, "finalize")
  /\ NextToFinalize(p)
  /\ UNCHANGED <<storeVars, memoryVars, triggers, faultVars, historyVars>>

Disconnect(p) ==
  /\ At(p, "disconnect")
  /\ serving' = FALSE
  /\ IF p = Main THEN StepTo(p, "exit") ELSE Return(p)
  /\ UNCHANGED <<storeVars, inst, current, nextInst, waiters, mailbox, shuttingDown,
                 triggers, faultVars, historyVars>>

Exit == At(Main, "exit") /\ ProcessEnds /\ UNCHANGED faults
Kill == faults > 0 /\ faults' = faults - 1 /\ ProcessEnds

(* retentionLoop, time, and the connection pool.                               *)
Background ==
  /\ \/ At(Main, "idle") /\ ApplyRetention
     \/ Tick
     \/ OpenConnection
  /\ UNCHANGED <<call, memoryVars, triggers, faultVars, historyVars>>
-----------------------------------------------------------------------------
Enqueuing(p) ==
  \/ Accept(p) \/ Count(p) \/ Create(p) \/ NotifyWorker(p) \/ Rearm(p) \/ Register(p) \/ Await(p)
Stopping(p) ==
  \/ Close(p) \/ Drain(p) \/ Reopen(p) \/ Cancel(p)
  \/ Halt(p) \/ TriggersOff(p) \/ StatusOff(p) \/ Unmap(p) \/ DeleteRow(p)
  \/ DrainAll(p) \/ ReopenAll(p) \/ Finalize(p) \/ Disconnect(p)
Starting(p) ==
  \/ Load(p) \/ MarkStopped(p) \/ Upsert(p) \/ Replace(p) \/ Arm(p) \/ TriggersOn(p)
  \/ Spawn(p) \/ StatusOn(p) \/ WakeUp(p)
Restoring == \/ Retain \/ ListActive \/ RestoreNext \/ GiveUp \/ GiveUpTriggers

DaemonNext ==
  \/ \E p \in Firers, i \in Insts : Fire(p, i, "fire") \/ Fire(p, i, "tick")
  \/ \E p \in Users, w \in Workflows : Exec(p, w)
  \/ \E p \in Operators, w \in Workflows, op \in Requests :
       IF op = "start" THEN RequestStart(p, w) ELSE Request(p, op, w)
  \/ \E p \in Operators \cup {Main} : Shutdown(p)
  \/ \E p \in Callers : Enqueuing(p) \/ Stopping(p) \/ Starting(p)
  \/ \E i \in Insts : Worker(i)
  \/ Boot \/ Restoring \/ BootFails \/ Exit \/ Kill \/ Background

DaemonSpec == DaemonInit /\ [][DaemonNext]_vars

(* The scheduler of Go runs every goroutine that can run, and an execution     *)
(* ends.  Boot is not fair: when lumnd has ended, only somebody who runs       *)
(* "lumn daemon start" starts it again (client.go:158 just says so).           *)
Fairness ==
  /\ \A i \in Insts : WF_vars(Worker(i))
  /\ \A p \in Callers : WF_vars(Enqueuing(p) \/ Stopping(p) \/ Starting(p))
  /\ WF_vars(Restoring)
FairDaemonSpec == DaemonSpec /\ Fairness
-----------------------------------------------------------------------------
PcsOf == {"idle", "down", "retain", "list", "restore", "giveUp", "giveUpTriggers",
          "accept", "count", "create", "notify", "rearm", "register", "await",
          "load", "close", "markStopped", "drain", "reopen", "cancel", "halt",
          "triggersOff", "statusOff", "unmap", "deleteRow", "upsert", "replace", "arm",
          "triggersOn", "spawn", "statusOn", "wake", "drainAll", "reopenAll", "finalize",
          "disconnect", "exit"}
WorkerPcs == {"none", "wait", "check", "claim", "mark", "run", "report", "exited"}

Locals == [pc : PcsOf, op : LifecycleOps \cup {"none", "exec", "fire", "tick"},
           w : Workflows \cup {None}, i : Insts \cup {0}, e : Ids \cup {0},
           trig : Insts \cup {0, None}, insts : SUBSET Insts,
           rest : (SUBSET Insts) \cup (SUBSET Workflows),
           found : BOOLEAN, cancelled : SUBSET Ids]
ManagedWorkflow ==
  [w : Workflows \cup {None}, accepting : BOOLEAN, running : BOOLEAN, token : BOOLEAN,
   closed : BOOLEAN, watching : BOOLEAN, trig : Insts \cup {0, None},
   pc : WorkerPcs, e : Ids \cup {0}, out : Outcomes \cup {None}, late : Nat]

DaemonTypeOK ==
  /\ TypeOK
  /\ call \in [Callers -> Locals]
  /\ inst \in [Insts -> ManagedWorkflow]
  /\ current \in [Workflows -> Insts \cup {0}]
  /\ nextInst \in 1..(MaxInst + 1)
  /\ waiters \subseteq Ids
  /\ mailbox \in [Ids -> Outcomes \cup {None}]
  /\ triggers \in [Workflows -> [id : Insts \cup {0, None}, active : BOOLEAN]]
  /\ shuttingDown \in BOOLEAN /\ serving \in BOOLEAN
  /\ faults \in 0..MaxFaults /\ failed \in BOOLEAN
  /\ overlapped \in BOOLEAN
  /\ stray \subseteq Ids
-----------------------------------------------------------------------------
Working(i) == inst[i].pc \in {"mark", "run"}

(* QueueCount and CreateQueuedExecution are two statements, so callers that    *)
(* pass the check together overshoot QueueLimit; each by one at most, and no   *)
(* restart, cancellation or new instance in between adds to that.              *)
QueueBounded ==
  \A w \in Workflows :
    QueueCount(w) < QueueLimit + Cardinality(Users \cup Firers)

(* Even with two workers of one workflow alive (a second start while the first *)
(* worker still runs), an execution is in the hands of one worker, and what    *)
(* the workers hold is what the store says they claimed.                       *)
OneWorkerPerExecution ==
  /\ \A i, j \in Insts : Working(i) /\ Working(j) /\ i # j => inst[i].e # inst[j].e
  /\ held = {inst[i].e : i \in {j \in Insts : Working(j)}}

(* Once setAccepting(false) has closed an instance, its worker starts at most  *)
(* one more execution: the one it was about to claim.                          *)
AtMostOneLateStart == \A i \in Insts : inst[i].late <= 1

(* The report ExecWorkflow is given is the outcome on record: the waiter is    *)
(* published after CompleteExecution, after the cancelling transaction, and    *)
(* never for another execution, unless writing the outcome failed.             *)
ReportsAreTrue ==
  \A e \in Ids : mailbox[e] # None =>
     status[e] \in {mailbox[e], "none"} \/ e \in lost

(* No wake-up is lost: when the worker of the current, accepting instance      *)
(* sleeps and its channel is empty while an execution is queued, someone is    *)
(* still to notify it.  Two escapes: a claim or a start that failed with a     *)
(* store error, and executions created through an instance already replaced,   *)
(* whose notify goes to the old worker.                                        *)
NoLostWakeup ==
  \A w \in Workflows :
    LET i == current[w]
    IN /\ i # 0 /\ ~failed
       /\ inst[i].accepting /\ inst[i].pc = "wait" /\ ~inst[i].token /\ ~inst[i].closed
       /\ QueueOf(w) \ stray # {}
       => \E p \in Callers : /\ call[p].pc \in {"notify", "wake", "statusOn"}
                             /\ call[p].i = i

(* As long as lifecycle calls do not overlap and the store works,              *)
(* the database and the memory agree whenever none is in progress: an active   *)
(* workflow is exactly one with a live, accepting, watching instance and an    *)
(* active trigger row; every other instance has been told to stop.  This is    *)
(* what status reports, what stop can reach and what a restart restores.       *)
Quiet == up /\ serving /\ ~overlapped /\ ~failed /\ ~shuttingDown
         /\ \A p \in Operators \cup {Main} : At(p, "idle")
ConsistentWhenQuiet ==
  Quiet =>
    /\ \A w \in Workflows :
         LET i == current[w]
         IN IF workflows[w] = "active"
              THEN /\ i # 0 /\ inst[i].w = w /\ inst[i].pc # "none"
                   /\ inst[i].accepting /\ inst[i].watching /\ ~inst[i].closed
                   /\ triggers[w] = [id |-> inst[i].trig, active |-> TRUE]
              ELSE i = 0
    /\ \A i \in Insts : inst[i].pc # "none" /\ i \notin {current[w] : w \in Workflows} =>
         inst[i].closed /\ ~inst[i].watching

(* As long as the process lives, a queued execution does not stay queued while *)
(* its workflow is active: the worker gets to it, a stop cancels it, or its    *)
(* row is deleted; also what an earlier process has left in the queue, once    *)
(* the boot of this one has restored the workflow.  The other escapes are      *)
(* those of NoLostWakeup, and lifecycle calls that overlapped: they can leave  *)
(* a workflow active with no worker.                                           *)
QueueIsServed ==
  \A e \in Ids, w \in Workflows :
    (status[e] = "queued" /\ owner[e] = w)
      ~> (\/ status[e] # "queued" \/ workflows[w] # "active" \/ ~up
          \/ failed \/ overlapped \/ e \in stray)
-----------------------------------------------------------------------------
(* What the documents of the repository say, and the code does not keep.       *)

(* No two executions of one workflow run at the same time.                     *)
OneExecutionAtATime ==
  \A i, j \in Insts : inst[i].pc = "run" /\ inst[j].pc = "run" /\ inst[i].w = inst[j].w
                       => i = j

(* A client of exec is given the outcome once the execution has one.           *)
FinishedExecIsReported ==
  \A p \in Users :
    At(p, "await") /\ Finished(call[p].e) =>
      \/ mailbox[call[p].e] # None
      \/ \E i \in Insts : inst[i].pc = "report" /\ inst[i].e = call[p].e
      \/ \E q \in Callers : call[p].e \in call[q].cancelled

(* Stopping the daemon leaves every workflow the status it had, so that the    *)
(* next process restores the active ones: no step of a shutdown changes it.    *)
ShutdownKeepsStatus ==
  [][\A p \in Callers :
       call[p].op = "shutdown" /\ call'[p] # call[p] => workflows' = workflows]_vars
=============================================================================
