--------------------------- MODULE ExecutionStore ---------------------------
(***************************************************************************)
(* internal/store/store.go: the workflows, executions and queue tables of  *)
(* lumnd's SQLite file, one action per exported operation that writes      *)
(* them, and the processes that call it only as far as the operations need *)
(* them: callers inside CreateQueuedExecution, the executions workers hold *)
(* between ClaimNextQueueItem and CompleteExecution, the process itself    *)
(* being up or down.                                                       *)
(*                                                                         *)
(* A transaction is one step: SQLite lets one writer commit at a time and  *)
(* refuses a writer whose snapshot is stale, so an interleaved transaction *)
(* fails and writes nothing.  The exception is the time a new row carries: *)
(* CreateQueuedExecution reads the clock before its first INSERT takes the *)
(* write lock, so reading it and committing are two steps.                 *)
(*                                                                         *)
(* PRAGMA foreign_keys = ON runs once, on one connection of the pool       *)
(* (store.go:86); a connection the pool opens later does not enforce the   *)
(* keys, so neither ON DELETE CASCADE nor the check of an inserted row.    *)
(***************************************************************************)
EXTENDS Naturals, FiniteSets

CONSTANTS Workflows,   \* workflow ids
          Callers,     \* goroutines that may be in CreateQueuedExecution
          MaxExec,     \* bound: executions ever created
          MaxClock,    \* bound: instants the wall clock shows
          KeepLimit,   \* RetentionMaxRuns (0: unlimited)
          MaxAge,      \* RetentionMaxDays, in instants (0: unlimited)
          PoolGrows,   \* whether two statements ever overlap on the pool
          None         \* no workflow, no time

ASSUME StoreConstants ==
  /\ MaxExec \in Nat /\ MaxClock \in Nat /\ KeepLimit \in Nat /\ MaxAge \in Nat
  /\ PoolGrows \in BOOLEAN
  /\ None \notin Workflows /\ None \notin Nat

Ids == 1..MaxExec
Outcomes == {"ok", "error", "empty"}
Statuses == {"none", "queued", "running"} \cup Outcomes

VARIABLES
  workflows,   \* status column of the row of each workflow, or "absent"
  status,      \* status column of each execution, "none" without a row
  owner,       \* workflow_id column of each execution
  at,          \* queued_at of an unfinished execution, finished_at of a finished one
  queue,       \* executions that have a row in the queue table
  nextId,      \* the next AUTOINCREMENT id
  clock,       \* utcNow()
  txNow,       \* txNow[c]: the time c read in CreateQueuedExecution, or None
  txSeen,      \* history: nextId when c began CreateQueuedExecution
  seen,        \* history: seen[e] = nextId when the call that created e began
  held,        \* executions claimed by a worker that has not finished with them
  lost,        \* history: executions whose CompleteExecution failed
  pooled,      \* some statement has run on a second connection of the pool
  up           \* lumnd is past the cleanup of Run

storeVars == <<workflows, status, owner, at, queue, nextId, clock, txNow, txSeen,
               seen, held, lost, pooled, up>>

TypeOK ==
  /\ workflows \in [Workflows -> {"absent", "stopped", "active"}]
  /\ status \in [Ids -> Statuses]
  /\ owner \in [Ids -> Workflows \cup {None}]
  /\ at \in [Ids -> Nat]
  /\ queue \subseteq Ids
  /\ nextId \in 1..(MaxExec + 1)
  /\ clock \in Nat
  /\ txNow \in [Callers -> Nat \cup {None}]
  /\ txSeen \in [Callers -> 1..(MaxExec + 1)]
  /\ seen \in [Ids -> 1..(MaxExec + 1)]
  /\ held \subseteq Ids
  /\ lost \subseteq Ids
  /\ pooled \in BOOLEAN
  /\ up \in BOOLEAN

StoreInit ==
  /\ workflows = [w \in Workflows |-> "absent"]
  /\ status = [e \in Ids |-> "none"]
  /\ owner = [e \in Ids |-> None]
  /\ at = [e \in Ids |-> 0]
  /\ queue = {}
  /\ nextId = 1
  /\ clock = 0
  /\ txNow = [c \in Callers |-> None]
  /\ txSeen = [c \in Callers |-> 1]
  /\ seen = [e \in Ids |-> 1]
  /\ held = {} /\ lost = {}
  /\ pooled = FALSE
  /\ up = FALSE
-----------------------------------------------------------------------------
(* Whether the connection a statement runs on enforces the foreign keys. *)
EnforcesKeys == IF pooled THEN BOOLEAN ELSE {TRUE}

Exists(w) == workflows[w] # "absent"
RowsOf(w) == {e \in Ids : owner[e] = w}
Finished(e) == status[e] \in Outcomes

(* ORDER BY queued_at, id of GetNextQueueItemByWorkflow. *)
Precedes(d, e) == at[d] < at[e] \/ (at[d] = at[e] /\ d < e)

QueueOf(w) == {e \in queue : owner[e] = w}
QueueCount(w) == Cardinality(QueueOf(w))
(* Mutant of IsNextItem: ORDER BY queued_at alone. *)
IsNextItemByTime(w, e) ==
  /\ e \in QueueOf(w)
  /\ \A d \in QueueOf(w) : at[e] <= at[d]

IsNextItem(w, e) ==
  /\ e \in QueueOf(w)
  /\ \A d \in QueueOf(w) \ {e} : Precedes(e, d)

(* Mutant of DropRows: the queue table has no ON DELETE CASCADE. *)
DropRowsOnly(es) ==
  /\ status' = [e \in Ids |-> IF e \in es THEN "none" ELSE status[e]]
  /\ owner' = [e \in Ids |-> IF e \in es THEN None ELSE owner[e]]
  /\ at' = [e \in Ids |-> IF e \in es THEN 0 ELSE at[e]]
  /\ seen' = [e \in Ids |-> IF e \in es THEN 1 ELSE seen[e]]
  /\ queue' = queue

(* Delete the rows of executions es; their queue rows go with them. *)
DropRows(es) ==
  /\ status' = [e \in Ids |-> IF e \in es THEN "none" ELSE status[e]]
  /\ owner' = [e \in Ids |-> IF e \in es THEN None ELSE owner[e]]
  /\ at' = [e \in Ids |-> IF e \in es THEN 0 ELSE at[e]]
  /\ seen' = [e \in Ids |-> IF e \in es THEN 1 ELSE seen[e]]
  /\ queue' = queue \ es

(* Mutant of Finish: a status no reader of the table knows. *)
FinishUnknown(es, s) ==
  /\ status' = [e \in Ids |-> IF e \in es THEN "failed" ELSE status[e]]
  /\ at' = [e \in Ids |-> IF e \in es THEN clock ELSE at[e]]

(* Write outcome s, finished now, into the rows of executions es. *)
Finish(es, s) ==
  /\ status' = [e \in Ids |-> IF e \in es THEN s ELSE status[e]]
  /\ at' = [e \in Ids |-> IF e \in es THEN clock ELSE at[e]]
-----------------------------------------------------------------------------
UpsertWorkflow(w, s) ==
  /\ workflows' = [workflows EXCEPT ![w] = s]
  /\ UNCHANGED <<status, owner, at, queue, nextId, clock, txNow, txSeen, seen,
                 held, lost, pooled, up>>

SetWorkflowStatus(w, s) ==
  /\ workflows' = IF Exists(w) THEN [workflows EXCEPT ![w] = s] ELSE workflows
  /\ UNCHANGED <<status, owner, at, queue, nextId, clock, txNow, txSeen, seen,
                 held, lost, pooled, up>>

(* The cascade removes the children only where the keys are enforced. *)
DeleteWorkflow(w, enforced) ==
  /\ workflows' = [workflows EXCEPT ![w] = "absent"]
  /\ DropRows(IF enforced /\ Exists(w) THEN RowsOf(w) ELSE {})
  /\ UNCHANGED <<nextId, clock, txNow, txSeen, held, lost, pooled, up>>

BeginCreate(c) ==
  /\ txNow[c] = None
  /\ txNow' = [txNow EXCEPT ![c] = clock]
  /\ txSeen' = [txSeen EXCEPT ![c] = nextId]
  /\ UNCHANGED <<workflows, status, owner, at, queue, nextId, clock, seen, held,
                 lost, pooled, up>>

EndCreate(c) ==
  /\ txNow' = [txNow EXCEPT ![c] = None]
  /\ txSeen' = [txSeen EXCEPT ![c] = 1]

(* The execution row and its queue row, committed together. *)
CommitCreate(c, w) ==
  /\ txNow[c] # None
  /\ nextId <= MaxExec
  /\ \E enforced \in EnforcesKeys : enforced => Exists(w)
  /\ status' = [status EXCEPT ![nextId] = "queued"]
  /\ owner' = [owner EXCEPT ![nextId] = w]
  /\ at' = [at EXCEPT ![nextId] = txNow[c]]
  /\ seen' = [seen EXCEPT ![nextId] = txSeen[c]]
  /\ queue' = queue \cup {nextId}
  /\ nextId' = nextId + 1
  /\ EndCreate(c)
  /\ UNCHANGED <<workflows, clock, held, lost, pooled, up>>

(* An error of any statement rolls the transaction back. *)
AbortCreate(c) ==
  /\ txNow[c] # None
  /\ EndCreate(c)
  /\ UNCHANGED <<workflows, status, owner, at, queue, nextId, clock, seen, held,
                 lost, pooled, up>>

(* Mutant of ClaimNextQueueItem: DeleteQueueItem is forgotten. *)
ClaimKeepsRow(w, e) ==
  /\ IsNextItem(w, e)
  /\ status' = [status EXCEPT ![e] = "running"]
  /\ held' = held \cup {e}
  /\ UNCHANGED <<workflows, owner, at, queue, nextId, clock, txNow, txSeen, seen, lost,
                 pooled, up>>

(* The oldest queue row of w goes and its execution runs, in one transaction. *)
ClaimNextQueueItem(w, e) ==
  /\ IsNextItem(w, e)
  /\ queue' = queue \ {e}
  /\ status' = [status EXCEPT ![e] = "running"]
  /\ held' = held \cup {e}
  /\ UNCHANGED <<workflows, owner, at, nextId, clock, txNow, txSeen, seen, lost,
                 pooled, up>>

(* UPDATE ... WHERE id = e: nothing when the row is gone. *)
CompleteExecution(e, s) ==
  /\ e \in held
  /\ Finish({e} \cap {d \in Ids : status[d] # "none"}, s)
  /\ held' = held \ {e}
  /\ UNCHANGED <<workflows, owner, queue, nextId, clock, txNow, txSeen, seen, lost,
                 pooled, up>>

(* The worker logs the error of CompleteExecution and goes on. *)
FailCompletion(e) ==
  /\ e \in held
  /\ held' = held \ {e}
  /\ lost' = lost \cup {e}
  /\ UNCHANGED <<workflows, status, owner, at, queue, nextId, clock, txNow, txSeen,
                 seen, pooled, up>>

(* Mutant of Cancelled: every execution of w that has not finished. *)
CancelledUnfinished(w) ==
  {e \in RowsOf(w) : Exists(w) /\ status[e] \in {"queued", "running"}}

(* The SELECT joins workflows, the DELETE does not: rows of a workflow that is *)
(* gone lose their queue row and are not completed.                            *)
Cancelled(w) == IF Exists(w) THEN QueueOf(w) ELSE {}
CancelQueuedExecutions(w) ==
  /\ Finish(Cancelled(w), "error")
  /\ queue' = queue \ QueueOf(w)
  /\ UNCHANGED <<workflows, owner, nextId, clock, txNow, txSeen, seen, held, lost,
                 pooled, up>>
-----------------------------------------------------------------------------
(* Rows ApplyRetention deletes: finished before the cutoff, then, of each      *)
(* workflow that exists, the finished ones after the newest KeepLimit.         *)
TooOld == {e \in Ids : MaxAge > 0 /\ Finished(e) /\ at[e] + MaxAge < clock}
(* Mutant of Overflow: the wrong end of the order is kept. *)
OverflowNewest ==
  {e \in Ids \ TooOld :
     /\ KeepLimit > 0 /\ Finished(e) /\ owner[e] \in Workflows /\ Exists(owner[e])
     /\ Cardinality({d \in RowsOf(owner[e]) \ TooOld :
                       Finished(d) /\ Precedes(d, e)}) >= KeepLimit}

Overflow ==
  {e \in Ids \ TooOld :
     /\ KeepLimit > 0 /\ Finished(e) /\ owner[e] \in Workflows /\ Exists(owner[e])
     /\ Cardinality({d \in RowsOf(owner[e]) \ TooOld :
                       Finished(d) /\ Precedes(e, d)}) >= KeepLimit}

ApplyRetention ==
  /\ up
  /\ DropRows(TooOld \cup Overflow)
  /\ UNCHANGED <<workflows, nextId, clock, txNow, txSeen, held, lost, pooled, up>>

(* Mutant of Stale: the boot closes what was queued, not what was running. *)
StaleQueued == {e \in Ids : status[e] = "queued" /\ owner[e] \in Workflows /\ Exists(owner[e])}

(* The rows MarkStaleRunningExecutions closes: it too joins workflows. *)
Stale == {e \in Ids : status[e] = "running" /\ owner[e] \in Workflows /\ Exists(owner[e])}

(* Run, up to the servers: nothing of the previous process is left.  The        *)
(* retention pass Run makes next is the ApplyRetention step.                    *)
MarkStaleRunningExecutions ==
  /\ ~up
  /\ Finish(Stale, "error")
  /\ lost' = {}
  /\ up' = TRUE
  /\ UNCHANGED <<workflows, owner, queue, nextId, clock, txNow, txSeen, seen, held, pooled>>

(* The process ends: transactions in progress roll back, workers are gone. *)
Crash ==
  /\ up
  /\ up' = FALSE
  /\ held' = {}
  /\ txNow' = [c \in Callers |-> None]
  /\ txSeen' = [c \in Callers |-> 1]
  /\ UNCHANGED <<workflows, status, owner, at, queue, nextId, clock, seen, lost,
                 pooled>>

OpenConnection ==
  /\ PoolGrows /\ up /\ ~pooled
  /\ pooled' = TRUE
  /\ UNCHANGED <<workflows, status, owner, at, queue, nextId, clock, txNow, txSeen,
                 seen, held, lost, up>>

Tick ==
  /\ clock < MaxClock
  /\ clock' = clock + 1
  /\ UNCHANGED <<workflows, status, owner, at, queue, nextId, txNow, txSeen, seen,
                 held, lost, pooled, up>>
-----------------------------------------------------------------------------
StoreNext ==
  \/ \E w \in Workflows :
       \/ \E s \in {"stopped", "active"} : UpsertWorkflow(w, s) \/ SetWorkflowStatus(w, s)
       \/ \E enforced \in EnforcesKeys : DeleteWorkflow(w, enforced)
       \/ CancelQueuedExecutions(w)
       \/ \E e \in Ids : up /\ ClaimNextQueueItem(w, e)
       \/ \E c \in Callers : CommitCreate(c, w)
  \/ \E c \in Callers : (up /\ BeginCreate(c)) \/ AbortCreate(c)
  \/ \E e \in Ids : (\E s \in Outcomes : CompleteExecution(e, s)) \/ FailCompletion(e)
  \/ ApplyRetention \/ MarkStaleRunningExecutions \/ Crash \/ OpenConnection \/ Tick

StoreSpec == StoreInit /\ [][StoreNext]_storeVars
-----------------------------------------------------------------------------
(* The queue table and the executions table agree: a queue row is of a queued  *)
(* execution, and, while every connection enforces the keys, every queued      *)
(* execution has its queue row and every execution its workflow.  Nothing      *)
(* checks this in SQL: CreateQueuedExecution, ClaimNextQueueItem,              *)
(* CancelQueuedExecutions and the cascade of DeleteWorkflow keep it together.  *)
QueueIntegrity ==
  /\ \A e \in queue : status[e] = "queued"
  /\ ~pooled => \A e \in Ids : /\ status[e] = "queued" => e \in queue
                              /\ status[e] # "none" => /\ owner[e] \in Workflows
                                                      /\ Exists(owner[e])

(* Once Run has cleaned up, an execution is marked running only while a worker *)
(* of this process has it, or its CompleteExecution failed in this process:    *)
(* MarkStaleRunningExecutions leaves nothing running of a process that died.   *)
(* It joins workflows, so rows the cascade missed (pooled) escape it.          *)
RunningIsAccountedFor ==
  up /\ ~pooled => \A e \in Ids : status[e] = "running" => e \in held \cup lost

(* What a worker holds was not finished, requeued or cancelled behind its back: *)
(* its row is running, or was deleted with its workflow.                        *)
HeldIsRunning == \A e \in held : status[e] \in {"running", "none"} /\ e \notin queue

(* An execution never starts before one of the same workflow whose              *)
(* CreateQueuedExecution returned before its own began, although the time they  *)
(* are ordered by is read before the write lock is taken.                       *)
ClaimIsFifo ==
  [][\A e \in Ids : status[e] = "queued" /\ status'[e] = "running" =>
       \A d \in queue \ {e} : owner[d] = owner[e] => d >= seen[e]]_storeVars

(* A cleanup that deletes executions of a workflow without deleting the         *)
(* workflow takes finished ones only, and never one newer than one it keeps.    *)
RetentionDropsOldest ==
  [][\A e \in Ids :
       status[e] # "none" /\ status'[e] = "none" /\ workflows' = workflows =>
         /\ Finished(e)
         /\ \A d \in RowsOf(owner[e]) :
              Finished(d) /\ status'[d] # "none" => Precedes(e, d)]_storeVars

(* Every execution goes through the life ExecutionLifecycle allows.             *)
Phase == [e \in Ids |-> IF status[e] # "none" THEN status[e]
                        ELSE IF e < nextId THEN "gone" ELSE "absent"]
Lifecycle == INSTANCE ExecutionLifecycle WITH phase <- Phase
LifecycleSpec == Lifecycle!Spec
=============================================================================
