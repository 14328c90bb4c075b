------------------------ MODULE ExecutionStore_proofs ------------------------
(***************************************************************************)
(* Proofs about ExecutionStore, for any numbers of workflows, callers,     *)
(* executions and instants.  First type correctness; then the invariant    *)
(* StoreInv, which strengthens QueueIntegrity, HeldIsRunning and           *)
(* RunningIsAccountedFor until it is inductive; from it the refinement of  *)
(* ExecutionLifecycle; then FifoInv, which says why the clock a row        *)
(* carries, although read outside the write lock, orders the claims; and   *)
(* last that retention deletes the oldest rows.                            *)
(***************************************************************************)
EXTENDS ExecutionStore, FiniteSetTheorems, TLAPS

(* The bounds of the identifiers are numbers.                                  *)
LEMMA FirstId == 1 \in 1..(MaxExec + 1) /\ 0 \in Nat
  BY StoreConstants DEF StoreConstants

(* The steps of StoreNext, one case each: a property of two successive states  *)
(* that every action of the store has, every step has.                         *)
LEMMA StepCases ==
  ASSUME [StoreNext]_storeVars
  PROVE  \/ \E w \in Workflows, s \in {"stopped", "active"} : UpsertWorkflow(w, s)
         \/ \E w \in Workflows, s \in {"stopped", "active"} : SetWorkflowStatus(w, s)
         \/ \E w \in Workflows, enforced \in EnforcesKeys : DeleteWorkflow(w, enforced)
         \/ \E w \in Workflows : CancelQueuedExecutions(w)
         \/ \E w \in Workflows, e \in Ids : up /\ ClaimNextQueueItem(w, e)
         \/ \E c \in Callers, w \in Workflows : CommitCreate(c, w)
         \/ \E c \in Callers : up /\ BeginCreate(c)
         \/ \E c \in Callers : AbortCreate(c)
         \/ \E e \in Ids, s \in Outcomes : CompleteExecution(e, s)
         \/ \E e \in Ids : FailCompletion(e)
         \/ ApplyRetention
         \/ MarkStaleRunningExecutions
         \/ Crash
         \/ OpenConnection
         \/ Tick
         \/ UNCHANGED storeVars
  BY Zenon DEF StoreNext
-----------------------------------------------------------------------------
(* Every operation of the store keeps the types.                               *)
LEMMA StoreTypeStep == TypeOK /\ [StoreNext]_storeVars => TypeOK'
<1> SUFFICES ASSUME TypeOK, [StoreNext]_storeVars PROVE TypeOK'
  OBVIOUS
<1> USE DEF TypeOK
<1>1. ASSUME NEW w \in Workflows, NEW s \in {"stopped", "active"}, UpsertWorkflow(w, s)
      PROVE  TypeOK'
  BY <1>1 DEF UpsertWorkflow
<1>2. ASSUME NEW w \in Workflows, NEW s \in {"stopped", "active"}, SetWorkflowStatus(w, s)
      PROVE  TypeOK'
  BY <1>2 DEF SetWorkflowStatus
<1>3. ASSUME NEW w \in Workflows, NEW enforced \in EnforcesKeys, DeleteWorkflow(w, enforced)
      PROVE  TypeOK'
  BY <1>3, FirstId DEF DeleteWorkflow, DropRows, Statuses
<1>4. ASSUME NEW w \in Workflows, CancelQueuedExecutions(w)
      PROVE  TypeOK'
  BY <1>4 DEF CancelQueuedExecutions, Finish, Statuses, Outcomes
<1>5. ASSUME NEW w \in Workflows, NEW e \in Ids, ClaimNextQueueItem(w, e)
      PROVE  TypeOK'
  BY <1>5 DEF ClaimNextQueueItem, Statuses
<1>6. ASSUME NEW w \in Workflows, NEW c \in Callers, CommitCreate(c, w)
      PROVE  TypeOK'
  BY SMTT(30), <1>6, StoreConstants DEF CommitCreate, EndCreate, StoreConstants, Ids, Statuses
<1>7. ASSUME NEW c \in Callers, BeginCreate(c)
      PROVE  TypeOK'
  BY <1>7 DEF BeginCreate
<1>8. ASSUME NEW c \in Callers, AbortCreate(c)
      PROVE  TypeOK'
  BY <1>8, FirstId DEF AbortCreate, EndCreate
<1>9. ASSUME NEW e \in Ids, NEW s \in Outcomes, CompleteExecution(e, s)
      PROVE  TypeOK'
  BY <1>9 DEF CompleteExecution, Finish, Statuses
<1>10. ASSUME NEW e \in Ids, FailCompletion(e)
       PROVE  TypeOK'
  BY <1>10 DEF FailCompletion
<1>11. CASE ApplyRetention
  BY <1>11, FirstId DEF ApplyRetention, DropRows, Statuses
<1>12. CASE MarkStaleRunningExecutions
  BY <1>12 DEF MarkStaleRunningExecutions, Finish, Statuses, Outcomes
<1>13. CASE Crash
  BY <1>13, FirstId DEF Crash
<1>14. CASE OpenConnection
  BY <1>14 DEF OpenConnection
<1>15. CASE Tick
  BY <1>15 DEF Tick
<1>16. CASE UNCHANGED storeVars
  BY <1>16 DEF storeVars
<1> HIDE DEF TypeOK
<1> QED
  BY <1>1, <1>2, <1>3, <1>4, <1>5, <1>6, <1>7, <1>8, <1>9, <1>10, <1>11, <1>12, <1>13,
     <1>14, <1>15, <1>16, StepCases, Zenon

(* Every row, timestamp and identifier of the tables has the type the code     *)
(* of store.go gives it.                                                       *)
THEOREM StoreTypeCorrect == StoreSpec => []TypeOK
<1>1. StoreInit => TypeOK
  BY FirstId DEF StoreInit, TypeOK, Statuses
<1> QED
  BY <1>1, StoreTypeStep, PTL DEF StoreSpec
-----------------------------------------------------------------------------
(* Identifiers not yet given out name nothing, and a process that is down      *)
(* holds nothing: what QueueIntegrity, HeldIsRunning and                       *)
(* RunningIsAccountedFor need to be inductive together.                        *)
Fresh == \A e \in Ids : e >= nextId => /\ status[e] = "none"
                                      /\ e \notin queue /\ e \notin held
DownIsIdle == ~up => held = {}
StoreInv == /\ QueueIntegrity /\ HeldIsRunning /\ RunningIsAccountedFor
            /\ Fresh /\ DownIsIdle

(* StoreInv is inductive.                                                      *)
LEMMA StoreInvStep == TypeOK /\ StoreInv /\ [StoreNext]_storeVars => StoreInv'
<1> SUFFICES ASSUME TypeOK, StoreInv, [StoreNext]_storeVars PROVE StoreInv'
  OBVIOUS
<1> USE DEF TypeOK, StoreInv, QueueIntegrity, HeldIsRunning, RunningIsAccountedFor,
            Fresh, DownIsIdle
<1>1. ASSUME NEW w \in Workflows, NEW s \in {"stopped", "active"}, UpsertWorkflow(w, s)
      PROVE  StoreInv'
  BY <1>1 DEF UpsertWorkflow, Exists
<1>2. ASSUME NEW w \in Workflows, NEW s \in {"stopped", "active"}, SetWorkflowStatus(w, s)
      PROVE  StoreInv'
  BY <1>2 DEF SetWorkflowStatus, Exists
<1>3. ASSUME NEW w \in Workflows, NEW enforced \in EnforcesKeys, DeleteWorkflow(w, enforced)
      PROVE  StoreInv'
  BY <1>3 DEF DeleteWorkflow, DropRows, RowsOf, Exists, EnforcesKeys
<1>4. ASSUME NEW w \in Workflows, CancelQueuedExecutions(w)
      PROVE  StoreInv'
  BY <1>4 DEF CancelQueuedExecutions, Cancelled, QueueOf, Finish, Exists
<1>5. ASSUME NEW w \in Workflows, NEW e \in Ids, up, ClaimNextQueueItem(w, e)
      PROVE  StoreInv'
  BY <1>5 DEF ClaimNextQueueItem, IsNextItem, QueueOf, Exists
<1>6. ASSUME NEW w \in Workflows, NEW c \in Callers, CommitCreate(c, w)
      PROVE  StoreInv'
  <2>1. nextId \in Ids
    BY <1>6, StoreConstants DEF CommitCreate, StoreConstants, Ids
  <2>2. /\ status' = [status EXCEPT ![nextId] = "queued"]
        /\ owner' = [owner EXCEPT ![nextId] = w]
        /\ queue' = queue \cup {nextId} /\ nextId' = nextId + 1
        /\ UNCHANGED <<workflows, held, lost, pooled, up>>
    BY <1>6 DEF CommitCreate
  <2>3. ~pooled => Exists(w)
    BY <1>6 DEF CommitCreate, EnforcesKeys
  <2>4. QueueIntegrity'
    BY <2>1, <2>2, <2>3 DEF Exists
  <2>5. Ids \subseteq Nat
    BY DEF Ids
  <2>6. HeldIsRunning' /\ RunningIsAccountedFor' /\ Fresh' /\ DownIsIdle'
    BY <2>1, <2>2, <2>5
  <2> QED
    BY <2>4, <2>6 DEF StoreInv
<1>7. ASSUME NEW c \in Callers, BeginCreate(c) \/ AbortCreate(c)
      PROVE  StoreInv'
  BY <1>7 DEF BeginCreate, AbortCreate, EndCreate, Exists
<1>8. ASSUME NEW e \in Ids, NEW s \in Outcomes, CompleteExecution(e, s)
      PROVE  StoreInv'
  BY <1>8 DEF CompleteExecution, Finish, Outcomes, Exists
<1>9. ASSUME NEW e \in Ids, FailCompletion(e)
      PROVE  StoreInv'
  BY <1>9 DEF FailCompletion, Exists
<1>10. CASE ApplyRetention
  BY <1>10 DEF ApplyRetention, DropRows, TooOld, Overflow, Finished, Outcomes, Exists
<1>11. CASE MarkStaleRunningExecutions
  BY <1>11 DEF MarkStaleRunningExecutions, Finish, Stale, Exists
<1>12. CASE Crash
  BY <1>12 DEF Crash, Exists
<1>13. CASE OpenConnection
  BY <1>13 DEF OpenConnection, Exists
<1>14. CASE Tick \/ UNCHANGED storeVars
  BY <1>14 DEF Tick, storeVars, Exists
<1> HIDE DEF StoreInv
<1> QED
  BY <1>1, <1>2, <1>3, <1>4, <1>5, <1>6, <1>7, <1>8, <1>9, <1>10, <1>11, <1>12, <1>13,
     <1>14, StepCases, Zenon

LEMMA StoreInvariant == StoreSpec => [](TypeOK /\ StoreInv)
<1>1. StoreInit => StoreInv
  BY DEF StoreInit, StoreInv, QueueIntegrity, HeldIsRunning, RunningIsAccountedFor, Fresh,
         DownIsIdle
<1> QED
  BY <1>1, StoreTypeCorrect, StoreInvStep, PTL DEF StoreSpec

(* The queue table and the executions table agree, for every number of         *)
(* workflows, callers and executions (CreateQueuedExecution,                   *)
(* ClaimNextQueueItem, CancelQueuedExecutions and the cascades keep them so).  *)
THEOREM QueueIntegrityHolds == StoreSpec => []QueueIntegrity
<1>1. StoreInv => QueueIntegrity
  BY DEF StoreInv
<1> QED
  BY <1>1, StoreInvariant, PTL

(* The row of an execution a worker holds says running, whatever is cancelled, *)
(* deleted or cleaned up meanwhile.                                            *)
THEOREM HeldIsRunningHolds == StoreSpec => []HeldIsRunning
<1>1. StoreInv => HeldIsRunning
  BY DEF StoreInv
<1> QED
  BY <1>1, StoreInvariant, PTL

(* No row says running without a worker, across any number of crashes and      *)
(* restarts, as long as every connection enforces the keys.                    *)
THEOREM RunningIsAccountedForHolds == StoreSpec => []RunningIsAccountedFor
<1>1. StoreInv => RunningIsAccountedFor
  BY DEF StoreInv
<1> QED
  BY <1>1, StoreInvariant, PTL
-----------------------------------------------------------------------------
(* Where an execution may be after a step of the store, by the status it has:  *)
(* each action moves it along ExecutionLifecycle or leaves it.                 *)
PhaseMoves == \A e \in Ids : Phase'[e] \in Lifecycle!After(Phase[e])

LEMMA PhaseStep ==
  ASSUME TypeOK, StoreInv, [StoreNext]_storeVars
  PROVE  PhaseMoves
<1> USE DEF TypeOK, PhaseMoves, Phase, Lifecycle!After
<1>1. ASSUME UNCHANGED <<status, nextId>>
      PROVE  PhaseMoves
  BY <1>1 DEF Statuses, Outcomes
<1>2. ASSUME NEW es \in SUBSET Ids, DropRows(es), UNCHANGED nextId,
             \A e \in es : status[e] # "none" => e < nextId
      PROVE  PhaseMoves
  BY <1>2 DEF DropRows, Statuses, Outcomes
<1>3. ASSUME NEW es \in SUBSET Ids, NEW s \in Outcomes, Finish(es, s), UNCHANGED nextId,
             \A e \in es : status[e] = "running" \/ (status[e] = "queued" /\ s = "error")
      PROVE  PhaseMoves
  BY <1>3 DEF Finish, Statuses, Outcomes
<1>4. ASSUME NEW w \in Workflows, NEW e \in Ids, ClaimNextQueueItem(w, e)
      PROVE  PhaseMoves
  BY <1>4 DEF ClaimNextQueueItem, IsNextItem, QueueOf, StoreInv, QueueIntegrity, Statuses,
              Outcomes
<1>5. ASSUME NEW w \in Workflows, NEW c \in Callers, CommitCreate(c, w)
      PROVE  PhaseMoves
  BY <1>5 DEF CommitCreate, StoreInv, Fresh, Ids, Statuses, Outcomes
<1> HIDE DEF PhaseMoves
<1>6. \A e \in Ids : status[e] # "none" => e < nextId
  BY DEF StoreInv, Fresh, Ids
<1>7. ASSUME NEW w \in Workflows, NEW enforced \in EnforcesKeys, DeleteWorkflow(w, enforced)
      PROVE  PhaseMoves
  BY <1>2, <1>6, <1>7 DEF DeleteWorkflow, RowsOf
<1>8. CASE ApplyRetention
  BY <1>2, <1>6, <1>8 DEF ApplyRetention, TooOld, Overflow
<1>9. ASSUME NEW w \in Workflows, CancelQueuedExecutions(w)
      PROVE  PhaseMoves
  <2>1. Cancelled(w) \subseteq Ids /\ \A e \in Cancelled(w) : status[e] = "queued"
    BY DEF Cancelled, QueueOf, StoreInv, QueueIntegrity
  <2> QED
    BY <1>3, <1>9, <2>1 DEF CancelQueuedExecutions, Outcomes
<1>10. ASSUME NEW e \in Ids, NEW s \in Outcomes, CompleteExecution(e, s)
       PROVE  PhaseMoves
  <2>1. \A d \in {e} \cap {f \in Ids : status[f] # "none"} : status[d] = "running"
    BY <1>10 DEF CompleteExecution, StoreInv, HeldIsRunning
  <2> QED
    BY <1>3, <1>10, <2>1 DEF CompleteExecution
<1>11. CASE MarkStaleRunningExecutions
  BY <1>3, <1>11 DEF MarkStaleRunningExecutions, Stale, Outcomes
<1>12. ASSUME NEW w \in Workflows, NEW s \in {"stopped", "active"},
              UpsertWorkflow(w, s) \/ SetWorkflowStatus(w, s)
       PROVE  PhaseMoves
  BY <1>1, <1>12 DEF UpsertWorkflow, SetWorkflowStatus
<1>13. ASSUME NEW c \in Callers, BeginCreate(c) \/ AbortCreate(c)
       PROVE  PhaseMoves
  BY <1>1, <1>13 DEF BeginCreate, AbortCreate
<1>14. ASSUME NEW e \in Ids, FailCompletion(e)
       PROVE  PhaseMoves
  BY <1>1, <1>14 DEF FailCompletion
<1>15. CASE Crash \/ OpenConnection \/ Tick \/ UNCHANGED storeVars
  BY <1>1, <1>15 DEF Crash, OpenConnection, Tick, storeVars
<1> QED
  BY <1>4, <1>5, <1>7, <1>8, <1>9, <1>10, <1>11, <1>12, <1>13, <1>14, <1>15, StepCases, Zenon

(* store.go implements ExecutionLifecycle: an identifier is used once, a       *)
(* recorded outcome is never rewritten, and only finished executions or those  *)
(* of a deleted workflow disappear.                                            *)
THEOREM StoreImplementsLifecycle == StoreSpec => LifecycleSpec
<1>1. StoreInit => Lifecycle!Init
  BY DEF StoreInit, Lifecycle!Init, Phase, Ids
<1>2. TypeOK' => Phase' \in [Ids -> Lifecycle!Phases]
  BY DEF TypeOK, Phase, Lifecycle!Phases, Statuses
<1>3. TypeOK /\ TypeOK' /\ StoreInv /\ [StoreNext]_storeVars => [Lifecycle!Next]_Phase
  BY <1>2, PhaseStep DEF Lifecycle!Next, PhaseMoves
<1> QED
  BY <1>1, <1>3, StoreInvariant, PTL DEF StoreSpec, LifecycleSpec, Lifecycle!Spec
-----------------------------------------------------------------------------
(* Why queued_at orders the claims although it is read before the write lock:  *)
(* a call of CreateQueuedExecution that began after the row of d was committed *)
(* read the clock after d's call had, so what it writes is no earlier.         *)
FifoInv ==
  /\ \A e \in queue : at[e] <= clock /\ seen[e] <= e /\ e < nextId
  /\ \A c \in Callers : txNow[c] # None =>
       /\ txNow[c] <= clock /\ txSeen[c] <= nextId
       /\ \A d \in queue : d < txSeen[c] => at[d] <= txNow[c]
  /\ \A d, e \in queue : d < seen[e] => at[d] <= at[e]

(* FifoInv is inductive, given the type of the tables and StoreInv.            *)
LEMMA FifoStep ==
  ASSUME TypeOK, StoreInv, FifoInv, [StoreNext]_storeVars
  PROVE  FifoInv'
<1> USE DEF TypeOK, FifoInv
<1>0. Ids \subseteq Nat
  BY DEF Ids
<1>1. ASSUME UNCHANGED <<nextId, clock, txNow, txSeen, seen>>, queue' \subseteq queue,
             \A e \in queue' : at'[e] = at[e]
      PROVE  FifoInv'
  BY <1>1
<1>2. ASSUME NEW es \in SUBSET Ids, DropRows(es),
             UNCHANGED <<nextId, clock, txNow, txSeen>>
      PROVE  FifoInv'
  BY <1>2 DEF DropRows
<1>3. ASSUME NEW es \in SUBSET Ids, NEW s \in Outcomes, Finish(es, s),
             queue' \subseteq queue \ es, UNCHANGED <<nextId, clock, txNow, txSeen, seen>>
      PROVE  FifoInv'
  BY <1>1, <1>3 DEF Finish
<1>4. ASSUME NEW w \in Workflows, NEW c \in Callers, CommitCreate(c, w)
      PROVE  FifoInv'
  <2> USE <1>4 DEF CommitCreate, EndCreate
  <2>1. nextId \in Ids /\ nextId \notin queue
    BY StoreConstants DEF StoreConstants, Ids, StoreInv, Fresh
  <2>2. \A e \in queue : at'[e] = at[e] /\ seen'[e] = seen[e]
    BY <2>1
  <2>3. at'[nextId] = txNow[c] /\ seen'[nextId] = txSeen[c] /\ txNow[c] \in Nat
    BY <2>1
  <2>4. \A e \in queue' : at'[e] <= clock' /\ seen'[e] <= e /\ e < nextId'
    BY <1>0, <2>1, <2>2, <2>3
  <2>5. \A d \in Callers : txNow'[d] # None => d # c /\ txNow'[d] = txNow[d]
                                                      /\ txSeen'[d] = txSeen[d]
    OBVIOUS
  <2>6. \A d \in Callers : txNow'[d] # None =>
          /\ txNow'[d] <= clock' /\ txSeen'[d] <= nextId'
          /\ \A e \in queue' : e < txSeen'[d] => at'[e] <= txNow'[d]
    BY <1>0, <2>1, <2>2, <2>5
  <2>7. \A d, e \in queue' : d < seen'[e] => at'[d] <= at'[e]
    BY <1>0, <2>1, <2>2, <2>3
  <2> QED
    BY <2>4, <2>6, <2>7
<1>5. ASSUME NEW c \in Callers, BeginCreate(c)
      PROVE  FifoInv'
  BY <1>5, <1>0 DEF BeginCreate
<1>6. ASSUME NEW c \in Callers, AbortCreate(c)
      PROVE  FifoInv'
  BY <1>6 DEF AbortCreate, EndCreate
<1>7. CASE Crash
  BY <1>7 DEF Crash
<1>8. CASE Tick
  BY <1>8, <1>0 DEF Tick
<1>9. ASSUME NEW w \in Workflows, NEW e \in Ids, ClaimNextQueueItem(w, e)
      PROVE  FifoInv'
  BY <1>1, <1>9 DEF ClaimNextQueueItem
<1>10. ASSUME NEW e \in Ids, NEW s \in Outcomes, CompleteExecution(e, s)
       PROVE  FifoInv'
  BY <1>3, <1>10 DEF CompleteExecution, StoreInv, HeldIsRunning
<1>11. CASE MarkStaleRunningExecutions
  <2>1. Stale \subseteq Ids /\ queue \cap Stale = {}
    BY DEF Stale, StoreInv, QueueIntegrity
  <2> QED
    BY <1>3, <1>11, <2>1 DEF MarkStaleRunningExecutions, Outcomes
<1>12. ASSUME NEW w \in Workflows, CancelQueuedExecutions(w)
       PROVE  FifoInv'
  BY <1>3, <1>12 DEF CancelQueuedExecutions, Cancelled, QueueOf, Outcomes
<1>13. ASSUME NEW w \in Workflows, NEW enforced \in EnforcesKeys, DeleteWorkflow(w, enforced)
       PROVE  FifoInv'
  BY <1>2, <1>13 DEF DeleteWorkflow, RowsOf
<1>14. CASE ApplyRetention
  BY <1>2, <1>14 DEF ApplyRetention, TooOld, Overflow
<1>15. ASSUME NEW w \in Workflows, NEW s \in {"stopped", "active"},
              UpsertWorkflow(w, s) \/ SetWorkflowStatus(w, s)
       PROVE  FifoInv'
  BY <1>1, <1>15 DEF UpsertWorkflow, SetWorkflowStatus
<1>16. ASSUME NEW e \in Ids, FailCompletion(e)
       PROVE  FifoInv'
  BY <1>1, <1>16 DEF FailCompletion
<1>17. CASE OpenConnection \/ UNCHANGED storeVars
  BY <1>1, <1>17 DEF OpenConnection, storeVars
<1> HIDE DEF FifoInv
<1> QED
  BY <1>4, <1>5, <1>6, <1>7, <1>8, <1>9, <1>10, <1>11, <1>12, <1>13, <1>14, <1>15, <1>16,
     <1>17, StepCases, Zenon

(* Only a claim starts a queued execution.                                     *)
LEMMA OnlyClaimStarts ==
  ASSUME TypeOK, [StoreNext]_storeVars, NEW e \in Ids,
         status[e] = "queued", status'[e] = "running"
  PROVE  \E w \in Workflows : ClaimNextQueueItem(w, e)
<1> USE DEF TypeOK, Ids
<1>1. ASSUME NEW w \in Workflows, NEW d \in Ids, ClaimNextQueueItem(w, d)
      PROVE  e = d
  BY <1>1 DEF ClaimNextQueueItem
<1>2. ASSUME NEW es \in SUBSET Ids, NEW s \in Outcomes, Finish(es, s)
      PROVE  FALSE
  BY <1>2 DEF Finish, Outcomes
<1>3. ASSUME NEW es \in SUBSET Ids, DropRows(es)
      PROVE  FALSE
  BY <1>3 DEF DropRows
<1>4. status' # status
  OBVIOUS
<1>5. ~ \E w \in Workflows, enforced \in EnforcesKeys : DeleteWorkflow(w, enforced)
  BY <1>3 DEF DeleteWorkflow, RowsOf
<1>6. ~ \E w \in Workflows : CancelQueuedExecutions(w)
  BY <1>2 DEF CancelQueuedExecutions, Cancelled, QueueOf, Outcomes
<1>7. ~ \E d \in Ids, s \in Outcomes : CompleteExecution(d, s)
  BY <1>2 DEF CompleteExecution
<1>8. ~ ApplyRetention
  BY <1>3 DEF ApplyRetention, TooOld, Overflow
<1>9. ~ MarkStaleRunningExecutions
  BY <1>2 DEF MarkStaleRunningExecutions, Stale, Outcomes
<1>10. ~ \E c \in Callers, w \in Workflows : CommitCreate(c, w)
  BY DEF CommitCreate
<1>11. ~ \E w \in Workflows, s \in {"stopped", "active"} :
           UpsertWorkflow(w, s) \/ SetWorkflowStatus(w, s)
  BY <1>4 DEF UpsertWorkflow, SetWorkflowStatus
<1>12. ~ \E c \in Callers : BeginCreate(c) \/ AbortCreate(c)
  BY <1>4 DEF BeginCreate, AbortCreate
<1>13. ~ \E d \in Ids : FailCompletion(d)
  BY <1>4 DEF FailCompletion
<1>14. ~ (Crash \/ OpenConnection \/ Tick \/ UNCHANGED storeVars)
  BY <1>4 DEF Crash, OpenConnection, Tick, storeVars
<1> QED
  BY <1>1, <1>5, <1>6, <1>7, <1>8, <1>9, <1>10, <1>11, <1>12, <1>13, <1>14, StepCases, Zenon

(* The executions of a workflow start in the order in which the calls that     *)
(* queued them followed each other, for any number of callers and any clock    *)
(* that does not run backwards.                                                *)
THEOREM ClaimIsFifoHolds == StoreSpec => ClaimIsFifo
<1>1. StoreInit => FifoInv
  BY DEF StoreInit, FifoInv
<1>2. StoreSpec => []FifoInv
  BY <1>1, StoreInvariant, FifoStep, PTL DEF StoreSpec
<1>3. ASSUME TypeOK, StoreInv, FifoInv, [StoreNext]_storeVars, NEW e \in Ids,
             status[e] = "queued", status'[e] = "running",
             NEW d \in queue \ {e}, owner[d] = owner[e]
      PROVE  d >= seen[e]
  <2>1. PICK w \in Workflows : ClaimNextQueueItem(w, e)
    BY <1>3, OnlyClaimStarts
  <2>2. e \in queue /\ owner[e] = w /\ Precedes(e, d)
    BY <1>3, <2>1 DEF ClaimNextQueueItem, IsNextItem, QueueOf
  <2>3. d \in Nat /\ e \in Nat /\ seen[e] \in Nat /\ at[d] \in Nat /\ at[e] \in Nat
    BY <1>3, FirstId DEF TypeOK, Ids
  <2>4. seen[e] <= e /\ (d < seen[e] => at[d] <= at[e])
    BY <1>3, <2>2 DEF FifoInv
  <2> QED
    BY <2>2, <2>3, <2>4 DEF Precedes
<1>4. TypeOK /\ StoreInv /\ FifoInv /\ [StoreNext]_storeVars =>
        [\A e \in Ids : status[e] = "queued" /\ status'[e] = "running" =>
           \A d \in queue \ {e} : owner[d] = owner[e] => d >= seen[e]]_storeVars
  BY <1>3
<1> QED
  BY <1>2, <1>4, StoreInvariant, PTL DEF StoreSpec, ClaimIsFifo
-----------------------------------------------------------------------------
(* ApplyRetention: whatever the two limits are, and whichever of them drops a  *)
(* row, a finished row of the same workflow that is kept is newer.             *)
LEMMA KeptIsNewer ==
  ASSUME TypeOK, NEW e \in TooOld \cup Overflow,
         NEW d \in RowsOf(owner[e]) \ (TooOld \cup Overflow), Finished(d)
  PROVE  Precedes(e, d)
<1> DEFINE Newer(x) == {y \in RowsOf(owner[e]) \ TooOld : Finished(y) /\ Precedes(x, y)}
<1>1. d \in Ids /\ e \in Ids /\ d # e /\ owner[d] = owner[e] /\ Ids \subseteq Nat
  BY DEF RowsOf, TooOld, Overflow, Ids
<1>2. at \in [Ids -> Nat] /\ clock \in Nat /\ MaxAge \in Nat /\ KeepLimit \in Nat
  BY StoreConstants DEF TypeOK, StoreConstants
<1>3. CASE e \in TooOld
  <2>1. at[e] + MaxAge < clock /\ ~(at[d] + MaxAge < clock)
    BY <1>1, <1>3 DEF TooOld
  <2> QED
    BY <1>1, <1>2, <2>1 DEF Precedes
<1>4. CASE e \in Overflow
  <2>1. SUFFICES ASSUME ~Precedes(e, d) PROVE d \in Overflow
    OBVIOUS
  <2>2. Precedes(d, e)
    BY <1>1, <1>2, <2>1 DEF Precedes
  <2>3. \A y \in Ids : Precedes(e, y) => Precedes(d, y)
    BY <1>1, <1>2, <2>2 DEF Precedes
  <2>4. Newer(e) \subseteq Newer(d) /\ Newer(d) \subseteq Ids
    BY <2>3 DEF RowsOf
  <2>5. IsFiniteSet(Newer(d))
    <3>1. IsFiniteSet(Ids)
      BY FS_Interval, StoreConstants DEF Ids, StoreConstants
    <3> QED
      BY <2>4, <3>1, FS_Subset
  <2>6. Cardinality(Newer(e)) <= Cardinality(Newer(d))
        /\ Cardinality(Newer(e)) \in Nat /\ Cardinality(Newer(d)) \in Nat
    <3> HIDE DEF Newer
    <3>1. IsFiniteSet(Newer(e))
      BY <2>4, <2>5, FS_Subset
    <3> QED
      BY <2>4, <2>5, <3>1, FS_Subset, FS_CardinalityType
  <2>7. KeepLimit > 0 /\ owner[e] \in Workflows /\ Exists(owner[e])
        /\ Cardinality(Newer(e)) >= KeepLimit
    BY <1>4 DEF Overflow
  <2>8. Cardinality(Newer(d)) >= KeepLimit
    BY <1>2, <2>6, <2>7
  <2> QED
    BY <1>1, <2>7, <2>8 DEF Overflow
<1> QED
  BY <1>3, <1>4

(* A row disappears with its workflow or in a retention pass.                  *)
LEMMA OnlyRetentionDrops ==
  ASSUME TypeOK, StoreInv, [StoreNext]_storeVars, NEW e \in Ids,
         status[e] # "none", status'[e] = "none", workflows' = workflows
  PROVE  ApplyRetention
<1> USE DEF TypeOK
<1>1. ASSUME NEW es \in SUBSET Ids, NEW s \in Outcomes, Finish(es, s)
      PROVE  FALSE
  BY <1>1 DEF Finish, Outcomes
<1>2. status' # status
  OBVIOUS
<1>3. ~ \E w \in Workflows, enforced \in EnforcesKeys : DeleteWorkflow(w, enforced)
  BY <1>2 DEF DeleteWorkflow, DropRows, Exists
<1>4. ~ \E w \in Workflows : CancelQueuedExecutions(w)
  BY <1>1 DEF CancelQueuedExecutions, Cancelled, QueueOf, Outcomes
<1>5. ~ \E d \in Ids, s \in Outcomes : CompleteExecution(d, s)
  BY <1>1 DEF CompleteExecution
<1>6. ~ MarkStaleRunningExecutions
  BY <1>1 DEF MarkStaleRunningExecutions, Stale, Outcomes
<1>7. ~ \E c \in Callers, w \in Workflows : CommitCreate(c, w)
  BY DEF CommitCreate
<1>8. ~ \E w \in Workflows, d \in Ids : up /\ ClaimNextQueueItem(w, d)
  BY DEF ClaimNextQueueItem
<1>9. ~ \E w \in Workflows, s \in {"stopped", "active"} :
          UpsertWorkflow(w, s) \/ SetWorkflowStatus(w, s)
  BY <1>2 DEF UpsertWorkflow, SetWorkflowStatus
<1>10. ~ \E c \in Callers : BeginCreate(c) \/ AbortCreate(c)
  BY <1>2 DEF BeginCreate, AbortCreate
<1>11. ~ \E d \in Ids : FailCompletion(d)
  BY <1>2 DEF FailCompletion
<1>12. ~ (Crash \/ OpenConnection \/ Tick \/ UNCHANGED storeVars)
  BY <1>2 DEF Crash, OpenConnection, Tick, storeVars
<1> QED
  BY <1>3, <1>4, <1>5, <1>6, <1>7, <1>8, <1>9, <1>10, <1>11, <1>12, StepCases, Zenon

(* Retention takes finished executions only, and the oldest of each workflow.  *)
THEOREM RetentionDropsOldestHolds == StoreSpec => RetentionDropsOldest
<1>1. ASSUME TypeOK, StoreInv, [StoreNext]_storeVars, NEW e \in Ids,
             status[e] # "none", status'[e] = "none", workflows' = workflows
      PROVE  /\ Finished(e)
             /\ \A d \in RowsOf(owner[e]) :
                  Finished(d) /\ status'[d] # "none" => Precedes(e, d)
  <2>1. ApplyRetention
    BY <1>1, OnlyRetentionDrops
  <2>2. \A d \in Ids : status'[d] = IF d \in TooOld \cup Overflow THEN "none" ELSE status[d]
    BY <2>1 DEF ApplyRetention, DropRows
  <2>3. e \in TooOld \cup Overflow
    BY <1>1, <2>2
  <2>4. Finished(e)
    BY <2>3 DEF TooOld, Overflow
  <2>5. ASSUME NEW d \in RowsOf(owner[e]), Finished(d), status'[d] # "none"
        PROVE  Precedes(e, d)
    BY <1>1, <2>2, <2>3, <2>5, KeptIsNewer DEF RowsOf
  <2> QED
    BY <2>4, <2>5
<1>2. TypeOK /\ StoreInv /\ [StoreNext]_storeVars =>
        [\A e \in Ids :
           status[e] # "none" /\ status'[e] = "none" /\ workflows' = workflows =>
             /\ Finished(e)
             /\ \A d \in RowsOf(owner[e]) :
                  Finished(d) /\ status'[d] # "none" => Precedes(e, d)]_storeVars
  BY <1>1
<1> QED
  BY <1>2, StoreInvariant, PTL DEF StoreSpec, RetentionDropsOldest
=============================================================================
