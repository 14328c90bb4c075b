------------------------ MODULE DaemonExecutions_proofs ------------------------
(***************************************************************************)
(* Proofs about what becomes of an execution in Daemon: in whose hands it  *)
(* is, what a closed instance still starts, what the client that waits for *)
(* it is told, how long the queue gets while callers race past the check   *)
(* of its length, and that none is left queued for a worker that sleeps    *)
(* and that nobody will wake.  Each invariant comes with the frame the     *)
(* steps keep: which of them touch a worker, a report, a queue, a call.    *)
(***************************************************************************)
EXTENDS Daemon_proofs

(* What the store and the control of the goroutines keep between them.         *)
Base == Control /\ StoreInv

(* Base is inductive: the daemon writes the store only by the store's own    *)
(* operations, so what they keep is kept.                                    *)
LEMMA BaseStep == Base /\ [DaemonNext]_vars => Base'
  BY ControlStep, StoreStep, StoreInvStep DEF Base, Control, DaemonTypeOK

(* Base holds before the first boot.                                         *)
LEMMA BaseInit == DaemonInit => Base
  BY ControlInit DEF DaemonInit, StoreInit, Base, StoreInv, QueueIntegrity, HeldIsRunning,
     RunningIsAccountedFor, Fresh, DownIsIdle

(* Base is an invariant of the daemon.                                       *)
LEMMA BaseInvariant == DaemonSpec => []Base
  BY BaseInit, BaseStep, PTL DEF DaemonSpec

(* The queue table and the executions table of a daemon agree.                 *)
THEOREM DaemonQueueIntegrity == DaemonSpec => []QueueIntegrity
<1>1. Base => QueueIntegrity
  BY DEF Base, StoreInv
<1> QED
  BY <1>1, BaseInvariant, PTL

(* What the workers of a daemon hold is running, or deleted with its workflow. *)
THEOREM DaemonHeldIsRunning == DaemonSpec => []HeldIsRunning
<1>1. Base => HeldIsRunning
  BY DEF Base, StoreInv
<1> QED
  BY <1>1, BaseInvariant, PTL

(* No row of a daemon says running without a worker, a failed completion or    *)
(* keys that were not enforced.                                                *)
THEOREM DaemonRunningIsAccountedFor == DaemonSpec => []RunningIsAccountedFor
<1>1. Base => RunningIsAccountedFor
  BY DEF Base, StoreInv
<1> QED
  BY <1>1, BaseInvariant, PTL
-----------------------------------------------------------------------------
(* The worker of an accepting instance waits for a notification nobody sent.   *)
Asleep(m) == m.accepting /\ m.pc = "wait" /\ ~m.token /\ ~m.closed

(* A step that is not of a worker leaves the workers where they are, except    *)
(* that it may start one, and what they hold.  One that lets an instance       *)
(* accept again forgets its late starts and notifies the worker.               *)
WorkersKept ==
  /\ held' = held
  /\ \A i \in Insts :
       /\ \/ /\ inst'[i].pc = inst[i].pc /\ inst'[i].e = inst[i].e
             /\ inst'[i].out = inst[i].out
          \/ inst[i].pc = "none" /\ inst'[i].pc \in {"none", "wait"}
       /\ \/ /\ inst'[i].late = inst[i].late
             /\ inst'[i].accepting => inst[i].accepting
          \/ inst'[i].late = 0
       /\ Asleep(inst'[i]) => Asleep(inst[i]) \/ inst[i].pc = "none"

(* Who leaves the instances and what is held alone keeps the workers.        *)
LEMMA SameWorkers ==
  ASSUME held' = held, inst' = inst
  PROVE  WorkersKept
  BY DEF WorkersKept

(* A new record for one instance. *)
LEMMA InstanceStep ==
  ASSUME Control, held' = held, NEW i \in Insts, NEW m, inst' = [inst EXCEPT ![i] = m],
         \/ m.pc = inst[i].pc /\ m.e = inst[i].e /\ m.out = inst[i].out
         \/ inst[i].pc = "none" /\ m.pc \in {"none", "wait"},
         \/ m.late = inst[i].late /\ (m.accepting => inst[i].accepting)
         \/ m.late = 0,
         Asleep(m) => Asleep(inst[i]) \/ inst[i].pc = "none"
  PROVE  WorkersKept
<1>1. \A j \in Insts : inst'[j] = IF j = i THEN m ELSE inst[j]
  BY DEF Control, DaemonTypeOK
<1> QED
  BY <1>1 DEF WorkersKept

(* A notify can only wake a worker.                                          *)
LEMMA NotifyWorkers ==
  ASSUME Control, held' = held, NEW i \in Insts, Notify(i)
  PROVE  WorkersKept
<1> DEFINE m == [inst[i] EXCEPT !.token = inst[i].pc # "exited"]
<1>1. inst[i] \in ManagedWorkflow
  BY DEF Control, DaemonTypeOK
<1>2. /\ m.pc = inst[i].pc /\ m.e = inst[i].e /\ m.out = inst[i].out
      /\ m.late = inst[i].late /\ m.accepting = inst[i].accepting /\ ~Asleep(m)
  BY <1>1 DEF ManagedWorkflow, Asleep
<1>3. inst' = [inst EXCEPT ![i] = m]
  BY DEF Notify
<1> HIDE DEF m
<1> QED
  BY <1>2, <1>3, InstanceStep

(* Nor does enqueueExecution or ExecWorkflow touch a worker otherwise.       *)
LEMMA EnqueuingWorkers ==
  ASSUME Control, NEW p \in Callers, Enqueuing(p)
  PROVE  WorkersKept
<1> USE DEF memoryVars
<1>1. PlaceOK(p, call[p])
  BY DEF Control, CallsOK
<1>2. held' = held
  BY EnqueuingStore DEF storeVars, BeginCreate, CommitCreate, AbortCreate
<1>3. CASE Accept(p) \/ Count(p) \/ Create(p) \/ Rearm(p) \/ Await(p)
  BY <1>2, <1>3, SameWorkers DEF Accept, Count, Create, Rearm, Await
<1>4. CASE NotifyWorker(p) \/ Register(p)
  <2>1. call[p].i \in Insts
    BY <1>1, <1>4 DEF NotifyWorker, Register, At, PlaceOK
  <2> QED
    BY <1>2, <1>4, <2>1, NotifyWorkers DEF NotifyWorker, Register
<1> QED
  BY <1>3, <1>4 DEF Enqueuing

(* A stop closes a worker but takes nothing out of its hands; only the end   *)
(* of the process, at a second signal, does.                                 *)
LEMMA StoppingWorkers ==
  ASSUME Control, NEW p \in Callers, Stopping(p)
  PROVE  WorkersKept \/ ProcessEnds
<1> USE DEF memoryVars
<1>1. PlaceOK(p, call[p]) /\ \A j \in Insts : inst[j] \in ManagedWorkflow
  BY DEF Control, CallsOK, DaemonTypeOK
<1>2. held' = held \/ ProcessEnds
  BY StoppingStore DEF storeVars, CancelQueuedExecutions, SetWorkflowStatus, DeleteWorkflow
<1>3. SUFFICES ASSUME ~ProcessEnds PROVE WorkersKept
  OBVIOUS
<1>4. held' = held
  BY <1>2, <1>3
<1>5. CASE Close(p)
  <2> DEFINE i == current[call[p].w]
             m == [inst[i] EXCEPT !.accepting = FALSE]
  <2>1. CASE i = 0
    BY <1>4, <1>5, <2>1, SameWorkers DEF Close
  <2>2. CASE i # 0
    <3>1. i \in Insts
      BY <1>1, <1>5, <2>2 DEF Close, At, PlaceOK, Handling, Control, DaemonTypeOK
    <3>2. inst' = [inst EXCEPT ![i] = m]
      BY <1>5, <2>2 DEF Close
    <3>3. /\ m.pc = inst[i].pc /\ m.e = inst[i].e /\ m.out = inst[i].out
          /\ m.late = inst[i].late /\ ~m.accepting /\ ~Asleep(m)
      BY <1>1, <3>1 DEF ManagedWorkflow, Asleep
    <3> HIDE DEF m
    <3> QED
      BY <1>4, <3>1, <3>2, <3>3, InstanceStep
  <2> QED
    BY <2>1, <2>2
<1>6. CASE Reopen(p)
  <2> DEFINE i == call[p].i
             m == [inst[i] EXCEPT !.accepting = TRUE, !.token = TRUE, !.late = 0]
  <2>1. i \in Insts
    BY <1>1, <1>6 DEF Reopen, At, PlaceOK
  <2>2. inst' = [inst EXCEPT ![i] = m]
    BY <1>6 DEF Reopen
  <2>3. /\ m.pc = inst[i].pc /\ m.e = inst[i].e /\ m.out = inst[i].out
        /\ m.late = 0 /\ ~Asleep(m)
    BY <1>1, <2>1 DEF ManagedWorkflow, Asleep
  <2> HIDE DEF m
  <2> QED
    BY <1>4, <2>1, <2>2, <2>3, InstanceStep
<1>7. CASE Halt(p)
  <2> DEFINE i == call[p].i
             m == [inst[i] EXCEPT !.closed = TRUE, !.watching = FALSE]
  <2>1. i \in Insts
    BY <1>1, <1>7 DEF Halt, At, PlaceOK, Finalizing
  <2>2. inst' = [inst EXCEPT ![i] = m]
    BY <1>3, <1>7 DEF Halt
  <2>3. /\ m.pc = inst[i].pc /\ m.e = inst[i].e /\ m.out = inst[i].out
        /\ m.late = inst[i].late /\ m.accepting = inst[i].accepting /\ ~Asleep(m)
    BY <1>1, <2>1 DEF ManagedWorkflow, Asleep
  <2> HIDE DEF m
  <2> QED
    BY <1>4, <2>1, <2>2, <2>3, InstanceStep
<1>8. CASE ReopenAll(p)
  <2>1. \A j \in Insts :
          LET m == [inst[j] EXCEPT !.accepting = TRUE, !.token = TRUE, !.late = 0]
          IN /\ m.pc = inst[j].pc /\ m.e = inst[j].e /\ m.out = inst[j].out
             /\ m.late = 0 /\ ~Asleep(m)
    BY <1>1 DEF ManagedWorkflow, Asleep
  <2> QED
    BY <1>4, <1>8, <2>1 DEF ReopenAll, WorkersKept
<1>9. CASE Drain(p) \/ Cancel(p) \/ TriggersOff(p) \/ StatusOff(p) \/ Unmap(p) \/ DeleteRow(p)
           \/ DrainAll(p) \/ Finalize(p) \/ Disconnect(p)
  BY <1>4, <1>9, SameWorkers DEF Drain, Cancel, TriggersOff, StatusOff, Unmap, DeleteRow,
                                 DrainAll, Finalize, Disconnect
<1> QED
  BY <1>5, <1>6, <1>7, <1>8, <1>9 DEF Stopping

(* A start makes new workers and leaves the others alone.                    *)
LEMMA StartingWorkers ==
  ASSUME Control, NEW p \in Callers, Starting(p)
  PROVE  WorkersKept
<1> USE DEF memoryVars
<1>1. /\ PlaceOK(p, call[p]) /\ HasInstance(call[p])
      /\ \A j \in Insts : inst[j] \in ManagedWorkflow
  BY DEF Control, CallsOK, InstancesOK, DaemonTypeOK
<1>2. held' = held
  BY StartingStore DEF storeVars, SetWorkflowStatus, UpsertWorkflow
<1>3. CASE Arm(p)
  <2> DEFINE i == call[p].i
             m == [NoInst EXCEPT !.w = call[p].w, !.trig = call[p].trig, !.accepting = TRUE,
                                 !.watching = call[p].trig # None]
  <2>1. SUFFICES ASSUME inst' = [inst EXCEPT ![i] = m] PROVE WorkersKept
    BY <1>2, <1>3, SameWorkers DEF Arm
  <2>2. i \in Insts /\ inst[i].pc = "none"
    BY <1>1, <1>3 DEF Arm, At, PlaceOK, HasInstance, Activating, Building
  <2>3. m.pc = "none" /\ m.late = 0
    BY DEF NoInst
  <2> HIDE DEF m
  <2> QED
    BY <1>2, <2>1, <2>2, <2>3, InstanceStep
<1>4. CASE Spawn(p)
  <2> DEFINE i == call[p].i
             m == [inst[i] EXCEPT !.pc = "wait"]
  <2>1. i \in Insts /\ inst[i].pc = "none"
    BY <1>1, <1>4 DEF Spawn, At, PlaceOK, HasInstance, Activating, Building
  <2>2. m.pc = "wait" /\ m.late = inst[i].late /\ m.accepting = inst[i].accepting
    BY <1>1, <2>1 DEF ManagedWorkflow
  <2>3. inst' = [inst EXCEPT ![i] = m]
    BY <1>4 DEF Spawn
  <2> HIDE DEF m
  <2> QED
    BY <1>2, <2>1, <2>2, <2>3, InstanceStep
<1>5. CASE WakeUp(p)
  <2>1. call[p].i \in Insts
    BY <1>1, <1>5 DEF WakeUp, At, PlaceOK, Activating
  <2> QED
    BY <1>2, <1>5, <2>1, NotifyWorkers DEF WakeUp
<1>6. CASE Load(p) \/ MarkStopped(p) \/ Upsert(p) \/ Replace(p) \/ TriggersOn(p) \/ StatusOn(p)
  BY <1>2, <1>6, SameWorkers DEF Load, MarkStopped, Upsert, Replace, TriggersOn, StatusOn
<1> QED
  BY <1>3, <1>4, <1>5, <1>6 DEF Starting

(* Every step is one of a worker, the end of the process, or leaves the        *)
(* workers alone.                                                              *)
LEMMA WorkersStep ==
  ASSUME Control, [DaemonNext]_vars
  PROVE  WorkersKept \/ (\E i \in Insts : Worker(i)) \/ ProcessEnds
<1> USE DEF memoryVars
<1>1. ASSUME NEW p, NEW w, NEW i, NEW op,
             Fire(p, i, op) \/ Exec(p, w) \/ RequestStart(p, w) \/ Request(p, op, w)
      PROVE  WorkersKept
  BY <1>1, SameWorkers DEF Fire, Exec, RequestStart, Request, storeVars
<1>2. ASSUME NEW p, Shutdown(p)
      PROVE  WorkersKept
  <2>1. \A j \in Insts :
          LET m == [inst[j] EXCEPT !.accepting = FALSE]
          IN /\ m.pc = inst[j].pc /\ m.e = inst[j].e /\ m.out = inst[j].out
             /\ m.late = inst[j].late /\ ~m.accepting /\ ~Asleep(m)
    BY DEF ManagedWorkflow, Control, DaemonTypeOK, Asleep
  <2> QED
    BY <1>2, <2>1 DEF Shutdown, WorkersKept, storeVars
<1>3. CASE Restoring
  <2>1. held' = held
    BY <1>3, RestoringStore DEF storeVars, ApplyRetention, SetWorkflowStatus
  <2> QED
    BY <1>3, <2>1, SameWorkers DEF Restoring, Retain, ListActive, RestoreNext, GiveUp,
                                   GiveUpTriggers
<1>4. CASE Boot \/ Background \/ UNCHANGED vars
  BY <1>4, SameWorkers DEF Boot, Background, vars, storeVars, MarkStaleRunningExecutions,
                           ApplyRetention, Tick, OpenConnection
<1>5. BootFails \/ Exit \/ Kill => ProcessEnds
  BY DEF BootFails, Exit, Kill
<1> QED
  BY <1>1, <1>2, <1>3, <1>4, <1>5, EnqueuingWorkers, StoppingWorkers, StartingWorkers,
     DaemonCases, Zenon
-----------------------------------------------------------------------------
(* Two workers never hold one execution, for any number of instances of a      *)
(* workflow alive at once: a claim takes from the queue, where nothing held is. *)
LEMMA OneWorkerStep ==
  ASSUME Base, OneWorkerPerExecution, [DaemonNext]_vars
  PROVE  OneWorkerPerExecution'
<1> DEFINE W == {i \in Insts : Working(i)}
<1>1. /\ inst \in [Insts -> ManagedWorkflow] /\ held = {inst[j].e : j \in W}
      /\ \A j, k \in W : j # k => inst[j].e # inst[k].e
  BY DEF OneWorkerPerExecution, Base, Control, DaemonTypeOK
<1>2. ASSUME held' = held,
             \A j \in Insts : Working(j)' <=> Working(j),
             \A j \in W : inst'[j].e = inst[j].e
      PROVE  OneWorkerPerExecution'
  <2>1. W' = W
    BY <1>2
  <2>2. {inst'[j].e : j \in W} = {inst[j].e : j \in W}
    BY <1>2
  <2> QED
    BY <1>1, <1>2, <2>1, <2>2 DEF OneWorkerPerExecution
<1>3. CASE WorkersKept
  <2>1. \A j \in Insts : Working(j)' <=> Working(j)
    BY <1>3 DEF WorkersKept, Working
  <2>2. \A j \in W : inst'[j].e = inst[j].e
    BY <1>3 DEF WorkersKept, Working
  <2> QED
    BY <1>2, <1>3, <2>1, <2>2 DEF WorkersKept
<1>4. CASE ProcessEnds
  <2>1. held' = {} /\ \A j \in Insts : ~Working(j)'
    BY <1>4 DEF ProcessEnds, Crash, NoInst, Working
  <2> QED
    BY <2>1 DEF OneWorkerPerExecution
<1>5. ASSUME NEW i \in Insts, Worker(i)
      PROVE  OneWorkerPerExecution'
  <2> USE DEF WorkerAt, WorkerTo
  <2>0. inst[i] \in ManagedWorkflow
    BY <1>1
  <2>1. CASE Wake(i) \/ Check(i) \/ Mark(i) \/ Report(i)
    <3>1. held' = held
      BY <2>1 DEF Wake, Check, Mark, Report, storeVars
    <3>2. /\ \A j \in Insts \ {i} : inst'[j] = inst[j]
          /\ inst'[i].pc \in {"mark", "run"} <=> inst[i].pc \in {"mark", "run"}
          /\ inst[i].pc \in {"mark", "run"} => inst'[i].e = inst[i].e
      BY <1>1, <2>0, <2>1 DEF Wake, Check, Mark, Report, LoopPc, ManagedWorkflow
    <3> QED
      BY <1>2, <3>1, <3>2 DEF Working
  <2>2. CASE Claim(i)
    <3>1. ASSUME NEW e \in Ids, ClaimNextQueueItem(inst[i].w, e),
                 inst' = [inst EXCEPT ![i].pc = "mark", ![i].e = e,
                          ![i].late = IF inst[i].accepting THEN @ ELSE @ + 1]
          PROVE  OneWorkerPerExecution'
      <4>1. e \notin held /\ held' = held \cup {e}
        BY <3>1 DEF ClaimNextQueueItem, IsNextItem, QueueOf, Base, StoreInv, HeldIsRunning
      <4>2. ~Working(i) /\ \A j \in Insts \ {i} : inst'[j] = inst[j]
        BY <1>1, <2>2, <3>1 DEF Claim, Working
      <4>3. Working(i)' /\ inst'[i].e = e
        BY <1>1, <2>0, <3>1 DEF Working, ManagedWorkflow
      <4>4. W' = W \cup {i}
        BY <4>2, <4>3 DEF Working
      <4>5. \A j \in W : inst'[j].e = inst[j].e /\ inst[j].e \in held
        BY <1>1, <4>2
      <4>6. {inst'[j].e : j \in W'} = {inst[j].e : j \in W} \cup {e}
        BY <4>3, <4>4, <4>5
      <4>7. held' = {inst'[j].e : j \in W'}
        BY <1>1, <4>1, <4>6
      <4>8. \A j, k \in W' : j # k => inst'[j].e # inst'[k].e
        BY <1>1, <4>1, <4>3, <4>4, <4>5
      <4> QED
        BY <4>7, <4>8 DEF OneWorkerPerExecution
    <3>2. CASE UNCHANGED storeVars /\ inst' = [inst EXCEPT ![i].pc = "wait"]
      <4>1. held' = held
        BY <3>2 DEF storeVars
      <4>2. ~Working(i) /\ ~Working(i)' /\ \A j \in Insts \ {i} : inst'[j] = inst[j]
        BY <1>1, <2>0, <2>2, <3>2 DEF Claim, Working, ManagedWorkflow
      <4> QED
        BY <1>2, <4>1, <4>2 DEF Working
    <3> QED
      BY <2>2, <3>1, <3>2 DEF Claim
  <2>3. CASE Run(i)
    <3>1. held' = held \ {inst[i].e}
      BY <2>3 DEF Run, CompleteExecution, FailCompletion
    <3>2. /\ Working(i) /\ ~Working(i)' /\ \A j \in Insts \ {i} : inst'[j] = inst[j]
      BY <1>1, <2>0, <2>3 DEF Run, Working, ManagedWorkflow
    <3>3. W' = W \ {i} /\ i \in W
      BY <3>2 DEF Working
    <3>4. \A j \in W' : inst'[j].e = inst[j].e /\ inst[j].e # inst[i].e
      BY <1>1, <3>2, <3>3
    <3>5. {inst'[j].e : j \in W'} = {inst[j].e : j \in W} \ {inst[i].e}
      BY <3>3, <3>4
    <3>6. \A j, k \in W' : j # k => inst'[j].e # inst'[k].e
      BY <1>1, <3>3, <3>4
    <3> QED
      BY <1>1, <3>1, <3>5, <3>6 DEF OneWorkerPerExecution
  <2> QED
    BY <1>5, <2>1, <2>2, <2>3 DEF Worker
<1> QED
  BY <1>3, <1>4, <1>5, WorkersStep DEF Base

(* However starts and restarts overlap, no execution is in two hands.          *)
THEOREM OneWorkerPerExecutionHolds == DaemonSpec => []OneWorkerPerExecution
<1>1. DaemonInit => OneWorkerPerExecution
  BY DEF DaemonInit, StoreInit, NoInst, OneWorkerPerExecution, Working
<1>2. Base /\ OneWorkerPerExecution /\ [DaemonNext]_vars => OneWorkerPerExecution'
  BY OneWorkerStep
<1> QED
  BY <1>1, <1>2, BaseInvariant, PTL DEF DaemonSpec
-----------------------------------------------------------------------------
(* A worker that started an execution of a closed instance is past the check   *)
(* of isAccepting, and the next check sends it to sleep.                       *)
LateOK == \A i \in Insts : /\ inst[i].late <= 1
                           /\ inst[i].late > 0 => ~inst[i].accepting /\ inst[i].pc # "claim"

(* A closed worker starts at most the one execution it was about to claim.   *)
LEMMA LateStep ==
  ASSUME Control, LateOK, [DaemonNext]_vars
  PROVE  LateOK'
<1>1. /\ inst \in [Insts -> ManagedWorkflow] /\ inst' \in [Insts -> ManagedWorkflow]
      /\ \A j \in Insts : inst[j].late \in Nat /\ inst'[j].late \in Nat
  <2>1. \A m \in ManagedWorkflow : m.late \in Nat
    BY DEF ManagedWorkflow
  <2> QED
    BY <2>1, TypeStep DEF Control, DaemonTypeOK
<1>2. CASE WorkersKept
  <2>1. ASSUME NEW j \in Insts, inst'[j].late = inst[j].late,
               inst'[j].accepting => inst[j].accepting,
               inst'[j].pc \in {inst[j].pc, "wait", "none"}
        PROVE  inst'[j].late <= 1 /\
               (inst'[j].late > 0 => ~inst'[j].accepting /\ inst'[j].pc # "claim")
    BY <2>1 DEF LateOK
  <2>2. \A j \in Insts : inst'[j].pc \in {inst[j].pc, "wait", "none"}
    BY <1>2 DEF WorkersKept
  <2> QED
    BY <1>1, <1>2, <2>1, <2>2 DEF WorkersKept, LateOK
<1>3. CASE ProcessEnds
  BY <1>3 DEF ProcessEnds, NoInst, LateOK
<1>4. ASSUME NEW i \in Insts, Worker(i)
      PROVE  LateOK'
  <2> USE DEF WorkerAt, WorkerTo
  <2>1. inst[i] \in ManagedWorkflow
    BY <1>1
  <2>2. \A j \in Insts \ {i} : inst'[j] = inst[j]
    BY <1>1, <1>4 DEF Worker, Wake, Check, Claim, Mark, Run, Report
  <2>3. SUFFICES /\ inst'[i].late <= 1
                 /\ inst'[i].late > 0 => ~inst'[i].accepting /\ inst'[i].pc # "claim"
    BY <2>2 DEF LateOK
  <2>4. inst[i].late <= 1 /\ (inst[i].late > 0 => ~inst[i].accepting /\ inst[i].pc # "claim")
    BY DEF LateOK
  <2>5. CASE Claim(i)
    <3>1. inst[i].pc = "claim"
      BY <2>5 DEF Claim
    <3>2. inst[i].late = 0
      BY <1>1, <2>4, <3>1
    <3>3. ASSUME NEW e \in Ids,
                 inst' = [inst EXCEPT ![i].pc = "mark", ![i].e = e,
                          ![i].late = IF inst[i].accepting THEN @ ELSE @ + 1]
          PROVE  /\ inst'[i].late <= 1
                 /\ inst'[i].late > 0 => ~inst'[i].accepting /\ inst'[i].pc # "claim"
      <4>1. inst'[i].pc = "mark" /\ inst'[i].accepting = inst[i].accepting
        BY <1>1, <2>1, <3>3 DEF ManagedWorkflow
      <4>2. inst'[i].late = IF inst[i].accepting THEN 0 ELSE 0 + 1
        BY <1>1, <2>1, <3>2, <3>3 DEF ManagedWorkflow
      <4> QED
        BY <4>1, <4>2
    <3>4. CASE inst' = [inst EXCEPT ![i].pc = "wait"]
      <4>1. inst'[i].pc = "wait" /\ inst'[i].late = inst[i].late
        BY <1>1, <2>1, <3>4 DEF ManagedWorkflow
      <4> QED
        BY <3>2, <4>1
    <3> QED
      BY <2>5, <3>3, <3>4 DEF Claim
  <2>6. CASE Wake(i) \/ Check(i) \/ Mark(i) \/ Run(i) \/ Report(i)
    <3>1. inst'[i].late \in {0, inst[i].late} /\ inst'[i].accepting = inst[i].accepting
      BY <1>1, <2>1, <2>6 DEF Wake, Check, Mark, Run, Report, LoopPc, ManagedWorkflow
    <3>2. inst'[i].pc = "claim" => inst[i].accepting
      BY <1>1, <2>1, <2>6 DEF Wake, Check, Mark, Run, Report, LoopPc, ManagedWorkflow
    <3> QED
      BY <2>4, <3>1, <3>2
  <2> QED
    BY <1>4, <2>5, <2>6 DEF Worker
<1> QED
  BY <1>2, <1>3, <1>4, WorkersStep

(* After a stop, restart or shutdown has closed an instance, its worker starts *)
(* at most the execution it was about to claim.                                *)
THEOREM AtMostOneLateStartHolds == DaemonSpec => []AtMostOneLateStart
<1>1. DaemonInit => LateOK
  BY DEF DaemonInit, NoInst, LateOK
<1>2. Control /\ LateOK /\ [DaemonNext]_vars => LateOK'
  BY LateStep
<1>3. LateOK => AtMostOneLateStart
  BY DEF LateOK, AtMostOneLateStart
<1> QED
  BY <1>1, <1>2, <1>3, ControlInvariant, PTL DEF DaemonSpec
-----------------------------------------------------------------------------
(* Every other step leaves the reports in the waiters' channels, and the       *)
(* cancelled executions still to report, or takes some of them away.           *)
ReportsKept ==
  /\ \A p \in Callers : call'[p].cancelled \subseteq call[p].cancelled
  /\ \A e \in Ids : mailbox'[e] \in {None, mailbox[e]}

(* A goroutine that gains no cancelled execution and leaves the channels     *)
(* alone keeps the reports.                                                  *)
LEMMA CallReports ==
  ASSUME Control, NEW p \in Callers, NEW c, call' = [call EXCEPT ![p] = c],
         c.cancelled \subseteq call[p].cancelled, mailbox' = mailbox
  PROVE  ReportsKept
  BY DEF Control, CallsOK, ReportsKept

(* So does one that returns.                                                 *)
LEMMA IdleReports ==
  ASSUME Control, NEW p \in Callers, Return(p), mailbox' = mailbox
  PROVE  ReportsKept
<1>1. Idle.cancelled = {}
  BY DEF Idle
<1> QED
  BY <1>1, CallReports DEF Return

(* So does one that only moves on.                                           *)
LEMMA GotoReports ==
  ASSUME Control, NEW p \in Callers, NEW pc, StepTo(p, pc), mailbox' = mailbox
  PROVE  ReportsKept
<1>1. [call[p] EXCEPT !.pc = pc].cancelled = call[p].cancelled
  BY DEF Control, CallsOK, Locals
<1>2. call' = [call EXCEPT ![p] = [call[p] EXCEPT !.pc = pc]]
  BY DEF StepTo
<1> QED
  BY <1>1, <1>2, CallReports

(* enqueueExecution and ExecWorkflow report nothing.                         *)
LEMMA EnqueuingReports ==
  ASSUME Control, NEW p \in Callers, Enqueuing(p)
  PROVE  ReportsKept
<1> USE DEF memoryVars
<1>1. call[p] \in Locals /\ mailbox \in [Ids -> Outcomes \cup {None}]
  BY DEF Control, CallsOK, DaemonTypeOK
<1>2. ASSUME AfterEnqueue(p), mailbox' = mailbox
      PROVE  ReportsKept
  BY <1>2, GotoReports, IdleReports DEF AfterEnqueue
<1>3. CASE Accept(p)
  <2> DEFINE c == [call[p] EXCEPT !.pc = "count", !.i = current[call[p].w]]
  <2>1. c.cancelled = call[p].cancelled
    BY <1>1 DEF Locals
  <2>2. AfterEnqueue(p) \/ call' = [call EXCEPT ![p] = c]
    BY <1>3 DEF Accept
  <2> HIDE DEF c
  <2> QED
    BY <1>2, <1>3, <2>1, <2>2, CallReports DEF Accept
<1>4. CASE Create(p)
  <2> DEFINE c == [call[p] EXCEPT !.pc = "notify", !.e = nextId]
  <2>1. c.cancelled = call[p].cancelled
    BY <1>1 DEF Locals
  <2>2. AfterEnqueue(p) \/ call' = [call EXCEPT ![p] = c]
    BY <1>4 DEF Create
  <2> HIDE DEF c
  <2> QED
    BY <1>2, <1>4, <2>1, <2>2, CallReports DEF Create
<1>5. CASE Count(p) \/ NotifyWorker(p) \/ Register(p) \/ Rearm(p)
  BY <1>2, <1>5, GotoReports, IdleReports DEF Count, NotifyWorker, Register, Rearm
<1>6. CASE Await(p)
  <2>1. \A e \in Ids : mailbox'[e] \in {None, mailbox[e]}
    BY <1>1, <1>6 DEF Await
  <2>2. \A q \in Callers : call'[q].cancelled \subseteq call[q].cancelled
    BY <1>6 DEF Await, Return, Idle, Control, CallsOK
  <2> QED
    BY <2>1, <2>2 DEF ReportsKept
<1> QED
  BY <1>3, <1>4, <1>5, <1>6 DEF Enqueuing

(* Of a stop only the cancellation and its publishing touch the reports.     *)
LEMMA StoppingReports ==
  ASSUME Control, NEW p \in Callers, Stopping(p)
  PROVE  ReportsKept \/ Cancel(p) \/ Halt(p)
<1> USE DEF memoryVars
<1>1. call[p] \in Locals
  BY DEF Control, CallsOK
<1>2. ASSUME NEW c, c.cancelled = call[p].cancelled, call' = [call EXCEPT ![p] = c],
             mailbox' = mailbox
      PROVE  ReportsKept
  BY <1>2, CallReports
<1>3. CASE Close(p)
  <2> DEFINE c == [call[p] EXCEPT !.pc = "drain", !.i = current[call[p].w]]
  <2>1. c.cancelled = call[p].cancelled
    BY <1>1 DEF Locals
  <2>2. Return(p) \/ StepTo(p, "markStopped") \/ call' = [call EXCEPT ![p] = c]
    BY <1>3 DEF Close
  <2> HIDE DEF c
  <2> QED
    BY <1>2, <1>3, <2>1, <2>2, GotoReports, IdleReports DEF Close
<1>4. ASSUME NextToFinalize(p), mailbox' = mailbox
      PROVE  ReportsKept
  <2>1. ASSUME NEW i, NEW w, NEW r,
               call' = [call EXCEPT ![p].pc = "cancel", ![p].i = i, ![p].w = w, ![p].rest = r]
        PROVE  ReportsKept
    <3> DEFINE c == [call[p] EXCEPT !.pc = "cancel", !.i = i, !.w = w, !.rest = r]
    <3>1. c.cancelled = call[p].cancelled
      BY <1>1 DEF Locals
    <3>2. call' = [call EXCEPT ![p] = c]
      BY <2>1
    <3> HIDE DEF c
    <3> QED
      BY <1>2, <1>4, <3>1, <3>2
  <2> QED
    BY <1>4, <2>1, GotoReports DEF NextToFinalize
<1>5. CASE Unmap(p)
  <2>1. call[p].op \in {"stop", "delete", "restart", "start", "shutdown"}
    BY <1>5 DEF Unmap, At, Control, CallsOK, PlaceOK, Finalizing, Handling
  <2> QED
    BY <1>4, <1>5, <2>1, GotoReports, IdleReports DEF Unmap
<1>6. CASE DrainAll(p)
  <2>1. ASSUME NEW pc, NEW r, call' = [call EXCEPT ![p].pc = pc, ![p].rest = r]
        PROVE  ReportsKept
    <3> DEFINE c == [call[p] EXCEPT !.pc = pc, !.rest = r]
    <3>1. c.cancelled = call[p].cancelled
      BY <1>1 DEF Locals
    <3>2. call' = [call EXCEPT ![p] = c]
      BY <2>1
    <3> HIDE DEF c
    <3> QED
      BY <1>2, <1>6, <3>1, <3>2 DEF DrainAll
  <2>2. ASSUME NEW r, call' = [call EXCEPT ![p].rest = r]
        PROVE  ReportsKept
    <3> DEFINE c == [call[p] EXCEPT !.rest = r]
    <3>1. c.cancelled = call[p].cancelled
      BY <1>1 DEF Locals
    <3>2. call' = [call EXCEPT ![p] = c]
      BY <2>2
    <3> HIDE DEF c
    <3> QED
      BY <1>2, <1>6, <3>1, <3>2 DEF DrainAll
  <2> QED
    BY <1>6, <2>1, <2>2, GotoReports DEF DrainAll
<1>7. CASE Drain(p) \/ Reopen(p) \/ TriggersOff(p) \/ StatusOff(p) \/ DeleteRow(p)
           \/ ReopenAll(p) \/ Disconnect(p)
  BY <1>7, GotoReports, IdleReports DEF Drain, Reopen, TriggersOff, StatusOff, DeleteRow,
                                        ReopenAll, Disconnect
<1>8. CASE Finalize(p)
  BY <1>4, <1>8 DEF Finalize
<1> QED
  BY <1>3, <1>5, <1>6, <1>7, <1>8 DEF Stopping

(* A start reports nothing.                                                  *)
LEMMA StartingReports ==
  ASSUME Control, NEW p \in Callers, Starting(p)
  PROVE  ReportsKept
<1> USE DEF memoryVars
<1>1. call[p] \in Locals
  BY DEF Control, CallsOK
<1>2. ASSUME ActivationFails(p), mailbox' = mailbox
      PROVE  ReportsKept
  BY <1>2, GotoReports, IdleReports DEF ActivationFails
<1>3. CASE Load(p)
  <2>1. ASSUME Loaded(p, call[p].w), mailbox' = mailbox
        PROVE  ReportsKept
    <3> DEFINE c == [Idle EXCEPT !.op = "start", !.w = call[p].w, !.found = Exists(call[p].w),
                       !.pc = IF workflows[call[p].w] = "active" THEN "close" ELSE "upsert"]
    <3>1. c.cancelled = {}
      BY DEF Idle
    <3>2. call' = [call EXCEPT ![p] = c]
      BY <2>1 DEF Loaded
    <3> HIDE DEF c
    <3> QED
      BY <2>1, <3>1, <3>2, CallReports
  <2> QED
    BY <1>3, <2>1, IdleReports DEF Load
<1>4. CASE Replace(p)
  <2> DEFINE c == [call[p] EXCEPT !.pc = "arm", !.i = nextInst, !.trig = nextInst]
  <2>1. c.cancelled = call[p].cancelled
    BY <1>1 DEF Locals
  <2>2. ActivationFails(p) \/ call' = [call EXCEPT ![p] = c]
    BY <1>4 DEF Replace
  <2> HIDE DEF c
  <2> QED
    BY <1>2, <1>4, <2>1, <2>2, CallReports DEF Replace
<1>5. CASE MarkStopped(p) \/ Upsert(p) \/ Arm(p) \/ TriggersOn(p) \/ Spawn(p) \/ StatusOn(p)
           \/ WakeUp(p)
  BY <1>2, <1>5, GotoReports, IdleReports DEF MarkStopped, Upsert, Arm, TriggersOn, Spawn,
                                              StatusOn, WakeUp
<1> QED
  BY <1>3, <1>4, <1>5 DEF Starting

(* The restore reports nothing.                                              *)
LEMMA RestoringReports ==
  ASSUME Control, Restoring
  PROVE  ReportsKept
<1> USE DEF memoryVars
<1>1. Main \in Callers /\ call[Main] \in Locals
  BY DaemonConstants DEF DaemonConstants, Control, CallsOK
<1>2. CASE Retain \/ GiveUp \/ GiveUpTriggers
  BY <1>1, <1>2, GotoReports DEF Retain, GiveUp, GiveUpTriggers
<1>3. CASE ListActive
  <2> DEFINE c == [call[Main] EXCEPT !.pc = "restore",
                                     !.rest = {w \in Workflows : workflows[w] = "active"}]
  <2>1. c.cancelled = call[Main].cancelled
    BY <1>1 DEF Locals
  <2>2. call' = [call EXCEPT ![Main] = c]
    BY <1>3 DEF ListActive
  <2> HIDE DEF c
  <2> QED
    BY <1>1, <1>3, <2>1, <2>2, CallReports DEF ListActive
<1>4. CASE RestoreNext
  <2>1. ASSUME NEW w, call' = [call EXCEPT ![Main].pc = "arm", ![Main].w = w,
                           ![Main].i = nextInst, ![Main].trig = triggers[w].id,
                           ![Main].rest = call[Main].rest \ {w}]
        PROVE  ReportsKept
    <3> DEFINE c == [call[Main] EXCEPT !.pc = "arm", !.w = w, !.i = nextInst,
                       !.trig = triggers[w].id, !.rest = call[Main].rest \ {w}]
    <3>1. c.cancelled = call[Main].cancelled
      BY <1>1 DEF Locals
    <3>2. call' = [call EXCEPT ![Main] = c]
      BY <2>1
    <3> HIDE DEF c
    <3> QED
      BY <1>1, <1>4, <3>1, <3>2, CallReports DEF RestoreNext
  <2> QED
    BY <1>1, <1>4, <2>1, IdleReports DEF RestoreNext
<1> QED
  BY <1>2, <1>3, <1>4 DEF Restoring

(* The reports are touched only by a cancellation, a worker, or the end of   *)
(* the process.                                                              *)
LEMMA ReportsStep ==
  ASSUME Control, [DaemonNext]_vars
  PROVE  \/ ReportsKept \/ ProcessEnds
         \/ (\E p \in Callers : Cancel(p) \/ Halt(p))
         \/ (\E i \in Insts : Report(i))
<1> USE DEF memoryVars
<1>1. Idle.cancelled = {} /\ Main \in Callers /\ Operators \cup {Main} \subseteq Callers
      /\ Firers \subseteq Callers /\ Users \subseteq Callers
  BY DaemonConstants DEF Idle, DaemonConstants
<1>2. ASSUME NEW p \in Callers, NEW c, c.cancelled = {},
             call' = [call EXCEPT ![p] = c], mailbox' = mailbox
      PROVE  ReportsKept
  BY <1>2, CallReports
<1>3. ASSUME NEW p \in Firers, NEW i, NEW op, Fire(p, i, op)
      PROVE  ReportsKept
  <2> DEFINE c == [Idle EXCEPT !.pc = "accept", !.op = op, !.w = inst[i].w,
                               !.trig = inst[i].trig]
  <2>1. c.cancelled = {}
    BY DEF Idle
  <2>2. p \in Callers /\ call' = [call EXCEPT ![p] = c]
    BY <1>1, <1>3 DEF Fire
  <2> HIDE DEF c
  <2> QED
    BY <1>2, <1>3, <2>1, <2>2 DEF Fire
<1>4. ASSUME NEW p \in Users, NEW w, Exec(p, w)
      PROVE  ReportsKept
  <2> DEFINE c == [Idle EXCEPT !.pc = "count", !.op = "exec", !.w = w, !.i = current[w]]
  <2>1. c.cancelled = {}
    BY DEF Idle
  <2>2. p \in Callers /\ call' = [call EXCEPT ![p] = c]
    BY <1>1, <1>4 DEF Exec
  <2> HIDE DEF c
  <2> QED
    BY <1>2, <1>4, <2>1, <2>2 DEF Exec
<1>5. ASSUME NEW p \in Operators, NEW w, RequestStart(p, w)
      PROVE  ReportsKept
  <2> DEFINE c == [Idle EXCEPT !.op = "start", !.w = w, !.found = Exists(w),
                     !.pc = IF workflows[w] = "active" THEN "close" ELSE "upsert"]
  <2>1. c.cancelled = {}
    BY DEF Idle
  <2>2. p \in Callers /\ call' = [call EXCEPT ![p] = c]
    BY <1>1, <1>5 DEF RequestStart, Loaded
  <2> HIDE DEF c
  <2> QED
    BY <1>2, <1>5, <2>1, <2>2 DEF RequestStart
<1>6. ASSUME NEW p \in Operators, NEW w, NEW op, Request(p, op, w)
      PROVE  ReportsKept
  <2> DEFINE c == [Idle EXCEPT !.op = op, !.w = w,
                     !.pc = IF workflows[w] = "active" THEN "close"
                            ELSE IF op = "delete" THEN "deleteRow" ELSE "load"]
  <2>1. c.cancelled = {}
    BY DEF Idle
  <2>2. p \in Callers /\ call' = [call EXCEPT ![p] = c]
    BY <1>1, <1>6 DEF Request
  <2> HIDE DEF c
  <2> QED
    BY <1>2, <1>6, <2>1, <2>2 DEF Request
<1>7. ASSUME NEW p \in Operators \cup {Main}, Shutdown(p)
      PROVE  ReportsKept
  <2> DEFINE m == {current[w] : w \in Workflows} \ {0}
             c == [Idle EXCEPT !.pc = "drainAll", !.op = "shutdown", !.insts = m, !.rest = m]
  <2>1. c.cancelled = {}
    BY DEF Idle
  <2>2. p \in Callers /\ call' = [call EXCEPT ![p] = c]
    BY <1>1, <1>7 DEF Shutdown
  <2> HIDE DEF c
  <2> QED
    BY <1>2, <1>7, <2>1, <2>2 DEF Shutdown
<1>8. CASE Boot
  <2> DEFINE c == [call[Main] EXCEPT !.pc = "retain", !.op = "restore"]
  <2>1. c.cancelled = call[Main].cancelled
    BY <1>1 DEF Control, CallsOK, Locals
  <2>2. call' = [call EXCEPT ![Main] = c]
    BY <1>8 DEF Boot
  <2> HIDE DEF c
  <2> QED
    BY <1>1, <1>8, <2>1, <2>2, CallReports DEF Boot
<1>9. CASE Background \/ UNCHANGED vars
  BY <1>9 DEF Background, vars, ReportsKept
<1>10. ASSUME NEW i \in Insts, Worker(i)
       PROVE  ReportsKept \/ Report(i)
  <2>1. CASE Wake(i) \/ Check(i) \/ Claim(i) \/ Mark(i) \/ Run(i)
    BY <2>1 DEF Wake, Check, Claim, Mark, Run, ReportsKept
  <2> QED
    BY <1>10, <2>1 DEF Worker
<1>11. BootFails \/ Exit \/ Kill => ProcessEnds
  BY DEF BootFails, Exit, Kill
<1> QED
  BY <1>3, <1>4, <1>5, <1>6, <1>7, <1>8, <1>9, <1>10, <1>11, EnqueuingReports, StoppingReports,
     StartingReports, RestoringReports, DaemonCases, Zenon
-----------------------------------------------------------------------------
(* What can be told of an execution and stays true: the outcome the row says,  *)
(* or any if the row was deleted or could not be written.                      *)
TrueReports ==
  {r \in Ids \X Outcomes : r[1] < nextId /\ (status[r[1]] \in {r[2], "none"} \/ r[1] \in lost)}

ReportInv ==
  /\ \A e \in Ids : mailbox[e] # None => <<e, mailbox[e]>> \in TrueReports
  /\ \A i \in Insts : inst[i].pc = "report" => <<inst[i].e, inst[i].out>> \in TrueReports
  /\ \A p \in Callers : \A e \in call[p].cancelled : <<e, "error">> \in TrueReports

(* Identifiers are only given out, and a failed completion is remembered while *)
(* the process lives.                                                          *)
LEMMA StoreGrows ==
  ASSUME TypeOK, [StoreNext]_storeVars, up
  PROVE  nextId' >= nextId /\ lost \subseteq lost'
<1>1. nextId \in Nat
  BY DEF TypeOK
<1>2. ASSUME nextId' \in {nextId, nextId + 1}, lost \subseteq lost'
      PROVE  nextId' >= nextId /\ lost \subseteq lost'
  BY <1>1, <1>2
<1>3. ASSUME NEW w, NEW s, UpsertWorkflow(w, s) \/ SetWorkflowStatus(w, s)
      PROVE  nextId' \in {nextId, nextId + 1} /\ lost \subseteq lost'
  BY <1>3 DEF UpsertWorkflow, SetWorkflowStatus
<1>4. ASSUME NEW w, NEW k, DeleteWorkflow(w, k)
      PROVE  nextId' \in {nextId, nextId + 1} /\ lost \subseteq lost'
  BY <1>4 DEF DeleteWorkflow
<1>5. ASSUME NEW w, NEW c, NEW e, NEW s,
             \/ CancelQueuedExecutions(w) \/ ClaimNextQueueItem(w, e) \/ CommitCreate(c, w)
             \/ BeginCreate(c) \/ AbortCreate(c) \/ CompleteExecution(e, s)
             \/ FailCompletion(e)
      PROVE  nextId' \in {nextId, nextId + 1} /\ lost \subseteq lost'
  BY <1>5 DEF CancelQueuedExecutions, ClaimNextQueueItem, CommitCreate, BeginCreate,
              AbortCreate, CompleteExecution, FailCompletion
<1>6. CASE ApplyRetention \/ Crash \/ OpenConnection \/ Tick \/ UNCHANGED storeVars
  BY <1>2, <1>6 DEF ApplyRetention, Crash, OpenConnection, Tick, storeVars
<1>7. ~MarkStaleRunningExecutions
  BY DEF MarkStaleRunningExecutions
<1> QED
  BY <1>2, <1>3, <1>4, <1>5, <1>6, <1>7, StepCases, Zenon

(* A report that is on record, or whose execution is gone, stays so.         *)
LEMMA ReportsStay ==
  ASSUME Base, [DaemonNext]_vars, up
  PROVE  TrueReports \subseteq TrueReports'
<1>1. /\ TypeOK /\ TypeOK' /\ StoreInv /\ [StoreNext]_storeVars
  BY StoreStep, TypeStep DEF Base, Control, DaemonTypeOK
<1>2. SUFFICES ASSUME NEW e \in Ids, NEW s \in Outcomes, <<e, s>> \in TrueReports
               PROVE  <<e, s>> \in TrueReports'
  BY DEF TrueReports
<1>3. nextId' >= nextId /\ lost \subseteq lost' /\ nextId \in Nat /\ nextId' \in Nat /\ e \in Nat
  BY <1>1, StoreGrows DEF TypeOK, Ids
<1>4. e < nextId /\ (status[e] \in {s, "none"} \/ e \in lost)
  <2>1. \A r \in TrueReports :
          r[1] < nextId /\ (status[r[1]] \in {r[2], "none"} \/ r[1] \in lost)
    BY DEF TrueReports
  <2>2. <<e, s>>[1] = e /\ <<e, s>>[2] = s
    OBVIOUS
  <2> QED
    BY <1>2, <2>1, <2>2
<1>5. /\ Phase[e] = (IF status[e] # "none" THEN status[e] ELSE "gone")
      /\ Phase'[e] = (IF status'[e] # "none" THEN status'[e]
                      ELSE IF e < nextId' THEN "gone" ELSE "absent")
  BY <1>3, <1>4 DEF Phase
<1>6. Phase'[e] \in Lifecycle!After(Phase[e])
  BY <1>1, PhaseStep DEF PhaseMoves
<1>7. ASSUME status[e] \in {s, "none"}
      PROVE  status'[e] \in {s, "none"}
  <2>1. CASE status[e] = "none"
    <3>1. Phase'[e] = "gone"
      BY <1>5, <1>6, <2>1 DEF Lifecycle!After, Outcomes
    <3>2. status'[e] # "gone"
      BY <1>1 DEF TypeOK, Statuses, Outcomes
    <3> QED
      BY <1>5, <3>1, <3>2
  <2>2. CASE status[e] # "none"
    <3>1. Phase'[e] \in {s, "gone"}
      BY <1>5, <1>6, <1>7, <2>2 DEF Lifecycle!After, Outcomes
    <3>2. status'[e] # "gone" /\ s # "gone"
      BY <1>1 DEF TypeOK, Statuses, Outcomes
    <3> QED
      BY <1>5, <3>1, <3>2
  <2> QED
    BY <2>1, <2>2
<1>8. e < nextId' /\ (status'[e] \in {s, "none"} \/ e \in lost')
  BY <1>3, <1>4, <1>7
<1> QED
  BY <1>8 DEF TrueReports

(* The executions a stop cancelled are recorded as errors before it tells so.  *)
LEMMA CancelReports ==
  ASSUME Base, ReportInv, [DaemonNext]_vars, up, NEW p \in Callers, Cancel(p)
  PROVE  ReportInv'
<1> USE DEF memoryVars
<1>1. /\ TrueReports \subseteq TrueReports'
      /\ call \in [Callers -> Locals] /\ inst' = inst /\ mailbox' = mailbox
      /\ inst \in [Insts -> ManagedWorkflow]
  BY ReportsStay DEF Cancel, Base, Control, CallsOK, DaemonTypeOK
<1>2. /\ \A e \in Ids : mailbox'[e] # None => <<e, mailbox'[e]>> \in TrueReports'
      /\ \A i \in Insts : inst'[i].pc = "report" => <<inst'[i].e, inst'[i].out>> \in TrueReports'
  BY <1>1 DEF ReportInv
<1>3. \A q \in Callers : \A e \in call[q].cancelled : <<e, "error">> \in TrueReports'
  BY <1>1 DEF ReportInv
<1>4. CASE Return(p)
  <2>1. \A q \in Callers : call'[q].cancelled \subseteq call[q].cancelled
    BY <1>1, <1>4 DEF Return, Idle
  <2> QED
    BY <1>2, <1>3, <2>1 DEF ReportInv
<1>5. ASSUME CancelQueuedExecutions(call[p].w),
             call' = [call EXCEPT ![p].pc = "halt", ![p].cancelled = Cancelled(call[p].w)]
      PROVE  ReportInv'
  <2>1. \A q \in Callers : call'[q].cancelled =
          IF q = p THEN Cancelled(call[p].w) ELSE call[q].cancelled
    BY <1>1, <1>5 DEF Locals
  <2>2. Cancelled(call[p].w) \subseteq queue /\ queue \subseteq Ids
    BY DEF Cancelled, QueueOf, Base, Control, DaemonTypeOK, TypeOK
  <2>3. ASSUME NEW e \in Cancelled(call[p].w)
        PROVE  <<e, "error">> \in TrueReports'
    <3>1. e \in Ids /\ status'[e] = "error" /\ nextId' = nextId
      BY <1>5, <2>2 DEF CancelQueuedExecutions, Finish
    <3>2. e < nextId
      BY <2>2, <3>1 DEF Base, StoreInv, Fresh, Control, DaemonTypeOK, TypeOK, Ids
    <3> QED
      BY <3>1, <3>2 DEF TrueReports, Outcomes
  <2> QED
    BY <1>2, <1>3, <2>1, <2>3 DEF ReportInv
<1> QED
  BY <1>4, <1>5 DEF Cancel

(* ReportInv is inductive.                                                   *)
LEMMA ReportInvStep ==
  ASSUME Base, ReportInv, [DaemonNext]_vars
  PROVE  ReportInv'
<1> USE DEF memoryVars
<1>1. /\ call \in [Callers -> Locals] /\ inst \in [Insts -> ManagedWorkflow]
      /\ mailbox \in [Ids -> Outcomes \cup {None}]
  BY DEF Base, Control, CallsOK, DaemonTypeOK
<1>2. CASE ~up
  <2>1. ASSUME UNCHANGED <<inst, mailbox>>, ReportsKept
        PROVE  ReportInv'
    BY <1>2, <2>1 DEF Base, Control, DownOK, FreshProcess, NoInst, Idle, ReportsKept, ReportInv
  <2>2. UNCHANGED <<inst, mailbox>>
    BY <1>2, DownStep DEF Base, Control, Boot, Background, vars
  <2>3. ReportsKept
    <3>1. Main \in Callers /\ Idle.cancelled = {}
      BY DaemonConstants DEF DaemonConstants, Idle
    <3>2. UNCHANGED call \/ call' = [call EXCEPT ![Main].pc = "retain", ![Main].op = "restore"]
      BY <1>2, DownStep DEF Base, Control, Boot, Background, vars
    <3>3. \A q \in Callers : call'[q].cancelled = call[q].cancelled
      BY <1>1, <3>1, <3>2 DEF Locals
    <3> QED
      BY <2>2, <3>3 DEF ReportsKept
  <2> QED
    BY <2>1, <2>2, <2>3
<1>3. CASE up
  <2>1. TrueReports \subseteq TrueReports'
    BY <1>3, ReportsStay
  <2>2. CASE ProcessEnds
    BY <2>2 DEF ProcessEnds, NoInst, Idle, ReportInv
  <2>3. ASSUME NEW p \in Callers, Cancel(p)
        PROVE  ReportInv'
    BY <1>3, <2>3, CancelReports
  <2>4. ASSUME WorkersKept
        PROVE  \A i \in Insts : inst'[i].pc = "report" => <<inst'[i].e, inst'[i].out>> \in TrueReports'
    BY <2>1, <2>4 DEF WorkersKept, ReportInv
  <2>5. ASSUME ReportsKept
        PROVE  /\ \A e \in Ids : mailbox'[e] # None => <<e, mailbox'[e]>> \in TrueReports'
               /\ \A p \in Callers : \A e \in call'[p].cancelled : <<e, "error">> \in TrueReports'
    BY <2>1, <2>5 DEF ReportsKept, ReportInv
  <2>6. ASSUME NEW p \in Callers, Halt(p), ~ProcessEnds
        PROVE  ReportInv'
    <3> DEFINE es == {e \in call[p].cancelled : status[e] # "none"}
    <3>1. WorkersKept
      BY <2>6, StoppingWorkers DEF Base, Stopping
    <3>2. \A e \in Ids : mailbox'[e] = IF e \in es \cap waiters THEN "error" ELSE mailbox[e]
      BY <2>6 DEF Halt, Publish
    <3>3. \A e \in es : <<e, "error">> \in TrueReports
      BY DEF ReportInv
    <3>4. \A e \in Ids : mailbox'[e] # None => <<e, mailbox'[e]>> \in TrueReports'
      BY <2>1, <3>2, <3>3 DEF ReportInv
    <3>5. Return(p) \/ call' = [call EXCEPT ![p].pc = "triggersOff", ![p].cancelled = {}]
      BY <2>6 DEF Halt
    <3>6. \A q \in Callers : call'[q].cancelled \subseteq call[q].cancelled
      BY <1>1, <3>5 DEF Return, Idle, Locals
    <3> QED
      BY <2>1, <2>4, <3>1, <3>4, <3>6 DEF ReportInv
  <2>7. ASSUME NEW i \in Insts, Report(i)
        PROVE  ReportInv'
    <3>1. <<inst[i].e, inst[i].out>> \in TrueReports
      BY <2>7 DEF Report, WorkerAt, ReportInv
    <3>2. \A e \in Ids :
            mailbox'[e] = IF e \in {inst[i].e} \cap waiters THEN inst[i].out ELSE mailbox[e]
      BY <2>7 DEF Report, Publish
    <3>3. \A e \in Ids : mailbox'[e] # None => <<e, mailbox'[e]>> \in TrueReports'
      BY <2>1, <3>1, <3>2 DEF ReportInv
    <3>4. \A j \in Insts : inst'[j].pc = "report" => inst'[j] = inst[j]
      BY <1>1, <2>7 DEF Report, ManagedWorkflow
    <3>5. call' = call
      BY <2>7 DEF Report
    <3> QED
      BY <2>1, <3>3, <3>4, <3>5 DEF ReportInv
  <2>8. ASSUME NEW i \in Insts, Worker(i), ReportsKept
        PROVE  ReportInv'
    <3>1. /\ \A j \in Insts \ {i} : inst'[j] = inst[j]
          /\ inst'[i].pc = "report" => Run(i) \/ inst'[i] = inst[i]
      <4>0. inst[i] \in ManagedWorkflow
        BY <1>1
      <4>1. CASE Wake(i) \/ Check(i) \/ Mark(i) \/ Report(i)
        BY <1>1, <4>0, <4>1 DEF Wake, Check, Mark, Report, WorkerTo, LoopPc, ManagedWorkflow
      <4>2. CASE Claim(i)
        <5>1. ASSUME NEW e, inst' = [inst EXCEPT ![i].pc = "mark", ![i].e = e,
                          ![i].late = IF inst[i].accepting THEN @ ELSE @ + 1]
              PROVE  inst'[i].pc = "mark" /\ \A j \in Insts \ {i} : inst'[j] = inst[j]
          BY <1>1, <4>0, <5>1 DEF ManagedWorkflow
        <5>2. WorkerTo(i, "wait") =>
                inst'[i].pc = "wait" /\ \A j \in Insts \ {i} : inst'[j] = inst[j]
          BY <1>1, <4>0 DEF WorkerTo, ManagedWorkflow
        <5> QED
          BY <4>2, <5>1, <5>2 DEF Claim
      <4>3. CASE Run(i)
        BY <1>1, <4>3 DEF Run
      <4> QED
        BY <2>8, <4>1, <4>2, <4>3 DEF Worker
    <3>2. Run(i) => <<inst'[i].e, inst'[i].out>> \in TrueReports'
      <4>1. ASSUME NEW s \in RunOutcomes,
                   inst' = [inst EXCEPT ![i].pc = "report", ![i].out = s],
                   CompleteExecution(inst[i].e, s) \/ FailCompletion(inst[i].e)
            PROVE  <<inst'[i].e, inst'[i].out>> \in TrueReports'
        <5>1. inst'[i].e = inst[i].e /\ inst'[i].out = s
          BY <1>1, <4>1 DEF ManagedWorkflow
        <5>2. inst[i].e \in held /\ nextId' = nextId
          BY <4>1 DEF CompleteExecution, FailCompletion
        <5>3. inst[i].e \in Ids /\ inst[i].e < nextId
          <6>1. inst[i].e \in Ids /\ nextId \in Nat
            BY <5>2 DEF Base, Control, DaemonTypeOK, TypeOK
          <6>2. ~(inst[i].e >= nextId)
            BY <5>2, <6>1 DEF Base, StoreInv, Fresh
          <6> QED
            BY <6>1, <6>2 DEF Ids
        <5>4. s \in Outcomes
          BY DaemonConstants DEF DaemonConstants
        <5>5. CompleteExecution(inst[i].e, s) => status'[inst[i].e] \in {s, "none"}
          BY <5>3 DEF CompleteExecution, Finish
        <5>6. FailCompletion(inst[i].e) => inst[i].e \in lost'
          BY DEF FailCompletion
        <5> QED
          BY <4>1, <5>1, <5>2, <5>3, <5>4, <5>5, <5>6 DEF TrueReports
      <4> QED
        BY <4>1 DEF Run
    <3>3. \A j \in Insts : inst'[j].pc = "report" => <<inst'[j].e, inst'[j].out>> \in TrueReports'
      BY <2>1, <3>1, <3>2 DEF ReportInv
    <3> QED
      BY <2>5, <2>8, <3>3 DEF ReportInv
  <2>9. ASSUME WorkersKept, ReportsKept
        PROVE  ReportInv'
    BY <2>4, <2>5, <2>9 DEF ReportInv
  <2> QED
    BY <2>2, <2>3, <2>6, <2>7, <2>8, <2>9, WorkersStep, ReportsStep, Zenon DEF Base
<1> QED
  BY <1>2, <1>3

(* What a client of exec is told is the outcome on record, unless writing it   *)
(* failed.                                                                     *)
THEOREM ReportsAreTrueHolds == DaemonSpec => []ReportsAreTrue
<1>1. DaemonInit => ReportInv
  BY DEF DaemonInit, NoInst, Idle, ReportInv
<1>2. Base /\ ReportInv /\ [DaemonNext]_vars => ReportInv'
  BY ReportInvStep
<1>3. ReportInv => ReportsAreTrue
  BY DEF ReportInv, ReportsAreTrue, TrueReports
<1> QED
  BY <1>1, <1>2, <1>3, BaseInvariant, PTL DEF DaemonSpec
-----------------------------------------------------------------------------
(* Only CreateQueuedExecution makes a queue longer.                            *)
QueueKept == \A w \in Workflows : QueueOf(w)' \subseteq QueueOf(w)

(* Who leaves the queue alone puts nothing in it.                            *)
LEMMA SameQueue ==
  ASSUME UNCHANGED <<queue, owner>>
  PROVE  QueueKept
  BY DEF QueueKept, QueueOf

(* Nor does who takes from it.                                               *)
LEMMA ShorterQueue ==
  ASSUME queue' \subseteq queue, owner' = owner
  PROVE  QueueKept
  BY DEF QueueKept, QueueOf

(* Nor does who drops executions.                                            *)
LEMMA DroppedQueue ==
  ASSUME TypeOK, NEW es, DropRows(es)
  PROVE  QueueKept
<1>1. queue \subseteq Ids /\ None \notin Workflows
  BY StoreConstants DEF TypeOK, StoreConstants
<1> QED
  BY <1>1 DEF DropRows, QueueKept, QueueOf

(* Only the commit of a creation puts something in a queue.                  *)
LEMMA QueueStep ==
  ASSUME Control, [DaemonNext]_vars
  PROVE  QueueKept \/ \E p \in Callers : Create(p) /\ CommitCreate(p, call[p].w)
<1>1. TypeOK
  BY DEF Control, DaemonTypeOK
<1>2. UNCHANGED storeVars => QueueKept
  BY SameQueue DEF storeVars
<1>3. ASSUME NEW c, NEW w, NEW s, \/ BeginCreate(c) \/ AbortCreate(c)
                                  \/ UpsertWorkflow(w, s) \/ SetWorkflowStatus(w, s)
      PROVE  QueueKept
  BY <1>3, SameQueue DEF BeginCreate, AbortCreate, UpsertWorkflow, SetWorkflowStatus
<1>4. ASSUME NEW w, NEW e, NEW s, \/ CancelQueuedExecutions(w) \/ ClaimNextQueueItem(w, e)
                                  \/ CompleteExecution(e, s) \/ FailCompletion(e)
      PROVE  QueueKept
  BY <1>4, ShorterQueue DEF CancelQueuedExecutions, ClaimNextQueueItem, CompleteExecution,
                            FailCompletion
<1>5. ASSUME NEW w, NEW k, DeleteWorkflow(w, k) \/ ApplyRetention
      PROVE  QueueKept
  BY <1>1, <1>5, DroppedQueue DEF DeleteWorkflow, ApplyRetention
<1>6. ProcessEnds \/ MarkStaleRunningExecutions \/ Tick \/ OpenConnection => QueueKept
  BY SameQueue DEF ProcessEnds, Crash, MarkStaleRunningExecutions, Tick, OpenConnection
<1>7. ASSUME NEW p \in Callers, Enqueuing(p)
      PROVE  QueueKept \/ (Create(p) /\ CommitCreate(p, call[p].w))
  BY <1>2, <1>3, <1>7, EnqueuingStore
<1>8. ASSUME NEW p \in Callers, Stopping(p) \/ Starting(p)
      PROVE  QueueKept
  BY <1>2, <1>3, <1>4, <1>5, <1>6, <1>8, StoppingStore, StartingStore
<1>9. ASSUME NEW i \in Insts, Worker(i)
      PROVE  QueueKept
  BY <1>2, <1>4, <1>9, WorkerStore
<1>10. Restoring => QueueKept
  BY <1>2, <1>3, <1>5, RestoringStore
<1>11. Boot \/ BootFails \/ Exit \/ Kill \/ Background \/ UNCHANGED vars => QueueKept
  BY <1>2, <1>5, <1>6 DEF Boot, BootFails, Exit, Kill, Background, vars
<1>12. ASSUME NEW p, NEW w, NEW i, NEW op,
              \/ Fire(p, i, op) \/ Exec(p, w) \/ RequestStart(p, w) \/ Request(p, op, w)
              \/ Shutdown(p)
       PROVE  QueueKept
  BY <1>2, <1>12 DEF Fire, Exec, RequestStart, Request, Shutdown
<1> QED
  BY <1>7, <1>8, <1>9, <1>10, <1>11, <1>12, DaemonCases, Zenon
-----------------------------------------------------------------------------
(* A step of a goroutine leaves the others where they are; it enters the       *)
(* transaction of CreateQueuedExecution from the check of the queue, and       *)
(* leaves the places from which a worker is woken by doing so or by failing.   *)
Wakers == {"notify", "wake", "statusOn"}
GoesOn(p) ==
  /\ \A q \in Callers \ {p} : call'[q] = call[q]
  /\ call'[p].pc = "create" => Count(p) \/ call'[p] = call[p]
  /\ call[p].pc \in Wakers =>
       NotifyWorker(p) \/ WakeUp(p) \/ StatusOn(p) \/ call'[p] = call[p]

(* A goroutine that comes to a creation only from the count, and leaves a    *)
(* point before a notify only by it, goes on.                                *)
LEMMA CallGoesOn ==
  ASSUME Control, NEW p \in Callers, NEW c, call' = [call EXCEPT ![p] = c],
         c.pc # "create" \/ Count(p),
         call[p].pc \notin Wakers \/ NotifyWorker(p) \/ WakeUp(p) \/ StatusOn(p)
  PROVE  GoesOn(p)
  BY DEF Control, CallsOK, GoesOn

(* So for a return.                                                          *)
LEMMA IdleGoesOn ==
  ASSUME Control, NEW p \in Callers, Return(p),
         call[p].pc \notin Wakers \/ NotifyWorker(p) \/ WakeUp(p) \/ StatusOn(p)
  PROVE  GoesOn(p)
  BY CallGoesOn DEF Return, Idle

(* So for a step that only moves on.                                         *)
LEMMA StepGoesOn ==
  ASSUME Control, NEW p \in Callers, NEW pc, StepTo(p, pc), pc # "create" \/ Count(p),
         call[p].pc \notin Wakers \/ NotifyWorker(p) \/ WakeUp(p) \/ StatusOn(p)
  PROVE  GoesOn(p)
<1> DEFINE c == [call[p] EXCEPT !.pc = pc]
<1>1. c.pc = pc
  BY DEF Control, CallsOK, Locals
<1>2. call' = [call EXCEPT ![p] = c]
  BY DEF StepTo
<1> HIDE DEF c
<1> QED
  BY <1>1, <1>2, CallGoesOn

(* So for the steps of enqueueExecution and ExecWorkflow.                    *)
LEMMA EnqueuingGoesOn ==
  ASSUME Control, NEW p \in Callers, Enqueuing(p)
  PROVE  GoesOn(p)
<1> USE DEF At, Wakers
<1>1. call[p] \in Locals
  BY DEF Control, CallsOK
<1>2. AfterEnqueue(p) => Return(p) \/ StepTo(p, "rearm")
  BY DEF AfterEnqueue
<1>3. CASE Accept(p)
  <2> DEFINE c == [call[p] EXCEPT !.pc = "count", !.i = current[call[p].w]]
  <2>1. c.pc # "create"
    BY <1>1 DEF Locals
  <2>2. call[p].pc = "accept" /\ (AfterEnqueue(p) \/ call' = [call EXCEPT ![p] = c])
    BY <1>3 DEF Accept
  <2> HIDE DEF c
  <2> QED
    BY <1>2, <2>1, <2>2, IdleGoesOn, StepGoesOn, CallGoesOn
<1>4. CASE Create(p)
  <2> DEFINE c == [call[p] EXCEPT !.pc = "notify", !.e = nextId]
  <2>1. c.pc # "create"
    BY <1>1 DEF Locals
  <2>2. call[p].pc = "create" /\ (AfterEnqueue(p) \/ call' = [call EXCEPT ![p] = c])
    BY <1>4 DEF Create
  <2> HIDE DEF c
  <2> QED
    BY <1>2, <2>1, <2>2, IdleGoesOn, StepGoesOn, CallGoesOn
<1>5. CASE Count(p)
  <2>1. call[p].pc = "count" /\ (StepTo(p, "create") \/ AfterEnqueue(p))
    BY <1>5 DEF Count
  <2> QED
    BY <1>2, <1>5, <2>1, IdleGoesOn, StepGoesOn
<1>6. CASE NotifyWorker(p)
  <2>1. StepTo(p, "register") \/ AfterEnqueue(p)
    BY <1>6 DEF NotifyWorker
  <2> QED
    BY <1>2, <1>6, <2>1, IdleGoesOn, StepGoesOn
<1>7. CASE Register(p) \/ Rearm(p) \/ Await(p)
  BY <1>7, IdleGoesOn, StepGoesOn DEF Register, Rearm, Await
<1> QED
  BY <1>3, <1>4, <1>5, <1>6, <1>7 DEF Enqueuing

(* So for those of stop, restart, delete and shutdown.                       *)
LEMMA StoppingGoesOn ==
  ASSUME Control, NEW p \in Callers, Stopping(p)
  PROVE  GoesOn(p) \/ ProcessEnds
<1> USE DEF At
<1>1. call[p] \in Locals /\ PlaceOK(p, call[p])
  BY DEF Control, CallsOK
<1>2. call[p].pc \notin Wakers
  BY DEF Wakers, Stopping, Close, Drain, Reopen, Cancel, Halt, TriggersOff, StatusOff, Unmap,
         DeleteRow, DrainAll, ReopenAll, Finalize, Disconnect
<1>3. ASSUME NEW c, c.pc # "create", call' = [call EXCEPT ![p] = c]
      PROVE  GoesOn(p)
  BY <1>2, <1>3, CallGoesOn
<1>4. ASSUME NEW pc, pc # "create", StepTo(p, pc)
      PROVE  GoesOn(p)
  BY <1>2, <1>4, StepGoesOn
<1>5. Return(p) => GoesOn(p)
  BY <1>2, IdleGoesOn
<1>6. CASE Close(p)
  <2> DEFINE c == [call[p] EXCEPT !.pc = "drain", !.i = current[call[p].w]]
  <2>1. c.pc # "create"
    BY <1>1 DEF Locals
  <2>2. Return(p) \/ StepTo(p, "markStopped") \/ call' = [call EXCEPT ![p] = c]
    BY <1>6 DEF Close
  <2> HIDE DEF c
  <2> QED
    BY <1>3, <1>4, <1>5, <2>1, <2>2
<1>7. CASE Cancel(p)
  <2> DEFINE c == [call[p] EXCEPT !.pc = "halt", !.cancelled = Cancelled(call[p].w)]
  <2>1. c.pc # "create"
    BY <1>1 DEF Locals
  <2>2. Return(p) \/ call' = [call EXCEPT ![p] = c]
    BY <1>7 DEF Cancel
  <2> HIDE DEF c
  <2> QED
    BY <1>3, <1>5, <2>1, <2>2
<1>8. CASE Halt(p)
  <2> DEFINE c == [call[p] EXCEPT !.pc = "triggersOff", !.cancelled = {}]
  <2>1. c.pc # "create"
    BY <1>1 DEF Locals
  <2>2. ProcessEnds \/ Return(p) \/ call' = [call EXCEPT ![p] = c]
    BY <1>8 DEF Halt
  <2> HIDE DEF c
  <2> QED
    BY <1>3, <1>5, <2>1, <2>2
<1>9. NextToFinalize(p) => GoesOn(p)
  <2>1. ASSUME NEW i, NEW w, NEW r,
               call' = [call EXCEPT ![p].pc = "cancel", ![p].i = i, ![p].w = w, ![p].rest = r]
        PROVE  GoesOn(p)
    <3> DEFINE c == [call[p] EXCEPT !.pc = "cancel", !.i = i, !.w = w, !.rest = r]
    <3>1. c.pc # "create"
      BY <1>1 DEF Locals
    <3>2. call' = [call EXCEPT ![p] = c]
      BY <2>1
    <3> HIDE DEF c
    <3> QED
      BY <1>3, <3>1, <3>2
  <2> QED
    BY <1>4, <2>1 DEF NextToFinalize
<1>10. CASE Unmap(p)
  <2>1. call[p].op \in {"stop", "delete", "restart", "start", "shutdown"}
    BY <1>1, <1>10 DEF Unmap, PlaceOK, Finalizing, Handling
  <2> QED
    BY <1>4, <1>5, <1>9, <1>10, <2>1 DEF Unmap
<1>11. CASE DrainAll(p)
  <2>1. ASSUME NEW r, \/ call' = [call EXCEPT ![p].rest = r]
                      \/ call' = [call EXCEPT ![p].pc = "finalize", ![p].rest = r]
        PROVE  GoesOn(p)
    <3> DEFINE c == [call[p] EXCEPT !.rest = r]
               d == [call[p] EXCEPT !.pc = "finalize", !.rest = r]
    <3>1. c.pc # "create" /\ d.pc # "create"
      BY <1>1, <1>11 DEF Locals, DrainAll
    <3>2. call' = [call EXCEPT ![p] = c] \/ call' = [call EXCEPT ![p] = d]
      BY <2>1
    <3> HIDE DEF c, d
    <3> QED
      BY <1>3, <3>1, <3>2
  <2> QED
    BY <1>4, <1>11, <2>1 DEF DrainAll
<1>12. CASE Drain(p) \/ Reopen(p) \/ TriggersOff(p) \/ StatusOff(p) \/ DeleteRow(p)
           \/ ReopenAll(p) \/ Finalize(p) \/ Disconnect(p)
  BY <1>4, <1>5, <1>9, <1>12 DEF Drain, Reopen, TriggersOff, StatusOff, DeleteRow,
                                 ReopenAll, Finalize, Disconnect
<1> QED
  BY <1>6, <1>7, <1>8, <1>10, <1>11, <1>12 DEF Stopping

(* So for those of start and of activateWorkflow.                            *)
LEMMA StartingGoesOn ==
  ASSUME Control, NEW p \in Callers, Starting(p)
  PROVE  GoesOn(p)
<1> USE DEF At
<1>1. call[p] \in Locals
  BY DEF Control, CallsOK
<1>2. call[p].pc \notin Wakers \/ WakeUp(p) \/ StatusOn(p)
  BY DEF Wakers, Starting, Load, MarkStopped, Upsert, Replace, Arm, TriggersOn, Spawn
<1>3. ASSUME NEW c, c.pc # "create", call' = [call EXCEPT ![p] = c]
      PROVE  GoesOn(p)
  BY <1>2, <1>3, CallGoesOn
<1>4. ASSUME NEW pc, pc # "create", StepTo(p, pc)
      PROVE  GoesOn(p)
  BY <1>2, <1>4, StepGoesOn
<1>5. Return(p) => GoesOn(p)
  BY <1>2, IdleGoesOn
<1>6. ActivationFails(p) => GoesOn(p)
  BY <1>4, <1>5 DEF ActivationFails
<1>7. ASSUME NEW w, Loaded(p, w)
      PROVE  GoesOn(p)
  <2> DEFINE c == [Idle EXCEPT !.op = "start", !.w = w, !.found = Exists(w),
                     !.pc = IF workflows[w] = "active" THEN "close" ELSE "upsert"]
  <2>1. c.pc # "create"
    BY DEF Idle
  <2>2. call' = [call EXCEPT ![p] = c]
    BY <1>7 DEF Loaded
  <2> HIDE DEF c
  <2> QED
    BY <1>3, <2>1, <2>2
<1>8. CASE Replace(p)
  <2> DEFINE c == [call[p] EXCEPT !.pc = "arm", !.i = nextInst, !.trig = nextInst]
  <2>1. c.pc # "create"
    BY <1>1 DEF Locals
  <2>2. ActivationFails(p) \/ call' = [call EXCEPT ![p] = c]
    BY <1>8 DEF Replace
  <2> HIDE DEF c
  <2> QED
    BY <1>3, <1>6, <2>1, <2>2
<1>9. CASE Load(p) \/ MarkStopped(p) \/ Upsert(p) \/ Arm(p) \/ TriggersOn(p) \/ Spawn(p)
           \/ StatusOn(p) \/ WakeUp(p)
  BY <1>4, <1>5, <1>6, <1>7, <1>9 DEF Load, MarkStopped, Upsert, Arm, TriggersOn, Spawn,
                                      StatusOn, WakeUp
<1> QED
  BY <1>8, <1>9 DEF Starting

(* So for those of the restore.                                              *)
LEMMA RestoringGoesOn ==
  ASSUME Control, Restoring
  PROVE  GoesOn(Main)
<1> USE DEF At
<1>1. Main \in Callers /\ call[Main] \in Locals
  BY DaemonConstants DEF DaemonConstants, Control, CallsOK
<1>2. call[Main].pc \notin Wakers
  BY DEF Wakers, Restoring, Retain, ListActive, RestoreNext, GiveUp, GiveUpTriggers
<1>3. ASSUME NEW c, c.pc # "create", call' = [call EXCEPT ![Main] = c]
      PROVE  GoesOn(Main)
  BY <1>1, <1>2, <1>3, CallGoesOn
<1>4. CASE Retain \/ GiveUp \/ GiveUpTriggers
  BY <1>1, <1>2, <1>4, StepGoesOn DEF Retain, GiveUp, GiveUpTriggers
<1>5. CASE ListActive
  <2> DEFINE c == [call[Main] EXCEPT !.pc = "restore",
                                     !.rest = {w \in Workflows : workflows[w] = "active"}]
  <2>1. c.pc # "create"
    BY <1>1 DEF Locals
  <2>2. call' = [call EXCEPT ![Main] = c]
    BY <1>5 DEF ListActive
  <2> HIDE DEF c
  <2> QED
    BY <1>3, <2>1, <2>2
<1>6. CASE RestoreNext
  <2>1. ASSUME NEW w, call' = [call EXCEPT ![Main].pc = "arm", ![Main].w = w,
                           ![Main].i = nextInst, ![Main].trig = triggers[w].id,
                           ![Main].rest = call[Main].rest \ {w}]
        PROVE  GoesOn(Main)
    <3> DEFINE c == [call[Main] EXCEPT !.pc = "arm", !.w = w, !.i = nextInst,
                       !.trig = triggers[w].id, !.rest = call[Main].rest \ {w}]
    <3>1. c.pc # "create"
      BY <1>1 DEF Locals
    <3>2. call' = [call EXCEPT ![Main] = c]
      BY <2>1
    <3> HIDE DEF c
    <3> QED
      BY <1>3, <3>1, <3>2
  <2> QED
    BY <1>1, <1>2, <1>6, <2>1, IdleGoesOn DEF RestoreNext
<1> QED
  BY <1>4, <1>5, <1>6 DEF Restoring

(* Every step is one of one goroutine, which goes on, or ends the process.   *)
LEMMA CallsStep ==
  ASSUME Control, [DaemonNext]_vars
  PROVE  ProcessEnds \/ \E p \in Callers : GoesOn(p)
<1>1. /\ Main \in Callers /\ Operators \cup {Main} \subseteq Callers
      /\ Firers \subseteq Callers /\ Users \subseteq Callers
  BY DaemonConstants DEF DaemonConstants
<1>2. ASSUME NEW p \in Callers, NEW c, c.pc # "create", call[p].pc = "idle",
             call' = [call EXCEPT ![p] = c]
      PROVE  GoesOn(p)
  BY <1>2, CallGoesOn DEF Wakers
<1>3. ASSUME NEW p \in Firers, NEW i, NEW op, Fire(p, i, op)
      PROVE  GoesOn(p)
  <2> DEFINE c == [Idle EXCEPT !.pc = "accept", !.op = op, !.w = inst[i].w,
                               !.trig = inst[i].trig]
  <2>1. c.pc # "create"
    BY DEF Idle
  <2>2. call[p].pc = "idle" /\ call' = [call EXCEPT ![p] = c]
    BY <1>3 DEF Fire, At
  <2> HIDE DEF c
  <2> QED
    BY <1>1, <1>2, <2>1, <2>2
<1>4. ASSUME NEW p \in Users, NEW w, Exec(p, w)
      PROVE  GoesOn(p)
  <2> DEFINE c == [Idle EXCEPT !.pc = "count", !.op = "exec", !.w = w, !.i = current[w]]
  <2>1. c.pc # "create"
    BY DEF Idle
  <2>2. call[p].pc = "idle" /\ call' = [call EXCEPT ![p] = c]
    BY <1>4 DEF Exec, At
  <2> HIDE DEF c
  <2> QED
    BY <1>1, <1>2, <2>1, <2>2
<1>5. ASSUME NEW p \in Operators, NEW w, RequestStart(p, w)
      PROVE  GoesOn(p)
  <2> DEFINE c == [Idle EXCEPT !.op = "start", !.w = w, !.found = Exists(w),
                     !.pc = IF workflows[w] = "active" THEN "close" ELSE "upsert"]
  <2>1. c.pc # "create"
    BY DEF Idle
  <2>2. call[p].pc = "idle" /\ call' = [call EXCEPT ![p] = c]
    BY <1>5 DEF RequestStart, Loaded, At
  <2> HIDE DEF c
  <2> QED
    BY <1>1, <1>2, <2>1, <2>2
<1>6. ASSUME NEW p \in Operators, NEW w, NEW op, Request(p, op, w)
      PROVE  GoesOn(p)
  <2> DEFINE c == [Idle EXCEPT !.op = op, !.w = w,
                     !.pc = IF workflows[w] = "active" THEN "close"
                            ELSE IF op = "delete" THEN "deleteRow" ELSE "load"]
  <2>1. c.pc # "create"
    BY DEF Idle
  <2>2. call[p].pc = "idle" /\ call' = [call EXCEPT ![p] = c]
    BY <1>6 DEF Request, At
  <2> HIDE DEF c
  <2> QED
    BY <1>1, <1>2, <2>1, <2>2
<1>7. ASSUME NEW p \in Operators \cup {Main}, Shutdown(p)
      PROVE  GoesOn(p)
  <2> DEFINE m == {current[w] : w \in Workflows} \ {0}
             c == [Idle EXCEPT !.pc = "drainAll", !.op = "shutdown", !.insts = m, !.rest = m]
  <2>1. c.pc # "create"
    BY DEF Idle
  <2>2. call[p].pc = "idle" /\ call' = [call EXCEPT ![p] = c]
    BY <1>7 DEF Shutdown, At
  <2> HIDE DEF c
  <2> QED
    BY <1>1, <1>2, <2>1, <2>2
<1>8. CASE Boot
  <2> DEFINE c == [call[Main] EXCEPT !.pc = "retain", !.op = "restore"]
  <2>1. c.pc # "create"
    BY <1>1 DEF Control, CallsOK, Locals
  <2>2. call[Main].pc = "down" /\ call' = [call EXCEPT ![Main] = c]
    BY <1>8 DEF Boot, At
  <2> HIDE DEF c
  <2> QED
    BY <1>1, <2>1, <2>2, CallGoesOn DEF Wakers
<1>9. CASE UNCHANGED call
  BY <1>1, <1>9 DEF GoesOn
<1>10. Background \/ UNCHANGED vars \/ (\E i \in Insts : Worker(i)) => UNCHANGED call
  BY DEF Background, vars, Worker, Wake, Check, Claim, Mark, Run, Report
<1>11. BootFails \/ Exit \/ Kill => ProcessEnds
  BY DEF BootFails, Exit, Kill
<1> QED
  BY <1>1, <1>3, <1>4, <1>5, <1>6, <1>7, <1>8, <1>9, <1>10, <1>11, EnqueuingGoesOn,
     StoppingGoesOn, StartingGoesOn, RestoringGoesOn, DaemonCases, Zenon
-----------------------------------------------------------------------------
(* The length of a queue and the callers past the check of its length: the     *)
(* last one that passed it found room.                                         *)
Enqueuers == Users \cup Firers
Creating(w) == {p \in Callers : call[p].pc = "create" /\ call[p].w = w}
RoomOK == \A w \in Workflows :
            QueueCount(w) + Cardinality(Creating(w)) < QueueLimit + Cardinality(Enqueuers)

QueueFinite ==
  /\ \A w \in Workflows :
       /\ IsFiniteSet(QueueOf(w)) /\ QueueCount(w) \in Nat
       /\ IsFiniteSet(Creating(w)) /\ Cardinality(Creating(w)) \in Nat
       /\ Creating(w) \subseteq Enqueuers
  /\ IsFiniteSet(Enqueuers) /\ Cardinality(Enqueuers) \in Nat

(* A queue and the creations that are under way are finite.                  *)
LEMMA FiniteQueue == Control => QueueFinite
<1> SUFFICES ASSUME Control PROVE QueueFinite
  OBVIOUS
<1>1. IsFiniteSet(Ids) /\ IsFiniteSet(Callers)
  BY FS_Interval, StoreConstants, DaemonConstants DEF Ids, StoreConstants, DaemonConstants
<1>2. \A w : QueueOf(w) \subseteq Ids /\ Creating(w) \subseteq Callers
  BY DEF QueueOf, Creating, Control, DaemonTypeOK, TypeOK
<1>3. Enqueuers \subseteq Callers
  BY DaemonConstants DEF Enqueuers, DaemonConstants
<1>4. \A w : IsFiniteSet(QueueOf(w)) /\ IsFiniteSet(Creating(w))
  BY <1>1, <1>2, FS_Subset
<1>5. IsFiniteSet(Enqueuers)
  BY <1>1, <1>3, FS_Subset
<1>6. \A w : Creating(w) \subseteq Enqueuers
  BY DEF Creating, Enqueuers, Control, CallsOK, PlaceOK
<1> QED
  BY <1>4, <1>5, <1>6, FS_CardinalityType DEF QueueCount, QueueFinite

(* RoomOK is inductive: a creation was counted below the limit, and those    *)
(* that race past the count are at most as many as can call.                 *)
LEMMA RoomStep ==
  ASSUME Base, RoomOK, [DaemonNext]_vars
  PROVE  RoomOK'
<1>1. Control /\ Control'
  BY BaseStep DEF Base
<1>2. QueueFinite
  BY <1>1, FiniteQueue
<1>3. QueueFinite'
  BY <1>1, FiniteQueue, PTL
<1>4. QueueLimit \in Nat
  BY DaemonConstants DEF DaemonConstants
<1> SUFFICES ASSUME NEW w \in Workflows
             PROVE  QueueCount(w)' + Cardinality(Creating(w)')
                      < QueueLimit + Cardinality(Enqueuers)
  BY DEF RoomOK
<1> DEFINE q == QueueCount(w)
           c == Cardinality(Creating(w))
           n == Cardinality(Enqueuers)
<1>5. q \in Nat /\ c \in Nat /\ n \in Nat /\ q' \in Nat /\ c' \in Nat /\ q + c < QueueLimit + n
  BY <1>2, <1>3 DEF QueueFinite, RoomOK
<1>6. QueueKept => q' <= q
  BY <1>2, FS_Subset DEF QueueFinite, QueueKept, QueueCount
<1>7. c' <= n
  BY <1>2, <1>3, FS_Subset DEF QueueFinite
<1>8. CASE ProcessEnds
  <2>1. Creating(w)' = {}
    BY <1>8 DEF ProcessEnds, Idle, Creating
  <2>2. c' = 0
    BY <2>1, FS_EmptySet
  <2>3. QueueKept
    BY <1>8, SameQueue DEF ProcessEnds, Crash
  <2> QED
    BY <1>4, <1>5, <1>6, <2>2, <2>3
<1>9. ASSUME NEW p \in Callers, Count(p), ~ProcessEnds
      PROVE  q' + c' < QueueLimit + n
  <2>1. q' = q
    BY <1>9 DEF Count, BeginCreate, storeVars, QueueCount, QueueOf
  <2>2. CASE call[p].w = w /\ QueueCount(w) < QueueLimit
    BY <1>4, <1>5, <1>7, <2>1, <2>2
  <2>3. CASE ~(call[p].w = w /\ QueueCount(w) < QueueLimit)
    <3>1. \A r \in Callers : call'[r].pc = "create" /\ call'[r].w = w =>
                               call[r].pc = "create" /\ call[r].w = w
      BY <1>1, <1>9, <2>3 DEF Count, Control, CallsOK, Locals, StepTo, AfterEnqueue, Return, Idle
    <3>2. Creating(w)' \subseteq Creating(w)
      BY <3>1 DEF Creating
    <3>3. c' <= c
      BY <1>2, <3>2, FS_Subset DEF QueueFinite
    <3> QED
      BY <1>4, <1>5, <2>1, <3>3
  <2> QED
    BY <2>2, <2>3
<1>10. ASSUME NEW p \in Callers, GoesOn(p), ~Count(p)
       PROVE  Creating(w)' \subseteq Creating(w)
  BY <1>10 DEF GoesOn, Creating
<1>11. CASE (\E p \in Callers : GoesOn(p) /\ ~Count(p)) /\ QueueKept
  BY <1>2, <1>4, <1>5, <1>6, <1>10, <1>11, FS_Subset DEF QueueFinite
<1>12. ASSUME NEW p \in Callers, Create(p), CommitCreate(p, call[p].w)
       PROVE  q' + c' < QueueLimit + n
  <2>1. GoesOn(p) /\ ~Count(p)
    BY <1>1, <1>12, EnqueuingGoesOn DEF Enqueuing, Create, Count, At
  <2>2. p \in Creating(call[p].w) /\ call'[p].pc # "create"
    <3>1. call[p] \in Locals /\ call \in [Callers -> Locals] /\ call[p].pc = "create"
      BY <1>1, <1>12 DEF Create, At, Control, CallsOK
    <3>2. \/ call' = [call EXCEPT ![p].pc = "notify", ![p].e = nextId]
          \/ call' = [call EXCEPT ![p].pc = "rearm"]
          \/ call' = [call EXCEPT ![p] = Idle]
      BY <1>12 DEF Create, AfterEnqueue, StepTo, Return
    <3>3. call'[p].pc # "create"
      BY <3>1, <3>2 DEF Locals, Idle
    <3> QED
      BY <3>1, <3>3 DEF Creating
  <2>3. CASE call[p].w = w
    <3>1. QueueOf(w)' \subseteq QueueOf(w) \cup {nextId}
      BY <1>1, <1>12 DEF CommitCreate, QueueOf, Control, DaemonTypeOK, TypeOK
    <3>2. q' <= q + 1
      <4> DEFINE T == QueueOf(w) \cup {nextId}
      <4>1. IsFiniteSet(QueueOf(w)) /\ q = Cardinality(QueueOf(w))
        BY <1>2 DEF QueueFinite, QueueCount
      <4>2. IsFiniteSet(T) /\ Cardinality(T) \in {q, q + 1}
        BY <4>1, FS_AddElement
      <4> HIDE DEF T
      <4>3. Cardinality(QueueOf(w)') <= Cardinality(T)
        BY <3>1, <4>2, FS_Subset DEF T
      <4> QED
        BY <1>5, <4>2, <4>3 DEF QueueCount
    <3>3. Creating(w)' \subseteq Creating(w) \ {p} /\ p \in Creating(w)
      BY <1>10, <2>1, <2>2, <2>3 DEF Creating
    <3>4. c' <= c - 1
      <4> DEFINE T == Creating(w) \ {p}
      <4>1. IsFiniteSet(T) /\ Cardinality(T) = c - 1
        BY <1>2, <3>3, FS_RemoveElement DEF QueueFinite
      <4> HIDE DEF T
      <4>2. Cardinality(Creating(w)') <= Cardinality(T)
        BY <3>3, <4>1, FS_Subset DEF T
      <4> QED
        BY <4>1, <4>2
    <3> QED
      BY <1>4, <1>5, <3>2, <3>4
  <2>4. CASE call[p].w # w
    <3>1. QueueOf(w)' \subseteq QueueOf(w)
      BY <1>1, <1>12, <2>4 DEF CommitCreate, QueueOf, Control, DaemonTypeOK, TypeOK
    <3>2. q' <= q
      BY <1>2, <3>1, FS_Subset DEF QueueFinite, QueueCount
    <3>3. c' <= c
      BY <1>2, <1>10, <2>1, FS_Subset DEF QueueFinite
    <3> QED
      BY <1>4, <1>5, <3>2, <3>3
  <2> QED
    BY <2>3, <2>4
<1>13. \/ ProcessEnds \/ (\E p \in Callers : Count(p))
       \/ (\E p \in Callers : Create(p) /\ CommitCreate(p, call[p].w))
       \/ ((\E p \in Callers : GoesOn(p) /\ ~Count(p)) /\ QueueKept)
  BY <1>1, QueueStep, CallsStep, Zenon
<1> QED
  BY <1>8, <1>9, <1>11, <1>12, <1>13

(* However many callers race past the check of its length, a queue holds fewer *)
(* than QueueLimit executions and one for each goroutine that enqueues.        *)
THEOREM QueueBoundedHolds == DaemonSpec => []QueueBounded
<1>1. DaemonInit => RoomOK
  <2>1. QueueLimit \in Nat \ {0}
    BY DaemonConstants DEF DaemonConstants
  <2> SUFFICES ASSUME DaemonInit, NEW w \in Workflows
               PROVE  QueueCount(w) + Cardinality(Creating(w))
                        < QueueLimit + Cardinality(Enqueuers)
    BY DEF RoomOK
  <2>2. QueueOf(w) = {} /\ Creating(w) = {}
    BY DEF DaemonInit, StoreInit, QueueOf, Creating, Idle
  <2>3. Cardinality(Enqueuers) \in Nat
    BY ControlInit, FiniteQueue DEF QueueFinite
  <2> QED
    BY <2>1, <2>2, <2>3, FS_EmptySet DEF QueueCount
<1>2. Base /\ RoomOK /\ [DaemonNext]_vars => RoomOK'
  BY RoomStep
<1>3. Base /\ RoomOK => QueueBounded
  BY FiniteQueue, DaemonConstants DEF Base, QueueFinite, RoomOK, QueueBounded, Enqueuers,
                                      DaemonConstants
<1> QED
  BY <1>1, <1>2, <1>3, BaseInvariant, PTL DEF DaemonSpec
-----------------------------------------------------------------------------
(* Only Unmap and Spawn write d.workflows, and a process forgets neither that  *)
(* a store call failed nor which executions went to a replaced instance.       *)
LEMMA MemoryStep ==
  ASSUME [DaemonNext]_vars
  PROVE  \/ ProcessEnds
         \/ /\ current' = current \/ \E p \in Callers : Unmap(p) \/ Spawn(p)
            /\ failed' \in {failed, TRUE} /\ stray \subseteq stray'
<1> USE DEF memoryVars, historyVars, faultVars, Fault
<1>1. ASSUME NEW p, Enqueuing(p)
      PROVE  current' = current /\ failed' \in {failed, TRUE} /\ stray \subseteq stray'
  BY <1>1 DEF Enqueuing, Accept, Count, Create, NotifyWorker, Rearm, Register, Await
<1>2. ASSUME NEW p, Stopping(p), ~ProcessEnds
      PROVE  (current' = current \/ Unmap(p)) /\ failed' \in {failed, TRUE} /\ stray \subseteq stray'
  <2>1. CASE Close(p) \/ Drain(p) \/ Reopen(p) \/ Cancel(p) \/ Halt(p) \/ TriggersOff(p)
    BY <1>2, <2>1 DEF Close, Drain, Reopen, Cancel, Halt, TriggersOff
  <2>2. CASE StatusOff(p) \/ Unmap(p) \/ DeleteRow(p) \/ DrainAll(p) \/ ReopenAll(p)
             \/ Finalize(p) \/ Disconnect(p)
    BY <2>2 DEF StatusOff, Unmap, DeleteRow, DrainAll, ReopenAll, Finalize, Disconnect
  <2> QED
    BY <1>2, <2>1, <2>2 DEF Stopping
<1>3. ASSUME NEW p, Starting(p)
      PROVE  (current' = current \/ Spawn(p)) /\ failed' \in {failed, TRUE} /\ stray \subseteq stray'
  BY <1>3 DEF Starting, Load, MarkStopped, Upsert, Replace, Arm, TriggersOn, Spawn, StatusOn,
              WakeUp
<1>4. ASSUME NEW i, Worker(i)
      PROVE  current' = current /\ failed' \in {failed, TRUE} /\ stray \subseteq stray'
  BY <1>4 DEF Worker, Wake, Check, Claim, Mark, Run, Report
<1>5. ASSUME NEW p, NEW w, NEW i, NEW op,
             \/ Fire(p, i, op) \/ Exec(p, w) \/ RequestStart(p, w) \/ Request(p, op, w)
             \/ Shutdown(p)
      PROVE  current' = current /\ failed' \in {failed, TRUE} /\ stray \subseteq stray'
  BY <1>5 DEF Fire, Exec, RequestStart, Request, Shutdown
<1>6. CASE Boot \/ Restoring \/ Background \/ UNCHANGED vars
  BY <1>6 DEF Boot, Restoring, Retain, ListActive, RestoreNext, GiveUp, GiveUpTriggers,
              Background, vars
<1>7. BootFails \/ Exit \/ Kill => ProcessEnds
  BY DEF BootFails, Exit, Kill
<1> QED
  BY <1>1, <1>2, <1>3, <1>4, <1>5, <1>6, <1>7, DaemonCases, Zenon

(* A worker falls asleep only when it has found its queue empty, or an error.  *)
LEMMA WorkerSleeps ==
  ASSUME Control, NEW j \in Insts, Worker(j), NEW i \in Insts, Asleep(inst'[i])
  PROVE  \/ Asleep(inst[i])
         \/ failed'
         \/ QueueOf(inst[i].w) = {} /\ UNCHANGED storeVars
<1> USE DEF WorkerTo
<1>1. inst \in [Insts -> ManagedWorkflow] /\ inst[j] \in ManagedWorkflow
  BY DEF Control, DaemonTypeOK
<1>2. CASE Mark(j) \/ Run(j) \/ Report(j)
  BY <1>1, <1>2 DEF Mark, Run, Report, Asleep, ManagedWorkflow
<1>3. CASE Wake(j) \/ Check(j)
  BY <1>1, <1>3 DEF Wake, Check, LoopPc, Asleep, ManagedWorkflow
<1>4. CASE Claim(j)
  <2>1. ASSUME NEW e, inst' = [inst EXCEPT ![j].pc = "mark", ![j].e = e,
                          ![j].late = IF inst[j].accepting THEN @ ELSE @ + 1]
        PROVE  Asleep(inst[i])
    BY <1>1, <2>1 DEF Asleep, ManagedWorkflow
  <2>2. CASE WorkerTo(j, "wait") /\ i # j
    BY <1>1, <2>2
  <2> QED
    BY <1>4, <2>1, <2>2 DEF Claim, Fault
<1> QED
  BY <1>2, <1>3, <1>4 DEF Worker

(* NoLostWakeup is inductive.                                                *)
LEMMA WakeupStep ==
  ASSUME Base, NoLostWakeup, [DaemonNext]_vars
  PROVE  NoLostWakeup'
<1> SUFFICES ASSUME NEW w \in Workflows, current'[w] # 0, ~failed', Asleep(inst'[current'[w]]),
                    QueueOf(w)' \ stray' # {}
             PROVE  \E p \in Callers : call'[p].pc \in Wakers /\ call'[p].i = current'[w]
  BY DEF NoLostWakeup, Asleep, Wakers
<1> DEFINE i == current'[w]
           Woken == \E p \in Callers : call'[p].pc \in Wakers /\ call'[p].i = i
<1>1. /\ call \in [Callers -> Locals] /\ inst \in [Insts -> ManagedWorkflow]
      /\ current \in [Workflows -> Insts \cup {0}] /\ InstancesOK /\ Control
      /\ \A p \in Callers : PlaceOK(p, call[p])
  BY DEF Base, Control, CallsOK, DaemonTypeOK
<1>2. ~ProcessEnds
  BY DEF ProcessEnds
<1>3. ~failed /\ stray \subseteq stray'
  <2>1. failed \in BOOLEAN /\ failed' \in {failed, TRUE} /\ stray \subseteq stray'
    BY <1>1, <1>2, MemoryStep DEF Control, DaemonTypeOK
  <2> QED
    BY <2>1
<1>4. ASSUME NEW p \in Callers, Spawn(p), call[p].w = w
      PROVE  Woken
  <2>1. call[p].i = i
    BY <1>1, <1>4 DEF Spawn
  <2>2. call'[p].pc = "statusOn" /\ call'[p].i = call[p].i
    BY <1>1, <1>4 DEF Spawn, StepTo, Locals
  <2> QED
    BY <2>1, <2>2 DEF Wakers
<1>5. SUFFICES ASSUME ~ \E p \in Callers : Spawn(p) /\ call[p].w = w
               PROVE  Woken
  BY <1>4
<1>6. current[w] = i /\ i \in Insts /\ inst[i].pc # "none" /\ inst[i].w = w
  <2>1. ASSUME NEW p \in Callers, Unmap(p) \/ Spawn(p)
        PROVE  current'[w] = current[w]
    BY <1>1, <1>5, <2>1 DEF Unmap, Spawn
  <2>2. current'[w] = current[w]
    BY <1>2, <2>1, MemoryStep
  <2> QED
    BY <1>1, <2>2 DEF InstancesOK
<1>7. CASE Asleep(inst[i]) /\ QueueOf(w) \ stray # {}
  <2>1. PICK p \in Callers : call[p].pc \in Wakers /\ call[p].i = i
    BY <1>3, <1>6, <1>7 DEF NoLostWakeup, Asleep, Wakers
  <2>2. PICK q \in Callers : GoesOn(q)
    BY <1>1, <1>2, CallsStep
  <2>3. CASE call'[p] = call[p]
    BY <2>1, <2>3
  <2>4. CASE NotifyWorker(p) \/ WakeUp(p)
    <3>1. inst'[i].token
      BY <1>1, <1>6, <1>7, <2>1, <2>4 DEF NotifyWorker, WakeUp, Notify, Asleep, ManagedWorkflow
    <3> QED
      BY <3>1 DEF Asleep
  <2>5. CASE StatusOn(p)
    <3>1. StepTo(p, "wake")
      BY <2>5 DEF StatusOn, Fault
    <3>2. call'[p].pc = "wake" /\ call'[p].i = i
      BY <1>1, <2>1, <3>1 DEF StepTo, Locals
    <3> QED
      BY <3>2 DEF Wakers
  <2> QED
    BY <2>1, <2>2, <2>3, <2>4, <2>5 DEF GoesOn
<1>8. CASE Asleep(inst[i]) /\ QueueOf(w) \ stray = {}
  <2>1. ~QueueKept
    BY <1>3, <1>8 DEF QueueKept
  <2>2. PICK p \in Callers : Create(p) /\ CommitCreate(p, call[p].w)
    BY <1>1, <2>1, QueueStep
  <2>3. nextId \in Nat /\ nextId' = nextId + 1
    BY <1>1, <2>2 DEF CommitCreate, Control, DaemonTypeOK, TypeOK
  <2>4. /\ call' = [call EXCEPT ![p].pc = "notify", ![p].e = nextId]
        /\ stray' = IF current[call[p].w] \in {0, call[p].i} THEN stray ELSE stray \cup {nextId}
    BY <2>2, <2>3 DEF Create, AbortCreate
  <2>5. QueueOf(w)' \subseteq QueueOf(w) \cup {nextId}
        /\ (nextId \in QueueOf(w)' => call[p].w = w)
    <3>1. owner \in [Ids -> Workflows \cup {None}] /\ queue \subseteq Ids
      BY <1>1 DEF Control, DaemonTypeOK, TypeOK
    <3>2. nextId \in Ids
      BY <1>1, <2>2, StoreConstants DEF CommitCreate, Control, DaemonTypeOK, TypeOK, Ids,
                                        StoreConstants
    <3>3. queue' = queue \cup {nextId} /\ owner' = [owner EXCEPT ![nextId] = call[p].w]
      BY <2>2 DEF CommitCreate
    <3> QED
      BY <3>1, <3>2, <3>3 DEF QueueOf
  <2>6. nextId \in QueueOf(w)' /\ nextId \notin stray'
    <3>1. PICK e : e \in QueueOf(w)' /\ e \notin stray'
      OBVIOUS
    <3>2. e \notin QueueOf(w)
      BY <1>3, <1>8, <3>1
    <3>3. e = nextId
      BY <2>5, <3>1, <3>2
    <3> QED
      BY <3>1, <3>3
  <2>7. call[p].w = w /\ call[p].i = i
    BY <1>6, <2>4, <2>5, <2>6
  <2>8. call'[p].pc = "notify" /\ call'[p].i = call[p].i
    BY <1>1, <2>4 DEF Locals
  <2> QED
    BY <2>7, <2>8 DEF Wakers
<1>9. Asleep(inst[i])
  <2>1. CASE WorkersKept
    BY <1>6, <2>1 DEF WorkersKept
  <2>2. ASSUME NEW j \in Insts, Worker(j)
        PROVE  Asleep(inst[i])
    <3>1. UNCHANGED storeVars => QueueOf(w)' = QueueOf(w)
      BY DEF storeVars, QueueOf
    <3> QED
      BY <1>1, <1>3, <1>6, <2>2, <3>1, WorkerSleeps
  <2> QED
    BY <1>1, <1>2, <2>1, <2>2, WorkersStep
<1> QED
  BY <1>7, <1>8, <1>9

(* While an execution is queued for a workflow whose worker sleeps, somebody   *)
(* is about to wake it: whatever overlaps, stops or restarts.                  *)
THEOREM NoLostWakeupHolds == DaemonSpec => []NoLostWakeup
<1>1. DaemonInit => NoLostWakeup
  BY DEF DaemonInit, NoLostWakeup
<1>2. Base /\ NoLostWakeup /\ [DaemonNext]_vars => NoLostWakeup'
  BY WakeupStep
<1> QED
  BY <1>1, <1>2, BaseInvariant, PTL DEF DaemonSpec
=============================================================================
