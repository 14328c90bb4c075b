--------------------------- MODULE Daemon_proofs ---------------------------
(***************************************************************************)
(* Proofs about Daemon, for any numbers of workflows, goroutines,          *)
(* instances, executions and faults: its types, and that it works on the   *)
(* store only by the operations of ExecutionStore, so that what is proved  *)
(* of the store holds in the daemon.                                       *)
(*                                                                         *)
(* Neither can be proved alone.  The store's theorems need the daemon to   *)
(* call it rightly (a worker completes what it has claimed, nobody creates *)
(* while the process is down), and that a goroutine's locals are right     *)
(* where it uses them depends on what others have done meanwhile to the    *)
(* instance it looked up.  Control has the parts:                          *)
(*   CallsOK      where each goroutine is and what its locals hold there;  *)
(*   InstancesOK  which instances there are, and whose;                    *)
(*   DownOK       while the process is down nothing is left of its memory. *)
(***************************************************************************)
EXTENDS Daemon, ExecutionStore_proofs

(* The steps of DaemonNext, one case each.                                     *)
LEMMA DaemonCases ==
  ASSUME [DaemonNext]_vars
  PROVE  \/ \E p \in Firers, i \in Insts, op \in {"fire", "tick"} : Fire(p, i, op)
         \/ \E p \in Users, w \in Workflows : Exec(p, w)
         \/ \E p \in Operators, w \in Workflows : RequestStart(p, w)
         \/ \E p \in Operators, w \in Workflows, op \in Requests \ {"start"} : Request(p, op, w)
         \/ \E p \in Operators \cup {Main} : Shutdown(p)
         \/ \E p \in Callers : Enqueuing(p)
         \/ \E p \in Callers : Stopping(p)
         \/ \E p \in Callers : Starting(p)
         \/ \E i \in Insts : Worker(i)
         \/ Boot \/ Restoring \/ BootFails \/ Exit \/ Kill \/ Background
         \/ UNCHANGED vars
  BY Zenon DEF DaemonNext
-----------------------------------------------------------------------------
(* Where a goroutine can be, by the call it is in, and what its locals hold    *)
(* where it uses them.                                                         *)
Handling == {"start", "stop", "restart", "delete"}
Booting == {"retain", "list", "restore", "giveUp", "giveUpTriggers"}
Finalizing == {"cancel", "halt", "triggersOff", "statusOff", "unmap"}
Building == {"arm", "triggersOn", "spawn"}
Activating == Building \cup {"statusOn", "wake"}
DrainingAll == {"drainAll", "reopenAll", "finalize", "disconnect"}

PlaceOK(p, c) ==
  /\ c.pc \in {"idle", "down"} => c.op = "none" /\ c.rest = {}
  /\ c.pc \in Booting => c.op = "restore"
  /\ c.pc = "accept" => c.op \in {"fire", "tick"}
  /\ c.pc \in {"count", "create", "notify"} => c.op \in {"fire", "tick", "exec"}
  /\ c.pc = "rearm" => c.op = "tick"
  /\ c.pc \in {"register", "await"} => c.op = "exec"
  /\ c.pc \in {"close", "drain", "reopen"} => c.op \in Handling
  /\ c.pc \in Finalizing => c.op \in Handling \cup {"shutdown"}
  /\ c.pc = "deleteRow" => c.op \in {"delete", "start"}
  /\ c.pc = "load" => c.op = "restart"
  /\ c.pc \in {"markStopped", "upsert", "replace"} => c.op = "start"
  /\ c.pc \in Activating => c.op \in {"start", "restore"}
  /\ c.pc \in DrainingAll \cup {"exit"} => c.op = "shutdown"
  /\ c.op \in {"fire", "tick"} => p \in Firers
  /\ c.op = "exec" => p \in Users
  /\ c.op \in Handling => p \in Operators
  /\ c.op = "shutdown" => p \in Operators \cup {Main}
  /\ c.op = "restore" => p = Main
  /\ c.pc \in {"down", "exit"} => p = Main
  /\ c.op \in Handling \cup {"fire", "tick", "exec"} => c.w \in Workflows
  /\ c.pc \in Finalizing \cup Activating \cup {"giveUp", "giveUpTriggers"} => c.w \in Workflows
  /\ c.op = "restore" => c.rest \subseteq Workflows
  /\ c.op = "shutdown" => c.rest \subseteq Insts
  /\ c.pc \in {"count", "create", "notify", "register", "drain", "reopen"}
              \cup Finalizing \cup Activating => c.i \in Insts
  /\ c.pc \in {"notify", "register", "await"} => c.e \in Ids
CallsOK == call \in [Callers -> Locals] /\ \A p \in Callers : PlaceOK(p, call[p])

(* Changing the locals of one goroutine.                                       *)
LEMMA CallStep ==
  ASSUME CallsOK, NEW p \in Callers, NEW c \in Locals, PlaceOK(p, c),
         call' = [call EXCEPT ![p] = c]
  PROVE  CallsOK'
<1>1. call' \in [Callers -> Locals]
  BY DEF CallsOK
<1>2. \A q \in Callers : call'[q] = IF q = p THEN c ELSE call[q]
  BY DEF CallsOK
<1> QED
  BY <1>1, <1>2 DEF CallsOK

(* The locals of a goroutine that makes no call are in order.                *)
LEMMA IdleLocals == /\ Idle \in Locals /\ [Idle EXCEPT !.pc = "down"] \in Locals
                    /\ \A p \in Callers : PlaceOK(p, Idle)
                    /\ PlaceOK(Main, [Idle EXCEPT !.pc = "down"])
  BY DEF Idle, Locals, PcsOf, PlaceOK, Handling, Booting, Finalizing, Building, Activating,
         DrainingAll

(* A goroutine whose call returns is in order.                               *)
LEMMA ReturnStep ==
  ASSUME CallsOK, NEW p \in Callers, Return(p)
  PROVE  CallsOK'
  BY IdleLocals, CallStep DEF Return

(* The steps of one goroutine that leave its locals alone, by where they lead. *)
Follows(pc, op, next) ==
  \/ next = "create" /\ pc = "count"
  \/ next = "rearm" /\ op = "tick"
  \/ next = "register" /\ op = "exec" /\ pc = "notify"
  \/ next = "await" /\ pc = "register"
  \/ next = "markStopped" /\ op = "start"
  \/ next \in {"reopen", "cancel"} /\ pc = "drain"
  \/ next = "triggersOff" /\ pc = "halt"
  \/ next = "statusOff" /\ pc = "triggersOff"
  \/ next = "unmap" /\ pc = "statusOff"
  \/ next = "deleteRow" /\ op \in {"start", "delete"}
  \/ next = "load" /\ op = "restart"
  \/ next = "upsert" /\ op = "start"
  \/ next = "replace" /\ pc = "upsert"
  \/ next = "triggersOn" /\ pc = "arm"
  \/ next = "spawn" /\ pc = "triggersOn"
  \/ next = "statusOn" /\ pc = "spawn"
  \/ next = "wake" /\ pc = "statusOn"
  \/ next = "giveUp" /\ op = "restore" /\ pc \in Activating
  \/ next = "giveUpTriggers" /\ pc = "giveUp"
  \/ next \in {"retain", "list", "restore"} /\ op = "restore"
  \/ next \in {"reopenAll", "finalize", "disconnect"} /\ op = "shutdown"

(* A goroutine that only moves on, along Follows, stays in order.            *)
LEMMA GotoStep ==
  ASSUME CallsOK, NEW p \in Callers, NEW next \in PcsOf, StepTo(p, next),
         Follows(call[p].pc, call[p].op, next)
  PROVE  CallsOK'
<1> DEFINE c == [call[p] EXCEPT !.pc = next]
<1>1. call[p] \in Locals /\ PlaceOK(p, call[p])
  BY DEF CallsOK
<1>2. c \in Locals
  BY <1>1 DEF Locals
<1>3. PlaceOK(p, c)
  BY <1>1 DEF PlaceOK, Follows, Locals, Handling, Booting, Finalizing, Building, Activating,
         DrainingAll
<1>4. call' = [call EXCEPT ![p] = c]
  BY DEF StepTo
<1> QED
  BY <1>1, <1>2, <1>3, <1>4, CallStep
-----------------------------------------------------------------------------
(* Which instances there are: those armed have a workflow, the one d.workflows *)
(* names is of that workflow, a goroutine works on an instance of its own      *)
(* workflow, and nobody else has the one a goroutine is building.              *)
Owning == {"count", "create", "notify", "register", "drain", "reopen", "statusOn", "wake"}
            \cup Finalizing
HasInstance(c) ==
  /\ c.op = "shutdown" => \A i \in c.insts \cup c.rest : inst[i].pc # "none"
  /\ c.pc \in Owning => inst[c.i].pc # "none" /\ inst[c.i].w = c.w
  /\ c.pc \in {"triggersOn", "spawn"} => inst[c.i].w = c.w
  /\ c.pc \in Building => c.i < nextInst /\ inst[c.i].pc = "none"
InstancesOK ==
  /\ \A i \in Insts : /\ inst[i].pc # "none" \/ inst[i].watching => inst[i].w \in Workflows
                      /\ i >= nextInst => inst[i].pc = "none" /\ ~inst[i].watching
  /\ \A w \in Workflows : current[w] # 0 =>
       inst[current[w]].pc # "none" /\ inst[current[w]].w = w
  /\ \A p \in Callers : HasInstance(call[p])
  /\ \A p, q \in Callers : call[p].pc \in Building /\ call[q].pc \in Building =>
       p = q \/ call[p].i # call[q].i

(* Every step leaves the locals of every goroutine in order.                   *)
LEMMA EnqueuingCalls ==
  ASSUME DaemonTypeOK, CallsOK, NEW p \in Callers, Enqueuing(p)
  PROVE  CallsOK'
<1> USE DEF At
<1>1. call[p] \in Locals /\ PlaceOK(p, call[p])
  BY DEF CallsOK
<1>2. AfterEnqueue(p) => CallsOK'
  BY GotoStep, ReturnStep DEF AfterEnqueue, Follows, PcsOf
<1>3. CASE Accept(p)
  <2> DEFINE i == current[call[p].w]
             c == [call[p] EXCEPT !.pc = "count", !.i = i]
  <2>1. SUFFICES ASSUME Accepts(call[p].w, i), call' = [call EXCEPT ![p] = c]
                 PROVE  CallsOK'
    BY <1>2, <1>3 DEF Accept
  <2>2. i \in Insts
    BY <1>1, <1>3, <2>1 DEF Accept, Accepts, DaemonTypeOK, PlaceOK
  <2>3. c \in Locals
    BY <1>1, <2>2 DEF Locals, PcsOf
  <2>4. PlaceOK(p, c)
    BY <1>1, <1>3, <2>2 DEF Accept, Locals, PlaceOK, Handling, Booting, Finalizing, Building,
                            Activating, DrainingAll
  <2> QED
    BY <2>1, <2>3, <2>4, CallStep
<1>4. CASE Count(p)
  BY <1>2, <1>4, GotoStep DEF Count, Follows, PcsOf
<1>5. CASE Create(p)
  <2> DEFINE c == [call[p] EXCEPT !.pc = "notify", !.e = nextId]
  <2>1. SUFFICES ASSUME CommitCreate(p, call[p].w), call' = [call EXCEPT ![p] = c]
                 PROVE  CallsOK'
    BY <1>2, <1>5 DEF Create
  <2>2. nextId \in Ids
    BY <2>1, StoreConstants DEF CommitCreate, DaemonTypeOK, TypeOK, Ids, StoreConstants
  <2>3. c \in Locals
    BY <1>1, <2>2 DEF Locals, PcsOf
  <2>4. PlaceOK(p, c)
    BY <1>1, <1>5, <2>2 DEF Create, Locals, PlaceOK, Handling, Booting, Finalizing, Building,
                            Activating, DrainingAll
  <2> QED
    BY <2>1, <2>3, <2>4, CallStep
<1>6. CASE NotifyWorker(p)
  BY <1>2, <1>6, GotoStep DEF NotifyWorker, Follows, PcsOf
<1>7. CASE Rearm(p)
  BY <1>7, ReturnStep DEF Rearm
<1>8. CASE Register(p)
  BY <1>8, GotoStep DEF Register, Follows, PcsOf
<1>9. CASE Await(p)
  BY <1>9, ReturnStep DEF Await
<1> QED
  BY <1>3, <1>4, <1>5, <1>6, <1>7, <1>8, <1>9 DEF Enqueuing

(* The end of the process leaves every goroutine in order.                   *)
LEMMA EndCalls ==
  ASSUME ProcessEnds
  PROVE  CallsOK'
  BY IdleLocals DEF ProcessEnds, CallsOK

(* A Shutdown that takes the next instance, or has none left, stays in       *)
(* order.                                                                    *)
LEMMA FinalizeCalls ==
  ASSUME DaemonTypeOK, CallsOK, InstancesOK, NEW p \in Callers, NextToFinalize(p),
         call[p].op = "shutdown"
  PROVE  CallsOK'
<1>1. call[p] \in Locals /\ PlaceOK(p, call[p])
  BY DEF CallsOK
<1>2. CASE StepTo(p, "disconnect")
  BY <1>2, GotoStep DEF Follows, PcsOf
<1>3. ASSUME NEW i \in call[p].rest,
             call' = [call EXCEPT ![p].pc = "cancel", ![p].i = i, ![p].w = inst[i].w,
                                  ![p].rest = call[p].rest \ {i}]
      PROVE  CallsOK'
  <2> DEFINE c == [call[p] EXCEPT !.pc = "cancel", !.i = i, !.w = inst[i].w,
                                  !.rest = call[p].rest \ {i}]
  <2>1. i \in Insts /\ inst[i].w \in Workflows /\ call[p].rest \subseteq Insts
    BY <1>1 DEF PlaceOK, InstancesOK, HasInstance
  <2>2. c \in Locals
    BY <1>1, <2>1 DEF Locals, PcsOf
  <2>3. PlaceOK(p, c)
    BY <1>1, <2>1 DEF Locals, PlaceOK, Handling, Booting, Finalizing, Building, Activating,
                      DrainingAll
  <2>4. call' = [call EXCEPT ![p] = c]
    BY <1>3
  <2> QED
    BY <2>2, <2>3, <2>4, CallStep
<1> QED
  BY <1>2, <1>3 DEF NextToFinalize

(* The steps of stop, restart, delete and shutdown keep the locals in order. *)
LEMMA StoppingCalls ==
  ASSUME DaemonTypeOK, CallsOK, InstancesOK, NEW p \in Callers, Stopping(p)
  PROVE  CallsOK'
<1> USE DEF At
<1>1. call[p] \in Locals /\ PlaceOK(p, call[p])
  BY DEF CallsOK
<1>2. CASE Close(p)
  <2> DEFINE i == current[call[p].w]
             c == [call[p] EXCEPT !.pc = "drain", !.i = i]
  <2>1. CASE i = 0
    BY <1>2, <2>1, GotoStep, ReturnStep DEF Close, Follows, PcsOf
  <2>2. CASE i # 0
    <3>1. call' = [call EXCEPT ![p] = c]
      BY <1>2, <2>2 DEF Close
    <3>2. i \in Insts
      BY <1>1, <1>2, <2>2 DEF Close, DaemonTypeOK, PlaceOK
    <3>3. c \in Locals
      BY <1>1, <3>2 DEF Locals, PcsOf
    <3>4. PlaceOK(p, c)
      BY <1>1, <1>2, <3>2 DEF Close, Locals, PlaceOK, Handling, Booting, Finalizing, Building,
                              Activating, DrainingAll
    <3> QED
      BY <3>1, <3>3, <3>4, CallStep
  <2> QED
    BY <2>1, <2>2
<1>3. CASE Drain(p)
  BY <1>3, GotoStep DEF Drain, Follows, PcsOf
<1>4. CASE Reopen(p)
  BY <1>4, ReturnStep DEF Reopen
<1>5. CASE Cancel(p)
  <2> DEFINE c == [call[p] EXCEPT !.pc = "halt", !.cancelled = Cancelled(call[p].w)]
  <2>1. SUFFICES ASSUME call' = [call EXCEPT ![p] = c] PROVE CallsOK'
    BY <1>5, ReturnStep DEF Cancel
  <2>2. Cancelled(call[p].w) \subseteq Ids
    BY DEF Cancelled, QueueOf, DaemonTypeOK, TypeOK
  <2>3. c \in Locals
    BY <1>1, <2>2 DEF Locals, PcsOf
  <2>4. PlaceOK(p, c)
    BY <1>1, <1>5 DEF Cancel, Locals, PlaceOK, Handling, Booting, Finalizing, Building,
                      Activating, DrainingAll
  <2> QED
    BY <2>1, <2>3, <2>4, CallStep
<1>6. CASE Halt(p)
  <2> DEFINE c == [call[p] EXCEPT !.pc = "triggersOff", !.cancelled = {}]
  <2>1. SUFFICES ASSUME call' = [call EXCEPT ![p] = c] PROVE CallsOK'
    BY <1>6, EndCalls, ReturnStep DEF Halt
  <2>2. c \in Locals
    BY <1>1 DEF Locals, PcsOf
  <2>3. PlaceOK(p, c)
    BY <1>1, <1>6 DEF Halt, Locals, PlaceOK, Handling, Booting, Finalizing, Building,
                      Activating, DrainingAll
  <2> QED
    BY <2>1, <2>2, <2>3, CallStep
<1>7. CASE TriggersOff(p)
  BY <1>7, GotoStep, ReturnStep DEF TriggersOff, Follows, PcsOf
<1>8. CASE StatusOff(p)
  BY <1>8, GotoStep, ReturnStep DEF StatusOff, Follows, PcsOf
<1>9. CASE Unmap(p)
  <2>1. call[p].op \in Handling \cup {"shutdown"}
    BY <1>1, <1>9 DEF Unmap, PlaceOK, Finalizing
  <2> QED
    BY <1>9, <2>1, GotoStep, ReturnStep, FinalizeCalls DEF Unmap, Follows, PcsOf, Handling
<1>10. CASE DeleteRow(p)
  BY <1>10, ReturnStep DEF DeleteRow
<1>11. CASE DrainAll(p)
  <2>1. call[p].op = "shutdown" /\ call[p].rest \subseteq Insts
    BY <1>1, <1>11 DEF DrainAll, PlaceOK, DrainingAll
  <2>2. ASSUME NEW rest \in SUBSET Insts, NEW pc \in {"drainAll", "finalize"},
               call' = [call EXCEPT ![p].pc = pc, ![p].rest = rest]
        PROVE  CallsOK'
    <3> DEFINE c == [call[p] EXCEPT !.pc = pc, !.rest = rest]
    <3>1. c \in Locals
      BY <1>1 DEF Locals, PcsOf
    <3>2. PlaceOK(p, c)
      BY <1>1, <2>1 DEF Locals, PlaceOK, Handling, Booting, Finalizing, Building,
                        Activating, DrainingAll
    <3>3. call' = [call EXCEPT ![p] = c]
      BY <2>2
    <3> QED
      BY <3>1, <3>2, <3>3, CallStep
  <2>3. ASSUME NEW rest \in SUBSET Insts, call' = [call EXCEPT ![p].rest = rest]
        PROVE  CallsOK'
    <3>1. call' = [call EXCEPT ![p].pc = "drainAll", ![p].rest = rest]
      BY ZenonT(40), <1>1, <1>11, <2>3 DEF DrainAll, CallsOK, Locals
    <3> QED
      BY <2>2, <3>1
  <2>4. call[p].insts \in SUBSET Insts
    BY <1>1 DEF Locals
  <2> QED
    BY <1>11, <2>1, <2>2, <2>3, <2>4, GotoStep DEF DrainAll, Follows, PcsOf
<1>12. CASE ReopenAll(p)
  BY <1>12, ReturnStep DEF ReopenAll
<1>13. CASE Finalize(p)
  BY <1>1, <1>13, FinalizeCalls DEF Finalize, PlaceOK, DrainingAll
<1>14. CASE Disconnect(p)
  <2> DEFINE c == [call[p] EXCEPT !.pc = "exit"]
  <2>1. CASE p # Main
    BY <1>14, <2>1, ReturnStep DEF Disconnect
  <2>2. CASE p = Main
    <3>1. c \in Locals
      BY <1>1 DEF Locals, PcsOf
    <3>2. PlaceOK(p, c)
      BY <1>1, <1>14, <2>2 DEF Disconnect, Locals, PlaceOK, Handling, Booting, Finalizing,
                               Building, Activating, DrainingAll
    <3>3. call' = [call EXCEPT ![p] = c]
      BY <1>14, <2>2 DEF Disconnect, StepTo
    <3> QED
      BY <3>1, <3>2, <3>3, CallStep
  <2> QED
    BY <2>1, <2>2
<1> QED
  BY <1>2, <1>3, <1>4, <1>5, <1>6, <1>7, <1>8, <1>9, <1>10, <1>11, <1>12, <1>13, <1>14
     DEF Stopping

(* A start whose file has been read has its locals in order.                 *)
LEMMA LoadedCalls ==
  ASSUME CallsOK, NEW p \in Operators, NEW w \in Workflows, Loaded(p, w)
  PROVE  CallsOK'
<1> DEFINE c == [Idle EXCEPT !.op = "start", !.w = w, !.found = Exists(w),
                   !.pc = IF workflows[w] = "active" THEN "close" ELSE "upsert"]
<1>1. c \in Locals
  BY DEF Idle, Locals, PcsOf, LifecycleOps, Exists
<1>2. PlaceOK(p, c)
  BY DEF Idle, PlaceOK, Handling, Booting, Finalizing, Building, Activating, DrainingAll
<1> QED
  BY <1>1, <1>2, CallStep, DaemonConstants DEF Loaded, DaemonConstants

(* The steps of start and of activateWorkflow keep the locals in order.      *)
LEMMA StartingCalls ==
  ASSUME DaemonTypeOK, CallsOK, InstancesOK, NEW p \in Callers, Starting(p)
  PROVE  CallsOK'
<1> USE DEF At
<1>1. call[p] \in Locals /\ PlaceOK(p, call[p])
  BY DEF CallsOK
<1>2. CASE Load(p)
  <2>1. p \in Operators /\ call[p].w \in Workflows
    BY <1>1, <1>2 DEF Load, PlaceOK, Handling
  <2> QED
    BY <1>2, <2>1, LoadedCalls, ReturnStep DEF Load
<1>3. CASE MarkStopped(p)
  BY <1>1, <1>3, GotoStep, ReturnStep DEF MarkStopped, Follows, PcsOf, PlaceOK
<1>4. CASE Upsert(p)
  BY <1>4, GotoStep, ReturnStep DEF Upsert, Follows, PcsOf
<1>5. ActivationFails(p) /\ call[p].pc \in Activating \cup {"replace"} => CallsOK'
  BY <1>1, GotoStep, ReturnStep DEF ActivationFails, Follows, PcsOf, PlaceOK, Activating
<1>6. CASE Replace(p)
  <2> DEFINE c == [call[p] EXCEPT !.pc = "arm", !.i = nextInst, !.trig = nextInst]
  <2>1. SUFFICES ASSUME nextInst <= MaxInst, call' = [call EXCEPT ![p] = c] PROVE CallsOK'
    BY <1>5, <1>6 DEF Replace
  <2>2. nextInst \in Insts
    BY <2>1, DaemonConstants DEF DaemonConstants, DaemonTypeOK, Insts
  <2>3. c \in Locals
    BY <1>1, <2>2 DEF Locals, PcsOf
  <2>4. PlaceOK(p, c)
    BY <1>1, <1>6, <2>2 DEF Replace, Locals, PlaceOK, Handling, Booting, Finalizing, Building,
                            Activating, DrainingAll
  <2> QED
    BY <2>1, <2>3, <2>4, CallStep
<1>7. CASE Arm(p)
  BY <1>5, <1>7, GotoStep DEF Arm, Follows, PcsOf, Activating, Building
<1>8. CASE TriggersOn(p)
  BY <1>5, <1>8, GotoStep DEF TriggersOn, Follows, PcsOf, Activating, Building
<1>9. CASE Spawn(p)
  BY <1>9, GotoStep DEF Spawn, Follows, PcsOf, Activating, Building
<1>10. CASE StatusOn(p)
  BY <1>5, <1>10, GotoStep DEF StatusOn, Follows, PcsOf, Activating
<1>11. CASE WakeUp(p)
  BY <1>11, GotoStep, ReturnStep DEF WakeUp, Follows, PcsOf
<1> QED
  BY <1>2, <1>3, <1>4, <1>6, <1>7, <1>8, <1>9, <1>10, <1>11 DEF Starting

(* The steps of the restore keep the locals in order.                        *)
LEMMA RestoringCalls ==
  ASSUME DaemonTypeOK, CallsOK, Restoring
  PROVE  CallsOK'
<1> USE DEF At
<1>1. Main \in Callers /\ call[Main] \in Locals /\ PlaceOK(Main, call[Main])
  BY DaemonConstants DEF CallsOK, DaemonConstants
<1>2. CASE Retain
  BY <1>1, <1>2, GotoStep DEF Retain, Follows, PcsOf, PlaceOK, Booting
<1>3. CASE ListActive
  <2> DEFINE c == [call[Main] EXCEPT !.pc = "restore",
                                     !.rest = {w \in Workflows : workflows[w] = "active"}]
  <2>1. c \in Locals
    BY <1>1 DEF Locals, PcsOf
  <2>2. PlaceOK(Main, c)
    BY <1>1, <1>3 DEF ListActive, Locals, PlaceOK, Handling, Booting, Finalizing, Building,
                      Activating, DrainingAll
  <2>3. call' = [call EXCEPT ![Main] = c]
    BY <1>3 DEF ListActive
  <2> QED
    BY <1>1, <2>1, <2>2, <2>3, CallStep
<1>4. CASE RestoreNext
  <2>1. SUFFICES ASSUME nextInst <= MaxInst, NEW w \in call[Main].rest,
                        call' = [call EXCEPT ![Main].pc = "arm", ![Main].w = w,
                                   ![Main].i = nextInst, ![Main].trig = triggers[w].id,
                                   ![Main].rest = call[Main].rest \ {w}]
                 PROVE  CallsOK'
    BY <1>1, <1>4, ReturnStep DEF RestoreNext
  <2> DEFINE c == [call[Main] EXCEPT !.pc = "arm", !.w = w, !.i = nextInst,
                     !.trig = triggers[w].id, !.rest = call[Main].rest \ {w}]
  <2>2. nextInst \in Insts
    BY <2>1, DaemonConstants DEF DaemonConstants, DaemonTypeOK, Insts
  <2>3. w \in Workflows /\ call[Main].rest \subseteq Workflows
    BY <1>1, <1>4 DEF RestoreNext, PlaceOK, Booting
  <2>4. triggers[w].id \in Insts \cup {0, None}
    BY <2>3 DEF DaemonTypeOK
  <2>5. c \in Locals
    BY <1>1, <2>2, <2>3, <2>4 DEF Locals, PcsOf
  <2>6. PlaceOK(Main, c)
    BY <1>1, <1>4, <2>2, <2>3 DEF RestoreNext, Locals, PlaceOK, Handling, Booting, Finalizing,
                                  Building, Activating, DrainingAll
  <2>7. call' = [call EXCEPT ![Main] = c]
    BY <2>1
  <2> QED
    BY <1>1, <2>5, <2>6, <2>7, CallStep
<1>5. CASE GiveUp
  BY <1>1, <1>5, GotoStep DEF GiveUp, Follows, PcsOf, PlaceOK, Booting
<1>6. CASE GiveUpTriggers
  BY <1>1, <1>6, GotoStep DEF GiveUpTriggers, Follows, PcsOf, PlaceOK, Booting
<1> QED
  BY <1>2, <1>3, <1>4, <1>5, <1>6 DEF Restoring

(* Every step of the daemon keeps the locals of every goroutine in order.    *)
LEMMA CallsKept ==
  ASSUME DaemonTypeOK, CallsOK, InstancesOK, [DaemonNext]_vars
  PROVE  CallsOK'
<1>1. ASSUME UNCHANGED call PROVE CallsOK'
  BY <1>1 DEF CallsOK
<1>2. ASSUME NEW p \in Firers, NEW i \in Insts, NEW op \in {"fire", "tick"}, Fire(p, i, op)
      PROVE  CallsOK'
  <2> DEFINE c == [Idle EXCEPT !.pc = "accept", !.op = op, !.w = inst[i].w,
                               !.trig = inst[i].trig]
  <2>1. inst[i].w \in Workflows /\ inst[i].trig \in Insts \cup {0, None}
    BY <1>2 DEF Fire, InstancesOK, DaemonTypeOK, ManagedWorkflow
  <2>2. c \in Locals
    BY <2>1 DEF Locals, Idle, PcsOf, LifecycleOps
  <2>3. PlaceOK(p, c)
    BY <2>1 DEF PlaceOK, Idle, Handling, Booting, Finalizing, Building, Activating, DrainingAll
  <2> QED
    BY <1>2, <2>2, <2>3, CallStep, DaemonConstants DEF Fire, DaemonConstants
<1>3. ASSUME NEW p \in Users, NEW w \in Workflows, Exec(p, w)
      PROVE  CallsOK'
  <2> DEFINE c == [Idle EXCEPT !.pc = "count", !.op = "exec", !.w = w, !.i = current[w]]
  <2>1. current[w] \in Insts
    BY <1>3 DEF Exec, Accepts, DaemonTypeOK
  <2>2. c \in Locals
    BY <2>1 DEF Locals, Idle, PcsOf
  <2>3. PlaceOK(p, c)
    BY <2>1 DEF PlaceOK, Idle, Handling, Booting, Finalizing, Building, Activating, DrainingAll
  <2> QED
    BY <1>3, <2>2, <2>3, CallStep, DaemonConstants DEF Exec, DaemonConstants
<1>4. ASSUME NEW p \in Operators, NEW w \in Workflows, RequestStart(p, w)
      PROVE  CallsOK'
  BY <1>4, LoadedCalls DEF RequestStart
<1>5. ASSUME NEW p \in Operators, NEW w \in Workflows, NEW op \in Requests \ {"start"},
             Request(p, op, w)
      PROVE  CallsOK'
  <2> DEFINE c == [Idle EXCEPT !.op = op, !.w = w,
                     !.pc = IF workflows[w] = "active" THEN "close"
                            ELSE IF op = "delete" THEN "deleteRow" ELSE "load"]
  <2>1. op \in Handling /\ (workflows[w] # "active" => op \in {"delete", "restart"})
    BY <1>5, DaemonConstants DEF Request, Handling, DaemonConstants
  <2>2. c \in Locals
    BY <2>1 DEF Locals, Idle, PcsOf, LifecycleOps, Handling
  <2>3. PlaceOK(p, c)
    BY <2>1 DEF PlaceOK, Idle, Handling, Booting, Finalizing, Building, Activating, DrainingAll
  <2> QED
    BY <1>5, <2>2, <2>3, CallStep, DaemonConstants DEF Request, DaemonConstants
<1>6. ASSUME NEW p \in Operators \cup {Main}, Shutdown(p)
      PROVE  CallsOK'
  <2> DEFINE managed == {current[w] : w \in Workflows} \ {0}
             c == [Idle EXCEPT !.pc = "drainAll", !.op = "shutdown", !.insts = managed,
                               !.rest = managed]
  <2>1. managed \subseteq Insts
    BY DEF DaemonTypeOK
  <2>2. c \in Locals
    BY <2>1 DEF Locals, Idle, PcsOf, LifecycleOps
  <2>3. PlaceOK(p, c)
    BY <2>1 DEF PlaceOK, Idle, Handling, Booting, Finalizing, Building, Activating, DrainingAll
  <2> QED
    BY <1>6, <2>2, <2>3, CallStep, DaemonConstants DEF Shutdown, DaemonConstants
<1>7. ASSUME NEW i \in Insts, Worker(i)
      PROVE  CallsOK'
  BY <1>1, <1>7 DEF Worker, Wake, Check, Claim, Mark, Run, Report
<1>8. CASE Boot
  <2> DEFINE c == [call[Main] EXCEPT !.pc = "retain", !.op = "restore"]
  <2>1. Main \in Callers /\ call[Main] \in Locals /\ PlaceOK(Main, call[Main])
    BY DaemonConstants DEF CallsOK, DaemonConstants
  <2>2. c \in Locals
    BY <2>1 DEF Locals, PcsOf, LifecycleOps
  <2>3. PlaceOK(Main, c)
    BY <1>8, <2>1 DEF Boot, At, PlaceOK, Locals, Handling, Booting, Finalizing, Building,
                      Activating, DrainingAll
  <2> QED
    BY <1>8, <2>1, <2>2, <2>3, CallStep DEF Boot
<1>9. CASE BootFails \/ Exit \/ Kill
  BY <1>9, EndCalls DEF BootFails, Exit, Kill
<1>10. CASE Background \/ UNCHANGED vars
  BY <1>1, <1>10 DEF Background, vars
<1> QED
  BY <1>2, <1>3, <1>4, <1>5, <1>6, <1>7, <1>8, <1>9, <1>10, EnqueuingCalls, StoppingCalls,
     StartingCalls, RestoringCalls, DaemonCases, Zenon
-----------------------------------------------------------------------------
(* A step that arms and spawns nothing keeps the instances there are, and      *)
(* d.workflows forgets at most.                                                *)
InstancesKept ==
  /\ \A i \in Insts : /\ inst'[i].w = inst[i].w
                      /\ inst'[i].pc = "none" <=> inst[i].pc = "none"
                      /\ inst'[i].watching => inst[i].watching
  /\ \A w \in Workflows : current'[w] \in {0, current[w]}
  /\ nextInst' = nextInst

(* A step of one goroutine that keeps the instances and leaves it with one   *)
(* of its own keeps InstancesOK: the only way to break it is to take up an   *)
(* instance.                                                                 *)
LEMMA CallInstances ==
  ASSUME DaemonTypeOK, CallsOK, CallsOK', InstancesOK, InstancesKept, NEW p \in Callers,
         \A q \in Callers \ {p} : call'[q] = call[q],
         HasInstance(call'[p]),
         call'[p].pc \in Building => call[p].pc \in Building /\ call'[p].i = call[p].i
  PROVE  InstancesOK'
<1>1. \A q \in Callers : call'[q] \in Locals /\ PlaceOK(q, call'[q])
  BY DEF CallsOK
<1>2. \A q \in Callers : HasInstance(call'[q])
  BY DEF InstancesOK
<1>3. ASSUME NEW q \in Callers PROVE HasInstance(call[q])'
  <2>1. call'[q].op = "shutdown" => call'[q].insts \cup call'[q].rest \subseteq Insts
    BY <1>1 DEF Locals, PlaceOK
  <2>2. call'[q].pc \in Owning \cup Building => call'[q].i \in Insts
    BY <1>1 DEF PlaceOK, Owning, Activating, Building, Finalizing
  <2> QED
    BY <1>2, <2>1, <2>2 DEF HasInstance, InstancesKept, Building
<1>4. \A i \in Insts : /\ inst'[i].pc # "none" \/ inst'[i].watching => inst'[i].w \in Workflows
                       /\ i >= nextInst' => inst'[i].pc = "none" /\ ~inst'[i].watching
  BY DEF InstancesOK, InstancesKept
<1>5. \A w \in Workflows : current'[w] # 0 =>
        inst'[current'[w]].pc # "none" /\ inst'[current'[w]].w = w
  BY DEF InstancesOK, InstancesKept, DaemonTypeOK
<1>6. \A q, r \in Callers : call'[q].pc \in Building /\ call'[r].pc \in Building =>
        q = r \/ call'[q].i # call'[r].i
  BY DEF InstancesOK
<1> QED
  BY <1>3, <1>4, <1>5, <1>6 DEF InstancesOK

(* So does a step that moves no goroutine.                                   *)
LEMMA SameCallInstances ==
  ASSUME DaemonTypeOK, CallsOK, InstancesOK, InstancesKept, UNCHANGED call
  PROVE  InstancesOK'
<1>1. Main \in Callers /\ CallsOK'
  BY DaemonConstants DEF DaemonConstants, CallsOK
<1> QED
  BY <1>1, CallInstances DEF CallsOK, InstancesOK

(* So does a return.                                                         *)
LEMMA ReturnInstances ==
  ASSUME DaemonTypeOK, CallsOK, InstancesOK, InstancesKept, NEW p \in Callers, Return(p)
  PROVE  InstancesOK'
<1>1. HasInstance(Idle) /\ Idle.pc \notin Building
  BY DEF HasInstance, Idle, Owning, Building, Finalizing
<1>2. CallsOK' /\ call'[p] = Idle /\ \A q \in Callers \ {p} : call'[q] = call[q]
  BY ReturnStep DEF Return, CallsOK
<1> QED
  BY <1>1, <1>2, CallInstances

(* So does a step along Follows, except into the middle of building.         *)
LEMMA GotoInstances ==
  ASSUME DaemonTypeOK, CallsOK, InstancesOK, InstancesKept,
         NEW p \in Callers, NEW next \in PcsOf \ {"triggersOn", "statusOn"}, StepTo(p, next),
         Follows(call[p].pc, call[p].op, next)
  PROVE  InstancesOK'
<1> DEFINE c == [call[p] EXCEPT !.pc = next]
<1>1. call[p] \in Locals /\ PlaceOK(p, call[p]) /\ HasInstance(call[p])
  BY DEF CallsOK, InstancesOK
<1>2. HasInstance(c) /\ (c.pc \in Building => call[p].pc \in Building /\ c.i = call[p].i)
  BY <1>1 DEF HasInstance, Follows, Locals, Owning, Finalizing, Building
<1>3. CallsOK' /\ call'[p] = c /\ \A q \in Callers \ {p} : call'[q] = call[q]
  BY GotoStep DEF StepTo, CallsOK
<1> QED
  BY <1>2, <1>3, CallInstances

(* The steps of enqueueExecution and ExecWorkflow keep InstancesOK.          *)
LEMMA EnqueuingInstances ==
  ASSUME DaemonTypeOK, CallsOK, InstancesOK, NEW p \in Callers, Enqueuing(p)
  PROVE  InstancesOK'
<1> USE DEF At
<1>1. call[p] \in Locals /\ PlaceOK(p, call[p]) /\ HasInstance(call[p]) /\ CallsOK'
  BY EnqueuingCalls DEF CallsOK, InstancesOK
<1>2. InstancesKept /\ AfterEnqueue(p) => InstancesOK'
  BY GotoInstances, ReturnInstances DEF AfterEnqueue, Follows, PcsOf
<1>3. ASSUME UNCHANGED <<inst, current, nextInst>>
      PROVE  InstancesKept
  BY <1>3 DEF InstancesKept
<1>4. ASSUME UNCHANGED <<current, nextInst>>, Notify(call[p].i)
      PROVE  InstancesKept
  BY <1>4 DEF InstancesKept, Notify, DaemonTypeOK, ManagedWorkflow
<1>5. CASE Accept(p)
  <2> DEFINE i == current[call[p].w]
  <2>1. InstancesKept
    BY <1>3, <1>5 DEF Accept, memoryVars
  <2>2. SUFFICES ASSUME Accepts(call[p].w, i),
                        call' = [call EXCEPT ![p].pc = "count", ![p].i = i]
                 PROVE  InstancesOK'
    BY <1>2, <1>5, <2>1 DEF Accept
  <2>3. i # 0 /\ call[p].w \in Workflows /\ call[p].op # "shutdown"
    BY <1>1, <1>5, <2>2 DEF Accept, Accepts, PlaceOK
  <2>4. call'[p] = [call[p] EXCEPT !.pc = "count", !.i = i]
        /\ \A q \in Callers \ {p} : call'[q] = call[q]
    BY <2>2 DEF CallsOK
  <2>5. HasInstance(call'[p]) /\ call'[p].pc \notin Building
    BY <1>1, <2>3, <2>4 DEF HasInstance, InstancesOK, Locals, Owning, Building, Finalizing
  <2> QED
    BY <1>1, <2>1, <2>4, <2>5, CallInstances
<1>6. CASE Count(p)
  BY <1>2, <1>3, <1>6, GotoInstances DEF Count, Follows, PcsOf, memoryVars
<1>7. CASE Create(p)
  <2>1. InstancesKept
    BY <1>3, <1>7 DEF Create, memoryVars
  <2>2. SUFFICES ASSUME call' = [call EXCEPT ![p].pc = "notify", ![p].e = nextId]
                 PROVE  InstancesOK'
    BY <1>2, <1>7, <2>1 DEF Create
  <2>3. call'[p] = [call[p] EXCEPT !.pc = "notify", !.e = nextId]
        /\ \A q \in Callers \ {p} : call'[q] = call[q]
    BY <2>2 DEF CallsOK
  <2>4. HasInstance(call'[p]) /\ call'[p].pc \notin Building
    BY <1>1, <1>7, <2>3 DEF Create, HasInstance, Locals, Owning, Building, Finalizing
  <2> QED
    BY <1>1, <2>1, <2>3, <2>4, CallInstances
<1>8. CASE NotifyWorker(p)
  BY <1>2, <1>4, <1>8, GotoInstances DEF NotifyWorker, Follows, PcsOf
<1>9. CASE Rearm(p)
  BY <1>3, <1>9, ReturnInstances DEF Rearm, memoryVars
<1>10. CASE Register(p)
  BY <1>4, <1>10, GotoInstances DEF Register, Follows, PcsOf
<1>11. CASE Await(p)
  BY <1>3, <1>11, ReturnInstances DEF Await
<1> QED
  BY <1>5, <1>6, <1>7, <1>8, <1>9, <1>10, <1>11 DEF Enqueuing

(* The end of the process keeps InstancesOK.                                 *)
LEMMA EndInstances ==
  ASSUME ProcessEnds
  PROVE  InstancesOK'
<1>1. \A p \in Callers : call'[p].pc \in {"idle", "down"} /\ call'[p].op = "none"
  BY DEF ProcessEnds, Idle
<1>2. \A i \in Insts : inst'[i].pc = "none" /\ ~inst'[i].watching
  BY DEF ProcessEnds, NoInst
<1>3. \A w \in Workflows : current'[w] = 0
  BY DEF ProcessEnds
<1> QED
  BY <1>1, <1>2, <1>3 DEF InstancesOK, HasInstance, Owning, Building, Finalizing

(* A Shutdown that takes the next instance keeps InstancesOK.                *)
LEMMA FinalizeInstances ==
  ASSUME DaemonTypeOK, CallsOK, InstancesOK, InstancesKept, NEW p \in Callers,
         NextToFinalize(p), call[p].op = "shutdown", UNCHANGED inst
  PROVE  InstancesOK'
<1>1. call[p] \in Locals /\ PlaceOK(p, call[p]) /\ HasInstance(call[p]) /\ CallsOK'
  BY FinalizeCalls DEF CallsOK, InstancesOK
<1>2. CASE StepTo(p, "disconnect")
  BY <1>2, GotoInstances DEF Follows, PcsOf
<1>3. ASSUME NEW i \in call[p].rest,
             call' = [call EXCEPT ![p].pc = "cancel", ![p].i = i, ![p].w = inst[i].w,
                                  ![p].rest = call[p].rest \ {i}]
      PROVE  InstancesOK'
  <2>1. call'[p] = [call[p] EXCEPT !.pc = "cancel", !.i = i, !.w = inst[i].w,
                                   !.rest = call[p].rest \ {i}]
        /\ \A q \in Callers \ {p} : call'[q] = call[q]
    BY <1>3 DEF CallsOK
  <2>2. HasInstance(call'[p]) /\ call'[p].pc \notin Building
    BY <1>1, <2>1 DEF HasInstance, Locals, Owning, Building, Finalizing
  <2> QED
    BY <1>1, <2>1, <2>2, CallInstances
<1> QED
  BY <1>2, <1>3 DEF NextToFinalize

(* The steps of stop, restart, delete and shutdown keep InstancesOK.         *)
LEMMA StoppingInstances ==
  ASSUME DaemonTypeOK, CallsOK, InstancesOK, NEW p \in Callers, Stopping(p)
  PROVE  InstancesOK'
<1> USE DEF At
<1>1. call[p] \in Locals /\ PlaceOK(p, call[p]) /\ HasInstance(call[p]) /\ CallsOK'
  BY StoppingCalls DEF CallsOK, InstancesOK
<1>2. ASSUME UNCHANGED <<inst, current, nextInst>>
      PROVE  InstancesKept
  BY <1>2 DEF InstancesKept
<1>3. CASE Close(p)
  <2> DEFINE i == current[call[p].w]
  <2>1. InstancesKept
    BY <1>3 DEF Close, InstancesKept, DaemonTypeOK, ManagedWorkflow
  <2>2. CASE i = 0
    BY <1>3, <2>1, <2>2, GotoInstances, ReturnInstances DEF Close, Follows, PcsOf
  <2>3. CASE i # 0
    <3>1. call'[p] = [call[p] EXCEPT !.pc = "drain", !.i = i]
          /\ \A q \in Callers \ {p} : call'[q] = call[q]
      BY <1>3, <2>3 DEF Close, CallsOK
    <3>2. call[p].w \in Workflows /\ call[p].op # "shutdown"
      BY <1>1, <1>3 DEF Close, PlaceOK, Handling
    <3>3. HasInstance(call'[p]) /\ call'[p].pc \notin Building
      BY <1>1, <2>3, <3>1, <3>2 DEF HasInstance, InstancesOK, Locals, Owning, Building,
                                    Finalizing
    <3> QED
      BY <1>1, <2>1, <3>1, <3>3, CallInstances
  <2> QED
    BY <2>2, <2>3
<1>4. CASE Drain(p)
  BY <1>2, <1>4, GotoInstances DEF Drain, Follows, PcsOf, memoryVars
<1>5. CASE Reopen(p)
  <2>1. InstancesKept
    BY <1>5 DEF Reopen, InstancesKept, DaemonTypeOK, ManagedWorkflow
  <2> QED
    BY <1>5, <2>1, ReturnInstances DEF Reopen
<1>6. CASE Cancel(p)
  <2>1. InstancesKept
    BY <1>2, <1>6 DEF Cancel, memoryVars
  <2>2. SUFFICES ASSUME call' = [call EXCEPT ![p].pc = "halt",
                                             ![p].cancelled = Cancelled(call[p].w)]
                 PROVE  InstancesOK'
    BY <1>6, <2>1, ReturnInstances DEF Cancel
  <2>3. call'[p] = [call[p] EXCEPT !.pc = "halt", !.cancelled = Cancelled(call[p].w)]
        /\ \A q \in Callers \ {p} : call'[q] = call[q]
    BY <2>2 DEF CallsOK
  <2>4. HasInstance(call'[p]) /\ call'[p].pc \notin Building
    BY <1>1, <1>6, <2>3 DEF Cancel, HasInstance, Locals, Owning, Building, Finalizing
  <2> QED
    BY <1>1, <2>1, <2>3, <2>4, CallInstances
<1>7. CASE Halt(p)
  <2>1. SUFFICES ASSUME ~ProcessEnds PROVE InstancesOK'
    BY EndInstances
  <2>2. InstancesKept
    BY <1>7, <2>1 DEF Halt, InstancesKept, DaemonTypeOK, ManagedWorkflow
  <2>3. CASE Return(p)
    BY <2>2, <2>3, ReturnInstances
  <2>4. CASE call' = [call EXCEPT ![p].pc = "triggersOff", ![p].cancelled = {}]
    <3>1. call'[p] = [call[p] EXCEPT !.pc = "triggersOff", !.cancelled = {}]
          /\ \A q \in Callers \ {p} : call'[q] = call[q]
      BY <2>4 DEF CallsOK
    <3>2. HasInstance(call'[p]) /\ call'[p].pc \notin Building
      BY <1>1, <1>7, <3>1 DEF Halt, HasInstance, Locals, Owning, Building, Finalizing
    <3> QED
      BY <1>1, <2>2, <3>1, <3>2, CallInstances
  <2> QED
    BY <1>7, <2>1, <2>3, <2>4 DEF Halt
<1>8. CASE TriggersOff(p)
  BY <1>2, <1>8, GotoInstances, ReturnInstances DEF TriggersOff, Follows, PcsOf, memoryVars
<1>9. CASE StatusOff(p)
  BY <1>2, <1>9, GotoInstances, ReturnInstances DEF StatusOff, Follows, PcsOf, memoryVars
<1>10. CASE Unmap(p)
  <2>1. InstancesKept
    BY <1>10 DEF Unmap, InstancesKept, DaemonTypeOK
  <2>2. call[p].op \in Handling \cup {"shutdown"}
    BY <1>1, <1>10 DEF Unmap, PlaceOK, Finalizing
  <2> QED
    BY <1>10, <2>1, <2>2, GotoInstances, ReturnInstances, FinalizeInstances
       DEF Unmap, Follows, PcsOf, Handling
<1>11. CASE DeleteRow(p)
  BY <1>2, <1>11, ReturnInstances DEF DeleteRow, memoryVars
<1>12. CASE DrainAll(p)
  <2>1. InstancesKept
    BY <1>2, <1>12 DEF DrainAll, memoryVars
  <2>2. call[p].op = "shutdown"
    BY <1>1, <1>12 DEF DrainAll, PlaceOK, DrainingAll
  <2>3. CASE StepTo(p, "reopenAll")
    BY <2>1, <2>2, <2>3, GotoInstances DEF Follows, PcsOf
  <2>4. CASE \/ \E i \in call[p].rest : call' = [call EXCEPT ![p].rest = call[p].rest \ {i}]
             \/ call' = [call EXCEPT ![p].pc = "finalize", ![p].rest = call[p].insts]
    <3>1. /\ call'[p].op = "shutdown" /\ call'[p].insts = call[p].insts
          /\ call'[p].rest \subseteq call[p].insts \cup call[p].rest
          /\ call'[p].pc \in {"drainAll", "finalize"}
          /\ \A q \in Callers \ {p} : call'[q] = call[q]
      BY <1>1, <1>12, <2>2, <2>4 DEF DrainAll, CallsOK, Locals
    <3>2. HasInstance(call'[p]) /\ call'[p].pc \notin Building
      BY <1>1, <2>2, <3>1 DEF HasInstance, Owning, Building, Finalizing
    <3> QED
      BY <1>1, <2>1, <3>1, <3>2, CallInstances
  <2> QED
    BY <1>12, <2>3, <2>4 DEF DrainAll
<1>13. CASE ReopenAll(p)
  <2>1. ASSUME NEW i \in Insts
        PROVE  inst'[i].w = inst[i].w /\ inst'[i].pc = inst[i].pc
               /\ inst'[i].watching = inst[i].watching
    <3>1. inst[i] \in ManagedWorkflow
      BY DEF DaemonTypeOK
    <3> QED
      BY <1>13, <3>1 DEF ReopenAll, ManagedWorkflow
  <2>2. InstancesKept
    BY <1>13, <2>1 DEF ReopenAll, InstancesKept
  <2> QED
    BY <1>13, <2>2, ReturnInstances DEF ReopenAll
<1>14. CASE Finalize(p)
  <2>1. call[p].op = "shutdown"
    BY <1>1, <1>14 DEF Finalize, PlaceOK, DrainingAll
  <2> QED
    BY <1>2, <1>14, <2>1, FinalizeInstances DEF Finalize, memoryVars
<1>15. CASE Disconnect(p)
  <2>1. InstancesKept
    BY <1>2, <1>15 DEF Disconnect
  <2>2. CASE Return(p)
    BY <2>1, <2>2, ReturnInstances
  <2>3. CASE StepTo(p, "exit")
    <3>1. call'[p] = [call[p] EXCEPT !.pc = "exit"]
          /\ \A q \in Callers \ {p} : call'[q] = call[q]
      BY <2>3 DEF StepTo, CallsOK
    <3>2. HasInstance(call'[p]) /\ call'[p].pc \notin Building
      BY <1>1, <3>1 DEF HasInstance, Locals, Owning, Building, Finalizing
    <3> QED
      BY <1>1, <2>1, <3>1, <3>2, CallInstances
  <2> QED
    BY <1>15, <2>2, <2>3 DEF Disconnect
<1> QED
  BY <1>3, <1>4, <1>5, <1>6, <1>7, <1>8, <1>9, <1>10, <1>11, <1>12, <1>13, <1>14, <1>15
     DEF Stopping

(* The next instance is a new one.                                             *)
LEMMA BuildInstances ==
  ASSUME DaemonTypeOK, CallsOK, CallsOK', InstancesOK, NEW p \in Callers,
         \A q \in Callers \ {p} : call'[q] = call[q],
         UNCHANGED <<inst, current>>, nextInst <= MaxInst, nextInst' = nextInst + 1,
         call'[p].pc = "arm", call'[p].op \in {"start", "restore"}, call'[p].i = nextInst
  PROVE  InstancesOK'
<1> USE DEF Building, Owning, Finalizing
<1>1. nextInst \in Nat /\ nextInst \in Insts /\ Insts \subseteq Nat
  BY DaemonConstants DEF DaemonTypeOK, Insts, DaemonConstants
<1>2. inst[nextInst].pc = "none"
  BY <1>1 DEF InstancesOK
<1>3. \A q \in Callers : /\ call'[q].pc \in Building => call'[q].i \in Insts
                         /\ HasInstance(call[q])
  BY DEF CallsOK, PlaceOK, Activating, InstancesOK
<1>4. \A q \in Callers : HasInstance(call[q])'
  BY <1>1, <1>2, <1>3 DEF HasInstance
<1>5. \A i \in Insts : /\ inst'[i].pc # "none" \/ inst'[i].watching => inst'[i].w \in Workflows
                       /\ i >= nextInst' => inst'[i].pc = "none" /\ ~inst'[i].watching
  BY <1>1 DEF InstancesOK
<1>6. \A w \in Workflows : current'[w] # 0 =>
        inst'[current'[w]].pc # "none" /\ inst'[current'[w]].w = w
  BY DEF InstancesOK
<1>7. \A q, r \in Callers : call'[q].pc \in Building /\ call'[r].pc \in Building =>
        q = r \/ call'[q].i # call'[r].i
  BY <1>1, <1>3 DEF InstancesOK, HasInstance
<1> QED
  BY <1>4, <1>5, <1>6, <1>7 DEF InstancesOK

(* Arming fills an instance that was empty and that nobody else has.           *)
LEMMA ArmInstances ==
  ASSUME DaemonTypeOK, CallsOK, CallsOK', InstancesOK, NEW p \in Callers, At(p, "arm"),
         StepTo(p, "triggersOn"), UNCHANGED <<current, nextInst>>,
         NEW m \in ManagedWorkflow, m.w = call[p].w, m.pc = "none",
         inst' = [inst EXCEPT ![call[p].i] = m]
  PROVE  InstancesOK'
<1> USE DEF Building, Owning, Finalizing, At
<1>1. call[p] \in Locals /\ PlaceOK(p, call[p]) /\ HasInstance(call[p])
  BY DEF CallsOK, InstancesOK
<1>2. /\ call'[p] = [call[p] EXCEPT !.pc = "triggersOn"]
      /\ \A q \in Callers \ {p} : call'[q] = call[q]
  BY DEF StepTo, CallsOK
<1>3. /\ call[p].i \in Insts /\ call[p].w \in Workflows /\ call[p].op \in {"start", "restore"}
      /\ inst[call[p].i].pc = "none" /\ call[p].i < nextInst
  BY <1>1 DEF PlaceOK, Activating, HasInstance
<1>4. \A i \in Insts : inst'[i] = IF i = call[p].i THEN m ELSE inst[i]
  BY <1>3 DEF DaemonTypeOK
<1>5. \A i \in Insts : inst'[i].pc = "none" <=> inst[i].pc = "none"
  BY <1>3, <1>4
<1>6. ASSUME NEW q \in Callers \ {p} PROVE HasInstance(call[q])'
  <2>1. call[q] \in Locals /\ PlaceOK(q, call[q]) /\ HasInstance(call[q])
    BY DEF CallsOK, InstancesOK
  <2>2. call[q].op = "shutdown" => call[q].insts \cup call[q].rest \subseteq Insts
    BY <2>1 DEF Locals, PlaceOK
  <2>3. call[q].pc \in Building => call[q].i \in Insts /\ call[q].i # call[p].i
    BY <2>1 DEF PlaceOK, Activating, InstancesOK
  <2>4. call[q].pc \in Owning => call[q].i \in Insts /\ call[q].i # call[p].i
    BY <1>3, <2>1 DEF PlaceOK, Activating, HasInstance
  <2> QED
    BY <1>2, <1>4, <1>5, <2>1, <2>2, <2>3, <2>4 DEF HasInstance
<1>7. HasInstance(call[p])'
  BY <1>1, <1>2, <1>3, <1>4 DEF HasInstance, Locals
<1>8. \A i \in Insts : /\ inst'[i].pc # "none" \/ inst'[i].watching => inst'[i].w \in Workflows
                       /\ i >= nextInst' => inst'[i].pc = "none" /\ ~inst'[i].watching
  <2>1. call[p].i \in Nat /\ nextInst \in Nat
    BY <1>3, DaemonConstants DEF Insts, DaemonTypeOK, DaemonConstants
  <2> QED
    BY <1>3, <1>4, <2>1 DEF InstancesOK
<1>9. \A w \in Workflows : current'[w] # 0 =>
        inst'[current'[w]].pc # "none" /\ inst'[current'[w]].w = w
  BY <1>3, <1>4 DEF InstancesOK, DaemonTypeOK
<1>10. \A q, r \in Callers : call'[q].pc \in Building /\ call'[r].pc \in Building =>
         q = r \/ call'[q].i # call'[r].i
  BY <1>1, <1>2 DEF InstancesOK, Locals
<1> QED
  BY <1>6, <1>7, <1>8, <1>9, <1>10 DEF InstancesOK

(* Spawning starts an instance that nobody else has, and makes it current.     *)
LEMMA SpawnInstances ==
  ASSUME DaemonTypeOK, CallsOK, CallsOK', InstancesOK, NEW p \in Callers, Spawn(p)
  PROVE  InstancesOK'
<1> USE DEF Building, Owning, Finalizing, At
<1>1. call[p] \in Locals /\ PlaceOK(p, call[p]) /\ HasInstance(call[p])
  BY DEF CallsOK, InstancesOK
<1>2. /\ call'[p] = [call[p] EXCEPT !.pc = "statusOn"]
      /\ \A q \in Callers \ {p} : call'[q] = call[q]
  BY DEF Spawn, StepTo, CallsOK
<1>3. /\ call[p].i \in Insts /\ call[p].w \in Workflows /\ call[p].op \in {"start", "restore"}
      /\ inst[call[p].i].pc = "none" /\ call[p].i < nextInst /\ inst[call[p].i].w = call[p].w
  BY <1>1 DEF Spawn, PlaceOK, Activating, HasInstance
<1>4. /\ \A i \in Insts : /\ inst'[i].pc = IF i = call[p].i THEN "wait" ELSE inst[i].pc
                          /\ inst'[i].w = inst[i].w /\ inst'[i].watching = inst[i].watching
      /\ \A w \in Workflows : current'[w] = IF w = call[p].w THEN call[p].i ELSE current[w]
      /\ nextInst' = nextInst
  BY <1>3 DEF Spawn, DaemonTypeOK, ManagedWorkflow
<1>5. ASSUME NEW q \in Callers \ {p} PROVE HasInstance(call[q])'
  <2>1. call[q] \in Locals /\ PlaceOK(q, call[q]) /\ HasInstance(call[q])
    BY DEF CallsOK, InstancesOK
  <2>2. call[q].op = "shutdown" => call[q].insts \cup call[q].rest \subseteq Insts
    BY <2>1 DEF Locals, PlaceOK
  <2>3. call[q].pc \in Building => call[q].i \in Insts /\ call[q].i # call[p].i
    BY <2>1 DEF PlaceOK, Activating, InstancesOK, Spawn
  <2>4. call[q].pc \in Owning => call[q].i \in Insts
    BY <2>1 DEF PlaceOK, Activating
  <2> QED
    BY <1>2, <1>4, <2>1, <2>2, <2>3, <2>4 DEF HasInstance
<1>6. HasInstance(call[p])'
  BY <1>1, <1>2, <1>3, <1>4 DEF HasInstance, Locals
<1>7. \A i \in Insts : /\ inst'[i].pc # "none" \/ inst'[i].watching => inst'[i].w \in Workflows
                       /\ i >= nextInst' => inst'[i].pc = "none" /\ ~inst'[i].watching
  <2>1. call[p].i \in Nat /\ nextInst \in Nat
    BY <1>3, DaemonConstants DEF Insts, DaemonTypeOK, DaemonConstants
  <2> QED
    BY <1>3, <1>4, <2>1 DEF InstancesOK
<1>8. \A w \in Workflows : current'[w] # 0 =>
        inst'[current'[w]].pc # "none" /\ inst'[current'[w]].w = w
  BY <1>3, <1>4 DEF InstancesOK, DaemonTypeOK
<1>9. \A q, r \in Callers : call'[q].pc \in Building /\ call'[r].pc \in Building =>
        q = r \/ call'[q].i # call'[r].i
  BY <1>1, <1>2 DEF InstancesOK, Locals
<1> QED
  BY <1>5, <1>6, <1>7, <1>8, <1>9 DEF InstancesOK

(* A start whose file has been read keeps InstancesOK.                       *)
LEMMA LoadedInstances ==
  ASSUME DaemonTypeOK, CallsOK, InstancesOK, InstancesKept, NEW p \in Operators,
         NEW w \in Workflows, Loaded(p, w)
  PROVE  InstancesOK'
<1>1. p \in Callers /\ CallsOK'
  BY LoadedCalls, DaemonConstants DEF DaemonConstants
<1>2. /\ call'[p].op = "start" /\ call'[p].pc \in {"close", "upsert"}
      /\ \A q \in Callers \ {p} : call'[q] = call[q]
  BY <1>1 DEF Loaded, CallsOK, Idle
<1>3. HasInstance(call'[p]) /\ call'[p].pc \notin Building
  BY <1>2 DEF HasInstance, Owning, Building, Finalizing
<1> QED
  BY <1>1, <1>2, <1>3, CallInstances

(* The steps of start and of activateWorkflow keep InstancesOK.              *)
LEMMA StartingInstances ==
  ASSUME DaemonTypeOK, CallsOK, InstancesOK, NEW p \in Callers, Starting(p)
  PROVE  InstancesOK'
<1> USE DEF At
<1>1. call[p] \in Locals /\ PlaceOK(p, call[p]) /\ HasInstance(call[p]) /\ CallsOK'
  BY StartingCalls DEF CallsOK, InstancesOK
<1>2. ASSUME UNCHANGED <<inst, current, nextInst>>
      PROVE  InstancesKept
  BY <1>2 DEF InstancesKept
<1>3. ActivationFails(p) /\ call[p].pc \in Activating \cup {"replace"} /\ InstancesKept
        => InstancesOK'
  BY <1>1, GotoInstances, ReturnInstances DEF ActivationFails, Follows, PcsOf, PlaceOK,
                                              Activating
<1>4. CASE Load(p)
  <2>1. p \in Operators /\ call[p].w \in Workflows
    BY <1>1, <1>4 DEF Load, PlaceOK, Handling
  <2>2. InstancesKept
    BY <1>2, <1>4 DEF Load, memoryVars
  <2> QED
    BY <1>4, <2>1, <2>2, LoadedInstances, ReturnInstances DEF Load
<1>5. CASE MarkStopped(p)
  BY <1>1, <1>2, <1>5, GotoInstances, ReturnInstances DEF MarkStopped, Follows, PcsOf,
                                                          PlaceOK, memoryVars
<1>6. CASE Upsert(p)
  BY <1>2, <1>6, GotoInstances, ReturnInstances DEF Upsert, Follows, PcsOf, memoryVars
<1>7. CASE Replace(p)
  <2>1. CASE ActivationFails(p) /\ UNCHANGED nextInst
    BY <1>2, <1>3, <1>7, <2>1 DEF Replace
  <2>2. CASE /\ nextInst <= MaxInst /\ nextInst' = nextInst + 1
             /\ call' = [call EXCEPT ![p].pc = "arm", ![p].i = nextInst, ![p].trig = nextInst]
    <3>1. /\ call'[p].pc = "arm" /\ call'[p].i = nextInst /\ call'[p].op = call[p].op
          /\ \A q \in Callers \ {p} : call'[q] = call[q]
      BY <1>1, <2>2 DEF CallsOK, Locals
    <3>2. call[p].op = "start"
      BY <1>1, <1>7 DEF Replace, PlaceOK
    <3> QED
      BY <1>1, <1>7, <2>2, <3>1, <3>2, BuildInstances DEF Replace
  <2> QED
    BY <1>7, <2>1, <2>2 DEF Replace
<1>8. CASE Arm(p)
  <2> DEFINE m == [NoInst EXCEPT !.w = call[p].w, !.trig = call[p].trig,
                                 !.accepting = TRUE, !.watching = call[p].trig # None]
  <2>1. CASE ActivationFails(p) /\ UNCHANGED inst
    BY <1>2, <1>3, <1>8, <2>1 DEF Arm, Activating, Building
  <2>2. CASE inst' = [inst EXCEPT ![call[p].i] = m] /\ StepTo(p, "triggersOn")
    <3>1. m \in ManagedWorkflow /\ m.w = call[p].w /\ m.pc = "none"
      BY <1>1 DEF NoInst, ManagedWorkflow, Locals, WorkerPcs
    <3> QED
      BY <1>1, <1>8, <2>2, <3>1, ArmInstances DEF Arm
  <2> QED
    BY <1>8, <2>1, <2>2 DEF Arm
<1>9. CASE TriggersOn(p)
  BY <1>2, <1>3, <1>9, GotoInstances DEF TriggersOn, Follows, PcsOf, Activating, Building,
                                         memoryVars
<1>10. CASE Spawn(p)
  BY <1>1, <1>10, SpawnInstances
<1>11. CASE StatusOn(p)
  BY <1>2, <1>3, <1>11, GotoInstances DEF StatusOn, Follows, PcsOf, Activating, memoryVars
<1>12. CASE WakeUp(p)
  <2>1. InstancesKept
    BY <1>12 DEF WakeUp, Notify, InstancesKept, DaemonTypeOK, ManagedWorkflow
  <2> QED
    BY <1>12, <2>1, GotoInstances, ReturnInstances DEF WakeUp, Follows, PcsOf
<1> QED
  BY <1>4, <1>5, <1>6, <1>7, <1>8, <1>9, <1>10, <1>11, <1>12 DEF Starting

(* The steps of the restore keep InstancesOK.                                *)
LEMMA RestoringInstances ==
  ASSUME DaemonTypeOK, CallsOK, InstancesOK, Restoring
  PROVE  InstancesOK'
<1> USE DEF At
<1>1. /\ Main \in Callers /\ call[Main] \in Locals /\ PlaceOK(Main, call[Main])
      /\ HasInstance(call[Main]) /\ CallsOK'
  BY RestoringCalls, DaemonConstants DEF CallsOK, InstancesOK, DaemonConstants
<1>2. ASSUME UNCHANGED <<inst, current, nextInst>>
      PROVE  InstancesKept
  BY <1>2 DEF InstancesKept
<1>3. CASE Retain
  BY <1>1, <1>2, <1>3, GotoInstances DEF Retain, Follows, PcsOf, PlaceOK, Booting
<1>4. CASE ListActive
  <2>1. /\ call'[Main].pc = "restore" /\ call'[Main].op = "restore"
        /\ \A q \in Callers \ {Main} : call'[q] = call[q]
    BY ZenonT(40), <1>1, <1>4 DEF ListActive, CallsOK, Locals, PlaceOK, Booting
  <2>2. HasInstance(call'[Main]) /\ call'[Main].pc \notin Building
    BY <2>1 DEF HasInstance, Owning, Building, Finalizing
  <2> QED
    BY <1>1, <1>2, <1>4, <2>1, <2>2, CallInstances DEF ListActive, memoryVars
<1>5. CASE RestoreNext
  <2>1. CASE Return(Main) /\ UNCHANGED nextInst
    BY <1>1, <1>2, <1>5, <2>1, ReturnInstances DEF RestoreNext
  <2>2. ASSUME nextInst <= MaxInst, nextInst' = nextInst + 1, NEW w \in call[Main].rest,
               call' = [call EXCEPT ![Main].pc = "arm", ![Main].w = w,
                          ![Main].i = nextInst, ![Main].trig = triggers[w].id,
                          ![Main].rest = call[Main].rest \ {w}]
        PROVE  InstancesOK'
    <3>1. call[Main].op = "restore"
      BY <1>1, <1>5 DEF RestoreNext, PlaceOK, Booting
    <3>2. /\ call'[Main] = [call[Main] EXCEPT !.pc = "arm", !.w = w, !.i = nextInst,
                              !.trig = triggers[w].id, !.rest = call[Main].rest \ {w}]
          /\ \A q \in Callers \ {Main} : call'[q] = call[q]
      BY <1>1, <2>2 DEF CallsOK
    <3>3. call'[Main].pc = "arm" /\ call'[Main].i = nextInst /\ call'[Main].op = "restore"
      BY <1>1, <3>1, <3>2 DEF Locals
    <3> QED
      BY <1>1, <1>5, <2>2, <3>2, <3>3, BuildInstances DEF RestoreNext
  <2> QED
    BY <1>5, <2>1, <2>2 DEF RestoreNext
<1>6. CASE GiveUp
  BY <1>1, <1>2, <1>6, GotoInstances DEF GiveUp, Follows, PcsOf, PlaceOK, Booting, memoryVars
<1>7. CASE GiveUpTriggers
  BY <1>1, <1>2, <1>7, GotoInstances DEF GiveUpTriggers, Follows, PcsOf, PlaceOK, Booting,
                                         memoryVars
<1> QED
  BY <1>3, <1>4, <1>5, <1>6, <1>7 DEF Restoring

(* A call that begins has no instance, or the current one of its workflow.     *)
LEMMA RequestInstances ==
  ASSUME DaemonTypeOK, CallsOK, CallsOK', InstancesOK, InstancesKept, NEW p \in Callers,
         NEW c, call' = [call EXCEPT ![p] = c],
         \/ c.pc \in {"accept", "close", "upsert", "load", "deleteRow"} /\ c.op # "shutdown"
         \/ /\ c.pc = "count" /\ c.op # "shutdown"
            /\ c.w \in Workflows /\ c.i = current[c.w] /\ c.i # 0
         \/ /\ c.pc = "drainAll"
            /\ c.insts \cup c.rest \subseteq {current[w] : w \in Workflows} \ {0}
  PROVE  InstancesOK'
<1>1. call'[p] = c /\ \A q \in Callers \ {p} : call'[q] = call[q]
  BY DEF CallsOK
<1>2. HasInstance(c) /\ c.pc \notin Building
  BY DEF HasInstance, InstancesOK, Owning, Building, Finalizing
<1> QED
  BY <1>1, <1>2, CallInstances

(* What a step of a worker does to its instance.                               *)
LEMMA WorkerInstances ==
  ASSUME DaemonTypeOK, NEW i \in Insts, Worker(i)
  PROVE  \E m \in ManagedWorkflow : /\ inst' = [inst EXCEPT ![i] = m]
                                    /\ m.w = inst[i].w /\ m.watching = inst[i].watching
                                    /\ m.accepting = inst[i].accepting
                                    /\ m.closed = inst[i].closed /\ m.trig = inst[i].trig
                                    /\ m.pc = "none" <=> inst[i].pc = "none"
<1> DEFINE Fits(m) == /\ m \in ManagedWorkflow
                      /\ m.w = inst[i].w /\ m.watching = inst[i].watching
                      /\ m.accepting = inst[i].accepting
                      /\ m.closed = inst[i].closed /\ m.trig = inst[i].trig
                      /\ m.pc = "none" <=> inst[i].pc = "none"
           Goal == \E m \in ManagedWorkflow : inst' = [inst EXCEPT ![i] = m] /\ Fits(m)
<1>0. inst[i] \in ManagedWorkflow
  BY DEF DaemonTypeOK
<1>1. ASSUME NEW m, Fits(m), inst' = [inst EXCEPT ![i] = m]
      PROVE  Goal
  BY <1>1
<1> SUFFICES Goal
  OBVIOUS
<1> HIDE DEF Goal
<1> USE DEF WorkerAt
<1>2. CASE Wake(i)
  <2>1. CASE inst' = [inst EXCEPT ![i].pc = LoopPc(i), ![i].token = FALSE]
    <3> DEFINE m == [inst[i] EXCEPT !.pc = LoopPc(i), !.token = FALSE]
    <3>1. Fits(m)
      BY <1>0, <1>2 DEF Wake, LoopPc, ManagedWorkflow, WorkerPcs
    <3>2. inst' = [inst EXCEPT ![i] = m]
      BY <2>1
    <3> HIDE DEF m, Fits
    <3> QED
      BY <1>1, <3>1, <3>2
  <2>2. CASE inst' = [inst EXCEPT ![i].pc = "exited", ![i].token = FALSE, ![i].late = 0]
    <3> DEFINE m == [inst[i] EXCEPT !.pc = "exited", !.token = FALSE, !.late = 0]
    <3>1. Fits(m)
      BY <1>0, <1>2 DEF Wake, ManagedWorkflow, WorkerPcs
    <3>2. inst' = [inst EXCEPT ![i] = m]
      BY <2>2
    <3> HIDE DEF m, Fits
    <3> QED
      BY <1>1, <3>1, <3>2
  <2> QED
    BY <1>2, <2>1, <2>2 DEF Wake
<1>3. ASSUME NEW pc \in WorkerPcs \ {"none"}, inst[i].pc # "none", WorkerTo(i, pc)
      PROVE  Goal
  <2> DEFINE m == [inst[i] EXCEPT !.pc = pc]
  <2>1. Fits(m)
    BY <1>0, <1>3 DEF ManagedWorkflow
  <2>2. inst' = [inst EXCEPT ![i] = m]
    BY <1>3 DEF WorkerTo
  <2> HIDE DEF m, Fits
  <2> QED
    BY <1>1, <2>1, <2>2
<1>4. CASE Check(i)
  BY <1>3, <1>4 DEF Check, LoopPc, WorkerPcs
<1>5. CASE Claim(i)
  <2>1. ASSUME NEW e \in Ids,
               inst' = [inst EXCEPT ![i].pc = "mark", ![i].e = e,
                          ![i].late = IF inst[i].accepting THEN @ ELSE @ + 1]
        PROVE  Goal
    <3> DEFINE m == [inst[i] EXCEPT !.pc = "mark", !.e = e,
                                    !.late = IF inst[i].accepting THEN @ ELSE @ + 1]
    <3>1. inst[i].late \in Nat /\ inst[i].late + 1 \in Nat
      BY <1>0 DEF ManagedWorkflow
    <3>2. Fits(m)
      BY <1>0, <1>5, <3>1 DEF Claim, ManagedWorkflow, WorkerPcs
    <3>3. inst' = [inst EXCEPT ![i] = m]
      BY <2>1
    <3> HIDE DEF m, Fits
    <3> QED
      BY <1>1, <3>2, <3>3
  <2> QED
    BY <1>3, <1>5, <2>1 DEF Claim, WorkerPcs
<1>6. CASE Mark(i)
  <2> DEFINE m == [inst[i] EXCEPT !.pc = "run", !.running = TRUE]
  <2>1. Fits(m)
    BY <1>0, <1>6 DEF Mark, ManagedWorkflow, WorkerPcs
  <2>2. inst' = [inst EXCEPT ![i] = m]
    BY <1>6 DEF Mark
  <2> HIDE DEF m, Fits
  <2> QED
    BY <1>1, <2>1, <2>2
<1>7. CASE Run(i)
  <2>1. PICK s \in RunOutcomes : inst' = [inst EXCEPT ![i].pc = "report", ![i].out = s]
    BY <1>7 DEF Run
  <2> DEFINE m == [inst[i] EXCEPT !.pc = "report", !.out = s]
  <2>2. Fits(m)
    BY <1>0, <1>7, DaemonConstants DEF Run, ManagedWorkflow, WorkerPcs, DaemonConstants
  <2>3. inst' = [inst EXCEPT ![i] = m]
    BY <2>1
  <2> HIDE DEF m, Fits
  <2> QED
    BY <1>1, <2>2, <2>3
<1>8. CASE Report(i)
  <2> DEFINE m == [inst[i] EXCEPT !.pc = "check", !.running = FALSE, !.e = 0, !.out = None]
  <2>1. Fits(m)
    BY <1>0, <1>8 DEF Report, ManagedWorkflow, WorkerPcs
  <2>2. inst' = [inst EXCEPT ![i] = m]
    BY <1>8 DEF Report
  <2> HIDE DEF m, Fits
  <2> QED
    BY <1>1, <2>1, <2>2
<1> QED
  BY <1>2, <1>4, <1>5, <1>6, <1>7, <1>8 DEF Worker

(* Every step of the daemon keeps InstancesOK.                               *)
LEMMA InstancesStep ==
  ASSUME DaemonTypeOK, CallsOK, InstancesOK, [DaemonNext]_vars
  PROVE  InstancesOK'
<1>1. CallsOK'
  BY CallsKept
<1>2. ASSUME UNCHANGED <<inst, current, nextInst>>
      PROVE  InstancesKept
  BY <1>2 DEF InstancesKept
<1>3. Users \cup Firers \cup Operators \cup {Main} = Callers
  BY DaemonConstants DEF DaemonConstants
<1>4. ASSUME NEW p \in Firers, NEW i \in Insts, NEW op \in {"fire", "tick"}, Fire(p, i, op)
      PROVE  InstancesOK'
  BY <1>1, <1>2, <1>3, <1>4, RequestInstances DEF Fire, Idle, memoryVars
<1>5. ASSUME NEW p \in Users, NEW w \in Workflows, Exec(p, w)
      PROVE  InstancesOK'
  BY <1>1, <1>2, <1>3, <1>5, RequestInstances DEF Exec, Accepts, Idle, memoryVars
<1>6. ASSUME NEW p \in Operators, NEW w \in Workflows, RequestStart(p, w)
      PROVE  InstancesOK'
  BY <1>2, <1>6, LoadedInstances DEF RequestStart, memoryVars
<1>7. ASSUME NEW p \in Operators, NEW w \in Workflows, NEW op \in Requests \ {"start"},
             Request(p, op, w)
      PROVE  InstancesOK'
  <2> DEFINE c == [Idle EXCEPT !.op = op, !.w = w,
                     !.pc = IF workflows[w] = "active" THEN "close"
                            ELSE IF op = "delete" THEN "deleteRow" ELSE "load"]
  <2>1. c.pc \in {"close", "load", "deleteRow"} /\ c.op # "shutdown"
    BY <1>7 DEF Request, Idle
  <2>2. InstancesKept /\ p \in Callers /\ call' = [call EXCEPT ![p] = c]
    BY <1>2, <1>3, <1>7 DEF Request, memoryVars
  <2> HIDE DEF c
  <2> QED
    BY <1>1, <2>1, <2>2, RequestInstances
<1>8. ASSUME NEW p \in Operators \cup {Main}, Shutdown(p)
      PROVE  InstancesOK'
  <2>1. ASSUME NEW i \in Insts
        PROVE  inst'[i].w = inst[i].w /\ inst'[i].pc = inst[i].pc
               /\ inst'[i].watching = inst[i].watching
    <3>1. inst[i] \in ManagedWorkflow
      BY DEF DaemonTypeOK
    <3> QED
      BY <1>8, <3>1 DEF Shutdown, ManagedWorkflow
  <2>2. InstancesKept
    BY <1>8, <2>1 DEF Shutdown, InstancesKept
  <2> QED
    BY <1>1, <1>3, <1>8, <2>2, RequestInstances DEF Shutdown, Idle
<1>9. ASSUME NEW i \in Insts, Worker(i)
      PROVE  InstancesOK'
  <2>1. UNCHANGED <<call, current, nextInst>>
    BY <1>9 DEF Worker, Wake, Check, Claim, Mark, Run, Report
  <2>2. PICK m \in ManagedWorkflow : /\ inst' = [inst EXCEPT ![i] = m]
                                     /\ m.w = inst[i].w /\ m.watching = inst[i].watching
                                     /\ m.pc = "none" <=> inst[i].pc = "none"
    BY <1>9, WorkerInstances
  <2>3. \A j \in Insts : inst'[j] = IF j = i THEN m ELSE inst[j]
    BY <2>2 DEF DaemonTypeOK
  <2>4. InstancesKept
    BY <2>1, <2>2, <2>3 DEF InstancesKept, DaemonTypeOK
  <2> QED
    BY <2>1, <2>4, SameCallInstances
<1>10. CASE Boot
  <2>1. /\ call'[Main].pc = "retain" /\ call'[Main].op = "restore"
        /\ \A q \in Callers \ {Main} : call'[q] = call[q]
    BY <1>10, <1>3 DEF Boot, CallsOK, Locals
  <2>2. HasInstance(call'[Main]) /\ call'[Main].pc \notin Building
    BY <2>1 DEF HasInstance, Owning, Building, Finalizing
  <2> QED
    BY <1>1, <1>2, <1>3, <1>10, <2>1, <2>2, CallInstances DEF Boot, memoryVars
<1>11. CASE BootFails \/ Exit \/ Kill
  BY <1>11, EndInstances DEF BootFails, Exit, Kill
<1>12. CASE Background \/ UNCHANGED vars
  BY <1>2, <1>12, SameCallInstances DEF Background, vars, memoryVars
<1> QED
  BY <1>4, <1>5, <1>6, <1>7, <1>8, <1>9, <1>10, <1>11, <1>12, EnqueuingInstances,
     StoppingInstances, StartingInstances, RestoringInstances, DaemonCases, Zenon
-----------------------------------------------------------------------------
(* The step of the store each step of the daemon takes, if any.                *)
LEMMA EnqueuingStore ==
  ASSUME NEW p \in Callers, Enqueuing(p)
  PROVE  \/ UNCHANGED storeVars
         \/ Count(p) /\ BeginCreate(p)
         \/ Create(p) /\ (CommitCreate(p, call[p].w) \/ AbortCreate(p))
  BY DEF Enqueuing, Accept, Count, Create, NotifyWorker, Rearm, Register, Await

(* What the steps of stop, restart, delete and shutdown do to the store.     *)
LEMMA StoppingStore ==
  ASSUME NEW p \in Callers, Stopping(p)
  PROVE  \/ UNCHANGED storeVars
         \/ Cancel(p) /\ CancelQueuedExecutions(call[p].w)
         \/ Halt(p) /\ ProcessEnds
         \/ StatusOff(p) /\ SetWorkflowStatus(call[p].w, "stopped")
         \/ DeleteRow(p) /\ \E enforced \in EnforcesKeys : DeleteWorkflow(call[p].w, enforced)
  BY DEF Stopping, Close, Drain, Reopen, Cancel, Halt, TriggersOff, StatusOff, Unmap,
         DeleteRow, DrainAll, ReopenAll, Finalize, Disconnect

(* What the steps of start and of activateWorkflow do to the store.          *)
LEMMA StartingStore ==
  ASSUME NEW p \in Callers, Starting(p)
  PROVE  \/ UNCHANGED storeVars
         \/ MarkStopped(p) /\ SetWorkflowStatus(call[p].w, "stopped")
         \/ Upsert(p) /\ UpsertWorkflow(call[p].w, "stopped")
         \/ StatusOn(p) /\ UpsertWorkflow(call[p].w, "active")
  BY DEF Starting, Load, MarkStopped, Upsert, Replace, Arm, TriggersOn, Spawn, StatusOn, WakeUp

(* What a worker does to the store.                                          *)
LEMMA WorkerStore ==
  ASSUME NEW i \in Insts, Worker(i)
  PROVE  \/ UNCHANGED storeVars
         \/ Claim(i) /\ \E e \in Ids : ClaimNextQueueItem(inst[i].w, e)
         \/ Run(i) /\ \/ \E s \in RunOutcomes : CompleteExecution(inst[i].e, s)
                      \/ FailCompletion(inst[i].e)
  BY DEF Worker, Wake, Check, Claim, Mark, Run, Report

(* What the restore does to the store.                                       *)
LEMMA RestoringStore ==
  ASSUME Restoring
  PROVE  \/ UNCHANGED storeVars
         \/ Retain /\ ApplyRetention
         \/ GiveUp /\ SetWorkflowStatus(call[Main].w, "stopped")
  BY DEF Restoring, Retain, ListActive, RestoreNext, GiveUp, GiveUpTriggers

(* A process that is down has no goroutine, instance or waiter: its next step  *)
(* is its boot.                                                                *)
FreshProcess ==
  /\ call = [p \in Callers |-> IF p = Main THEN [Idle EXCEPT !.pc = "down"] ELSE Idle]
  /\ inst = [i \in Insts |-> NoInst]
  /\ current = [w \in Workflows |-> 0]
  /\ nextInst = 1
  /\ waiters = {}
  /\ mailbox = [e \in Ids |-> None]
  /\ ~shuttingDown /\ ~serving /\ ~failed
  /\ stray = {}
DownOK == ~up => FreshProcess

(* A goroutine that takes a step of a call is in one.                        *)
LEMMA CallerPcs ==
  ASSUME NEW p \in Callers, Enqueuing(p) \/ Stopping(p) \/ Starting(p)
  PROVE  call[p].pc \notin {"idle", "down"}
<1> USE DEF At
<1>1. Enqueuing(p) => call[p].pc \notin {"idle", "down"}
  BY DEF Enqueuing, Accept, Count, Create, NotifyWorker, Rearm, Register, Await
<1>2. Stopping(p) => call[p].pc \notin {"idle", "down"}
  BY DEF Stopping, Close, Drain, Reopen, Cancel, Halt, TriggersOff, StatusOff, Unmap,
         DeleteRow, DrainAll, ReopenAll, Finalize, Disconnect
<1>3. Starting(p) => call[p].pc \notin {"idle", "down"}
  BY DEF Starting, Load, MarkStopped, Upsert, Replace, Arm, TriggersOn, Spawn, StatusOn, WakeUp
<1> QED
  BY <1>1, <1>2, <1>3

(* While the process is down it can only boot.                               *)
LEMMA DownStep ==
  ASSUME DownOK, ~up, [DaemonNext]_vars
  PROVE  Boot \/ (Background /\ Tick) \/ UNCHANGED vars
<1>1. /\ \A p \in Callers : call[p].pc \in {"idle", "down"}
      /\ Main \in Callers /\ call[Main].pc = "down"
  BY DaemonConstants DEF DownOK, FreshProcess, Idle, DaemonConstants
<1>2. \A i \in Insts : inst[i].pc = "none"
  BY DEF DownOK, FreshProcess, NoInst
<1>3. ~serving
  BY SMTT(30) DEF DownOK, FreshProcess
<1>4. ~ \E p \in Firers, i \in Insts, op \in {"fire", "tick"} : Fire(p, i, op)
  BY DEF Fire
<1>5. ~ \E p \in Users, w \in Workflows : Exec(p, w)
  BY <1>3 DEF Exec
<1>6. ~ \E p \in Operators, w \in Workflows : RequestStart(p, w)
  BY <1>3 DEF RequestStart
<1>7. ~ \E p \in Operators, w \in Workflows, op \in Requests \ {"start"} : Request(p, op, w)
  BY <1>3 DEF Request
<1>8. ~ \E p \in Operators \cup {Main} : Shutdown(p)
  BY <1>1, <1>3 DEF Shutdown, At
<1>9. ~ \E p \in Callers : Enqueuing(p) \/ Stopping(p) \/ Starting(p)
  BY SMTT(30), <1>1, CallerPcs
<1>10. ~ \E i \in Insts : Worker(i)
  BY <1>2 DEF Worker, Wake, Check, Claim, Mark, Run, Report, WorkerAt
<1>11. ~ Restoring
  BY <1>1 DEF Restoring, Retain, ListActive, RestoreNext, GiveUp, GiveUpTriggers, At
<1>12. ~ (BootFails \/ Exit \/ Kill)
  BY DEF BootFails, Exit, Kill, ProcessEnds, Crash
<1>13. Background => Tick
  BY DEF Background, ApplyRetention, OpenConnection
<1> QED
  BY <1>4, <1>5, <1>6, <1>7, <1>8, <1>9, <1>10, <1>11, <1>12, <1>13, DaemonCases, Zenon

(* Only the end of the process takes it down.                                  *)
LEMMA DownKept ==
  ASSUME DownOK, [DaemonNext]_vars
  PROVE  DownOK'
<1>1. ProcessEnds => DownOK'
  BY DEF ProcessEnds, DownOK, FreshProcess
<1>2. CASE ~up
  <2>1. Boot => DownOK'
    BY DEF Boot, MarkStaleRunningExecutions, DownOK
  <2>2. (Background /\ Tick) \/ UNCHANGED vars => DownOK'
    BY <1>2 DEF Background, Tick, vars, storeVars, memoryVars, faultVars, historyVars, DownOK,
                FreshProcess
  <2> QED
    BY <1>2, <2>1, <2>2, DownStep
<1>3. ASSUME up, up' = up
      PROVE  DownOK'
  BY <1>3 DEF DownOK
<1>4. UNCHANGED storeVars => up' = up
  BY DEF storeVars
<1>5. CASE up
  <2>1. ASSUME NEW p \in Callers, Enqueuing(p)
        PROVE  DownOK'
    BY <1>3, <1>4, <1>5, <2>1, EnqueuingStore DEF BeginCreate, CommitCreate, AbortCreate
  <2>2. ASSUME NEW p \in Callers, Stopping(p)
        PROVE  DownOK'
    BY <1>1, <1>3, <1>4, <1>5, <2>2, StoppingStore DEF CancelQueuedExecutions,
                                                   SetWorkflowStatus, DeleteWorkflow
  <2>3. ASSUME NEW p \in Callers, Starting(p)
        PROVE  DownOK'
    BY <1>3, <1>4, <1>5, <2>3, StartingStore DEF SetWorkflowStatus, UpsertWorkflow
  <2>4. ASSUME NEW i \in Insts, Worker(i)
        PROVE  DownOK'
    BY <1>3, <1>4, <1>5, <2>4, WorkerStore DEF ClaimNextQueueItem, CompleteExecution,
                                               FailCompletion
  <2>5. CASE Restoring
    BY <1>3, <1>4, <1>5, <2>5, RestoringStore DEF ApplyRetention, SetWorkflowStatus
  <2>6. CASE BootFails \/ Exit \/ Kill
    BY <1>1, <2>6 DEF BootFails, Exit, Kill
  <2>7. CASE Background \/ UNCHANGED vars
    BY <1>3, <1>4, <1>5, <2>7 DEF Background, ApplyRetention, OpenConnection, Tick, vars
  <2>8. ~Boot
    BY <1>5 DEF Boot, MarkStaleRunningExecutions
  <2>9. ASSUME NEW p, NEW w, NEW i, NEW op,
               \/ Fire(p, i, op) \/ Exec(p, w) \/ RequestStart(p, w) \/ Request(p, op, w)
               \/ Shutdown(p)
        PROVE  DownOK'
    BY <1>3, <1>4, <1>5, <2>9 DEF Fire, Exec, RequestStart, Request, Shutdown
  <2> QED
    BY <2>1, <2>2, <2>3, <2>4, <2>5, <2>6, <2>7, <2>8, <2>9, DaemonCases, Zenon
<1> QED
  BY <1>2, <1>5
-----------------------------------------------------------------------------
(* The invariant the other proofs start from.                                  *)
Control == DaemonTypeOK /\ CallsOK /\ InstancesOK /\ DownOK

(* The daemon changes the store only by operations of the store.               *)
LEMMA StoreStep ==
  ASSUME Control, [DaemonNext]_vars
  PROVE  [StoreNext]_storeVars
<1> USE DEF Control
<1>1. \A p \in Callers : PlaceOK(p, call[p]) /\ (call[p].pc \notin {"idle", "down"} => up)
  BY DEF CallsOK, DownOK, FreshProcess, Idle
<1>2. ASSUME NEW p \in Callers, Enqueuing(p)
      PROVE  [StoreNext]_storeVars
  <2>1. Count(p) => up
    BY <1>1 DEF Count, At
  <2>2. Create(p) => call[p].w \in Workflows
    BY <1>1 DEF Create, At, PlaceOK
  <2> QED
    BY <1>2, <2>1, <2>2, EnqueuingStore DEF StoreNext
<1>3. ProcessEnds => StoreNext
  BY DEF ProcessEnds, StoreNext
<1>4. ASSUME NEW p \in Callers, Stopping(p)
      PROVE  [StoreNext]_storeVars
  <2>1. Cancel(p) \/ StatusOff(p) \/ DeleteRow(p) => call[p].w \in Workflows
    BY <1>1 DEF Cancel, StatusOff, DeleteRow, At, PlaceOK, Finalizing, Handling
  <2> QED
    BY <1>3, <1>4, <2>1, StoppingStore DEF StoreNext
<1>5. ASSUME NEW p \in Callers, Starting(p)
      PROVE  [StoreNext]_storeVars
  <2>1. MarkStopped(p) \/ Upsert(p) \/ StatusOn(p) =>
          call[p].pc \in {"markStopped", "upsert", "statusOn"}
    BY DEF MarkStopped, Upsert, StatusOn, At
  <2>2. MarkStopped(p) \/ Upsert(p) \/ StatusOn(p) => call[p].w \in Workflows
    BY <1>1, <2>1 DEF PlaceOK, Handling, Activating
  <2> QED
    BY <1>5, <2>2, StartingStore DEF StoreNext
<1>6. ASSUME NEW i \in Insts, Worker(i)
      PROVE  [StoreNext]_storeVars
  <2>1. Claim(i) => inst[i].pc # "none"
    BY DEF Claim, WorkerAt
  <2>2. inst[i].pc # "none" => up /\ inst[i].w \in Workflows
    BY DEF DownOK, FreshProcess, NoInst, InstancesOK
  <2>3. inst[i].e \in held => inst[i].e \in Ids
    BY DEF DaemonTypeOK, TypeOK
  <2>4. RunOutcomes \subseteq Outcomes
    BY DaemonConstants DEF DaemonConstants
  <2>5. (\E s \in RunOutcomes : CompleteExecution(inst[i].e, s)) \/ FailCompletion(inst[i].e)
          => StoreNext
    BY <2>3, <2>4 DEF StoreNext, CompleteExecution, FailCompletion
  <2>6. Claim(i) /\ (\E e \in Ids : ClaimNextQueueItem(inst[i].w, e)) => StoreNext
    BY <2>1, <2>2 DEF StoreNext
  <2> QED
    BY <1>6, <2>5, <2>6, WorkerStore
<1>7. CASE Restoring
  <2>1. GiveUp => call[Main].w \in Workflows
    BY <1>1, DaemonConstants DEF GiveUp, At, PlaceOK, DaemonConstants
  <2> QED
    BY <1>7, <2>1, RestoringStore DEF StoreNext
<1>8. CASE Boot \/ BootFails \/ Exit \/ Kill
  BY <1>3, <1>8 DEF Boot, BootFails, Exit, Kill, StoreNext
<1>9. CASE Background \/ UNCHANGED vars
  BY <1>9 DEF Background, StoreNext, vars
<1>10. ASSUME NEW p, NEW w, NEW i, NEW op,
              \/ Fire(p, i, op) \/ Exec(p, w) \/ RequestStart(p, w) \/ Request(p, op, w)
              \/ Shutdown(p)
       PROVE  [StoreNext]_storeVars
  BY <1>10 DEF Fire, Exec, RequestStart, Request, Shutdown
<1> QED
  BY <1>2, <1>4, <1>5, <1>6, <1>7, <1>8, <1>9, <1>10, DaemonCases, Zenon

(* What a goroutine or a worker leaves in memory has the type of its fields.   *)
MemoryOK ==
  /\ inst \in [Insts -> ManagedWorkflow]
  /\ current \in [Workflows -> Insts \cup {0}]
  /\ nextInst \in 1..(MaxInst + 1)
  /\ waiters \subseteq Ids
  /\ mailbox \in [Ids -> Outcomes \cup {None}]
  /\ triggers \in [Workflows -> [id : Insts \cup {0, None}, active : BOOLEAN]]
  /\ shuttingDown \in BOOLEAN /\ serving \in BOOLEAN
  /\ faults \in 0..MaxFaults /\ failed \in BOOLEAN
  /\ overlapped \in BOOLEAN
  /\ stray \subseteq Ids

(* The writes to a managed workflow keep its type.                           *)
LEMMA FieldTypes ==
  ASSUME NEW m \in ManagedWorkflow
  PROVE  /\ [m EXCEPT !.accepting = FALSE] \in ManagedWorkflow
         /\ [m EXCEPT !.accepting = TRUE, !.token = TRUE, !.late = 0] \in ManagedWorkflow
         /\ [m EXCEPT !.closed = TRUE, !.watching = FALSE] \in ManagedWorkflow
         /\ [m EXCEPT !.pc = "wait"] \in ManagedWorkflow
  BY DEF ManagedWorkflow, WorkerPcs

(* So does the update of one of them.                                        *)
LEMMA InstType ==
  ASSUME inst \in [Insts -> ManagedWorkflow], NEW i \in Insts, NEW m \in ManagedWorkflow,
         inst' = [inst EXCEPT ![i] = m]
  PROVE  inst' \in [Insts -> ManagedWorkflow]
  OBVIOUS

(* So does a notify.                                                         *)
LEMMA NotifyType ==
  ASSUME inst \in [Insts -> ManagedWorkflow], NEW i \in Insts, Notify(i)
  PROVE  inst' \in [Insts -> ManagedWorkflow]
<1> DEFINE b == inst[i].pc # "exited"
           m == [inst[i] EXCEPT !.token = b]
<1>1. inst[i] \in ManagedWorkflow /\ b \in BOOLEAN
  OBVIOUS
<1> HIDE DEF b
<1>2. m \in ManagedWorkflow
  BY <1>1 DEF ManagedWorkflow
<1>3. inst' = [inst EXCEPT ![i] = m]
  BY DEF Notify, b
<1> QED
  BY <1>2, <1>3

(* SetTriggerRuntime keeps the type of the trigger rows.                     *)
LEMMA TriggerType ==
  ASSUME MemoryOK, NEW w, NEW id, NEW b \in BOOLEAN, SetTrigger(w, id, b)
  PROVE  triggers' \in [Workflows -> [id : Insts \cup {0, None}, active : BOOLEAN]]
  BY DEF MemoryOK, SetTrigger

(* A store error keeps the types of the bound and of its history.            *)
LEMMA FaultType ==
  ASSUME MemoryOK, Fault
  PROVE  faults' \in 0..MaxFaults /\ failed' \in BOOLEAN
  BY DaemonConstants DEF MemoryOK, Fault, DaemonConstants

(* publishWaiter keeps the types of the waiters and their channels.          *)
LEMMA PublishType ==
  ASSUME MemoryOK, NEW es, NEW s \in Outcomes \cup {None}, Publish(es, s)
  PROVE  mailbox' \in [Ids -> Outcomes \cup {None}] /\ waiters' \subseteq Ids
  BY DEF MemoryOK, Publish

(* The steps of enqueueExecution and ExecWorkflow keep the types of the      *)
(* memory.                                                                   *)
LEMMA EnqueuingMemory ==
  ASSUME Control, NEW p \in Callers, Enqueuing(p)
  PROVE  MemoryOK'
<1> USE DEF At, MemoryOK, memoryVars, faultVars, historyVars
<1>1. call[p] \in Locals /\ PlaceOK(p, call[p]) /\ MemoryOK
  BY DEF Control, CallsOK, DaemonTypeOK
<1>2. CASE Accept(p)
  BY <1>1, <1>2 DEF Accept
<1>3. CASE Count(p)
  BY <1>1, <1>3, FaultType DEF Count
<1>4. CASE Create(p)
  <2>1. CommitCreate(p, call[p].w) => nextId \in Ids
    BY StoreConstants DEF CommitCreate, Control, DaemonTypeOK, TypeOK, Ids, StoreConstants
  <2> QED
    BY <1>1, <1>4, <2>1, FaultType DEF Create
<1>5. CASE NotifyWorker(p)
  <2>1. call[p].i \in Insts
    BY <1>1, <1>5 DEF NotifyWorker, PlaceOK
  <2> QED
    BY <1>1, <1>5, <2>1, NotifyType DEF NotifyWorker
<1>6. CASE Rearm(p)
  BY <1>1, <1>6, FaultType, TriggerType DEF Rearm
<1>7. CASE Register(p)
  <2>1. call[p].e \in Ids /\ call[p].i \in Insts
    BY <1>1, <1>7 DEF Register, PlaceOK
  <2> QED
    BY <1>1, <1>7, <2>1, NotifyType DEF Register
<1>8. CASE Await(p)
  BY <1>1, <1>8 DEF Await
<1> QED
  BY <1>2, <1>3, <1>4, <1>5, <1>6, <1>7, <1>8 DEF Enqueuing

(* The end of the process keeps the types of the memory.                     *)
LEMMA EndMemory ==
  ASSUME MemoryOK, ProcessEnds, faults' \in 0..MaxFaults
  PROVE  MemoryOK'
<1>1. NoInst \in ManagedWorkflow
  BY DEF NoInst, ManagedWorkflow, WorkerPcs
<1>2. triggers' \in [Workflows -> [id : Insts \cup {0, None}, active : BOOLEAN]]
  <2>1. \A w \in Workflows : triggers[w] \in [id : Insts \cup {0, None}, active : BOOLEAN]
    BY DEF MemoryOK
  <2>2. NoRow \in [id : Insts \cup {0, None}, active : BOOLEAN]
    BY DEF NoRow
  <2>3. \A w \in Workflows : [triggers[w] EXCEPT !.id = 0]
                                 \in [id : Insts \cup {0, None}, active : BOOLEAN]
    BY <2>1
  <2> HIDE DEF NoRow
  <2> QED
    BY <2>2, <2>3 DEF ProcessEnds
<1>3. 1 \in 1..(MaxInst + 1)
  BY DaemonConstants DEF DaemonConstants
<1> QED
  BY <1>1, <1>2, <1>3 DEF ProcessEnds, MemoryOK

(* The steps of stop, restart, delete and shutdown keep them.                *)
LEMMA StoppingMemory ==
  ASSUME Control, NEW p \in Callers, Stopping(p)
  PROVE  MemoryOK'
<1> USE DEF At, MemoryOK, memoryVars, faultVars, historyVars
<1>1. call[p] \in Locals /\ PlaceOK(p, call[p]) /\ MemoryOK
  BY DEF Control, CallsOK, DaemonTypeOK
<1>2. CASE Close(p)
  <2> DEFINE i == current[call[p].w]
             m == [inst[i] EXCEPT !.accepting = FALSE]
  <2>1. CASE i = 0
    BY <1>1, <1>2, <2>1 DEF Close
  <2>2. CASE i # 0
    <3>1. call[p].w \in Workflows
      BY <1>1, <1>2 DEF Close, PlaceOK, Handling
    <3>2. i \in Insts
      BY SMTT(30), <1>1, <2>2, <3>1
    <3>3. m \in ManagedWorkflow
      BY <1>1, <3>2, FieldTypes
    <3>4. inst' = [inst EXCEPT ![i] = m]
      BY <1>2, <2>2 DEF Close
    <3>5. inst' \in [Insts -> ManagedWorkflow]
      BY <1>1, <3>2, <3>3, <3>4, InstType
    <3> QED
      BY <1>1, <1>2, <3>5 DEF Close
  <2> QED
    BY <2>1, <2>2
<1>3. CASE Drain(p)
  BY <1>1, <1>3 DEF Drain
<1>4. CASE Reopen(p)
  <2> DEFINE m == [inst[call[p].i] EXCEPT !.accepting = TRUE, !.token = TRUE, !.late = 0]
  <2>1. call[p].i \in Insts
    BY SMTT(30), <1>1, <1>4 DEF Reopen, PlaceOK
  <2>2. m \in ManagedWorkflow
    BY <1>1, <2>1, FieldTypes
  <2>3. inst' = [inst EXCEPT ![call[p].i] = m]
    BY <1>4 DEF Reopen
  <2>4. inst' \in [Insts -> ManagedWorkflow]
    BY <1>1, <2>1, <2>2, <2>3, InstType
  <2> QED
    BY <1>1, <1>4, <2>4 DEF Reopen
<1>5. CASE Cancel(p)
  BY <1>1, <1>5, FaultType DEF Cancel
<1>6. CASE Halt(p)
  <2>1. CASE ProcessEnds /\ UNCHANGED faults
    BY <1>1, <2>1, EndMemory
  <2>2. SUFFICES ASSUME ~(ProcessEnds /\ UNCHANGED faults) PROVE MemoryOK'
    BY <2>1
  <2> DEFINE m == [inst[call[p].i] EXCEPT !.closed = TRUE, !.watching = FALSE]
  <2>3. call[p].i \in Insts
    BY SMTT(30), <1>1, <1>6 DEF Halt, PlaceOK, Finalizing
  <2>4. m \in ManagedWorkflow
    BY <1>1, <2>3, FieldTypes
  <2>5. inst' = [inst EXCEPT ![call[p].i] = m]
    BY <1>6, <2>2 DEF Halt
  <2>6. inst' \in [Insts -> ManagedWorkflow]
    BY <1>1, <2>3, <2>4, <2>5, InstType
  <2>7. "error" \in Outcomes \cup {None}
    BY DEF Outcomes
  <2> HIDE DEF m
  <2> QED
    BY <1>1, <1>6, <2>2, <2>6, <2>7, PublishType DEF Halt
<1>7. CASE TriggersOff(p)
  BY <1>1, <1>7, FaultType, TriggerType DEF TriggersOff
<1>8. CASE StatusOff(p)
  BY <1>1, <1>8, FaultType DEF StatusOff
<1>9. CASE Unmap(p)
  BY <1>1, <1>9 DEF Unmap
<1>10. CASE DeleteRow(p)
  <2>1. NoRow \in [id : Insts \cup {0, None}, active : BOOLEAN]
    BY DEF NoRow
  <2> QED
    BY <1>1, <1>10, <2>1, FaultType DEF DeleteRow
<1>11. CASE DrainAll(p)
  BY <1>1, <1>11 DEF DrainAll
<1>12. CASE ReopenAll(p)
  <2>1. \A i \in Insts : [inst[i] EXCEPT !.accepting = TRUE, !.token = TRUE, !.late = 0]
                            \in ManagedWorkflow
    BY <1>1, FieldTypes
  <2> QED
    BY <1>1, <1>12, <2>1 DEF ReopenAll
<1>13. CASE Finalize(p)
  BY <1>1, <1>13 DEF Finalize
<1>14. CASE Disconnect(p)
  BY <1>1, <1>14 DEF Disconnect
<1> QED
  BY <1>2, <1>3, <1>4, <1>5, <1>6, <1>7, <1>8, <1>9, <1>10, <1>11, <1>12, <1>13, <1>14
     DEF Stopping

(* The steps of start and of activateWorkflow keep them.                     *)
LEMMA StartingMemory ==
  ASSUME Control, NEW p \in Callers, Starting(p)
  PROVE  MemoryOK'
<1> USE DEF At, MemoryOK, memoryVars, faultVars, historyVars
<1>1. call[p] \in Locals /\ PlaceOK(p, call[p]) /\ MemoryOK
  BY DEF Control, CallsOK, DaemonTypeOK
<1>2. CASE Load(p)
  BY <1>1, <1>2 DEF Load
<1>3. CASE MarkStopped(p)
  BY <1>1, <1>3, FaultType DEF MarkStopped
<1>4. CASE Upsert(p)
  BY <1>1, <1>4, FaultType DEF Upsert
<1>5. CASE Replace(p)
  <2>1. CASE UNCHANGED <<triggers, nextInst>>
    BY <1>1, <1>5, <2>1, FaultType DEF Replace
  <2>2. CASE /\ nextInst <= MaxInst /\ nextInst' = nextInst + 1 /\ UNCHANGED <<faults, failed>>
             /\ triggers' = [triggers EXCEPT ![call[p].w] = [id |-> nextInst, active |-> FALSE]]
    <3>1. nextInst \in Insts /\ nextInst' \in 1..(MaxInst + 1)
      BY <1>1, <2>2, DaemonConstants DEF Insts, DaemonConstants
    <3> QED
      BY <1>1, <1>5, <2>2, <3>1 DEF Replace
  <2> QED
    BY <1>5, <2>1, <2>2 DEF Replace
<1>6. CASE Arm(p)
  <2>1. [NoInst EXCEPT !.w = call[p].w, !.trig = call[p].trig, !.accepting = TRUE,
                       !.watching = call[p].trig # None] \in ManagedWorkflow
    BY <1>1 DEF NoInst, ManagedWorkflow, Locals, WorkerPcs
  <2> QED
    BY <1>1, <1>6, <2>1 DEF Arm
<1>7. CASE TriggersOn(p)
  BY <1>1, <1>7, FaultType, TriggerType DEF TriggersOn
<1>8. CASE Spawn(p)
  <2>1. call[p].i \in Insts
    BY <1>1, <1>8 DEF Spawn, PlaceOK, Activating, Building
  <2>2. [inst[call[p].i] EXCEPT !.pc = "wait"] \in ManagedWorkflow
    BY <1>1, <2>1, FieldTypes
  <2> QED
    BY <1>1, <1>8, <2>1, <2>2 DEF Spawn
<1>9. CASE StatusOn(p)
  BY <1>1, <1>9, FaultType DEF StatusOn
<1>10. CASE WakeUp(p)
  <2>1. call[p].i \in Insts
    BY <1>1, <1>10 DEF WakeUp, PlaceOK, Activating
  <2> QED
    BY <1>1, <1>10, <2>1, NotifyType DEF WakeUp
<1> QED
  BY <1>2, <1>3, <1>4, <1>5, <1>6, <1>7, <1>8, <1>9, <1>10 DEF Starting

(* The steps of a worker keep them.                                          *)
LEMMA WorkerMemory ==
  ASSUME Control, NEW i \in Insts, Worker(i)
  PROVE  MemoryOK'
<1>1. MemoryOK /\ inst[i] \in ManagedWorkflow
  BY DEF Control, DaemonTypeOK, MemoryOK
<1>2. inst' \in [Insts -> ManagedWorkflow]
  BY <1>1, WorkerInstances DEF Control, MemoryOK
<1>3. CASE Wake(i) \/ Check(i) \/ Mark(i)
  BY <1>1, <1>2, <1>3 DEF Wake, Check, Mark, MemoryOK, faultVars, historyVars
<1>4. CASE Claim(i) \/ Run(i)
  BY <1>1, <1>2, <1>4, FaultType DEF Claim, Run, MemoryOK, faultVars, historyVars
<1>5. CASE Report(i)
  <2>1. inst[i].out \in Outcomes \cup {None}
    BY <1>1 DEF ManagedWorkflow
  <2> QED
    BY <1>1, <1>2, <1>5, <2>1, PublishType DEF Report, MemoryOK, faultVars, historyVars
<1> QED
  BY <1>3, <1>4, <1>5 DEF Worker

(* The steps of the restore keep them.                                       *)
LEMMA RestoringMemory ==
  ASSUME Control, Restoring
  PROVE  MemoryOK'
<1> USE DEF MemoryOK, memoryVars, faultVars, historyVars
<1>1. MemoryOK
  BY DEF Control, DaemonTypeOK
<1>2. CASE Retain \/ ListActive
  BY <1>1, <1>2 DEF Retain, ListActive
<1>3. CASE RestoreNext
  <2>1. nextInst <= MaxInst => nextInst + 1 \in 1..(MaxInst + 1)
    BY <1>1, DaemonConstants DEF DaemonConstants
  <2>2. nextInst' \in 1..(MaxInst + 1)
    BY <1>1, <1>3, <2>1 DEF RestoreNext
  <2> QED
    BY <1>1, <1>3, <2>2 DEF RestoreNext
<1>4. CASE GiveUp
  BY <1>1, <1>4, FaultType DEF GiveUp
<1>5. CASE GiveUpTriggers
  BY <1>1, <1>5, FaultType, TriggerType DEF GiveUpTriggers
<1> QED
  BY <1>2, <1>3, <1>4, <1>5 DEF Restoring

(* Every step keeps the types.                                                 *)
LEMMA TypeStep ==
  ASSUME Control, [DaemonNext]_vars
  PROVE  DaemonTypeOK'
<1>1. TypeOK'
  BY StoreStep, StoreTypeStep DEF Control, DaemonTypeOK
<1>2. CallsOK'
  BY CallsKept DEF Control
<1>3. SUFFICES MemoryOK'
  BY <1>1, <1>2 DEF DaemonTypeOK, CallsOK, MemoryOK
<1>4. MemoryOK
  BY DEF Control, DaemonTypeOK, MemoryOK
<1>5. ASSUME UNCHANGED <<memoryVars, triggers, faultVars, historyVars>>
      PROVE  MemoryOK'
  BY <1>4, <1>5 DEF MemoryOK, memoryVars, faultVars, historyVars
<1>6. NoteOverlap => overlapped' \in BOOLEAN
  BY <1>4 DEF NoteOverlap, MemoryOK
<1>7. ASSUME NEW p, NEW i, NEW w, NEW op, Fire(p, i, op) \/ Exec(p, w)
      PROVE  MemoryOK'
  BY <1>5, <1>7 DEF Fire, Exec
<1>8. ASSUME NEW p, NEW w, NEW op, RequestStart(p, w) \/ Request(p, op, w)
      PROVE  MemoryOK'
  BY <1>4, <1>6, <1>8 DEF RequestStart, Request, MemoryOK, memoryVars, faultVars
<1>9. ASSUME NEW p, Shutdown(p)
      PROVE  MemoryOK'
  <2>1. \A i \in Insts : /\ inst[i] \in ManagedWorkflow
                         /\ [inst[i] EXCEPT !.accepting = FALSE] \in ManagedWorkflow
    BY <1>4, FieldTypes DEF MemoryOK
  <2>2. inst' \in [Insts -> ManagedWorkflow]
    BY <1>9, <2>1 DEF Shutdown
  <2> QED
    BY SMTT(30), <1>4, <1>6, <1>9, <2>2 DEF Shutdown, MemoryOK, faultVars
<1>10. CASE BootFails \/ Exit \/ Kill
  <2>1. faults \in 0..MaxFaults /\ (faults > 0 => faults - 1 \in 0..MaxFaults)
    BY <1>4, DaemonConstants DEF MemoryOK, DaemonConstants
  <2> QED
    BY <1>4, <1>10, <2>1, EndMemory DEF BootFails, Exit, Kill
<1>11. CASE Boot \/ Background
  BY <1>5, <1>11 DEF Boot, Background
<1>12. CASE UNCHANGED vars
  BY <1>5, <1>12 DEF vars
<1> QED
  BY <1>7, <1>8, <1>9, <1>10, <1>11, <1>12, EnqueuingMemory, StoppingMemory, StartingMemory,
     WorkerMemory, RestoringMemory, DaemonCases, Zenon

(* Control holds before the first boot.                                      *)
LEMMA ControlInit == DaemonInit => Control
<1> SUFFICES ASSUME DaemonInit PROVE Control
  OBVIOUS
<1>1. TypeOK
  BY FirstId DEF DaemonInit, StoreInit, TypeOK, Statuses
<1>2. CallsOK
  BY IdleLocals DEF DaemonInit, CallsOK
<1>3. /\ NoInst \in ManagedWorkflow /\ NoRow \in [id : Insts \cup {0, None}, active : BOOLEAN]
      /\ 1 \in 1..(MaxInst + 1) /\ MaxFaults \in 0..MaxFaults
  BY DaemonConstants DEF NoInst, NoRow, ManagedWorkflow, WorkerPcs, DaemonConstants
<1>4. MemoryOK
  BY <1>3 DEF DaemonInit, MemoryOK
<1>5. DownOK
  BY DEF DaemonInit, DownOK, FreshProcess
<1>6. \A p \in Callers : call[p].pc \in {"idle", "down"} /\ call[p].op = "none"
  BY DEF DaemonInit, Idle
<1>7. \A i \in Insts : inst[i].pc = "none" /\ ~inst[i].watching
  BY DEF DaemonInit, NoInst
<1>8. InstancesOK
  BY <1>6, <1>7 DEF DaemonInit, InstancesOK, HasInstance, Owning, Building, Finalizing
<1> QED
  BY <1>1, <1>2, <1>4, <1>5, <1>8 DEF Control, DaemonTypeOK, CallsOK, MemoryOK

(* Control is inductive.                                                     *)
LEMMA ControlStep == Control /\ [DaemonNext]_vars => Control'
  BY TypeStep, CallsKept, InstancesStep, DownKept DEF Control

(* Control is an invariant of the daemon.                                    *)
LEMMA ControlInvariant == DaemonSpec => []Control
  BY ControlInit, ControlStep, PTL DEF DaemonSpec

(* Every variable of the daemon keeps its type.                                *)
THEOREM DaemonTypeCorrect == DaemonSpec => []DaemonTypeOK
<1>1. Control => DaemonTypeOK
  BY DEF Control
<1> QED
  BY <1>1, ControlInvariant, PTL

(* lumnd drives its database only through the operations of the store, one at  *)
(* a time, whatever the goroutines, the faults and the restarts.               *)
THEOREM DaemonImplementsStore == DaemonSpec => StoreSpec
<1>1. DaemonInit => StoreInit
  BY DEF DaemonInit
<1>2. Control /\ [DaemonNext]_vars => [StoreNext]_storeVars
  BY StoreStep
<1> QED
  BY <1>1, <1>2, ControlInvariant, PTL DEF DaemonSpec, StoreSpec
=============================================================================
