-------------------------- MODULE Triggers_proofs --------------------------
(***************************************************************************)
(* The invariants of Triggers, for every number of workflows, instances,   *)
(* keys, files, events and kills, every list of triggers and every bound.  *)
(*                                                                         *)
(* The inductive invariant Inv is a conjunction of parts that are proved   *)
(* one after the other, each from those before it:                         *)
(*   Lives    a workflow has one instance at most that is not gone         *)
(*   Stored   the rows in the database are those of that instance          *)
(*   Mapped   what d.workflows has did start all its triggers              *)
(*   Timely   the types of the clock and of the goroutines                 *)
(*   Ticking  whose row a goroutine of a scheduler writes                  *)
(*   Routed   the routes are the webhooks started, for RoutesMatch         *)
(*   Watching the timers of a watcher and its two maps, for EventIsKept    *)
(*            and ArmedIsStoppable                                         *)
(*   Kept     the row of a scheduler and its goroutine, for RowIsNextRun   *)
(*   Once     a goroutine waits for a time that has not been run, later    *)
(*            than those others are about to run, for OneRunPerTime        *)
(*   Unseen   why that holds of a goroutine that starts: the runs of a     *)
(*            restored workflow are older than its boot, and the row of a  *)
(*            new one has no next run                                      *)
(***************************************************************************)
EXTENDS Triggers, TLAPS


(* The next run of a plan is later than the time it is computed at.           *)
LEMMA NextRunIsLater ==
  ASSUME NEW plan, NEW t \in Nat
  PROVE  NextRun(plan, t) \in Nat /\ NextRun(plan, t) > t
  <1>1. Interval \in Nat /\ Interval > 0
    BY TriggersConstants
  <1>2. t \div Interval \in Nat
    BY <1>1
  <1>3. (t \div Interval + 1) * Interval > t
    BY <1>1
  <1>4. (t \div Interval + 1) * Interval \in Nat
    BY <1>1, <1>2
  <1> QED BY <1>1, <1>3, <1>4 DEF NextRun

Halted == {"undone", "halted", "rowsOff", "statusOff", "gone"}
Absent == {"none", "gone"}
Times == Nat \cup {None}
Instance ==
  [w : Workflows \cup {None}, list : TriggerLists, n : Nat, phase : Phases,
   row : Nat, next : Times, restoring : BOOLEAN, found : BOOLEAN]
Rows == [id : Nat, list : TriggerLists, on : Seq(BOOLEAN), next : Seq(Times)]

(* The calls: a workflow has one instance at most that is not gone, an         *)
(* instance is made once, and is told to stop on its way out.                  *)
Lives ==
  /\ nextInst \in 1..(MaxInst + 1)
  /\ inst \in [Insts -> Instance]
  /\ \A i \in Insts :
       /\ inst[i].n <= Len(inst[i].list)
       /\ inst[i].w = None <=> inst[i].phase \in Absent
       /\ i >= nextInst => inst[i].phase = "none"
       /\ i \in stopped <=> inst[i].phase \in Halted
  /\ \A i, j \in Insts : inst[i].w = inst[j].w /\ inst[i].w # None => i = j
  /\ stopped \subseteq Insts

(* The rows of a workflow are those of its instance, if it has one; what the  *)
(* boot restores has rows and no instance.                                     *)
Stored ==
  /\ rows \in [Workflows -> Rows]
  /\ \A w \in Workflows :
       /\ Len(rows[w].on) = Len(rows[w].list) /\ Len(rows[w].next) = Len(rows[w].list)
       /\ rows[w].id < nextInst
       /\ w \in active => rows[w].id # 0
       /\ w \in boot => ~Busy(w)
  /\ \A i \in Insts : inst[i].w # None =>
       rows[inst[i].w].id = inst[i].row /\ rows[inst[i].w].list = inst[i].list /\ inst[i].row # 0
  /\ active \subseteq Workflows /\ boot \subseteq active

(* The instance of d.workflows has started all its triggers.                   *)
Mapped ==
  /\ current \in [Workflows -> 0..MaxInst]
  /\ \A w \in Workflows : current[w] # 0 =>
       /\ inst[current[w]].w = w
       /\ inst[current[w]].phase \notin {"starting", "writing", "refused", "undone"}

(* The list of an instance that is not there.                               *)
LEMMA EmptyList == << >> \in TriggerLists
  BY DEF TriggerLists, AtMostOne

(* What a list of triggers is.                                              *)
LEMMA ListTypes ==
  ASSUME NEW list \in TriggerLists
  PROVE  /\ list \in Seq(Trigger) /\ Len(list) \in Nat
         /\ \A n \in 1..Len(list) : list[n] \in Trigger
  <1>1. list \in Seq(Trigger)
    BY DEF TriggerLists
  <1> QED BY <1>1

(* A trigger has the field of its kind.                                     *)
LEMMA PlanOfTrigger ==
  ASSUME NEW trigger \in Trigger
  PROVE  /\ trigger.kind = "scheduler" => trigger.plan \in Plans
         /\ trigger.kind = "webhook" => trigger.key \in Keys
         /\ trigger.kind = "file_watcher" => trigger.event \in EventKinds \cup {"any"}
  <1>1. CASE trigger \in [kind : {"webhook"}, key : Keys]
    BY <1>1
  <1>2. CASE trigger \in [kind : {"scheduler"}, plan : Plans]
    BY <1>2
  <1>3. CASE trigger \in [kind : {"file_watcher"}, event : EventKinds \cup {"any"}]
    BY <1>3
  <1> QED BY <1>1, <1>2, <1>3 DEF Trigger

(* What an action that moves instance i on does to the instances.              *)
Became(i, n, next, phase) ==
  /\ inst' \in [Insts -> Instance]
  /\ \A j \in Insts : j # i => inst'[j] = inst[j]
  /\ inst'[i].w = inst[i].w /\ inst'[i].list = inst[i].list
  /\ inst'[i].row = inst[i].row /\ inst'[i].restoring = inst[i].restoring
  /\ inst'[i].n = n /\ inst'[i].next = next /\ inst'[i].phase = phase

(* StepTo changes the phase of its instance.                                *)
LEMMA StepToMoves ==
  ASSUME Lives, NEW i \in Insts, NEW phase \in Phases, StepTo(i, phase)
  PROVE  Became(i, inst[i].n, inst[i].next, phase)
  BY DEF Lives, StepTo, Became, Instance

(* Started counts one more trigger and keeps its next run.                  *)
LEMMA StartedMoves ==
  ASSUME Lives, NEW i \in Insts, NEW n \in Nat, NEW next \in Times, Started(i, n, next)
  PROVE  Became(i, n, next, "writing")
  <1> DEFINE a == [inst EXCEPT ![i].n = n]
             b == [a EXCEPT ![i].next = next]
  <1>1. /\ a \in [Insts -> Instance] /\ \A j \in Insts : j # i => a[j] = inst[j]
        /\ a[i] = [inst[i] EXCEPT !.n = n]
    BY ZenonT(40) DEF Lives, Instance
  <1>2. inst' = [b EXCEPT ![i].phase = "writing"] /\ "writing" \in Phases
    BY DEF Started, Phases
  <1> HIDE DEF a
  <1>3. /\ b \in [Insts -> Instance] /\ \A j \in Insts : j # i => b[j] = inst[j]
        /\ b[i] = [a[i] EXCEPT !.next = next]
    BY ZenonT(40), <1>1 DEF Instance
  <1> HIDE DEF b
  <1>4. /\ inst' \in [Insts -> Instance] /\ \A j \in Insts : j # i => inst'[j] = inst[j]
        /\ inst'[i] = [b[i] EXCEPT !.phase = "writing"]
    BY ZenonT(40), <1>2, <1>3 DEF Instance
  <1> QED BY <1>1, <1>3, <1>4 DEF Became, Instance, Lives

(* WriteRow forgets the next run it has written.                            *)
LEMMA WrittenMoves ==
  ASSUME Lives, NEW i \in Insts, inst' = [inst EXCEPT ![i].phase = "starting", ![i].next = None]
  PROVE  Became(i, inst[i].n, None, "starting")
  BY ZenonT(40) DEF Lives, Became, Instance, Phases, Times

(* An instance that goes from one phase to another keeps Lives.             *)
LEMMA MoveLives ==
  ASSUME Lives, NEW i \in Insts, NEW n, NEW next, NEW phase, Became(i, n, next, phase),
         n <= Len(inst[i].list), nextInst' = nextInst,
         inst[i].phase \notin Absent, phase \notin Absent,
         \/ stopped' = stopped /\ (phase \in Halted <=> inst[i].phase \in Halted)
         \/ stopped' = stopped \cup {i} /\ phase \in Halted
  PROVE  Lives'
  <1>1. \A j \in Insts : inst'[j].w = inst[j].w
    BY DEF Became
  <1>2. \A j \in Insts :
          /\ inst'[j].n <= Len(inst'[j].list)
          /\ inst'[j].w = None <=> inst'[j].phase \in Absent
          /\ j >= nextInst' => inst'[j].phase = "none"
          /\ j \in stopped' <=> inst'[j].phase \in Halted
    BY <1>1 DEF Lives, Became, Absent
  <1> QED BY <1>1, <1>2 DEF Lives, Became

(* An instance told to stop may go.                                         *)
LEMMA GoneLives ==
  ASSUME Lives, NEW i \in Insts, inst' = [inst EXCEPT ![i] = Gone],
         nextInst' = nextInst, stopped' = stopped,
         inst[i].phase \in Halted \ Absent
  PROVE  Lives' /\ inst'[i] = Gone /\ \A j \in Insts : j # i => inst'[j] = inst[j]
  <1>1. Gone \in Instance /\ Gone.w = None /\ Gone.phase = "gone" /\ Gone.n = 0 /\ Gone.list = << >>
    BY EmptyList DEF Gone, NoInst, Instance, Phases, Times
  <1>2. inst'[i] = Gone /\ \A j \in Insts : j # i => inst'[j] = inst[j]
    BY DEF Lives
  <1>3. inst' \in [Insts -> Instance]
    BY <1>1 DEF Lives
  <1>4. \A j \in Insts :
          /\ inst'[j].n <= Len(inst'[j].list)
          /\ inst'[j].w = None <=> inst'[j].phase \in Absent
          /\ j >= nextInst' => inst'[j].phase = "none"
          /\ j \in stopped' <=> inst'[j].phase \in Halted
    <2> SUFFICES ASSUME NEW j \in Insts
                 PROVE  /\ inst'[j].n <= Len(inst'[j].list)
                        /\ inst'[j].w = None <=> inst'[j].phase \in Absent
                        /\ j >= nextInst' => inst'[j].phase = "none"
                        /\ j \in stopped' <=> inst'[j].phase \in Halted
      OBVIOUS
    <2>1. CASE j = i
      BY <1>1, <1>2, <2>1 DEF Lives, Halted, Absent
    <2>2. CASE j # i
      BY <1>2, <2>2 DEF Lives
    <2> QED BY <2>1, <2>2
  <1>5. \A j, k \in Insts : inst'[j].w = inst'[k].w /\ inst'[j].w # None => j = k
    BY <1>1, <1>2 DEF Lives
  <1> QED BY <1>2, <1>3, <1>4, <1>5 DEF Lives

(* An instance that begins.                                                    *)
Begins(w, list, row, restoring) ==
  /\ nextInst <= MaxInst /\ nextInst' = nextInst + 1 /\ stopped' = stopped
  /\ inst' \in [Insts -> Instance]
  /\ \A j \in Insts : j # nextInst => inst'[j] = inst[j]
  /\ inst'[nextInst].w = w /\ inst'[nextInst].list = list /\ inst'[nextInst].n = 0
  /\ inst'[nextInst].row = row /\ inst'[nextInst].phase = "starting"
  /\ inst'[nextInst].restoring = restoring

(* A workflow without an instance may get one.                              *)
LEMMA BeginLives ==
  ASSUME Lives, NEW w \in Workflows, ~Busy(w), NEW list \in TriggerLists, NEW row, NEW restoring,
         Begins(w, list, row, restoring)
  PROVE  Lives' /\ nextInst \in Insts
  <1>1. nextInst \in Insts /\ nextInst' \in 1..(MaxInst + 1) /\ Len(list) \in Nat
    BY ListTypes, TriggersConstants DEF Lives, Begins, Insts
  <1>2. w # None
    BY TriggersConstants
  <1>3. \A j \in Insts :
          /\ inst'[j].n <= Len(inst'[j].list)
          /\ inst'[j].w = None <=> inst'[j].phase \in Absent
          /\ j >= nextInst' => inst'[j].phase = "none"
          /\ j \in stopped' <=> inst'[j].phase \in Halted
    <2> SUFFICES ASSUME NEW j \in Insts
                 PROVE  /\ inst'[j].n <= Len(inst'[j].list)
                        /\ inst'[j].w = None <=> inst'[j].phase \in Absent
                        /\ j >= nextInst' => inst'[j].phase = "none"
                        /\ j \in stopped' <=> inst'[j].phase \in Halted
      OBVIOUS
    <2>1. CASE j = nextInst
      BY <1>1, <1>2, <2>1 DEF Lives, Begins, Absent, Halted
    <2>2. CASE j # nextInst
      BY <1>1, <2>2 DEF Lives, Begins, Insts
    <2> QED BY <2>1, <2>2
  <1>4. \A j, k \in Insts : inst'[j].w = inst'[k].w /\ inst'[j].w # None => j = k
    BY <1>1 DEF Lives, Begins, Busy
  <1> QED BY <1>1, <1>3, <1>4 DEF Lives, Begins

(* StartWorkflow makes a new instance with new rows.                        *)
LEMMA StartBegins ==
  ASSUME Lives, NEW w \in Workflows, NEW list \in Lists[w], Start(w, list)
  PROVE  /\ list \in TriggerLists /\ ~Busy(w) /\ w \notin boot
         /\ Begins(w, list, nextInst, FALSE) /\ nextInst \in Nat \ {0}
  <1>1. list \in TriggerLists /\ nextInst \in Nat \ {0} /\ nextInst \in Insts
    BY ListsAreBounded, TriggersConstants DEF Lives, Start, Insts
  <1>2. \A b \in BOOLEAN : [NoInst EXCEPT !.w = w, !.list = list, !.phase = "starting",
                                           !.row = nextInst, !.found = b] \in Instance
    BY <1>1 DEF NoInst, Instance, Phases, Times
  <1>3. PICK b \in BOOLEAN : inst' = [inst EXCEPT ![nextInst] =
          [NoInst EXCEPT !.w = w, !.list = list, !.phase = "starting", !.row = nextInst, !.found = b]]
    BY DEF Start
  <1>4. inst' \in [Insts -> Instance] /\ \A j \in Insts : j # nextInst => inst'[j] = inst[j]
    BY <1>1, <1>2, <1>3 DEF Lives
  <1>5. inst'[nextInst] = [NoInst EXCEPT !.w = w, !.list = list, !.phase = "starting",
                                          !.row = nextInst, !.found = b]
    BY <1>1, <1>3 DEF Lives
  <1> QED BY <1>1, <1>4, <1>5 DEF Start, Begins, NoInst

(* The boot makes a new instance with the rows that are there.              *)
LEMMA RestoreBegins ==
  ASSUME Lives, Stored, NEW w \in Workflows, Restore(w)
  PROVE  /\ ~Busy(w) /\ w \in boot /\ rows[w].list \in TriggerLists
         /\ Begins(w, rows[w].list, rows[w].id, TRUE) /\ rows[w].id \in Nat \ {0}
  <1>1. nextInst \in Insts
    BY TriggersConstants DEF Lives, Restore, Insts
  <1>2. /\ rows[w].list \in TriggerLists /\ rows[w].id \in Nat \ {0} /\ ~Busy(w) /\ w \in boot
    BY DEF Stored, Restore, Rows
  <1> DEFINE new == [NoInst EXCEPT !.w = w, !.list = rows[w].list, !.phase = "starting",
                                   !.row = rows[w].id, !.restoring = TRUE, !.found = TRUE]
  <1>3. /\ new \in Instance /\ new.w = w /\ new.list = rows[w].list /\ new.n = 0
        /\ new.row = rows[w].id /\ new.phase = "starting" /\ new.restoring = TRUE
    BY <1>2 DEF NoInst, Instance, Phases, Times
  <1>4. inst' = [inst EXCEPT ![nextInst] = new]
    BY DEF Restore
  <1> HIDE DEF new
  <1>5. inst' \in [Insts -> Instance] /\ inst'[nextInst] = new
        /\ \A j \in Insts : j # nextInst => inst'[j] = inst[j]
    BY <1>1, <1>3, <1>4 DEF Lives
  <1> QED BY <1>2, <1>3, <1>5 DEF Restore, Begins

(* Changing one element of a sequence.                                      *)
LEMMA ExceptOfSeq ==
  ASSUME NEW S, NEW s \in Seq(S), NEW n, NEW x \in S
  PROVE  /\ [s EXCEPT ![n] = x] \in Seq(S) /\ Len([s EXCEPT ![n] = x]) = Len(s)
         /\ \A m \in 1..Len(s) : [s EXCEPT ![n] = x][m] = IF m = n THEN x ELSE s[m]
  <1>1. s \in [1..Len(s) -> S] /\ Len(s) \in Nat
    OBVIOUS
  <1>2. [s EXCEPT ![n] = x] \in [1..Len(s) -> S]
    BY <1>1
  <1>3. /\ [s EXCEPT ![n] = x] \in Seq(S) /\ Len([s EXCEPT ![n] = x]) = Len(s)
    BY <1>1, <1>2
  <1> QED BY <1>1, <1>3

(* Giving every element of a sequence one value.                            *)
LEMMA ConstantSeq ==
  ASSUME NEW S, NEW s \in Seq(S), NEW T, NEW x \in T
  PROVE  /\ [n \in DOMAIN s |-> x] \in Seq(T) /\ Len([n \in DOMAIN s |-> x]) = Len(s)
         /\ \A m \in 1..Len(s) : [n \in DOMAIN s |-> x][m] = x
  OBVIOUS

(* What an action does to the rows that only sets the state of triggers.       *)
SameTriggers ==
  /\ rows' \in [Workflows -> Rows]
  /\ \A v \in Workflows : /\ rows'[v].id = rows[v].id /\ rows'[v].list = rows[v].list
                          /\ Len(rows'[v].on) = Len(rows[v].on)
                          /\ Len(rows'[v].next) = Len(rows[v].next)

Written(w, id, n, next) ==
  \A v \in Workflows : \A m \in 1..Len(rows[v].list) :
    rows'[v].next[m] = IF v = w /\ m = n /\ rows[w].id = id /\ id # 0
                         THEN next ELSE rows[v].next[m]

(* SetTriggerRuntime writes the row of one trigger, if the rows were not    *)
(* replaced.                                                                *)
LEMMA RuntimeTriggers ==
  ASSUME Stored, NEW w \in Workflows, NEW id, NEW n, NEW next \in Times,
         SetTriggerRuntime(w, id, n, TRUE, next)
  PROVE  SameTriggers /\ Written(w, id, n, next)
  <1>1. CASE rows[w].id = id /\ id # 0
    <2> DEFINE a == [rows EXCEPT ![w].on[n] = TRUE]
               p == [rows[w].on EXCEPT ![n] = TRUE]
               q == [rows[w].next EXCEPT ![n] = next]
    <2>1. rows[w] \in Rows /\ rows[w].on \in Seq(BOOLEAN) /\ rows[w].next \in Seq(Times)
      BY DEF Stored, Rows
    <2>2. p \in Seq(BOOLEAN) /\ Len(p) = Len(rows[w].on)
      <3>1. TRUE \in BOOLEAN
        OBVIOUS
      <3> QED BY <2>1, <3>1, ExceptOfSeq, Zenon
    <2>3. /\ q \in Seq(Times) /\ Len(q) = Len(rows[w].next)
          /\ \A m \in 1..Len(rows[w].next) : q[m] = IF m = n THEN next ELSE rows[w].next[m]
      BY <2>1, ExceptOfSeq
    <2>4. /\ \A v \in Workflows : v # w => a[v] = rows[v]
          /\ a[w] = [rows[w] EXCEPT !.on = p]
          /\ rows' = [a EXCEPT ![w].next[n] = next]
          /\ DOMAIN a = Workflows
      BY <1>1 DEF SetTriggerRuntime, Stored
    <2> HIDE DEF a, p
    <2>5. a[w] \in Rows /\ a[w].next = rows[w].next /\ a[w].id = rows[w].id
          /\ a[w].list = rows[w].list /\ a[w].on = p
      BY <2>1, <2>2, <2>4 DEF Rows
    <2>6. /\ rows'[w] = [a[w] EXCEPT !.next = q] /\ \A v \in Workflows : v # w => rows'[v] = a[v]
          /\ DOMAIN rows' = Workflows /\ rows' = [v \in Workflows |-> rows'[v]]
      BY <2>4, <2>5
    <2> HIDE DEF q
    <2>7. /\ rows'[w] \in Rows /\ rows'[w].next = q /\ rows'[w].on = p
          /\ rows'[w].id = rows[w].id /\ rows'[w].list = rows[w].list
      BY <2>3, <2>5, <2>6 DEF Rows
    <2>8. \A v \in Workflows : v # w => rows'[v] = rows[v] /\ rows[v] \in Rows
      BY <2>4, <2>6 DEF Stored
    <2>9. rows' \in [Workflows -> Rows]
      BY <2>6, <2>7, <2>8
    <2>10. SameTriggers
      BY <2>2, <2>3, <2>7, <2>8, <2>9 DEF SameTriggers
    <2>11. Len(rows[w].next) = Len(rows[w].list)
      BY DEF Stored
    <2> QED BY <1>1, <2>3, <2>7, <2>8, <2>10, <2>11 DEF Written
  <1>2. CASE ~(rows[w].id = id /\ id # 0)
    BY <1>2 DEF SetTriggerRuntime, SameTriggers, Stored, Written
  <1> QED BY <1>1, <1>2

(* The writes that turn off all the triggers of a workflow.                 *)
LEMMA OffTriggers ==
  ASSUME Stored, NEW w \in Workflows,
         rows' = [rows EXCEPT ![w].on = [n \in DOMAIN @ |-> FALSE],
                              ![w].next = [n \in DOMAIN @ |-> None]]
  PROVE  SameTriggers /\ \A v \in Workflows : v # w => rows'[v] = rows[v]
  <1> DEFINE p == [n \in DOMAIN rows[w].on |-> FALSE]
             q == [n \in DOMAIN rows[w].next |-> None]
             a == [rows EXCEPT ![w].on = p]
  <1>1. rows[w] \in Rows /\ rows[w].on \in Seq(BOOLEAN) /\ rows[w].next \in Seq(Times)
    BY DEF Stored, Rows
  <1>2. p \in Seq(BOOLEAN) /\ Len(p) = Len(rows[w].on)
    <2>1. FALSE \in BOOLEAN
      OBVIOUS
    <2> QED BY <1>1, <2>1, ConstantSeq, Zenon
  <1>3. q \in Seq(Times) /\ Len(q) = Len(rows[w].next)
    BY <1>1, ConstantSeq DEF Times
  <1>4. /\ \A v \in Workflows : v # w => a[v] = rows[v]
        /\ a[w] = [rows[w] EXCEPT !.on = p] /\ DOMAIN a = Workflows
        /\ rows' = [a EXCEPT ![w].next = [n \in DOMAIN @ |-> None]]
    BY DEF Stored
  <1> HIDE DEF a, p
  <1>5. a[w] \in Rows /\ a[w].next = rows[w].next /\ a[w].id = rows[w].id
        /\ a[w].list = rows[w].list /\ a[w].on = p
    BY <1>1, <1>2, <1>4 DEF Rows
  <1>6. /\ rows'[w] = [a[w] EXCEPT !.next = q] /\ \A v \in Workflows : v # w => rows'[v] = a[v]
        /\ rows' = [v \in Workflows |-> rows'[v]]
    BY <1>4, <1>5
  <1> HIDE DEF q
  <1>7. /\ rows'[w] \in Rows /\ rows'[w].next = q /\ rows'[w].on = p
        /\ rows'[w].id = rows[w].id /\ rows'[w].list = rows[w].list
    BY <1>3, <1>5, <1>6 DEF Rows
  <1>8. \A v \in Workflows : v # w => rows'[v] = rows[v] /\ rows[v] \in Rows
    BY <1>4, <1>6 DEF Stored
  <1>9. rows' \in [Workflows -> Rows]
    BY <1>6, <1>7, <1>8
  <1> QED BY <1>2, <1>3, <1>7, <1>8, <1>9 DEF SameTriggers

(* An instance that goes on, or has gone.                                      *)
SameOrGone ==
  \A j \in Insts : \/ inst'[j].w = None
                   \/ /\ inst'[j].w = inst[j].w /\ inst'[j].list = inst[j].list
                      /\ inst'[j].row = inst[j].row

(* A step that makes no instance makes no workflow busy.                    *)
LEMMA BusyBefore ==
  ASSUME SameOrGone, NEW w \in Workflows
  PROVE  Busy(w)' => Busy(w)
  BY TriggersConstants DEF SameOrGone, Busy

(* Writes to the state of triggers keep Stored.                             *)
LEMMA StoredKept ==
  ASSUME Lives, Stored, SameTriggers, SameOrGone, nextInst' = nextInst, boot' = boot,
         \/ active' = active
         \/ \E i \in Insts :
              inst[i].w # None /\ active' \in {active \cup {inst[i].w}, active \ {inst[i].w}}
  PROVE  Stored'
  <1>1. \A w \in Workflows : Busy(w)' => Busy(w)
    BY BusyBefore
  <1>2. /\ active' \subseteq Workflows /\ boot' \subseteq active'
        /\ \A w \in Workflows : w \in active' => rows[w].id # 0
    <2>1. CASE active' = active
      BY <2>1 DEF Stored
    <2>2. CASE \E i \in Insts : inst[i].w # None
                 /\ active' \in {active \cup {inst[i].w}, active \ {inst[i].w}}
      <3>1. PICK i \in Insts : inst[i].w # None
                 /\ active' \in {active \cup {inst[i].w}, active \ {inst[i].w}}
        BY <2>2
      <3>2. inst[i].w \in Workflows /\ inst[i].w \notin boot /\ rows[inst[i].w].id # 0
        BY <3>1 DEF Lives, Stored, Busy, Instance
      <3> QED BY <3>1, <3>2 DEF Stored
    <2> QED BY <2>1, <2>2
  <1>3. \A w \in Workflows :
          /\ Len(rows'[w].on) = Len(rows'[w].list) /\ Len(rows'[w].next) = Len(rows'[w].list)
          /\ rows'[w].id < nextInst' /\ (w \in active' => rows'[w].id # 0)
    BY <1>2 DEF Stored, SameTriggers
  <1>4. \A i \in Insts : inst'[i].w # None =>
          /\ rows'[inst'[i].w].id = inst'[i].row /\ rows'[inst'[i].w].list = inst'[i].list
          /\ inst'[i].row # 0
    <2> SUFFICES ASSUME NEW i \in Insts, inst'[i].w # None
                 PROVE  /\ rows'[inst'[i].w].id = inst'[i].row
                        /\ rows'[inst'[i].w].list = inst'[i].list /\ inst'[i].row # 0
      OBVIOUS
    <2>1. /\ inst'[i].w = inst[i].w /\ inst'[i].list = inst[i].list /\ inst'[i].row = inst[i].row
      BY DEF SameOrGone
    <2>2. inst[i].w \in Workflows
      BY <2>1 DEF Lives, Instance
    <2>3. rows[inst[i].w].id = inst[i].row /\ rows[inst[i].w].list = inst[i].list /\ inst[i].row # 0
      BY <2>1 DEF Stored
    <2> QED BY <2>1, <2>2, <2>3 DEF SameTriggers
  <1> QED BY <1>1, <1>2, <1>3, <1>4 DEF Stored, SameTriggers

Ticker ==
  [pc : {"off", "waiting", "enqueue", "write"}, w : Workflows \cup {None}, id : Nat, n : Nat,
   plan : Plans, next : Nat, fired : Nat, late : BOOLEAN]

Ticks(i) == ticker[i].pc # "off"

Timely ==
  /\ clock \in 0..MaxTime
  /\ ticker \in [Insts -> Ticker]
  /\ \A i \in Insts : Ticks(i) => ticker[i].w \in Workflows

(* Trigger n + 1 of instance i is started, or its row is written, or it moves  *)
(* to another phase.                                                           *)
Moves(i, phase) ==
  /\ Became(i, inst'[i].n, inst'[i].next, phase)
  /\ nextInst' = nextInst /\ inst[i].phase \notin Absent /\ phase \notin Absent
  /\ inst[i].w # None /\ inst[i].w \in Workflows

Stays == stopped' = stopped

(* An instance that is there has a workflow.                                *)
LEMMA AtPhase ==
  ASSUME Lives, NEW i \in Insts, inst[i].phase \notin Absent
  PROVE  inst[i].w # None /\ inst[i].w \in Workflows
  BY DEF Lives, Instance, Absent

(* A step that only changes the phase.                                      *)
LEMMA PhaseMoves ==
  ASSUME Lives, NEW i \in Insts, NEW phase \in Phases \ Absent, inst[i].phase \notin Absent,
         StepTo(i, phase), nextInst' = nextInst
  PROVE  Moves(i, phase) /\ inst'[i].n = inst[i].n /\ inst'[i].next = inst[i].next
  BY AtPhase, StepToMoves DEF Moves, Became

(* What StartScheduler does to its instance.                                *)
LEMMA SchedulerMoves ==
  ASSUME Lives, Stored, Timely, NEW i \in Insts, StartScheduler(i)
  PROVE  /\ inst[i].phase = "starting" /\ Moves(i, "writing") /\ Stays
         /\ inst'[i].n = inst[i].n + 1 /\ inst'[i].n \in 1..Len(inst[i].list)
         /\ inst'[i].next \in Nat
         /\ inst'[i].n \in 1..Len(rows[inst[i].w].next)
         /\ rows[inst[i].w].next[inst'[i].n] \in Times
         /\ inst[i].list[inst'[i].n].plan \in Plans
         /\ inst[i].list[inst'[i].n].kind = "scheduler"
  <1> DEFINE n == inst[i].n + 1
             plan == inst[i].list[n].plan
             stored == rows[inst[i].w].next[n]
             missed == stored # None /\ inst[i].restoring /\ stored < clock
             next == IF stored = None \/ missed THEN NextRun(plan, clock) ELSE stored
  <1>1. inst[i].phase = "starting" /\ n <= Len(inst[i].list) /\ inst[i].list[n].kind = "scheduler"
        /\ Started(i, n, next)
    BY DEF StartScheduler, At
  <1>2. /\ inst[i].w \in Workflows /\ inst[i].w # None /\ inst[i].n \in Nat
        /\ inst[i].list \in TriggerLists
    BY <1>1, AtPhase DEF Lives, Instance, Absent
  <1>3. n \in 1..Len(inst[i].list) /\ n \in Nat /\ n = inst[i].n + 1
    BY <1>1, <1>2, ListTypes
  <1>4. stored \in Times /\ n \in 1..Len(rows[inst[i].w].next)
    <2>1. rows[inst[i].w].next \in Seq(Times) /\ Len(rows[inst[i].w].next) = Len(inst[i].list)
      BY <1>2 DEF Stored, Rows
    <2> QED BY SMTT(30), <1>3, <2>1
  <1>5. plan \in Plans
    BY <1>1, <1>2, <1>3, ListTypes, PlanOfTrigger
  <1> HIDE DEF n, plan
  <1>6. next \in Nat
    <2>1. NextRun(plan, clock) \in Nat
      BY NextRunIsLater DEF Timely
    <2> QED BY <1>4, <2>1 DEF Times
  <1> HIDE DEF next, stored
  <1>7. Became(i, n, next, "writing")
    BY SMTT(30), <1>1, <1>3, <1>6, StartedMoves DEF Times
  <1>8. nextInst' = nextInst /\ stopped' = stopped
    BY DEF StartScheduler
  <1>9. inst'[i].n = n /\ inst'[i].next = next
    BY <1>7 DEF Became
  <1>10. "starting" \notin Absent /\ "writing" \notin Absent
    BY DEF Absent
  <1> QED BY SMTT(30), <1>1, <1>2, <1>3, <1>4, <1>5, <1>6, <1>7, <1>8, <1>9, <1>10
         DEF Moves, Stays, n, plan, stored

(* What starting a trigger without next run does to its instance.           *)
LEMMA HandlerMoves ==
  ASSUME Lives, NEW i \in Insts, inst[i].phase = "starting", inst[i].n + 1 <= Len(inst[i].list),
         Started(i, inst[i].n + 1, None), nextInst' = nextInst
  PROVE  /\ Moves(i, "writing")
         /\ inst'[i].n = inst[i].n + 1 /\ inst'[i].n \in 1..Len(inst[i].list)
         /\ inst'[i].next = None
  <1>1. /\ inst[i].w \in Workflows /\ inst[i].w # None /\ inst[i].n \in Nat
        /\ inst[i].list \in TriggerLists
    BY AtPhase DEF Lives, Instance, Absent
  <1>2. inst[i].n + 1 \in Nat /\ inst[i].n + 1 \in 1..Len(inst[i].list)
    BY <1>1, ListTypes
  <1>3. Became(i, inst[i].n + 1, None, "writing")
    BY <1>2, StartedMoves DEF Times
  <1> QED BY <1>1, <1>2, <1>3 DEF Moves, Became, Absent

(* What StartWebhook does: the route is free, or the activation fails.      *)
LEMMA WebhookMoves ==
  ASSUME Lives, NEW i \in Insts, StartWebhook(i)
  PROVE  /\ inst[i].phase = "starting" /\ Stays
         /\ \/ /\ Moves(i, "writing") /\ Register(inst[i].w, inst[i].list[inst'[i].n].key)
               /\ inst'[i].n = inst[i].n + 1 /\ inst'[i].n \in 1..Len(inst[i].list)
               /\ inst'[i].next = None /\ inst[i].list[inst'[i].n].kind = "webhook"
            \/ Moves(i, "refused") /\ inst'[i].n = inst[i].n /\ UNCHANGED routes
  <1>1. /\ inst[i].phase = "starting" /\ inst[i].n + 1 <= Len(inst[i].list)
        /\ inst[i].list[inst[i].n + 1].kind = "webhook" /\ nextInst' = nextInst /\ Stays
    BY DEF StartWebhook, At, Stays
  <1>2. CASE /\ Register(inst[i].w, inst[i].list[inst[i].n + 1].key)
             /\ Started(i, inst[i].n + 1, None)
    BY <1>1, <1>2, HandlerMoves
  <1>3. CASE UNCHANGED routes /\ StepTo(i, "refused")
    BY <1>1, <1>3, PhaseMoves DEF Phases, Absent
  <1>4. \/ Register(inst[i].w, inst[i].list[inst[i].n + 1].key) /\ Started(i, inst[i].n + 1, None)
        \/ UNCHANGED routes /\ StepTo(i, "refused")
    BY DEF StartWebhook, RegisterRefused
  <1> QED BY <1>1, <1>2, <1>3, <1>4

(* What StartWatcher does to its instance.                                  *)
LEMMA WatcherMoves ==
  ASSUME Lives, NEW i \in Insts, StartWatcher(i)
  PROVE  /\ inst[i].phase = "starting" /\ Stays /\ Moves(i, "writing")
         /\ inst'[i].n = inst[i].n + 1 /\ inst'[i].n \in 1..Len(inst[i].list)
         /\ inst'[i].next = None /\ inst[i].list[inst'[i].n].kind = "file_watcher"
  <1>1. /\ inst[i].phase = "starting" /\ inst[i].n + 1 <= Len(inst[i].list)
        /\ inst[i].list[inst[i].n + 1].kind = "file_watcher"
        /\ Started(i, inst[i].n + 1, None) /\ nextInst' = nextInst /\ Stays
    BY DEF StartWatcher, At, Stays
  <1> QED BY <1>1, HandlerMoves

(* What WriteRow does to its instance.                                      *)
LEMMA WriteMoves ==
  ASSUME Lives, NEW i \in Insts, WriteRow(i)
  PROVE  /\ inst[i].phase = "writing" /\ Stays /\ Moves(i, "starting")
         /\ inst'[i].n = inst[i].n
  <1>1. /\ inst[i].phase = "writing" /\ nextInst' = nextInst /\ Stays
        /\ inst' = [inst EXCEPT ![i].phase = "starting", ![i].next = None]
    BY DEF WriteRow, At, Stays
  <1>2. Became(i, inst[i].n, None, "starting")
    BY <1>1, WrittenMoves
  <1>3. inst[i].w # None /\ inst[i].w \in Workflows
    BY <1>1, AtPhase DEF Absent
  <1> QED BY <1>1, <1>2, <1>3 DEF Moves, Became, Absent

(* The other steps of the calls: from a phase to the next.                     *)
LEMMA PlainMoves ==
  ASSUME Lives, NEW i \in Insts
  PROVE  /\ Undo(i) => inst[i].phase = "refused" /\ Moves(i, "undone")
         /\ Map(i) => inst[i].phase = "starting" /\ Moves(i, "mapped")
         /\ Activate(i) => inst[i].phase = "mapped" /\ Moves(i, "active")
         /\ Close(i) => inst[i].phase = "active" /\ Moves(i, "closed")
         /\ Halt(i) => inst[i].phase = "closed" /\ Moves(i, "halted")
         /\ RowsOff(i) => inst[i].phase = "halted" /\ Moves(i, "rowsOff")
         /\ StatusOff(i) => inst[i].phase = "rowsOff" /\ Moves(i, "statusOff")
         /\ Undo(i) \/ Map(i) \/ Activate(i) \/ Close(i) \/ Halt(i) \/ RowsOff(i) \/ StatusOff(i)
              => inst'[i].n = inst[i].n /\ inst'[i].next = inst[i].next
  <1>1. {"undone", "mapped", "active", "closed", "halted", "rowsOff", "statusOff"} \subseteq Phases \ Absent
    BY DEF Phases, Absent
  <1>2. Absent \cap {"refused", "starting", "mapped", "active", "closed", "halted", "rowsOff"} = {}
    BY DEF Absent
  <1>3. ASSUME NEW p, NEW q, p \in {"undone", "mapped", "active", "closed", "halted", "rowsOff", "statusOff"},
               q \in {"refused", "starting", "mapped", "active", "closed", "halted", "rowsOff"},
               inst[i].phase = q, StepTo(i, p), nextInst' = nextInst
        PROVE  Moves(i, p) /\ inst'[i].n = inst[i].n /\ inst'[i].next = inst[i].next
    BY <1>1, <1>2, <1>3, PhaseMoves
  <1>4. Undo(i) => inst[i].phase = "refused" /\ StepTo(i, "undone") /\ nextInst' = nextInst
    BY DEF Undo, At
  <1>5. Map(i) => inst[i].phase = "starting" /\ StepTo(i, "mapped") /\ nextInst' = nextInst
    BY DEF Map, At
  <1>6. Activate(i) => inst[i].phase = "mapped" /\ StepTo(i, "active") /\ nextInst' = nextInst
    BY DEF Activate, At
  <1>7. Close(i) => inst[i].phase = "active" /\ StepTo(i, "closed") /\ nextInst' = nextInst
    BY DEF Close, At
  <1>8. Halt(i) => inst[i].phase = "closed" /\ StepTo(i, "halted") /\ nextInst' = nextInst
    BY DEF Halt, At
  <1>9. RowsOff(i) => inst[i].phase = "halted" /\ StepTo(i, "rowsOff") /\ nextInst' = nextInst
    BY DEF RowsOff, At
  <1>10. StatusOff(i) => inst[i].phase = "rowsOff" /\ StepTo(i, "statusOff") /\ nextInst' = nextInst
    BY DEF StatusOff, At
  <1> QED BY <1>3, <1>4, <1>5, <1>6, <1>7, <1>8, <1>9, <1>10

(* A move of an instance, told to stop or not, keeps Lives.                 *)
LEMMA MovedLives ==
  ASSUME Lives, NEW i \in Insts, NEW phase, Moves(i, phase), inst'[i].n <= Len(inst[i].list),
         \/ Stays /\ (phase \in Halted <=> inst[i].phase \in Halted)
         \/ stopped' = stopped \cup {i} /\ phase \in Halted
  PROVE  Lives' /\ SameOrGone
  <1>1. Lives'
    BY MoveLives DEF Moves, Stays
  <1>2. SameOrGone
    BY DEF Moves, Became, SameOrGone
  <1> QED BY <1>1, <1>2

(* A step that leaves the instances alone keeps Lives.                      *)
LEMMA UnmovedLives ==
  ASSUME Lives, inst' = inst, nextInst' = nextInst, stopped' = stopped
  PROVE  Lives' /\ SameOrGone
  BY DEF Lives, SameOrGone

(* The steps of the calls for an instance.                                     *)
LEMMA CallLives ==
  ASSUME Lives, Stored, Timely, NEW i \in Insts,
         \/ StartScheduler(i) \/ StartWebhook(i) \/ StartWatcher(i)
         \/ Undo(i) \/ GiveUp(i) \/ WriteRow(i) \/ Map(i) \/ Activate(i)
         \/ Close(i) \/ Halt(i) \/ RowsOff(i) \/ StatusOff(i) \/ Unmap(i)
  PROVE  Lives' /\ SameOrGone /\ nextInst' = nextInst
  <1>0. inst[i].n <= Len(inst[i].list) /\ inst[i].n \in Nat /\ inst[i].list \in TriggerLists
        /\ Len(inst[i].list) \in Nat
    BY ListTypes DEF Lives, Instance
  <1>1. CASE StartScheduler(i) \/ StartWatcher(i)
    <2>1. /\ inst[i].phase = "starting" /\ Stays /\ Moves(i, "writing")
          /\ inst'[i].n \in 1..Len(inst[i].list)
      BY <1>1, SchedulerMoves, WatcherMoves
    <2>2. Lives' /\ SameOrGone
      BY <1>0, <2>1, MovedLives DEF Halted
    <2> QED BY <2>1, <2>2 DEF Moves
  <1>2. CASE StartWebhook(i)
    <2>1. /\ inst[i].phase = "starting" /\ Stays /\ (Moves(i, "writing") \/ Moves(i, "refused"))
          /\ inst'[i].n <= Len(inst[i].list)
      BY <1>0, <1>2, WebhookMoves
    <2>2. Lives' /\ SameOrGone
      BY <2>1, MovedLives DEF Halted
    <2> QED BY <2>1, <2>2 DEF Moves
  <1>3. CASE WriteRow(i)
    <2>1. /\ inst[i].phase = "writing" /\ Stays /\ Moves(i, "starting") /\ inst'[i].n = inst[i].n
      BY <1>3, WriteMoves
    <2>2. Lives' /\ SameOrGone
      BY <1>0, <2>1, MovedLives DEF Halted
    <2> QED BY <2>1, <2>2 DEF Moves
  <1>4. CASE Undo(i) \/ Halt(i)
    <2>1. /\ Moves(i, "undone") \/ Moves(i, "halted")
          /\ inst'[i].n = inst[i].n /\ stopped' = stopped \cup {i}
      BY <1>4, PlainMoves DEF Undo, Halt
    <2>2. Lives' /\ SameOrGone
      BY <1>0, <2>1, MovedLives DEF Halted
    <2> QED BY <2>1, <2>2 DEF Moves
  <1>5. CASE Map(i) \/ Activate(i) \/ Close(i)
    <2>1. /\ inst[i].phase \in {"starting", "mapped", "active"} /\ Stays
          /\ Moves(i, "mapped") \/ Moves(i, "active") \/ Moves(i, "closed")
          /\ inst'[i].n = inst[i].n
      BY <1>5, PlainMoves DEF Map, Activate, Close, Stays
    <2>2. Lives' /\ SameOrGone
      BY <1>0, <2>1, MovedLives DEF Halted
    <2> QED BY <2>1, <2>2 DEF Moves
  <1>6. CASE RowsOff(i) \/ StatusOff(i)
    <2>1. /\ inst[i].phase \in {"halted", "rowsOff"} /\ Stays
          /\ Moves(i, "rowsOff") \/ Moves(i, "statusOff")
          /\ inst'[i].n = inst[i].n
      BY <1>6, PlainMoves DEF RowsOff, StatusOff, Stays
    <2>2. Lives' /\ SameOrGone
      BY <1>0, <2>1, MovedLives DEF Halted
    <2> QED BY SMTT(30), <2>1, <2>2 DEF Moves
  <1>7. CASE GiveUp(i) \/ Unmap(i)
    <2>1. /\ inst' = [inst EXCEPT ![i] = Gone] /\ nextInst' = nextInst /\ stopped' = stopped
          /\ inst[i].phase \in {"undone", "statusOff"}
      BY <1>7 DEF GiveUp, Unmap, At
    <2>2. inst[i].phase \in Halted \ Absent
      BY <2>1 DEF Halted, Absent
    <2>3. Lives' /\ inst'[i] = Gone /\ \A j \in Insts : j # i => inst'[j] = inst[j]
      BY <2>1, <2>2, GoneLives
    <2> QED BY <2>1, <2>3 DEF SameOrGone, Gone, NoInst
  <1> QED BY <1>1, <1>2, <1>3, <1>4, <1>5, <1>6, <1>7

(* All instances are gone: the process was killed.                             *)
LEMMA KillLives ==
  ASSUME Lives, Kill
  PROVE  /\ Lives' /\ nextInst' = nextInst /\ stopped' = {}
         /\ \A i \in Insts : inst'[i].w = None /\ inst'[i].phase = "none"
  <1>1. NoInst \in Instance /\ NoInst.w = None /\ NoInst.phase = "none" /\ NoInst.n = 0
        /\ NoInst.list = << >>
    BY EmptyList DEF NoInst, Instance, Phases, Times
  <1>2. inst' = [i \in Insts |-> NoInst] /\ nextInst' = nextInst /\ stopped' = {}
    BY DEF Kill
  <1>3. inst' \in [Insts -> Instance] /\ \A i \in Insts : inst'[i] = NoInst
    BY <1>1, <1>2
  <1>4. "none" \in Absent /\ "none" \notin Halted /\ Len(<< >>) = 0
    BY DEF Absent, Halted
  <1> QED BY <1>1, <1>2, <1>3, <1>4 DEF Lives

(* Lives is inductive, with Stored and Timely.                              *)
LEMMA LivesStep ==
  ASSUME Lives, Stored, Timely, [Next]_vars
  PROVE  Lives'
  <1>1. CASE \E i \in Insts :
               \/ StartScheduler(i) \/ StartWebhook(i) \/ StartWatcher(i)
               \/ Undo(i) \/ GiveUp(i) \/ WriteRow(i) \/ Map(i) \/ Activate(i)
               \/ Close(i) \/ Halt(i) \/ RowsOff(i) \/ StatusOff(i) \/ Unmap(i)
    BY <1>1, CallLives
  <1>2. CASE \E w \in Workflows : (\E list \in Lists[w] : Start(w, list)) \/ Restore(w)
    BY <1>2, StartBegins, RestoreBegins, BeginLives
  <1>3. CASE Kill
    BY <1>3, KillLives
  <1>4. CASE UNCHANGED callVars
    BY <1>4, UnmovedLives DEF callVars
  <1>5. CASE \/ UNCHANGED vars
             \/ \E i \in Insts : \/ SchedulerFires(i) \/ SchedulerEnqueues(i) \/ SchedulerWrites(i)
                                 \/ SchedulerStops(i) \/ FileEvent(i) \/ WatcherExits(i)
             \/ \E t \in Timers : DebounceFires(t) \/ DebounceCallback(t)
             \/ DebounceEnqueues \/ Time
    BY <1>4, <1>5 DEF vars, SchedulerFires, SchedulerEnqueues, SchedulerWrites, SchedulerStops,
       FileEvent, WatcherExits, DebounceFires, DebounceCallback, DebounceEnqueues, Time, Rest
  <1> QED BY <1>1, <1>2, <1>3, <1>5 DEF Next

(* Mapped is inductive: only Map fills d.workflows, once all triggers have  *)
(* started.                                                                 *)
LEMMA MappedStep ==
  ASSUME Lives, Stored, Timely, Mapped, [Next]_vars
  PROVE  Mapped'
  <1> DEFINE Early == {"starting", "writing", "refused", "undone"}
  <1>1. Lives'
    BY LivesStep
  <1>2. ASSUME NEW i \in Insts, NEW phase, Moves(i, phase), current' = current,
               phase \notin Early \/ inst[i].phase \in Early
        PROVE  Mapped'
    <2> SUFFICES ASSUME NEW w \in Workflows, current[w] # 0
                 PROVE  inst'[current[w]].w = w /\ inst'[current[w]].phase \notin Early
      BY <1>2 DEF Mapped
    <2>1. current[w] \in Insts /\ inst[current[w]].w = w /\ inst[current[w]].phase \notin Early
      BY DEF Mapped, Insts
    <2> HIDE DEF Early
    <2> QED BY <1>2, <2>1 DEF Moves, Became
  <1>3. ASSUME NEW i \in Insts,
               \/ StartScheduler(i) \/ StartWebhook(i) \/ StartWatcher(i)
               \/ Undo(i) \/ WriteRow(i) \/ Activate(i)
               \/ Close(i) \/ Halt(i) \/ RowsOff(i) \/ StatusOff(i)
        PROVE  Mapped'
    <2>1. current' = current
      BY <1>3 DEF StartScheduler, StartWebhook, StartWatcher, Undo, WriteRow, Activate, Close,
         Halt, RowsOff, StatusOff
    <2>2. CASE StartScheduler(i) \/ StartWebhook(i) \/ StartWatcher(i) \/ WriteRow(i)
      <3>1. inst[i].phase \in Early
        BY <2>2, SchedulerMoves, WebhookMoves, WatcherMoves, WriteMoves
      <3>2. \E phase : Moves(i, phase)
        BY <2>2, SchedulerMoves, WebhookMoves, WatcherMoves, WriteMoves
      <3> QED BY <1>2, <2>1, <3>1, <3>2
    <2>3. CASE Undo(i) \/ Activate(i) \/ Close(i) \/ Halt(i) \/ RowsOff(i) \/ StatusOff(i)
      <3>1. \E phase : Moves(i, phase) /\ (phase \notin Early \/ inst[i].phase \in Early)
        BY <2>3, PlainMoves
      <3> QED BY <1>2, <2>1, <3>1
    <2> QED BY SMTT(30), <1>3, <2>2, <2>3
  <1>4. ASSUME NEW i \in Insts, Map(i)
        PROVE  Mapped'
    <2>1. Moves(i, "mapped") /\ inst[i].phase = "starting"
      BY <1>4, PlainMoves
    <2>2. current' = [current EXCEPT ![inst[i].w] = i] /\ i \in 0..MaxInst /\ inst[i].w \in Workflows
      BY <1>4, <2>1, TriggersConstants DEF Map, Insts, Moves
    <2>3. ASSUME NEW w \in Workflows, current'[w] # 0
          PROVE  inst'[current'[w]].w = w /\ inst'[current'[w]].phase \notin Early
      <3>1. CASE w = inst[i].w
        BY <2>1, <2>2, <3>1 DEF Mapped, Moves, Became
      <3>2. CASE w # inst[i].w
        <4>1. current'[w] = current[w] /\ current[w] \in Insts /\ inst[current[w]].w = w
              /\ inst[current[w]].phase \notin Early
          BY <2>2, <2>3, <3>2 DEF Mapped, Insts
        <4> QED BY <2>1, <3>2, <4>1 DEF Moves, Became
      <3> QED BY <3>1, <3>2
    <2>4. current' \in [Workflows -> 0..MaxInst]
      BY <2>2 DEF Mapped
    <2> QED BY <2>3, <2>4 DEF Mapped
  <1>5. ASSUME NEW i \in Insts, GiveUp(i) \/ Unmap(i)
        PROVE  Mapped'
    <2>1. /\ inst' = [inst EXCEPT ![i] = Gone] /\ inst[i].phase \in {"undone", "statusOff"}
          /\ \A j \in Insts : j # i => inst'[j] = inst[j]
      BY <1>5 DEF GiveUp, Unmap, At, Lives
    <2>2. current' = current \/ current' = [current EXCEPT ![inst[i].w] = 0]
      BY <1>5 DEF GiveUp, Unmap
    <2>3. ASSUME NEW w \in Workflows, current'[w] # 0
          PROVE  current'[w] = current[w] /\ current[w] \in Insts /\ current[w] # i
      <3>1. current'[w] = current[w] /\ current[w] \in Insts
        BY <2>2, <2>3 DEF Mapped, Insts
      <3>2. CASE Unmap(i)
        <4>1. current' = [current EXCEPT ![inst[i].w] = 0]
          BY <3>2 DEF Unmap
        <4>2. w # inst[i].w
          BY <2>3, <4>1 DEF Mapped
        <4> QED BY <2>3, <3>1, <4>2 DEF Mapped
      <3>3. CASE GiveUp(i)
        BY <2>3, <3>1, <3>3 DEF Mapped, GiveUp, At
      <3> QED BY <1>5, <3>1, <3>2, <3>3
    <2>4. current' \in [Workflows -> 0..MaxInst]
      BY <2>2, TriggersConstants DEF Mapped
    <2> QED BY <2>1, <2>3, <2>4 DEF Mapped
  <1>6. ASSUME NEW w \in Workflows, (\E list \in Lists[w] : Start(w, list)) \/ Restore(w)
        PROVE  Mapped'
    <2>1. /\ \E list, row, restoring : Begins(w, list, row, restoring)
          /\ current' = current
      <3>1. CASE Restore(w)
        BY <3>1, RestoreBegins DEF Restore
      <3>2. CASE \E list \in Lists[w] : Start(w, list)
        BY <3>2, StartBegins DEF Start
      <3> QED BY <1>6, <3>1, <3>2
    <2>2. \A j \in Insts : j # nextInst => inst'[j] = inst[j]
      BY <2>1 DEF Begins
    <2>3. \A v \in Workflows : current[v] # 0 => current[v] \in Insts /\ current[v] # nextInst
      <3>1. nextInst \in Insts => inst[nextInst].w = None
        BY DEF Lives, Absent, Insts
      <3> QED BY <3>1, TriggersConstants DEF Mapped, Insts
    <2> QED BY <2>1, <2>2, <2>3 DEF Mapped
  <1>7. CASE Kill
    BY <1>7, TriggersConstants DEF Kill, Mapped
  <1>8. CASE UNCHANGED callVars
    BY <1>8 DEF callVars, Mapped
  <1>9. CASE \/ UNCHANGED vars
             \/ \E i \in Insts : \/ SchedulerFires(i) \/ SchedulerEnqueues(i) \/ SchedulerWrites(i)
                                 \/ SchedulerStops(i) \/ FileEvent(i) \/ WatcherExits(i)
             \/ \E t \in Timers : DebounceFires(t) \/ DebounceCallback(t)
             \/ DebounceEnqueues \/ Time
    BY <1>8, <1>9 DEF vars, SchedulerFires, SchedulerEnqueues, SchedulerWrites, SchedulerStops,
       FileEvent, WatcherExits, DebounceFires, DebounceCallback, DebounceEnqueues, Time, Rest
  <1> QED BY <1>3, <1>4, <1>5, <1>6, <1>7, <1>9 DEF Next

(* A step that writes no row.                                               *)
LEMMA RowsStay ==
  ASSUME Stored, rows' = rows
  PROVE  SameTriggers
  BY DEF Stored, SameTriggers

(* The steps of a call other than GiveUp keep Stored.                       *)
LEMMA CallStored ==
  ASSUME Lives, Stored, Timely, NEW i \in Insts,
         \/ StartScheduler(i) \/ StartWebhook(i) \/ StartWatcher(i)
         \/ Undo(i) \/ WriteRow(i) \/ Map(i) \/ Activate(i)
         \/ Close(i) \/ Halt(i) \/ RowsOff(i) \/ StatusOff(i) \/ Unmap(i)
  PROVE  Stored' /\ SameTriggers
  <1>1. SameOrGone /\ nextInst' = nextInst
    BY CallLives
  <1>2. CASE \/ StartScheduler(i) \/ StartWebhook(i) \/ StartWatcher(i)
             \/ Undo(i) \/ Map(i) \/ Close(i) \/ Halt(i) \/ Unmap(i)
    <2>1. rows' = rows /\ active' = active /\ boot' = boot
      BY <1>2 DEF StartScheduler, StartWebhook, StartWatcher, Undo, Map, Close, Halt, Unmap, storeVars
    <2> QED BY <1>1, <2>1, RowsStay, StoredKept
  <1>3. CASE WriteRow(i)
    <2>1. /\ SetTriggerRuntime(inst[i].w, inst[i].row, inst[i].n, TRUE, inst[i].next)
          /\ active' = active /\ boot' = boot /\ inst[i].phase = "writing"
      BY <1>3 DEF WriteRow, At
    <2>2. inst[i].w \in Workflows /\ inst[i].next \in Times
      BY <2>1, AtPhase DEF Lives, Instance, Absent
    <2>3. SameTriggers
      BY <2>1, <2>2, RuntimeTriggers
    <2> QED BY <1>1, <2>1, <2>3, StoredKept
  <1>4. CASE Activate(i) \/ StatusOff(i)
    <2>1. /\ rows' = rows /\ boot' = boot /\ inst[i].phase \in {"mapped", "rowsOff"}
          /\ active' \in {active \cup {inst[i].w}, active \ {inst[i].w}}
      BY <1>4 DEF Activate, StatusOff, At
    <2>2. inst[i].w # None
      BY <2>1, AtPhase DEF Absent
    <2> QED BY <1>1, <2>1, <2>2, RowsStay, StoredKept
  <1>5. CASE RowsOff(i)
    <2>1. inst[i].phase = "halted" /\ active' = active /\ boot' = boot
      BY <1>5 DEF RowsOff, At
    <2>2. inst[i].w \in Workflows
      BY <2>1, AtPhase DEF Absent
    <2>3. SameTriggers
      BY <1>5, <2>2, OffTriggers, RowsStay DEF RowsOff
    <2> QED BY <1>1, <2>1, <2>3, StoredKept
  <1> QED BY <1>2, <1>3, <1>4, <1>5

(* The cleanup of a failed activation deletes the rows of its workflow      *)
(* only.                                                                    *)
LEMMA GiveUpStored ==
  ASSUME Lives, Stored, NEW i \in Insts, GiveUp(i), SameOrGone
  PROVE  Stored' /\ \A w \in Workflows : w # inst[i].w => rows'[w] = rows[w]
  <1> DEFINE w == inst[i].w
  <1>1. /\ inst[i].phase = "undone" /\ active' = active \ {w} /\ boot' = boot /\ nextInst' = nextInst
    BY DEF GiveUp, At
  <1>2. w \in Workflows /\ w # None
    BY <1>1, AtPhase DEF Absent
  <1>3. CASE rows' = rows
    BY SMTT(30), <1>1, <1>2, <1>3, RowsStay, StoredKept
  <1>4. CASE rows' = [rows EXCEPT ![w].on = [n \in DOMAIN @ |-> FALSE],
                                  ![w].next = [n \in DOMAIN @ |-> None]]
    BY <1>1, <1>2, <1>4, OffTriggers, StoredKept
  <1>5. CASE rows' = [rows EXCEPT ![w] = NoRows]
    <2>1. /\ NoRows \in Rows /\ Len(NoRows.on) = Len(NoRows.list)
          /\ Len(NoRows.next) = Len(NoRows.list) /\ NoRows.id = 0
      BY EmptyList DEF NoRows, Rows
    <2>2. /\ rows' \in [Workflows -> Rows] /\ rows'[w] = NoRows
          /\ \A v \in Workflows : v # w => rows'[v] = rows[v]
      BY <1>2, <1>5, <2>1 DEF Stored
    <2>3. \A j \in Insts : inst'[j].w # w
      <3>1. inst'[i].w = None
        BY DEF GiveUp, Gone, NoInst, Lives
      <3>2. \A j \in Insts : j # i => inst'[j].w = inst[j].w
        BY DEF GiveUp, Lives
      <3> QED BY <1>2, <3>1, <3>2 DEF Lives
    <2>4. \A v \in Workflows : Busy(v)' => Busy(v)
      BY BusyBefore
    <2>5. w \notin boot /\ nextInst > 0
      BY <1>2 DEF Stored, Busy, Lives
    <2>6. \A v \in Workflows :
            /\ Len(rows'[v].on) = Len(rows'[v].list) /\ Len(rows'[v].next) = Len(rows'[v].list)
            /\ rows'[v].id < nextInst' /\ (v \in active' => rows'[v].id # 0)
            /\ v \in boot' => ~Busy(v)'
      BY <1>1, <2>1, <2>2, <2>4, <2>5 DEF Stored
    <2>7. ASSUME NEW j \in Insts, inst'[j].w # None
          PROVE  /\ rows'[inst'[j].w].id = inst'[j].row /\ rows'[inst'[j].w].list = inst'[j].list
                 /\ inst'[j].row # 0
      <3>1. inst'[j].w = inst[j].w /\ inst'[j].list = inst[j].list /\ inst'[j].row = inst[j].row
        BY <2>7 DEF SameOrGone
      <3>2. inst[j].w \in Workflows /\ inst[j].w # w
        BY <2>3, <2>7, <3>1 DEF Lives, Instance
      <3> QED BY <2>2, <2>7, <3>1, <3>2 DEF Stored
    <2>8. active' \subseteq Workflows /\ boot' \subseteq active'
      BY <1>1, <2>5 DEF Stored
    <2> HIDE DEF w
    <2>9. Stored'
      BY <2>2, <2>6, <2>7, <2>8 DEF Stored
    <2> QED BY <2>2, <2>9 DEF w
  <1>6. \/ rows' = rows \/ rows' = [rows EXCEPT ![w] = NoRows]
        \/ rows' = [rows EXCEPT ![w].on = [n \in DOMAIN @ |-> FALSE],
                                ![w].next = [n \in DOMAIN @ |-> None]]
    BY DEF GiveUp
  <1>7. \A v \in Workflows : v # w => rows'[v] = rows[v]
    <2>1. CASE rows' = rows
      BY <2>1
    <2>2. CASE rows' = [rows EXCEPT ![w] = NoRows]
      BY <2>2 DEF Stored
    <2>3. CASE rows' = [rows EXCEPT ![w].on = [n \in DOMAIN @ |-> FALSE],
                                    ![w].next = [n \in DOMAIN @ |-> None]]
      BY <1>2, <2>3, OffTriggers
    <2> QED BY <1>6, <2>1, <2>2, <2>3
  <1> QED BY <1>3, <1>4, <1>5, <1>6, <1>7

(* The rows of a start.                                                        *)
LEMMA StartStored ==
  ASSUME Lives, Stored, NEW w \in Workflows, NEW list \in Lists[w], Start(w, list)
  PROVE  /\ Stored' /\ \A v \in Workflows : v # w => rows'[v] = rows[v]
         /\ rows'[w].id = nextInst
         /\ \A m \in 1..Len(list) : rows'[w].next[m] = None
  <1>1. /\ list \in TriggerLists /\ ~Busy(w) /\ w \notin boot
        /\ Begins(w, list, nextInst, FALSE) /\ nextInst \in Nat \ {0}
        /\ list \in Seq(Trigger) /\ Len(list) \in Nat
    BY StartBegins, ListTypes
  <1> DEFINE new == [id |-> nextInst, list |-> list, on |-> [n \in 1..Len(list) |-> FALSE],
                     next |-> [n \in 1..Len(list) |-> None]]
  <1>2. new \in Rows /\ Len(new.on) = Len(list) /\ Len(new.next) = Len(list)
        /\ \A m \in 1..Len(list) : new.next[m] = None
    BY <1>1 DEF Rows, Times
  <1>3. rows' = [rows EXCEPT ![w] = new] /\ active' = active /\ boot' = boot
    BY DEF Start
  <1>4. new.id = nextInst /\ new.list = list
    OBVIOUS
  <1> HIDE DEF new
  <1>5. /\ rows' \in [Workflows -> Rows] /\ rows'[w] = new
        /\ \A v \in Workflows : v # w => rows'[v] = rows[v]
    BY <1>2, <1>3 DEF Stored
  <1>6. nextInst \in Insts /\ nextInst' = nextInst + 1 /\ w # None
    BY <1>1, TriggersConstants DEF Begins, Insts
  <1>7. ASSUME NEW j \in Insts, inst'[j].w # None
        PROVE  /\ rows'[inst'[j].w].id = inst'[j].row /\ rows'[inst'[j].w].list = inst'[j].list
               /\ inst'[j].row # 0
    <2>1. CASE j = nextInst
      BY <1>1, <1>4, <1>5, <2>1 DEF Begins
    <2>2. CASE j # nextInst
      <3>1. inst'[j] = inst[j] /\ inst[j].w \in Workflows /\ inst[j].w # w
        BY <1>1, <1>7, <2>2 DEF Begins, Busy, Lives, Instance
      <3> QED BY <1>5, <1>7, <3>1 DEF Stored
    <2> QED BY <2>1, <2>2
  <1>8. ASSUME NEW v \in Workflows
        PROVE  /\ Len(rows'[v].on) = Len(rows'[v].list) /\ Len(rows'[v].next) = Len(rows'[v].list)
               /\ rows'[v].id < nextInst' /\ (v \in active' => rows'[v].id # 0)
    <2>1. CASE v = w
      BY <1>1, <1>2, <1>4, <1>5, <1>6, <2>1
    <2>2. CASE v # w
      BY <1>1, <1>3, <1>5, <1>6, <2>2 DEF Stored, Rows
    <2> QED BY <2>1, <2>2
  <1>9. \A v \in Workflows : v \in boot' => ~Busy(v)'
    BY <1>1, <1>3, <1>6 DEF Begins, Busy, Stored
  <1>10. Stored'
    BY <1>3, <1>5, <1>7, <1>8, <1>9 DEF Stored
  <1> QED BY <1>2, <1>4, <1>5, <1>10

(* The boot restores a workflow with its rows.                              *)
LEMMA RestoreStored ==
  ASSUME Lives, Stored, NEW w \in Workflows, Restore(w)
  PROVE  Stored'
  <1>1. /\ ~Busy(w) /\ w \in boot
        /\ Begins(w, rows[w].list, rows[w].id, TRUE) /\ rows[w].id \in Nat \ {0}
    BY RestoreBegins
  <1>2. rows' = rows /\ active' = active /\ boot' = boot \ {w}
    BY DEF Restore, storeVars
  <1>3. nextInst \in Insts /\ nextInst' = nextInst + 1 /\ w # None /\ nextInst \in Nat
    BY <1>1, TriggersConstants DEF Begins, Insts, Lives
  <1>4. ASSUME NEW j \in Insts, inst'[j].w # None
        PROVE  /\ rows'[inst'[j].w].id = inst'[j].row /\ rows'[inst'[j].w].list = inst'[j].list
               /\ inst'[j].row # 0
    <2>1. CASE j = nextInst
      BY <1>1, <1>2, <2>1 DEF Begins
    <2>2. CASE j # nextInst
      BY <1>1, <1>2, <1>4, <2>2 DEF Begins, Stored
    <2> QED BY <2>1, <2>2
  <1>5. \A v \in Workflows : v \in boot' => ~Busy(v)'
    BY <1>1, <1>2, <1>3 DEF Begins, Busy, Stored
  <1>6. \A v \in Workflows : rows'[v].id < nextInst'
    BY <1>2, <1>3 DEF Stored, Rows
  <1> QED BY <1>2, <1>4, <1>5, <1>6 DEF Stored

(* Stored is inductive.                                                     *)
LEMMA StoredStep ==
  ASSUME Lives, Stored, Timely, [Next]_vars
  PROVE  Stored'
  <1>1. CASE \E i \in Insts :
               \/ StartScheduler(i) \/ StartWebhook(i) \/ StartWatcher(i)
               \/ Undo(i) \/ GiveUp(i) \/ WriteRow(i) \/ Map(i) \/ Activate(i)
               \/ Close(i) \/ Halt(i) \/ RowsOff(i) \/ StatusOff(i) \/ Unmap(i)
    BY <1>1, CallStored, CallLives, GiveUpStored
  <1>2. CASE \E w \in Workflows : (\E list \in Lists[w] : Start(w, list)) \/ Restore(w)
    BY <1>2, StartStored, RestoreStored
  <1>3. CASE Kill
    <2>1. nextInst' = nextInst /\ \A i \in Insts : inst'[i].w = None
      BY <1>3, KillLives
    <2>2. rows' = rows /\ active' = active /\ boot' = active
      BY <1>3 DEF Kill, storeVars
    <2>3. \A w \in Workflows : ~Busy(w)'
      BY <2>1, TriggersConstants DEF Busy
    <2> QED BY <2>1, <2>2, <2>3 DEF Stored
  <1>4. ASSUME NEW i \in Insts, SchedulerWrites(i)
        PROVE  Stored'
    <2>1. /\ ticker[i].pc = "write"
          /\ SetTriggerRuntime(ticker[i].w, ticker[i].id, ticker[i].n, TRUE, ticker[i].next)
      BY <1>4 DEF SchedulerWrites, TickerWrites
    <2>2. ticker[i].w \in Workflows /\ ticker[i].next \in Times
      BY <2>1 DEF Timely, Ticks, Ticker, Times
    <2>3. SameTriggers
      BY <2>1, <2>2, RuntimeTriggers
    <2>4. inst' = inst /\ nextInst' = nextInst /\ boot' = boot /\ active' = active
      BY <1>4 DEF SchedulerWrites, callVars
    <2>5. SameOrGone
      BY <2>4 DEF SameOrGone
    <2> QED BY <2>3, <2>4, <2>5, StoredKept
  <1>5. CASE UNCHANGED <<callVars, storeVars>>
    BY <1>5 DEF callVars, storeVars, Stored, Busy
  <1>6. CASE \/ UNCHANGED vars
             \/ \E i \in Insts : \/ SchedulerFires(i) \/ SchedulerEnqueues(i)
                                 \/ SchedulerStops(i) \/ FileEvent(i) \/ WatcherExits(i)
             \/ \E t \in Timers : DebounceFires(t) \/ DebounceCallback(t)
             \/ DebounceEnqueues \/ Time
    BY <1>5, <1>6 DEF vars, SchedulerFires, SchedulerEnqueues,
       SchedulerStops, FileEvent, WatcherExits, DebounceFires, DebounceCallback,
       DebounceEnqueues, Time, Rest
  <1> QED BY <1>1, <1>2, <1>3, <1>4, <1>6 DEF Next

Up == {"starting", "writing", "refused", "mapped", "active", "closed"}

(* The routes of a workflow are the keys of the webhooks started.              *)
Routed ==
  /\ routes \in [Keys -> Workflows \cup {None}]
  /\ \A k \in Keys : routes[k] # None =>
       \E i \in Insts :
         inst[i].w = routes[k] /\ k \in KeysOf(inst[i].list, inst[i].n) /\ inst[i].phase \in Up
  /\ \A i \in Insts : inst[i].phase \in Up =>
       \A k \in KeysOf(inst[i].list, inst[i].n) : routes[k] = inst[i].w

(* The keys of the webhooks among the first n + 1 triggers.                 *)
LEMMA NextKeys ==
  ASSUME NEW list \in TriggerLists, NEW n \in Nat, n + 1 \in 1..Len(list)
  PROVE  KeysOf(list, n + 1) = IF list[n + 1].kind = "webhook"
                                 THEN KeysOf(list, n) \cup {list[n + 1].key} ELSE KeysOf(list, n)
  <1>1. \A m \in 1..(n + 1) : m = n + 1 \/ m \in 1..n
    OBVIOUS
  <1>2. n + 1 \in 1..(n + 1) /\ \A m \in 1..n : m \in 1..(n + 1)
    OBVIOUS
  <1> QED BY <1>1, <1>2 DEF KeysOf

(* The keys of an instance are keys.                                        *)
LEMMA InstanceKeys ==
  ASSUME Lives, NEW i \in Insts
  PROVE  KeysOf(inst[i].list, inst[i].n) \subseteq Keys
  <1>1. /\ inst[i].list \in TriggerLists /\ inst[i].n \in Nat /\ inst[i].n <= Len(inst[i].list)
        /\ Len(inst[i].list) \in Nat
    BY ListTypes DEF Lives, Instance
  <1>2. \A m \in 1..inst[i].n : m \in 1..Len(inst[i].list)
    BY <1>1
  <1>3. \A m \in 1..Len(inst[i].list) : inst[i].list[m].kind = "webhook" => inst[i].list[m].key \in Keys
    BY <1>1, ListTypes, PlanOfTrigger
  <1> QED BY <1>2, <1>3 DEF KeysOf

(* An instance moves on with the routes it has.                                *)
LEMMA MoveRoutes ==
  ASSUME Lives, Routed, NEW i \in Insts, NEW phase, Moves(i, phase),
         phase \in Up <=> inst[i].phase \in Up,
         KeysOf(inst[i].list, inst'[i].n) = KeysOf(inst[i].list, inst[i].n), routes' = routes
  PROVE  Routed'
  <1>1. \A j \in Insts :
          /\ inst'[j].w = inst[j].w /\ (inst'[j].phase \in Up <=> inst[j].phase \in Up)
          /\ KeysOf(inst'[j].list, inst'[j].n) = KeysOf(inst[j].list, inst[j].n)
    BY DEF Moves, Became
  <1> QED BY <1>1 DEF Routed

(* An instance registers a key more.                                           *)
LEMMA RegisterRoutes ==
  ASSUME Lives, Routed, NEW i \in Insts, Moves(i, "writing"), inst[i].phase \in Up, NEW key \in Keys,
         KeysOf(inst[i].list, inst'[i].n) = KeysOf(inst[i].list, inst[i].n) \cup {key},
         Register(inst[i].w, key)
  PROVE  Routed'
  <1>1. /\ \A k \in Keys : routes'[k] = IF k = key THEN inst[i].w ELSE routes[k]
        /\ routes' \in [Keys -> Workflows \cup {None}]
        /\ routes[key] \in {None, inst[i].w} /\ inst[i].w # None
    BY DEF Routed, Register, Free, Moves
  <1>2. /\ \A j \in Insts : inst'[j].w = inst[j].w /\ (inst'[j].phase \in Up <=> inst[j].phase \in Up)
        /\ KeysOf(inst'[i].list, inst'[i].n) = KeysOf(inst[i].list, inst[i].n) \cup {key}
        /\ \A j \in Insts : j # i => inst'[j] = inst[j]
    BY DEF Moves, Became, Up
  <1>3. ASSUME NEW k \in Keys, routes'[k] # None
        PROVE  \E j \in Insts : /\ inst'[j].w = routes'[k] /\ inst'[j].phase \in Up
                                /\ k \in KeysOf(inst'[j].list, inst'[j].n)
    <2>1. CASE k = key
      BY <1>1, <1>2, <2>1
    <2>2. CASE k # key
      <3>1. PICK j \in Insts :
              inst[j].w = routes[k] /\ k \in KeysOf(inst[j].list, inst[j].n) /\ inst[j].phase \in Up
        BY <1>1, <1>3, <2>2 DEF Routed
      <3> QED BY <1>1, <1>2, <2>2, <3>1
    <2> QED BY <2>1, <2>2
  <1>4. ASSUME NEW j \in Insts, inst'[j].phase \in Up, NEW k \in KeysOf(inst'[j].list, inst'[j].n)
        PROVE  routes'[k] = inst'[j].w
    <2>1. CASE j = i
      <3>1. k = key \/ k \in KeysOf(inst[i].list, inst[i].n)
        BY <1>2, <1>4, <2>1
      <3>2. k \in Keys
        BY <3>1, InstanceKeys
      <3> QED BY <1>1, <1>2, <2>1, <3>1, <3>2 DEF Routed
    <2>2. CASE j # i
      <3>1. k \in KeysOf(inst[j].list, inst[j].n) /\ inst[j].phase \in Up
        BY <1>2, <1>4, <2>2
      <3>2. k \in Keys /\ routes[k] = inst[j].w
        BY <3>1, InstanceKeys DEF Routed
      <3>3. inst[j].w # None /\ inst[j].w # inst[i].w
        BY <1>1, <2>2, <3>1 DEF Lives, Up, Absent
      <3> QED BY <1>1, <1>2, <2>2, <3>2, <3>3
    <2> QED BY <2>1, <2>2
  <1> QED BY <1>1, <1>3, <1>4 DEF Routed

(* An instance that has its keys gives them back.                              *)
LEMMA UnregisterRoutes ==
  ASSUME Lives, Routed, NEW i \in Insts, NEW ks, KeysOf(inst[i].list, inst[i].n) \subseteq ks,
         inst[i].phase \notin Absent,
         Unregister(inst[i].w, ks), inst'[i].phase \notin Up,
         \A j \in Insts : j # i => inst'[j] = inst[j]
  PROVE  Routed'
  <1>1. /\ \A k \in Keys : routes'[k] = IF k \in ks /\ routes[k] = inst[i].w THEN None ELSE routes[k]
        /\ routes' \in [Keys -> Workflows \cup {None}]
    BY DEF Routed, Unregister
  <1>2. inst[i].w # None
    BY AtPhase
  <1>3. ASSUME NEW k \in Keys, routes'[k] # None
        PROVE  \E j \in Insts : /\ inst'[j].w = routes'[k] /\ inst'[j].phase \in Up
                                /\ k \in KeysOf(inst'[j].list, inst'[j].n)
    <2>1. routes'[k] = routes[k] /\ ~(k \in ks /\ routes[k] = inst[i].w)
      BY <1>1, <1>3
    <2>2. PICK j \in Insts :
            inst[j].w = routes[k] /\ k \in KeysOf(inst[j].list, inst[j].n) /\ inst[j].phase \in Up
      BY <1>3, <2>1 DEF Routed
    <2>3. j # i
      BY <2>1, <2>2
    <2> QED BY <2>1, <2>2, <2>3
  <1>4. ASSUME NEW j \in Insts, inst'[j].phase \in Up, NEW k \in KeysOf(inst'[j].list, inst'[j].n)
        PROVE  routes'[k] = inst'[j].w
    <2>1. j # i /\ inst'[j] = inst[j]
      BY <1>4
    <2>2. k \in Keys /\ routes[k] = inst[j].w
      BY <1>4, <2>1, InstanceKeys DEF Routed
    <2>3. inst[j].w # inst[i].w
      BY <1>2, <2>1 DEF Lives
    <2> QED BY <1>1, <2>1, <2>2, <2>3
  <1> QED BY <1>1, <1>3, <1>4 DEF Routed

(* Routed is inductive.                                                     *)
LEMMA RoutedStep ==
  ASSUME Lives, Stored, Timely, Routed, [Next]_vars
  PROVE  Routed'
  <1>1. ASSUME NEW i \in Insts, StartScheduler(i) \/ StartWatcher(i)
        PROVE  Routed'
    <2>1. /\ Moves(i, "writing") /\ inst[i].phase = "starting" /\ inst'[i].n = inst[i].n + 1
          /\ inst'[i].n \in 1..Len(inst[i].list) /\ inst[i].list[inst'[i].n].kind # "webhook"
      BY <1>1, SchedulerMoves, WatcherMoves
    <2>2. inst[i].list \in TriggerLists /\ inst[i].n \in Nat
      BY DEF Lives, Instance
    <2>3. KeysOf(inst[i].list, inst'[i].n) = KeysOf(inst[i].list, inst[i].n)
      BY <2>1, <2>2, NextKeys
    <2>4. routes' = routes
      BY <1>1 DEF StartScheduler, StartWatcher
    <2> QED BY <2>1, <2>3, <2>4, MoveRoutes DEF Up
  <1>2. ASSUME NEW i \in Insts, StartWebhook(i)
        PROVE  Routed'
    <2>1. inst[i].phase = "starting" /\ inst[i].list \in TriggerLists /\ inst[i].n \in Nat
      BY <1>2, WebhookMoves DEF Lives, Instance
    <2>2. CASE Moves(i, "refused") /\ inst'[i].n = inst[i].n /\ UNCHANGED routes
      BY <2>1, <2>2, MoveRoutes DEF Up
    <2>3. CASE /\ Moves(i, "writing") /\ Register(inst[i].w, inst[i].list[inst'[i].n].key)
               /\ inst'[i].n = inst[i].n + 1 /\ inst'[i].n \in 1..Len(inst[i].list)
               /\ inst[i].list[inst'[i].n].kind = "webhook"
      <3> DEFINE key == inst[i].list[inst'[i].n].key
      <3>1. key \in Keys
        BY <2>1, <2>3, ListTypes, PlanOfTrigger
      <3>2. KeysOf(inst[i].list, inst'[i].n) = KeysOf(inst[i].list, inst[i].n) \cup {key}
        BY <2>1, <2>3, NextKeys
      <3>3. Register(inst[i].w, key) /\ Moves(i, "writing") /\ inst[i].phase \in Up
        BY <2>1, <2>3 DEF Up
      <3> HIDE DEF key
      <3> QED BY <3>1, <3>2, <3>3, RegisterRoutes
    <2> QED BY <1>2, <2>2, <2>3, WebhookMoves
  <1>3. ASSUME NEW i \in Insts,
               WriteRow(i) \/ Map(i) \/ Activate(i) \/ Close(i) \/ RowsOff(i) \/ StatusOff(i)
        PROVE  Routed'
    <2>1. /\ \E phase : Moves(i, phase) /\ (phase \in Up <=> inst[i].phase \in Up)
          /\ inst'[i].n = inst[i].n
      BY <1>3, PlainMoves, WriteMoves DEF Up
    <2>2. routes' = routes
      BY <1>3 DEF WriteRow, Map, Activate, Close, RowsOff, StatusOff
    <2> QED BY <2>1, <2>2, MoveRoutes
  <1>4. ASSUME NEW i \in Insts, Undo(i) \/ Halt(i)
        PROVE  Routed'
    <2>1. /\ Moves(i, "undone") \/ Moves(i, "halted")
          /\ inst[i].phase \notin Absent
          /\ Unregister(inst[i].w, KeysOf(inst[i].list, inst[i].n))
      BY <1>4, PlainMoves DEF Undo, Halt, Absent
    <2>2. inst'[i].phase \notin Up /\ \A j \in Insts : j # i => inst'[j] = inst[j]
      BY <2>1 DEF Moves, Became, Up
    <2> QED BY <2>1, <2>2, UnregisterRoutes
  <1>5. ASSUME NEW i \in Insts, Unmap(i)
        PROVE  Routed'
    <2>1. /\ inst[i].phase \notin Absent /\ Unregister(inst[i].w, Keys)
          /\ inst'[i].phase = "gone" /\ \A j \in Insts : j # i => inst'[j] = inst[j]
      BY <1>5 DEF Unmap, RemoveWorkflow, At, Absent, Lives, Gone, NoInst
    <2>2. KeysOf(inst[i].list, inst[i].n) \subseteq Keys
      BY InstanceKeys
    <2> QED BY <2>1, <2>2, UnregisterRoutes DEF Up
  <1>6. ASSUME NEW i \in Insts, GiveUp(i)
        PROVE  Routed'
    <2>1. /\ inst[i].phase = "undone" /\ inst'[i].phase = "gone" /\ routes' = routes
          /\ \A j \in Insts : j # i => inst'[j] = inst[j]
      BY <1>6 DEF GiveUp, At, Lives, Gone, NoInst
    <2>2. inst[i].phase \notin Up /\ inst'[i].phase \notin Up
      BY <2>1 DEF Up
    <2> QED BY <2>1, <2>2 DEF Routed
  <1>7. ASSUME NEW w \in Workflows, (\E list \in Lists[w] : Start(w, list)) \/ Restore(w)
        PROVE  Routed'
    <2>1. /\ \E list, row, restoring : Begins(w, list, row, restoring) /\ list \in TriggerLists
          /\ routes' = routes
      <3>1. CASE Restore(w)
        BY <3>1, RestoreBegins DEF Restore
      <3>2. CASE \E list \in Lists[w] : Start(w, list)
        BY <3>2, StartBegins DEF Start
      <3> QED BY <1>7, <3>1, <3>2
    <2>2. /\ \A j \in Insts : j # nextInst => inst'[j] = inst[j]
          /\ inst'[nextInst].n = 0
      BY <2>1 DEF Begins
    <2>3. nextInst \in Insts => inst[nextInst].phase \notin Up
      BY DEF Lives, Up, Insts
    <2>4. \A list : KeysOf(list, 0) = {}
      BY DEF KeysOf
    <2> QED BY <2>1, <2>2, <2>3, <2>4 DEF Routed
  <1>8. CASE Kill
    <2>1. \A i \in Insts : inst'[i].phase = "none"
      BY <1>8, KillLives
    <2>2. routes' = [k \in Keys |-> None]
      BY <1>8 DEF Kill
    <2> QED BY <2>1, <2>2 DEF Routed, Up
  <1>9. CASE UNCHANGED <<callVars, routes>>
    BY <1>9 DEF callVars, Routed
  <1>10. CASE \/ UNCHANGED vars
              \/ \E i \in Insts : \/ SchedulerFires(i) \/ SchedulerEnqueues(i) \/ SchedulerWrites(i)
                                  \/ SchedulerStops(i) \/ FileEvent(i) \/ WatcherExits(i)
              \/ \E t \in Timers : DebounceFires(t) \/ DebounceCallback(t)
              \/ DebounceEnqueues \/ Time
    BY <1>9, <1>10 DEF vars, SchedulerFires, SchedulerEnqueues, SchedulerWrites, SchedulerStops,
       FileEvent, WatcherExits, DebounceFires, DebounceCallback, DebounceEnqueues, Time, Rest
  <1> QED BY <1>1, <1>2, <1>3, <1>4, <1>5, <1>6, <1>7, <1>8, <1>10 DEF Next

Kinds == EventKinds \cup {None}
Watcher ==
  [pc : {"off", "on", "exited"}, w : Workflows \cup {None}, want : EventKinds \cup {"any"},
   timers : [Files -> 0..MaxEvents], kinds : [Files -> Kinds]]
Timer == [i : 0..MaxInst, file : Files \cup {None}, armed : BOOLEAN, due : Nat, again : BOOLEAN]

WatcherTypes ==
  /\ watcher \in [Insts -> Watcher]
  /\ timer \in [Timers -> Timer]
  /\ events \in 0..MaxEvents

InMap(t) == watcher[timer[t].i].timers[timer[t].file] = t

(* A fired timer of a file was reset. *)
Reset(i, f) == \E s \in Timers : timer[s].again /\ timer[s].i = i /\ timer[s].file = f

TimerOK(t) ==
  /\ t > events => timer[t] = NoTimer
  /\ timer[t] # NoTimer => timer[t].i \in Insts /\ timer[t].file \in Files
  /\ timer[t].armed =>
       \/ watcher[timer[t].i].pc = "on" /\ InMap(t)
       \/ Reset(timer[t].i, timer[t].file)
  /\ timer[t].due > 0 => InMap(t) \/ Reset(timer[t].i, timer[t].file)
  /\ timer[t].armed /\ timer[t].due > 0 => timer[t].again
  /\ timer[t].due > 1 => timer[t].again

EntryOK(i, f) ==
  LET t == watcher[i].timers[f]
  IN /\ t # 0 => t <= events /\ timer[t].i = i /\ timer[t].file = f
     /\ watcher[i].pc # "exited" /\ watcher[i].kinds[f] # None =>
          t # 0 /\ (timer[t].armed \/ timer[t].due > 0)

(* Timers and the maps of the watchers: a timer that can still report is in   *)
(* the map of its watcher, or one of its file was reset after it had fired.    *)
Watching ==
  /\ WatcherTypes
  /\ \A i \in Insts : watcher[i].pc = "exited" => i \in stopped
  /\ \A t \in Timers : TimerOK(t)
  /\ \A i \in Insts, f \in Files : EntryOK(i, f)

(* The invariant of the watchers gives the two properties of FileWatcher.   *)
LEMMA WatchingMeans ==
  ASSUME Watching
  PROVE  EventIsKept /\ ArmedIsStoppable
  <1>1. EventIsKept
    BY DEF Watching, EntryOK, EventIsKept
  <1>2. ArmedIsStoppable
    BY DEF Watching, TimerOK, InMap, Reset, ArmedIsStoppable
  <1> QED BY <1>1, <1>2

(* The kind of a set of operations.                                         *)
LEMMA KindTypes ==
  ASSUME NEW ops
  PROVE  KindOf(ops) \in Kinds
  BY DEF KindOf, Kinds, EventKinds

(* The fields of a timer.                                                      *)
LEMMA TimerFields ==
  ASSUME WatcherTypes, NEW t \in Timers
  PROVE  /\ timer[t].i \in 0..MaxInst /\ timer[t].file \in Files \cup {None}
         /\ timer[t].armed \in BOOLEAN /\ timer[t].due \in Nat /\ timer[t].again \in BOOLEAN
         /\ t \in Nat /\ t # 0
  BY TriggersConstants DEF WatcherTypes, Timer, Timers

(* A timer that has not been made.                                          *)
LEMMA NoTimerFields ==
  /\ NoTimer \in Timer /\ NoTimer.i = 0 /\ NoTimer.file = None /\ NoTimer.armed = FALSE
  /\ NoTimer.due = 0 /\ NoTimer.again = FALSE
  BY TriggersConstants DEF NoTimer, Timer

(* Steps elsewhere keep Watching.                                           *)
LEMMA SameWatching ==
  ASSUME Watching, UNCHANGED watcherVars, stopped \subseteq stopped'
  PROVE  Watching'
  BY DEF Watching, WatcherTypes, watcherVars, TimerOK, EntryOK, InMap, Reset

(* A watcher that starts has an empty map.                                  *)
LEMMA WatchWatching ==
  ASSUME Watching, NEW i \in Insts, i \notin stopped, NEW w \in Workflows,
         NEW want \in EventKinds \cup {"any"}, Watch(i, w, want), stopped' = stopped
  PROVE  Watching'
  <1> DEFINE new == [watcher[i] EXCEPT !.pc = "on", !.w = w, !.want = want]
  <1>1. watcher[i].pc # "exited" /\ watcher[i] \in Watcher
    BY DEF Watching, WatcherTypes
  <1>2. /\ new \in Watcher /\ new.pc = "on" /\ new.timers = watcher[i].timers
        /\ new.kinds = watcher[i].kinds
    BY <1>1 DEF Watcher
  <1>3. watcher' = [watcher EXCEPT ![i] = new] /\ timer' = timer /\ events' = events
    BY DEF Watch
  <1> HIDE DEF new
  <1>4. /\ watcher' \in [Insts -> Watcher] /\ watcher'[i] = new
        /\ \A j \in Insts : j # i => watcher'[j] = watcher[j]
    BY <1>2, <1>3 DEF Watching, WatcherTypes
  <1>5. \A j \in Insts : /\ watcher'[j].timers = watcher[j].timers /\ watcher'[j].kinds = watcher[j].kinds
                         /\ watcher'[j].pc = "exited" <=> watcher[j].pc = "exited"
                         /\ watcher[j].pc = "on" => watcher'[j].pc = "on"
    BY <1>1, <1>2, <1>4
  <1>6. \A t \in Timers : TimerOK(t)'
    <2> SUFFICES ASSUME NEW t \in Timers PROVE TimerOK(t)'
      OBVIOUS
    <2>1. CASE timer[t] = NoTimer
      BY <1>3, <2>1, NoTimerFields DEF TimerOK
    <2>2. CASE timer[t] # NoTimer
      <3>1. TimerOK(t) /\ timer[t].i \in Insts
        BY <2>2 DEF Watching, TimerOK
      <3>2. InMap(t)' <=> InMap(t)
        BY <1>3, <1>5, <3>1 DEF InMap
      <3>3. \A j, f : Reset(j, f)' <=> Reset(j, f)
        BY <1>3 DEF Reset
      <3>4. watcher[timer[t].i].pc = "on" => watcher'[timer[t].i].pc = "on"
        BY <1>5, <3>1
      <3> QED BY <1>3, <3>1, <3>2, <3>3, <3>4 DEF TimerOK
    <2> QED BY <2>1, <2>2
  <1>7. \A j \in Insts, f \in Files : EntryOK(j, f)'
    BY <1>3, <1>5 DEF Watching, EntryOK
  <1>8. WatcherTypes'
    BY <1>3, <1>4 DEF Watching, WatcherTypes
  <1> QED BY <1>5, <1>6, <1>7, <1>8 DEF Watching

(* An event arms the timer of its file, a new one or the one in the map.    *)
LEMMA EventWatching ==
  ASSUME Watching, NEW i \in Insts, NEW f \in Files, NEW ops, Event(i, f, ops), stopped' = stopped
  PROVE  Watching'
  <1> DEFINE known == watcher[i].timers[f]
             t == IF known = 0 THEN events + 1 ELSE known
             new == [i |-> i, file |-> f, armed |-> TRUE, due |-> timer[t].due,
                     again |-> timer[t].again \/ timer[t].due > 0]
             maps == [watcher[i] EXCEPT !.timers[f] = t, !.kinds[f] = KindOf(ops)]
  <1>1. /\ watcher[i].pc = "on" /\ events < MaxEvents /\ events' = events + 1
        /\ events \in Nat /\ KindOf(ops) \in Kinds
    BY KindTypes, TriggersConstants DEF Event, Watching, WatcherTypes
  <1>2. /\ watcher[i] \in Watcher /\ watcher[i].timers \in [Files -> 0..MaxEvents]
        /\ watcher[i].kinds \in [Files -> Kinds]
    BY DEF Watching, WatcherTypes, Watcher
  <1>3. /\ known \in 0..MaxEvents
        /\ known # 0 => known <= events /\ timer[known].i = i /\ timer[known].file = f
    BY <1>2 DEF Watching, EntryOK
  <1>4. t \in Timers /\ t # 0 /\ t <= events + 1 /\ t \in 0..MaxEvents
    BY <1>1, <1>3, TriggersConstants DEF Timers
  <1>5. /\ known = 0 => t = events + 1 /\ timer[t] = NoTimer
        /\ known # 0 => t = known
    BY <1>1, <1>4 DEF Watching, TimerOK
  <1>6. /\ timer' = [timer EXCEPT ![t] = new]
        /\ watcher' = [watcher EXCEPT ![i].timers[f] = t, ![i].kinds[f] = KindOf(ops)]
    BY DEF Event
  <1>7. /\ new \in Timer /\ new.i = i /\ new.file = f /\ new.armed /\ new.due = timer[t].due
        /\ new.again <=> timer[t].again \/ timer[t].due > 0
    <2> DEFINE again == timer[t].again \/ timer[t].due > 0
    <2>1. again \in BOOLEAN /\ i \in 0..MaxInst /\ timer[t].due \in Nat
      BY <1>4, TimerFields, TriggersConstants DEF Watching, Insts
    <2>2. new = [i |-> i, file |-> f, armed |-> TRUE, due |-> timer[t].due, again |-> again]
      OBVIOUS
    <2> HIDE DEF new, again
    <2>3. /\ new \in Timer /\ new.i = i /\ new.file = f /\ new.armed /\ new.due = timer[t].due
          /\ new.again = again
      BY <2>1, <2>2 DEF Timer
    <2> QED BY <2>3 DEF again
  <1> HIDE DEF new, t, known
  <1>8. /\ timer' \in [Timers -> Timer] /\ timer'[t] = new
        /\ \A s \in Timers : s # t => timer'[s] = timer[s]
    BY <1>4, <1>6, <1>7 DEF Watching, WatcherTypes
  <1>9. /\ maps \in Watcher /\ maps.pc = "on"
        /\ maps.timers = [watcher[i].timers EXCEPT ![f] = t]
        /\ maps.kinds = [watcher[i].kinds EXCEPT ![f] = KindOf(ops)]
    <2> DEFINE a == [watcher[i] EXCEPT !.timers[f] = t]
    <2>1. a \in Watcher /\ a.pc = "on" /\ a.timers = [watcher[i].timers EXCEPT ![f] = t]
          /\ a.kinds = watcher[i].kinds
      BY <1>1, <1>2, <1>4 DEF Watcher
    <2>2. maps = [a EXCEPT !.kinds[f] = KindOf(ops)]
      OBVIOUS
    <2> HIDE DEF a, maps
    <2> QED BY <1>1, <2>1, <2>2 DEF Watcher
  <1>10. /\ watcher' \in [Insts -> Watcher] /\ watcher'[i] = maps
         /\ \A j \in Insts : j # i => watcher'[j] = watcher[j]
    <2> DEFINE b == [watcher EXCEPT ![i].timers[f] = t]
    <2>1. /\ b[i] = [watcher[i] EXCEPT !.timers[f] = t] /\ DOMAIN b = Insts
          /\ \A j \in Insts : j # i => b[j] = watcher[j]
      BY DEF Watching, WatcherTypes
    <2>2. watcher' = [b EXCEPT ![i].kinds[f] = KindOf(ops)]
      BY <1>6
    <2> HIDE DEF b
    <2>3. /\ watcher'[i] = maps /\ watcher' = [j \in Insts |-> watcher'[j]]
          /\ \A j \in Insts : j # i => watcher'[j] = watcher[j]
      BY <2>1, <2>2
    <2>4. \A j \in Insts : watcher[j] \in Watcher
      BY DEF Watching, WatcherTypes
    <2> HIDE DEF maps
    <2> QED BY <1>9, <2>3, <2>4
  <1> HIDE DEF maps
  <1>11. /\ watcher'[i].timers[f] = t /\ watcher'[i].kinds[f] = KindOf(ops)
         /\ \A j \in Insts : watcher'[j].pc = watcher[j].pc
         /\ \A j \in Insts, g \in Files : <<j, g>> # <<i, f>> =>
              /\ watcher'[j].timers[g] = watcher[j].timers[g]
              /\ watcher'[j].kinds[g] = watcher[j].kinds[g]
    BY <1>1, <1>2, <1>9, <1>10
  <1>12. \A j, g : Reset(j, g) => Reset(j, g)'
    <2> SUFFICES ASSUME NEW j, NEW g, NEW s \in Timers,
                        timer[s].again, timer[s].i = j, timer[s].file = g
                 PROVE  timer'[s].again /\ timer'[s].i = j /\ timer'[s].file = g
      BY DEF Reset
    <2>1. CASE s = t
      <3>1. known # 0
        BY <1>5, <2>1, NoTimerFields
      <3> QED BY <1>3, <1>5, <1>7, <1>8, <2>1, <3>1
    <2>2. CASE s # t
      BY <1>8, <2>2
    <2> QED BY <2>1, <2>2
  <1>13. ASSUME NEW s \in Timers PROVE TimerOK(s)'
    <2>1. CASE s = t
      <3>1. /\ timer'[s].i = i /\ timer'[s].file = f /\ timer'[s].armed
            /\ timer'[s].due > 0 => timer'[s].again
            /\ watcher'[i].pc = "on" /\ watcher'[i].timers[f] = s /\ s <= events'
        BY <1>1, <1>4, <1>7, <1>8, <1>11, <2>1
      <3>2. timer'[s].due \in Nat /\ events' \in Nat /\ s \in Nat
        BY <1>1, <1>7, <1>8, <2>1, TimerFields DEF Timer, Timers
      <3> QED BY <3>1, <3>2 DEF TimerOK, InMap
    <2>2. CASE s # t
      <3>1. timer'[s] = timer[s] /\ TimerOK(s) /\ s \in Nat
        BY <1>8, <2>2 DEF Watching, Timers
      <3>2. CASE timer[s] = NoTimer
        BY <3>1, <3>2, NoTimerFields DEF TimerOK
      <3>3. CASE timer[s] # NoTimer
        <4>1. timer[s].i \in Insts /\ timer[s].file \in Files
          BY <3>1, <3>3 DEF TimerOK
        <4>2. InMap(s) => InMap(s)'
          <5>1. CASE <<timer[s].i, timer[s].file>> = <<i, f>>
            BY <1>4, <1>5, <2>2, <5>1, TimerFields DEF InMap, known, Watching
          <5>2. CASE <<timer[s].i, timer[s].file>> # <<i, f>>
            BY <1>11, <3>1, <4>1, <5>2 DEF InMap
          <5> QED BY <5>1, <5>2
        <4>3. watcher[timer[s].i].pc = watcher'[timer[s].i].pc
          BY <1>11, <4>1
        <4> QED BY <1>1, <1>12, <3>1, <3>3, <4>1, <4>2, <4>3 DEF TimerOK
      <3> QED BY <3>2, <3>3
    <2> QED BY <2>1, <2>2
  <1>14. ASSUME NEW j \in Insts, NEW g \in Files PROVE EntryOK(j, g)'
    <2>1. CASE <<j, g>> = <<i, f>>
      <3>1. watcher'[j].timers[g] = t /\ timer'[t].armed /\ timer'[t].i = j /\ timer'[t].file = g
        BY <1>7, <1>8, <1>11, <2>1
      <3> QED BY <1>1, <1>4, <3>1 DEF EntryOK
    <2>2. CASE <<j, g>> # <<i, f>>
      <3> DEFINE u == watcher[j].timers[g]
      <3>1. /\ EntryOK(j, g) /\ u \in 0..MaxEvents
            /\ watcher'[j].timers[g] = u /\ watcher'[j].kinds[g] = watcher[j].kinds[g]
            /\ watcher'[j].pc = watcher[j].pc
        BY <1>11, <2>2 DEF Watching, WatcherTypes, Watcher
      <3>2. u # 0 => u \in Timers /\ u # t
        BY <1>1, <1>3, <1>5, <2>2, <3>1 DEF EntryOK, Timers
      <3>3. u # 0 => timer'[u] = timer[u]
        BY <1>8, <3>2
      <3> QED BY <1>1, <3>1, <3>3 DEF EntryOK
    <2> QED BY <2>1, <2>2
  <1>15. WatcherTypes'
    BY <1>1, <1>8, <1>10, TriggersConstants DEF WatcherTypes
  <1>16. \A j \in Insts : watcher'[j].pc = "exited" => j \in stopped'
    BY <1>11 DEF Watching
  <1> QED BY <1>13, <1>14, <1>15, <1>16 DEF Watching

(* A timer that fires leaves its callback to come.                          *)
LEMMA FireWatching ==
  ASSUME Watching, NEW t \in Timers, TimerFires(t), stopped' = stopped
  PROVE  Watching'
  <1> DEFINE new == [timer[t] EXCEPT !.armed = FALSE, !.due = timer[t].due + 1]
  <1>1. /\ timer[t].armed /\ watcher' = watcher /\ events' = events
        /\ timer' = [timer EXCEPT ![t].armed = FALSE, ![t].due = timer[t].due + 1]
    BY DEF TimerFires
  <1>2. WatcherTypes /\ timer[t] \in Timer /\ timer[t].due \in Nat /\ TimerOK(t)
    BY DEF Watching, WatcherTypes, Timer
  <1>3. /\ new \in Timer /\ new.i = timer[t].i /\ new.file = timer[t].file /\ ~new.armed
        /\ new.due = timer[t].due + 1 /\ new.again = timer[t].again
    <2> DEFINE a == [timer[t] EXCEPT !.armed = FALSE]
    <2>1. /\ a \in Timer /\ a.i = timer[t].i /\ a.file = timer[t].file /\ ~a.armed
          /\ a.due = timer[t].due /\ a.again = timer[t].again
      BY <1>2 DEF Timer
    <2>2. new = [a EXCEPT !.due = timer[t].due + 1]
      OBVIOUS
    <2> HIDE DEF a, new
    <2> QED BY <1>2, <2>1, <2>2 DEF Timer
  <1>4. /\ timer' \in [Timers -> Timer] /\ timer'[t] = new
        /\ \A s \in Timers : s # t => timer'[s] = timer[s]
    <2> DEFINE a == [timer EXCEPT ![t].armed = FALSE]
    <2>1. /\ a[t] = [timer[t] EXCEPT !.armed = FALSE] /\ DOMAIN a = Timers
          /\ \A s \in Timers : s # t => a[s] = timer[s]
      BY DEF Watching, WatcherTypes
    <2>2. timer' = [a EXCEPT ![t].due = timer[t].due + 1]
      BY <1>1
    <2> HIDE DEF a
    <2>3. /\ timer'[t] = new /\ timer' = [s \in Timers |-> timer'[s]]
          /\ \A s \in Timers : s # t => timer'[s] = timer[s]
      BY <2>1, <2>2
    <2>4. \A s \in Timers : timer[s] \in Timer
      BY DEF Watching, WatcherTypes
    <2> HIDE DEF new
    <2> QED BY <1>3, <2>3, <2>4
  <1> HIDE DEF new
  <1>5. \A s \in Timers : /\ timer'[s].i = timer[s].i /\ timer'[s].file = timer[s].file
                          /\ timer'[s].again = timer[s].again
    BY <1>3, <1>4
  <1>6. /\ \A i, f : Reset(i, f)' <=> Reset(i, f)
        /\ \A s \in Timers : InMap(s)' <=> InMap(s)
    BY <1>1, <1>5 DEF Reset, InMap
  <1>7. timer[t] # NoTimer /\ timer[t].i \in Insts /\ timer[t].file \in Files /\ t <= events
    BY <1>1, <1>2, NoTimerFields DEF TimerOK, WatcherTypes, Timers
  <1>8. \A s \in Timers : TimerOK(s)'
    <2> SUFFICES ASSUME NEW s \in Timers PROVE TimerOK(s)'
      OBVIOUS
    <2>1. CASE s = t
      <3>1. timer'[t].due > 0 => InMap(t) \/ Reset(timer[t].i, timer[t].file)
        BY <1>1, <1>2 DEF TimerOK
      <3>2. timer'[t].due > 1 => timer[t].again
        BY <1>1, <1>2, <1>3, <1>4 DEF TimerOK
      <3>3. ~timer'[t].armed /\ timer'[t].i \in Insts /\ timer'[t].file \in Files
            /\ ~(t > events') /\ t \in Nat /\ events' \in Nat
        BY <1>1, <1>2, <1>3, <1>4, <1>5, <1>7, TriggersConstants DEF Timers, WatcherTypes
      <3> QED BY <1>5, <1>6, <2>1, <3>1, <3>2, <3>3 DEF TimerOK
    <2>2. CASE s # t
      <3>1. timer'[s] = timer[s] /\ TimerOK(s)
        BY <1>4, <2>2 DEF Watching
      <3> QED BY <1>1, <1>6, <3>1 DEF TimerOK
    <2> QED BY <2>1, <2>2
  <1>9. ASSUME NEW j \in Insts, NEW g \in Files PROVE EntryOK(j, g)'
    <2>1. EntryOK(j, g) /\ watcher[j].timers[g] \in 0..MaxEvents
      BY DEF Watching, WatcherTypes, Watcher
    <2>2. watcher[j].timers[g] # 0 => watcher[j].timers[g] \in Timers
      BY <2>1, TriggersConstants DEF Timers
    <2>3. timer'[t].due > 0
      BY <1>2, <1>3, <1>4
    <2> QED BY <1>1, <1>4, <1>5, <2>1, <2>2, <2>3 DEF EntryOK
  <1> QED BY <1>1, <1>4, <1>8, <1>9 DEF Watching, WatcherTypes

(* The callback takes its timer out of the map, or drops what is not there. *)
LEMMA CallbackWatching ==
  ASSUME Watching, NEW t \in Timers, Callback(t), stopped' = stopped
  PROVE  Watching'
  <1> DEFINE i == timer[t].i
             f == timer[t].file
             new == [timer[t] EXCEPT !.due = timer[t].due - 1]
             maps == [watcher[i] EXCEPT !.timers[f] = 0, !.kinds[f] = None]
  <1>1. /\ timer[t].due > 0 /\ events' = events
        /\ timer' = [timer EXCEPT ![t].due = timer[t].due - 1]
        /\ watcher' = [watcher EXCEPT ![i].timers[f] = 0, ![i].kinds[f] = None]
    BY DEF Callback
  <1>2. WatcherTypes /\ timer[t] \in Timer /\ timer[t].due \in Nat /\ TimerOK(t)
    BY DEF Watching, WatcherTypes, Timer
  <1>3. /\ new \in Timer /\ new.i = timer[t].i /\ new.file = timer[t].file
        /\ new.armed = timer[t].armed
        /\ new.due = timer[t].due - 1 /\ new.again = timer[t].again
    BY <1>1, <1>2 DEF Timer
  <1>4. i \in Insts /\ f \in Files /\ timer[t] # NoTimer
    BY <1>1, <1>2, NoTimerFields DEF TimerOK
  <1>5. /\ timer' \in [Timers -> Timer] /\ timer'[t] = new
        /\ \A s \in Timers : s # t => timer'[s] = timer[s]
    <2>1. timer' = [timer EXCEPT ![t] = new]
      BY <1>1
    <2> HIDE DEF new
    <2> QED BY <1>3, <2>1 DEF Watching, WatcherTypes
  <1> HIDE DEF new, i, f
  <1>6. /\ watcher[i] \in Watcher /\ watcher[i].timers \in [Files -> 0..MaxEvents]
        /\ watcher[i].kinds \in [Files -> Kinds]
    BY <1>4 DEF Watching, WatcherTypes, Watcher
  <1>7. /\ maps \in Watcher /\ maps.pc = watcher[i].pc
        /\ maps.timers = [watcher[i].timers EXCEPT ![f] = 0]
        /\ maps.kinds = [watcher[i].kinds EXCEPT ![f] = None]
    <2> DEFINE a == [watcher[i] EXCEPT !.timers[f] = 0]
    <2>1. a \in Watcher /\ a.pc = watcher[i].pc /\ a.timers = [watcher[i].timers EXCEPT ![f] = 0]
          /\ a.kinds = watcher[i].kinds
      BY <1>4, <1>6, TriggersConstants DEF Watcher
    <2>2. maps = [a EXCEPT !.kinds[f] = None]
      OBVIOUS
    <2> HIDE DEF a, maps
    <2> QED BY <1>4, <1>6, <2>1, <2>2 DEF Watcher, Kinds
  <1>8. /\ watcher' \in [Insts -> Watcher] /\ watcher'[i] = maps
        /\ \A j \in Insts : j # i => watcher'[j] = watcher[j]
    <2> DEFINE b == [watcher EXCEPT ![i].timers[f] = 0]
    <2>1. /\ b[i] = [watcher[i] EXCEPT !.timers[f] = 0] /\ DOMAIN b = Insts
          /\ \A j \in Insts : j # i => b[j] = watcher[j]
      BY <1>4 DEF Watching, WatcherTypes
    <2>2. watcher' = [b EXCEPT ![i].kinds[f] = None]
      BY <1>1
    <2> HIDE DEF b
    <2>3. /\ watcher'[i] = maps /\ watcher' = [j \in Insts |-> watcher'[j]]
          /\ \A j \in Insts : j # i => watcher'[j] = watcher[j]
      BY <1>4, <2>1, <2>2
    <2>4. \A j \in Insts : watcher[j] \in Watcher
      BY DEF Watching, WatcherTypes
    <2> HIDE DEF maps
    <2> QED BY <1>7, <2>3, <2>4
  <1> HIDE DEF maps
  <1>9. /\ watcher'[i].timers[f] = 0 /\ watcher'[i].kinds[f] = None
        /\ \A j \in Insts : watcher'[j].pc = watcher[j].pc
        /\ \A j \in Insts, g \in Files : <<j, g>> # <<i, f>> =>
             /\ watcher'[j].timers[g] = watcher[j].timers[g]
             /\ watcher'[j].kinds[g] = watcher[j].kinds[g]
    BY <1>4, <1>6, <1>7, <1>8
  <1>10. \A s \in Timers : /\ timer'[s].i = timer[s].i /\ timer'[s].file = timer[s].file
                           /\ timer'[s].again = timer[s].again /\ timer'[s].armed = timer[s].armed
    BY <1>3, <1>5
  <1>11. \A j, g : Reset(j, g)' <=> Reset(j, g)
    BY <1>10 DEF Reset
  <1>12. ASSUME NEW s \in Timers PROVE TimerOK(s)'
    <2>1. TimerOK(s) /\ (s = t => timer'[s].due = timer[s].due - 1 /\ timer[s].due > 0)
          /\ timer[s].due \in Nat
      BY <1>1, <1>2, <1>3, <1>5, TimerFields DEF Watching
    <2>2. s # t => timer'[s] = timer[s]
      BY <1>5
    <2>3. CASE timer[s] = NoTimer
      BY <1>1, <1>4, <2>2, <2>3, NoTimerFields DEF TimerOK
    <2>4. CASE timer[s] # NoTimer /\ <<timer[s].i, timer[s].file>> # <<i, f>>
      <3>1. timer'[s] = timer[s] /\ timer[s].i \in Insts /\ timer[s].file \in Files
        BY <2>1, <2>2, <2>4 DEF TimerOK, i, f
      <3>2. InMap(s)' <=> InMap(s)
        BY <1>9, <2>4, <3>1 DEF InMap
      <3> QED BY ZenonT(40), <1>1, <1>9, <1>11, <2>1, <3>1, <3>2 DEF TimerOK
    <2>5. CASE timer[s] # NoTimer /\ timer[s].i = i /\ timer[s].file = f
      <3>1. timer'[s].armed \/ timer'[s].due > 0 => Reset(i, f)
        <4>1. CASE s = t
          <5>1. timer'[s].armed \/ timer'[s].due > 0 => timer[s].again
            BY <1>10, <2>1, <4>1 DEF TimerOK
          <5> QED BY <2>5, <5>1 DEF Reset
        <4>2. CASE s # t
          <5>1. InMap(t) => ~InMap(s)
            BY <2>5, <4>2 DEF InMap, i, f
          <5>2. CASE InMap(t)
            BY <2>1, <2>2, <2>5, <4>2, <5>1, <5>2 DEF TimerOK
          <5>3. CASE ~InMap(t)
            BY <1>1, <1>2, <5>3 DEF TimerOK, i, f
          <5> QED BY <5>2, <5>3
        <4> QED BY <4>1, <4>2
      <3>2. timer'[s].armed /\ timer'[s].due > 0 => timer'[s].again
        BY <1>10, <2>1, <2>2 DEF TimerOK
      <3>3. timer'[s].due > 1 => timer'[s].again
        BY <1>10, <2>1, <2>2 DEF TimerOK
      <3>4. s > events' => FALSE
        BY <1>1, <2>1, <2>5 DEF TimerOK
      <3> QED BY <1>4, <1>10, <1>11, <2>5, <3>1, <3>2, <3>3, <3>4 DEF TimerOK
    <2> QED BY <2>3, <2>4, <2>5
  <1>13. ASSUME NEW j \in Insts, NEW g \in Files PROVE EntryOK(j, g)'
    <2>1. CASE <<j, g>> = <<i, f>>
      BY SMTT(30), <1>9, <2>1 DEF EntryOK
    <2>2. CASE <<j, g>> # <<i, f>>
      <3> DEFINE u == watcher[j].timers[g]
      <3>1. /\ EntryOK(j, g) /\ u \in 0..MaxEvents
            /\ watcher'[j].timers[g] = u /\ watcher'[j].kinds[g] = watcher[j].kinds[g]
            /\ watcher'[j].pc = watcher[j].pc
        BY <1>9, <2>2 DEF Watching, WatcherTypes, Watcher
      <3>2. u # 0 => u \in Timers /\ u # t
        BY <2>2, <3>1, TriggersConstants DEF EntryOK, Timers, i, f
      <3>3. u # 0 => timer'[u] = timer[u]
        BY <1>5, <3>2
      <3> QED BY <1>1, <3>1, <3>3 DEF EntryOK
    <2> QED BY <2>1, <2>2
  <1>14. \A j \in Insts : watcher'[j].pc = "exited" => j \in stopped'
    BY <1>9 DEF Watching
  <1> QED BY <1>1, <1>2, <1>5, <1>8, <1>12, <1>13, <1>14 DEF Watching, WatcherTypes

(* The goroutine that exits stops the timers in its map.                    *)
LEMMA StopWatching ==
  ASSUME Watching, NEW i \in Insts, i \in stopped, WatcherStops(i), stopped' = stopped
  PROVE  Watching'
  <1>1. /\ events' = events /\ watcher' = [watcher EXCEPT ![i].pc = "exited"]
        /\ timer' = [t \in Timers |->
             IF \E f \in Files : watcher[i].timers[f] = t
               THEN [timer[t] EXCEPT !.armed = FALSE] ELSE timer[t]]
    BY DEF WatcherStops
  <1>2. /\ watcher' \in [Insts -> Watcher] /\ watcher'[i].pc = "exited"
        /\ \A j \in Insts : j # i => watcher'[j] = watcher[j]
        /\ \A j \in Insts : /\ watcher'[j].timers = watcher[j].timers
                            /\ watcher'[j].kinds = watcher[j].kinds
    BY <1>1 DEF Watching, WatcherTypes, Watcher
  <1>3. ASSUME NEW t \in Timers
        PROVE  /\ timer'[t] \in Timer
               /\ timer'[t].i = timer[t].i /\ timer'[t].file = timer[t].file
               /\ timer'[t].due = timer[t].due /\ timer'[t].again = timer[t].again
               /\ timer'[t].armed =>
                    timer[t].armed /\ \A f \in Files : watcher[i].timers[f] # t
               /\ (\A f \in Files : watcher[i].timers[f] # t) => timer'[t] = timer[t]
    <2>1. timer[t] \in Timer
      BY DEF Watching, WatcherTypes
    <2>2. CASE \E f \in Files : watcher[i].timers[f] = t
      <3>1. timer'[t] = [timer[t] EXCEPT !.armed = FALSE]
        BY <1>1, <2>2
      <3> QED BY <2>1, <2>2, <3>1 DEF Timer
    <2>3. CASE \A f \in Files : watcher[i].timers[f] # t
      <3>1. timer'[t] = timer[t]
        BY <1>1, <2>3
      <3> QED BY <2>1, <2>3, <3>1
    <2> QED BY <2>2, <2>3
  <1>4. WatcherTypes'
    <2>1. timer' \in [Timers -> Timer]
      BY <1>1, <1>3
    <2> QED BY <1>1, <1>2, <2>1 DEF Watching, WatcherTypes
  <1>5. /\ \A j, f : Reset(j, f)' <=> Reset(j, f)
        /\ \A t \in Timers : timer[t].i \in Insts => (InMap(t)' <=> InMap(t))
    BY <1>2, <1>3 DEF Reset, InMap
  <1>6. ASSUME NEW t \in Timers PROVE TimerOK(t)'
    <2>1. TimerOK(t) /\ t \in Nat
      BY DEF Watching, Timers
    <2>2. CASE timer[t] = NoTimer
      <3>1. \A f \in Files : watcher[i].timers[f] # t
        <4>1. timer[t].i # i
          BY <2>2, NoTimerFields, TriggersConstants DEF Insts
        <4>2. t # 0
          BY DEF Timers
        <4> QED BY <4>1, <4>2 DEF Watching, EntryOK
      <3>2. timer'[t] = NoTimer
        BY <1>3, <2>2, <3>1
      <3> QED BY <3>2, NoTimerFields DEF TimerOK
    <2>3. CASE timer[t] # NoTimer
      <3>1. timer[t].i \in Insts /\ timer[t].file \in Files /\ ~(t > events')
        BY <1>1, <2>1, <2>3 DEF TimerOK
      <3>2. ASSUME timer'[t].armed
            PROVE  \/ watcher'[timer[t].i].pc = "on" /\ InMap(t)
                   \/ Reset(timer[t].i, timer[t].file)
        <4>1. timer[t].armed /\ \A f \in Files : watcher[i].timers[f] # t
          BY <1>3, <3>2
        <4>2. CASE watcher[timer[t].i].pc = "on" /\ InMap(t)
          <5>1. timer[t].i # i
            BY <3>1, <4>1, <4>2 DEF InMap
          <5> QED BY <1>2, <3>1, <4>2, <5>1
        <4> QED BY <2>1, <4>1, <4>2 DEF TimerOK
      <3>3. /\ timer'[t].due > 0 => InMap(t) \/ Reset(timer[t].i, timer[t].file)
            /\ timer'[t].armed /\ timer'[t].due > 0 => timer'[t].again
            /\ timer'[t].due > 1 => timer'[t].again
        BY <1>3, <2>1 DEF TimerOK
      <3>4. timer'[t].i = timer[t].i /\ timer'[t].file = timer[t].file
        BY <1>3
      <3> QED BY <1>5, <3>1, <3>2, <3>3, <3>4 DEF TimerOK
    <2> QED BY <2>2, <2>3
  <1>7. ASSUME NEW j \in Insts, NEW g \in Files PROVE EntryOK(j, g)'
    <2> DEFINE u == watcher[j].timers[g]
    <2>1. EntryOK(j, g) /\ u \in 0..MaxEvents /\ watcher'[j].timers[g] = u
          /\ watcher'[j].kinds[g] = watcher[j].kinds[g]
      BY <1>2 DEF Watching, WatcherTypes, Watcher
    <2>2. u # 0 => u \in Timers
      BY <2>1, TriggersConstants DEF Timers
    <2>3. CASE j = i
      BY <1>1, <1>2, <1>3, <2>1, <2>2, <2>3 DEF EntryOK
    <2>4. CASE j # i
      <3>1. u # 0 => \A f \in Files : watcher[i].timers[f] # u
        BY <2>1, <2>4 DEF Watching, EntryOK
      <3>2. u # 0 => timer'[u] = timer[u]
        BY <1>3, <2>2, <3>1
      <3> QED BY <1>1, <1>2, <2>1, <2>4, <3>2 DEF EntryOK
    <2> QED BY <2>3, <2>4
  <1>8. \A j \in Insts : watcher'[j].pc = "exited" => j \in stopped'
    BY <1>2 DEF Watching
  <1> QED BY <1>4, <1>6, <1>7, <1>8 DEF Watching

(* After a kill no watcher is left.                                         *)
LEMMA OffWatching ==
  ASSUME watcher' = [i \in Insts |-> Off], timer' = [t \in Timers |-> NoTimer],
         events' \in 0..MaxEvents
  PROVE  Watching'
  <1>1. /\ Off \in Watcher /\ Off.pc = "off"
        /\ \A f \in Files : Off.timers[f] = 0 /\ Off.kinds[f] = None
    BY TriggersConstants DEF Off, Watcher, Kinds
  <1>2. /\ \A i \in Insts : watcher'[i] = Off
        /\ \A t \in Timers : timer'[t] = NoTimer
    OBVIOUS
  <1>3. WatcherTypes'
    BY <1>1, NoTimerFields DEF WatcherTypes
  <1>4. \A t \in Timers : TimerOK(t)'
    BY <1>2, NoTimerFields DEF TimerOK
  <1>5. \A i \in Insts, f \in Files : EntryOK(i, f)'
    BY <1>1, <1>2 DEF EntryOK
  <1> QED BY <1>1, <1>2, <1>3, <1>4, <1>5 DEF Watching

(* Watching is inductive.                                                   *)
LEMMA WatchingStep ==
  ASSUME Lives, Stored, Timely, Watching, [Next]_vars
  PROVE  Watching'
  <1>1. CASE UNCHANGED watcherVars /\ stopped \subseteq stopped'
    BY <1>1, SameWatching
  <1>2. ASSUME NEW i \in Insts, StartWatcher(i)
        PROVE  Watching'
    <2>1. /\ inst[i].phase = "starting" /\ stopped' = stopped
          /\ inst[i].n + 1 = inst'[i].n /\ inst'[i].n \in 1..Len(inst[i].list)
          /\ inst[i].list[inst'[i].n].kind = "file_watcher"
      BY <1>2, WatcherMoves DEF Stays
    <2>2. inst[i].w \in Workflows /\ inst[i].list \in TriggerLists
      BY <2>1, AtPhase DEF Lives, Instance, Absent
    <2>3. inst[i].list[inst[i].n + 1].event \in EventKinds \cup {"any"}
      BY <2>1, <2>2, ListTypes, PlanOfTrigger
    <2>4. Watch(i, inst[i].w, inst[i].list[inst[i].n + 1].event)
      BY <1>2 DEF StartWatcher
    <2>5. i \notin stopped
      BY SMTT(30), <2>1 DEF Lives, Halted
    <2> QED BY <2>1, <2>2, <2>3, <2>4, <2>5, WatchWatching
  <1>3. ASSUME NEW i \in Insts,
               \/ StartScheduler(i) \/ StartWebhook(i)
               \/ Undo(i) \/ GiveUp(i) \/ WriteRow(i) \/ Map(i) \/ Activate(i)
               \/ Close(i) \/ Halt(i) \/ RowsOff(i) \/ StatusOff(i) \/ Unmap(i)
        PROVE  Watching'
    BY <1>1, <1>3 DEF StartScheduler, StartWebhook, Undo, GiveUp, WriteRow, Map, Activate, Close,
       Halt, RowsOff, StatusOff, Unmap
  <1>4. ASSUME NEW w \in Workflows, (\E list \in Lists[w] : Start(w, list)) \/ Restore(w)
        PROVE  Watching'
    BY <1>1, <1>4 DEF Start, Restore
  <1>5. ASSUME NEW i \in Insts, FileEvent(i)
        PROVE  Watching'
    BY <1>5, EventWatching DEF FileEvent, Rest, callVars
  <1>6. ASSUME NEW i \in Insts, WatcherExits(i)
        PROVE  Watching'
    BY <1>6, StopWatching DEF WatcherExits, Rest, callVars
  <1>7. ASSUME NEW t \in Timers, DebounceFires(t) \/ DebounceCallback(t)
        PROVE  Watching'
    BY <1>7, FireWatching, CallbackWatching DEF DebounceFires, DebounceCallback, Rest, callVars
  <1>8. CASE DebounceEnqueues
    <2>1. watcher' = watcher /\ timer' = timer /\ events' = events /\ stopped' = stopped
      BY <1>8 DEF DebounceEnqueues, CallbackEnds, Rest, callVars
    <2> QED BY <2>1 DEF Watching, WatcherTypes, TimerOK, EntryOK, InMap, Reset
  <1>9. CASE Kill
    BY <1>9, OffWatching DEF Kill, Watching, WatcherTypes
  <1>10. CASE \/ UNCHANGED vars \/ Time
              \/ \E i \in Insts : \/ SchedulerFires(i) \/ SchedulerEnqueues(i)
                                  \/ SchedulerWrites(i) \/ SchedulerStops(i)
    BY <1>1, <1>10 DEF vars, SchedulerFires, SchedulerEnqueues, SchedulerWrites, SchedulerStops,
       Time, callVars
  <1> QED BY <1>2, <1>3, <1>4, <1>5, <1>6, <1>7, <1>8, <1>9, <1>10 DEF Next

(* What the goroutine of instance i does to its own record.                    *)
Turned(i) ==
  /\ ticker' \in [Insts -> Ticker]
  /\ \A j \in Insts : j # i => ticker'[j] = ticker[j]
  /\ ticker'[i].w = ticker[i].w /\ ticker'[i].id = ticker[i].id /\ ticker'[i].n = ticker[i].n
  /\ ticker'[i].plan = ticker[i].plan
  /\ clock' = clock /\ UNCHANGED callVars

(* What SchedulerFires does to its goroutine.                               *)
LEMMA FiresTurns ==
  ASSUME Timely, NEW i \in Insts, SchedulerFires(i)
  PROVE  /\ Turned(i) /\ ticker[i].pc = "waiting" /\ clock >= ticker[i].next
         /\ ticker'[i].pc = "enqueue" /\ ticker'[i].fired = clock /\ ticker'[i].next = ticker[i].next
         /\ ticker'[i].late <=> i \in stopped
         /\ runs' = runs /\ rows' = rows
  <1> DEFINE late == i \in stopped
             new == [ticker[i] EXCEPT !.pc = "enqueue", !.fired = clock, !.late = late]
             a == [ticker EXCEPT ![i].pc = "enqueue"]
             b == [a EXCEPT ![i].fired = clock]
  <1>1. /\ ticker[i].pc = "waiting" /\ clock >= ticker[i].next /\ clock' = clock
        /\ UNCHANGED callVars /\ runs' = runs /\ rows' = rows
        /\ ticker' = [b EXCEPT ![i].late = late]
    BY DEF SchedulerFires, TickerFires, storeVars
  <1>2. late \in BOOLEAN /\ ticker[i] \in Ticker /\ clock \in Nat /\ \A j \in Insts : ticker[j] \in Ticker
    BY TriggersConstants DEF Timely
  <1>3. /\ a[i] \in Ticker /\ a[i].pc = "enqueue" /\ a[i].next = ticker[i].next /\ a[i].w = ticker[i].w
        /\ a[i].id = ticker[i].id /\ a[i].n = ticker[i].n /\ a[i].plan = ticker[i].plan
        /\ DOMAIN a = Insts /\ \A j \in Insts : j # i => a[j] = ticker[j]
    BY <1>2 DEF Timely, Ticker
  <1> HIDE DEF a, late
  <1>4. /\ b[i] \in Ticker /\ b[i].pc = "enqueue" /\ b[i].next = ticker[i].next /\ b[i].w = ticker[i].w
        /\ b[i].id = ticker[i].id /\ b[i].n = ticker[i].n /\ b[i].plan = ticker[i].plan
        /\ b[i].fired = clock
        /\ DOMAIN b = Insts /\ \A j \in Insts : j # i => b[j] = ticker[j]
    BY <1>2, <1>3 DEF Ticker
  <1> HIDE DEF b
  <1>5. /\ ticker'[i] = [b[i] EXCEPT !.late = late] /\ ticker' = [j \in Insts |-> ticker'[j]]
        /\ \A j \in Insts : j # i => ticker'[j] = ticker[j]
    BY <1>1, <1>4
  <1>6. /\ ticker'[i] \in Ticker /\ ticker'[i].pc = "enqueue" /\ ticker'[i].next = ticker[i].next
        /\ ticker'[i].w = ticker[i].w
        /\ ticker'[i].id = ticker[i].id /\ ticker'[i].n = ticker[i].n /\ ticker'[i].plan = ticker[i].plan
        /\ ticker'[i].fired = clock /\ ticker'[i].late = late
    BY <1>2, <1>4, <1>5 DEF Ticker
  <1>7. ticker' \in [Insts -> Ticker]
    BY <1>2, <1>5, <1>6
  <1> QED BY <1>1, <1>5, <1>6, <1>7 DEF Turned, late

(* What SchedulerEnqueues does to its goroutine.                            *)
LEMMA EnqueuesTurns ==
  ASSUME Timely, NEW i \in Insts, SchedulerEnqueues(i)
  PROVE  /\ Turned(i) /\ ticker[i].pc = "enqueue" /\ ticker'[i].pc = "write"
         /\ ticker'[i].next = NextRun(ticker[i].plan, ticker[i].fired)
         /\ ticker'[i].fired = 0 /\ ~ticker'[i].late
         /\ runs' = runs \/ (~ticker[i].late /\ EnqueueRun(ticker[i].w, ticker[i].next))
         /\ rows' = rows
  <1> DEFINE next == NextRun(ticker[i].plan, ticker[i].fired)
             a == [ticker EXCEPT ![i].pc = "write"]
             b == [a EXCEPT ![i].next = next]
             c == [b EXCEPT ![i].fired = 0]
  <1>1. /\ ticker[i].pc = "enqueue" /\ clock' = clock
        /\ UNCHANGED callVars /\ rows' = rows
        /\ runs' = runs \/ (~ticker[i].late /\ EnqueueRun(ticker[i].w, ticker[i].next))
        /\ ticker' = [c EXCEPT ![i].late = FALSE]
    BY DEF SchedulerEnqueues, TickerEnqueues, storeVars
  <1>2. ticker[i] \in Ticker /\ next \in Nat /\ \A j \in Insts : ticker[j] \in Ticker
    BY NextRunIsLater DEF Timely, Ticker
  <1> HIDE DEF next
  <1>3. /\ a[i] \in Ticker /\ a[i].pc = "write" /\ a[i].w = ticker[i].w
        /\ a[i].id = ticker[i].id /\ a[i].n = ticker[i].n /\ a[i].plan = ticker[i].plan
        /\ DOMAIN a = Insts /\ \A j \in Insts : j # i => a[j] = ticker[j]
    BY <1>2 DEF Timely, Ticker
  <1> HIDE DEF a
  <1>4. /\ b[i] \in Ticker /\ b[i].pc = "write" /\ b[i].next = next /\ b[i].w = ticker[i].w
        /\ b[i].id = ticker[i].id /\ b[i].n = ticker[i].n /\ b[i].plan = ticker[i].plan
        /\ DOMAIN b = Insts /\ \A j \in Insts : j # i => b[j] = ticker[j]
    BY <1>2, <1>3 DEF Ticker
  <1> HIDE DEF b
  <1>5. /\ c[i] \in Ticker /\ c[i].pc = "write" /\ c[i].next = next /\ c[i].w = ticker[i].w
        /\ c[i].id = ticker[i].id /\ c[i].n = ticker[i].n /\ c[i].plan = ticker[i].plan
        /\ c[i].fired = 0
        /\ DOMAIN c = Insts /\ \A j \in Insts : j # i => c[j] = ticker[j]
    BY <1>2, <1>4 DEF Ticker
  <1> HIDE DEF c
  <1>6. /\ ticker'[i] = [c[i] EXCEPT !.late = FALSE] /\ ticker' = [j \in Insts |-> ticker'[j]]
        /\ \A j \in Insts : j # i => ticker'[j] = ticker[j]
    BY <1>1, <1>5
  <1>7. /\ ticker'[i] \in Ticker /\ ticker'[i].pc = "write" /\ ticker'[i].next = next
        /\ ticker'[i].w = ticker[i].w
        /\ ticker'[i].id = ticker[i].id /\ ticker'[i].n = ticker[i].n /\ ticker'[i].plan = ticker[i].plan
        /\ ticker'[i].fired = 0 /\ ~ticker'[i].late
    BY <1>2, <1>5, <1>6 DEF Ticker
  <1>8. ticker' \in [Insts -> Ticker]
    BY <1>2, <1>6, <1>7
  <1> QED BY <1>1, <1>6, <1>7, <1>8 DEF Turned, next

(* What SchedulerWrites does to its goroutine.                              *)
LEMMA WritesTurns ==
  ASSUME Timely, NEW i \in Insts, SchedulerWrites(i)
  PROVE  /\ Turned(i) /\ ticker[i].pc = "write" /\ ticker'[i].pc = "waiting"
         /\ ticker'[i].next = ticker[i].next /\ ticker'[i].fired = ticker[i].fired
         /\ ticker'[i].late = ticker[i].late /\ runs' = runs
         /\ SetTriggerRuntime(ticker[i].w, ticker[i].id, ticker[i].n, TRUE, ticker[i].next)
  <1>1. /\ ticker[i].pc = "write" /\ clock' = clock
        /\ UNCHANGED callVars /\ runs' = runs
        /\ SetTriggerRuntime(ticker[i].w, ticker[i].id, ticker[i].n, TRUE, ticker[i].next)
        /\ ticker' = [ticker EXCEPT ![i].pc = "waiting"]
    BY DEF SchedulerWrites, TickerWrites
  <1> QED BY <1>1 DEF Turned, Timely, Ticker

(* A goroutine that is not there.                                           *)
LEMMA NoTickerType == NoTicker \in Ticker /\ NoTicker.pc = "off"
  BY DEF NoTicker, Ticker, Plans

(* What SchedulerStops does to its goroutine.                               *)
LEMMA StopsTurns ==
  ASSUME Timely, NEW i \in Insts, SchedulerStops(i)
  PROVE  /\ ticker' \in [Insts -> Ticker] /\ ~Ticks(i)' /\ i \in stopped
         /\ \A j \in Insts : j # i => ticker'[j] = ticker[j]
         /\ clock' = clock /\ UNCHANGED callVars /\ runs' = runs /\ rows' = rows
  BY NoTickerType DEF SchedulerStops, TickerStops, Timely, Ticks, storeVars

(* What StartScheduler makes its goroutine wait for: the time in the row,   *)
(* or one to come.                                                          *)
LEMMA StartTurns ==
  ASSUME Lives, Stored, Timely, NEW i \in Insts, StartScheduler(i)
  PROVE  /\ ticker' \in [Insts -> Ticker] /\ clock' = clock
         /\ \A j \in Insts : j # i => ticker'[j] = ticker[j]
         /\ ticker'[i].pc = "waiting" /\ ticker'[i].w = inst[i].w /\ ticker'[i].id = inst[i].row
         /\ ticker'[i].n = inst'[i].n /\ ticker'[i].next = inst'[i].next
         /\ ticker'[i].fired = 0 /\ ticker'[i].late = FALSE
         /\ LET stored == rows[inst[i].w].next[inst'[i].n]
            IN /\ inst'[i].next = stored \/ inst'[i].next > clock
               /\ inst'[i].next = stored => stored # None
               /\ inst[i].restoring /\ inst'[i].next = stored => stored >= clock
         /\ rows' = rows /\ current' = current /\ boot' = boot /\ nextInst' = nextInst
         /\ stopped' = stopped
         /\ runs' = runs \/ (\E t : EnqueueRun(inst[i].w, t) /\ stopped' = stopped)
  <1> DEFINE n == inst[i].n + 1
             plan == inst[i].list[n].plan
             stored == rows[inst[i].w].next[n]
             missed == stored # None /\ inst[i].restoring /\ stored < clock
             next == IF stored = None \/ missed THEN NextRun(plan, clock) ELSE stored
             new == [pc |-> "waiting", w |-> inst[i].w, id |-> inst[i].row, n |-> n, plan |-> plan,
                     next |-> next, fired |-> 0, late |-> FALSE]
  <1>1. /\ inst'[i].n = n /\ Moves(i, "writing") /\ inst'[i].next \in Nat
        /\ rows[inst[i].w].next[inst'[i].n] \in Times
        /\ inst[i].list[inst'[i].n].plan \in Plans
        /\ inst'[i].n \in 1..Len(inst[i].list) /\ stopped' = stopped
    BY SchedulerMoves DEF Stays
  <1>3. /\ StartTicker(i, inst[i].w, inst[i].row, n, plan, next)
        /\ rows' = rows /\ current' = current /\ boot' = boot /\ nextInst' = nextInst
        /\ IF missed THEN EnqueueRun(inst[i].w, stored) ELSE UNCHANGED runs
    BY Zenon DEF StartScheduler, storeVars
  <1>4. plan \in Plans /\ stored \in Times /\ inst[i].w \in Workflows
        /\ n \in Nat /\ inst[i].row \in Nat
    BY <1>1 DEF Moves, Lives, Instance
  <1>5. NextRun(plan, clock) > clock /\ NextRun(plan, clock) \in Nat /\ clock \in Nat
    BY NextRunIsLater DEF Timely
  <1>6. /\ next = stored \/ next > clock
        /\ next = stored => stored # None
        /\ inst[i].restoring /\ next = stored => stored >= clock
        /\ next \in Nat
    <2>1. /\ stored = None \/ missed => next = NextRun(plan, clock)
          /\ stored # None /\ ~missed => next = stored
          /\ missed => stored # None /\ stored < clock
          /\ stored # None /\ inst[i].restoring /\ ~missed => ~(stored < clock)
      OBVIOUS
    <2> HIDE DEF n, plan, stored, missed, next, new
    <2>2. CASE stored = None
      BY <1>5, <2>1, <2>2, TriggersConstants
    <2>3. CASE stored # None
      <3>1. stored \in Nat
        BY <1>4, <2>3 DEF Times
      <3>2. CASE missed
        BY <1>5, <2>1, <3>1, <3>2
      <3>3. CASE ~missed
        BY <1>5, <2>1, <2>3, <3>1, <3>3
      <3> QED BY <3>2, <3>3
    <2> QED BY SMTT(30), <2>2, <2>3
  <1>2. inst'[i].next = next
    <2>1. Started(i, n, next)
      BY ZenonT(40) DEF StartScheduler
    <2>2. n \in Nat /\ next \in Times
      BY SMTT(30), <1>4, <1>6 DEF Times
    <2> HIDE DEF n, next
    <2> QED BY <2>1, <2>2, StartedMoves DEF Became
  <1>7. new \in Ticker
    BY <1>4, <1>6 DEF Ticker
  <1> HIDE DEF plan, next, stored, missed
  <1>8. ticker' = [ticker EXCEPT ![i] = new] /\ clock' = clock
    BY <1>3 DEF StartTicker
  <1>9. /\ new.pc = "waiting" /\ new.w = inst[i].w /\ new.id = inst[i].row
        /\ new.n = n /\ new.next = next /\ new.fired = 0 /\ new.late = FALSE
    OBVIOUS
  <1> HIDE DEF new
  <1>10. /\ ticker'[i] = new /\ ticker' \in [Insts -> Ticker]
         /\ \A j \in Insts : j # i => ticker'[j] = ticker[j]
    BY <1>7, <1>8 DEF Timely
  <1>11. stored = rows[inst[i].w].next[inst'[i].n]
    BY <1>1 DEF stored
  <1> HIDE DEF n
  <1> QED BY <1>1, <1>2, <1>3, <1>6, <1>8, <1>9, <1>10, <1>11

(* The goroutine of a scheduler belongs to the rows its instance was started  *)
(* with, which no other instance of the workflow has; the boot restores only   *)
(* workflows without one.                                                      *)
TickerOK(i) ==
  Ticks(i) =>
    /\ ticker[i].id < nextInst /\ ticker[i].id # 0 /\ ticker[i].n # 0
    /\ inst[i].phase \notin Absent =>
         /\ ticker[i].w = inst[i].w /\ ticker[i].id = inst[i].row
         /\ ticker[i].n <= inst[i].n /\ inst[i].list[ticker[i].n].kind = "scheduler"
    /\ inst[i].phase # "none" /\ ticker[i].w \notin boot
    /\ \A j \in Insts : j # i /\ inst[j].w = ticker[i].w => inst[j].row # ticker[i].id
    /\ ticker[i].pc = "enqueue" => ticker[i].next <= ticker[i].fired
    /\ ticker[i].fired <= clock

Ticking == \A i \in Insts : TickerOK(i)

Goes(j) ==
  \/ inst'[j].phase = "gone" /\ inst'[j].w = None
  \/ /\ inst'[j].w = inst[j].w /\ inst'[j].list = inst[j].list /\ inst'[j].row = inst[j].row
     /\ inst'[j].restoring = inst[j].restoring /\ inst'[j].n >= inst[j].n
     /\ inst'[j].phase \in Absent <=> inst[j].phase \in Absent
     /\ inst'[j].phase = "none" => inst[j].phase = "none"

(* A move of an instance leaves the others, and its triggers.               *)
LEMMA MoveGoes ==
  ASSUME Lives, NEW i \in Insts, NEW phase, Moves(i, phase), inst'[i].n >= inst[i].n
  PROVE  \A j \in Insts : Goes(j)
  BY SMTT(30) DEF Moves, Became, Goes, Absent, Lives, Instance

(* No step of a call changes the triggers or the rows of an instance that   *)
(* stays.                                                                   *)
LEMMA CallGoes ==
  ASSUME Lives, Stored, Timely, NEW i \in Insts,
         \/ StartScheduler(i) \/ StartWebhook(i) \/ StartWatcher(i)
         \/ Undo(i) \/ GiveUp(i) \/ WriteRow(i) \/ Map(i) \/ Activate(i)
         \/ Close(i) \/ Halt(i) \/ RowsOff(i) \/ StatusOff(i) \/ Unmap(i)
  PROVE  (\A j \in Insts : Goes(j)) /\ nextInst' = nextInst /\ boot' = boot
  <1>0. nextInst' = nextInst /\ boot' = boot
    BY DEF StartScheduler, StartWebhook, StartWatcher, Undo, GiveUp, WriteRow, Map, Activate, Close,
       Halt, RowsOff, StatusOff, Unmap
  <1>1. inst[i].n \in Nat /\ inst[i].n + 1 >= inst[i].n /\ inst[i].n >= inst[i].n
    BY DEF Lives, Instance
  <1>2. CASE StartScheduler(i) \/ StartWebhook(i) \/ StartWatcher(i) \/ WriteRow(i)
    <2>1. (\E phase : Moves(i, phase)) /\ inst'[i].n \in {inst[i].n, inst[i].n + 1}
      BY <1>2, SchedulerMoves, WebhookMoves, WatcherMoves, WriteMoves
    <2> QED BY <1>0, <1>1, <2>1, MoveGoes
  <1>3. CASE Undo(i) \/ Map(i) \/ Activate(i) \/ Close(i) \/ Halt(i) \/ RowsOff(i) \/ StatusOff(i)
    <2>1. (\E phase : Moves(i, phase)) /\ inst'[i].n = inst[i].n
      BY <1>3, PlainMoves
    <2> QED BY <1>0, <1>1, <2>1, MoveGoes
  <1>4. CASE GiveUp(i) \/ Unmap(i)
    <2>1. inst' = [inst EXCEPT ![i] = Gone]
      BY <1>4 DEF GiveUp, Unmap
    <2>2. inst'[i] = Gone /\ \A j \in Insts : j # i => inst'[j] = inst[j]
      BY <2>1 DEF Lives
    <2>3. \A j \in Insts : inst[j].n >= inst[j].n
      BY DEF Lives, Instance
    <2> QED BY <1>0, <2>2, <2>3 DEF Goes, Gone, NoInst
  <1> QED BY <1>2, <1>3, <1>4

(* Steps that start no goroutine and make no instance keep Ticking.         *)
LEMMA TickingStays ==
  ASSUME Lives, Lives', Timely, Ticking, ticker' = ticker, \A j \in Insts : Goes(j),
         clock' \in Nat, clock <= clock', nextInst' = nextInst, boot' = boot
  PROVE  Ticking'
  <1> SUFFICES ASSUME NEW i \in Insts, Ticks(i)
               PROVE  TickerOK(i)'
    BY DEF Ticking, TickerOK, Ticks
  <1>1. TickerOK(i) /\ ticker[i] \in Ticker /\ ticker[i].w \in Workflows /\ ticker[i].w # None
    BY TriggersConstants DEF Ticking, Timely
  <1>2. inst'[i].phase \notin Absent =>
          /\ ticker[i].w = inst'[i].w /\ ticker[i].id = inst'[i].row
          /\ ticker[i].n <= inst'[i].n /\ inst'[i].list[ticker[i].n].kind = "scheduler"
    <2> SUFFICES ASSUME inst'[i].phase \notin Absent
                 PROVE  /\ ticker[i].w = inst'[i].w /\ ticker[i].id = inst'[i].row
                        /\ ticker[i].n <= inst'[i].n
                        /\ inst'[i].list[ticker[i].n].kind = "scheduler"
      OBVIOUS
    <2>1. /\ inst'[i].w = inst[i].w /\ inst'[i].list = inst[i].list /\ inst'[i].row = inst[i].row
          /\ inst'[i].n >= inst[i].n /\ inst[i].phase \notin Absent
      BY DEF Goes, Absent
    <2>2. ticker[i].n \in Nat /\ inst[i].n \in Nat /\ inst'[i].n \in Nat
      BY <1>1 DEF Ticker, Lives, Instance
    <2> QED BY <1>1, <2>1, <2>2 DEF TickerOK
  <1>3. inst'[i].phase # "none"
    BY <1>1 DEF TickerOK, Goes
  <1>4. \A j \in Insts : j # i /\ inst'[j].w = ticker[i].w => inst'[j].row # ticker[i].id
    BY <1>1 DEF TickerOK, Goes
  <1>5. ticker[i].fired <= clock'
    BY <1>1 DEF TickerOK, Ticker, Timely
  <1> QED BY <1>1, <1>2, <1>3, <1>4, <1>5 DEF TickerOK

(* An instance that begins has no goroutine, and its rows are no other's.      *)
LEMMA TickingBegins ==
  ASSUME Lives, Stored, Timely, Ticking, NEW w \in Workflows,
         (\E list \in Lists[w] : Start(w, list)) \/ Restore(w)
  PROVE  Ticking' /\ nextInst \in Insts /\ ~Ticks(nextInst)
  <1>1. \E list, row, restoring :
          /\ Begins(w, list, row, restoring)
          /\ row = nextInst \/ w \in boot
          /\ boot' \subseteq boot /\ clock' = clock /\ ticker' = ticker
    <2>1. CASE Restore(w)
      BY <2>1, RestoreBegins DEF Restore, schedulerVars
    <2>2. CASE \E list \in Lists[w] : Start(w, list)
      BY <2>2, StartBegins DEF Start, schedulerVars
    <2> QED BY <2>1, <2>2
  <1>2. PICK list, row, restoring :
          /\ Begins(w, list, row, restoring)
          /\ row = nextInst \/ w \in boot
          /\ boot' \subseteq boot /\ clock' = clock /\ ticker' = ticker
    BY <1>1
  <1>3. nextInst \in Insts /\ nextInst \in Nat /\ nextInst' = nextInst + 1
    BY <1>2, TriggersConstants DEF Begins, Insts, Lives
  <1>4. inst[nextInst].phase = "none"
    BY <1>3 DEF Lives
  <1>5. ~Ticks(nextInst)
    BY <1>3, <1>4 DEF Ticking, TickerOK
  <1>6. ASSUME NEW i \in Insts, Ticks(i)
        PROVE  TickerOK(i)'
    <2>1. /\ TickerOK(i) /\ i # nextInst /\ inst'[i] = inst[i]
          /\ ticker[i].id < nextInst /\ ticker[i].id \in Nat
      BY <1>2, <1>5, <1>6 DEF Ticking, Begins, TickerOK, Timely, Ticker
    <2>2. \A j \in Insts : j # i /\ inst'[j].w = ticker[i].w => inst'[j].row # ticker[i].id
      <3> SUFFICES ASSUME NEW j \in Insts, j # i, inst'[j].w = ticker[i].w
                   PROVE  inst'[j].row # ticker[i].id
        OBVIOUS
      <3>1. CASE j = nextInst
        <4>1. inst'[j].w = w /\ inst'[j].row = row
          BY <1>2, <3>1 DEF Begins
        <4>2. w \notin boot
          BY <1>6, <2>1, <4>1 DEF TickerOK
        <4> QED BY <1>2, <1>3, <2>1, <4>1, <4>2
      <3>2. CASE j # nextInst
        BY <1>2, <1>6, <2>1, <3>2 DEF Begins, TickerOK
      <3> QED BY <3>1, <3>2
    <2>3. ticker[i].id < nextInst'
      BY <1>3, <2>1
    <2> QED BY <1>2, <1>6, <2>1, <2>2, <2>3 DEF TickerOK, Ticks
  <1> QED BY <1>2, <1>3, <1>5, <1>6 DEF Ticking, TickerOK, Ticks

(* A goroutine that goes on. *)
LEMMA TickingTurns ==
  ASSUME Lives, Timely, Ticking, NEW i \in Insts, Turned(i), Ticks(i),
         ticker'[i].pc = "enqueue" => ticker'[i].next <= ticker'[i].fired,
         ticker'[i].fired <= clock
  PROVE  Ticking'
  <1> SUFFICES ASSUME NEW j \in Insts PROVE TickerOK(j)'
    BY DEF Ticking
  <1>1. UNCHANGED <<inst, nextInst, boot, clock>>
    BY DEF Turned, callVars
  <1>2. TickerOK(j)
    BY DEF Ticking
  <1>3. CASE j = i
    BY <1>1, <1>2, <1>3 DEF TickerOK, Turned, Ticks
  <1>4. CASE j # i
    BY <1>1, <1>2, <1>4 DEF TickerOK, Turned, Ticks
  <1> QED BY <1>3, <1>4

(* The goroutine of a trigger just started is the only one of its instance.    *)
LEMMA TickingStarts ==
  ASSUME Lives, Stored, Timely, Ticking, NEW i \in Insts, StartScheduler(i)
  PROVE  Ticking' /\ ~Ticks(i) /\ \A j \in Insts : j # i => Ticks(j)' = Ticks(j)
  <1>1. /\ inst[i].phase = "starting" /\ Moves(i, "writing")
        /\ inst'[i].n = inst[i].n + 1 /\ inst'[i].n \in 1..Len(inst[i].list)
        /\ inst[i].list[inst'[i].n].kind = "scheduler"
    BY SchedulerMoves
  <1>2. inst[i].list \in TriggerLists /\ inst[i].n \in Nat /\ inst[i].n <= Len(inst[i].list)
        /\ Len(inst[i].list) \in Nat
    BY ListTypes DEF Lives, Instance
  <1>3. ~Ticks(i)
    <2> SUFFICES ASSUME Ticks(i) PROVE FALSE
      OBVIOUS
    <2>1. /\ ticker[i].n <= inst[i].n /\ inst[i].list[ticker[i].n].kind = "scheduler"
          /\ ticker[i].n # 0 /\ ticker[i].n \in Nat
      BY <1>1 DEF Ticking, TickerOK, Absent, Timely, Ticker
    <2>2. ticker[i].n \in 1..Len(inst[i].list) /\ ticker[i].n # inst'[i].n
      BY <1>1, <1>2, <2>1
    <2>3. AtMostOne(inst[i].list, "scheduler")
      BY <1>2 DEF TriggerLists
    <2> QED BY <1>1, <2>1, <2>2, <2>3 DEF AtMostOne
  <1>4. /\ \A j \in Insts : Goes(j)
        /\ nextInst' = nextInst /\ boot' = boot
    BY CallGoes
  <1>5. /\ clock' = clock /\ \A j \in Insts : j # i => ticker'[j] = ticker[j]
        /\ ticker'[i].pc = "waiting" /\ ticker'[i].w = inst[i].w /\ ticker'[i].id = inst[i].row
        /\ ticker'[i].n = inst'[i].n /\ ticker'[i].fired = 0
    BY StartTurns
  <1>6. /\ inst[i].w \in Workflows /\ inst[i].w # None
        /\ inst'[i].w = inst[i].w /\ inst'[i].row = inst[i].row /\ inst'[i].list = inst[i].list
        /\ inst'[i].phase = "writing" /\ \A j \in Insts : j # i => inst'[j] = inst[j]
    BY <1>1 DEF Moves, Became
  <1>7. inst[i].row # 0 /\ inst[i].row < nextInst /\ inst[i].w \notin boot
    BY <1>6 DEF Stored, Busy
  <1>8. TickerOK(i)'
    <2>1. \A j \in Insts : j # i /\ inst'[j].w = ticker'[i].w => inst'[j].row # ticker'[i].id
      BY <1>5, <1>6 DEF Lives
    <2>2. inst'[i].n # 0 /\ inst'[i].n <= inst'[i].n /\ 0 <= clock
      BY <1>1, TriggersConstants DEF Timely
    <2> QED BY <1>1, <1>4, <1>5, <1>6, <1>7, <2>1, <2>2 DEF TickerOK
  <1>9. ASSUME NEW j \in Insts, j # i PROVE TickerOK(j)'
    <2>1. TickerOK(j) /\ ticker'[j] = ticker[j] /\ inst'[j] = inst[j]
      BY <1>5, <1>6, <1>9 DEF Ticking
    <2>2. \A k \in Insts : inst'[k].w = inst[k].w /\ inst'[k].row = inst[k].row
      BY <1>6
    <2> QED BY <1>4, <1>5, <2>1, <2>2 DEF TickerOK, Ticks
  <1> QED BY <1>3, <1>5, <1>8, <1>9 DEF Ticking, Ticks

CallStep(i) ==
  \/ StartScheduler(i) \/ StartWebhook(i) \/ StartWatcher(i)
  \/ Undo(i) \/ GiveUp(i) \/ WriteRow(i) \/ Map(i) \/ Activate(i)
  \/ Close(i) \/ Halt(i) \/ RowsOff(i) \/ StatusOff(i) \/ Unmap(i)

(* A step that neither a call nor a scheduler takes.                           *)
Aside == UNCHANGED <<callVars, storeVars, runs, schedulerVars>>

(* The steps, by what they do to calls and schedulers.                      *)
LEMMA NextCases ==
  ASSUME [Next]_vars
  PROVE  \/ \E w \in Workflows : (\E list \in Lists[w] : Start(w, list)) \/ Restore(w)
         \/ \E i \in Insts : CallStep(i)
         \/ \E i \in Insts : \/ SchedulerFires(i) \/ SchedulerEnqueues(i) \/ SchedulerWrites(i)
                             \/ SchedulerStops(i)
         \/ Aside \/ Time \/ Kill
  <1>1. CASE UNCHANGED vars
    BY <1>1 DEF vars, Aside
  <1>2. CASE \/ \E i \in Insts : FileEvent(i) \/ WatcherExits(i)
             \/ \E t \in Timers : DebounceFires(t) \/ DebounceCallback(t)
             \/ DebounceEnqueues
    BY <1>2 DEF FileEvent, WatcherExits, DebounceFires, DebounceCallback, DebounceEnqueues, Rest, Aside
  <1> QED BY <1>1, <1>2 DEF Next, CallStep

(* What the clock changes.                                                  *)
LEMMA TimeStep ==
  ASSUME Timely, Time
  PROVE  /\ UNCHANGED <<callVars, storeVars, runs, ticker>> /\ clock' \in 0..MaxTime /\ clock < clock'
  BY TriggersConstants DEF Time, Tick, Timely

(* What a kill leaves of the schedulers: nothing, and a later clock.        *)
LEMMA KillStep ==
  ASSUME Timely, Kill
  PROVE  /\ UNCHANGED <<storeVars, runs>> /\ clock' \in 0..MaxTime /\ clock < clock'
         /\ ticker' = [i \in Insts |-> NoTicker] /\ \A i \in Insts : ~Ticks(i)'
         /\ boot' = active /\ stopped' = {}
  BY SMTT(30), TriggersConstants, NoTickerType DEF Kill, Timely, Ticks

(* Only the start of a scheduler touches the goroutines. *)
LEMMA QuietCall ==
  ASSUME NEW i \in Insts, CallStep(i), ~StartScheduler(i)
  PROVE  ticker' = ticker /\ clock' = clock /\ runs' = runs
  BY DEF CallStep, StartWebhook, StartWatcher, Undo, GiveUp, WriteRow, Map, Activate,
     Close, Halt, RowsOff, StatusOff, Unmap, schedulerVars

(* A call that begins touches no goroutine.                                 *)
LEMMA QuietBegin ==
  ASSUME NEW w \in Workflows, (\E list \in Lists[w] : Start(w, list)) \/ Restore(w)
  PROVE  ticker' = ticker /\ clock' = clock /\ runs' = runs /\ stopped' = stopped
  BY DEF Start, Restore, schedulerVars

(* Timely is inductive.                                                     *)
LEMMA TimelyStep ==
  ASSUME Lives, Stored, Timely, [Next]_vars
  PROVE  Timely'
  <1>1. CASE ticker' = ticker /\ clock' = clock
    BY <1>1 DEF Timely, Ticks
  <1>2. ASSUME NEW i \in Insts, Turned(i), Ticks(i)
        PROVE  Timely'
    BY <1>2 DEF Turned, Timely, Ticks
  <1>3. ASSUME NEW i \in Insts, CallStep(i)
        PROVE  Timely'
    <2>1. CASE StartScheduler(i)
      <3>1. inst[i].w \in Workflows
        BY <2>1, SchedulerMoves DEF Moves
      <3> QED BY ZenonT(40), <2>1, <3>1, StartTurns DEF Timely, Ticks
    <2> QED BY <1>1, <1>3, <2>1, QuietCall
  <1>4. CASE \E w \in Workflows : (\E list \in Lists[w] : Start(w, list)) \/ Restore(w)
    BY <1>1, <1>4, QuietBegin
  <1>5. ASSUME NEW i \in Insts,
               SchedulerFires(i) \/ SchedulerEnqueues(i) \/ SchedulerWrites(i)
        PROVE  Timely'
    BY <1>2, <1>5, FiresTurns, EnqueuesTurns, WritesTurns DEF Ticks
  <1>6. ASSUME NEW i \in Insts, SchedulerStops(i)
        PROVE  Timely'
    BY <1>6, StopsTurns DEF Timely, Ticks
  <1>7. CASE Aside
    BY <1>1, <1>7 DEF Aside, schedulerVars
  <1>8. CASE Time
    BY <1>8, TimeStep DEF Timely, Ticks
  <1>9. CASE Kill
    BY <1>9, KillStep, NoTickerType DEF Timely
  <1> QED BY <1>3, <1>4, <1>5, <1>6, <1>7, <1>8, <1>9, NextCases

(* Ticking is inductive.                                                    *)
LEMMA TickingStep ==
  ASSUME Lives, Stored, Timely, Ticking, [Next]_vars
  PROVE  Ticking'
  <1>0. Lives' /\ Timely' /\ clock \in Nat /\ clock' \in Nat /\ clock <= clock
    BY LivesStep, TimelyStep, TriggersConstants DEF Timely
  <1>1. ASSUME UNCHANGED callVars, ticker' = ticker, clock <= clock'
        PROVE  Ticking'
    <2>1. \A j \in Insts : Goes(j)
      BY <1>1 DEF callVars, Goes, Lives, Instance
    <2> QED BY <1>0, <1>1, <2>1, TickingStays DEF callVars
  <1>2. ASSUME NEW i \in Insts, CallStep(i)
        PROVE  Ticking'
    <2>1. CASE StartScheduler(i)
      BY <2>1, TickingStarts
    <2>2. CASE ~StartScheduler(i)
      <3>1. (\A j \in Insts : Goes(j)) /\ nextInst' = nextInst /\ boot' = boot
        BY <1>2, CallGoes DEF CallStep
      <3>2. /\ \/ StartScheduler(i) \/ StartWebhook(i) \/ StartWatcher(i)
               \/ Undo(i) \/ WriteRow(i) \/ Map(i) \/ Activate(i)
               \/ Close(i) \/ Halt(i) \/ RowsOff(i) \/ StatusOff(i) \/ GiveUp(i) \/ Unmap(i)
            /\ ticker' = ticker /\ clock' = clock
        BY <1>2, <2>2, QuietCall DEF CallStep
      <3> QED BY <1>0, <3>1, <3>2, TickingStays
    <2> QED BY <2>1, <2>2
  <1>3. CASE \E w \in Workflows : (\E list \in Lists[w] : Start(w, list)) \/ Restore(w)
    BY <1>3, TickingBegins
  <1>4. ASSUME NEW i \in Insts, SchedulerFires(i)
        PROVE  Ticking'
    <2>1. ticker[i].next \in Nat /\ clock >= ticker[i].next
      BY <1>4, FiresTurns DEF Timely, Ticker
    <2> QED BY <1>0, <1>4, <2>1, FiresTurns, TickingTurns DEF Ticks
  <1>5. ASSUME NEW i \in Insts, SchedulerEnqueues(i)
        PROVE  Ticking'
    BY <1>0, <1>5, EnqueuesTurns, TickingTurns DEF Ticks
  <1>6. ASSUME NEW i \in Insts, SchedulerWrites(i)
        PROVE  Ticking'
    <2>1. ticker[i].fired <= clock
      BY <1>6, WritesTurns DEF Ticking, TickerOK, Ticks
    <2> QED BY <1>6, <2>1, WritesTurns, TickingTurns DEF Ticks
  <1>7. ASSUME NEW i \in Insts, SchedulerStops(i)
        PROVE  Ticking'
    BY <1>7, StopsTurns DEF Ticking, TickerOK, Ticks, callVars
  <1>8. CASE Aside
    BY <1>0, <1>1, <1>8 DEF Aside, schedulerVars
  <1>9. CASE Time
    BY <1>0, <1>1, <1>9, TimeStep
  <1>10. CASE Kill
    BY <1>10, KillStep DEF Ticking, TickerOK
  <1> QED BY <1>2, <1>3, <1>4, <1>5, <1>6, <1>7, <1>8, <1>9, <1>10, NextCases

(* The row of the trigger has the time its goroutine waits for, or one before  *)
(* it that has come; before the row is written, the call is about to write     *)
(* such a time.                                                                *)
Waits == {"starting", "writing", "mapped", "active", "closed"}
Special(i) == inst[i].phase = "writing" /\ inst[i].n = ticker[i].n
InTime(next, i) ==
  next # None /\ (next = ticker[i].next \/ (next < ticker[i].next /\ next <= clock))
KeptOK(i) ==
  Ticks(i) /\ inst[i].phase \in Waits =>
    InTime(IF Special(i) THEN inst[i].next ELSE rows[ticker[i].w].next[ticker[i].n], i)
Kept == \A i \in Insts : KeptOK(i)

(* The row of a goroutine whose instance has not been stopped.                 *)
LEMMA Slot ==
  ASSUME Lives, Stored, Timely, Ticking, NEW i \in Insts, Ticks(i), inst[i].phase \in Waits
  PROVE  /\ ticker[i].w = inst[i].w /\ ticker[i].w \in Workflows
         /\ rows[ticker[i].w].id = ticker[i].id /\ ticker[i].id # 0
         /\ ticker[i].id = inst[i].row /\ inst[i].w # None
         /\ ticker[i].n \in 1..Len(rows[ticker[i].w].list)
         /\ rows[ticker[i].w].next[ticker[i].n] \in Times
         /\ ticker[i].next \in Nat /\ ticker[i].n \in Nat /\ inst[i].n \in Nat
         /\ ticker[i].n <= inst[i].n
  <1>1. inst[i].phase \notin Absent
    BY DEF Waits, Absent
  <1>2. /\ ticker[i].w = inst[i].w /\ ticker[i].id = inst[i].row /\ ticker[i].n <= inst[i].n
        /\ ticker[i].n # 0 /\ ticker[i].id # 0
    BY <1>1 DEF Ticking, TickerOK
  <1>3. ticker[i] \in Ticker /\ ticker[i].w \in Workflows /\ ticker[i].w # None
    BY TriggersConstants DEF Timely
  <1>4. /\ ticker[i].next \in Nat /\ ticker[i].n \in Nat /\ inst[i].n \in Nat
        /\ inst[i].list \in TriggerLists /\ inst[i].n <= Len(inst[i].list)
    BY <1>3 DEF Ticker, Lives, Instance
  <1>5. rows[inst[i].w].id = inst[i].row /\ rows[inst[i].w].list = inst[i].list
    BY <1>2, <1>3 DEF Stored
  <1>6. ticker[i].n \in 1..Len(inst[i].list)
    BY <1>2, <1>4, ListTypes
  <1>7. rows[ticker[i].w].next \in Seq(Times)
        /\ Len(rows[ticker[i].w].next) = Len(rows[ticker[i].w].list)
    BY <1>3 DEF Stored, Rows
  <1> QED BY <1>2, <1>3, <1>4, <1>5, <1>6, <1>7

(* What keeps the row of a goroutine in time.                               *)
LEMMA KeptStays ==
  ASSUME NEW i \in Insts, KeptOK(i), ticker'[i] = ticker[i], clock' = clock,
         inst'[i].phase \in Waits => inst[i].phase \in Waits,
         Ticks(i) /\ inst'[i].phase \in Waits =>
           /\ inst'[i].phase = "writing" /\ inst'[i].n = ticker[i].n <=> Special(i)
           /\ inst'[i].next = inst[i].next \/ ~Special(i)
           /\ rows'[ticker[i].w].next[ticker[i].n] = rows[ticker[i].w].next[ticker[i].n]
  PROVE  KeptOK(i)'
  BY DEF KeptOK, Special, InTime, Ticks

(* The rows that an instance does not own are those of its workflow's past.    *)
LEMMA KeptOthers ==
  ASSUME Lives, Stored, Timely, Ticking, Kept, NEW w, NEW j \in Insts,
         inst[j].w # w, inst'[j] = inst[j], ticker'[j] = ticker[j], clock' = clock,
         \A v \in Workflows : v # w => rows'[v] = rows[v]
  PROVE  KeptOK(j)'
  <1>1. Ticks(j) /\ inst[j].phase \in Waits => rows'[ticker[j].w] = rows[ticker[j].w]
    BY Slot
  <1> QED BY <1>1, KeptStays DEF Kept, Special

(* A call for an instance touches no other instance, and no other's rows.       *)
LEMMA CallTouches ==
  ASSUME Lives, Stored, Timely, NEW i \in Insts, CallStep(i)
  PROVE  /\ inst[i].w # None /\ inst[i].w \in Workflows
         /\ \A j \in Insts : j # i => inst'[j] = inst[j] /\ inst[j].w # inst[i].w
         /\ \A v \in Workflows : v # inst[i].w => rows'[v] = rows[v]
  <1>1. CASE \/ StartScheduler(i) \/ StartWebhook(i) \/ StartWatcher(i) \/ WriteRow(i)
             \/ Undo(i) \/ Map(i) \/ Activate(i) \/ Close(i) \/ Halt(i) \/ RowsOff(i) \/ StatusOff(i)
    <2>1. \E phase : Moves(i, phase)
      BY <1>1, SchedulerMoves, WebhookMoves, WatcherMoves, WriteMoves, PlainMoves
    <2>2. inst[i].w # None /\ inst[i].w \in Workflows /\ \A j \in Insts : j # i => inst'[j] = inst[j]
      BY <2>1 DEF Moves, Became
    <2>3. CASE RowsOff(i)
      BY <2>2, <2>3, OffTriggers DEF RowsOff, Lives
    <2>4. CASE WriteRow(i)
      BY <2>2, <2>4 DEF WriteRow, SetTriggerRuntime, Stored, Lives
    <2>5. CASE rows' = rows
      BY <2>2, <2>5 DEF Lives
    <2> QED BY <1>1, <2>3, <2>4, <2>5 DEF StartScheduler, StartWebhook, StartWatcher, Undo, Map,
            Activate, Close, Halt, StatusOff, storeVars
  <1>2. CASE GiveUp(i) \/ Unmap(i)
    <2>1. inst' = [inst EXCEPT ![i] = Gone] /\ inst[i].phase \notin Absent
      BY <1>2 DEF GiveUp, Unmap, At, Absent
    <2>2. \A j \in Insts : j # i => inst'[j] = inst[j]
      BY <2>1 DEF Lives
    <2>3. inst[i].w # None /\ inst[i].w \in Workflows
      BY <2>1, AtPhase
    <2>4. \A v \in Workflows : v # inst[i].w => rows'[v] = rows[v]
      <3>1. CASE GiveUp(i)
        <4>1. SameOrGone
          BY CallLives DEF CallStep
        <4> QED BY <3>1, <4>1, GiveUpStored
      <3> QED BY <1>2, <3>1 DEF Unmap, storeVars
    <2> QED BY <2>2, <2>3, <2>4 DEF Lives
  <1> QED BY SMTT(30), <1>1, <1>2 DEF CallStep

(* No step of a call puts a time to come into a row but its goroutine's.    *)
LEMMA KeptCall ==
  ASSUME Lives, Stored, Timely, Ticking, Kept, NEW i \in Insts, CallStep(i)
  PROVE  Kept'
  <1>1. ASSUME \A j \in Insts : j # i => ticker'[j] = ticker[j], clock' = clock, KeptOK(i)'
        PROVE  Kept'
    <2> SUFFICES ASSUME NEW j \in Insts, j # i PROVE KeptOK(j)'
      BY <1>1 DEF Kept
    <2>1. /\ inst[j].w # inst[i].w /\ inst'[j] = inst[j]
          /\ \A v \in Workflows : v # inst[i].w => rows'[v] = rows[v]
      BY CallTouches
    <2> QED BY <1>1, <2>1, KeptOthers
  <1>2. CASE StartScheduler(i)
    <2>1. inst'[i].phase = "writing" /\ inst'[i].next \in Nat
      BY <1>2, SchedulerMoves DEF Moves, Became
    <2>2. /\ \A j \in Insts : j # i => ticker'[j] = ticker[j]
          /\ ticker'[i].n = inst'[i].n /\ ticker'[i].next = inst'[i].next /\ clock' = clock
      BY <1>2, StartTurns
    <2>3. KeptOK(i)'
      BY <2>1, <2>2, TriggersConstants DEF KeptOK, Special, InTime
    <2> QED BY <1>1, <2>2, <2>3
  <1>3. CASE ~StartScheduler(i)
    <2>0. ticker' = ticker /\ clock' = clock /\ CallStep(i)
      BY <1>3, QuietCall
    <2>1. ASSUME NEW phase, Moves(i, phase), rows' = rows, phase \in Waits => inst[i].phase \in Waits,
                 \/ inst'[i].n = inst[i].n /\ phase # "writing" /\ inst[i].phase # "writing"
                 \/ inst'[i].n = inst[i].n + 1 /\ inst[i].phase = "starting"
          PROVE  Kept'
      <3>1. inst'[i].phase = phase
        BY <2>1 DEF Moves, Became
      <3>2. Ticks(i) /\ phase \in Waits => ~Special(i) /\ ~(phase = "writing" /\ inst'[i].n = ticker[i].n)
        BY <2>1, Slot DEF Special
      <3>3. KeptOK(i)'
        BY <2>0, <2>1, <3>1, <3>2, KeptStays DEF Kept
      <3> QED BY <1>1, <2>0, <3>3
    <2>2. CASE StartWebhook(i) \/ StartWatcher(i)
      <3>1. rows' = rows
        BY <2>2 DEF StartWebhook, StartWatcher, storeVars
      <3>2. \/ Moves(i, "writing") /\ inst'[i].n = inst[i].n + 1 /\ inst[i].phase = "starting"
            \/ Moves(i, "refused") /\ inst'[i].n = inst[i].n /\ inst[i].phase = "starting"
        BY <2>2, WebhookMoves, WatcherMoves
      <3> QED BY <2>1, <3>1, <3>2 DEF Waits
    <2>3. CASE Undo(i) \/ Map(i) \/ Activate(i) \/ Close(i) \/ Halt(i) \/ StatusOff(i)
      <3>1. rows' = rows
        BY <2>3 DEF Undo, Map, Activate, Close, Halt, StatusOff, storeVars
      <3>2. /\ \E phase : /\ Moves(i, phase) /\ phase # "writing" /\ inst[i].phase # "writing"
                          /\ phase \in Waits => inst[i].phase \in Waits
            /\ inst'[i].n = inst[i].n
        BY <2>3, PlainMoves DEF Waits
      <3> QED BY <2>1, <3>1, <3>2
    <2>4. CASE RowsOff(i)
      <3>1. inst'[i].phase = "rowsOff"
        BY <2>4, PlainMoves DEF Moves, Became
      <3> QED BY <1>1, <2>0, <3>1 DEF KeptOK, Waits
    <2>5. CASE GiveUp(i) \/ Unmap(i)
      <3>1. inst'[i] = Gone
        BY <2>5 DEF GiveUp, Unmap, Lives
      <3> QED BY <1>1, <2>0, <3>1 DEF KeptOK, Waits, Gone, NoInst
    <2>6. CASE WriteRow(i)
      <3>1. /\ inst'[i].n = inst[i].n /\ inst[i].phase = "writing" /\ inst'[i].phase = "starting"
            /\ inst[i].w # None /\ inst[i].w \in Workflows
        BY <2>6, WriteMoves DEF Moves, Became
      <3>2. SetTriggerRuntime(inst[i].w, inst[i].row, inst[i].n, TRUE, inst[i].next)
            /\ inst[i].next \in Times
        BY <2>6 DEF WriteRow, Lives, Instance
      <3>3. Written(inst[i].w, inst[i].row, inst[i].n, inst[i].next)
        BY <3>1, <3>2, RuntimeTriggers
      <3>4. rows[inst[i].w].id = inst[i].row /\ inst[i].row # 0
        BY <3>1 DEF Stored
      <3>5. ASSUME Ticks(i) PROVE KeptOK(i)'
        <4>1. ticker[i].w = inst[i].w /\ ticker[i].n \in 1..Len(rows[inst[i].w].list)
          BY <3>1, <3>5, Slot DEF Waits
        <4>2. rows'[inst[i].w].next[ticker[i].n] =
                IF Special(i) THEN inst[i].next ELSE rows[inst[i].w].next[ticker[i].n]
          BY <3>1, <3>3, <3>4, <4>1 DEF Special, Written
        <4>3. KeptOK(i) /\ inst[i].phase \in Waits
          BY <3>1 DEF Kept, Waits
        <4> QED BY <2>0, <3>1, <3>5, <4>1, <4>2, <4>3 DEF KeptOK, Special, InTime
      <3>6. KeptOK(i)'
        BY <2>0, <3>5 DEF KeptOK, Ticks
      <3> QED BY <1>1, <2>0, <3>6
    <2> QED BY <1>3, <2>0, <2>2, <2>3, <2>4, <2>5, <2>6 DEF CallStep
  <1> QED BY <1>2, <1>3

(* A goroutine that goes on moves its time first, and its row after.        *)
LEMMA KeptTurns ==
  ASSUME Lives, Stored, Timely, Ticking, Kept, NEW i \in Insts,
         SchedulerFires(i) \/ SchedulerEnqueues(i) \/ SchedulerWrites(i) \/ SchedulerStops(i)
  PROVE  Kept'
  <1>1. inst' = inst /\ clock' = clock /\ \A j \in Insts : j # i => ticker'[j] = ticker[j]
    BY FiresTurns, EnqueuesTurns, WritesTurns, StopsTurns DEF Turned, callVars
  <1>2. ASSUME NEW j \in Insts, j # i
        PROVE  KeptOK(j)'
    <2>1. CASE rows' = rows
      BY <1>1, <1>2, <2>1, KeptStays DEF Kept, Special
    <2>2. CASE SchedulerWrites(i)
      <3> SUFFICES ASSUME Ticks(j), inst[j].phase \in Waits
                   PROVE  rows'[ticker[j].w].next[ticker[j].n] = rows[ticker[j].w].next[ticker[j].n]
        BY <1>1, <1>2, KeptStays DEF Kept, Special
      <3>1. /\ ticker[j].w = inst[j].w /\ ticker[j].w \in Workflows
            /\ rows[ticker[j].w].id = inst[j].row
            /\ ticker[j].n \in 1..Len(rows[ticker[j].w].list)
        BY Slot
      <3>2. /\ Ticks(i) /\ ticker[i].w \in Workflows /\ ticker[i].next \in Times
            /\ SetTriggerRuntime(ticker[i].w, ticker[i].id, ticker[i].n, TRUE, ticker[i].next)
        BY <2>2, WritesTurns DEF Timely, Ticks, Ticker, Times
      <3>3. inst[j].w = ticker[i].w => inst[j].row # ticker[i].id
        BY <1>2, <3>2 DEF Ticking, TickerOK
      <3>4. Written(ticker[i].w, ticker[i].id, ticker[i].n, ticker[i].next)
        BY <3>2, RuntimeTriggers
      <3> QED BY <3>1, <3>3, <3>4 DEF Written
    <2> QED BY <2>1, <2>2, FiresTurns, EnqueuesTurns, StopsTurns
  <1>3. KeptOK(i)'
    <2> SUFFICES ASSUME Ticks(i)', inst[i].phase \in Waits
                 PROVE  InTime(IF Special(i) THEN inst[i].next
                               ELSE rows[ticker[i].w].next[ticker[i].n], i)'
      BY <1>1 DEF KeptOK
    <2>1. /\ Ticks(i) /\ ticker'[i].n = ticker[i].n /\ ticker'[i].w = ticker[i].w
          /\ SchedulerFires(i) \/ SchedulerEnqueues(i) \/ SchedulerWrites(i)
      BY FiresTurns, EnqueuesTurns, WritesTurns, StopsTurns DEF Turned, Ticks
    <2>2. InTime(IF Special(i) THEN inst[i].next ELSE rows[ticker[i].w].next[ticker[i].n], i)
      BY <2>1 DEF Kept, KeptOK
    <2>3. Special(i)' = Special(i)
      BY <1>1, <2>1 DEF Special
    <2>4. /\ ticker[i].next \in Nat /\ inst[i].next \in Times
          /\ rows[ticker[i].w].next[ticker[i].n] \in Times
      BY <2>1, Slot DEF Lives, Instance
    <2>5. CASE SchedulerFires(i)
      <3>1. rows' = rows /\ ticker'[i].next = ticker[i].next
        BY <2>5, FiresTurns
      <3> QED BY <1>1, <2>1, <2>2, <2>3, <3>1 DEF InTime
    <2>6. CASE SchedulerEnqueues(i)
      <3>1. /\ rows' = rows /\ ticker[i].fired \in Nat /\ ticker[i].next <= ticker[i].fired
            /\ ticker'[i].next = NextRun(ticker[i].plan, ticker[i].fired)
            /\ ticker[i].fired <= clock /\ clock \in Nat
        BY <2>1, <2>6, EnqueuesTurns DEF Timely, Ticker, Ticking, TickerOK
      <3>2. ticker'[i].next \in Nat /\ ticker[i].fired < ticker'[i].next
        BY <2>4, <3>1, NextRunIsLater
      <3>3. \A t \in Times : InTime(t, i) => t # None /\ t < ticker'[i].next /\ t <= clock
        BY <2>4, <3>1, <3>2 DEF InTime, Times
      <3> QED BY <1>1, <2>1, <2>2, <2>3, <2>4, <3>1, <3>3 DEF InTime
    <2>7. CASE SchedulerWrites(i)
      <3>1. /\ ticker'[i].next = ticker[i].next
            /\ SetTriggerRuntime(ticker[i].w, ticker[i].id, ticker[i].n, TRUE, ticker[i].next)
        BY <2>7, WritesTurns
      <3>2. rows'[ticker[i].w].next[ticker[i].n] = ticker[i].next
        <4>1. /\ ticker[i].w \in Workflows /\ rows[ticker[i].w].id = ticker[i].id /\ ticker[i].id # 0
              /\ ticker[i].n \in 1..Len(rows[ticker[i].w].list)
          BY <2>1, Slot
        <4>2. ticker[i].next \in Times
          BY <2>4 DEF Times
        <4>3. Written(ticker[i].w, ticker[i].id, ticker[i].n, ticker[i].next)
          BY <3>1, <4>1, <4>2, RuntimeTriggers
        <4> QED BY <4>1, <4>3 DEF Written
      <3>3. ticker[i].next # None
        BY <2>4, TriggersConstants
      <3> QED BY <1>1, <2>1, <2>2, <2>3, <3>1, <3>2, <3>3 DEF InTime
    <2> QED BY <2>1, <2>5, <2>6, <2>7
  <1> QED BY <1>2, <1>3 DEF Kept

(* Kept is inductive.                                                       *)
LEMMA KeptStep ==
  ASSUME Lives, Stored, Timely, Ticking, Kept, [Next]_vars
  PROVE  Kept'
  <1>1. ASSUME NEW w \in Workflows, (\E list \in Lists[w] : Start(w, list)) \/ Restore(w)
        PROVE  Kept'
    <2>1. /\ \E list, row, restoring : Begins(w, list, row, restoring)
          /\ ~Busy(w) /\ \A v \in Workflows : v # w => rows'[v] = rows[v]
      <3>1. CASE Restore(w)
        BY <3>1, RestoreBegins DEF Restore, storeVars
      <3>2. CASE \E list \in Lists[w] : Start(w, list)
        BY <3>2, StartBegins, StartStored
      <3> QED BY <1>1, <3>1, <3>2
    <2>2. ticker' = ticker /\ clock' = clock /\ nextInst \in Insts /\ ~Ticks(nextInst)
      BY <1>1, QuietBegin, TickingBegins
    <2>3. \A j \in Insts : j # nextInst => inst'[j] = inst[j]
      BY <2>1 DEF Begins
    <2>4. ASSUME NEW j \in Insts PROVE KeptOK(j)'
      <3>1. CASE j = nextInst
        BY <2>2, <3>1 DEF KeptOK, Ticks
      <3>2. CASE j # nextInst
        <4>1. inst[j].w # w
          BY <2>1 DEF Busy
        <4> QED BY <2>1, <2>2, <2>3, <3>2, <4>1, KeptOthers
      <3> QED BY <3>1, <3>2
    <2> QED BY <2>4 DEF Kept
  <1>2. CASE \E i \in Insts : CallStep(i)
    BY <1>2, KeptCall
  <1>3. CASE \E i \in Insts : \/ SchedulerFires(i) \/ SchedulerEnqueues(i) \/ SchedulerWrites(i)
                              \/ SchedulerStops(i)
    BY <1>3, KeptTurns
  <1>4. CASE Aside \/ Time
    <2>1. /\ inst' = inst /\ ticker' = ticker /\ rows' = rows
          /\ clock \in Nat /\ clock' \in Nat /\ clock <= clock'
      BY <1>4, TimeStep, TriggersConstants DEF Aside, callVars, storeVars, schedulerVars, Timely
    <2> SUFFICES ASSUME NEW j \in Insts, Ticks(j), inst[j].phase \in Waits PROVE KeptOK(j)'
      BY <2>1 DEF Kept, KeptOK, Ticks
    <2>2. /\ InTime(IF Special(j) THEN inst[j].next ELSE rows[ticker[j].w].next[ticker[j].n], j)
          /\ inst[j].next \in Times /\ rows[ticker[j].w].next[ticker[j].n] \in Times
      BY Slot DEF Kept, KeptOK, Lives, Instance
    <2>3. \A t \in Times : InTime(t, j) => InTime(t, j)'
      BY <2>1 DEF InTime, Times
    <2> QED BY <2>1, <2>2, <2>3 DEF KeptOK, Special
  <1>5. CASE Kill
    BY <1>5, KillStep DEF Kept, KeptOK
  <1> QED BY <1>1, <1>2, <1>3, <1>4, <1>5, NextCases

(* Kept gives RowIsNextRun.                                                 *)
LEMMA KeptMeans ==
  ASSUME Kept
  PROVE  RowIsNextRun
  BY DEF Kept, KeptOK, RowIsNextRun, InTime, Special, Ticks, Waits

(* A goroutine about to enqueue a run that counts, and one not told to stop.   *)
Pending(i) == ticker[i].pc = "enqueue" /\ ~ticker[i].late
Hopeful(i) == Ticks(i) /\ i \notin stopped

(* The runs of w were all scheduled before time x.                             *)
Before(w, x) == \A t \in 0..MaxTime : runs[w][t] > 0 => t < x

(* A goroutine waits for a time that has not been run, later than any about to *)
(* be.                                                                         *)
Once ==
  /\ runs \in [Workflows -> [0..MaxTime -> Nat]]
  /\ \A w \in Workflows : Before(w, clock + 1) /\ \A t \in 0..MaxTime : runs[w][t] <= 1
  /\ \A i \in Insts : Pending(i) => runs[ticker[i].w][ticker[i].next] = 0
  /\ \A i \in Insts : Hopeful(i) => Before(ticker[i].w, ticker[i].next)
  /\ \A i, j \in Insts : j # i /\ ticker[j].w = ticker[i].w /\ Pending(j) =>
       /\ Pending(i) => ticker[j].next # ticker[i].next
       /\ Hopeful(i) => ticker[j].next < ticker[i].next

(* Before is monotone.                                                      *)
LEMMA EarlierBefore ==
  ASSUME NEW w, NEW x \in Nat, NEW y \in Nat, x <= y, Before(w, x)
  PROVE  Before(w, y)
  BY DEF Before

(* A goroutine about to enqueue does so for a time that has come.           *)
LEMMA PendingType ==
  ASSUME Timely, Ticking, NEW i \in Insts, ticker[i].pc = "enqueue"
  PROVE  /\ Ticks(i) /\ ticker[i].w \in Workflows /\ ticker[i].next \in 0..MaxTime
         /\ ticker[i].fired \in Nat /\ ticker[i].next <= ticker[i].fired /\ ticker[i].fired <= clock
         /\ clock \in Nat
  <1>1. ticker[i] \in Ticker /\ ticker[i].next <= ticker[i].fired /\ ticker[i].fired <= clock
    BY DEF Timely, Ticking, TickerOK, Ticks
  <1>2. clock \in 0..MaxTime /\ MaxTime \in Nat
    BY TriggersConstants DEF Timely
  <1> QED BY <1>1, <1>2 DEF Timely, Ticks, Ticker

(* One goroutine of a workflow at most has not been told to stop.              *)
LEMMA HopefulIsAlone ==
  ASSUME Lives, Timely, Ticking, NEW i \in Insts, NEW j \in Insts,
         Hopeful(i), Hopeful(j), ticker[i].w = ticker[j].w
  PROVE  i = j
  <1>1. \A k \in {i, j} : ticker[k].w = inst[k].w /\ inst[k].w # None
    BY DEF Hopeful, Ticking, TickerOK, Lives, Halted, Absent
  <1> QED BY <1>1 DEF Lives

(* Steps that run nothing and start no goroutine keep Once.                 *)
LEMMA OnceKept ==
  ASSUME Once, runs' = runs, clock \in Nat, clock' \in Nat, clock <= clock',
         \A i \in Insts :
           /\ Pending(i)' => Pending(i)
           /\ Hopeful(i)' => Hopeful(i)
           /\ Ticks(i)' => ticker'[i].w = ticker[i].w /\ ticker'[i].next = ticker[i].next
  PROVE  Once'
  <1>1. \A i \in Insts : Pending(i)' \/ Hopeful(i)' => Ticks(i)'
    BY DEF Pending, Hopeful, Ticks
  <1>2. \A w \in Workflows : Before(w, clock' + 1)
    BY EarlierBefore DEF Once
  <1>3. \A w \in Workflows : \A x : Before(w, x) => Before(w, x)'
    BY DEF Before
  <1>4. \A w \in Workflows : Before(w, clock + 1)'
    BY <1>2 DEF Before
  <1>5. \A i \in Insts : Pending(i)' => runs'[ticker'[i].w][ticker'[i].next] = 0
    BY <1>1 DEF Once
  <1>6. \A i \in Insts : Hopeful(i)' => Before(ticker[i].w, ticker[i].next)'
    BY <1>1 DEF Once, Before
  <1>7. \A i, j \in Insts : j # i /\ ticker'[j].w = ticker'[i].w /\ Pending(j)' =>
           /\ Pending(i)' => ticker'[j].next # ticker'[i].next
           /\ Hopeful(i)' => ticker'[j].next < ticker'[i].next
    BY <1>1 DEF Once
  <1> QED BY <1>4, <1>5, <1>6, <1>7 DEF Once

(* A goroutine not told to stop fires a time later than all those run or    *)
(* about to be.                                                             *)
LEMMA OnceFires ==
  ASSUME Lives, Timely, Ticking, Once, NEW i \in Insts, SchedulerFires(i)
  PROVE  Once'
  <1>1. /\ ticker[i].pc = "waiting" /\ ticker'[i].pc = "enqueue" /\ clock >= ticker[i].next
        /\ ticker'[i].next = ticker[i].next /\ ticker'[i].w = ticker[i].w
        /\ \A j \in Insts : j # i => ticker'[j] = ticker[j]
        /\ (ticker'[i].late <=> i \in stopped)
        /\ stopped' = stopped /\ runs' = runs /\ clock' = clock
    BY FiresTurns DEF Turned, callVars
  <1>2. /\ \A j \in Insts : Hopeful(j)' = Hopeful(j)
        /\ \A j \in Insts : j # i => Pending(j)' = Pending(j)
        /\ Pending(i)' => Hopeful(i)
    BY <1>1 DEF Hopeful, Pending, Ticks
  <1>3. \A j \in Insts : ticker'[j].w = ticker[j].w /\ ticker'[j].next = ticker[j].next
    BY <1>1
  <1>4. ticker[i].next \in 0..MaxTime /\ ticker[i].w \in Workflows
    BY <1>1, TriggersConstants DEF Timely, Ticker, Ticks
  <1>5. Hopeful(i) => runs[ticker[i].w][ticker[i].next] = 0
    <2> SUFFICES ASSUME Hopeful(i) PROVE runs[ticker[i].w][ticker[i].next] = 0
      OBVIOUS
    <2>1. ~(runs[ticker[i].w][ticker[i].next] > 0)
      BY <1>4 DEF Once, Before
    <2>2. runs[ticker[i].w][ticker[i].next] \in Nat
      BY <1>4 DEF Once
    <2> QED BY <2>1, <2>2
  <1>6. \A j \in Insts : Pending(j)' => runs'[ticker'[j].w][ticker'[j].next] = 0
    BY <1>1, <1>2, <1>3, <1>5 DEF Once
  <1>7. ASSUME NEW k \in Insts, NEW j \in Insts, j # k, ticker[j].w = ticker[k].w, Pending(j)'
        PROVE  /\ Pending(k)' => ticker[j].next # ticker[k].next
               /\ Hopeful(k) => ticker[j].next < ticker[k].next
    <2>1. ticker[j].next \in Nat /\ ticker[k].next \in Nat
      BY DEF Timely, Ticker
    <2>2. CASE j = i
      <3>1. Hopeful(i) /\ ~Hopeful(k)
        BY <1>2, <1>7, <2>2, HopefulIsAlone
      <3>2. Pending(k) => ticker[k].next < ticker[i].next
        BY <1>7, <2>2, <3>1 DEF Once
      <3> QED BY <1>2, <1>7, <2>1, <2>2, <3>1, <3>2
    <2>3. CASE j # i
      <3>1. Pending(j) /\ (Hopeful(k) => ticker[j].next < ticker[k].next)
        BY <1>2, <1>7, <2>3 DEF Once
      <3>2. CASE k = i
        BY <1>2, <2>1, <3>1, <3>2
      <3>3. CASE k # i
        BY <1>2, <1>7, <3>1, <3>3 DEF Once
      <3> QED BY <3>2, <3>3
    <2> QED BY <2>2, <2>3
  <1>8. \A w \in Workflows : Before(w, clock + 1)'
    BY <1>1 DEF Once, Before
  <1>9. \A j \in Insts : Hopeful(j)' => Before(ticker[j].w, ticker[j].next)'
    BY <1>1, <1>2, <1>3 DEF Once, Before
  <1> QED BY <1>1, <1>2, <1>3, <1>6, <1>7, <1>8, <1>9 DEF Once

(* enqueueAsync adds at most the run it is called for.                         *)
LEMMA OneMoreRun ==
  ASSUME runs \in [Workflows -> [0..MaxTime -> Nat]], NEW w \in Workflows, NEW t \in 0..MaxTime,
         EnqueueRun(w, t)
  PROVE  /\ runs' \in [Workflows -> [0..MaxTime -> Nat]]
         /\ \A v \in Workflows : \A x \in 0..MaxTime :
              runs'[v][x] = runs[v][x] \/ (v = w /\ x = t /\ runs'[v][x] = runs[v][x] + 1)
  <1>1. CASE Accepts(w)
    <2>0. runs[w] \in [0..MaxTime -> Nat] /\ runs[w][t] \in Nat
      <3>1. runs[w] \in [0..MaxTime -> Nat]
        OBVIOUS
      <3> QED BY <3>1
    <2> DEFINE new == [runs[w] EXCEPT ![t] = runs[w][t] + 1]
    <2>1. /\ new \in [0..MaxTime -> Nat] /\ new[t] = runs[w][t] + 1
          /\ \A x \in 0..MaxTime : x # t => new[x] = runs[w][x]
      BY <2>0
    <2>2. runs' = [runs EXCEPT ![w] = new]
      BY <1>1 DEF EnqueueRun
    <2> HIDE DEF new
    <2> QED BY <2>1, <2>2
  <1>2. CASE ~Accepts(w)
    BY <1>2 DEF EnqueueRun
  <1> QED BY <1>1, <1>2

(* It runs that time, and waits for a later one.                            *)
LEMMA OnceEnqueues ==
  ASSUME Lives, Timely, Ticking, Once, NEW i \in Insts, SchedulerEnqueues(i)
  PROVE  /\ Once'
         /\ \A v \in Workflows : v # ticker[i].w => runs'[v] = runs[v]
  <1>1. /\ ticker[i].pc = "enqueue" /\ ticker'[i].pc = "write" /\ ticker'[i].w = ticker[i].w
        /\ ticker'[i].next = NextRun(ticker[i].plan, ticker[i].fired)
        /\ \A j \in Insts : j # i => ticker'[j] = ticker[j]
        /\ stopped' = stopped /\ clock' = clock
        /\ runs' = runs \/ (Pending(i) /\ EnqueueRun(ticker[i].w, ticker[i].next))
    BY EnqueuesTurns DEF Turned, callVars, Pending
  <1>2. /\ ticker[i].w \in Workflows /\ ticker[i].next \in 0..MaxTime /\ Ticks(i)
        /\ ticker[i].fired \in Nat /\ ticker[i].next <= ticker[i].fired /\ ticker[i].fired <= clock
        /\ clock \in Nat
    BY <1>1, PendingType
  <1>3. ticker'[i].next \in Nat /\ ticker[i].next < ticker'[i].next
    <2>1. NextRun(ticker[i].plan, ticker[i].fired) \in Nat
          /\ NextRun(ticker[i].plan, ticker[i].fired) > ticker[i].fired
      BY <1>2, NextRunIsLater
    <2>2. ticker[i].next \in Nat
      BY <1>2
    <2> QED BY <1>1, <1>2, <2>1, <2>2
  <1>4. /\ \A j \in Insts : Hopeful(j)' = Hopeful(j)
        /\ \A j \in Insts : Pending(j)' => j # i /\ Pending(j)
        /\ \A j \in Insts : ticker'[j].w = ticker[j].w
    BY <1>1 DEF Hopeful, Pending, Ticks
  <1>5. /\ runs' \in [Workflows -> [0..MaxTime -> Nat]]
        /\ \A v \in Workflows : \A x \in 0..MaxTime :
             \/ runs'[v][x] = runs[v][x]
             \/ /\ v = ticker[i].w /\ x = ticker[i].next /\ Pending(i)
                /\ runs'[v][x] = runs[v][x] + 1
    <2>0. runs \in [Workflows -> [0..MaxTime -> Nat]]
      BY DEF Once
    <2>1. CASE runs' = runs
      BY <2>0, <2>1
    <2>2. CASE Pending(i) /\ EnqueueRun(ticker[i].w, ticker[i].next)
      BY SMTT(30), <1>2, <2>0, <2>2, OneMoreRun
    <2> QED BY <1>1, <2>1, <2>2
  <1>6. ASSUME NEW v \in Workflows
        PROVE  Before(v, clock + 1)' /\ \A x \in 0..MaxTime : runs'[v][x] <= 1
    <2> SUFFICES ASSUME NEW x \in 0..MaxTime
                 PROVE  (runs'[v][x] > 0 => x < clock + 1) /\ runs'[v][x] <= 1
      BY <1>1 DEF Before
    <2>1. CASE runs'[v][x] = runs[v][x]
      BY <2>1 DEF Once, Before
    <2>2. CASE v = ticker[i].w /\ x = ticker[i].next /\ Pending(i) /\ runs'[v][x] = runs[v][x] + 1
      <3>1. runs[v][x] = 0
        BY <2>2 DEF Once
      <3> QED BY <1>2, <2>2, <3>1
    <2> QED BY <1>5, <2>1, <2>2
  <1>7. ASSUME NEW j \in Insts, Pending(j)'
        PROVE  runs'[ticker'[j].w][ticker'[j].next] = 0
    <2>1. Pending(j) /\ j # i /\ ticker'[j] = ticker[j]
      BY <1>1, <1>4, <1>7
    <2>2. ticker[j].w \in Workflows /\ ticker[j].next \in 0..MaxTime
      BY <2>1, PendingType DEF Pending
    <2>3. runs[ticker[j].w][ticker[j].next] = 0
      BY <2>1 DEF Once
    <2>4. ~(ticker[j].w = ticker[i].w /\ ticker[j].next = ticker[i].next /\ Pending(i))
      BY <2>1 DEF Once
    <2> QED BY <1>5, <2>1, <2>2, <2>3, <2>4
  <1>8. ASSUME NEW j \in Insts, Hopeful(j)'
        PROVE  Before(ticker[j].w, ticker[j].next)'
    <2>1. /\ Hopeful(j) /\ Before(ticker[j].w, ticker[j].next) /\ ticker'[j].w = ticker[j].w
          /\ ticker[j].next \in Nat /\ ticker'[j].next \in Nat /\ ticker[j].w \in Workflows
      BY <1>1, <1>3, <1>4, <1>8 DEF Once, Timely, Ticker, Hopeful
    <2>2. ticker[j].next <= ticker'[j].next
      BY <1>1, <1>3, <2>1
    <2>3. ticker[j].w = ticker[i].w /\ Pending(i) => ticker[i].next < ticker'[j].next
      BY <1>1, <1>3, <2>1 DEF Once
    <2>4. ASSUME NEW x \in 0..MaxTime, runs'[ticker[j].w][x] > 0
          PROVE  x < ticker'[j].next
      <3>1. CASE runs'[ticker[j].w][x] = runs[ticker[j].w][x]
        BY <2>1, <2>2, <2>4, <3>1 DEF Before
      <3>2. CASE ticker[j].w = ticker[i].w /\ x = ticker[i].next /\ Pending(i)
        BY <2>3, <3>2
      <3> QED BY <1>5, <2>1, <3>1, <3>2
    <2> QED BY <2>1, <2>4 DEF Before
  <1>9. ASSUME NEW k \in Insts, NEW j \in Insts, j # k, ticker[j].w = ticker[k].w, Pending(j)'
        PROVE  /\ Pending(k)' => ticker'[j].next # ticker'[k].next
               /\ Hopeful(k)' => ticker'[j].next < ticker'[k].next
    <2>1. /\ Pending(j) /\ j # i /\ ticker'[j] = ticker[j]
          /\ ticker[j].next \in Nat /\ ticker[k].next \in Nat
      BY <1>1, <1>4, <1>9 DEF Timely, Ticker
    <2>2. CASE k = i
      <3>1. Hopeful(i) => ticker[j].next < ticker[i].next
        BY <1>9, <2>1, <2>2 DEF Once
      <3> QED BY <1>3, <1>4, <2>1, <2>2, <3>1
    <2>3. CASE k # i
      BY <1>1, <1>4, <1>9, <2>1, <2>3 DEF Once
    <2> QED BY <2>2, <2>3
  <1>10. ASSUME NEW v \in Workflows, v # ticker[i].w
         PROVE  runs'[v] = runs[v]
    <2>1. /\ runs[v] \in [0..MaxTime -> Nat] /\ runs'[v] \in [0..MaxTime -> Nat]
          /\ \A x \in 0..MaxTime : runs'[v][x] = runs[v][x]
      BY <1>5, <1>10 DEF Once
    <2>2. /\ runs[v] = [x \in 0..MaxTime |-> runs[v][x]]
          /\ runs'[v] = [x \in 0..MaxTime |-> runs'[v][x]]
      BY <2>1
    <2> QED BY <2>1, <2>2
  <1> QED BY <1>4, <1>5, <1>6, <1>7, <1>8, <1>9, <1>10 DEF Once

(* What is known of an instance whose scheduler has not started: the runs of a *)
(* restored workflow were scheduled before its boot, and no goroutine of an    *)
(* earlier process is left; the row of a new workflow holds no next run.       *)
NotYet(i) == inst[i].phase \in {"starting", "writing"} /\ ~Ticks(i)
Fresh(i) ==
  IF inst[i].restoring
    THEN Before(inst[i].w, clock) /\ \A j \in Insts : Ticks(j) => ticker[j].w # inst[i].w
    ELSE \A m \in 1..Len(inst[i].list) : m > inst[i].n => rows[inst[i].w].next[m] = None
Unseen ==
  /\ \A w \in boot : Before(w, clock)
  /\ \A i \in Insts : NotYet(i) => Fresh(i)

(* The missed run is not enqueued here: the instance is not in d.workflows.    *)
LEMMA StartRunsNothing ==
  ASSUME Lives, Stored, Timely, Mapped, NEW i \in Insts, StartScheduler(i)
  PROVE  runs' = runs
  <1>1. inst[i].phase = "starting" /\ inst[i].w # None /\ inst[i].w \in Workflows
    BY SchedulerMoves DEF Moves
  <1>2. ~Accepts(inst[i].w)
    <2> SUFFICES ASSUME current[inst[i].w] # 0
                 PROVE  inst[current[inst[i].w]].phase \notin {"mapped", "active"}
      BY DEF Accepts
    <2>1. current[inst[i].w] \in Insts /\ inst[current[inst[i].w]].w = inst[i].w
          /\ inst[current[inst[i].w]].phase # "starting"
      BY <1>1 DEF Mapped, Insts
    <2>2. current[inst[i].w] = i
      BY <1>1, <2>1 DEF Lives
    <2> QED BY <1>1, <2>1, <2>2
  <1> QED BY <1>2, StartTurns DEF EnqueueRun

(* The goroutine of a trigger waits for a time that has not been run.          *)
LEMMA OnceStarts ==
  ASSUME Lives, Stored, Timely, Mapped, Ticking, Once, Unseen, NEW i \in Insts, StartScheduler(i)
  PROVE  Once'
  <1>1. /\ inst[i].phase = "starting" /\ inst[i].w \in Workflows /\ inst'[i].n = inst[i].n + 1
        /\ inst'[i].n \in 1..Len(inst[i].list) /\ inst[i].n \in Nat
        /\ inst'[i].next \in Nat
    BY SchedulerMoves DEF Moves, Lives, Instance
  <1>2. /\ ticker'[i].pc = "waiting" /\ ticker'[i].w = inst[i].w /\ ticker'[i].next = inst'[i].next
        /\ \A j \in Insts : j # i => ticker'[j] = ticker[j]
        /\ clock' = clock /\ runs' = runs /\ stopped' = stopped /\ clock \in Nat
    <2>1. runs' = runs
      BY StartRunsNothing
    <2>2. clock \in Nat
      BY TriggersConstants DEF Timely
    <2> QED BY <2>1, <2>2, StartTurns
  <1>3. ~Ticks(i) /\ Fresh(i)
    BY <1>1, TickingStarts DEF Unseen, NotYet
  <1>4. \/ inst'[i].next > clock
        \/ inst[i].restoring /\ inst'[i].next >= clock
    <2> DEFINE stored == rows[inst[i].w].next[inst'[i].n]
    <2>1. /\ inst'[i].next = stored \/ inst'[i].next > clock
          /\ inst'[i].next = stored => stored # None
          /\ inst[i].restoring /\ inst'[i].next = stored => stored >= clock
      BY StartTurns
    <2>2. ~inst[i].restoring => stored = None
      BY <1>1, <1>3 DEF Fresh
    <2> QED BY <2>1, <2>2
  <1>5. Before(inst[i].w, inst'[i].next)
    <2>1. CASE inst'[i].next > clock
      <3>1. Before(inst[i].w, clock + 1)
        BY <1>1 DEF Once
      <3> QED BY <1>1, <1>2, <2>1, <3>1, EarlierBefore
    <2>2. CASE inst[i].restoring /\ inst'[i].next >= clock
      <3>1. Before(inst[i].w, clock)
        BY <1>3, <2>2 DEF Fresh
      <3> QED BY <1>1, <1>2, <2>2, <3>1, EarlierBefore
    <2> QED BY <1>4, <2>1, <2>2
  <1>6. ASSUME NEW j \in Insts, ticker[j].pc = "enqueue", ticker[j].w = inst[i].w
        PROVE  ticker[j].next < inst'[i].next
    <2>1. /\ Ticks(j) /\ ticker[j].next \in Nat /\ ticker[j].fired \in Nat
          /\ ticker[j].next <= ticker[j].fired /\ ticker[j].fired <= clock
      BY <1>6, PendingType
    <2>2. ~inst[i].restoring
      BY <1>3, <1>6, <2>1 DEF Fresh
    <2>3. inst'[i].next > clock
      BY <1>4, <2>2
    <2> QED BY <1>1, <1>2, <2>1, <2>3
  <1>7. /\ ~Pending(i)' /\ ~Pending(i)
        /\ \A j \in Insts : j # i => Pending(j)' = Pending(j) /\ Hopeful(j)' = Hopeful(j)
    BY <1>2, <1>3 DEF Pending, Hopeful, Ticks
  <1>8. \A j \in Insts : Pending(j)' => runs'[ticker'[j].w][ticker'[j].next] = 0
    BY <1>2, <1>7 DEF Once
  <1>9. ASSUME NEW j \in Insts, Hopeful(j)'
        PROVE  Before(ticker[j].w, ticker[j].next)'
    <2>1. CASE j = i
      BY <1>2, <1>5, <2>1 DEF Before
    <2>2. CASE j # i
      BY <1>2, <1>7, <1>9, <2>2 DEF Before, Once
    <2> QED BY <2>1, <2>2
  <1>10. ASSUME NEW k \in Insts, NEW j \in Insts, j # k, ticker'[j].w = ticker'[k].w, Pending(j)'
         PROVE  /\ Pending(k)' => ticker'[j].next # ticker'[k].next
                /\ Hopeful(k)' => ticker'[j].next < ticker'[k].next
    <2>1. j # i /\ Pending(j) /\ ticker'[j] = ticker[j] /\ ticker[j].pc = "enqueue"
      BY <1>2, <1>7, <1>10 DEF Pending
    <2>2. CASE k = i
      BY <1>2, <1>6, <1>7, <1>10, <2>1, <2>2
    <2>3. CASE k # i
      BY <1>2, <1>7, <1>10, <2>1, <2>3 DEF Once
    <2> QED BY <2>2, <2>3
  <1>11. \A w \in Workflows : Before(w, clock + 1)'
    BY <1>2 DEF Once, Before
  <1> QED BY <1>2, <1>8, <1>9, <1>10, <1>11 DEF Once

(* Once is inductive, with Unseen.                                          *)
LEMMA OnceStep ==
  ASSUME Lives, Stored, Timely, Mapped, Ticking, Once, Unseen, [Next]_vars
  PROVE  Once'
  <1>0. clock \in Nat /\ clock' \in Nat /\ clock <= clock
    BY TimelyStep, TriggersConstants DEF Timely
  <1>1. ASSUME runs' = runs, ticker' = ticker, stopped \subseteq stopped', clock <= clock'
        PROVE  Once'
    BY <1>0, <1>1, OnceKept DEF Pending, Hopeful, Ticks
  <1>2. ASSUME NEW i \in Insts, CallStep(i), ~StartScheduler(i)
        PROVE  Once'
    <2>1. stopped \subseteq stopped'
      BY <1>2 DEF CallStep, StartWebhook, StartWatcher, Undo, GiveUp, WriteRow, Map, Activate,
         Close, Halt, RowsOff, StatusOff, Unmap
    <2> QED BY SMTT(30), <1>0, <1>1, <1>2, <2>1, QuietCall
  <1>3. CASE \E w \in Workflows : (\E list \in Lists[w] : Start(w, list)) \/ Restore(w)
    BY <1>0, <1>1, <1>3, QuietBegin
  <1>4. ASSUME NEW i \in Insts, SchedulerWrites(i) \/ SchedulerStops(i)
        PROVE  Once'
    <2>1. CASE SchedulerWrites(i)
      <3>1. \A j \in Insts : /\ Pending(j)' => Pending(j)
                             /\ Hopeful(j)' => Hopeful(j)
                             /\ ticker'[j].w = ticker[j].w /\ ticker'[j].next = ticker[j].next
        BY <2>1, WritesTurns DEF Turned, callVars, Pending, Hopeful, Ticks
      <3> QED BY <1>0, <2>1, <3>1, WritesTurns, OnceKept DEF Turned
    <2>2. CASE SchedulerStops(i)
      <3>1. \A j \in Insts : /\ Pending(j)' => Pending(j)
                             /\ Hopeful(j)' => Hopeful(j)
                             /\ Ticks(j)' => ticker'[j].w = ticker[j].w /\ ticker'[j].next = ticker[j].next
        BY <2>2, StopsTurns DEF callVars, Pending, Hopeful, Ticks
      <3> QED BY <1>0, <2>2, <3>1, StopsTurns, OnceKept
    <2> QED BY <1>4, <2>1, <2>2
  <1>5. CASE Aside
    BY <1>0, <1>1, <1>5 DEF Aside, callVars, schedulerVars
  <1>6. CASE Time
    BY <1>0, <1>1, <1>6, TimeStep DEF callVars
  <1>7. CASE Kill
    <2>1. \A j \in Insts : ~Ticks(j)' /\ ~Pending(j)' /\ ~Hopeful(j)'
      BY <1>7, KillStep DEF Pending, Hopeful, Ticks
    <2> QED BY <1>0, <1>7, <2>1, KillStep, OnceKept
  <1> QED BY <1>2, <1>3, <1>4, <1>5, <1>6, <1>7, OnceFires, OnceEnqueues, OnceStarts, NextCases

(* An instance that is starting owns the rows of its workflow.              *)
LEMMA NotYetType ==
  ASSUME Lives, Stored, NEW i \in Insts, NotYet(i)
  PROVE  /\ inst[i].w \in Workflows /\ inst[i].w # None /\ inst[i].n \in Nat
         /\ inst[i].w \notin boot
         /\ inst[i].list \in TriggerLists /\ Len(inst[i].list) \in Nat
         /\ rows[inst[i].w].list = inst[i].list
         /\ rows[inst[i].w].id = inst[i].row /\ inst[i].row # 0
  <1>1. inst[i].phase \notin Absent
    BY DEF NotYet, Absent
  <1>2. inst[i].w \in Workflows /\ inst[i].w # None
    BY <1>1, AtPhase
  <1>3. inst[i].list \in TriggerLists /\ inst[i].n \in Nat
    BY DEF Lives, Instance
  <1> QED BY <1>2, <1>3, ListTypes DEF Stored, Busy

(* What keeps Fresh of an instance.                                         *)
LEMMA FreshKept ==
  ASSUME Lives, NEW i \in Insts, Fresh(i), inst[i].n \in Nat,
         inst'[i].w = inst[i].w, inst'[i].list = inst[i].list,
         inst'[i].restoring = inst[i].restoring, inst'[i].n \in Nat, inst'[i].n >= inst[i].n,
         runs'[inst[i].w] = runs[inst[i].w], clock \in Nat, clock' \in Nat, clock <= clock',
         \A k \in Insts : Ticks(k)' => (Ticks(k) /\ ticker'[k].w = ticker[k].w)
                                       \/ ticker'[k].w # inst[i].w,
         \A m \in 1..Len(inst[i].list) : m > inst'[i].n =>
           rows'[inst[i].w].next[m] = rows[inst[i].w].next[m]
  PROVE  Fresh(i)'
  <1>1. CASE inst[i].restoring
    <2>1. Before(inst[i].w, clock)
      BY <1>1 DEF Fresh
    <2>2. Before(inst[i].w, clock')
      BY <2>1, EarlierBefore
    <2>3. Before(inst[i].w, clock)'
      BY <2>2 DEF Before
    <2> QED BY <1>1, <2>3 DEF Fresh
  <1>2. CASE ~inst[i].restoring
    BY <1>2 DEF Fresh
  <1> QED BY <1>1, <1>2

(* What keeps the runs of the workflows to restore before the clock.        *)
LEMMA BootKept ==
  ASSUME Unseen, boot \subseteq Workflows, boot' \subseteq boot, \A w \in boot : runs'[w] = runs[w],
         clock \in Nat, clock' \in Nat, clock <= clock'
  PROVE  \A w \in boot' : Before(w, clock)'
  <1> SUFFICES ASSUME NEW w \in boot' PROVE Before(w, clock)'
    OBVIOUS
  <1>1. Before(w, clock)
    BY DEF Unseen
  <1>2. Before(w, clock')
    BY <1>1, EarlierBefore
  <1> QED BY <1>2 DEF Before

(* An instance that begins is Fresh.                                        *)
LEMMA UnseenBegins ==
  ASSUME Lives, Stored, Timely, Ticking, Unseen, NEW w \in Workflows,
         (\E list \in Lists[w] : Start(w, list)) \/ Restore(w)
  PROVE  Unseen'
  <1>0. /\ ticker' = ticker /\ clock' = clock /\ runs' = runs /\ stopped' = stopped
        /\ clock \in Nat /\ clock <= clock
    BY QuietBegin, TriggersConstants DEF Timely
  <1>1. /\ \E list, row, restoring : Begins(w, list, row, restoring)
        /\ ~Busy(w) /\ boot' \subseteq boot
        /\ \A v \in Workflows : v # w => rows'[v] = rows[v]
    <2>1. CASE Restore(w)
      BY <2>1, RestoreBegins DEF Restore, storeVars
    <2>2. CASE \E list \in Lists[w] : Start(w, list)
      BY <2>2, StartBegins, StartStored DEF Start
    <2> QED BY <2>1, <2>2
  <1>2. nextInst \in Insts /\ \A j \in Insts : j # nextInst => inst'[j] = inst[j]
    BY <1>1, TickingBegins DEF Begins
  <1>3. \A v \in boot' : Before(v, clock)'
    BY <1>0, <1>1, BootKept DEF Stored
  <1>4. ASSUME NEW j \in Insts, j # nextInst, NotYet(j)'
        PROVE  Fresh(j)'
    <2>1. NotYet(j) /\ Fresh(j) /\ inst'[j] = inst[j]
      BY <1>0, <1>2, <1>4 DEF Unseen, NotYet, Ticks
    <2>2. inst[j].w \in Workflows /\ inst[j].w # w /\ inst[j].n \in Nat /\ inst[j].n >= inst[j].n
      BY <1>1, <2>1, NotYetType DEF Busy
    <2> QED BY <1>0, <1>1, <2>1, <2>2, FreshKept DEF Ticks
  <1>5. PICK new \in Insts : new = nextInst
    BY <1>2
  <1>6. Fresh(new)'
    <2>1. CASE Restore(w)
      <3>1. /\ inst'[new].w = w /\ inst'[new].restoring = TRUE /\ w \in boot
        BY <2>1, <1>5, RestoreBegins DEF Begins
      <3>2. Before(w, clock)'
        BY <1>0, <3>1 DEF Unseen, Before
      <3>3. \A j \in Insts : Ticks(j)' => ticker'[j].w # w
        BY <1>0, <3>1 DEF Ticking, TickerOK, Ticks
      <3> QED BY <3>1, <3>2, <3>3 DEF Fresh
    <2>2. ASSUME NEW list \in Lists[w], Start(w, list)
          PROVE  Fresh(new)'
      <3>1. /\ inst'[new].w = w /\ inst'[new].restoring = FALSE
            /\ inst'[new].list = list
        BY <2>2, <1>5, StartBegins DEF Begins
      <3>2. \A m \in 1..Len(list) : rows'[w].next[m] = None
        BY <2>2, StartStored
      <3> QED BY <3>1, <3>2 DEF Fresh
    <2> QED BY <2>1, <2>2
  <1>7. (\A j \in Insts : NotYet(j) => Fresh(j))'
    <2> SUFFICES ASSUME NEW j \in Insts, NotYet(j)' PROVE Fresh(j)'
      OBVIOUS
    <2>1. CASE j = new
      BY <1>6, <2>1
    <2>2. CASE j # new
      BY <1>4, <1>5, <2>2
    <2> QED BY <2>1, <2>2
  <1> QED BY <1>3, <1>7 DEF Unseen

(* The steps of the calls keep Unseen.                                      *)
LEMMA UnseenCall ==
  ASSUME Lives, Stored, Timely, Mapped, Ticking, Unseen, NEW i \in Insts, CallStep(i)
  PROVE  Unseen'
  <1>0. clock' = clock /\ runs' = runs /\ clock \in Nat /\ clock <= clock /\ boot' = boot
    <2>1. clock' = clock /\ runs' = runs
      BY QuietCall, StartTurns, StartRunsNothing
    <2>2. boot' = boot
      BY CallGoes DEF CallStep
    <2> QED BY <2>1, <2>2, TriggersConstants DEF Timely
  <1>1. /\ inst[i].w # None /\ inst[i].w \in Workflows
        /\ \A j \in Insts : j # i => inst'[j] = inst[j] /\ inst[j].w # inst[i].w
        /\ \A v \in Workflows : v # inst[i].w => rows'[v] = rows[v]
    BY CallTouches
  <1>2. /\ \A j \in Insts : j # i => ticker'[j] = ticker[j]
        /\ StartScheduler(i) => ticker'[i].pc = "waiting" /\ ticker'[i].w = inst[i].w
        /\ ~StartScheduler(i) => ticker' = ticker
    BY QuietCall, StartTurns
  <1>3. \A v \in boot' : Before(v, clock)'
    BY <1>0, BootKept DEF Stored
  <1>4. ASSUME NEW j \in Insts, j # i, NotYet(j)'
        PROVE  Fresh(j)'
    <2>1. NotYet(j) /\ Fresh(j) /\ inst'[j] = inst[j] /\ inst[j].w # inst[i].w
      BY <1>1, <1>2, <1>4 DEF Unseen, NotYet, Ticks
    <2>2. inst[j].w \in Workflows /\ inst[j].n \in Nat /\ inst[j].n >= inst[j].n
      BY <2>1, NotYetType
    <2>3. \A k \in Insts : Ticks(k)' => (Ticks(k) /\ ticker'[k].w = ticker[k].w)
                                         \/ ticker'[k].w # inst[j].w
      BY <1>2, <2>1 DEF Ticks
    <2> QED BY <1>0, <1>1, <2>1, <2>2, <2>3, FreshKept
  <1>5. ASSUME NotYet(i)'
        PROVE  Fresh(i)'
    <2>1. ~StartScheduler(i) /\ ticker' = ticker /\ ~Ticks(i)
          /\ inst'[i].phase \in {"starting", "writing"}
      BY <1>2, <1>5 DEF NotYet, Ticks
    <2>2. ASSUME NEW phase, Moves(i, phase), NotYet(i), inst'[i].n >= inst[i].n,
                 \A m \in 1..Len(inst[i].list) : m > inst'[i].n =>
                   rows'[inst[i].w].next[m] = rows[inst[i].w].next[m]
          PROVE  Fresh(i)'
      <3>1. /\ inst'[i].w = inst[i].w /\ inst'[i].list = inst[i].list
            /\ inst'[i].restoring = inst[i].restoring /\ inst'[i].n \in Nat /\ inst[i].n \in Nat
            /\ Fresh(i)
        BY <2>2 DEF Moves, Became, Instance, Lives, Unseen
      <3>2. \A k \in Insts : Ticks(k)' => (Ticks(k) /\ ticker'[k].w = ticker[k].w)
                                           \/ ticker'[k].w # inst[i].w
        BY <2>1 DEF Ticks
      <3> QED BY <1>0, <2>2, <3>1, <3>2, FreshKept
    <2>3. CASE StartWebhook(i) \/ StartWatcher(i)
      <3>1. /\ rows' = rows /\ inst[i].phase = "starting" /\ inst[i].n \in Nat
            /\ \E phase : Moves(i, phase)
            /\ inst'[i].n = inst[i].n + 1 \/ inst'[i].n = inst[i].n
        BY <2>3, WebhookMoves, WatcherMoves
           DEF StartWebhook, StartWatcher, storeVars, Lives, Instance
      <3> QED BY SMTT(30), <2>1, <2>2, <3>1 DEF NotYet
    <2>4. CASE WriteRow(i)
      <3>1. /\ inst'[i].n = inst[i].n /\ inst[i].phase = "writing" /\ Moves(i, "starting")
            /\ inst[i].n \in Nat
        BY <2>4, WriteMoves DEF Lives, Instance
      <3>2. NotYet(i)
        BY <2>1, <3>1 DEF NotYet
      <3>3. SetTriggerRuntime(inst[i].w, inst[i].row, inst[i].n, TRUE, inst[i].next)
            /\ inst[i].next \in Times
        BY <2>4 DEF WriteRow, Lives, Instance
      <3>4. Written(inst[i].w, inst[i].row, inst[i].n, inst[i].next)
        BY <1>1, <3>3, RuntimeTriggers
      <3>5. \A m \in 1..Len(inst[i].list) : m > inst'[i].n =>
              rows'[inst[i].w].next[m] = rows[inst[i].w].next[m]
        BY <1>1, <3>1, <3>2, <3>4, NotYetType DEF Written
      <3> QED BY <2>2, <3>1, <3>2, <3>5
    <2>5. CASE Undo(i) \/ Map(i) \/ Activate(i) \/ Close(i) \/ Halt(i) \/ RowsOff(i) \/ StatusOff(i)
      BY <2>1, <2>5, PlainMoves DEF Moves, Became
    <2>6. CASE GiveUp(i) \/ Unmap(i)
      <3>1. inst'[i] = Gone
        BY <2>6 DEF GiveUp, Unmap, Lives
      <3> QED BY <2>1, <3>1 DEF Gone, NoInst
    <2> QED BY <2>1, <2>3, <2>4, <2>5, <2>6 DEF CallStep
  <1>6. (\A j \in Insts : NotYet(j) => Fresh(j))'
    BY <1>4, <1>5
  <1> QED BY <1>3, <1>6 DEF Unseen

(* A goroutine runs nothing of, and writes no row of, an instance that is   *)
(* Fresh.                                                                   *)
LEMMA UnseenTurns ==
  ASSUME Lives, Stored, Timely, Ticking, Once, Unseen, NEW i \in Insts,
         SchedulerFires(i) \/ SchedulerEnqueues(i) \/ SchedulerWrites(i) \/ SchedulerStops(i)
  PROVE  Unseen'
  <1>0. clock' = clock /\ clock \in Nat /\ clock <= clock /\ UNCHANGED callVars
    <2>1. clock \in Nat
      BY TriggersConstants DEF Timely
    <2>2. Turned(i) \/ SchedulerStops(i)
      BY FiresTurns, EnqueuesTurns, WritesTurns
    <2> QED BY <2>1, <2>2, StopsTurns DEF Turned
  <1>1. /\ Ticks(i) /\ \A j \in Insts : j # i => ticker'[j] = ticker[j]
        /\ Ticks(i)' => ticker'[i].w = ticker[i].w
        /\ ~Ticks(i)' => i \in stopped
    <2>1. CASE SchedulerFires(i)
      BY <2>1, FiresTurns DEF Turned, Ticks
    <2>2. CASE SchedulerEnqueues(i)
      BY <2>2, EnqueuesTurns DEF Turned, Ticks
    <2>3. CASE SchedulerWrites(i)
      BY <2>3, WritesTurns DEF Turned, Ticks
    <2>4. CASE SchedulerStops(i)
      BY <2>4, StopsTurns DEF SchedulerStops, TickerStops, Ticks
    <2> QED BY <2>1, <2>2, <2>3, <2>4
  <1>2. \A v \in Workflows : v # ticker[i].w => runs'[v] = runs[v]
    BY FiresTurns, OnceEnqueues, WritesTurns, StopsTurns
  <1>3. ticker[i].w \in Workflows /\ ticker[i].w \notin boot
    BY <1>1 DEF Timely, Ticking, TickerOK
  <1>4. \A v \in boot' : Before(v, clock)'
    BY <1>0, <1>2, <1>3, BootKept DEF Stored, callVars
  <1>5. ASSUME NEW j \in Insts, NotYet(j)'
        PROVE  Fresh(j)'
    <2>1. inst'[j] = inst[j] /\ inst[j].phase \in {"starting", "writing"} /\ j \notin stopped
      BY <1>0, <1>5 DEF NotYet, callVars, Lives, Halted
    <2>2. j # i /\ NotYet(j) /\ Fresh(j)
      BY <1>1, <1>5, <2>1 DEF NotYet, Ticks, Unseen
    <2>3. /\ inst[j].w \in Workflows /\ inst[j].n \in Nat /\ inst[j].n >= inst[j].n
          /\ rows[inst[j].w].list = inst[j].list /\ rows[inst[j].w].id = inst[j].row
      BY <2>2, NotYetType
    <2>4. \A k \in Insts : Ticks(k)' => (Ticks(k) /\ ticker'[k].w = ticker[k].w)
                                         \/ ticker'[k].w # inst[j].w
      BY <1>1 DEF Ticks
    <2>5. inst[j].w = ticker[i].w => inst[j].row # ticker[i].id
      BY <1>1, <2>2 DEF Ticking, TickerOK
    <2>6. \A m \in 1..Len(inst[j].list) : rows'[inst[j].w].next[m] = rows[inst[j].w].next[m]
      <3>1. CASE SchedulerWrites(i)
        <4>1. /\ ticker[i].next \in Times
              /\ SetTriggerRuntime(ticker[i].w, ticker[i].id, ticker[i].n, TRUE, ticker[i].next)
          BY <3>1, WritesTurns DEF Timely, Ticker, Times
        <4>2. Written(ticker[i].w, ticker[i].id, ticker[i].n, ticker[i].next)
          BY <1>3, <4>1, RuntimeTriggers
        <4> QED BY <2>3, <2>5, <4>2 DEF Written
      <3>2. CASE rows' = rows
        BY <3>2
      <3> QED BY <3>1, <3>2, FiresTurns, EnqueuesTurns, StopsTurns
    <2>7. CASE inst[j].restoring
      <3>1. ticker[i].w # inst[j].w
        BY <1>1, <2>2, <2>7 DEF Fresh
      <3>2. runs'[inst[j].w] = runs[inst[j].w]
        BY <1>2, <2>3, <3>1
      <3> QED BY <1>0, <2>1, <2>2, <2>3, <2>4, <2>6, <3>2, FreshKept
    <2>8. CASE ~inst[j].restoring
      BY <2>1, <2>2, <2>6, <2>8 DEF Fresh
    <2> QED BY <2>7, <2>8
  <1>6. (\A j \in Insts : NotYet(j) => Fresh(j))'
    BY <1>5
  <1> QED BY <1>4, <1>6 DEF Unseen

(* Unseen is inductive; a kill makes the clock later than every run.        *)
LEMMA UnseenStep ==
  ASSUME Lives, Stored, Timely, Mapped, Ticking, Once, Unseen, [Next]_vars
  PROVE  Unseen'
  <1>0. clock \in Nat /\ clock' \in Nat /\ clock <= clock
    BY TimelyStep, TriggersConstants DEF Timely
  <1>1. CASE Aside \/ Time
    <2>1. /\ inst' = inst /\ ticker' = ticker /\ rows' = rows /\ boot' = boot /\ runs' = runs
          /\ clock <= clock'
      BY <1>0, <1>1, TimeStep DEF Aside, callVars, storeVars, schedulerVars
    <2>2. \A v \in boot' : Before(v, clock)'
      BY <1>0, <2>1, BootKept DEF Stored
    <2>3. ASSUME NEW j \in Insts, NotYet(j)'
          PROVE  Fresh(j)'
      <3>1. NotYet(j) /\ Fresh(j)
        BY <2>1, <2>3 DEF NotYet, Ticks, Unseen
      <3>2. inst[j].n \in Nat /\ inst[j].n >= inst[j].n
        BY <3>1, NotYetType
      <3> QED BY <1>0, <2>1, <3>1, <3>2, FreshKept DEF Ticks
    <2> QED BY <2>2, <2>3 DEF Unseen
  <1>2. CASE Kill
    <2>1. \A j \in Insts : inst'[j].phase = "none"
      BY <1>2, KillLives
    <2>2. /\ boot' = active /\ runs' = runs /\ clock < clock' /\ active \subseteq Workflows
      BY <1>2, KillStep DEF Stored
    <2>3. ASSUME NEW v \in boot' PROVE Before(v, clock)'
      <3>1. Before(v, clock + 1) /\ clock + 1 <= clock' /\ clock + 1 \in Nat
        BY <1>0, <2>2, <2>3 DEF Once
      <3>2. Before(v, clock')
        BY <1>0, <3>1, EarlierBefore
      <3> QED BY <2>2, <3>2 DEF Before
    <2> QED BY <2>1, <2>3 DEF Unseen, NotYet
  <1> QED BY <1>1, <1>2, UnseenBegins, UnseenCall, UnseenTurns, NextCases

(* The inductive invariant. *)
Inv ==
  /\ kills \in 0..MaxKills
  /\ Lives /\ Stored /\ Mapped /\ Timely /\ Ticking
  /\ Routed /\ Watching /\ Kept /\ Once /\ Unseen

(* No watcher at first.                                                     *)
LEMMA WatchingInit ==
  ASSUME Init
  PROVE  Watching
  <1>1. /\ Off \in Watcher /\ Off.pc = "off"
        /\ \A f \in Files : Off.timers[f] = 0 /\ Off.kinds[f] = None
    BY TriggersConstants DEF Off, Watcher, Kinds
  <1>2. /\ watcher = [i \in Insts |-> Off] /\ timer = [t \in Timers |-> NoTimer] /\ events = 0
    BY DEF Init, WatcherInit
  <1>3. /\ \A i \in Insts : watcher[i] = Off
        /\ \A t \in Timers : timer[t] = NoTimer
    BY <1>2
  <1>4. WatcherTypes
    BY <1>1, <1>2, NoTimerFields, TriggersConstants DEF WatcherTypes
  <1>5. \A t \in Timers : TimerOK(t)
    BY <1>3, NoTimerFields DEF TimerOK
  <1>6. \A i \in Insts, f \in Files : EntryOK(i, f)
    BY <1>1, <1>3 DEF EntryOK
  <1> QED BY <1>1, <1>3, <1>4, <1>5, <1>6 DEF Watching

(* The invariant holds at first.                                            *)
LEMMA InvInit ==
  ASSUME Init
  PROVE  Inv
  <1>1. /\ NoInst \in Instance /\ NoInst.w = None /\ NoInst.phase = "none" /\ NoInst.n = 0
        /\ NoInst.list = << >> /\ Len(<< >>) = 0
    BY EmptyList DEF NoInst, Instance, Phases, Times
  <1>2. /\ NoRows \in Rows /\ NoRows.id = 0 /\ NoRows.list = << >> /\ NoRows.on = << >>
        /\ NoRows.next = << >>
    BY EmptyList DEF NoRows, Rows
  <1>3. /\ \A i \in Insts : inst[i] = NoInst
        /\ inst \in [Insts -> Instance] /\ nextInst = 1 /\ stopped = {} /\ boot = {} /\ active = {}
    BY <1>1 DEF Init
  <1>4. /\ \A w \in Workflows : rows[w] = NoRows
        /\ rows \in [Workflows -> Rows]
    BY <1>2 DEF Init
  <1>5. /\ \A i \in Insts : ticker[i] = NoTicker
        /\ ticker \in [Insts -> Ticker] /\ clock \in 0..MaxTime /\ clock \in Nat
    BY NoTickerType, TriggersConstants DEF Init, SchedulerInit
  <1>6. \A i \in Insts : ~Ticks(i)
    BY <1>5, NoTickerType DEF Ticks
  <1>7. kills \in 0..MaxKills
    BY TriggersConstants DEF Init
  <1>8. Lives
    BY <1>1, <1>3, TriggersConstants DEF Lives, Absent, Halted
  <1>9. Stored
    BY <1>1, <1>2, <1>3, <1>4 DEF Stored, Busy
  <1>10. Mapped
    BY TriggersConstants DEF Init, Mapped
  <1>11. Timely
    BY <1>5, <1>6 DEF Timely
  <1>12. Ticking /\ Kept
    BY <1>6 DEF Ticking, TickerOK, Kept, KeptOK
  <1>13. Routed
    <2>1. routes = [k \in Keys |-> None]
      BY DEF Init, RegistryInit
    <2> QED BY <1>1, <1>3, <2>1 DEF Routed, Up
  <1>14. Once
    <2>1. /\ runs = [w \in Workflows |-> [t \in 0..MaxTime |-> 0]]
          /\ \A w \in Workflows : \A t \in 0..MaxTime : runs[w][t] = 0
      BY DEF Init
    <2>2. \A i \in Insts : ~Pending(i) /\ ~Hopeful(i)
      BY <1>6 DEF Pending, Hopeful, Ticks
    <2>3. runs \in [Workflows -> [0..MaxTime -> Nat]]
      BY <2>1
    <2>4. \A w \in Workflows : Before(w, clock + 1) /\ \A t \in 0..MaxTime : runs[w][t] <= 1
      BY <2>1 DEF Before
    <2> QED BY <2>2, <2>3, <2>4 DEF Once
  <1>15. Unseen
    BY <1>1, <1>3 DEF Unseen, NotYet
  <1> QED BY <1>7, <1>8, <1>9, <1>10, <1>11, <1>12, <1>13, <1>14, <1>15, WatchingInit DEF Inv

(* The bound on the kills.                                                  *)
LEMMA KillsStep ==
  ASSUME kills \in 0..MaxKills, [Next]_vars
  PROVE  kills' \in 0..MaxKills
  <1>1. CASE kills' = kills
    BY <1>1
  <1>2. CASE Kill
    BY <1>2, TriggersConstants DEF Kill
  <1>3. CASE \E w \in Workflows : (\E list \in Lists[w] : Start(w, list)) \/ Restore(w)
    BY ZenonT(40), <1>1, <1>3 DEF Start, Restore
  <1>4. CASE \E i \in Insts : CallStep(i)
    BY <1>1, <1>4 DEF CallStep, StartScheduler, StartWebhook, StartWatcher, Undo, GiveUp, WriteRow,
       Map, Activate, Close, Halt, RowsOff, StatusOff, Unmap
  <1>5. CASE \/ \E i \in Insts : \/ SchedulerFires(i) \/ SchedulerEnqueues(i) \/ SchedulerWrites(i)
                                 \/ SchedulerStops(i)
             \/ Aside \/ Time
    BY <1>1, <1>5 DEF SchedulerFires, SchedulerEnqueues, SchedulerWrites, SchedulerStops, Aside,
       Time, callVars
  <1> QED BY <1>2, <1>3, <1>4, <1>5, NextCases

(* The invariant is inductive.                                              *)
LEMMA InvStep ==
  ASSUME Inv, [Next]_vars
  PROVE  Inv'
  BY LivesStep, StoredStep, MappedStep, TimelyStep, TickingStep, RoutedStep, WatchingStep,
     KeptStep, OnceStep, UnseenStep, KillsStep DEF Inv

(* The inductive invariant holds of every state of every behaviour.         *)
THEOREM TriggersInvariant == Spec => []Inv
  <1>1. Init => Inv
    BY InvInit
  <1>2. Inv /\ [Next]_vars => Inv'
    BY InvStep
  <1> QED BY <1>1, <1>2, PTL DEF Spec

(* The types follow from the invariant.                                     *)
LEMMA InvTypes ==
  ASSUME Inv
  PROVE  TypeOK
  <1>0. Lives /\ Stored /\ Mapped /\ Timely /\ Routed /\ Watching /\ Once
    BY DEF Inv
  <1>1. \A i \in Insts : inst[i].phase \in Phases /\ inst[i].n \in 0..Len(inst[i].list)
    BY <1>0, ListTypes DEF Lives, Instance
  <1>2. ASSUME NEW w \in Workflows, NEW n \in 1..Len(rows[w].list)
        PROVE  rows[w].on[n] \in BOOLEAN /\ rows[w].next[n] \in Nat \cup {None}
    <2>1. /\ rows[w].on \in Seq(BOOLEAN) /\ Len(rows[w].on) = Len(rows[w].list)
          /\ rows[w].next \in Seq(Times) /\ Len(rows[w].next) = Len(rows[w].list)
      BY <1>0 DEF Stored, Rows
    <2>2. rows[w].on[n] \in BOOLEAN
      BY <2>1
    <2>3. rows[w].next[n] \in Times
      BY <2>1
    <2> QED BY <2>2, <2>3 DEF Times
  <1>3. \A i \in Insts : ticker[i].next \in Nat /\ ticker[i].plan \in Plans
    BY <1>0 DEF Timely, Ticker
  <1>4. \A t \in Timers : timer[t].due \in Nat /\ timer[t].armed \in BOOLEAN
    BY <1>0, TimerFields DEF Watching
  <1>5. /\ nextInst \in 1..(MaxInst + 1) /\ stopped \subseteq Insts
        /\ current \in [Workflows -> 0..MaxInst] /\ boot \subseteq Workflows /\ active \subseteq Workflows
        /\ routes \in [Keys -> Workflows \cup {None}] /\ runs \in [Workflows -> [0..MaxTime -> Nat]]
        /\ clock \in 0..MaxTime /\ kills \in 0..MaxKills /\ events \in 0..MaxEvents
    BY <1>0 DEF Inv, Lives, Stored, Mapped, Timely, Routed, Watching, WatcherTypes, Once
  <1> QED BY <1>1, <1>2, <1>3, <1>4, <1>5 DEF TypeOK

(* Every variable has its type, in daemon.go's triggers with any lists of   *)
(* triggers.                                                                *)
THEOREM TriggersTypeCorrect == Spec => []TypeOK
  BY TriggersInvariant, InvTypes, PTL

(* RoutesMatch is what Routed says of the phases.                           *)
LEMMA InvRoutes ==
  ASSUME Inv
  PROVE  RoutesMatch
  BY DEF Inv, Routed, RoutesMatch, Up

(* A route belongs to a workflow that is not stopped and has it among its   *)
(* triggers, and a workflow that is up has all its routes, whatever others  *)
(* register or give up meanwhile (register, unregister and removeWorkflow). *)
THEOREM RoutesMatchHolds == Spec => []RoutesMatch
  BY TriggersInvariant, InvRoutes, PTL

(* OneRunPerTime is a part of Once.                                         *)
LEMMA InvOnce ==
  ASSUME Inv
  PROVE  OneRunPerTime
  BY DEF Inv, Once, OneRunPerTime

(* A scheduled time is run at most once across stops, starts, kills and     *)
(* restores, by whichever goroutine (startSchedulerTrigger).                *)
THEOREM OneRunPerTimeHolds == Spec => []OneRunPerTime
  BY TriggersInvariant, InvOnce, PTL

(* RowIsNextRun is what Kept says of a goroutine that waits.                *)
LEMMA InvKept ==
  ASSUME Inv
  PROVE  RowIsNextRun
  BY KeptMeans DEF Inv

(* The next run in the database of a scheduler that is up is the one its    *)
(* goroutine waits for, or a time already gone by: a boot that finds a time *)
(* still to come goes on with the right one (SetTriggerRuntime).            *)
THEOREM RowIsNextRunHolds == Spec => []RowIsNextRun
  BY TriggersInvariant, InvKept, PTL

(* Both properties of the watchers follow from the invariant.               *)
LEMMA InvWatching ==
  ASSUME Inv
  PROVE  EventIsKept /\ ArmedIsStoppable
  BY WatchingMeans DEF Inv

(* An event that a watcher has taken has a timer or a callback that will    *)
(* report it (startFileWatcherTrigger).                                     *)
THEOREM EventIsKeptHolds == Spec => []EventIsKept
  BY TriggersInvariant, InvWatching, PTL

(* A timer that is armed is in the map of a watcher that runs, where Stop   *)
(* finds it, unless a timer of its file was reset after it had fired        *)
(* (startFileWatcherTrigger).                                               *)
THEOREM ArmedIsStoppableHolds == Spec => []ArmedIsStoppable
  BY TriggersInvariant, InvWatching, PTL
=============================================================================
