---------------------------- MODULE DaemonQuiet_proofs ----------------------------
(***************************************************************************)
(* Proofs about what the database and the memory of Daemon say of the same *)
(* workflow: as long as lifecycle calls do not overlap and the store       *)
(* works, they agree whenever none is in progress.                         *)
(*                                                                         *)
(* The invariant says how far they are apart at each point of the one call *)
(* that is in progress (Local), what that call has left alone              *)
(* (Elsewhere), and what a crash or an error at any point may leave in the *)
(* database for the next boot (Database).                                  *)
(***************************************************************************)
EXTENDS Daemon_proofs

Leaders == Operators \cup {Main}
Active(w) == workflows[w] = "active"

(* An instance works for w and its triggers fire.                            *)
Managed(w) ==
  LET i == current[w]
  IN /\ i # 0 /\ inst[i].w = w /\ inst[i].pc # "none"
     /\ inst[i].watching /\ ~inst[i].closed
     /\ triggers[w].id = inst[i].trig /\ triggers[w].active

(* Database and memory agree on w, but for an instance that does not accept  *)
(* at the moment.                                                            *)
Fits(w) == IF Active(w) THEN Managed(w) ELSE current[w] = 0
Settled(w) == Fits(w) /\ (Active(w) => inst[current[w]].accepting)

(* What no workflow has has been told to stop.                               *)
Strays ==
  \A i \in Insts : inst[i].pc # "none" /\ (\A w \in Workflows : current[w] # i)
                     => inst[i].closed /\ ~inst[i].watching

(* How the workflow of a call with locals c stands when the call is at pc.   *)
Local(pc, c) ==
  LET w == c.w
      i == c.i
      restores == c.op = "restore"
  IN /\ pc # "markStopped"
     /\ pc = "close" => Active(w) /\ Settled(w)
     /\ pc \in {"drain", "reopen", "cancel", "halt"} =>
          Active(w) /\ Managed(w) /\ current[w] = i
     /\ pc \in {"triggersOff", "statusOff", "unmap"} =>
          /\ current[w] = i /\ inst[i].closed /\ ~inst[i].watching
          /\ pc = "unmap" => ~Active(w)
     /\ pc \in {"load", "upsert", "replace", "deleteRow", "giveUpTriggers"} =>
          ~Active(w) /\ current[w] = 0
     /\ pc = "giveUp" => current[w] = 0
     /\ pc \in Building =>
          current[w] = 0 /\ (Active(w) <=> restores) /\ triggers[w].id = c.trig
     /\ pc \in {"triggersOn", "spawn"} =>
          inst[i].trig = c.trig /\ inst[i].accepting /\ inst[i].watching /\ ~inst[i].closed
     /\ pc = "spawn" => triggers[w].active
     /\ pc = "statusOn" =>
          Managed(w) /\ current[w] = i /\ inst[i].accepting /\ (Active(w) <=> restores)
     /\ pc = "wake" => Active(w) /\ Settled(w) /\ current[w] = i

(* How the others stand: those the boot has still to restore have nothing in *)
(* memory.                                                                   *)
Waits(c, w) == c.op = "restore" /\ w \in c.rest
Elsewhere(pc, c) ==
  \A w \in Workflows :
     w # c.w \/ pc = "restore" =>
       IF Waits(c, w) THEN Active(w) /\ current[w] = 0 ELSE Settled(w)

Stage(c) ==
  /\ c.op = "shutdown" =>
       /\ c.pc \in {"drainAll", "reopenAll"} /\ shuttingDown
       /\ c.insts = {current[w] : w \in Workflows} \ {0}
       /\ \A w \in Workflows : Fits(w)
  /\ c.pc \in {"retain", "list"} => \A w \in Workflows : current[w] = 0
  /\ c.op # "shutdown" /\ c.pc \notin {"retain", "list"} =>
       Local(c.pc, c) /\ Elsewhere(c.pc, c)

Single == \A p, q \in Leaders : Busy(p) /\ Busy(q) => p = q

(* What is active has had triggers, also in the database of a process that   *)
(* was killed or whose store failed; and what the boot lists stays active.   *)
Database ==
  /\ \A w \in Workflows : Active(w) => triggers[w].id # None
  /\ \A p \in Callers : call[p].pc \in Activating => triggers[call[p].w].id # None
  /\ call[Main].op = "restore" =>
       \A w \in call[Main].rest : Active(w) /\ w # call[Main].w
  /\ call[Main].pc \in {"retain", "list"} => call[Main].w = None

(* The process has neither met an error of the store nor come beyond the     *)
(* point at which a shutdown can still be given up.                          *)
Sound ==
  /\ up /\ ~failed
  /\ shuttingDown => \E p \in Leaders : call[p].pc \in {"drainAll", "reopenAll"}

Memory ==
  /\ Strays
  /\ \A p \in Leaders : Busy(p) => Stage(call[p])
  /\ (\A p \in Leaders : ~Busy(p)) => \A w \in Workflows : Settled(w)

QuietInv == ~overlapped => Single /\ Database /\ (Sound => Memory)
-----------------------------------------------------------------------------
(* The leaders are callers, and not users or triggers.                       *)
LEMMA LeadersCall == Leaders \subseteq Callers /\ Main \in Leaders
                     /\ \A p \in Leaders : p \notin Users \cup Firers
  BY DaemonConstants DEF Leaders, DaemonConstants

(* A goroutine that moves on keeps the rest of its locals.                   *)
LEMMA Goto ==
  ASSUME CallsOK, NEW p \in Callers, NEW next, StepTo(p, next)
  PROVE  /\ call'[p].pc = next /\ call'[p].op = call[p].op /\ call'[p].w = call[p].w
         /\ call'[p].i = call[p].i /\ call'[p].trig = call[p].trig
         /\ call'[p].rest = call[p].rest /\ call'[p].insts = call[p].insts
         /\ \A q \in Callers \ {p} : call'[q] = call[q]
  <1>1. call[p] \in Locals /\ DOMAIN call = Callers
    BY DEF CallsOK
  <1>2. call' = [call EXCEPT ![p] = [call[p] EXCEPT !.pc = next]]
    BY DEF StepTo
  <1>3. call'[p] = [call[p] EXCEPT !.pc = next] /\ \A q \in Callers \ {p} : call'[q] = call[q]
    BY <1>1, <1>2
  <1> QED BY <1>1, <1>3 DEF Locals

(* A goroutine whose call returns is idle, in none.                          *)
LEMMA Back ==
  ASSUME CallsOK, NEW p \in Callers, Return(p)
  PROVE  /\ call'[p] = Idle /\ Idle.pc = "idle" /\ Idle.op = "none"
         /\ \A q \in Callers \ {p} : call'[q] = call[q]
  BY DEF CallsOK, Return, Idle

(* A stage seen through a rigid copy of the locals.                          *)
LEMMA StageOf ==
  ASSUME NEW p, NEW c, call'[p] = c, Stage(c)'
  PROVE  Stage(call[p])'
  BY DEF Stage, Local, Elsewhere, Waits, Settled, Fits, Managed, Active

(* What stays settled.                                                       *)
LEMMA SettledStays ==
  ASSUME NEW w \in Workflows, Settled(w), workflows'[w] = workflows[w],
         current'[w] = current[w], triggers'[w].id = triggers[w].id,
         triggers[w].active => triggers'[w].active,
         current[w] # 0 =>
           /\ inst'[current[w]].w = inst[current[w]].w
           /\ inst[current[w]].pc # "none" => inst'[current[w]].pc # "none"
           /\ inst[current[w]].watching => inst'[current[w]].watching
           /\ inst'[current[w]].closed => inst[current[w]].closed
           /\ inst'[current[w]].trig = inst[current[w]].trig
           /\ inst[current[w]].accepting => inst'[current[w]].accepting
  PROVE  Settled(w)'
  BY DEF Settled, Fits, Managed, Active
-----------------------------------------------------------------------------
(* A step of the call in progress that works on its own workflow and on one  *)
(* instance.                                                                 *)
World(c, i) ==
  /\ overlapped' = overlapped /\ up' = up /\ shuttingDown' = shuttingDown
  /\ failed => failed'
  /\ \A w \in Workflows \ {c.w} :
       workflows'[w] = workflows[w] /\ current'[w] = current[w] /\ triggers'[w] = triggers[w]
  /\ \A j \in Insts \ {i} : inst'[j] = inst[j]
  /\ i \in Insts => inst[i].pc = "none" \/ inst[i].w = c.w
Frame(p, c, i) == (\A q \in Callers \ {p} : call'[q] = call[q]) /\ World(c, i)

(* Instances that the step may have made strays.                             *)
StraysOf(c, i) ==
  \A j \in Insts : j \in {i, current[c.w]} /\ inst'[j].pc # "none" /\ current'[c.w] # j
                     => inst'[j].closed /\ ~inst'[j].watching

Turning(p, c) ==
  /\ Control /\ QuietInv /\ ~overlapped
  /\ p \in Leaders /\ c = call[p] /\ Busy(p) /\ c.w \in Workflows
  /\ c.op # "shutdown" /\ c.pc \notin {"retain", "list", "restore"}

(* The other workflows stay as they are.                                     *)
LEMMA OthersStay ==
  ASSUME NEW p, NEW c, NEW i, Control, Frame(p, c, i), NEW w \in Workflows \ {c.w}
  PROVE  /\ Active(w)' <=> Active(w)
         /\ current'[w] = current[w]
         /\ Settled(w) => Settled(w)'
         /\ triggers'[w].id = triggers[w].id
  <1>1. /\ workflows'[w] = workflows[w] /\ current'[w] = current[w]
        /\ triggers'[w] = triggers[w] /\ current[w] \in Insts \cup {0}
    BY DEF Frame, World, Control, DaemonTypeOK
  <1>2. current[w] # 0 => inst[current[w]].pc # "none" /\ inst[current[w]].w = w
    BY DEF Control, InstancesOK
  <1>3. current[w] # 0 => current[w] \in Insts \ {i}
    BY <1>1, <1>2 DEF Frame, World
  <1>4. current[w] # 0 => inst'[current[w]] = inst[current[w]]
    BY <1>3 DEF Frame, World
  <1>5. Settled(w) => Settled(w)'
    BY <1>1, <1>4, SettledStays
  <1> QED BY <1>1, <1>5 DEF Active

(* A step of the call in progress keeps QuietInv if it leaves its own        *)
(* workflow as the point it comes to says.                                   *)
LEMMA Turn ==
  ASSUME NEW p, NEW c, NEW i, NEW d, Turning(p, c), Frame(p, c, i), call'[p] = d,
         \/ d = Idle /\ c.op # "restore"
         \/ /\ d.w = c.w /\ d.pc \notin {"drainAll", "reopenAll", "retain", "list"}
            /\ d.op = c.op \/ (c.op # "restore" /\ d.op \in Handling)
            /\ c.op = "restore" => d.rest = c.rest,
         Active(c.w)' \/ d.pc \in Activating => triggers'[c.w].id # None,
         up /\ ~failed' /\ Local(c.pc, c) =>
           /\ StraysOf(c, i)
           /\ d # Idle => Local(d.pc, d)'
           /\ d = Idle \/ d.pc = "restore" => Settled(c.w)'
  PROVE  QuietInv'
  <1> USE DEF Turning
  <1>1. Idle.pc = "idle" /\ Idle.op = "none" /\ Idle.rest = {}
    BY DEF Idle
  <1>2. /\ p \in Callers /\ Main \in Leaders /\ Leaders \subseteq Callers
        /\ \A q \in Leaders \ {p} : call'[q] = call[q]
    BY LeadersCall DEF Frame, World
  <1>3. \A q \in Leaders : Busy(q) => q = p
    BY DEF QuietInv, Single
  <1>4. \A q \in Leaders : Busy(q)' => q = p
    BY <1>2, <1>3 DEF Busy
  <1>5. Database'
    <2>1. \A w \in Workflows : Active(w)' => triggers'[w].id # None
      BY OthersStay DEF QuietInv, Database
    <2>2. ASSUME NEW q \in Callers, call'[q].pc \in Activating
          PROVE  triggers'[call'[q].w].id # None
      <3>1. CASE q = p
        BY <1>1, <2>2, <3>1 DEF Activating, Building
      <3>2. CASE q # p
        <4>1. call'[q] = call[q] /\ triggers[call[q].w].id # None
          BY <2>2, <3>2 DEF Frame, World, QuietInv, Database
        <4>2. call[q].w \in Workflows
          BY <2>2, <4>1 DEF Control, CallsOK, PlaceOK
        <4>3. q \in Leaders /\ Busy(q)
          BY <2>2, <4>1 DEF Control, CallsOK, PlaceOK, Busy, LifecycleOps, Leaders, Handling
        <4> QED BY <1>3, <3>2, <4>3
      <3> QED BY <3>1, <3>2
    <2>3. ASSUME call'[Main].op = "restore", NEW w \in call'[Main].rest
          PROVE  Active(w)' /\ w # call'[Main].w
      <3>1. Main = p
        BY <1>2, <1>4, <2>3 DEF Busy, LifecycleOps
      <3>2. c.op = "restore" /\ d.op = "restore" /\ d.rest = c.rest /\ d.w = c.w
        BY <1>1, <2>3, <3>1 DEF Handling
      <3>3. Active(w) /\ w # c.w /\ w \in Workflows
        <4>1. w \in c.rest /\ call[Main] = c
          BY <2>3, <3>1, <3>2
        <4>2. PlaceOK(p, c)
          BY <1>2 DEF Control, CallsOK
        <4> QED BY <3>2, <4>1, <4>2 DEF QuietInv, Database, PlaceOK
      <3> QED BY <3>1, <3>2, <3>3, OthersStay
    <2>4. call'[Main].pc \in {"retain", "list"} => call'[Main].w = None
      BY <1>1, <1>2 DEF QuietInv, Database
    <2> QED BY <2>1, <2>2, <2>3, <2>4 DEF Database
  <1>6. ASSUME Sound'
        PROVE  Memory'
    <2>1. up /\ ~failed' /\ ~failed
      BY <1>6 DEF Sound, Frame, World
    <2>2. Sound
      <3> SUFFICES ASSUME shuttingDown
                   PROVE  \E q \in Leaders : call[q].pc \in {"drainAll", "reopenAll"}
        BY <2>1 DEF Sound
      <3>1. PICK q \in Leaders : call'[q].pc \in {"drainAll", "reopenAll"}
        BY <1>6 DEF Sound, Frame, World
      <3>2. q # p
        BY <1>1, <3>1
      <3> QED BY <1>2, <3>1, <3>2
    <2>3. Strays /\ Stage(c)
      BY <2>2 DEF QuietInv, Memory
    <2>4. Local(c.pc, c) /\ Elsewhere(c.pc, c)
      BY <2>3 DEF Stage
    <2>5. /\ StraysOf(c, i)
          /\ d # Idle => Local(d.pc, d)'
          /\ d = Idle \/ d.pc = "restore" => Settled(c.w)'
      BY <2>1, <2>4
    <2>6. Strays'
      <3> SUFFICES ASSUME NEW j \in Insts, inst'[j].pc # "none",
                          \A w \in Workflows : current'[w] # j
                   PROVE  inst'[j].closed /\ ~inst'[j].watching
        BY DEF Strays
      <3>1. CASE j \in {i, current[c.w]}
        BY <2>5, <3>1 DEF StraysOf
      <3>2. CASE j \notin {i, current[c.w]}
        <4>1. inst'[j] = inst[j] /\ \A w \in Workflows : current[w] # j
          BY <3>2 DEF Frame, World
        <4> QED BY <2>3, <4>1 DEF Strays
      <3> QED BY <3>1, <3>2
    <2>7. ASSUME NEW w \in Workflows, w # c.w
          PROVE  /\ Waits(c, w) => Active(w)' /\ current'[w] = 0
                 /\ ~Waits(c, w) => Settled(w)'
      BY <2>4, <2>7, OthersStay DEF Elsewhere
    <2>8. ASSUME d # Idle
          PROVE  Stage(d)'
      <3>1. d.op # "shutdown" /\ d.pc \notin {"retain", "list"} /\ d.w = c.w
        BY <2>8 DEF Handling
      <3>2. \A w \in Workflows : Waits(d, w) <=> Waits(c, w)
        BY <2>8 DEF Waits, Handling
      <3>3. ASSUME d.pc = "restore"
            PROVE  ~Waits(d, c.w) /\ Settled(c.w)'
        <4>1. ~Waits(c, c.w)
          <5>1. c.op = "restore" => p = Main
            BY <1>2 DEF Control, CallsOK, PlaceOK
          <5> QED BY <5>1 DEF Waits, QuietInv, Database
        <4> QED BY <2>5, <3>2, <3>3, <4>1
      <3>4. ASSUME NEW w \in Workflows, w # d.w \/ d.pc = "restore"
            PROVE  IF Waits(d, w) THEN Active(w)' /\ current'[w] = 0 ELSE Settled(w)'
        BY <2>7, <3>1, <3>2, <3>3, <3>4
      <3>5. Elsewhere(d.pc, d)'
        BY <3>4 DEF Elsewhere, Waits
      <3> QED BY <2>5, <2>8, <3>1, <3>5 DEF Stage
    <2>9. ASSUME d = Idle
          PROVE  \A w \in Workflows : Settled(w)'
      <3>1. c.op # "restore"
        BY <1>1, <2>9 DEF Busy, LifecycleOps
      <3> QED BY <2>5, <2>7, <2>9, <3>1 DEF Waits
    <2>10. ASSUME NEW q \in Leaders, Busy(q)'
           PROVE  Stage(call[q])'
      <3>1. q = p /\ d # Idle
        BY <1>1, <1>4, <2>10 DEF Busy, LifecycleOps
      <3> QED BY <2>8, <3>1, StageOf
    <2>11. ASSUME \A q \in Leaders : ~Busy(q)'
           PROVE  \A w \in Workflows : Settled(w)'
      <3>1. d.op \notin LifecycleOps
        BY <2>11 DEF Busy
      <3>2. d = Idle
        BY <3>1 DEF Busy, LifecycleOps, Handling
      <3> QED BY <2>9, <3>2
    <2> QED BY <2>6, <2>10, <2>11 DEF Memory
  <1> QED BY <1>4, <1>5, <1>6 DEF QuietInv, Single
-----------------------------------------------------------------------------
(* What is known of the locals of the call in progress.                      *)
LEMMA Turned ==
  ASSUME NEW p, NEW c, Turning(p, c)
  PROVE  /\ p \in Callers /\ c = call[p] /\ c \in Locals /\ PlaceOK(p, c) /\ HasInstance(c)
         /\ CallsOK /\ DaemonTypeOK /\ c.w \in Workflows /\ 0 \notin Insts
         /\ Active(c.w) => triggers[c.w].id # None
         /\ c.pc \in Activating => triggers[c.w].id # None
  <1>1. p \in Callers /\ c = call[p]
    BY LeadersCall DEF Turning
  <1>2. 0 \notin Insts
    BY DEF Insts
  <1> QED
    BY <1>1, <1>2 DEF Turning, Control, CallsOK, InstancesOK, QuietInv, Database

(* What a step leaves alone that works on the rows of the workflow only.     *)
SameWorld(c) ==
  /\ UNCHANGED <<inst, current, overlapped, up, shuttingDown>>
  /\ failed => failed'
  /\ \A w \in Workflows \ {c.w} : workflows'[w] = workflows[w] /\ triggers'[w] = triggers[w]

(* It works on no instance, and makes no stray.                              *)
LEMMA SameInstances ==
  ASSUME NEW c, SameWorld(c)
  PROVE  World(c, 0) /\ StraysOf(c, 0)
  <1>1. 0 \notin Insts
    BY DEF Insts
  <1> QED
    BY <1>1 DEF SameWorld, World, StraysOf

(* The call moves on to next.                                                *)
LEMMA MoveTo ==
  ASSUME NEW p, NEW c, NEW i, NEW next, Turning(p, c), World(c, i), StepTo(p, next),
         next \notin {"drainAll", "reopenAll", "retain", "list"},
         Active(c.w)' \/ next \in Activating => triggers'[c.w].id # None,
         up /\ ~failed' /\ Local(c.pc, c) =>
           /\ StraysOf(c, i) /\ Local(next, c)'
           /\ next = "restore" => Settled(c.w)'
  PROVE  QuietInv'
  <1> DEFINE d == [c EXCEPT !.pc = next]
  <1>1. c = call[p] /\ c \in Locals /\ p \in Callers /\ CallsOK
    BY Turned
  <1>2. /\ d.pc = next /\ d.op = c.op /\ d.w = c.w /\ d.i = c.i /\ d.trig = c.trig
        /\ d.rest = c.rest
    BY <1>1 DEF Locals
  <1>3. call' = [call EXCEPT ![p] = d]
    BY <1>1 DEF StepTo
  <1> HIDE DEF d
  <1>4. call'[p] = d /\ \A q \in Callers \ {p} : call'[q] = call[q]
    BY <1>1, <1>3 DEF CallsOK
  <1>5. c.op # "none"
    BY DEF Turning, Busy, LifecycleOps
  <1>6. d # Idle
    BY <1>2, <1>5 DEF Idle
  <1>7. Local(next, c)' => Local(d.pc, d)'
    BY <1>2 DEF Local, Settled, Fits, Managed, Active
  <1>8. Frame(p, c, i)
    BY <1>4 DEF Frame
  <1> QED
    BY <1>2, <1>4, <1>6, <1>7, <1>8, Turn

(* The call returns.                                                         *)
LEMMA MoveBack ==
  ASSUME NEW p, NEW c, NEW i, Turning(p, c), World(c, i), Return(p), c.op # "restore",
         Active(c.w)' => triggers'[c.w].id # None,
         up /\ ~failed' /\ Local(c.pc, c) => StraysOf(c, i) /\ Settled(c.w)'
  PROVE  QuietInv'
  <1>1. p \in Callers /\ CallsOK
    BY Turned
  <1>2. call'[p] = Idle /\ Idle.pc = "idle" /\ \A q \in Callers \ {p} : call'[q] = call[q]
    BY <1>1, Back
  <1>3. Frame(p, c, i) /\ Idle.pc \notin Activating
    BY <1>2 DEF Frame, Activating, Building
  <1> QED
    BY <1>2, <1>3, Turn

(* A step that may only fail with an error of the store.                     *)
LEMMA FaultBack ==
  ASSUME NEW p, NEW c, Turning(p, c), Return(p) \/ StepTo(p, "deleteRow"), SameWorld(c),
         c.op # "restore", failed', UNCHANGED <<workflows, triggers>>
  PROVE  QuietInv'
  <1>1. Active(c.w)' => triggers'[c.w].id # None
    BY Turned DEF Active
  <1>2. World(c, 0)
    BY SameInstances
  <1>3. "deleteRow" \notin Activating
    BY DEF Activating, Building
  <1> QED
    BY <1>1, <1>2, <1>3, MoveTo, MoveBack

(* The end of the process, which leaves nothing in memory and every trigger  *)
(* row an id.                                                                *)
LEMMA EndQuiet ==
  ASSUME Control, QuietInv, ProcessEnds
  PROVE  QuietInv'
  <1> SUFFICES ASSUME ~overlapped' PROVE Single' /\ Database' /\ (Sound => Memory)'
    BY DEF QuietInv
  <1>1. ~up' /\ workflows' = workflows /\ ~overlapped
    BY DEF ProcessEnds, Crash
  <1>2. \A q \in Callers : call'[q].pc \in {"idle", "down"} /\ call'[q].op = "none"
    BY DEF ProcessEnds, Idle
  <1>3. Main \in Callers /\ Leaders \subseteq Callers
    BY LeadersCall
  <1>4. Single'
    BY <1>2, <1>3 DEF Single, Busy, LifecycleOps
  <1>5. ASSUME NEW w \in Workflows, Active(w)'
        PROVE  triggers'[w].id # None
    <2>1. triggers[w].id # None /\ triggers[w] # NoRow
      BY <1>1, <1>5 DEF QuietInv, Database, Active, NoRow
    <2>2. triggers'[w] = [triggers[w] EXCEPT !.id = 0]
      BY <2>1 DEF ProcessEnds
    <2>3. triggers'[w].id = 0
      BY <2>2 DEF Control, DaemonTypeOK
    <2> QED BY <2>3, StoreConstants DEF StoreConstants
  <1>6. Database'
    BY <1>2, <1>3, <1>5 DEF Database, Activating, Building
  <1> QED BY <1>1, <1>4, <1>6 DEF Sound

(* stop, restart and delete, and the first half of start, on a workflow.     *)
LEMMA StoppingTurn ==
  ASSUME NEW p, NEW c, Turning(p, c), Stopping(p)
  PROVE  QuietInv'
  <1> USE DEF At, memoryVars, storeVars, faultVars, historyVars
  <1>1. /\ p \in Callers /\ c = call[p] /\ c \in Locals /\ PlaceOK(p, c) /\ HasInstance(c)
        /\ DaemonTypeOK /\ c.w \in Workflows /\ 0 \notin Insts
        /\ Active(c.w) => triggers[c.w].id # None
        /\ c.op # "shutdown"
    BY Turned DEF Turning
  <1>2. "deleteRow" \notin Activating
    BY DEF Activating, Building
  <1>3. CASE Close(p)
    <2>1. c.pc = "close" /\ c.op # "restore"
      BY <1>1, <1>3 DEF Close, PlaceOK, Handling
    <2>2. CASE current[c.w] = 0
      <3>1. ~Local(c.pc, c)
        BY <2>1, <2>2 DEF Local, Settled, Fits, Managed
      <3>2. SameWorld(c) /\ (StepTo(p, "markStopped") \/ Return(p))
        BY <1>1, <1>3, <2>2 DEF Close, SameWorld
      <3>3. World(c, 0) /\ (Active(c.w)' => triggers'[c.w].id # None)
        BY <1>1, <1>3, <3>2, SameInstances DEF Close, Active
      <3>4. "markStopped" \notin Activating
        BY DEF Activating, Building
      <3> QED BY <2>1, <3>1, <3>2, <3>3, <3>4, MoveTo, MoveBack
    <2>3. CASE current[c.w] # 0
      <3>1. PICK i \in Insts : i = current[c.w] /\ inst[i].w = c.w /\ inst[i].pc # "none"
        BY <1>1, <2>3 DEF DaemonTypeOK, Turning, Control, InstancesOK
      <3> DEFINE d == [c EXCEPT !.pc = "drain", !.i = i]
      <3>2. /\ d.pc = "drain" /\ d.i = i /\ d.w = c.w /\ d.op = c.op /\ d.rest = c.rest
            /\ call' = [call EXCEPT ![p] = d]
        BY <1>1, <1>3, <2>3, <3>1 DEF Close, Locals
      <3>3. inst' = [inst EXCEPT ![i] = [inst[i] EXCEPT !.accepting = FALSE]]
        BY <1>1, <1>3, <2>3, <3>1 DEF Close
      <3> HIDE DEF d
      <3>4. call'[p] = d /\ \A q \in Callers \ {p} : call'[q] = call[q]
        BY <1>1, <3>2, Turned DEF CallsOK
      <3>5. /\ inst'[i].w = inst[i].w /\ inst'[i].pc = inst[i].pc
            /\ inst'[i].watching = inst[i].watching /\ inst'[i].closed = inst[i].closed
            /\ inst'[i].trig = inst[i].trig
            /\ \A j \in Insts \ {i} : inst'[j] = inst[j]
        BY <1>1, <3>1, <3>3 DEF DaemonTypeOK, ManagedWorkflow
      <3>6. UNCHANGED <<workflows, current, triggers, overlapped, up, shuttingDown, failed>>
        BY <1>3 DEF Close
      <3>7. Frame(p, c, i) /\ StraysOf(c, i)
        BY <3>1, <3>4, <3>5, <3>6 DEF Frame, World, StraysOf
      <3>8. Local(c.pc, c) => Local(d.pc, d)'
        BY <2>1, <3>1, <3>2, <3>5, <3>6 DEF Local, Managed, Active, Settled, Fits, Building
      <3>9. /\ d # Idle /\ d.pc # "restore"
            /\ Active(c.w)' \/ d.pc \in Activating => triggers'[c.w].id # None
        BY <1>1, <3>2, <3>6 DEF Idle, Activating, Building, Active
      <3> QED BY <2>1, <3>2, <3>4, <3>7, <3>8, <3>9, Turn
    <2> QED BY <2>2, <2>3
  <1>4. CASE Drain(p)
    <2>1. c.pc = "drain" /\ SameWorld(c) /\ UNCHANGED <<workflows, triggers>>
      BY <1>1, <1>4 DEF Drain, SameWorld
    <2>2. PICK n \in {"reopen", "cancel"} : StepTo(p, n)
      BY <1>1, <1>4 DEF Drain
    <2>3. World(c, 0) /\ StraysOf(c, 0)
      BY <2>1, SameInstances
    <2>4. Local(c.pc, c) => Local(n, c)'
      BY <2>1 DEF Local, SameWorld, Managed, Active, Building
    <2>5. Active(c.w)' \/ n \in Activating => triggers'[c.w].id # None
      BY <1>1, <2>1 DEF Active, Activating, Building
    <2> QED BY <2>2, <2>3, <2>4, <2>5, MoveTo
  <1>5. CASE Reopen(p)
    <2> DEFINE m == [inst[c.i] EXCEPT !.accepting = TRUE, !.token = TRUE, !.late = 0]
    <2>1. c.pc = "reopen" /\ c.i \in Insts /\ inst[c.i].w = c.w /\ c.op # "restore"
      BY <1>1, <1>5 DEF Reopen, PlaceOK, HasInstance, Owning, Handling
    <2>2. inst' = [inst EXCEPT ![c.i] = m]
      BY <1>1, <1>5 DEF Reopen
    <2>3. /\ m.w = inst[c.i].w /\ m.pc = inst[c.i].pc /\ m.watching = inst[c.i].watching
          /\ m.closed = inst[c.i].closed /\ m.trig = inst[c.i].trig /\ m.accepting
      BY <1>1, <2>1 DEF DaemonTypeOK, ManagedWorkflow
    <2> HIDE DEF m
    <2>4. inst'[c.i] = m /\ \A j \in Insts \ {c.i} : inst'[j] = inst[j]
      BY <1>1, <2>1, <2>2 DEF DaemonTypeOK
    <2>5. UNCHANGED <<workflows, current, triggers, overlapped, up, shuttingDown, failed>>
      BY <1>5 DEF Reopen
    <2>6. World(c, c.i)
      BY <2>1, <2>4, <2>5 DEF World
    <2>7. Return(p)
      BY <1>5 DEF Reopen
    <2>8. Local(c.pc, c) => StraysOf(c, c.i) /\ Settled(c.w)'
      BY <2>1, <2>3, <2>4, <2>5 DEF Local, StraysOf, Settled, Fits, Managed, Active
    <2>9. Active(c.w)' => triggers'[c.w].id # None
      BY <1>1, <2>5 DEF Active
    <2> QED BY <2>1, <2>6, <2>7, <2>8, <2>9, MoveBack
  <1>6. CASE Cancel(p)
    <2>1. c.pc = "cancel" /\ c.op # "restore"
      BY <1>1, <1>6 DEF Cancel, PlaceOK, Finalizing, Handling
    <2>2. /\ UNCHANGED <<workflows, inst, current, triggers, overlapped, up, shuttingDown>>
          /\ failed => failed'
      BY <1>6 DEF Cancel, CancelQueuedExecutions, Fault
    <2>3. SameWorld(c)
      BY <2>2 DEF SameWorld
    <2>4. CASE Fault /\ Return(p) /\ UNCHANGED storeVars
      BY <2>1, <2>2, <2>3, <2>4, FaultBack DEF Fault
    <2>5. CASE /\ CancelQueuedExecutions(c.w)
               /\ call' = [call EXCEPT ![p].pc = "halt", ![p].cancelled = Cancelled(c.w)]
      <3>1. PICK es : es = Cancelled(c.w)
        OBVIOUS
      <3> DEFINE d == [c EXCEPT !.pc = "halt", !.cancelled = es]
      <3>2. /\ d.pc = "halt" /\ d.i = c.i /\ d.w = c.w /\ d.op = c.op /\ d.rest = c.rest
            /\ call' = [call EXCEPT ![p] = d]
        BY <1>1, <2>5, <3>1 DEF Locals
      <3> HIDE DEF d
      <3>3. call'[p] = d /\ \A q \in Callers \ {p} : call'[q] = call[q]
        BY <1>1, <3>2, Turned DEF CallsOK
      <3>4. World(c, 0) /\ StraysOf(c, 0)
        BY <2>3, SameInstances
      <3>5. Local(c.pc, c) => Local(d.pc, d)'
        BY <2>1, <2>2, <3>2 DEF Local, Managed, Active, Building
      <3>6. /\ d # Idle /\ d.pc # "restore"
            /\ Active(c.w)' \/ d.pc \in Activating => triggers'[c.w].id # None
        BY <1>1, <2>1, <2>2, <3>2 DEF Idle, Activating, Building, Active
      <3> QED BY <2>1, <3>2, <3>3, <3>4, <3>5, <3>6, Turn DEF Frame
    <2> QED BY <1>1, <1>6, <2>4, <2>5 DEF Cancel
  <1>7. CASE Halt(p)
    <2>1. CASE ProcessEnds
      BY <2>1, EndQuiet DEF Turning
    <2>2. CASE ~ProcessEnds
      <3> DEFINE m == [inst[c.i] EXCEPT !.closed = TRUE, !.watching = FALSE]
                 d == [c EXCEPT !.pc = "triggersOff", !.cancelled = {}]
      <3>1. /\ c.pc = "halt" /\ c.i \in Insts /\ inst[c.i].w = c.w /\ inst[c.i].pc # "none"
            /\ c.op # "restore"
        BY <1>1, <1>7 DEF Halt, PlaceOK, HasInstance, Owning, Finalizing, Handling
      <3>2. /\ inst' = [inst EXCEPT ![c.i] = m]
            /\ (Return(p) /\ inst[c.i].closed) \/ call' = [call EXCEPT ![p] = d]
        BY <1>1, <1>7, <2>2 DEF Halt
      <3>3. m.w = inst[c.i].w /\ m.pc = inst[c.i].pc /\ m.closed /\ ~m.watching
        BY <1>1, <3>1 DEF DaemonTypeOK, ManagedWorkflow
      <3>4. /\ d.pc = "triggersOff" /\ d.i = c.i /\ d.w = c.w /\ d.op = c.op
            /\ d.rest = c.rest
        BY <1>1 DEF Locals
      <3> HIDE DEF m, d
      <3>5. inst'[c.i] = m /\ \A j \in Insts \ {c.i} : inst'[j] = inst[j]
        BY <1>1, <3>1, <3>2 DEF DaemonTypeOK
      <3>6. UNCHANGED <<workflows, current, triggers, overlapped, up, shuttingDown, failed>>
        BY <1>7, <2>2 DEF Halt
      <3>7. World(c, c.i) /\ StraysOf(c, c.i)
        BY <3>1, <3>3, <3>5, <3>6 DEF World, StraysOf
      <3>8. Local(c.pc, c) => ~inst[c.i].closed /\ current[c.w] = c.i
        BY <3>1 DEF Local, Managed
      <3>9. Active(c.w)' => triggers'[c.w].id # None
        BY <1>1, <3>6 DEF Active
      <3>10. CASE Return(p) /\ inst[c.i].closed
        BY <3>1, <3>7, <3>8, <3>9, <3>10, MoveBack
      <3>11. CASE call' = [call EXCEPT ![p] = d]
        <4>1. call'[p] = d /\ \A q \in Callers \ {p} : call'[q] = call[q]
          BY <1>1, <3>11, Turned DEF CallsOK
        <4>2. Local(c.pc, c) => Local(d.pc, d)'
          BY <3>1, <3>3, <3>4, <3>5, <3>6, <3>8 DEF Local, Active, Building
        <4>3. d # Idle /\ d.pc # "restore" /\ d.pc \notin Activating
          BY <3>4 DEF Idle, Activating, Building
        <4> QED BY <3>1, <3>4, <3>7, <3>9, <4>1, <4>2, <4>3, Turn DEF Frame
      <3> QED BY <3>2, <3>10, <3>11
    <2> QED BY <2>1, <2>2
  <1>8. CASE TriggersOff(p)
    <2>1. /\ c.pc = "triggersOff" /\ c.op # "restore" /\ UNCHANGED workflows
          /\ UNCHANGED <<inst, current, overlapped, up, shuttingDown>>
      BY <1>1, <1>8 DEF TriggersOff, PlaceOK, Finalizing, Handling
    <2>2. CASE Fault /\ Return(p) /\ UNCHANGED triggers
      BY <2>1, <2>2, FaultBack DEF Fault, SameWorld
    <2>3. CASE /\ SetTrigger(c.w, inst[c.i].trig, FALSE)
               /\ StepTo(p, "statusOff") /\ UNCHANGED faultVars
      <3>1. \A w \in Workflows : /\ triggers'[w].id = triggers[w].id
                                 /\ w # c.w => triggers'[w] = triggers[w]
        BY <1>1, <2>3 DEF SetTrigger, DaemonTypeOK
      <3>2. World(c, 0) /\ StraysOf(c, 0)
        BY <2>1, <2>3, <3>1, SameInstances DEF SameWorld
      <3>3. Local(c.pc, c) => Local("statusOff", c)'
        BY <2>1 DEF Local, Building
      <3>4. /\ "statusOff" \notin Activating
            /\ Active(c.w)' => triggers'[c.w].id # None
        BY <1>1, <2>1, <3>1 DEF Activating, Building, Active
      <3> QED BY <2>3, <3>2, <3>3, <3>4, MoveTo
    <2> QED BY <1>1, <1>8, <2>2, <2>3 DEF TriggersOff
  <1>9. CASE StatusOff(p)
    <2>1. /\ c.pc = "statusOff" /\ c.op # "restore" /\ UNCHANGED triggers
          /\ UNCHANGED <<inst, current, overlapped, up, shuttingDown>>
      BY <1>1, <1>9 DEF StatusOff, PlaceOK, Finalizing, Handling, SetWorkflowStatus
    <2>2. CASE Fault /\ Return(p) /\ UNCHANGED storeVars
      BY <2>1, <2>2, FaultBack DEF Fault, SameWorld
    <2>3. CASE /\ SetWorkflowStatus(c.w, "stopped")
               /\ StepTo(p, "unmap") /\ UNCHANGED faultVars
      <3>1. ~Active(c.w)' /\ \A w \in Workflows \ {c.w} : workflows'[w] = workflows[w]
        BY <1>1, <2>3 DEF SetWorkflowStatus, Exists, Active, DaemonTypeOK, TypeOK
      <3>2. World(c, 0) /\ StraysOf(c, 0)
        BY <2>1, <2>3, <3>1, SameInstances DEF SameWorld
      <3>3. Local(c.pc, c) => Local("unmap", c)'
        BY <2>1, <3>1 DEF Local, Building
      <3>4. "unmap" \notin Activating
        BY DEF Activating, Building
      <3> QED BY <2>3, <3>1, <3>2, <3>3, <3>4, MoveTo
    <2> QED BY <1>1, <1>9, <2>2, <2>3 DEF StatusOff
  <1>10. CASE Unmap(p)
    <2>1. c.pc = "unmap" /\ c.op \in Handling /\ c.i \in Insts
      BY <1>1, <1>10 DEF Unmap, PlaceOK, Finalizing
    <2>2. /\ current'[c.w] = 0 /\ \A w \in Workflows \ {c.w} : current'[w] = current[w]
          /\ UNCHANGED <<workflows, inst, triggers, overlapped, up, shuttingDown, failed>>
      BY <1>1, <1>10 DEF Unmap, DaemonTypeOK
    <2>3. World(c, 0)
      BY <1>1, <2>2 DEF World
    <2>4. Local(c.pc, c) => StraysOf(c, 0) /\ ~Active(c.w)'
      BY <1>1, <2>1, <2>2 DEF Local, StraysOf, Active
    <2>5. Active(c.w)' => triggers'[c.w].id # None
      BY <1>1, <2>2 DEF Active
    <2>6. CASE Return(p)
      <3>1. Local(c.pc, c) => Settled(c.w)'
        BY <2>2, <2>4 DEF Settled, Fits, Active
      <3> QED BY <2>1, <2>3, <2>4, <2>5, <2>6, <3>1, MoveBack DEF Handling
    <2>7. ASSUME NEW next \in {"deleteRow", "load", "upsert"}, StepTo(p, next)
          PROVE  QuietInv'
      <3>1. Local(c.pc, c) => Local(next, c)'
        BY <2>2, <2>4 DEF Local, Active, Building
      <3>2. next \notin Activating
        BY DEF Activating, Building
      <3> QED BY <2>3, <2>4, <2>5, <2>7, <3>1, <3>2, MoveTo
    <2> QED BY <1>1, <1>10, <2>1, <2>6, <2>7 DEF Unmap, Handling
  <1>11. CASE DeleteRow(p)
    <2>1. /\ c.pc = "deleteRow" /\ c.op # "restore" /\ Return(p)
          /\ UNCHANGED <<inst, current, overlapped, up, shuttingDown>>
      BY <1>1, <1>11 DEF DeleteRow, PlaceOK, DeleteWorkflow
    <2>2. CASE Fault /\ UNCHANGED <<storeVars, triggers>>
      BY <2>1, <2>2, FaultBack DEF Fault, SameWorld
    <2>3. ASSUME NEW enforced, DeleteWorkflow(c.w, enforced), UNCHANGED faultVars,
                 triggers' = IF enforced THEN [triggers EXCEPT ![c.w] = NoRow] ELSE triggers
          PROVE  QuietInv'
      <3>1. ~Active(c.w)' /\ \A w \in Workflows \ {c.w} : workflows'[w] = workflows[w]
        BY <1>1, <2>3 DEF DeleteWorkflow, Active, DaemonTypeOK, TypeOK
      <3>2. World(c, 0) /\ StraysOf(c, 0)
        BY <1>1, <2>1, <2>3, <3>1, SameInstances DEF SameWorld, DaemonTypeOK
      <3>3. Local(c.pc, c) => Settled(c.w)'
        BY <2>1, <3>1 DEF Local, Settled, Fits, Active, Building
      <3> QED BY <2>1, <3>1, <3>2, <3>3, MoveBack
    <2> QED BY <1>1, <1>11, <2>2, <2>3 DEF DeleteRow
  <1>12. ~(DrainAll(p) \/ ReopenAll(p) \/ Finalize(p) \/ Disconnect(p))
    BY <1>1 DEF DrainAll, ReopenAll, Finalize, Disconnect, PlaceOK, DrainingAll
  <1> QED
    BY <1>3, <1>4, <1>5, <1>6, <1>7, <1>8, <1>9, <1>10, <1>11, <1>12 DEF Stopping

(* A step of activateWorkflow that fails goes on to undo what is there.      *)
LEMMA FailsTurn ==
  ASSUME NEW p, NEW c, NEW i, Turning(p, c), World(c, i), ActivationFails(p),
         Active(c.w)' => triggers'[c.w].id # None,
         up /\ ~failed' /\ Local(c.pc, c) =>
           /\ StraysOf(c, i) /\ current'[c.w] = 0
           /\ c.op # "restore" => ~Active(c.w)'
  PROVE  QuietInv'
  <1>1. c = call[p]
    BY Turned
  <1>2. {"giveUp", "deleteRow"} \cap Activating = {}
    BY DEF Activating, Building
  <1>3. current'[c.w] = 0 => Local("giveUp", c)'
    BY DEF Local, Building
  <1>4. current'[c.w] = 0 /\ ~Active(c.w)' => Local("deleteRow", c)' /\ Settled(c.w)'
    BY DEF Local, Building, Settled, Fits, Active
  <1>5. CASE c.op = "restore"
    <2>1. StepTo(p, "giveUp")
      BY <1>1, <1>5 DEF ActivationFails
    <2> QED BY <1>2, <1>3, <2>1, MoveTo
  <1>6. CASE c.op # "restore"
    <2>1. StepTo(p, "deleteRow") \/ Return(p)
      BY <1>1, <1>6 DEF ActivationFails
    <2> QED BY <1>2, <1>4, <1>6, <2>1, MoveTo, MoveBack
  <1> QED BY <1>5, <1>6

(* The second half of start, and what the restore does for each workflow.    *)
LEMMA StartingTurn ==
  ASSUME NEW p, NEW c, Turning(p, c), Starting(p)
  PROVE  QuietInv'
  <1> USE DEF At, memoryVars, storeVars, faultVars, historyVars
  <1>1. /\ p \in Callers /\ c = call[p] /\ c \in Locals /\ PlaceOK(p, c) /\ HasInstance(c)
        /\ DaemonTypeOK /\ c.w \in Workflows /\ 0 \notin Insts
        /\ Active(c.w) => triggers[c.w].id # None
        /\ c.pc \in Activating => triggers[c.w].id # None
    BY Turned
  <1>2. {"upsert", "replace"} \cap Activating = {}
    BY DEF Activating, Building
  <1>3. CASE Load(p)
    <2>1. c.pc = "load" /\ c.op = "restart"
      BY <1>1, <1>3 DEF Load, PlaceOK
    <2>2. /\ SameWorld(c) /\ UNCHANGED <<workflows, current, triggers>>
          /\ Loaded(p, c.w) \/ Return(p)
      BY <1>1, <1>3 DEF Load, SameWorld
    <2>3. World(c, 0) /\ StraysOf(c, 0) /\ (Active(c.w)' => triggers'[c.w].id # None)
      BY <1>1, <2>2, SameInstances DEF Active
    <2>4. CASE Return(p)
      <3>1. Local(c.pc, c) => Settled(c.w)'
        BY <2>1, <2>2 DEF Local, Building, Settled, Fits, Active
      <3> QED BY <2>1, <2>3, <2>4, <3>1, MoveBack
    <2>5. CASE Loaded(p, c.w)
      <3>1. PICK next \in {"close", "upsert"}, found \in BOOLEAN :
              /\ call' = [call EXCEPT ![p] = [Idle EXCEPT !.op = "start", !.w = c.w,
                                                !.found = found, !.pc = next]]
              /\ ~Active(c.w) => next = "upsert"
        BY <2>5 DEF Loaded, Exists, Active
      <3> DEFINE d == [Idle EXCEPT !.op = "start", !.w = c.w, !.found = found, !.pc = next]
      <3>2. d.pc = next /\ d.op = "start" /\ d.w = c.w /\ call' = [call EXCEPT ![p] = d]
        BY <3>1 DEF Idle
      <3> HIDE DEF d
      <3>3. call'[p] = d /\ \A q \in Callers \ {p} : call'[q] = call[q]
        BY <1>1, <3>2, Turned DEF CallsOK
      <3>4. Local(c.pc, c) => Local(d.pc, d)'
        BY <2>1, <2>2, <3>1, <3>2 DEF Local, Building, Active
      <3>5. /\ d # Idle /\ d.pc \notin Activating /\ d.op \in Handling
            /\ d.pc \notin {"drainAll", "reopenAll", "retain", "list", "restore"}
        BY <3>2 DEF Idle, Activating, Building, Handling
      <3> QED BY <2>1, <2>3, <3>2, <3>3, <3>4, <3>5, Turn DEF Frame
    <2> QED BY <2>2, <2>4, <2>5
  <1>4. CASE MarkStopped(p)
    <2>1. c.pc = "markStopped" /\ c.op = "start" /\ ~Local(c.pc, c)
      BY <1>1, <1>4 DEF MarkStopped, PlaceOK, Local
    <2>2. CASE Fault /\ Return(p) /\ UNCHANGED storeVars
      BY <1>4, <2>1, <2>2, FaultBack DEF Fault, SameWorld, MarkStopped
    <2>3. CASE /\ SetWorkflowStatus(c.w, "stopped")
               /\ StepTo(p, "upsert") /\ UNCHANGED faultVars
      <3>1. ~Active(c.w)' /\ \A w \in Workflows \ {c.w} : workflows'[w] = workflows[w]
        BY <1>1, <2>3 DEF SetWorkflowStatus, Exists, Active, DaemonTypeOK, TypeOK
      <3>2. UNCHANGED <<inst, current, triggers, overlapped, up, shuttingDown, failed>>
        BY <1>4, <2>3 DEF MarkStopped, SetWorkflowStatus
      <3>3. World(c, 0)
        BY <3>1, <3>2, SameInstances DEF SameWorld
      <3> QED BY <1>2, <2>1, <2>3, <3>1, <3>3, MoveTo
    <2> QED BY <1>1, <1>4, <2>2, <2>3 DEF MarkStopped
  <1>5. CASE Upsert(p)
    <2>1. c.pc = "upsert" /\ c.op = "start"
      BY <1>1, <1>5 DEF Upsert, PlaceOK
    <2>2. CASE Fault /\ Return(p) /\ UNCHANGED storeVars
      BY <1>5, <2>1, <2>2, FaultBack DEF Fault, SameWorld, Upsert
    <2>3. CASE /\ UpsertWorkflow(c.w, "stopped")
               /\ StepTo(p, "replace") /\ UNCHANGED faultVars
      <3>1. ~Active(c.w)' /\ \A w \in Workflows \ {c.w} : workflows'[w] = workflows[w]
        BY <1>1, <2>3 DEF UpsertWorkflow, Active, DaemonTypeOK, TypeOK
      <3>2. UNCHANGED <<inst, current, triggers, overlapped, up, shuttingDown, failed>>
        BY <1>5, <2>3 DEF Upsert, UpsertWorkflow
      <3>3. World(c, 0) /\ StraysOf(c, 0)
        BY <3>1, <3>2, SameInstances DEF SameWorld
      <3>4. Local(c.pc, c) => Local("replace", c)'
        BY <2>1, <3>1, <3>2 DEF Local, Building
      <3> QED BY <1>2, <2>3, <3>1, <3>3, <3>4, MoveTo
    <2> QED BY <1>1, <1>5, <2>2, <2>3 DEF Upsert
  <1>6. CASE Replace(p)
    <2>1. c.pc = "replace" /\ c.op = "start"
      BY <1>1, <1>6 DEF Replace, PlaceOK
    <2>2. /\ UNCHANGED <<workflows, inst, current, overlapped, up, shuttingDown>>
          /\ failed => failed'
      BY <1>6 DEF Replace, Fault
    <2>3. CASE ActivationFails(p) /\ UNCHANGED triggers
      <3>1. World(c, 0) /\ StraysOf(c, 0) /\ (Active(c.w)' => triggers'[c.w].id # None)
        BY <1>1, <2>2, <2>3, SameInstances DEF SameWorld, Active
      <3>2. Local(c.pc, c) => current'[c.w] = 0 /\ ~Active(c.w)'
        BY <2>1, <2>2 DEF Local, Active, Building
      <3> QED BY <2>3, <3>1, <3>2, FailsTurn
    <2>4. CASE /\ nextInst <= MaxInst
               /\ triggers' = [triggers EXCEPT ![c.w] = [id |-> nextInst, active |-> FALSE]]
               /\ call' = [call EXCEPT ![p].pc = "arm", ![p].i = nextInst,
                                       ![p].trig = nextInst]
      <3>1. PICK n \in Nat : n = nextInst
        BY DaemonConstants, <1>1 DEF DaemonConstants, DaemonTypeOK
      <3> DEFINE d == [c EXCEPT !.pc = "arm", !.i = n, !.trig = n]
      <3>2. /\ d.pc = "arm" /\ d.op = c.op /\ d.w = c.w /\ d.trig = n /\ d.rest = c.rest
            /\ call' = [call EXCEPT ![p] = d]
        BY ZenonT(40), <1>1, <2>4, <3>1 DEF Locals
      <3> HIDE DEF d
      <3>3. call'[p] = d /\ \A q \in Callers \ {p} : call'[q] = call[q]
        BY <1>1, <3>2, Turned DEF CallsOK
      <3>4. /\ triggers'[c.w].id = n /\ n # None
            /\ \A w \in Workflows \ {c.w} : triggers'[w] = triggers[w]
        BY <1>1, <2>4, <3>1, StoreConstants DEF DaemonTypeOK, StoreConstants
      <3>5. World(c, 0) /\ StraysOf(c, 0)
        BY <2>2, <3>4, SameInstances DEF SameWorld
      <3>6. Local(c.pc, c) => Local(d.pc, d)'
        BY <2>1, <2>2, <3>2, <3>4 DEF Local, Building, Active
      <3>7. d # Idle /\ d.pc # "restore"
        BY <3>2 DEF Idle
      <3> QED BY <2>1, <3>2, <3>3, <3>4, <3>5, <3>6, <3>7, Turn DEF Frame
    <2> QED BY <1>1, <1>6, <2>3, <2>4 DEF Replace
  <1>7. CASE Arm(p)
    <2>1. /\ c.pc = "arm" /\ c.pc \in Building /\ c.pc \in Activating
          /\ UNCHANGED <<workflows, current, triggers, overlapped, up, shuttingDown, failed>>
      BY <1>1, <1>7 DEF Arm, Activating, Building
    <2>2. c.i \in Insts /\ inst[c.i].pc = "none" /\ (Active(c.w)' => triggers'[c.w].id # None)
      BY <1>1, <2>1 DEF PlaceOK, HasInstance, Active
    <2>3. Local(c.pc, c) =>
            current[c.w] = 0 /\ (Active(c.w) <=> c.op = "restore") /\ triggers[c.w].id = c.trig
      BY <2>1 DEF Local
    <2>4. CASE ActivationFails(p) /\ UNCHANGED inst
      <3>1. World(c, 0) /\ StraysOf(c, 0)
        BY <2>1, <2>4, SameInstances DEF SameWorld
      <3>2. Local(c.pc, c) => current'[c.w] = 0 /\ (c.op # "restore" => ~Active(c.w)')
        BY <2>1, <2>3 DEF Active
      <3> QED BY <2>2, <2>4, <3>1, <3>2, FailsTurn
    <2>5. CASE /\ inst' = [inst EXCEPT ![c.i] =
                     [NoInst EXCEPT !.w = c.w, !.trig = c.trig, !.accepting = TRUE,
                                    !.watching = c.trig # None]]
               /\ StepTo(p, "triggersOn")
      <3>1. \A j \in Insts \ {c.i} : inst'[j] = inst[j]
        BY <1>1, <2>2, <2>5 DEF DaemonTypeOK
      <3>2. /\ inst'[c.i].trig = c.trig /\ inst'[c.i].accepting
            /\ inst'[c.i].watching = (c.trig # None)
            /\ ~inst'[c.i].closed /\ inst'[c.i].pc = "none"
        BY <1>1, <2>2, <2>5 DEF DaemonTypeOK, NoInst
      <3>3. World(c, c.i)
        BY <2>1, <2>2, <3>1 DEF World
      <3>4. Local(c.pc, c) => StraysOf(c, c.i)
        BY <1>1, <2>3, <3>2 DEF StraysOf
      <3>5. Local(c.pc, c) => Local("triggersOn", c)'
        BY <1>1, <2>1, <2>3, <3>2 DEF Local, Building, Active
      <3> QED BY <1>1, <2>1, <2>5, <3>3, <3>4, <3>5, MoveTo
    <2> QED BY <1>1, <1>7, <2>4, <2>5 DEF Arm
  <1>8. CASE TriggersOn(p)
    <2>1. c.pc = "triggersOn" /\ c.pc \in Building /\ c.pc \in Activating
      BY <1>1, <1>8 DEF TriggersOn, Activating, Building
    <2>2. /\ UNCHANGED <<workflows, inst, current, overlapped, up, shuttingDown>>
          /\ UNCHANGED failed \/ failed'
      BY <1>8 DEF TriggersOn, Fault
    <2>3. CASE Fault /\ ActivationFails(p) /\ UNCHANGED triggers
      <3>1. World(c, 0) /\ (Active(c.w)' => triggers'[c.w].id # None) /\ failed'
        BY <1>1, <2>2, <2>3, SameInstances DEF SameWorld, Active, Fault
      <3> QED BY <2>3, <3>1, FailsTurn
    <2>4. CASE SetTrigger(c.w, c.trig, TRUE) /\ StepTo(p, "spawn")
      <3>1. \A w \in Workflows : /\ triggers'[w].id = triggers[w].id
                                 /\ w # c.w => triggers'[w] = triggers[w]
        BY <1>1, <2>4 DEF SetTrigger, DaemonTypeOK
      <3>2. triggers[c.w].id = c.trig => triggers'[c.w].active
        BY <1>1, <2>1, <2>4 DEF SetTrigger, DaemonTypeOK
      <3>3. World(c, 0) /\ StraysOf(c, 0)
        BY <2>2, <3>1, SameInstances DEF SameWorld
      <3>4. Local(c.pc, c) => Local("spawn", c)'
        BY <1>1, <2>1, <2>2, <3>1, <3>2 DEF Local, Building, Active
      <3> QED BY <1>1, <2>1, <2>2, <2>4, <3>1, <3>3, <3>4, MoveTo
    <2> QED BY <1>1, <1>8, <2>3, <2>4 DEF TriggersOn
  <1>9. CASE Spawn(p)
    <2>1. /\ c.pc = "spawn" /\ c.pc \in Building /\ c.pc \in Activating
          /\ UNCHANGED <<workflows, triggers, overlapped, up, shuttingDown, failed>>
          /\ StepTo(p, "statusOn")
      BY <1>1, <1>9 DEF Spawn, Activating, Building
    <2>2. c.i \in Insts /\ inst[c.i].pc = "none" /\ inst[c.i].w = c.w
      BY <1>1, <2>1 DEF PlaceOK, HasInstance
    <2>3. inst' = [inst EXCEPT ![c.i] = [inst[c.i] EXCEPT !.pc = "wait"]]
      BY <1>1, <1>9 DEF Spawn
    <2>4. /\ inst'[c.i].w = c.w /\ inst'[c.i].pc = "wait"
          /\ inst'[c.i].trig = inst[c.i].trig /\ inst'[c.i].accepting = inst[c.i].accepting
          /\ inst'[c.i].watching = inst[c.i].watching /\ inst'[c.i].closed = inst[c.i].closed
          /\ \A j \in Insts \ {c.i} : inst'[j] = inst[j]
      BY <1>1, <2>2, <2>3 DEF DaemonTypeOK, ManagedWorkflow
    <2>5. current'[c.w] = c.i /\ \A w \in Workflows \ {c.w} : current'[w] = current[w]
      BY <1>1, <1>9 DEF Spawn, DaemonTypeOK
    <2>6. World(c, c.i)
      BY <2>1, <2>2, <2>4, <2>5 DEF World
    <2>7. Local(c.pc, c) =>
            /\ current[c.w] = 0 /\ (Active(c.w) <=> c.op = "restore")
            /\ triggers[c.w].id = c.trig /\ triggers[c.w].active
            /\ inst[c.i].trig = c.trig /\ inst[c.i].accepting /\ inst[c.i].watching
            /\ ~inst[c.i].closed
      BY <2>1 DEF Local
    <2>8. Local(c.pc, c) => StraysOf(c, c.i)
      BY <1>1, <2>5, <2>7 DEF StraysOf
    <2>9. Local(c.pc, c) => Local("statusOn", c)'
      BY <1>1, <2>1, <2>2, <2>4, <2>5, <2>7 DEF Local, Building, Active, Managed
    <2> QED BY <1>1, <2>1, <2>6, <2>8, <2>9, MoveTo
  <1>10. CASE StatusOn(p)
    <2>1. /\ c.pc = "statusOn" /\ c.pc \in Activating
          /\ UNCHANGED <<inst, current, triggers, overlapped, up, shuttingDown>>
          /\ failed => failed'
      BY <1>1, <1>10 DEF StatusOn, Activating, Fault, UpsertWorkflow
    <2>2. CASE Fault /\ ActivationFails(p) /\ UNCHANGED storeVars
      <3>1. World(c, 0) /\ (Active(c.w)' => triggers'[c.w].id # None) /\ failed'
        BY <1>1, <2>1, <2>2, SameInstances DEF SameWorld, Active, Fault
      <3> QED BY <2>2, <3>1, FailsTurn
    <2>3. CASE UpsertWorkflow(c.w, "active") /\ StepTo(p, "wake")
      <3>1. Active(c.w)' /\ \A w \in Workflows \ {c.w} : workflows'[w] = workflows[w]
        BY <1>1, <2>3 DEF UpsertWorkflow, Active, DaemonTypeOK, TypeOK
      <3>2. World(c, 0) /\ StraysOf(c, 0)
        BY <2>1, <3>1, SameInstances DEF SameWorld
      <3>3. Local(c.pc, c) => Local("wake", c)'
        BY <2>1, <3>1 DEF Local, Building, Managed, Settled, Fits
      <3> QED BY <1>1, <2>1, <2>3, <3>2, <3>3, MoveTo
    <2> QED BY <1>1, <1>10, <2>2, <2>3 DEF StatusOn
  <1>11. CASE WakeUp(p)
    <2>1. /\ c.pc = "wake" /\ c.pc \in Activating
          /\ UNCHANGED <<workflows, current, triggers, overlapped, up, shuttingDown, failed>>
          /\ IF c.op = "restore" THEN StepTo(p, "restore") ELSE Return(p)
      BY <1>1, <1>11 DEF WakeUp, Activating
    <2>2. c.i \in Insts /\ inst[c.i].w = c.w
      BY <1>1, <2>1 DEF PlaceOK, HasInstance, Owning
    <2>3. Notify(c.i)
      BY <1>1, <1>11 DEF WakeUp
    <2>4. /\ inst'[c.i].w = inst[c.i].w /\ inst'[c.i].pc = inst[c.i].pc
          /\ inst'[c.i].trig = inst[c.i].trig /\ inst'[c.i].accepting = inst[c.i].accepting
          /\ inst'[c.i].watching = inst[c.i].watching /\ inst'[c.i].closed = inst[c.i].closed
          /\ \A j \in Insts \ {c.i} : inst'[j] = inst[j]
      BY <1>1, <2>2, <2>3 DEF Notify, DaemonTypeOK, ManagedWorkflow
    <2>5. World(c, c.i)
      BY <2>1, <2>2, <2>4 DEF World
    <2>6. Local(c.pc, c) => Settled(c.w) /\ current[c.w] = c.i
      BY <2>1 DEF Local
    <2>7. Local(c.pc, c) => StraysOf(c, c.i)
      BY <2>1, <2>6 DEF StraysOf
    <2>8. ASSUME Settled(c.w), current[c.w] = c.i
          PROVE  Settled(c.w)'
      <3>1. /\ workflows'[c.w] = workflows[c.w] /\ current'[c.w] = current[c.w]
            /\ triggers'[c.w] = triggers[c.w]
        BY <2>1
      <3>2. /\ inst'[current[c.w]].w = inst[current[c.w]].w
            /\ inst'[current[c.w]].pc = inst[current[c.w]].pc
            /\ inst'[current[c.w]].trig = inst[current[c.w]].trig
            /\ inst'[current[c.w]].accepting = inst[current[c.w]].accepting
            /\ inst'[current[c.w]].watching = inst[current[c.w]].watching
            /\ inst'[current[c.w]].closed = inst[current[c.w]].closed
        BY <2>4, <2>8
      <3> QED BY <1>1, <2>8, <3>1, <3>2, SettledStays
    <2>9. Local("restore", c)' /\ (Active(c.w)' => triggers'[c.w].id # None)
      BY <1>1, <2>1 DEF Local, Building, Active
    <2>10. CASE c.op = "restore"
      <3>1. "restore" \notin Activating
        BY DEF Activating, Building
      <3> QED BY <2>1, <2>5, <2>6, <2>7, <2>8, <2>9, <2>10, <3>1, MoveTo
    <2>11. CASE c.op # "restore"
      BY <2>1, <2>5, <2>6, <2>7, <2>8, <2>9, <2>11, MoveBack
    <2> QED BY <2>10, <2>11
  <1> QED
    BY <1>3, <1>4, <1>5, <1>6, <1>7, <1>8, <1>9, <1>10, <1>11 DEF Starting
-----------------------------------------------------------------------------
(* A goroutine that takes a step of a lifecycle call is a leader in one, on  *)
(* a workflow if it is not a shutdown.                                       *)
LEMMA LeaderStep ==
  ASSUME Control, NEW p \in Callers, Stopping(p) \/ Starting(p)
  PROVE  /\ p \in Leaders /\ Busy(p) /\ up
         /\ call[p].op # "shutdown" =>
              /\ call[p].w \in Workflows
              /\ call[p].pc \notin {"retain", "list", "restore"}
         /\ call[p].op = "shutdown" => Stopping(p)
  <1> USE DEF At
  <1>1. PlaceOK(p, call[p]) /\ call[p] \in Locals
    BY SMTT(30) DEF Control, CallsOK
  <1>2. Stopping(p) =>
          call[p].pc \in {"close", "drain", "reopen", "deleteRow"} \cup Finalizing \cup DrainingAll
    BY DEF Stopping, Close, Drain, Reopen, Cancel, Halt, TriggersOff, StatusOff, Unmap,
           DeleteRow, DrainAll, ReopenAll, Finalize, Disconnect, Finalizing, DrainingAll
  <1>3. Starting(p) =>
          call[p].pc \in {"load", "markStopped", "upsert", "replace"} \cup Activating
    BY DEF Starting, Load, MarkStopped, Upsert, Replace, Arm, TriggersOn, Spawn, StatusOn,
           WakeUp, Activating, Building
  <1>4. call[p].op \in Handling \cup {"shutdown", "restore"}
    BY <1>1, <1>2, <1>3 DEF PlaceOK, Handling
  <1>5. p \in Leaders /\ Busy(p)
    BY <1>1, <1>4 DEF PlaceOK, Handling, Leaders, Busy, LifecycleOps
  <1>6. up
    BY <1>4 DEF Control, DownOK, FreshProcess, Idle, Handling
  <1>7. call[p].op = "restore" => call[p].pc \in Activating
    BY <1>1, <1>2, <1>3 DEF PlaceOK, Finalizing, DrainingAll, Handling
  <1>8. call[p].op # "shutdown" => call[p].w \in Workflows
    BY <1>1, <1>4, <1>7 DEF PlaceOK
  <1>9. call[p].pc \notin {"retain", "list", "restore"}
    BY <1>2, <1>3 DEF Finalizing, DrainingAll, Activating, Building
  <1>10. call[p].op = "shutdown" => ~Starting(p)
    BY <1>1, <1>3 DEF PlaceOK, Handling
  <1> QED BY <1>5, <1>6, <1>8, <1>9, <1>10

(* Beyond the point where a shutdown can be given up, or after an error,     *)
(* only what a crash may leave matters.                                      *)
LEMMA EndingTurn ==
  ASSUME Control, QuietInv, ~overlapped, NEW p \in Leaders, Busy(p),
         call[p].op = "shutdown", failed \/ shuttingDown,
         \A q \in Callers \ {p} : call'[q] = call[q],
         UNCHANGED <<overlapped, shuttingDown>>, UNCHANGED failed \/ failed',
         call'[p].op \in {"shutdown", "none"},
         call'[p].pc \notin {"drainAll", "reopenAll", "retain", "list"} \cup Activating,
         \A w \in Workflows : Active(w)' => Active(w),
         \A w \in Workflows : triggers'[w].id = triggers[w].id
  PROVE  QuietInv'
  <1>1. /\ p \in Callers /\ Main \in Leaders /\ Leaders \subseteq Callers
        /\ \A q \in Leaders : Busy(q) => q = p
    BY LeadersCall DEF QuietInv, Single
  <1>2. \A q \in Leaders : Busy(q)' => q = p
    BY <1>1 DEF Busy
  <1>3. ASSUME NEW q \in Callers, call'[q].pc \in Activating
        PROVE  triggers'[call'[q].w].id # None
    <2>1. call'[q] = call[q] /\ triggers[call[q].w].id # None
      BY <1>3 DEF QuietInv, Database
    <2>2. call[q].w \in Workflows
      BY <1>3, <2>1 DEF Control, CallsOK, PlaceOK
    <2> QED BY <2>1, <2>2
  <1>4. call[Main].op # "restore" /\ call'[Main].op # "restore"
    BY <1>1, <1>2 DEF Busy, LifecycleOps
  <1>5. call'[Main].pc \in {"retain", "list"} => call'[Main].w = None
    BY <1>1 DEF QuietInv, Database
  <1>6. Database'
    BY <1>3, <1>4, <1>5 DEF QuietInv, Database
  <1>7. ASSUME NEW q \in Leaders, call'[q].pc \in {"drainAll", "reopenAll"}
        PROVE  FALSE
    <2>1. q # p /\ call'[q] = call[q] /\ q \in Callers
      BY <1>1, <1>7
    <2>2. Busy(q)
      BY <1>7, <2>1 DEF Control, CallsOK, PlaceOK, DrainingAll, Busy, LifecycleOps
    <2> QED BY <1>1, <2>1, <2>2
  <1>8. ~Sound'
    BY <1>7 DEF Sound
  <1> QED BY <1>2, <1>6, <1>8 DEF QuietInv, Single

(* A shutdown that still waits for the workers.                              *)
LEMMA WaitingTurn ==
  ASSUME Control, QuietInv, ~overlapped, NEW p \in Leaders, Busy(p),
         call[p].op = "shutdown", call[p].pc = "drainAll",
         \A q \in Callers \ {p} : call'[q] = call[q],
         UNCHANGED <<overlapped, shuttingDown, failed, up, inst, current, workflows, triggers>>,
         call'[p].op = "shutdown", call'[p].pc \in {"drainAll", "reopenAll"},
         call'[p].insts = call[p].insts
  PROVE  QuietInv'
  <1>1. /\ p \in Callers /\ Main \in Leaders /\ Leaders \subseteq Callers
        /\ \A q \in Leaders : Busy(q) => q = p
    BY LeadersCall DEF QuietInv, Single
  <1>2. \A q \in Leaders : Busy(q)' => q = p
    BY <1>1 DEF Busy
  <1>3. call[Main].op # "restore" /\ call'[Main].op # "restore"
    BY <1>1, <1>2 DEF Busy, LifecycleOps
  <1>4. Database'
    <2>1. \A q \in Callers : call'[q].pc \in Activating => call'[q] = call[q]
      BY DEF Activating, Building
    <2>2. call'[Main].pc \in {"retain", "list"} => call'[Main].w = None
      BY <1>1 DEF QuietInv, Database
    <2> QED BY <1>3, <2>1, <2>2 DEF QuietInv, Database, Active
  <1>5. ASSUME Sound'
        PROVE  Memory'
    <2>1. Sound
      BY <1>5 DEF Sound
    <2>2. Strays /\ Stage(call[p])
      BY <2>1 DEF QuietInv, Memory
    <2>3. PICK d : d = call'[p]
      OBVIOUS
    <2>4. Stage(d)'
      BY <2>2, <2>3 DEF Stage, Fits, Active, Managed
    <2>5. Stage(call[p])'
      BY <2>3, <2>4, StageOf
    <2>6. Strays'
      BY <2>2 DEF Strays
    <2>7. Busy(p)'
      BY DEF Busy, LifecycleOps
    <2> QED BY <1>2, <2>5, <2>6, <2>7 DEF Memory
  <1> QED BY <1>2, <1>4, <1>5 DEF QuietInv, Single

(* A shutdown that gives up lets every workflow accept again.                *)
LEMMA ReopenAllTurn ==
  ASSUME Control, QuietInv, ~overlapped, NEW p \in Leaders, Busy(p), ReopenAll(p)
  PROVE  QuietInv'
  <1> USE DEF At
  <1>1. /\ p \in Callers /\ Main \in Leaders /\ Leaders \subseteq Callers
        /\ \A q \in Leaders : Busy(q) => q = p
    BY LeadersCall DEF QuietInv, Single
  <1>2. call[p].pc = "reopenAll" /\ call[p].op = "shutdown"
    BY <1>1 DEF ReopenAll, Control, CallsOK, PlaceOK, DrainingAll
  <1>3. call'[p] = Idle /\ Idle.pc = "idle" /\ Idle.op = "none" /\
        \A q \in Callers \ {p} : call'[q] = call[q]
    BY <1>1, Back DEF ReopenAll, Control
  <1>4. \A q \in Leaders : ~Busy(q)'
    BY <1>1, <1>3 DEF Busy, LifecycleOps
  <1>5. UNCHANGED <<workflows, current, triggers, overlapped, up, failed>>
    BY DEF ReopenAll, storeVars, faultVars, historyVars
  <1>6. Database'
    <2>1. \A q \in Callers : call'[q].pc \in Activating => call'[q] = call[q]
      BY <1>3 DEF Activating, Building
    <2>2. call'[Main].op # "restore"
      BY <1>1, <1>4 DEF Busy, LifecycleOps
    <2>3. call'[Main].pc \in {"retain", "list"} => call'[Main].w = None
      BY <1>1, <1>3 DEF QuietInv, Database
    <2> QED BY <1>5, <2>1, <2>2, <2>3 DEF QuietInv, Database, Active
  <1>7. ASSUME Sound'
        PROVE  Memory'
    <2>1. Sound
      BY <1>2, <1>5, <1>7 DEF Sound
    <2>2. Strays /\ Stage(call[p])
      BY <2>1 DEF QuietInv, Memory
    <2>3. \A w \in Workflows : Fits(w) /\ (current[w] # 0 => current[w] \in call[p].insts)
      BY <1>2, <2>2 DEF Stage
    <2>4. \A i \in Insts :
            /\ inst'[i].w = inst[i].w /\ inst'[i].pc = inst[i].pc
            /\ inst'[i].trig = inst[i].trig /\ inst'[i].closed = inst[i].closed
            /\ inst'[i].watching = inst[i].watching
            /\ i \in call[p].insts => inst'[i].accepting
      BY ZenonT(40) DEF ReopenAll, Control, DaemonTypeOK, ManagedWorkflow
    <2>5. Strays'
      BY <1>5, <2>2, <2>4 DEF Strays
    <2>6. ASSUME NEW w \in Workflows
          PROVE  Settled(w)'
      <3>1. current[w] \in Insts \cup {0}
        BY DEF Control, DaemonTypeOK
      <3>2. CASE current[w] = 0
        BY <1>5, <2>3, <3>2 DEF Settled, Fits, Managed, Active
      <3>3. CASE current[w] # 0
        <4>1. PICK i \in Insts : i = current[w]
          BY <3>1, <3>3
        <4>2. Fits(w) /\ i \in call[p].insts /\ i # 0
          BY <2>3, <3>3, <4>1
        <4> QED BY <1>5, <2>4, <4>1, <4>2 DEF Settled, Fits, Managed, Active
      <3> QED BY <3>2, <3>3
    <2> QED BY <1>4, <2>5, <2>6 DEF Memory
  <1> QED BY <1>4, <1>6, <1>7 DEF QuietInv, Single

(* A shutdown that goes on to its next instance.                             *)
LEMMA FinalizeTurn ==
  ASSUME CallsOK, NEW p \in Callers, NextToFinalize(p)
  PROVE  /\ call'[p].pc \in {"disconnect", "cancel"} /\ call'[p].op = call[p].op
         /\ \A q \in Callers \ {p} : call'[q] = call[q]
  <1>1. call[p] \in Locals /\ DOMAIN call = Callers
    BY DEF CallsOK
  <1>2. CASE StepTo(p, "disconnect")
    BY <1>2, Goto
  <1>3. ASSUME NEW i \in call[p].rest,
               call' = [call EXCEPT ![p].pc = "cancel", ![p].i = i, ![p].w = inst[i].w,
                                    ![p].rest = call[p].rest \ {i}]
        PROVE  /\ call'[p].pc = "cancel" /\ call'[p].op = call[p].op
               /\ \A q \in Callers \ {p} : call'[q] = call[q]
    BY <1>1, <1>3 DEF Locals
  <1> QED BY <1>2, <1>3 DEF NextToFinalize

(* The steps of a shutdown.                                                  *)
LEMMA ShutdownTurn ==
  ASSUME Control, QuietInv, ~overlapped, NEW p \in Leaders, Busy(p),
         call[p].op = "shutdown", Stopping(p)
  PROVE  QuietInv'
  <1> USE DEF At, memoryVars, storeVars, faultVars, historyVars
  <1>1. /\ p \in Callers /\ CallsOK /\ PlaceOK(p, call[p]) /\ call[p] \in Locals /\ up
        /\ DOMAIN call = Callers /\ DaemonTypeOK
    BY LeadersCall, LeaderStep DEF Control, CallsOK
  <1>2. ~(Close(p) \/ Drain(p) \/ Reopen(p) \/ DeleteRow(p))
    BY <1>1 DEF Close, Drain, Reopen, DeleteRow, PlaceOK, Handling
  <1>3. CASE ReopenAll(p)
    BY <1>3, ReopenAllTurn
  <1>4. CASE DrainAll(p) /\ call'[p].pc # "finalize"
    <2>1. call[p].pc = "drainAll" /\
          UNCHANGED <<overlapped, shuttingDown, failed, up, inst, current, workflows, triggers>>
      BY <1>4 DEF DrainAll
    <2>2. CASE StepTo(p, "reopenAll")
      BY <1>1, <2>1, <2>2, Goto, WaitingTurn
    <2>3. ASSUME NEW i \in call[p].rest, call' = [call EXCEPT ![p].rest = call[p].rest \ {i}]
          PROVE  QuietInv'
      <3>1. /\ call'[p].op = call[p].op /\ call'[p].pc = call[p].pc
            /\ call'[p].insts = call[p].insts /\ \A q \in Callers \ {p} : call'[q] = call[q]
        BY <1>1, <2>3 DEF Locals
      <3> QED BY <2>1, <3>1, WaitingTurn
    <2>4. CASE call' = [call EXCEPT ![p].pc = "finalize", ![p].rest = call[p].insts]
      BY <1>1, <1>4, <2>4 DEF Locals
    <2> QED BY <1>4, <2>2, <2>3, <2>4 DEF DrainAll
  <1>5. CASE ProcessEnds
    BY <1>5, EndQuiet
  <1>6. CASE DrainAll(p) /\ call'[p].pc = "finalize"
    <2>1. /\ call[p].pc = "drainAll"
          /\ UNCHANGED <<overlapped, shuttingDown, failed, workflows, triggers>>
      BY <1>6 DEF DrainAll
    <2>2. failed \/ shuttingDown
      BY <1>1, <2>1 DEF QuietInv, Memory, Sound, Stage
    <2>3. call'[p].op = "shutdown" /\ \A q \in Callers \ {p} : call'[q] = call[q]
      <3>1. CASE StepTo(p, "reopenAll")
        BY <1>1, <3>1, Goto
      <3>2. ASSUME NEW i \in call[p].rest, call' = [call EXCEPT ![p].rest = call[p].rest \ {i}]
            PROVE  call'[p].op = "shutdown" /\ \A q \in Callers \ {p} : call'[q] = call[q]
        BY <1>1, <3>2 DEF Locals
      <3>3. CASE call' = [call EXCEPT ![p].pc = "finalize", ![p].rest = call[p].insts]
        BY <1>1, <3>3 DEF Locals
      <3> QED BY <1>6, <3>1, <3>2, <3>3 DEF DrainAll
    <2>4. "finalize" \notin Activating
      BY DEF Activating, Building
    <2> QED BY <1>6, <2>1, <2>2, <2>3, <2>4, EndingTurn DEF Active
  <1>7. CASE /\ ~ProcessEnds
             /\ \/ Cancel(p) \/ Halt(p) \/ TriggersOff(p) \/ StatusOff(p) \/ Unmap(p)
                \/ Finalize(p) \/ Disconnect(p)
    <2>1. call[p].pc \in Finalizing \cup {"finalize", "disconnect"}
      BY <1>7 DEF Cancel, Halt, TriggersOff, StatusOff, Unmap, Finalize, Disconnect, Finalizing
    <2>2. failed \/ shuttingDown
      <3>1. call[p].pc \notin {"drainAll", "reopenAll"}
        BY <2>1 DEF Finalizing
      <3>2. ~Sound
        BY <3>1 DEF QuietInv, Memory, Stage
      <3> QED BY <1>1, <3>2 DEF Sound
    <2>3. UNCHANGED <<overlapped, shuttingDown>> /\ (UNCHANGED failed \/ failed')
      BY <1>7 DEF Cancel, Halt, TriggersOff, StatusOff, Unmap, Finalize, Disconnect, Fault
    <2>4. ASSUME NEW pc, call'[p].pc = pc, call'[p].op = call[p].op,
                 pc \in Finalizing \cup {"disconnect", "exit"},
                 \A q \in Callers \ {p} : call'[q] = call[q]
          PROVE  /\ call'[p].op \in {"shutdown", "none"}
                 /\ call'[p].pc \notin {"drainAll", "reopenAll", "retain", "list"} \cup Activating
                 /\ \A q \in Callers \ {p} : call'[q] = call[q]
      BY <2>4 DEF Finalizing, Activating, Building
    <2>5. Return(p) => /\ call'[p].op \in {"shutdown", "none"}
                       /\ call'[p].pc \notin {"drainAll", "reopenAll", "retain", "list"}
                                              \cup Activating
                       /\ \A q \in Callers \ {p} : call'[q] = call[q]
      BY <1>1, Back DEF Activating, Building
    <2>6. ASSUME NEW pc \in Finalizing \cup {"disconnect", "exit"},
                 \/ StepTo(p, pc)
                 \/ \E es : call' = [call EXCEPT ![p].pc = pc, ![p].cancelled = es]
          PROVE  /\ call'[p].pc = pc /\ call'[p].op = call[p].op
                 /\ \A q \in Callers \ {p} : call'[q] = call[q]
      BY <1>1, <2>6, Goto DEF Locals
    <2>7. /\ call'[p].op \in {"shutdown", "none"}
          /\ call'[p].pc \notin {"drainAll", "reopenAll", "retain", "list"} \cup Activating
          /\ \A q \in Callers \ {p} : call'[q] = call[q]
      <3>1. CASE NextToFinalize(p)
        BY <1>1, <2>4, <3>1, FinalizeTurn DEF Finalizing
      <3>2. CASE Unmap(p)
        BY <3>1, <3>2 DEF Unmap
      <3>3. CASE Finalize(p)
        BY <3>1, <3>3 DEF Finalize
      <3>4. CASE Disconnect(p)
        BY <2>4, <2>5, <2>6, <3>4 DEF Disconnect
      <3>5. CASE Cancel(p)
        BY <2>4, <2>5, <2>6, <3>5 DEF Cancel, Finalizing
      <3>6. CASE Halt(p)
        BY <1>7, <2>4, <2>5, <2>6, <3>6 DEF Halt, Finalizing
      <3>7. CASE TriggersOff(p)
        BY <2>4, <2>5, <2>6, <3>7 DEF TriggersOff, Finalizing
      <3>8. CASE StatusOff(p)
        BY <2>4, <2>5, <2>6, <3>8 DEF StatusOff, Finalizing
      <3> QED BY <1>7, <3>2, <3>3, <3>4, <3>5, <3>6, <3>7, <3>8
    <2>8. ASSUME NEW w \in Workflows
          PROVE  (Active(w)' => Active(w)) /\ triggers'[w].id = triggers[w].id
      <3>1. StatusOff(p) => (Active(w)' => Active(w)) /\ UNCHANGED triggers
        BY <1>1, <2>8 DEF StatusOff, SetWorkflowStatus, Active, DaemonTypeOK, TypeOK
      <3>2. TriggersOff(p) => UNCHANGED workflows /\ triggers'[w].id = triggers[w].id
        BY <1>1, <2>8 DEF TriggersOff, SetTrigger, DaemonTypeOK
      <3>3. ~StatusOff(p) /\ ~TriggersOff(p) => UNCHANGED <<workflows, triggers>>
        BY <1>7 DEF Cancel, CancelQueuedExecutions, Halt, Unmap, Finalize, Disconnect
      <3> QED BY <3>1, <3>2, <3>3 DEF Active
    <2> QED BY <2>2, <2>3, <2>7, <2>8, EndingTurn
  <1> QED BY <1>2, <1>3, <1>4, <1>5, <1>6, <1>7 DEF Stopping

(* The steps of the lifecycle calls.                                         *)
LEMMA CallTurn ==
  ASSUME Control, QuietInv, ~overlapped, NEW p \in Callers, Stopping(p) \/ Starting(p)
  PROVE  QuietInv'
  <1>1. p \in Leaders /\ Busy(p)
    BY LeaderStep
  <1>2. CASE call[p].op = "shutdown"
    BY <1>1, <1>2, LeaderStep, ShutdownTurn
  <1>3. CASE call[p].op # "shutdown"
    <2>1. PICK c : c = call[p]
      OBVIOUS
    <2>2. Turning(p, c)
      BY <1>1, <1>3, <2>1, LeaderStep DEF Turning
    <2> QED BY <2>2, StoppingTurn, StartingTurn
  <1> QED BY <1>2, <1>3
-----------------------------------------------------------------------------
(* A step that no lifecycle call takes: it may set the row of a trigger to   *)
(* active, and changes of the instances what the invariant does not look at. *)
LEMMA AsideTurn ==
  ASSUME Control, QuietInv,
         \A q \in Leaders : call'[q] = call[q],
         \A q \in Callers : call'[q].pc \in Activating => call'[q] = call[q],
         UNCHANGED <<workflows, current, up, overlapped, shuttingDown>>,
         UNCHANGED failed \/ failed',
         \A i \in Insts :
           /\ inst'[i].w = inst[i].w /\ inst'[i].trig = inst[i].trig
           /\ inst'[i].accepting = inst[i].accepting /\ inst'[i].watching = inst[i].watching
           /\ inst'[i].closed = inst[i].closed
           /\ inst'[i].pc = "none" <=> inst[i].pc = "none",
         \A w \in Workflows : /\ triggers'[w].id = triggers[w].id
                              /\ triggers[w].active => triggers'[w].active
  PROVE  QuietInv'
  <1> SUFFICES ASSUME ~overlapped PROVE Single' /\ Database' /\ (Sound => Memory)'
    BY DEF QuietInv
  <1>1. Main \in Leaders /\ Leaders \subseteq Callers
    BY LeadersCall
  <1>2. \A q \in Leaders : Busy(q)' <=> Busy(q)
    BY <1>1 DEF Busy
  <1>3. Single'
    BY <1>2 DEF Single, QuietInv
  <1>4. Database'
    <2>1. ASSUME NEW q \in Callers, call'[q].pc \in Activating
          PROVE  triggers'[call'[q].w].id # None
      <3>1. call'[q] = call[q] /\ triggers[call[q].w].id # None
        BY <2>1 DEF QuietInv, Database
      <3>2. call[q].w \in Workflows
        BY <2>1, <3>1 DEF Control, CallsOK, PlaceOK
      <3> QED BY <3>1, <3>2
    <2>2. call[Main].op = "restore" => call[Main].rest \subseteq Workflows
      BY <1>1 DEF Control, CallsOK, PlaceOK
    <2> QED BY <1>1, <2>1, <2>2 DEF QuietInv, Database, Active
  <1>5. ASSUME Sound'
        PROVE  Memory'
    <2>1. Sound
      BY <1>5 DEF Sound
    <2>2. ASSUME NEW w \in Workflows
          PROVE  /\ Active(w)' <=> Active(w)
                 /\ Managed(w) => Managed(w)'
                 /\ Fits(w) => Fits(w)'
                 /\ Settled(w) => Settled(w)'
      <3>1. current[w] \in Insts \cup {0}
        BY DEF Control, DaemonTypeOK
      <3>2. Active(w)' <=> Active(w)
        BY DEF Active
      <3>3. Managed(w) => Managed(w)'
        BY <3>1 DEF Managed
      <3>4. Fits(w) => Fits(w)'
        BY <3>2, <3>3 DEF Fits
      <3>5. Active(w) /\ Fits(w) => inst'[current'[w]].accepting = inst[current[w]].accepting
        BY <3>1 DEF Fits, Managed
      <3>6. Settled(w) => Settled(w)'
        BY <3>2, <3>4, <3>5 DEF Settled
      <3> QED BY <3>2, <3>3, <3>4, <3>6
    <2>3. Strays'
      BY <2>1 DEF QuietInv, Memory, Strays
    <2>4. ASSUME NEW p \in Leaders, Busy(p)'
          PROVE  Stage(call[p])'
      <3>1. PICK c : c = call[p]
        OBVIOUS
      <3>2. Stage(c) /\ call'[p] = c
        BY <1>2, <2>1, <2>4, <3>1 DEF QuietInv, Memory
      <3>3. PlaceOK(p, c)
        BY <1>1, <3>1 DEF Control, CallsOK
      <3>4. CASE c.op = "shutdown" \/ c.pc \in {"retain", "list"}
        <4>1. c.op = "shutdown" => Stage(c)'
          BY <2>2, <3>2, <3>3 DEF Stage, PlaceOK, Booting
        <4>2. c.pc \in {"retain", "list"} => Stage(c)'
          BY <3>2, <3>3 DEF Stage, PlaceOK, Booting
        <4> QED BY <3>2, <3>4, <4>1, <4>2, StageOf
      <3>5. CASE c.op # "shutdown" /\ c.pc \notin {"retain", "list"}
        <4>1. Local(c.pc, c) /\ Elsewhere(c.pc, c)
          BY <3>2, <3>5 DEF Stage
        <4>2. Elsewhere(c.pc, c)'
          BY <2>2, <4>1 DEF Elsewhere, Waits
        <4>3. /\ c.pc \in {"drain", "reopen"} \cup Finalizing \cup Activating => c.i \in Insts
              /\ c.pc \in {"load", "close", "upsert", "replace", "drain", "reopen", "deleteRow",
                           "giveUp", "giveUpTriggers"} \cup Finalizing \cup Activating =>
                   c.w \in Workflows
          BY <3>3 DEF PlaceOK, Handling
        <4>4. Local(c.pc, c)'
          BY <2>2, <4>1, <4>3 DEF Local, Finalizing, Activating, Building
        <4> QED BY <3>2, <3>5, <4>2, <4>4, StageOf DEF Stage
      <3> QED BY <3>4, <3>5
    <2>5. ASSUME \A q \in Leaders : ~Busy(q)', NEW w \in Workflows
          PROVE  Settled(w)'
      BY <1>2, <2>1, <2>2, <2>5 DEF QuietInv, Memory
    <2> QED BY <2>3, <2>4, <2>5 DEF Memory
  <1> QED BY <1>3, <1>4, <1>5

(* What enqueueExecution, its callers, the workers and the background do.    *)
LEMMA AsideSteps ==
  ASSUME Control, QuietInv,
         \/ \E p \in Firers, i \in Insts, op \in {"fire", "tick"} : Fire(p, i, op)
         \/ \E p \in Users, w \in Workflows : Exec(p, w)
         \/ \E p \in Callers : Enqueuing(p)
         \/ \E i \in Insts : Worker(i)
         \/ Background \/ UNCHANGED vars
  PROVE  QuietInv'
  <1> USE DEF At, memoryVars, storeVars, faultVars, historyVars
  <1>1. DOMAIN call = Callers /\ CallsOK /\ DaemonTypeOK
    BY DEF Control, CallsOK
  <1>2. ASSUME NEW p \in Users \cup Firers,
               \A q \in Callers \ {p} : call'[q] = call[q]
        PROVE  \A q \in Leaders : call'[q] = call[q]
    BY <1>2, LeadersCall
  <1>3. Users \cup Firers \subseteq Callers
    BY DaemonConstants DEF DaemonConstants
  <1>4. ASSUME NEW p \in Firers, NEW i \in Insts, NEW op \in {"fire", "tick"}, Fire(p, i, op)
        PROVE  QuietInv'
    <2>1. /\ call'[p].pc = "accept" /\ \A q \in Callers \ {p} : call'[q] = call[q]
      BY <1>1, <1>3, <1>4 DEF Fire, Idle
    <2>2. UNCHANGED <<workflows, inst, current, up, overlapped, shuttingDown, failed, triggers>>
      BY <1>4 DEF Fire
    <2>3. \A q \in Callers : call'[q].pc \in Activating => call'[q] = call[q]
      BY <2>1 DEF Activating, Building
    <2> QED BY <1>2, <2>1, <2>2, <2>3, AsideTurn
  <1>5. ASSUME NEW p \in Users, NEW w \in Workflows, Exec(p, w)
        PROVE  QuietInv'
    <2>1. /\ call'[p].pc = "count" /\ \A q \in Callers \ {p} : call'[q] = call[q]
      BY <1>1, <1>3, <1>5 DEF Exec, Idle
    <2>2. UNCHANGED <<workflows, inst, current, up, overlapped, shuttingDown, failed, triggers>>
      BY <1>5 DEF Exec
    <2>3. \A q \in Callers : call'[q].pc \in Activating => call'[q] = call[q]
      BY <2>1 DEF Activating, Building
    <2> QED BY <1>2, <2>1, <2>2, <2>3, AsideTurn
  <1>6. ASSUME NEW i \in Insts, Worker(i)
        PROVE  QuietInv'
    <2>1. UNCHANGED <<call, workflows, current, up, overlapped, shuttingDown, triggers>>
          /\ (UNCHANGED failed \/ failed')
      BY <1>6 DEF Worker, Wake, Check, Claim, Mark, Run, Report, Fault, ClaimNextQueueItem,
                  CompleteExecution, FailCompletion, Finish
    <2>2. PICK m \in ManagedWorkflow :
            /\ inst' = [inst EXCEPT ![i] = m]
            /\ m.w = inst[i].w /\ m.watching = inst[i].watching
            /\ m.accepting = inst[i].accepting /\ m.closed = inst[i].closed
            /\ m.trig = inst[i].trig /\ (m.pc = "none" <=> inst[i].pc = "none")
      BY <1>1, <1>6, WorkerInstances
    <2>3. \A j \in Insts : inst'[j] = IF j = i THEN m ELSE inst[j]
      BY <1>1, <2>2 DEF DaemonTypeOK
    <2> QED BY SMTT(30), <2>1, <2>2, <2>3, AsideTurn
  <1>7. CASE Background \/ UNCHANGED vars
    <2>1. UNCHANGED <<call, inst, workflows, current, up, overlapped, shuttingDown, triggers,
                      failed>>
      BY <1>7 DEF Background, vars, ApplyRetention, Tick, OpenConnection
    <2> QED BY <2>1, AsideTurn
  <1>8. ASSUME NEW p \in Callers, Enqueuing(p)
        PROVE  QuietInv'
    <2>1. call[p] \in Locals /\ PlaceOK(p, call[p])
      BY <1>1 DEF CallsOK
    <2>2. call[p].pc \in {"accept", "count", "create", "notify", "rearm", "register", "await"}
      BY <1>8 DEF Enqueuing, Accept, Count, Create, NotifyWorker, Rearm, Register, Await
    <2>3. p \in Users \cup Firers
      BY <2>1, <2>2 DEF PlaceOK
    <2>4. ASSUME NEW pc, StepTo(p, pc) \/ Return(p), pc \notin Activating
          PROVE  /\ call'[p].pc \notin Activating /\ \A q \in Callers \ {p} : call'[q] = call[q]
      <3>1. "idle" \notin Activating
        BY DEF Activating, Building
      <3> QED BY <1>1, <2>4, <3>1, Goto, Back
    <2>5. AfterEnqueue(p) => /\ call'[p].pc \notin Activating
                             /\ \A q \in Callers \ {p} : call'[q] = call[q]
      <3>1. "rearm" \notin Activating
        BY DEF Activating, Building
      <3> QED BY <2>4, <3>1 DEF AfterEnqueue
    <2>6. /\ call'[p].pc \notin Activating /\ \A q \in Callers \ {p} : call'[q] = call[q]
      <3>1. {"create", "register", "await", "idle", "count", "notify"} \cap Activating = {}
        BY DEF Activating, Building
      <3>2. CASE Accept(p)
        <4>1. CASE call' = [call EXCEPT ![p].pc = "count", ![p].i = current[call[p].w]]
          BY <1>1, <2>1, <3>1, <4>1 DEF Locals
        <4> QED BY <2>5, <3>2, <4>1 DEF Accept
      <3>3. CASE Count(p)
        BY <2>4, <2>5, <3>1, <3>3 DEF Count
      <3>4. CASE Create(p)
        <4>1. CASE call' = [call EXCEPT ![p].pc = "notify", ![p].e = nextId]
          BY <1>1, <2>1, <3>1, <4>1 DEF Locals
        <4> QED BY <2>5, <3>4, <4>1 DEF Create
      <3>5. CASE NotifyWorker(p)
        BY <2>4, <2>5, <3>1, <3>5 DEF NotifyWorker
      <3>6. CASE Rearm(p) \/ Register(p) \/ Await(p)
        BY <2>4, <3>1, <3>6 DEF Rearm, Register, Await
      <3> QED BY <1>8, <3>2, <3>3, <3>4, <3>5, <3>6 DEF Enqueuing
    <2>7. \A q \in Callers : call'[q].pc \in Activating => call'[q] = call[q]
      BY <2>6
    <2>8. UNCHANGED <<workflows, current, up, overlapped, shuttingDown>>
          /\ (UNCHANGED failed \/ failed')
      BY <1>8 DEF Enqueuing, Accept, Count, Create, NotifyWorker, Rearm, Register, Await, Fault,
                  BeginCreate, CommitCreate, AbortCreate, EndCreate
    <2>9. ASSUME NEW w \in Workflows
          PROVE  /\ triggers'[w].id = triggers[w].id
                 /\ triggers[w].active => triggers'[w].active
      <3>1. Rearm(p) => UNCHANGED triggers \/ SetTrigger(call[p].w, call[p].trig, TRUE)
        BY DEF Rearm
      <3>2. ~Rearm(p) => UNCHANGED triggers
        BY <1>8 DEF Enqueuing, Accept, Count, Create, NotifyWorker, Register, Await
      <3>3. SetTrigger(call[p].w, call[p].trig, TRUE) =>
              triggers'[w].id = triggers[w].id /\ (triggers[w].active => triggers'[w].active)
        BY <1>1 DEF SetTrigger, DaemonTypeOK
      <3> QED BY <3>1, <3>2, <3>3
    <2>10. ASSUME NEW i \in Insts
           PROVE  /\ inst'[i].w = inst[i].w /\ inst'[i].trig = inst[i].trig
                  /\ inst'[i].accepting = inst[i].accepting
                  /\ inst'[i].watching = inst[i].watching
                  /\ inst'[i].closed = inst[i].closed
                  /\ inst'[i].pc = "none" <=> inst[i].pc = "none"
      <3>1. UNCHANGED inst \/ Notify(call[p].i)
        BY <1>8 DEF Enqueuing, Accept, Count, Create, NotifyWorker, Rearm, Register, Await
      <3>2. Notify(call[p].i) =>
              /\ inst'[i].w = inst[i].w /\ inst'[i].trig = inst[i].trig
              /\ inst'[i].accepting = inst[i].accepting /\ inst'[i].watching = inst[i].watching
              /\ inst'[i].closed = inst[i].closed /\ inst'[i].pc = inst[i].pc
        BY <1>1 DEF Notify, DaemonTypeOK, ManagedWorkflow
      <3> QED BY <3>1, <3>2
    <2> QED BY <1>2, <2>3, <2>6, <2>7, <2>8, <2>9, <2>10, AsideTurn
  <1> QED BY <1>4, <1>5, <1>6, <1>7, <1>8
-----------------------------------------------------------------------------
(* The boot begins with nothing in memory.                                   *)
LEMMA BootTurn ==
  ASSUME Control, QuietInv, ~overlapped, Boot
  PROVE  QuietInv'
  <1> USE DEF At
  <1>1. Main \in Callers /\ Leaders \subseteq Callers
    BY LeadersCall
  <1>2. ~up
    BY DEF Boot, MarkStaleRunningExecutions
  <1>3. /\ \A q \in Callers : call[q].op = "none" /\ call[q].pc \in {"idle", "down"}
        /\ call[Main] = [Idle EXCEPT !.pc = "down"]
        /\ \A w \in Workflows : current[w] = 0
        /\ \A i \in Insts : inst[i].pc = "none"
        /\ DOMAIN call = Callers
    <2>1. FreshProcess
      BY <1>2 DEF Control, DownOK
    <2>2. DOMAIN call = Callers /\ call[Main] = [Idle EXCEPT !.pc = "down"]
      BY <1>1, <2>1 DEF FreshProcess
    <2>3. \A q \in Callers : call[q].op = "none" /\ call[q].pc \in {"idle", "down"}
      BY <2>1 DEF FreshProcess, Idle
    <2>4. (\A w \in Workflows : current[w] = 0) /\ \A i \in Insts : inst[i].pc = "none"
      BY <2>1 DEF FreshProcess, NoInst
    <2> QED BY <2>2, <2>3, <2>4
  <1>4. PICK c : c = [[Idle EXCEPT !.pc = "down"] EXCEPT !.pc = "retain", !.op = "restore"]
    OBVIOUS
  <1>5. c.pc = "retain" /\ c.op = "restore" /\ c.w = None /\ c.rest = {}
    BY <1>4 DEF Idle
  <1>6. call'[Main] = c /\ \A q \in Callers \ {Main} : call'[q] = call[q]
    BY <1>1, <1>3, <1>4 DEF Boot
  <1>7. UNCHANGED <<workflows, inst, current, triggers, overlapped>>
    BY DEF Boot, MarkStaleRunningExecutions, memoryVars, faultVars, historyVars
  <1>8. \A q \in Leaders : Busy(q)' => q = Main
    BY <1>1, <1>3, <1>6 DEF Busy, LifecycleOps
  <1>9. Database'
    <2>1. \A q \in Callers : call'[q].pc \notin Activating
      BY <1>3, <1>5, <1>6 DEF Activating, Building
    <2> QED BY <1>5, <1>6, <1>7, <2>1 DEF QuietInv, Database, Active
  <1>10. Strays'
    BY <1>3, <1>7 DEF Strays
  <1>11. Stage(c)'
    BY <1>3, <1>5, <1>7 DEF Stage
  <1>12. Stage(call[Main])'
    BY <1>6, <1>11, StageOf
  <1>13. Busy(Main)' /\ Main \in Leaders
    BY <1>5, <1>6 DEF Busy, LifecycleOps, Leaders
  <1>14. Memory'
    BY <1>8, <1>10, <1>12, <1>13 DEF Memory
  <1> QED BY <1>8, <1>9, <1>14 DEF QuietInv, Single

(* The restore of the active workflows, between its calls of                 *)
(* activateWorkflow.                                                         *)
LEMMA RestoringTurn ==
  ASSUME Control, QuietInv, ~overlapped, Restoring
  PROVE  QuietInv'
  <1> USE DEF At, memoryVars, storeVars, faultVars, historyVars
  <1>1. /\ Main \in Callers /\ Leaders \subseteq Callers /\ Main \in Leaders
        /\ PlaceOK(Main, call[Main]) /\ call[Main] \in Locals /\ DOMAIN call = Callers
        /\ CallsOK /\ DaemonTypeOK
    BY LeadersCall DEF Control, CallsOK
  <1>2. call[Main].pc \in Booting /\ call[Main].op = "restore" /\ Busy(Main)
    BY <1>1 DEF Restoring, Retain, ListActive, RestoreNext, GiveUp, GiveUpTriggers, PlaceOK,
                Booting, Busy, LifecycleOps
  <1>3. \A q \in Leaders : Busy(q) => q = Main
    BY <1>1, <1>2 DEF QuietInv, Single
  <1>4. call[Main].rest \subseteq Workflows
    BY <1>1, <1>2 DEF PlaceOK
  (* A step that leaves the goroutine with locals d.                         *)
  <1>5. ASSUME NEW d, call'[Main] = d, \A q \in Callers \ {Main} : call'[q] = call[q],
               UNCHANGED <<workflows, inst, current, triggers, overlapped, up, failed,
                           shuttingDown>>,
               d = Idle \/ d.op = "restore",
               d.pc \notin {"drainAll", "reopenAll"},
               d.pc \in Activating => triggers[d.w].id # None,
               d.op = "restore" => \A w \in d.rest : Active(w) /\ w # d.w,
               d.op = "restore" => d.rest \subseteq Workflows,
               d.pc \in {"retain", "list"} => d.w = None,
               Stage(call[Main]) =>
                 IF d = Idle THEN \A w \in Workflows : Settled(w) ELSE Stage(d)'
        PROVE  QuietInv'
    <2>1. \A q \in Leaders : Busy(q)' => q = Main
      BY <1>1, <1>3, <1>5 DEF Busy
    <2>2. Idle.op = "none" /\ Idle.pc = "idle"
      BY DEF Idle
    <2>3. ASSUME NEW q \in Callers, call'[q].pc \in Activating
          PROVE  triggers'[call'[q].w].id # None
      <3>1. CASE q = Main
        BY <1>5, <2>3, <3>1
      <3>2. CASE q # Main
        BY <1>5, <2>3, <3>2 DEF QuietInv, Database
      <3> QED BY <3>1, <3>2
    <2>4. Database'
      BY <1>5, <2>2, <2>3 DEF QuietInv, Database, Active
    <2>5. ASSUME Sound'
          PROVE  Memory'
      <3>1. up /\ ~failed /\ ~shuttingDown
        <4>1. ASSUME NEW q \in Leaders, call'[q].pc \in {"drainAll", "reopenAll"}
              PROVE  FALSE
          <5>1. q # Main /\ call'[q] = call[q] /\ q \in Callers
            BY <1>1, <1>5, <4>1
          <5>2. Busy(q)
            BY <4>1, <5>1 DEF Control, CallsOK, PlaceOK, DrainingAll, Busy, LifecycleOps
          <5> QED BY <1>3, <5>1, <5>2
        <4> QED BY <1>5, <2>5, <4>1 DEF Sound
      <3>2. Sound
        BY <3>1 DEF Sound
      <3>3. Strays /\ Stage(call[Main])
        BY <1>1, <1>2, <3>2 DEF QuietInv, Memory
      <3>4. Strays'
        BY <1>5, <3>3 DEF Strays
      <3>5. CASE d = Idle
        <4>1. \A q \in Leaders : ~Busy(q)'
          BY <1>5, <2>1, <2>2, <3>5 DEF Busy, LifecycleOps
        <4>2. \A w \in Workflows : Settled(w)'
          BY <1>5, <3>3, <3>5 DEF Settled, Fits, Managed, Active
        <4> QED BY <3>4, <4>1, <4>2 DEF Memory
      <3>6. CASE d # Idle
        <4>1. Busy(Main)'
          BY <1>5, <3>6 DEF Busy, LifecycleOps
        <4>2. Stage(call[Main])'
          BY <1>5, <3>3, <3>6, StageOf
        <4> QED BY <1>1, <2>1, <3>4, <4>1, <4>2 DEF Memory
      <3> QED BY <3>5, <3>6
    <2> QED BY <2>1, <2>4, <2>5 DEF QuietInv, Single
  <1>6. CASE Retain
    <2>1. call[Main].pc = "retain" /\ call[Main].w = None
      BY <1>6 DEF Retain, QuietInv, Database
    <2>2. PICK d : d = call'[Main]
      OBVIOUS
    <2>3. /\ d.pc = "list" /\ d.op = "restore" /\ d.w = None /\ d.rest = call[Main].rest
          /\ \A q \in Callers \ {Main} : call'[q] = call[q]
      BY <1>1, <1>2, <1>6, <2>1, <2>2, Goto DEF Retain
    <2>4. UNCHANGED <<workflows, inst, current, triggers, overlapped, up, failed, shuttingDown>>
      BY <1>6 DEF Retain, ApplyRetention
    <2>5. d # Idle /\ "list" \notin Activating
      BY <2>3 DEF Idle, Activating, Building
    <2>6. \A w \in d.rest : Active(w) /\ w # d.w
      BY <1>2, <1>4, <2>1, <2>3 DEF QuietInv, Database
    <2>7. Stage(call[Main]) => Stage(d)'
      BY <1>2, <2>1, <2>3, <2>4 DEF Stage
    <2> QED BY <1>4, <1>5, <2>2, <2>3, <2>4, <2>5, <2>6, <2>7
  <1>7. CASE ListActive
    <2>1. call[Main].pc = "list" /\ call[Main].w = None
      BY <1>7 DEF ListActive, QuietInv, Database
    <2>2. PICK d : d = call'[Main]
      OBVIOUS
    <2>3. /\ d.pc = "restore" /\ d.op = "restore" /\ d.w = None
          /\ d.rest = {w \in Workflows : Active(w)}
          /\ \A q \in Callers \ {Main} : call'[q] = call[q]
      BY <1>1, <1>2, <1>7, <2>1, <2>2 DEF ListActive, Locals, Active
    <2>4. UNCHANGED <<workflows, inst, current, triggers, overlapped, up, failed, shuttingDown>>
      BY <1>7 DEF ListActive
    <2>5. d # Idle /\ "restore" \notin Activating
      BY <2>3 DEF Idle, Activating, Building
    <2>6. \A w \in d.rest : Active(w) /\ w # d.w
      BY <2>3, StoreConstants DEF StoreConstants
    <2>7. Local(d.pc, d)'
      BY <2>3 DEF Local, Building
    <2>8. Stage(call[Main]) => Elsewhere(d.pc, d)'
      BY <1>2, <2>1, <2>3, <2>4 DEF Stage, Elsewhere, Waits, Settled, Fits, Active
    <2>9. Stage(call[Main]) => Stage(d)'
      BY <2>3, <2>7, <2>8 DEF Stage
    <2>10. d.rest \subseteq Workflows
      BY SMTT(30), <2>3
    <2> QED BY <1>5, <2>2, <2>3, <2>4, <2>5, <2>6, <2>9, <2>10
  <1>8. CASE RestoreNext
    <2>1. call[Main].pc = "restore"
      BY <1>8 DEF RestoreNext
    <2>2. UNCHANGED <<workflows, inst, current, triggers, overlapped, up, failed, shuttingDown>>
      BY <1>8 DEF RestoreNext
    <2>3. Stage(call[Main]) =>
            \A w \in Workflows : IF w \in call[Main].rest THEN Active(w) /\ current[w] = 0
                                 ELSE Settled(w)
      BY <1>2, <2>1 DEF Stage, Elsewhere, Waits
    <2>4. CASE call[Main].rest = {} /\ Return(Main)
      <3>1. /\ call'[Main] = Idle /\ Idle.pc = "idle" /\ Idle.op = "none"
            /\ \A q \in Callers \ {Main} : call'[q] = call[q]
        BY <1>1, <2>4, Back
      <3>2. "idle" \notin Activating
        BY DEF Activating, Building
      <3>3. Stage(call[Main]) => \A w \in Workflows : Settled(w)
        BY <2>3, <2>4
      <3> QED BY <1>5, <2>2, <3>1, <3>2, <3>3
    <2>5. ASSUME NEW w \in call[Main].rest,
                 call' = [call EXCEPT ![Main].pc = "arm", ![Main].w = w, ![Main].i = nextInst,
                            ![Main].trig = triggers[w].id,
                            ![Main].rest = call[Main].rest \ {w}]
          PROVE  QuietInv'
      <3>1. PICK d : d = call'[Main]
        OBVIOUS
      <3>2. /\ d.pc = "arm" /\ d.op = "restore" /\ d.w = w /\ d.trig = triggers[w].id
            /\ d.rest = call[Main].rest \ {w}
            /\ \A q \in Callers \ {Main} : call'[q] = call[q]
        BY <1>1, <1>2, <2>5, <3>1 DEF Locals
      <3>3. d # Idle /\ w \in Workflows
        BY <1>4, <2>5, <3>2 DEF Idle
      <3>4. /\ triggers[d.w].id # None
            /\ \A v \in d.rest : Active(v) /\ v # d.w
        BY <1>2, <2>5, <3>2, <3>3 DEF QuietInv, Database
      <3>5. Stage(call[Main]) => Local(d.pc, d)'
        BY <2>2, <2>3, <2>5, <3>2, <3>3 DEF Local, Building, Active
      <3>6. Stage(call[Main]) => Elsewhere(d.pc, d)'
        <4> SUFFICES ASSUME Stage(call[Main]), NEW v \in Workflows, v # d.w
                     PROVE  IF Waits(d, v) THEN Active(v)' /\ current'[v] = 0 ELSE Settled(v)'
          BY <3>2 DEF Elsewhere, Waits
        <4>1. IF Waits(d, v) THEN Active(v) /\ current[v] = 0 ELSE Settled(v)
          BY <2>3, <3>2 DEF Waits
        <4>2. Settled(v) => Settled(v)'
          BY <2>2 DEF Settled, Fits, Managed, Active
        <4> QED BY <2>2, <4>1, <4>2 DEF Active
      <3>7. Stage(call[Main]) => Stage(d)'
        BY <3>2, <3>5, <3>6 DEF Stage
      <3>8. d.rest \subseteq Workflows
        BY <1>4, <3>2
      <3> QED BY <1>5, <2>2, <3>1, <3>2, <3>3, <3>4, <3>7, <3>8
    <2> QED BY <1>8, <2>4, <2>5 DEF RestoreNext
  <1>9. CASE GiveUp \/ GiveUpTriggers
    <2>1. PICK c : c = call[Main]
      OBVIOUS
    <2>2. c.pc \in {"giveUp", "giveUpTriggers"} /\ c.w \in Workflows /\ c.op = "restore"
      BY <1>1, <1>2, <1>9, <2>1 DEF GiveUp, GiveUpTriggers, PlaceOK
    <2>3. Turning(Main, c)
      BY <1>1, <1>2, <2>1, <2>2 DEF Turning
    <2>4. {"restore", "giveUpTriggers"} \cap Activating = {}
      BY DEF Activating, Building
    <2>5. CASE GiveUp
      <3>1. /\ c.pc = "giveUp" /\ StepTo(Main, "giveUpTriggers")
            /\ UNCHANGED <<inst, current, triggers, overlapped, up, shuttingDown>>
            /\ (UNCHANGED failed \/ failed')
        BY <2>1, <2>5 DEF GiveUp, SetWorkflowStatus, Fault
      <3>2. /\ \A w \in Workflows \ {c.w} : workflows'[w] = workflows[w]
            /\ Active(c.w)' => Active(c.w)
            /\ ~failed' => ~Active(c.w)'
        BY <1>1, <2>1, <2>2, <2>5 DEF GiveUp, SetWorkflowStatus, Fault, Active, Exists,
                                      DaemonTypeOK, TypeOK
      <3>3. World(c, 0) /\ StraysOf(c, 0)
        BY <3>1, <3>2, SameInstances DEF SameWorld
      <3>4. ~failed' /\ Local(c.pc, c) => Local("giveUpTriggers", c)'
        BY <3>1, <3>2 DEF Local, Building
      <3>5. Active(c.w)' => triggers'[c.w].id # None
        BY <2>2, <3>1, <3>2 DEF QuietInv, Database
      <3> QED BY <2>3, <2>4, <3>1, <3>3, <3>4, <3>5, MoveTo
    <2>6. CASE GiveUpTriggers
      <3>1. /\ c.pc = "giveUpTriggers" /\ StepTo(Main, "restore")
            /\ UNCHANGED <<workflows, inst, current, overlapped, up, shuttingDown>>
            /\ (UNCHANGED failed \/ failed')
        BY <2>1, <2>6 DEF GiveUpTriggers, Fault
      <3>2. \A w \in Workflows : /\ triggers'[w].id = triggers[w].id
                                 /\ w # c.w => triggers'[w] = triggers[w]
        BY <1>1, <2>1, <2>2, <2>6 DEF GiveUpTriggers, SetTrigger, DaemonTypeOK
      <3>3. World(c, 0) /\ StraysOf(c, 0)
        BY <3>1, <3>2, SameInstances DEF SameWorld
      <3>4. Local(c.pc, c) => Local("restore", c)' /\ Settled(c.w)'
        BY <3>1 DEF Local, Building, Settled, Fits, Active
      <3>5. Active(c.w)' => triggers'[c.w].id # None
        BY <2>2, <3>1, <3>2 DEF QuietInv, Database, Active
      <3> QED BY <2>3, <2>4, <3>1, <3>3, <3>4, <3>5, MoveTo
    <2> QED BY <1>9, <2>5, <2>6
  <1> QED BY <1>6, <1>7, <1>8, <1>9 DEF Restoring
-----------------------------------------------------------------------------
(* A call that begins while no other is in progress.                         *)
LEMMA BeginTurn ==
  ASSUME Control, QuietInv, NEW p \in Operators \cup {Main}, NoteOverlap,
         NEW d, call'[p] = d, \A q \in Callers \ {p} : call'[q] = call[q],
         d.op \in Handling \cup {"shutdown"}, d.pc \notin Activating \cup {"retain", "list"},
         UNCHANGED <<workflows, current, triggers, up, failed>>,
         ~shuttingDown' => ~shuttingDown, shuttingDown' /\ ~shuttingDown => d.op = "shutdown",
         \A i \in Insts : /\ inst'[i].pc = inst[i].pc /\ inst'[i].closed = inst[i].closed
                          /\ inst'[i].watching = inst[i].watching,
         d.op # "shutdown" => d.pc \notin {"drainAll", "reopenAll"},
         d.op = "shutdown" => ~shuttingDown,
         (\A w \in Workflows : Settled(w)) => Stage(d)'
  PROVE  QuietInv'
  <1> SUFFICES ASSUME ~overlapped' PROVE Single' /\ Database' /\ (Sound => Memory)'
    BY DEF QuietInv
  <1>1. p \in Callers /\ Main \in Leaders /\ Leaders \subseteq Callers /\ p \in Leaders
    BY LeadersCall DEF Leaders
  <1>2. ~overlapped /\ \A q \in Leaders : ~Busy(q)
    BY DEF NoteOverlap, Leaders
  <1>3. \A q \in Leaders : Busy(q)' <=> q = p
    BY <1>1, <1>2 DEF Busy, LifecycleOps, Handling
  <1>4. \A q \in Callers : call'[q].pc \in Activating => call'[q] = call[q]
    OBVIOUS
  <1>5. call'[Main].op # "restore"
    BY <1>1, <1>3 DEF Busy, LifecycleOps, Handling
  <1>6. call'[Main].pc \in {"retain", "list"} => call'[Main].w = None
    BY <1>1, <1>2 DEF QuietInv, Database
  <1>7. Database'
    BY <1>2, <1>4, <1>5, <1>6 DEF QuietInv, Database, Active
  <1>8. ASSUME Sound'
        PROVE  Memory'
    <2>1. ~shuttingDown
      <3> SUFFICES ASSUME shuttingDown PROVE FALSE
        OBVIOUS
      <3>1. PICK q \in Leaders : call'[q].pc \in {"drainAll", "reopenAll"}
        BY <1>8 DEF Sound
      <3>2. q # p
        BY <3>1
      <3>3. call[q].pc \in {"drainAll", "reopenAll"} /\ q \in Callers
        BY <1>1, <3>1, <3>2
      <3>4. Busy(q)
        BY <3>3 DEF Control, CallsOK, PlaceOK, DrainingAll, Busy, LifecycleOps
      <3> QED BY <1>2, <3>4
    <2>2. Sound
      BY <1>8, <2>1 DEF Sound
    <2>3. Strays /\ \A w \in Workflows : Settled(w)
      BY <1>2, <2>2 DEF QuietInv, Memory
    <2>4. Strays'
      BY <2>3 DEF Strays
    <2>5. Stage(call[p])'
      BY <2>3, StageOf
    <2> QED BY <1>1, <1>3, <2>4, <2>5 DEF Memory
  <1> QED BY <1>3, <1>7, <1>8 DEF Single

(* start, stop, restart and delete arrive.                                   *)
LEMMA RequestTurn ==
  ASSUME Control, QuietInv, NEW p \in Operators, NEW w \in Workflows,
         \/ RequestStart(p, w)
         \/ \E op \in Requests \ {"start"} : Request(p, op, w)
  PROVE  QuietInv'
  <1> USE DEF memoryVars, storeVars, faultVars
  <1>1. /\ NoteOverlap
        /\ UNCHANGED <<workflows, inst, current, triggers, up, failed, shuttingDown>>
    BY DEF RequestStart, Request
  <1>2. PICK d : d = call'[p]
    OBVIOUS
  <1>3. DOMAIN call = Callers /\ p \in Callers
    BY DaemonConstants DEF Control, CallsOK, DaemonConstants
  <1>4. /\ d.w = w /\ d.op \in Handling
        /\ IF Active(w) THEN d.pc = "close" ELSE d.pc \in {"deleteRow", "load", "upsert"}
        /\ \A q \in Callers \ {p} : call'[q] = call[q]
    <2>1. CASE RequestStart(p, w)
      BY <1>2, <1>3, <2>1 DEF RequestStart, Loaded, Idle, Active, Handling
    <2>2. ASSUME NEW op \in Requests \ {"start"}, Request(p, op, w)
          PROVE  /\ d.w = w /\ d.op \in Handling
                 /\ IF Active(w) THEN d.pc = "close" ELSE d.pc \in {"deleteRow", "load"}
                 /\ \A q \in Callers \ {p} : call'[q] = call[q]
      <3>1. op \in Handling
        BY <2>2, DaemonConstants DEF Request, Handling, DaemonConstants
      <3> QED BY <1>2, <1>3, <2>2, <3>1 DEF Request, Idle, Active
    <2> QED BY <2>1, <2>2
  <1>5. d.pc \notin Activating \cup {"retain", "list", "drainAll", "reopenAll", "restore"}
    BY <1>4 DEF Activating, Building
  <1>6. ASSUME \A v \in Workflows : Settled(v)
        PROVE  Stage(d)'
    <2>1. \A v \in Workflows : Settled(v)'
      BY <1>1, <1>6 DEF Settled, Fits, Managed, Active
    <2>2. Elsewhere(d.pc, d)'
      BY <1>4, <2>1 DEF Elsewhere, Waits, Handling
    <2>3. Active(w)' <=> Active(w)
      BY <1>1 DEF Active
    <2>4. ~Active(w) => current'[w] = 0
      BY <1>1, <1>6 DEF Settled, Fits
    <2>5. Local(d.pc, d)'
      BY <1>4, <2>1, <2>3, <2>4 DEF Local, Building
    <2> QED BY <1>4, <1>5, <2>2, <2>5 DEF Stage, Handling
  <1>7. d.op # "shutdown"
    BY <1>4 DEF Handling
  <1> QED BY <1>1, <1>2, <1>4, <1>5, <1>6, <1>7, BeginTurn

(* A shutdown begins.                                                        *)
LEMMA ShutdownBegins ==
  ASSUME Control, QuietInv, NEW p \in Operators \cup {Main}, Shutdown(p)
  PROVE  QuietInv'
  <1> USE DEF memoryVars, storeVars, faultVars
  <1>1. /\ NoteOverlap /\ ~shuttingDown /\ shuttingDown'
        /\ UNCHANGED <<workflows, current, triggers, up, failed>>
    BY DEF Shutdown
  <1>2. PICK d : d = call'[p]
    OBVIOUS
  <1>3. DOMAIN call = Callers /\ p \in Callers /\ DaemonTypeOK
    BY DaemonConstants DEF Control, CallsOK, DaemonConstants
  <1>4. /\ d.pc = "drainAll" /\ d.op = "shutdown"
        /\ d.insts = {current[v] : v \in Workflows} \ {0}
        /\ \A q \in Callers \ {p} : call'[q] = call[q]
    BY <1>2, <1>3 DEF Shutdown, Idle
  <1>5. \A i \in Insts :
          /\ inst'[i].w = inst[i].w /\ inst'[i].pc = inst[i].pc
          /\ inst'[i].trig = inst[i].trig /\ inst'[i].closed = inst[i].closed
          /\ inst'[i].watching = inst[i].watching
    BY <1>3 DEF Shutdown, DaemonTypeOK, ManagedWorkflow
  <1>6. "drainAll" \notin Activating
    BY DEF Activating, Building
  <1>7. ASSUME \A v \in Workflows : Settled(v)
        PROVE  Stage(d)'
    <2>1. ASSUME NEW v \in Workflows
          PROVE  Fits(v)'
      <3>1. Fits(v) /\ current[v] \in Insts \cup {0}
        BY <1>3, <1>7 DEF Settled, DaemonTypeOK
      <3> QED BY <1>1, <1>5, <3>1 DEF Fits, Managed, Active
    <2>2. d.insts = {current'[v] : v \in Workflows} \ {0}
      BY <1>1, <1>4
    <2> QED BY <1>1, <1>4, <2>1, <2>2 DEF Stage
  <1> QED BY <1>1, <1>2, <1>4, <1>5, <1>6, <1>7, BeginTurn

(* QuietInv holds before the first boot.                                     *)
LEMMA QuietInit == DaemonInit => QuietInv
  <1> SUFFICES ASSUME DaemonInit PROVE QuietInv
    OBVIOUS
  <1>1. Main \in Callers /\ Leaders \subseteq Callers
    BY LeadersCall
  <1>2. \A q \in Callers : call[q].op = "none" /\ call[q].pc \in {"idle", "down"}
    BY DEF DaemonInit, Idle
  <1>3. \A q \in Leaders : ~Busy(q)
    BY <1>1, <1>2 DEF Busy, LifecycleOps
  <1>4. \A w \in Workflows : ~Active(w)
    BY DEF DaemonInit, StoreInit, Active
  <1>5. Database
    BY <1>1, <1>2, <1>4 DEF Database, Activating, Building
  <1>6. ~up
    BY DEF DaemonInit, StoreInit
  <1> QED BY <1>3, <1>5, <1>6 DEF QuietInv, Single, Sound

(* Every step keeps it.                                                      *)
LEMMA QuietStep ==
  ASSUME Control, QuietInv, [DaemonNext]_vars
  PROVE  QuietInv'
  <1>1. CASE overlapped
    <2>1. overlapped'
      <3>1. NoteOverlap => overlapped'
        BY <1>1 DEF NoteOverlap
      <3>2. ASSUME NEW p \in Callers, Enqueuing(p)
            PROVE  overlapped'
        BY <1>1, <3>2 DEF Enqueuing, Accept, Count, Create, NotifyWorker, Rearm, Register, Await,
                          historyVars
      <3>3. ASSUME NEW p \in Callers, Stopping(p)
            PROVE  overlapped'
        BY <1>1, <3>3 DEF Stopping, Close, Drain, Reopen, Cancel, Halt, TriggersOff, StatusOff,
                          Unmap, DeleteRow, DrainAll, ReopenAll, Finalize, Disconnect,
                          historyVars, ProcessEnds
      <3>4. ASSUME NEW p \in Callers, Starting(p)
            PROVE  overlapped'
        BY <1>1, <3>4 DEF Starting, Load, MarkStopped, Upsert, Replace, Arm, TriggersOn, Spawn,
                          StatusOn, WakeUp, historyVars
      <3>5. ASSUME NEW i \in Insts, Worker(i)
            PROVE  overlapped'
        BY <1>1, <3>5 DEF Worker, Wake, Check, Claim, Mark, Run, Report, historyVars
      <3>6. Boot \/ Restoring \/ BootFails \/ Exit \/ Kill \/ Background \/ UNCHANGED vars
              => overlapped'
        BY <1>1 DEF Boot, Restoring, Retain, ListActive, RestoreNext, GiveUp, GiveUpTriggers,
                    BootFails, Exit, Kill, Background, ProcessEnds, historyVars, vars
      <3>7. \A p \in Firers, i \in Insts, op \in {"fire", "tick"} : Fire(p, i, op) => overlapped'
        BY <1>1 DEF Fire, historyVars
      <3>8. \A p \in Users, w \in Workflows : Exec(p, w) => overlapped'
        BY <1>1 DEF Exec, historyVars
      <3>9. \A p \in Operators, w \in Workflows : RequestStart(p, w) => overlapped'
        BY <3>1 DEF RequestStart
      <3>10. \A p \in Operators, w \in Workflows, op \in Requests \ {"start"} :
               Request(p, op, w) => overlapped'
        BY <3>1 DEF Request
      <3>11. \A p \in Operators \cup {Main} : Shutdown(p) => overlapped'
        BY <3>1 DEF Shutdown
      <3> QED BY <3>2, <3>3, <3>4, <3>5, <3>6, <3>7, <3>8, <3>9, <3>10, <3>11, DaemonCases,
                 Zenon
    <2> QED BY <2>1 DEF QuietInv
  <1>2. CASE ~overlapped
    <2>1. BootFails \/ Exit \/ Kill => QuietInv'
      BY EndQuiet DEF BootFails, Exit, Kill
    <2>2. \A p \in Callers : Stopping(p) \/ Starting(p) => QuietInv'
      BY <1>2, CallTurn
    <2>3. Boot \/ Restoring => QuietInv'
      BY <1>2, BootTurn, RestoringTurn
    <2>4. \A p \in Operators, w \in Workflows : RequestStart(p, w) => QuietInv'
      BY RequestTurn
    <2>5. \A p \in Operators, w \in Workflows, op \in Requests \ {"start"} :
            Request(p, op, w) => QuietInv'
      BY RequestTurn
    <2>6. \A p \in Operators \cup {Main} : Shutdown(p) => QuietInv'
      BY ShutdownBegins
    <2>7. (\/ \E p \in Firers, i \in Insts, op \in {"fire", "tick"} : Fire(p, i, op)
           \/ \E p \in Users, w \in Workflows : Exec(p, w)
           \/ \E p \in Callers : Enqueuing(p)
           \/ \E i \in Insts : Worker(i)
           \/ Background \/ UNCHANGED vars) => QuietInv'
      BY AsideSteps
    <2> QED BY <2>1, <2>2, <2>3, <2>4, <2>5, <2>6, <2>7, DaemonCases, Zenon
  <1> QED BY <1>1, <1>2

(* QuietInv is an invariant of the daemon.                                   *)
LEMMA QuietInvariant == DaemonSpec => []QuietInv
  <1>1. Control /\ QuietInv /\ [DaemonNext]_vars => QuietInv'
    BY QuietStep
  <1> QED BY <1>1, QuietInit, ControlInvariant, PTL DEF DaemonSpec
-----------------------------------------------------------------------------
(* As long as lifecycle calls do not overlap and the store works, the        *)
(* database and d.workflows agree whenever no call is in progress, also      *)
(* after a crash at any point of a call, a shutdown that was given up and a  *)
(* restore that failed for some workflow: what status reports, what stop can *)
(* reach and what a restart restores are the same.                           *)
THEOREM ConsistentWhenQuietHolds == DaemonSpec => []ConsistentWhenQuiet
  <1>1. Control /\ QuietInv => ConsistentWhenQuiet
    <2> SUFFICES ASSUME Control, QuietInv, Quiet
                 PROVE  /\ \A w \in Workflows :
                             IF Active(w)
                               THEN /\ current[w] # 0 /\ inst[current[w]].w = w
                                    /\ inst[current[w]].pc # "none"
                                    /\ inst[current[w]].accepting /\ inst[current[w]].watching
                                    /\ ~inst[current[w]].closed
                                    /\ triggers[w] = [id |-> inst[current[w]].trig,
                                                      active |-> TRUE]
                               ELSE current[w] = 0
                        /\ Strays
      BY DEF ConsistentWhenQuiet, Active, Strays
    <2>1. \A p \in Leaders : ~Busy(p)
      BY LeadersCall DEF Quiet, At, Control, CallsOK, PlaceOK, Leaders, Busy, LifecycleOps
    <2>2. Strays /\ \A w \in Workflows : Settled(w)
      BY <2>1 DEF Quiet, QuietInv, Sound, Memory
    <2>3. ASSUME NEW w \in Workflows, Active(w)
          PROVE  triggers[w] = [id |-> inst[current[w]].trig, active |-> TRUE]
      <3>1. triggers[w] \in [id : Insts \cup {0, None}, active : BOOLEAN]
        BY DEF Control, DaemonTypeOK
      <3>2. triggers[w].id = inst[current[w]].trig /\ triggers[w].active
        BY <2>2, <2>3 DEF Settled, Fits, Managed
      <3> QED BY <3>1, <3>2
    <2> QED BY <2>2, <2>3 DEF Settled, Fits, Managed
  <1> QED BY <1>1, ControlInvariant, QuietInvariant, PTL
=============================================================================
