------------------------ MODULE DaemonProcess_proofs ------------------------
(***************************************************************************)
(* What DaemonProcess promises, for every number of processes: its types,  *)
(* and that the port works as a lock for the rows of the executions.       *)
(***************************************************************************)
EXTENDS DaemonProcess, TLAPS

Booting == {"off", "clean", "listen", "bind", "pid", "mark", "serve"}
Bound == {"pid", "mark", "serve", "restore", "ready"}

(* A process that has not come to serve has no Shutdown and no execution. *)
BootingIsIdle ==
  \A p \in Procs : pc[p] \in Booting => shut[p] = "no" /\ row[p] = "none" /\ job[p] = "none"

(* From Bind on a process has the port until its Shutdown gives it back. *)
PortIsHeld ==
  \A p \in Procs : pc[p] \in Bound /\ shut[p] \notin {"files", "over"} => port = p

(* The running row of a live process is in the hands of its worker. *)
RunningIsWorkedOn ==
  \A p \in Procs : Alive(p) /\ row[p] = "running" => job[p] # "none"

(* Only an execution that escaped the wait of the Shutdown outlives it. *)
DrainedIsLate ==
  \A p \in Procs :
    Alive(p) /\ row[p] = "running" /\ ~late[p] => Serves(p) /\ shut[p] \in {"no", "wait"}

LockInv == ProcessTypeOK /\ BootingIsIdle /\ PortIsHeld /\ RunningIsWorkedOn /\ DrainedIsLate
-----------------------------------------------------------------------------
(* LockInv holds at the start, with one process up or none.                  *)
LEMMA InitLocked == ASSUME NEW up \in Procs \cup {None}, ProcessInit(up) PROVE LockInv
  BY ProcessConstants DEF ProcessInit, LockInv, ProcessTypeOK, BootingIsIdle, PortIsHeld,
     RunningIsWorkedOn, DrainedIsLate, Booting, Bound, Alive, Ended, Serves

(* The steps of a boot. *)
LEMMA BootStep == ASSUME LockInv, NEW p \in Procs, Spawn(p) \/ Boots(p) PROVE LockInv'
  <1> USE ProcessConstants DEF LockInv, ProcessTypeOK, BootingIsIdle, PortIsHeld,
        RunningIsWorkedOn, DrainedIsLate, Booting, Bound, Alive, Ended, Serves, At
  <1>1. CASE Spawn(p)
    BY <1>1 DEF Spawn
  <1>2. CASE CleanUp(p)
    BY <1>2 DEF CleanUp
  <1>3. CASE Listen(p)
    BY <1>3 DEF Listen
  <1>4. CASE Bind(p)
    BY <1>4 DEF Bind
  <1>5. CASE WritePid(p)
    BY <1>5 DEF WritePid
  <1>6. CASE MarkStale(p)
    BY <1>6 DEF MarkStale, StaleRows
  <1>7. CASE Serve(p)
    BY <1>7 DEF Serve
  <1>8. CASE Restored(p)
    BY <1>8 DEF Restored
  <1> QED BY <1>1, <1>2, <1>3, <1>4, <1>5, <1>6, <1>7, <1>8 DEF Boots

(* A kill, and the steps of a worker. *)
LEMMA WorkStep == ASSUME LockInv, NEW p \in Procs, Kill(p) \/ Works(p) PROVE LockInv'
  <1> USE ProcessConstants DEF LockInv, ProcessTypeOK, BootingIsIdle, PortIsHeld,
        RunningIsWorkedOn, DrainedIsLate, Booting, Bound, Alive, Ended, Serves
  <1>1. CASE Kill(p)
    BY <1>1 DEF Kill
  <1>2. CASE Claim(p)
    BY ZenonT(40), <1>2 DEF Claim
  <1>3. CASE Work(p)
    BY <1>3 DEF Work
  <1>4. CASE Complete(p)
    BY <1>4 DEF Complete
  <1> QED BY <1>1, <1>2, <1>3, <1>4 DEF Works

(* The steps of a Shutdown: Drained is where an execution becomes late. *)
LEMMA BeginStep ==
  ASSUME LockInv, NEW p \in Procs, NEW who \in Callers \cup {Main}, Serves(p),
         BeginShutdown(p, who)
  PROVE  LockInv'
  BY ProcessConstants DEF LockInv, ProcessTypeOK, BootingIsIdle, PortIsHeld,
     RunningIsWorkedOn, DrainedIsLate, Booting, Bound, Alive, Ended, Serves, BeginShutdown, In

(* The steps of a Shutdown keep LockInv.                                     *)
LEMMA ShutdownStep ==
  ASSUME LockInv, NEW p \in Procs,
         \/ Drained(p) \/ DrainTimesOut(p) \/ Finalize(p) \/ FinalizeFails(p)
         \/ Closes(p) \/ RemoveFiles(p) \/ Leave(p)
  PROVE  LockInv'
  <1> USE ProcessConstants DEF LockInv, ProcessTypeOK, BootingIsIdle, PortIsHeld,
        RunningIsWorkedOn, DrainedIsLate, Booting, Bound, Alive, Ended, Serves, In
  <1>1. CASE Drained(p)
    BY <1>1 DEF Drained
  <1>2. CASE DrainTimesOut(p)
    BY <1>2 DEF DrainTimesOut
  <1>3. CASE Finalize(p)
    BY <1>3 DEF Finalize
  <1>4. CASE FinalizeFails(p)
    BY <1>4 DEF FinalizeFails
  <1>5. CASE CloseInternal(p)
    BY <1>5 DEF CloseInternal
  <1>6. CASE ClosePort(p)
    BY <1>6 DEF ClosePort
  <1>7. CASE RemoveFiles(p)
    BY <1>7 DEF RemoveFiles
  <1>8. CASE Leave(p)
    BY <1>8 DEF Leave
  <1> QED BY <1>1, <1>2, <1>3, <1>4, <1>5, <1>6, <1>7, <1>8 DEF Closes

(* LockInv is inductive.                                                     *)
LEMMA LockStep == LockInv /\ [ProcessNext]_processVars => LockInv'
  <1> SUFFICES ASSUME LockInv, [ProcessNext]_processVars PROVE LockInv'
    OBVIOUS
  <1>1. CASE ProcessNext
    <2>1. PICK p \in Procs : ProcessStep(p)
      BY <1>1 DEF ProcessNext
    <2>2. CASE Signal(p)
      <3>1. CASE shut[p] = "no"
        BY <2>2, <3>1, BeginStep DEF Signal, Serves
      <3>2. CASE shut[p] # "no"
        BY <2>2, <3>2 DEF Signal, processVars, LockInv, ProcessTypeOK, BootingIsIdle,
           PortIsHeld, RunningIsWorkedOn, DrainedIsLate, Alive, Serves
      <3> QED BY <3>1, <3>2
    <2>3. CASE \E c \in Callers : Serves(p) /\ BeginShutdown(p, c)
      BY <2>3, BeginStep
    <2> QED BY <2>1, <2>2, <2>3, BootStep, WorkStep, ShutdownStep DEF ProcessStep
  <1>2. CASE UNCHANGED processVars
    BY <1>2 DEF processVars, LockInv, ProcessTypeOK, BootingIsIdle, PortIsHeld,
       RunningIsWorkedOn, DrainedIsLate, Alive, Serves
  <1> QED BY <1>1, <1>2

(* LockInv is an invariant of the processes.                                 *)
LEMMA Locked == ProcessSpec => []LockInv
  <1>1. (\E up \in Procs \cup {None} : ProcessInit(up)) => LockInv
    BY InitLocked
  <1> QED BY <1>1, LockStep, PTL DEF ProcessSpec
-----------------------------------------------------------------------------
(* Every variable of the processes keeps its type, however many lumnd are     *)
(* started on one state directory and whenever they are killed.               *)
THEOREM ProcessTypeCorrect == ProcessSpec => []ProcessTypeOK
  <1>1. LockInv => ProcessTypeOK
    BY DEF LockInv
  <1> QED BY <1>1, Locked, PTL

(* Only MarkStale closes rows, and the process that does so has the port.     *)
LEMMA TheftStep ==
  LockInv /\ [ProcessNext]_processVars =>
    \A q \in Procs : row[q] = "running" /\ row'[q] = "stale" => ~Alive(q) \/ late[q]
  <1> SUFFICES ASSUME LockInv, [ProcessNext]_processVars, NEW q \in Procs,
                      row[q] = "running", row'[q] = "stale", Alive(q), ~late[q]
               PROVE  FALSE
    OBVIOUS
  <1>1. Serves(q) /\ port = q
    BY DEF LockInv, DrainedIsLate, PortIsHeld, Bound, Serves
  <1>2. PICK p \in Procs : ProcessStep(p)
    BY DEF ProcessNext, processVars
  <1>3. CASE MarkStale(p)
    <2>1. pc[p] = "mark"
      BY <1>3 DEF MarkStale, At
    <2>2. port = p
      BY <2>1 DEF LockInv, BootingIsIdle, PortIsHeld, Booting, Bound
    <2> QED BY <1>1, <2>1, <2>2 DEF Serves
  <1>4. CASE ~MarkStale(p)
    <2>1. UNCHANGED row \/ \E r \in {"running", "none"} : row' = [row EXCEPT ![p] = r]
      BY <1>2, <1>4 DEF ProcessStep, Spawn, Boots, CleanUp, Listen, Bind, WritePid, Serve,
         Restored, Kill, Works, Claim, Work, Complete, Signal, BeginShutdown, Drained,
         DrainTimesOut, Finalize, FinalizeFails, Closes, CloseInternal, ClosePort,
         RemoveFiles, Leave, processVars
    <2> QED BY <2>1 DEF LockInv, ProcessTypeOK
  <1> QED BY <1>3, <1>4

(* A boot closes as stale no execution that another live process works on,    *)
(* except one that escaped the wait of a Shutdown (daemon.go:108-164,         *)
(* 166-222, store.go MarkStaleRunningExecutions).                             *)
THEOREM BootStealsNothing == ProcessSpec => NoTheft
  <1>1. LockInv /\ [ProcessNext]_processVars =>
          [\A q \in Procs : row[q] = "running" /\ row'[q] = "stale"
                              => ~Alive(q) \/ late[q]]_processVars
    BY TheftStep
  <1> QED BY <1>1, Locked, PTL DEF ProcessSpec, NoTheft
=============================================================================
