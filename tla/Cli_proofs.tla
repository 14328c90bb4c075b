----------------------------- MODULE Cli_proofs -----------------------------
(***************************************************************************)
(* Results about the commands, for every number of clients and processes,  *)
(* every table and every tree of files: they drive the processes only as   *)
(* DaemonProcess allows, so that what is proved of these holds of the      *)
(* composition; a run is carried out once; a daemon that serves can be     *)
(* reached, unless it was busy beside another one; one that "daemon stop"  *)
(* says is stopped has given everything back; a workflow has one row; the  *)
(* daemon acts on the workflow that a client found, and finds it by the    *)
(* same selector; and a local run takes the file that the help says.       *)
(***************************************************************************)
EXTENDS Cli, DaemonProcess_proofs, FiniteSetTheorems

(* A step of a client is a step of a process, or none. *)
LEMMA ClientKeepsProcess ==
  ASSUME NEW c \in Clients, Begin(c) \/ Goes(c)
  PROVE  ProcessNext \/ UNCHANGED processVars
  <1>1. CASE HandleShutdown(c)
    BY <1>1, CliConstants DEF HandleShutdown, ProcessKept, ProcessNext, ProcessStep, CliConstants
  <1>2. CASE CheckRunning(c)
    BY SMTT(30), <1>2 DEF CheckRunning, ProcessKept, ProcessNext, ProcessStep
  <1>3. CASE Begin(c) \/ Dial(c) \/ Reset(c) \/ Lost(c) \/ Handle(c)
    BY <1>3 DEF Begin, Dial, Reset, Lost, Handle, ProcessKept
  <1>4. CASE Poll(c) \/ Conclude(c) \/ Mutate(c) \/ Run(c) \/ RunLocally(c)
    BY <1>4 DEF Poll, Conclude, Mutate, Run, RunLocally, ProcessKept
  <1> QED BY <1>1, <1>2, <1>3, <1>4 DEF Goes

(* A step of a daemon, a signal or a kill is a step of its process.          *)
LEMMA DaemonKeepsProcess ==
  ASSUME NEW p \in Procs, DaemonStep(p) \/ Nature(p)
  PROVE  ProcessStep(p)
  BY DEF DaemonStep, Nature, ShutdownReturns, StopRows, ProcessStep

(* The commands, their answers and their losses are steps of DaemonProcess:   *)
(* what a client or a signal makes of a process is what main.go and daemon.go *)
(* allow.                                                                     *)
THEOREM CliImplementsProcess == Spec => ProcessSpec
  <1>1. Init => \E up \in Procs \cup {None} : ProcessInit(up)
    BY DEF Init
  <1>2. [Next]_vars => [ProcessNext]_processVars
    <2> SUFFICES ASSUME [Next]_vars PROVE ProcessNext \/ UNCHANGED processVars
      OBVIOUS
    <2>1. CASE Next
      BY <2>1, ClientKeepsProcess, DaemonKeepsProcess DEF Next, ProcessNext
    <2>2. CASE UNCHANGED vars
      BY <2>2 DEF vars, processVars
    <2> QED BY <2>1, <2>2
  <1> QED BY <1>1, <1>2, PTL DEF Spec, ProcessSpec

(* However clients start and stop daemons, no boot closes an execution that   *)
(* another live daemon works on (daemon.go:112-220, cli.go:448).              *)
THEOREM CommandsStealNothing == Spec => NoTheft
  BY CliImplementsProcess, BootStealsNothing, PTL
-----------------------------------------------------------------------------
Points == {"idle", "call", "sent", "waiting", "answered", "local"}
Requests == {"health", "poll", "list", "start", "shutdown", "exec", "stop",
             "delete", "restart"}

Fields == {"cmd", "at", "req", "to", "ans", "found", "acted", "ran", "entry", "out"}
IsClient(r) == r = [f \in Fields |-> r[f]]

(* Before the last answer nothing has run; and an answer after which something *)
(* may have run is none that a run falls back on.                             *)
RanOnce(r) ==
  /\ IsClient(r)
  /\ r.at \in Points /\ r.req \in Requests \cup {"none"}
  /\ r.at \in {"call", "sent"} => r.req \in Requests
  /\ r.ran \in {{}, {"daemon"}, {"local"}}
  /\ r.at \in {"call", "sent", "waiting", "local"} => r.ran = {}
  /\ r.at = "answered" /\ r.ran # {} =>
       r.ran = {"daemon"} /\ r.req = "exec" /\ r.ans \in {"ok", "refused", "error"}

RunInv == /\ client = [c \in Clients |-> client[c]]
          /\ \A c \in Clients : RanOnce(client[c])

(* What a handler may have run. *)
LEMMA OutcomeRan ==
  ASSUME NEW c \in Clients, client[c].req \in Requests \ {"shutdown"},
         NEW o \in Outcomes(c)
  PROVE  /\ o.ran \in {{}, {"daemon"}}
         /\ o.ran # {} => client[c].req = "exec" /\ o.ans \in {"ok", "refused"}
  <1>1. CASE client[c].req \in {"health", "poll", "list"}
    BY <1>1 DEF Outcomes, Answer, Outcome
  <1>2. CASE client[c].req = "start"
    BY <1>2 DEF Outcomes, StartOutcomes, Answer, Outcome
  <1>3. CASE client[c].req \in {"exec", "stop", "delete", "restart"}
    <2> DEFINE found == ResolveWorkflowSelector(rows, PathSelector(c))
    <2>1. o \in SelectorOutcomes(client[c].req, PathSelector(c))
      BY <1>3 DEF Outcomes
    <2>2. CASE found = Missing
      BY <2>1, <2>2 DEF SelectorOutcomes, Answer, Outcome
    <2>3. CASE found # Missing /\ found = Ambiguous
      BY <2>1, <2>3 DEF SelectorOutcomes, Answer, Outcome
    <2>4. CASE found # Missing /\ found # Ambiguous
      <3>1. o \in IdOutcomes(client[c].req, found.id)
        BY <2>1, <2>4 DEF SelectorOutcomes
      <3>2. CASE client[c].req = "exec"
        BY <3>1, <3>2 DEF IdOutcomes, Answer, Outcome
      <3>3. CASE client[c].req \in {"stop", "delete", "restart"}
        BY <3>1, <3>3 DEF IdOutcomes, Answer, Outcome
      <3> QED BY <1>3, <3>2, <3>3
    <2> QED BY <2>2, <2>3, <2>4
  <1> QED BY <1>1, <1>2, <1>3 DEF Requests

(* A change to one client that leaves it with at most one run keeps RunInv.  *)
LEMMA OneClient ==
  ASSUME RunInv, NEW c \in Clients, NEW r, RanOnce(r), client' = [client EXCEPT ![c] = r]
  PROVE  RunInv'
  <1>1. client' = [d \in Clients |-> IF d = c THEN r ELSE client[d]]
    BY DEF RunInv
  <1>2. client' = [d \in Clients |-> client'[d]]
    BY <1>1
  <1>3. \A d \in Clients : RanOnce(client'[d])
    BY <1>1 DEF RunInv
  <1> QED BY <1>2, <1>3 DEF RunInv, RanOnce, IsClient, Fields

(* RunInv is inductive.                                                      *)
LEMMA RunInvStep == RunInv /\ [Next]_vars => RunInv'
  <1> SUFFICES ASSUME RunInv, [Next]_vars PROVE RunInv'
    OBVIOUS
  <1>0. \A c \in Clients : RanOnce(client[c])
    BY DEF RunInv
  <1>1. ASSUME NEW c \in Clients, Begin(c)
        PROVE  RunInv'
    <2>1. PICK cmd \in menu :
            client' = [client EXCEPT ![c] =
              [Idle EXCEPT !.cmd = cmd,
                 !.req = FirstCall(cmd),
                 !.at = IF cmd.do = "run" /\ cmd.arg = << >> THEN "local"
                        ELSE IF cmd.do = "start" /\ ForcedTarget(cmd) = NoTarget THEN "idle"
                        ELSE "call",
                 !.out = IF cmd.do = "start" /\ ForcedTarget(cmd) = NoTarget
                         THEN "failed" ELSE "none"]]
      BY <1>1 DEF Begin
    <2> DEFINE at == IF cmd.do = "run" /\ cmd.arg = << >> THEN "local"
                     ELSE IF cmd.do = "start" /\ ForcedTarget(cmd) = NoTarget THEN "idle"
                     ELSE "call"
               out == IF cmd.do = "start" /\ ForcedTarget(cmd) = NoTarget
                      THEN "failed" ELSE "none"
               r == [Idle EXCEPT !.cmd = cmd, !.req = FirstCall(cmd), !.at = at, !.out = out]
    <2>2. FirstCall(cmd) \in Requests
      BY DEF FirstCall, Requests
    <2>3. at \in Points
      BY DEF Points
    <2> HIDE DEF at, out
    <2>4. r.at = at /\ r.req = FirstCall(cmd) /\ r.ran = {} /\ IsClient(r)
      BY DEF Idle, IsClient, Fields
    <2>5. client' = [client EXCEPT ![c] = r]
      BY <2>1 DEF at, out
    <2> HIDE DEF r
    <2>6. RanOnce(r)
      BY <2>2, <2>3, <2>4 DEF RanOnce
    <2> QED BY <2>5, <2>6, OneClient
  <1>2. ASSUME NEW c \in Clients, Dial(c) \/ Reset(c) \/ Lost(c)
        PROVE  RunInv'
    <2>1. client[c].at \in {"call", "sent", "waiting"} /\ client[c].ran = {}
      BY <1>0, <1>2 DEF Dial, Reset, Lost, At_, RanOnce
    <2>2. ASSUME NEW ans, client' = [client EXCEPT ![c].at = "answered", ![c].ans = ans]
          PROVE  RunInv'
      <3> DEFINE r == [client[c] EXCEPT !.at = "answered", !.ans = ans]
      <3>1. client' = [client EXCEPT ![c] = r]
        BY <2>2 DEF RunInv
      <3>2. r.at = "answered" /\ r.req = client[c].req /\ r.ran = client[c].ran /\ IsClient(r)
        BY <1>0 DEF RanOnce, IsClient, Fields
      <3> HIDE DEF r
      <3>3. RanOnce(r)
        BY <1>0, <2>1, <3>2 DEF RanOnce, Points
      <3> QED BY <3>1, <3>3, OneClient
    <2>3. ASSUME client[c].at = "call",
                 client' = [client EXCEPT ![c].at = "sent", ![c].to = socket]
          PROVE  RunInv'
      <3> DEFINE r == [client[c] EXCEPT !.at = "sent", !.to = socket]
      <3>1. client' = [client EXCEPT ![c] = r]
        BY <2>3 DEF RunInv
      <3>2. r.at = "sent" /\ r.req = client[c].req /\ r.ran = client[c].ran /\ IsClient(r)
        BY <1>0 DEF RanOnce, IsClient, Fields
      <3> HIDE DEF r
      <3>3. RanOnce(r)
        BY <1>0, <2>1, <2>3, <3>2 DEF RanOnce, Points
      <3> QED BY <3>1, <3>3, OneClient
    <2> QED BY <1>2, <2>2, <2>3 DEF Dial, Reset, Lost, At_
  <1>3. ASSUME NEW c \in Clients, Handle(c)
        PROVE  RunInv'
    <2>1. client[c].at = "sent" /\ client[c].req # "shutdown" /\ client[c].ran = {}
      BY SMTT(30), <1>0, <1>3 DEF Handle, At_, RanOnce
    <2> DEFINE chosen == SelectWorkflowID(rows, client[c].cmd.arg)
               answer(ans) == IF ans = "ok" /\ client[c].req = "list" THEN chosen.kind ELSE ans
               found == IF client[c].req = "list" THEN chosen.id ELSE client[c].found
    <2>2. PICK o \in Outcomes(c) : \E ans \in {o.ans, "error"} :
            client' = [client EXCEPT ![c].at = "answered", ![c].ans = answer(ans),
               ![c].found = IF client[c].req = "list" THEN chosen.id ELSE @,
               ![c].acted = o.acted, ![c].ran = @ \cup o.ran]
      BY ZenonT(40), <1>3 DEF Handle
    <2>3. PICK ans \in {o.ans, "error"} :
            client' = [client EXCEPT ![c].at = "answered", ![c].ans = answer(ans),
               ![c].found = IF client[c].req = "list" THEN chosen.id ELSE @,
               ![c].acted = o.acted, ![c].ran = @ \cup o.ran]
      BY <2>2
    <2> DEFINE r == [client[c] EXCEPT !.at = "answered", !.ans = answer(ans),
                              !.found = found, !.acted = o.acted, !.ran = @ \cup o.ran]
    <2>4. /\ o.ran \in {{}, {"daemon"}}
          /\ o.ran # {} => client[c].req = "exec" /\ o.ans \in {"ok", "refused"}
      <3>1. client[c].req \in Requests
        BY <1>0, <2>1 DEF RanOnce
      <3> QED BY <2>1, <3>1, OutcomeRan
    <2>5. o.ran # {} => answer(ans) \in {"ok", "refused", "error"}
      BY <2>4
    <2> HIDE DEF answer, chosen
    <2>6. client' = [client EXCEPT ![c] = r]
      BY <2>3 DEF RunInv
    <2> HIDE DEF found
    <2>7. /\ r.at = "answered" /\ r.req = client[c].req /\ r.ans = answer(ans)
          /\ r.ran = client[c].ran \cup o.ran /\ IsClient(r)
      BY ZenonT(40), <1>0 DEF RanOnce, IsClient, Fields
    <2> HIDE DEF r
    <2>8. RanOnce(r)
      BY <1>0, <2>1, <2>4, <2>5, <2>7 DEF RanOnce, Points
    <2> QED BY <2>6, <2>8, OneClient
  <1>4. ASSUME NEW c \in Clients, HandleShutdown(c)
        PROVE  RunInv'
    BY <1>4 DEF RunInv, RanOnce, IsClient, Fields, Points, Requests, HandleShutdown, At_
  <1>5. ASSUME NEW c \in Clients, CheckRunning(c) \/ Poll(c) \/ Conclude(c) \/ Mutate(c)
        PROVE  RunInv'
    BY SMTT(30), <1>5 DEF RunInv, RanOnce, IsClient, Fields, Points, Requests, CheckRunning, Poll, Conclude,
                Mutate, Answered, At_, Ask, Done
  <1>6. ASSUME NEW c \in Clients, Run(c)
        PROVE  RunInv'
    BY <1>6 DEF RunInv, RanOnce, IsClient, Fields, Points, Requests, Run, Answered, At_, Ask, Done,
                FallsBack
  <1>7. ASSUME NEW c \in Clients, RunLocally(c)
        PROVE  RunInv'
    <2> DEFINE target == LocalTarget(client[c].cmd)
               ran == IF target = NoTarget THEN client[c].ran
                      ELSE client[c].ran \cup {"local"}
               out == IF target = NoTarget THEN "failed" ELSE "ok"
               r == [client[c] EXCEPT !.at = "idle", !.entry = target.entry, !.ran = ran,
                                      !.out = out]
    <2>1. client[c].at = "local" /\ client[c].ran = {}
      BY <1>0, <1>7 DEF RunLocally, At_, RanOnce
    <2>2. ran \in {{}, {"local"}}
      BY <2>1
    <2> HIDE DEF ran, out
    <2>3. r.at = "idle" /\ r.req = client[c].req /\ r.ran = ran /\ IsClient(r)
      BY <1>0 DEF RanOnce, IsClient, Fields
    <2>4. client' = [client EXCEPT ![c] = r]
      BY <1>7 DEF RunLocally, RunInv, ran, out
    <2> HIDE DEF r
    <2>5. RanOnce(r)
      BY <1>0, <2>2, <2>3 DEF RanOnce, Points
    <2> QED BY <2>4, <2>5, OneClient
  <1>8. ASSUME NEW p \in Procs, ShutdownReturns(p)
        PROVE  RunInv'
    <2>1. PICK ans : Returns(p, ans)
      BY <1>8 DEF ShutdownReturns
    <2>2. \A c \in Clients : RanOnce(client'[c])
      <3> SUFFICES ASSUME NEW c \in Clients PROVE RanOnce(client'[c])
        OBVIOUS
      <3>1. CASE c = closer[p] /\ client[c].at = "waiting" /\ client[c].to = p
        <4>1. client'[c] = [client[c] EXCEPT !.at = "answered", !.ans = ans]
          BY <2>1, <3>1 DEF Returns
        <4> QED BY <1>0, <3>1, <4>1 DEF RanOnce, IsClient, Fields, Points
      <3>2. CASE ~(c = closer[p] /\ client[c].at = "waiting" /\ client[c].to = p)
        BY <1>0, <2>1, <3>2 DEF Returns
      <3> QED BY <3>1, <3>2
    <2>3. client' = [c \in Clients |-> client'[c]]
      BY <2>1 DEF Returns
    <2> QED BY <2>2, <2>3 DEF RunInv, RanOnce, IsClient, Fields
  <1>9. CASE UNCHANGED client
    BY <1>9 DEF RunInv, RanOnce, IsClient, Fields
  <1> QED
    BY <1>1, <1>2, <1>3, <1>4, <1>5, <1>6, <1>7, <1>8, <1>9
       DEF Next, Goes, DaemonStep, Nature, StopRows, vars

(* RunInv holds in every state.                                              *)
LEMMA AlwaysRanOnce == Spec => []RunInv
  <1>1. Init => RunInv
    <2>1. RanOnce(Idle)
      BY DEF Idle, NoCommand, RanOnce, IsClient, Fields, Points, Requests
    <2> QED BY <2>1 DEF Init, RunInv
  <1> QED BY <1>1, RunInvStep, PTL DEF Spec

(* A run that the daemon has carried out, or may have, is never run again by  *)
(* the client, whatever became of the answer (cli.go:139-167).                *)
THEOREM RunsAtMostOnce == Spec => []RunAtMostOnce
  <1>1. RunInv => RunAtMostOnce
    <2>1. Cardinality({}) = 0 /\ \A x : Cardinality({x}) = 1
      BY FS_EmptySet, FS_Singleton
    <2> SUFFICES ASSUME NEW r, r \in {{}, {"daemon"}, {"local"}} PROVE Cardinality(r) <= 1
      BY DEF RunInv, RanOnce, RunAtMostOnce
    <2>2. Cardinality(r) \in {0, 1}
      BY <2>1
    <2> QED BY <2>2
  <1> QED BY <1>1, AlwaysRanOnce, PTL
-----------------------------------------------------------------------------
(* What the processes share, for two daemons that are never busy together:    *)
(* only a busy one touches the files by name.                                 *)
Named == {"bind", "pid", "mark", "serve", "restore", "ready"}
Recorded == {"mark", "serve", "restore", "ready"}
Open == {"no", "wait", "final", "stuck"}

(* A Shutdown is one of a process that serves; only when it is over does the  *)
(* process leave.                                                             *)
ShutServes(p) == shut[p] # "no" => Serves(p) \/ (shut[p] = "over" /\ pc[p] = "exited")

(* The socket file and the PID file are those of the process.                 *)
HasFiles(p) ==
  shut[p] \in Open => /\ pc[p] \in Named => socket = p /\ p \in listening
                      /\ pc[p] \in Recorded => pidFile = p

(* How far a Shutdown is with giving back what the process had.               *)
GivesBack(p) ==
  /\ shut[p] \notin {"no", "wait"} /\ job[p] # "none" => late[p]
  /\ shut[p] \in {"port", "files", "over"} => socket # p /\ p \notin listening
  /\ shut[p] \in {"files", "over"} => port # p
  /\ shut[p] = "over" => pidFile # p

(* Processes that are busy together are remembered, and one that never was    *)
(* has its files.                                                             *)
Sharing ==
  /\ overlapped \subseteq Procs
  /\ \A p, q \in Procs : Busy(p) /\ Busy(q) /\ p # q => p \in overlapped /\ q \in overlapped
  /\ \A p \in Procs : ShutServes(p) /\ GivesBack(p)
  /\ \A p \in Procs \ overlapped : HasFiles(p)

(* All the steps of a process but its start.                                  *)
LEMMA StepCases ==
  ASSUME NEW p \in Procs, ProcessStep(p), ~Spawn(p)
  PROVE  \/ CleanUp(p) \/ Listen(p) \/ Bind(p) \/ WritePid(p) \/ MarkStale(p)
         \/ Serve(p) \/ Restored(p)
         \/ Kill(p) \/ Claim(p) \/ Work(p) \/ Complete(p)
         \/ (\E c \in Callers \cup {Main} : Serves(p) /\ BeginShutdown(p, c))
         \/ UNCHANGED processVars
         \/ Drained(p) \/ DrainTimesOut(p) \/ Finalize(p) \/ FinalizeFails(p)
         \/ CloseInternal(p) \/ ClosePort(p) \/ RemoveFiles(p) \/ Leave(p)
  BY DEF ProcessStep, Boots, Works, Signal, Closes, Serves

(* No process becomes busy but by being started.                              *)
LEMMA BusyStep ==
  ASSUME ProcessTypeOK, Sharing, NEW p \in Procs, ProcessStep(p), ~Spawn(p)
  PROVE  \A q \in Procs : Busy(q)' => Busy(q)
  <1> SUFFICES ASSUME NEW q \in Procs PROVE Busy(q)' => Busy(q)
    OBVIOUS
  <1> USE DEF ProcessTypeOK, Busy, Alive, Ended
  <1>1. CASE CleanUp(p) \/ Listen(p) \/ Bind(p) \/ WritePid(p) \/ MarkStale(p)
             \/ Serve(p) \/ Restored(p)
    BY <1>1 DEF CleanUp, Listen, Bind, WritePid, MarkStale, Serve, Restored, At
  <1>2. CASE Claim(p) \/ Work(p) \/ Complete(p) \/ Kill(p) \/ Leave(p)
    BY <1>2 DEF Claim, Work, Complete, Kill, Leave
  <1>3. CASE \E c \in Callers \cup {Main} : BeginShutdown(p, c)
    BY <1>3 DEF BeginShutdown, In
  <1>4. CASE Drained(p) \/ DrainTimesOut(p) \/ Finalize(p) \/ FinalizeFails(p)
             \/ CloseInternal(p) \/ ClosePort(p) \/ RemoveFiles(p)
    BY <1>4 DEF Drained, DrainTimesOut, Finalize, FinalizeFails, CloseInternal,
       ClosePort, RemoveFiles, In
  <1>5. CASE UNCHANGED processVars
    BY <1>5 DEF processVars
  <1> QED BY <1>1, <1>2, <1>3, <1>4, <1>5, StepCases

(* What a step of p does to the other processes: it can take the files away   *)
(* only if p is busy.                                                         *)
LEMMA OthersStep ==
  ASSUME ProcessTypeOK, Sharing, NEW p \in Procs, ProcessStep(p), ~Spawn(p)
  PROVE  /\ \A q \in Procs \ {p} : /\ pc'[q] = pc[q] /\ shut'[q] = shut[q]
                                   /\ job'[q] = job[q] /\ late'[q] = late[q]
                                   /\ q \in listening' <=> q \in listening
         /\ socket' # socket => socket' \in {p, None} /\ Busy(p)
         /\ pidFile' # pidFile => pidFile' \in {p, None} /\ Busy(p)
         /\ port' \in {port, p, None}
  <1> USE DEF ProcessTypeOK, Busy, Alive, Ended
  <1>1. CASE CleanUp(p) \/ Serve(p) \/ Restored(p) \/ WritePid(p)
    BY <1>1 DEF CleanUp, Serve, Restored, WritePid, At, Sharing, ShutServes, Serves
  <1>2. CASE MarkStale(p)
    BY <1>2 DEF MarkStale, At
  <1>3. CASE Listen(p)
    BY <1>3 DEF Listen, At, Sharing, ShutServes, Serves
  <1>4. CASE Bind(p)
    BY <1>4 DEF Bind, At, Sharing, ShutServes, Serves
  <1>5. CASE Claim(p) \/ Work(p) \/ Complete(p) \/ Kill(p)
    BY <1>5 DEF Claim, Work, Complete, Kill
  <1>6. CASE Leave(p)
    BY <1>6 DEF Leave
  <1>7. CASE \E c \in Callers \cup {Main} : BeginShutdown(p, c)
    BY <1>7 DEF BeginShutdown, In
  <1>8. CASE Drained(p) \/ DrainTimesOut(p) \/ Finalize(p) \/ FinalizeFails(p) \/ ClosePort(p)
    BY <1>8 DEF Drained, DrainTimesOut, Finalize, FinalizeFails, ClosePort, In
  <1>9. CASE CloseInternal(p) \/ RemoveFiles(p)
    <2>1. Alive(p) /\ shut[p] # "over"
      BY <1>9 DEF CloseInternal, RemoveFiles, In, Sharing, ShutServes, Serves
    <2> QED BY <1>9, <2>1 DEF CloseInternal, RemoveFiles, In
  <1>10. CASE UNCHANGED processVars
    BY <1>10 DEF processVars
  <1> QED
    BY <1>1, <1>2, <1>3, <1>4, <1>5, <1>6, <1>7, <1>8, <1>9, <1>10, StepCases

(* What a step of p does to itself.                                           *)
LEMMA OwnStep ==
  ASSUME ProcessTypeOK, ProcessConstants, NEW p \in Procs, ShutServes(p), GivesBack(p),
         p \in overlapped \/ HasFiles(p), ProcessStep(p), ~Spawn(p), UNCHANGED overlapped
  PROVE  ShutServes(p)' /\ GivesBack(p)' /\ (p \in overlapped \/ HasFiles(p)')
  <1> USE DEF ProcessTypeOK, ShutServes, GivesBack, HasFiles, Serves, Named, Recorded, Open
  <1>1. CASE CleanUp(p)
    BY <1>1 DEF CleanUp, At
  <1>2. CASE Listen(p)
    BY <1>2 DEF Listen, At
  <1>3. CASE Bind(p)
    BY <1>3 DEF Bind, At
  <1>4. CASE WritePid(p)
    BY <1>4 DEF WritePid, At
  <1>5. CASE MarkStale(p)
    BY <1>5 DEF MarkStale, At
  <1>6. CASE Serve(p) \/ Restored(p)
    BY <1>6 DEF Serve, Restored, At
  <1>7. CASE Kill(p)
    BY <1>7 DEF Kill
  <1>8. CASE Claim(p) \/ Work(p) \/ Complete(p)
    BY ZenonT(40), <1>8 DEF Claim, Work, Complete
  <1>9. CASE \E c \in Callers \cup {Main} : Serves(p) /\ BeginShutdown(p, c)
    BY <1>9 DEF BeginShutdown, In
  <1>10. CASE UNCHANGED processVars
    BY <1>10 DEF processVars
  <1>11. CASE Drained(p) \/ DrainTimesOut(p)
    BY ZenonT(40), <1>11 DEF Drained, DrainTimesOut, In
  <1>12. CASE Finalize(p) \/ FinalizeFails(p)
    BY <1>12 DEF Finalize, FinalizeFails, In
  <1>13. CASE CloseInternal(p) \/ ClosePort(p)
    BY <1>13 DEF CloseInternal, ClosePort, In
  <1>14. CASE RemoveFiles(p)
    BY <1>14 DEF RemoveFiles, In
  <1>15. CASE Leave(p)
    BY <1>15 DEF Leave
  <1> QED
    BY <1>1, <1>2, <1>3, <1>4, <1>5, <1>6, <1>7, <1>8, <1>9, <1>10, <1>11, <1>12, <1>13,
       <1>14, <1>15, StepCases

(* A process that is started beside a busy one is remembered with it.         *)
LEMMA SpawnStep ==
  ASSUME ProcessTypeOK, Sharing, NEW p \in Procs, Spawn(p),
         overlapped' = overlapped \cup (IF BusyProcs = {} THEN {} ELSE BusyProcs \cup {p})
  PROVE  Sharing'
  <1> USE DEF Spawn, At
  <1>1. overlapped \subseteq overlapped' /\ overlapped' \subseteq Procs
    BY DEF Sharing, BusyProcs
  <1>2. \A q \in Procs \ {p} : Busy(q)' => Busy(q)
    BY DEF Busy, Alive, ProcessTypeOK
  <1>3. ASSUME NEW q \in Procs, Busy(q), q # p
        PROVE  {p, q} \subseteq overlapped'
    BY <1>3 DEF BusyProcs
  <1>4. \A q \in Procs : ShutServes(q)' /\ GivesBack(q)'
    BY DEF Sharing, ShutServes, GivesBack, Serves, ProcessTypeOK
  <1>5. \A q \in Procs \ overlapped' : HasFiles(q)'
    BY <1>1 DEF Sharing, HasFiles, ProcessTypeOK, Named, Recorded
  <1> QED BY <1>1, <1>2, <1>3, <1>4, <1>5 DEF Sharing

(* Every other step: those not remembered keep their files, because a process *)
(* beside them is not busy.                                                   *)
LEMMA SharingStep ==
  ASSUME ProcessTypeOK, Sharing, NEW p \in Procs, ProcessStep(p), ~Spawn(p),
         UNCHANGED overlapped
  PROVE  Sharing'
  <1>1. ShutServes(p)' /\ GivesBack(p)' /\ (p \in overlapped \/ HasFiles(p)')
    BY OwnStep, ProcessConstants DEF Sharing
  <1>2. ASSUME NEW q \in Procs, q # p
        PROVE  ShutServes(q)' /\ GivesBack(q)' /\ (q \in overlapped \/ HasFiles(q)')
    <2>1. ShutServes(q) /\ GivesBack(q) /\ (q \in overlapped \/ HasFiles(q))
      BY DEF Sharing
    <2>2. ShutServes(q)' /\ GivesBack(q)'
      BY <1>2, <2>1, OthersStep, ProcessConstants DEF ShutServes, GivesBack, Serves
    <2>3. ASSUME q \notin overlapped, shut[q] \in Open, pc[q] \in Named
          PROVE  socket' = socket /\ pidFile' = pidFile
      <3>1. Busy(q)
        BY <2>3 DEF Busy, Alive, Ended, Open, Named
      <3>2. ~Busy(p)
        BY <1>2, <2>3, <3>1 DEF Sharing
      <3> QED BY <3>2, OthersStep
    <2> QED BY <1>2, <2>1, <2>2, <2>3, OthersStep DEF HasFiles, Named, Recorded
  <1>3. \A q, r \in Procs : Busy(q)' /\ Busy(r)' /\ q # r => q \in overlapped /\ r \in overlapped
    BY BusyStep DEF Sharing
  <1>4. \A q \in Procs : ShutServes(q)' /\ GivesBack(q)' /\ (q \in overlapped \/ HasFiles(q)')
    BY <1>1, <1>2
  <1> QED BY <1>3, <1>4 DEF Sharing

(* Nothing is left of a process that has said so.                             *)
Returned(p) ==
  /\ p \in Procs /\ p \notin {socket, port, pidFile} \cup listening
  /\ job[p] # "none" => late[p]
  /\ shut[p] = "over" \/ pc[p] \in {"exited", "killed"}

(* It gets nothing back later, killed or not, whatever starts beside it.      *)
LEMMA ReturnedStep ==
  ASSUME ProcessTypeOK, Sharing, NEW p \in Procs, Returned(p), NEW q \in Procs, ProcessStep(q)
  PROVE  Returned(p)'
  <1>1. CASE q # p
    <2>1. CASE Spawn(q)
      BY <1>1, <2>1 DEF Spawn, At, Returned, ProcessTypeOK
    <2>2. CASE ~Spawn(q)
      BY <1>1, <2>2, OthersStep, ProcessConstants DEF Returned
    <2> QED BY <2>1, <2>2
  <1>2. CASE q = p
    <2>1. ShutServes(p) /\ (shut[p] = "over" \/ pc[p] \in {"exited", "killed"})
      BY DEF Sharing, Returned
    <2>2. ~(CleanUp(p) \/ Listen(p) \/ Bind(p) \/ WritePid(p) \/ MarkStale(p) \/ Serve(p))
      BY <2>1 DEF CleanUp, Listen, Bind, WritePid, MarkStale, Serve, At, ShutServes, Serves
    <2>3. ~Spawn(p) /\ ~Claim(p) /\ ~(\E c \in Callers \cup {Main} : Serves(p) /\ BeginShutdown(p, c))
      BY <2>1 DEF Spawn, At, Claim, Serves, BeginShutdown, In, ShutServes
    <2>4. ~(Drained(p) \/ DrainTimesOut(p) \/ Finalize(p) \/ FinalizeFails(p)
            \/ CloseInternal(p) \/ ClosePort(p) \/ RemoveFiles(p))
      BY <2>1 DEF Drained, DrainTimesOut, Finalize, FinalizeFails, CloseInternal, ClosePort,
         RemoveFiles, In, ShutServes, Serves
    <2>5. CASE Restored(p)
      BY <2>5 DEF Restored, At, Returned, ProcessTypeOK, Sharing, ShutServes, Serves
    <2>6. CASE Kill(p)
      BY <2>6, ProcessConstants DEF Kill, Returned, ProcessTypeOK
    <2>7. CASE Work(p) \/ Complete(p)
      BY <2>7 DEF Work, Complete, Returned, ProcessTypeOK
    <2>8. CASE Leave(p)
      BY <2>8, ProcessConstants DEF Leave, Returned, ProcessTypeOK
    <2>9. CASE UNCHANGED processVars
      BY <2>9 DEF processVars, Returned
    <2> QED BY <1>2, <2>2, <2>3, <2>4, <2>5, <2>6, <2>7, <2>8, <2>9, StepCases
  <1> QED BY <1>1, <1>2
-----------------------------------------------------------------------------
(* A step of the composition is one of a process, in which a start remembers  *)
(* who is busy, or touches no process.                                        *)
LEMMA ComposedStep ==
  ASSUME ProcessTypeOK, [Next]_vars
  PROVE  \/ UNCHANGED <<processVars, overlapped>>
         \/ \E p \in Procs :
              /\ ProcessStep(p)
              /\ \/ ~Spawn(p) /\ UNCHANGED overlapped
                 \/ /\ Spawn(p)
                    /\ overlapped' = overlapped \cup
                         (IF BusyProcs = {} THEN {} ELSE BusyProcs \cup {p})
  <1> DEFINE Stays == UNCHANGED <<processVars, overlapped>>
             Moves == \E p \in Procs :
               /\ ProcessStep(p)
               /\ \/ ~Spawn(p) /\ UNCHANGED overlapped
                  \/ /\ Spawn(p)
                     /\ overlapped' = overlapped \cup
                          (IF BusyProcs = {} THEN {} ELSE BusyProcs \cup {p})
  <1>1. ASSUME NEW c \in Clients, Begin(c) \/ Dial(c) \/ Reset(c) \/ Lost(c) \/ Handle(c)
                                  \/ Poll(c) \/ Conclude(c) \/ Mutate(c) \/ Run(c) \/ RunLocally(c)
        PROVE  Stays
    BY <1>1 DEF Begin, Dial, Reset, Lost, Handle, Poll, Conclude, Mutate, Run, RunLocally, Keep,
       ProcessKept
  <1>2. ASSUME NEW c \in Clients, HandleShutdown(c)
        PROVE  Stays \/ Moves
    <2>1. PICK p \in Procs : Serves(p) /\ (BeginShutdown(p, c) \/ ProcessKept)
      BY <1>2 DEF HandleShutdown
    <2>2. UNCHANGED overlapped
      BY <1>2 DEF HandleShutdown, Keep
    <2>3. CASE BeginShutdown(p, c)
      <3>1. ProcessStep(p)
        BY <2>1, <2>3, CliConstants DEF ProcessStep, CliConstants
      <3>2. ~Spawn(p)
        BY <2>1 DEF Spawn, At, Serves
      <3> QED BY <2>2, <3>1, <3>2
    <2> QED BY <2>1, <2>2, <2>3 DEF ProcessKept
  <1>3. ASSUME NEW c \in Clients, CheckRunning(c)
        PROVE  Stays \/ Moves
    BY <1>3 DEF CheckRunning, ProcessKept, ProcessStep
  <1>4. ASSUME NEW p \in Procs, DaemonStep(p) \/ Nature(p)
        PROVE  Moves
    <2>1. ProcessStep(p) /\ UNCHANGED overlapped
      BY <1>4, DaemonKeepsProcess DEF DaemonStep, Nature, ShutdownReturns, StopRows, Keep
    <2>2. Spawn(p) => pc[p] = "off" /\ pc'[p] = "clean"
      BY DEF Spawn, At, ProcessTypeOK
    <2>3. Boots(p) \/ Leave(p) \/ Kill(p) => ~Spawn(p)
      BY <2>2 DEF Boots, CleanUp, Listen, Bind, WritePid, MarkStale, Serve, Restored, At,
         Leave, Kill, ProcessTypeOK
    <2>4. UNCHANGED pc => ~Spawn(p)
      BY <2>2
    <2>5. ASSUME Drained(p) \/ Closes(p) \/ ShutdownReturns(p) \/ StopRows(p) \/ Works(p)
                 \/ Signal(p)
          PROVE  ~Spawn(p)
      <3>1. UNCHANGED pc
        BY <2>5 DEF Drained, Closes, CloseInternal, ClosePort, ShutdownReturns, DrainTimesOut,
           FinalizeFails, RemoveFiles, StopRows, Finalize, Works, Claim, Work, Complete, Signal,
           BeginShutdown, processVars
      <3> QED BY <2>4, <3>1
    <2> QED BY <1>4, <2>1, <2>3, <2>5 DEF DaemonStep, Nature
  <1>5. CASE UNCHANGED vars
    BY <1>5 DEF vars, processVars
  <1> QED BY SMTT(30), <1>1, <1>2, <1>3, <1>4, <1>5 DEF Next, Goes

(* The inductive invariant of the processes and their files.                  *)
SharedInv == LockInv /\ Sharing

(* SharedInv is inductive.                                                    *)
LEMMA SharedStep == SharedInv /\ [Next]_vars => SharedInv'
  <1> SUFFICES ASSUME SharedInv, [Next]_vars PROVE SharedInv'
    OBVIOUS
  <1> USE DEF SharedInv
  <1>1. ProcessTypeOK
    BY DEF LockInv
  <1>2. CASE UNCHANGED <<processVars, overlapped>>
    BY <1>2, LockStep DEF Sharing, ShutServes, GivesBack, HasFiles, Serves, Busy, Alive, processVars
  <1>3. ASSUME NEW p \in Procs, ProcessStep(p), ~Spawn(p) /\ UNCHANGED overlapped
        PROVE  SharedInv'
    BY <1>1, <1>3, LockStep, SharingStep DEF ProcessNext
  <1>4. ASSUME NEW p \in Procs, ProcessStep(p), Spawn(p),
               overlapped' = overlapped \cup (IF BusyProcs = {} THEN {} ELSE BusyProcs \cup {p})
        PROVE  SharedInv'
    BY <1>1, <1>4, LockStep, SpawnStep DEF ProcessNext
  <1> QED BY <1>1, <1>2, <1>3, <1>4, ComposedStep

(* At first at most one process is there, and nothing was busy with it.       *)
LEMMA SharedInit == Init => SharedInv
  <1> SUFFICES ASSUME Init PROVE SharedInv
    OBVIOUS
  <1>1. PICK up \in Procs \cup {None} : ProcessInit(up)
    BY DEF Init
  <1>2. LockInv
    BY <1>1, InitLocked
  <1>3. Sharing
    BY <1>1, ProcessConstants DEF Init, ProcessInit, Sharing, ShutServes, GivesBack, HasFiles,
       Busy, Alive, Ended, Open, Named, Recorded
  <1> QED BY <1>2, <1>3 DEF SharedInv

(* SharedInv holds in every state of the composition.                         *)
LEMMA AlwaysShared == Spec => []SharedInv
  BY SharedInit, SharedStep, PTL DEF Spec

(* A daemon that serves can be reached: the socket file and the PID file are  *)
(* its own, whatever was killed or stopped before it or beside it, except for *)
(* daemons that were busy together (daemon.go:107, 116, 217, cli.go:448-470). *)
THEOREM ServingIsReachableHolds == Spec => []ServingIsReachable
  <1>1. SharedInv => ServingIsReachable
    BY DEF SharedInv, Sharing, HasFiles, ServingIsReachable, Serves, Named, Recorded, Open
  <1> QED BY <1>1, AlwaysShared, PTL
-----------------------------------------------------------------------------
(* Where a client is: only a "daemon stop" asks for a Shutdown, and when the  *)
(* answer to it is ok, the process that gave it is one that has returned.     *)
StopOK(r, returned) ==
  /\ IsClient(r) /\ r.at \in Points /\ r.to \in Procs \cup {None}
  /\ r.at = "waiting" => r.req = "shutdown"
  /\ r.at = "local" => r.cmd.do = "run"
  /\ r.cmd.do = "daemonStop" /\ r.at # "idle" => r.req = "shutdown"
  /\ r.at = "answered" /\ r.req = "shutdown" /\ r.ans = "ok" => r.to \in returned
  /\ r.at = "idle" /\ r.cmd.do = "daemonStop" /\ r.out = "ok" => r.to \in returned

AllReturned == {p \in Procs : Returned(p)}
StopInv == /\ client = [c \in Clients |-> client[c]]
           /\ \A c \in Clients : StopOK(client[c], AllReturned)

(* What a process has said stays true.                                        *)
LEMMA SaidStays ==
  ASSUME SharedInv, [Next]_vars
  PROVE  AllReturned \subseteq AllReturned'
  <1>1. CASE UNCHANGED <<processVars, overlapped>>
    BY <1>1 DEF AllReturned, Returned, processVars
  <1>2. ASSUME NEW q \in Procs, ProcessStep(q), NEW p \in Procs, Returned(p)
        PROVE  Returned(p)'
    BY <1>2, ReturnedStep DEF SharedInv, LockInv
  <1> QED BY <1>1, <1>2, ComposedStep DEF SharedInv, LockInv, AllReturned

(* A change to one client that leaves it so keeps StopInv.                    *)
LEMMA OneStops ==
  ASSUME StopInv, AllReturned \subseteq AllReturned', NEW c \in Clients,
         NEW r, StopOK(r, AllReturned'), client' = [client EXCEPT ![c] = r]
  PROVE  StopInv'
  <1>1. client' = [d \in Clients |-> IF d = c THEN r ELSE client[d]]
    BY DEF StopInv
  <1>2. client' = [d \in Clients |-> client'[d]]
    BY <1>1
  <1>3. ASSUME NEW d \in Clients, d # c
        PROVE  StopOK(client[d], AllReturned')
    BY DEF StopInv, StopOK
  <1>4. \A d \in Clients : StopOK(client'[d], AllReturned')
    BY <1>1, <1>3
  <1> QED BY <1>2, <1>4 DEF StopInv

(* StopInv is inductive.                                                      *)
LEMMA StopStep ==
  ASSUME StopInv, SharedInv, SharedInv', [Next]_vars
  PROVE  StopInv'
  <1>1. AllReturned \subseteq AllReturned'
    BY SaidStays
  <1>2. \A c \in Clients : StopOK(client[c], AllReturned)
    BY DEF StopInv
  <1>3. socket \in Procs \cup {None}
    BY DEF SharedInv, LockInv, ProcessTypeOK
  <1>4. ASSUME NEW c \in Clients, NEW r, client' = [client EXCEPT ![c] = r],
               StopOK(r, AllReturned)
        PROVE  StopInv'
    <2>1. StopOK(r, AllReturned')
      BY <1>1, <1>4 DEF StopOK
    <2> QED BY <1>1, <1>4, <2>1, OneStops
  <1>5. ASSUME NEW c \in Clients, Begin(c)
        PROVE  StopInv'
    <2>1. PICK cmd \in menu :
            client' = [client EXCEPT ![c] =
              [Idle EXCEPT !.cmd = cmd,
                 !.req = FirstCall(cmd),
                 !.at = IF cmd.do = "run" /\ cmd.arg = << >> THEN "local"
                        ELSE IF cmd.do = "start" /\ ForcedTarget(cmd) = NoTarget THEN "idle"
                        ELSE "call",
                 !.out = IF cmd.do = "start" /\ ForcedTarget(cmd) = NoTarget
                         THEN "failed" ELSE "none"]]
      BY <1>5 DEF Begin
    <2> DEFINE at == IF cmd.do = "run" /\ cmd.arg = << >> THEN "local"
                     ELSE IF cmd.do = "start" /\ ForcedTarget(cmd) = NoTarget THEN "idle"
                     ELSE "call"
               out == IF cmd.do = "start" /\ ForcedTarget(cmd) = NoTarget
                      THEN "failed" ELSE "none"
               r == [Idle EXCEPT !.cmd = cmd, !.req = FirstCall(cmd), !.at = at, !.out = out]
    <2>2. cmd.do = "daemonStop" => FirstCall(cmd) = "shutdown"
      BY DEF FirstCall
    <2>3. at \in {"local", "idle", "call"} /\ (at = "local" => cmd.do = "run") /\ out # "ok"
      OBVIOUS
    <2>4. client' = [client EXCEPT ![c] = r]
      BY <2>1
    <2> HIDE DEF at, out
    <2>5. /\ IsClient(r) /\ r.at = at /\ r.to = None /\ r.req = FirstCall(cmd) /\ r.cmd = cmd
          /\ r.out = out
      BY DEF Idle, IsClient, Fields
    <2> HIDE DEF r
    <2>6. StopOK(r, AllReturned)
      BY <2>2, <2>3, <2>5 DEF StopOK, Points
    <2> QED BY <1>4, <2>4, <2>6
  <1>6. ASSUME NEW c \in Clients, Dial(c) \/ Reset(c) \/ Lost(c)
        PROVE  StopInv'
    <2>1. ASSUME NEW to \in Procs \cup {None}, NEW at \in {"sent", "answered"},
                 NEW ans, ans # "ok" \/ at = "sent",
                 client' = [client EXCEPT ![c].at = at, ![c].to = to, ![c].ans = ans],
                 client[c].at # "idle"
          PROVE  StopInv'
      <3> DEFINE r == [client[c] EXCEPT !.at = at, !.to = to, !.ans = ans]
      <3>1. client' = [client EXCEPT ![c] = r]
        BY <2>1 DEF StopInv
      <3>2. /\ IsClient(r) /\ r.at = at /\ r.to = to /\ r.ans = ans /\ r.cmd = client[c].cmd
            /\ r.req = client[c].req
        BY <1>2 DEF StopOK, IsClient, Fields
      <3> HIDE DEF r
      <3>3. StopOK(r, AllReturned)
        BY <1>2, <2>1, <3>2 DEF StopOK, Points
      <3> QED BY <1>4, <3>1, <3>3
    <2>2. client[c].at # "idle" /\ client[c].to \in Procs \cup {None}
      BY <1>2, <1>6 DEF Dial, Reset, Lost, At_, StopOK
    <2>3. ASSUME NEW ans, client' = [client EXCEPT ![c].at = "answered", ![c].ans = ans]
          PROVE  client' = [client EXCEPT ![c].at = "answered", ![c].to = client[c].to,
                                          ![c].ans = ans]
      <3>1. IsClient(client[c])
        BY <1>2 DEF StopOK
      <3> QED BY <2>3, <3>1 DEF StopInv, IsClient, Fields
    <2>4. ASSUME client' = [client EXCEPT ![c].at = "sent", ![c].to = socket]
          PROVE  client' = [client EXCEPT ![c].at = "sent", ![c].to = socket,
                                          ![c].ans = client[c].ans]
      <3>1. IsClient(client[c])
        BY <1>2 DEF StopOK
      <3> QED BY <2>4, <3>1 DEF StopInv, IsClient, Fields
    <2>5. ASSUME NEW ans \in {"notRunning", "error"},
                 client' = [client EXCEPT ![c].at = "answered", ![c].ans = ans]
          PROVE  StopInv'
      <3> DEFINE to == client[c].to
      <3>1. client' = [client EXCEPT ![c].at = "answered", ![c].to = to, ![c].ans = ans]
        BY <2>3, <2>5
      <3>2. to \in Procs \cup {None} /\ ans # "ok" /\ client[c].at # "idle"
        BY <2>2
      <3> HIDE DEF to
      <3> QED BY <2>1, <3>1, <3>2
    <2>6. ASSUME client' = [client EXCEPT ![c].at = "sent", ![c].to = socket]
          PROVE  StopInv'
      <3> DEFINE ans == client[c].ans
      <3>1. client' = [client EXCEPT ![c].at = "sent", ![c].to = socket, ![c].ans = ans]
        BY <2>4, <2>6
      <3> HIDE DEF ans
      <3> QED BY <1>3, <2>1, <2>2, <3>1
    <2> QED BY <1>6, <2>5, <2>6 DEF Dial, Reset, Lost
  <1>7. ASSUME NEW c \in Clients, Handle(c)
        PROVE  StopInv'
    <2> DEFINE chosen == SelectWorkflowID(rows, client[c].cmd.arg)
               answer(ans) == IF ans = "ok" /\ client[c].req = "list" THEN chosen.kind ELSE ans
               found == IF client[c].req = "list" THEN chosen.id ELSE client[c].found
    <2>1. PICK o \in Outcomes(c) : \E ans \in {o.ans, "error"} :
            client' = [client EXCEPT ![c].at = "answered", ![c].ans = answer(ans),
               ![c].found = IF client[c].req = "list" THEN chosen.id ELSE @,
               ![c].acted = o.acted, ![c].ran = @ \cup o.ran]
      BY ZenonT(40), <1>7 DEF Handle
    <2>2. PICK ans \in {o.ans, "error"} :
            client' = [client EXCEPT ![c].at = "answered", ![c].ans = answer(ans),
               ![c].found = IF client[c].req = "list" THEN chosen.id ELSE @,
               ![c].acted = o.acted, ![c].ran = @ \cup o.ran]
      BY <2>1
    <2> DEFINE r == [client[c] EXCEPT !.at = "answered", !.ans = answer(ans),
                              !.found = found, !.acted = o.acted, !.ran = @ \cup o.ran]
    <2>3. client[c].at = "sent" /\ client[c].req # "shutdown"
      BY <1>7 DEF Handle, At_
    <2> HIDE DEF answer, chosen
    <2>4. client' = [client EXCEPT ![c] = r]
      BY <2>2 DEF StopInv
    <2> HIDE DEF found
    <2>5. /\ IsClient(r) /\ r.at = "answered" /\ r.to = client[c].to /\ r.cmd = client[c].cmd
          /\ r.req = client[c].req
      BY ZenonT(40), <1>2 DEF StopOK, IsClient, Fields
    <2> HIDE DEF r
    <2>6. StopOK(r, AllReturned)
      BY <1>2, <2>3, <2>5 DEF StopOK, Points
    <2> QED BY <1>4, <2>4, <2>6
  <1>8. ASSUME NEW c \in Clients, HandleShutdown(c)
        PROVE  StopInv'
    <2>1. client[c].at = "sent" /\ client[c].req = "shutdown" /\ StopOK(client[c], AllReturned)
      BY <1>2, <1>8 DEF HandleShutdown, At_
    <2>2. CASE client' = [client EXCEPT ![c].at = "waiting"]
      <3> DEFINE r == [client[c] EXCEPT !.at = "waiting"]
      <3>1. client' = [client EXCEPT ![c] = r]
        BY <2>2 DEF StopInv
      <3>2. StopOK(r, AllReturned)
        BY <2>1 DEF StopOK, IsClient, Fields, Points
      <3> QED BY <1>4, <3>1, <3>2
    <2>3. CASE client' = [client EXCEPT ![c].at = "answered", ![c].ans = "refused"]
      <3> DEFINE r == [client[c] EXCEPT !.at = "answered", !.ans = "refused"]
      <3>1. client' = [client EXCEPT ![c] = r]
        BY <2>3 DEF StopInv
      <3>2. StopOK(r, AllReturned)
        BY <2>1 DEF StopOK, IsClient, Fields, Points
      <3> QED BY <1>4, <3>1, <3>2
    <2> QED BY <1>8, <2>2, <2>3 DEF HandleShutdown
  <1>9. ASSUME NEW c \in Clients, client[c].at = "answered", NEW req,
               client[c].cmd.do # "daemonStop", Ask(c, req)
        PROVE  StopInv'
    <2> DEFINE r == [client[c] EXCEPT !.at = "call", !.req = req, !.to = None, !.ans = "none"]
    <2>1. client' = [client EXCEPT ![c] = r]
      BY <1>9 DEF StopInv, Ask
    <2>2. StopOK(r, AllReturned)
      BY ZenonT(40), <1>2, <1>9 DEF StopOK, IsClient, Fields, Points
    <2> QED BY <1>4, <2>1, <2>2
  <1>10. ASSUME NEW c \in Clients, client[c].at = "answered", NEW result,
                client[c].cmd.do = "daemonStop" /\ result = "ok" => client[c].ans = "ok",
                Done(c, result)
         PROVE  StopInv'
    <2> DEFINE r == [client[c] EXCEPT !.at = "idle", !.req = "none", !.out = result]
    <2>1. client' = [client EXCEPT ![c] = r]
      BY <1>10 DEF StopInv, Done
    <2>2. /\ IsClient(r) /\ r.at = "idle" /\ r.to = client[c].to /\ r.cmd = client[c].cmd
          /\ r.out = result
      BY <1>2 DEF StopOK, IsClient, Fields
    <2> HIDE DEF r
    <2>3. StopOK(r, AllReturned)
      BY <1>2, <1>10, <2>2 DEF StopOK, Points
    <2> QED BY <1>4, <2>1, <2>3
  <1>11. ASSUME NEW c \in Clients, CheckRunning(c) \/ Poll(c)
         PROVE  StopInv'
    BY <1>9, <1>10, <1>11 DEF CheckRunning, Poll, Answered, At_
  <1>12. ASSUME NEW c \in Clients, Conclude(c)
         PROVE  StopInv'
    <2>1. /\ client[c].at = "answered"
          /\ Done(c, IF client[c].ans = "ok" THEN "ok" ELSE "failed")
      BY <1>12 DEF Conclude, Answered, At_
    <2> QED BY <1>10, <2>1
  <1>13. ASSUME NEW c \in Clients, Mutate(c)
         PROVE  StopInv'
    BY <1>9, <1>10, <1>13 DEF Mutate, Answered, At_
  <1>14. ASSUME NEW c \in Clients, Run(c)
         PROVE  StopInv'
    <2>1. client[c].at = "answered" /\ client[c].cmd.do = "run"
      BY <1>14 DEF Run, Answered, At_
    <2>2. CASE client' = [client EXCEPT ![c].at = "local"]
      <3> DEFINE r == [client[c] EXCEPT !.at = "local"]
      <3>1. client' = [client EXCEPT ![c] = r]
        BY <2>2 DEF StopInv
      <3>2. StopOK(r, AllReturned)
        BY <1>2, <2>1 DEF StopOK, IsClient, Fields, Points
      <3> QED BY <1>4, <3>1, <3>2
    <2> QED BY <1>9, <1>10, <1>14, <2>1, <2>2 DEF Run
  <1>15. ASSUME NEW c \in Clients, RunLocally(c)
         PROVE  StopInv'
    <2> DEFINE target == LocalTarget(client[c].cmd)
               ran == IF target = NoTarget THEN client[c].ran
                      ELSE client[c].ran \cup {"local"}
               out == IF target = NoTarget THEN "failed" ELSE "ok"
               r == [client[c] EXCEPT !.at = "idle", !.entry = target.entry, !.ran = ran,
                                      !.out = out]
    <2>1. client[c].at = "local"
      BY <1>15 DEF RunLocally, At_
    <2>2. client' = [client EXCEPT ![c] = r]
      BY <1>15 DEF RunLocally, StopInv
    <2> HIDE DEF ran, out
    <2>3. IsClient(r) /\ r.at = "idle" /\ r.to = client[c].to /\ r.cmd = client[c].cmd
      BY <1>2 DEF StopOK, IsClient, Fields
    <2> HIDE DEF r
    <2>4. StopOK(r, AllReturned)
      BY <1>2, <2>1, <2>3 DEF StopOK, Points
    <2> QED BY <1>4, <2>2, <2>4
  <1>16. ASSUME NEW p \in Procs, ShutdownReturns(p)
         PROVE  StopInv'
    <2>1. PICK ans : Returns(p, ans) /\ (ans = "ok" => RemoveFiles(p))
      BY <1>16 DEF ShutdownReturns
    <2>2. ans = "ok" => p \in AllReturned'
      <3> SUFFICES ASSUME RemoveFiles(p) PROVE Returned(p)'
        BY <2>1 DEF AllReturned
      <3>1. shut'[p] = "over"
        BY DEF RemoveFiles, In, SharedInv, LockInv, ProcessTypeOK
      <3>2. GivesBack(p)'
        BY DEF SharedInv, Sharing
      <3> QED BY <3>1, <3>2 DEF GivesBack, Returned
    <2>3. \A c \in Clients : StopOK(client'[c], AllReturned')
      <3> SUFFICES ASSUME NEW c \in Clients PROVE StopOK(client'[c], AllReturned')
        OBVIOUS
      <3>0. StopOK(client[c], AllReturned')
        BY <1>1, <1>2 DEF StopOK
      <3>1. CASE c = closer[p] /\ client[c].at = "waiting" /\ client[c].to = p
        <4>1. client'[c] = [client[c] EXCEPT !.at = "answered", !.ans = ans]
          BY <2>1, <3>1 DEF Returns
        <4>2. /\ IsClient(client'[c]) /\ client'[c].at = "answered" /\ client'[c].ans = ans
              /\ client'[c].to = p /\ client'[c].req = client[c].req
              /\ client'[c].cmd = client[c].cmd
          BY <3>0, <3>1, <4>1 DEF StopOK, IsClient, Fields
        <4> QED BY <2>2, <3>0, <3>1, <4>2 DEF StopOK, Points
      <3>2. CASE ~(c = closer[p] /\ client[c].at = "waiting" /\ client[c].to = p)
        BY <2>1, <3>0, <3>2 DEF Returns
      <3> QED BY <3>1, <3>2
    <2>4. client' = [c \in Clients |-> client'[c]]
      BY <2>1 DEF Returns
    <2> QED BY <2>3, <2>4 DEF StopInv
  <1>17. CASE UNCHANGED client
    BY <1>1, <1>17 DEF StopInv, StopOK
  <1> QED
    BY <1>5, <1>6, <1>7, <1>8, <1>11, <1>12, <1>13, <1>14, <1>15, <1>16, <1>17
       DEF Next, Goes, DaemonStep, Nature, StopRows, vars

(* StopInv holds in every state.                                              *)
LEMMA AlwaysStopOK == Spec => []StopInv
  <1>1. Init => StopInv
    <2>1. StopOK(Idle, AllReturned)
      BY DEF Idle, NoCommand, StopOK, IsClient, Fields, Points
    <2> QED BY <2>1 DEF Init, StopInv
  <1>2. StopInv /\ SharedInv /\ SharedInv' /\ [Next]_vars => StopInv'
    BY StopStep
  <1> QED BY <1>1, <1>2, AlwaysShared, PTL DEF Spec

(* When "daemon stop" says so, the daemon it called works on nothing that its *)
(* Shutdown could wait for, and has given back the port and its files, and    *)
(* never has them again (daemon.go:166-222, api.go:165-177).                  *)
THEOREM StoppedMeansStoppedHolds == Spec => []StoppedMeansStopped
  <1>1. StopInv => StoppedMeansStopped
    BY DEF StopInv, StopOK, AllReturned, Returned, StoppedMeansStopped
  <1> QED BY <1>1, AlwaysStopOK, PTL
-----------------------------------------------------------------------------
(* Selectors.  An id is a sequence of digits.                                 *)
IsPlain(text) == text \in Seq(STRING) /\ \A k \in DOMAIN text : Plain(text[k])

(* A prefix is made of the digits of the id.                                  *)
LEMMA PrefixIsPlain ==
  ASSUME NEW text, IsPlain(text), NEW Chars, NEW selector \in Seq(Chars), IsPrefix(selector, text)
  PROVE  IsPlain(selector) /\ \A k \in 1..Len(selector) : selector[k] = text[k]
  <1>1. /\ Len(selector) <= Len(text)
        /\ SubSeq(selector, 1, Len(selector)) = SubSeq(text, 1, Len(selector))
    BY DEF IsPrefix
  <1>2. ASSUME NEW k \in 1..Len(selector)
        PROVE  selector[k] = text[k] /\ k \in DOMAIN text
    <2>1. SubSeq(selector, 1, Len(selector))[k] = selector[k]
      OBVIOUS
    <2>2. SubSeq(text, 1, Len(selector))[k] = text[k]
      BY <1>1 DEF IsPlain
    <2> QED BY <1>1, <2>1, <2>2 DEF IsPlain
  <1> QED BY <1>2 DEF IsPlain

(* What LIKE makes of a pattern that begins with n characters of its own.     *)
LEMMA LikeMatches ==
  ASSUME NEW n \in Nat, NEW pattern, Len(pattern) = n + 1,
         \A k \in 1..n : pattern[k] \notin {AnyText, AnyChar}, pattern[n + 1] = AnyText,
         NEW text \in Seq(STRING)
  PROVE  CharsLike(pattern, text)
           <=> n <= Len(text) /\ \A k \in 1..n : Lower(pattern[k]) = Lower(text[k])
  <1>1. Len(text) \in Nat /\ Len(pattern) + 1 = n + 2
    OBVIOUS
  <1>2. ASSUME CharsLike(pattern, text), NEW k \in 1..n
        PROVE  k <= Len(text) /\ Lower(pattern[k]) = Lower(text[k])
    <2>1. PICK before \in [1..(n + 2) -> 0..Len(text)] :
            /\ before[1] = 0
            /\ \A j \in 1..(n + 1) :
                 \/ pattern[j] \in {AnyText, AnyChar}
                 \/ before[j] < Len(text) /\ Lower(pattern[j]) = Lower(text[before[j] + 1])
            /\ \A j \in 1..(n + 1), l \in 2..(n + 2) : j < l =>
                 IF \E m \in j..(l - 1) : pattern[m] = AnyText
                   THEN before[j] <= before[l] ELSE before[l] - before[j] = l - j
      BY ZenonT(40), <1>1, <1>2 DEF CharsLike
    <2>2. before[k] = k - 1
      <3>1. CASE k = 1
        BY <2>1, <3>1
      <3>2. CASE k # 1
        <4>1. ~ \E m \in 1..(k - 1) : pattern[m] = AnyText
          OBVIOUS
        <4>2. 1 \in 1..(n + 1) /\ k \in 2..(n + 2) /\ 1 < k
          BY <3>2
        <4>3. before[k] - before[1] = k - 1
          BY <2>1, <4>1, <4>2
        <4>4. before[k] \in Int
          BY <1>1, <4>2
        <4> QED BY <2>1, <4>3, <4>4
      <3> QED BY <3>1, <3>2
    <2>3. before[k] < Len(text) /\ Lower(pattern[k]) = Lower(text[before[k] + 1])
      BY <2>1
    <2>4. before[k] + 1 = k
      BY <2>2
    <2> QED BY <1>1, <2>3, <2>4
  <1>3. ASSUME n <= Len(text), \A k \in 1..n : Lower(pattern[k]) = Lower(text[k])
        PROVE  CharsLike(pattern, text)
    <2> DEFINE before == [k \in 1..(n + 2) |-> IF k = n + 2 THEN Len(text) ELSE k - 1]
    <2>1. before \in [1..(n + 2) -> 0..Len(text)] /\ before[1] = 0 /\ before[n + 2] = Len(text)
      BY <1>1, <1>3
    <2>2. ASSUME NEW k \in 1..(n + 1)
          PROVE  \/ pattern[k] \in {AnyText, AnyChar}
                 \/ before[k] < Len(text) /\ Lower(pattern[k]) = Lower(text[before[k] + 1])
      <3>1. CASE k = n + 1
        BY <3>1
      <3>2. CASE k # n + 1
        <4>1. k \in 1..n /\ before[k] = k - 1 /\ before[k] + 1 = k
          BY <3>2
        <4> HIDE DEF before
        <4> QED BY <1>1, <1>3, <4>1
      <3> QED BY <3>1, <3>2
    <2>3. ASSUME NEW k \in 1..(n + 1), NEW l \in 2..(n + 2), k < l
          PROVE  IF \E m \in k..(l - 1) : pattern[m] = AnyText
                   THEN before[k] <= before[l] ELSE before[l] - before[k] = l - k
      <3>1. CASE l = n + 2
        <4>1. n + 1 \in k..(l - 1)
          BY <3>1
        <4>2. before[k] <= before[l]
          BY <1>1, <1>3, <3>1
        <4> HIDE DEF before
        <4> QED BY <4>1, <4>2
      <3>2. CASE l # n + 2
        <4>1. before[k] = k - 1 /\ before[l] = l - 1
          BY <2>3, <3>2
        <4> HIDE DEF before
        <4> QED BY <2>3, <4>1
      <3> QED BY <3>1, <3>2
    <2> HIDE DEF before
    <2> QED BY ZenonT(40), <1>1, <2>1, <2>2, <2>3 DEF CharsLike
  <1> QED BY <1>1, <1>2, <1>3

(* On digits of ids the search with LIKE is one for a prefix.                 *)
LEMMA LikeIsPrefix ==
  ASSUME NEW text, IsPlain(text), NEW selector, IsPlain(selector)
  PROVE  BeginsLike(text, selector) <=> IsPrefix(selector, text)
  <1> DEFINE pattern == selector \o <<AnyText>>
             n == Len(selector)
  <1>1. /\ selector \in Seq(STRING) /\ n \in Nat /\ DOMAIN selector = 1..n
        /\ text \in Seq(STRING) /\ Len(text) \in Nat /\ DOMAIN text = 1..Len(text)
    BY DEF IsPlain
  <1>2. /\ Len(pattern) = n + 1 /\ pattern[n + 1] = AnyText
        /\ \A k \in 1..n : pattern[k] = selector[k]
    <2>1. selector \in Seq(STRING \cup {AnyText}) /\ <<AnyText>> \in Seq(STRING \cup {AnyText})
      BY <1>1
    <2> QED BY <1>1, <2>1
  <1>3. \A k \in 1..n : Lower(selector[k]) = selector[k] /\ selector[k] \notin {AnyText, AnyChar}
    BY <1>1 DEF IsPlain, Plain
  <1>4. \A k \in 1..Len(text) : Lower(text[k]) = text[k]
    BY <1>1 DEF IsPlain, Plain
  <1>5. BeginsLike(text, selector)
          <=> n <= Len(text) /\ \A k \in 1..n : Lower(pattern[k]) = Lower(text[k])
    <2>1. BeginsLike(text, selector) <=> CharsLike(pattern, text)
      BY DEF BeginsLike
    <2> HIDE DEF pattern, n
    <2>2. n \in Nat /\ text \in Seq(STRING) /\ Len(pattern) = n + 1 /\ pattern[n + 1] = AnyText
      BY <1>1, <1>2
    <2>3. \A k \in 1..n : pattern[k] \notin {AnyText, AnyChar}
      BY <1>2, <1>3
    <2>4. CharsLike(pattern, text)
            <=> n <= Len(text) /\ \A k \in 1..n : Lower(pattern[k]) = Lower(text[k])
      BY ZenonT(40), <2>2, <2>3, LikeMatches
    <2> QED BY <2>1, <2>4
  <1>6. n <= Len(text) =>
          \A k \in 1..n : Lower(pattern[k]) = Lower(text[k]) <=> selector[k] = text[k]
    <2> HIDE DEF pattern
    <2> QED BY <1>1, <1>2, <1>3, <1>4
  <1>7. n <= Len(text) =>
          ((\A k \in 1..n : selector[k] = text[k]) <=> SubSeq(selector, 1, n) = SubSeq(text, 1, n))
    <2>1. n <= Len(text) => \A k \in 1..n : SubSeq(selector, 1, n)[k] = selector[k]
                                            /\ SubSeq(text, 1, n)[k] = text[k]
      BY <1>1
    <2>2. n <= Len(text) /\ (\A k \in 1..n : selector[k] = text[k])
            => SubSeq(selector, 1, n) = SubSeq(text, 1, n)
      BY <1>1
    <2> QED BY <2>1, <2>2
  <1> QED BY <1>5, <1>6, <1>7 DEF IsPrefix

(* What the client finds by a selector the daemon finds too.                  *)
LEMMA AgreeOn ==
  ASSUME NEW table, IsFiniteSet(table), \A r \in table : IsPlain(r.id),
         NEW Chars, NEW selector \in Seq(Chars), SelectWorkflowID(table, selector) # Missing
  PROVE  ResolveWorkflowSelector(table, selector) = SelectWorkflowID(table, selector)
  <1> DEFINE named == ByName(table, selector)
             begun == {r \in table : IsPrefix(selector, r.id)}
  <1>1. CASE ById(table, selector) # {}
    BY <1>1 DEF SelectWorkflowID, ResolveWorkflowSelector
  <1>2. \A some : Only(some) # Missing
    BY DEF Only, Found, Missing
  <1>3. CASE ById(table, selector) = {} /\ named # {}
    <2>1. IsFiniteSet(named)
      BY FS_Subset DEF ByName
    <2>2. Cardinality(named) \in Nat /\ Cardinality(named) # 0
      BY <1>3, <2>1, FS_EmptySet, FS_CardinalityType
    <2>3. OneOf(named) # Missing
      BY <1>2, <1>3 DEF OneOf, Ambiguous, Missing
    <2>4. ResolveByName(table, selector)
            = IF Latest(named) # {} THEN Only(Latest(named)) ELSE OneOf(named)
      BY DEF ResolveByName
    <2>5. SelectWorkflowID(table, selector)
            = IF Cardinality(named) > 1 /\ Latest(named) # {} THEN Only(Latest(named))
              ELSE OneOf(named)
      BY <1>3 DEF SelectWorkflowID
    <2>6. ASSUME Latest(named) # {}, ~(Cardinality(named) > 1)
          PROVE  OneOf(named) = Only(Latest(named))
      <3>1. Cardinality(named) = 1
        BY <2>2, <2>6
      <3>2. PICK x : named = {x}
        BY <2>1, <3>1, FS_Singleton
      <3>3. Latest(named) = named
        BY <2>6, <3>2 DEF Latest
      <3> HIDE DEF named
      <3> QED BY <1>3, <3>1, <3>3 DEF OneOf
    <2> HIDE DEF named
    <2>7. ResolveByName(table, selector) # Missing
      BY <1>2, <2>3, <2>4
    <2>8. ResolveWorkflowSelector(table, selector) = ResolveByName(table, selector)
      BY <1>3, <2>7 DEF ResolveWorkflowSelector
    <2> QED BY <2>4, <2>5, <2>6, <2>8
  <1>4. CASE ById(table, selector) = {} /\ named = {}
    <2>1. ResolveByName(table, selector) = Missing
      BY <1>4 DEF ResolveByName, Latest, OneOf
    <2>2. ResolveWorkflowSelector(table, selector) = ResolveByIDPrefix(table, selector)
      BY <1>4, <2>1 DEF ResolveWorkflowSelector
    <2>3. SelectWorkflowID(table, selector) = OneOf(begun)
      <3>1. Cardinality({}) = 0
        BY FS_EmptySet
      <3> QED BY <1>4, <3>1 DEF SelectWorkflowID
    <2>4. begun # {}
      BY <2>3 DEF OneOf
    <2>5. IsPlain(selector)
      BY <2>4, PrefixIsPlain
    <2>6. {r \in table : BeginsLike(r.id, selector)} = begun
      BY <2>5, LikeIsPrefix
    <2> QED BY <2>2, <2>3, <2>6 DEF ResolveByIDPrefix
  <1> QED BY <1>1, <1>3, <1>4

(* By an id the daemon finds no other workflow, also when this one has gone.  *)
LEMMA IdNamesItself ==
  ASSUME NEW table, NEW id, IsPlain(id),
         \A r \in table : IsPlain(r.id) /\ Len(r.id) = Len(id) /\ (r.name = id => r.id = id),
         ResolveWorkflowSelector(table, id) # Missing
  PROVE  ResolveWorkflowSelector(table, id) = Found(id)
  <1>1. CASE ById(table, id) # {}
    BY <1>1 DEF ResolveWorkflowSelector
  <1>2. CASE ById(table, id) = {}
    <2>1. ByName(table, id) = {}
      BY <1>2 DEF ById, ByName
    <2>2. ASSUME NEW r \in table, BeginsLike(r.id, id)
          PROVE  FALSE
      <3>1. IsPrefix(id, r.id)
        BY <2>2, LikeIsPrefix
      <3>2. id \in Seq(STRING) /\ r.id \in Seq(STRING) /\ Len(id) = Len(r.id)
        BY DEF IsPlain
      <3>3. SubSeq(id, 1, Len(id)) = id /\ SubSeq(r.id, 1, Len(id)) = r.id
        BY <3>2
      <3>4. r.id = id
        BY <3>1, <3>3 DEF IsPrefix
      <3> QED BY <1>2, <3>4 DEF ById
    <2>3. {r \in table : BeginsLike(r.id, id)} = {}
      BY <2>2
    <2>4. ResolveByName(table, id) = Missing /\ ResolveByIDPrefix(table, id) = Missing
      BY <2>1, <2>3 DEF ResolveByName, ResolveByIDPrefix, Latest, OneOf
    <2> QED BY <1>2, <2>4 DEF ResolveWorkflowSelector
  <1> QED BY <1>1, <1>2
-----------------------------------------------------------------------------
(* A path and the name of a file in it.                                       *)
LEMMA Appended ==
  ASSUME NEW Names, NEW dir \in Seq(Names), NEW name
  PROVE  /\ Append(dir, name) \in Seq(Names \cup {name}) /\ Append(dir, name) # << >>
         /\ Last(Append(dir, name)) = name /\ Parent(Append(dir, name)) = dir
         /\ \A other : dir \o <<name, other>> = Append(Append(dir, name), other)
  <1> DEFINE path == Append(dir, name)
  <1>0. dir \in Seq(Names \cup {name})
    OBVIOUS
  <1>1. path \in Seq(Names \cup {name}) /\ Len(path) = Len(dir) + 1 /\ path[Len(path)] = name
        /\ \A k \in 1..Len(dir) : path[k] = dir[k]
    BY <1>0
  <1>2. path # << >>
    BY <1>1
  <1>3. Front(path) = dir
    <2>1. SubSeq(path, 1, Len(dir)) = dir
      BY <1>0, <1>1
    <2>2. Len(path) - 1 = Len(dir)
      BY <1>0, <1>1
    <2> QED BY <2>1, <2>2 DEF Front
  <1>4. ASSUME NEW other
        PROVE  dir \o <<name, other>> = Append(path, other)
    <2> DEFINE All == Names \cup {name, other}
               longer == dir \o <<name, other>>
    <2>1. dir \in Seq(All) /\ path \in Seq(All) /\ <<name, other>> \in Seq(All)
      BY <1>0, <1>1
    <2>2. longer \in Seq(All) /\ Len(longer) = Len(dir) + 2
          /\ \A k \in 1..Len(longer) :
               longer[k] = IF k <= Len(dir) THEN dir[k]
                           ELSE IF k = Len(dir) + 1 THEN name ELSE other
      BY <2>1
    <2>3. Append(path, other) \in Seq(All) /\ Len(Append(path, other)) = Len(dir) + 2
          /\ \A k \in 1..(Len(dir) + 2) :
               Append(path, other)[k] = IF k <= Len(dir) THEN dir[k]
                                        ELSE IF k = Len(dir) + 1 THEN name ELSE other
      <3> HIDE DEF path
      <3> QED BY <1>1, <2>1
    <2> HIDE DEF path, longer
    <2>4. \A k \in 1..Len(longer) : longer[k] = Append(path, other)[k]
      BY <2>2, <2>3
    <2>5. longer = Append(path, other)
      BY <2>2, <2>3, <2>4
    <2> QED BY <2>5 DEF longer
  <1> QED BY <1>1, <1>2, <1>3, <1>4 DEF Last, Parent

(* The names of the files that are looked for.                                *)
LEMMA LuaNames == InitLua.ext = "lua" /\ LumnLua.ext = "lua"
  BY DEF InitLua, LumnLua

(* What is named like a file of Lua is one, and where it is is a directory.   *)
LEMMA LuaFiles ==
  ASSUME NEW tree, IsTree(tree), NEW Names, NEW dir \in Seq(Names), NEW name
  PROVE  /\ name.ext = "lua" => Append(dir, name) \notin tree.dirs
         /\ Append(dir, name) \in tree.files => dir \in tree.dirs
  <1> DEFINE path == Append(dir, name)
  <1>1. path # << >> /\ Last(path) = name /\ Parent(path) = dir
    BY ZenonT(40), Appended
  <1> HIDE DEF path
  <1>2. /\ name.ext = "lua" => path \notin tree.dirs
        /\ path \in tree.files => dir \in tree.dirs
    BY <1>1 DEF IsTree
  <1> QED BY <1>2 DEF path

(* The least of some numbers.                                                 *)
LEMMA Least ==
  ASSUME NEW some \in SUBSET Nat, NEW k \in some, \A j \in some : k <= j
  PROVE  Min(some) = k
  <1>1. \A x \in some : (\A y \in some : x <= y) => x = k
    OBVIOUS
  <1>2. Min(some) \in some /\ \A y \in some : Min(some) <= y
    BY Zenon DEF Min
  <1> QED BY <1>1, <1>2

(* A list of what two lists have.                                             *)
LEMMA Joined ==
  ASSUME NEW a, NEW b, NEW c, NEW d
  PROVE  LET three == <<a, b>> \o <<c>>
             four == <<a, b>> \o <<c, d>>
         IN /\ DOMAIN three = 1..3 /\ three[1] = a /\ three[2] = b /\ three[3] = c
            /\ DOMAIN four = 1..4 /\ four[1] = a /\ four[2] = b /\ four[3] = c /\ four[4] = d
  <1>1. \A S : S = {a, b, c, d} => <<a, b>> \in Seq(S) /\ <<c>> \in Seq(S) /\ <<c, d>> \in Seq(S)
    OBVIOUS
  <1>2. DOMAIN (<<a, b>> \o <<c>>) = 1..3 /\ (<<a, b>> \o <<c>>)[1] = a
        /\ (<<a, b>> \o <<c>>)[2] = b /\ (<<a, b>> \o <<c>>)[3] = c
    BY <1>1
  <1>3. DOMAIN (<<a, b>> \o <<c, d>>) = 1..4 /\ (<<a, b>> \o <<c, d>>)[1] = a
        /\ (<<a, b>> \o <<c, d>>)[2] = b /\ (<<a, b>> \o <<c, d>>)[3] = c
        /\ (<<a, b>> \o <<c, d>>)[4] = d
    BY <1>1
  <1> QED BY <1>2, <1>3

(* The entry point of a directory is the first of the two that is there.      *)
LEMMA DirectoryTarget ==
  ASSUME NEW tree, IsTree(tree), NEW Names, NEW dir \in Seq(Names)
  PROVE  LET init == Append(dir, InitLua)
             lumn == Append(dir, LumnLua)
             target == ResolveDirectoryTarget(tree, dir)
         IN IF init \in tree.files THEN target.entry = init /\ target # NoTarget
            ELSE IF lumn \in tree.files THEN target.entry = lumn /\ target # NoTarget
            ELSE target = NoTarget
  <1> DEFINE init == Append(dir, InitLua)
             lumn == Append(dir, LumnLua)
             target == ResolveDirectoryTarget(tree, dir)
             present == {k \in DOMAIN Entrypoints : Exists(tree, Append(dir, Entrypoints[k]))}
  <1>1. DOMAIN Entrypoints = {1, 2} /\ Entrypoints[1] = InitLua /\ Entrypoints[2] = LumnLua
    BY DEF Entrypoints
  <1>2. (Exists(tree, init) <=> init \in tree.files) /\ (Exists(tree, lumn) <=> lumn \in tree.files)
    BY LuaNames, LuaFiles DEF Exists
  <1>3. init # << >> /\ lumn # << >>
    BY ZenonT(40), LuaNames, Appended
  <1>4. target = IF present = {} THEN NoTarget
                 ELSE [path |-> dir, entry |-> Append(dir, Entrypoints[Min(present)]),
                       workspace |-> InferWorkspaceDir(tree, dir), name |-> Last(dir).base]
    BY DEF ResolveDirectoryTarget
  <1>5. \A x, y, z, e : e # << >> => [path |-> x, entry |-> e, workspace |-> y, name |-> z] # NoTarget
    BY DEF NoTarget
  <1>6. /\ 1 \in present <=> init \in tree.files
        /\ 2 \in present <=> lumn \in tree.files
        /\ present \subseteq {1, 2}
    BY <1>1, <1>2
  <1> HIDE DEF present, target
  <1>7. CASE init \in tree.files
    <2>1. Min(present) = 1
      BY <1>6, <1>7, Least
    <2>2. target.entry = init /\ target # NoTarget
      BY <1>1, <1>3, <1>4, <1>5, <1>6, <1>7, <2>1
    <2> QED BY <1>7, <2>2 DEF target
  <1>8. CASE init \notin tree.files /\ lumn \in tree.files
    <2>1. Min(present) = 2
      BY <1>6, <1>8, Least
    <2>2. target.entry = lumn /\ target # NoTarget
      BY <1>1, <1>3, <1>4, <1>5, <1>6, <1>8, <2>1
    <2> QED BY <1>8, <2>2 DEF target
  <1>9. CASE init \notin tree.files /\ lumn \notin tree.files
    <2>1. target = NoTarget
      BY <1>4, <1>6, <1>9
    <2> QED BY <1>9, <2>1 DEF target
  <1> QED BY <1>7, <1>8, <1>9

(* A file is taken as it is.                                                  *)
LEMMA FileTarget ==
  ASSUME NEW tree, IsTree(tree), NEW path
  PROVE  /\ path \in tree.files => ResolveFileTarget(tree, path).entry = path
         /\ path \in tree.dirs => ResolveFileTarget(tree, path) = ResolveDirectoryTarget(tree, path)
         /\ path \notin tree.files \cup tree.dirs => ResolveFileTarget(tree, path) = NoTarget
  BY DEF IsTree, ResolveFileTarget, Exists, IsDir

(* The first path that is a file, or none.                                    *)
LEMMA FirstIs ==
  ASSUME NEW files, NEW paths, NEW n \in Nat, DOMAIN paths = 1..n, NEW entry,
         \/ entry = << >> /\ \A k \in 1..n : paths[k] \notin files
         \/ \E k \in 1..n : /\ entry = paths[k] /\ paths[k] \in files
                            /\ \A j \in 1..(k - 1) : paths[j] \notin files
  PROVE  FirstFile(files, paths, entry)
  <1> DEFINE there == {k \in DOMAIN paths : paths[k] \in files}
  <1>1. CASE \A k \in 1..n : paths[k] \notin files
    <2>1. there = {} /\ entry = << >>
      BY <1>1
    <2> QED BY <2>1 DEF FirstFile
  <1>2. ASSUME NEW k \in 1..n, entry = paths[k], paths[k] \in files,
               \A j \in 1..(k - 1) : paths[j] \notin files
        PROVE  FirstFile(files, paths, entry)
    <2>1. there \in SUBSET Nat /\ k \in there /\ \A j \in there : k <= j
      BY <1>2
    <2>2. Min(there) = k /\ there # {}
      <3> HIDE DEF there
      <3> QED BY <2>1, Least
    <2>3. FirstFile(files, paths, entry) <=> entry = IF there = {} THEN << >> ELSE paths[Min(there)]
      BY DEF FirstFile
    <2> QED BY <1>2, <2>2, <2>3
  <1> QED BY <1>1, <1>2

(* The entry point of a local run is the first of the candidates.             *)
LEMMA LocalEntry ==
  ASSUME IsTree(fs), NEW cmd
  PROVE  FirstFile(fs.files, Candidates(cmd), LocalTarget(cmd).entry)
  <1>0. Cwd \in Seq(FileNames) /\ NoTarget.entry = << >>
    BY CliConstants DEF NoTarget
  <1>1. CASE cmd.arg # << >>
    <2> DEFINE input == [base |-> cmd.arg, ext |-> NoExt]
               lua == [base |-> cmd.arg, ext |-> "lua"]
               path == Append(Cwd, input)
               init == Append(path, InitLua)
               lumn == Append(path, LumnLua)
               plain == Append(Cwd, lua)
               target == ResolveLocalSelector(fs, Cwd, input)
               directory == ResolveDirectoryTarget(fs, path)
               paths == <<init, lumn>> \o <<path, plain>>
    <2>1. lua.ext = "lua" /\ input.ext # "lua" /\ [input EXCEPT !.ext = "lua"] = lua
      <3>1. NoExt # "lua"
        BY DEF NoExt
      <3> QED BY <3>1
    <2>2. LocalTarget(cmd) = target
      BY <1>1 DEF LocalTarget
    <2>3. Candidates(cmd) = paths
      <3>1. InDirectory(input) = <<init, lumn>>
        <4> HIDE DEF input
        <4> QED BY <1>0, Appended DEF InDirectory
      <3>2. Candidates(cmd) = InDirectory(input) \o <<path, plain>>
        BY <1>1, <2>1 DEF Candidates
      <3> QED BY <3>1, <3>2
    <2>4. path \in Seq(FileNames \cup {input}) /\ plain \notin fs.dirs
          /\ (init \in fs.files \/ lumn \in fs.files => path \in fs.dirs)
      <3> HIDE DEF input, lua
      <3>1. path \in Seq(FileNames \cup {input})
        BY <1>0, <2>1, Appended
      <3>2. plain \notin fs.dirs
        BY <1>0, <2>1, LuaFiles
      <3> HIDE DEF path
      <3> QED BY <3>1, <3>2, LuaNames, LuaFiles
    <2>5. target = IF path \in fs.dirs /\ directory # NoTarget THEN directory
                   ELSE IF path \in fs.files /\ path \notin fs.dirs
                     THEN ResolveFileTarget(fs, path) ELSE ResolveFileTarget(fs, plain)
      BY <2>1 DEF ResolveLocalSelector, IsDir, Exists
    <2>6. IF init \in fs.files THEN directory.entry = init /\ directory # NoTarget
          ELSE IF lumn \in fs.files THEN directory.entry = lumn /\ directory # NoTarget
          ELSE directory = NoTarget
      <3> HIDE DEF path
      <3> QED BY <2>4, DirectoryTarget
    <2>7. path \in fs.files => path \notin fs.dirs
      BY DEF IsTree
    <2>8. path \in fs.files => ResolveFileTarget(fs, path).entry = path
      BY FileTarget
    <2>9. IF plain \in fs.files THEN ResolveFileTarget(fs, plain).entry = plain
          ELSE ResolveFileTarget(fs, plain) = NoTarget
      <3> HIDE DEF plain
      <3> QED BY <2>4, FileTarget
    <2> HIDE DEF input, lua, path, init, lumn, plain, target, directory
    <2>10. target.entry = IF init \in fs.files THEN init ELSE IF lumn \in fs.files THEN lumn
                          ELSE IF path \in fs.files THEN path
                          ELSE IF plain \in fs.files THEN plain ELSE << >>
      BY <1>0, <2>4, <2>5, <2>6, <2>7, <2>8, <2>9
    <2>11. DOMAIN paths = 1..4 /\ paths[1] = init /\ paths[2] = lumn /\ paths[3] = path
           /\ paths[4] = plain
      BY Joined
    <2> HIDE DEF paths
    <2>12. \/ target.entry = << >> /\ \A k \in 1..4 : paths[k] \notin fs.files
           \/ \E k \in 1..4 : /\ target.entry = paths[k] /\ paths[k] \in fs.files
                              /\ \A j \in 1..(k - 1) : paths[j] \notin fs.files
      <3>1. 1..4 = {1, 2, 3, 4} /\ 1..(1 - 1) = {} /\ 1..(2 - 1) = {1} /\ 1..(3 - 1) = {1, 2}
            /\ 1..(4 - 1) = {1, 2, 3}
        OBVIOUS
      <3> QED BY <2>10, <2>11, <3>1
    <2> QED BY <2>2, <2>3, <2>11, <2>12, FirstIs
  <1>2. CASE cmd.arg = << >> /\ cmd.file = {}
    <2> DEFINE path == Append(Cwd, LumnLua)
               found == ResolveFileTarget(fs, path)
               paths == <<path>>
    <2>1. LocalTarget(cmd) = IF found = NoTarget THEN NoTarget
                             ELSE [found EXCEPT !.name = Last(Cwd).base]
      BY <1>2 DEF LocalTarget, ForcedTarget, ResolveDefaultTarget
    <2>2. Candidates(cmd) = paths
      BY <1>2 DEF Candidates
    <2>3. path \notin fs.dirs
      BY <1>0, LuaNames, LuaFiles
    <2>4. path \in fs.files =>
            found = [path |-> path, entry |-> path,
                     workspace |-> InferWorkspaceDir(fs, Parent(path)), name |-> Last(path).base]
      BY <2>3 DEF ResolveFileTarget, Exists, IsDir
    <2>5. path \notin fs.files => found = NoTarget
      <3> HIDE DEF path
      <3> QED BY <2>3, FileTarget
    <2> HIDE DEF path, found
    <2>6. path \in fs.files /\ found # NoTarget => LocalTarget(cmd).entry = path
      BY <2>1, <2>4
    <2>7. path \in fs.files => LocalTarget(cmd).entry = path
      <3>1. path # << >>
        BY <1>0, LuaNames, Appended DEF path
      <3>2. path \in fs.files => found.entry = path
        BY <2>4
      <3> QED BY <1>0, <2>6, <3>1, <3>2
    <2>8. path \notin fs.files => LocalTarget(cmd).entry = << >>
      BY <1>0, <2>1, <2>5
    <2>9. DOMAIN paths = 1..1 /\ paths[1] = path
      OBVIOUS
    <2> HIDE DEF paths
    <2>10. 1..(1 - 1) = {}
      OBVIOUS
    <2> QED BY SMTT(30), <2>2, <2>7, <2>8, <2>9, <2>10, FirstIs
  <1>3. CASE cmd.arg = << >> /\ cmd.file # {}
    <2> DEFINE name == CHOOSE file \in cmd.file : TRUE
               path == Append(Cwd, name)
               init == Append(path, InitLua)
               lumn == Append(path, LumnLua)
               target == ResolveFileTarget(fs, path)
               paths == <<init, lumn>> \o <<path>>
    <2>2. LocalTarget(cmd) = target
      BY <1>3 DEF LocalTarget, ForcedTarget, ResolveTarget
    <2>3. Candidates(cmd) = paths
      <3>1. Candidates(cmd) = InDirectory(name) \o <<path>>
        BY <1>3 DEF Candidates
      <3> HIDE DEF name
      <3>2. InDirectory(name) = <<init, lumn>>
        BY <1>0, Appended DEF InDirectory
      <3> QED BY <3>1, <3>2
    <2> HIDE DEF name
    <2>4. path \in Seq(FileNames \cup {name})
      BY <1>0, Appended
    <2> HIDE DEF path
    <2>5. init \in fs.files \/ lumn \in fs.files => path \in fs.dirs
      BY <2>4, LuaNames, LuaFiles
    <2>6. LET directory == ResolveDirectoryTarget(fs, path)
          IN IF init \in fs.files THEN directory.entry = init /\ directory # NoTarget
             ELSE IF lumn \in fs.files THEN directory.entry = lumn /\ directory # NoTarget
             ELSE directory = NoTarget
      BY <2>4, DirectoryTarget
    <2>7. path \in fs.files => path \notin fs.dirs
      BY DEF IsTree
    <2>8. /\ path \in fs.files => target.entry = path
          /\ path \in fs.dirs => target = ResolveDirectoryTarget(fs, path)
          /\ path \notin fs.files \cup fs.dirs => target = NoTarget
      BY FileTarget
    <2> HIDE DEF init, lumn, target
    <2>9. target.entry = IF init \in fs.files THEN init ELSE IF lumn \in fs.files THEN lumn
                         ELSE IF path \in fs.files THEN path ELSE << >>
      BY <1>0, <2>5, <2>6, <2>7, <2>8
    <2>10. DOMAIN paths = 1..3 /\ paths[1] = init /\ paths[2] = lumn /\ paths[3] = path
      BY Joined
    <2> HIDE DEF paths
    <2>11. \/ target.entry = << >> /\ \A k \in 1..3 : paths[k] \notin fs.files
           \/ \E k \in 1..3 : /\ target.entry = paths[k] /\ paths[k] \in fs.files
                              /\ \A j \in 1..(k - 1) : paths[j] \notin fs.files
      <3>1. 1..3 = {1, 2, 3} /\ 1..(1 - 1) = {} /\ 1..(2 - 1) = {1} /\ 1..(3 - 1) = {1, 2}
        OBVIOUS
      <3> QED BY <2>9, <2>10, <3>1
    <2> QED BY <2>2, <2>3, <2>10, <2>11, FirstIs
  <1> QED BY <1>1, <1>2, <1>3
-----------------------------------------------------------------------------
IsRow(r) ==
  /\ r = [id |-> r.id, name |-> r.name, version |-> r.version, status |-> r.status]
  /\ r.status \in {"active", "stopped"} /\ <<r.name, r.version>> \in DOMAIN IdOf
  /\ r.id = WorkflowIDFor(r.name, r.version)

(* A part of a table, and rows of other ids beside it.                        *)
LEMMA Beside ==
  ASSUME NEW table, IsTable(table), NEW kept \in SUBSET table, NEW added, IsFiniteSet(added),
         \A r \in added : IsRow(r), \A r1, r2 \in added : r1.id = r2.id => r1 = r2,
         \A r1 \in kept, r2 \in added : r1.id # r2.id
  PROVE  IsTable(kept \cup added)
  <1>1. IsFiniteSet(kept \cup added)
    <2>1. IsFiniteSet(kept)
      BY FS_Subset DEF IsTable
    <2> QED BY <2>1, FS_Union
  <1> QED BY <1>1 DEF IsTable, IsRow

(* A row with another status is a row of the same id.                         *)
LEMMA NewStatus ==
  ASSUME NEW r, IsRow(r), NEW status \in {"active", "stopped"}
  PROVE  IsRow([r EXCEPT !.status = status]) /\ [r EXCEPT !.status = status].id = r.id
  <1> DEFINE new == [id |-> r.id, name |-> r.name, version |-> r.version, status |-> status]
  <1>1. [r EXCEPT !.status = status] = new
    BY DEF IsRow
  <1>2. IsRow(new) /\ new.id = r.id
    BY DEF IsRow
  <1> QED BY <1>1, <1>2

(* A table with some rows stopped, as StopRows and a failed start leave it.   *)
LEMMA StoppedRows ==
  ASSUME NEW table, IsTable(table), NEW some \in SUBSET table
  PROVE  IsTable((table \ some) \cup {[r EXCEPT !.status = "stopped"] : r \in some})
  <1> DEFINE added == {[r EXCEPT !.status = "stopped"] : r \in some}
  <1>1. \A r \in table : IsRow(r)
    BY DEF IsTable, IsRow
  <1>2. \A r \in some : IsRow([r EXCEPT !.status = "stopped"])
                        /\ [r EXCEPT !.status = "stopped"].id = r.id
    BY <1>1, NewStatus
  <1>3. \A r1 \in table \ some, r2 \in some : r1.id # r2.id
    BY DEF IsTable
  <1>4. \A n \in added : /\ IsRow(n)
                         /\ \E r \in some : n.id = r.id /\ n = [r EXCEPT !.status = "stopped"]
    BY <1>2
  <1>5. \A n1, n2 \in added : n1.id = n2.id => n1 = n2
    BY <1>4 DEF IsTable
  <1>6. \A r1 \in table \ some, n2 \in added : r1.id # n2.id
    BY <1>3, <1>4
  <1>7. IsFiniteSet(added)
    <2> DEFINE f == [r \in some |-> [r EXCEPT !.status = "stopped"]]
    <2>1. f \in Surjection(some, added)
      BY DEF Surjection
    <2>2. IsFiniteSet(some)
      BY FS_Subset DEF IsTable
    <2> HIDE DEF f, added
    <2> QED BY <2>1, <2>2, FS_Surjection
  <1> HIDE DEF added
  <1>8. IsTable((table \ some) \cup added)
    BY <1>4, <1>5, <1>6, <1>7, Beside
  <1> QED BY <1>8 DEF added

(* What one of some rows names is one of them.                                *)
LEMMA OneOfSome ==
  ASSUME NEW some, OneOf(some) # Missing, OneOf(some) # Ambiguous
  PROVE  \E r \in some : r.id = OneOf(some).id
  <1> DEFINE r == CHOOSE r \in some : TRUE
  <1>1. some # {}
    BY DEF OneOf
  <1>2. r \in some
    BY <1>1
  <1>3. OneOf(some) = Found(r.id)
    BY <1>1 DEF OneOf, Only
  <1> HIDE DEF r
  <1> QED BY <1>2, <1>3 DEF Found

(* A selector that the daemon resolves names a row of the table.              *)
LEMMA ResolvedIsThere ==
  ASSUME NEW table, NEW selector,
         ResolveWorkflowSelector(table, selector) \notin {Missing, Ambiguous}
  PROVE  \E r \in table : r.id = ResolveWorkflowSelector(table, selector).id
  <1> DEFINE named == ByName(table, selector)
             byName == ResolveByName(table, selector)
             prefixed == {r \in table : BeginsLike(r.id, selector)}
  <1>1. CASE ById(table, selector) # {}
    <2>1. ResolveWorkflowSelector(table, selector).id = selector
      BY <1>1 DEF ResolveWorkflowSelector, Found
    <2> QED BY <1>1, <2>1 DEF ById
  <1>2. CASE ById(table, selector) = {} /\ byName # Missing
    <2>1. ResolveWorkflowSelector(table, selector) = byName /\ byName # Ambiguous
      BY <1>2 DEF ResolveWorkflowSelector
    <2>2. CASE Latest(named) # {}
      <3> DEFINE r == CHOOSE r \in Latest(named) : TRUE
      <3>1. r \in table
        BY <2>2 DEF Latest, ByName
      <3>2. byName = Found(r.id)
        BY <2>2 DEF ResolveByName, Only
      <3> HIDE DEF r, byName
      <3> QED BY <2>1, <3>1, <3>2 DEF Found
    <2>3. CASE Latest(named) = {}
      <3>1. byName = OneOf(named)
        BY <2>3 DEF ResolveByName
      <3> HIDE DEF byName, named
      <3>2. \E r \in named : r.id = byName.id
        BY <1>2, <2>1, <3>1, OneOfSome
      <3> QED BY <2>1, <3>2 DEF named, ByName
    <2> QED BY <2>2, <2>3
  <1>3. CASE ById(table, selector) = {} /\ byName = Missing
    <2>1. ResolveWorkflowSelector(table, selector) = OneOf(prefixed)
      BY <1>3 DEF ResolveWorkflowSelector, ResolveByIDPrefix
    <2>2. prefixed \subseteq table
      OBVIOUS
    <2> HIDE DEF prefixed
    <2> QED BY <2>1, <2>2, OneOfSome
  <1> QED BY <1>1, <1>2, <1>3

(* A handler leaves a table.                                                  *)
LEMMA OutcomeTable ==
  ASSUME IsTable(rows), NEW c \in Clients, client[c].req \in Requests \ {"shutdown"},
         client[c].req = "start" =>
           <<client[c].cmd.arg, client[c].cmd.version>> \in DOMAIN IdOf,
         NEW o \in Outcomes(c)
  PROVE  IsTable(o.rows)
  <1>0. \A r \in rows : IsRow(r)
    BY DEF IsTable, IsRow
  <1>1. CASE client[c].req \in {"health", "poll", "list"}
    BY <1>1 DEF Outcomes, Answer, Outcome
  <1>2. CASE client[c].req = "start"
    <2> DEFINE cmd == client[c].cmd
               id == WorkflowIDFor(cmd.arg, cmd.version)
               old == {r \in rows : r.id = id}
               new == [id |-> id, name |-> cmd.arg, version |-> cmd.version, status |-> "active"]
    <2>1. o.rows \in {rows, (rows \ old) \cup {[r EXCEPT !.status = "stopped"] : r \in old},
                      (rows \ old) \cup {new}}
      BY <1>2 DEF Outcomes, StartOutcomes, Answer, Outcome
    <2>2. IsTable((rows \ old) \cup {[r EXCEPT !.status = "stopped"] : r \in old})
      <3> HIDE DEF id
      <3> QED BY StoppedRows
    <2>3. IsRow(new) /\ new.id = id
      BY <1>2 DEF IsRow
    <2>4. \A r \in rows \ old : r.id # id
      OBVIOUS
    <2> HIDE DEF new, old, id
    <2>5. IsTable((rows \ old) \cup {new})
      <3>1. IsFiniteSet({new})
        BY FS_Singleton
      <3> QED BY <2>3, <2>4, <3>1, Beside
    <2> QED BY <2>1, <2>2, <2>5
  <1>3. CASE client[c].req \in {"exec", "stop", "delete", "restart"}
    <2> DEFINE found == ResolveWorkflowSelector(rows, PathSelector(c))
    <2>1. o \in SelectorOutcomes(client[c].req, PathSelector(c))
      BY <1>3 DEF Outcomes
    <2>2. CASE found = Missing
      BY <2>1, <2>2 DEF SelectorOutcomes, Answer, Outcome
    <2>3. CASE found # Missing /\ found = Ambiguous
      BY <2>1, <2>3 DEF SelectorOutcomes, Answer, Outcome
    <2>4. CASE found # Missing /\ found # Ambiguous
      <3> DEFINE id == found.id
                 r == RowOf(id)
      <3>1. o \in IdOutcomes(client[c].req, id)
        BY <2>1, <2>4 DEF SelectorOutcomes
      <3>2. \E row_ \in rows : row_.id = id
        BY <2>4, ResolvedIsThere
      <3> HIDE DEF found, id
      <3>3. r \in rows /\ r.id = id
        BY <3>2 DEF RowOf
      <3>4. o.rows \in {rows, rows \ {r}, WithStatus(id, "active"), WithStatus(id, "stopped")}
        <4>1. CASE client[c].req = "exec"
          BY <3>1, <4>1 DEF IdOutcomes, Answer, Outcome
        <4>2. CASE client[c].req \in {"stop", "delete", "restart"}
          BY <3>1, <4>2 DEF IdOutcomes, Answer, Outcome
        <4> QED BY <1>3, <4>1, <4>2
      <3>5. ASSUME NEW status \in {"active", "stopped"}
            PROVE  IsTable(WithStatus(id, status))
        <4> DEFINE new == [r EXCEPT !.status = status]
        <4>1. IsRow(new) /\ new.id = r.id
          BY <1>0, <3>3, NewStatus
        <4>2. WithStatus(id, status) = (rows \ {r}) \cup {new}
          BY DEF WithStatus
        <4> HIDE DEF new, r
        <4>3. \A s \in rows \ {r} : s.id # r.id
          BY <3>3 DEF IsTable
        <4>4. IsTable((rows \ {r}) \cup {new})
          <5>1. IsFiniteSet({new})
            BY FS_Singleton
          <5> QED BY <4>1, <4>3, <5>1, Beside
        <4> QED BY <4>2, <4>4
      <3>6. IsTable(rows \ {r})
        <4>1. IsFiniteSet(rows \ {r})
          BY FS_Subset DEF IsTable
        <4> QED BY <4>1 DEF IsTable
      <3> QED BY <3>4, <3>5, <3>6
    <2> QED BY <2>2, <2>3, <2>4
  <1> QED BY <1>1, <1>2, <1>3 DEF Requests

(* What a client finds by a selector is a row of its list.                    *)
LEMMA SelectedIsThere ==
  ASSUME NEW table, NEW selector, SelectWorkflowID(table, selector).kind = "found"
  PROVE  \E r \in table : r.id = SelectWorkflowID(table, selector).id
  <1> DEFINE named == ByName(table, selector)
             begun == {r \in table : IsPrefix(selector, r.id)}
             chosen == SelectWorkflowID(table, selector)
  <1>1. Missing.kind # "found" /\ Ambiguous.kind # "found"
    BY DEF Missing, Ambiguous
  <1>2. named \subseteq table /\ begun \subseteq table /\ Latest(named) \subseteq table
    BY DEF ByName, Latest
  <1>3. CASE ById(table, selector) # {}
    <2>1. chosen.id = selector
      BY <1>3 DEF SelectWorkflowID, Found
    <2> QED BY <1>3, <2>1 DEF ById
  <1>4. ASSUME chosen = Only(Latest(named)), Latest(named) # {}
        PROVE  \E r \in table : r.id = chosen.id
    <2> DEFINE r == CHOOSE r \in Latest(named) : TRUE
    <2>1. r \in table
      BY <1>2, <1>4
    <2>2. chosen = Found(r.id)
      BY <1>4 DEF Only
    <2> HIDE DEF r, chosen
    <2> QED BY <2>1, <2>2 DEF Found
  <1>5. ASSUME NEW some \in SUBSET table, chosen = OneOf(some)
        PROVE  \E r \in table : r.id = chosen.id
    <2>1. OneOf(some) # Missing /\ OneOf(some) # Ambiguous
      BY <1>1, <1>5
    <2> HIDE DEF chosen
    <2> QED BY <1>5, <2>1, OneOfSome
  <1>6. ById(table, selector) = {} =>
          \/ chosen = Only(Latest(named)) /\ Latest(named) # {}
          \/ chosen = OneOf(named) \/ chosen = OneOf(begun)
    BY DEF SelectWorkflowID
  <1> HIDE DEF named, begun, chosen
  <1>7. \E r \in table : r.id = chosen.id
    BY <1>2, <1>3, <1>4, <1>5, <1>6 DEF chosen
  <1> QED BY <1>7 DEF chosen
-----------------------------------------------------------------------------
(* The ids of workflows. *)
Known == {IdOf[w] : w \in DOMAIN IdOf}

(* A start is one of a workflow that has an id.                               *)
Askable(cmd) == cmd.do = "start" => <<cmd.arg, cmd.version>> \in DOMAIN IdOf

(* What does not depend on the clients. *)
WorldInv ==
  /\ IsTable(rows) /\ given \in 0..MaxCommands /\ IsTree(fs)
  /\ \A cmd \in menu : Askable(cmd) /\ cmd.arg \in Seq(STRING)

(* What a client calls for it has found, unless it starts a workflow; what    *)
(* was acted on is what it had found; and a run is a local one at once, or    *)
(* when its calls have come to nothing.                                       *)
Commanded(r, files) ==
  /\ IsClient(r) /\ r.at \in Points /\ Askable(r.cmd)
  /\ r.at \in {"call", "sent"} /\ r.req = "start" => r.cmd.do = "start"
  /\ r.at \in {"call", "sent"} /\ r.req \in {"exec", "stop", "delete", "restart"} =>
       r.found \in Known
  /\ r.at = "answered" /\ r.ans = "found" => r.found \in Known
  /\ r.acted \in {<< >>, r.found}
  /\ r.cmd.do = "run" /\ r.at \notin {"idle", "local"} => r.cmd.arg # << >>
  /\ r.cmd.do = "run" /\ r.at = "idle" /\ (r.cmd.arg = << >> \/ FallsBack(r.ans)) =>
       FirstFile(files, Candidates(r.cmd), r.entry)

CommandInv == /\ client = [c \in Clients |-> client[c]]
              /\ \A c \in Clients : Commanded(client[c], fs.files)

(* An id names one workflow, and is no workflow's name but its own.           *)
LEMMA KnownIds ==
  ASSUME NEW table, IsTable(table)
  PROVE  /\ \A r \in table : r.id \in Known
         /\ \A id \in Known :
              /\ IsPlain(id)
              /\ \A r \in table : Len(r.id) = Len(id) /\ (r.name = id => r.id = id)
  <1>1. \A r \in table : /\ <<r.name, r.version>> \in DOMAIN IdOf
                         /\ r.id = IdOf[<<r.name, r.version>>]
    BY DEF IsTable, WorkflowIDFor
  <1>2. \A w \in DOMAIN IdOf : IsPlain(IdOf[w])
    BY CliConstants DEF IsPlain
  <1>3. ASSUME NEW w \in DOMAIN IdOf, NEW r \in table
        PROVE  Len(r.id) = Len(IdOf[w]) /\ (r.name = IdOf[w] => r.id = IdOf[w])
    <2> DEFINE v == <<r.name, r.version>>
    <2>1. v \in DOMAIN IdOf /\ r.id = IdOf[v] /\ v[1] = r.name
      BY <1>1
    <2> HIDE DEF v
    <2>2. Len(IdOf[v]) = Len(IdOf[w]) /\ (v[1] = IdOf[w] => v = w)
      BY <2>1, CliConstants
    <2> QED BY <2>1, <2>2
  <1>4. \A r \in table : r.id \in Known
    BY <1>1 DEF Known
  <1>5. ASSUME NEW id \in Known
        PROVE  /\ IsPlain(id)
               /\ \A r \in table : Len(r.id) = Len(id) /\ (r.name = id => r.id = id)
    <2>1. PICK w \in DOMAIN IdOf : id = IdOf[w]
      BY DEF Known
    <2> QED BY <1>2, <1>3, <2>1
  <1> QED BY <1>4, <1>5

(* What a handler answers, and on what it acts.                               *)
LEMMA OutcomeActs ==
  ASSUME IsTable(rows), NEW c \in Clients, client[c].req \in Requests \ {"shutdown"},
         client[c].req \in {"exec", "stop", "delete", "restart"} => client[c].found \in Known,
         NEW o \in Outcomes(c)
  PROVE  /\ o.ans \in {"ok", "refused", "notFound"}
         /\ o.acted = << >> \/ (o.acted = client[c].found /\ client[c].req # "list")
  <1>1. CASE client[c].req \in {"health", "poll", "list"}
    BY <1>1 DEF Outcomes, Answer, Outcome
  <1>2. CASE client[c].req = "start"
    BY <1>2 DEF Outcomes, StartOutcomes, Answer, Outcome
  <1>3. CASE client[c].req \in {"exec", "stop", "delete", "restart"}
    <2> DEFINE id == client[c].found
               found == ResolveWorkflowSelector(rows, id)
    <2>1. o \in SelectorOutcomes(client[c].req, id)
      BY <1>3 DEF Outcomes, PathSelector
    <2>2. CASE found = Missing
      BY <2>1, <2>2 DEF SelectorOutcomes, Answer, Outcome
    <2>3. CASE found # Missing /\ found = Ambiguous
      BY <2>1, <2>3 DEF SelectorOutcomes, Answer, Outcome
    <2>4. CASE found # Missing /\ found # Ambiguous
      <3>1. o \in IdOutcomes(client[c].req, found.id)
        BY <2>1, <2>4 DEF SelectorOutcomes
      <3>2. found = Found(id)
        <4>1. id \in Known
          BY <1>3
        <4> HIDE DEF id
        <4> QED BY <2>4, <4>1, KnownIds, IdNamesItself
      <3> HIDE DEF found, id
      <3>3. found.id = id
        BY <3>2 DEF Found
      <3>4. o \in IdOutcomes(client[c].req, id)
        BY <3>1, <3>3
      <3>5. CASE client[c].req = "exec"
        BY <3>4, <3>5 DEF IdOutcomes, Answer, Outcome, id
      <3>6. CASE client[c].req \in {"stop", "delete", "restart"}
        BY <3>4, <3>6 DEF IdOutcomes, Answer, Outcome, id
      <3> QED BY <1>3, <3>5, <3>6
    <2> QED BY <2>2, <2>3, <2>4
  <1> QED BY <1>1, <1>2, <1>3 DEF Requests

(* No step breaks the table, or gives more commands than there are; the files *)
(* and the choice of commands stay.                                           *)
LEMMA WorldStep ==
  ASSUME WorldInv, CommandInv, RunInv, [Next]_vars
  PROVE  WorldInv' /\ fs' = fs
  <1>1. ASSUME NEW c \in Clients, Begin(c)
        PROVE  given' \in 0..MaxCommands /\ UNCHANGED <<rows, fs, menu>>
    BY <1>1, CliConstants DEF Begin, WorldInv
  <1>2. ASSUME NEW c \in Clients, Handle(c)
        PROVE  IsTable(rows') /\ UNCHANGED <<given, fs, menu>>
    <2>1. client[c].req \in Requests \ {"shutdown"} /\ client[c].at = "sent"
      BY SMTT(30), <1>2 DEF Handle, At_, RunInv, RanOnce
    <2>2. client[c].req = "start" => <<client[c].cmd.arg, client[c].cmd.version>> \in DOMAIN IdOf
      BY <2>1 DEF CommandInv, Commanded, Askable
    <2>3. PICK o \in Outcomes(c) : rows' = o.rows
      BY <1>2 DEF Handle
    <2>4. IsTable(o.rows)
      BY <2>1, <2>2, OutcomeTable DEF WorldInv
    <2> QED BY SMTT(30), <1>2, <2>3, <2>4 DEF Handle
  <1>3. ASSUME NEW c \in Clients,
               Dial(c) \/ Reset(c) \/ Lost(c) \/ HandleShutdown(c) \/ CheckRunning(c) \/ Poll(c)
               \/ Conclude(c) \/ Mutate(c) \/ Run(c) \/ RunLocally(c)
        PROVE  UNCHANGED <<rows, given, fs, menu>>
    BY <1>3 DEF Dial, Reset, Lost, HandleShutdown, CheckRunning, Poll, Conclude, Mutate, Run,
       RunLocally, Keep
  <1>4. ASSUME NEW p \in Procs, StopRows(p)
        PROVE  IsTable(rows') /\ UNCHANGED <<given, fs, menu>>
    <2>1. IsTable((rows \ rows) \cup {[r EXCEPT !.status = "stopped"] : r \in rows})
      BY StoppedRows DEF WorldInv
    <2>2. rows' = (rows \ rows) \cup {[r EXCEPT !.status = "stopped"] : r \in rows}
      BY <1>4 DEF StopRows
    <2> QED BY <1>4, <2>1, <2>2 DEF StopRows
  <1>5. ASSUME NEW p \in Procs, DaemonStep(p) \/ Nature(p), ~StopRows(p)
        PROVE  UNCHANGED <<rows, given, fs, menu>>
    BY <1>5 DEF DaemonStep, Nature, ShutdownReturns, Keep
  <1>6. ASSUME UNCHANGED vars
        PROVE  UNCHANGED <<rows, given, fs, menu>>
    BY <1>6 DEF vars
  <1>7. IsTable(rows') /\ given' \in 0..MaxCommands /\ UNCHANGED <<fs, menu>>
    BY <1>1, <1>2, <1>3, <1>4, <1>5, <1>6 DEF Next, Goes, WorldInv
  <1> QED BY <1>7 DEF WorldInv, Askable

(* A change to one client that leaves it so keeps CommandInv.                 *)
LEMMA OneCommanded ==
  ASSUME CommandInv, fs' = fs, NEW c \in Clients, NEW r, Commanded(r, fs.files),
         client' = [client EXCEPT ![c] = r]
  PROVE  CommandInv'
  <1>1. client' = [d \in Clients |-> IF d = c THEN r ELSE client[d]]
    BY DEF CommandInv
  <1>2. client' = [d \in Clients |-> client'[d]]
    BY <1>1
  <1>3. \A d \in Clients : Commanded(client'[d], fs'.files)
    BY <1>1 DEF CommandInv
  <1> QED BY <1>2, <1>3 DEF CommandInv

(* CommandInv is inductive.                                                   *)
LEMMA CommandStep ==
  ASSUME CommandInv, WorldInv, RunInv, fs' = fs, [Next]_vars
  PROVE  CommandInv'
  <1>1. \A c \in Clients : Commanded(client[c], fs.files)
    BY DEF CommandInv
  <1>2. ASSUME NEW c \in Clients, Begin(c)
        PROVE  CommandInv'
    <2>1. PICK cmd \in menu :
            client' = [client EXCEPT ![c] =
              [Idle EXCEPT !.cmd = cmd,
                 !.req = FirstCall(cmd),
                 !.at = IF cmd.do = "run" /\ cmd.arg = << >> THEN "local"
                        ELSE IF cmd.do = "start" /\ ForcedTarget(cmd) = NoTarget THEN "idle"
                        ELSE "call",
                 !.out = IF cmd.do = "start" /\ ForcedTarget(cmd) = NoTarget
                         THEN "failed" ELSE "none"]]
      BY <1>2 DEF Begin
    <2> DEFINE at == IF cmd.do = "run" /\ cmd.arg = << >> THEN "local"
                     ELSE IF cmd.do = "start" /\ ForcedTarget(cmd) = NoTarget THEN "idle"
                     ELSE "call"
               out == IF cmd.do = "start" /\ ForcedTarget(cmd) = NoTarget
                      THEN "failed" ELSE "none"
               r == [Idle EXCEPT !.cmd = cmd, !.req = FirstCall(cmd), !.at = at, !.out = out]
    <2>2. /\ FirstCall(cmd) \notin {"exec", "stop", "delete", "restart"}
          /\ FirstCall(cmd) = "start" => cmd.do = "start"
      BY DEF FirstCall
    <2>3. /\ at \in {"local", "idle", "call"}
          /\ cmd.do = "run" => at # "idle" /\ (at = "call" => cmd.arg # << >>)
      OBVIOUS
    <2>4. client' = [client EXCEPT ![c] = r]
      BY <2>1
    <2>5. Askable(cmd)
      BY DEF WorldInv
    <2> HIDE DEF at, out
    <2>6. /\ IsClient(r) /\ r.at = at /\ r.req = FirstCall(cmd) /\ r.cmd = cmd
          /\ r.acted = << >>
      BY DEF Idle, IsClient, Fields
    <2> HIDE DEF r
    <2>7. Commanded(r, fs.files)
      BY <2>2, <2>3, <2>5, <2>6 DEF Commanded, Points
    <2> QED BY <2>4, <2>7, OneCommanded
  <1>3. ASSUME NEW c \in Clients, client[c].at \in {"call", "sent", "waiting"},
               NEW ans \in {"notRunning", "error", "refused"},
               client' = [client EXCEPT ![c].at = "answered", ![c].ans = ans]
        PROVE  CommandInv'
    <2> DEFINE r == [client[c] EXCEPT !.at = "answered", !.ans = ans]
    <2>1. client' = [client EXCEPT ![c] = r]
      BY <1>3 DEF CommandInv
    <2>2. /\ IsClient(r) /\ r.at = "answered" /\ r.ans = ans /\ r.cmd = client[c].cmd
          /\ r.acted = client[c].acted /\ r.found = client[c].found
      BY <1>1 DEF Commanded, IsClient, Fields
    <2> HIDE DEF r
    <2>3. Commanded(r, fs.files)
      BY <1>1, <1>3, <2>2 DEF Commanded, Points
    <2> QED BY <2>1, <2>3, OneCommanded
  <1>4. ASSUME NEW c \in Clients, Dial(c)
        PROVE  CommandInv'
    <2>1. CASE client' = [client EXCEPT ![c].at = "sent", ![c].to = socket]
      <3> DEFINE r == [client[c] EXCEPT !.at = "sent", !.to = socket]
      <3>1. client' = [client EXCEPT ![c] = r]
        BY <2>1 DEF CommandInv
      <3>2. /\ IsClient(r) /\ r.at = "sent" /\ r.cmd = client[c].cmd
            /\ r.acted = client[c].acted /\ r.found = client[c].found /\ r.req = client[c].req
        BY <1>1 DEF Commanded, IsClient, Fields
      <3>3. client[c].at = "call"
        BY <1>4 DEF Dial, At_
      <3> HIDE DEF r
      <3>4. Commanded(r, fs.files)
        BY <1>1, <3>2, <3>3 DEF Commanded, Points
      <3> QED BY <3>1, <3>4, OneCommanded
    <2> QED BY <1>3, <1>4, <2>1 DEF Dial, At_
  <1>5. ASSUME NEW c \in Clients, Reset(c) \/ Lost(c)
        PROVE  CommandInv'
    BY <1>3, <1>5 DEF Reset, Lost, At_
  <1>6. ASSUME NEW c \in Clients, Handle(c)
        PROVE  CommandInv'
    <2> DEFINE chosen == SelectWorkflowID(rows, client[c].cmd.arg)
               answer(ans) == IF ans = "ok" /\ client[c].req = "list" THEN chosen.kind ELSE ans
               found == IF client[c].req = "list" THEN chosen.id ELSE client[c].found
    <2>1. PICK o \in Outcomes(c) : \E ans \in {o.ans, "error"} :
            client' = [client EXCEPT ![c].at = "answered", ![c].ans = answer(ans),
               ![c].found = IF client[c].req = "list" THEN chosen.id ELSE @,
               ![c].acted = o.acted, ![c].ran = @ \cup o.ran]
      BY ZenonT(40), <1>6 DEF Handle
    <2>2. PICK ans \in {o.ans, "error"} :
            client' = [client EXCEPT ![c].at = "answered", ![c].ans = answer(ans),
               ![c].found = IF client[c].req = "list" THEN chosen.id ELSE @,
               ![c].acted = o.acted, ![c].ran = @ \cup o.ran]
      BY <2>1
    <2> DEFINE r == [client[c] EXCEPT !.at = "answered", !.ans = answer(ans),
                              !.found = found, !.acted = o.acted, !.ran = @ \cup o.ran]
    <2>3. client[c].at = "sent" /\ client[c].req \in Requests \ {"shutdown"}
      BY SMTT(30), <1>6 DEF Handle, At_, RunInv, RanOnce
    <2>4. /\ o.ans \in {"ok", "refused", "notFound"}
          /\ o.acted = << >> \/ (o.acted = client[c].found /\ client[c].req # "list")
      <3>1. client[c].req \in {"exec", "stop", "delete", "restart"} => client[c].found \in Known
        BY <1>1, <2>3 DEF Commanded
      <3> QED BY <2>3, <3>1, OutcomeActs DEF WorldInv
    <2>5. answer(ans) = "found" => found \in Known
      <3> SUFFICES ASSUME answer(ans) = "found" PROVE found \in Known
        OBVIOUS
      <3>1. client[c].req = "list" /\ chosen.kind = "found"
        BY <2>4
      <3>2. \E row_ \in rows : row_.id = chosen.id
        BY <3>1, SelectedIsThere
      <3> HIDE DEF chosen
      <3> QED BY <3>1, <3>2, KnownIds DEF WorldInv
    <2>6. o.acted \in {<< >>, found}
      BY <2>4
    <2> HIDE DEF answer, chosen
    <2>7. client' = [client EXCEPT ![c] = r]
      BY <2>2 DEF CommandInv
    <2> HIDE DEF found
    <2>8. /\ IsClient(r) /\ r.at = "answered" /\ r.cmd = client[c].cmd
          /\ r.ans = answer(ans) /\ r.found = found /\ r.acted = o.acted
      BY ZenonT(40), <1>1 DEF Commanded, IsClient, Fields
    <2> HIDE DEF r
    <2>9. Commanded(r, fs.files)
      BY <1>1, <2>3, <2>5, <2>6, <2>8 DEF Commanded, Points
    <2> QED BY <2>7, <2>9, OneCommanded
  <1>7. ASSUME NEW c \in Clients, HandleShutdown(c)
        PROVE  CommandInv'
    <2>1. client[c].at = "sent"
      BY <1>7 DEF HandleShutdown, At_
    <2>2. CASE client' = [client EXCEPT ![c].at = "waiting"]
      <3> DEFINE r == [client[c] EXCEPT !.at = "waiting"]
      <3>1. client' = [client EXCEPT ![c] = r]
        BY <2>2 DEF CommandInv
      <3>2. /\ IsClient(r) /\ r.at = "waiting" /\ r.cmd = client[c].cmd
            /\ r.found = client[c].found /\ r.acted = client[c].acted
        BY <1>1 DEF Commanded, IsClient, Fields
      <3> HIDE DEF r
      <3>3. Commanded(r, fs.files)
        BY <1>1, <2>1, <3>2 DEF Commanded, Points
      <3> QED BY <3>1, <3>3, OneCommanded
    <2> QED BY <1>3, <1>7, <2>1, <2>2 DEF HandleShutdown
  <1>8. ASSUME NEW c \in Clients, client[c].at = "answered", NEW req,
               req # "start", client[c].cmd.do = "run" => client[c].cmd.arg # << >>,
               req \in {"exec", "stop", "delete", "restart"} => client[c].found \in Known,
               Ask(c, req)
        PROVE  CommandInv'
    <2> DEFINE r == [client[c] EXCEPT !.at = "call", !.req = req, !.to = None, !.ans = "none"]
    <2>1. client' = [client EXCEPT ![c] = r]
      BY <1>8 DEF CommandInv, Ask
    <2>2. /\ IsClient(r) /\ r.at = "call" /\ r.req = req /\ r.cmd = client[c].cmd
          /\ r.found = client[c].found /\ r.acted = client[c].acted
      BY <1>1 DEF Commanded, IsClient, Fields
    <2> HIDE DEF r
    <2>3. Commanded(r, fs.files)
      BY <1>1, <1>8, <2>2 DEF Commanded, Points
    <2> QED BY <2>1, <2>3, OneCommanded
  <1>9. ASSUME NEW c \in Clients, client[c].at = "answered", NEW result,
               client[c].cmd.do = "run" => ~FallsBack(client[c].ans),
               Done(c, result)
        PROVE  CommandInv'
    <2> DEFINE r == [client[c] EXCEPT !.at = "idle", !.req = "none", !.out = result]
    <2>1. client' = [client EXCEPT ![c] = r]
      BY <1>9 DEF CommandInv, Done
    <2>2. /\ IsClient(r) /\ r.at = "idle" /\ r.cmd = client[c].cmd /\ r.ans = client[c].ans
          /\ r.found = client[c].found /\ r.acted = client[c].acted
      BY <1>1 DEF Commanded, IsClient, Fields
    <2> HIDE DEF r
    <2>3. Commanded(r, fs.files)
      BY <1>1, <1>9, <2>2 DEF Commanded, Points
    <2> QED BY <2>1, <2>3, OneCommanded
  <1>10. ASSUME NEW c \in Clients, CheckRunning(c) \/ Poll(c)
         PROVE  CommandInv'
    BY <1>8, <1>9, <1>10 DEF CheckRunning, Poll, Answered, At_
  <1>11. ASSUME NEW c \in Clients, Conclude(c)
         PROVE  CommandInv'
    <2>1. /\ client[c].at = "answered" /\ client[c].cmd.do # "run"
          /\ Done(c, IF client[c].ans = "ok" THEN "ok" ELSE "failed")
      BY <1>11 DEF Conclude, Answered, At_
    <2> QED BY <1>9, <2>1
  <1>12. ASSUME NEW c \in Clients, Mutate(c)
         PROVE  CommandInv'
    <2>1. /\ client[c].at = "answered" /\ client[c].cmd.do \in {"stop", "delete", "restart"}
          /\ \/ client[c].ans = "found" /\ Ask(c, client[c].cmd.do)
             \/ Done(c, "failed")
      BY <1>12 DEF Mutate, Answered, At_
    <2>2. client[c].ans = "found" => client[c].found \in Known
      BY <1>1, <2>1 DEF Commanded
    <2> QED BY <1>8, <1>9, <2>1, <2>2
  <1>13. ASSUME NEW c \in Clients, Run(c)
         PROVE  CommandInv'
    <2>1. client[c].at = "answered" /\ client[c].cmd.do = "run"
      BY <1>13 DEF Run, Answered, At_
    <2>2. /\ client[c].cmd.arg # << >>
          /\ client[c].ans = "found" => client[c].found \in Known
      BY <1>1, <2>1 DEF Commanded
    <2>3. CASE client' = [client EXCEPT ![c].at = "local"]
      <3> DEFINE r == [client[c] EXCEPT !.at = "local"]
      <3>1. client' = [client EXCEPT ![c] = r]
        BY <2>3 DEF CommandInv
      <3>2. /\ IsClient(r) /\ r.at = "local" /\ r.cmd = client[c].cmd
            /\ r.found = client[c].found /\ r.acted = client[c].acted
        BY <1>1 DEF Commanded, IsClient, Fields
      <3> HIDE DEF r
      <3>3. Commanded(r, fs.files)
        BY <1>1, <2>1, <3>2 DEF Commanded, Points
      <3> QED BY <3>1, <3>3, OneCommanded
    <2>4. CASE client[c].ans = "found" /\ Ask(c, "exec")
      BY <1>8, <2>1, <2>2, <2>4
    <2>5. ASSUME NEW result, Done(c, result), ~FallsBack(client[c].ans)
          PROVE  CommandInv'
      BY <1>9, <2>1, <2>5
    <2>6. ~FallsBack("ok")
      BY DEF FallsBack
    <2> QED BY <1>13, <2>3, <2>4, <2>5, <2>6 DEF Run
  <1>14. ASSUME NEW c \in Clients, RunLocally(c)
         PROVE  CommandInv'
    <2> DEFINE target == LocalTarget(client[c].cmd)
               ran == IF target = NoTarget THEN client[c].ran
                      ELSE client[c].ran \cup {"local"}
               out == IF target = NoTarget THEN "failed" ELSE "ok"
               entry == target.entry
               r == [client[c] EXCEPT !.at = "idle", !.entry = entry, !.ran = ran,
                                      !.out = out]
    <2>1. client[c].at = "local"
      BY <1>14 DEF RunLocally, At_
    <2>2. client' = [client EXCEPT ![c] = r]
      BY <1>14 DEF RunLocally, CommandInv
    <2>3. FirstFile(fs.files, Candidates(client[c].cmd), entry)
      BY LocalEntry DEF WorldInv
    <2> HIDE DEF ran, out, entry
    <2>4. /\ IsClient(r) /\ r.at = "idle" /\ r.cmd = client[c].cmd /\ r.entry = entry
          /\ r.found = client[c].found /\ r.acted = client[c].acted
      BY <1>1 DEF Commanded, IsClient, Fields
    <2> HIDE DEF r
    <2>5. Commanded(r, fs.files)
      BY <1>1, <2>3, <2>4 DEF Commanded, Points
    <2> QED BY <2>2, <2>5, OneCommanded
  <1>15. ASSUME NEW p \in Procs, ShutdownReturns(p)
         PROVE  CommandInv'
    <2>1. PICK ans \in {"ok", "refused"} : Returns(p, ans)
      BY <1>15 DEF ShutdownReturns
    <2>2. \A c \in Clients : Commanded(client'[c], fs.files)
      <3> SUFFICES ASSUME NEW c \in Clients PROVE Commanded(client'[c], fs.files)
        OBVIOUS
      <3>1. CASE c = closer[p] /\ client[c].at = "waiting" /\ client[c].to = p
        <4>1. client'[c] = [client[c] EXCEPT !.at = "answered", !.ans = ans]
          BY <2>1, <3>1 DEF Returns
        <4>2. /\ IsClient(client'[c]) /\ client'[c].at = "answered" /\ client'[c].ans = ans
              /\ client'[c].cmd = client[c].cmd /\ client'[c].found = client[c].found
              /\ client'[c].acted = client[c].acted
          BY <1>1, <4>1 DEF Commanded, IsClient, Fields
        <4> QED BY <1>1, <3>1, <4>2 DEF Commanded, Points
      <3>2. CASE ~(c = closer[p] /\ client[c].at = "waiting" /\ client[c].to = p)
        BY <1>1, <2>1, <3>2 DEF Returns
      <3> QED BY <3>1, <3>2
    <2>3. client' = [c \in Clients |-> client'[c]]
      BY <2>1 DEF Returns
    <2> QED BY <2>2, <2>3 DEF CommandInv
  <1>16. CASE UNCHANGED client
    BY <1>16 DEF CommandInv
  <1> QED
    BY <1>2, <1>4, <1>5, <1>6, <1>7, <1>10, <1>11, <1>12, <1>13, <1>14, <1>15, <1>16
       DEF Next, Goes, DaemonStep, Nature, StopRows, vars

(* CommandInv and WorldInv hold in every state.                               *)
LEMMA AlwaysCommanded == Spec => [](WorldInv /\ CommandInv)
  <1>1. Init => WorldInv
    BY SituationsArise DEF Init, WorldInv, Askable
  <1>2. Init => CommandInv
    <2>1. Commanded(Idle, fs.files)
      BY DEF Idle, NoCommand, Commanded, Askable, IsClient, Fields, Points
    <2> QED BY <2>1 DEF Init, CommandInv
  <1>3. WorldInv /\ CommandInv /\ RunInv /\ [Next]_vars => (WorldInv /\ CommandInv)'
    BY WorldStep, CommandStep
  <1> QED BY <1>1, <1>2, <1>3, AlwaysRanOnce, PTL DEF Spec

(* A workflow has one row, under the id of its name and version, whatever the *)
(* handlers and a Shutdown make of the table, and a client waits only for a   *)
(* Shutdown (api.go:179-330, store.go:195, cli.go:218-254).                   *)
THEOREM CliTypeCorrect == Spec => []TypeOK
  <1>1. SharedInv /\ StopInv /\ WorldInv => TypeOK
    BY DEF SharedInv, LockInv, Sharing, StopInv, StopOK, Points, WorldInv, TypeOK
  <1> QED BY <1>1, AlwaysShared, AlwaysStopOK, AlwaysCommanded, PTL

(* The daemon acts on the workflow that the client found in the list, or on   *)
(* none: an id is no other workflow's name or prefix, so the daemon finds no  *)
(* other by it, however the table has changed since (cli.go:218-254, 666-683, *)
(* daemon.go:922).                                                            *)
THEOREM ActsOnFoundHolds == Spec => []ActsOnFound
  <1>1. CommandInv => ActsOnFound
    BY DEF CommandInv, Commanded, ActsOnFound
  <1> QED BY <1>1, AlwaysCommanded, PTL

(* A selector of one character is a sequence.                                 *)
LEMMA OneLetter == \A letter : <<letter>> \in Seq({letter})
  OBVIOUS

(* What a selector names to the client it names to the daemon, for any table  *)
(* and any selector of the menu: LIKE can find more than what a text begins,  *)
(* but not of a text that begins an id (cli.go:685, store.go:195).            *)
THEOREM SelectorsAgreeHolds == Spec => []SelectorsAgree
  <1>1. WorldInv => SelectorsAgree
    <2> SUFFICES ASSUME WorldInv, NEW selector \in Given \cup {<<"A">>, <<"_">>},
                        SelectWorkflowID(rows, selector) # Missing
                 PROVE  ResolveWorkflowSelector(rows, selector) = SelectWorkflowID(rows, selector)
      BY DEF SelectorsAgree
    <2>1. PICK Chars : selector \in Seq(Chars)
      <3>1. CASE selector \in Given
        BY <3>1 DEF Given, WorldInv
      <3>2. CASE selector \notin Given
        <4>1. \E letter : selector = <<letter>>
          BY Zenon, <3>2
        <4> QED BY Zenon, <4>1, OneLetter
      <3> QED BY <3>1, <3>2
    <2>2. IsFiniteSet(rows) /\ \A r \in rows : IsPlain(r.id)
      BY KnownIds DEF WorldInv, IsTable
    <2> QED BY <2>1, <2>2, AgreeOn
  <1> QED BY <1>1, AlwaysCommanded, PTL

(* A local run takes the first of the candidates that is a file, and reports  *)
(* that there is none only if there is none, for any tree of files and any    *)
(* command (cli.go:862-880, engine.go:38-93).                                 *)
THEOREM LocalRunIsDocumentedHolds == Spec => []LocalRunIsDocumented
  <1>1. CommandInv => LocalRunIsDocumented
    BY DEF CommandInv, Commanded, LocalRunIsDocumented
  <1> QED BY <1>1, AlwaysCommanded, PTL
=============================================================================
