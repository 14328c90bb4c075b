-------------------------------- MODULE Cli --------------------------------
(***************************************************************************)
(* The commands of lumn (internal/cli/cli.go), one call of the API after   *)
(* the other (internal/daemon/client.go), against the processes of         *)
(* DaemonProcess and the handlers of internal/daemon/api.go.               *)
(*                                                                         *)
(* A call is connected through the socket file, waits for a process that   *)
(* serves, is handled and answered; each can come to nothing.  A handler   *)
(* is one step on the table of workflows: Daemon has its steps.  The       *)
(* shutdown is not: its handler waits for the Shutdown of DaemonProcess.   *)
(* That any other handler goes on after its client has given up is left    *)
(* out, beyond an answer that is lost.  Arguments are parsed; watch and    *)
(* logs make calls that status makes.                                      *)
(***************************************************************************)
EXTENDS DaemonProcess, Selectors, Targets, Naturals

CONSTANTS Clients,
          Situations,   \* how things stand before the first command
          MaxCommands,  \* bound: commands given
          Cwd,          \* the working directory of the commands
          IdOf          \* the ids, which are all equally long

ASSUME CliConstants ==
  /\ Callers = Clients /\ MaxCommands \in Nat /\ Cwd \in Seq(FileNames)
  /\ \A w \in DOMAIN IdOf :
       IdOf[w] \in Seq(STRING) /\ \A k \in DOMAIN IdOf[w] : Plain(IdOf[w][k])
  /\ \A w1, w2 \in DOMAIN IdOf :
       /\ Len(IdOf[w1]) = Len(IdOf[w2]) /\ (IdOf[w1] = IdOf[w2] => w1 = w2)
       /\ w1[1] = IdOf[w2] => w1 = w2  \* nobody names a workflow as the id of another

VARIABLES
  rows,        \* the table of workflows
  fs, menu,    \* the files, and the commands that may be given
  client,      \* the command a client carries out, and how it ended
  given,       \* commands given
  overlapped   \* history: processes that were busy beside another one

vars == <<pc, shut, closer, socket, listening, port, pidFile, job, row, late,
          rows, fs, menu, client, given, overlapped>>

(* do with a selector or a name, a version, and the file of -f if any.        *)
NoCommand == [do |-> "none", arg |-> << >>, version |-> "", file |-> {}]
Idle == [cmd |-> NoCommand, at |-> "idle", req |-> "none", to |-> None, ans |-> "none",
         found |-> << >>, acted |-> << >>, ran |-> {}, entry |-> << >>, out |-> "none"]

(* A part of the hash of the name and the version; that two hashes can agree  *)
(* in this part is left out.                                                  *)
WorkflowIDFor(name, version) == IdOf[<<name, version>>]

(* A table: a workflow has one row, under the id of its name and version.     *)
IsTable(table) ==
  /\ IsFiniteSet(table)
  /\ \A r \in table :
       /\ r = [id |-> r.id, name |-> r.name, version |-> r.version, status |-> r.status]
       /\ r.status \in {"active", "stopped"} /\ <<r.name, r.version>> \in DOMAIN IdOf
       /\ r.id = WorkflowIDFor(r.name, r.version)
  /\ \A r1, r2 \in table : r1.id = r2.id => r1 = r2

ASSUME SituationsArise ==
  \A s \in Situations :
    /\ IsTable(s.rows) /\ IsTree(s.fs) /\ s.given \in 0..MaxCommands
    /\ \A cmd \in s.menu :
         /\ cmd.arg \in Seq(STRING)
         /\ cmd.do = "start" => <<cmd.arg, cmd.version>> \in DOMAIN IdOf

Init ==
  /\ \E s \in Situations :
       /\ \E p \in Procs : ProcessInit(IF s.up THEN p ELSE None)
       /\ rows = s.rows /\ fs = s.fs /\ menu = s.menu /\ given = s.given
  /\ client = [c \in Clients |-> Idle]
  /\ overlapped = {}
-----------------------------------------------------------------------------
(* The steps of a client.                                                     *)
Keep == UNCHANGED <<rows, fs, menu, given, overlapped>>
ProcessKept == UNCHANGED processVars
At_(c, points) == client[c].at \in points

Ask(c, req) ==
  client' = [client EXCEPT ![c].at = "call", ![c].req = req, ![c].to = None,
                           ![c].ans = "none"]
Done(c, result) ==
  client' = [client EXCEPT ![c].at = "idle", ![c].req = "none", ![c].out = result]

FirstCall(cmd) ==
  CASE cmd.do \in {"daemonStart", "daemonStatus"} -> "health"
    [] cmd.do = "daemonStop" -> "shutdown"
    [] cmd.do = "start" -> "start"
    [] OTHER -> "list"

(* The target of a start, of a run with -f and of one without arguments.      *)
ForcedTarget(cmd) ==
  IF cmd.file = {} THEN ResolveDefaultTarget(fs, Cwd)
  ELSE ResolveTarget(fs, Append(Cwd, CHOOSE file \in cmd.file : TRUE))

(* A start resolves its target before it calls, a run without a selector      *)
(* calls nobody.                                                              *)
Begin(c) ==
  /\ At_(c, {"idle"}) /\ given < MaxCommands
  /\ given' = given + 1
  /\ \E cmd \in menu :
       client' = [client EXCEPT ![c] =
         [Idle EXCEPT !.cmd = cmd,
            !.req = FirstCall(cmd),
            !.at = IF cmd.do = "run" /\ cmd.arg = << >> THEN "local"
                   ELSE IF cmd.do = "start" /\ ForcedTarget(cmd) = NoTarget THEN "idle"
                   ELSE "call",
            !.out = IF cmd.do = "start" /\ ForcedTarget(cmd) = NoTarget
                    THEN "failed" ELSE "none"]]
  /\ ProcessKept /\ UNCHANGED <<rows, fs, menu, overlapped>>

(* dialInternal, and wrapTransportError for the error of it.                  *)
Dial(c) ==
  /\ At_(c, {"call"})
  /\ client' = IF socket # None /\ socket \in listening
               THEN [client EXCEPT ![c].at = "sent", ![c].to = socket]
               ELSE [client EXCEPT ![c].at = "answered", ![c].ans = "notRunning"]
  /\ ProcessKept /\ Keep

(* A call nobody has read is reset when the listener closes: a net.OpError    *)
(* too, so it counts as not running.                                          *)
Reset(c) ==
  /\ At_(c, {"sent"}) /\ client[c].to \notin listening
  /\ client' = [client EXCEPT ![c].at = "answered", ![c].ans = "notRunning"]
  /\ ProcessKept /\ Keep

(* The timeout of the client, or the end of a process that has read the call. *)
Lost(c) ==
  /\ At_(c, {"sent", "waiting"})
  /\ client' = [client EXCEPT ![c].at = "answered", ![c].ans = "error"]
  /\ ProcessKept /\ Keep
-----------------------------------------------------------------------------
(* The handlers.  An outcome is an answer, the table after it, the workflow   *)
(* acted on and whether it ran.                                               *)
Outcome(ans, table, acted, ran) == [ans |-> ans, rows |-> table, acted |-> acted, ran |-> ran]
Answer(ans) == Outcome(ans, rows, << >>, {})
RowOf(id) == CHOOSE r \in rows : r.id = id
WithStatus(id, status) == (rows \ {RowOf(id)}) \cup {[RowOf(id) EXCEPT !.status = status]}

(* Mutant of StartOutcomes: the old row stays beside the new one.             *)
StartOutcomesInsert(cmd) ==
  LET id == WorkflowIDFor(cmd.arg, cmd.version)
      new == [id |-> id, name |-> cmd.arg, version |-> cmd.version, status |-> "active"]
  IN {Answer("refused"), Outcome("ok", rows \cup {new}, << >>, {})}

(* LoadDefinition may refuse the file, or the activation fail, which deletes  *)
(* a new row.                                                                 *)
StartOutcomes(cmd) ==
  LET id == WorkflowIDFor(cmd.arg, cmd.version)
      old == {r \in rows : r.id = id}
      new == [id |-> id, name |-> cmd.arg, version |-> cmd.version, status |-> "active"]
  IN {Answer("refused"),
      Outcome("refused", (rows \ old) \cup {[r EXCEPT !.status = "stopped"] : r \in old},
              << >>, {}),
      Outcome("ok", (rows \ old) \cup {new}, << >>, {})}

(* Of a call for the workflow that a selector names to the daemon.            *)
IdOutcomes(req, id) ==
  LET active == RowOf(id).status = "active"
  IN CASE req = "exec" ->
            {Answer("refused")} \cup
            (IF active THEN {Outcome(ans, rows, id, {"daemon"}) : ans \in {"ok", "refused"}}
                       ELSE {})
       [] req = "stop" ->
            {Outcome("ok", WithStatus(id, "stopped"), id, {}), Answer("refused")}
       [] req = "delete" ->
            {Outcome("ok", rows \ {RowOf(id)}, id, {}),
             Outcome("refused", WithStatus(id, "stopped"), id, {}), Answer("refused")}
       [] req = "restart" ->
            {Outcome("ok", WithStatus(id, "active"), id, {}),
             Outcome("refused", WithStatus(id, "stopped"), id, {}), Answer("refused")}

(* resolveWorkflow, and the 404 of writeWorkflowError.                        *)
SelectorOutcomes(req, selector) ==
  LET found == ResolveWorkflowSelector(rows, selector)
  IN CASE found = Missing -> {Answer("notFound")}
       [] found = Ambiguous -> {Answer("refused")}
       [] OTHER -> IdOutcomes(req, found.id)

(* Mutant of PathSelector: the selector as it was given.                      *)
PathSelectorGiven(c) == client[c].cmd.arg

(* What the path of the call names.                                           *)
PathSelector(c) == client[c].found

Outcomes(c) ==
  CASE client[c].req \in {"health", "poll", "list"} -> {Answer("ok")}
    [] client[c].req = "start" -> StartOutcomes(client[c].cmd)
    [] OTHER -> SelectorOutcomes(client[c].req, PathSelector(c))

(* A list is searched for the selector by the client that gets it.            *)
Handle(c) ==
  /\ At_(c, {"sent"}) /\ client[c].req # "shutdown" /\ Serves(client[c].to)
  /\ \E o \in Outcomes(c) : \E ans \in {o.ans, "error"} :
       LET chosen == SelectWorkflowID(rows, client[c].cmd.arg)
       IN /\ rows' = o.rows
          /\ client' = [client EXCEPT ![c].at = "answered",
               ![c].ans = IF ans = "ok" /\ client[c].req = "list" THEN chosen.kind ELSE ans,
               ![c].found = IF client[c].req = "list" THEN chosen.id ELSE @,
               ![c].acted = o.acted, ![c].ran = @ \cup o.ran]
  /\ ProcessKept /\ UNCHANGED <<fs, menu, given, overlapped>>

(* handleShutdown, until it is in Shutdown.                                   *)
HandleShutdown(c) ==
  /\ At_(c, {"sent"}) /\ client[c].req = "shutdown"
  /\ \E p \in Procs :
       /\ p = client[c].to /\ Serves(p)
       /\ IF shut[p] = "no"
            THEN /\ BeginShutdown(p, c)
                 /\ client' = [client EXCEPT ![c].at = "waiting"]
            ELSE /\ ProcessKept
                 /\ client' = [client EXCEPT ![c].at = "answered", ![c].ans = "refused"]
  /\ Keep

(* Shutdown returns, and answers if it was a client that called it and the    *)
(* client is still there.                                                     *)
Returns(p, ans) ==
  client' = [c \in Clients |->
    IF c = closer[p] /\ client[c].at = "waiting" /\ client[c].to = p
    THEN [client[c] EXCEPT !.at = "answered", !.ans = ans] ELSE client[c]]

ShutdownReturns(p) ==
  \/ DrainTimesOut(p) /\ Returns(p, "refused") /\ Keep
  \/ FinalizeFails(p) /\ Returns(p, "refused") /\ Keep
  \/ RemoveFiles(p) /\ Returns(p, "ok") /\ Keep

(* finalizeWorkflowStop writes the status of every workflow.                  *)
StopRows(p) ==
  /\ Finalize(p)
  /\ rows' = {[r EXCEPT !.status = "stopped"] : r \in rows}
  /\ UNCHANGED <<fs, menu, given, overlapped, client>>
-----------------------------------------------------------------------------
(* What the command does with an answer.                                      *)
Answered(c, dos, reqs) ==
  At_(c, {"answered"}) /\ client[c].cmd.do \in dos /\ client[c].req \in reqs

(* A process that can still do something to the files.                        *)
Busy(p) == Alive(p) /\ ~(shut[p] = "over" /\ closer[p] # Main)
BusyProcs == {p \in Procs : Busy(p)}

(* startDaemonProcess: a health check, then a new process whatever the error  *)
(* was, then health checks until one is answered or the deadline has passed.  *)
CheckRunning(c) ==
  /\ Answered(c, {"daemonStart"}, {"health"})
  /\ \/ client[c].ans = "ok" /\ Done(c, "alreadyRunning") /\ ProcessKept
        /\ UNCHANGED overlapped
     \/ /\ client[c].ans # "ok"
        /\ \E p \in Procs :
             /\ Spawn(p)
             /\ overlapped' = overlapped \cup
                  (IF BusyProcs = {} THEN {} ELSE BusyProcs \cup {p})
        /\ Ask(c, "poll")
  /\ UNCHANGED <<rows, fs, menu, given>>
Poll(c) ==
  /\ Answered(c, {"daemonStart"}, {"poll"})
  /\ \/ client[c].ans = "ok" /\ Done(c, "ok")
     \/ client[c].ans # "ok" /\ (Ask(c, "poll") \/ Done(c, "notReady"))
  /\ ProcessKept /\ Keep

(* The last call of a command decides.                                        *)
Conclude(c) ==
  /\ \/ Answered(c, {"daemonStatus", "daemonStop", "start"}, {"health", "shutdown", "start"})
     \/ Answered(c, {"stop", "delete", "restart"}, {"stop", "delete", "restart"})
  /\ Done(c, IF client[c].ans = "ok" THEN "ok" ELSE "failed")
  /\ ProcessKept /\ Keep

(* runSelectorMutation: requireDaemonSelector, then the call.                 *)
Mutate(c) ==
  /\ Answered(c, {"stop", "delete", "restart"}, {"list"})
  /\ IF client[c].ans = "found" THEN Ask(c, client[c].cmd.do) ELSE Done(c, "failed")
  /\ ProcessKept /\ Keep

(* Mutant of FallsBack: any failure of the call.                              *)
FallsBackAlways(ans) == ans \in {"notRunning", "notFound", "refused", "error"}

(* IsDaemonNotRunning, or a 404.  A list without the workflow is neither.     *)
FallsBack(ans) == ans \in {"notRunning", "notFound"}

(* runRunCommand up to the fallback.                                          *)
Run(c) ==
  /\ Answered(c, {"run"}, {"list", "exec"})
  /\ \/ client[c].ans = "found" /\ Ask(c, "exec")
     \/ client[c].ans = "ok" /\ Done(c, "ok")
     \/ /\ FallsBack(client[c].ans)
        /\ client' = [client EXCEPT ![c].at = "local"]
     \/ /\ client[c].ans \notin {"found", "ok"} /\ ~FallsBack(client[c].ans)
        /\ Done(c, "failed")
  /\ ProcessKept /\ Keep

(* ResolveLocalSelector and RunTarget.                                        *)
LocalTarget(cmd) ==
  IF cmd.arg = << >> THEN ForcedTarget(cmd)
  ELSE ResolveLocalSelector(fs, Cwd, [base |-> cmd.arg, ext |-> NoExt])
RunLocally(c) ==
  /\ At_(c, {"local"})
  /\ LET target == LocalTarget(client[c].cmd)
     IN client' = [client EXCEPT ![c].at = "idle",
          ![c].entry = target.entry,
          ![c].ran = IF target = NoTarget THEN @ ELSE @ \cup {"local"},
          ![c].out = IF target = NoTarget THEN "failed" ELSE "ok"]
  /\ ProcessKept /\ Keep
-----------------------------------------------------------------------------
Goes(c) ==
  \/ Dial(c) \/ Reset(c) \/ Lost(c) \/ Handle(c) \/ HandleShutdown(c)
  \/ CheckRunning(c) \/ Poll(c) \/ Conclude(c) \/ Mutate(c) \/ Run(c) \/ RunLocally(c)

DaemonStep(p) ==
  \/ (Boots(p) \/ Drained(p) \/ Closes(p) \/ Leave(p)) /\ UNCHANGED client /\ Keep
  \/ ShutdownReturns(p) \/ StopRows(p)

Nature(p) == (Kill(p) \/ Works(p) \/ Signal(p)) /\ UNCHANGED client /\ Keep

Next ==
  \/ \E c \in Clients : Begin(c) \/ Goes(c)
  \/ \E p \in Procs : DaemonStep(p) \/ Nature(p)

Spec == Init /\ [][Next]_vars

(* Go schedules what can run, and a handler or an execution ends; commands,   *)
(* signals and kills need never come.                                         *)
FairSpec ==
  /\ Spec
  /\ \A p \in Procs : WF_vars(DaemonStep(p))
                      /\ WF_vars((Work(p) \/ Complete(p)) /\ UNCHANGED client /\ Keep)
  /\ \A c \in Clients : WF_vars(Goes(c))
-----------------------------------------------------------------------------
(* The variables have their types; a workflow has one row, under the id of    *)
(* its name and version; a client waits only for a Shutdown.                  *)
TypeOK ==
  /\ ProcessTypeOK /\ IsTable(rows)
  /\ \A c \in Clients :
       /\ client[c].at \in {"idle", "call", "sent", "waiting", "answered", "local"}
       /\ client[c].to \in Procs \cup {None}
       /\ client[c].at = "waiting" => client[c].req = "shutdown"
  /\ given \in 0..MaxCommands /\ overlapped \subseteq Procs

(* A daemon that serves can be reached: the socket file and the PID file are  *)
(* its own, also after kills that leave files behind and beside processes     *)
(* that a client has stopped and that never exit.  The exception is a daemon  *)
(* that was busy at the same time as another one, whose boot or end removes   *)
(* the files by name (daemon.go:107, 116, 217, cli.go:448-470).               *)
ServingIsReachable ==
  \A p \in Procs \ overlapped :
    Serves(p) /\ shut[p] \in {"no", "wait", "final", "stuck"}
      => socket = p /\ p \in listening /\ pidFile = p

(* When "daemon stop" says so, the daemon it called works on nothing that its *)
(* Shutdown could wait for, and has given back the port and its files         *)
(* (daemon.go:166-222, api.go:165-177).                                       *)
StoppedMeansStopped ==
  \A c \in Clients :
    LET p == client[c].to
    IN client[c].at = "idle" /\ client[c].cmd.do = "daemonStop" /\ client[c].out = "ok"
         => /\ p \notin {socket, port, pidFile} \cup listening
            /\ job[p] # "none" => late[p]

(* A "run" that the daemon has carried out is never run again by the client,  *)
(* whatever became of the answer (cli.go:139-167).                            *)
RunAtMostOnce == \A c \in Clients : Cardinality(client[c].ran) <= 1

(* The daemon acts on the workflow that the client found in the list, or on   *)
(* none: it must not find another one under the selector, however the table   *)
(* has changed since (cli.go:218-254, 666-683, daemon.go:922).                *)
ActsOnFound == \A c \in Clients : client[c].acted \in {<< >>, client[c].found}

(* What a selector names to the client it names to the daemon: ids first,     *)
(* then names with the latest version, then prefixes (cli.go:685, store.go:   *)
(* 195).  The converse fails: LIKE ignores case and has wildcards.            *)
Given == {cmd.arg : cmd \in menu} \ {<< >>}
SelectorsAgree ==
  \A selector \in Given \cup {<<"A">>, <<"_">>} :
    SelectWorkflowID(rows, selector) # Missing =>
      ResolveWorkflowSelector(rows, selector) = SelectWorkflowID(rows, selector)

(* A local run takes the file that the help of "lumn run" says, and reports   *)
(* that there is none only if there is none: ./lumn.lua; with -f the file, or *)
(* init.lua and then lumn.lua of the directory; for a selector, the local     *)
(* directory and then <selector>.lua, before which a file of just that name   *)
(* is taken (cli.go:862-880, engine.go:38-93).                                *)
InDirectory(name) == <<Cwd \o <<name, InitLua>>, Cwd \o <<name, LumnLua>>>>
Candidates(cmd) ==
  IF cmd.arg # << >>
    THEN LET name == [base |-> cmd.arg, ext |-> NoExt]
         IN InDirectory(name) \o <<Append(Cwd, name), Append(Cwd, [name EXCEPT !.ext = "lua"])>>
  ELSE IF cmd.file = {} THEN <<Append(Cwd, LumnLua)>>
  ELSE LET name == CHOOSE file \in cmd.file : TRUE
       IN InDirectory(name) \o <<Append(Cwd, name)>>
FirstFile(files, paths, entry) ==
  LET there == {k \in DOMAIN paths : paths[k] \in files}
  IN entry = IF there = {} THEN << >> ELSE paths[Min(there)]
LocalRunIsDocumented ==
  \A c \in Clients :
    client[c].cmd.do = "run" /\ client[c].at = "idle"
    /\ (client[c].cmd.arg = << >> \/ FallsBack(client[c].ans))
      => FirstFile(fs.files, Candidates(client[c].cmd), client[c].entry)

(* What .specs/daemon-triggers.md:422-424 expects of "lumn daemon stop": the  *)
(* process ends.                                                              *)
StopEndsProcess ==
  \A p \in Procs : shut[p] = "over" ~> ~Alive(p)
=============================================================================
