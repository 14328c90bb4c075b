--------------------------- MODULE DaemonProcess ---------------------------
(***************************************************************************)
(* The processes of lumnd (cmd/lumnd/main.go, and New, Run, Shutdown and   *)
(* Close of internal/daemon/daemon.go) and what they share: the socket     *)
(* file, the TCP port of the webhooks, the PID file and the rows of the    *)
(* executions.  Nothing keeps a second lumnd from booting on the same      *)
(* state directory before it asks for the port.                            *)
(*                                                                         *)
(* Work is one execution per process: Daemon has its steps.  The files are *)
(* names: removing one removes whatever process it leads to.               *)
(***************************************************************************)
CONSTANTS Procs,    \* lumnd processes that can ever be started
          Callers,  \* clients that can ask for a shutdown
          Main,     \* the main goroutine, which a signal makes call Shutdown
          None

ASSUME ProcessConstants == Main \notin Callers /\ None \notin Callers \cup Procs \cup {Main}

VARIABLES
  pc,         \* the point in main and Run
  shut,       \* the point in Shutdown; not "no" is d.shuttingDown
  closer,     \* who is in Shutdown
  socket,     \* the process whose listener the socket file leads to
  listening,  \* the processes whose internal listener is open
  port,       \* the process that has the webhook port
  pidFile,    \* the process the PID file names
  job,        \* the worker: nothing, an execution claimed, or one that runs
  row,        \* the row of the last execution of a process
  late        \* history: the execution escaped the wait of the Shutdown

processVars == <<pc, shut, closer, socket, listening, port, pidFile, job, row, late>>

Ended == {"off", "exited", "killed"}
Alive(p) == pc[p] \notin Ended
Serves(p) == pc[p] \in {"restore", "ready"}

(* A process that has not started, or up and idle. *)
ProcessInit(up) ==
  /\ pc = [p \in Procs |-> IF p = up THEN "ready" ELSE "off"]
  /\ shut = [p \in Procs |-> "no"] /\ closer = [p \in Procs |-> None]
  /\ socket = up /\ port = up /\ pidFile = up
  /\ listening = {up} \cap Procs
  /\ job = [p \in Procs |-> "none"] /\ row = [p \in Procs |-> "none"]
  /\ late = [p \in Procs |-> FALSE]
-----------------------------------------------------------------------------
(* The boot.  At p moves main on.                                             *)
At(p, from, to) == pc[p] = from /\ pc' = [pc EXCEPT ![p] = to]

(* New. *)
Spawn(p) ==
  /\ At(p, "off", "clean")
  /\ UNCHANGED <<shut, closer, socket, listening, port, pidFile, job, row, late>>

(* cleanupInternal, and the Remove that listenInternal begins with.           *)
CleanUp(p) ==
  /\ At(p, "clean", "listen")
  /\ socket' = None
  /\ UNCHANGED <<shut, closer, listening, port, pidFile, job, row, late>>

(* net.Listen: refused if another process has made the file meanwhile.        *)
Listen(p) ==
  /\ \/ /\ socket = None
        /\ At(p, "listen", "bind")
        /\ socket' = p /\ listening' = listening \cup {p}
     \/ /\ socket # None
        /\ At(p, "listen", "exited")
        /\ UNCHANGED <<socket, listening>>
  /\ UNCHANGED <<shut, closer, port, pidFile, job, row, late>>

(* Mutant of Bind: a lumnd without the port goes on without it.               *)
BindAnyway(p) ==
  /\ At(p, "bind", "pid")
  /\ port' = IF port = None THEN p ELSE port
  /\ UNCHANGED <<shut, closer, socket, listening, pidFile, job, row, late>>

(* The port is the only thing a second lumnd does not get.  It then closes    *)
(* its listener, which removes the socket file by name, and exits.            *)
Bind(p) ==
  /\ \/ /\ port = None
        /\ At(p, "bind", "pid")
        /\ port' = p
        /\ UNCHANGED <<socket, listening>>
     \/ /\ port # None
        /\ At(p, "bind", "exited")
        /\ socket' = None /\ listening' = listening \ {p}
        /\ UNCHANGED port
  /\ UNCHANGED <<shut, closer, pidFile, job, row, late>>

WritePid(p) ==
  /\ At(p, "pid", "mark")
  /\ pidFile' = p
  /\ UNCHANGED <<shut, closer, socket, listening, port, job, row, late>>

(* MarkStaleRunningExecutions closes every running row, whoever works on it.  *)
StaleRows == row' = [q \in Procs |-> IF row[q] = "running" THEN "stale" ELSE row[q]]
MarkStale(p) ==
  /\ At(p, "mark", "serve")
  /\ StaleRows
  /\ UNCHANGED <<shut, closer, socket, listening, port, pidFile, job, late>>

(* ApplyRetention, the two servers, and then restoreActiveWorkflows while     *)
(* they serve; main waits for signals only after that.                        *)
Serve(p) ==
  /\ At(p, "serve", "restore")
  /\ UNCHANGED <<shut, closer, socket, listening, port, pidFile, job, row, late>>
Restored(p) ==
  /\ At(p, "restore", "ready")
  /\ UNCHANGED <<shut, closer, socket, listening, port, pidFile, job, row, late>>

(* SIGKILL, SIGTERM before main listens for it, or log.Fatal in the boot: no  *)
(* deferred Close, so the files stay, and lead nowhere.                       *)
Kill(p) ==
  /\ Alive(p)
  /\ pc' = [pc EXCEPT ![p] = "killed"]
  /\ shut' = [shut EXCEPT ![p] = "no"] /\ closer' = [closer EXCEPT ![p] = None]
  /\ listening' = listening \ {p}
  /\ port' = IF port = p THEN None ELSE port
  /\ job' = [job EXCEPT ![p] = "none"] /\ late' = [late EXCEPT ![p] = FALSE]
  /\ UNCHANGED <<socket, pidFile, row>>
-----------------------------------------------------------------------------
(* A worker takes an execution, says that it runs, completes it.  It takes    *)
(* the next one of its queue while a Shutdown waits or cancels the queue.     *)
Claim(p) ==
  /\ Serves(p) /\ shut[p] \in {"no", "wait", "final"}
  /\ job[p] = "none"
  /\ job' = [job EXCEPT ![p] = "claimed"]
  /\ row' = [row EXCEPT ![p] = "running"]
  /\ late' = [late EXCEPT ![p] = shut[p] = "final"]
  /\ UNCHANGED <<pc, shut, closer, socket, listening, port, pidFile>>

Work(p) ==
  /\ job[p] = "claimed"
  /\ job' = [job EXCEPT ![p] = "running"]
  /\ UNCHANGED <<pc, shut, closer, socket, listening, port, pidFile, row, late>>

Complete(p) ==
  /\ job[p] = "running"
  /\ job' = [job EXCEPT ![p] = "none"]
  /\ row' = [row EXCEPT ![p] = "none"]
  /\ late' = [late EXCEPT ![p] = FALSE]
  /\ UNCHANGED <<pc, shut, closer, socket, listening, port, pidFile>>
-----------------------------------------------------------------------------
(* Shutdown.  In p moves it on.                                               *)
In(p, from, to) == shut[p] = from /\ shut' = [shut EXCEPT ![p] = to]

BeginShutdown(p, who) ==
  /\ In(p, "no", "wait")
  /\ closer' = [closer EXCEPT ![p] = who]
  /\ UNCHANGED <<pc, socket, listening, port, pidFile, job, row, late>>

(* Mutant of Signal: main returns where it should wait for the next one.      *)
SignalLeaves(p) ==
  /\ pc[p] = "ready" /\ closer[p] # Main
  /\ IF shut[p] = "no" THEN BeginShutdown(p, Main)
     ELSE /\ pc' = [pc EXCEPT ![p] = "exited"]
          /\ job' = [job EXCEPT ![p] = "none"]
          /\ listening' = listening \ {p}
          /\ port' = IF port = p THEN None ELSE port
          /\ socket' = None /\ pidFile' = None
          /\ UNCHANGED <<shut, closer, row, late>>

(* The loop of main: refused while a Shutdown is, or was, in progress.        *)
Signal(p) ==
  /\ pc[p] = "ready" /\ closer[p] # Main
  /\ IF shut[p] = "no" THEN BeginShutdown(p, Main) ELSE UNCHANGED processVars

(* Mutant of Drained: nobody waits for the worker.                            *)
DrainedAtOnce(p) ==
  /\ In(p, "wait", "final")
  /\ late' = [late EXCEPT ![p] = job[p] = "claimed"]
  /\ UNCHANGED <<pc, closer, socket, listening, port, pidFile, job, row>>

(* waitIdle sees no worker running: an execution just claimed escapes it.     *)
Drained(p) ==
  /\ In(p, "wait", "final")
  /\ job[p] # "running"
  /\ late' = [late EXCEPT ![p] = job[p] = "claimed"]
  /\ UNCHANGED <<pc, closer, socket, listening, port, pidFile, job, row>>

(* It gave up: the workflows accept again and Shutdown returns an error.      *)
DrainTimesOut(p) ==
  /\ In(p, "wait", "no")
  /\ job[p] = "running"
  /\ closer' = [closer EXCEPT ![p] = None]
  /\ UNCHANGED <<pc, socket, listening, port, pidFile, job, row, late>>

(* finalizeWorkflowStop of every workflow.                                    *)
Finalize(p) ==
  /\ In(p, "final", "internal")
  /\ UNCHANGED <<pc, closer, socket, listening, port, pidFile, job, row, late>>

(* One of them returns an error, and shuttingDown stays set for ever.         *)
FinalizeFails(p) ==
  /\ In(p, "final", "stuck")
  /\ closer' = [closer EXCEPT ![p] = None]
  /\ UNCHANGED <<pc, socket, listening, port, pidFile, job, row, late>>

(* internalServer.Shutdown closes the listener, which removes the socket file *)
(* by name, and waits for the calls in progress or for its timeout.           *)
CloseInternal(p) ==
  /\ In(p, "internal", "port")
  /\ socket' = None /\ listening' = listening \ {p}
  /\ UNCHANGED <<pc, closer, port, pidFile, job, row, late>>

ClosePort(p) ==
  /\ In(p, "port", "files")
  /\ port' = IF port = p THEN None ELSE port
  /\ UNCHANGED <<pc, closer, socket, listening, pidFile, job, row, late>>

(* cleanupInternal and the Remove of the PID file, after the port is free.    *)
RemoveFiles(p) ==
  /\ In(p, "files", "over")
  /\ socket' = None /\ pidFile' = None
  /\ UNCHANGED <<pc, closer, listening, port, job, row, late>>

(* main returns if it was main that called Shutdown, and Close removes the    *)
(* files once more.  After the call of a client the process stays.            *)
Leave(p) ==
  /\ pc[p] = "ready" /\ closer[p] = Main /\ shut[p] = "over"
  /\ pc' = [pc EXCEPT ![p] = "exited"]
  /\ socket' = None /\ pidFile' = None
  /\ job' = [job EXCEPT ![p] = "none"] /\ late' = [late EXCEPT ![p] = FALSE]
  /\ UNCHANGED <<shut, closer, listening, port, row>>

Boots(p) == CleanUp(p) \/ Listen(p) \/ Bind(p) \/ WritePid(p) \/ MarkStale(p)
            \/ Serve(p) \/ Restored(p)
Works(p) == Claim(p) \/ Work(p) \/ Complete(p)
Closes(p) == CloseInternal(p) \/ ClosePort(p)

ProcessStep(p) ==
  \/ Spawn(p) \/ Boots(p) \/ Kill(p) \/ Works(p) \/ Signal(p)
  \/ (\E c \in Callers : Serves(p) /\ BeginShutdown(p, c))
  \/ Drained(p) \/ DrainTimesOut(p) \/ Finalize(p) \/ FinalizeFails(p)
  \/ Closes(p) \/ RemoveFiles(p) \/ Leave(p)

ProcessNext == \E p \in Procs : ProcessStep(p)
ProcessSpec == (\E up \in Procs \cup {None} : ProcessInit(up)) /\ [][ProcessNext]_processVars
-----------------------------------------------------------------------------
(* Every variable has its type.                                               *)
ProcessTypeOK ==
  /\ pc \in [Procs -> Ended \cup {"clean", "listen", "bind", "pid", "mark", "serve",
                                  "restore", "ready"}]
  /\ shut \in [Procs -> {"no", "wait", "final", "stuck", "internal", "port", "files", "over"}]
  /\ closer \in [Procs -> Callers \cup {Main, None}]
  /\ {socket, port, pidFile} \subseteq Procs \cup {None}
  /\ listening \subseteq Procs
  /\ job \in [Procs -> {"none", "claimed", "running"}]
  /\ row \in [Procs -> {"none", "running", "stale"}]
  /\ late \in [Procs -> BOOLEAN]

(* A boot closes as stale no execution that another process still works on,   *)
(* however boots, shutdowns, signals and kills interleave: the port serves as *)
(* a lock from before MarkStaleRunningExecutions (daemon.go:137) to after the *)
(* wait of Shutdown.  The exception is an execution that escaped that wait.   *)
NoTheft ==
  [][\A q \in Procs : row[q] = "running" /\ row'[q] = "stale" => ~Alive(q) \/ late[q]]_processVars
=============================================================================
