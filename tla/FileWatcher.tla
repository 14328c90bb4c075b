----------------------------- MODULE FileWatcher -----------------------------
(***************************************************************************)
(* internal/daemon/daemon.go: the goroutine of startFileWatcherTrigger and *)
(* its debounce timers, one time.AfterFunc per file.  A timer that is      *)
(* armed may fire at any time: firing starts the goroutine of its callback,*)
(* which runs once it has timersMu.  Reset of a timer that has fired arms  *)
(* it again, and does not take back a callback already started.            *)
(***************************************************************************)
EXTENDS Naturals

CONSTANTS Insts,      \* the instances of managed workflows
          Files,
          Ops,        \* the sets of operations an fsnotify event can have
          None,
          MaxEvents   \* bound: events

VARIABLES
  watcher,   \* its goroutine, its workflow, the kind of event it waits for, and
             \* the maps timers and eventKinds
  timer,     \* the timers made: armed, and callbacks waiting for the lock
  callbacks, \* callbacks that have left the lock and not yet enqueued (two that
             \* would enqueue the same count as one)
  events     \* events so far, the number of the newest timer at most

Timers == 1..MaxEvents
NoTimer == [i |-> 0, file |-> None, armed |-> FALSE, due |-> 0, again |-> FALSE]
Off == [pc |-> "off", w |-> None, want |-> "any",
        timers |-> [f \in Files |-> 0], kinds |-> [f \in Files |-> None]]

WatcherInit ==
  /\ watcher = [i \in Insts |-> Off]
  /\ timer = [t \in Timers |-> NoTimer]
  /\ callbacks = {}
  /\ events = 0

EventKinds == {"create", "modify", "delete"}

KindOf(ops) ==
  CASE "create" \in ops -> "create"
    [] "create" \notin ops /\ "write" \in ops -> "modify"
    [] ops \cap {"create", "write"} = {} /\ ops \cap {"remove", "rename"} # {} -> "delete"
    [] OTHER -> None

(* Whether a trigger for events of kind want takes an event. *)
Match(want, ops) == KindOf(ops) # None /\ want \in {"any", KindOf(ops)}

(* Of workflow w, for events of kind want. *)
Watch(i, w, want) ==
  /\ watcher' = [watcher EXCEPT ![i].pc = "on", ![i].w = w, ![i].want = want]
  /\ UNCHANGED <<timer, callbacks, events>>

(* An event that matches the trigger; others change nothing.  A timer          *)
(* that is reset with its callback still to come is noted (again).             *)
Event(i, f, ops) ==
  LET known == watcher[i].timers[f]
      t == IF known = 0 THEN events + 1 ELSE known
  IN /\ watcher[i].pc = "on" /\ Match(watcher[i].want, ops) /\ events < MaxEvents
     /\ events' = events + 1
     /\ watcher' = [watcher EXCEPT ![i].timers[f] = t, ![i].kinds[f] = KindOf(ops)]
     /\ timer' = [timer EXCEPT ![t] =
          [i |-> i, file |-> f, armed |-> TRUE, due |-> timer[t].due,
           again |-> timer[t].again \/ timer[t].due > 0]]
     /\ UNCHANGED callbacks

TimerFires(t) ==
  /\ timer[t].armed
  /\ timer' = [timer EXCEPT ![t].armed = FALSE, ![t].due = timer[t].due + 1]
  /\ UNCHANGED <<watcher, callbacks, events>>

(* Mutant of Callback: the kind of the event is left in the map. *)
CallbackKeepsKind(t) ==
  LET i == timer[t].i  f == timer[t].file
  IN /\ timer[t].due > 0
     /\ timer' = [timer EXCEPT ![t].due = timer[t].due - 1]
     /\ watcher' = [watcher EXCEPT ![i].timers[f] = 0]
     /\ callbacks' = callbacks \cup {[t |-> t, w |-> watcher[i].w, event |-> watcher[i].kinds[f]]}
     /\ UNCHANGED events

(* The callback under timersMu. *)
Callback(t) ==
  LET i == timer[t].i  f == timer[t].file
  IN /\ timer[t].due > 0
     /\ timer' = [timer EXCEPT ![t].due = timer[t].due - 1]
     /\ watcher' = [watcher EXCEPT ![i].timers[f] = 0, ![i].kinds[f] = None]
     /\ callbacks' = callbacks \cup {[t |-> t, w |-> watcher[i].w, event |-> watcher[i].kinds[f]]}
     /\ UNCHANGED events

(* The callback calls enqueueAsync, and ends. *)
CallbackEnds(c) ==
  /\ c \in callbacks
  /\ callbacks' = callbacks \ {c}
  /\ UNCHANGED <<watcher, timer, events>>

(* Mutant of WatcherStops: the timers run on. *)
WatcherStopsAlone(i) ==
  /\ watcher[i].pc = "on"
  /\ watcher' = [watcher EXCEPT ![i].pc = "exited"]
  /\ UNCHANGED <<timer, callbacks, events>>

(* The goroutine finds stopCh closed: it stops the timers of its map. *)
WatcherStops(i) ==
  /\ watcher[i].pc = "on"
  /\ watcher' = [watcher EXCEPT ![i].pc = "exited"]
  /\ timer' = [t \in Timers |->
       IF \E f \in Files : watcher[i].timers[f] = t
         THEN [timer[t] EXCEPT !.armed = FALSE] ELSE timer[t]]
  /\ UNCHANGED <<callbacks, events>>
-----------------------------------------------------------------------------
(* A burst of events is reported once it is over: as long as the kind of an    *)
(* event waits in the map, a timer of the map will report it, or has fired.    *)
EventIsKept ==
  \A i \in Insts, f \in Files :
    LET t == watcher[i].timers[f]
    IN watcher[i].pc = "on" /\ watcher[i].kinds[f] # None =>
         t # 0 /\ (timer[t].armed \/ timer[t].due > 0)

(* A timer that is armed is in the map of a watcher, which stops it when it    *)
(* stops: none fires for a workflow that was stopped.  The exception, which    *)
(* the code allows: a file of which a fired timer was reset.                   *)
ArmedIsStoppable ==
  \A t \in Timers :
    timer[t].armed =>
      \/ watcher[timer[t].i].pc = "on" /\ watcher[timer[t].i].timers[timer[t].file] = t
      \/ \E s \in Timers :
           timer[s].again /\ timer[s].i = timer[t].i /\ timer[s].file = timer[t].file
=============================================================================
