------------------------------ MODULE Scheduler ------------------------------
(***************************************************************************)
(* internal/daemon/daemon.go: schedulerPlan and the goroutine of           *)
(* startSchedulerTrigger, up to its two calls into the daemon: enqueueAsync*)
(* and SetTriggerRuntime.                                                  *)
(***************************************************************************)
EXTENDS Naturals

CONSTANTS Insts,     \* the instances of managed workflows
          None,
          Interval,  \* of a plan by interval, and between the points of a cron
          MaxTime    \* bound: the clock

VARIABLES
  clock,
  ticker   \* the goroutine: its workflow, the row of its trigger and its plan,
           \* the time it waits for, when its timer last fired, and whether
           \* it had been told to stop by then

Plans == {"interval", "cron"}

(* The next run of a plan after time t. *)
NextRun(plan, t) ==
  IF plan = "interval" THEN t + Interval ELSE (t \div Interval + 1) * Interval

NoTicker == [pc |-> "off", w |-> None, id |-> 0, n |-> 0, plan |-> "cron", next |-> 0, fired |-> 0,
             late |-> FALSE]

SchedulerInit == clock \in 0..(Interval - 1) /\ ticker = [i \in Insts |-> NoTicker]

(* Only while a goroutine can see it. *)
Tick == (\E i \in Insts : ticker[i].pc # "off") /\ clock < MaxTime /\ clock' = clock + 1
        /\ UNCHANGED ticker

(* For trigger n of the rows id of workflow w. *)
StartTicker(i, w, id, n, plan, next) ==
  /\ ticker' = [ticker EXCEPT ![i] =
       [pc |-> "waiting", w |-> w, id |-> id, n |-> n, plan |-> plan,
        next |-> next, fired |-> 0, late |-> FALSE]]
  /\ UNCHANGED clock

(* The timer of the goroutine fires.  If stopCh is closed too, select chooses. *)
TickerFires(i, late) ==
  /\ ticker[i].pc = "waiting" /\ clock >= ticker[i].next
  /\ ticker' = [ticker EXCEPT ![i].pc = "enqueue", ![i].fired = clock, ![i].late = late]
  /\ UNCHANGED clock

(* Mutant of TickerEnqueues: it waits for the same time again. *)
TickerRepeats(i) ==
  /\ ticker[i].pc = "enqueue"
  /\ ticker' = [ticker EXCEPT ![i].pc = "write", ![i].fired = 0, ![i].late = FALSE]
  /\ UNCHANGED clock

(* It has called enqueueAsync, and computes the next run. *)
TickerEnqueues(i) ==
  /\ ticker[i].pc = "enqueue"
  /\ ticker' = [ticker EXCEPT ![i].pc = "write",
                              ![i].next = NextRun(ticker[i].plan, ticker[i].fired),
                              ![i].fired = 0, ![i].late = FALSE]
  /\ UNCHANGED clock

(* It has called SetTriggerRuntime. *)
TickerWrites(i) ==
  /\ ticker[i].pc = "write"
  /\ ticker' = [ticker EXCEPT ![i].pc = "waiting"]
  /\ UNCHANGED clock

(* It finds stopCh closed: only while it waits. *)
TickerStops(i) ==
  /\ ticker[i].pc = "waiting"
  /\ ticker' = [ticker EXCEPT ![i] = NoTicker]
  /\ UNCHANGED clock
=============================================================================
