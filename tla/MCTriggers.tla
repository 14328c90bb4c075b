----------------------------- MODULE MCTriggers -----------------------------
(* Triggers for TLC: the lists of triggers a workflow file may hold,
   and events of which the watcher takes the first. *)
EXTENDS Triggers

CONSTANTS w1, w2, k1, k2

Hook(k) == [kind |-> "webhook", key |-> k]
Every == [kind |-> "scheduler", plan |-> "interval"]
Cron == [kind |-> "scheduler", plan |-> "cron"]
OnFile == [kind |-> "file_watcher", event |-> "create"]
MCOps == {{"create", "write"}, {"rename"}, {"chmod"}}

(* The second workflow is there to compete for routes. *)
MCLists == [w \in Workflows |->
  IF w = w1 THEN {<<Hook(k2), Cron>>, <<Every>>, <<OnFile>>} ELSE {<<Hook(k1), Hook(k2)>>}]
=============================================================================
