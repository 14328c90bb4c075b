---------------------------- MODULE BatchPipeline ----------------------------
(***************************************************************************)
(* What the executor promises of a flow: each node takes the batch of the  *)
(* one before it, whole; call replaces it, wherever it stands, set keeps   *)
(* its length and leaves no nil in it, filter keeps a part of it in its    *)
(* order, tap does not change it.  A batch that is emptied does not end    *)
(* the flow: a later call fills it again, and only the end decides that    *)
(* the run was empty.  The report counts the last batch called and the     *)
(* last batch.  A flow with anything else in it fails.                     *)
(*                                                                         *)
(* The tests ask for this (engine_test.go:420, 471 and 510), and docs/     *)
(* index.md:275, 1309-1311 and docs/reference/contracts/workflow.md:26-29  *)
(* describe it.  Other documents want call first and nowhere else, and an  *)
(* empty batch to end the flow: README.md lists them, the code has neither *)
(* rule (dag.go:78, executor.go:58).                                       *)
(***************************************************************************)
EXTENDS Naturals, Sequences

CONSTANTS Objs,   \* Lua values other than nil
          Nil

VARIABLES flow, node, batch, report

IsSubsequence(t, s) ==
  \E at \in [1..Len(t) -> 1..Len(s)] :
    /\ \A i, j \in 1..Len(t) : i < j => at[i] < at[j]
    /\ \A i \in 1..Len(t) : t[i] = s[at[i]]

Init ==
  /\ node = 1
  /\ batch = << >>
  /\ report = [status |-> "running", itemsIn |-> 0, itemsOut |-> 0]

After(kind, count) ==
  CASE kind \in {"call", "callData"} ->
         /\ batch' \in Seq(Objs \cup {Nil})
         /\ kind = "callData" => \A i \in 1..Len(batch') : batch'[i] # Nil
         /\ count = Len(batch')
    [] kind = "set" ->
         /\ Len(batch') = Len(batch)
         /\ \A i \in 1..Len(batch') : batch'[i] # Nil
         /\ count = report.itemsIn
    [] kind = "filter" -> IsSubsequence(batch', batch) /\ count = report.itemsIn
    [] kind = "tap" -> batch' = batch /\ count = report.itemsIn
    [] OTHER -> FALSE

Step ==
  /\ report.status = "running" /\ node <= Len(flow)
  /\ After(flow[node], report'.itemsIn)
  /\ report' = [report EXCEPT !.itemsIn = report'.itemsIn]
  /\ node' = node + 1
  /\ UNCHANGED flow

Finish ==
  /\ report.status = "running" /\ node > Len(flow)
  /\ report' = [report EXCEPT !.itemsOut = Len(batch),
                 !.status = IF flow # << >> /\ batch = << >> THEN "empty" ELSE "ok"]
  /\ UNCHANGED <<flow, node, batch>>

Fail ==
  /\ report.status = "running"
  /\ report' = [report EXCEPT !.status = "error"]
  /\ UNCHANGED <<flow, node, batch>>

Spec == Init /\ [][Step \/ Finish \/ Fail]_<<flow, node, batch, report>>
=============================================================================
