----------------------------- MODULE DagBuilder -----------------------------
(***************************************************************************)
(* internal/dag/dag.go: Build, which checks the nodes of a flow one after  *)
(* the other before any of them runs.  What a file can write as a node:    *)
(*   kind    "value"    not a table that can be asked for a field,         *)
(*           "unknown"  the call of an undefined name,                     *)
(*           "none"     a table that no primitive made,                    *)
(*           "other"    a kind that is no primitive,                       *)
(*           or the primitive;                                             *)
(*   field   exec, to or condition, whichever the primitive has:           *)
(*           "absent", an "undefined" name, a "string", a "function",      *)
(*           a table without a name ("unnamed") or without run ("norun"),  *)
(*           or a "callable";                                              *)
(*   onData  "absent", "function" or "other".                              *)
(* A flow that is no table is refused with the file (Executor).            *)
(***************************************************************************)
EXTENDS Naturals, Sequences, FiniteSetsExt

Primitives == {"call", "set", "filter", "tap"}
NodeKinds == Primitives \cup {"value", "unknown", "none", "other"}
Fields == {"absent", "undefined", "string", "function", "unnamed", "norun", "callable"}
Nodes == [kind : NodeKinds, field : Fields, onData : {"absent", "function", "other"}]

Check(fails, error) == [fails |-> fails, error |-> error]
FirstError(checks) ==
  LET failed == {i \in 1..Len(checks) : checks[i].fails}
  IN IF failed = {} THEN "none" ELSE checks[Min(failed)].error
-----------------------------------------------------------------------------
(* Asking a function for the mark of an undefined name raises a Lua error     *)
(* outside of a protected call, which ends the process.                       *)
BindCallable(n) ==
  <<Check(n.field = "absent", "invalid_signature"),
    Check(n.field = "function", "panic"),
    Check(n.field = "undefined", "callable_not_found"),
    Check(n.field = "string", "invalid_signature"),
    Check(n.field = "unnamed", "invalid_signature"),
    Check(n.field = "norun", "invalid_signature")>>

(* Mutant of NodeChecks: the fields of a tap and of a filter go unchecked.    *)
NodeChecksLax(n) ==
  <<Check(n.kind = "value", "panic"),
    Check(n.kind = "unknown", "unknown_primitive"),
    Check(n.kind = "none", "structure"),
    Check(n.kind \notin Primitives, "unknown_primitive")>>
  \o (IF n.kind = "call" THEN BindCallable(n) ELSE << >>)
  \o <<Check(n.kind = "call" /\ n.onData = "other", "invalid_signature"),
       Check(n.kind = "set" /\ n.field # "function", "invalid_signature")>>

(* In the order of the code.                                                  *)
NodeChecks(n) ==
  <<Check(n.kind = "value", "panic"),
    Check(n.kind = "unknown", "unknown_primitive"),
    Check(n.kind = "none", "structure"),
    Check(n.kind \notin Primitives, "unknown_primitive")>>
  \o (IF n.kind \in {"call", "tap"} THEN BindCallable(n) ELSE << >>)
  \o <<Check(n.kind = "call" /\ n.onData = "other", "invalid_signature"),
       Check(n.kind \in {"set", "filter"} /\ n.field # "function", "invalid_signature")>>

NodeError(n) == FirstError(NodeChecks(n))

(* The first node that is refused decides.                                    *)
Build(flow) ==
  LET refused == {i \in 1..Len(flow) : NodeError(flow[i]) # "none"}
  IN IF refused = {} THEN [error |-> "none", position |-> 0]
     ELSE [error |-> NodeError(flow[Min(refused)]), position |-> Min(refused)]

(* The kinds of a flow that is not refused, as Executor has them.             *)
KindsOf(flow) ==
  [i \in 1..Len(flow) |-> IF flow[i].kind = "call" /\ flow[i].onData = "function"
                          THEN "callData" ELSE flow[i].kind]
=============================================================================
