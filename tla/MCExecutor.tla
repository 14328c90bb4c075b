----------------------------- MODULE MCExecutor -----------------------------
EXTENDS Executor

Written(kind, field, onData) == [kind |-> kind, field |-> field, onData |-> onData]

(* One node of every kind that runs, and of every kind that is refused. *)
Sound == {Written("call", "callable", "absent"), Written("call", "callable", "function"),
          Written("tap", "callable", "absent"), Written("set", "function", "absent"),
          Written("filter", "function", "absent")}
Refused == {Written(kind, "absent", "absent") : kind \in {"value", "unknown", "none", "other"}}
      \cup {Written("call", field, "absent") : field \in Fields \ {"callable"}}
      \cup {Written("tap", "norun", "absent"), Written("call", "callable", "other"),
            Written("set", "callable", "absent"), Written("filter", "absent", "absent")}
MCDeclared == Sound \cup Refused
=============================================================================
