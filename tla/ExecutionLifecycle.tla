------------------------- MODULE ExecutionLifecycle -------------------------
(***************************************************************************)
(* What the store of lumnd promises about one execution, whatever the      *)
(* daemon, its workers and its restarts do: an identifier is used once; an *)
(* execution that was queued either runs once or is cancelled; a recorded  *)
(* outcome is never rewritten; only a finished execution or one whose      *)
(* workflow is deleted disappears.  ExecutionStore implements this.        *)
(***************************************************************************)
CONSTANTS Ids,        \* execution identifiers (AUTOINCREMENT keys)
          Outcomes    \* the statuses a finished execution can have

VARIABLE phase        \* phase[e]: where execution e stands

Phases == {"absent", "queued", "running", "gone"} \cup Outcomes

Init == phase = [e \in Ids |-> "absent"]

(* The phases execution e may be in after a step from phase p. *)
After(p) ==
  CASE p = "absent"  -> {"absent", "queued"}
    [] p = "queued"  -> {"queued", "running", "error", "gone"}
    [] p = "running" -> {"running", "gone"} \cup Outcomes
    [] p \in Outcomes -> {p, "gone"}
    [] OTHER         -> {"gone"}

Next == /\ phase' \in [Ids -> Phases]
        /\ \A e \in Ids : phase'[e] \in After(phase[e])

Spec == Init /\ [][Next]_phase
=============================================================================
