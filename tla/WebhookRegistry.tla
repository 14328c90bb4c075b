--------------------------- MODULE WebhookRegistry ---------------------------
(***************************************************************************)
(* internal/daemon/daemon.go: webhookRegistry, the routes of the webhook   *)
(* server.  Its methods hold the lock of the registry from their first     *)
(* statement to their last, so each is one step.                           *)
(***************************************************************************)
CONSTANTS Workflows,
          Keys,   \* a method and a path
          None

VARIABLE routes   \* the workflow each key is routed to

RegistryInit == routes = [k \in Keys |-> None]

Free(w, k) == routes[k] \in {None, w}

(* Mutant of Register: the conflict is not looked for. *)
RegisterOver(w, k) == routes' = [routes EXCEPT ![k] = w]

(* A workflow may register its own key again; one of another is refused. *)
Register(w, k) == Free(w, k) /\ routes' = [routes EXCEPT ![k] = w]

RegisterRefused(w, k) == ~Free(w, k) /\ UNCHANGED routes

(* unregister of each key of ks. *)
Unregister(w, ks) ==
  routes' = [k \in Keys |-> IF k \in ks /\ routes[k] = w THEN None ELSE routes[k]]

RemoveWorkflow(w) == Unregister(w, Keys)
=============================================================================
