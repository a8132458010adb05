------------------------------ MODULE Lifecycle ------------------------------
(***************************************************************************)
(* The lifecycle state machine every INTRA node embeds                     *)
(* (core_pkg/nodes_core.py, NodeLifecycleStateMachine): its states, its    *)
(* events, the states each event may leave and the state it leads to.  The *)
(* library raises TransitionNotAllowed for every other pair and leaves the *)
(* state alone.                                                            *)
(***************************************************************************)

NodeStates ==
  {"boot", "not_initialized", "initializing", "idle", "busy", "error",
   "error_recoverable", "cleaning_up", "shutting_down"}

(* The states a handler enters when it starts its work and leaves when the *)
(* work is over: the only ones that "complete" and the two "fail" events   *)
(* may leave.                                                              *)
Operational == {"initializing", "busy", "cleaning_up"}

Events ==
  {"boot_complete", "start_initialization", "start_operation", "complete",
   "fail_recoverable", "fail_non_recoverable", "start_cleanup",
   "retry_from_recoverable", "shutdown"}

Sources(event) ==
  CASE event = "boot_complete"          -> {"boot"}
    [] event = "start_initialization"   -> {"not_initialized"}
    [] event = "start_operation"        -> {"idle"}
    [] event = "complete"               -> Operational
    [] event = "fail_recoverable"       -> Operational
    [] event = "fail_non_recoverable"   -> Operational
    [] event = "start_cleanup"          -> {"idle", "error", "error_recoverable"}
    [] event = "retry_from_recoverable" -> {"error_recoverable"}
    [] event = "shutdown"               -> {"not_initialized", "idle", "error",
                                            "error_recoverable"}

Target(event, from) ==
  CASE event = "boot_complete"          -> "not_initialized"
    [] event = "start_initialization"   -> "initializing"
    [] event = "start_operation"        -> "busy"
    [] event = "complete"               -> IF from = "cleaning_up"
                                             THEN "not_initialized" ELSE "idle"
    [] event = "fail_recoverable"       -> "error_recoverable"
    [] event = "fail_non_recoverable"   -> "error"
    [] event = "start_cleanup"          -> "cleaning_up"
    [] event = "retry_from_recoverable" -> "idle"
    [] event = "shutdown"               -> "shutting_down"

(* Mutants of Allowed: an operation that does not look whether the node is *)
(* idle, and an initialization that a failed node runs again as it is.     *)
AllowedAnywhere(event, from) == event = "start_operation" \/ from \in Sources(event)

AllowedAgain(event, from) ==
  \/ from \in Sources(event)
  \/ event = "start_initialization" /\ from = "error_recoverable"

(* TransitionNotAllowed is raised exactly when this is false. *)
Allowed(event, from) == from \in Sources(event)

(* Mutant of Fire: a refused event loses the state. *)
FireLossy(event, from) == IF Allowed(event, from) THEN Target(event, from) ELSE "none"

(* The state after firing the event, whether it is allowed or not. *)
Fire(event, from) == IF Allowed(event, from) THEN Target(event, from) ELSE from

=============================================================================
