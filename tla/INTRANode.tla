------------------------------ MODULE INTRANode ------------------------------
(***************************************************************************)
(* The base class of every INTRA node (core_pkg/nodes_core.py): the        *)
(* handlers of its services, run by the threads of a MultiThreadedExecutor *)
(* over one reentrant callback group, so that any number of them overlap.  *)
(*                                                                         *)
(* sm_lock is held around each lifecycle transition and released while the *)
(* handler's body runs: a handler is two atomic transitions with a body of *)
(* arbitrary length between them.  What the body does is the subclass's    *)
(* business; here it ends in one of four ways, as the except clauses tell  *)
(* them apart.                                                             *)
(***************************************************************************)
EXTENDS Lifecycle

CONSTANT Calls      \* service calls and action goals being served, by slot

VARIABLES
  state,            \* lifecycle_sm.current_state
  task,             \* task[c]: the handler that serves c and owns the node
  outcome,          \* outcome[c]: how the body of that handler ended, if it did
  initialized,      \* initialize_node() ran to its end and nothing undid it
  process           \* "booting", "spinning", "stopping" or "stopped"

vars == <<state, task, outcome, initialized, process>>

Tasks == {"initialize", "cleanup", "operation"}

(* How a body ends: it returns, or raises NodeExceptionRecoverable,        *)
(* NodeExceptionNonRecoverable or any other exception.                     *)
Endings == {"returned", "recoverable", "non_recoverable", "unexpected"}

TypeOK ==
  /\ state \in NodeStates
  /\ task \in [Calls -> Tasks \cup {"none"}]
  /\ outcome \in [Calls -> Endings \cup {"running"}]
  /\ initialized \in BOOLEAN
  /\ process \in {"booting", "spinning", "stopping", "stopped"}

Opening(t) ==
  CASE t = "initialize" -> "start_initialization"
    [] t = "cleanup"    -> "start_cleanup"
    [] t = "operation"  -> "start_operation"

(* The state the node is in while a handler of this kind owns it. *)
Working(t) ==
  CASE t = "initialize" -> "initializing"
    [] t = "cleanup"    -> "cleaning_up"
    [] t = "operation"  -> "busy"

(* The closing event of a handler.  Every ending has one in                *)
(* initialize_node_cb and in an operation under handle_operation_errors;   *)
(* cleanup_resources_cb has no clause for an unexpected exception.         *)
Closing(ending) ==
  CASE ending = "returned"        -> "complete"
    [] ending = "recoverable"     -> "fail_recoverable"
    [] ending = "non_recoverable" -> "fail_non_recoverable"
    [] ending = "unexpected"      -> "fail_non_recoverable"

Escapes(t, ending) == t = "cleanup" /\ ending = "unexpected"

-----------------------------------------------------------------------------
Init ==
  /\ state = "boot"
  /\ task = [c \in Calls |-> "none"]
  /\ outcome = [c \in Calls |-> "running"]
  /\ initialized = FALSE
  /\ process = "booting"

(* The constructor of the subclass ends with boot_complete; only then does *)
(* main() let the executor spin.                                           *)
Boot ==
  /\ process = "booting"
  /\ state' = Fire("boot_complete", state)
  /\ process' = "spinning"
  /\ UNCHANGED <<task, outcome, initialized>>

(* A handler opens with its start event.  Where the event is not allowed   *)
(* the handler answers status False and has changed nothing.               *)
Start(c, t) ==
  /\ process = "spinning"
  /\ task[c] = "none"
  /\ Allowed(Opening(t), state)
  /\ state' = Fire(Opening(t), state)
  /\ task' = [task EXCEPT ![c] = t]
  /\ outcome' = [outcome EXCEPT ![c] = "running"]
  /\ UNCHANGED <<initialized, process>>

(* The body runs outside sm_lock and ends somehow.  A failed               *)
(* initialization, and a cleanup however it ends, leave nothing a later    *)
(* operation may count on.                                                 *)
Finish(c, ending) ==
  /\ task[c] # "none" /\ outcome[c] = "running"
  /\ outcome' = [outcome EXCEPT ![c] = ending]
  /\ initialized' = CASE task[c] = "initialize" -> ending = "returned"
                      [] task[c] = "cleanup"    -> FALSE
                      [] task[c] = "operation"  -> initialized
  /\ UNCHANGED <<state, task, process>>

(* The handler takes sm_lock again and closes.  A "complete" that is not   *)
(* allowed is caught and answered with status False; a "fail" that is not  *)
(* allowed is raised inside an except clause, and leaves the callback.     *)
Close(c) ==
  /\ task[c] # "none" /\ outcome[c] \in Endings
  /\ ~Escapes(task[c], outcome[c])
  /\ LET event == Closing(outcome[c]) IN
       /\ state' = Fire(event, state)
       /\ process' = IF event = "complete" \/ Allowed(event, state)
                        \/ process # "spinning"
                       THEN process ELSE "stopping"
  /\ task' = [task EXCEPT ![c] = "none"]
  /\ outcome' = [outcome EXCEPT ![c] = "running"]
  /\ UNCHANGED initialized

(* Mutant of Escape: the executor swallows the exception. *)
EscapeSwallowed(c) ==
  /\ task[c] # "none" /\ outcome[c] \in Endings
  /\ Escapes(task[c], outcome[c])
  /\ task' = [task EXCEPT ![c] = "none"]
  /\ outcome' = [outcome EXCEPT ![c] = "running"]
  /\ UNCHANGED <<state, initialized, process>>

(* An exception that leaves a callback leaves executor.spin() too: main()  *)
(* falls into its finally block, and the lifecycle state stays as it was.  *)
Escape(c) ==
  /\ task[c] # "none" /\ outcome[c] \in Endings
  /\ Escapes(task[c], outcome[c])
  /\ task' = [task EXCEPT ![c] = "none"]
  /\ outcome' = [outcome EXCEPT ![c] = "running"]
  /\ process' = IF process = "spinning" THEN "stopping" ELSE process
  /\ UNCHANGED <<state, initialized>>

(* Mutant of Recover: it does not look which state it recovers from. *)
RecoverAnywhere ==
  /\ process = "spinning"
  /\ state' = "idle"
  /\ UNCHANGED <<task, outcome, initialized, process>>

(* recover_from_error_cb tests and transitions under one lock. *)
Recover ==
  /\ process = "spinning"
  /\ state = "error_recoverable"
  /\ state' = Fire("retry_from_recoverable", state)
  /\ UNCHANGED <<task, outcome, initialized, process>>

(* KeyboardInterrupt ends executor.spin(). *)
Interrupt ==
  /\ process = "spinning"
  /\ process' = "stopping"
  /\ UNCHANGED <<state, task, outcome, initialized>>

(* The finally block of main(): executor.shutdown waits five seconds at    *)
(* most, so handlers may still be running; a shutdown event that is not    *)
(* allowed is only logged; cleanup_resources() then runs with no event.    *)
Shutdown ==
  /\ process = "stopping"
  /\ state' = Fire("shutdown", state)
  /\ initialized' = FALSE
  /\ process' = "stopped"
  /\ UNCHANGED <<task, outcome>>

Next ==
  \/ Boot \/ Recover \/ Interrupt \/ Shutdown
  \/ \E c \in Calls :
       \/ \E t \in Tasks : Start(c, t)
       \/ \E ending \in Endings : Finish(c, ending)
       \/ Close(c)
       \/ Escape(c)

Spec == Init /\ [][Next]_vars

(* Every body comes to an end and every handler goes on to its closing     *)
(* event: the executor's threads are real threads and sm_lock is held for  *)
(* single transitions only.  That bodies end is an assumption about the    *)
(* subclasses, which their own modules examine.                            *)
Fairness ==
  \A c \in Calls :
    /\ WF_vars(\E ending \in Endings : Finish(c, ending))
    /\ WF_vars(Close(c))
    /\ WF_vars(Escape(c))

FairSpec == Spec /\ Fairness

-----------------------------------------------------------------------------
(* A handler that opened finds the node where it left it: while a call is  *)
(* being worked on the state is that handler's own, and no second handler  *)
(* is past its start event.  So the closing event of a handler is never    *)
(* refused, although sm_lock is free while the body runs.                  *)
SoleOwner ==
  \A c \in Calls : task[c] # "none" =>
    /\ state = Working(task[c])
    /\ \A d \in Calls : task[d] # "none" => d = c

(* As long as the node serves calls, an operational state has a handler    *)
(* that will leave it: no ending of a body strands the node in a state     *)
(* that neither cleanup, recovery nor shutdown may leave.                  *)
NotStranded ==
  process = "spinning" /\ state \in Operational =>
    \E c \in Calls : task[c] # "none"

(* initialize_node() runs only on a node whose earlier initialization has  *)
(* been undone, whatever errors, recoveries and cleanups came between.     *)
FreshInitialization ==
  \A c \in Calls :
    task[c] = "initialize" /\ outcome[c] = "running" => ~initialized

(* Under the fairness above a serving node always gets out of an           *)
(* operational state, or stops serving.                                    *)
OperationalStateEnds ==
  (process = "spinning" /\ state \in Operational) ~>
    (process # "spinning" \/ state \notin Operational)

(* The base class implements the ownership protocol.  An operational state *)
(* without a handler is closed too: nothing leads out of it.               *)
Owner == INSTANCE Ownership WITH
  Callers <- Calls,
  holders <- {c \in Calls : task[c] # "none"},
  mode <- IF state \notin Operational \cup {"shutting_down"} THEN "free"
            ELSE IF \E c \in Calls : task[c] # "none" THEN "held" ELSE "closed"

(* Every behaviour of the handlers is one of the ownership protocol.       *)
ImplementsOwnership == Owner!Spec

=============================================================================
