----------------------------- MODULE Coordinator -----------------------------
(***************************************************************************)
(* The coordinator node (intranodes_pkg/coordinator_node.py): two action   *)
(* servers, one per operation, whose execute callbacks walk through a long *)
(* pipeline of blocking calls to the camera, vision, robot and tool nodes. *)
(*                                                                         *)
(* A pipeline is data here: the sequence of what the callback does, one    *)
(* entry per call, wait, check or phase that matters to the others.  The   *)
(* robot is the program the coordinator steers without looking at it: it   *)
(* asks the robot node to start a routine, ignores the answer, and polls   *)
(* the RAPID symbol CURRENT_STATE until it reads "0".                      *)
(***************************************************************************)
EXTENDS Lifecycle, Naturals, Sequences

CONSTANTS
  Goals,            \* PerformOperation goals under way, by slot
  Operations,       \* the operations whose goals are sent: "op1", "op2"
  Disturbances      \* what may happen to the robot besides the operation

ASSUME OperationsAssumption == Operations \subseteq {"op1", "op2"}

(* "stop": the RAPID program stops.  "other": another client of the robot  *)
(* node starts a motion.  "refuse": a request of the coordinator is        *)
(* answered with an error (the robot node is not logged in, its keepalive  *)
(* is in flight, RWS fails, the tool node is busy).                        *)
ASSUME DisturbancesAssumption == Disturbances \subseteq {"stop", "other", "refuse"}

VARIABLES
  state,            \* lifecycle_sm.current_state of the coordinator
  op,               \* op[g]: the action server the goal was sent to
  status,           \* status[g]: the goal as the action server sees it
  at,               \* at[g]: the entry of the pipeline the callback is at
  closing,          \* closing[g]: the lifecycle event it has yet to fire
                    \*   before its result goes out
  userInput,        \* _user_input_received
  running,          \* the RAPID program runs
  routine,          \* the routine it executes: CURRENT_STATE is "0" if "none"
  tool,             \* the tool on the robot's flange
  scene,            \* the tool attached in the planning scene
  (* History of the operation under way. *)
  disturbed,        \* there is none, or it had not the robot to itself
  dropped,          \* a routine it ordered was not started
  since             \* motions it ordered after its cancel was accepted

goalVars == <<op, status, at, closing>>
robotVars == <<running, routine, tool, scene>>
history == <<disturbed, dropped, since>>
vars == <<state, goalVars, userInput, robotVars, history>>

-----------------------------------------------------------------------------
(* The pipelines.  "check" and "confirm" and "idle" are the places where a *)
(* cancel request is looked at.                                            *)
Operation1 ==
  <<"scan", "check", "vision", "check", "ready", "confirm", "check", "moving",
    "prepare", "take_tool1", "idle", "move", "idle", "motion", "idle", "move",
    "symbol", "symbol", "idle", "dock_tool1", "idle", "take_tool2", "idle",
    "pick_place", "check", "symbol", "idle", "symbol", "symbol", "check",
    "pick_place", "idle", "dock_tool2", "idle", "take_tool3", "idle", "circle",
    "idle", "dock_tool3", "idle", "move", "idle">>

Operation2 ==
  <<"scan", "check", "vision", "check", "ready", "confirm", "check", "moving",
    "prepare", "idle", "symbol", "take_tool3", "idle", "weld", "idle",
    "dock_tool3", "idle", "move", "idle", "check">>

Pipeline == [op1 |-> Operation1, op2 |-> Operation2]

Tools == {"tool1", "tool2", "tool3"}

(* The tool a routine leaves on the flange, where it changes it, and the   *)
(* tool it counts on finding there.                                        *)
Leaves == [take_tool1 |-> "tool1", take_tool2 |-> "tool2",
           take_tool3 |-> "tool3", dock_tool1 |-> "none",
           dock_tool2 |-> "none",  dock_tool3 |-> "none"]

CountsOn == [take_tool1 |-> "none",  take_tool2 |-> "none",
             take_tool3 |-> "none",  dock_tool1 |-> "tool1",
             dock_tool2 |-> "tool2", dock_tool3 |-> "tool3",
             pick_place |-> "tool2", circle |-> "tool3", weld |-> "tool3"]

Routines == DOMAIN CountsOn \cup {"move"}   \* started by controller_request
Motions == Routines \cup {"motion"}         \* and by the pose array action

Statuses == {"unknown", "sent", "executing", "canceling", "succeeded",
             "canceled", "aborted"}

ClosingEvents == {"complete", "fail_recoverable", "fail_non_recoverable"}

TypeOK ==
  /\ state \in NodeStates
  /\ op \in [Goals -> Operations \cup {"none"}]
  /\ status \in [Goals -> Statuses]
  /\ at \in [Goals -> Nat]
  /\ \A g \in Goals : op[g] # "none" => at[g] <= Len(Pipeline[op[g]]) + 1
  /\ closing \in [Goals -> ClosingEvents \cup {"none"}]
  /\ userInput \in BOOLEAN /\ running \in BOOLEAN
  /\ routine \in Motions \cup {"none", "other"}
  /\ tool \in Tools \cup {"none"} /\ scene \in Tools \cup {"none"}
  /\ disturbed \in BOOLEAN /\ dropped \in BOOLEAN /\ since \in Nat

Init ==
  /\ state = "not_initialized"
  /\ op = [g \in Goals |-> "none"]
  /\ status = [g \in Goals |-> "unknown"]
  /\ at = [g \in Goals |-> 0]
  /\ closing = [g \in Goals |-> "none"]
  /\ userInput = FALSE
  /\ running = FALSE /\ routine = "none" /\ tool = "none" /\ scene = "none"
  /\ disturbed = TRUE /\ dropped = FALSE /\ since = 0

-----------------------------------------------------------------------------
(* Goals and their callbacks.                                              *)

(* The goal is over for the action server: its slot is free. *)
Forget(g) ==
  /\ status' = [status EXCEPT ![g] = "unknown"]
  /\ op' = [op EXCEPT ![g] = "none"]
  /\ at' = [at EXCEPT ![g] = 0]
  /\ closing' = [closing EXCEPT ![g] = "none"]

Send(g, o) ==
  /\ status[g] = "unknown"
  /\ status' = [status EXCEPT ![g] = "sent"]
  /\ op' = [op EXCEPT ![g] = o]
  /\ UNCHANGED <<state, at, closing, userInput, robotVars, history>>

Accept(g) ==
  /\ status[g] = "sent"
  /\ Allowed("start_operation", state)
  /\ state' = Fire("start_operation", state)
  /\ status' = [status EXCEPT ![g] = "executing"]
  /\ at' = [at EXCEPT ![g] = 1]
  /\ disturbed' = (<<routine, tool, scene>> # <<"none", "none", "none">>)
  /\ dropped' = FALSE /\ since' = 0
  /\ UNCHANGED <<op, closing, userInput, robotVars>>

Reject(g) ==
  /\ status[g] = "sent"
  /\ ~Allowed("start_operation", state)
  /\ Forget(g)
  /\ UNCHANGED <<state, userInput, robotVars, history>>

(* cancel_callback accepts whatever the pipeline is doing. *)
Cancel(g) ==
  /\ status[g] = "executing"
  /\ status' = [status EXCEPT ![g] = "canceling"]
  /\ UNCHANGED <<state, op, at, closing, userInput, robotVars, history>>

(* The service the operator's confirmation arrives by.  It does not look   *)
(* whether an operation waits for one.                                     *)
UserInput ==
  /\ userInput' = TRUE
  /\ UNCHANGED <<state, goalVars, robotVars, history>>

-----------------------------------------------------------------------------
(* The execute callbacks.                                                  *)

Live(g) == status[g] \in {"executing", "canceling"}
Canceling(g) == status[g] = "canceling"

Done(g) == at[g] = Len(Pipeline[op[g]]) + 1
Here(g) == Pipeline[op[g]][at[g]]
Does(g, what) == Live(g) /\ ~Done(g) /\ Here(g) \in what

Advance(g) ==
  /\ at' = [at EXCEPT ![g] = @ + 1]
  /\ UNCHANGED <<state, op, status, closing>>

(* The goal becomes terminal first; the lifecycle event follows.           *)
End(g, s, event) ==
  /\ status' = [status EXCEPT ![g] = s]
  /\ closing' = [closing EXCEPT ![g] = event]
  /\ UNCHANGED <<state, op, at>>

(* Mutants of HandleCancel: a status the action server does not know, and  *)
(* a result that goes out without its lifecycle event.                     *)
HandleCancelMisspelt(g) == End(g, "cancelled", "complete")

HandleCancelSilent(g) == End(g, "canceled", "none")

HandleCancel(g) == End(g, "canceled", "complete")

(* A call of another node raises: NodeExceptionRecoverable where the call  *)
(* fails, ServiceCallException, hence not recoverable, where it times out. *)
Raise(g) ==
  \E event \in {"fail_recoverable", "fail_non_recoverable"} :
    End(g, "aborted", event)

Sense(g) ==
  /\ Does(g, {"scan", "vision"})
  /\ Advance(g) \/ Raise(g)
  /\ UNCHANGED <<userInput, robotVars, history>>

CheckCancel(g) ==
  /\ Does(g, {"check"})
  /\ IF Canceling(g) THEN HandleCancel(g) ELSE Advance(g)
  /\ UNCHANGED <<userInput, robotVars, history>>

Publish(g) ==
  /\ Does(g, {"ready", "moving"})
  /\ Advance(g)
  /\ UNCHANGED <<userInput, robotVars, history>>

(* Mutants of WaitForUserInput: the flag is not reset, or the wait does    *)
(* not look at cancel requests.                                            *)
WaitForUserInputSticky(g) ==
  /\ Does(g, {"confirm"})
  /\ IF userInput THEN Advance(g) ELSE Canceling(g) /\ HandleCancel(g)
  /\ UNCHANGED <<userInput, robotVars, history>>

WaitForUserInputDeaf(g) ==
  /\ Does(g, {"confirm"})
  /\ userInput /\ Advance(g)
  /\ userInput' = FALSE
  /\ UNCHANGED <<robotVars, history>>

WaitForUserInput(g) ==
  /\ Does(g, {"confirm"})
  /\ IF userInput THEN Advance(g) ELSE Canceling(g) /\ HandleCancel(g)
  /\ userInput' = FALSE
  /\ UNCHANGED <<robotVars, history>>

(* set_rapid_symbol_raw, which works whatever the robot does.  An error    *)
(* leaves the old value in place and is not looked at.                     *)
SetSymbol(g) ==
  /\ Does(g, {"symbol"})
  /\ \/ Advance(g) /\ UNCHANGED <<disturbed, dropped>>
     \/ /\ "refuse" \in Disturbances
        /\ Advance(g)
        /\ disturbed' = TRUE /\ dropped' = TRUE
     \/ Raise(g) /\ UNCHANGED <<disturbed, dropped>>
  /\ UNCHANGED <<userInput, robotVars, since>>

(* make_robot_ready starts a stopped program at its beginning, or fails;   *)
(* the coordinator goes on either way.                                     *)
MakeRobotReady(g) ==
  /\ Does(g, {"prepare"})
  /\ \/ /\ Advance(g) \/ Raise(g)
        /\ running' = TRUE
        /\ routine' = IF running THEN routine ELSE "none"
        /\ UNCHANGED disturbed
     \/ /\ "refuse" \in Disturbances
        /\ Advance(g)
        /\ disturbed' = TRUE
        /\ UNCHANGED <<running, routine>>
     \/ /\ Raise(g)
        /\ UNCHANGED <<running, routine, disturbed>>
  /\ UNCHANGED <<userInput, tool, scene, dropped, since>>

(* Mutants of WaitForRapidIdle: any answer to the poll ends the wait, or   *)
(* the wait does not look at cancel requests.                              *)
WaitForRapidIdleHasty(g) ==
  /\ Does(g, {"idle"})
  /\ IF Canceling(g) THEN HandleCancel(g) ELSE Advance(g) \/ Raise(g)
  /\ UNCHANGED <<userInput, robotVars, history>>

WaitForRapidIdleDeaf(g) ==
  /\ Does(g, {"idle"})
  /\ (routine = "none" /\ Advance(g)) \/ Raise(g)
  /\ UNCHANGED <<userInput, robotVars, history>>

(* wait_for_rapid_idle polls CURRENT_STATE, which a stopped program leaves *)
(* as it was, and has no timeout of its own.                               *)
WaitForRapidIdle(g) ==
  /\ Does(g, {"idle"})
  /\ IF Canceling(g) THEN HandleCancel(g)
       ELSE (routine = "none" /\ Advance(g)) \/ Raise(g)
  /\ UNCHANGED <<userInput, robotVars, history>>

RapidIdle == running /\ routine = "none"

(* A motion ordered after a cancel was accepted. *)
CountOrder(g) == since' = IF Canceling(g) THEN since + 1 ELSE since

(* run_rapid_routine and run_move_command start the routine on an idle     *)
(* robot and answer with an error otherwise; the answer is ignored.  The   *)
(* tool node is told next, of the order and not of what became of it, and  *)
(* a failure there is only logged.                                         *)
OrderRoutine(g) ==
  /\ Does(g, Routines)
  /\ CountOrder(g)
  /\ \/ \E started, swapped \in BOOLEAN :
          /\ started => RapidIdle
          /\ "refuse" \notin Disturbances => swapped /\ (RapidIdle => started)
          /\ Advance(g)
          /\ routine' = IF started THEN Here(g) ELSE routine
          /\ scene' = IF swapped /\ Here(g) \in DOMAIN Leaves
                        THEN Leaves[Here(g)] ELSE scene
          /\ dropped' = (dropped \/ ~started)
          /\ disturbed' = (disturbed \/ (RapidIdle /\ ~started) \/ ~swapped)
     \/ /\ Raise(g)
        /\ routine' \in {routine} \cup (IF RapidIdle THEN {Here(g)} ELSE {})
        /\ UNCHANGED <<scene, dropped, disturbed>>
  /\ UNCHANGED <<userInput, running, tool>>

(* send_motion_goal: the robot node rejects the goal of a robot that is    *)
(* not idle; a rejected, failed, cancelled or silent motion is recoverable *)
(* and may still move the robot.                                           *)
SendMotionGoal(g) ==
  /\ Does(g, {"motion"})
  /\ CountOrder(g)
  /\ \/ RapidIdle /\ routine' = "motion" /\ Advance(g)
     \/ /\ routine' \in {routine} \cup (IF RapidIdle THEN {"motion"} ELSE {})
        /\ End(g, "aborted", "fail_recoverable")
  /\ UNCHANGED <<userInput, running, tool, scene, disturbed, dropped>>

Succeed(g) ==
  /\ Live(g) /\ Done(g)
  /\ End(g, "succeeded", "complete")
  /\ UNCHANGED <<userInput, robotVars, history>>

(* The last thing a callback does before it returns its result. *)
Close(g) ==
  /\ closing[g] \in ClosingEvents
  /\ state' = Fire(closing[g], state)
  /\ Forget(g)
  /\ disturbed' = TRUE /\ dropped' = FALSE /\ since' = 0
  /\ UNCHANGED <<userInput, robotVars>>

Step(g) ==
  \/ Sense(g) \/ CheckCancel(g) \/ Publish(g) \/ WaitForUserInput(g)
  \/ SetSymbol(g) \/ MakeRobotReady(g) \/ WaitForRapidIdle(g)
  \/ OrderRoutine(g) \/ SendMotionGoal(g) \/ Succeed(g)

-----------------------------------------------------------------------------
(* The lifecycle services; the bodies they call are empty.                 *)

Serve(event) ==
  /\ Allowed(event, state)
  /\ state' = Fire(event, state)
  /\ UNCHANGED <<goalVars, userInput, robotVars, history>>

Administer ==
  \/ Serve("start_initialization") \/ Serve("start_cleanup")
  \/ Serve("retry_from_recoverable")
  \/ state \in {"initializing", "cleaning_up"} /\ Serve("complete")

(* The robot's own steps. *)
RoutineEnds ==
  /\ running /\ routine # "none"
  /\ routine' = "none"
  /\ tool' = IF routine \in DOMAIN Leaves THEN Leaves[routine] ELSE tool
  /\ UNCHANGED <<state, goalVars, userInput, running, scene, history>>

Disturb ==
  /\ \/ /\ "stop" \in Disturbances /\ running
        /\ running' = FALSE
        /\ UNCHANGED routine
     \/ /\ "other" \in Disturbances /\ RapidIdle
        /\ routine' = "other"
        /\ UNCHANGED running
  /\ disturbed' = TRUE
  /\ UNCHANGED <<state, goalVars, userInput, tool, scene, dropped, since>>

Next ==
  \/ \E g \in Goals :
       \/ \E o \in Operations : Send(g, o)
       \/ Accept(g) \/ Reject(g) \/ Cancel(g) \/ Step(g) \/ Close(g)
  \/ UserInput \/ Administer \/ RoutineEnds \/ Disturb

Spec == Init /\ [][Next]_vars

(* A callback runs on a thread of its own, and each of its calls returns   *)
(* or times out.  Nothing is assumed of the robot, the operator or RAPID.  *)
Fairness == \A g \in Goals : WF_vars(Step(g)) /\ WF_vars(Close(g))

FairSpec == Spec /\ Fairness

-----------------------------------------------------------------------------
(* The node is busy exactly while one goal, and no other, is between its   *)
(* acceptance and the lifecycle event that closes it: two goals never walk *)
(* their pipelines at once, a closing event is never refused, and no       *)
(* ending leaves the node busy with nobody to free it.                     *)
Serving(g) == Live(g) \/ closing[g] \in ClosingEvents

ServesOneGoal ==
  /\ \A g, h \in Goals : Serving(g) /\ Serving(h) => g = h
  /\ state = "busy" <=> \E g \in Goals : Serving(g)

(* Once a cancel was accepted, at most one more motion is ordered before   *)
(* the pipeline looks at the request.                                      *)
CancelStopsSoon == since <= 1

(* The pipelines keep what the coordinator promises the operator: whatever *)
(* their entries, motions come only between the confirmation and the       *)
(* result of the one goal that is served, and after a cancel once at most. *)
Confirmed(g) == \E i \in 1..at[g] - 1 : Pipeline[op[g]][i] = "confirm"

Promised == INSTANCE Operation WITH
  serving  <- {g \in Goals : Serving(g)},
  stage    <- IF \E g \in Goals : Live(g) /\ Confirmed(g) THEN "moving"
                ELSE IF \E g \in Goals : Live(g) THEN "looking"
                ELSE IF \E g \in Goals : Serving(g) THEN "over" ELSE "off",
  pressed  <- userInput,
  canceled <- \E g \in Goals : Canceling(g),
  result   <- [g \in Goals |-> IF status[g] \in {"succeeded", "canceled", "aborted"}
                                 THEN status[g] ELSE "none"],
  late     <- since,
  robot    <- routine

ImplementsOperation == Promised!Spec

(* An operation whose robot is left alone never trips over itself: each    *)
(* routine it orders finds the robot idle and is started, with the tool on *)
(* the flange that it counts on, ...                                       *)
RightTool ==
  ~disturbed =>
    /\ ~dropped
    /\ routine \in DOMAIN CountsOn => tool = CountsOn[routine]

(* ... and when it reports success the robot has finished, its flange is   *)
(* free, and the planning scene agrees.                                    *)
SuccessLeavesCellClean ==
  \A g \in Goals :
    status[g] = "succeeded" /\ closing[g] = "complete" /\ ~disturbed =>
      routine = "none" /\ tool = "none" /\ scene = "none"

(* A goal whose cancel was accepted gets its result, whatever the robot    *)
(* and the operator do or fail to do.                                      *)
CancelEnds ==
  \A g \in Goals : Canceling(g) ~> status[g] = "unknown"

(* coordinator_node.py, line 791: "# run weld routine with tool3", and     *)
(* line 504: "# grasp with tool2".                                         *)
WeldsWithTool3 == routine = "weld" => tool = "tool3"

=============================================================================
