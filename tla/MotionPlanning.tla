---------------------------- MODULE MotionPlanning ----------------------------
(***************************************************************************)
(* The motion planning node (intranodes_pkg/motion_planning_node.py) and   *)
(* the card of the system control page that plans with it and sends the    *)
(* result to the robot (pages/system_control_page.py).  The node answers a *)
(* request with a series of calls to MoveIt's move_group, each of which    *)
(* may find nothing, fail or time out; it works on one thing at a time,    *)
(* and its other thread is there to refuse what comes in meanwhile.  The   *)
(* page's handlers take turns on one event loop: a handler gives the loop  *)
(* away at every await, and finds the one plan of the page and the Execute *)
(* button as others have left them.                                        *)
(*                                                                         *)
(* A plan stands for its waypoints; the geometry is MoveIt's.              *)
(***************************************************************************)
EXTENDS Lifecycle, Naturals, Sequences

CONSTANTS
  Plans,       \* presses of Plan that may overlap; each names what it plans
  Executes     \* presses of Execute that may overlap

(* No press is mistaken for none. *)
ASSUME NamesAssumption == "none" \notin Plans

VARIABLES
  state,       \* the planner's lifecycle_sm.current_state
  req,         \* the press whose request the planner works on
  calls,       \* the MoveIt services it has still to call for it
  plan,        \* plan[p]: where the press of Plan is
  planned,     \* mp_test_refs['last_waypoints'] is there
  enabled,     \* the Execute button is enabled
  exec,        \* exec[e]: where the press of Execute is
  goal         \* goal[e]: its goal at the robot

plannerVars == <<state, req, calls>>
pageVars == <<planned, enabled>>
vars == <<plannerVars, plan, pageVars, exec, goal>>

None == "none"
Services == {"scene", "ik", "path"}
Modes == {"ompl", "other_planner", "cartesian"}

(* The services a request calls, in order.  The state of the robot that a  *)
(* request starts from takes the attached bodies from the scene, once for  *)
(* the path and once for the inverse kinematics.                           *)
Calls(mode) ==
  IF mode = "other_planner" THEN <<"scene", "scene", "ik", "path">>
                            ELSE <<"scene", "path">>

TypeOK ==
  /\ state \in NodeStates
  /\ req \in Plans \cup {None}
  /\ \E mode \in Modes : \E i \in 1..5 :
        calls = SubSeq(Calls(mode), i, Len(Calls(mode)))
  /\ plan \in [Plans -> {"off", "asked", "ok", "failed"}]
  /\ planned \in BOOLEAN /\ enabled \in BOOLEAN
  /\ exec \in [Executes -> {"off", "coordinator?", "robot?", "ready", "server",
                            "sending", "waiting"}]
  /\ goal \in [Executes -> {"none", "sent", "running", "rejected", "done"}]
  /\ state = "busy" <=> req # None
  /\ state = "busy" <=> calls # <<>>

Init ==
  /\ state = "not_initialized"
  /\ req = None /\ calls = <<>>
  /\ plan = [p \in Plans |-> "off"]
  /\ planned = FALSE /\ enabled = FALSE
  /\ exec = [e \in Executes |-> "off"]
  /\ goal = [e \in Executes |-> "none"]

-----------------------------------------------------------------------------
(* The planner's lifecycle, as the page's buttons ask for it.              *)

LifecycleEvent(event) ==
  /\ Allowed(event, state)
  /\ state' = Fire(event, state)
  /\ UNCHANGED <<req, calls, plan, pageVars, exec, goal>>

Initialize == LifecycleEvent("start_initialization")

Cleanup == LifecycleEvent("start_cleanup")

Recover == LifecycleEvent("retry_from_recoverable")

(* All four MoveIt services are there, or one is missing. *)
EndInitialize ==
  /\ state = "initializing"
  /\ LifecycleEvent("complete") \/ LifecycleEvent("fail_non_recoverable")

EndCleanup == state = "cleaning_up" /\ LifecycleEvent("complete")

-----------------------------------------------------------------------------
(* plan_motion_cb.                                                         *)

(* The page reads the answer unless it has given up on it. *)
Reply(p, answer) ==
  plan' = IF plan[p] = "asked" THEN [plan EXCEPT ![p] = answer] ELSE plan

Waiting(p) == plan[p] = "asked" /\ req # p

StartPlanning(p, mode) ==
  /\ Waiting(p) /\ Allowed("start_operation", state)
  /\ state' = Fire("start_operation", state)
  /\ req' = p /\ calls' = Calls(mode)
  /\ UNCHANGED <<plan, pageVars, exec, goal>>

(* Any state but idle: another request is planned, for one. *)
RefusePlanning(p) ==
  /\ Waiting(p) /\ ~Allowed("start_operation", state)
  /\ Reply(p, "failed")
  /\ UNCHANGED <<plannerVars, pageVars, exec, goal>>

EndPlanning(event, answer) ==
  /\ state' = Fire(event, state)
  /\ Reply(req, answer)
  /\ req' = None /\ calls' = <<>>
  /\ UNCHANGED <<pageVars, exec, goal>>

Calling(service) == calls # <<>> /\ Head(calls) = service

(* The attached bodies, or none when the scene could not be had; and the   *)
(* inverse kinematics when it has found something.                         *)
Answered ==
  /\ Calling("scene") \/ Calling("ik")
  /\ calls' = Tail(calls)
  /\ UNCHANGED <<state, req, plan, pageVars, exec, goal>>

PathFound == Calling("path") /\ EndPlanning("complete", "ok")

(* Mutant of NoPath: the early return leaves the node busy. *)
NoPathReturns ==
  /\ Calling("ik") \/ Calling("path")
  /\ Reply(req, "failed")
  /\ req' = None /\ calls' = <<>>
  /\ UNCHANGED <<state, pageVars, exec, goal>>

(* No inverse kinematics, whatever the reason, or no path, or too little   *)
(* of a Cartesian one: an answer like any other.                           *)
NoPath ==
  /\ Calling("ik") \/ Calling("path")
  /\ EndPlanning("complete", "failed")

(* The call for the path fails, or times out, which the error handler does *)
(* not know and takes for the worse.                                       *)
PathCallFails ==
  /\ Calling("path")
  /\ \E event \in {"fail_recoverable", "fail_non_recoverable"} :
        EndPlanning(event, "failed")

-----------------------------------------------------------------------------
(* The page.  make_robot_ready and the wait for the action server are made *)
(* inside the event loop, which stands still meanwhile.                    *)

LoopRuns == \A e \in Executes : exec[e] \notin {"ready", "server"}

PressPlan(p) ==
  /\ LoopRuns
  /\ plan[p] = "off" /\ req # p
  /\ plan' = [plan EXCEPT ![p] = "asked"]
  /\ UNCHANGED <<plannerVars, pageVars, exec, goal>>

PlanShown(p) ==
  /\ LoopRuns /\ plan[p] = "ok"
  /\ plan' = [plan EXCEPT ![p] = "off"]
  /\ planned' = TRUE /\ enabled' = TRUE
  /\ UNCHANGED <<plannerVars, exec, goal>>

PlanRefused(p) ==
  /\ LoopRuns /\ plan[p] = "failed"
  /\ plan' = [plan EXCEPT ![p] = "off"]
  /\ planned' = FALSE /\ enabled' = FALSE
  /\ UNCHANGED <<plannerVars, exec, goal>>

(* The call times out or fails; the page keeps the plan it has. *)
PlanGivenUp(p) ==
  /\ LoopRuns /\ plan[p] = "asked"
  /\ plan' = [plan EXCEPT ![p] = "off"]
  /\ UNCHANGED <<plannerVars, pageVars, exec, goal>>

(* A press works on the plan it finds, whatever the page plans meanwhile. *)
PressExecute(e) ==
  /\ LoopRuns
  /\ exec[e] = "off" /\ goal[e] = "none" /\ enabled /\ planned
  /\ exec' = [exec EXCEPT ![e] = "coordinator?"]
  /\ UNCHANGED <<plannerVars, plan, pageVars, goal>>

Advance(e, label) ==
  /\ exec' = [exec EXCEPT ![e] = label]
  /\ UNCHANGED <<plannerVars, plan, pageVars, goal>>

(* The press ends; all but two of the ways to end it enable the button. *)
EndPress(e, button) ==
  /\ exec' = [exec EXCEPT ![e] = "off"]
  /\ enabled' = button
  /\ UNCHANGED <<plannerVars, plan, planned>>

Moving == \E e \in Executes : goal[e] = "running"

(* The coordinator is idle, or is not, or does not answer. *)
AskCoordinator(e) ==
  /\ LoopRuns /\ exec[e] = "coordinator?"
  /\ \/ Advance(e, "robot?")
     \/ EndPress(e, enabled) /\ UNCHANGED goal
     \/ EndPress(e, TRUE) /\ UNCHANGED goal

(* The robot is not idle while it moves for another press, and may be busy *)
(* with something else.                                                    *)
AskRobot(e) ==
  /\ LoopRuns /\ exec[e] = "robot?"
  /\ \/ ~Moving /\ Advance(e, "ready")
     \/ EndPress(e, enabled) /\ UNCHANGED goal
     \/ EndPress(e, TRUE) /\ UNCHANGED goal

(* Whatever it answers; or the call fails. *)
MakeRobotReady(e) ==
  /\ exec[e] = "ready"
  /\ \/ Advance(e, "server")
     \/ EndPress(e, TRUE) /\ UNCHANGED goal

ServerMissing(e) ==
  /\ exec[e] = "server"
  /\ EndPress(e, enabled) /\ UNCHANGED goal

SendGoal(e) ==
  /\ exec[e] = "server"
  /\ enabled' = FALSE
  /\ goal' = [goal EXCEPT ![e] = "sent"]
  /\ exec' = [exec EXCEPT ![e] = "sending"]
  /\ UNCHANGED <<plannerVars, plan, planned>>

(* "Goal send timed out": the goal may still be accepted. *)
SendTimesOut(e) ==
  /\ LoopRuns /\ exec[e] = "sending" /\ goal[e] = "sent"
  /\ EndPress(e, TRUE) /\ UNCHANGED goal

(* Mutant of GoalRejected: the early return leaves the button disabled. *)
GoalRejectedReturns(e) ==
  /\ LoopRuns /\ exec[e] = "sending" /\ goal[e] = "rejected"
  /\ goal' = [goal EXCEPT ![e] = "none"]
  /\ EndPress(e, enabled)

GoalRejected(e) ==
  /\ LoopRuns /\ exec[e] = "sending" /\ goal[e] = "rejected"
  /\ goal' = [goal EXCEPT ![e] = "none"]
  /\ EndPress(e, TRUE)

GoalAccepted(e) ==
  /\ LoopRuns /\ exec[e] = "sending" /\ goal[e] \in {"running", "done"}
  /\ Advance(e, "waiting")

Finished(e) ==
  /\ LoopRuns /\ exec[e] = "waiting" /\ goal[e] = "done"
  /\ goal' = [goal EXCEPT ![e] = "none"]
  /\ EndPress(e, TRUE)

-----------------------------------------------------------------------------
(* The robot's joint array action.                                         *)

(* An answer or a result that no handler waits for any more is dropped. *)
Heard(e, s) ==
  /\ goal' = [goal EXCEPT ![e] = IF exec[e] = "off" THEN "none" ELSE s]
  /\ UNCHANGED <<plannerVars, plan, pageVars, exec>>

RobotAccepts(e) ==
  /\ goal[e] = "sent" /\ ~Moving
  /\ goal' = [goal EXCEPT ![e] = "running"]
  /\ UNCHANGED <<plannerVars, plan, pageVars, exec>>

(* It is not idle. *)
RobotRejects(e) == goal[e] = "sent" /\ Heard(e, "rejected")

RobotEnds(e) == goal[e] = "running" /\ Heard(e, "done")

PlanRequest(p) ==
  \/ \E mode \in Modes : StartPlanning(p, mode)
  \/ RefusePlanning(p)

(* What the planner is at goes on, one way or the other. *)
PlannerStep ==
  \/ EndInitialize \/ EndCleanup
  \/ Answered \/ PathFound \/ NoPath \/ PathCallFails

PlanStep(p) == PlanShown(p) \/ PlanRefused(p) \/ PlanGivenUp(p)

ExecuteStep(e) ==
  \/ AskCoordinator(e) \/ AskRobot(e) \/ MakeRobotReady(e)
  \/ ServerMissing(e) \/ SendGoal(e) \/ SendTimesOut(e)
  \/ GoalRejected(e) \/ GoalAccepted(e) \/ Finished(e)

RobotStep(e) == RobotAccepts(e) \/ RobotRejects(e) \/ RobotEnds(e)

Next ==
  \/ Initialize \/ Cleanup \/ Recover \/ PlannerStep
  \/ \E p \in Plans : PressPlan(p) \/ PlanRequest(p) \/ PlanStep(p)
  \/ \E e \in Executes : PressExecute(e) \/ ExecuteStep(e) \/ RobotStep(e)

Spec == Init /\ [][Next]_vars

(* The calls to MoveIt and to the other nodes time out, the executors run, *)
(* the robot ends each trajectory, and the event loop comes round to every *)
(* handler that can go on, however often another one holds it up.          *)
Fairness ==
  /\ WF_vars(PlannerStep)
  /\ \A p \in Plans : SF_vars(PlanStep(p))
  /\ \A e \in Executes : SF_vars(ExecuteStep(e)) /\ WF_vars(RobotStep(e))

FairSpec == Spec /\ Fairness

-----------------------------------------------------------------------------
(* Whatever presses of Plan and Execute overlap and however they end, a    *)
(* plan on the page can be executed: the button is enabled, unless a press *)
(* of Execute that has disabled it has still to end.                       *)
PlanCanBeRun ==
  planned /\ ~enabled =>
    \E e \in Executes : exec[e] \in {"sending", "waiting"}

(* Every press comes to an end and the planner is idle again, or in an     *)
(* error, whatever its calls to MoveIt come to.                            *)
PressesEnd ==
  /\ state \in Operational ~> state \notin Operational
  /\ \A p \in Plans : plan[p] # "off" ~> plan[p] = "off"
  /\ \A e \in Executes : exec[e] # "off" ~> exec[e] = "off"

=============================================================================
