------------------------- MODULE MotionPlanningProofs -------------------------
(***************************************************************************)
(* For any number of presses of Plan and of Execute: a plan on the page    *)
(* can be executed, in which the planner's own variables play no part, as  *)
(* all its steps leave the page as it is; and the planner is busy exactly  *)
(* while it has a request and calls to make for it, which end with the     *)
(* call for the path.                                                      *)
(***************************************************************************)
EXTENDS MotionPlanning, TLAPS

ExecSteps == {"off", "coordinator?", "robot?", "ready", "server", "sending", "waiting"}

(* What the page's handlers of Execute are at, and the property: it is     *)
(* inductive with the types it speaks of.                                  *)
IInv ==
  /\ exec \in [Executes -> ExecSteps] /\ enabled \in BOOLEAN
  /\ PlanCanBeRun

-----------------------------------------------------------------------------
(* A step that touches neither the page nor a press of Execute. *)
LEMMA Elsewhere ==
  ASSUME IInv, UNCHANGED <<pageVars, exec>>
  PROVE  IInv'
  BY DEF IInv, PlanCanBeRun, pageVars

(* A step of a press that leaves the button alone, and does not take the   *)
(* press out of the two states in which the button may be disabled.        *)
LEMMA Moves ==
  ASSUME IInv, NEW e \in Executes, NEW label \in ExecSteps,
         exec[e] \in {"sending", "waiting"} => label \in {"sending", "waiting"},
         exec' = [exec EXCEPT ![e] = label],
         UNCHANGED pageVars
  PROVE  IInv'
  BY DEF IInv, PlanCanBeRun, pageVars

(* A press that ends enables the button, or had not disabled it. *)
LEMMA PressEnds ==
  ASSUME IInv, NEW e \in Executes, NEW button \in BOOLEAN,
         EndPress(e, button),
         \/ button = TRUE
         \/ button = enabled /\ exec[e] \notin {"sending", "waiting"}
  PROVE  IInv'
  <1>1. exec' \in [Executes -> ExecSteps]
    BY DEF IInv, EndPress, ExecSteps
  <1>2. CASE button = TRUE
    BY <1>1, <1>2 DEF IInv, EndPress, PlanCanBeRun
  <1>3. CASE button = enabled /\ exec[e] \notin {"sending", "waiting"}
    BY <1>1, <1>3 DEF IInv, EndPress, PlanCanBeRun
  <1> QED BY <1>2, <1>3

-----------------------------------------------------------------------------
(* The planner, its requests and the robot never touch the page's Execute. *)
LEMMA OutsideThePage ==
  ASSUME IInv,
         \/ Initialize \/ Cleanup \/ Recover \/ PlannerStep
         \/ \E p \in Plans : PressPlan(p) \/ PlanRequest(p) \/ PlanGivenUp(p)
         \/ \E e \in Executes : RobotStep(e)
         \/ UNCHANGED vars
  PROVE  IInv'
<1>1. CASE Initialize \/ Cleanup \/ Recover
  BY <1>1, Elsewhere DEF Initialize, Cleanup, Recover, LifecycleEvent
<1>2. CASE PlannerStep
  BY <1>2, Elsewhere
    DEF PlannerStep, EndInitialize, EndCleanup, LifecycleEvent, Answered,
        PathFound, NoPath, PathCallFails, EndPlanning
<1>3. CASE \E p \in Plans : PressPlan(p) \/ PlanRequest(p) \/ PlanGivenUp(p)
  BY <1>3, Elsewhere
    DEF PressPlan, PlanRequest, PlanGivenUp, StartPlanning, RefusePlanning, pageVars
<1>4. CASE \E e \in Executes : RobotStep(e)
  BY <1>4, Elsewhere
    DEF RobotStep, RobotAccepts, RobotRejects, RobotEnds, Heard, pageVars
<1>5. CASE UNCHANGED vars
  BY <1>5, Elsewhere DEF vars, pageVars
<1> QED
  BY <1>1, <1>2, <1>3, <1>4, <1>5

(* A plan and the button come and go together. *)
LEMMA Answers ==
  ASSUME IInv, NEW p \in Plans, PlanShown(p) \/ PlanRefused(p)
  PROVE  IInv'
  BY DEF IInv, PlanShown, PlanRefused, PlanCanBeRun

(* A press of Execute and its steps keep the page's invariant. *)
LEMMA Presses ==
  ASSUME IInv, NEW e \in Executes, PressExecute(e) \/ ExecuteStep(e)
  PROVE  IInv'
<1>. enabled \in BOOLEAN
  BY DEF IInv
<1>1. CASE PressExecute(e)
  BY <1>1, Moves DEF PressExecute, ExecSteps
<1>2. CASE AskCoordinator(e)
  <2>1. CASE Advance(e, "robot?")
    BY <1>2, <2>1, Moves DEF AskCoordinator, Advance, ExecSteps
  <2>2. CASE EndPress(e, enabled)
    BY <1>2, <2>2, PressEnds DEF AskCoordinator
  <2>3. CASE EndPress(e, TRUE)
    BY <2>3, PressEnds
  <2> QED
    BY <1>2, <2>1, <2>2, <2>3 DEF AskCoordinator
<1>3. CASE AskRobot(e)
  <2>1. CASE Advance(e, "ready")
    BY <1>3, <2>1, Moves DEF AskRobot, Advance, ExecSteps
  <2>2. CASE EndPress(e, enabled)
    BY <1>3, <2>2, PressEnds DEF AskRobot
  <2>3. CASE EndPress(e, TRUE)
    BY <2>3, PressEnds
  <2> QED
    BY <1>3, <2>1, <2>2, <2>3 DEF AskRobot
<1>4. CASE MakeRobotReady(e)
  <2>1. CASE Advance(e, "server")
    BY <1>4, <2>1, Moves DEF MakeRobotReady, Advance, ExecSteps
  <2>2. CASE EndPress(e, TRUE)
    BY <2>2, PressEnds
  <2> QED
    BY <1>4, <2>1, <2>2 DEF MakeRobotReady
<1>5. CASE ServerMissing(e)
  BY <1>5, PressEnds DEF ServerMissing
<1>6. CASE SendGoal(e)
  (* The press that disables the button is there to enable it. *)
  <2>1. exec' \in [Executes -> ExecSteps] /\ exec'[e] = "sending" /\ enabled' \in BOOLEAN
    BY <1>6 DEF IInv, SendGoal, ExecSteps
  <2> QED
    BY <2>1 DEF IInv, PlanCanBeRun
<1>7. CASE SendTimesOut(e) \/ GoalRejected(e) \/ Finished(e)
  BY <1>7, PressEnds DEF SendTimesOut, GoalRejected, Finished
<1>8. CASE GoalAccepted(e)
  BY <1>8, Moves DEF GoalAccepted, Advance, ExecSteps
<1> QED
  BY <1>1, <1>2, <1>3, <1>4, <1>5, <1>6, <1>7, <1>8 DEF ExecuteStep

-----------------------------------------------------------------------------
(* The inductive invariant holds in every behaviour. *)
THEOREM Invariance == Spec => []IInv
<1>1. Init => IInv
  BY DEF Init, IInv, ExecSteps, PlanCanBeRun
<1>2. IInv /\ [Next]_vars => IInv'
  <2> SUFFICES ASSUME IInv, [Next]_vars
               PROVE  IInv'
    OBVIOUS
  <2>1. CASE \E p \in Plans : PlanShown(p) \/ PlanRefused(p)
    BY <2>1, Answers
  <2>2. CASE \E e \in Executes : PressExecute(e) \/ ExecuteStep(e)
    BY <2>2, Presses
  <2>3. CASE \/ Initialize \/ Cleanup \/ Recover \/ PlannerStep
             \/ \E p \in Plans : PressPlan(p) \/ PlanRequest(p) \/ PlanGivenUp(p)
             \/ \E e \in Executes : RobotStep(e)
             \/ UNCHANGED vars
    BY <2>3, OutsideThePage
  <2> QED
    BY <2>1, <2>2, <2>3 DEF Next, PlanStep
<1> QED
  BY <1>1, <1>2, PTL DEF Spec

(* Whatever presses of Plan and Execute overlap and however they end       *)
(* (system_control_page.py, test_motion_plan and execute_motion_plan), a   *)
(* plan on the page can be executed or is being executed, for any number   *)
(* of presses.                                                             *)
THEOREM PlanStaysRunnable == Spec => []PlanCanBeRun
<1>1. IInv => PlanCanBeRun
  BY DEF IInv
<1> QED
  BY <1>1, Invariance, PTL

-----------------------------------------------------------------------------
(* The planner and the rest of the page.  The calls that a request has     *)
(* still to make are an end of its series, whose last call is for the      *)
(* path.                                                                   *)
Ahead ==
  {<<>>, <<"path">>, <<"scene", "path">>, <<"ik", "path">>, <<"scene", "ik", "path">>,
   <<"scene", "scene", "ik", "path">>}

PlannerOK ==
  /\ state \in NodeStates /\ req \in Plans \cup {None} /\ calls \in Ahead
  /\ plan \in [Plans -> {"off", "asked", "ok", "failed"}]
  /\ planned \in BOOLEAN
  /\ goal \in [Executes -> {"none", "sent", "running", "rejected", "done"}]
  /\ state = "busy" <=> req # None
  /\ state = "busy" <=> calls # <<>>

Rest(mode, i) == SubSeq(Calls(mode), i, Len(Calls(mode)))

(* What the planner still has to call is the rest of one of its two *)
(* series.                                                          *)
LEMMA AheadIsSeries ==
  ASSUME NEW s \in Ahead
  PROVE  \E mode \in Modes : \E i \in 1..5 : s = Rest(mode, i)
<1>1. Calls("ompl") = <<"scene", "path">> /\ Len(Calls("ompl")) = 2
  BY DEF Calls
<1>2. /\ Calls("other_planner") = <<"scene", "scene", "ik", "path">>
      /\ Len(Calls("other_planner")) = 4
  BY DEF Calls
<1>3. CASE s = <<>>
  <2>1. s = SubSeq(<<"scene", "path">>, 3, 2)
    BY <1>3
  <2>2. s = Rest("ompl", 3)
    BY <1>1, <2>1 DEF Rest
  <2> QED
    BY <2>2 DEF Modes
<1>4. CASE s = <<"path">>
  <2>1. s = SubSeq(<<"scene", "path">>, 2, 2)
    BY <1>4
  <2>2. s = Rest("ompl", 2)
    BY <1>1, <2>1 DEF Rest
  <2> QED
    BY <2>2 DEF Modes
<1>5. CASE s = <<"scene", "path">>
  <2>1. s = SubSeq(<<"scene", "path">>, 1, 2)
    BY <1>5
  <2>2. s = Rest("ompl", 1)
    BY <1>1, <2>1 DEF Rest
  <2> QED
    BY <2>2 DEF Modes
<1>6. CASE s = <<"ik", "path">>
  <2>1. s = SubSeq(<<"scene", "scene", "ik", "path">>, 3, 4)
    BY <1>6
  <2>2. s = Rest("other_planner", 3)
    BY <1>2, <2>1 DEF Rest
  <2> QED
    BY <2>2 DEF Modes
<1>7. CASE s = <<"scene", "ik", "path">>
  <2>1. s = SubSeq(<<"scene", "scene", "ik", "path">>, 2, 4)
    BY <1>7
  <2>2. s = Rest("other_planner", 2)
    BY <1>2, <2>1 DEF Rest
  <2> QED
    BY <2>2 DEF Modes
<1>8. CASE s = <<"scene", "scene", "ik", "path">>
  <2>1. s = SubSeq(<<"scene", "scene", "ik", "path">>, 1, 4)
    BY <1>8
  <2>2. s = Rest("other_planner", 1)
    BY <1>2, <2>1 DEF Rest
  <2> QED
    BY <2>2 DEF Modes
<1> QED
  BY <1>3, <1>4, <1>5, <1>6, <1>7, <1>8 DEF Ahead

(* A call for anything but the path is followed by another. *)
LEMMA CallsGoOn ==
  ASSUME NEW s \in Ahead, s # <<>>
  PROVE  /\ Head(s) \in Services
         /\ Head(s) # "path" => Tail(s) \in Ahead /\ Tail(s) # <<>>
<1>1. CASE s = <<"path">>
  BY <1>1 DEF Ahead, Services
<1>2. CASE s = <<"scene", "path">>
  BY <1>2 DEF Ahead, Services
<1>3. CASE s = <<"ik", "path">>
  BY <1>3 DEF Ahead, Services
<1>4. CASE s = <<"scene", "ik", "path">>
  BY <1>4 DEF Ahead, Services
<1>5. CASE s = <<"scene", "scene", "ik", "path">>
  BY <1>5 DEF Ahead, Services
<1> QED
  BY <1>1, <1>2, <1>3, <1>4, <1>5 DEF Ahead

(* Beginning to plan takes an idle planner to busy; each way to end frees  *)
(* it; the page's buttons do neither.                                      *)
LEMMA Fires ==
  /\ \A s \in NodeStates : Allowed("start_operation", s) =>
       Fire("start_operation", s) = "busy" /\ s # "busy"
  /\ \A e \in {"complete", "fail_recoverable", "fail_non_recoverable"} :
       Fire(e, "busy") \in NodeStates \ {"busy"}
  /\ \A s \in NodeStates :
       \A e \in {"start_initialization", "start_cleanup", "retry_from_recoverable"} :
         Allowed(e, s) => Fire(e, s) \in NodeStates \ {"busy"} /\ s # "busy"
  /\ \A s \in {"initializing", "cleaning_up"}, e \in {"complete", "fail_non_recoverable"} :
       Fire(e, s) \in NodeStates \ {"busy"}
  BY DEF Fire, Allowed, Sources, Target, NodeStates, Operational

(* A lifecycle service neither takes the node from a request nor leaves it *)
(* busy.                                                                   *)
LEMMA LifecycleKeepsPlanner ==
  ASSUME PlannerOK,
         Initialize \/ Cleanup \/ Recover \/ EndInitialize \/ EndCleanup
  PROVE  PlannerOK'
<1>1. state' \in NodeStates \ {"busy"} /\ state # "busy"
  BY Fires DEF PlannerOK, Initialize, Cleanup, Recover, EndInitialize, EndCleanup,
               LifecycleEvent
<1>2. UNCHANGED <<req, calls, plan, pageVars, exec, goal>>
  BY DEF Initialize, Cleanup, Recover, EndInitialize, EndCleanup, LifecycleEvent
<1> QED
  BY <1>1, <1>2 DEF PlannerOK, pageVars

(* The page gets its answer. *)
LEMMA Replies ==
  ASSUME PlannerOK, NEW p, NEW answer \in {"ok", "failed"}, Reply(p, answer)
  PROVE  plan' \in [Plans -> {"off", "asked", "ok", "failed"}]
  BY DEF PlannerOK, Reply

(* Each of the closing events frees the node. *)
LEMMA PlanningEnds ==
  ASSUME PlannerOK, calls # <<>>, NEW answer \in {"ok", "failed"},
         NEW event \in {"complete", "fail_recoverable", "fail_non_recoverable"},
         EndPlanning(event, answer)
  PROVE  PlannerOK'
<1>1. state' \in NodeStates \ {"busy"}
  BY Fires DEF PlannerOK, EndPlanning
<1>2. plan' \in [Plans -> {"off", "asked", "ok", "failed"}]
  BY Replies DEF EndPlanning
<1> QED
  BY <1>1, <1>2 DEF PlannerOK, EndPlanning, Ahead, pageVars

(* A request takes the node together with the calls it has to make. *)
LEMMA RequestKeepsPlanner ==
  ASSUME PlannerOK, NEW p \in Plans, PlanRequest(p)
  PROVE  PlannerOK'
<1>1. ASSUME NEW mode \in Modes, StartPlanning(p, mode) PROVE PlannerOK'
  <2>1. state' = "busy"
    BY <1>1, Fires DEF StartPlanning, PlannerOK
  <2>2. calls' \in Ahead /\ calls' # <<>>
    BY <1>1 DEF StartPlanning, Calls, Ahead
  <2>3. req' = p /\ p # None /\ UNCHANGED <<plan, pageVars, exec, goal>>
    BY <1>1, NamesAssumption DEF StartPlanning, None
  <2> QED
    BY <2>1, <2>2, <2>3 DEF PlannerOK, NodeStates, pageVars
<1>2. CASE RefusePlanning(p)
  BY <1>2, Replies DEF RefusePlanning, PlannerOK, plannerVars, pageVars
<1> QED
  BY <1>1, <1>2 DEF PlanRequest

(* A call answered leaves the rest of the series, or ends the request. *)
LEMMA PlannerKeepsPlanner ==
  ASSUME PlannerOK, Answered \/ PathFound \/ NoPath \/ PathCallFails
  PROVE  PlannerOK'
<1>1. calls # <<>> /\ calls \in Ahead
  BY DEF Answered, PathFound, NoPath, PathCallFails, Calling, PlannerOK
<1>2. CASE Answered
  <2>1. calls' \in Ahead /\ calls' # <<>>
    BY <1>1, <1>2, CallsGoOn DEF Answered, Calling
  <2> QED
    BY <1>1, <1>2, <2>1 DEF Answered, PlannerOK, pageVars
<1>3. CASE PathFound
  BY <1>1, <1>3, PlanningEnds DEF PathFound
<1>4. CASE NoPath
  BY <1>1, <1>4, PlanningEnds DEF NoPath
<1>5. CASE PathCallFails
  BY <1>1, <1>5, PlanningEnds DEF PathCallFails
<1> QED
  BY <1>2, <1>3, <1>4, <1>5

(* The page's presses leave the planner alone. *)
LEMMA PageKeepsPlanner ==
  ASSUME PlannerOK,
         \/ \E p \in Plans : PressPlan(p) \/ PlanStep(p)
         \/ \E e \in Executes : PressExecute(e) \/ ExecuteStep(e) \/ RobotStep(e)
         \/ UNCHANGED vars
  PROVE  PlannerOK'
<1> USE DEF PlannerOK, plannerVars, pageVars
<1>1. ASSUME NEW p \in Plans, PressPlan(p) \/ PlanStep(p) PROVE PlannerOK'
  BY <1>1 DEF PressPlan, PlanStep, PlanShown, PlanRefused, PlanGivenUp
<1>2. ASSUME NEW e \in Executes, PressExecute(e) \/ ExecuteStep(e) \/ RobotStep(e)
      PROVE  UNCHANGED <<plannerVars, plan, planned>>
  BY <1>2 DEF PressExecute, ExecuteStep, RobotStep, AskCoordinator, AskRobot,
              MakeRobotReady, ServerMissing, SendGoal, SendTimesOut, GoalRejected,
              GoalAccepted, Finished, Advance, EndPress, RobotAccepts, RobotRejects,
              RobotEnds, Heard
<1>3. ASSUME NEW e \in Executes, PressExecute(e) \/ ExecuteStep(e) \/ RobotStep(e)
      PROVE  goal' \in [Executes -> {"none", "sent", "running", "rejected", "done"}]
  <2>1. CASE PressExecute(e)
    BY <2>1 DEF PressExecute
  <2>2. CASE RobotStep(e)
    BY <2>2 DEF RobotStep, RobotAccepts, RobotRejects, RobotEnds, Heard
  <2>3. CASE ExecuteStep(e)
    BY <2>3 DEF ExecuteStep, AskCoordinator, AskRobot, MakeRobotReady, ServerMissing,
                SendGoal, SendTimesOut, GoalRejected, GoalAccepted, Finished, Advance
  <2> QED
    BY <1>3, <2>1, <2>2, <2>3
<1>4. CASE \E e \in Executes : PressExecute(e) \/ ExecuteStep(e) \/ RobotStep(e)
  BY <1>2, <1>3, <1>4
<1>5. CASE UNCHANGED vars
  BY <1>5 DEF vars
<1> QED
  BY <1>1, <1>4, <1>5

-----------------------------------------------------------------------------
(* The planner is busy exactly while it has a request, and calls to make   *)
(* for it.                                                                 *)
THEOREM PlannerInvariance == Spec => []PlannerOK
<1>1. Init => PlannerOK
  BY DEF Init, PlannerOK, NodeStates, Operational, Ahead, None
<1>2. PlannerOK /\ [Next]_vars => PlannerOK'
  <2> SUFFICES ASSUME PlannerOK, [Next]_vars PROVE PlannerOK'
    OBVIOUS
  <2>1. CASE Initialize \/ Cleanup \/ Recover \/ PlannerStep
    BY <2>1, LifecycleKeepsPlanner, PlannerKeepsPlanner DEF PlannerStep
  <2>2. CASE \E p \in Plans : PlanRequest(p)
    BY <2>2, RequestKeepsPlanner
  <2> QED
    BY <2>1, <2>2, PageKeepsPlanner DEF Next
<1> QED
  BY <1>1, <1>2, PTL DEF Spec

(* Every variable keeps its type, and plan_motion_cb leaves the node busy  *)
(* exactly while it plans: no return of it, and no error of MoveIt's       *)
(* services, keeps or frees the node at the wrong time.                    *)
THEOREM TypeCorrect == Spec => []TypeOK
<1>1. IInv /\ PlannerOK => TypeOK
  <2>1. PlannerOK => \E mode \in Modes : \E i \in 1..5 : calls = Rest(mode, i)
    BY AheadIsSeries DEF PlannerOK
  <2> QED
    BY <2>1 DEF IInv, PlannerOK, TypeOK, ExecSteps, Rest
<1> QED
  BY <1>1, Invariance, PlannerInvariance, PTL

-----------------------------------------------------------------------------
(* The ownership protocol, as the planner keeps it: the press whose        *)
(* request it works on holds the node, and a lifecycle service, which is   *)
(* taken for one more press, while its body runs.                          *)
PlannerOwner == INSTANCE Ownership WITH
  Callers <- Plans \cup {None},
  holders <- IF state \in Operational THEN {req} ELSE {},
  mode <- IF state \in Operational THEN "held" ELSE "free"

(* A step that leaves the planner in operation leaves it to the same call. *)
LEMMA PlannerKept ==
  ASSUME TypeOK, [Next]_vars, state \in Operational, state' \in Operational
  PROVE  state' = state /\ req' = req
<1>1. CASE Initialize \/ Cleanup \/ Recover
  BY <1>1 DEF Initialize, Cleanup, Recover, LifecycleEvent, Allowed, Sources, Operational
<1>2. CASE PlannerStep
  <2>1. ASSUME NEW event \in {"complete", "fail_recoverable", "fail_non_recoverable"},
               state' = Fire(event, state)
        PROVE  FALSE
    BY <2>1 DEF Fire, Allowed, Sources, Target, Operational
  <2> QED
    BY <1>2, <2>1 DEF PlannerStep, EndInitialize, EndCleanup, LifecycleEvent, Answered,
                      PathFound, NoPath, PathCallFails, EndPlanning
<1>3. ASSUME NEW p \in Plans, PressPlan(p) \/ PlanRequest(p) \/ PlanStep(p)
      PROVE  state' = state /\ req' = req
  <2>1. ~Allowed("start_operation", state)
    BY DEF Allowed, Sources, Operational
  <2> QED
    BY <1>3, <2>1 DEF PressPlan, PlanRequest, StartPlanning, RefusePlanning, PlanStep,
                      PlanShown, PlanRefused, PlanGivenUp, plannerVars
<1>4. ASSUME NEW e \in Executes, PressExecute(e) \/ ExecuteStep(e) \/ RobotStep(e)
      PROVE  state' = state /\ req' = req
  BY <1>4 DEF PressExecute, ExecuteStep, RobotStep, AskCoordinator, AskRobot, MakeRobotReady,
              ServerMissing, SendGoal, SendTimesOut, GoalRejected, GoalAccepted, Finished,
              RobotAccepts, RobotRejects, RobotEnds, Heard, Advance, EndPress, plannerVars
<1>5. CASE UNCHANGED vars
  BY <1>5 DEF vars, plannerVars
<1> QED
  BY <1>1, <1>2, <1>3, <1>4, <1>5 DEF Next

(* The planner's steps are steps of the ownership protocol, or none of its *)
(* business.                                                               *)
LEMMA PlannerStepRefines ==
  ASSUME TypeOK, TypeOK', [Next]_vars
  PROVE  [PlannerOwner!Next]_(PlannerOwner!vars)
<1>1. req \in Plans \cup {None} /\ req' \in Plans \cup {None}
  BY DEF TypeOK
<1> USE DEF Operational
<1>2. CASE state \in Operational /\ state' \in Operational
  <2>1. state' = state /\ req' = req
    BY <1>2, PlannerKept
  <2> QED
    BY <2>1 DEF PlannerOwner!vars
<1>3. CASE state \notin Operational /\ state' \in Operational
  BY <1>1, <1>3 DEF PlannerOwner!Next, PlannerOwner!Acquire
<1>4. CASE state \in Operational /\ state' \notin Operational
  BY <1>1, <1>4 DEF PlannerOwner!Next, PlannerOwner!Release
<1>5. CASE state \notin Operational /\ state' \notin Operational
  BY <1>5 DEF PlannerOwner!vars
<1> QED
  BY <1>2, <1>3, <1>4, <1>5

(* The motion planning node implements the ownership protocol.             *)
THEOREM Refinement == Spec => PlannerOwner!Spec
<1>1. Init => PlannerOwner!Init
  BY DEF Init, PlannerOwner!Init, Operational
<1> QED
  BY <1>1, TypeCorrect, PlannerStepRefines, PTL DEF Spec, PlannerOwner!Spec

===============================================================================
