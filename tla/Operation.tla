------------------------------ MODULE Operation ------------------------------
(***************************************************************************)
(* What the coordinator promises the operator at the robot, whatever its   *)
(* pipelines consist of.  It works for one goal at a time.  The robot      *)
(* begins a motion for a goal only after a press of the operator's that    *)
(* this goal, and no other, has taken for its confirmation, only before    *)
(* the goal has its result, and once its cancel was accepted only one      *)
(* more.  A goal succeeds only after its confirmation and is canceled only *)
(* when that was asked for.                                                *)
(***************************************************************************)
EXTENDS Naturals

CONSTANTS
  Goals,            \* the goals that may be sent
  Motions           \* what a goal may have the robot do

VARIABLES
  serving,          \* the goals that are worked for: at most one
  stage,            \* "off", "looking", "moving" or "over"
  pressed,          \* a press of the operator's has not been taken yet
  canceled,         \* a cancel was accepted and not followed yet
  result,           \* result[g]: what has been decided of the goal
  late,             \* motions begun or tried since the cancel was accepted
  robot             \* what the robot does: a motion, "none" or "other"

vars == <<serving, stage, pressed, canceled, result, late, robot>>

Init ==
  /\ serving = {} /\ stage = "off"
  /\ pressed = FALSE /\ canceled = FALSE
  /\ result = [g \in Goals |-> "none"]
  /\ late = 0 /\ robot = "none"

Press ==
  /\ pressed' = TRUE
  /\ UNCHANGED <<serving, stage, canceled, result, late, robot>>

Begin(g) ==
  /\ serving = {}
  /\ serving' = {g} /\ stage' = "looking"
  /\ UNCHANGED <<pressed, canceled, result, late, robot>>

Cancel(g) ==
  /\ serving = {g} /\ stage \in {"looking", "moving"}
  /\ canceled' = TRUE
  /\ UNCHANGED <<serving, stage, pressed, result, late, robot>>

Confirm(g) ==
  /\ serving = {g} /\ stage = "looking" /\ pressed
  /\ stage' = "moving" /\ pressed' = FALSE
  /\ UNCHANGED <<serving, canceled, result, late, robot>>

Answer(g, r) ==
  /\ stage' = "over" /\ canceled' = FALSE
  /\ result' = [result EXCEPT ![g] = r]

(* A motion is ordered, which the robot begins if it is free.  The order   *)
(* may fail, and the goal with it, though the robot moves.                 *)
Order(g, motion) ==
  /\ serving = {g} /\ stage = "moving"
  /\ canceled => late = 0
  /\ late' = IF canceled THEN late + 1 ELSE late
  /\ robot' = robot \/ (robot = "none" /\ robot' = motion)
  /\ UNCHANGED <<stage, canceled, result>> \/ Answer(g, "aborted")
  /\ UNCHANGED <<serving, pressed>>

(* The robot may have been made to start over on the way. *)
Decide(g, r) ==
  /\ serving = {g} /\ stage \in {"looking", "moving"}
  /\ r = "succeeded" => stage = "moving"
  /\ r = "canceled" => canceled
  /\ Answer(g, r)
  /\ robot' \in {robot, "none"}
  /\ UNCHANGED <<serving, pressed, late>>

Close(g) ==
  /\ serving = {g} /\ stage = "over"
  /\ serving' = {} /\ stage' = "off"
  /\ result' = [result EXCEPT ![g] = "none"] /\ late' = 0
  /\ UNCHANGED <<pressed, canceled, robot>>

(* A motion ends, or somebody else has begun one. *)
RobotStep ==
  /\ robot' = "none" \/ (robot = "none" /\ robot' = "other")
  /\ UNCHANGED <<serving, stage, pressed, canceled, result, late>>

Next ==
  \/ \E g \in Goals :
       \/ Begin(g) \/ Cancel(g) \/ Confirm(g) \/ Close(g)
       \/ \E motion \in Motions : Order(g, motion)
       \/ \E r \in {"succeeded", "canceled", "aborted"} : Decide(g, r)
  \/ Press \/ RobotStep

Spec == Init /\ [][Next]_vars

=============================================================================
