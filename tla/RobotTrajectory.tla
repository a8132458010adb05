--------------------------- MODULE RobotTrajectory ---------------------------
(***************************************************************************)
(* The motion action servers of the robot controller node                  *)
(* (intranodes_pkg/robot_controller_node.py): a goal is a list of points   *)
(* that the execute callback pushes, one POST at a time, into the bounded  *)
(* DIPC queue of the robot's controller, where a RAPID routine takes them  *)
(* out.  A point is sent with userdef "2" if it is the last one and "1"    *)
(* otherwise; on "2" the routine ends and CURRENT_STATE reads "0" again.   *)
(*                                                                         *)
(* The pose and the joint server run the same loop and differ in what the  *)
(* goal callback does with an unexpected exception.                        *)
(***************************************************************************)
EXTENDS Lifecycle, Naturals, Sequences

CONSTANTS
  Goals,            \* goals under way, by slot
  MaxPoints,        \* points in a goal: 0..MaxPoints
  QueueSize,        \* DIPC messages the controller holds
  RetryMax,         \* dipc.retry_max
  Faults            \* what may go wrong

(* "command": a goal with an unsupported motion command.  "rws": a request *)
(* of the goal callback to the controller raises.  "post": a POST fails or *)
(* times out, delivered or not.  "routine": another client of              *)
(* controller_request runs a routine.                                      *)
ASSUME FaultsAssumption == Faults \subseteq {"command", "rws", "post", "routine"}
ASSUME BoundsAssumption ==
  /\ MaxPoints \in Nat /\ RetryMax \in Nat
  /\ QueueSize \in Nat \ {0}

VARIABLES
  state,            \* lifecycle_sm.current_state
  process,          \* "up", or "down" once an exception left a callback
  status,           \* status[g]: the goal as the action server sees it
  pc,               \* pc[g]: where its callbacks are
  total,            \* total[g]: the number of its points
  sent,             \* sent[g]: sent_count
  retries,          \* failed attempts at the point being sent
  closing,          \* the lifecycle event a finished callback has yet to fire
  name,             \* RAPID symbol routine_name_input
  currentState,     \* RAPID symbol CURRENT_STATE
  rapid,            \* what RAPID executes
  queue,            \* the DIPC queue
  client,           \* the other client, inside run_rapid_routine
  received,         \* history: points RAPID took since a goal was accepted
  disturbed         \* history: a goal and the other client have overlapped,
                    \*   or a routine was not set up as it should have been

goalVars == <<status, pc, total, sent, retries, closing>>
rapidVars == <<name, currentState, rapid, queue, received>>
clientVars == <<client, disturbed>>
vars == <<state, process, goalVars, rapidVars, clientVars>>

Point(i, last) == [index |-> i, userdef |-> IF last THEN "2" ELSE "1"]

Messages == [index : 1..MaxPoints, userdef : {"1", "2"}]

TypeOK ==
  /\ state \in NodeStates /\ process \in {"up", "down"}
  /\ status \in [Goals -> {"unknown", "executing", "canceling", "succeeded",
                           "canceled", "aborted"}]
  /\ pc \in [Goals -> {"none", "asked", "name", "start", "send", "after", "close"}]
  /\ total \in [Goals -> 0..MaxPoints] /\ sent \in [Goals -> 0..MaxPoints]
  /\ retries \in 0..RetryMax
  /\ closing \in {"none", "complete", "fail_recoverable"}
  /\ name \in {"buffer", "routine"} /\ currentState \in {"0", "2"}
  /\ rapid \in {"waiting", "buffer", "routine"}
  /\ queue \in Seq(Messages) /\ Len(queue) <= QueueSize
  /\ client \in {"none", "checked", "named"}
  /\ received \in Seq(Messages) /\ disturbed \in BOOLEAN

Init ==
  /\ state = "idle" /\ process = "up"
  /\ status = [g \in Goals |-> "unknown"]
  /\ pc = [g \in Goals |-> "none"]
  /\ total = [g \in Goals |-> 0] /\ sent = [g \in Goals |-> 0]
  /\ retries = 0 /\ closing = "none"
  /\ name = "routine" /\ currentState = "0" /\ rapid = "waiting"
  /\ queue = <<>> /\ client = "none" /\ received = <<>> /\ disturbed = FALSE

Live(g) == pc[g] # "none"

RapidIdle == currentState = "0"

Goto(g, label) == pc' = [pc EXCEPT ![g] = label]

Forget(g) ==
  /\ status' = [status EXCEPT ![g] = "unknown"]
  /\ Goto(g, "none")
  /\ total' = [total EXCEPT ![g] = 0]
  /\ sent' = [sent EXCEPT ![g] = 0]

-----------------------------------------------------------------------------
(* goal_callback_pose and goal_callback_joint: the lifecycle event first,  *)
(* then the goal is looked at.                                             *)

Ask(g, n) ==
  /\ process = "up" /\ pc[g] = "none"
  /\ Allowed("start_operation", state)
  /\ state' = Fire("start_operation", state)
  /\ Goto(g, "asked")
  /\ total' = [total EXCEPT ![g] = n]
  /\ disturbed' = (disturbed \/ client # "none")
  /\ UNCHANGED <<process, status, sent, retries, closing, rapidVars, client>>

Admit(g) ==
  /\ process = "up" /\ pc[g] = "asked"
  /\ total[g] # 0 /\ RapidIdle
  /\ status' = [status EXCEPT ![g] = "executing"]
  /\ Goto(g, "name")
  /\ received' = <<>>
  /\ UNCHANGED <<state, process, total, sent, retries, closing, name,
                 currentState, rapid, queue, clientVars>>

Reject(g) ==
  /\ process = "up" /\ pc[g] = "asked"
  /\ total[g] = 0 \/ ~RapidIdle
  /\ state' = Fire("complete", state)
  /\ Forget(g)
  /\ UNCHANGED <<process, retries, closing, rapidVars, clientVars>>

(* is_rapid_idle raises.  The joint callback rejects the goal, the pose    *)
(* callback lets the exception through, which ends the process; neither    *)
(* leaves busy.                                                            *)
AskFails(g) ==
  /\ "rws" \in Faults
  /\ process = "up" /\ pc[g] = "asked" /\ total[g] # 0
  /\ process' \in {"up", "down"}
  /\ Forget(g)
  /\ UNCHANGED <<state, retries, closing, rapidVars, clientVars>>

Cancel(g) ==
  /\ process = "up" /\ status[g] = "executing"
  /\ status' = [status EXCEPT ![g] = "canceling"]
  /\ UNCHANGED <<state, process, pc, total, sent, retries, closing, rapidVars,
                 clientVars>>

-----------------------------------------------------------------------------
(* execute_pose_array_cb and execute_joint_array_cb.                       *)

Running(g, label) == process = "up" /\ pc[g] = label

Canceling(g) == status[g] = "canceling"

(* The goal becomes terminal; the lifecycle event follows. *)
Finish(g, s, event) ==
  /\ status' = [status EXCEPT ![g] = s]
  /\ closing' = event
  /\ Goto(g, "close")

(* An exception during the setup returns at once: the action server aborts *)
(* the goal, and the lifecycle is not told.                                *)
SetupFails(g) ==
  /\ "command" \in Faults
  /\ Running(g, "name")
  /\ Forget(g)
  /\ UNCHANGED <<state, process, retries, closing, rapidVars, clientVars>>

(* What a symbol may hold after set_rapid_symbol_raw, whose answer neither *)
(* the callbacks nor run_rapid_routine look at.                            *)
Posted(new, old) == {new} \cup IF "post" \in Faults THEN {old} ELSE {}

SetName(g) ==
  /\ Running(g, "name")
  /\ name' \in Posted("buffer", name)
  /\ disturbed' = (disturbed \/ name' # "buffer")
  /\ Goto(g, "start")
  /\ UNCHANGED <<state, process, status, total, sent, retries, closing,
                 currentState, rapid, queue, received, client>>

StartRoutine(g) ==
  /\ Running(g, "start")
  /\ currentState' \in Posted("2", currentState)
  /\ disturbed' = (disturbed \/ currentState' # "2")
  /\ Goto(g, "send")
  /\ UNCHANGED <<state, process, status, total, sent, retries, closing, name,
                 rapid, queue, received, client>>

(* A cancel request that has come in by now makes this the last point. *)
NextPoint(g) ==
  Point(sent[g] + 1, sent[g] + 1 = total[g] \/ Canceling(g))

Accepted(g) ==
  /\ Running(g, "send")
  /\ Len(queue) < QueueSize
  /\ queue' = Append(queue, NextPoint(g))
  /\ Goto(g, "after")
  /\ retries' = 0
  /\ UNCHANGED <<state, process, status, total, sent, closing, name,
                 currentState, rapid, received, clientVars>>

(* Mutants of Retry: no limit, or a count that starts over. *)
RetryUnlimited(g) ==
  /\ Running(g, "send")
  /\ Len(queue) = QueueSize
  /\ retries' = retries + 1
  /\ UNCHANGED <<state, process, status, pc, total, sent, closing, rapidVars,
                 clientVars>>

RetryStartsOver(g) ==
  /\ Running(g, "send")
  /\ Len(queue) = QueueSize /\ retries < RetryMax
  /\ retries' = (retries + 1) % RetryMax
  /\ UNCHANGED <<state, process, status, pc, total, sent, closing, rapidVars,
                 clientVars>>

(* Status 500: the queue is full. *)
Retry(g) ==
  /\ Running(g, "send")
  /\ Len(queue) = QueueSize /\ retries < RetryMax
  /\ retries' = retries + 1
  /\ UNCHANGED <<state, process, status, pc, total, sent, closing, rapidVars,
                 clientVars>>

(* No retry is left, or the answer was neither 204 nor 500. *)
SendFails(g) ==
  /\ Running(g, "send")
  /\ \/ Len(queue) = QueueSize /\ retries = RetryMax /\ UNCHANGED queue
     \/ "post" \in Faults /\ UNCHANGED queue
     \/ /\ "post" \in Faults /\ Len(queue) < QueueSize
        /\ queue' = Append(queue, NextPoint(g))
  /\ Finish(g, "aborted", "fail_recoverable")
  /\ retries' = 0
  /\ UNCHANGED <<state, process, total, sent, name, currentState, rapid,
                 received, clientVars>>

(* Mutants of AfterSend: it goes on after a cancel, or stops one early. *)
AfterSendOnward(g) ==
  /\ Running(g, "after")
  /\ sent' = [sent EXCEPT ![g] = @ + 1]
  /\ IF sent[g] + 1 = total[g] THEN Finish(g, "succeeded", "complete")
       ELSE Goto(g, "send") /\ UNCHANGED <<status, closing>>
  /\ UNCHANGED <<state, process, total, retries, rapidVars, clientVars>>

AfterSendEarly(g) ==
  /\ Running(g, "after")
  /\ sent' = [sent EXCEPT ![g] = @ + 1]
  /\ IF Canceling(g) THEN Finish(g, "canceled", "complete")
       ELSE IF sent[g] + 2 >= total[g] THEN Finish(g, "succeeded", "complete")
       ELSE Goto(g, "send") /\ UNCHANGED <<status, closing>>
  /\ UNCHANGED <<state, process, total, retries, rapidVars, clientVars>>

(* The cancel request is looked at again once the point is sent. *)
AfterSend(g) ==
  /\ Running(g, "after")
  /\ sent' = [sent EXCEPT ![g] = @ + 1]
  /\ IF Canceling(g) THEN Finish(g, "canceled", "complete")
       ELSE IF sent[g] + 1 = total[g] THEN Finish(g, "succeeded", "complete")
       ELSE Goto(g, "send") /\ UNCHANGED <<status, closing>>
  /\ UNCHANGED <<state, process, total, retries, rapidVars, clientVars>>

Close(g) ==
  /\ Running(g, "close")
  /\ state' = Fire(closing, state)
  /\ closing' = "none"
  /\ Forget(g)
  /\ UNCHANGED <<process, retries, rapidVars, clientVars>>

-----------------------------------------------------------------------------
Recover ==
  /\ process = "up" /\ state = "error_recoverable"
  /\ state' = Fire("retry_from_recoverable", state)
  /\ UNCHANGED <<process, goalVars, rapidVars, clientVars>>

(* run_rapid_routine for another client: the same symbols, without the     *)
(* lifecycle.                                                              *)
OtherClient ==
  /\ "routine" \in Faults /\ process = "up"
  /\ \/ /\ client = "none" /\ RapidIdle
        /\ client' = "checked"
        /\ disturbed' = (disturbed \/ \E g \in Goals : Live(g))
        /\ UNCHANGED <<name, currentState>>
     \/ /\ client = "checked"
        /\ client' = "named" /\ name' \in Posted("routine", name)
        /\ UNCHANGED <<currentState, disturbed>>
     \/ /\ client = "named"
        /\ client' = "none" /\ currentState' \in Posted("2", currentState)
        /\ UNCHANGED <<name, disturbed>>
  /\ UNCHANGED <<state, process, goalVars, rapid, queue, received>>

(* The RAPID program, seen through its symbols and its queue. *)
RapidStarts ==
  /\ currentState = "2" /\ rapid = "waiting"
  /\ rapid' = name
  /\ UNCHANGED <<state, process, goalVars, name, currentState, queue, received,
                 clientVars>>

RapidTakes ==
  /\ rapid = "buffer" /\ queue # <<>>
  /\ queue' = Tail(queue)
  /\ received' = Append(received, Head(queue))
  /\ IF Head(queue).userdef = "2"
       THEN rapid' = "waiting" /\ currentState' = "0"
       ELSE UNCHANGED <<rapid, currentState>>
  /\ UNCHANGED <<state, process, goalVars, name, clientVars>>

RapidEnds ==
  /\ rapid = "routine"
  /\ rapid' = "waiting" /\ currentState' = "0"
  /\ UNCHANGED <<state, process, goalVars, name, queue, received, clientVars>>

Next ==
  \/ \E g \in Goals :
       \/ \E n \in 0..MaxPoints : Ask(g, n)
       \/ Admit(g) \/ Reject(g) \/ AskFails(g) \/ Cancel(g)
       \/ SetupFails(g) \/ SetName(g) \/ StartRoutine(g)
       \/ Accepted(g) \/ Retry(g) \/ SendFails(g) \/ AfterSend(g) \/ Close(g)
  \/ Recover \/ OtherClient \/ RapidStarts \/ RapidTakes \/ RapidEnds

Spec == Init /\ [][Next]_vars

(* The callbacks run on threads of their own, and every POST returns or    *)
(* times out after two seconds.  Nothing is assumed of the robot.          *)
Callback(g) ==
  \/ Admit(g) \/ Reject(g) \/ AskFails(g) \/ SetupFails(g) \/ SetName(g)
  \/ StartRoutine(g) \/ Accepted(g) \/ Retry(g) \/ SendFails(g)
  \/ AfterSend(g) \/ Close(g)

Fairness == \A g \in Goals : WF_vars(Callback(g))

FairSpec == Spec /\ Fairness

-----------------------------------------------------------------------------
(* What the robot has taken and what is on its way to it are the points of *)
(* one goal, from the first, in order, none missing or repeated, and none  *)
(* behind the one marked as the last: not even after retries, timeouts,    *)
(* aborts and cancels, and with one goal or routine following another.     *)
(* For that no call of another client may overlap a goal, and the two      *)
(* symbols a goal sets before its points must arrive.                      *)
Delivered == received \o queue

InOrder ==
  ~disturbed => \A i \in DOMAIN Delivered :
    /\ Delivered[i].index = i
    /\ Delivered[i].userdef = "2" => i = Len(Delivered)

(* A goal succeeds only when all its points were delivered and the last of *)
(* them is marked.                                                         *)
SuccessIsWhole ==
  \A g \in Goals : status[g] = "succeeded" /\ ~disturbed =>
    /\ Len(Delivered) = total[g]
    /\ Delivered[Len(Delivered)].userdef = "2"

(* Every goal comes to an end, even when the robot takes nothing out of a  *)
(* full queue.                                                             *)
GoalEnds == \A g \in Goals : Live(g) ~> (~Live(g) \/ process = "down")

=============================================================================
