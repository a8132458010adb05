--------------------------- MODULE OperationsPage ----------------------------
(***************************************************************************)
(* The Operations page of the user interface (pages/operations_page.py)    *)
(* and the coordinator it drives.  The page has one card per operation,    *)
(* with Start, Cancel and Proceed.  Feedback reaches a card through a      *)
(* queue that a timer drains; Proceed calls the one user_input service     *)
(* both operations wait on.                                                *)
(*                                                                         *)
(* Every step of the coordinator is a step of Coordinator; this module     *)
(* adds what the page does at the same time, and the page's own steps.     *)
(***************************************************************************)
EXTENDS Coordinator, Integers

VARIABLES
  startable,        \* cards whose Start is enabled
  followed,         \* goals whose card waits for their answer or result
  cancellable,      \* goals that Cancel on their card would cancel
  feedback,         \* feedback[o]: what the phases on their way to the card
                    \*   of o will have done to Proceed, if anything
  offered,          \* cards on which Proceed is visible
  pressing,         \* cards whose user_input call is on its way
  (* History. *)
  credit,           \* presses that arrived, less the operations confirmed
  crossed           \* cards that were started again before their goal's result

cardVars == <<startable, followed, cancellable, offered>>
pageHistory == <<credit, crossed>>
pageVars == <<cardVars, feedback, pressing, pageHistory>>
pvars == <<vars, pageVars>>

(* GRASP_READY and POSE_READY show Proceed, EXECUTING_MOTION and COMPLETED *)
(* hide it.  The drain handles all the entries of its queue at once, so    *)
(* the last of them stands for the queue.                                  *)
Effects == {"show", "hide"}

MaxCredit == 1      \* presses counted ahead of the operations they confirm

PageTypeOK ==
  /\ followed \subseteq Goals /\ cancellable \subseteq Goals
  /\ feedback \in [Operations -> Effects \cup {"none"}]
  /\ startable \subseteq Operations /\ offered \subseteq Operations
  /\ pressing \subseteq Operations /\ crossed \subseteq Operations
  /\ credit \in -1..MaxCredit

PageInit ==
  /\ Init
  /\ startable = {} /\ followed = {} /\ cancellable = {} /\ offered = {}
  /\ pressing = {} /\ crossed = {}
  /\ feedback = [o \in Operations |-> "none"]
  /\ credit = 0

-----------------------------------------------------------------------------
(* The operator and the page.                                              *)

(* Both Start buttons follow what the coordinator answers to Refresh, and  *)
(* do not look whether their own card waits for something.                 *)
Refresh ==
  /\ startable' = IF state = "idle" THEN Operations ELSE {}
  /\ UNCHANGED <<vars, followed, cancellable, offered, feedback, pressing,
                 pageHistory>>

OnCard(o) == {g \in Goals : op[g] = o}

(* The reset of a card hides Proceed and Cancel and drops the goal handle. *)
Reset(o) ==
  /\ offered' = offered \ {o}
  /\ cancellable' = cancellable \ OnCard(o)

(* Start resets the card, disables itself and sends the goal. *)
Start(g, o) ==
  /\ o \in startable
  /\ Send(g, o)
  /\ Reset(o)
  /\ startable' = startable \ {o}
  /\ followed' = followed \cup {g}
  /\ crossed' = IF followed \cap OnCard(o) = {} THEN crossed ELSE crossed \cup {o}
  /\ UNCHANGED <<feedback, pressing, credit>>

(* No answer within ten seconds: the card forgets the goal, which may be   *)
(* accepted yet.                                                           *)
GiveUp(g) ==
  /\ g \in followed /\ status[g] = "sent"
  /\ Reset(op[g])
  /\ startable' = startable \cup {op[g]}
  /\ followed' = followed \ {g}
  /\ UNCHANGED <<vars, feedback, pressing, pageHistory>>

PressCancel(g) ==
  /\ g \in cancellable
  /\ Cancel(g)
  /\ UNCHANGED pageVars

(* Proceed is disabled while its own call is under way, and only then. *)
PressProceed(o) ==
  /\ o \in offered /\ o \notin pressing
  /\ pressing' = pressing \cup {o}
  /\ UNCHANGED <<vars, cardVars, feedback, credit, crossed>>

ProceedArrives(o) ==
  /\ o \in pressing
  /\ UserInput
  /\ pressing' = pressing \ {o}
  /\ credit' = IF credit < MaxCredit THEN credit + 1 ELSE credit
  /\ UNCHANGED <<cardVars, feedback, crossed>>

(* Mutant of Drain: EXECUTING_MOTION and COMPLETED leave Proceed alone. *)
DrainShowsOnly(o) ==
  /\ feedback[o] # "none"
  /\ offered' = IF feedback[o] = "show" THEN offered \cup {o} ELSE offered
  /\ feedback' = [feedback EXCEPT ![o] = "none"]
  /\ UNCHANGED <<vars, startable, followed, cancellable, pressing, pageHistory>>

(* The timer empties the queue. *)
Drain(o) ==
  /\ feedback[o] # "none"
  /\ offered' = IF feedback[o] = "show" THEN offered \cup {o} ELSE offered \ {o}
  /\ feedback' = [feedback EXCEPT ![o] = "none"]
  /\ UNCHANGED <<vars, startable, followed, cancellable, pressing, pageHistory>>

-----------------------------------------------------------------------------
(* What the page sees of the coordinator's steps.                          *)

(* Mutant of Tell: the status goes out where the phase should. *)
TellStatus(g, effect) == feedback' = [feedback EXCEPT ![op[g]] = status[g]]

Tell(g, effect) == feedback' = [feedback EXCEPT ![op[g]] = effect]

GoalAccepted(g) ==
  /\ Accept(g)
  /\ cancellable' = IF g \in followed THEN (cancellable \ OnCard(op[g])) \cup {g}
                     ELSE cancellable
  /\ UNCHANGED <<startable, followed, offered, feedback, pressing, pageHistory>>

(* Mutant of GoalRejected: the answer to a goal the card gave up on resets *)
(* the card all the same.                                                  *)
GoalRejectedLate(g) ==
  /\ Reject(g)
  /\ Reset(op[g]) /\ startable' = startable \cup {op[g]}
  /\ followed' = followed \ {g}
  /\ UNCHANGED <<feedback, pressing, pageHistory>>

(* A rejection resets the card of the goal it answers, if that card still  *)
(* waits for the answer.                                                   *)
GoalRejected(g) ==
  /\ Reject(g)
  /\ IF g \in followed
       THEN Reset(op[g]) /\ startable' = startable \cup {op[g]}
       ELSE UNCHANGED <<startable, cancellable, offered>>
  /\ followed' = followed \ {g}
  /\ UNCHANGED <<feedback, pressing, pageHistory>>

(* A result hides Cancel and enables Start; Proceed stays as it is. *)
ResultArrives(g) ==
  /\ Close(g)
  /\ IF g \in followed
       THEN /\ cancellable' = cancellable \ OnCard(op[g])
            /\ startable' = startable \cup {op[g]}
       ELSE UNCHANGED <<startable, cancellable>>
  /\ followed' = followed \ {g}
  /\ UNCHANGED <<feedback, offered, pressing, credit, crossed>>

PhaseStep(g) ==
  /\ Publish(g)
  /\ Tell(g, IF Here(g) = "ready" THEN "show" ELSE "hide")
  /\ UNCHANGED <<cardVars, pressing, pageHistory>>

CompletedStep(g) ==
  /\ Succeed(g)
  /\ Tell(g, "hide")
  /\ UNCHANGED <<cardVars, pressing, pageHistory>>

ConfirmStep(g) ==
  /\ WaitForUserInput(g)
  /\ credit' = IF userInput THEN credit - 1 ELSE credit
  /\ UNCHANGED <<cardVars, feedback, pressing, crossed>>

OtherStep(g) ==
  /\ \/ Sense(g) \/ CheckCancel(g) \/ SetSymbol(g) \/ MakeRobotReady(g)
     \/ WaitForRapidIdle(g) \/ OrderRoutine(g) \/ SendMotionGoal(g)
  /\ UNCHANGED pageVars

CoordinatorStep(g) ==
  PhaseStep(g) \/ CompletedStep(g) \/ ConfirmStep(g) \/ OtherStep(g)

PageNext ==
  \/ \E g \in Goals :
       \/ \E o \in Operations : Start(g, o)
       \/ GiveUp(g) \/ PressCancel(g)
       \/ GoalAccepted(g) \/ GoalRejected(g)
       \/ CoordinatorStep(g) \/ ResultArrives(g)
  \/ \E o \in Operations : PressProceed(o) \/ ProceedArrives(o) \/ Drain(o)
  \/ Refresh
  \/ (Administer \/ RoutineEnds) /\ UNCHANGED pageVars

(* Besides the coordinator's own fairness, the drain timer keeps running.  *)
(* Nothing is assumed of the operator.                                     *)
PageFairness ==
  /\ \A g \in Goals : WF_pvars(CoordinatorStep(g)) /\ WF_pvars(ResultArrives(g))
  /\ \A o \in Operations : WF_pvars(Drain(o))

PageSpec == PageInit /\ [][PageNext]_pvars
FairPageSpec == PageSpec /\ PageFairness

-----------------------------------------------------------------------------
(* The operation has passed wait_for_user_input, or has got beyond the     *)
(* announcement that it moves the robot.                                   *)
Beyond(g, what) == \E i \in 1..(at[g] - 1) : Pipeline[op[g]][i] = what

(* Every operation that goes on to move the robot has a press of its own:  *)
(* one press never confirms two operations.                                *)
OnePressEach == credit >= 0

(* A card that has caught up with the operation it follows does not offer  *)
(* Proceed once that operation is moving the robot.                        *)
NoOfferInMotion ==
  \A g \in followed :
    Live(g) /\ Beyond(g, "moving") /\ feedback[op[g]] = "none" =>
      op[g] \notin offered

(* An operation that waits for the operator gets Proceed shown on the card *)
(* that follows it, or waits no longer.  A card that was started again     *)
(* before its goal's result is no such card: the rejection of the second   *)
(* goal hides the Proceed of the first.                                    *)
Waits(g) == g \in followed /\ op[g] \notin crossed /\ Does(g, {"confirm"})

WaitIsShown == \A g \in Goals : Waits(g) ~> (op[g] \in offered \/ ~Waits(g))

=============================================================================
