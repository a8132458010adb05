-------------------------- MODULE CoordinatorProofs --------------------------
(***************************************************************************)
(* Proofs about Coordinator for any set of goal slots, any choice of its   *)
(* two operations and any disturbances, in three parts.  The node serves   *)
(* one goal at a time and is busy for no other reason.  An operation that  *)
(* is left alone finds the robot, the flange and the planning scene, entry *)
(* by entry of its pipeline, as it counts on them, and stops soon after    *)
(* its cancel.  And the page of OperationsPage, which drives the           *)
(* coordinator and adds nothing to it, keeps its cards in step.            *)
(***************************************************************************)
EXTENDS OperationsPage, TLAPS

Terminal == {"succeeded", "canceled", "aborted"}

(* The server's view of a goal and its callback's progress agree: a slot   *)
(* that holds no callback is at no entry and owes no event, only a slot in *)
(* use has an operation, and an event is owed for a terminal goal only.    *)
GoalsInOrder ==
  \A g \in Goals :
    /\ status[g] \in {"unknown", "sent"} => at[g] = 0 /\ closing[g] = "none"
    /\ op[g] = "none" <=> status[g] = "unknown"
    /\ closing[g] # "none" => status[g] \in Terminal

(* ServesOneGoal is inductive with these beside it. *)
IInv == TypeOK /\ GoalsInOrder /\ ServesOneGoal

-----------------------------------------------------------------------------
(* What a pipeline is to the proofs: of finite length. *)
LEMMA PipelineLength ==
  ASSUME NEW o \in Operations
  PROVE  Len(Pipeline[o]) \in Nat
<1>1. Len(Operation1) \in Nat
  BY DEF Operation1
<1>2. Len(Operation2) \in Nat
  BY DEF Operation2
<1> QED
  BY <1>1, <1>2, OperationsAssumption DEF Pipeline

(* Opening an operation takes a node that is not busy to busy. *)
LEMMA Opening ==
  ASSUME NEW s, Allowed("start_operation", s)
  PROVE  Fire("start_operation", s) = "busy" /\ s # "busy"
  BY DEF Fire, Allowed, Sources, Target

(* A closing event is never refused by a busy node, and frees it. *)
LEMMA Closing ==
  ASSUME NEW e \in ClosingEvents
  PROVE  Fire(e, "busy") \in NodeStates \ {"busy"}
  BY DEF Fire, Allowed, Sources, Target, ClosingEvents, NodeStates, Operational

(* The lifecycle services neither enter nor leave busy. *)
LEMMA Services ==
  ASSUME NEW e \in {"start_initialization", "start_cleanup",
                    "retry_from_recoverable", "complete"},
         NEW s \in NodeStates, Allowed(e, s),
         e = "complete" => s \in {"initializing", "cleaning_up"}
  PROVE  Fire(e, s) \in NodeStates \ {"busy"} /\ s # "busy"
  BY DEF Fire, Allowed, Sources, Target, NodeStates, Operational

-----------------------------------------------------------------------------
(* A step of a callback moves its goal one entry on, or ends it with an    *)
(* event to fire; the node and the other goals' progress stay as they are. *)
LEMMA StepShape ==
  ASSUME TypeOK, NEW g \in Goals, Step(g)
  PROVE  /\ Live(g)
         /\ \/ Advance(g) /\ ~Done(g)
            \/ \E s \in Terminal, event \in ClosingEvents : End(g, s, event)
<1> USE DEF Does, Raise, HandleCancel, Terminal, ClosingEvents
<1>1. CASE Sense(g)
  BY <1>1 DEF Sense
<1>2. CASE CheckCancel(g)
  BY <1>2 DEF CheckCancel
<1>3. CASE Publish(g)
  BY <1>3 DEF Publish
<1>4. CASE WaitForUserInput(g)
  BY <1>4 DEF WaitForUserInput
<1>5. CASE SetSymbol(g)
  BY <1>5 DEF SetSymbol
<1>6. CASE MakeRobotReady(g)
  BY <1>6 DEF MakeRobotReady
<1>7. CASE WaitForRapidIdle(g)
  BY <1>7 DEF WaitForRapidIdle
<1>8. CASE OrderRoutine(g)
  BY <1>8 DEF OrderRoutine
<1>9. CASE SendMotionGoal(g)
  BY <1>9 DEF SendMotionGoal
<1>10. CASE Succeed(g)
  BY <1>10 DEF Succeed
<1> QED
  BY <1>1, <1>2, <1>3, <1>4, <1>5, <1>6, <1>7, <1>8, <1>9, <1>10 DEF Step

(* What a callback does to the robot and to the history is of its type. *)
LEMMA StepRest ==
  ASSUME TypeOK, NEW g \in Goals, Step(g)
  PROVE  /\ userInput' \in BOOLEAN /\ running' \in BOOLEAN
         /\ routine' \in Motions \cup {"none", "other"}
         /\ tool' \in Tools \cup {"none"} /\ scene' \in Tools \cup {"none"}
         /\ disturbed' \in BOOLEAN /\ dropped' \in BOOLEAN /\ since' \in Nat
<1> USE DEF TypeOK, robotVars, history
<1>1. CASE Sense(g)
  BY <1>1 DEF Sense
<1>2. CASE CheckCancel(g)
  BY <1>2 DEF CheckCancel
<1>3. CASE Publish(g)
  BY <1>3 DEF Publish
<1>4. CASE WaitForUserInput(g)
  BY <1>4 DEF WaitForUserInput
<1>5. CASE SetSymbol(g)
  BY <1>5 DEF SetSymbol
<1>6. CASE MakeRobotReady(g)
  BY <1>6 DEF MakeRobotReady
<1>7. CASE WaitForRapidIdle(g)
  BY <1>7 DEF WaitForRapidIdle
<1>8. CASE OrderRoutine(g)
  <2>1. Here(g) \in Routines
    BY <1>8 DEF OrderRoutine, Does
  <2>2. since' \in Nat /\ UNCHANGED <<userInput, running, tool>>
    BY <1>8 DEF OrderRoutine, CountOrder
  <2>3. routine' \in Motions \cup {"none", "other"}
    BY <1>8, <2>1 DEF OrderRoutine, Motions
  <2>4. \A r \in DOMAIN Leaves : Leaves[r] \in Tools \cup {"none"}
    BY DEF Leaves, Tools
  <2>5. scene' \in Tools \cup {"none"}
    BY <1>8, <2>4 DEF OrderRoutine
  <2>6. disturbed' \in BOOLEAN /\ dropped' \in BOOLEAN
    BY <1>8 DEF OrderRoutine
  <2> QED
    BY <2>2, <2>3, <2>5, <2>6
<1>9. CASE SendMotionGoal(g)
  BY <1>9 DEF SendMotionGoal, CountOrder, Motions
<1>10. CASE Succeed(g)
  BY <1>10 DEF Succeed
<1> QED
  BY <1>1, <1>2, <1>3, <1>4, <1>5, <1>6, <1>7, <1>8, <1>9, <1>10 DEF Step

-----------------------------------------------------------------------------
(* The initial states satisfy the invariant. *)
LEMMA InitIInv == Init => IInv
<1> SUFFICES ASSUME Init PROVE IInv
  OBVIOUS
<1> USE DEF Init
<1>1. TypeOK
  BY DEF TypeOK, NodeStates, Operational, Statuses, ClosingEvents
<1>2. GoalsInOrder
  BY DEF GoalsInOrder
<1>3. ServesOneGoal
  BY DEF ServesOneGoal, Serving, Live, ClosingEvents
<1> QED
  BY <1>1, <1>2, <1>3 DEF IInv

(* Moving a callback on, or ending its goal, keeps the invariant: the goal *)
(* stays served, on its way or with an event to fire.                      *)
LEMMA StepKeepsIInv ==
  ASSUME IInv, NEW g \in Goals, Step(g)
  PROVE  IInv'
<1> USE DEF IInv
<1>1. Live(g) /\ op[g] \in Operations /\ closing[g] = "none"
  BY StepShape DEF TypeOK, GoalsInOrder, Live, Terminal
<1>2. CASE Advance(g) /\ ~Done(g)
  <2> USE <1>2 DEF Advance
  <2>1. Len(Pipeline[op[g]]) \in Nat
    BY <1>1, PipelineLength
  <2>2. at' \in [Goals -> Nat]
    BY DEF TypeOK
  <2>3. \A h \in Goals : op'[h] # "none" => at'[h] <= Len(Pipeline[op'[h]]) + 1
    BY <2>1 DEF TypeOK, Done
  <2>4. TypeOK'
    BY <2>2, <2>3, StepRest DEF TypeOK
  <2>5. GoalsInOrder'
    BY <1>1 DEF GoalsInOrder, TypeOK, Live
  <2>6. ServesOneGoal'
    BY DEF ServesOneGoal, Serving, Live
  <2> QED
    BY <2>4, <2>5, <2>6
<1>3. ASSUME NEW s \in Terminal, NEW event \in ClosingEvents, End(g, s, event)
      PROVE  IInv'
  <2> USE <1>3 DEF End
  <2>1. TypeOK'
    BY StepRest DEF TypeOK, Statuses, Terminal
  <2>2. GoalsInOrder'
    BY <1>1 DEF GoalsInOrder, TypeOK, Live, Terminal
  <2>3. \A h \in Goals : Serving(h)' <=> Serving(h)
    BY <1>1 DEF TypeOK, Serving, Live, Terminal
  <2>4. ServesOneGoal'
    BY <2>3 DEF ServesOneGoal
  <2> QED
    BY <2>1, <2>2, <2>4
<1> QED
  BY <1>2, <1>3, StepShape

(* So does every other step of a goal, ... *)
LEMMA SlotKeepsIInv ==
  ASSUME IInv, NEW g \in Goals,
         \/ \E o \in Operations : Send(g, o)
         \/ Accept(g) \/ Reject(g) \/ Cancel(g) \/ Close(g)
  PROVE  IInv'
<1> USE DEF IInv, robotVars, history
<1>1. ASSUME NEW o \in Operations, Send(g, o) PROVE IInv'
  <2> USE <1>1 DEF Send
  <2>1. o # "none" /\ Len(Pipeline[o]) \in Nat
    BY OperationsAssumption, PipelineLength
  <2>2. TypeOK'
    BY <2>1 DEF TypeOK, Statuses, GoalsInOrder
  <2>3. GoalsInOrder'
    BY <2>1 DEF GoalsInOrder, TypeOK, Terminal
  <2>4. \A h \in Goals : Serving(h)' <=> Serving(h)
    BY DEF TypeOK, Serving, Live
  <2> QED
    BY <2>2, <2>3, <2>4 DEF ServesOneGoal
<1>2. CASE Accept(g)
  <2> USE <1>2 DEF Accept
  <2>1. state' = "busy" /\ state # "busy"
    BY Opening
  <2>2. op[g] \in Operations /\ Len(Pipeline[op[g]]) \in Nat
    BY PipelineLength DEF TypeOK, GoalsInOrder
  <2>3. TypeOK'
    <3>1. state' \in NodeStates
      BY <2>1 DEF NodeStates
    <3>2. status' \in [Goals -> Statuses] /\ at' \in [Goals -> Nat]
      BY DEF TypeOK, Statuses
    <3>3. \A h \in Goals :
            op'[h] # "none" => at'[h] <= Len(Pipeline[op'[h]]) + 1
      BY <2>2 DEF TypeOK
    <3> QED
      BY <3>1, <3>2, <3>3 DEF TypeOK
  <2>4. GoalsInOrder'
    BY DEF GoalsInOrder, TypeOK, Terminal
  <2>5. \A h \in Goals : ~Serving(h) /\ (Serving(h)' <=> h = g)
    BY <2>1 DEF ServesOneGoal, Serving, Live, TypeOK
  <2> QED
    BY <2>1, <2>3, <2>4, <2>5 DEF ServesOneGoal
<1>3. CASE Reject(g)
  <2> USE <1>3 DEF Reject, Forget
  <2>1. TypeOK'
    BY DEF TypeOK, Statuses
  <2>2. GoalsInOrder'
    BY DEF GoalsInOrder, TypeOK
  <2>3. \A h \in Goals : Serving(h)' <=> Serving(h)
    BY DEF TypeOK, GoalsInOrder, Serving, Live, ClosingEvents
  <2> QED
    BY <2>1, <2>2, <2>3 DEF ServesOneGoal
<1>4. CASE Cancel(g)
  <2> USE <1>4 DEF Cancel
  <2>1. TypeOK'
    BY DEF TypeOK, Statuses
  <2>2. GoalsInOrder'
    BY DEF GoalsInOrder, TypeOK, Terminal
  <2>3. \A h \in Goals : Serving(h)' <=> Serving(h)
    BY DEF TypeOK, Serving, Live
  <2> QED
    BY <2>1, <2>2, <2>3 DEF ServesOneGoal
<1>5. CASE Close(g)
  <2> USE <1>5 DEF Close, Forget
  <2>1. state = "busy" /\ \A h \in Goals : Serving(h) => h = g
    BY DEF ServesOneGoal, Serving
  <2>2. state' \in NodeStates \ {"busy"}
    BY <2>1, Closing
  <2>3. TypeOK'
    BY <2>2 DEF TypeOK, Statuses
  <2>4. GoalsInOrder'
    BY DEF GoalsInOrder, TypeOK
  <2>5. \A h \in Goals : ~Serving(h)'
    BY <2>1 DEF Serving, Live, TypeOK, ClosingEvents
  <2> QED
    BY <2>2, <2>3, <2>4, <2>5 DEF ServesOneGoal
<1> QED
  BY <1>1, <1>2, <1>3, <1>4, <1>5

(* ... and every step of the operator, the services and the robot. *)
LEMMA OthersKeepIInv ==
  ASSUME IInv, UserInput \/ Administer \/ RoutineEnds \/ Disturb
  PROVE  IInv'
<1> USE DEF IInv
<1>1. CASE UserInput
  BY <1>1 DEF UserInput, goalVars, robotVars, history, TypeOK, GoalsInOrder,
              ServesOneGoal, Serving, Live
<1>2. CASE Administer
  <2>1. state' \in NodeStates \ {"busy"} /\ state # "busy"
    BY <1>2, Services DEF Administer, Serve, TypeOK
  <2>2. UNCHANGED <<goalVars, userInput, robotVars, history>>
    BY <1>2 DEF Administer, Serve
  <2> QED
    BY <2>1, <2>2 DEF goalVars, robotVars, history, TypeOK, GoalsInOrder,
                      ServesOneGoal, Serving, Live
<1>3. ASSUME RoutineEnds \/ Disturb PROVE IInv'
  <2>1. UNCHANGED <<state, goalVars>>
    BY <1>3 DEF RoutineEnds, Disturb
  <2>2. /\ userInput' \in BOOLEAN /\ running' \in BOOLEAN
        /\ routine' \in Motions \cup {"none", "other"}
        /\ tool' \in Tools \cup {"none"} /\ scene' \in Tools \cup {"none"}
        /\ disturbed' \in BOOLEAN /\ dropped' \in BOOLEAN /\ since' \in Nat
    <3>1. \A r \in DOMAIN Leaves : Leaves[r] \in Tools \cup {"none"}
      BY DEF Leaves, Tools
    <3>2. CASE RoutineEnds
      BY <3>1, <3>2 DEF RoutineEnds, TypeOK, history
    <3>3. CASE Disturb
      BY <3>3 DEF Disturb, TypeOK
    <3> QED
      BY <1>3, <3>2, <3>3
  <2> QED
    BY <2>1, <2>2 DEF goalVars, TypeOK, GoalsInOrder, ServesOneGoal, Serving,
                      Live
<1> QED
  BY <1>1, <1>2, <1>3

(* Every step keeps the invariant. *)
LEMMA NextKeepsIInv == IInv /\ [Next]_vars => IInv'
<1> SUFFICES ASSUME IInv, [Next]_vars PROVE IInv'
  OBVIOUS
<1>1. CASE UNCHANGED vars
  BY <1>1 DEF vars, goalVars, robotVars, history, IInv, TypeOK, GoalsInOrder,
              ServesOneGoal, Serving, Live
<1>2. CASE Next
  BY <1>2, StepKeepsIInv, SlotKeepsIInv, OthersKeepIInv DEF Next
<1> QED
  BY <1>1, <1>2

-----------------------------------------------------------------------------
(* The conjunction of the type invariant, the order of the goals and the   *)
(* service of one goal at a time is an invariant of the coordinator.       *)
THEOREM Invariance == Spec => []IInv
  BY InitIInv, NextKeepsIInv, PTL DEF Spec

(* Every variable keeps its type; in particular, no callback runs past the *)
(* end of its pipeline.                                                    *)
THEOREM TypeCorrect == Spec => []TypeOK
<1>1. IInv => TypeOK
  BY DEF IInv
<1> QED
  BY <1>1, Invariance, PTL

(* For any number of clients and goals, of either operation, the node is   *)
(* busy exactly while one goal is between its acceptance and its closing   *)
(* event: two pipelines never drive the robot at once, and no ending of    *)
(* the execute callbacks leaves the node busy.                             *)
THEOREM OneGoalAtATime == Spec => []ServesOneGoal
<1>1. IInv => ServesOneGoal
  BY DEF IInv
<1> QED
  BY <1>1, Invariance, PTL

-----------------------------------------------------------------------------
(* The goals and the lifecycle services hold the node in turn. *)
Server == {g \in Goals : Serving(g)}

CoordinatorOwner == INSTANCE Ownership WITH
  Callers <- Goals \cup {"service"},
  holders <- Server \cup (IF state \in {"initializing", "cleaning_up"}
                            THEN {"service"} ELSE {}),
  mode <- IF state \in Operational THEN "held" ELSE "free"

(* Who serves a goal is told by the state. *)
LEMMA ServerHolds ==
  ASSUME ServesOneGoal
  PROVE  /\ state # "busy" => Server = {}
         /\ state = "busy" => \E g \in Goals : Server = {g}
  BY DEF ServesOneGoal, Server

(* An event that is allowed to a service in operation ends the operation. *)
LEMMA ServiceLeaves ==
  ASSUME state \in Operational, Administer
  PROVE  state' \notin Operational
<1>1. \A e \in {"start_initialization", "start_cleanup", "retry_from_recoverable"} :
        ~Allowed(e, state)
  BY DEF Allowed, Sources, Operational
<1>2. Serve("complete")
  BY <1>1 DEF Administer, Serve
<1>3. Fire("complete", state) \notin Operational
  BY DEF Fire, Allowed, Sources, Target, Operational
<1> QED
  BY <1>2, <1>3 DEF Serve

(* A step that leaves the node in operation leaves it to the same goal or  *)
(* service.                                                                *)
LEMMA ServerKept ==
  ASSUME IInv, [Next]_vars, state \in Operational, state' \in Operational
  PROVE  state' = state /\ Server' = Server
<1> USE DEF goalVars
<1>types. /\ status \in [Goals -> Statuses]
          /\ closing \in [Goals -> ClosingEvents \cup {"none"}]
          /\ TypeOK
  BY DEF IInv, TypeOK
<1>1. ASSUME NEW g \in Goals, Step(g) PROVE state' = state /\ Server' = Server
  <2>1. Live(g)
    BY <1>1, <1>types, StepShape
  <2>2. CASE Advance(g)
    BY <2>2 DEF Advance, Server, Serving, Live
  <2>3. ASSUME NEW s \in Terminal, NEW event \in ClosingEvents, End(g, s, event)
        PROVE  state' = state /\ Server' = Server
    <3>1. Serving(g) /\ Serving(g)'
      BY <1>types, <2>1, <2>3 DEF End, Serving
    <3>2. \A h \in Goals \ {g} : Serving(h)' = Serving(h)
      BY <1>types, <2>3 DEF End, Serving, Live
    <3> QED
      BY <2>3, <3>1, <3>2 DEF End, Server
  <2> QED
    BY <1>1, <1>types, <2>2, <2>3, StepShape
<1>2. ASSUME NEW g \in Goals, (\E o \in Operations : Send(g, o)) \/ Reject(g)
      PROVE  state' = state /\ Server' = Server
  <2>1. closing[g] = "none" /\ ~Live(g)
    BY <1>2 DEF Send, Reject, IInv, GoalsInOrder, Live
  <2>2. \A h \in Goals : Serving(h)' = Serving(h)
    BY <1>2, <1>types, <2>1 DEF Send, Reject, Forget, Serving, Live
  <2> QED
    BY <1>2, <2>2 DEF Send, Reject, Server
<1>3. ASSUME NEW g \in Goals, Cancel(g) PROVE state' = state /\ Server' = Server
  BY <1>3, <1>types DEF Cancel, Server, Serving, Live
<1>4. ASSUME NEW g \in Goals, Accept(g) PROVE FALSE
  BY <1>4 DEF Accept, Allowed, Sources, Operational
<1>5. ASSUME NEW g \in Goals, Close(g) PROVE FALSE
  <2>1. state = "busy"
    BY <1>5 DEF Close, IInv, ServesOneGoal, Serving
  <2>2. Fire(closing[g], "busy") \notin Operational
    BY <1>5 DEF Close, Fire, Allowed, Sources, Target, Operational, ClosingEvents
  <2> QED
    BY <1>5, <2>1, <2>2 DEF Close
<1>6. CASE UserInput \/ RoutineEnds \/ Disturb \/ UNCHANGED vars
  BY <1>6 DEF UserInput, RoutineEnds, Disturb, vars, Server, Serving, Live
<1>7. ~Administer
  BY ServiceLeaves
<1> QED
  BY <1>1, <1>2, <1>3, <1>4, <1>5, <1>6, <1>7 DEF Next

(* The node's steps are steps of the ownership protocol, or none of its    *)
(* business.                                                               *)
LEMMA ServerStepRefines ==
  ASSUME IInv, IInv', [Next]_vars
  PROVE  [CoordinatorOwner!Next]_(CoordinatorOwner!vars)
<1>1. /\ state # "busy" => Server = {}
      /\ state = "busy" => \E g \in Goals : Server = {g}
      /\ state \in NodeStates
  BY ServerHolds DEF IInv, TypeOK
<1>2. /\ state' # "busy" => Server' = {}
      /\ state' = "busy" => \E g \in Goals : Server' = {g}
  BY DEF IInv, ServesOneGoal, Server
<1> USE DEF Operational
<1>3. CASE state \in Operational /\ state' \in Operational
  <2>1. state' = state /\ Server' = Server
    BY <1>3, ServerKept
  <2> QED
    BY <2>1 DEF CoordinatorOwner!vars
<1>4. CASE state \notin Operational /\ state' \in Operational
  BY <1>1, <1>2, <1>4 DEF CoordinatorOwner!Next, CoordinatorOwner!Acquire
<1>5. CASE state \in Operational /\ state' \notin Operational
  BY <1>1, <1>2, <1>5 DEF CoordinatorOwner!Next, CoordinatorOwner!Release
<1>6. CASE state \notin Operational /\ state' \notin Operational
  BY <1>1, <1>2, <1>6 DEF CoordinatorOwner!vars
<1> QED
  BY <1>3, <1>4, <1>5, <1>6

(* The coordinator implements the ownership protocol. *)
THEOREM Refinement == Spec => CoordinatorOwner!Spec
<1>1. Init => CoordinatorOwner!Init
  BY DEF Init, CoordinatorOwner!Init, Server, Serving, Live, Operational, ClosingEvents
<1> QED
  BY <1>1, Invariance, ServerStepRefines, PTL DEF Spec, CoordinatorOwner!Spec

-----------------------------------------------------------------------------
(* What an operation that is left alone does with the robot: the tool it   *)
(* holds, once the routine it has ordered is done, when its callback comes *)
(* to entry i of the pipeline, ...                                         *)
Held(o, i) ==
  CASE o = "op1" /\ i \in 11..20 -> "tool1"
    [] o = "op1" /\ i \in 23..33 -> "tool2"
    [] o = "op1" /\ i \in 36..39 -> "tool3"
    [] o = "op2" /\ i \in 13..16 -> "tool3"
    [] OTHER                     -> "none"

(* ... and the entries it comes to with a motion ordered that it has not   *)
(* waited for yet.                                                         *)
Pending(o) ==
  IF o = "op1" THEN {11, 13, 15, 17, 18, 19, 21, 23, 25, 26, 27, 32, 34, 36, 38, 40, 42}
               ELSE {13, 15, 17, 19}

(* What becomes of the flange when the routine under way ends. *)
Landing == IF routine \in DOMAIN Leaves THEN Leaves[routine] ELSE tool

OnTrack(g) ==
  /\ scene = Held(op[g], at[g]) /\ Landing = Held(op[g], at[g])
  /\ at[g] \notin Pending(op[g]) => routine = "none"
  /\ at[g] >= 10 => running

LeftAlone ==
  ~disturbed =>
    /\ ~dropped
    /\ routine \in DOMAIN CountsOn => tool = CountsOn[routine]
    /\ \A g \in Goals : Live(g) => OnTrack(g)
    /\ \A g \in Goals :
         status[g] = "succeeded" => routine = "none" /\ tool = "none" /\ scene = "none"

(* A motion ordered after a cancel was accepted is the last one: the       *)
(* pipeline looks at the request before the next.                          *)
Stopping ==
  /\ since <= 1
  /\ \A g \in Goals :
       Live(g) => since = 0 \/ (Canceling(g) /\ at[g] \in Pending(op[g]))

(* A goal that is under way is at an entry, and one that has ended owes    *)
(* its lifecycle event: whoever has a goal in either state has the node.   *)
Placed ==
  \A g \in Goals :
    /\ Live(g) => at[g] # 0
    /\ status[g] \in Terminal => closing[g] # "none"

CellInv == IInv /\ Placed /\ LeftAlone /\ Stopping

(* What the two pipelines are to these proofs, entry by entry: an order is *)
(* given to a robot that has nothing to do and holds the tool the routine  *)
(* counts on, and is followed by a wait or by symbols up to a wait; the    *)
(* program has been started before the first order.                        *)
Coherent(o, i, entry) ==
  /\ entry \in Motions => i \notin Pending(o) /\ i + 1 \in Pending(o) /\ i >= 10
  /\ entry \in DOMAIN CountsOn => CountsOn[entry] = Held(o, i)
  /\ Held(o, i + 1) = IF entry \in DOMAIN Leaves THEN Leaves[entry] ELSE Held(o, i)
  /\ i \in Pending(o) => entry \in {"idle", "check", "symbol"}
  /\ entry = "idle" => i + 1 \notin Pending(o)
  /\ entry \notin Motions \cup {"idle"} => (i \in Pending(o) <=> i + 1 \in Pending(o))
  /\ i + 1 >= 10 => i >= 10 \/ entry = "prepare"

(* Operation 1 is coherent, *)
LEMMA Entries1 ==
  ASSUME NEW i \in 1..Len(Operation1)
  PROVE  Coherent("op1", i, Operation1[i])
  BY DEF Operation1, Coherent, Motions, Routines, CountsOn, Leaves, Held, Pending

(* operation 2 is coherent, *)
LEMMA Entries2 ==
  ASSUME NEW i \in 1..Len(Operation2)
  PROVE  Coherent("op2", i, Operation2[i])
  BY DEF Operation2, Coherent, Motions, Routines, CountsOn, Leaves, Held, Pending

(* At its beginning and at its end the operation holds no tool and waits   *)
(* for nothing.                                                            *)
LEMMA Ends ==
  ASSUME NEW o \in Operations
  PROVE  /\ Held(o, 1) = "none" /\ 1 \notin Pending(o)
         /\ Held(o, Len(Pipeline[o]) + 1) = "none" /\ Len(Pipeline[o]) + 1 \notin Pending(o)
<1>1. Len(Operation1) = 42 /\ Len(Operation2) = 20
  BY DEF Operation1, Operation2
<1>2. CASE o = "op1"
  <2>1. Pipeline[o] = Operation1
    BY <1>2 DEF Pipeline
  <2>2. Len(Pipeline[o]) = 42
    BY <1>1, <2>1, Zenon
  <2>3. \A i \in {1, 42 + 1} : Held(o, i) = "none" /\ i \notin Pending(o)
    BY <1>2 DEF Held, Pending
  <2> QED
    BY <2>2, <2>3
<1>3. CASE o = "op2"
  <2>1. Pipeline[o] = Operation2
    BY <1>3 DEF Pipeline
  <2>2. Len(Pipeline[o]) = 20
    BY <1>1, <2>1, Zenon
  <2>3. \A i \in {1, 20 + 1} : Held(o, i) = "none" /\ i \notin Pending(o)
    BY <1>3 DEF Held, Pending
  <2> QED
    BY <2>2, <2>3
<1> QED
  BY <1>2, <1>3, OperationsAssumption

(* and so is any operation that is sent. *)
LEMMA Entries ==
  ASSUME NEW o \in Operations, NEW i \in 1..Len(Pipeline[o])
  PROVE  Coherent(o, i, Pipeline[o][i])
<1>1. \/ o = "op1" /\ Pipeline[o] = Operation1
      \/ o = "op2" /\ Pipeline[o] = Operation2
  BY OperationsAssumption DEF Pipeline
<1>2. CASE o = "op1" /\ Pipeline[o] = Operation1
  BY <1>2, Entries1
<1>3. CASE o = "op2" /\ Pipeline[o] = Operation2
  BY <1>3, Entries2
<1> QED
  BY <1>1, <1>2, <1>3

(* A goal that is under way or has ended has the node to itself. *)
LEMMA Alone ==
  ASSUME CellInv, NEW g \in Goals, Live(g) \/ status[g] \in Terminal
  PROVE  /\ state = "busy"
         /\ \A h \in Goals : Live(h) \/ status[h] \in Terminal => h = g
<1>1. \A h \in Goals : Live(h) \/ status[h] \in Terminal => Serving(h)
  BY DEF CellInv, IInv, TypeOK, Placed, Serving
<1> QED
  BY <1>1 DEF CellInv, IInv, ServesOneGoal

(* A callback under way is at an entry of its pipeline, or past the last.  *)
LEMMA AtEntry ==
  ASSUME CellInv, NEW g \in Goals, Live(g)
  PROVE  /\ op[g] \in Operations
         /\ at[g] \in Nat /\ Len(Pipeline[op[g]]) \in Nat
         /\ ~Done(g) => Coherent(op[g], at[g], Here(g))
<1>1. op[g] \in Operations
  BY DEF CellInv, IInv, TypeOK, GoalsInOrder, Live
<1>2. at[g] \in Nat /\ at[g] # 0 /\ at[g] <= Len(Pipeline[op[g]]) + 1
  BY <1>1, OperationsAssumption DEF CellInv, IInv, TypeOK, Placed
<1>3. Len(Pipeline[op[g]]) \in Nat
  BY <1>1, PipelineLength
<1>4. ASSUME ~Done(g) PROVE Coherent(op[g], at[g], Here(g))
  <2>1. at[g] \in 1..Len(Pipeline[op[g]])
    BY <1>2, <1>3, <1>4 DEF Done
  <2> QED
    BY <1>1, <2>1, Entries DEF Here
<1> QED
  BY <1>1, <1>2, <1>3, <1>4

-----------------------------------------------------------------------------
(* A callback's step leaves its goal at an entry, or owing its event. *)
LEMMA StepKeepsPlaced ==
  ASSUME CellInv, NEW g \in Goals, Step(g)
  PROVE  Placed'
<1> USE DEF CellInv, IInv
<1>1. CASE Advance(g)
  <2>1. at[g] \in Nat /\ Live(g)
    BY StepShape DEF TypeOK
  <2> QED
    BY <1>1, <2>1 DEF Advance, Placed, Live, TypeOK
<1>2. ASSUME NEW s \in Terminal, NEW event \in ClosingEvents, End(g, s, event)
      PROVE  Placed'
  BY <1>2 DEF End, Placed, Live, Terminal, ClosingEvents, TypeOK
<1> QED
  BY <1>1, <1>2, StepShape

(* When a callback moves on, the robot is to be found as the next entry    *)
(* expects it, unless it was disturbed.                                    *)
LEMMA MovedOn ==
  ASSUME CellInv, NEW g \in Goals, Live(g), Advance(g),
         ~disturbed' =>
           /\ ~dropped'
           /\ routine' \in DOMAIN CountsOn => tool' = CountsOn[routine']
           /\ scene' = Held(op[g], at[g] + 1) /\ Landing' = Held(op[g], at[g] + 1)
           /\ at[g] + 1 \notin Pending(op[g]) => routine' = "none"
           /\ at[g] + 1 >= 10 => running'
  PROVE  LeftAlone'
<1>1. op' = op /\ status' = status /\ at'[g] = at[g] + 1
  BY DEF Advance, CellInv, IInv, TypeOK
<1>2. \A h \in Goals : Live(h)' => h = g
  BY <1>1, Alone DEF Live
<1>3. \A h \in Goals : status'[h] # "succeeded"
  BY <1>1, Alone DEF Terminal, Live
<1>4. ~disturbed' => OnTrack(g)'
  BY <1>1 DEF OnTrack
<1> QED
  BY <1>2, <1>3, <1>4 DEF LeftAlone

(* When it ends its goal, nobody expects anything of the robot, unless the *)
(* goal succeeded.                                                         *)
LEMMA EndedWith ==
  ASSUME CellInv, NEW g \in Goals, Live(g), NEW s \in Terminal, NEW event,
         End(g, s, event),
         ~disturbed' =>
           /\ ~dropped'
           /\ routine' \in DOMAIN CountsOn => tool' = CountsOn[routine']
           /\ s = "succeeded" => routine' = "none" /\ tool' = "none" /\ scene' = "none"
  PROVE  LeftAlone'
<1>1. status' = [status EXCEPT ![g] = s] /\ status \in [Goals -> Statuses]
  BY DEF End, CellInv, IInv, TypeOK
<1>2. \A h \in Goals : ~Live(h)'
  BY <1>1, Alone DEF Live, Terminal
<1>3. \A h \in Goals : status'[h] = "succeeded" => s = "succeeded"
  BY <1>1, Alone DEF Live, Terminal
<1> QED
  BY <1>2, <1>3 DEF LeftAlone

(* An entry that neither orders a motion nor starts the program, and that  *)
(* is left without a motion under way where it waits for one, leaves the   *)
(* robot as the next entry expects it.                                     *)
LEMMA QuietAdvance ==
  ASSUME CellInv, NEW g \in Goals, Live(g), ~Done(g), Advance(g),
         Here(g) \notin Motions \cup {"prepare"},
         Here(g) = "idle" => routine = "none",
         UNCHANGED robotVars, ~disturbed' => ~disturbed /\ dropped' = dropped
  PROVE  LeftAlone'
<1> USE DEF robotVars
<1>1. SUFFICES ASSUME ~disturbed'
               PROVE  /\ ~dropped'
                      /\ routine' \in DOMAIN CountsOn => tool' = CountsOn[routine']
                      /\ scene' = Held(op[g], at[g] + 1)
                      /\ Landing' = Held(op[g], at[g] + 1)
                      /\ at[g] + 1 \notin Pending(op[g]) => routine' = "none"
                      /\ at[g] + 1 >= 10 => running'
  BY MovedOn
<1>2. OnTrack(g) /\ ~dropped /\ (routine \in DOMAIN CountsOn => tool = CountsOn[routine])
  BY <1>1 DEF CellInv, LeftAlone
<1>3. Coherent(op[g], at[g], Here(g)) /\ Here(g) \notin Motions
  BY AtEntry
<1>4. Here(g) \notin DOMAIN Leaves
  BY <1>3 DEF Leaves, Motions, Routines, CountsOn
<1>5. Held(op[g], at[g] + 1) = Held(op[g], at[g])
  BY <1>3, <1>4 DEF Coherent
<1>6. Landing' = Landing
  BY DEF Landing
<1>7. at[g] + 1 \notin Pending(op[g]) => routine = "none"
  BY <1>2, <1>3 DEF Coherent, OnTrack
<1>8. at[g] + 1 >= 10 => running
  BY <1>2, <1>3 DEF Coherent, OnTrack
<1> QED
  BY <1>1, <1>2, <1>5, <1>6, <1>7, <1>8 DEF OnTrack

(* A goal that ends short of success leaves the robot as it is. *)
LEMMA QuietEnd ==
  ASSUME CellInv, NEW g \in Goals, Live(g), NEW s \in {"canceled", "aborted"},
         NEW event, End(g, s, event),
         UNCHANGED <<routine, tool>>, ~disturbed' => ~disturbed /\ dropped' = dropped
  PROVE  LeftAlone'
<1>1. ~disturbed' => /\ ~dropped'
                     /\ routine' \in DOMAIN CountsOn => tool' = CountsOn[routine']
  BY DEF CellInv, LeftAlone
<1> QED
  BY <1>1, EndedWith DEF Terminal

(* What an order finds, if the robot was left alone: an idle robot with    *)
(* the tool it counts on.                                                  *)
LEMMA OrderFinds ==
  ASSUME CellInv, NEW g \in Goals, Live(g), ~Done(g), Here(g) \in Motions,
         ~disturbed
  PROVE  /\ RapidIdle /\ ~dropped
         /\ tool = Held(op[g], at[g]) /\ scene = Held(op[g], at[g])
         /\ Here(g) \in DOMAIN CountsOn => CountsOn[Here(g)] = tool
<1>1. OnTrack(g) /\ ~dropped
  BY DEF CellInv, LeftAlone
<1>2. Coherent(op[g], at[g], Here(g))
  BY AtEntry
<1>3. routine = "none" /\ running
  BY <1>1, <1>2 DEF Coherent, OnTrack
<1>4. tool = Held(op[g], at[g]) /\ scene = Held(op[g], at[g])
  BY <1>1, <1>3 DEF OnTrack, Landing, Leaves
<1>5. Here(g) \in DOMAIN CountsOn => CountsOn[Here(g)] = tool
  BY <1>2, <1>4 DEF Coherent
<1> QED
  BY <1>1, <1>3, <1>4, <1>5 DEF RapidIdle

(* An order that is given starts its routine, and the tool node is told of *)
(* the tool the robot will end with, unless the robot was disturbed.       *)
LEMMA OrderAdvance ==
  ASSUME CellInv, NEW g \in Goals, Live(g), ~Done(g), Here(g) \in Motions,
         Advance(g), UNCHANGED <<running, tool>>,
         ~disturbed' =>
           /\ ~disturbed /\ dropped' = dropped /\ routine' = Here(g)
           /\ scene' = IF Here(g) \in DOMAIN Leaves THEN Leaves[Here(g)] ELSE scene
  PROVE  LeftAlone'
<1>1. SUFFICES ASSUME ~disturbed'
               PROVE  /\ ~dropped'
                      /\ routine' \in DOMAIN CountsOn => tool' = CountsOn[routine']
                      /\ scene' = Held(op[g], at[g] + 1)
                      /\ Landing' = Held(op[g], at[g] + 1)
                      /\ at[g] + 1 \notin Pending(op[g]) => routine' = "none"
                      /\ at[g] + 1 >= 10 => running'
  BY MovedOn
<1>2. /\ RapidIdle /\ ~dropped
      /\ tool = Held(op[g], at[g]) /\ scene = Held(op[g], at[g])
      /\ Here(g) \in DOMAIN CountsOn => CountsOn[Here(g)] = tool
  BY <1>1, OrderFinds
<1>3. Coherent(op[g], at[g], Here(g))
  BY AtEntry
<1>4. at[g] + 1 \in Pending(op[g])
  BY <1>3 DEF Coherent
<1>5. Held(op[g], at[g] + 1) = IF Here(g) \in DOMAIN Leaves THEN Leaves[Here(g)] ELSE tool
  BY <1>2, <1>3 DEF Coherent
<1>6. Landing' = Held(op[g], at[g] + 1)
  BY <1>1, <1>5 DEF Landing
<1>7. scene' = Held(op[g], at[g] + 1)
  BY <1>1, <1>2, <1>5
<1> QED
  BY <1>1, <1>2, <1>4, <1>6, <1>7 DEF RapidIdle

(* An order that raises may still have started its routine. *)
LEMMA OrderRaises ==
  ASSUME CellInv, NEW g \in Goals, Live(g), ~Done(g), Here(g) \in Motions,
         NEW event, End(g, "aborted", event),
         routine' \in {routine} \cup (IF RapidIdle THEN {Here(g)} ELSE {}),
         UNCHANGED <<tool, disturbed, dropped>>
  PROVE  LeftAlone'
<1>1. ASSUME ~disturbed
      PROVE  ~dropped /\ (routine' \in DOMAIN CountsOn => tool = CountsOn[routine'])
  <2>1. ~dropped /\ (Here(g) \in DOMAIN CountsOn => CountsOn[Here(g)] = tool)
    BY <1>1, OrderFinds
  <2>2. routine \in DOMAIN CountsOn => tool = CountsOn[routine]
    BY <1>1 DEF CellInv, LeftAlone
  <2>3. routine' = routine \/ routine' = Here(g)
    OBVIOUS
  <2> QED
    BY <2>1, <2>2, <2>3
<1> QED
  BY <1>1, EndedWith DEF Terminal

(* A step of the callback finds the cell as its entry counts on and leaves *)
(* it as the next one does.                                                *)
LEMMA StepKeepsLeftAlone ==
  ASSUME CellInv, NEW g \in Goals, Step(g)
  PROVE  LeftAlone'
<1>live. Live(g)
  BY StepShape DEF CellInv, IInv
<1>types. disturbed \in BOOLEAN /\ dropped \in BOOLEAN
  BY DEF CellInv, IInv, TypeOK
<1>kinds. \A e \in {"scan", "vision", "check", "ready", "moving", "confirm",
                    "symbol", "prepare", "idle"} : e \notin Motions
  BY DEF Motions, Routines, CountsOn
<1> USE <1>live, <1>types
<1>raise. ASSUME Raise(g), UNCHANGED <<routine, tool>>,
                 ~disturbed' => ~disturbed /\ dropped' = dropped
          PROVE  LeftAlone'
  BY <1>raise, QuietEnd DEF Raise
<1>cancel. ASSUME HandleCancel(g), UNCHANGED <<robotVars, history>>
           PROVE  LeftAlone'
  BY <1>cancel, QuietEnd DEF HandleCancel, robotVars, history
<1>quiet. ASSUME Advance(g), ~Done(g), UNCHANGED <<robotVars, history>>,
                 Here(g) \in {"scan", "vision", "check", "ready", "moving",
                              "confirm", "symbol", "idle"},
                 Here(g) = "idle" => routine = "none"
          PROVE  LeftAlone'
  BY <1>quiet, <1>kinds, QuietAdvance DEF history
<1>1. CASE Sense(g)
  BY <1>1, <1>raise, <1>quiet DEF Sense, Does, robotVars, history
<1>2. CASE CheckCancel(g)
  BY <1>2, <1>cancel, <1>quiet DEF CheckCancel, Does
<1>3. CASE Publish(g)
  BY <1>3, <1>quiet DEF Publish, Does
<1>4. CASE WaitForUserInput(g)
  BY <1>4, <1>cancel, <1>quiet DEF WaitForUserInput, Does
<1>5. CASE SetSymbol(g)
  <2> USE <1>5 DEF SetSymbol, robotVars
  <2>1. Here(g) = "symbol" /\ ~Done(g)
    BY DEF Does
  <2>2. CASE Advance(g)
    <3>1. ~disturbed' => ~disturbed /\ dropped' = dropped
      OBVIOUS
    <3> QED
      BY <2>1, <2>2, <3>1, <1>kinds, QuietAdvance
  <2>3. CASE Raise(g) /\ UNCHANGED <<disturbed, dropped>>
    BY <2>3, <1>raise
  <2> QED
    BY <2>2, <2>3
<1>6. CASE MakeRobotReady(g)
  <2> USE <1>6 DEF MakeRobotReady
  <2>1. Here(g) = "prepare" /\ ~Done(g) /\ UNCHANGED <<tool, scene, dropped>>
    BY DEF Does
  <2>2. Coherent(op[g], at[g], "prepare") /\ at[g] \in Nat
    BY <2>1, AtEntry
  <2>3. ASSUME ~disturbed
        PROVE  /\ OnTrack(g) /\ routine = "none" /\ ~dropped
               /\ at[g] + 1 \notin Pending(op[g])
               /\ Held(op[g], at[g] + 1) = Held(op[g], at[g])
    <3>1. OnTrack(g) /\ ~dropped
      BY <2>3 DEF CellInv, LeftAlone
    <3>2. at[g] \notin Pending(op[g]) /\ at[g] + 1 \notin Pending(op[g])
      BY <2>2, <1>kinds DEF Coherent
    <3>3. Held(op[g], at[g] + 1) = Held(op[g], at[g])
      BY <2>2 DEF Coherent, Leaves
    <3> QED
      BY <3>1, <3>2, <3>3 DEF OnTrack
  <2>4. ASSUME running' = TRUE, routine' = IF running THEN routine ELSE "none",
               UNCHANGED disturbed
        PROVE  ~disturbed' => /\ ~disturbed /\ ~dropped' /\ running'
                              /\ routine' = "none" /\ routine = "none"
    BY <2>1, <2>3, <2>4
  <2>5. ASSUME Advance(g), running' = TRUE, UNCHANGED disturbed,
               routine' = IF running THEN routine ELSE "none"
        PROVE  LeftAlone'
    <3>1. ASSUME ~disturbed'
          PROVE  /\ ~dropped' /\ running'
                 /\ routine' \in DOMAIN CountsOn => tool' = CountsOn[routine']
                 /\ scene' = Held(op[g], at[g] + 1) /\ Landing' = Held(op[g], at[g] + 1)
                 /\ routine' = "none"
      <4>1. ~dropped' /\ running' /\ routine' = "none" /\ routine = "none"
        BY <2>4, <2>5, <3>1
      <4>2. Landing' = Landing
        BY <2>1, <4>1 DEF Landing, Leaves
      <4>3. "none" \notin DOMAIN CountsOn
        BY DEF CountsOn
      <4> QED
        BY <2>1, <2>3, <2>5, <3>1, <4>1, <4>2, <4>3 DEF OnTrack
    <3> QED
      BY <2>5, <3>1, MovedOn
  <2>6. ASSUME Raise(g), running' = TRUE, UNCHANGED disturbed,
               routine' = IF running THEN routine ELSE "none"
        PROVE  LeftAlone'
    <3>1. "none" \notin DOMAIN CountsOn
      BY DEF CountsOn
    <3>2. ~disturbed' =>
            ~dropped' /\ (routine' \in DOMAIN CountsOn => tool' = CountsOn[routine'])
      BY <2>4, <2>6, <3>1
    <3> QED
      BY <2>6, <3>2, EndedWith DEF Raise, Terminal
  <2>7. ASSUME Advance(g), disturbed' PROVE LeftAlone'
    BY <2>7 DEF LeftAlone
  <2>8. ASSUME Raise(g), UNCHANGED <<routine, disturbed>> PROVE LeftAlone'
    BY <2>1, <2>8, <1>raise
  <2> QED
    BY <2>5, <2>6, <2>7, <2>8
<1>7. CASE WaitForRapidIdle(g)
  <2>1. Here(g) = "idle" /\ ~Done(g) /\ UNCHANGED <<robotVars, history>>
    BY <1>7 DEF WaitForRapidIdle, Does
  <2>2. \/ HandleCancel(g) \/ Raise(g)
        \/ routine = "none" /\ Advance(g)
    BY <1>7 DEF WaitForRapidIdle
  <2> QED
    BY <2>1, <2>2, <1>cancel, <1>raise, <1>quiet DEF robotVars, history
<1>8. CASE OrderRoutine(g)
  <2> USE <1>8 DEF OrderRoutine
  <2>1. Here(g) \in Motions /\ ~Done(g) /\ UNCHANGED <<running, tool>>
    BY DEF Does, Motions
  <2>2. ASSUME NEW started \in BOOLEAN, NEW swapped \in BOOLEAN, Advance(g),
               routine' = IF started THEN Here(g) ELSE routine,
               scene' = IF swapped /\ Here(g) \in DOMAIN Leaves
                          THEN Leaves[Here(g)] ELSE scene,
               dropped' = (dropped \/ ~started),
               disturbed' = (disturbed \/ (RapidIdle /\ ~started) \/ ~swapped)
        PROVE  LeftAlone'
    <3>1. ASSUME ~disturbed' PROVE ~disturbed /\ started /\ swapped
      <4>1. ~disturbed
        BY <2>2, <3>1
      <4>2. RapidIdle
        BY <2>1, <4>1, OrderFinds
      <4> QED
        BY <2>2, <3>1, <4>1, <4>2
    <3>2. ~disturbed' =>
            /\ ~disturbed /\ dropped' = dropped /\ routine' = Here(g)
            /\ scene' = IF Here(g) \in DOMAIN Leaves THEN Leaves[Here(g)] ELSE scene
      BY <2>2, <3>1
    <3> QED
      BY <2>1, <2>2, <3>2, OrderAdvance
  <2>3. ASSUME Raise(g), UNCHANGED <<scene, dropped, disturbed>>,
               routine' \in {routine} \cup (IF RapidIdle THEN {Here(g)} ELSE {})
        PROVE  LeftAlone'
    BY <2>1, <2>3, OrderRaises DEF Raise
  <2> QED
    BY <2>2, <2>3
<1>9. CASE SendMotionGoal(g)
  <2> USE <1>9 DEF SendMotionGoal
  <2>1. /\ Here(g) = "motion" /\ Here(g) \in Motions /\ ~Done(g)
        /\ UNCHANGED <<running, tool, scene, disturbed, dropped>>
    BY DEF Does, Motions
  <2>2. CASE routine' = "motion" /\ Advance(g)
    <3>1. "motion" \notin DOMAIN Leaves
      BY DEF Leaves
    <3> QED
      BY <2>1, <2>2, <3>1, OrderAdvance
  <2>3. CASE /\ routine' \in {routine} \cup (IF RapidIdle THEN {"motion"} ELSE {})
             /\ End(g, "aborted", "fail_recoverable")
    BY <2>1, <2>3, OrderRaises
  <2> QED
    BY <2>2, <2>3
<1>10. CASE Succeed(g)
  <2> USE <1>10 DEF Succeed, robotVars, history
  <2>1. op[g] \in Operations /\ at[g] = Len(Pipeline[op[g]]) + 1
    BY AtEntry DEF Done
  <2>2. Held(op[g], at[g]) = "none" /\ at[g] \notin Pending(op[g])
    BY <2>1, Ends
  <2>3. ASSUME ~disturbed
        PROVE  ~dropped /\ routine = "none" /\ tool = "none" /\ scene = "none"
    <3>1. OnTrack(g) /\ ~dropped
      BY <2>3 DEF CellInv, LeftAlone
    <3>2. routine = "none" /\ scene = "none" /\ Landing = "none"
      BY <2>2, <3>1 DEF OnTrack
    <3> QED
      BY <3>1, <3>2 DEF Landing, Leaves
  <2>4. ~disturbed' =>
          /\ ~dropped' /\ routine' = "none" /\ tool' = "none" /\ scene' = "none"
    BY <2>3
  <2> QED
    BY <2>4, EndedWith DEF Terminal, CountsOn
<1> QED
  BY <1>1, <1>2, <1>3, <1>4, <1>5, <1>6, <1>7, <1>8, <1>9, <1>10 DEF Step

(* An entry that orders a motion is reached with no motion ordered since   *)
(* the cancel, and the next thing the pipeline does is to look; an entry   *)
(* that does not look at the request carries none past a wait.             *)
LEMMA StepKeepsStopping ==
  ASSUME CellInv, NEW g \in Goals, Step(g)
  PROVE  Stopping'
<1>1. Live(g) /\ since \in Nat /\ since <= 1
  BY StepShape DEF CellInv, IInv, TypeOK, Stopping
<1>2. since = 0 \/ (Canceling(g) /\ at[g] \in Pending(op[g]))
  BY <1>1 DEF CellInv, Stopping
<1>3. /\ op[g] \in Operations
      /\ ~Done(g) => Coherent(op[g], at[g], Here(g))
  BY <1>1, AtEntry
<1>kinds. \A e \in {"scan", "vision", "check", "ready", "moving", "confirm",
                    "symbol", "prepare", "idle"} : e \notin Motions
  BY DEF Motions, Routines, CountsOn
(* A goal that ends carries nothing on. *)
<1>end. ASSUME NEW s \in Terminal, NEW event \in ClosingEvents, End(g, s, event),
               since' <= 1
        PROVE  Stopping'
  <2>1. \A h \in Goals : ~Live(h)'
    BY <1>1, <1>end, Alone DEF End, Live, Terminal, CellInv, IInv, TypeOK
  <2> QED
    BY <1>end, <2>1 DEF Stopping
<1>raise. ASSUME Raise(g), since' <= 1 PROVE Stopping'
  BY <1>raise, <1>end DEF Raise, Terminal, ClosingEvents
<1>cancel. ASSUME HandleCancel(g), since' <= 1 PROVE Stopping'
  BY <1>cancel, <1>end DEF HandleCancel, Terminal, ClosingEvents
<1>move. ASSUME Advance(g), since' <= 1,
                since' = 0 \/ (Canceling(g) /\ at[g] + 1 \in Pending(op[g]))
         PROVE  Stopping'
  <2>1. op' = op /\ status' = status /\ at'[g] = at[g] + 1
    BY <1>move DEF Advance, CellInv, IInv, TypeOK
  <2>2. \A h \in Goals : Live(h)' => h = g
    BY <1>1, <2>1, Alone DEF Live
  <2> QED
    BY <1>move, <2>1, <2>2 DEF Stopping, Canceling
<1>pass. ASSUME Advance(g), ~Done(g), since' = since, Here(g) \notin Motions,
                Here(g) \in {"check", "idle"} => ~Canceling(g)
         PROVE  Stopping'
  <2>1. CASE since = 0
    BY <1>pass, <1>move, <2>1
  <2>2. CASE since # 0
    <3>1. Canceling(g) /\ at[g] \in Pending(op[g])
      BY <1>2, <2>2
    <3>2. Here(g) = "symbol"
      BY <1>3, <1>pass, <3>1 DEF Coherent
    <3>3. at[g] + 1 \in Pending(op[g])
      BY <1>3, <1>pass, <3>1, <3>2 DEF Coherent
    <3> QED
      BY <1>1, <1>pass, <1>move, <3>1, <3>3
  <2> QED
    BY <2>1, <2>2
<1>order. ASSUME ~Done(g), Here(g) \in Motions, CountOrder(g),
                 \/ Advance(g) \/ Raise(g)
                 \/ End(g, "aborted", "fail_recoverable")
          PROVE  Stopping'
  <2>1. at[g] \notin Pending(op[g]) /\ at[g] + 1 \in Pending(op[g])
    BY <1>3, <1>order DEF Coherent
  <2>2. since = 0
    BY <1>2, <2>1
  <2>3. since' <= 1 /\ (since' = 0 \/ Canceling(g))
    BY <1>order, <2>2 DEF CountOrder
  <2> QED
    BY <1>order, <1>raise, <1>end, <1>move, <2>1, <2>3 DEF Terminal, ClosingEvents
<1> USE DEF Does, history
<1>4. CASE Sense(g)
  BY <1>1, <1>4, <1>kinds, <1>raise, <1>pass DEF Sense
<1>5. CASE CheckCancel(g)
  BY <1>1, <1>5, <1>kinds, <1>cancel, <1>pass DEF CheckCancel
<1>6. CASE Publish(g)
  BY <1>1, <1>6, <1>kinds, <1>pass DEF Publish
<1>7. CASE WaitForUserInput(g)
  BY <1>1, <1>7, <1>kinds, <1>cancel, <1>pass DEF WaitForUserInput
<1>8. CASE SetSymbol(g)
  BY <1>1, <1>8, <1>kinds, <1>raise, <1>pass DEF SetSymbol
<1>9. CASE MakeRobotReady(g)
  BY <1>1, <1>9, <1>kinds, <1>raise, <1>pass DEF MakeRobotReady
<1>10. CASE WaitForRapidIdle(g)
  BY <1>1, <1>10, <1>kinds, <1>cancel, <1>raise, <1>pass DEF WaitForRapidIdle
<1>11. CASE OrderRoutine(g)
  BY <1>11, <1>order DEF OrderRoutine, Motions
<1>12. CASE SendMotionGoal(g)
  BY <1>12, <1>order DEF SendMotionGoal, Motions
<1>13. CASE Succeed(g)
  BY <1>1, <1>13, <1>end DEF Succeed, Terminal, ClosingEvents
<1> QED
  BY <1>4, <1>5, <1>6, <1>7, <1>8, <1>9, <1>10, <1>11, <1>12, <1>13 DEF Step

-----------------------------------------------------------------------------
(* The operation begins with the invariant, ... *)
LEMMA InitCellInv == Init => CellInv
<1> SUFFICES ASSUME Init PROVE CellInv
  OBVIOUS
<1> QED
  BY InitIInv DEF Init, CellInv, Placed, LeftAlone, Stopping, Live, Terminal

(* ... each step of its callback keeps it, ... *)
LEMMA StepKeepsCellInv ==
  ASSUME CellInv, NEW g \in Goals, Step(g)
  PROVE  CellInv'
  BY StepKeepsIInv, StepKeepsPlaced, StepKeepsLeftAlone, StepKeepsStopping DEF CellInv

(* ... and so does each other step of a goal: an operation begins with a   *)
(* robot that is at rest, or is counted as disturbed from the start.       *)
LEMMA SlotKeepsCellInv ==
  ASSUME CellInv, NEW g \in Goals,
         \/ \E o \in Operations : Send(g, o)
         \/ Accept(g) \/ Reject(g) \/ Cancel(g) \/ Close(g)
  PROVE  CellInv'
<1> USE DEF robotVars, history
<1>1. IInv'
  BY SlotKeepsIInv DEF CellInv
<1> SUFFICES Placed' /\ LeftAlone' /\ Stopping'
  BY <1>1 DEF CellInv
<1>types. /\ TypeOK /\ Placed /\ LeftAlone /\ Stopping
          /\ status \in [Goals -> Statuses] /\ at \in [Goals -> Nat]
          /\ op \in [Goals -> Operations \cup {"none"}]
          /\ closing \in [Goals -> ClosingEvents \cup {"none"}]
  BY DEF CellInv, IInv, TypeOK
(* Steps of a slot that holds no goal under way, before or after. *)
<1>still. ASSUME \A h \in Goals : Live(h)' => Live(h) /\ h # g,
                 \A h \in Goals : status'[h] \in Terminal => status[h] \in Terminal /\ h # g,
                 \A h \in Goals \ {g} : /\ status'[h] = status[h] /\ op'[h] = op[h]
                                        /\ at'[h] = at[h] /\ closing'[h] = closing[h],
                 UNCHANGED <<robotVars, history>>
          PROVE  Placed' /\ LeftAlone' /\ Stopping'
  <2>1. Placed'
    BY <1>types, <1>still DEF Placed
  <2>2. \A h \in Goals : Live(h)' => (OnTrack(h) => OnTrack(h)')
    BY <1>still DEF OnTrack, Landing
  <2>3. \A h \in Goals : status'[h] = "succeeded" => status[h] = "succeeded"
    BY <1>still DEF Terminal
  <2>4. LeftAlone'
    BY <1>types, <1>still, <2>2, <2>3 DEF LeftAlone
  <2>5. Stopping'
    BY <1>types, <1>still DEF Stopping, Canceling
  <2> QED
    BY <2>1, <2>4, <2>5
<1>2. ASSUME NEW o \in Operations, Send(g, o) PROVE Placed' /\ LeftAlone' /\ Stopping'
  BY <1>2, <1>types, <1>still DEF Send, Live, Terminal
<1>3. CASE Accept(g)
  <2> USE <1>3 DEF Accept
  <2>1. state # "busy" /\ op[g] \in Operations
    BY Opening DEF CellInv, IInv, TypeOK, GoalsInOrder
  <2>2. \A h \in Goals : ~(Live(h) \/ status[h] \in Terminal)
    BY <2>1, Alone
  <2>3. \A h \in Goals : (Live(h)' => h = g) /\ status'[h] \notin Terminal
    BY <1>types, <2>2 DEF Live, Terminal
  <2>4. at'[g] = 1 /\ op' = op /\ since' = 0 /\ ~dropped' /\ UNCHANGED robotVars
    BY <1>types
  <2>5. Placed'
    BY <2>3, <2>4 DEF Placed
  <2>6. Held(op[g], 1) = "none" /\ 1 \notin Pending(op[g])
    BY <2>1, Ends
  <2>7. ASSUME ~disturbed' PROVE routine' = "none" /\ tool' = "none" /\ scene' = "none"
    BY <2>7
  <2>8. ~disturbed' => OnTrack(g)'
    BY <2>4, <2>6, <2>7 DEF OnTrack, Landing, Leaves
  <2>9. LeftAlone'
    BY <2>3, <2>4, <2>7, <2>8 DEF LeftAlone, Terminal, CountsOn
  <2>10. Stopping'
    BY <2>4 DEF Stopping
  <2> QED
    BY <2>5, <2>9, <2>10
<1>4. CASE Reject(g)
  BY <1>4, <1>types, <1>still DEF Reject, Forget, Live, Terminal
<1>5. CASE Cancel(g)
  <2> USE <1>5 DEF Cancel
  <2>1. /\ Live(g) /\ ~Canceling(g)
        /\ \A h \in Goals : (Live(h)' <=> Live(h)) /\ (status'[h] \in Terminal => status[h] \in Terminal)
    BY <1>types DEF Live, Canceling, Terminal
  <2>2. \A h \in Goals : OnTrack(h)' <=> OnTrack(h)
    BY DEF OnTrack, Landing
  <2>3. \A h \in Goals : status'[h] # "succeeded"
    BY <1>types, <2>1, Alone DEF Live, Terminal
  <2>4. LeftAlone'
    BY <1>types, <2>1, <2>2, <2>3 DEF LeftAlone
  <2>5. Placed'
    BY <1>types, <2>1 DEF Placed
  <2>6. since = 0
    BY <1>types, <2>1 DEF Stopping
  <2>7. Stopping'
    BY <2>6 DEF Stopping
  <2> QED
    BY <2>4, <2>5, <2>7
<1>6. CASE Close(g)
  <2> USE <1>6 DEF Close, Forget
  <2>1. status[g] \in Terminal
    BY DEF CellInv, IInv, GoalsInOrder, ClosingEvents
  <2>2. \A h \in Goals : ~Live(h)' /\ status'[h] \notin Terminal
    BY <1>types, <2>1, Alone DEF Live, Terminal
  <2> QED
    BY <2>2 DEF Placed, LeftAlone, Stopping
<1> QED
  BY <1>2, <1>3, <1>4, <1>5, <1>6

(* The operator, the services and the robot's own steps. *)
LEMMA OthersKeepCellInv ==
  ASSUME CellInv, UserInput \/ Administer \/ RoutineEnds \/ Disturb
  PROVE  CellInv'
<1>1. IInv' /\ UNCHANGED goalVars
  BY OthersKeepIInv DEF CellInv, UserInput, Administer, Serve, RoutineEnds, Disturb
<1> USE DEF CellInv, robotVars, history, goalVars
<1>2. Placed'
  BY <1>1 DEF Placed, Live
<1>3. since' = since
  BY DEF UserInput, Administer, Serve, RoutineEnds, Disturb
<1>4. Stopping'
  BY <1>1, <1>3 DEF Stopping, Live, Canceling
<1>5. CASE UNCHANGED <<robotVars, history>>
  BY <1>1, <1>2, <1>4, <1>5 DEF LeftAlone, OnTrack, Landing, Live
<1>6. CASE RoutineEnds
  <2> USE <1>6 DEF RoutineEnds
  <2>1. /\ routine # "none" /\ routine' = "none" /\ tool' = Landing
        /\ UNCHANGED <<running, scene, disturbed, dropped>>
    BY DEF Landing
  <2>2. Landing' = Landing
    BY <2>1 DEF Landing, Leaves
  <2>3. "none" \notin DOMAIN CountsOn
    BY DEF CountsOn
  <2>4. \A h \in Goals : OnTrack(h) => OnTrack(h)'
    BY <1>1, <2>1, <2>2 DEF OnTrack
  <2> QED
    BY <1>1, <1>2, <1>4, <2>1, <2>3, <2>4 DEF LeftAlone, Live
<1>7. CASE Disturb
  BY <1>1, <1>2, <1>4, <1>7 DEF Disturb, LeftAlone
<1> QED
  BY <1>1, <1>2, <1>4, <1>5, <1>6, <1>7 DEF UserInput, Administer, Serve

(* Every step keeps the invariant of the cell. *)
LEMMA NextKeepsCellInv == CellInv /\ [Next]_vars => CellInv'
<1> SUFFICES ASSUME CellInv, [Next]_vars PROVE CellInv'
  OBVIOUS
<1>1. CASE UNCHANGED vars
  <2>1. IInv'
    BY <1>1, NextKeepsIInv DEF CellInv
  <2> QED
    BY <1>1, <2>1 DEF vars, goalVars, robotVars, history, CellInv, Placed, LeftAlone,
                      OnTrack, Landing, Stopping, Live, Canceling
<1>2. CASE Next
  BY <1>2, StepKeepsCellInv, SlotKeepsCellInv, OthersKeepCellInv DEF Next
<1> QED
  BY <1>1, <1>2

-----------------------------------------------------------------------------
(* The cell is an invariant of the coordinator, the robot and the operator *)
(* together: as long as the operation has the robot to itself, the robot,  *)
(* the flange and the planning scene are where the pipeline counts on them *)
(* at each of its entries.                                                 *)
THEOREM CellInvariance == Spec => []CellInv
  BY InitCellInv, NextKeepsCellInv, PTL DEF Spec

(* Whenever the cancel arrives, at most one more motion is ordered before  *)
(* check_cancel or wait_for_rapid_idle sees it.                            *)
THEOREM CancelledInTime == Spec => []CancelStopsSoon
<1>1. CellInv => CancelStopsSoon
  BY DEF CellInv, Stopping, CancelStopsSoon
<1> QED
  BY <1>1, CellInvariance, PTL

(* Left alone, each routine that run_rapid_routine and run_move_command    *)
(* order is started, on a flange with the tool it counts on.               *)
THEOREM RoutinesFindTheirTool == Spec => []RightTool
<1>1. CellInv => RightTool
  BY DEF CellInv, LeftAlone, RightTool
<1> QED
  BY <1>1, CellInvariance, PTL

(* Left alone, an operation that reports success has docked its last tool, *)
(* and the planning scene shows a free flange.                             *)
THEOREM SuccessIsClean == Spec => []SuccessLeavesCellClean
<1>1. CellInv => SuccessLeavesCellClean
  BY DEF CellInv, LeftAlone, SuccessLeavesCellClean
<1> QED
  BY <1>1, CellInvariance, PTL

-----------------------------------------------------------------------------
(* The promise of Operation.  The sixth entry of the first pipeline waits  *)
(* for the confirmation, and no other does; so does the sixth ...          *)
LEMMA ConfirmEntry1 ==
  ASSUME NEW i \in 1..Len(Operation1)
  PROVE  Operation1[i] = "confirm" <=> i = 6
  BY DEF Operation1

(* ... of the second pipeline.                                             *)
LEMMA ConfirmEntry2 ==
  ASSUME NEW i \in 1..Len(Operation2)
  PROVE  Operation2[i] = "confirm" <=> i = 6
  BY DEF Operation2

(* So a goal is confirmed when its callback has passed that entry.         *)
LEMMA ConfirmedFrom ==
  ASSUME NEW o \in Operations
  PROVE  /\ Len(Pipeline[o]) \in Nat /\ Len(Pipeline[o]) >= 6
         /\ \A i \in 1..Len(Pipeline[o]) : Pipeline[o][i] = "confirm" <=> i = 6
<1>1. Len(Operation1) = 42 /\ Len(Operation2) = 20
  BY DEF Operation1, Operation2
<1>2. \/ Pipeline[o] = Operation1 \/ Pipeline[o] = Operation2
  BY OperationsAssumption DEF Pipeline
<1>3. CASE Pipeline[o] = Operation1
  <2>1. Len(Pipeline[o]) = Len(Operation1)
    BY <1>3
  <2>2. \A i \in 1..Len(Pipeline[o]) : Pipeline[o][i] = "confirm" <=> i = 6
    BY <1>3, ConfirmEntry1
  <2> QED
    BY <1>1, <2>1, <2>2
<1>4. CASE Pipeline[o] = Operation2
  <2>1. Len(Pipeline[o]) = Len(Operation2)
    BY <1>4
  <2>2. \A i \in 1..Len(Pipeline[o]) : Pipeline[o][i] = "confirm" <=> i = 6
    BY <1>4, ConfirmEntry2
  <2> QED
    BY <1>1, <2>1, <2>2
<1> QED
  BY <1>2, <1>3, <1>4

(* Where a callback is that is under way, and whether it is confirmed.     *)
LEMMA Whereabouts ==
  ASSUME CellInv, NEW g \in Goals, Live(g)
  PROVE  /\ Confirmed(g) <=> at[g] > 6
         /\ at[g] \in Nat /\ op[g] \in Operations
         /\ ~Done(g) => (Here(g) = "confirm" <=> at[g] = 6)
         /\ Done(g) => at[g] > 6
<1>1. /\ op[g] \in Operations /\ at[g] \in Nat /\ at[g] # 0
      /\ at[g] <= Len(Pipeline[op[g]]) + 1
  BY AtEntry, OperationsAssumption DEF CellInv, IInv, TypeOK, Placed
<1>2. /\ Len(Pipeline[op[g]]) \in Nat /\ Len(Pipeline[op[g]]) >= 6
      /\ \A i \in 1..Len(Pipeline[op[g]]) : Pipeline[op[g]][i] = "confirm" <=> i = 6
  BY <1>1, ConfirmedFrom
<1>3. Confirmed(g) <=> at[g] > 6
  BY <1>1, <1>2 DEF Confirmed
<1>4. ~Done(g) => (Here(g) = "confirm" <=> at[g] = 6)
  BY <1>1, <1>2 DEF Done, Here
<1>5. Done(g) => at[g] > 6
  BY <1>1, <1>2 DEF Done
<1> QED
  BY <1>1, <1>3, <1>4, <1>5

(* What the promise sees of a goal that is served.                         *)
Stage(g) == IF Live(g) THEN (IF Confirmed(g) THEN "moving" ELSE "looking") ELSE "over"

Results == [g \in Goals |-> IF status[g] \in Terminal THEN status[g] ELSE "none"]

(* What the promise sees of the coordinator that serves one goal, ...      *)
LEMMA Seen ==
  ASSUME IInv, NEW g \in Goals, Serving(g)
  PROVE  /\ Promised!vars = <<{g}, Stage(g), userInput, Canceling(g), Results, since, routine>>
         /\ \A h \in Goals : Serving(h) => h = g
<1>1. \A h \in Goals : Serving(h) => h = g
  BY DEF IInv, ServesOneGoal
<1>2. \A h \in Goals : Live(h) => h = g
  BY <1>1 DEF Serving
<1>3. \A h \in Goals : Canceling(h) => h = g
  BY <1>2 DEF Live, Canceling
<1>4. Canceling(g) = \E h \in Goals : Canceling(h)
  BY <1>3 DEF Canceling
<1>5. {h \in Goals : Serving(h)} = {g}
  BY <1>1
<1>6. Stage(g) = IF \E h \in Goals : Live(h) /\ Confirmed(h) THEN "moving"
                 ELSE IF \E h \in Goals : Live(h) THEN "looking"
                 ELSE IF \E h \in Goals : Serving(h) THEN "over" ELSE "off"
  BY <1>2 DEF Stage
<1> QED
  BY <1>1, <1>4, <1>5, <1>6 DEF Promised!vars, Results, Terminal

(* ... before a step and after it, ...                                     *)
LEMMA SeenNext ==
  ASSUME IInv', NEW g \in Goals, Serving(g)'
  PROVE  /\ Promised!vars' =
              <<{g}, Stage(g)', userInput', Canceling(g)', Results', since', routine'>>
         /\ \A h \in Goals : Serving(h)' => h = g
<1>1. \A h \in Goals : Serving(h)' => h = g
  BY DEF IInv, ServesOneGoal
<1>2. \A h \in Goals : Live(h)' => h = g
  BY <1>1 DEF Serving
<1>3. \A h \in Goals : Canceling(h)' => h = g
  BY <1>2 DEF Live, Canceling
<1>4. Canceling(g)' = \E h \in Goals : Canceling(h)'
  BY <1>3 DEF Canceling
<1>5. {h \in Goals : Serving(h)}' = {g}
  BY <1>1
<1>6. Stage(g)' = IF \E h \in Goals : Live(h)' /\ Confirmed(h)' THEN "moving"
                  ELSE IF \E h \in Goals : Live(h)' THEN "looking"
                  ELSE IF \E h \in Goals : Serving(h)' THEN "over" ELSE "off"
  BY <1>2 DEF Stage
<1> QED
  BY <1>1, <1>4, <1>5, <1>6 DEF Promised!vars, Results, Terminal

(* ... and of one that serves none.                                        *)
LEMMA SeenNone ==
  ASSUME IInv, \A g \in Goals : ~Serving(g)
  PROVE  Promised!vars = <<{}, "off", userInput, FALSE, Results, since, routine>>
<1>1. \A g \in Goals : ~Live(g) /\ ~Canceling(g)
  BY DEF Serving, Live, Canceling
<1> QED
  BY <1>1 DEF Promised!vars, Results, Terminal

(* The same of the state after a step.                                     *)
LEMMA SeenNoneNext ==
  ASSUME IInv', \A g \in Goals : ~Serving(g)'
  PROVE  Promised!vars' = <<{}, "off", userInput', FALSE, Results', since', routine'>>
<1>1. \A g \in Goals : ~Live(g)' /\ ~Canceling(g)'
  BY DEF Serving, Live, Canceling
<1> QED
  BY <1>1 DEF Promised!vars, Results, Terminal

(* What the promise sees of a callback's step: it moves on and passes no   *)
(* entry but the sixth to be confirmed, or it ends.                        *)
LEMMA StepSeen ==
  ASSUME CellInv, CellInv', NEW g \in Goals, Step(g)
  PROVE  /\ Live(g) /\ Serving(g) /\ Serving(g)'
         /\ Advance(g) /\ ~Done(g) =>
              /\ Live(g)' /\ Canceling(g)' = Canceling(g) /\ Results' = Results
              /\ Stage(g)' = IF Here(g) = "confirm" THEN "moving" ELSE Stage(g)
              /\ Here(g) = "confirm" => Stage(g) = "looking"
         /\ \A s \in Terminal, event \in ClosingEvents : End(g, s, event) =>
              /\ Stage(g)' = "over" /\ ~Canceling(g)'
              /\ Results' = [Results EXCEPT ![g] = s]
<1>0. /\ status \in [Goals -> Statuses] /\ closing \in [Goals -> ClosingEvents \cup {"none"}]
      /\ at \in [Goals -> Nat] /\ op \in [Goals -> Operations \cup {"none"}]
  BY DEF CellInv, IInv, TypeOK
<1>1. Live(g) /\ Serving(g)
  BY StepShape DEF CellInv, IInv, Serving
<1>2. ASSUME Advance(g), ~Done(g)
      PROVE  /\ Live(g)' /\ Serving(g)' /\ Canceling(g)' = Canceling(g) /\ Results' = Results
             /\ Stage(g)' = IF Here(g) = "confirm" THEN "moving" ELSE Stage(g)
             /\ Here(g) = "confirm" => Stage(g) = "looking"
  <2>1. /\ op'[g] = op[g] /\ at'[g] = at[g] + 1 /\ status' = status
        /\ Live(g)' /\ Serving(g)' /\ Canceling(g)' = Canceling(g)
    BY <1>0, <1>1, <1>2 DEF Advance, Live, Serving, Canceling
  <2>2. Results' = Results
    BY <2>1 DEF Results
  <2>3. Confirmed(g) <=> at[g] > 6
    BY <1>1, Whereabouts
  <2>4. Here(g) = "confirm" <=> at[g] = 6
    BY <1>1, <1>2, Whereabouts
  <2>5. Confirmed(g)' <=> at[g] + 1 > 6
    <3>1. at'[g] <= Len(Pipeline[op'[g]]) + 1 /\ at'[g] \in Nat
      BY <1>0, <1>1, <2>1, OperationsAssumption, AtEntry DEF CellInv, IInv, TypeOK
    <3>2. /\ Len(Pipeline[op'[g]]) \in Nat /\ Len(Pipeline[op'[g]]) >= 6
          /\ \A i \in 1..Len(Pipeline[op'[g]]) : Pipeline[op'[g]][i] = "confirm" <=> i = 6
      BY <1>1, <2>1, AtEntry, ConfirmedFrom
    <3>3. Confirmed(g)' <=> at'[g] > 6
      BY <3>1, <3>2 DEF Confirmed
    <3> QED
      BY <2>1, <3>3
  <2>6. at[g] \in Nat
    BY <1>0
  <2>7. /\ Stage(g)' = IF Here(g) = "confirm" THEN "moving" ELSE Stage(g)
        /\ Here(g) = "confirm" => Stage(g) = "looking"
    BY <1>1, <2>1, <2>3, <2>4, <2>5, <2>6 DEF Stage
  <2> QED
    BY <2>1, <2>2, <2>7
<1>3. ASSUME NEW s \in Terminal, NEW event \in ClosingEvents, End(g, s, event)
      PROVE  /\ Serving(g)' /\ Stage(g)' = "over" /\ ~Canceling(g)'
             /\ Results' = [Results EXCEPT ![g] = s]
  BY <1>0, <1>1, <1>3 DEF End, Serving, Live, Canceling, Stage, Results, Terminal
<1> QED
  BY <1>1, <1>2, <1>3, StepShape DEF CellInv, IInv

(* A callback moves on, or ends its goal, as the promise allows: quietly,  *)
(* with the robot made to start over at most, ...                          *)
LEMMA QuietKeepsPromise ==
  ASSUME CellInv, CellInv', NEW g \in Goals, Step(g),
         \/ Advance(g) /\ ~Done(g) /\ Here(g) # "confirm"
         \/ Raise(g)
         \/ Canceling(g) /\ HandleCancel(g)
         \/ Done(g) /\ End(g, "succeeded", "complete"),
         routine' \in {routine, "none"}, UNCHANGED <<userInput, since>>
  PROVE  Promised!Next \/ UNCHANGED Promised!vars
<1>1. Live(g) /\ Serving(g) /\ Serving(g)'
  BY StepSeen
<1>2. Promised!vars = <<{g}, Stage(g), userInput, Canceling(g), Results, since, routine>>
  BY <1>1, Seen DEF CellInv
<1>3. Promised!vars' =
        <<{g}, Stage(g)', userInput', Canceling(g)', Results', since', routine'>>
  BY <1>1, SeenNext DEF CellInv
<1>4. Stage(g) \in {"looking", "moving"} /\ (Done(g) => Stage(g) = "moving")
  BY <1>1, Whereabouts DEF Stage
<1>5. ASSUME NEW s \in Terminal, NEW event \in ClosingEvents, End(g, s, event),
             s = "succeeded" => Stage(g) = "moving", s = "canceled" => Canceling(g)
      PROVE  Promised!Next
  <2>1. Stage(g)' = "over" /\ ~Canceling(g)' /\ Results' = [Results EXCEPT ![g] = s]
    BY <1>5, StepSeen
  <2>2. s \in {"succeeded", "canceled", "aborted"}
    BY DEF Terminal
  <2>3. Promised!Decide(g, s)
    BY <1>2, <1>3, <1>4, <1>5, <2>1 DEF Promised!vars, Promised!Decide, Promised!Answer
  <2> QED
    BY <2>2, <2>3 DEF Promised!Next
<1>6. CASE Advance(g) /\ ~Done(g) /\ Here(g) # "confirm"
  <2>1. Stage(g)' = Stage(g) /\ Canceling(g)' = Canceling(g) /\ Results' = Results
    BY <1>6, StepSeen
  <2> QED
    BY <1>2, <1>3, <2>1 DEF Promised!vars, Promised!Next, Promised!RobotStep
<1>7. CASE Raise(g)
  BY <1>5, <1>7 DEF Raise, Terminal, ClosingEvents
<1>8. CASE Canceling(g) /\ HandleCancel(g)
  BY <1>5, <1>8 DEF HandleCancel, Terminal, ClosingEvents
<1>9. CASE Done(g) /\ End(g, "succeeded", "complete")
  BY <1>4, <1>5, <1>9 DEF Terminal, ClosingEvents
<1> QED
  BY <1>6, <1>7, <1>8, <1>9

(* ... by taking the press it has waited for, ...                          *)
LEMMA ConfirmKeepsPromise ==
  ASSUME CellInv, CellInv', NEW g \in Goals, Step(g), WaitForUserInput(g)
  PROVE  Promised!Next \/ UNCHANGED Promised!vars
<1> USE DEF WaitForUserInput, Does, history, robotVars
<1>1. Live(g) /\ Serving(g) /\ Serving(g)'
  BY StepSeen
<1>2. CASE userInput
  <2>1. Promised!vars = <<{g}, Stage(g), userInput, Canceling(g), Results, since, routine>>
    BY <1>1, Seen DEF CellInv
  <2>2. Promised!vars' =
          <<{g}, Stage(g)', userInput', Canceling(g)', Results', since', routine'>>
    BY <1>1, SeenNext DEF CellInv
  <2>3. Advance(g) /\ ~Done(g) /\ Here(g) = "confirm"
    BY <1>2
  <2>4. /\ Stage(g) = "looking" /\ Stage(g)' = "moving"
        /\ Canceling(g)' = Canceling(g) /\ Results' = Results
    BY <2>3, StepSeen
  <2>5. Promised!Confirm(g)
    BY <1>2, <2>1, <2>2, <2>4 DEF Promised!vars, Promised!Confirm
  <2> QED
    BY <2>5 DEF Promised!Next
<1>3. CASE ~userInput
  <2>1. Canceling(g) /\ HandleCancel(g) /\ ~userInput' /\ since' = since /\ routine' = routine
    BY <1>3
  <2>2. userInput \in BOOLEAN /\ userInput' = userInput
    BY <1>3, <2>1 DEF CellInv, IInv, TypeOK
  <2> QED
    BY <2>1, <2>2, QuietKeepsPromise
<1> QED
  BY <1>2, <1>3

(* ... or by an order, which comes after the confirmation and with none    *)
(* ordered since the cancel.                                               *)
LEMMA OrderKeepsPromise ==
  ASSUME CellInv, CellInv', NEW g \in Goals, Step(g), ~Done(g), Here(g) \in Motions,
         CountOrder(g), Advance(g) \/ Raise(g) \/ End(g, "aborted", "fail_recoverable"),
         routine' = routine \/ (routine = "none" /\ routine' = Here(g)),
         userInput' = userInput
  PROVE  Promised!Next
<1>1. Live(g) /\ Serving(g) /\ Serving(g)'
  BY StepSeen
<1>2. Promised!vars = <<{g}, Stage(g), userInput, Canceling(g), Results, since, routine>>
  BY <1>1, Seen DEF CellInv
<1>3. Promised!vars' =
        <<{g}, Stage(g)', userInput', Canceling(g)', Results', since', routine'>>
  BY <1>1, SeenNext DEF CellInv
<1>4. at[g] \notin Pending(op[g]) /\ at[g] >= 10 /\ at[g] \in Nat
  BY <1>1, AtEntry DEF Coherent
<1>5. since = 0
  BY <1>1, <1>4 DEF CellInv, Stopping
<1>6. Stage(g) = "moving"
  BY <1>1, <1>4, Whereabouts DEF Stage
<1>7. "confirm" \notin Motions
  BY DEF Motions, Routines, CountsOn
<1>8. \/ /\ Stage(g)' = Stage(g) /\ Canceling(g)' = Canceling(g) /\ Results' = Results
      \/ /\ Stage(g)' = "over" /\ ~Canceling(g)'
         /\ Results' = [Results EXCEPT ![g] = "aborted"]
  <2>1. CASE Advance(g)
    BY <1>7, <2>1, StepSeen
  <2>2. CASE Raise(g) \/ End(g, "aborted", "fail_recoverable")
    <3>1. PICK event \in ClosingEvents : End(g, "aborted", event)
      BY <2>2 DEF Raise, ClosingEvents
    <3> QED
      BY <3>1, StepSeen DEF Terminal
  <2> QED
    BY <2>1, <2>2
<1>9. since' = IF Canceling(g) THEN since + 1 ELSE since
  BY DEF CountOrder
<1>10. Promised!Order(g, Here(g))
  BY <1>2, <1>3, <1>5, <1>6, <1>8, <1>9
     DEF Promised!vars, Promised!Order, Promised!Answer
<1> QED
  BY <1>10 DEF Promised!Next

(* A step of a callback is one that the promise allows. *)
LEMMA StepKeepsPromise ==
  ASSUME CellInv, CellInv', NEW g \in Goals, Step(g)
  PROVE  Promised!Next \/ UNCHANGED Promised!vars
<1>1. Live(g)
  BY StepSeen
<1>quiet. ASSUME \/ Advance(g) /\ ~Done(g) /\ Here(g) # "confirm"
                 \/ Raise(g)
                 \/ Canceling(g) /\ HandleCancel(g)
                 \/ Done(g) /\ End(g, "succeeded", "complete"),
                 routine' \in {routine, "none"}, UNCHANGED <<userInput, since>>
          PROVE  Promised!Next \/ UNCHANGED Promised!vars
  BY <1>quiet, QuietKeepsPromise
<1> USE DEF Does, history, robotVars
<1>2. CASE Sense(g)
  BY <1>2, <1>quiet DEF Sense
<1>3. CASE CheckCancel(g)
  BY <1>3, <1>quiet DEF CheckCancel
<1>4. CASE Publish(g)
  BY <1>4, <1>quiet DEF Publish
<1>5. CASE WaitForUserInput(g)
  BY <1>5, ConfirmKeepsPromise
<1>6. CASE SetSymbol(g)
  BY <1>6, <1>quiet DEF SetSymbol
<1>7. CASE MakeRobotReady(g)
  BY <1>7, <1>quiet DEF MakeRobotReady
<1>8. CASE WaitForRapidIdle(g)
  BY <1>8, <1>quiet DEF WaitForRapidIdle
<1>9. CASE OrderRoutine(g)
  <2>1. ~Done(g) /\ Here(g) \in Motions /\ CountOrder(g) /\ userInput' = userInput
    BY <1>9 DEF OrderRoutine, Motions
  <2>2. /\ Advance(g) \/ Raise(g)
        /\ routine' = routine \/ (routine = "none" /\ routine' = Here(g))
    BY <1>9 DEF OrderRoutine, RapidIdle
  <2> QED
    BY <2>1, <2>2, OrderKeepsPromise
<1>10. CASE SendMotionGoal(g)
  <2>1. ~Done(g) /\ Here(g) \in Motions /\ CountOrder(g) /\ userInput' = userInput
    BY <1>10 DEF SendMotionGoal, Motions
  <2>2. /\ Advance(g) \/ End(g, "aborted", "fail_recoverable")
        /\ routine' = routine \/ (routine = "none" /\ routine' = Here(g))
    BY <1>10 DEF SendMotionGoal, RapidIdle
  <2> QED
    BY <2>1, <2>2, OrderKeepsPromise
<1>11. CASE Succeed(g)
  BY <1>11, <1>quiet DEF Succeed
<1> QED
  BY <1>2, <1>3, <1>4, <1>5, <1>6, <1>7, <1>8, <1>9, <1>10, <1>11 DEF Step

(* Steps that leave the goals as they are, or move one about that is not   *)
(* served, are not seen but for the operator's press and the robot.        *)
LEMMA SameView ==
  ASSUME IInv, IInv',
         \A g \in Goals : /\ Serving(g)' = Serving(g) /\ Stage(g)' = Stage(g)
                          /\ Canceling(g)' = Canceling(g),
         Results' = Results
  PROVE  \E serving, stage, canceled, result :
           /\ Promised!vars = <<serving, stage, userInput, canceled, result, since, routine>>
           /\ Promised!vars' = <<serving, stage, userInput', canceled, result, since', routine'>>
<1>1. CASE \E g \in Goals : Serving(g)
  <2>1. PICK g \in Goals : Serving(g)
    BY <1>1
  <2>2. Promised!vars = <<{g}, Stage(g), userInput, Canceling(g), Results, since, routine>>
    BY <2>1, Seen
  <2>3. Serving(g)'
    BY <2>1
  <2>4. Promised!vars' =
          <<{g}, Stage(g)', userInput', Canceling(g)', Results', since', routine'>>
    BY <2>3, SeenNext
  <2> QED
    BY <2>2, <2>4
<1>2. CASE \A g \in Goals : ~Serving(g)
  <2>1. \A g \in Goals : ~Serving(g)'
    BY <1>2
  <2> QED
    BY <1>2, <2>1, SeenNone, SeenNoneNext
<1> QED
  BY <1>1, <1>2

(* No orders are counted while no goal is served: the next one starts with *)
(* none.                                                                   *)
Fresh == (\A g \in Goals : ~Serving(g)) => since = 0

(* Only a goal that is served counts an order, and its end clears them.    *)
LEMMA NextKeepsFresh == CellInv /\ Fresh /\ [Next]_vars => Fresh'
<1> SUFFICES ASSUME CellInv, Fresh, [Next]_vars PROVE Fresh'
  OBVIOUS
<1> USE DEF history, goalVars
<1>1. CASE UNCHANGED <<status, closing, since>>
  BY <1>1 DEF Fresh, Serving, Live
<1>2. ASSUME NEW g \in Goals, Step(g) PROVE Fresh'
  <2>1. CellInv'
    BY NextKeepsCellInv
  <2>2. Serving(g)'
    BY <1>2, <2>1, StepSeen
  <2> QED
    BY <2>2 DEF Fresh
<1>3. ASSUME NEW g \in Goals, (\E o \in Operations : Send(g, o)) \/ Reject(g) \/ Cancel(g)
      PROVE  Fresh'
  <2>1. /\ status \in [Goals -> Statuses]
        /\ closing \in [Goals -> ClosingEvents \cup {"none"}]
        /\ status[g] = "sent" => closing[g] = "none"
    BY DEF CellInv, IInv, TypeOK, GoalsInOrder
  <2>2. since' = since /\ \A h \in Goals : Serving(h) => Serving(h)'
    BY <1>3, <2>1 DEF Send, Reject, Forget, Cancel, Serving, Live, ClosingEvents
  <2> QED
    BY <2>2 DEF Fresh
<1>4. ASSUME NEW g \in Goals, Accept(g) \/ Close(g) PROVE Fresh'
  BY <1>4 DEF Accept, Close, Fresh
<1>5. CASE UserInput \/ Administer \/ RoutineEnds \/ Disturb
  BY <1>1, <1>5 DEF UserInput, Administer, Serve, RoutineEnds, Disturb
<1> QED
  BY <1>1, <1>2, <1>3, <1>4, <1>5 DEF Next, vars

(* The other steps of a goal are the promise's own, or are not seen. *)
LEMMA SlotKeepsPromise ==
  ASSUME CellInv, CellInv', Fresh, NEW g \in Goals,
         \/ \E o \in Operations : Send(g, o)
         \/ Accept(g) \/ Reject(g) \/ Cancel(g) \/ Close(g)
  PROVE  Promised!Next \/ UNCHANGED Promised!vars
<1> USE DEF history, robotVars
<1>types. /\ status \in [Goals -> Statuses] /\ at \in [Goals -> Nat]
          /\ op \in [Goals -> Operations \cup {"none"}]
          /\ closing \in [Goals -> ClosingEvents \cup {"none"}]
          /\ status[g] \in {"unknown", "sent"} => closing[g] = "none"
          /\ IInv /\ IInv'
  BY DEF CellInv, IInv, TypeOK, GoalsInOrder
<1>1. CASE (\E o \in Operations : Send(g, o)) \/ Reject(g)
  <2>1. /\ \A h \in Goals : h # g => /\ status'[h] = status[h] /\ closing'[h] = closing[h]
                                     /\ at'[h] = at[h] /\ op'[h] = op[h]
        /\ status[g] \in {"unknown", "sent"} /\ status'[g] \in {"unknown", "sent"}
        /\ closing[g] = "none" /\ closing'[g] = "none"
        /\ UNCHANGED <<userInput, since, routine>>
    BY <1>1, <1>types DEF Send, Reject, Forget
  <2>2. \A h \in Goals : /\ Serving(h)' = Serving(h) /\ Live(h)' = Live(h)
                         /\ Canceling(h)' = Canceling(h)
    BY <2>1 DEF Serving, Live, Canceling, ClosingEvents
  <2>3. \A h \in Goals : Stage(h)' = Stage(h)
    <3>1. ~Live(g)
      BY <2>1 DEF Live
    <3>2. \A h \in Goals : Live(h) => Confirmed(h)' = Confirmed(h)
      BY <2>1, <3>1 DEF Confirmed
    <3> QED
      BY <2>2, <3>2 DEF Stage
  <2>4. Results' = Results
    BY <2>1 DEF Results, Terminal
  <2> QED
    BY <1>types, <2>1, <2>2, <2>3, <2>4, SameView
<1>2. CASE Accept(g)
  <2> USE <1>2 DEF Accept
  <2>1. \A h \in Goals : ~Serving(h)
    BY <1>types, Opening DEF IInv, ServesOneGoal
  <2>2. Serving(g)' /\ Live(g)' /\ ~Canceling(g)' /\ at'[g] = 1 /\ since = 0
    BY <1>types, <2>1 DEF Serving, Live, Canceling, Fresh
  <2>3. Stage(g)' = "looking"
    BY <2>2 DEF Stage, Confirmed
  <2>4. Results' = Results
    BY <1>types DEF Results, Terminal
  <2>5. Promised!vars = <<{}, "off", userInput, FALSE, Results, since, routine>>
    BY <1>types, <2>1, SeenNone
  <2>6. Promised!vars' =
          <<{g}, Stage(g)', userInput', Canceling(g)', Results', since', routine'>>
    BY <1>types, <2>2, SeenNext
  <2>7. Promised!Begin(g)
    BY <2>2, <2>3, <2>4, <2>5, <2>6 DEF Promised!vars, Promised!Begin
  <2> QED
    BY <2>7 DEF Promised!Next
<1>3. CASE Cancel(g)
  <2> USE <1>3 DEF Cancel
  <2>1. Live(g) /\ Serving(g) /\ Live(g)' /\ Serving(g)' /\ Canceling(g)'
    BY <1>types DEF Live, Serving, Canceling
  <2>2. Stage(g)' = Stage(g) /\ Stage(g) \in {"looking", "moving"}
    BY <2>1 DEF Stage, Confirmed
  <2>3. Results' = Results
    BY <1>types DEF Results, Terminal
  <2>4. Promised!vars = <<{g}, Stage(g), userInput, Canceling(g), Results, since, routine>>
    BY <1>types, <2>1, Seen
  <2>5. Promised!vars' =
          <<{g}, Stage(g)', userInput', Canceling(g)', Results', since', routine'>>
    BY <1>types, <2>1, SeenNext
  <2>6. Promised!Cancel(g)
    BY <2>1, <2>2, <2>3, <2>4, <2>5 DEF Promised!vars, Promised!Cancel
  <2> QED
    BY <2>6 DEF Promised!Next
<1>4. CASE Close(g)
  <2> USE <1>4 DEF Close, Forget
  <2>1. Serving(g) /\ status[g] \in Terminal
    BY DEF Serving, CellInv, IInv, GoalsInOrder, ClosingEvents
  <2>2. Stage(g) = "over" /\ ~Canceling(g)
    BY <2>1 DEF Stage, Live, Canceling, Terminal
  <2>3. \A h \in Goals : ~Serving(h)'
    <3>1. \A h \in Goals : Serving(h) => h = g
      BY <1>types, <2>1 DEF IInv, ServesOneGoal
    <3> QED
      BY <1>types, <3>1 DEF Serving, Live, ClosingEvents
  <2>4. Results' = [Results EXCEPT ![g] = "none"]
    BY <1>types DEF Results, Terminal
  <2>5. Promised!vars = <<{g}, Stage(g), userInput, Canceling(g), Results, since, routine>>
    BY <1>types, <2>1, Seen
  <2>6. Promised!vars' = <<{}, "off", userInput', FALSE, Results', since', routine'>>
    BY <1>types, <2>3, SeenNoneNext
  <2>7. Promised!Close(g)
    BY <2>2, <2>4, <2>5, <2>6 DEF Promised!vars, Promised!Close
  <2> QED
    BY <2>7 DEF Promised!Next
<1> QED
  BY <1>1, <1>2, <1>3, <1>4

(* The operator's press and the robot's own steps are the promise's too;   *)
(* the services are not seen.                                              *)
LEMMA OthersKeepPromise ==
  ASSUME CellInv, CellInv', UserInput \/ Administer \/ RoutineEnds \/ Disturb
  PROVE  Promised!Next \/ UNCHANGED Promised!vars
<1> USE DEF history, goalVars, robotVars
<1>1. UNCHANGED <<op, status, at, closing, since>>
  BY DEF UserInput, Administer, Serve, RoutineEnds, Disturb
<1>2. PICK serving, stage, canceled, result :
        /\ Promised!vars = <<serving, stage, userInput, canceled, result, since, routine>>
        /\ Promised!vars' = <<serving, stage, userInput', canceled, result, since', routine'>>
  <2>1. /\ Results' = Results
        /\ \A g \in Goals : /\ Serving(g)' = Serving(g) /\ Stage(g)' = Stage(g)
                            /\ Canceling(g)' = Canceling(g)
    BY <1>1 DEF Serving, Stage, Live, Confirmed, Canceling, Results
  <2> QED
    BY <2>1, SameView DEF CellInv
<1>3. CASE UserInput
  <2>1. Promised!Press
    BY <1>1, <1>2, <1>3 DEF UserInput, Promised!vars, Promised!Press
  <2> QED
    BY <2>1 DEF Promised!Next
<1>4. CASE Administer
  BY <1>2, <1>4 DEF Administer, Serve
<1>5. CASE RoutineEnds \/ Disturb
  <2>1. /\ UNCHANGED <<userInput, since>>
        /\ routine' = "none" \/ (routine = "none" /\ routine' = "other") \/ routine' = routine
    BY <1>1, <1>5 DEF RoutineEnds, Disturb, RapidIdle
  <2>2. Promised!RobotStep \/ UNCHANGED Promised!vars
    BY <1>2, <2>1 DEF Promised!vars, Promised!RobotStep
  <2> QED
    BY <2>2 DEF Promised!Next
<1> QED
  BY <1>3, <1>4, <1>5

-----------------------------------------------------------------------------
(* The coordinator keeps its promise: whatever the entries of its pipelines *)
(* and whoever cancels, disturbs or refuses, it works for one goal at a    *)
(* time, has the robot move for it only after a press that this goal has   *)
(* taken and before its result, and after a cancel once at most.           *)
THEOREM PromiseKept == Spec => ImplementsOperation
<1>1. Init => Promised!Init /\ Fresh
  <2> SUFFICES ASSUME Init PROVE Promised!Init /\ Fresh
    OBVIOUS
  <2>1. \A g \in Goals : ~Serving(g) /\ ~Live(g) /\ ~Canceling(g)
    BY DEF Init, Serving, Live, Canceling, ClosingEvents
  <2> QED
    BY <2>1 DEF Init, Promised!Init, Fresh
<1>2. CellInv /\ Fresh /\ CellInv' /\ [Next]_vars => [Promised!Next]_Promised!vars
  <2> SUFFICES ASSUME CellInv, Fresh, CellInv', [Next]_vars
               PROVE  [Promised!Next]_Promised!vars
    OBVIOUS
  <2>1. CASE UNCHANGED vars
    BY <2>1 DEF vars, goalVars, robotVars, history, Promised!vars,
                Serving, Live, Canceling, Confirmed
  <2>2. CASE Next
    BY <2>2, StepKeepsPromise, SlotKeepsPromise, OthersKeepPromise DEF Next
  <2> QED
    BY <2>1, <2>2
<1>3. CellInv /\ Fresh /\ [Next]_vars => Fresh'
  BY NextKeepsFresh
<1> QED
  BY <1>1, <1>2, <1>3, CellInvariance, PTL DEF Spec, ImplementsOperation, Promised!Spec

-----------------------------------------------------------------------------
(* The Operations page with the coordinator.  A card whose operation is    *)
(* moving the robot has hidden Proceed, or is going to: nothing that could *)
(* show it again is on its way.                                            *)
ProceedHidden ==
  \A g \in Goals :
    Live(g) /\ Beyond(g, "moving") =>
      \/ feedback[op[g]] = "hide"
      \/ feedback[op[g]] = "none" /\ op[g] \notin offered

(* A press that arrived and was not used yet is counted. *)
PressCounted == credit >= IF userInput THEN 1 ELSE 0

PageInv == PageTypeOK /\ ProceedHidden /\ PressCounted

(* Each operation announces once that it moves the robot, and asks for the *)
(* operator's confirmation before.                                         *)
LEMMA Announcement1 ==
  ASSUME NEW i \in 1..Len(Operation1)
  PROVE  /\ Operation1[i] = "moving" <=> i = 8
         /\ Operation1[i] = "ready" => i < 8
  BY DEF Operation1

(* Operation 2 announces its motion at the same place, *)
LEMMA Announcement2 ==
  ASSUME NEW i \in 1..Len(Operation2)
  PROVE  /\ Operation2[i] = "moving" <=> i = 8
         /\ Operation2[i] = "ready" => i < 8
  BY DEF Operation2

(* and so does any operation that is sent. *)
LEMMA Announcement ==
  ASSUME NEW o \in Operations, NEW i \in 1..Len(Pipeline[o])
  PROVE  /\ Pipeline[o][i] = "moving" <=> i = 8
         /\ Pipeline[o][i] = "ready" => i < 8
<1>1. \/ o = "op1" /\ Pipeline[o] = Operation1
      \/ o = "op2" /\ Pipeline[o] = Operation2
  BY OperationsAssumption DEF Pipeline
<1>2. CASE o = "op1" /\ Pipeline[o] = Operation1
  BY <1>2, Announcement1
<1>3. CASE o = "op2" /\ Pipeline[o] = Operation2
  BY <1>3, Announcement2
<1> QED
  BY <1>1, <1>2, <1>3

(* Each step of the page and the coordinator is one of the coordinator, or *)
(* of the page alone.                                                      *)
LEMMA PageStepIsStep == [PageNext]_pvars => [Next]_vars
<1> SUFFICES ASSUME [PageNext]_pvars PROVE [Next]_vars
  OBVIOUS
<1>1. CASE UNCHANGED pvars
  BY <1>1 DEF pvars
<1>2. ASSUME NEW g \in Goals, NEW o \in Operations, Start(g, o) PROVE [Next]_vars
  BY <1>2 DEF Start, Next
<1>3. ASSUME NEW g \in Goals,
             \/ GiveUp(g) \/ PressCancel(g) \/ GoalAccepted(g) \/ GoalRejected(g)
             \/ CoordinatorStep(g) \/ ResultArrives(g)
      PROVE  [Next]_vars
  BY <1>3 DEF GiveUp, PressCancel, GoalAccepted, GoalRejected, ResultArrives, Next,
              CoordinatorStep, PhaseStep, CompletedStep, ConfirmStep, OtherStep, Step
<1>4. ASSUME NEW o \in Operations, PressProceed(o) \/ ProceedArrives(o) \/ Drain(o)
      PROVE  [Next]_vars
  BY <1>4 DEF PressProceed, ProceedArrives, Drain, Next
<1>5. CASE Refresh \/ ((Administer \/ RoutineEnds) /\ UNCHANGED pageVars)
  BY <1>5 DEF Refresh, Next
<1> QED
  BY <1>1, <1>2, <1>3, <1>4, <1>5 DEF PageNext

(* Under the page the coordinator behaves as Coordinator says; all that is *)
(* proved of it above holds with the page.                                 *)
THEOREM PageDrivesCoordinator == PageSpec => Spec
<1>1. PageInit => Init
  BY DEF PageInit
<1> QED
  BY <1>1, PageStepIsStep, PTL DEF PageSpec, Spec

(* Feedback and Proceed are as they were, or Proceed is hidden, and no     *)
(* further goal gets beyond the announcement. *)
LEMMA HiddenKept ==
  ASSUME ProceedHidden, feedback' = feedback, offered' \subseteq offered,
         \A h \in Goals :
           Live(h)' /\ Beyond(h, "moving")' =>
             Live(h) /\ Beyond(h, "moving") /\ op'[h] = op[h]
  PROVE  ProceedHidden'
  BY DEF ProceedHidden

(* So it is when the goals' progress stays as it is, ... *)
LEMMA ProgressKept ==
  ASSUME ProceedHidden, feedback' = feedback, offered' \subseteq offered,
         UNCHANGED <<op, at>>, \A h \in Goals : Live(h)' => Live(h)
  PROVE  ProceedHidden'
  BY HiddenKept DEF Beyond

(* ... and when all that happens is that one goal enters the pipeline or   *)
(* leaves it.                                                              *)
LEMMA OneGoalMoves ==
  ASSUME ProceedHidden, NEW g \in Goals, feedback' = feedback, offered' \subseteq offered,
         \A h \in Goals \ {g} :
           op'[h] = op[h] /\ at'[h] = at[h] /\ status'[h] = status[h],
         Live(g)' => at'[g] = 1
  PROVE  ProceedHidden'
<1>1. \A h \in Goals \ {g} : (Live(h)' <=> Live(h)) /\ (Beyond(h, "moving")' <=> Beyond(h, "moving"))
  BY DEF Live, Beyond
<1>2. Live(g)' => ~Beyond(g, "moving")'
  BY DEF Beyond
<1> QED
  BY <1>1, <1>2, HiddenKept

(* A goal under way has the node to itself, with or without the page. *)
LEMMA OnlyOne ==
  ASSUME IInv, NEW g \in Goals, Live(g)
  PROVE  /\ \A h \in Goals : Live(h) => h = g
         /\ op[g] \in Operations /\ Len(Pipeline[op[g]]) \in Nat /\ at[g] \in Nat
<1>1. op[g] \in Operations
  BY DEF IInv, TypeOK, GoalsInOrder, Live
<1> QED
  BY <1>1, PipelineLength DEF IInv, TypeOK, ServesOneGoal, Serving

(* A callback's step other than those that publish a phase: it is beyond   *)
(* the announcement afterwards only if it was before.                      *)
LEMMA UntoldStep ==
  ASSUME IInv, ProceedHidden, NEW g \in Goals, Step(g),
         Does(g, {"ready", "moving"}) => ~Advance(g),
         UNCHANGED <<feedback, offered>>
  PROVE  ProceedHidden'
<1>1. Live(g) /\ at[g] \in Nat /\ at \in [Goals -> Nat] /\ status \in [Goals -> Statuses]
  BY StepShape DEF IInv, TypeOK
<1>2. CASE Advance(g) /\ ~Done(g)
  <2>1. op' = op /\ status' = status /\ at'[g] = at[g] + 1
    BY <1>1, <1>2 DEF Advance
  <2>2. \A h \in Goals : Live(h)' => Live(h) /\ h = g
    BY <1>1, <2>1, OnlyOne DEF Live
  <2>3. Here(g) # "moving"
    BY <1>1, <1>2 DEF Does
  <2>4. Beyond(g, "moving")' => Beyond(g, "moving")
    <3>1. SUFFICES ASSUME NEW i \in 1..at[g], Pipeline[op[g]][i] = "moving"
                   PROVE  Beyond(g, "moving")
      BY <1>1, <2>1 DEF Beyond
    <3>2. i # at[g]
      BY <2>3, <3>1 DEF Here
    <3>3. i \in 1..(at[g] - 1)
      BY <1>1, <3>2
    <3> QED
      BY <3>1, <3>3 DEF Beyond
  <2> QED
    BY <2>1, <2>2, <2>4, HiddenKept
<1>3. ASSUME NEW s \in Terminal, NEW event \in ClosingEvents, End(g, s, event)
      PROVE  ProceedHidden'
  BY <1>1, <1>3, ProgressKept DEF End, Live, Terminal
<1> QED
  BY <1>2, <1>3, StepShape DEF IInv

(* A phase goes out: "ready" before the announcement, and the announcement *)
(* itself hides Proceed.                                                   *)
LEMMA PhaseHides ==
  ASSUME IInv, PageTypeOK, NEW g \in Goals, PhaseStep(g)
  PROVE  ProceedHidden'
<1> USE DEF PhaseStep, Publish, Does
<1>1. Live(g) /\ ~Done(g) /\ Here(g) \in {"ready", "moving"}
  OBVIOUS
<1>2. /\ \A h \in Goals : Live(h) => h = g
      /\ op[g] \in Operations /\ Len(Pipeline[op[g]]) \in Nat /\ at[g] \in Nat
  BY <1>1, OnlyOne
<1>3. op' = op /\ status' = status /\ at'[g] = at[g] + 1
  BY DEF Advance, IInv, TypeOK
<1>4. \A h \in Goals : Live(h)' => h = g
  BY <1>2, <1>3 DEF Live
<1>5. feedback'[op[g]] = IF Here(g) = "ready" THEN "show" ELSE "hide"
  BY <1>2 DEF Tell, PageTypeOK
<1>6. ASSUME Here(g) = "ready" PROVE ~Beyond(g, "moving")'
  <2>1. at[g] <= Len(Pipeline[op[g]])
    BY <1>1, <1>2, OperationsAssumption DEF Done, IInv, TypeOK
  <2>2. SUFFICES ASSUME NEW i \in 1..at[g], Pipeline[op[g]][i] = "moving"
                 PROVE  FALSE
    BY <1>2, <1>3 DEF Beyond
  <2>3. i \in 1..Len(Pipeline[op[g]]) /\ at[g] \in 1..Len(Pipeline[op[g]])
    BY <1>2, <2>1
  <2>4. i = 8 /\ at[g] < 8
    BY <1>2, <1>6, <2>2, <2>3, Announcement DEF Here
  <2> QED
    BY <1>2, <2>4
<1> QED
  BY <1>1, <1>3, <1>4, <1>5, <1>6 DEF ProceedHidden

(* Every step keeps Proceed hidden on the card of an operation in motion, ... *)
LEMMA ProceedStaysHidden ==
  ASSUME IInv, PageInv, [PageNext]_pvars
  PROVE  ProceedHidden'
<1> USE DEF PageInv
<1>types. /\ status \in [Goals -> Statuses] /\ at \in [Goals -> Nat]
          /\ op \in [Goals -> Operations \cup {"none"}]
          /\ feedback \in [Operations -> Effects \cup {"none"}]
  BY DEF IInv, TypeOK, PageTypeOK
<1>1. CASE UNCHANGED <<goalVars, feedback, offered>>
  BY <1>1, ProgressKept DEF goalVars, Live
<1>2. ASSUME NEW g \in Goals, NEW o \in Operations, Start(g, o) PROVE ProceedHidden'
  BY <1>types, <1>2, OneGoalMoves DEF Start, Send, Reset, Live
<1>3. ASSUME NEW g \in Goals, GiveUp(g) PROVE ProceedHidden'
  BY <1>3, ProgressKept DEF GiveUp, Reset, vars, goalVars, Live
<1>4. ASSUME NEW g \in Goals, PressCancel(g) PROVE ProceedHidden'
  BY <1>types, <1>4, ProgressKept DEF PressCancel, Cancel, pageVars, cardVars, Live
<1>5. ASSUME NEW g \in Goals, GoalAccepted(g) PROVE ProceedHidden'
  BY <1>types, <1>5, OneGoalMoves DEF GoalAccepted, Accept, Live
<1>6. ASSUME NEW g \in Goals, GoalRejected(g) PROVE ProceedHidden'
  BY <1>types, <1>6, OneGoalMoves DEF GoalRejected, Reject, Forget, Reset, Live
<1>7. ASSUME NEW g \in Goals, ResultArrives(g) PROVE ProceedHidden'
  BY <1>types, <1>7, OneGoalMoves DEF ResultArrives, Close, Forget, Live
<1>8. ASSUME NEW g \in Goals, CoordinatorStep(g) PROVE ProceedHidden'
  <2>1. CASE PhaseStep(g)
    BY <2>1, PhaseHides
  <2>2. CASE CompletedStep(g)
    <3>1. \A h \in Goals : ~Live(h)'
      <4>1. Live(g) /\ \A h \in Goals : Live(h) => h = g
        BY <2>2, OnlyOne DEF CompletedStep, Succeed
      <4> QED
        BY <1>types, <2>2, <4>1 DEF CompletedStep, Succeed, End, Live
    <3> QED
      BY <3>1 DEF ProceedHidden
  <2>3. CASE ConfirmStep(g)
    <3>1. Step(g) /\ ~Does(g, {"ready", "moving"}) /\ UNCHANGED <<feedback, offered>>
      BY <2>3 DEF ConfirmStep, WaitForUserInput, Does, Step, cardVars
    <3> QED
      BY <3>1, UntoldStep
  <2>4. CASE OtherStep(g)
    <3>1. Step(g) /\ UNCHANGED <<feedback, offered>>
      BY <2>4 DEF OtherStep, Step, pageVars, cardVars
    <3>2. ~Does(g, {"ready", "moving"})
      BY <2>4 DEF OtherStep, Does, Sense, CheckCancel, SetSymbol, MakeRobotReady,
                  WaitForRapidIdle, OrderRoutine, SendMotionGoal, Routines, CountsOn
    <3> QED
      BY <3>1, <3>2, UntoldStep
  <2> QED
    BY <1>8, <2>1, <2>2, <2>3, <2>4 DEF CoordinatorStep
<1>9. ASSUME NEW o \in Operations, Drain(o) PROVE ProceedHidden'
  <2>1. UNCHANGED <<op, at, status>>
    BY <1>9 DEF Drain, vars, goalVars
  <2>2. \A g \in Goals : /\ Live(g)' <=> Live(g)
                         /\ Beyond(g, "moving")' <=> Beyond(g, "moving")
    BY <2>1 DEF Live, Beyond
  <2>3. ASSUME NEW g \in Goals, Live(g), Beyond(g, "moving")
        PROVE  \/ feedback'[op[g]] = "hide"
               \/ feedback'[op[g]] = "none" /\ op[g] \notin offered'
    <3>1. \/ feedback[op[g]] = "hide"
          \/ feedback[op[g]] = "none" /\ op[g] \notin offered
      BY <2>3 DEF ProceedHidden
    <3>2. CASE op[g] = o
      BY <1>types, <1>9, <3>1, <3>2 DEF Drain
    <3>3. CASE op[g] # o
      BY <1>types, <1>9, <3>1, <3>3 DEF Drain
    <3> QED
      BY <3>2, <3>3
  <2> QED
    BY <2>1, <2>2, <2>3 DEF ProceedHidden
<1>10. ASSUME NEW o \in Operations, PressProceed(o) \/ ProceedArrives(o)
       PROVE  ProceedHidden'
  BY <1>1, <1>10 DEF PressProceed, ProceedArrives, UserInput, vars, cardVars
<1>11. CASE Refresh \/ UNCHANGED pvars
  BY <1>1, <1>11 DEF Refresh, pvars, vars, pageVars, cardVars
<1>12. CASE (Administer \/ RoutineEnds) /\ UNCHANGED pageVars
  BY <1>1, <1>12 DEF Administer, Serve, RoutineEnds, pageVars, cardVars
<1> QED
  BY <1>2, <1>3, <1>4, <1>5, <1>6, <1>7, <1>8, <1>9, <1>10, <1>11, <1>12 DEF PageNext

(* ... keeps the presses counted, ... *)
LEMMA PressesStayCounted ==
  ASSUME IInv, PageInv, [PageNext]_pvars
  PROVE  PressCounted' /\ credit' \in -1..MaxCredit
<1>types. credit \in -1..MaxCredit /\ userInput \in BOOLEAN /\ PressCounted
  BY DEF PageInv, PageTypeOK, IInv, TypeOK
<1>1. CASE UNCHANGED <<userInput, credit>>
  BY <1>types, <1>1 DEF PressCounted
<1>2. ASSUME NEW o \in Operations, ProceedArrives(o)
      PROVE  PressCounted' /\ credit' \in -1..MaxCredit
  BY <1>types, <1>2 DEF ProceedArrives, UserInput, PressCounted, MaxCredit
<1>3. ASSUME NEW g \in Goals, ConfirmStep(g)
      PROVE  PressCounted' /\ credit' \in -1..MaxCredit
  BY <1>types, <1>3 DEF ConfirmStep, WaitForUserInput, PressCounted, MaxCredit
<1>4. ASSUME NEW g \in Goals, PhaseStep(g) \/ CompletedStep(g) \/ OtherStep(g)
      PROVE  UNCHANGED <<userInput, credit>>
  BY <1>4 DEF PhaseStep, CompletedStep, OtherStep, Publish, Succeed, Sense, CheckCancel,
              SetSymbol, MakeRobotReady, WaitForRapidIdle, OrderRoutine, SendMotionGoal,
              pageVars, pageHistory
<1>5. ASSUME NEW g \in Goals,
             \/ \E o \in Operations : Start(g, o)
             \/ GiveUp(g) \/ PressCancel(g) \/ GoalAccepted(g) \/ GoalRejected(g)
             \/ ResultArrives(g)
      PROVE  UNCHANGED <<userInput, credit>>
  BY <1>5 DEF Start, GiveUp, PressCancel, GoalAccepted, GoalRejected, ResultArrives, Send,
              Cancel, Accept, Reject, Close, vars, pageVars, pageHistory
<1>6. ASSUME NEW o \in Operations, PressProceed(o) \/ Drain(o)
      PROVE  UNCHANGED <<userInput, credit>>
  BY <1>6 DEF PressProceed, Drain, vars, pageHistory
<1>7. CASE Refresh \/ ((Administer \/ RoutineEnds) /\ UNCHANGED pageVars)
  BY <1>1, <1>7 DEF Refresh, Administer, Serve, RoutineEnds, vars, pageVars, pageHistory
<1>8. CASE UNCHANGED pvars
  BY <1>1, <1>8 DEF pvars, vars, pageVars, pageHistory
<1> QED
  BY <1>1, <1>2, <1>3, <1>4, <1>5, <1>6, <1>7, <1>8 DEF PageNext, CoordinatorStep

(* ... and keeps the types of the page. *)
LEMMA PageStaysTyped ==
  ASSUME IInv, PageInv, [PageNext]_pvars
  PROVE  PageTypeOK'
<1>1. credit' \in -1..MaxCredit
  BY PressesStayCounted
<1>2. \A g \in Goals : status[g] # "unknown" => op[g] \in Operations
  BY DEF IInv, TypeOK, GoalsInOrder
<1>3. SUFFICES /\ followed' \subseteq Goals /\ cancellable' \subseteq Goals
               /\ feedback' \in [Operations -> Effects \cup {"none"}]
               /\ startable' \subseteq Operations /\ offered' \subseteq Operations
               /\ pressing' \subseteq Operations /\ crossed' \subseteq Operations
  BY <1>1, <1>3 DEF PageTypeOK
<1> USE DEF PageInv, PageTypeOK
<1>4. ASSUME NEW g \in Goals, NEW o \in Operations, Start(g, o) PROVE PageTypeOK'
  BY <1>1, <1>4 DEF Start, Reset
<1>5. ASSUME NEW g \in Goals, GiveUp(g) PROVE PageTypeOK'
  BY <1>1, <1>2, <1>5 DEF GiveUp, Reset, pageHistory
<1>6. ASSUME NEW g \in Goals, PressCancel(g) PROVE PageTypeOK'
  BY <1>1, <1>6 DEF PressCancel, pageVars, cardVars, pageHistory
<1>7. ASSUME NEW g \in Goals, GoalAccepted(g) PROVE PageTypeOK'
  BY <1>1, <1>7 DEF GoalAccepted, pageHistory
<1>8. ASSUME NEW g \in Goals, GoalRejected(g) PROVE PageTypeOK'
  <2>1. op[g] \in Operations
    BY <1>2, <1>8 DEF GoalRejected, Reject
  <2> QED
    BY <1>1, <1>8, <2>1 DEF GoalRejected, Reset, pageHistory
<1>9. ASSUME NEW g \in Goals, ResultArrives(g) PROVE PageTypeOK'
  <2>1. op[g] \in Operations
    BY <1>2, <1>9 DEF ResultArrives, Close, IInv, GoalsInOrder, ClosingEvents, Terminal
  <2> QED
    BY <1>1, <1>9, <2>1 DEF ResultArrives
<1>10. ASSUME NEW g \in Goals, CoordinatorStep(g) PROVE PageTypeOK'
  <2>1. UNCHANGED <<cardVars, pressing, crossed>>
    BY <1>10 DEF CoordinatorStep, PhaseStep, CompletedStep, ConfirmStep, OtherStep,
                 pageVars, pageHistory
  <2>2. feedback' = feedback \/ \E effect \in Effects : Tell(g, effect)
    BY <1>10 DEF CoordinatorStep, PhaseStep, CompletedStep, ConfirmStep, OtherStep,
                 pageVars, Effects
  <2>3. feedback' \in [Operations -> Effects \cup {"none"}]
    BY <2>2 DEF Tell
  <2> QED
    BY <1>1, <2>1, <2>3 DEF cardVars
<1>11. ASSUME NEW o \in Operations, PressProceed(o) \/ ProceedArrives(o) \/ Drain(o)
       PROVE  PageTypeOK'
  BY <1>1, <1>11 DEF PressProceed, ProceedArrives, Drain, cardVars, pageHistory
<1>12. CASE Refresh
  BY <1>1, <1>12 DEF Refresh, pageHistory
<1>13. CASE UNCHANGED pageVars
  BY <1>1, <1>13 DEF pageVars, cardVars, pageHistory
<1> QED
  BY <1>3, <1>4, <1>5, <1>6, <1>7, <1>8, <1>9, <1>10, <1>11, <1>12, <1>13
  DEF PageNext, pvars

(* The page opens with nothing on its way. *)
LEMMA InitPageInv == PageInit => PageInv
  BY DEF PageInit, Init, PageInv, PageTypeOK, ProceedHidden, PressCounted, Live, Effects,
         MaxCredit

-----------------------------------------------------------------------------
(* What the cards show, what is on its way to them and the presses of      *)
(* Proceed stay in step with the coordinator.                              *)
THEOREM PageInvariance == PageSpec => []PageInv
<1>1. PageSpec => []IInv
  BY PageDrivesCoordinator, Invariance, PTL
<1>2. IInv /\ PageInv /\ [PageNext]_pvars => PageInv'
  BY ProceedStaysHidden, PressesStayCounted, PageStaysTyped DEF PageInv
<1> QED
  BY <1>1, <1>2, InitPageInv, PTL DEF PageSpec

(* Every variable of the page keeps its type; in particular, feedback and  *)
(* results reach cards there are.                                          *)
THEOREM PageTypeCorrect == PageSpec => []PageTypeOK
<1>1. PageInv => PageTypeOK
  BY DEF PageInv
<1> QED
  BY <1>1, PageInvariance, PTL

(* wait_for_user_input takes each press of Proceed for one operation only. *)
THEOREM PressConfirmsOne == PageSpec => []OnePressEach
<1>1. PageInv => OnePressEach
  BY DEF PageInv, PageTypeOK, PressCounted, OnePressEach, MaxCredit
<1> QED
  BY <1>1, PageInvariance, PTL

(* The card of an operation that moves the robot does not offer Proceed    *)
(* once it has drained its feedback.                                       *)
THEOREM ProceedIsHidden == PageSpec => []NoOfferInMotion
<1>1. PageInv => NoOfferInMotion
  BY DEF PageInv, PageTypeOK, ProceedHidden, NoOfferInMotion
<1> QED
  BY <1>1, PageInvariance, PTL

=============================================================================
