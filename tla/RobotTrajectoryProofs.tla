------------------------ MODULE RobotTrajectoryProofs ------------------------
(***************************************************************************)
(* The points of a goal reach the robot in order, and a goal succeeds only *)
(* when all of them have, for any number of goals, of points, of retries   *)
(* and any length of the queue.  The proof follows a goal from its check   *)
(* of CURRENT_STATE on: what the robot executes, what is on its way and    *)
(* how far the goal has got fit together at every step.                    *)
(***************************************************************************)
EXTENDS RobotTrajectory, SequenceTheorems, TLAPS

(* One goal at a time, and its counts; a routine runs only while           *)
(* CURRENT_STATE says so.                                                  *)
GoalsOK ==
  /\ \A g \in Goals :
       /\ Live(g) => state = "busy"
       /\ pc[g] = "close" => closing # "none"
       /\ pc[g] \in {"none", "asked"} => status[g] = "unknown"
       /\ pc[g] \in {"name", "start", "send", "after"} =>
            status[g] \in {"executing", "canceling"}
       /\ pc[g] # "close" => status[g] # "succeeded"
       /\ pc[g] \in {"none", "asked", "name", "start"} => sent[g] = 0
       /\ pc[g] \in {"name", "start", "send", "after"} => sent[g] < total[g]
  /\ \A g, h \in Goals : Live(g) /\ Live(h) => g = h
  /\ rapid # "waiting" => currentState = "2"

Unmarked == \A i \in DOMAIN Delivered : Delivered[i].userdef = "1"

(* The robot waits for a goal's points, or takes them. *)
Buffering == name = "buffer" /\ rapid # "routine" /\ (Unmarked => currentState = "2")

(* What is known at each step of a goal. *)
Tracks(g) ==
  /\ pc[g] \in {"name", "start"} => currentState = "0" /\ Delivered = <<>>
  /\ pc[g] = "start" => name = "buffer"
  /\ pc[g] = "send" => Buffering /\ Unmarked /\ Len(Delivered) = sent[g]
  /\ pc[g] = "after" =>
       /\ Buffering /\ Len(Delivered) = sent[g] + 1
       /\ Delivered[sent[g] + 1].userdef = "2" => sent[g] + 1 = total[g] \/ Canceling(g)
       /\ sent[g] + 1 = total[g] => Delivered[sent[g] + 1].userdef = "2"
  /\ status[g] = "succeeded" =>
       Len(Delivered) = total[g] /\ Delivered[total[g]].userdef = "2"

Ordered ==
  \A i \in DOMAIN Delivered :
    /\ Delivered[i].index = i
    /\ Delivered[i].userdef = "2" => i = Len(Delivered)

Undisturbed ==
  /\ Ordered
  /\ client # "none" => currentState = "0" /\ \A g \in Goals : ~Live(g)
  /\ currentState = "0" \/ rapid = "routine" \/ name = "routine" => queue = <<>>
  /\ \A g \in Goals : Tracks(g)

IInv == TypeOK /\ GoalsOK /\ (~disturbed => Undisturbed)

USE DEF NodeStates, Operational

-----------------------------------------------------------------------------
(* The events of the goals' callbacks. *)
LEMMA Fires ==
  ASSUME NEW s \in NodeStates
  PROVE  /\ Allowed("start_operation", s) => s = "idle"
         /\ Fire("start_operation", "idle") = "busy"
         /\ Fire("complete", "busy") = "idle"
         /\ Fire("fail_recoverable", "busy") = "error_recoverable"
         /\ Fire("retry_from_recoverable", "error_recoverable") = "idle"
  BY DEF Fire, Allowed, Sources, Target

(* The points on their way continue those that have been taken. *)
LEMMA Delivery ==
  ASSUME NEW r \in Seq(Messages), NEW q \in Seq(Messages)
  PROVE  /\ r \o q \in Seq(Messages)
         /\ DOMAIN (r \o q) = 1..Len(r \o q) /\ Len(r \o q) \in Nat
         /\ Len(r \o q) = Len(r) + Len(q)
         /\ q # <<>> => (r \o q)[Len(r) + 1] = Head(q)
<1>1. /\ r \o q \in Seq(Messages) /\ Len(r \o q) = Len(r) + Len(q)
      /\ \A i \in 1..Len(r) + Len(q) : (r \o q)[i] = IF i <= Len(r) THEN r[i] ELSE q[i - Len(r)]
  BY ConcatProperties
<1>2. DOMAIN (r \o q) = 1..Len(r \o q) /\ Len(r \o q) \in Nat
  BY <1>1, LenProperties
<1>3. ASSUME q # <<>> PROVE (r \o q)[Len(r) + 1] = Head(q)
  <2>1. Len(q) \in Nat \ {0} /\ Len(r) \in Nat
    BY <1>3, EmptySeq, LenProperties
  <2>2. (r \o q)[Len(r) + 1] = q[Len(r) + 1 - Len(r)]
    BY <1>1, <2>1
  <2> QED
    BY <2>1, <2>2
<1> QED
  BY <1>1, <1>2, <1>3

(* A point that is sent is the last one delivered. *)
LEMMA Sending ==
  ASSUME NEW r \in Seq(Messages), NEW q \in Seq(Messages), NEW m \in Messages
  PROVE  r \o Append(q, m) = Append(r \o q, m)
<1>1. <<m>> \in Seq(Messages)
  OBVIOUS
<1>2. r \o Append(q, m) = r \o (q \o <<m>>)
  BY AppendIsConcat
<1>3. r \o (q \o <<m>>) = (r \o q) \o <<m>>
  BY <1>1, ConcatAssociative
<1>4. (r \o q) \o <<m>> = Append(r \o q, m)
  BY AppendIsConcat, ConcatProperties
<1> QED
  BY <1>2, <1>3, <1>4

(* A point that is taken stays delivered. *)
LEMMA Taking ==
  ASSUME NEW r \in Seq(Messages), NEW q \in Seq(Messages), q # <<>>
  PROVE  Append(r, Head(q)) \o Tail(q) = r \o q
<1>1. Head(q) \in Messages /\ Tail(q) \in Seq(Messages) /\ <<Head(q)>> \in Seq(Messages)
  BY HeadTailProperties
<1>2. Append(r, Head(q)) = r \o <<Head(q)>>
  BY <1>1, AppendIsConcat
<1>3. (r \o <<Head(q)>>) \o Tail(q) = r \o (<<Head(q)>> \o Tail(q))
  BY <1>1, ConcatAssociative
<1>4. <<Head(q)>> \o Tail(q) = q
  <2>1. /\ <<Head(q)>> \o Tail(q) \in Seq(Messages)
        /\ Len(<<Head(q)>> \o Tail(q)) = 1 + Len(Tail(q))
        /\ \A i \in 1..1 + Len(Tail(q)) :
             (<<Head(q)>> \o Tail(q))[i] =
               IF i <= 1 THEN <<Head(q)>>[i] ELSE Tail(q)[i - 1]
    <3>1. Len(<<Head(q)>>) = 1
      OBVIOUS
    <3> QED
      BY <1>1, <3>1, ConcatProperties
  <2>2. /\ Len(q) \in Nat \ {0} /\ Len(Tail(q)) = Len(q) - 1
        /\ \A i \in 1..Len(Tail(q)) : Tail(q)[i] = q[i + 1]
    BY EmptySeq, HeadTailProperties
  <2>3. \A i \in 1..Len(q) : (<<Head(q)>> \o Tail(q))[i] = q[i]
    <3> SUFFICES ASSUME NEW i \in 1..Len(q)
                 PROVE  (<<Head(q)>> \o Tail(q))[i] = q[i]
      OBVIOUS
    <3>1. CASE i = 1
      BY <2>1, <2>2, <3>1
    <3>2. CASE i # 1
      <4>1. i - 1 \in 1..Len(Tail(q)) /\ i - 1 + 1 = i
        BY <2>2, <3>2
      <4> QED
        BY <2>1, <2>2, <3>2, <4>1
    <3> QED
      BY <3>1, <3>2
  <2> QED
    BY <2>1, <2>2, <2>3, SeqEqual
<1> QED
  BY <1>2, <1>3, <1>4

-----------------------------------------------------------------------------
(* The types and the goals' counts.                                        *)

(* A point that is sent is one of the goal's. *)
LEMMA NextIsMessage ==
  ASSUME TypeOK, GoalsOK, NEW g \in Goals, pc[g] = "send"
  PROVE  NextPoint(g) \in Messages /\ NextPoint(g).index = sent[g] + 1
         /\ (NextPoint(g).userdef = "2" <=> sent[g] + 1 = total[g] \/ Canceling(g))
  BY BoundsAssumption DEF TypeOK, GoalsOK, NextPoint, Point, Messages

(* The goals' callbacks keep the types. *)
LEMMA GoalTypes ==
  ASSUME TypeOK, GoalsOK, NEW g \in Goals,
         \/ \E n \in 0..MaxPoints : Ask(g, n)
         \/ Admit(g) \/ Reject(g) \/ AskFails(g) \/ Cancel(g)
         \/ SetupFails(g) \/ SetName(g) \/ StartRoutine(g)
         \/ Accepted(g) \/ Retry(g) \/ SendFails(g) \/ AfterSend(g) \/ Close(g)
  PROVE  TypeOK'
<1> USE BoundsAssumption DEF TypeOK, rapidVars, clientVars, goalVars
<1>1. ASSUME NEW n \in 0..MaxPoints, Ask(g, n) PROVE TypeOK'
  BY <1>1, Fires DEF Ask, Goto
<1>2. CASE Admit(g)
  BY <1>2, EmptySeq DEF Admit, Goto
<1>3. CASE Reject(g)
  BY <1>3, Fires DEF Reject, Forget, Goto, GoalsOK, Live
<1>4. CASE AskFails(g)
  BY <1>4 DEF AskFails, Forget, Goto
<1>5. CASE Cancel(g)
  BY <1>5 DEF Cancel
<1>6. CASE SetupFails(g)
  BY <1>6 DEF SetupFails, Forget, Goto
<1>7. CASE SetName(g)
  BY <1>7 DEF SetName, Posted, Goto
<1>8. CASE StartRoutine(g)
  BY <1>8 DEF StartRoutine, Posted, Goto
<1>9. CASE Accepted(g)
  <2>1. Append(queue, NextPoint(g)) \in Seq(Messages)
        /\ Len(Append(queue, NextPoint(g))) = Len(queue) + 1 /\ Len(queue) \in Nat
    BY <1>9, NextIsMessage, AppendProperties, LenProperties DEF Accepted, Running
  <2>2. Len(queue') <= QueueSize
    BY <1>9, <2>1 DEF Accepted
  <2> QED
    BY <1>9, <2>1, <2>2 DEF Accepted, Goto
<1>10. CASE Retry(g)
  BY <1>10 DEF Retry
<1>11. CASE SendFails(g)
  <2>1. Append(queue, NextPoint(g)) \in Seq(Messages)
        /\ Len(Append(queue, NextPoint(g))) = Len(queue) + 1 /\ Len(queue) \in Nat
    BY <1>11, NextIsMessage, AppendProperties, LenProperties DEF SendFails, Running
  <2>2. queue' = queue \/ (queue' = Append(queue, NextPoint(g)) /\ Len(queue) < QueueSize)
    BY <1>11 DEF SendFails
  <2>3. queue' \in Seq(Messages) /\ Len(queue') <= QueueSize
    <3>1. CASE queue' = queue
      BY <3>1
    <3>2. CASE queue' = Append(queue, NextPoint(g)) /\ Len(queue) < QueueSize
      <4>1. Len(queue) + 1 <= QueueSize
        BY <2>1, <3>2
      <4> QED
        BY <2>1, <3>2, <4>1
    <3> QED
      BY <2>2, <3>1, <3>2
  <2> QED
    BY <1>11, <2>3 DEF SendFails, Finish, Goto
<1>12. CASE AfterSend(g)
  <2>1. sent[g] + 1 \in 0..MaxPoints
    BY <1>12 DEF AfterSend, Running, GoalsOK
  <2> QED
    BY <1>12, <2>1 DEF AfterSend, Finish, Goto
<1>13. CASE Close(g)
  <2>1. state = "busy" /\ closing \in {"complete", "fail_recoverable"}
    BY <1>13 DEF Close, Running, GoalsOK, Live
  <2> QED
    BY <1>13, <2>1, Fires DEF Close, Forget, Goto
<1> QED
  BY <1>1, <1>2, <1>3, <1>4, <1>5, <1>6, <1>7, <1>8, <1>9, <1>10, <1>11, <1>12, <1>13

(* A goal that is not under way knows nothing; the others are not its      *)
(* business.                                                               *)
LEMMA GoalCounts ==
  ASSUME TypeOK, GoalsOK, NEW g \in Goals,
         \/ \E n \in 0..MaxPoints : Ask(g, n)
         \/ Admit(g) \/ Reject(g) \/ AskFails(g) \/ Cancel(g)
         \/ SetupFails(g) \/ SetName(g) \/ StartRoutine(g)
         \/ Accepted(g) \/ Retry(g) \/ SendFails(g) \/ AfterSend(g) \/ Close(g)
  PROVE  GoalsOK'
<1> USE DEF TypeOK, GoalsOK, Live, rapidVars, clientVars, goalVars
<1>1. ASSUME NEW n \in 0..MaxPoints, Ask(g, n) PROVE GoalsOK'
  <2>1. state = "idle" /\ state' = "busy"
    BY <1>1, Fires DEF Ask
  <2> QED
    BY <1>1, <2>1 DEF Ask, Goto
<1>2. CASE Admit(g)
  BY <1>2 DEF Admit, Goto, RapidIdle
<1>3. CASE Reject(g)
  BY <1>3 DEF Reject, Forget, Goto
<1>4. CASE AskFails(g)
  BY <1>4 DEF AskFails, Forget, Goto
<1>5. CASE Cancel(g)
  BY <1>5 DEF Cancel
<1>6. CASE SetupFails(g)
  BY <1>6 DEF SetupFails, Forget, Goto, Running
<1>7. CASE SetName(g)
  BY <1>7 DEF SetName, Goto, Running
<1>8. CASE StartRoutine(g)
  BY <1>8 DEF StartRoutine, Goto, Posted, Running
<1>9. CASE Accepted(g)
  BY <1>9 DEF Accepted, Goto, Running
<1>10. CASE Retry(g)
  BY <1>10 DEF Retry, Running
<1>11. CASE SendFails(g)
  BY <1>11 DEF SendFails, Finish, Goto, Running
<1>12. CASE AfterSend(g)
  <2>1. /\ pc[g] = "after" /\ sent[g] \in Nat /\ total[g] \in Nat /\ sent[g] < total[g]
        /\ sent' = [sent EXCEPT ![g] = sent[g] + 1] /\ state' = state /\ total' = total
        /\ rapid' = rapid /\ currentState' = currentState
    BY <1>12 DEF AfterSend, Running
  <2>2. CASE Canceling(g) \/ sent[g] + 1 = total[g]
    <3>1. /\ pc' = [pc EXCEPT ![g] = "close"] /\ closing' = "complete"
          /\ status' = [status EXCEPT ![g] = IF Canceling(g) THEN "canceled" ELSE "succeeded"]
      BY <1>12, <2>2 DEF AfterSend, Finish, Goto
    <3> QED
      BY <2>1, <3>1
  <2>3. CASE ~Canceling(g) /\ sent[g] + 1 # total[g]
    <3>1. sent[g] + 1 < total[g]
      BY <2>1, <2>3
    <3>2. pc' = [pc EXCEPT ![g] = "send"] /\ status' = status /\ closing' = closing
      BY <1>12, <2>3 DEF AfterSend, Goto
    <3> QED
      BY <2>1, <3>1, <3>2
  <2> QED
    BY <2>2, <2>3
<1>13. CASE Close(g)
  BY <1>13 DEF Close, Forget, Goto, Running
<1> QED
  BY <1>1, <1>2, <1>3, <1>4, <1>5, <1>6, <1>7, <1>8, <1>9, <1>10, <1>11, <1>12, <1>13

-----------------------------------------------------------------------------
(* What is known of a goal that nobody disturbs.                           *)

(* What has been delivered is a sequence of points. *)
LEMMA DeliveredType ==
  ASSUME TypeOK
  PROVE  /\ Delivered \in Seq(Messages) /\ Len(Delivered) \in Nat
         /\ DOMAIN Delivered = 1..Len(Delivered)
  BY Delivery DEF TypeOK, Delivered

(* The next point follows the ones before it. *)
LEMMA Appended ==
  ASSUME TypeOK, GoalsOK, Undisturbed, NEW g \in Goals, pc[g] = "send",
         queue' = Append(queue, NextPoint(g)), received' = received
  PROVE  /\ Ordered' /\ Len(Delivered)' = sent[g] + 1
         /\ Delivered'[sent[g] + 1] = NextPoint(g)
<1>1. Delivered' = Append(Delivered, NextPoint(g))
  BY Sending, NextIsMessage DEF TypeOK, Delivered
<1>2. /\ Len(Delivered) = sent[g] /\ Unmarked /\ Ordered /\ sent[g] \in Nat
      /\ Delivered \in Seq(Messages) /\ DOMAIN Delivered = 1..sent[g]
  BY DeliveredType DEF Undisturbed, Tracks, TypeOK
<1>3. /\ Append(Delivered, NextPoint(g)) \in Seq(Messages)
      /\ Len(Append(Delivered, NextPoint(g))) = sent[g] + 1
      /\ \A i \in 1..sent[g] : Append(Delivered, NextPoint(g))[i] = Delivered[i]
      /\ Append(Delivered, NextPoint(g))[sent[g] + 1] = NextPoint(g)
  BY <1>2, NextIsMessage, AppendProperties
<1>4. DOMAIN Append(Delivered, NextPoint(g)) = 1..sent[g] + 1
  BY <1>3, LenProperties
<1>5. Ordered'
  <2> SUFFICES ASSUME NEW i \in 1..sent[g] + 1
               PROVE  /\ Delivered'[i].index = i
                      /\ Delivered'[i].userdef = "2" => i = sent[g] + 1
    BY <1>1, <1>3, <1>4 DEF Ordered
  <2>1. CASE i = sent[g] + 1
    BY <1>1, <1>3, <2>1, NextIsMessage
  <2>2. CASE i # sent[g] + 1
    <3>1. i \in 1..sent[g]
      BY <1>2, <2>2
    <3> QED
      BY <1>1, <1>2, <1>3, <3>1 DEF Ordered, Unmarked
  <2> QED
    BY <2>1, <2>2
<1> QED
  BY <1>1, <1>3, <1>5

(* Each step of a goal leads to what is known at the next one. *)
LEMMA GoalTracks ==
  ASSUME TypeOK, GoalsOK, ~disturbed => Undisturbed, NEW g \in Goals,
         \/ \E n \in 0..MaxPoints : Ask(g, n)
         \/ Admit(g) \/ Reject(g) \/ AskFails(g) \/ Cancel(g)
         \/ SetupFails(g) \/ SetName(g) \/ StartRoutine(g)
         \/ Accepted(g) \/ Retry(g) \/ SendFails(g) \/ AfterSend(g) \/ Close(g),
         ~disturbed'
  PROVE  Undisturbed'
<1>1. Undisturbed
  BY DEF Ask, Admit, Reject, AskFails, Cancel, SetupFails, SetName, StartRoutine,
         Accepted, Retry, SendFails, AfterSend, Close, rapidVars, clientVars
<1>2. /\ pc \in [Goals -> {"none", "asked", "name", "start", "send", "after", "close"}]
      /\ status \in [Goals -> {"unknown", "executing", "canceling", "succeeded",
                               "canceled", "aborted"}]
      /\ total \in [Goals -> 0..MaxPoints] /\ sent \in [Goals -> 0..MaxPoints]
      /\ state \in NodeStates
  BY DEF TypeOK
<1>3. CASE \E n \in 0..MaxPoints : Ask(g, n)
  <2>1. /\ state = "idle" /\ pc' = [pc EXCEPT ![g] = "asked"] /\ client' = "none"
        /\ status' = status /\ UNCHANGED rapidVars
    BY <1>2, <1>3, Fires DEF Ask, Goto
  <2>2. \A h \in Goals : pc'[h] \in {"none", "asked"} /\ status'[h] = "unknown"
    BY <1>2, <2>1 DEF GoalsOK, Live
  <2>3. \A h \in Goals : Tracks(h)'
    BY <2>2 DEF Tracks
  <2> QED
    BY <1>1, <2>1, <2>3 DEF Undisturbed, Ordered, Delivered, rapidVars
<1> SUFFICES ASSUME ~\E n \in 0..MaxPoints : Ask(g, n)
             PROVE  Undisturbed'
  BY <1>3
<1>4. /\ Live(g) /\ client = "none" /\ client' = "none"
      /\ \A h \in Goals \ {g} : Tracks(h)'
  <2>1. Live(g)
    BY <1>2 DEF Admit, Reject, AskFails, Cancel, SetupFails, SetName, StartRoutine,
       Accepted, Retry, SendFails, AfterSend, Close, Running, Live, GoalsOK
  <2>2. client = "none" /\ client' = client
    BY <1>1, <2>1 DEF Undisturbed, Admit, Reject, AskFails, Cancel, SetupFails, SetName,
       StartRoutine, Accepted, Retry, SendFails, AfterSend, Close, clientVars
  <2>3. \A h \in Goals \ {g} : pc[h] = "none" /\ status[h] = "unknown"
    BY <1>2, <2>1 DEF GoalsOK, Live
  <2>4. \A h \in Goals \ {g} : pc'[h] = pc[h] /\ status'[h] = status[h]
    BY <1>2 DEF Admit, Reject, AskFails, Cancel, SetupFails, SetName, StartRoutine,
       Accepted, Retry, SendFails, AfterSend, Close, Forget, Finish, Goto
  <2>5. \A h \in Goals \ {g} : Tracks(h)'
    BY <2>3, <2>4 DEF Tracks
  <2> QED
    BY <2>1, <2>2, <2>5
(* The goals that end before their points, or after them. *)
<1>5. CASE Reject(g) \/ AskFails(g) \/ SetupFails(g) \/ Close(g)
  <2>1. pc'[g] = "none" /\ status'[g] = "unknown" /\ UNCHANGED rapidVars
    BY <1>2, <1>5 DEF Reject, AskFails, SetupFails, Close, Forget, Goto
  <2>2. Tracks(g)'
    BY <2>1 DEF Tracks
  <2> QED
    BY <1>1, <1>4, <2>1, <2>2 DEF Undisturbed, Ordered, Delivered, rapidVars
(* The check of CURRENT_STATE and the setup. *)
<1>6. CASE Admit(g)
  <2>1. /\ currentState = "0" /\ currentState' = currentState /\ queue' = queue
        /\ received' = <<>> /\ rapid' = rapid /\ name' = name
        /\ pc'[g] = "name" /\ status'[g] = "executing"
    BY <1>2, <1>6 DEF Admit, Goto, RapidIdle
  <2>2. queue = <<>>
    BY <1>1, <2>1 DEF Undisturbed
  <2>3. Delivered' = <<>> /\ DOMAIN Delivered' = {}
    <3>1. <<>> \o <<>> = <<>>
      BY EmptySeq, ConcatEmptySeq
    <3>2. DOMAIN <<>> = {}
      OBVIOUS
    <3> QED
      BY <2>1, <2>2, <3>1, <3>2 DEF Delivered
  <2>4. Tracks(g)'
    BY <2>1, <2>3 DEF Tracks
  <2> QED
    BY <1>4, <2>1, <2>2, <2>3, <2>4 DEF Undisturbed, Ordered
<1>7. CASE SetName(g)
  <2>1. /\ pc[g] = "name" /\ pc'[g] = "start" /\ name' = "buffer" /\ status' = status
        /\ UNCHANGED <<currentState, rapid, queue, received>>
    BY <1>2, <1>7 DEF SetName, Running, Goto
  <2>2. currentState = "0" /\ Delivered = <<>> /\ status[g] # "succeeded"
    BY <1>1, <2>1 DEF Undisturbed, Tracks, GoalsOK
  <2>3. Delivered' = Delivered
    BY <2>1 DEF Delivered
  <2>4. Tracks(g)'
    BY <2>1, <2>2, <2>3 DEF Tracks
  <2> QED
    BY <1>1, <1>4, <2>1, <2>2, <2>3, <2>4 DEF Undisturbed, Ordered
<1>8. CASE StartRoutine(g)
  <2>1. /\ pc[g] = "start" /\ pc'[g] = "send" /\ currentState' = "2" /\ status' = status
        /\ sent' = sent /\ UNCHANGED <<name, rapid, queue, received>>
    BY <1>2, <1>8 DEF StartRoutine, Running, Goto
  <2>2. /\ currentState = "0" /\ Delivered = <<>> /\ status[g] # "succeeded"
        /\ name = "buffer" /\ rapid = "waiting" /\ sent[g] = 0 /\ queue = <<>>
    BY <1>1, <2>1 DEF Undisturbed, Tracks, GoalsOK
  <2>3. Delivered' = Delivered /\ DOMAIN <<>> = {} /\ Len(<<>>) = 0
    BY <2>1 DEF Delivered
  <2>4. Tracks(g)'
    BY <2>1, <2>2, <2>3 DEF Tracks, Buffering, Unmarked
  <2> QED
    BY <1>1, <1>4, <2>1, <2>2, <2>3, <2>4 DEF Undisturbed, Ordered
(* The points. *)
<1>9. CASE Accepted(g)
  <2>1. /\ pc[g] = "send" /\ pc'[g] = "after" /\ queue' = Append(queue, NextPoint(g))
        /\ UNCHANGED <<name, currentState, rapid, received, status, sent, total>>
    BY <1>2, <1>9 DEF Accepted, Running, Goto
  <2>2. Ordered' /\ Len(Delivered)' = sent[g] + 1 /\ Delivered'[sent[g] + 1] = NextPoint(g)
    BY <1>1, <2>1, Appended
  <2>3. /\ name = "buffer" /\ rapid # "routine" /\ currentState = "2"
        /\ status[g] # "succeeded"
    BY <1>1, <2>1 DEF Undisturbed, Tracks, Buffering, GoalsOK
  <2>4. Tracks(g)'
    BY <2>1, <2>2, <2>3, NextIsMessage DEF Tracks, Buffering, Canceling
  <2> QED
    BY <1>4, <2>1, <2>2, <2>3, <2>4 DEF Undisturbed
<1>10. CASE SendFails(g)
  <2>1. /\ pc[g] = "send" /\ pc'[g] = "close" /\ status'[g] = "aborted"
        /\ queue' = queue \/ queue' = Append(queue, NextPoint(g))
        /\ UNCHANGED <<name, currentState, rapid, received>>
    BY <1>2, <1>10 DEF SendFails, Running, Finish, Goto
  <2>2. Ordered'
    <3>1. CASE queue' = queue
      BY <1>1, <2>1, <3>1 DEF Undisturbed, Ordered, Delivered
    <3>2. CASE queue' = Append(queue, NextPoint(g))
      BY <1>1, <2>1, <3>2, Appended
    <3> QED
      BY <2>1, <3>1, <3>2
  <2>3. name = "buffer" /\ rapid # "routine" /\ currentState = "2"
    BY <1>1, <2>1 DEF Undisturbed, Tracks, Buffering
  <2>4. Tracks(g)'
    BY <2>1 DEF Tracks
  <2> QED
    BY <1>4, <2>1, <2>2, <2>3, <2>4 DEF Undisturbed
<1>11. CASE AfterSend(g)
  <2>1. /\ pc[g] = "after" /\ sent'[g] = sent[g] + 1 /\ total' = total /\ UNCHANGED rapidVars
        /\ sent[g] \in Nat /\ total[g] \in Nat
    BY <1>2, <1>11 DEF AfterSend, Running
  <2>2. /\ Buffering /\ Len(Delivered) = sent[g] + 1 /\ Ordered
        /\ Delivered[sent[g] + 1].userdef = "2" => sent[g] + 1 = total[g] \/ Canceling(g)
        /\ sent[g] + 1 = total[g] => Delivered[sent[g] + 1].userdef = "2"
        /\ status[g] # "succeeded"
    BY <1>1, <2>1 DEF Undisturbed, Tracks, GoalsOK
  <2>3. Delivered' = Delivered
    BY <2>1 DEF Delivered, rapidVars
  <2>4. CASE Canceling(g) \/ sent[g] + 1 = total[g]
    <3>1. /\ pc'[g] = "close"
          /\ status'[g] = IF Canceling(g) THEN "canceled" ELSE "succeeded"
      BY <1>2, <1>11, <2>4 DEF AfterSend, Finish, Goto
    <3>2. Tracks(g)'
      BY <2>1, <2>2, <2>3, <2>4, <3>1 DEF Tracks
    <3> QED
      BY <1>1, <1>4, <2>1, <2>3, <3>2 DEF Undisturbed, Ordered, rapidVars
  <2>5. CASE ~Canceling(g) /\ sent[g] + 1 # total[g]
    <3>1. pc'[g] = "send" /\ status' = status
      BY <1>2, <1>11, <2>5 DEF AfterSend, Goto
    <3>2. Unmarked
      <4>1. \A i \in DOMAIN Delivered : Delivered[i].userdef # "2"
        BY <2>2, <2>5 DEF Ordered
      <4>2. \A i \in DOMAIN Delivered : Delivered[i] \in Messages
        BY DeliveredType, ElementOfSeq
      <4> QED
        BY <4>1, <4>2 DEF Unmarked, Messages
    <3>3. Tracks(g)'
      BY <2>1, <2>2, <2>3, <3>1, <3>2 DEF Tracks, Buffering, Unmarked, rapidVars
    <3> QED
      BY <1>1, <1>4, <2>1, <2>3, <3>3 DEF Undisturbed, Ordered, rapidVars
  <2> QED
    BY <2>4, <2>5
(* A retry, and a cancel request. *)
<1>12. CASE Retry(g) \/ Cancel(g)
  <2>1. /\ pc' = pc /\ sent' = sent /\ total' = total /\ UNCHANGED rapidVars
        /\ status'[g] \in {status[g], "canceling"}
    BY <1>2, <1>12 DEF Retry, Cancel
  <2>2. Tracks(g)'
    BY <1>1, <2>1 DEF Undisturbed, Tracks, Buffering, Unmarked, Canceling, Delivered, rapidVars
  <2> QED
    BY <1>1, <1>4, <2>1, <2>2 DEF Undisturbed, Ordered, Delivered, rapidVars
<1> QED
  BY <1>5, <1>6, <1>7, <1>8, <1>9, <1>10, <1>11, <1>12

-----------------------------------------------------------------------------
(* The robot and the other client.                                         *)

(* A point that is taken ends the routine only if nothing is behind it.    *)
LEMMA Takes ==
  ASSUME IInv, RapidTakes
  PROVE  IInv'
<1>1. /\ queue \in Seq(Messages) /\ queue # <<>> /\ received \in Seq(Messages)
      /\ queue' = Tail(queue) /\ received' = Append(received, Head(queue)) /\ rapid = "buffer"
      /\ IF Head(queue).userdef = "2" THEN rapid' = "waiting" /\ currentState' = "0"
                                      ELSE rapid' = rapid /\ currentState' = currentState
      /\ UNCHANGED <<state, process, goalVars, name, clientVars>>
  BY DEF RapidTakes, IInv, TypeOK
<1>2. /\ Head(queue) \in Messages /\ Tail(queue) \in Seq(Messages)
      /\ Len(Tail(queue)) = Len(queue) - 1 /\ Len(queue) \in Nat
      /\ Append(received, Head(queue)) \in Seq(Messages)
  BY <1>1, HeadTailProperties, LenProperties, AppendProperties
<1>3. Delivered' = Delivered
  BY <1>1, Taking DEF Delivered
<1>4. TypeOK'
  <2>1. Len(Tail(queue)) <= QueueSize
    BY <1>1, <1>2, BoundsAssumption DEF IInv, TypeOK
  <2> QED
    BY <1>1, <1>2, <2>1 DEF IInv, TypeOK, goalVars, clientVars
<1>5. GoalsOK'
  BY <1>1 DEF IInv, GoalsOK, Live, goalVars
<1>6. ASSUME ~disturbed'
      PROVE  Undisturbed'
  <2>1. Undisturbed /\ client' = client /\ name' = name
    BY <1>1, <1>6 DEF IInv, clientVars
  <2>2. /\ Len(received) \in Nat /\ Len(Delivered) = Len(received) + Len(queue)
        /\ Delivered[Len(received) + 1] = Head(queue) /\ Len(queue) \in Nat \ {0}
        /\ DOMAIN Delivered = 1..Len(Delivered)
    BY <1>1, Delivery, LenProperties, EmptySeq DEF Delivered
  <2>3. currentState = "2" /\ name # "routine"
    BY <1>1, <2>1 DEF IInv, GoalsOK, Undisturbed
  <2>4. CASE Head(queue).userdef = "2"
    <3>1. Len(received) + 1 \in DOMAIN Delivered
      BY <2>2
    <3>2. Len(received) + 1 = Len(Delivered)
      BY <2>1, <2>2, <2>4, <3>1 DEF Undisturbed, Ordered
    <3>3. Len(queue) = 1
      <4> DEFINE r == Len(received)
                 q == Len(queue)
                 d == Len(Delivered)
      <4>1. r \in Nat /\ q \in Nat /\ d = r + q /\ r + 1 = d
        BY <2>2, <3>2
      <4> HIDE DEF r, q, d
      <4>2. q = 1
        BY <4>1
      <4> QED
        BY <4>2 DEF q
    <3>4. queue' = <<>>
      BY <1>1, <1>2, <3>3, EmptySeq
    <3>5. ~Unmarked
      BY <2>2, <2>4, <3>1 DEF Unmarked
    <3>6. \A g \in Goals : pc[g] \notin {"name", "start", "send"}
      BY <2>1, <2>3, <3>5 DEF Undisturbed, Tracks
    <3>7. \A g \in Goals : Tracks(g)'
      BY <1>1, <1>3, <2>1, <2>4, <3>5, <3>6
        DEF Undisturbed, Tracks, Buffering, Unmarked, Canceling, goalVars
    <3>8. client' # "none" => currentState' = "0" /\ \A g \in Goals : ~Live(g)'
      BY <1>1, <2>1, <2>4 DEF Undisturbed, Live, goalVars
    <3> QED
      BY <1>3, <2>1, <3>4, <3>7, <3>8 DEF Undisturbed, Ordered
  <2>5. CASE Head(queue).userdef # "2"
    <3>1. rapid' = rapid /\ currentState' = currentState
      BY <1>1, <2>5
    <3>2. \A g \in Goals : Tracks(g)'
      BY <1>1, <1>3, <2>1, <3>1
        DEF Undisturbed, Tracks, Buffering, Unmarked, Canceling, goalVars
    <3> QED
      BY <1>1, <1>3, <2>1, <2>3, <3>1, <3>2 DEF Undisturbed, Ordered, Live, goalVars
  <2> QED
    BY <2>4, <2>5
<1> QED
  BY <1>4, <1>5, <1>6 DEF IInv

(* Before its points a goal has the robot waiting, among them it has it    *)
(* take them: no routine starts or ends under it.                          *)
LEMMA Routines ==
  ASSUME IInv, RapidStarts \/ RapidEnds
  PROVE  IInv'
<1>1. /\ UNCHANGED <<state, process, goalVars, name, queue, received, clientVars>>
      /\ \/ currentState = "2" /\ rapid = "waiting" /\ rapid' = name /\ currentState' = "2"
         \/ rapid = "routine" /\ rapid' = "waiting" /\ currentState' = "0"
  BY DEF RapidStarts, RapidEnds
<1>2. TypeOK'
  BY <1>1 DEF IInv, TypeOK, goalVars, clientVars
<1>3. GoalsOK'
  BY <1>1 DEF IInv, TypeOK, GoalsOK, Live, goalVars
<1>4. ASSUME ~disturbed'
      PROVE  Undisturbed'
  <2>1. Undisturbed /\ Delivered' = Delivered /\ client' = client
    BY <1>1, <1>4 DEF IInv, clientVars, Delivered
  <2>2. \A g \in Goals : Tracks(g)'
    BY <1>1, <2>1 DEF IInv, TypeOK, GoalsOK, Undisturbed, Tracks, Buffering, Unmarked, Canceling,
                      goalVars
  <2>3. client' # "none" => currentState' = "0" /\ \A g \in Goals : ~Live(g)'
    BY <1>1, <2>1 DEF Undisturbed, Live, goalVars
  <2> QED
    BY <1>1, <2>1, <2>2, <2>3 DEF Undisturbed, Ordered
<1> QED
  BY <1>2, <1>3, <1>4 DEF IInv

(* The other client finds CURRENT_STATE at rest and no goal under way.     *)
LEMMA Others ==
  ASSUME IInv, OtherClient
  PROVE  IInv'
<1>1. /\ UNCHANGED <<state, process, goalVars, rapid, queue, received>>
      /\ client' \in {"none", "checked", "named"}
      /\ name' \in {name, "routine"} /\ currentState' \in {currentState, "2"}
      /\ client' # "none" => currentState' = currentState
      /\ client = "none" => client' = "checked" /\ currentState = "0" /\ name' = name
      /\ client = "none" => disturbed' = (disturbed \/ \E g \in Goals : Live(g))
      /\ client # "none" => disturbed' = disturbed
  BY DEF OtherClient, Posted, RapidIdle
<1>2. TypeOK'
  BY <1>1 DEF IInv, TypeOK, goalVars
<1>3. GoalsOK'
  BY <1>1 DEF IInv, TypeOK, GoalsOK, Live, goalVars
<1>4. ASSUME ~disturbed'
      PROVE  Undisturbed'
  <2>1. /\ Undisturbed /\ Delivered' = Delivered /\ currentState = "0"
        /\ \A g \in Goals : ~Live(g) /\ status[g] = "unknown"
    <3>1. ~disturbed /\ (client = "none" => \A g \in Goals : ~Live(g))
      <4>1. CASE client = "none"
        <5>1. disturbed' = (disturbed \/ \E g \in Goals : Live(g))
          BY <1>1, <4>1
        <5> QED
          BY <1>4, <4>1, <5>1
      <4>2. CASE client # "none"
        BY <1>1, <1>4, <4>2
      <4> QED
        BY <4>1, <4>2
    <3>2. Undisturbed /\ Delivered' = Delivered
      BY <1>1, <3>1 DEF IInv, Delivered
    <3>3. currentState = "0"
      BY <1>1, <3>2 DEF Undisturbed
    <3>4. \A g \in Goals : ~Live(g)
      BY <3>1, <3>2 DEF Undisturbed
    <3>5. \A g \in Goals : status[g] = "unknown"
      BY <3>4 DEF IInv, GoalsOK, Live
    <3> QED
      BY <3>2, <3>3, <3>4, <3>5
  <2>2. \A g \in Goals : ~Live(g)' /\ Tracks(g)'
    BY <1>1, <2>1 DEF Live, Tracks, goalVars
  <2>3. queue' = <<>>
    BY <1>1, <2>1 DEF Undisturbed
  <2> QED
    BY <1>1, <2>1, <2>2, <2>3 DEF Undisturbed, Ordered
<1> QED
  BY <1>2, <1>3, <1>4 DEF IInv

(* Recovering touches no goal, and time may pass. *)
LEMMA Elsewhere ==
  ASSUME IInv, Recover \/ UNCHANGED vars
  PROVE  IInv'
<1>1. /\ process' = process /\ UNCHANGED <<goalVars, rapidVars, clientVars>>
      /\ \/ state' = state
         \/ state = "error_recoverable" /\ state' = "idle"
  BY Fires DEF Recover, vars
<1>2. TypeOK'
  BY <1>1 DEF IInv, TypeOK, goalVars, rapidVars, clientVars
<1>3. GoalsOK'
  BY <1>1 DEF IInv, GoalsOK, Live, goalVars, rapidVars
<1>4. ASSUME ~disturbed'
      PROVE  Undisturbed'
  <2>1. Undisturbed /\ Delivered' = Delivered
    BY <1>1, <1>4 DEF IInv, clientVars, rapidVars, Delivered
  <2>2. \A g \in Goals : Tracks(g)'
    BY <1>1, <2>1 DEF Undisturbed, Tracks, Buffering, Unmarked, Canceling, goalVars, rapidVars
  <2> QED
    BY <1>1, <2>1, <2>2 DEF Undisturbed, Ordered, Live, goalVars, rapidVars, clientVars
<1> QED
  BY <1>2, <1>3, <1>4 DEF IInv

-----------------------------------------------------------------------------
(* The inductive invariant holds in every behaviour. *)
THEOREM Invariance == Spec => []IInv
<1>1. Init => IInv
  <2> SUFFICES ASSUME Init
               PROVE  IInv
    OBVIOUS
  <2>1. TypeOK
    <3>1. <<>> \in Seq(Messages) /\ Len(<<>>) = 0
      BY EmptySeq
    <3>2. queue \in Seq(Messages) /\ Len(queue) <= QueueSize /\ received \in Seq(Messages)
      BY <3>1, BoundsAssumption DEF Init
    <3>3. /\ retries \in 0..RetryMax
          /\ total \in [Goals -> 0..MaxPoints] /\ sent \in [Goals -> 0..MaxPoints]
      BY BoundsAssumption DEF Init
    <3> QED
      BY <3>2, <3>3 DEF Init, TypeOK
  <2>2. GoalsOK
    BY DEF Init, GoalsOK, Live
  <2>3. Delivered = <<>> /\ DOMAIN <<>> = {}
    BY EmptySeq, ConcatEmptySeq DEF Init, Delivered
  <2> QED
    BY <2>1, <2>2, <2>3 DEF Init, IInv, Undisturbed, Ordered, Tracks, Live
<1>2. IInv /\ [Next]_vars => IInv'
  <2> SUFFICES ASSUME IInv, [Next]_vars
               PROVE  IInv'
    OBVIOUS
  <2>1. ASSUME NEW g \in Goals,
               \/ \E n \in 0..MaxPoints : Ask(g, n)
               \/ Admit(g) \/ Reject(g) \/ AskFails(g) \/ Cancel(g)
               \/ SetupFails(g) \/ SetName(g) \/ StartRoutine(g)
               \/ Accepted(g) \/ Retry(g) \/ SendFails(g) \/ AfterSend(g) \/ Close(g)
        PROVE  IInv'
    BY <2>1, GoalTypes, GoalCounts, GoalTracks DEF IInv
  <2>2. CASE Recover \/ UNCHANGED vars
    BY <2>2, Elsewhere
  <2>3. CASE OtherClient
    BY <2>3, Others
  <2>4. CASE RapidStarts \/ RapidEnds
    BY <2>4, Routines
  <2>5. CASE RapidTakes
    BY <2>5, Takes
  <2> QED
    BY <2>1, <2>2, <2>3, <2>4, <2>5 DEF Next
<1> QED
  BY <1>1, <1>2, PTL DEF Spec

(* The symbols, the queue and the goals' counts have their types: no goal  *)
(* sends more points than it has, and no more are on their way than the    *)
(* controller holds.                                                       *)
THEOREM TypeCorrect == Spec => []TypeOK
<1>1. IInv => TypeOK
  BY DEF IInv
<1> QED
  BY <1>1, Invariance, PTL

(* For goals and queues of any length, the robot gets the points of one    *)
(* goal from the first on, in order and without a gap, and nothing behind  *)
(* the one marked as the last (robot_controller_node.py,                   *)
(* execute_pose_array_cb and execute_joint_array_cb).                      *)
THEOREM PointsInOrder == Spec => []InOrder
<1>1. IInv => InOrder
  BY DEF IInv, InOrder, Undisturbed, Ordered
<1> QED
  BY <1>1, Invariance, PTL

(* A goal that succeeds has had all its points delivered, the last of them *)
(* marked.                                                                 *)
THEOREM SuccessDeliversAll == Spec => []SuccessIsWhole
<1>1. IInv => SuccessIsWhole
  BY DEF IInv, SuccessIsWhole, Undisturbed, Tracks
<1> QED
  BY <1>1, Invariance, PTL

-----------------------------------------------------------------------------
(* The ownership protocol, as the robot node keeps it: a goal holds the    *)
(* node from its request to its end.  A goal whose request or setup fails  *)
(* abandons the node: it stays busy, and no goal acquires it again.        *)
RobotOwner == INSTANCE Ownership WITH
  Callers <- Goals,
  holders <- {g \in Goals : Live(g)},
  mode <- IF state \notin Operational THEN "free"
            ELSE IF \E g \in Goals : Live(g) THEN "held" ELSE "closed"

(* A step that keeps the node's state and the goals that are live is none  *)
(* of the protocol's business.                                             *)
LEMMA OwnerKept ==
  ASSUME state' = state, \A g \in Goals : Live(g)' <=> Live(g)
  PROVE  UNCHANGED RobotOwner!vars
  BY DEF RobotOwner!vars

(* The steps of the robot node are steps of the ownership protocol, or     *)
(* none of its business.                                                   *)
LEMMA RobotStepRefines ==
  ASSUME IInv, [Next]_vars
  PROVE  [RobotOwner!Next]_(RobotOwner!vars)
<1>0. /\ pc \in [Goals -> {"none", "asked", "name", "start", "send", "after", "close"}]
      /\ closing \in {"none", "complete", "fail_recoverable"} /\ state \in NodeStates
  BY DEF IInv, TypeOK
<1>1. ASSUME NEW g \in Goals, Live(g)
      PROVE  /\ state = "busy" /\ {h \in Goals : Live(h)} = {g}
             /\ pc[g] = "close" => closing # "none"
  BY <1>1 DEF IInv, GoalsOK
<1>2. state \notin Operational => \A g \in Goals : ~Live(g)
  BY <1>1
<1>3. ASSUME NEW g \in Goals, NEW n \in 0..MaxPoints, Ask(g, n) PROVE RobotOwner!Next
  <2>1. state = "idle" /\ state' = "busy" /\ \A h \in Goals : ~Live(h)
    BY <1>0, <1>2, <1>3, Fires DEF Ask
  <2>2. {h \in Goals : Live(h)} = {} /\ {h \in Goals : Live(h)}' = {g}
    BY <1>0, <1>3, <2>1 DEF Ask, Goto, Live
  <2>3. Live(g)'
    BY <1>0, <1>3 DEF Ask, Goto, Live
  <2> QED
    BY <2>1, <2>2, <2>3 DEF RobotOwner!Next, RobotOwner!Acquire
<1>4. ASSUME NEW g \in Goals, Live(g), Forget(g)
      PROVE  {h \in Goals : Live(h)}' = {} /\ \A h \in Goals : ~Live(h)'
  BY <1>0, <1>1, <1>4 DEF Forget, Goto, Live
<1>5. ASSUME NEW g \in Goals, Reject(g) \/ Close(g) PROVE RobotOwner!Next
  <2>1. Live(g) /\ Forget(g)
    BY <1>5 DEF Reject, Close, Running, Live
  <2>2. state = "busy" /\ state' \notin Operational
    BY <1>0, <1>1, <1>5, <2>1, Fires DEF Reject, Close, Running
  <2>3. {h \in Goals : Live(h)} = {g} /\ {h \in Goals : Live(h)}' = {}
    BY <1>1, <1>4, <2>1
  <2> QED
    BY <2>1, <2>2, <2>3 DEF RobotOwner!Next, RobotOwner!Release
<1>6. ASSUME NEW g \in Goals, AskFails(g) \/ SetupFails(g) PROVE RobotOwner!Next
  <2>1. Live(g) /\ Forget(g) /\ state' = state
    BY <1>6 DEF AskFails, SetupFails, Running, Live
  <2>2. /\ {h \in Goals : Live(h)} = {g} /\ {h \in Goals : Live(h)}' = {}
        /\ state = "busy" /\ \A h \in Goals : ~Live(h)'
    BY <1>1, <1>4, <2>1
  <2> QED
    BY <2>1, <2>2 DEF RobotOwner!Next, RobotOwner!Abandon
<1>7. ASSUME NEW g \in Goals,
             \/ Admit(g) \/ Cancel(g) \/ SetName(g) \/ StartRoutine(g)
             \/ Accepted(g) \/ Retry(g) \/ SendFails(g) \/ AfterSend(g)
      PROVE  UNCHANGED RobotOwner!vars
  BY <1>0, <1>7, OwnerKept
    DEF Admit, Cancel, SetName, StartRoutine, Accepted, Retry, SendFails, AfterSend,
        Finish, Goto, Running, Live
<1>8. CASE Recover
  <2>1. state = "error_recoverable" /\ state' = "idle" /\ pc' = pc
    BY <1>8, Fires DEF Recover, goalVars
  <2>2. {h \in Goals : Live(h)}' = {h \in Goals : Live(h)}
    BY <2>1 DEF Live
  <2> QED
    BY <2>1, <2>2 DEF RobotOwner!vars
<1>9. CASE OtherClient \/ RapidStarts \/ RapidTakes \/ RapidEnds \/ UNCHANGED vars
  BY <1>9, OwnerKept
    DEF OtherClient, RapidStarts, RapidTakes, RapidEnds, vars, goalVars, Live
<1> QED
  BY <1>3, <1>5, <1>6, <1>7, <1>8, <1>9 DEF Next

(* The robot node's motion goals implement the ownership protocol.         *)
THEOREM Refinement == Spec => RobotOwner!Spec
<1>1. Init => RobotOwner!Init
  BY DEF Init, RobotOwner!Init, Live
<1> QED
  BY <1>1, Invariance, RobotStepRefines, PTL DEF Spec, RobotOwner!Spec

-----------------------------------------------------------------------------
(* The promise of PointStream: the points with the robot and on their way  *)
(* to it are the ones it was given.                                        *)
Given == INSTANCE PointStream WITH stream <- Delivered, taken <- Len(received)

(* Whether a step changes what the promise sees of the points. *)
LEMMA StreamKept ==
  ASSUME received' = received, queue' = queue
  PROVE  Delivered' = Delivered /\ Len(received)' = Len(received)
  BY DEF Delivered

(* Between two goals the robot has taken everything. *)
LEMMA AdmitBegins ==
  ASSUME IInv, ~disturbed, NEW g \in Goals, Admit(g)
  PROVE  Given!Begin(g)
<1>1. /\ total[g] # 0 /\ currentState = "0" /\ received' = <<>> /\ queue' = queue
      /\ status' = [status EXCEPT ![g] = "executing"] /\ total' = total /\ pc[g] = "asked"
  BY DEF Admit, RapidIdle
<1>2. queue = <<>> /\ Len(received) \in Nat /\ received \in Seq(Messages)
  BY <1>1, LenProperties DEF IInv, TypeOK, Undisturbed
<1>3. \A h \in Goals : status[h] = "unknown"
  BY <1>1 DEF IInv, TypeOK, GoalsOK, Live
<1>4. Delivered = received
  BY <1>2, ConcatEmptySeq DEF Delivered
<1>5. Delivered' = <<>> /\ Len(received)' = 0
  BY <1>1, <1>2, EmptySeq, ConcatEmptySeq DEF Delivered
<1> QED
  BY <1>1, <1>3, <1>4, <1>5 DEF Given!Begin

(* A POST that arrives gives the next point, whatever is answered.         *)
LEMMA PostGives ==
  ASSUME IInv, ~disturbed, NEW g \in Goals, pc[g] = "send",
         queue' = Append(queue, NextPoint(g)), received' = received, total' = total,
         status' \in {status, [status EXCEPT ![g] = "aborted"]}
  PROVE  Given!Give(g)
<1>1. /\ Unmarked /\ Len(Delivered) = sent[g] /\ sent[g] < total[g]
      /\ status[g] \in {"executing", "canceling"}
  BY DEF IInv, Undisturbed, Tracks, GoalsOK
<1>2. Delivered' = Append(Delivered, NextPoint(g))
  BY Sending, NextIsMessage DEF IInv, TypeOK, Delivered
<1>3. NextPoint(g) = [index |-> Len(Delivered) + 1,
                      userdef |-> IF Len(Delivered) + 1 = total[g] \/ status[g] = "canceling"
                                    THEN "2" ELSE "1"]
  BY <1>1 DEF NextPoint, Point, Canceling
<1>4. ~Given!Marked
  BY <1>1 DEF Given!Marked, Unmarked
<1> QED
  BY <1>1, <1>2, <1>3, <1>4 DEF Given!Give, Given!Running

(* A goal that ends with a success or a cancel has given what it says.     *)
LEMMA AfterSendGives ==
  ASSUME IInv, ~disturbed, NEW g \in Goals, AfterSend(g)
  PROVE  \/ \E result \in {"succeeded", "canceled"} : Given!End(g, result)
         \/ UNCHANGED <<status, total, Delivered, Len(received)>>
<1>1. /\ pc[g] = "after" /\ total' = total /\ received' = received /\ queue' = queue
  BY DEF AfterSend, Running, rapidVars
<1>2. /\ status[g] \in {"executing", "canceling"}
      /\ Len(Delivered) = sent[g] + 1 /\ sent[g] \in Nat
      /\ sent[g] + 1 = total[g] => Delivered[sent[g] + 1].userdef = "2"
      /\ DOMAIN Delivered = 1..Len(Delivered)
  BY <1>1, DeliveredType DEF IInv, Undisturbed, Tracks, GoalsOK, TypeOK
<1>3. Delivered # <<>>
  BY <1>2, EmptySeq
<1>4. CASE Canceling(g)
  <2>1. status' = [status EXCEPT ![g] = "canceled"]
    BY <1>4 DEF AfterSend, Finish
  <2>2. Given!End(g, "canceled")
    BY <1>1, <1>2, <1>3, <1>4, <2>1, StreamKept DEF Given!End, Given!Running, Canceling
  <2> QED
    BY <2>2
<1>5. CASE ~Canceling(g) /\ sent[g] + 1 = total[g]
  <2>1. status' = [status EXCEPT ![g] = "succeeded"]
    BY <1>5 DEF AfterSend, Finish
  <2>2. Given!Marked
    BY <1>2, <1>5 DEF Given!Marked
  <2>3. Given!End(g, "succeeded")
    BY <1>1, <1>2, <1>5, <2>1, <2>2, StreamKept DEF Given!End, Given!Running, Canceling
  <2> QED
    BY <2>3
<1>6. CASE ~Canceling(g) /\ sent[g] + 1 # total[g]
  <2>1. status' = status
    BY <1>6 DEF AfterSend
  <2> QED
    BY <1>1, <2>1, StreamKept
<1> QED
  BY <1>4, <1>5, <1>6

(* Undisturbed, each step of the goals, the robot and the others is one of *)
(* the promise or none of its business.                                    *)
LEMMA StepGives ==
  ASSUME IInv, IInv', [Next]_vars, ~disturbed'
  PROVE  ~disturbed /\ (Given!Step \/ UNCHANGED Given!vars)
<1>0. ~disturbed
  BY DEF Next, vars, Ask, Admit, Reject, AskFails, Cancel, SetupFails, SetName, StartRoutine,
         Accepted, Retry, SendFails, AfterSend, Close, Recover, OtherClient, RapidStarts,
         RapidTakes, RapidEnds, rapidVars, clientVars
<1>1. disturbed' = disturbed
  BY <1>0 DEF IInv, TypeOK
<1>2. ASSUME NEW g \in Goals, NEW n \in 0..MaxPoints, Ask(g, n) PROVE Given!Step
  <2>1. /\ pc[g] = "none" /\ total' = [total EXCEPT ![g] = n] /\ status' = status
        /\ received' = received /\ queue' = queue
    BY <1>2, Fires DEF Ask, rapidVars, IInv, TypeOK, GoalsOK, Live
  <2>2. Given!Ask(g, n)
    BY <2>1, StreamKept DEF Given!Ask, IInv, GoalsOK
  <2> QED
    BY <2>2 DEF Given!Step
<1>3. ASSUME NEW g \in Goals, Admit(g) PROVE Given!Step
  BY <1>0, <1>3, AdmitBegins DEF Given!Step
<1>4. ASSUME NEW g \in Goals, Reject(g) \/ AskFails(g) \/ SetupFails(g) \/ Close(g)
      PROVE  Given!Step
  <2>1. Forget(g) /\ received' = received /\ queue' = queue
    BY <1>4 DEF Reject, AskFails, SetupFails, Close, rapidVars
  <2>2. Given!Forget(g)
    BY <2>1, StreamKept DEF Forget, Given!Forget
  <2> QED
    BY <2>2 DEF Given!Step
<1>5. ASSUME NEW g \in Goals, Cancel(g) PROVE Given!Step
  <2>1. Given!Cancel(g)
    BY <1>5, StreamKept DEF Cancel, Given!Cancel, rapidVars
  <2> QED
    BY <2>1 DEF Given!Step
<1>6. ASSUME NEW g \in Goals, Accepted(g) PROVE Given!Step
  <2>1. Given!Give(g)
    BY <1>0, <1>6, PostGives DEF Accepted, Running
  <2> QED
    BY <2>1 DEF Given!Step
<1>7. ASSUME NEW g \in Goals, SendFails(g) PROVE Given!Step
  <2>1. /\ pc[g] = "send" /\ received' = received /\ total' = total
        /\ status' = [status EXCEPT ![g] = "aborted"]
        /\ queue' = queue \/ queue' = Append(queue, NextPoint(g))
    BY <1>7 DEF SendFails, Running, Finish
  <2>2. CASE queue' = queue
    <3>1. Given!End(g, "aborted")
      BY <2>1, <2>2, StreamKept DEF Given!End, Given!Running, IInv, GoalsOK
    <3> QED
      BY <3>1 DEF Given!Step
  <2>3. CASE queue' = Append(queue, NextPoint(g))
    <3>1. Given!Give(g)
      BY <1>0, <2>1, <2>3, PostGives
    <3> QED
      BY <3>1 DEF Given!Step
  <2> QED
    BY <2>1, <2>2, <2>3
<1>8. ASSUME NEW g \in Goals, AfterSend(g) PROVE Given!Step \/ UNCHANGED Given!vars
  <2>1. disturbed' = disturbed
    BY <1>8 DEF AfterSend, clientVars
  <2> QED
    BY <1>0, <1>8, <2>1, AfterSendGives DEF Given!Step, Given!vars
<1>9. CASE RapidTakes
  <2>1. /\ queue # <<>> /\ queue' = Tail(queue) /\ received' = Append(received, Head(queue))
        /\ status' = status /\ total' = total
        /\ queue \in Seq(Messages) /\ received \in Seq(Messages)
    BY <1>9 DEF RapidTakes, goalVars, IInv, TypeOK
  <2>2. Delivered' = Delivered
    BY <2>1, Taking DEF Delivered
  <2>3. Len(received) \in Nat /\ Len(queue) \in Nat \ {0}
        /\ Len(Delivered) = Len(received) + Len(queue)
    BY <2>1, Delivery, LenProperties, EmptySeq DEF Delivered
  <2>4. Len(received)' = Len(received) + 1
    BY <2>1, HeadTailProperties, AppendProperties
  <2>5. Len(received) < Len(Delivered)
    BY <2>3
  <2>6. Given!Take
    BY <2>1, <2>2, <2>4, <2>5 DEF Given!Take
  <2> QED
    BY <1>0, <2>6 DEF Given!Step
<1>10. ASSUME NEW g \in Goals, SetName(g) \/ StartRoutine(g) \/ Retry(g)
       PROVE  UNCHANGED Given!vars
  BY <1>1, <1>10, StreamKept DEF SetName, StartRoutine, Retry, Given!vars, rapidVars, clientVars
<1>11. CASE Recover \/ OtherClient \/ RapidStarts \/ RapidEnds \/ UNCHANGED vars
  BY <1>1, <1>0, <1>11, StreamKept
    DEF Recover, OtherClient, RapidStarts, RapidEnds, vars, Given!vars, goalVars, rapidVars,
        clientVars
<1> QED
  BY <1>0, <1>2, <1>3, <1>4, <1>5, <1>6, <1>7, <1>8, <1>9, <1>10, <1>11 DEF Next

(* For any number of goals, points and retries and any length of queue,    *)
(* the robot is given each goal's points as PointStream promises: in       *)
(* order, none taken back, nothing behind a mark, and no goal before the   *)
(* last one's points are taken (robot_controller_node.py,                  *)
(* execute_pose_array_cb, execute_joint_array_cb and the goal callbacks).  *)
THEOREM PointsAsPromised == Spec => Given!Spec
<1>1. Init => Given!Init
  <2> SUFFICES ASSUME Init PROVE Given!Init
    OBVIOUS
  <2>1. Delivered = <<>> /\ Len(received) = 0
    BY EmptySeq, ConcatEmptySeq DEF Init, Delivered
  <2> QED
    BY <2>1 DEF Init, Given!Init
<1>2. IInv /\ IInv' /\ [Next]_vars => [Given!Next]_(Given!vars)
  <2> SUFFICES ASSUME IInv, IInv', [Next]_vars PROVE [Given!Next]_(Given!vars)
    OBVIOUS
  <2>1. CASE disturbed'
    BY <2>1 DEF Given!Next
  <2>2. CASE ~disturbed'
    BY <2>2, StepGives DEF Given!Next
  <2> QED
    BY <2>1, <2>2
<1> QED
  BY <1>1, <1>2, Invariance, PTL DEF Spec, Given!Spec

===============================================================================
