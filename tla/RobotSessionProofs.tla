-------------------------- MODULE RobotSessionProofs --------------------------
(***************************************************************************)
(* No session of the robot controller is left behind, and make_robot_ready *)
(* speaks of success only when the robot is ready, for any number of       *)
(* executor threads, interfaces and failures.  Two arguments carry the     *)
(* proofs: the lifecycle lets one callback at a time change the interface, *)
(* and whatever changes the mastership under a request either disturbs the *)
(* request or takes its session away for good.                             *)
(***************************************************************************)
EXTENDS RobotSession, TLAPS

Initializing == {"init", "login", "timers"}
CleaningUp == {"cleanup", "logout", "drop"}

(* The steps only make_robot_ready has. *)
MakeReadySteps ==
  {"edit?", "edit!", "motion?", "motion!", "running?", "mode?", "motors?",
   "motors!", "motors on?", "stopped?", "started?", "ready"}

(* The methods that are one POST. *)
OnePost ==
  {"motors_on", "motors_off", "stop_rapid_script", "request_mastership",
   "release_mastership"}

(* Requests hold an interface, and nothing else is a request. *)
RequestsOK ==
  \A t \in Threads :
    /\ pc[t] \in RequestSteps => on[t] \in Interfaces /\ cmd[t] # None
    /\ pc[t] \notin RequestSteps => cmd[t] = None
    /\ pc[t] \in MakeReadySteps => cmd[t] = "make_robot_ready"
    /\ pc[t] = "post!" => cmd[t] \in OnePost

(* A request bound to an interface that is not logged in yet has learnt    *)
(* nothing from the controller.                                            *)
Fresh ==
  /\ rws \notin open
  /\ \A t \in Threads :
       on[t] = rws /\ cmd[t] = "make_robot_ready" => pc[t] \in {"edit?", "answer"}

(* One lifecycle callback at a time, and what each step of it relies on. *)
LifecycleOK ==
  /\ \A t \in Threads :
       /\ pc[t] \in Initializing => state = "initializing"
       /\ pc[t] \in CleaningUp => state = "cleaning_up"
       /\ pc[t] \in {"login", "timers", "logout"} => rws # None
       /\ pc[t] = "login" => Fresh
       /\ pc[t] = "drop" => open \subseteq leaked
  /\ \A t, u \in Threads :
       pc[t] \in LifecycleSteps /\ pc[u] \in LifecycleSteps => t = u

(* What make_robot_ready has checked still holds, if nobody has disturbed  *)
(* it and its session is open.                                             *)
Prepared(t) ==
  cmd[t] = "make_robot_ready" /\ ~disturbed[t] /\ on[t] \in open =>
    /\ pc[t] \notin {"edit?", "edit!", "answer"} => IsMaster(t, "edit")
    /\ pc[t] \notin {"edit?", "edit!", "motion?", "motion!", "answer"} =>
         ~IsMaster(t, "motion")

IInv ==
  /\ TypeOK
  /\ RequestsOK
  /\ LifecycleOK
  /\ NoSessionAbandoned
  /\ \A t \in Threads : Prepared(t)

USE DEF NodeStates, Operational, Domains, None

-----------------------------------------------------------------------------
(* The events of the lifecycle callbacks. *)
LEMMA Fires ==
  ASSUME NEW s \in NodeStates
  PROVE  /\ Allowed("start_initialization", s) => s = "not_initialized"
         /\ Allowed("start_cleanup", s) => s \in {"idle", "error", "error_recoverable"}
         /\ Allowed("retry_from_recoverable", s) => s = "error_recoverable"
         /\ Allowed("start_initialization", s) =>
              Fire("start_initialization", s) = "initializing"
         /\ Allowed("start_cleanup", s) => Fire("start_cleanup", s) = "cleaning_up"
         /\ Fire("retry_from_recoverable", "error_recoverable") = "idle"
         /\ Fire("fail_recoverable", "initializing") = "error_recoverable"
         /\ Fire("fail_non_recoverable", "initializing") = "error"
         /\ Fire("complete", "initializing") = "idle"
         /\ Fire("complete", "cleaning_up") = "not_initialized"
  BY DEF Fire, Allowed, Sources, Target

(* A step on thread t of a callback that is no request, or the end of any. *)
Aside(t) ==
  /\ \E label \in {"free"} \cup LifecycleSteps \cup KeepaliveSteps : Goto(t, label)
  /\ \A u \in Threads \ {t} :
       on'[u] = on[u] /\ cmd'[u] = cmd[u] /\ disturbed'[u] = disturbed[u]
  /\ on' \in [Threads -> Interfaces \cup {None}]
  /\ cmd' \in [Threads -> AllCommands \cup {None}]
  /\ disturbed' \in [Threads -> BOOLEAN]
  /\ cmd'[t] = None

(* Such a step is one that leaves the fields alone or ends the callback. *)
LEMMA StepsAside ==
  ASSUME IInv, NEW t \in Threads, pc[t] \notin RequestSteps,
         NEW label \in {"free"} \cup LifecycleSteps \cup KeepaliveSteps,
         Goto(t, label),
         NEW i \in Interfaces \cup {None},
         \/ UNCHANGED <<on, cmd, disturbed>>
         \/ on' = [on EXCEPT ![t] = i] /\ UNCHANGED <<cmd, disturbed>>
  PROVE  Aside(t)
<1>1. cmd[t] = None
  BY DEF IInv, RequestsOK
<1> QED
  BY <1>1 DEF IInv, TypeOK, Aside

(* The end of a callback lets go of what it held. *)
LEMMA EndsAside ==
  ASSUME IInv, NEW t \in Threads, Done(t)
  PROVE  Aside(t)
  BY DEF IInv, TypeOK, Aside, Done

(* The label a step leads to, and the labels of the other threads. *)
LEMMA AsideLabels ==
  ASSUME IInv, NEW t \in Threads, Aside(t)
  PROVE  /\ pc' \in [Threads -> {"free"} \cup LifecycleSteps \cup KeepaliveSteps
                                  \cup RequestSteps]
         /\ pc'[t] \in {"free"} \cup LifecycleSteps \cup KeepaliveSteps
         /\ pc'[t] \notin RequestSteps
         /\ \A u \in Threads \ {t} : pc'[u] = pc[u]
  BY DEF IInv, TypeOK, Aside, Goto, RequestSteps, LifecycleSteps, KeepaliveSteps

(* It disturbs no request. *)
LEMMA AsideRequests ==
  ASSUME IInv, NEW t \in Threads, Aside(t)
  PROVE  RequestsOK'
<1> SUFFICES ASSUME NEW u \in Threads
             PROVE  /\ pc'[u] \in RequestSteps => on'[u] \in Interfaces /\ cmd'[u] # None
                    /\ pc'[u] \notin RequestSteps => cmd'[u] = None
                    /\ pc'[u] \in MakeReadySteps => cmd'[u] = "make_robot_ready"
                    /\ pc'[u] = "post!" => cmd'[u] \in OnePost
  BY DEF RequestsOK
<1>1. CASE u = t
  BY <1>1, AsideLabels DEF Aside, RequestSteps, MakeReadySteps
<1>2. CASE u # t
  BY <1>2, AsideLabels DEF Aside, IInv, RequestsOK
<1> QED
  BY <1>1, <1>2

(* And takes nothing a request has checked, if the mastership of every     *)
(* session that stays open is left alone.                                  *)
LEMMA AsidePrepared ==
  ASSUME IInv, NEW t \in Threads, Aside(t),
         \A u \in Threads :
           cmd[u] = "make_robot_ready" /\ on[u] \in open' =>
             on[u] \in open \/ pc[u] \in {"edit?", "answer"},
         \A u \in Threads, d \in Domains :
           on[u] \in open' => (master'[d] = on[u] <=> master[d] = on[u])
  PROVE  \A u \in Threads : Prepared(u)'
<1> SUFFICES ASSUME NEW u \in Threads, cmd'[u] = "make_robot_ready", ~disturbed'[u],
                    on'[u] \in open'
             PROVE  /\ pc'[u] \notin {"edit?", "edit!", "answer"} => master'["edit"] = on'[u]
                    /\ pc'[u] \notin {"edit?", "edit!", "motion?", "motion!", "answer"} =>
                         master'["motion"] # on'[u]
  BY DEF Prepared, IsMaster
<1>1. u # t
  BY DEF Aside
<1>2. /\ pc'[u] = pc[u] /\ on'[u] = on[u] /\ cmd[u] = "make_robot_ready" /\ ~disturbed[u]
  BY <1>1, AsideLabels DEF Aside
<1>3. CASE on[u] \in open
  BY <1>2, <1>3 DEF IInv, Prepared, IsMaster
<1>4. CASE pc[u] \in {"edit?", "answer"}
  BY <1>2, <1>4
<1> QED
  BY <1>2, <1>3, <1>4

(* What the lifecycle knows of the other threads when one has a callback.  *)
LEMMA Alone ==
  ASSUME IInv, NEW t \in Threads,
         pc[t] \in LifecycleSteps \/ state \notin {"initializing", "cleaning_up"}
  PROVE  \A u \in Threads \ {t} : pc[u] \notin LifecycleSteps
  BY DEF IInv, LifecycleOK, LifecycleSteps, Initializing, CleaningUp

(* A step outside the lifecycle that opens no session and leaks none, the  *)
(* requests it touches having learnt nothing from a closed session.        *)
LEMMA Bystander ==
  ASSUME IInv, NEW t \in Threads, UNCHANGED <<state, rws>>,
         open' \subseteq open,
         open \subseteq leaked => open' \subseteq leaked',
         pc[t] \notin LifecycleSteps, pc'[t] \notin LifecycleSteps,
         \A u \in Threads \ {t} : pc'[u] = pc[u] /\ on'[u] = on[u] /\ cmd'[u] = cmd[u],
         rws \notin open /\ on'[t] = rws /\ cmd'[t] = "make_robot_ready"
           /\ (on[t] = rws /\ cmd[t] = "make_robot_ready" => pc[t] \in {"edit?", "answer"}) =>
             pc'[t] \in {"edit?", "answer"}
  PROVE  LifecycleOK'
<1>1. /\ \A u \in Threads :
           /\ pc'[u] \in LifecycleSteps => u # t /\ pc'[u] = pc[u]
      /\ Initializing \subseteq LifecycleSteps /\ CleaningUp \subseteq LifecycleSteps
      /\ {"login", "timers", "logout", "drop"} \subseteq LifecycleSteps
  BY DEF Initializing, CleaningUp, LifecycleSteps
<1>2. Fresh => Fresh'
  BY DEF Fresh
<1> QED
  BY <1>1, <1>2 DEF IInv, LifecycleOK

(* So only its own new step matters. *)
LEMMA AsideLifecycle ==
  ASSUME IInv, NEW t \in Threads, Aside(t),
         \A u \in Threads \ {t} : pc[u] \notin LifecycleSteps,
         pc'[t] \in Initializing => state' = "initializing",
         pc'[t] \in CleaningUp => state' = "cleaning_up",
         pc'[t] \in {"login", "timers", "logout"} => rws' # None,
         pc'[t] = "login" => Fresh',
         pc'[t] = "drop" => open' \subseteq leaked'
  PROVE  LifecycleOK'
  BY AsideLabels DEF LifecycleOK, LifecycleSteps, Initializing, CleaningUp

-----------------------------------------------------------------------------
(* Initialization. *)

(* The handler's event admits one callback, which does nothing yet. *)
LEMMA Starts ==
  ASSUME IInv, NEW t \in Threads, StartInitialization(t) \/ StartCleanup(t)
  PROVE  IInv'
<1>1. /\ UNCHANGED <<rws, loggedIn, keepaliveTimer, on, cmd, open, ctrlVars, faults, leaked,
                     disturbed>>
      /\ pc[t] = "free"
      /\ \/ state = "not_initialized" /\ state' = "initializing" /\ Goto(t, "init")
         \/ /\ state \in {"idle", "error", "error_recoverable"}
            /\ state' = "cleaning_up" /\ Goto(t, "cleanup")
  BY Fires DEF StartInitialization, StartCleanup, IInv, TypeOK
<1>2. Aside(t)
  BY <1>1, StepsAside DEF RequestSteps, LifecycleSteps
<1>3. TypeOK'
  BY <1>1, <1>2, AsideLabels DEF IInv, TypeOK, ctrlVars
<1>4. LifecycleOK'
  <2>1. \A u \in Threads \ {t} : pc[u] \notin LifecycleSteps
    BY <1>1, Alone
  <2>2. \/ pc'[t] = "init" /\ state' = "initializing"
        \/ pc'[t] = "cleanup" /\ state' = "cleaning_up"
    BY <1>1 DEF IInv, TypeOK, Goto
  <2> QED
    BY <1>2, <2>1, <2>2, AsideLifecycle DEF Initializing, CleaningUp
<1>5. \A u \in Threads : Prepared(u)'
  BY <1>1, <1>2, AsidePrepared DEF ctrlVars
<1>6. NoSessionAbandoned'
  BY <1>1 DEF IInv, NoSessionAbandoned
<1> QED
  BY <1>2, <1>3, <1>4, <1>5, <1>6, AsideRequests DEF IInv

(* A lifecycle callback ends: the next one may begin. *)
LEMMA LifecycleEnds ==
  ASSUME IInv, NEW t \in Threads,
         RefuseInitialization(t) \/ CompleteInitialization(t) \/ CompleteCleanup(t)
  PROVE  IInv'
<1>1. /\ UNCHANGED <<open, ctrlVars, faults, leaked>> /\ Done(t)
      /\ pc[t] \in LifecycleSteps
      /\ \/ rws' = rws /\ UNCHANGED loggedIn
         \/ rws' = None /\ loggedIn' = FALSE /\ pc[t] = "drop"
      /\ keepaliveTimer' \in {keepaliveTimer, TRUE}
      /\ state' \in {"error_recoverable", "idle", "not_initialized"}
  <2>1. CASE RefuseInitialization(t)
    BY <2>1, Fires DEF RefuseInitialization, IInv, LifecycleOK, Initializing, LifecycleSteps
  <2>2. CASE CompleteInitialization(t)
    BY <2>2, Fires DEF CompleteInitialization, IInv, LifecycleOK, Initializing, LifecycleSteps
  <2>3. CASE CompleteCleanup(t)
    BY <2>3, Fires DEF CompleteCleanup, IInv, LifecycleOK, CleaningUp, LifecycleSteps
  <2> QED
    BY <2>1, <2>2, <2>3
<1>2. Aside(t) /\ pc'[t] = "free"
  BY <1>1, EndsAside DEF IInv, TypeOK, Done, Goto
<1>3. TypeOK'
  BY <1>1, <1>2, AsideLabels DEF IInv, TypeOK, ctrlVars, Aside
<1>4. LifecycleOK'
  <2>1. \A u \in Threads \ {t} : pc[u] \notin LifecycleSteps
    BY <1>1, Alone
  <2> QED
    BY <1>2, <2>1, AsideLifecycle DEF Initializing, CleaningUp
<1>5. \A u \in Threads : Prepared(u)'
  BY <1>1, <1>2, AsidePrepared DEF ctrlVars
<1>6. NoSessionAbandoned'
  BY <1>1 DEF IInv, NoSessionAbandoned, LifecycleOK
<1> QED
  BY <1>2, <1>3, <1>4, <1>5, <1>6, AsideRequests DEF IInv

(* A new interface has no session, and nobody holds it. *)
LEMMA Creates ==
  ASSUME IInv, NEW t \in Threads, CreateInterface(t)
  PROVE  IInv'
<1>1. /\ UNCHANGED <<state, loggedIn, keepaliveTimer, on, cmd, open, ctrlVars, faults, leaked,
                     disturbed>>
      /\ pc[t] = "init" /\ Goto(t, "login") /\ rws = None
  BY DEF CreateInterface, AlreadyInitialized
<1>2. rws' \in Interfaces /\ Unused(rws')
  <2>1. \E i \in Interfaces : Unused(i)
    BY DEF CreateInterface
  <2>2. rws' = CHOOSE i \in Interfaces : Unused(i)
    BY DEF CreateInterface
  <2> QED
    BY <2>1, <2>2
<1>3. Aside(t)
  BY <1>1, StepsAside DEF RequestSteps, LifecycleSteps
<1>4. TypeOK'
  BY <1>1, <1>2, <1>3, AsideLabels DEF IInv, TypeOK, ctrlVars
<1>5. LifecycleOK'
  <2>1. \A u \in Threads \ {t} : pc[u] \notin LifecycleSteps
    BY <1>1, Alone DEF LifecycleSteps
  <2>2. pc'[t] = "login" /\ state' = "initializing"
    BY <1>1 DEF IInv, TypeOK, Goto, LifecycleOK, Initializing
  <2>3. rws' # None
    BY <1>2, NamesAssumption
  <2>4. Fresh'
    BY <1>1, <1>2 DEF Fresh, Unused
  <2> QED
    BY <1>3, <2>1, <2>2, <2>3, <2>4, AsideLifecycle DEF CleaningUp
<1>6. \A u \in Threads : Prepared(u)'
  BY <1>1, <1>3, AsidePrepared DEF ctrlVars
<1>7. NoSessionAbandoned'
  BY <1>1, NamesAssumption DEF IInv, TypeOK, NoSessionAbandoned
<1> QED
  BY <1>3, <1>4, <1>5, <1>6, <1>7, AsideRequests DEF IInv

(* A login opens no session but the one of the node's interface. *)
LEMMA LogsIn ==
  ASSUME IInv, NEW t \in Threads, Login(t) \/ LoginRefused(t) \/ LoginRaises(t)
  PROVE  IInv'
<1>1. /\ UNCHANGED <<rws, keepaliveTimer, ctrlVars, leaked>>
      /\ open' \in {open, open \cup {rws}} /\ loggedIn' \in {TRUE, FALSE, loggedIn}
      /\ faults' \in {faults, faults - 1} /\ (faults' = faults \/ faults > 0)
      /\ pc[t] = "login"
      /\ \/ Goto(t, "timers") /\ state' = state /\ UNCHANGED <<on, cmd, disturbed>>
         \/ Done(t) /\ state' = "error"
  <2>1. state = "initializing" \/ pc[t] # "login"
    BY DEF IInv, LifecycleOK, Initializing
  <2>2. CASE Login(t)
    BY <2>2 DEF Login
  <2>3. CASE LoginRefused(t)
    BY <2>3 DEF LoginRefused, Fault
  <2>4. CASE LoginRaises(t)
    BY <2>1, <2>4, Fires DEF LoginRaises, Fault
  <2> QED
    BY <2>2, <2>3, <2>4
<1>2. /\ Fresh /\ rws \in Interfaces /\ state = "initializing"
      /\ \A u \in Threads \ {t} : pc[u] \notin LifecycleSteps
  BY <1>1, Alone DEF IInv, TypeOK, LifecycleOK, Initializing, LifecycleSteps
<1>3. Aside(t)
  <2>1. CASE Done(t)
    BY <2>1, EndsAside
  <2>2. CASE Goto(t, "timers") /\ UNCHANGED <<on, cmd, disturbed>>
    BY <1>1, <2>2, StepsAside DEF RequestSteps, LifecycleSteps
  <2> QED
    BY <1>1, <2>1, <2>2
<1>4. TypeOK'
  <2>1. faults' \in 0..MaxFaults
    BY <1>1, BoundsAssumption DEF IInv, TypeOK
  <2>2. open' \subseteq Interfaces /\ state' \in NodeStates
    BY <1>1, <1>2 DEF IInv, TypeOK
  <2>3. loggedIn' \in BOOLEAN
    BY <1>1 DEF IInv, TypeOK
  <2> QED
    BY <1>1, <1>3, <2>1, <2>2, <2>3, AsideLabels DEF IInv, TypeOK, ctrlVars, Aside
<1>5. LifecycleOK'
  <2>1. \/ pc'[t] = "timers" /\ state' = "initializing"
        \/ pc'[t] = "free"
    BY <1>1, <1>2 DEF IInv, TypeOK, Goto, Done
  <2>2. rws' # None
    BY <1>1, <1>2, NamesAssumption
  <2> QED
    BY <1>2, <1>3, <2>1, <2>2, AsideLifecycle DEF Initializing, CleaningUp
<1>6. \A u \in Threads : Prepared(u)'
  BY <1>1, <1>2, <1>3, AsidePrepared DEF ctrlVars, Fresh
<1>7. NoSessionAbandoned'
  BY <1>1 DEF IInv, NoSessionAbandoned
<1> QED
  BY <1>3, <1>4, <1>5, <1>6, <1>7, AsideRequests DEF IInv

-----------------------------------------------------------------------------
(* Cleanup. *)

(* A cleanup stops the timers before it looks at the interface. *)
LEMMA StopsTimers ==
  ASSUME IInv, NEW t \in Threads, StopTimers(t)
  PROVE  IInv'
<1>1. /\ UNCHANGED <<state, rws, loggedIn, on, cmd, open, ctrlVars, faults, leaked, disturbed>>
      /\ pc[t] = "cleanup" /\ keepaliveTimer' = FALSE
      /\ \/ rws = None /\ Goto(t, "drop")
         \/ rws # None /\ Goto(t, "logout")
  BY DEF StopTimers
<1>2. Aside(t)
  BY <1>1, StepsAside DEF RequestSteps, LifecycleSteps
<1>3. TypeOK'
  BY <1>1, <1>2, AsideLabels DEF IInv, TypeOK, ctrlVars
<1>4. LifecycleOK'
  <2>1. \A u \in Threads \ {t} : pc[u] \notin LifecycleSteps
    BY <1>1, Alone DEF LifecycleSteps
  <2>2. state' = "cleaning_up"
    BY <1>1 DEF IInv, LifecycleOK, CleaningUp
  <2>3. \/ rws' # None /\ pc'[t] = "logout"
        \/ rws = None /\ pc'[t] = "drop"
    BY <1>1 DEF IInv, TypeOK, Goto
  <2>4. rws = None => open' \subseteq leaked'
    BY <1>1, NamesAssumption DEF IInv, TypeOK, NoSessionAbandoned
  <2> QED
    BY <1>2, <2>1, <2>2, <2>3, <2>4, AsideLifecycle DEF Initializing, CleaningUp
<1>5. \A u \in Threads : Prepared(u)'
  BY <1>1, <1>2, AsidePrepared DEF ctrlVars
<1>6. NoSessionAbandoned'
  BY <1>1 DEF IInv, NoSessionAbandoned
<1> QED
  BY <1>2, <1>3, <1>4, <1>5, <1>6, AsideRequests DEF IInv

(* The sessions that stay open keep what they hold. *)
LEMMA Closing ==
  ASSUME IInv, NEW closed \in SUBSET Interfaces, CloseSessions(closed)
  PROVE  /\ open' = open \ closed
         /\ master' \in [Domains -> Interfaces \cup {"free", "pendant"}]
         /\ \A i \in Interfaces \ closed, d \in Domains : master'[d] = i <=> master[d] = i
  BY NamesAssumption DEF CloseSessions, IInv, TypeOK

(* After the logout the interface is without a session or its session is   *)
(* among the leaked ones.                                                  *)
LEMMA LogsOut ==
  ASSUME IInv, NEW t \in Threads, Logout(t) \/ LogoutRaises(t)
  PROVE  IInv'
<1>1. /\ UNCHANGED <<nodeVars, on, cmd, motors, running, disturbed>>
      /\ pc[t] = "logout" /\ Goto(t, "drop")
      /\ faults' \in {faults, faults - 1} /\ (faults' = faults \/ faults > 0)
      /\ \/ CloseSessions({rws}) /\ leaked' = leaked
         \/ CloseSessions({}) /\ leaked' = leaked \cup ({rws} \cap open)
  BY DEF Logout, LogoutRaises, Fault
<1>2. rws \in Interfaces
  BY <1>1 DEF IInv, TypeOK, LifecycleOK
<1>3. /\ master' \in [Domains -> Interfaces \cup {"free", "pendant"}]
      /\ open' \subseteq open /\ leaked \subseteq leaked' /\ leaked' \subseteq Interfaces
      /\ open' \subseteq leaked'
      /\ \A i \in open', d \in Domains : master'[d] = i <=> master[d] = i
  <2>1. CASE CloseSessions({rws}) /\ leaked' = leaked
    BY <1>2, <2>1, Closing DEF IInv, TypeOK, NoSessionAbandoned
  <2>2. CASE CloseSessions({}) /\ leaked' = leaked \cup ({rws} \cap open)
    BY <1>2, <2>2, Closing DEF IInv, TypeOK, NoSessionAbandoned
  <2> QED
    BY <1>1, <2>1, <2>2
<1>4. Aside(t)
  BY <1>1, StepsAside DEF RequestSteps, LifecycleSteps
<1>5. TypeOK'
  <2>1. faults' \in 0..MaxFaults
    BY <1>1, BoundsAssumption DEF IInv, TypeOK
  <2> QED
    BY <1>1, <1>3, <1>4, <2>1, AsideLabels DEF IInv, TypeOK, nodeVars
<1>6. LifecycleOK'
  <2>1. \A u \in Threads \ {t} : pc[u] \notin LifecycleSteps
    BY <1>1, Alone DEF LifecycleSteps
  <2>2. state' = "cleaning_up" /\ pc'[t] = "drop"
    BY <1>1 DEF IInv, TypeOK, LifecycleOK, CleaningUp, nodeVars, Goto
  <2> QED
    BY <1>3, <1>4, <2>1, <2>2, AsideLifecycle DEF Initializing, CleaningUp
<1>7. \A u \in Threads : Prepared(u)'
  BY <1>1, <1>3, <1>4, AsidePrepared
<1>8. NoSessionAbandoned'
  BY <1>3 DEF NoSessionAbandoned
<1> QED
  BY <1>4, <1>5, <1>6, <1>7, <1>8, AsideRequests DEF IInv

-----------------------------------------------------------------------------
(* The keepalive. *)

(* A keepalive, answered or not, touches no session and no controller. *)
LEMMA KeepsAlive ==
  ASSUME IInv, NEW t \in Threads,
         \/ StartKeepalive(t) \/ KeepaliveServed(t) \/ KeepaliveFails(t) \/ EndKeepalive(t)
  PROVE  IInv'
<1>1. /\ UNCHANGED <<state, rws, keepaliveTimer, open, ctrlVars, leaked>>
      /\ loggedIn' \in BOOLEAN
      /\ faults' \in {faults, faults - 1} /\ (faults' = faults \/ faults > 0)
  BY DEF StartKeepalive, KeepaliveServed, KeepaliveFails, EndKeepalive, Fault, nodeVars, IInv,
         TypeOK
<1>2. Aside(t) /\ pc'[t] \notin LifecycleSteps /\ pc[t] \notin LifecycleSteps
  <2>1. CASE StartKeepalive(t)
    <3>1. /\ pc[t] = "free" /\ Goto(t, "keepalive")
          /\ on' = [on EXCEPT ![t] = rws] /\ UNCHANGED <<cmd, disturbed>>
          /\ rws \in Interfaces \cup {None}
      BY <2>1 DEF StartKeepalive, IInv, TypeOK
    <3>2. Aside(t)
      BY <3>1, StepsAside DEF RequestSteps, KeepaliveSteps
    <3> QED
      BY <3>1, <3>2 DEF IInv, TypeOK, Goto, LifecycleSteps
  <2>2. CASE KeepaliveServed(t) \/ KeepaliveFails(t)
    <3>1. PICK label \in {"alive", "dead"} : Goto(t, label)
      BY <2>2 DEF KeepaliveServed, KeepaliveFails
    <3>2. pc[t] = "keepalive" /\ UNCHANGED <<on, cmd, disturbed>>
      BY <2>2 DEF KeepaliveServed, KeepaliveFails
    <3>3. Aside(t)
      BY <3>1, <3>2, StepsAside DEF RequestSteps, KeepaliveSteps
    <3> QED
      BY <3>1, <3>2, <3>3 DEF IInv, TypeOK, Goto, LifecycleSteps
  <2>3. CASE EndKeepalive(t)
    BY <2>3, EndsAside DEF EndKeepalive, Done, IInv, TypeOK, Goto, LifecycleSteps
  <2> QED
    BY <2>1, <2>2, <2>3
<1>3. TypeOK'
  <2>1. faults' \in 0..MaxFaults
    BY <1>1, BoundsAssumption DEF IInv, TypeOK
  <2> QED
    BY <1>1, <1>2, <2>1, AsideLabels DEF IInv, TypeOK, ctrlVars, Aside
<1>4. LifecycleOK'
  BY <1>1, <1>2, AsideLabels, Bystander DEF Aside
<1>5. \A u \in Threads : Prepared(u)'
  BY <1>1, <1>2, AsidePrepared DEF ctrlVars
<1>6. NoSessionAbandoned'
  BY <1>1 DEF IInv, NoSessionAbandoned
<1> QED
  BY <1>2, <1>3, <1>4, <1>5, <1>6, AsideRequests DEF IInv

-----------------------------------------------------------------------------
(* The requests. *)

(* What make_robot_ready needs to know to be at a step. *)
LeadsIn(t, label, holders) ==
  cmd[t] = "make_robot_ready" /\ ~disturbed[t] /\ on[t] \in open =>
    /\ label \notin {"edit?", "edit!", "answer"} => holders["edit"] = on[t]
    /\ label \notin {"edit?", "edit!", "motion?", "motion!", "answer"} =>
         holders["motion"] # on[t]

(* The labels a request may go to on its way. *)
Onward(t, label) ==
  /\ label \in RequestSteps \ {"post!"}
  /\ label \in MakeReadySteps => cmd[t] = "make_robot_ready"
  /\ pc[t] = "edit?" /\ on[t] \notin open => label = "answer"

(* A step of a request: it goes on, and whatever it does to the controller *)
(* the other requests are told of.                                         *)
Handles(t) ==
  /\ pc[t] \in RequestSteps
  /\ UNCHANGED <<nodeVars, on, cmd>>
  /\ UNCHANGED <<open, leaked>> \/ (open' = {} /\ leaked' = {})
  /\ faults' \in 0..MaxFaults
  /\ master' \in [Domains -> Interfaces \cup {"free", "pendant"}]
  /\ motors' \in BOOLEAN /\ running' \in BOOLEAN
  /\ UNCHANGED <<ctrlVars, disturbed>> \/ Disturb(Threads \ {t})
  /\ \E label \in RequestSteps :
       Goto(t, label) /\ Onward(t, label) /\ LeadsIn(t, label, master')

(* A question changes nothing. *)
LEMMA Questions ==
  ASSUME IInv, NEW t \in Threads, pc[t] \in RequestSteps,
         NEW a, NEW b, Get(t, a, b),
         UNCHANGED <<nodeVars, on, cmd, open, leaked>>,
         on[t] \in open => Onward(t, a) /\ LeadsIn(t, a, master),
         Onward(t, b) /\ LeadsIn(t, b, master)
  PROVE  Handles(t)
<1>1. /\ UNCHANGED <<ctrlVars, disturbed>>
      /\ faults' \in {faults, faults - 1} /\ (faults' = faults \/ faults > 0)
      /\ \/ on[t] \in open /\ Goto(t, a)
         \/ Goto(t, b)
  BY DEF Get, Fault
<1>2. faults' \in 0..MaxFaults
  BY <1>1, BoundsAssumption DEF IInv, TypeOK
<1>3. \E label \in RequestSteps :
        Goto(t, label) /\ Onward(t, label) /\ LeadsIn(t, label, master')
  BY <1>1 DEF ctrlVars, Onward
<1> QED
  BY <1>1, <1>2, <1>3 DEF Handles, IInv, TypeOK, ctrlVars

(* A command does to the controller one of the things it may do. *)
Sound(p) ==
  /\ p.master \in [Domains -> Interfaces \cup {"free", "pendant"}]
  /\ p.motors \in BOOLEAN /\ p.running \in BOOLEAN

(* A request's call leaves its thread where it has what the next call *)
(* needs.                                                             *)
LEMMA Orders ==
  ASSUME IInv, NEW t \in Threads, pc[t] \in RequestSteps,
         NEW results, NEW a, NEW b, Post(t, results, a, b),
         UNCHANGED <<nodeVars, on, cmd>>,
         UNCHANGED <<open, leaked>> \/ (open' = {} /\ leaked' = {}),
         pc[t] # "edit?", Onward(t, a), Onward(t, b), LeadsIn(t, b, master),
         \A p \in results : Sound(p) /\ LeadsIn(t, a, p.master) /\ LeadsIn(t, b, p.master)
  PROVE  Handles(t)
<1>1. /\ faults' \in {faults, faults - 1} /\ (faults' = faults \/ faults > 0)
      /\ UNCHANGED <<ctrlVars, disturbed>> \/ Disturb(Threads \ {t})
      /\ \/ Goto(t, b) /\ UNCHANGED ctrlVars
         \/ \E p \in results : Becomes(p) /\ (Goto(t, a) \/ Goto(t, b))
  BY DEF Post, Fault
<1>2. faults' \in 0..MaxFaults
  BY <1>1, BoundsAssumption DEF IInv, TypeOK
<1>3. /\ master' \in [Domains -> Interfaces \cup {"free", "pendant"}]
      /\ motors' \in BOOLEAN /\ running' \in BOOLEAN
      /\ \E label \in RequestSteps :
           Goto(t, label) /\ Onward(t, label) /\ LeadsIn(t, label, master')
  <2>1. CASE Goto(t, b) /\ UNCHANGED ctrlVars
    BY <2>1 DEF ctrlVars, Onward, IInv, TypeOK
  <2>2. ASSUME NEW p \in results, Becomes(p), Goto(t, a) \/ Goto(t, b)
        PROVE  <1>3!:
    BY <2>2 DEF Becomes, Sound, Onward
  <2> QED
    BY <1>1, <2>1, <2>2
<1> QED
  BY <1>1, <1>2, <1>3 DEF Handles

(* What the commands do. *)
LEMMA Panels ==
  ASSUME NEW m \in [Domains -> Interfaces \cup {"free", "pendant"}],
         NEW mot \in BOOLEAN, NEW run \in BOOLEAN
  PROVE  Sound(Panel(m, mot, run)) /\ Panel(m, mot, run).master = m
  BY Zenon DEF Sound, Panel

(* What the controller does with each call, as far as the holders go. *)
LEMMA Effects ==
  ASSUME IInv, NEW i \in Interfaces, NEW d \in Domains
  PROVE  /\ \A p \in RequestMastership(i, d) :
              /\ Sound(p) /\ p.master[d] = i
              /\ \A e \in Domains \ {d} : p.master[e] = master[e]
         /\ \A p \in ReleaseMastership(i, d) :
              /\ Sound(p) /\ p.master[d] # i
              /\ \A e \in Domains \ {d} : p.master[e] = master[e]
         /\ \A p \in MotorsOn \cup MotorsOff \cup StopRapid \cup ResetPP(i) \cup StartRapid(i) :
              Sound(p) /\ p.master = master
         /\ \A p \in Restart(i) : Sound(p)
<1>1. /\ master \in [Domains -> Interfaces \cup {"free", "pendant"}]
      /\ motors \in BOOLEAN /\ running \in BOOLEAN /\ TRUE \in BOOLEAN /\ FALSE \in BOOLEAN
      /\ i \in Interfaces \cup {"free", "pendant"} /\ "free" \in Interfaces \cup {"free", "pendant"}
      /\ i # "free"
  BY NamesAssumption DEF IInv, TypeOK
<1>2. \A p \in RequestMastership(i, d) :
        /\ Sound(p) /\ p.master[d] = i
        /\ \A e \in Domains \ {d} : p.master[e] = master[e]
  <2> DEFINE m == [master EXCEPT ![d] = i]
  <2>1. /\ m \in [Domains -> Interfaces \cup {"free", "pendant"}]
        /\ m[d] = i /\ \A e \in Domains \ {d} : m[e] = master[e]
    BY <1>1
  <2>2. \A p \in RequestMastership(i, d) : p = Panel(m, motors, running)
    BY DEF RequestMastership
  <2> HIDE DEF m
  <2>3. Sound(Panel(m, motors, running)) /\ Panel(m, motors, running).master = m
    BY <1>1, <2>1, Panels
  <2> QED
    BY <2>1, <2>2, <2>3
<1>3. \A p \in ReleaseMastership(i, d) :
        /\ Sound(p) /\ p.master[d] # i
        /\ \A e \in Domains \ {d} : p.master[e] = master[e]
  <2> DEFINE m == [master EXCEPT ![d] = "free"]
  <2>1. /\ m \in [Domains -> Interfaces \cup {"free", "pendant"}]
        /\ m[d] # i /\ \A e \in Domains \ {d} : m[e] = master[e]
    BY <1>1
  <2>2. \A p \in ReleaseMastership(i, d) : p = Panel(m, motors, running)
    BY DEF ReleaseMastership
  <2> HIDE DEF m
  <2>3. Sound(Panel(m, motors, running)) /\ Panel(m, motors, running).master = m
    BY <1>1, <2>1, Panels
  <2> QED
    BY <2>1, <2>2, <2>3
<1>4. \A p \in MotorsOn \cup MotorsOff \cup StopRapid : Sound(p) /\ p.master = master
  BY <1>1, Panels DEF MotorsOn, MotorsOff, StopRapid
<1>5. \A p \in ResetPP(i) \cup StartRapid(i) : Sound(p) /\ p.master = master
  <2>1. /\ Sound(Panel(master, motors, running)) /\ Panel(master, motors, running).master = master
        /\ Sound(Panel(master, motors, TRUE)) /\ Panel(master, motors, TRUE).master = master
    BY <1>1, Panels
  <2>2. \A p \in ResetPP(i) : p = Panel(master, motors, running)
    BY DEF ResetPP
  <2>3. \A p \in StartRapid(i) : p = Panel(master, motors, TRUE)
    BY DEF StartRapid
  <2> QED
    BY <2>1, <2>2, <2>3
<1>6. \A p \in Restart(i) : Sound(p)
  <2>1. [e \in Domains |-> "free"] \in [Domains -> Interfaces \cup {"free", "pendant"}]
    BY <1>1
  <2> QED
    BY <1>1, <2>1, Panels DEF Restart
<1> QED
  BY <1>2, <1>3, <1>4, <1>5, <1>6

(* Every step of every request is such a step. *)
LEMMA Handled ==
  ASSUME IInv, NEW t \in Threads, Request(t) \/ RestartController(t)
  PROVE  Handles(t)
<1>1. /\ pc[t] \in RequestSteps /\ on[t] \in Interfaces
      /\ pc[t] \in MakeReadySteps => cmd[t] = "make_robot_ready"
      /\ UNCHANGED <<nodeVars, on, cmd>>
      /\ UNCHANGED <<open, leaked>> \/ (open' = {} /\ leaked' = {})
  <2>1. pc[t] \in RequestSteps
    BY DEF Request, CheckMastership, SwitchOn, ResetPointer, StartScript, SinglePost,
           RestartController, RequestSteps
  <2>2. /\ UNCHANGED <<nodeVars, on, cmd>>
        /\ UNCHANGED <<open, leaked>> \/ (open' = {} /\ leaked' = {})
    BY DEF Request, RestartController
  <2> QED
    BY <2>1, <2>2 DEF IInv, RequestsOK
<1>2. Prepared(t)
  BY DEF IInv
<1>3. CASE pc[t] = "edit?"
  <2> DEFINE a == IF IsMaster(t, "edit") THEN "motion?" ELSE "edit!"
  <2>1. Get(t, a, "answer") /\ UNCHANGED <<open, leaked>>
    BY <1>3
      DEF Request, CheckMastership, SwitchOn, ResetPointer, StartScript, SinglePost,
          RestartController
  <2>2. /\ on[t] \in open => Onward(t, a) /\ LeadsIn(t, a, master)
        /\ Onward(t, "answer") /\ LeadsIn(t, "answer", master)
    BY <1>1, <1>2, <1>3 DEF Onward, LeadsIn, Prepared, IsMaster, RequestSteps, MakeReadySteps
  <2> HIDE DEF a
  <2> QED
    BY <1>1, <1>3, <2>1, <2>2, Questions
<1>4. CASE pc[t] = "motion?"
  <2> DEFINE a == IF IsMaster(t, "motion") THEN "motion!" ELSE "running?"
  <2>1. Get(t, a, "answer") /\ UNCHANGED <<open, leaked>>
    BY <1>4
      DEF Request, CheckMastership, SwitchOn, ResetPointer, StartScript, SinglePost,
          RestartController
  <2>2. /\ on[t] \in open => Onward(t, a) /\ LeadsIn(t, a, master)
        /\ Onward(t, "answer") /\ LeadsIn(t, "answer", master)
    BY <1>1, <1>2, <1>4 DEF Onward, LeadsIn, Prepared, IsMaster, RequestSteps, MakeReadySteps
  <2> HIDE DEF a
  <2> QED
    BY <1>1, <1>4, <2>1, <2>2, Questions
<1>5. CASE pc[t] = "running?"
  <2> DEFINE a == IF running THEN "ready" ELSE "mode?"
  <2>1. Get(t, a, "answer") /\ UNCHANGED <<open, leaked>>
    BY <1>5
      DEF Request, CheckMastership, SwitchOn, ResetPointer, StartScript, SinglePost,
          RestartController
  <2>2. /\ on[t] \in open => Onward(t, a) /\ LeadsIn(t, a, master)
        /\ Onward(t, "answer") /\ LeadsIn(t, "answer", master)
    BY <1>1, <1>2, <1>5 DEF Onward, LeadsIn, Prepared, IsMaster, RequestSteps, MakeReadySteps
  <2> HIDE DEF a
  <2> QED
    BY <1>1, <1>5, <2>1, <2>2, Questions
<1>6. CASE pc[t] = "motors?"
  <2> DEFINE a == IF motors THEN "motors on?" ELSE "motors!"
  <2>1. Get(t, a, "motors!") /\ UNCHANGED <<open, leaked>>
    BY <1>6
      DEF Request, CheckMastership, SwitchOn, ResetPointer, StartScript, SinglePost,
          RestartController
  <2>2. /\ on[t] \in open => Onward(t, a) /\ LeadsIn(t, a, master)
        /\ Onward(t, "motors!") /\ LeadsIn(t, "motors!", master)
    BY <1>1, <1>2, <1>6 DEF Onward, LeadsIn, Prepared, IsMaster, RequestSteps, MakeReadySteps
  <2> HIDE DEF a
  <2> QED
    BY <1>1, <1>6, <2>1, <2>2, Questions
<1>7. CASE pc[t] = "motors on?"
  <2> DEFINE a == IF motors THEN "reset?" ELSE "answer"
  <2>1. Get(t, a, "answer") /\ UNCHANGED <<open, leaked>>
    BY <1>7
      DEF Request, CheckMastership, SwitchOn, ResetPointer, StartScript, SinglePost,
          RestartController
  <2>2. /\ on[t] \in open => Onward(t, a) /\ LeadsIn(t, a, master)
        /\ Onward(t, "answer") /\ LeadsIn(t, "answer", master)
    BY <1>1, <1>2, <1>7 DEF Onward, LeadsIn, Prepared, IsMaster, RequestSteps, MakeReadySteps
  <2> HIDE DEF a
  <2> QED
    BY <1>1, <1>7, <2>1, <2>2, Questions
<1>8. CASE pc[t] = "reset?"
  <2> DEFINE a == IF IsMaster(t, "edit") THEN "reset!" ELSE "answer"
  <2>1. Get(t, a, "answer") /\ UNCHANGED <<open, leaked>>
    BY <1>8
      DEF Request, CheckMastership, SwitchOn, ResetPointer, StartScript, SinglePost,
          RestartController
  <2>2. /\ on[t] \in open => Onward(t, a) /\ LeadsIn(t, a, master)
        /\ Onward(t, "answer") /\ LeadsIn(t, "answer", master)
    BY <1>1, <1>2, <1>8 DEF Onward, LeadsIn, Prepared, IsMaster, RequestSteps, MakeReadySteps
  <2> HIDE DEF a
  <2> QED
    BY <1>1, <1>8, <2>1, <2>2, Questions
<1>9. CASE pc[t] = "stopped?"
  <2> DEFINE a == IF running THEN "started?" ELSE "start?"
  <2>1. Get(t, a, "answer") /\ UNCHANGED <<open, leaked>>
    BY <1>9
      DEF Request, CheckMastership, SwitchOn, ResetPointer, StartScript, SinglePost,
          RestartController
  <2>2. /\ on[t] \in open => Onward(t, a) /\ LeadsIn(t, a, master)
        /\ Onward(t, "answer") /\ LeadsIn(t, "answer", master)
    BY <1>1, <1>2, <1>9 DEF Onward, LeadsIn, Prepared, IsMaster, RequestSteps, MakeReadySteps
  <2> HIDE DEF a
  <2> QED
    BY <1>1, <1>9, <2>1, <2>2, Questions
<1>10. CASE pc[t] = "start?"
  <2> DEFINE a == IF IsMaster(t, "edit") THEN "no motion?" ELSE "answer"
  <2>1. Get(t, a, "answer") /\ UNCHANGED <<open, leaked>>
    BY <1>10
      DEF Request, CheckMastership, SwitchOn, ResetPointer, StartScript, SinglePost,
          RestartController
  <2>2. /\ on[t] \in open => Onward(t, a) /\ LeadsIn(t, a, master)
        /\ Onward(t, "answer") /\ LeadsIn(t, "answer", master)
    BY <1>1, <1>2, <1>10 DEF Onward, LeadsIn, Prepared, IsMaster, RequestSteps, MakeReadySteps
  <2> HIDE DEF a
  <2> QED
    BY <1>1, <1>10, <2>1, <2>2, Questions
<1>11. CASE pc[t] = "no motion?"
  <2> DEFINE a == IF IsMaster(t, "motion") THEN "answer" ELSE "start!"
  <2>1. Get(t, a, "answer") /\ UNCHANGED <<open, leaked>>
    BY <1>11
      DEF Request, CheckMastership, SwitchOn, ResetPointer, StartScript, SinglePost,
          RestartController
  <2>2. /\ on[t] \in open => Onward(t, a) /\ LeadsIn(t, a, master)
        /\ Onward(t, "answer") /\ LeadsIn(t, "answer", master)
    BY <1>1, <1>2, <1>11 DEF Onward, LeadsIn, Prepared, IsMaster, RequestSteps, MakeReadySteps
  <2> HIDE DEF a
  <2> QED
    BY <1>1, <1>11, <2>1, <2>2, Questions
<1>12. CASE pc[t] = "started?"
  <2> DEFINE a == IF running THEN "ready" ELSE "answer"
  <2>1. Get(t, a, "answer") /\ UNCHANGED <<open, leaked>>
    BY <1>12
      DEF Request, CheckMastership, SwitchOn, ResetPointer, StartScript, SinglePost,
          RestartController
  <2>2. /\ on[t] \in open => Onward(t, a) /\ LeadsIn(t, a, master)
        /\ Onward(t, "answer") /\ LeadsIn(t, "answer", master)
    BY <1>1, <1>2, <1>12 DEF Onward, LeadsIn, Prepared, IsMaster, RequestSteps, MakeReadySteps
  <2> HIDE DEF a
  <2> QED
    BY <1>1, <1>12, <2>1, <2>2, Questions
<1>13. CASE pc[t] = "restart?"
  <2> DEFINE a == IF IsMaster(t, "edit") THEN "both?" ELSE "answer"
  <2>1. Get(t, a, "answer") /\ UNCHANGED <<open, leaked>>
    BY <1>13
      DEF Request, CheckMastership, SwitchOn, ResetPointer, StartScript, SinglePost,
          RestartController
  <2>2. /\ on[t] \in open => Onward(t, a) /\ LeadsIn(t, a, master)
        /\ Onward(t, "answer") /\ LeadsIn(t, "answer", master)
    BY <1>1, <1>2, <1>13 DEF Onward, LeadsIn, Prepared, IsMaster, RequestSteps, MakeReadySteps
  <2> HIDE DEF a
  <2> QED
    BY <1>1, <1>13, <2>1, <2>2, Questions
<1>14. CASE pc[t] = "both?"
  <2> DEFINE a == IF IsMaster(t, "motion") THEN "restart!" ELSE "answer"
  <2>1. Get(t, a, "answer") /\ UNCHANGED <<open, leaked>>
    BY <1>14
      DEF Request, CheckMastership, SwitchOn, ResetPointer, StartScript, SinglePost,
          RestartController
  <2>2. /\ on[t] \in open => Onward(t, a) /\ LeadsIn(t, a, master)
        /\ Onward(t, "answer") /\ LeadsIn(t, "answer", master)
    BY <1>1, <1>2, <1>14 DEF Onward, LeadsIn, Prepared, IsMaster, RequestSteps, MakeReadySteps
  <2> HIDE DEF a
  <2> QED
    BY <1>1, <1>14, <2>1, <2>2, Questions
<1>15. CASE pc[t] = "edit!"
  <2> DEFINE a == "motion?"
  <2>1. Post(t, RequestMastership(on[t], "edit"), a, "answer")
    BY <1>15
      DEF Request, CheckMastership, SwitchOn, ResetPointer, StartScript, SinglePost,
          RestartController
  <2>2. Onward(t, a) /\ Onward(t, "answer") /\ LeadsIn(t, "answer", master)
    BY <1>1, <1>2, <1>15 DEF Onward, LeadsIn, Prepared, IsMaster, RequestSteps, MakeReadySteps
  <2>3. \A p \in RequestMastership(on[t], "edit") :
          Sound(p) /\ LeadsIn(t, a, p.master) /\ LeadsIn(t, "answer", p.master)
    BY <1>1, <1>2, <1>15, Effects DEF LeadsIn, Prepared, IsMaster
  <2> HIDE DEF a
  <2> QED
    BY <1>1, <1>15, <2>1, <2>2, <2>3, Orders
<1>16. CASE pc[t] = "motion!"
  <2> DEFINE a == "running?"
  <2>1. Post(t, ReleaseMastership(on[t], "motion"), a, "answer")
    BY <1>16
      DEF Request, CheckMastership, SwitchOn, ResetPointer, StartScript, SinglePost,
          RestartController
  <2>2. Onward(t, a) /\ Onward(t, "answer") /\ LeadsIn(t, "answer", master)
    BY <1>1, <1>2, <1>16 DEF Onward, LeadsIn, Prepared, IsMaster, RequestSteps, MakeReadySteps
  <2>3. \A p \in ReleaseMastership(on[t], "motion") :
          Sound(p) /\ LeadsIn(t, a, p.master) /\ LeadsIn(t, "answer", p.master)
    BY <1>1, <1>2, <1>16, Effects DEF LeadsIn, Prepared, IsMaster
  <2> HIDE DEF a
  <2> QED
    BY <1>1, <1>16, <2>1, <2>2, <2>3, Orders
<1>17. CASE pc[t] = "motors!"
  <2> DEFINE a == "motors on?"
  <2>1. Post(t, MotorsOn, a, "motors on?")
    BY <1>17
      DEF Request, CheckMastership, SwitchOn, ResetPointer, StartScript, SinglePost,
          RestartController
  <2>2. Onward(t, a) /\ Onward(t, "motors on?") /\ LeadsIn(t, "motors on?", master)
    BY <1>1, <1>2, <1>17 DEF Onward, LeadsIn, Prepared, IsMaster, RequestSteps, MakeReadySteps
  <2>3. \A p \in MotorsOn :
          Sound(p) /\ LeadsIn(t, a, p.master) /\ LeadsIn(t, "motors on?", p.master)
    BY <1>1, <1>2, <1>17, Effects DEF LeadsIn, Prepared, IsMaster
  <2> HIDE DEF a
  <2> QED
    BY <1>1, <1>17, <2>1, <2>2, <2>3, Orders
<1>18. CASE pc[t] = "reset!"
  <2> DEFINE a == IF cmd[t] = "make_robot_ready" THEN "stopped?" ELSE "answer"
  <2>1. Post(t, ResetPP(on[t]), a, "answer")
    BY <1>18
      DEF Request, CheckMastership, SwitchOn, ResetPointer, StartScript, SinglePost,
          RestartController
  <2>2. Onward(t, a) /\ Onward(t, "answer") /\ LeadsIn(t, "answer", master)
    BY <1>1, <1>2, <1>18 DEF Onward, LeadsIn, Prepared, IsMaster, RequestSteps, MakeReadySteps
  <2>3. \A p \in ResetPP(on[t]) :
          Sound(p) /\ LeadsIn(t, a, p.master) /\ LeadsIn(t, "answer", p.master)
    BY <1>1, <1>2, <1>18, Effects DEF LeadsIn, Prepared, IsMaster
  <2> HIDE DEF a
  <2> QED
    BY <1>1, <1>18, <2>1, <2>2, <2>3, Orders
<1>19. CASE pc[t] = "start!"
  <2> DEFINE a == IF cmd[t] = "make_robot_ready" THEN "started?" ELSE "answer"
  <2>1. Post(t, StartRapid(on[t]), a, "answer")
    BY <1>19
      DEF Request, CheckMastership, SwitchOn, ResetPointer, StartScript, SinglePost,
          RestartController
  <2>2. Onward(t, a) /\ Onward(t, "answer") /\ LeadsIn(t, "answer", master)
    BY <1>1, <1>2, <1>19 DEF Onward, LeadsIn, Prepared, IsMaster, RequestSteps, MakeReadySteps
  <2>3. \A p \in StartRapid(on[t]) :
          Sound(p) /\ LeadsIn(t, a, p.master) /\ LeadsIn(t, "answer", p.master)
    BY <1>1, <1>2, <1>19, Effects DEF LeadsIn, Prepared, IsMaster
  <2> HIDE DEF a
  <2> QED
    BY <1>1, <1>19, <2>1, <2>2, <2>3, Orders
<1>20. CASE pc[t] = "restart!"
  <2> DEFINE a == "answer"
  <2>1. Post(t, Restart(on[t]), a, "answer")
    BY <1>20
      DEF Request, CheckMastership, SwitchOn, ResetPointer, StartScript, SinglePost,
          RestartController
  <2>2. Onward(t, a) /\ Onward(t, "answer") /\ LeadsIn(t, "answer", master)
    BY <1>1, <1>2, <1>20 DEF Onward, LeadsIn, Prepared, IsMaster, RequestSteps, MakeReadySteps
  <2>3. \A p \in Restart(on[t]) :
          Sound(p) /\ LeadsIn(t, a, p.master) /\ LeadsIn(t, "answer", p.master)
    BY <1>1, <1>2, <1>20, Effects DEF LeadsIn, Prepared, IsMaster
  <2> HIDE DEF a
  <2> QED
    BY <1>1, <1>20, <2>1, <2>2, <2>3, Orders
<1>21. CASE pc[t] = "mode?"
  <2>1. PICK mode \in {"auto", "manual"} :
          Get(t, IF mode = "auto" THEN "motors?" ELSE "answer", "answer")
    BY <1>21
      DEF Request, CheckMastership, SwitchOn, ResetPointer, StartScript, SinglePost,
          RestartController
  <2> DEFINE a == IF mode = "auto" THEN "motors?" ELSE "answer"
  <2>2. /\ Get(t, a, "answer") /\ UNCHANGED <<open, leaked>>
    BY <1>21, <2>1
      DEF Request, CheckMastership, SwitchOn, ResetPointer, StartScript, SinglePost,
          RestartController
  <2>3. /\ on[t] \in open => Onward(t, a) /\ LeadsIn(t, a, master)
        /\ Onward(t, "answer") /\ LeadsIn(t, "answer", master)
    BY <1>1, <1>2, <1>21 DEF Onward, LeadsIn, Prepared, IsMaster, RequestSteps, MakeReadySteps
  <2> HIDE DEF a
  <2> QED
    BY <1>1, <1>21, <2>2, <2>3, Questions
<1>22. CASE pc[t] = "post!"
  <2>1. PICK results : /\ Post(t, results, "answer", "answer")
                      /\ \A p \in results : Sound(p)
    <3>1. SinglePost(t) /\ cmd[t] \in OnePost
      BY <1>22
        DEF Request, CheckMastership, SwitchOn, ResetPointer, StartScript, SinglePost,
            RestartController, IInv, RequestsOK
    <3>2. CASE cmd[t] = "motors_on"
      BY <1>1, <3>1, <3>2, Effects DEF SinglePost
    <3>3. CASE cmd[t] = "motors_off"
      BY <1>1, <3>1, <3>3, Effects DEF SinglePost
    <3>4. CASE cmd[t] = "stop_rapid_script"
      BY <1>1, <3>1, <3>4, Effects DEF SinglePost
    <3>5. CASE cmd[t] = "request_mastership"
      BY <1>1, <3>1, <3>5, Effects DEF SinglePost
    <3>6. CASE cmd[t] = "release_mastership"
      BY <1>1, <3>1, <3>6, Effects DEF SinglePost
    <3> QED
      BY <3>1, <3>2, <3>3, <3>4, <3>5, <3>6 DEF OnePost
  <2>2. Onward(t, "answer") /\ \A holders : LeadsIn(t, "answer", holders)
    BY <1>22 DEF Onward, LeadsIn, RequestSteps, MakeReadySteps
  <2> QED
    BY <1>1, <1>22, <2>1, <2>2, Orders
<1> QED
  BY <1>3, <1>4, <1>5, <1>6, <1>7, <1>8, <1>9, <1>10, <1>11, <1>12, <1>13, <1>14, <1>15,
     <1>16, <1>17, <1>18, <1>19, <1>20, <1>21, <1>22
     DEF Request, CheckMastership, SwitchOn, ResetPointer, StartScript, SinglePost,
         RestartController

(* It keeps what every other request relies on. *)
LEMMA HandledKeeps ==
  ASSUME IInv, NEW t \in Threads, Request(t) \/ RestartController(t)
  PROVE  IInv'
<1>1. Handles(t)
  BY Handled
<1>2. PICK label \in RequestSteps :
        Goto(t, label) /\ Onward(t, label) /\ LeadsIn(t, label, master')
  BY <1>1 DEF Handles
<1>3. /\ pc' \in [Threads -> {"free"} \cup LifecycleSteps \cup KeepaliveSteps \cup RequestSteps]
      /\ pc'[t] = label /\ \A u \in Threads \ {t} : pc'[u] = pc[u]
  BY <1>2 DEF IInv, TypeOK, Goto
<1>4. /\ disturbed' \in [Threads -> BOOLEAN]
      /\ disturbed'[t] = disturbed[t]
      /\ \A u \in Threads \ {t} :
           \/ disturbed'[u] = disturbed[u] /\ master' = master
           \/ disturbed'[u] /\ cmd[u] # None
           \/ cmd[u] = None
  BY <1>1 DEF Handles, Disturb, ctrlVars, IInv, TypeOK
<1>5. open' \subseteq open /\ (open \subseteq leaked => open' \subseteq leaked')
  BY <1>1 DEF Handles
<1>6. TypeOK'
  BY <1>1, <1>3, <1>4, <1>5 DEF IInv, TypeOK, Handles, nodeVars
<1>7. RequestsOK'
  <2> SUFFICES ASSUME NEW u \in Threads
               PROVE  /\ pc'[u] \in RequestSteps => on[u] \in Interfaces /\ cmd[u] # None
                      /\ pc'[u] \notin RequestSteps => cmd[u] = None
                      /\ pc'[u] \in MakeReadySteps => cmd[u] = "make_robot_ready"
                      /\ pc'[u] = "post!" => cmd[u] \in OnePost
    BY <1>1 DEF RequestsOK, Handles
  <2>1. CASE u = t
    BY <1>1, <1>2, <1>3, <2>1 DEF IInv, RequestsOK, Handles, Onward
  <2>2. CASE u # t
    BY <1>3, <2>2 DEF IInv, RequestsOK
  <2> QED
    BY <2>1, <2>2
<1>8. LifecycleOK'
  <2>1. /\ UNCHANGED <<state, rws>> /\ on' = on /\ cmd' = cmd
        /\ pc[t] \notin LifecycleSteps /\ pc'[t] \notin LifecycleSteps
    BY <1>1, <1>3 DEF Handles, nodeVars, RequestSteps, LifecycleSteps
  <2>2. rws \notin open /\ on'[t] = rws /\ cmd'[t] = "make_robot_ready"
          /\ (on[t] = rws /\ cmd[t] = "make_robot_ready" => pc[t] \in {"edit?", "answer"}) =>
            pc'[t] \in {"edit?", "answer"}
    <3>1. pc[t] # "answer"
      BY DEF Request, RestartController, CheckMastership, SwitchOn, ResetPointer, StartScript,
             SinglePost
    <3> QED
      BY <1>2, <1>3, <2>1, <3>1 DEF Onward
  <2> QED
    BY <1>3, <1>5, <2>1, <2>2, Bystander
<1>9. NoSessionAbandoned'
  BY <1>1 DEF Handles, nodeVars, IInv, NoSessionAbandoned
<1>10. \A u \in Threads : Prepared(u)'
  <2> SUFFICES ASSUME NEW u \in Threads, cmd[u] = "make_robot_ready", ~disturbed'[u],
                      on[u] \in open'
               PROVE  /\ pc'[u] \notin {"edit?", "edit!", "answer"} => master'["edit"] = on[u]
                      /\ pc'[u] \notin {"edit?", "edit!", "motion?", "motion!", "answer"} =>
                           master'["motion"] # on[u]
    BY <1>1 DEF Prepared, IsMaster, Handles
  <2>1. CASE u = t
    BY <1>2, <1>3, <1>4, <1>5, <2>1 DEF LeadsIn
  <2>2. CASE u # t
    BY <1>3, <1>4, <1>5, <2>2 DEF IInv, Prepared, IsMaster
  <2> QED
    BY <2>1, <2>2
<1> QED
  BY <1>6, <1>7, <1>8, <1>9, <1>10 DEF IInv

(* A request begins with nothing known of the controller. *)
LEMMA FirstSteps ==
  ASSUME NEW c \in AllCommands
  PROVE  /\ FirstStep(c) \in {"edit?", "reset?", "start?", "restart?", "post!"}
         /\ FirstStep(c) = "edit?" <=> c = "make_robot_ready"
         /\ FirstStep(c) = "post!" => c \in OnePost
  BY DEF FirstStep, AllCommands, OnePost

(* A request begins at its first call, on the node's interface. *)
LEMMA RequestBegins ==
  ASSUME IInv, NEW t \in Threads, NEW c \in Commands, StartRequest(t, c)
  PROVE  IInv'
<1>1. /\ pc[t] = "free" /\ rws \in Interfaces /\ c \in AllCommands
      /\ on' = [on EXCEPT ![t] = rws] /\ cmd' = [cmd EXCEPT ![t] = c]
      /\ Goto(t, FirstStep(c)) /\ disturbed' = [disturbed EXCEPT ![t] = FALSE]
      /\ UNCHANGED <<nodeVars, open, ctrlVars, faults, leaked>>
  BY CommandsAssumption DEF StartRequest, IInv, TypeOK
<1>2. /\ FirstStep(c) \in RequestSteps /\ FirstStep(c) \notin LifecycleSteps
      /\ FirstStep(c) \in MakeReadySteps => c = "make_robot_ready"
      /\ c = "make_robot_ready" => FirstStep(c) = "edit?"
      /\ FirstStep(c) = "post!" => c \in OnePost
      /\ c # None
  BY <1>1, FirstSteps DEF RequestSteps, LifecycleSteps, MakeReadySteps, AllCommands
<1>3. /\ pc' \in [Threads -> {"free"} \cup LifecycleSteps \cup KeepaliveSteps \cup RequestSteps]
      /\ pc'[t] = FirstStep(c) /\ \A u \in Threads \ {t} : pc'[u] = pc[u]
  BY <1>1, <1>2 DEF IInv, TypeOK, Goto
<1>4. /\ on' \in [Threads -> Interfaces \cup {None}] /\ on'[t] = rws
      /\ cmd' \in [Threads -> AllCommands \cup {None}] /\ cmd'[t] = c
      /\ disturbed' \in [Threads -> BOOLEAN]
      /\ \A u \in Threads \ {t} :
           on'[u] = on[u] /\ cmd'[u] = cmd[u] /\ disturbed'[u] = disturbed[u]
  BY <1>1 DEF IInv, TypeOK
<1>5. TypeOK'
  BY <1>1, <1>3, <1>4 DEF IInv, TypeOK, nodeVars, ctrlVars
<1>6. RequestsOK'
  BY <1>1, <1>2, <1>3, <1>4 DEF IInv, RequestsOK
<1>7. LifecycleOK'
  <2>1. UNCHANGED <<state, rws>> /\ pc[t] \notin LifecycleSteps /\ pc'[t] \notin LifecycleSteps
    BY <1>1, <1>2, <1>3 DEF nodeVars, LifecycleSteps
  <2> QED
    BY <1>1, <1>2, <1>3, <1>4, <2>1, Bystander
<1>8. NoSessionAbandoned'
  BY <1>1 DEF IInv, NoSessionAbandoned, nodeVars
<1>9. \A u \in Threads : Prepared(u)'
  BY <1>1, <1>2, <1>3, <1>4 DEF IInv, Prepared, IsMaster, ctrlVars
<1> QED
  BY <1>5, <1>6, <1>7, <1>8, <1>9 DEF IInv

(* A request that is answered has nothing left to do. *)
LEMMA RequestEnds ==
  ASSUME IInv, NEW t \in Threads, Answer(t)
  PROVE  IInv'
<1>1. /\ pc[t] \in {"ready", "answer"} /\ Done(t)
      /\ UNCHANGED <<nodeVars, open, ctrlVars, faults, leaked>>
  BY DEF Answer
<1>2. Aside(t) /\ pc'[t] = "free" /\ cmd'[t] = None
  BY <1>1, EndsAside DEF IInv, TypeOK, Done, Goto
<1>3. TypeOK'
  BY <1>1, <1>2, AsideLabels DEF IInv, TypeOK, nodeVars, ctrlVars, Aside
<1>4. LifecycleOK'
  <2>1. UNCHANGED <<state, rws>> /\ pc[t] \notin LifecycleSteps /\ pc'[t] \notin LifecycleSteps
    BY <1>1, <1>2 DEF nodeVars, LifecycleSteps
  <2> QED
    BY <1>1, <1>2, <2>1, AsideLabels, Bystander DEF Aside
<1>5. \A u \in Threads : Prepared(u)'
  BY <1>1, <1>2, AsidePrepared DEF ctrlVars
<1>6. NoSessionAbandoned'
  BY <1>1 DEF IInv, NoSessionAbandoned, nodeVars
<1> QED
  BY <1>2, <1>3, <1>4, <1>5, <1>6, AsideRequests DEF IInv

-----------------------------------------------------------------------------
(* What happens outside the node. *)

(* Whoever else acts on the controller disturbs every request. *)
LEMMA Elsewhere ==
  ASSUME IInv, Recover \/ Intervene \/ PendantReleases \/ SessionExpires \/ UNCHANGED vars
  PROVE  IInv'
<1>1. /\ UNCHANGED <<rws, loggedIn, keepaliveTimer, pc, on, cmd>>
      /\ state' = state \/ (state = "error_recoverable" /\ state' = "idle")
  BY Fires DEF Recover, Intervene, PendantReleases, SessionExpires, vars, nodeVars, IInv, TypeOK
<1>2. /\ open' \subseteq open /\ leaked' \subseteq leaked
      /\ open \subseteq leaked => open' \subseteq leaked'
      /\ open \subseteq {rws} \cup leaked => open' \subseteq {rws} \cup leaked'
  BY DEF Recover, Intervene, PendantReleases, SessionExpires, CloseSessions, vars
<1>3. faults' \in 0..MaxFaults
  <2>1. faults' \in {faults, faults - 1} /\ (faults' = faults \/ faults > 0)
    BY DEF Recover, Intervene, PendantReleases, SessionExpires, Fault, vars
  <2> QED
    BY <2>1, BoundsAssumption DEF IInv, TypeOK
<1>4. /\ disturbed' \in [Threads -> BOOLEAN]
      /\ \/ disturbed' = disturbed /\ master' = master
         \/ \A u \in Threads : disturbed'[u] \/ cmd[u] = None
  <2>1. UNCHANGED <<disturbed, master>> \/ Disturb(Threads)
    BY DEF Recover, Intervene, PendantReleases, SessionExpires, vars, ctrlVars
  <2> QED
    BY <2>1 DEF Disturb, IInv, TypeOK
<1>5. /\ master' \in [Domains -> Interfaces \cup {"free", "pendant"}]
      /\ motors' \in BOOLEAN /\ running' \in BOOLEAN
  <2>1. CASE UNCHANGED ctrlVars
    BY <2>1 DEF ctrlVars, IInv, TypeOK
  <2>2. CASE Intervene
    <3>1. CASE \E p \in StopRapid \cup MotorsOff : Becomes(p)
      <4>1. Sound(Panel(master, motors, FALSE)) /\ Sound(Panel(master, FALSE, FALSE))
        BY Panels DEF IInv, TypeOK
      <4> QED
        BY <3>1, <4>1 DEF StopRapid, MotorsOff, Becomes, Sound
    <3>2. CASE Becomes(Panel([master EXCEPT !["edit"] = "pendant"], motors, running))
      <4>1. Sound(Panel([master EXCEPT !["edit"] = "pendant"], motors, running))
        BY Panels DEF IInv, TypeOK
      <4> QED
        BY <3>2, <4>1 DEF Becomes, Sound
    <3> QED
      BY <2>2, <3>1, <3>2 DEF Intervene
  <2>3. CASE PendantReleases
    <3>1. Sound(Panel([master EXCEPT !["edit"] = "free"], motors, running))
      BY Panels DEF IInv, TypeOK
    <3> QED
      BY <2>3, <3>1 DEF PendantReleases, Becomes, Sound
  <2>4. CASE SessionExpires
    BY <2>4, Closing DEF SessionExpires, IInv, TypeOK
  <2> QED
    BY <2>1, <2>2, <2>3, <2>4 DEF Recover, vars
<1>6. TypeOK'
  BY <1>1, <1>2, <1>3, <1>4, <1>5 DEF IInv, TypeOK
<1>7. RequestsOK'
  BY <1>1 DEF IInv, RequestsOK
<1>8. LifecycleOK'
  <2>1. Fresh => Fresh'
    BY <1>1, <1>2 DEF Fresh
  <2> QED
    BY <1>1, <1>2, <2>1 DEF IInv, LifecycleOK, Initializing, CleaningUp
<1>9. NoSessionAbandoned'
  BY <1>1, <1>2 DEF IInv, NoSessionAbandoned
<1>10. \A u \in Threads : Prepared(u)'
  BY <1>1, <1>2, <1>4 DEF IInv, Prepared, IsMaster
<1> QED
  BY <1>6, <1>7, <1>8, <1>9, <1>10 DEF IInv

-----------------------------------------------------------------------------
(* The inductive invariant holds in every behaviour. *)
THEOREM Invariance == Spec => []IInv
<1>1. Init => IInv
  <2> SUFFICES ASSUME Init
               PROVE  IInv
    OBVIOUS
  <2>1. TypeOK
    <3>1. faults \in 0..MaxFaults /\ open \subseteq Interfaces /\ leaked \subseteq Interfaces
      BY BoundsAssumption DEF Init
    <3>2. loggedIn \in BOOLEAN /\ keepaliveTimer \in BOOLEAN
      BY DEF Init
    <3>3. motors \in BOOLEAN /\ running \in BOOLEAN
      BY DEF Init
    <3>4. disturbed \in [Threads -> BOOLEAN]
      BY DEF Init
    <3> QED
      BY <3>1, <3>2, <3>3, <3>4 DEF Init, TypeOK
  <2>2. \A t \in Threads :
          /\ pc[t] = "free" /\ cmd[t] = None /\ "free" \notin RequestSteps
          /\ "free" \notin LifecycleSteps /\ "free" \notin MakeReadySteps
    BY DEF Init, RequestSteps, LifecycleSteps, MakeReadySteps
  <2>3. RequestsOK /\ LifecycleOK
    BY <2>2 DEF RequestsOK, LifecycleOK, Initializing, CleaningUp
  <2>4. NoSessionAbandoned /\ \A t \in Threads : Prepared(t)
    BY <2>2 DEF Init, NoSessionAbandoned, Prepared
  <2> QED
    BY <2>1, <2>3, <2>4 DEF IInv
<1>2. IInv /\ [Next]_vars => IInv'
  <2> SUFFICES ASSUME IInv, [Next]_vars
               PROVE  IInv'
    OBVIOUS
  <2>1. ASSUME NEW t \in Threads,
               StartInitialization(t) \/ StartCleanup(t) \/ StartKeepalive(t)
        PROVE  IInv'
    BY <2>1, Starts, KeepsAlive
  <2>2. ASSUME NEW t \in Threads, NEW c \in Commands, StartRequest(t, c)
        PROVE  IInv'
    BY <2>2, RequestBegins
  <2>3. ASSUME NEW t \in Threads, Callback(t)
        PROVE  IInv'
    BY <2>3, LifecycleEnds, Creates, LogsIn, StopsTimers, LogsOut, KeepsAlive, HandledKeeps,
       RequestEnds
       DEF Callback
  <2>4. CASE Recover \/ Intervene \/ PendantReleases \/ SessionExpires \/ UNCHANGED vars
    BY <2>4, Elsewhere
  <2> QED
    BY <2>1, <2>2, <2>3, <2>4 DEF Next
<1> QED
  BY <1>1, <1>2, PTL DEF Spec

(* Every field has its type, the holders of the two domains included:      *)
(* whatever the requests do to them, a domain is held by an interface, by  *)
(* the pendant or by nobody.                                               *)
THEOREM TypeCorrect == Spec => []TypeOK
<1>1. IInv => TypeOK
  BY DEF IInv
<1> QED
  BY <1>1, Invariance, PTL

(* No course of initializations, failed logins, recoveries and cleanups    *)
(* drops an interface with its session open.                               *)
THEOREM SessionsAreClosed == Spec => []NoSessionAbandoned
<1>1. IInv => NoSessionAbandoned
  BY DEF IInv
<1> QED
  BY <1>1, Invariance, PTL

(* The step on which make_robot_ready comes to its success: the controller *)
(* has just said that RAPID runs.                                          *)
LEMMA Arrivals ==
  ASSUME IInv, [Next]_vars, NEW t \in Threads, pc[t] # "ready", pc'[t] = "ready"
  PROVE  pc[t] \in {"running?", "started?"} /\ running /\ on[t] \in open
<1>1. ASSUME NEW u \in Threads, NEW label, label # "ready", Goto(u, label)
      PROVE  FALSE
  BY <1>1 DEF IInv, TypeOK, Goto
<1>2. ASSUME NEW u \in Threads, NEW c \in Commands, StartRequest(u, c)
      PROVE  FALSE
  BY <1>1, <1>2, FirstSteps, CommandsAssumption DEF StartRequest
<1>3. ASSUME NEW u \in Threads,
             \/ StartInitialization(u) \/ StartCleanup(u) \/ RefuseInitialization(u)
             \/ CreateInterface(u) \/ Login(u) \/ LoginRefused(u) \/ LoginRaises(u)
             \/ CompleteInitialization(u) \/ Logout(u) \/ LogoutRaises(u) \/ CompleteCleanup(u)
      PROVE  FALSE
  BY <1>1, <1>3
     DEF StartInitialization, StartCleanup, RefuseInitialization, CreateInterface, Login,
         LoginRefused, LoginRaises, CompleteInitialization, Logout, LogoutRaises,
         CompleteCleanup, Done
<1>4. ASSUME NEW u \in Threads,
             \/ StopTimers(u) \/ StartKeepalive(u) \/ KeepaliveServed(u) \/ KeepaliveFails(u)
             \/ EndKeepalive(u) \/ Answer(u)
      PROVE  FALSE
  BY <1>1, <1>4
     DEF StopTimers, StartKeepalive, KeepaliveServed, KeepaliveFails, EndKeepalive, Answer, Done
<1>5. CASE Recover \/ Intervene \/ PendantReleases \/ SessionExpires \/ UNCHANGED vars
  BY <1>5 DEF Recover, Intervene, PendantReleases, SessionExpires, vars
<1>6. ASSUME NEW u \in Threads, Request(u) \/ RestartController(u)
      PROVE  pc[t] \in {"running?", "started?"} /\ running /\ on[t] \in open
  <2>1. u = t
    BY <1>6, Handled DEF Handles, Goto, IInv, TypeOK
  <2>2. ASSUME NEW a, NEW b, Get(t, a, b) PROVE pc'[t] = b \/ (pc'[t] = a /\ on[t] \in open)
    BY <2>2 DEF Get, Goto, IInv, TypeOK
  <2>3. ASSUME NEW results, NEW a, NEW b, Post(t, results, a, b) PROVE pc'[t] \in {a, b}
    BY <2>3 DEF Post, Goto, IInv, TypeOK
  <2>4. ~RestartController(t)
    BY <2>2, <2>3 DEF RestartController
  <2>5. ~CheckMastership(t)
    BY <2>2, <2>3 DEF CheckMastership
  <2>6. ~ResetPointer(t)
    BY <2>2, <2>3 DEF ResetPointer
  <2>7. ~SinglePost(t)
    BY <2>3 DEF SinglePost
  <2>8. CASE SwitchOn(t)
    <3>1. CASE pc[t] = "running?"
      <4>1. Get(t, IF running THEN "ready" ELSE "mode?", "answer")
        BY <2>8, <3>1 DEF SwitchOn
      <4>2. on[t] \in open /\ (IF running THEN "ready" ELSE "mode?") = "ready"
        BY <2>2, <4>1
      <4> QED
        BY <3>1, <4>2
    <3>2. CASE pc[t] = "mode?"
      <4>1. PICK mode \in {"auto", "manual"} :
              Get(t, IF mode = "auto" THEN "motors?" ELSE "answer", "answer")
        BY <2>8, <3>2 DEF SwitchOn
      <4> QED
        BY <2>2, <4>1
    <3>3. CASE pc[t] = "motors?"
      <4>1. Get(t, IF motors THEN "motors on?" ELSE "motors!", "motors!")
        BY <2>8, <3>3 DEF SwitchOn
      <4> QED
        BY <2>2, <4>1
    <3>4. CASE pc[t] = "motors!"
      <4>1. Post(t, MotorsOn, "motors on?", "motors on?")
        BY <2>8, <3>4 DEF SwitchOn
      <4>2. pc'[t] = "motors on?"
        BY <4>1 DEF Post, Goto, IInv, TypeOK
      <4> QED
        BY <4>2
    <3>5. CASE pc[t] = "motors on?"
      <4>1. Get(t, IF motors THEN "reset?" ELSE "answer", "answer")
        BY <2>8, <3>5 DEF SwitchOn
      <4> QED
        BY <2>2, <4>1
    <3> QED
      BY <2>8, <3>1, <3>2, <3>3, <3>4, <3>5 DEF SwitchOn
  <2>9. CASE StartScript(t)
    <3>1. CASE pc[t] = "started?"
      <4>1. Get(t, IF running THEN "ready" ELSE "answer", "answer")
        BY <2>9, <3>1 DEF StartScript
      <4>2. on[t] \in open /\ (IF running THEN "ready" ELSE "answer") = "ready"
        BY <2>2, <4>1
      <4> QED
        BY <3>1, <4>2
    <3>2. CASE pc[t] = "stopped?"
      <4>1. Get(t, IF running THEN "started?" ELSE "start?", "answer")
        BY <2>9, <3>2 DEF StartScript
      <4> QED
        BY <2>2, <4>1
    <3>3. CASE pc[t] = "start?"
      <4>1. Get(t, IF IsMaster(t, "edit") THEN "no motion?" ELSE "answer", "answer")
        BY <2>9, <3>3 DEF StartScript
      <4> QED
        BY <2>2, <4>1
    <3>4. CASE pc[t] = "no motion?"
      <4>1. Get(t, IF IsMaster(t, "motion") THEN "answer" ELSE "start!", "answer")
        BY <2>9, <3>4 DEF StartScript
      <4> QED
        BY <2>2, <4>1
    <3>5. CASE pc[t] = "start!"
      <4>1. Post(t, StartRapid(on[t]),
                 IF cmd[t] = "make_robot_ready" THEN "started?" ELSE "answer", "answer")
        BY <2>9, <3>5 DEF StartScript
      <4>2. pc'[t] \in {IF cmd[t] = "make_robot_ready" THEN "started?" ELSE "answer", "answer"}
        BY <2>3, <4>1
      <4> QED
        BY <4>2
    <3> QED
      BY <2>9, <3>1, <3>2, <3>3, <3>4, <3>5 DEF StartScript
  <2> QED
    BY <1>6, <2>1, <2>4, <2>5, <2>6, <2>7, <2>8, <2>9 DEF Request
<1> QED
  BY <1>2, <1>3, <1>4, <1>5, <1>6 DEF Next, Callback

(* make_robot_ready reports success only for a robot that is ready, unless *)
(* someone else has acted on the controller since the request began.       *)
THEOREM RobotIsReady == Spec => ReadyMeansReady
<1>1. IInv /\ [Next]_vars =>
        \A t \in Threads :
          pc[t] # "ready" /\ pc'[t] = "ready" /\ ~disturbed[t] =>
            running /\ IsMaster(t, "edit") /\ ~IsMaster(t, "motion")
  <2> SUFFICES ASSUME IInv, [Next]_vars, NEW t \in Threads,
                      pc[t] # "ready", pc'[t] = "ready", ~disturbed[t]
               PROVE  running /\ IsMaster(t, "edit") /\ ~IsMaster(t, "motion")
    OBVIOUS
  <2>1. pc[t] \in {"running?", "started?"} /\ running /\ on[t] \in open
    BY Arrivals
  <2>2. Prepared(t) /\ cmd[t] = "make_robot_ready"
    BY <2>1 DEF IInv, RequestsOK, MakeReadySteps
  <2> QED
    BY <2>1, <2>2 DEF Prepared
<1> QED
  BY <1>1, Invariance, PTL DEF Spec, ReadyMeansReady

-----------------------------------------------------------------------------
(* The lifecycle callbacks hold the node in turn. *)
Holder == {t \in Threads : pc[t] \in LifecycleSteps}

SessionOwner == INSTANCE Ownership WITH
  Callers <- Threads,
  holders <- Holder,
  mode <- IF state \in Operational THEN "held" ELSE "free"

(* The operational state has a callback that will leave it; busy are the   *)
(* motion goals of RobotTrajectory, none of which is here.                 *)
Owned ==
  /\ state # "busy"
  /\ state \in Operational => \E t \in Threads : Holder = {t}
  /\ state \notin Operational => Holder = {}

(* A step of a request is none of the lifecycle's. *)
LEMMA StepsApart ==
  ASSUME NEW label \in RequestSteps
  PROVE  label \notin LifecycleSteps
<1>1. label # "init" /\ label # "login" /\ label # "timers"
  BY DEF RequestSteps
<1>2. label # "cleanup" /\ label # "logout" /\ label # "drop"
  BY DEF RequestSteps
<1> QED
  BY <1>1, <1>2 DEF LifecycleSteps

(* How a step moves the threads of the lifecycle. *)
LEMMA Moves ==
  ASSUME IInv, NEW t \in Threads, NEW label, Goto(t, label)
  PROVE  /\ pc[t] \notin LifecycleSteps /\ label \notin LifecycleSteps => Holder' = Holder
         /\ pc[t] \in LifecycleSteps /\ label \in LifecycleSteps => Holder' = Holder
         /\ pc[t] \in LifecycleSteps /\ label \notin LifecycleSteps =>
              Holder = {t} /\ Holder' = {}
         /\ Holder = {} /\ label \in LifecycleSteps => Holder' = {t}
  BY DEF IInv, TypeOK, LifecycleOK, Goto, Holder

(* A step of the node opens a state, closes it, or leaves it to its holder. *)
LEMMA HolderMoves ==
  ASSUME IInv, Owned, [Next]_vars
  PROVE  \/ /\ state \notin Operational /\ state' \in {"initializing", "cleaning_up"}
            /\ \E t \in Threads : Holder' = {t}
         \/ /\ state \in Operational /\ state' \notin Operational /\ Holder' = {}
         \/ /\ (state' = state \/ (state \notin Operational /\ state' = "idle"))
            /\ Holder' = Holder
<1>types. state \in NodeStates /\ TypeOK
  BY DEF IInv, TypeOK
<1>1. ASSUME NEW t \in Threads, StartInitialization(t) \/ StartCleanup(t)
      PROVE  /\ state \notin Operational /\ state' \in {"initializing", "cleaning_up"}
             /\ Holder' = {t}
  <2>1. state \notin Operational /\ state' \in {"initializing", "cleaning_up"}
    BY <1>1, <1>types, Fires DEF StartInitialization, StartCleanup
  <2>2. PICK label \in LifecycleSteps : Goto(t, label)
    BY <1>1 DEF StartInitialization, StartCleanup, LifecycleSteps
  <2> QED
    BY <2>1, <2>2, Moves DEF Owned
<1>2. ASSUME NEW t \in Threads,
             \/ RefuseInitialization(t) \/ LoginRaises(t)
             \/ CompleteInitialization(t) \/ CompleteCleanup(t)
      PROVE  state \in Operational /\ state' \notin Operational /\ Holder' = {}
  <2>0. /\ pc[t] \in {"init", "login", "timers"} => state = "initializing"
        /\ pc[t] = "drop" => state = "cleaning_up"
    BY DEF IInv, LifecycleOK, Initializing, CleaningUp
  <2>1. /\ pc[t] \in {"init", "login", "timers", "drop"}
        /\ state \in Operational /\ state' \notin Operational
    <3>1. CASE RefuseInitialization(t)
      BY <2>0, <3>1, Fires DEF RefuseInitialization
    <3>2. CASE LoginRaises(t)
      BY <2>0, <3>2, Fires DEF LoginRaises
    <3>3. CASE CompleteInitialization(t)
      BY <2>0, <3>3, Fires DEF CompleteInitialization
    <3>4. CASE CompleteCleanup(t)
      BY <2>0, <3>4, Fires DEF CompleteCleanup
    <3> QED
      BY <1>2, <3>1, <3>2, <3>3, <3>4
  <2>2. Goto(t, "free")
    BY <1>2
       DEF RefuseInitialization, LoginRaises, CompleteInitialization, CompleteCleanup, Done
  <2> QED
    BY <2>1, <2>2, Moves DEF LifecycleSteps
<1>3. ASSUME NEW t \in Threads,
             \/ CreateInterface(t) \/ Login(t) \/ LoginRefused(t)
             \/ StopTimers(t) \/ Logout(t) \/ LogoutRaises(t)
      PROVE  state' = state /\ Holder' = Holder
  <2>1. state' = state /\ pc[t] \in LifecycleSteps
    BY <1>3 DEF CreateInterface, Login, LoginRefused, StopTimers, Logout, LogoutRaises,
                nodeVars, LifecycleSteps
  <2>2. \E label \in LifecycleSteps : Goto(t, label)
    BY <1>3 DEF CreateInterface, Login, LoginRefused, StopTimers, Logout, LogoutRaises,
                LifecycleSteps
  <2> QED
    BY <2>1, <2>2, Moves
<1>4. ASSUME NEW t \in Threads,
             \/ StartKeepalive(t) \/ KeepaliveServed(t) \/ KeepaliveFails(t)
             \/ EndKeepalive(t) \/ Answer(t)
      PROVE  state' = state /\ Holder' = Holder
  <2>1. /\ state' = state /\ pc[t] \notin LifecycleSteps
        /\ \E label \in {"free"} \cup KeepaliveSteps : Goto(t, label)
    BY <1>4 DEF StartKeepalive, KeepaliveServed, KeepaliveFails, EndKeepalive, Answer, Done,
                nodeVars, KeepaliveSteps, LifecycleSteps
  <2> QED
    BY <2>1, Moves DEF KeepaliveSteps, LifecycleSteps
<1>5. ASSUME NEW t \in Threads, NEW c \in Commands, StartRequest(t, c)
      PROVE  state' = state /\ Holder' = Holder
  <2>1. FirstStep(c) \notin LifecycleSteps
    BY CommandsAssumption, FirstSteps DEF LifecycleSteps
  <2>2. state' = state /\ pc[t] = "free" /\ Goto(t, FirstStep(c))
    BY <1>5 DEF StartRequest, nodeVars
  <2> QED
    BY <2>1, <2>2, Moves DEF LifecycleSteps
<1>6. ASSUME NEW t \in Threads, Request(t) \/ RestartController(t)
      PROVE  state' = state /\ Holder' = Holder
  <2>1. Handles(t)
    BY <1>6, Handled
  <2>2. /\ state' = state /\ pc[t] \in RequestSteps
        /\ \E label \in RequestSteps : Goto(t, label)
    BY <2>1 DEF Handles, nodeVars
  <2> QED
    BY <2>2, Moves, StepsApart
<1>7. CASE Recover
  BY <1>7, <1>types, Fires DEF Recover, Holder
<1>8. CASE Intervene \/ PendantReleases \/ SessionExpires \/ UNCHANGED vars
  BY <1>8 DEF Intervene, PendantReleases, SessionExpires, vars, nodeVars, Holder
<1> QED
  BY <1>1, <1>2, <1>3, <1>4, <1>5, <1>6, <1>7, <1>8 DEF Next, Callback

(* So the state stays owned, and the node's steps are steps of the         *)
(* ownership protocol, or none of its business.                            *)
LEMMA SessionStepRefines ==
  ASSUME IInv, Owned, [Next]_vars
  PROVE  Owned' /\ [SessionOwner!Next]_(SessionOwner!vars)
<1>1. CASE /\ state \notin Operational /\ state' \in {"initializing", "cleaning_up"}
           /\ \E t \in Threads : Holder' = {t}
  BY <1>1 DEF Owned, SessionOwner!Next, SessionOwner!Acquire
<1>2. CASE state \in Operational /\ state' \notin Operational /\ Holder' = {}
  BY <1>2 DEF Owned, SessionOwner!Next, SessionOwner!Release
<1>3. CASE /\ (state' = state \/ (state \notin Operational /\ state' = "idle"))
           /\ Holder' = Holder
  BY <1>3 DEF Owned, SessionOwner!vars
<1> QED
  BY <1>1, <1>2, <1>3, HolderMoves

(* The robot node's session implements the ownership protocol. *)
THEOREM Refinement == Spec => SessionOwner!Spec
<1>1. Init => Owned /\ SessionOwner!Init
  BY DEF Init, Owned, SessionOwner!Init, Holder, LifecycleSteps
<1> QED
  BY <1>1, Invariance, SessionStepRefines, PTL DEF Spec, SessionOwner!Spec

=============================================================================
