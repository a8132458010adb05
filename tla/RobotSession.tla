----------------------------- MODULE RobotSession -----------------------------
(***************************************************************************)
(* The robot controller node's session with the ABB controller             *)
(* (intranodes_pkg/robot_controller_node.py, robot_controller_provider.py, *)
(* robot_controller_interface.py): initialization logs a new RWSInterface  *)
(* in, a timer keeps it alive, cleanup logs it out, and controller_request *)
(* runs a method of whatever interface the node has.  The executor's       *)
(* threads run these callbacks over one another: RWS and _logged_in are    *)
(* under no lock, and every HTTP call lies between two steps.              *)
(*                                                                         *)
(* The controller knows a client by its session: mastership belongs to the *)
(* session, and a closed session is answered with a refusal.               *)
(***************************************************************************)
EXTENDS Lifecycle, Integers, FiniteSets

CONSTANTS
  Threads,          \* the threads of the node's MultiThreadedExecutor
  Interfaces,       \* RWSInterface objects, each with its HTTP session
  Commands,         \* methods asked for through controller_request
  MaxFaults         \* lost or refused calls, and interventions at the robot

ASSUME BoundsAssumption == MaxFaults \in Nat

(* An interface is neither None nor one of the two other holders of a      *)
(* mastership.                                                             *)
ASSUME NamesAssumption == Interfaces \cap {"none", "free", "pendant"} = {}

Domains == {"edit", "motion"}

VARIABLES
  state,            \* lifecycle_sm.current_state
  rws,              \* self.RWS
  loggedIn,         \* self._logged_in
  keepaliveTimer,   \* keepalive_timer is there
  pc,               \* pc[t]: where the callback on the thread is
  on,               \* on[t]: the interface its method is bound to
  cmd,              \* cmd[t]: the method a request runs
  open,             \* sessions the controller holds open
  master,           \* master[d]: the session that holds the domain
  motors, running,  \* the panel's motors and RAPID's execution
  faults,           \* how much may still go wrong
  leaked,           \* history: sessions whose logout was lost
  disturbed         \* history, disturbed[t]: someone else has acted on the
                    \*   controller since the request on the thread began

nodeVars == <<state, rws, loggedIn, keepaliveTimer>>
ctrlVars == <<master, motors, running>>
vars == <<nodeVars, pc, on, cmd, open, ctrlVars, faults, leaked, disturbed>>

None == "none"

(* The steps of the lifecycle callbacks, of the keepalive and of requests. *)
LifecycleSteps == {"init", "login", "timers", "cleanup", "logout", "drop"}
KeepaliveSteps == {"keepalive", "alive", "dead"}
RequestSteps ==
  {"edit?", "edit!", "motion?", "motion!", "running?", "mode?", "motors?",
   "motors!", "motors on?", "reset?", "reset!", "stopped?", "start?",
   "no motion?", "start!", "started?", "restart?", "both?", "restart!",
   "post!", "ready", "answer"}

AllCommands ==
  {"make_robot_ready", "reset_pp", "start_rapid_script", "stop_rapid_script",
   "restart_controller", "motors_on", "motors_off", "request_mastership",
   "release_mastership"}

ASSUME CommandsAssumption == Commands \subseteq AllCommands

TypeOK ==
  /\ state \in NodeStates
  /\ rws \in Interfaces \cup {None}
  /\ loggedIn \in BOOLEAN /\ keepaliveTimer \in BOOLEAN
  /\ pc \in [Threads -> {"free"} \cup LifecycleSteps \cup KeepaliveSteps
                          \cup RequestSteps]
  /\ on \in [Threads -> Interfaces \cup {None}]
  /\ cmd \in [Threads -> AllCommands \cup {None}]
  /\ open \subseteq Interfaces /\ leaked \subseteq Interfaces
  /\ master \in [Domains -> Interfaces \cup {"free", "pendant"}]
  /\ motors \in BOOLEAN /\ running \in BOOLEAN
  /\ faults \in 0..MaxFaults
  /\ disturbed \in [Threads -> BOOLEAN]

Init ==
  /\ state = "not_initialized"
  /\ rws = None /\ loggedIn = FALSE /\ keepaliveTimer = FALSE
  /\ pc = [t \in Threads |-> "free"]
  /\ on = [t \in Threads |-> None]
  /\ cmd = [t \in Threads |-> None]
  /\ open = {}
  /\ master = [d \in Domains |-> "free"]
  /\ motors \in BOOLEAN /\ running \in BOOLEAN /\ (running => motors)
  /\ faults = MaxFaults /\ leaked = {}
  /\ disturbed = [t \in Threads |-> FALSE]

Goto(t, label) == pc' = [pc EXCEPT ![t] = label]

Done(t) ==
  /\ Goto(t, "free")
  /\ on' = [on EXCEPT ![t] = None]
  /\ cmd' = [cmd EXCEPT ![t] = None]
  /\ disturbed' = [disturbed EXCEPT ![t] = FALSE]

Fault == faults > 0 /\ faults' = faults - 1

(* An interface object that nothing refers to any more, or was never made. *)
Unused(i) == i # rws /\ i \notin open /\ \A t \in Threads : on[t] # i

-----------------------------------------------------------------------------
(* initialize_node and its handler.                                        *)

StartInitialization(t) ==
  /\ pc[t] = "free" /\ Allowed("start_initialization", state)
  /\ state' = Fire("start_initialization", state)
  /\ Goto(t, "init")
  /\ UNCHANGED <<rws, loggedIn, keepaliveTimer, on, cmd, open, ctrlVars,
                 faults, leaked, disturbed>>

AlreadyInitialized == rws # None \/ loggedIn

(* "Node already initialized, cleanup before re-initializing". *)
RefuseInitialization(t) ==
  /\ pc[t] = "init" /\ AlreadyInitialized
  /\ state' = Fire("fail_recoverable", state)
  /\ Done(t)
  /\ UNCHANGED <<rws, loggedIn, keepaliveTimer, open, ctrlVars, faults, leaked>>

CreateInterface(t) ==
  /\ pc[t] = "init" /\ ~AlreadyInitialized
  /\ \E i \in Interfaces : Unused(i)
  /\ rws' = CHOOSE i \in Interfaces : Unused(i)
  /\ Goto(t, "login")
  /\ UNCHANGED <<state, loggedIn, keepaliveTimer, on, cmd, open, ctrlVars,
                 faults, leaked, disturbed>>

(* login() returns True. *)
Login(t) ==
  /\ pc[t] = "login"
  /\ open' = open \cup {rws}
  /\ loggedIn' = TRUE
  /\ Goto(t, "timers")
  /\ UNCHANGED <<state, rws, keepaliveTimer, on, cmd, ctrlVars, faults,
                 leaked, disturbed>>

(* login() returns False, for a missing cookie or another status, and the  *)
(* initialization goes on.                                                 *)
LoginRefused(t) ==
  /\ pc[t] = "login" /\ Fault
  /\ loggedIn' = FALSE
  /\ Goto(t, "timers")
  /\ UNCHANGED <<state, rws, keepaliveTimer, on, cmd, open, ctrlVars, leaked,
                 disturbed>>

(* login() raises, whether the controller has opened the session or not.   *)
LoginRaises(t) ==
  /\ pc[t] = "login" /\ Fault
  /\ open' \in {open, open \cup {rws}}
  /\ state' = Fire("fail_non_recoverable", state)
  /\ Done(t)
  /\ UNCHANGED <<rws, loggedIn, keepaliveTimer, ctrlVars, leaked>>

CompleteInitialization(t) ==
  /\ pc[t] = "timers"
  /\ keepaliveTimer' = TRUE
  /\ state' = Fire("complete", state)
  /\ Done(t)
  /\ UNCHANGED <<rws, loggedIn, open, ctrlVars, faults, leaked>>

-----------------------------------------------------------------------------
(* cleanup_resources and its handler.                                      *)

StartCleanup(t) ==
  /\ pc[t] = "free" /\ Allowed("start_cleanup", state)
  /\ state' = Fire("start_cleanup", state)
  /\ Goto(t, "cleanup")
  /\ UNCHANGED <<rws, loggedIn, keepaliveTimer, on, cmd, open, ctrlVars,
                 faults, leaked, disturbed>>

(* Without an interface, None.logout() raises and is caught. *)
StopTimers(t) ==
  /\ pc[t] = "cleanup"
  /\ keepaliveTimer' = FALSE
  /\ Goto(t, IF rws = None THEN "drop" ELSE "logout")
  /\ UNCHANGED <<state, rws, loggedIn, on, cmd, open, ctrlVars, faults,
                 leaked, disturbed>>

(* The controller gives up what a session held when it closes. *)
CloseSessions(closed) ==
  /\ open' = open \ closed
  /\ master' = [d \in Domains |->
                  IF master[d] \in closed THEN "free" ELSE master[d]]

(* Mutant of Logout: the cleanup forgets the interface without a logout. *)
LogoutSkipped(t) ==
  /\ pc[t] = "logout"
  /\ Goto(t, "drop")
  /\ UNCHANGED <<nodeVars, on, cmd, open, ctrlVars, faults, leaked, disturbed>>

Logout(t) ==
  /\ pc[t] = "logout"
  /\ CloseSessions({rws})
  /\ Goto(t, "drop")
  /\ UNCHANGED <<nodeVars, on, cmd, motors, running, faults, leaked, disturbed>>

(* logout() raises; the session stays open or does not. *)
LogoutRaises(t) ==
  /\ pc[t] = "logout" /\ Fault
  /\ \/ CloseSessions({rws}) /\ leaked' = leaked
     \/ CloseSessions({}) /\ leaked' = leaked \cup ({rws} \cap open)
  /\ Goto(t, "drop")
  /\ UNCHANGED <<nodeVars, on, cmd, motors, running, disturbed>>

(* Mutant of CompleteCleanup: the flag is left as it is. *)
CompleteCleanupKeepsFlag(t) ==
  /\ pc[t] = "drop"
  /\ rws' = None
  /\ state' = Fire("complete", state)
  /\ Done(t)
  /\ UNCHANGED <<loggedIn, keepaliveTimer, open, ctrlVars, faults, leaked>>

CompleteCleanup(t) ==
  /\ pc[t] = "drop"
  /\ loggedIn' = FALSE /\ rws' = None
  /\ state' = Fire("complete", state)
  /\ Done(t)
  /\ UNCHANGED <<keepaliveTimer, open, ctrlVars, faults, leaked>>

Recover ==
  /\ Allowed("retry_from_recoverable", state)
  /\ state' = Fire("retry_from_recoverable", state)
  /\ UNCHANGED <<rws, loggedIn, keepaliveTimer, pc, on, cmd, open, ctrlVars,
                 faults, leaked, disturbed>>

-----------------------------------------------------------------------------
(* keepalive_callback.  _logged_in is false while the call is under way,   *)
(* and true again only if the controller answers it.                       *)

StartKeepalive(t) ==
  /\ pc[t] = "free" /\ keepaliveTimer /\ loggedIn
  /\ loggedIn' = FALSE
  /\ on' = [on EXCEPT ![t] = rws]
  /\ Goto(t, "keepalive")
  /\ UNCHANGED <<state, rws, keepaliveTimer, cmd, open, ctrlVars, faults,
                 leaked, disturbed>>

KeepaliveServed(t) ==
  /\ pc[t] = "keepalive"
  /\ Goto(t, IF on[t] \in open THEN "alive" ELSE "dead")
  /\ UNCHANGED <<nodeVars, on, cmd, open, ctrlVars, faults, leaked, disturbed>>

KeepaliveFails(t) ==
  /\ pc[t] = "keepalive" /\ Fault
  /\ Goto(t, "dead")
  /\ UNCHANGED <<nodeVars, on, cmd, open, ctrlVars, leaked, disturbed>>

EndKeepalive(t) ==
  /\ pc[t] \in {"alive", "dead"}
  /\ loggedIn' = (loggedIn \/ pc[t] = "alive")
  /\ Done(t)
  /\ UNCHANGED <<state, rws, keepaliveTimer, open, ctrlVars, faults, leaked>>

-----------------------------------------------------------------------------
(* controller_request: robot_request looks at the two fields, not at the   *)
(* lifecycle, binds the method to the interface and runs it.               *)

FirstStep(c) ==
  CASE c = "make_robot_ready"   -> "edit?"
    [] c = "reset_pp"           -> "reset?"
    [] c = "start_rapid_script" -> "start?"
    [] c = "restart_controller" -> "restart?"
    [] OTHER                    -> "post!"

StartRequest(t, c) ==
  /\ pc[t] = "free" /\ loggedIn /\ rws # None
  /\ on' = [on EXCEPT ![t] = rws]
  /\ cmd' = [cmd EXCEPT ![t] = c]
  /\ Goto(t, FirstStep(c))
  /\ disturbed' = [disturbed EXCEPT ![t] = FALSE]
  /\ UNCHANGED <<nodeVars, open, ctrlVars, faults, leaked>>

IsMaster(t, d) == master[d] = on[t]

(* What a POST makes of the controller: the set of its next states, empty  *)
(* where it refuses.                                                       *)
Panel(m, mot, run) == [master |-> m, motors |-> mot, running |-> run]

RequestMastership(i, d) ==
  IF master[d] \in {"free", i}
    THEN {Panel([master EXCEPT ![d] = i], motors, running)} ELSE {}

(* Mutant of ReleaseMastership: the domain is left without an entry. *)
ReleaseMastershipToNone(i, d) ==
  IF master[d] = i
    THEN {Panel([master EXCEPT ![d] = None], motors, running)} ELSE {}

ReleaseMastership(i, d) ==
  IF master[d] = i
    THEN {Panel([master EXCEPT ![d] = "free"], motors, running)} ELSE {}

MotorsOn == {Panel(master, TRUE, running)}
MotorsOff == {Panel(master, FALSE, FALSE)}

ResetPP(i) ==
  IF master["edit"] = i /\ ~running THEN {Panel(master, motors, running)} ELSE {}

StartRapid(i) ==
  IF master["edit"] = i /\ master["motion"] # i /\ motors
    THEN {Panel(master, motors, TRUE)} ELSE {}

StopRapid == {Panel(master, motors, FALSE)}

Restart(i) ==
  IF \A d \in Domains : master[d] = i
    THEN {Panel([d \in Domains |-> "free"], FALSE, FALSE)} ELSE {}

(* Someone has acted on the controller: every request but this one's own.  *)
Disturb(others) ==
  disturbed' = [u \in Threads |-> disturbed[u] \/ (u \in others /\ cmd[u] # None)]

Becomes(panel) ==
  /\ master' = panel.master /\ motors' = panel.motors /\ running' = panel.running

(* post_request: the controller does it and says so, refuses, or the       *)
(* answer is lost whether it was done or not.                              *)
Post(t, results, accepted, refused) ==
  \/ /\ on[t] \in open
     /\ \E p \in results : Becomes(p)
     /\ Goto(t, accepted) /\ Disturb(Threads \ {t})
     /\ UNCHANGED faults
  \/ /\ on[t] \notin open \/ results = {}
     /\ Goto(t, refused)
     /\ UNCHANGED <<ctrlVars, faults, disturbed>>
  \/ /\ Fault
     /\ \/ UNCHANGED ctrlVars
        \/ on[t] \in open /\ \E p \in results : Becomes(p)
     /\ Goto(t, refused) /\ Disturb(Threads \ {t})

(* get_request: what the controller answers, or nothing.                   *)
Get(t, answered, unanswered) ==
  /\ \/ on[t] \in open /\ Goto(t, answered) /\ UNCHANGED faults
     \/ on[t] \notin open /\ Goto(t, unanswered) /\ UNCHANGED faults
     \/ Fault /\ Goto(t, unanswered)
  /\ UNCHANGED <<ctrlVars, disturbed>>

(* Mutant of CheckMastership: the motion domain is kept. *)
CheckEditOnly(t) ==
  \/ /\ pc[t] = "edit?"
     /\ Get(t, IF IsMaster(t, "edit") THEN "running?" ELSE "edit!", "answer")
  \/ /\ pc[t] = "edit!"
     /\ Post(t, RequestMastership(on[t], "edit"), "running?", "answer")

(* make_robot_ready, step by step: a "?" is a GET, a "!" is a POST.  An    *)
(* is_master or is_running without an answer raises; the request is        *)
(* answered all the same.                                                  *)
CheckMastership(t) ==
  \/ /\ pc[t] = "edit?"
     /\ Get(t, IF IsMaster(t, "edit") THEN "motion?" ELSE "edit!", "answer")
  \/ /\ pc[t] = "edit!"
     /\ Post(t, RequestMastership(on[t], "edit"), "motion?", "answer")
  \/ /\ pc[t] = "motion?"
     /\ Get(t, IF IsMaster(t, "motion") THEN "motion!" ELSE "running?", "answer")
  \/ /\ pc[t] = "motion!"
     /\ Post(t, ReleaseMastership(on[t], "motion"), "running?", "answer")

SwitchOn(t) ==
  \/ /\ pc[t] = "running?"
     /\ Get(t, IF running THEN "ready" ELSE "mode?", "answer")
  \/ /\ pc[t] = "mode?"
     /\ \E mode \in {"auto", "manual"} :
          Get(t, IF mode = "auto" THEN "motors?" ELSE "answer", "answer")
  \/ /\ pc[t] = "motors?"
     /\ Get(t, IF motors THEN "motors on?" ELSE "motors!", "motors!")
  \/ /\ pc[t] = "motors!"
     /\ Post(t, MotorsOn, "motors on?", "motors on?")
  \/ /\ pc[t] = "motors on?"
     /\ Get(t, IF motors THEN "reset?" ELSE "answer", "answer")

(* reset_pp and start_rapid_script, inside make_robot_ready or alone.      *)
ResetPointer(t) ==
  \/ /\ pc[t] = "reset?"
     /\ Get(t, IF IsMaster(t, "edit") THEN "reset!" ELSE "answer", "answer")
  \/ /\ pc[t] = "reset!"
     /\ Post(t, ResetPP(on[t]),
             IF cmd[t] = "make_robot_ready" THEN "stopped?" ELSE "answer",
             "answer")

StartScript(t) ==
  \/ /\ pc[t] = "stopped?"
     /\ Get(t, IF running THEN "started?" ELSE "start?", "answer")
  \/ /\ pc[t] = "start?"
     /\ Get(t, IF IsMaster(t, "edit") THEN "no motion?" ELSE "answer", "answer")
  \/ /\ pc[t] = "no motion?"
     /\ Get(t, IF IsMaster(t, "motion") THEN "answer" ELSE "start!", "answer")
  \/ /\ pc[t] = "start!"
     /\ Post(t, StartRapid(on[t]),
             IF cmd[t] = "make_robot_ready" THEN "started?" ELSE "answer",
             "answer")
  \/ /\ pc[t] = "started?"
     /\ Get(t, IF running THEN "ready" ELSE "answer", "answer")

(* The methods of one POST. *)
SinglePost(t) ==
  /\ pc[t] = "post!"
  /\ \E results \in
       CASE cmd[t] = "motors_on"          -> {MotorsOn}
         [] cmd[t] = "motors_off"         -> {MotorsOff}
         [] cmd[t] = "stop_rapid_script"  -> {StopRapid}
         [] cmd[t] = "request_mastership" ->
              {RequestMastership(on[t], d) : d \in Domains}
         [] cmd[t] = "release_mastership" ->
              {ReleaseMastership(on[t], d) : d \in Domains} :
       Post(t, results, "answer", "answer")

Request(t) ==
  /\ cmd[t] # None
  /\ CheckMastership(t) \/ SwitchOn(t) \/ ResetPointer(t) \/ StartScript(t)
       \/ SinglePost(t)
  /\ UNCHANGED <<nodeVars, on, cmd, open, leaked>>

(* restart_controller: a restarted controller knows no session any more.   *)
RestartController(t) ==
  \/ /\ pc[t] = "restart?"
     /\ Get(t, IF IsMaster(t, "edit") THEN "both?" ELSE "answer", "answer")
     /\ UNCHANGED <<nodeVars, on, cmd, open, leaked>>
  \/ /\ pc[t] = "both?"
     /\ Get(t, IF IsMaster(t, "motion") THEN "restart!" ELSE "answer", "answer")
     /\ UNCHANGED <<nodeVars, on, cmd, open, leaked>>
  \/ /\ pc[t] = "restart!"
     /\ Post(t, Restart(on[t]), "answer", "answer")
     /\ IF ctrlVars' # ctrlVars THEN open' = {} /\ leaked' = {}
                                ELSE UNCHANGED <<open, leaked>>
     /\ UNCHANGED <<nodeVars, on, cmd>>

Answer(t) ==
  /\ pc[t] \in {"ready", "answer"}
  /\ Done(t)
  /\ UNCHANGED <<nodeVars, open, ctrlVars, faults, leaked>>

-----------------------------------------------------------------------------
(* At the robot: somebody stops the program, switches the motors off, or   *)
(* takes the program away; the controller drops a session or restarts.     *)
Intervene ==
  /\ Fault
  /\ \/ \E p \in StopRapid \cup MotorsOff : Becomes(p)
     \/ /\ master["edit"] = "free"
        /\ Becomes(Panel([master EXCEPT !["edit"] = "pendant"], motors, running))
  /\ Disturb(Threads)
  /\ UNCHANGED <<nodeVars, pc, on, cmd, open, leaked>>

PendantReleases ==
  /\ master["edit"] = "pendant"
  /\ Becomes(Panel([master EXCEPT !["edit"] = "free"], motors, running))
  /\ Disturb(Threads)
  /\ UNCHANGED <<nodeVars, pc, on, cmd, open, faults, leaked>>

SessionExpires ==
  /\ Fault
  /\ \E i \in open : CloseSessions({i}) /\ leaked' = leaked \ {i}
  /\ Disturb(Threads)
  /\ UNCHANGED <<nodeVars, pc, on, cmd, motors, running>>

-----------------------------------------------------------------------------
(* What a thread does once its callback is under way. *)
Callback(t) ==
  \/ RefuseInitialization(t) \/ CreateInterface(t)
  \/ Login(t) \/ LoginRefused(t) \/ LoginRaises(t) \/ CompleteInitialization(t)
  \/ StopTimers(t) \/ Logout(t) \/ LogoutRaises(t) \/ CompleteCleanup(t)
  \/ KeepaliveServed(t) \/ KeepaliveFails(t) \/ EndKeepalive(t)
  \/ Request(t) \/ RestartController(t) \/ Answer(t)

Next ==
  \/ \E t \in Threads :
       \/ StartInitialization(t) \/ StartCleanup(t) \/ StartKeepalive(t)
       \/ \E c \in Commands : StartRequest(t, c)
       \/ Callback(t)
  \/ Recover
  \/ Intervene \/ PendantReleases \/ SessionExpires

Spec == Init /\ [][Next]_vars

(* The node works: requests are let through to a session that is open.     *)
Serving == loggedIn /\ rws \in open

(* The threads run, and every call returns or times out after two seconds. *)
(* The operator, who sees that requests fail, keeps cleaning up and        *)
(* initializing: what the control page offers for such a node.             *)
Fairness ==
  /\ \A t \in Threads : WF_vars(Callback(t))
  /\ SF_vars(\E t \in Threads : ~Serving /\ StartCleanup(t))
  /\ SF_vars(\E t \in Threads : StartInitialization(t))

FairSpec == Spec /\ Fairness

-----------------------------------------------------------------------------
(* Every session the controller holds open is the one the node has, or one *)
(* whose logout the controller did not get: no course of initializations,  *)
(* failed logins, recoveries and cleanups drops an interface with its      *)
(* session open.  The controller's sessions are few.                       *)
NoSessionAbandoned == open \subseteq {rws} \cup leaked

(* make_robot_ready reports success only for a robot that is ready: RAPID  *)
(* runs, and the session is master of the edit domain and not of the       *)
(* motion domain.  Unless someone else has acted on the controller in the  *)
(* meantime: nothing holds what was checked.                               *)
ReadyMeansReady ==
  [][\A t \in Threads :
       pc[t] # "ready" /\ pc'[t] = "ready" /\ ~disturbed[t] =>
         running /\ IsMaster(t, "edit") /\ ~IsMaster(t, "motion")]_vars

(* However logins, logouts and keepalives fail and overlap, the operator   *)
(* gets the node back to serving requests: also from _logged_in set by a   *)
(* keepalive that is answered after the cleanup, from a login that was     *)
(* refused and from a keepalive that failed once.                          *)
SessionComesBack == []<>Serving

=============================================================================
