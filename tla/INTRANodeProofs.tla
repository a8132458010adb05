--------------------------- MODULE INTRANodeProofs ---------------------------
(***************************************************************************)
(* Proofs about INTRANode for any set of calls, of any size: its type      *)
(* invariant, the sole ownership of the operational states, and that it    *)
(* implements the ownership protocol.  And proofs about two of its         *)
(* subclasses, the camera and the vision node of ScanVision, for any set   *)
(* of clients and any number of scans: its type invariant, that a client   *)
(* that has the cell to itself has its own scan processed, that no scan    *)
(* leaves the acquirer running, and that each node implements the          *)
(* ownership protocol too.                                                 *)
(***************************************************************************)
EXTENDS INTRANode, ScanVision, TLAPS

USE DEF NodeStates, Operational, Tasks, Endings

(* Firing an event, allowed or not, leads to a state of the machine.       *)
LEMMA FireType ==
  ASSUME NEW s \in NodeStates, NEW e \in Events
  PROVE  Fire(e, s) \in NodeStates
  BY DEF Events, Fire, Allowed, Sources, Target

(* Where a handler may open, the node belongs to nobody and is not shut    *)
(* down, and the start event takes it to the handler's own state.          *)
LEMMA Openings ==
  ASSUME NEW t \in Tasks, NEW s, Allowed(Opening(t), s)
  PROVE  /\ Fire(Opening(t), s) = Working(t)
         /\ s \notin Operational /\ s # "shutting_down"
  BY DEF Fire, Allowed, Sources, Target, Opening, Working

(* In an operational state every closing event is allowed, and leaves the  *)
(* operational states.                                                     *)
LEMMA Closings ==
  ASSUME NEW ending \in Endings, NEW s \in Operational
  PROVE  /\ Allowed(Closing(ending), s)
         /\ Fire(Closing(ending), s) \in
              {"idle", "not_initialized", "error_recoverable", "error"}
  BY DEF Fire, Allowed, Sources, Target, Closing

(* The states that handlers work in are operational. *)
LEMMA WorkingIsOperational ==
  ASSUME NEW t \in Tasks
  PROVE  Working(t) \in Operational
  BY DEF Working

(* The events that no handler's body surrounds fire only outside the       *)
(* operational states and stay outside them.                               *)
LEMMA Others ==
  ASSUME NEW s \in NodeStates,
         NEW e \in {"boot_complete", "retry_from_recoverable", "shutdown"}
  PROVE  /\ s \in Operational => Fire(e, s) = s
         /\ s \notin Operational => Fire(e, s) \notin Operational
  BY DEF Fire, Allowed, Sources, Target

-----------------------------------------------------------------------------
(* Every step preserves the type invariant. *)
LEMMA StepTypeOK == TypeOK /\ [Next]_vars => TypeOK'
<1> SUFFICES ASSUME TypeOK, [Next]_vars PROVE TypeOK'
  OBVIOUS
<1> USE DEF TypeOK
<1>1. CASE Boot
  BY <1>1, FireType DEF Boot, Events
<1>2. CASE Recover
  BY <1>2, FireType DEF Recover, Events
<1>3. CASE Interrupt
  BY <1>3 DEF Interrupt
<1>4. CASE Shutdown
  BY <1>4, FireType DEF Shutdown, Events
<1>5. ASSUME NEW c \in Calls, NEW t \in Tasks, Start(c, t) PROVE TypeOK'
  BY <1>5, FireType DEF Start, Events, Opening
<1>6. ASSUME NEW c \in Calls, NEW ending \in Endings, Finish(c, ending)
      PROVE  TypeOK'
  BY <1>6 DEF Finish
<1>7. ASSUME NEW c \in Calls, Close(c) PROVE TypeOK'
  <2>1. Closing(outcome[c]) \in Events
    BY <1>7 DEF Close, Closing, Events
  <2> QED
    BY <1>7, <2>1, FireType DEF Close
<1>8. ASSUME NEW c \in Calls, Escape(c) PROVE TypeOK'
  BY <1>8 DEF Escape
<1>9. CASE UNCHANGED vars
  BY <1>9 DEF vars
<1> QED
  BY <1>1, <1>2, <1>3, <1>4, <1>5, <1>6, <1>7, <1>8, <1>9 DEF Next

(* Every variable of the base class keeps its type. *)
THEOREM TypeCorrect == Spec => []TypeOK
<1>1. Init => TypeOK
  BY DEF Init, TypeOK
<1> QED
  BY <1>1, StepTypeOK, PTL DEF Spec

-----------------------------------------------------------------------------
(* The inductive invariant: besides ownership, that a process that is      *)
(* still booting has a node in boot, and that a node which is not          *)
(* initialized, or is being initialized, or has been cleaned up, holds     *)
(* nothing of an earlier initialization.                                   *)
NothingHeld ==
  /\ state \in {"boot", "not_initialized"} => ~initialized
  /\ \A c \in Calls :
       task[c] = "cleanup" /\ outcome[c] # "running" => ~initialized

IInv ==
  /\ TypeOK /\ SoleOwner /\ NotStranded
  /\ process = "booting" => state = "boot"
  /\ NothingHeld /\ FreshInitialization

(* The inductive invariant holds before the node has booted. *)
LEMMA InitIInv == Init => IInv
  BY DEF Init, IInv, TypeOK, SoleOwner, NotStranded, NothingHeld,
         FreshInitialization

(* Every step preserves the inductive invariant. *)
LEMMA StepIInv == IInv /\ [Next]_vars => IInv'
<1> SUFFICES ASSUME IInv, [Next]_vars PROVE IInv'
  OBVIOUS
<1>0. TypeOK'
  BY StepTypeOK DEF IInv
<1> USE DEF IInv, TypeOK, SoleOwner, NotStranded, NothingHeld,
            FreshInitialization
<1>1. CASE Boot
  <2>1. state = "boot" /\ state' = "not_initialized" /\ ~initialized
    BY <1>1 DEF Boot, Fire, Allowed, Sources, Target
  <2> QED
    BY <1>0, <1>1, <2>1, WorkingIsOperational DEF Boot
<1>2. CASE Recover
  <2>1. state' = "idle"
    BY <1>2 DEF Recover, Fire, Allowed, Sources, Target
  <2>2. \A c \in Calls : task[c] = "none"
    BY <1>2, WorkingIsOperational DEF Recover
  <2> QED
    BY <1>0, <1>2, <2>1, <2>2 DEF Recover
<1>3. CASE Interrupt
  BY <1>0, <1>3 DEF Interrupt
<1>4. CASE Shutdown
  <2>1. state \in Operational => state' = state
    BY <1>4, Others DEF Shutdown
  <2>2. state \notin Operational => \A c \in Calls : task[c] = "none"
    BY WorkingIsOperational
  <2> QED
    BY <1>0, <1>4, <2>1, <2>2 DEF Shutdown
<1>5. ASSUME NEW c \in Calls, NEW t \in Tasks, Start(c, t) PROVE IInv'
  <2>1. /\ state' = Working(t) /\ state' \in Operational
        /\ state \notin Operational
    BY <1>5, Openings, WorkingIsOperational DEF Start
  <2>2. \A d \in Calls : task[d] = "none"
    BY <2>1, WorkingIsOperational
  <2>3. task' = [d \in Calls |-> IF d = c THEN t ELSE "none"]
    BY <1>5, <2>2 DEF Start
  <2>4. t = "initialize" => ~initialized
    <3>1. t = "initialize" => state = "not_initialized"
      BY <1>5 DEF Start, Allowed, Sources, Opening
    <3> QED
      BY <3>1
  <2>5. outcome'[c] = "running" /\ initialized' = initialized
        /\ process' = process /\ process = "spinning"
    BY <1>5 DEF Start
  <2> QED
    BY <1>0, <2>1, <2>3, <2>4, <2>5
<1>6. ASSUME NEW c \in Calls, NEW ending \in Endings, Finish(c, ending)
      PROVE  IInv'
  <2>1. /\ UNCHANGED <<state, task, process>>
        /\ \A d \in Calls : d # c => task[d] = "none"
        /\ outcome'[c] # "running"
    BY <1>6 DEF Finish
  <2>2. task[c] = "cleanup" => initialized' = FALSE
    BY <1>6 DEF Finish
  <2>3. state \notin {"boot", "not_initialized"}
    BY <1>6, WorkingIsOperational DEF Finish
  <2> QED
    BY <1>0, <2>1, <2>2, <2>3
<1>7. ASSUME NEW c \in Calls, Close(c) PROVE IInv'
  <2>1. /\ state \in Operational /\ outcome[c] \in Endings
        /\ task' = [d \in Calls |-> "none"]
    BY <1>7, WorkingIsOperational DEF Close
  <2>2. /\ state' \in {"idle", "not_initialized", "error_recoverable", "error"}
        /\ process' = process
    BY <1>7, <2>1, Closings DEF Close
  <2>3. state' = "not_initialized" =>
          task[c] = "cleanup" /\ outcome[c] # "running"
    BY <1>7, <2>1
       DEF Close, Closing, Fire, Allowed, Sources, Target, Working
  <2>4. process # "booting"
    BY <2>1
  <2>5. initialized' = initialized
    BY <1>7 DEF Close
  <2> QED
    BY <1>0, <2>1, <2>2, <2>3, <2>4, <2>5
<1>8. ASSUME NEW c \in Calls, Escape(c) PROVE IInv'
  <2>1. task' = [d \in Calls |-> "none"]
    BY <1>8 DEF Escape
  <2>2. process' # "spinning" /\ process' # "booting" /\ state' = state
        /\ initialized' = initialized
    BY <1>8, WorkingIsOperational DEF Escape
  <2> QED
    BY <1>0, <2>1, <2>2
<1>9. CASE UNCHANGED vars
  BY <1>0, <1>9 DEF vars
<1> QED
  BY <1>1, <1>2, <1>3, <1>4, <1>5, <1>6, <1>7, <1>8, <1>9 DEF Next

(* IInv holds in every reachable state. *)
THEOREM Invariance == Spec => []IInv
  BY InitIInv, StepIInv, PTL DEF Spec

(* A handler that opened finds the node where it left it, so its closing   *)
(* event is allowed.                                                       *)
THEOREM SoleOwnership == Spec => []SoleOwner
  BY Invariance, PTL DEF IInv

(* A serving node is never stranded in an operational state. *)
THEOREM NeverStranded == Spec => []NotStranded
  BY Invariance, PTL DEF IInv

(* initialize_node() never runs on top of an earlier initialization. *)
THEOREM AlwaysFresh == Spec => []FreshInitialization
  BY Invariance, PTL DEF IInv

-----------------------------------------------------------------------------
(* Each step of the handlers is a step of the ownership protocol, or none  *)
(* of its business.                                                        *)
LEMMA StepRefines == IInv /\ [Next]_vars => [Owner!Next]_(Owner!vars)
<1> SUFFICES ASSUME IInv, [Next]_vars PROVE Owner!Next \/ UNCHANGED Owner!vars
  OBVIOUS
<1> DEFINE held(t) == {c \in Calls : t[c] # "none"}
<1> USE DEF IInv, TypeOK, SoleOwner
<1>1. ASSUME NEW c \in Calls, task[c] # "none"
      PROVE  held(task) = {c} /\ state \in Operational
  BY <1>1, WorkingIsOperational
<1>2. state \notin Operational => held(task) = {}
  BY WorkingIsOperational
<1>3. CASE Boot
  <2>1. state = "boot" /\ state' = "not_initialized" /\ task' = task
    BY <1>3 DEF Boot, Fire, Allowed, Sources, Target
  <2> QED
    BY <2>1 DEF Owner!vars
<1>4. CASE Recover
  <2>1. state = "error_recoverable" /\ state' = "idle" /\ task' = task
    BY <1>4 DEF Recover, Fire, Allowed, Sources, Target
  <2> QED
    BY <2>1 DEF Owner!vars
<1>5. CASE Interrupt
  BY <1>5 DEF Interrupt, Owner!vars
<1>6. CASE Shutdown
  <2>1. task' = task
    BY <1>6 DEF Shutdown
  <2>2. CASE state' = state
    BY <2>1, <2>2 DEF Owner!vars
  <2>3. CASE state' # state
    <3>1. state \notin Operational /\ state # "shutting_down"
          /\ state' = "shutting_down"
      BY <1>6, <2>3 DEF Shutdown, Fire, Allowed, Sources, Target
    <3>2. held(task) = {} /\ ~\E c \in Calls : task[c] # "none"
      BY <1>2, <3>1
    <3> QED
      BY <2>1, <3>1, <3>2 DEF Owner!Next, Owner!Close
  <2> QED
    BY <2>2, <2>3
<1>7. ASSUME NEW c \in Calls, NEW t \in Tasks, Start(c, t) PROVE Owner!Next
  <2>1. /\ state' \in Operational
        /\ state \notin Operational /\ state # "shutting_down"
    BY <1>7, Openings, WorkingIsOperational DEF Start
  <2>2. held(task) = {} /\ held(task') = {c}
    BY <1>2, <1>7, <2>1 DEF Start
  <2> QED
    BY <2>1, <2>2 DEF Owner!Next, Owner!Acquire
<1>8. ASSUME NEW c \in Calls, NEW ending \in Endings, Finish(c, ending)
      PROVE  UNCHANGED Owner!vars
  BY <1>8 DEF Finish, Owner!vars
<1>9. ASSUME NEW c \in Calls, Close(c) PROVE Owner!Next
  <2>1. held(task) = {c} /\ state \in Operational /\ held(task') = {}
    BY <1>1, <1>9 DEF Close
  <2>2. state' \in {"idle", "not_initialized", "error_recoverable", "error"}
    BY <1>9, <2>1, Closings DEF Close
  <2> QED
    BY <2>1, <2>2 DEF Owner!Next, Owner!Release
<1>10. ASSUME NEW c \in Calls, Escape(c) PROVE Owner!Next
  <2>1. held(task) = {c} /\ state \in Operational /\ held(task') = {}
        /\ state' = state
    BY <1>1, <1>10 DEF Escape
  <2> QED
    BY <2>1 DEF Owner!Next, Owner!Abandon
<1>11. CASE UNCHANGED vars
  BY <1>11 DEF vars, Owner!vars
<1> QED
  BY <1>3, <1>4, <1>5, <1>6, <1>7, <1>8, <1>9, <1>10, <1>11 DEF Next

(* The base class implements the ownership protocol. *)
THEOREM Refinement == Spec => ImplementsOwnership
<1>1. Init => Owner!Init
  BY DEF Init, Owner!Init
<1> QED
  BY <1>1, Invariance, StepRefines, PTL DEF Spec, ImplementsOwnership, Owner!Spec

-----------------------------------------------------------------------------
(* The camera and the vision node.                                         *)

(* A node is busy exactly while it serves one client. *)
OneScan ==
  /\ camera = "busy" <=> \E c \in Clients : pc[c] \in CameraWork
  /\ \A c, d \in Clients : pc[c] \in CameraWork /\ pc[d] \in CameraWork => c = d

OneProcessing ==
  /\ vision = "busy" <=> \E c \in Clients : pc[c] \in VisionWork
  /\ \A c, d \in Clients : pc[c] \in VisionWork /\ pc[d] \in VisionWork => c = d

(* A topic callback works on the scan it has taken or has read. *)
CallbacksOK ==
  \A t \in Topics, n \in Scans : callback[t][n].step # "none" =>
    callback[t][n].scan \in Scans

(* The latest scan has not reached the topic yet, is on its way to the     *)
(* vision node's data, or has become that data.                            *)
Still(t) == inbox[t] = 0 /\ Active(t) = {}

Arrived(t) == Still(t) /\ current[t] = [scan |-> scans, form |-> "ready"]

OnItsWay(t) ==
  \/ inbox[t] = scans /\ Active(t) = {}
  \/ /\ inbox[t] = 0 /\ Active(t) = {scans}
     /\ callback[t][scans].step = "stored" =>
          current[t] = [scan |-> scans, form |-> "raw"]
     /\ callback[t][scans].step = "read" => callback[t][scans].scan = scans
  \/ Arrived(t)

(* What becomes of the scan of a client that has the cell to itself. *)
Undisturbed(c) ==
  /\ pc[c] # "rest"
  /\ \A d \in Clients \ {c} : pc[d] \notin CameraWork \cup VisionWork
  /\ pc[c] \in {"texture", "pcd", "answer", "stop", "wait"} => scans # 0
  /\ pc[c] \in {"acquire", "fetch", "texture"} => Still("texture")
  /\ pc[c] \in {"acquire", "fetch", "texture", "pcd"} => Still("pcd")
  /\ visionUp /\ pc[c] \in {"pcd", "answer", "stop", "wait"} => OnItsWay("texture")
  /\ visionUp /\ pc[c] \in {"answer", "stop", "wait"} => OnItsWay("pcd")
  /\ pc[c] \in VisionWork => \A t \in Topics : Arrived(t)
  /\ pc[c] = "process" => \A t \in Topics : used[c][t] = [scan |-> scans, form |-> "ready"]

(* The inductive invariant of the two nodes. *)
ScanInv ==
  /\ ScanTypeOK /\ OneScan /\ OneProcessing /\ CallbacksOK /\ AcquirerStops
  /\ \A c \in Clients : alone[c] => Undisturbed(c)

-----------------------------------------------------------------------------
(* The events of the two nodes' handlers and services. *)
LEMMA ScanFires ==
  ASSUME NEW s \in NodeStates
  PROVE  /\ \A e \in Events : Fire(e, s) \in NodeStates
         /\ Allowed("start_operation", s) => s = "idle" /\ Fire("start_operation", s) = "busy"
         /\ s = "busy" => /\ Fire("complete", s) = "idle"
                          /\ Fire("fail_recoverable", s) = "error_recoverable"
                          /\ Fire("fail_non_recoverable", s) = "error"
         /\ s \in {"cleaning_up", "initializing"} =>
              \A e \in {"complete", "fail_recoverable", "fail_non_recoverable"} :
                Fire(e, s) # "busy"
         /\ \A e \in {"start_cleanup", "start_initialization", "retry_from_recoverable"} :
              Allowed(e, s) => s # "busy" /\ Fire(e, s) # "busy"
  BY DEF Events, Fire, Allowed, Sources, Target

(* What a step leaves alone of a topic stays on its way. *)
LEMMA Elsewhere ==
  ASSUME NEW t \in Topics, scans' = scans, inbox'[t] = inbox[t],
         callback'[t] = callback[t], current'[t] = current[t]
  PROVE  /\ Active(t)' = Active(t) /\ Still(t)' = Still(t) /\ Arrived(t)' = Arrived(t)
         /\ OnItsWay(t)' = OnItsWay(t)
<1>1. Active(t)' = Active(t)
  BY DEF Active
<1>2. Still(t)' = Still(t)
  BY <1>1 DEF Still
<1>3. Arrived(t)' = Arrived(t)
  BY <1>2 DEF Arrived
<1>4. OnItsWay(t)' = OnItsWay(t)
  BY <1>1, <1>3 DEF OnItsWay
<1> QED
  BY <1>1, <1>2, <1>3, <1>4

-----------------------------------------------------------------------------
(* The camera node.                                                        *)

(* A step of the camera or a client: what is to show. *)
LEMMA CameraStep ==
  ASSUME ScanInv, NEW c \in Clients, NEW label, Goto(c, label),
         UNCHANGED visionVars, inbox' \in [Topics -> 0..MaxScans],
         used' \in [Clients -> [Topics -> Data \cup {None}]],
         camera' \in NodeStates, ia' \in {"none", "created", "acquiring"},
         scans' \in 0..MaxScans, alone' \in [Clients -> BOOLEAN],
         label \in CameraWork \cup {"rest", "stop", "wait"}, pc[c] \notin VisionWork,
         OneScan', AcquirerStops',
         \A d \in Clients : alone'[d] => Undisturbed(d)'
  PROVE  ScanInv'
<1>1. pc' = [pc EXCEPT ![c] = label] /\ pc \in [Clients -> CameraWork \cup VisionWork \cup {"rest", "stop", "wait"}]
  BY DEF Goto, ScanInv, ScanTypeOK
<1>2. ScanTypeOK'
  BY <1>1 DEF ScanInv, ScanTypeOK, visionVars
<1>3. \A d \in Clients : pc'[d] \in VisionWork <=> pc[d] \in VisionWork
  BY <1>1 DEF VisionWork, CameraWork
<1>4. OneProcessing'
  BY <1>3 DEF ScanInv, OneProcessing, visionVars
<1>5. CallbacksOK'
  BY DEF ScanInv, CallbacksOK, visionVars
<1> QED
  BY <1>2, <1>4, <1>5 DEF ScanInv

(* A scan begins with the topics as they are: still, where its client is   *)
(* alone.                                                                  *)
LEMMA BeginsScan ==
  ASSUME ScanInv, NEW c \in Clients, Scan(c)
  PROVE  ScanInv'
<1>0. /\ pc \in [Clients -> CameraWork \cup VisionWork \cup {"rest", "stop", "wait"}]
      /\ camera \in NodeStates
  BY DEF ScanInv, ScanTypeOK
<1>1. /\ UNCHANGED <<ia, scans, visionVars, inbox, used>> /\ pc[c] = "rest"
      /\ pc' = [pc EXCEPT ![c] = "acquire"] /\ camera = "idle" /\ camera' = "busy"
      /\ alone' = [d \in Clients |-> d = c /\ Quiet]
  BY <1>0, ScanFires DEF Scan, Goto
<1>2. \A d \in Clients : pc[d] \notin CameraWork
  BY <1>1 DEF ScanInv, OneScan
<1>3. OneScan'
  BY <1>0, <1>1, <1>2 DEF OneScan, CameraWork
<1>4. AcquirerStops'
  BY <1>0, <1>1 DEF ScanInv, AcquirerStops
<1>5. ASSUME NEW d \in Clients, alone'[d] PROVE Undisturbed(d)'
  <2>1. d = c /\ Quiet /\ pc'[c] = "acquire"
    BY <1>0, <1>1, <1>5
  <2>2. \A t \in Topics : Still(t)'
    BY <1>1, <2>1, Elsewhere DEF Quiet, Still, visionVars, Active
  <2>3. \A e \in Clients \ {c} : pc'[e] = pc[e] /\ pc[e] \notin CameraWork \cup VisionWork
    BY <1>0, <1>1, <1>2, <2>1 DEF Quiet
  <2> QED
    BY <2>1, <2>2, <2>3 DEF Undisturbed, Topics, VisionWork
<1>6. /\ camera' \in NodeStates /\ ia' \in {"none", "created", "acquiring"}
      /\ scans' \in 0..MaxScans /\ alone' \in [Clients -> BOOLEAN]
  BY <1>1 DEF ScanInv, ScanTypeOK, Quiet
<1>7. "acquire" \in CameraWork \cup {"rest", "stop", "wait"} /\ pc[c] \notin VisionWork
  BY <1>1 DEF CameraWork, VisionWork
<1>8. Goto(c, "acquire") /\ UNCHANGED <<visionVars, inbox, used>>
  BY <1>1 DEF Goto
<1>9. inbox \in [Topics -> 0..MaxScans] /\ used \in [Clients -> [Topics -> Data \cup {None}]]
  BY DEF ScanInv, ScanTypeOK
<1> QED
  BY <1>3, <1>4, <1>5, <1>6, <1>7, <1>8, <1>9, CameraStep

(* A client at work on a scan or its data is alone in that, or nobody is. *)
LEMMA NobodyElse ==
  ASSUME ScanInv, NEW c \in Clients, NEW d \in Clients \ {c}, alone[d]
  PROVE  pc[c] \notin CameraWork \cup VisionWork
  BY DEF ScanInv, Undisturbed

(* The steps of a scan between its beginning and its answer. *)
LEMMA Scanning ==
  ASSUME ScanInv, NEW c \in Clients, Acquire(c) \/ Fetch(c)
  PROVE  ScanInv'
<1>0. /\ pc \in [Clients -> CameraWork \cup VisionWork \cup {"rest", "stop", "wait"}]
      /\ camera \in NodeStates /\ ia \in {"none", "created", "acquiring"}
      /\ scans \in 0..MaxScans /\ alone \in [Clients -> BOOLEAN]
  BY DEF ScanInv, ScanTypeOK
<1>1. PICK label \in {"fetch", "texture", "raised", "failed"} :
        /\ Goto(c, label) /\ pc' = [pc EXCEPT ![c] = label]
        /\ UNCHANGED <<camera, visionVars, inbox, used, alone>>
        /\ pc[c] \in {"acquire", "fetch"}
        /\ pc[c] = "fetch" => label # "failed"
        /\ label \in {"fetch", "texture", "raised"} => pc[c] = "fetch" \/ ia' = "acquiring"
        /\ ia' \in {"none", "created", "acquiring"}
        /\ label = "failed" => ia' = ia
        /\ label # "fetch" => ia' = ia
        /\ scans' = IF label = "texture" THEN scans + 1 ELSE scans
        /\ scans' \in 0..MaxScans
  BY <1>0, BoundAssumption DEF Acquire, Fetch, Goto
<1>2. OneScan'
  BY <1>0, <1>1 DEF ScanInv, OneScan, CameraWork
<1>3. AcquirerStops'
  BY <1>0, <1>1 DEF ScanInv, AcquirerStops
<1>4. ASSUME NEW d \in Clients, alone'[d] PROVE Undisturbed(d)'
  <2>1. d = c /\ Undisturbed(c)
    BY <1>1, <1>4, NobodyElse DEF ScanInv, CameraWork
  <2>2. \A t \in Topics : Still(t)'
    BY <1>1, <2>1 DEF Undisturbed, Still, Topics, Active, visionVars
  <2> QED
    BY <1>0, <1>1, <2>1, <2>2 DEF Undisturbed, Topics, VisionWork
<1>5. label \in CameraWork \cup {"rest", "stop", "wait"} /\ pc[c] \notin VisionWork
  BY <1>1 DEF CameraWork, VisionWork
<1>6. inbox \in [Topics -> 0..MaxScans] /\ used \in [Clients -> [Topics -> Data \cup {None}]]
  BY DEF ScanInv, ScanTypeOK
<1> QED
  BY <1>0, <1>1, <1>2, <1>3, <1>4, <1>5, <1>6, CameraStep

(* A message replaces the one that waits; a topic nothing is published on  *)
(* ends the client's claim.                                                *)
LEMMA Publishes ==
  ASSUME ScanInv, NEW c \in Clients, Publish(c)
  PROVE  ScanInv'
<1>0. /\ pc \in [Clients -> CameraWork \cup VisionWork \cup {"rest", "stop", "wait"}]
      /\ inbox \in [Topics -> 0..MaxScans] /\ scans \in 0..MaxScans /\ 0 \in 0..MaxScans
      /\ alone \in [Clients -> BOOLEAN] /\ camera \in NodeStates
      /\ ia \in {"none", "created", "acquiring"}
      /\ used \in [Clients -> [Topics -> Data \cup {None}]]
  BY BoundAssumption DEF ScanInv, ScanTypeOK
<1>1. PICK label \in {"pcd", "answer"} :
        /\ Goto(c, label) /\ pc' = [pc EXCEPT ![c] = label]
        /\ label = IF pc[c] = "texture" THEN "pcd" ELSE "answer"
        /\ UNCHANGED <<camera, ia, scans, visionVars, used>> /\ pc[c] \in Topics
  BY DEF Publish, Goto, cameraVars
<1>2. inbox' \in [Topics -> 0..MaxScans] /\ alone' \in [Clients -> BOOLEAN]
  BY <1>0, <1>1 DEF Publish
<1>3. OneScan'
  BY <1>0, <1>1 DEF ScanInv, OneScan, CameraWork, Topics
<1>4. AcquirerStops'
  BY <1>0, <1>1 DEF ScanInv, AcquirerStops, Topics
<1>5. ASSUME NEW d \in Clients, alone'[d] PROVE Undisturbed(d)'
  <2>1. d = c /\ Undisturbed(c)
    BY <1>0, <1>1, <1>5, NobodyElse DEF ScanInv, CameraWork, Topics, Publish
  <2>2. PICK t \in Topics : t = pc[c]
    BY <1>1
  <2>3. inbox' = [inbox EXCEPT ![t] = IF visionUp THEN scans ELSE 0]
    BY <1>0, <1>5, <2>1, <2>2 DEF Publish
  <2>4. visionUp => OnItsWay(t)'
    <3>1. Still(t)
      BY <2>1, <2>2 DEF Undisturbed, Topics
    <3>2. Active(t)' = Active(t) /\ Active(t) = {}
      BY <1>1, <3>1 DEF Still, Active, visionVars
    <3> QED
      BY <1>0, <1>1, <2>3, <3>2 DEF OnItsWay
  <2>5. \A u \in Topics \ {t} : Still(u)' = Still(u) /\ OnItsWay(u)' = OnItsWay(u)
    BY <1>0, <1>1, <2>3, Elsewhere DEF visionVars
  <2>6. visionUp' = visionUp /\ scans' = scans
    BY <1>1 DEF visionVars
  <2>7. t = "texture" => /\ pc'[c] = "pcd" /\ pc[c] = "texture"
    BY <1>0, <1>1, <2>2
  <2>8. t = "pcd" => /\ pc'[c] = "answer" /\ pc[c] = "pcd"
    BY <1>0, <1>1, <2>2
  <2>9. \A e \in Clients \ {c} : pc'[e] = pc[e]
    BY <1>0, <1>1
  <2> QED
    BY <2>1, <2>4, <2>5, <2>6, <2>7, <2>8, <2>9 DEF Undisturbed, Topics, VisionWork
<1>6. label \in CameraWork \cup {"rest", "stop", "wait"} /\ pc[c] \notin VisionWork
  BY <1>1 DEF CameraWork, VisionWork, Topics
<1> QED
  BY <1>0, <1>1, <1>2, <1>3, <1>4, <1>5, <1>6, CameraStep

(* The camera is free again before its client stops the acquirer. *)
LEMMA Answers ==
  ASSUME ScanInv, NEW c \in Clients, Answer(c) \/ Stop(c) \/ Fail(c) \/ Leave(c)
  PROVE  ScanInv'
<1>0. /\ pc \in [Clients -> CameraWork \cup VisionWork \cup {"rest", "stop", "wait"}]
      /\ inbox \in [Topics -> 0..MaxScans] /\ scans \in 0..MaxScans
      /\ alone \in [Clients -> BOOLEAN] /\ camera \in NodeStates
      /\ ia \in {"none", "created", "acquiring"}
      /\ used \in [Clients -> [Topics -> Data \cup {None}]]
  BY DEF ScanInv, ScanTypeOK
<1>1. PICK label \in {"stop", "raised", "failed", "wait", "rest"} :
        /\ Goto(c, label) /\ pc' = [pc EXCEPT ![c] = label]
        /\ UNCHANGED <<scans, visionVars, inbox>>
        /\ pc[c] = "answer" => label \in {"stop", "raised"} /\ ia' = ia
        /\ pc[c] # "answer" => label \in {"failed", "wait", "rest"}
        /\ pc[c] \in {"answer", "stop", "raised", "failed", "wait"}
        /\ pc[c] = "stop" => label = "wait"
        /\ pc[c] = "raised" => label = "failed"
        /\ pc[c] \in {"failed", "wait"} => label = "rest" /\ ia' = ia
  BY DEF Answer, Stop, Fail, Leave, Return, Goto, cameraVars
<1>2. /\ pc[c] = "answer" /\ label = "raised" => camera' \in {camera, Fire("complete", camera)}
      /\ pc[c] = "answer" => camera' = IF label = "stop" THEN Fire("complete", camera) ELSE camera
      /\ pc[c] = "failed" => camera' = Fire("fail_non_recoverable", camera)
      /\ pc[c] \in {"stop", "raised", "wait"} => camera' = camera
      /\ pc[c] \in {"stop", "raised"} => ia' # "acquiring"
      /\ ia' \in {"none", "created", "acquiring"}
  BY <1>0, <1>1 DEF Answer, Stop, Fail, Leave, Return, Goto, cameraVars
<1>3. /\ alone' \in [Clients -> BOOLEAN] /\ used' \in [Clients -> [Topics -> Data \cup {None}]]
      /\ \A d \in Clients : alone'[d] => alone[d] /\ (d = c => label # "rest" /\ used' = used)
      /\ \A d \in Clients \ {c} : used'[d] = used[d]
  BY <1>0, <1>1 DEF Answer, Stop, Fail, Leave, Return
<1>4. pc[c] \in CameraWork => camera = "busy"
  BY DEF ScanInv, OneScan
<1>5. camera' \in NodeStates
  BY <1>0, <1>1, <1>2, ScanFires DEF Events
<1>6. OneScan'
  BY <1>0, <1>1, <1>2, <1>4, ScanFires DEF ScanInv, OneScan, CameraWork
<1>7. AcquirerStops'
  BY <1>0, <1>1, <1>2 DEF ScanInv, AcquirerStops
<1>8. ASSUME NEW d \in Clients, alone'[d] PROVE Undisturbed(d)'
  <2>1. Undisturbed(d) /\ visionUp' = visionUp
    BY <1>1, <1>3, <1>8 DEF ScanInv, visionVars
  <2>2. \A t \in Topics : Still(t)' = Still(t) /\ OnItsWay(t)' = OnItsWay(t)
                          /\ Arrived(t)' = Arrived(t)
    BY <1>1, Elsewhere DEF visionVars
  <2>3. d # c => pc'[d] = pc[d] /\ used'[d] = used[d] /\ pc'[c] \notin CameraWork \cup VisionWork
    BY <1>0, <1>1, <1>3, <1>8, NobodyElse DEF CameraWork, VisionWork
  <2>4. CASE d # c
    BY <1>0, <1>1, <2>1, <2>2, <2>3, <2>4 DEF Undisturbed, Topics
  <2>5. CASE d = c
    BY <1>0, <1>1, <1>3, <1>8, <2>1, <2>2, <2>5 DEF Undisturbed, Topics, VisionWork
  <2> QED
    BY <2>4, <2>5
<1>9. label \in CameraWork \cup {"rest", "stop", "wait"} /\ pc[c] \notin VisionWork
  BY <1>1 DEF CameraWork, VisionWork
<1> QED
  BY <1>0, <1>1, <1>2, <1>3, <1>5, <1>6, <1>7, <1>8, <1>9, CameraStep

(* The lifecycle services of both nodes interfere with no client. *)
LEMMA Administers ==
  ASSUME ScanInv, AdministerCamera \/ AdministerVision
  PROVE  ScanInv'
<1>0. /\ camera \in NodeStates /\ vision \in NodeStates
      /\ ia \in {"none", "created", "acquiring"}
  BY DEF ScanInv, ScanTypeOK
<1>1. UNCHANGED <<scans, visionUp, callback, current, received, inbox, clientVars>>
  BY DEF AdministerCamera, AdministerVision, visionVars, cameraVars
<1>2. /\ camera' \in NodeStates /\ (camera' = "busy" <=> camera = "busy")
      /\ vision' \in NodeStates /\ (vision' = "busy" <=> vision = "busy")
      /\ ia' \in {"none", "created", ia}
  <2>1. CASE AdministerCamera
    BY <1>0, <2>1, ScanFires DEF AdministerCamera, visionVars, Events
  <2>2. CASE AdministerVision
    BY <1>0, <2>2, ScanFires DEF AdministerVision, cameraVars, Events
  <2> QED
    BY <2>1, <2>2
<1>3. ScanTypeOK'
  BY <1>0, <1>1, <1>2 DEF ScanInv, ScanTypeOK, clientVars
<1>4. OneScan' /\ OneProcessing' /\ CallbacksOK' /\ AcquirerStops'
  BY <1>1, <1>2 DEF ScanInv, OneScan, OneProcessing, CallbacksOK, AcquirerStops, clientVars
<1>5. \A t \in Topics : /\ Still(t)' = Still(t) /\ OnItsWay(t)' = OnItsWay(t)
                        /\ Arrived(t)' = Arrived(t)
  BY <1>1, Elsewhere
<1>6. \A c \in Clients : alone'[c] => Undisturbed(c)'
  BY <1>1, <1>5 DEF ScanInv, Undisturbed, clientVars, Topics
<1> QED
  BY <1>3, <1>4, <1>6 DEF ScanInv

-----------------------------------------------------------------------------
(* The vision node. *)

(* A step of a processing request: what is to show. *)
LEMMA RequestStep ==
  ASSUME ScanInv, NEW c \in Clients, NEW label, Goto(c, label),
         UNCHANGED <<cameraVars, visionUp, callback, received, inbox>>,
         vision' \in NodeStates, current' \in [Topics -> Data \cup {None}],
         used' \in [Clients -> [Topics -> Data \cup {None}]],
         alone' \in [Clients -> BOOLEAN],
         label \in VisionWork \cup {"rest"}, pc[c] \in VisionWork \cup {"rest", "wait"},
         OneProcessing',
         \A d \in Clients : alone'[d] => Undisturbed(d)'
  PROVE  ScanInv'
<1>1. /\ pc' = [pc EXCEPT ![c] = label]
      /\ pc \in [Clients -> CameraWork \cup VisionWork \cup {"rest", "stop", "wait"}]
  BY DEF Goto, ScanInv, ScanTypeOK
<1>2. ScanTypeOK'
  BY <1>1 DEF ScanInv, ScanTypeOK, cameraVars
<1>3. \A d \in Clients : pc'[d] = pc[d] \/ (d = c /\ pc'[d] \in VisionWork \cup {"rest"})
  BY <1>1
<1>4. OneScan' /\ AcquirerStops'
  BY <1>1, <1>3 DEF ScanInv, OneScan, AcquirerStops, cameraVars, VisionWork, CameraWork
<1>5. CallbacksOK'
  BY DEF ScanInv, CallbacksOK, cameraVars
<1> QED
  BY <1>2, <1>4, <1>5 DEF ScanInv

(* A client that asks with the cell to itself asks when all is there. *)
LEMMA Asks ==
  ASSUME ScanInv, NEW c \in Clients, Ask(c)
  PROVE  ScanInv'
<1>0. /\ pc \in [Clients -> CameraWork \cup VisionWork \cup {"rest", "stop", "wait"}]
      /\ vision \in NodeStates /\ current \in [Topics -> Data \cup {None}]
      /\ used \in [Clients -> [Topics -> Data \cup {None}]]
      /\ alone \in [Clients -> BOOLEAN]
  BY DEF ScanInv, ScanTypeOK
<1>1. /\ UNCHANGED <<cameraVars, visionUp, callback, received, inbox, current, used>>
      /\ pc[c] \in {"rest", "wait"} /\ pc' = [pc EXCEPT ![c] = "look"]
      /\ vision = "idle" /\ vision' = "busy" /\ visionUp
      /\ alone' = [d \in Clients |-> alone[d] /\ d = c /\ pc[c] = "wait" /\ Quiet]
  BY <1>0, ScanFires DEF Ask, Goto
<1>2. OneProcessing'
  BY <1>0, <1>1 DEF ScanInv, OneProcessing, VisionWork
<1>3. ASSUME NEW d \in Clients, alone'[d] PROVE Undisturbed(d)'
  <2>1. d = c /\ alone[c] /\ pc[c] = "wait" /\ Quiet
    BY <1>0, <1>1, <1>3
  <2>2. Undisturbed(c) /\ pc'[c] = "look"
    BY <1>0, <1>1, <2>1 DEF ScanInv
  <2>3. ASSUME NEW t \in Topics PROVE Arrived(t)'
    <3>1. OnItsWay(t) /\ inbox[t] = 0 /\ Active(t) = {}
      BY <1>1, <2>1, <2>2 DEF Undisturbed, Quiet, Topics
    <3>2. scans # 0 => Arrived(t)
      BY <3>1 DEF OnItsWay
    <3>3. scans # 0
      BY <2>1, <2>2 DEF Undisturbed
    <3> QED
      BY <1>1, <3>2, <3>3, Elsewhere DEF cameraVars
  <2> QED
    BY <1>0, <1>1, <2>1, <2>2, <2>3 DEF Undisturbed, VisionWork
<1>4. "look" \in VisionWork \cup {"rest"} /\ pc[c] \in VisionWork \cup {"rest", "wait"}
  BY <1>1 DEF VisionWork
<1>5. Goto(c, "look") /\ alone' \in [Clients -> BOOLEAN]
  BY <1>0, <1>1 DEF Goto, Quiet
<1> QED
  BY <1>0, <1>1, <1>2, <1>3, <1>4, <1>5, RequestStep

(* What the request takes is what has arrived. *)
LEMMA Looks ==
  ASSUME ScanInv, NEW c \in Clients, Look(c) \/ Process(c)
  PROVE  ScanInv'
<1>0. /\ pc \in [Clients -> CameraWork \cup VisionWork \cup {"rest", "stop", "wait"}]
      /\ vision \in NodeStates /\ current \in [Topics -> Data \cup {None}]
      /\ used \in [Clients -> [Topics -> Data \cup {None}]]
      /\ alone \in [Clients -> BOOLEAN]
  BY DEF ScanInv, ScanTypeOK
<1>1. /\ UNCHANGED <<cameraVars, visionUp, callback, received, inbox>>
      /\ pc[c] \in VisionWork /\ vision = "busy"
      /\ \A d \in Clients \ {c} : ~alone[d] /\ pc[d] \notin VisionWork
  BY NobodyElse DEF Look, Process, VisionWork, ScanInv, OneProcessing
<1>2. CASE /\ Goto(c, "process") /\ pc[c] = "look"
           /\ used' = [used EXCEPT ![c] = current] /\ UNCHANGED <<vision, alone, current>>
  <2>1. OneProcessing'
    BY <1>0, <1>1, <1>2 DEF ScanInv, OneProcessing, VisionWork, Goto
  <2>2. ASSUME NEW d \in Clients, alone'[d] PROVE Undisturbed(d)'
    <3>1. d = c /\ Undisturbed(c) /\ pc'[c] = "process" /\ used'[c] = current
      BY <1>0, <1>1, <1>2, <2>2 DEF ScanInv, Goto
    <3>2. \A t \in Topics : Arrived(t) /\ Arrived(t)' /\ scans' = scans
      BY <1>1, <1>2, <3>1, Elsewhere DEF Undisturbed, cameraVars
    <3>3. \A t \in Topics : used'[c][t] = [scan |-> scans', form |-> "ready"]
      BY <3>1, <3>2 DEF Arrived
    <3>4. \A e \in Clients \ {c} : pc'[e] = pc[e]
      BY <1>0, <1>2 DEF Goto
    <3> QED
      BY <3>1, <3>2, <3>3, <3>4 DEF Undisturbed, VisionWork
  <2>3. /\ "process" \in VisionWork \cup {"rest"} /\ pc[c] \in VisionWork \cup {"rest", "wait"}
        /\ used' \in [Clients -> [Topics -> Data \cup {None}]]
    BY <1>0, <1>1, <1>2 DEF VisionWork
  <2> QED
    BY <1>0, <1>1, <1>2, <2>1, <2>2, <2>3, RequestStep
<1>3. CASE Return(c) /\ vision' \in NodeStates \ {"busy"}
           /\ current' \in [Topics -> Data \cup {None}]
  <2>1. /\ pc' = [pc EXCEPT ![c] = "rest"] /\ alone' = [alone EXCEPT ![c] = FALSE]
        /\ used' \in [Clients -> [Topics -> Data \cup {None}]]
    BY <1>0, <1>3 DEF Return, Goto
  <2>2. OneProcessing'
    BY <1>0, <1>1, <1>3, <2>1 DEF OneProcessing, VisionWork
  <2>3. \A d \in Clients : ~alone'[d]
    BY <1>0, <1>1, <2>1
  <2>4. "rest" \in VisionWork \cup {"rest"} /\ pc[c] \in VisionWork \cup {"rest", "wait"}
    BY <1>1
  <2> QED
    BY <1>0, <1>1, <1>3, <2>1, <2>2, <2>3, <2>4, RequestStep DEF Return
<1>4. CASE Look(c)
  BY <1>0, <1>1, <1>2, <1>3, <1>4, ScanFires DEF Look
<1>5. CASE Process(c)
  BY <1>0, <1>1, <1>3, <1>5, ScanFires DEF Process
<1> QED
  BY <1>4, <1>5

-----------------------------------------------------------------------------
(* The topic callbacks.                                                    *)

(* A step of a topic callback: what is to show.  The topic is not still,   *)
(* so only a client whose scan is on its way there is concerned.           *)
LEMMA CallbackStep ==
  ASSUME ScanInv, NEW t \in Topics, ~Still(t),
         UNCHANGED <<cameraVars, vision, visionUp, clientVars>>,
         \A u \in Topics \ {t} : /\ inbox'[u] = inbox[u] /\ callback'[u] = callback[u]
                                 /\ current'[u] = current[u],
         ScanTypeOK', CallbacksOK', OnItsWay(t) => OnItsWay(t)'
  PROVE  ScanInv'
<1>1. OneScan' /\ OneProcessing' /\ AcquirerStops'
  BY DEF ScanInv, OneScan, OneProcessing, AcquirerStops, cameraVars, clientVars
<1>2. ASSUME NEW c \in Clients, alone'[c] PROVE Undisturbed(c)'
  <2>1. Undisturbed(c)
    BY <1>2 DEF ScanInv, clientVars
  <2>2. \A u \in Topics \ {t} : /\ Still(u)' = Still(u) /\ OnItsWay(u)' = OnItsWay(u)
                                /\ Arrived(u)' = Arrived(u)
    BY Elsewhere DEF cameraVars
  <2>3. ~Arrived(t)
    BY DEF Arrived
  <2> QED
    BY <2>1, <2>2, <2>3 DEF Undisturbed, Topics, cameraVars, clientVars
<1> QED
  BY <1>1, <1>2 DEF ScanInv

(* A message that is taken is its callback's.                              *)
LEMMA Takes ==
  ASSUME ScanInv, NEW t \in Topics, Take(t)
  PROVE  ScanInv'
<1>0. /\ inbox \in [Topics -> 0..MaxScans] /\ 0 \in 0..MaxScans
      /\ callback \in [Topics -> [Scans ->
           [step : {"none", "taken", "stored", "read"}, scan : 0..MaxScans]]]
      /\ inbox[t] \in Scans /\ ~Still(t)
  BY BoundAssumption DEF ScanInv, ScanTypeOK, Take, Scans, Still
<1>1. PICK n \in Scans : n = inbox[t]
  BY <1>0
<1>2. /\ callback' = [callback EXCEPT ![t][n] = [step |-> "taken", scan |-> n]]
      /\ inbox' = [inbox EXCEPT ![t] = 0] /\ visionUp
      /\ UNCHANGED <<cameraVars, vision, visionUp, current, received, clientVars>>
  BY <1>1 DEF Take
<1>3. /\ callback' \in [Topics -> [Scans ->
           [step : {"none", "taken", "stored", "read"}, scan : 0..MaxScans]]]
      /\ inbox' \in [Topics -> 0..MaxScans]
  BY <1>0, <1>2 DEF Scans
<1>4. ScanTypeOK'
  BY <1>2, <1>3 DEF ScanInv, ScanTypeOK, cameraVars, clientVars
<1>5. \A m \in Scans : callback'[t][m] = IF m = n THEN [step |-> "taken", scan |-> n]
                                                  ELSE callback[t][m]
  BY <1>0, <1>2
<1>6. \A u \in Topics \ {t} : /\ inbox'[u] = inbox[u] /\ callback'[u] = callback[u]
                              /\ current'[u] = current[u]
  BY <1>0, <1>2
<1>7. CallbacksOK'
  BY <1>5, <1>6 DEF ScanInv, CallbacksOK
<1>8. ASSUME OnItsWay(t) PROVE OnItsWay(t)'
  <2>1. n = scans /\ Active(t) = {} /\ scans' = scans
    BY <1>0, <1>1, <1>2, <1>8 DEF OnItsWay, Arrived, Still, Scans, cameraVars
  <2>2. Active(t)' = {n}
    BY <1>5, <2>1 DEF Active
  <2>3. inbox'[t] = 0 /\ callback'[t][scans'].step = "taken"
    BY <1>0, <1>2, <1>5, <2>1
  <2> QED
    BY <2>1, <2>2, <2>3 DEF OnItsWay
<1> QED
  BY <1>0, <1>2, <1>4, <1>6, <1>7, <1>8, CallbackStep

(* What a callback stores, reads and stores again is its own scan where    *)
(* that scan is the only one on its way.                                   *)
LEMMA Converting ==
  ASSUME ScanInv, NEW t \in Topics, NEW n \in Scans,
         Store(t, n) \/ (Read(t, n) /\ Converts(t)) \/ StoreReady(t, n)
  PROVE  ScanInv'
<1>0. /\ inbox \in [Topics -> 0..MaxScans]
      /\ callback \in [Topics -> [Scans ->
           [step : {"none", "taken", "stored", "read"}, scan : 0..MaxScans]]]
      /\ current \in [Topics -> Data \cup {None}] /\ received \in [Topics -> BOOLEAN]
      /\ callback[t][n].step # "none" /\ n \in Active(t) /\ ~Still(t)
  BY DEF ScanInv, ScanTypeOK, Store, Read, StoreReady, Still, Active
<1>1. PICK entry \in [step : {"none", "stored", "read"}, scan : 0..MaxScans] :
        /\ callback' = [callback EXCEPT ![t][n] = entry]
        /\ entry.step # "none" => entry.scan \in Scans
        /\ Store(t, n) => entry.step = "stored"
        /\ Read(t, n) => entry = [step |-> "read", scan |-> current[t].scan]
        /\ StoreReady(t, n) => entry = Idle
  <2>1. CASE Store(t, n)
    <3> DEFINE entry == [callback[t][n] EXCEPT !.step = "stored"]
    <3>1. entry \in [step : {"none", "stored", "read"}, scan : 0..MaxScans]
      BY <1>0
    <3>2. entry.scan \in Scans /\ entry.step = "stored" /\ entry # Idle
      BY <1>0 DEF ScanInv, CallbacksOK, Idle
    <3>3. callback' = [callback EXCEPT ![t][n] = entry]
      BY <1>0, <2>1 DEF Store
    <3> QED
      BY <2>1, <3>1, <3>2, <3>3 DEF Store, Read, StoreReady
  <2>2. CASE Read(t, n) /\ Converts(t)
    <3>1. current[t].scan \in Scans
      BY <1>0, <2>2 DEF Converts, Data, None
    <3> DEFINE entry == [step |-> "read", scan |-> current[t].scan]
    <3>2. entry \in [step : {"none", "stored", "read"}, scan : 0..MaxScans]
      BY <3>1 DEF Scans
    <3>3. callback' = [callback EXCEPT ![t][n] = entry]
      BY <2>2 DEF Read
    <3>4. ~Store(t, n) /\ ~StoreReady(t, n)
      BY <2>2 DEF Store, Read, StoreReady
    <3> WITNESS entry \in [step : {"none", "stored", "read"}, scan : 0..MaxScans]
    <3> QED
      BY <3>1, <3>3, <3>4
  <2>3. CASE StoreReady(t, n)
    <3>1. Idle \in [step : {"none", "stored", "read"}, scan : 0..MaxScans]
      BY BoundAssumption DEF Idle
    <3>2. callback' = [callback EXCEPT ![t][n] = Idle] /\ ~Store(t, n) /\ ~Read(t, n)
      BY <2>3 DEF Store, Read, StoreReady
    <3> WITNESS Idle \in [step : {"none", "stored", "read"}, scan : 0..MaxScans]
    <3> QED
      BY <3>2 DEF Idle
  <2> QED
    BY <2>1, <2>2, <2>3
<1>2. /\ UNCHANGED <<cameraVars, vision, visionUp, inbox, clientVars>>
      /\ received' \in [Topics -> BOOLEAN]
      /\ Store(t, n) => current' = [current EXCEPT ![t] = [scan |-> n, form |-> "raw"]]
      /\ Read(t, n) => current' = current
      /\ StoreReady(t, n) =>
           current' = [current EXCEPT ![t] = [scan |-> callback[t][n].scan, form |-> "ready"]]
  BY <1>0 DEF Store, Read, StoreReady
<1>3. callback[t][n].scan \in Scans
  BY <1>0 DEF ScanInv, CallbacksOK
<1>4. /\ callback' \in [Topics -> [Scans ->
           [step : {"none", "taken", "stored", "read"}, scan : 0..MaxScans]]]
      /\ current' \in [Topics -> Data \cup {None}]
  <2>1. [callback[t] EXCEPT ![n] = entry] \in
          [Scans -> [step : {"none", "taken", "stored", "read"}, scan : 0..MaxScans]]
    BY <1>0
  <2>2. \A form \in {"raw", "ready"}, m \in Scans : [scan |-> m, form |-> form] \in Data
    BY DEF Data
  <2> QED
    BY <1>0, <1>1, <1>2, <1>3, <2>1, <2>2
<1>5. ScanTypeOK'
  BY <1>2, <1>4 DEF ScanInv, ScanTypeOK, cameraVars, clientVars
<1>6. \A m \in Scans : callback'[t][m] = IF m = n THEN entry ELSE callback[t][m]
  BY <1>0, <1>1
<1>7. \A u \in Topics \ {t} : /\ inbox'[u] = inbox[u] /\ callback'[u] = callback[u]
                              /\ current'[u] = current[u]
  BY <1>0, <1>1, <1>2
<1>8. CallbacksOK'
  BY <1>1, <1>6, <1>7 DEF ScanInv, CallbacksOK
<1>9. ASSUME OnItsWay(t) PROVE OnItsWay(t)'
  <2>1. /\ inbox[t] = 0 /\ Active(t) = {scans} /\ n = scans
        /\ scans' = scans /\ inbox' = inbox
        /\ callback[t][n].step = "stored" => current[t] = [scan |-> n, form |-> "raw"]
        /\ callback[t][n].step = "read" => callback[t][n].scan = n
    BY <1>0, <1>2, <1>9 DEF OnItsWay, Arrived, Still, cameraVars
  <2>2. CASE entry.step # "none"
    <3>1. Active(t)' = {n}
      BY <1>0, <1>6, <2>1, <2>2 DEF Active
    <3>2. entry.step = "stored" => Store(t, n)
      BY <1>1, <2>2 DEF Idle
    <3>3. entry.step = "read" => Read(t, n) /\ entry.scan = n
      BY <1>1, <2>1, <2>2 DEF Idle, Read
    <3> QED
      BY <1>0, <1>2, <1>6, <2>1, <2>2, <3>1, <3>2, <3>3 DEF OnItsWay
  <2>3. CASE entry.step = "none"
    <3>1. Active(t)' = {}
      BY <1>0, <1>6, <2>1, <2>3 DEF Active
    <3>2. StoreReady(t, n) /\ callback[t][n].step = "read"
      BY <1>1, <2>3 DEF StoreReady
    <3>3. current'[t] = [scan |-> n, form |-> "ready"]
      BY <1>0, <1>2, <2>1, <3>2
    <3> QED
      BY <2>1, <3>1, <3>3 DEF OnItsWay, Arrived, Still
  <2> QED
    BY <2>2, <2>3
<1> QED
  BY <1>0, <1>2, <1>5, <1>7, <1>8, <1>9, CallbackStep

(* A process that ends keeps no claim, and takes no client off the camera. *)
LEMMA Dies ==
  ASSUME ScanInv, Die, UNCHANGED cameraVars
  PROVE  ScanInv'
<1>0. /\ pc \in [Clients -> CameraWork \cup VisionWork \cup {"rest", "stop", "wait"}]
      /\ 0 \in 0..MaxScans
  BY BoundAssumption DEF ScanInv, ScanTypeOK
<1>1. \A c \in Clients : /\ pc'[c] \notin VisionWork /\ ~alone'[c]
                         /\ pc[c] \notin VisionWork => pc'[c] = pc[c]
                         /\ pc[c] \in VisionWork => pc'[c] = "rest"
  BY <1>0 DEF Die, VisionWork
<1>2. Idle \in [step : {"none", "taken", "stored", "read"}, scan : 0..MaxScans]
  BY <1>0 DEF Idle
<1>3. ScanTypeOK'
  BY <1>0, <1>2 DEF ScanInv, ScanTypeOK, Die, cameraVars
<1>4. OneScan' /\ AcquirerStops'
  BY <1>0, <1>1 DEF ScanInv, OneScan, AcquirerStops, cameraVars, VisionWork, CameraWork
<1>5. OneProcessing'
  BY <1>1 DEF OneProcessing, Die
<1>6. CallbacksOK'
  BY DEF CallbacksOK, Die, Idle
<1> QED
  BY <1>1, <1>3, <1>4, <1>5, <1>6 DEF ScanInv

-----------------------------------------------------------------------------
(* It holds before anything has been initialized.                          *)
LEMMA ScanStarts ==
  ASSUME ScanInit PROVE ScanInv
<1>1. 0 \in 0..MaxScans /\ Idle \in [step : {"none", "taken", "stored", "read"}, scan : 0..MaxScans]
  BY BoundAssumption DEF Idle
<1>2. ScanTypeOK
  BY <1>1 DEF ScanInit, ScanTypeOK
<1> QED
  BY <1>2 DEF ScanInit, ScanInv, OneScan, OneProcessing, CallbacksOK, AcquirerStops,
              CameraWork, VisionWork, Idle

(* Every step of the two nodes and their clients preserves it.             *)
LEMMA ScanPreserves ==
  ASSUME ScanInv, [ScanNext]_scanVars PROVE ScanInv'
<1>1. ASSUME NEW c \in Clients, Scan(c) PROVE ScanInv'
  BY <1>1, BeginsScan
<1>2. ASSUME NEW c \in Clients, ScanStep(c) PROVE ScanInv'
  BY <1>2, Scanning, Publishes, Answers DEF ScanStep
<1>3. ASSUME NEW c \in Clients, Ask(c) PROVE ScanInv'
  BY <1>3, Asks
<1>4. ASSUME NEW c \in Clients, VisionStep(c) PROVE ScanInv'
  BY <1>4, Looks DEF VisionStep
<1>5. ASSUME NEW c \in Clients, Leave(c) PROVE ScanInv'
  BY <1>5, Answers
<1>6. ASSUME NEW t \in Topics, Convert(t) PROVE ScanInv'
  <2>1. CASE Take(t)
    BY <2>1, Takes
  <2>2. ASSUME NEW n \in Scans, Read(t, n), ~Converts(t) PROVE ScanInv'
    BY <2>2, Dies DEF Read
  <2> QED
    BY <1>6, <2>1, <2>2, Converting DEF Convert
<1>7. CASE AdministerCamera \/ AdministerVision
  BY <1>7, Administers
<1>8. CASE UNCHANGED scanVars
  <2>1. \A t \in Topics : /\ Still(t)' = Still(t) /\ OnItsWay(t)' = OnItsWay(t)
                          /\ Arrived(t)' = Arrived(t)
    BY <1>8, Elsewhere DEF scanVars, cameraVars, visionVars
  <2>2. \A c \in Clients : Undisturbed(c)' = Undisturbed(c)
    BY <1>8, <2>1 DEF Undisturbed, scanVars, clientVars, cameraVars, visionVars, Topics
  <2> QED
    BY <1>8, <2>2 DEF ScanInv, ScanTypeOK, OneScan, OneProcessing, CallbacksOK, AcquirerStops,
                      scanVars, clientVars, cameraVars, visionVars
<1> QED
  BY <1>1, <1>2, <1>3, <1>4, <1>5, <1>6, <1>7, <1>8 DEF ScanNext

(* It is an invariant of the two nodes.                                    *)
THEOREM ScanInvariance == ScanSpec => []ScanInv
<1> QED
  BY ScanStarts, ScanPreserves, PTL DEF ScanSpec

(* The two nodes are type correct.                                         *)
THEOREM ScanTypeCorrect == ScanSpec => []ScanTypeOK
<1>1. ScanInv => ScanTypeOK
  BY DEF ScanInv
<1> QED
  BY <1>1, ScanInvariance, PTL

(* A client that has the cell to itself has its own scan processed.        *)
THEOREM ScansAreOwn == ScanSpec => []OwnScan
<1>1. ScanInv => OwnScan
  BY DEF ScanInv, OwnScan, Undisturbed
<1> QED
  BY <1>1, ScanInvariance, PTL

(* The acquirer runs only for a scan that is going to stop it.             *)
THEOREM AcquirerIsStopped == ScanSpec => []AcquirerStops
<1>1. ScanInv => AcquirerStops
  BY DEF ScanInv
<1> QED
  BY <1>1, ScanInvariance, PTL

-----------------------------------------------------------------------------
(* The ownership protocol, as the camera and the vision node keep it: a    *)
(* scan or a processing request holds its node as long as a handler works  *)
(* on it, and a lifecycle service does, which is taken for one more call.  *)
(* The vision node closes when an exception in a topic callback ends its   *)
(* process.                                                                *)
Serviced(node) == IF node \in {"initializing", "cleaning_up"} THEN {"service"} ELSE {}

CameraHolders == {c \in Clients : pc[c] \in CameraWork} \cup Serviced(camera)
VisionHolders == {c \in Clients : pc[c] \in VisionWork} \cup Serviced(vision)

CameraOwner == INSTANCE Ownership WITH
  Callers <- Clients \cup {"service"},
  holders <- CameraHolders,
  mode <- IF camera \in Operational THEN "held" ELSE "free"

VisionOwner == INSTANCE Ownership WITH
  Callers <- Clients \cup {"service"},
  holders <- VisionHolders,
  mode <- IF ~visionUp THEN "closed"
            ELSE IF vision \in Operational THEN "held" ELSE "free"

(* A step that leaves the camera in operation leaves it to the same call.  *)
LEMMA CameraKept ==
  ASSUME ScanInv, [ScanNext]_scanVars, camera \in Operational, camera' \in Operational
  PROVE  /\ camera' = camera
         /\ \A c \in Clients : pc[c] \in CameraWork => pc'[c] \in CameraWork
<1>0. /\ pc \in [Clients -> CameraWork \cup VisionWork \cup {"rest", "stop", "wait"}]
      /\ camera \in NodeStates
  BY DEF ScanInv, ScanTypeOK
<1>1. \A c \in Clients : pc[c] \in CameraWork => camera = "busy"
  BY DEF ScanInv, OneScan
<1>2. ASSUME NEW c \in Clients, Scan(c) PROVE FALSE
  BY <1>2 DEF Scan, Allowed, Sources
<1>3. ASSUME NEW c \in Clients, Acquire(c) \/ Fetch(c) \/ Publish(c)
      PROVE  /\ camera' = camera
             /\ \A d \in Clients : pc[d] \in CameraWork => pc'[d] \in CameraWork
  BY <1>0, <1>3 DEF Acquire, Fetch, Publish, Goto, cameraVars, CameraWork
<1>4. ASSUME NEW c \in Clients, Answer(c) \/ Stop(c) \/ Fail(c) \/ Leave(c)
      PROVE  /\ camera' = camera
             /\ \A d \in Clients : pc[d] \in CameraWork => pc'[d] \in CameraWork
  <2>1. camera = "busy" => Fire("complete", camera) \notin Operational
                           /\ Fire("fail_non_recoverable", camera) \notin Operational
    BY DEF Fire, Allowed, Sources, Target
  <2> QED
    BY <1>0, <1>1, <1>4, <2>1 DEF Answer, Stop, Fail, Leave, Return, Goto, cameraVars, CameraWork
<1>5. ASSUME NEW c \in Clients, Ask(c) \/ VisionStep(c)
      PROVE  /\ camera' = camera
             /\ \A d \in Clients : pc[d] \in CameraWork => pc'[d] \in CameraWork
  BY <1>0, <1>5 DEF Ask, VisionStep, Look, Process, Return, Goto, cameraVars, CameraWork, VisionWork
<1>6. ASSUME NEW t \in Topics, Convert(t)
      PROVE  /\ camera' = camera
             /\ \A d \in Clients : pc[d] \in CameraWork => pc'[d] \in CameraWork
  BY <1>0, <1>6 DEF Convert, Take, Store, Read, StoreReady, Die, cameraVars, clientVars,
                    CameraWork, VisionWork
<1>7. CASE AdministerCamera
  <2>1. camera \in {"initializing", "cleaning_up"} =>
          \A e \in {"complete", "fail_recoverable", "fail_non_recoverable"} :
            Fire(e, camera) \notin Operational
    BY DEF Fire, Allowed, Sources, Target
  <2>2. \A e \in {"start_cleanup", "start_initialization", "retry_from_recoverable"} :
          ~Allowed(e, camera)
    BY DEF Allowed, Sources
  <2> QED
    BY <1>7, <2>1, <2>2 DEF AdministerCamera
<1>8. CASE AdministerVision \/ UNCHANGED scanVars
  BY <1>8 DEF AdministerVision, scanVars, cameraVars, clientVars
<1> QED
  BY <1>2, <1>3, <1>4, <1>5, <1>6, <1>7, <1>8 DEF ScanNext, ScanStep

(* A step that leaves the vision node in operation leaves it to the same   *)
(* call, and a process that has ended does nothing any more.               *)
LEMMA VisionKept ==
  ASSUME ScanInv, [ScanNext]_scanVars, vision \in Operational \/ ~visionUp
  PROVE  /\ vision' \in Operational => vision' = vision
         /\ ~visionUp => UNCHANGED <<vision, visionUp>>
         /\ (visionUp' /\ vision' = vision) \/ ~visionUp =>
              \A c \in Clients : pc[c] \in VisionWork <=> pc'[c] \in VisionWork
<1>0. /\ pc \in [Clients -> CameraWork \cup VisionWork \cup {"rest", "stop", "wait"}]
      /\ vision \in NodeStates
  BY DEF ScanInv, ScanTypeOK
<1>1. \A c \in Clients : pc[c] \in VisionWork => vision = "busy"
  BY DEF ScanInv, OneProcessing
<1> DEFINE Kept == /\ UNCHANGED <<vision, visionUp>>
                   /\ \A c \in Clients : pc[c] \in VisionWork <=> pc'[c] \in VisionWork
<1>2. ASSUME NEW c \in Clients, Scan(c) \/ ScanStep(c) \/ Leave(c) PROVE Kept
  BY <1>0, <1>2 DEF Scan, ScanStep, Acquire, Fetch, Publish, Answer, Stop, Fail, Leave, Return,
                    Goto, Topics, visionVars, VisionWork, CameraWork
<1>3. ASSUME NEW c \in Clients, Ask(c) PROVE FALSE
  BY <1>3 DEF Ask, Allowed, Sources
<1>4. ASSUME NEW c \in Clients, VisionStep(c)
      PROVE  Kept \/ (visionUp /\ vision' \notin Operational)
  <2>1. visionUp /\ pc[c] \in VisionWork /\ vision = "busy" /\ visionUp' = visionUp
    BY <1>1, <1>4 DEF VisionStep, Look, Process, VisionWork
  <2>2. \A e \in {"complete", "fail_recoverable", "fail_non_recoverable"} :
          Fire(e, vision) \notin Operational
    BY <2>1 DEF Fire, Allowed, Sources, Target
  <2>3. CASE Look(c)
    BY <1>0, <2>1, <2>2, <2>3 DEF Look, Goto, VisionWork
  <2>4. CASE Process(c)
    BY <2>1, <2>2, <2>4 DEF Process
  <2> QED
    BY <1>4, <2>3, <2>4 DEF VisionStep
<1>5. ASSUME NEW t \in Topics, Convert(t)
      PROVE  Kept \/ (visionUp /\ vision' \notin Operational)
  BY <1>5 DEF Convert, Take, Store, Read, StoreReady, Die, clientVars
<1>6. ASSUME AdministerVision PROVE Kept \/ (visionUp /\ vision' \notin Operational)
  <2>1. vision \in {"initializing", "cleaning_up"} =>
          \A e \in {"complete", "fail_non_recoverable"} : Fire(e, vision) \notin Operational
    BY DEF Fire, Allowed, Sources, Target
  <2>2. visionUp /\ visionUp' = visionUp /\ vision \in Operational
    BY <1>6 DEF AdministerVision
  <2>3. \A e \in {"start_cleanup", "start_initialization", "retry_from_recoverable"} :
          ~Allowed(e, vision)
    BY <2>2 DEF Allowed, Sources
  <2>4. vision' \notin Operational
    BY <1>6, <2>1, <2>2, <2>3 DEF AdministerVision
  <2> QED
    BY <2>2, <2>4
<1>7. ASSUME AdministerCamera \/ UNCHANGED scanVars PROVE Kept
  BY <1>7 DEF AdministerCamera, scanVars, visionVars, clientVars
<1> HIDE DEF Kept
<1>8. Kept \/ (visionUp /\ vision' \notin Operational)
  BY <1>2, <1>3, <1>4, <1>5, <1>6, <1>7 DEF ScanNext
<1>9. CASE Kept
  BY <1>9 DEF Kept
<1>10. CASE visionUp /\ vision' \notin Operational
  BY <1>10
<1> QED
  BY <1>8, <1>9, <1>10

(* Only an exception in a topic callback ends the vision node's process.   *)
LEMMA VisionEnds ==
  ASSUME [ScanNext]_scanVars, visionUp, ~visionUp'
  PROVE  vision' = "boot"
<1>1. ASSUME NEW t \in Topics, Convert(t) PROVE visionUp' = visionUp \/ Die
  BY <1>1 DEF Convert, Take, Store, Read, StoreReady
<1>2. ASSUME NEW c \in Clients,
             Scan(c) \/ ScanStep(c) \/ Ask(c) \/ VisionStep(c) \/ Leave(c)
      PROVE  visionUp' = visionUp
  BY <1>2 DEF Scan, ScanStep, Acquire, Fetch, Publish, Answer, Stop, Fail, Leave, Ask,
              VisionStep, Look, Process, visionVars
<1> QED
  BY <1>1, <1>2 DEF ScanNext, AdministerCamera, AdministerVision, scanVars, visionVars, Die

(* The camera's steps are steps of the ownership protocol.                 *)
LEMMA CameraStepRefines ==
  ASSUME ScanInv, [ScanNext]_scanVars
  PROVE  [CameraOwner!Next]_(CameraOwner!vars)
<1>1. ScanInv'
  BY ScanPreserves
<1>2. /\ camera \notin Operational => CameraHolders = {}
      /\ camera \in {"initializing", "cleaning_up"} => CameraHolders = {"service"}
      /\ \A c \in Clients : pc[c] \in CameraWork => CameraHolders = {c}
      /\ camera \in Operational => \E h \in Clients \cup {"service"} : CameraHolders = {h}
  <2> DEFINE workers == {c \in Clients : pc[c] \in CameraWork}
  <2>1. camera \in NodeStates /\ (camera = "busy" <=> workers # {}) /\ \A c, d \in workers : c = d
    BY DEF ScanInv, ScanTypeOK, OneScan
  <2>2. CameraHolders = workers \cup Serviced(camera)
    BY DEF CameraHolders
  <2> HIDE DEF workers
  <2>3. workers \in SUBSET Clients /\ \A c \in Clients : pc[c] \in CameraWork => c \in workers
    BY DEF workers
  <2> QED
    BY <2>1, <2>2, <2>3 DEF Serviced
<1>3. /\ camera' \notin Operational => CameraHolders' = {}
      /\ camera' \in {"initializing", "cleaning_up"} => CameraHolders' = {"service"}
      /\ \A c \in Clients : pc'[c] \in CameraWork => CameraHolders' = {c}
      /\ camera' \in Operational => \E h \in Clients \cup {"service"} : CameraHolders' = {h}
  <2> DEFINE workers == {c \in Clients : pc'[c] \in CameraWork}
  <2>1. camera' \in NodeStates /\ (camera' = "busy" <=> workers # {}) /\ \A c, d \in workers : c = d
    BY <1>1 DEF ScanInv, ScanTypeOK, OneScan
  <2>2. CameraHolders' = workers \cup Serviced(camera')
    BY DEF CameraHolders
  <2> HIDE DEF workers
  <2>3. workers \in SUBSET Clients /\ \A c \in Clients : pc'[c] \in CameraWork => c \in workers
    BY DEF workers
  <2> QED
    BY <2>1, <2>2, <2>3 DEF Serviced
<1>4. CASE camera \in Operational /\ camera' \in Operational
  <2>1. camera' = camera /\ \A c \in Clients : pc[c] \in CameraWork => pc'[c] \in CameraWork
    BY <1>4, CameraKept
  <2>2. CameraHolders' = CameraHolders
    BY <1>2, <1>3, <1>4, <2>1 DEF ScanInv, OneScan
  <2> QED
    BY <1>4, <2>2 DEF CameraOwner!vars
<1>5. CASE camera \notin Operational /\ camera' \in Operational
  BY <1>2, <1>3, <1>5 DEF CameraOwner!Next, CameraOwner!Acquire
<1>6. CASE camera \in Operational /\ camera' \notin Operational
  BY <1>2, <1>3, <1>6 DEF CameraOwner!Next, CameraOwner!Release
<1>7. CASE camera \notin Operational /\ camera' \notin Operational
  BY <1>2, <1>3, <1>7 DEF CameraOwner!vars
<1> QED
  BY <1>4, <1>5, <1>6, <1>7

(* The vision node's steps are steps of the ownership protocol.            *)
LEMMA VisionStepRefines ==
  ASSUME ScanInv, [ScanNext]_scanVars
  PROVE  [VisionOwner!Next]_(VisionOwner!vars)
<1>1. ScanInv'
  BY ScanPreserves
<1>2. /\ vision \notin Operational => VisionHolders = {}
      /\ vision \in {"initializing", "cleaning_up"} => VisionHolders = {"service"}
      /\ \A c \in Clients : pc[c] \in VisionWork => VisionHolders = {c}
      /\ vision \in Operational => \E h \in Clients \cup {"service"} : VisionHolders = {h}
  <2> DEFINE workers == {c \in Clients : pc[c] \in VisionWork}
  <2>1. vision \in NodeStates /\ (vision = "busy" <=> workers # {}) /\ \A c, d \in workers : c = d
    BY DEF ScanInv, ScanTypeOK, OneProcessing
  <2>2. VisionHolders = workers \cup Serviced(vision)
    BY DEF VisionHolders
  <2> HIDE DEF workers
  <2>3. workers \in SUBSET Clients /\ \A c \in Clients : pc[c] \in VisionWork => c \in workers
    BY DEF workers
  <2> QED
    BY <2>1, <2>2, <2>3 DEF Serviced
<1>3. /\ vision' \notin Operational => VisionHolders' = {}
      /\ vision' \in {"initializing", "cleaning_up"} => VisionHolders' = {"service"}
      /\ \A c \in Clients : pc'[c] \in VisionWork => VisionHolders' = {c}
      /\ vision' \in Operational => \E h \in Clients \cup {"service"} : VisionHolders' = {h}
  <2> DEFINE workers == {c \in Clients : pc'[c] \in VisionWork}
  <2>1. vision' \in NodeStates /\ (vision' = "busy" <=> workers # {}) /\ \A c, d \in workers : c = d
    BY <1>1 DEF ScanInv, ScanTypeOK, OneProcessing
  <2>2. VisionHolders' = workers \cup Serviced(vision')
    BY DEF VisionHolders
  <2> HIDE DEF workers
  <2>3. workers \in SUBSET Clients /\ \A c \in Clients : pc'[c] \in VisionWork => c \in workers
    BY DEF workers
  <2> QED
    BY <2>1, <2>2, <2>3 DEF Serviced
<1>4. CASE ~visionUp
  <2>1. VisionHolders' = VisionHolders /\ visionUp' = visionUp
    BY <1>4, VisionKept DEF VisionHolders
  <2> QED
    BY <1>4, <2>1 DEF VisionOwner!vars
<1>5. CASE visionUp /\ ~visionUp'
  <2>1. vision' = "boot"
    BY <1>5, VisionEnds
  <2> QED
    BY <1>2, <1>3, <1>5, <2>1 DEF VisionOwner!Next, VisionOwner!Abandon, VisionOwner!Close
<1>6. CASE visionUp /\ visionUp' /\ vision \in Operational /\ vision' \in Operational
  <2>1. VisionHolders' = VisionHolders
    BY <1>6, VisionKept DEF VisionHolders
  <2> QED
    BY <1>6, <2>1 DEF VisionOwner!vars
<1>7. CASE visionUp /\ visionUp' /\ vision \notin Operational /\ vision' \in Operational
  BY <1>2, <1>3, <1>7 DEF VisionOwner!Next, VisionOwner!Acquire
<1>8. CASE visionUp /\ visionUp' /\ vision \in Operational /\ vision' \notin Operational
  BY <1>2, <1>3, <1>8 DEF VisionOwner!Next, VisionOwner!Release
<1>9. CASE visionUp /\ visionUp' /\ vision \notin Operational /\ vision' \notin Operational
  BY <1>2, <1>3, <1>9 DEF VisionOwner!vars
<1> QED
  BY <1>4, <1>5, <1>6, <1>7, <1>8, <1>9

(* The camera node implements the ownership protocol.                      *)
THEOREM CameraRefinement == ScanSpec => CameraOwner!Spec
<1>1. ScanInit => CameraOwner!Init
  BY DEF ScanInit, CameraOwner!Init, CameraHolders, Serviced, CameraWork
<1> QED
  BY <1>1, ScanInvariance, CameraStepRefines, PTL DEF ScanSpec, CameraOwner!Spec

(* The vision node implements it too, and closes for good when a topic     *)
(* callback brings its process down.                                       *)
THEOREM VisionRefinement == ScanSpec => VisionOwner!Spec
<1>1. ScanInit => VisionOwner!Init
  BY DEF ScanInit, VisionOwner!Init, VisionHolders, Serviced, VisionWork
<1> QED
  BY <1>1, ScanInvariance, VisionStepRefines, PTL DEF ScanSpec, VisionOwner!Spec

=============================================================================
