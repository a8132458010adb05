----------------------------- MODULE ScanVision ------------------------------
(***************************************************************************)
(* The camera node (intranodes_pkg/camera_controller_node.py) and the      *)
(* vision node (intranodes_pkg/vision_processing_node.py).  A scan's       *)
(* answer and its data travel on different ways: the answer goes to the    *)
(* client that asked, texture and point cloud are published on two topics  *)
(* of depth one that the vision node subscribes to.  A processing request  *)
(* names no scan; it works on whatever the two callbacks have left in      *)
(* current_texture and current_pcd.                                        *)
(***************************************************************************)
EXTENDS Lifecycle, Naturals, FiniteSets

CONSTANTS
  Clients,          \* requests under way, by slot: operations of the
                    \*   coordinator and buttons of the System Control page
  MaxScans          \* bound on the scans taken

ASSUME BoundAssumption == MaxScans \in Nat \ {0}

VARIABLES
  camera, vision,   \* lifecycle_sm.current_state of the two nodes
  visionUp,         \* the vision node's process runs
  ia,               \* the image acquirer: "none", "created", "acquiring"
  pc,               \* pc[c]: where the handlers that serve c are
  scans,            \* scans taken so far: the number of the latest
  inbox,            \* inbox[t]: the scan whose message waits on the topic
  callback,         \* callback[t][n]: the callback that handles it
  current,          \* current_texture and current_pcd
  received,         \* is_new_txt_received and is_new_pcd_received
  used,             \* used[c]: the data c's processing works on
  alone             \* history: c has had the cell to itself since its scan
                    \*   began, and all of its data arrived before it asked

cameraVars == <<camera, ia, scans>>
visionVars == <<vision, visionUp, callback, current, received>>
clientVars == <<pc, used, alone>>
scanVars == <<cameraVars, visionVars, inbox, clientVars>>

Topics == {"texture", "pcd"}
Scans == 1..MaxScans

(* What a topic callback makes of a scan: the converted message first, the *)
(* PIL image or the reshaped cloud that processing needs at the end.       *)
Data == [scan : Scans, form : {"raw", "ready"}]
None == [scan |-> 0, form |-> "none"]

Idle == [step |-> "none", scan |-> 0]

CameraWork == {"acquire", "fetch", "texture", "pcd", "answer", "raised", "failed"}
VisionWork == {"look", "process"}

ScanTypeOK ==
  /\ camera \in NodeStates /\ vision \in NodeStates /\ visionUp \in BOOLEAN
  /\ ia \in {"none", "created", "acquiring"}
  /\ pc \in [Clients -> CameraWork \cup VisionWork \cup {"rest", "stop", "wait"}]
  /\ scans \in 0..MaxScans
  /\ inbox \in [Topics -> 0..MaxScans]
  /\ callback \in [Topics -> [Scans ->
       [step : {"none", "taken", "stored", "read"}, scan : 0..MaxScans]]]
  /\ current \in [Topics -> Data \cup {None}] /\ received \in [Topics -> BOOLEAN]
  /\ used \in [Clients -> [Topics -> Data \cup {None}]]
  /\ alone \in [Clients -> BOOLEAN]

ScanInit ==
  /\ camera = "not_initialized" /\ vision = "not_initialized" /\ visionUp = TRUE
  /\ ia = "none" /\ scans = 0
  /\ pc = [c \in Clients |-> "rest"]
  /\ inbox = [t \in Topics |-> 0]
  /\ callback = [t \in Topics |-> [n \in Scans |-> Idle]]
  /\ current = [t \in Topics |-> None] /\ received = [t \in Topics |-> FALSE]
  /\ used = [c \in Clients |-> [t \in Topics |-> None]]
  /\ alone = [c \in Clients |-> FALSE]

Goto(c, label) == pc' = [pc EXCEPT ![c] = label]

(* The request has been answered and the client is done. *)
Return(c) ==
  /\ Goto(c, "rest")
  /\ used' = [used EXCEPT ![c] = [t \in Topics |-> None]]
  /\ alone' = [alone EXCEPT ![c] = FALSE]

Active(t) == {n \in Scans : callback[t][n].step # "none"}

(* Nothing is on its way to the vision node's data, and nobody works on it. *)
Quiet ==
  /\ \A t \in Topics : inbox[t] = 0 /\ Active(t) = {}
  /\ \A c \in Clients : pc[c] \notin VisionWork

(* The vision node's executor has two threads. *)
ThreadFree ==
  Cardinality(Active("texture")) + Cardinality(Active("pcd"))
    + Cardinality({c \in Clients : pc[c] \in VisionWork}) < 2

-----------------------------------------------------------------------------
(* execute_scan_cb.                                                        *)

Scan(c) ==
  /\ pc[c] = "rest"
  /\ Allowed("start_operation", camera)
  /\ camera' = Fire("start_operation", camera)
  /\ Goto(c, "acquire")
  /\ alone' = [d \in Clients |-> d = c /\ Quiet]
  /\ UNCHANGED <<ia, scans, visionVars, inbox, used>>

(* The acquirer is started, or something raises before it is. *)
Acquire(c) ==
  /\ pc[c] = "acquire"
  /\ \/ ia # "none" /\ ia' = "acquiring" /\ Goto(c, "fetch")
     \/ UNCHANGED ia /\ Goto(c, "failed")
  /\ UNCHANGED <<camera, scans, visionVars, inbox, used, alone>>

(* Trigger and fetch.  An acquirer that is not running delivers nothing.   *)
Fetch(c) ==
  /\ pc[c] = "fetch"
  /\ \/ /\ ia = "acquiring" /\ scans < MaxScans
        /\ scans' = scans + 1
        /\ Goto(c, "texture")
     \/ UNCHANGED scans /\ Goto(c, "raised")
  /\ UNCHANGED <<camera, ia, visionVars, inbox, used, alone>>

(* publish_frame_data: the texture first, the cloud later.  The camera is  *)
(* busy, so the scan is the latest.  A component that is empty or cannot   *)
(* be published is logged and left out, and the topic keeps the last       *)
(* message only.                                                           *)
Publish(c) ==
  /\ pc[c] \in Topics
  /\ \/ /\ inbox' = [inbox EXCEPT ![pc[c]] = IF visionUp THEN scans ELSE 0]
        /\ UNCHANGED alone
     \/ UNCHANGED inbox /\ alone' = [alone EXCEPT ![c] = FALSE]
  /\ Goto(c, IF pc[c] = "texture" THEN "pcd" ELSE "answer")
  /\ UNCHANGED <<cameraVars, visionVars, used>>

(* The scan is saved and the node idle again before the finally clause     *)
(* stops the acquirer.                                                     *)
Answer(c) ==
  /\ pc[c] = "answer"
  /\ \/ camera' = Fire("complete", camera) /\ Goto(c, "stop")
     \/ UNCHANGED camera /\ Goto(c, "raised")
  /\ UNCHANGED <<ia, scans, visionVars, inbox, used, alone>>

(* Mutant of Stop: the acquirer is stopped on success only. *)
StopOnSuccess(c) ==
  /\ pc[c] \in {"stop", "raised"}
  /\ ia' = IF ia = "acquiring" /\ pc[c] = "stop" THEN "created" ELSE ia
  /\ Goto(c, IF pc[c] = "stop" THEN "wait" ELSE "failed")
  /\ UNCHANGED <<camera, scans, visionVars, inbox, used, alone>>

(* The finally clause. *)
Stop(c) ==
  /\ pc[c] \in {"stop", "raised"}
  /\ ia' = IF ia = "acquiring" THEN "created" ELSE ia
  /\ Goto(c, IF pc[c] = "stop" THEN "wait" ELSE "failed")
  /\ UNCHANGED <<camera, scans, visionVars, inbox, used, alone>>

(* Whatever raises in a scan is none of the recoverable exceptions. *)
Fail(c) ==
  /\ pc[c] = "failed"
  /\ camera' = Fire("fail_non_recoverable", camera)
  /\ Return(c)
  /\ UNCHANGED <<ia, scans, visionVars, inbox>>

(* The camera's cleanup_resources and initialize_node; it is initialized   *)
(* when the acquirer is created.                                           *)
AdministerCamera ==
  /\ \/ /\ Allowed("start_cleanup", camera)
        /\ camera' = Fire("start_cleanup", camera)
        /\ UNCHANGED ia
     \/ /\ camera = "cleaning_up"
        /\ camera' = Fire("complete", camera)
        /\ ia' = "none"
     \/ /\ Allowed("start_initialization", camera)
        /\ camera' = Fire("start_initialization", camera)
        /\ UNCHANGED ia
     \/ /\ camera = "initializing"
        /\ \/ camera' = Fire("complete", camera) /\ ia' = "created"
           \/ camera' = Fire("fail_recoverable", camera) /\ ia' = "created"
           \/ camera' = Fire("fail_non_recoverable", camera) /\ UNCHANGED ia
     \/ /\ Allowed("retry_from_recoverable", camera)
        /\ camera' = Fire("retry_from_recoverable", camera)
        /\ UNCHANGED ia
  /\ UNCHANGED <<scans, visionVars, inbox, clientVars>>

-----------------------------------------------------------------------------
(* point_cloud_cb and texture_cb: the message is taken, converted and      *)
(* stored; what is stored is read again, converted further and stored      *)
(* again.  Other callbacks run in between.                                 *)

Take(t) ==
  /\ visionUp /\ inbox[t] # 0 /\ ThreadFree
  /\ callback' = [callback EXCEPT ![t][inbox[t]] =
                    [step |-> "taken", scan |-> inbox[t]]]
  /\ inbox' = [inbox EXCEPT ![t] = 0]
  /\ UNCHANGED <<cameraVars, vision, visionUp, current, received, clientVars>>

(* Mutants of Store: data that waits is not replaced, or what is stored is *)
(* not converted at all.                                                   *)
StoreIfEmpty(t, n) ==
  /\ visionUp /\ callback[t][n].step = "taken"
  /\ callback' = [callback EXCEPT ![t][n].step = "stored"]
  /\ current' = IF current[t] = None
                  THEN [current EXCEPT ![t] = [scan |-> n, form |-> "raw"]]
                  ELSE current
  /\ UNCHANGED <<cameraVars, vision, visionUp, inbox, received, clientVars>>

StoreUnconverted(t, n) ==
  /\ visionUp /\ callback[t][n].step = "taken"
  /\ callback' = [callback EXCEPT ![t][n].step = "stored"]
  /\ current' = [current EXCEPT ![t].scan = n]
  /\ UNCHANGED <<cameraVars, vision, visionUp, inbox, received, clientVars>>

Store(t, n) ==
  /\ visionUp /\ callback[t][n].step = "taken"
  /\ callback' = [callback EXCEPT ![t][n].step = "stored"]
  /\ current' = [current EXCEPT ![t] = [scan |-> n, form |-> "raw"]]
  /\ UNCHANGED <<cameraVars, vision, visionUp, inbox, received, clientVars>>

(* The conversion of None, and of an image that is converted already,      *)
(* raises out of the callback, which ends the process.                     *)
Converts(t) ==
  current[t].form = "raw" \/ (t = "pcd" /\ current[t].form = "ready")

(* The process ends with all its data, and its clients get no answer. *)
Die ==
  /\ visionUp' = FALSE /\ vision' = "boot"
  /\ inbox' = [u \in Topics |-> 0]
  /\ callback' = [u \in Topics |-> [m \in Scans |-> Idle]]
  /\ current' = [u \in Topics |-> None]
  /\ received' = [u \in Topics |-> FALSE]
  /\ pc' = [c \in Clients |-> IF pc[c] \in VisionWork THEN "rest" ELSE pc[c]]
  /\ alone' = [c \in Clients |-> FALSE]
  /\ used' = [c \in Clients |-> [u \in Topics |-> None]]

Read(t, n) ==
  /\ visionUp /\ callback[t][n].step = "stored"
  /\ IF Converts(t)
       THEN /\ callback' = [callback EXCEPT ![t][n] =
                              [step |-> "read", scan |-> current[t].scan]]
            /\ UNCHANGED <<vision, visionUp, inbox, current, received, clientVars>>
       ELSE Die
  /\ UNCHANGED cameraVars

StoreReady(t, n) ==
  /\ visionUp /\ callback[t][n].step = "read"
  /\ callback' = [callback EXCEPT ![t][n] = Idle]
  /\ current' = [current EXCEPT ![t] =
                   [scan |-> callback[t][n].scan, form |-> "ready"]]
  /\ received' = [received EXCEPT ![t] = TRUE]
  /\ UNCHANGED <<cameraVars, vision, visionUp, inbox, clientVars>>

-----------------------------------------------------------------------------
(* vision_processing_op1_cb and vision_processing_op2_cb.                  *)

(* The coordinator asks three seconds after its scan, a button whenever it *)
(* is pressed.                                                             *)
Ask(c) ==
  /\ visionUp /\ ThreadFree
  /\ pc[c] \in {"rest", "wait"}
  /\ Allowed("start_operation", vision)
  /\ vision' = Fire("start_operation", vision)
  /\ Goto(c, "look")
  /\ alone' = [d \in Clients |-> alone[d] /\ d = c /\ pc[c] = "wait" /\ Quiet]
  /\ UNCHANGED <<cameraVars, visionUp, callback, current, received, inbox,
                 used>>

(* Mutant of Look: the early answer leaves the node busy. *)
LookSilent(c) ==
  /\ visionUp /\ pc[c] = "look"
  /\ IF \A t \in Topics : received[t]
       THEN /\ used' = [used EXCEPT ![c] = current]
            /\ Goto(c, "process")
            /\ UNCHANGED <<vision, alone>>
       ELSE UNCHANGED vision /\ Return(c)
  /\ UNCHANGED <<cameraVars, visionUp, callback, current, received, inbox>>

(* Without the two flags the answer is a refusal, and the node idle again; *)
(* with them the request takes what the callbacks have left.               *)
Look(c) ==
  /\ visionUp /\ pc[c] = "look"
  /\ IF \A t \in Topics : received[t]
       THEN /\ used' = [used EXCEPT ![c] = current]
            /\ Goto(c, "process")
            /\ UNCHANGED <<vision, alone>>
       ELSE vision' = Fire("complete", vision) /\ Return(c)
  /\ UNCHANGED <<cameraVars, visionUp, callback, current, received, inbox>>

(* None and a texture that is not converted yet have no height: the very   *)
(* next line raises.  The cloud is not looked at before the masks are.     *)
HasHeight(c) == used[c]["texture"].form = "ready"

(* A success resets the data, and not the two flags.  The refusal for want *)
(* of a CAD model resets nothing, nor does a failure, which is recoverable *)
(* where a mask is missing.                                                *)
Process(c) ==
  /\ visionUp /\ pc[c] = "process"
  /\ \/ /\ \A t \in Topics : used[c][t].form = "ready"
        /\ vision' = Fire("complete", vision)
        /\ current' = [t \in Topics |-> None]
     \/ /\ HasHeight(c)
        /\ vision' \in {Fire(e, vision) : e \in {"complete", "fail_recoverable"}}
        /\ UNCHANGED current
     \/ /\ vision' = Fire("fail_non_recoverable", vision)
        /\ UNCHANGED current
  /\ Return(c)
  /\ UNCHANGED <<cameraVars, visionUp, callback, received, inbox>>

(* The vision node's services; neither body touches the data, and loading  *)
(* the model may fail.                                                     *)
AdministerVision ==
  /\ visionUp
  /\ \/ \E event \in {"start_cleanup", "start_initialization",
                      "retry_from_recoverable"} :
          Allowed(event, vision) /\ vision' = Fire(event, vision)
     \/ /\ vision \in {"cleaning_up", "initializing"}
        /\ vision' = Fire("complete", vision)
     \/ /\ vision = "initializing"
        /\ vision' = Fire("fail_non_recoverable", vision)
  /\ UNCHANGED <<cameraVars, visionUp, callback, current, received, inbox,
                 clientVars>>

(* The client does not go on: its operation was cancelled. *)
Leave(c) ==
  /\ pc[c] = "wait"
  /\ Return(c)
  /\ UNCHANGED <<cameraVars, visionVars, inbox>>

ScanStep(c) ==
  Acquire(c) \/ Fetch(c) \/ Publish(c) \/ Answer(c) \/ Stop(c) \/ Fail(c)

VisionStep(c) == Look(c) \/ Process(c)

Convert(t) ==
  \/ Take(t)
  \/ \E n \in Scans : Store(t, n) \/ Read(t, n) \/ StoreReady(t, n)

ScanNext ==
  \/ \E c \in Clients : Scan(c) \/ ScanStep(c) \/ Ask(c) \/ VisionStep(c) \/ Leave(c)
  \/ \E t \in Topics : Convert(t)
  \/ AdministerCamera \/ AdministerVision

ScanSpec == ScanInit /\ [][ScanNext]_scanVars

(* The handlers run on threads of their own and fetch has a timeout.       *)
ScanFairness ==
  \A c \in Clients : WF_scanVars(ScanStep(c)) /\ WF_scanVars(VisionStep(c))

ScanFairSpec == ScanSpec /\ ScanFairness

-----------------------------------------------------------------------------
(* A client that has the cell to itself, and whose wait lets both messages *)
(* through, has its own scan processed: texture and cloud are both of the  *)
(* scan it took, which nobody has followed with another, whatever          *)
(* cancelled, failed or unanswered requests before it have left behind.    *)
OwnScan ==
  \A c \in Clients : pc[c] = "process" /\ alone[c] =>
    \A t \in Topics : used[c][t] = [scan |-> scans, form |-> "ready"]

(* The acquirer runs only for a scan that is going to stop it, although    *)
(* the next scan may begin before this one's finally clause.               *)
AcquirerStops ==
  ia = "acquiring" =>
    \E c \in Clients : pc[c] \in {"fetch", "texture", "pcd", "answer", "raised", "stop"}

(* However a scan or a processing ends, its node does not stay busy.       *)
NodesFreed ==
  /\ (camera = "busy") ~> (camera # "busy")
  /\ (vision = "busy") ~> (vision # "busy" \/ ~visionUp)

(* vision_processing_node.py, line 117: "Waiting for both point cloud and  *)
(* texture data to be received".  A request that finds no data is answered *)
(* so, and none goes on without it.                                        *)
WaitsForData ==
  \A c \in Clients : pc[c] = "process" =>
    \A t \in Topics : used[c][t] # None

=============================================================================
