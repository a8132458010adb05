---------------------------- MODULE Configuration -----------------------------
(***************************************************************************)
(* The configuration page (pages/configuration_page.py), the parameters of *)
(* the nodes (intranodes_pkg/parameters) and their YAML files.  The page   *)
(* has six forms that share nothing: each has its node, its parameter      *)
(* class and its file.  A behaviour is about one form, opened in several   *)
(* browser sessions at once.                                               *)
(*                                                                         *)
(* The keys of a form are told apart by what becomes of them: a number is  *)
(* converted at the click, a choice (a text or a switch) stays in the node *)
(* until the node reads it for what it does next, a feature is a choice    *)
(* that each run of apply_parameters hands on to the camera's driver, a    *)
(* hidden key is on no form.  The camera's form is taken as two, of its    *)
(* choices and of its features: no request is refused in part and no field *)
(* of it converted, so what becomes of the ones is nothing to the others.  *)
(* Its calibration transform is hidden to it and has buttons of its own,   *)
(* taken as one more form: all it shares with the camera's is the file.    *)
(***************************************************************************)
EXTENDS Naturals, FiniteSets, TLC

CONSTANTS
  Sessions,    \* browser sessions
  Values,      \* what a choice, a feature and a hidden key can be given
  Numbers,     \* what a number can be given, besides 0.0
  Forms        \* the forms of the page behaviours are about

ASSUME FormsAssumption ==
  Forms \subseteq {"robot", "camera", "features", "coordinator", "vision", "tool",
                   "motion planning", "calibration"}

(* A session is not the initialization and not nobody, and a value is none *)
(* of the marks a run of apply_parameters or a device has.                 *)
ASSUME NamesAssumption ==
  /\ Sessions \cap {"init", "nobody"} = {}
  /\ Values \cap {"none", "asked", "closed", "lacking"} = {}

VARIABLES
  form,        \* the form of this behaviour, fixed
  defaults,    \* what the page's process has read of the hidden key, once
  file,        \* file[k]: the YAML file
  whole,       \* whether numbers have no point: in the file, in the node
  params,      \* params[k]: the parameters of the node
  device,      \* the camera's driver: what its feature is set to
  field,       \* field[s][k]: the form in session s
  matrix,      \* matrix[s]: the transform that session s displays
  pc,          \* pc[s]: where the handler of session s is
  data,        \* data[s]: what it has sent, or been answered
  late,        \* late[s]: a request that s has given up, not yet served
  run,         \* run[r]: apply_parameters on the node, for a session or for
               \*   the initialization
  alone,       \* history, alone[s]: since the press nobody else has set a
               \*   parameter
  since        \* history, since[s]: what the feature has been in the node,
               \*   or others have given the driver, since s was answered

nodeVars == <<whole, params, device>>
pageVars == <<field, matrix>>
history == <<alone, since>>
vars == <<form, defaults, file, nodeVars, pageVars, pc, data, late, run, history>>

Empty == "empty"      \* a field that has been cleared, nothing displayed
Zero == "zero"        \* 0.0
Closed == "closed"    \* no image acquirer
Lacking == "lacking"  \* one of a device that does not have the feature
Nothing == <<>>       \* no request

Runs == Sessions \cup {"init"}

Steps == {"idle", "get", "got", "set", "answered", "refused", "apply",
          "applied", "failed", "lost"}

-----------------------------------------------------------------------------
(* The forms.                                                              *)

Robot == [shown |-> {"number", "choice"}, hidden |-> {}]
Camera == [shown |-> {"choice"}, hidden |-> {"hidden"}]
CameraFeatures == [shown |-> {"feature"}, hidden |-> {"hidden"}]
Coordinator == [shown |-> {"choice"}, hidden |-> {}]
Vision == [shown |-> {"number", "choice"}, hidden |-> {}]
Tool == [shown |-> {"number", "choice"}, hidden |-> {}]
MotionPlanning == [shown |-> {"number", "choice"}, hidden |-> {"hidden"}]

Calibration == [shown |-> {}, hidden |-> {"hidden"}]

Form ==
  CASE form = "robot" -> Robot
    [] form = "camera" -> Camera
    [] form = "features" -> CameraFeatures
    [] form = "coordinator" -> Coordinator
    [] form = "vision" -> Vision
    [] form = "tool" -> Tool
    [] form = "motion planning" -> MotionPlanning
    [] form = "calibration" -> Calibration

CameraForms == {"camera", "features"}

Shown == Form.shown
Keys == Form.shown \cup Form.hidden

Given(k) == IF k = "number" THEN Numbers \cup {Zero} ELSE Values

TypeOK ==
  /\ form \in Forms
  /\ defaults \in Values
  /\ whole \in [file : BOOLEAN, node : BOOLEAN]
  /\ DOMAIN params = Keys /\ \A k \in Keys : params[k] \in Given(k)
  /\ device \in Values \cup {Lacking, Closed}
  /\ \A s \in Sessions :
       /\ DOMAIN field[s] = Shown
       /\ \A k \in Shown : field[s][k] \in Given(k) \cup {Empty}
       /\ DOMAIN late[s] \subseteq Keys
       /\ pc[s] = "idle" => data[s] = Nothing
  /\ matrix \in [Sessions -> Values \cup {Empty}]
  /\ pc \in [Sessions -> Steps]
  /\ run \in [Runs -> Values \cup {"none", "asked"}]
  /\ alone \in [Sessions -> BOOLEAN]
  /\ since \in [Sessions -> SUBSET Values]

(* The node and the page have been started with the file as it is; the     *)
(* widgets have values of their own.                                       *)
Init ==
  /\ form \in Forms
  /\ file \in {f \in [Keys -> Values \cup Numbers] : \A k \in Keys : f[k] \in Given(k)}
  /\ \E w \in {FALSE, "number" \in Shown} : whole = [file |-> w, node |-> w]
  /\ params = file
  /\ defaults \in IF "hidden" \in Keys THEN {file["hidden"]} ELSE Values
  /\ device = Closed
  /\ \E v \in Values, n \in Numbers :
       field = [s \in Sessions |-> [k \in Shown |-> IF k = "number" THEN n ELSE v]]
  /\ matrix = [s \in Sessions |-> Empty]
  /\ pc = [s \in Sessions |-> "idle"]
  /\ data = [s \in Sessions |-> Nothing]
  /\ late = [s \in Sessions |-> Nothing]
  /\ run = [r \in Runs |-> "none"]
  /\ alone = [s \in Sessions |-> FALSE]
  /\ since = [s \in Sessions |-> {}]

-----------------------------------------------------------------------------
(* What every form does.                                                   *)

Goto(s, step) == pc' = [pc EXCEPT ![s] = step]

Ends(s) ==
  /\ Goto(s, "idle")
  /\ data' = [data EXCEPT ![s] = Nothing]
  /\ alone' = [alone EXCEPT ![s] = FALSE]
  /\ since' = [since EXCEPT ![s] = {}]

(* The session has been told that the node has its values. *)
Answered(s) == pc[s] \in {"answered", "apply", "applied"}

(* From now on the node has these parameters, by r or by nobody's request. *)
Sets(r, values) ==
  LET feature == IF "feature" \in Keys THEN {values["feature"]} ELSE {}
  IN  /\ params' = values
      /\ alone' = [s \in Sessions |-> alone[s] /\ s = r]
      /\ since' = [s \in Sessions |->
                     IF s = r THEN feature
                     ELSE IF Answered(s) THEN since[s] \cup feature ELSE since[s]]

(* The driver is now set to value, by r. *)
Drives(r, value) ==
  /\ device' = value
  /\ since' = [s \in Sessions |->
                 IF s # r /\ Answered(s) THEN since[s] \cup ({value} \cap Values)
                 ELSE since[s]]
  /\ UNCHANGED alone

(* int() and float() raise for a field that is empty, before anything is   *)
(* sent or opened.                                                         *)
Converts(s) == \A k \in Shown : field[s][k] # Empty

(* What is typed while a handler waits can as well be typed afterwards. *)
Edit(s) ==
  \E k \in Shown : \E v \in Given(k) \cup (IF k = "number" THEN {Empty} ELSE {}) :
    /\ pc[s] = "idle"
    /\ field' = [field EXCEPT ![s][k] = v]
    /\ UNCHANGED <<form, defaults, file, nodeVars, matrix, pc, data, late, run, history>>

Ask(s, keys) ==
  /\ pc[s] = "idle"
  /\ data' = [data EXCEPT ![s] = [k \in keys |-> Empty]]
  /\ Goto(s, "get")
  /\ UNCHANGED <<form, defaults, file, nodeVars, pageVars, late, run, history>>

(* Bound: a session presses Apply again only after its last one has come   *)
(* to an end on the node, too.                                             *)
Send(s, values) ==
  /\ pc[s] = "idle" /\ run[s] = "none"
  /\ data' = [data EXCEPT ![s] = values]
  /\ Goto(s, "set")
  /\ alone' = [alone EXCEPT ![s] = TRUE]
  /\ UNCHANGED <<form, defaults, file, nodeVars, pageVars, late, run, since>>

Get(s) == Ask(s, Shown)

Apply(s) == Converts(s) /\ Send(s, field[s])

(* Mutant of Save: the fields are written as they are. *)
SaveUnchecked(s) ==
  /\ pc[s] = "idle"
  /\ file' = [k \in Keys |-> IF k \in Shown THEN field[s][k] ELSE defaults]
  /\ whole' = [whole EXCEPT !.file = FALSE]
  /\ UNCHANGED <<form, defaults, params, device, pageVars, pc, data, late, run, history>>

(* A key that is not on the form is written as it was when the page's      *)
(* process was started.                                                    *)
Save(s) ==
  /\ pc[s] = "idle" /\ Converts(s)
  /\ file' = [k \in Keys |-> IF k \in Shown THEN field[s][k] ELSE defaults]
  /\ whole' = [whole EXCEPT !.file = FALSE]
  /\ UNCHANGED <<form, defaults, params, device, pageVars, pc, data, late, run, history>>

Load(s) ==
  /\ pc[s] = "idle"
  /\ field' = [field EXCEPT ![s] = [k \in Shown |-> file[k]]]
  /\ UNCHANGED <<form, defaults, file, nodeVars, matrix, pc, data, late, run, history>>

-----------------------------------------------------------------------------
(* The buttons.                                                            *)

RefreshRobot(s) == form = "robot" /\ Get(s)
ApplyRobot(s) == form = "robot" /\ Apply(s)
SaveRobot(s) == form = "robot" /\ Save(s)
LoadRobot(s) == form = "robot" /\ Load(s)

RefreshCamera(s) == form \in CameraForms /\ Get(s)
ApplyCamera(s) == form \in CameraForms /\ Apply(s)
SaveCamera(s) == form \in CameraForms /\ Save(s)
LoadCamera(s) == form \in CameraForms /\ Load(s)

RefreshCoordinator(s) == form = "coordinator" /\ Get(s)
ApplyCoordinator(s) == form = "coordinator" /\ Apply(s)
SaveCoordinator(s) == form = "coordinator" /\ Save(s)
LoadCoordinator(s) == form = "coordinator" /\ Load(s)

RefreshVision(s) == form = "vision" /\ Get(s)
ApplyVision(s) == form = "vision" /\ Apply(s)
SaveVision(s) == form = "vision" /\ Save(s)
LoadVision(s) == form = "vision" /\ Load(s)

RefreshTool(s) == form = "tool" /\ Get(s)
ApplyTool(s) == form = "tool" /\ Apply(s)
SaveTool(s) == form = "tool" /\ Save(s)
LoadTool(s) == form = "tool" /\ Load(s)

RefreshMotionPlanning(s) == form = "motion planning" /\ Get(s)
ApplyMotionPlanning(s) == form = "motion planning" /\ Apply(s)
SaveMotionPlanning(s) == form = "motion planning" /\ Save(s)
LoadMotionPlanning(s) == form = "motion planning" /\ Load(s)

ReloadTransform(s) ==
  /\ form = "calibration" /\ pc[s] = "idle"
  /\ matrix' = [matrix EXCEPT ![s] = file["hidden"]]
  /\ UNCHANGED <<form, defaults, file, nodeVars, field, pc, data, late, run, history>>

GetTransform(s) == form = "calibration" /\ Ask(s, {"hidden"})

ApplyTransform(s) ==
  /\ form = "calibration" /\ matrix[s] # Empty
  /\ Send(s, [k \in {"hidden"} |-> matrix[s]])

Press(s) ==
  \/ RefreshRobot(s) \/ ApplyRobot(s) \/ SaveRobot(s) \/ LoadRobot(s)
  \/ RefreshCamera(s) \/ ApplyCamera(s) \/ SaveCamera(s) \/ LoadCamera(s)
  \/ RefreshCoordinator(s) \/ ApplyCoordinator(s)
  \/ SaveCoordinator(s) \/ LoadCoordinator(s)
  \/ RefreshVision(s) \/ ApplyVision(s) \/ SaveVision(s) \/ LoadVision(s)
  \/ RefreshTool(s) \/ ApplyTool(s) \/ SaveTool(s) \/ LoadTool(s)
  \/ RefreshMotionPlanning(s) \/ ApplyMotionPlanning(s)
  \/ SaveMotionPlanning(s) \/ LoadMotionPlanning(s)
  \/ ReloadTransform(s) \/ GetTransform(s) \/ ApplyTransform(s)

-----------------------------------------------------------------------------
(* The node's parameter services, one request at a time.                   *)

(* A number the file gives without a point is declared as an integer: a    *)
(* real is refused, and what the page reads of it is the real it is not.   *)
Refuses(k) == k = "number" /\ whole.node

Reads(k) == IF Refuses(k) THEN Zero ELSE params[k]

With(values) ==
  [k \in Keys |-> IF k \in DOMAIN values /\ ~Refuses(k) THEN values[k] ELSE params[k]]

GetServed(s) ==
  /\ pc[s] = "get"
  /\ data' = [data EXCEPT ![s] = [k \in DOMAIN @ |-> Reads(k)]]
  /\ Goto(s, "got")
  /\ UNCHANGED <<form, defaults, file, nodeVars, pageVars, late, run, history>>

SetServed(s) ==
  /\ pc[s] = "set" /\ late[s] = Nothing
  /\ Sets(s, With(data[s]))
  /\ Goto(s, IF \E k \in DOMAIN data[s] : Refuses(k) THEN "refused" ELSE "answered")
  /\ UNCHANGED <<form, defaults, file, whole, device, pageVars, data, late, run>>

LateSetServed(s) ==
  /\ late[s] # Nothing
  /\ Sets("nobody", With(late[s]))
  /\ late' = [late EXCEPT ![s] = Nothing]
  /\ UNCHANGED <<form, defaults, file, whole, device, pageVars, pc, data, run>>

-----------------------------------------------------------------------------
(* The rest of the handlers.                                               *)

GetReplied(s) ==
  /\ pc[s] = "got"
  /\ IF form = "calibration"
       THEN matrix' = [matrix EXCEPT ![s] = data[s]["hidden"]] /\ UNCHANGED field
       ELSE field' = [field EXCEPT ![s] = data[s]] /\ UNCHANGED matrix
  /\ Ends(s)
  /\ UNCHANGED <<form, defaults, file, nodeVars, late, run>>

(* Mutant of SetReplied: what is refused is not looked at. *)
SetRepliedUnseen(s) ==
  /\ pc[s] \in {"answered", "refused"} /\ form # "calibration"
  /\ Goto(s, "apply")
  /\ run' = [run EXCEPT ![s] = "asked"]
  /\ UNCHANGED <<form, defaults, file, nodeVars, pageVars, data, late, history>>

SetReplied(s) ==
  /\ pc[s] = "answered" /\ form # "calibration"
  /\ Goto(s, "apply")
  /\ run' = [run EXCEPT ![s] = "asked"]
  /\ UNCHANGED <<form, defaults, file, nodeVars, pageVars, data, late, history>>

ToldTransform(s) ==
  /\ pc[s] = "answered" /\ form = "calibration"
  /\ Ends(s)
  /\ UNCHANGED <<form, defaults, file, nodeVars, pageVars, late, run>>

ToldApplied(s) ==
  /\ pc[s] = "applied"
  /\ Ends(s)
  /\ UNCHANGED <<form, defaults, file, nodeVars, pageVars, late, run>>

Warned(s) ==
  /\ pc[s] \in {"refused", "failed"}
  /\ Ends(s)
  /\ UNCHANGED <<form, defaults, file, nodeVars, pageVars, late, run>>

(* The page waits 5 s, 15 s for the camera's parameters; what it has asked *)
(* for is served all the same.  Bound: one such request at a time.         *)
GivesUp(s) ==
  /\ pc[s] \in {"get", "got", "set", "answered", "refused", "apply", "applied",
                "failed", "lost"}
  /\ pc[s] = "set" => \A t \in Sessions : late[t] = Nothing
  /\ late' = IF pc[s] = "set" THEN [late EXCEPT ![s] = data[s]] ELSE late
  /\ Ends(s)
  /\ UNCHANGED <<form, defaults, file, nodeVars, pageVars, run>>

-----------------------------------------------------------------------------
(* apply_parameters, on as many threads as it is asked for.                *)

(* There is a driver and it has the feature. *)
Driven == device \in Values

RunEnds(r, outcome) ==
  /\ run' = [run EXCEPT ![r] = "none"]
  /\ pc' = IF r \in Sessions /\ pc[r] = "apply"
             THEN [pc EXCEPT ![r] = outcome] ELSE pc
  /\ UNCHANGED <<form, defaults, file, whole, params, pageVars, data, late>>

(* How a run ends, for the features before and after this one: the driver  *)
(* may raise for them, too.  The other nodes have nothing to do.           *)
Outcomes == IF form \in CameraForms THEN {"applied", "failed"} ELSE {"applied"}

(* A choice is not for the driver.  A feature that the device does not     *)
(* have, or any without a driver, is passed over and counts as applied.    *)
RunPassesOver(r) ==
  /\ run[r] = "asked" /\ ~Driven
  /\ \E outcome \in Outcomes : RunEnds(r, outcome)
  /\ UNCHANGED <<device, history>>

RunReads(r) ==
  /\ run[r] = "asked" /\ Driven
  /\ run' = [run EXCEPT ![r] = params["feature"]]
  /\ UNCHANGED <<form, defaults, file, nodeVars, pageVars, pc, data, late, history>>

(* Mutant of RunWrites: the driver is not given what has been read. *)
RunForgets(r) ==
  /\ run[r] \in Values /\ Driven
  /\ \E outcome \in Outcomes : RunEnds(r, outcome)
  /\ UNCHANGED <<device, history>>

RunWrites(r) ==
  /\ run[r] \in Values /\ Driven
  /\ Drives(r, run[r])
  /\ \E outcome \in Outcomes : RunEnds(r, outcome)

(* The driver is gone or another device's since it was looked at, or raises. *)
RunFails(r) ==
  /\ run[r] \in Values
  /\ RunEnds(r, "failed")
  /\ UNCHANGED <<device, history>>

RunStep(r) == RunPassesOver(r) \/ RunReads(r) \/ RunWrites(r) \/ RunFails(r)

-----------------------------------------------------------------------------
(* What happens around the page.                                           *)

(* Opens the device whose id the node has now, with the feature or without *)
(* it; an id applied later is not looked at before the next time.          *)
Initialize ==
  /\ form = "features" /\ device = Closed /\ run["init"] = "none"
  /\ \E opened \in Values \cup {Lacking} : Drives("init", opened)
  /\ run' = [run EXCEPT !["init"] = "asked"]
  /\ UNCHANGED <<form, defaults, file, whole, params, pageVars, pc, data, late>>

Cleanup ==
  /\ device # Closed /\ run["init"] = "none"
  /\ Drives("nobody", Closed)
  /\ UNCHANGED <<form, defaults, file, whole, params, pageVars, pc, data, late, run>>

(* The node's process is started anew and reads the file; what it was      *)
(* asked for is lost.                                                      *)
NodeRestarts ==
  /\ Sets("nobody", file)
  /\ whole' = [whole EXCEPT !.node = whole.file]
  /\ device' = Closed
  /\ late' = [s \in Sessions |-> Nothing]
  /\ run' = [r \in Runs |-> "none"]
  /\ pc' = [s \in Sessions |-> IF pc[s] \in {"get", "set", "apply"} THEN "lost" ELSE pc[s]]
  /\ UNCHANGED <<form, defaults, file, pageVars, data>>

(* A new calibration is written to the file by hand; or the camera's form  *)
(* has written the one it knows back.                                      *)
Calibrate ==
  /\ form \in {"camera", "calibration"}
  /\ \E v \in Values : file' = [file EXCEPT !["hidden"] = v]
  /\ UNCHANGED <<form, defaults, nodeVars, pageVars, pc, data, late, run, history>>

SessionStep(s) ==
  \/ Edit(s) \/ Press(s)
  \/ GetServed(s) \/ SetServed(s) \/ LateSetServed(s)
  \/ GetReplied(s) \/ SetReplied(s) \/ ToldTransform(s)
  \/ ToldApplied(s) \/ Warned(s) \/ GivesUp(s)

Next ==
  \/ \E s \in Sessions : SessionStep(s)
  \/ \E r \in Runs : RunStep(r)
  \/ Initialize \/ Cleanup \/ NodeRestarts \/ Calibrate

Spec == Init /\ [][Next]_vars

Symmetry == Permutations(Sessions) \cup Permutations(Values)

-----------------------------------------------------------------------------
(* Whatever has been typed into the form, the file always has all the keys *)
(* the node reads when it starts, each with a value.                       *)
FileStartsTheNode == DOMAIN file = Keys /\ \A k \in Keys : file[k] \in Given(k)

(* Told that the parameters have been applied, the operator finds all the  *)
(* values of the click in the node, unless somebody else has set some      *)
(* since; and a driver whose device has the feature is set to what the     *)
(* node has had since the click, or to what another run or initialization  *)
(* has given it since: never to what it was before, whoever else sets      *)
(* parameters, late or not, initializes, cleans up or applies meanwhile.   *)
ToldIsApplied ==
  [][\A s \in Sessions :
       /\ (ToldApplied(s) \/ ToldTransform(s)) /\ alone[s] =>
            \A k \in DOMAIN data[s] : params[k] = data[s][k]
       /\ ToldApplied(s) /\ Driven => device \in since[s]]_vars

=============================================================================
