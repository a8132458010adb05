-------------------------- MODULE ConfigurationProofs --------------------------
(***************************************************************************)
(* The file of a form always starts the node, and a page that says the     *)
(* parameters have been applied is right, for any number of browser        *)
(* sessions and any values.  The proof follows what a session has sent     *)
(* from its click to the end of apply_parameters: as long as nobody else   *)
(* sets parameters the node has it from the answer on; the run of          *)
(* apply_parameters the session waits for is its own and begins after the  *)
(* answer, so whatever it reads, the node has had since.                   *)
(***************************************************************************)
EXTENDS Configuration, SequenceTheorems, TLAPS

(* What a key of any kind may hold. *)
Contents == Values \cup Numbers \cup {Zero}

(* The keys a form sends and asks for. *)
Sent == IF form = "calibration" THEN {"hidden"} ELSE Shown

(* A request with a value for each of them. *)
Filled(values) == values \in [Sent -> Contents] /\ \A k \in Sent : values[k] \in Given(k)

Shapes ==
  /\ file \in [Keys -> Contents] /\ params \in [Keys -> Contents]
  /\ field \in [Sessions -> [Shown -> Contents \cup {Empty}]]
  /\ data \in [Sessions -> {Nothing} \cup [Sent -> Contents \cup {Empty}]]
  /\ late \in [Sessions -> {Nothing} \cup [Sent -> Contents]]

(* What a session waits for, and with what. *)
Waits(s) ==
  /\ pc[s] = "get" => data[s] \in [Sent -> Contents \cup {Empty}]
  /\ pc[s] \in {"got", "set", "answered", "refused", "apply", "applied", "failed"} =>
       Filled(data[s])
  /\ late[s] # Nothing => Filled(late[s])
  /\ pc[s] \in {"set", "answered", "refused", "applied", "failed"} => run[s] = "none"
  /\ pc[s] \in {"apply", "applied"} => form # "calibration"

(* What the node has of it, unless somebody else sets parameters, and what *)
(* the driver has, whoever else does what.                                 *)
Knows(s) ==
  /\ alone[s] /\ Answered(s) => \A k \in Sent : params[k] = data[s][k]
  /\ form = "features" =>
       /\ Answered(s) => params["feature"] \in since[s]
       /\ pc[s] = "apply" /\ run[s] \in Values => run[s] \in since[s]
       /\ pc[s] = "applied" /\ Driven => device \in since[s]

IInv ==
  /\ TypeOK
  /\ Shapes
  /\ FileStartsTheNode
  /\ \A s \in Sessions : Waits(s) /\ Knows(s)
  /\ device # Closed => form = "features"

USE DEF Empty, Zero, Closed, Lacking

-----------------------------------------------------------------------------
(* The keys of the forms. *)
LEMMA FormKeys ==
  ASSUME form \in Forms
  PROVE  /\ Shown \subseteq {"number", "choice", "feature"} /\ Shown \subseteq Keys
         /\ Keys \ Shown \subseteq {"hidden"} /\ Sent \subseteq Keys
         /\ form \in {"camera", "calibration"} => "hidden" \in Keys
         /\ form = "calibration" => Shown = {} /\ Sent = {"hidden"}
         /\ form # "calibration" => Sent = Shown
         /\ form = "features" => "feature" \in Sent /\ "feature" \in Keys
  BY FormsAssumption
     DEF Shown, Keys, Sent, Form, Robot, Camera, CameraFeatures, Coordinator, Vision, Tool,
         MotionPlanning, Calibration

(* They do not change. *)
LEMMA SameForm ==
  ASSUME form' = form
  PROVE  Keys' = Keys /\ Shown' = Shown /\ Sent' = Sent /\ Form' = Form
  BY DEF Keys, Shown, Sent, Form

(* No request has no keys. *)
LEMMA NoKeys == DOMAIN Nothing = {}
  BY EmptySeq DEF Nothing

(* What is left to show of a step's types once its shapes are right. *)
LEMMA Typed ==
  ASSUME IInv, Shapes', UNCHANGED <<form, defaults>>,
         whole' \in [file : BOOLEAN, node : BOOLEAN],
         \A k \in Keys : params'[k] \in Given(k),
         device' \in Values \cup {Lacking, Closed},
         \A s \in Sessions : \A k \in Shown : field'[s][k] \in Given(k) \cup {Empty},
         \A s \in Sessions : pc'[s] = "idle" => data'[s] = Nothing,
         matrix' \in [Sessions -> Values \cup {Empty}],
         pc' \in [Sessions -> Steps],
         run' \in [Runs -> Values \cup {"none", "asked"}],
         alone' \in [Sessions -> BOOLEAN], since' \in [Sessions -> SUBSET Values]
  PROVE  TypeOK'
<1>1. Keys' = Keys /\ Shown' = Shown /\ Sent' = Sent /\ form' \in Forms /\ defaults' \in Values
  BY SameForm DEF IInv, TypeOK
<1>2. DOMAIN params' = Keys
  BY <1>1 DEF Shapes
<1>3. \A s \in Sessions : DOMAIN field'[s] = Shown
  BY <1>1 DEF Shapes
<1>4. \A s \in Sessions : DOMAIN late'[s] \subseteq Keys
  BY <1>1, NoKeys, FormKeys DEF Shapes, IInv, TypeOK
<1> QED
  BY <1>1, <1>2, <1>3, <1>4 DEF TypeOK

(* A session that a step leaves where it is, if whatever the step does to  *)
(* the node and to the driver is kept in mind for it.                      *)
LEMMA Bystander ==
  ASSUME IInv, form' = form, NEW t \in Sessions,
         pc'[t] = pc[t], data'[t] = data[t], run'[t] = run[t], late'[t] \in {late[t], Nothing},
         alone'[t] => alone[t] /\ params' = params,
         form = "features" /\ Answered(t) =>
           /\ since[t] \subseteq since'[t]
           /\ params' = params \/ params'["feature"] \in since'[t]
           /\ device' \in Values => device' = device \/ device' \in since'[t]
  PROVE  Waits(t)' /\ Knows(t)'
<1>1. Sent' = Sent /\ Waits(t) /\ Knows(t)
  BY SameForm DEF IInv
<1>2. Waits(t)'
  BY <1>1 DEF Waits, Filled
<1>3. Answered(t)' <=> Answered(t)
  BY DEF Answered
<1>4. Knows(t)'
  BY <1>1, <1>3 DEF Knows, Driven, Answered
<1> QED
  BY <1>2, <1>4

(* The parameters are set, and everybody else keeps it in mind. *)
LEMMA Setter ==
  ASSUME IInv, NEW r, NEW values, Sets(r, values), \A k \in Keys : values[k] \in Given(k)
  PROVE  /\ params' = values
         /\ alone' \in [Sessions -> BOOLEAN] /\ since' \in [Sessions -> SUBSET Values]
         /\ \A t \in Sessions :
              /\ t # r => ~alone'[t] /\ since[t] \subseteq since'[t]
              /\ alone'[t] => alone[t]
              /\ form = "features" /\ (t = r \/ Answered(t)) =>
                   params'["feature"] \in since'[t]
<1> DEFINE feature == IF "feature" \in Keys THEN {values["feature"]} ELSE {}
<1>1. /\ params' = values
      /\ alone' = [s \in Sessions |-> alone[s] /\ s = r]
      /\ since' = [s \in Sessions |->
                     IF s = r THEN feature
                     ELSE IF Answered(s) THEN since[s] \cup feature ELSE since[s]]
  BY DEF Sets
<1>2. feature \subseteq Values /\ (form = "features" => values["feature"] \in feature)
  BY FormKeys DEF Given, IInv, TypeOK
<1> HIDE DEF feature
<1> QED
  BY <1>1, <1>2 DEF IInv, TypeOK

(* The driver is set, and everybody else keeps it in mind. *)
LEMMA Driver ==
  ASSUME IInv, NEW r, NEW value, Drives(r, value)
  PROVE  /\ device' = value /\ alone' = alone
         /\ since' \in [Sessions -> SUBSET Values]
         /\ \A t \in Sessions :
              /\ since[t] \subseteq since'[t]
              /\ t # r /\ Answered(t) /\ device' \in Values => device' \in since'[t]
  BY DEF Drives, IInv, TypeOK

(* The file stays what it is, or is written with a value for every key. *)
LEMMA Written ==
  ASSUME IInv, form' = form, file' \in [Keys -> Contents],
         \A k \in Keys : file'[k] \in Given(k)
  PROVE  FileStartsTheNode'
  BY SameForm DEF FileStartsTheNode

(* The values of a form, with and without the hidden key. *)
LEMMA Contained ==
  ASSUME NEW k \in {"number", "choice", "feature", "hidden"}
  PROVE  Given(k) \subseteq Contents /\ (k # "number" => Given(k) = Values)
  BY DEF Given, Contents

(* A form has keys of four kinds. *)
LEMMA KeysKnown ==
  ASSUME form \in Forms
  PROVE  Keys \subseteq {"number", "choice", "feature", "hidden"}
  BY FormKeys

-----------------------------------------------------------------------------
(* The fields, the file and the displayed transform.                       *)

(* What is typed, loaded, saved or calibrated leaves the handlers be. *)
LEMMA Edits ==
  ASSUME IInv, NEW s,
         \/ s \in Sessions /\ (Edit(s) \/ Load(s) \/ Save(s) \/ ReloadTransform(s))
         \/ Calibrate
  PROVE  IInv'
<1>1. /\ UNCHANGED <<form, defaults, params, device, pc, data, late, run, history>>
      /\ whole' \in [file : BOOLEAN, node : BOOLEAN]
  <2>1. whole' = whole \/ whole' = [whole EXCEPT !.file = FALSE]
    BY DEF Edit, Load, Save, ReloadTransform, Calibrate, nodeVars, history
  <2>2. [whole EXCEPT !.file = FALSE] \in [file : BOOLEAN, node : BOOLEAN]
    BY DEF IInv, TypeOK
  <2>3. UNCHANGED <<form, defaults, params, device, pc, data, late, run, history>>
    BY DEF Edit, Load, Save, ReloadTransform, Calibrate, nodeVars, history
  <2> QED
    BY <2>1, <2>2, <2>3 DEF IInv, TypeOK
<1>2. form \in Forms /\ defaults \in Values /\ Keys \subseteq {"number", "choice", "feature", "hidden"}
  BY KeysKnown DEF IInv, TypeOK
<1>3. /\ field' \in [Sessions -> [Shown -> Contents \cup {Empty}]]
      /\ \A t \in Sessions : \A k \in Shown : field'[t][k] \in Given(k) \cup {Empty}
  <2>1. CASE field' = field
    BY <2>1 DEF IInv, TypeOK, Shapes
  <2>2. CASE s \in Sessions /\ Edit(s)
    <3>1. PICK k \in Shown : \E v \in Given(k) \cup {Empty} :
                               field' = [field EXCEPT ![s][k] = v]
      BY <2>2 DEF Edit
    <3>2. PICK v \in Given(k) \cup {Empty} : field' = [field EXCEPT ![s][k] = v]
      BY <3>1
    <3>3. Given(k) \subseteq Contents
      BY <1>2, Contained, FormKeys
    <3> QED
      BY <2>2, <3>2, <3>3 DEF IInv, TypeOK, Shapes
  <2>3. CASE s \in Sessions /\ Load(s)
    <3>1. field' = [field EXCEPT ![s] = [k \in Shown |-> file[k]]]
      BY <2>3 DEF Load
    <3>2. /\ [k \in Shown |-> file[k]] \in [Shown -> Contents \cup {Empty}]
          /\ \A k \in Shown : file[k] \in Given(k)
      BY <1>2, FormKeys DEF IInv, Shapes, FileStartsTheNode
    <3> QED
      BY <2>3, <3>1, <3>2 DEF IInv, TypeOK, Shapes
  <2> QED
    BY <2>1, <2>2, <2>3 DEF Save, ReloadTransform, Calibrate, pageVars
<1>4. file' \in [Keys -> Contents] /\ \A k \in Keys : file'[k] \in Given(k)
  <2>1. CASE file' = file
    BY <2>1 DEF IInv, Shapes, FileStartsTheNode
  <2>2. CASE s \in Sessions /\ Save(s)
    <3>1. file' = [k \in Keys |-> IF k \in Shown THEN field[s][k] ELSE defaults]
      BY <2>2 DEF Save
    <3>2. \A k \in Shown : field[s][k] \in Given(k)
      BY <2>2 DEF Save, Converts, IInv, TypeOK
    <3>3. \A k \in Keys \ Shown : defaults \in Given(k)
      BY <1>2, FormKeys, Contained
    <3>4. \A k \in Keys : Given(k) \subseteq Contents
      BY <1>2, Contained
    <3> QED
      BY <3>1, <3>2, <3>3, <3>4
  <2>3. CASE Calibrate
    <3>1. PICK v \in Values : file' = [file EXCEPT !["hidden"] = v]
      BY <2>3 DEF Calibrate
    <3>2. v \in Given("hidden") /\ v \in Contents
      BY Contained DEF Contents
    <3> QED
      BY <3>1, <3>2 DEF IInv, Shapes, FileStartsTheNode
  <2> QED
    BY <2>1, <2>2, <2>3 DEF Edit, Load, ReloadTransform
<1>5. matrix' \in [Sessions -> Values \cup {Empty}]
  <2>1. CASE matrix' = matrix
    BY <2>1 DEF IInv, TypeOK
  <2>2. CASE s \in Sessions /\ ReloadTransform(s)
    <3>1. file["hidden"] \in Values
      BY <1>2, <2>2, FormKeys, Contained DEF ReloadTransform, IInv, FileStartsTheNode
    <3> QED
      BY <2>2, <3>1 DEF ReloadTransform, IInv, TypeOK
  <2> QED
    BY <2>1, <2>2 DEF Edit, Load, Save, Calibrate, pageVars
<1>6. Shapes'
  BY <1>1, <1>3, <1>4, SameForm DEF IInv, Shapes
<1>7. TypeOK'
  BY <1>1, <1>3, <1>5, <1>6, Typed DEF IInv, TypeOK, history
<1>8. FileStartsTheNode'
  BY <1>1, <1>4, Written
<1>9. \A t \in Sessions : Waits(t)' /\ Knows(t)'
  BY <1>1, Bystander DEF history
<1> QED
  BY <1>1, <1>6, <1>7, <1>8, <1>9 DEF IInv

-----------------------------------------------------------------------------
(* A click sends a question or the values of the form. *)

(* What a step of session s and of nobody else leaves of the others. *)
LEMMA Starts ==
  ASSUME IInv, NEW s \in Sessions, pc[s] = "idle",
         UNCHANGED <<form, defaults, file, nodeVars, pageVars, late, run, since>>,
         NEW d, data' = [data EXCEPT ![s] = d],
         \/ /\ Goto(s, "get") /\ alone' = alone
            /\ d \in [Sent -> Contents \cup {Empty}]
         \/ /\ Goto(s, "set") /\ alone' = [alone EXCEPT ![s] = TRUE]
            /\ Filled(d) /\ run[s] = "none"
  PROVE  IInv'
<1>1. d \in [Sent -> Contents \cup {Empty}]
  BY DEF Filled
<1>2. Shapes'
  BY <1>1, SameForm DEF IInv, Shapes, nodeVars, pageVars
<1>3. /\ pc' \in [Sessions -> Steps] /\ pc'[s] \in {"get", "set"} /\ data'[s] = d
      /\ pc'[s] = "set" => Filled(d) /\ run[s] = "none"
      /\ alone' \in [Sessions -> BOOLEAN]
      /\ \A t \in Sessions \ {s} :
           pc'[t] = pc[t] /\ data'[t] = data[t] /\ alone'[t] = alone[t]
  BY DEF IInv, TypeOK, Shapes, Goto, Steps
<1>4. TypeOK'
  BY <1>2, <1>3, Typed DEF IInv, TypeOK, nodeVars, pageVars
<1>5. FileStartsTheNode'
  BY Written DEF IInv, Shapes, FileStartsTheNode
<1>6. Waits(s)' /\ Knows(s)'
  <2>1. Sent' = Sent /\ Waits(s)
    BY SameForm DEF IInv
  <2> QED
    BY <1>1, <1>3, <2>1 DEF Waits, Knows, Answered, Filled
<1>7. \A t \in Sessions \ {s} : Waits(t)' /\ Knows(t)'
  BY <1>3, Bystander DEF nodeVars
<1> QED
  BY <1>2, <1>4, <1>5, <1>6, <1>7 DEF IInv, nodeVars

(* A handler that asks for parameters waits for all it sends later. *)
LEMMA Asks ==
  ASSUME IInv, NEW s \in Sessions, NEW keys, Ask(s, keys), keys = Sent
  PROVE  IInv'
<1>1. [k \in keys |-> Empty] \in [Sent -> Contents \cup {Empty}]
  OBVIOUS
<1> DEFINE d == [k \in keys |-> Empty]
<1>2. data' = [data EXCEPT ![s] = d]
  BY DEF Ask
<1> HIDE DEF d
<1> QED
  BY <1>1, <1>2, Starts DEF Ask, history, d

(* A handler that sends values knows all of them. *)
LEMMA Sends ==
  ASSUME IInv, NEW s \in Sessions, NEW values, Send(s, values), Filled(values)
  PROVE  IInv'
  BY Starts DEF Send

(* A press starts what its form starts; nothing empty is sent. *)
LEMMA Presses ==
  ASSUME IInv, NEW s \in Sessions, Press(s)
  PROVE  IInv'
<1>1. /\ form \in Forms /\ field[s] \in [Shown -> Contents \cup {Empty}]
      /\ \A k \in Shown : field[s][k] \in Given(k) \cup {Empty}
  BY DEF IInv, TypeOK, Shapes
<1>2. ASSUME Get(s), form # "calibration"
      PROVE  IInv'
  BY <1>1, <1>2, FormKeys, Asks DEF Get
<1>3. ASSUME Apply(s), form # "calibration"
      PROVE  IInv'
  <2>1. \A k \in Shown : field[s][k] \in Given(k) /\ Given(k) \subseteq Contents
    BY <1>1, <1>3, FormKeys, Contained DEF Apply, Converts
  <2>2. Filled(field[s])
    BY <1>1, <1>3, <2>1, FormKeys DEF Filled
  <2> QED
    BY <1>3, <2>2, Sends DEF Apply
<1>4. ASSUME Save(s) \/ Load(s) \/ ReloadTransform(s)
      PROVE  IInv'
  BY <1>4, Edits
<1>5. CASE GetTransform(s)
  BY <1>1, <1>5, FormKeys, Asks DEF GetTransform
<1>6. CASE ApplyTransform(s)
  <2> DEFINE values == [k \in {"hidden"} |-> matrix[s]]
  <2>1. matrix[s] \in Values
    BY <1>6 DEF ApplyTransform, IInv, TypeOK
  <2>2. values \in [Sent -> Contents] /\ \A k \in Sent : values[k] \in Given(k)
    BY <1>1, <1>6, <2>1, FormKeys DEF ApplyTransform, Contents, Given
  <2>3. Send(s, values)
    BY <1>6 DEF ApplyTransform
  <2> HIDE DEF values
  <2> QED
    BY <2>2, <2>3, Sends DEF Filled
<1> QED
  BY <1>2, <1>3, <1>4, <1>5, <1>6
     DEF Press, CameraForms, RefreshRobot, ApplyRobot, SaveRobot, LoadRobot,
         RefreshCamera, ApplyCamera, SaveCamera, LoadCamera, RefreshCoordinator,
         ApplyCoordinator, SaveCoordinator, LoadCoordinator, RefreshVision, ApplyVision,
         SaveVision, LoadVision, RefreshTool, ApplyTool, SaveTool, LoadTool,
         RefreshMotionPlanning, ApplyMotionPlanning, SaveMotionPlanning,
         LoadMotionPlanning

-----------------------------------------------------------------------------
(* The node's parameter services. *)

(* A set is whole or refused. *)
LEMMA Setting ==
  ASSUME IInv, NEW values, Filled(values)
  PROVE  /\ With(values) \in [Keys -> Contents]
         /\ \A k \in Keys : With(values)[k] \in Given(k)
         /\ (\A k \in Sent : ~Refuses(k)) => \A k \in Sent : With(values)[k] = values[k]
<1>1. /\ params \in [Keys -> Contents] /\ \A k \in Keys : params[k] \in Given(k)
      /\ Sent \subseteq Keys
  BY FormKeys DEF IInv, TypeOK, Shapes
<1>2. /\ DOMAIN values = Sent /\ values \in [Sent -> Contents]
      /\ \A k \in Sent : values[k] \in Given(k)
  BY DEF Filled
<1>3. \A k \in Keys :
        With(values)[k] = IF k \in Sent /\ ~Refuses(k) THEN values[k] ELSE params[k]
  BY <1>2 DEF With
<1>4. \A k \in Keys : With(values)[k] \in Given(k) /\ With(values)[k] \in Contents
  BY <1>1, <1>2, <1>3
<1>5. With(values) \in [Keys -> Contents]
  BY <1>4 DEF With
<1>6. (\A k \in Sent : ~Refuses(k)) => \A k \in Sent : With(values)[k] = values[k]
  BY <1>1, <1>3
<1> QED
  BY <1>4, <1>5, <1>6

(* The node answers with what it has. *)
LEMMA Gets ==
  ASSUME IInv, NEW s \in Sessions, GetServed(s)
  PROVE  IInv'
<1> DEFINE d == [k \in DOMAIN data[s] |-> Reads(k)]
<1>1. /\ UNCHANGED <<form, defaults, file, nodeVars, pageVars, late, run, history>>
      /\ pc[s] = "get" /\ Goto(s, "got")
  BY DEF GetServed
<1>2. data' = [data EXCEPT ![s] = d]
  BY DEF GetServed, IInv, Shapes
<1>3. d \in [Sent -> Contents] /\ \A k \in Sent : d[k] \in Given(k)
  <2>1. DOMAIN data[s] = Sent /\ Sent \subseteq Keys /\ Keys \subseteq {"number", "choice", "feature", "hidden"}
    BY <1>1, FormKeys, KeysKnown DEF IInv, TypeOK, Waits
  <2>2. \A k \in Keys : Reads(k) \in Given(k)
    BY <1>1 DEF Reads, Refuses, Given, IInv, TypeOK
  <2>3. \A k \in Keys : Given(k) \subseteq Contents
    BY <2>1, Contained
  <2> QED
    BY <2>1, <2>2, <2>3
<1> HIDE DEF d
<1>4. Shapes'
  BY <1>1, <1>2, <1>3, SameForm DEF IInv, Shapes, nodeVars, pageVars
<1>5. /\ pc' \in [Sessions -> Steps] /\ pc'[s] = "got" /\ data'[s] = d
      /\ \A t \in Sessions \ {s} : pc'[t] = pc[t] /\ data'[t] = data[t]
  BY <1>1, <1>2 DEF IInv, TypeOK, Shapes, Goto, Steps
<1>6. TypeOK'
  BY <1>1, <1>4, <1>5, Typed DEF IInv, TypeOK, nodeVars, pageVars, history
<1>7. FileStartsTheNode'
  BY <1>1, Written DEF IInv, Shapes, FileStartsTheNode
<1>8. Waits(s)' /\ Knows(s)'
  BY <1>1, <1>3, <1>5, SameForm DEF IInv, Waits, Knows, Answered, Filled
<1>9. \A t \in Sessions \ {s} : Waits(t)' /\ Knows(t)'
  BY <1>1, <1>5, Bystander DEF nodeVars, history
<1> QED
  BY <1>1, <1>4, <1>6, <1>7, <1>8, <1>9 DEF IInv, nodeVars

(* The node takes what it does not refuse, whoever waits for the answer. *)
LEMMA SetsServed ==
  ASSUME IInv, NEW s \in Sessions, SetServed(s)
  PROVE  IInv'
<1>1. /\ UNCHANGED <<form, defaults, file, whole, device, pageVars, data, late, run>>
      /\ pc[s] = "set" /\ Sets(s, With(data[s]))
      /\ Goto(s, IF \E k \in DOMAIN data[s] : Refuses(k) THEN "refused" ELSE "answered")
  BY DEF SetServed
<1>2. Filled(data[s]) /\ DOMAIN data[s] = Sent /\ run[s] = "none"
  BY <1>1 DEF IInv, Waits, Filled
<1> DEFINE values == With(data[s])
<1>3. /\ values \in [Keys -> Contents] /\ \A k \in Keys : values[k] \in Given(k)
      /\ (\A k \in Sent : ~Refuses(k)) => \A k \in Sent : values[k] = data[s][k]
  BY <1>2, Setting
<1>4. Sets(s, values)
  BY <1>1
<1> HIDE DEF values
<1>5. /\ params' = values
      /\ alone' \in [Sessions -> BOOLEAN] /\ since' \in [Sessions -> SUBSET Values]
      /\ \A t \in Sessions :
           /\ t # s => ~alone'[t] /\ since[t] \subseteq since'[t]
           /\ form = "features" /\ (t = s \/ Answered(t)) =>
                params'["feature"] \in since'[t]
  BY <1>3, <1>4, Setter
<1>6. /\ pc' \in [Sessions -> Steps] /\ pc'[s] \in {"refused", "answered"}
      /\ pc'[s] = "answered" => \A k \in Sent : ~Refuses(k)
      /\ \A t \in Sessions \ {s} : pc'[t] = pc[t]
  BY <1>1, <1>2 DEF IInv, TypeOK, Goto, Steps
<1>7. Shapes'
  BY <1>1, <1>3, <1>5, SameForm DEF IInv, Shapes, pageVars
<1>8. TypeOK'
  BY <1>1, <1>3, <1>5, <1>6, <1>7, Typed DEF IInv, TypeOK, pageVars
<1>9. FileStartsTheNode'
  BY <1>1, Written DEF IInv, Shapes, FileStartsTheNode
<1>10. Waits(s)' /\ Knows(s)'
  <2>1. Sent' = Sent /\ Waits(s)
    BY <1>1, SameForm DEF IInv
  <2>2. Waits(s)'
    BY <1>1, <1>2, <1>6, <2>1 DEF Waits, Filled
  <2>3. Knows(s)'
    BY <1>1, <1>3, <1>5, <1>6, <2>1 DEF Knows, Answered
  <2> QED
    BY <2>2, <2>3
<1>11. \A t \in Sessions \ {s} : Waits(t)' /\ Knows(t)'
  BY <1>1, <1>5, <1>6, Bystander
<1> QED
  BY <1>1, <1>7, <1>8, <1>9, <1>10, <1>11 DEF IInv

(* A request given up is served late, and nobody is alone after it. *)
LEMMA LateSets ==
  ASSUME IInv, NEW s \in Sessions, LateSetServed(s)
  PROVE  IInv'
<1> DEFINE values == With(late[s])
<1>1. /\ UNCHANGED <<form, defaults, file, whole, device, pageVars, pc, data, run>>
      /\ late[s] # Nothing /\ Sets("nobody", values)
      /\ late' = [late EXCEPT ![s] = Nothing]
  BY DEF LateSetServed
<1>2. values \in [Keys -> Contents] /\ \A k \in Keys : values[k] \in Given(k)
  <2>1. Filled(late[s])
    BY <1>1 DEF IInv, Waits
  <2> QED
    BY <2>1, Setting
<1> HIDE DEF values
<1>3. /\ params' = values
      /\ alone' \in [Sessions -> BOOLEAN] /\ since' \in [Sessions -> SUBSET Values]
      /\ \A t \in Sessions :
           /\ ~alone'[t] /\ since[t] \subseteq since'[t]
           /\ form = "features" /\ Answered(t) => params'["feature"] \in since'[t]
  BY <1>1, <1>2, Setter, NamesAssumption
<1>4. \A t \in Sessions : late'[t] \in {late[t], Nothing}
  BY <1>1 DEF IInv, Shapes
<1>5. Shapes'
  BY <1>1, <1>2, <1>3, SameForm DEF IInv, Shapes, pageVars
<1>6. TypeOK'
  BY <1>1, <1>2, <1>3, <1>5, Typed DEF IInv, TypeOK, pageVars
<1>7. FileStartsTheNode'
  BY <1>1, Written DEF IInv, Shapes, FileStartsTheNode
<1>8. \A t \in Sessions : Waits(t)' /\ Knows(t)'
  BY <1>1, <1>3, <1>4, Bystander
<1> QED
  BY <1>1, <1>5, <1>6, <1>7, <1>8 DEF IInv

-----------------------------------------------------------------------------
(* The rest of the handlers. *)

(* What the page does when a handler has come to its end, or gives up. *)
LEMMA EndsWell ==
  ASSUME IInv, NEW s \in Sessions, Ends(s),
         UNCHANGED <<form, defaults, file, nodeVars, run>>,
         field' \in [Sessions -> [Shown -> Contents \cup {Empty}]],
         \A t \in Sessions : \A k \in Shown : field'[t][k] \in Given(k) \cup {Empty},
         matrix' \in [Sessions -> Values \cup {Empty}],
         late' = late \/ (Filled(data[s]) /\ late' = [late EXCEPT ![s] = data[s]])
  PROVE  IInv'
<1>1. /\ pc' = [pc EXCEPT ![s] = "idle"] /\ data' = [data EXCEPT ![s] = Nothing]
      /\ alone' = [alone EXCEPT ![s] = FALSE] /\ since' = [since EXCEPT ![s] = {}]
  BY DEF Ends, Goto
<1>2. /\ pc' \in [Sessions -> Steps] /\ pc'[s] = "idle" /\ data'[s] = Nothing
      /\ alone' \in [Sessions -> BOOLEAN] /\ since' \in [Sessions -> SUBSET Values]
      /\ ~alone'[s] /\ \A t \in Sessions \ {s} : since'[t] = since[t]
      /\ late' \in [Sessions -> {Nothing} \cup [Sent -> Contents]]
      /\ late'[s] # Nothing => Filled(late'[s])
      /\ \A t \in Sessions \ {s} :
           pc'[t] = pc[t] /\ data'[t] = data[t] /\ alone'[t] = alone[t] /\ late'[t] = late[t]
  <2>1. /\ pc' \in [Sessions -> Steps] /\ pc'[s] = "idle"
        /\ \A t \in Sessions \ {s} : pc'[t] = pc[t]
    BY <1>1 DEF IInv, TypeOK, Steps
  <2>2. data'[s] = Nothing /\ \A t \in Sessions \ {s} : data'[t] = data[t]
    BY <1>1 DEF IInv, Shapes
  <2>3. /\ alone' \in [Sessions -> BOOLEAN] /\ since' \in [Sessions -> SUBSET Values]
        /\ ~alone'[s]
        /\ \A t \in Sessions \ {s} : alone'[t] = alone[t] /\ since'[t] = since[t]
    BY <1>1 DEF IInv, TypeOK
  <2>4. /\ late' \in [Sessions -> {Nothing} \cup [Sent -> Contents]]
        /\ late'[s] # Nothing => Filled(late'[s])
        /\ \A t \in Sessions \ {s} : late'[t] = late[t]
    <3>1. late \in [Sessions -> {Nothing} \cup [Sent -> Contents]] /\ Waits(s)
      BY DEF IInv, Shapes
    <3>2. CASE late' = late
      BY <3>1, <3>2 DEF Waits
    <3>3. CASE Filled(data[s]) /\ late' = [late EXCEPT ![s] = data[s]]
      <4>1. data[s] \in [Sent -> Contents]
        BY <3>3 DEF Filled
      <4>2. late'[s] = data[s]
        BY <3>1, <3>3
      <4> QED
        BY <3>1, <3>3, <4>1, <4>2
    <3> QED
      BY <3>2, <3>3
  <2> QED
    BY <2>1, <2>2, <2>3, <2>4
<1>3. Shapes'
  BY <1>1, <1>2, SameForm DEF IInv, Shapes, nodeVars
<1>4. TypeOK'
  BY <1>1, <1>2, <1>3, Typed DEF IInv, TypeOK, nodeVars
<1>5. FileStartsTheNode'
  BY Written DEF IInv, Shapes, FileStartsTheNode
<1>6. Waits(s)' /\ Knows(s)'
  BY <1>2, SameForm DEF Waits, Knows, Answered, Filled
<1>7. \A t \in Sessions \ {s} : Waits(t)' /\ Knows(t)'
  BY <1>2, Bystander DEF nodeVars
<1> QED
  BY <1>3, <1>4, <1>5, <1>6, <1>7 DEF IInv, nodeVars

(* A handler that tells the operator how it went is over. *)
LEMMA Tells ==
  ASSUME IInv, NEW s \in Sessions,
         ToldTransform(s) \/ ToldApplied(s) \/ Warned(s) \/ GivesUp(s)
  PROVE  IInv'
<1>1. /\ UNCHANGED <<form, defaults, file, nodeVars, pageVars, run>> /\ Ends(s)
      /\ late' = late \/ (pc[s] = "set" /\ late' = [late EXCEPT ![s] = data[s]])
  BY DEF ToldTransform, ToldApplied, Warned, GivesUp
<1>2. pc[s] = "set" => Filled(data[s])
  BY DEF IInv, Waits
<1> QED
  BY <1>1, <1>2, EndsWell DEF IInv, TypeOK, Shapes, pageVars

(* The answer to a get fills the fields, or lets the calibration send. *)
LEMMA Replies ==
  ASSUME IInv, NEW s \in Sessions, GetReplied(s)
  PROVE  IInv'
<1>1. /\ UNCHANGED <<form, defaults, file, nodeVars, late, run>> /\ Ends(s)
      /\ pc[s] = "got" /\ Filled(data[s]) /\ form \in Forms
  BY DEF GetReplied, IInv, TypeOK, Waits
<1>2. CASE form = "calibration"
  <2>1. matrix' = [matrix EXCEPT ![s] = data[s]["hidden"]] /\ UNCHANGED field
    BY <1>2 DEF GetReplied
  <2>2. data[s]["hidden"] \in Values
    BY <1>1, <1>2, FormKeys, Contained DEF Filled
  <2> QED
    BY <1>1, <2>1, <2>2, EndsWell DEF IInv, TypeOK, Shapes
<1>3. CASE form # "calibration"
  <2>1. field' = [field EXCEPT ![s] = data[s]] /\ UNCHANGED matrix
    BY <1>3 DEF GetReplied
  <2>2. /\ data[s] \in [Shown -> Contents \cup {Empty}]
        /\ \A k \in Shown : data[s][k] \in Given(k)
    BY <1>1, <1>3, FormKeys DEF Filled
  <2> QED
    BY <1>1, <2>1, <2>2, EndsWell DEF IInv, TypeOK, Shapes
<1> QED
  BY <1>2, <1>3

(* The session asks for a run of its own, and has none under way. *)
LEMMA AsksRun ==
  ASSUME IInv, NEW s \in Sessions, SetReplied(s)
  PROVE  IInv'
<1>1. /\ UNCHANGED <<form, defaults, file, nodeVars, pageVars, data, late, history>>
      /\ pc[s] = "answered" /\ form # "calibration" /\ Goto(s, "apply")
      /\ run' = [run EXCEPT ![s] = "asked"]
  BY DEF SetReplied
<1>2. /\ pc' \in [Sessions -> Steps] /\ pc'[s] = "apply"
      /\ run' \in [Runs -> Values \cup {"none", "asked"}] /\ run'[s] = "asked"
      /\ \A t \in Sessions \ {s} : pc'[t] = pc[t] /\ run'[t] = run[t]
  BY <1>1 DEF IInv, TypeOK, Goto, Steps, Runs
<1>3. Shapes'
  BY <1>1, SameForm DEF IInv, Shapes, nodeVars, pageVars
<1>4. TypeOK'
  BY <1>1, <1>2, <1>3, Typed DEF IInv, TypeOK, nodeVars, pageVars, history
<1>5. FileStartsTheNode'
  BY <1>1, Written DEF IInv, Shapes, FileStartsTheNode
<1>6. Waits(s)' /\ Knows(s)'
  <2>1. Sent' = Sent /\ Waits(s) /\ Knows(s) /\ "asked" \notin Values
    BY <1>1, SameForm, NamesAssumption DEF IInv
  <2> QED
    BY <1>1, <1>2, <2>1 DEF Waits, Knows, Answered, Filled, nodeVars, history
<1>7. \A t \in Sessions \ {s} : Waits(t)' /\ Knows(t)'
  BY <1>1, <1>2, Bystander DEF nodeVars, history
<1> QED
  BY <1>1, <1>3, <1>4, <1>5, <1>6, <1>7 DEF IInv, nodeVars

-----------------------------------------------------------------------------
(* apply_parameters. *)

(* A run reads what the node has now, and so has had since its session was *)
(* answered.                                                               *)
LEMMA Reading ==
  ASSUME IInv, NEW r \in Runs, RunReads(r)
  PROVE  IInv'
<1>1. /\ UNCHANGED <<form, defaults, file, nodeVars, pageVars, pc, data, late, history>>
      /\ form = "features" /\ run[r] = "asked"
      /\ run' = [run EXCEPT ![r] = params["feature"]]
  <2>1. device # Closed
    BY NamesAssumption DEF RunReads, Driven
  <2> QED
    BY <2>1 DEF RunReads, IInv
<1>2. params["feature"] \in Values
  BY <1>1, FormKeys, Contained DEF IInv, TypeOK
<1>3. /\ run' \in [Runs -> Values \cup {"none", "asked"}] /\ run'[r] = params["feature"]
      /\ \A t \in Runs \ {r} : run'[t] = run[t]
  BY <1>1, <1>2 DEF IInv, TypeOK
<1>4. Shapes'
  BY <1>1, SameForm DEF IInv, Shapes, nodeVars, pageVars
<1>5. TypeOK'
  BY <1>1, <1>3, <1>4, Typed DEF IInv, TypeOK, nodeVars, pageVars, history
<1>6. FileStartsTheNode'
  BY <1>1, Written DEF IInv, Shapes, FileStartsTheNode
<1>7. \A t \in Sessions \ {r} : Waits(t)' /\ Knows(t)'
  BY <1>1, <1>3, Bystander DEF nodeVars, history, Runs
<1>8. r \in Sessions => Waits(r)' /\ Knows(r)'
  <2> SUFFICES ASSUME r \in Sessions
               PROVE  Waits(r)' /\ Knows(r)'
    OBVIOUS
  <2>1. Sent' = Sent /\ Waits(r) /\ Knows(r) /\ run[r] # "none"
    BY <1>1, SameForm DEF IInv
  <2>2. Waits(r)'
    BY <1>1, <1>3, <2>1 DEF Waits, Filled
  <2>3. Knows(r)'
    BY <1>1, <1>3, <2>1 DEF Knows, Answered, Driven, nodeVars, history
  <2> QED
    BY <2>2, <2>3
<1> QED
  BY <1>1, <1>4, <1>5, <1>6, <1>7, <1>8 DEF IInv, nodeVars

(* A run ends: only its own session hears of it, and every other one keeps *)
(* in mind what the driver has been given.                                 *)
LEMMA Ending ==
  ASSUME IInv, NEW r \in Runs, RunPassesOver(r) \/ RunWrites(r) \/ RunFails(r)
  PROVE  IInv'
<1>1. /\ UNCHANGED <<form, defaults, file, whole, params, pageVars, data, late>>
      /\ run[r] # "none" /\ run' = [run EXCEPT ![r] = "none"]
      /\ \E outcome \in {"applied", "failed"} :
           /\ pc' = IF r \in Sessions /\ pc[r] = "apply" THEN [pc EXCEPT ![r] = outcome] ELSE pc
           /\ \/ UNCHANGED <<device, history>> /\ (~Driven \/ outcome = "failed")
              \/ Driven /\ run[r] \in Values /\ Drives(r, run[r])
  <2>1. CASE RunPassesOver(r)
    BY <2>1 DEF RunPassesOver, RunEnds, Outcomes
  <2>2. CASE RunWrites(r)
    BY <2>2, NamesAssumption DEF RunWrites, RunEnds, Outcomes
  <2>3. CASE RunFails(r)
    BY <2>3, NamesAssumption DEF RunFails, RunEnds
  <2> QED
    BY <2>1, <2>2, <2>3
<1>2. /\ run' \in [Runs -> Values \cup {"none", "asked"}] /\ run'[r] = "none"
      /\ \A t \in Runs \ {r} : run'[t] = run[t]
  BY <1>1 DEF IInv, TypeOK
<1>3. /\ pc' \in [Sessions -> Steps] /\ \A t \in Sessions \ {r} : pc'[t] = pc[t]
      /\ r \in Sessions /\ pc[r] = "apply" => pc'[r] \in {"applied", "failed"}
      /\ r \in Sessions /\ pc[r] # "apply" => pc'[r] = pc[r]
  BY <1>1 DEF IInv, TypeOK, Steps
<1>4. /\ alone' = alone /\ since' \in [Sessions -> SUBSET Values]
      /\ device' \in Values \cup {Lacking, Closed}
      /\ device' # Closed => form = "features"
      /\ \A t \in Sessions :
           /\ since[t] \subseteq since'[t]
           /\ t # r /\ Answered(t) /\ device' \in Values => device' = device \/ device' \in since'[t]
  <2>1. CASE UNCHANGED <<device, history>>
    BY <2>1 DEF IInv, TypeOK, history
  <2>2. CASE Driven /\ run[r] \in Values /\ Drives(r, run[r])
    <3>1. form = "features"
      BY <2>2, NamesAssumption DEF Driven, IInv
    <3> QED
      BY <2>2, <3>1, Driver
  <2> QED
    BY <1>1, <2>1, <2>2
<1>5. Shapes'
  BY <1>1, SameForm DEF IInv, Shapes, pageVars
<1>6. TypeOK'
  BY <1>1, <1>2, <1>3, <1>4, <1>5, Typed DEF IInv, TypeOK, pageVars
<1>7. FileStartsTheNode'
  BY <1>1, Written DEF IInv, Shapes, FileStartsTheNode
<1>8. \A t \in Sessions \ {r} : Waits(t)' /\ Knows(t)'
  BY <1>1, <1>2, <1>3, <1>4, Bystander DEF Runs
<1>9. r \in Sessions => Waits(r)' /\ Knows(r)'
  <2> SUFFICES ASSUME r \in Sessions
               PROVE  Waits(r)' /\ Knows(r)'
    OBVIOUS
  <2>1. Sent' = Sent /\ Waits(r) /\ Knows(r)
    BY <1>1, SameForm DEF IInv
  <2>2. Waits(r)'
    BY <1>1, <1>2, <1>3, <2>1 DEF Waits, Filled
  <2>3. pc[r] # "applied"
    BY <1>1, <2>1 DEF Waits
  <2>4. ASSUME form = "features", pc'[r] = "applied", device' \in Values
        PROVE  device' \in since'[r]
    <3>1. pc[r] = "apply"
      BY <1>3, <2>3, <2>4
    <3>2. Driven /\ run[r] \in Values /\ Drives(r, run[r])
      BY <1>1, <2>4, <3>1 DEF Driven, IInv, TypeOK
    <3> QED
      BY <1>4, <2>1, <2>4, <3>1, <3>2 DEF Knows, Drives
  <2>5. Answered(r)' => Answered(r)
    BY <1>3 DEF Answered
  <2>6. Knows(r)'
    BY <1>1, <1>2, <1>4, <2>1, <2>4, <2>5, NamesAssumption DEF Knows, Driven
  <2> QED
    BY <2>2, <2>6
<1> QED
  BY <1>1, <1>4, <1>5, <1>6, <1>7, <1>8, <1>9 DEF IInv

-----------------------------------------------------------------------------
(* Around the page. *)

(* Initialization and cleanup change the driver, and nobody is deceived.   *)
LEMMA Opening ==
  ASSUME IInv, Initialize \/ Cleanup
  PROVE  IInv'
<1>1. /\ UNCHANGED <<form, defaults, file, whole, params, pageVars, pc, data, late>>
      /\ form = "features"
      /\ run' = run \/ run' = [run EXCEPT !["init"] = "asked"]
  BY DEF Initialize, Cleanup, IInv
<1>2. PICK r \in {"init", "nobody"}, value \in Values \cup {Lacking, Closed} : Drives(r, value)
  BY DEF Initialize, Cleanup
<1>3. /\ device' \in Values \cup {Lacking, Closed} /\ alone' = alone
      /\ since' \in [Sessions -> SUBSET Values]
      /\ \A t \in Sessions :
           /\ since[t] \subseteq since'[t]
           /\ Answered(t) /\ device' \in Values => device' \in since'[t]
  BY <1>2, Driver, NamesAssumption
<1>4. /\ run' \in [Runs -> Values \cup {"none", "asked"}]
      /\ \A t \in Sessions : run'[t] = run[t]
  BY <1>1, NamesAssumption DEF IInv, TypeOK, Runs
<1>5. Shapes'
  BY <1>1, SameForm DEF IInv, Shapes, pageVars
<1>6. TypeOK'
  BY <1>1, <1>3, <1>4, <1>5, Typed DEF IInv, TypeOK, pageVars
<1>7. FileStartsTheNode'
  BY <1>1, Written DEF IInv, Shapes, FileStartsTheNode
<1>8. \A t \in Sessions : Waits(t)' /\ Knows(t)'
  BY <1>1, <1>3, <1>4, Bystander
<1> QED
  BY <1>1, <1>5, <1>6, <1>7, <1>8 DEF IInv

(* A node that is started anew has the file's parameters and no driver.    *)
LEMMA Restarting ==
  ASSUME IInv, NodeRestarts
  PROVE  IInv'
<1>1. /\ UNCHANGED <<form, defaults, file, pageVars, data>>
      /\ Sets("nobody", file) /\ device' = Closed
      /\ late' = [s \in Sessions |-> Nothing]
  BY DEF NodeRestarts
<1>2. file \in [Keys -> Contents] /\ \A k \in Keys : file[k] \in Given(k)
  BY DEF IInv, Shapes, FileStartsTheNode
<1>3. /\ params' = file
      /\ alone' \in [Sessions -> BOOLEAN] /\ since' \in [Sessions -> SUBSET Values]
      /\ \A t \in Sessions :
           /\ ~alone'[t] /\ since[t] \subseteq since'[t]
           /\ form = "features" /\ Answered(t) => params'["feature"] \in since'[t]
  BY <1>1, <1>2, Setter, NamesAssumption
<1>4. whole' \in [file : BOOLEAN, node : BOOLEAN]
  <2>1. whole' = [whole EXCEPT !.node = whole.file]
    BY DEF NodeRestarts
  <2> QED
    BY <2>1 DEF IInv, TypeOK
<1>5. /\ pc' \in [Sessions -> Steps] /\ run' \in [Runs -> Values \cup {"none", "asked"}]
      /\ \A s \in Sessions : (pc'[s] = pc[s] \/ pc'[s] = "lost") /\ run'[s] = "none"
  BY DEF NodeRestarts, IInv, TypeOK, Steps, Runs
<1>6. Shapes'
  BY <1>1, <1>2, <1>3, SameForm DEF IInv, Shapes, pageVars
<1>7. TypeOK'
  <2>1. \A s \in Sessions : pc'[s] = "idle" => data'[s] = Nothing
    BY <1>1, <1>5 DEF IInv, TypeOK
  <2> QED
    BY <1>1, <1>2, <1>3, <1>4, <1>5, <1>6, <2>1, Typed DEF IInv, TypeOK, pageVars
<1>8. FileStartsTheNode'
  BY <1>1, Written DEF IInv, Shapes, FileStartsTheNode
<1>9. \A s \in Sessions : Waits(s)' /\ Knows(s)'
  <2> SUFFICES ASSUME NEW s \in Sessions
               PROVE  Waits(s)' /\ Knows(s)'
    OBVIOUS
  <2>1. Waits(s) /\ Sent' = Sent
    BY <1>1, SameForm DEF IInv
  <2>2. Waits(s)'
    BY <1>1, <1>5, <2>1 DEF Waits, Filled
  <2>3. Answered(s)' => Answered(s)
    BY <1>5 DEF Answered
  <2>4. Knows(s)'
    BY <1>1, <1>3, <1>5, <2>3, NamesAssumption DEF Knows, Driven
  <2> QED
    BY <2>2, <2>4
<1> QED
  BY <1>1, <1>6, <1>7, <1>8, <1>9 DEF IInv

-----------------------------------------------------------------------------
(* The inductive invariant holds in every behaviour. *)
THEOREM Invariance == Spec => []IInv
<1>1. Init => IInv
  <2> SUFFICES ASSUME Init
               PROVE  IInv
    OBVIOUS
  <2>1. form \in Forms /\ Keys \subseteq {"number", "choice", "feature", "hidden"} /\ Shown \subseteq Keys
    BY FormKeys, KeysKnown DEF Init
  <2>2. /\ file \in [Keys -> Contents] /\ \A k \in Keys : file[k] \in Given(k)
        /\ params = file
    <3>1. /\ DOMAIN file = Keys /\ file \in [Keys -> Values \cup Numbers]
          /\ \A k \in Keys : file[k] \in Given(k)
      BY DEF Init
    <3> QED
      BY <3>1 DEF Init, Contents
  <2>3. /\ field \in [Sessions -> [Shown -> Contents \cup {Empty}]]
        /\ \A s \in Sessions : \A k \in Shown : field[s][k] \in Given(k)
    <3>1. PICK v \in Values, n \in Numbers :
            field = [s \in Sessions |-> [k \in Shown |-> IF k = "number" THEN n ELSE v]]
      BY DEF Init
    <3> QED
      BY <3>1 DEF Contents, Given
  <2>4. /\ data \in [Sessions -> {Nothing} \cup [Sent -> Contents \cup {Empty}]]
        /\ late \in [Sessions -> {Nothing} \cup [Sent -> Contents]]
        /\ \A s \in Sessions : late[s] = Nothing /\ data[s] = Nothing
    BY DEF Init
  <2>5. defaults \in Values
    <3>1. CASE "hidden" \in Keys
      BY <2>1, <2>2, <3>1, Contained DEF Init
    <3>2. CASE "hidden" \notin Keys
      BY <3>2 DEF Init
    <3> QED
      BY <3>1, <3>2
  <2>6. whole \in [file : BOOLEAN, node : BOOLEAN]
    <3>1. PICK w \in {FALSE, "number" \in Shown} : whole = [file |-> w, node |-> w]
      BY DEF Init
    <3>2. w \in BOOLEAN
      <4>1. ("number" \in Shown) \in BOOLEAN /\ FALSE \in BOOLEAN
        OBVIOUS
      <4>2. \A x \in {FALSE, "number" \in Shown} : x \in BOOLEAN
        BY <4>1, Zenon
      <4> QED
        BY <4>2
    <3> QED
      BY <3>1, <3>2, Zenon
  <2>7. /\ matrix \in [Sessions -> Values \cup {Empty}] /\ pc \in [Sessions -> Steps]
        /\ run \in [Runs -> Values \cup {"none", "asked"}]
        /\ alone \in [Sessions -> BOOLEAN] /\ since \in [Sessions -> SUBSET Values]
        /\ device = Closed
        /\ \A s \in Sessions : pc[s] = "idle" /\ ~alone[s]
    BY DEF Init, Steps
  <2>8. TypeOK
    <3>1. \A s \in Sessions : DOMAIN field[s] = Shown /\ DOMAIN late[s] \subseteq Keys
      BY <2>3, <2>4, NoKeys
    <3> QED
      BY <2>1, <2>2, <2>3, <2>4, <2>5, <2>6, <2>7, <3>1 DEF TypeOK
  <2>9. Shapes /\ FileStartsTheNode
    BY <2>2, <2>3, <2>4 DEF Shapes, FileStartsTheNode
  <2>10. \A s \in Sessions : Waits(s) /\ Knows(s)
    BY <2>4, <2>7 DEF Waits, Knows, Answered
  <2> QED
    BY <2>7, <2>8, <2>9, <2>10 DEF IInv
<1>2. IInv /\ [Next]_vars => IInv'
  <2> SUFFICES ASSUME IInv, [Next]_vars
               PROVE  IInv'
    OBVIOUS
  <2>1. ASSUME NEW s \in Sessions, SessionStep(s)
        PROVE  IInv'
    BY <2>1, Edits, Presses, Gets, SetsServed, LateSets, Replies, AsksRun, Tells DEF SessionStep
  <2>2. ASSUME NEW r \in Runs, RunStep(r)
        PROVE  IInv'
    BY <2>2, Reading, Ending DEF RunStep
  <2>3. CASE Initialize \/ Cleanup \/ NodeRestarts
    BY <2>3, Opening, Restarting
  <2>4. CASE Calibrate
    BY <2>4, Edits
  <2>5. CASE UNCHANGED vars
    <3>1. TypeOK'
      BY <2>5 DEF IInv, TypeOK, vars, nodeVars, pageVars, history, Keys, Shown, Form
    <3>2. Shapes' /\ FileStartsTheNode'
      BY <2>5, SameForm DEF IInv, Shapes, FileStartsTheNode, vars, nodeVars, pageVars
    <3>3. \A s \in Sessions : Waits(s)' /\ Knows(s)'
      BY <2>5, Bystander DEF vars, nodeVars, history
    <3> QED
      BY <2>5, <3>1, <3>2, <3>3 DEF IInv, vars, nodeVars
  <2> QED
    BY <2>1, <2>2, <2>3, <2>4, <2>5 DEF Next
<1> QED
  BY <1>1, <1>2, PTL DEF Spec

(* Every field, request and run holds what its key can hold. *)
THEOREM TypeCorrect == Spec => []TypeOK
<1>1. IInv => TypeOK
  BY DEF IInv
<1> QED
  BY <1>1, Invariance, PTL

(* Whatever has been typed, the file has a value for every key the node    *)
(* reads when it starts.                                                   *)
THEOREM FileIsWhole == Spec => []FileStartsTheNode
<1>1. IInv => FileStartsTheNode
  BY DEF IInv
<1> QED
  BY <1>1, Invariance, PTL

(* Told that the parameters have been applied, the operator finds them in  *)
(* the node unless somebody else has set some, and no driver that has the  *)
(* feature is left with what it was before the click.                      *)
THEOREM AppliedAsTold == Spec => ToldIsApplied
<1>1. ASSUME IInv, NEW s \in Sessions, ToldApplied(s) \/ ToldTransform(s), alone[s]
      PROVE  \A k \in DOMAIN data[s] : params[k] = data[s][k]
  <2>1. pc[s] \in {"applied", "answered"}
    BY <1>1 DEF ToldApplied, ToldTransform
  <2>2. Waits(s) /\ Knows(s)
    BY <1>1 DEF IInv
  <2>3. DOMAIN data[s] = Sent
    BY <2>1, <2>2 DEF Waits, Filled
  <2> QED
    BY <1>1, <2>1, <2>2, <2>3 DEF Knows, Answered
<1>2. ASSUME IInv, NEW s \in Sessions, ToldApplied(s), Driven
      PROVE  device \in since[s]
  <2>1. form = "features"
    BY <1>2, NamesAssumption DEF IInv, Driven
  <2> QED
    BY <1>2, <2>1 DEF IInv, Knows, ToldApplied
<1>3. IInv => \A s \in Sessions :
                /\ (ToldApplied(s) \/ ToldTransform(s)) /\ alone[s] =>
                     \A k \in DOMAIN data[s] : params[k] = data[s][k]
                /\ ToldApplied(s) /\ Driven => device \in since[s]
  BY <1>1, <1>2
<1> QED
  BY <1>3, Invariance, PTL DEF Spec, ToldIsApplied

=============================================================================
