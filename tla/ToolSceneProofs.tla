--------------------------- MODULE ToolSceneProofs ---------------------------
(***************************************************************************)
(* The planning scene follows the tool controller, for any number of tools *)
(* and of calls.  The proof follows the one call that is under way while   *)
(* nobody meddles with it: at every step of it the scene and the active    *)
(* tool are known.                                                         *)
(***************************************************************************)
EXTENDS ToolScene, TLAPS

(* A swap is under way only while the node is busy, and only one is; a     *)
(* node that has been initialized and not cleaned up can publish.          *)
SwapsOK ==
  /\ \A c \in Calls :
       /\ pc[c] = "none" <=> kind[c] = "none"
       /\ kind[c] = "swap" <=> want[c] # NoTool
       /\ pc[c] \in {"look", "attach", "keep"} => kind[c] = "swap"
       /\ kind[c] \in {"swap", "detach"} => state = "busy"
  /\ \A c, d \in Calls :
       kind[c] \in {"swap", "detach"} /\ kind[d] \in {"swap", "detach"} => c = d
  /\ state = "busy" => \E c \in Calls : kind[c] \in {"swap", "detach"}
  /\ state \in {"idle", "busy", "error_recoverable"} => publisher

Scene(flange, rest) == attached = flange /\ world = rest

(* The scene at each step of the call that is under way. *)
Follows(c) ==
  /\ pc[c] \in {"look", "detach", "complete", "recoverable", "unexpected"} =>
       Scene(Active, {})
  /\ pc[c] = "remove" =>
       /\ publisher /\ active # NoTool /\ leaving[c] = active
       /\ Scene({}, {active})
  /\ pc[c] = "forget" => Scene({}, {})
  /\ pc[c] \in {"then", "attach"} => active = NoTool /\ Scene({}, {})
  /\ pc[c] = "keep" => active = NoTool /\ Scene({want[c]}, {})

Undisturbed ==
  /\ \A c, d \in Working : c = d
  /\ Working # {} => state \notin {"initializing", "cleaning_up"}
  /\ ~publisher => active = NoTool
  /\ Working = {} => Scene(Active, {})
  /\ \A c \in Working : Follows(c)

IInv == TypeOK /\ SwapsOK /\ (~meddled => Undisturbed)

USE DEF NodeStates, Operational, Labels

-----------------------------------------------------------------------------
(* The events of the swap and of the lifecycle services.                   *)
LEMMA Fires ==
  ASSUME NEW s \in NodeStates
  PROVE  /\ \A event \in Events : Fire(event, s) \in NodeStates
         /\ Allowed("start_operation", s) => s = "idle" /\ Fire("start_operation", s) = "busy"
         /\ s = "busy" => /\ Fire("complete", s) = "idle"
                         /\ Fire("fail_recoverable", s) = "error_recoverable"
                         /\ Fire("fail_non_recoverable", s) = "error"
         /\ s = "cleaning_up" => Fire("complete", s) = "not_initialized"
         /\ s = "initializing" => /\ Fire("complete", s) = "idle"
                                 /\ Fire("fail_recoverable", s) = "error_recoverable"
                                 /\ Fire("fail_non_recoverable", s) = "error"
         /\ Allowed("retry_from_recoverable", s) =>
              s = "error_recoverable" /\ Fire("retry_from_recoverable", s) = "idle"
         /\ Allowed("start_cleanup", s) =>
              s # "busy" /\ Fire("start_cleanup", s) = "cleaning_up"
         /\ Allowed("start_initialization", s) =>
              s # "busy" /\ Fire("start_initialization", s) = "initializing"
  BY DEF Events, Fire, Allowed, Sources, Target

(* A step in the middle of a call is right when it is right for that call. *)
LEMMA Onward ==
  ASSUME IInv, NEW c \in Calls, NEW label \in Labels, pc[c] # "none", label # "none",
         Goto(c, label), UNCHANGED <<state, publisher, tools, kind, want, meddled>>,
         label \in {"look", "attach", "keep"} => kind[c] = "swap",
         leaving' \in [Calls -> Tools \cup {NoTool}],
         active' \in Tools \cup {NoTool}, attached' \subseteq Tools, world' \subseteq Tools,
         Undisturbed => Follows(c)' /\ (~publisher => active' = NoTool)
  PROVE  IInv'
<1>1. pc' = [pc EXCEPT ![c] = label] /\ pc \in [Calls -> Labels]
  BY DEF Goto, IInv, TypeOK
<1>2. TypeOK'
  BY <1>1 DEF IInv, TypeOK
<1>3. SwapsOK'
  BY <1>1 DEF IInv, SwapsOK
<1>4. Working' = Working /\ c \in Working
  BY <1>1 DEF Working
<1>5. ~meddled' => Undisturbed'
  <2> SUFFICES ASSUME Undisturbed
               PROVE  Undisturbed'
    BY DEF IInv
  <2>1. \A d \in Working : d = c
    BY <1>4 DEF Undisturbed
  <2> QED
    BY <1>4, <2>1 DEF Undisturbed
<1> QED
  BY <1>2, <1>3, <1>5 DEF IInv

(* The steps of a call between its start and its return. *)
LEMMA Middle ==
  ASSUME IInv, NEW c \in Calls,
         \/ Look(c) \/ Detach(c) \/ Remove(c) \/ Forget(c) \/ Attach(c) \/ Keep(c)
         \/ Then(c) /\ kind[c] # "reload"
  PROVE  IInv'
<1>0. /\ leaving \in [Calls -> Tools \cup {NoTool}] /\ want \in [Calls -> Tools \cup {NoTool}]
      /\ active \in Tools \cup {NoTool} /\ attached \subseteq Tools /\ world \subseteq Tools
      /\ pc \in [Calls -> Labels] /\ kind \in [Calls -> {"none", "swap", "detach", "reload"}]
      /\ tools \subseteq Tools
  BY DEF IInv, TypeOK
<1>1. pc[c] # "none" /\ c \in Working
  BY DEF Look, Detach, Remove, Forget, Attach, Keep, Then, At, Working
<1>2. Undisturbed => Follows(c) /\ (~publisher => active = NoTool)
  BY <1>1 DEF Undisturbed
<1>3. CASE Look(c)
  <2>1. PICK label \in {"recoverable", "complete", "detach"} : Goto(c, label)
    BY <1>3 DEF Look
  <2>2. pc'[c] = label /\ Active' = Active
    BY <1>0, <1>3, <2>1 DEF Goto, Look, Active
  <2>3. Undisturbed => Follows(c)'
    BY <1>2, <1>3, <2>2 DEF Look, At, Follows, Scene, sceneVars
  <2> QED
    BY <1>0, <1>1, <1>2, <1>3, <2>1, <2>3, Onward DEF Look, sceneVars
<1>4. CASE Detach(c)
  <2>1. CASE active = NoTool
    <3>1. Goto(c, "then") /\ UNCHANGED sceneVars /\ active' = active
          /\ leaving' \in [Calls -> Tools \cup {NoTool}]
      BY <1>0, <1>4, <2>1 DEF Detach
    <3>2. pc'[c] = "then"
      BY <1>0, <3>1 DEF Goto
    <3>3. Undisturbed => Follows(c)'
      BY <1>2, <1>4, <2>1, <3>1, <3>2 DEF Detach, At, Follows, Scene, sceneVars, Active
    <3> QED
      BY <1>0, <1>1, <1>2, <1>4, <3>1, <3>3, Onward DEF Detach, sceneVars
  <2>2. CASE active # NoTool /\ ~publisher
    <3>1. Goto(c, "unexpected") /\ UNCHANGED sceneVars /\ active' = active
          /\ leaving' \in [Calls -> Tools \cup {NoTool}]
      BY <1>0, <1>4, <2>2 DEF Detach
    <3> QED
      BY <1>0, <1>1, <1>2, <1>4, <2>2, <3>1, Onward DEF Detach, sceneVars
  <2>3. CASE active # NoTool /\ publisher
    <3>1. /\ Goto(c, "remove") /\ active' = active /\ leaving' = [leaving EXCEPT ![c] = active]
          /\ attached' = attached \ {active} /\ world' = world \cup (attached \cap {active})
      BY <1>4, <2>3 DEF Detach
    <3>2. pc'[c] = "remove" /\ leaving'[c] = active /\ publisher'
          /\ leaving' \in [Calls -> Tools \cup {NoTool}]
      BY <1>0, <1>4, <2>3, <3>1 DEF Goto, Detach
    <3>3. Undisturbed => Follows(c)'
      BY <1>2, <1>4, <2>3, <3>1, <3>2 DEF Detach, At, Follows, Scene, Active
    <3> QED
      BY <1>0, <1>1, <2>3, <1>4, <3>1, <3>2, <3>3, Onward DEF Detach
  <2> QED
    BY <2>1, <2>2, <2>3 DEF IInv, TypeOK
<1>5. CASE Remove(c)
  <2>1. CASE publisher
    <3>1. Goto(c, "forget") /\ world' = world \ {leaving[c]} /\ active' = active
          /\ attached' = attached /\ leaving' = leaving
      BY <1>5, <2>1 DEF Remove
    <3>2. pc'[c] = "forget"
      BY <1>0, <3>1 DEF Goto
    <3>3. Undisturbed => Follows(c)'
      BY <1>2, <1>5, <3>1, <3>2 DEF Remove, At, Follows, Scene
    <3> QED
      BY <1>0, <1>1, <1>2, <1>5, <3>1, <3>3, Onward DEF Remove
  <2>2. CASE ~publisher
    <3>1. Goto(c, "unexpected") /\ ~Undisturbed
      BY <1>2, <1>5, <2>2 DEF Remove, Follows, At
    <3> QED
      BY <1>0, <1>1, <1>5, <2>2, <3>1, Onward DEF Remove
  <2> QED
    BY <2>1, <2>2
<1>6. CASE Forget(c)
  <2>1. pc'[c] = "then" /\ active' = NoTool /\ Goto(c, "then")
    BY <1>0, <1>6 DEF Goto, Forget
  <2>2. Undisturbed => Follows(c)'
    BY <1>2, <1>6, <2>1 DEF Forget, At, Follows, Scene, sceneVars
  <2> QED
    BY <1>0, <1>1, <1>6, <2>1, <2>2, Onward DEF Forget, sceneVars
<1>7. CASE Attach(c)
  <2>1. CASE want[c] \in tools
    <3>1. Goto(c, "keep") /\ attached' = attached \cup {want[c]} /\ world' = world \ {want[c]}
          /\ active' = active /\ leaving' = leaving /\ want' = want /\ kind[c] = "swap"
      BY <1>7, <2>1 DEF Attach, IInv, SwapsOK, At
    <3>2. pc'[c] = "keep"
      BY <1>0, <3>1 DEF Goto
    <3>3. Undisturbed => Follows(c)'
      BY <1>2, <1>7, <3>1, <3>2 DEF Attach, At, Follows, Scene
    <3> QED
      BY <1>0, <1>1, <1>2, <1>7, <2>1, <3>1, <3>3, Onward DEF Attach
  <2>2. CASE want[c] \notin tools
    <3>1. Goto(c, "unexpected") /\ UNCHANGED sceneVars /\ active' = active
          /\ leaving' = leaving
      BY <1>7, <2>2 DEF Attach
    <3>2. pc'[c] = "unexpected"
      BY <1>0, <3>1 DEF Goto
    <3>3. Undisturbed => Follows(c)'
      BY <1>2, <1>7, <3>1, <3>2 DEF Attach, At, Follows, Scene, sceneVars, Active
    <3> QED
      BY <1>0, <1>1, <1>2, <1>7, <3>1, <3>3, Onward DEF Attach, sceneVars
  <2> QED
    BY <2>1, <2>2
<1>8. CASE Keep(c)
  <2>1. pc'[c] = "complete" /\ active' = want[c] /\ Goto(c, "complete")
        /\ kind[c] = "swap" /\ want[c] # NoTool /\ state = "busy" /\ publisher
    BY <1>0, <1>8 DEF Goto, Keep, At, IInv, SwapsOK
  <2>2. Undisturbed => Follows(c)'
    BY <1>2, <1>8, <2>1 DEF Keep, At, Follows, Scene, sceneVars, Active
  <2> QED
    BY <1>0, <1>1, <1>8, <2>1, <2>2, Onward DEF Keep, sceneVars
<1>9. CASE Then(c) /\ kind[c] # "reload"
  <2>1. kind[c] \in {"detach", "swap"}
    BY <1>0, <1>1, <1>9 DEF IInv, SwapsOK
  <2>2. PICK label \in {"complete", "attach"} :
          Goto(c, label) /\ (label = "attach" => kind[c] = "swap")
            /\ UNCHANGED <<tools, kind, want, leaving>>
    BY <1>9, <2>1 DEF Then
  <2>3. pc'[c] = label
    BY <1>0, <2>2 DEF Goto
  <2>4. Undisturbed => Follows(c)'
    BY <1>2, <1>9, <2>2, <2>3 DEF Then, At, Follows, Scene, sceneVars, Active
  <2> QED
    BY <1>0, <1>1, <1>2, <1>9, <2>2, <2>4, Onward DEF Then, sceneVars
<1> QED
  BY <1>3, <1>4, <1>5, <1>6, <1>7, <1>8, <1>9

-----------------------------------------------------------------------------
(* A call begins.  A swap finds the node idle, so that no other swap is    *)
(* under way; with a reload under way, it meddles.                         *)
LEMMA Begins ==
  ASSUME IInv, NEW c \in Calls, (\E t \in Tools \cup {NoTool} : Swap(c, t)) \/ Reload(c)
  PROVE  IInv'
<1>1. PICK k \in {"swap", "detach", "reload"}, t \in Tools \cup {NoTool}, label \in {"look", "detach"} :
        /\ At(c, "none") /\ Begin(c, k, t, label)
        /\ k = "swap" <=> t # NoTool
        /\ label = "look" => k = "swap"
        /\ k # "reload" => Allowed("start_operation", state) /\ state' = Fire("start_operation", state)
        /\ k = "reload" => state' = state
        /\ UNCHANGED <<publisher, tools, active, leaving, sceneVars>>
  BY DEF Swap, Reload, NoTool
<1>2. /\ pc \in [Calls -> Labels] /\ kind \in [Calls -> {"none", "swap", "detach", "reload"}]
      /\ want \in [Calls -> Tools \cup {NoTool}] /\ state \in NodeStates
  BY DEF IInv, TypeOK
<1>3. /\ pc' = [pc EXCEPT ![c] = label] /\ kind' = [kind EXCEPT ![c] = k]
      /\ want' = [want EXCEPT ![c] = t] /\ pc[c] = "none"
      /\ meddled' = \/ meddled
                    \/ k = "reload" /\ (Working # {} \/ state \in Operational)
                    \/ \E d \in Working : kind[d] = "reload"
      /\ publisher' = publisher /\ tools' = tools /\ active' = active
      /\ leaving' = leaving /\ attached' = attached /\ world' = world
  BY <1>1 DEF Begin, Goto, At, sceneVars
<1>4. k # "reload" => state = "idle" /\ state' = "busy"
  BY <1>1, <1>2, Fires
<1>5. TypeOK'
  <2>1. state' \in NodeStates
    BY <1>1, <1>2, <1>4
  <2>2. meddled' \in BOOLEAN
    BY <1>3
  <2> QED
    BY <1>2, <1>3, <2>1, <2>2 DEF IInv, TypeOK
<1>6. SwapsOK'
  BY <1>1, <1>2, <1>3, <1>4 DEF IInv, SwapsOK
<1>7. ASSUME ~meddled'
      PROVE  Undisturbed'
  <2>1. /\ ~meddled /\ Undisturbed /\ \A d \in Working : kind[d] # "reload"
        /\ k = "reload" => Working = {} /\ state \notin Operational
    BY <1>3, <1>7 DEF IInv
  <2>2. Working = {}
    <3>1. \A d \in Working : kind[d] \in {"swap", "detach"} /\ state = "busy"
      BY <1>2, <2>1 DEF Working, IInv, SwapsOK
    <3> QED
      BY <1>4, <2>1, <3>1
  <2>3. Working' = {c} /\ Active' = Active
    BY <1>1, <1>2, <1>3, <2>2 DEF Working, Active
  <2>4. Follows(c)'
    BY <1>1, <1>2, <1>3, <2>1, <2>2, <2>3 DEF Undisturbed, Follows, Scene
  <2>5. state' \notin {"initializing", "cleaning_up"}
    BY <1>1, <1>4, <2>1
  <2> QED
    BY <1>3, <2>1, <2>3, <2>4, <2>5 DEF Undisturbed
<1> QED
  BY <1>5, <1>6, <1>7 DEF IInv

(* A call returns, and its closing event takes the node out of busy.       *)
LEMMA Returns ==
  ASSUME IInv, NEW c \in Calls, Close(c) \/ (Then(c) /\ kind[c] = "reload")
  PROVE  IInv'
<1>1. /\ Return(c) /\ UNCHANGED <<publisher, active, sceneVars, meddled>>
      /\ tools' = tools \/ tools' \subseteq Tools
      /\ pc[c] \in {"complete", "recoverable", "unexpected", "then"}
      /\ pc[c] = "then" => kind[c] = "reload"
  BY DEF Close, Then, At
<1>2. /\ pc \in [Calls -> Labels] /\ kind \in [Calls -> {"none", "swap", "detach", "reload"}]
      /\ want \in [Calls -> Tools \cup {NoTool}] /\ state \in NodeStates
      /\ leaving \in [Calls -> Tools \cup {NoTool}]
  BY DEF IInv, TypeOK
<1>3. /\ pc' = [pc EXCEPT ![c] = "none"] /\ kind' = [kind EXCEPT ![c] = "none"]
      /\ want' = [want EXCEPT ![c] = NoTool] /\ leaving' = [leaving EXCEPT ![c] = NoTool]
      /\ publisher' = publisher /\ active' = active /\ meddled' = meddled
      /\ attached' = attached /\ world' = world
  BY <1>1 DEF Return, Goto, sceneVars
<1>4. /\ kind[c] = "reload" => state' = state
      /\ kind[c] # "reload" => state = "busy" /\ state' \in {"idle", "error_recoverable", "error"}
  <2>1. CASE Then(c) /\ kind[c] = "reload"
    BY <2>1 DEF Then
  <2>2. CASE Close(c) /\ kind[c] = "reload"
    BY <2>2 DEF Close
  <2>3. CASE Close(c) /\ kind[c] # "reload"
    <3>1. state = "busy"
      BY <1>1, <1>2, <2>3 DEF IInv, SwapsOK
    <3> QED
      BY <1>2, <2>3, <3>1, Fires DEF Close, At
  <2> QED
    BY <2>1, <2>2, <2>3
<1>5. TypeOK'
  BY <1>1, <1>2, <1>3, <1>4 DEF IInv, TypeOK
<1>6. SwapsOK'
  <2>1. \A d \in Calls \ {c} : kind[c] # "reload" => kind[d] \notin {"swap", "detach"}
    BY <1>1, <1>2 DEF IInv, SwapsOK
  <2> QED
    BY <1>2, <1>3, <1>4, <2>1 DEF IInv, SwapsOK
<1>7. ASSUME ~meddled'
      PROVE  Undisturbed'
  <2>1. Undisturbed /\ c \in Working
    BY <1>1, <1>3, <1>7 DEF IInv, Working
  <2>2. Working = {c} /\ Follows(c)
    BY <2>1 DEF Undisturbed
  <2>3. Working' = {} /\ Active' = Active
    BY <1>2, <1>3, <2>2 DEF Working, Active
  <2>4. Scene(Active, {})
    BY <1>1, <2>2 DEF Follows, Scene, Active
  <2> QED
    BY <1>3, <2>1, <2>3, <2>4 DEF Undisturbed, Scene
<1> QED
  BY <1>5, <1>6, <1>7 DEF IInv

-----------------------------------------------------------------------------
(* The lifecycle services and their bodies.  A cleanup or an               *)
(* initialization that overlaps a call meddles with it, and a cleanup that *)
(* forgets a tool meddles with the scene.                                  *)
LEMMA Administers ==
  ASSUME IInv, Administer
  PROVE  IInv'
<1>1. /\ callVars' = callVars /\ attached' = attached /\ world' = world
      /\ pc' = pc /\ kind' = kind /\ want' = want /\ leaving' = leaving
  BY DEF Administer, Serve, Cleanup, Initialize, callVars, sceneVars
<1>2. /\ Working' = Working /\ state \in NodeStates
      /\ Working # {} /\ ~meddled /\ state # "busy" => \A d \in Working : kind[d] = "reload"
  BY <1>1 DEF Working, IInv, TypeOK, SwapsOK
<1>3. CASE \E event \in {"start_cleanup", "start_initialization"} : Serve(event)
  <2>1. PICK event \in {"start_cleanup", "start_initialization"} : Serve(event)
    BY <1>3
  <2>2. /\ state # "busy" /\ state' \in {"cleaning_up", "initializing"}
        /\ meddled' = (meddled \/ Working # {})
        /\ publisher' = publisher /\ tools' = tools /\ active' = active
    BY <1>2, <2>1, Fires DEF Serve
  <2>3. TypeOK' /\ SwapsOK'
    BY <1>1, <2>2 DEF IInv, TypeOK, SwapsOK
  <2>4. ~meddled' => Undisturbed'
    BY <1>1, <1>2, <2>2 DEF IInv, Undisturbed, Scene, Active
  <2> QED
    BY <2>3, <2>4 DEF IInv
<1>4. CASE Serve("retry_from_recoverable")
  <2>1. /\ state = "error_recoverable" /\ state' = "idle" /\ meddled' = meddled
        /\ publisher' = publisher /\ tools' = tools /\ active' = active
    BY <1>2, <1>4, Fires DEF Serve, IInv, TypeOK
  <2>2. TypeOK' /\ SwapsOK'
    BY <1>1, <2>1 DEF IInv, TypeOK, SwapsOK
  <2>3. ~meddled' => Undisturbed'
    BY <1>1, <1>2, <2>1 DEF IInv, Undisturbed, Scene, Active, Follows
  <2> QED
    BY <2>2, <2>3 DEF IInv
<1>5. CASE Cleanup
  <2>1. /\ state = "cleaning_up" /\ state' = "not_initialized"
        /\ publisher' = FALSE /\ tools' = {} /\ active' = NoTool
        /\ meddled' = (meddled \/ active # NoTool)
    BY <1>2, <1>5, Fires DEF Cleanup
  <2>2. TypeOK' /\ SwapsOK'
    BY <1>1, <2>1 DEF IInv, TypeOK, SwapsOK
  <2>3. ASSUME ~meddled'
        PROVE  Undisturbed'
    <3>1. Undisturbed /\ Working = {} /\ active = NoTool
      BY <2>1, <2>3 DEF IInv, Undisturbed
    <3> QED
      BY <1>1, <1>2, <2>1, <3>1 DEF Undisturbed, Scene, Active
  <2> QED
    BY <2>2, <2>3 DEF IInv
<1>6. CASE Initialize
  <2>1. /\ state = "initializing" /\ state' \in {"idle", "error", "error_recoverable"}
        /\ state' # "error" => publisher' = TRUE
        /\ publisher' \in BOOLEAN /\ tools' \subseteq Tools /\ meddled' = meddled
        /\ active' \in Tools \cup {NoTool}
        /\ active' = active \/ (~publisher /\ active' = NoTool)
        /\ publisher => publisher'
    BY <1>2, <1>6, Fires DEF Initialize, IInv, TypeOK
  <2>2. TypeOK' /\ SwapsOK'
    BY <1>1, <2>1 DEF IInv, TypeOK, SwapsOK
  <2>3. ASSUME ~meddled'
        PROVE  Undisturbed'
    <3>1. Undisturbed /\ Working = {} /\ active' = active
      BY <2>1, <2>3 DEF IInv, Undisturbed
    <3> QED
      BY <1>1, <1>2, <2>1, <3>1 DEF Undisturbed, Scene, Active
  <2> QED
    BY <2>2, <2>3 DEF IInv
<1> QED
  BY <1>3, <1>4, <1>5, <1>6 DEF Administer

-----------------------------------------------------------------------------
(* The inductive invariant holds in every behaviour. *)
THEOREM Invariance == Spec => []IInv
<1>1. Init => IInv
  BY DEF Init, IInv, TypeOK, SwapsOK, Undisturbed, Working, Scene, Active
<1>2. IInv /\ [Next]_vars => IInv'
  <2> SUFFICES ASSUME IInv, [Next]_vars
               PROVE  IInv'
    OBVIOUS
  <2>1. ASSUME NEW c \in Calls, (\E t \in Tools \cup {NoTool} : Swap(c, t)) \/ Reload(c)
        PROVE  IInv'
    BY <2>1, Begins
  <2>2. ASSUME NEW c \in Calls, CallStep(c)
        PROVE  IInv'
    BY <2>2, Middle, Returns DEF CallStep
  <2>3. CASE Administer
    BY <2>3, Administers
  <2>4. CASE UNCHANGED vars
    BY <2>4 DEF vars, callVars, sceneVars, IInv, TypeOK, SwapsOK, Undisturbed, Working,
                Follows, Scene, Active
  <2> QED
    BY <2>1, <2>2, <2>3, <2>4 DEF Next
<1> QED
  BY <1>1, <1>2, PTL DEF Spec

(* The scene and what the node keeps of its calls have their types. *)
THEOREM TypeCorrect == Spec => []TypeOK
<1>1. IInv => TypeOK
  BY DEF IInv
<1> QED
  BY <1>1, Invariance, PTL

(* The flange never carries two tools, and between calls the scene shows   *)
(* the active tool and nothing else, for any number of swaps, of failures  *)
(* and of tools (tool_controller_node.py, _swap_cb, _detach, _attach),     *)
(* unless a reload has overlapped another call or a cleanup has forgotten  *)
(* a tool.                                                                 *)
THEOREM SceneStaysInStep == Spec => []SceneFollows
<1>1. IInv => SceneFollows
  <2> SUFFICES ASSUME IInv, ~meddled
               PROVE  SceneFollows
    BY DEF SceneFollows
  <2>1. Undisturbed
    BY DEF IInv
  <2>2. \A s, t \in attached : s = t
    <3>1. CASE Working = {}
      BY <2>1, <3>1 DEF Undisturbed, Scene, Active
    <3>2. CASE Working # {}
      <4>1. PICK c \in Working : Follows(c)
        BY <2>1, <3>2 DEF Undisturbed
      <4>2. pc[c] \in Labels \ {"none"}
        BY <4>1 DEF Working, IInv, TypeOK
      <4> QED
        BY <4>1, <4>2 DEF Follows, Scene, Active
    <3> QED
      BY <3>1, <3>2
  <2> QED
    BY <2>1, <2>2 DEF SceneFollows, Undisturbed, Scene
<1> QED
  BY <1>1, Invariance, PTL

-----------------------------------------------------------------------------
(* The ownership protocol, as the tool controller keeps it: a swap or a    *)
(* detach holds the node, and so does a lifecycle service, which is taken  *)
(* for one more call; a reload never does.                                 *)
Swaps == {c \in Calls : kind[c] \in {"swap", "detach"}}

ToolOwner == INSTANCE Ownership WITH
  Callers <- Calls \cup {"service"},
  holders <- Swaps \cup (IF state \in {"initializing", "cleaning_up"}
                           THEN {"service"} ELSE {}),
  mode <- IF state \in Operational THEN "held" ELSE "free"

(* A step that leaves the node in operation leaves it to the same call.    *)
LEMMA ToolKept ==
  ASSUME IInv, [Next]_vars, state \in Operational, state' \in Operational
  PROVE  state' = state /\ Swaps' = Swaps
<1>0. /\ kind \in [Calls -> {"none", "swap", "detach", "reload"}]
      /\ \A c \in Calls : pc[c] = "none" <=> kind[c] = "none"
      /\ \A c \in Swaps : state = "busy"
  BY DEF IInv, TypeOK, SwapsOK, Swaps
<1>1. ASSUME NEW c \in Calls, NEW t \in Tools \cup {NoTool}, Swap(c, t) PROVE FALSE
  BY <1>1 DEF Swap, Allowed, Sources
<1>2. ASSUME NEW c \in Calls, Reload(c) PROVE state' = state /\ Swaps' = Swaps
  BY <1>0, <1>2 DEF Reload, Begin, At, Swaps
<1>3. ASSUME NEW c \in Calls, Look(c) \/ Detach(c) \/ Remove(c) \/ Forget(c) \/ Attach(c) \/ Keep(c)
      PROVE  state' = state /\ Swaps' = Swaps
  BY <1>3 DEF Look, Detach, Remove, Forget, Attach, Keep, Swaps
<1>4. ASSUME NEW c \in Calls, Then(c) PROVE state' = state /\ Swaps' = Swaps
  <2>1. CASE kind[c] = "reload"
    BY <1>0, <1>4, <2>1 DEF Then, Return, Swaps
  <2>2. CASE kind[c] # "reload"
    <3>1. kind[c] \in {"swap", "detach"}
      BY <1>0, <1>4, <2>2 DEF Then, At
    <3> QED
      BY <1>4, <3>1 DEF Then, Swaps
  <2> QED
    BY <2>1, <2>2
<1>5. ASSUME NEW c \in Calls, Close(c) PROVE state' = state /\ Swaps' = Swaps
  <2>1. CASE kind[c] = "reload"
    BY <1>0, <1>5, <2>1 DEF Close, Return, Swaps
  <2>2. CASE kind[c] # "reload"
    <3>1. c \in Swaps /\ state = "busy"
      BY <1>0, <1>5, <2>2 DEF Close, Swaps
    <3>2. state' \notin Operational
      BY <1>5, <2>2, <3>1, Fires DEF Close, At
    <3> QED
      BY <3>2
  <2> QED
    BY <2>1, <2>2
<1>6. CASE Administer
  <2>1. ASSUME NEW event \in {"start_cleanup", "start_initialization", "retry_from_recoverable"}
        PROVE  ~Serve(event)
    BY DEF Serve, Allowed, Sources
  <2>2. CASE Cleanup
    BY <2>2, Fires DEF Cleanup
  <2>3. CASE Initialize
    BY <2>3, Fires DEF Initialize
  <2> QED
    BY <1>6, <2>1, <2>2, <2>3 DEF Administer
<1>7. CASE UNCHANGED vars
  BY <1>7 DEF vars, callVars, Swaps
<1> QED
  BY <1>1, <1>2, <1>3, <1>4, <1>5, <1>6, <1>7 DEF Next, CallStep

(* The swaps under way, as the state tells them. *)
LEMMA SwapsHold ==
  ASSUME SwapsOK
  PROVE  /\ state # "busy" => Swaps = {}
         /\ state = "busy" => \E c \in Calls : Swaps = {c}
  BY DEF SwapsOK, Swaps

(* The node's steps are steps of the ownership protocol, or none of its    *)
(* business.                                                               *)
LEMMA ToolStepRefines ==
  ASSUME IInv, IInv', [Next]_vars
  PROVE  [ToolOwner!Next]_(ToolOwner!vars)
<1>1. /\ state # "busy" => Swaps = {}
      /\ state = "busy" => \E c \in Calls : Swaps = {c}
  BY SwapsHold DEF IInv
<1>2. /\ state' # "busy" => Swaps' = {}
      /\ state' = "busy" => \E c \in Calls : Swaps' = {c}
  BY DEF IInv, SwapsOK, Swaps
<1>3. CASE state \in Operational /\ state' \in Operational
  <2>1. state' = state /\ Swaps' = Swaps
    BY <1>3, ToolKept
  <2> QED
    BY <2>1 DEF ToolOwner!vars
<1>4. CASE state \notin Operational /\ state' \in Operational
  BY <1>1, <1>2, <1>4 DEF ToolOwner!Next, ToolOwner!Acquire
<1>5. CASE state \in Operational /\ state' \notin Operational
  BY <1>1, <1>2, <1>5 DEF ToolOwner!Next, ToolOwner!Release
<1>6. CASE state \notin Operational /\ state' \notin Operational
  BY <1>1, <1>2, <1>6 DEF ToolOwner!vars
<1> QED
  BY <1>3, <1>4, <1>5, <1>6

(* The tool controller implements the ownership protocol.                  *)
THEOREM Refinement == Spec => ToolOwner!Spec
<1>1. Init => ToolOwner!Init
  BY DEF Init, ToolOwner!Init, Swaps
<1> QED
  BY <1>1, Invariance, ToolStepRefines, PTL DEF Spec, ToolOwner!Spec

===============================================================================
