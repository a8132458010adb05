------------------------------ MODULE ToolScene ------------------------------
(***************************************************************************)
(* The tool controller node (intranodes_pkg/tool_controller_node.py) and   *)
(* the planning scene of move_group that it edits.  A swap detaches the    *)
(* active tool and attaches the wanted one, each by diffs published on     *)
(* /planning_scene several times over; _active is written when the last of *)
(* them is out.  swap_tool runs under the node's lifecycle, reload_tools   *)
(* does not, and edits the same scene.                                     *)
(***************************************************************************)
EXTENDS Lifecycle

CONSTANTS
  Calls,            \* calls of swap_tool and reload_tools, by slot
  Tools             \* the tools that tools.yaml may define

VARIABLES
  state,            \* lifecycle_sm.current_state
  publisher,        \* _scene_pub exists
  tools,            \* _tools: the tools loaded
  active,           \* _active
  pc,               \* pc[c]: where the callback that serves c is
  kind,             \* kind[c]: "swap", "detach" or "reload"
  want,             \* want[c]: the tool c asks for
  leaving,          \* leaving[c]: the tool c's callback is detaching
  attached,         \* bodies on the flange, in the planning scene
  world,            \* tool bodies in the world, in the planning scene
  meddled           \* history: a reload has overlapped another call, or a
                    \*   cleanup has forgotten a tool it left attached

callVars == <<pc, kind, want, leaving>>
sceneVars == <<attached, world>>
vars == <<state, publisher, tools, active, callVars, sceneVars, meddled>>

NoTool == "none"

Labels == {"none", "look", "detach", "remove", "forget", "then", "attach",
           "keep", "complete", "recoverable", "unexpected"}

TypeOK ==
  /\ state \in NodeStates
  /\ publisher \in BOOLEAN /\ tools \subseteq Tools
  /\ active \in Tools \cup {NoTool}
  /\ pc \in [Calls -> Labels]
  /\ kind \in [Calls -> {"none", "swap", "detach", "reload"}]
  /\ want \in [Calls -> Tools \cup {NoTool}]
  /\ leaving \in [Calls -> Tools \cup {NoTool}]
  /\ attached \subseteq Tools /\ world \subseteq Tools
  /\ meddled \in BOOLEAN

Init ==
  /\ state = "not_initialized" /\ publisher = FALSE /\ tools = {}
  /\ active = NoTool
  /\ pc = [c \in Calls |-> "none"] /\ kind = [c \in Calls |-> "none"]
  /\ want = [c \in Calls |-> NoTool] /\ leaving = [c \in Calls |-> NoTool]
  /\ attached = {} /\ world = {} /\ meddled = FALSE

Goto(c, label) == pc' = [pc EXCEPT ![c] = label]

At(c, label) == pc[c] = label

Working == {c \in Calls : pc[c] # "none"}

(* A call begins; a reload meddles with whatever else is going on. *)
Begin(c, k, t, label) ==
  /\ Goto(c, label)
  /\ kind' = [kind EXCEPT ![c] = k]
  /\ want' = [want EXCEPT ![c] = t]
  /\ meddled' = \/ meddled
                \/ k = "reload" /\ (Working # {} \/ state \in Operational)
                \/ \E d \in Working : kind[d] = "reload"

Return(c) ==
  /\ Goto(c, "none")
  /\ kind' = [kind EXCEPT ![c] = "none"]
  /\ want' = [want EXCEPT ![c] = NoTool]
  /\ leaving' = [leaving EXCEPT ![c] = NoTool]

-----------------------------------------------------------------------------
(* _swap_cb and _reload_tools_cb.                                          *)

(* Mutant of Swap: DETACH is taken for the name of a tool. *)
SwapNamesDetach(c, t) ==
  /\ At(c, "none")
  /\ Allowed("start_operation", state)
  /\ state' = Fire("start_operation", state)
  /\ Begin(c, "swap", IF t = NoTool THEN "detach" ELSE t, "look")
  /\ UNCHANGED <<publisher, tools, active, leaving, sceneVars>>

Swap(c, t) ==
  /\ At(c, "none")
  /\ Allowed("start_operation", state)
  /\ state' = Fire("start_operation", state)
  /\ Begin(c, IF t = NoTool THEN "detach" ELSE "swap", t,
           IF t = NoTool THEN "detach" ELSE "look")
  /\ UNCHANGED <<publisher, tools, active, leaving, sceneVars>>

Reload(c) ==
  /\ At(c, "none")
  /\ Begin(c, "reload", NoTool, "detach")
  /\ UNCHANGED <<state, publisher, tools, active, leaving, sceneVars>>

(* Mutant of Look: a swap that is not needed returns without its closing   *)
(* event.                                                                  *)
LookSilent(c) ==
  /\ At(c, "look")
  /\ IF want[c] \in tools /\ want[c] = active
       THEN Return(c)
       ELSE /\ Goto(c, IF want[c] \in tools THEN "detach" ELSE "recoverable")
            /\ UNCHANGED <<kind, want, leaving>>
  /\ UNCHANGED <<state, publisher, tools, active, sceneVars, meddled>>

(* An unknown tool is a recoverable error, the active one needs no swap.   *)
Look(c) ==
  /\ At(c, "look")
  /\ Goto(c, CASE want[c] \notin tools -> "recoverable"
               [] want[c] \in tools /\ want[c] = active -> "complete"
               [] OTHER -> "detach")
  /\ UNCHANGED <<state, publisher, tools, active, kind, want, leaving,
                 sceneVars, meddled>>

(* _detach: move_group puts a body that leaves the flange into the world,  *)
(* from where a second diff removes it.  Publishing raises once a cleanup  *)
(* has taken the publisher away.                                           *)
Detach(c) ==
  /\ At(c, "detach")
  /\ leaving' = [leaving EXCEPT ![c] = active]
  /\ CASE active = NoTool ->
            Goto(c, "then") /\ UNCHANGED sceneVars
       [] active # NoTool /\ ~publisher ->
            Goto(c, "unexpected") /\ UNCHANGED sceneVars
       [] active # NoTool /\ publisher ->
            /\ Goto(c, "remove")
            /\ attached' = attached \ {active}
            /\ world' = world \cup (attached \cap {active})
  /\ UNCHANGED <<state, publisher, tools, active, kind, want, meddled>>

(* Mutant of Remove: the second diff is not sent. *)
RemoveSkipped(c) ==
  /\ At(c, "remove")
  /\ Goto(c, "forget")
  /\ UNCHANGED <<state, publisher, tools, active, kind, want, leaving,
                 sceneVars, meddled>>

Remove(c) ==
  /\ At(c, "remove")
  /\ IF publisher
       THEN Goto(c, "forget") /\ world' = world \ {leaving[c]}
       ELSE Goto(c, "unexpected") /\ UNCHANGED world
  /\ UNCHANGED <<state, publisher, tools, active, kind, want, leaving,
                 attached, meddled>>

Forget(c) ==
  /\ At(c, "forget")
  /\ active' = NoTool
  /\ Goto(c, "then")
  /\ UNCHANGED <<state, publisher, tools, kind, want, leaving, sceneVars, meddled>>

(* What follows the detaching.  A reload parses tools.yaml, which may have *)
(* changed or be broken.                                                   *)
Then(c) ==
  /\ At(c, "then")
  /\ CASE kind[c] = "detach" -> Goto(c, "complete") /\ UNCHANGED <<tools, kind, want, leaving>>
       [] kind[c] = "swap" -> Goto(c, "attach") /\ UNCHANGED <<tools, kind, want, leaving>>
       [] kind[c] = "reload" ->
            /\ tools' \in {tools} \cup SUBSET Tools
            /\ Return(c)
  /\ UNCHANGED <<state, publisher, active, sceneVars, meddled>>

(* _attach.  A reload may have dropped the tool since it was looked up.    *)
Attach(c) ==
  /\ At(c, "attach")
  /\ IF want[c] \in tools
       THEN /\ Goto(c, "keep")
            /\ attached' = attached \cup {want[c]}
            /\ world' = world \ {want[c]}
       ELSE Goto(c, "unexpected") /\ UNCHANGED sceneVars
  /\ UNCHANGED <<state, publisher, tools, active, kind, want, leaving, meddled>>

Keep(c) ==
  /\ At(c, "keep")
  /\ active' = want[c]
  /\ Goto(c, "complete")
  /\ UNCHANGED <<state, publisher, tools, kind, want, leaving, sceneVars, meddled>>

(* The closing event; a reload answers its exception and has none. *)
Close(c) ==
  /\ pc[c] \in {"complete", "recoverable", "unexpected"}
  /\ state' = CASE kind[c] = "reload" -> state
                [] kind[c] # "reload" /\ At(c, "complete") -> Fire("complete", state)
                [] kind[c] # "reload" /\ At(c, "recoverable") ->
                     Fire("fail_recoverable", state)
                [] kind[c] # "reload" /\ At(c, "unexpected") ->
                     Fire("fail_non_recoverable", state)
  /\ Return(c)
  /\ UNCHANGED <<publisher, tools, active, sceneVars, meddled>>

-----------------------------------------------------------------------------
(* The lifecycle services: the events, and the bodies in between.          *)

Serve(event) ==
  /\ Allowed(event, state)
  /\ state' = Fire(event, state)
  /\ meddled' = (meddled \/ (event # "retry_from_recoverable" /\ Working # {}))
  /\ UNCHANGED <<publisher, tools, active, callVars, sceneVars>>

(* cleanup_resources forgets the active tool and leaves the scene alone. *)
Cleanup ==
  /\ state = "cleaning_up"
  /\ state' = Fire("complete", state)
  /\ publisher' = FALSE /\ tools' = {} /\ active' = NoTool
  /\ meddled' = (meddled \/ active # NoTool)
  /\ UNCHANGED <<callVars, sceneVars>>

Initialize ==
  /\ state = "initializing"
  /\ \/ /\ ~publisher
        /\ tools' \in SUBSET Tools
        /\ active' = NoTool /\ publisher' = TRUE
        /\ state' = Fire("complete", state)
     \/ /\ ~publisher
        /\ state' = Fire("fail_non_recoverable", state)
        /\ UNCHANGED <<publisher, tools, active>>
     \/ /\ publisher
        /\ state' = Fire("fail_recoverable", state)
        /\ UNCHANGED <<publisher, tools, active>>
  /\ UNCHANGED <<callVars, sceneVars, meddled>>

Administer ==
  \/ \E event \in {"start_cleanup", "start_initialization",
                   "retry_from_recoverable"} : Serve(event)
  \/ Cleanup \/ Initialize

CallStep(c) ==
  \/ Look(c) \/ Detach(c) \/ Remove(c) \/ Forget(c) \/ Then(c) \/ Attach(c)
  \/ Keep(c) \/ Close(c)

Next ==
  \/ \E c \in Calls :
       \/ \E t \in Tools \cup {NoTool} : Swap(c, t)
       \/ Reload(c) \/ CallStep(c)
  \/ Administer

Spec == Init /\ [][Next]_vars

(* Each callback runs on a thread of its own and waits for nothing. *)
Fairness == \A c \in Calls : WF_vars(CallStep(c))

FairSpec == Spec /\ Fairness

-----------------------------------------------------------------------------
Active == {active} \ {NoTool}

(* Not even in the middle of a swap does the flange carry two tools, and   *)
(* whenever no call is under way the scene shows the active tool on the    *)
(* flange, no other, and none left in the world, whatever swaps failed in  *)
(* between: unless a reload has overlapped another call or a cleanup has   *)
(* forgotten a tool.                                                       *)
SceneFollows ==
  ~meddled =>
    /\ \A s, t \in attached : s = t
    /\ Working = {} => attached = Active /\ world = {}

(* A swap that has been started gets to its closing event.                 *)
SwapEnds == (state = "busy") ~> (state # "busy")

=============================================================================
