# A TLA+ model of the INTRA robot cell

INTRA is a set of ROS 2 nodes around an ABB robot, a Photoneo camera and a NiceGUI
web interface. This directory models the code in which its nodes interact: who owns
a node's state, what a long operation does when it is cancelled, refused or
disturbed, how points reach the robot, how a scan reaches the vision node, how
the planning scene follows the tool, how the robot node keeps its session with the
controller, what becomes of a plan, of the parameters and of the accounts when
several people and pages work on them. Paths below are relative to `src/src/`.

## The system

| part | code | state it keeps | operations |
|---|---|---|---|
| node base | `core_pkg/core_pkg/nodes_core.py` | `lifecycle_sm` (9 states), `sm_lock` | initialize, cleanup, recover, apply parameters, any operation under `handle_operation_errors`, interrupt, shutdown |
| coordinator | `intranodes_pkg/.../coordinator_node.py` | lifecycle, `_user_input_received`, the goal's progress | two action servers (op1, op2), cancel, user_input |
| robot node | `intranodes_pkg/.../robot_controller_node.py` | lifecycle, the session (`RWS`, `_logged_in`, two timers) | pose and joint trajectories, controller requests, keepalive, joint states |
| web services client | `robot_controller_interface.py`, `robot_controller_provider.py` | an HTTP session | symbols, routines, DIPC messages, getters |
| camera node | `camera_controller_node.py` | lifecycle, harvester and acquirer | execute_scan |
| vision node | `vision_processing_node.py` | lifecycle, current texture and cloud, two flags, the model | two processing services, two topic callbacks |
| tool node | `tool_controller_node.py` | lifecycle, `_tools`, `_active`, publisher | swap_tool, reload_tools |
| motion planning | `motion_planning_node.py` | lifecycle, planner clients, fake obstacles | plan, toggle obstacles |
| operations page | `user_interface_pkg/.../operations_page.py` | buttons, feedback queues, goal handles | start, cancel, proceed, refresh |
| system control page | `system_control_page.py` | the one plan, the Execute button | lifecycle buttons, scan, plan, execute |
| configuration page, parameters | `configuration_page.py`, `parameters/*.py`, `nodes_async.py` | fields, the displayed transform, YAML files | get, apply, save, load |
| user management page | `user_management_page.py`, `ui_helpers.py` | what its dialogs were opened with | add, edit, switch, password, roles |
| accounts | `core_pkg/core_pkg/dbservices`, `dbservices_async`, repositories, models | a database | users, roles, permissions |
| other pages | login, dashboard, settings, tool control, shadow | none that others act on | single calls |
| outside | RAPID program, `move_group`, PhoXi, PostgreSQL, the parameter services of ROS | CURRENT_STATE, DIPC queue, planning scene, locks | modelled from how the code uses them |

**How they interact.** Pages and the coordinator call the other nodes' services
(`call_service_sync` polls a future and gives up after a timeout) and send goals to
action servers. The coordinator drives everything else in one operation: scan,
vision, user confirmation, readiness of the robot, routines by name, symbols,
trajectories, tool swaps in the planning scene. Images and clouds bypass it: they
go from the camera to the vision node on topics. Every node runs on a
multi-threaded executor with a reentrant callback group, so any two callbacks of a
node may overlap; `sm_lock` covers single transitions only.

**What is hard.** A node's state is opened and closed under the lock and owned in
between without it. Waits without timeout end by a cancel only. Answers are ignored
at places; a late answer meets a caller that has given up. Cancel is polled. Whether a
routine has ended is known from one symbol that is polled, and a stop or another
client may set it. Feedback reaches a page through a queue that its
results bypass. Two topics and one service answer carry the parts of one scan. The
robot node's session is under no lock, and a keepalive may be answered after a
cleanup. A page's handler finds what it has read before an `await` changed after it.
A service of the accounts looks at a table and writes it later. A parameter that a
page was told to be applied may be overwritten by a request somebody has given up.

**What makes each part correct.** Node base: one owner of a node, never a node
stuck. Coordinator: one goal at a time, cancel soon and surely, the right tool,
a clean cell after success. Page: one press per motion, the offer to confirm shown
when and only when it means something. Trajectories: points in order and complete,
always an end. Scan: the data processed is the data scanned. Tools: scene and node
agree. Session: no session of the controller left behind, `make_robot_ready` tells the
truth, a session lost comes back after a cleanup and an initialization. Planning: a
plan shown can be executed, every press ends. Configuration: the file always starts
the node, "applied" means that the values of the click are in the node, and no driver is left with older
ones. Accounts: unique logins and role names, no account
without its role, a confirmed activation does what was confirmed.

## The modules

    Lifecycle                 states, events, Allowed, Fire
      INTRANode               one node: handlers, lock, exceptions, process
        Ownership             abstract: one state, one holder      (INSTANCE)
      Coordinator             operations 1 and 2, robot and scene as environment
        Operation             abstract: what the operator is promised  (INSTANCE)
        OperationsPage        a page and its operator, composed with Coordinator
          CoordinatorProofs   theorems about Coordinator and OperationsPage  (TLAPS)
      RobotTrajectory         motion goals, DIPC queue, RAPID, a second client
        PointStream           abstract: one goal's points, in order    (INSTANCE)
        RobotTrajectoryProofs theorems about RobotTrajectory       (TLAPS)
      ScanVision              camera node, vision node, two topics, clients
        INTRANodeProofs       theorems about INTRANode and ScanVision  (TLAPS)
      ToolScene               tool node and planning scene
        ToolSceneProofs       theorems about ToolScene             (TLAPS)
      RobotSession            login, keepalive, cleanup and requests of the robot node
        RobotSessionProofs    theorems about RobotSession          (TLAPS)
      MotionPlanning          planner, and the page that plans and executes
        MotionPlanningProofs  theorems about MotionPlanning        (TLAPS)
    Configuration             a form of the configuration page, its node and file
      ConfigurationProofs     theorems about Configuration         (TLAPS)
    Accounts                  the user management page's transactions
      Registry                abstract: tables changed at once       (INSTANCE)
      AccountsProofs          theorems about Accounts              (TLAPS)

Ownership is implemented by the node base and, each in its proofs module, by the camera,
the vision node, the planner, the tool node, the robot node's motions, its session, and
the coordinator.

- **Lifecycle** translates the `statemachine` declaration. `Fire(e, s)` is the state
  after the event, unchanged when the library would raise `TransitionNotAllowed`.
- **INTRANode** splits every handler as the lock does: `Start` (opening event),
  `Finish` (the body ends in one of four ways), `Close` (closing event by the
  matching `except` clause) or `Escape` (an unexpected exception in a cleanup has
  no clause and ends `executor.spin`). `Interrupt` and `Shutdown` are `main()`.
- **Coordinator** keeps each operation as a sequence of entries, one per call, wait
  or check that matters to another part, and one action per kind of entry. The
  robot is `routine`, `tool`, `running`; `Disturb` is what happens outside
  (a stop, another client), and "refuse" lets any request be refused.
- **OperationsPage** extends Coordinator. Each of its steps is a step of the page, or
  one of the coordinator with its effect on the page (feedback, answers, results).
- **RobotTrajectory** has the goal callbacks, the setup, one action per outcome of a
  POST (accepted, queue full, failed or timed out, delivered or not), and RAPID taking
  points. Its `client` runs `run_rapid_routine` step by step.
- **ScanVision** follows one scan from `start_operation` to the `finally` clause, each
  topic callback from message to flag in four steps, and the processing.
- **ToolScene** has one action per published diff; `_active` is written after it.
- **RobotSession** has a program counter per executor thread. Every HTTP call lies
  between two steps, so that initialization, cleanup, keepalive and requests fall into
  each other's gaps; `rws` and `loggedIn` are the node's two fields. `make_robot_ready` is
  followed call by call (mastership, mode, motors, pointer, start), the other commands
  as the one or two calls they are. The controller's answers depend on `open`,
  `master`, `motors`, `running`; an operator at the pendant may change them.
- **MotionPlanning** is the planner, whose request is the list of MoveIt calls it still
  has to make, and the page, whose handlers take turns on one event loop: a handler runs
  from one `await` to the next in one action, except where `call_service_sync` and
  `wait_for_server` hold the loop itself (`LoopRuns`).
- **Configuration** is about one form, chosen in `Init`. Keys are told apart by
  what becomes of them: numbers are converted at the click; choices stay in the node until it
  reads them for its next initialization or scan (the device id, `PUBLISH_TOPICS`, `SAVE_*`,
  `USE_TRANSFORM`, `TF_FRAME_ID`, and all switches and texts of the other nodes), as the
  node's answer to Apply announces (`nodes_core.py:327`); features are
  handed on to the camera's driver by each run of `apply_parameters`, if the device has them;
  hidden keys are on no form and written from what the process read at its start. One key
  stands for all of its kind. The camera's form has no numbers, so no request of it is refused
  in part and none of its fields fails to convert: its choices and its features
  have nothing to do with each other and are two forms here, `Camera` and `CameraFeatures`.
  `device` is the driver: closed, of a device that lacks the feature, or what the feature
  is set to. `run` is `apply_parameters`, on as many threads as it is asked for: it looks
  and reads (`RunReads`), writes (`RunWrites`), or finds no feature (`RunPassesOver`) and
  counts as applied; whether it then raises for another feature is left open (`Outcomes`).
- **Accounts** gives every service call its three moments: look, flush, commit. What
  was looked up may be stale at the flush; the locks and constraints of PostgreSQL
  (external) then make it wait, refuse it or time it out.

History variables (`disturbed`, `dropped`, `since`, `credit`, `alone`, `meddled`, ...) are
marked in the modules and guard no step of the code.

## The runs

| run | instance | shows |
|---|---|---|
| `node` | 3 overlapping calls | type, `SoleOwner`, `NotStranded`, `FreshInitialization`, `OperationalStateEnds`, refinement of `Ownership` |
| `coordinator` | 2 goals, both operations, all disturbances | `ServesOneGoal`, `RightTool`, `SuccessLeavesCellClean`, `CancelEnds`, refinement of `Operation` |
| `coordinator_weld` | 1 goal, refusals only | **violated** `WeldsWithTool3`: a refused take_tool3 is not noticed |
| `page` | 2 goals on one card | `OnePressEach`, `NoOfferInMotion`, `WaitIsShown` |
| `trajectory` | 2 goals, up to 4 points, queue of 2, 2 retries, all faults | `InOrder`, `SuccessIsWhole`, `GoalEnds` |
| `scan_vision` | 2 clients, 2 scans | `OwnScan`, `AcquirerStops`, `NodesFreed` |
| `scan_empty` | 1 client, 1 scan | **violated** `WaitsForData`: the flags survive the data |
| `tool_scene` | 2 calls, 2 tools | `SceneFollows`, `SwapEnds` |
| `session` | 2 threads, 3 interfaces, 6 commands, 1 fault | `NoSessionAbandoned`, `ReadyMeansReady`, `SessionComesBack` |
| `planning` | 2 presses of Plan, 2 of Execute | `PlanCanBeRun`, `PressesEnd` |
| `configuration` | 2 sessions, 2 values, 1 number and zero, every form | `FileStartsTheNode`, `ToldIsApplied` |
| `accounts` | 2 handlers, 2 users, 3 roles, 2 logins, 2 names | `TablesAreSound`, `ConfirmedWhenAlone` |

Every violated run states a line of a test, comment, message or document of the
repository, quoted above the property; PROJECT.json says what the code does instead.
Every passing run checks its module's type invariant besides.

**Bounds.** Calls and goals are slots that are used again, so behaviours are not
bounded in length. Two goals give every race between an ending and a start; three
calls give a handler, one that is refused and one that takes over. A queue of two
with goals of four points and two retries is full, drained, retried and overrun. Two
scans give "mine" and "somebody else's"; `MaxScans` is a bound on a counter and the
only one that ends behaviours (a scan beyond it fails to fetch). `MaxCredit` caps the
presses counted ahead. Two tools give a swap, and "attach on top of another".
Three interfaces are the old one, the new one and one whose logout was lost; threads,
presses, sessions and handlers are slots that are used again, and two of each give
every overlap of a read with somebody else's write. `MaxFaults` bounds what goes wrong in
`session`: the operator's way back is asked for after the last fault. In `configuration`
a field is edited only between two handlers, one request at a time is late, and a session
applies again only after its last run has ended on the node. Three roles are the one in
use, the unused one and the one being created; serials are never used again, as in
the database. `configuration` and `accounts` use symmetry: their properties are
invariants and action properties, none of them liveness, and the sets are of model values
no definition tells apart.

**Fairness.** Weak fairness of each callback's own steps: callbacks run on threads,
every wait in them polls and every request in them times out. None is assumed of the
operator, of another client, of lifecycle services, of deliveries, or of the robot
answering a wait; `GoalEnds` holds even if RAPID takes nothing. In `planning`
the robot ends each trajectory (every point is sent with a timeout), and the page's handlers
get strong fairness: the event loop comes round to every handler that can go on,
although another one may hold it up time and again. In `session` the operator does
what the control page offers for a node that refuses its requests, cleanup and initialization,
again and again; without that a session once lost stays lost, which is
the code's behaviour and not claimed otherwise. `configuration` and `accounts` claim no
liveness and assume no fairness.
Deadlock is not checked where a process may end (`node`, `trajectory`, vision).

## What is proved

Every invariant, every action property and every refinement of a passing run is a
theorem: for every set of calls, goals, tools, clients, threads, sessions and accounts, and
every bound. Each proofs module states its inductive invariants in named parts; a lemma
per action, or per group of actions alike, says that they are kept; then come `Invariance`
and the properties as its consequences. The strengthenings were checked by TLC on the
runs' instances before they were proved.

| module | assumptions on constants | theorems |
|---|---|---|
| INTRANodeProofs | `MaxScans` is a positive number (for the camera) | `TypeOK`, `SoleOwner`, `NotStranded`, `FreshInitialization`, `ImplementsOwnership`; `ScanTypeOK`, `OwnScan`, `AcquirerStops`, camera and vision implement Ownership |
| CoordinatorProofs | an operation is `op1` or `op2` | `TypeOK`, `ServesOneGoal`, `CancelStopsSoon`, `RightTool`, `SuccessLeavesCellClean`, `ImplementsOperation`, implements Ownership; `PageSpec => Spec`, `PageTypeOK`, `OnePressEach`, `NoOfferInMotion` |
| RobotTrajectoryProofs | points and retries are numbers, the queue holds at least one point | `TypeOK`, `InOrder`, `SuccessIsWhole`, implements PointStream and Ownership |
| ToolSceneProofs | none | `TypeOK`, `SceneFollows`, implements Ownership |
| RobotSessionProofs | `MaxFaults` is a number, the commands are the node's, an interface is not `None`, "free" or "pendant" | `TypeOK`, `NoSessionAbandoned`, `ReadyMeansReady`, implements Ownership |
| MotionPlanningProofs | no press is "none" (for the types only) | `TypeOK`, `PlanCanBeRun`, implements Ownership |
| ConfigurationProofs | the forms are the page's; no session or value is one of the marks | `TypeOK`, `FileStartsTheNode`, `ToldIsApplied` |
| AccountsProofs | no login, name or row is one of the marks `None`, `Gone` | `TypeOK`, `TablesAreSound`, `ConfirmedWhenAlone`, implements Registry |

The assumptions name no size, and the ones on names say only that a model value is not
one of the words a variable also holds, as no string of the program is `None`.

**INTRANode.** `SoleOwner` is not inductive alone: it does not say that a state nobody
works in may be operational only after an escape, that by then the process has
stopped taking calls, nor what a handler that has finished and not yet closed owes.
`IInv` adds exactly this. The lemmas are about `Fire`: a handler opens only what nobody
owns (`Openings`), every closing event is allowed in an operational state (`Closings`),
no other event touches one (`Others`). `Refinement`: openings map to `Acquire`, closings to
`Release`, an escape to `Abandon`, the shutdown to `Close`, all else stutters.

**Ownership.** The base class can promise that a state has one holder only if its
subclasses fire the events as it expects. The other nodes fire them in handlers of their
own, with early returns, timeouts and cancels between the two events, and each is shown to
implement the same protocol. What is needed of a node is that its operational
state is some call's at every step, and that no second call is past its opening event:
`ServesOneGoal` in the coordinator, `GoalsOK` in the motions, `SwapsOK` in the tool node,
`PlannerOK`, `OneScan` and `OneProcessing`, and in the session `Owned`, an invariant of
its own there. A setup that raises in a motion goal, and an exception in a topic
callback of the vision node, are `Abandon`: the node is never acquired again.

**ScanVision.** `OwnScan` speaks of the moment of processing; what it rests on begins when the
scan is announced. `ScanInv` has one scan and one processing at a time (`OneScan`,
`OneProcessing`), what a topic callback carries from one step to the next (`CallbacksOK`),
and, for a client that has both nodes to itself, `Undisturbed`: until its scan is
published nothing is on its way on a topic (`Still`); from then on the scan waits in the inbox,
is in the one callback under way, or is what the vision node has (`OnItsWay`, `Arrived`).
The client's wait has a fixed length, and the flags say nothing of whose data they
announce; so the property is about a wait that has let both messages through, from which
`OnItsWay` leaves only `Arrived`. Of a message the invariant has to say in which of its steps
the callback is: between storing it raw and storing it converted, the data are the new
scan's and not yet fit to be processed.

**Coordinator.** Two invariants. `IInv` (`GoalsInOrder`, `ServesOneGoal`): without the
order a slot could be live and owe a closing event at once; `StepShape` reduces the ten
steps of a callback to "one entry on" or "ended with an event". `CellInv` adds `LeftAlone`:
as long as nobody else acts on the robot, flange and scene carry `Held(op, i)` when the
callback is at entry `i`, after the routine under way (`Landing`), and a motion is under way
only at the entries `Pending(op)`; and `Stopping`: a motion ordered after the cancel leaves
the goal at such an entry, from which it can only wait or look at the cancel. `RightTool`
and `SuccessLeavesCellClean` say something at an order and at the end only; `LeftAlone`
carries them along the pipeline. That the two pipelines are fit for it is `Entries`,
which is evaluated entry by entry: a pipeline edited so that a
routine meets the wrong tool, or two motions without a check between, fails there. Of
these properties the run shows two goals of each operation; the theorems have any number.

**Operation.** What an operator at the robot counts on, without a pipeline in it: the robot
moves for one goal, after a press that this goal took, before its result, once at
most after a cancel. `Promised` maps a callback's position in its pipeline to the four
stages of the promise: before the sixth entry, the confirmation in both pipelines, it is
"looking", behind it "moving", and with its closing event still owed "over" (`Whereabouts`,
`Stage`). That every order finds the stage "moving" is read off the pipelines; that it finds
no earlier order since the cancel is `Stopping`; that the next goal begins with none
counted is `Fresh`, which the proof had to add. `Seen` says what the abstract variables are
when a goal is served and when none is, so that each action is compared once (`Confirm...`,
`Order...`, `Quiet...`, `SlotKeepsPromise`, `OthersKeepPromise`).

**OperationsPage.** `PageDrivesCoordinator`: each step of the page is one of the
coordinator or leaves it alone, so all of the above holds under the page. `PageInv` adds what
a card shows and what is still in its feedback queue (`ProceedHidden`), and that an
unspent press is counted (`PressCounted`); each operation announces its motion once, after
it asks for the confirmation (`Announcement`).

**RobotTrajectory.** `InOrder` looks at points that have been delivered; to be kept it needs
how far the goal has got, what the robot waits for and that the queue was empty when
the goal checked CURRENT_STATE. `Tracks(g)` says so at each step, of what is taken and on its
way together (`Delivered`), and `GoalsOK` that one goal sends. `Sending` and `Taking`, with
the library's theorems on sequences, say that a POST appends to `Delivered` and that RAPID
leaves it as it is. It claims nothing after a disturbance, like the property.
`PointsAsPromised` shows PointStream implemented, which says how the points may change from
step to step: a POST that arrives gives exactly the next one, marked if it is the last or
follows a cancel, whatever is answered (`PostGives`); a goal begins only when everything
before it has been taken (`AdmitBegins`: CURRENT_STATE reads "0" only with an empty queue).

**ToolScene.** `SceneFollows` speaks of the time between calls. `Follows(c)` says what is on
the flange and in the world at each step of the one call that is under way, `SwapsOK`
that there is one unless somebody meddles.

**RobotSession.** That no session is left behind rests on the lifecycle: one callback
at a time changes the interface (`LifecycleOK`), and it drops one only after its logout,
served or lost (`open \subseteq leaked`). `ReadyMeansReady` needs more: `Prepared(t)`, that
the masterships a request has settled stay so while it is undisturbed and its session is
open; `Fresh`, that a request on an interface that is not logged in yet has learnt nothing
from the controller. A mastership changes under a request by another request, which
disturbs it, or by the end of its session, after which it cannot report success.

**MotionPlanning.** `PlanCanBeRun` is inductive with the types of `exec` and `enabled`: the
planner and the robot leave the page alone (`OutsideThePage`), an answer sets plan and
button together, a press of Execute enables the button on every way out (`Moves`).
`PlannerOK` says that the planner is busy exactly while it has a request and the rest of
one of its two series of calls ahead (`AheadIsSeries`).

**Configuration.** `FileStartsTheNode` needs the values of every source a file is written
from (`Shapes`, with what each key is given). `ToldIsApplied` has two halves. That the
node has the values of the click needs what a handler sends at each of its steps (`Waits`) and
that nobody else has set parameters. The driver's half excludes nobody: `since[s]` collects
what the feature has been in the node since `s` was answered, and what other runs and
initializations have given the driver, and the driver has one of these. It rests on the order
of the page's two calls: the session's own run begins after the answer, so what it has read
is in `since[s]` (`Knows`), however long it lies before it writes. `Setter` and `Driver` say
what a step of anybody leaves of this to the others.

**Accounts.** The schema checks a statement at the flush; what it saw must hold at the
commit. `Held` says that from statement to commit a transaction still fits the tables and
need not wait; the lemma `Apart` is the argument: two transactions past their statement
hold disjoint locks, so neither writes what the other one reads or relies on.
`AloneOK` carries a confirmed switch from its dialog to the commit.
`Refinement`: the tables change as in Registry, where each operation is made at once on the
tables it finds. `Held` gives it (`CommitIsAtomic`): what the statement relied on still holds
at the commit. Registry says nothing of what was looked up before, and rightly: a
switch writes the opposite of what its service has read, and two of them may write the same.

**Only model-checked.** The liveness properties `OperationalStateEnds`, `CancelEnds`,
`WaitIsShown`, `GoalEnds`, `NodesFreed`, `SwapEnds`, `SessionComesBack` and `PressesEnd`, as
fairness and ENABLED are beyond the prover. So are RECURSIVE definitions and induction
over data; none is used. The two violated runs (`WeldsWithTool3`, `WaitsForData`) are
counterexamples and prove nothing.

## Known divergences

What the code does against a doc, a comment or the words on its own buttons. The first two
are runs that expect a violation; the others were met while modelling and the modules
show the behaviour.

- `coordinator_node.py:782`: a refused `take_tool3` is not noticed, the weld routine starts
  with an empty flange (`coordinator_weld`).
- `vision_processing_node.py:311`: a success resets the data and not the flags; a second
  request without a scan goes on with `None` (`scan_empty`).
- `nodes_core.py:120`: `recover_from_error_cb` takes a node whose initialization failed to
  idle, and work begins on a node that was never initialized; `test_lifecycle_state_machine.py:76`
  says that skipping the initialization fails loudly, and tries the state after boot only.
- `coordinator_node.py:111`: a press of Proceed left over from an operation that ended
  confirms the next one before it has shown anything.
- `robot_controller_node.py:348`: a cancel that arrives while an ordinary point is being
  sent ends the goal without a last point, and the routine keeps waiting; line 298 says
  a cancel promotes the point to the last one.
- `tool_controller_node.py:203`: a cleanup forgets the active tool and leaves it attached in
  the planning scene; `src/README.md:153` says the node keeps them in sync.
- `system_control_page.py:427`: `execute_motion_plan` sends the plan read at the click, though
  a newer one may be on the page by then; its docstring says "the last planned trajectory".
- `system_control_page.py:609-626`: "All nodes initialized" is shown though some have failed.
- `user_management_page.py:170`: the dialog asks to deactivate, the service toggles whatever
  the account has become.
- `ui_helpers.py:368`: the edit dialog closes as saved although its update was refused.
- `configuration_page.py:447`: a number written in the file without a point is an integer to
  the node; the form shows 0.0 for it and the node refuses what the form applies.
- The camera's Save YAML writes the transform the process read when it started: a
  calibration written since is lost.
- `camera_controller_node.py:495-558`: Apply reports success though the camera is not
  initialized, or its device lacks a feature the form sets: a feature that is not there is
  logged and passed over. What is applied before an initialization reaches the driver then.
- `camera_controller_node.py:492`: two sessions that apply at once may both be told so while
  the driver keeps the value of the one whose values the node no longer has.
- The coordinator's parameter `wait_for_user_input` is declared, saved and read by no node.

## What is left out, and why

- Numbers and pixels: poses, point clouds, segmentation, grasp estimation, collision
  geometry, image conversion. They change no control state.
- Publishing of states and logs. `apply_parameters_cb` changes no lifecycle state; what it
  does to the camera's driver is in Configuration.
- The refresh of the page is applied in one step; the code awaits the answer first.
- `SendMotionGoal` is reached in the coordinator's run only, since operation 2 has none.
- A stop of the RAPID program is a disturbance in Coordinator and absent in
  RobotTrajectory, which has the failures of its requests instead.
- That `ia.stop()` works and that the model files can be loaded a second time.
- `SceneFollows` claims nothing once a reload has overlapped another
  call: the code does not order the two, and either outcome is possible.
- In RobotTrajectory a setup that raises leaves the node busy for good, as in the code:
  no event is fired on that path.
- The fake obstacles of the planner: their service has no client in the repository, and the
  flag is written outside the lifecycle; the geometry they add is not looked at.
- That a plan fits the tool and the scene it is executed in: neither the page nor the robot
  node compares them, so there is nothing to state.
- Signing in, tokens, password rules: they read and compare, no other part acts on them. That
  an administrator is left is not something the code looks after: a role may be emptied.
- `ReadyMeansReady`, `ConfirmedWhenAlone` and the first half of `ToldIsApplied` claim nothing
  once somebody else has acted on the same thing in between: the code holds no lock over what
  it has checked. `InOrder`, `RightTool` and `SuccessLeavesCellClean` claim nothing once an
  order was refused, not obeyed or another client's, `OwnScan` nothing once a publication
  has failed or another client has used the camera or the vision node. The hazards of
  PROJECT.json say which of them no property catches for that reason.
- What becomes of the camera's hidden features: no form sets them, a run hands on what the node
  read at its start. Of several features each is followed by itself, so a run that raises halfway
  shows as one that has written this feature, or not, and failed.
- Save is one step: a node that starts, or a page's process that ends, between the opening
  of the YAML file and the end of the dump is not modelled.
- Integer overflow, image and YAML formats, and what PostgreSQL does beyond row and key locks,
  constraints and its lock timeout.

## Plan

1. RobotTrajectory over RobotSession: a session that is lost while points are being sent.
2. The plan of MotionPlanning against the tool of ToolScene, once the code compares them.
