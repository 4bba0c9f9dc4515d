# Verification of the indoor delivery control plane

The system is a control plane for delivery robots: a FastAPI backend
(`backend/app`), a PostgreSQL database, a Next.js dashboard and, outside this
repository, a Robot Agent on each robot that talks to the backend over one
WebSocket. Operators create deliveries between stations. The backend queues
them per robot, dispatches one at a time, tells the Agent where to drive, and
moves the delivery along its life cycle as the Agent reports and operators
confirm. At any moment an operator can stop, map with, or take out of service
the same robot, and the socket or the backend can die.

The backend's core logic is in how these handlers share a few rows and
in-memory stores. The dashboard's is in how a tab, which polls, listens to a
socket and waits for overlapping requests, keeps what it shows and sends
about the robot and the delivery its operator means. The modules model both;
TLC checks them on small instances, and TLAPS proves every safety invariant and
action property the passing runs check, for all values of the constants.

## 1. Inventory

| Component (code) | State | Operations | Status |
|---|---|---|---|
| Deliveries (`service.py`, `state_machine.py`, `routers/tasks.py`) | task rows: status, robot, priority, `queue_order`, command id | create, reorder, operator events, cancel, retry, dispatch | modelled in part: `FleetMission` |
| Robots (`service.py`, `routers/robots.py`, `robot_ws.py`, `websocket_manager.py`) | robot rows: online, state, `current_task_id`; registered sockets | connect, disconnect, failed send, offline, online, recover, readiness, revoke | modelled in part: `FleetMission` |
| Navigation command link (`command_dispatch.py`, `navigation_path_store.py`, `robot_ws.py`) | command per robot in memory, id and stage in the task row, receipts in the event log | build, send later, resend, result, replay, rejection, cancel confirmation | modelled: `NavigationLink` |
| Emergency stop (`emergency_service.py`, `routers/emergency.py`) | one row per robot: state, latch, pending id, deadline | activate, reset, acknowledge, expire, resend | modelled: `EmergencyStop`; effect on missions in `FleetMission` |
| Mapping sessions (`mapping_store.py`, `routers/mapping.py`) | session in memory; the robot's own mode | start, stop, save, discard, report | in part: only whether a session is active; what a page shows of it in `MappingView` |
| Robot registry (`robot_registry.py`) | pairing codes, credentials with versions and expiry | pair, claim, prepare, cancel and complete a rotation, reconcile, revoke | in part: revocation and readiness; the page's operations in `RegistryPage` |
| Maps and robot operations (`map_switch_store.py`, `map_catalog_operation_store.py`, `robot_operation_store.py`) | pending operations in memory, with deadlines | request, acknowledge, expire | not modelled; the pages see an operation end or fail |
| Localization (`localization_store.py`) | pending request, last pose | request, apply, expire | only as `LocalizationPage` sees it |
| Route preview (`route_preview.py`) | one pending preview per robot, single-use validations | request, answer, time out, consume | only as `DeliveryForm` sees it |
| Queue estimates (`queue_estimate_service.py`) | none | compute waiting times | not modelled |
| Alerts and notifications | rows with a deduplication key | upsert, resolve, publish after commit | not modelled; the list in `NotificationsPage` |
| Browser sockets (`browser_websocket_manager.py`, `dashboard_ws.py`) | sockets by session | snapshot, broadcast, revoke | not modelled; the tab's end of it in `DashboardView` |
| Camera stream, rate limits, sessions, telemetry stores | bounded queues, last values | | not modelled: no part in missions |
| Schema, configuration, deployment, reports | | | not modelled: formatting, I/O or generated; the effect of start-up on robots is `Restart` |

The dashboard (`src/`), all of it state of one browser tab:

| Component (code) | State | Operations | Status |
|---|---|---|---|
| Data provider (`context/ApiDeliveryContext.tsx`, `lib/navigationPath.ts`, `lib/api.ts`) | selection, robot, tasks, feeds, the drawn and the parked path, refs, requests in flight, socket | select, refresh, poll, run an operation, effects of a commit, twelve kinds of message | modelled in part: `DashboardView` |
| Session and routing (`context/AuthContext.tsx`, `components/AppShell.tsx`) | user, page, cookie | restore, log in, log out, any 401, route | modelled: `BrowserSession` |
| Manual drive (`app/manual/page.tsx`) | hold, timer, chain of requests | press, release, repeat, rebind, leave | modelled: `ManualDrive` |
| Assisted and recovery drive (`app/maps/page.tsx`, `components/LocalizationWorkspace.tsx`) | the same without a chain; the scan | the same, scan | modelled: `AssistedDrive`, `RecoveryDrive` |
| Map library, mapping (`app/maps/page.tsx`) | catalogue, dialogs, polled operations; session and drawn map | load, switch, manage, synchronise; start, stop, save, discard | modelled in part: `MapLibrary`, `MappingView` |
| Localization (`components/LocalizationWorkspace.tsx`) | target, status, the operation polled | order a pose or a search, poll | modelled: `LocalizationPage` |
| Camera (`components/LiveCamera.tsx`) | view, socket, frame being decoded, next frame | show, receive, decode, fail, retry | modelled: `CameraView` |
| Notifications (`app/notifications/page.tsx`) | list, filter, cache | load, load more, mark | modelled: `NotificationsPage` |
| Creating a delivery (`app/delivery/page.tsx`, `components/DashboardDeliveryMap.tsx`) | form, preview, step | change, preview, review, create | modelled: `DeliveryForm`, `QuickDelivery` |
| Map canvas (`components/RobotMap.tsx`, `lib/mapGeometry.ts`) | view, pointer, gesture | pan, zoom, turn, pick a station, point or pose | modelled in part: `MapCanvas` |
| Stations (`app/stations/page.tsx`) | catalogue, stations, form | load, choose, activate, save, remove | modelled: `StationsPage` |
| Operator controls (`components/WorkflowControls.tsx`, `app/page.tsx`, `components/UserDashboard.tsx`) | busy flags, requests out | confirm a handover, stop, recover | modelled in part: `OperatorActions` |
| Tasks (`app/tasks/page.tsx`) | list, filters, drawer, history | load, open, fetch, act | modelled: `TasksPage` |
| Mission progress (`lib/taskProgress.ts`, `lib/taskEta.ts`) | row, feedback and estimate shown | refresh, feedback | modelled: `MissionProgress` |
| Registry (`app/robots/page.tsx`) | requests and robots, dialog, code | load, approve, reject, rotate, revoke, archive | modelled: `RegistryPage` |
| Alert centre, users, audit log; text, types, layout | | | not modelled |

### How they interact

- **Calls.** A request handler commits a change of the rows, may dispatch the
  next delivery in that same transaction, and builds a navigation command, which
  is sent by a background task *after* the response.
- **Messages.** The Agent's results, rejections, cancel confirmations and
  acknowledgements are handled one at a time by a receive loop per socket. A new
  socket replaces the old one, whose loop may end much later.
- **Shared state.** Emergency stop writes the same robot and task rows as the
  missions do. The mapping flag and the command store are memory that a
  restart loses and the rows survive.
- **Concurrency.** Asynchronous handlers interleave only where they `await`.
  Synchronous ones (offline, online, recover, queue changes, status of the
  emergency stop) run on threads. Handlers that touch a mission hold the row
  lock of the robot from before their first decision until they commit.
- **In a tab.** Handlers, effects and answers run one at a time, but an `await`
  lets anything happen before its answer: another selection, a newer request, a
  message of the socket, the end of the page. Callbacks keep the selection they
  were created with until the next commit; refs are what later code reads.

### What is hard, and what makes each part correct

- *Missions*: nine handlers free or occupy a robot, each in its own way. Correct
  means: never two deliveries under way on a robot, none while it is stopped,
  `current_task_id` and the state column always in agreement with the
  deliveries, a freed robot handed its next delivery at once.
- *Command link*: lost, repeated and late messages over a dying socket; a store
  that a restart empties. Correct means: one identity per leg and attempt, only
  a result of the present attempt moves the mission, and a result is
  acknowledged in the end.
- *Emergency stop*: late acknowledgements, deadlines enforced by whoever reads
  the row next, a thread that writes without the lock. Correct means: the latch
  is released, and the stop shown as confirmed, only when the robot did it.
- *What a tab shows*: seven requests per refresh, several refreshes at once, a
  socket that says the same things sooner. Correct means: one robot on screen,
  the plan of its present leg, and in the end what is.
- *What a tab sends*: Correct means: what an operator confirmed is what
  happens, for the robot and the delivery that were on the screen; and no
  robot is left driving when the hold ends, however it ends.
- *Queue*: two orders (priority and number) and a renumbering. Correct means:
  moving one delivery leaves the others in their order.

`PROJECT.json` lists these hazards at their lines, with the property for each, or
the reason why none covers it yet.

## 2. The modules and the code

| Module | What it is |
|---|---|
| `TaskLifecycle` | abstract: a delivery stays with its robot, moves along the edges of its life cycle one at a time, and is dispatched only to a robot that has none |
| `FleetMission` | the rows of all deliveries and robots, one action per handler; implements `TaskLifecycle` |
| `NavigationLink` | extends `FleetMission` for one robot: each handler together with what it does to commands, and the socket, the receive loop and the Agent |
| `EmergencyStop` | one robot's stop: its row, requests, deadlines, the socket and the robot |
| `FleetClaims`, `EmergencyClaims` | sentences of the documentation, stated of the two models; each is refuted (section 4) |
| `MCFleetMission`, `MCNavigationLink` | the bounds for TLC |
| `FleetMission_proofs`, `NavigationLink_proofs`, `EmergencyStop_proofs`, `ManualDrive_proofs`, `RobotPages_proofs`, `OperatorPages_proofs`, `DeliveryPages_proofs`, `Console_proofs` | the theorems |
| `DashboardView` | the data provider of one tab, with as much of the backend as it sees |
| `BrowserSession` | who the tab believes is signed in, who its cookie says, and the gate before the pages |
| `Console` | the two of them, with the browser's fairness |
| `DashboardClaims` | a sentence of a test, stated of `DashboardView` and refuted |
| `ManualDrive`, `AssistedDrive`, `RecoveryDrive`, `MapLibrary`, `MappingView`, `CameraView`, `NotificationsPage`, `DeliveryForm`, `QuickDelivery`, `LocalizationPage`, `MapCanvas`, `StationsPage`, `OperatorActions`, `TasksPage`, `MissionProgress`, `RegistryPage` | one page or one part of a page each |
| `PageConstants`, `Pages` | what the pages share, and their composition |
| `MCConsole`, `MCPages` | the bounds for TLC |

**FleetMission.** Variables are columns (`status`, `assigned`, `priority`,
`queueOrder`, `online`, `state`, `current`, `readiness`, `latched`) and memory
(`mapping`, `connected`, `open`; `slam` is the robot's own mode). A handler is
one step, because it holds the row lock throughout. It first computes the
rows it changes, then calls `DispatchNext` on those, as the code flushes and
then calls `dispatch_next_queued_task`. `connected` and `open` differ because
`send_json` unregisters a socket on which it failed while its receive loop goes on.
A fleet is either all paired or all legacy: the eligibility of a legacy robot
ends with the first pairing. `DEGRADED` is folded into `READY`; a delivery
accepted by supervised navigation only is an accepted one.

**NavigationLink.** `command` is the id and stage in the task row, `store` the
command in memory, `receipts` the event rows with an `external_message_id`. An
identity is a task, a stage and a number in the order drawn: code compares uuids
for equality only. `sends` holds what background tasks will send after the
response, whatever has happened by then. `setup` separates registering the
socket from resending, between which requests interleave. `MarkOffline` and
`ClearAfterOffline` are two steps: the request runs on a thread and clears the store
after its commit. The Agent is external: it drives an identity once, and
reports a result until it is acknowledged, as `docs/agent-protocol-v1.md` asks;
it may reject, ignore a cancellation, or lose its memory while disconnected.

**EmergencyStop.** `estop`, `latched`, `pending`, `deadline` are the row.
Activation commits, awaits a broadcast, then sends (`suspended`). The status
request reads on its thread (`ReadExpired`) and writes later (`WriteExpired`).
`Connect` may leave the acknowledgements of a dropped socket to be handled: the
code closes the old socket only while it is still registered. Time is abstract:
a deadline that is set may be found expired at any moment.

**DashboardView.** `selected` is `selectedRobotIdRef`, `closure` the selection
the live callbacks closed over: a commit brings the two together, starts a
refresh and a map read and replaces the socket. `refreshes` and `fetches` are the
calls in flight, each with its selection and, once read, its answer; they are
applied in any order. `robotRef` and `activeRef` are written by the effects of a
commit, one step after the state they follow, and the socket's handlers read
them: that gap is where paths go astray. A delivery is a list of phases
(`Script`), so that a retry is a second phase of the same stage; a path carries its
phase in place of its command id. Of the robot-scoped data kept beside the
tasks a behaviour follows one kind (`tracked`), since no handler reads one to
write another. The backend's steps (`Advance`, `Plan`, `Archive`, `Revoke`) are
external. Both intervals skip their turn while the tab is hidden, so `Poll` is
never forced by the model itself.

**BrowserSession.** A request is sent with the cookie of the moment, gets its
answer at the backend (`ABServe`) and brings it to the tab later (`ABAnswer`), or is lost.
`logoutWithLocalTeardown` forgets the user before it asks; every 401 ends
whatever session is shown.

**The pages.** Each module has the page's state, its requests out (with the
callbacks' closure: which robot, map, filter or form they were made for), its
timers, and one action per handler, answer, timer and effect. The selected
robot is changed from outside at any time. Where they are worth knowing:

- `ManualDrive` keeps the promise chain as a queue whose head is in flight;
  `MDCommit` is the effect's cleanup, which stops with the callbacks of the
  robot that was selected before. `AssistedDrive` has no chain: a repetition
  waits for its own answer, a stop for nothing, and requests answer in any order.
  `RecoveryDrive` is the same drive under another guard, beside the automatic scan.
- `DeliveryForm` and `QuickDelivery` share the form, the 250 ms timer, the
  previews and the validations, each of which one creation consumes.
- `CameraView` gives every run of the effect its own view number; an image of
  an earlier view may leave the decoder at any time.
- `MapCanvas` computes with whole numbers: positions in hundredths of a pixel,
  turns by quarters, so that the two conversions are exact.
- `OperatorActions` keeps the mission *on screen* apart from the robot
  selected: selecting clears neither `robot` nor `tasks`, so the mission of the
  robot that was left can be confirmed or stopped until a refresh. A request carries what
  was on screen; the backend applies it to what is there by then.
- `MissionProgress` has three sources that do not wait for each other: rows,
  Nav2 feedback and estimates. Rounding is that of the code.
- `TasksPage` runs its effects with React's cleanup: the flag of an effect
  silences the answers asked for under it (`Silenced`).

**Composition.** `Console` follows either the session or the data of a tab:
the two meet only when the session is lost, which each models on its own.
`Pages` opens one page, chosen once: pages share the provider, no state of their
own, so that interleaving two of them would show nothing new; what they take
from the provider changes at any time within each.

Definitions with a suffix after an underscore (`Matches_Unchecked`,
`RobotAvailable_Unlatched`, ...) are seeded faults. Nothing uses them; each is
what a plausible bug would make of the definition it is named after, and shows
that a property notices.

## 3. Runs that pass

| Run | Instance | Properties |
|---|---|---|
| `fleet_robots` | two paired robots, two deliveries, about 373 000 states | `TypeOK`, `OneActiveTask`, `CurrentIsOwn`, `StopInhibitsMission`, `StateMirrorsMission`, `NoLostHandover`, `CancelHeldUntilConfirmed`, `ImplementsLifecycle` |
| `fleet_queue` | one legacy robot, three deliveries, both priorities, about 451 000 states | `QueueReorderIsLocal` |
| `link` | one delivery and its retry, two identities, one message in flight each way, about 940 000 states | `OneIdentityPerLeg`, `IdentityCoherent`, `EarnedAdvance` |
| `link_liveness` | the same without stops and offline requests, about 37 000 states | `AckedInTheEnd`, `DrivenLegEnds` |
| `estop` | three command ids, two messages in flight each way, about 120 000 states | `TypeOK`, `RowCoherent`, `LatchFallsOnReset`, `StoppedIsConfirmed`, `CommandSettles`, `StopReachesRobot` |
| `console` | two robots, an administrator or a requester, two refreshes at once, one map read, two messages, about 110 000 states | `PathOfShownLeg`, `OneRobotOnScreen`, `ShowsOnlySelected`, `ViewSettles`, `LostSessionLeaves` |
| `pages` | seventeen pages, two robots, maps, tasks and filters, about 738 000 states | the fifteen properties listed below |

What they show, and the exceptions the code makes, which the properties name:

- `NoLostHandover`: a freed robot is handed its next delivery in the same
  transaction. A backlog can still arise in front of an available robot when
  the latch or the mapping flag falls, neither of which dispatches, or when a
  delivery that `set_robot_online` had detached is cancelled.
- `CancelHeldUntilConfirmed`: a cancelled delivery holds its robot until the
  Agent confirms; emergency stop, offline and online override that.
- `EarnedAdvance`: a late result of a failed attempt never moves its retry.
- `IdentityCoherent` and `EarnedAdvance` except `torn`: a retry made between an
  offline request's commit and its clearing of the store (`robots.py:62-63`)
  takes the old identity again. Inside that window a result of the old attempt counts
  for the new one.
- `DrivenLegEnds` speaks of missions that were given a command: a delivery that
  is dispatched by `recover`, `online`, a rejected command, or the creation of a
  younger delivery is sent nothing until the robot reconnects.

- `PathOfShownLeg`: the plan on the map is that of the leg the tab believes in,
  and the label says "live" exactly when a plan is drawn.
- `OneRobotOnScreen`, `ShowsOnlySelected`: data of the robot that was left goes
  or stays away, whatever refreshes and messages are under way. Two exceptions: the
  state of the emergency stop is not cleared by a selection; and map, feedback and
  diagnostics may be those of a robot that has left the fleet, or, when the
  selected one has left it, diagnostics those of the robot shown.
- `ViewSettles`: a tab that stays visible ends with the present deliveries of
  the selected robot, or without a session. `LostSessionLeaves`: and without a
  session it leaves its page.

| Property of `pages` | What it says |
|---|---|
| `MotionEndsWithStop`, `AssistedMotionEndsWithStop` | whatever ends a hold, every robot told to drive is told to stop |
| `LibraryOfOneRobot`, `StationsOfOneRobot` | what is shown and ordered is about the selected robot; stations reload with old callbacks after an operation of the robot that was left, which the property excepts together with what is ordered from such a page |
| `OldMapNeverDrawn` | a mapping session is never drawn on a map older than itself |
| `LiveIsOfShownRobot` | a picture called live was drawn by the present view, and the newest frame is drawn in the end |
| `ActsAsShownUser` | requests carry the session of the user on screen or none |
| `ListFitsFilter` | list and cache were asked for with their filter; "load more" and marks are not guarded, which the property excepts |
| `CreatedAsReviewed` | a delivery is what its operator reviewed, from a validation nobody else used |
| `SuccessIsConfirmed` | a localization command is called successful only when the robot confirmed that very command; an operation goes on, and reports, for a target that was left |
| `PointsAtWhatIsDrawn` | a pointer picks the station or world point drawn under it |
| `ActsAsConfirmed` | what happens on an operator's word is what was on the screen |
| `OperatesAsConfirmed` | the same of the registry's dialogs, and of the code typed into one |
| `ShowsOneTask` | drawer and history show the task that was opened |
| `BarFollowsMission` | the bar never falls along the stages shown, and agrees with the arrival cards |

`ActsAsConfirmed` excepts one button. The dashboard of a requester shows the
newest of their active deliveries, on whatever robot (`UserDashboard.tsx:32`,
`roleDashboard.ts:67`); its confirmation advances the active delivery on the
robot the provider reads (`ApiDeliveryContext.tsx:313-319`, `948-964`), which for a
requester is the preferred one. With deliveries on two robots, "Confirm Package
Loaded" for one may confirm the receipt of the other, or nothing at all
(`OAHandover` with `shown` false).

**Bounds, and why they are enough.** Handlers relate at most one robot, its
current delivery and the head of its queue. Two robots with two deliveries show
whether a handler of one robot touches another's rows, and two deliveries on one
robot show every handover. `QuietNeighbour` keeps one of the two robots out of
stops, mapping and link trouble. Reordering swaps two deliveries past a third,
so three. In `link`, two identities give both legs of an attempt, or an attempt
and its retry; one message per direction loses no order, since the channels are
FIFO and what matters is what is still under way when the state changes.
`MaxCommands` guards only actions that draw an identity in a request (`Spare`),
so that nothing fair is ever blocked by it. `Cardinality(sends) <= 1`,
`StopOrOffline`, `Undisturbed` and `ReadyToCreate` (in `MCNavigationLink`) cut
combinations of independent troubles. In `estop`, three ids give a stop, its
reset and a second stop. There, commands beyond the bounds are disabled, not
lost. In `console`, a race is between two refreshes, or a refresh and a message,
so two of each; one event per behaviour is a selection, an advance, an
archival or a failed refresh at every point of them. The four feeds followed are
written in the four ways there are: by refreshes and messages (poses; stations
likewise), by messages only (the feedback), by a request of their own (the map),
and by refreshes that a selection clears in advance (diagnostics). The last have two
events: a robot is selected, and archived, while a refresh is under way. In `pages`, two robots give the
one left and the one selected; the counts of requests allow, on each page, one
to be overtaken, one that is current and one that is disowned, and an operation
beside them. `MapCanvas` has two maps, one turned, two window sizes and three
stations, one off the map; the scale is a whole number of pixels per cell, so
the maps are ones that fit their window at one at least. All runs set `CHECK_DEADLOCK FALSE`: a system with
every delivery terminated and nothing connected may really stop.

**Fairness.** Safety runs assume none. `EmergencyStop!Fairness`: an
administrator's page polls the status every few seconds
(`ApiDeliveryContext.tsx`), so an expired deadline is noticed; the event loop
resumes a suspended handler and a receive loop that has a message; a robot with
a live socket takes its commands. `NavigationLink!Fairness`: the same of the
event loop and of the background sends; the Agent reads its socket, ends its
goals, and takes turns among the results it reports (strong fairness per
identity, since one result may fill the channel while another waits). Nothing
makes operators, disconnections or reconnections fair. `ConsoleSpec`: effects of
a commit, a connecting socket, reading and applying an answer happen in the end
because the browser and the network do them; strong fairness stands where the
bounds of the instance, or a lost answer, may disable a step that would be taken
at once. That a tab polls is the hypothesis of `ViewSettles` and
`LostSessionLeaves`: it does every few seconds as long as it is visible
(`ApiDeliveryContext.tsx:520-529`). `StopReachesRobot`, `AckedInTheEnd` and
`DrivenLegEnds` say what follows *if* the link eventually holds;
`StopReachesRobot` also assumes that no reset is asked for and the robot refuses
no command, `DrivenLegEnds` that no robot is marked offline.

## 4. Runs that refute a sentence of the documentation

| Run | Sentence | What the code does |
|---|---|---|
| `claim_lost_link` | `docs/resilience-testing.md:13`: an Agent that disconnects during a mission raises an alert | a send fails and unregisters the socket (`websocket_manager.py:85`); when its receive loop ends, nothing is recorded: the robot stays online |
| `claim_offline` | `docs/resilience-testing.md:19`: preserve the active task of a robot that goes offline | `set_robot_online` clears `current_task_id` while the task stays under way; its result is refused from then on |
| `claim_mapping` | `docs/HARDWARE_INTERFACE_CONTRACT.md:102`: no deliveries while mapping | the session is lost at a restart or an undelivered stop; the robot, still in mapping mode, is given a delivery |
| `claim_command_id` | `docs/agent-protocol-v1.md:87`: command ids are idempotency keys | a stop pressed while a reset is pending is sent under the id of the reset; an Agent that deduplicates drops the stop. An Agent that does not fares no better: a reset sent again after that stop is performed last, and the stop's acknowledgement then shows the robot as stopped. `StoppedRobotIsStopped` (section 5) proves that a row can only be wrong in this way. The page offers the button of a latched robot no second time, so such a press comes from a tab that has not yet seen the stop |
| `claim_plan` | `tests/frontend_fleet_management.test.mjs:73`: "active navigation keeps the latest Nav2 plan until a stage change or clear event" | a path that arrives while the tab knows no active task is parked (`ApiDeliveryContext.tsx:632-634`); neither a clear nor a workflow message drops it (`613-622`, `660-687`). If the leg fails and is retried, the old plan fits the task and stage and is adopted (`449-472`); the guard on command ids (`649-654`) then refuses every plan of the present command |

## 5. Proofs

Proved for every set of robots, number of deliveries, number of command ids and
size of the channels, every set of users, maps and filters and any number of
requests, from `FleetAssumption`, `LinkAssumption`, `EmergencyAssumption`,
`PageAssumption`, `SessionAssumption`, `CommandsAssumption`, `DashboardAssumption`,
`ProgressAssumption` and `CanvasAssumption` only. These state what the constants
are: sets and their members, bounds in `Nat`, maps with cells that fit their window.

| Theorem | States |
|---|---|
| `FleetMission_proofs!TypeCorrect` | `Spec => []TypeOK` |
| `OneActiveTaskHolds`, `CurrentIsOwnHolds`, `StopInhibitsMissionHolds`, `StateMirrorsMissionHolds` | the four invariants of `fleet_robots` |
| `LifecycleImplemented` | `FleetMission` implements `TaskLifecycle` |
| `CancelHeldHolds`, `NoLostHandoverHolds`, `QueueReorderIsLocalHolds` | the three action properties of `fleet_robots` and `fleet_queue` |
| `FinishedStaysHolds` | what is delivered or cancelled stays so: proved of `TaskLifecycle`, and carried over by the refinement |
| `NavigationLink_proofs!MissionsImplemented` | `LinkSpec => Spec`: the link's missions are `FleetMission`'s, so the theorems above hold of them too |
| `IdentityCoherentHolds`, `OneIdentityPerLegHolds`, `EarnedAdvanceHolds` | the two invariants and the action property of `link` |
| `EmergencyStop_proofs!TypeCorrect`, `RowCoherentHolds` | types, and that the row's columns agree |
| `LatchFallsOnResetHolds`, `StoppedIsConfirmedHolds` | the two action properties of `estop` |
| `StoppedRobotIsStopped` | as long as nobody presses the stop while a reset is pending, a robot whose row says `STOPPED` is stopped |
| `ManualDrive_proofs!MotionEndsWithStopHolds` | `MDSpec => []MotionEndsWithStop`, for every fleet, chain and number of presses |
| `RobotPages_proofs!ManualDriveImplemented`, `MotionEndsOnPages` | `PagesSpec => MDSpec`, and so the same among all pages |
| `RobotPages_proofs!LibraryOfOneRobotHolds`, `StationsOfOneRobotHolds`, `OldMapNeverDrawnHolds`, `LiveIsOfShownRobotHolds`, `SuccessIsConfirmedHolds`, `AssistedMotionEndsHolds` | `PagesSpec => []...`, the properties of the pages that watch and move a robot |
| `OperatorPages_proofs!ActsAsConfirmedHolds`, `OperatesAsConfirmedHolds`, `ActsAsShownUserHolds`, `ListFitsFilterHolds`, `ShowsOneTaskHolds` | the same of the pages that act on an operator's word |
| `DeliveryPages_proofs!CreatedAsReviewedHolds`, `PointsAtWhatIsDrawnHolds`, `BarFollowsMissionHolds` | the same of the forms, the canvas and the progress bar |
| `Console_proofs!PathOfShownLegHolds`, `OneRobotOnScreenHolds`, `ShowsOnlySelectedHolds` | the safety properties of `console` |

*FleetMission.* None of the four invariants is inductive alone: that a dispatch
gives no second delivery needs the state column to mirror the mission, which
needs the current task to be the robot's own. `IInv` is their conjunction, with types
and "a task that exists has a robot", written as `Good` over arbitrary rows
rather than the variables. So a handler needs two facts: the rows it computed are
`Good`, and `DispatchKeepsGood`. Refinement uses `IInv` and
`DispatchRefines`: whatever a handler dispatches is what `MayDispatch` allows.

The action properties need more. A retry and a recovery release a robot that is in
`ERROR` without looking at its cancelled delivery: `CancelHeldUntilConfirmed` holds
because such a robot has no delivery: the stop that puts it there clears
`current_task_id`, and a failed navigation frees it at once unless it is stopped
(`ErrorHasNoTask`, an invariant of its own). For `NoLostHandover`, `DispatchLeavesNone` says that a
robot a dispatch was for is not left available in front of a queue, and
`DispatchKeepsOthers` that no other robot is touched; what is left are the
handlers that do not dispatch, each of which frees no robot or is excused.
`QueueReorderIsLocal` rests on `PositionsOrdered`: counting who is ahead gives
numbers that are distinct and in the queue's order, so the swap of two adjacent
numbers moves nobody past a third.

*NavigationLink.* `LinkInv` says that commands are their own task's and drawn in
order (`Books`), that messages are ones the two sides build (`Traffic`), and,
unless `torn`, that memory follows the rows (`Agree`) and that a failed mission's
command is out of memory or about to be (`Released`). `IdentityCoherent` needs the last:
a retry forgets the row's command, which would leave memory with the old one.
Each handler that fails a mission also drops its command, or is the offline
request, whose window is `clearing`. That most handlers fail no mission and let
none arrive is a fact about FleetMission's dispatch (`DispatchMarks`, `ControlMarks`,
`EventMarks`); with it `EarnedAdvance` is left with the one step that applies a
result, where the command in memory is the result's and of the present attempt.

`OneIdentityPerLeg` is about every identity that was or will be given (`Given`:
seen, on the socket, or to be sent). Its invariant, `GivenInv`, holds in the
`torn` window too. A row remembers the identity given for its destination, and
the one for its pickup until then (`Remembered`); memory holds what the row
does, or an identity drawn before the last retry (`MemoryFits`); and a mission
whose row remembers a destination is past its pickup (`Past`), which only a retry
undoes (`NotBack`). `BuildFits` draws a new identity where none of the leg was
given, and `RetryGives` uses that all that was given before the retry is old.

*ManualDrive.* `MotionEndsWithStop` says of every drive request that the present
hold owns it or a stop for its robot waits behind it. It is not inductive: a
press raises the generation, and a request numbered like the new hold would count
as its own. `Owned` excludes that (no request is numbered ahead of the
hold, and one numbered like a hold that lasts is for its robot). `StopWithKeeps`
covers the five actions that stop, `SettleKeeps` the answer of the head of the
chain, `RepeatKeeps` the timer.

*EmergencyStop.* `RowCoherent` is not inductive without `Released` (an unlatched row
waits for nothing), since the unlocked status thread writes over what was
committed meanwhile. The action properties need to know what an
acknowledgement on the socket means: `AcksTruthful` says that one that carries
the pending id and is accepted was performed since the activation, which holds
because ids are drawn in order (`IdsDrawn`, `CommandsDrawn`).

*Pages.* A page that is not open does not move, so each of these proofs is about
the steps of one module, and `PagesSpec` is their disjunction. None of the
properties is inductive: what is added says what the page's guard compares. The
newest request of a kind was made for what is selected now
(`CurrentLoadIsSelected`, `ShownIsOwn`), so an answer that passes the guard is
of the selected robot. The newest frame is drawn, decoding or next
(`NewestIsKept`). A mapping session's baseline is no older than the last map seen
without one (`BaselineIsKept`). A request of the present hold is for the
robot held (`DMInv`). A command has one robot and one end, and the flow on
screen is its own (`StoreAgrees`, `FlowIsOwn`). What an operator's request
carries was on screen when it was made (`EventOfItsStage`, `CodeOfDialog`,
`AsksFit`, `WantedIsOpen`), the session in the cookie is the shown user's
(`CookieIsOwned`), and one load at most keeps the registry busy
(`OneLastLoad`).

*Delivery form.* `DPInv`: a run of the effect asks once, and the present one for what the
form says now (`AsksOfRuns`); a number stays with the request, the validation or
the delivery made of it (`PlansOfRuns`); once the 250 ms are over, the preview on
the page, and the one a submission carries, is of the form's robot (`PreviewFits`,
`SubmitFits`). One lemma, `RerunKeeps`, covers all the ways in
which the effect runs again.

*Canvas.* `PointsAtWhatIsDrawn` holds because the two conversions, from the map to
the canvas and back, undo each other. The four quarter turns are
rigid (`TurnsAre`, `TurnIsRigid`); drawing and taking back cancel
(`TakenBack`, `DrawnIsTakenBack`) because the scale divides exactly what it
multiplied; so being near on the screen is being near on the map, and the
nearest station on the one is the nearest on the other (`AwayIsAsDrawn`,
`NearestIsUnder`, which takes a least distance by `LeastNatural`).
`GestureHolds` adds what a pressed pointer remembers.

*Progress.* `BarInBand` puts the bar of every stage in a band of its own, whatever
distance the route has and whatever remains of it; the bands are in the order of
the stages, and a late feedback is of its own stage or ignored (`MPTyped`).

*Console.* `PathOfShownLeg` is inductive but for types: the effects that write
`robotRef` and `activeRef` reconcile the path in the same step. The screen
needs `NothingBefore`: until a robot was selected no request was made for
one, and an administrator is shown none. `IsRefresh` says what an answer holds:
no robot that was gone when it was read comes back in it, since the fleet only
shrinks. The proof showed `OneRobotOnScreen` as first stated to be false of
diagnostics: a refresh asked for before a robot was selected, and answered after
that robot was archived, is not taken for another robot's
(`ApiDeliveryContext.tsx:366-378`) and shows the previous robot's. TLC finds the behaviour
with two events; the property, and the instance, now have it.

*A robot shown as stopped.* `StoppedIsConfirmed` says that the stop was performed
since it was ordered, not that no reset was after it. `HeldInv` says that no
reset is behind a stop of the row's id: not on the socket (`SentIsLast`), not once
acknowledged (`AckedIsHeld`), not in the request that was suspended
(`SuspendedIsStop`). The only step that breaks it is the one
`NoStopDuringReset` excludes, and the behaviour that follows is real
(`claim_command_id`, section 4).

**Model-checked only.** The liveness properties: `AckedInTheEnd`,
`DrivenLegEnds`, `CommandSettles`, `StopReachesRobot`, `ViewSettles` and
`LostSessionLeaves`. This prover can do neither `ENABLED` nor fairness.

## 6. Not modelled

- Database lock waits and deadlocks: a handler is one step, so the order task
  row, robot row against robot row, task row (`service.py:1093`, `1038`) cannot
  block.
- A connection whose setup fails while it sends: the code leaves it registered
  without a receive loop (`robot_ws.py:310`); here, its loop ends later.
- In the backend: authorization, previews, positions, telemetry, paths and feedback,
  wording of errors, alerts and notifications, the stores of map, catalogue and
  robot operations, localization, queue estimates, and the browser feed. The
  pages' modules take from these what their answers can be.
- The rotation of a credential (`robot_registry.py:391-497`), with its grace period
  and the robot that comes back with either credential.
- `AlertCenter.tsx`: one list filled by a fetch and changed by messages. A
  fetch that was asked for before a change and answered after it overwrites the
  change, and its own socket is not opened again once closed: both are mended
  by the next fetch only.
- The emergency stop's button (`EmergencyStopControl.tsx`), whose requests are
  those of `EmergencyStop`; the users, audit and account pages: a form and a
  list each; `TaskTimeline.tsx`, which orders and subtracts times.
- Text in two languages, types, icons, layout, drawing; `RobotOperationsControl.tsx` and
  `lib/queueEta.ts`, which no page mounts.
- Resetting the demo data, and simulated robots.

## 7. Plan

Done, in this order: `TaskLifecycle` and `FleetMission`, their proofs,
`EmergencyStop` and its proofs, `NavigationLink` and its proofs, `DashboardView`
and `BrowserSession`, the pages, the proof of `ManualDrive`, those of the
other pages, those of what was left of `FleetMission` and `NavigationLink`, and
those of `Console`. Left, the most useful first:

1. Proofs: that `NavigationLink` gives the Agent no goal while the stop is latched; that
   what the tab sends and what the backend does with it compose
   (`OperatorActions` against `FleetMission`).
2. `CredentialRotation` (`robot_registry.py:178-251`, `391-497`): claim, prepare,
   cancel, complete and reconcile, the grace period, and a robot that comes back
   with either credential. Abstract specification: at any time the robot holds a
   credential that authenticates.
3. `RobotOperations`: map switch, catalogue, localization and robot operations as
   one parameterised store of pending operations, whose acknowledgement races the
   deadline and the next request.
4. `RowLocks`: the order in which handlers take row locks, and locks held across
   an `await`; property: no cyclic wait.
5. `QueueEstimate`, as a recursive function against a reference definition.
