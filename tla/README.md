# Verification of ROS2_SALUS

TLA+ models of the program that drives the SALUS vehicle, the TLC runs that
check them and the TLAPS proofs about them. The models are translated from the
source (packages under `src/`); where the code and a document disagree, the
code is what is modelled and the disagreement is listed under *Disagreements*.

1. [The system](#the-system)
2. [Modules](#modules)
3. [Runs](#runs), bounds and fairness
4. [Proofs](#proofs)
5. [Disagreements](#disagreements)
6. [Not modelled, and the plan](#not-modelled-and-the-plan)

## The system

| Component | State it keeps | Operations | Talks to |
| --- | --- | --- | --- |
| `nav_command_server` (navegacion_gps) | manual flag, current goal handle, navigation mode and loop configuration, collision and backup flags, manual watchdog, brake hold registration | subscriptions `/cmd_vel_safe`, `/cmd_vel_teleop`, collision monitor state; services set_goal_ll, cancel_goal, brake, set_manual_mode, get_state; result callbacks; watchdog timer; threads for holds, sequences, cancels and the backup manoeuvre | Nav2 actions; publishes `/cmd_vel_final` |
| `controller_server` | newest command and its time, command state of the UART link, newest telemetry, battery guard, receive buffer | callback of `/cmd_vel_final`, control tick, telemetry tick, transmit and receive threads | ESP32 over UART |
| `route_executor` | mission, chunk, waypoint actions, blocked wait, low battery response, patrol phase, navigation profile | set_route, set_patrol, cancel, return home, profile; telemetry and battery callbacks; retry timer; action and retry threads | services of `nav_command_server`, costmap and filter parameters |
| `zones_manager` | document, its file, mask files, readiness | set and get zones, reload from disk | map server, costmap |
| `web_zone_server` (map_tools) | WebSocket clients, control lock, copies of the mission states, files of waypoints and datums | one task per message, a pool of threads for what blocks, timers | all services above |
| `datum_setter` | datum, the operation lock | sensor callbacks, the operator's service | robot_localization |
| `gps_course_heading`, `compass_heading_gate` | fix history and held heading; stillness and startup window | sensor callbacks, publishing timers | the map EKF |
| `path_clearance_validator`, `navegacion_gps_bt` | newest costmap, cache of answers | costmap callback, service, parameters | behaviour tree of Nav2 |
| `rtk_source_manager`, `rtk_bridge` | sources and their file, active source, connection | manage and select callbacks, NTRIP worker thread | GPS receiver |
| `jetson_power_monitor`, `jetson_power_lib` (tools) | segment files and journal of a boot | samples, alarms, start and stop, the judgement after a restart | files |
| launch files | launch configuration | declare, include, start, delay, raise | every node |
| observability (`nav_observability`, `nav_snapshot_server`, `nav_trace_recorder`) | aggregates | subscriptions | files, web |
| scan and lidar filters, odometry, stationary gates | none between messages, or one hysteresis | one message at a time | Nav2 costmaps, EKF |
| camera, Pixhawk, vision, simulation | device state | device I/O | – |

A velocity travels like this: Nav2 → collision monitor → `/cmd_vel_safe` →
`nav_command_server` → `/cmd_vel_final` → `controller_server` → UART → ESP32.
The operator enters at `/cmd_vel_teleop`. A mission enters through the web
gateway and `route_executor`, which sends it to `nav_command_server` chunk by
chunk and reads the results back from telemetry.

What is hard here: nodes run on two executor threads with several callback
groups plus free threads, share their fields under one lock and act after
releasing it; handlers wait for other nodes while they hold one of the two
workers, and the answer needs a worker; other nodes answer late, twice in a row
or never, and may serve a request after its caller has given it up; several
steps with effects in different places fail one by one; files are written while
the power may go. `PROJECT.json` lists each of these hazards at its line.

What makes each component correct, modelled or not:

- *arbitration*: who may move the vehicle, and that a stop stays the last word;
- *goals*: the node's idea of its goal and Nav2's agree, and a cancel is final;
- *UART link*: no mixture of two commands moves the vehicle against a stop,
  silence and shutdown end in safe frames; *parser*: frames come out as they
  were sent, however the stream is cut;
- *battery guard*: latched and cleared only by what was measured;
- *route executor*: each result is counted once, actions run in turn, a low
  battery leaves no mission that cannot bring the robot HOME, a blocked wait ends;
- *profile*, *zones*, *datum*: after a failure in the middle the parts agree,
  and the answer claims no more than was done;
- *web gateway*: control is locked when the page falls silent, answers are true,
  and the page sees the mission as it is;
- *RTK*: corrections and status are those of the active source;
- *path clearance*: an answer is about the map and parameters of now;
- *headings*: each rests on evidence that is recent enough;
- *power log*: the verdict on a boot follows from what reached the disk;
- *launch*: one program per name, one source per wire, no need without a source.

## Modules

| Module | Models | Code |
| --- | --- | --- |
| `DriveAuthority` | what is promised about `/cmd_vel_final`; `CmdGate` implements it | `nav_command_server.py` |
| `CmdGate` | arbitration of `/cmd_vel_final` | `nav_command_server.py` |
| `NavGoals` | life cycle of Nav2 goals, loop restarts, backup manoeuvre, executor workers | `nav_command_server.py` |
| `UartLink` | command shaping, control tick, setters, transmit thread, shutdown | `controller_server_node.py`, `control_logic.py`, `transport_backends.py`, `rpy_esp32_comms/` |
| `CommandChain` | from a decision to the wire: `DriveAuthority`, the topic, `UartLink` | the files of both |
| `CommandPath` | the same with `CmdGate` in place of its promise | the files of both |
| `FrameParser` | receive parser | `rpy_esp32_comms/protocol.py` |
| `BatteryGuard` | latch of the low-energy guard | `battery_estimator.py`, `controller_server_node.py` |
| `RouteMission` | missions, threads, calls and their time-outs | `route_executor.py` |
| `BlockedRetry` | what is promised about a blocked route; `RouteMission` implements it | `route_executor.py` |
| `RoutePlan`, `RouteWalk` | which waypoints a mission drives, and a robot driving them | `route_executor.py` |
| `NavProfile` | switching the navigation profile | `route_executor.py` |
| `ZonesStore` | a zones update, its failures and crashes | `zones_manager.py` |
| `ControlLock`, `RouteView` | control lock; the page's copy of the missions | `web_zone_server.py` |
| `WsOperations`, `WsGateway` | operations of the pages and what they ask; connections, tasks, threads | `web_zone_server.py` |
| `DatumSetter` | setting the datum, two askers, two workers | `datum_setter.py` |
| `CourseHeading`, `CompassGate`, `Headings` | heading from GPS fixes; when the compass is believed; both | `gps_course_heading*.py`, `compass_heading_gate.py` |
| `PathClearance` | validator with its cache | `path_clearance_validator.py` |
| `RtkSource` | sources, worker thread, generations | `rtk_source_manager.py` |
| `PowerLog` | log of the supply voltage over power cuts, judgement | `tools/jetson_power_*.py` |
| `LaunchPrograms` | programs as their wires | the nodes of `navegacion_gps`, `map_tools`, `sensores`, `controller_server` |
| `LaunchShared`, `LaunchReal`, `LaunchSim`, `LaunchLegacy` | arguments and entities of the launch files | `launch/*.launch.py` |
| `LaunchPlan` | the launch system visiting them | (external) and the files above |
| `CmdGate_proofs`, `NavGoals_proofs`, `UartLink_proofs`, `RouteMission_proofs`, `RouteWalk_proofs`, `DatumSetter_proofs`, `ZonesStore_proofs` | theorems about the modules of these names; `UartLink_proofs` also about `CommandChain`, `CmdGate_proofs` about `CommandPath` | |
| `Nodes_proofs` | theorems about `BatteryGuard`, `ControlLock`, `RtkSource`, `Headings`, `WsGateway`, `PathClearance`, `PowerLog`, `FrameParser`, `NavProfile` | |
| `MCCmdGate`, `MCNavGoals`, `MCCommandChain`, `MCRouteMission`, `MCRouteWalk` | symmetry sets and inputs for TLC | |
| `MCNodes` | the nodes that share no state, side by side in one run | |
| `MCSilence` | the two ends of `/cmd_vel_final`, side by side in one run | |

### DriveAuthority, CmdGate

`DriveAuthority` is what the rest of the system may rely on: who is in charge
(`mode`), which AUTO motions the zones bar (`barred`), the motion that is decided
and not yet published (`late`) and the motion of the last message (`word`). Only
what was decided is published, once; a stop is possible at any time; what is
decided is not taken back when the authority changes, but the zones never bar a
motion that is decided; and once the manual watchdog has taken its stop for sent
nothing moves before the operator's next command. `CmdGate` implements it with

| `DriveAuthority` | `CmdGate` |
| --- | --- |
| `mode` | `manual` and the watchdog's mark, else whether AUTO may drive (`Mode`) |
| `barred` | the flags of collision monitor and backup (`Barred`) |
| `late` | the copied velocity of the callback between lock and publication (`Late`) |
| `word` | source and sign of the last message (`Word`) |

A step of `CmdGate` is one section under `_lock` or one publication. `sub` is the callback
of the node's default MutuallyExclusive group that is running (safe velocity,
collision monitor, teleop, watchdog timer), `svc` the service handler of the
second group; brake holds (`hpc`, `hcancel`, `reg`) and brake sequences
(`seqLeft`) are threads. `_on_cmd_vel_safe` is split where the code releases
the lock: `SafeRead` copies the flags and decides, `SafePublish` publishes.
A message is reduced to its source and the sign of its speed: the arbitration
and its properties look at nothing else. Events, telemetry and failure texts
are left out.

What the goal life cycle does to `navigating` and `goal` is left open
(`GoalAccepted`, `GoalResumed`, `GoalDropped`, `GoalFailed`, `GoalNotSent`), so
that the results hold for whatever goals do; these actions allow more than
`NavGoals` does. `staleAuto` and `takenBy` are history variables: AUTO messages
published since manual mode was taken, and by whom it was taken.

### NavGoals

Actors are the service handler `Svc`, the teleop callback `Tel`, the recovery
thread `Bk`, and every goal, which stands for its own result callback. A step
is a section under the lock, a request to Nav2 or one of its answers. `pc[a]`
says where an actor is, `at[a]` which goal it waits for. `st` is Nav2's side:
a goal may be answered late, be rejected, succeed, abort, or be cancelled once
that was asked for. `told` and `cancelAck` say that the answer has reached its
future, which needs one of the two workers (`FreeWorker`): a handler that
waits keeps its own. `TimeOuts` names the waits that may time out; without a
name a timeout does not happen, which makes the counterexamples independent of
timeouts. `follow_waypoints` and `navigate_through_poses` are one action: they
differ in names only. Of the stored poses the model keeps whether there are any
(`poses`) and whether the loop has more than one (`loopCfg`).

### UartLink, CommandChain, CommandPath

`Receive` is the whole callback of `/cmd_vel_final` with its speed limits,
deadband and least effective speed. `Tick` chooses the effective command,
`Apply` performs one of the five setters; `TxSnapshot`, `TxWrite` and `TxFails`
are the transmit thread; `Stop` and its successors are `CommsClient.stop()`,
which may begin at any point because Ctrl-C reaches the main thread between
two setters. Speeds are integers (the wire carries cm/s), of the steering only
whether it is centred is kept, and the sign travels in a flag as in
`encode_pi_frame`. `sent` and `tx.holds` are history: whether the frame was
taken before, during or after the setters of the command in force.

`CommandChain` puts the three parts of the command path together. The gate is
`DriveAuthority`: a publication is one of its motions or stops with a message of
that word (`Publication`), any other step decides (`Decision`). The topic is a
queue that drops its oldest message when it is full (`Keep`; KEEP_LAST at both
ends taken as one). `Hear` gives the oldest message to the callback of
`UartLink`, `LinkStep` is everything else `controller_server` does. A message is
its speed, steering and brake with the word it stands for: a stop has speed 0,
an AUTO motion goes the way its word says, the operator's may be anything.

`CommandPath` takes `CmdGate` itself: `GateStep` is a step of `CmdGate`, and the
ten sections that publish (`Publications`) leave a message of their word in the
topic. The product of the two state spaces is too large for TLC; that it is a
`CommandChain` is proved, so what holds of the chain holds of the nodes.

### FrameParser, BatteryGuard

`FrameParser` keeps the bytes: headers may occur inside a frame, checksums may
match by accident, a read may end anywhere. Its reference is a definition over
the whole stream.

`BatteryGuard` counts ages instead of instants, so that time may pass for ever
in a finite model. `Update` is one telemetry tick with the newest frame, which
may have been seen before; `span` is history: the time covered by frames in a
row in one band.

### RouteMission, BlockedRetry, RoutePlan, RouteWalk, NavProfile

`RouteMission` has a process per worker and per daemon thread. `m` holds the
fields under `_lock`; `job[p].todo` is what is left of p's handler, calls and
the sections between them. `nav` is `nav_command_server`, which serves a call
at some moment (`Serve`); the answer reaches the caller through a free worker
(`Return`), or the caller stops waiting (`TimeOut`, always possible when no
worker is left to take the answer). Results are read from `tel`, messages that
may be old, repeated, or about a goal that was replaced. The wait of a
`set_goal_ll` call is longer than the blocked wait, so a retry may meet a call
that is still out; times are otherwise left open. `BlockedRetry` is the
abstract side of the blocked wait; `RetriesAsPromised` says every step of
`RouteMission` is one of its steps or leaves it alone.

`RoutePlan` holds the functions that choose waypoints (joining the route,
filling its legs, cutting chunks, skipping, starting again after a blockage) on
integer places with axis-parallel legs, where the code's distances are exact. As in the
code a request is a list of points and, beside it, a list that says which of them
have actions; what is prepared lists the input indices beside both. Each list is
split (HOME is taken out, `Split`), turned or cut (`Turned`, `Cut`) and mapped
back (`MapInputs`) by itself, and there may be no indices at all: when the
position is not known, and for a loop that needs no turning (`Prepare`). What
is driven counts the key waypoints in the list it was filled up to, and gives the
k-th one the k-th index (`ExpandedInputs`).
`RouteWalk` lets a robot drive the result, with blockages, actions and a low
battery, on the missions listed in `MCNodes`: routes (`SetRoute`), and loops of
patrols (`StartPatrolLoop`) that are turned before they are prepared when the
robot is near HOME. `RouteIsMission` puts the lists together again.

A retry of `RouteMission` looks at the mission before it waits for the costmaps to
be cleared (`Look`, with the start of the chunk that is in force then), and sends
the chunk from that start into whatever route is there afterwards (`Retry`).

`NavProfile` is `_apply_navigation_profile` alone, for two callers that nothing
keeps apart. After harm (a request lost, refused in part, a failed step back, or
two callers at once) nothing is claimed any more, and no new call begins: that is
a bound, for the state after it has no consequence for the property.

### ZonesStore, DatumSetter, PathClearance, RtkSource

`ZonesStore` takes `_apply_geojson` step by step; `calls` are requests that were
given up and are served later; a crash may come between any two steps and while
the file is written. A document is the set of its enabled polygons. `Convert`
leaves out those `fromLL` fails for, unless it fails for all, and `WriteMask` those
beside the grid (`Outside`); both are warnings in the code, and the answer is ok all
the same. So `OkMeansApplied` says exactly which zones an ok vouches for, and that
it still does after later crashes, until something else is asked. A start runs in
`__init__`, where the node is not spun yet and no service answers it: it converts
no polygon, and takes a torn file for an empty one.

`DatumSetter` has the sensor callback and the operator's service as setters, one
lock, two workers, and `robot_localization` as a queue. It is assumed to serve
requests in the order they were sent, also those sent under the fallback name.

`PathClearance` takes paths as samples of cells, in the costmap's frame, and
tells paths apart by identity, as the code does by its signature.

`RtkSource` splits a change of the source into the three steps the code takes
(generation, closing the socket, waking the worker) and lets the worker be
anywhere in between.

### ControlLock, RouteView, WsOperations, WsGateway

`ControlLock` splits the watchdog where it releases `_lock`. `RouteView` lets
answers to the poll and to handlers be stored in any order. `WsOperations`
lists, for every operation of a page, the services it asks in order and which
of them must answer; `WsGateway` runs them: tasks on the event loop, work in a
pool of threads, services that are missing, late, or serve a request after it
was given up, pages that leave. What a page that left had queued stays in the
queue until a free thread lets it go. A handling that raises ends without an
answer (`Raise`). `GateAssumption` says what the table of
operations is like: a command that must be answered asks its services in one
turn of a thread. TLC evaluates it on the whole table.

### CourseHeading, CompassGate, PowerLog

`CourseHeading` puts places on a line; odometry, steering and RTK are inputs
the timer finds. The fixes are a set of places with their ages: two of the same
place and age are one, and the code looks for the newest only. `CompassGate` takes
freshness and the yaw as inputs. Ages stop where they no longer matter.

`PowerLog` separates what was written from what was synced. Synced data, with
its directory entry, survives a cut. The window of the judgement is longer than
a behaviour. The files are read in order, up to the first that ends in half a
line. Only the stream of voltage samples is modelled.

### Launch modules

An argument is a string with the spellings the files compare with (`True`,
`true`, `1`): `On` and `IsTrue` differ as `IfCondition` and `.lower() == 'true'`
do. A file has its declared defaults (`...Args`) and its entities in order
(`...Body`): start programs, include, include in a scope, delay, raise.
`LaunchPlan` is the launch system over them, with one configuration that leaks
from file to file as in ROS 2 Launch. A program is its name and the topics and
services it cannot work without (`needs`) and offers (`gives`); what only
observes needs nothing. Only arguments that decide a program or a wire are kept.

### MCNodes

These nodes share no variable, so each is checked by itself: `node` says whose
behaviour a behaviour is, and the others stand still in one state. `MCSilence`
does the same for `CmdGate` and `UartLink` (`leg`).

## Runs

| Run | Module | Shows | States |
| --- | --- | --- | --- |
| `cmdgate_safety` | `MCCmdGate` | one stale AUTO at most, none after teleop, honest watchdog, lone brake hold | 2.9 M |
| `chain` | `MCCommandChain` | from the decision to the wire: the vehicle does what was said last, torn commands and lost frames included; stops are heard, shutdown ends safe | 3.0 M |
| `silence` | `MCSilence` | `CmdGate` keeps the promise of `DriveAuthority`, zones included; a silent operator in manual mode ends in a standstill, a silent topic in a safe frame | 0.5 M |
| `navgoals_live` | `MCNavGoals` | the held goal will report back, requests are answered, ended goals are dropped | 0.2 M |
| `navgoals_backup` | `MCNavGoals` | the recovery mode is not left behind | 2.7 M |
| `route_safety` | `MCRouteMission` | results are taken once, retries as `BlockedRetry` promises, a low battery leaves no mission that cannot go HOME | 1.4 M |
| `route_live` | `MCRouteMission` | callbacks end, a blockage ends | 0.16 M |
| `nodes` | `MCNodes` | the properties of the smaller nodes, see below | 98 k |
| `route_collision` | `MCRouteMission` | *violated*: a lasting collision stop waits for a retry | – |
| `route_home` | `MCRouteMission` | *violated*: a blocked return is retried towards HOME | – |
| `route_lowbattery` | `MCRouteMission` | *violated*: a line does not go on with a low battery | – |
| `route_exit` | `MCRouteWalk` | *violated*: a low battery brings the robot HOME | – |

In the run `nodes`:

| Node | Module | Properties | States |
| --- | --- | --- | --- |
| battery | `BatteryGuard` | `GuardIsEarned` | 0.9 k |
| walk | `RouteWalk` | `RouteIsMission`, `LoopActionsInTurn`, `LoopActionsRepeat`, `LoopRetryStaysInChunk`, `LineEnds` | 15.4 k |
| rtk | `RtkSource` | `StatusIsOfActive`, `FollowsActive` | 13.7 k |
| zones | `ZonesStore` | `OkMeansApplied` | 16.8 k |
| lock | `ControlLock` | `SilenceLocks` | 28 |
| parser | `FrameParser` | `FramesOfStream` | 3.3 k |
| profile | `NavProfile` | `ProfileIsWhole` | 2.7 k |
| datum | `DatumSetter` | `DatumAgrees` | 2.5 k |
| clearance | `PathClearance` | `AnswerIsCurrent` | 0.4 k |
| page | `RouteView` | `ViewCatchesUp` | 0.4 k |
| gateway | `WsGateway` | `AnswersAreTrue`, `RequestsEnd` | 17.8 k |
| power | `PowerLog` | `PostmortemIsSound` | 12.8 k |
| course, compass | `CourseHeading`, `CompassGate` | `HeadingsRestOnEvidence` | 4.1 k, 0.3 k |
| launch | `LaunchPlan` | `OneOfEach`, `NeedsAreMet` | 7.2 k |

`PROJECT.json` names for every property of a passing run a variant of one
definition (kept in the module next to the original and commented "Variant")
under which the property fails.

Bounds, and why they are enough:

- *CmdGate*: two hold threads (a hold, its successor and, since threads are
  reused when they have ended, any longer chain), one sequence thread (its
  messages are all the same stop), `BrakeCount` 2 (a first and a last stop);
  the theorems remove these bounds. The run `silence` has one hold, one stop and
  no sequence thread, which could only publish more stops, and it has the critical
  slow zone, which `cmdgate_safety` does without. Both have the backup manoeuvre.
- *NavGoals*: two goals (the one held, the one replacing it, or the first
  resumed as the second by the recovery thread). With two goals only one handler
  at a time waits for Nav2, so that two waiting handlers (no worker left to take
  the answers, only the time limits end it) do not occur in the liveness run;
  for safety `CurrentGoalSafety` and `BackupModeSafety` cover any number of
  goals. Two workers as in `main`. When no
  goal is left to send, `Send` can still fail, so the model does not stop.
- *CommandChain*: an AUTO motion ahead that is raised to the least effective
  speed, an operator who reverses, a braking stop; a topic of depth 1, where a
  message that was not heard is lost to the next (the code has 10; the theorems
  hold for any depth and any messages). `EstopBrake` is 120 because the
  parameter is not validated and the setter must clamp it. In `silence` the link
  gets one driving message again and again.
- *RouteMission*: two chunks, the first with an action and the exit of a loop,
  so that a return may start at the chunk that ended or must wait for the next;
  one retry thread, one attempt (a retry that works and one that is used up),
  two results, one telemetry message on its way (a result and its repetition).
  `MaxEvents` counts what comes from outside (services, battery, collision
  stops, manual mode): three for patrols, whose phases need them, two for lines
  and loops with fairness. `TimeOuts` is empty: a call times out only when no
  worker is left for its answer, which is when it matters for the callbacks.
- *RouteWalk*: a loop with short and long legs and HOME in the middle of its
  list, a narrow loop that repeats its first place, to and fro, a line that comes
  back beside itself with HOME first (and with two HOMEs, which is refused), the
  loop of a patrol; the robot starts on, beside and off the route, with its
  position known or not yet; two blockages per mission.
- *small nodes*: two sources, spots, profiles or callers each; for the zones a
  document of two polygons, one of them beside the grid, the empty one, and three
  crashes or requests, so that a document is set, replaced and a crash comes between
  or after; three edits for RTK (add, select, change);
  two headers, frames of three bytes and streams of seven for the parser (a
  frame, a false start and a frame that overlaps it); three samples over two
  runs for the power log; ages up to one past each limit.
- *WsGateway*: one page, one thread, two connections or messages. `Uses` has a
  command that is always let through (`brake`), one that asks twice and is
  refused under the lock (`set_route_ll`), and `unlock`, besides the operations
  of a connection. Pages may have been heard for long when a behaviour begins.
- *Launch*: eight stacks, up to two arguments of those in `MCNodes` given at
  once, since the conditions in the files combine two arguments. A larger set
  (29 choices in pairs, the six v2 stacks) showed no other gap.

The runs with `CHECK_DEADLOCK FALSE` contain nodes that may stop: a closed
link, a mission that has ended, a launch that is up, bounded requests.

Fairness, and what justifies it:

- *CmdGate*: a callback or thread that has begun runs on (weak fairness); the
  watchdog timer is served whenever its group is free again and again (strong
  fairness, rclpy looks at timers first in every pass). Nothing is assumed of
  messages or requests.
- *NavGoals*: handlers run on; Nav2 answers a request (the goal response); a
  worker that is free again and again takes some waiting callback. Nav2 need
  not end a goal: `EndedGoalIsDropped` begins when it has.
- *UartLink*: weak fairness of the control timer with its setters and of taking
  a frame, strong fairness of a write that succeeds: the timer and the transmit
  thread go on, and a port that is tried again and again sometimes takes a
  frame. Nothing is assumed of messages and of the shutdown.
- *RouteMission*: handlers and threads run on, every call is served, answered or
  given up, the retry timer gets a worker that is free again and again. Nothing
  is assumed of telemetry, battery or operators.
- *RouteWalk*: Nav2 drives on, actions and retries take place.
- *RtkSource*: every wait of the worker has a time-out, callbacks that have
  begun end. Nothing is assumed of connections.
- *RouteView*: timer and threads go on, and `route_executor` answers the poll in
  time again and again.
- *WsGateway*: the event loop and the threads go on as a whole (one weak
  fairness over all their steps); nothing is assumed of the nodes.

## Proofs

`CmdGate_proofs` proves, for every number of hold and sequence threads, every
brake count and every setting of the three parameters, type correctness, the
safety invariants of `cmdgate_safety` and that the node implements
`DriveAuthority`. They are not inductive. The strengthening `IInv` adds:

- `AutoRespectsZones`: no AUTO message about to be published goes where the zones
  forbid it (theorem `ZoneSafety`; the runs check it as part of the promise);
- `CopiedStopIsCurrent`: the stop flag that was copied for the backup decision
  is still the current one, because the collision monitor callback shares the
  callback group;
- `HistoryInv`: once one stale AUTO was published no other one is in flight,
  and a takeover by teleop finds none in flight;
- `WatchdogInv`: between the watchdog's stop and its mark the last message is a
  standstill, and with the mark set in manual mode neither an AUTO nor a teleop
  message is about to be published.

Each part has its own step lemma over the groups of `Next`. The only assumption
is `GateAssumption` (the null value is not a thread, the count is positive, the
switches are Boolean).

The refinement (`DrivesSafety`) has two halves. Every publication is a `Move` of
what was decided or a `Halt` (`PublicationStep`). Every other section decides or
changes nothing `DriveAuthority` speaks of (`QuietStep`): the zones are set by
callbacks of the group that also publishes, so nothing is in flight then, and a
backup that ends only lifts a bar; the watchdog's mark follows its stop with
nothing moving in between (`WatchdogInv`). The same two halves show that
`CommandPath` is a `CommandChain` (`PathRefinesChain`), for any messages and
depth of the topic; with `LastWord` below this gives `PathLastWord`: from flags,
callbacks and threads of `nav_command_server` to the frame on the wire. Its
hypotheses are the assumptions of `UartLink` and `CommandChain`, which the run
`chain` evaluates.

`UartLink_proofs` proves type correctness (the shared state and the frames stay
within the speed and brake limits), `TornStateNeverMoves`, `StopIsHeard`,
`WholeTickIsSent` and `StopEndsSafe` for all speed limits, deadbands, brakes and
messages, from `LinkAssumption`. `TornStateNeverMoves` is the invariant behind
`StopIsHeard`, which the run checks. The invariant says, setter by setter, which
fields of the shared state already hold the target's values (`SettersInv`), that
an emergency stop being applied is complete (`TargetInv`), that every frame
taken keeps what was true when it was taken (`FramesInv`), and that the transmit
thread has ended while the safe frames are sent (`StopInv`).

Of `CommandChain` it proves, for any messages, depth and AUTO motions, that its
`controller_server` is a `UartLink` (`ChainHasLink`), so that all of the above
holds in the chain, and `LastWordHolds` (`LastWord`). For the latter `ChainInv`
adds: the newest message in the topic says the last word (`QueueInv`); with an
empty topic the command of the node is one that such a message gives
(`HeardInv`); after the watchdog's mark the last word is a stop (`CalmInv`); and
a frame that moves the vehicle goes the way of the command it contains, also
when it was taken between the setters (`DirectionInv`).

`NavGoals_proofs` is about any number of goals and workers, and any waits that
may time out. A goal that a handler waits for was sent by that handler alone, its
result callback is not registered yet, and only a goal whose callback is
registered is ever cancelled (`SendInv`, theorem `AnswersHaveOneOwner`). So the
goal that becomes current when Nav2 accepts it is one nobody has thrown away,
which `HandleWillEnd` needs to be inductive. `CurrentGoalSafety` has the
hypothesis `BackupEnabled = FALSE`, a parameter of the node: with the backup
manoeuvre the node ignores the next result, whichever goal it is of (see
*Disagreements*), and TLC finds `HandleWillEnd` violated. `BackupModeSafety`
needs no hypothesis: while the mode is "collision_backup" the recovery thread is
before a step that leaves it, on the failing paths too.

`RouteMission_proofs` is about any number of workers, threads, chunks, attempts,
events and results. Each handler is cut into sections, functions of the node's
fields; `Section` says once what any of them may do, and a lemma shows it of each
function. A step is then a section and a change of what some processes have left
to do, and of one of four sorts: handlers, a low battery, telemetry, the node that
is asked. The invariant is `IInv`:

- `NodeInv`: the fields and what each process has left to do keep their types,
  an answer is for a call, a blocked wait has an attempt left;
- `TelInv`, `OrderInv`: results are numbered as they come and read in that order,
  so the newest one acted on is never newer than the newest one read;
- `LowInv`: a mission that runs on a low battery returns or is marked as
  returning, or a process has the stop still to do.

From it follow `ResultsOnce`; that every step is one of `BlockedRetry` or leaves
its variables alone (`RetriesRefined`, the refinement); and `LowInv` itself
(`LowBatteryIsAnswered`). `LowBatteryStops` is more than `LowInv`: the mark of a
return must be true. It is not when a loop is replaced by a line while the call
that sends the robot HOME is out, which the run `route_lowbattery` shows. The
hypothesis of `LowBatterySafety` leaves that out: operators ask for patrols only,
or for no mission that returns; the run `route_safety` has patrols only. Under it
the marks are true (`HonestInv`): a wish to return or a return under way belongs
to a patrol's main part or its way HOME.

`Nodes_proofs` collects the smaller nodes:

- `BatteryGuard`: type correctness and `GuardIsEarned` for all persistence times
  and gaps; the counter is never ahead of the time the frames in a row cover by
  more than one gap.
- `ControlLock`: `SilenceLocks` for any time-out and any period of the watchdog.
  The property says nothing of the age the node keeps, so the invariant relates
  the three clocks: up to the time-out the age of the heartbeat is the silence of
  the page; beyond it the silence is at most the time-out and the age of the
  watchdog; and once the watchdog has read an old heartbeat time stands still
  until it has closed the lock.
- `RtkSource`: `StatusIsOfActive` for any sources and edits. The worker may hold a
  source that is gone, but then its generation is old: while it is at work with
  the generation in force, what it took is the active source as configured
  (`ReaderInv`), because every change of that counts the generation up.
- `Headings`: `HeadingsRestOnEvidence` for any road, window and times. An
  estimate that may still be held rests on a fix that was recent when it was made
  and has aged with it since (`HoldInv`); the compass gate's count of standing
  still never exceeds the time since the last telemetry that did not say so
  (`StillInv`).
- `WsGateway`: `AnswersAreTrue` for any pages and threads, and for every table of
  operations that keeps `GateAssumption`. Each request is judged alone, by what
  the nodes did for it and may still do: a command before its turn has asked
  nothing, and as long as nothing failed its first answer was the node's
  (`AnswerInv`); it is never queued again, so what is dropped has asked nothing
  (`TurnInv`).
- `PathClearance`: `AnswerIsCurrent` for any paths, costmaps and parameters. The
  cache is dropped with every costmap and every change of the parameters, so what
  it holds is what the check would say now. That the check's counter finds exactly
  the runs of the definition is shown for every length: the counter is at least
  `run` where the last `run` samples are high. In place of induction over the
  path, the least sample where that fails is refuted (`LeastNat`).
- `PowerLog`: `PostmortemIsSound` for any number of samples, files, stops, kills
  and restarts. The last run has come to some file; those before it are synced
  and whole, those behind it hold samples of older runs only (`FilesInv`). So the
  half line where the reading stops never hides a synced sample of the last run.
  Wherever the cut comes, what is left of the journal ends cleanly only if no
  sample was taken after the stop (`JournalInv`).
- `FrameParser`: `FramesOfStream` for any frame size, bytes and headers and any
  cut into reads. The frames returned so far are those of the stream up to the
  place where the buffer starts, whatever follows (`ParserInv`); the buffer is
  shorter than a frame. The parser's loop over the places of the buffer and the
  definition over those of the stream are recursive functions; what they compute
  is shown from the last place backwards (`FromTheEnd`).
- `NavProfile`: `ProfileIsWhole` for any callers and profiles, of which the urban
  one is one. The step a caller is at says which parts have its target already
  (`PartsInv`), on the way there and on the way back; this holds as long as
  nothing was harmed, when one caller is on its way (`AloneInv`) and no request
  is left that may be served late.

`RouteWalk_proofs` is about any missions, places the robot starts from and
tolerances; the legs of a loop, with the one that closes it, are parallel to an
axis (`MissionsAssumption`), as the distances of `RoutePlan` want it. Half of it
says what the route is made of (`RouteInv`): whatever the split, the join, the turn
and the filling do to the three lists, every key waypoint has the place and the
actions of the waypoint its index stands for, none is lost that should not be, they
keep their order, and the exit waypoint chosen by its index is on the route; since
the quotients that place the synthetic points move by no more
than the spacing from one to the next (`DivMoves`), no leg is too long. From it
follows `RouteIsMission`. The other half is about the chunks of a loop: one on its way ends
at the next key waypoint (`ChunkOk`), and from the waypoint whose action ran
last to its start there is no other action, and to its end no more than one time
round (`NotBeyond`). Skipping stops at actions, the next chunk starts
right after the last, and a retry starts inside its chunk, so each sending keeps
this, and `LoopActionsInTurn` and `LoopRetryStaysInChunk` follow. What
`FlattenSeq` and `FirstFrom` compute is shown by least counterexamples
(`FlattenedIs`, `FirstFromIs`) in place of induction.

`DatumSetter_proofs` proves `DatumAgrees` for any setters, places, tries, workers
and length of the queue. Only the holder of the lock has a request somebody
waits for, and it is the last in the queue (`WaitInv`); when it has been served
the queue is empty (`ServedInv`), so no request that was given up can be served
after a setting that succeeded.

`ZonesStore_proofs` proves `OkMeansApplied` for any documents and any number of
requests and crashes. What is left of a service says what it has done: the mask
is drawn from its document (`DrawnInv`), the map server and the costmap have it
when their calls were answered (`LoadedInv`), the file has it (`FileInv`). A call
left over from an earlier service may still be in the queue; the one that is
waited for is the last (`CallInv`), and a late one repeats what is there. A start
draws nothing of a file that has zones, and writes a file only where there was none
(`StartInv`); so an ok stays true through crashes until another request is taken up
(`OkInv`).

What the proofs assume is the named assumptions of the modules, which TLC
evaluates in the runs, and the hypotheses written in the theorems; the bounds of
TLC (`MaxTrouble`, `MaxQueue`, `MaxEvents`, `MaxResults`, `Tries`) are parameters
of the proofs.

The type invariants are proved and not repeated in runs. Only model-checked:

- liveness under fairness (`ManualSilenceStops`, `ServiceAnswers`,
  `EndedGoalIsDropped`, `SilenceCoasts`, `HandlerEnds`, `BlockageEnds`,
  `LoopActionsRepeat`, `LineEnds`, `FollowsActive`, `ViewCatchesUp`, `RequestsEnd`), which is
  out of the prover's reach;
- `OneOfEach` and `NeedsAreMet`: statements about the launch files as they are,
  with no parameter to generalise over; TLC goes through them all.

## Disagreements

With a run, each the shortest counterexample of one property:

1. `route_collision`: a test asserts that a lasting collision stop waits and
   retries. `_enter_blocked_waiting` brakes and cancels before it marks the
   mission, and the CANCELED result may be taken in between: the mission ends.
2. `route_home`: a blocked return to HOME is retried with the chunk of the loop,
   and its success is reported as "Return home completed".
3. `route_lowbattery`: a test says a low battery ends a mission that is no loop.
   When a line replaces a loop while the call that sends the robot HOME is out,
   the answer marks the line as a return, and the low battery leaves it alone.
4. `route_exit`: in a loop whose legs are no longer than `leg_spacing_m` chunks
   end at every other waypoint. When the exit waypoint is one of the others and
   the number of waypoints is even, a robot with a low battery drives on for
   ever while its status says it waits for the exit.

Without a run. What follows was met while reading or modelling; names in
parentheses are definitions of the modules that state what does not hold.

*nav_command_server*

- A test says AUTO is ignored under manual mode (`NoAutoWhileManual`); one
  message decided before can follow the manual stop. `TakeoverSafety` bounds it.
- `docs/EVENTS.md:40` says manual mode cancels the goal (`ManualCancelsGoals`);
  between two loop segments it does not, and the next segment runs on in Nav2
  (its velocities are dropped while manual mode lasts).
- The local checklist says a cancelled goal leaves the robot stopped
  (`CancelSticks`); during a loop restart the cancel is undone.
- A log line says the ignored result is that of the goal cancelled for recovery
  (`IgnoredWasCancelled`); it is the next result, whichever goal it is of. A
  late CANCELED result of a replaced goal ends the new mission (2108).
- After 5 s without an answer the request is forgotten; Nav2 may still drive it.
  `set_goal` checks manual mode once, before it waits.

*controller_server*

- `README.md:74` says only 30 continuous seconds recommend going home
  (`LatchNeedsLowFrames`); a gap of 30 s and one low frame do as well. With a
  persistence time of 0 the guard latches on any frame. The flags of a frame
  (ready, fresh, suspect) are not looked at.
- `COMUNICACIONES_UART_V2.md` describes an EMA over the battery voltage; the
  estimator applies none.
- A failed UART write is only counted; a port that is gone is never reopened.

*route_executor*

- A superseded action thread goes on (3532); a retry may overwrite WAITING
  (2249); a rejected `set_patrol` resets the mission but leaves its goal (4375);
  a `set_goal_ll` in flight is accepted after `cancel_route`, or after its
  time-out, and drives on without a mission.
- A mission that is no loop may start past its chunk after a blockage and skip
  action waypoints (1185). A retry is sent while the mission is paused.
- Patrol state survives `set_route`; a HOME goal in flight when `set_patrol`
  replaces the mission marks the new one as returning.
- A HOME inside the route shifts the input indices behind it (644). The loop of a
  patrol resumed after HOME that needs no more turning has lost its numbers (382):
  they count from where it was resumed (`StandsFor` has the exception).
- A retry reads where its chunk starts (2211), waits for the costmaps (2250) and
  starts there in whatever route has been set meanwhile.
- *Profile*: time-outs are not undone, nor the part that was taken of a refused
  request; asking for the current profile answers ok though values are mixed or
  another caller is on the way.

*zones_manager*

- Ok is answered although polygons were left out: those `fromLL` failed for (667)
  and those beside the grid (686) are only warned of. `OkMeansApplied` claims the
  others.
- A request that fails or crashes while the document is written leaves a torn
  file, and with it the zones answered ok before are lost: the next start takes the
  file for empty and draws an empty mask.
- The document in the file is never loaded at a start: `__init__` asks `fromLL`
  before the node is spun, nothing answers, and a document with zones fails to
  convert. The node then shows an empty document, not ready, while the mask files
  are still those of the last request.
- A failure to save after the map was loaded leaves the new mask in force and the
  old document shown.

*web_zone_server*

- The control lock can be started open, and without a first heartbeat it never
  times out. Tasks of lock, unlock and heartbeat may run out of order; a command
  let through before the lock may be forwarded after it.
- A page that leaves cancels what waits for a thread, a brake too. Manual
  commands run as tasks of their own and may be published out of order, also
  after manual mode was left (the manual watchdog ends it).
- A request given up may be served after a later one; a slow client delays a
  broadcast so that another one gets older data after newer.
- Two rosbag starts at once lose a recorder (1705), and the second section of
  `stop_rosbag` may forget one just started. The datums file is read, changed
  and written by several threads; its reader may find it truncated, take it for
  empty, and the next save erases all. Pending sessions (2293) may be dropped
  or sent twice; after a restart an old status file may report a running session.

*localization, RTK, path clearance*

- `datum_setter`: when service and sensor callback both wait no worker takes the
  answer, so a datum that was applied is reported as timed out. A failed
  automatic setting is not repeated before the next edge of RTK.
- `compass_heading_gate`: after a turn of more than 45° the compass is refused
  for good, since the yaw it is compared with is not refreshed; stillness is not
  forgotten when the drive telemetry stops. `gps_course_heading`: the baseline
  may lie before a turn; odometry and drive values have no age.
- `path_clearance_validator` says valid when transforms fail or the map is
  stale; cells outside of the costmap cost nothing; a cached answer outlives a
  map that has become stale by up to the validation period.
- `rtk_bridge` keeps half a frame over a reconnect and checks no CRC.
- `goal_pose_to_follow_path_v2`: a swallowed CANCELED result followed by a
  rejected goal leaves no stop hold; the ABORTED result of a preempted goal
  drops the handle of the new one.

*observability and tools*

- `nav_trace_recorder`: a late answer about the old mission is recorded in the
  new session; its inflight mark stays if the service dies (688).
- Power log: after a restart within a boot samples are out of order in the files
  and the judgement may look at the older run; a torn file hides those behind
  it; events behind a torn tail are never read; "previous session unclean" is
  also written after a clean stop.

*launch files* (exceptions of `OneOfEach` and `NeedsAreMet`)

- `docs/launch-matrix.md:49` says `enable_lidar_obstacle_filter:=True` enables
  the experimental route; alone it raises, since the ground filter is on by
  default and the two exclude each other (`real_global_v2`, its Wi-Fi variant,
  `sim_global_v2_wifi`).
- In `sim_global_v2` that argument leaks into `sim_v2_base` and starts a second
  filter on the same topic, and the noise filter may be told to write its input.
- `enable_gps_course_heading:=1` starts the course heading but does not bring
  RTK with it, because the file compares with "true".
- The local and the older stacks have behaviour trees that ask
  `path_clearance_validator`, which they do not start; local stacks have no
  `fromLL`, `real_local_v2` neither `/gps/fix` nor the servers of zones and
  snapshots its web server asks; `real` and `simulacion` no battery source,
  and `real` watches ultrasound topics of the simulation.
- `enable_compass_heading_fusion` alone lets the EKF wait for a topic nobody
  publishes; `sim_global_v2` with the compass but without `enable_sim_compass`
  has no compass. Without keepout (the default on the robot) `zones_manager` has no
  map server; `use_keepout:=true` starts it but the costmaps do not use it.
- With the ground filter off the profile of `route_executor` cannot be set.
- Parameters that no wire depends on, met on the way: `use_sim_time:=true` in
  `sim_v2_base` means wall clock; `datum_setter` and `web_server` read fixed
  names where the stack passes others.

## Not modelled, and the plan

Left out within the modelled components:

- of `route_executor` the connectors of a patrol, and a return that leaves the loop
  where its connector begins; a low battery in a mission without HOME; the waits of
  the handlers that restore the urban profile (`_restore_urban_navigation_profile`):
  `NavProfile` has them as a caller, `RouteMission` has not;
- of `zones_manager` the setting that leaves the costmap alone after a reload, mask
  files written by half, cells and the margin round a polygon;
- waypoint geometry of `nav_command_server`, conversion of coordinates, events,
  telemetry and failure hints; steering geometry and frame bytes on the way to
  the ESP32; the state of charge curve; yaws, headings and paths of a route;
  GeoJSON parsing and the drawing of masks;
- of `web_zone_server` what its methods keep of the answers, the files of
  waypoints and datums, the rosbag recorder and the periodic broadcasts;
- of the power tools the context stream, the poller of `tegrastats` and the
  event of an exception.

Left out as a whole, with the reason:

- scan and lidar filters, odometry, covariance and stationary filters: floating
  point on one message at a time, no protocol state, not suited to TLC;
- observability: aggregates what others publish and moves nothing;
- camera, Pixhawk, web sensors, `vision_pipeline`: device I/O;
- simulation, benchmark and host tools beside the power log: they run beside the
  system; the Gazebo backend and the serial port resolver likewise;
- `goal_pose_to_follow_path_v2`: a development tool no stack starts;
- the vendored lidar driver and the interface definitions.

The plan has left `rtk_bridge` and the file of datums, which are small protocols
of their own.
