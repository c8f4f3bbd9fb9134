# ADORA-NANO Navigation: a TLA+ development

The repository drives a small three-wheeled robot through a dataflow of separate
processes (dora nodes). No node sees another's state; they exchange JSON messages and
timer ticks, and each handles one event at a time. What can go wrong lies between the
handlers: the order in which messages arrive, what a node still remembers when they do,
how old that is, which of several steps failed, and whether reader and writer of a message
or a file mean the same by it.

This directory holds TLA+ modules translated from the source, TLC configurations that
check them on small instances, and theorems checked by TLAPS for every instance.
`tlc -config X.cfg MCModule` runs one configuration, `tlapm XProofs.tla` checks the
proofs of one module. `PROJECT.json` maps each definition to the lines it models and lists
runs, hazards, findings and theorems. Paths below are relative to `src/`.

## 1. The system

    MS200 lidar -> LaserScan                     wheels -> Odometry
        -> Karto: CorrectedPose, SafetyStop      (mapping: pose graph, map files)
        -> pose_goal: start_point, goal_point, goal_pose
        -> global planner: path
        -> RPP local controller: CmdVelTwist, LocalPlannerStatus
        -> velocity smoother: CmdVelTwist
        -> navigation supervisor: SafeCmdVelTwist, ReplanRequest
        -> chassis: wheels, Odometry
    mapping by keyboard: teleop process -> FIFO -> keyboard node -> chassis

README.md:27-34. The supervisor alone is wired to the chassis in the navigation flows, so
what it forwards decides whether the robot moves; it was modelled first and is proved
about most. Two feedback loops close over the chain: the motion comes back as odometry and
poses, and a blocked mission comes back to `pose_goal` as a `ReplanRequest`. Between flows
the components meet on disk: a mapping session saves a pose graph and a map, operator
scripts crop, back up and synchronize them, and navigation loads them.

| component (source) | state | operations | hard behaviour | what makes it correct |
|---|---|---|---|---|
| navigation supervisor (`planning/nav_supervisor_dora_node`) | last pose and time, localization fields, last local report, goal, per-goal session (start, latch, blockage timer, replan count and time, progress baseline) | one handler per input, all but two followed by an evaluation | five inputs in any order against four timers; repeated goals; a latch read after the evaluation | forwards only from a safe state; one outcome per goal; bounded replans; a stall or a blockage is not forgotten; every mission ends |
| Karto runtime (`localization/karto_slam_dora_node`) | odometry buffer, waiting scans, seed, last input, anchor of the prediction, losses | odometry, scan, initial pose, save; each ends in a drain | scans ahead of or behind odometry; waits on the host clock with no timer; two-step handlers that fail half way | no scan waits that could be matched or is overdue; the window stays bracketed; no pose before a good match |
| pose graph (same directory) | scans, edges, the solver's share of both, corrections, report | scan accepted, loop closed, restored from an archive | the solver is emptied after a closure; early returns leave results of an earlier call | a closed loop stays closed; no correction is applied twice; the archive tells all of it |
| map and archive files (same directory, `apps/adora_nano_navigation`) | PGM, YAML, metadata, pose graph, auxiliary flows, backups | save, clean, continue, finalize, sync, load | a crash or a power loss between renames; two spellings of one fact | what is loaded belongs together; no keyframe is lost; a cell is the same place for all |
| pose_goal (`planning/pose_goal_dora_node`) | latched goal, last send, replan flag | pose, replan request | lost sends; poses drive everything | one goal for good, asked for again and again |
| global planner node (`planning/adora_nano_global_planner_node`) | start and goal half, pose, scan and time, map, dynamic layer | two halves, pose, scan; plan, reload | halves of different requests; a stale scan; a failed reload | every path leads to the latched goal over current obstacles; requests are answered |
| path search (same directory) | none | A\*, nearest free cell, inflation, smoothing | borders, ties, endpoints in obstacles, corners | a shortest free path, if there is one; smoothing keeps it free |
| RPP local controller (`planning/rpp_local_controller_dora_node`) | path, pose, scan, goal, rotation shim, their times | inputs; decision on each tick | timeouts of each input; a collision check that looks ahead on old data and on a scan without the points in the robot's own box | keeps its distance; stands when blind |
| velocity smoother (`planning/velocity_smoother_dora_node`) | target, current velocity, last command | command, tick | deadband against one step; two callers of one update | within its limits; zero after a timeout; follows what it is told |
| chassis (`chassis/feetech_kiwi_chassis_dora_node/sdk_node`) | speed in each servo, how fast each wheel turns, last command, `command_active`, odometry velocity | command, tick, stop | three writes that can fail separately; wheels read while they still turn; signed speeds in a register of magnitudes | what turns is under the watchdog; odometry tells what the wheels do |
| keyboard control (`control/keyboard_control_dora_node`) | key, FIFO, last line | key, line, tick, stop | a pipe without reader, full, or left behind by a dead process | the robot stands when nobody drives it |
| MS200 driver (`driver/ms200_dora_node`) | bytes, parser, points of a revolution, scan shared by two threads, an event | read, parse, publish, grab; activate, set speed, stop | a data race; lost wake-ups; a stream cut anywhere | each scan whole, fresh, at its place; scans keep coming |
| messages and settings (all nodes, `run_navigation.py`) | none | write, read | no shared schema | every reader means what the writer means |
| operator scripts (`apps`, `scripts`) | processes, files | start, stop, back up, crop | stopped between two steps | leave a usable map; stop the flow in an order that stops the wheels |

## 2. Modules

| module | models | extends / instantiates | run |
|---|---|---|---|
| `MissionGate` | what the supervisor promises about a mission (abstract) | | `supervisor` |
| `NavSupervisor` | the supervisor node | `MissionGate` (refinement) | `supervisor` |
| `KartoRuntime` | the Karto node in localization mode | | `karto` |
| `PlanarPose` | pose arithmetic and the prediction between matches | | `localized_held` |
| `MissionSettings` | what `run_navigation.py` writes into the nodes' environments and what they read there | `PlanarPose` | `localized_held` |
| `NodeMessages` | the messages of the flow by writer and by reader | `MissionSettings` | `localized_held` |
| `KartoSettings` | Karto's defaults, what the flows put over them, what it checks, what the matchers demand | `MissionSettings` | `localized_held` |
| `DriveSettings` | the settings of controller, smoother, supervisor and chassis against each other | `MissionSettings`; `KiwiDrive`, `VelocitySmoother` | `localized_held` |
| `MapPaths` | where scripts, planner and Karto look for the map | `MissionSettings` | `localized_held` |
| `PoseConstraints` | the error of a pose graph edge, and scans of a moving robot | `PlanarPose` | `localized_held` |
| `LocalizedNavigation` | Karto, the initial pose node, the queue and the supervisor, closed over the robot's motion | `KartoRuntime`, `NodeMessages` and the four above; `NavSupervisor` | `localized_*` |
| `PathRequests` | `pose_goal` and the planner node with the queues between them | | `path_requests` |
| `GridMap` | the grid drawn from a survey, its image, the crop, the load, the dynamic layer | | `path_requests` |
| `PathSearch` | nearest free cell, A\*, smoothing | `GridMap` | `path_requests` |
| `ScanMessage` | the LaserScan message by writer and by its three readers | | `path_requests` |
| `PlannedPaths` | requests answered over a saved map | `PathRequests`, `PathSearch`, `ScanMessage` | `path_requests` |
| `LocalController`, `VelocitySmoother` | the two nodes | | `local_control` |
| `LocalControl` | both, and the robot that drives what comes out | the two | `local_control` |
| `Chassis`, `KiwiDrive` | wheels, watchdog, odometry velocity; the kinematics both ways | | `teleop_drive`, `chassis_bus_fault` |
| `Keyboard` | teleop process, FIFO and keyboard node | | `teleop_drive` |
| `TeleopDrive` | driving by keyboard | `Chassis`, `KiwiDrive`; `Keyboard` | `teleop_drive` |
| `SerialPort` | a line's settings and the SDK's Serial object | | `lidar` |
| `LidarDriver` | reads, parser, receive thread, the node's ticks | `SerialPort` | `lidar` |
| `PoseGraph` | mapper graph and Ceres solver | | `mapping`, `loop_closure` |
| `GraphArchive` | what an archive holds and what its readers make of it | `PoseGraph` | `mapping` |
| `LocalizationBuffer` | the mapper while it localizes: scans added to a restored graph and freed again | `PoseGraph` | `mapping` |
| `MapFiles` | the files on disk and the programs that write them | `GraphArchive`, `LocalizationBuffer` | `mapping`, `loop_closure` |

`MC*` modules give the constants their small values; `*Proofs` modules hold the theorems:
`NavSupervisorProofs`, `PathRequestsProofs` (also of `GridMap`, `MapPaths`, `PathSearch`, `ScanMessage` and `PlannedPaths`), `KartoProofs` (of `KartoRuntime` and
`PoseConstraints`), `LocalControlProofs`, `ChassisProofs` (of `TeleopDrive`), `LidarDriverProofs`,
`PoseGraphProofs` (of `GraphArchive` and `LocalizationBuffer`) and `MapFilesProofs`, which
extends `PoseGraphProofs`. An operator whose name ends in `_Word` after a definition's name is that
definition with one plausible bug; nothing uses it, and each is there to show that a
property would notice.

### NavSupervisor and MissionGate

One action per input of the event loop (`nav_supervisor_dora_node.cpp:320-500`): it
stores its message and then runs `Evaluate`, the whole of lines 395-500: the cascade
pose - goal - arrival - deadline - localization (`Sensed`), the blockage timer
(`BlockedSince`, `LocallyBlocked`), the progress check (`Moved`), the latch
(`Latched`), the replan decision (`ReplanDue`) and what is sent (`out`). The inputs
`Pose` and `Odometry` store a pose and are not evaluated (`OnOtherPose`). A message that
does not parse is evaluated with what is stored, which is what `OnTick` does.

A time stamp is an age that stops counting one past the largest value a comparison tells
apart. The replan age stops at its cooldown, because it is compared with `>=`, the others
with `>`. Coordinates are abstracted to the two relations the node computes from them: which
poses are within both tolerances of a goal (`ReachedAt`) and which count as movement from a
baseline (`MovedFrom`). Reports of the local planner stay the literal mode and reason pairs,
since the code compares these words.

`MissionGate` is the promise without sensors or clocks: begin, move, replan, hold,
conclude. `NavSupervisor` implements it under the mapping `outcome <- session.latch`,
`emitted <- ` what `out` let through.

### KartoRuntime

`OnOdometry`, `OnLaserScan`, `OnInitialPose`, `OnSaveMap` are the branches of
`Runtime::Handle`, each with the `Drain` that follows; `OnBadInitialPose` and `OnBadInput` are
the catch, which skips it. A malformed initial pose is an action of its own because the
handler has reset the extrapolator before it parses. Stamps are relative to the newest odometry
sample, so that a run of any length has finitely many states. The matcher's verdict comes
with the scan (external: OpenKarto): `rejected` (the mapper did not process the scan), `low`
(below the response threshold), `good`. The robot moves on a line of integers, and the
travel check and the interpolation are computed on it.

### LocalizedNavigation, NodeMessages, MissionSettings, PlanarPose

`LocalizedNavigation` is the flow `adora_nano_localization_navigation.yml` as far as motion
goes. What Karto sends joins a queue that drops its oldest message when full; the supervisor
takes from it in order. Odometry moves only while the last command sent to the chassis
drives it. Goals are never reached and every pose counts as progress, so that nothing but
localization and the deadline holds the robot: the runs ask what localization alone is good
for. `SafetyStop` is delivered to a supervisor that has no branch for it and does not
evaluate after it.

`NodeMessages` writes each JSON object of the flow as its writer does, key by key, and reads
it as each reader does, with that reader's alternatives and defaults: odometry and scans
with their stamps, corrected poses, goals, twists, local reports, and the lines of the
initial pose's FIFO. `MissionSettings` does the same for the
environment variables between `run_navigation.py` and the nodes, over templates that already
hold some of the keys. `MessagesAreUnderstood` says that they agree, on every pose of the
small grid. Headings are whole quarter turns, so equality is exact; `PlanarPose` also holds
the prediction of the pose extrapolator, which is proved about.

The same property takes in four more agreements of parts that share no definition.
`KartoSettings` has the reference defaults, the flows' environments, `Validate` and the
assertions of the matchers. Validate checks neither the smear deviations nor that the search
grids have a whole, even number of cells; the correlation smear of 0.1 is exactly the limit of
ten resolutions. `DriveSettings` follows one velocity from the controller's settings through
the smoother's limits and deadband, the supervisor's idea of progress and the wheels. `MapPaths`
follows one map from the script that writes it to the node that loads it; Karto's MAP_PREFIX is
made absolute by no script, so that Karto depends on the directory it is started in.
`PoseConstraints` has the residual that Ceres minimizes against the transform a constraint was
made from, the fixed-beam scan, and the deskewer, which only its test calls.

### PathRequests and PlannedPaths

`Request` is a pose that `PoseReadyForGoal` accepts, with the latching, the pacing and the
two sends (`pose_goal_dora_node.cpp`); each send may fail, which is logged and forgotten.
The planner keeps a half until the other comes and then plans and forgets both
(`Assemble`). Each input keeps its order, but between the two no order is assumed. In
`PathRequests` the layer of dynamic obstacles is which scan it shows from which pose, and a
path is where it starts, where it leads and over which layer it was planned. `flow` is chosen
once, among the pairs SEND_ONCE, RELOAD_MAP_ON_PLAN that the three flows with a planner use.

`PlannedPaths` fills both in. `GridMap` draws a survey into a grid (`occupancy_grid.cpp`:
counts of hits and passes along Bresenham lines, thresholds), writes the image with its rows
from above, crops it as `finalize_map.py` does, and loads it as the planner and the goal node
do, with their inflation. `ScanMessage` turns a revolution into the message (counts, angles,
the nearest point of a beam, clockwise to counter-clockwise) and reads the obstacles of it three ways. `PathSearch`
has the breadth-first search, A\* with the diagonal rule, and the smoother, whose lengths are
fixed-point numbers. The code's loops are recursive functions over an interval, long enough that the
loop has ended before its end: the breadth-first search by the cells it may visit, each taken from the queue once
(`Visits`), A\* by the free cells, each settled once, the way back by the length over the shortest step, the
smoother by its own limit. That they are long enough is proved. Each is compared with a definition that says what is wanted and not how:
rounds of walks, each one step longer (`Distances`), the nearest of all free cells, the places of the
survey. Since each file counts places in its own way (world, cell, image row, cropped image),
the last properties follow one place through all of them.

### LocalController, VelocitySmoother, LocalControl

All inputs of the controller store and its tick decides (`rpp_local_controller_dora_node.cpp`):
the cascade of waiting reasons, the collision check over the look-ahead, the rotation shim with its
hysteresis, alignment at the goal, the regulated speed. Geometry is what the decision tells
apart: points left, class of the heading error, distance of the nearest scan point ahead;
what the regulation yields is any speed between its bounds. The obstacle stays at one offset beside the line
that is driven, and everything is measured at that offset: `Limit` is how far ahead the circle of
robot_radius + safety_margin reaches there, `SelfFilter` how far the box reaches in which `readScan` drops all points. `Kept`
is what a scan keeps of the obstacle: a point up to `Spread` farther than its nearest one, since every second beam is
read, and only a point outside the box, or none, once it reaches into the box. What the controller knows (`obs`) is that point, what
the robot drives towards is the obstacle (`gap`). The smoother works on integers, with
the clamp, the acceleration step, the deadband and the timeout of `velocity_smoother.cpp`.
`LocalControl` runs both within time units of 50 ms, the smoother's period; the controller's is twice that.
What is due within a unit is handled in any order, then the robot drives one unit on what was sent last.
`blind` is a history variable, how long the controller has not had what driving needs.

### Chassis, KiwiDrive, Keyboard, TeleopDrive

A command writes wheel after wheel; `ApplyFails(c, k)` is the return at the first failed
write, which may or may not have reached its servo. `OnTickFails` is `stop()`, which ignores
failed writes. `torn` is a history variable: the last handler that wrote did not write
everything. It appears in no guard. A speed passes through the servo's sign-and-magnitude word.
What a servo was told (`speed`) and how fast its wheel turns (`measured`) are two things: a wheel gets to its speed in a
step of its own (`Settle`). The velocity that odometry integrates comes from the commands or the feedback, as
ODOM_SOURCE says. The feedback is read in the tick right after `stop()`, when each wheel may or may not have followed yet
(`Readings`); a failed read leaves what was read before.

`Keyboard` has the loop of the teleop process (open, write, one line per turn, two stops on
leaving), a pipe that loses its lines with its last open end and takes no more than it holds, and
the node, which drains it on each tick and trusts the last line for KEY_COMMAND_TIMEOUT.
`TeleopDrive` feeds what it sends to the chassis; either node may end at any time, by a stop or by dying.

### SerialPort and LidarDriver

`SerialPort` is the line as the tty has it and as the object thinks it is: `open()` and each setter
read all settings, change their part and write them back; any call may fail, and a line outlives
the program. `LineIsAsTold` says that the line is what the last setter that succeeded said, with
three exceptions that the code has and no program here meets: even or odd parity after mark or space,
whose flag CMSPAR nothing clears; a custom rate that needs a divisor, which
`setStandardBaudRate(38400)` clears while the call succeeds; and 38400 itself when a divisor could not
be cleared. 1.5 stop bits set one; the time of a byte is computed by `open()` alone.
`lock.c` is behind USE_LOCK_FILE, which is defined nowhere.

In `LidarDriver` bytes arrive in reads cut anywhere (`Read`); `Turn` is one turn of the parser's loop in
`ord_lidar_driver.cpp`, with the scan for a header, the CRC check and the resynchronization, and `Parse` the loop; `Extend` adds a frame to the revolution,
`Publish` copies a finished one into `full_scan_data_` without the lock, in two steps that
the node's copy (`CopyBegins`, `CopyEnds`) may fall between, and `SetEvent` wakes whoever waits.
Starting, setting the speed, unplugging and stopping are those of the node and the SDK. A point is a
number that gives angle, revolution and measuring period, so that a mixed scan is visible.

### PoseGraph, GraphArchive, MapFiles

A graph has scans and edges (sequential, near, loop); the solver holds its own share of
both. Poses are left out: an edge is `bound` while the poses of its ends were last set so that it
holds. `Process` is a scan accepted by the mapper with the loops it closes; `CorrectPoses`
solves, applies the corrections and clears the solver; a solution may be unusable.
`GraphArchive` writes kinds and status as words and reads them at five places.

`LocalizationBuffer` is Karto's mapper on a restored graph. Each scan is linked and may close a
loop as in mapping; when more than `BufferSize` are in the buffer the oldest is taken out of graph and solver and
freed, and an initial pose frees all of them. A scan whose predecessor is freed is linked to
nothing. Four keepers hold scans (graph, solver, running scans, buffer), and one that holds a
freed scan holds a dangling pointer: that is `FreedScansAreForgotten`. A loop that is closed
while localizing optimizes the restored scans too, which the property does not judge.

In `MapFiles` a program is the queue of what it has left to do, one file renamed, moved or
removed per step. `Crash` and `PowerLoss` may come between any two; a power loss empties what
nobody flushed (`fsync` is called for the pose graph only). A mapping session runs with its graph between launch
and save; a save that fails ends there.

## 3. Runs

| run | question | bounds | states |
|---|---|---|---|
| `supervisor` | Does it forward only from a safe state, keep outcome, deadline and replan budget through repeated goals, hold a stalled robot, grant a blockage its grace once, implement the gate, and end every mission? | three places in a row, two goals, three reports (free, blocked with grace, blocked at once), poses with or without a localization count at the limit; timeouts 1, deadline 2, one replan | 10^5 |
| `karto` | Is a scan matched once odometry brackets it, is the window kept, does a pose always follow a good match, does a scan without odometry leave? | window 3, steps 0 (clock error) and 2 (gaps), scans one behind or one ahead, two waiting, all three verdicts, two losses to a stop, sync wait 1 | 40,196 |
| `localized_held` | Do the nodes mean the same by their messages, settings, map paths and graph edges? Does a revoked prediction stop the robot for good? | one position, two initial poses, one low match, queue of 1; messages and edges on a 2 x 2 grid with four headings, the settings of every flow | 13,291 |
| `localized_loss` | Is a robot that lost its localization held? *violated* | two places, queue of 2, two low matches | |
| `localized_mismatch` | Is a brief mismatch recovered from? *violated* | the same, one low match | |
| `path_requests` | Do all paths lead to the goal over current obstacles, keep coming, and are they the shortest on the saved map, free after smoothing, and off the walls where they are driven? | five surveyed rooms, cropped to 5 x 4 cells or whole; two poses, scans and goals, all three flows, queues of 2, two faults | 630,610 |
| `local_control` | Does the robot keep its distance and stand when it is blind, within the smoother's limits, and drive when told to? | distances 0 to 16 in steps of the slowest speed, two speeds, self filter one step beyond the limit, beams one step apart, horizon 7, scan timeout 1, command timeout 2 | 1,130,921 |
| `teleop_drive` | Does the robot stand when nobody drives it, with what turns under the watchdog, do the wheels' speeds tell the velocity asked for, and does the velocity integrated come to rest behind them? | three wheels, one key, FIFO of 2, limit and timeouts 1, odometry from feedback | 216,530 |
| `chassis_bus_fault` | Also after a failed write? *violated* | three wheels, standstill, straight and turning commands, timeout 2 | |
| `lidar` | Is each scan sent one whole, fresh revolution? Is no intact frame lost, and do scans keep coming? Is the line what the setters said? | six points per revolution in frames of two, two revolutions told apart, one damaged frame per connection, reads of up to 3 units; three parities, two rates, with and without flow control, one failed call | 757,465 |
| `mapping` | Is a map never without its graph, is no keyframe lost, does a session repair what it finds, does the first closed loop hold, does the archive tell all, is nothing used after it is freed? | four scans, two loops per scan, two maps, two saves, one crash, power loss or failed write; a buffer of two, four scans localized on a map of two | 2.4 million |
| `loop_closure` | Does every loop hold? *violated* | five scans, one map | |

Why the bounds are enough for what is asked.

- Every timeout is at least 1, so that each timer is seen unset, running and expired, and in
  every order against the others.
- `supervisor`: two goals are a repeated and a changed one. Three places let a robot jitter
  by one, and add two jitters up to a movement. One replan is a first request, a refused
  second and a fresh budget with another goal; the flapping report that bypasses the cooldown
  is included.
- `karto`: the window of 3 is longer than the largest gap of 2, so that trimming meets a
  sample exactly before, on and after its edge.
- `path_requests`: a queue of 2 keeps order and overflows (dora's default is longer; the
  properties of `PathRequests` are proved for every length). Two faults are one lost half and a
  second at any later time, or a lost half and a failed reload. The rooms have a pillar at the
  border, a wall to go around, two obstacles that touch at a corner, a gap, a start inside an
  obstacle, a goal that is closed off, and a survey that ends on the edge of a cell; one
  goal lies outside the cropped maps.
- `local_control`: StopTime 3 is tight: with 2 BlindStands fails.
  `HorizonSuffices` says for every size what KeepsItsDistance needs of the horizon, given as a
  reserve of room for each speed and what must be left of the horizon in each unit after a scan, besides what the self filter
  reaches beyond the circle and what the beams may miss. The run's numbers meet it
  (`MCHorizonSuffices`; with a Horizon of 6 they do not, which is more than TLC needs: it finds the property violated with 4, and with 5 when the
  self filter reaches two steps beyond the limit instead of one). The
  flow's own numbers meet it too (`FlowHorizonSuffices`: 12 to 50 mm/s, 6 mm/s per update, timeouts of 10 and 7
  units, a horizon of 29, since the 30 poses checked begin with the robot's own), with a quarter of the square of the speed as the
  reserve, for an obstacle up to 25 mm beside the drive line: there the circle of 180 mm reaches 178.25 mm ahead and the box 180, and 1 mm is
  left for the beams. Up to about 32 mm there is room with no spread, which is no more than this argument
  gives; from 80 mm on the controller does drive on (see below). The
  ratios keep what the flow has: one acceleration step is no more than the deadband, the command
  timeout is longer than the controller's period, the horizon is longer than the
  scan and command timeouts together (10 and 7). MIN_WZ (-0.20) is nearer to zero than the turn the
  controller may ask for (-0.23), so that clamping is met.
- `teleop_drive`: the FIFO of 2 fills with one line left to write, and two stops
  are what leaving writes. Key `w` leaves one wheel still and turns two in opposite directions,
  so that signs, limits and partial writes differ by wheel; the kinematics of the other keys is
  proved for all of them. ODOM_SOURCE is `feedback`, as in every flow; each wheel gets to its speed on its own, so that
  a reading may mix old and new speeds.
- `lidar`: a revolution is three frames and may begin within one; two revolutions told
  apart show a mixture; a read is up to one frame, and 3 units wait at most. A single
  damaged frame may be cut short, or have its header or its payload changed. The run
  does not check for deadlock: a driver whose device is unplugged, or whose node has left, stops.
- `mapping`: four scans close two loops from one scan, two maps and two saves let a
  session find what another left. One fault in a session and a second session that repairs it.

The bounds `MaxPending`, `MaxFaults`, `MaxInitial`, `MaxLow`, `QueueSize`, `FifoSize`,
`MaxDamage`, `WireLimit`, `Delay`, `MaxFrames`, `MaxSaves`, `MaxNodes`, `MaxChains` and
`MaxIterations` (of one smoothing) are the only ones that are not settings of the code.
`Delay` is how many frames' time may pass while the node copies a scan. The two threads
share the scan without a lock (`ord_lidar_driver.cpp:725`, where it is commented out), so that
a scan is whole only if the node, once woken, is done before the next revolution is published:
a Delay of 1 with three frames per revolution holds, a Delay of 2 already lets a mixed scan out.
At the sensor's ten revolutions per second that leaves the node a little less than 100 ms.
`RevolutionsAreLong` says it for every size: the frames that wait in the tty and the buffer, that come
while a scan is copied and that got lost are together no more than a revolution has. The run's
constants meet it with equality (`MCRevolutionsAreLong`). A revolution of this sensor is 450 points in frames of 12, so
it allows 37 frames: a receive thread that is never further behind than what is left after the
copy and the losses. It counts all frames lost since the device was plugged in; what
matters is only how many are lost in a row, but the model's MaxDamage is the total.

### What the violated runs show

- `localized_loss`, LossIsHeld (README.md:34, "publishes zero velocity while ...
  localization-lost"). After a run of low matches Karto sends SafetyStop but keeps
  predicting poses from odometry (`runtime.cpp:152`, 188-197); they carry no localization field
  and keep the supervisor's pose fresh, and the supervisor has no branch for SafetyStop.
- `localized_mismatch`, MismatchRecovers (`apps/adora_nano_navigation/KARTO_ACCEPTANCE.md:51`,
  recovery from a brief mismatch). A low match right after an initial pose consumes it and becomes
  the last input; no pose is published, the robot is held by POSE_TIMEOUT, never travels the minimum
  distance, and every later scan is skipped.
- `chassis_bus_fault`, WatchdogCovers (docs/OPERATIONS.md:122). A command that fails after its
  first wheel leaves that wheel turning with `command_active` false, and a `stop()` whose
  writes fail disarms the watchdog all the same.
- `loop_closure`, LoopsStayBound (docs/COMPONENTS.md:10, "pose-graph optimization";
  docs/OPERATIONS.md:47). After a closure the mapper clears the solver
  (`ceres_pose_graph_solver.cpp:267`) and nothing refills it. At the next closure the edge to the
  older scan is skipped because that scan is unknown, an open chain is solved, and its
  corrections put the closing scan back where it was. The first loop of a session holds
  (`FirstLoopHolds`).

### Met while modelling, and shown by no run

- `run_navigation.py:182` looks for the node `initial_pose_control`, which
  `adora_nano_slam_navigation.yml` does not have, so `--slam` (docs/OPERATIONS.md:100-105)
  ends in a KeyError. The `--localize --relative` examples there lack `--initial`,
  which is required (lines 149-150), and `--localize --replan` exclude each other.
- `run_mapping.py:77-78`: `--dry-run --clean` moves the map away.
- `check_navigation_ready.py` reads `keyframes` at the root of the archive, where they are not:
  its summary always counts none.
- `PATH_TIMEOUT_MS` and `FIXED_LATERAL_PREFERENCE` are set and read by no node; a
  path times out after 2.5 s whatever the setting.
- The first path after a failed reload ignores a fresh scan: the layer is rebuilt before
  `map_loaded` is set (`dora_planning_node.cpp:231-234`). `PlansOverTheSurroundings` is about
  a map that stays loaded.
- A restored graph gives the solver the nodes and near edges but not the archived loop
  constraints.
- The self filter drops |x|, |y| <= 0.18 m (`rpp_local_controller_dora_node.cpp:56`), a box around the whole circle of
  0.18 m that the clearance is compared with. So no point within that distance is ever in the costmap:
  `rotation_blocked` cannot come up, and only the prediction from farther away keeps the distance. Beside the drive line the box
  reaches farther ahead than the circle; at 80 mm by 19 mm, more than the 17.4 mm that the slowest speed drives within the horizon, so
  that an obstacle there vanishes from the scan before it blocks and the robot drives past it. With SelfFilter = 7 and
  Horizon = 5 in `local_control.cfg` (and `MCHorizonSuffices`, which such numbers do not meet, taken out) TLC shows it.
  docs/superpowers/specs/2026-07-23-rotation-shim-design.md:50-52 has it that "If current clearance is insufficient, output is zero
  and the planner reports `BLOCKED`; it must not attempt translation to escape."
- Between the two replaces of `finalize_map.py:96-97` image and origin disagree; no program
  but a new mapping session makes them agree again.
- Unknown cells (205) are free to the planner.
- Settings (`DriveSettings`, `KartoSettings`). The flow asks for a rotation shim of up to 0.23 rad/s
  (test_rpp_production_wiring.py:16), but the controller has 0.20 (rotation_shim.cpp:13) and reads no
  ROTATION_SHIM, timeout or MAX_LOCALIZATION_LOST_COUNT key. MIN_WZ clips right turns to 0.20. The
  planner's static inflation (0.15) is less than the controller's stop distance (0.18), the dynamic one equals
  it. The smoother does not check that a minimum is below its maximum, with which std::clamp is undefined.
  The controller gets no LIDAR keys and has the flow's mount only by its defaults.
- The keys MAP_PATH_PREFIX and GRAPH_PATH that `run_navigation.py` makes absolute exist in no flow.
- The default tolerances of the supervisor (0.10, 0.12) and the controller (0.05, 0.035)
  differ; every flow sets both alike.

## 4. Fairness

- `NavSupervisor`: the timer tick (a dora timer, 200 ms in every flow) and the clock. Poses
  are not assumed: `MissionEnds` has them as its hypothesis, because without them the state
  is POSE_TIMEOUT for ever and no outcome is reached.
- `KartoRuntime`: scans arrive and the clock advances; nothing about odometry, which is what
  the property is about. The node has no timer of its own, so without any input nothing would
  leave the queue.
- `LocalizedNavigation`: odometry, scans (among them one the matcher would like), delivery,
  the supervisor's timer, the clock. Neither goals, initial poses nor commands are fair.
- `PlannedPaths`: the planner takes from both its request inputs. Requests are the
  hypothesis of the property, so it covers flows that ask periodically; with SEND_ONCE
  a dropped request is asked for again only by a replan request.
- `TeleopDrive`: the chassis' timer, the clock, and the wheels, which follow what their servos are told; the chassis' tick is fair
  as one whose reads all fail. The keyboard node need not tick: what it does not send is what the watchdog is for. Operator, pipe and bus owe nothing. `DriveEnds` has as its hypothesis
  that no motion is asked for and that writes are not torn for ever (else `chassis_bus_fault`).
- `Chassis` (`chassis_bus_fault`): the timer, the clock and the wheels. That reads go on to succeed
  (`ReadTick`) is assumed in neither; it is the hypothesis of `OdometryRests`, because an odometry whose
  reads fail for good keeps its last velocity for good.
- `LidarDriver`: the device that measures goes on sending, the receive thread goes on
  handling, the node's ticks go on. Nothing about a device that is unplugged:
  `ScansFlow` is about the time it measures for good.
- `LocalControl` and `MapFiles` assume none. What must happen within a time is stated
  with a bound (`BlindStands`); what must hold in the end is stated of the end (`SavedSessionsAgree`).

All of it is weak fairness of single actions.

## 5. Theorems

Each holds for every value of the constants allowed by the module's ASSUME
(`SupervisorAssumption`, `RequestsAssumption`, `KartoAssumption`, `ControlAssumption`,
`ChassisAssumption`, `KiwiAssumption`, `TeleopAssumption`, `GraphAssumption`, `BufferAssumption`,
`FilesAssumption`, `PortAssumption`, `LidarAssumption`, `GridAssumption`, `SearchAssumption`, `ScanAssumption`,
`PlannedAssumption`, `SiteAssumption`): sets
that do not contain the absent values, relations of the right type, timeouts in Nat, buffers that hold one, a speed
limit of 15 bits, wheels' angles as integers. Of the surveys `SiteAssumption` says what `BuildOccupancyGrid` (scans there are) and
`finalize_map.py` (a known cell there is) refuse otherwise. Three say more: `StopTimeAssumption` and `DeadbandAssumption`
of `LocalControl`, see there, and `LidarAssumption`, in which the node's copy of a scan takes less time than a
scan is fresh and the lidar's rate has a B constant other than B38400 (230400 has). `PlanarPose` has no constants.
Two theorems have a hypothesis on their constants in the statement: `SentScansAreWhole` is of
revolutions that are long (`RevolutionsAreLong`) and `DistanceKeeps` of a horizon that suffices
(`HorizonSuffices`; both in section 3). TLC evaluates both hypotheses on the constants of the runs.

**NavSupervisorProofs.** `TypeCorrect`, `LatchHolds` (SessionSurvivesResend), `GraceOnce`
(GraceGrantedOnce), `ImplementsGate` (GateSpec), `ForwardingSafe` (ForwardIsSafe), `StallHeld`
(StallHolds). All of them rest on one lemma, `EvaluateLaw`, which says once what an evaluation does to
the session and the outputs, and on `StepKinds`, which says that a step is an evaluation
with the kept or a new session, the storing of another pose, or the passage of time.
`ForwardIsSafe` is a statement about the step just taken: every handler establishes it afresh
or sends no command. It still needs the type invariant (ages that are numbers) and
`BaselineTimed` (a session with a baseline pose has a running progress timer; without that
invariant a baseline with an unset timer would pass the stall check and be forwarded on):
`IInv` is the conjunction of the three. `StallHolds` needs that `Moved` can be true
only by displacement once there is a baseline. `ImplementsGate` maps initial states to initial
states and each kind of step to Begin, Move, Replan, Hold or Conclude.

**PathRequestsProofs.** `TypeCorrect`, `OneGoal` (PathsLeadToTheGoal), `CurrentObstacles`
(PlansOverTheSurroundings). The goal of a path is not inductive by itself: the strengthening
says that every cell anywhere on its way (in the queue or kept as a half) is the cell of
the latched goal, and that there is none before a goal is latched. `QueuedLaw` and `TakenLaw`
carry that through a queue that overflows. For the obstacles, the strengthening says that the layer
shows exactly the surroundings while the scan is fresh and a pose is known, and that without
reloading the map stays loaded. The run checks both under `PlannedSpec`, whose steps are steps of
`PathRequests` with the map fixed (`RequestsOfPlanned`).

Of the paths themselves, for every survey, layer, radius and number of passes: `ShortestRoutes` (RoutesAreShortest),
`NearestCells` (PointsMoveLeast), `PathsStayFree` (SmoothedPathsStayFree). TypeCorrect gives that what is planned is a
plan of a site (`Plans`); the rest is about what the planner computes from it. A loop is a
recursive function; that it exists (`Recursion`) and what holds of its values (`Interval`) follow from a least number for
which it would not, and what holds of a turn is an invariant:

- A\* (`SearchInv`): the source has distance 0, each other known cell was reached from a settled one that is nearer by
  their step, a settled cell has relaxed all its neighbours, and none promises more than an open one. A step brings the target no
  nearer, as the octile heuristic sees it, than the step is long (`Consistent`), so no cell is settled twice, the search ends within
  as many turns as there are free cells (`SearchEnds`), and a walk shorter than the one found would have an open cell on it that promises
  less than the target did (`LeastLaw`). The reference is shown to be the length of a shortest walk on its own (`DistancesLaw`:
  a shortest walk visits no cell twice), and the two agree because both are least.
- the nearest free cell (`RingInv`): the queue ascends by rings and spans two of them at most, and no cell as near as the next one in the queue is
  unvisited (`InsideLaw`), so the first free cell found is a nearest. Every turn takes one more cell away, and there are `Visits` of them (`ProgressEnds`).
- smoothing (`Kept`): a pass changes neither end nor any point to one over a cell that is not free, unless it is given up.

Of places on their way through the maps and messages:

- `PlacesKept` (WallsAreWhereSeen) for every survey, if there is a margin (CropMargin > 0). A beam's cells: after i steps of Bresenham's
  line the cell has taken i steps along the longer side, its offset from the line is at most half of that side, and the
  error term is the sides' difference plus that offset (`OnLine`), so it lies near the line and is never the last cell (`CrossedLaw`); a cell
  that nothing clearly passed has hits only. From there a wall keeps its
  place: `SavedLaw` (rows turned over), `CutOut` and `CroppedLaw` (the cropped image is the part of the saved one
  that holds every known pixel, its origin moved by the rows and columns cut off), `ImageLaw` (loaded).
  The origins are multiples of a cell, so a place falls into the same cell counted from either (`AxisLaw`, `QuotientShift`).
  Without a margin the highest place of a survey can stand on the upper edge of the grid, outside its cells; the
  code takes any margin that is not negative and every flow sets 0.50 m.
- `PathsOffWalls` (PathsStayOffWalls) for every map, layer and plan, as long as no waypoint lies exactly halfway
  between two rows: the planner rounds such a point up in the image and the grid's rows count the other
  way, so that it lies in one cell for one and in its neighbour for the other. With rounding to the nearest (`RoundedOnce`,
  `RoundedBack`) the cell a waypoint is followed in is the cell the planner found free (`FollowedLaw`), and a wall of the
  grid is a wall of the planner's map (`WallsBlock`). The run checks the property without that condition.
- `ObstaclesKept` (ObjectsAreWhereMet) for all poses and objects (`ScansInView`): an angle that is off by less than half a beam
  falls to the beam of its axis and to no other (`BeamLaw`, `BeamsApart`), so what `BuildLaserScan` has taken after k points is the ranges
  of the first k axes (`Held`) whatever their order, and each reader finds exactly the axes whose range is between its
  bounds (`ReadLaw`). `FarEnough` leaves out objects nearer than RANGE_MIN, which the message cannot tell from none, and at
  RANGE_MIN exactly, where planner and controller differ, all but the robot itself. `AxesRead` has each of the four directions
  in which the model measures on a beam that is read; with the flows' 450 beams none lies at exactly 90 degrees, which rounds
  a point to a neighbour and is the resolution of the message, not an error of a reader.

**KartoProofs.** `ReadyScansLeave` (ReadyNeverWaits), `WindowBracketed`
(WindowStaysBracketed), `PosesAreGated` (PosesFollowGoodMatch). The invariant `KartoInv` has the
window (stamps rise strictly and end at the newest sample, `Window`) and the queue (`Waiting`).
`TrimmedLaw` and `BufferedLaw` say what trimming leaves and that the sample just before the
window's edge is kept, `DrainLaw` that draining stops at the first scan that must wait and nowhere else.
A drain handles any number of scans with any verdicts; `HandleKeeps` follows one of them, and
`DrainKeeps` all of them by least element: were there a scan after which the tracking state or the
outputs were wrong, there would be a first (`NatLessThanWellFounded`), and it was handled in a right one.
`Tracked` (anchored only when initialized and not seeded) is the second invariant.

Of poses and constraints: `PredictionFollowsMotion`: the pose predicted from a match is the matched pose
moved as the odometry moved since, whatever frame the odometry counts in. Sines and cosines of the difference of
two headings are expanded by quarters (`Difference`), a vector turned back and forth is turned by the
difference (`TurnedBack`), and the headings' normalization is a congruence (`Normal`, `Added`).
`ErrorVanishes`: whatever the weights, the residual of a constraint is zero exactly where it
holds, up to whole turns. `ErrorIsRelative`: it does not change when the whole map is moved, which is
why ComputeReport must hold the first pose. `EdgesAreUnderstood` is both, a part of MessagesAreUnderstood.

**LocalControlProofs.** `CommandsLimited` (Limited), `BlindStop` (BlindStands), `FollowingMoves`
(FollowingDrives), of controller and smoother together. `SmoothAxisLaw` and `SmoothAxisBounds` say what an update
does to one axis. The invariant `ControlInv` bounds what each part still has to do: what is pending
answers the controller's last tick, a blind controller's command gives the target up within its period
(`Answered`) or the target's own time does (`GivenUp`), and from then on the velocity is one that the updates left before
StopTime bring to zero (`Slowing`, with `Stops(a, n)` the speed that n updates stop).
`StopTimeAssumption` is what that takes: the command timeout is less than StopTime, and the limits are
no more than StopTime - 1 decelerations. In the flow, in units of 50 ms: 7 < 11, limits of 55 mm/s and
0.23 rad/s against ten steps of 6 mm/s and 0.03 rad/s. `DeadbandAssumption` says that one acceleration step, the limit
and the slowest speed asked are not below the deadband; 6 mm/s and 5 in the flow, and equal in the
node's defaults, which it does not check.
`DistanceKeeps` (KeepsItsDistance) is of any offset beside the drive line, with the limit, the self filter and the spread of the beams
that belong to it, if the horizon suffices there (in the flow up to 25 mm). It needs a second invariant, `DistanceInv`, checked by TLC before it was proved. The
property itself is far from inductive: a robot a step away from its limit is safe or not by what it drives, by which scan
that was decided on and by how long ago that was. `TargetCovered` says that of a target that moves the robot: there
is a scan, no older than its timeout when the target was decided on, of which enough is left (`left[u][w][n]`, n units
on) to drive as fast as `Fastest(u, w, n)` until the target times out; `u` is what the robot may have driven when the
scan came and `w` the fastest speed the scan allows. A target of zero leaves room to brake (`CanBrake`).
`CommandCovered` says the same of a command on its way, and `ScanCovered` of every command the next tick may still
decide on. `Renewed` is the scheduling it takes: a running controller replaces a target within two units. A new scan
opens a reach of its own, either on the horizon it saw free at `w` or on the room left from before
(`DistanceScans`); an update moves `Fastest` on by one step of the ramp (`FastestKept`, from
`SmoothAxisLaw`), and a unit of time takes what is driven off what is left (`DistanceElapses`).

**ChassisProofs.** `TypeCorrect`, `SpeedsLimited`, `Armed` (TurningIsArmed). `SpeedRoundTrip` says what the
servo's word makes of a speed, and `SpeedsLimited` follows for every order of writes
and failures. With `torn` recorded TurningIsArmed is inductive by itself: a complete write sets
`command_active` by the speeds it wrote (`CommandShape`: a command that counts as zero turns
no wheel; how fast the wheels really turn plays no part), a torn one is excused until the next complete one, and a tick leaves or clears
both. Without `torn` it is false, which is what `chassis_bus_fault` shows.
`VelocityIsReadBack`: for wheels at any angles, the inverse kinematics applied to the
wheel speeds of a velocity is that velocity times the determinant the code divides by; the
proof expands the nine cofactors and leaves each component to arithmetic. `DrivenChassis`: driving by
keyboard implements the chassis' own specification, step by step, since every line in the pipe (`Lines`, inductive)
is a command that it takes. So the theorems above hold of `TeleopDrive`, and with
`TurnsAsALine` (wheels that were all written turn as one line asks) and `VelocityIsReadBack` they give
`KeysAreDriven` (DrivesAsAsked).

**LidarDriverProofs.** `LineFollowsCalls` (LineIsAsTold), `SentScansAreFresh` (ScansAreFresh),
`FramesAreFound` (NoFrameLost), `SentScansAreWhole` (ScansAreWhole). For the line, each setter has a lemma on what it makes of its own part of the
flags and that it leaves the others'; `Opens` puts them together for `open()`, and `LineHolds` adds
what the node's own port asks. The proof found `ParityOf` and `FlowOf` written with overlapping cases, of which TLC
takes the first and logic none; they are now written as the kernel decides. For the age of a scan the invariant is that a
node that is awake has counted at least the scan's age (`AgeHolds`), which the bare condition variable gives: it is
only woken by the scan it waits for. For the parser, `IntactSkips` says which units may be left out, `TurnLaw` that one
turn of the loop leaves out only such and takes an intact frame where there is one, and `ParseLaw` carries this
through all turns. What the recursive functions are is proved without induction over data: that `Intact` and the turns
exist, and what holds of each turn, follows from a shortest sequence, or a first turn, for which it would not
(`FromExists`, `TurnsExist`). The invariant the reads need is small: when the header flag is up,
the buffer begins with that header (`ParserHolds`).

`SentScansAreWhole` follows the points from the device to the copy. The stream is the frames found and the intact ones
still in the buffer and on the line (`Stream`); a read leaves it as it is (`FramesAreFound`), the device adds a frame at its
end (`FrameAdds`) or, when the frame is damaged, nothing (`DamagedAdds`: what is left of a frame completes no other),
and the receive thread takes the first. Each frame of the device's present period has a place, a number that keeps rising
however the points' own numbers wrap round (`At`). The invariant `WholeHolds` says that the places follow one
another (`Follows`): each a whole frame after the one before it, from the last point taken to the one
measured next, with no more missing in between than the damage accounts for. Before them there may be points and frames of the period
before a pause, but only while the node waits for the new speed. So two points side by side are less than a turn apart,
an angle falls where a revolution ends and only there (`Apart`, `NoFall`), and what is
published from zero on is one revolution, rising (`TakenRises`). For the copy, made without the lock, the
invariant keeps a distance: from the publication until the copy is done there is room for the frames that may
still come before the revolution ends (`RoomLeft`). A publication makes that room, since no more frames wait than fit
(`RoomMade`; half of what the parser is given is all it may keep, `ParseLeaves`), each frame's time uses up one frame of it, and a frame
that fits in it does not end the revolution (`RoomKeeps`). A node that has ended or will find no scan, and a device that was unplugged
while the node sets the speed, owe nothing any more (`Aside`). The invariant was checked by TLC on `lidar` first.

**PoseGraphProofs.** About operators, not a specification: what any sequence of operations makes of a graph and of a
mapper. `GraphInv(g)`: links lead from older to newer scans, what the solver has is of the graph, no corrections
are left between operations, and until a loop is closed the solver knows the whole graph (after that
it need not, which is why the second loop may fail). It is kept by `Process` (`ProcessKeeps`, with
`ClosedKeeps` for one chain and `LoopsLaw` for all of them) and by `Restored`. `ArchiveTellsAll` follows
from the finiteness of the links and a bijection of edges and rows.
`FreedScansStayForgotten`: for every map, every number of localized scans and initial poses and
every BufferSize of at least one, no edge, constraint, solver pose or running scan refers to a
freed scan. The strengthening (`Buffering`, `Settled`) is that the running scans are
aligned with the end of the buffer (`Aligned`: position for position, map scans before them), so that the scan freed, which
is the first of a buffer longer than the running scans may be, is none of them. It needs both limits to be the
same, as SCAN_BUFFER_SIZE makes them.

**MapFilesProofs.** The six properties of the run `mapping`, for any number of scans, maps, saves and
faults: `MapsHaveTheirGraph` (SavesTrail), `SessionsEndInAgreement` (SavedSessionsAgree),
`NoKeyframeIsLost` (KeyframesAreKept), `FirstLoopsHold`, `UnsolvedScansHold`, `ArchivesTell`
(ArchivesTellAll). The invariant `FilesInv` says which place of its program the queue `todo` is at (`Moving`, `Saving`, `Cropping`, `Syncing`
and so on) and what the steps before that place have left on disk: which files are gone,
which are of this save, that none is of a newer one than the graph, that the graph is flushed. A crash
drops the queue, a power loss empties what is not flushed, and the files left satisfy SavesTrail in either
case because the graph comes first in a save and last in a move. `GraphsInv` adds that the process' graph is in
`GraphInv`, that a saved graph has its number of scans, and that a graph waiting to be saved, or the process that will
save one, has no fewer scans than the file of the same map. Both invariants were checked by TLC on `mapping` first.

Folds over sequences are written as recursive functions with an explicit domain where a theorem is
about them (`KartoRuntime`, `PoseGraph`, `GraphArchive`, `LocalizationBuffer`, `LidarDriver`, `PathSearch`, `PlannedPaths`,
`ScanMessage`), and what holds of each of their values is proved by
the least one for which it does not.

Only model-checked:

- liveness (MissionEnds, OverdueScansLeave, UnanchoredIsHeld, RequestsAreAnswered, DriveEnds,
  OdometryRests, ScansFlow): out of the prover's reach.
- PathsStayOffWalls where a waypoint lies exactly halfway between two rows: a matter of the scene, see `PathsOffWalls`.
- MessagesAreUnderstood, except its graph edges: an agreement of tables of given settings and of
  messages on a given grid; there is nothing more general to say.

## 6. Not covered

Hazards without a property (each with its reason in `PROJECT.json`): the age of a pose counted
from its arrival, a scan taken before and drained after an initial pose, a prediction sent
before the scan behind it is matched, a local planner status that no one times out, and a crash between the two
replaces of `finalize_map.py`. Nothing in the repository states a bound that would make the first four a
property, and the fifth is undone by nothing.

Left out of modelled components:

- Karto: scan matching and the least-squares solution are numerical and partly vendored (OpenKarto,
  Ceres); what they find is nondeterministic. The pose log and the status messages are written for a human reader.
- chassis: the PID loop, which no flow turns on (PID_ENABLED is set nowhere), the
  integration of the velocity to a pose, and the speeds between a wheel's old and its new one: it is read to have one or the other.
- MS200 driver: the network classes, the C interface, the full-scan filter, lock files, the
  list of ports, modem lines, breaks, reading by lines and the device-information parser are vendored with the SDK and used by
  no node.
- keyboard control: the dora mode of `keyboard_control.py`, which no flow uses.
- operator scripts: their output, build and installation, log summaries.
- local controller: pursuit geometry in floating point; only what the decision tells apart is kept. One obstacle at a
  fixed offset beside a line driven straight: a trajectory that curves, a robot that turns an obstacle into its box on the spot, an obstacle that
  moves, one too narrow for every second beam and the noise of the sensor are outside what KeepsItsDistance says.
- the flow of navigation as one composite: `localized_*` replaces controller, smoother and
  chassis by a command that may come at any time, and `local_control` replaces the supervisor
  by none.

## 7. Plan

What is left, in order of importance:

1. `SentScansAreWhole` with the frames lost in a row in place of all that are lost, so that it says something of a
   session of any length on a bad line.
2. A refinement of `LocalControl` to a robot that either drives on a scan within its reach or slows
   down, with `DistanceInv` as the mapping's invariant.
3. `MissionLoop`: the supervisor, `PathRequests` and the controller's tick in one module, for
   replanning end to end: the controller's report `input_timeout` is not one the supervisor counts
   as blocked, so with SEND_ONCE everything then hangs on the stall detection.
4. The odometry pose as the integral of the velocity, against `PlanarPose`.
