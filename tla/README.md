# Salus robot: TLA+ models, checks and proofs

Salus is an outdoor patrol robot. Its software is a set of ROS 2 nodes around
Nav2: an operator submits routes and patrols through a web cockpit, a
coordinator turns a patrol into routes, a route executor turns a route into
Nav2 goals, a command server arbitrates who drives, and a controller sends the
result to the vehicle over a serial line. This directory models the parts of
that software in which several callbacks, threads, processes, clients or
answers meet, checks the models with TLC on small instances, and proves the
most important invariants with TLAPS for instances of any size.

## 1. Inventory

| Part | State it keeps | Hard behaviour | What makes it correct |
|---|---|---|---|
| Patrol domain and coordinator (`patrol_*.py`) | phase, battery latch, loop exit, preparation, route ids, pending poll | a battery sample in any phase, unlocked replacement, late answers, polls that race cancels | no lap with a latched battery, exit is the nearest waypoint, every phase ends on the progress of its own route, a cancel ends the mission |
| Route executor and recovery (`route_executor_node.py`, `route_recovery.py`) | mission, cursor, goal epoch, action, retries | goals of an old mission answered late, data lost during a recovery | a result is applied to the goal it belongs to, no checkpoint is skipped, retries are bounded |
| Route windows (`route_preparation.py`, `route_chunker.py`) | window, lap, credited occurrences | windows that cross the closure, are pruned, cut or sent again | every visit counts, in order, for its lap |
| Navigation command server (`nav_command_server.py`) | manual mode, ages of inputs, brake holds, goal, terminal event | decisions taken under a lock and published after it, two callers that replace one goal | one source drives, one goal is at Nav2, a takeover reaches both |
| Vehicle controller (`salus_control`) | last command, watchdogs, serial client, transmit thread | five separate setters against the transmit thread, shutdown | no motion without fresh grounds for it |
| Battery guard (`battery_estimator.py`, `controller_server_node.py`) | persistence counters, latch | late, suspect and missing samples | the latch is earned |
| Path health, maneuver guard, behaviour tree | counters and timers of the policy, wait, branch | an answer about one path used for another, no answer | nothing is followed without the guard's word, waits end |
| Navigation profiles | transaction, applied components | an update that times out and is applied later | the reported profile is the one in force |
| Nav2 startup | futures, deadlines | late answers | ready means active, a startup ends |
| Zones and keepout layer | document, revision, file; painted cells | crash between write and activation, update thread against subscription | what is live is on disk and painted, and nothing else is |
| Snapshot server | cached messages, retained plan | goals that change between samples | no plan long after navigation ended, none retained that was old when the activity began |
| Operator lease and WebSocket server | owner, lock, heartbeat, outboxes | requests in flight when a connection closes or the lease expires | one owner, and only an unexpired one commands |
| Web gateway | requests under way, cached state, view | services that answer late or never, state copied before an await | an acknowledgement is true, the screen catches up |
| Recordings | wishes, persisted state, per-camera state | failed writes, restarts, silent authorities | a mission is captured to its end, a wish is kept |
| Route library, waypoint file | documents, revisions, file lock | several processes, crashes | no lost update, never an unreadable file |
| Cameras | pose, presets, stream document | lost requests, half-done commands, a document another client changes | a known pose is true, presets survive, only managed fields change |
| RTK, serial framing | ages, sequence numbers, buffers | restarts, lost statuses, damage | fresh is true, damage costs nothing behind it |
| Localization | fixes, windows, pairs, queues | samples late, twice, out of order | a heading is of a straight run, a fix uses its own heading, time is not invented |
| Simulated devices, evaluation | queues, clock, domains, verdicts | clock rollbacks, dying workers, results of earlier goals | trials are separate, a verdict is earned |

How they interact: the web server calls the services of the coordinator, the
route executor and the command server; the coordinator calls the executor's
services, listens to its events and polls its state; the executor calls the
command server and listens to its numbered events; the command server is the
only client of Nav2 and the only source of commands for the controller; battery
guard samples come from the controller's estimator.

The hazards of this code, each at its line and with the property that covers
it, are listed in `PROJECT.json`, as are all components, the ones that are not
modelled too.

## 2. Plan

Ordered by how much of the robot's behaviour depends on the part; all of it is
built except where it says next.

1. `PatrolDomain`, `PatrolCoordinator`, `PatrolProofs`.
2. `OperatorLease`, `LeaseProofs`.
3. `NavigationProfile`, `RouteRecovery`, `RouteExecutor`, `RouteProofs`,
   `CheckpointProofs`.
4. The command chain: `CommandArbiter`, `ControlLogic`, `VehicleControl`,
   composed in `DriveChain` and proved to implement `MotionPermit` in
   `ChainProofs`.
5. The other services of navigation: `NavGoals`, `Nav2Startup`, `GuardedTree`,
   `PathPolicy`, `KeepoutZones`, `RouteChunks`, `NavSnapshot`, `BatteryGuard`.
6. The cockpit, devices, localization and evaluation modules of section 3.
7. `ServiceProofs`: theorems about the eight services of `MCServices` (goals of
   Nav2, startup, guarded tree, cockpit, requests, recording, trial, profile) and
   about all of them together.
8. `ComponentLemmas`, `ComponentProofs`: theorems about the components of
   `MCComponents` that have variables of their own: route library, waypoint file,
   evaluation matrix, keepout zones, path policy, navigation snapshot, battery guard.
9. `CreditIsPhysical` of `RouteExecutor` within one mission (`CheckpointProofs`).
10. Next: what `CreditIsPhysical` needs with several missions, and the components
   that `MCComponents` still instantiates over its slots: corrections, cameras,
   odometry and headings, trials, route windows.

## 3. Modules and code

Every module has an action per callback, handler, critical section or thread
step of the code it is named for, ages instead of clocks, and names or small
integers instead of payloads. Broken variants of some definitions stand before
them and show that the properties notice the bug they describe.

### The patrol

`PatrolDomain` has `PatrolMachine` and `PatrolBatteryInputPolicy` as operators
on one record each. Coordinates become a table of distances `Dist` from each
loop waypoint to the return reference; the exit is the first nearest one, as
`min` takes it. `ValidMission` is what `validate_mission` guarantees.

`PatrolCoordinator` has one action per callback of
`patrol_mission_coordinator.py`, since each holds the node's RLock, except the
end of a replacement: `_finish_replacement` and `_start_spec` run unlocked on a
client thread, so a thread in there is a record of `starting` with a program
point per access to shared state. Service calls are records of `calls` that are
served and answered in any order between services; the route executor serves
one at a time and blocks while a cancel waits for Nav2. The executor is its
mission, its preparation and its checkpoints.

### Routes

`RouteRecovery` is `BlockedRecoveryPolicy` as operators on a record, with the
order of its timers and not their values. `RouteExecutor` has the methods of
`route_executor_node.py` as operators on one record `ex`, and an action per
callback: every callback that touches the mission is in the node's mutually
exclusive default group. `_cancel` blocks that group while it waits. Calls to
the command server are a sequence in `ex.calls`, served one at a time; a goal
request remembers only whether it belongs to the current epoch. `nav` is the
command server with the Nav2 goal, `health` what the path guard last published.
A route is its waypoints by index; the windows of `build_chunk` are the table
`ChunkEnd`, and `Cuts` what the horizon may take off them.

Four assumptions about time are in the guards, each with a constant or a
comment at its place: telemetry comes between two changes of the policy's state
(0.2 s against 1.5 s and 5 s); a cancellation ends before the retry wait is over
(`SlowCancel`); the calls to the two goal services are served in the order they
were sent (`Reordered`); a goal does not end before its request was answered
(`QuickResults`). Setting one of them to `TRUE` shows what the code rests on:
with `SlowCancel` TLC violates `NeverRaises`, with `Reordered` `StopIsFinal`;
`QuickResults` breaks none of the safety properties. `ActionsOutlive` lets a
mission be replaced while an action runs, which is what `route_action` is about.

`RouteChunks` is the other side of the same node: routes, open or looped, are
densified, and walked in the windows of the three modes (`single_checkpoint`,
`legacy_pair`, `adaptive_dense`). Where the robot is decides how much is pruned
before a dispatch, what the horizon leaves of a window and where a loop is
entered; all of that is left open. A retry sends the suffix behind the credited
checkpoints.

### From the planner to the wheels

`CommandArbiter` is `nav_command_server` as the one source of `/cmd_vel_final`.
A callback decides under the lock (a record of `deciding`) and publishes after
it; services, goal results and brake holds run beside it. `ControlLogic` has
the pure policies of `salus_control`; `VehicleControl` the controller's
executor, the five setters of the serial client one by one, the transmit thread
that may hold a frame, and the shutdown. A tick of time needs the periodic work
of that tick to be done.

`DriveChain` composes them: what the arbiter publishes is what the controller
receives, in the canonical setup through the translation of
`legacy_vehicle_command_node`. `MotionPermit` says what the whole is for in one
variable and one condition: the wheels move only while the grounds for moving,
a look at the surroundings or an operator's command, are at most `Grace` old.
`KeepsPromise` is that specification under the refinement mapping, with
`MotionGrace`, the sum of the timeouts and periods on the way, for `Grace`. In
this run the path verdict is fixed, because a verdict to stop acts on the command
in the same place as the collision monitor's stop; `TakeoverStep` is checked
with the other verdicts in the arbiter by itself.

`BatteryGuard` has the estimator, the two sources and the telemetry tick that
feeds it, with voltages in the three bands the thresholds tell apart.

### Navigation

`NavGoals` is the same server as the client of Nav2: every critical section of
`_lock` is an action, and the terminal event is a history of who waits for
which goal. `GuardedTree` ticks the behaviour tree of `navigation_core.xml`
with the plugins of `salus_navigation_bt` against `ManeuverWait`; the guard
refuses a path that is twisted whichever way the robot heads, and any path, the one
that is followed too, while the robot heads against it (`against`); `PathPolicy`
is the judgement `path_health.py` makes of a sampled path; `Nav2Startup` the
coordinator's timer against lifecycle nodes; `KeepoutZones` the zones from the
operator's document to the painted cells; `NavSnapshot` the picture of them.
`NavigationProfile` runs `_apply` on several threads over one unlocked
transaction object, each with a program point; a call may be accepted, refused,
not sent, partly taken (the service is not atomic), taken with its answer lost,
or taken after the deadline. `Switches = FALSE` leaves out preemption inside
`begin`, between its test and its assignment.

### The cockpit

`OperatorLease`: the WebSocket server is one asyncio loop, and everything
between two awaits is one action. A handler that awaits the gateway is a record
of `tasks`. The guard expires lazily, when some handler looks, as in the code.
The outboxes are bounded sequences with the code's rules for replaceable
messages and full queues. `CockpitRequests` follows a request from the frame to
its acknowledgement; `CockpitState` what the screen shows against what the robot
does; `Recording` the policy, its persistence and its worker thread;
`Repositories` the two shared files, the route library and the waypoints, with
processes that die between any two steps. `missed` of `OperatorLease` is a history: the connections
that the last change of the lock never reached, because their queue, or that of
the connection that made the change, was full of answers.

### Devices, localization, simulation

`RtkCorrections` (source, transport, adapter), `Framing` (the resynchronising
decoders as recursive functions against a reference that sees the whole
stream), `CameraPtz` and `StreamProfile`; `CourseHeading`, `WheelOdometry` and
`MapMeasurement`, each with what the rover really did as a history variable;
`ShadowComparison`; `SimSensors` and `SimTelemetry`; `EvaluationTrial`,
`EvaluationMatrix` and `ContinuityTrial`. The header of each module says what it
models and which data it abstracts.

## 4. Runs

| Run | Instance | What it shows |
|---|---|---|
| `patrol_one` | one patrol, every battery input, explicit cancel, one event in flight, with fairness | adoption, hand-over and latch rules of one patrol, that a cancel is final, and that a patrol sent home by its battery gets home or stops |
| `patrol_replace` | two patrols, the second replaces the first at any moment, failed conversions, one route of another client | the battery, exit and phase rules with the unlocked start in between; a delegated route that has identified itself is the only one that moves the patrol |
| `lease_safe` | two symmetric cockpits and a read-only connection, telemetry, two requests, queues of two, a heartbeat of one tick | exclusive lease, ended with its connection, its loss announced |
| `route_faults` | one route of two waypoints in one window, an action, one retry, clear paths and the holds of a maneuver, one change of manual mode or collision stop | no checkpoint skipped, retries bounded and sent for the pending suffix, no callback raises |
| `route_missions` | two missions of three windows of one waypoint, no retry, goal requests on their way when the operator cancels | late results credit nothing, a confirmed cancel is final, an old goal is on its way out |
| `components` | `MCComponents`: the command chain in the legacy and the canonical setup, and one instance of every component that answers for itself | the chain implements `MotionPermit`; the safety of each component |
| `services` | `MCServices`: goals, startup, tree, screen, requests, recording, trial and profile, with fairness | what services report is so, and what they begin ends |

`MCComponents` and `MCServices` hold many components in one run. A behaviour is
about one of them, named by `part`, which never changes; the others rest. The
states of the run are thus the sum and not the product of the components'
states, and a property is the conjunction of what each component owes, as its
comment lists. In `MCComponents` the command chain, the battery guard and the
components of `ComponentProofs` keep the variables of their modules; the others
share numbered slots through INSTANCE. Nothing about the interaction of two components is claimed by
that; the compositions are `DriveChain`, the coordinator with its executor, the
executor with the command server, zones with the layer, the guard with the
tree, and source with adapter. The instance of `OperatorLease` in there adds to
`lease_safe` services that are not yet discovered.

The other runs are findings: each states what a comment, test or decision
record says and ends in a counterexample.

| Run | What happens |
|---|---|
| `patrol_adopts` | the id of the replaced route is cleared before it is remembered as superseded, so the new patrol adopts it |
| `lease_late` | an operation authorised before service discovery takes effect after the lease changed hands |
| `profile_unrestored` | the component that failed half-way, or was updated late, is neither restored nor named |
| `route_action` | the action of a replaced mission ends and advances the new one past its checkpoints |
| `route_laps` | a loop with interpolated waypoints on its closing leg, in `single_checkpoint` mode: the lap is never counted, and the visits of the second lap are dropped as repetitions |

Properties that hold in their run and not in a larger instance, which TLC shows
when the constants are changed: `CancelIsFinal` and `LatchReachesMission` with
two patrols (a cancel while a replacement waits for its own cancellation; a
battery sample inside the unlocked start), `PhaseEndsOnOwnRoute` with a foreign
route before the own one has identified itself, `CockpitIsTold` with
`SlowState` or a heartbeat timeout of zero (two expiries with equal signatures), `NoUnexpectedConfirmation` with `Switches`,
`EveryVisitCounts` with `single_checkpoint` (the finding) or, with
`PrunesClosure`, when the interpolated waypoints of the closing leg are pruned
before a dispatch, and `CreditIsPhysical` with two missions, no action and one
disturbance: while the first request of the second mission is pending and the goal
of the first still runs, a collision stop makes `_stop_for_recovery`
(`route_executor_node.py:642`) clear the pending request without raising the
floor of the result events, so the old goal's success counts as "causally newer
than this goal request" (line 71) and completes the first window of the new
mission. `NoSkippedCheckpoint` fails with actions also where none outlives its
mission, which takes two disturbances and two attempts: a collision stops a goal
whose request Nav2 has not taken; `_begin_recovery_retry` finds the robot at the
end of the window, completes it and starts its action; then the result of the
stopped goal, aborted with a blocking code, starts another recovery, which
completes the window a second time and advances while the action is answered, and
the completion of the action advances once more.

Weaker than one would wish, and so stated: in `TakeoverReachesGoal` a goal from
RViz that Nav2 accepts between the two sections of a takeover is the exception;
the retained plan is not said to be of the goal that is told, and the odometry is not
said to resume after a fault (below); `KnownPoseIsTrue` trusts a pose read while the head moves; `FreshIsTrue` admits
the transit of the status; `LiveIsSaved` admits the empty document for an
invalid file. `CockpitIsTold` leaves out the cockpits of `missed`: a transition
is put into each queue as any other message, and a queue of answers has no room
for it; and the handler of a client whose queue is full ends with its own answer,
before the broadcast. The docstring of `_broadcast_operator_transition`
(`websocket_server.py:284`) promises that a cockpit never waits for its next
telemetry tick, which holds for all the others.

The snapshot's retained plan. The docstring of `ActivePlanRetention`
(`nav_snapshot_server.py:64`) keeps a plan "only for the navigation action that
produced it", and decision 0004 (lines 59-63) that the retention does not present the
plan of a finished action as current. `update_goal` keeps less: when the telemetry
turns active it latches any plan that is still fresh (lines 89-93), that of the goal
before too, and a goal that replaces another between two samples is no change at all
(line 86). In the instance of the run TLC reaches both: the plan of goal 1 is shown as
retained while the telemetry tells of goal 2, until the plan of goal 2 arrives. So
`NavigationSafe` says what the code does keep: a plan is not drawn more than `MaxAge`
after navigation ended (`PlanEndsWithNavigation`), and one retained past its age was
cached while an active goal was told, or was at most `MaxAge` old when that began
(`RetainedPlanIsRecent`).

Wheel odometry. The telemetry comes every 0.1 s (`controller_server_node.py:75`) and two
samples form a pair if they are at most 0.05 s apart
(`kinematic_ackermann_odometry.py:32`); the instance has the same ratio, a period of
two ticks and a skew of one. One lost traction sample leaves a steering sample waiting;
while traction arrives first, each traction sample then meets the steering sample of the
message before, and `try_integrate` discards both
(`kinematic_ackermann_odometry_domain.py:131-133`). So do the samples of a side that is
late by one period. The odometry does not come back by itself: only a change of the
order of arrival, or a bad sample that clears the side that waits, ends the slip. That an
uneven pair is discarded is what the tests ask for; that the odometry resumes after a
fault is false, and no property says so. `OnlyASlipStopsIt` says that nothing else
stops it. After the clock restarts, stamps of the odometry go back, whatever
`hardware-measurements-and-odometry.md:118` promises of strictly monotone ones.

Bounds. Two loop waypoints are the fewest with a nearest and a farther exit and
a rotation that wraps. One patrol exercises a whole mission, two every
replacement; a third adds no new kind of call, because a call carries only the
number of its mission. Two cockpits are enough for a lease to change hands; two
requests are an unlock and what another connection, or the same one, asks after
it, and the theorems of section 5 hold for any number; the state constraint
`MCReader` keeps the read-only connection, which never owns the lease, to
states with at most one request; a queue of two holds a
replaceable message and an answer, and is full of answers after two. A timeout of one tick
separates fresh from expired. Two profile requests overlap or follow each
other, and three components have one before and one behind the one that fails.
Two waypoints are the fewest with a window of two and with two windows; two
missions give every result an earlier mission to come from. One change of
manual mode or of the collision monitor starts each kind of stop. `MaxCalls`
bounds the calls on their way when another is added to stop the goal. Three
goals give a replaced one and its replacement's replacement. Two gateways and
two operators race for a file; two workers and two domains for a lock. One fault
of a kind (crash, lost message, failed write) is enough to reach every handler
of it, since each handler returns to a state without memory of it; in the
snapshot's instance a plan goes stale while its goal is active (`MaxSnapTime` 3,
`MaxAge` 1), and two revisions of the keepouts are the fewest with a change; frame
streams of seven bytes hold a damaged frame and a whole one. `CHECK_DEADLOCK
FALSE` is set where requests, faults or time are bounded and the system may rest
when they are used up.

Fairness. `PatrolCoordinator`: rclpy keeps running timers, answers and
subscriptions, the executor ends a blocked cancel by its timeout, conversions
end by theirs, and a route that is not paused keeps reaching checkpoints; no
fairness on the operator, the battery or foreign clients. `MCServices`: timers
and threads run (the startup tick, the tree's tick, the telemetry timers, the
recording thread, the handlers of the asyncio loop and the threads of `_apply`,
whose every wait has a deadline), deadlines pass, and Nav2 answers a goal and
ends one it was asked to cancel. None on operators, faults, late updates, or
answers that a deadline covers. As `part` never changes, one fairness condition
takes up one action of each service.

## 5. Proofs

`PatrolProofs` proves, for every valid mission and any bounds, `PatrolTypeOK`,
`LowBatteryNeverPatrols` and `ReturnLeavesAtNearestExit`. The inductive
invariant is `IInv`: the types, the rule `MachineOK` for the machine in force
(no latched battery in PATROL, an exit that is nearest in EXIT_LOOP and
RETURN_HOME), and the same rule for the machine that a thread inside the
unlocked `_start_spec` has built and not yet installed: without that conjunct
the assignment step is not inductive. Each operation of the machine has a lemma,
each group of actions one more, and `ExitIsNearest` rests on the
well-foundedness of the naturals.

The other theorems about the patrol need to know who holds what.
`PhasesNeverGoBack` and `IdentifiedRouteDecides` hold for any number of patrols,
replacements and foreign routes. `IdsOK` says that the number of a patrol is in
one place only: the preparation, a replacing call, a thread that has not
installed its machine, or the machine itself; so no machine is started twice.
`DelegatedOK` and `UnsentOK` say that a patrol that has not started has no route
anywhere, and which indices a dispatched route was given.

`CancelEndsThePatrol` and `LatchIsNeverMissed` assume `~OperatorReplaces`. A
replacing call survives the cancel that comes while it waits for its own
cancellation, and `_start_spec` clears, evaluates and assigns without the lock, so
a sample in between is latched in the policy and not in the mission; TLC shows
both when the constant is changed. `OnlyOwnRoutesAdopted`, `LoopStopsBeforeReturn`
and `OwnRouteEndsEveryPhase` assume `Alone`: one patrol, and no route of another
client. `patrol_adopts` is the counterexample with a second patrol. Their
invariant `AloneInv` relates the newest route of the executor to what the
coordinator knows: it is the superseded one or the next, at most one more is on
its way, polls are never older than the adopted id, and between the cancel of the
loop and the dispatch of the return nothing can start.

`LeaseProofs` proves, for any clients, timeout, capacity and number of requests,
`LeaseTypeOK`, `LockAndLeaseAgree`, `GhostsNeverOwn`, `LeaseNeverStolen` and
`HolderDrives`. The inductive invariant adds to the types and the two invariants
which connections may still have requests and suspended handlers: a closed
connection keeps both until its `finally`, and the lease must not outlive that.
`HolderDrives` assumes that every service is known; `lease_late` shows that it
does not hold otherwise.

`CockpitsAreTold` rests on lemmas about `ClientOutbox.put` (`WaysToPut`,
`PutPlaces`: a queue stays bounded and has at most one message of each
replaceable kind, so the last one of a kind is the only one). The invariant
`Told` says for every cockpit that believes to be in control and is not: its
queue holds the correction, or an announcement is certain (`Announced`: a handler
or the watchdog is on its way to broadcast, or the lease has lapsed since the
watchdog last looked and its next look differs). It assumes `Prompt`:
`initial_state` answers within a tick, and the heartbeat timeout is at least one
tick. `operator_guard.py:40` accepts any positive timeout; the default of 2.5 s is
ten sleeps of the watchdog. Without `Prompt` a lock, an expiry, an unlock and
another expiry fit between two looks, which then compare equal signatures.

`ChainProofs` proves that the command chain implements `MotionPermit`
(`ChainKeepsPromise`), that the node ends with the wheels at rest
(`DestroyedNodeStops`), that a takeover is clean (`ChainTakeoverIsClean`, and
`ArbiterTakeoverIsClean` for the arbiter with all its services), and
`DriveTypes`, for any limits, timeouts, periods, messages and failing writes. The
invariant `ChainInv` follows a command to move from the decision to the wheels:
each place that may hold one (the decision, the topic, the node's memory, the
consumer's sample, the setters, the client's state, the frame in the hands of the
transmit thread, the last frame written) bounds the age of its grounds by the
timeouts and periods that lie before it. Their sum is `MotionGrace`, so the
bound is the one the code's parameters give and not one chosen for the proof.
The refinement is proved step by step: every step of the chain moves `MotionPermit`
or leaves it. A takeover needs that a decision made before it is the only one
that can still be published (`TakeoverInv`).

`RouteProofs` proves `RouteStopIsFinal` for routes of any length and windows, any
number of missions and calls. Calls that have not been taken are at the end of
the queue (`QueueOK`), so a cancellation that has been taken has no goal request
behind it, and a cancelled mission sends none (`Silent`). It assumes `~Reordered`:
calls of the two services are taken in the order they were sent. The queue is typed
exactly; the target of the mission only as a natural number, because its bound
rests on the evidence for checkpoints, which is the subject of `CheckpointProofs`.

`RouteOldGoalEnds` is proved from the same assumption, and however long a
cancellation takes. Its invariant `GoalsOK` says what ends an old goal: behind
every request of an earlier mission that is still to be taken stands the newest
request of this mission, or a cancellation; and a running goal of an earlier mission
has a cancellation on its way, or the recovery policy is still in the states it has
from its reset (`Early`: it has stopped nothing yet) and the last call is still to be
taken or this mission's request was refused, an answer that pauses the mission.
The policy leaves these states only with a stop, which puts a cancellation behind
everything (`EarlyObserved`).

`CheckpointProofs` proves, for routes of any length and windows, any number of
missions, calls, retries and disturbances, that no checkpoint is skipped
(`CheckpointsAreNotSkipped`), that a goal is sent for the target and a retry
begins with what has no credit (`RetriesSendPending`), that retries are bounded
and no callback raises (`RetriesAreBounded`), and the exact types
(`RouteTypeOK`). The invariant is `CheckInv`. `Window` says that the window begins
at the target, that what the tracker has seen of it is credited and that its end
is not; `Rest` that the suffix of a retry leaves only credited checkpoints behind;
`Counted` that every goal but the first belongs to an attempt of the policy. These
three are about the mission alone and are not inductive, since `_check_recovery_clears`
moves the target by what was cut off when the suffix was computed: a result
that completes the window in between would make it wrong. `Retries` excludes
that. From `_begin_recovery_retry` until Nav2 takes the goal of the retry nothing
runs and every success has been taken (`Still`, `Late`), because the policy waits
for telemetry that is younger than the stop, and such telemetry tells the
result of the goal that was stopped. `NavOK` adds that a success is published only
after telemetry has told of its goal.
Both hypotheses are needed. With `SlowCancel` a stopped goal still runs when the
retry is sent, and TLC violates `NeverRaises`. With actions the window is left when
the action is answered and not when it is credited, and a recovery may leave it
first (section 4); so these theorems are about routes without waypoint actions
(`HasAction = {}`), and the runs check one with an action.

`CreditIsEarned` adds that within one mission the robot has been at every
checkpoint that is credited (`CreditIsPhysical`). What could be wrong is the
second source of credit: a success of Nav2 credits the rest of the window without a
pose. The invariant is `CreditInv`, `CheckInv` together with `CreditOK`: while a goal
is requested or runs, every success that can still be heard is too old to be
taken (`AllLate`); one that is not too old means that the robot was at the end of
the window; and requested and running goals end where the window ends, also after a
retry has cut off its beginning (`Evidence`). The floor of the results and the
answers Nav2 has given are numbered no higher than its events (`Numbered`).
`DriveOK` says that the robot is where the running goal has taken it, and
that a success and its telemetry are of the same goal. The hypothesis
`MaxMissions <= 1` is needed: with a second mission `_stop_for_recovery` can drop
the request of the new goal while the old one runs, and the old success is taken
for the new window (section 4). `route_missions` checks the property with two
missions, where no disturbance brings this about.

`ServiceProofs` is about the services of `MCServices`. It proves `GoalsSafe` for any number of goals and takeovers
(`NavGoalsSafe`). Its invariant reads off the flags of the newest goal where that
goal is (`NewestGoal`: a caller that resets the guard for it, sent, executing or
ended), says that older goals have ended and newer ones were not sent
(`OtherGoals`), and that an executing goal was passed its cancellation as soon as
a takeover has looked for it (`TakenOver`). The same module proves for any
components, threads and profiles that the profile is restored unless an answer
was doubtful (`ProfileRestored`), that confirmations never raise
(`ProfileNeverRaises`) and that a commit is of the whole profile
(`ProfileCommitsWhole`), all three under `~Switches`: no thread is preempted between
the check and the assignment of `begin`. With `Switches` two threads pass the check
together, and TLC finds a confirmation that raises (`NoUnexpectedConfirmation`,
section 4). Without, at most one thread works on the shared transaction; what
its loop has left is what the transaction has pending, and every component whose
answers can be trusted has the target's value once applied and the active one's
before that and after its rollback (`OneWorks`, `Trusted`).

Each of the other services has an inductive invariant of its own there, and the
theorem about it needs no hypothesis but its module's ASSUME:

- `StartupReadyMeansActive`: whoever says "active" of a node, the node, an answer on
  its way or the coordinator's note, that node has been active since the one
  request (`SaysActive`).
- `TreeFollowsOnWord`, `TreeOnlyAdoptionClears`: the approved path of a wait is one
  that the history has approved (`WaitOK`), and a recovery that may use up an
  attempt has one left (`RetryLeft`), which bounds the attempts.
- `RequestAnswersAreTrue`: where a handler is says what was asked of the robot; once
  it has answered, its code fits what was done and nothing still under way can
  change that (`HandlerAt`, `Fits`).
- `RecordingPromisesKept`: a mission that was last seen running is in the policy and
  in the file, however the two disagree otherwise, and both hold the operator's
  last acknowledged wish; so a restart from the file loses neither.
- `TrialJudgedOnItsOwn`: until the trial's own goal ends, every message under way
  carries the result number the trial started from, and a later number comes with
  the goal's status (`Current`).
- the cockpit's caches, questions and outbox keep their types (`CockpitTypeStep`).

`ServicesTellTheTruth`, `ServicesEarnTheirSteps` and `ServicesTyped` put these
together: the three properties of the run `services`, `ServicesSafe`,
`StepsAreEarned` and `ServicesTypeOK`, hold of `ServicesSpec` for all values of the
constants with `~Switches`, because a step is one of one service's and the others
rest (`ServicesStep`).

`ComponentProofs` proves two invariants of the run `components` and two
conjuncts of its action property `StepsAreOrdered`, for all values of the
constants and with no hypothesis but the named ASSUMEs. `OneComponentMoves` says
that a step of the run is a step of one component and leaves the variables of the
others alone; what each component does is in `ComponentLemmas`, where every
component has an inductive invariant that TLC has checked too.

- `RecordsAreSafe`. *Library*: no operation between its read and its write can
  lose an update, because whoever works holds the lock, and the data it carries
  contains every route of the file at its revision or later (`Succeeds`), except
  the one it deletes; an identifier is below `nextId`, so a new route collides
  with none. `RevisionsOnlyGrow` follows from the same invariant. *Waypoints*: the
  file is what `ToYaml` makes of the last normalised document, and normalising
  and writing agree on what an absent role or an empty action means. *Matrix*: a
  worker between the lock and the unlock holds the lock of its domain in its own
  name (`WorkersHoldTheirDomain`), a simulation of a living worker is in the domain that
  worker holds (`SimsAreOwned`), and a cell is recorded as passed only with the
  summary of an evaluation (`OutcomesAreEarned`). `SelectedDomain` is a free one because the domains are an
  interval (`MatrixAssumption`) and the rotation never leaves it.
- `NavigationIsSafe`. *Keepouts*: what is active or about to be is on disk
  (`LiveIsOnDisk`) unless it is the empty document of an invalid file; what the
  costmap holds was rendered in the last cycle and lies in the region the next one
  clears, whatever arrives between its two locked sections (`MasterIsRendered`), and
  the layer has the live document or is about to get it (`LayerHasTheLive`). *Path policy*: the clock of a far obstacle is never older
  than the run of looks in which it was seen and counts costmaps of that run only
  (`FarIsInTheRun`). *Snapshot*: every plan and every active sample is of a
  time with navigation (`EvidenceIsTrue`), and the plan held for retention came since
  the activity was told, or was recent then (`HeldIsRecent`).
- `BatteryLatchIsEarned`. The counters of the estimator are behind the time for
  which every trusted sample has agreed (`ClocksAreEarned`), a history that the
  code does not keep; the sum of persistence and stale timeout bounds its ages.

Assumptions are the named ASSUMEs on the constants, which TLC evaluates on
every run, and the hypotheses named above; each is a scenario constant, and what
happens without it is said in section 4.

Only model-checked: the liveness properties, which need fairness and ENABLED and
are out of the prover's reach; the decoders of `Framing`, whose claim is about
what a recursion returns for every stream; `AcksAreKept`, which counts the answers
in a queue by a recursive selection (the bound on the queue is proved);
`CreditIsPhysical` with two missions, where it
holds only within the bounds named in section 4; checkpoints and credit of
routes with actions; and what `DevicesSafe`, `TrackingSafe`, `ComponentsTypeOK` and
the other conjuncts of `StepsAreOrdered` say about the components that
`MCComponents` instantiates over its slots. Of `ComponentsTypeOK` the parts about
the command chain and the battery guard are proved (`DriveTypes`, `BatteryInv`).

## 6. Not modelled

Perception (stateless filters over point clouds), the capability profile (a
document validated once), launch files, robot description, smoke tests and
probes. Of the parts that are modelled: floating-point geometry (headings and
curves of routes, polygons, the shape of a maneuver, kinematics, Kalman
filters), the translation of message fields in the gateway, rendering, metrics
of the evaluation, device I/O behind the backends, checksums as such, the file
format of the patrol store, the disabled operator lock and the shutdown of the
web server, the profile service of the route executor.

Hazards that are known and that no property covers: a route whose conversion
fails is dropped after its service said ok, and a patrol that delegated it polls
until an operator acts; `_reject` after a failed replacement clears a preparation
submitted later; `_normalise` drops the closing waypoint after validation, so
the largest valid entry index may point past the end; event ids are drawn
without a lock; a cancellation that outlasts the retry wait; a mission whose
goal aborts with a code that is not blocking stays active without a goal; the
profile change of the executor tests the mission before it waits. A matrix that
is invoked again over an old output directory may take an old `summary.json` for
the result of a trial that never ran; a worker that is killed leaves its
simulation running while its domain is unlocked.
