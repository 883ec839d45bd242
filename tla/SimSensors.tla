------------------------------ MODULE SimSensors ------------------------------
(***************************************************************************)
(* The simulated sensors: sim_drive_sensor_adapter.py (wheels, steering),  *)
(* sim_gps_normalizer.py with gps_profiles.py, and sim_imu_from_odom.py.   *)
(*                                                                         *)
(* Each takes the perfect measurement of the simulator, loses some, delays *)
(* the rest and publishes them when simulation time has reached their      *)
(* deadline.  Simulation time goes back when a trial is reset; messages    *)
(* that were on their way then still arrive.                               *)
(***************************************************************************)
EXTENDS Integers, FiniteSets

CONSTANTS
    Devices,        \* the sensors considered, of "drive", "gps", "imu"
    MaxSimTime,     \* bound: simulation time
    MaxDelay,       \* latency plus jitter
    MaxPending,     \* max_pending, max_pending_samples
    FixPeriod,      \* 1 / rate_hz of the receiver
    QualityPeriod, DegradedFor,     \* quality_transition_period_s, quality_degraded_duration_s
    Dropouts,       \* stamps inside forced_dropout_windows_s
    MaxRollbacks,   \* bound: trials that reset the clock
    MaxSamples      \* bound: samples queued or on their way

VARIABLES
    device,         \* which node this is
    simTime,        \* the simulation clock
    onWay,          \* stamps of measurements on their way to the node
    pendingSamples, \* _pending, _odom_queue and _joint_queue
    sequence,       \* _sequence
    lastClock,      \* _last_clock_s, -1 for None
    lastFix,        \* last_publish_ns, -1 before the first
    polled,         \* has the timer fired since time last moved?
    out,            \* what the last step published
    rollbacks

sensorVars == <<device, simTime, onWay, pendingSamples, sequence, lastClock, lastFix, polled, out,
                rollbacks>>

Channels == IF device = "drive" THEN {"odom", "joint"} ELSE {device}
Qualities == {"rtk_fixed", "degraded"}

SensorsTypeOK ==
    /\ device \in Devices /\ simTime \in 0..MaxSimTime /\ rollbacks \in 0..MaxRollbacks
    /\ lastClock \in -1..MaxSimTime /\ lastFix \in -1..MaxSimTime
    /\ \A c \in Channels : Cardinality({p \in pendingSamples : p.channel = c}) <= MaxPending
    /\ \A p \in pendingSamples \union out :
         p.quality \in Qualities /\ p.due \in p.stamp..(p.stamp + MaxDelay)

(* SimGpsProfile.__post_init__: profiles that are refused are not run.     *)
ReceiverProfileIsValid ==
    /\ FixPeriod \in Nat /\ QualityPeriod \in Nat /\ DegradedFor \in Nat
    /\ QualityPeriod > 0 => DegradedFor <= QualityPeriod

(* _validate_profile: latency and jitter are not negative.                 *)
DriveProfileIsValid == MaxDelay \in Nat /\ MaxPending \in Nat \ {0}

(* SimGpsProfile.quality_at.                                               *)
QualityAt(stamp) ==
    IF QualityPeriod > 0 /\ stamp % QualityPeriod >= QualityPeriod - DegradedFor
    THEN "degraded" ELSE "rtk_fixed"

(* in_forced_dropout; the drive has no such windows.                       *)
InForcedDropout(stamp) == device # "drive" /\ stamp \in Dropouts

-----------------------------------------------------------------------------
(* SimGpsFixProcessor.__init__: nothing is queued.                         *)
NothingQueued == pendingSamples = {} /\ sequence = 0 /\ lastClock = -1 /\ lastFix = -1

(* The nodes' __init__.                                                    *)
GpsStarts == device = "gps" /\ NothingQueued
ImuStarts == device = "imu" /\ NothingQueued
DriveStarts == device = "drive" /\ NothingQueued

SensorsInit ==
    /\ ReceiverProfileIsValid /\ DriveProfileIsValid
    /\ device \in Devices /\ (GpsStarts \/ ImuStarts \/ DriveStarts)
    /\ simTime = 0 /\ onWay = {} /\ polled = FALSE /\ out = {} /\ rollbacks = 0

(* The simulator publishes a measurement.                                  *)
Measures ==
    /\ sequence + Cardinality(onWay) < MaxSamples /\ [stamp |-> simTime, trial |-> rollbacks] \notin onWay
    /\ onWay' = onWay \union {[stamp |-> simTime, trial |-> rollbacks]}
    /\ out' = {}
    /\ UNCHANGED <<device, simTime, pendingSamples, sequence, lastClock, lastFix, polled, rollbacks>>

(* Simulation time moves on, slower than the timer polls.                  *)
SimTimePasses ==
    /\ simTime < MaxSimTime /\ polled
    /\ simTime' = simTime + 1 /\ polled' = FALSE /\ out' = {}
    /\ UNCHANGED <<device, onWay, pendingSamples, sequence, lastClock, lastFix, rollbacks>>

(* A trial ends and the next one starts with the clock at zero.            *)
ClockRollsBack ==
    /\ rollbacks < MaxRollbacks /\ simTime > 0
    /\ simTime' = 0 /\ rollbacks' = rollbacks + 1 /\ polled' = FALSE /\ out' = {}
    /\ UNCHANGED <<device, onWay, pendingSamples, sequence, lastClock, lastFix>>

(* Broken variant: what was scheduled in the trial before stays queued.    *)
ClockObservedKeeping == [pending |-> pendingSamples, lastFix |-> lastFix]

(* What _observe_clock leaves of the queues and of the rate limit.         *)
ClockObserved ==
    IF lastClock # -1 /\ simTime < lastClock
    THEN [pending |-> {}, lastFix |-> -1]
    ELSE [pending |-> pendingSamples, lastFix |-> lastFix]

(* heapq: the sample with the earliest deadline, then the oldest.          *)
First(samples) ==
    CHOOSE p \in samples : \A q \in samples : \/ p.due < q.due
                                              \/ p.due = q.due /\ p.seq <= q.seq

(* Samples whose deadline has come.                                        *)
Ready(samples) == {p \in samples : p.due <= simTime}

(* _SimTimeQueue.push: a full queue gives up its earliest sample.          *)
PushEvicting(samples, p) ==
    LET mine == {q \in samples : q.channel = p.channel} \union {p}
    IN IF Cardinality(mine) > MaxPending
       THEN (samples \union {p}) \ {First(mine)}
       ELSE samples \union {p}

(* _schedule of the receiver, process of the IMU: a full queue refuses.    *)
PushUnlessFull(samples, p) ==
    IF Cardinality(samples) < MaxPending THEN samples \union {p} ELSE samples

(* _make_fix, _make_imu, process_odom, process_joint_states: the copy keeps*)
(* the stamp; its covariance tells the quality of that moment.             *)
MakeSample(stamp, delay, channel) ==
    [stamp |-> stamp, due |-> stamp + delay, seq |-> sequence, channel |-> channel,
     quality |-> QualityAt(stamp), at |-> simTime]

(* Broken variant: the status of the moment of publication.                *)
PublishedAsOfNow(samples) ==
    {[stamp |-> p.stamp, due |-> p.due, quality |-> p.quality, at |-> p.at,
      status |-> QualityAt(simTime)] : p \in samples}

(* _publish: the RTK status published with a fix.                          *)
Published(samples) ==
    {[stamp |-> p.stamp, due |-> p.due, quality |-> p.quality, at |-> p.at,
      status |-> QualityAt(p.stamp)] : p \in samples}

(* SimGpsFixProcessor's rate limit.                                        *)
TooSoon(stamp, last) == device = "gps" /\ FixPeriod > 0 /\ last >= 0 /\ stamp - last < FixPeriod

(* SimGpsFixProcessor.process on the queue: rate, dropout, scheduling.     *)
ProcessFix(stamp, lose, delay) ==
    LET seen == ClockObserved
        soon == TooSoon(stamp, seen.lastFix)
        dropped == soon \/ lose \/ InForcedDropout(stamp)
    IN [pending |-> IF dropped THEN seen.pending
                    ELSE PushUnlessFull(seen.pending, MakeSample(stamp, delay, "gps")),
        lastFix |-> IF soon THEN seen.lastFix ELSE stamp,
        sequence |-> IF dropped THEN sequence ELSE sequence + 1]

(* SimImuProcessor.process: a full queue takes no number either.           *)
ProcessImu(stamp, lose, delay) ==
    LET seen == ClockObserved
        refused == lose \/ InForcedDropout(stamp) \/ Cardinality(seen.pending) >= MaxPending
    IN [pending |-> IF refused THEN seen.pending
                    ELSE seen.pending \union {MakeSample(stamp, delay, "imu")},
        lastFix |-> seen.lastFix,
        sequence |-> IF refused THEN sequence ELSE sequence + 1]

(* What a callback does with the processed queue: what is ready goes out.  *)
Delivers(result) ==
    /\ lastClock' = simTime /\ lastFix' = result.lastFix /\ sequence' = result.sequence
    /\ out' = Published(Ready(result.pending))
    /\ pendingSamples' = result.pending \ Ready(result.pending)

(* SimGpsNormalizer.on_fix.                                                *)
OnFix(m, lose, delay) ==
    /\ device = "gps" /\ m \in onWay /\ onWay' = onWay \ {m}
    /\ Delivers(ProcessFix(m.stamp, lose, delay))
    /\ UNCHANGED <<device, simTime, polled, rollbacks>>

(* SimImuFromOdomNode._on_odom.                                            *)
OnOdomForImu(m, lose, delay) ==
    /\ device = "imu" /\ m \in onWay /\ onWay' = onWay \ {m}
    /\ Delivers(ProcessImu(m.stamp, lose, delay))
    /\ UNCHANGED <<device, simTime, polled, rollbacks>>

(* SimDriveSensorProcessor.process_odom: perturbs the speed, or drops.     *)
ProcessOdom(stamp, lose, delay) ==
    IF lose THEN ClockObserved.pending
    ELSE PushEvicting(ClockObserved.pending, MakeSample(stamp, delay, "odom"))

(* SimDriveSensorProcessor.process_joint_states.                           *)
ProcessJointStates(stamp, lose, delay) ==
    IF lose THEN ClockObserved.pending
    ELSE PushEvicting(ClockObserved.pending, MakeSample(stamp, delay, "joint"))

(* SimDriveSensorAdapterNode._on_odom, _on_joint_states: a sample is only  *)
(* queued, the timer sends it.                                             *)
OnDriveMeasurement(m, lose, delay) ==
    /\ device = "drive" /\ m \in onWay /\ onWay' = onWay \ {m}
    /\ lastClock' = simTime /\ out' = {}
    /\ \/ pendingSamples' = ProcessOdom(m.stamp, lose, delay)
       \/ pendingSamples' = ProcessJointStates(m.stamp, lose, delay)
    /\ sequence' = IF lose THEN sequence ELSE sequence + 1
    /\ UNCHANGED <<device, simTime, lastFix, polled, rollbacks>>

(* _release_ready of the three nodes.                                      *)
ReleaseReady ==
    /\ polled' = TRUE
    /\ Delivers([pending |-> ClockObserved.pending, lastFix |-> ClockObserved.lastFix,
                 sequence |-> sequence])
    /\ UNCHANGED <<device, simTime, onWay, rollbacks>>

SensorsNext ==
    \/ Measures \/ SimTimePasses \/ ClockRollsBack \/ ReleaseReady
    \/ \E m \in onWay, lose \in BOOLEAN, delay \in 0..MaxDelay :
         OnFix(m, lose, delay) \/ OnOdomForImu(m, lose, delay) \/ OnDriveMeasurement(m, lose, delay)

SensorsSpec == SensorsInit /\ [][SensorsNext]_sensorVars

-----------------------------------------------------------------------------
(* A trial starts with nothing of the one before it: once a node has seen  *)
(* the clock go back, no sample it queued at a later time is still waiting *)
(* or goes out, nothing goes out before its deadline, and the RTK status   *)
(* that accompanies a fix is the one its covariance stands for.            *)
TrialsAreSeparate ==
    /\ \A p \in pendingSamples : p.at <= lastClock
    /\ \A p \in out : p.due <= simTime /\ p.at <= simTime /\ p.status = p.quality
=============================================================================
