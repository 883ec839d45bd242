---------------------------- MODULE WheelOdometry ----------------------------
(***************************************************************************)
(* From drive telemetry to wheel odometry: legacy_drive_measurement_node   *)
(* splits a telemetry message into a traction and a steering measurement,  *)
(* kinematic_conversion_node converts each to a kinematic input, and       *)
(* kinematic_ackermann_odometry pairs them again and integrates.           *)
(*                                                                         *)
(* The two measurements travel on topics of their own: either may be lost, *)
(* and they arrive in any order relative to each other.  The clock of the  *)
(* telemetry may start again (a simulation is reset).  The three nodes are *)
(* one hop each; the model keeps the queues of the last one.               *)
(***************************************************************************)
EXTENDS Integers, Sequences

CONSTANTS
    Period,         \* the period of the telemetry, in ticks of its clock
    MaxSkew,        \* max_pair_skew_s
    MaxDt,          \* max_dt_s
    MaxStamp,       \* bound: the last stamp of the telemetry
    MaxFaults,      \* bound: measurements lost and telemetry messages that are not good
    MaxQueue,       \* bound: kinematic inputs on their way on a topic
    MaxResets       \* bound: restarts of the clock

VARIABLES
    calibrated,     \* calibration_validated of the converter
    stamp,          \* of the last telemetry message
    traction, steering,     \* kinematic inputs on their way
    odom,           \* baseline_stamp_s, pending_traction, pending_steering
    pose,           \* time integrated and time that has passed
    legacy,         \* ackermann_odometry: _last_stamp_s and the time it integrated
    emitted,        \* stamp of the last odometry message and of its two samples
    whole,          \* telemetry messages in good order since the last fault
    faults, resets

odomVars == <<calibrated, stamp, traction, steering, odom, pose, legacy, emitted, whole, faults, resets>>

Fields == {"position", "linear_velocity"}
NoSample == [stamp |-> 0, status |-> "NONE", available |-> {}, measured |-> {},
             calculated |-> {}, inferred |-> {}]

OdomTypeOK ==
    /\ calibrated \in BOOLEAN /\ stamp \in 0..MaxStamp
    /\ odom.base \in 0..MaxStamp
    /\ odom.traction.stamp \in 0..MaxStamp /\ odom.steering.stamp \in 0..MaxStamp
    /\ pose.integrated \in Nat /\ pose.elapsed \in Nat
    /\ emitted.stamp \in 0..MaxStamp /\ whole \in 0..3
    /\ faults \in 0..MaxFaults /\ resets \in 0..MaxResets

-----------------------------------------------------------------------------
(* _fields of adapt_legacy_drive_sample: the sign of a speed is inferred   *)
(* from the command, an angle is calculated.                               *)
Measurement(s, fresh, valid, field, isInferred) ==
    IF ~valid THEN [NoSample EXCEPT !.stamp = s, !.status = "INVALID"]
    ELSE [stamp |-> s, status |-> IF fresh THEN "OK" ELSE "STALE", available |-> {field},
          measured |-> {}, calculated |-> IF isInferred THEN {} ELSE {field},
          inferred |-> IF isInferred THEN {field} ELSE {}]

(* Every available field has exactly one origin.                           *)
Exhaustive(m) ==
    /\ m.measured \union m.calculated \union m.inferred = m.available
    /\ m.measured \intersect m.calculated = {} /\ m.measured \intersect m.inferred = {}
    /\ m.calculated \intersect m.inferred = {}

(* _convert: without a calibration nothing is available; what was inferred *)
(* stays inferred and the rest is calculated now.                          *)
Convert(m, field) ==
    LET empty(status) == [NoSample EXCEPT !.stamp = m.stamp, !.status = status]
    IN IF ~calibrated THEN empty("UNAVAILABLE")
       ELSE IF m.status # "OK" THEN empty(m.status)
       ELSE IF m.available # {field} \/ ~Exhaustive(m) THEN empty("INVALID")
       ELSE [m EXCEPT !.measured = {}, !.calculated = {field} \ m.inferred]

(* What _on_traction and _on_steering of the converter publish for one.    *)
KinematicInput(s, fresh, valid, field, isInferred) ==
    Convert(Measurement(s, fresh, valid, field, isInferred), field)

(* _consumable.                                                            *)
Consumable(m, field) ==
    m.status = "OK" /\ m.stamp > 0 /\ field \in m.available /\ Exhaustive(m)

-----------------------------------------------------------------------------
OdomInit ==
    /\ calibrated \in BOOLEAN
    /\ stamp = 0 /\ traction = <<>> /\ steering = <<>>
    /\ odom = [base |-> 0, traction |-> NoSample, steering |-> NoSample]
    /\ pose = [integrated |-> 0, elapsed |-> 0]
    /\ legacy = [last |-> 0, integrated |-> 0]
    /\ emitted = [stamp |-> 0, traction |-> 0, steering |-> 0]
    /\ whole = 0 /\ faults = 0 /\ resets = 0

(* ackermann_odometry integrates a fresh telemetry message at once.        *)
OnLegacyTelemetry(s, fresh, speedValid) ==
    legacy' = IF ~speedValid \/ ~fresh THEN legacy
              ELSE [last |-> s,
                    integrated |-> legacy.integrated +
                        IF legacy.last > 0 /\ s - legacy.last \in 1..MaxDt
                        THEN s - legacy.last ELSE 0]

(* A telemetry message passes the adapter and the converter.               *)
OnTelemetry(fresh, speedValid, steerValid) ==
    LET s == stamp + Period
        t == KinematicInput(s, fresh, speedValid, "linear_velocity", TRUE)
        a == KinematicInput(s, fresh, steerValid, "position", FALSE)
        good == fresh /\ speedValid /\ steerValid
    IN /\ s <= MaxStamp /\ stamp' = s
       /\ Len(traction) < MaxQueue /\ Len(steering) < MaxQueue
       /\ good \/ faults < MaxFaults
       /\ faults' = IF good THEN faults ELSE faults + 1
       /\ traction' = Append(traction, t) /\ steering' = Append(steering, a)
       /\ pose' = [pose EXCEPT !.elapsed = @ + Period]
       /\ OnLegacyTelemetry(s, fresh, speedValid)
       /\ whole' = IF t.status = "OK" /\ a.status = "OK"
                   THEN IF whole < 3 THEN whole + 1 ELSE 3 ELSE 0
       /\ UNCHANGED <<calibrated, odom, emitted, resets>>

(* Broken variant: a regression leaves the old time base in place.         *)
BaselineKept(s) == odom.base

(* A regression invalidates the time base, a duplicate does not.           *)
BaselineAfter(s) == IF s < odom.base THEN 0 ELSE odom.base

Larger(a, b) == IF a > b THEN a ELSE b
Apart(a, b) == IF a > b THEN a - b ELSE b - a

(* Broken variant: the samples of a pair stay pending.                     *)
PairKept(t, a) ==
    LET s == Larger(t.stamp, a.stamp)
    IN IF t = NoSample \/ a = NoSample \/ Apart(t.stamp, a.stamp) > MaxSkew
          \/ (odom.base > 0 /\ s <= odom.base)
       THEN /\ odom' = [odom EXCEPT !.traction = t, !.steering = a]
            /\ UNCHANGED <<pose, emitted>>
       ELSE /\ odom' = [base |-> s, traction |-> t, steering |-> a]
            /\ pose' = [pose EXCEPT !.integrated =
                           IF odom.base = 0 \/ s - odom.base > MaxDt THEN @ ELSE @ + (s - odom.base)]
            /\ emitted' = [stamp |-> s, traction |-> t.stamp, steering |-> a.stamp]

(* _pair_if_ready.                                                         *)
Pair(t, a) ==
    LET s == Larger(t.stamp, a.stamp)
    IN IF t = NoSample \/ a = NoSample
       THEN /\ odom' = [odom EXCEPT !.traction = t, !.steering = a]
            /\ UNCHANGED <<pose, emitted>>
       ELSE IF Apart(t.stamp, a.stamp) > MaxSkew
       THEN /\ odom' = [odom EXCEPT !.traction = NoSample, !.steering = NoSample]
            /\ UNCHANGED <<pose, emitted>>
       ELSE IF odom.base > 0 /\ s <= odom.base
       THEN /\ odom' = [base |-> BaselineAfter(s), traction |-> NoSample, steering |-> NoSample]
            /\ UNCHANGED <<pose, emitted>>
       ELSE /\ odom' = [base |-> s, traction |-> NoSample, steering |-> NoSample]
            /\ pose' = [pose EXCEPT !.integrated =
                           IF odom.base = 0 \/ s - odom.base > MaxDt THEN @ ELSE @ + (s - odom.base)]
            /\ emitted' = [stamp |-> s, traction |-> t.stamp, steering |-> a.stamp]

(* _on_traction and _on_steering: an unusable sample only clears its own   *)
(* side.                                                                   *)
OnTraction ==
    /\ traction # <<>> /\ traction' = Tail(traction)
    /\ LET t == Head(traction)
       IN IF Consumable(t, "linear_velocity") THEN Pair(t, odom.steering)
          ELSE odom' = [odom EXCEPT !.traction = NoSample] /\ UNCHANGED <<pose, emitted>>
    /\ UNCHANGED <<calibrated, stamp, steering, legacy, whole, faults, resets>>

OnSteering ==
    /\ steering # <<>> /\ steering' = Tail(steering)
    /\ LET a == Head(steering)
       IN IF Consumable(a, "position") THEN Pair(odom.traction, a)
          ELSE odom' = [odom EXCEPT !.steering = NoSample] /\ UNCHANGED <<pose, emitted>>
    /\ UNCHANGED <<calibrated, stamp, traction, legacy, whole, faults, resets>>

(* A measurement is lost on its way.                                       *)
LosesMeasurement ==
    /\ faults < MaxFaults /\ faults' = faults + 1 /\ whole' = 0
    /\ \/ traction # <<>> /\ traction' = Tail(traction) /\ UNCHANGED steering
       \/ steering # <<>> /\ steering' = Tail(steering) /\ UNCHANGED traction
    /\ UNCHANGED <<calibrated, stamp, odom, pose, legacy, emitted, resets>>

(* The clock of the telemetry starts again.                                *)
ResetsClock ==
    /\ resets < MaxResets /\ resets' = resets + 1
    /\ stamp > 0 /\ stamp' = 0 /\ whole' = 0
    /\ UNCHANGED <<calibrated, traction, steering, odom, pose, legacy, emitted, faults>>

OdomNext ==
    \/ \E f, v, w \in BOOLEAN : OnTelemetry(f, v, w)
    \/ OnTraction \/ OnSteering \/ LosesMeasurement \/ ResetsClock

OdomSpec == OdomInit /\ [][OdomNext]_odomVars

-----------------------------------------------------------------------------
(* What a lost, bad or late measurement or a restarted clock can leave.    *)
(* Once three telemetry messages in a row have come through whole, the     *)
(* odometry is up to date, or a regression has just dropped its time base, *)
(* or it has slipped: the newest sample of one side waits and that of the  *)
(* other side was spent on an older one.  Nothing else stops it.  But a    *)
(* slip does: with a Period above MaxSkew each pair is a message apart and *)
(* both its samples are discarded, until the two sides change their order. *)
Newest(m) == m.stamp = stamp
OnlyASlipStopsIt ==
    whole = 3 /\ traction = <<>> /\ steering = <<>> =>
        \/ emitted.stamp = stamp
        \/ odom.base = 0
        \/ Newest(odom.traction) # Newest(odom.steering)

(* The rover is never moved for time that did not pass, however often the  *)
(* clock restarts.                                                         *)
TimeIsNotInvented ==
    pose.integrated <= pose.elapsed /\ legacy.integrated <= pose.elapsed

(* No sample moves the rover twice: a new message has two new samples.     *)
PairStep ==
    emitted' # emitted /\ resets = 0 =>
        emitted'.traction > emitted.traction /\ emitted'.steering > emitted.steering
SamplesAreUsedOnce == [][PairStep]_odomVars
=============================================================================
