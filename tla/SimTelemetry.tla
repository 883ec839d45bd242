----------------------------- MODULE SimTelemetry -----------------------------
(***************************************************************************)
(* What the simulated vehicle reports: sim_gazebo_backend.py makes the     *)
(* telemetry of a drive unit out of odometry and steering joints, and      *)
(* controller_server_node.py publishes it.                                 *)
(*                                                                         *)
(* Odometry and joint states come on two topics.  Odometry samples carry   *)
(* the time they were received, joint angles do not: when joint states     *)
(* stop, the last angles stay.  A joint message may name both steering     *)
(* joints, one or none.  Angles are the steering angle a wheel stands for. *)
(***************************************************************************)
EXTENDS Integers

CONSTANTS
    MaxAngle,       \* steering angles are -MaxAngle..MaxAngle
    MaxJointDelta,  \* sim_max_joint_odom_steer_delta_deg
    SimTimeout,     \* sim_telemetry_timeout_s and telemetry_stale_timeout_s
    None,           \* no value
    Orders,         \* commands applied: may drive, emergency stop, speed not 0
    MaxVehicleMoves \* bound: changes of the vehicle's motion

VARIABLES
    body,           \* the vehicle: its steering angle and whether it drives
    odomSample,     \* _latest_odom with its age, or None
    joints,         \* _latest_left_joint_angle_rad, _latest_right_joint_angle_rad
    order,          \* _state: the command being carried out
    override,       \* traction_active_override of the simulated battery
    report,         \* the last DriveTelemetry and the battery sample with it
    vehicleMoves

telemetryVars == <<body, odomSample, joints, order, override, report, vehicleMoves>>

Angles == -MaxAngle..MaxAngle

TelemetryTypeOK ==
    /\ body \in [angle : Angles, moving : BOOLEAN]
    /\ odomSample \in [angle : Angles, moving : BOOLEAN, age : 0..(SimTimeout + 1)] \union {None}
    /\ joints \in [left : Angles \union {None}, right : Angles \union {None}]
    /\ order \in Orders /\ override \in {TRUE, FALSE, None}
    /\ report.steer \in Angles \union {None}

-----------------------------------------------------------------------------
(* steering_angle_from_odom: a standing vehicle has no curvature.          *)
SteeringAngleFromOdom(sample) ==
    IF sample = None \/ ~sample.moving THEN None ELSE sample.angle

(* steering_angle_from_wheel_angles: one joint is enough; two that lean to *)
(* opposite sides may give any angle.                                      *)
SteeringAnglesFromWheels(wheels) ==
    CASE wheels.left = None -> {wheels.right}
      [] wheels.left # None /\ wheels.right = None -> {wheels.left}
      [] OTHER -> IF wheels.left * wheels.right < 0 THEN Angles
                  ELSE {a \in Angles : \/ wheels.left <= a /\ a <= wheels.right
                                       \/ wheels.right <= a /\ a <= wheels.left}

(* Broken variant: the joints are always believed.                         *)
SelectJointsFirst(joint, odom) == IF joint = None THEN odom ELSE joint

(* select_physical_steering_angle_rad: joints, unless odometry disagrees.  *)
SelectPhysicalSteeringAngle(joint, odom) ==
    CASE joint = None -> odom
      [] joint # None /\ odom = None -> joint
      [] OTHER -> IF joint - odom > MaxJointDelta \/ odom - joint > MaxJointDelta
                  THEN odom ELSE joint

(* synthesize_telemetry's pi_fresh.                                        *)
PiFresh == odomSample # None /\ odomSample.age <= SimTimeout

(* Broken variant: a sample of any age is fresh.                           *)
StatusFlagsUnaged(sample) ==
    [ready |-> sample # None, piFresh |-> sample # None,
     estop |-> order.stop, source |-> IF order.drive /\ sample # None THEN "PI" ELSE "NONE"]

(* build_status_flags with what synthesize_telemetry passes.               *)
StatusFlags(sample) ==
    [ready |-> sample # None, piFresh |-> PiFresh,
     estop |-> order.stop, source |-> IF order.drive /\ PiFresh THEN "PI" ELSE "NONE"]

(* _resolve_battery_traction_active: which of the two voltages is shown.   *)
TractionActive ==
    IF override # None THEN override ELSE order.drive /\ ~order.stop /\ order.moves

(* What synthesize_telemetry knows without odometry.                       *)
NoReport == [steer |-> None, flags |-> StatusFlags(None), fresh |-> TRUE, loaded |-> FALSE,
             speedKnown |-> FALSE]

-----------------------------------------------------------------------------
(* SimGazeboBackend.__init__ and start.                                    *)
TelemetryInit ==
    /\ body = [angle |-> 0, moving |-> FALSE] /\ odomSample = None
    /\ joints = [left |-> None, right |-> None]
    /\ order = [drive |-> FALSE, stop |-> FALSE, moves |-> FALSE] /\ override = None
    /\ report = NoReport /\ vehicleMoves = 0

(* The simulated vehicle steers, starts or stops.                          *)
VehicleMoves(angle, moving) ==
    /\ vehicleMoves < MaxVehicleMoves /\ vehicleMoves' = vehicleMoves + 1
    /\ body' = [angle |-> angle, moving |-> moving]
    /\ UNCHANGED <<odomSample, joints, order, override, report>>

(* _on_odom.                                                               *)
OnSimOdom ==
    /\ odomSample' = [angle |-> body.angle, moving |-> body.moving, age |-> 0]
    /\ UNCHANGED <<body, joints, order, override, report, vehicleMoves>>

(* _on_joint_states with the joints the message names.                     *)
OnSimJointStates(named) ==
    /\ joints' = [j \in {"left", "right"} |-> IF j \in named THEN body.angle ELSE joints[j]]
    /\ UNCHANGED <<body, odomSample, order, override, report, vehicleMoves>>

(* Time passes.                                                            *)
OdomAges ==
    /\ odomSample # None /\ odomSample.age <= SimTimeout
    /\ odomSample' = [odomSample EXCEPT !.age = @ + 1]
    /\ UNCHANGED <<body, joints, order, override, report, vehicleMoves>>

(* apply_command.                                                          *)
AppliesOrder(o) ==
    /\ order' = o
    /\ UNCHANGED <<body, odomSample, joints, override, report, vehicleMoves>>

(* _on_set_sim_battery_preset, _on_set_sim_battery_state.                  *)
SetsSimBattery(traction) ==
    /\ override' = traction
    /\ UNCHANGED <<body, odomSample, joints, order, report, vehicleMoves>>

(* get_latest_battery_telemetry: the voltage under load while driving.     *)
BatterySampleLoaded == TractionActive

(* synthesize_telemetry for one reading of the joints.                     *)
SynthesizeTelemetry(joint) ==
    [steer |-> IF odomSample = None THEN None
               ELSE SelectPhysicalSteeringAngle(joint, SteeringAngleFromOdom(odomSample)),
     flags |-> StatusFlags(odomSample),
     fresh |-> odomSample = None \/ odomSample.age <= SimTimeout,
     loaded |-> BatterySampleLoaded,
     speedKnown |-> odomSample # None]

(* The DriveTelemetry part of _telemetry_tick.                             *)
PublishDriveTelemetry ==
    /\ \E joint \in SteeringAnglesFromWheels(joints) : report' = SynthesizeTelemetry(joint)
    /\ UNCHANGED <<body, odomSample, joints, order, override, vehicleMoves>>

TelemetryNext ==
    \/ \E angle \in Angles, moving \in BOOLEAN : VehicleMoves(angle, moving)
    \/ OnSimOdom \/ OdomAges \/ PublishDriveTelemetry
    \/ \E named \in SUBSET {"left", "right"} : OnSimJointStates(named)
    \/ \E o \in Orders : AppliesOrder(o)
    \/ \E traction \in {TRUE, FALSE, None} : SetsSimBattery(traction)

TelemetrySpec == TelemetryInit /\ [][TelemetryNext]_telemetryVars

-----------------------------------------------------------------------------
(* Joint angles never grow old, so odometry has to overrule them: what is  *)
(* reported of a driving vehicle is within the tolerance of the angle the  *)
(* vehicle had when its odometry was taken, and a report that claims the   *)
(* Pi is in control rests on odometry no older than the timeout.           *)
JointStep ==
    (report' # report /\ odomSample # None =>
         /\ odomSample.moving => /\ report'.steer \in Angles
                                 /\ report'.steer - odomSample.angle <= MaxJointDelta
                                 /\ odomSample.angle - report'.steer <= MaxJointDelta
         /\ report'.flags.source = "PI" => odomSample.age <= SimTimeout)
StaleJointsAreOverruled == [][JointStep]_telemetryVars
=============================================================================
