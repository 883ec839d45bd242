---------------------------- MODULE ControlLogic ----------------------------
(***************************************************************************)
(* The pure command policies of salus_control: CmdVelFinal to              *)
(* DesiredCommand (control_logic.py), the shim to VehicleCommand           *)
(* (legacy_vehicle_command.py), the consumer of canonical commands         *)
(* (canonical_command_consumer.py), and what a backend makes of a command  *)
(* state (protocol.py, sim_gazebo_backend.py).                             *)
(*                                                                         *)
(* Speeds, rates and steering are small integers, brakes percentages, and  *)
(* stamps ages in clock ticks (negative: in the future).  The arctangent   *)
(* of the steering law is left out: it is odd, increasing and 0 at 0, and  *)
(* the limits are given in the same unit as the quotient here.             *)
(***************************************************************************)
EXTENDS Integers

CONSTANTS
    MaxSpeed, MaxReverse,       \* max_speed_mps, max_reverse_mps
    Deadband, MinEffective,     \* vx_deadband_mps, vx_min_effective_mps
    SteeringLimit,              \* steering_limit_rad
    OperationalLimit,           \* operational_steering_limit_rad
    ManualLimit,                \* manual_operational_steering_limit_rad
    EstopBrake,                 \* estop_brake_pct
    AutoTimeout,                \* auto_timeout_s, in ticks; valid_for_s as well
    FutureSkew                  \* canonical_max_future_skew_s, in ticks

ASSUME ControlAssumption ==
    /\ MaxSpeed \in Nat /\ MaxReverse \in Nat /\ Deadband \in Nat
    /\ MinEffective \in Nat \ {0}
    /\ SteeringLimit \in Nat \ {0}
    /\ OperationalLimit \in 0 .. SteeringLimit /\ ManualLimit \in 0 .. SteeringLimit
    /\ EstopBrake \in 0 .. 100
    /\ AutoTimeout \in Nat \ {0} /\ FutureSkew \in Nat

Sources == {"UNKNOWN", "AUTO", "MANUAL", "SAFETY"}

Least(a, b) == IF a < b THEN a ELSE b
Greatest(a, b) == IF a > b THEN a ELSE b
Clamp(v, low, high) == Greatest(low, Least(high, v))
Abs(v) == IF v < 0 THEN -v ELSE v
Sign(v) == IF v > 0 THEN 1 ELSE IF v < 0 THEN -1 ELSE 0

-----------------------------------------------------------------------------
(* DesiredCommand, without the fields that are only reported.              *)
Commands ==
    [drive : BOOLEAN, estop : BOOLEAN, speed : -MaxReverse .. MaxSpeed,
     steer : -SteeringLimit .. SteeringLimit, brake : 0 .. 100]

SafeCommand ==
    [drive |-> FALSE, estop |-> FALSE, speed |-> 0, steer |-> 0, brake |-> 0]

EffectiveSteeringLimit(source) ==
    IF source = "MANUAL" THEN ManualLimit ELSE OperationalLimit

(* The speed divided by, or the fallback for a rate without speed.         *)
ReferenceSpeed(linear) ==
    IF Abs(linear) <= Deadband THEN MinEffective ELSE linear

AckermannSteer(linear, angular, source) ==
    LET ref == ReferenceSpeed(linear)
        requested == Sign(angular) * Sign(ref) * (Abs(angular) \div Abs(ref))
        limit == EffectiveSteeringLimit(source)
    IN  Clamp(requested, -limit, limit)

LimitedSpeed(linear) ==
    LET bounded == IF linear > 0 THEN Least(linear, MaxSpeed)
                   ELSE -Least(-linear, MaxReverse)
    IN  IF Abs(bounded) < Deadband THEN 0 ELSE bounded

(* A brake is an emergency stop on this path.                              *)
CommandFromCmdVel(m, autoDrive) ==
    LET brake == Clamp(m.brake, 0, 100)
        stopped == brake > 0
    IN  [drive |-> autoDrive,
         estop |-> stopped,
         speed |-> IF stopped THEN 0 ELSE LimitedSpeed(m.linear),
         steer |-> IF stopped THEN 0 ELSE AckermannSteer(m.linear, m.angular, m.source),
         brake |-> brake]

(* Broken variant: a command is good for ever.                             *)
SelectEffectiveCommandOfAnyAge(cmd, age) == cmd

(* select_effective_command and the e-stop rewriting of _control_tick.     *)
SelectEffectiveCommand(cmd, age) ==
    LET selected == IF age <= AutoTimeout THEN cmd ELSE SafeCommand
    IN  IF selected.estop
        THEN [SafeCommand EXCEPT !.estop = TRUE,
                                 !.brake = Greatest(selected.brake, EstopBrake)]
        ELSE selected

-----------------------------------------------------------------------------
(* VehicleCommand as the shim publishes it; its stamp is now.              *)
TranslateLegacyCommand(m, autoDrive) ==
    IF ~m.finite \/ m.source \notin Sources
    THEN [age |-> 0, wellFormed |-> TRUE, validFor |-> AutoTimeout,
          drive |-> FALSE, estop |-> TRUE, speed |-> 0, steer |-> 0, brake |-> 100]
    ELSE LET desired == CommandFromCmdVel(m, autoDrive)
         IN  [age |-> 0, wellFormed |-> TRUE, validFor |-> AutoTimeout,
              drive |-> desired.drive, estop |-> desired.estop,
              speed |-> desired.speed, steer |-> desired.steer, brake |-> desired.brake]

SafeEffective ==
    [valid |-> FALSE, drive |-> FALSE, estop |-> TRUE, speed |-> 0, steer |-> 0, brake |-> 100]

Validity(sample) == Least(sample.validFor, AutoTimeout)

(* _invalid_reason.  wellFormed stands for finite fields, a known source   *)
(* and a positive stamp; lastAge is the age of the last accepted stamp.    *)
Acceptable(sample, stamped, lastAge) ==
    /\ sample.wellFormed
    /\ stamped => sample.age < lastAge
    /\ -sample.age <= FutureSkew
    /\ sample.validFor > 0
    /\ sample.age <= Validity(sample)
    /\ sample.brake \in 0 .. 100
    /\ sample.speed \in -MaxReverse .. MaxSpeed
    /\ Abs(sample.steer) <= SteeringLimit

(* The effective command of an accepted sample.                            *)
Inhibited(sample) ==
    LET inhibited == sample.estop \/ ~sample.drive
    IN  [valid |-> TRUE,
         drive |-> sample.drive /\ ~sample.estop,
         estop |-> sample.estop,
         speed |-> IF inhibited \/ sample.brake > 0 THEN 0 ELSE sample.speed,
         steer |-> IF inhibited THEN 0 ELSE sample.steer,
         brake |-> IF sample.estop THEN 100 ELSE sample.brake]

DesiredFromCanonical(e) ==
    [drive |-> e.drive, estop |-> e.estop, speed |-> e.speed,
     steer |-> Clamp(e.steer, -SteeringLimit, SteeringLimit), brake |-> Clamp(e.brake, 0, 100)]

-----------------------------------------------------------------------------
(* The seven bytes for the ESP32, without version and checksum.            *)
EncodePiFrame(s) ==
    [drive |-> s.drive, estop |-> s.estop, reverse |-> s.speed < 0,
     speed |-> Abs(s.speed), steer |-> s.steer, brake |-> s.brake]

IdleFrame == EncodePiFrame(SafeCommand)

(* The Twist for Gazebo: nothing at all when a flag or a brake forbids it. *)
GazeboTwist(s) ==
    IF ~s.drive \/ s.estop \/ s.brake > 0 THEN IdleFrame
    ELSE [EncodePiFrame(s) EXCEPT !.brake = 0]

(* What makes the vehicle move, the brake aside.                           *)
Moves(f) == f.drive /\ ~f.estop /\ f.speed # 0
=============================================================================
