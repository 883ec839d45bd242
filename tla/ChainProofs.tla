----------------------------- MODULE ChainProofs -----------------------------
(***************************************************************************)
(* Proofs about the command chain, for any limits, timeouts and periods:   *)
(* DriveChain implements MotionPermit, the node ends with the wheels at    *)
(* rest, and a takeover lets at most one automatic command through.        *)
(*                                                                         *)
(* The inductive invariant follows a command to move from the decision to  *)
(* the wheels.  Every place on the way that may hold one (the decision,    *)
(* the topic, the node's memory, the state of the client, the frame in the *)
(* hands of the transmit thread, the last frame written) bounds the age of *)
(* the grounds by the timeouts and periods that lie before it.             *)
(***************************************************************************)
EXTENDS DriveChain, TLAPS

-----------------------------------------------------------------------------
(* The pure policies of ControlLogic.                                      *)

LEMMA ClampRange ==
    ASSUME NEW v \in Int, NEW low \in Int, NEW high \in Int, low <= high
    PROVE  /\ Clamp(v, low, high) \in low .. high
           /\ low <= 0 /\ 0 <= high /\ v = 0 => Clamp(v, low, high) = 0
BY DEF Clamp, Greatest, Least

(* What a message on /cmd_vel_final may be.                                *)
FinalMessages ==
    [linear : Int, angular : Int, brake : 0 .. 100, source : {"AUTO", "MANUAL", "SAFETY"},
     finite : {TRUE}]

LEMMA SteerInRange ==
    ASSUME NEW linear \in Int, NEW angular \in Int, NEW source
    PROVE  AckermannSteer(linear, angular, source) \in -SteeringLimit .. SteeringLimit
<1> DEFINE ref == ReferenceSpeed(linear)
<1> DEFINE quotient == Abs(angular) \div Abs(ref)
<1> DEFINE requested == Sign(angular) * Sign(ref) * quotient
<1> DEFINE limit == EffectiveSteeringLimit(source)
<1>1. ref \in Int /\ ref # 0
    BY ControlAssumption DEF ReferenceSpeed, Abs
<1>2. Abs(angular) \in Nat /\ Abs(ref) \in Nat \ {0}
    BY <1>1 DEF Abs
<1>3. quotient \in Int
    BY <1>2
<1>4. Sign(angular) * Sign(ref) \in {-1, 0, 1}
    BY <1>1 DEF Sign
<1>5. requested \in Int
    BY <1>3, <1>4
<1>6. limit \in 0 .. SteeringLimit
    BY ControlAssumption DEF EffectiveSteeringLimit
<1> HIDE DEF requested, limit
<1>7. Clamp(requested, -limit, limit) \in -limit .. limit
    <2>1. -limit \in Int /\ limit \in Int /\ -limit <= limit
        BY <1>6, ControlAssumption
    <2> QED  BY <1>5, <2>1, ClampRange
<1>8. Clamp(requested, -limit, limit) \in -SteeringLimit .. SteeringLimit
    BY <1>6, <1>7, ControlAssumption
<1> QED  BY <1>8 DEF AckermannSteer, requested, limit

LEMMA LimitedSpeedRange ==
    ASSUME NEW linear \in Int
    PROVE  /\ LimitedSpeed(linear) \in -MaxReverse .. MaxSpeed
           /\ linear >= 0 => LimitedSpeed(linear) >= 0
           /\ linear <= 0 => LimitedSpeed(linear) <= 0
BY ControlAssumption DEF LimitedSpeed, Least, Abs

(* A message becomes a command; one with speed asks to move if driving is  *)
(* allowed at all.                                                         *)
LEMMA CommandFromMessage ==
    ASSUME NEW m \in FinalMessages, NEW may \in BOOLEAN
    PROVE  LET c == CommandFromCmdVel(m, may)
           IN  /\ c \in Commands
               /\ c.drive = may
               /\ c.speed # 0 => ~c.estop
<1> DEFINE c == CommandFromCmdVel(m, may)
<1>1. m.linear \in Int /\ m.angular \in Int /\ m.brake \in 0 .. 100
    BY DEF FinalMessages
<1>2. Clamp(m.brake, 0, 100) \in 0 .. 100
    BY <1>1 DEF Clamp, Greatest, Least
<1>3. LimitedSpeed(m.linear) \in -MaxReverse .. MaxSpeed
    BY <1>1, LimitedSpeedRange
<1>4. AckermannSteer(m.linear, m.angular, m.source) \in -SteeringLimit .. SteeringLimit
    BY <1>1, SteerInRange
<1>5. 0 \in -MaxReverse .. MaxSpeed /\ 0 \in -SteeringLimit .. SteeringLimit
    BY ControlAssumption
<1>6. c.drive = may /\ c.estop = (Clamp(m.brake, 0, 100) > 0)
    BY DEF CommandFromCmdVel
<1>7. c.speed # 0 => ~c.estop
    BY DEF CommandFromCmdVel
<1>8. c.speed \in -MaxReverse .. MaxSpeed /\ c.steer \in -SteeringLimit .. SteeringLimit
      /\ c.brake \in 0 .. 100 /\ c.drive \in BOOLEAN /\ c.estop \in BOOLEAN
    BY <1>2, <1>3, <1>4, <1>5 DEF CommandFromCmdVel
<1>9. c = [drive |-> c.drive, estop |-> c.estop, speed |-> c.speed, steer |-> c.steer,
           brake |-> c.brake]
    BY DEF CommandFromCmdVel
<1> HIDE DEF c
<1>10. c \in Commands
    BY <1>8, <1>9 DEF Commands
<1> QED  BY <1>6, <1>7, <1>10 DEF c

LEMMA SafeIsSafe ==
    /\ SafeCommand \in Commands /\ ~SafeCommand.drive /\ SafeCommand.speed = 0
    /\ ~Moves(EncodePiFrame(SafeCommand))
<1>1. 0 \in -MaxReverse .. MaxSpeed /\ 0 \in -SteeringLimit .. SteeringLimit /\ 0 \in 0 .. 100
    BY ControlAssumption
<1>2. SafeCommand \in Commands
    BY <1>1 DEF SafeCommand, Commands
<1>3. ~Moves(EncodePiFrame(SafeCommand))
    BY DEF SafeCommand, Moves, EncodePiFrame
<1> QED  BY <1>2, <1>3 DEF SafeCommand

(* What moves the vehicle has a speed and may drive.                       *)
LEMMA MovesNeedsSpeed ==
    ASSUME NEW c \in Commands
    PROVE  /\ Moves(EncodePiFrame(c)) <=> c.drive /\ ~c.estop /\ c.speed # 0
           /\ Moves(GazeboTwist(c)) => c.drive /\ ~c.estop /\ c.speed # 0
<1>1. c.speed \in Int
    BY ControlAssumption DEF Commands
<1>2. Abs(c.speed) # 0 <=> c.speed # 0
    BY <1>1 DEF Abs
<1>3. Moves(EncodePiFrame(c)) <=> c.drive /\ ~c.estop /\ c.speed # 0
    BY <1>2 DEF Moves, EncodePiFrame
<1>4. ASSUME Moves(GazeboTwist(c)) PROVE c.drive /\ ~c.estop /\ c.speed # 0
    <2>1. CASE ~c.drive \/ c.estop \/ c.brake > 0
        <3>1. GazeboTwist(c) = EncodePiFrame(SafeCommand)
            BY <2>1 DEF GazeboTwist, IdleFrame
        <3> QED  BY <3>1, <1>4, SafeIsSafe
    <2>2. CASE ~(~c.drive \/ c.estop \/ c.brake > 0)
        BY <2>2, <1>4, <1>2 DEF GazeboTwist, EncodePiFrame, Moves
    <2> QED  BY <2>1, <2>2
<1> QED  BY <1>3, <1>4

-----------------------------------------------------------------------------
(* The inductive invariant.                                                *)

(* A command that moves the vehicle once it is applied in full: whatever   *)
(* has speed stands for motion as soon as the mode allows driving, since   *)
(* the flags are set before the speed.                                     *)
Asks(c) == c.speed # 0 /\ AutoDrive

ChainTypeOK ==
    /\ DriveTypeOK
    /\ seen \in [scan : 0 .. NeverStamped, monitorStop : BOOLEAN, health : PathVerdicts]
    /\ deciding \in FinalMessages \union {NoCommand}
    /\ final = <<>> \/ \E m \in FinalMessages : final = <<m>>
    /\ grounds \in 0 .. MotionGrace + 1

(* Nothing drives in a mode that does not, and a consumer whose sample has *)
(* gone holds no speed.                                                    *)
Flags ==
    /\ auto.cmd.drive => AutoDrive
    /\ applying.cmd.drive => AutoDrive
    /\ desired.drive => AutoDrive
    /\ consumer.effective.drive => AutoDrive
    /\ consumer.effective.speed # 0 =>
         AutoDrive /\ consumer.live /\ consumer.validity <= AutoTimeout

(* The threads of the client in the stages of its life.                    *)
Stages ==
    /\ Backend = "sim" => tx.at = "gone" /\ life \in {"up", "down"}
    /\ life \in {"down", "flushing"} => tx.at = "gone"
    /\ life # "up" => desired = SafeCommand /\ applying.next = Handed

(* A write that failed leaves the frame before it on the wire.             *)
LastFrames ==
    /\ flushed.failed <= flushed.tried
    /\ life \in {"up", "joining"} => flushed.tried = 0 /\ flushed.failed = 0
    /\ life = "flushing" /\ rolling => flushed.failed = flushed.tried
    /\ life = "flushing" /\ flushed.tried > 0 /\ rolling => lost
    /\ life = "down" /\ rolling => lost /\ flushed.failed = SafeFrames

Decided ==
    /\ AsksToMove(deciding) => grounds <= MonitorTimeout
    /\ \A m \in FinalMessages : final = <<m>> /\ AsksToMove(m) => grounds <= MonitorTimeout

Remembered ==
    /\ Asks(auto.cmd) /\ auto.age <= AutoTimeout => grounds <= MonitorTimeout + auto.age
    /\ consumer.effective.speed # 0 /\ consumer.received <= consumer.validity =>
         grounds <= MonitorTimeout + consumer.received

(* While the setters run the old speed may still be there; from the fourth *)
(* one on the speed is the new one.                                        *)
HandedOver ==
    /\ applying.next < Handed /\ Asks(applying.cmd) => grounds <= MonitorTimeout + AutoTimeout
    /\ applying.next \in {4, 5} => desired.speed = Stored(applying.cmd).speed
    /\ Asks(desired) =>
         grounds <= MonitorTimeout + AutoTimeout
                    + (IF applying.next < Handed THEN ControlPeriod ELSE since.control)

Written ==
    /\ tx.at = "write" /\ tx.rolls =>
         grounds <= MonitorTimeout + AutoTimeout + ControlPeriod + since.write
    /\ rolling /\ ~lost =>
         grounds <= MonitorTimeout + AutoTimeout + ControlPeriod + TxPeriod + since.write

ChainInv ==
    ChainTypeOK /\ Flags /\ Stages /\ LastFrames
    /\ Decided /\ Remembered /\ HandedOver /\ Written

-----------------------------------------------------------------------------
(* What a control tick selects, and what is stored of it.                  *)

LEMMA StoredIsSame == ASSUME NEW c \in Commands PROVE Stored(c) = c
<1>1. /\ c.speed \in -MaxReverse .. MaxSpeed /\ c.steer \in -SteeringLimit .. SteeringLimit
      /\ c.brake \in 0 .. 100
    BY DEF Commands
<1>2. /\ Clamp(c.speed, -MaxReverse, MaxSpeed) = c.speed
      /\ Clamp(c.steer, -SteeringLimit, SteeringLimit) = c.steer
      /\ Clamp(c.brake, 0, 100) = c.brake
    BY <1>1, ControlAssumption DEF Clamp, Least, Greatest
<1> QED  BY <1>2 DEF Stored, Commands

LEMMA SelectLegacy ==
    ASSUME NEW c \in Commands, NEW age \in Nat
    PROVE  LET s == SelectEffectiveCommand(c, age)
           IN  /\ s \in Commands
               /\ s.drive => c.drive
               /\ s.speed # 0 => c.speed # 0 /\ age <= AutoTimeout
<1> DEFINE selected == IF age <= AutoTimeout THEN c ELSE SafeCommand
<1>1. selected \in Commands
    BY SafeIsSafe
<1>2. Greatest(selected.brake, EstopBrake) \in 0 .. 100
    BY <1>1, ControlAssumption DEF Greatest, Commands
<1>3. 0 \in -MaxReverse .. MaxSpeed /\ 0 \in -SteeringLimit .. SteeringLimit
    BY ControlAssumption
<1>4. CASE selected.estop
    <2>1. SelectEffectiveCommand(c, age)
            = [drive |-> FALSE, estop |-> TRUE, speed |-> 0, steer |-> 0,
               brake |-> Greatest(selected.brake, EstopBrake)]
        BY <1>4 DEF SelectEffectiveCommand, SafeCommand
    <2> HIDE DEF selected
    <2> QED  BY <2>1, <1>2, <1>3 DEF Commands
<1>5. CASE ~selected.estop
    <2>1. SelectEffectiveCommand(c, age) = selected
        BY <1>5 DEF SelectEffectiveCommand
    <2> QED  BY <2>1, <1>1, SafeIsSafe
<1> QED  BY <1>4, <1>5

Effectives ==
    [valid : BOOLEAN, drive : BOOLEAN, estop : BOOLEAN, speed : -MaxReverse .. MaxSpeed,
     steer : -SteeringLimit .. SteeringLimit, brake : 0 .. 100]

LEMMA SafeEffectiveIsSafe ==
    SafeEffective \in Effectives /\ ~SafeEffective.drive /\ SafeEffective.speed = 0
<1>1. 0 \in -MaxReverse .. MaxSpeed /\ 0 \in -SteeringLimit .. SteeringLimit
    BY ControlAssumption
<1> QED  BY <1>1 DEF SafeEffective, Effectives

LEMMA SelectCanonical ==
    ASSUME NEW e \in Effectives
    PROVE  LET s == DesiredFromCanonical(e)
           IN  s \in Commands /\ s.drive = e.drive /\ s.speed = e.speed
<1>1. /\ Clamp(e.steer, -SteeringLimit, SteeringLimit) = e.steer
      /\ Clamp(e.brake, 0, 100) = e.brake
    BY ControlAssumption DEF Clamp, Least, Greatest, Effectives
<1>2. DesiredFromCanonical(e)
        = [drive |-> e.drive, estop |-> e.estop, speed |-> e.speed, steer |-> e.steer,
           brake |-> e.brake]
    BY <1>1 DEF DesiredFromCanonical
<1> QED  BY <1>2 DEF Commands, Effectives

(* A sample that is accepted was well formed, and so is what is made of it.*)
LEMMA InhibitedRange ==
    ASSUME NEW m \in FinalMessages, NEW age \in Int, NEW well \in BOOLEAN,
           AutoDrive \in BOOLEAN
    PROVE  LET sample == ShimSample(m, age, well)
               e == Inhibited(sample)
           IN  /\ e \in Effectives
               /\ e.drive => AutoDrive
               /\ e.speed # 0 => AsksToMove(m) /\ AutoDrive
               /\ sample.age = age
               /\ Validity(sample) = AutoTimeout
<1> DEFINE c == CommandFromCmdVel(m, AutoDrive)
<1>1. c \in Commands /\ c.drive = AutoDrive /\ (c.speed # 0 => ~c.estop)
    BY CommandFromMessage
<1> DEFINE sample == ShimSample(m, age, well)
<1>2. m.finite /\ m.source \in Sources /\ m # NoCommand
    <2>1. m.source \in {"AUTO", "MANUAL", "SAFETY"} /\ m.finite \in {TRUE}
        BY DEF FinalMessages
    <2>2. NoCommand.source = "none"
        BY DEF NoCommand
    <2> QED  BY <2>1, <2>2, Zenon DEF Sources
<1> HIDE DEF c
<1>4. TranslateLegacyCommand(m, AutoDrive)
        = [age |-> 0, wellFormed |-> TRUE, validFor |-> AutoTimeout, drive |-> c.drive,
           estop |-> c.estop, speed |-> c.speed, steer |-> c.steer, brake |-> c.brake]
    BY <1>2 DEF TranslateLegacyCommand, c
<1>5. /\ sample.age = age /\ sample.validFor = AutoTimeout /\ sample.drive = c.drive
      /\ sample.estop = c.estop /\ sample.speed = c.speed /\ sample.steer = c.steer
      /\ sample.brake = c.brake
    BY <1>4 DEF ShimSample
<1> HIDE DEF sample
<1>6. sample.age = age /\ Validity(sample) = AutoTimeout
    BY <1>5, ChainAssumption, ControlAssumption DEF Validity, Least
<1>7. 0 \in -MaxReverse .. MaxSpeed /\ 0 \in -SteeringLimit .. SteeringLimit
    BY ControlAssumption
<1>8. Inhibited(sample)
        = [valid |-> TRUE, drive |-> c.drive /\ ~c.estop, estop |-> c.estop,
           speed |-> IF (c.estop \/ ~c.drive) \/ c.brake > 0 THEN 0 ELSE c.speed,
           steer |-> IF c.estop \/ ~c.drive THEN 0 ELSE c.steer,
           brake |-> IF c.estop THEN 100 ELSE c.brake]
    BY <1>5 DEF Inhibited
<1>9. Inhibited(sample) \in Effectives
    BY <1>8, <1>7, <1>1 DEF Effectives, Commands
<1>10. ASSUME Inhibited(sample).speed # 0 PROVE AsksToMove(m) /\ AutoDrive
    <2>1. c.drive /\ ~c.estop /\ c.speed # 0
        BY <1>8, <1>10
    <2>2. Moves(EncodePiFrame(c))
        BY <2>1, <1>1, MovesNeedsSpeed
    <2> QED  BY <2>1, <2>2, <1>1, <1>2 DEF AsksToMove, c
<1>11. Inhibited(sample).drive => AutoDrive
    BY <1>8, <1>1
<1> QED  BY <1>6, <1>9, <1>10, <1>11 DEF sample

-----------------------------------------------------------------------------
(* The steps of the controller.                                            *)

LEMMA SixSteps ==
    /\ Handed = 6
    /\ SetterOrder[1] = "drive" /\ SetterOrder[2] = "estop" /\ SetterOrder[3] = "speed"
    /\ SetterOrder[4] = "steer" /\ SetterOrder[5] = "brake"
BY DEF Handed, SetterOrder

LEMMA ChainInitInv == ChainInit => ChainInv
<1> SUFFICES ASSUME ChainInit PROVE ChainInv
    OBVIOUS
<1> USE ControlAssumption, VehicleAssumption, ArbiterAssumption
<1> USE DEF ChainInit, ArbiterInit, DriveInit
<1>1. DriveTypeOK
    <2>1. setup \in AllowedSetups /\ desired \in Commands
        BY SafeIsSafe
    <2>2. auto \in [cmd : Commands, age : 0 .. Forgotten]
        BY SafeIsSafe DEF Forgotten
    <2>3. consumer \in [stamped : BOOLEAN, stamp : Int, live : BOOLEAN,
                       received : 0 .. Forgotten, validity : Int, effective : Effectives]
        BY SafeEffectiveIsSafe DEF NoSample, Forgotten
    <2>4. applying \in [cmd : Commands, next : 1 .. Handed]
        BY SafeIsSafe, SixSteps DEF NothingApplied
    <2>5. /\ since \in [control : 0 .. ControlPeriod, write : 0 .. TxPeriod]
          /\ flushed \in [tried : 0 .. SafeFrames, failed : 0 .. SafeFrames]
          /\ tx \in [at : {"wait", "write", "gone"}, rolls : BOOLEAN]
        BY DEF SafeFrames
    <2> QED  BY <2>1, <2>2, <2>3, <2>4, <2>5 DEF DriveTypeOK, Effectives
<1>2. MotionGrace \in Nat
    BY DEF MotionGrace
<1>3. ChainTypeOK
    BY <1>1, <1>2 DEF ChainTypeOK, NeverStamped, PathVerdicts
<1>4. Flags
    BY SafeIsSafe, SafeEffectiveIsSafe DEF Flags, NoSample, NothingApplied
<1>5. Stages /\ LastFrames
    BY DEF Stages, LastFrames, NothingApplied
<1>6. Decided
    BY DEF Decided, AsksToMove
<1>7. Remembered /\ HandedOver /\ Written
    BY SafeIsSafe, SixSteps, SafeEffectiveIsSafe
    DEF Remembered, HandedOver, Written, Asks, NoSample, NothingApplied
<1> QED  BY <1>3, <1>4, <1>5, <1>6, <1>7 DEF ChainInv

(* What the controller does leaves the decisions of the arbiter alone.     *)
LEMMA QuietArbiter ==
    ASSUME ChainInv, UNCHANGED <<setup, seen, deciding, final, grounds>>, DriveTypeOK'
    PROVE  ChainTypeOK' /\ Decided'
BY DEF ChainInv, ChainTypeOK, Decided, AsksToMove, AutoDrive

LEMMA StartClientInv ==
    ASSUME ChainInv, StartClient, UNCHANGED <<arbiterVars, grounds>>
    PROVE  ChainInv'
<1> USE ControlAssumption, VehicleAssumption, ArbiterAssumption, SafeIsSafe, SixSteps
<1> USE DEF StartClient
<1>1. /\ ChainTypeOK /\ DriveTypeOK /\ Flags /\ Stages /\ LastFrames
      /\ Remembered /\ HandedOver /\ Written
    BY DEF ChainInv, ChainTypeOK
<1>2. DriveTypeOK'
    BY <1>1, SafeEffectiveIsSafe DEF DriveTypeOK, NoSample, NothingApplied, Forgotten, Effectives, SafeFrames, ExecutorIdle
<1>3. ChainTypeOK' /\ Decided'
    BY <1>2, QuietArbiter DEF arbiterVars
<1>4. Flags'
    BY <1>1, SafeEffectiveIsSafe DEF Flags, DriveTypeOK, AutoDrive, NoSample, NothingApplied, ExecutorIdle
<1>5. Stages'
    BY <1>1 DEF Stages, DriveTypeOK, Backend, NothingApplied, ExecutorIdle
<1>6. LastFrames'
    BY <1>1 DEF LastFrames, Stages, DriveTypeOK, SafeFrames, ExecutorIdle, Backend
<1>7. Remembered'
    BY <1>1, SafeEffectiveIsSafe DEF Remembered, DriveTypeOK, Asks, AutoDrive, NoSample, ExecutorIdle
<1>8. HandedOver'
    BY <1>1 DEF HandedOver, DriveTypeOK, Asks, AutoDrive, NothingApplied, ExecutorIdle, Stages
<1>9. Written'
    BY <1>1 DEF Written, DriveTypeOK, Stages, LastFrames, Backend, ExecutorIdle
<1> QED  BY <1>3, <1>4, <1>5, <1>6, <1>7, <1>8, <1>9 DEF ChainInv

(* Each setter writes one field.                                           *)
LEMMA OneField ==
    ASSUME DriveTypeOK, ApplyCommand
    PROVE  /\ desired' \in Commands
           /\ desired'.drive = IF applying.next = 1 THEN applying.cmd.drive ELSE desired.drive
           /\ desired'.speed = IF applying.next = 3 THEN applying.cmd.speed ELSE desired.speed
<1>1. applying.cmd \in Commands /\ applying.next \in 1 .. 6 /\ desired \in Commands
    BY SixSteps DEF DriveTypeOK
<1>2. Stored(applying.cmd) = applying.cmd
    BY <1>1, StoredIsSame
<1>3. applying.next \in {1, 2, 3, 4, 5}
    BY <1>1, SixSteps DEF ApplyCommand
<1>4. desired' = [desired EXCEPT ![SetterOrder[applying.next]]
                                   = applying.cmd[SetterOrder[applying.next]]]
    BY <1>2 DEF ApplyCommand
<1>5. CASE applying.next = 1
    BY <1>1, <1>4, <1>5, SixSteps DEF Commands
<1>6. CASE applying.next = 2
    BY <1>1, <1>4, <1>6, SixSteps DEF Commands
<1>7. CASE applying.next = 3
    BY <1>1, <1>4, <1>7, SixSteps DEF Commands
<1>8. CASE applying.next = 4
    BY <1>1, <1>4, <1>8, SixSteps DEF Commands
<1>9. CASE applying.next = 5
    BY <1>1, <1>4, <1>9, SixSteps DEF Commands
<1> QED  BY <1>3, <1>5, <1>6, <1>7, <1>8, <1>9

LEMMA ApplyCommandInv ==
    ASSUME ChainInv, ApplyCommand, UNCHANGED <<arbiterVars, grounds>>
    PROVE  ChainInv'
<1> USE ControlAssumption, VehicleAssumption, ArbiterAssumption, SafeIsSafe, SixSteps
<1> USE DEF ApplyCommand
<1>1. /\ ChainTypeOK /\ DriveTypeOK /\ Flags /\ Stages /\ LastFrames
      /\ Remembered /\ HandedOver /\ Written
    BY DEF ChainInv, ChainTypeOK
<1>10. applying' \in [cmd : Commands, next : 1 .. Handed]
    BY <1>1 DEF DriveTypeOK, NothingApplied
<1>2. DriveTypeOK'
    BY <1>1, <1>10, OneField DEF DriveTypeOK
<1>3. ChainTypeOK' /\ Decided'
    BY <1>2, QuietArbiter DEF arbiterVars
<1>4. Flags'
    BY <1>1, OneField DEF Flags, DriveTypeOK, AutoDrive, NothingApplied
<1>5. Stages'
    BY <1>1 DEF Stages, DriveTypeOK, Backend, NothingApplied, ExecutorIdle
<1>6. LastFrames'
    BY <1>1 DEF LastFrames, Stages, DriveTypeOK, SafeFrames, ExecutorIdle, Backend
<1>7. Remembered'
    BY <1>1, SafeEffectiveIsSafe DEF Remembered, DriveTypeOK, Asks, AutoDrive, NoSample, ExecutorIdle
<1>11. Stored(applying.cmd) = applying.cmd /\ Stored(applying'.cmd) = applying'.cmd
    BY <1>1, <1>10, StoredIsSame DEF DriveTypeOK
<1>8. HandedOver'
    <2>1. applying.next \in 1 .. 5 /\ since' = since /\ since.control \in 0 .. ControlPeriod
        BY <1>1 DEF DriveTypeOK
    <2>2. /\ applying.next = 5 => applying'.next = 6
          /\ applying.next # 5 => applying' = [applying EXCEPT !.next = applying.next + 1]
        BY <2>1 DEF NothingApplied
    <2>3. /\ applying.next # 5 => applying'.next = applying.next + 1 /\ applying'.cmd = applying.cmd
        BY <1>1, <2>2 DEF DriveTypeOK
    <2>4. AutoDrive' = AutoDrive
        BY DEF AutoDrive
    <2> HIDE DEF ApplyCommand
    <2>5. desired'.speed = IF applying.next = 3 THEN applying.cmd.speed ELSE desired.speed
        BY <1>1, OneField
    <2>6. CASE applying.next = 5
        <3>1. desired'.speed = applying.cmd.speed /\ applying.next < Handed
            BY <1>1, <1>11, <2>5, <2>6 DEF HandedOver
        <3>2. Asks(desired)' => grounds <= MonitorTimeout + AutoTimeout
            <4>1. Asks(desired)' => Asks(applying.cmd)
                BY <2>4, <3>1, Zenon DEF Asks
            <4> QED  BY <1>1, <3>1, <4>1 DEF HandedOver
        <3>3. applying'.next = Handed /\ grounds' = grounds /\ grounds \in Int
            BY <1>1, <2>2, <2>6 DEF ChainTypeOK
        <3>4. Asks(desired)' => grounds' <= MonitorTimeout + AutoTimeout + since'.control
            BY <2>1, <3>2, <3>3
        <3> QED  BY <3>3, <3>4 DEF HandedOver
    <2>7. CASE applying.next # 5
        <3>1. /\ applying'.next = applying.next + 1 /\ applying'.cmd = applying.cmd
              /\ applying.next < Handed /\ applying'.next < Handed
            BY <2>1, <2>3, <2>7
        <3>2. grounds' = grounds /\ grounds \in Int
            BY <1>1 DEF ChainTypeOK
        <3>3. Asks(applying.cmd)' => Asks(applying.cmd)
            BY <2>4, <3>1, Zenon DEF Asks
        <3>4. Asks(desired)' => Asks(applying.cmd) \/ Asks(desired)
            BY <2>4, <2>5, Zenon DEF Asks
        <3>5. applying'.next \in {4, 5} => desired'.speed = applying.cmd.speed
            <4>1. applying.next = 3 => desired'.speed = applying.cmd.speed
                BY <2>5
            <4>2. applying.next = 4 => desired'.speed = applying.cmd.speed
                BY <1>1, <1>11, <2>5 DEF HandedOver
            <4> QED  BY <2>1, <3>1, <4>1, <4>2
        <3>6. Asks(applying.cmd)' => grounds' <= MonitorTimeout + AutoTimeout
            BY <1>1, <3>1, <3>2, <3>3 DEF HandedOver
        <3>7. Asks(desired)' => grounds' <= MonitorTimeout + AutoTimeout + ControlPeriod
            <4>1. Asks(applying.cmd) => grounds <= MonitorTimeout + AutoTimeout
                BY <1>1, <3>1 DEF HandedOver
            <4>2. Asks(desired) => grounds <= MonitorTimeout + AutoTimeout + ControlPeriod
                BY <1>1, <3>1 DEF HandedOver
            <4> QED  BY <3>2, <3>4, <4>1, <4>2
        <3>8. applying'.next \in {4, 5} => desired'.speed = Stored(applying'.cmd).speed
            BY <1>11, <3>1, <3>5
        <3> QED  BY <3>1, <3>6, <3>7, <3>8 DEF HandedOver
    <2> QED  BY <2>6, <2>7
<1>9. Written'
    BY <1>1 DEF Written, DriveTypeOK, Stages, LastFrames, Backend, ExecutorIdle
<1> QED  BY <1>3, <1>4, <1>5, <1>6, <1>7, <1>8, <1>9 DEF ChainInv

(* What the state of the client moves has grounds.                         *)
LEMMA AppliedHasGrounds ==
    ASSUME DriveTypeOK, Flags, HandedOver, grounds \in Int,
           Moves(EncodePiFrame(desired)) \/ Moves(GazeboTwist(desired))
    PROVE  grounds <= MonitorTimeout + AutoTimeout + ControlPeriod
<1>1. desired \in Commands /\ since.control \in 0 .. ControlPeriod
    BY DEF DriveTypeOK
<1>2. desired.drive /\ desired.speed # 0
    BY <1>1, MovesNeedsSpeed
<1>3. Asks(desired)
    BY <1>2, Zenon DEF Flags, Asks
<1> QED
    BY <1>1, <1>3, ControlAssumption, VehicleAssumption, ArbiterAssumption DEF HandedOver

LEMMA TakeSnapshotInv ==
    ASSUME ChainInv, TakeSnapshot, UNCHANGED <<arbiterVars, grounds>>
    PROVE  ChainInv'
<1> USE ControlAssumption, VehicleAssumption, ArbiterAssumption, SafeIsSafe, SixSteps
<1> USE DEF TakeSnapshot
<1>1. /\ ChainTypeOK /\ DriveTypeOK /\ Flags /\ Stages /\ LastFrames
      /\ Remembered /\ HandedOver /\ Written
    BY DEF ChainInv, ChainTypeOK
<1>2. DriveTypeOK'
    BY <1>1, SafeEffectiveIsSafe DEF DriveTypeOK, NoSample, NothingApplied, Forgotten, Effectives, SafeFrames, ExecutorIdle, Moves
<1>3. ChainTypeOK' /\ Decided'
    BY <1>2, QuietArbiter DEF arbiterVars
<1>4. Flags'
    BY <1>1, SafeEffectiveIsSafe DEF Flags, DriveTypeOK, AutoDrive, NoSample, NothingApplied, ExecutorIdle
<1>5. Stages'
    BY <1>1 DEF Stages, DriveTypeOK, Backend, NothingApplied, ExecutorIdle
<1>6. LastFrames'
    BY <1>1 DEF LastFrames, Stages, DriveTypeOK, SafeFrames, ExecutorIdle, Backend
<1>7. Remembered'
    BY <1>1, SafeEffectiveIsSafe DEF Remembered, DriveTypeOK, Asks, AutoDrive, NoSample, ExecutorIdle
<1>8. HandedOver'
    BY <1>1 DEF HandedOver, DriveTypeOK, Asks, AutoDrive, NothingApplied, ExecutorIdle, Stages
<1>10. Moves(EncodePiFrame(desired)) => grounds <= MonitorTimeout + AutoTimeout + ControlPeriod
    BY <1>1, AppliedHasGrounds DEF ChainTypeOK
<1>11. tx'.rolls = Moves(EncodePiFrame(desired))
    BY Zenon
<1>12. rolling' = rolling /\ lost' = lost /\ since' = since /\ since.write \in Nat
    BY <1>1 DEF DriveTypeOK
<1> HIDE DEF TakeSnapshot
<1>9. Written'
    BY <1>1, <1>3, <1>10, <1>11, <1>12 DEF Written, ChainTypeOK
<1> QED  BY <1>3, <1>4, <1>5, <1>6, <1>7, <1>8, <1>9 DEF ChainInv

LEMMA SerialWriteInv ==
    ASSUME ChainInv, NEW ok \in BOOLEAN, SerialWrite(ok), UNCHANGED <<arbiterVars, grounds>>
    PROVE  ChainInv'
<1> USE ControlAssumption, VehicleAssumption, ArbiterAssumption, SafeIsSafe, SixSteps
<1> USE DEF SerialWrite
<1>1. /\ ChainTypeOK /\ DriveTypeOK /\ Flags /\ Stages /\ LastFrames
      /\ Remembered /\ HandedOver /\ Written
    BY DEF ChainInv, ChainTypeOK
<1>2. DriveTypeOK'
    BY <1>1, SafeEffectiveIsSafe DEF DriveTypeOK, NoSample, NothingApplied, Forgotten, Effectives, SafeFrames, ExecutorIdle
<1>3. ChainTypeOK' /\ Decided'
    BY <1>2, QuietArbiter DEF arbiterVars
<1>4. Flags'
    BY <1>1, SafeEffectiveIsSafe DEF Flags, DriveTypeOK, AutoDrive, NoSample, NothingApplied, ExecutorIdle
<1>5. Stages'
    BY <1>1 DEF Stages, DriveTypeOK, Backend, NothingApplied, ExecutorIdle
<1>6. LastFrames'
    BY <1>1 DEF LastFrames, Stages, DriveTypeOK, SafeFrames, ExecutorIdle, Backend
<1>7. Remembered'
    BY <1>1, SafeEffectiveIsSafe DEF Remembered, DriveTypeOK, Asks, AutoDrive, NoSample, ExecutorIdle
<1>8. HandedOver'
    BY <1>1 DEF HandedOver, DriveTypeOK, Asks, AutoDrive, NothingApplied, ExecutorIdle, Stages
<1>10. since'.write = 0 /\ tx'.at = "wait"
    BY <1>1 DEF DriveTypeOK
<1>9. Written'
    <2>1. CASE ok
        <3>1. rolling' = tx.rolls /\ tx.at = "write" /\ since.write \in 0 .. TxPeriod
            BY <1>1, <2>1 DEF DriveTypeOK
        <3> HIDE DEF SerialWrite
        <3> QED  BY <1>1, <1>3, <1>10, <3>1 DEF Written, ChainTypeOK, arbiterVars
    <2>2. CASE ~ok
        BY <1>1, <1>10, <2>2 DEF Written
    <2> QED  BY <2>1, <2>2
<1> QED  BY <1>3, <1>4, <1>5, <1>6, <1>7, <1>8, <1>9 DEF ChainInv

LEMMA PublishCurrentCommandInv ==
    ASSUME ChainInv, PublishCurrentCommand, UNCHANGED <<arbiterVars, grounds>>
    PROVE  ChainInv'
<1> USE ControlAssumption, VehicleAssumption, ArbiterAssumption, SafeIsSafe, SixSteps
<1> USE DEF PublishCurrentCommand
<1>1. /\ ChainTypeOK /\ DriveTypeOK /\ Flags /\ Stages /\ LastFrames
      /\ Remembered /\ HandedOver /\ Written
    BY DEF ChainInv, ChainTypeOK
<1>2. DriveTypeOK'
    BY <1>1, SafeEffectiveIsSafe DEF DriveTypeOK, NoSample, NothingApplied, Forgotten, Effectives, SafeFrames, ExecutorIdle, Moves
<1>3. ChainTypeOK' /\ Decided'
    BY <1>2, QuietArbiter DEF arbiterVars
<1>4. Flags'
    BY <1>1, SafeEffectiveIsSafe DEF Flags, DriveTypeOK, AutoDrive, NoSample, NothingApplied, ExecutorIdle
<1>5. Stages'
    BY <1>1 DEF Stages, DriveTypeOK, Backend, NothingApplied, ExecutorIdle
<1>6. LastFrames'
    BY <1>1 DEF LastFrames, Stages, DriveTypeOK, SafeFrames, ExecutorIdle, Backend
<1>7. Remembered'
    BY <1>1, SafeEffectiveIsSafe DEF Remembered, DriveTypeOK, Asks, AutoDrive, NoSample, ExecutorIdle
<1>8. HandedOver'
    BY <1>1 DEF HandedOver, DriveTypeOK, Asks, AutoDrive, NothingApplied, ExecutorIdle, Stages
<1>10. Moves(GazeboTwist(desired)) => grounds <= MonitorTimeout + AutoTimeout + ControlPeriod
    BY <1>1, AppliedHasGrounds DEF ChainTypeOK
<1>11. rolling' = Moves(GazeboTwist(desired)) /\ tx.at = "gone"
    BY <1>1 DEF Stages
<1> HIDE DEF PublishCurrentCommand
<1>12. since'.write \in Nat /\ tx' = tx /\ lost' = lost
    BY <1>2 DEF DriveTypeOK, PublishCurrentCommand
<1>9. Written'
    BY <1>1, <1>3, <1>10, <1>11, <1>12 DEF Written, ChainTypeOK
<1> QED  BY <1>3, <1>4, <1>5, <1>6, <1>7, <1>8, <1>9 DEF ChainInv

LEMMA StopClientInv ==
    ASSUME ChainInv, StopClient, UNCHANGED <<arbiterVars, grounds>>
    PROVE  ChainInv'
<1> USE ControlAssumption, VehicleAssumption, ArbiterAssumption, SafeIsSafe, SixSteps
<1> USE DEF StopClient
<1>1. /\ ChainTypeOK /\ DriveTypeOK /\ Flags /\ Stages /\ LastFrames
      /\ Remembered /\ HandedOver /\ Written
    BY DEF ChainInv, ChainTypeOK
<1>2. DriveTypeOK'
    <2>1. /\ desired' = SafeCommand /\ life' \in {"down", "joining"}
          /\ rolling' = FALSE \/ rolling' = rolling
          /\ UNCHANGED <<setup, auto, consumer, applying, tx, since, flushed, lost>>
        OBVIOUS
    <2>2. desired' \in Commands
        BY <2>1
    <2>3. rolling' \in BOOLEAN /\ life' \in {"down", "up", "joining", "flushing"}
        BY <1>1, <2>1 DEF DriveTypeOK
    <2> HIDE DEF StopClient
    <2> QED  BY <1>1, <2>1, <2>2, <2>3 DEF DriveTypeOK, Forgotten, SafeFrames
<1>3. ChainTypeOK' /\ Decided'
    BY <1>2, QuietArbiter DEF arbiterVars
<1>4. Flags'
    BY <1>1, SafeEffectiveIsSafe DEF Flags, DriveTypeOK, AutoDrive, NoSample, NothingApplied, ExecutorIdle
<1>5. Stages'
    BY <1>1 DEF Stages, DriveTypeOK, Backend, NothingApplied, ExecutorIdle
<1>6. LastFrames'
    BY <1>1 DEF LastFrames, Stages, DriveTypeOK, SafeFrames, ExecutorIdle, Backend
<1>7. Remembered'
    BY <1>1, SafeEffectiveIsSafe DEF Remembered, DriveTypeOK, Asks, AutoDrive, NoSample, ExecutorIdle
<1>8. HandedOver'
    BY <1>1 DEF HandedOver, DriveTypeOK, Asks, AutoDrive, NothingApplied, ExecutorIdle, Stages
<1>9. Written'
    BY <1>1 DEF Written, DriveTypeOK, Stages, LastFrames, Backend, ExecutorIdle
<1> QED  BY <1>3, <1>4, <1>5, <1>6, <1>7, <1>8, <1>9 DEF ChainInv

LEMMA JoinThreadsInv ==
    ASSUME ChainInv, JoinThreads, UNCHANGED <<arbiterVars, grounds>>
    PROVE  ChainInv'
<1> USE ControlAssumption, VehicleAssumption, ArbiterAssumption, SafeIsSafe, SixSteps
<1> USE DEF JoinThreads
<1>1. /\ ChainTypeOK /\ DriveTypeOK /\ Flags /\ Stages /\ LastFrames
      /\ Remembered /\ HandedOver /\ Written
    BY DEF ChainInv, ChainTypeOK
<1>2. DriveTypeOK'
    BY <1>1, SafeEffectiveIsSafe DEF DriveTypeOK, NoSample, NothingApplied, Forgotten, Effectives, SafeFrames, ExecutorIdle
<1>3. ChainTypeOK' /\ Decided'
    BY <1>2, QuietArbiter DEF arbiterVars
<1>4. Flags'
    BY <1>1, SafeEffectiveIsSafe DEF Flags, DriveTypeOK, AutoDrive, NoSample, NothingApplied, ExecutorIdle
<1>5. Stages'
    BY <1>1 DEF Stages, DriveTypeOK, Backend, NothingApplied, ExecutorIdle
<1>6. LastFrames'
    BY <1>1 DEF LastFrames, Stages, DriveTypeOK, SafeFrames, ExecutorIdle, Backend
<1>7. Remembered'
    BY <1>1, SafeEffectiveIsSafe DEF Remembered, DriveTypeOK, Asks, AutoDrive, NoSample, ExecutorIdle
<1>8. HandedOver'
    BY <1>1 DEF HandedOver, DriveTypeOK, Asks, AutoDrive, NothingApplied, ExecutorIdle, Stages
<1>9. Written'
    BY <1>1 DEF Written, DriveTypeOK, Stages, LastFrames, Backend, ExecutorIdle
<1> QED  BY <1>3, <1>4, <1>5, <1>6, <1>7, <1>8, <1>9 DEF ChainInv

LEMMA SendSafeFrameInv ==
    ASSUME ChainInv, NEW ok \in BOOLEAN, SendSafeFrame(ok), UNCHANGED <<arbiterVars, grounds>>
    PROVE  ChainInv'
<1> USE ControlAssumption, VehicleAssumption, ArbiterAssumption, SafeIsSafe, SixSteps
<1> USE DEF SendSafeFrame
<1>1. /\ ChainTypeOK /\ DriveTypeOK /\ Flags /\ Stages /\ LastFrames
      /\ Remembered /\ HandedOver /\ Written
    BY DEF ChainInv, ChainTypeOK
<1>10. rolling' \in BOOLEAN /\ lost' \in BOOLEAN
    BY <1>1 DEF DriveTypeOK, Moves
<1>11. flushed' \in [tried : 0 .. SafeFrames, failed : 0 .. SafeFrames]
    BY <1>1 DEF DriveTypeOK, LastFrames, SafeFrames
<1>2. DriveTypeOK'
    BY <1>1, <1>10, <1>11 DEF DriveTypeOK
<1>3. ChainTypeOK' /\ Decided'
    BY <1>2, QuietArbiter DEF arbiterVars
<1>4. Flags'
    BY <1>1, SafeEffectiveIsSafe DEF Flags, DriveTypeOK, AutoDrive, NoSample, NothingApplied, ExecutorIdle
<1>5. Stages'
    BY <1>1 DEF Stages, DriveTypeOK, Backend, NothingApplied, ExecutorIdle
<1>6. LastFrames'
    BY <1>1 DEF LastFrames, Stages, DriveTypeOK, SafeFrames, ExecutorIdle, Backend
<1>7. Remembered'
    BY <1>1, SafeEffectiveIsSafe DEF Remembered, DriveTypeOK, Asks, AutoDrive, NoSample, ExecutorIdle
<1>8. HandedOver'
    BY <1>1 DEF HandedOver, DriveTypeOK, Asks, AutoDrive, NothingApplied, ExecutorIdle, Stages
<1>9. Written'
    BY <1>1 DEF Written, DriveTypeOK, Stages, LastFrames, Backend, ExecutorIdle
<1> QED  BY <1>3, <1>4, <1>5, <1>6, <1>7, <1>8, <1>9 DEF ChainInv

LEMMA CloseSerialInv ==
    ASSUME ChainInv, CloseSerial, UNCHANGED <<arbiterVars, grounds>>
    PROVE  ChainInv'
<1> USE ControlAssumption, VehicleAssumption, ArbiterAssumption, SafeIsSafe, SixSteps
<1> USE DEF CloseSerial
<1>1. /\ ChainTypeOK /\ DriveTypeOK /\ Flags /\ Stages /\ LastFrames
      /\ Remembered /\ HandedOver /\ Written
    BY DEF ChainInv, ChainTypeOK
<1>2. DriveTypeOK'
    BY <1>1, SafeEffectiveIsSafe DEF DriveTypeOK, NoSample, NothingApplied, Forgotten, Effectives, SafeFrames, ExecutorIdle
<1>3. ChainTypeOK' /\ Decided'
    BY <1>2, QuietArbiter DEF arbiterVars
<1>4. Flags'
    BY <1>1, SafeEffectiveIsSafe DEF Flags, DriveTypeOK, AutoDrive, NoSample, NothingApplied, ExecutorIdle
<1>5. Stages'
    BY <1>1 DEF Stages, DriveTypeOK, Backend, NothingApplied, ExecutorIdle
<1>6. LastFrames'
    BY <1>1 DEF LastFrames, Stages, DriveTypeOK, SafeFrames, ExecutorIdle, Backend
<1>7. Remembered'
    BY <1>1, SafeEffectiveIsSafe DEF Remembered, DriveTypeOK, Asks, AutoDrive, NoSample, ExecutorIdle
<1>8. HandedOver'
    BY <1>1 DEF HandedOver, DriveTypeOK, Asks, AutoDrive, NothingApplied, ExecutorIdle, Stages
<1>9. Written'
    BY <1>1 DEF Written, DriveTypeOK, Stages, LastFrames, Backend, ExecutorIdle
<1> QED  BY <1>3, <1>4, <1>5, <1>6, <1>7, <1>8, <1>9 DEF ChainInv

Consumers ==
    [stamped : BOOLEAN, stamp : Int, live : BOOLEAN, received : 0 .. Forgotten,
     validity : Int, effective : Effectives]

LEMMA WatchdogKeepsFresh ==
    ASSUME DriveTypeOK
    PROVE  LET w == Watchdog(consumer)
           IN  /\ w \in Consumers
               /\ w.effective.drive => consumer.effective.drive
               /\ w.effective.speed # 0 =>
                    w = consumer /\ (consumer.live => consumer.received <= consumer.validity)
<1>1. consumer \in Consumers /\ consumer.received \in Int /\ consumer.validity \in Int
    BY DEF DriveTypeOK, Consumers, Effectives
<1>2. CASE consumer.live /\ consumer.received > consumer.validity
    <2> DEFINE w == Watchdog(consumer)
    <2>1. w = [consumer EXCEPT !.live = FALSE, !.effective = SafeEffective]
        BY <1>2 DEF Watchdog
    <2>2. w \in Consumers /\ w.effective = SafeEffective
        BY <1>1, <2>1, SafeEffectiveIsSafe DEF Consumers
    <2> HIDE DEF w
    <2> QED  BY <2>2, SafeEffectiveIsSafe DEF w
<1>3. CASE ~(consumer.live /\ consumer.received > consumer.validity)
    <2>1. Watchdog(consumer) = consumer
        BY <1>3 DEF Watchdog
    <2> QED  BY <2>1, <1>1, <1>3
<1> QED  BY <1>2, <1>3

(* What a control tick selects has grounds.                                *)
LEMMA SelectedHasGrounds ==
    ASSUME DriveTypeOK, Flags, Remembered, grounds \in Int, ControlTick
    PROVE  LET cmd == Selected(auto, consumer')
           IN  /\ cmd \in Commands
               /\ cmd.drive => AutoDrive
               /\ Asks(cmd) => grounds <= MonitorTimeout + AutoTimeout
<1> USE ControlAssumption, ArbiterAssumption
<1> DEFINE cmd == Selected(auto, consumer')
<1>1. CASE InputMode = "canonical"
    <2>1. consumer' = Watchdog(consumer) /\ cmd = DesiredFromCanonical(consumer'.effective)
        BY <1>1 DEF ControlTick, Selected
    <2>2. consumer' \in Consumers /\ consumer'.effective \in Effectives
        BY <2>1, WatchdogKeepsFresh DEF Consumers
    <2>3. cmd \in Commands /\ cmd.drive = consumer'.effective.drive
          /\ cmd.speed = consumer'.effective.speed
        BY <2>1, <2>2, SelectCanonical
    <2>4. cmd.drive => AutoDrive
        BY <2>1, <2>3, WatchdogKeepsFresh DEF Flags
    <2>5. ASSUME cmd.speed # 0 PROVE grounds <= MonitorTimeout + AutoTimeout
        <3>1. /\ consumer.effective.speed # 0
              /\ consumer.live => consumer.received <= consumer.validity
            BY <2>1, <2>3, <2>5, WatchdogKeepsFresh
        <3>2. consumer.received <= consumer.validity /\ consumer.validity <= AutoTimeout
            BY <3>1 DEF Flags
        <3>3. consumer.received \in Int /\ consumer.validity \in Int
            BY DEF DriveTypeOK
        <3> QED  BY <3>1, <3>2, <3>3 DEF Remembered
    <2> QED  BY <2>3, <2>4, <2>5 DEF Asks
<1>2. CASE InputMode # "canonical"
    <2>1. cmd = SelectEffectiveCommand(auto.cmd, auto.age)
        BY <1>2 DEF Selected
    <2>2. auto.cmd \in Commands /\ auto.age \in Nat
        BY DEF DriveTypeOK, Forgotten
    <2>3. /\ cmd \in Commands /\ (cmd.drive => auto.cmd.drive)
          /\ cmd.speed # 0 => auto.cmd.speed # 0 /\ auto.age <= AutoTimeout
        BY <2>1, <2>2, SelectLegacy
    <2> HIDE DEF cmd
    <2>4. cmd.drive => AutoDrive
        BY <2>3 DEF Flags
    <2>5. Asks(cmd) => Asks(auto.cmd) /\ auto.age <= AutoTimeout
        BY <2>3 DEF Asks
    <2>6. Asks(cmd) => grounds <= MonitorTimeout + AutoTimeout
        BY <2>2, <2>5 DEF Remembered
    <2> QED  BY <2>3, <2>4, <2>6 DEF cmd
<1> QED  BY <1>1, <1>2

LEMMA ControlTickInv ==
    ASSUME ChainInv, ControlTick, UNCHANGED <<arbiterVars, grounds>>
    PROVE  ChainInv'
<1> USE ControlAssumption, VehicleAssumption, ArbiterAssumption, SixSteps
<1> DEFINE cmd == Selected(auto, consumer')
<1>1. /\ ChainTypeOK /\ DriveTypeOK /\ Flags /\ Stages /\ LastFrames
      /\ Remembered /\ HandedOver /\ Written /\ grounds \in Int
    BY DEF ChainInv, ChainTypeOK
<1>2. /\ cmd \in Commands /\ Stored(cmd) = cmd /\ (cmd.drive => AutoDrive)
      /\ Asks(cmd) => grounds <= MonitorTimeout + AutoTimeout
    BY <1>1, SelectedHasGrounds, StoredIsSame
<1>3. /\ consumer' \in Consumers
      /\ consumer'.effective.drive => consumer.effective.drive
      /\ consumer'.effective.speed # 0 => consumer' = consumer
    BY <1>1, WatchdogKeepsFresh DEF ControlTick, DriveTypeOK, Consumers, Effectives
<1>4. /\ life = "up" /\ applying.next = Handed
      /\ since' = [since EXCEPT !.control = 0] /\ since'.control = 0 /\ since'.write = since.write
      /\ UNCHANGED <<setup, life, auto, tx, rolling, flushed, lost>>
    BY <1>1 DEF ControlTick, ExecutorIdle, DriveTypeOK
<1>5. \/ Backend = "sim" /\ desired' = cmd /\ applying' = applying
      \/ Backend # "sim" /\ applying' = [cmd |-> cmd, next |-> 1] /\ desired' = desired
    BY <1>2 DEF ControlTick
<1> HIDE DEF cmd
<1>6. DriveTypeOK'
    <2>1. applying' \in [cmd : Commands, next : 1 .. Handed] /\ desired' \in Commands
        BY <1>1, <1>2, <1>5 DEF DriveTypeOK
    <2>2. since' \in [control : 0 .. ControlPeriod, write : 0 .. TxPeriod]
        BY <1>1, <1>4 DEF DriveTypeOK
    <2> QED  BY <1>1, <1>3, <1>4, <2>1, <2>2 DEF DriveTypeOK, Consumers, Effectives
<1>7. ChainTypeOK' /\ Decided'
    BY <1>4, <1>6, QuietArbiter DEF arbiterVars
<1>8. AutoDrive' = AutoDrive /\ Backend' = Backend
    BY <1>4 DEF AutoDrive, Backend
<1>9. Flags'
    BY <1>1, <1>2, <1>3, <1>4, <1>5, <1>8 DEF Flags
<1>10. Stages' /\ LastFrames'
    BY <1>1, <1>4, <1>8 DEF Stages, LastFrames
<1>11. Remembered'
    <2>1. Asks(auto.cmd)' => Asks(auto.cmd)
        BY <1>4, <1>8 DEF Asks
    <2> QED  BY <1>1, <1>3, <1>4, <2>1 DEF Remembered
<1>12. HandedOver'
    <2>1. CASE Backend = "sim"
        <3>1. desired' = cmd /\ applying'.next = Handed
            BY <1>4, <1>5, <2>1
        <3>2. Asks(desired)' => grounds' <= MonitorTimeout + AutoTimeout + since'.control
            BY <1>1, <1>2, <1>4, <1>8, <3>1 DEF Asks
        <3> QED  BY <3>1, <3>2 DEF HandedOver
    <2>2. CASE Backend # "sim"
        <3>1. applying'.next = 1 /\ applying'.cmd = cmd /\ desired' = desired
            BY <1>5, <2>2
        <3>2. Asks(applying.cmd)' => grounds' <= MonitorTimeout + AutoTimeout
            BY <1>1, <1>2, <1>8, <3>1 DEF Asks
        <3>3. Asks(desired)' => grounds' <= MonitorTimeout + AutoTimeout + ControlPeriod
            BY <1>1, <1>4, <1>8, <3>1 DEF Asks, HandedOver, DriveTypeOK
        <3> QED  BY <3>1, <3>2, <3>3 DEF HandedOver
    <2> QED  BY <2>1, <2>2
<1>13. Written'
    BY <1>1, <1>4 DEF Written
<1> QED  BY <1>7, <1>9, <1>10, <1>11, <1>12, <1>13 DEF ChainInv

-----------------------------------------------------------------------------
(* The steps of the arbiter.                                               *)

LEMMA CommandIsMessage ==
    ASSUME NEW linear \in Int, NEW angular \in Int, NEW brake \in Int,
           NEW source \in {"AUTO", "MANUAL", "SAFETY"}
    PROVE  Command(linear, angular, brake, source) \in FinalMessages
<1>1. Clamp(brake, 0, 100) \in 0 .. 100
    BY DEF Clamp, Greatest, Least
<1> QED  BY <1>1 DEF Command, FinalMessages

LEMMA StopDoesNotAsk ==
    ASSUME NEW brake \in Int, NEW source \in {"AUTO", "MANUAL", "SAFETY"},
           AutoDrive \in BOOLEAN
    PROVE  /\ StopCommand(source, brake) \in FinalMessages
           /\ ~AsksToMove(StopCommand(source, brake))
<1> DEFINE m == StopCommand(source, brake)
<1> DEFINE c == CommandFromCmdVel(m, AutoDrive)
<1>1. m \in FinalMessages /\ m.linear = 0
    <2>1. 0 \in Int /\ m = Command(0, 0, brake, source)
        BY DEF StopCommand
    <2>2. m \in FinalMessages
        BY <2>1, CommandIsMessage
    <2> QED  BY <2>1, <2>2 DEF Command
<1>2. LimitedSpeed(m.linear) = 0
    BY <1>1, LimitedSpeedRange, ControlAssumption
<1>3. c.speed = 0
    BY <1>2 DEF CommandFromCmdVel
<1>4. c \in Commands
    BY <1>1, CommandFromMessage
<1> HIDE DEF m, c
<1>5. ~Moves(EncodePiFrame(c))
    BY <1>3, <1>4, MovesNeedsSpeed
<1> QED  BY <1>1, <1>5 DEF AsksToMove, m, c

(* What the arbiter decides to send rests on a fresh scan or a command of  *)
(* the operator, and only that is sent.                                    *)
LEMMA ArbitrateDecides ==
    ASSUME ChainTypeOK, Arbitrate
    PROVE  /\ seen' \in [scan : 0 .. NeverStamped, monitorStop : BOOLEAN, health : PathVerdicts]
           /\ deciding' \in FinalMessages \union {NoCommand}
           /\ deciding' # deciding /\ AsksToMove(deciding') =>
                GroundsOf(deciding') \in 0 .. MonitorTimeout
           /\ \/ final' = <<>>
              \/ \E m \in FinalMessages :
                    final' = <<m>> /\ (AsksToMove(m) => m = deciding /\ deciding' = NoCommand)
<1> USE ArbiterAssumption
<1>1. /\ final = <<>> /\ AutoDrive \in BOOLEAN
      /\ seen \in [scan : 0 .. NeverStamped, monitorStop : BOOLEAN, health : PathVerdicts]
      /\ deciding \in FinalMessages \union {NoCommand}
    BY DEF Arbitrate, ChainTypeOK, DriveTypeOK, AllowedSetups, AutoDrive
<1>2. ASSUME NEW m, Publish(m) PROVE final' = <<m>>
    BY <1>1, <1>2 DEF Publish
<1>3. CASE \E age \in ScanAges : OnScan(age)
    BY <1>1, <1>3 DEF OnScan, NeverStamped
<1>4. CASE \E stop \in MonitorStops : OnMonitorState(stop)
    BY <1>1, <1>4 DEF OnMonitorState
<1>5. ASSUME NEW health \in Healths, OnPathHealth(health)
      PROVE  /\ seen' \in [scan : 0 .. NeverStamped, monitorStop : BOOLEAN,
                           health : PathVerdicts]
             /\ deciding' = deciding
             /\ \/ final' = <<>>
                \/ \E m \in FinalMessages : final' = <<m>> /\ ~AsksToMove(m)
    <2>1. HealthBrake(health) \in Int
        BY DEF HealthBrake
    <2> DEFINE stop == StopCommand("SAFETY", HealthBrake(health))
    <2>2. stop \in FinalMessages /\ ~AsksToMove(stop)
        BY <1>1, <2>1, StopDoesNotAsk
    <2>3. final' = <<>> \/ final' = <<stop>>
        BY <1>1, <1>2, <1>5 DEF OnPathHealth
    <2> HIDE DEF stop
    <2>4. final' = <<>> \/ \E m \in FinalMessages : final' = <<m>> /\ ~AsksToMove(m)
        BY <2>2, <2>3
    <2> QED  BY <1>1, <1>5, <2>4 DEF OnPathHealth
<1>6. ASSUME NEW t \in Twists, OnSafe(t)
      PROVE  /\ deciding' \in FinalMessages \union {NoCommand}
             /\ AsksToMove(deciding') => GroundsOf(deciding') \in 0 .. MonitorTimeout
             /\ UNCHANGED <<seen, final>>
    <2>1. t[1] \in Int /\ t[2] \in Int
        OBVIOUS
    <2>2. Command(t[1], t[2], 0, "AUTO") \in FinalMessages
        BY <2>1, CommandIsMessage
    <2>3. HealthBrake(seen.health) \in Int
        BY DEF HealthBrake
    <2>4. /\ StopCommand("SAFETY", 0) \in FinalMessages /\ ~AsksToMove(StopCommand("SAFETY", 0))
          /\ StopCommand("SAFETY", HealthBrake(seen.health)) \in FinalMessages
          /\ ~AsksToMove(StopCommand("SAFETY", HealthBrake(seen.health)))
        BY <1>1, <2>3, StopDoesNotAsk
    <2>5. ~AsksToMove(NoCommand)
        BY DEF AsksToMove
    <2>6. deciding' = AutomaticOutput(t) /\ UNCHANGED <<seen, final>>
        BY <1>6 DEF OnSafe
    <2>7. CASE ScanRequired /\ ~ScanIsFresh
        BY <2>4, <2>5, <2>6, <2>7 DEF AutomaticOutput
    <2>8. CASE ~(ScanRequired /\ ~ScanIsFresh)
        <3>1. GroundsOf(Command(t[1], t[2], 0, "AUTO")) \in 0 .. MonitorTimeout
            BY <1>1, <2>8 DEF GroundsOf, ScanIsFresh, Command
        <3> QED  BY <2>2, <2>4, <2>5, <2>6, <2>8, <3>1 DEF AutomaticOutput
    <2> QED  BY <2>6, <2>7, <2>8
<1>7. ASSUME NEW t \in Twists, NEW b \in TeleopBrakes, OnTeleop(t, b)
      PROVE  /\ deciding' \in FinalMessages
             /\ GroundsOf(deciding') \in 0 .. MonitorTimeout
             /\ UNCHANGED <<seen, final>>
    <2>1. t[1] \in Int /\ t[2] \in Int /\ b \in Int
        OBVIOUS
    <2>2. deciding' = Command(t[1], t[2], b, "MANUAL") /\ UNCHANGED <<seen, final>>
        BY <1>7 DEF OnTeleop
    <2>3. deciding' \in FinalMessages
        BY <2>1, <2>2, CommandIsMessage
    <2>4. deciding'.source = "MANUAL"
        BY <2>2 DEF Command
    <2> QED  BY <2>2, <2>3, <2>4 DEF GroundsOf
<1>8. CASE ManualWatchdog
    <2>1. deciding' = StopCommand("MANUAL", 0) /\ UNCHANGED <<seen, final>>
        BY <1>8 DEF ManualWatchdog
    <2>2. StopCommand("MANUAL", 0) \in FinalMessages /\ ~AsksToMove(StopCommand("MANUAL", 0))
        BY <1>1, StopDoesNotAsk
    <2> QED  BY <1>1, <2>1, <2>2
<1>9. CASE PublishDecision
    <2>1. deciding \in FinalMessages /\ deciding' = NoCommand /\ seen' = seen
        BY <1>1, <1>9 DEF PublishDecision
    <2>2. final' = <<deciding>>
        BY <1>2, <1>9 DEF PublishDecision
    <2>3. ~AsksToMove(NoCommand)
        BY DEF AsksToMove
    <2> QED  BY <1>1, <2>1, <2>2, <2>3
<1>10. CASE \E on \in BOOLEAN : SetManualMode(on)
    BY <1>1, <1>10 DEF SetManualMode
<1> QED  BY <1>1, <1>3, <1>4, <1>5, <1>6, <1>7, <1>8, <1>9, <1>10 DEF Arbitrate, DefaultGroup

LEMMA ArbitrateInv == ASSUME ChainInv, Arbitrate PROVE ChainInv'
<1> USE ControlAssumption, VehicleAssumption, ArbiterAssumption
<1>1. /\ ChainTypeOK /\ DriveTypeOK /\ Flags /\ Stages /\ LastFrames
      /\ Decided /\ Remembered /\ HandedOver /\ Written /\ grounds \in Int
    BY DEF ChainInv, ChainTypeOK
<1>2. UNCHANGED driveVars /\ AutoDrive' = AutoDrive /\ Backend' = Backend
    BY DEF Arbitrate, driveVars, AutoDrive, Backend
<1>3. MotionGrace \in Nat /\ MonitorTimeout <= MotionGrace
    BY DEF MotionGrace
<1>4. /\ grounds' = grounds \/ grounds' \in 0 .. MonitorTimeout
      /\ AsksToMove(deciding') /\ deciding' # deciding => grounds' <= MonitorTimeout
    BY <1>1, ArbitrateDecides DEF Arbitrate
<1>5. DriveTypeOK' /\ Flags' /\ Stages' /\ LastFrames'
    BY <1>1, <1>2 DEF DriveTypeOK, Flags, Stages, LastFrames, driveVars
<1>6. ChainTypeOK'
    <2>1. grounds' \in 0 .. MotionGrace + 1
        BY <1>1, <1>3, <1>4 DEF ChainTypeOK
    <2> QED  BY <1>1, <1>5, <2>1, ArbitrateDecides DEF ChainTypeOK
<1>7. Decided'
    <2>1. AsksToMove(deciding') => grounds' <= MonitorTimeout
        BY <1>1, <1>4 DEF Decided
    <2>2. ASSUME NEW m \in FinalMessages, final' = <<m>>, AsksToMove(m)
          PROVE  grounds' <= MonitorTimeout
        <3>1. m = deciding
            BY <1>1, <2>2, ArbitrateDecides
        <3> QED  BY <1>1, <1>4, <2>2, <3>1 DEF Decided
    <2> QED  BY <1>2, <2>1, <2>2 DEF Decided, AsksToMove
<1>8. Remembered'
    <2>1. Asks(auto.cmd)' => Asks(auto.cmd)
        BY <1>2 DEF Asks, driveVars
    <2>2. auto.age \in Nat /\ consumer.received \in Nat
        BY <1>1 DEF DriveTypeOK
    <2> QED  BY <1>1, <1>2, <1>4, <2>1, <2>2 DEF Remembered, driveVars
<1>9. HandedOver'
    <2>1. /\ Asks(applying.cmd)' => Asks(applying.cmd)
          /\ Asks(desired)' => Asks(desired)
        BY <1>2 DEF Asks, driveVars
    <2>2. since.control \in Nat
        BY <1>1 DEF DriveTypeOK
    <2> QED  BY <1>1, <1>2, <1>4, <2>1, <2>2 DEF HandedOver, driveVars
<1>10. Written'
    <2>1. since.write \in Nat
        BY <1>1 DEF DriveTypeOK
    <2> QED  BY <1>1, <1>2, <1>4, <2>1 DEF Written, driveVars
<1> QED  BY <1>5, <1>6, <1>7, <1>8, <1>9, <1>10 DEF ChainInv

LEMMA IngestRange ==
    ASSUME DriveTypeOK, NEW m \in FinalMessages, NEW age \in Int, NEW well \in BOOLEAN
    PROVE  LET c == Ingest(consumer, ShimSample(m, age, well))
           IN  /\ c \in Consumers
               /\ c.effective.drive => AutoDrive
               /\ c.effective.speed # 0 =>
                    AutoDrive /\ c.live /\ c.validity = AutoTimeout /\ AsksToMove(m)
<1> USE ControlAssumption
<1> DEFINE sample == ShimSample(m, age, well)
<1> DEFINE c == Ingest(consumer, sample)
<1>1. /\ consumer \in Consumers /\ AutoDrive \in BOOLEAN
    BY DEF DriveTypeOK, Consumers, Effectives, AllowedSetups, AutoDrive
<1>2. /\ Inhibited(sample) \in Effectives /\ (Inhibited(sample).drive => AutoDrive)
      /\ Inhibited(sample).speed # 0 => AsksToMove(m) /\ AutoDrive
      /\ sample.age = age /\ Validity(sample) = AutoTimeout
    BY <1>1, InhibitedRange
<1>3. c = [stamped |-> TRUE, stamp |-> sample.age, live |-> TRUE, received |-> 0,
           validity |-> Validity(sample), effective |-> Inhibited(sample)]
      \/ c = [consumer EXCEPT !.live = FALSE, !.effective = SafeEffective]
    BY DEF Ingest
<1> HIDE DEF sample, c
<1>4. CASE c = [stamped |-> TRUE, stamp |-> sample.age, live |-> TRUE, received |-> 0,
                validity |-> Validity(sample), effective |-> Inhibited(sample)]
    <2>1. /\ c.effective = Inhibited(sample) /\ c.live /\ c.validity = AutoTimeout
          /\ c \in Consumers
        BY <1>2, <1>4 DEF Consumers, Forgotten
    <2> QED  BY <2>1, <1>2 DEF c, sample
<1>5. CASE c = [consumer EXCEPT !.live = FALSE, !.effective = SafeEffective]
    <2>1. c \in Consumers /\ c.effective = SafeEffective
        BY <1>1, <1>5, SafeEffectiveIsSafe DEF Consumers
    <2> QED  BY <2>1, SafeEffectiveIsSafe DEF c, sample
<1> QED  BY <1>3, <1>4, <1>5

LEMMA DeliverInv == ASSUME ChainInv, DeliverFinal PROVE ChainInv'
<1> USE ControlAssumption, VehicleAssumption, ArbiterAssumption
<1>1. /\ ChainTypeOK /\ DriveTypeOK /\ Flags /\ Stages /\ LastFrames
      /\ Decided /\ Remembered /\ HandedOver /\ Written /\ grounds \in Int
    BY DEF ChainInv, ChainTypeOK
<1>2. PICK m \in FinalMessages : final = <<m>>
    BY <1>1 DEF ChainTypeOK, DeliverFinal
<1>3. final' = <<>> /\ Head(final) = m
    BY <1>2 DEF DeliverFinal
<1>4. AsksToMove(m) => grounds <= MonitorTimeout
    BY <1>1, <1>2 DEF Decided
<1>5. UNCHANGED <<setup, life, desired, applying, tx, rolling, since, flushed, lost,
                  seen, deciding, grounds>>
    BY DEF DeliverFinal, OnCmdVelFinal, OnCanonicalVehicleCommand, driveVars
<1>6. AutoDrive' = AutoDrive /\ Backend' = Backend
    BY <1>5 DEF AutoDrive, Backend
<1>7. Stages' /\ LastFrames' /\ Written'
    BY <1>1, <1>5, <1>6 DEF Stages, LastFrames, Written
<1>8. HandedOver'
    <2>1. /\ Asks(applying.cmd)' => Asks(applying.cmd)
          /\ Asks(desired)' => Asks(desired)
        BY <1>5, <1>6 DEF Asks
    <2> QED  BY <1>1, <1>5, <2>1 DEF HandedOver
<1>9. /\ auto' \in [cmd : Commands, age : 0 .. Forgotten]
      /\ auto'.cmd.drive => AutoDrive
      /\ Asks(auto'.cmd) /\ auto'.age <= AutoTimeout => grounds <= MonitorTimeout + auto'.age
    <2>1. CASE OnCmdVelFinal(m)
        <3> DEFINE c == CommandFromCmdVel(m, AutoDrive)
        <3>1. auto' = [cmd |-> c, age |-> 0]
            BY <2>1 DEF OnCmdVelFinal
        <3>2. AutoDrive \in BOOLEAN /\ m # NoCommand
            BY <1>1, <1>2 DEF DriveTypeOK, AllowedSetups, AutoDrive, FinalMessages, NoCommand
        <3>3. c \in Commands /\ c.drive = AutoDrive /\ (c.speed # 0 => ~c.estop)
            BY <3>2, CommandFromMessage
        <3> HIDE DEF c
        <3>4. ASSUME Asks(c) PROVE AsksToMove(m)
            <4>1. c.drive /\ ~c.estop /\ c.speed # 0
                BY <3>3, <3>4 DEF Asks
            <4>2. Moves(EncodePiFrame(c))
                BY <3>3, <4>1, MovesNeedsSpeed
            <4> QED  BY <3>2, <4>2 DEF AsksToMove, c
        <3> QED  BY <1>1, <1>4, <3>1, <3>3, <3>4 DEF Forgotten
    <2>2. CASE auto' = auto
        BY <1>1, <2>2 DEF DriveTypeOK, Flags, Remembered
    <2> QED
        BY <1>3, <2>1, <2>2 DEF DeliverFinal, OnCanonicalVehicleCommand, driveVars
<1>10. /\ consumer' \in Consumers
       /\ consumer'.effective.drive => AutoDrive
       /\ consumer'.effective.speed # 0 =>
            AutoDrive /\ consumer'.live /\ consumer'.validity <= AutoTimeout
       /\ consumer'.effective.speed # 0 /\ consumer'.received <= consumer'.validity =>
            grounds <= MonitorTimeout + consumer'.received
    <2>1. ASSUME NEW age \in SampleAges, NEW well \in {TRUE, ~Malformed},
                 OnCanonicalVehicleCommand(ShimSample(m, age, well))
          PROVE  <1>10!1 /\ <1>10!2 /\ <1>10!3 /\ <1>10!4
        <3>1. age \in Int /\ well \in BOOLEAN
            BY ChainAssumption
        <3>2. consumer' = Ingest(consumer, ShimSample(m, age, well))
            BY <2>1 DEF OnCanonicalVehicleCommand
        <3>3. /\ consumer' \in Consumers
              /\ consumer'.effective.drive => AutoDrive
              /\ consumer'.effective.speed # 0 =>
                   AutoDrive /\ consumer'.live /\ consumer'.validity = AutoTimeout
                   /\ AsksToMove(m)
            BY <1>1, <3>1, <3>2, IngestRange
        <3>4. consumer'.received \in Nat
            BY <3>3 DEF Consumers, Forgotten
        <3> QED  BY <1>1, <1>4, <3>3, <3>4
    <2>2. CASE consumer' = consumer
        BY <1>1, <2>2 DEF DriveTypeOK, Flags, Remembered, Consumers, Effectives
    <2> QED  BY <1>3, <2>1, <2>2 DEF DeliverFinal, OnCmdVelFinal, driveVars
<1>11. DriveTypeOK'
    BY <1>1, <1>5, <1>9, <1>10 DEF DriveTypeOK, Consumers, Effectives
<1>12. ChainTypeOK' /\ Decided'
    <2>1. ChainTypeOK'
        BY <1>1, <1>3, <1>5, <1>11 DEF ChainTypeOK
    <2>2. AsksToMove(deciding)' => AsksToMove(deciding)
        BY <1>5, <1>6 DEF AsksToMove
    <2> QED  BY <1>1, <1>3, <1>5, <2>1, <2>2 DEF Decided
<1>13. Flags'
    BY <1>1, <1>5, <1>6, <1>9, <1>10 DEF Flags
<1>14. Remembered'
    BY <1>5, <1>6, <1>9, <1>10 DEF Remembered, Asks
<1> QED  BY <1>7, <1>8, <1>12, <1>13, <1>14 DEF ChainInv

-----------------------------------------------------------------------------
(* Time passes.                                                            *)

LEMMA ElapseInv == ASSUME ChainInv, ElapseChain PROVE ChainInv'
<1> USE ControlAssumption, VehicleAssumption, ArbiterAssumption
<1>1. /\ ChainTypeOK /\ DriveTypeOK /\ Flags /\ Stages /\ LastFrames
      /\ Decided /\ Remembered /\ HandedOver /\ Written
    BY DEF ChainInv, ChainTypeOK
<1>2. /\ deciding = NoCommand /\ final = <<>> /\ deciding' = deciding /\ final' = final
      /\ OnTime /\ AgeArbiter /\ ElapseDrive
      /\ UNCHANGED <<setup, life, desired, applying, tx, rolling, flushed, lost>>
    BY DEF ElapseChain, ArbiterSettled, ArbiterBetweenCallbacks, AgeArbiter, ElapseDrive
<1>3. AutoDrive' = AutoDrive /\ Backend' = Backend
    BY <1>2 DEF AutoDrive, Backend
<1>4. /\ grounds \in Nat /\ grounds' \in Nat /\ grounds' <= grounds + 1
      /\ grounds' \in 0 .. MotionGrace + 1
    <2>1. MotionGrace \in Nat
        BY DEF MotionGrace
    <2>2. grounds \in 0 .. MotionGrace + 1 /\ grounds' = Older(grounds, MotionGrace + 1)
        BY <1>1 DEF ChainTypeOK, ElapseChain
    <2> QED  BY <2>1, <2>2 DEF Older
<1>5. /\ auto' \in [cmd : Commands, age : 0 .. Forgotten] /\ auto'.cmd = auto.cmd
      /\ auto'.age <= AutoTimeout => auto'.age = auto.age + 1
      /\ auto.age \in Nat /\ auto'.age \in Nat
    <2>1. auto \in [cmd : Commands, age : 0 .. Forgotten] /\ auto.age \in 0 .. Forgotten
        BY <1>1 DEF DriveTypeOK
    <2>2. Older(auto.age, Forgotten) \in 0 .. Forgotten
        BY <2>1 DEF Older, Forgotten
    <2>3. auto' = [auto EXCEPT !.age = Older(auto.age, Forgotten)]
        BY <1>2 DEF ElapseDrive
    <2>4. /\ auto' \in [cmd : Commands, age : 0 .. Forgotten]
          /\ auto'.age = Older(auto.age, Forgotten) /\ auto'.cmd = auto.cmd
        BY <2>1, <2>2, <2>3
    <2> QED  BY <2>1, <2>2, <2>4 DEF Older, Forgotten
<1>6. /\ consumer' \in Consumers /\ consumer'.effective = consumer.effective
      /\ consumer'.live = consumer.live /\ consumer'.validity = consumer.validity
      /\ consumer'.received <= AutoTimeout => consumer'.received = consumer.received + 1
      /\ consumer.received \in Nat /\ consumer'.received \in Nat /\ consumer.validity \in Int
    <2>1. consumer \in Consumers
        BY <1>1 DEF DriveTypeOK, Consumers, Effectives
    <2>2. /\ consumer.received \in 0 .. Forgotten /\ consumer.stamp \in Int
          /\ Older(consumer.received, Forgotten) \in 0 .. Forgotten
          /\ Older(consumer.stamp, Forgotten) \in Int
        BY <2>1 DEF Consumers, Older, Forgotten
    <2>3. consumer' = [consumer EXCEPT !.received = Older(consumer.received, Forgotten),
                                       !.stamp = Older(consumer.stamp, Forgotten)]
        BY <1>2 DEF ElapseDrive
    <2>4. consumer' \in Consumers
        BY <2>1, <2>2, <2>3 DEF Consumers
    <2>5. consumer'.received = Older(consumer.received, Forgotten)
          /\ consumer'.effective = consumer.effective /\ consumer'.live = consumer.live
          /\ consumer'.validity = consumer.validity
        BY <2>1, <2>3 DEF Consumers
    <2>6. consumer.validity \in Int
        BY <2>1 DEF Consumers
    <2> QED  BY <2>2, <2>4, <2>5, <2>6 DEF Older, Forgotten
<1>7. /\ since' \in [control : 0 .. ControlPeriod, write : 0 .. TxPeriod]
      /\ since'.control = IF life = "up" THEN since.control + 1 ELSE 0
      /\ since'.write = IF life \in {"up", "joining"} THEN since.write + 1 ELSE 0
      /\ since.control \in Nat /\ since.write \in Nat
    <2>1. /\ since.control \in 0 .. ControlPeriod /\ since.write \in 0 .. TxPeriod
          /\ life = "up" => since.control < ControlPeriod
          /\ life \in {"up", "joining"} => since.write < TxPeriod
        BY <1>1, <1>2 DEF DriveTypeOK, OnTime
    <2>2. since' = [control |-> IF life = "up" THEN since.control + 1 ELSE 0,
                    write |-> IF life \in {"up", "joining"} THEN since.write + 1 ELSE 0]
        BY <1>2 DEF ElapseDrive
    <2> QED  BY <2>1, <2>2
<1>8. DriveTypeOK'
    BY <1>1, <1>2, <1>5, <1>6, <1>7 DEF DriveTypeOK, Consumers, Effectives
<1>9. ChainTypeOK'
    <2>1. seen' \in [scan : 0 .. NeverStamped, monitorStop : BOOLEAN, health : PathVerdicts]
        <3>1. /\ seen \in [scan : 0 .. NeverStamped, monitorStop : BOOLEAN,
                           health : PathVerdicts]
              /\ seen.scan \in 0 .. NeverStamped
            BY <1>1 DEF ChainTypeOK
        <3> DEFINE age == IF seen.scan < NeverStamped THEN seen.scan + 1 ELSE seen.scan
        <3>2. age \in 0 .. NeverStamped
            BY <3>1 DEF NeverStamped
        <3>3. seen' = [seen EXCEPT !.scan = age]
            BY <1>2 DEF AgeArbiter
        <3> HIDE DEF age
        <3> QED  BY <3>1, <3>2, <3>3
    <2> QED  BY <1>1, <1>2, <1>4, <1>8, <2>1 DEF ChainTypeOK
<1>10. Decided'
    <2>1. ~AsksToMove(deciding)'
        BY <1>2 DEF AsksToMove, NoCommand
    <2> QED  BY <1>2, <2>1 DEF Decided
<1>11. Flags' /\ Stages' /\ LastFrames'
    BY <1>1, <1>2, <1>3, <1>5, <1>6 DEF Flags, Stages, LastFrames
<1>12. Remembered'
    <2>1. Asks(auto.cmd)' => Asks(auto.cmd)
        BY <1>3, <1>5 DEF Asks
    <2>2. consumer'.effective.speed # 0 => consumer'.validity <= AutoTimeout
        BY <1>1, <1>6 DEF Flags
    <2>3. Asks(auto.cmd)' /\ auto'.age <= AutoTimeout => grounds' <= MonitorTimeout + auto'.age
        BY <1>1, <1>4, <1>5, <2>1 DEF Remembered
    <2>4. consumer'.effective.speed # 0 /\ consumer'.received <= consumer'.validity =>
            grounds' <= MonitorTimeout + consumer'.received
        BY <1>1, <1>4, <1>6, <2>2 DEF Remembered
    <2> QED  BY <2>3, <2>4 DEF Remembered
<1>13. HandedOver'
    <2>1. /\ Asks(applying.cmd)' => Asks(applying.cmd)
          /\ Asks(desired)' => Asks(desired)
        BY <1>2, <1>3 DEF Asks
    <2>2. applying.next = Handed /\ applying'.next = Handed
        BY <1>1, <1>2 DEF OnTime, Stages
    <2>3. CASE life = "up"
        <3>1. Asks(desired)' => grounds' <= MonitorTimeout + AutoTimeout + since'.control
            BY <1>1, <1>4, <1>7, <2>1, <2>2, <2>3, SixSteps DEF HandedOver
        <3> QED  BY <2>2, <3>1, SixSteps DEF HandedOver
    <2>4. CASE life # "up"
        <3>1. ~Asks(desired)
            BY <1>1, <2>4, SafeIsSafe DEF Stages, Asks
        <3> QED  BY <2>1, <2>2, <3>1, SixSteps DEF HandedOver
    <2> QED  BY <2>3, <2>4
<1>14. Written'
    <2>1. CASE life \in {"up", "joining"}
        BY <1>1, <1>2, <1>4, <1>7, <2>1 DEF Written
    <2>2. CASE life \notin {"up", "joining"}
        <3>1. tx.at = "gone" /\ ~(rolling /\ ~lost)
            BY <1>1, <1>2, <2>2 DEF Stages, LastFrames, OnTime, DriveTypeOK
        <3> QED  BY <1>2, <3>1 DEF Written
    <2> QED  BY <2>1, <2>2
<1> QED  BY <1>9, <1>10, <1>11, <1>12, <1>13, <1>14 DEF ChainInv

LEMMA DriveInv == ASSUME ChainInv, Drive PROVE ChainInv'
BY StartClientInv, ControlTickInv, ApplyCommandInv, TakeSnapshotInv, SerialWriteInv,
   PublishCurrentCommandInv, StopClientInv, JoinThreadsInv, SendSafeFrameInv, CloseSerialInv
DEF Drive, DriveStep

LEMMA StutterInv == ASSUME ChainInv, UNCHANGED chainVars PROVE ChainInv'
<1>1. UNCHANGED <<arbiterVars, driveVars, grounds>> /\ AutoDrive' = AutoDrive
      /\ Backend' = Backend
    BY DEF chainVars, driveVars, AutoDrive, Backend
<1>2. ChainTypeOK' /\ Flags' /\ Stages' /\ LastFrames' /\ Remembered' /\ HandedOver' /\ Written'
    BY <1>1 DEF ChainInv, arbiterVars, driveVars, ChainTypeOK, DriveTypeOK, Flags, Stages,
       LastFrames, Remembered, HandedOver, Written, Asks
<1>3. Decided'
    BY <1>1 DEF ChainInv, arbiterVars, Decided, AsksToMove
<1> QED  BY <1>2, <1>3 DEF ChainInv

(* The invariant of the chain holds in every state of it: the arbiter, the *)
(* controller and the frames between them (_on_cmd_vel_final,              *)
(* _control_tick).                                                         *)
THEOREM ChainInvariance == ChainSpec => []ChainInv
<1>1. ChainInv /\ [ChainNext]_chainVars => ChainInv'
    BY ArbitrateInv, DeliverInv, DriveInv, ElapseInv, StutterInv DEF ChainNext
<1> QED  BY <1>1, ChainInitInv, PTL DEF ChainSpec

-----------------------------------------------------------------------------
(* The theorems.                                                           *)

(* The state of the controller keeps its types: no clamp, setter or frame  *)
(* ever leaves the limits (DesiredCommand, CommandState).                  *)
THEOREM DriveTypes == ChainSpec => []DriveTypeOK
<1>1. ChainInv => DriveTypeOK
    BY DEF ChainInv, ChainTypeOK
<1> QED  BY <1>1, ChainInvariance, PTL

(* A controller that has been destroyed leaves the wheels at rest, unless  *)
(* all its safe frames failed (CommsClient.stop, send_safe_shutdown).      *)
THEOREM DestroyedNodeStops == ChainSpec => []StopEndsSafe
<1>1. ChainInv => StopEndsSafe
    BY DEF ChainInv, LastFrames, StopEndsSafe
<1> QED  BY <1>1, ChainInvariance, PTL

LEMMA PermitStep ==
    ChainInv /\ ChainInv' /\ [ChainNext]_chainVars => [Promise!PermitNext]_(Promise!permitVars)
<1> SUFFICES ASSUME ChainInv, ChainInv', [ChainNext]_chainVars
             PROVE  [Promise!PermitNext]_(Promise!permitVars)
    OBVIOUS
<1> USE ControlAssumption, VehicleAssumption, ArbiterAssumption
<1> USE DEF Promise!PermitNext, Promise!permitVars
<1> DEFINE moving == rolling /\ ~lost
<1>1. /\ grounds \in 0 .. MotionGrace + 1 /\ MotionGrace \in Nat
      /\ since.write \in 0 .. TxPeriod /\ since'.write \in 0 .. TxPeriod
    BY DEF ChainInv, ChainTypeOK, DriveTypeOK, MotionGrace
<1>2. moving' => grounds' <= MotionGrace
    BY <1>1 DEF ChainInv, ChainTypeOK, Written, MotionGrace
<1>3. CASE Arbitrate
    <2>1. UNCHANGED moving /\ (grounds' = grounds \/ grounds' \in 0 .. MonitorTimeout)
        BY <1>3, ArbitrateDecides DEF ChainInv, Arbitrate, driveVars
    <2> QED  BY <2>1 DEF Promise!Permit
<1>4. CASE DeliverFinal
    <2>1. UNCHANGED <<rolling, lost, grounds>>
        BY <1>4 DEF DeliverFinal, OnCmdVelFinal, OnCanonicalVehicleCommand, driveVars
    <2> QED  BY <2>1
<1>5. CASE Drive
    <2>1. grounds' = grounds
        BY <1>5 DEF Drive
    <2>2. CASE moving'
        BY <1>2, <2>1, <2>2 DEF Promise!Go
    <2>3. CASE ~moving'
        BY <2>1, <2>3 DEF Promise!Halt
    <2> QED  BY <2>2, <2>3
<1>6. CASE ElapseChain
    <2>1. UNCHANGED <<rolling, lost>> /\ OnTime
        BY <1>6 DEF ElapseChain, ElapseDrive
    <2>2. grounds' = IF grounds <= MotionGrace THEN grounds + 1 ELSE grounds
        BY <1>1, <1>6 DEF ElapseChain, Older
    <2>3. moving => life \in {"up", "joining"}
        BY <2>1 DEF ChainInv, ChainTypeOK, DriveTypeOK, LastFrames, OnTime
    <2>4. moving => since.write < TxPeriod
        BY <2>1, <2>3 DEF OnTime
    <2>5. moving => grounds < MotionGrace
        BY <1>1, <2>4 DEF ChainInv, Written, MotionGrace
    <2> QED  BY <2>1, <2>2, <2>5 DEF Promise!Pass
<1>7. CASE UNCHANGED chainVars
    BY <1>7 DEF chainVars, driveVars
<1> QED  BY <1>3, <1>4, <1>5, <1>6, <1>7 DEF ChainNext

(* The chain implements MotionPermit, whatever the limits, timeouts and    *)
(* periods: the wheels never turn on grounds older than MotionGrace.       *)
THEOREM ChainKeepsPromise == ChainSpec => KeepsPromise
<1>1. ChainInit => Promise!PermitInit
    BY DEF ChainInit, DriveInit, Promise!PermitInit
<1> QED  BY <1>1, PermitStep, ChainInvariance, PTL DEF ChainSpec, KeepsPromise, Promise!PermitSpec

-----------------------------------------------------------------------------
(* The takeover.                                                           *)

(* An automatic command that was decided before the takeover is the only   *)
(* one, and it is published before the default group gets to any other.    *)
TakeoverInv ==
    /\ manual \in [on : BOOLEAN, age : Int, stopSent : BOOLEAN]
    /\ strays \in [auto : Nat, manual : BOOLEAN]
    /\ manual.on /\ deciding.source = "AUTO" => strays.auto = 0 /\ ~strays.manual

(* A message of another source than AUTO adds no automatic one.            *)
LEMMA PublishedStop ==
    ASSUME TakeoverInv, NEW brake, Publish(StopCommand("SAFETY", brake))
    PROVE  strays' = strays
BY DEF Publish, StopCommand, Command

LEMMA RenewedManual ==
    ASSUME NEW m \in [on : BOOLEAN, age : Int, stopSent : BOOLEAN],
           NEW a \in Int, NEW s \in BOOLEAN
    PROVE  [m EXCEPT !.age = a, !.stopSent = s]
             \in [on : BOOLEAN, age : Int, stopSent : BOOLEAN]
OBVIOUS

LEMMA TakeoverStepInv ==
    ASSUME TakeoverInv, DefaultGroup \/ Services \/ HoldThreads
    PROVE  TakeoverInv' /\ TakeoverStep
<1> USE ArbiterAssumption DEF TakeoverInv, TakeoverStep
<1>1. ASSUME UNCHANGED <<manual, deciding, strays>> PROVE TakeoverInv' /\ TakeoverStep
    BY <1>1
<1>2. CASE \E age \in ScanAges : OnScan(age)
    BY <1>1, <1>2 DEF OnScan
<1>3. CASE \E stop \in MonitorStops : OnMonitorState(stop)
    BY <1>1, <1>3 DEF OnMonitorState
<1>4. CASE \E health \in Healths : OnPathHealth(health)
    BY <1>1, <1>4, PublishedStop DEF OnPathHealth
<1>5. ASSUME NEW t \in Twists, OnSafe(t) PROVE TakeoverInv' /\ TakeoverStep
    <2>1. UNCHANGED <<manual, strays>> /\ deciding' = AutomaticOutput(t)
        BY <1>5 DEF OnSafe
    <2>2. manual.on => deciding'.source = "none"
        BY <2>1 DEF AutomaticOutput, NoCommand
    <2> QED  BY <2>1, <2>2
<1>6. ASSUME NEW t \in Twists, NEW b \in TeleopBrakes, OnTeleop(t, b)
      PROVE  TakeoverInv' /\ TakeoverStep
    <2>1. /\ strays' = strays /\ manual' \in [on : BOOLEAN, age : Int, stopSent : BOOLEAN]
          /\ deciding' = Command(t[1], t[2], b, "MANUAL")
        <3>1. manual' = [manual EXCEPT !.age = 0, !.stopSent = FALSE]
            BY <1>6 DEF OnTeleop
        <3>2. 0 \in Int /\ FALSE \in BOOLEAN
            OBVIOUS
        <3>3. [manual EXCEPT !.age = 0, !.stopSent = FALSE]
                \in [on : BOOLEAN, age : Int, stopSent : BOOLEAN]
            BY <3>2, RenewedManual, Zenon
        <3> QED  BY <1>6, <3>1, <3>3, Zenon DEF OnTeleop
    <2>2. deciding'.source = "MANUAL"
        BY <2>1 DEF Command
    <2> QED  BY <2>1, <2>2
<1>7. CASE ManualWatchdog
    <2>1. /\ strays' = strays /\ manual' \in [on : BOOLEAN, age : Int, stopSent : BOOLEAN]
          /\ deciding' = StopCommand("MANUAL", 0)
        BY <1>7 DEF ManualWatchdog
    <2>2. deciding'.source = "MANUAL"
        BY <2>1 DEF StopCommand, Command
    <2> QED  BY <2>1, <2>2
<1>8. CASE PublishDecision
    <2>1. manual' = manual /\ deciding' = NoCommand /\ deciding'.source = "none"
        BY <1>8 DEF PublishDecision, NoCommand
    <2>2. strays' = IF ~manual.on THEN strays
                    ELSE IF deciding.source = "AUTO" THEN [strays EXCEPT !.auto = strays.auto + 1]
                    ELSE IF deciding.source = "MANUAL" THEN [strays EXCEPT !.manual = TRUE]
                    ELSE strays
        BY <1>8 DEF PublishDecision, Publish
    <2>3. CASE manual.on /\ deciding.source = "AUTO"
        <3>1. strays'.auto = 1 /\ strays' \in [auto : Nat, manual : BOOLEAN]
            BY <2>2, <2>3
        <3> QED  BY <2>1, <2>3, <3>1
    <2>4. CASE ~(manual.on /\ deciding.source = "AUTO")
        <3>1. strays'.auto = strays.auto /\ strays' \in [auto : Nat, manual : BOOLEAN]
            BY <2>2, <2>4
        <3> QED  BY <2>1, <3>1
    <2> QED  BY <2>3, <2>4
<1>9. CASE \E b \in TeleopBrakes : OnBrake(b)
    BY <1>1, <1>9 DEF OnBrake
<1>10. CASE SuccessBrake
    BY <1>1, <1>10 DEF SuccessBrake
<1>11. CASE TakeoverBrake
    BY <1>1, <1>11, PublishedStop DEF TakeoverBrake
<1>12. ASSUME NEW on \in BOOLEAN, SetManualMode(on) PROVE TakeoverInv' /\ TakeoverStep
    <2>1. /\ manual' \in [on : BOOLEAN, age : Int, stopSent : BOOLEAN]
          /\ strays' = [auto |-> 0, manual |-> FALSE]
        BY <1>12 DEF SetManualMode
    <2> QED  BY <2>1
<1>13. CASE HoldThreads
    <2>1. PICK i \in DOMAIN holds : HoldCheck(i) \/ HoldPublish(i)
        BY <1>13 DEF HoldThreads
    <2>2. CASE HoldCheck(i)
        BY <1>1, <2>2 DEF HoldCheck
    <2>3. CASE HoldPublish(i)
        BY <1>1, <2>3, PublishedStop DEF HoldPublish
    <2> QED  BY <2>1, <2>2, <2>3
<1> QED
    BY <1>2, <1>3, <1>4, <1>5, <1>6, <1>7, <1>8, <1>9, <1>10, <1>11, <1>12, <1>13
    DEF DefaultGroup, Services

LEMMA TakeoverQuiet ==
    ASSUME TakeoverInv, UNCHANGED <<manual, deciding, strays>> \/ AgeArbiter
    PROVE  TakeoverInv' /\ TakeoverStep
<1>1. CASE UNCHANGED <<manual, deciding, strays>>
    BY <1>1 DEF TakeoverInv, TakeoverStep
<1>2. CASE AgeArbiter
    <2>1. /\ UNCHANGED <<deciding, strays>>
          /\ manual' \in [on : BOOLEAN, age : Int, stopSent : BOOLEAN] /\ manual'.on = manual.on
        BY <1>2, ArbiterAssumption DEF AgeArbiter, TakeoverInv
    <2> QED  BY <2>1 DEF TakeoverInv, TakeoverStep
<1> QED  BY <1>1, <1>2

LEMMA TakeoverInitInv == ArbiterInit => TakeoverInv
BY DEF ArbiterInit, TakeoverInv, NoCommand

(* After a takeover at most one automatic command is published, and none   *)
(* after a manual one, whatever services, brake holds and callbacks run in *)
(* between (_on_safe, _on_teleop, _on_set_manual_mode).                    *)
THEOREM ArbiterTakeoverIsClean == ArbiterSpec => TakeoverIsClean
<1>1. TakeoverInv /\ [ArbiterNext]_arbiterVars => TakeoverInv' /\ [TakeoverStep]_arbiterVars
    <2> SUFFICES ASSUME TakeoverInv, [ArbiterNext]_arbiterVars
                 PROVE  TakeoverInv' /\ TakeoverStep
        OBVIOUS
    <2>1. CASE DefaultGroup \/ Services \/ HoldThreads
        BY <2>1, TakeoverStepInv
    <2>2. CASE TakeFinal \/ ElapseArbiter \/ UNCHANGED arbiterVars
        BY <2>2, TakeoverQuiet DEF TakeFinal, ElapseArbiter, arbiterVars
    <2> QED  BY <2>1, <2>2 DEF ArbiterNext
<1> QED  BY <1>1, TakeoverInitInv, PTL DEF ArbiterSpec, TakeoverIsClean

(* The same in the chain, where the controller takes the commands.         *)
THEOREM ChainTakeoverIsClean == ChainSpec => TakeoverIsClean
<1>1. TakeoverInv /\ [ChainNext]_chainVars => TakeoverInv' /\ [TakeoverStep]_arbiterVars
    <2> SUFFICES ASSUME TakeoverInv, [ChainNext]_chainVars
                 PROVE  TakeoverInv' /\ TakeoverStep
        OBVIOUS
    <2>1. CASE Arbitrate
        BY <2>1, TakeoverStepInv DEF Arbitrate, Services
    <2>2. CASE DeliverFinal \/ Drive \/ UNCHANGED chainVars
        BY <2>2, TakeoverQuiet DEF DeliverFinal, Drive, chainVars, arbiterVars
    <2>3. CASE ElapseChain
        BY <2>3, TakeoverQuiet DEF ElapseChain
    <2> QED  BY <2>1, <2>2, <2>3 DEF ChainNext
<1>2. ChainInit => TakeoverInv
    BY TakeoverInitInv DEF ChainInit
<1> QED  BY <1>1, <1>2, PTL DEF ChainSpec, TakeoverIsClean
=============================================================================
