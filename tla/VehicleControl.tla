--------------------------- MODULE VehicleControl ---------------------------
(***************************************************************************)
(* salus_controller: the node's single-threaded executor (commands in,     *)
(* control tick), the serial client with its transmit thread, the Gazebo   *)
(* backend, and the shutdown of the node.                                  *)
(*                                                                         *)
(* Time is counted in ticks and kept as ages.  A tick needs the periodic   *)
(* work to be done: the control timer and the transmit loop keep their     *)
(* periods (control_hz, serial_tx_hz).  A callback takes no time of its    *)
(* own, except that the transmit thread may hold a frame for a while.      *)
(***************************************************************************)
EXTENDS ControlLogic, Sequences

CONSTANTS
    Setups,         \* <<command_input_mode, transport_backend, auto_drive_enabled>>
    ControlPeriod,  \* ticks between two control ticks
    TxPeriod,       \* ticks between two written frames
    FailingWrites   \* serial writes that may fail: "loop", "shutdown"

(* validate_command_input_mode: canonical commands only drive Gazebo.      *)
AllowedSetups ==
    {s \in {"legacy", "canonical"} \X {"uart", "sim"} \X BOOLEAN :
        s[1] = "canonical" => s[2] = "sim"}

ASSUME VehicleAssumption ==
    /\ Setups \subseteq AllowedSetups
    /\ ControlPeriod \in Nat \ {0} /\ TxPeriod \in Nat \ {0}
    /\ FailingWrites \subseteq {"loop", "shutdown"}

VARIABLES
    setup,      \* the parameters the node was launched with
    life,       \* "down", "up", "joining", "flushing"
    auto,       \* _auto_cmd and the age of _auto_stamp_s
    consumer,   \* CanonicalCommandConsumer
    desired,    \* CommandState of the client
    applying,   \* the command being handed over and the next setter
    tx,         \* the transmit thread, and whether the frame it holds moves
    rolling,    \* does the last frame written move the vehicle?
    since,      \* ticks since the last control tick and the last write
    flushed,    \* safe frames tried and failed at shutdown
    lost        \* history: has the last write failed?

driveVars == <<setup, life, auto, consumer, desired, applying, tx, rolling, since, flushed,
               lost>>

InputMode == setup[1]
Backend == setup[2]
AutoDrive == setup[3]

Forgotten == AutoTimeout + 1

(* apply_command of the serial backend, one lock acquisition per field.    *)
SetterOrder == <<"drive", "estop", "speed", "steer", "brake">>
Handed == Len(SetterOrder) + 1
NothingApplied == [cmd |-> SafeCommand, next |-> Handed]

(* CommandState.set_speed_mps and the other setters clamp what they store. *)
Stored(cmd) ==
    [cmd EXCEPT !.speed = Clamp(@, -MaxReverse, MaxSpeed),
                !.steer = Clamp(@, -SteeringLimit, SteeringLimit),
                !.brake = Clamp(@, 0, 100)]

NoSample == [stamped |-> FALSE, stamp |-> 0, live |-> FALSE, received |-> 0,
             validity |-> 0, effective |-> SafeEffective]

DriveInit ==
    /\ setup \in Setups
    /\ life = "down"
    /\ auto = [cmd |-> SafeCommand, age |-> Forgotten]
    /\ consumer = NoSample
    /\ desired = SafeCommand
    /\ applying = NothingApplied
    /\ tx = [at |-> "gone", rolls |-> FALSE]
    /\ rolling = FALSE
    /\ since = [control |-> 0, write |-> 0]
    /\ flushed = [tried |-> 0, failed |-> 0]
    /\ lost = FALSE

ExecutorIdle == life = "up" /\ applying.next = Handed

(* CommsClient.start, SimGazeboBackend.start.                              *)
StartClient ==
    /\ life = "down"
    /\ life' = "up"
    /\ desired' = SafeCommand
    /\ tx' = [tx EXCEPT !.at = IF Backend = "uart" THEN "wait" ELSE "gone"]
    /\ since' = [control |-> 0, write |-> 0]
    /\ flushed' = [tried |-> 0, failed |-> 0]
    /\ auto' = [cmd |-> SafeCommand, age |-> Forgotten]
    /\ consumer' = NoSample
    /\ UNCHANGED <<setup, applying, rolling, lost>>

(* The command that the next control tick would apply.                     *)
Selected(a, c) ==
    IF InputMode = "canonical" THEN DesiredFromCanonical(c.effective)
    ELSE SelectEffectiveCommand(a.cmd, a.age)

OnCmdVelFinal(m) ==
    /\ ExecutorIdle /\ InputMode = "legacy"
    /\ auto' = [cmd |-> CommandFromCmdVel(m, AutoDrive), age |-> 0]
    /\ UNCHANGED <<setup, life, consumer, desired, applying, tx, rolling, since, flushed, lost>>

(* CanonicalCommandConsumer.ingest.                                        *)
Ingest(c, sample) ==
    IF Acceptable(sample, c.stamped, c.stamp)
    THEN [stamped |-> TRUE, stamp |-> sample.age, live |-> TRUE, received |-> 0,
          validity |-> Validity(sample), effective |-> Inhibited(sample)]
    ELSE [c EXCEPT !.live = FALSE, !.effective = SafeEffective]

(* _auto_cmd is written here too, but only the consumer is applied.        *)
OnCanonicalVehicleCommand(sample) ==
    /\ ExecutorIdle /\ InputMode = "canonical"
    /\ consumer' = Ingest(consumer, sample)
    /\ UNCHANGED <<setup, life, auto, desired, applying, tx, rolling, since, flushed, lost>>

(* CanonicalCommandConsumer.tick.                                          *)
Watchdog(c) ==
    IF c.live /\ c.received > c.validity
    THEN [c EXCEPT !.live = FALSE, !.effective = SafeEffective]
    ELSE c

(* The Gazebo backend takes the five fields under one lock, the serial     *)
(* backend starts with the first one.                                      *)
ControlTick ==
    /\ ExecutorIdle
    /\ consumer' = IF InputMode = "canonical" THEN Watchdog(consumer) ELSE consumer
    /\ LET cmd == Selected(auto, consumer')
       IN  IF Backend = "sim"
           THEN desired' = Stored(cmd) /\ UNCHANGED applying
           ELSE applying' = [cmd |-> cmd, next |-> 1] /\ UNCHANGED desired
    /\ since' = [since EXCEPT !.control = 0]
    /\ UNCHANGED <<setup, life, auto, tx, rolling, flushed, lost>>

ApplyCommand ==
    /\ life = "up" /\ applying.next < Handed
    /\ LET field == SetterOrder[applying.next]
       IN  desired' = [desired EXCEPT ![field] = Stored(applying.cmd)[field]]
    /\ applying' = IF applying.next + 1 = Handed THEN NothingApplied
                   ELSE [applying EXCEPT !.next = @ + 1]
    /\ UNCHANGED <<setup, life, auto, consumer, tx, rolling, since, flushed, lost>>

-----------------------------------------------------------------------------
(* _write_current_frame: a snapshot under the state lock, then the write.  *)
TakeSnapshot ==
    /\ tx.at = "wait" /\ life = "up"
    /\ tx' = [at |-> "write", rolls |-> Moves(EncodePiFrame(desired))]
    /\ UNCHANGED <<setup, life, auto, consumer, desired, applying, rolling, since, flushed, lost>>

SerialWrite(ok) ==
    /\ tx.at = "write"
    /\ ok \/ "loop" \in FailingWrites
    /\ rolling' = IF ok THEN tx.rolls ELSE rolling
    /\ lost' = ~ok
    /\ tx' = [at |-> "wait", rolls |-> FALSE]
    /\ since' = [since EXCEPT !.write = 0]
    /\ UNCHANGED <<setup, life, auto, consumer, desired, applying, flushed>>

PublishCurrentCommand ==
    /\ ExecutorIdle /\ Backend = "sim"
    /\ rolling' = Moves(GazeboTwist(desired))
    /\ since' = [since EXCEPT !.write = 0]
    /\ UNCHANGED <<setup, life, auto, consumer, desired, applying, tx, flushed, lost>>

-----------------------------------------------------------------------------
(* Broken variant: the Gazebo backend goes without a last zero command.    *)
StopClientSilently ==
    /\ ExecutorIdle
    /\ desired' = SafeCommand
    /\ life' = IF Backend = "sim" THEN "down" ELSE "joining"
    /\ UNCHANGED <<setup, auto, consumer, applying, tx, rolling, since, flushed, lost>>

(* destroy_node after the executor has stopped.  The Gazebo backend        *)
(* publishes zero at once; the serial one resets the state, tells the      *)
(* threads, joins them and then writes three safe frames.                  *)
StopClient ==
    /\ ExecutorIdle
    /\ desired' = SafeCommand
    /\ IF Backend = "sim"
       THEN life' = "down" /\ rolling' = FALSE
       ELSE life' = "joining" /\ UNCHANGED rolling
    /\ UNCHANGED <<setup, auto, consumer, applying, tx, since, flushed, lost>>

(* Broken variant: the safe frames are sent while the thread may still     *)
(* hold a frame.                                                           *)
JoinThreadsNotAwaited ==
    /\ life = "joining"
    /\ life' = "flushing"
    /\ UNCHANGED <<setup, auto, consumer, desired, applying, tx, rolling, since, flushed, lost>>

JoinThreads ==
    /\ life = "joining" /\ tx.at = "wait"
    /\ tx' = [tx EXCEPT !.at = "gone"]
    /\ life' = "flushing"
    /\ UNCHANGED <<setup, auto, consumer, desired, applying, rolling, since, flushed, lost>>

SafeFrames == 3

SendSafeFrame(ok) ==
    /\ life = "flushing" /\ flushed.tried < SafeFrames
    /\ ok \/ "shutdown" \in FailingWrites
    /\ desired' = SafeCommand
    /\ rolling' = IF ok THEN Moves(EncodePiFrame(SafeCommand)) ELSE rolling
    /\ lost' = ~ok
    /\ flushed' = [tried |-> flushed.tried + 1,
                   failed |-> flushed.failed + IF ok THEN 0 ELSE 1]
    /\ UNCHANGED <<setup, life, auto, consumer, applying, tx, since>>

CloseSerial ==
    /\ life = "flushing" /\ flushed.tried = SafeFrames
    /\ life' = "down"
    /\ UNCHANGED <<setup, auto, consumer, desired, applying, tx, rolling, since, flushed, lost>>

-----------------------------------------------------------------------------
Older(age, cap) == IF age < cap THEN age + 1 ELSE age

(* The timers of a running node keep their periods; a node that is being   *)
(* destroyed waits for the frame the thread holds, and between two safe    *)
(* frames.                                                                 *)
OnTime ==
    /\ life = "up" => since.control < ControlPeriod /\ applying.next = Handed
    /\ life \in {"up", "joining"} => since.write < TxPeriod
    /\ life = "joining" => tx.at = "write"
    /\ life = "flushing" => flushed.tried > 0

ElapseDrive ==
    /\ OnTime
    /\ auto' = [auto EXCEPT !.age = Older(@, Forgotten)]
    /\ consumer' = [consumer EXCEPT !.received = Older(@, Forgotten),
                                    !.stamp = Older(@, Forgotten)]
    /\ since' = [control |-> IF life = "up" THEN since.control + 1 ELSE 0,
                 write |-> IF life \in {"up", "joining"} THEN since.write + 1 ELSE 0]
    /\ UNCHANGED <<setup, life, desired, applying, tx, rolling, flushed, lost>>

DriveStep ==
    \/ StartClient \/ ControlTick \/ ApplyCommand \/ TakeSnapshot
    \/ \E ok \in BOOLEAN : SerialWrite(ok)
    \/ PublishCurrentCommand \/ StopClient \/ JoinThreads
    \/ \E ok \in BOOLEAN : SendSafeFrame(ok)
    \/ CloseSerial

-----------------------------------------------------------------------------
DriveTypeOK ==
    /\ setup \in AllowedSetups
    /\ life \in {"down", "up", "joining", "flushing"}
    /\ auto \in [cmd : Commands, age : 0 .. Forgotten]
    /\ consumer \in [stamped : BOOLEAN, stamp : Int, live : BOOLEAN,
                     received : 0 .. Forgotten, validity : Int,
                     effective : [valid : BOOLEAN, drive : BOOLEAN, estop : BOOLEAN,
                                  speed : -MaxReverse .. MaxSpeed,
                                  steer : -SteeringLimit .. SteeringLimit, brake : 0 .. 100]]
    /\ desired \in Commands
    /\ applying \in [cmd : Commands, next : 1 .. Handed]
    /\ tx \in [at : {"wait", "write", "gone"}, rolls : BOOLEAN]
    /\ rolling \in BOOLEAN /\ lost \in BOOLEAN
    /\ since \in [control : 0 .. ControlPeriod, write : 0 .. TxPeriod]
    /\ flushed \in [tried : 0 .. SafeFrames, failed : 0 .. SafeFrames]

(* Once the node has been destroyed the last frame on the wire does not    *)
(* move the vehicle, unless all three safe frames failed: none that the    *)
(* transmit thread still held comes after them.                            *)
StopEndsSafe ==
    life = "down" /\ rolling => flushed.failed = SafeFrames
=============================================================================
