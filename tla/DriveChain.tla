----------------------------- MODULE DriveChain -----------------------------
(***************************************************************************)
(* The command chain from the safety inputs to the wheels:                 *)
(* nav_command_server publishes /cmd_vel_final, salus_controller takes it  *)
(* from there (in the canonical setup through legacy_vehicle_command_node, *)
(* whose translation stamps it anew) and drives the base.  The nodes share *)
(* nothing but these messages, so a message arrives at once (a later       *)
(* arrival is a later publication) and neither node takes a step while a   *)
(* callback of the other one is in the middle of its work.                 *)
(***************************************************************************)
EXTENDS CommandArbiter, VehicleControl

CONSTANTS
    SampleAges,     \* ages of canonical stamps on arrival
    Malformed       \* may a canonical sample be malformed on arrival?

ASSUME ChainAssumption == SampleAges \subseteq Int /\ Malformed \in BOOLEAN

VARIABLE grounds    \* history: age of what the last command to move rested on

chainVars == <<arbiterVars, driveVars, grounds>>

(* From a scan on its last legs to the frame that stops the wheels: a      *)
(* frame may be held for one transmit period and stands for another one.   *)
MotionGrace == MonitorTimeout + AutoTimeout + ControlPeriod + 2 * TxPeriod

AsksToMove(c) ==
    c # NoCommand /\ Moves(EncodePiFrame(CommandFromCmdVel(c, AutoDrive)))

ChainInit ==
    /\ ArbiterInit /\ DriveInit
    /\ grounds = MotionGrace + 1

(* An automatic command rests on the scan, a manual one on the operator.   *)
GroundsOf(c) ==
    IF c.source = "AUTO" /\ ScanRequired THEN seen.scan ELSE 0

(* Brake holds, which never ask to move, are left out of the chain.        *)
Arbitrate ==
    /\ final = <<>> /\ applying.next = Handed
    /\ DefaultGroup \/ \E on \in BOOLEAN : SetManualMode(on)
    /\ grounds' = IF deciding' # deciding /\ AsksToMove(deciding')
                  THEN GroundsOf(deciding') ELSE grounds
    /\ UNCHANGED driveVars

(* What the shim makes of a command, as it arrives.                        *)
ShimSample(c, age, wellFormed) ==
    [TranslateLegacyCommand(c, AutoDrive) EXCEPT !.age = age, !.wellFormed = wellFormed]

(* The controller subscribes in its own mode; when it is down nobody does. *)
DeliverFinal ==
    /\ final # <<>>
    /\ final' = Tail(final)
    /\ \/ OnCmdVelFinal(Head(final))
       \/ \E age \in SampleAges, wellFormed \in {TRUE, ~Malformed} :
            OnCanonicalVehicleCommand(ShimSample(Head(final), age, wellFormed))
       \/ life # "up" /\ UNCHANGED driveVars
    /\ UNCHANGED <<manual, seen, deciding, takeover, holds, changes, strays, grounds>>

Drive == ArbiterBetweenCallbacks /\ DriveStep /\ UNCHANGED <<arbiterVars, grounds>>

ElapseChain ==
    /\ ArbiterSettled
    /\ AgeArbiter
    /\ ElapseDrive
    /\ grounds' = Older(grounds, MotionGrace + 1)

ChainNext == Arbitrate \/ DeliverFinal \/ Drive \/ ElapseChain

ChainSpec == ChainInit /\ [][ChainNext]_chainVars

Promise == INSTANCE MotionPermit
             WITH moving <- rolling /\ ~lost, FreshAge <- MonitorTimeout, Grace <- MotionGrace

(* The chain keeps the promise of MotionPermit: when the scan is lost, the *)
(* planner falls silent, the collision monitor stops it, the operator lets *)
(* go or the node is stopped, the wheels stand still in the sum of the     *)
(* timeouts and periods on the way, whatever the threads of both nodes are *)
(* doing at that time, unless the last write to the serial line failed.    *)
KeepsPromise == Promise!PermitSpec
=============================================================================
