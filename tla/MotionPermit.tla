---------------------------- MODULE MotionPermit ----------------------------
(***************************************************************************)
(* What the command chain of the vehicle promises: it moves only while     *)
(* its grounds for moving, a look at the surroundings or an operator's     *)
(* command, are at most Grace ticks old.                                   *)
(***************************************************************************)
EXTENDS Naturals

CONSTANT
    FreshAge,   \* age of the grounds when they are accepted, at most
    Grace       \* age of the grounds when the vehicle stands still, at the latest

VARIABLES moving, grounds

permitVars == <<moving, grounds>>

PermitInit == moving = FALSE /\ grounds = Grace + 1

Permit == grounds' \in 0 .. FreshAge /\ UNCHANGED moving

Go == grounds <= Grace /\ moving' = TRUE /\ UNCHANGED grounds

Halt == moving' = FALSE /\ UNCHANGED grounds

(* Old grounds and motion do not go together.                              *)
Pass ==
    /\ moving => grounds < Grace
    /\ grounds' = IF grounds <= Grace THEN grounds + 1 ELSE grounds
    /\ UNCHANGED moving

PermitNext == Permit \/ Go \/ Halt \/ Pass

PermitSpec == PermitInit /\ [][PermitNext]_permitVars

(* Motion has grounds.                                                     *)
MovesOnGrounds == moving => grounds <= Grace
=============================================================================
