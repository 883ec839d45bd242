---------------------------- MODULE PatrolDomain ----------------------------
(***************************************************************************)
(* The ROS-free half of the patrol: PatrolMachine (patrol_domain.py) and   *)
(* PatrolBatteryInputPolicy (patrol_battery_input.py), as operators from a *)
(* state to the next one.  A machine is one record; NoMachine stands for   *)
(* the coordinator's `self._machine = None`.                               *)
(***************************************************************************)
EXTENDS Integers, FiniteSets

CONSTANTS
    LoopLen,        \* number of waypoints of the loop
    DepartLen,      \* number of waypoints of the depart connector, may be 0
    ReturnLen,      \* number of waypoints of the return connector, may be 0
    EntryIndex,     \* depart_entry_loop_index
    Dist            \* distance of each loop waypoint to the return reference

(* validate_mission, after coordinates: what every started mission obeys.  *)
ValidMission ==
    /\ LoopLen \in Nat /\ LoopLen >= 2
    /\ DepartLen \in Nat /\ ReturnLen \in Nat
    /\ EntryIndex \in 0 .. LoopLen - 1
    /\ Dist \in [0 .. LoopLen - 1 -> Nat]
ASSUME SpecAssumption == ValidMission

LoopIndex == 0 .. LoopLen - 1

MovingPhases == {"DEPART_HOME", "JOIN_LOOP", "PATROL", "EXIT_LOOP", "RETURN_HOME"}
PatrolPhase == MovingPhases \union {"IDLE", "AT_HOME", "PAUSED", "ABORTED"}

(* "NONE" is the phase of the absent machine; exit -1 is `return_exit is None`. *)
Machine(ids) == [phase : PatrolPhase \union {"NONE"}, low : BOOLEAN,
                 exit : LoopIndex \union {-1}, mid : ids]
NoMachine == [phase |-> "NONE", low |-> FALSE, exit |-> -1, mid |-> 0]

Active(m) == m.phase \in MovingPhases

(* Broken variants, for the mutation runs: an exit counted from one, and   *)
(* the first waypoint instead of the nearest.                              *)
SelectReturnExitFromOne ==
    1 + CHOOSE i \in LoopIndex :
            \A j \in LoopIndex : Dist[i] < Dist[j] \/ (Dist[i] = Dist[j] /\ i <= j)
SelectFirstExit == CHOOSE i \in LoopIndex : \A j \in LoopIndex : i <= j

(* The nearest loop waypoint, the first one in a tie. *)
SelectReturnExit ==
    CHOOSE i \in LoopIndex :
        \A j \in LoopIndex : Dist[i] < Dist[j] \/ (Dist[i] = Dist[j] /\ i <= j)

(* Broken variant: a latch found at the start is not kept by the mission.  *)
StartForgetsLatch(mid, atHome, latched) ==
    [phase |-> IF atHome /\ DepartLen > 0 THEN "DEPART_HOME" ELSE "JOIN_LOOP",
     low |-> FALSE, exit |-> -1, mid |-> mid]

(* PatrolMachine.start of a new machine. *)
Start(mid, atHome, latched) ==
    [phase |-> IF atHome /\ latched THEN "AT_HOME"
               ELSE IF atHome /\ DepartLen > 0 THEN "DEPART_HOME" ELSE "JOIN_LOOP",
     low |-> latched, exit |-> -1, mid |-> mid]

RequestReturnHome(m) ==
    IF m.phase = "PATROL"
    THEN [m EXCEPT !.exit = SelectReturnExit, !.phase = "EXIT_LOOP"]
    ELSE m

(* Broken variant: a patrol already returning selects an exit again.       *)
LatchBatteryReturnAgain(m, atHome) ==
    LET l == [m EXCEPT !.low = TRUE] IN
    IF m.phase = "DEPART_HOME" /\ atHome THEN [l EXCEPT !.phase = "AT_HOME"]
    ELSE IF m.phase \in {"PATROL", "RETURN_HOME"}
    THEN [l EXCEPT !.phase = "EXIT_LOOP", !.exit = SelectReturnExit] ELSE l

(* latch_battery_return; the BatteryReturnTransition it returns is read off *)
(* the two phases, CancelActiveRoute being the only field with an effect.   *)
LatchBatteryReturn(m, atHome) ==
    LET l == [m EXCEPT !.low = TRUE] IN
    IF m.phase = "DEPART_HOME" /\ atHome THEN [l EXCEPT !.phase = "AT_HOME"]
    ELSE RequestReturnHome(l)

CancelActiveRoute(before, after) ==
    before.phase = "DEPART_HOME" /\ after.phase = "AT_HOME"

(* Broken variant: the deferred battery return is forgotten at the join.   *)
GoalSucceededForgetsReturn(m, index) ==
    CASE m.phase = "DEPART_HOME" -> [m EXCEPT !.phase = "JOIN_LOOP"]
      [] m.phase = "JOIN_LOOP"   -> [m EXCEPT !.phase = "PATROL"]
      [] m.phase = "EXIT_LOOP" /\ index = m.exit -> [m EXCEPT !.phase = "RETURN_HOME"]
      [] m.phase = "RETURN_HOME" -> [m EXCEPT !.phase = "AT_HOME"]
      [] OTHER -> m

GoalSucceeded(m, index) ==
    CASE m.phase = "DEPART_HOME" -> [m EXCEPT !.phase = "JOIN_LOOP"]
      [] m.phase = "JOIN_LOOP"   ->
            LET p == [m EXCEPT !.phase = "PATROL"]
            IN  IF m.low THEN RequestReturnHome(p) ELSE p
      [] m.phase = "EXIT_LOOP" /\ index = m.exit -> [m EXCEPT !.phase = "RETURN_HOME"]
      [] m.phase = "RETURN_HOME" -> [m EXCEPT !.phase = "AT_HOME"]
      [] OTHER -> m

Pause(m) == IF Active(m) THEN [m EXCEPT !.phase = "PAUSED"] ELSE m
Abort(m) == [m EXCEPT !.phase = "ABORTED"]

(* PatrolMachine.current_route: the leg a phase executes, its length, and   *)
(* the loop index that its k-th waypoint carries (-1: not a loop waypoint). *)
Leg(phase) == CASE phase = "DEPART_HOME" -> "DEPART"
                [] phase \in {"JOIN_LOOP", "PATROL", "EXIT_LOOP"} -> "LOOP"
                [] phase = "RETURN_HOME" -> "RETURN"
                [] OTHER -> "NONE"
LegLen(leg) == CASE leg = "DEPART" -> DepartLen + 1
                 [] leg = "LOOP"   -> LoopLen
                 [] leg = "RETURN" -> ReturnLen + 1
                 [] OTHER          -> 1

(* Only a leg dispatched in JOIN_LOOP is rotated past the entry waypoint.   *)
InputIndex(leg, k) ==
    CASE k \notin 0 .. LegLen(leg) - 1 -> -1
      [] leg = "LOOP"   -> (EntryIndex + 1 + k) % LoopLen
      [] leg = "DEPART" -> IF k = DepartLen THEN EntryIndex ELSE k
      [] leg = "RETURN" -> IF k = ReturnLen THEN -1 ELSE k
      [] OTHER          -> -1

-----------------------------------------------------------------------------
(* Battery samples, reduced to what evaluate tells apart: a guard that is   *)
(* valid and recommends the return, valid and does not, or not valid (never *)
(* received, not ready, stale state, or older than guard_timeout_s).        *)
Guards == {"recommends", "clear", "invalid"}
Socs == {"low", "above", "invalid"}

BatteryInput == [guard : Guards, soc : Socs, seen : BOOLEAN, latched : BOOLEAN]

NoBatteryInput == [guard |-> "invalid", soc |-> "invalid",
                   seen |-> FALSE, latched |-> FALSE]

(* evaluate: the latch is only ever set here, and seen remembers a valid    *)
(* guard for good.                                                          *)
Evaluate(b) ==
    [b EXCEPT !.seen = b.seen \/ b.guard # "invalid",
              !.latched = \/ b.latched
                          \/ b.guard = "recommends"
                          \/ b.guard = "invalid" /\ ~b.seen /\ b.soc = "low"]

(* begin_mission and end_mission do the same. *)
ClearLatch(b) == [b EXCEPT !.latched = FALSE]
=============================================================================
