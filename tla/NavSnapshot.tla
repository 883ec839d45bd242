----------------------------- MODULE NavSnapshot -----------------------------
(***************************************************************************)
(* nav_snapshot_server.py: the picture of the costmap, the plan and the    *)
(* other layers that the cockpit asks for.                                 *)
(*                                                                         *)
(* Messages are cached by one callback group while the service draws in    *)
(* another.  Nav2 publishes a plan once, not as a stream, so the plan is   *)
(* retained while the telemetry says that the goal is active; telemetry is *)
(* sampled, and a goal that replaces another may leave no inactive sample. *)
(***************************************************************************)
EXTENDS Integers

CONSTANTS
    MaxAge,         \* local_costmap_max_age_s and dynamic_layer_max_age_s
    StartupGrace,   \* startup_grace_s
    MaxSnapTime,    \* bound: ROS time
    MaxPlans,       \* bound: plans
    MaxCostmaps,    \* bound: costmaps and updates
    MaxSnapGoals    \* bound: goals

ASSUME SnapshotAssumption == MaxAge \in Nat

VARIABLES
    snapNow,        \* ROS time, and monotonic time: they advance together
    navGoal,        \* nav_command_server: the goal that is active (0: none), and
                    \* goals, plans and costmaps so far; history: when navigation
                    \* last ended
    planWire,       \* the plan on its way, as a set of at most one
    cache,          \* _cache: local costmap, plan, telemetry (the other layers are
                    \* cached like the costmap and drawn like the plan)
    retention,      \* ActivePlanRetention
    shown           \* the response given in the last step

snapshotVars == <<snapNow, navGoal, planWire, cache, retention, shown>>

Absent == [stamp |-> -1, first |-> -1, last |-> -1, goal |-> 0]
EmptyCache == [local |-> Absent, plan |-> Absent, telemetry |-> Absent]
NoRetention == [active |-> FALSE, seen |-> FALSE, held |-> Absent, since |-> 0]
NoResponse == [error |-> "", plan |-> Absent, retained |-> FALSE, told |-> 0, since |-> 0]
Errors == {"", "MISSING_LOCAL_COSTMAP", "INVALID_LOCAL_COSTMAP", "STALE_LOCAL_COSTMAP",
           "MISSING_LOCAL_TF", "INTERNAL_ERROR"}

SnapshotTypeOK ==
    /\ snapNow \in 1..MaxSnapTime
    /\ navGoal.active \in 0..navGoal.count /\ navGoal.count \in 0..MaxSnapGoals
    /\ retention.active => retention.seen
    /\ shown.error \in Errors

-----------------------------------------------------------------------------
SnapshotInit ==
    /\ snapNow = 1 /\ navGoal = [active |-> 0, count |-> 0, plans |-> 0, costmaps |-> 0,
                                  ended |-> 0]
    /\ planWire = {}
    /\ cache = EmptyCache /\ retention = NoRetention
    /\ shown = NoResponse

SnapTick ==
    /\ snapNow < MaxSnapTime /\ snapNow' = snapNow + 1
    /\ UNCHANGED <<navGoal, planWire, cache, retention>>

(* nav_command_server: a goal starts, ends, or replaces the one before.    *)
GoalStarts ==
    /\ navGoal.count < MaxSnapGoals
    /\ navGoal' = [navGoal EXCEPT !.active = navGoal.count + 1, !.count = @ + 1]
    /\ UNCHANGED <<snapNow, planWire, cache, retention>>

GoalStops ==
    /\ navGoal.active # 0 /\ navGoal' = [navGoal EXCEPT !.active = 0, !.ended = snapNow]
    /\ UNCHANGED <<snapNow, planWire, cache, retention>>

(* External: the planner's plan for the goal.                              *)
PlanPublished ==
    /\ navGoal.active # 0 /\ planWire = {} /\ navGoal.plans < MaxPlans
    /\ planWire' = {[stamp |-> snapNow, goal |-> navGoal.active]}
    /\ navGoal' = [navGoal EXCEPT !.plans = @ + 1]
    /\ UNCHANGED <<snapNow, cache, retention>>

-----------------------------------------------------------------------------
(* Cached: the first receipt is kept as long as the key is.                *)
Cached(key, stamp, goal) ==
    [stamp |-> stamp, goal |-> goal, last |-> snapNow,
     first |-> IF cache[key] = Absent THEN snapNow ELSE cache[key].first]

(* is_fresh: a message without a stamp is good for the startup only.       *)
IsFresh(cached) ==
    /\ cached # Absent
    /\ IF cached.stamp = 0 THEN snapNow - cached.first <= StartupGrace
       ELSE snapNow - cached.stamp \in 0..MaxAge

(* Telemetry has no header: its last receipt counts.                       *)
TelemetryFresh(cached) == cached # Absent /\ snapNow - cached.last <= MaxAge

(* _cache_message: the costmap arrives, stamped or not.                    *)
CacheMessage(stamped) ==
    /\ navGoal.costmaps < MaxCostmaps /\ navGoal' = [navGoal EXCEPT !.costmaps = @ + 1]
    /\ cache' = [cache EXCEPT !.local = Cached("local", IF stamped THEN snapNow ELSE 0, 0)]
    /\ UNCHANGED <<snapNow, planWire, retention>>

(* apply_grid_update: a copy of the grid with the cells of the update.     *)
GridUpdated(fits) == IF fits THEN Cached("local", snapNow, 0) ELSE cache.local

(* _cache_grid_update: on the grid there is, if it fits.                   *)
CacheGridUpdate(fits) ==
    /\ navGoal.costmaps < MaxCostmaps /\ navGoal' = [navGoal EXCEPT !.costmaps = @ + 1]
    /\ cache.local # Absent
    /\ cache' = [cache EXCEPT !.local = GridUpdated(fits)]
    /\ UNCHANGED <<snapNow, planWire, retention>>

(* ActivePlanRetention.update_plan, called by _cache_plan.                 *)
CachePlan ==
    /\ \E p \in planWire :
         LET cached == Cached("plan", p.stamp, p.goal)
         IN /\ cache' = [cache EXCEPT !.plan = cached]
            /\ retention' = IF retention.active THEN [retention EXCEPT !.held = cached]
                            ELSE retention
    /\ planWire' = {}
    /\ UNCHANGED <<snapNow, navGoal>>

(* Broken variant: a goal that ends leaves its plan behind.                *)
UpdateGoalKeepingPlan(active) ==
    [retention EXCEPT !.active = active, !.seen = TRUE,
        !.since = IF active /\ ~retention.active THEN snapNow ELSE @,
        !.held = IF active /\ ~retention.active /\ IsFresh(cache.plan) THEN cache.plan ELSE @]

(* ActivePlanRetention.update_goal: the plan ends with the activity; a     *)
(* plan that came before the activity was told is latched if still fresh.  *)
(* since notes when the activity was told.                                 *)
UpdateGoal(active) ==
    [retention EXCEPT !.active = active, !.seen = TRUE,
        !.since = IF active /\ ~retention.active THEN snapNow ELSE @,
        !.held = IF ~active THEN Absent
                 ELSE IF ~retention.active /\ IsFresh(cache.plan) THEN cache.plan ELSE @]

(* _cache_nav_telemetry: a sample of the timer in nav_command_server.      *)
CacheNavTelemetry ==
    /\ cache' = [cache EXCEPT !.telemetry = Cached("telemetry", 0, navGoal.active)]
    /\ retention' = UpdateGoal(navGoal.active # 0)
    /\ UNCHANGED <<snapNow, navGoal, planWire>>

-----------------------------------------------------------------------------
(* ActivePlanRetention.select: the plan and whether it is a retained one.  *)
Select ==
    IF retention.seen /\ ~retention.active THEN [plan |-> Absent, retained |-> FALSE]
    ELSE IF IsFresh(cache.plan) THEN [plan |-> cache.plan, retained |-> FALSE]
    ELSE IF retention.active /\ TelemetryFresh(cache.telemetry)
    THEN [plan |-> retention.held, retained |-> retention.held # Absent]
    ELSE [plan |-> Absent, retained |-> FALSE]

(* The requirements of an image, in the order they are checked.            *)
SnapshotError(valid, robotTf, drawn) ==
    IF cache.local = Absent THEN "MISSING_LOCAL_COSTMAP"
    ELSE IF ~valid THEN "INVALID_LOCAL_COSTMAP"
    ELSE IF ~IsFresh(cache.local) THEN "STALE_LOCAL_COSTMAP"
    ELSE IF ~robotTf THEN "MISSING_LOCAL_TF"
    ELSE IF ~drawn THEN "INTERNAL_ERROR" ELSE ""

(* A layer that is stale or has no transform is left out, no more.         *)
PlanDrawn(layerTf) == IF layerTf THEN Select ELSE [plan |-> Absent, retained |-> FALSE]

(* _on_snapshot: an image, or an error without one.  It works on the copy  *)
(* that _copy_cache makes under the lock when the request comes, so what   *)
(* is cached while it draws belongs to the next one.                       *)
SnapshotAnswered(valid, robotTf, layerTf, drawn) ==
    LET error == SnapshotError(valid, robotTf, drawn)
        choice == PlanDrawn(layerTf)
    IN /\ shown' = [error |-> error, plan |-> IF error = "" THEN choice.plan ELSE Absent,
                    retained |-> error = "" /\ choice.retained,
                    told |-> cache.telemetry.goal, since |-> retention.since]
       /\ UNCHANGED <<snapNow, navGoal, planWire, cache, retention>>

SnapshotNext ==
    \/ /\ \/ SnapTick \/ GoalStarts \/ GoalStops \/ PlanPublished
          \/ \E stamped \in BOOLEAN : CacheMessage(stamped)
          \/ \E fits \in BOOLEAN : CacheGridUpdate(fits)
          \/ CachePlan \/ CacheNavTelemetry
       /\ shown' = NoResponse
    \/ \E valid, robotTf, layerTf, drawn \in BOOLEAN :
         SnapshotAnswered(valid, robotTf, layerTf, drawn)

SnapshotSpec == SnapshotInit /\ [][SnapshotNext]_snapshotVars

-----------------------------------------------------------------------------
(* A plan is drawn, fresh or retained, while there is navigation, and      *)
(* never longer than MaxAge after it ended, whether or not the telemetry   *)
(* that tells of the end arrives: a retained plan rests on a sample that   *)
(* is still fresh, any other one on its own stamp.                         *)
PlanEndsWithNavigation ==
    shown.plan # Absent => navGoal.active # 0 \/ snapNow - navGoal.ended <= MaxAge

(* A plan is retained past its age only if it was cached while the         *)
(* telemetry told of an active goal, without a sample to the contrary      *)
(* since, or was at most MaxAge old when the telemetry began to tell so.   *)
(* It need not be the plan of the goal that is told: a plan that is still  *)
(* fresh when its goal ends is latched for a goal that starts at once.     *)
RetainedPlanIsRecent ==
    shown.retained => \/ shown.plan.last >= shown.since
                      \/ shown.plan.stamp >= shown.since - MaxAge
=============================================================================
