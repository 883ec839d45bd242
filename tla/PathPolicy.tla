----------------------------- MODULE PathPolicy -----------------------------
(***************************************************************************)
(* PathHealthPolicy of path_health.py: the judgement of the path being     *)
(* followed against the global costmap.  A near obstacle replans at once,  *)
(* a far one only when it persists; drift and lack of progress replan      *)
(* after a cooldown.                                                       *)
(*                                                                         *)
(* A path is its samples, one per sample_step_m, and a costmap gives each  *)
(* of them the cost of the footprint there; times are ages in ticks.       *)
(***************************************************************************)
EXTENDS Naturals, FiniteSets

CONSTANTS
    Samples,            \* samples on a path
    Costmaps,           \* costs of the samples, in the costmaps that arrive
    NearHorizon,        \* near_horizon_m, in samples
    MaxDistance,        \* max_distance_m, in samples
    HighSamples,        \* high_samples
    CrossConfirmations, \* cross_track_confirmations
    SamePlace,          \* distance within which a far obstacle is the same one
    CostmapTimeout, FarPersistence, Cooldown, ProgressTimeout,
    MaxKeepouts         \* bound: revisions of the keepout zones

Costs == {"free", "high", "lethal"}
PathIds == {1, 2}

PolicyIsValid ==
    /\ Costmaps \subseteq [1 .. Samples -> Costs]
    /\ Samples \in Nat \ {0} /\ HighSamples \in Nat \ {0} /\ CrossConfirmations \in Nat \ {0}
    /\ NearHorizon \in 1 .. MaxDistance - 1 /\ MaxDistance \in Nat /\ SamePlace \in Nat
    /\ CostmapTimeout \in Nat /\ FarPersistence \in Nat \ {0} /\ Cooldown \in Nat
    /\ ProgressTimeout \in Nat \ {0} /\ MaxKeepouts \in Nat

VARIABLES
    costmap,    \* the last costmap: is there one, its age, its costs
    track,      \* the path, and the robot's progress on it
    keepouts,   \* revision of the projected keepouts, 0 before the first one
    policy,     \* the state of PathHealthPolicy
    verdict,    \* its last answer
    farRun      \* history: the run of evaluations of a path that all saw a far
                \* obstacle: how long ago it began, in how many costmaps

pathVars == <<costmap, track, keepouts, policy, verdict, farRun>>

NoFar == [seen |-> FALSE, age |-> 0, counted |-> FALSE, count |-> 0, place |-> 0]
NoRun == [path |-> 0, age |-> 0, maps |-> 0, fresh |-> TRUE]

PathInit ==
    /\ PolicyIsValid
    /\ costmap = [known |-> FALSE, age |-> 0, cost |-> [i \in 1 .. Samples |-> "free"]]
    /\ track = [path |-> 1, progress |-> 0]
    /\ keepouts = 0
    /\ policy = [path |-> 0, best |-> 0, stalled |-> 0, cross |-> 0, replan |-> Cooldown,
                 far |-> NoFar, keepout |-> 0]
    /\ verdict = [state |-> "none", reason |-> "none"]
    /\ farRun = NoRun

-----------------------------------------------------------------------------
Ahead == {i \in 1 .. Samples : i > track.progress /\ i - track.progress <= MaxDistance}

(* A lethal sample, or the last of HighSamples costly ones in a row.       *)
Obstructed(i) ==
    \/ costmap.cost[i] = "lethal"
    \/ i - track.progress >= HighSamples
       /\ \A j \in i - HighSamples + 1 .. i : costmap.cost[j] # "free"

NearObstacle == \E i \in Ahead : i - track.progress <= NearHorizon /\ Obstructed(i)
FarSamples == {i \in Ahead : Obstructed(i)}
FarPlace == CHOOSE i \in FarSamples : \A j \in FarSamples : i <= j

(* _evaluate_geometry for the path being followed.                         *)
Geometry ==
    IF NearObstacle THEN [state |-> "replan", reason |-> "obstacle"]
    ELSE IF FarSamples # {} THEN [state |-> "keep", reason |-> "far"]
    ELSE [state |-> "keep", reason |-> "healthy"]

(* The same for a candidate, on which every obstacle is near.              *)
CandidateGeometry ==
    IF FarSamples # {} THEN [state |-> "replan", reason |-> "obstacle"]
    ELSE [state |-> "keep", reason |-> "healthy"]

Distance(a, b) == IF a > b THEN a - b ELSE b - a

(* The observation of a far obstacle, continued or begun anew.             *)
FarObserved(far) ==
    LET same == far.seen /\ Distance(FarPlace, far.place) <= SamePlace
        kept == IF same THEN far ELSE [NoFar EXCEPT !.seen = TRUE, !.place = FarPlace]
    IN  IF kept.counted THEN kept
        ELSE [kept EXCEPT !.counted = TRUE, !.count = IF @ < 2 THEN @ + 1 ELSE @]

Persistent(far) == far.count >= 2 /\ far.age >= FarPersistence

-----------------------------------------------------------------------------
(* History: does this evaluation prolong the run of far sightings?         *)
RunOf(saw) ==
    IF ~saw THEN NoRun
    ELSE IF farRun.path = track.path
    THEN [farRun EXCEPT !.maps = IF farRun.fresh /\ @ < 2 THEN @ + 1 ELSE @, !.fresh = FALSE]
    ELSE [path |-> track.path, age |-> 0, maps |-> 1, fresh |-> FALSE]

Answer(state, reason, saw) ==
    /\ verdict' = [state |-> state, reason |-> reason]
    /\ farRun' = RunOf(saw)

(* Broken variant: a gap in the data does not end the observation.         *)
NoDataKeepsFar(tf) ==
    /\ ~tf \/ ~costmap.known \/ costmap.age > CostmapTimeout
    /\ Answer("stop", "data", FALSE)
    /\ UNCHANGED policy

(* Data that is missing or old ends the observation of a far obstacle.     *)
NoData(tf) ==
    /\ ~tf \/ ~costmap.known \/ costmap.age > CostmapTimeout
    /\ policy' = [policy EXCEPT !.far = NoFar]
    /\ Answer("stop", "data", FALSE)

KeepoutsDiffer == policy.keepout # 0 /\ keepouts # policy.keepout

KeepoutChanged ==
    /\ KeepoutsDiffer
    /\ policy' = [policy EXCEPT !.keepout = keepouts, !.far = NoFar]
    /\ Answer("replan", "keepout", FALSE)

(* Signature, progress and drift (off: beyond cross_track_replan_m, on:    *)
(* within cross_track_recover_m); then the costs; then drift and progress  *)
(* once the cooldown is over.                                              *)
Judge(off) ==
    LET known == track.path = policy.path
        advanced == known /\ track.progress > policy.best
        cross == IF off = "off" THEN IF known THEN policy.cross + 1 ELSE 1
                 ELSE IF off = "on" \/ ~known THEN 0 ELSE policy.cross
        saw == Geometry.reason = "far"
        far == IF saw THEN FarObserved(IF known THEN policy.far ELSE NoFar) ELSE NoFar
        stalled == IF known /\ ~advanced THEN policy.stalled ELSE 0
        judged == [policy EXCEPT
                     !.path = track.path,
                     !.best = IF known /\ ~advanced THEN @ ELSE track.progress,
                     !.stalled = stalled,
                     !.cross = IF cross < CrossConfirmations THEN cross ELSE CrossConfirmations,
                     !.far = far, !.keepout = keepouts]
    IN  IF Geometry.state = "replan" \/ Persistent(far)
        THEN /\ policy' = [judged EXCEPT !.replan = 0]
             /\ Answer("replan", IF Persistent(far) THEN "persistent" ELSE "obstacle", saw)
        ELSE IF policy.replan >= Cooldown /\ judged.cross >= CrossConfirmations
        THEN policy' = [judged EXCEPT !.replan = 0] /\ Answer("replan", "drift", saw)
        ELSE IF policy.replan >= Cooldown /\ stalled >= ProgressTimeout
        THEN policy' = [judged EXCEPT !.replan = 0] /\ Answer("replan", "stalled", saw)
        ELSE policy' = judged /\ Answer(Geometry.state, Geometry.reason, saw)

EvaluateActive(tf, off) ==
    /\ \/ NoData(tf)
       \/ /\ tf /\ costmap.known /\ costmap.age <= CostmapTimeout
          /\ KeepoutChanged \/ (~KeepoutsDiffer /\ Judge(off))
    /\ UNCHANGED <<costmap, track, keepouts>>

(* A path of less than two poses is told before the policy is asked.       *)
EvaluateMissing ==
    /\ verdict' = [state |-> "replan", reason |-> "missing"]
    /\ UNCHANGED <<costmap, track, keepouts, policy, farRun>>

(* A candidate is judged on its own and leaves no trace.                   *)
EvaluateCandidate ==
    /\ verdict' = IF costmap.known /\ costmap.age <= CostmapTimeout THEN CandidateGeometry
                  ELSE [state |-> "stop", reason |-> "data"]
    /\ UNCHANGED <<costmap, track, keepouts, policy, farRun>>

-----------------------------------------------------------------------------
OnCostmap(cost) ==
    /\ costmap' = [known |-> TRUE, age |-> 0, cost |-> cost]
    /\ policy' = [policy EXCEPT !.far.counted = FALSE]
    /\ farRun' = [farRun EXCEPT !.fresh = TRUE]
    /\ UNCHANGED <<track, keepouts, verdict>>

OnKeepouts ==
    /\ keepouts < MaxKeepouts
    /\ keepouts' = keepouts + 1
    /\ UNCHANGED <<costmap, track, policy, verdict, farRun>>

(* The robot moves, or gets another path.                                  *)
MoveOn ==
    /\ track.progress + 1 < Samples
    /\ track' = [track EXCEPT !.progress = @ + 1]
    /\ UNCHANGED <<costmap, keepouts, policy, verdict, farRun>>

NewPath ==
    /\ track' = [path |-> 3 - track.path, progress |-> 0]
    /\ UNCHANGED <<costmap, keepouts, policy, verdict, farRun>>

OneOlder(n, cap) == IF n < cap THEN n + 1 ELSE n

ElapsePath ==
    /\ costmap' = [costmap EXCEPT !.age = OneOlder(@, CostmapTimeout + 1)]
    /\ policy' = [policy EXCEPT !.stalled = OneOlder(@, ProgressTimeout),
                                !.replan = OneOlder(@, Cooldown),
                                !.far.age = IF policy.far.seen THEN OneOlder(@, FarPersistence)
                                            ELSE 0]
    /\ farRun' = [farRun EXCEPT !.age = IF farRun.path # 0 THEN OneOlder(@, FarPersistence)
                                       ELSE 0]
    /\ UNCHANGED <<track, keepouts, verdict>>

PathNext ==
    \/ \E tf \in BOOLEAN, off \in {"on", "between", "off"} : EvaluateActive(tf, off)
    \/ EvaluateMissing \/ EvaluateCandidate
    \/ \E cost \in Costmaps : OnCostmap(cost)
    \/ OnKeepouts
    \/ MoveOn \/ NewPath \/ ElapsePath

PathSpec == PathInit /\ [][PathNext]_pathVars

-----------------------------------------------------------------------------
PathTypeOK ==
    /\ costmap \in [known : BOOLEAN, age : 0 .. CostmapTimeout + 1,
                    cost : [1 .. Samples -> Costs]]
    /\ track \in [path : PathIds, progress : 0 .. Samples]
    /\ keepouts \in 0 .. MaxKeepouts
    /\ policy \in [path : {0} \cup PathIds, best : 0 .. Samples, stalled : 0 .. ProgressTimeout,
                   cross : 0 .. CrossConfirmations, replan : 0 .. Cooldown,
                   far : [seen : BOOLEAN, age : 0 .. FarPersistence, counted : BOOLEAN,
                          count : 0 .. 2, place : 0 .. Samples],
                   keepout : 0 .. MaxKeepouts]
    /\ verdict.state \in {"none", "keep", "replan", "stop"}

(* A far obstacle replans only when it has earned it: for at least         *)
(* far_persistence_s every evaluation of this path has seen one, in at     *)
(* least two costmaps, without a gap in the data.  (evaluate measures the  *)
(* time from the first sighting of one place, so the run may be longer.)   *)
FarReplanIsEarned ==
    verdict.reason = "persistent" =>
        farRun.maps >= 2 /\ farRun.age >= FarPersistence
=============================================================================
