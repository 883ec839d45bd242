--------------------------- MODULE ContinuityTrial ---------------------------
(***************************************************************************)
(* chunk_continuity_runner.py: one route is driven through the productive  *)
(* services and what happened at the boundary of its chunks is put         *)
(* together afterwards from the events and plans that were observed.       *)
(*                                                                         *)
(* The route executor and the navigation server publish on one topic;      *)
(* their events keep their order per publisher and carry simulation time,  *)
(* which is too coarse to tell every two events apart.  A blocked chunk is *)
(* dispatched again while its goal is still being cancelled.               *)
(***************************************************************************)
EXTENDS Integers, Sequences, SequencesExt

CONSTANTS
    Chunks,         \* chunks of the route, and minimum_dispatches
    MaxStamps,      \* bound: simulation time
    MaxRedispatches \* bound: chunks dispatched again

VARIABLES
    stage,          \* where run() stands
    nowStamp,       \* simulation time
    routing,        \* the route executor: status, chunk, redispatches
    driving,        \* its goal at the navigation server: generation, state, since
    leaving,        \* generation of the goal being cancelled, 0 for none
    rexWire, navWire,   \* events on their way, by publisher
    observed,       \* events received, in order of arrival
    planned,        \* stamps and generations of the plans received
    summary         \* the windows of the summary and its conclusion

continuityVars == <<stage, nowStamp, routing, driving, leaving, rexWire, navWire, observed,
                    planned, summary>>

Prerequisites == <<"odom", "fromll", "nav_goal", "set">>
Outcomes == {"", "OBSERVED_PARTIAL", "INCONCLUSIVE", "setup_or_observation_failure"}

ContinuityTypeOK ==
    /\ stage \in Range(Prerequisites) \union {"running", "done"}
    /\ nowStamp \in 0..MaxStamps
    /\ routing.status \in {"idle", "active", "COMPLETED", "PAUSED"}
    /\ driving.state \in {"none", "sent", "active"}
    /\ summary.conclusion \in Outcomes

-----------------------------------------------------------------------------
(* __init__.                                                               *)
ContinuityInit ==
    /\ stage = "odom" /\ nowStamp = 0
    /\ routing = [status |-> "idle", chunk |-> 1, redispatches |-> 0]
    /\ driving = [generation |-> 0, state |-> "none", since |-> 0] /\ leaving = 0
    /\ rexWire = <<>> /\ navWire = <<>> /\ observed = <<>> /\ planned = {}
    /\ summary = [windows |-> <<>>, conclusion |-> ""]

(* Time before the route is sent stamps nothing.                           *)
StampTick ==
    /\ stage = "running" /\ nowStamp < MaxStamps /\ nowStamp' = nowStamp + 1
    /\ UNCHANGED <<stage, routing, driving, leaving, rexWire, navWire, observed, planned, summary>>

Event(code, generation) == [code |-> code, stamp |-> nowStamp, generation |-> generation]

(* The route executor dispatches a chunk.                                  *)
DispatchesChunk ==
    /\ routing.status = "active" /\ driving.state = "none"
    /\ driving' = [generation |-> driving.generation + 1, state |-> "sent", since |-> nowStamp]
    /\ rexWire' = Append(rexWire, Event("ROUTE_CHUNK_DISPATCHED", driving.generation + 1))
    /\ UNCHANGED <<stage, nowStamp, routing, leaving, navWire, observed, planned, summary>>

(* The navigation server takes a goal when the one before has ended.       *)
AcceptsGoal ==
    /\ driving.state = "sent" /\ leaving = 0
    /\ driving' = [driving EXCEPT !.state = "active", !.since = nowStamp]
    /\ navWire' = Append(navWire, Event("GOAL_ACCEPTED", driving.generation))
    /\ UNCHANGED <<stage, nowStamp, routing, leaving, rexWire, observed, planned, summary>>

(* It refuses the goal, or the goal is aborted: the route pauses.          *)
RefusesGoal ==
    /\ driving.state # "none" /\ leaving = 0
    /\ navWire' = Append(navWire, Event(IF driving.state = "sent" THEN "GOAL_REJECTED"
                                        ELSE "GOAL_RESULT_ABORTED", driving.generation))
    /\ driving' = [driving EXCEPT !.state = "none"]
    /\ routing' = [routing EXCEPT !.status = "PAUSED"]
    /\ UNCHANGED <<stage, nowStamp, leaving, rexWire, observed, planned, summary>>

(* A chunk is driven to its end, which takes time.                         *)
ReachesGoal ==
    /\ driving.state = "active" /\ nowStamp > driving.since
    /\ navWire' = Append(navWire, Event("GOAL_RESULT_SUCCEEDED", driving.generation))
    /\ driving' = [driving EXCEPT !.state = "none"]
    /\ routing' = IF routing.chunk = Chunks THEN [routing EXCEPT !.status = "COMPLETED"]
                  ELSE [routing EXCEPT !.chunk = @ + 1]
    /\ UNCHANGED <<stage, nowStamp, leaving, rexWire, observed, planned, summary>>

(* The chunk is blocked, which takes seconds to tell: its goal is to be    *)
(* cancelled and sent again.                                               *)
Redispatches ==
    /\ driving.state = "active" /\ nowStamp > driving.since /\ routing.redispatches < MaxRedispatches
    /\ leaving' = driving.generation /\ driving' = [driving EXCEPT !.state = "none"]
    /\ routing' = [routing EXCEPT !.redispatches = @ + 1]
    /\ UNCHANGED <<stage, nowStamp, rexWire, navWire, observed, planned, summary>>

(* The cancelled goal has ended.                                           *)
CancelledGoalEnds ==
    /\ leaving # 0 /\ leaving' = 0
    /\ navWire' = Append(navWire, Event("GOAL_CANCELLED", leaving))
    /\ UNCHANGED <<stage, nowStamp, routing, driving, rexWire, observed, planned, summary>>

(* _plan: the planner's path for the goal being driven (bound: one plan of *)
(* each goal; the planner repeats it).                                     *)
ObservesPlan ==
    /\ stage = "running" /\ driving.state = "active"
    /\ \A p \in planned : p.generation # driving.generation
    /\ planned' = planned \union {[stamp |-> nowStamp, generation |-> driving.generation]}
    /\ UNCHANGED <<stage, nowStamp, routing, driving, leaving, rexWire, navWire, observed, summary>>

(* _event.                                                                 *)
ObservesEvent ==
    /\ \/ rexWire # <<>> /\ observed' = Append(observed, Head(rexWire))
          /\ rexWire' = Tail(rexWire) /\ UNCHANGED navWire
       \/ navWire # <<>> /\ observed' = Append(observed, Head(navWire))
          /\ navWire' = Tail(navWire) /\ UNCHANGED rexWire
    /\ UNCHANGED <<stage, nowStamp, routing, driving, leaving, planned, summary>>

-----------------------------------------------------------------------------
ResultCodes == {"GOAL_RESULT_SUCCEEDED", "GOAL_RESULT_ABORTED", "GOAL_CANCELLED"}
Dispatched == SelectSeq(observed, LAMBDA e : e.code = "ROUTE_CHUNK_DISPATCHED")
FirstOf(events) == IF events = <<>> THEN [code |-> "none", stamp |-> 0, generation |-> 0]
                   ELSE Head(events)

(* The window of a dispatch: until the next one.                           *)
Inside(event, i) ==
    /\ event.stamp >= Dispatched[i].stamp
    /\ i < Len(Dispatched) => event.stamp < Dispatched[i + 1].stamp

(* The acceptance a window is given.                                       *)
AcceptedIn(i) ==
    FirstOf(SelectSeq(observed, LAMBDA e : e.code = "GOAL_ACCEPTED" /\ Inside(e, i)))

(* Broken variant: any result of the window.                               *)
ResultInAny(i) ==
    FirstOf(SelectSeq(observed, LAMBDA e : e.code \in ResultCodes /\ Inside(e, i)))

(* The result a window is given: of the accepted goal, if one was seen.    *)
ResultIn(i) ==
    FirstOf(SelectSeq(observed, LAMBDA e :
        /\ e.code \in ResultCodes /\ Inside(e, i)
        /\ AcceptedIn(i).code # "none" => e.generation = AcceptedIn(i).generation))

(* _chunk_windows: its plans end with the result.                          *)
ChunkWindow(i) ==
    [own |-> Dispatched[i].generation, accepted |-> AcceptedIn(i), result |-> ResultIn(i),
     plans |-> {p \in planned : /\ Inside(p, i)
                                /\ ResultIn(i).code # "none" => p.stamp < ResultIn(i).stamp}]

(* _transition_metrics: is there a boundary to speak of?                   *)
TransitionAvailable(windows) ==
    /\ Len(windows) >= 2 /\ windows[1].plans # {} /\ windows[2].plans # {}

(* _summary and write_artifacts.                                           *)
Summary ==
    LET windows == [i \in 1..Len(Dispatched) |-> ChunkWindow(i)]
    IN [windows |-> windows,
        conclusion |-> IF TransitionAvailable(windows) /\ windows[1].result.code # "none"
                       THEN "OBSERVED_PARTIAL" ELSE "INCONCLUSIVE"]

(* main's exception handler: the artifacts are written all the same.       *)
Failure == [windows |-> <<>>, conclusion |-> "setup_or_observation_failure"]

(* run(): a prerequisite is there.                                         *)
PrerequisiteMet(i) ==
    /\ i < Len(Prerequisites) /\ stage = Prerequisites[i] /\ stage' = Prerequisites[i + 1]
    /\ UNCHANGED <<nowStamp, routing, driving, leaving, rexWire, navWire, observed, planned, summary>>

(* The route is sent, and taken or refused.                                *)
RouteAnswered(ok) ==
    /\ stage = "set"
    /\ IF ok THEN stage' = "running" /\ routing' = [routing EXCEPT !.status = "active"] /\ UNCHANGED summary
       ELSE stage' = "done" /\ summary' = Failure /\ UNCHANGED routing
    /\ UNCHANGED <<nowStamp, driving, leaving, rexWire, navWire, observed, planned>>

(* _wait_for_completion reads a final status; too few dispatches seen is a *)
(* failure as well.                                                        *)
CompletionSeen ==
    /\ stage = "running" /\ routing.status \in {"COMPLETED", "PAUSED"} /\ stage' = "done"
    /\ summary' = IF routing.status = "COMPLETED" /\ Len(Dispatched) >= Chunks THEN Summary ELSE Failure
    /\ UNCHANGED <<nowStamp, routing, driving, leaving, rexWire, navWire, observed, planned>>

(* _spin_wait, _call and _wait_for_completion give up.                     *)
GivesUp ==
    /\ stage' = "done" /\ summary' = Failure
    /\ UNCHANGED <<nowStamp, routing, driving, leaving, rexWire, navWire, observed, planned>>

ContinuityNext ==
    /\ stage # "done"
    /\ \/ StampTick \/ DispatchesChunk \/ AcceptsGoal \/ RefusesGoal \/ ReachesGoal \/ Redispatches
       \/ CancelledGoalEnds \/ ObservesPlan \/ ObservesEvent \/ CompletionSeen \/ GivesUp
       \/ \E i \in 1..Len(Prerequisites) : PrerequisiteMet(i)
       \/ \E ok \in BOOLEAN : RouteAnswered(ok)

ContinuitySpec == ContinuityInit /\ [][ContinuityNext]_continuityVars

-----------------------------------------------------------------------------
(* A chunk is judged by its own goal: the acceptance a window is given is  *)
(* the one its dispatch led to, and its result, when the goal was accepted,*)
(* is that goal's; a goal the chunk before left behind, cancelled late,    *)
(* does not count against it.  And no trial ends without a conclusion.     *)
WindowsKeepTheirGoal ==
    /\ (stage = "done") <=> (summary.conclusion # "")
    /\ \A i \in 1..Len(summary.windows) :
         LET w == summary.windows[i]
         IN w.accepted.code # "none" =>
              /\ w.accepted.generation = w.own
              /\ w.result.code # "none" => w.result.generation = w.own
=============================================================================
