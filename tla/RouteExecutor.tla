---------------------------- MODULE RouteExecutor ----------------------------
(***************************************************************************)
(* route_executor_node.py for open routes: missions, chunks, checkpoint    *)
(* evidence, waypoint actions and the recovery of RouteRecovery.           *)
(*                                                                         *)
(* All callbacks that touch the mission are in the node's default group,   *)
(* which is mutually exclusive, so each is one action; _cancel blocks them *)
(* while it waits for the command server.  An operator on the record of    *)
(* the executor stands for a method.                                       *)
(*                                                                         *)
(* A goal request carries the epoch it was sent in.  Only equality with    *)
(* the epoch now matters, so a request in flight is `current` until the    *)
(* epoch is incremented.                                                   *)
(*                                                                         *)
(* The command server takes one call at a time, numbers its events and     *)
(* publishes telemetry.  Nav2 and the robot are external: a goal ends when *)
(* the robot has been at all of its poses, or Nav2 gives up.               *)
(***************************************************************************)
EXTENDS RouteRecovery, Sequences

CONSTANTS
    Length,         \* waypoints of a route
    ChunkEnd,       \* where the window of build_chunk that starts at i ends
    HasAction,      \* waypoints with an action
    Anchors,        \* where a mission may begin
    MaxMissions,    \* bound: missions
    Cuts,           \* scenario: by how much the horizon may shorten a window
    MaxCalls,       \* bound: calls on their way when one is added to stop the goal
    Verdicts,       \* scenario: what an evaluated path may be
    Failures,       \* scenario: codes of an aborted goal, "blocking" or "other"
    MaxDisturbances,    \* bound: changes of manual mode and of the collision monitor
    QuickResults,   \* may a goal end before its request has its event id?
    SlowCancel,     \* may a cancellation outlast the wait before a retry?
    Reordered,      \* may calls to two services overtake each other?
    ActionsOutlive  \* may a mission be replaced while an action of it runs?

Index == 0 .. Length - 1

ASSUME RouteAssumption ==
    /\ Length \in Nat \ {0}
    /\ ChunkEnd \in [Index -> Index] /\ \A i \in Index : i <= ChunkEnd[i]
    /\ HasAction \subseteq Index
    /\ \A i \in Index, k \in HasAction : ~(i <= k /\ k < ChunkEnd[i])
    /\ Anchors \subseteq Index
    /\ MaxMissions \in Nat
    /\ Cuts \subseteq Nat /\ 0 \in Cuts
    /\ MaxCalls \in Nat
    /\ Verdicts \subseteq Health \ {"reset"} /\ "ok" \in Verdicts
    /\ Failures \subseteq {"blocking", "other"}
    /\ MaxDisturbances \in Nat
    /\ {QuickResults, SlowCancel, Reordered, ActionsOutlive}
          \subseteq BOOLEAN

(* Two ways to cut a route: the first window covers two waypoints and the  *)
(* others one; or all of them one, so that a goal ends where no other does. *)
WideFirst == [i \in Index |-> IF i = 0 THEN 1 ELSE i]
Single == [i \in Index |-> i]

VARIABLES
    ex,         \* the executor, with its calls to the command server in flight
    preparing,  \* _preparation is not None
    cancel,     \* the cancel service: it waits, or it has said ok since the last mission
    health,     \* _path_health
    nav,        \* the command server, with the Nav2 goal
    robot,      \* where the robot is
    trail,      \* history: where the robot has been in this mission
    telemetry   \* the telemetry message on its way, at most one

outside == <<health, nav, robot, trail, telemetry>>
vars == <<ex, preparing, cancel, outside>>

Phases == {"IDLE", "ACTIVE", "PAUSED", "COMPLETED", "CANCELLED"}
Results == {"none", "succeeded", "cancelled", "aborted", "goal rejected"}
FailureCodes == {"", "blocking", "other"}
Position == -1 .. Length - 1
Goal == [mid : 0 .. MaxMissions, s : Index, e : Index]
NoGoal == [mid |-> 0, s |-> 0, e |-> 0]

(* kind "stop" is the cancellation that _cancel waits for.                 *)
Call == [kind : {"goal", "cancel", "stop"}, current : BOOLEAN, goal : Goal,
         st : {"sent", "serving", "ok", "failed"}, id : Nat]

Executor == [
    phase : Phases, mid : 0 .. MaxMissions,         \* missions activated so far
    anchor : Index, target : 0 .. Length,
    chunk : Goal,               \* _chunk
    seen : 0 .. Length,         \* the next checkpoint the tracker expects
    credited : SUBSET Index,    \* _reached_occurrences of this mission
    pending : BOOLEAN,          \* _goal_request_pending
    floor : Int, last : Int,    \* _goal_result_event_floor, _last_result_event_id
    policy : Policy,            \* _recovery
    clears : [st : {"none", "sent", "done", "failed"}, goal : Goal, size : 0 .. Length],
    near : BOOLEAN,             \* _recovery_checkpoint_reached
    failure : FailureCodes,     \* _nav_failure_code
    collision : BOOLEAN,        \* _collision_stop
    pose : Position,            \* _pose
    action : {"none", "called", "answered", "refused"},
    heard : BOOLEAN,            \* telemetry has come since the policy changed its state
    raised : BOOLEAN,           \* an exception has ended the process
    sends : Nat,                \* history: goals sent since the mission advanced
    calls : Seq(Call)]          \* calls on their way, in the order they were sent

Nav == [active : BOOLEAN, goal : Goal, at : Position, asked : BOOLEAN,
        result : Results, rid : Nat, events : Nat, failure : FailureCodes,
        manual : BOOLEAN, collision : BOOLEAN,
        disturbed : 0 .. MaxDisturbances,
        told : BOOLEAN]         \* has telemetry said that this goal is active?
Telemetry == [goalActive : BOOLEAN, manual : BOOLEAN, collision : BOOLEAN,
              result : Results, rid : Nat, failure : FailureCodes]

TypeOK ==
    /\ ex \in Executor
    /\ preparing \in BOOLEAN /\ cancel \in {"none", "waiting", "confirmed"}
    /\ health \in Health
    /\ nav \in Nav
    /\ robot \in Position /\ trail \subseteq Position
    /\ telemetry \subseteq Telemetry

NoClears == [st |-> "none", goal |-> NoGoal, size |-> 0]

Init ==
    /\ ex = [phase |-> "IDLE", mid |-> 0, anchor |-> 0, target |-> 0, chunk |-> NoGoal,
             seen |-> 0, credited |-> {}, pending |-> FALSE, floor |-> -1, last |-> -1,
             policy |-> Reset, clears |-> NoClears, near |-> FALSE, failure |-> "",
             collision |-> FALSE, pose |-> -1, action |-> "none", heard |-> FALSE,
             raised |-> FALSE, sends |-> 0, calls |-> <<>>]
    /\ preparing = FALSE /\ cancel = "none"
    /\ health = "ok"
    /\ nav = [active |-> FALSE, goal |-> NoGoal, at |-> -1, asked |-> FALSE,
              result |-> "none", rid |-> 0, events |-> 0, failure |-> "",
              manual |-> FALSE, collision |-> FALSE, told |-> FALSE,
              disturbed |-> 0]
    /\ robot = -1 /\ trail = {}
    /\ telemetry = {}

-----------------------------------------------------------------------------
(* Methods, as operators on the record x.  `cut` is what the horizon takes *)
(* off the next window, if the method comes to dispatch one; all of it if   *)
(* no waypoint is within the horizon, or no pose is known.                 *)

CancelCall(kind) == [kind |-> kind, current |-> FALSE, goal |-> NoGoal, st |-> "sent", id |-> 0]
NewEpoch(cs) == [i \in DOMAIN cs |-> [cs[i] EXCEPT !.current = FALSE]]
Without(cs, i) == SubSeq(cs, 1, i - 1) \o SubSeq(cs, i + 1, Len(cs))

Pause(x) ==
    [x EXCEPT !.pending = FALSE, !.near = FALSE, !.action = "none",
              !.phase = IF x.phase = "ACTIVE" THEN "PAUSED" ELSE @,
              !.calls = Append(NewEpoch(@), CancelCall("cancel"))]

(* _send_chunk, with a tracker for all checkpoints before the last one.    *)
SendChunk(x) ==
    [x EXCEPT !.seen = x.chunk.s, !.near = FALSE, !.pending = TRUE, !.sends = @ + 1,
              !.calls = Append(NewEpoch(@),
                  [kind |-> "goal", current |-> TRUE, goal |-> x.chunk, st |-> "sent", id |-> 0])]

Dispatch(x, cut) ==
    LET end == ChunkEnd[x.target] - cut
    IN  IF x.target >= Length THEN [x EXCEPT !.phase = "COMPLETED", !.chunk = NoGoal]
        ELSE IF end < x.target
        THEN Pause([x EXCEPT !.chunk = [mid |-> x.mid, s |-> x.target, e |-> ChunkEnd[x.target]]])
        ELSE SendChunk([x EXCEPT !.chunk = [mid |-> x.mid, s |-> x.target, e |-> end]])

(* _advance raises when the mission has no chunk.                          *)
Advance(x, cut) ==
    IF x.chunk = NoGoal THEN [x EXCEPT !.raised = TRUE]
    ELSE Dispatch([x EXCEPT !.target = x.chunk.e + 1, !.sends = 0], cut)

(* Broken variant: Nav2's success is evidence for the whole chunk.         *)
CompleteChunkUnseen(x, cut) ==
    LET last == x.chunk.e
        y == [x EXCEPT !.credited = @ \union {last}]
    IN  IF last \in HasAction \ x.credited THEN [y EXCEPT !.action = "called"]
        ELSE Advance(y, cut)

(* _complete_current_chunk: not before the tracker has seen all of it.     *)
CompleteChunk(x, cut) ==
    LET last == x.chunk.e
        y == [x EXCEPT !.credited = @ \union {last}]
    IN  IF x.seen < last THEN Pause(x)
        ELSE IF last \in HasAction \ x.credited THEN [y EXCEPT !.action = "called"]
        ELSE Advance(y, cut)

(* _finish_recovery: finish_retry raises unless the policy is RECOVERING.  *)
FinishRecovery(x, accepted) ==
    IF x.policy.state # "RECOVERING" THEN [x EXCEPT !.clears = NoClears, !.raised = TRUE]
    ELSE [x EXCEPT !.clears = NoClears, !.policy = FinishRetry(@, accepted),
                   !.failure = IF accepted THEN "" ELSE @,
                   !.collision = @ /\ ~accepted]

(* Broken variant: the suffix is sent and the target stays behind.         *)
CheckRecoveryClearsKeepsTarget(x, expired) ==
    CASE x.clears.st = "done" -> SendChunk([x EXCEPT !.clears = NoClears, !.chunk = x.clears.goal])
      [] x.clears.st = "failed" \/ (x.clears.st = "sent" /\ expired) -> FinishRecovery(x, FALSE)
      [] OTHER -> x

(* _check_recovery_clears; `expired`: its deadline has passed.             *)
CheckRecoveryClears(x, expired) ==
    LET job == x.clears
        cut == job.size - (job.goal.e - job.goal.s + 1)
    IN  CASE job.st = "done" ->
                SendChunk([x EXCEPT !.clears = NoClears, !.chunk = job.goal, !.target = @ + cut])
          [] job.st = "failed" \/ (job.st = "sent" /\ expired) -> FinishRecovery(x, FALSE)
          [] OTHER -> x

StopForRecovery(x) ==
    [x EXCEPT !.pending = FALSE, !.calls = Append(NewEpoch(@), CancelCall("cancel"))]

(* _begin_recovery_retry; `ready`: the clearing services are there.        *)
BeginRecoveryRetry(x, ready, cut) ==
    LET from == PendingStart(x.chunk.s, x.chunk.e, x.credited)
    IN  IF x.near
        THEN CompleteChunk(FinishRecovery([x EXCEPT !.near = FALSE], TRUE), cut)
        ELSE IF ~ready THEN FinishRecovery(x, FALSE)
        ELSE [x EXCEPT !.clears = [st |-> "sent", goal |-> [x.chunk EXCEPT !.s = from],
                                   size |-> x.chunk.e - x.chunk.s + 1]]

-----------------------------------------------------------------------------
(* Callbacks.                                                              *)

Callback == ~ex.raised /\ cancel # "waiting"

Set ==
    /\ Callback /\ ex.mid < MaxMissions
    /\ preparing' = TRUE
    /\ UNCHANGED <<ex, cancel, outside>>

(* _tick_preparation: a failed conversion is dropped.                      *)
PreparationFails ==
    /\ Callback /\ preparing
    /\ preparing' = FALSE
    /\ UNCHANGED <<ex, cancel, outside>>

(* _activate_prepared *)
ActivatePrepared(anchor, cut) ==
    /\ Callback /\ preparing /\ ex.mid < MaxMissions
    /\ ActionsOutlive \/ ex.action = "none"
    /\ preparing' = FALSE
    /\ ex' = Dispatch([ex EXCEPT !.phase = "ACTIVE", !.mid = @ + 1, !.anchor = anchor,
                                 !.target = anchor, !.policy = Reset, !.clears = NoClears,
                                 !.credited = {}, !.sends = 0], cut)
    /\ cancel' = "none"
    /\ trail' = {robot, ex.pose}
    /\ UNCHANGED <<health, nav, robot, telemetry>>

(* _on_pose; `fresh`: the tracker takes the sample.                        *)
OnPose(fresh) ==
    LET hit == fresh /\ ex.phase = "ACTIVE" /\ ex.seen < ex.chunk.e /\ robot = ex.seen
    IN  /\ Callback
        /\ ex' = [ex EXCEPT !.pose = robot, !.seen = IF hit THEN @ + 1 ELSE @,
                            !.credited = IF hit THEN @ \union {robot} ELSE @]
        /\ UNCHANGED <<preparing, cancel, outside>>

(* Broken variant: without the event floor of the request.                 *)
ResultIsCurrentNoFloor(x, m) ==
    ~x.pending /\ ~m.goalActive /\ m.result # "none" /\ m.rid > x.last

(* terminal_nav_result_is_current *)
ResultIsCurrent(x, m) ==
    /\ ~x.pending /\ ~m.goalActive /\ m.result # "none"
    /\ m.rid > x.floor /\ m.rid > x.last

(* The rest of _on_telemetry for a current terminal result.                *)
TerminalResult(x, m, cut) ==
    CASE m.result = "succeeded" ->
            IF ManeuverHold(health) THEN x
            ELSE CompleteChunk([x EXCEPT !.policy = Reset, !.near = FALSE], cut)
      [] m.result = "goal rejected" -> Pause(x)
      [] m.result = "cancelled" -> IF x.policy.state # "CLEAR" THEN x ELSE Pause(x)
      [] m.result = "aborted" -> [x EXCEPT !.failure = m.failure]

OnTelemetry(m, cut) ==
    LET x == [ex EXCEPT !.heard = TRUE, !.collision = m.collision,
                        !.failure = IF m.goalActive THEN "" ELSE @]
    IN  /\ Callback
        /\ m \in telemetry
        /\ telemetry' = {}
        /\ ex' = CASE ex.phase # "ACTIVE" -> [ex EXCEPT !.heard = TRUE]
                   [] ex.phase = "ACTIVE" /\ m.manual -> Pause(ex)
                   [] ex.phase = "ACTIVE" /\ ~m.manual /\ m.collision /\ ex.action # "none" ->
                        Pause([ex EXCEPT !.collision = TRUE])
                   [] OTHER -> IF ResultIsCurrent(x, m)
                               THEN TerminalResult([x EXCEPT !.last = m.rid], m, cut)
                               ELSE x
        /\ UNCHANGED <<preparing, cancel, health, nav, robot, trail>>

(* Every call has been answered, the goal has ended and the executor knows. *)
Settled == ex.calls = <<>> /\ ~nav.active /\ ~nav.told /\ telemetry = {}

(* _tick_recovery, with the step that it takes after releasing the lock.   *)
(* `served`: the clearing services are there, and within their deadline.   *)
TickRecovery(due, served, cut) ==
    LET d == Observe(ex.policy, health, ex.collision \/ ex.failure = "blocking", due)
        x == [ex EXCEPT !.policy = d.policy, !.heard = @ /\ d.policy.state = ex.policy.state,
                        !.near = @ \/ (/\ ~ManeuverHold(health) /\ d.policy.state # "CLEAR"
                                       /\ ex.pose = ex.chunk.e)]
        y == CheckRecoveryClears(x, ~served)
    IN  /\ Callback /\ ex.phase = "ACTIVE"
        /\ due => ex.heard
        /\ d.action = "BEGIN_RETRY" => SlowCancel \/ Settled
        /\ d.action = "CANCEL_AND_BRAKE" => Len(ex.calls) < MaxCalls
        /\ ex' = CASE y.raised -> y
                   [] ~y.raised /\ d.action = "CANCEL_AND_BRAKE" -> StopForRecovery(y)
                   [] ~y.raised /\ d.action = "BEGIN_RETRY" -> BeginRecoveryRetry(y, served, cut)
                   [] OTHER -> y
        /\ UNCHANGED <<preparing, cancel, outside>>

(* Broken variant: a request that was refused is forgotten.                *)
OnGoalRequestForgetsRefusal(i) ==
    LET c == ex.calls[i]
        x == [ex EXCEPT !.calls = Without(@, i)]
    IN  /\ Callback
        /\ c.kind = "goal" /\ c.st \in {"ok", "failed"}
        /\ ex' = CASE ~c.current \/ ex.phase # "ACTIVE" -> x
                   [] c.current /\ ex.phase = "ACTIVE" /\ ex.policy.state = "RECOVERING" ->
                        FinishRecovery([x EXCEPT !.pending = FALSE], c.st = "ok")
                   [] OTHER -> [x EXCEPT !.pending = FALSE, !.floor = IF c.st = "ok" THEN c.id ELSE @]
        /\ UNCHANGED <<preparing, cancel, outside>>

(* _on_goal_request for the answer to call i.                              *)
OnGoalRequest(i) ==
    LET c == ex.calls[i]
        x == [ex EXCEPT !.calls = Without(@, i)]
        y == [x EXCEPT !.pending = FALSE, !.floor = IF c.st = "ok" THEN c.id ELSE @]
    IN  /\ Callback
        /\ c.kind = "goal" /\ c.st \in {"ok", "failed"}
        /\ ex' = CASE ~c.current \/ ex.phase # "ACTIVE" -> x
                   [] c.current /\ ex.phase = "ACTIVE" /\ ex.policy.state = "RECOVERING" ->
                        FinishRecovery(y, c.st = "ok")
                   [] OTHER -> IF c.st = "ok" THEN y ELSE Pause(y)
        /\ UNCHANGED <<preparing, cancel, outside>>

(* Broken variant: a completed action is kept.                             *)
TickActionKeepsAction(cut) ==
    /\ Callback
    /\ ex.action \in {"answered", "refused"}
    /\ ex' = IF ex.action = "refused" THEN Pause(ex) ELSE Advance(ex, cut)
    /\ UNCHANGED <<preparing, cancel, outside>>

(* _tick_action: an answer is taken, and then the action completes.        *)
TickAction(cut) ==
    /\ Callback
    /\ ex.action \in {"answered", "refused"}
    /\ ex' = IF ex.action = "refused" THEN Pause(ex)
             ELSE Advance([ex EXCEPT !.action = "none"], cut)
    /\ UNCHANGED <<preparing, cancel, outside>>

Cancel ==
    /\ Callback /\ Len(ex.calls) < MaxCalls
    /\ ex' = [ex EXCEPT !.pending = FALSE, !.policy = Reset, !.clears = NoClears,
                        !.near = FALSE, !.credited = {}, !.action = "none",
                        !.phase = IF @ \in {"ACTIVE", "PAUSED"} THEN "CANCELLED" ELSE @,
                        !.calls = Append(NewEpoch(@), CancelCall("stop"))]
    /\ preparing' = FALSE
    /\ cancel' = "waiting"
    /\ UNCHANGED outside

(* The wait of _cancel ends with the answer, or with its timeout, after    *)
(* which nobody waits for the answer.                                      *)
CancelEnds(i) ==
    LET st == ex.calls[i].st
    IN  /\ cancel = "waiting" /\ ex.calls[i].kind = "stop"
        /\ \/ st \in {"ok", "failed"} /\ ex' = [ex EXCEPT !.calls = Without(@, i)]
           \/ st \in {"sent", "serving"} /\ ex' = [ex EXCEPT !.calls[i].kind = "cancel"]
        /\ cancel' = IF st = "ok" THEN "confirmed" ELSE "none"
        /\ UNCHANGED <<preparing, outside>>

-----------------------------------------------------------------------------
(* The services that the executor calls.                                   *)

(* The clearing services answer, and so does that of the running action.   *)
ClearsAnswer ==
    /\ ex.clears.st = "sent"
    /\ \E st \in {"done", "failed"} : ex' = [ex EXCEPT !.clears.st = st]
    /\ UNCHANGED <<preparing, cancel, outside>>

ActionAnswer ==
    /\ ex.action = "called"
    /\ \E a \in {"answered", "refused"} : ex' = [ex EXCEPT !.action = a]
    /\ UNCHANGED <<preparing, cancel, outside>>

(* The command server: one call at a time.                                 *)
Serving == \E i \in DOMAIN ex.calls : ex.calls[i].st = "serving"
Served(i) ==
    /\ ex.calls[i].st = "sent" /\ ~Serving
    /\ Reordered \/ \A j \in 1 .. i - 1 : ex.calls[j].st # "sent"
Taken(i) == ex' = [ex EXCEPT !.calls[i].st = "serving"]
(* An answer for which nobody waits has no effect.                         *)
Answer(i, st, id) ==
    ex' = IF ex.calls[i].current \/ ex.calls[i].kind = "stop"
          THEN [ex EXCEPT !.calls[i].st = st, !.calls[i].id = id]
          ELSE [ex EXCEPT !.calls = Without(@, i)]

RefuseGoal(i) ==
    /\ Served(i) /\ ex.calls[i].kind = "goal"
    /\ Answer(i, "failed", 0)
    /\ UNCHANGED <<preparing, cancel, outside>>

(* A goal that is active is cancelled first.                               *)
ReplaceGoal(i) ==
    /\ Served(i) /\ ex.calls[i].kind = "goal"
    /\ nav.active /\ ~nav.asked /\ ~nav.manual
    /\ nav' = [nav EXCEPT !.asked = TRUE]
    /\ UNCHANGED <<ex, preparing, cancel, health, robot, trail, telemetry>>

(* The reset of the path guard publishes STOP_AND_WAIT.                    *)
SendGoal(i) ==
    /\ Served(i) /\ ex.calls[i].kind = "goal"
    /\ ~nav.active /\ ~nav.manual
    /\ nav' = [nav EXCEPT !.active = TRUE, !.goal = ex.calls[i].goal,
                          !.at = ex.calls[i].goal.s - 1, !.asked = FALSE,
                          !.result = "none", !.failure = "", !.told = FALSE]
    /\ health' = "reset"
    /\ Taken(i)
    /\ UNCHANGED <<preparing, cancel, robot, trail, telemetry>>

(* The event id of a request is drawn after its goal was sent.             *)
AnswerGoal(i) ==
    /\ ex.calls[i].kind = "goal" /\ ex.calls[i].st = "serving"
    /\ nav' = [nav EXCEPT !.events = @ + 1]
    /\ Answer(i, "ok", nav'.events)
    /\ UNCHANGED <<preparing, cancel, health, robot, trail, telemetry>>

(* _on_cancel_goal waits until Nav2 has ended the goal, or times out.      *)
CancelGoal(i) ==
    /\ Served(i) /\ ex.calls[i].kind # "goal"
    /\ nav.active
    /\ nav' = [nav EXCEPT !.asked = TRUE]
    /\ Taken(i)
    /\ UNCHANGED <<preparing, cancel, health, robot, trail, telemetry>>

(* Broken variant: the answer does not wait for the end of the goal.       *)
AnswerCancelEarly(i) ==
    /\ ex.calls[i].kind # "goal"
    /\ ex.calls[i].st = "serving" \/ (Served(i) /\ ~nav.active)
    /\ Answer(i, "ok", 0)
    /\ UNCHANGED <<preparing, cancel, outside>>

AnswerCancel(i) ==
    /\ ex.calls[i].kind # "goal"
    /\ ex.calls[i].st = "serving" \/ (Served(i) /\ ~nav.active)
    /\ Answer(i, IF nav.active THEN "failed" ELSE "ok", 0)
    /\ UNCHANGED <<preparing, cancel, outside>>

(* A goal ends: its result gets an event id of its own.                    *)
GoalResult(result, failure) ==
    /\ nav.active
    /\ QuickResults \/ ~\E i \in DOMAIN ex.calls : ex.calls[i].kind = "goal" /\ ex.calls[i].st = "serving"
    /\ CASE result = "succeeded" -> nav.at = nav.goal.e
         [] result = "cancelled" -> nav.asked
         [] result = "aborted" -> health # "reset"
         [] result = "goal rejected" -> health = "reset"
    /\ nav' = [nav EXCEPT !.active = FALSE, !.asked = FALSE, !.result = result,
                          !.rid = nav.events + 1, !.events = @ + 1, !.failure = failure]
    /\ UNCHANGED <<ex, preparing, cancel, health, robot, trail, telemetry>>

(* Manual mode cancels the goal.                                           *)
SetManualMode ==
    /\ nav.disturbed < MaxDisturbances
    /\ nav' = [nav EXCEPT !.disturbed = @ + 1, !.manual = ~@, !.asked = @ \/ (nav.active /\ ~nav.manual)]
    /\ UNCHANGED <<ex, preparing, cancel, health, robot, trail, telemetry>>

OnMonitorState ==
    /\ nav.disturbed < MaxDisturbances
    /\ nav' = [nav EXCEPT !.disturbed = @ + 1, !.collision = ~@]
    /\ UNCHANGED <<ex, preparing, cancel, health, robot, trail, telemetry>>

PublishTelemetry ==
    /\ telemetry = {}
    /\ telemetry' = {[goalActive |-> nav.active, manual |-> nav.manual,
                      collision |-> nav.collision, result |-> nav.result,
                      rid |-> nav.rid, failure |-> nav.failure]}
    /\ nav' = [nav EXCEPT !.told = nav.active]
    /\ UNCHANGED <<ex, preparing, cancel, health, robot, trail>>

(* The path guard judges the path of the active goal; a maneuver that it   *)
(* holds runs out by itself.                                               *)
EvaluatePath(h) ==
    /\ h # health
    /\ nav.active \/ (health = "maneuver" /\ h = "maneuver_operator")
    /\ health # "maneuver_operator"
    /\ health' = h
    /\ UNCHANGED <<ex, preparing, cancel, nav, robot, trail, telemetry>>

(* The robot reaches the next pose of its goal.  It stands while the path  *)
(* guard or the collision monitor stops it.  Driving takes longer than a   *)
(* waiting call and than telemetry that says that the goal is active.      *)
Move ==
    /\ nav.active /\ nav.at < nav.goal.e
    /\ health = "ok" /\ ~nav.collision /\ ~nav.manual /\ ~nav.asked
    /\ \A i \in DOMAIN ex.calls : ex.calls[i].st # "sent"
    /\ nav.at >= nav.goal.s \/ (nav.told /\ telemetry = {})
    /\ robot' = nav.at + 1
    /\ nav' = [nav EXCEPT !.at = @ + 1]
    /\ trail' = trail \union {robot'}
    /\ UNCHANGED <<ex, preparing, cancel, health, telemetry>>

-----------------------------------------------------------------------------
Ticks ==
    \/ \E due, served \in BOOLEAN, cut \in Cuts : TickRecovery(due, served, cut)
    \/ \E cut \in Cuts : TickAction(cut)

Answers ==
    \E i \in DOMAIN ex.calls : OnGoalRequest(i) \/ CancelEnds(i)

Server ==
    \/ \E i \in DOMAIN ex.calls : \/ RefuseGoal(i) \/ ReplaceGoal(i) \/ SendGoal(i) \/ AnswerGoal(i)
                                 \/ CancelGoal(i) \/ AnswerCancel(i)
    \/ PublishTelemetry
    \/ ClearsAnswer
    \/ ActionAnswer

World ==
    \/ \E r \in Results \ {"none", "aborted"} : GoalResult(r, "")
    \/ \E f \in Failures : GoalResult("aborted", f)
    \/ \E h \in Verdicts : EvaluatePath(h)
    \/ Move

Next ==
    \/ Set
    \/ PreparationFails
    \/ \E a \in Anchors, cut \in Cuts : ActivatePrepared(a, cut)
    \/ \E fresh \in BOOLEAN : OnPose(fresh)
    \/ \E m \in telemetry, cut \in Cuts : OnTelemetry(m, cut)
    \/ Ticks
    \/ Answers
    \/ Cancel
    \/ Server
    \/ World
    \/ SetManualMode
    \/ OnMonitorState

Spec == Init /\ [][Next]_vars

-----------------------------------------------------------------------------
(* Properties.                                                             *)

(* The target of a mission passes a waypoint only with credit for it: no   *)
(* result, retry, suffix or action skips a checkpoint                      *)
(* (_complete_current_chunk, _advance, _check_recovery_clears).            *)
NoSkippedCheckpoint ==
    [][ex'.mid = ex.mid => ex.target .. ex'.target - 1 \subseteq ex'.credited]_vars

(* Credit is physical: every waypoint credited to this mission is one that *)
(* the robot has been at since it began.  A success of an earlier goal or  *)
(* mission, delivered late, credits nothing                                *)
(* (terminal_nav_result_is_current, _on_pose).                             *)
CreditIsPhysical == ex.credited \subseteq trail

(* A goal is sent for the target of the mission, and a retry begins with a *)
(* checkpoint that has no credit (_begin_recovery_retry,                   *)
(* pending_checkpoint_suffix, _check_recovery_clears).                     *)
RetrySendsPending ==
    [][/\ (Len(ex'.calls) = Len(ex.calls) + 1 /\ ex'.calls[Len(ex'.calls)].kind = "goal") =>
             ex'.chunk.s = ex'.target
       /\ (ex.clears.st = "none" /\ ex'.clears.st = "sent") =>
             ex'.clears.goal.s \notin ex'.credited]_vars

(* No callback raises: finish_retry meets a policy that is RECOVERING, and *)
(* _advance a mission that has a chunk.                                    *)
NeverRaises == ~ex.raised

(* Retries are bounded and come to their end: between two advances of a    *)
(* mission at most 1 + max_attempts goals are sent, whatever is accepted,  *)
(* refused or aborted (BlockedRecoveryPolicy is the one owner of the       *)
(* retries), and none of them ends in a callback that raises.              *)
RetryBudget == ex.sends <= MaxAttempts + 1 /\ NeverRaises

(* Once the cancel service has said ok the robot has no goal, until a new  *)
(* mission begins: a goal request that was on its way is overtaken by the  *)
(* cancellation (_cancel, _on_cancel_goal).                                *)
StopIsFinal == cancel = "confirmed" => ~nav.active

(* While a mission is active, Nav2 follows a goal of an earlier one only   *)
(* as long as a call is on its way or its end has been asked for           *)
(* (_activate_prepared, _cancel_goal_locked).                              *)
OldGoalIsOnItsWayOut ==
    (ex.phase = "ACTIVE" /\ nav.active /\ nav.goal.mid # ex.mid) =>
        ex.calls # <<>> \/ nav.asked
=============================================================================
