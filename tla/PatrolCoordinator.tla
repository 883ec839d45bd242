-------------------------- MODULE PatrolCoordinator --------------------------
(***************************************************************************)
(* patrol_mission_coordinator.py around the machine and the battery policy *)
(* of PatrolDomain, together with the part of route_executor_node.py that  *)
(* the coordinator sees: its three services and its checkpoint events.     *)
(*                                                                         *)
(* Every callback of the coordinator runs under its RLock and is one       *)
(* action, with one exception the code has too: the end of a replacement   *)
(* (_finish_replacement, then _start_spec) holds no lock and runs on a     *)
(* reentrant client thread, so it takes one step per access to shared      *)
(* state and everything else may run in between.                           *)
(*                                                                         *)
(* Service calls are asynchronous.  A call in flight is a record of        *)
(* `calls`; requests to different services, and responses, arrive in any   *)
(* order.  The route executor serves its services one at a time and does   *)
(* nothing else while _cancel waits for Nav2.                              *)
(***************************************************************************)
EXTENDS PatrolDomain, Sequences

CONSTANTS
    MaxSets,            \* bound: patrols the operator submits
    MaxForeign,         \* bound: routes submitted to the executor by others
    MaxSubmissions,     \* bound: patrols and routes of others together
    MaxEvents,          \* bound: checkpoint events in flight
    Poses,              \* scenario: where the robot may be seen, of "home", "away"
    GuardInputs,        \* scenario: guard samples that may arrive
    SocInputs,          \* scenario: SOC samples that may arrive
    OperatorReplaces,   \* may a patrol be submitted while one is active?
    OperatorCancels,    \* may the operator cancel the patrol?
    ConversionFails     \* may a fromLL conversion or an anchor search fail?

ASSUME BoundsAssumption ==
    /\ MaxSets \in Nat /\ MaxForeign \in Nat /\ MaxSubmissions \in Nat /\ MaxEvents \in Nat
    /\ Poses \subseteq {"home", "away"}
    /\ GuardInputs \subseteq Guards /\ SocInputs \subseteq Socs
    /\ OperatorReplaces \in BOOLEAN /\ OperatorCancels \in BOOLEAN
    /\ ConversionFails \in BOOLEAN

(* Two loop waypoints, the second one nearer to the return reference.       *)
NearerExitLater == [i \in 0 .. 1 |-> 2 - i]

VARIABLES
    machine,        \* _machine (and its PatrolState)
    haveSpec,       \* _spec is not None
    preparation,    \* number of the patrol being converted, 0 for None
    routeId,        \* _route_mission_id, 0 for ""
    superseded,     \* _superseded_route_mission_id
    delegated,      \* the leg whose indices are in _delegated_input_indices
    poll,           \* _route_state_future and the answer it will carry
    battery,        \* _battery_input
    pose,           \* _pose, as far as _at_home tells it
    calls,          \* service calls in flight towards the route executor
    starting,       \* threads inside _start_spec after a replacement
    rex,            \* the route executor's _mission
    rexPrep,        \* its _preparation
    rexBusy,        \* the cancel call its _cancel is blocked in
    routes,         \* history: the leg and the patrol behind each mission_id
    events,         \* ROUTE_CHECKPOINT_REACHED events on their way
    nSets,          \* patrols submitted so far
    nForeign,       \* foreign routes submitted so far
    endedUpTo       \* history: patrols submitted before the last explicit cancel

coordVars == <<machine, haveSpec, preparation, routeId, superseded, delegated>>
rexVars == <<rex, rexPrep, rexBusy, routes, nForeign>>
vars == <<machine, haveSpec, preparation, routeId, superseded, delegated, poll,
          battery, pose, calls, starting, rex, rexPrep, rexBusy, routes,
          events, nSets, nForeign, endedUpTo>>

MissionIds == 0 .. MaxSets
RouteIds == Nat

Legs == {"NONE", "DEPART", "LOOP", "RETURN", "FOREIGN"}
Route == [leg : Legs, mid : MissionIds]
NoRoute == [leg |-> "NONE", mid |-> 0]

RouteStatus == {"IDLE", "ACTIVE", "PAUSED", "COMPLETED", "CANCELLED"}

(* Who waits for the answer.  The tag is the mission a call was made for,  *)
(* or the number of the replacing patrol; no two calls in flight agree on  *)
(* all three of who, phase and tag.                                        *)
CancelCallers == {"replace", "exit", "departure", "user"}
Call == [who : CancelCallers \union {"dispatch"},
         phase : PatrolPhase \union {"NONE"}, tag : MissionIds,
         leg : Legs, st : {"sent", "serving", "ok", "failed"}]
NewCall(who, phase, tag) ==
    [who |-> who, phase |-> phase, tag |-> tag, leg |-> Leg(phase), st |-> "sent"]
Answered(c) == c.st \in {"ok", "failed"}

(* Program points of _start_spec between two accesses to shared state.     *)
Thread == [spec : MissionIds, pc : {"begin", "evaluate", "assign", "read", "send"},
           m : Machine(MissionIds), leg : Legs]

TypeOK ==
    /\ machine \in Machine(MissionIds)
    /\ haveSpec \in BOOLEAN
    /\ preparation \in MissionIds
    /\ routeId \in RouteIds /\ superseded \in RouteIds
    /\ delegated \in Legs
    /\ poll \in [st : {"none", "sent", "done"}, id : RouteIds, status : RouteStatus]
    /\ battery \in BatteryInput
    /\ pose \in {"none", "home", "away"}
    /\ calls \subseteq Call
    /\ starting \subseteq Thread
    /\ rex \in [id : RouteIds, status : RouteStatus, pos : Nat]
    /\ rexPrep \in Route
    /\ rexBusy \subseteq Call
    /\ routes \in Seq(Route)
    /\ events \in Seq([id : RouteIds, k : Nat])
    /\ nSets \in MissionIds
    /\ nForeign \in 0 .. MaxForeign
    /\ endedUpTo \in MissionIds

Init ==
    /\ machine = NoMachine
    /\ haveSpec = FALSE
    /\ preparation = 0
    /\ routeId = 0 /\ superseded = 0
    /\ delegated = "NONE"
    /\ poll = [st |-> "none", id |-> 0, status |-> "IDLE"]
    /\ battery = NoBatteryInput
    /\ pose = "none"
    /\ calls = {} /\ starting = {}
    /\ rex = [id |-> 0, status |-> "IDLE", pos |-> 0]
    /\ rexPrep = NoRoute
    /\ rexBusy = {}
    /\ routes = <<>>
    /\ events = <<>>
    /\ nSets = 0 /\ nForeign = 0 /\ endedUpTo = 0

-----------------------------------------------------------------------------
(* Inputs of the coordinator.                                              *)

OnPose(p) ==
    /\ pose' = p
    /\ UNCHANGED <<machine, haveSpec, preparation, routeId, superseded, delegated,
                   poll, battery, calls, starting, rexVars, events, nSets, endedUpTo>>

AtHome == pose = "home" /\ haveSpec

(* _consume_battery_decision, given the policy state after the sample.     *)
ConsumeBatteryDecision(b) ==
    LET newly == b.latched /\ ~battery.latched
        after == LatchBatteryReturn(machine, AtHome)
        cancels == CancelActiveRoute(machine, after)
    IN  IF machine.phase = "NONE" \/ ~newly
        THEN UNCHANGED <<machine, calls>>
        ELSE \/ /\ ~cancels
                /\ machine' = after
                /\ UNCHANGED calls
             \/ /\ cancels                  \* cancel service ready
                /\ machine' = after
                /\ calls' = calls \union {NewCall("departure", "NONE", machine.mid)}
             \/ /\ cancels                  \* cancel service not ready
                /\ machine' = Abort(after)
                /\ UNCHANGED calls

BatterySample(b) ==
    /\ battery' = Evaluate(b)
    /\ ConsumeBatteryDecision(Evaluate(b))
    /\ UNCHANGED <<haveSpec, preparation, routeId, superseded, delegated, poll,
                   pose, starting, rexVars, events, nSets, endedUpTo>>

OnBatteryGuard(g) == BatterySample([battery EXCEPT !.guard = g])
OnBatteryState(s) == BatterySample([battery EXCEPT !.soc = s])

(* guard_timeout_s passes without a sample: nobody evaluates.              *)
BatteryAge ==
    /\ battery' = [battery EXCEPT !.guard = "invalid", !.soc = "invalid"]
    /\ UNCHANGED <<machine, haveSpec, preparation, routeId, superseded, delegated,
                   poll, pose, calls, starting, rexVars, events, nSets, endedUpTo>>

(* _set: a valid request replaces the preparation that was pending.        *)
SetPatrolMission ==
    /\ nSets < MaxSets /\ nSets + nForeign < MaxSubmissions
    /\ OperatorReplaces \/ ~Active(machine)
    /\ nSets' = nSets + 1
    /\ preparation' = nSets + 1
    /\ UNCHANGED <<machine, haveSpec, routeId, superseded, delegated, poll, battery,
                   pose, calls, starting, rexVars, events, endedUpTo>>

(* _reject, as reached from a failed conversion.                           *)
PreparationFails ==
    /\ ConversionFails
    /\ preparation # 0
    /\ preparation' = 0
    /\ UNCHANGED <<machine, haveSpec, routeId, superseded, delegated, poll, battery,
                   pose, calls, starting, rexVars, events, nSets, endedUpTo>>

-----------------------------------------------------------------------------
(* _dispatch_phase of machine m, when _route_mission_id is rid and cs are  *)
(* the calls in flight.                                                    *)
DispatchPhase(m, rid, cs) ==
    \/ /\ ~Active(m)
       /\ machine' = m /\ routeId' = rid /\ calls' = cs
       /\ UNCHANGED <<superseded, delegated>>
    \/ /\ Active(m)                         \* route executor ready
       /\ machine' = m
       /\ delegated' = Leg(m.phase)
       /\ superseded' = rid /\ routeId' = 0
       /\ calls' = cs \union {NewCall("dispatch", m.phase, m.mid)}
    \/ /\ Active(m)                         \* route executor unavailable
       /\ machine' = Pause(m)
       /\ delegated' = Leg(m.phase)
       /\ routeId' = rid /\ calls' = cs
       /\ UNCHANGED superseded

(* _tick_preparation finds every point converted and calls _activate_spec, *)
(* all under the lock.                                                     *)
ActivateSpec ==
    /\ preparation # 0
    /\ preparation' = 0
    /\ \/ /\ pose = "none"                  \* rejected
          /\ UNCHANGED <<machine, haveSpec, routeId, superseded, delegated,
                         battery, calls>>
       \/ /\ pose # "none" /\ Active(machine)
          /\ calls' = calls \union {NewCall("replace", "NONE", preparation)}
          /\ UNCHANGED <<machine, haveSpec, routeId, superseded, delegated, battery>>
       \/ /\ pose # "none" /\ ~Active(machine)      \* write_atomic fails
          /\ UNCHANGED <<machine, haveSpec, routeId, superseded, delegated,
                         battery, calls>>
       \/ /\ pose # "none" /\ ~Active(machine)      \* _start_spec
          /\ battery' = Evaluate(ClearLatch(battery))
          /\ haveSpec' = TRUE
          /\ DispatchPhase(Start(preparation, pose = "home", battery'.latched), 0, calls)
    /\ UNCHANGED <<poll, pose, starting, rexVars, events, nSets, endedUpTo>>

-----------------------------------------------------------------------------
(* _finish_replacement and the _start_spec it runs without the lock.       *)

(* A failed cancellation ends in _reject, which drops any preparation.     *)
FinishReplacementFailed(c) ==
    /\ c \in calls /\ c.who = "replace" /\ c.st = "failed"
    /\ calls' = calls \ {c}
    /\ preparation' = 0
    /\ UNCHANGED <<machine, haveSpec, routeId, superseded, delegated, poll, battery,
                   pose, starting, rexVars, events, nSets, endedUpTo>>

(* write_atomic has succeeded (its failure is one more _reject).           *)
FinishReplacement(c) ==
    /\ c \in calls /\ c.who = "replace" /\ c.st = "ok"
    /\ calls' = calls \ {c}
    /\ \/ /\ starting' = starting \union
                 {[spec |-> c.tag, pc |-> "begin", m |-> NoMachine, leg |-> "NONE"]}
          /\ UNCHANGED preparation
       \/ /\ preparation' = 0
          /\ UNCHANGED starting
    /\ UNCHANGED <<machine, haveSpec, routeId, superseded, delegated, poll, battery,
                   pose, rexVars, events, nSets, endedUpTo>>

Replace(t, u) == starting' = (starting \ {t}) \union {u}

StartBegin(t) ==
    /\ t \in starting /\ t.pc = "begin"
    /\ battery' = ClearLatch(battery)
    /\ Replace(t, [t EXCEPT !.pc = "evaluate"])
    /\ UNCHANGED <<coordVars, poll, pose, calls, rexVars, events, nSets, endedUpTo>>

StartEvaluate(t) ==
    /\ t \in starting /\ t.pc = "evaluate"
    /\ battery' = Evaluate(battery)
    /\ Replace(t, [t EXCEPT !.pc = "assign",
                            !.m = Start(t.spec, pose = "home", battery'.latched)])
    /\ UNCHANGED <<coordVars, poll, pose, calls, rexVars, events, nSets, endedUpTo>>

StartAssign(t) ==
    /\ t \in starting /\ t.pc = "assign"
    /\ machine' = t.m /\ haveSpec' = TRUE /\ routeId' = 0
    /\ Replace(t, [t EXCEPT !.pc = "read"])
    /\ UNCHANGED <<preparation, superseded, delegated, poll, battery, pose, calls,
                   rexVars, events, nSets, endedUpTo>>

(* The first half of _dispatch_phase: _machine is read and its leg taken.  *)
StartRead(t) ==
    /\ t \in starting /\ t.pc = "read"
    /\ IF Active(machine)
       THEN /\ delegated' = Leg(machine.phase)
            /\ Replace(t, [t EXCEPT !.pc = "send", !.m = machine,
                                    !.leg = Leg(machine.phase)])
       ELSE starting' = starting \ {t} /\ UNCHANGED delegated
    /\ UNCHANGED <<machine, haveSpec, preparation, routeId, superseded, poll,
                   battery, pose, calls, rexVars, events, nSets, endedUpTo>>

(* The second half.  The thread holds the machine object it read, whatever *)
(* _machine is by now, and reads that object's phase again.                *)
StartSend(t) ==
    LET mine == machine.mid = t.m.mid
        phase == IF mine THEN machine.phase ELSE t.m.phase
    IN  /\ t \in starting /\ t.pc = "send"
        /\ starting' = starting \ {t}
        /\ \/ /\ superseded' = routeId /\ routeId' = 0
              /\ calls' = calls \union
                    {[NewCall("dispatch", phase, t.m.mid) EXCEPT !.leg = t.leg]}
              /\ UNCHANGED machine
           \/ /\ machine' = IF mine THEN Pause(machine) ELSE machine
              /\ UNCHANGED <<superseded, routeId, calls>>
        /\ UNCHANGED <<haveSpec, preparation, delegated, poll, battery, pose,
                       rexVars, events, nSets, endedUpTo>>

-----------------------------------------------------------------------------
(* Answers of the route executor.                                          *)

(* The answer to a dispatch is matched by the phase alone.                 *)
OnRouteDispatched(c) ==
    /\ c \in calls /\ c.who = "dispatch" /\ c.st = "failed"
    /\ calls' = calls \ {c}
    /\ machine' = IF machine.phase = c.phase THEN Pause(machine) ELSE machine
    /\ UNCHANGED <<haveSpec, preparation, routeId, superseded, delegated, poll,
                   battery, pose, starting, rexVars, events, nSets, endedUpTo>>

TickRouteState ==
    /\ Active(machine)
    /\ poll.st = "none"
    /\ poll' = [poll EXCEPT !.st = "sent"]
    /\ UNCHANGED <<coordVars, battery, pose, calls, starting, rexVars, events,
                   nSets, endedUpTo>>

(* Broken variant: any route may identify itself, the superseded one too.  *)
RouteStateOfAnyRoute(current, old, candidate) ==
    IF current # 0 THEN candidate = current ELSE candidate # 0

RouteStateBelongsToDispatch(current, old, candidate) ==
    IF current # 0 THEN candidate = current ELSE candidate # 0 /\ candidate # old

(* Broken variant: the future is not cleared, so no further poll is sent.  *)
OnRouteStateKeepsFuture ==
    LET mine == Active(machine) /\ RouteStateBelongsToDispatch(routeId, superseded, poll.id)
    IN  /\ poll.st = "done"
        /\ routeId' = IF mine THEN poll.id ELSE routeId
        /\ UNCHANGED <<machine, superseded, delegated, calls, poll, haveSpec,
                       preparation, battery, pose, starting, rexVars, events,
                       nSets, endedUpTo>>

OnRouteState ==
    LET mine == Active(machine) /\ RouteStateBelongsToDispatch(routeId, superseded, poll.id)
        done(phase) == mine /\ poll.status = "COMPLETED" /\ machine.phase = phase
        stopped == mine /\ poll.status \in {"PAUSED", "ABORTED", "CANCELLED"}
    IN  /\ poll.st = "done"
        /\ poll' = [st |-> "none", id |-> 0, status |-> "IDLE"]
        /\ \/ /\ done("DEPART_HOME")
              /\ DispatchPhase(GoalSucceeded(machine, -1), poll.id, calls)
           \/ /\ ~done("DEPART_HOME")
              /\ routeId' = IF mine THEN poll.id ELSE routeId
              /\ machine' = IF done("RETURN_HOME") THEN GoalSucceeded(machine, -1)
                            ELSE IF stopped THEN Pause(machine) ELSE machine
              /\ UNCHANGED <<superseded, delegated, calls>>
        /\ UNCHANGED <<haveSpec, preparation, battery, pose, starting, rexVars,
                       events, nSets, endedUpTo>>

(* Broken variants: an event of any route counts; the return leg is        *)
(* dispatched at the exit without cancelling the loop first.               *)
OnEventOfAnyRoute ==
    LET index == InputIndex(delegated, Head(events).k)
        counts == \/ machine.phase = "JOIN_LOOP"
                  \/ machine.phase = "EXIT_LOOP" /\ index = machine.exit
    IN  /\ events # <<>>
        /\ events' = Tail(events)
        /\ machine' = IF counts THEN GoalSucceeded(machine, index) ELSE machine
        /\ calls' = IF counts /\ machine.phase = "EXIT_LOOP"
                    THEN calls \union {NewCall("exit", "NONE", machine.mid)} ELSE calls
        /\ UNCHANGED <<haveSpec, preparation, routeId, superseded, delegated, poll,
                       battery, pose, starting, rexVars, nSets, endedUpTo>>
OnEventWithoutCancel ==
    LET e == Head(events)
        index == InputIndex(delegated, e.k)
        ours == routeId # 0 /\ e.id = routeId /\ machine.phase \in {"JOIN_LOOP", "EXIT_LOOP"}
        next == IF ours THEN GoalSucceeded(machine, index) ELSE machine
    IN  /\ events # <<>>
        /\ events' = Tail(events)
        /\ IF next.phase = "RETURN_HOME" /\ machine.phase = "EXIT_LOOP"
           THEN DispatchPhase(next, routeId, calls)
           ELSE machine' = next /\ UNCHANGED <<routeId, superseded, delegated, calls>>
        /\ UNCHANGED <<haveSpec, preparation, poll, battery, pose, starting, rexVars,
                       nSets, endedUpTo>>

OnEvent ==
    LET e == Head(events)
        index == InputIndex(delegated, e.k)
        ours == routeId # 0 /\ e.id = routeId
        joined == ours /\ machine.phase = "JOIN_LOOP"
        exited == ours /\ machine.phase = "EXIT_LOOP" /\ index = machine.exit
    IN  /\ events # <<>>
        /\ events' = Tail(events)
        /\ machine' = IF joined \/ exited THEN GoalSucceeded(machine, index) ELSE machine
        /\ calls' = IF exited THEN calls \union {NewCall("exit", "NONE", machine.mid)}
                    ELSE calls
        /\ UNCHANGED <<haveSpec, preparation, routeId, superseded, delegated, poll,
                       battery, pose, starting, rexVars, nSets, endedUpTo>>

AfterExitCancelled(c) ==
    /\ c \in calls /\ c.who = "exit" /\ Answered(c)
    /\ \/ /\ c.st = "ok" /\ machine.phase = "RETURN_HOME"
          /\ DispatchPhase(machine, routeId, calls \ {c})
       \/ /\ ~(c.st = "ok" /\ machine.phase = "RETURN_HOME")
          /\ machine' = IF c.st = "failed" THEN Pause(machine) ELSE machine
          /\ calls' = calls \ {c}
          /\ UNCHANGED <<routeId, superseded, delegated>>
    /\ UNCHANGED <<haveSpec, preparation, poll, battery, pose, starting, rexVars,
                   events, nSets, endedUpTo>>

OnBatteryDepartureCancelled(c) ==
    /\ c \in calls /\ c.who = "departure" /\ Answered(c)
    /\ calls' = calls \ {c}
    /\ machine' = IF c.st = "failed" /\ machine.phase # "NONE"
                  THEN Abort(machine) ELSE machine
    /\ UNCHANGED <<haveSpec, preparation, routeId, superseded, delegated, poll,
                   battery, pose, starting, rexVars, events, nSets, endedUpTo>>

-----------------------------------------------------------------------------
(* Operator services.                                                      *)

RequestReturn ==
    /\ machine.phase = "PATROL"
    /\ machine' = RequestReturnHome(machine)
    /\ UNCHANGED <<haveSpec, preparation, routeId, superseded, delegated, poll,
                   battery, pose, calls, starting, rexVars, events, nSets, endedUpTo>>

(* Broken variant: the preparation survives the cancel.                    *)
CancelKeepsPreparation ==
    /\ OperatorCancels
    /\ machine' = NoMachine
    /\ routeId' = 0 /\ superseded' = 0
    /\ battery' = ClearLatch(battery)
    /\ calls' = IF machine.phase = "NONE" THEN calls
                ELSE calls \union {NewCall("user", "NONE", machine.mid)}
    /\ endedUpTo' = nSets
    /\ UNCHANGED <<haveSpec, preparation, delegated, poll, pose, starting, rexVars,
                   events, nSets>>

Cancel ==
    /\ OperatorCancels
    /\ preparation' = 0
    /\ machine' = NoMachine
    /\ routeId' = 0 /\ superseded' = 0
    /\ battery' = ClearLatch(battery)
    /\ calls' = IF machine.phase = "NONE" THEN calls
                ELSE calls \union {NewCall("user", "NONE", machine.mid)}
    /\ endedUpTo' = nSets
    /\ UNCHANGED <<haveSpec, delegated, poll, pose, starting, rexVars, events, nSets>>

-----------------------------------------------------------------------------
(* The route executor, as far as the coordinator can see it.               *)

restOfCoord == <<coordVars, battery, pose, starting, nSets, endedUpTo>>

(* _set acknowledges at once and converts later.  The coordinator does     *)
(* nothing with a good answer (it publishes an event), so the call ends.   *)
RexSet(c) ==
    /\ rexBusy = {}
    /\ c \in calls /\ c.who = "dispatch" /\ c.st = "sent"
    /\ \/ /\ rexPrep' = [leg |-> c.leg, mid |-> c.tag]
          /\ calls' = calls \ {c}
       \/ /\ calls' = (calls \ {c}) \union {[c EXCEPT !.st = "failed"]}  \* call fails
          /\ UNCHANGED rexPrep
    /\ UNCHANGED <<restOfCoord, poll, rex, rexBusy, routes, events, nForeign>>

(* A client other than the patrol submits a route.                         *)
RexForeignSet ==
    /\ rexBusy = {}
    /\ nForeign < MaxForeign /\ nSets + nForeign < MaxSubmissions
    /\ nForeign' = nForeign + 1
    /\ rexPrep' = [leg |-> "FOREIGN", mid |-> 0]
    /\ UNCHANGED <<restOfCoord, poll, calls, rex, rexBusy, routes, events>>

(* _activate_prepared: a fresh mission_id.  A finite route may already be  *)
(* wholly behind the robot, and then completes without moving.             *)
RexActivate(status, pos) ==
    /\ rexBusy = {}
    /\ rexPrep # NoRoute
    /\ pos < LegLen(rexPrep.leg)
    /\ status = "COMPLETED" => rexPrep.leg # "LOOP"
    /\ routes' = Append(routes, rexPrep)
    /\ rex' = [id |-> Len(routes) + 1, status |-> status, pos |-> pos]
    /\ rexPrep' = NoRoute
    /\ UNCHANGED <<restOfCoord, poll, calls, rexBusy, events, nForeign>>

(* A conversion fails or a loop has no anchor: only a log line is written. *)
RexPrepFails ==
    /\ ConversionFails
    /\ rexBusy = {}
    /\ rexPrep # NoRoute
    /\ rexPrep' = NoRoute
    /\ UNCHANGED <<restOfCoord, poll, calls, rex, rexBusy, routes, events, nForeign>>

(* _record_checkpoint_reached, then _advance: the last checkpoint of a     *)
(* finite route completes the mission in the same callback.                *)
RexCheckpoint ==
    LET leg == routes[rex.id].leg
        next == rex.pos + 1
    IN  /\ rexBusy = {}
        /\ rex.status = "ACTIVE"
        /\ Len(events) < MaxEvents
        /\ events' = Append(events, [id |-> rex.id, k |-> rex.pos])
        /\ rex' = IF leg = "LOOP" THEN [rex EXCEPT !.pos = next % LoopLen]
                  ELSE IF next < LegLen(leg) THEN [rex EXCEPT !.pos = next]
                  ELSE [rex EXCEPT !.status = "COMPLETED"]
        /\ UNCHANGED <<restOfCoord, poll, calls, rexPrep, rexBusy, routes, nForeign>>

(* _pause, for any of its reasons.                                         *)
RexPause ==
    /\ rexBusy = {}
    /\ rex.status = "ACTIVE"
    /\ rex' = [rex EXCEPT !.status = "PAUSED"]
    /\ UNCHANGED <<restOfCoord, poll, calls, rexPrep, rexBusy, routes, events, nForeign>>

(* _cancel changes the mission, then blocks its callback group until Nav2  *)
(* answers or nav_cancel_timeout_s passes.                                 *)
RexCancel(c) ==
    /\ rexBusy = {}
    /\ c \in calls /\ c.who \in CancelCallers /\ c.st = "sent"
    /\ rexPrep' = NoRoute
    /\ rex' = IF rex.status \in {"ACTIVE", "PAUSED"}
              THEN [rex EXCEPT !.status = "CANCELLED"] ELSE rex
    /\ rexBusy' = {c}
    /\ calls' = (calls \ {c}) \union {[c EXCEPT !.st = "serving"]}
    /\ UNCHANGED <<restOfCoord, poll, routes, events, nForeign>>

RexCancelDone(c, s) ==
    /\ c \in rexBusy
    /\ rexBusy' = {}
    /\ calls' = (calls \ {[c EXCEPT !.st = "serving"]}) \union
                (IF c.who = "user" THEN {} ELSE {[c EXCEPT !.st = s]})
    /\ UNCHANGED <<restOfCoord, poll, rex, rexPrep, routes, events, nForeign>>

RexState ==
    /\ rexBusy = {}
    /\ poll.st = "sent"
    /\ poll' = [st |-> "done", id |-> rex.id, status |-> rex.status]
    /\ UNCHANGED <<restOfCoord, calls, rexVars, events>>

-----------------------------------------------------------------------------
BatteryStep == \/ \E g \in GuardInputs : OnBatteryGuard(g)
               \/ \E s \in SocInputs : OnBatteryState(s)
               \/ BatteryAge

StartStep == \E t \in starting :
    StartBegin(t) \/ StartEvaluate(t) \/ StartAssign(t) \/ StartRead(t) \/ StartSend(t)

AnswerStep == \E c \in calls :
    \/ FinishReplacement(c) \/ FinishReplacementFailed(c)
    \/ OnRouteDispatched(c) \/ AfterExitCancelled(c) \/ OnBatteryDepartureCancelled(c)

RexServe == \E c \in calls : RexSet(c) \/ RexCancel(c)

RexCancelEnds == \E c \in rexBusy, s \in {"ok", "failed"} : RexCancelDone(c, s)

RexStarts == \E status \in {"ACTIVE", "COMPLETED"}, pos \in 0 .. LoopLen + DepartLen + ReturnLen :
    RexActivate(status, pos)

Next ==
    \/ \E p \in Poses : OnPose(p)
    \/ BatteryStep
    \/ SetPatrolMission \/ PreparationFails \/ ActivateSpec
    \/ StartStep \/ AnswerStep
    \/ TickRouteState \/ OnRouteState \/ OnEvent
    \/ RequestReturn \/ Cancel
    \/ RexServe \/ RexForeignSet \/ RexStarts \/ RexPrepFails
    \/ RexCheckpoint \/ RexPause \/ RexCancelEnds \/ RexState

Spec == Init /\ [][Next]_vars

(* What the scheduling of the code justifies.  rclpy keeps running timers, *)
(* answers and subscriptions; the executor serves its queue and ends a     *)
(* blocked cancel by its timeout; its fromLL conversions end; and a route  *)
(* that is not paused keeps reaching checkpoints.                          *)
Fairness ==
    /\ WF_vars(AnswerStep) /\ WF_vars(StartStep)
    /\ WF_vars(TickRouteState) /\ WF_vars(OnRouteState) /\ WF_vars(OnEvent)
    /\ WF_vars(RexServe) /\ WF_vars(RexCancelEnds) /\ WF_vars(RexStarts)
    /\ WF_vars(RexState) /\ WF_vars(RexCheckpoint)

FairSpec == Spec /\ Fairness

-----------------------------------------------------------------------------
(* Properties.                                                             *)

(* A patrol whose battery return is latched never circulates on the loop:  *)
(* goal_succeeded and latch_battery_return leave PATROL in the same        *)
(* callback, whichever of the join and the battery sample comes first.     *)
NoPatrolOnLowBattery == machine.phase = "PATROL" => ~machine.low

(* A patrol on its way out of the loop knows its exit, and the exit is the *)
(* loop waypoint nearest to the return connector.                          *)
ReturnKnowsItsExit ==
    machine.phase \in {"EXIT_LOOP", "RETURN_HOME"} =>
        /\ machine.exit \in LoopIndex
        /\ \A j \in LoopIndex : Dist[machine.exit] <= Dist[j]

(* The latch of the input policy reaches the mission: a policy that has    *)
(* latched never reports newly_latched again, so a mission that missed the *)
(* report would never return for its battery.                              *)
LatchReachesMission ==
    machine.phase # "NONE" /\ starting = {} /\ battery.latched => machine.low

(* The route the coordinator follows is the one it dispatched for the      *)
(* current phase of the current patrol; after the exit checkpoint it is    *)
(* still the loop route until RETURN_HOME is dispatched.                   *)
AdoptedRouteIsOurs ==
    routeId # 0 /\ Active(machine) =>
        /\ routes[routeId].mid = machine.mid
        /\ routes[routeId].leg \in {Leg(machine.phase)} \union
               (IF machine.phase = "RETURN_HOME" THEN {"LOOP"} ELSE {})

(* When the return leg is handed to the route executor, the loop route of  *)
(* this patrol is not running any more: the exit cancellation has ended.   *)
ReturnAfterLoopStopped ==
    \A c \in calls :
        c.who = "dispatch" /\ c.leg = "RETURN" /\ c.st = "sent" =>
            ~(/\ rex.status = "ACTIVE"
              /\ routes[rex.id] = [leg |-> "LOOP", mid |-> c.tag])

(* An explicit cancel ends the mission: no patrol that was submitted       *)
(* before the cancel runs after it.                                        *)
CancelIsFinal == machine.phase # "NONE" => machine.mid > endedUpTo

PhaseRank(p) == CASE p = "IDLE" -> 0 [] p = "DEPART_HOME" -> 1 [] p = "JOIN_LOOP" -> 2
                  [] p = "PATROL" -> 3 [] p = "EXIT_LOOP" -> 4 [] p = "RETURN_HOME" -> 5
                  [] p = "AT_HOME" -> 6 [] p = "PAUSED" -> 7 [] OTHER -> 8

(* No callback, however late, takes a patrol back to an earlier phase, and *)
(* nothing resumes one that is home, paused or aborted; a battery that     *)
(* recovers does not clear the latch of the mission.                       *)
PhasesOnlyAdvance ==
    [][machine'.mid = machine.mid /\ machine.phase # "NONE" =>
          /\ PhaseRank(machine'.phase) >= PhaseRank(machine.phase)
          /\ machine.low => machine'.low]_vars

PolledOwn(leg) ==
    poll.id # 0 /\ routes[poll.id] = [leg |-> leg, mid |-> machine.mid]
ReachedOwn(indices) ==
    /\ events # <<>>
    /\ routes[Head(events).id] = [leg |-> "LOOP", mid |-> machine.mid]
    /\ (EntryIndex + 1 + Head(events).k) % LoopLen \in indices

PhaseEndedByOwnRoute ==
    machine'.mid = machine.mid =>
        /\ machine.phase = "DEPART_HOME" /\ machine'.phase = "JOIN_LOOP"
              => PolledOwn("DEPART")
        /\ machine.phase = "RETURN_HOME" /\ machine'.phase = "AT_HOME"
              => PolledOwn("RETURN")
        /\ machine.phase = "JOIN_LOOP" /\ machine'.phase \in {"PATROL", "EXIT_LOOP"}
              => ReachedOwn(LoopIndex)
        /\ machine.phase = "EXIT_LOOP" /\ machine'.phase = "RETURN_HOME"
              => ReachedOwn({machine.exit})

(* A phase ends on the progress of its own route: the depart leg and the   *)
(* return leg by a poll of that very leg, the join and the exit by a       *)
(* checkpoint event of this patrol's loop, the exit at the exit waypoint.  *)
PhaseEndsOnOwnRoute == [][PhaseEndedByOwnRoute]_vars

(* The same for an executor that also takes routes from other clients, as  *)
(* long as the delegated route has identified itself: a foreign route that *)
(* displaces it moves the patrol no further.                               *)
IdentifiedRouteIsTheOnlyOne ==
    [][routeId # 0 /\ routes[routeId] = [leg |-> Leg(machine.phase), mid |-> machine.mid]
          => PhaseEndedByOwnRoute]_vars

(* A patrol with a latched battery return does not stay out for ever: it   *)
(* gets home, or stops and waits for an operator.                          *)
BatteryReturnEnds == (machine.low /\ Active(machine)) ~> ~(machine.low /\ Active(machine))
=============================================================================
