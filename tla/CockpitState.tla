---------------------------- MODULE CockpitState ----------------------------
(***************************************************************************)
(* What a cockpit shows of the robot: the cache of ros_gateway.py, the     *)
(* telemetry gate of compact_telemetry.py and the state answers of         *)
(* websocket_server.py.                                                    *)
(*                                                                         *)
(* The ROS callbacks are serial (one mutually exclusive group) and each is *)
(* one action; the asyncio loop runs beside them.  A state answer copies   *)
(* the cache first and then awaits four services, so everything that       *)
(* arrives meanwhile is newer than what it carries.  One connected client. *)
(***************************************************************************)
EXTENDS Integers, SequencesExt

CONSTANTS
    ViewProfiles,       \* scenario: telemetry_profile values, "compact" or "full"
    MaxMoves,       \* bound: changes of the robot's own state
    MaxAsks,        \* bound: get_state requests and lock transitions
    LockSpeaks,     \* scenario: are there lock transitions?
    MaxFine         \* bound: measurements that are no operational transition

ASSUME CockpitAssumption == MaxMoves \in Nat /\ MaxAsks \in Nat /\ MaxFine \in Nat

VARIABLES
    profile,    \* _telemetry_profile
    robot,      \* nav_command_server: [manual, goal]
    cache,      \* _cache
    typed,      \* _typed_rtk_status_received
    pacing,     \* CompactTelemetryPolicy: [signature, dirty, elapsed]
    answers,    \* initial_state calls awaiting their services
    queue,      \* the client's outbox: replaceable payloads, one per op
    screen,     \* what the cockpit shows
    nMoves, nAsks

cockpitVars == <<profile, robot, cache, typed, pacing, answers, queue, screen,
                 nMoves, nAsks>>

(* set_manual_mode cancels the goal, so the two are not both on for long.  *)
Robot == {r \in [manual : BOOLEAN, goal : BOOLEAN] : ~(r.manual /\ r.goal)}
Modes == {"connected", "idle", "manual", "navigating"}
Gps == {"none", "legacy", "typed"}
Cache == [manual : BOOLEAN, goal : BOOLEAN, mode : Modes, gps : Gps, fine : 0..MaxFine]
Signature == [manual : BOOLEAN, goal : BOOLEAN, mode : Modes]
NoSignature == [mode |-> "none"]
Policy == [signature : Signature \union {NoSignature}, dirty : BOOLEAN,
           elapsed : BOOLEAN]
Payload == [op : {"state", "nav_telemetry"}, seen : Cache]

CockpitTypeOK ==
    /\ profile \in ViewProfiles
    /\ robot \in Robot /\ cache \in Cache /\ screen \in Cache
    /\ typed \in BOOLEAN
    /\ pacing \in Policy
    /\ answers \in Seq([to : {"asker", "everyone"}, seen : Cache])
    /\ queue \in Seq(Payload)
    /\ nMoves \in 0..MaxMoves /\ nAsks \in 0..MaxAsks

-----------------------------------------------------------------------------
(* compact_telemetry.py and the outbox.                                    *)

(* transition_signature: the operational part of a snapshot.               *)
SignatureOf(c) == [manual |-> c.manual, goal |-> c.goal, mode |-> c.mode]

(* ClientOutbox.put of a replaceable payload: in place of one with its op. *)
PutReplaceable(q, payload) ==
    LET same == SelectInSeq(q, LAMBDA p : p.op = payload.op)
    IN  IF same = 0 THEN Append(q, payload) ELSE [q EXCEPT ![same] = payload]

Emit(c) == queue' = PutReplaceable(queue, [op |-> "nav_telemetry", seen |-> c])

MarkEmitted(p) == [p EXCEPT !.dirty = FALSE, !.elapsed = FALSE]

(* Broken variant: only a transition is remembered, not a measurement.     *)
CachedTelemetryChangeOfTransitions(c) ==
    LET immediate == pacing.signature # SignatureOf(c)
    IN  /\ pacing' = [signature |-> SignatureOf(c), dirty |-> FALSE,
                      elapsed |-> pacing.elapsed]
        /\ IF profile = "full" \/ immediate THEN Emit(c) ELSE UNCHANGED queue

(* _on_cached_telemetry_change with CompactTelemetryPolicy.observe.        *)
CachedTelemetryChange(c) ==
    IF profile = "full"
    THEN Emit(c) /\ UNCHANGED pacing
    ELSE LET immediate == pacing.signature # SignatureOf(c)
             observed == [pacing EXCEPT !.signature = SignatureOf(c), !.dirty = TRUE]
         IN  IF immediate
             THEN pacing' = MarkEmitted(observed) /\ Emit(c)
             ELSE pacing' = observed /\ UNCHANGED queue

-----------------------------------------------------------------------------
CockpitInit ==
    /\ profile \in ViewProfiles
    /\ robot = [manual |-> FALSE, goal |-> FALSE]
    /\ cache = [manual |-> FALSE, goal |-> FALSE, mode |-> "connected",
                gps |-> "none", fine |-> 0]
    /\ typed = FALSE
    /\ pacing = [signature |-> NoSignature, dirty |-> FALSE, elapsed |-> TRUE]
    /\ answers = <<>> /\ queue = <<>>
    /\ screen = cache
    /\ nMoves = 0 /\ nAsks = 0

(* The navigation command server changes mode (external).                  *)
RobotMoves(r) ==
    /\ nMoves < MaxMoves /\ r # robot
    /\ robot' = r /\ nMoves' = nMoves + 1
    /\ UNCHANGED <<profile, cache, typed, pacing, answers, queue, screen, nAsks>>

(* _on_nav_telemetry, a message the server sends periodically.             *)
OnNavTelemetry ==
    /\ cache' = [cache EXCEPT !.manual = robot.manual, !.goal = robot.goal,
                     !.mode = IF robot.manual THEN "manual"
                              ELSE IF robot.goal THEN "navigating" ELSE "idle"]
    /\ CachedTelemetryChange(cache')
    /\ UNCHANGED <<profile, robot, typed, answers, screen, nMoves, nAsks>>

(* _on_gps, _on_heading_odometry, _on_battery_*, _on_drive_telemetry: a    *)
(* measurement that is no transition.                                      *)
OnMeasurement ==
    /\ cache.fine < MaxFine
    /\ cache' = [cache EXCEPT !.fine = @ + 1]
    /\ CachedTelemetryChange(cache')
    /\ UNCHANGED <<profile, robot, typed, answers, screen, nMoves, nAsks>>

AcceptsLegacyRtkStatus == ~typed

(* _on_rtk: the text status is taken until a typed one has come.           *)
OnRtk ==
    /\ AcceptsLegacyRtkStatus
    /\ cache' = [cache EXCEPT !.gps = "legacy"]
    /\ CachedTelemetryChange(cache')
    /\ UNCHANGED <<profile, robot, typed, answers, screen, nMoves, nAsks>>

(* _on_gnss_rtk_status *)
OnGnssRtkStatus ==
    /\ typed' = TRUE
    /\ cache' = [cache EXCEPT !.gps = "typed"]
    /\ CachedTelemetryChange(cache')
    /\ UNCHANGED <<profile, robot, answers, screen, nMoves, nAsks>>

(* The period of the gate passes.                                          *)
PeriodPasses ==
    /\ ~pacing.elapsed
    /\ pacing' = [pacing EXCEPT !.elapsed = TRUE]
    /\ UNCHANGED <<profile, robot, cache, typed, answers, queue, screen, nMoves, nAsks>>

(* _on_compact_telemetry_timer *)
OnCompactTelemetryTimer ==
    /\ profile = "compact"
    /\ pacing.dirty /\ pacing.elapsed
    /\ pacing' = MarkEmitted(pacing)
    /\ Emit(cache)
    /\ UNCHANGED <<profile, robot, cache, typed, answers, screen, nMoves, nAsks>>

(* initial_state, its first half: for a new connection or get_state        *)
(* (asker), or before an operator transition is broadcast (everyone).      *)
AskState(to) ==
    /\ nAsks < MaxAsks
    /\ to = "everyone" => LockSpeaks
    /\ answers' = Append(answers, [to |-> to, seen |-> cache])
    /\ nAsks' = nAsks + 1
    /\ UNCHANGED <<profile, robot, cache, typed, pacing, queue, screen, nMoves>>

(* initial_state, its second half: the navigation answer, if there is one, *)
(* is newer than the copied cache; mode stays as copied.                   *)
Overlay(seen, answered) ==
    IF answered THEN [seen EXCEPT !.manual = robot.manual, !.goal = robot.goal] ELSE seen

(* The services answer, or fail, in any order between the askers.          *)
StateAnswered(i, answered) ==
    LET state == Overlay(answers[i].seen, answered)
        asked == PutReplaceable(queue, [op |-> "state", seen |-> state])
    IN  /\ queue' = IF answers[i].to = "asker" THEN asked
                    ELSE PutReplaceable(asked, [op |-> "nav_telemetry", seen |-> state])
        /\ answers' = RemoveAt(answers, i)
        /\ UNCHANGED <<profile, robot, cache, typed, pacing, screen, nMoves, nAsks>>

(* _writer, and the cockpit merging the payload (external): a field the    *)
(* payload does not have keeps what it showed.                             *)
Shown ==
    /\ queue # <<>>
    /\ screen' = LET seen == Head(queue).seen
                 IN  [seen EXCEPT !.gps = IF @ = "none" THEN screen.gps ELSE @]
    /\ queue' = Tail(queue)
    /\ UNCHANGED <<profile, robot, cache, typed, pacing, answers, nMoves, nAsks>>

CockpitNext ==
    \/ \E r \in Robot : RobotMoves(r)
    \/ OnNavTelemetry \/ OnMeasurement \/ OnRtk \/ OnGnssRtkStatus
    \/ PeriodPasses \/ OnCompactTelemetryTimer
    \/ \E to \in {"asker", "everyone"} : AskState(to)
    \/ \E i \in 1 .. Len(answers), answered \in BOOLEAN : StateAnswered(i, answered)
    \/ Shown

(* The server publishes periodically, the timer runs on steady time, every *)
(* awaited service is bounded by a timeout and the writer task keeps going *)
(* while the socket is open.                                               *)
CockpitFairness ==
    /\ WF_cockpitVars(OnNavTelemetry)
    /\ WF_cockpitVars(PeriodPasses)
    /\ WF_cockpitVars(OnCompactTelemetryTimer)
    /\ WF_cockpitVars(\E i \in 1 .. Len(answers), b \in BOOLEAN : StateAnswered(i, b))
    /\ WF_cockpitVars(Shown)

CockpitSpec == CockpitInit /\ [][CockpitNext]_cockpitVars /\ CockpitFairness

-----------------------------------------------------------------------------
(* However state answers and telemetry overtake one another, a robot that  *)
(* stays in one mode is, from some moment on, shown in that mode: the      *)
(* screen takes its final word from the gate, not from an old answer.      *)
ScreenCatchesUp ==
    <>[](/\ screen.manual = robot.manual /\ screen.goal = robot.goal
         /\ screen.mode = IF robot.manual THEN "manual"
                          ELSE IF robot.goal THEN "navigating" ELSE "idle"
         /\ screen.fine = cache.fine)

(* "the legacy text topic is only a migration fallback and must never roll *)
(* the UI back to an inferred status" (ros_gateway.py:361): once a screen  *)
(* has shown the typed status it keeps showing one.                        *)
NeverRollsBack == [][screen.gps = "typed" => screen'.gps = "typed"]_cockpitVars
=============================================================================
