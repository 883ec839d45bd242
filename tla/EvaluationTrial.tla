---------------------------- MODULE EvaluationTrial ----------------------------
(***************************************************************************)
(* One evaluated goal: EvaluationRunner of evaluation_runner.py with       *)
(* gates.py, beside the navigation server whose events and telemetry it    *)
(* observes.                                                               *)
(*                                                                         *)
(* The simulation may have served an earlier goal; that goal is over, its  *)
(* event was published before the runner subscribed, and every telemetry   *)
(* message still carries its result.  Events and telemetry reach the       *)
(* runner late.  Time advances in ticks of the telemetry.                  *)
(***************************************************************************)
EXTENDS Integers, Sequences

CONSTANTS
    TrialModes,     \* a subset of {"run", "observe"}
    Timeout,        \* timeout_s, in ticks
    Window          \* the second after a success, in ticks

ASSUME TrialAssumption == Timeout \in Nat /\ Window \in Nat

Statuses == {"succeeded", "aborted", "canceled"}

VARIABLES
    mode,
    server,     \* the goal Nav2 works on, the last result and its event id
    wire,       \* events published and not yet received
    sampled,    \* telemetry published and not yet received; <<>> or one message
    seen,       \* the runner: telemetry seen, poses seen, plans of which goal
    trial,      \* goal sent, its age, event baseline, terminal status and its age
    verdict     \* "" until _finish; then the gates' state

trialVars == <<mode, server, wire, sampled, seen, trial, verdict>>

NoTelemetry == [id |-> -1, status |-> "none"]

TrialTypeOK ==
    /\ mode \in TrialModes
    /\ server.goal \in {"none", "own"} /\ server.id \in 0..2
    /\ server.status \in Statuses \union {"none"}
    /\ Len(wire) <= 1 /\ Len(sampled) <= 1
    /\ trial.age \in 0..Timeout + 1 /\ trial.quiet \in 0..Window
    /\ trial.terminal \in Statuses \union {"none"}
    /\ verdict \in {"", "pass", "fail"}

-----------------------------------------------------------------------------
TrialInit ==
    /\ mode \in TrialModes
    /\ \/ server = [goal |-> "none", id |-> 0, status |-> "none", at |-> FALSE]
       \/ \E s \in Statuses : server = [goal |-> "none", id |-> 1, status |-> s, at |-> FALSE]
    /\ wire = <<>> /\ sampled = <<>>
    /\ seen = [telemetry |-> NoTelemetry, poses |-> FALSE, plan |-> FALSE]
    /\ trial = [goal |-> FALSE, age |-> 0, baseline |-> -1, terminal |-> "none", quiet |-> 0]
    /\ verdict = ""

Observing == verdict = ""

(* _global, _raw and _local keep every sample.                             *)
ReceivesPose ==
    /\ Observing /\ ~seen.poses
    /\ seen' = [seen EXCEPT !.poses = TRUE]
    /\ UNCHANGED <<mode, server, wire, sampled, trial, verdict>>

(* _plan: the path of the goal.                                            *)
ReceivesPlan ==
    /\ Observing /\ server.goal = "own" /\ ~seen.plan
    /\ seen' = [seen EXCEPT !.plan = TRUE]
    /\ UNCHANGED <<mode, server, wire, sampled, trial, verdict>>

(* _send_scenario_goal in run mode and _observed_goal in observe mode: the *)
(* results up to now are not results of this trial.                        *)
StartsTrial ==
    /\ Observing /\ ~trial.goal
    /\ mode = "run" => seen.poses /\ seen.telemetry # NoTelemetry
    /\ trial' = [goal |-> TRUE, age |-> 0, baseline |-> seen.telemetry.id,
                 terminal |-> "none", quiet |-> 0]
    /\ server' = [server EXCEPT !.goal = "own"]
    /\ UNCHANGED <<mode, wire, sampled, seen, verdict>>

(* External: Nav2 ends the goal; a success means the rover is there.       *)
TrialGoalEnds(status) ==
    /\ server.goal = "own"
    /\ server' = [goal |-> "none", id |-> server.id + 1, status |-> status,
                  at |-> status = "succeeded"]
    /\ wire' = Append(wire, status)
    /\ UNCHANGED <<mode, sampled, seen, trial, verdict>>

(* _event: a terminal code is the trial's; every event restarts the second *)
(* of silence.                                                             *)
ReceivesEvent ==
    /\ Observing /\ wire # <<>>
    /\ trial' = [trial EXCEPT !.terminal = Head(wire), !.quiet = 0]
    /\ wire' = Tail(wire)
    /\ UNCHANGED <<mode, server, sampled, seen, verdict>>

(* Broken variant: any result in a telemetry message is taken.             *)
IsAnyResult(m) == m.status \in Statuses

(* The result is newer than the ones known when the goal was sent; a       *)
(* runner that had no telemetry then takes none.                           *)
IsNewResult(m) == trial.baseline >= 0 /\ m.id > trial.baseline /\ m.status \in Statuses

(* _telemetry.                                                             *)
ReceivesTelemetry ==
    /\ Observing /\ sampled # <<>>
    /\ LET m == Head(sampled)
       IN /\ seen' = [seen EXCEPT !.telemetry = m]
          /\ trial' = IF IsNewResult(m) THEN [trial EXCEPT !.terminal = m.status, !.quiet = 0]
                      ELSE trial
    /\ sampled' = <<>>
    /\ UNCHANGED <<mode, server, wire, verdict>>

(* functional_gates on what the runner recorded after the goal was sent.   *)
Gates == seen.plan /\ trial.terminal = "succeeded" /\ server.at /\ seen.poses

(* Broken variant: only a terminal status ends a trial.                    *)
DueOnResult ==
    \/ trial.terminal = "succeeded" /\ trial.quiet >= Window
    \/ trial.terminal \in {"aborted", "canceled"}

(* _tick: a success after a second without news, a failure at once, or the *)
(* timeout.                                                                *)
Due ==
    \/ trial.terminal = "succeeded" /\ trial.quiet >= Window
    \/ trial.terminal \in {"aborted", "canceled"}
    \/ trial.age > Timeout

(* _finish: the artifacts are written and the gates decide the exit code.  *)
FinishesTrial ==
    /\ Observing /\ trial.goal /\ Due
    /\ verdict' = IF Gates THEN "pass" ELSE "fail"
    /\ UNCHANGED <<mode, server, wire, sampled, seen, trial>>

(* A tick of the clock; the server publishes its telemetry.                *)
TelemetryTick ==
    /\ Observing /\ sampled = <<>>
    /\ sampled' = <<[id |-> server.id, status |-> server.status]>>
    /\ trial' = IF trial.goal
                THEN [trial EXCEPT !.age = IF @ <= Timeout THEN @ + 1 ELSE @,
                                   !.quiet = IF trial.terminal # "none" /\ @ < Window
                                             THEN @ + 1 ELSE @]
                ELSE trial
    /\ UNCHANGED <<mode, server, wire, seen, verdict>>

TrialNext ==
    \/ ReceivesPose \/ ReceivesPlan \/ StartsTrial \/ \E s \in Statuses : TrialGoalEnds(s)
    \/ ReceivesEvent \/ ReceivesTelemetry \/ FinishesTrial \/ TelemetryTick

(* Timers and subscriptions are served; the goal itself may never end.     *)
TrialFairness ==
    /\ WF_trialVars(TelemetryTick) /\ WF_trialVars(ReceivesTelemetry)
    /\ WF_trialVars(FinishesTrial)

TrialSpec == TrialInit /\ [][TrialNext]_trialVars /\ TrialFairness

-----------------------------------------------------------------------------
(* A trial is judged on its own goal: a terminal status it ends with is    *)
(* one that Nav2 gave to that goal, and a trial that passes has arrived.   *)
JudgedOnItsOwn ==
    /\ trial.terminal # "none" => server.goal = "none" /\ trial.terminal = server.status
    /\ verdict = "pass" => server.at

(* Every trial that was started ends, whatever Nav2 does.                  *)
TrialEnds == trial.goal ~> verdict # ""
=============================================================================
