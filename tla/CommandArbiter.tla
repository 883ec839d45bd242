--------------------------- MODULE CommandArbiter ---------------------------
(***************************************************************************)
(* nav_command_server as the arbiter of /cmd_vel_final: automatic commands *)
(* (cmd_vel_safe) gated by the safety scan, the path health and the        *)
(* collision monitor; manual commands with their watchdog; brake holds.    *)
(*                                                                         *)
(* Subscriptions and timers share the node's default callback group, so    *)
(* one of them runs at a time; it decides under the lock and publishes     *)
(* after the lock.  Services run in a group of their own, goal results in  *)
(* a third one and every brake hold in its own thread.                     *)
(***************************************************************************)
EXTENDS ControlLogic, Sequences

CONSTANTS
    ManualTimeout,      \* manual_cmd_timeout_s, in ticks
    MonitorTimeout,     \* collision_monitor_timeout_s, in ticks
    ScanRequired,       \* obstacle_detection_required
    ScanAges,           \* ages of scans on arrival; -1: no usable stamp
    Twists,             \* (linear, angular) of cmd_vel_safe and of teleop
    TeleopBrakes,       \* brake_pct of teleop and BrakeNav
    Healths,            \* verdicts on the path
    MonitorStops,       \* verdicts of the collision monitor: does it stop?
    HoldTicks,          \* duration of a brake hold
    MaxModeChanges,     \* bound: SetManualMode requests
    MaxHolds,           \* bound: brake holds alive at once
    MaxFinal            \* bound: commands on the way to the controller

(* PathHealth.state; "maneuver": STOP_AND_WAIT for a refused maneuver.     *)
PathVerdicts == {"keep", "stop", "maneuver"}

ASSUME ArbiterAssumption ==
    /\ ManualTimeout \in Nat \ {0} /\ MonitorTimeout \in Nat \ {0}
    /\ ScanRequired \in BOOLEAN /\ ScanAges \subseteq -1 .. MonitorTimeout + 1
    /\ Twists \subseteq Int \X Int /\ TeleopBrakes \subseteq Nat
    /\ Healths \subseteq PathVerdicts /\ MonitorStops \subseteq BOOLEAN
    /\ HoldTicks \in Nat \ {0} /\ MaxModeChanges \in Nat /\ MaxHolds \in Nat
    /\ MaxFinal \in Nat \ {0}

VARIABLES
    manual,     \* manual_enabled, age of manual_stamp_s, manual_timeout_stop_sent
    seen,       \* scan_stamp_s as an age, monitor_action, path health
    deciding,   \* the command a default-group callback is about to publish
    takeover,   \* _on_set_manual_mode between _cancel_goal and the switch
    holds,      \* brake-hold threads, the one in _brake_cancel last
    final,      \* /cmd_vel_final
    changes,    \* SetManualMode requests so far
    strays      \* history: since the takeover, automatic commands and
                \* whether a manual one has been published

arbiterVars == <<manual, seen, deciding, takeover, holds, final, changes, strays>>

NeverStamped == MonitorTimeout + 1
NoCommand == [source |-> "none"]

Command(linear, angular, brake, source) ==
    [linear |-> linear, angular |-> angular, brake |-> Clamp(brake, 0, 100),
     source |-> source, finite |-> TRUE]

StopCommand(source, brake) == Command(0, 0, brake, source)

ArbiterInit ==
    /\ manual = [on |-> FALSE, age |-> -1, stopSent |-> FALSE]
    /\ seen = [scan |-> NeverStamped, monitorStop |-> FALSE, health |-> "keep"]
    /\ deciding = NoCommand
    /\ takeover = FALSE
    /\ holds = <<>>
    /\ final = <<>>
    /\ changes = 0
    /\ strays = [auto |-> 0, manual |-> FALSE]

-----------------------------------------------------------------------------
Room == Len(final) < MaxFinal

(* _publish, and what the history remembers of it.                         *)
Publish(c) ==
    /\ Room
    /\ final' = Append(final, c)
    /\ strays' = IF ~manual.on THEN strays
                 ELSE IF c.source = "AUTO" THEN [strays EXCEPT !.auto = @ + 1]
                 ELSE IF c.source = "MANUAL" THEN [strays EXCEPT !.manual = TRUE]
                 ELSE strays

DefaultGroupFree == deciding = NoCommand

(* Broken variant: a scan once seen is good for ever.                      *)
ScanIsFreshAlways == seen.scan <= NeverStamped

ScanIsFresh == seen.scan <= MonitorTimeout

(* set_scan_received: receipt alone renews nothing.                        *)
OnScan(age) ==
    /\ DefaultGroupFree
    /\ seen' = [seen EXCEPT !.scan = IF age >= 0 THEN age ELSE NeverStamped]
    /\ UNCHANGED <<manual, deciding, takeover, holds, final, changes, strays>>

OnMonitorState(stop) ==
    /\ DefaultGroupFree
    /\ seen' = [seen EXCEPT !.monitorStop = stop]
    /\ UNCHANGED <<manual, deciding, takeover, holds, final, changes, strays>>

HealthBrake(health) == IF health = "maneuver" THEN 100 ELSE 0

(* The stop of a path verdict is published within the lock.                *)
OnPathHealth(health) ==
    /\ DefaultGroupFree
    /\ seen' = [seen EXCEPT !.health = health]
    /\ IF health # "keep" /\ ~manual.on
       THEN Publish(StopCommand("SAFETY", HealthBrake(health)))
       ELSE UNCHANGED <<final, strays>>
    /\ UNCHANGED <<manual, deciding, takeover, holds, changes>>

(* Broken variant: the mode is not looked at.                              *)
AutomaticOutputInAnyMode(t) ==
    IF ScanRequired /\ ~ScanIsFresh THEN StopCommand("SAFETY", 0)
    ELSE IF seen.health # "keep" THEN StopCommand("SAFETY", HealthBrake(seen.health))
    ELSE IF seen.monitorStop THEN StopCommand("SAFETY", 0)
    ELSE Command(t[1], t[2], 0, "AUTO")

AutomaticOutput(t) ==
    IF manual.on THEN NoCommand
    ELSE IF ScanRequired /\ ~ScanIsFresh THEN StopCommand("SAFETY", 0)
    ELSE IF seen.health # "keep" THEN StopCommand("SAFETY", HealthBrake(seen.health))
    ELSE IF seen.monitorStop THEN StopCommand("SAFETY", 0)
    ELSE Command(t[1], t[2], 0, "AUTO")

OnSafe(t) ==
    /\ DefaultGroupFree
    /\ deciding' = AutomaticOutput(t)
    /\ UNCHANGED <<manual, seen, takeover, holds, final, changes, strays>>

OnTeleop(t, brake) ==
    /\ DefaultGroupFree /\ manual.on
    /\ manual' = [manual EXCEPT !.age = 0, !.stopSent = FALSE]
    /\ deciding' = Command(t[1], t[2], brake, "MANUAL")
    /\ UNCHANGED <<seen, takeover, holds, final, changes, strays>>

(* A takeover without any teleop command has no stamp to watch.            *)
ManualWatchdogDue ==
    manual.on /\ manual.age > ManualTimeout /\ ~manual.stopSent

ManualWatchdog ==
    /\ DefaultGroupFree /\ ManualWatchdogDue
    /\ manual' = [manual EXCEPT !.stopSent = TRUE]
    /\ deciding' = StopCommand("MANUAL", 0)
    /\ UNCHANGED <<seen, takeover, holds, final, changes, strays>>

PublishDecision ==
    /\ deciding # NoCommand
    /\ Publish(deciding)
    /\ deciding' = NoCommand
    /\ UNCHANGED <<manual, seen, takeover, holds, changes>>

-----------------------------------------------------------------------------
(* _start_brake_hold: the hold before this one is told to end.             *)
Cancelled(threads) ==
    [i \in DOMAIN threads |-> [threads[i] EXCEPT !.cancelled = TRUE]]

StartBrakeHold(brake) ==
    /\ Len(holds) < MaxHolds
    /\ holds' = Append(Cancelled(holds),
                       [left |-> HoldTicks, brake |-> brake, cancelled |-> FALSE,
                        checked |-> FALSE])

OnBrake(brake) ==
    /\ ~takeover
    /\ StartBrakeHold(Clamp(brake, 0, 100))
    /\ UNCHANGED <<manual, seen, deciding, takeover, final, changes, strays>>

(* The end of _on_goal_result, in any mode.                                *)
SuccessBrake ==
    /\ StartBrakeHold(100)
    /\ UNCHANGED <<manual, seen, deciding, takeover, final, changes, strays>>

(* The loop of publish_hold looks at its event and its deadline, and then  *)
(* publishes.                                                              *)
HoldCheck(i) ==
    /\ ~holds[i].checked
    /\ holds' = IF holds[i].cancelled \/ holds[i].left = 0
                THEN SubSeq(holds, 1, i - 1) \o SubSeq(holds, i + 1, Len(holds))
                ELSE [holds EXCEPT ![i].checked = TRUE]
    /\ UNCHANGED <<manual, seen, deciding, takeover, final, changes, strays>>

HoldPublish(i) ==
    /\ holds[i].checked
    /\ Publish(StopCommand("SAFETY", holds[i].brake))
    /\ holds' = [holds EXCEPT ![i].checked = FALSE]
    /\ UNCHANGED <<manual, seen, deciding, takeover, changes>>

-----------------------------------------------------------------------------
(* A takeover that finds a goal asks for its end, brakes at once and       *)
(* starts a hold, which the switch of the mode then ends.                  *)
TakeoverBrake ==
    /\ ~takeover /\ changes < MaxModeChanges
    /\ takeover' = TRUE
    /\ Publish(StopCommand("SAFETY", 100))
    /\ StartBrakeHold(100)
    /\ UNCHANGED <<manual, seen, deciding, changes>>

SetManualMode(on) ==
    /\ changes < MaxModeChanges /\ (takeover => on)
    /\ changes' = changes + 1
    /\ takeover' = FALSE
    /\ holds' = Cancelled(holds)
    /\ manual' = [on |-> on, age |-> IF on THEN manual.age ELSE -1, stopSent |-> FALSE]
    /\ strays' = [auto |-> 0, manual |-> FALSE]
    /\ UNCHANGED <<seen, deciding, final>>

(* Time passes between callbacks: none of them waits here.                 *)
AgeArbiter ==
    /\ manual' = [manual EXCEPT !.age = IF @ \in 0 .. ManualTimeout THEN @ + 1 ELSE @]
    /\ seen' = [seen EXCEPT !.scan = IF @ < NeverStamped THEN @ + 1 ELSE @]
    /\ holds' = [i \in DOMAIN holds |->
                    [holds[i] EXCEPT !.left = IF @ > 0 THEN @ - 1 ELSE 0]]
    /\ UNCHANGED <<deciding, takeover, final, changes, strays>>

(* Time passes when no callback or hold is in the middle of something and  *)
(* the watchdog timer has run.                                             *)
ArbiterBetweenCallbacks ==
    /\ deciding = NoCommand /\ ~takeover /\ final = <<>>
    /\ \A i \in DOMAIN holds : ~holds[i].checked

ArbiterSettled == ArbiterBetweenCallbacks /\ ~ManualWatchdogDue

DefaultGroup ==
    \/ \E age \in ScanAges : OnScan(age)
    \/ \E stop \in MonitorStops : OnMonitorState(stop)
    \/ \E health \in Healths : OnPathHealth(health)
    \/ \E t \in Twists : OnSafe(t)
    \/ \E t \in Twists, b \in TeleopBrakes : OnTeleop(t, b)
    \/ ManualWatchdog
    \/ PublishDecision

Services ==
    \/ \E b \in TeleopBrakes : OnBrake(b)
    \/ SuccessBrake
    \/ TakeoverBrake
    \/ \E on \in BOOLEAN : SetManualMode(on)

HoldThreads == \E i \in DOMAIN holds : HoldCheck(i) \/ HoldPublish(i)

(* The controller takes the next command.                                  *)
TakeFinal ==
    /\ final # <<>>
    /\ final' = Tail(final)
    /\ UNCHANGED <<manual, seen, deciding, takeover, holds, changes, strays>>

ElapseArbiter == ArbiterSettled /\ AgeArbiter

ArbiterNext == DefaultGroup \/ Services \/ HoldThreads \/ TakeFinal \/ ElapseArbiter

ArbiterSpec == ArbiterInit /\ [][ArbiterNext]_arbiterVars

-----------------------------------------------------------------------------
FinalCommands ==
    [linear : {t[1] : t \in Twists} \cup {0}, angular : {t[2] : t \in Twists} \cup {0},
     brake : 0 .. 100, source : {"AUTO", "MANUAL", "SAFETY"}, finite : {TRUE}]

ArbiterTypeOK ==
    /\ manual \in [on : BOOLEAN, age : -1 .. ManualTimeout + 1, stopSent : BOOLEAN]
    /\ seen \in [scan : 0 .. NeverStamped, monitorStop : BOOLEAN,
                 health : PathVerdicts]
    /\ deciding \in FinalCommands \cup {NoCommand}
    /\ takeover \in BOOLEAN
    /\ Len(holds) <= MaxHolds
    /\ \A i \in DOMAIN holds :
         holds[i] \in [left : 0 .. HoldTicks, brake : 0 .. 100, cancelled : BOOLEAN,
                       checked : BOOLEAN]
    /\ \A i \in DOMAIN final : final[i] \in FinalCommands
    /\ changes \in 0 .. MaxModeChanges
    /\ strays \in [auto : Nat, manual : BOOLEAN]

(* _on_safe publishes after it has released the lock under which it looked *)
(* at the mode.  All the same a takeover lets at most one automatic        *)
(* command through, and none once a manual command has been published:     *)
(* cmd_vel_safe and teleop are served by the same callback group.          *)
TakeoverStep ==
    strays'.auto > strays.auto => strays'.auto = 1 /\ ~strays.manual

TakeoverIsClean == [][TakeoverStep]_arbiterVars
=============================================================================
