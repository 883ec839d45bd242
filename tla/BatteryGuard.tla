---------------------------- MODULE BatteryGuard ----------------------------
(***************************************************************************)
(* The battery guard of salus_controller: samples from the BMS node        *)
(* (battery_source "external") or from the drive transport, here the       *)
(* simulated battery (SimGazeboBackend); the voltage estimator with its    *)
(* latch (battery_estimator.py); and the guard message of _telemetry_tick. *)
(*                                                                         *)
(* Voltages are the bands the thresholds tell apart; times are ages in     *)
(* ticks.  The telemetry timer runs at least once per tick.                *)
(***************************************************************************)
EXTENDS Integers

CONSTANTS
    BatterySources,     \* battery_source
    StaleTimeout,       \* battery_telemetry_stale_timeout_s
    LowPersist,         \* battery_return_home_persist_s
    ClearPersist        \* battery_guard_clear_persist_s

ASSUME BatteryAssumption ==
    /\ BatterySources \subseteq {"external", "transport"}
    /\ StaleTimeout \in Nat \ {0} /\ LowPersist \in Nat \ {0} /\ ClearPersist \in Nat \ {0}

(* At most battery_return_home_voltage, at least battery_guard_clear_voltage, *)
(* or between them.                                                        *)
Bands == {"low", "between", "high"}

OldAge == LowPersist + ClearPersist + StaleTimeout + 1

VARIABLES
    source,     \* battery_source
    sample,     \* _external_battery, or the simulated battery
    estimator,  \* _last_sample_time_s, _low_elapsed_s, _clear_elapsed_s, the latch
    guardMsg,   \* the last BatteryMissionGuard
    ticked,     \* has the telemetry timer run in this tick?
    evidence    \* history: the band of the trusted samples since the last gap, the
                \* age of the last one before them, and of the last of them

batteryVars == <<source, sample, estimator, guardMsg, ticked, evidence>>

NoBattery == [known |-> FALSE, band |-> "high", suspect |-> FALSE, age |-> 0,
              ready |-> FALSE, fresh |-> FALSE]

Charged == [known |-> TRUE, band |-> "high", suspect |-> FALSE, age |-> 0,
            ready |-> TRUE, fresh |-> TRUE]

Unbroken == -1      \* no sample to measure from

NoEvidence == [band |-> "between", since |-> 0, last |-> Unbroken]

BatteryInit ==
    /\ source \in BatterySources
    /\ sample = IF source = "external" THEN NoBattery ELSE Charged
    /\ estimator = [last |-> Unbroken, low |-> 0, clear |-> 0, latched |-> FALSE]
    /\ guardMsg = [state |-> "none", fresh |-> FALSE, recommend |-> FALSE]
    /\ ticked = FALSE
    /\ evidence = NoEvidence

BreakContinuity(e) == [e EXCEPT !.last = Unbroken, !.low = 0, !.clear = 0]

LinkFresh(s) == s.age <= StaleTimeout

(* Broken variant: a gap before a sample does not break continuity.        *)
OnExternalBatteryAcrossGaps(band, suspect, usable, age) ==
    /\ source = "external"
    /\ age \in 0 .. StaleTimeout
    /\ sample.known => age < sample.age
    /\ LET gap == sample.known /\ ~LinkFresh(sample)
       IN  /\ estimator' = IF ~usable THEN BreakContinuity(estimator) ELSE estimator
           /\ evidence' = IF gap \/ ~usable THEN NoEvidence ELSE evidence
    /\ sample' = IF usable
                 THEN [known |-> TRUE, band |-> band, suspect |-> suspect, age |-> age,
                       ready |-> TRUE, fresh |-> TRUE]
                 ELSE NoBattery
    /\ UNCHANGED <<source, guardMsg, ticked>>

(* _on_external_battery: messages without a usable age, and messages no    *)
(* newer than the sample at hand, are dropped; a useless one (absent, no   *)
(* voltage, no SOC) also drops that sample.                                *)
OnExternalBattery(band, suspect, usable, age) ==
    /\ source = "external"
    /\ age \in 0 .. StaleTimeout
    /\ sample.known => age < sample.age
    /\ LET gap == sample.known /\ ~LinkFresh(sample)
       IN  /\ estimator' = IF gap \/ ~usable THEN BreakContinuity(estimator) ELSE estimator
           /\ evidence' = IF gap \/ ~usable THEN NoEvidence ELSE evidence
    /\ sample' = IF usable
                 THEN [known |-> TRUE, band |-> band, suspect |-> suspect, age |-> age,
                       ready |-> TRUE, fresh |-> TRUE]
                 ELSE NoBattery
    /\ UNCHANGED <<source, guardMsg, ticked>>

(* set_sim_battery_preset and set_sim_battery_state.                       *)
SetSimBattery(band, suspect, ready, fresh) ==
    /\ source = "transport"
    /\ sample' = [known |-> TRUE, band |-> band, suspect |-> suspect, age |-> 0,
                  ready |-> ready, fresh |-> fresh]
    /\ UNCHANGED <<source, estimator, guardMsg, ticked, evidence>>

-----------------------------------------------------------------------------
(* BatteryEstimator.update with a valid sample.                            *)
Update(e, s) ==
    LET dt == IF e.last = Unbroken \/ e.last < s.age THEN 0 ELSE e.last - s.age
        low == IF s.band = "low" THEN e.low + dt ELSE 0
        clear == IF s.band = "high" THEN e.clear + dt ELSE 0
    IN  IF ~e.latched
        THEN [last |-> s.age, low |-> IF low < LowPersist THEN low ELSE LowPersist,
              clear |-> 0, latched |-> low >= LowPersist]
        ELSE IF clear >= ClearPersist
        THEN [last |-> s.age, low |-> 0, clear |-> 0, latched |-> FALSE]
        ELSE [last |-> s.age, low |-> e.low, clear |-> clear, latched |-> TRUE]

(* Broken variant: a suspect sample counts.                                *)
TrustedWhenFresh(s) == source # "external" \/ LinkFresh(s)

Trusted(s) == source # "external" \/ (LinkFresh(s) /\ ~s.suspect)

Estimated(e, s) ==
    IF ~s.known THEN IF source = "external" THEN BreakContinuity(e) ELSE e
    ELSE IF Trusted(s) THEN Update(e, s) ELSE BreakContinuity(e)

(* battery_state_label, above the bands that only inform the operator.     *)
StateLabel(s, latched) ==
    IF ~s.known \/ ~s.ready THEN "UNAVAILABLE"
    ELSE IF ~s.fresh \/ ~LinkFresh(s) THEN "STALE"
    ELSE IF s.suspect THEN "SUSPECT"
    ELSE IF latched THEN "LOW_ENERGY_GO_HOME"
    ELSE "OK"

(* What a sample vouches for, told apart from the estimator's clocks: its  *)
(* band may hold since the sample before it.                               *)
Vouched(s) ==
    IF ~s.known \/ s.suspect \/ ~LinkFresh(s) THEN NoEvidence
    ELSE [band |-> s.band, last |-> s.age,
          since |-> IF evidence.last = Unbroken THEN s.age
                    ELSE IF evidence.band = s.band THEN evidence.since ELSE evidence.last]

TelemetryTick ==
    /\ estimator' = Estimated(estimator, sample)
    /\ guardMsg' = [state |-> StateLabel(sample, estimator'.latched),
                    fresh |-> sample.known /\ sample.fresh /\ LinkFresh(sample),
                    recommend |-> estimator'.latched]
    /\ ticked' = TRUE
    /\ evidence' = Vouched(sample)
    /\ UNCHANGED <<source, sample>>

Aged(n) == IF n < OldAge THEN n + 1 ELSE n

(* A fresh simulated sample is always from now.                            *)
ElapseBattery ==
    /\ ticked
    /\ ticked' = FALSE
    /\ sample' = [sample EXCEPT !.age = IF ~sample.known \/ (source = "transport" /\ sample.fresh)
                                        THEN 0 ELSE Aged(@)]
    /\ estimator' = [estimator EXCEPT !.last = IF @ = Unbroken THEN @ ELSE Aged(@)]
    /\ evidence' = IF evidence.last = Unbroken THEN evidence
                   ELSE [evidence EXCEPT !.since = Aged(@), !.last = Aged(@)]
    /\ UNCHANGED <<source, guardMsg>>

BatteryNext ==
    \/ \E band \in Bands, suspect, usable \in BOOLEAN, age \in 0 .. StaleTimeout :
         OnExternalBattery(band, suspect, usable, age)
    \/ \E band \in Bands, suspect, ready, fresh \in BOOLEAN :
         SetSimBattery(band, suspect, ready, fresh)
    \/ TelemetryTick
    \/ ElapseBattery

BatterySpec == BatteryInit /\ [][BatteryNext]_batteryVars

-----------------------------------------------------------------------------
BatteryTypeOK ==
    /\ source \in BatterySources
    /\ sample \in [known : BOOLEAN, band : Bands, suspect : BOOLEAN, age : 0 .. OldAge,
                   ready : BOOLEAN, fresh : BOOLEAN]
    /\ estimator \in [last : Unbroken .. OldAge, low : 0 .. LowPersist,
                      clear : 0 .. ClearPersist, latched : BOOLEAN]
    /\ guardMsg \in [state : {"none", "UNAVAILABLE", "STALE", "SUSPECT",
                              "LOW_ENERGY_GO_HOME", "OK"},
                     fresh : BOOLEAN, recommend : BOOLEAN]
    /\ ticked \in BOOLEAN
    /\ evidence \in [band : Bands, since : 0 .. OldAge, last : Unbroken .. OldAge]

(* The latch of the BMS guard is earned: it is set only after              *)
(* battery_return_home_persist_s, and cleared only after                   *)
(* battery_guard_clear_persist_s, in which every trusted sample said so,   *)
(* counted from the last one that did not, and no sample was missing       *)
(* longer than the stale timeout.  Silence, a suspect sample, a useless    *)
(* message and delayed or reordered messages neither set it nor clear it,  *)
(* however they fall between the telemetry ticks.                          *)
LatchStep ==
    source = "external" =>
        /\ ~estimator.latched /\ estimator'.latched
             => evidence'.band = "low" /\ evidence'.since >= LowPersist
        /\ estimator.latched /\ ~estimator'.latched
             => evidence'.band = "high" /\ evidence'.since >= ClearPersist

LatchIsEarned == [][LatchStep]_batteryVars
=============================================================================
