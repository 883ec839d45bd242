----------------------------- MODULE CourseHeading -----------------------------
(***************************************************************************)
(* The absolute heading of the rover: gps_course_heading.py with           *)
(* heading_turn_policy.py, behind gnss_selector.py and in front of         *)
(* orientation_source_selector.py.                                         *)
(*                                                                         *)
(* A heading is the course between two fixes; it is only true where the    *)
(* rover drove straight between them.  The trip is what the rover really   *)
(* does, one motion a tick; odometry, drive telemetry, fixes and the RTK   *)
(* status are samples of it that arrive late, twice, out of order or never.*)
(* A stamp is the tick a sample is of; 0 stands for None.                  *)
(***************************************************************************)
EXTENDS Integers, Sequences, FiniteSetsExt

CONSTANTS
    Trips,          \* the trips considered, sequences of motions
    MaxFixAge,      \* max_fix_age_s
    MaxMotionAge,   \* max_motion_age_s
    MaxSampleDt,    \* max_sample_dt_s
    FixHorizon,     \* the 12 s fixes are kept
    EnterDuration, ExitDuration,    \* enter_duration_s, exit_duration_s
    MaxExcursion,   \* max_window_excursion_rad
    MinDistance,    \* min_distance_m
    RtkMaxAge       \* rtk_status_max_age_s

(* What the rover does in a tick: its speed, its yaw rate and its wheels.  *)
Motions ==
    [still    |-> [speed |-> 0, rate |-> 0, steer |-> 0],
     straight |-> [speed |-> 1, rate |-> 0, steer |-> 0],
     bend     |-> [speed |-> 1, rate |-> 1, steer |-> 1],
     turn     |-> [speed |-> 1, rate |-> 2, steer |-> 1],
     slide    |-> [speed |-> 1, rate |-> 2, steer |-> 0]]

EnterRate == 2
ExitRate == 0

VARIABLES
    trip, now,
    drive,      \* drive_stamp_s, steer_valid, steer
    speed,      \* the speed of the last odometry message
    turn,       \* HeadingTurnPolicy
    fixes,      \* stamps of the fixes kept; lastFix, rejection
    lastFix, rejection,
    rtk,        \* when the status arrived and whether it was RTK_FIXED
    listening,  \* somebody subscribes to the heading
    pending,    \* _pending_output
    heading,    \* the last heading published: its fixes and the time
    selected    \* the stamp the orientation selector accepted last

headingVars == <<trip, now, drive, speed, turn, fixes, lastFix, rejection, rtk,
                 listening, pending, heading, selected>>

Truth(s) == Motions[trip[s]]

Travelled(s, e) == MapThenSumSet(LAMBDA i : Truth(i).speed, s + 1 .. e)

NoHeading == [from |-> 0, to |-> 0, at |-> 0]

HeadingTypeOK ==
    /\ trip \in Trips /\ now \in 1..Len(trip)
    /\ turn.state \in {"NORMAL", "STRONG_TURN", "REACQUIRE"}
    /\ turn.reason \in {"no_motion", "invalid", "contradictory", "state"}
    /\ fixes \subseteq 1..now /\ lastFix \in 0..now /\ selected \in 0..now
    /\ \A w \in {pending, heading} : w.from \in 0..now /\ w.to \in 0..now

-----------------------------------------------------------------------------
HeadingInit ==
    /\ trip \in Trips /\ now = 1
    /\ drive = [at |-> 0, valid |-> FALSE, steer |-> 0] /\ speed = 0
    /\ turn = [state |-> "NORMAL", reason |-> "no_motion", last |-> 0, since |-> 0,
               angle |-> 0, history |-> <<>>]
    /\ fixes = {} /\ lastFix = 0 /\ rejection = FALSE
    /\ rtk = [at |-> 0, fixed |-> FALSE] /\ listening = FALSE
    /\ pending = NoHeading /\ heading = NoHeading /\ selected = 0

Recent(stamp, age) == stamp > 0 /\ now - stamp \in 0..age

(* A sample of the trip that can reach the node now: late or repeated.     *)
Arriving == {s \in 1..now : now - s <= MaxFixAge + 1}

-----------------------------------------------------------------------------
(* HeadingTurnPolicy                                                       *)

MotionInvalid == [turn EXCEPT !.history = <<>>, !.reason = "invalid", !.since = 0]

(* update, for a valid sample m of stamp s: the angle is integrated unless *)
(* samples are missing; a turn is entered and left after it has lasted.    *)
MotionAccepted(s, m) ==
    LET gap == turn.last > 0 /\ s - turn.last > MaxMotionAge
        angle == IF turn.last = 0 \/ gap THEN turn.angle
                 ELSE turn.angle + m.rate * (s - turn.last)
        kept == IF gap THEN {} ELSE {i \in DOMAIN turn.history : i >= s - FixHorizon - 1}
        turning == turn.state = "STRONG_TURN"
        strong == m.speed > 0 /\ m.rate >= EnterRate /\ drive.steer > 0
        confirms == IF turning THEN m.rate <= ExitRate ELSE strong
        since == IF gap \/ turn.since = 0 THEN s ELSE turn.since
        switches == confirms /\ s - since >= (IF turning THEN ExitDuration ELSE EnterDuration)
    IN [state |-> IF ~switches THEN turn.state ELSE IF turning THEN "REACQUIRE" ELSE "STRONG_TURN",
        reason |-> IF m.speed > 0 /\ m.rate >= EnterRate /\ drive.steer = 0
                   THEN "contradictory" ELSE "state",
        last |-> s,
        since |-> IF confirms /\ ~switches THEN since ELSE 0,
        angle |-> angle,
        history |-> [i \in (IF switches THEN {} ELSE kept) \union {s} |->
                        IF i = s THEN angle ELSE turn.history[i]]]

(* The generation of the motion window changes with every discontinuity.   *)
NewGeneration(s, accepted) ==
    IF accepted THEN \/ turn.last > 0 /\ s - turn.last > MaxMotionAge
                     \/ turn'.state # turn.state
    ELSE DOMAIN turn.history # {}

(* Broken variant: any window is good enough.                              *)
AnyWindow(start, end) == TRUE

(* window_valid: motion is known from the first fix to the last one and    *)
(* the rover kept its direction.                                           *)
WindowValid(start, end) ==
    LET before == {i \in DOMAIN turn.history : i <= start}
        inside == {i \in DOMAIN turn.history : start < i /\ i <= end}
        angles == {turn.history[i] : i \in inside \union {Max(before)}}
    IN /\ before # {} /\ inside # {}
       /\ end - Max(inside) <= MaxMotionAge
       /\ Max(angles) - Min(angles) <= MaxExcursion

-----------------------------------------------------------------------------
(* on_drive.                                                               *)
OnDrive(s, valid) ==
    /\ drive' = [at |-> s, valid |-> valid, steer |-> Truth(s).steer]
    /\ UNCHANGED <<trip, now, speed, turn, fixes, lastFix, rejection, rtk, listening,
                   pending, heading, selected>>

(* on_odom with update_motion: a discontinuity drops the fixes, a strong   *)
(* turn the heading that waits for a subscriber.                           *)
OnOdom(s) ==
    LET m == Truth(s)
        accepted == /\ drive.valid /\ Recent(drive.at, MaxMotionAge)
                    /\ Recent(s, MaxMotionAge) /\ s > turn.last
    IN /\ speed' = m.speed
       /\ turn' = IF accepted THEN MotionAccepted(s, m) ELSE MotionInvalid
       /\ fixes' = IF NewGeneration(s, accepted) THEN {} ELSE fixes
       /\ pending' = IF turn'.state = "STRONG_TURN" THEN NoHeading ELSE pending
       /\ UNCHANGED <<trip, now, drive, lastFix, rejection, rtk, listening, heading, selected>>

(* on_rtk and on_gnss_rtk_status.                                          *)
OnRtk(fixed) ==
    /\ rtk' = [at |-> now, fixed |-> fixed]
    /\ UNCHANGED <<trip, now, drive, speed, turn, fixes, lastFix, rejection, listening,
                   pending, heading, selected>>

RtkAllowsHeading == Recent(rtk.at, RtkMaxAge) /\ rtk.fixed

(* estimate: the earlier fixes that give a heading with the latest one.    *)
Candidates(kept) ==
    IF kept = {} THEN {}
    ELSE LET latest == Max(kept)
         IN {s \in kept \ {latest} :
                /\ latest - s <= MaxSampleDt
                /\ Travelled(s, latest) >= MinDistance
                /\ WindowValid(s, latest)}

Estimates(kept, rejected) ==
    /\ ~rejected /\ RtkAllowsHeading
    /\ turn.state # "STRONG_TURN" /\ turn.reason # "invalid"
    /\ Recent(turn.last, MaxMotionAge)
    /\ kept # {} /\ now - Max(kept) <= MaxFixAge
    /\ speed > 0 /\ drive.valid
    /\ Candidates(kept) # {}

(* OrientationSelectionPolicy: only newer orientations pass.               *)
Selects(stamp) == selected' = IF stamp > selected THEN stamp ELSE selected

(* add_fix and publish, for a fix the GNSS selector lets through.          *)
OnFix(s) ==
    LET rejected == ~Recent(s, MaxFixAge) \/ s <= lastFix
        added == IF rejected \/ turn.state = "STRONG_TURN" THEN fixes ELSE fixes \union {s}
        kept == {i \in added : i >= s - FixHorizon}
        window == [from |-> Max(Candidates(kept)), to |-> Max(kept), at |-> now]
    IN /\ rejection' = rejected
       /\ lastFix' = IF rejected THEN lastFix ELSE s
       /\ fixes' = kept
       /\ IF Estimates(kept, rejected)
          THEN /\ turn' = [turn EXCEPT !.state = "NORMAL"]
               /\ IF listening
                  THEN /\ heading' = window /\ pending' = NoHeading
                       /\ Selects(s)
                  ELSE pending' = window /\ UNCHANGED <<heading, selected>>
          ELSE pending' = NoHeading /\ UNCHANGED <<turn, heading, selected>>
       /\ UNCHANGED <<trip, now, drive, speed, rtk, listening>>

(* _flush_pending_output.                                                  *)
Flushes ==
    LET moved == \/ turn.state = "STRONG_TURN" \/ turn.reason = "invalid"
                 \/ ~Recent(turn.last, MaxMotionAge)
        delivers == ~moved /\ listening /\ now - pending.to <= MaxFixAge
    IN /\ pending # NoHeading /\ (moved \/ listening)
       /\ IF delivers THEN heading' = [pending EXCEPT !.at = now] /\ Selects(pending.to)
          ELSE UNCHANGED <<heading, selected>>
       /\ pending' = NoHeading
       /\ UNCHANGED <<trip, now, drive, speed, turn, fixes, lastFix, rejection, rtk, listening>>

(* The EKF subscribes or goes away.                                        *)
Subscribes ==
    /\ listening' = ~listening
    /\ UNCHANGED <<trip, now, drive, speed, turn, fixes, lastFix, rejection, rtk, pending,
                   heading, selected>>

HeadingTick ==
    /\ now < Len(trip) /\ now' = now + 1
    /\ UNCHANGED <<trip, drive, speed, turn, fixes, lastFix, rejection, rtk, listening,
                   pending, heading, selected>>

HeadingNext ==
    \/ \E s \in Arriving : \/ \E v \in BOOLEAN : OnDrive(s, v)
                            \/ OnOdom(s) \/ OnFix(s)
    \/ \E f \in BOOLEAN : OnRtk(f)
    \/ Flushes \/ Subscribes \/ HeadingTick

HeadingSpec == HeadingInit /\ [][HeadingNext]_headingVars

-----------------------------------------------------------------------------
(* A heading that is published is the course of a straight run: between    *)
(* its two fixes the rover kept its direction, save for the last tick that *)
(* no odometry covers yet, and it is not older than a fix may be.          *)
HeadingIsOfAStraightRun ==
    LET turned(s, e) == MapThenSumSet(LAMBDA i : Truth(i).rate, s + 1 .. e)
    IN heading # NoHeading =>
          /\ turned(heading.from, heading.to - MaxMotionAge) <= MaxExcursion
          /\ heading.at - heading.to <= MaxFixAge

(* The filter never sees a heading older than the one before it.           *)
HeadingStep == heading' # heading => heading'.to > heading.to
HeadingsMoveForward == [][HeadingStep]_headingVars
=============================================================================
