---------------------------- MODULE MapMeasurement ----------------------------
(***************************************************************************)
(* The absolute position given to the map filter:                          *)
(* map_gps_absolute_measurement.py with gnss_antenna_compensation.py.      *)
(*                                                                         *)
(* A fix is a position of the antenna; to be one of the rover it is turned *)
(* by the heading the rover had at the stamp of the fix, which is only     *)
(* known once the map odometry has passed that stamp.  Fixes wait in a     *)
(* queue; samples come late or not at all, the clock may start again.      *)
(***************************************************************************)
EXTENDS Integers, Sequences, FiniteSetsExt

CONSTANTS
    FixAge, OdomAge,    \* max_fix_age_s, max_odom_age_s
    HeadingGap,         \* max_heading_gap_s
    HistoryAge,         \* history_s of MapHeadingHistory
    QueueLength,        \* maxlen of the queue of fixes
    MaxNow,             \* bound: the last tick of the clock
    MaxClockResets      \* bound: restarts of the clock

VARIABLES
    clock,
    waiting,        \* pending: stamps of the fixes that wait
    samples,        \* stamps of the map headings kept
    since,          \* absolute_heading_since; 0 until there is one
    newestFix,      \* last_fix_stamp
    mounted,        \* the transform of the antenna can be looked up
    placed,         \* the last position published: its stamp and its headings
    clockResets

mapVars == <<clock, waiting, samples, since, newestFix, mounted, placed, clockResets>>

NoPosition == [stamp |-> 0, before |-> 0, after |-> 0, at |-> 0]

MapTypeOK ==
    /\ clock \in 1..MaxNow /\ Len(waiting) <= QueueLength
    /\ samples \subseteq 1..MaxNow /\ since \in 0..MaxNow /\ newestFix \in 0..MaxNow
    /\ mounted \in BOOLEAN /\ clockResets \in 0..MaxClockResets

-----------------------------------------------------------------------------
MapInit ==
    /\ clock = 1 /\ waiting = <<>> /\ samples = {} /\ since = 0 /\ newestFix = 0
    /\ mounted = FALSE /\ placed = NoPosition /\ clockResets = 0

IsFresh(stamp, age) == clock - stamp \in 0..age

(* MapHeadingHistory.at: the samples around a stamp, or none.              *)
Around(stamp, kept) ==
    IF stamp \in kept THEN {<<stamp, stamp>>}
    ELSE LET earlier == {i \in kept : i < stamp}
             later == {i \in kept : i > stamp}
         IN IF earlier = {} \/ later = {} \/ Min(later) - Max(earlier) > HeadingGap THEN {}
            ELSE {<<Max(earlier), Min(later)>>}

(* What flush does with the first fix that waits: "drop", "wait" or        *)
(* "publish".                                                              *)
Fate(stamp, kept, start) ==
    IF ~IsFresh(stamp, FixAge) THEN "drop"
    ELSE IF start = 0 \/ stamp < start THEN "drop"
    ELSE IF kept = {} \/ ~IsFresh(Max(kept), OdomAge) THEN "wait"
    ELSE IF Around(stamp, kept) = {} THEN IF Max(kept) < stamp THEN "wait" ELSE "drop"
    ELSE IF ~mounted THEN "wait" ELSE "publish"

(* Broken variant: a fix is turned by the latest heading known.            *)
TurnedByTheLatest(stamp, kept) ==
    [stamp |-> stamp, before |-> Max(kept), after |-> Max(kept), at |-> clock]

(* compensate_antenna with the interpolated heading.                       *)
Turned(stamp, kept) ==
    LET ends == CHOOSE e \in Around(stamp, kept) : TRUE
    IN [stamp |-> stamp, before |-> ends[1], after |-> ends[2], at |-> clock]

(* flush, on a queue: fixes are settled in order up to one that has to     *)
(* wait.                                                                   *)
Flush(queue, kept, start) ==
    LET fates == [i \in 1..Len(queue) |-> Fate(queue[i], kept, start)]
        blocked == {i \in 1..Len(queue) : fates[i] = "wait"}
        settled == IF blocked = {} THEN Len(queue) ELSE Min(blocked) - 1
        sent == {i \in 1..settled : fates[i] = "publish"}
    IN /\ waiting' = SubSeq(queue, settled + 1, Len(queue))
       /\ placed' = IF sent = {} THEN placed ELSE Turned(queue[Max(sent)], kept)

(* on_absolute_heading: the first one of a run starts it.                  *)
OnAbsoluteHeading(stamp) ==
    LET start == IF since = 0 THEN stamp ELSE since
    IN /\ IsFresh(stamp, OdomAge)
       /\ since' = start /\ Flush(waiting, samples, start)
       /\ UNCHANGED <<clock, samples, newestFix, mounted, clockResets>>

(* on_map_odom with MapHeadingHistory.add.                                 *)
OnMapOdom(stamp) ==
    LET kept == IF samples # {} /\ stamp <= Max(samples) THEN samples
                ELSE {i \in samples \union {stamp} : i >= stamp - HistoryAge}
    IN /\ IsFresh(stamp, OdomAge)
       /\ samples' = kept /\ Flush(waiting, kept, since)
       /\ UNCHANGED <<clock, since, newestFix, mounted, clockResets>>

(* on_fix: the oldest fix of a full queue makes room.                      *)
OnMapFix(stamp) ==
    /\ IsFresh(stamp, FixAge) /\ stamp > newestFix /\ newestFix' = stamp
    /\ Flush(IF Len(waiting) = QueueLength THEN Append(Tail(waiting), stamp)
             ELSE Append(waiting, stamp), samples, since)
    /\ UNCHANGED <<clock, samples, since, mounted, clockResets>>

(* The transform listener hears of the antenna.                            *)
AntennaKnown ==
    /\ ~mounted /\ mounted' = TRUE
    /\ UNCHANGED <<clock, waiting, samples, since, newestFix, placed, clockResets>>

(* The clock advances and the 50 ms timer flushes.                         *)
MapTick ==
    /\ clock < MaxNow /\ clock' = clock + 1
    /\ UNCHANGED <<waiting, samples, since, newestFix, mounted, placed, clockResets>>

FlushTimer ==
    /\ Flush(waiting, samples, since)
    /\ UNCHANGED <<clock, samples, since, newestFix, mounted, clockResets>>

(* now_s: the first callback after the clock went back forgets everything. *)
ClockRestarts ==
    /\ clockResets < MaxClockResets /\ clockResets' = clockResets + 1
    /\ clock > 1 /\ clock' = 1
    /\ waiting' = <<>> /\ samples' = {} /\ since' = 0 /\ newestFix' = 0
    /\ UNCHANGED <<mounted, placed>>

MapNext ==
    \/ \E s \in 1..clock : OnAbsoluteHeading(s) \/ OnMapOdom(s) \/ OnMapFix(s)
    \/ AntennaKnown \/ FlushTimer \/ MapTick \/ ClockRestarts

MapSpec == MapInit /\ [][MapNext]_mapVars

-----------------------------------------------------------------------------
(* A position is turned by the heading the rover had when the fix was      *)
(* taken: the headings used enclose its stamp closely, and the position is *)
(* published while the fix is fresh.                                       *)
PositionUsesItsOwnHeading ==
    placed # NoPosition =>
        /\ placed.before <= placed.stamp /\ placed.stamp <= placed.after
        /\ placed.after - placed.before <= HeadingGap
        /\ placed.at - placed.stamp <= FixAge

(* The filter gets the positions in the order of their fixes, and none     *)
(* from before the clock restarted.                                        *)
PositionStep == placed' # placed => placed'.stamp > placed.stamp \/ clockResets > 0
PositionsMoveForward == [][PositionStep]_mapVars
=============================================================================
