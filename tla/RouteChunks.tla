---------------------------- MODULE RouteChunks -----------------------------
(***************************************************************************)
(* Routes in finite windows: route_preparation.py, route_chunker.py and    *)
(* the part of route_executor_node.py that walks a route, open or looped,  *)
(* window after window, crediting checkpoints by lap and input index.      *)
(*                                                                         *)
(* A route is its original checkpoints with the lengths of the legs        *)
(* between them.  Where the robot is decides which synthetic points are    *)
(* pruned before a dispatch, how much of a window is inside the horizon,   *)
(* and where a loop is entered; that is left open.  RouteExecutor has the  *)
(* goals, the recovery policy and the waypoint actions of the same node.   *)
(***************************************************************************)
EXTENDS Integers, FiniteSets, Sequences, FiniteSetsExt, SequencesExt

CONSTANTS
    Routes,             \* requests: [loop, legs, soft], see RoutesAreValid
    Modes,              \* route_execution_mode
    Spacing,            \* leg_spacing_m
    DenseLeg, DenseHorizon,     \* adaptive_dense_leg_max_m, adaptive_dense_horizon_m
    PrunesClosure,      \* scenario: may the pruned points reach back to the first one?
    MaxChunks, MaxRetries       \* bounds: windows completed, retries of them

RoutesAreValid ==
    /\ \A r \in Routes :        \* one leg to each checkpoint's successor, if it has one
          /\ r.loop \in BOOLEAN /\ r.soft \in Seq(BOOLEAN) /\ r.legs \in Seq(Nat \ {0})
          /\ Len(r.soft) >= 2
          /\ Len(r.legs) = IF r.loop THEN Len(r.soft) ELSE Len(r.soft) - 1
    /\ Modes \subseteq {"single_checkpoint", "legacy_pair", "adaptive_dense"}
    /\ Spacing \in Nat /\ DenseLeg \in Nat \ {0} /\ DenseHorizon \in Nat \ {0}
    /\ PrunesClosure \in BOOLEAN /\ MaxChunks \in Nat /\ MaxRetries \in Nat

VARIABLES
    route,      \* prepared: loop and waypoints
    walkMode,   \* _route_execution_mode
    mission,    \* target_index, loop_iteration, phase, reached occurrences
    window,     \* _chunk: its points are offsets from .. n - 1 of start; the tracker
    walk        \* history: checkpoints visited, the last of them, windows and retries

chunkVars == <<route, walkMode, mission, window, walk>>

NoWindow == [start |-> 0, from |-> 0, n |-> 0, lap |-> 0, numbered |-> FALSE, acks |-> {}]

-----------------------------------------------------------------------------
(* route_preparation.py                                                    *)

(* The synthetic points of a leg: none within half a spacing of its end.   *)
SegmentSamples(leg) ==
    IF Spacing = 0 THEN 0
    ELSE Cardinality({s \in 1 .. leg \div Spacing : 2 * (leg - s * Spacing) >= Spacing})

(* expand: each checkpoint with the synthetic points of its leg.           *)
Leg(r, i) ==
    LET leg == IF i <= Len(r.legs) THEN r.legs[i] ELSE 0
        n == SegmentSamples(leg)
        Point(k) == [key |-> k = 0, input |-> i - 1, soft |-> k = 0 /\ r.soft[i],
                     length |-> IF k < n THEN Spacing ELSE leg - n * Spacing]
    IN  [k \in 1 .. n + 1 |-> Point(k - 1)]

Prepare(r) ==
    [loop |-> r.loop, points |-> FlattenSeq([i \in 1 .. Len(r.soft) |-> Leg(r, i)])]

ChunksInit ==
    /\ RoutesAreValid
    /\ \E r \in Routes : route = Prepare(r)
    /\ walkMode \in Modes
    /\ mission = [phase |-> "IDLE", target |-> 0, iteration |-> 0, occurred |-> {}, reached |-> 0]
    /\ window = NoWindow
    /\ walk = [visits |-> 0, last |-> -1, chunks |-> 0, retries |-> 0]

Total == Len(route.points)
Ahead(i, k) == IF route.loop THEN (i + k) % Total ELSE i + k
PointAt(i) == route.points[i + 1]           \* the code counts from zero
KeyAt(i) == PointAt(i).key

-----------------------------------------------------------------------------
(* route_chunker.py                                                        *)

(* Broken variant: a checkpoint within the tolerance is pruned as well.    *)
DispatchStartsPruningKeys(target) ==
    {Ahead(target, k) : k \in {n \in 0 .. Total - 1 : target + n < Total}}

(* resolve_dispatch_start: the starts it may choose, by pruning synthetic  *)
(* points only.                                                            *)
DispatchStarts(target) ==
    {Ahead(target, k) : k \in
        {n \in 0 .. Total - 1 :
            /\ ~route.loop \/ ~PrunesClosure => target + n < Total
            /\ \A j \in 0 .. n - 1 : ~KeyAt(Ahead(target, j))}}

(* _legacy_pair_eligible is soft.  The points of a window are the first n  *)
(* such that the loop that builds it stops after n.                        *)
KeysIn(start, n) == {k \in 0 .. n - 1 : KeyAt(Ahead(start, k))}
Room(start) == IF route.loop THEN Total ELSE Total - start
Ends(start, n) == n = Room(start)

Distance(start, a, b) ==
    MapThenSumSet(LAMBDA k : PointAt(Ahead(start, k)).length, a .. b - 1)

NextKeys(start, k) ==
    {j \in k + 1 .. Room(start) - 1 : KeyAt(Ahead(start, j))}

StopsSingle(start, n) ==
    \/ KeyAt(Ahead(start, n - 1))
    \/ Ends(start, n)
    \/ route.loop /\ n >= Total - 1

StopsPair(start, n) ==
    \/ /\ KeyAt(Ahead(start, n - 1))
       /\ n > 1 \/ ~PointAt(start).soft
    \/ Ends(start, n)

(* A key extends the window beyond two only while both legs are dense and  *)
(* the next one ends within the horizon; a hard one never does.            *)
StopsDense(start, n) ==
    LET last == n - 1
        keys == KeysIn(start, n)
        next == NextKeys(start, last)
    IN  \/ /\ last \in keys
           /\ \/ Cardinality(keys) = 1 /\ ~PointAt(start).soft
              \/ Cardinality(keys) > 1 /\ ~PointAt(Ahead(start, last)).soft
              \/ next = {}
              \/ /\ Cardinality(keys) > 1
                 /\ LET previous == Max(keys \ {last}) IN
                       \/ Distance(start, previous, last) > DenseLeg
                       \/ Distance(start, last, Min(next)) > DenseLeg
                       \/ Distance(start, 0, Min(next)) > DenseHorizon
        \/ Ends(start, n)
        \/ route.loop /\ n = Total - 1

Stops(start, n) ==
    CASE walkMode = "single_checkpoint" -> StopsSingle(start, n)
      [] walkMode = "legacy_pair" -> StopsPair(start, n)
      [] OTHER -> StopsDense(start, n)

(* build_chunk: trimmed to its last checkpoint.  Only the two later modes  *)
(* number each checkpoint with its own lap.                                *)
BuildChunk(start, lap) ==
    LET n == Min({k \in 1 .. Room(start) : Stops(start, k)})
        keys == KeysIn(start, n)
    IN  [start |-> start, from |-> 0, n |-> IF keys = {} THEN 0 ELSE Max(keys) + 1,
         lap |-> lap, numbered |-> walkMode # "single_checkpoint", acks |-> {}]

(* checkpoint_occurrences: the lap of the checkpoint at offset k.  A window *)
(* that crosses the closure numbers what is beyond it as the next lap.     *)
LapAt(w, k) ==
    IF w.numbered /\ route.loop /\ w.start + k >= Total
    THEN w.lap + 1 ELSE w.lap

Occurrence(w, k) == <<LapAt(w, k), PointAt(Ahead(w.start, k)).input>>
Keys(w) == {k \in w.from .. w.n - 1 : KeyAt(Ahead(w.start, k))}
Terminal(w) == w.n - 1
SoftKeys(w) == Keys(w) \ {Terminal(w)}
NextStart(w) == Ahead(w.start, w.n)

-----------------------------------------------------------------------------
(* route_executor_node.py                                                  *)

(* limit_chunk_to_horizon leaves a prefix, or nothing and the route pauses. *)
(* An open route is complete when no point is left.                        *)
Dispatch(m) ==
    \/ /\ m.target = Total
       /\ mission' = [m EXCEPT !.phase = "COMPLETED"]
       /\ window' = NoWindow
    \/ /\ m.target < Total
       /\ \E start \in DispatchStarts(m.target) :
             LET built == BuildChunk(start, m.iteration) IN
             \E n \in 0 .. built.n :
                /\ mission' = [m EXCEPT !.target = start,
                                       !.phase = IF n = 0 THEN "PAUSED" ELSE @]
                /\ window' = [built EXCEPT !.n = n]

(* select_anchor for a loop: the end of the forward segment that no other  *)
(* forward one beats in distance or heading without being beaten in the    *)
(* other.  An error of 2 stands for 90 degrees or more.                    *)
Candidate == [segment : 0 .. Total - 1, distance : 0 .. 1, error : 0 .. 2]
Nearby ==           \* at most two segments are near
    {{}} \union {s \in {{c, d} : c \in Candidate, d \in Candidate} :
                    \A c, d \in s : c.segment = d.segment => c = d}
Beats(c, d) == c # d /\ c.distance <= d.distance /\ c.error <= d.error
                     /\ (c.distance < d.distance \/ c.error < d.error)
Best(candidates) ==
    LET forward == {c \in candidates : c.error < 2}
    IN  {c \in forward : \A d \in forward : ~Beats(d, c)}

(* _activate_prepared: a loop is dropped unless one segment is the best,   *)
(* seen from a fresh pose; an open route begins at any point the robot is  *)
(* near, or at its first.                                                  *)
Activate ==
    /\ mission.phase = "IDLE"
    /\ IF route.loop
       THEN \E candidates \in Nearby, fresh \in BOOLEAN :
               IF fresh /\ Cardinality(Best(candidates)) = 1
               THEN \E best \in Best(candidates) :
                       Dispatch([mission EXCEPT !.phase = "ACTIVE",
                                                !.target = Ahead(best.segment, 1)])
               ELSE /\ mission' = [mission EXCEPT !.phase = "DROPPED"]
                    /\ UNCHANGED window
       ELSE \E anchor \in 0 .. Total - 1 :
               Dispatch([mission EXCEPT !.phase = "ACTIVE", !.target = anchor])
    /\ UNCHANGED <<route, walkMode, walk>>

(* _record_checkpoint_reached: an occurrence counts once.                  *)
Record(m, occurrence) ==
    IF occurrence \in m.occurred THEN m
    ELSE [m EXCEPT !.occurred = @ \union {occurrence}, !.reached = @ + 1]

Visit(k) == [walk EXCEPT !.visits = @ + 1, !.last = PointAt(Ahead(window.start, k)).input]

(* IntermediateCheckpointTracker.observe: the pending soft checkpoints are *)
(* acknowledged in their order.                                            *)
ObserveSoft ==
    /\ mission.phase = "ACTIVE"
    /\ SoftKeys(window) \ window.acks # {}
    /\ LET k == Min(SoftKeys(window) \ window.acks) IN
          /\ window' = [window EXCEPT !.acks = @ \union {k}]
          /\ mission' = Record(mission, Occurrence(window, k))
          /\ walk' = Visit(k)
    /\ UNCHANGED <<route, walkMode>>

(* Broken variant: a window that ends on the last point leaves the lap to  *)
(* the window that follows.                                                *)
AdvanceSameLap(m) ==
    Dispatch([m EXCEPT !.target = NextStart(window)])

(* _advance.                                                               *)
Advance(m) ==
    LET target == NextStart(window) IN
    Dispatch([m EXCEPT !.target = target,
                       !.iteration = IF route.loop /\ target = 0 /\ window.start + window.n # 1
                                     THEN @ + 1 ELSE @])

(* _complete_current_chunk: a window that ends on a checkpoint takes its   *)
(* lap; one that the horizon ended on a synthetic point counts the closure *)
(* it has crossed.  A checkpoint that was missed pauses the route.         *)
CompleteChunk ==
    /\ mission.phase = "ACTIVE"
    /\ walk.chunks < MaxChunks
    /\ IF ~(SoftKeys(window) \subseteq window.acks)
       THEN /\ mission' = [mission EXCEPT !.phase = "PAUSED"]
            /\ UNCHANGED <<window, walk>>
       ELSE IF Terminal(window) \notin Keys(window)
       THEN LET crossed == /\ route.loop
                           /\ mission.target + (window.n - window.from - 1) >= Total
            IN  /\ Advance([mission EXCEPT !.iteration = IF crossed THEN @ + 1 ELSE @])
                /\ walk' = [walk EXCEPT !.chunks = @ + 1]
       ELSE /\ Advance([Record(mission, Occurrence(window, Terminal(window)))
                          EXCEPT !.iteration = LapAt(window, Terminal(window))])
            /\ walk' = [Visit(Terminal(window)) EXCEPT !.chunks = @ + 1]
    /\ UNCHANGED <<route, walkMode>>

(* A blocked window is sent again without the prefix up to the last of its *)
(* consecutive credited checkpoints (pending_checkpoint_suffix and         *)
(* _check_recovery_clears).  The iteration becomes that of the next        *)
(* checkpoint it has left.                                                 *)
RetrySuffix ==
    LET credited == {k \in Keys(window) :
                       \A j \in Keys(window) : j <= k => Occurrence(window, j) \in mission.occurred}
        from == IF credited = {} THEN window.from ELSE Max(credited) + 1
        left == {k \in Keys(window) : k >= from}
        named == IF left # {} THEN {Min(left)} ELSE IF Keys(window) # {} THEN {Max(Keys(window))} ELSE {}
    IN  /\ mission.phase = "ACTIVE"
        /\ walk.retries < MaxRetries
        /\ from < window.n
        /\ window' = [window EXCEPT !.from = from, !.acks = {}]
        /\ mission' = [mission EXCEPT
               !.target = Ahead(@, from - window.from),
               !.iteration = IF named = {} THEN @ ELSE LapAt(window, CHOOSE k \in named : TRUE)]
        /\ walk' = [walk EXCEPT !.retries = @ + 1]
        /\ UNCHANGED <<route, walkMode>>

ChunksNext == Activate \/ ObserveSoft \/ CompleteChunk \/ RetrySuffix

ChunksSpec == ChunksInit /\ [][ChunksNext]_chunkVars

-----------------------------------------------------------------------------
ChunksTypeOK ==
    /\ walkMode \in Modes
    /\ mission.phase \in {"IDLE", "DROPPED", "ACTIVE", "PAUSED", "COMPLETED"}
    /\ mission.target \in 0 .. Total /\ mission.iteration \in Nat
    /\ window.from <= window.n /\ window.n \in 0 .. Total
    /\ window.acks \subseteq SoftKeys(window)

(* A loop of three checkpoints, to be driven one by one.                   *)
ThreeCheckpointLoop ==
    {[loop |-> TRUE, legs |-> <<4, 2, 4>>, soft |-> <<TRUE, TRUE, TRUE>>]}

(* Every visit of a checkpoint is credited: patrols count laps and find    *)
(* their exit by the ROUTE_CHECKPOINT_REACHED events of these credits.     *)
EveryVisitCounts == mission.reached = walk.visits

(* Window after window, the checkpoints are visited in the order of the    *)
(* route, none left out and none twice, whatever is pruned, cut or sent    *)
(* again.                                                                  *)
VisitStep ==
    walk'.visits # walk.visits /\ walk.last # -1 =>
        walk'.last = (walk.last + 1) % Cardinality({PointAt(i).input : i \in 0 .. Total - 1})
VisitsFollowTheRoute == [][VisitStep]_chunkVars

(* No request holds a full circuit, which Nav2 could call done at once,    *)
(* and none has a hard checkpoint before its end.                          *)
WindowsAreFinite ==
    /\ route.loop /\ walkMode # "legacy_pair" => window.n < Total
    /\ \A k \in SoftKeys(window) : PointAt(Ahead(window.start, k)).soft

=============================================================================
