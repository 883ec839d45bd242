---------------------------- MODULE GuardedTree -----------------------------
(***************************************************************************)
(* The admission of maneuvers: ManeuverWait of maneuver_guard.py behind    *)
(* the service of path_health.py, and the behaviour tree whose plugins     *)
(* (salus_navigation_bt) ask it: GuardedRecovery over GuardedPipeline over *)
(* a planning and a following child.                                       *)
(*                                                                         *)
(* Paths are model values; those in Twisted contain a loop or a U turn     *)
(* whichever way the robot heads, any other one is a U turn for a robot    *)
(* that heads against it, a path that is already followed too.             *)
(* What the policy says of a path, and what planner and controller make of *)
(* it, is free.  A service answer takes a tick of its own, in which the    *)
(* planning child is RUNNING unless it ends the branch.                    *)
(***************************************************************************)
EXTENDS Integers, FiniteSets

CONSTANTS
    Paths, Twisted,
    NoPath,             \* an empty path on the blackboard
    WaitTicks,          \* maneuver_wait_s
    Retries,            \* number_of_retries of GuardedRecovery
    MaxTimeouts         \* bound: evaluations that are never answered

ASSUME TreeAssumption ==
    /\ Twisted \subseteq Paths /\ NoPath \notin Paths
    /\ WaitTicks \in Nat \ {0} /\ Retries \in Nat /\ MaxTimeouts \in Nat

VARIABLES
    wait,       \* ManeuverWait: ticks to the deadline, approved path, terminal
    against,    \* does the robot head against the path that is looked at?
    board,      \* blackboard: path, candidate_path and the three flags
    tree,       \* phases of the children, following_, recovering_, attempts_
    timeouts,   \* evaluations without an answer so far
    word        \* history: the last answer about the path on the blackboard, and
                \* the paths approved as candidates since the wait began

treeVars == <<wait, against, board, tree, timeouts, word>>

Clear == [left |-> -1, approved |-> NoPath, terminal |-> FALSE]
Waiting == wait.left >= 0

Halted(phase) ==
    [phase |-> phase, at |-> "keep", tries |-> 0, following |-> FALSE, recovering |-> FALSE,
     attempts |-> 0]

TreeInit ==
    /\ wait = Clear
    /\ against = FALSE
    /\ board = [path |-> NoPath, candidate |-> NoPath, stop |-> FALSE, wait |-> FALSE,
                terminal |-> FALSE]
    /\ tree = Halted("idle")
    /\ timeouts = 0
    /\ word = [answer |-> "none", approved |-> {}]

-----------------------------------------------------------------------------
(* Broken variant: a good candidate ends the wait by itself.               *)
ObserveReleasingCandidate(bad, key, candidate, valid) ==
    IF wait.left = 0 \/ wait.terminal THEN [wait EXCEPT !.terminal = TRUE]
    ELSE LET begun == IF bad /\ ~Waiting THEN [wait EXCEPT !.left = WaitTicks] ELSE wait
         IN  IF begun.left < 0 THEN begun
             ELSE IF valid /\ ~bad THEN Clear
             ELSE begun

(* Broken variant: every refused candidate starts the wait anew.           *)
ObserveRenewing(bad, key, candidate, valid) ==
    IF wait.left = 0 \/ wait.terminal THEN [wait EXCEPT !.terminal = TRUE]
    ELSE LET begun == IF bad THEN [wait EXCEPT !.left = WaitTicks] ELSE wait
         IN  IF begun.left < 0 THEN begun
             ELSE IF candidate /\ valid /\ ~bad THEN [begun EXCEPT !.approved = key]
             ELSE IF ~candidate /\ valid /\ ~bad /\ key = begun.approved /\ key # NoPath
             THEN Clear
             ELSE begun

(* ManeuverWait.observe: bad is a maneuver that is refused.                *)
Observe(bad, key, candidate, valid) ==
    IF wait.left = 0 \/ wait.terminal THEN [wait EXCEPT !.terminal = TRUE]
    ELSE LET begun == IF bad /\ ~Waiting THEN [wait EXCEPT !.left = WaitTicks] ELSE wait
         IN  IF begun.left < 0 THEN begun
             ELSE IF candidate /\ valid /\ ~bad THEN [begun EXCEPT !.approved = key]
             ELSE IF ~candidate /\ valid /\ ~bad /\ key = begun.approved /\ key # NoPath
             THEN Clear
             ELSE begun

(* inspect_maneuver on the whole candidate, or on what is left of the      *)
(* active path; only when there is a path and a transform.                 *)
Refused(path, inspected) == inspected /\ (path \in Twisted \/ against)

(* _on_evaluate with health from the policy; the answer to the tree.       *)
Health(path, candidate, inspected, policyState) ==
    LET bad == Refused(path, inspected)
        decided == Observe(bad, IF inspected THEN path ELSE NoPath, candidate,
                           policyState = "keep")
        held == decided.left >= 0
        result == IF candidate /\ policyState # "keep" THEN "stop" ELSE policyState
        copied == candidate /\ policyState = "keep" /\ inspected /\ ~bad /\ ~decided.terminal
    IN  [wait |-> decided,
         state |-> IF held /\ ~copied THEN "stop" ELSE result,
         maneuver |-> IF ~held \/ copied THEN "none"
                      ELSE IF decided.terminal THEN "operator" ELSE "wait"]

(* A path without poses is missing, a path without transform is refused.   *)
Verdicts(path) ==
    IF path = NoPath THEN {<<FALSE, "replan">>}
    ELSE {<<FALSE, "stop">>, <<TRUE, "stop">>, <<TRUE, "replan">>, <<TRUE, "keep">>}

(* PathHealthCondition.on_completion on the blackboard.                    *)
Noted(b, h, candidate) ==
    [b EXCEPT !.stop = @ \/ h.state = "stop",
              !.wait = IF h.maneuver # "none" THEN TRUE
                       ELSE IF ~candidate /\ h.state = "keep" THEN FALSE ELSE @,
              !.terminal = IF h.maneuver # "none" THEN h.maneuver = "operator"
                           ELSE IF ~candidate /\ h.state = "keep" THEN FALSE ELSE @]

(* The answers the condition may get, the last one being none in time.     *)
NoAnswer == [wait |-> wait, state |-> "none", maneuver |-> "none"]

GuardAnswers(path, candidate) ==
    {Health(path, candidate, v[1], v[2]) : v \in Verdicts(path)}
    \cup (IF timeouts < MaxTimeouts THEN {NoAnswer} ELSE {})

(* PathHealthCondition.tick: no answer stops the vehicle too.              *)
AfterAnswer(h, candidate) ==
    IF h.state = "none" THEN [board EXCEPT !.stop = TRUE] ELSE Noted(board, h, candidate)

(* What an evaluation leaves behind, the history included.                 *)
Evaluated(path, h, candidate) ==
    /\ wait' = h.wait
    /\ timeouts' = timeouts + IF h.state = "none" THEN 1 ELSE 0
    /\ word' = [answer |-> IF candidate /\ h.state # "keep" THEN word.answer ELSE h.state,
                approved |-> IF h.wait.left < 0 THEN {}
                             ELSE IF candidate /\ h.state = "keep" THEN word.approved \cup {path}
                             ELSE word.approved]

-----------------------------------------------------------------------------
Lowered(b) == [b EXCEPT !.stop = FALSE, !.wait = FALSE, !.terminal = FALSE]

HaltTree(phase, b) == tree' = Halted(phase) /\ board' = Lowered(b)

(* GuardedRecovery once the pipeline has failed.                           *)
PipelineFails(b, t) ==
    IF ~b.wait /\ t.attempts >= Retries
    THEN HaltTree("failed", b)
    ELSE /\ tree' = [t EXCEPT !.at = "wait", !.tries = 0, !.following = FALSE,
                              !.recovering = TRUE]
         /\ board' = b

(* Broken variant: the controller goes on while the planning child runs.   *)
PipelineKeepsFollowing(planning, b, t) ==
    LET lowered == [b EXCEPT !.stop = FALSE]
    IN  IF planning = "failure" THEN PipelineFails(lowered, t)
        ELSE IF planning = "running" /\ ~t.following
        THEN tree' = t /\ board' = lowered
        ELSE \/ tree' = [t EXCEPT !.following = TRUE] /\ board' = lowered
             \/ PipelineFails(lowered, t)
             \/ HaltTree("succeeded", lowered)

(* GuardedPipeline.tick with the status of its planning child: a stop      *)
(* halts the controller before anything else is done with it.              *)
Pipeline(planning, b, t) ==
    LET following == t.following /\ ~b.stop
        lowered == [b EXCEPT !.stop = FALSE]
    IN  IF planning = "failure" THEN PipelineFails(lowered, t)
        ELSE IF planning = "running" /\ ~following
        THEN tree' = [t EXCEPT !.following = FALSE] /\ board' = lowered
        ELSE \/ tree' = [t EXCEPT !.following = TRUE] /\ board' = lowered
             \/ PipelineFails(lowered, t)
             \/ HaltTree("succeeded", lowered)

(* The planning branch fails: RecoveryNode waits and tries it once more.   *)
BranchFails(b) ==
    IF tree.tries = 0
    THEN Pipeline("running", b, [tree EXCEPT !.at = "keep", !.tries = 1])
    ELSE Pipeline("failure", b, [tree EXCEPT !.at = "keep", !.tries = 0])

Running == tree.phase = "running" /\ ~board.terminal

InPipeline(phase) == Running /\ ~tree.recovering /\ tree.at = phase

KeepHealthyPath ==
    /\ InPipeline("keep")
    /\ \E h \in GuardAnswers(board.path, FALSE) :
         /\ Evaluated(board.path, h, FALSE)
         /\ IF h.state = "keep"
            THEN Pipeline("success", AfterAnswer(h, FALSE), [tree EXCEPT !.tries = 0])
            ELSE Pipeline("running", AfterAnswer(h, FALSE), [tree EXCEPT !.at = "data"])
    /\ UNCHANGED against

(* StopAndWaitForPathData: only missing data is waited for, then a path is *)
(* planned all the same.                                                   *)
StopAndWaitForPathData ==
    /\ InPipeline("data")
    /\ \E h \in GuardAnswers(board.path, FALSE) :
         /\ Evaluated(board.path, h, FALSE)
         /\ Pipeline("running", AfterAnswer(h, FALSE),
                     [tree EXCEPT !.at = IF h.state = "stop" /\ h.maneuver = "none"
                                         THEN "hold" ELSE "compute"])
    /\ UNCHANGED against

(* The condition is asked again while the branch waits.                    *)
EndHold ==
    /\ InPipeline("hold")
    /\ \E h \in GuardAnswers(board.path, FALSE) :
         /\ Evaluated(board.path, h, FALSE)
         /\ Pipeline("running", AfterAnswer(h, FALSE), [tree EXCEPT !.at = "compute"])
    /\ UNCHANGED against

ComputePath ==
    /\ InPipeline("compute")
    /\ \/ \E p \in Paths : Pipeline("running", [board EXCEPT !.candidate = p],
                                     [tree EXCEPT !.at = "check"])
       \/ BranchFails(board)
    /\ UNCHANGED <<wait, against, timeouts, word>>

CopyPath(b) == [b EXCEPT !.path = b.candidate]

CheckCandidate ==
    /\ InPipeline("check")
    /\ \E h \in GuardAnswers(board.candidate, TRUE) :
         /\ Evaluated(board.candidate, h, TRUE)
         /\ IF h.state = "keep"
            THEN Pipeline("success", CopyPath(AfterAnswer(h, TRUE)),
                          [tree EXCEPT !.at = "keep", !.tries = 0])
            ELSE BranchFails(AfterAnswer(h, TRUE))
    /\ UNCHANGED against

-----------------------------------------------------------------------------
(* The recovery child: wait, plan and check once more.                     *)
Recovering(phase) == Running /\ tree.recovering /\ tree.at = phase

RecoveryWait ==
    /\ Recovering("wait")
    /\ tree' = [tree EXCEPT !.at = "compute"]
    /\ UNCHANGED <<wait, against, board, timeouts, word>>

(* A wait for a maneuver neither consumes the retries nor ends with them.  *)
RecoveryEnds(ok, b) ==
    IF ~b.wait /\ ~ok THEN HaltTree("failed", b)
    ELSE /\ tree' = [tree EXCEPT !.recovering = FALSE, !.at = "keep",
                                 !.attempts = IF b.wait THEN @ ELSE @ + 1]
         /\ board' = b

RecoveryCompute ==
    /\ Recovering("compute")
    /\ \/ \E p \in Paths : /\ tree' = [tree EXCEPT !.at = "check"]
                            /\ board' = [board EXCEPT !.candidate = p]
       \/ RecoveryEnds(FALSE, board)
    /\ UNCHANGED <<wait, against, timeouts, word>>

RecoveryCheck ==
    /\ Recovering("check")
    /\ \E h \in GuardAnswers(board.candidate, TRUE) :
         /\ Evaluated(board.candidate, h, TRUE)
         /\ IF h.state = "keep"
            THEN RecoveryEnds(TRUE, CopyPath(AfterAnswer(h, TRUE)))
            ELSE RecoveryEnds(FALSE, AfterAnswer(h, TRUE))
    /\ UNCHANGED against

(* Only an answer of the guard makes the wait terminal for the tree.       *)
TerminalTick ==
    /\ tree.phase = "running" /\ board.terminal
    /\ HaltTree("failed", board)
    /\ UNCHANGED <<wait, against, timeouts, word>>

(* nav_command_server resets the guard before it sends the next goal; on   *)
(* the first tick the goal is new, so the old path is not kept.            *)
NewGoal ==
    /\ tree.phase # "running"
    /\ tree' = [Halted("running") EXCEPT !.at = "data"]
    /\ wait' = Clear
    /\ board' \in {board, [board EXCEPT !.path = NoPath]}
    /\ word' = [answer |-> "none", approved |-> {}]
    /\ UNCHANGED <<against, timeouts>>

(* The robot turns, on its path or off it.                                 *)
RobotTurns ==
    /\ against' = ~against
    /\ UNCHANGED <<wait, board, tree, timeouts, word>>

(* The steady clock of the guard, and its timer at the deadline.           *)
ElapseWait ==
    /\ wait.left > 0
    /\ wait' = [wait EXCEPT !.left = @ - 1]
    /\ UNCHANGED <<against, board, tree, timeouts, word>>

TickManeuverWait ==
    /\ wait.left = 0 /\ ~wait.terminal
    /\ wait' = [wait EXCEPT !.terminal = TRUE]
    /\ UNCHANGED <<against, board, tree, timeouts, word>>

TickTree ==
    \/ KeepHealthyPath \/ StopAndWaitForPathData \/ EndHold \/ ComputePath \/ CheckCandidate
    \/ RecoveryWait \/ RecoveryCompute \/ RecoveryCheck \/ TerminalTick

TreeNext == TickTree \/ NewGoal \/ RobotTurns \/ ElapseWait \/ TickManeuverWait

(* The tree is ticked and the steady clock runs.                           *)
TreeFairness == WF_treeVars(TickTree) /\ WF_treeVars(ElapseWait)

TreeSpec == TreeInit /\ [][TreeNext]_treeVars /\ TreeFairness

-----------------------------------------------------------------------------
TreeTypeOK ==
    /\ wait \in [left : -1 .. WaitTicks, approved : Paths \cup {NoPath}, terminal : BOOLEAN]
    /\ against \in BOOLEAN
    /\ board \in [path : Paths \cup {NoPath}, candidate : Paths \cup {NoPath},
                  stop : BOOLEAN, wait : BOOLEAN, terminal : BOOLEAN]
    /\ tree \in [phase : {"idle", "running", "failed", "succeeded"},
                 at : {"keep", "data", "hold", "compute", "check", "wait"}, tries : 0 .. 1,
                 following : BOOLEAN, recovering : BOOLEAN, attempts : 0 .. Retries]
    /\ timeouts \in 0 .. MaxTimeouts
    /\ word \in [answer : {"none", "keep", "replan", "stop"}, approved : SUBSET Paths]

(* The controller follows a path only on the guard's word: when the last   *)
(* answer about the path on the blackboard was a stop, or was missing, the *)
(* controller has been halted in that very tick, whatever branch of the    *)
(* tree asked.                                                             *)
FollowsOnWord == tree.following => word.answer \in {"keep", "replan"}

(* A wait for a maneuver ends only with the next goal or with the adoption *)
(* of a path that was approved as a candidate during this very wait; no    *)
(* answer about a candidate and no passage of time ends it.                *)
AdoptionStep ==
    wait.left >= 0 /\ wait'.left < 0
        => tree.phase # "running" \/ board.path \in word.approved

OnlyAdoptionClears == [][AdoptionStep]_treeVars

(* A wait for a maneuver is not for ever: the path is replaced by one that *)
(* is adopted, or the goal ends and the operator is asked.                 *)
ManeuverEnds ==
    tree.phase = "running" /\ wait.left >= 0 ~> tree.phase # "running" \/ wait.left < 0
=============================================================================
