---------------------------- MODULE RouteRecovery ----------------------------
(***************************************************************************)
(* route_recovery.py: BlockedRecoveryPolicy as operators on one record,    *)
(* and the suffix of a chunk that a retry sends again.                     *)
(*                                                                         *)
(* Only the order of times matters: `due` says that the persistence or the *)
(* retry wait of the current state has passed.  A changed reason restarts  *)
(* the persistence and is covered by a `due` that comes later.             *)
(***************************************************************************)
EXTENDS Integers

CONSTANT MaxAttempts    \* blocked_retry_max_attempts

ASSUME RecoveryAssumption == MaxAttempts \in Nat

RecoveryState == {"CLEAR", "PENDING", "WAITING_DATA", "WAITING_RETRY",
                  "RECOVERING", "NEEDS_OPERATOR"}

Policy == [state : RecoveryState, resume : RecoveryState, attempt : 0 .. MaxAttempts]
Reset == [state |-> "CLEAR", resume |-> "CLEAR", attempt |-> 0]

(* What /path_health says: fine, the hold that opens every goal, TF or     *)
(* costmap data missing, or a maneuver that waits or needs the operator.   *)
Health == {"ok", "reset", "stale", "maneuver", "maneuver_operator"}
ManeuverHold(health) == health \in {"maneuver", "maneuver_operator"}

Decide(p, state, action) == [policy |-> [p EXCEPT !.state = state], action |-> action]

(* observe while a maneuver holds or data is missing.                      *)
Hold(p, health) ==
    CASE health = "maneuver_operator" -> Decide(p, "NEEDS_OPERATOR", "CANCEL_AND_BRAKE")
      [] health = "maneuver" -> Decide([p EXCEPT !.resume = "CLEAR"], "WAITING_DATA", "NONE")
      [] health \in {"reset", "stale"} ->
            Decide([p EXCEPT !.resume = IF p.state = "WAITING_DATA" THEN @ ELSE p.state],
                   "WAITING_DATA", "NONE")

(* Broken variant: a retry begins whatever its number.                     *)
JudgeUnbounded(p, blocked, due) ==
    IF p.state = "WAITING_RETRY" /\ due
    THEN Decide([p EXCEPT !.attempt = @ + 1], "RECOVERING", "BEGIN_RETRY")
    ELSE IF p.state = "CLEAR" /\ blocked THEN Decide(p, "PENDING", "NONE")
    ELSE IF p.state = "PENDING" /\ blocked /\ due
    THEN Decide(p, "WAITING_RETRY", "CANCEL_AND_BRAKE")
    ELSE Decide(p, p.state, "NONE")

(* observe with fresh data: lines 152 to 180.                              *)
Judge(p, blocked, due) ==
    CASE p.state = "RECOVERING" -> Decide(p, p.state, "NONE")
      [] p.state = "WAITING_RETRY" /\ due ->
            IF p.attempt >= MaxAttempts THEN Decide(p, "NEEDS_OPERATOR", "NONE")
            ELSE Decide([p EXCEPT !.attempt = @ + 1], "RECOVERING", "BEGIN_RETRY")
      [] p.state = "PENDING" /\ blocked /\ due ->
            Decide(p, IF MaxAttempts = 0 THEN "NEEDS_OPERATOR" ELSE "WAITING_RETRY",
                   "CANCEL_AND_BRAKE")
      [] p.state \in {"CLEAR", "PENDING"} /\ ~blocked -> Decide(p, "CLEAR", "NONE")
      [] p.state = "CLEAR" /\ blocked -> Decide(p, "PENDING", "NONE")
      [] OTHER -> Decide(p, p.state, "NONE")      \* not due yet

Observe(p, health, blocked, due) ==
    LET back == [p EXCEPT !.state = IF p.state = "WAITING_DATA" THEN p.resume ELSE @]
    IN  CASE p.state = "NEEDS_OPERATOR" -> Decide(p, p.state, "NONE")
          [] p.state # "NEEDS_OPERATOR" /\ health # "ok" -> Hold(p, health)
          [] p.state = "WAITING_DATA" /\ p.resume = "CLEAR" /\ health = "ok" ->
                Decide(p, "CLEAR", "RESUME")
          [] OTHER -> Judge(back, blocked, due)

(* Broken variant: an accepted retry gives the attempts back.              *)
FinishRetryForgives(p, accepted) ==
    [p EXCEPT !.state = IF accepted THEN "CLEAR" ELSE "WAITING_RETRY",
              !.attempt = IF accepted THEN 0 ELSE @]

(* finish_retry, for a policy that is RECOVERING; otherwise it raises.     *)
FinishRetry(p, accepted) ==
    [p EXCEPT !.state = CASE accepted -> "CLEAR"
                          [] ~accepted /\ p.attempt >= MaxAttempts -> "NEEDS_OPERATOR"
                          [] OTHER -> "WAITING_RETRY"]

(* pending_checkpoint_suffix: where the uncredited suffix of s .. e begins. *)
PendingStart(s, e, credited) ==
    IF (s .. e) \ credited = {} THEN s
    ELSE CHOOSE k \in (s .. e) \ credited : \A j \in (s .. e) \ credited : k <= j
=============================================================================
