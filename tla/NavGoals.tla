------------------------------ MODULE NavGoals ------------------------------
(***************************************************************************)
(* nav_command_server as the only client of Nav2's navigation actions:     *)
(* goals from the service set_goal_ll and from RViz, their cancellation    *)
(* and replacement, and the manual takeover.                               *)
(*                                                                         *)
(* Services exclude one another, and so do topic callbacks (RViz), but a   *)
(* service and an RViz goal run side by side, and the answers of Nav2      *)
(* arrive in a third, reentrant group.  Every critical section of _lock    *)
(* is one action.                                                          *)
(***************************************************************************)
EXTENDS Naturals, FiniteSets

CONSTANTS
    MaxGoals,       \* bound: goals started
    MaxTakeovers    \* bound: SetManualMode requests

ASSUME GoalsAssumption == MaxGoals \in Nat /\ MaxTakeovers \in Nat

Callers == {"service", "rviz"}
Epochs == 1 .. MaxGoals

VARIABLES
    goal,       \* _goal_epoch, _goal_pending, _goal_handle, _goal_cancel_requested,
                \* _goal_terminal_event
    manualMode, \* manual_enabled
    caller,     \* where a goal request, a cancellation or a takeover is
    action,     \* per epoch, what Nav2 is doing with the goal
    cancelled,  \* epochs for which cancel_goal_async has been called
    takeovers,  \* SetManualMode requests so far
    slipped     \* history: goals accepted while a takeover was under way

goalVars == <<goal, manualMode, caller, action, cancelled, takeovers, slipped>>

NoCall == [at |-> "idle", epoch |-> 0]

GoalsInit ==
    /\ goal = [epoch |-> 0, pending |-> FALSE, handle |-> FALSE, asked |-> FALSE,
               terminal |-> TRUE]
    /\ manualMode = FALSE
    /\ caller = [c \in Callers |-> NoCall]
    /\ action = [e \in Epochs |-> "none"]
    /\ cancelled = {}
    /\ takeovers = 0
    /\ slipped = {}

GoalActive == goal.pending \/ goal.handle

Go(c, at) == caller' = [caller EXCEPT ![c] = [at |-> at, epoch |-> goal.epoch]]
Done(c) == caller' = [caller EXCEPT ![c] = NoCall]

(* The locked part of _cancel_goal for an active goal; the first request   *)
(* for a goal Nav2 knows is passed on.                                     *)
AskToCancel ==
    /\ goal' = [goal EXCEPT !.asked = TRUE]
    /\ cancelled' = IF goal.handle /\ ~goal.asked THEN cancelled \cup {goal.epoch}
                    ELSE cancelled

-----------------------------------------------------------------------------
(* Refused requests (manual mode, conversion, keepout, no action server)   *)
(* change nothing.                                                         *)
RequestGoal(c) ==
    /\ caller[c].at = "idle" /\ ~manualMode
    /\ Go(c, IF GoalActive THEN "replacing" ELSE "starting")
    /\ UNCHANGED <<goal, manualMode, action, cancelled, takeovers, slipped>>

AskReplaced(c) ==
    /\ caller[c].at = "replacing"
    /\ IF GoalActive
       THEN AskToCancel /\ Go(c, "waiting")
       ELSE Go(c, "starting") /\ UNCHANGED <<goal, cancelled>>
    /\ UNCHANGED <<manualMode, action, takeovers, slipped>>

Replaced(c) ==
    /\ caller[c].at = "waiting" /\ goal.terminal
    /\ Go(c, "starting")
    /\ UNCHANGED <<goal, manualMode, action, cancelled, takeovers, slipped>>

(* Broken variant: the check for an active goal is not repeated.           *)
StartGoalUnchecked(c) ==
    /\ caller[c].at = "starting"
    /\ IF manualMode \/ goal.epoch = MaxGoals
       THEN Done(c) /\ UNCHANGED goal
       ELSE /\ goal' = [epoch |-> goal.epoch + 1, pending |-> TRUE, handle |-> FALSE,
                        asked |-> FALSE, terminal |-> FALSE]
            /\ caller' = [caller EXCEPT ![c] = [at |-> "resetting", epoch |-> goal'.epoch]]
    /\ UNCHANGED <<manualMode, action, cancelled, takeovers, slipped>>

(* Neither the mode nor the absence of a goal is taken for granted: both   *)
(* are looked at again where the goal becomes pending.                     *)
StartGoal(c) ==
    /\ caller[c].at = "starting"
    /\ IF manualMode \/ GoalActive \/ goal.epoch = MaxGoals
       THEN Done(c) /\ UNCHANGED goal
       ELSE /\ goal' = [epoch |-> goal.epoch + 1, pending |-> TRUE, handle |-> FALSE,
                        asked |-> FALSE, terminal |-> FALSE]
            /\ caller' = [caller EXCEPT ![c] = [at |-> "resetting", epoch |-> goal'.epoch]]
    /\ UNCHANGED <<manualMode, action, cancelled, takeovers, slipped>>

(* The reset of the path guard fails, is late or has no server.            *)
ResetFails(c) ==
    /\ caller[c].at = "resetting"
    /\ goal' = [goal EXCEPT !.pending = FALSE, !.terminal = TRUE]
    /\ Done(c)
    /\ UNCHANGED <<manualMode, action, cancelled, takeovers, slipped>>

(* _send_map_goals after the reset.                                        *)
SendMapGoals(c) ==
    /\ caller[c].at = "resetting"
    /\ LET e == caller[c].epoch
       IN  IF e # goal.epoch
           THEN UNCHANGED <<goal, action>>
           ELSE IF manualMode
           THEN goal' = [goal EXCEPT !.pending = FALSE, !.terminal = TRUE] /\ UNCHANGED action
           ELSE action' = [action EXCEPT ![e] = "sent"] /\ UNCHANGED goal
    /\ Done(c)
    /\ UNCHANGED <<manualMode, cancelled, takeovers, slipped>>

-----------------------------------------------------------------------------
(* _on_goal_response.                                                      *)
GoalRejected(e) ==
    /\ action[e] = "sent"
    /\ action' = [action EXCEPT ![e] = "ended"]
    /\ goal' = IF e = goal.epoch
               THEN [goal EXCEPT !.pending = FALSE, !.asked = FALSE, !.terminal = TRUE]
               ELSE goal
    /\ UNCHANGED <<manualMode, caller, cancelled, takeovers, slipped>>

(* Broken variant: the mode is not looked at when a goal is accepted.      *)
CancelWhenAskedOnly(e) == e # goal.epoch \/ goal.asked

CancelAfterAccept(e) == e # goal.epoch \/ goal.asked \/ manualMode

GoalAccepted(e) ==
    /\ action[e] = "sent"
    /\ action' = [action EXCEPT ![e] = "executing"]
    /\ goal' = IF e = goal.epoch THEN [goal EXCEPT !.pending = FALSE, !.handle = TRUE]
               ELSE goal
    /\ cancelled' = IF CancelAfterAccept(e) THEN cancelled \cup {e} ELSE cancelled
    /\ slipped' = IF caller["service"].at = "switching" THEN slipped \cup {e} ELSE slipped
    /\ UNCHANGED <<manualMode, caller, takeovers>>

(* _on_goal_result: succeeded, aborted or cancelled.                       *)
GoalEnds(e) ==
    /\ action[e] = "executing"
    /\ action' = [action EXCEPT ![e] = "ended"]
    /\ goal' = IF e = goal.epoch
               THEN [goal EXCEPT !.pending = FALSE, !.handle = FALSE, !.asked = FALSE,
                                 !.terminal = TRUE]
               ELSE goal
    /\ UNCHANGED <<manualMode, caller, cancelled, takeovers, slipped>>

-----------------------------------------------------------------------------
(* CancelNavGoal; without a goal it is answered at once.                   *)
CancelService ==
    /\ caller["service"].at = "idle" /\ GoalActive
    /\ AskToCancel
    /\ Go("service", "ending")
    /\ UNCHANGED <<manualMode, action, takeovers, slipped>>

(* A wait that began before the event was set returns even if the event    *)
(* has been cleared for the next goal since.                               *)
CancelAnswered ==
    /\ caller["service"].at = "ending"
    /\ goal.terminal \/ goal.epoch > caller["service"].epoch
    /\ Done("service")
    /\ UNCHANGED <<goal, manualMode, action, cancelled, takeovers, slipped>>

(* cancel_result_timeout_s.                                                *)
WaitTimesOut(c) ==
    /\ caller[c].at \in {"waiting", "ending"}
    /\ Done(c)
    /\ UNCHANGED <<goal, manualMode, action, cancelled, takeovers, slipped>>

(* _on_set_manual_mode: the goal first, the mode in a second section.      *)
TakeOver ==
    /\ caller["service"].at = "idle" /\ takeovers < MaxTakeovers
    /\ takeovers' = takeovers + 1
    /\ IF GoalActive THEN AskToCancel ELSE UNCHANGED <<goal, cancelled>>
    /\ Go("service", "switching")
    /\ UNCHANGED <<manualMode, action, slipped>>

EnableManual ==
    /\ caller["service"].at = "switching"
    /\ manualMode' = TRUE
    /\ Done("service")
    /\ UNCHANGED <<goal, action, cancelled, takeovers, slipped>>

DisableManual ==
    /\ caller["service"].at = "idle" /\ manualMode
    /\ manualMode' = FALSE
    /\ UNCHANGED <<goal, caller, action, cancelled, takeovers, slipped>>

-----------------------------------------------------------------------------
CallerStep(c) ==
    \/ AskReplaced(c) \/ Replaced(c) \/ StartGoal(c) \/ ResetFails(c) \/ SendMapGoals(c)
    \/ WaitTimesOut(c)

NavigationAnswers(e) == GoalRejected(e) \/ GoalAccepted(e)

GoalsNext ==
    \/ \E c \in Callers : RequestGoal(c) \/ CallerStep(c)
    \/ \E e \in Epochs : NavigationAnswers(e) \/ GoalEnds(e)
    \/ CancelService \/ CancelAnswered
    \/ TakeOver \/ EnableManual \/ DisableManual

(* Threads are scheduled, calls with a timeout return, and Nav2 answers a  *)
(* goal and ends one it was asked to cancel.                               *)
GoalsFairness ==
    /\ \A c \in Callers : WF_goalVars(CallerStep(c))
    /\ \A e \in Epochs : WF_goalVars(NavigationAnswers(e))
                         /\ WF_goalVars(e \in cancelled /\ GoalEnds(e))

GoalsSpec == GoalsInit /\ [][GoalsNext]_goalVars /\ GoalsFairness

-----------------------------------------------------------------------------
Phases == {"idle", "replacing", "waiting", "starting", "resetting", "ending", "switching"}

GoalsTypeOK ==
    /\ goal \in [epoch : 0 .. MaxGoals, pending : BOOLEAN, handle : BOOLEAN,
                 asked : BOOLEAN, terminal : BOOLEAN]
    /\ manualMode \in BOOLEAN
    /\ caller \in [Callers -> [at : Phases, epoch : 0 .. MaxGoals]]
    /\ action \in [Epochs -> {"none", "sent", "executing", "ended"}]
    /\ cancelled \in SUBSET Epochs
    /\ takeovers \in 0 .. MaxTakeovers
    /\ slipped \in SUBSET Epochs

AtNav2(e) == action[e] \in {"sent", "executing"}

(* A goal is sent only when the one before it has ended, so Nav2 never has *)
(* two of them, although a service request and an RViz goal may replace    *)
(* the same goal at the same time (_request_map_goals).                    *)
OneGoalAtATime == \A e, f \in Epochs : AtNav2(e) /\ AtNav2(f) => e = f

(* The event that CancelNavGoal and replacements wait for tells the truth: *)
(* when it is set, Nav2 has no goal of this server, sent or executing, and *)
(* when it is not, somebody is going to set it.                            *)
TerminalTellsTheTruth ==
    /\ goal.terminal => \A e \in Epochs : ~AtNav2(e)
    /\ ~goal.terminal => \/ AtNav2(goal.epoch)
                         \/ \E c \in Callers : caller[c].at = "resetting"
                                               /\ caller[c].epoch = goal.epoch

(* In manual mode every goal at Nav2 is on its way out: cancelled, or to   *)
(* be cancelled when it is accepted.  The one exception is a goal from     *)
(* RViz that Nav2 accepted between the two sections of the takeover, after *)
(* the cancellation and before the mode.                                   *)
TakeoverReachesGoal ==
    manualMode => \A e \in Epochs : action[e] = "executing" => e \in cancelled \cup slipped

(* A goal that was asked to end does end, also one whose cancellation was  *)
(* requested before Nav2 had accepted it and could not be passed on yet.   *)
CancellationEnds == goal.asked /\ GoalActive ~> goal.terminal

(* A goal of navigation at a time: Nav2 never works on two goals that      *)
(* nobody has asked it to give up; a goal that is reported ended has ended *)
(* or was given up; and a takeover reaches a goal that slipped in while    *)
(* it was under way.                                                       *)
GoalsSafe == OneGoalAtATime /\ TerminalTellsTheTruth /\ TakeoverReachesGoal
=============================================================================
