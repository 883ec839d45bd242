---------------------------- MODULE ServiceProofs ----------------------------
(***************************************************************************)
(* Proofs about the services of MCServices: an inductive invariant for     *)
(* each module, the property it is there for, and in the end the three     *)
(* properties of the run for all services together.                        *)
(***************************************************************************)
EXTENDS MCServices, SequenceTheorems, TLAPS

-----------------------------------------------------------------------------
(* NavGoals, for every number of goals and takeovers.  The flags of the    *)
(* newest goal say where it is: with the caller that resets the path guard *)
(* for it, sent, executing or ended; older goals have ended and newer ones *)
(* have not been sent.  A goal that was asked to end while it executes has *)
(* been cancelled.                                                         *)

Resetting(c) == caller[c].at = "resetting"

(* Which flags the newest goal has in each place.                          *)
NewestGoal ==
    /\ goal.terminal = ~GoalActive
    /\ goal.pending => ~goal.handle
    /\ goal.terminal => \A c \in Callers : ~Resetting(c)
    /\ \A c \in Callers : Resetting(c) =>
          /\ caller[c].epoch = goal.epoch /\ goal.epoch \in Epochs
          /\ goal.pending /\ action[goal.epoch] = "none"
          /\ \A d \in Callers : Resetting(d) => d = c
    /\ goal.pending => \/ goal.epoch \in Epochs /\ action[goal.epoch] = "sent"
                       \/ \E c \in Callers : Resetting(c)
    /\ goal.handle => goal.epoch \in Epochs /\ action[goal.epoch] = "executing"

(* Where all the others are.                                               *)
OtherGoals ==
    /\ \A e \in Epochs : e > goal.epoch => action[e] = "none"
    /\ \A e \in Epochs : AtNav2(e) => e = goal.epoch
    /\ \A e \in Epochs : action[e] = "sent" => goal.pending
    /\ \A e \in Epochs : action[e] = "executing" => goal.handle

(* What a takeover, complete or between its sections, leaves to end.       *)
TakenOver ==
    /\ goal.handle /\ goal.asked => goal.epoch \in cancelled
    /\ (manualMode \/ caller["service"].at = "switching") =>
          \A e \in Epochs : action[e] = "executing" => e \in cancelled \cup slipped

GoalsInv == GoalsTypeOK /\ NewestGoal /\ OtherGoals /\ TakenOver

LEMMA GoalsInvInit == GoalsInit => GoalsInv
<1> USE GoalsAssumption DEF Epochs, Callers
<1> SUFFICES ASSUME GoalsInit PROVE GoalsInv
    OBVIOUS
<1>1. GoalsTypeOK
    <2>1. goal \in [epoch : 0 .. MaxGoals, pending : BOOLEAN, handle : BOOLEAN,
                    asked : BOOLEAN, terminal : BOOLEAN]
        BY DEF GoalsInit
    <2>2. caller \in [Callers -> [at : Phases, epoch : 0 .. MaxGoals]]
        BY DEF GoalsInit, Phases, NoCall
    <2>3. manualMode \in BOOLEAN /\ action \in [Epochs -> {"none", "sent", "executing", "ended"}]
        BY DEF GoalsInit
    <2>4. cancelled \in SUBSET Epochs /\ takeovers \in 0 .. MaxTakeovers /\ slipped \in SUBSET Epochs
        BY DEF GoalsInit
    <2> QED  BY <2>1, <2>2, <2>3, <2>4 DEF GoalsTypeOK
<1>2. NewestGoal
    BY DEF GoalsInit, NewestGoal, GoalActive, Resetting, NoCall
<1>3. OtherGoals
    BY DEF GoalsInit, OtherGoals, AtNav2
<1>4. TakenOver
    BY DEF GoalsInit, TakenOver, NoCall
<1> QED  BY <1>1, <1>2, <1>3, <1>4 DEF GoalsInv

LEMMA CallerTypes ==
    ASSUME GoalsTypeOK, NEW c \in Callers, NEW at \in Phases, NEW e \in 0 .. MaxGoals
    PROVE  [caller EXCEPT ![c] = [at |-> at, epoch |-> e]] \in [Callers -> [at : Phases, epoch : 0 .. MaxGoals]]
BY DEF GoalsTypeOK

LEMMA AskTypes ==
    ASSUME GoalsTypeOK, NewestGoal, GoalActive, AskToCancel
    PROVE  /\ goal' \in [epoch : 0 .. MaxGoals, pending : BOOLEAN, handle : BOOLEAN,
                          asked : BOOLEAN, terminal : BOOLEAN]
           /\ cancelled' \in SUBSET Epochs
<1>1. goal' \in [epoch : 0 .. MaxGoals, pending : BOOLEAN, handle : BOOLEAN,
                 asked : BOOLEAN, terminal : BOOLEAN]
    BY DEF GoalsTypeOK, AskToCancel
<1>2. goal.epoch \in Epochs
    BY DEF GoalsTypeOK, NewestGoal, GoalActive, Epochs
<1>3. cancelled' \in SUBSET Epochs
    BY <1>2 DEF GoalsTypeOK, AskToCancel
<1> QED  BY <1>1, <1>3

(* The steps of the callers.                                               *)
LEMMA GoalsCallers ==
    ASSUME GoalsInv, NEW c \in Callers, RequestGoal(c) \/ CallerStep(c)
    PROVE  GoalsInv'
<1> USE GoalsAssumption DEF GoalsInv, Epochs, Callers, Resetting, GoalActive, AtNav2, Go, Done, NoCall
<1>1. CASE RequestGoal(c)
    <2>1. GoalsTypeOK'
        BY <1>1 DEF RequestGoal, GoalsTypeOK, Phases
    <2>2. NewestGoal'
        BY <1>1 DEF RequestGoal, NewestGoal, GoalsTypeOK, Phases
    <2>3. OtherGoals' /\ TakenOver'
        BY <1>1 DEF RequestGoal, OtherGoals, TakenOver, GoalsTypeOK, Phases
    <2> QED  BY <2>1, <2>2, <2>3
<1>2. CASE AskReplaced(c)
    <2>1. GoalsTypeOK'
        <3>1. goal.epoch \in 0 .. MaxGoals /\ {"waiting", "starting"} \subseteq Phases
            BY DEF GoalsTypeOK, Phases
        <3>2. caller' \in [Callers -> [at : Phases, epoch : 0 .. MaxGoals]]
            BY <1>2, <3>1, CallerTypes DEF AskReplaced
        <3>3. CASE GoalActive
            <4>1. AskToCancel /\ UNCHANGED <<manualMode, action, takeovers, slipped>>
                BY <1>2, <3>3 DEF AskReplaced
            <4> QED  BY <3>2, <4>1, <3>3, AskTypes DEF GoalsTypeOK
        <3>4. CASE ~GoalActive
            BY <1>2, <3>2, <3>4 DEF AskReplaced, GoalsTypeOK
        <3> QED  BY <3>3, <3>4
    <2>2. NewestGoal'
        <3>1. action' = action /\ \A d \in Callers : Resetting(d)' = Resetting(d) /\
                                   (Resetting(d) => caller'[d] = caller[d])
            BY <1>2 DEF AskReplaced, GoalsTypeOK
        <3>2. /\ goal'.epoch = goal.epoch /\ goal'.pending = goal.pending
              /\ goal'.handle = goal.handle /\ goal'.terminal = goal.terminal
            BY <1>2 DEF AskReplaced, AskToCancel, GoalsTypeOK
        <3> QED  BY <3>1, <3>2 DEF NewestGoal
    <2>3. OtherGoals' /\ TakenOver'
        BY <1>2 DEF AskReplaced, AskToCancel, OtherGoals, TakenOver, GoalsTypeOK, Phases
    <2> QED  BY <2>1, <2>2, <2>3
<1>3. CASE Replaced(c)
    <2>1. GoalsTypeOK'
        BY <1>3 DEF Replaced, GoalsTypeOK, Phases
    <2>2. NewestGoal'
        BY <1>3 DEF Replaced, NewestGoal, GoalsTypeOK, Phases
    <2>3. OtherGoals' /\ TakenOver'
        BY <1>3 DEF Replaced, OtherGoals, TakenOver, GoalsTypeOK, Phases
    <2> QED  BY <2>1, <2>2, <2>3
<1>4. CASE StartGoal(c)
    <2>1. GoalsTypeOK'
        <3>1. CASE manualMode \/ GoalActive \/ goal.epoch = MaxGoals
            BY <1>4, <3>1 DEF StartGoal, GoalsTypeOK, Phases
        <3>2. CASE ~(manualMode \/ GoalActive \/ goal.epoch = MaxGoals)
            <4>1. /\ goal' = [epoch |-> goal.epoch + 1, pending |-> TRUE, handle |-> FALSE,
                             asked |-> FALSE, terminal |-> FALSE]
                  /\ caller' = [caller EXCEPT ![c] = [at |-> "resetting", epoch |-> goal.epoch + 1]]
                BY <1>4, <3>2 DEF StartGoal
            <4>2. goal.epoch + 1 \in 0 .. MaxGoals /\ "resetting" \in Phases
                BY <3>2 DEF GoalsTypeOK, Phases
            <4>3. caller' \in [Callers -> [at : Phases, epoch : 0 .. MaxGoals]]
                BY <4>1, <4>2, CallerTypes
            <4> QED  BY <1>4, <4>1, <4>2, <4>3 DEF StartGoal, GoalsTypeOK
        <3> QED  BY <3>1, <3>2
    <2>2. NewestGoal'
        <3>1. CASE manualMode \/ GoalActive \/ goal.epoch = MaxGoals
            BY <1>4, <3>1 DEF StartGoal, NewestGoal, OtherGoals, GoalsTypeOK, Phases
        <3>2. CASE ~(manualMode \/ GoalActive \/ goal.epoch = MaxGoals)
            <4>1. /\ goal' = [epoch |-> goal.epoch + 1, pending |-> TRUE, handle |-> FALSE,
                             asked |-> FALSE, terminal |-> FALSE]
                  /\ caller' = [caller EXCEPT ![c] = [at |-> "resetting", epoch |-> goal.epoch + 1]]
                  /\ action' = action
                BY <1>4, <3>2 DEF StartGoal
            <4>2. goal.epoch + 1 \in Epochs /\ goal.epoch + 1 > goal.epoch
                BY <3>2 DEF GoalsTypeOK
            <4>3. action[goal.epoch + 1] = "none"
                BY <4>2 DEF OtherGoals
            <4>4. \A d \in Callers : ~Resetting(d)
                BY <3>2 DEF NewestGoal
            <4>5. \A d \in Callers : caller'[d] = IF d = c THEN [at |-> "resetting", epoch |-> goal.epoch + 1]
                                                ELSE caller[d]
                BY <4>1 DEF GoalsTypeOK
            <4>6. \A d \in Callers : Resetting(d)' <=> d = c
                BY <4>4, <4>5
            <4>7. /\ goal'.epoch = goal.epoch + 1 /\ goal'.pending = TRUE /\ goal'.handle = FALSE
                  /\ goal'.terminal = FALSE /\ GoalActive'
                BY <4>1
            <4>8. action'[goal'.epoch] = "none" /\ goal'.epoch \in Epochs'
                BY <4>1, <4>2, <4>3, <4>7
            <4>9. caller'[c].epoch = goal'.epoch
                BY <4>5, <4>7
            <4> QED  BY <4>6, <4>7, <4>8, <4>9 DEF NewestGoal
        <3> QED  BY <3>1, <3>2
    <2>3. OtherGoals' /\ TakenOver'
        BY <1>4 DEF StartGoal, NewestGoal, OtherGoals, TakenOver, GoalsTypeOK, Phases
    <2> QED  BY <2>1, <2>2, <2>3
<1>5. CASE ResetFails(c)
    <2>1. GoalsTypeOK'
        <3>1. /\ goal' \in [epoch : 0 .. MaxGoals, pending : BOOLEAN, handle : BOOLEAN,
                             asked : BOOLEAN, terminal : BOOLEAN]
              /\ caller' \in [Callers -> [at : Phases, epoch : 0 .. MaxGoals]]
            <4>1. "idle" \in Phases /\ 0 \in 0 .. MaxGoals
                BY DEF Phases
            <4> QED  BY <1>5, <4>1, CallerTypes DEF ResetFails, GoalsTypeOK
        <3> QED  BY <1>5, <3>1 DEF ResetFails, GoalsTypeOK
    <2>2. NewestGoal'
        BY <1>5 DEF ResetFails, NewestGoal, GoalsTypeOK, Phases
    <2>3. OtherGoals' /\ TakenOver'
        BY <1>5 DEF ResetFails, NewestGoal, OtherGoals, TakenOver, GoalsTypeOK, Phases
    <2> QED  BY <2>1, <2>2, <2>3
<1>6. CASE SendMapGoals(c)
    <2>0. Resetting(c) /\ caller[c].epoch = goal.epoch /\ goal.epoch \in Epochs /\ goal.pending
        BY <1>6 DEF SendMapGoals, NewestGoal
    <2>1. GoalsTypeOK'
        <3>1. caller' \in [Callers -> [at : Phases, epoch : 0 .. MaxGoals]]
            BY <1>6 DEF SendMapGoals, GoalsTypeOK, Phases
        <3>2. CASE manualMode
            BY <1>6, <2>0, <3>1, <3>2 DEF SendMapGoals, GoalsTypeOK
        <3>3. CASE ~manualMode
            BY <1>6, <2>0, <3>1, <3>3 DEF SendMapGoals, GoalsTypeOK
        <3> QED  BY <3>2, <3>3
    <2>2. NewestGoal'
        <3>1. CASE manualMode
            BY <1>6, <2>0, <3>1 DEF SendMapGoals, NewestGoal, GoalsTypeOK, Phases
        <3>2. CASE ~manualMode
            BY <1>6, <2>0, <3>2 DEF SendMapGoals, NewestGoal, GoalsTypeOK, Phases
        <3> QED  BY <3>1, <3>2
    <2>3. OtherGoals' /\ TakenOver'
        <3>1. CASE manualMode
            BY <1>6, <2>0, <3>1 DEF SendMapGoals, NewestGoal, OtherGoals, TakenOver, GoalsTypeOK, Phases
        <3>2. CASE ~manualMode
            BY <1>6, <2>0, <3>2 DEF SendMapGoals, NewestGoal, OtherGoals, TakenOver, GoalsTypeOK, Phases
        <3> QED  BY <3>1, <3>2
    <2> QED  BY <2>1, <2>2, <2>3
<1>7. CASE WaitTimesOut(c)
    <2>1. GoalsTypeOK'
        BY <1>7 DEF WaitTimesOut, GoalsTypeOK, Phases
    <2>2. NewestGoal'
        BY <1>7 DEF WaitTimesOut, NewestGoal, GoalsTypeOK, Phases
    <2>3. OtherGoals' /\ TakenOver'
        BY <1>7 DEF WaitTimesOut, OtherGoals, TakenOver, GoalsTypeOK, Phases
    <2> QED  BY <2>1, <2>2, <2>3
<1> QED  BY <1>1, <1>2, <1>3, <1>4, <1>5, <1>6, <1>7 DEF CallerStep

(* The answers of Nav2.                                                    *)
LEMMA GoalsNavigation ==
    ASSUME GoalsInv, NEW e \in Epochs, NavigationAnswers(e) \/ GoalEnds(e)
    PROVE  GoalsInv'
<1> USE GoalsAssumption DEF GoalsInv, Epochs, Callers, Resetting, GoalActive, AtNav2
<1>0. e = goal.epoch
    BY DEF NavigationAnswers, GoalRejected, GoalAccepted, GoalEnds, OtherGoals
<1>1. CASE GoalRejected(e)
    <2>1. GoalsTypeOK'
        BY <1>1 DEF GoalRejected, GoalsTypeOK
    <2>2. NewestGoal'
        BY <1>0, <1>1 DEF GoalRejected, NewestGoal, OtherGoals, GoalsTypeOK
    <2>3. OtherGoals' /\ TakenOver'
        BY <1>0, <1>1 DEF GoalRejected, NewestGoal, OtherGoals, TakenOver, GoalsTypeOK
    <2> QED  BY <2>1, <2>2, <2>3
<1>2. CASE GoalAccepted(e)
    <2>1. GoalsTypeOK'
        BY <1>2 DEF GoalAccepted, CancelAfterAccept, GoalsTypeOK
    <2>2. NewestGoal'
        BY <1>0, <1>2 DEF GoalAccepted, NewestGoal, OtherGoals, GoalsTypeOK
    <2>3. OtherGoals' /\ TakenOver'
        BY <1>0, <1>2 DEF GoalAccepted, CancelAfterAccept, NewestGoal, OtherGoals, TakenOver, GoalsTypeOK
    <2> QED  BY <2>1, <2>2, <2>3
<1>3. CASE GoalEnds(e)
    <2>1. GoalsTypeOK'
        BY <1>3 DEF GoalEnds, GoalsTypeOK
    <2>2. NewestGoal'
        BY <1>0, <1>3 DEF GoalEnds, NewestGoal, OtherGoals, GoalsTypeOK
    <2>3. OtherGoals' /\ TakenOver'
        BY <1>0, <1>3 DEF GoalEnds, NewestGoal, OtherGoals, TakenOver, GoalsTypeOK
    <2> QED  BY <2>1, <2>2, <2>3
<1> QED  BY <1>1, <1>2, <1>3 DEF NavigationAnswers

(* Cancellation and takeover.                                              *)
LEMMA GoalsStops ==
    ASSUME GoalsInv, CancelService \/ CancelAnswered \/ TakeOver \/ EnableManual \/ DisableManual
    PROVE  GoalsInv'
<1> USE GoalsAssumption DEF GoalsInv, Epochs, Callers, Resetting, GoalActive, AtNav2, Go, Done, NoCall
<1>1. CASE CancelService
    <2>1. GoalsTypeOK'
        <3>1. AskToCancel /\ UNCHANGED <<manualMode, action, takeovers, slipped>> /\ GoalActive
            BY <1>1 DEF CancelService
        <3>2. caller' \in [Callers -> [at : Phases, epoch : 0 .. MaxGoals]]
            BY <1>1, CallerTypes DEF CancelService, GoalsTypeOK, Phases
        <3> QED  BY <3>1, <3>2, AskTypes DEF GoalsTypeOK
    <2>2. NewestGoal'
        BY <1>1 DEF CancelService, AskToCancel, NewestGoal, GoalsTypeOK, Phases
    <2>3. OtherGoals' /\ TakenOver'
        BY <1>1 DEF CancelService, AskToCancel, OtherGoals, TakenOver, GoalsTypeOK, Phases
    <2> QED  BY <2>1, <2>2, <2>3
<1>2. CASE CancelAnswered
    <2>1. GoalsTypeOK'
        BY <1>2 DEF CancelAnswered, GoalsTypeOK, Phases
    <2>2. NewestGoal'
        BY <1>2 DEF CancelAnswered, NewestGoal, GoalsTypeOK, Phases
    <2>3. OtherGoals' /\ TakenOver'
        BY <1>2 DEF CancelAnswered, OtherGoals, TakenOver, GoalsTypeOK, Phases
    <2> QED  BY <2>1, <2>2, <2>3
<1>3. CASE TakeOver
    <2>1. GoalsTypeOK'
        <3>1. takeovers' \in 0 .. MaxTakeovers
            BY <1>3 DEF TakeOver, GoalsTypeOK
        <3>2. caller' \in [Callers -> [at : Phases, epoch : 0 .. MaxGoals]]
            BY <1>3 DEF TakeOver, GoalsTypeOK, Phases
        <3>3. CASE GoalActive
            <4>1. AskToCancel /\ UNCHANGED <<manualMode, action, slipped>>
                BY <1>3, <3>3 DEF TakeOver
            <4> QED  BY <3>1, <3>2, <4>1, <3>3, AskTypes DEF GoalsTypeOK
        <3>4. CASE ~GoalActive
            BY <1>3, <3>1, <3>2, <3>4 DEF TakeOver, GoalsTypeOK
        <3> QED  BY <3>3, <3>4
    <2>2. NewestGoal'
        BY <1>3 DEF TakeOver, AskToCancel, NewestGoal, GoalsTypeOK, Phases
    <2>3. OtherGoals'
        BY <1>3 DEF TakeOver, AskToCancel, OtherGoals, GoalsTypeOK
    <2>4. ASSUME GoalActive PROVE TakenOver'
        <3>1. goal.handle => goal.epoch \in cancelled'
            BY <1>3, <2>4 DEF TakeOver, AskToCancel, TakenOver, GoalsTypeOK
        <3>2. goal'.handle = goal.handle /\ goal'.epoch = goal.epoch /\ cancelled \subseteq cancelled'
            BY <1>3, <2>4 DEF TakeOver, AskToCancel, GoalsTypeOK
        <3>3. \A e \in Epochs : action[e] = "executing" => e \in cancelled'
            BY <3>1 DEF OtherGoals
        <3>4. UNCHANGED <<action, slipped>>
            BY <1>3 DEF TakeOver
        <3> QED  BY <3>1, <3>2, <3>3, <3>4 DEF TakenOver
    <2>5. ASSUME ~GoalActive PROVE TakenOver'
        <3>1. \A e \in Epochs : action[e] # "executing"
            BY <2>5 DEF OtherGoals
        <3>2. UNCHANGED <<goal, action, cancelled, slipped>>
            BY <1>3, <2>5 DEF TakeOver
        <3> QED  BY <2>5, <3>1, <3>2 DEF TakenOver
    <2> QED  BY <2>1, <2>2, <2>3, <2>4, <2>5
<1>4. CASE EnableManual
    <2>1. GoalsTypeOK'
        BY <1>4 DEF EnableManual, GoalsTypeOK, Phases
    <2>2. NewestGoal'
        BY <1>4 DEF EnableManual, NewestGoal, GoalsTypeOK, Phases
    <2>3. OtherGoals' /\ TakenOver'
        BY <1>4 DEF EnableManual, OtherGoals, TakenOver, GoalsTypeOK, Phases
    <2> QED  BY <2>1, <2>2, <2>3
<1>5. CASE DisableManual
    <2>1. GoalsTypeOK' /\ NewestGoal'
        BY <1>5 DEF DisableManual, NewestGoal, GoalsTypeOK
    <2>2. OtherGoals' /\ TakenOver'
        BY <1>5 DEF DisableManual, OtherGoals, TakenOver, GoalsTypeOK
    <2> QED  BY <2>1, <2>2
<1> QED  BY <1>1, <1>2, <1>3, <1>4, <1>5

LEMMA GoalsInvStep == GoalsInv /\ [GoalsNext]_goalVars => GoalsInv'
<1> SUFFICES ASSUME GoalsInv, [GoalsNext]_goalVars PROVE GoalsInv'
    OBVIOUS
<1>1. CASE GoalsNext
    BY <1>1, GoalsCallers, GoalsNavigation, GoalsStops DEF GoalsNext
<1>2. CASE UNCHANGED goalVars
    BY <1>2 DEF goalVars, GoalsInv, GoalsTypeOK, NewestGoal, OtherGoals, TakenOver, GoalActive,
                Resetting, AtNav2
<1> QED  BY <1>1, <1>2

LEMMA GoalsInvTrue == GoalsInv => GoalsSafe
<1> SUFFICES ASSUME GoalsInv PROVE GoalsSafe
    OBVIOUS
<1>1. OneGoalAtATime
    BY DEF GoalsInv, OtherGoals, OneGoalAtATime
<1>2. TerminalTellsTheTruth
    BY DEF GoalsInv, GoalsTypeOK, NewestGoal, OtherGoals, TerminalTellsTheTruth, AtNav2,
           GoalActive, Resetting
<1>3. TakeoverReachesGoal
    BY DEF GoalsInv, TakenOver, TakeoverReachesGoal
<1> QED  BY <1>1, <1>2, <1>3 DEF GoalsSafe

(* GoalsSafe for every number of goals and takeovers, however the service, *)
(* RViz, the answers of Nav2 and the takeovers interleave                  *)
(* (_request_map_goals, _on_goal_response, _on_set_manual_mode).           *)
THEOREM NavGoalsSafe == GoalsSpec => []GoalsSafe
BY GoalsInvInit, GoalsInvStep, GoalsInvTrue, PTL DEF GoalsSpec

-----------------------------------------------------------------------------
(* NavigationProfile, for any components, profiles, threads and requests,  *)
(* and all that a call may come to, if no thread is preempted inside       *)
(* begin.  One thread at a time works on the transaction, and what is left *)
(* of its loop is what the transaction has pending.  A component whose     *)
(* answers can be trusted runs with the target once it is applied, with    *)
(* the active profile before that and after it was rolled back.            *)

Works(t) == thread[t].pc \in {"apply", "confirm", "rollback", "confirm_rollback"}

OneWorks ==
    /\ \A t \in Threads : thread[t].pc # "raised"
    /\ \A t, u \in Threads : Works(t) /\ Works(u) => t = u
    /\ Busy => \E t \in Threads : Works(t)
    /\ \A t \in Threads : thread[t].pc = "assign" => ~Busy /\ thread[t].target \in Profiles
    /\ \A t, u \in Threads : thread[t].pc = "assign" /\ thread[u].pc = "assign" => t = u

Trusted(c) == c \in Components \ (doubtful \union reported)

(* The component that a thread has just set successfully.                  *)
JustSet(t, c) == thread[t].pc \in {"confirm", "confirm_rollback"} /\ thread[t].ok /\ c = Head(thread[t].list)

Applying(t) ==
    /\ txn.state = "APPLYING" /\ txn.active = txn.previous
    /\ txn.pending = thread[t].list /\ thread[t].list # <<>>
    /\ txn.target = thread[t].target
    /\ Components = ToSet(txn.applied) \union ToSet(thread[t].list)
    /\ \A c \in Components : c \in ToSet(txn.applied) \/ JustSet(t, c) =>
                                value[c] = txn.target \/ c \in doubtful
    /\ \A c \in Components : Trusted(c) =>
          value[c] = txn.active \/ c \in ToSet(txn.applied) \/ JustSet(t, c)

RollingBack(t) ==
    /\ txn.state = "ROLLING_BACK" /\ txn.active = txn.previous
    /\ txn.pending = thread[t].list /\ thread[t].list # <<>>
    /\ \A c \in Components : JustSet(t, c) => value[c] = txn.active \/ c \in doubtful
    /\ \A c \in Components : Trusted(c) => value[c] = txn.active \/ c \in ToSet(thread[t].list)

LateOnesAreDoubtful == \A f \in flight : f.comp \in doubtful

ProfileInv ==
    /\ TypeOK
    /\ OneWorks
    /\ \A t \in Threads : thread[t].pc \in {"apply", "confirm"} => Applying(t)
    /\ \A t \in Threads : thread[t].pc \in {"rollback", "confirm_rollback"} => RollingBack(t)
    /\ ~Busy => \A c \in Components : Trusted(c) => value[c] = txn.active
    /\ LateOnesAreDoubtful

-----------------------------------------------------------------------------
(* The sequences of components.                                            *)

LEMMA HeadRemoved ==
    ASSUME NEW S, NEW s \in Seq(S), s # <<>>
    PROVE  /\ Contains(s, Head(s)) /\ RemoveFirst(s, Head(s)) = Tail(s)
           /\ Head(s) \in S /\ Tail(s) \in Seq(S)
           /\ ToSet(s) = {Head(s)} \union ToSet(Tail(s))
           /\ Len(s) > 1 <=> Tail(s) # <<>>
<1>1. /\ Len(s) \in Nat \ {0} /\ Head(s) = s[1] /\ Head(s) \in S /\ Tail(s) \in Seq(S)
      /\ Len(Tail(s)) = Len(s) - 1
      /\ \A i \in 1 .. Len(Tail(s)) : Tail(s)[i] = s[i + 1]
    BY EmptySeq, HeadTailProperties
<1>2. Contains(s, Head(s))
    BY <1>1 DEF Contains
<1>3. RemoveFirst(s, Head(s)) = Tail(s)
    <2> DEFINE I == {i \in 1 .. Len(s) : s[i] = Head(s)}
    <2>1. 1 \in I /\ I \subseteq Nat /\ \A i \in I : 1 <= i
        BY <1>1
    <2>2. Min(I) = 1
        <3>1. \A x \in I : (\A y \in I : x <= y) <=> x = 1
            BY <2>1
        <3> HIDE DEF I
        <3> QED  BY <2>1, <3>1 DEF Min
    <2>3. I # {} /\ 1 - 1 = 0 /\ 1 + 1 = 2
        BY <2>1
    <2>4. RemoveFirst(s, Head(s)) = SubSeq(s, 1, 0) \o SubSeq(s, 2, Len(s))
        <3>1. RemoveFirst(s, Head(s)) = RemoveAt(s, IF I # {} THEN Min(I) ELSE 0)
            BY <1>2 DEF RemoveFirst, SelectInSeq, Contains
        <3> HIDE DEF I
        <3> QED  BY <2>2, <2>3, <3>1 DEF RemoveAt
    <2>5. SubSeq(s, 1, 0) = <<>> /\ SubSeq(s, 2, Len(s)) = Tail(s)
        BY SubSeqEmpty, TailIsSubSeq
    <2> QED  BY <1>1, <2>4, <2>5, ConcatEmptySeq
<1>4. ToSet(s) = {Head(s)} \union ToSet(Tail(s))
    <2>1. DOMAIN s = 1 .. Len(s) /\ DOMAIN Tail(s) = 1 .. Len(s) - 1
        BY <1>1, LenProperties
    <2>2. ASSUME NEW i \in 1 .. Len(s)  PROVE s[i] \in {Head(s)} \union ToSet(Tail(s))
        <3>1. CASE i = 1
            BY <1>1, <3>1
        <3>2. CASE i # 1
            <4>1. i - 1 \in 1 .. Len(s) - 1 /\ (i - 1) + 1 = i
                BY <1>1, <3>2
            <4>2. Tail(s)[i - 1] = s[i]
                BY <1>1, <4>1
            <4> QED  BY <2>1, <4>1, <4>2 DEF ToSet
        <3> QED  BY <3>1, <3>2
    <2>3. ASSUME NEW i \in 1 .. Len(s) - 1  PROVE Tail(s)[i] \in ToSet(s)
        <3>1. i + 1 \in 1 .. Len(s)
            BY <1>1
        <3> QED  BY <1>1, <2>1, <3>1 DEF ToSet
    <2>4. Head(s) \in ToSet(s)
        BY <1>1, <2>1 DEF ToSet
    <2> QED  BY <2>1, <2>2, <2>3, <2>4 DEF ToSet
<1>5. Len(s) > 1 <=> Tail(s) # <<>>
    <2>1. Tail(s) # <<>> => Len(Tail(s)) \in Nat \ {0}
        BY <1>1, EmptySeq
    <2>2. Tail(s) = <<>> => Len(Tail(s)) = 0
        BY EmptySeq
    <2>3. CASE Tail(s) = <<>>
        BY <1>1, <2>2, <2>3
    <2>4. CASE Tail(s) # <<>>
        BY <1>1, <2>1, <2>4
    <2> QED  BY <2>3, <2>4
<1> QED  BY <1>1, <1>2, <1>3, <1>4, <1>5

LEMMA AppendedSet ==
    ASSUME NEW S, NEW s \in Seq(S), NEW e \in S
    PROVE  Append(s, e) \in Seq(S) /\ ToSet(Append(s, e)) = ToSet(s) \union {e}
<1> DEFINE a == Append(s, e)
<1>1. /\ a \in Seq(S) /\ Len(a) = Len(s) + 1 /\ Len(s) \in Nat
      /\ DOMAIN a = 1 .. Len(s) + 1 /\ DOMAIN s = 1 .. Len(s)
      /\ a[Len(s) + 1] = e /\ \A i \in 1 .. Len(s) : a[i] = s[i]
    BY AppendProperties, LenProperties
<1> HIDE DEF a
<1>2. \A i \in 1 .. Len(s) + 1 : i \in 1 .. Len(s) \/ i = Len(s) + 1
    BY <1>1
<1>3. Len(s) + 1 \in 1 .. Len(s) + 1 /\ 1 .. Len(s) \subseteq 1 .. Len(s) + 1
    BY <1>1
<1>4. ToSet(a) = ToSet(s) \union {e}
    BY <1>1, <1>2, <1>3, Zenon DEF ToSet
<1> QED  BY <1>1, <1>4 DEF a

LEMMA ReversedSet ==
    ASSUME NEW S, NEW s \in Seq(S)
    PROVE  /\ Reverse(s) \in Seq(S) /\ ToSet(Reverse(s)) = ToSet(s)
           /\ Reverse(s) = <<>> <=> s = <<>>
<1> DEFINE r == Reverse(s)
<1>1. /\ Len(s) \in Nat /\ DOMAIN s = 1 .. Len(s) /\ \A i \in 1 .. Len(s) : s[i] \in S
    BY LenProperties, ElementOfSeq
<1>2. \A i \in 1 .. Len(s) : (Len(s) - i) + 1 \in 1 .. Len(s) /\ Len(s) - ((Len(s) - i) + 1) + 1 = i
    BY <1>1
<1>3. /\ r \in Seq(S) /\ Len(r) = Len(s) /\ DOMAIN r = 1 .. Len(s)
      /\ \A i \in 1 .. Len(s) : r[i] = s[(Len(s) - i) + 1]
    <2>1. r = [i \in 1 .. Len(s) |-> s[(Len(s) - i) + 1]]
        BY DEF Reverse
    <2>2. r \in [1 .. Len(s) -> S]
        BY <1>1, <1>2, <2>1
    <2> QED  BY <1>1, <2>1, <2>2
<1> HIDE DEF r
<1>4. ToSet(r) \subseteq ToSet(s)
    BY <1>1, <1>2, <1>3 DEF ToSet
<1>5. \A i \in 1 .. Len(s) : r[(Len(s) - i) + 1] = s[i]
    <2> SUFFICES ASSUME NEW i \in 1 .. Len(s)  PROVE r[(Len(s) - i) + 1] = s[i]
        OBVIOUS
    <2>1. r[(Len(s) - i) + 1] = s[Len(s) - ((Len(s) - i) + 1) + 1]
        BY <1>2, <1>3
    <2> QED  BY <1>2, <2>1
<1>6. ToSet(s) \subseteq ToSet(r)
    BY <1>1, <1>2, <1>3, <1>5 DEF ToSet
<1>7. r = <<>> <=> s = <<>>
    <2>1. Len(<<>>) = 0 /\ (r # <<>> => Len(r) # 0) /\ (s # <<>> => Len(s) # 0)
        BY <1>3, EmptySeq
    <2> QED  BY <1>3, <2>1
<1> QED  BY <1>3, <1>4, <1>6, <1>7 DEF r

-----------------------------------------------------------------------------
(* The steps.                                                              *)

Txn == [state : States, active : Profiles, previous : Profiles,
        target : Profiles, pending : Seq(Components), applied : Seq(Components)]
Thread == [pc : Points, target : Profiles \union {"unknown"}, list : Seq(Components), ok : BOOLEAN]

LEMMA ProfileConstants ==
    /\ StartProfile \in Profiles
    /\ Order \in Seq(Components) /\ Order # <<>>
    /\ Idle \in Thread
<1>1. Order \in Seq(STRING) /\ Order # <<>> /\ StartProfile \in Profiles
    BY ProfileAssumption
<1>2. /\ Len(Order) \in Nat /\ DOMAIN Order = 1 .. Len(Order)
      /\ Order = [i \in 1 .. Len(Order) |-> Order[i]]
    BY <1>1, LenProperties
<1>3. \A i \in 1 .. Len(Order) : Order[i] \in Components
    BY <1>2 DEF Components, ToSet
<1>4. Order \in Seq(Components)
    BY <1>2, <1>3
<1>5. Idle \in Thread
    BY <1>1, EmptySeq DEF Idle, Thread, Points
<1> QED  BY <1>1, <1>4, <1>5

(* What a SetParameters call does to its component, and to no other.       *)
LEMMA ComponentSet ==
    ASSUME TypeOK, LateOnesAreDoubtful, NEW c \in Components, NEW p \in Profiles, NEW o,
           SetComponent(c, p, o)
    PROVE  /\ value' \in [Components -> Profiles \union {"mixed"}]
           /\ flight' \subseteq [comp : Components, profile : Profiles]
           /\ doubtful' \subseteq Components
           /\ LateOnesAreDoubtful'
           /\ \A d \in Components : d # c => value'[d] = value[d] /\ (d \in doubtful' <=> d \in doubtful)
           /\ o = "ok" => value'[c] = p
           /\ o # "ok" => c \in doubtful' \/ (value'[c] = value[c] /\ c \notin doubtful)
<1>1. /\ value \in [Components -> Profiles \union {"mixed"}]
      /\ flight \subseteq [comp : Components, profile : Profiles]
      /\ doubtful \subseteq Components
    BY DEF TypeOK
<1> DEFINE v == CASE o \in {"ok", "lost"} -> p
                  [] o = "partly" -> "mixed"
                  [] OTHER -> value[c]
<1>2. /\ v \in Profiles \union {"mixed"} /\ (o = "ok" => v = p)
      /\ o \notin {"ok", "lost", "partly"} => v = value[c]
    BY <1>1
<1>3. value' = [value EXCEPT ![c] = v]
    BY DEF SetComponent
<1> HIDE DEF v
<1>4. /\ value' \in [Components -> Profiles \union {"mixed"}] /\ value'[c] = v
      /\ \A d \in Components : d # c => value'[d] = value[d]
    BY <1>1, <1>2, <1>3
<1>5. CASE o = "late"
    <2>1. flight' = flight \union {[comp |-> c, profile |-> p]} /\ doubtful' = doubtful \union {c}
        BY <1>5 DEF SetComponent
    <2> QED  BY <1>1, <1>4, <1>5, <2>1 DEF LateOnesAreDoubtful
<1>6. CASE o # "late"
    <2>1. flight' = flight
        BY <1>6 DEF SetComponent
    <2>2. CASE o \in {"partly", "lost"}
        <3>1. doubtful' = doubtful \union {c}
            BY <2>2 DEF SetComponent
        <3> QED  BY <1>1, <1>4, <2>1, <2>2, <3>1 DEF LateOnesAreDoubtful
    <2>3. CASE o = "ok" /\ \A f \in flight : f.comp # c
        <3>1. doubtful' = doubtful \ {c}
            BY <2>3 DEF SetComponent
        <3> QED  BY <1>1, <1>2, <1>4, <2>1, <2>3, <3>1 DEF LateOnesAreDoubtful
    <2>4. CASE o \notin {"partly", "lost"} /\ ~(o = "ok" /\ \A f \in flight : f.comp # c)
        <3>1. doubtful' = doubtful
            BY <1>6, <2>4 DEF SetComponent
        <3> QED  BY <1>1, <1>2, <1>4, <2>1, <2>4, <3>1 DEF LateOnesAreDoubtful
    <2> QED  BY <2>2, <2>3, <2>4
<1> QED  BY <1>5, <1>6

(* A thread that works has the transaction to itself.                      *)
LEMMA WorkerAlone ==
    ASSUME ProfileInv, NEW t \in Threads, Works(t)
    PROVE  /\ \A u \in Threads \ {t} : ~Works(u) /\ thread[u].pc \in {"idle", "test"}
           /\ Busy
<1>1. Busy
    BY DEF ProfileInv, Works, Applying, RollingBack, Busy
<1>2. \A u \in Threads \ {t} : ~Works(u) /\ thread[u].pc # "assign" /\ thread[u].pc # "raised"
    BY <1>1 DEF ProfileInv, OneWorks
<1>3. \A u \in Threads : thread[u].pc \in Points
    BY DEF ProfileInv, TypeOK
<1> QED  BY <1>1, <1>2, <1>3 DEF Points, Works

(* Steps before the transaction.                                           *)
LEMMA RequestKeeps ==
    ASSUME ProfileInv, ~Switches, NEW t \in Threads,
           \/ \E p \in Profiles \union {"unknown"} : Request(t, p)
           \/ BeginTest(t)
    PROVE  ProfileInv'
<1>1. /\ thread \in [Threads -> Thread] /\ nApplies \in 0 .. MaxApplies /\ MaxApplies \in Nat
      /\ thread[t] \in Thread
    BY ProfileAssumption DEF ProfileInv, TypeOK, Thread
<1>2. /\ txn' = txn /\ value' = value /\ flight' = flight /\ doubtful' = doubtful
      /\ reported' = reported /\ ~Works(t)
      /\ \A u \in Threads \ {t} : thread[u].pc # "assign"
    BY DEF Request, BeginTest, Refuse, MayRun, Works
<1>3. /\ nApplies' \in 0 .. MaxApplies /\ thread' \in [Threads -> Thread]
      /\ \A u \in Threads \ {t} : thread'[u] = thread[u]
      /\ thread'[t].pc \in {"idle", "test", "assign"}
      /\ thread'[t].pc = "assign" => ~Busy /\ thread'[t].target \in Profiles
    <2>1. CASE \E p \in Profiles \union {"unknown"} : Request(t, p)
        <3>1. PICK p \in Profiles \union {"unknown"} : Request(t, p)
            BY <2>1
        <3>2. thread' = [thread EXCEPT ![t].pc = "test", ![t].target = p]
            BY <3>1 DEF Request
        <3>3. nApplies < MaxApplies /\ nApplies' = nApplies + 1
            BY <3>1 DEF Request
        <3>4. nApplies' \in 0 .. MaxApplies
            BY <1>1, <3>3
        <3> QED  BY <1>1, <3>2, <3>4 DEF Thread, Points
    <2>2. CASE BeginTest(t)
        <3>1. CASE thread[t].target \notin Profiles \/ Busy
            <4>1. thread' = [thread EXCEPT ![t] = Idle] /\ nApplies' = nApplies
                BY <2>2, <3>1 DEF BeginTest, Refuse
            <4>2. Idle \in Thread /\ Idle.pc = "idle"
                BY ProfileConstants DEF Idle
            <4> QED  BY <1>1, <4>1, <4>2
        <3>2. CASE ~(thread[t].target \notin Profiles \/ Busy)
            <4>1. thread' = [thread EXCEPT ![t].pc = "assign"] /\ nApplies' = nApplies
                BY <2>2, <3>2 DEF BeginTest, Refuse
            <4> QED  BY <1>1, <3>2, <4>1 DEF Thread, Points
        <3> QED  BY <3>1, <3>2
    <2> QED  BY <2>1, <2>2
<1>6. TypeOK'
    BY <1>1, <1>2, <1>3 DEF ProfileInv, TypeOK, Thread
<1>7. Busy' <=> Busy
    BY <1>2 DEF Busy
<1>8. \A u \in Threads : Works(u)' <=> Works(u) /\ u # t
    BY <1>2, <1>3 DEF Works
<1>9. OneWorks'
    BY <1>2, <1>3, <1>7, <1>8 DEF ProfileInv, OneWorks
<1>10. /\ \A u \in Threads : thread'[u].pc \in {"apply", "confirm"} => Applying(u)'
       /\ \A u \in Threads : thread'[u].pc \in {"rollback", "confirm_rollback"} => RollingBack(u)'
    <2> SUFFICES ASSUME NEW u \in Threads, Works(u)'
                 PROVE  /\ thread'[u].pc \in {"apply", "confirm"} => Applying(u)'
                        /\ thread'[u].pc \in {"rollback", "confirm_rollback"} => RollingBack(u)'
        BY DEF Works
    <2>1. thread'[u] = thread[u]
        BY <1>3, <1>8
    <2>2. \A c : (Trusted(c)' <=> Trusted(c)) /\ (JustSet(u, c)' <=> JustSet(u, c))
        BY <1>2, <2>1 DEF Trusted, JustSet
    <2>3. Applying(u) => Applying(u)'
        BY <1>2, <2>1, <2>2 DEF Applying
    <2>4. RollingBack(u) => RollingBack(u)'
        BY <1>2, <2>1, <2>2 DEF RollingBack
    <2> QED  BY <2>1, <2>3, <2>4 DEF ProfileInv
<1>11. /\ ~Busy' => \A c \in Components : Trusted(c)' => value'[c] = txn'.active
       /\ LateOnesAreDoubtful'
    BY <1>2, <1>7 DEF ProfileInv, Trusted, LateOnesAreDoubtful
<1> QED  BY <1>6, <1>9, <1>10, <1>11 DEF ProfileInv

(* The assignments of begin.                                               *)
LEMMA BeginKeeps ==
    ASSUME ProfileInv, NEW t \in Threads, BeginAssign(t)
    PROVE  ProfileInv'
<1>1. /\ thread \in [Threads -> Thread] /\ thread[t] \in Thread /\ thread[t].pc = "assign"
      /\ thread[t].target \in Profiles /\ ~Busy /\ txn \in Txn
    BY DEF ProfileInv, TypeOK, OneWorks, BeginAssign, Thread, Txn
<1>2. /\ value' = value /\ flight' = flight /\ doubtful' = doubtful /\ reported' = reported
      /\ nApplies' = nApplies
    BY DEF BeginAssign
<1>3. /\ txn' \in Txn /\ txn'.previous = txn.active /\ txn'.active = txn.active
      /\ txn'.target = thread[t].target
      /\ txn'.pending = Order /\ txn'.applied = <<>> /\ txn'.state = "APPLYING"
    <2>1. txn' = [txn EXCEPT !.previous = txn.active, !.target = thread[t].target, !.pending = Order,
                             !.applied = <<>>, !.state = "APPLYING"]
        BY DEF BeginAssign, Begin
    <2>2. <<>> \in Seq(Components) /\ Order \in Seq(Components) /\ "APPLYING" \in States
        BY EmptySeq, ProfileConstants DEF States
    <2> QED  BY <1>1, <2>1, <2>2 DEF Txn
<1>4. /\ thread' \in [Threads -> Thread]
      /\ \A u \in Threads \ {t} : thread'[u] = thread[u]
      /\ thread'[t].pc = "apply" /\ thread'[t].list = Order /\ thread'[t].target = thread[t].target
    <2>1. thread' = [thread EXCEPT ![t].pc = "apply", ![t].list = Order]
        BY DEF BeginAssign
    <2> QED  BY <1>1, <2>1, ProfileConstants DEF Thread, Points
<1>5. \A u \in Threads : ~Works(u) /\ (thread[u].pc = "assign" => u = t)
    <2>1. \A u \in Threads : thread[u].pc \in {"apply", "confirm"} => Applying(u)
        BY DEF ProfileInv
    <2>2. \A u \in Threads : thread[u].pc \in {"rollback", "confirm_rollback"} => RollingBack(u)
        BY DEF ProfileInv
    <2> QED  BY <1>1, <2>1, <2>2 DEF ProfileInv, OneWorks, Works, Applying, RollingBack, Busy
<1>6. TypeOK'
    BY <1>2, <1>3, <1>4 DEF ProfileInv, TypeOK, Thread, Txn
<1>7. Busy' /\ Works(t)' /\ \A u \in Threads \ {t} : ~Works(u)' /\ thread'[u].pc # "assign"
    BY <1>3, <1>4, <1>5 DEF Busy, Works
<1>8. OneWorks'
    BY <1>1, <1>4, <1>7 DEF ProfileInv, OneWorks
<1>9. Applying(t)'
    <2>1. ToSet(txn'.applied) = {} /\ ToSet(Order) = Components
        BY <1>3 DEF ToSet, Components
    <2>2. \A c : ~JustSet(t, c)'
        BY <1>4 DEF JustSet
    <2>3. \A c \in Components : Trusted(c)' => value'[c] = txn'.active
        BY <1>1, <1>2, <1>3 DEF ProfileInv, Trusted
    <2> QED  BY <1>3, <1>4, <2>1, <2>2, <2>3, ProfileConstants DEF Applying
<1>10. /\ \A u \in Threads : thread'[u].pc \in {"apply", "confirm"} => Applying(u)'
       /\ \A u \in Threads : thread'[u].pc \in {"rollback", "confirm_rollback"} => RollingBack(u)'
    BY <1>4, <1>7, <1>9 DEF Works
<1>11. LateOnesAreDoubtful'
    BY <1>2 DEF ProfileInv, LateOnesAreDoubtful
<1> QED  BY <1>6, <1>7, <1>8, <1>10, <1>11 DEF ProfileInv

(* A thread that works, before and after its step: the rest follows.       *)
LEMMA WorkerKeeps ==
    ASSUME ProfileInv, NEW t \in Threads, Works(t), TypeOK', LateOnesAreDoubtful',
           \A u \in Threads \ {t} : thread'[u] = thread[u],
           \/ thread'[t].pc \in {"apply", "confirm"} /\ Applying(t)'
           \/ thread'[t].pc \in {"rollback", "confirm_rollback"} /\ RollingBack(t)'
           \/ /\ thread'[t].pc = "idle" /\ ~Busy'
              /\ \A c \in Components : Trusted(c)' => value'[c] = txn'.active
    PROVE  ProfileInv'
<1>1. \A u \in Threads \ {t} : ~Works(u)' /\ thread'[u].pc \in {"idle", "test"}
    BY WorkerAlone DEF Works
<1>2. Busy' => Works(t)'
    BY DEF Works, Busy
<1>3. OneWorks'
    BY <1>1, <1>2 DEF OneWorks, Works
<1>4. /\ \A u \in Threads : thread'[u].pc \in {"apply", "confirm"} => Applying(u)'
      /\ \A u \in Threads : thread'[u].pc \in {"rollback", "confirm_rollback"} => RollingBack(u)'
    BY <1>1
<1>5. ~Busy' => \A c \in Components : Trusted(c)' => value'[c] = txn'.active
    BY DEF Applying, RollingBack, Busy
<1> QED  BY <1>3, <1>4, <1>5 DEF ProfileInv

(* A call to a component, on the way forward.                              *)
LEMMA ApplyKeeps ==
    ASSUME ProfileInv, NEW t \in Threads, NEW o \in Outcomes, Apply(t, o)
    PROVE  ProfileInv'
<1> DEFINE c == Head(thread[t].list)
<1>1. /\ thread \in [Threads -> Thread] /\ thread[t] \in Thread /\ thread[t].pc = "apply"
      /\ txn \in Txn /\ reported \subseteq Components /\ Applying(t) /\ Works(t)
    BY DEF ProfileInv, TypeOK, Apply, Thread, Txn, Works
<1>2. c \in Components /\ thread[t].target \in Profiles
    BY <1>1, HeadRemoved DEF Applying, Thread, Txn
<1>3. /\ SetComponent(c, thread[t].target, o)
      /\ thread' = [thread EXCEPT ![t].pc = "confirm", ![t].ok = o = "ok"]
      /\ reported' = IF o = "ok" THEN reported \ {c} ELSE reported
      /\ txn' = txn /\ nApplies' = nApplies
    BY DEF Apply
<1>4. /\ thread' \in [Threads -> Thread]
      /\ \A u \in Threads \ {t} : thread'[u] = thread[u]
      /\ thread'[t].pc = "confirm" /\ thread'[t].ok = (o = "ok")
      /\ thread'[t].list = thread[t].list /\ thread'[t].target = thread[t].target
    BY <1>1, <1>3 DEF Thread, Points
<1> HIDE DEF c
<1>5. /\ value' \in [Components -> Profiles \union {"mixed"}]
      /\ flight' \subseteq [comp : Components, profile : Profiles]
      /\ doubtful' \subseteq Components
      /\ LateOnesAreDoubtful'
      /\ \A d \in Components : d # c => value'[d] = value[d] /\ (d \in doubtful' <=> d \in doubtful)
      /\ o = "ok" => value'[c] = thread[t].target
      /\ o # "ok" => c \in doubtful' \/ (value'[c] = value[c] /\ c \notin doubtful)
    BY <1>2, <1>3, ComponentSet DEF ProfileInv
<1>6. TypeOK'
    BY <1>1, <1>3, <1>4, <1>5 DEF ProfileInv, TypeOK, Thread
<1>7. \A d : JustSet(t, d)' <=> o = "ok" /\ d = c
    BY <1>4 DEF JustSet, c
<1>8. \A d : ~JustSet(t, d)
    BY <1>1 DEF JustSet
<1>9. \A d \in Components : d \in ToSet(txn'.applied) \/ JustSet(t, d)' =>
                                value'[d] = txn'.target \/ d \in doubtful'
    <2> SUFFICES ASSUME NEW d \in Components, d \in ToSet(txn'.applied) \/ JustSet(t, d)', d \notin doubtful'
                 PROVE  value'[d] = txn'.target
        OBVIOUS
    <2>1. CASE d # c
        <3>1. d \in ToSet(txn.applied) /\ d \notin doubtful
            BY <1>3, <1>5, <1>7, <2>1
        <3> QED  BY <1>1, <1>3, <1>5, <2>1, <3>1 DEF Applying
    <2>2. CASE d = c /\ o = "ok"
        BY <1>1, <1>3, <1>5, <2>2 DEF Applying
    <2>3. CASE d = c /\ o # "ok"
        <3>1. d \in ToSet(txn.applied) /\ d \notin doubtful /\ value'[d] = value[d]
            BY <1>3, <1>5, <1>7, <2>3
        <3> QED  BY <1>1, <1>3, <3>1 DEF Applying
    <2> QED  BY <2>1, <2>2, <2>3
<1>10. \A d \in Components : Trusted(d)' =>
          value'[d] = txn'.active \/ d \in ToSet(txn'.applied) \/ JustSet(t, d)'
    <2> SUFFICES ASSUME NEW d \in Components, Trusted(d)', d \notin ToSet(txn'.applied), ~JustSet(t, d)'
                 PROVE  value'[d] = txn'.active
        OBVIOUS
    <2>1. d \notin doubtful' /\ d \notin reported'
        BY DEF Trusted
    <2>2. ~(d = c /\ o = "ok")
        BY <1>7
    <2>3. Trusted(d) /\ value'[d] = value[d]
        BY <1>3, <1>5, <2>1, <2>2 DEF Trusted
    <2> QED  BY <1>1, <1>3, <1>8, <2>3 DEF Applying
<1>11. Applying(t)'
    BY <1>1, <1>3, <1>4, <1>9, <1>10 DEF Applying
<1> QED  BY <1>1, <1>4, <1>5, <1>6, <1>11, WorkerKeeps

(* Its confirmation: on to the next component, to the end or to the        *)
(* rollback.                                                               *)
LEMMA ConfirmAppliedKeeps ==
    ASSUME ProfileInv, NEW t \in Threads, ConfirmApplied(t)
    PROVE  ProfileInv' /\ CommitStep
<1> DEFINE c == Head(thread[t].list)
           rest == Tail(thread[t].list)
<1>1. /\ thread \in [Threads -> Thread] /\ thread[t] \in Thread /\ thread[t].pc = "confirm"
      /\ txn \in Txn /\ Applying(t) /\ Works(t)
    BY DEF ProfileInv, TypeOK, ConfirmApplied, Thread, Txn, Works
<1>2. /\ value' = value /\ flight' = flight /\ nApplies' = nApplies /\ reported' = reported
      /\ doubtful' = doubtful
    BY DEF ConfirmApplied
<1>3. /\ Contains(txn.pending, c) /\ RemoveFirst(txn.pending, c) = rest
      /\ c \in Components /\ rest \in Seq(Components)
      /\ ToSet(thread[t].list) = {c} \union ToSet(rest)
      /\ Len(thread[t].list) > 1 <=> rest # <<>>
    BY <1>1, HeadRemoved DEF Applying, Thread
<1>4. Expected(txn, "APPLYING", c)
    BY <1>1, <1>3 DEF Applying, Expected
<1>5. txn' = Confirm(txn, c, thread[t].ok)
    BY <1>4 DEF ConfirmApplied
<1>6. thread' = IF thread[t].ok /\ Len(thread[t].list) > 1
                THEN [thread EXCEPT ![t].pc = "apply", ![t].list = Tail(@)]
                ELSE AfterLoop(t, txn')
    BY <1>4, <1>5 DEF ConfirmApplied
<1>7. \A d : JustSet(t, d) <=> thread[t].ok /\ d = c
    BY <1>1 DEF JustSet
<1>8. LateOnesAreDoubtful' /\ \A d : Trusted(d)' <=> Trusted(d)
    BY <1>2 DEF ProfileInv, LateOnesAreDoubtful, Trusted
<1>9. thread[t].ok \in BOOLEAN /\ txn.applied \in Seq(Components)
    BY <1>1 DEF Thread, Txn
<1> HIDE DEF c, rest
<1>10. CASE thread[t].ok /\ rest # <<>>
    <2>1. txn' = [txn EXCEPT !.pending = rest, !.applied = Append(txn.applied, c),
                             !.active = txn.active, !.state = txn.state]
        BY <1>3, <1>5, <1>10 DEF Confirm
    <2>2. /\ Append(txn.applied, c) \in Seq(Components)
          /\ ToSet(Append(txn.applied, c)) = ToSet(txn.applied) \union {c}
        BY <1>3, <1>9, AppendedSet
    <2>3. /\ txn' \in Txn /\ txn'.pending = rest /\ txn'.state = txn.state
          /\ txn'.active = txn.active /\ txn'.previous = txn.previous /\ txn'.target = txn.target
          /\ ToSet(txn'.applied) = ToSet(txn.applied) \union {c}
        <3> DEFINE a == Append(txn.applied, c)
        <3> HIDE DEF a
        <3>1. txn' = [txn EXCEPT !.pending = rest, !.applied = a, !.active = txn.active, !.state = txn.state]
            BY <2>1 DEF a
        <3>2. a \in Seq(Components) /\ ToSet(a) = ToSet(txn.applied) \union {c}
            BY <2>2 DEF a
        <3>3. txn' \in Txn /\ txn'.pending = rest /\ txn'.state = txn.state /\ txn'.applied = a
              /\ txn'.active = txn.active /\ txn'.previous = txn.previous /\ txn'.target = txn.target
            BY <1>1, <1>3, <3>1, <3>2 DEF Txn
        <3> QED  BY <3>2, <3>3
    <2>4. thread' = [thread EXCEPT ![t].pc = "apply", ![t].list = rest]
        BY <1>3, <1>6, <1>10 DEF rest
    <2>5. /\ thread' \in [Threads -> Thread]
          /\ \A u \in Threads \ {t} : thread'[u] = thread[u]
          /\ thread'[t].pc = "apply" /\ thread'[t].list = rest /\ thread'[t].target = thread[t].target
        BY <1>1, <1>3, <2>4 DEF Thread, Points
    <2>6. TypeOK'
        BY <1>2, <2>3, <2>5 DEF ProfileInv, TypeOK, Thread, Txn
    <2>7. \A d : ~JustSet(t, d)'
        BY <2>5 DEF JustSet
    <2>8. Components = ToSet(txn'.applied) \union ToSet(thread'[t].list)
        BY <1>1, <1>3, <2>3, <2>5 DEF Applying
    <2>9. \A d \in Components : d \in ToSet(txn'.applied) => value'[d] = txn'.target \/ d \in doubtful'
        BY <1>1, <1>2, <1>7, <1>10, <2>3 DEF Applying
    <2>10. \A d \in Components : Trusted(d)' => value'[d] = txn'.active \/ d \in ToSet(txn'.applied)
        BY <1>1, <1>2, <1>7, <1>8, <2>3 DEF Applying
    <2>11. Applying(t)'
        BY <1>1, <1>10, <2>3, <2>5, <2>7, <2>8, <2>9, <2>10 DEF Applying
    <2>12. ProfileInv'
        BY <1>1, <1>8, <2>5, <2>6, <2>11, WorkerKeeps
    <2> QED  BY <2>3, <2>12 DEF CommitStep
<1>11. CASE thread[t].ok /\ rest = <<>>
    <2> DEFINE a == Append(txn.applied, c)
    <2>1. txn' = [txn EXCEPT !.pending = rest, !.applied = a, !.active = txn.target, !.state = "SUCCEEDED"]
        BY <1>3, <1>5, <1>11 DEF Confirm
    <2>2. a \in Seq(Components)
        BY <1>3, <1>9, AppendedSet
    <2> HIDE DEF a
    <2>3. /\ txn' \in Txn /\ txn'.state = "SUCCEEDED" /\ txn'.active = txn.target
          /\ txn'.target = txn.target
        BY <1>1, <1>3, <2>1, <2>2 DEF Txn, States
    <2>4. thread' = [thread EXCEPT ![t] = Idle]
        BY <1>3, <1>6, <1>11, <2>3 DEF AfterLoop
    <2>5. /\ thread' \in [Threads -> Thread]
          /\ \A u \in Threads \ {t} : thread'[u] = thread[u]
          /\ thread'[t].pc = "idle"
        BY <1>1, <2>4, ProfileConstants DEF Idle
    <2>6. TypeOK'
        BY <1>2, <2>3, <2>5 DEF ProfileInv, TypeOK, Thread, Txn
    <2>7. ToSet(rest) = {}
        BY <1>11 DEF ToSet
    <2>8. \A d \in Components : d \in ToSet(txn.applied) \/ d = c
        BY <1>1, <1>3, <2>7 DEF Applying
    <2>9. \A d \in Components : value'[d] = txn'.active \/ d \in doubtful'
        BY <1>1, <1>2, <1>7, <1>11, <2>3, <2>8 DEF Applying
    <2>10. \A d \in Components : Trusted(d)' => value'[d] = txn'.active
        BY <2>9 DEF Trusted
    <2>11. ~Busy'
        BY <2>3 DEF Busy
    <2>12. ProfileInv'
        BY <1>1, <1>8, <2>5, <2>6, <2>10, <2>11, WorkerKeeps
    <2> QED  BY <2>3, <2>9, <2>12 DEF CommitStep
<1>12. CASE ~thread[t].ok
    <2> DEFINE r == Reverse(txn.applied)
    <2>1. txn' = [txn EXCEPT !.pending = r, !.state = IF txn.applied = <<>> THEN "FAILED" ELSE "ROLLING_BACK"]
        BY <1>5, <1>12 DEF Confirm
    <2>2. r \in Seq(Components) /\ ToSet(r) = ToSet(txn.applied) /\ (r = <<>> <=> txn.applied = <<>>)
        BY <1>9, ReversedSet
    <2> HIDE DEF r
    <2>3. /\ txn' \in Txn /\ txn'.pending = r /\ txn'.active = txn.active
          /\ txn'.previous = txn.previous
          /\ txn'.state = IF txn.applied = <<>> THEN "FAILED" ELSE "ROLLING_BACK"
        BY <1>1, <2>1, <2>2 DEF Txn, States
    <2>4. thread' = AfterLoop(t, txn')
        BY <1>6, <1>12
    <2>5. \A d \in Components : Trusted(d)' => value'[d] = txn'.active \/ d \in ToSet(r)
        BY <1>1, <1>2, <1>7, <1>8, <1>12, <2>2, <2>3 DEF Applying
    <2>6. CASE txn.applied = <<>>
        <3>1. thread' = [thread EXCEPT ![t] = Idle]
            BY <2>3, <2>4, <2>6 DEF AfterLoop
        <3>2. /\ thread' \in [Threads -> Thread]
              /\ \A u \in Threads \ {t} : thread'[u] = thread[u]
              /\ thread'[t].pc = "idle"
            BY <1>1, <3>1, ProfileConstants DEF Idle
        <3>3. TypeOK'
            BY <1>2, <2>3, <3>2 DEF ProfileInv, TypeOK, Thread, Txn
        <3>4. ToSet(r) = {}
            BY <2>2, <2>6 DEF ToSet
        <3>5. \A d \in Components : Trusted(d)' => value'[d] = txn'.active
            BY <2>5, <3>4
        <3>6. ~Busy'
            BY <2>3, <2>6 DEF Busy
        <3>7. ProfileInv'
            BY <1>1, <1>8, <3>2, <3>3, <3>5, <3>6, WorkerKeeps
        <3> QED  BY <2>3, <3>7 DEF CommitStep
    <2>7. CASE txn.applied # <<>>
        <3>1. thread' = [thread EXCEPT ![t].pc = "rollback", ![t].list = r]
            BY <2>2, <2>3, <2>4, <2>7 DEF AfterLoop
        <3>2. /\ thread' \in [Threads -> Thread]
              /\ \A u \in Threads \ {t} : thread'[u] = thread[u]
              /\ thread'[t].pc = "rollback" /\ thread'[t].list = r
            BY <1>1, <2>2, <3>1 DEF Thread, Points
        <3>3. TypeOK'
            BY <1>2, <2>3, <3>2 DEF ProfileInv, TypeOK, Thread, Txn
        <3>4. \A d : ~JustSet(t, d)'
            BY <3>2 DEF JustSet
        <3>5. RollingBack(t)'
            BY <1>1, <2>2, <2>3, <2>5, <2>7, <3>2, <3>4 DEF RollingBack, Applying
        <3>6. ProfileInv'
            BY <1>1, <1>8, <3>2, <3>3, <3>5, WorkerKeeps
        <3> QED  BY <2>3, <3>6 DEF CommitStep
    <2> QED  BY <2>6, <2>7
<1> QED  BY <1>9, <1>10, <1>11, <1>12

(* A call to a component, on the way back.                                 *)
LEMMA RollbackKeeps ==
    ASSUME ProfileInv, NEW t \in Threads, NEW o \in Outcomes, Rollback(t, o)
    PROVE  ProfileInv'
<1> DEFINE c == Head(thread[t].list)
<1>1. /\ thread \in [Threads -> Thread] /\ thread[t] \in Thread /\ thread[t].pc = "rollback"
      /\ txn \in Txn /\ RollingBack(t) /\ Works(t)
    BY DEF ProfileInv, TypeOK, Rollback, Thread, Txn, Works
<1>2. c \in Components /\ txn.previous \in Profiles
    BY <1>1, HeadRemoved DEF RollingBack, Thread, Txn
<1>3. /\ SetComponent(c, txn.previous, o)
      /\ thread' = [thread EXCEPT ![t].pc = "confirm_rollback", ![t].ok = o = "ok"]
      /\ reported' = reported /\ txn' = txn /\ nApplies' = nApplies
    BY DEF Rollback
<1>4. /\ thread' \in [Threads -> Thread]
      /\ \A u \in Threads \ {t} : thread'[u] = thread[u]
      /\ thread'[t].pc = "confirm_rollback" /\ thread'[t].ok = (o = "ok")
      /\ thread'[t].list = thread[t].list
    BY <1>1, <1>3 DEF Thread, Points
<1>5. c \in ToSet(thread[t].list)
    BY <1>1, HeadRemoved DEF RollingBack, Thread
<1> HIDE DEF c
<1>6. /\ value' \in [Components -> Profiles \union {"mixed"}]
      /\ flight' \subseteq [comp : Components, profile : Profiles]
      /\ doubtful' \subseteq Components
      /\ LateOnesAreDoubtful'
      /\ \A d \in Components : d # c => value'[d] = value[d] /\ (d \in doubtful' <=> d \in doubtful)
      /\ o = "ok" => value'[c] = txn.previous
    BY <1>2, <1>3, ComponentSet DEF ProfileInv
<1>7. TypeOK'
    BY <1>1, <1>3, <1>4, <1>6 DEF ProfileInv, TypeOK, Thread
<1>8. \A d : JustSet(t, d)' <=> o = "ok" /\ d = c
    BY <1>4 DEF JustSet, c
<1>9. \A d \in Components : JustSet(t, d)' => value'[d] = txn'.active \/ d \in doubtful'
    BY <1>1, <1>3, <1>6, <1>8 DEF RollingBack
<1>10. \A d \in Components : Trusted(d)' => value'[d] = txn'.active \/ d \in ToSet(thread'[t].list)
    <2> SUFFICES ASSUME NEW d \in Components, Trusted(d)', d \notin ToSet(thread'[t].list)
                 PROVE  value'[d] = txn'.active
        OBVIOUS
    <2>1. d # c /\ d \notin ToSet(thread[t].list)
        BY <1>4, <1>5
    <2>2. Trusted(d) /\ value'[d] = value[d]
        BY <1>3, <1>6, <2>1 DEF Trusted
    <2> QED  BY <1>1, <1>3, <2>1, <2>2 DEF RollingBack
<1>11. RollingBack(t)'
    BY <1>1, <1>3, <1>4, <1>9, <1>10 DEF RollingBack
<1> QED  BY <1>1, <1>4, <1>6, <1>7, <1>11, WorkerKeeps

(* Its confirmation: a component that was not restored is reported.        *)
LEMMA ConfirmRolledBackKeeps ==
    ASSUME ProfileInv, NEW t \in Threads, ConfirmRolledBack(t)
    PROVE  ProfileInv' /\ txn'.active = txn.active
<1> DEFINE c == Head(thread[t].list)
           rest == Tail(thread[t].list)
<1>1. /\ thread \in [Threads -> Thread] /\ thread[t] \in Thread /\ thread[t].pc = "confirm_rollback"
      /\ txn \in Txn /\ RollingBack(t) /\ Works(t) /\ reported \subseteq Components
    BY DEF ProfileInv, TypeOK, ConfirmRolledBack, Thread, Txn, Works
<1>2. /\ value' = value /\ flight' = flight /\ nApplies' = nApplies /\ doubtful' = doubtful
    BY DEF ConfirmRolledBack
<1>3. /\ Contains(txn.pending, c) /\ RemoveFirst(txn.pending, c) = rest
      /\ c \in Components /\ rest \in Seq(Components)
      /\ ToSet(thread[t].list) = {c} \union ToSet(rest)
      /\ Len(thread[t].list) > 1 <=> rest # <<>>
    BY <1>1, HeadRemoved DEF RollingBack, Thread
<1>4. Expected(txn, "ROLLING_BACK", c)
    BY <1>1, <1>3 DEF RollingBack, Expected
<1>5. /\ txn' = ConfirmRollback(txn, c)
      /\ reported' = IF thread[t].ok THEN reported \ {c} ELSE reported \union {c}
      /\ thread' = IF Len(thread[t].list) > 1
                   THEN [thread EXCEPT ![t].pc = "rollback", ![t].list = Tail(@)]
                   ELSE [thread EXCEPT ![t] = Idle]
    BY <1>4 DEF ConfirmRolledBack
<1>6. \A d : JustSet(t, d) <=> thread[t].ok /\ d = c
    BY <1>1 DEF JustSet
<1>7. LateOnesAreDoubtful' /\ reported' \subseteq Components
    BY <1>1, <1>2, <1>3, <1>5 DEF ProfileInv, LateOnesAreDoubtful
<1> HIDE DEF c
<1>8. \A d \in Components : Trusted(d)' => value'[d] = txn.active \/ d \in ToSet(rest)
    <2> SUFFICES ASSUME NEW d \in Components, Trusted(d)', d \notin ToSet(rest)
                 PROVE  value[d] = txn.active
        BY <1>2
    <2>1. CASE d = c
        <3>1. thread[t].ok /\ d \notin doubtful
            BY <1>2, <1>5, <2>1 DEF Trusted
        <3> QED  BY <1>1, <1>6, <2>1, <3>1 DEF RollingBack
    <2>2. CASE d # c
        BY <1>1, <1>2, <1>3, <1>5, <2>2 DEF RollingBack, Trusted
    <2> QED  BY <2>1, <2>2
<1>9. CASE rest # <<>>
    <2>1. txn' = [txn EXCEPT !.pending = rest, !.active = txn.active, !.state = txn.state]
        BY <1>3, <1>5, <1>9 DEF ConfirmRollback
    <2>2. thread' = [thread EXCEPT ![t].pc = "rollback", ![t].list = rest]
        BY <1>3, <1>5, <1>9
    <2> HIDE DEF rest
    <2>3. /\ txn' \in Txn /\ txn'.pending = rest /\ txn'.state = txn.state
          /\ txn'.active = txn.active /\ txn'.previous = txn.previous
        BY <1>1, <1>3, <2>1 DEF Txn
    <2>4. /\ thread' \in [Threads -> Thread]
          /\ \A u \in Threads \ {t} : thread'[u] = thread[u]
          /\ thread'[t].pc = "rollback" /\ thread'[t].list = rest
        BY <1>1, <1>3, <2>2 DEF Thread, Points
    <2>5. TypeOK'
        BY <1>2, <1>7, <2>3, <2>4 DEF ProfileInv, TypeOK, Thread, Txn
    <2>6. \A d : ~JustSet(t, d)'
        BY <2>4 DEF JustSet
    <2>7. RollingBack(t)'
        BY <1>1, <1>8, <1>9, <2>3, <2>4, <2>6 DEF RollingBack
    <2>8. ProfileInv'
        BY <1>1, <1>7, <2>4, <2>5, <2>7, WorkerKeeps
    <2> QED  BY <2>3, <2>8
<1>10. CASE rest = <<>>
    <2>1. txn' = [txn EXCEPT !.pending = rest, !.active = txn.previous, !.state = "FAILED"]
        BY <1>3, <1>5, <1>10 DEF ConfirmRollback
    <2>2. thread' = [thread EXCEPT ![t] = Idle]
        BY <1>3, <1>5, <1>10
    <2>3. ToSet(rest) = {}
        BY <1>10 DEF ToSet
    <2> HIDE DEF rest
    <2>4. txn' \in Txn /\ txn'.state = "FAILED" /\ txn'.active = txn.active
        BY <1>1, <1>3, <2>1 DEF Txn, States, RollingBack
    <2>5. /\ thread' \in [Threads -> Thread]
          /\ \A u \in Threads \ {t} : thread'[u] = thread[u]
          /\ thread'[t].pc = "idle"
        BY <1>1, <2>2, ProfileConstants DEF Idle
    <2>6. TypeOK'
        BY <1>2, <1>7, <2>4, <2>5 DEF ProfileInv, TypeOK, Thread, Txn
    <2>7. \A d \in Components : Trusted(d)' => value'[d] = txn'.active
        BY <1>8, <2>3, <2>4
    <2>8. ~Busy'
        BY <2>4 DEF Busy
    <2>9. ProfileInv'
        BY <1>1, <1>7, <2>5, <2>6, <2>7, <2>8, WorkerKeeps
    <2> QED  BY <2>4, <2>9
<1> QED  BY <1>9, <1>10

(* A late update reaches a component whose answers are not trusted.        *)
LEMMA LateUpdateKeeps ==
    ASSUME ProfileInv, NEW f \in flight, LateUpdate(f)
    PROVE  ProfileInv'
<1>1. /\ txn' = txn /\ thread' = thread /\ nApplies' = nApplies /\ reported' = reported
      /\ doubtful' = doubtful /\ flight' = flight \ {f}
      /\ value' = [value EXCEPT ![f.comp] = f.profile]
    BY DEF LateUpdate
<1>2. /\ f.comp \in Components /\ f.profile \in Profiles /\ f.comp \in doubtful
      /\ value \in [Components -> Profiles \union {"mixed"}]
    BY DEF ProfileInv, TypeOK, LateOnesAreDoubtful
<1>3. /\ value' \in [Components -> Profiles \union {"mixed"}]
      /\ \A c \in Components : c \notin doubtful => value'[c] = value[c]
    BY <1>1, <1>2
<1>4. TypeOK'
    BY <1>1, <1>3 DEF ProfileInv, TypeOK
<1>5. /\ Busy' <=> Busy
      /\ \A c : Trusted(c)' <=> Trusted(c)
      /\ \A t : Works(t)' <=> Works(t)
      /\ \A t, c : JustSet(t, c)' <=> JustSet(t, c)
    BY <1>1 DEF Busy, Trusted, Works, JustSet
<1>6. \A c \in Components : Trusted(c) => value'[c] = value[c]
    BY <1>3 DEF Trusted
<1>7. OneWorks'
    BY <1>1, <1>5 DEF ProfileInv, OneWorks
<1>8. ASSUME NEW t \in Threads, Applying(t)  PROVE Applying(t)'
    BY <1>1, <1>3, <1>5, <1>6, <1>8 DEF Applying
<1>9. ASSUME NEW t \in Threads, RollingBack(t)  PROVE RollingBack(t)'
    BY <1>1, <1>3, <1>5, <1>6, <1>9 DEF RollingBack
<1>10. /\ ~Busy' => \A c \in Components : Trusted(c)' => value'[c] = txn'.active
       /\ LateOnesAreDoubtful'
    BY <1>1, <1>5, <1>6 DEF ProfileInv, LateOnesAreDoubtful
<1> QED  BY <1>1, <1>4, <1>7, <1>8, <1>9, <1>10 DEF ProfileInv

LEMMA ProfileInit == Init => ProfileInv
<1> SUFFICES ASSUME Init PROVE ProfileInv
    OBVIOUS
<1>1. /\ thread = [t \in Threads |-> Idle] /\ value = [c \in Components |-> StartProfile]
      /\ flight = {} /\ nApplies = 0 /\ reported = {} /\ doubtful = {}
      /\ txn = [state |-> "IDLE", active |-> StartProfile, previous |-> StartProfile,
                target |-> StartProfile, pending |-> <<>>, applied |-> <<>>]
    BY DEF Init
<1>2. txn \in Txn /\ txn.state = "IDLE" /\ txn.active = StartProfile
    BY <1>1, ProfileConstants, EmptySeq DEF Txn, States
<1>3. thread \in [Threads -> Thread] /\ \A t \in Threads : thread[t].pc = "idle"
    BY <1>1, ProfileConstants DEF Idle
<1>4. TypeOK
    BY <1>1, <1>2, <1>3, ProfileAssumption DEF TypeOK, Txn, Thread
<1>5. OneWorks
    BY <1>2, <1>3 DEF OneWorks, Works, Busy
<1>6. (\A c \in Components : Trusted(c) => value[c] = txn.active) /\ LateOnesAreDoubtful
    BY <1>1, <1>2 DEF LateOnesAreDoubtful
<1> QED  BY <1>3, <1>4, <1>5, <1>6 DEF ProfileInv

LEMMA ProfileStep ==
    ASSUME ~Switches, ProfileInv, [Next]_vars
    PROVE  ProfileInv' /\ (txn'.active = txn.active \/ CommitStep)
<1>1. CASE UNCHANGED vars
    <2>1. /\ txn' = txn /\ thread' = thread /\ value' = value /\ flight' = flight
          /\ nApplies' = nApplies /\ reported' = reported /\ doubtful' = doubtful
        BY <1>1 DEF vars
    <2> QED  BY <2>1 DEF ProfileInv, TypeOK, OneWorks, Works, Applying, RollingBack, JustSet, Trusted,
                         LateOnesAreDoubtful, Busy
<1>2. ASSUME NEW t \in Threads, Serve(t)
      PROVE  ProfileInv' /\ (txn'.active = txn.active \/ CommitStep)
    <2>1. CASE BeginTest(t)
        BY <2>1, RequestKeeps DEF BeginTest, Refuse
    <2>2. CASE BeginAssign(t)
        BY <2>2, BeginKeeps DEF BeginAssign, Begin, ProfileInv, TypeOK
    <2>3. ASSUME NEW o \in Outcomes, Apply(t, o) \/ Rollback(t, o)
          PROVE  ProfileInv' /\ txn' = txn
        BY <2>3, ApplyKeeps, RollbackKeeps DEF Apply, Rollback
    <2>4. CASE ConfirmApplied(t)
        BY <2>4, ConfirmAppliedKeeps
    <2>5. CASE ConfirmRolledBack(t)
        BY <2>5, ConfirmRolledBackKeeps
    <2> QED  BY <1>2, <2>1, <2>2, <2>3, <2>4, <2>5 DEF Serve
<1>3. ASSUME NEW t \in Threads, NEW p \in Profiles \union {"unknown"}, Request(t, p)
      PROVE  ProfileInv' /\ txn' = txn
    BY <1>3, RequestKeeps DEF Request
<1>4. ASSUME NEW f \in flight, LateUpdate(f)
      PROVE  ProfileInv' /\ txn' = txn
    BY <1>4, LateUpdateKeeps DEF LateUpdate
<1> QED  BY <1>1, <1>2, <1>3, <1>4 DEF Next

-----------------------------------------------------------------------------
(* A component that differs from the profile that is reported as active    *)
(* had a doubtful answer or was reported, for any number of components,    *)
(* threads and requests and whatever the calls come to (_apply, confirm,   *)
(* confirm_rollback), if no thread is preempted inside begin.              *)
THEOREM ProfileRestored == ~Switches => (Spec => []RestoredUnlessDoubtful)
<1> SUFFICES ASSUME ~Switches PROVE Spec => []RestoredUnlessDoubtful
    OBVIOUS
<1>1. Init => ProfileInv
    BY ProfileInit
<1>2. ProfileInv /\ [Next]_vars => ProfileInv'
    BY ProfileStep
<1>3. ProfileInv => RestoredUnlessDoubtful
    BY DEF ProfileInv, RestoredUnlessDoubtful, Quiet, Trusted
<1> QED  BY <1>1, <1>2, <1>3, PTL DEF Spec

(* No thread is surprised by the state of the shared transaction: its      *)
(* confirm and confirm_rollback never raise, on the same condition.        *)
THEOREM ProfileNeverRaises == ~Switches => (Spec => []NoUnexpectedConfirmation)
<1> SUFFICES ASSUME ~Switches PROVE Spec => []NoUnexpectedConfirmation
    OBVIOUS
<1>1. Init => ProfileInv
    BY ProfileInit
<1>2. ProfileInv /\ [Next]_vars => ProfileInv'
    BY ProfileStep
<1>3. ProfileInv => NoUnexpectedConfirmation
    BY DEF ProfileInv, OneWorks, NoUnexpectedConfirmation
<1> QED  BY <1>1, <1>2, <1>3, PTL DEF Spec

(* The active profile changes only by a commit, when every component whose *)
(* answers can be trusted runs with it (confirm), on the same condition.   *)
THEOREM ProfileCommitsWhole == ~Switches => (Spec => CommitIsComplete)
<1> SUFFICES ASSUME ~Switches PROVE Spec => CommitIsComplete
    OBVIOUS
<1>1. Init => ProfileInv
    BY ProfileInit
<1>2. ProfileInv /\ [Next]_vars => ProfileInv' /\ [CommitStep]_vars
    BY ProfileStep DEF CommitStep
<1> QED  BY <1>1, <1>2, PTL DEF Spec, CommitIsComplete

-----------------------------------------------------------------------------
(* Nav2Startup, for any nodes and any timeout.  Whoever says "active" has  *)
(* been active since the one request: the node itself, an answer on its    *)
(* way, and what the coordinator has noted.                                *)

StartupShape ==
    /\ StartupTypeOK
    /\ futures \in [zones : {"none", "sent", "good", "bad"}, health : {"none", "sent", "good", "bad"},
                    manage : {"none", "sent", "good", "bad"}]
    /\ stateFutures \in [Nav2Nodes -> {"none", "sent", "active", "inactive"}]
    /\ told \in [mask : BOOLEAN, health : BOOLEAN, retired : BOOLEAN]
    /\ lifecycle \in [Nav2Nodes -> {"inactive", "active", "dead"}]
    /\ wasActive \subseteq Nav2Nodes

SaysActive(n) == "active" \in {lifecycle[n], stateFutures[n], nodeStates[n]}

StartupInv ==
    /\ StartupShape
    /\ nStarts = IF startup = "WAITING_INPUTS" THEN 0 ELSE 1
    /\ \A n \in Nav2Nodes : SaysActive(n) => n \in wasActive
    /\ startup = "ACTIVE" => wasActive = Nav2Nodes /\ told.health

LEMMA StartupInvInit == StartupInit => StartupInv
<1> SUFFICES ASSUME StartupInit PROVE StartupInv
    OBVIOUS
<1>1. StartupShape
    BY StartupAssumption DEF StartupInit, StartupShape, StartupTypeOK
<1>2. \A n \in Nav2Nodes : ~SaysActive(n)
    BY DEF StartupInit, SaysActive
<1> QED  BY <1>1, <1>2 DEF StartupInit, StartupInv

LEMMA TickWaitingKeeps ==
    ASSUME StartupInv, NEW tf, NEW ready \in BOOLEAN, NEW late \in BOOLEAN, NEW managed \in BOOLEAN,
           TickWaiting(tf, ready, late, managed)
    PROVE  StartupInv'
<1>1. startup' \in {"WAITING_INPUTS", "STARTING"} /\ startup = "WAITING_INPUTS"
    BY DEF TickWaiting
<1>2. told' \in [mask : BOOLEAN, health : BOOLEAN, retired : BOOLEAN]
    <2>1. told' = [told EXCEPT !.mask = told.mask \/ futures.zones = "good"]
        BY DEF TickWaiting, PollZonesState
    <2> QED  BY <2>1 DEF StartupInv, StartupShape
<1>3. futures' \in [zones : {"none", "sent", "good", "bad"}, health : {"none", "sent", "good", "bad"},
                    manage : {"none", "sent", "good", "bad"}]
    <2> DEFINE z == IF told.mask THEN futures.zones
                    ELSE IF futures.zones = "sent" THEN IF late THEN "none" ELSE futures.zones
                    ELSE IF futures.zones = "none" /\ ready THEN "sent" ELSE "none"
               m == IF startup' = "STARTING" THEN "sent" ELSE futures.manage
    <2>1. futures' = [futures EXCEPT !.zones = z, !.manage = m]
        BY DEF TickWaiting, PollZonesState
    <2>2. z \in {"none", "sent", "good", "bad"} /\ m \in {"none", "sent", "good", "bad"}
        BY DEF StartupInv, StartupShape
    <2> HIDE DEF z, m
    <2> QED  BY <2>1, <2>2 DEF StartupInv, StartupShape
<1>4. nStarts' = IF startup' = "WAITING_INPUTS" THEN 0 ELSE 1
    BY <1>1 DEF TickWaiting, StartupInv
<1> QED  BY <1>1, <1>2, <1>3, <1>4 DEF TickWaiting, StartupInv, StartupShape, StartupTypeOK, SaysActive

LEMMA TickStartingKeeps ==
    ASSUME StartupInv, NEW ready \in SUBSET Nav2Nodes, NEW late \in SUBSET Nav2Nodes,
           NEW hr \in BOOLEAN, NEW hl \in BOOLEAN, TickStarting(ready, late, hr, hl)
    PROVE  StartupInv'
<1>1. sinceStart' \in 0 .. ActivationTimeout
    BY StartupAssumption DEF TickStarting, TimedOut, StartupInv, StartupShape, StartupTypeOK
<1>2. CASE ManageFailed
    <2>1. /\ startup' = "FAILED" /\ UNCHANGED <<stateFutures, nodeStates, told>>
          /\ UNCHANGED <<startMode, inputs, lifecycle, wasActive, nStarts>>
          /\ futures' = [futures EXCEPT !.manage = IF futures.manage = "bad" THEN "none" ELSE futures.manage]
        BY <1>2 DEF TickStarting
    <2>2. futures' \in [zones : {"none", "sent", "good", "bad"}, health : {"none", "sent", "good", "bad"},
                        manage : {"none", "sent", "good", "bad"}]
        BY <2>1 DEF StartupInv, StartupShape
    <2> QED  BY <1>1, <2>1, <2>2 DEF TickStarting, StartupInv, StartupShape, StartupTypeOK, SaysActive
<1>3. CASE ~ManageFailed
    <2>1. /\ nodeStates' = [n \in Nav2Nodes |-> Answered(n)]
          /\ stateFutures' = [n \in Nav2Nodes |-> Asked(n, ready, late)]
          /\ startup' = IF AllActive /\ HealthAnswered THEN "ACTIVE"
                        ELSE IF TimedOut THEN "FAILED" ELSE startup
          /\ told' = [told EXCEPT !.health = told.health \/ (AllActive /\ HealthAnswered),
                                  !.retired = AllActive /\ HealthAnswered]
          /\ UNCHANGED <<startMode, inputs, lifecycle, wasActive, nStarts>> /\ startup = "STARTING"
        BY <1>3 DEF TickStarting
    <2>2. \A n \in Nav2Nodes : /\ Answered(n) \in {"unknown", "active", "inactive", "invalid"}
                               /\ Answered(n) = "active" => n \in wasActive
                               /\ Asked(n, ready, late) \in {"none", "sent"}
        BY DEF Answered, Asked, StartupInv, StartupShape, StartupTypeOK, SaysActive
    <2>3. futures' \in [zones : {"none", "sent", "good", "bad"}, health : {"none", "sent", "good", "bad"},
                        manage : {"none", "sent", "good", "bad"}]
        <3> DEFINE m == IF futures.manage = "good" THEN "none" ELSE futures.manage
                   h == IF AllActive THEN PolledHealth(hr, hl) ELSE futures.health
        <3>1. futures' = [futures EXCEPT !.manage = m, !.health = h]
            BY <1>3 DEF TickStarting
        <3>2. m \in {"none", "sent", "good", "bad"} /\ h \in {"none", "sent", "good", "bad"}
            BY DEF PolledHealth, StartupInv, StartupShape
        <3> HIDE DEF m, h
        <3> QED  BY <3>1, <3>2 DEF StartupInv, StartupShape
    <2>4. told' \in [mask : BOOLEAN, health : BOOLEAN, retired : BOOLEAN]
        BY <2>1 DEF StartupInv, StartupShape
    <2>5. startup' = "ACTIVE" => wasActive' = Nav2Nodes /\ told'.health
        <3>1. AllActive => wasActive = Nav2Nodes
            BY <2>2 DEF AllActive, StartupInv, StartupShape
        <3> QED  BY <2>1, <3>1 DEF StartupInv, StartupShape
    <2>6. \A n \in Nav2Nodes : SaysActive(n)' => n \in wasActive'
        BY <2>1, <2>2 DEF StartupInv, SaysActive
    <2>7. startup' \in {"STARTING", "ACTIVE", "FAILED"}
        BY <2>1
    <2> QED  BY <1>1, <2>1, <2>2, <2>3, <2>4, <2>5, <2>6, <2>7 DEF StartupInv, StartupShape, StartupTypeOK
<1> QED  BY <1>2, <1>3

LEMMA StartupInvStep == StartupInv /\ [StartupNext]_startupVars => StartupInv'
<1> SUFFICES ASSUME StartupInv, [StartupNext]_startupVars PROVE StartupInv'
    OBVIOUS
<1>1. CASE StartupTick
    <2>1. ASSUME NEW tf \in {"none", "stale", "fresh"}, NEW ready \in BOOLEAN, NEW late \in BOOLEAN,
                 NEW managed \in BOOLEAN, TickWaiting(tf, ready, late, managed)
          PROVE  StartupInv'
        BY <2>1, TickWaitingKeeps
    <2>2. ASSUME NEW ready \in SUBSET Nav2Nodes, NEW late \in SUBSET Nav2Nodes, NEW hr \in BOOLEAN,
                 NEW hl \in BOOLEAN, TickStarting(ready, late, hr, hl)
          PROVE  StartupInv'
        BY <2>2, TickStartingKeeps
    <2> QED  BY <1>1, <2>1, <2>2 DEF StartupTick
<1> USE DEF StartupInv, StartupShape, StartupTypeOK, SaysActive
<1>2. ASSUME NEW order \in {"later", "earlier"}, OnClock(order) PROVE StartupInv'
    BY <1>2 DEF OnClock
<1>3. ASSUME NEW order \in {"later", "earlier"}, NEW finite \in BOOLEAN, OnStartupOdom(order, finite)
      PROVE  StartupInv'
    BY <1>3 DEF OnStartupOdom
<1>4. ASSUME NEW scan \in {"valid", "invalid"}, OnStartupScan(scan) PROVE StartupInv'
    BY <1>4 DEF OnStartupScan
<1>5. CASE StartupScanAges
    BY <1>5 DEF StartupScanAges
<1>6. ASSUME NEW s \in {"zones", "health", "manage"}, NEW a \in {"good", "bad"}, AnswerService(s, a)
      PROVE  StartupInv'
    BY <1>6 DEF AnswerService
<1>7. ASSUME NEW n \in Nav2Nodes, AnswerState(n) PROVE StartupInv'
    BY <1>7 DEF AnswerState
<1>8. ASSUME NEW n \in Nav2Nodes, NEW to \in {"active", "dead"}, NodeChanges(n, to) PROVE StartupInv'
    BY <1>8 DEF NodeChanges
<1>9. CASE UNCHANGED startupVars
    BY <1>9 DEF startupVars
<1> QED  BY <1>1, <1>2, <1>3, <1>4, <1>5, <1>6, <1>7, <1>8, <1>9 DEF StartupNext

(* Nav2 is called ready when every managed node has been active since the  *)
(* one request and path health has answered, for any nodes and timeout     *)
(* (_poll_startup of nav2_startup_coordinator.py).                         *)
THEOREM StartupReadyMeansActive == StartupSpec => []ReadyMeansActive
<1>1. StartupInv => ReadyMeansActive
    BY DEF StartupInv, ReadyMeansActive
<1> QED  BY <1>1, StartupInvInit, StartupInvStep, PTL DEF StartupSpec

-----------------------------------------------------------------------------
(* GuardedTree, for any paths, waits, retries and missing answers.  The    *)
(* wait of the guard has approved nothing that the history has not, and a  *)
(* recovery that may use up a retry has one left.                          *)

Boards == [path : Paths \cup {NoPath}, candidate : Paths \cup {NoPath},
           stop : BOOLEAN, wait : BOOLEAN, terminal : BOOLEAN]
Trees == [phase : {"idle", "running", "failed", "succeeded"},
          at : {"keep", "data", "hold", "compute", "check", "wait"}, tries : 0 .. 1,
          following : BOOLEAN, recovering : BOOLEAN, attempts : 0 .. Retries]
Waits == [left : -1 .. WaitTicks, approved : Paths \cup {NoPath}, terminal : BOOLEAN]

WaitOK(w, approved) ==
    IF w.left < 0 THEN w = Clear ELSE w.approved \in approved \cup {NoPath}

RetryLeft(t, b) == t.recovering => b.wait \/ t.attempts < Retries

TreeInv ==
    /\ TreeTypeOK
    /\ FollowsOnWord
    /\ WaitOK(wait, word.approved)
    /\ RetryLeft(tree, board)

LEMMA ClearFacts == Clear \in Waits /\ Clear.left = -1 /\ Clear.approved = NoPath /\ Clear.terminal = FALSE
BY TreeAssumption DEF Clear, Waits

LEMMA TreeInvInit == TreeInit => TreeInv
<1> SUFFICES ASSUME TreeInit PROVE TreeInv
    OBVIOUS
<1>1. tree \in Trees /\ tree.following = FALSE /\ tree.recovering = FALSE
    BY TreeAssumption DEF TreeInit, Halted, Trees
<1>2. wait \in Waits /\ WaitOK(wait, word.approved)
    BY ClearFacts DEF TreeInit, WaitOK
<1>3. board \in Boards /\ against \in BOOLEAN /\ timeouts \in 0 .. MaxTimeouts
      /\ word \in [answer : {"none", "keep", "replan", "stop"}, approved : SUBSET Paths]
    <2>1. board \in Boards
        BY DEF TreeInit, Boards
    <2>2. word.answer = "none" /\ word.approved = {} /\ word = [answer |-> "none", approved |-> {}]
        BY DEF TreeInit
    <2>3. word \in [answer : {"none", "keep", "replan", "stop"}, approved : SUBSET Paths]
        BY <2>2
    <2>4. against \in BOOLEAN /\ timeouts \in 0 .. MaxTimeouts
        <3>1. against \in BOOLEAN
            BY DEF TreeInit
        <3>2. 0 \in 0 .. MaxTimeouts
            BY TreeAssumption
        <3> QED  BY <3>1, <3>2 DEF TreeInit
    <2> QED  BY <2>1, <2>3, <2>4
<1> QED  BY <1>1, <1>2, <1>3 DEF TreeInv, TreeTypeOK, FollowsOnWord, RetryLeft, Trees, Waits, Boards

(* What the guard makes of a look at a path.                               *)
LEMMA ObserveFacts ==
    ASSUME wait \in Waits, WaitOK(wait, word.approved), NEW bad \in BOOLEAN,
           NEW key \in Paths \cup {NoPath}, NEW candidate \in BOOLEAN, NEW valid \in BOOLEAN
    PROVE  LET d == Observe(bad, key, candidate, valid)
           IN  /\ d \in Waits
               /\ d.left < 0 => d = Clear
               /\ wait.left >= 0 /\ d.left < 0 => key \in word.approved /\ ~candidate
               /\ d.left >= 0 => \/ d.approved \in word.approved \cup {NoPath}
                                 \/ d.approved = key /\ candidate /\ valid /\ ~bad /\ ~d.terminal
<1> DEFINE begun == IF bad /\ ~Waiting THEN [wait EXCEPT !.left = WaitTicks] ELSE wait
           d == Observe(bad, key, candidate, valid)
<1>1. /\ begun \in Waits /\ begun.terminal = wait.terminal /\ begun.approved = wait.approved
      /\ wait.left >= 0 => begun = wait
      /\ begun.left < 0 => begun = Clear
      /\ begun.left >= 0 => begun.approved \in word.approved \cup {NoPath}
    <2>1. wait.left \in Int /\ WaitTicks \in -1 .. WaitTicks /\ WaitTicks > 0
        BY TreeAssumption DEF Waits
    <2>2. CASE begun = wait
        <3> HIDE DEF begun
        <3>1. wait.left < 0 => wait = Clear
            BY DEF WaitOK
        <3>2. wait.left >= 0 => wait.approved \in word.approved \cup {NoPath}
            BY <2>1 DEF WaitOK
        <3> QED  BY <2>2, <3>1, <3>2
    <2>3. CASE bad /\ ~Waiting /\ begun = [wait EXCEPT !.left = WaitTicks]
        <3>1. wait = Clear /\ wait.left < 0
            BY <2>1, <2>3 DEF Waiting, WaitOK
        <3> HIDE DEF begun
        <3>2. /\ begun \in Waits /\ begun.left = WaitTicks
              /\ begun.terminal = wait.terminal /\ begun.approved = wait.approved
            BY <2>1, <2>3 DEF Waits
        <3> QED  BY <2>1, <3>1, <3>2, ClearFacts
    <2> QED  BY <2>2, <2>3
<1>2. CASE wait.left = 0 \/ wait.terminal
    <2>1. d = [wait EXCEPT !.terminal = TRUE]
        BY <1>2 DEF Observe
    <2> HIDE DEF d
    <2>2. d \in Waits /\ d.left = wait.left /\ d.approved = wait.approved
        BY <2>1 DEF Waits
    <2>3. wait.left \in Int
        BY DEF Waits
    <2>4. wait.left >= 0
        BY <1>2, <2>3, ClearFacts DEF WaitOK
    <2> QED  BY <2>2, <2>3, <2>4 DEF WaitOK, d
<1>3. CASE ~(wait.left = 0 \/ wait.terminal)
    <2>1. d = IF begun.left < 0 THEN begun
              ELSE IF candidate /\ valid /\ ~bad THEN [begun EXCEPT !.approved = key]
              ELSE IF ~candidate /\ valid /\ ~bad /\ key = begun.approved /\ key # NoPath THEN Clear
              ELSE begun
        BY <1>3 DEF Observe
    <2> HIDE DEF begun, d
    <2>0. begun.left \in Int /\ wait.left \in Int
        BY <1>1 DEF Waits
    <2>2. CASE begun.left < 0
        <3>1. d = begun /\ ~(wait.left >= 0)
            BY <1>1, <2>0, <2>1, <2>2
        <3> QED  BY <1>1, <2>0, <2>2, <3>1 DEF d
    <2>3. CASE ~(begun.left < 0) /\ candidate /\ valid /\ ~bad
        <3>1. d = [begun EXCEPT !.approved = key]
            BY <2>1, <2>3
        <3>2. d \in Waits /\ d.left = begun.left /\ d.approved = key /\ d.terminal = wait.terminal
            BY <1>1, <3>1 DEF Waits
        <3> QED  BY <1>3, <2>0, <2>3, <3>2 DEF d
    <2>4. CASE ~(begun.left < 0) /\ ~(candidate /\ valid /\ ~bad) /\ d = Clear
        <3>1. (~candidate /\ key = begun.approved /\ key # NoPath) \/ d = begun
            BY <2>1, <2>4
        <3>2. begun # Clear
            BY <2>0, <2>4, ClearFacts
        <3>3. ~candidate /\ key \in word.approved
            BY <1>1, <2>0, <2>4, <3>1, <3>2
        <3> QED  BY <2>4, <3>3, ClearFacts DEF d
    <2>5. CASE ~(begun.left < 0) /\ d = begun
        BY <1>1, <2>0, <2>5 DEF d
    <2> QED  BY <2>1, <2>2, <2>3, <2>4, <2>5
<1> QED  BY <1>2, <1>3

(* An answer of the guard, or none, and what it leaves behind.             *)
LEMMA EvaluatedFacts ==
    ASSUME TreeInv, NEW path \in Paths \cup {NoPath}, NEW candidate \in BOOLEAN,
           NEW h \in GuardAnswers(path, candidate), Evaluated(path, h, candidate)
    PROVE  /\ wait' \in Waits /\ timeouts' \in 0 .. MaxTimeouts
           /\ word' \in [answer : {"none", "keep", "replan", "stop"}, approved : SUBSET Paths]
           /\ WaitOK(wait', word'.approved)
           /\ wait.left >= 0 /\ wait'.left < 0 => path \in word.approved /\ ~candidate
           /\ h.state \in {"none", "keep", "replan", "stop"}
           /\ h.maneuver \in {"none", "wait", "operator"}
           /\ word'.answer = IF candidate /\ h.state # "keep" THEN word.answer ELSE h.state
<1>1. /\ wait \in Waits /\ timeouts \in 0 .. MaxTimeouts /\ MaxTimeouts \in Nat
      /\ word \in [answer : {"none", "keep", "replan", "stop"}, approved : SUBSET Paths]
      /\ WaitOK(wait, word.approved)
    BY TreeAssumption DEF TreeInv, TreeTypeOK, Waits
<1>2. /\ wait' = h.wait
      /\ timeouts' = timeouts + IF h.state = "none" THEN 1 ELSE 0
      /\ word' = [answer |-> IF candidate /\ h.state # "keep" THEN word.answer ELSE h.state,
                  approved |-> IF h.wait.left < 0 THEN {}
                               ELSE IF candidate /\ h.state = "keep" THEN word.approved \cup {path}
                               ELSE word.approved]
    BY DEF Evaluated
<1>3. CASE h = NoAnswer /\ timeouts < MaxTimeouts
    <2>1. h.wait = wait /\ h.state = "none" /\ h.maneuver = "none"
        BY <1>3 DEF NoAnswer
    <2>2. word' = [answer |-> IF candidate THEN word.answer ELSE "none",
                   approved |-> IF wait.left < 0 THEN {} ELSE word.approved]
        BY <1>2, <2>1
    <2>3. WaitOK(wait', word'.approved)
        BY <1>1, <1>2, <2>1, <2>2 DEF WaitOK
    <2>4. wait' = wait /\ timeouts' \in 0 .. MaxTimeouts
        BY <1>1, <1>2, <1>3, <2>1
    <2>5. wait.left \in Int
        BY <1>1 DEF Waits
    <2>6. word' \in [answer : {"none", "keep", "replan", "stop"}, approved : SUBSET Paths]
          /\ word'.answer = IF candidate THEN word.answer ELSE "none"
        BY <1>1, <2>2
    <2> QED  BY <1>1, <2>1, <2>3, <2>4, <2>5, <2>6
<1>4. ASSUME NEW v \in Verdicts(path), h = Health(path, candidate, v[1], v[2])
      PROVE  /\ h.wait \in Waits /\ h.state \in {"keep", "replan", "stop"}
             /\ h.maneuver \in {"none", "wait", "operator"}
             /\ h.wait.left < 0 => h.wait = Clear
             /\ wait.left >= 0 /\ h.wait.left < 0 => path \in word.approved /\ ~candidate
             /\ candidate /\ h.state = "keep" => path \in Paths
             /\ h.wait.left >= 0 => \/ h.wait.approved \in word.approved \cup {NoPath}
                                    \/ h.wait.approved = path /\ candidate /\ h.state = "keep"
    <2> DEFINE inspected == v[1]
               policyState == v[2]
               key == IF inspected THEN path ELSE NoPath
               bad == Refused(path, inspected)
               valid == policyState = "keep"
               decided == Observe(bad, key, candidate, valid)
               held == decided.left >= 0
               result == IF candidate /\ policyState # "keep" THEN "stop" ELSE policyState
               copied == candidate /\ policyState = "keep" /\ inspected /\ ~bad /\ ~decided.terminal
    <2>1. /\ inspected \in BOOLEAN /\ policyState \in {"keep", "replan", "stop"}
          /\ valid => inspected /\ path # NoPath
        <3>1. CASE path = NoPath
            <4>1. v = <<FALSE, "replan">>
                BY <3>1 DEF Verdicts
            <4> QED  BY <4>1
        <3>2. CASE path # NoPath
            <4>1. v \in {<<FALSE, "stop">>, <<TRUE, "stop">>, <<TRUE, "replan">>, <<TRUE, "keep">>}
                BY <3>2 DEF Verdicts
            <4>2. v = <<FALSE, "stop">> \/ v = <<TRUE, "stop">> \/ v = <<TRUE, "replan">> \/ v = <<TRUE, "keep">>
                BY <4>1
            <4>3. (v[1] = FALSE /\ v[2] = "stop") \/ (v[1] = TRUE /\ v[2] \in {"stop", "replan", "keep"})
                <5>1. CASE v = <<FALSE, "stop">>
                    BY <5>1
                <5>2. CASE v = <<TRUE, "stop">>
                    BY <5>2
                <5>3. CASE v = <<TRUE, "replan">>
                    BY <5>3
                <5>4. CASE v = <<TRUE, "keep">>
                    BY <5>4
                <5> QED  BY <4>2, <5>1, <5>2, <5>3, <5>4
            <4>4. v[1] \in BOOLEAN /\ v[2] \in {"keep", "replan", "stop"} /\ (v[2] = "keep" => v[1] = TRUE)
                BY <4>3
            <4> QED  BY <3>2, <4>4
        <3> QED  BY <3>1, <3>2
    <2>2. h = [wait |-> decided,
               state |-> IF held /\ ~copied THEN "stop" ELSE result,
               maneuver |-> IF ~held \/ copied THEN "none"
                            ELSE IF decided.terminal THEN "operator" ELSE "wait"]
        BY <1>4 DEF Health
    <2>3. bad \in BOOLEAN /\ key \in Paths \cup {NoPath} /\ valid \in BOOLEAN
        BY <2>1 DEF Refused
    <2> HIDE DEF inspected, policyState, bad, valid, key
    <2>4. /\ decided \in Waits
          /\ decided.left < 0 => decided = Clear
          /\ wait.left >= 0 /\ decided.left < 0 => key \in word.approved /\ ~candidate
          /\ decided.left >= 0 => \/ decided.approved \in word.approved \cup {NoPath}
                                  \/ decided.approved = key /\ candidate /\ valid /\ ~bad /\ ~decided.terminal
        BY <1>1, <2>3, ObserveFacts
    <2> USE DEF valid, key
    <2>5. h.wait = decided
        BY <2>2
    <2>6. /\ h.state = (IF held /\ ~copied THEN "stop" ELSE result)
          /\ h.maneuver \in {"none", "wait", "operator"}
        BY <2>2
    <2>7. key \in word.approved => key = path
        BY <1>1, TreeAssumption
    <2>8. h.state \in {"keep", "replan", "stop"} /\ (candidate /\ h.state = "keep" => path \in Paths)
        BY <2>1, <2>6
    <2>9. candidate /\ valid /\ ~bad /\ ~decided.terminal => h.state = "keep" /\ key = path
        BY <2>1, <2>6
    <2> HIDE DEF decided, key, valid
    <2> QED  BY <2>4, <2>5, <2>6, <2>7, <2>8, <2>9
<1>5. CASE \E v \in Verdicts(path) : h = Health(path, candidate, v[1], v[2])
    <2>1. /\ h.wait \in Waits /\ h.state \in {"keep", "replan", "stop"}
          /\ h.maneuver \in {"none", "wait", "operator"}
          /\ h.wait.left < 0 => h.wait = Clear
          /\ wait.left >= 0 /\ h.wait.left < 0 => path \in word.approved /\ ~candidate
          /\ candidate /\ h.state = "keep" => path \in Paths
          /\ h.wait.left >= 0 => \/ h.wait.approved \in word.approved \cup {NoPath}
                                 \/ h.wait.approved = path /\ candidate /\ h.state = "keep"
        BY <1>4, <1>5
    <2>2. WaitOK(wait', word'.approved)
        <3>1. h.wait.left \in Int
            BY <2>1 DEF Waits
        <3>2. CASE h.wait.left < 0
            BY <1>2, <2>1, <3>2 DEF WaitOK
        <3>3. CASE h.wait.left >= 0
            <4>1. word'.approved = IF candidate /\ h.state = "keep" THEN word.approved \cup {path}
                                   ELSE word.approved
                BY <1>2, <3>1, <3>3
            <4>2. h.wait.approved \in word'.approved \cup {NoPath}
                BY <2>1, <3>3, <4>1
            <4> QED  BY <1>2, <3>1, <3>3, <4>2 DEF WaitOK
        <3> QED  BY <3>1, <3>2, <3>3
    <2>3. word' \in [answer : {"none", "keep", "replan", "stop"}, approved : SUBSET Paths]
        BY <1>1, <1>2, <2>1
    <2> QED  BY <1>1, <1>2, <2>1, <2>2, <2>3
<1> QED  BY <1>3, <1>5 DEF GuardAnswers

(* What the condition writes on the blackboard.                            *)
LEMMA AfterAnswerFacts ==
    ASSUME board \in Boards, NEW h, NEW candidate \in BOOLEAN
    PROVE  LET b == AfterAnswer(h, candidate)
           IN  /\ b \in Boards /\ b.path = board.path /\ b.candidate = board.candidate
               /\ h.state \in {"none", "stop"} => b.stop = TRUE
               /\ candidate /\ board.wait => b.wait
<1> DEFINE stop == board.stop \/ h.state = "stop"
           w == IF h.maneuver # "none" THEN TRUE
                ELSE IF ~candidate /\ h.state = "keep" THEN FALSE ELSE board.wait
           term == IF h.maneuver # "none" THEN h.maneuver = "operator"
                   ELSE IF ~candidate /\ h.state = "keep" THEN FALSE ELSE board.terminal
           b == AfterAnswer(h, candidate)
<1>1. stop \in BOOLEAN /\ w \in BOOLEAN /\ term \in BOOLEAN /\ (candidate /\ board.wait => w)
      /\ (h.state = "stop" => stop = TRUE)
    BY DEF Boards
<1>2. CASE h.state = "none"
    <2>1. b = [board EXCEPT !.stop = TRUE]
        BY <1>2 DEF AfterAnswer
    <2> HIDE DEF b
    <2>2. /\ b \in Boards /\ b.path = board.path /\ b.candidate = board.candidate
          /\ b.stop = TRUE /\ b.wait = board.wait
        BY <2>1 DEF Boards
    <2> QED  BY <2>2 DEF b
<1>3. CASE h.state # "none"
    <2>1. b = [board EXCEPT !.stop = stop, !.wait = w, !.terminal = term]
        BY <1>3 DEF AfterAnswer, Noted
    <2> HIDE DEF b, stop, w, term
    <2>2. /\ b \in Boards /\ b.path = board.path /\ b.candidate = board.candidate
          /\ b.stop = stop /\ b.wait = w
        BY <1>1, <2>1 DEF Boards
    <2> QED  BY <1>1, <1>3, <2>2 DEF b
<1> QED  BY <1>2, <1>3

LEMMA HaltFacts ==
    ASSUME NEW b \in Boards, NEW phase \in {"idle", "running", "failed", "succeeded"},
           HaltTree(phase, b)
    PROVE  /\ tree' \in Trees /\ board' \in Boards
           /\ tree'.following = FALSE /\ tree'.recovering = FALSE
<1>1. board' \in Boards
    BY DEF HaltTree, Lowered, Boards
<1> QED  BY <1>1, TreeAssumption DEF HaltTree, Halted, Trees

LEMMA PipelineFacts ==
    ASSUME NEW b \in Boards, NEW t \in Trees, t.recovering = FALSE,
           NEW planning \in {"success", "running", "failure"}, Pipeline(planning, b, t)
    PROVE  /\ tree' \in Trees /\ board' \in Boards
           /\ tree'.following => \/ planning = "success"
                                 \/ planning = "running" /\ t.following /\ ~b.stop
           /\ RetryLeft(tree', board')
<1> DEFINE low == [b EXCEPT !.stop = FALSE]
           end == [t EXCEPT !.at = "wait", !.tries = 0, !.following = FALSE, !.recovering = TRUE]
           off == [t EXCEPT !.following = FALSE]
           on == [t EXCEPT !.following = TRUE]
<1>1. low \in Boards
    BY DEF Boards
<1>2. /\ end \in Trees /\ end.following = FALSE /\ end.attempts = t.attempts
      /\ off \in Trees /\ off.following = FALSE /\ off.recovering = FALSE
      /\ on \in Trees /\ on.recovering = FALSE
    <2>1. end.following = FALSE /\ end.attempts = t.attempts
        BY DEF Trees
    <2>4. end \in Trees
        <3> DEFINE at == "wait"
                   none == 0
                   yes == TRUE
                   no == FALSE
        <3>1. /\ at \in {"keep", "data", "hold", "compute", "check", "wait"} /\ none \in 0 .. 1
              /\ yes \in BOOLEAN /\ no \in BOOLEAN
            OBVIOUS
        <3>2. end = [t EXCEPT !.at = at, !.tries = none, !.following = no, !.recovering = yes]
            OBVIOUS
        <3> HIDE DEF at, none, yes, no, end
        <3> QED  BY <3>1, <3>2 DEF Trees
    <2>2. off \in Trees /\ off.following = FALSE /\ off.recovering = FALSE
        BY DEF Trees
    <2>3. on \in Trees /\ on.recovering = FALSE
        BY DEF Trees
    <2> QED  BY <2>1, <2>2, <2>3, <2>4
<1>3. ASSUME NEW c \in Boards, PipelineFails(c, t)
      PROVE  /\ tree' \in Trees /\ board' \in Boards /\ tree'.following = FALSE
             /\ RetryLeft(tree', board')
    <2>1. CASE ~c.wait /\ t.attempts >= Retries
        BY <1>3, <2>1, HaltFacts DEF PipelineFails, RetryLeft
    <2>2. CASE ~(~c.wait /\ t.attempts >= Retries)
        <3>1. tree' = end /\ board' = c
            BY <1>3, <2>2 DEF PipelineFails
        <3>2. c.wait \/ t.attempts < Retries
            BY <2>2, TreeAssumption DEF Trees
        <3> HIDE DEF end
        <3> QED  BY <1>2, <3>1, <3>2 DEF RetryLeft
    <2> QED  BY <2>1, <2>2
<1>4. CASE PipelineFails(low, t)
    BY <1>1, <1>3, <1>4
<1>5. CASE HaltTree("succeeded", low)
    BY <1>1, <1>5, HaltFacts DEF RetryLeft
<1>6. CASE tree' = off /\ board' = low
    <2> HIDE DEF off, low
    <2> QED  BY <1>1, <1>2, <1>6 DEF RetryLeft
<1>7. ASSUME tree' = on, board' = low,
             planning = "success" \/ (planning = "running" /\ t.following /\ ~b.stop)
      PROVE  /\ tree' \in Trees /\ board' \in Boards
             /\ tree'.following => \/ planning = "success"
                                   \/ planning = "running" /\ t.following /\ ~b.stop
             /\ RetryLeft(tree', board')
    <2> HIDE DEF on, low
    <2>1. tree' \in Trees /\ board' \in Boards
        BY <1>1, <1>2, <1>7
    <2>2. tree'.recovering = FALSE
        BY <1>2, <1>7
    <2>3. RetryLeft(tree', board')
        BY <2>2 DEF RetryLeft
    <2> QED  BY <1>7, <2>1, <2>3
<1> QED  BY <1>4, <1>5, <1>6, <1>7 DEF Pipeline

(* The planning branch reports, and the pipeline over it goes on.          *)
LEMMA PipelineKeeps ==
    ASSUME TreeInv, ~tree.recovering, NEW b \in Boards, NEW at, NEW tries \in 0 .. 1,
           at \in {"keep", "data", "hold", "compute", "check"},
           NEW planning \in {"success", "running", "failure"},
           Pipeline(planning, b, [tree EXCEPT !.at = at, !.tries = tries]),
           wait' \in Waits, timeouts' \in 0 .. MaxTimeouts, against' \in BOOLEAN,
           word' \in [answer : {"none", "keep", "replan", "stop"}, approved : SUBSET Paths],
           WaitOK(wait', word'.approved),
           planning = "success" => word'.answer = "keep",
           planning = "running" /\ ~b.stop => word'.answer \in {word.answer, "keep", "replan"}
    PROVE  TreeInv'
<1> DEFINE t == [tree EXCEPT !.at = at, !.tries = tries]
<1>1. t \in Trees /\ t.recovering = FALSE /\ t.following = tree.following
    BY DEF TreeInv, TreeTypeOK, Trees
<1> HIDE DEF t
<1>2. Pipeline(planning, b, t)
    BY DEF t
<1>3. /\ tree' \in Trees /\ board' \in Boards /\ RetryLeft(tree', board')
      /\ tree'.following => \/ planning = "success"
                            \/ planning = "running" /\ t.following /\ ~b.stop
    BY <1>1, <1>2, PipelineFacts
<1>4. FollowsOnWord'
    <2>1. tree.following => word.answer \in {"keep", "replan"}
        BY DEF TreeInv, FollowsOnWord
    <2> QED  BY <1>1, <1>3, <2>1 DEF FollowsOnWord
<1>5. TreeTypeOK'
    BY <1>3 DEF TreeTypeOK, Trees, Boards, Waits
<1> QED  BY <1>3, <1>4, <1>5 DEF TreeInv

LEMMA BranchKeeps ==
    ASSUME TreeInv, ~tree.recovering, NEW b \in Boards, BranchFails(b),
           wait' \in Waits, timeouts' \in 0 .. MaxTimeouts, against' \in BOOLEAN,
           word' \in [answer : {"none", "keep", "replan", "stop"}, approved : SUBSET Paths],
           WaitOK(wait', word'.approved), word'.answer = word.answer
    PROVE  TreeInv'
<1>1. CASE Pipeline("running", b, [tree EXCEPT !.at = "keep", !.tries = 1])
    <2>1. 1 \in 0 .. 1 /\ ~("running" = "success")
        OBVIOUS
    <2> QED  BY <1>1, <2>1, PipelineKeeps
<1>2. CASE Pipeline("failure", b, [tree EXCEPT !.at = "keep", !.tries = 0])
    <2>1. 0 \in 0 .. 1 /\ ~("failure" = "success") /\ ~("failure" = "running")
        OBVIOUS
    <2> QED  BY <1>2, <2>1, PipelineKeeps
<1> QED  BY <1>1, <1>2 DEF BranchFails

LEMMA TreeFacts ==
    ASSUME TreeInv
    PROVE  /\ wait \in Waits /\ board \in Boards /\ tree \in Trees /\ against \in BOOLEAN
           /\ timeouts \in 0 .. MaxTimeouts /\ tree.tries \in 0 .. 1
           /\ tree.at \in {"keep", "data", "hold", "compute", "check", "wait"}
           /\ board.path \in Paths \cup {NoPath} /\ board.candidate \in Paths \cup {NoPath}
           /\ word \in [answer : {"none", "keep", "replan", "stop"}, approved : SUBSET Paths]
           /\ WaitOK(wait, word.approved)
<1>1. tree \in Trees /\ board \in Boards /\ wait \in Waits
    BY DEF TreeInv, TreeTypeOK, Trees, Boards, Waits
<1>2. tree.tries \in 0 .. 1 /\ tree.at \in {"keep", "data", "hold", "compute", "check", "wait"}
    BY <1>1 DEF Trees
<1>3. board.path \in Paths \cup {NoPath} /\ board.candidate \in Paths \cup {NoPath}
    BY <1>1 DEF Boards
<1> QED  BY <1>1, <1>2, <1>3 DEF TreeInv, TreeTypeOK

(* The three looks of the planning branch at the path on the blackboard.   *)
LEMMA LooksKeep ==
    ASSUME TreeInv, KeepHealthyPath \/ StopAndWaitForPathData \/ EndHold
    PROVE  TreeInv' /\ AdoptionStep
<1>1. PICK h \in GuardAnswers(board.path, FALSE) :
          /\ Evaluated(board.path, h, FALSE)
          /\ \/ /\ h.state = "keep" /\ tree.at = "keep"
                /\ Pipeline("success", AfterAnswer(h, FALSE), [tree EXCEPT !.tries = 0])
             \/ \E at \in {"data", "hold", "compute"} :
                    Pipeline("running", AfterAnswer(h, FALSE), [tree EXCEPT !.at = at])
    <2>1. CASE KeepHealthyPath
        BY <2>1 DEF KeepHealthyPath, InPipeline
    <2>2. CASE StopAndWaitForPathData
        BY <2>2 DEF StopAndWaitForPathData
    <2>3. CASE EndHold
        BY <2>3 DEF EndHold
    <2> QED  BY <2>1, <2>2, <2>3
<1>2. ~tree.recovering /\ against' = against
    BY DEF KeepHealthyPath, StopAndWaitForPathData, EndHold, InPipeline
<1>3. /\ wait' \in Waits /\ timeouts' \in 0 .. MaxTimeouts
      /\ word' \in [answer : {"none", "keep", "replan", "stop"}, approved : SUBSET Paths]
      /\ WaitOK(wait', word'.approved)
      /\ wait.left >= 0 /\ wait'.left < 0 => board.path \in word.approved
      /\ h.state \in {"none", "keep", "replan", "stop"}
      /\ word'.answer = h.state
    BY <1>1, TreeFacts, EvaluatedFacts
<1>4. AdoptionStep
    BY <1>3 DEF AdoptionStep
<1> DEFINE b == AfterAnswer(h, FALSE)
<1>5. b \in Boards /\ (h.state \in {"none", "stop"} => b.stop = TRUE)
    BY TreeFacts, AfterAnswerFacts
<1>6. h.state = "keep" \/ h.state = "replan" \/ b.stop = TRUE
    BY <1>3, <1>5
<1> HIDE DEF b
<1>7. CASE h.state = "keep" /\ tree.at = "keep" /\ Pipeline("success", b, [tree EXCEPT !.tries = 0])
    <2>1. [tree EXCEPT !.tries = 0] = [tree EXCEPT !.at = "keep", !.tries = 0]
        BY <1>7, TreeFacts DEF Trees
    <2>2. Pipeline("success", b, [tree EXCEPT !.at = "keep", !.tries = 0])
        BY <1>7, <2>1
    <2>3. 0 \in 0 .. 1 /\ word'.answer = "keep" /\ against' \in BOOLEAN
        BY <1>2, <1>3, <1>7, TreeFacts
    <2> QED  BY <1>2, <1>3, <1>4, <1>5, <2>2, <2>3, PipelineKeeps
<1>8. ASSUME NEW at \in {"data", "hold", "compute"}, Pipeline("running", b, [tree EXCEPT !.at = at])
      PROVE  TreeInv'
    <2>1. [tree EXCEPT !.at = at] = [tree EXCEPT !.at = at, !.tries = tree.tries]
        BY TreeFacts DEF Trees
    <2>2. Pipeline("running", b, [tree EXCEPT !.at = at, !.tries = tree.tries])
        BY <1>8, <2>1
    <2>3. ~b.stop => word'.answer \in {word.answer, "keep", "replan"}
        BY <1>3, <1>6
    <2> QED  BY <1>2, <1>3, <1>5, <2>2, <2>3, TreeFacts, PipelineKeeps
<1> QED  BY <1>1, <1>4, <1>7, <1>8 DEF b

(* A step of the tree that asks nobody.                                    *)
LEMMA UnaskedFacts ==
    ASSUME TreeInv, UNCHANGED <<wait, against, timeouts, word>>
    PROVE  /\ wait' \in Waits /\ timeouts' \in 0 .. MaxTimeouts /\ against' \in BOOLEAN
           /\ word' \in [answer : {"none", "keep", "replan", "stop"}, approved : SUBSET Paths]
           /\ WaitOK(wait', word'.approved) /\ word'.answer = word.answer
           /\ AdoptionStep
<1>1. wait.left \in Int /\ wait' = wait /\ wait'.left = wait.left
    BY TreeFacts DEF Waits
<1>2. AdoptionStep
    BY <1>1 DEF AdoptionStep
<1> QED  BY <1>1, <1>2, TreeFacts

(* The other steps of the tree.                                            *)
LEMMA CandidatesKeep ==
    ASSUME TreeInv, ComputePath \/ CheckCandidate
    PROVE  TreeInv' /\ AdoptionStep
<1> USE TreeFacts
<1>1. ~tree.recovering
    BY DEF ComputePath, CheckCandidate, InPipeline
<1>2. CASE ComputePath
    <2>1. UNCHANGED <<wait, against, timeouts, word>>
        BY <1>2 DEF ComputePath
    <2>4. /\ wait' \in Waits /\ timeouts' \in 0 .. MaxTimeouts /\ against' \in BOOLEAN
          /\ word' \in [answer : {"none", "keep", "replan", "stop"}, approved : SUBSET Paths]
          /\ WaitOK(wait', word'.approved) /\ word'.answer = word.answer
          /\ AdoptionStep
        BY <2>1, UnaskedFacts
    <2>2. ASSUME NEW p \in Paths, Pipeline("running", [board EXCEPT !.candidate = p],
                                           [tree EXCEPT !.at = "check"])
          PROVE  TreeInv'
        <3> DEFINE b == [board EXCEPT !.candidate = p]
        <3>1. b \in Boards
            BY DEF Boards
        <3> HIDE DEF b
        <3>2. [tree EXCEPT !.at = "check"] = [tree EXCEPT !.at = "check", !.tries = tree.tries]
            BY DEF Trees
        <3>3. Pipeline("running", b, [tree EXCEPT !.at = "check", !.tries = tree.tries])
            BY <2>2, <3>2 DEF b
        <3>4. word'.answer = word.answer /\ ~("running" = "success")
            BY <2>1
        <3> QED  BY <1>1, <2>4, <3>1, <3>3, <3>4, PipelineKeeps
    <2>3. CASE BranchFails(board)
        BY <1>1, <2>3, <2>4, BranchKeeps
    <2> QED  BY <1>2, <2>2, <2>3, <2>4 DEF ComputePath
<1>3. CASE CheckCandidate
    <2>1. PICK h \in GuardAnswers(board.candidate, TRUE) :
              /\ Evaluated(board.candidate, h, TRUE)
              /\ IF h.state = "keep"
                 THEN Pipeline("success", CopyPath(AfterAnswer(h, TRUE)),
                               [tree EXCEPT !.at = "keep", !.tries = 0])
                 ELSE BranchFails(AfterAnswer(h, TRUE))
              /\ UNCHANGED against
        BY <1>3 DEF CheckCandidate
    <2>2. /\ wait' \in Waits /\ timeouts' \in 0 .. MaxTimeouts
          /\ word' \in [answer : {"none", "keep", "replan", "stop"}, approved : SUBSET Paths]
          /\ WaitOK(wait', word'.approved)
          /\ ~(wait.left >= 0 /\ wait'.left < 0)
          /\ word'.answer = IF h.state # "keep" THEN word.answer ELSE h.state
        BY <2>1, EvaluatedFacts
    <2> DEFINE b == AfterAnswer(h, TRUE)
    <2>3. b \in Boards
        BY AfterAnswerFacts
    <2>4. CopyPath(b) \in Boards
        BY <2>3 DEF CopyPath, Boards
    <2> DEFINE c == CopyPath(b)
    <2>5. CASE h.state = "keep"
        <3>1. Pipeline("success", c, [tree EXCEPT !.at = "keep", !.tries = 0])
            BY <2>1, <2>5
        <3>2. 0 \in 0 .. 1 /\ ~("success" = "running")
            OBVIOUS
        <3>3. word'.answer = "keep"
            BY <2>2, <2>5
        <3>4. against' = against
            BY <2>1
        <3>5. against' \in BOOLEAN
            BY <3>4, <1>1, TreeFacts
        <3>6. c \in Boards
            BY <2>4
        <3> HIDE DEF b, c
        <3>7. TreeInv'
            BY <1>1, <2>2, <3>1, <3>2, <3>3, <3>5, <3>6, PipelineKeeps
        <3> QED  BY <2>2, <3>7 DEF AdoptionStep
    <2>6. CASE h.state # "keep"
        <3>1. BranchFails(b) /\ against' \in BOOLEAN /\ word'.answer = word.answer
            BY <1>1, <2>1, <2>2, <2>6, TreeFacts
        <3> HIDE DEF b, c
        <3> QED  BY <1>1, <2>2, <2>3, <3>1, BranchKeeps DEF AdoptionStep
    <2> QED  BY <2>5, <2>6
<1> QED  BY <1>2, <1>3

LEMMA RecoveryEndKeeps ==
    ASSUME TreeInv, tree.recovering, NEW b \in Boards, board.wait => b.wait, NEW ok \in BOOLEAN,
           RecoveryEnds(ok, b), wait' \in Waits, timeouts' \in 0 .. MaxTimeouts, against' \in BOOLEAN,
           word' \in [answer : {"none", "keep", "replan", "stop"}, approved : SUBSET Paths],
           WaitOK(wait', word'.approved), word'.answer \in {word.answer, "keep"}
    PROVE  TreeInv'
<1>1. CASE HaltTree("failed", b)
    BY <1>1, HaltFacts DEF TreeInv, TreeTypeOK, FollowsOnWord, RetryLeft, Trees, Boards, Waits
<1>2. CASE ~HaltTree("failed", b)
    <2> DEFINE n == IF b.wait THEN tree.attempts ELSE tree.attempts + 1
               at == "keep"
               no == FALSE
    <2>1. n \in 0 .. Retries
        <3>1. tree.attempts \in 0 .. Retries /\ Retries \in Nat
            BY TreeFacts, TreeAssumption DEF Trees
        <3>2. ~b.wait => tree.attempts < Retries
            BY DEF TreeInv, RetryLeft
        <3> QED  BY <3>1, <3>2
    <2>2. tree' = [tree EXCEPT !.recovering = no, !.at = at, !.attempts = n] /\ board' = b
        BY <1>2 DEF RecoveryEnds
    <2>3. no \in BOOLEAN /\ at \in {"keep", "data", "hold", "compute", "check", "wait"} /\ no = FALSE
        OBVIOUS
    <2> HIDE DEF n, at, no
    <2>4. tree' \in Trees /\ tree'.recovering = FALSE /\ tree'.following = tree.following
        BY <2>1, <2>2, <2>3, TreeFacts DEF Trees
    <2>5. FollowsOnWord'
        BY <2>4 DEF TreeInv, FollowsOnWord
    <2>6. TreeTypeOK'
        BY <2>2, <2>4 DEF TreeTypeOK, Trees, Boards, Waits
    <2> QED  BY <2>4, <2>5, <2>6 DEF TreeInv, RetryLeft
<1> QED  BY <1>1, <1>2

LEMMA RecoveriesKeep ==
    ASSUME TreeInv, RecoveryWait \/ RecoveryCompute \/ RecoveryCheck
    PROVE  TreeInv' /\ AdoptionStep
<1> USE TreeFacts
<1>1. tree.recovering
    BY DEF RecoveryWait, RecoveryCompute, RecoveryCheck, Recovering
<1>2. ASSUME NEW at \in {"compute", "check"}, tree' = [tree EXCEPT !.at = at],
             board' \in Boards, board'.wait = board.wait, UNCHANGED <<wait, against, timeouts, word>>
      PROVE  TreeInv'
    <2>1. /\ tree' \in Trees /\ tree'.recovering = tree.recovering /\ tree'.attempts = tree.attempts
          /\ tree'.following = tree.following
        BY <1>2 DEF Trees
    <2>2. FollowsOnWord' /\ RetryLeft(tree', board')
        BY <1>2, <2>1 DEF TreeInv, FollowsOnWord, RetryLeft
    <2>3. TreeTypeOK'
        BY <1>2, <2>1 DEF TreeTypeOK, Trees, Boards, Waits
    <2> QED  BY <1>2, <2>2, <2>3 DEF TreeInv
<1>3. CASE RecoveryWait
    <2>1. tree' = [tree EXCEPT !.at = "compute"] /\ board' = board
          /\ UNCHANGED <<wait, against, timeouts, word>>
        BY <1>3 DEF RecoveryWait
    <2>2. TreeInv'
        BY <1>2, <2>1
    <2> QED  BY <2>1, <2>2, UnaskedFacts
<1>4. CASE RecoveryCompute
    <2>1. UNCHANGED <<wait, against, timeouts, word>>
        BY <1>4 DEF RecoveryCompute
    <2>2. ASSUME NEW p \in Paths, tree' = [tree EXCEPT !.at = "check"],
                 board' = [board EXCEPT !.candidate = p]
          PROVE  TreeInv'
        <3>1. board' \in Boards /\ board'.wait = board.wait
            BY <2>2 DEF Boards
        <3> QED  BY <1>2, <2>1, <2>2, <3>1
    <2>4. /\ wait' \in Waits /\ timeouts' \in 0 .. MaxTimeouts /\ against' \in BOOLEAN
          /\ word' \in [answer : {"none", "keep", "replan", "stop"}, approved : SUBSET Paths]
          /\ WaitOK(wait', word'.approved) /\ word'.answer = word.answer
          /\ AdoptionStep
        BY <2>1, UnaskedFacts
    <2>3. CASE RecoveryEnds(FALSE, board)
        <3>1. FALSE \in BOOLEAN /\ (board.wait => board.wait) /\ word'.answer \in {word.answer, "keep"}
            BY <2>4
        <3> QED  BY <1>1, <2>3, <2>4, <3>1, RecoveryEndKeeps
    <2> QED  BY <1>4, <2>2, <2>3, <2>4 DEF RecoveryCompute
<1>5. CASE RecoveryCheck
    <2>1. PICK h \in GuardAnswers(board.candidate, TRUE) :
              /\ Evaluated(board.candidate, h, TRUE)
              /\ IF h.state = "keep"
                 THEN RecoveryEnds(TRUE, CopyPath(AfterAnswer(h, TRUE)))
                 ELSE RecoveryEnds(FALSE, AfterAnswer(h, TRUE))
              /\ UNCHANGED against
        BY <1>5 DEF RecoveryCheck
    <2>2. /\ wait' \in Waits /\ timeouts' \in 0 .. MaxTimeouts
          /\ word' \in [answer : {"none", "keep", "replan", "stop"}, approved : SUBSET Paths]
          /\ WaitOK(wait', word'.approved)
          /\ ~(wait.left >= 0 /\ wait'.left < 0)
          /\ word'.answer \in {word.answer, "keep"}
        BY <2>1, EvaluatedFacts
    <2> DEFINE b == AfterAnswer(h, TRUE)
               c == CopyPath(b)
    <2>3. b \in Boards /\ (board.wait => b.wait)
        BY AfterAnswerFacts
    <2>4. c \in Boards /\ c.wait = b.wait
        BY <2>3 DEF CopyPath, Boards
    <2>5. \/ RecoveryEnds(TRUE, c)
          \/ RecoveryEnds(FALSE, b)
        BY <2>1
    <2>6. against' \in BOOLEAN
        BY <2>1, <1>1, TreeFacts
    <2> HIDE DEF b, c
    <2>7. board.wait => c.wait
        BY <2>3, <2>4
    <2> QED  BY <1>1, <2>2, <2>3, <2>4, <2>5, <2>6, <2>7, RecoveryEndKeeps DEF AdoptionStep
<1> QED  BY <1>3, <1>4, <1>5

LEMMA TreeInvStep == TreeInv /\ [TreeNext]_treeVars => TreeInv' /\ AdoptionStep
<1> SUFFICES ASSUME TreeInv, [TreeNext]_treeVars PROVE TreeInv' /\ AdoptionStep
    OBVIOUS
<1>1. CASE KeepHealthyPath \/ StopAndWaitForPathData \/ EndHold
    BY <1>1, LooksKeep
<1>2. CASE ComputePath \/ CheckCandidate
    BY <1>2, CandidatesKeep
<1>3. CASE RecoveryWait \/ RecoveryCompute \/ RecoveryCheck
    BY <1>3, RecoveriesKeep
<1>4. CASE TerminalTick
    <2>1. /\ tree' \in Trees /\ board' \in Boards
          /\ tree'.following = FALSE /\ tree'.recovering = FALSE
        BY <1>4, TreeFacts, HaltFacts DEF TerminalTick
    <2> QED  BY <1>4, <2>1, TreeFacts DEF TerminalTick, TreeInv, TreeTypeOK, FollowsOnWord, RetryLeft,
                                          AdoptionStep, Trees, Boards, Waits
<1>5. CASE NewGoal
    <2> DEFINE at == "data"
    <2>1. Halted("running") \in Trees /\ Halted("running").following = FALSE
          /\ Halted("running").recovering = FALSE
        BY TreeAssumption DEF Halted, Trees
    <2>2. tree' = [Halted("running") EXCEPT !.at = at]
        BY <1>5 DEF NewGoal
    <2>3. tree' \in Trees /\ tree'.following = FALSE /\ tree'.recovering = FALSE
        BY <2>1, <2>2 DEF Trees
    <2>4. board' \in Boards
        BY <1>5, TreeFacts DEF NewGoal, Boards
    <2>5. wait' \in Waits /\ WaitOK(wait', word'.approved)
        BY <1>5, ClearFacts DEF NewGoal, WaitOK
    <2>6. word' \in [answer : {"none", "keep", "replan", "stop"}, approved : SUBSET Paths]
        <3>1. word' = [answer |-> "none", approved |-> {}]
            BY <1>5 DEF NewGoal
        <3> QED  BY <3>1
    <2>7. against' = against /\ timeouts' = timeouts /\ AdoptionStep
        BY <1>5 DEF NewGoal, AdoptionStep
    <2> QED  BY <2>3, <2>4, <2>5, <2>6, <2>7, TreeFacts
             DEF TreeInv, TreeTypeOK, FollowsOnWord, RetryLeft, Trees, Boards, Waits
<1>6. CASE RobotTurns
    BY <1>6 DEF RobotTurns, TreeInv, TreeTypeOK, FollowsOnWord, RetryLeft, WaitOK, AdoptionStep
<1>7. ASSUME wait' \in Waits, wait.left >= 0, wait'.left >= 0, wait'.approved = wait.approved,
             UNCHANGED <<against, board, tree, timeouts, word>>
      PROVE  TreeInv' /\ AdoptionStep
    <2>1. wait'.left \in Int /\ wait.left \in Int
        BY <1>7, TreeFacts DEF Waits
    <2>2. WaitOK(wait', word'.approved)
        BY <1>7, <2>1, TreeFacts DEF WaitOK
    <2>3. AdoptionStep
        BY <1>7, <2>1 DEF AdoptionStep
    <2>4. TreeTypeOK' /\ FollowsOnWord' /\ RetryLeft(tree', board')
        BY <1>7, TreeFacts DEF TreeInv, TreeTypeOK, FollowsOnWord, Waits
    <2> QED  BY <2>2, <2>3, <2>4 DEF TreeInv
<1>8. CASE ElapseWait
    <2> DEFINE n == wait.left - 1
    <2>1. wait' = [wait EXCEPT !.left = n] /\ n \in -1 .. WaitTicks /\ n >= 0
        BY <1>8, TreeFacts, TreeAssumption DEF ElapseWait, Waits
    <2>2. wait.left >= 0 /\ UNCHANGED <<against, board, tree, timeouts, word>>
        BY <1>8, TreeFacts DEF ElapseWait, Waits
    <2> HIDE DEF n
    <2>3. wait' \in Waits /\ wait'.left = n /\ wait'.approved = wait.approved
        BY <2>1, TreeFacts DEF Waits
    <2> QED  BY <1>7, <2>1, <2>2, <2>3
<1>9. CASE TickManeuverWait
    <2>1. wait' = [wait EXCEPT !.terminal = TRUE] /\ wait.left = 0
          /\ UNCHANGED <<against, board, tree, timeouts, word>>
        BY <1>9 DEF TickManeuverWait
    <2>2. wait' \in Waits /\ wait'.left = wait.left /\ wait'.approved = wait.approved
        BY <2>1, TreeFacts DEF Waits
    <2> QED  BY <1>7, <2>1, <2>2
<1>10. CASE UNCHANGED treeVars
    BY <1>10 DEF treeVars, TreeInv, TreeTypeOK, FollowsOnWord, RetryLeft, WaitOK, AdoptionStep
<1> QED  BY <1>1, <1>2, <1>3, <1>4, <1>5, <1>6, <1>8, <1>9, <1>10 DEF TreeNext, TickTree

(* The controller follows a path only on the guard's word, whatever branch *)
(* of the tree asked last (GuardedPipeline, PathHealthCondition).          *)
THEOREM TreeFollowsOnWord == TreeSpec => []FollowsOnWord
<1>1. TreeInv => FollowsOnWord
    BY DEF TreeInv
<1> QED  BY <1>1, TreeInvInit, TreeInvStep, PTL DEF TreeSpec

(* A wait for a maneuver ends only with the next goal or with the adoption *)
(* of a path approved during this very wait (ManeuverWait.observe).        *)
THEOREM TreeOnlyAdoptionClears == TreeSpec => OnlyAdoptionClears
<1>1. TreeInv /\ [TreeNext]_treeVars => [AdoptionStep]_treeVars
    BY TreeInvStep
<1> QED  BY <1>1, TreeInvInit, TreeInvStep, PTL DEF TreeSpec, OnlyAdoptionClears

-----------------------------------------------------------------------------
(* CockpitState, for any number of moves, questions and measurements: what *)
(* is cached, queued, awaited and shown stays within its types.            *)

Questions == [to : {"asker", "everyone"}, seen : Cache]

LEMMA PutTypes ==
    ASSUME NEW q \in Seq(Payload), NEW payload \in Payload
    PROVE  PutReplaceable(q, payload) \in Seq(Payload)
<1>1. Append(q, payload) \in Seq(Payload)
    BY AppendProperties
<1>2. ASSUME NEW k PROVE [q EXCEPT ![k] = payload] \in Seq(Payload)
    <2>1. CASE k \in 1 .. Len(q)
        BY <2>1, ExceptSeq
    <2>2. CASE k \notin 1 .. Len(q)
        <3>1. q = [i \in 1 .. Len(q) |-> q[i]] /\ DOMAIN q = 1 .. Len(q)
            BY LenProperties
        <3>2. [q EXCEPT ![k] = payload] = q
            BY <2>2, <3>1
        <3> QED  BY <3>2
    <2> QED  BY <2>1, <2>2
<1>3. PICK same : PutReplaceable(q, payload) =
                    IF same = 0 THEN Append(q, payload) ELSE [q EXCEPT ![same] = payload]
    BY DEF PutReplaceable
<1> QED  BY <1>1, <1>2, <1>3

LEMMA CockpitFacts ==
    ASSUME CockpitTypeOK
    PROVE  /\ robot.manual \in BOOLEAN /\ robot.goal \in BOOLEAN
           /\ cache.manual \in BOOLEAN /\ cache.goal \in BOOLEAN /\ cache.mode \in Modes
           /\ cache.gps \in Gps /\ cache.fine \in 0 .. MaxFine
           /\ pacing.signature \in Signature \union {NoSignature}
           /\ pacing.dirty \in BOOLEAN /\ pacing.elapsed \in BOOLEAN
           /\ Questions = [to : {"asker", "everyone"}, seen : Cache] /\ answers \in Seq(Questions)
BY DEF CockpitTypeOK, Robot, Cache, Policy, Questions

LEMMA EmitTypes ==
    ASSUME CockpitTypeOK, NEW c \in Cache, Emit(c)
    PROVE  queue' \in Seq(Payload)
<1> DEFINE p == [op |-> "nav_telemetry", seen |-> c]
<1>1. p \in Payload
    BY DEF Payload
<1>2. queue' = PutReplaceable(queue, p)
    BY DEF Emit
<1> HIDE DEF p
<1> QED  BY <1>1, <1>2, PutTypes DEF CockpitTypeOK

LEMMA MarkTypes ==
    ASSUME NEW p \in Policy
    PROVE  MarkEmitted(p) \in Policy
BY DEF MarkEmitted, Policy

(* The gate lets a change through at once, or keeps it for its timer.      *)
LEMMA ChangeTypes ==
    ASSUME CockpitTypeOK, NEW c \in Cache, CachedTelemetryChange(c)
    PROVE  queue' \in Seq(Payload) /\ pacing' \in Policy
<1>1. queue \in Seq(Payload) /\ pacing \in Policy
    BY DEF CockpitTypeOK
<1>2. CASE profile = "full"
    <2>1. Emit(c) /\ pacing' = pacing
        BY <1>2 DEF CachedTelemetryChange
    <2> QED  BY <1>1, <2>1, EmitTypes
<1>3. CASE profile # "full"
    <2> DEFINE s == SignatureOf(c)
               yes == TRUE
               observed == [pacing EXCEPT !.signature = s, !.dirty = yes]
    <2>1. s \in Signature \union {NoSignature} /\ yes \in BOOLEAN
        BY DEF SignatureOf, Signature, Cache
    <2>2. \/ pacing' = MarkEmitted(observed) /\ Emit(c)
          \/ pacing' = observed /\ queue' = queue
        BY <1>3 DEF CachedTelemetryChange
    <2> HIDE DEF s, yes
    <2>3. observed \in Policy
        BY <1>1, <2>1 DEF Policy
    <2> HIDE DEF observed
    <2> QED  BY <1>1, <2>2, <2>3, MarkTypes, EmitTypes
<1> QED  BY <1>2, <1>3

LEMMA CockpitTypeInit == CockpitInit => CockpitTypeOK
<1> SUFFICES ASSUME CockpitInit PROVE CockpitTypeOK
    OBVIOUS
<1>1. robot \in Robot
    <2>1. robot = [manual |-> FALSE, goal |-> FALSE]
        BY DEF CockpitInit
    <2>2. robot \in [manual : BOOLEAN, goal : BOOLEAN] /\ robot.manual = FALSE
        BY <2>1
    <2> QED  BY <2>2 DEF Robot
<1>2. cache \in Cache
    <2> DEFINE z == 0
    <2>1. z \in 0 .. MaxFine
        BY CockpitAssumption
    <2>2. cache = [manual |-> FALSE, goal |-> FALSE, mode |-> "connected", gps |-> "none", fine |-> z]
        BY DEF CockpitInit
    <2> HIDE DEF z
    <2> QED  BY <2>1, <2>2 DEF Cache, Modes, Gps
<1>3. pacing \in Policy
    BY DEF CockpitInit, Policy
<1>4. answers \in Seq([to : {"asker", "everyone"}, seen : Cache]) /\ queue \in Seq(Payload)
    BY EmptySeq DEF CockpitInit
<1>5. nMoves \in 0 .. MaxMoves /\ nAsks \in 0 .. MaxAsks
    BY CockpitAssumption DEF CockpitInit
<1>6. profile \in ViewProfiles /\ screen = cache /\ typed \in BOOLEAN
    BY DEF CockpitInit
<1> QED  BY <1>1, <1>2, <1>3, <1>4, <1>5, <1>6 DEF CockpitTypeOK

(* What arrives from ROS.                                                  *)
LEMMA CallbackTypes ==
    ASSUME CockpitTypeOK, OnNavTelemetry \/ OnMeasurement \/ OnRtk \/ OnGnssRtkStatus
    PROVE  CockpitTypeOK'
<1>1. UNCHANGED <<profile, robot, answers, screen, nMoves, nAsks>> /\ CachedTelemetryChange(cache')
      /\ typed' \in BOOLEAN
    BY DEF OnNavTelemetry, OnMeasurement, OnRtk, OnGnssRtkStatus, CockpitTypeOK
<1>2. cache' \in Cache
    <2>1. CASE OnNavTelemetry
        <3> DEFINE m == robot.manual
                   g == robot.goal
                   at == IF robot.manual THEN "manual" ELSE IF robot.goal THEN "navigating" ELSE "idle"
        <3>1. cache' = [cache EXCEPT !.manual = m, !.goal = g, !.mode = at]
            BY <2>1 DEF OnNavTelemetry
        <3>2. m \in BOOLEAN /\ g \in BOOLEAN /\ at \in Modes
            BY CockpitFacts DEF Modes
        <3> HIDE DEF m, g, at
        <3> QED  BY <3>1, <3>2 DEF CockpitTypeOK, Cache
    <2>2. CASE OnMeasurement
        <3> DEFINE n == cache.fine + 1
        <3>1. cache' = [cache EXCEPT !.fine = n]
            BY <2>2 DEF OnMeasurement
        <3>2. n \in 0 .. MaxFine
            BY <2>2, CockpitFacts, CockpitAssumption DEF OnMeasurement
        <3> HIDE DEF n
        <3> QED  BY <3>1, <3>2 DEF CockpitTypeOK, Cache
    <2>3. CASE OnRtk
        <3>1. cache' = [cache EXCEPT !.gps = "legacy"]
            BY <2>3 DEF OnRtk
        <3> QED  BY <3>1 DEF CockpitTypeOK, Cache, Gps
    <2>4. CASE OnGnssRtkStatus
        <3>1. cache' = [cache EXCEPT !.gps = "typed"]
            BY <2>4 DEF OnGnssRtkStatus
        <3> QED  BY <3>1 DEF CockpitTypeOK, Cache, Gps
    <2> QED  BY <2>1, <2>2, <2>3, <2>4
<1>3. queue' \in Seq(Payload) /\ pacing' \in Policy
    BY <1>1, <1>2, ChangeTypes
<1> QED  BY <1>1, <1>2, <1>3 DEF CockpitTypeOK

(* A state answer is put together and sent.                                *)
LEMMA StateTypes ==
    ASSUME CockpitTypeOK, NEW i \in 1 .. Len(answers), NEW answered \in BOOLEAN,
           StateAnswered(i, answered)
    PROVE  CockpitTypeOK'
<1> DEFINE copied == answers[i].seen
           state == Overlay(copied, answered)
           own == [op |-> "state", seen |-> state]
           all == [op |-> "nav_telemetry", seen |-> state]
           asked == PutReplaceable(queue, own)
<1>1. state \in Cache
    <2>1. copied \in Cache
        <3>1. answers[i] \in Questions
            BY CockpitFacts, ElementOfSeq
        <3> QED  BY <3>1 DEF Questions
    <2>2. state = IF answered THEN [copied EXCEPT !.manual = robot.manual, !.goal = robot.goal] ELSE copied
        BY DEF Overlay
    <2> HIDE DEF copied, state
    <2> QED  BY <2>1, <2>2, CockpitFacts DEF Cache
<1> HIDE DEF state
<1>2. own \in Payload /\ all \in Payload
    BY <1>1 DEF Payload
<1> HIDE DEF own, all
<1>3. asked \in Seq(Payload)
    BY <1>2, PutTypes DEF CockpitTypeOK
<1> HIDE DEF asked
<1>4. queue' = asked \/ queue' = PutReplaceable(asked, all)
    BY DEF StateAnswered, asked, all, own, state
<1>5. queue' \in Seq(Payload)
    BY <1>2, <1>3, <1>4, PutTypes
<1>6. answers' \in Seq(Questions)
    <2> DEFINE a == SubSeq(answers, 1, i - 1)
               b == SubSeq(answers, i + 1, Len(answers))
    <2>1. answers' = a \o b
        BY DEF StateAnswered, RemoveAt
    <2>2. answers \in Seq(Questions) /\ Len(answers) \in Nat
        BY CockpitFacts, LenProperties
    <2>3. a \in Seq(Questions) /\ b \in Seq(Questions)
        BY <2>2, SubSeqProperties
    <2> HIDE DEF a, b
    <2> QED  BY <2>1, <2>3, ConcatProperties
<1> QED  BY <1>5, <1>6 DEF StateAnswered, CockpitTypeOK, Questions

LEMMA ShownTypes ==
    ASSUME CockpitTypeOK, Shown
    PROVE  CockpitTypeOK'
<1> DEFINE copied == Head(queue).seen
           gps == IF copied.gps = "none" THEN screen.gps ELSE copied.gps
<1>1. queue \in Seq(Payload) /\ queue # <<>>
    BY DEF Shown, CockpitTypeOK
<1>2. Head(queue) \in Payload /\ Tail(queue) \in Seq(Payload)
    BY <1>1, HeadTailProperties
<1>3. copied \in Cache
    BY <1>2 DEF Payload
<1>4. screen' = [copied EXCEPT !.gps = gps]
    BY DEF Shown
<1> HIDE DEF copied
<1>5. gps \in Gps
    BY <1>3 DEF CockpitTypeOK, Cache
<1> HIDE DEF gps
<1>6. screen' \in Cache
    BY <1>3, <1>4, <1>5 DEF Cache
<1>7. queue' \in Seq(Payload)
    BY <1>2 DEF Shown
<1> QED  BY <1>6, <1>7 DEF Shown, CockpitTypeOK

LEMMA CockpitTypeStep == CockpitTypeOK /\ [CockpitNext]_cockpitVars => CockpitTypeOK'
<1> SUFFICES ASSUME CockpitTypeOK, [CockpitNext]_cockpitVars PROVE CockpitTypeOK'
    OBVIOUS
<1>1. ASSUME NEW r \in Robot, RobotMoves(r) PROVE CockpitTypeOK'
    <2>1. nMoves' \in 0 .. MaxMoves
        BY <1>1, CockpitAssumption DEF RobotMoves, CockpitTypeOK
    <2> QED  BY <1>1, <2>1 DEF RobotMoves, CockpitTypeOK
<1>2. CASE OnNavTelemetry \/ OnMeasurement \/ OnRtk \/ OnGnssRtkStatus
    BY <1>2, CallbackTypes
<1>3. CASE PeriodPasses
    <2>1. pacing' \in Policy
        BY <1>3 DEF PeriodPasses, CockpitTypeOK, Policy
    <2> QED  BY <1>3, <2>1 DEF PeriodPasses, CockpitTypeOK
<1>4. CASE OnCompactTelemetryTimer
    <2>1. pacing' \in Policy
        BY <1>4, MarkTypes DEF OnCompactTelemetryTimer, CockpitTypeOK
    <2>2. queue' \in Seq(Payload)
        BY <1>4, EmitTypes DEF OnCompactTelemetryTimer, CockpitTypeOK
    <2> QED  BY <1>4, <2>1, <2>2 DEF OnCompactTelemetryTimer, CockpitTypeOK
<1>5. ASSUME NEW to \in {"asker", "everyone"}, AskState(to) PROVE CockpitTypeOK'
    <2> DEFINE question == [to |-> to, seen |-> cache]
    <2>1. question \in Questions
        BY DEF Questions, CockpitTypeOK
    <2>2. answers' = Append(answers, question)
        BY <1>5 DEF AskState
    <2> HIDE DEF question
    <2>3. answers' \in Seq(Questions)
        BY <2>1, <2>2, CockpitFacts, AppendProperties
    <2>4. nAsks' \in 0 .. MaxAsks
        BY <1>5, CockpitAssumption DEF AskState, CockpitTypeOK
    <2> QED  BY <1>5, <2>3, <2>4 DEF AskState, CockpitTypeOK, Questions
<1>6. CASE \E i \in 1 .. Len(answers), answered \in BOOLEAN : StateAnswered(i, answered)
    BY <1>6, StateTypes
<1>7. CASE Shown
    BY <1>7, ShownTypes
<1>8. CASE UNCHANGED cockpitVars
    BY <1>8 DEF cockpitVars, CockpitTypeOK
<1> QED  BY <1>1, <1>2, <1>3, <1>4, <1>5, <1>6, <1>7, <1>8 DEF CockpitNext

-----------------------------------------------------------------------------
(* CockpitRequests, for any number of requests.  Where the handler is says *)
(* what was asked of the robot; once it has answered, what it said is true *)
(* and nothing that is still under way can make it false.                  *)

(* An acknowledgement and what it is about.                                *)
Fits(code, f, s, d, answered) ==
    /\ code = "ok" /\ f.op # "get_state" => d = "done" /\ (s = "none" \/ answered = TRUE)
    /\ code = "failed" => d = "refused" /\ answered = TRUE
    /\ code \in Harmless => d = "nothing" /\ s = "none"
    /\ code = "SERVICE_UNAVAILABLE" /\ f.op # "camera" => d = "nothing" /\ s = "none"

HandlerAt(l, f, s, d, answered, a) ==
    /\ l \in {"absent", "received", "discover"} => s = "none" /\ d = "nothing" /\ answered = FALSE
    /\ l = "call" => /\ s = "sent"
                     /\ answered = FALSE => d = "nothing"
                     /\ answered = TRUE => d \in {"done", "refused"}
    /\ l = "refresh" => s = "sent" /\ d = "done" /\ answered = TRUE /\ f.op = "camera"
    /\ l # "done" => a = <<>>
    /\ l = "done" => \E code \in Codes : a = <<code>> /\ Fits(code, f, s, d, answered)

RequestOK(r) == HandlerAt(life[r], frame[r], service[r], deed[r], reply[r], acks[r])

RequestsInv == RequestsTypeOK /\ \A r \in Requests : RequestOK(r)

LEMMA RequestsInvInit == RequestsInit => RequestsInv
<1> SUFFICES ASSUME RequestsInit PROVE RequestsInv
    OBVIOUS
<1>1. NoFrame \in Frame
    BY DEF NoFrame, Frame, Ops, Defects
<1>2. RequestsTypeOK
    BY <1>1 DEF RequestsInit, RequestsTypeOK, Life, Deed
<1>3. ASSUME NEW r \in Requests PROVE RequestOK(r)
    BY DEF RequestsInit, RequestOK, HandlerAt
<1> QED  BY <1>2, <1>3 DEF RequestsInv

(* The errors found before anything is asked of anyone.                    *)
LEMMA EarlyErrors ==
    ASSUME NEW f \in Frame
    PROVE  /\ ProtocolError(f) # "none" => ProtocolError(f) \in Harmless
           /\ BuildError(f) # "none" => BuildError(f) \in Harmless
<1>1. ParseError(f) \in {"none", "invalid_json", "invalid_request"}
    BY DEF ParseError
<1>2. ValidationError(f) \in {"none", "UNSUPPORTED_FIXED_DATUM", "unknown_op", "invalid_request"}
    BY DEF ValidationError
<1>3. BuildError(f) \in {"none", "INVALID_REQUEST", "GATEWAY_FAILURE"}
    BY DEF BuildError
<1> QED  BY <1>1, <1>2, <1>3 DEF ProtocolError, Harmless, Codes

(* What a handler that has just answered leaves.                           *)
LEMMA AnswerFits ==
    ASSUME RequestsTypeOK, NEW r \in Requests, NEW code \in Codes, acks[r] = <<>>, Answer(r, code),
           Fits(code, frame'[r], service'[r], deed'[r], reply'[r])
    PROVE  RequestOK(r)'
<1>1. life'[r] = "done"
    BY DEF Answer, RequestsTypeOK
<1>2. acks'[r] = Append(acks[r], code)
    BY DEF Answer, RequestsTypeOK
<1>3. acks'[r] = <<code>>
    BY <1>2
<1> QED  BY <1>1, <1>3 DEF RequestOK, HandlerAt

(* Every action but those of the service moves one request only.           *)
Others(r) == \A q \in Requests \ {r} :
    /\ life'[q] = life[q] /\ frame'[q] = frame[q] /\ service'[q] = service[q]
    /\ deed'[q] = deed[q] /\ reply'[q] = reply[q] /\ acks'[q] = acks[q]

LEMMA OneRequest ==
    ASSUME RequestsInv, NEW r \in Requests, Others(r), RequestOK(r)', RequestsTypeOK'
    PROVE  RequestsInv'
<1>1. ASSUME NEW q \in Requests \ {r} PROVE RequestOK(q)'
    BY <1>1 DEF Others, RequestsInv, RequestOK
<1> QED  BY <1>1 DEF RequestsInv

(* Types and the other requests, where a handler answers.                  *)
LEMMA AnswerTypes ==
    ASSUME RequestsTypeOK, NEW r \in Requests, NEW code \in Codes, Answer(r, code),
           frame' = frame, reply' = reply,
           \/ deed' = deed \/ deed' = [deed EXCEPT ![r] = "done"],
           \/ service' = service \/ service' = [service EXCEPT ![r] = "cancelled"]
    PROVE  RequestsTypeOK' /\ Others(r)
<1>1. life' \in [Requests -> Life]
    BY DEF RequestsTypeOK, Answer, Life
<1>2. acks' \in [Requests -> Seq(Codes)]
    <2>1. acks' = [acks EXCEPT ![r] = Append(acks[r], code)]
        BY DEF Answer
    <2>2. Append(acks[r], code) \in Seq(Codes)
        BY DEF RequestsTypeOK
    <2> QED  BY <2>1, <2>2 DEF RequestsTypeOK
<1>3. deed' \in [Requests -> Deed] /\ service' \in [Requests -> {"none", "sent", "cancelled"}]
    BY DEF RequestsTypeOK, Deed
<1>4. Others(r)
    BY DEF Others, RequestsTypeOK, Answer
<1> QED  BY <1>1, <1>2, <1>3, <1>4 DEF RequestsTypeOK

LEMMA RequestFacts ==
    ASSUME RequestsInv, NEW r \in Requests
    PROVE  /\ RequestsTypeOK /\ RequestOK(r) /\ frame[r] \in Frame /\ life[r] \in Life
           /\ service[r] \in {"none", "sent", "cancelled"} /\ deed[r] \in Deed /\ reply[r] \in BOOLEAN
           /\ acks[r] \in Seq(Codes)
           /\ life[r] # "done" => acks[r] = <<>>
           /\ life[r] \in {"absent", "received", "discover"} =>
                  service[r] = "none" /\ deed[r] = "nothing" /\ reply[r] = FALSE
BY DEF RequestsInv, RequestsTypeOK, RequestOK, HandlerAt

(* A handler answers.                                                      *)
LEMMA AnswersKeep ==
    ASSUME RequestsInv, NEW r \in Requests, NEW code \in Codes, Answer(r, code), life[r] # "done",
           frame' = frame, reply' = reply,
           \/ deed' = deed \/ deed' = [deed EXCEPT ![r] = "done"],
           \/ service' = service \/ service' = [service EXCEPT ![r] = "cancelled"],
           Fits(code, frame[r], service'[r], deed'[r], reply[r])
    PROVE  RequestsInv'
<1>1. RequestsTypeOK' /\ Others(r)
    BY RequestFacts, AnswerTypes
<1>2. RequestOK(r)'
    BY RequestFacts, AnswerFits
<1> QED  BY <1>1, <1>2, OneRequest

(* What is answered at once.                                               *)
LEMMA EarlyAnswers ==
    ASSUME RequestsInv, NEW r \in Requests,
           \/ RejectFrame(r) \/ DenyFrame(r) \/ DispatchDirect(r)
           \/ \E o \in {"ok", "ROUTE_ERROR", "STORAGE_FAILURE"} : DispatchStored(r, o)
    PROVE  RequestsInv'
<1>1. life[r] = "received" /\ frame' = frame /\ service' = service /\ reply' = reply
    BY DEF RejectFrame, DenyFrame, DispatchDirect, DispatchStored
<1>2. service[r] = "none" /\ deed[r] = "nothing" /\ life[r] # "done"
    BY <1>1, RequestFacts
<1>3. ASSUME NEW code \in Harmless, Answer(r, code), deed' = deed
      PROVE  RequestsInv'
    <2>1. code \in Codes /\ code # "ok" /\ code # "failed" /\ code # "SERVICE_UNAVAILABLE"
        BY DEF Harmless
    <2>2. Fits(code, frame[r], service'[r], deed'[r], reply[r])
        BY <1>1, <1>2, <1>3, <2>1 DEF Fits
    <2> QED  BY <1>1, <1>2, <1>3, <2>1, <2>2, AnswersKeep
<1>4. ASSUME Answer(r, "ok"), deed' = [deed EXCEPT ![r] = "done"]
      PROVE  RequestsInv'
    <2>1. "ok" \in Codes /\ "ok" \notin Harmless
        BY DEF Harmless, Codes
    <2>2. deed'[r] = "done" /\ service'[r] = "none"
        BY <1>1, <1>2, <1>4, RequestFacts DEF RequestsTypeOK
    <2>3. Fits("ok", frame[r], service'[r], deed'[r], reply[r])
        BY <2>1, <2>2 DEF Fits
    <2> QED  BY <1>1, <1>2, <1>4, <2>1, <2>3, AnswersKeep
<1>5. CASE RejectFrame(r)
    <2>1. ProtocolError(frame[r]) \in Harmless
        BY <1>5, RequestFacts, EarlyErrors DEF RejectFrame
    <2> QED  BY <1>3, <1>5, <2>1 DEF RejectFrame
<1>6. CASE DenyFrame(r)
    <2>1. "LOCKED" \in Harmless
        BY DEF Harmless, Codes
    <2> QED  BY <1>3, <1>6, <2>1 DEF DenyFrame
<1>7. CASE DispatchDirect(r)
    BY <1>4, <1>7 DEF DispatchDirect
<1>8. ASSUME NEW o \in {"ok", "ROUTE_ERROR", "STORAGE_FAILURE"}, DispatchStored(r, o)
      PROVE  RequestsInv'
    <2>1. CASE BuildError(frame[r]) # "none"
        <3>1. BuildError(frame[r]) \in Harmless
            BY <2>1, RequestFacts, EarlyErrors
        <3> QED  BY <1>3, <1>8, <2>1, <3>1 DEF DispatchStored
    <2>2. CASE ~(BuildError(frame[r]) # "none") /\ o = "ok"
        BY <1>4, <1>8, <2>2 DEF DispatchStored
    <2>3. CASE ~(BuildError(frame[r]) # "none") /\ o # "ok"
        <3>1. o \in Harmless
            BY <1>8, <2>3 DEF Harmless, Codes
        <3>2. deed' = [deed EXCEPT ![r] = deed[r]] /\ Answer(r, o)
            BY <1>8, <2>3 DEF DispatchStored
        <3>3. deed' = deed
            BY <3>2, RequestFacts DEF RequestsTypeOK
        <3> QED  BY <1>3, <3>1, <3>2, <3>3
    <2> QED  BY <2>1, <2>2, <2>3
<1> QED  BY <1>5, <1>6, <1>7, <1>8

(* What waits for a service.                                               *)
LEMMA ServiceAnswers ==
    ASSUME RequestsInv, NEW r \in Requests,
           \/ ServiceUnavailable(r) \/ ServiceTimesOut(r)
           \/ \E c \in {"ok", "refresh_failed", "SERVICE_UNAVAILABLE", "SERVICE_TIMEOUT"} :
                  CameraRefreshed(r, c)
    PROVE  RequestsInv'
<1>0. /\ "ok" \in Codes /\ "SERVICE_UNAVAILABLE" \in Codes /\ "SERVICE_TIMEOUT" \in Codes
      /\ "refresh_failed" \in Codes
      /\ "ok" \notin Harmless /\ "SERVICE_UNAVAILABLE" \notin Harmless
      /\ "SERVICE_TIMEOUT" \notin Harmless /\ "refresh_failed" \notin Harmless
    BY DEF Codes, Harmless
<1>1. CASE ServiceUnavailable(r)
    <2> DEFINE code == Failure(r, "SERVICE_UNAVAILABLE")
    <2>1. /\ life[r] = "discover" /\ Answer(r, code)
          /\ frame' = frame /\ service' = service /\ deed' = deed /\ reply' = reply
        BY <1>1 DEF ServiceUnavailable
    <2>2. service[r] = "none" /\ deed[r] = "nothing" /\ life[r] # "done"
        BY <2>1, RequestFacts
    <2>3. (code = "ok" /\ frame[r].op = "get_state") \/ code = "SERVICE_UNAVAILABLE"
        BY DEF Failure
    <2> HIDE DEF code
    <2>4. code \in Codes /\ code \notin Harmless /\ code # "failed"
        BY <1>0, <2>3
    <2>5. Fits(code, frame[r], service'[r], deed'[r], reply[r])
        BY <2>1, <2>2, <2>3, <2>4 DEF Fits
    <2> QED  BY <2>1, <2>2, <2>4, <2>5, AnswersKeep
<1>2. CASE ServiceTimesOut(r)
    <2> DEFINE code == Failure(r, "SERVICE_TIMEOUT")
    <2>1. /\ life[r] = "call" /\ Answer(r, code) /\ service' = [service EXCEPT ![r] = "cancelled"]
          /\ frame' = frame /\ deed' = deed /\ reply' = reply
        BY <1>2 DEF ServiceTimesOut
    <2>2. life[r] # "done"
        BY <2>1
    <2>3. (code = "ok" /\ frame[r].op = "get_state") \/ code = "SERVICE_TIMEOUT"
        BY DEF Failure
    <2> HIDE DEF code
    <2>4. code \in Codes /\ code \notin Harmless /\ code # "failed" /\ code # "SERVICE_UNAVAILABLE"
        BY <1>0, <2>3
    <2>5. Fits(code, frame[r], service'[r], deed'[r], reply[r])
        BY <2>3, <2>4 DEF Fits
    <2> QED  BY <2>1, <2>2, <2>4, <2>5, AnswersKeep
<1>3. ASSUME NEW c \in {"ok", "refresh_failed", "SERVICE_UNAVAILABLE", "SERVICE_TIMEOUT"},
             CameraRefreshed(r, c)
      PROVE  RequestsInv'
    <2>1. /\ life[r] = "refresh" /\ Answer(r, c)
          /\ frame' = frame /\ service' = service /\ deed' = deed /\ reply' = reply
        BY <1>3 DEF CameraRefreshed
    <2>2. deed[r] = "done" /\ reply[r] = TRUE /\ frame[r].op = "camera" /\ life[r] # "done"
        BY <2>1, RequestFacts DEF RequestOK, HandlerAt
    <2>3. c \in Codes /\ c \notin Harmless /\ c # "failed"
        BY <1>0, <1>3
    <2>4. Fits(c, frame[r], service'[r], deed'[r], reply[r])
        BY <2>1, <2>2, <2>3 DEF Fits
    <2> QED  BY <2>1, <2>2, <2>3, <2>4, AnswersKeep
<1> QED  BY <1>1, <1>2, <1>3

(* The steps on the way, and the answer of a service.                      *)
LEMMA WaysKeep ==
    ASSUME RequestsInv, NEW r \in Requests,
           (\E f \in Frame : ReceiveFrame(r, f)) \/ DispatchService(r) \/ CallService(r)
           \/ ServiceAnswered(r)
    PROVE  RequestsInv'
<1>1. ASSUME NEW f \in Frame, ReceiveFrame(r, f) PROVE RequestsInv'
    <2>1. /\ life[r] = "absent" /\ life' = [life EXCEPT ![r] = "received"]
          /\ frame' = [frame EXCEPT ![r] = f]
          /\ service' = service /\ deed' = deed /\ reply' = reply /\ acks' = acks
        BY <1>1 DEF ReceiveFrame
    <2>2. RequestsTypeOK' /\ Others(r) /\ life'[r] = "received"
        BY <2>1, RequestFacts DEF RequestsTypeOK, Life, Others
    <2>3. RequestOK(r)'
        BY <2>1, <2>2, RequestFacts DEF RequestOK, HandlerAt
    <2> QED  BY <2>2, <2>3, OneRequest
<1>2. CASE DispatchService(r) /\ BuildError(frame[r]) # "none"
    <2> DEFINE code == BuildError(frame[r])
    <2>1. /\ life[r] = "received" /\ Answer(r, code)
          /\ frame' = frame /\ service' = service /\ deed' = deed /\ reply' = reply
        BY <1>2 DEF DispatchService
    <2>2. service[r] = "none" /\ deed[r] = "nothing" /\ life[r] # "done"
        BY <2>1, RequestFacts
    <2>3. code \in Harmless
        BY <1>2, RequestFacts, EarlyErrors
    <2> HIDE DEF code
    <2>4. code \in Codes /\ code # "ok" /\ code # "failed" /\ code # "SERVICE_UNAVAILABLE"
        BY <2>3 DEF Harmless
    <2>5. Fits(code, frame[r], service'[r], deed'[r], reply[r])
        BY <2>1, <2>2, <2>4 DEF Fits
    <2> QED  BY <2>1, <2>2, <2>4, <2>5, AnswersKeep
<1>3. ASSUME life[r] \in {"received", "discover", "call"}, NEW l \in {"discover", "call", "refresh"},
             life' = [life EXCEPT ![r] = l],
             service' = service \/ service' = [service EXCEPT ![r] = "sent"],
             frame' = frame, deed' = deed, reply' = reply, acks' = acks,
             HandlerAt(l, frame[r], service'[r], deed[r], reply[r], <<>>)
      PROVE  RequestsInv'
    <2>1. RequestsTypeOK' /\ Others(r) /\ life'[r] = l
        BY <1>3, RequestFacts DEF RequestsTypeOK, Life, Others
    <2>2. acks'[r] = <<>>
        BY <1>3, RequestFacts
    <2>3. RequestOK(r)'
        BY <1>3, <2>1, <2>2 DEF RequestOK
    <2> QED  BY <2>1, <2>3, OneRequest
<1>4. CASE DispatchService(r) /\ BuildError(frame[r]) = "none"
    <2>1. /\ life[r] = "received" /\ life' = [life EXCEPT ![r] = "discover"]
          /\ frame' = frame /\ service' = service /\ deed' = deed /\ reply' = reply /\ acks' = acks
        BY <1>4 DEF DispatchService
    <2>2. HandlerAt("discover", frame[r], service'[r], deed[r], reply[r], <<>>)
        BY <2>1, RequestFacts DEF HandlerAt
    <2> QED  BY <1>3, <2>1, <2>2
<1>5. CASE CallService(r)
    <2>1. /\ life[r] = "discover" /\ life' = [life EXCEPT ![r] = "call"]
          /\ service' = [service EXCEPT ![r] = "sent"]
          /\ frame' = frame /\ deed' = deed /\ reply' = reply /\ acks' = acks
        BY <1>5 DEF CallService
    <2>2. service'[r] = "sent"
        BY <2>1, RequestFacts DEF RequestsTypeOK
    <2>3. HandlerAt("call", frame[r], service'[r], deed[r], reply[r], <<>>)
        BY <2>1, <2>2, RequestFacts DEF HandlerAt
    <2> QED  BY <1>3, <2>1, <2>3
<1>6. CASE ServiceAnswered(r)
    <2>1. /\ life[r] = "call" /\ service[r] = "sent" /\ reply[r] = TRUE
          /\ frame' = frame /\ service' = service /\ deed' = deed /\ reply' = reply
        BY <1>6, RequestFacts DEF ServiceAnswered
    <2>2. deed[r] \in {"done", "refused"} /\ life[r] # "done"
        BY <2>1, RequestFacts DEF RequestOK, HandlerAt
    <2>3. /\ "ok" \in Codes /\ "failed" \in Codes /\ "ok" \notin Harmless /\ "failed" \notin Harmless
        BY DEF Codes, Harmless
    <2>4. CASE deed[r] = "refused"
        <3> DEFINE code == Failure(r, "failed")
        <3>1. Answer(r, code)
            BY <1>6, <2>4 DEF ServiceAnswered
        <3>2. (code = "ok" /\ frame[r].op = "get_state") \/ code = "failed"
            BY DEF Failure
        <3> HIDE DEF code
        <3>3. code \in Codes /\ code \notin Harmless /\ code # "SERVICE_UNAVAILABLE"
            BY <2>3, <3>2
        <3>4. Fits(code, frame[r], service'[r], deed'[r], reply[r])
            BY <2>1, <2>4, <3>2, <3>3 DEF Fits
        <3> QED  BY <2>1, <2>2, <3>1, <3>3, <3>4, AnswersKeep
    <2>5. CASE deed[r] = "done" /\ frame[r].op = "camera"
        <3>1. life' = [life EXCEPT ![r] = "refresh"] /\ acks' = acks
            BY <1>6, <2>5 DEF ServiceAnswered
        <3>2. HandlerAt("refresh", frame[r], service'[r], deed[r], reply[r], <<>>)
            BY <2>1, <2>5 DEF HandlerAt
        <3> QED  BY <1>3, <2>1, <3>1, <3>2
    <2>6. CASE deed[r] = "done" /\ frame[r].op # "camera"
        <3>1. Answer(r, "ok")
            BY <1>6, <2>6 DEF ServiceAnswered
        <3>2. Fits("ok", frame[r], service'[r], deed'[r], reply[r])
            BY <2>1, <2>3, <2>6 DEF Fits
        <3> QED  BY <2>1, <2>2, <2>3, <3>1, <3>2, AnswersKeep
    <2> QED  BY <2>2, <2>4, <2>5, <2>6
<1> QED  BY <1>1, <1>2, <1>4, <1>5, <1>6

(* The server works, also for a caller that no longer waits.               *)
LEMMA ServeKeeps ==
    ASSUME RequestsInv, NEW r \in Requests, NEW o \in {"done", "refused"}, ServeRequest(r, o)
    PROVE  RequestsInv'
<1>1. /\ service[r] # "none" /\ reply[r] = FALSE
      /\ deed' = [deed EXCEPT ![r] = o] /\ reply' = [reply EXCEPT ![r] = TRUE]
      /\ life' = life /\ frame' = frame /\ service' = service /\ acks' = acks
    BY RequestFacts DEF ServeRequest
<1>2. RequestsTypeOK' /\ Others(r) /\ deed'[r] = o /\ reply'[r] = TRUE
    BY <1>1, RequestFacts DEF RequestsTypeOK, Deed, Others
<1>3. life[r] \in {"call", "done"}
    BY <1>1, RequestFacts DEF RequestOK, HandlerAt, Life
<1>4. CASE life[r] = "call"
    <2>1. RequestOK(r)'
        BY <1>1, <1>2, <1>4, RequestFacts DEF RequestOK, HandlerAt
    <2> QED  BY <1>2, <2>1, OneRequest
<1>5. CASE life[r] = "done"
    <2>1. PICK code \in Codes : acks[r] = <<code>> /\ Fits(code, frame[r], service[r], deed[r], reply[r])
        BY <1>5, RequestFacts DEF RequestOK, HandlerAt
    <2>2. Fits(code, frame[r], service[r], o, TRUE)
        BY <1>1, <2>1 DEF Fits
    <2>3. RequestOK(r)'
        BY <1>1, <1>2, <1>5, <2>1, <2>2 DEF RequestOK, HandlerAt
    <2> QED  BY <1>2, <2>3, OneRequest
<1> QED  BY <1>3, <1>4, <1>5

LEMMA RequestsInvStep == RequestsInv /\ [RequestsNext]_requestVars => RequestsInv'
<1> SUFFICES ASSUME RequestsInv, [RequestsNext]_requestVars PROVE RequestsInv'
    OBVIOUS
<1>1. ASSUME NEW r \in Requests,
             \/ RejectFrame(r) \/ DenyFrame(r) \/ DispatchDirect(r)
             \/ \E o \in {"ok", "ROUTE_ERROR", "STORAGE_FAILURE"} : DispatchStored(r, o)
      PROVE  RequestsInv'
    BY <1>1, EarlyAnswers
<1>2. ASSUME NEW r \in Requests,
             \/ ServiceUnavailable(r) \/ ServiceTimesOut(r)
             \/ \E c \in {"ok", "refresh_failed", "SERVICE_UNAVAILABLE", "SERVICE_TIMEOUT"} :
                    CameraRefreshed(r, c)
      PROVE  RequestsInv'
    BY <1>2, ServiceAnswers
<1>3. ASSUME NEW r \in Requests,
             (\E f \in Frame : ReceiveFrame(r, f)) \/ DispatchService(r) \/ CallService(r)
             \/ ServiceAnswered(r)
      PROVE  RequestsInv'
    BY <1>3, WaysKeep
<1>4. ASSUME NEW r \in Requests, NEW o \in {"done", "refused"}, ServeRequest(r, o)
      PROVE  RequestsInv'
    BY <1>4, ServeKeeps
<1>5. CASE UNCHANGED requestVars
    BY <1>5 DEF requestVars, RequestsInv, RequestsTypeOK, RequestOK
<1> QED  BY <1>1, <1>2, <1>3, <1>4, <1>5 DEF RequestsNext

LEMMA RequestsInvTrue == RequestsInv => AnswerTellsTheTruth
<1> SUFFICES ASSUME RequestsInv, NEW r \in Requests, NEW code \in {acks[r][i] : i \in 1 .. Len(acks[r])}
             PROVE  /\ code = "ok" /\ frame[r].op # "get_state" => deed[r] = "done"
                    /\ code = "failed" => deed[r] = "refused"
                    /\ code \in Harmless => deed[r] = "nothing"
                    /\ code = "SERVICE_UNAVAILABLE" /\ frame[r].op # "camera" => deed[r] = "nothing"
    BY DEF AnswerTellsTheTruth
<1>1. PICK i \in 1 .. Len(acks[r]) : code = acks[r][i]
    OBVIOUS
<1>2. life[r] = "done"
    <2>1. acks[r] # <<>>
        BY <1>1
    <2> QED  BY <2>1, RequestFacts
<1>3. PICK c \in Codes : acks[r] = <<c>> /\ Fits(c, frame[r], service[r], deed[r], reply[r])
    BY <1>2, RequestFacts DEF RequestOK, HandlerAt
<1>4. i = 1 /\ code = c
    BY <1>1, <1>3
<1> QED  BY <1>3, <1>4 DEF Fits

(* An acknowledgement tells the truth and keeps telling it, whatever the   *)
(* services do after their callers gave up (dispatch, _call).              *)
THEOREM RequestAnswersAreTrue == RequestsSpec => []AnswerTellsTheTruth
BY RequestsInvInit, RequestsInvStep, RequestsInvTrue, PTL DEF RequestsSpec

-----------------------------------------------------------------------------
(* Recording, for any number of cameras, failures, restarts and requests.  *)
(* A mission that was seen running is on file: whatever the policy in      *)
(* memory and the file disagree about, both hold the capture, and both     *)
(* hold the operator's last acknowledged wish.                             *)

RecordingInv ==
    /\ RecordingTypeOK
    /\ lastRunning => policy.mission = TRUE /\ saved.mission = TRUE
    /\ policy.manual = promised /\ saved.manual = promised

Tallies == [disk : 0..MaxFaults, media : 0..MaxFaults,
            crash : 0..MaxProcessCrashes, asked : 0..MaxRequests]

Signals == {"active", "idle", "unknown"}

(* The poll as a whole: its two observations and what they write.          *)
LEMMA ObservationFacts ==
    ASSUME NEW p \in RecordingPolicy, NEW signal \in Signals
    PROVE  /\ ObserveSignal(p, signal) \in RecordingPolicy
           /\ ObserveSignal(p, signal).manual = p.manual
           /\ p.mission = TRUE /\ signal # "idle" => ObserveSignal(p, signal).mission = TRUE
           /\ signal = "active" => ObserveSignal(p, signal).mission = TRUE
<1> DEFINE o == ObserveSignal(p, signal)
<1>1. CASE signal = "unknown"
    <2>1. o = [p EXCEPT !.stale = TRUE]
        BY <1>1 DEF ObserveSignal
    <2> HIDE DEF o
    <2>2. o \in RecordingPolicy /\ o.manual = p.manual /\ o.mission = p.mission
        BY <2>1 DEF RecordingPolicy
    <2> QED  BY <1>1, <2>2 DEF o
<1>2. CASE signal # "unknown"
    <2> DEFINE running == signal = "active"
               tail == CASE signal = "active" -> "never"
                         [] p.mission -> "running"
                         [] OTHER -> p.tail
               off == FALSE
    <2>1. o = [p EXCEPT !.stale = off, !.mission = running, !.tail = tail]
        BY <1>2 DEF ObserveSignal
    <2>2. running \in BOOLEAN /\ off \in BOOLEAN
        OBVIOUS
    <2>3. tail \in Tails
        <3>1. CASE signal = "active"
            BY <3>1 DEF Tails
        <3>2. CASE signal # "active" /\ p.mission = TRUE
            BY <3>2 DEF Tails
        <3>3. CASE signal # "active" /\ p.mission = FALSE
            BY <3>3 DEF RecordingPolicy
        <3> QED  BY <3>1, <3>2, <3>3 DEF RecordingPolicy
    <2>4. running = (signal = "active")
        OBVIOUS
    <2> HIDE DEF running, tail, off, o
    <2>5. o \in RecordingPolicy /\ o.manual = p.manual /\ o.mission = running
        BY <2>1, <2>2, <2>3 DEF RecordingPolicy
    <2>6. signal # "idle" => running = TRUE
        BY <1>2, <2>4 DEF Signals
    <2> QED  BY <2>4, <2>5, <2>6 DEF o
<1> QED  BY <1>1, <1>2

LEMMA DocumentFacts ==
    ASSUME NEW p \in RecordingPolicy
    PROVE  Document(p) \in Saved /\ Document(p).manual = p.manual /\ Document(p).mission = p.mission
<1> DEFINE t == p.tail = "running"
           d == Document(p)
<1>1. d = [manual |-> p.manual, mission |-> p.mission, tail_pending |-> t] /\ t \in BOOLEAN
    BY DEF Document
<1> HIDE DEF t, d
<1>2. d \in Saved /\ d.manual = p.manual /\ d.mission = p.mission
    BY <1>1 DEF RecordingPolicy, Saved
<1> QED  BY <1>2 DEF d

LEMMA RestoredFacts ==
    ASSUME NEW s \in Saved
    PROVE  Restored(s) \in RecordingPolicy /\ Restored(s).manual = s.manual /\ Restored(s).mission = s.mission
<1> DEFINE t == IF s.tail_pending THEN "running" ELSE "never"
           on == TRUE
           p == Restored(s)
<1>1. p = [manual |-> s.manual, mission |-> s.mission, tail |-> t, stale |-> on]
    BY DEF Restored
<1>2. t \in Tails /\ on \in BOOLEAN
    BY DEF Tails
<1> HIDE DEF t, on, p
<1>3. p \in RecordingPolicy /\ p.manual = s.manual /\ p.mission = s.mission
    BY <1>1, <1>2 DEF RecordingPolicy, Saved
<1> QED  BY <1>3 DEF p

LEMMA SignalFacts ==
    ASSUME NEW got
    PROVE  /\ MissionSignal(got) \in Signals
           /\ MissionSignal(got) = "idle" => \A a \in Authorities : got[a] = "idle"
BY DEF MissionSignal, Signals

LEMMA RecordingInvInit == RecordingInit => RecordingInv
<1> SUFFICES ASSUME RecordingInit PROVE RecordingInv
    OBVIOUS
<1>1. saved \in Saved /\ saved.manual = FALSE
    BY DEF RecordingInit, Saved
<1>2. policy \in RecordingPolicy /\ policy.manual = FALSE
    BY <1>1, RestoredFacts DEF RecordingInit
<1>3. faults \in Tallies
    <2> DEFINE z == 0
    <2>1. z \in 0 .. MaxFaults /\ z \in 0 .. MaxProcessCrashes /\ z \in 0 .. MaxRequests
        BY RecordingAssumption
    <2>2. faults = [disk |-> z, media |-> z, crash |-> z, asked |-> z]
        BY DEF RecordingInit
    <2> HIDE DEF z
    <2> QED  BY <2>1, <2>2 DEF Tallies
<1>4. mission \in [Authorities -> BOOLEAN] /\ record \in [Cameras -> BOOLEAN]
      /\ spinning \in BOOLEAN /\ diskOk \in BOOLEAN /\ lastRunning = FALSE /\ promised = FALSE
    BY DEF RecordingInit
<1>5. poll \in [on : BOOLEAN, got : [Authorities -> Answers]]
    <2>1. NotPolled \in [Authorities -> Answers]
        BY DEF NotPolled, Answers
    <2> QED  BY <2>1 DEF RecordingInit
<1>6. tick \in [todo : SUBSET Cameras, wanted : BOOLEAN]
    BY DEF RecordingInit
<1> QED  BY <1>1, <1>2, <1>3, <1>4, <1>5, <1>6 DEF RecordingInv, RecordingTypeOK, Tallies

LEMMA RecordingFacts ==
    ASSUME RecordingInv
    PROVE  /\ policy \in RecordingPolicy /\ saved \in Saved
           /\ poll \in [on : BOOLEAN, got : [Authorities -> Answers]]
           /\ tick \in [todo : SUBSET Cameras, wanted : BOOLEAN]
           /\ faults \in Tallies /\ lastRunning \in BOOLEAN
           /\ faults.disk \in 0 .. MaxFaults /\ faults.media \in 0 .. MaxFaults
           /\ faults.crash \in 0 .. MaxProcessCrashes /\ faults.asked \in 0 .. MaxRequests
<1>1. faults \in Tallies
    BY DEF RecordingInv, RecordingTypeOK, Tallies
<1>2. /\ faults.disk \in 0 .. MaxFaults /\ faults.media \in 0 .. MaxFaults
      /\ faults.crash \in 0 .. MaxProcessCrashes /\ faults.asked \in 0 .. MaxRequests
    BY <1>1 DEF Tallies
<1> QED  BY <1>1, <1>2 DEF RecordingInv, RecordingTypeOK

(* An observation of the poll, written to the file or not.                 *)
LEMMA ObservationKeeps ==
    ASSUME RecordingInv, NEW signal \in Signals, policy' = ObserveSignal(policy, signal),
           saved' = Document(policy') \/ saved' = saved,
           signal = "idle" => lastRunning' = FALSE,
           lastRunning' = TRUE => lastRunning = TRUE \/ (signal = "active" /\ saved' = Document(policy')),
           lastRunning' \in BOOLEAN, promised' = promised
    PROVE  /\ policy' \in RecordingPolicy /\ saved' \in Saved
           /\ lastRunning' => policy'.mission = TRUE /\ saved'.mission = TRUE
           /\ policy'.manual = promised' /\ saved'.manual = promised'
<1>1. /\ policy' \in RecordingPolicy /\ policy'.manual = policy.manual
      /\ policy.mission = TRUE /\ signal # "idle" => policy'.mission = TRUE
      /\ signal = "active" => policy'.mission = TRUE
    BY RecordingFacts, ObservationFacts
<1>2. /\ saved' = Document(policy') => saved' \in Saved /\ saved'.manual = policy'.manual
                                       /\ saved'.mission = policy'.mission
      /\ saved' = saved => saved' \in Saved /\ saved'.manual = promised
    BY <1>1, RecordingFacts, DocumentFacts DEF RecordingInv
<1>3. policy.manual = promised
    BY DEF RecordingInv
<1>4. lastRunning' => policy'.mission = TRUE
    BY <1>1 DEF RecordingInv
<1>5. lastRunning' => saved'.mission = TRUE
    BY <1>2, <1>4 DEF RecordingInv
<1> QED  BY <1>1, <1>2, <1>3, <1>4, <1>5

LEMMA PollKeeps ==
    ASSUME RecordingInv, (\E ready \in SUBSET Authorities : PollAsks(ready)) \/ PollCollects \/ PollCollectsInVain
    PROVE  RecordingInv'
<1> DEFINE signal == MissionSignal(poll.got)
<1>0. signal \in Signals /\ (signal = "idle" => \A a \in Authorities : poll.got[a] = "idle")
    BY SignalFacts
<1>1. ASSUME NEW ready \in SUBSET Authorities, PollAsks(ready), ready # {} PROVE RecordingInv'
    <2> DEFINE got == [a \in Authorities |-> IF a \in ready THEN "pending" ELSE "none"]
    <2>1. poll' = [on |-> TRUE, got |-> got] /\ got \in [Authorities -> Answers]
        BY <1>1 DEF PollAsks, Answers
    <2> HIDE DEF got
    <2>2. poll' \in [on : BOOLEAN, got : [Authorities -> Answers]]
        BY <2>1
    <2> QED  BY <1>1, <2>2 DEF PollAsks, RecordingInv, RecordingTypeOK
<1>2. ASSUME PollAsks({}) PROVE RecordingInv'
    <2>1. /\ policy' = ObserveSignal(policy, "unknown") /\ saved' = Document(policy')
          /\ UNCHANGED <<poll, mission, spinning, diskOk, tick, record, lastRunning, promised, faults>>
        BY <1>2 DEF PollAsks
    <2>2. "unknown" \in Signals /\ lastRunning' \in BOOLEAN /\ "unknown" # "idle"
        BY <2>1, RecordingFacts DEF Signals
    <2>3. /\ policy' \in RecordingPolicy /\ saved' \in Saved
          /\ lastRunning' => policy'.mission = TRUE /\ saved'.mission = TRUE
          /\ policy'.manual = promised' /\ saved'.manual = promised'
        BY <2>1, <2>2, ObservationKeeps
    <2> QED  BY <2>1, <2>3 DEF RecordingInv, RecordingTypeOK
<1>3. CASE PollCollects
    <2>1. /\ poll' = [on |-> FALSE, got |-> NotPolled]
          /\ policy' = ObserveSignal(policy, signal) /\ saved' = Document(policy')
          /\ lastRunning' = CASE signal = "active" -> TRUE
                              [] \A a \in Authorities : poll.got[a] = "idle" -> FALSE
                              [] OTHER -> lastRunning
          /\ UNCHANGED <<mission, spinning, diskOk, tick, record, promised, faults>>
        BY <1>3 DEF PollCollects
    <2> HIDE DEF signal
    <2>2. /\ lastRunning' \in BOOLEAN
          /\ signal = "idle" => lastRunning' = FALSE
          /\ lastRunning' = TRUE => lastRunning = TRUE \/ (signal = "active" /\ saved' = Document(policy'))
        <3>1. CASE signal = "active"
            BY <2>1, <3>1
        <3>2. CASE signal # "active" /\ \A a \in Authorities : poll.got[a] = "idle"
            BY <2>1, <3>2
        <3>3. CASE signal # "active" /\ ~\A a \in Authorities : poll.got[a] = "idle"
            BY <1>0, <2>1, <3>3, RecordingFacts
        <3> QED  BY <3>1, <3>2, <3>3
    <2>3. /\ policy' \in RecordingPolicy /\ saved' \in Saved
          /\ lastRunning' => policy'.mission = TRUE /\ saved'.mission = TRUE
          /\ policy'.manual = promised' /\ saved'.manual = promised'
        BY <1>0, <2>1, <2>2, ObservationKeeps
    <2>4. poll' \in [on : BOOLEAN, got : [Authorities -> Answers]]
        <3>1. NotPolled \in [Authorities -> Answers]
            BY DEF NotPolled, Answers
        <3> QED  BY <2>1, <3>1
    <2> QED  BY <2>1, <2>2, <2>3, <2>4 DEF RecordingInv, RecordingTypeOK
<1>4. CASE PollCollectsInVain
    <2>1. /\ faults.disk + faults.media < MaxFaults
          /\ faults' = [faults EXCEPT !.disk = faults.disk + 1]
          /\ policy' = ObserveSignal(policy, signal) /\ spinning' = FALSE
          /\ lastRunning' = (lastRunning /\ \E a \in Authorities : poll.got[a] # "idle")
          /\ UNCHANGED <<saved, mission, poll, diskOk, tick, record, promised>>
        BY <1>4 DEF PollCollectsInVain
    <2> HIDE DEF signal
    <2>2. /\ lastRunning' \in BOOLEAN
          /\ signal = "idle" => lastRunning' = FALSE
          /\ lastRunning' = TRUE => lastRunning = TRUE
        BY <1>0, <2>1
    <2>3. /\ policy' \in RecordingPolicy /\ saved' \in Saved
          /\ lastRunning' => policy'.mission = TRUE /\ saved'.mission = TRUE
          /\ policy'.manual = promised' /\ saved'.manual = promised'
        BY <1>0, <2>1, <2>2, ObservationKeeps
    <2>4. faults' \in Tallies
        <3> DEFINE n == faults.disk + 1
        <3>1. n \in 0 .. MaxFaults
            BY <2>1, RecordingFacts, RecordingAssumption
        <3>2. faults' = [faults EXCEPT !.disk = n]
            BY <2>1
        <3> HIDE DEF n
        <3> QED  BY <3>1, <3>2, RecordingFacts DEF Tallies
    <2> QED  BY <2>1, <2>2, <2>3, <2>4 DEF RecordingInv, RecordingTypeOK, Tallies
<1> QED  BY <1>1, <1>2, <1>3, <1>4

LEMMA ManualKeeps ==
    ASSUME RecordingInv, NEW enabled \in BOOLEAN, NEW persisted \in BOOLEAN, Manual(enabled, persisted)
    PROVE  RecordingInv'
<1>0. UNCHANGED <<mission, poll, spinning, diskOk, tick, record, lastRunning>>
    BY DEF Manual
<1>1. faults' \in Tallies
    <2> DEFINE n == faults.asked + 1
               m == IF persisted THEN faults.disk ELSE faults.disk + 1
    <2>1. n \in 0 .. MaxRequests /\ m \in 0 .. MaxFaults
        BY RecordingFacts, RecordingAssumption DEF Manual
    <2>2. faults' = [faults EXCEPT !.asked = n, !.disk = m]
        BY DEF Manual
    <2> HIDE DEF n, m
    <2> QED  BY <2>1, <2>2, RecordingFacts DEF Tallies
<1>2. CASE persisted
    <2>1. policy' = [policy EXCEPT !.manual = enabled] /\ saved' = Document(policy') /\ promised' = enabled
        BY <1>2 DEF Manual
    <2>2. policy' \in RecordingPolicy /\ policy'.manual = enabled /\ policy'.mission = policy.mission
        BY <2>1, RecordingFacts DEF RecordingPolicy
    <2>3. saved' \in Saved /\ saved'.manual = policy'.manual /\ saved'.mission = policy'.mission
        BY <2>1, <2>2, DocumentFacts
    <2>4. /\ lastRunning' => policy'.mission = TRUE /\ saved'.mission = TRUE
          /\ policy'.manual = promised' /\ saved'.manual = promised' /\ promised' \in BOOLEAN
        BY <1>0, <2>1, <2>2, <2>3 DEF RecordingInv
    <2> QED  BY <1>0, <1>1, <2>2, <2>3, <2>4 DEF RecordingInv, RecordingTypeOK, Tallies
<1>3. CASE ~persisted
    <2>1. UNCHANGED <<policy, saved, promised>>
        BY <1>3 DEF Manual
    <2> QED  BY <1>0, <1>1, <2>1 DEF RecordingInv, RecordingTypeOK, Tallies
<1> QED  BY <1>2, <1>3

LEMMA WorkerKeepsRecording ==
    ASSUME RecordingInv, \/ \E enough \in BOOLEAN : TickBegins(enough)
                         \/ \E c \in Cameras, works \in BOOLEAN : TickCamera(c, works)
    PROVE  RecordingInv'
<1>1. ASSUME NEW enough \in BOOLEAN, TickBegins(enough) PROVE RecordingInv'
    <2> DEFINE w == Wanted(policy) /\ enough
    <2>1. tick' = [todo |-> Cameras, wanted |-> w] /\ w \in BOOLEAN
        BY <1>1 DEF TickBegins
    <2> HIDE DEF w
    <2>2. tick' \in [todo : SUBSET Cameras, wanted : BOOLEAN]
        BY <2>1
    <2> QED  BY <1>1, <2>2 DEF TickBegins, RecordingInv, RecordingTypeOK
<1>2. ASSUME NEW c \in Cameras, NEW works \in BOOLEAN, TickCamera(c, works) PROVE RecordingInv'
    <2>1. tick' \in [todo : SUBSET Cameras, wanted : BOOLEAN]
        <3> DEFINE left == tick.todo \ {c}
        <3>1. tick' = [tick EXCEPT !.todo = left] /\ left \in SUBSET Cameras
            BY <1>2, RecordingFacts DEF TickCamera
        <3> HIDE DEF left
        <3> QED  BY <3>1, RecordingFacts
    <2>2. record' \in [Cameras -> BOOLEAN]
        <3>1. tick.wanted \in BOOLEAN
            BY RecordingFacts
        <3>2. record' = record \/ record' = [record EXCEPT ![c] = tick.wanted]
            BY <1>2 DEF TickCamera
        <3> QED  BY <3>1, <3>2 DEF RecordingInv, RecordingTypeOK
    <2>3. faults' \in Tallies
        <3>1. CASE works
            BY <1>2, <3>1, RecordingFacts DEF TickCamera
        <3>2. CASE ~works
            <4> DEFINE n == faults.media + 1
            <4>1. n \in 0 .. MaxFaults
                BY <1>2, <3>2, RecordingFacts, RecordingAssumption DEF TickCamera
            <4>2. faults' = [faults EXCEPT !.media = n]
                BY <1>2, <3>2 DEF TickCamera
            <4> HIDE DEF n
            <4> QED  BY <4>1, <4>2, RecordingFacts DEF Tallies
        <3> QED  BY <3>1, <3>2
    <2>4. UNCHANGED <<policy, saved, mission, poll, spinning, diskOk, lastRunning, promised>>
        BY <1>2 DEF TickCamera
    <2> QED  BY <2>1, <2>2, <2>3, <2>4 DEF RecordingInv, RecordingTypeOK, Tallies
<1> QED  BY <1>1, <1>2

LEMMA RecordingInvStep == RecordingInv /\ [RecordingNext]_recordingVars => RecordingInv'
<1> SUFFICES ASSUME RecordingInv, [RecordingNext]_recordingVars PROVE RecordingInv'
    OBVIOUS
<1>1. ASSUME NEW a \in Authorities, MissionChanges(a) PROVE RecordingInv'
    <2>1. mission' \in [Authorities -> BOOLEAN]
        BY <1>1 DEF MissionChanges, RecordingInv, RecordingTypeOK
    <2> QED  BY <1>1, <2>1 DEF MissionChanges, RecordingInv, RecordingTypeOK
<1>2. ASSUME NEW a \in Authorities, AuthorityAnswers(a) PROVE RecordingInv'
    <2>1. PICK answer \in {IF mission[a] THEN "active" ELSE "idle", "none"} :
              poll' = [poll EXCEPT !.got[a] = answer]
        BY <1>2 DEF AuthorityAnswers
    <2>2. answer \in Answers
        BY DEF Answers
    <2> DEFINE got == [poll.got EXCEPT ![a] = answer]
    <2>3. poll' = [poll EXCEPT !.got = got]
        BY <2>1
    <2>4. got \in [Authorities -> Answers]
        BY <2>2, RecordingFacts
    <2> HIDE DEF got
    <2>5. poll' \in [on : BOOLEAN, got : [Authorities -> Answers]]
        BY <2>3, <2>4, RecordingFacts
    <2> QED  BY <1>2, <2>5 DEF AuthorityAnswers, RecordingInv, RecordingTypeOK
<1>3. CASE (\E ready \in SUBSET Authorities : PollAsks(ready)) \/ PollCollects \/ PollCollectsInVain
    BY <1>3, PollKeeps
<1>4. CASE \E e \in BOOLEAN, p \in BOOLEAN : Manual(e, p)
    BY <1>4, ManualKeeps
<1>5. CASE TailPasses
    <2>1. policy' = [policy EXCEPT !.tail = "over"] /\ "over" \in Tails
        BY <1>5 DEF TailPasses, Tails
    <2>2. policy' \in RecordingPolicy /\ policy'.manual = policy.manual /\ policy'.mission = policy.mission
        BY <2>1, RecordingFacts DEF RecordingPolicy
    <2> QED  BY <1>5, <2>2 DEF TailPasses, RecordingInv, RecordingTypeOK
<1>6. CASE \/ \E enough \in BOOLEAN : TickBegins(enough)
           \/ \E c \in Cameras, works \in BOOLEAN : TickCamera(c, works)
    BY <1>6, WorkerKeepsRecording
<1>7. CASE ProcessRestarts
    <2>1. /\ policy' = Restored(saved) /\ poll' = [on |-> FALSE, got |-> NotPolled]
          /\ spinning' = TRUE /\ diskOk' = TRUE /\ tick' = [todo |-> {}, wanted |-> FALSE]
          /\ UNCHANGED <<saved, mission, record, lastRunning, promised>>
        BY <1>7 DEF ProcessRestarts
    <2>2. policy' \in RecordingPolicy /\ policy'.manual = saved.manual /\ policy'.mission = saved.mission
        BY <2>1, RecordingFacts, RestoredFacts
    <2>3. faults' \in Tallies
        <3> DEFINE n == faults.crash + 1
        <3>1. n \in 0 .. MaxProcessCrashes
            BY <1>7, RecordingFacts, RecordingAssumption DEF ProcessRestarts
        <3>2. faults' = [faults EXCEPT !.crash = n]
            BY <1>7 DEF ProcessRestarts
        <3> HIDE DEF n
        <3> QED  BY <3>1, <3>2, RecordingFacts DEF Tallies
    <2>4. poll' \in [on : BOOLEAN, got : [Authorities -> Answers]]
        <3>1. NotPolled \in [Authorities -> Answers]
            BY DEF NotPolled, Answers
        <3> QED  BY <2>1, <3>1
    <2>5. tick' \in [todo : SUBSET Cameras, wanted : BOOLEAN] /\ spinning' \in BOOLEAN /\ diskOk' \in BOOLEAN
        BY <2>1
    <2> QED  BY <2>1, <2>2, <2>3, <2>4, <2>5 DEF RecordingInv, RecordingTypeOK, Tallies
<1>8. CASE UNCHANGED recordingVars
    BY <1>8 DEF recordingVars, RecordingInv, RecordingTypeOK
<1> QED  BY <1>1, <1>2, <1>3, <1>4, <1>5, <1>6, <1>7, <1>8 DEF RecordingNext

LEMMA RecordingInvTrue == RecordingInv => CaptureOutlivesMission /\ ManualIsKept
BY DEF RecordingInv, CaptureOutlivesMission, ManualIsKept, Wanted

(* A mission seen running is recorded until every authority is idle, and   *)
(* an acknowledged wish is in force, through failed writes and restarts    *)
(* (Recordings.manual, observe, __init__).                                 *)
THEOREM RecordingPromisesKept == RecordingSpec => [](CaptureOutlivesMission /\ ManualIsKept)
BY RecordingInvInit, RecordingInvStep, RecordingInvTrue, PTL DEF RecordingSpec

-----------------------------------------------------------------------------
(* EvaluationTrial, for any timeout.  Results are numbered, and a trial    *)
(* knows the number at its start: until its own goal ends every message    *)
(* under way carries that number, and afterwards a message that carries a  *)
(* later one carries the goal's status.                                    *)

Ended == trial.goal = TRUE /\ server.goal = "none"

Messages == [id : -1 .. 2, status : Statuses \union {"none"}]
Trials == [goal : BOOLEAN, age : 0 .. Timeout + 1, baseline : -1 .. 2,
           terminal : Statuses \union {"none"}, quiet : 0 .. Window]

(* A telemetry message that may be under way, or may have been the last.   *)
Current(m) ==
    /\ m \in Messages
    /\ \/ m = NoTelemetry
       \/ m.id = server.id /\ m.status = server.status
       \/ Ended /\ m.id = server.id - 1

TrialShape ==
    /\ mode \in TrialModes
    /\ server \in [goal : {"none", "own"}, id : 0 .. 2, status : Statuses \union {"none"}, at : BOOLEAN]
    /\ wire \in Seq(Statuses)
    /\ sampled = <<>> \/ \E m \in Messages : sampled = <<m>>
    /\ seen \in [telemetry : Messages, poses : BOOLEAN, plan : BOOLEAN]
    /\ trial \in Trials
    /\ verdict \in {"", "pass", "fail"}

TrialInv ==
    /\ TrialShape
    /\ ~Ended => server.id \in 0 .. 1 /\ wire = <<>> /\ trial.terminal = "none" /\ verdict # "pass"
    /\ Ended => wire = <<>> \/ wire = <<server.status>>
    /\ trial.goal = FALSE => server.goal = "none" /\ verdict = "" /\ trial.baseline = -1
    /\ trial.goal = TRUE => \/ trial.baseline = -1
                            \/ ~Ended /\ trial.baseline = server.id
                            \/ Ended /\ trial.baseline = server.id - 1
    /\ trial.terminal # "none" => trial.terminal = server.status
    /\ verdict = "pass" => server.at = TRUE
    /\ Current(seen.telemetry)
    /\ \A m \in Messages : sampled = <<m>> => Current(m)

LEMMA TrialFacts ==
    ASSUME TrialInv
    PROVE  /\ server.goal \in {"none", "own"} /\ server.id \in 0 .. 2 /\ server.status \in Statuses \union {"none"}
           /\ server.at \in BOOLEAN /\ trial \in Trials /\ trial.goal \in BOOLEAN
           /\ trial.age \in 0 .. Timeout + 1 /\ trial.baseline \in -1 .. 2
           /\ trial.terminal \in Statuses \union {"none"} /\ trial.quiet \in 0 .. Window
           /\ seen.telemetry \in Messages /\ seen.telemetry.id \in -1 .. 2
           /\ server \in [goal : {"none", "own"}, id : 0 .. 2, status : Statuses \union {"none"}, at : BOOLEAN]
           /\ seen \in [telemetry : Messages, poses : BOOLEAN, plan : BOOLEAN]
<1>1. /\ trial \in Trials /\ seen \in [telemetry : Messages, poses : BOOLEAN, plan : BOOLEAN]
      /\ server \in [goal : {"none", "own"}, id : 0 .. 2, status : Statuses \union {"none"}, at : BOOLEAN]
    BY DEF TrialInv, TrialShape
<1>2. /\ trial.goal \in BOOLEAN /\ trial.age \in 0 .. Timeout + 1 /\ trial.baseline \in -1 .. 2
      /\ trial.terminal \in Statuses \union {"none"} /\ trial.quiet \in 0 .. Window
    BY <1>1 DEF Trials
<1>3. seen.telemetry \in Messages /\ seen.telemetry.id \in -1 .. 2
    BY <1>1 DEF Messages
<1> QED  BY <1>1, <1>2, <1>3

LEMMA TrialInvTypes == TrialInv => TrialTypeOK
<1> SUFFICES ASSUME TrialInv PROVE TrialTypeOK
    OBVIOUS
<1>1. Len(wire) <= 1
    <2>1. wire = <<>> \/ wire = <<server.status>>
        BY DEF TrialInv
    <2>2. CASE wire = <<>>
        BY <2>2
    <2>3. CASE wire = <<server.status>>
        BY <2>3
    <2> QED  BY <2>1, <2>2, <2>3
<1>2. Len(sampled) <= 1
    <2>1. sampled = <<>> \/ \E m \in Messages : sampled = <<m>>
        BY DEF TrialInv, TrialShape
    <2>2. CASE sampled = <<>>
        BY <2>2
    <2>3. ASSUME NEW m \in Messages, sampled = <<m>> PROVE Len(sampled) <= 1
        BY <2>3
    <2> QED  BY <2>1, <2>2, <2>3
<1> QED  BY <1>1, <1>2, TrialFacts DEF TrialTypeOK, TrialInv, TrialShape

LEMMA TrialInvTrue == TrialInv => JudgedOnItsOwn
<1> SUFFICES ASSUME TrialInv PROVE JudgedOnItsOwn
    OBVIOUS
<1>1. trial.terminal # "none" => Ended
    BY DEF TrialInv
<1> QED  BY <1>1 DEF TrialInv, JudgedOnItsOwn, Ended

LEMMA TrialInvInit == TrialInit => TrialInv
<1> SUFFICES ASSUME TrialInit PROVE TrialInv
    OBVIOUS
<1>1. NoTelemetry \in Messages
    BY DEF NoTelemetry, Messages
<1>2. server \in [goal : {"none", "own"}, id : 0 .. 2, status : Statuses \union {"none"}, at : BOOLEAN]
      /\ server.id \in 0 .. 1 /\ server.goal = "none"
    <2>1. CASE server = [goal |-> "none", id |-> 0, status |-> "none", at |-> FALSE]
        BY <2>1
    <2>2. ASSUME NEW s \in Statuses, server = [goal |-> "none", id |-> 1, status |-> s, at |-> FALSE]
          PROVE  server \in [goal : {"none", "own"}, id : 0 .. 2, status : Statuses \union {"none"}, at : BOOLEAN]
                 /\ server.id \in 0 .. 1 /\ server.goal = "none"
        BY <2>2
    <2> QED  BY <2>1, <2>2 DEF TrialInit
<1>3. trial \in Trials /\ trial.goal = FALSE /\ trial.terminal = "none"
    <2> DEFINE z == 0
               b == -1
    <2>1. z \in 0 .. Timeout + 1 /\ z \in 0 .. Window /\ b \in -1 .. 2
        BY TrialAssumption
    <2>2. trial = [goal |-> FALSE, age |-> z, baseline |-> b, terminal |-> "none", quiet |-> z]
        BY DEF TrialInit
    <2> HIDE DEF z, b
    <2> QED  BY <2>1, <2>2 DEF Trials
<1>4. seen \in [telemetry : Messages, poses : BOOLEAN, plan : BOOLEAN] /\ seen.telemetry = NoTelemetry
    <2>1. seen = [telemetry |-> NoTelemetry, poses |-> FALSE, plan |-> FALSE]
        BY DEF TrialInit
    <2> QED  BY <1>1, <2>1
<1>5. /\ mode \in TrialModes /\ wire = <<>> /\ sampled = <<>> /\ verdict = "" /\ wire \in Seq(Statuses)
      /\ trial.baseline = -1
    <2>1. trial.baseline = -1
        BY DEF TrialInit
    <2>2. mode \in TrialModes /\ wire = <<>> /\ sampled = <<>> /\ verdict = ""
        BY DEF TrialInit
    <2>3. wire \in Seq(Statuses)
        BY <2>2, EmptySeq
    <2> QED  BY <2>1, <2>2, <2>3
<1>6. TrialShape
    BY <1>2, <1>3, <1>4, <1>5 DEF TrialShape
<1>7. Current(seen.telemetry)
    BY <1>1, <1>4 DEF Current
<1>8. ~Ended /\ verdict # "pass"
    BY <1>3, <1>5 DEF Ended
<1>9. \A m \in Messages : sampled = <<m>> => Current(m)
    BY <1>5
<1> QED  BY <1>2, <1>3, <1>5, <1>6, <1>7, <1>8, <1>9 DEF TrialInv

(* The simulation's telemetry, the plan and the poses.                     *)
LEMMA LooksKeepTrial ==
    ASSUME TrialInv, ReceivesPose \/ ReceivesPlan
    PROVE  TrialInv'
<1>1. UNCHANGED <<mode, server, wire, sampled, trial, verdict>>
    BY DEF ReceivesPose, ReceivesPlan
<1>2. seen' = [seen EXCEPT !.poses = TRUE] \/ seen' = [seen EXCEPT !.plan = TRUE]
    BY DEF ReceivesPose, ReceivesPlan
<1>3. seen' \in [telemetry : Messages, poses : BOOLEAN, plan : BOOLEAN] /\ seen'.telemetry = seen.telemetry
    BY <1>2, TrialFacts
<1>4. Ended' = Ended
    BY <1>1 DEF Ended
<1>5. \A m \in Messages : Current(m) => Current(m)'
    BY <1>1, <1>4 DEF Current
<1>6. Current(seen.telemetry)'
    <2>1. Current(seen.telemetry)
        BY DEF TrialInv
    <2> QED  BY <1>1, <1>3, <1>4, <2>1 DEF Current
<1>7. TrialShape'
    BY <1>1, <1>3 DEF TrialInv, TrialShape
<1>8. \A m \in Messages : sampled' = <<m>> => Current(m)'
    BY <1>1, <1>5 DEF TrialInv
<1> QED  BY <1>1, <1>4, <1>6, <1>7, <1>8 DEF TrialInv

LEMMA StartKeeps ==
    ASSUME TrialInv, StartsTrial
    PROVE  TrialInv'
<1>1. trial.goal = FALSE /\ verdict = "" /\ UNCHANGED <<mode, wire, sampled, seen, verdict>>
    BY TrialFacts DEF StartsTrial, Observing
<1>2. ~Ended /\ server.id \in 0 .. 1 /\ wire = <<>> /\ server.goal = "none"
    BY <1>1 DEF TrialInv, Ended
<1>3. trial' \in Trials /\ trial'.goal = TRUE /\ trial'.terminal = "none" /\ trial'.baseline = seen.telemetry.id
    <2> DEFINE z == 0
               yes == TRUE
               b == seen.telemetry.id
    <2>1. z \in 0 .. Timeout + 1 /\ z \in 0 .. Window /\ b \in -1 .. 2 /\ yes = TRUE
        BY TrialAssumption, TrialFacts
    <2>2. trial' = [goal |-> yes, age |-> z, baseline |-> b, terminal |-> "none", quiet |-> z]
        BY DEF StartsTrial
    <2> HIDE DEF z, b, yes
    <2>3. trial' \in Trials /\ trial'.goal = TRUE /\ trial'.terminal = "none" /\ trial'.baseline = b
        BY <2>1, <2>2 DEF Trials
    <2> QED  BY <2>3 DEF b
<1>4. /\ server' \in [goal : {"none", "own"}, id : 0 .. 2, status : Statuses \union {"none"}, at : BOOLEAN]
      /\ server'.goal = "own" /\ server'.id = server.id /\ server'.status = server.status
      /\ server'.at = server.at
    BY TrialFacts DEF StartsTrial
<1>5. ~Ended'
    BY <1>4 DEF Ended
<1>6. \A m \in Messages : Current(m) => Current(m)'
    BY <1>2, <1>4, <1>5 DEF Current
<1>7. seen.telemetry.id \in {-1, server.id}
    <2>1. NoTelemetry.id = -1
        BY DEF NoTelemetry
    <2>2. seen.telemetry = NoTelemetry \/ seen.telemetry.id = server.id
        BY <1>2 DEF TrialInv, Current
    <2> QED  BY <2>1, <2>2
<1>8. TrialShape'
    BY <1>1, <1>3, <1>4 DEF TrialInv, TrialShape
<1>9. Current(seen.telemetry)'
    BY <1>1, <1>2, <1>4, <1>5 DEF TrialInv, Current
<1>10. \A m \in Messages : sampled' = <<m>> => Current(m)'
    BY <1>1, <1>6 DEF TrialInv
<1> QED  BY <1>1, <1>2, <1>3, <1>4, <1>5, <1>7, <1>8, <1>9, <1>10 DEF TrialInv

LEMMA EndKeeps ==
    ASSUME TrialInv, NEW s \in Statuses, TrialGoalEnds(s)
    PROVE  TrialInv'
<1>1. server.goal = "own" /\ UNCHANGED <<mode, sampled, seen, trial, verdict>> /\ wire' = Append(wire, s)
    BY DEF TrialGoalEnds
<1>2. ~Ended /\ server.id \in 0 .. 1 /\ wire = <<>> /\ trial.terminal = "none" /\ verdict # "pass"
    BY <1>1 DEF TrialInv, Ended
<1>3. trial.goal = TRUE
    BY <1>1, TrialFacts DEF TrialInv
<1>4. /\ server' \in [goal : {"none", "own"}, id : 0 .. 2, status : Statuses \union {"none"}, at : BOOLEAN]
      /\ server'.goal = "none" /\ server'.id = server.id + 1 /\ server'.status = s
    <2> DEFINE n == server.id + 1
               a == s = "succeeded"
    <2>1. n \in 0 .. 2 /\ a \in BOOLEAN
        BY <1>2
    <2>2. server' = [goal |-> "none", id |-> n, status |-> s, at |-> a]
        BY DEF TrialGoalEnds
    <2> HIDE DEF n, a
    <2>3. /\ server' \in [goal : {"none", "own"}, id : 0 .. 2, status : Statuses \union {"none"}, at : BOOLEAN]
          /\ server'.goal = "none" /\ server'.id = n /\ server'.status = s
        BY <2>1, <2>2
    <2> QED  BY <2>3 DEF n
<1>5. Ended'
    BY <1>1, <1>3, <1>4 DEF Ended
<1>6. wire' = <<s>> /\ wire' \in Seq(Statuses)
    BY <1>1, <1>2
<1>7. server'.id - 1 = server.id
    BY <1>2, <1>4
<1>8. \A m \in Messages : Current(m) => Current(m)'
    BY <1>2, <1>5, <1>7 DEF Current
<1>9. Current(seen.telemetry)'
    BY <1>1, <1>2, <1>5, <1>7 DEF TrialInv, Current
<1>10. TrialShape'
    BY <1>1, <1>4, <1>6 DEF TrialInv, TrialShape
<1>11. trial.baseline \in {-1, server.id}
    BY <1>2, <1>3 DEF TrialInv
<1>12. \A m \in Messages : sampled' = <<m>> => Current(m)'
    BY <1>1, <1>8 DEF TrialInv
<1> QED  BY <1>1, <1>2, <1>3, <1>4, <1>5, <1>6, <1>7, <1>9, <1>10, <1>11, <1>12 DEF TrialInv

(* A new terminal status, from an event or from telemetry, or none.        *)
LEMMA TrialMoves ==
    ASSUME TrialInv, UNCHANGED <<mode, server, verdict>>,
           trial' \in Trials, trial'.goal = trial.goal, trial'.baseline = trial.baseline,
           trial'.terminal \in {trial.terminal, server.status},
           trial'.terminal # trial.terminal => Ended,
           wire' \in Seq(Statuses), wire' = wire \/ wire' = <<>>,
           sampled' = <<>> \/ \E m \in Messages : sampled' = <<m>>,
           \A m \in Messages : sampled' = <<m>> => Current(m),
           seen' \in [telemetry : Messages, poses : BOOLEAN, plan : BOOLEAN],
           Current(seen'.telemetry)
    PROVE  TrialInv'
<1>1. Ended' = Ended
    BY DEF Ended
<1>2. \A m \in Messages : Current(m) => Current(m)'
    BY <1>1 DEF Current
<1>3. Current(seen.telemetry)'
    BY <1>1 DEF Current
<1>4. TrialShape'
    BY DEF TrialInv, TrialShape
<1>5. \A m \in Messages : sampled' = <<m>> => Current(m)'
    BY <1>2
<1> QED  BY <1>1, <1>3, <1>4, <1>5 DEF TrialInv

LEMMA ResultsKeep ==
    ASSUME TrialInv, ReceivesEvent \/ ReceivesTelemetry
    PROVE  TrialInv'
<1>1. ASSUME NEW s \in Statuses \union {"none"}
      PROVE  LET t == [trial EXCEPT !.terminal = s, !.quiet = 0]
             IN  /\ t \in Trials /\ t.goal = trial.goal /\ t.baseline = trial.baseline /\ t.terminal = s
    <2> DEFINE z == 0
               t == [trial EXCEPT !.terminal = s, !.quiet = z]
    <2>1. z \in 0 .. Window
        BY TrialAssumption
    <2> HIDE DEF z
    <2> QED  BY <2>1, TrialFacts DEF Trials, z
<1>2. CASE ReceivesEvent
    <2>1. /\ wire # <<>> /\ wire' = Tail(wire) /\ trial' = [trial EXCEPT !.terminal = Head(wire), !.quiet = 0]
          /\ UNCHANGED <<mode, server, sampled, seen, verdict>>
        BY <1>2 DEF ReceivesEvent
    <2>2. Ended /\ wire = <<server.status>>
        BY <2>1 DEF TrialInv
    <2>3. Head(wire) = server.status /\ wire' = <<>>
        BY <2>1, <2>2
    <2>4. wire' \in Seq(Statuses)
        BY <2>3
    <2>5. /\ trial' \in Trials /\ trial'.goal = trial.goal /\ trial'.baseline = trial.baseline
          /\ trial'.terminal = server.status
        BY <1>1, <2>1, <2>3, TrialFacts
    <2>6. /\ sampled' = <<>> \/ \E m \in Messages : sampled' = <<m>>
          /\ \A m \in Messages : sampled' = <<m>> => Current(m)
          /\ seen' \in [telemetry : Messages, poses : BOOLEAN, plan : BOOLEAN]
          /\ Current(seen'.telemetry)
        BY <2>1 DEF TrialInv, TrialShape
    <2> QED  BY <2>1, <2>2, <2>3, <2>4, <2>5, <2>6, TrialMoves
<1>3. CASE ReceivesTelemetry
    <2> DEFINE m == Head(sampled)
    <2>1. /\ sampled # <<>> /\ sampled' = <<>> /\ seen' = [seen EXCEPT !.telemetry = m]
          /\ trial' = IF IsNewResult(m) THEN [trial EXCEPT !.terminal = m.status, !.quiet = 0] ELSE trial
          /\ UNCHANGED <<mode, server, wire, verdict>>
        BY <1>3 DEF ReceivesTelemetry
    <2>2. m \in Messages /\ sampled = <<m>> /\ Current(m)
        <3>1. PICK k \in Messages : sampled = <<k>>
            BY <2>1 DEF TrialInv, TrialShape
        <3>2. m = k
            BY <3>1
        <3> QED  BY <3>1, <3>2 DEF TrialInv
    <2> HIDE DEF m
    <2>3. seen' \in [telemetry : Messages, poses : BOOLEAN, plan : BOOLEAN] /\ seen'.telemetry = m
        BY <2>1, <2>2, TrialFacts
    <2>4. m.id \in -1 .. 2 /\ m.status \in Statuses \union {"none"}
        BY <2>2 DEF Messages
    <2>5. IsNewResult(m) => Ended /\ m.status = server.status
        <3>1. SUFFICES ASSUME IsNewResult(m) PROVE Ended /\ m.status = server.status
            OBVIOUS
        <3>2. trial.baseline >= 0 /\ m.id > trial.baseline
            BY <3>1 DEF IsNewResult
        <3>3. m # NoTelemetry
            BY <2>4, <3>2, TrialFacts DEF NoTelemetry
        <3>7. trial.baseline # -1
            BY <3>2, TrialFacts
        <3>4. trial.goal = TRUE
            BY <3>7, TrialFacts DEF TrialInv
        <3>5. CASE Ended
            <4>1. trial.baseline = server.id - 1
                BY <3>4, <3>5, <3>7 DEF TrialInv
            <4>2. m.id # server.id - 1
                BY <2>4, <3>2, <4>1, TrialFacts
            <4> QED  BY <2>2, <3>3, <3>5, <4>2 DEF Current
        <3>6. CASE ~Ended
            <4>1. trial.baseline = server.id
                BY <3>4, <3>6, <3>7 DEF TrialInv
            <4>2. m.id = server.id
                BY <2>2, <3>3, <3>6 DEF Current
            <4> QED  BY <3>2, <4>1, <4>2, TrialFacts
        <3> QED  BY <3>5, <3>6
    <2>6. /\ trial' \in Trials /\ trial'.goal = trial.goal /\ trial'.baseline = trial.baseline
          /\ trial'.terminal \in {trial.terminal, server.status}
          /\ trial'.terminal # trial.terminal => Ended
        <3>1. CASE IsNewResult(m)
            BY <1>1, <2>1, <2>4, <2>5, <3>1
        <3>2. CASE ~IsNewResult(m)
            BY <2>1, <3>2, TrialFacts
        <3> QED  BY <3>1, <3>2
    <2>7. wire' \in Seq(Statuses) /\ wire' = wire
        BY <2>1 DEF TrialInv, TrialShape
    <2>8. Current(seen'.telemetry)
        BY <2>2, <2>3
    <2>9. \A k \in Messages : sampled' = <<k>> => Current(k)
        BY <2>1
    <2> QED  BY <2>1, <2>3, <2>6, <2>7, <2>8, <2>9, TrialMoves
<1> QED  BY <1>2, <1>3

LEMMA TicksKeep ==
    ASSUME TrialInv, TelemetryTick
    PROVE  TrialInv'
<1> DEFINE m == [id |-> server.id, status |-> server.status]
<1>1. sampled' = <<m>> /\ UNCHANGED <<mode, server, wire, seen, verdict>>
    BY DEF TelemetryTick
<1>2. m \in Messages /\ Current(m)
    <2>1. m \in Messages
        BY TrialFacts DEF Messages
    <2> QED  BY <2>1 DEF Current
<1>3. /\ trial' \in Trials /\ trial'.goal = trial.goal /\ trial'.baseline = trial.baseline
      /\ trial'.terminal = trial.terminal
    <2> DEFINE a == IF trial.age <= Timeout THEN trial.age + 1 ELSE trial.age
               q == IF trial.terminal # "none" /\ trial.quiet < Window THEN trial.quiet + 1 ELSE trial.quiet
    <2>1. a \in 0 .. Timeout + 1 /\ q \in 0 .. Window
        BY TrialAssumption, TrialFacts
    <2>2. trial' = trial \/ trial' = [trial EXCEPT !.age = a, !.quiet = q]
        BY DEF TelemetryTick
    <2> HIDE DEF a, q
    <2> QED  BY <2>1, <2>2, TrialFacts DEF Trials
<1> HIDE DEF m
<1>4. \A k \in Messages : sampled' = <<k>> => Current(k)
    <2> SUFFICES ASSUME NEW k \in Messages, sampled' = <<k>> PROVE Current(k)
        OBVIOUS
    <2>1. k = m
        BY <1>1
    <2> QED  BY <1>2, <2>1
<1>5. /\ wire' \in Seq(Statuses) /\ wire' = wire
      /\ seen' \in [telemetry : Messages, poses : BOOLEAN, plan : BOOLEAN]
      /\ Current(seen'.telemetry)
    BY <1>1 DEF TrialInv, TrialShape
<1> QED  BY <1>1, <1>2, <1>3, <1>4, <1>5, TrialMoves

LEMMA FinishKeeps ==
    ASSUME TrialInv, FinishesTrial
    PROVE  TrialInv'
<1>1. /\ trial.goal = TRUE /\ verdict' = IF Gates THEN "pass" ELSE "fail"
      /\ UNCHANGED <<mode, server, wire, sampled, seen, trial>>
    BY TrialFacts DEF FinishesTrial
<1>2. Gates => trial.terminal = "succeeded" /\ server.at = TRUE
    BY TrialFacts DEF Gates
<1>3. trial.terminal # "none" => Ended
    BY DEF TrialInv
<1>4. Ended' = Ended /\ (verdict' = "pass" => Ended /\ server.at = TRUE) /\ verdict' \in {"pass", "fail"}
    BY <1>1, <1>2, <1>3 DEF Ended
<1>5. \A m \in Messages : Current(m) => Current(m)'
    BY <1>1, <1>4 DEF Current
<1>6. Current(seen.telemetry)'
    <2>1. Current(seen.telemetry)
        BY DEF TrialInv
    <2> QED  BY <1>1, <1>4, <2>1 DEF Current
<1>7. TrialShape'
    BY <1>1, <1>4 DEF TrialInv, TrialShape
<1>8. \A m \in Messages : sampled' = <<m>> => Current(m)'
    BY <1>1, <1>5 DEF TrialInv
<1> QED  BY <1>1, <1>4, <1>6, <1>7, <1>8 DEF TrialInv

LEMMA TrialInvStep == TrialInv /\ [TrialNext]_trialVars => TrialInv'
<1> SUFFICES ASSUME TrialInv, [TrialNext]_trialVars PROVE TrialInv'
    OBVIOUS
<1>1. CASE ReceivesPose \/ ReceivesPlan
    BY <1>1, LooksKeepTrial
<1>2. CASE StartsTrial
    BY <1>2, StartKeeps
<1>3. CASE \E s \in Statuses : TrialGoalEnds(s)
    BY <1>3, EndKeeps
<1>4. CASE ReceivesEvent \/ ReceivesTelemetry
    BY <1>4, ResultsKeep
<1>5. CASE FinishesTrial
    BY <1>5, FinishKeeps
<1>6. CASE TelemetryTick
    BY <1>6, TicksKeep
<1>7. CASE UNCHANGED trialVars
    <2>1. Ended' = Ended /\ \A m \in Messages : Current(m) => Current(m)'
        BY <1>7 DEF trialVars, Ended, Current
    <2>2. Current(seen.telemetry)'
        <3>1. Current(seen.telemetry)
            BY DEF TrialInv
        <3> QED  BY <1>7, <2>1, <3>1 DEF trialVars, Current
    <2>3. TrialShape' /\ \A m \in Messages : sampled' = <<m>> => Current(m)'
        BY <1>7, <2>1 DEF trialVars, TrialInv, TrialShape
    <2> QED  BY <1>7, <2>1, <2>2, <2>3 DEF trialVars, TrialInv
<1> QED  BY <1>1, <1>2, <1>3, <1>4, <1>5, <1>6, <1>7 DEF TrialNext

(* A trial is judged on the status Nav2 gave to its own goal, late events  *)
(* and the telemetry of an earlier goal notwithstanding                    *)
(* (EvaluationRunner._event, _telemetry, _finish).                         *)
THEOREM TrialJudgedOnItsOwn == TrialSpec => []JudgedOnItsOwn
BY TrialInvInit, TrialInvStep, TrialInvTrue, PTL DEF TrialSpec

-----------------------------------------------------------------------------
(* All the services of MCServices.  A step is one of the service that the  *)
(* behaviour is about, and the others rest.                                *)

ServicesInv ==
    /\ GoalsInv /\ StartupInv /\ TreeInv /\ CockpitTypeOK /\ RequestsInv /\ RecordingInv
    /\ TrialInv /\ ProfileInv

LEMMA ServicesInvInit == ServicesInit => ServicesInv
BY GoalsInvInit, StartupInvInit, TreeInvInit, CockpitTypeInit, RequestsInvInit, RecordingInvInit,
   TrialInvInit, ProfileInit DEF ServicesInit, ServicesInv

LEMMA ServicesStep ==
    ASSUME [ServicesNext]_serviceVars
    PROVE  /\ [GoalsNext]_goalVars /\ [StartupNext]_startupVars /\ [TreeNext]_treeVars
           /\ [CockpitNext]_cockpitVars /\ [RequestsNext]_requestVars /\ [RecordingNext]_recordingVars
           /\ [TrialNext]_trialVars /\ [Next]_vars
<1>1. CASE ServicesNext
    BY <1>1 DEF ServicesNext
<1>2. CASE UNCHANGED serviceVars
    BY <1>2 DEF serviceVars
<1> QED  BY <1>1, <1>2

LEMMA ServicesInvStep ==
    ASSUME ~Switches, ServicesInv, [ServicesNext]_serviceVars
    PROVE  ServicesInv' /\ AdoptionStep /\ CommitStep
<1>1. GoalsInv' /\ StartupInv' /\ CockpitTypeOK' /\ RequestsInv' /\ RecordingInv' /\ TrialInv'
    BY ServicesStep, GoalsInvStep, StartupInvStep, CockpitTypeStep, RequestsInvStep,
       RecordingInvStep, TrialInvStep DEF ServicesInv
<1>2. TreeInv' /\ AdoptionStep
    BY ServicesStep, TreeInvStep DEF ServicesInv
<1>3. ProfileInv' /\ (txn'.active = txn.active \/ CommitStep)
    BY ServicesStep, ProfileStep DEF ServicesInv
<1> QED  BY <1>1, <1>2, <1>3 DEF ServicesInv, CommitStep

(* Every service keeps its variables within their types and bounds, for    *)
(* all values of the constants with which no thread of the profile         *)
(* coordinator is preempted inside begin.                                  *)
THEOREM ServicesTyped == ~Switches => (ServicesSpec => []ServicesTypeOK)
<1> SUFFICES ASSUME ~Switches PROVE ServicesSpec => []ServicesTypeOK
    OBVIOUS
<1>1. ServicesInv /\ [ServicesNext]_serviceVars => ServicesInv'
    BY ServicesInvStep
<1>2. ServicesInv => ServicesTypeOK
    BY TrialInvTypes DEF ServicesInv, ServicesTypeOK, GoalsInv, StartupInv, StartupShape, TreeInv,
                         RequestsInv, RecordingInv, ProfileInv
<1> QED  BY ServicesInvInit, <1>1, <1>2, PTL DEF ServicesSpec

(* What the services say is so (ReadyMeansActive, FollowsOnWord,           *)
(* AnswerTellsTheTruth, CaptureOutlivesMission, ManualIsKept,              *)
(* JudgedOnItsOwn, NoUnexpectedConfirmation), on the same condition, which *)
(* only the last of them needs.                                            *)
THEOREM ServicesTellTheTruth == ~Switches => (ServicesSpec => []ServicesSafe)
<1> SUFFICES ASSUME ~Switches PROVE ServicesSpec => []ServicesSafe
    OBVIOUS
<1>1. ServicesInv /\ [ServicesNext]_serviceVars => ServicesInv'
    BY ServicesInvStep
<1>2. ServicesInv => ServicesSafe
    <2> SUFFICES ASSUME ServicesInv PROVE ServicesSafe
        OBVIOUS
    <2>1. ReadyMeansActive
        BY DEF ServicesInv, StartupInv, ReadyMeansActive
    <2>2. FollowsOnWord
        BY DEF ServicesInv, TreeInv
    <2>3. AnswerTellsTheTruth /\ CaptureOutlivesMission /\ ManualIsKept /\ JudgedOnItsOwn
        BY RequestsInvTrue, RecordingInvTrue, TrialInvTrue DEF ServicesInv
    <2>4. NoUnexpectedConfirmation
        BY DEF ServicesInv, ProfileInv, OneWorks, NoUnexpectedConfirmation
    <2> QED  BY <2>1, <2>2, <2>3, <2>4 DEF ServicesSafe
<1> QED  BY ServicesInvInit, <1>1, <1>2, PTL DEF ServicesSpec

(* A wait for a maneuver is ended by the adoption of an approved path      *)
(* alone, and a profile becomes the active one only when every component   *)
(* has been set to it, on the same condition.                              *)
THEOREM ServicesEarnTheirSteps == ~Switches => (ServicesSpec => StepsAreEarned)
<1> SUFFICES ASSUME ~Switches PROVE ServicesSpec => StepsAreEarned
    OBVIOUS
<1>1. ServicesInv /\ [ServicesNext]_serviceVars =>
          ServicesInv' /\ [AdoptionStep /\ CommitStep]_serviceVars
    BY ServicesInvStep
<1> QED  BY ServicesInvInit, <1>1, PTL DEF ServicesSpec, StepsAreEarned
=============================================================================
