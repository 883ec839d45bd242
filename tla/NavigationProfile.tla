-------------------------- MODULE NavigationProfile --------------------------
(***************************************************************************)
(* The urban / rural profile: NavigationProfileTransaction and the service *)
(* _apply of navigation_profile_coordinator.py, with the parameter servers *)
(* of the four components it sets.                                         *)
(*                                                                         *)
(* _apply runs in a reentrant group, one thread per request, and shares    *)
(* one transaction object without a lock.  A step is the stretch between   *)
(* two points where another thread matters: the test and the assignments   *)
(* of begin, each SetParameters call, and each confirmation.               *)
(***************************************************************************)
EXTENDS Integers, SequencesExt

CONSTANTS
    Threads,        \* threads that serve _apply
    Order,          \* COMPONENTS
    SeveralParams,  \* the components that are set by more than one parameter
    Profiles,       \* PROFILES
    StartProfile,   \* the profile the nodes are launched with
    MaxApplies,     \* bound: requests
    Outcomes,       \* scenario: what a SetParameters call may come to
    Switches        \* scenario: may a thread be preempted inside begin?

Components == ToSet(Order)

(* COMPONENTS of the code, and those a profile gives several parameters.   *)
CodeOrder == <<"ground_filter", "local_inflation", "global_inflation", "controller">>
CodeSeveral == {"ground_filter", "local_inflation", "global_inflation"}

(* "ok" and "rejected" answers; "unavailable": no service, or the deadline *)
(* had passed, so nothing was sent; "partly": SetParameters took some of   *)
(* the parameters; "lost": set, but the answer missed the deadline;        *)
(* "late": the deadline passed before the component got to the request.    *)
AllOutcomes == {"ok", "rejected", "unavailable", "partly", "lost", "late"}

ASSUME ProfileAssumption ==
    /\ Order \in Seq(STRING) /\ IsInjective(Order) /\ Order # <<>>
    /\ SeveralParams \subseteq Components
    /\ StartProfile \in Profiles
    /\ {"mixed", "unknown"} \intersect Profiles = {}
    /\ MaxApplies \in Nat
    /\ Outcomes \subseteq AllOutcomes
    /\ Switches \in BOOLEAN

VARIABLES
    txn,        \* the NavigationProfileTransaction
    thread,     \* the _apply each thread is in
    value,      \* the profile each component runs with
    flight,     \* requests a component has not got to yet
    nApplies,   \* requests so far
    reported,   \* history: components a failed rollback has been reported for
    doubtful    \* history: components whose last answers do not tell their profile

vars == <<txn, thread, value, flight, nApplies, reported, doubtful>>

States == {"IDLE", "APPLYING", "ROLLING_BACK", "SUCCEEDED", "FAILED"}
Busy == txn.state \in {"APPLYING", "ROLLING_BACK"}

(* list: what is left of the tuple the for loop runs over; ok: the result  *)
(* of _set_component that is about to be confirmed.                        *)
Points == {"idle", "test", "assign", "apply", "confirm", "rollback",
           "confirm_rollback", "raised"}
Idle == [pc |-> "idle", target |-> StartProfile, list |-> <<>>, ok |-> FALSE]

TypeOK ==
    /\ txn \in [state : States, active : Profiles, previous : Profiles,
                target : Profiles, pending : Seq(Components), applied : Seq(Components)]
    /\ thread \in [Threads -> [pc : Points, target : Profiles \union {"unknown"},
                               list : Seq(Components), ok : BOOLEAN]]
    /\ value \in [Components -> Profiles \union {"mixed"}]
    /\ flight \subseteq [comp : Components, profile : Profiles]
    /\ nApplies \in 0 .. MaxApplies
    /\ reported \subseteq Components /\ doubtful \subseteq Components

Init ==
    /\ txn = [state |-> "IDLE", active |-> StartProfile, previous |-> StartProfile,
              target |-> StartProfile, pending |-> <<>>, applied |-> <<>>]
    /\ thread = [t \in Threads |-> Idle]
    /\ value = [c \in Components |-> StartProfile]
    /\ flight = {}
    /\ nApplies = 0
    /\ reported = {} /\ doubtful = {}

(* Without preemption inside begin, a thread there runs on to its end.     *)
MayRun(t) == Switches \/ \A u \in Threads \ {t} : thread[u].pc # "assign"

-----------------------------------------------------------------------------
(* NavigationProfileTransaction.                                           *)

Begin(x, target) ==
    [x EXCEPT !.previous = x.active, !.target = target, !.pending = Order,
              !.applied = <<>>, !.state = "APPLYING"]

Expected(x, state, c) == x.state = state /\ Contains(x.pending, c)

(* Broken variants: nothing is rolled back, a transaction commits on its   *)
(* first confirmation, and a rollback of nothing is left open.             *)
ConfirmWithoutRollback(x, c, ok) ==
    LET left == RemoveFirst(x.pending, c) IN
    IF ~ok THEN [x EXCEPT !.pending = <<>>, !.state = "FAILED"]
    ELSE [x EXCEPT !.pending = left, !.applied = Append(@, c),
                   !.active = IF left = <<>> THEN x.target ELSE @,
                   !.state = IF left = <<>> THEN "SUCCEEDED" ELSE @]
ConfirmCommitsEarly(x, c, ok) ==
    LET left == RemoveFirst(x.pending, c) IN
    IF ~ok THEN [x EXCEPT !.pending = Reverse(x.applied),
                          !.state = IF x.applied = <<>> THEN "FAILED" ELSE "ROLLING_BACK"]
    ELSE [x EXCEPT !.pending = left, !.applied = Append(@, c),
                   !.active = x.target, !.state = "SUCCEEDED"]
ConfirmLeftOpen(x, c, ok) ==
    LET left == RemoveFirst(x.pending, c) IN
    IF ~ok THEN [x EXCEPT !.pending = Reverse(x.applied), !.state = "ROLLING_BACK"]
    ELSE [x EXCEPT !.pending = left, !.applied = Append(@, c),
                   !.active = IF left = <<>> THEN x.target ELSE @,
                   !.state = IF left = <<>> THEN "SUCCEEDED" ELSE @]

Confirm(x, c, ok) ==
    LET left == RemoveFirst(x.pending, c) IN
    IF ~ok THEN [x EXCEPT !.pending = Reverse(x.applied),
                          !.state = IF x.applied = <<>> THEN "FAILED" ELSE "ROLLING_BACK"]
    ELSE [x EXCEPT !.pending = left, !.applied = Append(@, c),
                   !.active = IF left = <<>> THEN x.target ELSE @,
                   !.state = IF left = <<>> THEN "SUCCEEDED" ELSE @]

ConfirmRollback(x, c) ==
    LET left == RemoveFirst(x.pending, c) IN
    [x EXCEPT !.pending = left,
              !.active = IF left = <<>> THEN x.previous ELSE @,
              !.state = IF left = <<>> THEN "FAILED" ELSE @]

-----------------------------------------------------------------------------
(* _apply.                                                                 *)

Request(t, profile) ==
    /\ MayRun(t)
    /\ thread[t].pc = "idle"
    /\ nApplies < MaxApplies
    /\ nApplies' = nApplies + 1
    /\ thread' = [thread EXCEPT ![t].pc = "test", ![t].target = profile]
    /\ UNCHANGED <<txn, value, flight, reported, doubtful>>

(* The tests of begin: refuse, or go on to its assignments.                *)
Refuse(t, refused) ==
    /\ MayRun(t)
    /\ thread[t].pc = "test"
    /\ thread' = IF refused THEN [thread EXCEPT ![t] = Idle]
                 ELSE [thread EXCEPT ![t].pc = "assign"]
    /\ UNCHANGED <<txn, value, flight, nApplies, reported, doubtful>>

(* Broken variants: each test of begin forgotten.                          *)
BeginTestUnknown(t) == Refuse(t, Busy)
BeginTestBusy(t) == Refuse(t, thread[t].target \notin Profiles)

BeginTest(t) == Refuse(t, thread[t].target \notin Profiles \/ Busy)

BeginAssign(t) ==
    /\ thread[t].pc = "assign"
    /\ txn' = Begin(txn, thread[t].target)
    /\ thread' = [thread EXCEPT ![t].pc = "apply", ![t].list = Order]
    /\ UNCHANGED <<value, flight, nApplies, reported, doubtful>>

(* One SetParameters call for c and what has become of it when             *)
(* _set_component returns.                                                 *)
SetComponent(c, profile, outcome) ==
    /\ outcome \in Outcomes
    /\ outcome = "partly" => c \in SeveralParams
    /\ value' = [value EXCEPT ![c] = CASE outcome \in {"ok", "lost"} -> profile
                                       [] outcome = "partly" -> "mixed"
                                       [] OTHER -> @]
    /\ flight' = IF outcome = "late" THEN flight \union {[comp |-> c, profile |-> profile]}
                 ELSE flight
    /\ doubtful' = IF outcome \in {"partly", "lost", "late"} THEN doubtful \union {c}
                   ELSE IF outcome = "ok" /\ \A f \in flight : f.comp # c THEN doubtful \ {c}
                   ELSE doubtful

Apply(t, outcome) ==
    LET c == Head(thread[t].list)
    IN  /\ MayRun(t)
        /\ thread[t].pc = "apply"
        /\ SetComponent(c, thread[t].target, outcome)
        /\ thread' = [thread EXCEPT ![t].pc = "confirm", ![t].ok = outcome = "ok"]
        /\ reported' = IF outcome = "ok" THEN reported \ {c} ELSE reported
        /\ UNCHANGED <<txn, nApplies>>

(* After its loop _apply rolls back or answers, by the state it then sees. *)
AfterLoop(t, x) ==
    IF x.state = "ROLLING_BACK" /\ x.pending # <<>>
    THEN [thread EXCEPT ![t].pc = "rollback", ![t].list = x.pending]
    ELSE [thread EXCEPT ![t] = Idle]

ConfirmApplied(t) ==
    LET c == Head(thread[t].list)
        x == Confirm(txn, c, thread[t].ok)
    IN  /\ MayRun(t)
        /\ thread[t].pc = "confirm"
        /\ txn' = IF Expected(txn, "APPLYING", c) THEN x ELSE txn
        /\ thread' = IF ~Expected(txn, "APPLYING", c)
                     THEN [thread EXCEPT ![t].pc = "raised"]
                     ELSE IF thread[t].ok /\ Len(thread[t].list) > 1
                     THEN [thread EXCEPT ![t].pc = "apply", ![t].list = Tail(@)]
                     ELSE AfterLoop(t, x)
        /\ UNCHANGED <<value, flight, nApplies, reported, doubtful>>

Rollback(t, outcome) ==
    LET c == Head(thread[t].list)
    IN  /\ MayRun(t)
        /\ thread[t].pc = "rollback"
        /\ SetComponent(c, txn.previous, outcome)
        /\ thread' = [thread EXCEPT ![t].pc = "confirm_rollback", ![t].ok = outcome = "ok"]
        /\ UNCHANGED <<txn, nApplies, reported>>

(* A component that could not be restored is named in the answer's error.  *)
ConfirmRolledBack(t) ==
    LET c == Head(thread[t].list)
        expected == Expected(txn, "ROLLING_BACK", c)
    IN  /\ MayRun(t)
        /\ thread[t].pc = "confirm_rollback"
        /\ txn' = IF expected THEN ConfirmRollback(txn, c) ELSE txn
        /\ reported' = IF expected /\ thread[t].ok THEN reported \ {c}
                       ELSE IF expected THEN reported \union {c}
                       ELSE reported
        /\ thread' = IF ~expected THEN [thread EXCEPT ![t].pc = "raised"]
                     ELSE IF Len(thread[t].list) > 1
                     THEN [thread EXCEPT ![t].pc = "rollback", ![t].list = Tail(@)]
                     ELSE [thread EXCEPT ![t] = Idle]
        /\ UNCHANGED <<value, flight, nApplies, doubtful>>

(* A component gets to a request whose sender has stopped waiting.         *)
LateUpdate(f) ==
    /\ f \in flight
    /\ flight' = flight \ {f}
    /\ value' = [value EXCEPT ![f.comp] = f.profile]
    /\ UNCHANGED <<txn, thread, nApplies, reported, doubtful>>

-----------------------------------------------------------------------------
Serve(t) ==
    \/ BeginTest(t) \/ BeginAssign(t)
    \/ \E o \in Outcomes : Apply(t, o) \/ Rollback(t, o)
    \/ ConfirmApplied(t) \/ ConfirmRolledBack(t)

Next ==
    \/ \E t \in Threads : Serve(t) \/ \E p \in Profiles \union {"unknown"} : Request(t, p)
    \/ \E f \in flight : LateUpdate(f)

Spec == Init /\ [][Next]_vars

(* Every wait of a serving thread is bounded by a deadline.                *)
ProfileFairness == \A t \in Threads : WF_vars(Serve(t))

FairSpec == Spec /\ ProfileFairness

-----------------------------------------------------------------------------
(* Properties.                                                             *)

Quiet == ~Busy /\ \A t \in Threads : thread[t].pc \in {"idle", "test"}

(* One profile on every component, or all of them restored: between        *)
(* transactions every component runs with the profile that is reported as  *)
(* active, except those whose failed rollback the caller has been told of. *)
AppliedOrRestored ==
    Quiet => \A c \in Components : value[c] = txn.active \/ c \in reported

(* The same as far as answers can be trusted: a component that is found to *)
(* differ has had a call whose answer was lost or did not tell what had    *)
(* been set.  A fault of one component never leaves another one behind.    *)
RestoredUnlessDoubtful ==
    Quiet => \A c \in Components : value[c] = txn.active \/ c \in reported \union doubtful

(* Transactions exclude each other: no thread is ever surprised by the     *)
(* state of the shared transaction, so confirm and confirm_rollback never  *)
(* raise.                                                                  *)
NoUnexpectedConfirmation == \A t \in Threads : thread[t].pc # "raised"

(* The active profile changes only by a commit, when every component has   *)
(* just been set to it and no older request for it is still on its way.    *)
CommitStep ==
    txn'.active # txn.active =>
        /\ txn'.active = txn'.target
        /\ \A c \in Components \ doubtful' : value'[c] = txn'.active

CommitIsComplete == [][CommitStep]_vars

(* Every transaction ends, whatever the components answer or fail to: one  *)
(* left open would have begin refuse every later request.                  *)
TransactionEnds == Busy ~> ~Busy
=============================================================================
