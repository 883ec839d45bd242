---------------------------- MODULE Nav2Startup ----------------------------
(***************************************************************************)
(* nav2_startup_coordinator.py and startup_readiness.py: Nav2 is activated *)
(* once, when its inputs are there, and is called ready when every managed *)
(* node has answered "active" and path health has answered at all.         *)
(*                                                                         *)
(* The 0.1 s timer is the clock of the module.  A future is "none", "sent" *)
(* or answered with "good" or "bad"; a call that is not answered within    *)
(* two seconds is dropped (`late`), and its answer with it.                *)
(***************************************************************************)
EXTENDS Integers

CONSTANTS
    Nav2Nodes,          \* NAV2_NODES
    ActivationTimeout,  \* activation_timeout_s, in ticks
    StartupModes        \* records: clock, scan, keepout are required

ASSUME StartupAssumption ==
    /\ ActivationTimeout \in Nat
    /\ StartupModes \subseteq [clock : BOOLEAN, scan : BOOLEAN, keepout : BOOLEAN]

VARIABLES
    startMode,      \* require_clock_progress, obstacle_detection_required, use_keepout
    startup,        \* _policy.state
    inputs,         \* _clock_samples, _odom_samples, _scan, the transform
    futures,        \* _zones_state_future, _path_health_future, _manage_future
    stateFutures,   \* _state_futures
    told,           \* _mask_ready, _path_health_ready, _readiness_retired
    nodeStates,     \* _node_states
    sinceStart,     \* ticks since _manage_requested_at
    lifecycle,      \* the Nav2 nodes themselves, external
    wasActive,      \* history: the nodes that have been active since the request
    nStarts         \* history: startup requests

startupVars == <<startMode, startup, inputs, futures, stateFutures, told, nodeStates,
                 sinceStart, lifecycle, wasActive, nStarts>>

StartupInit ==
    /\ startMode \in StartupModes
    /\ startup = "WAITING_INPUTS"
    /\ inputs = [clock |-> "none", odom |-> "none", finite |-> FALSE,
                 scan |-> "none", fresh |-> FALSE]
    /\ futures = [zones |-> "none", health |-> "none", manage |-> "none"]
    /\ stateFutures = [n \in Nav2Nodes |-> "none"]
    /\ told = [mask |-> ~startMode.keepout, health |-> FALSE, retired |-> FALSE]
    /\ nodeStates = [n \in Nav2Nodes |-> "unknown"]
    /\ sinceStart = 0
    /\ lifecycle = [n \in Nav2Nodes |-> "inactive"]
    /\ wasActive = {} /\ nStarts = 0

-----------------------------------------------------------------------------
(* The last two samples of a topic: none, one, or how the later compares.  *)
Second(kept, order) == IF kept = "none" THEN "one" ELSE order

(* The subscriptions last until Nav2 is ready, but only _tick in            *)
(* WAITING_INPUTS reads what they keep.                                    *)
Listening == startup = "WAITING_INPUTS"

(* An equal clock sample is not kept.                                      *)
OnClock(order) ==
    /\ startMode.clock /\ Listening
    /\ order \in {"later", "earlier"}
    /\ inputs' = [inputs EXCEPT !.clock = Second(@, order)]
    /\ UNCHANGED <<startMode, startup, futures, stateFutures, told, nodeStates, sinceStart,
                   lifecycle, wasActive, nStarts>>

OnStartupOdom(order, finite) ==
    /\ Listening
    /\ inputs' = [inputs EXCEPT !.odom = Second(@, order), !.finite = finite]
    /\ UNCHANGED <<startMode, startup, futures, stateFutures, told, nodeStates, sinceStart,
                   lifecycle, wasActive, nStarts>>

OnStartupScan(scan) ==
    /\ startMode.scan /\ Listening
    /\ inputs' = [inputs EXCEPT !.scan = scan, !.fresh = TRUE]
    /\ UNCHANGED <<startMode, startup, futures, stateFutures, told, nodeStates, sinceStart,
                   lifecycle, wasActive, nStarts>>

(* input_freshness_s passes without a scan.                                *)
StartupScanAges ==
    /\ Listening /\ inputs.fresh
    /\ inputs' = [inputs EXCEPT !.fresh = FALSE]
    /\ UNCHANGED <<startMode, startup, futures, stateFutures, told, nodeStates, sinceStart,
                   lifecycle, wasActive, nStarts>>

(* missing_requirements of _snapshot is empty; `tf`: the transform.        *)
NothingMissing(tf, mask, managed) ==
    /\ startMode.clock => inputs.clock = "later"
    /\ inputs.odom = "later" /\ inputs.finite
    /\ tf = "fresh" /\ (startMode.clock => inputs.clock # "none")
    /\ startMode.scan => inputs.scan = "valid" /\ inputs.fresh
    /\ startMode.keepout => mask
    /\ managed

(* _poll_zones_state: the mask, once ready, is not asked for again.        *)
PollZonesState(ready, late) ==
    /\ told' = [told EXCEPT !.mask = @ \/ futures.zones = "good"]
    /\ futures' = [futures EXCEPT
         !.zones = IF told.mask THEN @
                   ELSE IF @ = "sent" THEN IF late THEN "none" ELSE @
                   ELSE IF @ = "none" /\ ready THEN "sent"
                   ELSE "none",
         !.manage = IF startup' = "STARTING" THEN "sent" ELSE @]

(* _tick in WAITING_INPUTS.                                                *)
TickWaiting(tf, ready, late, managed) ==
    /\ startup = "WAITING_INPUTS"
    /\ startup' = IF NothingMissing(tf, told.mask \/ futures.zones = "good", managed)
                  THEN "STARTING" ELSE startup
    /\ PollZonesState(ready, late)
    /\ nStarts' = IF startup' = "STARTING" THEN nStarts + 1 ELSE nStarts
    /\ UNCHANGED <<startMode, inputs, stateFutures, nodeStates, sinceStart, lifecycle, wasActive>>

TimedOut == sinceStart >= ActivationTimeout

(* _poll_path_health, when every node is known to be active.               *)
HealthAnswered == told.health \/ futures.health = "good"
PolledHealth(ready, late) ==
    IF futures.health = "sent" THEN IF late THEN "none" ELSE "sent"
    ELSE IF futures.health = "none" /\ ready /\ ~told.health THEN "sent"
    ELSE "none"

(* The states after the answers that have come; futures asked anew.        *)
Answered(n) == IF stateFutures[n] \in {"active", "inactive", "invalid"} THEN stateFutures[n]
               ELSE nodeStates[n]
Asked(n, ready, late) ==
    IF stateFutures[n] = "sent" /\ n \notin late THEN "sent"
    ELSE IF n \in ready THEN "sent" ELSE "none"

(* Broken variant: a node that has not answered counts as active.          *)
AllActiveUnlessTold == \A n \in Nav2Nodes : Answered(n) \in {"active", "unknown"}

AllActive == \A n \in Nav2Nodes : Answered(n) = "active"

(* _poll_startup: _tick in STARTING.  A rejected or unanswered startup     *)
(* fails at once, without a look at the nodes.                             *)
ManageFailed == futures.manage = "bad" \/ (futures.manage = "sent" /\ TimedOut)

TickStarting(ready, late, healthReady, healthLate) ==
    /\ startup = "STARTING"
    /\ sinceStart' = IF TimedOut THEN sinceStart ELSE sinceStart + 1
    /\ IF ManageFailed
       THEN /\ startup' = "FAILED"
            /\ futures' = [futures EXCEPT !.manage = IF @ = "bad" THEN "none" ELSE @]
            /\ UNCHANGED <<stateFutures, nodeStates, told>>
       ELSE /\ nodeStates' = [n \in Nav2Nodes |-> Answered(n)]
            /\ stateFutures' = [n \in Nav2Nodes |-> Asked(n, ready, late)]
            /\ futures' = [futures EXCEPT
                 !.manage = IF @ = "good" THEN "none" ELSE @,
                 !.health = IF AllActive THEN PolledHealth(healthReady, healthLate) ELSE @]
            /\ startup' = IF AllActive /\ HealthAnswered THEN "ACTIVE"
                          ELSE IF TimedOut THEN "FAILED" ELSE startup
            /\ told' = [told EXCEPT !.health = @ \/ (AllActive /\ HealthAnswered),
                                    !.retired = AllActive /\ HealthAnswered]
    /\ UNCHANGED <<startMode, inputs, lifecycle, wasActive, nStarts>>

StartupTick ==
    \/ \E tf \in {"none", "stale", "fresh"}, ready, late, managed \in BOOLEAN :
         TickWaiting(tf, ready, late, managed)
    \/ \E ready, late \in SUBSET Nav2Nodes, hr, hl \in BOOLEAN : TickStarting(ready, late, hr, hl)

-----------------------------------------------------------------------------
(* External: the services and the nodes behind them.                       *)
AnswerService(s, answer) ==
    /\ futures[s] = "sent" /\ startup \in {"WAITING_INPUTS", "STARTING"}
    /\ s = "zones" => Listening
    /\ futures' = [futures EXCEPT ![s] = answer]
    /\ UNCHANGED <<startMode, startup, inputs, stateFutures, told, nodeStates, sinceStart,
                   lifecycle, wasActive, nStarts>>

AnswerState(n) ==
    /\ stateFutures[n] = "sent" /\ lifecycle[n] # "dead"
    /\ stateFutures' = [stateFutures EXCEPT ![n] = lifecycle[n]]
    /\ UNCHANGED <<startMode, startup, inputs, futures, told, nodeStates, sinceStart, lifecycle,
                   wasActive, nStarts>>

(* The lifecycle manager acts on the one request; a node may die.          *)
NodeChanges(n, to) ==
    /\ startup = "STARTING" /\ lifecycle[n] # "dead" /\ to # lifecycle[n]
    /\ lifecycle' = [lifecycle EXCEPT ![n] = to]
    /\ wasActive' = IF to = "active" THEN wasActive \union {n} ELSE wasActive
    /\ UNCHANGED <<startMode, startup, inputs, futures, stateFutures, told, nodeStates,
                   sinceStart, nStarts>>

StartupNext ==
    \/ \E order \in {"later", "earlier"} :
         OnClock(order) \/ \E finite \in BOOLEAN : OnStartupOdom(order, finite)
    \/ \E scan \in {"valid", "invalid"} : OnStartupScan(scan)
    \/ StartupScanAges \/ StartupTick
    \/ \E s \in {"zones", "health", "manage"}, a \in {"good", "bad"} : AnswerService(s, a)
    \/ \E n \in Nav2Nodes : AnswerState(n) \/ \E to \in {"active", "dead"} : NodeChanges(n, to)

(* The timer runs.                                                         *)
StartupFairness == WF_startupVars(StartupTick)

StartupSpec == StartupInit /\ [][StartupNext]_startupVars /\ StartupFairness

-----------------------------------------------------------------------------
StartupTypeOK ==
    /\ startMode \in StartupModes
    /\ startup \in {"WAITING_INPUTS", "STARTING", "ACTIVE", "FAILED"}
    /\ nodeStates \in [Nav2Nodes -> {"unknown", "active", "inactive", "invalid"}]
    /\ sinceStart \in 0 .. ActivationTimeout

(* Nav2 is called ready only when every managed node has been active since *)
(* the one startup request (one that died after it said so included) and   *)
(* path health has made a round trip, whatever the order of the answers,   *)
(* of the manager's in particular.                                         *)
ReadyMeansActive ==
    /\ nStarts <= 1
    /\ startup = "ACTIVE" => wasActive = Nav2Nodes /\ told.health

(* A startup that was requested ends: every wait of _poll_startup is       *)
(* bounded by activation_timeout_s.                                        *)
StartupEnds == startup = "STARTING" ~> startup \in {"ACTIVE", "FAILED"}
=============================================================================
