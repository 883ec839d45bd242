--------------------------- MODULE ShadowComparison ---------------------------
(***************************************************************************)
(* The canonical command path that runs in the shadow of the legacy one:   *)
(* legacy_vehicle_command_node.py translates every command, the comparison *)
(* node translates it again and pairs the two in the order they arrive,    *)
(* canonical_command_dry_run_node.py consumes the shadow.                  *)
(*                                                                         *)
(* Commands and their translations travel on topics of their own; either   *)
(* may be lost.  The adapter may translate wrongly, which is what the      *)
(* comparison is there to show.                                            *)
(***************************************************************************)
EXTENDS Integers, Sequences

CONSTANTS
    Commands,       \* the commands considered
    PairTimeout,    \* pair_timeout_s, in diagnostic periods
    QueueDepth,     \* queue_depth
    ValidFor,       \* valid_for_s, in diagnostic periods
    MaxCommands,    \* bound: commands published
    MaxLost,        \* bound: messages lost
    MaxWrong        \* bound: wrong translations

Invalid == "safe_invalid"

VARIABLES
    published,      \* how many commands there were
    toAdapter, toComparison,    \* commands on their way
    shadow,         \* translations on their way
    legacyQueue, shadowQueue,   \* _legacy and _shadow: value and age
    failures,       \* _diverged and the timeout and overflow counters together
    compared,
    level,          \* of the last diagnostics
    dry,            \* the dry run's effective command and its age
    received,       \* everything the comparison received, in order, both sides
    lost, wrong

shadowVars == <<published, toAdapter, toComparison, shadow, legacyQueue, shadowQueue, failures,
                compared, level, dry, received, lost, wrong>>

(* translate_legacy_command: a command that cannot be translated is a stop. *)
Translate(c) == IF c = "nonfinite" THEN Invalid ELSE c

Values == {Translate(c) : c \in Commands}

ShadowTypeOK ==
    /\ published \in 0..MaxCommands /\ compared \in 0..MaxCommands
    /\ Len(legacyQueue) <= QueueDepth /\ Len(shadowQueue) <= QueueDepth
    /\ failures \in BOOLEAN /\ level \in {"NONE", "WARN", "OK", "ERROR"}
    /\ dry.age \in 0..ValidFor

-----------------------------------------------------------------------------
ShadowInit ==
    /\ published = 0 /\ toAdapter = <<>> /\ toComparison = <<>> /\ shadow = <<>>
    /\ legacyQueue = <<>> /\ shadowQueue = <<>> /\ failures = FALSE /\ compared = 0
    /\ level = "NONE" /\ dry = [valid |-> FALSE, age |-> 0]
    /\ received = [legacy |-> <<>>, shadow |-> <<>>] /\ lost = 0 /\ wrong = 0

(* The arbiter publishes a command.                                        *)
PublishesCommand(c) ==
    /\ published < MaxCommands /\ published' = published + 1
    /\ toAdapter' = Append(toAdapter, c) /\ toComparison' = Append(toComparison, c)
    /\ UNCHANGED <<shadow, legacyQueue, shadowQueue, failures, compared, level, dry, received,
                   lost, wrong>>

(* LegacyVehicleCommandNode._on_command; the translation may be wrong.     *)
Adapts(value) ==
    /\ toAdapter # <<>> /\ toAdapter' = Tail(toAdapter)
    /\ value # Translate(Head(toAdapter)) => wrong < MaxWrong
    /\ wrong' = IF value = Translate(Head(toAdapter)) THEN wrong ELSE wrong + 1
    /\ shadow' = Append(shadow, value)
    /\ UNCHANGED <<published, toComparison, legacyQueue, shadowQueue, failures, compared, level,
                   dry, received, lost>>

(* Broken variant: samples that make room for newer ones are not counted.  *)
EnqueuesQuietly(queue, value) ==
    [queue |-> Append(IF Len(queue) = QueueDepth THEN Tail(queue) ELSE queue,
                      [value |-> value, age |-> 0]),
     dropped |-> FALSE]

(* Broken variant: the queue has no maxlen.                                *)
EnqueuesUnbounded(queue, value) ==
    [queue |-> Append(queue, [value |-> value, age |-> 0]), dropped |-> FALSE]

(* A full queue drops its oldest sample, and says so.                      *)
Enqueues(queue, value) ==
    [queue |-> Append(IF Len(queue) = QueueDepth THEN Tail(queue) ELSE queue,
                      [value |-> value, age |-> 0]),
     dropped |-> Len(queue) = QueueDepth]

(* compare_vehicle_commands: do the expected and the observed one agree?   *)
Matches(expected, observed) == expected.value = observed.value

(* _pair_available on the queues after a sample arrived; at most one pair. *)
PairsAvailable(l, s, dropped) ==
    IF l # <<>> /\ s # <<>>
    THEN /\ legacyQueue' = Tail(l) /\ shadowQueue' = Tail(s) /\ compared' = compared + 1
         /\ failures' = (failures \/ dropped \/ ~Matches(Head(l), Head(s)))
    ELSE /\ legacyQueue' = l /\ shadowQueue' = s
         /\ failures' = (failures \/ dropped) /\ UNCHANGED compared

(* _on_legacy.                                                             *)
OnLegacy ==
    /\ toComparison # <<>> /\ toComparison' = Tail(toComparison)
    /\ LET value == Translate(Head(toComparison))
           next == Enqueues(legacyQueue, value)
       IN /\ PairsAvailable(next.queue, shadowQueue, next.dropped)
          /\ received' = [received EXCEPT !.legacy = Append(@, value)]
    /\ UNCHANGED <<published, toAdapter, shadow, level, dry, lost, wrong>>

(* CanonicalCommandDryRunNode._on_command: the stamp, the range and the    *)
(* age of a command decide whether it is taken; a refused one leaves the   *)
(* safe command in force.                                                  *)
DryRunIngest(accepted) == [valid |-> accepted, age |-> 0]

(* CanonicalCommandDryRunNode._tick.                                       *)
DryRunTick ==
    IF ~dry.valid THEN dry
    ELSE IF dry.age = ValidFor THEN [dry EXCEPT !.valid = FALSE]
    ELSE [dry EXCEPT !.age = @ + 1]

(* _on_shadow, and the dry run's turn with the same message.               *)
OnShadow(accepted) ==
    /\ shadow # <<>> /\ shadow' = Tail(shadow)
    /\ LET value == Head(shadow)
           next == Enqueues(shadowQueue, value)
       IN /\ PairsAvailable(legacyQueue, next.queue, next.dropped)
          /\ received' = [received EXCEPT !.shadow = Append(@, value)]
    /\ dry' = DryRunIngest(accepted)
    /\ UNCHANGED <<published, toAdapter, toComparison, level, lost, wrong>>

(* _tick of both nodes: samples without a partner time out and the level   *)
(* is published; the dry run lets an old command go.                       *)
DiagnosticTick ==
    LET grown(queue) == [i \in 1..Len(queue) |->
                            [queue[i] EXCEPT !.age = IF @ <= PairTimeout THEN @ + 1 ELSE @]]
        fresh(queue) == SelectSeq(grown(queue), LAMBDA e : e.age <= PairTimeout)
        failed == \/ failures
                  \/ fresh(legacyQueue) # grown(legacyQueue)
                  \/ fresh(shadowQueue) # grown(shadowQueue)
    IN /\ legacyQueue' = fresh(legacyQueue) /\ shadowQueue' = fresh(shadowQueue)
       /\ failures' = failed
       /\ level' = IF failed THEN "ERROR" ELSE IF compared = 0 THEN "WARN" ELSE "OK"
       /\ dry' = DryRunTick
       /\ UNCHANGED <<published, toAdapter, toComparison, shadow, compared, received, lost, wrong>>

(* A message is lost on one of the topics.                                 *)
LosesMessage ==
    /\ lost < MaxLost /\ lost' = lost + 1
    /\ \/ toAdapter # <<>> /\ toAdapter' = Tail(toAdapter) /\ UNCHANGED <<toComparison, shadow>>
       \/ toComparison # <<>> /\ toComparison' = Tail(toComparison) /\ UNCHANGED <<toAdapter, shadow>>
       \/ shadow # <<>> /\ shadow' = Tail(shadow) /\ UNCHANGED <<toAdapter, toComparison>>
    /\ UNCHANGED <<published, legacyQueue, shadowQueue, failures, compared, level, dry, received,
                   wrong>>

ShadowNext ==
    \/ \E c \in Commands : PublishesCommand(c)
    \/ \E v \in Values : Adapts(v)
    \/ \E accepted \in BOOLEAN : OnShadow(accepted)
    \/ OnLegacy \/ DiagnosticTick \/ LosesMessage

ShadowSpec == ShadowInit /\ [][ShadowNext]_shadowVars

-----------------------------------------------------------------------------
(* The comparison vouches for the canonical path only when it agreed all   *)
(* the time: while it has no failure and nothing waits, it has seen as     *)
(* many translations as commands and each was the translation of its own.  *)
AgreementIsComplete ==
    /\ level = "OK" => compared > 0
    /\ ~failures /\ legacyQueue = <<>> /\ shadowQueue = <<>> => received.legacy = received.shadow

(* Once a divergence has been shown, no later agreement hides it.          *)
DivergenceIsKept == [][level = "ERROR" => level' = "ERROR"]_shadowVars
=============================================================================
