----------------------------- MODULE RouteProofs -----------------------------
(***************************************************************************)
(* Proofs about RouteExecutor for routes of any length, any windows and    *)
(* any number of missions and calls: once the cancel service has said ok   *)
(* the robot has no goal until a new mission begins, and a goal of an      *)
(* earlier mission does not go on.                                         *)
(*                                                                         *)
(* The argument is about the queue of the command server.  Calls that have *)
(* not been taken yet are at its end, so a cancellation that has been      *)
(* taken has no goal request behind it that could still be served, and     *)
(* behind a request of an earlier mission there is one of this mission, or *)
(* the cancellation with which the recovery policy has stopped it.         *)
(***************************************************************************)
EXTENDS RouteExecutor, SequenceTheorems, NaturalsInduction, WellFoundedInduction, TLAPS

-----------------------------------------------------------------------------
(* The calls in flight.                                                    *)

LEMMA WithoutProperties ==
    ASSUME NEW S, NEW cs \in Seq(S), NEW i \in 1 .. Len(cs)
    PROVE  /\ Without(cs, i) \in Seq(S)
           /\ Len(Without(cs, i)) = Len(cs) - 1
           /\ \A j \in 1 .. Len(cs) - 1 : Without(cs, i)[j] = IF j < i THEN cs[j] ELSE cs[j + 1]
<1> DEFINE a == SubSeq(cs, 1, i - 1)
           b == SubSeq(cs, i + 1, Len(cs))
<1>1. Len(cs) \in Nat /\ i \in Int /\ \A j \in 1 .. Len(cs) : cs[j] \in S
    BY ElementOfSeq
<1>2. /\ a \in Seq(S) /\ Len(a) = i - 1
      /\ \A j \in 1 .. i - 1 : a[j] = cs[j]
    <2>1. \A j \in 1 .. i - 1 : cs[j] \in S
        BY <1>1
    <2>2. /\ a \in Seq(S) /\ Len(a) = IF 1 <= i - 1 THEN (i - 1) - 1 + 1 ELSE 0
          /\ \A j \in 1 .. (i - 1) - 1 + 1 : a[j] = cs[1 + j - 1]
        BY <1>1, <2>1, SubSeqProperties
    <2> QED  BY <1>1, <2>2
<1>3. /\ b \in Seq(S) /\ Len(b) = Len(cs) - i
      /\ \A j \in 1 .. Len(cs) - i : b[j] = cs[i + j]
    <2>1. \A j \in i + 1 .. Len(cs) : cs[j] \in S
        BY <1>1
    <2>2. /\ b \in Seq(S) /\ Len(b) = IF i + 1 <= Len(cs) THEN Len(cs) - (i + 1) + 1 ELSE 0
          /\ \A j \in 1 .. Len(cs) - (i + 1) + 1 : b[j] = cs[(i + 1) + j - 1]
        BY <1>1, <2>1, SubSeqProperties
    <2> QED  BY <1>1, <2>2
<1> HIDE DEF a, b
<1>4. /\ a \o b \in Seq(S) /\ Len(a \o b) = Len(a) + Len(b)
      /\ \A j \in 1 .. Len(a) + Len(b) : (a \o b)[j] = IF j <= Len(a) THEN a[j] ELSE b[j - Len(a)]
    BY <1>2, <1>3, ConcatProperties
<1>5. ASSUME NEW j \in 1 .. Len(cs) - 1
      PROVE  (a \o b)[j] = IF j < i THEN cs[j] ELSE cs[j + 1]
    <2>1. (a \o b)[j] = IF j <= i - 1 THEN a[j] ELSE b[j - (i - 1)]
        BY <1>1, <1>2, <1>3, <1>4
    <2>2. CASE j < i
        BY <1>1, <1>2, <2>1, <2>2
    <2>3. CASE ~(j < i)
        <3>1. j - (i - 1) \in 1 .. Len(cs) - i /\ i + (j - (i - 1)) = j + 1
            BY <1>1, <2>3
        <3> QED  BY <1>1, <1>3, <2>1, <2>3, <3>1
    <2> QED  BY <2>2, <2>3
<1>6. Without(cs, i) = a \o b
    BY DEF Without, a, b
<1>7. Len(a) + Len(b) = Len(cs) - 1
    BY <1>1, <1>2, <1>3
<1> QED  BY <1>4, <1>5, <1>6, <1>7

LEMMA Uncurrent ==
    ASSUME NEW c \in Call
    PROVE  LET u == [c EXCEPT !.current = FALSE]
           IN  /\ u \in Call /\ u.kind = c.kind /\ u.st = c.st
               /\ u.goal = c.goal /\ u.id = c.id /\ ~u.current
<1>1. ASSUME NEW b \in BOOLEAN
      PROVE  LET u == [c EXCEPT !.current = b]
             IN  /\ u \in Call /\ u.kind = c.kind /\ u.st = c.st
                 /\ u.goal = c.goal /\ u.id = c.id /\ u.current = b
    BY DEF Call
<1> QED  BY <1>1

LEMMA EpochProperties ==
    ASSUME NEW cs \in Seq(Call), NEW c \in Call
    PROVE  LET a == Append(NewEpoch(cs), c)
           IN  /\ a \in Seq(Call) /\ Len(a) = Len(cs) + 1 /\ a[Len(cs) + 1] = c
               /\ \A j \in 1 .. Len(cs) :
                    /\ a[j] \in Call /\ a[j].kind = cs[j].kind /\ a[j].st = cs[j].st
                    /\ a[j].goal = cs[j].goal /\ a[j].id = cs[j].id /\ ~a[j].current
<1>1. Len(cs) \in Nat /\ DOMAIN cs = 1 .. Len(cs) /\ \A j \in 1 .. Len(cs) : cs[j] \in Call
    BY ElementOfSeq, LenProperties
<1> DEFINE n == NewEpoch(cs)
<1>2. n = [j \in 1 .. Len(cs) |-> [cs[j] EXCEPT !.current = FALSE]]
    BY <1>1 DEF NewEpoch
<1>3. ASSUME NEW j \in 1 .. Len(cs)
      PROVE  /\ n[j] \in Call /\ n[j].kind = cs[j].kind /\ n[j].st = cs[j].st
             /\ n[j].goal = cs[j].goal /\ n[j].id = cs[j].id /\ ~n[j].current
    <2>1. n[j] = [cs[j] EXCEPT !.current = FALSE]
        BY <1>2
    <2>2. cs[j] \in Call
        BY <1>1
    <2> QED  BY <2>1, <2>2, Uncurrent
<1>4. n \in Seq(Call) /\ Len(n) = Len(cs)
    <2>1. n \in [1 .. Len(cs) -> Call]
        BY <1>2, <1>3
    <2> QED  BY <1>1, <2>1, SeqDef
<1> HIDE DEF n
<1>5. /\ Append(n, c) \in Seq(Call) /\ Len(Append(n, c)) = Len(cs) + 1
      /\ Append(n, c)[Len(cs) + 1] = c
      /\ \A j \in 1 .. Len(cs) : Append(n, c)[j] = n[j]
    BY <1>1, <1>4
<1> QED  BY <1>3, <1>5 DEF n

(* What a method may do to the calls: those that are on their way stay, and *)
(* new ones come behind them, none of which is the one _cancel waits for.   *)
Extends(cs, ds) ==
    /\ Len(cs) <= Len(ds)
    /\ \A j \in 1 .. Len(cs) : ds[j].kind = cs[j].kind /\ ds[j].st = cs[j].st
    /\ \A j \in Len(cs) + 1 .. Len(ds) : ds[j].kind # "stop" /\ ds[j].st = "sent"

(* Executor, but for a bound on the target.                                *)
LooseExecutor == [
    phase : Phases, mid : 0 .. MaxMissions, anchor : Index, target : Nat, chunk : Goal,
    seen : 0 .. Length, credited : SUBSET Index, pending : BOOLEAN, floor : Int, last : Int,
    policy : Policy,
    clears : [st : {"none", "sent", "done", "failed"}, goal : Goal, size : 0 .. Length],
    near : BOOLEAN, failure : FailureCodes, collision : BOOLEAN, pose : Position,
    action : {"none", "called", "answered", "refused"}, heard : BOOLEAN, raised : BOOLEAN,
    sends : Nat, calls : Seq(Call)]

(* Windows are not empty, and the one that waits for the costmaps to be    *)
(* cleared is a suffix of the one it was taken from.                       *)
WellFormed(x) ==
    /\ x \in LooseExecutor
    /\ x.chunk.s <= x.chunk.e
    /\ x.clears.goal.s <= x.clears.goal.e
    /\ x.clears.st # "none" => x.clears.goal.e - x.clears.goal.s + 1 <= x.clears.size

LEMMA ExtendsTrans ==
    ASSUME NEW cs \in Seq(Call), NEW ds \in Seq(Call), NEW es \in Seq(Call),
           Extends(cs, ds), Extends(ds, es)
    PROVE  Extends(cs, es)
<1>1. Len(cs) \in Nat /\ Len(ds) \in Nat /\ Len(es) \in Nat
    OBVIOUS
<1>2. ASSUME NEW j \in 1 .. Len(cs)
      PROVE  es[j].kind = cs[j].kind /\ es[j].st = cs[j].st
    <2>1. j \in 1 .. Len(ds)
        BY <1>1 DEF Extends
    <2> QED  BY <2>1 DEF Extends
<1>3. ASSUME NEW j \in Len(cs) + 1 .. Len(es)
      PROVE  es[j].kind # "stop" /\ es[j].st = "sent"
    <2>1. CASE j \in 1 .. Len(ds)
        <3>1. j \in Len(cs) + 1 .. Len(ds)
            BY <1>1, <2>1
        <3> QED  BY <2>1, <3>1 DEF Extends
    <2>2. CASE j \in Len(ds) + 1 .. Len(es)
        BY <2>2 DEF Extends
    <2> QED  BY <1>1, <2>1, <2>2
<1>4. Len(cs) <= Len(es)
    BY <1>1 DEF Extends
<1> QED  BY <1>2, <1>3, <1>4 DEF Extends

LEMMA ExtendsSelf ==
    ASSUME NEW cs \in Seq(Call)
    PROVE  Extends(cs, cs)
<1>1. Len(cs) \in Nat
    OBVIOUS
<1> QED  BY <1>1 DEF Extends

LEMMA ExtendsAppend ==
    ASSUME NEW cs \in Seq(Call), NEW c \in Call, c.kind # "stop", c.st = "sent"
    PROVE  Append(NewEpoch(cs), c) \in Seq(Call) /\ Extends(cs, Append(NewEpoch(cs), c))
<1> DEFINE a == Append(NewEpoch(cs), c)
<1>1. /\ a \in Seq(Call) /\ Len(a) = Len(cs) + 1 /\ a[Len(cs) + 1] = c
      /\ \A j \in 1 .. Len(cs) : a[j].kind = cs[j].kind /\ a[j].st = cs[j].st
    BY EpochProperties
<1>2. Len(cs) \in Nat
    OBVIOUS
<1> HIDE DEF a
<1>3. Extends(cs, a)
    BY <1>1, <1>2 DEF Extends
<1> QED  BY <1>1, <1>3 DEF a

LEMMA CallTypes ==
    /\ NoGoal \in Goal
    /\ \A kind \in {"goal", "cancel", "stop"} :
         /\ CancelCall(kind) \in Call /\ CancelCall(kind).kind = kind
         /\ CancelCall(kind).st = "sent" /\ ~CancelCall(kind).current
BY RouteAssumption DEF NoGoal, Goal, Index, CancelCall, Call

LEMMA PauseKeeps ==
    ASSUME NEW x, WellFormed(x)
    PROVE  WellFormed(Pause(x)) /\ Extends(x.calls, Pause(x).calls)
<1> DEFINE c == CancelCall("cancel")
           a == Append(NewEpoch(x.calls), c)
           y == Pause(x)
<1>1. x \in LooseExecutor /\ x.calls \in Seq(Call)
    BY DEF WellFormed, LooseExecutor
<1>2. a \in Seq(Call) /\ Extends(x.calls, a)
    BY <1>1, CallTypes, ExtendsAppend
<1>3. /\ y \in LooseExecutor /\ y.calls = a /\ y.chunk = x.chunk /\ y.clears = x.clears
    <2> HIDE DEF a
    <2> DEFINE ph == IF x.phase = "ACTIVE" THEN "PAUSED" ELSE x.phase
    <2>1. y = [x EXCEPT !.pending = FALSE, !.near = FALSE, !.action = "none", !.phase = ph,
                        !.calls = a]
        BY <1>1 DEF Pause, LooseExecutor, a
    <2>2. ph \in Phases
        BY <1>1 DEF LooseExecutor, Phases
    <2> HIDE DEF ph, y
    <2>3. y \in LooseExecutor
        BY <1>1, <1>2, <2>1, <2>2 DEF LooseExecutor
    <2>4. y.calls = a /\ y.chunk = x.chunk /\ y.clears = x.clears
        BY <1>1, <2>1 DEF LooseExecutor
    <2> QED  BY <2>3, <2>4
<1> QED  BY <1>2, <1>3 DEF WellFormed

LEMMA SendChunkKeeps ==
    ASSUME NEW x, WellFormed(x)
    PROVE  WellFormed(SendChunk(x)) /\ Extends(x.calls, SendChunk(x).calls)
<1> DEFINE c == [kind |-> "goal", current |-> TRUE, goal |-> x.chunk, st |-> "sent", id |-> 0]
           a == Append(NewEpoch(x.calls), c)
           y == SendChunk(x)
<1>1. x \in LooseExecutor /\ x.calls \in Seq(Call) /\ x.chunk \in Goal
    BY DEF WellFormed, LooseExecutor
<1>2. a \in Seq(Call) /\ Extends(x.calls, a)
    <2>1. c \in Call /\ c.kind = "goal" /\ c.st = "sent"
        BY <1>1 DEF Call
    <2> QED  BY <1>1, <2>1, ExtendsAppend
<1>3. y \in LooseExecutor /\ y.calls = a /\ y.chunk = x.chunk /\ y.clears = x.clears
    <2> HIDE DEF a
    <2> DEFINE from == x.chunk.s
               n == x.sends + 1
    <2>1. y = [x EXCEPT !.seen = from, !.near = FALSE, !.pending = TRUE, !.sends = n, !.calls = a]
        BY DEF SendChunk, a
    <2>2. from \in 0 .. Length /\ n \in Nat
        <3>1. x.chunk.s \in Index
            BY <1>1 DEF Goal
        <3>2. x.sends \in Nat
            BY <1>1 DEF LooseExecutor
        <3> QED  BY <3>1, <3>2, RouteAssumption DEF Index
    <2> HIDE DEF from, n, y
    <2>3. y \in LooseExecutor
        BY <1>1, <1>2, <2>1, <2>2 DEF LooseExecutor
    <2>4. y.calls = a /\ y.chunk = x.chunk /\ y.clears = x.clears
        BY <1>1, <2>1 DEF LooseExecutor
    <2> QED  BY <2>3, <2>4
<1> QED  BY <1>2, <1>3 DEF WellFormed

(* The window that _dispatch takes, if the route is not at its end.        *)
LEMMA DispatchWindow ==
    ASSUME NEW x, x \in LooseExecutor, NEW cut \in Nat, x.target < Length
    PROVE  \E g \in Goal : /\ g.s <= g.e /\ g.mid = x.mid /\ g.s = x.target
                           /\ \/ Dispatch(x, cut) = Pause([x EXCEPT !.chunk = g])
                              \/ Dispatch(x, cut) = SendChunk([x EXCEPT !.chunk = g])
<1> DEFINE end == ChunkEnd[x.target] - cut
           full == [mid |-> x.mid, s |-> x.target, e |-> ChunkEnd[x.target]]
           part == [mid |-> x.mid, s |-> x.target, e |-> end]
<1>1. /\ x.target \in Nat /\ x.mid \in 0 .. MaxMissions /\ Length \in Nat /\ x.target \in Index
    BY RouteAssumption DEF LooseExecutor, Index
<1>2. ChunkEnd[x.target] \in Index /\ x.target <= ChunkEnd[x.target]
    BY <1>1, RouteAssumption
<1>3. CASE end < x.target
    <2>1. full \in Goal /\ full.s <= full.e /\ full.mid = x.mid /\ full.s = x.target
        BY <1>1, <1>2 DEF Goal
    <2>2. Dispatch(x, cut) = Pause([x EXCEPT !.chunk = full])
        BY <1>1, <1>3 DEF Dispatch
    <2> HIDE DEF full
    <2> QED  BY <2>1, <2>2
<1>4. CASE ~(end < x.target)
    <2>1. end \in Index /\ x.target <= end
        BY <1>1, <1>2, <1>4 DEF Index
    <2>2. Dispatch(x, cut) = SendChunk([x EXCEPT !.chunk = part])
        BY <1>1, <1>4 DEF Dispatch
    <2> HIDE DEF end
    <2>3. part \in Goal /\ part.s <= part.e /\ part.mid = x.mid /\ part.s = x.target
        BY <1>1, <2>1 DEF Goal
    <2> HIDE DEF part
    <2> QED  BY <2>2, <2>3
<1> QED  BY <1>3, <1>4

LEMMA ChunkKept ==
    ASSUME NEW x, WellFormed(x), NEW g \in Goal, g.s <= g.e
    PROVE  LET y == [x EXCEPT !.chunk = g]
           IN  /\ WellFormed(y) /\ y.chunk = g
               /\ y.calls = x.calls /\ y.mid = x.mid /\ y.phase = x.phase /\ y.clears = x.clears
               /\ y.policy = x.policy /\ y.raised = x.raised
<1> DEFINE y == [x EXCEPT !.chunk = g]
<1>1. /\ y \in LooseExecutor /\ y.chunk = g
      /\ y.calls = x.calls /\ y.mid = x.mid /\ y.phase = x.phase /\ y.clears = x.clears
      /\ y.policy = x.policy /\ y.raised = x.raised
    BY DEF WellFormed, LooseExecutor
<1> HIDE DEF y
<1>2. WellFormed(y)
    BY <1>1 DEF WellFormed
<1> QED  BY <1>1, <1>2 DEF y

LEMMA DispatchKeeps ==
    ASSUME NEW x, WellFormed(x), NEW cut \in Nat
    PROVE  WellFormed(Dispatch(x, cut)) /\ Extends(x.calls, Dispatch(x, cut).calls)
<1>1. x \in LooseExecutor /\ x.target \in Nat /\ x.calls \in Seq(Call)
    BY DEF WellFormed, LooseExecutor
<1>2. CASE x.target >= Length
    <2> DEFINE y == [x EXCEPT !.phase = "COMPLETED", !.chunk = NoGoal]
    <2>1. y \in LooseExecutor /\ y.calls = x.calls /\ y.chunk = NoGoal /\ y.clears = x.clears
        BY <1>1, CallTypes DEF LooseExecutor, Phases
    <2>2. Dispatch(x, cut) = y
        BY <1>2 DEF Dispatch
    <2> HIDE DEF y
    <2>3. NoGoal.s <= NoGoal.e
        BY DEF NoGoal
    <2> QED  BY <1>1, <2>1, <2>2, <2>3, ExtendsSelf DEF WellFormed
<1>3. CASE x.target < Length
    <2>1. PICK g \in Goal : /\ g.s <= g.e
                            /\ \/ Dispatch(x, cut) = Pause([x EXCEPT !.chunk = g])
                               \/ Dispatch(x, cut) = SendChunk([x EXCEPT !.chunk = g])
        BY <1>1, <1>3, DispatchWindow
    <2> DEFINE y == [x EXCEPT !.chunk = g]
    <2>2. WellFormed(y) /\ y.calls = x.calls
        BY <2>1, ChunkKept
    <2>3. Dispatch(x, cut) = Pause(y) \/ Dispatch(x, cut) = SendChunk(y)
        BY <2>1
    <2> HIDE DEF y
    <2>4. /\ WellFormed(Pause(y)) /\ Extends(y.calls, Pause(y).calls)
          /\ WellFormed(SendChunk(y)) /\ Extends(y.calls, SendChunk(y).calls)
        BY <2>2, PauseKeeps, SendChunkKeeps
    <2> QED  BY <2>2, <2>3, <2>4
<1> QED  BY <1>1, <1>2, <1>3, RouteAssumption

LEMMA AdvanceKeeps ==
    ASSUME NEW x, WellFormed(x), NEW cut \in Nat
    PROVE  WellFormed(Advance(x, cut)) /\ Extends(x.calls, Advance(x, cut).calls)
<1>1. x \in LooseExecutor /\ x.chunk \in Goal /\ x.calls \in Seq(Call)
    BY DEF WellFormed, LooseExecutor
<1>2. CASE x.chunk = NoGoal
    <2> DEFINE y == [x EXCEPT !.raised = TRUE]
    <2>1. y \in LooseExecutor /\ y.calls = x.calls /\ y.chunk = x.chunk /\ y.clears = x.clears
        BY <1>1 DEF LooseExecutor
    <2>2. Advance(x, cut) = y
        BY <1>2 DEF Advance
    <2> HIDE DEF y
    <2> QED  BY <1>1, <2>1, <2>2, ExtendsSelf DEF WellFormed
<1>3. CASE x.chunk # NoGoal
    <2> DEFINE t == x.chunk.e + 1
               y == [x EXCEPT !.target = t, !.sends = 0]
    <2>1. t \in Nat
        <3>1. x.chunk.e \in Index /\ Length \in Nat
            BY <1>1, RouteAssumption DEF Goal
        <3> QED  BY <3>1 DEF Index
    <2>2. Advance(x, cut) = Dispatch(y, cut)
        BY <1>3 DEF Advance
    <2> HIDE DEF t
    <2>3. y \in LooseExecutor /\ y.calls = x.calls /\ y.chunk = x.chunk /\ y.clears = x.clears
        BY <1>1, <2>1 DEF LooseExecutor
    <2> HIDE DEF y
    <2>4. WellFormed(y)
        BY <2>3 DEF WellFormed
    <2> QED  BY <2>2, <2>3, <2>4, DispatchKeeps
<1> QED  BY <1>2, <1>3

LEMMA CompleteChunkKeeps ==
    ASSUME NEW x, WellFormed(x), NEW cut \in Nat
    PROVE  WellFormed(CompleteChunk(x, cut)) /\ Extends(x.calls, CompleteChunk(x, cut).calls)
<1> DEFINE last == x.chunk.e
           y == [x EXCEPT !.credited = @ \union {last}]
           z == [y EXCEPT !.action = "called"]
<1>1. x \in LooseExecutor /\ x.chunk \in Goal /\ x.calls \in Seq(Call)
    BY DEF WellFormed, LooseExecutor
<1>2. last \in Index
    BY <1>1 DEF Goal
<1>3. CASE x.seen < last
    BY <1>3, PauseKeeps DEF CompleteChunk
<1>4. /\ y \in LooseExecutor /\ y.calls = x.calls /\ y.chunk = x.chunk /\ y.clears = x.clears
      /\ z \in LooseExecutor /\ z.calls = x.calls /\ z.chunk = x.chunk /\ z.clears = x.clears
    BY <1>1, <1>2 DEF LooseExecutor
<1>5. \/ CompleteChunk(x, cut) = Pause(x)
      \/ CompleteChunk(x, cut) = z
      \/ CompleteChunk(x, cut) = Advance(y, cut)
    BY DEF CompleteChunk
<1> HIDE DEF y, z
<1>6. WellFormed(y) /\ WellFormed(z)
    BY <1>4 DEF WellFormed
<1> QED  BY <1>1, <1>4, <1>5, <1>6, PauseKeeps, AdvanceKeeps, ExtendsSelf

LEMMA FinishRetryTypes ==
    ASSUME NEW p \in Policy, NEW accepted \in BOOLEAN
    PROVE  FinishRetry(p, accepted) \in Policy
BY DEF FinishRetry, Policy, RecoveryState

LEMMA FinishRecoveryKeeps ==
    ASSUME NEW x, WellFormed(x), NEW accepted \in BOOLEAN
    PROVE  LET y == FinishRecovery(x, accepted)
           IN  WellFormed(y) /\ y.calls = x.calls /\ y.chunk = x.chunk
<1> DEFINE y == FinishRecovery(x, accepted)
           p == FinishRetry(x.policy, accepted)
<1>1. x \in LooseExecutor /\ x.policy \in Policy /\ p \in Policy
    BY FinishRetryTypes DEF WellFormed, LooseExecutor
<1>2. NoClears \in [st : {"none", "sent", "done", "failed"}, goal : Goal, size : 0 .. Length]
    BY CallTypes, RouteAssumption DEF NoClears
<1>3. y \in LooseExecutor /\ y.calls = x.calls /\ y.chunk = x.chunk /\ y.clears = NoClears
    <2>1. CASE x.policy.state # "RECOVERING"
        BY <1>1, <1>2, <2>1 DEF FinishRecovery, LooseExecutor
    <2>2. CASE x.policy.state = "RECOVERING"
        <3> DEFINE f == IF accepted THEN "" ELSE x.failure
                   c == x.collision /\ ~accepted
        <3>1. y = [x EXCEPT !.clears = NoClears, !.policy = p, !.failure = f, !.collision = c]
            BY <2>2 DEF FinishRecovery
        <3>2. f \in FailureCodes /\ c \in BOOLEAN
            BY <1>1 DEF LooseExecutor, FailureCodes
        <3> HIDE DEF p, f, c, y
        <3>3. y \in LooseExecutor
            BY <1>1, <1>2, <3>1, <3>2 DEF LooseExecutor
        <3>4. y.calls = x.calls /\ y.chunk = x.chunk /\ y.clears = NoClears
            BY <1>1, <3>1 DEF LooseExecutor
        <3> QED  BY <3>3, <3>4
    <2> QED  BY <2>1, <2>2
<1> HIDE DEF y
<1>4. NoClears.st = "none" /\ NoClears.goal.s <= NoClears.goal.e
    BY DEF NoClears, NoGoal
<1>5. WellFormed(y)
    BY <1>3, <1>4 DEF WellFormed
<1> QED  BY <1>3, <1>5 DEF y

(* The costmaps have been cleared: the window that waited for it is sent.  *)
LEMMA ClearsDone ==
    ASSUME NEW x, WellFormed(x), x.clears.st = "done", NEW expired
    PROVE  LET job == x.clears
               cut == job.size - (job.goal.e - job.goal.s + 1)
               y == [x EXCEPT !.clears = NoClears, !.chunk = job.goal, !.target = @ + cut]
           IN  /\ CheckRecoveryClears(x, expired) = SendChunk(y)
               /\ WellFormed(y) /\ y.calls = x.calls /\ y.chunk = job.goal /\ y.clears = NoClears
               /\ y.mid = x.mid /\ y.phase = x.phase /\ y.policy = x.policy /\ y.raised = x.raised
               /\ y.target = x.target + cut
<1> DEFINE job == x.clears
           cut == job.size - (job.goal.e - job.goal.s + 1)
           t == x.target + cut
           y == [x EXCEPT !.clears = NoClears, !.chunk = job.goal, !.target = t]
<1>1. /\ x \in LooseExecutor /\ x.target \in Nat
      /\ job \in [st : {"none", "sent", "done", "failed"}, goal : Goal, size : 0 .. Length]
      /\ job.goal.s <= job.goal.e /\ job.goal.e - job.goal.s + 1 <= job.size
    BY DEF WellFormed, LooseExecutor
<1>2. NoClears \in [st : {"none", "sent", "done", "failed"}, goal : Goal, size : 0 .. Length]
    BY CallTypes, RouteAssumption DEF NoClears
<1>3. job.goal \in Goal /\ job.goal.s \in Int /\ job.goal.e \in Int /\ job.size \in Int
    BY <1>1 DEF Goal, Index
<1>4. t \in Nat
    BY <1>1, <1>3
<1>5. CheckRecoveryClears(x, expired) = SendChunk(y)
    BY DEF CheckRecoveryClears
<1>10. t = x.target + cut
    OBVIOUS
<1> HIDE DEF t, job
<1>6. /\ y \in LooseExecutor /\ y.calls = x.calls /\ y.chunk = job.goal
      /\ y.clears = NoClears
    BY <1>1, <1>2, <1>3, <1>4 DEF LooseExecutor
<1>7. /\ y.mid = x.mid /\ y.phase = x.phase /\ y.policy = x.policy /\ y.raised = x.raised
      /\ y.target = t
    BY <1>1 DEF LooseExecutor
<1> HIDE DEF y, cut
<1>8. NoClears.st = "none" /\ NoClears.goal.s <= NoClears.goal.e
    BY DEF NoClears, NoGoal
<1>9. WellFormed(y)
    BY <1>1, <1>6, <1>8 DEF WellFormed
<1> QED  BY <1>5, <1>6, <1>7, <1>9, <1>10 DEF y, job, t, cut

LEMMA CheckRecoveryClearsKeeps ==
    ASSUME NEW x, WellFormed(x), NEW expired \in BOOLEAN
    PROVE  LET y == CheckRecoveryClears(x, expired)
           IN  WellFormed(y) /\ Extends(x.calls, y.calls)
<1>1. x.calls \in Seq(Call)
    BY DEF WellFormed, LooseExecutor
<1>2. CASE x.clears.st = "done"
    <2> DEFINE y == [x EXCEPT !.clears = NoClears, !.chunk = x.clears.goal,
                              !.target = @ + (x.clears.size
                                              - (x.clears.goal.e - x.clears.goal.s + 1))]
    <2>1. CheckRecoveryClears(x, expired) = SendChunk(y) /\ WellFormed(y) /\ y.calls = x.calls
        BY <1>2, ClearsDone
    <2> HIDE DEF y
    <2> QED  BY <2>1, SendChunkKeeps
<1>3. CASE x.clears.st = "failed" \/ (x.clears.st = "sent" /\ expired)
    <2>1. CheckRecoveryClears(x, expired) = FinishRecovery(x, FALSE)
        BY <1>3 DEF CheckRecoveryClears
    <2> QED  BY <1>1, <2>1, FinishRecoveryKeeps, ExtendsSelf
<1>4. CASE x.clears.st # "done" /\ ~(x.clears.st = "failed" \/ (x.clears.st = "sent" /\ expired))
    <2>1. CheckRecoveryClears(x, expired) = x
        BY <1>4 DEF CheckRecoveryClears
    <2> QED  BY <1>1, <2>1, ExtendsSelf
<1> QED  BY <1>2, <1>3, <1>4

LEMMA StopForRecoveryKeeps ==
    ASSUME NEW x, WellFormed(x)
    PROVE  WellFormed(StopForRecovery(x)) /\ Extends(x.calls, StopForRecovery(x).calls)
<1> DEFINE a == Append(NewEpoch(x.calls), CancelCall("cancel"))
           no == FALSE
           y == StopForRecovery(x)
<1>1. x \in LooseExecutor /\ x.calls \in Seq(Call)
    BY DEF WellFormed, LooseExecutor
<1>2. a \in Seq(Call) /\ Extends(x.calls, a)
    BY <1>1, CallTypes, ExtendsAppend
<1>3. y = [x EXCEPT !.pending = no, !.calls = a] /\ no \in BOOLEAN
    BY DEF StopForRecovery
<1> HIDE DEF a, no, y
<1>4. y \in LooseExecutor /\ y.calls = a /\ y.chunk = x.chunk /\ y.clears = x.clears
    <2>1. y \in LooseExecutor
        BY <1>1, <1>2, <1>3 DEF LooseExecutor
    <2>2. y.calls = a /\ y.chunk = x.chunk /\ y.clears = x.clears
        BY <1>1, <1>3 DEF LooseExecutor
    <2> QED  BY <2>1, <2>2
<1> QED  BY <1>2, <1>4 DEF WellFormed, y

(* The order on the naturals is well-founded, so a set has a least element. *)
LEMMA LeastElement ==
    ASSUME NEW T \in SUBSET Nat, T # {}
    PROVE  \E k \in T : \A j \in T : k <= j
<1> DEFINE less == {p \in Nat \X Nat : p[1] < p[2]}
<1>1. IsWellFoundedOn(less, Nat)
    BY NatLessThanWellFounded DEF OpToRel
<1> HIDE DEF less
<1>2. PICK k \in T : \A j \in T : <<j, k>> \notin less
    BY <1>1, WFMin
<1>3. ASSUME NEW j \in T  PROVE k <= j
    <2>1. j \in Nat /\ k \in Nat /\ <<j, k>> \notin less
        BY <1>2
    <2> QED  BY <2>1 DEF less
<1> QED  BY <1>3

(* pending_checkpoint_suffix begins inside the window.                     *)
LEMMA PendingStartInside ==
    ASSUME NEW s \in Nat, NEW e \in Nat, s <= e, NEW credited
    PROVE  PendingStart(s, e, credited) \in s .. e
<1> DEFINE P == (s .. e) \ credited
<1>1. CASE P = {}
    BY <1>1 DEF PendingStart
<1>2. CASE P # {}
    <2>1. P \subseteq Nat
        OBVIOUS
    <2>2. \E k \in P : \A j \in P : k <= j
        BY <1>2, <2>1, LeastElement
    <2>3. PendingStart(s, e, credited) \in P
        BY <1>2, <2>2 DEF PendingStart
    <2> QED  BY <2>3
<1> QED  BY <1>1, <1>2

LEMMA BeginRecoveryRetryKeeps ==
    ASSUME NEW x, WellFormed(x), NEW ready \in BOOLEAN, NEW cut \in Nat
    PROVE  LET y == BeginRecoveryRetry(x, ready, cut)
           IN  WellFormed(y) /\ Extends(x.calls, y.calls)
<1> DEFINE from == PendingStart(x.chunk.s, x.chunk.e, x.credited)
           g == [x.chunk EXCEPT !.s = from]
           n == x.chunk.e - x.chunk.s + 1
           job == [st |-> "sent", goal |-> g, size |-> n]
<1>1. x \in LooseExecutor /\ x.chunk \in Goal /\ x.calls \in Seq(Call) /\ x.chunk.s <= x.chunk.e
    BY DEF WellFormed, LooseExecutor
<1>2. x.chunk.s \in Index /\ x.chunk.e \in Index /\ Length \in Nat
    BY <1>1, RouteAssumption DEF Goal
<1>3. CASE x.near
    <2> DEFINE y == [x EXCEPT !.near = FALSE]
               z == FinishRecovery(y, TRUE)
    <2>1. /\ y \in LooseExecutor /\ y.calls = x.calls /\ y.chunk = x.chunk
          /\ y.clears = x.clears
        BY <1>1 DEF LooseExecutor
    <2>2. BeginRecoveryRetry(x, ready, cut) = CompleteChunk(z, cut)
        BY <1>3 DEF BeginRecoveryRetry
    <2> HIDE DEF y
    <2>3. WellFormed(y)
        BY <2>1 DEF WellFormed
    <2>4. WellFormed(z) /\ z.calls = x.calls
        BY <2>1, <2>3, FinishRecoveryKeeps
    <2> HIDE DEF z
    <2> QED  BY <2>2, <2>4, CompleteChunkKeeps
<1>4. CASE ~x.near /\ ~ready
    <2>1. BeginRecoveryRetry(x, ready, cut) = FinishRecovery(x, FALSE)
        BY <1>4 DEF BeginRecoveryRetry
    <2> QED  BY <1>1, <2>1, FinishRecoveryKeeps, ExtendsSelf
<1>5. CASE ~x.near /\ ready
    <2> DEFINE y == [x EXCEPT !.clears = job]
    <2>1. BeginRecoveryRetry(x, ready, cut) = y
        BY <1>5 DEF BeginRecoveryRetry
    <2>2. from \in Index /\ x.chunk.s <= from /\ from <= x.chunk.e
        <3>1. x.chunk.s \in Nat /\ x.chunk.e \in Nat
            BY <1>2 DEF Index
        <3>2. from \in x.chunk.s .. x.chunk.e
            BY <1>1, <3>1, PendingStartInside
        <3> HIDE DEF from
        <3> QED  BY <1>2, <3>2 DEF Index
    <2> HIDE DEF from
    <2>3. g \in Goal /\ g.s = from /\ g.e = x.chunk.e
        BY <1>1, <2>2 DEF Goal
    <2> HIDE DEF g
    <2>4. n \in 0 .. Length /\ g.s <= g.e /\ g.e - g.s + 1 <= n
        <3>1. x.chunk.s \in 0 .. Length - 1 /\ x.chunk.e \in 0 .. Length - 1
            BY <1>2 DEF Index
        <3>2. n \in 0 .. Length
            BY <1>1, <1>2, <3>1
        <3> QED  BY <2>2, <2>3, <3>1, <3>2 DEF Index
    <2> HIDE DEF g, n
    <2>5. /\ y \in LooseExecutor /\ y.calls = x.calls /\ y.chunk = x.chunk /\ y.clears = job
        BY <1>1, <2>3, <2>4 DEF LooseExecutor
    <2> HIDE DEF y
    <2>6. WellFormed(y)
        BY <1>1, <2>4, <2>5 DEF WellFormed
    <2> QED  BY <1>1, <2>1, <2>5, <2>6, ExtendsSelf
<1> QED  BY <1>3, <1>4, <1>5

LEMMA ObserveTypes ==
    ASSUME NEW p \in Policy, NEW h \in Health, NEW blocked \in BOOLEAN, NEW due \in BOOLEAN
    PROVE  Observe(p, h, blocked, due).policy \in Policy
<1>1. ASSUME NEW q \in Policy, NEW st \in RecoveryState, NEW a
      PROVE  Decide(q, st, a).policy \in Policy
    BY <1>1 DEF Decide, Policy
<1>2. ASSUME NEW q \in Policy, NEW st \in RecoveryState
      PROVE  [q EXCEPT !.resume = st] \in Policy
    BY <1>2 DEF Policy
<1>3. ASSUME NEW q \in Policy, NEW st \in RecoveryState
      PROVE  [q EXCEPT !.state = st] \in Policy
    BY <1>3 DEF Policy
<1>4. p.state \in RecoveryState /\ p.resume \in RecoveryState
    BY DEF Policy
<1>5. ASSUME h # "ok" PROVE Hold(p, h).policy \in Policy
    BY <1>1, <1>2, <1>4, <1>5 DEF Hold, Health, RecoveryState
<1>6. ASSUME NEW q \in Policy
      PROVE  Judge(q, blocked, due).policy \in Policy
    <2>1. q.state \in RecoveryState /\ q.attempt \in 0 .. MaxAttempts
        BY DEF Policy
    <2>2. ASSUME ~(q.attempt >= MaxAttempts)
          PROVE  [q EXCEPT !.attempt = @ + 1] \in Policy
        <3>1. q.attempt + 1 \in 0 .. MaxAttempts
            BY <2>1, <2>2, RecoveryAssumption
        <3> QED  BY <3>1 DEF Policy
    <2> QED  BY <1>1, <2>1, <2>2 DEF Judge, RecoveryState
<1>7. [p EXCEPT !.state = IF p.state = "WAITING_DATA" THEN p.resume ELSE @] \in Policy
    BY <1>3, <1>4
<1> QED  BY <1>1, <1>4, <1>5, <1>6, <1>7 DEF Observe, RecoveryState

-----------------------------------------------------------------------------
(* Types.                                                                  *)

(* TypeOK, but for a bound on the target of the mission.                   *)
RouteTyped ==
    /\ WellFormed(ex)
    /\ preparing \in BOOLEAN /\ cancel \in {"none", "waiting", "confirmed"}
    /\ health \in Health
    /\ nav \in Nav
    /\ robot \in Position /\ trail \subseteq Position
    /\ telemetry \subseteq Telemetry

(* Changes of fields that the windows do not depend on.                    *)
LEMMA FieldsKept ==
    ASSUME NEW x, WellFormed(x), NEW y, y \in LooseExecutor, y.chunk = x.chunk, y.clears = x.clears
    PROVE  WellFormed(y)
BY DEF WellFormed

LEMMA TerminalResultKeeps ==
    ASSUME NEW x, WellFormed(x), NEW m \in Telemetry, m.result # "none", NEW cut \in Nat
    PROVE  LET y == TerminalResult(x, m, cut)
           IN  WellFormed(y) /\ Extends(x.calls, y.calls)
<1> DEFINE r == [x EXCEPT !.policy = Reset, !.near = FALSE]
           f == [x EXCEPT !.failure = m.failure]
<1>1. x \in LooseExecutor /\ x.calls \in Seq(Call) /\ m.failure \in FailureCodes
    BY DEF WellFormed, LooseExecutor, Telemetry
<1>2. Reset \in Policy
    BY RecoveryAssumption DEF Reset, Policy, RecoveryState
<1>3. /\ r \in LooseExecutor /\ r.chunk = x.chunk /\ r.clears = x.clears /\ r.calls = x.calls
      /\ f \in LooseExecutor /\ f.chunk = x.chunk /\ f.clears = x.clears /\ f.calls = x.calls
    BY <1>1, <1>2 DEF LooseExecutor
<1>4. \/ TerminalResult(x, m, cut) = x
      \/ TerminalResult(x, m, cut) = CompleteChunk(r, cut)
      \/ TerminalResult(x, m, cut) = Pause(x)
      \/ TerminalResult(x, m, cut) = f
    <2>1. m.result \in {"succeeded", "cancelled", "aborted", "goal rejected"}
        BY DEF Telemetry, Results
    <2> QED  BY <2>1 DEF TerminalResult
<1> HIDE DEF r, f
<1>5. WellFormed(r) /\ WellFormed(f)
    BY <1>3, FieldsKept
<1> QED  BY <1>1, <1>3, <1>4, <1>5, CompleteChunkKeeps, PauseKeeps, ExtendsSelf

LEMMA OnTelemetryKeeps ==
    ASSUME RouteTyped, NEW m \in telemetry, NEW cut \in Cuts, OnTelemetry(m, cut)
    PROVE  /\ WellFormed(ex') /\ Extends(ex.calls, ex'.calls)
           /\ ex.phase # "ACTIVE" => ex'.calls = ex.calls /\ ex'.phase = ex.phase
                                     /\ ex'.action = ex.action
<1> DEFINE heard == [ex EXCEPT !.heard = TRUE]
           stopped == [ex EXCEPT !.collision = TRUE]
           x == [ex EXCEPT !.heard = TRUE, !.collision = m.collision,
                           !.failure = IF m.goalActive THEN "" ELSE @]
           y == [x EXCEPT !.last = m.rid]
<1>1. ex \in LooseExecutor /\ ex.calls \in Seq(Call) /\ m \in Telemetry /\ cut \in Nat
    BY RouteAssumption DEF RouteTyped, WellFormed, LooseExecutor
<1>2. m.collision \in BOOLEAN /\ m.rid \in Int /\ (IF m.goalActive THEN "" ELSE ex.failure) \in FailureCodes
    <2>1. m.collision \in BOOLEAN /\ m.rid \in Int
        BY <1>1 DEF Telemetry
    <2>2. ex.failure \in FailureCodes
        BY <1>1 DEF LooseExecutor
    <2> QED  BY <2>1, <2>2 DEF FailureCodes
<1>3. /\ heard \in LooseExecutor /\ heard.chunk = ex.chunk /\ heard.clears = ex.clears
      /\ heard.calls = ex.calls /\ heard.phase = ex.phase /\ heard.action = ex.action
      /\ stopped \in LooseExecutor /\ stopped.chunk = ex.chunk /\ stopped.clears = ex.clears
      /\ stopped.calls = ex.calls
    BY <1>1 DEF LooseExecutor
<1>4. x \in LooseExecutor /\ x.chunk = ex.chunk /\ x.clears = ex.clears /\ x.calls = ex.calls
    <2> DEFINE c == m.collision
               f == IF m.goalActive THEN "" ELSE ex.failure
    <2>1. x = [ex EXCEPT !.heard = TRUE, !.collision = c, !.failure = f]
        OBVIOUS
    <2>2. c \in BOOLEAN /\ f \in FailureCodes
        BY <1>2
    <2> HIDE DEF c, f, x
    <2> QED  BY <1>1, <2>1, <2>2 DEF LooseExecutor
<1>5. y \in LooseExecutor /\ y.chunk = x.chunk /\ y.clears = x.clears /\ y.calls = x.calls
    <2> HIDE DEF x
    <2> QED  BY <1>2, <1>4 DEF LooseExecutor
<1>6. /\ ex.phase # "ACTIVE" => ex' = heard
      /\ \/ ex' = heard
         \/ ex' = Pause(ex)
         \/ ex' = Pause(stopped)
         \/ ex' = x
         \/ ex' = TerminalResult(y, m, cut) /\ m.result # "none"
    BY DEF OnTelemetry, ResultIsCurrent
<1> HIDE DEF heard, stopped, x, y
<1>7. WellFormed(ex) /\ WellFormed(heard) /\ WellFormed(stopped) /\ WellFormed(x) /\ WellFormed(y)
    BY <1>3, <1>4, <1>5, FieldsKept DEF RouteTyped
<1>8. WellFormed(ex') /\ Extends(ex.calls, ex'.calls)
    <2>1. CASE ex' = heard \/ ex' = x
        BY <1>1, <1>3, <1>4, <1>7, <2>1, ExtendsSelf
    <2>2. CASE ex' = Pause(ex)
        BY <1>7, <2>2, PauseKeeps
    <2>3. CASE ex' = Pause(stopped)
        BY <1>3, <1>7, <2>3, PauseKeeps
    <2>4. CASE ex' = TerminalResult(y, m, cut) /\ m.result # "none"
        BY <1>1, <1>4, <1>5, <1>7, <2>4, TerminalResultKeeps
    <2> QED  BY <1>6, <2>1, <2>2, <2>3, <2>4
<1> QED  BY <1>3, <1>6, <1>8

LEMMA TickRecoveryKeeps ==
    ASSUME RouteTyped, NEW due \in BOOLEAN, NEW served \in BOOLEAN, NEW cut \in Cuts,
           TickRecovery(due, served, cut)
    PROVE  WellFormed(ex') /\ Extends(ex.calls, ex'.calls)
<1> DEFINE blocked == ex.collision \/ ex.failure = "blocking"
           d == Observe(ex.policy, health, blocked, due)
           h == ex.heard /\ d.policy.state = ex.policy.state
           n == ex.near \/ (/\ ~ManeuverHold(health) /\ d.policy.state # "CLEAR"
                            /\ ex.pose = ex.chunk.e)
           x == [ex EXCEPT !.policy = d.policy, !.heard = h, !.near = n]
           y == CheckRecoveryClears(x, ~served)
<1>1. ex \in LooseExecutor /\ ex.calls \in Seq(Call) /\ cut \in Nat /\ health \in Health
      /\ ex.policy \in Policy
    BY RouteAssumption DEF RouteTyped, WellFormed, LooseExecutor
<1>2. blocked \in BOOLEAN /\ h \in BOOLEAN /\ n \in BOOLEAN
    BY <1>1 DEF LooseExecutor
<1>3. d.policy \in Policy
    BY <1>1, <1>2, ObserveTypes
<1>4. \/ ex' = y
      \/ ex' = StopForRecovery(y)
      \/ ex' = BeginRecoveryRetry(y, served, cut)
    BY DEF TickRecovery
<1> HIDE DEF d, h, n, blocked
<1>5. x \in LooseExecutor /\ x.chunk = ex.chunk /\ x.clears = ex.clears /\ x.calls = ex.calls
    BY <1>1, <1>2, <1>3 DEF LooseExecutor
<1> HIDE DEF x
<1>6. WellFormed(x)
    BY <1>5, FieldsKept DEF RouteTyped
<1>7. WellFormed(y) /\ Extends(ex.calls, y.calls)
    BY <1>5, <1>6, CheckRecoveryClearsKeeps
<1> HIDE DEF y
<1>8. WellFormed(ex') /\ Extends(y.calls, ex'.calls)
    <2>1. y.calls \in Seq(Call)
        BY <1>7 DEF WellFormed, LooseExecutor
    <2> QED  BY <1>1, <1>4, <1>7, <2>1, StopForRecoveryKeeps, BeginRecoveryRetryKeeps, ExtendsSelf
<1>9. y.calls \in Seq(Call) /\ ex'.calls \in Seq(Call)
    BY <1>7, <1>8 DEF WellFormed, LooseExecutor
<1> QED  BY <1>1, <1>7, <1>8, <1>9, ExtendsTrans

LEMMA OnGoalRequestKeeps ==
    ASSUME RouteTyped, NEW i \in DOMAIN ex.calls, OnGoalRequest(i)
    PROVE  /\ WellFormed(ex') /\ Extends(Without(ex.calls, i), ex'.calls)
           /\ ex.phase # "ACTIVE" => ex'.calls = Without(ex.calls, i) /\ ex'.phase = ex.phase
                                     /\ ex'.action = ex.action
<1> DEFINE c == ex.calls[i]
           w == Without(ex.calls, i)
           x == [ex EXCEPT !.calls = w]
           fl == IF c.st = "ok" THEN c.id ELSE ex.floor
           y == [x EXCEPT !.pending = FALSE, !.floor = fl]
<1>1. ex \in LooseExecutor /\ ex.calls \in Seq(Call) /\ i \in 1 .. Len(ex.calls)
    BY DEF RouteTyped, WellFormed, LooseExecutor
<1>2. w \in Seq(Call)
    BY <1>1, WithoutProperties
<1>3. fl \in Int
    <2>1. c \in Call /\ ex.floor \in Int
        BY <1>1 DEF LooseExecutor
    <2> QED  BY <2>1 DEF Call
<1>4. /\ \/ ex' = x
         \/ ex' = y
         \/ ex' = Pause(y)
         \/ \E b \in BOOLEAN : ex' = FinishRecovery(y, b)
      /\ ex.phase # "ACTIVE" => ex' = x
    BY DEF OnGoalRequest
<1> HIDE DEF w, fl
<1>5. /\ x \in LooseExecutor /\ x.calls = w /\ x.chunk = ex.chunk /\ x.clears = ex.clears
      /\ x.phase = ex.phase /\ x.action = ex.action
    BY <1>1, <1>2 DEF LooseExecutor
<1> HIDE DEF x
<1>6. y \in LooseExecutor /\ y.calls = w /\ y.chunk = ex.chunk /\ y.clears = ex.clears
    BY <1>3, <1>5 DEF LooseExecutor
<1> HIDE DEF y
<1>7. WellFormed(x) /\ WellFormed(y)
    BY <1>5, <1>6, FieldsKept DEF RouteTyped
<1>8. WellFormed(ex') /\ Extends(w, ex'.calls)
    <2>1. CASE ex' = x \/ ex' = y
        BY <1>2, <1>5, <1>6, <1>7, <2>1, ExtendsSelf
    <2>2. CASE ex' = Pause(y)
        BY <1>6, <1>7, <2>2, PauseKeeps
    <2>3. CASE \E b \in BOOLEAN : ex' = FinishRecovery(y, b)
        BY <1>2, <1>6, <1>7, <2>3, FinishRecoveryKeeps, ExtendsSelf
    <2> QED  BY <1>4, <2>1, <2>2, <2>3
<1> QED  BY <1>4, <1>5, <1>8 DEF w

LEMMA TickActionKeeps ==
    ASSUME RouteTyped, NEW cut \in Cuts, TickAction(cut)
    PROVE  WellFormed(ex') /\ Extends(ex.calls, ex'.calls)
<1> DEFINE x == [ex EXCEPT !.action = "none"]
<1>1. ex \in LooseExecutor /\ cut \in Nat
    BY RouteAssumption DEF RouteTyped, WellFormed
<1>2. ex' = Pause(ex) \/ ex' = Advance(x, cut)
    BY DEF TickAction
<1>3. x \in LooseExecutor /\ x.calls = ex.calls /\ x.chunk = ex.chunk /\ x.clears = ex.clears
    BY <1>1 DEF LooseExecutor
<1> HIDE DEF x
<1>4. WellFormed(ex) /\ WellFormed(x)
    BY <1>3, FieldsKept DEF RouteTyped
<1> QED  BY <1>1, <1>2, <1>3, <1>4, PauseKeeps, AdvanceKeeps

LEMMA ActivateKeeps ==
    ASSUME RouteTyped, NEW anchor \in Anchors, NEW cut \in Cuts, ActivatePrepared(anchor, cut)
    PROVE  WellFormed(ex') /\ Extends(ex.calls, ex'.calls)
<1> DEFINE n == ex.mid + 1
           x == [ex EXCEPT !.phase = "ACTIVE", !.mid = n, !.anchor = anchor,
                           !.target = anchor, !.policy = Reset, !.clears = NoClears,
                           !.credited = {}, !.sends = 0]
<1>1. ex \in LooseExecutor /\ cut \in Nat /\ ex.chunk.s <= ex.chunk.e
    BY RouteAssumption DEF RouteTyped, WellFormed
<1>2. n \in 0 .. MaxMissions
    <2>1. ex.mid \in 0 .. MaxMissions /\ ex.mid < MaxMissions
        BY <1>1 DEF LooseExecutor, ActivatePrepared
    <2> QED  BY <2>1, RouteAssumption
<1>3. anchor \in Index /\ anchor \in Nat
    BY RouteAssumption DEF Index
<1>4. /\ NoClears \in [st : {"none", "sent", "done", "failed"}, goal : Goal, size : 0 .. Length]
      /\ NoClears.st = "none" /\ NoClears.goal.s <= NoClears.goal.e
    BY CallTypes, RouteAssumption DEF NoClears, NoGoal
<1>5. Reset \in Policy
    BY RecoveryAssumption DEF Reset, Policy, RecoveryState
<1>6. ex' = Dispatch(x, cut)
    BY DEF ActivatePrepared
<1> HIDE DEF n
<1>7. x \in LooseExecutor /\ x.calls = ex.calls /\ x.chunk = ex.chunk /\ x.clears = NoClears
    BY <1>1, <1>2, <1>3, <1>4, <1>5 DEF LooseExecutor, Phases
<1> HIDE DEF x
<1>8. WellFormed(x)
    BY <1>1, <1>4, <1>7 DEF WellFormed
<1> QED  BY <1>1, <1>6, <1>7, <1>8, DispatchKeeps

LEMMA OnPoseKeeps ==
    ASSUME RouteTyped, NEW fresh \in BOOLEAN, OnPose(fresh)
    PROVE  /\ WellFormed(ex') /\ ex'.calls = ex.calls
           /\ ex'.phase = ex.phase /\ ex'.action = ex.action
<1> DEFINE hit == fresh /\ ex.phase = "ACTIVE" /\ ex.seen < ex.chunk.e /\ robot = ex.seen
           s == IF hit THEN ex.seen + 1 ELSE ex.seen
           c == IF hit THEN ex.credited \union {robot} ELSE ex.credited
<1>1. /\ ex \in LooseExecutor /\ robot \in Position /\ ex.seen \in 0 .. Length
      /\ ex.chunk \in Goal /\ ex.credited \in SUBSET Index
    BY DEF RouteTyped, WellFormed, LooseExecutor
<1>2. ex.chunk.e \in Index
    BY <1>1 DEF Goal
<1>3. s \in 0 .. Length /\ c \in SUBSET Index
    <2>1. CASE hit
        <3>1. Length \in Nat /\ ex.chunk.e \in 0 .. Length - 1
            BY <1>2, RouteAssumption DEF Index
        <3>2. ex.seen \in 0 .. Length - 1 /\ robot = ex.seen
            BY <1>1, <2>1, <3>1
        <3>3. s \in 0 .. Length
            BY <2>1, <3>1, <3>2
        <3>4. c \in SUBSET Index
            BY <1>1, <2>1, <3>2 DEF Index
        <3> QED  BY <3>3, <3>4
    <2>2. CASE ~hit
        BY <1>1, <2>2
    <2> QED  BY <2>1, <2>2
<1>4. ex' = [ex EXCEPT !.pose = robot, !.seen = s, !.credited = c]
    BY DEF OnPose
<1> HIDE DEF s, c
<1>5. /\ ex' \in LooseExecutor /\ ex'.calls = ex.calls /\ ex'.chunk = ex.chunk
      /\ ex'.clears = ex.clears /\ ex'.phase = ex.phase /\ ex'.action = ex.action
    BY <1>1, <1>3, <1>4 DEF LooseExecutor
<1> QED  BY <1>5, FieldsKept DEF RouteTyped

LEMMA CancelKeeps ==
    ASSUME RouteTyped, Cancel
    PROVE  /\ WellFormed(ex') /\ ex'.calls = Append(NewEpoch(ex.calls), CancelCall("stop"))
           /\ ex'.phase # "ACTIVE" /\ ex'.action = "none"
<1> DEFINE a == Append(NewEpoch(ex.calls), CancelCall("stop"))
           p == IF ex.phase \in {"ACTIVE", "PAUSED"} THEN "CANCELLED" ELSE ex.phase
<1>1. ex \in LooseExecutor /\ ex.calls \in Seq(Call) /\ ex.phase \in Phases
      /\ ex.chunk.s <= ex.chunk.e
    BY DEF RouteTyped, WellFormed, LooseExecutor
<1>2. a \in Seq(Call)
    BY <1>1, CallTypes, EpochProperties
<1>3. p \in Phases /\ p # "ACTIVE"
    BY <1>1 DEF Phases
<1>4. /\ NoClears \in [st : {"none", "sent", "done", "failed"}, goal : Goal, size : 0 .. Length]
      /\ NoClears.st = "none" /\ NoClears.goal.s <= NoClears.goal.e
    BY CallTypes, RouteAssumption DEF NoClears, NoGoal
<1>5. Reset \in Policy
    BY RecoveryAssumption DEF Reset, Policy, RecoveryState
<1>6. ex' = [ex EXCEPT !.pending = FALSE, !.policy = Reset, !.clears = NoClears,
                       !.near = FALSE, !.credited = {}, !.action = "none",
                       !.phase = p, !.calls = a]
    BY DEF Cancel
<1> HIDE DEF a, p
<1>7. /\ ex' \in LooseExecutor /\ ex'.calls = a /\ ex'.phase = p /\ ex'.action = "none"
      /\ ex'.chunk = ex.chunk /\ ex'.clears = NoClears
    BY <1>1, <1>2, <1>3, <1>4, <1>5, <1>6 DEF LooseExecutor
<1>8. WellFormed(ex')
    BY <1>1, <1>4, <1>7 DEF WellFormed
<1> QED  BY <1>3, <1>7, <1>8 DEF a

(* Changes of one call.                                                    *)
LEMMA CallUpdated ==
    ASSUME NEW cs \in Seq(Call), NEW i \in 1 .. Len(cs), NEW c \in Call
    PROVE  LET ds == [cs EXCEPT ![i] = c]
           IN  /\ ds \in Seq(Call) /\ Len(ds) = Len(cs) /\ ds[i] = c
               /\ \A j \in 1 .. Len(cs) : j # i => ds[j] = cs[j]
OBVIOUS

LEMMA CallsKept ==
    ASSUME NEW x, WellFormed(x), NEW ds \in Seq(Call)
    PROVE  LET y == [x EXCEPT !.calls = ds]
           IN  /\ WellFormed(y) /\ y.calls = ds
               /\ y.phase = x.phase /\ y.action = x.action
<1> DEFINE y == [x EXCEPT !.calls = ds]
<1>1. /\ y \in LooseExecutor /\ y.calls = ds /\ y.chunk = x.chunk /\ y.clears = x.clears
      /\ y.phase = x.phase /\ y.action = x.action
    BY DEF LooseExecutor, WellFormed
<1> HIDE DEF y
<1>2. WellFormed(y)
    BY <1>1, FieldsKept
<1> QED  BY <1>1, <1>2 DEF y

(* The call c stands at place i of ds instead of the one that cs has there. *)
Updated(cs, ds, i, c) ==
    /\ ds \in Seq(Call) /\ Len(ds) = Len(cs) /\ ds[i] = c
    /\ \A j \in 1 .. Len(cs) : j # i => ds[j] = cs[j]

LEMMA TakenKeeps ==
    ASSUME RouteTyped, NEW i \in DOMAIN ex.calls, Taken(i)
    PROVE  /\ WellFormed(ex') /\ ex'.phase = ex.phase /\ ex'.action = ex.action
           /\ \E c \in Call : /\ Updated(ex.calls, ex'.calls, i, c)
                              /\ c.kind = ex.calls[i].kind /\ c.st = "serving"
<1> DEFINE b == ex.calls[i]
           c == [b EXCEPT !.st = "serving"]
           ds == [ex.calls EXCEPT ![i] = c]
<1>1. WellFormed(ex) /\ ex.calls \in Seq(Call) /\ i \in 1 .. Len(ex.calls) /\ b \in Call
    BY DEF RouteTyped, WellFormed, LooseExecutor
<1>2. c \in Call /\ c.kind = b.kind /\ c.st = "serving"
    <2> HIDE DEF b
    <2> QED  BY <1>1 DEF Call
<1>3. ex' = [ex EXCEPT !.calls = ds]
    BY DEF Taken
<1>4. Updated(ex.calls, ds, i, c)
    <2> HIDE DEF c
    <2> QED  BY <1>1, <1>2, CallUpdated DEF Updated
<1> HIDE DEF ds, c
<1>5. ds \in Seq(Call)
    BY <1>4 DEF Updated
<1> QED  BY <1>1, <1>2, <1>3, <1>4, <1>5, CallsKept

LEMMA AnswerKeeps ==
    ASSUME RouteTyped, NEW i \in DOMAIN ex.calls, NEW st \in {"ok", "failed"}, NEW id \in Nat,
           Answer(i, st, id)
    PROVE  /\ WellFormed(ex') /\ ex'.phase = ex.phase /\ ex'.action = ex.action
           /\ \/ \E c \in Call : /\ Updated(ex.calls, ex'.calls, i, c)
                                 /\ c.kind = ex.calls[i].kind /\ c.st = st
              \/ ex.calls[i].kind # "stop" /\ ex'.calls = Without(ex.calls, i)
<1> DEFINE b == ex.calls[i]
           c == [b EXCEPT !.st = st, !.id = id]
           ds == [ex.calls EXCEPT ![i] = c]
<1>1. WellFormed(ex) /\ ex.calls \in Seq(Call) /\ i \in 1 .. Len(ex.calls) /\ b \in Call
    BY DEF RouteTyped, WellFormed, LooseExecutor
<1>2. CASE b.current \/ b.kind = "stop"
    <2>1. c \in Call /\ c.kind = b.kind /\ c.st = st
        <3> HIDE DEF b
        <3> QED  BY <1>1 DEF Call
    <2>2. ex' = [ex EXCEPT !.calls = ds]
        BY <1>2 DEF Answer
    <2>3. Updated(ex.calls, ds, i, c)
        <3> HIDE DEF c
        <3> QED  BY <1>1, <2>1, CallUpdated DEF Updated
    <2> HIDE DEF ds, c
    <2>4. ds \in Seq(Call)
        BY <2>3 DEF Updated
    <2> QED  BY <1>1, <2>1, <2>2, <2>3, <2>4, CallsKept
<1>3. CASE ~(b.current \/ b.kind = "stop")
    <2>1. ex' = [ex EXCEPT !.calls = Without(ex.calls, i)]
        BY <1>3 DEF Answer
    <2>2. Without(ex.calls, i) \in Seq(Call)
        BY <1>1, WithoutProperties
    <2> QED  BY <1>1, <1>3, <2>1, <2>2, CallsKept
<1> QED  BY <1>2, <1>3

LEMMA CancelEndsKeeps ==
    ASSUME RouteTyped, NEW i \in DOMAIN ex.calls, CancelEnds(i)
    PROVE  /\ WellFormed(ex') /\ ex'.phase = ex.phase /\ ex'.action = ex.action
           /\ \/ \E c \in Call : /\ Updated(ex.calls, ex'.calls, i, c)
                                 /\ c.kind = "cancel" /\ c.st = ex.calls[i].st
                                 /\ ex.calls[i].st \in {"sent", "serving"}
              \/ ex.calls[i].st \in {"ok", "failed"} /\ ex'.calls = Without(ex.calls, i)
<1> DEFINE b == ex.calls[i]
           c == [b EXCEPT !.kind = "cancel"]
           ds == [ex.calls EXCEPT ![i] = c]
<1>1. WellFormed(ex) /\ ex.calls \in Seq(Call) /\ i \in 1 .. Len(ex.calls) /\ b \in Call
    BY DEF RouteTyped, WellFormed, LooseExecutor
<1>2. CASE b.st \in {"sent", "serving"} /\ ex' = [ex EXCEPT !.calls[i].kind = "cancel"]
    <2>1. c \in Call /\ c.kind = "cancel" /\ c.st = b.st
        <3> HIDE DEF b
        <3> QED  BY <1>1 DEF Call
    <2>2. ex' = [ex EXCEPT !.calls = ds]
        BY <1>2
    <2>3. Updated(ex.calls, ds, i, c)
        <3> HIDE DEF c
        <3> QED  BY <1>1, <2>1, CallUpdated DEF Updated
    <2> HIDE DEF ds, c
    <2>4. ds \in Seq(Call)
        BY <2>3 DEF Updated
    <2>5. WellFormed(ex') /\ ex'.calls = ds /\ ex'.phase = ex.phase /\ ex'.action = ex.action
        BY <1>1, <2>2, <2>4, CallsKept
    <2>6. ex.calls[i].st \in {"sent", "serving"}
        BY <1>2
    <2> QED  BY <2>1, <2>3, <2>5, <2>6
<1>3. CASE b.st \in {"ok", "failed"} /\ ex' = [ex EXCEPT !.calls = Without(@, i)]
    <2>1. Without(ex.calls, i) \in Seq(Call)
        BY <1>1, WithoutProperties
    <2> QED  BY <1>1, <1>3, <2>1, CallsKept
<1> QED  BY <1>2, <1>3 DEF CancelEnds

LEMMA ServicesKeep ==
    ASSUME RouteTyped, ClearsAnswer \/ ActionAnswer
    PROVE  /\ WellFormed(ex') /\ ex'.calls = ex.calls /\ ex'.phase = ex.phase
           /\ ex.action = "none" => ex'.action = "none"
<1>1. /\ ex \in LooseExecutor /\ ex.chunk.s <= ex.chunk.e
      /\ ex.clears.goal.s <= ex.clears.goal.e
      /\ ex.clears.st # "none" => ex.clears.goal.e - ex.clears.goal.s + 1 <= ex.clears.size
    BY DEF RouteTyped, WellFormed
<1>2. CASE ClearsAnswer
    <2>1. PICK st \in {"done", "failed"} : ex' = [ex EXCEPT !.clears.st = st]
        BY <1>2 DEF ClearsAnswer
    <2> DEFINE k == [ex.clears EXCEPT !.st = st]
    <2>2. ex.clears \in [st : {"none", "sent", "done", "failed"}, goal : Goal, size : 0 .. Length]
        BY <1>1 DEF LooseExecutor
    <2>3. /\ k \in [st : {"none", "sent", "done", "failed"}, goal : Goal, size : 0 .. Length]
          /\ k.goal = ex.clears.goal /\ k.size = ex.clears.size
        BY <2>2
    <2>4. ex' = [ex EXCEPT !.clears = k]
        BY <2>1
    <2>5. ex.clears.st # "none"
        BY <1>2 DEF ClearsAnswer
    <2> HIDE DEF k
    <2>6. /\ ex' \in LooseExecutor /\ ex'.calls = ex.calls /\ ex'.phase = ex.phase
          /\ ex'.action = ex.action /\ ex'.chunk = ex.chunk /\ ex'.clears = k
        BY <1>1, <2>3, <2>4 DEF LooseExecutor
    <2>7. WellFormed(ex')
        BY <1>1, <2>3, <2>5, <2>6 DEF WellFormed
    <2> QED  BY <2>6, <2>7
<1>3. CASE ActionAnswer
    <2>1. PICK a \in {"answered", "refused"} : ex' = [ex EXCEPT !.action = a]
        BY <1>3 DEF ActionAnswer
    <2>2. /\ ex' \in LooseExecutor /\ ex'.calls = ex.calls /\ ex'.phase = ex.phase
          /\ ex'.chunk = ex.chunk /\ ex'.clears = ex.clears
        BY <1>1, <2>1 DEF LooseExecutor
    <2>3. ex.action = "called"
        BY <1>3 DEF ActionAnswer
    <2> QED  BY <2>2, <2>3, FieldsKept DEF RouteTyped
<1> QED  BY <1>2, <1>3

(* A tick is the executor's own.                                           *)
LEMMA TicksOutside ==
    ASSUME Ticks
    PROVE  UNCHANGED <<preparing, cancel, outside>>
<1>1. ASSUME NEW due \in BOOLEAN, NEW served \in BOOLEAN, NEW cut \in Cuts,
             TickRecovery(due, served, cut)
      PROVE  UNCHANGED <<preparing, cancel, outside>>
    BY <1>1, Zenon DEF TickRecovery
<1>2. ASSUME NEW cut \in Cuts, TickAction(cut)
      PROVE  UNCHANGED <<preparing, cancel, outside>>
    BY <1>2, Zenon DEF TickAction
<1> QED  BY <1>1, <1>2, Zenon DEF Ticks

(* The command server and the robot.                                       *)
LEMMA NavTyped ==
    ASSUME RouteTyped, Next
    PROVE  nav' \in Nav /\ telemetry' \subseteq Telemetry /\ robot' \in Position /\ trail' \subseteq Position
<1>1. /\ nav \in Nav /\ telemetry \subseteq Telemetry /\ robot \in Position /\ trail \subseteq Position
      /\ ex \in LooseExecutor /\ Length \in Nat \ {0} /\ MaxDisturbances \in Nat
    BY RouteAssumption DEF RouteTyped, WellFormed
<1>2. CASE UNCHANGED outside
    BY <1>1, <1>2 DEF outside
<1>3. ASSUME NEW a \in Anchors, NEW cut \in Cuts, ActivatePrepared(a, cut)
      PROVE  nav' \in Nav /\ telemetry' \subseteq Telemetry /\ robot' \in Position /\ trail' \subseteq Position
    <2>1. trail' = {robot, ex.pose} /\ UNCHANGED <<nav, robot, telemetry>>
        BY <1>3 DEF ActivatePrepared
    <2>2. ex.pose \in Position
        BY <1>1 DEF LooseExecutor
    <2> QED  BY <1>1, <2>1, <2>2
<1>4. ASSUME NEW m \in telemetry, NEW cut \in Cuts, OnTelemetry(m, cut)
      PROVE  nav' \in Nav /\ telemetry' \subseteq Telemetry /\ robot' \in Position /\ trail' \subseteq Position
    BY <1>1, <1>4 DEF OnTelemetry
<1>5. CASE Move
    <2>1. nav.at \in Position /\ nav.goal.e \in Index /\ nav.at < nav.goal.e
        BY <1>1, <1>5 DEF Move, Nav, Goal
    <2> DEFINE n == nav.at + 1
    <2>2. n \in Position
        BY <1>1, <2>1 DEF Position, Index
    <2>3. /\ robot' = n /\ nav' = [nav EXCEPT !.at = n] /\ trail' = trail \union {n}
          /\ telemetry' = telemetry
        BY <1>5 DEF Move
    <2> HIDE DEF n
    <2>4. nav' \in Nav
        BY <1>1, <2>2, <2>3 DEF Nav
    <2> QED  BY <1>1, <2>2, <2>3, <2>4
<1>6. CASE PublishTelemetry
    <2>1. nav' \in Nav
        BY <1>1, <1>6 DEF PublishTelemetry, Nav
    <2>2. telemetry' \subseteq Telemetry
        BY <1>1, <1>6 DEF PublishTelemetry, Nav, Telemetry
    <2> QED  BY <1>1, <1>6, <2>1, <2>2 DEF PublishTelemetry
<1>7. ASSUME NEW r \in Results, NEW f \in FailureCodes, GoalResult(r, f)
      PROVE  nav' \in Nav /\ UNCHANGED <<telemetry, robot, trail>>
    <2> DEFINE n == nav.events + 1
    <2>1. n \in Nat
        BY <1>1 DEF Nav
    <2>2. nav' = [nav EXCEPT !.active = FALSE, !.asked = FALSE, !.result = r,
                             !.rid = n, !.events = n, !.failure = f]
        BY <1>7 DEF GoalResult
    <2> HIDE DEF n
    <2>3. nav' \in Nav
        BY <1>1, <1>7, <2>1, <2>2 DEF Nav
    <2> QED  BY <1>7, <2>3 DEF GoalResult
<1>8. CASE SetManualMode \/ OnMonitorState
    <2> DEFINE n == nav.disturbed + 1
               a == nav.asked \/ (nav.active /\ ~nav.manual)
               k == ~nav.manual
               o == ~nav.collision
    <2>1. n \in 0 .. MaxDisturbances
        <3>1. nav.disturbed \in 0 .. MaxDisturbances /\ nav.disturbed < MaxDisturbances
            BY <1>1, <1>8 DEF SetManualMode, OnMonitorState, Nav
        <3> QED  BY <1>1, <3>1
    <2>2. a \in BOOLEAN /\ k \in BOOLEAN /\ o \in BOOLEAN
        BY <1>1 DEF Nav
    <2>3. /\ \/ nav' = [nav EXCEPT !.disturbed = n, !.manual = k, !.asked = a]
             \/ nav' = [nav EXCEPT !.disturbed = n, !.collision = o]
          /\ UNCHANGED <<robot, trail, telemetry>>
        BY <1>8 DEF SetManualMode, OnMonitorState
    <2> HIDE DEF n, a, k, o
    <2>4. nav' \in Nav
        BY <1>1, <2>1, <2>2, <2>3 DEF Nav
    <2> QED  BY <1>1, <2>3, <2>4
<1>9. ASSUME NEW i \in DOMAIN ex.calls,
             RefuseGoal(i) \/ ReplaceGoal(i) \/ SendGoal(i) \/ AnswerGoal(i) \/ CancelGoal(i)
                \/ AnswerCancel(i)
      PROVE  nav' \in Nav /\ UNCHANGED <<telemetry, robot, trail>>
    <2>1. CASE RefuseGoal(i) \/ AnswerCancel(i)
        BY <1>1, <2>1 DEF RefuseGoal, AnswerCancel, outside
    <2>2. CASE ReplaceGoal(i) \/ CancelGoal(i)
        <3>1. nav' = [nav EXCEPT !.asked = TRUE] /\ UNCHANGED <<telemetry, robot, trail>>
            BY <2>2 DEF ReplaceGoal, CancelGoal
        <3> QED  BY <1>1, <3>1 DEF Nav
    <2>3. CASE AnswerGoal(i)
        <3> DEFINE n == nav.events + 1
        <3>1. n \in Nat
            BY <1>1 DEF Nav
        <3>2. nav' = [nav EXCEPT !.events = n] /\ UNCHANGED <<telemetry, robot, trail>>
            BY <2>3 DEF AnswerGoal
        <3> HIDE DEF n
        <3> QED  BY <1>1, <3>1, <3>2 DEF Nav
    <2>4. CASE SendGoal(i)
        <3> DEFINE g == ex.calls[i].goal
                   p == g.s - 1
        <3>1. g \in Goal
            <4>1. ex.calls[i] \in Call
                BY <1>1, <1>9 DEF LooseExecutor
            <4> QED  BY <4>1 DEF Call
        <3>2. p \in Position
            <4>1. g.s \in Index
                BY <3>1 DEF Goal
            <4> HIDE DEF g
            <4> QED  BY <1>1, <4>1 DEF Position, Index
        <3>3. /\ nav' = [nav EXCEPT !.active = TRUE, !.goal = g, !.at = p, !.asked = FALSE,
                                    !.result = "none", !.failure = "", !.told = FALSE]
              /\ UNCHANGED <<telemetry, robot, trail>>
            BY <2>4 DEF SendGoal
        <3> HIDE DEF g, p
        <3>4. nav' \in Nav
            BY <1>1, <3>1, <3>2, <3>3 DEF Nav, Results, FailureCodes
        <3> QED  BY <3>3, <3>4
    <2> QED  BY <1>9, <2>1, <2>2, <2>3, <2>4
<1>10. CASE Server
    <2>1. CASE ClearsAnswer \/ ActionAnswer
        BY <1>1, <2>1 DEF ClearsAnswer, ActionAnswer, outside
    <2>2. CASE \E i \in DOMAIN ex.calls : \/ RefuseGoal(i) \/ ReplaceGoal(i) \/ SendGoal(i)
                              \/ AnswerGoal(i) \/ CancelGoal(i) \/ AnswerCancel(i)
        BY <1>1, <1>9, <2>2
    <2> QED  BY <1>6, <1>10, <2>1, <2>2 DEF Server
<1>11. CASE World
    <2>1. CASE \E r \in Results \ {"none", "aborted"} : GoalResult(r, "")
        BY <1>1, <1>7, <2>1 DEF FailureCodes
    <2>2. CASE \E f \in Failures : GoalResult("aborted", f)
        <3>1. Failures \subseteq FailureCodes /\ "aborted" \in Results
            BY RouteAssumption DEF FailureCodes, Results
        <3> QED  BY <1>1, <1>7, <2>2, <3>1
    <2>3. CASE \E h \in Verdicts : EvaluatePath(h)
        BY <1>1, <2>3 DEF EvaluatePath
    <2> QED  BY <1>5, <1>11, <2>1, <2>2, <2>3 DEF World
<1>12. CASE Set \/ PreparationFails \/ Cancel \/ Ticks \/ Answers \/ \E fresh \in BOOLEAN : OnPose(fresh)
    <2>1. CASE Set \/ PreparationFails \/ Cancel
        BY <1>2, <2>1 DEF Set, PreparationFails, Cancel
    <2>2. CASE Ticks
        BY <1>2, <2>2, TicksOutside
    <2>3. CASE Answers \/ \E fresh \in BOOLEAN : OnPose(fresh)
        BY <1>2, <2>3 DEF Answers, OnGoalRequest, CancelEnds, OnPose
    <2> QED  BY <1>12, <2>1, <2>2, <2>3
<1> QED
    BY <1>3, <1>4, <1>8, <1>10, <1>11, <1>12 DEF Next

(* Every state is typed, whatever the bounds are.                          *)
LEMMA RouteTypedInit == Init => RouteTyped
<1> SUFFICES ASSUME Init PROVE RouteTyped
    OBVIOUS
<1>1. Length \in Nat \ {0} /\ MaxMissions \in Nat /\ MaxDisturbances \in Nat /\ MaxAttempts \in Nat
    BY RouteAssumption, RecoveryAssumption
<1>2. /\ NoClears \in [st : {"none", "sent", "done", "failed"}, goal : Goal, size : 0 .. Length]
      /\ NoClears.st = "none" /\ NoClears.goal.s <= NoClears.goal.e
      /\ NoGoal \in Goal /\ NoGoal.s <= NoGoal.e
    BY <1>1, CallTypes DEF NoClears, NoGoal
<1>3. Reset \in Policy
    BY <1>1 DEF Reset, Policy, RecoveryState
<1> DEFINE below == -1
           zero == 0
           none == <<>>
<1>4. ex \in LooseExecutor /\ ex.chunk = NoGoal /\ ex.clears = NoClears
    <2>1. /\ below \in Position /\ below \in Int /\ none \in Seq(Call)
          /\ zero \in Index /\ zero \in Nat /\ zero \in 0 .. Length /\ zero \in 0 .. MaxMissions
        BY <1>1 DEF Position, Index
    <2>2. ex = [phase |-> "IDLE", mid |-> zero, anchor |-> zero, target |-> zero, chunk |-> NoGoal,
             seen |-> zero, credited |-> {}, pending |-> FALSE, floor |-> below, last |-> below,
             policy |-> Reset, clears |-> NoClears, near |-> FALSE, failure |-> "",
             collision |-> FALSE, pose |-> below, action |-> "none", heard |-> FALSE,
             raised |-> FALSE, sends |-> zero, calls |-> none]
        BY DEF Init
    <2> HIDE DEF below, zero, none
    <2> QED  BY <1>2, <1>3, <2>1, <2>2 DEF LooseExecutor, Phases, FailureCodes
<1>5. WellFormed(ex)
    BY <1>2, <1>4 DEF WellFormed
<1>6. nav \in Nav /\ robot \in Position /\ trail \subseteq Position
    <2>1. below \in Position /\ zero \in Nat /\ zero \in 0 .. MaxDisturbances
        BY <1>1 DEF Position
    <2>2. /\ nav = [active |-> FALSE, goal |-> NoGoal, at |-> below, asked |-> FALSE,
                    result |-> "none", rid |-> zero, events |-> zero, failure |-> "",
                    manual |-> FALSE, collision |-> FALSE, told |-> FALSE, disturbed |-> zero]
          /\ robot = below /\ trail = {}
        BY DEF Init
    <2> HIDE DEF below, zero
    <2> QED  BY <1>2, <2>1, <2>2 DEF Nav, Results, FailureCodes
<1> QED  BY <1>5, <1>6 DEF Init, RouteTyped, Health

LEMMA RouteTypedStep ==
    ASSUME RouteTyped, [Next]_vars
    PROVE  RouteTyped'
<1>1. CASE UNCHANGED vars
    BY <1>1 DEF vars, outside, RouteTyped
<1>2. CASE Next
    <2>1. nav' \in Nav /\ telemetry' \subseteq Telemetry /\ robot' \in Position /\ trail' \subseteq Position
        BY <1>2, NavTyped
    <2>2. preparing' \in BOOLEAN /\ cancel' \in {"none", "waiting", "confirmed"} /\ health' \in Health
        <3>1. preparing \in BOOLEAN /\ cancel \in {"none", "waiting", "confirmed"} /\ health \in Health
            BY DEF RouteTyped
        <3>2. CASE Set \/ PreparationFails \/ Cancel \/ SetManualMode \/ OnMonitorState
            BY <3>1, <3>2 DEF Set, PreparationFails, Cancel, SetManualMode, OnMonitorState, outside
        <3>7. CASE Ticks
            <4>1. UNCHANGED <<preparing, cancel, health>>
                BY <3>7, TicksOutside DEF outside
            <4> QED  BY <3>1, <4>1
        <3>6. CASE Answers
            <4>1. PICK i \in DOMAIN ex.calls : OnGoalRequest(i) \/ CancelEnds(i)
                BY <3>6 DEF Answers
            <4>2. /\ UNCHANGED <<preparing, health>>
                  /\ cancel' = cancel \/ cancel' = "none" \/ cancel' = "confirmed"
                BY <4>1 DEF OnGoalRequest, CancelEnds, outside
            <4> QED  BY <3>1, <4>2
        <3>3. CASE \/ \E a \in Anchors, cut \in Cuts : ActivatePrepared(a, cut)
                   \/ \E fresh \in BOOLEAN : OnPose(fresh)
                   \/ \E m \in telemetry, cut \in Cuts : OnTelemetry(m, cut)
            BY <3>1, <3>3 DEF ActivatePrepared, OnPose, OnTelemetry, outside
        <3>4. CASE Server
            <4>1. CASE PublishTelemetry \/ ClearsAnswer \/ ActionAnswer
                BY <3>1, <4>1 DEF PublishTelemetry, ClearsAnswer, ActionAnswer, outside
            <4>2. CASE \E i \in DOMAIN ex.calls : \/ RefuseGoal(i) \/ ReplaceGoal(i) \/ SendGoal(i)
                                      \/ AnswerGoal(i) \/ CancelGoal(i) \/ AnswerCancel(i)
                <5>1. PICK i \in DOMAIN ex.calls : \/ RefuseGoal(i) \/ ReplaceGoal(i) \/ SendGoal(i)
                                      \/ AnswerGoal(i) \/ CancelGoal(i) \/ AnswerCancel(i)
                    BY <4>2
                <5>2. CASE RefuseGoal(i) \/ ReplaceGoal(i)
                    BY <3>1, <5>2 DEF RefuseGoal, ReplaceGoal, outside
                <5>4. CASE SendGoal(i)
                    <6>1. health' \in Health /\ UNCHANGED <<preparing, cancel>>
                        BY <5>4 DEF SendGoal, Health
                    <6> QED  BY <3>1, <6>1
                <5>3. CASE AnswerGoal(i) \/ CancelGoal(i) \/ AnswerCancel(i)
                    BY <3>1, <5>3 DEF AnswerGoal, CancelGoal, AnswerCancel, outside
                <5> QED  BY <5>1, <5>2, <5>3, <5>4
            <4> QED  BY <3>4, <4>1, <4>2 DEF Server
        <3>5. CASE World
            BY <3>1, <3>5, RouteAssumption DEF World, GoalResult, EvaluatePath, Move
        <3> QED  BY <1>2, <3>2, <3>3, <3>4, <3>5, <3>6, <3>7 DEF Next
    <2>3. WellFormed(ex')
        <3>1. WellFormed(ex)
            BY DEF RouteTyped
        <3>2. CASE Set \/ PreparationFails \/ SetManualMode \/ OnMonitorState \/ World
            BY <3>1, <3>2 DEF Set, PreparationFails, SetManualMode, OnMonitorState, World,
               GoalResult, EvaluatePath, Move
        <3>3. CASE \/ \E a \in Anchors, cut \in Cuts : ActivatePrepared(a, cut)
                   \/ \E fresh \in BOOLEAN : OnPose(fresh)
                   \/ \E m \in telemetry, cut \in Cuts : OnTelemetry(m, cut)
            BY <3>3, ActivateKeeps, OnPoseKeeps, OnTelemetryKeeps
        <3>4. CASE Ticks \/ Answers \/ Cancel
            BY <3>4, TickRecoveryKeeps, TickActionKeeps, OnGoalRequestKeeps, CancelEndsKeeps, CancelKeeps
               DEF Ticks, Answers
        <3>5. ASSUME NEW i \in DOMAIN ex.calls,
                     RefuseGoal(i) \/ ReplaceGoal(i) \/ SendGoal(i) \/ AnswerGoal(i)
                        \/ CancelGoal(i) \/ AnswerCancel(i)
              PROVE  WellFormed(ex')
            <4>1. CASE RefuseGoal(i) \/ AnswerCancel(i)
                <5>1. \E st \in {"ok", "failed"} : Answer(i, st, 0)
                    BY <4>1 DEF RefuseGoal, AnswerCancel
                <5> QED  BY <5>1, AnswerKeeps
            <4>2. CASE ReplaceGoal(i)
                BY <3>1, <4>2 DEF ReplaceGoal
            <4>3. CASE SendGoal(i) \/ CancelGoal(i)
                BY <4>3, TakenKeeps DEF SendGoal, CancelGoal
            <4>4. CASE AnswerGoal(i)
                <5>1. nav'.events \in Nat
                    BY <2>1 DEF Nav
                <5> QED  BY <4>4, <5>1, AnswerKeeps DEF AnswerGoal
            <4> QED  BY <3>5, <4>1, <4>2, <4>3, <4>4
        <3>6. CASE Server
            BY <3>1, <3>5, <3>6, ServicesKeep DEF Server, PublishTelemetry
        <3> QED  BY <1>2, <3>2, <3>3, <3>4, <3>6 DEF Next
    <2> QED  BY <2>1, <2>2, <2>3 DEF RouteTyped
<1> QED  BY <1>1, <1>2

-----------------------------------------------------------------------------
(* The queue.                                                              *)

(* A goal request that the command server may still serve, or is serving.  *)
GoalOpen(cs) ==
    \E i \in 1 .. Len(cs) : cs[i].kind = "goal" /\ cs[i].st \in {"sent", "serving"}

(* Calls are taken in their order, one at a time; only the last one may be *)
(* the one that _cancel waits for, and when that has been answered with ok *)
(* there is no goal and none can come.                                     *)
QueueOK(cs, c, active) ==
    /\ \A i, j \in 1 .. Len(cs) : i < j /\ cs[i].st = "sent" => cs[j].st = "sent"
    /\ \A i, j \in 1 .. Len(cs) : cs[i].st = "serving" /\ cs[j].st = "serving" => i = j
    /\ \A i \in 1 .. Len(cs) : cs[i].kind = "stop" => c = "waiting" /\ i = Len(cs)
    /\ \A i \in 1 .. Len(cs) : cs[i].kind = "stop" /\ cs[i].st = "ok" => ~active /\ ~GoalOpen(cs)
    /\ c = "confirmed" => ~active /\ ~GoalOpen(cs)

LEMMA QueueExtends ==
    ASSUME NEW cs \in Seq(Call), NEW ds \in Seq(Call), NEW c, c # "waiting", NEW active \in BOOLEAN,
           QueueOK(cs, c, active), Extends(cs, ds)
    PROVE  QueueOK(ds, "none", active)
<1>1. Len(cs) \in Nat /\ Len(ds) \in Nat /\ Len(cs) <= Len(ds)
    BY DEF Extends
<1>2. ASSUME NEW i \in 1 .. Len(ds)
      PROVE  /\ ds[i].kind # "stop"
             /\ \/ i \in 1 .. Len(cs) /\ ds[i].st = cs[i].st
                \/ i > Len(cs) /\ ds[i].st = "sent"
    <2>1. CASE i \in 1 .. Len(cs)
        BY <2>1 DEF Extends, QueueOK
    <2>2. CASE i \in Len(cs) + 1 .. Len(ds)
        BY <1>1, <2>2 DEF Extends
    <2> QED  BY <1>1, <2>1, <2>2
<1>3. ASSUME NEW i \in 1 .. Len(ds), NEW j \in 1 .. Len(ds), i < j, ds[i].st = "sent"
      PROVE  ds[j].st = "sent"
    <2>1. CASE j \in 1 .. Len(cs)
        <3>1. i \in 1 .. Len(cs)
            BY <1>1, <1>3, <2>1
        <3>2. cs[i].st = "sent"
            BY <1>1, <1>2, <1>3, <3>1
        <3>3. cs[j].st = "sent"
            BY <1>3, <2>1, <3>1, <3>2 DEF QueueOK
        <3> QED  BY <1>2, <3>3
    <2>2. CASE j \notin 1 .. Len(cs)
        BY <1>2, <2>2
    <2> QED  BY <2>1, <2>2
<1>4. ASSUME NEW i \in 1 .. Len(ds), NEW j \in 1 .. Len(ds), ds[i].st = "serving", ds[j].st = "serving"
      PROVE  i = j
    <2>1. /\ i \in 1 .. Len(cs) /\ cs[i].st = "serving"
          /\ j \in 1 .. Len(cs) /\ cs[j].st = "serving"
        BY <1>2, <1>4
    <2> QED  BY <2>1 DEF QueueOK
<1> QED  BY <1>2, <1>3, <1>4 DEF QueueOK

LEMMA QueueWithout ==
    ASSUME NEW cs \in Seq(Call), NEW c, NEW active \in BOOLEAN, QueueOK(cs, c, active),
           NEW i \in 1 .. Len(cs), cs[i].kind # "stop" \/ i = Len(cs)
    PROVE  QueueOK(Without(cs, i), c, active)
<1> DEFINE ds == Without(cs, i)
           at(j) == IF j < i THEN j ELSE j + 1
<1>1. Len(cs) \in Nat /\ i \in Nat
    OBVIOUS
<1>2. /\ ds \in Seq(Call) /\ Len(ds) = Len(cs) - 1
      /\ \A j \in 1 .. Len(cs) - 1 : ds[j] = IF j < i THEN cs[j] ELSE cs[j + 1]
    BY WithoutProperties
<1> HIDE DEF ds
<1>3. \A j \in 1 .. Len(ds) : at(j) \in 1 .. Len(cs) /\ at(j) # i /\ ds[j] = cs[at(j)]
    BY <1>1, <1>2
<1>4. \A j, k \in 1 .. Len(ds) : (j < k <=> at(j) < at(k)) /\ (j = k <=> at(j) = at(k))
    BY <1>1, <1>2
<1>5. \A j \in 1 .. Len(ds) : at(j) = Len(cs) => j = Len(ds)
    BY <1>1, <1>2
<1> HIDE DEF at
<1>6. GoalOpen(ds) => GoalOpen(cs)
    BY <1>3 DEF GoalOpen
<1>7. \A j, k \in 1 .. Len(ds) : j < k /\ ds[j].st = "sent" => ds[k].st = "sent"
    BY <1>3, <1>4 DEF QueueOK
<1>8. \A j, k \in 1 .. Len(ds) : ds[j].st = "serving" /\ ds[k].st = "serving" => j = k
    BY <1>3, <1>4 DEF QueueOK
<1>9. \A j \in 1 .. Len(ds) : ds[j].kind = "stop" => c = "waiting" /\ j = Len(ds)
    BY <1>3, <1>5 DEF QueueOK
<1>10. \A j \in 1 .. Len(ds) : ds[j].kind = "stop" /\ ds[j].st = "ok" => ~active /\ ~GoalOpen(ds)
    BY <1>3, <1>6 DEF QueueOK
<1>11. c = "confirmed" => ~active /\ ~GoalOpen(ds)
    BY <1>6 DEF QueueOK
<1>12. QueueOK(ds, c, active)
    BY <1>7, <1>8, <1>9, <1>10, <1>11 DEF QueueOK
<1> QED  BY <1>12 DEF ds

(* The queue after its call i was replaced by c, which is not further back *)
(* than it: the calls before i have all been taken.                        *)
LEMMA QueueUpdated ==
    ASSUME NEW cs \in Seq(Call), NEW w, NEW v, NEW active \in BOOLEAN, NEW now \in BOOLEAN,
           QueueOK(cs, w, active),
           NEW i \in 1 .. Len(cs), NEW c \in Call, NEW ds, Updated(cs, ds, i, c),
           c.st = "sent" => cs[i].st = "sent",
           c.st # "sent" => \A j \in 1 .. i - 1 : cs[j].st # "sent",
           c.st = "serving" => cs[i].st = "serving" \/ \A j \in 1 .. Len(cs) : cs[j].st # "serving",
           c.kind = "goal" /\ c.st \in {"sent", "serving"} =>
                cs[i].kind = "goal" /\ cs[i].st \in {"sent", "serving"},
           c.kind = "stop" => cs[i].kind = "stop",
           c.kind = "stop" /\ c.st = "ok" => ~now /\ ~GoalOpen(cs),
           now => active \/ GoalOpen(cs),
           v = w \/ (v = "none" /\ \A j \in 1 .. Len(cs) : ds[j].kind # "stop")
    PROVE  QueueOK(ds, v, now)
<1>1. Len(cs) \in Nat /\ i \in Nat
    OBVIOUS
<1>2. /\ Len(ds) = Len(cs) /\ ds[i] = c
      /\ \A j \in 1 .. Len(cs) : j # i => ds[j] = cs[j]
    BY DEF Updated
<1>3. GoalOpen(ds) => GoalOpen(cs)
    <2> SUFFICES ASSUME NEW j \in 1 .. Len(cs), ds[j].kind = "goal", ds[j].st \in {"sent", "serving"}
                 PROVE  GoalOpen(cs)
        BY <1>2 DEF GoalOpen
    <2> QED  BY <1>2 DEF GoalOpen
<1>4. ASSUME NEW j \in 1 .. Len(ds), NEW k \in 1 .. Len(ds), j < k, ds[j].st = "sent"
      PROVE  ds[k].st = "sent"
    <2>1. cs[j].st = "sent"
        BY <1>2, <1>4
    <2>2. cs[k].st = "sent"
        BY <1>2, <1>4, <2>1 DEF QueueOK
    <2>3. CASE k = i
        <3>1. j \in 1 .. i - 1
            BY <1>1, <1>2, <1>4, <2>3
        <3> QED  BY <1>2, <2>1, <2>3, <3>1
    <2> QED  BY <1>2, <2>2, <2>3
<1>5. ASSUME NEW j \in 1 .. Len(ds), NEW k \in 1 .. Len(ds), ds[j].st = "serving", ds[k].st = "serving"
      PROVE  j = k
    <2>1. CASE j # i /\ k # i
        BY <1>2, <1>5, <2>1 DEF QueueOK
    <2>2. CASE j = i
        BY <1>2, <1>5, <2>2 DEF QueueOK
    <2>3. CASE k = i
        BY <1>2, <1>5, <2>3 DEF QueueOK
    <2> QED  BY <2>1, <2>2, <2>3
<1>6. ASSUME NEW j \in 1 .. Len(ds), ds[j].kind = "stop"
      PROVE  v = "waiting" /\ j = Len(ds) /\ cs[j].kind = "stop"
    BY <1>2, <1>6 DEF QueueOK
<1>7. ASSUME NEW j \in 1 .. Len(ds), ds[j].kind = "stop", ds[j].st = "ok"
      PROVE  ~now /\ ~GoalOpen(ds)
    <2>1. CASE j = i
        BY <1>2, <1>3, <1>7, <2>1
    <2>2. CASE j # i
        BY <1>2, <1>3, <1>7, <2>2 DEF QueueOK
    <2> QED  BY <2>1, <2>2
<1>8. v = "confirmed" => ~now /\ ~GoalOpen(ds)
    BY <1>3 DEF QueueOK
<1> QED  BY <1>4, <1>5, <1>6, <1>7, <1>8 DEF QueueOK

LEMMA QueueStop ==
    ASSUME NEW cs \in Seq(Call), NEW c, c # "waiting", NEW active \in BOOLEAN, QueueOK(cs, c, active)
    PROVE  QueueOK(Append(NewEpoch(cs), CancelCall("stop")), "waiting", active)
<1> DEFINE ds == Append(NewEpoch(cs), CancelCall("stop"))
<1>1. Len(cs) \in Nat
    OBVIOUS
<1>2. /\ ds \in Seq(Call) /\ Len(ds) = Len(cs) + 1 /\ ds[Len(cs) + 1].st = "sent"
      /\ \A j \in 1 .. Len(cs) : ds[j].kind = cs[j].kind /\ ds[j].st = cs[j].st
    BY EpochProperties, CallTypes
<1> HIDE DEF ds
<1>3. \A j \in 1 .. Len(ds) : j \in 1 .. Len(cs) \/ j = Len(cs) + 1
    BY <1>1, <1>2
<1>4. \A j \in 1 .. Len(cs) : ds[j].kind # "stop"
    BY <1>2 DEF QueueOK
<1>5. ASSUME NEW j \in 1 .. Len(ds), NEW k \in 1 .. Len(ds), j < k, ds[j].st = "sent"
      PROVE  ds[k].st = "sent"
    <2>1. CASE k \in 1 .. Len(cs)
        <3>1. j \in 1 .. Len(cs)
            BY <1>1, <1>5, <2>1
        <3> QED  BY <1>2, <1>5, <2>1, <3>1 DEF QueueOK
    <2> QED  BY <1>2, <1>3, <2>1
<1>6. ASSUME NEW j \in 1 .. Len(ds), NEW k \in 1 .. Len(ds), ds[j].st = "serving", ds[k].st = "serving"
      PROVE  j = k
    <2>1. j \in 1 .. Len(cs) /\ k \in 1 .. Len(cs)
        BY <1>2, <1>3, <1>6
    <2> QED  BY <1>2, <1>6, <2>1 DEF QueueOK
<1>7. \A j \in 1 .. Len(ds) : ds[j].kind = "stop" => j = Len(ds) /\ ds[j].st = "sent"
    BY <1>2, <1>3, <1>4
<1>8. QueueOK(ds, "waiting", active)
    BY <1>5, <1>6, <1>7 DEF QueueOK
<1> QED  BY <1>8 DEF ds

-----------------------------------------------------------------------------
(* A mission that was cancelled sends nothing, so the queue behind the     *)
(* cancellation stays as it is until the next mission.                     *)
Silent == cancel # "none" => ex.phase # "ACTIVE" /\ ex.action = "none"

RouteInv == RouteTyped /\ QueueOK(ex.calls, cancel, nav.active) /\ Silent

LEMMA RouteFacts ==
    ASSUME RouteTyped
    PROVE  /\ ex \in LooseExecutor /\ ex.calls \in Seq(Call)
           /\ DOMAIN ex.calls = 1 .. Len(ex.calls) /\ Len(ex.calls) \in Nat
           /\ nav \in Nav /\ nav.active \in BOOLEAN
           /\ cancel \in {"none", "waiting", "confirmed"}
BY DEF RouteTyped, WellFormed, LooseExecutor, Nav

(* Steps that leave the queue, the cancellation and the goal alone.        *)
LEMMA RouteQuiet ==
    ASSUME RouteInv, ex'.calls = ex.calls, cancel' = cancel, nav'.active = nav.active,
           ex'.phase = ex.phase, ex.action = "none" => ex'.action = "none"
    PROVE  QueueOK(ex.calls, cancel, nav.active)' /\ Silent'
<1>1. QueueOK(ex.calls, cancel, nav.active)'
    BY DEF RouteInv, QueueOK, GoalOpen
<1> QED  BY <1>1 DEF RouteInv, Silent

(* Callbacks that may send, which none does after a cancellation.          *)
LEMMA RouteSends ==
    ASSUME RouteInv, RouteTyped', cancel # "waiting", Extends(ex.calls, ex'.calls), nav' = nav,
           cancel' = "none"
    PROVE  QueueOK(ex.calls, cancel, nav.active)' /\ Silent'
<1>1. QueueOK(ex'.calls, "none", nav.active)
    <2>1. ex.calls \in Seq(Call) /\ nav.active \in BOOLEAN /\ QueueOK(ex.calls, cancel, nav.active)
          /\ cancel \in {"none", "waiting", "confirmed"}
        BY RouteFacts DEF RouteInv
    <2>2. ex' \in LooseExecutor
        BY DEF RouteTyped, WellFormed
    <2>3. ex'.calls \in Seq(Call)
        BY <2>2 DEF LooseExecutor
    <2> QED  BY <2>1, <2>3, QueueExtends
<1>2. QueueOK(ex.calls, cancel, nav.active)'
    BY <1>1 DEF QueueOK, GoalOpen
<1> QED  BY <1>2 DEF Silent

LEMMA RouteCallbacks ==
    ASSUME RouteInv, RouteTyped',
           \/ Set \/ PreparationFails \/ Ticks \/ Cancel
           \/ \E a \in Anchors, cut \in Cuts : ActivatePrepared(a, cut)
           \/ \E fresh \in BOOLEAN : OnPose(fresh)
           \/ \E m \in telemetry, cut \in Cuts : OnTelemetry(m, cut)
    PROVE  QueueOK(ex.calls, cancel, nav.active)' /\ Silent'
<1>1. RouteTyped
    BY DEF RouteInv
<1>2. cancel \in {"none", "waiting", "confirmed"}
    BY <1>1, RouteFacts
<1>3. CASE Set \/ PreparationFails
    BY <1>3, RouteQuiet DEF Set, PreparationFails, outside
<1>4. ASSUME NEW a \in Anchors, NEW cut \in Cuts, ActivatePrepared(a, cut)
      PROVE  QueueOK(ex.calls, cancel, nav.active)' /\ Silent'
    BY <1>1, <1>4, ActivateKeeps, RouteSends DEF ActivatePrepared, Callback
<1>5. ASSUME NEW fresh \in BOOLEAN, OnPose(fresh)
      PROVE  QueueOK(ex.calls, cancel, nav.active)' /\ Silent'
    BY <1>1, <1>5, OnPoseKeeps, RouteQuiet DEF OnPose, outside
<1>6. ASSUME NEW m \in telemetry, NEW cut \in Cuts, OnTelemetry(m, cut)
      PROVE  QueueOK(ex.calls, cancel, nav.active)' /\ Silent'
    <2>1. cancel' = cancel /\ nav' = nav /\ cancel # "waiting"
        BY <1>6 DEF OnTelemetry, Callback
    <2>2. CASE ex.phase # "ACTIVE"
        BY <1>1, <1>6, <2>1, <2>2, OnTelemetryKeeps, RouteQuiet
    <2>3. CASE ex.phase = "ACTIVE"
        <3>1. cancel = "none"
            BY <2>3 DEF RouteInv, Silent
        <3> QED  BY <1>1, <1>6, <2>1, <3>1, OnTelemetryKeeps, RouteSends
    <2> QED  BY <2>2, <2>3
<1>7. ASSUME NEW due \in BOOLEAN, NEW served \in BOOLEAN, NEW cut \in Cuts, TickRecovery(due, served, cut)
      PROVE  QueueOK(ex.calls, cancel, nav.active)' /\ Silent'
    <2>1. cancel' = cancel /\ nav' = nav /\ ex.phase = "ACTIVE"
        BY <1>7 DEF TickRecovery, outside
    <2>2. cancel = "none"
        BY <2>1 DEF RouteInv, Silent
    <2> QED  BY <1>1, <1>7, <2>1, <2>2, TickRecoveryKeeps, RouteSends
<1>8. ASSUME NEW cut \in Cuts, TickAction(cut)
      PROVE  QueueOK(ex.calls, cancel, nav.active)' /\ Silent'
    <2>1. cancel' = cancel /\ nav' = nav /\ ex.action # "none"
        BY <1>8 DEF TickAction, outside
    <2>2. cancel = "none"
        BY <2>1 DEF RouteInv, Silent
    <2> QED  BY <1>1, <1>8, <2>1, <2>2, TickActionKeeps, RouteSends
<1>9. CASE Cancel
    <2>1. cancel' = "waiting" /\ nav' = nav /\ cancel # "waiting"
        BY <1>9 DEF Cancel, Callback, outside
    <2>2. QueueOK(Append(NewEpoch(ex.calls), CancelCall("stop")), "waiting", nav.active)
        BY <1>1, <2>1, RouteFacts, QueueStop DEF RouteInv
    <2>3. QueueOK(ex.calls, cancel, nav.active)'
        BY <1>1, <1>9, <2>1, <2>2, CancelKeeps DEF QueueOK, GoalOpen
    <2> QED  BY <1>1, <1>9, <2>3, CancelKeeps DEF Silent
<1> QED  BY <1>3, <1>4, <1>5, <1>6, <1>7, <1>8, <1>9 DEF Ticks

LEMMA RouteAnswers ==
    ASSUME RouteInv, RouteTyped', NEW i \in DOMAIN ex.calls, OnGoalRequest(i) \/ CancelEnds(i)
    PROVE  QueueOK(ex.calls, cancel, nav.active)' /\ Silent'
<1>1. /\ RouteTyped /\ QueueOK(ex.calls, cancel, nav.active) /\ ex.calls \in Seq(Call)
      /\ i \in 1 .. Len(ex.calls) /\ nav.active \in BOOLEAN /\ ex.calls[i] \in Call
    BY RouteFacts DEF RouteInv
<1> DEFINE w == Without(ex.calls, i)
<1>2. w \in Seq(Call)
    BY <1>1, WithoutProperties
<1>3. CASE OnGoalRequest(i)
    <2>1. cancel' = cancel /\ nav' = nav /\ cancel # "waiting" /\ ex.calls[i].kind = "goal"
        BY <1>3 DEF OnGoalRequest, Callback, outside
    <2>2. QueueOK(w, cancel, nav.active)
        BY <1>1, <2>1, QueueWithout
    <2>3. /\ WellFormed(ex') /\ Extends(w, ex'.calls)
          /\ ex.phase # "ACTIVE" => ex'.calls = w /\ ex'.phase = ex.phase /\ ex'.action = ex.action
        BY <1>1, <1>3, OnGoalRequestKeeps
    <2> HIDE DEF w
    <2>4. CASE ex.phase # "ACTIVE"
        <3>1. QueueOK(ex.calls, cancel, nav.active)'
            BY <2>1, <2>2, <2>3, <2>4 DEF QueueOK, GoalOpen
        <3> QED  BY <2>1, <2>3, <2>4, <3>1 DEF RouteInv, Silent
    <2>5. CASE ex.phase = "ACTIVE"
        <3>1. cancel = "none"
            BY <2>5 DEF RouteInv, Silent
        <3>2. ex'.calls \in Seq(Call)
            BY <2>3 DEF WellFormed, LooseExecutor
        <3>3. QueueOK(ex'.calls, "none", nav.active)
            BY <1>1, <1>2, <2>2, <2>3, <3>1, <3>2, QueueExtends
        <3>4. QueueOK(ex.calls, cancel, nav.active)'
            BY <2>1, <3>1, <3>3 DEF QueueOK, GoalOpen
        <3> QED  BY <2>1, <3>1, <3>4 DEF Silent
    <2> QED  BY <2>4, <2>5
<1>4. CASE CancelEnds(i)
    <2>1. /\ nav' = nav /\ cancel = "waiting" /\ ex.calls[i].kind = "stop"
          /\ cancel' = IF ex.calls[i].st = "ok" THEN "confirmed" ELSE "none"
        BY <1>4 DEF CancelEnds, outside
    <2>2. i = Len(ex.calls) /\ \A j \in 1 .. Len(ex.calls) : j # i => ex.calls[j].kind # "stop"
        BY <1>1, <2>1 DEF QueueOK
    <2>3. Silent'
        BY <1>1, <1>4, <2>1, CancelEndsKeeps DEF RouteInv, Silent
    <2>4. CASE \E c \in Call : /\ Updated(ex.calls, ex'.calls, i, c)
                               /\ c.kind = "cancel" /\ c.st = ex.calls[i].st
                               /\ ex.calls[i].st \in {"sent", "serving"}
        <3>1. PICK c \in Call : /\ Updated(ex.calls, ex'.calls, i, c)
                                /\ c.kind = "cancel" /\ c.st = ex.calls[i].st
                                /\ ex.calls[i].st \in {"sent", "serving"}
            BY <2>4
        <3>2. cancel' = "none"
            BY <2>1, <3>1
        <3>3. \A j \in 1 .. Len(ex.calls) : ex'.calls[j].kind # "stop"
            BY <1>1, <2>2, <3>1 DEF Updated
        <3>4. c.st # "sent" => \A j \in 1 .. i - 1 : ex.calls[j].st # "sent"
            BY <1>1, <3>1 DEF QueueOK
        <3>5. QueueOK(ex'.calls, "none", nav.active)
            <4>1. /\ c.st = "sent" => ex.calls[i].st = "sent"
                  /\ c.st = "serving" => ex.calls[i].st = "serving"
                  /\ c.kind # "goal" /\ c.kind # "stop"
                BY <3>1
            <4>2. /\ ex.calls \in Seq(Call) /\ i \in 1 .. Len(ex.calls) /\ nav.active \in BOOLEAN
                  /\ QueueOK(ex.calls, cancel, nav.active)
                BY <1>1
            <4>3. Updated(ex.calls, ex'.calls, i, c) /\ c \in Call
                BY <3>1
            <4>4. /\ c.st # "sent" => \A j \in 1 .. i - 1 : ex.calls[j].st # "sent"
                  /\ c.st # "ok"
                BY <3>1, <3>4
            <4> QED  BY <3>3, <4>1, <4>2, <4>3, <4>4, QueueUpdated
        <3> QED  BY <2>1, <2>3, <3>2, <3>5 DEF QueueOK, GoalOpen
    <2>5. CASE ex.calls[i].st \in {"ok", "failed"} /\ ex'.calls = w
        <3>1. QueueOK(w, cancel, nav.active)
            BY <1>1, <2>2, QueueWithout
        <3>2. /\ Len(w) = Len(ex.calls) - 1
              /\ \A j \in 1 .. Len(w) : w[j] = ex.calls[j]
            <4>1. /\ Len(w) = Len(ex.calls) - 1
                  /\ \A j \in 1 .. Len(ex.calls) - 1 :
                        w[j] = IF j < i THEN ex.calls[j] ELSE ex.calls[j + 1]
                BY <1>1, WithoutProperties
            <4>2. Len(ex.calls) \in Nat
                BY <1>1
            <4> HIDE DEF w
            <4> QED  BY <2>2, <4>1, <4>2
        <3> HIDE DEF w
        <3>3. \A j \in 1 .. Len(w) : w[j].kind # "stop"
            <4>1. Len(ex.calls) \in Nat
                BY <1>1
            <4>2. \A j \in 1 .. Len(w) : j \in 1 .. Len(ex.calls) /\ j # i
                BY <2>2, <3>2, <4>1
            <4> QED  BY <2>2, <3>2, <4>2
        <3>4. ex.calls[i].st = "ok" => ~nav.active /\ ~GoalOpen(w)
            <4>1. GoalOpen(w) => GoalOpen(ex.calls)
                <5>1. Len(ex.calls) \in Nat
                    BY <1>1
                <5>2. \A j \in 1 .. Len(w) : j \in 1 .. Len(ex.calls)
                    BY <3>2, <5>1
                <5> QED  BY <3>2, <5>2 DEF GoalOpen
            <4> QED  BY <1>1, <2>1, <4>1 DEF QueueOK
        <3>5. QueueOK(w, cancel', nav.active)
            BY <2>1, <3>1, <3>3, <3>4 DEF QueueOK
        <3> QED  BY <2>1, <2>3, <2>5, <3>5 DEF QueueOK, GoalOpen
    <2> QED  BY <1>1, <1>4, <2>4, <2>5, CancelEndsKeeps
<1> QED  BY <1>3, <1>4

LEMMA RouteServer ==
    ASSUME RouteInv, RouteTyped', ~Reordered, NEW i \in DOMAIN ex.calls,
           RefuseGoal(i) \/ ReplaceGoal(i) \/ SendGoal(i) \/ AnswerGoal(i) \/ CancelGoal(i)
              \/ AnswerCancel(i)
    PROVE  QueueOK(ex.calls, cancel, nav.active)' /\ Silent'
<1>1. /\ RouteTyped /\ QueueOK(ex.calls, cancel, nav.active) /\ ex.calls \in Seq(Call)
      /\ i \in 1 .. Len(ex.calls) /\ nav \in Nav /\ nav.active \in BOOLEAN
      /\ nav' \in Nav /\ nav'.active \in BOOLEAN /\ Len(ex.calls) \in Nat
    BY RouteFacts DEF RouteInv, RouteTyped, Nav
<1>2. cancel' = cancel
    BY DEF RefuseGoal, ReplaceGoal, SendGoal, AnswerGoal, CancelGoal, AnswerCancel
(* The calls before the one that is taken or answered have been taken.     *)
<1>3. Served(i) \/ ex.calls[i].st = "serving" => \A j \in 1 .. i - 1 : ex.calls[j].st # "sent"
    <2>1. CASE Served(i)
        BY <2>1 DEF Served
    <2>2. CASE ex.calls[i].st = "serving"
        <3>1. \A j \in 1 .. i - 1 : j \in 1 .. Len(ex.calls) /\ j < i
            BY <1>1
        <3> QED  BY <1>1, <2>2, <3>1 DEF QueueOK
    <2> QED  BY <2>1, <2>2
<1>4. Served(i) => \A j \in 1 .. Len(ex.calls) : ex.calls[j].st # "serving"
    BY <1>1, RouteFacts DEF Served, Serving
<1>5. CASE ReplaceGoal(i)
    <2>1. nav'.active = nav.active /\ ex' = ex
        BY <1>1, <1>5 DEF ReplaceGoal, Nav
    <2> QED  BY <1>2, <2>1, RouteQuiet
<1>6. CASE SendGoal(i) \/ CancelGoal(i)
    <2>1. Served(i) /\ Taken(i) /\ ex.calls[i].st = "sent"
        BY <1>6 DEF SendGoal, CancelGoal, Served
    <2>2. PICK c \in Call : /\ Updated(ex.calls, ex'.calls, i, c)
                            /\ c.kind = ex.calls[i].kind /\ c.st = "serving"
        BY <1>1, <2>1, TakenKeeps
    <2>3. nav'.active => nav.active \/ GoalOpen(ex.calls)
        <3>1. CASE SendGoal(i)
            BY <1>1, <2>1, <3>1 DEF SendGoal, GoalOpen
        <3>2. CASE CancelGoal(i)
            BY <1>1, <3>2 DEF CancelGoal, Nav
        <3> QED  BY <1>6, <3>1, <3>2
    <2>4. QueueOK(ex'.calls, cancel, nav'.active)
        <3>1. /\ c.st # "sent" /\ c.st # "ok"
              /\ c.kind = "goal" => ex.calls[i].kind = "goal" /\ ex.calls[i].st \in {"sent", "serving"}
              /\ c.kind = "stop" => ex.calls[i].kind = "stop"
            BY <2>1, <2>2
        <3>2. /\ ex.calls \in Seq(Call) /\ i \in 1 .. Len(ex.calls)
              /\ nav.active \in BOOLEAN /\ nav'.active \in BOOLEAN
              /\ QueueOK(ex.calls, cancel, nav.active)
            BY <1>1
        <3>3. Updated(ex.calls, ex'.calls, i, c) /\ c \in Call
            BY <2>2
        <3>4. /\ \A j \in 1 .. i - 1 : ex.calls[j].st # "sent"
              /\ \A j \in 1 .. Len(ex.calls) : ex.calls[j].st # "serving"
            BY <1>3, <1>4, <2>1
        <3>5. /\ c.st = "sent" => ex.calls[i].st = "sent"
              /\ c.st # "sent" => \A j \in 1 .. i - 1 : ex.calls[j].st # "sent"
              /\ c.st = "serving" => \/ ex.calls[i].st = "serving"
                                    \/ \A j \in 1 .. Len(ex.calls) : ex.calls[j].st # "serving"
              /\ c.kind = "goal" /\ c.st \in {"sent", "serving"} =>
                    ex.calls[i].kind = "goal" /\ ex.calls[i].st \in {"sent", "serving"}
              /\ c.kind = "stop" => ex.calls[i].kind = "stop"
              /\ c.kind = "stop" /\ c.st = "ok" => ~nav'.active /\ ~GoalOpen(ex.calls)
            BY <3>1, <3>4
        <3> QED  BY <2>3, <3>2, <3>3, <3>5, QueueUpdated
    <2>5. Silent'
        BY <1>1, <1>2, <2>1, TakenKeeps DEF RouteInv, Silent
    <2> QED  BY <1>2, <2>4, <2>5 DEF QueueOK, GoalOpen
<1>7. ASSUME NEW st \in {"ok", "failed"}, NEW id \in Nat, Answer(i, st, id), nav'.active = nav.active,
             Served(i) \/ ex.calls[i].st = "serving",
             ex.calls[i].kind # "goal" /\ st = "ok" => ~nav.active
      PROVE  QueueOK(ex.calls, cancel, nav.active)' /\ Silent'
    <2>1. Silent'
        BY <1>1, <1>2, <1>7, AnswerKeeps DEF RouteInv, Silent
    <2>2. CASE \E c \in Call : /\ Updated(ex.calls, ex'.calls, i, c)
                               /\ c.kind = ex.calls[i].kind /\ c.st = st
        <3>1. PICK c \in Call : /\ Updated(ex.calls, ex'.calls, i, c)
                                /\ c.kind = ex.calls[i].kind /\ c.st = st
            BY <2>2
        <3>2. c.kind = "stop" /\ c.st = "ok" => ~nav.active /\ ~GoalOpen(ex.calls)
            <4> SUFFICES ASSUME c.kind = "stop", c.st = "ok"
                         PROVE  ~nav.active /\ ~GoalOpen(ex.calls)
                OBVIOUS
            <4>1. i = Len(ex.calls) /\ ex.calls[i].kind = "stop" /\ ~nav.active
                BY <1>1, <1>7, <3>1 DEF QueueOK
            <4>2. ASSUME NEW j \in 1 .. Len(ex.calls), ex.calls[j].kind = "goal",
                         ex.calls[j].st \in {"sent", "serving"}
                  PROVE  FALSE
                <5>1. j # i
                    BY <4>1, <4>2
                <5>2. j \in 1 .. i - 1
                    BY <1>1, <4>1, <5>1
                <5>3. ex.calls[j].st = "serving"
                    BY <1>3, <1>7, <4>2, <5>2
                <5> QED  BY <1>1, <1>4, <1>7, <5>1, <5>3 DEF QueueOK
            <4> QED  BY <4>1, <4>2 DEF GoalOpen
        <3>3. QueueOK(ex'.calls, cancel, nav.active)
            <4>1. /\ c.st # "sent" /\ c.st # "serving"
                  /\ c.kind = "stop" => ex.calls[i].kind = "stop"
                BY <3>1
            <4> QED  BY <1>1, <1>3, <1>7, <3>1, <3>2, <4>1, QueueUpdated
        <3> QED  BY <1>2, <1>7, <2>1, <3>3 DEF QueueOK, GoalOpen
    <2>3. CASE ex.calls[i].kind # "stop" /\ ex'.calls = Without(ex.calls, i)
        <3>1. QueueOK(Without(ex.calls, i), cancel, nav.active)
            BY <1>1, <2>3, QueueWithout
        <3> QED  BY <1>2, <1>7, <2>1, <2>3, <3>1 DEF QueueOK, GoalOpen
    <2> QED  BY <1>1, <1>7, <2>2, <2>3, AnswerKeeps
<1>8. CASE RefuseGoal(i)
    BY <1>7, <1>8 DEF RefuseGoal, outside
<1>9. CASE AnswerGoal(i)
    <2>1. nav'.events \in Nat /\ nav'.active = nav.active
        BY <1>1, <1>9 DEF AnswerGoal, Nav
    <2> QED  BY <1>7, <1>9, <2>1 DEF AnswerGoal
<1>10. CASE AnswerCancel(i)
    <2>1. PICK st \in {"ok", "failed"} : Answer(i, st, 0) /\ (st = "ok" => ~nav.active)
        BY <1>10 DEF AnswerCancel
    <2> QED  BY <1>7, <1>10, <2>1 DEF AnswerCancel, outside
<1> QED  BY <1>5, <1>6, <1>8, <1>9, <1>10

LEMMA RouteWorld ==
    ASSUME RouteInv, RouteTyped', World \/ SetManualMode \/ OnMonitorState \/ PublishTelemetry
                                  \/ ClearsAnswer \/ ActionAnswer
    PROVE  QueueOK(ex.calls, cancel, nav.active)' /\ Silent'
<1>1. /\ RouteTyped /\ QueueOK(ex.calls, cancel, nav.active) /\ ex.calls \in Seq(Call)
      /\ nav \in Nav /\ nav.active \in BOOLEAN
    BY RouteFacts DEF RouteInv
<1>2. CASE ClearsAnswer \/ ActionAnswer
    <2>1. UNCHANGED <<cancel, nav>>
        BY <1>2 DEF ClearsAnswer, ActionAnswer, outside
    <2> QED  BY <1>1, <1>2, <2>1, ServicesKeep, RouteQuiet
<1>3. CASE \/ SetManualMode \/ OnMonitorState \/ PublishTelemetry \/ Move
           \/ \E h \in Verdicts : EvaluatePath(h)
    <2>1. UNCHANGED <<cancel, ex>> /\ nav'.active = nav.active
        BY <1>1, <1>3 DEF SetManualMode, OnMonitorState, PublishTelemetry, Move, EvaluatePath, Nav
    <2> QED  BY <2>1, RouteQuiet
<1>4. ASSUME NEW r, NEW f, GoalResult(r, f)
      PROVE  QueueOK(ex.calls, cancel, nav.active)' /\ Silent'
    <2>1. UNCHANGED <<cancel, ex>> /\ ~nav'.active
        BY <1>1, <1>4 DEF GoalResult, Nav
    <2>2. QueueOK(ex.calls, cancel, nav.active)'
        BY <1>1, <2>1 DEF QueueOK, GoalOpen
    <2> QED  BY <2>1, <2>2 DEF RouteInv, Silent
<1> QED  BY <1>2, <1>3, <1>4 DEF World

LEMMA RouteStep ==
    ASSUME RouteInv, [Next]_vars, ~Reordered
    PROVE  RouteInv'
<1>1. RouteTyped'
    BY RouteTypedStep DEF RouteInv
<1>2. CASE UNCHANGED vars
    <2>1. UNCHANGED <<ex, cancel, nav>>
        BY <1>2 DEF vars, outside
    <2> QED  BY <1>1, <2>1, RouteQuiet DEF RouteInv
<1>3. CASE Next
    <2>1. QueueOK(ex.calls, cancel, nav.active)' /\ Silent'
        BY <1>1, <1>3, RouteCallbacks, RouteAnswers, RouteServer, RouteWorld DEF Next, Answers, Server
    <2> QED  BY <1>1, <2>1 DEF RouteInv
<1> QED  BY <1>2, <1>3

LEMMA RouteInit == Init => RouteInv
<1> SUFFICES ASSUME Init PROVE RouteInv
    OBVIOUS
<1>1. RouteTyped
    BY RouteTypedInit
<1>2. ex.calls = <<>> /\ cancel = "none"
    BY DEF Init
<1>3. QueueOK(ex.calls, cancel, nav.active)
    BY <1>2 DEF QueueOK
<1> QED  BY <1>1, <1>2, <1>3 DEF RouteInv, Silent

(* For every route, window, number of missions and of calls: once the      *)
(* cancel service has said ok the robot has no goal until the next mission *)
(* begins, if the command server takes the calls of the two services in    *)
(* the order in which they were sent (_cancel, _on_cancel_goal).           *)
THEOREM RouteStopIsFinal == ~Reordered => (Spec => []StopIsFinal)
<1> SUFFICES ASSUME ~Reordered PROVE Spec => []StopIsFinal
    OBVIOUS
<1>1. RouteInv /\ [Next]_vars => RouteInv'
    BY RouteStep
<1>2. RouteInv => StopIsFinal
    BY DEF RouteInv, QueueOK, StopIsFinal
<1> QED  BY <1>1, <1>2, RouteInit, PTL DEF Spec

-----------------------------------------------------------------------------
(* Goals of earlier missions.                                              *)

(* The recovery policy has not stopped the goal since it was last reset,   *)
(* or an exception has ended the callbacks.                                *)
EarlyPolicy(p) ==
    \/ p.state \in {"CLEAR", "PENDING"}
    \/ p.state = "WAITING_DATA" /\ p.resume \in {"CLEAR", "PENDING"}

Early(x) == x.raised \/ EarlyPolicy(x.policy)

(* What is sent, or will be sent by a retry, belongs to the mission.       *)
OwnWindow(x) ==
    x.phase = "ACTIVE" => /\ x.chunk.mid = x.mid
                          /\ x.clears.st # "none" => x.clears.goal.mid = x.mid

(* ds is cs with new calls behind it, of which only the last is current.   *)
Sends(cs, ds, mid) ==
    /\ Len(cs) < Len(ds)
    /\ \A j \in 1 .. Len(cs) :
          ds[j].kind = cs[j].kind /\ ds[j].st = cs[j].st /\ ds[j].goal = cs[j].goal
    /\ \A j \in Len(cs) + 1 .. Len(ds) :
          ds[j].st = "sent" /\ (ds[j].kind = "goal" => ds[j].goal.mid = mid)
    /\ \A j \in 1 .. Len(ds) : ds[j].kind = "goal" => (ds[j].current <=> j = Len(ds))

(* What a method may do to the mission.                                    *)
Moves(x, y) ==
    /\ y.mid = x.mid
    /\ y.phase = "ACTIVE" => x.phase = "ACTIVE"
    /\ OwnWindow(x) => OwnWindow(y)
    /\ Early(x) => Early(y)
    /\ y.calls = x.calls \/ Sends(x.calls, y.calls, x.mid)

LEMMA SendsAppend ==
    ASSUME NEW cs \in Seq(Call), NEW c \in Call, c.st = "sent", NEW mid,
           c.kind = "goal" => c.current /\ c.goal.mid = mid
    PROVE  Sends(cs, Append(NewEpoch(cs), c), mid)
<1> DEFINE a == Append(NewEpoch(cs), c)
<1>1. /\ a \in Seq(Call) /\ Len(a) = Len(cs) + 1 /\ a[Len(cs) + 1] = c /\ Len(cs) \in Nat
      /\ \A j \in 1 .. Len(cs) :
            /\ a[j].kind = cs[j].kind /\ a[j].st = cs[j].st
            /\ a[j].goal = cs[j].goal /\ ~a[j].current
    BY EpochProperties
<1> HIDE DEF a
<1>2. \A j \in Len(cs) + 1 .. Len(a) : j = Len(a) /\ a[j] = c
    BY <1>1
<1>3. \A j \in 1 .. Len(a) : (j \in 1 .. Len(cs) /\ j # Len(a)) \/ (j = Len(a) /\ a[j] = c)
    BY <1>1
<1>4. Sends(cs, a, mid)
    BY <1>1, <1>2, <1>3 DEF Sends
<1> QED  BY <1>4 DEF a

LEMMA SendsTrans ==
    ASSUME NEW cs \in Seq(Call), NEW ds \in Seq(Call), NEW es \in Seq(Call), NEW mid,
           Sends(cs, ds, mid), Sends(ds, es, mid)
    PROVE  Sends(cs, es, mid)
<1>1. /\ Len(cs) \in Nat /\ Len(ds) \in Nat /\ Len(es) \in Nat
      /\ Len(cs) < Len(ds) /\ Len(ds) < Len(es)
    BY DEF Sends
<1>2. \A j \in 1 .. Len(cs) : j \in 1 .. Len(ds)
    BY <1>1
<1>3. \A j \in Len(cs) + 1 .. Len(es) : j \in Len(ds) + 1 .. Len(es) \/
                                        (j \in Len(cs) + 1 .. Len(ds) /\ j \in 1 .. Len(ds))
    BY <1>1
<1>4. \A j \in 1 .. Len(cs) :
          es[j].kind = cs[j].kind /\ es[j].st = cs[j].st /\ es[j].goal = cs[j].goal
    BY <1>2 DEF Sends
<1>5. ASSUME NEW j \in Len(cs) + 1 .. Len(es)
      PROVE  es[j].st = "sent" /\ (es[j].kind = "goal" => es[j].goal.mid = mid)
    <2>1. CASE j \in Len(ds) + 1 .. Len(es)
        BY <2>1 DEF Sends
    <2>2. CASE j \in Len(cs) + 1 .. Len(ds) /\ j \in 1 .. Len(ds)
        <3>1. ds[j].st = "sent" /\ (ds[j].kind = "goal" => ds[j].goal.mid = mid)
            BY <2>2 DEF Sends
        <3>2. es[j].kind = ds[j].kind /\ es[j].st = ds[j].st /\ es[j].goal = ds[j].goal
            BY <2>2 DEF Sends
        <3> QED  BY <3>1, <3>2
    <2> QED  BY <1>3, <2>1, <2>2
<1>6. \A j \in 1 .. Len(es) : es[j].kind = "goal" => (es[j].current <=> j = Len(es))
    BY DEF Sends
<1> QED  BY <1>1, <1>4, <1>5, <1>6 DEF Sends

LEMMA MovesTrans ==
    ASSUME NEW x, NEW y, NEW z, WellFormed(x), WellFormed(y), WellFormed(z), Moves(x, y), Moves(y, z)
    PROVE  Moves(x, z)
<1>1. x.calls \in Seq(Call) /\ y.calls \in Seq(Call) /\ z.calls \in Seq(Call)
    BY DEF WellFormed, LooseExecutor
<1>2. z.calls = x.calls \/ Sends(x.calls, z.calls, x.mid)
    BY <1>1, SendsTrans DEF Moves
<1> QED  BY <1>2 DEF Moves

(* Methods that change none of this.                                       *)
LEMMA MovesNot ==
    ASSUME NEW x, NEW y, y.mid = x.mid, y.phase = x.phase, y.chunk = x.chunk, y.clears = x.clears,
           y.policy = x.policy \/ y.policy = Reset, y.raised = x.raised, y.calls = x.calls
    PROVE  Moves(x, y)
<1>1. Early(x) => Early(y)
    BY DEF Early, EarlyPolicy, Reset
<1> QED  BY <1>1 DEF Moves, OwnWindow

LEMMA PauseMoves ==
    ASSUME NEW x, WellFormed(x)
    PROVE  Moves(x, Pause(x)) /\ Pause(x).phase # "ACTIVE" /\ Sends(x.calls, Pause(x).calls, x.mid)
<1> DEFINE a == Append(NewEpoch(x.calls), CancelCall("cancel"))
           p == IF x.phase = "ACTIVE" THEN "PAUSED" ELSE x.phase
           y == Pause(x)
<1>1. x \in LooseExecutor /\ x.calls \in Seq(Call)
    BY DEF WellFormed, LooseExecutor
<1>2. Sends(x.calls, a, x.mid)
    BY <1>1, CallTypes, SendsAppend
<1>3. y = [x EXCEPT !.pending = FALSE, !.near = FALSE, !.action = "none", !.phase = p, !.calls = a]
    BY DEF Pause
<1> HIDE DEF a, y, p
<1>4. /\ y.mid = x.mid /\ y.phase = p /\ y.policy = x.policy /\ y.raised = x.raised /\ y.calls = a
    BY <1>1, <1>3 DEF LooseExecutor
<1>5. p # "ACTIVE"
    BY DEF p
<1>6. Moves(x, y)
    BY <1>2, <1>4, <1>5 DEF Moves, Early, OwnWindow
<1> QED  BY <1>2, <1>4, <1>5, <1>6 DEF y

LEMMA SendChunkMoves ==
    ASSUME NEW x, WellFormed(x), x.chunk.mid = x.mid
    PROVE  Moves(x, SendChunk(x)) /\ Sends(x.calls, SendChunk(x).calls, x.mid)
<1> DEFINE c == [kind |-> "goal", current |-> TRUE, goal |-> x.chunk, st |-> "sent", id |-> 0]
           a == Append(NewEpoch(x.calls), c)
           y == SendChunk(x)
<1>1. x \in LooseExecutor /\ x.calls \in Seq(Call) /\ x.chunk \in Goal
    BY DEF WellFormed, LooseExecutor
<1>2. Sends(x.calls, a, x.mid)
    <2>1. c \in Call /\ c.kind = "goal" /\ c.st = "sent" /\ c.current /\ c.goal = x.chunk
        BY <1>1 DEF Call
    <2> HIDE DEF c
    <2> QED  BY <1>1, <2>1, SendsAppend
<1>3. y = [x EXCEPT !.seen = x.chunk.s, !.near = FALSE, !.pending = TRUE, !.sends = @ + 1,
                    !.calls = a]
    BY DEF SendChunk
<1> HIDE DEF a, y
<1>4. /\ y.mid = x.mid /\ y.phase = x.phase /\ y.policy = x.policy /\ y.raised = x.raised
      /\ y.calls = a /\ y.chunk = x.chunk /\ y.clears = x.clears
    BY <1>1, <1>3 DEF LooseExecutor
<1>5. Moves(x, y)
    BY <1>2, <1>4 DEF Moves, Early, OwnWindow
<1> QED  BY <1>2, <1>4, <1>5 DEF y

LEMMA DispatchMoves ==
    ASSUME NEW x, WellFormed(x), NEW cut \in Nat
    PROVE  LET y == Dispatch(x, cut)
           IN  /\ Moves(x, y)
               /\ x.target < Length => Sends(x.calls, y.calls, x.mid)
<1> DEFINE y == Dispatch(x, cut)
<1>1. x \in LooseExecutor /\ x.target \in Nat /\ Length \in Nat
    BY RouteAssumption DEF WellFormed, LooseExecutor
<1>2. CASE x.target >= Length
    <2>1. y = [x EXCEPT !.phase = "COMPLETED", !.chunk = NoGoal]
        BY <1>2 DEF Dispatch
    <2> HIDE DEF y
    <2>2. y.mid = x.mid /\ y.phase = "COMPLETED" /\ y.policy = x.policy /\ y.raised = x.raised
          /\ y.calls = x.calls
        BY <1>1, <2>1 DEF LooseExecutor
    <2>3. Moves(x, y)
        BY <2>2 DEF Moves, Early, OwnWindow
    <2> QED  BY <1>1, <1>2, <2>3 DEF y
<1>3. CASE x.target < Length
    <2>1. PICK g \in Goal : /\ g.s <= g.e /\ g.mid = x.mid /\ g.s = x.target
                            /\ \/ y = Pause([x EXCEPT !.chunk = g])
                               \/ y = SendChunk([x EXCEPT !.chunk = g])
        BY <1>1, <1>3, DispatchWindow
    <2> DEFINE z == [x EXCEPT !.chunk = g]
    <2>2. /\ WellFormed(z) /\ z.chunk = g
          /\ z.calls = x.calls /\ z.mid = x.mid /\ z.phase = x.phase /\ z.clears = x.clears
          /\ z.policy = x.policy /\ z.raised = x.raised
        BY <2>1, ChunkKept
    <2>3. y = Pause(z) \/ y = SendChunk(z)
        BY <2>1
    <2> HIDE DEF y, z
    <2>4. Moves(z, y) /\ Sends(z.calls, y.calls, z.mid)
        BY <2>1, <2>2, <2>3, PauseMoves, SendChunkMoves
    <2>5. Moves(x, y)
        BY <2>1, <2>2, <2>4 DEF Moves, Early, OwnWindow
    <2> QED  BY <2>2, <2>4, <2>5 DEF y
<1> QED  BY <1>1, <1>2, <1>3

LEMMA AdvanceMoves ==
    ASSUME NEW x, WellFormed(x), NEW cut \in Nat
    PROVE  Moves(x, Advance(x, cut))
<1>1. x \in LooseExecutor /\ x.chunk \in Goal
    BY DEF WellFormed, LooseExecutor
<1>2. CASE x.chunk = NoGoal
    <2> DEFINE y == [x EXCEPT !.raised = TRUE]
    <2>1. /\ y.mid = x.mid /\ y.phase = x.phase /\ y.chunk = x.chunk /\ y.clears = x.clears
          /\ y.raised = TRUE /\ y.calls = x.calls
        BY <1>1 DEF LooseExecutor
    <2>2. Advance(x, cut) = y
        BY <1>2 DEF Advance
    <2> HIDE DEF y
    <2> QED  BY <2>1, <2>2 DEF Moves, OwnWindow, Early
<1>3. CASE x.chunk # NoGoal
    <2> DEFINE t == x.chunk.e + 1
               y == [x EXCEPT !.target = t, !.sends = 0]
    <2>1. t \in Nat
        <3>1. x.chunk.e \in Index /\ Length \in Nat
            BY <1>1, RouteAssumption DEF Goal
        <3> QED  BY <3>1 DEF Index
    <2>2. Advance(x, cut) = Dispatch(y, cut)
        BY <1>3 DEF Advance
    <2> HIDE DEF t
    <2>3. /\ y \in LooseExecutor /\ y.chunk = x.chunk /\ y.clears = x.clears
          /\ y.mid = x.mid /\ y.phase = x.phase /\ y.policy = x.policy /\ y.raised = x.raised
          /\ y.calls = x.calls
        BY <1>1, <2>1 DEF LooseExecutor
    <2> HIDE DEF y
    <2>4. WellFormed(y)
        BY <2>3, FieldsKept
    <2>5. WellFormed(Dispatch(y, cut)) /\ Moves(x, y) /\ Moves(y, Dispatch(y, cut))
        BY <2>3, <2>4, DispatchKeeps, DispatchMoves, MovesNot
    <2> QED  BY <2>2, <2>4, <2>5, MovesTrans
<1> QED  BY <1>2, <1>3

LEMMA CompleteChunkMoves ==
    ASSUME NEW x, WellFormed(x), NEW cut \in Nat
    PROVE  Moves(x, CompleteChunk(x, cut))
<1> DEFINE last == x.chunk.e
           y == [x EXCEPT !.credited = @ \union {last}]
           z == [y EXCEPT !.action = "called"]
<1>1. x \in LooseExecutor /\ x.chunk \in Goal
    BY DEF WellFormed, LooseExecutor
<1>2. last \in Index
    BY <1>1 DEF Goal
<1>3. /\ y \in LooseExecutor /\ y.chunk = x.chunk /\ y.clears = x.clears
      /\ y.mid = x.mid /\ y.phase = x.phase /\ y.policy = x.policy /\ y.raised = x.raised
      /\ y.calls = x.calls
    BY <1>1, <1>2 DEF LooseExecutor
<1>4. \/ CompleteChunk(x, cut) = Pause(x)
      \/ CompleteChunk(x, cut) = z
      \/ CompleteChunk(x, cut) = Advance(y, cut)
    BY DEF CompleteChunk
<1> HIDE DEF y
<1>5. /\ z.chunk = x.chunk /\ z.clears = x.clears
      /\ z.mid = x.mid /\ z.phase = x.phase /\ z.policy = x.policy /\ z.raised = x.raised
      /\ z.calls = x.calls
    BY <1>3 DEF LooseExecutor
<1> HIDE DEF z
<1>6. WellFormed(y) /\ Moves(x, y) /\ Moves(x, z)
    BY <1>3, <1>5, FieldsKept, MovesNot
<1>7. Moves(x, Advance(y, cut))
    BY <1>6, AdvanceKeeps, AdvanceMoves, MovesTrans
<1> QED  BY <1>4, <1>6, <1>7, PauseMoves

LEMMA FinishRecoveryMoves ==
    ASSUME NEW x, WellFormed(x), NEW accepted \in BOOLEAN
    PROVE  LET y == FinishRecovery(x, accepted)
           IN  Moves(x, y) /\ y.calls = x.calls
<1> DEFINE y == FinishRecovery(x, accepted)
<1>1. x \in LooseExecutor
    BY DEF WellFormed
<1>2. NoClears.st = "none"
    BY DEF NoClears
<1>3. CASE x.policy.state # "RECOVERING"
    <2>1. y = [x EXCEPT !.clears = NoClears, !.raised = TRUE]
        BY <1>3 DEF FinishRecovery
    <2> HIDE DEF y
    <2>2. /\ y.mid = x.mid /\ y.phase = x.phase /\ y.chunk = x.chunk /\ y.clears = NoClears
          /\ y.raised = TRUE /\ y.calls = x.calls
        BY <1>1, <2>1 DEF LooseExecutor
    <2>3. Moves(x, y) /\ y.calls = x.calls
        BY <1>2, <2>2 DEF Moves, OwnWindow, Early
    <2> QED  BY <2>3 DEF y
<1>4. CASE x.policy.state = "RECOVERING"
    <2> DEFINE f == IF accepted THEN "" ELSE x.failure
               c == x.collision /\ ~accepted
               p == FinishRetry(x.policy, accepted)
    <2>1. y = [x EXCEPT !.clears = NoClears, !.policy = p, !.failure = f, !.collision = c]
        BY <1>4 DEF FinishRecovery
    <2> HIDE DEF p, f, c, y
    <2>2. /\ y.mid = x.mid /\ y.phase = x.phase /\ y.chunk = x.chunk /\ y.clears = NoClears
          /\ y.raised = x.raised /\ y.calls = x.calls
        BY <1>1, <2>1 DEF LooseExecutor
    <2>3. Moves(x, y) /\ y.calls = x.calls
        BY <1>2, <1>4, <2>2 DEF Moves, OwnWindow, Early, EarlyPolicy
    <2> QED  BY <2>3 DEF y
<1> QED  BY <1>3, <1>4

LEMMA CheckRecoveryClearsMoves ==
    ASSUME NEW x, WellFormed(x), OwnWindow(x), x.phase = "ACTIVE", NEW expired \in BOOLEAN
    PROVE  Moves(x, CheckRecoveryClears(x, expired))
<1>1. CASE x.clears.st = "done"
    <2>1. PICK y : /\ CheckRecoveryClears(x, expired) = SendChunk(y)
                   /\ WellFormed(y) /\ y.calls = x.calls /\ y.chunk = x.clears.goal
                   /\ y.clears = NoClears /\ y.mid = x.mid /\ y.phase = x.phase
                   /\ y.policy = x.policy /\ y.raised = x.raised
        <3> DEFINE job == x.clears
                   cut == job.size - (job.goal.e - job.goal.s + 1)
                   z == [x EXCEPT !.clears = NoClears, !.chunk = job.goal, !.target = @ + cut]
        <3>1. /\ CheckRecoveryClears(x, expired) = SendChunk(z)
              /\ WellFormed(z) /\ z.calls = x.calls /\ z.chunk = x.clears.goal
              /\ z.clears = NoClears /\ z.mid = x.mid /\ z.phase = x.phase
              /\ z.policy = x.policy /\ z.raised = x.raised
            BY <1>1, ClearsDone, Zenon
        <3> HIDE DEF z
        <3> QED  BY <3>1
    <2>2. y.chunk.mid = y.mid
        BY <1>1, <2>1 DEF OwnWindow
    <2>3. Moves(x, y)
        BY <2>1, <2>2 DEF Moves, OwnWindow, Early, NoClears
    <2> QED  BY <2>1, <2>2, <2>3, SendChunkKeeps, SendChunkMoves, MovesTrans
<1>2. CASE x.clears.st = "failed" \/ (x.clears.st = "sent" /\ expired)
    <2>1. CheckRecoveryClears(x, expired) = FinishRecovery(x, FALSE)
        BY <1>2 DEF CheckRecoveryClears
    <2> QED  BY <2>1, FinishRecoveryMoves
<1>3. CASE x.clears.st # "done" /\ ~(x.clears.st = "failed" \/ (x.clears.st = "sent" /\ expired))
    <2>1. CheckRecoveryClears(x, expired) = x
        BY <1>3 DEF CheckRecoveryClears
    <2> QED  BY <2>1, MovesNot
<1> QED  BY <1>1, <1>2, <1>3

LEMMA StopForRecoveryMoves ==
    ASSUME NEW x, WellFormed(x)
    PROVE  LET y == StopForRecovery(x)
           IN  /\ Moves(x, y) /\ Sends(x.calls, y.calls, x.mid)
               /\ y.calls[Len(y.calls)].kind # "goal"
<1> DEFINE a == Append(NewEpoch(x.calls), CancelCall("cancel"))
           y == StopForRecovery(x)
<1>1. x \in LooseExecutor /\ x.calls \in Seq(Call)
    BY DEF WellFormed, LooseExecutor
<1>2. Sends(x.calls, a, x.mid) /\ a[Len(a)].kind # "goal"
    <2>1. CancelCall("cancel") \in Call /\ CancelCall("cancel").kind = "cancel"
          /\ CancelCall("cancel").st = "sent"
        BY CallTypes
    <2>2. Len(a) = Len(x.calls) + 1 /\ a[Len(x.calls) + 1] = CancelCall("cancel")
        BY <1>1, <2>1, EpochProperties
    <2> HIDE DEF a
    <2>3. a[Len(a)].kind # "goal"
        BY <2>1, <2>2
    <2> QED  BY <1>1, <2>1, <2>3, SendsAppend DEF a
<1>3. y = [x EXCEPT !.pending = FALSE, !.calls = a]
    BY DEF StopForRecovery
<1> HIDE DEF a, y
<1>4. /\ y.mid = x.mid /\ y.phase = x.phase /\ y.policy = x.policy /\ y.raised = x.raised
      /\ y.calls = a /\ y.chunk = x.chunk /\ y.clears = x.clears
    BY <1>1, <1>3 DEF LooseExecutor
<1>5. Moves(x, y)
    BY <1>2, <1>4 DEF Moves, Early, OwnWindow
<1> QED  BY <1>2, <1>4, <1>5 DEF y

LEMMA BeginRecoveryRetryMoves ==
    ASSUME NEW x, WellFormed(x), NEW ready \in BOOLEAN, NEW cut \in Nat
    PROVE  Moves(x, BeginRecoveryRetry(x, ready, cut))
<1>1. x \in LooseExecutor /\ x.chunk \in Goal
    BY DEF WellFormed, LooseExecutor
<1>2. CASE x.near
    <2> DEFINE y == [x EXCEPT !.near = FALSE]
               z == FinishRecovery(y, TRUE)
    <2>1. /\ y \in LooseExecutor /\ y.chunk = x.chunk /\ y.clears = x.clears
          /\ y.mid = x.mid /\ y.phase = x.phase /\ y.policy = x.policy /\ y.raised = x.raised
          /\ y.calls = x.calls
        BY <1>1 DEF LooseExecutor
    <2>2. BeginRecoveryRetry(x, ready, cut) = CompleteChunk(z, cut)
        BY <1>2 DEF BeginRecoveryRetry
    <2> HIDE DEF y
    <2>3. WellFormed(y) /\ Moves(x, y)
        BY <2>1, FieldsKept, MovesNot
    <2>4. WellFormed(z) /\ Moves(y, z)
        BY <2>3, FinishRecoveryKeeps, FinishRecoveryMoves
    <2> HIDE DEF z
    <2>5. Moves(x, z)
        BY <2>3, <2>4, MovesTrans
    <2> QED  BY <2>2, <2>4, <2>5, CompleteChunkKeeps, CompleteChunkMoves, MovesTrans
<1>3. CASE ~x.near /\ ~ready
    <2>1. BeginRecoveryRetry(x, ready, cut) = FinishRecovery(x, FALSE)
        BY <1>3 DEF BeginRecoveryRetry
    <2> QED  BY <2>1, FinishRecoveryMoves
<1>4. CASE ~x.near /\ ready
    <2> DEFINE g == [x.chunk EXCEPT !.s = PendingStart(x.chunk.s, x.chunk.e, x.credited)]
               job == [st |-> "sent", goal |-> g, size |-> x.chunk.e - x.chunk.s + 1]
               y == [x EXCEPT !.clears = job]
    <2>1. BeginRecoveryRetry(x, ready, cut) = y
        BY <1>4 DEF BeginRecoveryRetry
    <2>2. g.mid = x.chunk.mid
        BY <1>1 DEF Goal
    <2>3. job.goal.mid = x.chunk.mid
        BY <2>2
    <2> HIDE DEF job
    <2>4. /\ y.chunk = x.chunk /\ y.clears = job
          /\ y.mid = x.mid /\ y.phase = x.phase /\ y.policy = x.policy /\ y.raised = x.raised
          /\ y.calls = x.calls
        BY <1>1 DEF LooseExecutor
    <2> HIDE DEF y
    <2> QED  BY <2>1, <2>3, <2>4 DEF Moves, Early, OwnWindow
<1> QED  BY <1>2, <1>3, <1>4

LEMMA TerminalResultMoves ==
    ASSUME NEW x, WellFormed(x), NEW m \in Telemetry, m.result # "none", NEW cut \in Nat
    PROVE  Moves(x, TerminalResult(x, m, cut))
<1> DEFINE r == [x EXCEPT !.policy = Reset, !.near = FALSE]
           f == [x EXCEPT !.failure = m.failure]
<1>1. x \in LooseExecutor /\ Reset \in Policy
    BY RecoveryAssumption DEF WellFormed, Reset, Policy, RecoveryState
<1>2. /\ r \in LooseExecutor /\ r.chunk = x.chunk /\ r.clears = x.clears /\ r.calls = x.calls
      /\ r.mid = x.mid /\ r.phase = x.phase /\ r.policy = Reset /\ r.raised = x.raised
      /\ f.chunk = x.chunk /\ f.clears = x.clears /\ f.calls = x.calls
      /\ f.mid = x.mid /\ f.phase = x.phase /\ f.policy = x.policy /\ f.raised = x.raised
    BY <1>1 DEF LooseExecutor
<1>3. \/ TerminalResult(x, m, cut) = x
      \/ TerminalResult(x, m, cut) = CompleteChunk(r, cut)
      \/ TerminalResult(x, m, cut) = Pause(x)
      \/ TerminalResult(x, m, cut) = f
    <2>1. m.result \in {"succeeded", "cancelled", "aborted", "goal rejected"}
        BY DEF Telemetry, Results
    <2> QED  BY <2>1 DEF TerminalResult
<1> HIDE DEF r, f
<1>4. WellFormed(r) /\ Moves(x, r) /\ Moves(x, f) /\ Moves(x, x)
    BY <1>2, FieldsKept, MovesNot
<1>5. Moves(x, CompleteChunk(r, cut))
    BY <1>4, CompleteChunkKeeps, CompleteChunkMoves, MovesTrans
<1> QED  BY <1>3, <1>4, <1>5, PauseMoves

(* A call that cancels whatever goal there is comes after call i.          *)
StopComes(cs, i) == \E k \in i + 1 .. Len(cs) : cs[k].kind # "goal" /\ cs[k].st = "sent"

(* The last call is still to be taken, or the request of this mission was  *)
(* refused and its answer pauses the mission.                              *)
Requesting(cs) ==
    \E k \in 1 .. Len(cs) :
        \/ k = Len(cs) /\ cs[k].st = "sent"
        \/ cs[k].kind = "goal" /\ cs[k].current /\ cs[k].st = "failed"

(* Only goals of this mission are current, the last request is, and the    *)
(* requests of earlier missions have a later one or a cancellation behind  *)
(* them.                                                                   *)
OwnRequests(x) ==
    /\ \A i \in 1 .. Len(x.calls) :
          /\ x.calls[i].kind = "goal" /\ x.calls[i].current => x.calls[i].goal.mid = x.mid
          /\ i = Len(x.calls) /\ x.calls[i].kind = "goal" /\ x.calls[i].st = "sent" =>
                x.calls[i].current
    /\ x.phase = "ACTIVE" => \A i \in 1 .. Len(x.calls) :
          x.calls[i].kind = "goal" /\ x.calls[i].st = "sent" /\ x.calls[i].goal.mid # x.mid =>
                Early(x) \/ StopComes(x.calls, i)

(* A goal of an earlier mission that goes on will be replaced or cancelled, *)
(* or the mission pauses.                                                  *)
OldGoalEnds(x, n) ==
    x.phase = "ACTIVE" /\ n.active /\ ~n.asked /\ n.goal.mid # x.mid =>
        StopComes(x.calls, 0) \/ (Early(x) /\ Requesting(x.calls))

GoalsOK(x, n) == OwnWindow(x) /\ OwnRequests(x) /\ OldGoalEnds(x, n)

(* A method, or a tick that lets the policy stop the goal.                 *)
Steps(x, y) ==
    /\ y.mid = x.mid
    /\ y.phase = "ACTIVE" => x.phase = "ACTIVE"
    /\ OwnWindow(x) => OwnWindow(y)
    /\ Early(x) => Early(y) \/ (Sends(x.calls, y.calls, x.mid) /\ y.calls[Len(y.calls)].kind # "goal")
    /\ y.calls = x.calls \/ Sends(x.calls, y.calls, x.mid)

LEMMA MovesSteps ==
    ASSUME NEW x, NEW y, Moves(x, y)
    PROVE  Steps(x, y)
BY DEF Moves, Steps

LEMMA SendsStops ==
    ASSUME NEW cs \in Seq(Call), NEW ds \in Seq(Call), NEW mid, Sends(cs, ds, mid)
    PROVE  /\ \A i \in 0 .. Len(cs) : StopComes(cs, i) => StopComes(ds, i)
           /\ ds[Len(ds)].kind # "goal" => \A i \in 0 .. Len(cs) : StopComes(ds, i)
           /\ Requesting(ds)
<1>1. Len(cs) \in Nat /\ Len(ds) \in Nat /\ Len(cs) < Len(ds)
    BY DEF Sends
<1>2. ASSUME NEW i \in 0 .. Len(cs), StopComes(cs, i)
      PROVE  StopComes(ds, i)
    <2>1. PICK k \in i + 1 .. Len(cs) : cs[k].kind # "goal" /\ cs[k].st = "sent"
        BY <1>2 DEF StopComes
    <2>2. k \in 1 .. Len(cs) /\ k \in i + 1 .. Len(ds)
        BY <1>1, <2>1
    <2> QED  BY <2>1, <2>2 DEF StopComes, Sends
<1>3. Len(ds) \in 1 .. Len(ds) /\ Len(ds) \in Len(cs) + 1 .. Len(ds) /\ ds[Len(ds)].st = "sent"
    <2>1. Len(ds) \in Len(cs) + 1 .. Len(ds)
        BY <1>1
    <2> QED  BY <1>1, <2>1 DEF Sends
<1>4. ASSUME ds[Len(ds)].kind # "goal", NEW i \in 0 .. Len(cs)
      PROVE  StopComes(ds, i)
    <2>1. Len(ds) \in i + 1 .. Len(ds)
        BY <1>1
    <2> QED  BY <1>3, <1>4, <2>1 DEF StopComes
<1>5. Requesting(ds)
    BY <1>3 DEF Requesting
<1> QED  BY <1>2, <1>4, <1>5

LEMMA StepsKeep ==
    ASSUME NEW x, NEW y, x.calls \in Seq(Call), y.calls \in Seq(Call), Steps(x, y),
           NEW n, GoalsOK(x, n)
    PROVE  GoalsOK(y, n)
<1>1. OwnWindow(y)
    BY DEF GoalsOK, Steps
<1>2. CASE y.calls = x.calls /\ ~Sends(x.calls, y.calls, x.mid)
    <2>1. Early(x) => Early(y)
        BY <1>2 DEF Steps
    <2>2. OwnRequests(y)
        BY <1>2, <2>1 DEF GoalsOK, OwnRequests, Steps
    <2>3. OldGoalEnds(y, n)
        BY <1>2, <2>1 DEF GoalsOK, OldGoalEnds, Steps
    <2> QED  BY <1>1, <2>2, <2>3 DEF GoalsOK
<1>3. CASE Sends(x.calls, y.calls, x.mid)
    <2> DEFINE cs == x.calls
               ds == y.calls
    <2>1. Len(cs) \in Nat /\ Len(ds) \in Nat /\ Len(cs) < Len(ds)
        BY <1>3 DEF Sends
    <2>2. /\ \A i \in 0 .. Len(cs) : StopComes(cs, i) => StopComes(ds, i)
          /\ ds[Len(ds)].kind # "goal" => \A i \in 0 .. Len(cs) : StopComes(ds, i)
          /\ Requesting(ds)
        BY <1>3, SendsStops
    <2>3. Early(x) => Early(y) \/ ds[Len(ds)].kind # "goal"
        BY DEF Steps
    <2>4. ASSUME NEW i \in 1 .. Len(ds)
          PROVE  \/ i \in 1 .. Len(cs) /\ ds[i].kind = cs[i].kind /\ ds[i].st = cs[i].st
                                       /\ ds[i].goal = cs[i].goal
                 \/ i \notin 1 .. Len(cs) /\ (ds[i].kind = "goal" => ds[i].goal.mid = x.mid)
        <3>1. i \in 1 .. Len(cs) \/ (i \notin 1 .. Len(cs) /\ i \in Len(cs) + 1 .. Len(ds))
            BY <2>1
        <3> QED  BY <1>3, <3>1 DEF Sends
    <2>5. \A i \in 1 .. Len(ds) : ds[i].kind = "goal" => (ds[i].current <=> i = Len(ds))
        BY <1>3 DEF Sends
    <2>6. y.mid = x.mid /\ (y.phase = "ACTIVE" => x.phase = "ACTIVE")
        BY DEF Steps
    <2>7. Len(ds) \notin 1 .. Len(cs)
        BY <2>1
    <2>8. \A i \in 1 .. Len(ds) :
          /\ ds[i].kind = "goal" /\ ds[i].current => ds[i].goal.mid = y.mid
          /\ i = Len(ds) /\ ds[i].kind = "goal" /\ ds[i].st = "sent" => ds[i].current
        BY <2>4, <2>5, <2>6, <2>7
    <2>9. ASSUME y.phase = "ACTIVE", NEW i \in 1 .. Len(ds), ds[i].kind = "goal", ds[i].st = "sent",
                 ds[i].goal.mid # y.mid
          PROVE  Early(y) \/ StopComes(ds, i)
        <3>1. /\ i \in 1 .. Len(cs) /\ cs[i].kind = "goal" /\ cs[i].st = "sent"
              /\ cs[i].goal.mid # x.mid
            BY <2>4, <2>6, <2>9
        <3>2. Early(x) \/ StopComes(cs, i)
            BY <2>6, <2>9, <3>1 DEF GoalsOK, OwnRequests
        <3>3. i \in 0 .. Len(cs)
            BY <2>1, <3>1
        <3> QED  BY <2>2, <2>3, <3>2, <3>3
    <2>10. OwnRequests(y)
        BY <2>8, <2>9 DEF OwnRequests
    <2>11. OldGoalEnds(y, n)
        <3>1. 0 \in 0 .. Len(cs)
            BY <2>1
        <3> QED  BY <2>2, <2>3, <2>6, <3>1 DEF GoalsOK, OldGoalEnds
    <2> QED  BY <1>1, <2>10, <2>11 DEF GoalsOK
<1> QED  BY <1>2, <1>3 DEF Steps

LEMMA EarlyObserved ==
    ASSUME NEW p \in Policy, EarlyPolicy(p), NEW h \in Health, NEW blocked \in BOOLEAN,
           NEW due \in BOOLEAN
    PROVE  LET d == Observe(p, h, blocked, due)
           IN  d.action = "CANCEL_AND_BRAKE" \/ EarlyPolicy(d.policy)
<1>1. ASSUME NEW q \in Policy, NEW st \in RecoveryState, NEW a
      PROVE  /\ Decide(q, st, a).policy.state = st /\ Decide(q, st, a).policy.resume = q.resume
             /\ Decide(q, st, a).action = a
    BY <1>1 DEF Decide, Policy
<1>2. ASSUME NEW q \in Policy, NEW st \in RecoveryState
      PROVE  [q EXCEPT !.resume = st] \in Policy /\ [q EXCEPT !.resume = st].resume = st
    BY <1>2 DEF Policy
<1>3. ASSUME NEW q \in Policy, NEW st \in RecoveryState
      PROVE  [q EXCEPT !.state = st] \in Policy /\ [q EXCEPT !.state = st].state = st
    BY <1>3 DEF Policy
<1>4. p.state \in RecoveryState /\ p.resume \in RecoveryState
    BY DEF Policy
<1>5. ASSUME h # "ok"
      PROVE  Hold(p, h).action = "CANCEL_AND_BRAKE" \/ EarlyPolicy(Hold(p, h).policy)
    <2> DEFINE c == [p EXCEPT !.resume = "CLEAR"]
               k == [p EXCEPT !.resume = IF p.state = "WAITING_DATA" THEN @ ELSE p.state]
    <2>1. c \in Policy /\ c.resume = "CLEAR"
        BY <1>2 DEF RecoveryState
    <2>2. k \in Policy /\ k.resume \in {"CLEAR", "PENDING"}
        <3>1. CASE p.state = "WAITING_DATA"
            <4>1. k = [p EXCEPT !.resume = p.resume]
                BY <3>1
            <4> QED  BY <1>2, <1>4, <3>1, <4>1 DEF EarlyPolicy
        <3>2. CASE p.state # "WAITING_DATA"
            <4>1. k = [p EXCEPT !.resume = p.state]
                BY <3>2
            <4> QED  BY <1>2, <1>4, <3>2, <4>1 DEF EarlyPolicy
        <3> QED  BY <3>1, <3>2
    <2>3. \/ Hold(p, h) = Decide(p, "NEEDS_OPERATOR", "CANCEL_AND_BRAKE")
          \/ Hold(p, h) = Decide(c, "WAITING_DATA", "NONE")
          \/ Hold(p, h) = Decide(k, "WAITING_DATA", "NONE")
        BY <1>5 DEF Hold, Health
    <2> HIDE DEF c, k
    <2> QED  BY <1>1, <2>1, <2>2, <2>3 DEF RecoveryState, EarlyPolicy
<1>6. ASSUME NEW q \in Policy, q.state \in {"CLEAR", "PENDING"}
      PROVE  Judge(q, blocked, due).action = "CANCEL_AND_BRAKE" \/ EarlyPolicy(Judge(q, blocked, due).policy)
    BY <1>1, <1>6 DEF Judge, RecoveryState, EarlyPolicy
<1> DEFINE b == [p EXCEPT !.state = IF p.state = "WAITING_DATA" THEN p.resume ELSE @]
<1>7. b \in Policy /\ b.state \in {"CLEAR", "PENDING"}
    <2>1. CASE p.state = "WAITING_DATA"
        <3>1. b = [p EXCEPT !.state = p.resume]
            BY <2>1
        <3> QED  BY <1>3, <1>4, <2>1, <3>1 DEF EarlyPolicy
    <2>2. CASE p.state # "WAITING_DATA"
        <3>1. b = [p EXCEPT !.state = p.state]
            BY <2>2
        <3> QED  BY <1>3, <1>4, <2>2, <3>1 DEF EarlyPolicy
    <2> QED  BY <2>1, <2>2
<1>8. \/ Observe(p, h, blocked, due) = Hold(p, h) /\ h # "ok"
      \/ Observe(p, h, blocked, due) = Decide(p, "CLEAR", "RESUME")
      \/ Observe(p, h, blocked, due) = Judge(b, blocked, due)
    BY <1>4 DEF Observe, EarlyPolicy
<1> HIDE DEF b
<1> QED  BY <1>1, <1>5, <1>6, <1>7, <1>8 DEF EarlyPolicy, RecoveryState

(* ds is cs without its call i, or with it answered or taken.              *)
Replaced(cs, ds, i) ==
    \E f \in [1 .. Len(ds) -> 1 .. Len(cs)] :
        /\ \A j, k \in 1 .. Len(ds) : j < k <=> f[j] < f[k]
        /\ \A m \in 1 .. Len(cs) : m # i => \E j \in 1 .. Len(ds) : f[j] = m
        /\ \A j \in 1 .. Len(ds) :
              /\ f[j] # i => ds[j] = cs[f[j]]
              /\ f[j] = i => /\ ds[j].st # "sent" /\ ds[j].kind = cs[i].kind
                             /\ ds[j].goal = cs[i].goal /\ ds[j].current = cs[i].current

LEMMA ReplacedWithout ==
    ASSUME NEW cs \in Seq(Call), NEW i \in 1 .. Len(cs)
    PROVE  Replaced(cs, Without(cs, i), i)
<1> DEFINE ds == Without(cs, i)
           f == [j \in 1 .. Len(ds) |-> IF j < i THEN j ELSE j + 1]
<1>1. Len(cs) \in Nat /\ i \in Nat
    OBVIOUS
<1>2. /\ ds \in Seq(Call) /\ Len(ds) = Len(cs) - 1
      /\ \A j \in 1 .. Len(cs) - 1 : ds[j] = IF j < i THEN cs[j] ELSE cs[j + 1]
    BY WithoutProperties
<1> HIDE DEF ds
<1>3. f \in [1 .. Len(ds) -> 1 .. Len(cs)]
    BY <1>1, <1>2
<1>4. \A j \in 1 .. Len(ds) : f[j] = (IF j < i THEN j ELSE j + 1) /\ f[j] # i
    BY <1>1, <1>2
<1>5. \A j, k \in 1 .. Len(ds) : j < k <=> f[j] < f[k]
    BY <1>1, <1>2, <1>4
<1>6. ASSUME NEW m \in 1 .. Len(cs), m # i
      PROVE  \E j \in 1 .. Len(ds) : f[j] = m
    <2>1. CASE m < i
        <3>1. m \in 1 .. Len(ds) /\ f[m] = m
            BY <1>1, <1>2, <1>4, <2>1
        <3> QED  BY <3>1
    <2>2. CASE m > i
        <3>1. m - 1 \in 1 .. Len(ds) /\ f[m - 1] = m
            BY <1>1, <1>2, <1>4, <2>2
        <3> QED  BY <3>1
    <2> QED  BY <1>1, <1>6, <2>1, <2>2
<1>7. \A j \in 1 .. Len(ds) : ds[j] = cs[f[j]]
    BY <1>1, <1>2, <1>4
<1> HIDE DEF f
<1>8. Replaced(cs, ds, i)
    BY <1>3, <1>4, <1>5, <1>6, <1>7 DEF Replaced
<1> QED  BY <1>8 DEF ds

LEMMA ReplacedUpdated ==
    ASSUME NEW cs \in Seq(Call), NEW i \in 1 .. Len(cs), NEW ds, NEW c \in Call, Updated(cs, ds, i, c),
           c.st # "sent", c.kind = cs[i].kind, c.goal = cs[i].goal, c.current = cs[i].current
    PROVE  Replaced(cs, ds, i)
<1> DEFINE f == [j \in 1 .. Len(ds) |-> j]
<1>1. /\ Len(ds) = Len(cs) /\ ds[i] = c
      /\ \A j \in 1 .. Len(cs) : j # i => ds[j] = cs[j]
    BY DEF Updated
<1>2. f \in [1 .. Len(ds) -> 1 .. Len(cs)] /\ \A j \in 1 .. Len(ds) : f[j] = j
    BY <1>1
<1> HIDE DEF f
<1>3. \A j, k \in 1 .. Len(ds) : j < k <=> f[j] < f[k]
    BY <1>2
<1>4. \A m \in 1 .. Len(cs) : m # i => \E j \in 1 .. Len(ds) : f[j] = m
    BY <1>1, <1>2
<1>5. ASSUME NEW j \in 1 .. Len(ds)
      PROVE  /\ f[j] # i => ds[j] = cs[f[j]]
             /\ f[j] = i => /\ ds[j].st # "sent" /\ ds[j].kind = cs[i].kind
                            /\ ds[j].goal = cs[i].goal /\ ds[j].current = cs[i].current
    BY <1>1, <1>2
<1> QED  BY <1>2, <1>3, <1>4, <1>5 DEF Replaced

(* Of the mission only the calls change.                                   *)
SameMission(x, y) ==
    /\ y.mid = x.mid /\ y.phase = x.phase /\ y.chunk = x.chunk /\ y.clears = x.clears
    /\ y.policy = x.policy /\ y.raised = x.raised

LEMMA RequestsReplaced ==
    ASSUME NEW x, NEW y, x.calls \in Seq(Call), y.calls \in Seq(Call), SameMission(x, y),
           NEW i \in 1 .. Len(x.calls), Replaced(x.calls, y.calls, i),
           \A j \in 1 .. i - 1 : x.calls[j].st # "sent", OwnRequests(x)
    PROVE  /\ OwnRequests(y)
           /\ StopComes(x.calls, i) => StopComes(y.calls, 0)
<1> DEFINE cs == x.calls
           ds == y.calls
<1>1. Len(cs) \in Nat /\ Len(ds) \in Nat /\ i \in Nat
    OBVIOUS
<1>2. PICK f \in [1 .. Len(ds) -> 1 .. Len(cs)] :
        /\ \A j, k \in 1 .. Len(ds) : j < k <=> f[j] < f[k]
        /\ \A m \in 1 .. Len(cs) : m # i => \E j \in 1 .. Len(ds) : f[j] = m
        /\ \A j \in 1 .. Len(ds) :
              /\ f[j] # i => ds[j] = cs[f[j]]
              /\ f[j] = i => /\ ds[j].st # "sent" /\ ds[j].kind = cs[i].kind
                             /\ ds[j].goal = cs[i].goal /\ ds[j].current = cs[i].current
    BY DEF Replaced
<1>3. \A j \in 1 .. Len(ds) : f[j] \in 1 .. Len(cs)
    BY <1>2
<1>4. ASSUME NEW j \in 1 .. Len(ds), ds[j].st = "sent"
      PROVE  ds[j] = cs[f[j]] /\ f[j] > i
    <2>1. f[j] # i /\ ds[j] = cs[f[j]]
        BY <1>2, <1>4
    <2>2. ~(f[j] \in 1 .. i - 1)
        BY <1>4, <2>1
    <2> QED  BY <1>1, <1>3, <2>1, <2>2
<1>5. ASSUME NEW j \in 1 .. Len(ds), ds[j].st = "sent", j = Len(ds)
      PROVE  f[j] = Len(cs)
    <2>1. SUFFICES ASSUME f[j] # Len(cs) PROVE FALSE
        OBVIOUS
    <2>2. f[j] < Len(cs) /\ f[j] > i
        BY <1>1, <1>3, <1>4, <1>5, <2>1
    <2>3. PICK k \in 1 .. Len(ds) : f[k] = Len(cs)
        <3>1. Len(cs) \in 1 .. Len(cs) /\ Len(cs) # i
            BY <1>1, <1>3, <2>2
        <3> QED  BY <1>2, <3>1
    <2>4. j < k
        BY <1>2, <2>2, <2>3
    <2> QED  BY <1>1, <1>5, <2>4
<1>6. ASSUME NEW j \in 1 .. Len(ds)
      PROVE  /\ ds[j].kind = "goal" /\ ds[j].current => ds[j].goal.mid = y.mid
             /\ j = Len(ds) /\ ds[j].kind = "goal" /\ ds[j].st = "sent" => ds[j].current
    <2>1. ds[j].kind = "goal" /\ ds[j].current => ds[j].goal.mid = y.mid
        <3>1. PICK m \in 1 .. Len(cs) :
                /\ ds[j].kind = cs[m].kind /\ ds[j].goal = cs[m].goal
                /\ ds[j].current = cs[m].current
            <4>1. CASE f[j] = i
                BY <1>2, <4>1
            <4>2. CASE f[j] # i
                BY <1>2, <1>3, <4>2
            <4> QED  BY <4>1, <4>2
        <3>2. cs[m].kind = "goal" /\ cs[m].current => cs[m].goal.mid = x.mid
            BY DEF OwnRequests
        <3> QED  BY <3>1, <3>2 DEF SameMission
    <2>2. j = Len(ds) /\ ds[j].kind = "goal" /\ ds[j].st = "sent" => ds[j].current
        BY <1>3, <1>4, <1>5 DEF OwnRequests
    <2> QED  BY <2>1, <2>2
<1>7. ASSUME NEW m \in i .. Len(cs), StopComes(cs, m), NEW j \in 0 .. Len(ds),
             j = 0 \/ f[j] = m
      PROVE  StopComes(ds, j)
    <2>1. PICK k \in m + 1 .. Len(cs) : cs[k].kind # "goal" /\ cs[k].st = "sent"
        BY <1>7 DEF StopComes
    <2>2. k \in 1 .. Len(cs) /\ k # i /\ k > m
        BY <1>1, <2>1
    <2>3. PICK l \in 1 .. Len(ds) : f[l] = k
        BY <1>2, <2>2
    <2>4. ds[l] = cs[k]
        BY <1>2, <2>2, <2>3
    <2>5. l > j
        BY <1>1, <1>2, <1>7, <2>2, <2>3
    <2>6. l \in j + 1 .. Len(ds)
        BY <1>1, <2>5
    <2> QED  BY <2>1, <2>4, <2>6 DEF StopComes
<1>8. ASSUME y.phase = "ACTIVE", NEW j \in 1 .. Len(ds), ds[j].kind = "goal", ds[j].st = "sent",
             ds[j].goal.mid # y.mid
      PROVE  Early(y) \/ StopComes(ds, j)
    <2>1. ds[j] = cs[f[j]] /\ f[j] > i /\ f[j] \in 1 .. Len(cs)
        BY <1>3, <1>4, <1>8
    <2>2. Early(x) \/ StopComes(cs, f[j])
        BY <1>8, <2>1 DEF OwnRequests, SameMission
    <2>3. f[j] \in i .. Len(cs) /\ j \in 0 .. Len(ds)
        BY <1>1, <2>1
    <2>4. Early(x) => Early(y)
        BY DEF Early, SameMission
    <2> QED  BY <1>7, <2>2, <2>3, <2>4
<1>9. StopComes(cs, i) => StopComes(ds, 0)
    <2>1. i \in i .. Len(cs) /\ 0 \in 0 .. Len(ds)
        BY <1>1
    <2> QED  BY <1>7, <2>1
<1>10. OwnRequests(y)
    BY <1>6, <1>8 DEF OwnRequests
<1> QED  BY <1>9, <1>10

LEMMA OldGoalReplaced ==
    ASSUME NEW x, NEW y, x.calls \in Seq(Call), y.calls \in Seq(Call), SameMission(x, y),
           NEW i \in 1 .. Len(x.calls), Replaced(x.calls, y.calls, i), OwnRequests(x),
           NEW n, OldGoalEnds(x, n),
           x.phase = "ACTIVE" /\ n.active /\ x.calls[i].st = "sent" =>
                x.calls[i].kind = "goal" /\ (x.calls[i].current => Requesting(y.calls)),
           x.phase = "ACTIVE" /\ Early(x) /\ x.calls[i].kind = "goal" /\ x.calls[i].current =>
                x.calls[i].st # "failed"
    PROVE  OldGoalEnds(y, n)
<1> DEFINE cs == x.calls
           ds == y.calls
<1>1. Len(cs) \in Nat /\ Len(ds) \in Nat /\ i \in Nat
    OBVIOUS
<1>2. PICK f \in [1 .. Len(ds) -> 1 .. Len(cs)] :
        /\ \A j, k \in 1 .. Len(ds) : j < k <=> f[j] < f[k]
        /\ \A m \in 1 .. Len(cs) : m # i => \E j \in 1 .. Len(ds) : f[j] = m
        /\ \A j \in 1 .. Len(ds) : f[j] # i => ds[j] = cs[f[j]]
    BY DEF Replaced
<1>3. \A j \in 1 .. Len(ds) : f[j] \in 1 .. Len(cs)
    BY <1>2
<1> SUFFICES ASSUME y.phase = "ACTIVE", n.active, ~n.asked, n.goal.mid # y.mid
             PROVE  StopComes(ds, 0) \/ (Early(y) /\ Requesting(ds))
    BY DEF OldGoalEnds
<1>4. x.phase = "ACTIVE" /\ (Early(x) => Early(y))
    BY DEF SameMission, Early
<1>5. StopComes(cs, 0) \/ (Early(x) /\ Requesting(cs))
    BY <1>4 DEF OldGoalEnds, SameMission
<1>6. ASSUME NEW k \in 1 .. Len(cs), k # i
      PROVE  \E l \in 1 .. Len(ds) : f[l] = k /\ ds[l] = cs[k] /\ (k = Len(cs) => l = Len(ds))
    <2>1. PICK l \in 1 .. Len(ds) : f[l] = k
        BY <1>2, <1>6
    <2>2. ds[l] = cs[k]
        BY <1>2, <1>6, <2>1
    <2>3. ASSUME k = Len(cs), l # Len(ds) PROVE FALSE
        <3>1. Len(ds) \in 1 .. Len(ds) /\ l < Len(ds)
            BY <1>1, <2>3
        <3>2. f[l] < f[Len(ds)] /\ f[Len(ds)] \in 1 .. Len(cs)
            BY <1>2, <1>3, <3>1
        <3> QED  BY <1>1, <2>1, <2>3, <3>2
    <2> QED  BY <2>1, <2>2, <2>3
<1>7. CASE StopComes(cs, 0)
    <2>1. PICK k \in 1 .. Len(cs) : cs[k].kind # "goal" /\ cs[k].st = "sent"
        BY <1>7 DEF StopComes
    <2>2. k # i
        BY <1>4, <2>1
    <2>3. PICK l \in 1 .. Len(ds) : ds[l] = cs[k]
        BY <1>6, <2>2
    <2> QED  BY <2>1, <2>3 DEF StopComes
<1>8. CASE Early(x) /\ Requesting(cs)
    <2>1. PICK k \in 1 .. Len(cs) :
            \/ k = Len(cs) /\ cs[k].st = "sent"
            \/ cs[k].kind = "goal" /\ cs[k].current /\ cs[k].st = "failed"
        BY <1>8 DEF Requesting
    <2>2. CASE k = i
        <3>1. k = Len(cs) /\ cs[k].st = "sent"
            BY <1>4, <1>8, <2>1, <2>2
        <3>2. cs[i].kind = "goal" /\ cs[i].current
            BY <1>4, <2>2, <3>1 DEF OwnRequests
        <3> QED  BY <1>4, <1>8, <2>2, <3>1, <3>2
    <2>3. CASE k # i
        <3>1. PICK l \in 1 .. Len(ds) : ds[l] = cs[k] /\ (k = Len(cs) => l = Len(ds))
            BY <1>6, <2>3
        <3>2. Requesting(ds)
            BY <2>1, <3>1 DEF Requesting
        <3> QED  BY <1>4, <1>8, <3>2
    <2> QED  BY <2>2, <2>3
<1> QED  BY <1>5, <1>7, <1>8

LEMMA OnTelemetryMoves ==
    ASSUME RouteTyped, NEW m \in telemetry, NEW cut \in Cuts, OnTelemetry(m, cut)
    PROVE  Moves(ex, ex')
<1> DEFINE heard == [ex EXCEPT !.heard = TRUE]
           stopped == [ex EXCEPT !.collision = TRUE]
           x == [ex EXCEPT !.heard = TRUE, !.collision = m.collision,
                           !.failure = IF m.goalActive THEN "" ELSE @]
           y == [x EXCEPT !.last = m.rid]
<1>1. ex \in LooseExecutor /\ m \in Telemetry /\ cut \in Nat
    BY RouteAssumption DEF RouteTyped, WellFormed
<1>2. /\ m.collision \in BOOLEAN /\ m.rid \in Int /\ ex.failure \in FailureCodes
      /\ (IF m.goalActive THEN "" ELSE ex.failure) \in FailureCodes
    <2>1. m.collision \in BOOLEAN /\ m.rid \in Int
        BY <1>1 DEF Telemetry
    <2>2. ex.failure \in FailureCodes
        BY <1>1 DEF LooseExecutor
    <2> QED  BY <2>1, <2>2 DEF FailureCodes
<1>3. /\ heard \in LooseExecutor /\ heard.calls = ex.calls /\ SameMission(ex, heard)
      /\ stopped \in LooseExecutor /\ stopped.calls = ex.calls /\ SameMission(ex, stopped)
    BY <1>1 DEF LooseExecutor, SameMission
<1>4. x \in LooseExecutor /\ x.calls = ex.calls /\ SameMission(ex, x)
    <2> DEFINE c == m.collision
               f == IF m.goalActive THEN "" ELSE ex.failure
    <2>1. x = [ex EXCEPT !.heard = TRUE, !.collision = c, !.failure = f]
        OBVIOUS
    <2>2. c \in BOOLEAN /\ f \in FailureCodes
        BY <1>2
    <2> HIDE DEF c, f, x
    <2>3. x \in LooseExecutor
        BY <1>1, <2>1, <2>2 DEF LooseExecutor
    <2> QED  BY <1>1, <2>1, <2>3 DEF LooseExecutor, SameMission
<1>5. y \in LooseExecutor /\ y.calls = x.calls /\ SameMission(x, y)
    <2> HIDE DEF x
    <2> QED  BY <1>2, <1>4 DEF LooseExecutor, SameMission
<1>6. \/ ex' = heard
      \/ ex' = Pause(ex)
      \/ ex' = Pause(stopped)
      \/ ex' = x
      \/ ex' = TerminalResult(y, m, cut) /\ m.result # "none"
    BY DEF OnTelemetry, ResultIsCurrent
<1> HIDE DEF heard, stopped, x, y
<1>7. /\ WellFormed(ex) /\ WellFormed(stopped) /\ WellFormed(x) /\ WellFormed(y)
      /\ Moves(ex, heard) /\ Moves(ex, stopped) /\ Moves(ex, x) /\ Moves(ex, y)
    BY <1>3, <1>4, <1>5, FieldsKept, MovesNot DEF RouteTyped, SameMission
<1>8. CASE ex' = heard \/ ex' = x
    BY <1>7, <1>8
<1>9. CASE ex' = Pause(ex) \/ ex' = Pause(stopped)
    BY <1>7, <1>9, PauseKeeps, PauseMoves, MovesTrans
<1>10. CASE ex' = TerminalResult(y, m, cut) /\ m.result # "none"
    BY <1>1, <1>7, <1>10, TerminalResultKeeps, TerminalResultMoves, MovesTrans
<1> QED  BY <1>6, <1>8, <1>9, <1>10

LEMMA TickRecoverySteps ==
    ASSUME RouteTyped, OwnWindow(ex), NEW due \in BOOLEAN, NEW served \in BOOLEAN, NEW cut \in Cuts,
           TickRecovery(due, served, cut)
    PROVE  Steps(ex, ex')
<1> DEFINE blocked == ex.collision \/ ex.failure = "blocking"
           d == Observe(ex.policy, health, blocked, due)
           h == ex.heard /\ d.policy.state = ex.policy.state
           n == ex.near \/ (/\ ~ManeuverHold(health) /\ d.policy.state # "CLEAR"
                            /\ ex.pose = ex.chunk.e)
           x == [ex EXCEPT !.policy = d.policy, !.heard = h, !.near = n]
           y == CheckRecoveryClears(x, ~served)
<1>1. /\ ex \in LooseExecutor /\ cut \in Nat /\ health \in Health /\ ex.policy \in Policy
      /\ ex.phase = "ACTIVE"
    BY RouteAssumption DEF RouteTyped, WellFormed, LooseExecutor, TickRecovery
<1>2. blocked \in BOOLEAN /\ h \in BOOLEAN /\ n \in BOOLEAN
    BY <1>1 DEF LooseExecutor
<1>3. /\ d.policy \in Policy
      /\ EarlyPolicy(ex.policy) => d.action = "CANCEL_AND_BRAKE" \/ EarlyPolicy(d.policy)
    BY <1>1, <1>2, ObserveTypes, EarlyObserved
<1>4. /\ \/ ex' = y /\ (y.raised \/ d.action # "CANCEL_AND_BRAKE")
         \/ ex' = StopForRecovery(y)
         \/ ex' = BeginRecoveryRetry(y, served, cut) /\ d.action # "CANCEL_AND_BRAKE"
    BY DEF TickRecovery
<1> HIDE DEF d, h, n, blocked
<1>5. /\ x \in LooseExecutor /\ x.chunk = ex.chunk /\ x.clears = ex.clears /\ x.calls = ex.calls
      /\ x.mid = ex.mid /\ x.phase = ex.phase /\ x.raised = ex.raised /\ x.policy = d.policy
    BY <1>1, <1>2, <1>3 DEF LooseExecutor
<1> HIDE DEF x
<1>6. WellFormed(x) /\ OwnWindow(x)
    BY <1>5, FieldsKept DEF RouteTyped, OwnWindow
<1>7. WellFormed(y) /\ Moves(x, y)
    BY <1>1, <1>5, <1>6, CheckRecoveryClearsKeeps, CheckRecoveryClearsMoves
<1> HIDE DEF y
<1>8. WellFormed(StopForRecovery(y)) /\ WellFormed(BeginRecoveryRetry(y, served, cut))
    BY <1>1, <1>7, StopForRecoveryKeeps, BeginRecoveryRetryKeeps
<1>9. Moves(x, ex')
    BY <1>1, <1>4, <1>6, <1>7, <1>8, StopForRecoveryMoves, BeginRecoveryRetryMoves, MovesTrans
<1>10. Early(ex) => Early(ex') \/ (Sends(ex.calls, ex'.calls, ex.mid) /\ ex'.calls[Len(ex'.calls)].kind # "goal")
    <2>1. SUFFICES ASSUME Early(ex)
                   PROVE  Early(ex') \/ (/\ Sends(ex.calls, ex'.calls, ex.mid)
                                         /\ ex'.calls[Len(ex'.calls)].kind # "goal")
        OBVIOUS
    <2>2. CASE Early(x)
        BY <1>9, <2>2 DEF Moves
    <2>3. CASE d.action = "CANCEL_AND_BRAKE" /\ ex' = StopForRecovery(y)
        <3>1. Sends(y.calls, ex'.calls, y.mid) /\ ex'.calls[Len(ex'.calls)].kind # "goal"
            BY <1>7, <2>3, StopForRecoveryMoves
        <3>2. y.mid = x.mid /\ (y.calls = x.calls \/ Sends(x.calls, y.calls, x.mid))
            BY <1>7 DEF Moves
        <3>3. x.calls \in Seq(Call) /\ y.calls \in Seq(Call) /\ ex'.calls \in Seq(Call)
            BY <1>6, <1>7, <1>8, <2>3 DEF WellFormed, LooseExecutor
        <3>4. Sends(x.calls, ex'.calls, x.mid)
            BY <3>1, <3>2, <3>3, SendsTrans
        <3> QED  BY <1>5, <3>1, <3>4
    <2>4. CASE d.action = "CANCEL_AND_BRAKE" /\ ex' = y /\ y.raised
        BY <2>4 DEF Early
    <2>5. Early(x) \/ d.action = "CANCEL_AND_BRAKE"
        BY <1>3, <1>5, <2>1 DEF Early
    <2> QED  BY <1>4, <2>2, <2>3, <2>4, <2>5
<1>11. OwnWindow(ex')
    BY <1>6, <1>9 DEF Moves
<1> QED  BY <1>5, <1>9, <1>10, <1>11 DEF Moves, Steps

LEMMA TickActionMoves ==
    ASSUME RouteTyped, NEW cut \in Cuts, TickAction(cut)
    PROVE  Moves(ex, ex')
<1> DEFINE x == [ex EXCEPT !.action = "none"]
<1>1. ex \in LooseExecutor /\ cut \in Nat
    BY RouteAssumption DEF RouteTyped, WellFormed
<1>2. ex' = Pause(ex) \/ ex' = Advance(x, cut)
    BY DEF TickAction
<1>3. x \in LooseExecutor /\ x.calls = ex.calls /\ SameMission(ex, x)
    BY <1>1 DEF LooseExecutor, SameMission
<1> HIDE DEF x
<1>4. WellFormed(ex) /\ WellFormed(x) /\ Moves(ex, x)
    BY <1>3, FieldsKept, MovesNot DEF RouteTyped, SameMission
<1> QED  BY <1>1, <1>2, <1>4, PauseMoves, AdvanceKeeps, AdvanceMoves, MovesTrans

(* Callbacks that leave the mission and its calls alone.                   *)
LEMMA QuietMoves ==
    ASSUME RouteTyped,
           \/ Set \/ PreparationFails \/ ActionAnswer \/ ClearsAnswer
           \/ \E fresh \in BOOLEAN : OnPose(fresh)
    PROVE  Moves(ex, ex')
<1>1. ex \in LooseExecutor
    BY DEF RouteTyped, WellFormed
<1>2. CASE Set \/ PreparationFails
    BY <1>2, MovesNot DEF Set, PreparationFails
<1>3. CASE ActionAnswer
    <2>1. PICK a \in {"answered", "refused"} : ex' = [ex EXCEPT !.action = a]
        BY <1>3 DEF ActionAnswer
    <2>2. ex'.calls = ex.calls /\ SameMission(ex, ex')
        BY <1>1, <2>1 DEF LooseExecutor, SameMission
    <2> QED  BY <2>2, MovesNot DEF SameMission
<1>4. CASE ClearsAnswer
    <2>1. PICK st \in {"done", "failed"} : ex' = [ex EXCEPT !.clears.st = st]
        BY <1>4 DEF ClearsAnswer
    <2> DEFINE k == [ex.clears EXCEPT !.st = st]
    <2>2. k.goal = ex.clears.goal
        BY <1>1 DEF LooseExecutor
    <2>3. ex' = [ex EXCEPT !.clears = k] /\ ex.clears.st # "none"
        BY <1>4, <2>1 DEF ClearsAnswer
    <2> HIDE DEF k
    <2>4. /\ ex'.calls = ex.calls /\ ex'.mid = ex.mid /\ ex'.phase = ex.phase
          /\ ex'.chunk = ex.chunk /\ ex'.clears = k
          /\ ex'.policy = ex.policy /\ ex'.raised = ex.raised
        BY <1>1, <2>3 DEF LooseExecutor
    <2> QED  BY <2>2, <2>3, <2>4 DEF Moves, OwnWindow, Early
<1>5. ASSUME NEW fresh \in BOOLEAN, OnPose(fresh)
      PROVE  Moves(ex, ex')
    <2> DEFINE hit == fresh /\ ex.phase = "ACTIVE" /\ ex.seen < ex.chunk.e /\ robot = ex.seen
               s == IF hit THEN ex.seen + 1 ELSE ex.seen
               c == IF hit THEN ex.credited \union {robot} ELSE ex.credited
    <2>1. ex' = [ex EXCEPT !.pose = robot, !.seen = s, !.credited = c]
        BY <1>5 DEF OnPose
    <2> HIDE DEF s, c
    <2>2. ex'.calls = ex.calls /\ SameMission(ex, ex')
        BY <1>1, <2>1 DEF LooseExecutor, SameMission
    <2> QED  BY <2>2, MovesNot DEF SameMission
<1> QED  BY <1>2, <1>3, <1>4, <1>5

LEMMA ActivateGoals ==
    ASSUME RouteTyped, NEW anchor \in Anchors, NEW cut \in Cuts, ActivatePrepared(anchor, cut),
           NEW n
    PROVE  GoalsOK(ex', n)
<1> DEFINE m == ex.mid + 1
           x == [ex EXCEPT !.phase = "ACTIVE", !.mid = m, !.anchor = anchor,
                           !.target = anchor, !.policy = Reset, !.clears = NoClears,
                           !.credited = {}, !.sends = 0]
<1>1. ex \in LooseExecutor /\ cut \in Nat /\ ex.chunk.s <= ex.chunk.e
    BY RouteAssumption DEF RouteTyped, WellFormed
<1>2. m \in 0 .. MaxMissions
    <2>1. ex.mid \in 0 .. MaxMissions /\ ex.mid < MaxMissions
        BY <1>1 DEF LooseExecutor, ActivatePrepared
    <2> QED  BY <2>1, RouteAssumption
<1>3. anchor \in Index /\ anchor \in Nat /\ anchor < Length
    BY RouteAssumption DEF Index
<1>4. /\ NoClears \in [st : {"none", "sent", "done", "failed"}, goal : Goal, size : 0 .. Length]
      /\ NoClears.st = "none" /\ NoClears.goal.s <= NoClears.goal.e
    BY CallTypes, RouteAssumption DEF NoClears, NoGoal
<1>5. Reset \in Policy /\ EarlyPolicy(Reset)
    BY RecoveryAssumption DEF Reset, Policy, RecoveryState, EarlyPolicy
<1>6. ex' = Dispatch(x, cut)
    BY DEF ActivatePrepared
<1> HIDE DEF m
<1>7. x \in LooseExecutor /\ x.calls = ex.calls /\ x.chunk = ex.chunk /\ x.clears = NoClears
    BY <1>1, <1>2, <1>3, <1>4, <1>5 DEF LooseExecutor, Phases
<1>8. x.policy = Reset /\ x.target = anchor /\ x.mid = m /\ x.phase = "ACTIVE"
    BY <1>1 DEF LooseExecutor
<1> HIDE DEF x
<1>9. WellFormed(x)
    BY <1>1, <1>4, <1>7 DEF WellFormed
<1>10. Moves(x, ex') /\ Sends(x.calls, ex'.calls, x.mid)
    BY <1>1, <1>3, <1>6, <1>8, <1>9, DispatchMoves
<1>11. Early(ex') /\ ex'.mid = m
    BY <1>5, <1>8, <1>10 DEF Moves, Early
<1>12. x.calls \in Seq(Call) /\ ex'.calls \in Seq(Call)
    <2>1. WellFormed(ex')
        BY <1>1, <1>6, <1>9, DispatchKeeps
    <2> QED  BY <1>9, <2>1 DEF WellFormed, LooseExecutor
<1>13. OldGoalEnds(ex', n)
    BY <1>10, <1>11, <1>12, SendsStops DEF OldGoalEnds
<1>14. OwnWindow(ex')
    <2>1. PICK g \in Goal : /\ g.s <= g.e /\ g.mid = x.mid
                            /\ \/ ex' = Pause([x EXCEPT !.chunk = g])
                               \/ ex' = SendChunk([x EXCEPT !.chunk = g])
        BY <1>1, <1>3, <1>6, <1>8, <1>9, DispatchWindow DEF WellFormed
    <2> DEFINE z == [x EXCEPT !.chunk = g]
    <2>2. /\ WellFormed(z) /\ z.chunk = g /\ z.mid = x.mid /\ z.clears = x.clears
        BY <1>9, <2>1, ChunkKept
    <2>3. ex' = Pause(z) \/ ex' = SendChunk(z)
        BY <2>1
    <2> HIDE DEF z
    <2>4. OwnWindow(z)
        BY <1>4, <1>7, <2>1, <2>2 DEF OwnWindow
    <2>5. Moves(z, ex')
        BY <2>1, <2>2, <2>3, PauseMoves, SendChunkMoves
    <2> QED  BY <2>4, <2>5 DEF Moves
<1>15. OwnRequests(ex')
    <2> DEFINE ds == ex'.calls
    <2>1. Len(x.calls) \in Nat /\ Len(ds) \in Nat /\ Len(x.calls) < Len(ds)
        BY <1>10, <1>12 DEF Sends
    <2>2. Len(ds) \in Len(x.calls) + 1 .. Len(ds)
        BY <2>1
    <2> QED  BY <1>8, <1>10, <1>11, <2>2 DEF OwnRequests, Sends
<1> QED  BY <1>13, <1>14, <1>15 DEF GoalsOK

LEMMA CallsSameMission ==
    ASSUME NEW x, WellFormed(x), NEW ds, NEW y, y = [x EXCEPT !.calls = ds]
    PROVE  SameMission(x, y) /\ y.calls = ds
BY DEF WellFormed, LooseExecutor, SameMission

(* A call is taken.                                                        *)
LEMMA TakenReplaces ==
    ASSUME RouteTyped, NEW i \in DOMAIN ex.calls, Taken(i)
    PROVE  /\ SameMission(ex, ex') /\ Replaced(ex.calls, ex'.calls, i)
           /\ Len(ex'.calls) = Len(ex.calls)
           /\ \A j \in 1 .. Len(ex.calls) : j # i => ex'.calls[j] = ex.calls[j]
<1> DEFINE b == ex.calls[i]
           c == [b EXCEPT !.st = "serving"]
           ds == [ex.calls EXCEPT ![i] = c]
<1>1. WellFormed(ex) /\ ex.calls \in Seq(Call) /\ i \in 1 .. Len(ex.calls) /\ b \in Call
    BY DEF RouteTyped, WellFormed, LooseExecutor
<1>2. c \in Call /\ c.kind = b.kind /\ c.st = "serving" /\ c.goal = b.goal /\ c.current = b.current
    <2> HIDE DEF b
    <2> QED  BY <1>1 DEF Call
<1>3. ex' = [ex EXCEPT !.calls = ds]
    BY DEF Taken
<1> HIDE DEF c
<1>4. Updated(ex.calls, ds, i, c)
    BY <1>1, <1>2, CallUpdated DEF Updated
<1> HIDE DEF ds
<1>5. SameMission(ex, ex') /\ ex'.calls = ds
    BY <1>1, <1>3, CallsSameMission
<1>6. Replaced(ex.calls, ds, i)
    BY <1>1, <1>2, <1>4, ReplacedUpdated
<1> QED  BY <1>1, <1>4, <1>5, <1>6 DEF Updated

(* A call is answered.                                                     *)
LEMMA AnswerReplaces ==
    ASSUME RouteTyped, NEW i \in DOMAIN ex.calls, NEW st \in {"ok", "failed"}, NEW id \in Nat,
           Answer(i, st, id)
    PROVE  /\ SameMission(ex, ex') /\ Replaced(ex.calls, ex'.calls, i)
           /\ ex.calls[i].kind = "goal" /\ ex.calls[i].current /\ st = "failed" => Requesting(ex'.calls)
<1> DEFINE b == ex.calls[i]
           c == [b EXCEPT !.st = st, !.id = id]
           ds == [ex.calls EXCEPT ![i] = c]
<1>1. WellFormed(ex) /\ ex.calls \in Seq(Call) /\ i \in 1 .. Len(ex.calls) /\ b \in Call
    BY DEF RouteTyped, WellFormed, LooseExecutor
<1>2. CASE b.current \/ b.kind = "stop"
    <2>1. c \in Call /\ c.kind = b.kind /\ c.st = st /\ c.goal = b.goal /\ c.current = b.current
        <3> HIDE DEF b
        <3> QED  BY <1>1 DEF Call
    <2>2. ex' = [ex EXCEPT !.calls = ds]
        BY <1>2 DEF Answer
    <2> HIDE DEF c
    <2>3. Updated(ex.calls, ds, i, c)
        BY <1>1, <2>1, CallUpdated DEF Updated
    <2> HIDE DEF ds
    <2>4. SameMission(ex, ex') /\ ex'.calls = ds
        BY <1>1, <2>2, CallsSameMission
    <2>5. Replaced(ex.calls, ds, i)
        BY <1>1, <2>1, <2>3, ReplacedUpdated
    <2>6. ds[i] = c /\ i \in 1 .. Len(ds)
        BY <1>1, <2>3 DEF Updated
    <2>7. b.kind = "goal" /\ b.current /\ st = "failed" => Requesting(ds)
        BY <2>1, <2>6 DEF Requesting
    <2> QED  BY <2>4, <2>5, <2>7
<1>3. CASE ~(b.current \/ b.kind = "stop")
    <2>1. ex' = [ex EXCEPT !.calls = Without(ex.calls, i)]
        BY <1>3 DEF Answer
    <2>2. SameMission(ex, ex') /\ ex'.calls = Without(ex.calls, i)
        BY <1>1, <2>1, CallsSameMission
    <2>3. Replaced(ex.calls, ex'.calls, i)
        BY <1>1, <2>2, ReplacedWithout
    <2> QED  BY <1>3, <2>2, <2>3
<1> QED  BY <1>2, <1>3

LEMMA SameWindow ==
    ASSUME NEW x, NEW y, SameMission(x, y), OwnWindow(x)
    PROVE  OwnWindow(y)
BY DEF SameMission, OwnWindow

(* Before a call that has been taken or answered none is still to be taken. *)
LEMMA TakenBefore ==
    ASSUME NEW cs \in Seq(Call), NEW c, NEW active, QueueOK(cs, c, active),
           NEW i \in 1 .. Len(cs), cs[i].st # "sent"
    PROVE  \A j \in 1 .. i - 1 : cs[j].st # "sent"
<1>1. Len(cs) \in Nat /\ i \in Nat
    OBVIOUS
<1>2. \A j \in 1 .. i - 1 : j \in 1 .. Len(cs) /\ j < i
    BY <1>1
<1> QED  BY <1>2 DEF QueueOK

LEMMA OnGoalRequestGoals ==
    ASSUME RouteInv, RouteTyped', GoalsOK(ex, nav), NEW i \in DOMAIN ex.calls, OnGoalRequest(i)
    PROVE  GoalsOK(ex', nav)
<1> DEFINE c == ex.calls[i]
           w == Without(ex.calls, i)
           x == [ex EXCEPT !.calls = w]
           fl == IF c.st = "ok" THEN c.id ELSE ex.floor
           y == [x EXCEPT !.pending = FALSE, !.floor = fl]
<1>1. /\ WellFormed(ex) /\ ex \in LooseExecutor /\ ex.calls \in Seq(Call) /\ i \in 1 .. Len(ex.calls)
      /\ ex'.calls \in Seq(Call)
    <2>1. WellFormed(ex) /\ WellFormed(ex')
        BY DEF RouteInv, RouteTyped
    <2>2. ex \in LooseExecutor /\ ex' \in LooseExecutor
        BY <2>1 DEF WellFormed
    <2>3. ex.calls \in Seq(Call) /\ ex'.calls \in Seq(Call)
        BY <2>2 DEF LooseExecutor
    <2> HIDE DEF c, w, fl, x, y
    <2> QED  BY <2>1, <2>2, <2>3
<1>2. w \in Seq(Call) /\ Replaced(ex.calls, w, i)
    BY <1>1, WithoutProperties, ReplacedWithout
<1>3. fl \in Int
    <2>1. c \in Call /\ ex.floor \in Int
        BY <1>1 DEF LooseExecutor
    <2> QED  BY <2>1 DEF Call
<1>4. /\ ~ex.raised /\ c.kind = "goal" /\ c.st \in {"ok", "failed"}
      /\ \/ ex' = x /\ (~c.current \/ ex.phase # "ACTIVE")
         \/ ex' = y /\ c.st = "ok"
         \/ ex' = Pause(y)
         \/ /\ \E b \in BOOLEAN : ex' = FinishRecovery(y, b)
            /\ ex.policy.state = "RECOVERING"
    <2> HIDE DEF c
    <2>1. /\ ~ex.raised /\ c.kind = "goal" /\ c.st \in {"ok", "failed"}
        BY DEF OnGoalRequest, Callback, c
    <2>2. \/ ex' = x /\ (~c.current \/ ex.phase # "ACTIVE")
          \/ ex' = y /\ c.st = "ok"
          \/ ex' = Pause(y)
          \/ /\ \E b \in BOOLEAN : ex' = FinishRecovery(y, b)
             /\ ex.policy.state = "RECOVERING"
        BY DEF OnGoalRequest, c
    <2> QED  BY <2>1, <2>2
<1> HIDE DEF w, fl
<1>5. x \in LooseExecutor /\ x.calls = w /\ SameMission(ex, x)
    BY <1>1, <1>2 DEF LooseExecutor, SameMission
<1> HIDE DEF x
<1>6. y \in LooseExecutor /\ y.calls = w /\ SameMission(ex, y)
    <2>1. y \in LooseExecutor
        BY <1>3, <1>5 DEF LooseExecutor
    <2>2. y.calls = w /\ SameMission(x, y)
        BY <1>5 DEF LooseExecutor, SameMission
    <2> QED  BY <1>5, <2>1, <2>2 DEF SameMission
<1> HIDE DEF y
<1>7. WellFormed(y)
    BY <1>1, <1>6, FieldsKept DEF SameMission
<1>8. \A j \in 1 .. i - 1 : ex.calls[j].st # "sent"
    BY <1>1, <1>4, TakenBefore DEF RouteInv
<1>9. /\ OwnWindow(x) /\ OwnRequests(x) /\ OwnWindow(y) /\ OwnRequests(y)
    BY <1>1, <1>2, <1>5, <1>6, <1>8, RequestsReplaced, SameWindow DEF GoalsOK
<1>10. ASSUME c.st # "failed" \/ ~c.current \/ ex.phase # "ACTIVE" \/ ~Early(ex)
       PROVE  GoalsOK(x, nav) /\ GoalsOK(y, nav)
    <2>1. OldGoalEnds(x, nav) /\ OldGoalEnds(y, nav)
        BY <1>1, <1>2, <1>4, <1>5, <1>6, <1>10, OldGoalReplaced DEF GoalsOK
    <2> QED  BY <1>9, <2>1 DEF GoalsOK
<1>11. CASE ex' = x /\ (~c.current \/ ex.phase # "ACTIVE")
    BY <1>10, <1>11
<1>12. CASE ex' = y /\ c.st = "ok"
    BY <1>10, <1>12
<1>13. CASE ex' = Pause(y)
    <2> DEFINE none == [nav EXCEPT !.active = FALSE]
    <2>1. ~none.active
        BY DEF RouteInv, RouteTyped, Nav
    <2> HIDE DEF none
    <2>2. GoalsOK(y, none)
        BY <1>9, <2>1 DEF GoalsOK, OldGoalEnds
    <2>3. Moves(y, ex') /\ ex'.phase # "ACTIVE"
        BY <1>7, <1>13, PauseMoves
    <2>4. GoalsOK(ex', none)
        BY <1>1, <1>2, <1>6, <2>2, <2>3, MovesSteps, StepsKeep
    <2> QED  BY <2>3, <2>4 DEF GoalsOK, OldGoalEnds
<1>14. CASE (\E b \in BOOLEAN : ex' = FinishRecovery(y, b)) /\ ex.policy.state = "RECOVERING"
    <2>1. ~Early(ex)
        BY <1>4, <1>14 DEF Early, EarlyPolicy
    <2>2. Moves(y, ex')
        BY <1>7, <1>14, FinishRecoveryMoves
    <2> QED  BY <1>1, <1>2, <1>6, <1>10, <2>1, <2>2, MovesSteps, StepsKeep
<1> QED  BY <1>4, <1>11, <1>12, <1>13, <1>14

LEMMA CancelGoals ==
    ASSUME RouteTyped, RouteTyped', GoalsOK(ex, nav), Cancel
    PROVE  GoalsOK(ex', nav)
<1>1. /\ ex.calls \in Seq(Call) /\ ex'.phase # "ACTIVE"
      /\ ex'.calls = Append(NewEpoch(ex.calls), CancelCall("stop"))
    BY CancelKeeps, RouteFacts
<1>2. CancelCall("stop") \in Call /\ CancelCall("stop").kind = "stop" /\ CancelCall("stop").st = "sent"
    BY CallTypes
<1>3. Sends(ex.calls, ex'.calls, ex.mid)
    BY <1>1, <1>2, SendsAppend
<1>4. ex'.calls[Len(ex'.calls)].kind # "goal"
    <2>1. Len(ex'.calls) = Len(ex.calls) + 1 /\ ex'.calls[Len(ex.calls) + 1] = CancelCall("stop")
        BY <1>1, <1>2, EpochProperties
    <2> QED  BY <1>2, <2>1
<1>5. OwnRequests(ex')
    BY <1>1, <1>3, <1>4 DEF OwnRequests, Sends
<1> QED  BY <1>1, <1>5 DEF GoalsOK, OwnWindow, OldGoalEnds

LEMMA CancelEndsGoals ==
    ASSUME RouteInv, RouteTyped', GoalsOK(ex, nav), NEW i \in DOMAIN ex.calls, CancelEnds(i)
    PROVE  GoalsOK(ex', nav)
<1>1. /\ RouteTyped /\ WellFormed(ex) /\ ex \in LooseExecutor /\ ex.calls \in Seq(Call)
      /\ i \in 1 .. Len(ex.calls) /\ ex'.calls \in Seq(Call) /\ QueueOK(ex.calls, cancel, nav.active)
    <2>1. RouteTyped /\ QueueOK(ex.calls, cancel, nav.active)
        BY DEF RouteInv
    <2>2. WellFormed(ex) /\ WellFormed(ex')
        BY <2>1 DEF RouteTyped
    <2>3. /\ ex \in LooseExecutor /\ ex.calls \in Seq(Call) /\ ex'.calls \in Seq(Call)
        BY <2>2 DEF WellFormed, LooseExecutor
    <2> QED  BY <2>1, <2>2, <2>3
<1>2. ex.phase # "ACTIVE" /\ ex'.phase = ex.phase
    BY <1>1, CancelEndsKeeps DEF RouteInv, Silent, CancelEnds
<1>3. CASE ex.calls[i].st \in {"ok", "failed"} /\ ex' = [ex EXCEPT !.calls = Without(ex.calls, i)]
    <2>1. SameMission(ex, ex') /\ ex'.calls = Without(ex.calls, i)
        BY <1>1, <1>3, CallsSameMission
    <2>2. Replaced(ex.calls, ex'.calls, i)
        BY <1>1, <2>1, ReplacedWithout
    <2>3. \A j \in 1 .. i - 1 : ex.calls[j].st # "sent"
        BY <1>1, <1>3, TakenBefore
    <2>4. OwnRequests(ex')
        BY <1>1, <2>1, <2>2, <2>3, RequestsReplaced DEF GoalsOK
    <2> QED  BY <1>2, <2>4 DEF GoalsOK, OwnWindow, OldGoalEnds
<1>4. CASE ex' = [ex EXCEPT !.calls[i].kind = "cancel"]
    <2> DEFINE b == ex.calls[i]
               c == [b EXCEPT !.kind = "cancel"]
               ds == [ex.calls EXCEPT ![i] = c]
    <2>1. c \in Call /\ c.kind = "cancel"
        <3>1. b \in Call
            BY <1>1
        <3> HIDE DEF b
        <3> QED  BY <3>1 DEF Call
    <2>2. ex' = [ex EXCEPT !.calls = ds]
        BY <1>4
    <2> HIDE DEF c
    <2>3. Updated(ex.calls, ds, i, c)
        BY <1>1, <2>1, CallUpdated DEF Updated
    <2> HIDE DEF ds
    <2>4. SameMission(ex, ex') /\ ex'.calls = ds
        BY <1>1, <2>2, CallsSameMission
    <2>5. OwnRequests(ex')
        BY <1>2, <2>1, <2>3, <2>4 DEF GoalsOK, OwnRequests, Updated, SameMission
    <2> QED  BY <1>2, <2>5 DEF GoalsOK, OwnWindow, OldGoalEnds
<1> QED  BY <1>3, <1>4 DEF CancelEnds

(* What the world does to the goal: it is not given back, and a            *)
(* cancellation is not taken back.                                         *)
LEMMA NavKeeps ==
    ASSUME GoalsOK(ex, nav), NEW n, n.active => nav.active /\ n.goal = nav.goal /\ (nav.asked => n.asked)
    PROVE  GoalsOK(ex, n)
BY DEF GoalsOK, OldGoalEnds

LEMMA ServerGoals ==
    ASSUME RouteInv, RouteTyped', ~Reordered, GoalsOK(ex, nav), NEW i \in DOMAIN ex.calls,
           RefuseGoal(i) \/ ReplaceGoal(i) \/ SendGoal(i) \/ AnswerGoal(i) \/ CancelGoal(i)
              \/ AnswerCancel(i)
    PROVE  GoalsOK(ex', nav')
<1>1. /\ RouteTyped /\ QueueOK(ex.calls, cancel, nav.active) /\ ex.calls \in Seq(Call)
      /\ i \in 1 .. Len(ex.calls) /\ nav \in Nav /\ nav' \in Nav /\ Len(ex.calls) \in Nat
      /\ ex'.calls \in Seq(Call)
    BY RouteFacts DEF RouteInv, RouteTyped, WellFormed, LooseExecutor
<1>2. Served(i) \/ ex.calls[i].st # "sent" => \A j \in 1 .. i - 1 : ex.calls[j].st # "sent"
    BY <1>1, TakenBefore DEF Served
<1>3. CASE ReplaceGoal(i)
    <2>1. ex' = ex /\ nav'.asked
        BY <1>1, <1>3 DEF ReplaceGoal, Nav
    <2> QED  BY <2>1 DEF GoalsOK, OldGoalEnds
<1>4. CASE CancelGoal(i)
    <2>1. Served(i) /\ Taken(i) /\ nav'.asked
        BY <1>1, <1>4 DEF CancelGoal, Nav
    <2>2. SameMission(ex, ex') /\ Replaced(ex.calls, ex'.calls, i)
        BY <1>1, <2>1, TakenReplaces
    <2>3. OwnRequests(ex')
        BY <1>1, <1>2, <2>1, <2>2, RequestsReplaced DEF GoalsOK
    <2> QED  BY <2>1, <2>2, <2>3, SameWindow DEF GoalsOK, OldGoalEnds
<1>5. CASE SendGoal(i)
    <2>1. /\ Served(i) /\ Taken(i) /\ ex.calls[i].kind = "goal" /\ ex.calls[i].st = "sent"
          /\ nav'.goal = ex.calls[i].goal
        BY <1>1, <1>5 DEF SendGoal, Served, Nav
    <2>2. /\ SameMission(ex, ex') /\ Replaced(ex.calls, ex'.calls, i)
          /\ Len(ex'.calls) = Len(ex.calls)
          /\ \A j \in 1 .. Len(ex.calls) : j # i => ex'.calls[j] = ex.calls[j]
        BY <1>1, <2>1, TakenReplaces
    <2>3. OwnRequests(ex') /\ (StopComes(ex.calls, i) => StopComes(ex'.calls, 0))
        BY <1>1, <1>2, <2>1, <2>2, RequestsReplaced DEF GoalsOK
    <2>4. ASSUME ex'.phase = "ACTIVE", nav'.goal.mid # ex'.mid
          PROVE  StopComes(ex'.calls, 0) \/ (Early(ex') /\ Requesting(ex'.calls))
        <3>1. ex.phase = "ACTIVE" /\ ex.calls[i].goal.mid # ex.mid /\ (Early(ex) => Early(ex'))
            BY <2>1, <2>2, <2>4 DEF SameMission, Early
        <3>2. Early(ex) \/ StopComes(ex.calls, i)
            BY <1>1, <2>1, <3>1 DEF GoalsOK, OwnRequests
        <3>3. i # Len(ex.calls)
            BY <1>1, <2>1, <3>1 DEF GoalsOK, OwnRequests
        <3>4. Len(ex.calls) \in 1 .. Len(ex.calls) /\ i < Len(ex.calls)
            BY <1>1, <3>3
        <3>5. ex.calls[Len(ex.calls)].st = "sent"
            BY <1>1, <2>1, <3>4 DEF QueueOK
        <3>6. ex'.calls[Len(ex'.calls)].st = "sent" /\ Len(ex'.calls) \in 1 .. Len(ex'.calls)
            BY <2>2, <3>3, <3>4, <3>5
        <3>7. Requesting(ex'.calls)
            BY <3>6 DEF Requesting
        <3> QED  BY <2>3, <3>1, <3>2, <3>7
    <2>5. OldGoalEnds(ex', nav')
        BY <2>4 DEF OldGoalEnds
    <2>6. OwnWindow(ex')
        BY <2>2, SameWindow DEF GoalsOK
    <2> QED  BY <2>3, <2>5, <2>6 DEF GoalsOK
<1>6. ASSUME NEW st \in {"ok", "failed"}, NEW id \in Nat, Answer(i, st, id),
             Served(i) \/ ex.calls[i].st = "serving",
             ex.calls[i].st = "sent" /\ nav.active => ex.calls[i].kind = "goal" /\ st = "failed"
      PROVE  GoalsOK(ex', nav)
    <2>1. /\ SameMission(ex, ex') /\ Replaced(ex.calls, ex'.calls, i)
          /\ ex.calls[i].kind = "goal" /\ ex.calls[i].current /\ st = "failed" => Requesting(ex'.calls)
        BY <1>1, <1>6, AnswerReplaces
    <2>2. OwnRequests(ex')
        BY <1>1, <1>2, <1>6, <2>1, RequestsReplaced DEF GoalsOK
    <2>3. ex.calls[i].st # "failed"
        BY <1>6 DEF Served
    <2>4. ex.calls[i].st = "sent" /\ nav.active =>
            ex.calls[i].kind = "goal" /\ (ex.calls[i].current => Requesting(ex'.calls))
        BY <1>6, <2>1
    <2>5. OldGoalEnds(ex', nav)
        BY <1>1, <2>1, <2>3, <2>4, OldGoalReplaced DEF GoalsOK
    <2> QED  BY <2>1, <2>2, <2>5, SameWindow DEF GoalsOK
<1>7. CASE RefuseGoal(i)
    BY <1>6, <1>7 DEF RefuseGoal, outside
<1>8. CASE AnswerGoal(i)
    <2>1. nav'.events \in Nat /\ nav'.active = nav.active /\ nav'.goal = nav.goal /\ nav'.asked = nav.asked
        BY <1>1, <1>8 DEF AnswerGoal, Nav
    <2>2. GoalsOK(ex', nav)
        BY <1>6, <1>8, <2>1 DEF AnswerGoal
    <2> QED  BY <2>1, <2>2 DEF GoalsOK, OldGoalEnds
<1>9. CASE AnswerCancel(i)
    <2>1. /\ \E st \in {"ok", "failed"} : Answer(i, st, 0)
          /\ ex.calls[i].st = "serving" \/ (Served(i) /\ ~nav.active)
          /\ nav' = nav
        BY <1>9 DEF AnswerCancel, outside
    <2> QED  BY <1>6, <2>1
<1> QED  BY <1>3, <1>4, <1>5, <1>7, <1>8, <1>9

LEMMA WorldGoals ==
    ASSUME RouteInv, GoalsOK(ex, nav), World \/ SetManualMode \/ OnMonitorState \/ PublishTelemetry
    PROVE  GoalsOK(ex', nav')
<1>1. nav \in Nav
    BY DEF RouteInv, RouteTyped
<1>2. CASE \/ SetManualMode \/ OnMonitorState \/ PublishTelemetry \/ Move
           \/ \E h \in Verdicts : EvaluatePath(h)
    <2>1. ex' = ex /\ nav'.active = nav.active /\ nav'.goal = nav.goal /\ (nav.asked => nav'.asked)
        BY <1>1, <1>2 DEF SetManualMode, OnMonitorState, PublishTelemetry, Move, EvaluatePath, Nav
    <2> QED  BY <2>1, NavKeeps
<1>3. ASSUME NEW r, NEW f, GoalResult(r, f)
      PROVE  GoalsOK(ex', nav')
    <2>1. ex' = ex /\ ~nav'.active
        BY <1>1, <1>3 DEF GoalResult, Nav
    <2> QED  BY <2>1, NavKeeps
<1> QED  BY <1>2, <1>3 DEF World

LEMMA CallbackGoals ==
    ASSUME RouteInv, RouteTyped', GoalsOK(ex, nav),
           \/ Set \/ PreparationFails \/ Ticks \/ Cancel \/ ClearsAnswer \/ ActionAnswer
           \/ \E a \in Anchors, cut \in Cuts : ActivatePrepared(a, cut)
           \/ \E fresh \in BOOLEAN : OnPose(fresh)
           \/ \E m \in telemetry, cut \in Cuts : OnTelemetry(m, cut)
    PROVE  GoalsOK(ex', nav')
<1>1. RouteTyped /\ ex.calls \in Seq(Call) /\ ex'.calls \in Seq(Call) /\ OwnWindow(ex)
    BY RouteFacts DEF RouteInv, RouteTyped, WellFormed, LooseExecutor, GoalsOK
<1>2. nav' = nav
    <2>1. CASE Ticks
        BY <2>1, TicksOutside DEF outside
    <2>2. CASE Set \/ PreparationFails \/ Cancel \/ ClearsAnswer \/ ActionAnswer
        BY <2>2 DEF Set, PreparationFails, Cancel, ClearsAnswer, ActionAnswer, outside
    <2>3. CASE \/ \E a \in Anchors, cut \in Cuts : ActivatePrepared(a, cut)
               \/ \E fresh \in BOOLEAN : OnPose(fresh)
               \/ \E m \in telemetry, cut \in Cuts : OnTelemetry(m, cut)
        BY <2>3 DEF ActivatePrepared, OnPose, OnTelemetry, outside
    <2> QED  BY <2>1, <2>2, <2>3
<1>3. CASE Cancel
    BY <1>1, <1>2, <1>3, CancelGoals
<1>4. ASSUME NEW a \in Anchors, NEW cut \in Cuts, ActivatePrepared(a, cut)
      PROVE  GoalsOK(ex', nav)
    BY <1>1, <1>4, ActivateGoals
<1>5. CASE Ticks
    <2>1. Steps(ex, ex')
        BY <1>1, <1>5, TickRecoverySteps, TickActionMoves, MovesSteps DEF Ticks
    <2> QED  BY <1>1, <1>2, <2>1, StepsKeep
<1>6. CASE \/ Set \/ PreparationFails \/ ClearsAnswer \/ ActionAnswer
           \/ \E fresh \in BOOLEAN : OnPose(fresh)
    <2>1. Steps(ex, ex')
        BY <1>1, <1>6, QuietMoves, MovesSteps
    <2> QED  BY <1>1, <1>2, <2>1, StepsKeep
<1>7. ASSUME NEW m \in telemetry, NEW cut \in Cuts, OnTelemetry(m, cut)
      PROVE  GoalsOK(ex', nav)
    <2>1. Steps(ex, ex')
        BY <1>1, <1>7, OnTelemetryMoves, MovesSteps
    <2> QED  BY <1>1, <2>1, StepsKeep
<1> QED  BY <1>2, <1>3, <1>4, <1>5, <1>6, <1>7

LEMMA GoalsStep ==
    ASSUME RouteInv, GoalsOK(ex, nav), [Next]_vars, ~Reordered
    PROVE  GoalsOK(ex, nav)'
<1>1. RouteTyped'
    BY RouteTypedStep DEF RouteInv
<1>2. GoalsOK(ex', nav')
    <2>1. CASE UNCHANGED vars
        BY <2>1 DEF vars, outside
    <2>2. CASE Next
        <3>1. CASE Answers
            <4>1. PICK i \in DOMAIN ex.calls : OnGoalRequest(i) \/ CancelEnds(i)
                BY <3>1 DEF Answers
            <4>2. nav' = nav
                BY <4>1 DEF OnGoalRequest, CancelEnds, outside
            <4> QED  BY <1>1, <4>1, <4>2, OnGoalRequestGoals, CancelEndsGoals
        <3>2. CASE Server
            BY <1>1, <3>2, ServerGoals, WorldGoals, CallbackGoals DEF Server
        <3>3. CASE World \/ SetManualMode \/ OnMonitorState
            BY <3>3, WorldGoals
        <3> QED  BY <1>1, <2>2, <3>1, <3>2, <3>3, CallbackGoals DEF Next
    <2> QED  BY <2>1, <2>2
<1> QED  BY <1>2 DEF GoalsOK, OwnWindow, OwnRequests, OldGoalEnds, Early, EarlyPolicy, StopComes, Requesting

LEMMA GoalsInit == Init => GoalsOK(ex, nav)
<1> SUFFICES ASSUME Init PROVE GoalsOK(ex, nav)
    OBVIOUS
<1>1. ex.calls = <<>> /\ ex.phase = "IDLE"
    BY DEF Init
<1> QED  BY <1>1 DEF GoalsOK, OwnWindow, OwnRequests, OldGoalEnds

(* For every route, window, number of missions, of calls and of            *)
(* disturbances, and however long a cancellation takes: while a mission is *)
(* active, Nav2 follows a goal of an earlier one only as long as a call is *)
(* on its way or its end has been asked for, if the command server takes   *)
(* the calls of the two services in the order in which they were sent      *)
(* (_activate_prepared, _send_chunk, _stop_for_recovery).                  *)
THEOREM RouteOldGoalEnds == ~Reordered => (Spec => []OldGoalIsOnItsWayOut)
<1> SUFFICES ASSUME ~Reordered PROVE Spec => []OldGoalIsOnItsWayOut
    OBVIOUS
<1> DEFINE I == RouteInv /\ GoalsOK(ex, nav)
<1>1. Init => I
    BY RouteInit, GoalsInit
<1>2. I /\ [Next]_vars => I'
    BY RouteStep, GoalsStep
<1>3. I => OldGoalIsOnItsWayOut
    <2> SUFFICES ASSUME I, ex.phase = "ACTIVE", nav.active, nav.goal.mid # ex.mid, ~nav.asked
                 PROVE  ex.calls # <<>>
        BY DEF OldGoalIsOnItsWayOut
    <2>1. StopComes(ex.calls, 0) \/ Requesting(ex.calls)
        BY DEF GoalsOK, OldGoalEnds
    <2>2. Len(ex.calls) # 0
        BY <2>1 DEF StopComes, Requesting
    <2> QED  BY <2>2
<1> HIDE DEF I
<1> QED  BY <1>1, <1>2, <1>3, PTL DEF Spec
=============================================================================
