-------------------------- MODULE CheckpointProofs --------------------------
(***************************************************************************)
(* Proofs about RouteExecutor for routes without actions, of any length,   *)
(* any windows and any number of missions, calls, retries and              *)
(* disturbances: the mission passes no checkpoint without credit, a retry  *)
(* sends what has none, and retries are bounded.  Within one mission the   *)
(* robot has been at every checkpoint that is credited.                    *)
(*                                                                         *)
(* The argument is about what can reach the executor between the decision  *)
(* to retry and the goal of the retry: the goal that was stopped has ended, *)
(* and its success, if it was one, has been taken already, because the     *)
(* policy waits for telemetry that is younger than the stop.               *)
(***************************************************************************)
EXTENDS RouteProofs

-----------------------------------------------------------------------------
(* The invariant.                                                          *)

(* Only the last goal request is current, and it is pending; goals have    *)
(* poses.                                                                  *)
Asks(cs, pending) ==
    /\ \A i \in 1 .. Len(cs) : /\ cs[i].goal.s <= cs[i].goal.e
                               /\ cs[i].current => cs[i].kind = "goal" /\ pending
    /\ \A i, j \in 1 .. Len(cs) : cs[i].current /\ cs[j].current => i = j

(* A route without actions, in every phase of the mission.                 *)
Sound(x) ==
    /\ WellFormed(x)
    /\ x.action = "none" /\ x.raised = FALSE
    /\ Asks(x.calls, x.pending)
    /\ x.target <= Length
    /\ x.sends <= MaxAttempts + 1

(* The window begins at the target, what the tracker has seen of it is     *)
(* credited, and its end is not; a retry sends the rest of it.             *)
Window(x) ==
    /\ x.mid > 0 /\ x.chunk.mid = x.mid /\ x.chunk.s = x.target
    /\ x.chunk.s <= x.seen /\ x.seen <= x.chunk.e
    /\ \A k \in x.chunk.s .. x.seen - 1 : k \in x.credited
    /\ \A k \in x.credited : k < x.chunk.e

Rest(x) ==
    x.clears.st # "none" =>
        /\ x.clears.goal.mid = x.mid /\ x.clears.goal.e = x.chunk.e
        /\ x.chunk.s <= x.clears.goal.s
        /\ x.clears.size = x.chunk.e - x.chunk.s + 1
        /\ \A k \in x.chunk.s .. x.clears.goal.s - 1 : k \in x.credited

(* Every goal but the first belongs to an attempt.                         *)
Counted(x) == x.sends <= IF x.clears.st = "none" THEN x.policy.attempt + 1 ELSE x.policy.attempt

Fits(x) == Window(x) /\ Rest(x) /\ Counted(x)

(* Nothing can be gained from a result any more.                           *)
Late(x, r) == r.result = "succeeded" => r.rid <= x.last \/ r.rid <= x.floor

(* Nav2 and the guard stand still, and every success has been taken.       *)
Still(x, n, h, t) == h = "ok" /\ n.active = FALSE /\ Late(x, n) /\ \A m \in t : Late(x, m)

Waiting(p) == p.state = "WAITING_RETRY" \/ (p.state = "WAITING_DATA" /\ p.resume = "WAITING_RETRY")
Recovering(p) == p.state = "RECOVERING" \/ (p.state = "WAITING_DATA" /\ p.resume = "RECOVERING")

(* The request of a retry that Nav2 has not seen.                          *)
Unserved(cs) == \E i \in 1 .. Len(cs) : cs[i].current /\ cs[i].st \in {"sent", "failed"}

(* A goal of which telemetry has told everything.                          *)
Told(n, t) == n.active = FALSE /\ n.told = FALSE /\ t = {}

Retries(x, n, h, t) ==
    /\ x.clears.st # "none" => /\ x.policy.state = "RECOVERING"
                               /\ x.calls = <<>> /\ x.pending = FALSE /\ Still(x, n, h, t)
    /\ Recovering(x.policy) /\ Unserved(x.calls) =>
          x.policy.state = "RECOVERING" /\ Len(x.calls) = 1 /\ Still(x, n, h, t)
    /\ Waiting(x.policy) => x.pending = FALSE /\ (x.heard /\ Told(n, t) => Late(x, n))

MissionOK(x, n, h, t) == Sound(x) /\ (x.phase = "ACTIVE" => Fits(x) /\ Retries(x, n, h, t))

(* The robot is at a pose of the goal only after telemetry has told of it, *)
(* so a success is not published before it is known that it is coming.     *)
NavOK(n, t) ==
    /\ n.goal.s <= n.goal.e
    /\ n.active /\ n.at >= n.goal.s => n.told
    /\ n.told = FALSE /\ n.active = FALSE /\ n.result = "succeeded" =>
          \A m \in t : m.goalActive = FALSE /\ m.result = "succeeded" /\ m.rid = n.rid

CheckInv == RouteTyped /\ MissionOK(ex, nav, health, telemetry) /\ NavOK(nav, telemetry)

-----------------------------------------------------------------------------
(* What the methods do to the mission.                                     *)

(* The mission stays where it is.                                          *)
Keeps(x, y) ==
    /\ y.mid = x.mid /\ y.target = x.target /\ y.chunk = x.chunk /\ y.seen = x.seen
    /\ y.credited = x.credited /\ y.clears = x.clears /\ y.policy = x.policy
    /\ y.sends = x.sends /\ y.raised = x.raised

Knows(x, y) == y.last = x.last /\ y.floor = x.floor

LEMMA AsksAppend ==
    ASSUME NEW cs \in Seq(Call), NEW p, Asks(cs, p), NEW c \in Call, NEW q \in BOOLEAN,
           c.goal.s <= c.goal.e, c.current => c.kind = "goal" /\ q
    PROVE  Asks(Append(NewEpoch(cs), c), q)
<1> DEFINE a == Append(NewEpoch(cs), c)
<1>1. /\ a \in Seq(Call) /\ Len(a) = Len(cs) + 1 /\ a[Len(cs) + 1] = c
      /\ \A j \in 1 .. Len(cs) : a[j].goal = cs[j].goal /\ ~a[j].current
    BY EpochProperties
<1> HIDE DEF a
<1>2. \A j \in 1 .. Len(a) : j = Len(cs) + 1 \/ j \in 1 .. Len(cs)
    BY <1>1
<1>3. Asks(a, q)
    BY <1>1, <1>2 DEF Asks
<1> QED  BY <1>3 DEF a

LEMMA PauseEffect ==
    ASSUME NEW x, x \in LooseExecutor
    PROVE  LET y == Pause(x)
           IN  /\ Keeps(x, y) /\ y.phase # "ACTIVE" /\ y.pending = FALSE /\ y.action = "none"
               /\ y.calls = Append(NewEpoch(x.calls), CancelCall("cancel"))
<1> DEFINE a == Append(NewEpoch(x.calls), CancelCall("cancel"))
           ph == IF x.phase = "ACTIVE" THEN "PAUSED" ELSE x.phase
           y == Pause(x)
<1>1. y = [x EXCEPT !.pending = FALSE, !.near = FALSE, !.action = "none", !.phase = ph, !.calls = a]
    BY DEF Pause, LooseExecutor
<1>2. ph # "ACTIVE"
    OBVIOUS
<1> HIDE DEF a, ph, y
<1>3. /\ y.phase # "ACTIVE" /\ y.pending = FALSE /\ y.action = "none" /\ y.calls = a
    BY <1>1, <1>2 DEF LooseExecutor
<1>4. Keeps(x, y)
    BY <1>1 DEF LooseExecutor, Keeps
<1> QED  BY <1>3, <1>4 DEF a, y

LEMMA SoundPause ==
    ASSUME NEW x, Sound(x)
    PROVE  Sound(Pause(x)) /\ Keeps(x, Pause(x)) /\ Pause(x).phase # "ACTIVE"
<1> DEFINE y == Pause(x)
<1>1. x \in LooseExecutor /\ x.calls \in Seq(Call)
    BY DEF Sound, WellFormed, LooseExecutor
<1>2. /\ Keeps(x, y) /\ y.phase # "ACTIVE" /\ y.pending = FALSE /\ y.action = "none"
      /\ y.calls = Append(NewEpoch(x.calls), CancelCall("cancel"))
    BY <1>1, PauseEffect
<1>3. WellFormed(y)
    BY PauseKeeps DEF Sound
<1>4. CancelCall("cancel") \in Call /\ CancelCall("cancel").current = FALSE
      /\ CancelCall("cancel").goal.s <= CancelCall("cancel").goal.e
    BY CallTypes DEF CancelCall, NoGoal
<1> HIDE DEF y
<1>5. Asks(y.calls, FALSE)
    BY <1>1, <1>2, <1>4, AsksAppend DEF Sound
<1>6. Sound(y)
    BY <1>2, <1>3, <1>5 DEF Sound, Keeps
<1> QED  BY <1>2, <1>6 DEF y

(* The mission is where it was, but for the goal that was sent.            *)
Sent(x, y) ==
    /\ y.phase = x.phase /\ y.mid = x.mid /\ y.target = x.target /\ y.chunk = x.chunk
    /\ y.credited = x.credited /\ y.clears = x.clears /\ y.policy = x.policy
    /\ y.seen = x.chunk.s /\ y.sends = x.sends + 1 /\ y.pending = TRUE /\ y.heard = x.heard
    /\ Knows(x, y)

LEMMA SendEffect ==
    ASSUME NEW x, x \in LooseExecutor
    PROVE  LET y == SendChunk(x)
           IN  /\ Sent(x, y) /\ y.action = x.action /\ y.raised = x.raised
               /\ y.calls = Append(NewEpoch(x.calls),
                     [kind |-> "goal", current |-> TRUE, goal |-> x.chunk, st |-> "sent", id |-> 0])
<1> DEFINE a == Append(NewEpoch(x.calls),
                     [kind |-> "goal", current |-> TRUE, goal |-> x.chunk, st |-> "sent", id |-> 0])
           from == x.chunk.s
           n == x.sends + 1
           y == SendChunk(x)
<1>1. y = [x EXCEPT !.seen = from, !.near = FALSE, !.pending = TRUE, !.sends = n, !.calls = a]
    BY DEF SendChunk
<1> HIDE DEF a, from, n, y
<1>2. y.calls = a /\ y.action = x.action /\ y.raised = x.raised
    BY <1>1 DEF LooseExecutor
<1>3. /\ y.phase = x.phase /\ y.mid = x.mid /\ y.target = x.target /\ y.chunk = x.chunk
      /\ y.credited = x.credited /\ y.clears = x.clears /\ y.policy = x.policy
      /\ y.seen = from /\ y.sends = n /\ y.pending = TRUE /\ y.heard = x.heard
      /\ Knows(x, y)
    BY <1>1 DEF LooseExecutor, Knows
<1> QED  BY <1>2, <1>3 DEF Sent, a, y, from, n

LEMMA SoundSend ==
    ASSUME NEW x, Sound(x), x.sends + 1 <= MaxAttempts + 1
    PROVE  LET y == SendChunk(x)
           IN  /\ Sound(y) /\ Sent(x, y) /\ Len(y.calls) = Len(x.calls) + 1
<1> DEFINE c == [kind |-> "goal", current |-> TRUE, goal |-> x.chunk, st |-> "sent", id |-> 0]
           y == SendChunk(x)
<1>1. x \in LooseExecutor /\ x.calls \in Seq(Call) /\ x.chunk \in Goal /\ x.chunk.s <= x.chunk.e
    BY DEF Sound, WellFormed, LooseExecutor
<1>2. /\ Sent(x, y) /\ y.action = x.action /\ y.raised = x.raised
      /\ y.calls = Append(NewEpoch(x.calls), c)
    BY <1>1, SendEffect
<1>3. WellFormed(y)
    BY SendChunkKeeps DEF Sound
<1>4. c \in Call /\ c.goal.s <= c.goal.e /\ c.kind = "goal"
    BY <1>1 DEF Call
<1> HIDE DEF y, c
<1>5. Asks(y.calls, TRUE) /\ Len(y.calls) = Len(x.calls) + 1
    <2>1. Asks(x.calls, x.pending)
        BY DEF Sound
    <2>2. Asks(Append(NewEpoch(x.calls), c), TRUE)
        BY <1>1, <1>4, <2>1, AsksAppend
    <2>3. Len(Append(NewEpoch(x.calls), c)) = Len(x.calls) + 1
        BY <1>1, <1>4, EpochProperties
    <2> QED  BY <1>2, <2>2, <2>3
<1>6. Sound(y)
    BY <1>2, <1>3, <1>5 DEF Sound, Sent
<1> QED  BY <1>2, <1>5, <1>6 DEF y

(* A method that may leave the window: what it leaves is credited, and what *)
(* it sends begins at the target.                                          *)
Credits(x, y) == \A k \in x.target .. y.target - 1 : k \in y.credited

SendsTarget(x, y) ==
    Len(y.calls) = Len(x.calls) + 1 /\ y.calls[Len(y.calls)].kind = "goal" => y.chunk.s = y.target

(* Where a completed window leads: to a new one, or out of the active phase. *)
Onward(x, y) ==
    /\ Sound(y) /\ y.mid = x.mid /\ y.clears = x.clears /\ Credits(x, y) /\ SendsTarget(x, y)
    /\ y.phase = "ACTIVE" => Fits(y) /\ y.policy = x.policy

LEMMA SendFits ==
    ASSUME NEW x, Sound(x), x.mid > 0, x.chunk.mid = x.mid, x.chunk.s = x.target,
           x.clears.st = "none", x.sends <= x.policy.attempt,
           \A k \in x.credited : k < x.chunk.e
    PROVE  Sound(SendChunk(x)) /\ Sent(x, SendChunk(x)) /\ Fits(SendChunk(x))
           /\ Len(SendChunk(x).calls) = Len(x.calls) + 1
<1> DEFINE y == SendChunk(x)
<1>1. /\ x.sends \in Nat /\ x.policy.attempt \in Nat /\ x.policy.attempt <= MaxAttempts
      /\ x.chunk.s \in Nat /\ x.chunk.e \in Nat /\ x.chunk.s <= x.chunk.e
    <2>1. x.policy \in Policy /\ x.chunk \in Goal /\ x.sends \in Nat /\ x.chunk.s <= x.chunk.e
        BY DEF Sound, WellFormed, LooseExecutor
    <2>2. /\ x.chunk.s \in 0 .. Length - 1 /\ x.chunk.e \in 0 .. Length - 1
          /\ x.policy.attempt \in 0 .. MaxAttempts
        BY <2>1 DEF Policy, Goal, Index
    <2>3. Length \in Nat /\ MaxAttempts \in Nat
        BY RecoveryAssumption, RouteAssumption
    <2> HIDE DEF y
    <2> QED  BY <2>1, <2>2, <2>3
<1>2. Sound(y) /\ Sent(x, y) /\ Len(y.calls) = Len(x.calls) + 1
    BY <1>1, RecoveryAssumption, SoundSend
<1> HIDE DEF y
<1>3. Window(y)
    BY <1>1, <1>2 DEF Sent, Window
<1>4. Rest(y) /\ Counted(y)
    BY <1>1, <1>2 DEF Sent, Rest, Counted
<1> QED  BY <1>2, <1>3, <1>4 DEF Fits, y

LEMMA ChunkOnly ==
    ASSUME NEW x, Sound(x), NEW g \in Goal, g.s <= g.e
    PROVE  LET y == [x EXCEPT !.chunk = g]
           IN  /\ Sound(y) /\ y.chunk = g /\ y.calls = x.calls /\ y.phase = x.phase
               /\ y.mid = x.mid /\ y.target = x.target /\ y.credited = x.credited
               /\ y.clears = x.clears /\ y.policy = x.policy /\ y.sends = x.sends
<1> DEFINE y == [x EXCEPT !.chunk = g]
<1>1. x \in LooseExecutor /\ WellFormed(x)
    BY DEF Sound, WellFormed
<1>2. WellFormed(y)
    BY <1>1, ChunkKept
<1>3. /\ y.chunk = g /\ y.calls = x.calls /\ y.phase = x.phase
      /\ y.mid = x.mid /\ y.target = x.target /\ y.credited = x.credited
      /\ y.clears = x.clears /\ y.policy = x.policy /\ y.sends = x.sends
      /\ y.action = x.action /\ y.raised = x.raised /\ y.pending = x.pending
    BY <1>1 DEF LooseExecutor
<1> HIDE DEF y
<1>4. Sound(y)
    BY <1>2, <1>3 DEF Sound
<1> QED  BY <1>3, <1>4 DEF y

LEMMA DispatchOnward ==
    ASSUME NEW x, Sound(x), x.phase = "ACTIVE", x.mid > 0, x.clears.st = "none", x.sends = 0,
           \A k \in x.credited : k < x.target, NEW cut \in Nat
    PROVE  LET y == Dispatch(x, cut)
           IN  Onward(x, y) /\ y.target = x.target /\ y.credited = x.credited
<1> DEFINE y == Dispatch(x, cut)
<1>1. /\ x \in LooseExecutor /\ WellFormed(x) /\ x.target \in Nat /\ x.target <= Length
      /\ Length \in Nat /\ x.policy.attempt \in Nat /\ x.calls \in Seq(Call)
    <2>1. x \in LooseExecutor /\ WellFormed(x) /\ x.target \in Nat /\ x.policy \in Policy
          /\ x.calls \in Seq(Call)
        BY DEF Sound, WellFormed, LooseExecutor
    <2> QED  BY <2>1, RouteAssumption DEF Policy, Sound
<1>2. CASE x.target >= Length
    <2>1. y = [x EXCEPT !.phase = "COMPLETED", !.chunk = NoGoal]
        BY <1>2 DEF Dispatch
    <2>2. WellFormed(y)
        BY <1>1, DispatchKeeps
    <2> HIDE DEF y
    <2>3. /\ y.phase = "COMPLETED" /\ y.mid = x.mid /\ y.target = x.target /\ y.credited = x.credited
          /\ y.calls = x.calls /\ y.sends = x.sends /\ y.action = x.action
          /\ y.raised = x.raised /\ y.pending = x.pending /\ y.clears = x.clears
        BY <1>1, <2>1 DEF LooseExecutor
    <2>4. Sound(y)
        BY <2>2, <2>3 DEF Sound
    <2>5. Credits(x, y) /\ SendsTarget(x, y)
        <3>1. Len(x.calls) \in Nat
            BY <1>1
        <3> QED  BY <1>1, <2>3, <3>1 DEF Credits, SendsTarget
    <2>6. y.phase # "ACTIVE"
        BY <2>3
    <2>7. Onward(x, y) /\ y.target = x.target /\ y.credited = x.credited
        BY <2>3, <2>4, <2>5, <2>6 DEF Onward
    <2> QED  BY <2>7 DEF y
<1>3. CASE x.target < Length
    <2>1. PICK g \in Goal : /\ g.s <= g.e /\ g.mid = x.mid /\ g.s = x.target
                            /\ \/ y = Pause([x EXCEPT !.chunk = g])
                               \/ y = SendChunk([x EXCEPT !.chunk = g])
        BY <1>1, <1>3, DispatchWindow
    <2> DEFINE z == [x EXCEPT !.chunk = g]
    <2>2. /\ Sound(z) /\ z.chunk = g /\ z.calls = x.calls /\ z.phase = x.phase
          /\ z.mid = x.mid /\ z.target = x.target /\ z.credited = x.credited
          /\ z.clears = x.clears /\ z.policy = x.policy /\ z.sends = x.sends
        BY <2>1, ChunkOnly
    <2>3. y = Pause(z) \/ y = SendChunk(z)
        BY <2>1
    <2> HIDE DEF z, y
    <2>4. CASE y = Pause(z)
        <3>1. Sound(y) /\ Keeps(z, y) /\ y.phase # "ACTIVE"
            BY <2>2, <2>4, SoundPause
        <3>2. Credits(x, y)
            BY <1>1, <2>2, <3>1 DEF Keeps, Credits
        <3>3. SendsTarget(x, y)
            BY <2>1, <2>2, <3>1 DEF Keeps, SendsTarget
        <3> QED  BY <2>2, <3>1, <3>2, <3>3 DEF Onward, Keeps, y
    <2>5. CASE y = SendChunk(z)
        <3>1. \A k \in z.credited : k < z.chunk.e
            <4>1. x.credited \subseteq Index /\ g.e \in Index /\ g.s \in Index
                BY <1>1 DEF LooseExecutor, Goal
            <4> QED  BY <1>1, <2>1, <2>2, <4>1 DEF Index
        <3>2. Sound(y) /\ Sent(z, y) /\ Fits(y) /\ Len(y.calls) = Len(z.calls) + 1
            BY <1>1, <2>1, <2>2, <2>5, <3>1, SendFits
        <3>3. Credits(x, y) /\ SendsTarget(x, y)
            BY <1>1, <2>1, <2>2, <3>2 DEF Sent, Credits, SendsTarget
        <3> QED  BY <2>2, <3>2, <3>3 DEF Onward, Sent, y
    <2> QED  BY <2>3, <2>4, <2>5
<1> QED  BY <1>1, <1>2, <1>3

(* The end of the window is reached: it is credited and the next window is *)
(* dispatched, unless the tracker has not seen all of this one.            *)
LEMMA CompleteOnward ==
    ASSUME HasAction = {}, NEW x, Sound(x), x.phase = "ACTIVE", Window(x), x.clears.st = "none",
           NEW cut \in Nat
    PROVE  Onward(x, CompleteChunk(x, cut))
<1> DEFINE last == x.chunk.e
           c == x.credited \union {last}
           t == last + 1
           y == [x EXCEPT !.credited = c]
           z == [y EXCEPT !.target = t, !.sends = 0]
<1>1. /\ x \in LooseExecutor /\ WellFormed(x) /\ x.target \in Nat /\ x.calls \in Seq(Call)
      /\ Length \in Nat /\ x.chunk.s \in Nat /\ last \in Index /\ last \in Nat /\ last < Length
      /\ x.credited \subseteq Index /\ x.seen \in Nat /\ last \notin HasAction
      /\ x.policy.attempt \in Nat
    <2>1. x \in LooseExecutor /\ WellFormed(x) /\ x.target \in Nat /\ x.calls \in Seq(Call)
          /\ x.chunk \in Goal /\ x.credited \subseteq Index /\ x.policy \in Policy
          /\ x.seen \in 0 .. Length
        BY DEF Sound, WellFormed, LooseExecutor
    <2>2. x.chunk.s \in Index /\ last \in Index /\ x.policy.attempt \in 0 .. MaxAttempts
        BY <2>1 DEF Goal, Policy
    <2>3. x.chunk.s \in 0 .. Length - 1 /\ last \in 0 .. Length - 1
        BY <2>2 DEF Index
    <2>4. Length \in Nat /\ MaxAttempts \in Nat
        BY RecoveryAssumption, RouteAssumption
    <2>5. x.chunk.s \in Nat /\ last \in Nat /\ last < Length /\ x.seen \in Nat
          /\ x.policy.attempt \in Nat
        <3> HIDE DEF last
        <3> QED  BY <2>1, <2>2, <2>3, <2>4
    <2> QED  BY <2>1, <2>2, <2>4, <2>5
<1>2. CASE x.seen < last
    <2>1. CompleteChunk(x, cut) = Pause(x)
        BY <1>2 DEF CompleteChunk
    <2> DEFINE p == Pause(x)
    <2>2. Sound(p) /\ Keeps(x, p) /\ p.phase # "ACTIVE"
        BY SoundPause
    <2> HIDE DEF p
    <2>3. Credits(x, p)
        BY <1>1, <2>2 DEF Keeps, Credits
    <2>4. SendsTarget(x, p)
        BY <2>2 DEF Keeps, SendsTarget, Window
    <2> QED  BY <2>1, <2>2, <2>3, <2>4 DEF Onward, Keeps, p
<1>3. CASE ~(x.seen < last)
    <2>1. CompleteChunk(x, cut) = Advance(y, cut)
        BY <1>1, <1>3 DEF CompleteChunk
    <2>2. c \subseteq Index /\ t \in Nat /\ t <= Length /\ \A k \in c : k < t
        BY <1>1 DEF Window, Index
    <2> HIDE DEF c
    <2>3. /\ y \in LooseExecutor /\ y.chunk = x.chunk /\ y.clears = x.clears /\ y.calls = x.calls
          /\ y.mid = x.mid /\ y.phase = x.phase /\ y.policy = x.policy /\ y.raised = x.raised
          /\ y.credited = c /\ y.action = x.action /\ y.pending = x.pending
        BY <1>1, <2>2 DEF LooseExecutor
    <2>4. y.chunk # NoGoal
        BY <2>3 DEF NoGoal, Window
    <2>5. Advance(y, cut) = Dispatch(z, cut)
        BY <2>3, <2>4 DEF Advance
    <2> HIDE DEF y, t
    <2>6. /\ z \in LooseExecutor /\ z.chunk = x.chunk /\ z.clears = x.clears /\ z.calls = x.calls
          /\ z.mid = x.mid /\ z.phase = x.phase /\ z.policy = x.policy /\ z.raised = x.raised
          /\ z.credited = c /\ z.action = x.action /\ z.pending = x.pending
          /\ z.target = t /\ z.sends = 0
        BY <2>2, <2>3 DEF LooseExecutor
    <2> HIDE DEF z
    <2>7. WellFormed(z)
        BY <1>1, <2>6, FieldsKept
    <2>8. Sound(z)
        BY <2>2, <2>6, <2>7, RecoveryAssumption DEF Sound
    <2>9. Onward(z, Dispatch(z, cut)) /\ Dispatch(z, cut).target = t /\ Dispatch(z, cut).credited = c
        BY <2>2, <2>6, <2>8, DispatchOnward DEF Window
    <2>10. \A k \in x.target .. t - 1 : k \in c
        BY <1>1, <1>3 DEF Window, t, c
    <2> DEFINE d == Dispatch(z, cut)
    <2> HIDE DEF d
    <2>11. Credits(x, d) /\ SendsTarget(x, d)
        BY <2>6, <2>9, <2>10 DEF Credits, SendsTarget, Onward, d
    <2> QED  BY <2>1, <2>5, <2>6, <2>9, <2>11 DEF Onward, d
<1> QED  BY <1>2, <1>3

-----------------------------------------------------------------------------
(* What a step may do to the mission.                                      *)

(* What the step leaves is credited, what it sends begins at the target,   *)
(* and the suffix that it wants to send again with something uncredited.   *)
Passes(x, y) ==
    /\ Sound(y)
    /\ y.mid = x.mid => Credits(x, y)
    /\ SendsTarget(x, y)
    /\ x.clears.st = "none" /\ y.clears.st = "sent" => y.clears.goal.s \notin y.credited
    /\ y.phase = "ACTIVE" => Fits(y)

LEMMA SoundFacts ==
    ASSUME NEW x, Sound(x)
    PROVE  /\ WellFormed(x) /\ x \in LooseExecutor /\ x.target \in Nat /\ x.mid \in Nat
           /\ x.calls \in Seq(Call) /\ Len(x.calls) \in Nat /\ x.policy \in Policy
           /\ x.policy.attempt \in Nat /\ x.sends \in Nat /\ x.last \in Int /\ x.floor \in Int
           /\ x.chunk \in Goal /\ x.chunk.s \in Nat /\ x.chunk.e \in Nat /\ x.chunk.s <= x.chunk.e
           /\ x.credited \subseteq Index /\ Index \subseteq Nat
<1>1. /\ WellFormed(x) /\ x \in LooseExecutor /\ x.target \in Nat /\ x.mid \in 0 .. MaxMissions
      /\ x.calls \in Seq(Call) /\ x.policy \in Policy /\ x.sends \in Nat
      /\ x.last \in Int /\ x.floor \in Int /\ x.chunk \in Goal /\ x.credited \subseteq Index
      /\ x.chunk.s <= x.chunk.e
    BY DEF Sound, WellFormed, LooseExecutor
<1>2. Index \subseteq Nat /\ x.chunk.s \in Index /\ x.chunk.e \in Index
    <2>1. x.chunk.s \in Index /\ x.chunk.e \in Index
        BY <1>1 DEF Goal
    <2>2. Index \subseteq Nat
        BY RouteAssumption DEF Index
    <2> QED  BY <2>1, <2>2
<1>3. x.policy.attempt \in Nat
    BY <1>1, RecoveryAssumption DEF Policy
<1>4. x.mid \in Nat /\ Len(x.calls) \in Nat
    BY <1>1, RouteAssumption
<1> QED  BY <1>1, <1>2, <1>3, <1>4

(* A step that leaves the mission where it is.                             *)
LEMMA KeepsPasses ==
    ASSUME NEW x, Sound(x), NEW y, Sound(y), Keeps(x, y), x.phase = "ACTIVE" => Fits(x),
           y.phase = "ACTIVE" => x.phase = "ACTIVE",
           Len(y.calls) <= Len(x.calls) \/ x.phase = "ACTIVE"
    PROVE  Passes(x, y)
<1>1. x.target \in Nat /\ Len(x.calls) \in Nat /\ Len(y.calls) \in Nat
    BY SoundFacts
<1>2. Credits(x, y)
    BY <1>1 DEF Credits, Keeps
<1>3. SendsTarget(x, y)
    <2>1. CASE Len(y.calls) <= Len(x.calls)
        BY <1>1, <2>1 DEF SendsTarget
    <2>2. CASE x.phase = "ACTIVE"
        BY <2>2 DEF SendsTarget, Keeps, Fits, Window
    <2> QED  BY <2>1, <2>2
<1>4. y.phase = "ACTIVE" => Fits(y)
    BY DEF Fits, Window, Rest, Counted, Keeps
<1>5. y.clears = x.clears
    BY DEF Keeps
<1> QED  BY <1>2, <1>3, <1>4, <1>5 DEF Passes

LEMMA PausePasses ==
    ASSUME NEW x, x.phase = "ACTIVE", Sound(x), Fits(x), NEW z, Sound(z), Keeps(x, z)
    PROVE  Passes(x, Pause(z)) /\ Pause(z).phase # "ACTIVE"
<1> DEFINE y == Pause(z)
<1>1. Sound(y) /\ Keeps(z, y) /\ y.phase # "ACTIVE"
    BY SoundPause
<1> HIDE DEF y
<1>2. Keeps(x, y)
    BY <1>1 DEF Keeps
<1>3. Passes(x, y)
    BY <1>1, <1>2, KeepsPasses
<1> QED  BY <1>1, <1>3 DEF y

LEMMA OnwardPasses ==
    ASSUME NEW x, NEW z, NEW y, Onward(z, y), z.target = x.target, z.calls = x.calls,
           z.clears.st = "none"
    PROVE  Passes(x, y)
<1>1. y.clears.st = "none"
    BY DEF Onward
<1>2. Credits(x, y) /\ SendsTarget(x, y)
    BY DEF Onward, Credits, SendsTarget
<1> QED  BY <1>1, <1>2 DEF Onward, Passes

(* Nothing is being retried.                                               *)
LEMMA NoRetry ==
    ASSUME NEW x, x.clears.st = "none", x.policy.state \in {"CLEAR", "PENDING", "NEEDS_OPERATOR"},
           NEW n, NEW h, NEW t
    PROVE  Retries(x, n, h, t)
BY DEF Retries, Recovering, Waiting

-----------------------------------------------------------------------------
(* The policy.                                                             *)

LEMMA JudgeFacts ==
    ASSUME NEW p \in Policy, p.state # "WAITING_DATA", NEW blocked \in BOOLEAN, NEW due \in BOOLEAN
    PROVE  LET d == Judge(p, blocked, due)
           IN  /\ d.action \in {"NONE", "BEGIN_RETRY", "CANCEL_AND_BRAKE"}
               /\ d.action = "BEGIN_RETRY" =>
                    /\ p.state = "WAITING_RETRY" /\ due /\ d.policy.state = "RECOVERING"
                    /\ d.policy.attempt = p.attempt + 1
               /\ d.action = "CANCEL_AND_BRAKE" =>
                    /\ p.state = "PENDING" /\ d.policy.attempt = p.attempt
                    /\ d.policy.state \in {"WAITING_RETRY", "NEEDS_OPERATOR"}
               /\ d.action = "NONE" =>
                    /\ d.policy.attempt = p.attempt
                    /\ d.policy.state = p.state \/ d.policy.state \in {"CLEAR", "PENDING", "NEEDS_OPERATOR"}
               /\ p.state = "RECOVERING" => d.policy = p /\ d.action = "NONE"
<1>1. p.state \in RecoveryState /\ p.attempt \in Nat /\ MaxAttempts \in Nat
    BY RecoveryAssumption DEF Policy
<1> DEFINE r == [p EXCEPT !.attempt = @ + 1]
           d == Judge(p, blocked, due)
<1>2. \A st \in RecoveryState : \A a :
        /\ Decide(p, st, a).action = a /\ Decide(p, st, a).policy.state = st
        /\ Decide(p, st, a).policy.attempt = p.attempt
        /\ Decide(r, st, a).action = a /\ Decide(r, st, a).policy.state = st
        /\ Decide(r, st, a).policy.attempt = p.attempt + 1
    BY DEF Decide, Policy
<1>3. {"CLEAR", "PENDING", "WAITING_DATA", "WAITING_RETRY", "RECOVERING", "NEEDS_OPERATOR"}
        = RecoveryState
    BY DEF RecoveryState
<1>4. CASE p.state = "RECOVERING"
    <2>1. d = Decide(p, p.state, "NONE")
        BY <1>4 DEF Judge
    <2>2. d.policy = p /\ d.action = "NONE"
        BY <2>1 DEF Decide, Policy
    <2> QED  BY <1>4, <2>2
<1>5. CASE p.state = "WAITING_RETRY"
    <2>1. \/ d = Decide(p, "NEEDS_OPERATOR", "NONE")
          \/ d = Decide(r, "RECOVERING", "BEGIN_RETRY") /\ due
          \/ d = Decide(p, p.state, "NONE")
        BY <1>5 DEF Judge
    <2> HIDE DEF d, r
    <2> QED  BY <1>1, <1>2, <1>3, <1>5, <2>1 DEF d
<1>6. CASE p.state = "PENDING"
    <2>1. \/ d = Decide(p, "NEEDS_OPERATOR", "CANCEL_AND_BRAKE")
          \/ d = Decide(p, "WAITING_RETRY", "CANCEL_AND_BRAKE")
          \/ d = Decide(p, "CLEAR", "NONE")
          \/ d = Decide(p, p.state, "NONE")
        BY <1>6 DEF Judge
    <2> HIDE DEF d, r
    <2> QED  BY <1>1, <1>2, <1>3, <1>6, <2>1 DEF d
<1>7. CASE p.state = "CLEAR"
    <2>1. \/ d = Decide(p, "PENDING", "NONE") \/ d = Decide(p, "CLEAR", "NONE")
        BY <1>7 DEF Judge
    <2> HIDE DEF d, r
    <2> QED  BY <1>1, <1>2, <1>3, <1>7, <2>1 DEF d
<1>8. CASE p.state = "NEEDS_OPERATOR"
    <2>1. d = Decide(p, p.state, "NONE")
        BY <1>8 DEF Judge
    <2> HIDE DEF d, r
    <2> QED  BY <1>1, <1>2, <1>3, <1>8, <2>1 DEF d
<1> QED  BY <1>1, <1>4, <1>5, <1>6, <1>7, <1>8 DEF RecoveryState

LEMMA ObserveFacts ==
    ASSUME NEW p \in Policy, NEW h \in Health, NEW blocked \in BOOLEAN, NEW due \in BOOLEAN
    PROVE  LET d == Observe(p, h, blocked, due)
           IN  /\ d.action = "BEGIN_RETRY" =>
                    /\ Waiting(p) /\ h = "ok" /\ due /\ d.policy.state = "RECOVERING"
                    /\ d.policy.attempt = p.attempt + 1
               /\ d.action = "CANCEL_AND_BRAKE" =>
                    /\ d.policy.attempt = p.attempt
                    /\ d.policy.state \in {"WAITING_RETRY", "NEEDS_OPERATOR"}
                    /\ d.policy.state = "WAITING_RETRY" => p.state # "WAITING_RETRY"
               /\ d.action \notin {"BEGIN_RETRY", "CANCEL_AND_BRAKE"} =>
                    /\ d.policy.attempt = p.attempt
                    /\ Waiting(d.policy) => Waiting(p)
                    /\ Recovering(d.policy) => Recovering(p)
               /\ p.state = "RECOVERING" /\ h = "ok" => d.policy = p /\ d.action = "NONE"
<1> DEFINE q == [p EXCEPT !.state = IF p.state = "WAITING_DATA" THEN p.resume ELSE @]
           d == Observe(p, h, blocked, due)
<1>1. p.state \in RecoveryState /\ p.resume \in RecoveryState
    BY DEF Policy
<1>2. /\ q \in Policy /\ q.attempt = p.attempt /\ q.resume = p.resume
      /\ q.state = IF p.state = "WAITING_DATA" THEN p.resume ELSE p.state
    BY DEF Policy
<1>3. p.state # "WAITING_DATA" => q = p
    BY DEF Policy
<1>4. CASE p.state = "NEEDS_OPERATOR"
    <2>1. d.action = "NONE" /\ d.policy.state = "NEEDS_OPERATOR" /\ d.policy.attempt = p.attempt
        BY <1>4 DEF Observe, Decide, Policy
    <2> HIDE DEF d
    <2> QED  BY <1>4, <2>1 DEF Waiting, Recovering, d
<1>5. CASE p.state # "NEEDS_OPERATOR" /\ h # "ok"
    <2>1. d = Hold(p, h)
        BY <1>5 DEF Observe
    <2>2. CASE h = "maneuver_operator"
        <3>1. d.action = "CANCEL_AND_BRAKE" /\ d.policy.state = "NEEDS_OPERATOR"
              /\ d.policy.attempt = p.attempt
            BY <2>1, <2>2 DEF Hold, Decide, Policy
        <3> HIDE DEF d
        <3> QED  BY <1>5, <3>1 DEF d
    <2>3. CASE h = "maneuver"
        <3>1. d.action = "NONE" /\ d.policy.state = "WAITING_DATA" /\ d.policy.resume = "CLEAR"
              /\ d.policy.attempt = p.attempt
            <4> DEFINE r == [p EXCEPT !.resume = "CLEAR"]
            <4>1. r \in Policy /\ r.resume = "CLEAR" /\ r.attempt = p.attempt
                BY DEF Policy, RecoveryState
            <4>2. d = Decide(r, "WAITING_DATA", "NONE")
                BY <2>1, <2>3 DEF Hold
            <4> HIDE DEF r, d
            <4> QED  BY <4>1, <4>2 DEF Decide, Policy
        <3> HIDE DEF d
        <3> QED  BY <1>5, <3>1 DEF Waiting, Recovering, d
    <2>4. CASE h \in {"reset", "stale"}
        <3>1. d.action = "NONE" /\ d.policy.state = "WAITING_DATA" /\ d.policy.attempt = p.attempt
              /\ d.policy.resume = IF p.state = "WAITING_DATA" THEN p.resume ELSE p.state
            BY <2>1, <2>4 DEF Hold, Decide, Policy
        <3> HIDE DEF d
        <3> QED  BY <1>5, <3>1 DEF Waiting, Recovering, d
    <2> QED  BY <1>5, <2>2, <2>3, <2>4 DEF Health
<1>6. CASE p.state = "WAITING_DATA" /\ p.resume = "CLEAR" /\ h = "ok"
    <2>1. d.action = "RESUME" /\ d.policy.state = "CLEAR" /\ d.policy.attempt = p.attempt
        BY <1>6 DEF Observe, Decide, Policy
    <2> HIDE DEF d
    <2> QED  BY <1>6, <2>1 DEF Waiting, Recovering, d
<1>7. CASE p.state # "NEEDS_OPERATOR" /\ h = "ok" /\ ~(p.state = "WAITING_DATA" /\ p.resume = "CLEAR")
    <2>1. d = Judge(q, blocked, due)
        BY <1>7 DEF Observe
    <2>2. CASE q.state = "WAITING_DATA"
        <3>1. d.action = "NONE" /\ d.policy.state = "WAITING_DATA" /\ d.policy.attempt = p.attempt
              /\ d.policy.resume = p.resume
            <4> HIDE DEF q
            <4> QED  BY <1>2, <2>1, <2>2 DEF Judge, Decide, Policy
        <3>2. p.state = "WAITING_DATA"
            BY <1>2, <2>2
        <3> HIDE DEF d
        <3> QED  BY <3>1, <3>2 DEF Waiting, Recovering, d
    <2>3. CASE q.state # "WAITING_DATA"
        <3> HIDE DEF d, q
        <3>1. /\ d.action \in {"NONE", "BEGIN_RETRY", "CANCEL_AND_BRAKE"}
              /\ d.action = "BEGIN_RETRY" =>
                    /\ q.state = "WAITING_RETRY" /\ due /\ d.policy.state = "RECOVERING"
                    /\ d.policy.attempt = q.attempt + 1
              /\ d.action = "CANCEL_AND_BRAKE" =>
                    /\ q.state = "PENDING" /\ d.policy.attempt = q.attempt
                    /\ d.policy.state \in {"WAITING_RETRY", "NEEDS_OPERATOR"}
              /\ d.action = "NONE" =>
                    /\ d.policy.attempt = q.attempt
                    /\ d.policy.state = q.state \/ d.policy.state \in {"CLEAR", "PENDING", "NEEDS_OPERATOR"}
              /\ q.state = "RECOVERING" => d.policy = q /\ d.action = "NONE"
            BY <1>2, <2>1, <2>3, JudgeFacts
        <3> QED  BY <1>2, <1>3, <1>7, <2>3, <3>1 DEF Waiting, Recovering, d
    <2> QED  BY <2>2, <2>3
<1> QED  BY <1>4, <1>5, <1>6, <1>7

(* finish_retry, for a policy that is RECOVERING.                          *)
LEMMA FinishEffect ==
    ASSUME NEW x, Sound(x), x.policy.state = "RECOVERING", NEW accepted \in BOOLEAN
    PROVE  LET y == FinishRecovery(x, accepted)
           IN  /\ Sound(y) /\ y.phase = x.phase /\ y.mid = x.mid /\ y.target = x.target
               /\ y.chunk = x.chunk /\ y.seen = x.seen /\ y.credited = x.credited
               /\ y.sends = x.sends /\ y.pending = x.pending /\ y.calls = x.calls
               /\ y.clears.st = "none" /\ Knows(x, y) /\ y.policy.attempt = x.policy.attempt
               /\ accepted => y.policy.state = "CLEAR"
               /\ ~accepted => y.policy.state \in {"WAITING_RETRY", "NEEDS_OPERATOR"}
<1> DEFINE p == FinishRetry(x.policy, accepted)
           f == IF accepted THEN "" ELSE x.failure
           c == x.collision /\ ~accepted
           y == FinishRecovery(x, accepted)
<1>1. x \in LooseExecutor /\ x.policy \in Policy
    BY SoundFacts
<1>2. WellFormed(y)
    BY SoundFacts, FinishRecoveryKeeps
<1>3. /\ p.attempt = x.policy.attempt
      /\ accepted => p.state = "CLEAR"
      /\ ~accepted => p.state \in {"WAITING_RETRY", "NEEDS_OPERATOR"}
    BY <1>1 DEF FinishRetry, Policy
<1>4. y = [x EXCEPT !.clears = NoClears, !.policy = p, !.failure = f, !.collision = c]
    BY DEF FinishRecovery
<1>5. NoClears.st = "none"
    BY DEF NoClears
<1> HIDE DEF p, f, c, y
<1>6. /\ y.phase = x.phase /\ y.mid = x.mid /\ y.target = x.target
      /\ y.chunk = x.chunk /\ y.seen = x.seen /\ y.credited = x.credited
      /\ y.sends = x.sends /\ y.pending = x.pending /\ y.calls = x.calls
      /\ y.clears = NoClears /\ y.last = x.last /\ y.floor = x.floor /\ y.policy = p
      /\ y.action = x.action /\ y.raised = x.raised
    BY <1>1, <1>4 DEF LooseExecutor
<1>7. Sound(y)
    BY <1>2, <1>6 DEF Sound
<1> QED  BY <1>3, <1>5, <1>6, <1>7 DEF Knows, y

LEMMA StandsPasses ==
    ASSUME NEW x, Sound(x), NEW y, Sound(y), y.target = x.target, Len(y.calls) <= Len(x.calls),
           y.clears.st # "sent" \/ x.clears.st # "none", y.phase = "ACTIVE" => Fits(y)
    PROVE  Passes(x, y)
<1>1. x.target \in Nat /\ Len(x.calls) \in Nat /\ Len(y.calls) \in Nat
    BY SoundFacts
<1> QED  BY <1>1 DEF Passes, Credits, SendsTarget

(* A retry that could not be begun, or was not accepted.                   *)
LEMMA RefusedRetry ==
    ASSUME NEW x, Sound(x), Window(x), x.policy.state = "RECOVERING", x.pending = FALSE,
           x.sends <= x.policy.attempt + 1, NEW n, Late(x, n), NEW h, NEW t
    PROVE  LET y == FinishRecovery(x, FALSE)
           IN  Sound(y) /\ y.target = x.target /\ y.calls = x.calls /\ y.clears.st = "none"
               /\ Fits(y) /\ Retries(y, n, h, t)
<1> DEFINE y == FinishRecovery(x, FALSE)
<1>1. /\ Sound(y) /\ y.phase = x.phase /\ y.mid = x.mid /\ y.target = x.target
      /\ y.chunk = x.chunk /\ y.seen = x.seen /\ y.credited = x.credited
      /\ y.sends = x.sends /\ y.pending = x.pending /\ y.calls = x.calls
      /\ y.clears.st = "none" /\ Knows(x, y) /\ y.policy.attempt = x.policy.attempt
      /\ y.policy.state \in {"WAITING_RETRY", "NEEDS_OPERATOR"}
    BY FinishEffect
<1> HIDE DEF y
<1>2. Fits(y)
    BY <1>1 DEF Fits, Window, Rest, Counted
<1>3. Retries(y, n, h, t)
    BY <1>1 DEF Retries, Recovering, Late, Knows
<1> QED  BY <1>1, <1>2, <1>3 DEF y

(* The costmaps have been cleared: the rest of the window is sent.         *)
LEMMA ClearsSend ==
    ASSUME NEW x, Sound(x), Fits(x), x.phase = "ACTIVE", x.clears.st = "done",
           NEW expired \in BOOLEAN
    PROVE  LET y == CheckRecoveryClears(x, expired)
           IN  /\ Passes(x, y) /\ Fits(y) /\ Knows(x, y) /\ y.policy = x.policy
               /\ y.clears.st = "none" /\ Len(y.calls) = Len(x.calls) + 1
<1> DEFINE job == x.clears
           cut == job.size - (job.goal.e - job.goal.s + 1)
           t == x.target + cut
           z == [x EXCEPT !.clears = NoClears, !.chunk = job.goal, !.target = t]
           y == CheckRecoveryClears(x, expired)
<1>1. /\ WellFormed(x) /\ x \in LooseExecutor /\ x.target \in Nat /\ x.sends \in Nat
      /\ x.policy.attempt \in Nat /\ x.chunk.s \in Nat /\ x.chunk.e \in Nat
    BY SoundFacts
<1>2. /\ job.goal \in Goal /\ job.goal.s \in Nat /\ job.goal.e \in Nat /\ job.goal.e < Length
      /\ Length \in Nat
    <2>1. job.goal \in Goal
        BY <1>1 DEF LooseExecutor
    <2>2. job.goal.s \in 0 .. Length - 1 /\ job.goal.e \in 0 .. Length - 1 /\ Length \in Nat
        BY <2>1, RouteAssumption DEF Goal, Index
    <2> HIDE DEF job
    <2> QED  BY <2>1, <2>2
<1>3. /\ job.goal.mid = x.mid /\ job.goal.e = x.chunk.e /\ x.chunk.s <= job.goal.s
      /\ job.size = x.chunk.e - x.chunk.s + 1
      /\ \A k \in x.chunk.s .. job.goal.s - 1 : k \in x.credited
      /\ x.chunk.s = x.target /\ x.mid > 0 /\ x.sends <= x.policy.attempt
      /\ \A k \in x.credited : k < x.chunk.e
    BY DEF Fits, Window, Rest, Counted
<1>4. y = SendChunk(z) /\ WellFormed(z) /\ z.target = t
    BY <1>1, ClearsDone
<1>5. t = job.goal.s /\ t \in Nat /\ job.goal.s <= job.goal.e
    <2>1. job.goal.s <= job.goal.e
        BY <1>1 DEF WellFormed
    <2> HIDE DEF job
    <2> QED  BY <1>1, <1>2, <1>3, <2>1
<1> HIDE DEF t
<1>6. /\ z.phase = x.phase /\ z.mid = x.mid /\ z.chunk = job.goal /\ z.credited = x.credited
      /\ z.sends = x.sends /\ z.pending = x.pending /\ z.calls = x.calls
      /\ z.clears = NoClears /\ z.last = x.last /\ z.floor = x.floor /\ z.policy = x.policy
      /\ z.action = x.action /\ z.raised = x.raised
    BY <1>1 DEF LooseExecutor
<1> HIDE DEF z, y, job
<1>7. Sound(z)
    <2>1. z.target <= Length
        BY <1>2, <1>4, <1>5
    <2> QED  BY <1>4, <1>6, <2>1 DEF Sound
<1>8. z.clears.st = "none"
    BY <1>6 DEF NoClears
<1>9. Sound(y) /\ Sent(z, y) /\ Fits(y) /\ Len(y.calls) = Len(z.calls) + 1
    BY <1>3, <1>4, <1>5, <1>6, <1>7, <1>8, SendFits
<1>10. y.target = t /\ y.credited = x.credited /\ y.chunk = job.goal /\ y.policy = x.policy
       /\ y.clears.st = "none" /\ Knows(x, y)
    BY <1>4, <1>6, <1>8, <1>9 DEF Sent, Knows
<1>11. Credits(x, y) /\ SendsTarget(x, y)
    BY <1>3, <1>5, <1>10 DEF Credits, SendsTarget
<1>12. Passes(x, y)
    BY <1>9, <1>10, <1>11 DEF Passes
<1> QED  BY <1>6, <1>9, <1>10, <1>12 DEF y

(* The recovery waits for the costmaps: it sends the rest of the window,   *)
(* gives the retry up, or goes on waiting.                                 *)
LEMMA ClearsMission ==
    ASSUME NEW x, Sound(x), Fits(x), x.phase = "ACTIVE", x.clears.st # "none",
           NEW n, NEW h, NEW t, Retries(x, n, h, t), NEW expired \in BOOLEAN
    PROVE  LET y == CheckRecoveryClears(x, expired)
           IN  Passes(x, y) /\ Retries(y, n, h, t)
<1> DEFINE y == CheckRecoveryClears(x, expired)
<1>1. /\ x.policy.state = "RECOVERING" /\ x.calls = <<>> /\ x.pending = FALSE
      /\ Still(x, n, h, t) /\ Late(x, n)
    BY DEF Retries, Still
<1>2. CASE x.clears.st = "done"
    <2>1. /\ Passes(x, y) /\ Fits(y) /\ Knows(x, y) /\ y.policy = x.policy
          /\ y.clears.st = "none" /\ Len(y.calls) = Len(x.calls) + 1
        BY <1>2, ClearsSend
    <2> HIDE DEF y
    <2>2. Len(y.calls) = 1 /\ Still(y, n, h, t)
        BY <1>1, <2>1 DEF Still, Late, Knows
    <2>3. Retries(y, n, h, t)
        BY <1>1, <2>1, <2>2 DEF Retries, Waiting
    <2> QED  BY <2>1, <2>3 DEF y
<1>3. CASE y = FinishRecovery(x, FALSE)
    <2>1. x.sends <= x.policy.attempt + 1
        BY SoundFacts DEF Fits, Counted
    <2>2. Window(x)
        BY DEF Fits
    <2>3. Sound(y) /\ y.target = x.target /\ y.calls = x.calls /\ y.clears.st = "none"
               /\ Fits(y) /\ Retries(y, n, h, t)
        BY <1>1, <1>3, <2>1, <2>2, RefusedRetry
    <2>4. Len(y.calls) <= Len(x.calls)
        BY <2>3, SoundFacts
    <2> HIDE DEF y
    <2> QED  BY <2>3, <2>4, StandsPasses DEF y
<1>4. CASE y = x
    <2>1. Keeps(x, x) /\ Len(x.calls) <= Len(x.calls)
        BY SoundFacts DEF Keeps
    <2> HIDE DEF y
    <2> QED  BY <1>4, <2>1, KeepsPasses DEF y
<1>5. y = FinishRecovery(x, FALSE) \/ y = x \/ x.clears.st = "done"
    BY DEF CheckRecoveryClears
<1> QED  BY <1>2, <1>3, <1>4, <1>5

(* pending_checkpoint_suffix: what comes before it is credited, and it     *)
(* begins with a checkpoint that is not.                                   *)
LEMMA PendingStartFacts ==
    ASSUME NEW s \in Nat, NEW e \in Nat, s <= e, NEW credited, e \notin credited
    PROVE  LET k == PendingStart(s, e, credited)
           IN  k \in s .. e /\ k \notin credited /\ \A j \in s .. k - 1 : j \in credited
<1> DEFINE P == (s .. e) \ credited
           k == PendingStart(s, e, credited)
<1>1. e \in P /\ P \in SUBSET Nat /\ P # {}
    OBVIOUS
<1>2. \E i \in P : \A j \in P : i <= j
    BY <1>1, LeastElement
<1>3. k \in P /\ \A j \in P : k <= j
    BY <1>1, <1>2 DEF PendingStart
<1> HIDE DEF k
<1>4. ASSUME NEW j \in s .. k - 1  PROVE j \in credited
    <2>1. k \in s .. e
        BY <1>3
    <2>2. j \in s .. e /\ ~(k <= j)
        BY <2>1
    <2> QED  BY <1>3, <2>2
<1>5. k \in s .. e /\ k \notin credited
    BY <1>3
<1> QED  BY <1>4, <1>5 DEF k

LEMMA BeginMission ==
    ASSUME HasAction = {}, NEW x, Sound(x), x.phase = "ACTIVE", Window(x), x.clears.st = "none",
           x.policy.state = "RECOVERING", x.sends <= x.policy.attempt, x.calls = <<>>,
           x.pending = FALSE, NEW n, NEW h, NEW t, Still(x, n, h, t),
           NEW ready \in BOOLEAN, NEW cut \in Nat
    PROVE  LET y == BeginRecoveryRetry(x, ready, cut)
           IN  Passes(x, y) /\ (y.phase = "ACTIVE" => Retries(y, n, h, t))
<1> DEFINE from == PendingStart(x.chunk.s, x.chunk.e, x.credited)
           g == [x.chunk EXCEPT !.s = from]
           size == x.chunk.e - x.chunk.s + 1
           job == [st |-> "sent", goal |-> g, size |-> size]
           y == BeginRecoveryRetry(x, ready, cut)
<1>1. /\ WellFormed(x) /\ x \in LooseExecutor /\ x.chunk \in Goal /\ x.chunk.s \in Nat
      /\ x.chunk.e \in Nat /\ x.chunk.s <= x.chunk.e /\ Late(x, n) /\ x.sends \in Nat
      /\ x.policy.attempt \in Nat
    BY SoundFacts DEF Still
<1>2. CASE x.near
    <2> DEFINE z == [x EXCEPT !.near = FALSE]
               f == FinishRecovery(z, TRUE)
    <2>1. y = CompleteChunk(f, cut)
        BY <1>2 DEF BeginRecoveryRetry
    <2>2. /\ z \in LooseExecutor /\ z.phase = x.phase /\ z.mid = x.mid /\ z.target = x.target
          /\ z.chunk = x.chunk /\ z.seen = x.seen /\ z.credited = x.credited
          /\ z.sends = x.sends /\ z.pending = x.pending /\ z.calls = x.calls
          /\ z.clears = x.clears /\ z.policy = x.policy
          /\ z.action = x.action /\ z.raised = x.raised
        BY <1>1 DEF LooseExecutor
    <2> HIDE DEF z
    <2>3. WellFormed(z)
        BY <1>1, <2>2, FieldsKept
    <2>4. Sound(z) /\ z.policy.state = "RECOVERING"
        BY <2>2, <2>3 DEF Sound
    <2>5. /\ Sound(f) /\ f.phase = z.phase /\ f.mid = z.mid /\ f.target = z.target
          /\ f.chunk = z.chunk /\ f.seen = z.seen /\ f.credited = z.credited
          /\ f.calls = z.calls /\ f.clears.st = "none" /\ f.policy.state = "CLEAR"
        BY <2>4, FinishEffect
    <2> HIDE DEF f, y
    <2>6. Window(f) /\ f.phase = "ACTIVE"
        BY <2>2, <2>5 DEF Window
    <2>7. Onward(f, y)
        BY <2>1, <2>5, <2>6, CompleteOnward
    <2>8. Passes(x, y)
        BY <2>2, <2>5, <2>7, OnwardPasses
    <2>9. y.phase = "ACTIVE" => Retries(y, n, h, t)
        BY <2>5, <2>7, NoRetry DEF Onward
    <2> QED  BY <2>8, <2>9 DEF y
<1>3. CASE ~x.near /\ ~ready
    <2>1. y = FinishRecovery(x, FALSE)
        BY <1>3 DEF BeginRecoveryRetry
    <2>2. x.sends <= x.policy.attempt + 1
        BY <1>1
    <2>3. /\ Sound(y) /\ y.target = x.target /\ y.calls = x.calls /\ y.clears.st = "none"
          /\ Fits(y) /\ Retries(y, n, h, t)
        BY <1>1, <2>1, <2>2, RefusedRetry
    <2>4. Len(y.calls) <= Len(x.calls)
        BY <2>3, SoundFacts
    <2> HIDE DEF y
    <2> QED  BY <2>3, <2>4, StandsPasses DEF y
<1>4. CASE ~x.near /\ ready
    <2>1. y = [x EXCEPT !.clears = job]
        BY <1>4 DEF BeginRecoveryRetry
    <2>2. x.chunk.e \notin x.credited
        BY <1>1 DEF Window
    <2>3. from \in x.chunk.s .. x.chunk.e /\ from \notin x.credited
          /\ \A j \in x.chunk.s .. from - 1 : j \in x.credited
        <3> DEFINE lo == x.chunk.s
                   hi == x.chunk.e
                   at == x.credited
        <3>1. lo \in Nat /\ hi \in Nat /\ lo <= hi /\ hi \notin at
            BY <1>1, <2>2
        <3> HIDE DEF job, g, size, y, lo, hi, at
        <3>2. LET k == PendingStart(lo, hi, at)
              IN  k \in lo .. hi /\ k \notin at /\ \A j \in lo .. k - 1 : j \in at
            BY <3>1, PendingStartFacts
        <3> QED  BY <3>2 DEF lo, hi, at
    <2> HIDE DEF from
    <2>4. g.mid = x.chunk.mid /\ g.e = x.chunk.e /\ g.s = from
        BY <1>1 DEF Goal
    <2>5. WellFormed(y)
        BY <1>1, BeginRecoveryRetryKeeps
    <2>6. job.st = "sent" /\ job.goal = g /\ job.size = size
        OBVIOUS
    <2> HIDE DEF job, g, size, y
    <2>7. /\ y.phase = x.phase /\ y.mid = x.mid /\ y.target = x.target
          /\ y.chunk = x.chunk /\ y.seen = x.seen /\ y.credited = x.credited
          /\ y.sends = x.sends /\ y.pending = x.pending /\ y.calls = x.calls
          /\ y.clears = job /\ y.policy = x.policy /\ y.last = x.last /\ y.floor = x.floor
          /\ y.action = x.action /\ y.raised = x.raised
        BY <1>1, <2>1 DEF LooseExecutor
    <2>8. Sound(y)
        BY <2>5, <2>7 DEF Sound
    <2>9. Window(y)
        BY <2>7 DEF Window
    <2>10. Rest(y)
        BY <1>1, <2>3, <2>4, <2>6, <2>7 DEF Rest, Window, size
    <2>11. Counted(y)
        BY <2>6, <2>7 DEF Counted
    <2>12. Credits(x, y) /\ SendsTarget(x, y)
        BY <2>7, SoundFacts DEF Credits, SendsTarget
    <2>13. y.clears.goal.s \notin y.credited
        BY <2>3, <2>4, <2>6, <2>7
    <2>14. Passes(x, y)
        BY <2>8, <2>9, <2>10, <2>11, <2>12, <2>13 DEF Passes, Fits
    <2>15. Still(y, n, h, t)
        BY <2>7 DEF Still, Late
    <2>16. ~Unserved(y.calls) /\ ~Waiting(y.policy)
        <3>1. Len(<<>>) = 0
            OBVIOUS
        <3> QED  BY <2>7, <3>1 DEF Unserved, Waiting
    <2>17. Retries(y, n, h, t)
        BY <2>7, <2>15, <2>16 DEF Retries
    <2> QED  BY <2>14, <2>17 DEF y
<1> QED  BY <1>2, <1>3, <1>4

(* The cancellation of the policy leaves no request that is current.       *)
LEMMA StopEffect ==
    ASSUME NEW x, Sound(x)
    PROVE  LET y == StopForRecovery(x)
           IN  /\ Sound(y) /\ Keeps(x, y) /\ y.phase = x.phase /\ y.pending = FALSE
               /\ y.heard = x.heard /\ ~Unserved(y.calls)
<1> DEFINE c == CancelCall("cancel")
           a == Append(NewEpoch(x.calls), c)
           y == StopForRecovery(x)
<1>1. x \in LooseExecutor /\ x.calls \in Seq(Call) /\ WellFormed(x)
    BY SoundFacts
<1>2. WellFormed(y)
    BY <1>1, StopForRecoveryKeeps
<1>3. c \in Call /\ c.current = FALSE /\ c.goal.s <= c.goal.e
    BY CallTypes DEF CancelCall, NoGoal
<1>4. y = [x EXCEPT !.pending = FALSE, !.calls = a]
    BY DEF StopForRecovery
<1> HIDE DEF c
<1>5. Asks(a, FALSE)
    BY <1>1, <1>3, AsksAppend DEF Sound
<1> HIDE DEF a, y
<1>6. /\ y.phase = x.phase /\ y.mid = x.mid /\ y.target = x.target
      /\ y.chunk = x.chunk /\ y.seen = x.seen /\ y.credited = x.credited
      /\ y.sends = x.sends /\ y.pending = FALSE /\ y.calls = a
      /\ y.clears = x.clears /\ y.policy = x.policy /\ y.heard = x.heard
      /\ y.action = x.action /\ y.raised = x.raised
    BY <1>1, <1>4 DEF LooseExecutor
<1>7. Sound(y)
    BY <1>2, <1>5, <1>6 DEF Sound
<1>8. ~Unserved(y.calls)
    BY <1>5, <1>6 DEF Asks, Unserved
<1> QED  BY <1>6, <1>7, <1>8 DEF Keeps, y

LEMMA PassesFrom ==
    ASSUME NEW x, NEW z, NEW y, Passes(z, y), z.mid = x.mid, z.target = x.target,
           z.calls = x.calls, z.clears = x.clears
    PROVE  Passes(x, y)
BY DEF Passes, Credits, SendsTarget

-----------------------------------------------------------------------------
(* The steps.                                                              *)

LEMMA CheckFacts ==
    ASSUME CheckInv
    PROVE  /\ RouteTyped /\ Sound(ex) /\ NavOK(nav, telemetry)
           /\ ex.phase = "ACTIVE" => Fits(ex) /\ Retries(ex, nav, health, telemetry)
           /\ health \in Health /\ nav \in Nav /\ telemetry \subseteq Telemetry
           /\ ex.calls \in Seq(Call) /\ DOMAIN ex.calls = 1 .. Len(ex.calls)
<1>1. RouteTyped /\ Sound(ex)
    BY DEF CheckInv, MissionOK
<1> QED  BY <1>1, RouteFacts DEF CheckInv, MissionOK, RouteTyped

LEMMA TickMission ==
    ASSUME HasAction = {}, ~SlowCancel, CheckInv, NEW due \in BOOLEAN, NEW served \in BOOLEAN,
           NEW cut \in Cuts, TickRecovery(due, served, cut)
    PROVE  Passes(ex, ex') /\ (ex'.phase = "ACTIVE" => Retries(ex', nav, health, telemetry))
<1> DEFINE blocked == ex.collision \/ ex.failure = "blocking"
           d == Observe(ex.policy, health, blocked, due)
           hd == ex.heard /\ d.policy.state = ex.policy.state
           nr == ex.near \/ (/\ ~ManeuverHold(health) /\ d.policy.state # "CLEAR"
                            /\ ex.pose = ex.chunk.e)
           x == [ex EXCEPT !.policy = d.policy, !.heard = hd, !.near = nr]
           y == CheckRecoveryClears(x, ~served)
<1>1. /\ Sound(ex) /\ Fits(ex) /\ Retries(ex, nav, health, telemetry) /\ ex.phase = "ACTIVE"
      /\ ex \in LooseExecutor /\ cut \in Nat /\ health \in Health /\ ex.policy \in Policy
      /\ blocked \in BOOLEAN /\ ex.heard \in BOOLEAN
    <2>1. ex.phase = "ACTIVE"
        BY DEF TickRecovery
    <2>2. Sound(ex) /\ ex \in LooseExecutor /\ ex.policy \in Policy
        BY CheckFacts, SoundFacts
    <2>3. blocked \in BOOLEAN /\ ex.heard \in BOOLEAN
        BY <2>2 DEF LooseExecutor
    <2> QED  BY <2>1, <2>2, <2>3, CheckFacts, RouteAssumption
<1>2. /\ d.action = "BEGIN_RETRY" =>
           /\ Waiting(ex.policy) /\ health = "ok" /\ due /\ d.policy.state = "RECOVERING"
           /\ d.policy.attempt = ex.policy.attempt + 1
      /\ d.action = "CANCEL_AND_BRAKE" =>
           /\ d.policy.attempt = ex.policy.attempt
           /\ d.policy.state \in {"WAITING_RETRY", "NEEDS_OPERATOR"}
           /\ d.policy.state = "WAITING_RETRY" => ex.policy.state # "WAITING_RETRY"
      /\ d.action \notin {"BEGIN_RETRY", "CANCEL_AND_BRAKE"} =>
           /\ d.policy.attempt = ex.policy.attempt
           /\ Waiting(d.policy) => Waiting(ex.policy)
           /\ Recovering(d.policy) => Recovering(ex.policy)
      /\ ex.policy.state = "RECOVERING" /\ health = "ok" => d.policy = ex.policy /\ d.action = "NONE"
    <2> HIDE DEF blocked
    <2> QED  BY <1>1, ObserveFacts
<1>3. d.policy \in Policy
    <2> HIDE DEF blocked
    <2> QED  BY <1>1, ObserveTypes
<1>4. /\ due => ex.heard
      /\ d.action = "BEGIN_RETRY" => Settled
      /\ \/ y.raised /\ ex' = y
         \/ d.action = "CANCEL_AND_BRAKE" /\ ex' = StopForRecovery(y)
         \/ d.action = "BEGIN_RETRY" /\ ex' = BeginRecoveryRetry(y, served, cut)
         \/ d.action \notin {"BEGIN_RETRY", "CANCEL_AND_BRAKE"} /\ ex' = y
    BY DEF TickRecovery
<1> HIDE DEF d, nr
<1>5. nr \in BOOLEAN /\ hd \in BOOLEAN
    <2>1. ex.near \in BOOLEAN
        BY <1>1 DEF LooseExecutor
    <2> QED  BY <1>1, <2>1 DEF nr
<1>6. hd = TRUE => ex.heard = TRUE /\ d.policy.state = ex.policy.state
    OBVIOUS
<1> HIDE DEF hd
<1>7. /\ x \in LooseExecutor /\ x.phase = ex.phase /\ x.mid = ex.mid /\ x.target = ex.target
      /\ x.chunk = ex.chunk /\ x.seen = ex.seen /\ x.credited = ex.credited
      /\ x.sends = ex.sends /\ x.pending = ex.pending /\ x.calls = ex.calls
      /\ x.clears = ex.clears /\ x.policy = d.policy /\ x.last = ex.last /\ x.floor = ex.floor
      /\ x.action = ex.action /\ x.raised = ex.raised /\ x.heard = hd
    BY <1>1, <1>3, <1>5 DEF LooseExecutor
<1> HIDE DEF x
<1>8. WellFormed(x)
    BY <1>1, <1>7, FieldsKept, SoundFacts
<1>9. Sound(x)
    BY <1>1, <1>7, <1>8 DEF Sound
<1>10. Window(x)
    BY <1>1, <1>7 DEF Fits, Window
<1>11. CASE ex.clears.st # "none"
    <2>1. ex.policy.state = "RECOVERING" /\ health = "ok"
        BY <1>1, <1>11 DEF Retries, Still
    <2>2. d.policy = ex.policy /\ d.action = "NONE"
        BY <1>2, <2>1
    <2>3. Fits(x)
        BY <1>1, <1>7, <2>2 DEF Fits, Window, Rest, Counted
    <2>4. Retries(x, nav, health, telemetry)
        BY <1>1, <1>7, <2>1, <2>2 DEF Retries, Still, Late, Recovering, Waiting
    <2>5. Passes(x, y) /\ Retries(y, nav, health, telemetry)
        BY <1>1, <1>7, <1>9, <1>11, <2>3, <2>4, ClearsMission
    <2>6. ex' = y
        BY <1>4, <2>2
    <2> HIDE DEF y
    <2> QED  BY <1>7, <2>5, <2>6, PassesFrom
<1>12. CASE ex.clears.st = "none"
    <2>1. y = x
        BY <1>7, <1>12 DEF CheckRecoveryClears
    <2>2. y.raised = FALSE
        BY <1>9, <2>1 DEF Sound
    <2> HIDE DEF y
    <2>3. ex.sends <= ex.policy.attempt + 1
        BY <1>1, <1>12 DEF Fits, Counted
    <2>4. CASE d.action = "BEGIN_RETRY"
        <3>1. ex' = BeginRecoveryRetry(x, served, cut)
            BY <1>4, <2>1, <2>2, <2>4
        <3>2. /\ Waiting(ex.policy) /\ health = "ok" /\ ex.heard /\ Settled
              /\ x.policy.state = "RECOVERING" /\ x.policy.attempt = ex.policy.attempt + 1
            BY <1>2, <1>4, <1>7, <2>4
        <3>3. ex.calls = <<>> /\ Told(nav, telemetry)
            <4>1. nav.active = FALSE /\ nav.told = FALSE
                BY <3>2, CheckFacts DEF Settled, Nav
            <4> QED  BY <3>2, <4>1 DEF Settled, Told
        <3>4. ex.pending = FALSE /\ Late(ex, nav)
            BY <1>1, <3>2, <3>3 DEF Retries
        <3>5. Still(x, nav, health, telemetry)
            BY <1>7, <3>2, <3>3, <3>4 DEF Still, Late, Told
        <3>6. x.calls = <<>> /\ x.pending = FALSE /\ x.clears.st = "none" /\ x.phase = "ACTIVE"
              /\ x.sends <= x.policy.attempt
            BY <1>1, <1>7, <1>12, <2>3, <3>2, <3>3, <3>4
        <3>7. Passes(x, ex') /\ (ex'.phase = "ACTIVE" => Retries(ex', nav, health, telemetry))
            BY <1>1, <1>9, <1>10, <3>1, <3>2, <3>5, <3>6, BeginMission
        <3> QED  BY <1>7, <3>7, PassesFrom
    <2>5. CASE d.action = "CANCEL_AND_BRAKE"
        <3> DEFINE z == StopForRecovery(x)
        <3>1. ex' = z
            BY <1>4, <2>1, <2>2, <2>5
        <3>2. /\ Sound(z) /\ Keeps(x, z) /\ z.phase = x.phase /\ z.pending = FALSE
              /\ z.heard = x.heard /\ ~Unserved(z.calls)
            BY <1>9, StopEffect
        <3> HIDE DEF z
        <3>3. Fits(x)
            BY <1>1, <1>2, <1>7, <1>10, <1>12, <2>3, <2>5 DEF Fits, Rest, Counted
        <3>4. Passes(x, z)
            BY <1>1, <1>7, <1>9, <3>2, <3>3, KeepsPasses
        <3>5. Waiting(z.policy) => z.heard = FALSE
            <4>1. z.policy = d.policy /\ z.heard = hd /\ hd \in BOOLEAN
                BY <1>5, <1>7, <3>2 DEF Keeps
            <4> QED  BY <1>2, <1>6, <2>5, <4>1 DEF Waiting
        <3>6. z.clears.st = "none"
            BY <1>7, <1>12, <3>2 DEF Keeps
        <3>7. Retries(z, nav, health, telemetry)
            BY <3>2, <3>5, <3>6 DEF Retries
        <3> QED  BY <1>7, <3>1, <3>4, <3>7, PassesFrom
    <2>6. CASE d.action \notin {"BEGIN_RETRY", "CANCEL_AND_BRAKE"}
        <3>1. ex' = x
            BY <1>4, <2>1, <2>6
        <3>2. Fits(x)
            BY <1>1, <1>2, <1>7, <1>10, <1>12, <2>3, <2>6 DEF Fits, Rest, Counted
        <3>3. Keeps(x, x) /\ Len(x.calls) <= Len(x.calls)
            BY <1>9, SoundFacts DEF Keeps
        <3>4. Passes(x, x)
            BY <1>9, <3>2, <3>3, KeepsPasses
        <3>5. Recovering(x.policy) /\ Unserved(x.calls) =>
                 x.policy.state = "RECOVERING" /\ Len(x.calls) = 1 /\ Still(x, nav, health, telemetry)
            <4> SUFFICES ASSUME Recovering(x.policy), Unserved(x.calls)
                         PROVE  x.policy.state = "RECOVERING" /\ Len(x.calls) = 1
                                /\ Still(x, nav, health, telemetry)
                OBVIOUS
            <4>1. Recovering(ex.policy) /\ Unserved(ex.calls)
                BY <1>2, <1>7, <2>6
            <4>2. /\ ex.policy.state = "RECOVERING" /\ Len(ex.calls) = 1
                  /\ Still(ex, nav, health, telemetry)
                BY <1>1, <4>1 DEF Retries
            <4>3. d.policy = ex.policy
                BY <1>2, <4>2 DEF Still
            <4> QED  BY <1>7, <4>2, <4>3 DEF Still, Late
        <3>6. Waiting(x.policy) => x.pending = FALSE
                                   /\ (x.heard /\ Told(nav, telemetry) => Late(x, nav))
            <4> SUFFICES ASSUME Waiting(x.policy)
                         PROVE  x.pending = FALSE
                                /\ (x.heard /\ Told(nav, telemetry) => Late(x, nav))
                OBVIOUS
            <4>1. Waiting(ex.policy)
                BY <1>2, <1>7, <2>6
            <4>2. ex.pending = FALSE /\ (ex.heard /\ Told(nav, telemetry) => Late(ex, nav))
                BY <1>1, <4>1 DEF Retries
            <4>3. x.heard => ex.heard
                BY <1>5, <1>6, <1>7
            <4> QED  BY <1>7, <4>2, <4>3 DEF Late
        <3>7. Retries(x, nav, health, telemetry)
            BY <1>7, <1>12, <3>5, <3>6 DEF Retries
        <3> QED  BY <1>7, <3>1, <3>4, <3>7, PassesFrom
    <2> QED  BY <2>4, <2>5, <2>6
<1> QED  BY <1>11, <1>12

(* Telemetry that completes nothing: if it told of a success, that success *)
(* is late from now on.                                                    *)
LEMMA HeardRetries ==
    ASSUME NEW x, NEW y, NEW n, NEW h, NEW m, NEW t, m \in t, Retries(x, n, h, t), NavOK(n, t),
           Keeps(x, y), y.calls = x.calls, y.pending = x.pending, y.floor = x.floor,
           x.last \in Int, y.last \in Int, x.last <= y.last, n.rid \in Int,
           \A k \in t : k.rid \in Int,
           ~x.pending /\ ~m.goalActive /\ m.result = "succeeded" =>
              m.rid <= y.last \/ m.rid <= y.floor
    PROVE  Retries(y, n, h, {})
<1>1. Late(x, n) => Late(y, n)
    BY DEF Late
<1>2. Still(x, n, h, t) => Still(y, n, h, {})
    BY <1>1 DEF Still
<1>3. Waiting(y.policy) => y.pending = FALSE /\ (Told(n, {}) => Late(y, n))
    <2> SUFFICES ASSUME Waiting(y.policy) PROVE y.pending = FALSE /\ (Told(n, {}) => Late(y, n))
        OBVIOUS
    <2>1. x.pending = FALSE /\ y.pending = FALSE
        BY DEF Retries, Keeps
    <2>2. ASSUME Told(n, {})  PROVE Late(y, n)
        <3>1. n.result = "succeeded" => m.goalActive = FALSE /\ m.result = "succeeded" /\ m.rid = n.rid
            BY <2>2 DEF Told, NavOK
        <3> QED  BY <2>1, <3>1 DEF Late
    <2> QED  BY <2>1, <2>2
<1> QED  BY <1>2, <1>3 DEF Retries, Keeps

LEMMA OnTelemetryMission ==
    ASSUME HasAction = {}, CheckInv, NEW m \in telemetry, NEW cut \in Cuts, OnTelemetry(m, cut)
    PROVE  Passes(ex, ex') /\ (ex'.phase = "ACTIVE" => Retries(ex', nav, health, {}))
<1> DEFINE heard == [ex EXCEPT !.heard = TRUE]
           fl == IF m.goalActive THEN "" ELSE ex.failure
           x == [ex EXCEPT !.heard = TRUE, !.collision = m.collision, !.failure = fl]
           y == [x EXCEPT !.last = m.rid]
           r == [y EXCEPT !.policy = Reset, !.near = FALSE]
           f == [y EXCEPT !.failure = m.failure]
<1>1. /\ Sound(ex) /\ NavOK(nav, telemetry) /\ WellFormed(ex) /\ ex \in LooseExecutor
      /\ m \in Telemetry /\ cut \in Nat /\ ex.last \in Int /\ ex.floor \in Int
      /\ Len(ex.calls) \in Nat
    BY CheckFacts, SoundFacts, RouteAssumption
<1>2. /\ m.collision \in BOOLEAN /\ m.rid \in Int /\ fl \in FailureCodes
      /\ m.failure \in FailureCodes /\ m.result \in Results /\ m.goalActive \in BOOLEAN
    <2>1. /\ m.collision \in BOOLEAN /\ m.rid \in Nat /\ m.failure \in FailureCodes
          /\ m.result \in Results /\ m.goalActive \in BOOLEAN
        BY <1>1 DEF Telemetry
    <2>2. ex.failure \in FailureCodes
        BY <1>1 DEF LooseExecutor
    <2>3. fl \in FailureCodes
        BY <2>2 DEF FailureCodes
    <2> HIDE DEF fl
    <2> QED  BY <2>1, <2>3
<1>3. nav.rid \in Int /\ \A k \in telemetry : k.rid \in Int
    <2>1. nav.rid \in Nat
        BY CheckFacts DEF Nav
    <2>2. ASSUME NEW k \in telemetry  PROVE k.rid \in Int
        <3>1. k \in Telemetry
            BY CheckFacts
        <3> QED  BY <3>1 DEF Telemetry
    <2> QED  BY <2>1, <2>2
<1>4. ASSUME NEW z, z \in LooseExecutor, Keeps(ex, z), z.phase = ex.phase, z.calls = ex.calls,
             z.pending = ex.pending, z.action = ex.action
      PROVE  Sound(z) /\ Passes(ex, z)
    <2>1. z.chunk = ex.chunk /\ z.clears = ex.clears /\ z.target = ex.target
          /\ z.raised = ex.raised /\ z.sends = ex.sends
        BY <1>4 DEF Keeps
    <2>2. WellFormed(z)
        BY <1>1, <1>4, <2>1, FieldsKept
    <2>3. Sound(z)
        BY <1>1, <1>4, <2>1, <2>2 DEF Sound
    <2>4. ex.phase = "ACTIVE" => Fits(ex)
        BY CheckFacts
    <2>5. Len(z.calls) <= Len(ex.calls)
        BY <1>1, <1>4
    <2>6. Passes(ex, z)
        BY <1>1, <1>4, <2>3, <2>4, <2>5, KeepsPasses
    <2> QED  BY <2>3, <2>6
<1>5. CASE ex.phase # "ACTIVE"
    <2>1. ex' = heard
        BY <1>5 DEF OnTelemetry
    <2>2. /\ heard \in LooseExecutor /\ Keeps(ex, heard) /\ heard.phase = ex.phase
          /\ heard.calls = ex.calls /\ heard.pending = ex.pending /\ heard.action = ex.action
        BY <1>1 DEF LooseExecutor, Keeps
    <2> HIDE DEF heard
    <2>3. Passes(ex, heard)
        BY <1>4, <1>5, <2>2
    <2> QED  BY <1>5, <2>1, <2>2, <2>3
<1>6. CASE ex.phase = "ACTIVE"
    <2>1. Fits(ex) /\ Retries(ex, nav, health, telemetry)
        BY <1>6, CheckFacts
    <2>2. CASE m.manual \/ (m.collision /\ ex.action # "none")
        <3>1. ex.action = "none"
            BY <1>1 DEF Sound
        <3>2. ex' = Pause(ex)
            BY <1>6, <2>2, <3>1 DEF OnTelemetry
        <3>3. Keeps(ex, ex)
            BY DEF Keeps
        <3>4. Passes(ex, ex') /\ ex'.phase # "ACTIVE"
            BY <1>1, <1>6, <2>1, <3>2, <3>3, PausePasses
        <3> QED  BY <3>4
    <2>3. CASE ~m.manual /\ ~(m.collision /\ ex.action # "none")
        <3>1. ex' = IF ResultIsCurrent(x, m) THEN TerminalResult(y, m, cut) ELSE x
            BY <1>6, <2>3 DEF OnTelemetry
        <3> HIDE DEF fl
        <3>2. /\ x \in LooseExecutor /\ Keeps(ex, x) /\ x.phase = ex.phase /\ x.calls = ex.calls
              /\ x.pending = ex.pending /\ x.action = ex.action /\ Knows(ex, x)
            BY <1>1, <1>2 DEF LooseExecutor, Keeps, Knows
        <3> HIDE DEF x
        <3>3. /\ y \in LooseExecutor /\ Keeps(ex, y) /\ y.phase = ex.phase /\ y.calls = ex.calls
              /\ y.pending = ex.pending /\ y.action = ex.action /\ y.floor = ex.floor
              /\ y.last = m.rid
            BY <1>2, <3>2 DEF LooseExecutor, Keeps, Knows
        <3> HIDE DEF y
        <3>4. CASE ~ResultIsCurrent(x, m)
            <4>1. ~x.pending /\ ~m.goalActive /\ m.result = "succeeded" =>
                    m.rid <= x.last \/ m.rid <= x.floor
                BY <1>1, <1>2, <3>2, <3>4 DEF ResultIsCurrent, Knows
            <4>2. x.last = ex.last /\ x.floor = ex.floor /\ ex.last <= x.last
                BY <1>1, <3>2 DEF Knows
            <4>3. Retries(x, nav, health, {})
                BY <1>1, <1>3, <2>1, <3>2, <4>1, <4>2, HeardRetries
            <4>4. Passes(ex, x)
                BY <1>4, <1>6, <3>2
            <4> QED  BY <3>1, <3>4, <4>3, <4>4
        <3>5. CASE ResultIsCurrent(x, m)
            <4>1. /\ ex.pending = FALSE /\ m.goalActive = FALSE /\ m.result # "none"
                  /\ m.rid > ex.floor /\ m.rid > ex.last
                <5>1. ex.pending \in BOOLEAN
                    BY <1>1 DEF LooseExecutor
                <5> QED  BY <1>2, <3>2, <3>5, <5>1 DEF ResultIsCurrent, Knows
            <4>2. ex' = TerminalResult(y, m, cut)
                BY <3>1, <3>5
            <4>3. ex.last <= m.rid /\ m.rid <= m.rid
                BY <1>1, <1>2, <4>1
            <4>4. Retries(y, nav, health, {})
                BY <1>1, <1>2, <1>3, <2>1, <3>3, <4>3, HeardRetries
            <4>5. Sound(y) /\ Passes(ex, y)
                BY <1>4, <1>6, <3>3
            <4>6. CASE ex' = y
                BY <4>4, <4>5, <4>6
            <4>7. CASE ex' = Pause(y)
                <5>1. Passes(ex, ex') /\ ex'.phase # "ACTIVE"
                    BY <1>1, <1>6, <2>1, <3>3, <4>5, <4>7, PausePasses
                <5> QED  BY <5>1
            <4>8. CASE ex' = f
                <5>1. /\ f \in LooseExecutor /\ Keeps(ex, f) /\ f.phase = ex.phase
                      /\ f.calls = ex.calls /\ f.pending = ex.pending /\ f.action = ex.action
                      /\ f.floor = ex.floor /\ f.last = m.rid
                    BY <1>2, <3>3 DEF LooseExecutor, Keeps
                <5> HIDE DEF f
                <5>2. Retries(f, nav, health, {})
                    BY <1>1, <1>2, <1>3, <2>1, <4>3, <5>1, HeardRetries
                <5>3. Passes(ex, f)
                    BY <1>4, <1>6, <5>1
                <5> QED  BY <4>8, <5>2, <5>3
            <4>9. CASE m.result = "succeeded" /\ ex' = CompleteChunk(r, cut)
                <5>1. ex.clears.st = "none"
                    <6>1. ~Late(ex, m)
                        BY <1>1, <1>2, <4>1, <4>9 DEF Late
                    <6> QED  BY <2>1, <6>1 DEF Retries, Still
                <5>2. Reset \in Policy /\ Reset.state = "CLEAR"
                    BY RecoveryAssumption DEF Reset, Policy, RecoveryState
                <5>3. /\ r \in LooseExecutor /\ r.phase = y.phase /\ r.mid = y.mid
                      /\ r.target = y.target /\ r.chunk = y.chunk /\ r.seen = y.seen
                      /\ r.credited = y.credited /\ r.sends = y.sends /\ r.pending = y.pending
                      /\ r.calls = y.calls /\ r.clears = y.clears /\ r.policy = Reset
                      /\ r.action = y.action /\ r.raised = y.raised
                    BY <3>3, <5>2 DEF LooseExecutor
                <5> HIDE DEF r
                <5>4. WellFormed(r)
                    BY <4>5, <5>3, FieldsKept, SoundFacts
                <5>5. Sound(r)
                    BY <4>5, <5>3, <5>4 DEF Sound
                <5>6. Window(r) /\ r.clears.st = "none" /\ r.phase = "ACTIVE"
                      /\ r.target = ex.target /\ r.calls = ex.calls
                    BY <1>6, <2>1, <3>3, <5>1, <5>3 DEF Fits, Window, Keeps
                <5>7. Onward(r, ex')
                    BY <1>1, <4>9, <5>5, <5>6, CompleteOnward
                <5>8. Passes(ex, ex')
                    BY <5>6, <5>7, OnwardPasses
                <5>9. ex'.phase = "ACTIVE" => Retries(ex', nav, health, {})
                    BY <5>2, <5>3, <5>6, <5>7, NoRetry DEF Onward
                <5> QED  BY <5>8, <5>9
            <4>10. \/ ex' = y \/ ex' = Pause(y) \/ ex' = f
                   \/ m.result = "succeeded" /\ ex' = CompleteChunk(r, cut)
                <5>1. m.result \in {"succeeded", "cancelled", "aborted", "goal rejected"}
                    BY <1>2, <4>1 DEF Results
                <5> QED  BY <4>2, <5>1 DEF TerminalResult
            <4> QED  BY <4>6, <4>7, <4>8, <4>9, <4>10
        <3> QED  BY <3>4, <3>5
    <2> QED  BY <2>2, <2>3
<1> QED  BY <1>5, <1>6

LEMMA OnPoseMission ==
    ASSUME CheckInv, NEW fresh \in BOOLEAN, OnPose(fresh)
    PROVE  Passes(ex, ex')
           /\ (ex'.phase = "ACTIVE" => Retries(ex', nav, health, telemetry))
<1> DEFINE hit == fresh /\ ex.phase = "ACTIVE" /\ ex.seen < ex.chunk.e /\ robot = ex.seen
           s == IF hit THEN ex.seen + 1 ELSE ex.seen
           c == IF hit THEN ex.credited \union {robot} ELSE ex.credited
<1>1. /\ Sound(ex) /\ ex \in LooseExecutor /\ Len(ex.calls) \in Nat /\ ex.target \in Nat
      /\ ex.chunk.s \in Nat /\ ex.chunk.e \in Nat
      /\ ex.phase = "ACTIVE" => Fits(ex) /\ Retries(ex, nav, health, telemetry)
    BY CheckFacts, SoundFacts
<1>2. ex.seen \in Nat
    BY <1>1, RouteAssumption DEF LooseExecutor
<1>3. WellFormed(ex')
    BY CheckFacts, OnPoseKeeps
<1>4. ex' = [ex EXCEPT !.pose = robot, !.seen = s, !.credited = c]
    BY DEF OnPose
<1>5. /\ ex.credited \subseteq c
      /\ Window(ex) => /\ ex.seen <= s /\ s <= ex.chunk.e
                       /\ \A k \in ex.chunk.s .. s - 1 : k \in c
                       /\ \A k \in c : k < ex.chunk.e
    <2>1. CASE hit
        <3>1. c = ex.credited \union {ex.seen} /\ s = ex.seen + 1 /\ ex.seen < ex.chunk.e
            BY <2>1
        <3> HIDE DEF c, s
        <3>2. ASSUME Window(ex)
              PROVE  /\ ex.seen <= s /\ s <= ex.chunk.e
                     /\ \A k \in ex.chunk.s .. s - 1 : k \in c
                     /\ \A k \in c : k < ex.chunk.e
            BY <1>1, <1>2, <3>1, <3>2 DEF Window
        <3> QED  BY <3>1, <3>2
    <2>2. CASE ~hit
        <3>1. c = ex.credited /\ s = ex.seen
            BY <2>2
        <3> HIDE DEF c, s
        <3> QED  BY <1>2, <3>1 DEF Window
    <2> QED  BY <2>1, <2>2
<1> HIDE DEF c, s
<1>6. /\ ex'.phase = ex.phase /\ ex'.mid = ex.mid /\ ex'.target = ex.target
      /\ ex'.chunk = ex.chunk /\ ex'.seen = s /\ ex'.credited = c
      /\ ex'.sends = ex.sends /\ ex'.pending = ex.pending /\ ex'.calls = ex.calls
      /\ ex'.clears = ex.clears /\ ex'.policy = ex.policy /\ ex'.last = ex.last
      /\ ex'.floor = ex.floor /\ ex'.heard = ex.heard
      /\ ex'.action = ex.action /\ ex'.raised = ex.raised
    BY <1>1, <1>4 DEF LooseExecutor
<1>7. Sound(ex')
    BY <1>1, <1>3, <1>6 DEF Sound
<1>8. ASSUME ex'.phase = "ACTIVE"
      PROVE  Fits(ex') /\ Retries(ex', nav, health, telemetry)
    <2>1. Fits(ex) /\ Retries(ex, nav, health, telemetry)
        BY <1>1, <1>6, <1>8
    <2>2. ex.chunk.s <= ex.seen /\ ex.seen <= s /\ s <= ex.chunk.e /\ s \in Nat
        <3>1. s \in Nat
            BY <1>2 DEF s
        <3> QED  BY <1>5, <2>1, <3>1 DEF Fits, Window
    <2>3. Window(ex')
        <3>1. ex.chunk.s <= s
            BY <1>1, <1>2, <2>2
        <3> QED  BY <1>5, <1>6, <2>1, <2>2, <3>1 DEF Fits, Window
    <2>4. Rest(ex') /\ Counted(ex')
        BY <1>5, <1>6, <2>1 DEF Fits, Rest, Counted
    <2>5. Retries(ex', nav, health, telemetry)
        BY <1>6, <2>1 DEF Retries, Still, Late
    <2> QED  BY <2>3, <2>4, <2>5 DEF Fits
<1>9. Passes(ex, ex')
    <2>1. Len(ex'.calls) <= Len(ex.calls) /\ (ex'.clears.st # "sent" \/ ex.clears.st # "none")
        BY <1>1, <1>6
    <2> QED  BY <1>1, <1>6, <1>7, <1>8, <2>1, StandsPasses
<1> QED  BY <1>8, <1>9

LEMMA ActivateMission ==
    ASSUME CheckInv, NEW anchor \in Anchors, NEW cut \in Cuts, ActivatePrepared(anchor, cut)
    PROVE  /\ Passes(ex, ex') /\ ex'.mid # ex.mid
           /\ ex'.phase = "ACTIVE" => Retries(ex', nav, health, telemetry)
<1> DEFINE n == ex.mid + 1
           x == [ex EXCEPT !.phase = "ACTIVE", !.mid = n, !.anchor = anchor,
                           !.target = anchor, !.policy = Reset, !.clears = NoClears,
                           !.credited = {}, !.sends = 0]
<1>1. /\ Sound(ex) /\ WellFormed(ex) /\ ex \in LooseExecutor /\ cut \in Nat /\ ex.mid \in Nat
    BY CheckFacts, SoundFacts, RouteAssumption
<1>2. n \in 0 .. MaxMissions /\ n # ex.mid /\ n > 0
    <2>1. ex.mid \in 0 .. MaxMissions /\ ex.mid < MaxMissions
        BY <1>1 DEF LooseExecutor, ActivatePrepared
    <2> QED  BY <2>1, RouteAssumption
<1>3. anchor \in Index /\ anchor \in Nat /\ anchor <= Length
    <2>1. anchor \in Index
        BY RouteAssumption
    <2>2. anchor \in 0 .. Length - 1 /\ Length \in Nat
        BY <2>1, RouteAssumption DEF Index
    <2> QED  BY <2>1, <2>2
<1>4. /\ NoClears \in [st : {"none", "sent", "done", "failed"}, goal : Goal, size : 0 .. Length]
      /\ NoClears.st = "none" /\ NoClears.goal.s <= NoClears.goal.e
    BY CallTypes, RouteAssumption DEF NoClears, NoGoal
<1>5. Reset \in Policy /\ Reset.state = "CLEAR"
    BY RecoveryAssumption DEF Reset, Policy, RecoveryState
<1>6. ex' = Dispatch(x, cut)
    BY DEF ActivatePrepared
<1> HIDE DEF n
<1>7. /\ x \in LooseExecutor /\ x.calls = ex.calls /\ x.chunk = ex.chunk /\ x.clears = NoClears
      /\ x.phase = "ACTIVE" /\ x.mid = n /\ x.target = anchor /\ x.policy = Reset
      /\ x.credited = {} /\ x.sends = 0 /\ x.pending = ex.pending /\ x.action = ex.action
      /\ x.raised = ex.raised
    BY <1>1, <1>2, <1>3, <1>4, <1>5 DEF LooseExecutor, Phases
<1> HIDE DEF x
<1>8. WellFormed(x)
    BY <1>1, <1>4, <1>7 DEF WellFormed
<1>9. Sound(x)
    <2>1. 0 <= MaxAttempts + 1
        BY RecoveryAssumption
    <2> QED  BY <1>1, <1>3, <1>7, <1>8, <2>1 DEF Sound
<1>10. Onward(x, ex')
    BY <1>1, <1>2, <1>4, <1>6, <1>7, <1>9, DispatchOnward
<1>11. SendsTarget(ex, ex') /\ ex'.mid = n /\ ex'.clears.st = "none"
    BY <1>4, <1>7, <1>10 DEF Onward, SendsTarget
<1>12. Passes(ex, ex')
    BY <1>2, <1>10, <1>11 DEF Passes, Onward
<1>13. ex'.phase = "ACTIVE" => Retries(ex', nav, health, telemetry)
    BY <1>5, <1>7, <1>10, <1>11, NoRetry DEF Onward
<1> QED  BY <1>2, <1>11, <1>12, <1>13

-----------------------------------------------------------------------------
(* Calls on their way.                                                     *)

LEMMA CallsOnly ==
    ASSUME NEW x, Sound(x), NEW ds \in Seq(Call), Asks(ds, x.pending)
    PROVE  LET y == [x EXCEPT !.calls = ds]
           IN  /\ Sound(y) /\ Keeps(x, y) /\ Knows(x, y) /\ y.calls = ds /\ y.phase = x.phase
               /\ y.pending = x.pending /\ y.heard = x.heard
<1> DEFINE y == [x EXCEPT !.calls = ds]
<1>1. x \in LooseExecutor /\ WellFormed(x)
    BY SoundFacts
<1>2. WellFormed(y)
    BY <1>1, CallsKept
<1>3. /\ y.phase = x.phase /\ y.mid = x.mid /\ y.target = x.target
      /\ y.chunk = x.chunk /\ y.seen = x.seen /\ y.credited = x.credited
      /\ y.sends = x.sends /\ y.pending = x.pending /\ y.calls = ds
      /\ y.clears = x.clears /\ y.policy = x.policy /\ y.last = x.last
      /\ y.floor = x.floor /\ y.heard = x.heard /\ y.action = x.action /\ y.raised = x.raised
    BY <1>1 DEF LooseExecutor
<1> HIDE DEF y
<1>4. Sound(y)
    BY <1>2, <1>3 DEF Sound
<1> QED  BY <1>3, <1>4 DEF Keeps, Knows, y

LEMMA AsksWithout ==
    ASSUME NEW cs \in Seq(Call), NEW i \in 1 .. Len(cs), NEW p, Asks(cs, p)
    PROVE  LET w == Without(cs, i)
           IN  /\ w \in Seq(Call) /\ Len(w) = Len(cs) - 1
               /\ Asks(w, p) /\ (cs[i].current => Asks(w, FALSE))
               /\ Unserved(w) => Unserved(cs) /\ Len(cs) # 1
<1> DEFINE w == Without(cs, i)
           at(j) == IF j < i THEN j ELSE j + 1
<1>1. /\ w \in Seq(Call) /\ Len(w) = Len(cs) - 1 /\ Len(cs) \in Nat
      /\ \A j \in 1 .. Len(cs) - 1 : w[j] = IF j < i THEN cs[j] ELSE cs[j + 1]
    BY WithoutProperties
<1> HIDE DEF w
<1>2. \A j \in 1 .. Len(w) : at(j) \in 1 .. Len(cs) /\ at(j) # i /\ w[j] = cs[at(j)]
    BY <1>1
<1>3. \A j, k \in 1 .. Len(w) : at(j) = at(k) => j = k
    BY <1>1
<1> HIDE DEF at
<1>4. \A j \in 1 .. Len(cs) : /\ cs[j].goal.s <= cs[j].goal.e
                              /\ cs[j].current => cs[j].kind = "goal" /\ p
    BY DEF Asks
<1>5. \A j, k \in 1 .. Len(cs) : cs[j].current /\ cs[k].current => j = k
    BY DEF Asks
<1>6. \A j, k \in 1 .. Len(w) : w[j].current /\ w[k].current => j = k
    BY <1>2, <1>3, <1>5
<1>7. Asks(w, p)
    BY <1>2, <1>4, <1>6 DEF Asks
<1>8. cs[i].current => \A j \in 1 .. Len(w) : ~w[j].current
    BY <1>2, <1>5
<1>9. cs[i].current => Asks(w, FALSE)
    BY <1>6, <1>7, <1>8 DEF Asks
<1>10. Unserved(w) => Unserved(cs) /\ Len(cs) # 1
    <2>1. Unserved(w) => Unserved(cs)
        BY <1>2 DEF Unserved
    <2>2. Unserved(w) => 1 <= Len(w)
        BY <1>1 DEF Unserved
    <2> QED  BY <1>1, <2>1, <2>2
<1> QED  BY <1>1, <1>7, <1>9, <1>10 DEF w

LEMMA AsksUpdated ==
    ASSUME NEW cs \in Seq(Call), NEW i \in 1 .. Len(cs), NEW c \in Call, NEW ds,
           Updated(cs, ds, i, c), c.goal = cs[i].goal, c.current => cs[i].current,
           c.current => c.kind = cs[i].kind, NEW p, Asks(cs, p)
    PROVE  /\ ds \in Seq(Call) /\ Len(ds) = Len(cs) /\ Asks(ds, p)
           /\ cs[i].st \in {"sent", "failed"} \/ ~cs[i].current =>
                 (Unserved(ds) => Unserved(cs))
           /\ c.st \notin {"sent", "failed"} \/ ~c.current =>
                 (Unserved(ds) => Unserved(cs) /\ Len(cs) # 1)
<1>1. /\ ds \in Seq(Call) /\ Len(ds) = Len(cs) /\ ds[i] = c /\ Len(cs) \in Nat
      /\ \A j \in 1 .. Len(cs) : j # i => ds[j] = cs[j]
    BY DEF Updated
<1>2. \A j \in 1 .. Len(ds) : /\ ds[j].goal = cs[j].goal
                              /\ ds[j].current => cs[j].current /\ ds[j].kind = cs[j].kind
    BY <1>1
<1>3. Asks(ds, p)
    BY <1>1, <1>2 DEF Asks
<1>4. cs[i].st \in {"sent", "failed"} \/ ~cs[i].current => (Unserved(ds) => Unserved(cs))
    BY <1>1, <1>2 DEF Unserved
<1>5. c.st \notin {"sent", "failed"} \/ ~c.current =>
                 (Unserved(ds) => Unserved(cs) /\ Len(cs) # 1)
    <2> SUFFICES ASSUME c.st \notin {"sent", "failed"} \/ ~c.current, Unserved(ds)
                 PROVE  Unserved(cs) /\ Len(cs) # 1
        OBVIOUS
    <2>1. PICK j \in 1 .. Len(ds) : ds[j].current /\ ds[j].st \in {"sent", "failed"}
        BY DEF Unserved
    <2>2. j # i /\ j \in 1 .. Len(cs)
        BY <1>1, <2>1
    <2>3. cs[j].current /\ cs[j].st \in {"sent", "failed"}
        BY <1>1, <2>1, <2>2
    <2>4. Unserved(cs)
        BY <2>2, <2>3 DEF Unserved
    <2> QED  BY <1>1, <2>2, <2>4
<1> QED  BY <1>1, <1>3, <1>4, <1>5

(* What a step around the mission must not do: bring back what a retry     *)
(* relies on being over.                                                   *)
LEMMA RetriesAfter ==
    ASSUME NEW x, NEW n, NEW h, NEW t, Retries(x, n, h, t), NEW y, NEW m, NEW k, NEW u,
           y.policy = x.policy, y.pending = x.pending, y.heard = x.heard, Knows(x, y),
           y.clears.st # "none" =>
              x.clears.st # "none" /\ y.calls = x.calls /\ (Still(x, n, h, t) => Still(x, m, k, u)),
           Unserved(y.calls) => Unserved(x.calls),
           Unserved(y.calls) /\ Len(x.calls) = 1 =>
              Len(y.calls) = 1 /\ (Still(x, n, h, t) => Still(x, m, k, u)),
           Told(m, u) => Late(x, m) \/ (Told(n, t) /\ m.result = n.result /\ m.rid = n.rid)
    PROVE  Retries(y, m, k, u)
<1>1. Still(x, m, k, u) => Still(y, m, k, u)
    BY DEF Still, Late, Knows
<1>2. y.clears.st # "none" => /\ y.policy.state = "RECOVERING" /\ y.calls = <<>>
                              /\ y.pending = FALSE /\ Still(y, m, k, u)
    BY <1>1 DEF Retries
<1>3. Recovering(y.policy) /\ Unserved(y.calls) =>
          y.policy.state = "RECOVERING" /\ Len(y.calls) = 1 /\ Still(y, m, k, u)
    BY <1>1 DEF Retries
<1>4. Waiting(y.policy) => y.pending = FALSE /\ (y.heard /\ Told(m, u) => Late(y, m))
    BY DEF Retries, Late, Knows
<1> QED  BY <1>2, <1>3, <1>4 DEF Retries

LEMMA OnGoalRequestMission ==
    ASSUME CheckInv, NEW i \in DOMAIN ex.calls, OnGoalRequest(i)
    PROVE  Passes(ex, ex') /\ (ex'.phase = "ACTIVE" => Retries(ex', nav, health, telemetry))
<1> DEFINE c == ex.calls[i]
           w == Without(ex.calls, i)
           x == [ex EXCEPT !.calls = w]
           fl == IF c.st = "ok" THEN c.id ELSE ex.floor
           y == [x EXCEPT !.pending = FALSE, !.floor = fl]
<1>1. /\ Sound(ex) /\ ex \in LooseExecutor /\ i \in 1 .. Len(ex.calls) /\ ex.calls \in Seq(Call)
      /\ Len(ex.calls) \in Nat /\ c \in Call /\ ex.floor \in Int
      /\ ex.phase = "ACTIVE" => Fits(ex) /\ Retries(ex, nav, health, telemetry)
    <2>1. /\ Sound(ex) /\ ex \in LooseExecutor /\ i \in 1 .. Len(ex.calls) /\ ex.calls \in Seq(Call)
          /\ Len(ex.calls) \in Nat /\ ex.floor \in Int
          /\ ex.phase = "ACTIVE" => Fits(ex) /\ Retries(ex, nav, health, telemetry)
        BY CheckFacts, SoundFacts
    <2> QED  BY <2>1
<1>2. /\ w \in Seq(Call) /\ Len(w) = Len(ex.calls) - 1
      /\ Asks(w, ex.pending) /\ (c.current => Asks(w, FALSE))
      /\ Unserved(w) => Unserved(ex.calls) /\ Len(ex.calls) # 1
    BY <1>1, AsksWithout DEF Sound
<1>3. /\ c.st \in {"ok", "failed"}
      /\ \/ ~(c.current /\ ex.phase = "ACTIVE") /\ ex' = x
         \/ /\ c.current /\ ex.phase = "ACTIVE" /\ ex.policy.state = "RECOVERING"
            /\ ex' = FinishRecovery(y, c.st = "ok")
         \/ /\ c.current /\ ex.phase = "ACTIVE" /\ ex.policy.state # "RECOVERING"
            /\ ex' = IF c.st = "ok" THEN y ELSE Pause(y)
    BY DEF OnGoalRequest
<1>4. fl \in Int
    <2>1. c.id \in Nat
        BY <1>1 DEF Call
    <2> QED  BY <1>1, <2>1
<1>5. c.st # "ok" => fl = ex.floor
    OBVIOUS
<1>6. Unserved(w) => Len(ex.calls) # 1
    BY <1>2
<1>7. c.current /\ c.st = "failed" => Unserved(ex.calls)
    BY <1>1 DEF Unserved
<1>8. c.current => ex.pending = TRUE
    <2>1. ex.pending \in BOOLEAN
        BY <1>1 DEF LooseExecutor
    <2> QED  BY <1>1, <2>1 DEF Sound, Asks
<1>9. Len(w) <= Len(ex.calls)
    BY <1>1, <1>2
<1> HIDE DEF c, w, fl
<1>10. /\ Sound(x) /\ Keeps(ex, x) /\ Knows(ex, x) /\ x.calls = w /\ x.phase = ex.phase
       /\ x.pending = ex.pending /\ x.heard = ex.heard
    BY <1>1, <1>2, CallsOnly
<1>11. ex.phase = "ACTIVE" => ex.clears.st = "none"
    <2>1. ex.calls # <<>>
        BY <1>1
    <2> QED  BY <1>1, <2>1 DEF Retries
<1> HIDE DEF x
<1>12. CASE ~(c.current /\ ex.phase = "ACTIVE")
    <2>1. Passes(ex, x)
        BY <1>1, <1>9, <1>10, KeepsPasses
    <2>2. ASSUME ex.phase = "ACTIVE"  PROVE Retries(x, nav, health, telemetry)
        <3>1. x.policy = ex.policy /\ x.clears = ex.clears
            BY <1>10 DEF Keeps
        <3> QED  BY <1>1, <1>2, <1>6, <1>10, <1>11, <2>2, <3>1, RetriesAfter
    <2> QED  BY <1>3, <1>10, <1>12, <2>1, <2>2
<1>13. CASE c.current /\ ex.phase = "ACTIVE"
    <2>1. Fits(ex) /\ Retries(ex, nav, health, telemetry) /\ ~Waiting(ex.policy)
        BY <1>1, <1>8, <1>13 DEF Retries
    <2>2. /\ y \in LooseExecutor /\ y.phase = ex.phase /\ Keeps(ex, y) /\ y.pending = FALSE
          /\ y.calls = w /\ y.last = ex.last /\ y.floor = fl /\ y.heard = ex.heard
          /\ y.action = x.action /\ y.chunk = x.chunk /\ y.clears = x.clears
          /\ y.target = x.target /\ y.sends = x.sends /\ y.raised = x.raised
          /\ y.policy = ex.policy /\ y.clears = ex.clears /\ y.target = ex.target
        <3>1. x \in LooseExecutor
            BY <1>10, SoundFacts
        <3>2. /\ y \in LooseExecutor /\ y.phase = x.phase /\ y.mid = x.mid /\ y.target = x.target
              /\ y.chunk = x.chunk /\ y.seen = x.seen /\ y.credited = x.credited
              /\ y.sends = x.sends /\ y.pending = FALSE /\ y.calls = x.calls
              /\ y.clears = x.clears /\ y.policy = x.policy /\ y.last = x.last
              /\ y.floor = fl /\ y.heard = x.heard /\ y.action = x.action /\ y.raised = x.raised
            BY <1>4, <3>1 DEF LooseExecutor
        <3> HIDE DEF y
        <3>3. /\ x.phase = ex.phase /\ x.calls = w /\ x.heard = ex.heard /\ x.last = ex.last
              /\ x.mid = ex.mid /\ x.target = ex.target /\ x.chunk = ex.chunk
              /\ x.seen = ex.seen /\ x.credited = ex.credited /\ x.clears = ex.clears
              /\ x.policy = ex.policy /\ x.sends = ex.sends /\ x.raised = ex.raised
            BY <1>10 DEF Keeps, Knows
        <3> QED  BY <3>2, <3>3 DEF Keeps
    <2> HIDE DEF y
    <2>3. WellFormed(y)
        BY <1>10, <2>2, FieldsKept, SoundFacts
    <2>4. Sound(y)
        BY <1>2, <1>10, <1>13, <2>2, <2>3 DEF Sound
    <2>5. Fits(y) /\ Window(y)
        BY <2>1, <2>2 DEF Fits, Window, Rest, Counted, Keeps
    <2>6. Passes(ex, y)
        BY <1>1, <1>9, <1>13, <2>1, <2>2, <2>4, KeepsPasses
    <2>7. ~Unserved(w)
        BY <1>2, <1>13 DEF Asks, Unserved
    <2>8. CASE ex.policy.state = "RECOVERING" /\ c.st = "ok"
        <3> DEFINE yes == TRUE
                   f == FinishRecovery(y, yes)
        <3>1. ex' = f
            BY <1>3, <1>13, <2>8
        <3>7. yes \in BOOLEAN /\ yes
            OBVIOUS
        <3>8. Sound(y) /\ y.policy.state = "RECOVERING"
            BY <2>2, <2>4, <2>8
        <3> HIDE DEF yes
        <3>2. /\ Sound(f) /\ f.phase = y.phase /\ f.mid = y.mid /\ f.target = y.target
              /\ f.chunk = y.chunk /\ f.seen = y.seen /\ f.credited = y.credited
              /\ f.sends = y.sends /\ f.pending = y.pending /\ f.calls = y.calls
              /\ f.clears.st = "none" /\ f.policy.attempt = y.policy.attempt
              /\ f.policy.state = "CLEAR"
            BY <3>7, <3>8, FinishEffect
        <3> HIDE DEF f
        <3>3. y.clears.st = "none"
            BY <1>11, <1>13, <2>2
        <3>4. Fits(f)
            BY <2>5, <3>2, <3>3 DEF Fits, Window, Rest, Counted
        <3>5. Passes(ex, f)
            BY <1>1, <1>9, <2>2, <3>2, <3>4, StandsPasses
        <3>6. Retries(f, nav, health, telemetry)
            BY <3>2, NoRetry
        <3> QED  BY <3>1, <3>5, <3>6
    <2>9. CASE ex.policy.state = "RECOVERING" /\ c.st = "failed"
        <3> DEFINE f == FinishRecovery(y, FALSE)
        <3>1. ex' = f
            BY <1>3, <1>13, <2>9
        <3>2. Late(ex, nav)
            <4>1. Unserved(ex.calls) /\ Recovering(ex.policy)
                BY <1>7, <1>13, <2>9 DEF Recovering
            <4> QED  BY <2>1, <4>1 DEF Retries, Still
        <3>3. Late(y, nav)
            BY <1>5, <2>2, <2>9, <3>2 DEF Late
        <3>4. y.sends <= y.policy.attempt + 1
            BY <1>11, <1>13, <2>2, <2>5 DEF Fits, Counted
        <3>5. /\ Sound(f) /\ f.target = y.target /\ f.calls = y.calls /\ f.clears.st = "none"
              /\ Fits(f) /\ Retries(f, nav, health, telemetry)
            BY <2>2, <2>4, <2>5, <2>9, <3>3, <3>4, RefusedRetry
        <3> HIDE DEF f
        <3>6. Passes(ex, f)
            BY <1>1, <1>9, <2>2, <3>5, StandsPasses
        <3> QED  BY <3>1, <3>5, <3>6
    <2>10. CASE ex.policy.state # "RECOVERING"
        <3>1. CASE c.st = "ok"
            <4>1. ex' = y
                BY <1>3, <1>13, <2>10, <3>1
            <4>2. Retries(y, nav, health, telemetry)
                BY <1>11, <1>13, <2>1, <2>2, <2>7 DEF Retries
            <4> QED  BY <2>6, <4>1, <4>2
        <3>2. CASE c.st # "ok"
            <4>1. ex' = Pause(y)
                BY <1>3, <1>13, <2>10, <3>2
            <4>2. Passes(ex, ex') /\ ex'.phase # "ACTIVE"
                BY <1>1, <1>13, <2>1, <2>2, <2>4, <4>1, PausePasses
            <4> QED  BY <4>2
        <3> QED  BY <3>1, <3>2
    <2> QED  BY <1>3, <2>8, <2>9, <2>10
<1> QED  BY <1>12, <1>13

(* A step that changes only the calls, and the command server.             *)
LEMMA CallsMission ==
    ASSUME CheckInv, NEW m, NEW k, NEW u, NEW ds \in Seq(Call), Asks(ds, ex.pending),
           ex' = [ex EXCEPT !.calls = ds], ex.calls # <<>>, Len(ds) <= Len(ex.calls),
           Unserved(ds) => Unserved(ex.calls),
           Unserved(ds) /\ Len(ex.calls) = 1 =>
              Len(ds) = 1 /\ (Still(ex, nav, health, telemetry) => Still(ex, m, k, u)),
           Told(m, u) => /\ Told(nav, telemetry)
                         /\ m.result = nav.result /\ m.rid = nav.rid
    PROVE  Passes(ex, ex') /\ (ex'.phase = "ACTIVE" => Retries(ex', m, k, u))
<1>1. /\ Sound(ex)
      /\ ex.phase = "ACTIVE" => Fits(ex) /\ Retries(ex, nav, health, telemetry)
    BY CheckFacts
<1>2. /\ Sound(ex') /\ Keeps(ex, ex') /\ Knows(ex, ex') /\ ex'.calls = ds
      /\ ex'.phase = ex.phase /\ ex'.pending = ex.pending /\ ex'.heard = ex.heard
    BY <1>1, CallsOnly
<1>3. Passes(ex, ex')
    BY <1>1, <1>2, KeepsPasses
<1>4. ASSUME ex.phase = "ACTIVE"  PROVE Retries(ex', m, k, u)
    <2>1. ex'.policy = ex.policy /\ ex'.clears = ex.clears
        BY <1>2 DEF Keeps
    <2>2. ex.clears.st = "none"
        BY <1>1, <1>4 DEF Retries
    <2> QED  BY <1>1, <1>2, <1>4, <2>1, <2>2, RetriesAfter
<1> QED  BY <1>2, <1>3, <1>4

LEMMA CancelEndsMission ==
    ASSUME CheckInv, NEW i \in DOMAIN ex.calls, CancelEnds(i)
    PROVE  Passes(ex, ex') /\ (ex'.phase = "ACTIVE" => Retries(ex', nav, health, telemetry))
<1> DEFINE b == ex.calls[i]
           w == Without(ex.calls, i)
           c == [b EXCEPT !.kind = "cancel"]
           ds == [ex.calls EXCEPT ![i] = c]
<1>1. /\ Sound(ex) /\ i \in 1 .. Len(ex.calls) /\ ex.calls \in Seq(Call) /\ Len(ex.calls) \in Nat
      /\ Asks(ex.calls, ex.pending)
    BY CheckFacts, SoundFacts DEF Sound
<1>2. ex.calls # <<>> /\ b \in Call
    BY <1>1
<1>3. b.kind = "stop"
    BY DEF CancelEnds
<1>4. b.current = FALSE
    <2>1. b.current \in BOOLEAN
        BY <1>2 DEF Call
    <2> QED  BY <1>1, <1>3, <2>1 DEF Asks
<1>5. CASE ex' = [ex EXCEPT !.calls = w]
    <2>1. /\ w \in Seq(Call) /\ Len(w) = Len(ex.calls) - 1 /\ Asks(w, ex.pending)
          /\ Unserved(w) => Unserved(ex.calls) /\ Len(ex.calls) # 1
        BY <1>1, AsksWithout
    <2>3. Len(w) <= Len(ex.calls)
        BY <1>1, <2>1
    <2> HIDE DEF w
    <2> QED  BY <1>2, <1>5, <2>1, <2>3, CallsMission
<1>6. CASE ex' = [ex EXCEPT !.calls = ds]
    <2>1. c \in Call /\ c.goal = b.goal /\ c.current = FALSE
        <3> HIDE DEF b
        <3> QED  BY <1>2, <1>4 DEF Call
    <2>2. Updated(ex.calls, ds, i, c)
        <3> HIDE DEF c
        <3> QED  BY <1>1, <2>1, CallUpdated DEF Updated
    <2> HIDE DEF c, ds
    <2>3. /\ ds \in Seq(Call) /\ Len(ds) = Len(ex.calls) /\ Asks(ds, ex.pending)
          /\ Unserved(ds) => Unserved(ex.calls) /\ Len(ex.calls) # 1
        BY <1>1, <2>1, <2>2, AsksUpdated
    <2>4. Len(ds) <= Len(ex.calls)
        BY <1>1, <2>3
    <2> QED  BY <1>2, <1>6, <2>3, <2>4, CallsMission
<1>7. ex' = [ex EXCEPT !.calls = w] \/ ex' = [ex EXCEPT !.calls = ds]
    BY DEF CancelEnds
<1> QED  BY <1>5, <1>6, <1>7

LEMMA CancelMission ==
    ASSUME CheckInv, Cancel
    PROVE  Passes(ex, ex') /\ ex'.phase # "ACTIVE"
<1> DEFINE c == CancelCall("stop")
           a == Append(NewEpoch(ex.calls), c)
           p == IF ex.phase \in {"ACTIVE", "PAUSED"} THEN "CANCELLED" ELSE ex.phase
<1>1. /\ Sound(ex) /\ ex \in LooseExecutor /\ ex.calls \in Seq(Call) /\ Len(ex.calls) \in Nat
      /\ ex.target \in Nat /\ RouteTyped
    BY CheckFacts, SoundFacts
<1>2. WellFormed(ex') /\ ex'.phase # "ACTIVE" /\ ex'.action = "none"
    BY <1>1, CancelKeeps
<1>3. c \in Call /\ c.current = FALSE /\ c.goal.s <= c.goal.e /\ c.kind = "stop"
    BY CallTypes DEF CancelCall, NoGoal
<1> HIDE DEF c
<1>4. Asks(a, FALSE)
    BY <1>1, <1>3, AsksAppend DEF Sound
<1>5. Len(a) = Len(ex.calls) + 1 /\ a[Len(a)] = c
    BY <1>1, <1>3, EpochProperties
<1>6. ex' = [ex EXCEPT !.pending = FALSE, !.policy = Reset, !.clears = NoClears,
                       !.near = FALSE, !.credited = {}, !.action = "none",
                       !.phase = p, !.calls = a]
    BY DEF Cancel, c
<1> HIDE DEF a, p
<1>7. /\ ex'.target = ex.target /\ ex'.sends = ex.sends /\ ex'.raised = ex.raised
      /\ ex'.pending = FALSE /\ ex'.calls = a /\ ex'.clears = NoClears
    BY <1>1, <1>6 DEF LooseExecutor
<1>8. Sound(ex')
    BY <1>1, <1>2, <1>4, <1>7 DEF Sound
<1>9. Credits(ex, ex')
    BY <1>1, <1>7 DEF Credits
<1>10. SendsTarget(ex, ex')
    BY <1>3, <1>5, <1>7 DEF SendsTarget
<1>11. ex'.clears.st = "none"
    BY <1>7 DEF NoClears
<1> QED  BY <1>2, <1>8, <1>9, <1>10, <1>11 DEF Passes

LEMMA AnswerMission ==
    ASSUME CheckInv, NEW i \in DOMAIN ex.calls, NEW st \in {"ok", "failed"}, NEW id \in Nat,
           Answer(i, st, id), NEW m, NEW k, NEW u,
           ~ex.calls[i].current \/ ex.calls[i].st = "sent" \/ st = "ok",
           Still(ex, nav, health, telemetry) => Still(ex, m, k, u),
           Told(m, u) => /\ Told(nav, telemetry)
                         /\ m.result = nav.result /\ m.rid = nav.rid
    PROVE  Passes(ex, ex') /\ (ex'.phase = "ACTIVE" => Retries(ex', m, k, u))
<1> DEFINE b == ex.calls[i]
           w == Without(ex.calls, i)
           c == [b EXCEPT !.st = st, !.id = id]
           ds == [ex.calls EXCEPT ![i] = c]
<1>1. /\ Sound(ex) /\ i \in 1 .. Len(ex.calls) /\ ex.calls \in Seq(Call) /\ Len(ex.calls) \in Nat
      /\ Asks(ex.calls, ex.pending)
    BY CheckFacts, SoundFacts DEF Sound
<1>2. ex.calls # <<>> /\ b \in Call
    BY <1>1
<1>3. CASE ex' = [ex EXCEPT !.calls = w]
    <2>1. /\ w \in Seq(Call) /\ Len(w) = Len(ex.calls) - 1 /\ Asks(w, ex.pending)
          /\ Unserved(w) => Unserved(ex.calls) /\ Len(ex.calls) # 1
        BY <1>1, AsksWithout
    <2>2. Len(w) <= Len(ex.calls)
        BY <1>1, <2>1
    <2> HIDE DEF w
    <2> QED  BY <1>2, <1>3, <2>1, <2>2, CallsMission
<1>4. CASE ex' = [ex EXCEPT !.calls = ds]
    <2>1. /\ c \in Call /\ c.goal = b.goal /\ c.current = b.current /\ c.kind = b.kind
          /\ c.st = st
        <3> HIDE DEF b
        <3> QED  BY <1>2 DEF Call
    <2>2. Updated(ex.calls, ds, i, c)
        <3> HIDE DEF c
        <3> QED  BY <1>1, <2>1, CallUpdated DEF Updated
    <2> HIDE DEF c, ds
    <2>3. /\ ds \in Seq(Call) /\ Len(ds) = Len(ex.calls) /\ Asks(ds, ex.pending)
          /\ b.st \in {"sent", "failed"} \/ ~b.current => (Unserved(ds) => Unserved(ex.calls))
          /\ c.st \notin {"sent", "failed"} \/ ~c.current =>
                 (Unserved(ds) => Unserved(ex.calls) /\ Len(ex.calls) # 1)
        BY <1>1, <2>1, <2>2, AsksUpdated
    <2>4. Unserved(ds) => Unserved(ex.calls)
        BY <2>1, <2>3
    <2>5. Len(ds) <= Len(ex.calls)
        BY <1>1, <2>3
    <2> QED  BY <1>2, <1>4, <2>3, <2>4, <2>5, CallsMission
<1>5. ex' = [ex EXCEPT !.calls = w] \/ ex' = [ex EXCEPT !.calls = ds]
    BY DEF Answer
<1> QED  BY <1>3, <1>4, <1>5

(* The command server takes a call: that request is no longer unserved.    *)
LEMMA TakenMission ==
    ASSUME CheckInv, NEW i \in DOMAIN ex.calls, Taken(i), NEW m, NEW k, NEW u, ~Told(m, u)
    PROVE  Passes(ex, ex') /\ (ex'.phase = "ACTIVE" => Retries(ex', m, k, u))
<1> DEFINE b == ex.calls[i]
           c == [b EXCEPT !.st = "serving"]
           ds == [ex.calls EXCEPT ![i] = c]
<1>1. /\ Sound(ex) /\ i \in 1 .. Len(ex.calls) /\ ex.calls \in Seq(Call) /\ Len(ex.calls) \in Nat
      /\ Asks(ex.calls, ex.pending)
    BY CheckFacts, SoundFacts DEF Sound
<1>2. ex.calls # <<>> /\ b \in Call
    BY <1>1
<1>3. /\ c \in Call /\ c.goal = b.goal /\ c.current = b.current /\ c.kind = b.kind
      /\ c.st = "serving"
    <2> HIDE DEF b
    <2> QED  BY <1>2 DEF Call
<1>4. Updated(ex.calls, ds, i, c)
    <2> HIDE DEF c
    <2> QED  BY <1>1, <1>3, CallUpdated DEF Updated
<1>5. ex' = [ex EXCEPT !.calls = ds]
    BY DEF Taken
<1> HIDE DEF c, ds
<1>6. /\ ds \in Seq(Call) /\ Len(ds) = Len(ex.calls) /\ Asks(ds, ex.pending)
      /\ c.st \notin {"sent", "failed"} \/ ~c.current =>
             (Unserved(ds) => Unserved(ex.calls) /\ Len(ex.calls) # 1)
    BY <1>1, <1>3, <1>4, AsksUpdated
<1>7. Unserved(ds) => Unserved(ex.calls) /\ Len(ex.calls) # 1
    BY <1>3, <1>6
<1>8. Len(ds) <= Len(ex.calls)
    BY <1>1, <1>6
<1> QED  BY <1>2, <1>5, <1>6, <1>7, <1>8, CallsMission

(* The executor does nothing.                                              *)
LEMMA IdleMission ==
    ASSUME CheckInv, ex' = ex, NEW m, NEW k, NEW u,
           Still(ex, nav, health, telemetry) => Still(ex, m, k, u),
           Told(m, u) => \/ Late(ex, m)
                         \/ Told(nav, telemetry) /\ m.result = nav.result /\ m.rid = nav.rid
    PROVE  Passes(ex, ex') /\ (ex'.phase = "ACTIVE" => Retries(ex', m, k, u))
<1>1. /\ Sound(ex) /\ Len(ex.calls) \in Nat
      /\ ex.phase = "ACTIVE" => Fits(ex) /\ Retries(ex, nav, health, telemetry)
    BY CheckFacts, SoundFacts
<1>2. Keeps(ex, ex) /\ Knows(ex, ex) /\ Len(ex.calls) <= Len(ex.calls)
    BY <1>1 DEF Keeps, Knows
<1>3. Passes(ex, ex)
    BY <1>1, <1>2, KeepsPasses
<1>4. ASSUME ex.phase = "ACTIVE"  PROVE Retries(ex, m, k, u)
    <2>1. Retries(ex, nav, health, telemetry)
        BY <1>1, <1>4
    <2> QED  BY <1>2, <2>1, RetriesAfter
<1> QED  BY <1>3, <1>4

LEMMA ClearsAnswerMission ==
    ASSUME CheckInv, ClearsAnswer
    PROVE  Passes(ex, ex') /\ (ex'.phase = "ACTIVE" => Retries(ex', nav, health, telemetry))
<1>1. /\ Sound(ex) /\ ex \in LooseExecutor /\ Len(ex.calls) \in Nat /\ RouteTyped
      /\ ex.phase = "ACTIVE" => Fits(ex) /\ Retries(ex, nav, health, telemetry)
    BY CheckFacts, SoundFacts
<1>2. PICK st \in {"done", "failed"} : ex' = [ex EXCEPT !.clears.st = st]
    BY DEF ClearsAnswer
<1> DEFINE k == [ex.clears EXCEPT !.st = st]
<1>3. ex.clears \in [st : {"none", "sent", "done", "failed"}, goal : Goal, size : 0 .. Length]
    BY <1>1 DEF LooseExecutor
<1>4. k.goal = ex.clears.goal /\ k.size = ex.clears.size /\ k.st = st
    BY <1>3
<1>5. ex' = [ex EXCEPT !.clears = k]
    BY <1>2
<1>6. ex.clears.st = "sent"
    BY DEF ClearsAnswer
<1>7. WellFormed(ex')
    BY <1>1, ServicesKeep
<1> HIDE DEF k
<1>8. /\ ex'.phase = ex.phase /\ ex'.mid = ex.mid /\ ex'.target = ex.target
      /\ ex'.chunk = ex.chunk /\ ex'.seen = ex.seen /\ ex'.credited = ex.credited
      /\ ex'.sends = ex.sends /\ ex'.pending = ex.pending /\ ex'.calls = ex.calls
      /\ ex'.clears = k /\ ex'.policy = ex.policy /\ ex'.last = ex.last
      /\ ex'.floor = ex.floor /\ ex'.heard = ex.heard /\ ex'.action = ex.action
      /\ ex'.raised = ex.raised
    BY <1>1, <1>5 DEF LooseExecutor
<1>9. Sound(ex')
    BY <1>1, <1>7, <1>8 DEF Sound
<1>10. ex.phase = "ACTIVE" => Fits(ex')
    BY <1>1, <1>4, <1>6, <1>8 DEF Fits, Window, Rest, Counted
<1>11. Passes(ex, ex')
    <2>1. Len(ex'.calls) <= Len(ex.calls)
        BY <1>1, <1>8
    <2> QED  BY <1>1, <1>4, <1>8, <1>9, <1>10, <2>1, StandsPasses
<1>12. ASSUME ex.phase = "ACTIVE"  PROVE Retries(ex', nav, health, telemetry)
    <2>1. Retries(ex, nav, health, telemetry) /\ Knows(ex, ex')
        BY <1>1, <1>8, <1>12 DEF Knows
    <2> QED  BY <1>6, <1>8, <2>1, RetriesAfter
<1> QED  BY <1>8, <1>11, <1>12

-----------------------------------------------------------------------------
(* The command server, Nav2 and the robot.                                 *)

(* What the steps of Next do to the mission.                               *)
MissionStep ==
    /\ Passes(ex, ex')
    /\ ex'.phase = "ACTIVE" => Retries(ex', nav', health', telemetry')

LEMMA ServerMission ==
    ASSUME CheckInv, NEW i \in DOMAIN ex.calls,
           RefuseGoal(i) \/ ReplaceGoal(i) \/ SendGoal(i) \/ AnswerGoal(i)
              \/ CancelGoal(i) \/ AnswerCancel(i)
    PROVE  MissionStep /\ NavOK(nav', telemetry')
<1>1. /\ Sound(ex) /\ NavOK(nav, telemetry) /\ nav \in Nav /\ telemetry \subseteq Telemetry
      /\ i \in 1 .. Len(ex.calls) /\ ex.calls \in Seq(Call) /\ ex.calls[i] \in Call
    <2>1. /\ Sound(ex) /\ NavOK(nav, telemetry) /\ nav \in Nav /\ telemetry \subseteq Telemetry
          /\ i \in 1 .. Len(ex.calls) /\ ex.calls \in Seq(Call)
        BY CheckFacts
    <2> QED  BY <2>1
<1>2. ex.calls[i].current => ex.calls[i].kind = "goal"
    BY <1>1 DEF Sound, Asks
<1>3. CASE RefuseGoal(i)
    <2>1. Answer(i, "failed", 0) /\ ex.calls[i].st = "sent" /\ UNCHANGED <<health, nav, telemetry>>
        BY <1>3 DEF RefuseGoal, Served, outside
    <2>2. Passes(ex, ex') /\ (ex'.phase = "ACTIVE" => Retries(ex', nav, health, telemetry))
        BY <2>1, AnswerMission
    <2> QED  BY <1>1, <2>1, <2>2 DEF MissionStep
<1>4. CASE AnswerCancel(i)
    <2>1. /\ \E st \in {"ok", "failed"} : Answer(i, st, 0)
          /\ ~ex.calls[i].current /\ UNCHANGED <<health, nav, telemetry>>
        BY <1>2, <1>4 DEF AnswerCancel, outside
    <2>2. Passes(ex, ex') /\ (ex'.phase = "ACTIVE" => Retries(ex', nav, health, telemetry))
        BY <2>1, AnswerMission
    <2> QED  BY <1>1, <2>1, <2>2 DEF MissionStep
<1>5. CASE ReplaceGoal(i)
    <2>1. nav.active /\ nav' = [nav EXCEPT !.asked = TRUE] /\ UNCHANGED <<ex, health, telemetry>>
        BY <1>5 DEF ReplaceGoal
    <2>2. /\ nav'.active = nav.active /\ nav'.told = nav.told /\ nav'.goal = nav.goal
          /\ nav'.at = nav.at /\ nav'.result = nav.result /\ nav'.rid = nav.rid
        BY <1>1, <2>1 DEF Nav
    <2>3. NavOK(nav', telemetry)
        BY <1>1, <2>2 DEF NavOK
    <2>4. ~Told(nav', telemetry) /\ ~Still(ex, nav, health, telemetry)
        BY <2>1, <2>2 DEF Told, Still
    <2>5. Passes(ex, ex') /\ (ex'.phase = "ACTIVE" => Retries(ex', nav', health, telemetry))
        BY <2>1, <2>4, IdleMission
    <2> QED  BY <2>1, <2>3, <2>5 DEF MissionStep
<1>6. CASE SendGoal(i)
    <2> DEFINE g == ex.calls[i].goal
               at == g.s - 1
    <2>1. /\ Taken(i) /\ UNCHANGED telemetry
          /\ nav' = [nav EXCEPT !.active = TRUE, !.goal = g, !.at = at, !.asked = FALSE,
                                !.result = "none", !.failure = "", !.told = FALSE]
        BY <1>6 DEF SendGoal
    <2>2. g.s <= g.e /\ g.s \in Nat
        <3>1. g \in Goal /\ g.s <= g.e
            BY <1>1 DEF Call, Sound, Asks
        <3>2. g.s \in 0 .. Length - 1
            BY <3>1 DEF Goal, Index
        <3> QED  BY <3>1, <3>2
    <2>3. ~(at >= g.s)
        BY <2>2
    <2> HIDE DEF g, at
    <2>4. /\ nav'.active = TRUE /\ nav'.told = FALSE /\ nav'.goal = g /\ nav'.at = at
        BY <1>1, <2>1 DEF Nav
    <2>5. NavOK(nav', telemetry)
        BY <2>2, <2>3, <2>4 DEF NavOK
    <2>6. ~Told(nav', telemetry)
        BY <2>4 DEF Told
    <2>7. Passes(ex, ex') /\ (ex'.phase = "ACTIVE" => Retries(ex', nav', health', telemetry))
        BY <2>1, <2>6, TakenMission
    <2> QED  BY <2>1, <2>5, <2>7 DEF MissionStep
<1>7. CASE AnswerGoal(i)
    <2> DEFINE e == nav.events + 1
    <2>1. /\ nav' = [nav EXCEPT !.events = e] /\ Answer(i, "ok", nav'.events)
          /\ UNCHANGED <<health, telemetry>>
        BY <1>7 DEF AnswerGoal
    <2>2. e \in Nat
        BY <1>1 DEF Nav
    <2> HIDE DEF e
    <2>3. /\ nav'.active = nav.active /\ nav'.told = nav.told /\ nav'.goal = nav.goal
          /\ nav'.at = nav.at /\ nav'.result = nav.result /\ nav'.rid = nav.rid
          /\ nav'.events = e
        BY <1>1, <2>1 DEF Nav
    <2>4. NavOK(nav', telemetry)
        BY <1>1, <2>3 DEF NavOK
    <2>5. /\ Told(nav', telemetry) => Told(nav, telemetry)
          /\ Still(ex, nav, health, telemetry) => Still(ex, nav', health, telemetry)
        BY <2>3 DEF Told, Still, Late
    <2>6. Answer(i, "ok", e)
        BY <2>1, <2>3
    <2>7. Passes(ex, ex') /\ (ex'.phase = "ACTIVE" => Retries(ex', nav', health, telemetry))
        BY <2>2, <2>3, <2>5, <2>6, AnswerMission
    <2> QED  BY <2>1, <2>4, <2>7 DEF MissionStep
<1>8. CASE CancelGoal(i)
    <2>1. /\ nav.active /\ nav' = [nav EXCEPT !.asked = TRUE] /\ Taken(i)
          /\ UNCHANGED <<health, telemetry>>
        BY <1>8 DEF CancelGoal
    <2>2. /\ nav'.active = nav.active /\ nav'.told = nav.told /\ nav'.goal = nav.goal
          /\ nav'.at = nav.at /\ nav'.result = nav.result /\ nav'.rid = nav.rid
        BY <1>1, <2>1 DEF Nav
    <2>3. NavOK(nav', telemetry)
        BY <1>1, <2>2 DEF NavOK
    <2>4. ~Told(nav', telemetry)
        BY <2>1, <2>2 DEF Told
    <2>5. Passes(ex, ex') /\ (ex'.phase = "ACTIVE" => Retries(ex', nav', health, telemetry))
        BY <2>1, <2>4, TakenMission
    <2> QED  BY <2>1, <2>3, <2>5 DEF MissionStep
<1> QED  BY <1>3, <1>4, <1>5, <1>6, <1>7, <1>8

LEMMA WorldMission ==
    ASSUME CheckInv, World \/ PublishTelemetry \/ SetManualMode \/ OnMonitorState
    PROVE  MissionStep /\ NavOK(nav', telemetry')
<1>1. NavOK(nav, telemetry) /\ nav \in Nav /\ telemetry \subseteq Telemetry
    BY CheckFacts
<1>2. ASSUME NEW r \in Results, r # "none", NEW f \in FailureCodes, GoalResult(r, f)
      PROVE  MissionStep /\ NavOK(nav', telemetry')
    <2> DEFINE id == nav.events + 1
    <2>1. /\ nav.active
          /\ r = "succeeded" => nav.at = nav.goal.e
          /\ nav' = [nav EXCEPT !.active = FALSE, !.asked = FALSE, !.result = r,
                                !.rid = id, !.events = id, !.failure = f]
          /\ UNCHANGED <<ex, health, telemetry>>
        BY <1>2 DEF GoalResult
    <2> HIDE DEF id
    <2>2. /\ nav'.active = FALSE /\ nav'.told = nav.told /\ nav'.goal = nav.goal
          /\ nav'.at = nav.at /\ nav'.result = r
        BY <1>1, <2>1 DEF Nav
    <2>3. r = "succeeded" => nav.told = TRUE
        <3>1. nav.goal \in Goal /\ nav.goal.s <= nav.goal.e /\ nav.told \in BOOLEAN
            BY <1>1 DEF Nav, NavOK
        <3> QED  BY <1>1, <2>1, <3>1 DEF NavOK
    <2>4. NavOK(nav', telemetry)
        BY <1>1, <2>2, <2>3 DEF NavOK
    <2>5. Told(nav', telemetry) => Late(ex, nav')
        BY <2>2, <2>3 DEF Told, Late
    <2>6. ~Still(ex, nav, health, telemetry)
        BY <2>1 DEF Still
    <2>7. Passes(ex, ex') /\ (ex'.phase = "ACTIVE" => Retries(ex', nav', health, telemetry))
        BY <2>1, <2>5, <2>6, IdleMission
    <2> QED  BY <2>1, <2>4, <2>7 DEF MissionStep
<1>3. ASSUME NEW h \in Verdicts, EvaluatePath(h)
      PROVE  MissionStep /\ NavOK(nav', telemetry')
    <2>1. ~Still(ex, nav, health, telemetry) /\ UNCHANGED <<ex, nav, telemetry>>
        BY <1>3 DEF EvaluatePath, Still
    <2>2. Passes(ex, ex') /\ (ex'.phase = "ACTIVE" => Retries(ex', nav, health', telemetry))
        BY <2>1, IdleMission
    <2> QED  BY <1>1, <2>1, <2>2 DEF MissionStep
<1>4. CASE Move
    <2> DEFINE at == nav.at + 1
    <2>1. /\ nav.active /\ nav' = [nav EXCEPT !.at = at]
          /\ nav.at >= nav.goal.s \/ nav.told
          /\ UNCHANGED <<ex, health, telemetry>>
        BY <1>4 DEF Move
    <2> HIDE DEF at
    <2>2. /\ nav'.active = nav.active /\ nav'.told = nav.told /\ nav'.goal = nav.goal
          /\ nav'.result = nav.result /\ nav'.rid = nav.rid
        BY <1>1, <2>1 DEF Nav
    <2>3. nav.told
        BY <1>1, <2>1 DEF NavOK
    <2>4. NavOK(nav', telemetry)
        BY <1>1, <2>1, <2>2, <2>3 DEF NavOK
    <2>5. ~Told(nav', telemetry) /\ ~Still(ex, nav, health, telemetry)
        BY <2>1, <2>2 DEF Told, Still
    <2>6. Passes(ex, ex') /\ (ex'.phase = "ACTIVE" => Retries(ex', nav', health, telemetry))
        BY <2>1, <2>5, IdleMission
    <2> QED  BY <2>1, <2>4, <2>6 DEF MissionStep
<1>5. CASE PublishTelemetry
    <2> DEFINE m == [goalActive |-> nav.active, manual |-> nav.manual,
                      collision |-> nav.collision, result |-> nav.result,
                      rid |-> nav.rid, failure |-> nav.failure]
    <2>1. /\ telemetry' = {m} /\ nav' = [nav EXCEPT !.told = nav.active]
          /\ UNCHANGED <<ex, health>>
        BY <1>5 DEF PublishTelemetry
    <2>2. m.goalActive = nav.active /\ m.result = nav.result /\ m.rid = nav.rid
        OBVIOUS
    <2> HIDE DEF m
    <2>3. /\ nav'.active = nav.active /\ nav'.told = nav.active /\ nav'.goal = nav.goal
          /\ nav'.at = nav.at /\ nav'.result = nav.result /\ nav'.rid = nav.rid
        BY <1>1, <2>1 DEF Nav
    <2>4. NavOK(nav', telemetry')
        BY <1>1, <2>1, <2>2, <2>3 DEF NavOK
    <2>5. ~Told(nav', telemetry')
        BY <2>1 DEF Told
    <2>6. Still(ex, nav, health, telemetry) => Still(ex, nav', health, telemetry')
        BY <2>1, <2>2, <2>3 DEF Still, Late
    <2>7. Passes(ex, ex') /\ (ex'.phase = "ACTIVE" => Retries(ex', nav', health, telemetry'))
        BY <2>1, <2>5, <2>6, IdleMission
    <2> QED  BY <2>1, <2>4, <2>7 DEF MissionStep
<1>6. CASE SetManualMode \/ OnMonitorState
    <2>1. UNCHANGED <<ex, health, telemetry>>
        BY <1>6 DEF SetManualMode, OnMonitorState
    <2>2. /\ nav'.active = nav.active /\ nav'.told = nav.told /\ nav'.goal = nav.goal
          /\ nav'.at = nav.at /\ nav'.result = nav.result /\ nav'.rid = nav.rid
        <3>1. CASE SetManualMode
            BY <1>1, <3>1 DEF SetManualMode, Nav
        <3>2. CASE OnMonitorState
            BY <1>1, <3>2 DEF OnMonitorState, Nav
        <3> QED  BY <1>6, <3>1, <3>2
    <2>3. NavOK(nav', telemetry)
        BY <1>1, <2>2 DEF NavOK
    <2>4. /\ Told(nav', telemetry) => Told(nav, telemetry)
          /\ Still(ex, nav, health, telemetry) => Still(ex, nav', health, telemetry)
        BY <2>2 DEF Told, Still, Late
    <2>5. Passes(ex, ex') /\ (ex'.phase = "ACTIVE" => Retries(ex', nav', health, telemetry))
        BY <2>1, <2>2, <2>4, IdleMission
    <2> QED  BY <2>1, <2>3, <2>5 DEF MissionStep
<1>7. CASE World
    <2>1. CASE \E r \in Results \ {"none", "aborted"} : GoalResult(r, "")
        BY <1>2, <2>1 DEF FailureCodes
    <2>2. CASE \E f \in Failures : GoalResult("aborted", f)
        BY <1>2, <2>2, RouteAssumption DEF FailureCodes, Results
    <2> QED  BY <1>3, <1>4, <1>7, <2>1, <2>2 DEF World
<1> QED  BY <1>5, <1>6, <1>7

LEMMA CallbackMission ==
    ASSUME HasAction = {}, ~SlowCancel, CheckInv,
           \/ Set \/ PreparationFails \/ Cancel \/ Ticks \/ Answers
           \/ \E a \in Anchors, cut \in Cuts : ActivatePrepared(a, cut)
           \/ \E fresh \in BOOLEAN : OnPose(fresh)
           \/ \E m \in telemetry, cut \in Cuts : OnTelemetry(m, cut)
           \/ ClearsAnswer \/ ActionAnswer
    PROVE  MissionStep /\ NavOK(nav', telemetry')
<1>1. NavOK(nav, telemetry) /\ Sound(ex)
    BY CheckFacts
<1>2. CASE Set \/ PreparationFails
    <2>1. UNCHANGED <<ex, nav, health, telemetry>>
        BY <1>2 DEF Set, PreparationFails, outside
    <2>2. Passes(ex, ex') /\ (ex'.phase = "ACTIVE" => Retries(ex', nav, health, telemetry))
        BY <2>1, IdleMission
    <2> QED  BY <1>1, <2>1, <2>2 DEF MissionStep
<1>3. CASE Cancel
    <2>1. UNCHANGED <<nav, health, telemetry>>
        BY <1>3 DEF Cancel, outside
    <2> QED  BY <1>1, <1>3, <2>1, CancelMission DEF MissionStep
<1>4. ASSUME NEW due \in BOOLEAN, NEW served \in BOOLEAN, NEW cut \in Cuts,
             TickRecovery(due, served, cut)
      PROVE  MissionStep /\ NavOK(nav', telemetry')
    <2>1. UNCHANGED <<nav, health, telemetry>>
        BY <1>4 DEF TickRecovery, outside
    <2> QED  BY <1>1, <1>4, <2>1, TickMission DEF MissionStep
<1>5. ~ActionAnswer /\ \A cut \in Cuts : ~TickAction(cut)
    BY <1>1 DEF Sound, ActionAnswer, TickAction
<1>6. CASE Answers
    <2>1. UNCHANGED <<nav, health, telemetry>>
        BY <1>6 DEF Answers, OnGoalRequest, CancelEnds, outside
    <2> QED  BY <1>1, <1>6, <2>1, OnGoalRequestMission, CancelEndsMission DEF Answers, MissionStep
<1>7. ASSUME NEW a \in Anchors, NEW cut \in Cuts, ActivatePrepared(a, cut)
      PROVE  MissionStep /\ NavOK(nav', telemetry')
    <2>1. UNCHANGED <<nav, health, telemetry>>
        BY <1>7 DEF ActivatePrepared
    <2> QED  BY <1>1, <1>7, <2>1, ActivateMission DEF MissionStep
<1>8. ASSUME NEW fresh \in BOOLEAN, OnPose(fresh)
      PROVE  MissionStep /\ NavOK(nav', telemetry')
    <2>1. UNCHANGED <<nav, health, telemetry>>
        BY <1>8 DEF OnPose, outside
    <2> QED  BY <1>1, <1>8, <2>1, OnPoseMission DEF MissionStep
<1>9. ASSUME NEW m \in telemetry, NEW cut \in Cuts, OnTelemetry(m, cut)
      PROVE  MissionStep /\ NavOK(nav', telemetry')
    <2>1. telemetry' = {} /\ UNCHANGED <<nav, health>>
        BY <1>9 DEF OnTelemetry
    <2>2. NavOK(nav, {})
        BY <1>1 DEF NavOK
    <2> QED  BY <1>9, <2>1, <2>2, OnTelemetryMission DEF MissionStep
<1>10. CASE ClearsAnswer
    <2>1. UNCHANGED <<nav, health, telemetry>>
        BY <1>10 DEF ClearsAnswer, outside
    <2> QED  BY <1>1, <1>10, <2>1, ClearsAnswerMission DEF MissionStep
<1> QED  BY <1>2, <1>3, <1>4, <1>5, <1>6, <1>7, <1>8, <1>9, <1>10 DEF Ticks

-----------------------------------------------------------------------------
(* The invariant is inductive.                                             *)

LEMMA CheckInit == Init => CheckInv
<1> SUFFICES ASSUME Init PROVE CheckInv
    OBVIOUS
<1>1. RouteTyped
    BY RouteTypedInit
<1>2. /\ ex.action = "none" /\ ex.raised = FALSE /\ ex.calls = <<>> /\ ex.target = 0
      /\ ex.sends = 0 /\ ex.phase = "IDLE" /\ nav.goal = NoGoal /\ nav.active = FALSE
      /\ nav.result = "none"
    BY DEF Init
<1>3. 0 <= Length /\ 0 <= MaxAttempts + 1
    BY RouteAssumption, RecoveryAssumption
<1>4. Asks(ex.calls, ex.pending)
    <2>1. Len(ex.calls) = 0
        BY <1>2
    <2> QED  BY <2>1 DEF Asks
<1>5. Sound(ex)
    BY <1>1, <1>2, <1>3, <1>4 DEF Sound, RouteTyped
<1>6. NavOK(nav, telemetry)
    BY <1>2 DEF NavOK, NoGoal
<1> QED  BY <1>1, <1>2, <1>5, <1>6 DEF CheckInv, MissionOK

LEMMA CheckStep ==
    ASSUME HasAction = {}, ~SlowCancel, CheckInv, [Next]_vars
    PROVE  CheckInv' /\ (Next => Passes(ex, ex'))
<1>1. RouteTyped'
    BY RouteTypedStep DEF CheckInv
<1>2. CASE UNCHANGED vars
    <2>1. UNCHANGED <<ex, nav, health, telemetry>>
        BY <1>2 DEF vars, outside
    <2>2. MissionOK(ex', nav', health', telemetry') /\ NavOK(nav', telemetry')
        BY <2>1 DEF CheckInv
    <2>3. Passes(ex, ex')
        BY <2>1, IdleMission
    <2> QED  BY <1>1, <2>2, <2>3 DEF CheckInv
<1>3. CASE Next
    <2>1. CASE Server
        <3>1. CASE \E i \in DOMAIN ex.calls :
                     RefuseGoal(i) \/ ReplaceGoal(i) \/ SendGoal(i) \/ AnswerGoal(i)
                        \/ CancelGoal(i) \/ AnswerCancel(i)
            <4>1. MissionStep /\ NavOK(nav', telemetry')
                BY <3>1, ServerMission
            <4> QED  BY <1>1, <4>1 DEF MissionStep, Passes, MissionOK, CheckInv
        <3>2. CASE PublishTelemetry \/ ClearsAnswer \/ ActionAnswer
            <4>1. MissionStep /\ NavOK(nav', telemetry')
                BY <3>2, WorldMission, CallbackMission
            <4> QED  BY <1>1, <4>1 DEF MissionStep, Passes, MissionOK, CheckInv
        <3> QED  BY <2>1, <3>1, <3>2 DEF Server
    <2>2. CASE ~Server
        <3>1. MissionStep /\ NavOK(nav', telemetry')
            BY <1>3, <2>2, WorldMission, CallbackMission DEF Next
        <3> QED  BY <1>1, <3>1 DEF MissionStep, Passes, MissionOK, CheckInv
    <2> QED  BY <2>1, <2>2
<1> QED  BY <1>2, <1>3

(* For routes without waypoint actions, while cancellations end within the *)
(* wait before a retry: the invariant of the mission holds.                *)
THEOREM MissionInvariant == HasAction = {} /\ ~SlowCancel => (Spec => []CheckInv)
<1> SUFFICES ASSUME HasAction = {}, ~SlowCancel
             PROVE  Spec => []CheckInv
    OBVIOUS
<1>1. Init => CheckInv
    BY CheckInit
<1>2. CheckInv /\ [Next]_vars => CheckInv'
    BY CheckStep
<1> QED  BY <1>1, <1>2, PTL DEF Spec

(* No result, retry or suffix skips a checkpoint, whatever is lost, late,  *)
(* stopped, cancelled or replaced on the way (_complete_current_chunk,     *)
(* _advance, _check_recovery_clears).                                      *)
THEOREM CheckpointsAreNotSkipped ==
    HasAction = {} /\ ~SlowCancel => (Spec => NoSkippedCheckpoint)
<1> SUFFICES ASSUME HasAction = {}, ~SlowCancel
             PROVE  Spec => NoSkippedCheckpoint
    OBVIOUS
<1>1. CheckInv /\ [Next]_vars =>
        [ex'.mid = ex.mid => ex.target .. ex'.target - 1 \subseteq ex'.credited]_vars
    <2> SUFFICES ASSUME CheckInv, Next
                 PROVE  ex'.mid = ex.mid => ex.target .. ex'.target - 1 \subseteq ex'.credited
        OBVIOUS
    <2>1. Passes(ex, ex')
        BY CheckStep
    <2> QED  BY <2>1 DEF Passes, Credits
<1>2. Spec => []CheckInv
    BY MissionInvariant
<1> QED  BY <1>1, <1>2, PTL DEF Spec, NoSkippedCheckpoint

(* A goal is sent for the target of the mission, and a retry begins with a *)
(* checkpoint that has no credit (_begin_recovery_retry,                   *)
(* pending_checkpoint_suffix, _check_recovery_clears).                     *)
THEOREM RetriesSendPending ==
    HasAction = {} /\ ~SlowCancel => (Spec => RetrySendsPending)
<1> SUFFICES ASSUME HasAction = {}, ~SlowCancel
             PROVE  Spec => RetrySendsPending
    OBVIOUS
<1>1. CheckInv /\ [Next]_vars =>
        [/\ (Len(ex'.calls) = Len(ex.calls) + 1 /\ ex'.calls[Len(ex'.calls)].kind = "goal") =>
               ex'.chunk.s = ex'.target
         /\ (ex.clears.st = "none" /\ ex'.clears.st = "sent") =>
               ex'.clears.goal.s \notin ex'.credited]_vars
    <2> SUFFICES ASSUME CheckInv, Next
                 PROVE  /\ (/\ Len(ex'.calls) = Len(ex.calls) + 1
                            /\ ex'.calls[Len(ex'.calls)].kind = "goal") => ex'.chunk.s = ex'.target
                        /\ (ex.clears.st = "none" /\ ex'.clears.st = "sent") =>
                              ex'.clears.goal.s \notin ex'.credited
        OBVIOUS
    <2>1. Passes(ex, ex')
        BY CheckStep
    <2> QED  BY <2>1 DEF Passes, SendsTarget
<1>2. Spec => []CheckInv
    BY MissionInvariant
<1> QED  BY <1>1, <1>2, PTL DEF Spec, RetrySendsPending

(* At most 1 + max_attempts goals between two advances of the mission, and *)
(* no callback raises (BlockedRecoveryPolicy, finish_retry, _advance).     *)
THEOREM RetriesAreBounded == HasAction = {} /\ ~SlowCancel => (Spec => []RetryBudget)
<1> SUFFICES ASSUME HasAction = {}, ~SlowCancel
             PROVE  Spec => []RetryBudget
    OBVIOUS
<1>1. CheckInv => RetryBudget
    BY DEF CheckInv, MissionOK, Sound, RetryBudget, NeverRaises
<1>2. Spec => []CheckInv
    BY MissionInvariant
<1> QED  BY <1>1, <1>2, PTL

(* The types, with the target of a mission inside its route or at its end  *)
(* (_dispatch_current_chunk, _advance).                                    *)
THEOREM RouteTypeOK == HasAction = {} /\ ~SlowCancel => (Spec => []TypeOK)
<1> SUFFICES ASSUME HasAction = {}, ~SlowCancel
             PROVE  Spec => []TypeOK
    OBVIOUS
<1>1. CheckInv => TypeOK
    <2> SUFFICES ASSUME CheckInv PROVE TypeOK
        OBVIOUS
    <2>1. ex \in LooseExecutor /\ ex.target \in 0 .. Length
        <3>1. ex \in LooseExecutor /\ ex.target \in Nat /\ ex.target <= Length
            BY CheckFacts, SoundFacts DEF Sound
        <3> QED  BY <3>1, RouteAssumption
    <2>2. ex \in Executor
        BY <2>1 DEF LooseExecutor, Executor
    <2> QED  BY <2>2, CheckFacts DEF RouteTyped, TypeOK
<1>2. Spec => []CheckInv
    BY MissionInvariant
<1> QED  BY <1>1, <1>2, PTL

-----------------------------------------------------------------------------
(* Credit is physical.  Within one mission, what could still complete the  *)
(* window is a success of a goal that ends where the window ends: a goal   *)
(* that was replaced has ended and was heard of before the next is sent.   *)

(* The goals that Nav2 has not seen yet, and the numbers of the answers    *)
(* that the executor still waits for.                                      *)
Requested(cs) ==
    {cs[i].goal : i \in {j \in 1 .. Len(cs) : cs[j].kind = "goal" /\ cs[j].st = "sent"}}
Granted(cs) == {cs[i].id : i \in {j \in 1 .. Len(cs) : cs[j].current /\ cs[j].st = "ok"}}

AllLate(x, n, t) == Late(x, n) /\ \A m \in t : Late(x, m)

(* What an active mission may take for the completion of its window: while *)
(* a goal is requested or runs, no success is left to take; one that is    *)
(* left was of a goal that ends with the window, and the robot was there.  *)
Evidence(x, n, t, tr) ==
    /\ n.active = TRUE \/ Requested(x.calls) # {} => AllLate(x, n, t)
    /\ ~AllLate(x, n, t) => x.chunk.e \in tr
    /\ x.near = TRUE => x.chunk.e \in tr
    /\ \A g \in Requested(x.calls) : g.e = x.chunk.e
    /\ n.active = TRUE => n.goal.e = x.chunk.e
    /\ n.active = TRUE /\ Requested(x.calls) # {} => n.at < n.goal.s

Numbered(x, n) ==
    x.floor <= n.events /\ \A k \in Granted(x.calls) : x.floor <= k /\ k <= n.events

CreditOK(x, n, t, tr) ==
    /\ x.credited \subseteq tr
    /\ Numbered(x, n)
    /\ x.phase = "ACTIVE" => Evidence(x, n, t, tr)

(* Before the mission there is no goal.                                    *)
Unsent(x, n, t) ==
    x.mid = 0 => /\ n.active = FALSE /\ n.result # "succeeded"
                 /\ \A m \in t : m.result # "succeeded"
                 /\ Requested(x.calls) = {}

(* A goal that runs has no result, the robot is where it says, and no      *)
(* telemetry about an earlier goal is left once the robot has moved.       *)
DriveOK(n, t, tr) ==
    /\ n.active = TRUE => n.result = "none"
    /\ n.active = TRUE /\ n.at >= n.goal.s => n.at \in tr /\ \A m \in t : m.result = "none"
    /\ n.result = "succeeded" => \A m \in t : m.result = "succeeded" => m.rid = n.rid

Seen(x, r, tr) == x.mid > 0 => r \in tr /\ x.pose \in tr

CreditInv ==
    /\ CheckInv
    /\ CreditOK(ex, nav, telemetry, trail) /\ Unsent(ex, nav, telemetry)
    /\ DriveOK(nav, telemetry, trail) /\ Seen(ex, robot, trail)

-----------------------------------------------------------------------------
(* What the methods do to the calls and to the evidence.                   *)

LEMMA ViewAppend ==
    ASSUME NEW cs \in Seq(Call), NEW c \in Call, c.st = "sent"
    PROVE  LET a == Append(NewEpoch(cs), c)
           IN  /\ Requested(a) \subseteq Requested(cs) \union {c.goal}
               /\ c.kind # "goal" => Requested(a) \subseteq Requested(cs)
               /\ Granted(a) = {}
<1> DEFINE a == Append(NewEpoch(cs), c)
<1>1. /\ a \in Seq(Call) /\ Len(a) = Len(cs) + 1 /\ a[Len(cs) + 1] = c /\ Len(cs) \in Nat
      /\ \A j \in 1 .. Len(cs) :
            /\ a[j].kind = cs[j].kind /\ a[j].st = cs[j].st /\ a[j].goal = cs[j].goal
            /\ ~a[j].current
    BY EpochProperties
<1> HIDE DEF a
<1>2. \A j \in 1 .. Len(a) : j = Len(cs) + 1 \/ j \in 1 .. Len(cs)
    BY <1>1
<1>3. Granted(a) = {}
    BY <1>1, <1>2 DEF Granted
<1>4. ASSUME NEW g \in Requested(a)
      PROVE  g \in Requested(cs) \/ (g = c.goal /\ c.kind = "goal")
    <2>1. PICK j \in 1 .. Len(a) : a[j].kind = "goal" /\ a[j].st = "sent" /\ g = a[j].goal
        BY DEF Requested
    <2> QED  BY <1>1, <1>2, <2>1 DEF Requested
<1> QED  BY <1>3, <1>4 DEF a

LEMMA ViewWithout ==
    ASSUME NEW cs \in Seq(Call), NEW i \in 1 .. Len(cs)
    PROVE  LET w == Without(cs, i)
           IN  /\ w \in Seq(Call)
               /\ Requested(w) \subseteq Requested(cs) /\ Granted(w) \subseteq Granted(cs)
<1> DEFINE w == Without(cs, i)
           at(j) == IF j < i THEN j ELSE j + 1
<1>1. /\ w \in Seq(Call) /\ Len(w) = Len(cs) - 1 /\ Len(cs) \in Nat
      /\ \A j \in 1 .. Len(cs) - 1 : w[j] = IF j < i THEN cs[j] ELSE cs[j + 1]
    BY WithoutProperties
<1> HIDE DEF w
<1>2. \A j \in 1 .. Len(w) : at(j) \in 1 .. Len(cs) /\ w[j] = cs[at(j)]
    BY <1>1
<1> HIDE DEF at
<1>3. ASSUME NEW g \in Requested(w)  PROVE g \in Requested(cs)
    <2>1. PICK j \in 1 .. Len(w) : w[j].kind = "goal" /\ w[j].st = "sent" /\ g = w[j].goal
        BY DEF Requested
    <2> QED  BY <1>2, <2>1 DEF Requested
<1>4. ASSUME NEW k \in Granted(w)  PROVE k \in Granted(cs)
    <2>1. PICK j \in 1 .. Len(w) : w[j].current /\ w[j].st = "ok" /\ k = w[j].id
        BY DEF Granted
    <2> QED  BY <1>2, <2>1 DEF Granted
<1> QED  BY <1>1, <1>3, <1>4 DEF w

LEMMA ViewUpdated ==
    ASSUME NEW cs \in Seq(Call), NEW i \in 1 .. Len(cs), NEW c \in Call, NEW ds,
           Updated(cs, ds, i, c), c.st # "sent" \/ c.kind # "goal"
    PROVE  /\ Requested(ds) \subseteq Requested(cs)
           /\ Granted(ds) \subseteq Granted(cs) \union {c.id}
           /\ ~c.current \/ c.st # "ok" => Granted(ds) \subseteq Granted(cs)
<1>1. /\ ds \in Seq(Call) /\ Len(ds) = Len(cs) /\ ds[i] = c /\ Len(cs) \in Nat
      /\ \A j \in 1 .. Len(cs) : j # i => ds[j] = cs[j]
    BY DEF Updated
<1>2. ASSUME NEW g \in Requested(ds)  PROVE g \in Requested(cs)
    <2>1. PICK j \in 1 .. Len(ds) : ds[j].kind = "goal" /\ ds[j].st = "sent" /\ g = ds[j].goal
        BY DEF Requested
    <2> QED  BY <1>1, <2>1 DEF Requested
<1>3. ASSUME NEW k \in Granted(ds)
      PROVE  k \in Granted(cs) \/ (k = c.id /\ c.current /\ c.st = "ok")
    <2>1. PICK j \in 1 .. Len(ds) : ds[j].current /\ ds[j].st = "ok" /\ k = ds[j].id
        BY DEF Granted
    <2> QED  BY <1>1, <2>1 DEF Granted
<1> QED  BY <1>2, <1>3

LEMMA NothingRequested == Requested(<<>>) = {} /\ Granted(<<>>) = {}
<1>1. Len(<<>>) = 0
    OBVIOUS
<1> QED  BY <1>1 DEF Requested, Granted

(* The mission gains nothing, and may lose its phase.                      *)
Quiet(x, y) ==
    /\ y.mid = x.mid /\ y.pose = x.pose /\ y.credited \subseteq x.credited
    /\ x.last \in Int /\ y.last \in Int /\ x.floor \in Int /\ y.floor \in Int /\ x.last <= y.last
    /\ Requested(y.calls) \subseteq Requested(x.calls)
    /\ Granted(y.calls) \subseteq Granted(x.calls)
    /\ y.floor = x.floor \/ (y.floor \in Granted(x.calls) /\ Granted(y.calls) = {})
    /\ y.phase = "ACTIVE" =>
          x.phase = "ACTIVE" /\ y.chunk = x.chunk /\ (y.near = TRUE => x.near = TRUE)

LEMMA QuietTrans ==
    ASSUME NEW x, NEW y, NEW z, Quiet(x, y), Quiet(y, z)
    PROVE  Quiet(x, z)
BY DEF Quiet

Timed(n, t) == n.rid \in Int /\ n.events \in Int /\ \A m \in t : m.rid \in Int

LEMMA QuietKeeps ==
    ASSUME NEW x, NEW y, Quiet(x, y), NEW n, NEW t, NEW u \in SUBSET t, Timed(n, t), NEW tr,
           CreditOK(x, n, t, tr)
    PROVE  CreditOK(y, n, u, tr)
<1>1. Numbered(y, n)
    BY DEF Quiet, CreditOK, Numbered, Timed
<1>2. x.floor <= y.floor
    BY DEF Quiet, CreditOK, Numbered
<1>3. AllLate(x, n, t) => AllLate(y, n, u)
    <2>1. \A m : m.rid \in Int /\ Late(x, m) => Late(y, m)
        BY <1>2 DEF Late, Quiet
    <2> QED  BY <2>1 DEF AllLate, Timed
<1>4. ASSUME y.phase = "ACTIVE"  PROVE Evidence(y, n, u, tr)
    <2>1. Evidence(x, n, t, tr) /\ y.chunk = x.chunk /\ (y.near = TRUE => x.near = TRUE)
          /\ Requested(y.calls) \subseteq Requested(x.calls)
        BY <1>4 DEF Quiet, CreditOK
    <2> QED  BY <1>3, <2>1 DEF Evidence
<1>5. y.credited \subseteq tr
    BY DEF Quiet, CreditOK
<1> QED  BY <1>1, <1>4, <1>5 DEF CreditOK

(* A method that leaves the calls and the window alone.                    *)
LEMMA SameQuiet ==
    ASSUME NEW x, NEW y, x.last \in Int, x.floor \in Int, y.mid = x.mid, y.pose = x.pose,
           y.credited = x.credited, y.last = x.last, y.floor = x.floor, y.calls = x.calls,
           y.phase = x.phase, y.chunk = x.chunk, y.near = TRUE => x.near = TRUE
    PROVE  Quiet(x, y)
BY DEF Quiet

LEMMA PauseQuiet ==
    ASSUME NEW x, x \in LooseExecutor
    PROVE  Quiet(x, Pause(x)) /\ Pause(x).phase # "ACTIVE" /\ Pause(x).credited = x.credited
<1> DEFINE c == CancelCall("cancel")
           a == Append(NewEpoch(x.calls), c)
           ph == IF x.phase = "ACTIVE" THEN "PAUSED" ELSE x.phase
           y == Pause(x)
<1>1. x.calls \in Seq(Call) /\ x.last \in Int /\ x.floor \in Int
    BY DEF LooseExecutor
<1>2. c \in Call /\ c.kind # "goal" /\ c.st = "sent"
    BY CallTypes
<1> HIDE DEF c
<1>3. Requested(a) \subseteq Requested(x.calls) /\ Granted(a) = {}
    BY <1>1, <1>2, ViewAppend
<1>4. y = [x EXCEPT !.pending = FALSE, !.near = FALSE, !.action = "none", !.phase = ph, !.calls = a]
    BY DEF Pause, LooseExecutor, c
<1>5. ph # "ACTIVE"
    OBVIOUS
<1> HIDE DEF a, ph, y
<1>6. /\ y.mid = x.mid /\ y.pose = x.pose /\ y.credited = x.credited /\ y.last = x.last
      /\ y.floor = x.floor /\ y.calls = a /\ y.phase = ph
    BY <1>4 DEF LooseExecutor
<1> QED  BY <1>1, <1>3, <1>5, <1>6 DEF Quiet, y

LEMMA StopQuiet ==
    ASSUME NEW x, x \in LooseExecutor
    PROVE  Quiet(x, StopForRecovery(x))
<1> DEFINE c == CancelCall("cancel")
           a == Append(NewEpoch(x.calls), c)
           y == StopForRecovery(x)
<1>1. x.calls \in Seq(Call) /\ x.last \in Int /\ x.floor \in Int
    BY DEF LooseExecutor
<1>2. c \in Call /\ c.kind # "goal" /\ c.st = "sent"
    BY CallTypes
<1>3. y = [x EXCEPT !.pending = FALSE, !.calls = a]
    BY DEF StopForRecovery
<1> HIDE DEF c
<1>4. Requested(a) \subseteq Requested(x.calls) /\ Granted(a) = {}
    BY <1>1, <1>2, ViewAppend
<1> HIDE DEF a, y
<1>5. /\ y.mid = x.mid /\ y.pose = x.pose /\ y.credited = x.credited /\ y.last = x.last
      /\ y.floor = x.floor /\ y.calls = a /\ y.phase = x.phase /\ y.chunk = x.chunk
      /\ y.near = x.near
    BY <1>3 DEF LooseExecutor
<1> QED  BY <1>1, <1>4, <1>5 DEF Quiet, y

LEMMA FinishQuiet ==
    ASSUME NEW x, x \in LooseExecutor, NEW accepted \in BOOLEAN
    PROVE  LET y == FinishRecovery(x, accepted)
           IN  Quiet(x, y) /\ y.calls = x.calls /\ y.near = x.near /\ y.phase = x.phase
               /\ y.chunk = x.chunk /\ y.credited = x.credited /\ y.last = x.last
               /\ y.floor = x.floor /\ y.mid = x.mid /\ y.pose = x.pose
<1> DEFINE p == FinishRetry(x.policy, accepted)
           f == IF accepted THEN "" ELSE x.failure
           c == x.collision /\ ~accepted
           r == TRUE
           y == FinishRecovery(x, accepted)
<1>1. x.last \in Int /\ x.floor \in Int
    BY DEF LooseExecutor
<1>2. \/ y = [x EXCEPT !.clears = NoClears, !.policy = p, !.failure = f, !.collision = c]
      \/ y = [x EXCEPT !.clears = NoClears, !.raised = r]
    BY DEF FinishRecovery
<1> HIDE DEF p, f, c, r, y
<1>3. /\ y.mid = x.mid /\ y.pose = x.pose /\ y.credited = x.credited /\ y.last = x.last
      /\ y.floor = x.floor /\ y.calls = x.calls /\ y.phase = x.phase /\ y.chunk = x.chunk
      /\ y.near = x.near
    <2>1. CASE y = [x EXCEPT !.clears = NoClears, !.policy = p, !.failure = f, !.collision = c]
        BY <2>1 DEF LooseExecutor
    <2>2. CASE y = [x EXCEPT !.clears = NoClears, !.raised = r]
        BY <2>2 DEF LooseExecutor
    <2> QED  BY <1>2, <2>1, <2>2
<1>4. Quiet(x, y)
    BY <1>1, <1>3, SameQuiet
<1> QED  BY <1>3, <1>4 DEF y

(* A goal is sent while Nav2 has none and every success has been taken.    *)
LEMMA SendCredit ==
    ASSUME NEW x, x \in LooseExecutor, Requested(x.calls) = {}, NEW n, n.active = FALSE,
           n.events \in Int, NEW t, AllLate(x, n, t), NEW tr, x.credited \subseteq tr,
           Numbered(x, n)
    PROVE  LET y == SendChunk(x)
           IN  CreditOK(y, n, t, tr) /\ y.near = FALSE /\ y.mid = x.mid /\ y.pose = x.pose
<1> DEFINE g == x.chunk
           c == [kind |-> "goal", current |-> TRUE, goal |-> g, st |-> "sent", id |-> 0]
           a == Append(NewEpoch(x.calls), c)
           from == x.chunk.s
           k == x.sends + 1
           no == FALSE
           yes == TRUE
           y == SendChunk(x)
<1>1. x.calls \in Seq(Call) /\ x.last \in Int /\ x.floor \in Int /\ g \in Goal
    BY DEF LooseExecutor
<1> HIDE DEF g
<1>2. c \in Call /\ c.st = "sent" /\ c.goal = g
    BY <1>1 DEF Call
<1> HIDE DEF c
<1>3. Requested(a) \subseteq {g} /\ Granted(a) = {}
    BY <1>1, <1>2, ViewAppend
<1>4. y = [x EXCEPT !.seen = from, !.near = no, !.pending = yes, !.sends = k, !.calls = a]
    BY DEF SendChunk, c, g
<1> HIDE DEF a, from, k, no, yes, y
<1>5. /\ y.mid = x.mid /\ y.pose = x.pose /\ y.credited = x.credited /\ y.last = x.last
      /\ y.floor = x.floor /\ y.calls = a /\ y.chunk = g /\ y.near = no
    BY <1>4 DEF LooseExecutor, g
<1>6. AllLate(y, n, t)
    BY <1>5 DEF AllLate, Late
<1>7. Evidence(y, n, t, tr)
    BY <1>3, <1>5, <1>6 DEF Evidence, no
<1>8. Numbered(y, n)
    BY <1>3, <1>5 DEF Numbered
<1> QED  BY <1>5, <1>7, <1>8 DEF CreditOK, y, no

LEMMA DispatchCredit ==
    ASSUME NEW x, x \in LooseExecutor, Requested(x.calls) = {}, NEW n, n.active = FALSE,
           n.events \in Int, n.rid \in Int, NEW t, \A m \in t : m.rid \in Int, AllLate(x, n, t),
           NEW tr, x.credited \subseteq tr, Numbered(x, n), NEW cut \in Nat
    PROVE  LET y == Dispatch(x, cut)
           IN  CreditOK(y, n, t, tr) /\ y.mid = x.mid /\ y.pose = x.pose
<1> DEFINE y == Dispatch(x, cut)
<1>1. x.target \in Nat /\ Length \in Nat
    BY RouteAssumption DEF LooseExecutor
<1>2. CASE x.target >= Length
    <2>1. y = [x EXCEPT !.phase = "COMPLETED", !.chunk = NoGoal]
        BY <1>2 DEF Dispatch
    <2> HIDE DEF y
    <2>2. /\ y.phase = "COMPLETED" /\ y.mid = x.mid /\ y.pose = x.pose /\ y.credited = x.credited
          /\ y.floor = x.floor /\ y.calls = x.calls
        BY <2>1 DEF LooseExecutor
    <2>3. CreditOK(y, n, t, tr)
        BY <2>2 DEF CreditOK, Numbered
    <2> QED  BY <2>2, <2>3 DEF y
<1>3. CASE x.target < Length
    <2>1. PICK g \in Goal : \/ y = Pause([x EXCEPT !.chunk = g])
                            \/ y = SendChunk([x EXCEPT !.chunk = g])
        BY <1>3, DispatchWindow
    <2> DEFINE z == [x EXCEPT !.chunk = g]
    <2>2. /\ z \in LooseExecutor /\ z.mid = x.mid /\ z.pose = x.pose /\ z.credited = x.credited
          /\ z.last = x.last /\ z.floor = x.floor /\ z.calls = x.calls
        BY DEF LooseExecutor
    <2>3. y = Pause(z) \/ y = SendChunk(z)
        BY <2>1
    <2> HIDE DEF z, y
    <2>4. AllLate(z, n, t) /\ Numbered(z, n)
        BY <2>2 DEF AllLate, Late, Numbered
    <2>5. CASE y = Pause(z)
        <3>1. Quiet(z, y) /\ y.phase # "ACTIVE"
            BY <2>2, <2>5, PauseQuiet
        <3>2. Numbered(y, n)
            BY <2>4, <3>1 DEF Quiet, Numbered
        <3> QED  BY <2>2, <3>1, <3>2 DEF Quiet, CreditOK, y
    <2>6. CASE y = SendChunk(z)
        BY <2>2, <2>4, <2>6, SendCredit DEF y
    <2> QED  BY <2>3, <2>5, <2>6
<1> QED  BY <1>1, <1>2, <1>3

LEMMA CompleteCredit ==
    ASSUME HasAction = {}, NEW x, x \in LooseExecutor, Requested(x.calls) = {}, NEW n,
           n.active = FALSE, n.events \in Int, n.rid \in Int, NEW t, \A m \in t : m.rid \in Int,
           AllLate(x, n, t), NEW tr, x.credited \subseteq tr, Numbered(x, n), x.chunk.e \in tr,
           NEW cut \in Nat
    PROVE  LET y == CompleteChunk(x, cut)
           IN  CreditOK(y, n, t, tr) /\ y.mid = x.mid /\ y.pose = x.pose
<1> DEFINE end == x.chunk.e
           k == x.credited \union {end}
           y == [x EXCEPT !.credited = k]
           to == end + 1
           z == [y EXCEPT !.target = to, !.sends = 0]
           yes == TRUE
           r == [y EXCEPT !.raised = yes]
           c == CompleteChunk(x, cut)
<1>1. end \in Index /\ x.credited \subseteq Index /\ to \in Nat
    <2>1. x.chunk \in Goal /\ x.credited \subseteq Index
        BY DEF LooseExecutor
    <2>2. x.chunk.e \in Index /\ x.chunk.e \in Nat
        BY <2>1, RouteAssumption DEF Goal, Index
    <2> QED  BY <2>1, <2>2
<1>2. k \subseteq Index /\ k \subseteq tr
    BY <1>1
<1>3. CASE x.seen < end
    <2>1. c = Pause(x)
        BY <1>3 DEF CompleteChunk
    <2> HIDE DEF c
    <2>2. Quiet(x, c) /\ c.phase # "ACTIVE"
        BY <2>1, PauseQuiet
    <2>3. Numbered(c, n)
        BY <2>2 DEF Quiet, Numbered
    <2> QED  BY <2>2, <2>3 DEF Quiet, CreditOK, c
<1>4. CASE ~(x.seen < end)
    <2>1. c = Advance(y, cut)
        BY <1>4 DEF CompleteChunk
    <2>2. y.chunk = x.chunk
        BY DEF LooseExecutor
    <2>3. IF y.chunk = NoGoal THEN c = r ELSE c = Dispatch(z, cut)
        BY <2>1, <2>2 DEF Advance
    <2> HIDE DEF c, k, to
    <2>4. /\ y \in LooseExecutor /\ y.mid = x.mid /\ y.pose = x.pose /\ y.credited = k
          /\ y.last = x.last /\ y.floor = x.floor /\ y.calls = x.calls /\ y.chunk = x.chunk
        BY <1>2 DEF LooseExecutor
    <2> HIDE DEF y, yes
    <2>5. CASE c = r
        <3> HIDE DEF c
        <3>1. /\ r.mid = x.mid /\ r.pose = x.pose /\ r.credited = k
              /\ r.last = x.last /\ r.floor = x.floor /\ r.calls = x.calls /\ r.chunk = x.chunk
            BY <2>4 DEF LooseExecutor
        <3> HIDE DEF r
        <3>2. AllLate(r, n, t) /\ Numbered(r, n)
            BY <3>1 DEF AllLate, Late, Numbered
        <3>3. Evidence(r, n, t, tr)
            BY <3>1, <3>2 DEF Evidence
        <3> QED  BY <1>2, <2>5, <3>1, <3>2, <3>3 DEF CreditOK, c
    <2>6. CASE c = Dispatch(z, cut)
        <3>1. /\ z \in LooseExecutor /\ z.mid = x.mid /\ z.pose = x.pose /\ z.credited = k
              /\ z.last = x.last /\ z.floor = x.floor /\ z.calls = x.calls
            BY <1>1, <2>4 DEF LooseExecutor
        <3> HIDE DEF z
        <3>2. AllLate(z, n, t) /\ Numbered(z, n)
            BY <3>1 DEF AllLate, Late, Numbered
        <3> QED  BY <1>2, <2>6, <3>1, <3>2, DispatchCredit DEF c
    <2> QED  BY <2>3, <2>5, <2>6
<1> QED  BY <1>3, <1>4

-----------------------------------------------------------------------------
(* The steps.                                                              *)

LEMMA CreditFacts ==
    ASSUME CreditInv
    PROVE  /\ CheckInv /\ Sound(ex) /\ ex \in LooseExecutor /\ ex.calls \in Seq(Call)
           /\ ex.last \in Int /\ ex.floor \in Int /\ ex.chunk.e \in Nat
           /\ nav \in Nav /\ Timed(nav, telemetry) /\ NavOK(nav, telemetry)
           /\ CreditOK(ex, nav, telemetry, trail) /\ Unsent(ex, nav, telemetry)
           /\ DriveOK(nav, telemetry, trail) /\ Seen(ex, robot, trail)
           /\ ex.phase = "ACTIVE" => ex.mid > 0 /\ Evidence(ex, nav, telemetry, trail)
<1>1. CheckInv
    BY DEF CreditInv
<1>2. /\ Sound(ex) /\ nav \in Nav /\ telemetry \subseteq Telemetry /\ NavOK(nav, telemetry)
      /\ ex.phase = "ACTIVE" => Fits(ex)
    BY <1>1, CheckFacts
<1>3. /\ ex \in LooseExecutor /\ ex.calls \in Seq(Call) /\ ex.last \in Int /\ ex.floor \in Int
      /\ ex.chunk.e \in Nat
    BY <1>2, SoundFacts
<1>4. Timed(nav, telemetry)
    <2>1. nav.rid \in Nat /\ nav.events \in Nat
        BY <1>2 DEF Nav
    <2>2. ASSUME NEW m \in telemetry  PROVE m.rid \in Int
        <3>1. m \in Telemetry
            BY <1>2
        <3> QED  BY <3>1 DEF Telemetry
    <2> QED  BY <2>1, <2>2 DEF Timed
<1>5. ex.phase = "ACTIVE" => ex.mid > 0
    BY <1>2 DEF Fits, Window
<1> QED  BY <1>1, <1>2, <1>3, <1>4, <1>5 DEF CreditInv, CreditOK

(* The command server goes on about the same goal and result.              *)
Alike(n, m) ==
    /\ m.active = n.active /\ m.goal = n.goal /\ m.at = n.at
    /\ m.result = n.result /\ m.rid = n.rid
    /\ n.events \in Int /\ m.events \in Int /\ n.events <= m.events

LEMMA AlikeKeeps ==
    ASSUME NEW n, NEW m, Alike(n, m), NEW x, x.floor \in Int, NEW t, NEW tr
    PROVE  /\ CreditOK(x, n, t, tr) /\ Granted(x.calls) \subseteq Int => CreditOK(x, m, t, tr)
           /\ Unsent(x, n, t) => Unsent(x, m, t)
           /\ DriveOK(n, t, tr) => DriveOK(m, t, tr)
<1>1. Numbered(x, n) /\ Granted(x.calls) \subseteq Int => Numbered(x, m)
    BY DEF Numbered, Alike
<1>2. AllLate(x, n, t) <=> AllLate(x, m, t)
    BY DEF AllLate, Late, Alike
<1>3. Evidence(x, n, t, tr) => Evidence(x, m, t, tr)
    BY <1>2 DEF Evidence, Alike
<1>4. Unsent(x, n, t) => Unsent(x, m, t)
    BY DEF Unsent, Alike
<1>5. DriveOK(n, t, tr) => DriveOK(m, t, tr)
    BY DEF DriveOK, Alike
<1> QED  BY <1>1, <1>3, <1>4, <1>5 DEF CreditOK

LEMMA GrantedTypes ==
    ASSUME NEW cs \in Seq(Call)
    PROVE  Granted(cs) \subseteq Int
<1> SUFFICES ASSUME NEW k \in Granted(cs) PROVE k \in Int
    OBVIOUS
<1>1. PICK i \in 1 .. Len(cs) : k = cs[i].id
    BY DEF Granted
<1>2. cs[i] \in Call
    OBVIOUS
<1> QED  BY <1>1, <1>2 DEF Call

(* The executor does something while the rest goes on as it was.           *)
LEMMA CreditNext ==
    ASSUME CreditInv, CheckInv', CreditOK(ex', nav, telemetry', trail),
           telemetry' \subseteq telemetry, Alike(nav, nav'), robot' = robot, trail' = trail,
           ex'.mid = ex.mid, ex'.pose = ex.pose,
           ex.mid > 0 \/ Requested(ex'.calls) \subseteq Requested(ex.calls)
    PROVE  CreditInv'
<1>1. /\ Unsent(ex, nav, telemetry) /\ DriveOK(nav, telemetry, trail) /\ Seen(ex, robot, trail)
    BY CreditFacts
<1>2. Sound(ex')
    BY DEF CheckInv, MissionOK
<1>3. ex'.floor \in Int /\ ex'.calls \in Seq(Call)
    BY <1>2, SoundFacts
<1>4. Unsent(ex', nav, telemetry')
    BY <1>1 DEF Unsent
<1>5. DriveOK(nav, telemetry', trail)
    BY <1>1 DEF DriveOK
<1>6. Seen(ex', robot, trail)
    BY <1>1 DEF Seen
<1>7. Granted(ex'.calls) \subseteq Int
    BY <1>3, GrantedTypes
<1>8. /\ CreditOK(ex', nav', telemetry', trail) /\ Unsent(ex', nav', telemetry')
      /\ DriveOK(nav', telemetry', trail)
    BY <1>3, <1>4, <1>5, <1>7, AlikeKeeps
<1> QED  BY <1>6, <1>8 DEF CreditInv

LEMMA QuietStep ==
    ASSUME CreditInv, CheckInv', Quiet(ex, ex'), Alike(nav, nav'),
           telemetry' \subseteq telemetry, robot' = robot, trail' = trail
    PROVE  CreditInv'
<1>1. CreditOK(ex, nav, telemetry, trail) /\ Timed(nav, telemetry)
    BY CreditFacts
<1>2. CreditOK(ex', nav, telemetry', trail)
    BY <1>1, QuietKeeps
<1>3. /\ ex'.mid = ex.mid /\ ex'.pose = ex.pose
      /\ Requested(ex'.calls) \subseteq Requested(ex.calls)
    BY DEF Quiet
<1> QED  BY <1>2, <1>3, CreditNext

LEMMA SelfAlike == CreditInv => Alike(nav, nav)
BY CreditFacts DEF Alike, Timed

(* A callback that changes nothing but the calls: it sets them, takes one  *)
(* out, or puts another in its place.                                      *)
WithCalls(x, y, ds) == y = [x EXCEPT !.calls = ds]
TakesOut(x, y, i) == y = [x EXCEPT !.calls = Without(x.calls, i)]
Replaces(x, y, i, c) == y = [x EXCEPT !.calls = [x.calls EXCEPT ![i] = c]]

(* Only the calls change, and none of them becomes a request.              *)
LEMMA CallsQuiet ==
    ASSUME NEW x, x \in LooseExecutor, NEW ds, Requested(ds) \subseteq Requested(x.calls),
           Granted(ds) \subseteq Granted(x.calls), NEW y, WithCalls(x, y, ds)
    PROVE  Quiet(x, y)
<1>1. /\ x.last \in Int /\ x.floor \in Int
      /\ y.mid = x.mid /\ y.pose = x.pose /\ y.credited = x.credited /\ y.last = x.last
      /\ y.floor = x.floor /\ y.calls = ds /\ y.phase = x.phase /\ y.chunk = x.chunk
      /\ y.near = x.near
    BY DEF LooseExecutor, WithCalls
<1> QED  BY <1>1 DEF Quiet

LEMMA CancelQuiet ==
    ASSUME CreditInv, Cancel
    PROVE  Quiet(ex, ex')
<1> DEFINE c == CancelCall("stop")
           a == Append(NewEpoch(ex.calls), c)
           p == IF ex.phase \in {"ACTIVE", "PAUSED"} THEN "CANCELLED" ELSE ex.phase
           no == FALSE
           none == "none"
           empty == {}
<1>1. /\ ex \in LooseExecutor /\ ex.calls \in Seq(Call) /\ ex.last \in Int /\ ex.floor \in Int
    BY CreditFacts
<1>2. c \in Call /\ c.kind # "goal" /\ c.st = "sent"
    BY CallTypes
<1>3. ex' = [ex EXCEPT !.pending = no, !.policy = Reset, !.clears = NoClears,
                       !.near = no, !.credited = empty, !.action = none,
                       !.phase = p, !.calls = a]
    BY DEF Cancel
<1>4. p # "ACTIVE"
    OBVIOUS
<1> HIDE DEF c, p, no, none
<1>5. Requested(a) \subseteq Requested(ex.calls) /\ Granted(a) = {}
    BY <1>1, <1>2, ViewAppend
<1> HIDE DEF a, empty
<1>6. /\ ex'.mid = ex.mid /\ ex'.pose = ex.pose /\ ex'.credited = empty /\ ex'.last = ex.last
      /\ ex'.floor = ex.floor /\ ex'.calls = a /\ ex'.phase = p
    BY <1>1, <1>3 DEF LooseExecutor
<1> QED  BY <1>1, <1>4, <1>5, <1>6 DEF Quiet, empty

(* An answer: the call leaves, or is no request any more.                  *)
LEMMA AnswerView ==
    ASSUME NEW x, x \in LooseExecutor, NEW y, NEW i \in 1 .. Len(x.calls), NEW c \in Call,
           c.st # "sent" \/ c.kind # "goal",
           TakesOut(x, y, i) \/ Replaces(x, y, i, c)
    PROVE  \E ds : /\ WithCalls(x, y, ds)
                   /\ Requested(ds) \subseteq Requested(x.calls)
                   /\ Granted(ds) \subseteq Granted(x.calls) \union {c.id}
                   /\ ~c.current \/ c.st # "ok" => Granted(ds) \subseteq Granted(x.calls)
<1>1. x.calls \in Seq(Call)
    BY DEF LooseExecutor
<1> DEFINE w == Without(x.calls, i)
           ds == [x.calls EXCEPT ![i] = c]
<1>2. CASE TakesOut(x, y, i)
    <2>1. Requested(w) \subseteq Requested(x.calls) /\ Granted(w) \subseteq Granted(x.calls)
        BY <1>1, ViewWithout
    <2>2. WithCalls(x, y, w)
        BY <1>2 DEF TakesOut, WithCalls
    <2> HIDE DEF w
    <2> QED  BY <2>1, <2>2
<1>3. CASE Replaces(x, y, i, c)
    <2>1. Updated(x.calls, ds, i, c)
        BY <1>1, CallUpdated DEF Updated
    <2>3. WithCalls(x, y, ds)
        BY <1>3 DEF Replaces, WithCalls
    <2> HIDE DEF ds
    <2>2. /\ Requested(ds) \subseteq Requested(x.calls)
          /\ Granted(ds) \subseteq Granted(x.calls) \union {c.id}
          /\ ~c.current \/ c.st # "ok" => Granted(ds) \subseteq Granted(x.calls)
        BY <1>1, <2>1, ViewUpdated
    <2> QED  BY <2>2, <2>3
<1> QED  BY <1>2, <1>3

LEMMA CancelEndsQuiet ==
    ASSUME CreditInv, NEW i \in DOMAIN ex.calls, CancelEnds(i)
    PROVE  Quiet(ex, ex')
<1> DEFINE b == ex.calls[i]
           c == [b EXCEPT !.kind = "cancel"]
<1>1. /\ ex \in LooseExecutor /\ ex.calls \in Seq(Call) /\ i \in 1 .. Len(ex.calls) /\ Sound(ex)
    BY CreditFacts, CheckFacts
<1>2. b \in Call /\ b.kind = "stop" /\ b.current = FALSE
    <2>1. b \in Call
        BY <1>1
    <2>2. b.kind = "stop"
        BY DEF CancelEnds
    <2>3. b.current \in BOOLEAN
        BY <2>1 DEF Call
    <2> QED  BY <1>1, <2>1, <2>2, <2>3 DEF Sound, Asks
<1>3. TakesOut(ex, ex', i) \/ Replaces(ex, ex', i, c)
    BY DEF CancelEnds, TakesOut, Replaces
<1>4. c \in Call /\ c.kind # "goal" /\ ~c.current
    <2> HIDE DEF b
    <2> QED  BY <1>2 DEF Call
<1> HIDE DEF c
<1>5. PICK ds : /\ WithCalls(ex, ex', ds) /\ Requested(ds) \subseteq Requested(ex.calls)
                /\ Granted(ds) \subseteq Granted(ex.calls)
    BY <1>1, <1>3, <1>4, AnswerView
<1> QED  BY <1>1, <1>5, CallsQuiet

LEMMA ClearsQuiet ==
    ASSUME CreditInv, ClearsAnswer
    PROVE  Quiet(ex, ex')
<1>1. ex \in LooseExecutor /\ ex.last \in Int /\ ex.floor \in Int
    BY CreditFacts
<1>2. PICK st \in {"done", "failed"} : ex' = [ex EXCEPT !.clears.st = st]
    BY DEF ClearsAnswer
<1> DEFINE k == [ex.clears EXCEPT !.st = st]
<1>3. ex' = [ex EXCEPT !.clears = k]
    BY <1>2
<1> HIDE DEF k
<1>4. /\ ex'.mid = ex.mid /\ ex'.pose = ex.pose /\ ex'.credited = ex.credited
      /\ ex'.last = ex.last /\ ex'.floor = ex.floor /\ ex'.calls = ex.calls
      /\ ex'.phase = ex.phase /\ ex'.chunk = ex.chunk /\ ex'.near = ex.near
    BY <1>1, <1>3 DEF LooseExecutor
<1> QED  BY <1>1, <1>4, SameQuiet

LEMMA OnGoalRequestQuiet ==
    ASSUME CreditInv, NEW i \in DOMAIN ex.calls, OnGoalRequest(i)
    PROVE  Quiet(ex, ex')
<1> DEFINE c == ex.calls[i]
           w == Without(ex.calls, i)
           x == [ex EXCEPT !.calls = w]
           fl == IF c.st = "ok" THEN c.id ELSE ex.floor
           no == FALSE
           y == [x EXCEPT !.pending = no, !.floor = fl]
           acc == c.st = "ok"
<1>1. /\ ex \in LooseExecutor /\ ex.calls \in Seq(Call) /\ i \in 1 .. Len(ex.calls) /\ Sound(ex)
      /\ ex.last \in Int /\ ex.floor \in Int
    BY CreditFacts, CheckFacts
<1>2. c \in Call
    BY <1>1
<1>3. fl \in Int
    BY <1>1, <1>2 DEF Call
<1>4. /\ w \in Seq(Call) /\ Requested(w) \subseteq Requested(ex.calls)
      /\ Granted(w) \subseteq Granted(ex.calls)
    BY <1>1, ViewWithout
<1>5. c.current => Granted(w) = {}
    <2>1. c.current => Asks(w, FALSE)
        BY <1>1, AsksWithout DEF Sound
    <2> HIDE DEF w
    <2> QED  BY <2>1 DEF Asks, Granted
<1>6. c.current /\ c.st = "ok" => fl \in Granted(ex.calls)
    BY <1>1 DEF Granted
<1>7. c.st # "ok" => fl = ex.floor
    OBVIOUS
<1>8. \/ ex' = x
      \/ c.current /\ ex' = y
      \/ c.current /\ ex' = FinishRecovery(y, acc)
      \/ c.current /\ ex' = Pause(y)
    BY DEF OnGoalRequest
<1>9. acc \in BOOLEAN
    OBVIOUS
<1> HIDE DEF c, w, fl, acc
<1>10. Quiet(ex, x)
    <2>1. WithCalls(ex, x, w)
        BY DEF WithCalls
    <2> HIDE DEF x
    <2> QED  BY <1>1, <1>4, <2>1, CallsQuiet
<1>11. /\ x \in LooseExecutor /\ x.mid = ex.mid /\ x.pose = ex.pose /\ x.credited = ex.credited
       /\ x.last = ex.last /\ x.floor = ex.floor /\ x.calls = w
       /\ x.phase = ex.phase /\ x.chunk = ex.chunk /\ x.near = ex.near
    BY <1>1, <1>4 DEF LooseExecutor
<1> HIDE DEF x
<1>12. no \in BOOLEAN
    OBVIOUS
<1> HIDE DEF no
<1>13. /\ y \in LooseExecutor /\ y.mid = ex.mid /\ y.pose = ex.pose /\ y.credited = ex.credited
       /\ y.last = ex.last /\ y.floor = fl /\ y.calls = w
       /\ y.phase = ex.phase /\ y.chunk = ex.chunk /\ y.near = ex.near
    BY <1>3, <1>11, <1>12 DEF LooseExecutor
<1> HIDE DEF y
<1>14. c.current => Quiet(ex, y)
    BY <1>1, <1>3, <1>4, <1>5, <1>6, <1>7, <1>13 DEF Quiet
<1>15. Quiet(y, FinishRecovery(y, acc)) /\ Quiet(y, Pause(y))
    BY <1>9, <1>13, FinishQuiet, PauseQuiet
<1> QED  BY <1>8, <1>10, <1>14, <1>15, QuietTrans

LEMMA ActivateCredit ==
    ASSUME CreditInv, CheckInv', MaxMissions <= 1, NEW anchor \in Anchors, NEW cut \in Cuts,
           ActivatePrepared(anchor, cut)
    PROVE  CreditInv'
<1> DEFINE n == ex.mid + 1
           active == "ACTIVE"
           empty == {}
           x == [ex EXCEPT !.phase = active, !.mid = n, !.anchor = anchor,
                           !.target = anchor, !.policy = Reset, !.clears = NoClears,
                           !.credited = empty, !.sends = 0]
           tr == {robot, ex.pose}
<1>1. /\ ex \in LooseExecutor /\ ex.calls \in Seq(Call) /\ ex.last \in Int /\ ex.floor \in Int
      /\ nav \in Nav /\ Timed(nav, telemetry) /\ CreditOK(ex, nav, telemetry, trail)
      /\ Unsent(ex, nav, telemetry) /\ DriveOK(nav, telemetry, trail) /\ Sound(ex)
    BY CreditFacts
<1>2. ex.mid = 0 /\ n = 1 /\ n \in 0 .. MaxMissions
    <2>1. ex.mid \in 0 .. MaxMissions /\ ex.mid < MaxMissions /\ MaxMissions \in Nat
        BY <1>1, RouteAssumption DEF LooseExecutor, ActivatePrepared
    <2> QED  BY <2>1
<1>3. /\ nav.active = FALSE /\ nav.result # "succeeded" /\ Requested(ex.calls) = {}
      /\ \A m \in telemetry : m.result # "succeeded"
    BY <1>1, <1>2 DEF Unsent
<1>4. ex' = Dispatch(x, cut) /\ trail' = tr
      /\ UNCHANGED <<nav, robot, telemetry>>
    BY DEF ActivatePrepared
<1>5. /\ anchor \in Nat /\ cut \in Nat /\ anchor \in Index
    <2>1. anchor \in Index
        BY RouteAssumption
    <2>2. anchor \in 0 .. Length - 1 /\ Length \in Nat
        BY <2>1, RouteAssumption DEF Index
    <2> QED  BY <2>1, <2>2, RouteAssumption
<1>6. NoClears \in [st : {"none", "sent", "done", "failed"}, goal : Goal, size : 0 .. Length]
    BY CallTypes, RouteAssumption DEF NoClears
<1>7. Reset \in Policy
    BY RecoveryAssumption DEF Reset, Policy, RecoveryState
<1>8. active \in Phases /\ empty \in SUBSET Index
    BY DEF Phases
<1> HIDE DEF n, active, empty, tr
<1>9. /\ x \in LooseExecutor /\ x.calls = ex.calls /\ x.credited = empty /\ x.mid = n
      /\ x.pose = ex.pose /\ x.last = ex.last /\ x.floor = ex.floor
    <2> DEFINE none == 0
               blank == NoClears
               reset == Reset
    <2>1. x = [ex EXCEPT !.phase = active, !.mid = n, !.anchor = anchor, !.target = anchor,
                         !.policy = reset, !.clears = blank, !.credited = empty, !.sends = none]
        OBVIOUS
    <2>2. /\ none \in Nat /\ reset \in Policy
          /\ blank \in [st : {"none", "sent", "done", "failed"}, goal : Goal, size : 0 .. Length]
        BY <1>6, <1>7
    <2> HIDE DEF x, none, blank, reset
    <2>3. x \in LooseExecutor
        <3>1. n \in 0 .. MaxMissions /\ anchor \in Index /\ anchor \in Nat
              /\ active \in Phases /\ empty \in SUBSET Index
            BY <1>2, <1>5, <1>8
        <3> QED  BY <1>1, <2>1, <2>2, <3>1 DEF LooseExecutor
    <2>4. /\ x.calls = ex.calls /\ x.credited = empty /\ x.mid = n
          /\ x.pose = ex.pose /\ x.last = ex.last /\ x.floor = ex.floor
        BY <1>1, <2>1 DEF LooseExecutor
    <2> QED  BY <2>3, <2>4
<1> HIDE DEF x
<1>10. AllLate(x, nav, telemetry) /\ Numbered(x, nav)
    BY <1>1, <1>3, <1>9 DEF AllLate, Late, CreditOK, Numbered
<1>11. CreditOK(ex', nav, telemetry, tr) /\ ex'.mid = n /\ ex'.pose = ex.pose
    BY <1>1, <1>3, <1>4, <1>5, <1>9, <1>10, DispatchCredit DEF Timed, empty
<1>12. Unsent(ex', nav, telemetry)
    BY <1>2, <1>11 DEF Unsent
<1>13. DriveOK(nav, telemetry, tr)
    BY <1>1, <1>3 DEF DriveOK
<1>14. Seen(ex', robot, tr)
    BY <1>11 DEF Seen, tr
<1> QED  BY <1>4, <1>11, <1>12, <1>13, <1>14 DEF CreditInv

LEMMA OnPoseCredit ==
    ASSUME CreditInv, CheckInv', NEW fresh \in BOOLEAN, OnPose(fresh)
    PROVE  CreditInv'
<1> DEFINE hit == fresh /\ ex.phase = "ACTIVE" /\ ex.seen < ex.chunk.e /\ robot = ex.seen
           s == IF hit THEN ex.seen + 1 ELSE ex.seen
           c == IF hit THEN ex.credited \union {robot} ELSE ex.credited
<1>1. /\ ex \in LooseExecutor /\ ex.calls \in Seq(Call) /\ ex.last \in Int /\ ex.floor \in Int
      /\ CreditOK(ex, nav, telemetry, trail) /\ Seen(ex, robot, trail)
      /\ Unsent(ex, nav, telemetry) /\ DriveOK(nav, telemetry, trail)
      /\ ex.phase = "ACTIVE" => ex.mid > 0
    BY CreditFacts
<1>2. ex' = [ex EXCEPT !.pose = robot, !.seen = s, !.credited = c]
      /\ UNCHANGED <<nav, robot, trail, telemetry>>
    BY DEF OnPose, outside
<1>3. c \subseteq trail
    BY <1>1 DEF CreditOK, Seen
<1> HIDE DEF s, c
<1>4. /\ ex'.mid = ex.mid /\ ex'.pose = robot /\ ex'.credited = c
      /\ ex'.last = ex.last /\ ex'.floor = ex.floor /\ ex'.calls = ex.calls
      /\ ex'.phase = ex.phase /\ ex'.chunk = ex.chunk /\ ex'.near = ex.near
    BY <1>1, <1>2 DEF LooseExecutor
<1>5. CreditOK(ex', nav, telemetry, trail)
    BY <1>1, <1>3, <1>4 DEF CreditOK, Numbered, Evidence, AllLate, Late
<1>6. Unsent(ex', nav, telemetry) /\ Seen(ex', robot, trail)
    BY <1>1, <1>4 DEF Unsent, Seen
<1> QED  BY <1>1, <1>2, <1>5, <1>6 DEF CreditInv

LEMMA OnTelemetryCredit ==
    ASSUME HasAction = {}, CreditInv, CheckInv', NEW m \in telemetry, NEW cut \in Cuts,
           OnTelemetry(m, cut)
    PROVE  CreditInv'
<1> DEFINE no == FALSE
           yes == TRUE
           heard == [ex EXCEPT !.heard = yes]
           fl == IF m.goalActive THEN "" ELSE ex.failure
           x == [ex EXCEPT !.heard = yes, !.collision = m.collision, !.failure = fl]
           y == [x EXCEPT !.last = m.rid]
           r == [y EXCEPT !.policy = Reset, !.near = no]
           f == [y EXCEPT !.failure = m.failure]
<1>1. /\ ex \in LooseExecutor /\ ex.calls \in Seq(Call) /\ ex.last \in Int /\ ex.floor \in Int
      /\ nav \in Nav /\ Timed(nav, telemetry) /\ CreditOK(ex, nav, telemetry, trail)
      /\ DriveOK(nav, telemetry, trail) /\ Sound(ex) /\ Alike(nav, nav)
      /\ ex.phase = "ACTIVE" => ex.mid > 0 /\ Evidence(ex, nav, telemetry, trail)
    BY CreditFacts, SelfAlike
<1>2. /\ m.collision \in BOOLEAN /\ m.rid \in Int /\ fl \in FailureCodes
      /\ m.failure \in FailureCodes /\ m.result \in Results /\ m.goalActive \in BOOLEAN
    <2>1. m \in Telemetry
        BY CheckFacts, CreditFacts
    <2>2. /\ m.collision \in BOOLEAN /\ m.rid \in Nat /\ m.failure \in FailureCodes
          /\ m.result \in Results /\ m.goalActive \in BOOLEAN
        BY <2>1 DEF Telemetry
    <2>3. ex.failure \in FailureCodes
        BY <1>1 DEF LooseExecutor
    <2>4. fl \in FailureCodes
        BY <2>3 DEF FailureCodes
    <2> HIDE DEF fl
    <2> QED  BY <2>2, <2>4
<1>3. telemetry' = {} /\ UNCHANGED <<nav, robot, trail>> /\ cut \in Nat
    BY RouteAssumption DEF OnTelemetry
<1>4. yes \in BOOLEAN /\ no \in BOOLEAN
    OBVIOUS
<1>5. ASSUME Quiet(ex, ex')  PROVE CreditInv'
    <2>1. telemetry' \subseteq telemetry
        BY <1>3
    <2> QED  BY <1>1, <1>3, <1>5, <2>1, QuietStep
<1>6. CASE ex.phase # "ACTIVE"
    <2>1. ex' = heard
        BY <1>6 DEF OnTelemetry
    <2> HIDE DEF yes
    <2>2. /\ heard.mid = ex.mid /\ heard.pose = ex.pose /\ heard.credited = ex.credited
          /\ heard.last = ex.last /\ heard.floor = ex.floor /\ heard.calls = ex.calls
          /\ heard.phase = ex.phase /\ heard.chunk = ex.chunk /\ heard.near = ex.near
        BY <1>1 DEF LooseExecutor
    <2> HIDE DEF heard
    <2>3. Quiet(ex, heard)
        BY <1>1, <2>2, SameQuiet
    <2> QED  BY <1>5, <2>1, <2>3
<1>7. CASE ex.phase = "ACTIVE" /\ (m.manual \/ (m.collision /\ ex.action # "none"))
    <2>1. ex.action = "none"
        BY <1>1 DEF Sound
    <2>2. ex' = Pause(ex)
        BY <1>7, <2>1 DEF OnTelemetry
    <2> QED  BY <1>1, <1>5, <2>2, PauseQuiet
<1>8. CASE ex.phase = "ACTIVE" /\ ~(m.manual \/ (m.collision /\ ex.action # "none"))
    <2>1. ex' = IF ResultIsCurrent(x, m) THEN TerminalResult(y, m, cut) ELSE x
        BY <1>8 DEF OnTelemetry
    <2> HIDE DEF fl, yes
    <2>2. /\ x \in LooseExecutor /\ x.mid = ex.mid /\ x.pose = ex.pose /\ x.credited = ex.credited
          /\ x.last = ex.last /\ x.floor = ex.floor /\ x.calls = ex.calls
          /\ x.phase = ex.phase /\ x.chunk = ex.chunk /\ x.near = ex.near
          /\ x.pending = ex.pending
        BY <1>1, <1>2, <1>4 DEF LooseExecutor
    <2> HIDE DEF x
    <2>3. CASE ~ResultIsCurrent(x, m)
        <3>1. Quiet(ex, x)
            BY <1>1, <2>2, SameQuiet
        <3> QED  BY <1>5, <2>1, <2>3, <3>1
    <2>4. CASE ResultIsCurrent(x, m)
        <3>1. /\ m.goalActive = FALSE /\ m.result # "none" /\ m.rid > ex.floor /\ m.rid > ex.last
            BY <1>2, <2>2, <2>4 DEF ResultIsCurrent
        <3>2. ex' = TerminalResult(y, m, cut)
            BY <2>1, <2>4
        <3>3. /\ y \in LooseExecutor /\ y.mid = ex.mid /\ y.pose = ex.pose
              /\ y.credited = ex.credited /\ y.last = m.rid /\ y.floor = ex.floor
              /\ y.calls = ex.calls /\ y.phase = ex.phase /\ y.chunk = ex.chunk /\ y.near = ex.near
            BY <1>2, <2>2 DEF LooseExecutor
        <3> HIDE DEF y
        <3>4. Quiet(ex, y)
            BY <1>1, <1>2, <3>1, <3>3 DEF Quiet
        <3>5. CASE ex' = y
            BY <1>5, <3>4, <3>5
        <3>6. CASE ex' = Pause(y)
            BY <1>5, <3>3, <3>4, <3>6, PauseQuiet, QuietTrans
        <3>7. CASE ex' = f
            <4>1. /\ f.mid = ex.mid /\ f.pose = ex.pose
                  /\ f.credited = ex.credited /\ f.last = m.rid /\ f.floor = ex.floor
                  /\ f.calls = ex.calls /\ f.phase = ex.phase /\ f.chunk = ex.chunk
                  /\ f.near = ex.near
                BY <3>3 DEF LooseExecutor
            <4> HIDE DEF f
            <4>2. Quiet(ex, f)
                BY <1>1, <1>2, <3>1, <4>1 DEF Quiet
            <4> QED  BY <1>5, <3>7, <4>2
        <3>8. CASE m.result = "succeeded" /\ ex' = CompleteChunk(r, cut)
            <4>1. ~AllLate(ex, nav, telemetry)
                BY <1>1, <1>2, <3>1, <3>8 DEF AllLate, Late
            <4>2. /\ nav.active = FALSE /\ Requested(ex.calls) = {} /\ ex.chunk.e \in trail
                <5>1. nav.active \in BOOLEAN
                    BY <1>1 DEF Nav
                <5> QED  BY <1>1, <1>8, <4>1, <5>1 DEF Evidence
            <4>3. Reset \in Policy
                BY RecoveryAssumption DEF Reset, Policy, RecoveryState
            <4> HIDE DEF no
            <4>4. /\ r \in LooseExecutor /\ r.mid = ex.mid /\ r.pose = ex.pose
                  /\ r.credited = ex.credited /\ r.last = m.rid /\ r.floor = ex.floor
                  /\ r.calls = ex.calls /\ r.phase = ex.phase /\ r.chunk = ex.chunk
                BY <1>4, <3>3, <4>3 DEF LooseExecutor
            <4> HIDE DEF r
            <4>5. AllLate(r, nav, {})
                <5>1. nav.result = "succeeded" => m.rid = nav.rid
                    BY <1>1, <3>8 DEF DriveOK
                <5> QED  BY <1>2, <4>4, <5>1 DEF AllLate, Late
            <4>6. Numbered(r, nav) /\ r.credited \subseteq trail
                BY <1>1, <4>4 DEF CreditOK, Numbered
            <4>7. /\ CreditOK(ex', nav, {}, trail) /\ ex'.mid = ex.mid /\ ex'.pose = ex.pose
                BY <1>1, <1>3, <3>8, <4>2, <4>4, <4>5, <4>6, CompleteCredit DEF Timed
            <4>8. Unsent(ex', nav, {}) /\ DriveOK(nav, {}, trail) /\ Seen(ex', robot, trail)
                BY <1>1, <1>8, <4>7, CreditFacts DEF Unsent, DriveOK, Seen
            <4> QED  BY <1>3, <4>7, <4>8 DEF CreditInv
        <3>9. \/ ex' = y \/ ex' = Pause(y) \/ ex' = f
              \/ m.result = "succeeded" /\ ex' = CompleteChunk(r, cut)
            <4>1. m.result \in {"succeeded", "cancelled", "aborted", "goal rejected"}
                BY <1>2, <3>1 DEF Results
            <4> QED  BY <3>2, <4>1 DEF TerminalResult
        <3> QED  BY <3>5, <3>6, <3>7, <3>8, <3>9
    <2> QED  BY <2>3, <2>4
<1> QED  BY <1>6, <1>7, <1>8

(* A retry begins while everything stands still.                           *)
LEMMA BeginCredit ==
    ASSUME HasAction = {}, NEW x, WellFormed(x), x.calls = <<>>, NEW n, n.active = FALSE,
           NEW t, Timed(n, t), AllLate(x, n, t), NEW tr, CreditOK(x, n, t, tr),
           x.phase = "ACTIVE", NEW ready \in BOOLEAN, NEW cut \in Nat
    PROVE  LET y == BeginRecoveryRetry(x, ready, cut)
           IN  CreditOK(y, n, t, tr) /\ y.mid = x.mid /\ y.pose = x.pose
<1> DEFINE from == PendingStart(x.chunk.s, x.chunk.e, x.credited)
           g == [x.chunk EXCEPT !.s = from]
           size == x.chunk.e - x.chunk.s + 1
           job == [st |-> "sent", goal |-> g, size |-> size]
           j == [x EXCEPT !.clears = job]
           no == FALSE
           yes == TRUE
           z == [x EXCEPT !.near = no]
           f == FinishRecovery(z, yes)
           y == BeginRecoveryRetry(x, ready, cut)
<1>1. /\ x \in LooseExecutor /\ x.last \in Int /\ x.floor \in Int /\ x.near \in BOOLEAN
      /\ Requested(x.calls) = {} /\ t \in SUBSET t
    <2>1. x \in LooseExecutor
        BY DEF WellFormed
    <2> QED  BY <2>1, NothingRequested DEF LooseExecutor
<1>2. ASSUME Quiet(x, y)  PROVE CreditOK(y, n, t, tr) /\ y.mid = x.mid /\ y.pose = x.pose
    <2> HIDE DEF y
    <2>1. CreditOK(y, n, t, tr)
        BY <1>1, <1>2, QuietKeeps
    <2> QED  BY <1>2, <2>1 DEF Quiet
<1>3. \/ x.near = TRUE /\ y = CompleteChunk(f, cut)
      \/ y = FinishRecovery(x, no)
      \/ y = j
    BY <1>1 DEF BeginRecoveryRetry
<1>4. no \in BOOLEAN /\ yes \in BOOLEAN
    OBVIOUS
<1> HIDE DEF no, yes
<1>5. CASE y = FinishRecovery(x, no)
    <2>1. Quiet(x, y)
        BY <1>1, <1>4, <1>5, FinishQuiet
    <2> QED  BY <1>2, <2>1
<1>6. CASE y = j
    <2> HIDE DEF job
    <2>1. /\ j.mid = x.mid /\ j.pose = x.pose
          /\ j.credited = x.credited /\ j.last = x.last /\ j.floor = x.floor
          /\ j.calls = x.calls /\ j.phase = x.phase /\ j.chunk = x.chunk /\ j.near = x.near
        BY <1>1 DEF LooseExecutor
    <2> HIDE DEF j
    <2>2. Quiet(x, j)
        BY <1>1, <2>1, SameQuiet
    <2> QED  BY <1>2, <1>6, <2>2
<1>7. CASE x.near = TRUE /\ y = CompleteChunk(f, cut)
    <2>1. /\ z \in LooseExecutor /\ z.mid = x.mid /\ z.pose = x.pose
          /\ z.credited = x.credited /\ z.last = x.last /\ z.floor = x.floor
          /\ z.calls = x.calls /\ z.chunk = x.chunk /\ z.clears = x.clears
        BY <1>1, <1>4 DEF LooseExecutor
    <2> HIDE DEF z
    <2>2. /\ f.mid = x.mid /\ f.pose = x.pose
          /\ f.credited = x.credited /\ f.last = x.last /\ f.floor = x.floor
          /\ f.calls = x.calls /\ f.chunk = x.chunk
        BY <1>4, <2>1, FinishQuiet
    <2>3. f \in LooseExecutor
        BY <1>4, <2>1, FieldsKept, FinishRecoveryKeeps DEF WellFormed
    <2> HIDE DEF f, y
    <2>4. x.chunk.e \in tr /\ x.credited \subseteq tr /\ Numbered(x, n)
        BY <1>7 DEF CreditOK, Evidence
    <2>5. AllLate(f, n, t) /\ Numbered(f, n)
        BY <2>2, <2>4 DEF AllLate, Late, Numbered
    <2>6. CreditOK(y, n, t, tr) /\ y.mid = f.mid /\ y.pose = f.pose
        BY <1>1, <1>7, <2>2, <2>3, <2>4, <2>5, CompleteCredit DEF Timed
    <2> QED  BY <2>2, <2>6 DEF y
<1> QED  BY <1>3, <1>5, <1>6, <1>7

LEMMA TickCredit ==
    ASSUME HasAction = {}, ~SlowCancel, CreditInv, CheckInv', NEW due \in BOOLEAN,
           NEW served \in BOOLEAN, NEW cut \in Cuts, TickRecovery(due, served, cut)
    PROVE  CreditInv'
<1> DEFINE blocked == ex.collision \/ ex.failure = "blocking"
           d == Observe(ex.policy, health, blocked, due)
           hd == ex.heard /\ d.policy.state = ex.policy.state
           nr == ex.near \/ (/\ ~ManeuverHold(health) /\ d.policy.state # "CLEAR"
                            /\ ex.pose = ex.chunk.e)
           x == [ex EXCEPT !.policy = d.policy, !.heard = hd, !.near = nr]
           y == CheckRecoveryClears(x, ~served)
           job == ex.clears
           to == ex.target + (job.size - (job.goal.e - job.goal.s + 1))
           s == [x EXCEPT !.clears = NoClears, !.chunk = job.goal, !.target = to]
           no == FALSE
<1>1. /\ ex.phase = "ACTIVE" /\ ex \in LooseExecutor /\ Sound(ex)
      /\ UNCHANGED <<nav, robot, trail, telemetry>>
      /\ ex.last \in Int /\ ex.floor \in Int /\ cut \in Nat
    BY CreditFacts, RouteAssumption DEF TickRecovery, outside
<1>2. /\ WellFormed(ex) /\ Retries(ex, nav, health, telemetry) /\ health \in Health
      /\ Timed(nav, telemetry) /\ CreditOK(ex, nav, telemetry, trail) /\ Seen(ex, robot, trail)
      /\ ex.mid > 0 /\ Alike(nav, nav) /\ nav \in Nav
    BY <1>1, CreditFacts, CheckFacts, SoundFacts, SelfAlike
<1>3. ex.policy \in Policy /\ blocked \in BOOLEAN /\ ex.heard \in BOOLEAN /\ ex.near \in BOOLEAN
    BY <1>1 DEF LooseExecutor
<1>4. /\ d.action = "BEGIN_RETRY" =>
           /\ Waiting(ex.policy) /\ health = "ok" /\ due /\ d.policy.state = "RECOVERING"
      /\ ex.policy.state = "RECOVERING" /\ health = "ok" => d.policy = ex.policy /\ d.action = "NONE"
    <2> HIDE DEF blocked
    <2> QED  BY <1>2, <1>3, ObserveFacts
<1>5. d.policy \in Policy
    <2> HIDE DEF blocked
    <2> QED  BY <1>2, <1>3, ObserveTypes
<1>6. /\ due => ex.heard
      /\ d.action = "BEGIN_RETRY" => Settled
      /\ \/ ex' = y
         \/ d.action = "CANCEL_AND_BRAKE" /\ ex' = StopForRecovery(y)
         \/ d.action = "BEGIN_RETRY" /\ ex' = BeginRecoveryRetry(y, served, cut)
    BY DEF TickRecovery
<1>7. nr \in BOOLEAN /\ hd \in BOOLEAN
    BY <1>3
<1>8. nr = TRUE => ex.near = TRUE \/ ex.pose = ex.chunk.e
    BY <1>3
<1> HIDE DEF d, nr, hd
<1>9. /\ x \in LooseExecutor /\ x.mid = ex.mid /\ x.pose = ex.pose /\ x.credited = ex.credited
      /\ x.last = ex.last /\ x.floor = ex.floor /\ x.calls = ex.calls
      /\ x.phase = ex.phase /\ x.chunk = ex.chunk /\ x.near = nr
      /\ x.clears = ex.clears /\ x.policy = d.policy /\ x.target = ex.target
    BY <1>1, <1>5, <1>7 DEF LooseExecutor
<1> HIDE DEF x
<1>10. WellFormed(x)
    BY <1>2, <1>9, FieldsKept
<1>11. CreditOK(x, nav, telemetry, trail)
    <2>1. nr = TRUE => ex.chunk.e \in trail
        BY <1>1, <1>2, <1>8 DEF Seen, CreditOK, Evidence
    <2> QED  BY <1>1, <1>2, <1>9, <2>1 DEF CreditOK, Evidence, Numbered, AllLate, Late
<1>12. \/ ex.clears.st = "done" /\ y = SendChunk(s)
       \/ ex.clears.st # "none" /\ y = FinishRecovery(x, no)
       \/ y = x
    BY <1>9 DEF CheckRecoveryClears
<1>13. no \in BOOLEAN
    OBVIOUS
<1> HIDE DEF y, job, to, no
<1>14. ASSUME CreditOK(ex', nav, telemetry, trail), ex'.mid = ex.mid, ex'.pose = ex.pose
       PROVE  CreditInv'
    BY <1>1, <1>2, <1>14, CreditNext
<1>15. ASSUME Quiet(x, ex')  PROVE CreditInv'
    <2>1. CreditOK(ex', nav, telemetry, trail)
        BY <1>2, <1>11, <1>15, QuietKeeps
    <2> QED  BY <1>9, <1>14, <1>15, <2>1 DEF Quiet
<1>16. ex.clears.st # "none" => /\ ex.policy.state = "RECOVERING" /\ health = "ok"
                                /\ ex.calls = <<>> /\ nav.active = FALSE
                                /\ AllLate(ex, nav, telemetry)
    BY <1>2 DEF Retries, Still, AllLate
<1>17. ex.clears.st # "none" => ex' = y
    BY <1>4, <1>6, <1>16
<1>18. CASE ex.clears.st = "done" /\ y = SendChunk(s)
    <2>1. WellFormed(s)
        <3>1. to = x.target + (job.size - (job.goal.e - job.goal.s + 1)) /\ x.clears = job
            BY <1>9 DEF to, job
        <3> QED  BY <1>10, <1>18, <3>1, ClearsDone DEF job
    <2>2. s \in LooseExecutor
        BY <2>1 DEF WellFormed
    <2>3. /\ s.mid = ex.mid /\ s.pose = ex.pose /\ s.credited = ex.credited
          /\ s.last = ex.last /\ s.floor = ex.floor /\ s.calls = ex.calls /\ s.phase = "ACTIVE"
        BY <1>1, <1>9 DEF LooseExecutor
    <2> HIDE DEF s
    <2>4. /\ nav.active = FALSE /\ Requested(s.calls) = {} /\ AllLate(s, nav, telemetry)
        BY <1>16, <1>18, <2>3, NothingRequested DEF AllLate, Late
    <2>5. s.credited \subseteq trail /\ Numbered(s, nav)
        BY <1>2, <2>3 DEF CreditOK, Numbered
    <2>6. nav.events \in Int
        BY <1>2 DEF Timed
    <2>7. /\ CreditOK(y, nav, telemetry, trail) /\ y.mid = s.mid /\ y.pose = s.pose
        BY <1>18, <2>2, <2>4, <2>5, <2>6, SendCredit
    <2> QED  BY <1>14, <1>17, <1>18, <2>3, <2>7
<1>19. CASE ex.clears.st # "none" /\ y = FinishRecovery(x, no)
    <2>1. Quiet(x, y)
        BY <1>9, <1>13, <1>19, FinishQuiet
    <2> QED  BY <1>15, <1>17, <1>19, <2>1
<1>20. CASE y = x
    <2>1. CASE ex' = y
        <3>1. Quiet(x, x)
            BY <1>1, <1>9, SameQuiet
        <3> QED  BY <1>15, <1>20, <2>1, <3>1
    <2>2. CASE ex' = StopForRecovery(y)
        <3>1. Quiet(x, ex')
            BY <1>9, <1>20, <2>2, StopQuiet
        <3> QED  BY <1>15, <3>1
    <2>3. CASE d.action = "BEGIN_RETRY" /\ ex' = BeginRecoveryRetry(y, served, cut)
        <3>1. Waiting(ex.policy) /\ ex.heard /\ Settled
            BY <1>4, <1>6, <2>3
        <3>2. x.calls = <<>> /\ nav.active = FALSE /\ telemetry = {} /\ Told(nav, telemetry)
            <4>1. nav.active \in BOOLEAN /\ nav.told \in BOOLEAN
                BY <1>2 DEF Nav
            <4> QED  BY <1>9, <3>1, <4>1 DEF Settled, Told
        <3>3. Late(ex, nav)
            BY <1>2, <3>1, <3>2 DEF Retries
        <3>4. AllLate(x, nav, telemetry)
            BY <1>9, <3>2, <3>3 DEF AllLate, Late
        <3>5. ex' = BeginRecoveryRetry(x, served, cut)
            BY <1>20, <2>3
        <3>6. Timed(nav, telemetry) /\ cut \in Nat /\ x.phase = "ACTIVE"
            BY <1>1, <1>2, <1>9
        <3> DEFINE z == BeginRecoveryRetry(x, served, cut)
        <3> HIDE DEF z, blocked, s
        <3>7. CreditOK(z, nav, telemetry, trail) /\ z.mid = x.mid /\ z.pose = x.pose
            <4>1. x.calls = <<>> /\ nav.active = FALSE
                BY <3>2
            <4> QED  BY <1>10, <1>11, <3>4, <3>6, <4>1, BeginCredit DEF z
        <3>8. ex' = z
            BY <3>5 DEF z
        <3> QED  BY <1>9, <1>14, <3>7, <3>8
    <2> QED  BY <1>6, <1>20, <2>1, <2>2, <2>3
<1> QED  BY <1>12, <1>18, <1>19, <1>20

(* The command server takes a call: it is no request any more.             *)
LEMMA TakenQuiet ==
    ASSUME CreditInv, NEW i \in DOMAIN ex.calls, Taken(i)
    PROVE  Quiet(ex, ex')
<1> DEFINE b == ex.calls[i]
           c == [b EXCEPT !.st = "serving"]
<1>1. /\ ex \in LooseExecutor /\ ex.calls \in Seq(Call) /\ i \in 1 .. Len(ex.calls)
    BY CreditFacts, CheckFacts
<1>2. b \in Call
    BY <1>1
<1>3. c \in Call /\ c.st = "serving"
    <2> HIDE DEF b
    <2> QED  BY <1>2 DEF Call
<1>4. Replaces(ex, ex', i, c)
    BY DEF Taken, Replaces
<1> HIDE DEF c
<1>5. PICK ds : /\ WithCalls(ex, ex', ds) /\ Requested(ds) \subseteq Requested(ex.calls)
                /\ Granted(ds) \subseteq Granted(ex.calls)
    BY <1>1, <1>3, <1>4, AnswerView
<1> QED  BY <1>1, <1>5, CallsQuiet

(* The command server answers; only the answer to a goal request that it   *)
(* took is one that the executor waits for with its number.                *)
LEMMA AnswerCredit ==
    ASSUME CreditInv, NEW i \in DOMAIN ex.calls, NEW st \in {"ok", "failed"}, NEW id \in Nat,
           Answer(i, st, id)
    PROVE  \E ds : /\ WithCalls(ex, ex', ds)
                   /\ Requested(ds) \subseteq Requested(ex.calls)
                   /\ Granted(ds) \subseteq Granted(ex.calls) \union {id}
                   /\ ~ex.calls[i].current \/ st # "ok" => Granted(ds) \subseteq Granted(ex.calls)
<1> DEFINE b == ex.calls[i]
           c == [b EXCEPT !.st = st, !.id = id]
<1>1. /\ ex \in LooseExecutor /\ ex.calls \in Seq(Call) /\ i \in 1 .. Len(ex.calls)
    BY CreditFacts, CheckFacts
<1>2. b \in Call
    BY <1>1
<1>3. c \in Call /\ c.st = st /\ c.id = id /\ c.current = b.current /\ c.st # "sent"
    <2> HIDE DEF b
    <2>1. c \in Call /\ c.st = st /\ c.id = id /\ c.current = b.current
        BY <1>2 DEF Call
    <2> QED  BY <2>1
<1>4. TakesOut(ex, ex', i) \/ Replaces(ex, ex', i, c)
    BY DEF Answer, TakesOut, Replaces
<1> HIDE DEF c
<1>5. PICK ds : /\ WithCalls(ex, ex', ds) /\ Requested(ds) \subseteq Requested(ex.calls)
                /\ Granted(ds) \subseteq Granted(ex.calls) \union {c.id}
                /\ ~c.current \/ c.st # "ok" => Granted(ds) \subseteq Granted(ex.calls)
    BY <1>1, <1>3, <1>4, AnswerView
<1> QED  BY <1>3, <1>5

LEMMA AnswerQuiet ==
    ASSUME CreditInv, NEW i \in DOMAIN ex.calls, NEW st \in {"ok", "failed"}, Answer(i, st, 0),
           st # "ok" \/ ex.calls[i].kind # "goal"
    PROVE  Quiet(ex, ex')
<1>1. /\ ex \in LooseExecutor /\ i \in 1 .. Len(ex.calls) /\ Sound(ex)
    BY CreditFacts, CheckFacts
<1>2. ex.calls[i].kind # "goal" => ~ex.calls[i].current
    BY <1>1 DEF Sound, Asks
<1>3. PICK ds : /\ WithCalls(ex, ex', ds) /\ Requested(ds) \subseteq Requested(ex.calls)
                /\ Granted(ds) \subseteq Granted(ex.calls)
    BY <1>2, AnswerCredit
<1> QED  BY <1>1, <1>3, CallsQuiet

LEMMA AnswerGoalCredit ==
    ASSUME CreditInv, CheckInv', NEW i \in DOMAIN ex.calls, AnswerGoal(i)
    PROVE  CreditInv'
<1> DEFINE e == nav.events + 1
<1>1. /\ ex \in LooseExecutor /\ nav \in Nav /\ Timed(nav, telemetry)
      /\ CreditOK(ex, nav, telemetry, trail) /\ Unsent(ex, nav, telemetry)
      /\ DriveOK(nav, telemetry, trail) /\ Seen(ex, robot, trail) /\ ex.floor \in Int
      /\ ex.calls \in Seq(Call)
    BY CreditFacts
<1>2. /\ nav' = [nav EXCEPT !.events = e] /\ Answer(i, "ok", nav'.events)
      /\ UNCHANGED <<robot, trail, telemetry>>
    BY DEF AnswerGoal
<1>3. e \in Nat /\ nav.events < e
    BY <1>1 DEF Nav
<1> HIDE DEF e
<1>4. /\ nav'.active = nav.active /\ nav'.goal = nav.goal /\ nav'.at = nav.at
      /\ nav'.result = nav.result /\ nav'.rid = nav.rid /\ nav'.events = e
    BY <1>1, <1>2 DEF Nav
<1>5. Alike(nav, nav')
    BY <1>1, <1>3, <1>4 DEF Alike, Timed
<1>6. PICK ds : /\ WithCalls(ex, ex', ds) /\ Requested(ds) \subseteq Requested(ex.calls)
                /\ Granted(ds) \subseteq Granted(ex.calls) \union {e}
    <2>1. Answer(i, "ok", e)
        BY <1>2, <1>4
    <2> QED  BY <1>3, <2>1, AnswerCredit
<1>7. /\ ex'.mid = ex.mid /\ ex'.pose = ex.pose /\ ex'.credited = ex.credited
      /\ ex'.last = ex.last /\ ex'.floor = ex.floor /\ ex'.calls = ds
      /\ ex'.phase = ex.phase /\ ex'.chunk = ex.chunk /\ ex'.near = ex.near
    BY <1>1, <1>6 DEF LooseExecutor, WithCalls
<1>8. /\ CreditOK(ex, nav', telemetry, trail) /\ Unsent(ex, nav', telemetry)
      /\ DriveOK(nav', telemetry, trail)
    BY <1>1, <1>5, AlikeKeeps, GrantedTypes
<1>9. Numbered(ex', nav')
    <2>1. ex.floor <= nav.events /\ \A k \in Granted(ex.calls) : ex.floor <= k /\ k <= nav.events
        BY <1>1 DEF CreditOK, Numbered
    <2>2. Granted(ex.calls) \subseteq Int /\ nav.events \in Int
        BY <1>1, GrantedTypes DEF Timed
    <2>3. ex'.floor <= nav'.events
        BY <1>1, <1>3, <1>4, <1>7, <2>1, <2>2
    <2>4. ASSUME NEW k \in Granted(ex'.calls)  PROVE ex'.floor <= k /\ k <= nav'.events
        <3>1. k \in Granted(ex.calls) \/ k = e
            BY <1>6, <1>7
        <3> QED  BY <1>1, <1>3, <1>4, <1>7, <2>1, <2>2, <3>1
    <2> QED  BY <2>3, <2>4 DEF Numbered
<1>10. CreditOK(ex', nav', telemetry, trail)
    BY <1>6, <1>7, <1>8, <1>9 DEF CreditOK, Evidence, AllLate, Late
<1>11. Unsent(ex', nav', telemetry) /\ Seen(ex', robot, trail)
    BY <1>1, <1>6, <1>7, <1>8 DEF Unsent, Seen
<1> QED  BY <1>2, <1>8, <1>10, <1>11 DEF CreditInv

(* The goal that Nav2 begins is one that was requested.                    *)
LEMMA SendGoalCredit ==
    ASSUME CreditInv, CheckInv', NEW i \in DOMAIN ex.calls, SendGoal(i)
    PROVE  CreditInv'
<1> DEFINE g == ex.calls[i].goal
           at == g.s - 1
           yes == TRUE
           no == FALSE
           none == "none"
           blank == ""
<1>1. /\ ex \in LooseExecutor /\ nav \in Nav /\ Timed(nav, telemetry)
      /\ CreditOK(ex, nav, telemetry, trail) /\ Unsent(ex, nav, telemetry)
      /\ DriveOK(nav, telemetry, trail) /\ Seen(ex, robot, trail)
      /\ ex.calls \in Seq(Call) /\ i \in 1 .. Len(ex.calls)
    BY CreditFacts, CheckFacts
<1>2. /\ Taken(i) /\ UNCHANGED <<robot, trail, telemetry>>
      /\ ex.calls[i].st = "sent" /\ ex.calls[i].kind = "goal"
      /\ nav' = [nav EXCEPT !.active = yes, !.goal = g, !.at = at, !.asked = no,
                            !.result = none, !.failure = blank, !.told = no]
    BY DEF SendGoal, Served
<1>3. g \in Requested(ex.calls)
    BY <1>1, <1>2 DEF Requested
<1>4. ~(at >= g.s) /\ at < g.s
    <2>1. ex.calls[i] \in Call
        BY <1>1
    <2>2. g \in Goal
        BY <2>1 DEF Call
    <2>3. g.s \in 0 .. Length - 1
        BY <2>2 DEF Goal, Index
    <2> QED  BY <2>3, RouteAssumption
<1>5. none # "succeeded"
    OBVIOUS
<1> HIDE DEF g, at, yes, no, none, blank
<1>6. /\ nav'.active = yes /\ nav'.goal = g /\ nav'.at = at /\ nav'.result = none
      /\ nav'.rid = nav.rid /\ nav'.events = nav.events
    BY <1>1, <1>2 DEF Nav
<1>7. Quiet(ex, ex')
    BY <1>2, TakenQuiet
<1>8. CreditOK(ex', nav, telemetry, trail)
    <2>1. telemetry \in SUBSET telemetry
        OBVIOUS
    <2> QED  BY <1>1, <1>7, <2>1, QuietKeeps
<1>9. Numbered(ex', nav')
    BY <1>6, <1>8 DEF CreditOK, Numbered
<1>10. ASSUME ex'.phase = "ACTIVE"  PROVE Evidence(ex', nav', telemetry, trail)
    <2>1. /\ ex.phase = "ACTIVE" /\ ex'.chunk = ex.chunk
          /\ Requested(ex'.calls) \subseteq Requested(ex.calls)
        BY <1>7, <1>10 DEF Quiet
    <2>2. AllLate(ex, nav, telemetry) /\ g.e = ex.chunk.e
          /\ \A k \in Requested(ex.calls) : k.e = ex.chunk.e
        BY <1>1, <1>3, <2>1 DEF CreditOK, Evidence
    <2>3. AllLate(ex', nav', telemetry)
        <3>1. Late(ex', nav')
            BY <1>5, <1>6 DEF Late
        <3>2. ex'.last \in Int /\ ex.last \in Int /\ ex.last <= ex'.last
              /\ ex'.floor \in Int /\ ex.floor \in Int
            BY <1>7 DEF Quiet
        <3>3. ex.floor <= ex'.floor
            BY <1>1, <1>7 DEF Quiet, CreditOK, Numbered
        <3>4. ASSUME NEW m \in telemetry  PROVE Late(ex', m)
            <4>1. m.rid \in Int /\ Late(ex, m)
                BY <1>1, <2>2 DEF Timed, AllLate
            <4> QED  BY <3>2, <3>3, <4>1 DEF Late
        <3> QED  BY <3>1, <3>4 DEF AllLate
    <2>4. ex'.near = TRUE => ex'.chunk.e \in trail
        BY <1>8, <1>10 DEF CreditOK, Evidence
    <2> QED  BY <1>4, <1>6, <2>1, <2>2, <2>3, <2>4 DEF Evidence
<1>11. CreditOK(ex', nav', telemetry, trail)
    BY <1>8, <1>9, <1>10 DEF CreditOK
<1>12. ex.mid # 0
    BY <1>1, <1>3 DEF Unsent
<1>13. Unsent(ex', nav', telemetry) /\ Seen(ex', robot, trail)
    BY <1>1, <1>7, <1>12 DEF Quiet, Unsent, Seen
<1>14. DriveOK(nav', telemetry, trail)
    <2>1. nav'.result = "none"
        BY <1>6 DEF none
    <2> QED  BY <1>4, <1>6, <2>1 DEF DriveOK
<1> QED  BY <1>2, <1>11, <1>13, <1>14 DEF CreditInv

LEMMA ServerCredit ==
    ASSUME CreditInv, CheckInv', NEW i \in DOMAIN ex.calls,
           RefuseGoal(i) \/ ReplaceGoal(i) \/ SendGoal(i) \/ AnswerGoal(i)
              \/ CancelGoal(i) \/ AnswerCancel(i)
    PROVE  CreditInv'
<1>1. nav \in Nav /\ ex.last \in Int /\ ex.floor \in Int /\ Alike(nav, nav)
      /\ telemetry \subseteq telemetry
    BY CreditFacts, SelfAlike
<1>2. ASSUME nav' = [nav EXCEPT !.asked = TRUE]  PROVE Alike(nav, nav')
    <2>1. /\ nav'.active = nav.active /\ nav'.goal = nav.goal /\ nav'.at = nav.at
          /\ nav'.result = nav.result /\ nav'.rid = nav.rid /\ nav'.events = nav.events
        BY <1>1, <1>2 DEF Nav
    <2> QED  BY <1>1, <2>1 DEF Alike
<1>3. CASE RefuseGoal(i)
    <2>1. Answer(i, "failed", 0) /\ UNCHANGED <<nav, robot, trail, telemetry>>
        BY <1>3 DEF RefuseGoal, outside
    <2>2. Quiet(ex, ex')
        BY <2>1, AnswerQuiet
    <2> QED  BY <1>1, <2>1, <2>2, QuietStep
<1>4. CASE AnswerCancel(i)
    <2>1. /\ ex.calls[i].kind # "goal" /\ UNCHANGED <<nav, robot, trail, telemetry>>
          /\ \E st \in {"ok", "failed"} : Answer(i, st, 0)
        BY <1>4 DEF AnswerCancel, outside
    <2>2. Quiet(ex, ex')
        BY <2>1, AnswerQuiet
    <2> QED  BY <1>1, <2>1, <2>2, QuietStep
<1>5. CASE ReplaceGoal(i)
    <2>1. /\ nav' = [nav EXCEPT !.asked = TRUE] /\ UNCHANGED <<ex, robot, trail, telemetry>>
        BY <1>5 DEF ReplaceGoal
    <2>2. Quiet(ex, ex')
        BY <1>1, <2>1, SameQuiet
    <2> QED  BY <1>1, <1>2, <2>1, <2>2, QuietStep
<1>6. CASE CancelGoal(i)
    <2>1. /\ nav' = [nav EXCEPT !.asked = TRUE] /\ Taken(i)
          /\ UNCHANGED <<robot, trail, telemetry>>
        BY <1>6 DEF CancelGoal
    <2>2. Quiet(ex, ex')
        BY <2>1, TakenQuiet
    <2> QED  BY <1>1, <1>2, <2>1, <2>2, QuietStep
<1> QED  BY <1>3, <1>4, <1>5, <1>6, SendGoalCredit, AnswerGoalCredit

(* A goal ends; if it succeeded, the robot is where the window ends.       *)
LEMMA ResultCredit ==
    ASSUME CreditInv, CheckInv', NEW r \in Results, r # "none", NEW f \in FailureCodes,
           GoalResult(r, f)
    PROVE  CreditInv'
<1> DEFINE id == nav.events + 1
           no == FALSE
<1>1. /\ ex \in LooseExecutor /\ nav \in Nav /\ Timed(nav, telemetry) /\ NavOK(nav, telemetry)
      /\ CreditOK(ex, nav, telemetry, trail) /\ Unsent(ex, nav, telemetry)
      /\ DriveOK(nav, telemetry, trail) /\ Seen(ex, robot, trail)
      /\ ex.floor \in Int /\ ex.calls \in Seq(Call)
    BY CreditFacts
<1>2. /\ nav.active
      /\ r = "succeeded" => nav.at = nav.goal.e
      /\ nav' = [nav EXCEPT !.active = no, !.asked = no, !.result = r,
                            !.rid = id, !.events = id, !.failure = f]
      /\ UNCHANGED <<ex, robot, trail, telemetry>>
    BY DEF GoalResult
<1>3. nav.active = TRUE /\ id \in Int /\ nav.events \in Int /\ nav.events < id
    <2>1. nav.active \in BOOLEAN /\ nav.events \in Nat
        BY <1>1 DEF Nav
    <2> QED  BY <1>2, <2>1
<1>4. r = "succeeded" => nav.at >= nav.goal.s /\ nav.at \in trail
                         /\ \A m \in telemetry : m.result = "none"
    <2>1. nav.goal \in Goal /\ nav.goal.s <= nav.goal.e
        BY <1>1 DEF Nav, NavOK
    <2>2. nav.goal.s \in 0 .. Length - 1 /\ nav.goal.e \in 0 .. Length - 1
        BY <2>1 DEF Goal, Index
    <2>3. r = "succeeded" => nav.at >= nav.goal.s
        BY <1>2, <2>1, <2>2, RouteAssumption
    <2> QED  BY <1>1, <1>3, <2>3 DEF DriveOK
<1> HIDE DEF id
<1>5. /\ nav'.active = no /\ nav'.result = r /\ nav'.rid = id /\ nav'.events = id
      /\ nav'.goal = nav.goal /\ nav'.at = nav.at
    <2> HIDE DEF no
    <2> QED  BY <1>1, <1>2 DEF Nav
<1>6. Numbered(ex, nav')
    <2>1. ex.floor <= nav.events /\ \A k \in Granted(ex.calls) : ex.floor <= k /\ k <= nav.events
        BY <1>1 DEF CreditOK, Numbered
    <2>2. Granted(ex.calls) \subseteq Int
        BY <1>1, GrantedTypes
    <2> QED  BY <1>1, <1>3, <1>5, <2>1, <2>2 DEF Numbered
<1>7. ASSUME ex.phase = "ACTIVE"  PROVE Evidence(ex, nav', telemetry, trail)
    <2>1. Evidence(ex, nav, telemetry, trail)
        BY <1>1, <1>7 DEF CreditOK
    <2>2. /\ \A m \in telemetry : Late(ex, m)
          /\ nav.goal.e = ex.chunk.e
          /\ Requested(ex.calls) # {} => nav.at < nav.goal.s
        BY <1>3, <2>1 DEF Evidence, AllLate
    <2>3. r = "succeeded" => Requested(ex.calls) = {} /\ ex.chunk.e \in trail
        <3>1. nav.goal \in Goal /\ nav.at \in -1 .. Length - 1
            BY <1>1 DEF Nav, Position
        <3>2. nav.goal.s \in 0 .. Length - 1 /\ Length \in Nat
            BY <3>1, RouteAssumption DEF Goal, Index
        <3>3. r = "succeeded" => ~(nav.at < nav.goal.s)
            BY <1>4, <3>1, <3>2
        <3> QED  BY <1>2, <1>4, <2>2, <3>3
    <2>4. r # "succeeded" => AllLate(ex, nav', telemetry)
        BY <1>5, <2>2 DEF AllLate, Late
    <2>5. nav'.active = FALSE
        BY <1>5
    <2> QED  BY <2>1, <2>3, <2>4, <2>5 DEF Evidence
<1>8. CreditOK(ex, nav', telemetry, trail)
    BY <1>1, <1>6, <1>7 DEF CreditOK
<1>9. Unsent(ex, nav', telemetry)
    BY <1>1, <1>3 DEF Unsent
<1>10. DriveOK(nav', telemetry, trail)
    BY <1>4, <1>5 DEF DriveOK
<1> QED  BY <1>1, <1>2, <1>8, <1>9, <1>10 DEF CreditInv

(* The robot drives on: nothing is requested meanwhile.                    *)
LEMMA MoveCredit ==
    ASSUME CreditInv, CheckInv', Move
    PROVE  CreditInv'
<1> DEFINE at == nav.at + 1
           tr == trail \union {at}
<1>1. /\ ex \in LooseExecutor /\ nav \in Nav
      /\ CreditOK(ex, nav, telemetry, trail) /\ Unsent(ex, nav, telemetry)
      /\ DriveOK(nav, telemetry, trail) /\ Seen(ex, robot, trail)
      /\ ex.calls \in Seq(Call) /\ DOMAIN ex.calls = 1 .. Len(ex.calls)
    BY CreditFacts, CheckFacts
<1>2. /\ nav.active /\ nav' = [nav EXCEPT !.at = at] /\ robot' = at /\ trail' = tr
      /\ \A i \in DOMAIN ex.calls : ex.calls[i].st # "sent"
      /\ nav.at >= nav.goal.s \/ telemetry = {}
      /\ UNCHANGED <<ex, telemetry>>
    BY DEF Move
<1>3. Requested(ex.calls) = {}
    BY <1>1, <1>2 DEF Requested
<1>4. nav.active = TRUE
    BY <1>1, <1>2 DEF Nav
<1>5. at \in tr /\ trail \subseteq tr
    OBVIOUS
<1> HIDE DEF at, tr
<1>6. /\ nav'.active = nav.active /\ nav'.goal = nav.goal /\ nav'.at = at
      /\ nav'.result = nav.result /\ nav'.rid = nav.rid /\ nav'.events = nav.events
    BY <1>1, <1>2 DEF Nav
<1>7. AllLate(ex, nav, telemetry) => AllLate(ex, nav', telemetry)
    BY <1>6 DEF AllLate, Late
<1>8. ex.phase = "ACTIVE" => Evidence(ex, nav', telemetry, tr)
    BY <1>1, <1>3, <1>4, <1>5, <1>6, <1>7 DEF CreditOK, Evidence
<1>9. CreditOK(ex, nav', telemetry, tr)
    BY <1>1, <1>5, <1>6, <1>8 DEF CreditOK, Numbered
<1>10. Unsent(ex, nav', telemetry)
    BY <1>1, <1>4 DEF Unsent
<1>11. DriveOK(nav', telemetry, tr)
    <2>1. \A m \in telemetry : m.result = "none"
        BY <1>1, <1>2, <1>4 DEF DriveOK
    <2> QED  BY <1>1, <1>5, <1>6, <2>1 DEF DriveOK
<1>12. Seen(ex, at, tr)
    BY <1>1, <1>5 DEF Seen
<1> QED  BY <1>2, <1>9, <1>10, <1>11, <1>12 DEF CreditInv

(* Telemetry says what the command server knows.                           *)
LEMMA PublishCredit ==
    ASSUME CreditInv, CheckInv', PublishTelemetry
    PROVE  CreditInv'
<1> DEFINE m == [goalActive |-> nav.active, manual |-> nav.manual,
                 collision |-> nav.collision, result |-> nav.result,
                 rid |-> nav.rid, failure |-> nav.failure]
           told == nav.active
<1>1. /\ ex \in LooseExecutor /\ nav \in Nav /\ Timed(nav, telemetry)
      /\ CreditOK(ex, nav, telemetry, trail) /\ Unsent(ex, nav, telemetry)
      /\ DriveOK(nav, telemetry, trail) /\ Seen(ex, robot, trail)
      /\ ex.floor \in Int /\ ex.calls \in Seq(Call)
    BY CreditFacts
<1>2. /\ telemetry' = {m} /\ nav' = [nav EXCEPT !.told = told]
      /\ telemetry = {} /\ UNCHANGED <<ex, robot, trail>>
    BY DEF PublishTelemetry
<1>3. m.result = nav.result /\ m.rid = nav.rid
    OBVIOUS
<1> HIDE DEF m, told
<1>4. /\ nav'.active = nav.active /\ nav'.goal = nav.goal /\ nav'.at = nav.at
      /\ nav'.result = nav.result /\ nav'.rid = nav.rid /\ nav'.events = nav.events
    BY <1>1, <1>2 DEF Nav
<1>5. AllLate(ex, nav, telemetry) <=> AllLate(ex, nav', {m})
    BY <1>2, <1>3, <1>4 DEF AllLate, Late
<1>6. CreditOK(ex, nav', {m}, trail)
    BY <1>1, <1>4, <1>5 DEF CreditOK, Numbered, Evidence
<1>7. Unsent(ex, nav', {m})
    BY <1>1, <1>3, <1>4 DEF Unsent
<1>8. DriveOK(nav', {m}, trail)
    BY <1>1, <1>3, <1>4 DEF DriveOK
<1> QED  BY <1>1, <1>2, <1>6, <1>7, <1>8 DEF CreditInv

LEMMA WorldCredit ==
    ASSUME CreditInv, CheckInv', World \/ PublishTelemetry \/ SetManualMode \/ OnMonitorState
    PROVE  CreditInv'
<1>1. nav \in Nav /\ ex.last \in Int /\ ex.floor \in Int /\ Alike(nav, nav)
      /\ telemetry \subseteq telemetry
    BY CreditFacts, SelfAlike
<1>2. ASSUME ex' = ex, Alike(nav, nav'), UNCHANGED <<robot, trail, telemetry>>
      PROVE  CreditInv'
    <2>1. Quiet(ex, ex')
        BY <1>1, <1>2, SameQuiet
    <2> QED  BY <1>1, <1>2, <2>1, QuietStep
<1>3. ASSUME NEW h \in Verdicts, EvaluatePath(h)
      PROVE  CreditInv'
    <2>1. UNCHANGED <<ex, nav, robot, trail, telemetry>>
        BY <1>3 DEF EvaluatePath
    <2> QED  BY <1>1, <1>2, <2>1
<1>4. CASE SetManualMode \/ OnMonitorState
    <2>1. UNCHANGED <<ex, robot, trail, telemetry>>
        BY <1>4 DEF SetManualMode, OnMonitorState
    <2>2. /\ nav'.active = nav.active /\ nav'.goal = nav.goal
          /\ nav'.at = nav.at /\ nav'.result = nav.result /\ nav'.rid = nav.rid
          /\ nav'.events = nav.events
        <3>1. CASE SetManualMode
            BY <1>1, <3>1 DEF SetManualMode, Nav
        <3>2. CASE OnMonitorState
            BY <1>1, <3>2 DEF OnMonitorState, Nav
        <3> QED  BY <1>4, <3>1, <3>2
    <2>3. Alike(nav, nav')
        BY <1>1, <2>2 DEF Alike
    <2> QED  BY <1>2, <2>1, <2>3
<1>5. CASE World
    <2>1. CASE \E r \in Results \ {"none", "aborted"} : GoalResult(r, "")
        BY <2>1, ResultCredit DEF FailureCodes
    <2>2. CASE \E f \in Failures : GoalResult("aborted", f)
        BY <2>2, ResultCredit, RouteAssumption DEF FailureCodes, Results
    <2> QED  BY <1>3, <1>5, <2>1, <2>2, MoveCredit DEF World
<1> QED  BY <1>4, <1>5, PublishCredit

LEMMA CallbackCredit ==
    ASSUME HasAction = {}, ~SlowCancel, MaxMissions <= 1, CreditInv, CheckInv',
           \/ Set \/ PreparationFails \/ Cancel \/ Ticks \/ Answers
           \/ \E a \in Anchors, cut \in Cuts : ActivatePrepared(a, cut)
           \/ \E fresh \in BOOLEAN : OnPose(fresh)
           \/ \E m \in telemetry, cut \in Cuts : OnTelemetry(m, cut)
           \/ ClearsAnswer \/ ActionAnswer
    PROVE  CreditInv'
<1>1. ex.last \in Int /\ ex.floor \in Int /\ Alike(nav, nav) /\ Sound(ex)
      /\ telemetry \subseteq telemetry
    BY CreditFacts, SelfAlike
<1>2. ASSUME Quiet(ex, ex'), UNCHANGED outside  PROVE CreditInv'
    <2>1. UNCHANGED <<nav, robot, trail, telemetry>>
        BY <1>2 DEF outside
    <2> QED  BY <1>1, <1>2, <2>1, QuietStep
<1>3. CASE Set \/ PreparationFails
    <2>1. ex' = ex /\ UNCHANGED outside
        BY <1>3 DEF Set, PreparationFails
    <2>2. Quiet(ex, ex')
        BY <1>1, <2>1, SameQuiet
    <2> QED  BY <1>2, <2>1, <2>2
<1>4. CASE Cancel
    <2>1. UNCHANGED outside
        BY <1>4 DEF Cancel
    <2> QED  BY <1>2, <1>4, <2>1, CancelQuiet
<1>5. ~ActionAnswer /\ \A cut \in Cuts : ~TickAction(cut)
    BY <1>1 DEF Sound, ActionAnswer, TickAction
<1>6. CASE Answers
    <2>1. PICK i \in DOMAIN ex.calls : OnGoalRequest(i) \/ CancelEnds(i)
        BY <1>6 DEF Answers
    <2>2. UNCHANGED outside
        BY <2>1 DEF OnGoalRequest, CancelEnds
    <2> QED  BY <1>2, <2>1, <2>2, OnGoalRequestQuiet, CancelEndsQuiet
<1>7. CASE ClearsAnswer
    <2>1. UNCHANGED outside
        BY <1>7 DEF ClearsAnswer
    <2> QED  BY <1>2, <1>7, <2>1, ClearsQuiet
<1>8. CASE Ticks
    BY <1>5, <1>8, TickCredit DEF Ticks
<1> QED  BY <1>3, <1>4, <1>5, <1>6, <1>7, <1>8, ActivateCredit, OnPoseCredit, OnTelemetryCredit

-----------------------------------------------------------------------------
(* The invariant of one mission is inductive.                              *)

LEMMA CreditInit == Init => CreditInv
<1> SUFFICES ASSUME Init PROVE CreditInv
    OBVIOUS
<1>1. CheckInv
    BY CheckInit
<1>2. /\ ex.mid = 0 /\ ex.credited = {} /\ ex.floor = -1 /\ ex.calls = <<>> /\ ex.phase = "IDLE"
      /\ nav.active = FALSE /\ nav.result = "none" /\ nav.events = 0 /\ telemetry = {}
    BY DEF Init
<1>3. Requested(ex.calls) = {} /\ Granted(ex.calls) = {}
    BY <1>2, NothingRequested
<1>4. CreditOK(ex, nav, telemetry, trail)
    BY <1>2, <1>3 DEF CreditOK, Numbered
<1>5. Unsent(ex, nav, telemetry) /\ DriveOK(nav, telemetry, trail) /\ Seen(ex, robot, trail)
    BY <1>2, <1>3 DEF Unsent, DriveOK, Seen
<1> QED  BY <1>1, <1>4, <1>5 DEF CreditInv

LEMMA CreditStep ==
    ASSUME HasAction = {}, ~SlowCancel, MaxMissions <= 1, CreditInv, [Next]_vars
    PROVE  CreditInv'
<1>1. CheckInv'
    BY CheckStep DEF CreditInv
<1>2. CASE UNCHANGED vars
    <2>1. UNCHANGED <<ex, nav, robot, trail, telemetry>>
        BY <1>2 DEF vars, outside
    <2> QED  BY <1>1, <2>1 DEF CreditInv
<1>3. CASE Next
    <2>1. CASE Server
        <3>1. CASE \E i \in DOMAIN ex.calls :
                     RefuseGoal(i) \/ ReplaceGoal(i) \/ SendGoal(i) \/ AnswerGoal(i)
                        \/ CancelGoal(i) \/ AnswerCancel(i)
            BY <1>1, <3>1, ServerCredit
        <3>2. CASE PublishTelemetry \/ ClearsAnswer \/ ActionAnswer
            BY <1>1, <3>2, WorldCredit, CallbackCredit
        <3> QED  BY <2>1, <3>1, <3>2 DEF Server
    <2>2. CASE ~Server
        BY <1>1, <1>3, <2>2, WorldCredit, CallbackCredit DEF Next
    <2> QED  BY <2>1, <2>2
<1> QED  BY <1>2, <1>3

(* Within one mission, every waypoint that is credited is one that the     *)
(* robot has been at, whatever is retried, refused, overtaken, delivered   *)
(* late or disturbed on the way (terminal_nav_result_is_current, _on_pose, *)
(* _begin_recovery_retry).                                                 *)
THEOREM CreditIsEarned ==
    HasAction = {} /\ ~SlowCancel /\ MaxMissions <= 1 => (Spec => []CreditIsPhysical)
<1> SUFFICES ASSUME HasAction = {}, ~SlowCancel, MaxMissions <= 1
             PROVE  Spec => []CreditIsPhysical
    OBVIOUS
<1>1. Init => CreditInv
    BY CreditInit
<1>2. CreditInv /\ [Next]_vars => CreditInv'
    BY CreditStep
<1>3. CreditInv => CreditIsPhysical
    BY DEF CreditInv, CreditOK, CreditIsPhysical
<1> QED  BY <1>1, <1>2, <1>3, PTL DEF Spec
=============================================================================
