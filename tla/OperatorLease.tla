---------------------------- MODULE OperatorLease ----------------------------
(***************************************************************************)
(* The operator lease of the cockpit: operator_guard.py, operator_lease.py *)
(* and the connection handling of websocket_server.py.                     *)
(*                                                                         *)
(* The server is one asyncio loop, so everything between two suspensions   *)
(* is one action.  An operation that awaits the ROS gateway is a record of *)
(* `tasks` until the gateway answers.  A handler reads the clock once.     *)
(* The lock is enabled; with it disabled by configuration nothing below    *)
(* restricts anybody.                                                      *)
(***************************************************************************)
EXTENDS Integers, SequencesExt

CONSTANTS
    Clients, NoOne,
    NavLive,        \* the read-only connections, ?client=nav-live
    Timeout,        \* heartbeat_timeout_s, in ticks
    Capacity,       \* client_queue_capacity
    StartLocked,    \* control_lock_start_locked
    MaxRequests,    \* bound: requests received
    Ops,            \* scenario: the requests clients make
    Undiscovered,   \* may the service behind an operation still be unknown?
    Telemetered,    \* scenario: does the gateway send telemetry?
    SlowState       \* may initial_state take as long as the heartbeat timeout?

AllOps == {"unlock", "lock", "heartbeat", "control", "stop"}

ASSUME LeaseAssumption ==
    /\ NoOne \notin Clients
    /\ NavLive \subseteq Clients
    /\ Timeout \in Nat
    /\ Capacity \in Nat /\ Capacity >= 2
    /\ MaxRequests \in Nat
    /\ Ops \subseteq AllOps
    /\ StartLocked \in BOOLEAN /\ Undiscovered \in BOOLEAN /\ SlowState \in BOOLEAN
    /\ Telemetered \in BOOLEAN

VARIABLES
    owner,      \* OperatorLease._owner
    guard,      \* OperatorControlGuard; age counts ticks since _last_heartbeat
    conn,       \* life of each connection; "closed" until its handler's finally ends
    inbox,      \* requests of a connection whose task has not run yet
    tasks,      \* handlers suspended in the gateway
    outbox,     \* ClientOutbox._items
    watch,      \* _heartbeat_watchdog
    view,       \* what each cockpit was last told about its control
    nRequests,  \* requests received so far
    driver,     \* history: whose controlled operation took effect last
    nEffects,   \* history: controlled operations that took effect
    acks,       \* history: acknowledgements put and sent, per client
    missed      \* history: cockpits the last transition has not reached

leaseVars == <<owner, guard>>
vars == <<owner, guard, conn, inbox, tasks, outbox, watch, view, nRequests,
          driver, nEffects, acks, missed>>

Reasons == {"STARTUP_LOCKED", "UI_LOCK_REQUEST", "UI_HEARTBEAT_TIMEOUT",
            "UI_CLIENT_DISCONNECTED", ""}
(* _last_heartbeat is None, age -1, exactly while the guard is locked.     *)
Guard == [locked : BOOLEAN, reason : Reasons, age : -1 .. Timeout + 1]
Request == [id : Nat, op : AllOps]
(* A suspended handler: looking for a service, waiting for its answer, or  *)
(* waiting for initial_state before a broadcast (id 0: after a disconnect).*)
Task == [id : Nat, client : Clients, op : AllOps,
         at : {"discover", "service", "announce"}]
Message == [op : {"state", "nav_telemetry", "ack"}, mine : BOOLEAN]
Signature == [locked : BOOLEAN, reason : Reasons, owned : BOOLEAN]

TypeOK ==
    /\ owner \in Clients \union {NoOne}
    /\ guard \in Guard /\ (guard.locked <=> guard.age = -1)
    /\ conn \in [Clients -> {"absent", "opening", "open", "closed", "gone"}]
    /\ inbox \in [Clients -> Seq(Request)]
    /\ tasks \subseteq Task
    /\ outbox \in [Clients -> Seq(Message)]
    /\ watch \in [prev : Signature, at : {"sleep", "announce"}, fresh : BOOLEAN]
    /\ view \in [Clients -> BOOLEAN]
    /\ nRequests \in Nat /\ nEffects \in Nat
    /\ driver \in Clients \union {NoOne}
    /\ acks \in [Clients -> [put : Nat, sent : Nat]]
    /\ missed \subseteq Clients

-----------------------------------------------------------------------------
(* OperatorControlGuard and OperatorLease.                                 *)

(* _expire_if_needed: the lock falls when somebody looks.                  *)
Expire(g) ==
    IF ~g.locked /\ g.age > Timeout
    THEN [locked |-> TRUE, reason |-> "UI_HEARTBEAT_TIMEOUT", age |-> -1]
    ELSE g

(* _sync_timeout *)
Synced(g, o) ==
    IF Expire(g).locked /\ Expire(g).reason = "UI_HEARTBEAT_TIMEOUT" THEN NoOne ELSE o

Unlocked == [locked |-> FALSE, reason |-> "", age |-> 0]
LockedBy(reason) == [locked |-> TRUE, reason |-> reason, age |-> -1]

(* state_for: does the lease, seen now, belong to c? *)
Owns(c) == Synced(guard, owner) = c

SignatureNow == [locked |-> Expire(guard).locked, reason |-> Expire(guard).reason,
                 owned |-> Synced(guard, owner) # NoOne]

LookOnly == guard' = Expire(guard) /\ owner' = Synced(guard, owner)

(* Broken variant: the lease of another connection is not respected.       *)
MayUnlockAlways(c) == TRUE

MayUnlock(c) == Synced(guard, owner) \in {NoOne, c}

(* Broken variant: locking forgets to release the lease.                   *)
SetLockedKeepsOwner(c, locked) ==
    IF locked THEN guard' = LockedBy("UI_LOCK_REQUEST") /\ UNCHANGED owner
    ELSE IF MayUnlock(c) THEN owner' = c /\ guard' = Unlocked
    ELSE LookOnly

(* OperatorLease.set_locked; refused when MayUnlock is false.              *)
SetLocked(c, locked) ==
    IF locked THEN owner' = NoOne /\ guard' = LockedBy("UI_LOCK_REQUEST")
    ELSE IF MayUnlock(c) THEN owner' = c /\ guard' = Unlocked
    ELSE LookOnly

(* Broken variant: a heartbeat counts whoever sends it.                    *)
HeartbeatOfAnyone(c) == guard' = [guard EXCEPT !.age = 0] /\ UNCHANGED owner

Heartbeat(c) ==
    IF Owns(c) THEN guard' = [guard EXCEPT !.age = 0] /\ UNCHANGED owner
    ELSE LookOnly

(* Broken variant: only the lock is tested, not who holds the lease.       *)
AuthorizeAnyone(c, op) == op = "control" => ~Expire(guard).locked

Authorize(c, op) == op = "control" => Owns(c) /\ ~Expire(guard).locked

-----------------------------------------------------------------------------
(* ClientOutbox.put of message m to a queue q.                             *)

Replaceable(m) == m.op # "ack"

Overflows(q, m) == ~Replaceable(m) /\ Len(q) >= Capacity

(* Broken variant: a full queue makes room by dropping its oldest entry.   *)
PutDroppingOldest(q, m) ==
    LET same == SelectInSeq(q, LAMBDA n : Replaceable(m) /\ n.op = m.op)
    IN  IF same # 0 THEN [q EXCEPT ![same] = m]
        ELSE IF Len(q) < Capacity THEN Append(q, m)
        ELSE Append(Tail(q), m)

Put(q, m) ==
    LET same == SelectInSeq(q, LAMBDA n : Replaceable(m) /\ n.op = m.op)
        removable == SelectInSeq(q, Replaceable)
    IN  IF same # 0 THEN [q EXCEPT ![same] = m]
        ELSE IF Len(q) < Capacity THEN Append(q, m)
        ELSE IF removable = 0 \/ ~Replaceable(m) THEN q
        ELSE Append(RemoveAt(q, removable), m)

Ack == [op |-> "ack", mine |-> FALSE]

(* outbox.put(ack); a slow client is closed instead.                       *)
PutAck(c) ==
    IF Overflows(outbox[c], Ack)
    THEN /\ conn' = [conn EXCEPT ![c] = "closed"]
         /\ UNCHANGED <<outbox, acks>>
    ELSE /\ outbox' = [outbox EXCEPT ![c] = Put(outbox[c], Ack)]
         /\ acks' = [acks EXCEPT ![c].put = @ + 1]
         /\ UNCHANGED conn

(* _decorate, at the moment of the put, with the lease as it then is.      *)
StateFor(c, op) == [op |-> op, mine |-> Owns(c)]

Listeners == {c \in Clients \ NavLive : conn[c] \in {"opening", "open", "closed"}}

Broadcast(op) ==
    outbox' = [c \in Clients |->
        IF c \in Listeners THEN Put(outbox[c], StateFor(c, op)) ELSE outbox[c]]

(* Its two broadcasts do not suspend, so nothing comes between them.  A    *)
(* queue full of acknowledgements takes neither.                           *)
BroadcastOperatorTransition ==
    /\ outbox' = [c \in Clients |->
           IF c \in Listeners
           THEN Put(Put(outbox[c], StateFor(c, "state")), StateFor(c, "nav_telemetry"))
           ELSE outbox[c]]
    /\ missed' = {c \in Clients :
           IF c \in Listeners THEN SelectInSeq(outbox'[c], Replaceable) = 0 ELSE c \in missed}

-----------------------------------------------------------------------------
Init ==
    /\ owner = NoOne
    /\ guard = IF StartLocked THEN LockedBy("STARTUP_LOCKED") ELSE Unlocked
    /\ conn = [c \in Clients |-> "absent"]
    /\ inbox = [c \in Clients |-> <<>>]
    /\ tasks = {}
    /\ outbox = [c \in Clients |-> <<>>]
    /\ watch = [prev |-> SignatureNow, at |-> "sleep", fresh |-> TRUE]
    /\ view = [c \in Clients |-> FALSE]
    /\ nRequests = 0 /\ nEffects = 0
    /\ driver = NoOne
    /\ acks = [c \in Clients |-> [put |-> 0, sent |-> 0]]
    /\ missed = {}

(* _connection: registered at once, then its first state is awaited.       *)
Connect(c) ==
    /\ conn[c] = "absent"
    /\ conn' = [conn EXCEPT ![c] = "opening"]
    /\ UNCHANGED <<leaseVars, inbox, tasks, outbox, watch, view, nRequests, driver,
                   nEffects, acks, missed>>

FirstState(c) ==
    /\ conn[c] = "opening"
    /\ conn' = [conn EXCEPT ![c] = "open"]
    /\ outbox' = [outbox EXCEPT ![c] = Put(outbox[c], StateFor(c, "state"))]
    /\ LookOnly
    /\ UNCHANGED <<inbox, tasks, watch, view, nRequests, driver, nEffects, acks, missed>>

Receive(c, op) ==
    /\ conn[c] = "open"
    /\ nRequests < MaxRequests
    /\ nRequests' = nRequests + 1
    /\ inbox' = [inbox EXCEPT ![c] = Append(@, [id |-> nRequests + 1, op |-> op])]
    /\ UNCHANGED <<leaseVars, conn, tasks, outbox, watch, view, driver, nEffects, acks, missed>>

(* The socket goes away, from either side.                                 *)
Close(c) ==
    /\ conn[c] \in {"opening", "open"}
    /\ conn' = [conn EXCEPT ![c] = "closed"]
    /\ UNCHANGED <<leaseVars, inbox, tasks, outbox, watch, view, nRequests, driver,
                   nEffects, acks, missed>>

-----------------------------------------------------------------------------
(* _handle, from its start to its first suspension.                        *)

NewTask(c, r, at) == [id |-> r.id, client |-> c, op |-> r.op, at |-> at]

Taken(c, op) ==
    /\ inbox[c] # <<>>
    /\ Head(inbox[c]).op = op
    /\ inbox' = [inbox EXCEPT ![c] = Tail(@)]

HandleReadOnly(c) ==
    /\ c \in NavLive
    /\ inbox[c] # <<>>
    /\ inbox' = [inbox EXCEPT ![c] = Tail(@)]
    /\ PutAck(c)
    /\ LookOnly
    /\ UNCHANGED <<tasks, watch, view, nRequests, driver, nEffects, missed>>

(* A slow client's handler ends at the put: no transition is broadcast.    *)
HandleLock(c, op) ==
    /\ c \notin NavLive
    /\ op \in {"lock", "unlock"} /\ Taken(c, op)
    /\ SetLocked(c, op = "lock")
    /\ PutAck(c)
    /\ tasks' = IF Overflows(outbox[c], Ack) \/ (op = "unlock" /\ ~MayUnlock(c)) THEN tasks
                ELSE tasks \union {NewTask(c, Head(inbox[c]), "announce")}
    /\ missed' = IF Overflows(outbox[c], Ack) /\ (op = "lock" \/ MayUnlock(c))
                 THEN missed \union Listeners ELSE missed
    /\ UNCHANGED <<watch, view, nRequests, driver, nEffects>>

HandleHeartbeat(c) ==
    /\ c \notin NavLive
    /\ Taken(c, "heartbeat")
    /\ Heartbeat(c)
    /\ PutAck(c)
    /\ UNCHANGED <<tasks, watch, view, nRequests, driver, nEffects, missed>>

HandleDenied(c, op) ==
    /\ c \notin NavLive
    /\ op \in {"control", "stop"} /\ Taken(c, op)
    /\ ~Authorize(c, op)
    /\ PutAck(c)
    /\ LookOnly
    /\ UNCHANGED <<tasks, watch, view, nRequests, driver, nEffects, missed>>

TakesEffect(c, op) ==
    IF op = "control" THEN driver' = c /\ nEffects' = nEffects + 1
    ELSE UNCHANGED <<driver, nEffects>>

(* gateway.dispatch runs up to the service call when the service is known. *)
HandleDispatch(c, op) ==
    /\ c \notin NavLive
    /\ op \in {"control", "stop"} /\ Taken(c, op)
    /\ Authorize(c, op)
    /\ LookOnly
    /\ \/ /\ TakesEffect(c, op)
          /\ tasks' = tasks \union {NewTask(c, Head(inbox[c]), "service")}
       \/ /\ Undiscovered
          /\ tasks' = tasks \union {NewTask(c, Head(inbox[c]), "discover")}
          /\ UNCHANGED <<driver, nEffects>>
    /\ UNCHANGED <<conn, outbox, watch, view, nRequests, acks, missed>>

(* _call finds the service within service_discovery_timeout_s ...          *)
Discovered(t) ==
    /\ t \in tasks /\ t.at = "discover"
    /\ TakesEffect(t.client, t.op)
    /\ tasks' = (tasks \ {t}) \union {[t EXCEPT !.at = "service"]}
    /\ UNCHANGED <<leaseVars, conn, inbox, outbox, watch, view, nRequests, acks, missed>>

(* ... or does not; or the service answers, or its timeout passes.         *)
DispatchEnds(t) ==
    /\ t \in tasks /\ t.at \in {"discover", "service"}
    /\ tasks' = tasks \ {t}
    /\ PutAck(t.client)
    /\ UNCHANGED <<leaseVars, inbox, watch, view, nRequests, driver, nEffects, missed>>

Announce(t) ==
    /\ t \in tasks /\ t.at = "announce"
    /\ tasks' = tasks \ {t}
    /\ BroadcastOperatorTransition
    /\ LookOnly
    /\ UNCHANGED <<conn, inbox, watch, view, nRequests, driver, nEffects, acks>>

(* Broken variant: the lease goes before the requests in hand have run.    *)
DisconnectEarly(c) ==
    /\ conn[c] = "closed"
    /\ conn' = [conn EXCEPT ![c] = "gone"]
    /\ outbox' = [outbox EXCEPT ![c] = <<>>]
    /\ owner' = IF Owns(c) THEN NoOne ELSE Synced(guard, owner)
    /\ guard' = IF Owns(c) THEN LockedBy("UI_CLIENT_DISCONNECTED") ELSE Expire(guard)
    /\ tasks' = IF Owns(c) THEN tasks \union {[id |-> 0, client |-> c, op |-> "lock",
                                               at |-> "announce"]}
                ELSE tasks
    /\ UNCHANGED <<inbox, watch, view, nRequests, driver, nEffects, acks, missed>>

(* The finally of _connection: pending requests first, then the lease.     *)
Disconnect(c) ==
    /\ conn[c] = "closed"
    /\ inbox[c] = <<>> /\ \A t \in tasks : t.client # c
    /\ conn' = [conn EXCEPT ![c] = "gone"]
    /\ outbox' = [outbox EXCEPT ![c] = <<>>]
    /\ owner' = IF Owns(c) THEN NoOne ELSE Synced(guard, owner)
    /\ guard' = IF Owns(c) THEN LockedBy("UI_CLIENT_DISCONNECTED") ELSE Expire(guard)
    /\ tasks' = IF Owns(c) THEN tasks \union {[id |-> 0, client |-> c, op |-> "lock",
                                               at |-> "announce"]}
                ELSE tasks
    /\ UNCHANGED <<inbox, watch, view, nRequests, driver, nEffects, acks, missed>>

-----------------------------------------------------------------------------
(* _writer sends the head of the queue.                                    *)
Deliver(c) ==
    LET m == Head(outbox[c])
    IN  /\ conn[c] \in {"opening", "open"}
        /\ outbox[c] # <<>>
        /\ outbox' = [outbox EXCEPT ![c] = Tail(@)]
        /\ view' = IF Replaceable(m) THEN [view EXCEPT ![c] = m.mine] ELSE view
        /\ acks' = IF Replaceable(m) THEN acks ELSE [acks EXCEPT ![c].sent = @ + 1]
        /\ UNCHANGED <<leaseVars, conn, inbox, tasks, watch, nRequests, driver, nEffects, missed>>

(* Telemetry of the ROS gateway reaches every cockpit through _decorate.   *)
Telemetry ==
    /\ Telemetered
    /\ Broadcast("nav_telemetry")
    /\ LookOnly
    /\ UNCHANGED <<conn, inbox, tasks, watch, view, nRequests, driver, nEffects, acks, missed>>

(* Broken variant: the watchdog remembers without comparing.               *)
WatchPollSilent ==
    /\ watch.at = "sleep"
    /\ watch' = [prev |-> SignatureNow, at |-> "sleep", fresh |-> TRUE]
    /\ LookOnly
    /\ UNCHANGED <<conn, inbox, tasks, outbox, view, nRequests, driver, nEffects, acks, missed>>

WatchPoll ==
    /\ watch.at = "sleep"
    /\ watch' = [prev |-> SignatureNow, fresh |-> TRUE,
                 at |-> IF /\ SignatureNow # watch.prev
                           /\ SignatureNow.locked
                           /\ SignatureNow.reason = "UI_HEARTBEAT_TIMEOUT"
                        THEN "announce" ELSE "sleep"]
    /\ LookOnly
    /\ UNCHANGED <<conn, inbox, tasks, outbox, view, nRequests, driver, nEffects, acks, missed>>

WatchAnnounce ==
    /\ watch.at = "announce"
    /\ watch' = [watch EXCEPT !.at = "sleep", !.fresh = TRUE]
    /\ BroadcastOperatorTransition
    /\ LookOnly
    /\ UNCHANGED <<conn, inbox, tasks, view, nRequests, driver, nEffects, acks>>

(* The clock.  The watchdog sleeps 0.25 s, far less than a tick, so a tick *)
(* does not pass it twice while it sleeps; and initial_state answers       *)
(* within a tick unless SlowState.                                         *)
Tick ==
    /\ guard.age \in 0 .. Timeout
    /\ watch.at = "sleep" => watch.fresh
    /\ ~SlowState => watch.at = "sleep" /\ \A t \in tasks : t.at # "announce"
    /\ guard' = [guard EXCEPT !.age = @ + 1]
    /\ watch' = [watch EXCEPT !.fresh = FALSE]
    /\ UNCHANGED <<owner, conn, inbox, tasks, outbox, view, nRequests, driver,
                   nEffects, acks, missed>>

-----------------------------------------------------------------------------
Handle(c) ==
    \/ HandleReadOnly(c)
    \/ \E op \in {"lock", "unlock"} : HandleLock(c, op)
    \/ HandleHeartbeat(c)
    \/ \E op \in {"control", "stop"} : HandleDenied(c, op) \/ HandleDispatch(c, op)

TaskStep == \E t \in tasks : Discovered(t) \/ DispatchEnds(t) \/ Announce(t)

Next ==
    \/ \E c \in Clients :
          \/ Connect(c) \/ FirstState(c) \/ Close(c) \/ Disconnect(c) \/ Deliver(c)
          \/ Handle(c)
          \/ \E op \in Ops : Receive(c, op)
    \/ TaskStep
    \/ Telemetry \/ WatchPoll \/ WatchAnnounce \/ Tick

Spec == Init /\ [][Next]_vars

-----------------------------------------------------------------------------
(* Properties.                                                             *)

(* Lock and lease never disagree: a locked guard has no owner, and an      *)
(* owner's guard is open, whichever of lock, disconnect and expiry came.   *)
LeaseMatchesLock == owner # NoOne => ~guard.locked

(* A connection whose handler has ended does not hold the lease, although  *)
(* its last requests may have run after its socket was gone.               *)
GoneOwnsNothing == \A c \in Clients : conn[c] \in {"absent", "gone"} => ~Owns(c)

(* A controlled operation reaches the robot only while its connection      *)
(* holds an unexpired lease.                                               *)
OnlyOwnerDrives == [][nEffects' # nEffects => Synced(guard', owner') = driver']_vars

(* No acknowledgement is silently dropped: those put for an open           *)
(* connection have been sent or are still queued, in a bounded queue.      *)
AcksAreKept ==
    \A c \in Clients : conn[c] \in {"opening", "open"} =>
        /\ acks[c].put = acks[c].sent
             + Len(SelectSeq(outbox[c], LAMBDA m : ~Replaceable(m)))
        /\ Len(outbox[c]) <= Capacity

(* The lease changes hands only through a lock: a connection never takes   *)
(* it from another one that still holds it.                                *)
NeverStolen ==
    [][\A c, d \in Clients : c # d /\ Owns(c) => Synced(guard', owner') # d]_vars

(* Once every broadcast has gone out and been delivered, no cockpit        *)
(* believes it is in control when it is not: each way of losing the lease  *)
(* has its broadcast, and none of them is overtaken by an older state.     *)
(* Only a full queue breaks the chain: the cockpit's own, which takes no   *)
(* transition, or that of the client that moved the lock, whose handler    *)
(* ends before it broadcasts.                                              *)
CockpitIsTold ==
    \A c \in Clients \ missed :
        /\ conn[c] = "open" /\ outbox[c] = <<>> /\ view[c]
        /\ \A t \in tasks : t.at # "announce"
        /\ watch.at = "sleep" /\ watch.prev = SignatureNow
        => Owns(c)

-----------------------------------------------------------------------------
(* Small instances.  No definition prefers one cockpit to another, and the *)
(* read-only connection, which never owns the lease, makes one request.    *)
MCSymmetry == Permutations(Clients \ NavLive)
MCReader == nRequests <= 1 \/ \A n \in NavLive : conn[n] = "absent"
=============================================================================
