----------------------------- MODULE LeaseProofs -----------------------------
(***************************************************************************)
(* Proofs about OperatorLease, for any number of connections and requests, *)
(* any timeout and any queue capacity.                                     *)
(*                                                                         *)
(* The outboxes, the watchdog and the history variables have no say in who *)
(* owns the lease, so the inductive invariant of the first part leaves     *)
(* them out.  It adds to the two properties that a connection without a    *)
(* handler has no request waiting to run: that is what keeps a late unlock *)
(* from a ghost.  The second part is about what the cockpits are told: it  *)
(* follows the queues, and the watchdog from one poll to the next.         *)
(***************************************************************************)
EXTENDS OperatorLease, SequenceTheorems, WellFoundedInduction, TLAPS

LeaseTypes ==
    /\ owner \in Clients \union {NoOne}
    /\ guard \in Guard
    /\ conn \in [Clients -> {"absent", "opening", "open", "closed", "gone"}]
    /\ inbox \in [Clients -> Seq(Request)]
    /\ nRequests \in Nat

NoHandler(c) == conn[c] \in {"absent", "gone"}

GhostsAreQuiet == \A c \in Clients : NoHandler(c) => inbox[c] = <<>> /\ owner # c

LeaseInv == LeaseTypes /\ LeaseMatchesLock /\ GhostsAreQuiet

(* A handler that still has an answer to put belongs to a connection that  *)
(* waits for it: its put can close that connection, never revive it.       *)
TasksAreLive ==
    /\ tasks \subseteq Task
    /\ \A t \in tasks : t.at # "announce" => ~NoHandler(t.client)

(* Without the discovery of services an operation takes effect at once.    *)
NothingDiscovers == ~Undiscovered => \A t \in tasks : t.at # "discover"

IInv == LeaseInv /\ TasksAreLive /\ NothingDiscovers

-----------------------------------------------------------------------------
(* A lease that is looked at either stays as it is or is nobody's.         *)
LEMMA SyncedOwner ==
    ASSUME LeaseInv
    PROVE  /\ Synced(guard, owner) \in {owner, NoOne}
           /\ Expire(guard) \in Guard
           /\ Expire(guard).locked => Synced(guard, owner) = NoOne
           /\ Synced(guard, owner) # NoOne => Expire(guard) = guard
<1>1. Synced(guard, owner) \in {owner, NoOne}
    BY DEF Synced
<1>2. Expire(guard) \in Guard
    <2>1. guard \in Guard
        BY DEF LeaseInv, LeaseTypes
    <2>2. -1 \in -1 .. Timeout + 1 /\ "UI_HEARTBEAT_TIMEOUT" \in Reasons
        BY LeaseAssumption DEF Reasons
    <2>3. [locked |-> TRUE, reason |-> "UI_HEARTBEAT_TIMEOUT", age |-> -1] \in Guard
        BY <2>2 DEF Guard
    <2> QED  BY <2>1, <2>3 DEF Expire
<1>3. Expire(guard).locked => Synced(guard, owner) = NoOne
    BY DEF LeaseInv, LeaseMatchesLock, LeaseTypes, Guard, Synced, Expire
<1>4. Synced(guard, owner) # NoOne => Expire(guard) = guard
    BY DEF Synced, Expire
<1> QED  BY <1>1, <1>2, <1>3, <1>4

LEMMA Guards ==
    /\ Unlocked \in Guard /\ ~Unlocked.locked
    /\ \A r \in Reasons : LockedBy(r) \in Guard
BY LeaseAssumption DEF Unlocked, LockedBy, Guard, Reasons

(* What looking, unlocking, locking and a heartbeat do to the lease.       *)
LEMMA LookKeepsLease ==
    ASSUME LeaseInv, LookOnly
    PROVE  /\ owner' \in {owner, NoOne} /\ guard' \in Guard
           /\ owner' # NoOne => ~guard'.locked
BY SyncedOwner DEF LookOnly

LEMMA HeartbeatKeepsLease ==
    ASSUME LeaseInv, NEW c \in Clients, Heartbeat(c)
    PROVE  /\ owner' \in {owner, NoOne} /\ guard' \in Guard
           /\ owner' # NoOne => ~guard'.locked
<1>1. CASE Owns(c)
    <2>1. guard' = [guard EXCEPT !.age = 0] /\ owner' = owner
        BY <1>1 DEF Heartbeat
    <2>2. guard \in Guard /\ 0 \in -1 .. Timeout + 1
        BY LeaseAssumption DEF LeaseInv, LeaseTypes
    <2>3. guard' \in Guard /\ guard'.locked = guard.locked
        BY <2>1, <2>2 DEF Guard
    <2> QED  BY <2>1, <2>3 DEF LeaseInv, LeaseMatchesLock
<1>2. CASE ~Owns(c)
    BY <1>2, LookKeepsLease DEF Heartbeat
<1> QED  BY <1>1, <1>2

LEMMA SetLockedTakesFreeLease ==
    ASSUME LeaseInv, NEW c \in Clients, NEW l \in BOOLEAN, SetLocked(c, l)
    PROVE  /\ owner' \in {owner, NoOne, c} /\ guard' \in Guard
           /\ owner' # NoOne => ~guard'.locked
           /\ owner' = c => Synced(guard, owner) \in {NoOne, c}
<1>1. CASE l
    BY <1>1, Guards, LeaseAssumption DEF SetLocked, Reasons
<1>2. CASE ~l /\ MayUnlock(c)
    BY <1>2, Guards DEF SetLocked, MayUnlock
<1>3. CASE ~l /\ ~MayUnlock(c)
    <2>1. LookOnly
        BY <1>3 DEF SetLocked
    <2>2. Synced(guard, owner) # c /\ owner' = Synced(guard, owner)
        BY <1>3, <2>1 DEF MayUnlock, LookOnly
    <2> QED  BY <2>1, <2>2, LookKeepsLease
<1> QED  BY <1>1, <1>2, <1>3

-----------------------------------------------------------------------------
(* One step of the specification, by action.                               *)

LEMMA TakingKeepsInbox ==
    ASSUME LeaseInv, NEW c \in Clients, inbox[c] # <<>>,
           inbox' = [inbox EXCEPT ![c] = Tail(@)]
    PROVE  inbox' \in [Clients -> Seq(Request)] /\ ~NoHandler(c)
<1>1. inbox[c] \in Seq(Request)
    BY DEF LeaseInv, LeaseTypes
<1>2. Tail(inbox[c]) \in Seq(Request)
    BY <1>1
<1>3. inbox' \in [Clients -> Seq(Request)]
    BY <1>2 DEF LeaseInv, LeaseTypes
<1> QED  BY <1>3 DEF LeaseInv, GhostsAreQuiet

LEMMA PutAckKeepsConnections ==
    ASSUME LeaseInv, NEW c \in Clients, PutAck(c), ~NoHandler(c)
    PROVE  /\ conn' \in [Clients -> {"absent", "opening", "open", "closed", "gone"}]
           /\ \A d \in Clients : NoHandler(d)' => NoHandler(d)
BY DEF PutAck, LeaseInv, LeaseTypes, NoHandler

(* A step that touches no connection and at most frees the lease.          *)
LEMMA FreeingKeepsInvariant ==
    ASSUME LeaseInv,
           owner' \in {owner, NoOne}, guard' \in Guard, owner' # NoOne => ~guard'.locked,
           conn' \in [Clients -> {"absent", "opening", "open", "closed", "gone"}],
           \A d \in Clients : NoHandler(d)' => NoHandler(d) /\ inbox'[d] = inbox[d],
           inbox' \in [Clients -> Seq(Request)], nRequests' \in Nat
    PROVE  LeaseInv'
<1>1. LeaseTypes'
    BY DEF LeaseInv, LeaseTypes
<1>2. LeaseMatchesLock'
    BY DEF LeaseMatchesLock
<1>3. ASSUME NEW d \in Clients, NoHandler(d)'
      PROVE  inbox'[d] = <<>> /\ owner' # d
    BY <1>3, LeaseAssumption DEF LeaseInv, GhostsAreQuiet
<1> QED  BY <1>1, <1>2, <1>3 DEF LeaseInv, GhostsAreQuiet

LEMMA ConnectionStep ==
    ASSUME LeaseInv, NEW c \in Clients,
           Connect(c) \/ FirstState(c) \/ Close(c) \/ Deliver(c)
    PROVE  LeaseInv'
<1> USE DEF LeaseInv, LeaseTypes, NoHandler
<1>0. owner # NoOne => ~guard.locked
    BY DEF LeaseMatchesLock
<1>1. CASE Connect(c)
    BY <1>0, <1>1, FreeingKeepsInvariant DEF Connect, leaseVars
<1>2. CASE FirstState(c)
    BY <1>2, LookKeepsLease, FreeingKeepsInvariant DEF FirstState
<1>3. CASE Close(c)
    BY <1>0, <1>3, FreeingKeepsInvariant DEF Close, leaseVars
<1>4. CASE Deliver(c)
    BY <1>0, <1>4, FreeingKeepsInvariant DEF Deliver, leaseVars
<1> QED  BY <1>1, <1>2, <1>3, <1>4

LEMMA ReceiveStep ==
    ASSUME LeaseInv, NEW c \in Clients, NEW op \in Ops, Receive(c, op)
    PROVE  LeaseInv'
<1>1. [id |-> nRequests + 1, op |-> op] \in Request
    BY LeaseAssumption DEF LeaseInv, LeaseTypes, Request
<1>2. inbox' \in [Clients -> Seq(Request)] /\ nRequests' \in Nat
    BY <1>1 DEF LeaseInv, LeaseTypes, Receive
<1>3. conn' = conn /\ owner' = owner /\ guard' = guard /\ conn[c] = "open"
    BY DEF Receive, leaseVars
<1>4. \A d \in Clients : NoHandler(d)' => NoHandler(d) /\ inbox'[d] = inbox[d]
    BY <1>3 DEF Receive, NoHandler, LeaseInv, LeaseTypes
<1>5. owner # NoOne => ~guard.locked
    BY DEF LeaseInv, LeaseMatchesLock
<1> QED  BY <1>2, <1>3, <1>4, <1>5, FreeingKeepsInvariant DEF LeaseInv, LeaseTypes

(* The handlers other than set_control_lock at most free the lease.        *)
LEMMA HandlerStep ==
    ASSUME LeaseInv, NEW c \in Clients,
           \/ HandleReadOnly(c) \/ HandleHeartbeat(c)
           \/ \E op \in {"control", "stop"} : HandleDenied(c, op) \/ HandleDispatch(c, op)
    PROVE  LeaseInv'
<1>1. inbox[c] # <<>> /\ inbox' = [inbox EXCEPT ![c] = Tail(@)]
    BY DEF HandleReadOnly, HandleHeartbeat, HandleDenied, HandleDispatch, Taken
<1>2. inbox' \in [Clients -> Seq(Request)] /\ ~NoHandler(c)
    BY <1>1, TakingKeepsInbox
<1>3. /\ conn' \in [Clients -> {"absent", "opening", "open", "closed", "gone"}]
      /\ \A d \in Clients : NoHandler(d)' => NoHandler(d)
    <2>1. CASE PutAck(c)
        BY <1>2, <2>1, PutAckKeepsConnections
    <2>2. CASE conn' = conn
        BY <2>2 DEF LeaseInv, LeaseTypes, NoHandler
    <2> QED  BY <2>1, <2>2 DEF HandleReadOnly, HandleHeartbeat, HandleDenied, HandleDispatch
<1>4. \A d \in Clients : NoHandler(d)' => NoHandler(d) /\ inbox'[d] = inbox[d]
    BY <1>1, <1>2, <1>3 DEF LeaseInv, LeaseTypes
<1>5. owner' \in {owner, NoOne} /\ guard' \in Guard /\ (owner' # NoOne => ~guard'.locked)
    BY LookKeepsLease, HeartbeatKeepsLease
       DEF HandleReadOnly, HandleHeartbeat, HandleDenied, HandleDispatch
<1>6. nRequests' \in Nat
    BY DEF HandleReadOnly, HandleHeartbeat, HandleDenied, HandleDispatch, LeaseInv, LeaseTypes
<1> QED  BY <1>2, <1>3, <1>4, <1>5, <1>6, FreeingKeepsInvariant

LEMMA LockStep ==
    ASSUME LeaseInv, NEW c \in Clients, NEW op \in {"lock", "unlock"}, HandleLock(c, op)
    PROVE  LeaseInv'
<1>1. inbox[c] # <<>> /\ inbox' = [inbox EXCEPT ![c] = Tail(@)]
    BY DEF HandleLock, Taken
<1>2. inbox' \in [Clients -> Seq(Request)] /\ ~NoHandler(c)
    BY <1>1, TakingKeepsInbox
<1>3. /\ conn' \in [Clients -> {"absent", "opening", "open", "closed", "gone"}]
      /\ \A d \in Clients : NoHandler(d)' => NoHandler(d)
    BY <1>2, PutAckKeepsConnections DEF HandleLock
<1>4. /\ owner' \in {owner, NoOne, c} /\ guard' \in Guard
      /\ owner' # NoOne => ~guard'.locked
    BY SetLockedTakesFreeLease DEF HandleLock
<1>5. nRequests' \in Nat
    BY DEF HandleLock, LeaseInv, LeaseTypes
<1>6. LeaseTypes'
    BY <1>2, <1>3, <1>4, <1>5 DEF LeaseInv, LeaseTypes
<1>7. LeaseMatchesLock'
    BY <1>4 DEF LeaseMatchesLock
<1>8. ASSUME NEW d \in Clients, NoHandler(d)'
      PROVE  inbox'[d] = <<>> /\ owner' # d
    <2>1. NoHandler(d) /\ d # c
        BY <1>2, <1>3, <1>8
    <2>2. inbox[d] = <<>> /\ owner # d
        BY <2>1 DEF LeaseInv, GhostsAreQuiet
    <2> QED  BY <1>1, <1>4, <2>1, <2>2, LeaseAssumption DEF LeaseInv, LeaseTypes
<1> QED  BY <1>6, <1>7, <1>8 DEF LeaseInv, GhostsAreQuiet

LEMMA DisconnectStep ==
    ASSUME LeaseInv, NEW c \in Clients, Disconnect(c)
    PROVE  LeaseInv'
<1>1. /\ owner' \in {owner, NoOne} /\ guard' \in Guard
      /\ owner' # NoOne => ~guard'.locked
      /\ owner' # c
    <2>1. CASE Owns(c)
        BY <2>1, Guards, LeaseAssumption DEF Disconnect, Reasons
    <2>2. CASE ~Owns(c)
        BY <2>2, SyncedOwner DEF Disconnect, Owns
    <2> QED  BY <2>1, <2>2
<1>2. conn' = [conn EXCEPT ![c] = "gone"] /\ inbox' = inbox /\ nRequests' = nRequests
      /\ inbox[c] = <<>>
    BY DEF Disconnect
<1>3. LeaseTypes'
    BY <1>1, <1>2 DEF LeaseInv, LeaseTypes
<1>4. LeaseMatchesLock'
    BY <1>1 DEF LeaseMatchesLock
<1>5. ASSUME NEW d \in Clients, NoHandler(d)'
      PROVE  inbox'[d] = <<>> /\ owner' # d
    <2>1. CASE d = c
        BY <1>1, <1>2, <2>1
    <2>2. CASE d # c
        BY <1>1, <1>2, <1>5, <2>2, LeaseAssumption
           DEF LeaseInv, LeaseTypes, GhostsAreQuiet, NoHandler
    <2> QED  BY <2>1, <2>2
<1> QED  BY <1>3, <1>4, <1>5 DEF LeaseInv, GhostsAreQuiet

LEMMA QuietStep ==
    ASSUME LeaseInv,
           owner' \in {owner, NoOne}, guard' \in Guard, owner' # NoOne => ~guard'.locked,
           UNCHANGED <<conn, inbox, nRequests>>
    PROVE  LeaseInv'
<1>1. \A d \in Clients : NoHandler(d)' => NoHandler(d) /\ inbox'[d] = inbox[d]
    BY DEF NoHandler
<1> QED  BY <1>1, FreeingKeepsInvariant DEF LeaseInv, LeaseTypes

LEMMA TaskAndClockStep ==
    ASSUME IInv, TaskStep \/ Telemetry \/ WatchPoll \/ WatchAnnounce \/ Tick
    PROVE  LeaseInv'
<1>0. LeaseInv /\ owner \in {owner, NoOne} /\ guard \in Guard /\ (owner # NoOne => ~guard.locked)
    BY DEF IInv, LeaseInv, LeaseMatchesLock, LeaseTypes
<1>1. CASE \E t \in tasks : Discovered(t)
    BY <1>0, <1>1, QuietStep DEF Discovered, leaseVars
<1>2. CASE \E t \in tasks : DispatchEnds(t)
    <2>1. PICK t \in tasks : DispatchEnds(t)
        BY <1>2
    <2>2. t.client \in Clients /\ ~NoHandler(t.client)
        BY <2>1 DEF DispatchEnds, IInv, TasksAreLive, Task
    <2>3. /\ conn' \in [Clients -> {"absent", "opening", "open", "closed", "gone"}]
          /\ \A d \in Clients : NoHandler(d)' => NoHandler(d)
        BY <1>0, <2>1, <2>2, PutAckKeepsConnections DEF DispatchEnds
    <2>4. owner' = owner /\ guard' = guard /\ inbox' = inbox /\ nRequests' = nRequests
        BY <2>1 DEF DispatchEnds, leaseVars
    <2> QED  BY <1>0, <2>3, <2>4, FreeingKeepsInvariant DEF LeaseInv, LeaseTypes
<1>3. CASE \/ \E t \in tasks : Announce(t)
           \/ Telemetry \/ WatchPoll \/ WatchAnnounce
    BY <1>0, <1>3, LookKeepsLease, QuietStep DEF Announce, Telemetry, WatchPoll, WatchAnnounce
<1>4. CASE Tick
    <2>1. guard' = [guard EXCEPT !.age = @ + 1] /\ owner' = owner
          /\ UNCHANGED <<conn, inbox, nRequests>>
        BY <1>4 DEF Tick
    <2>2. guard.age + 1 \in -1 .. Timeout + 1
        BY <1>4, LeaseAssumption DEF Tick
    <2>3. guard' \in Guard /\ guard'.locked = guard.locked
        BY <1>0, <2>1, <2>2 DEF Guard
    <2> QED  BY <1>0, <2>1, <2>3, QuietStep
<1> QED  BY <1>1, <1>2, <1>3, <1>4 DEF TaskStep

-----------------------------------------------------------------------------
(* The suspended handlers.                                                 *)

LEMMA NewTaskIsLive ==
    ASSUME LeaseInv, NEW c \in Clients, inbox[c] # <<>>,
           NEW at \in {"discover", "service", "announce"}
    PROVE  /\ NewTask(c, Head(inbox[c]), at) \in Task
           /\ NewTask(c, Head(inbox[c]), at).at = at
           /\ NewTask(c, Head(inbox[c]), at).client = c
<1>1. Head(inbox[c]) \in Request
    BY DEF LeaseInv, LeaseTypes
<1> QED  BY <1>1 DEF NewTask, Task, Request

LEMMA TasksStep ==
    ASSUME IInv, Next
    PROVE  TasksAreLive' /\ NothingDiscovers'
<1>0. LeaseInv /\ TasksAreLive /\ NothingDiscovers
    BY DEF IInv
<1>1. ASSUME tasks' \subseteq tasks, \A c \in Clients : NoHandler(c)' => NoHandler(c)
      PROVE  TasksAreLive' /\ NothingDiscovers'
    BY <1>0, <1>1 DEF TasksAreLive, NothingDiscovers, Task
<1>2. ASSUME NEW u \in Task, tasks' \subseteq tasks \union {u},
             \A c \in Clients : NoHandler(c)' => NoHandler(c),
             u.at # "announce" => ~NoHandler(u.client),
             u.at = "discover" => Undiscovered
      PROVE  TasksAreLive' /\ NothingDiscovers'
    BY <1>0, <1>2 DEF TasksAreLive, NothingDiscovers, Task
<1>3. ASSUME NEW c \in Clients, inbox[c] # <<>>, inbox' = [inbox EXCEPT ![c] = Tail(@)]
      PROVE  ~NoHandler(c) /\ (PutAck(c) => \A d \in Clients : NoHandler(d)' => NoHandler(d))
    BY <1>0, <1>3, TakingKeepsInbox, PutAckKeepsConnections
<1>4. CASE \/ \E c \in Clients : \/ Connect(c) \/ FirstState(c) \/ Close(c) \/ Deliver(c)
                               \/ \E op \in Ops : Receive(c, op)
           \/ Telemetry \/ WatchPoll \/ WatchAnnounce \/ Tick
    <2>1. tasks' = tasks
        BY <1>4 DEF Connect, FirstState, Close, Deliver, Receive, Telemetry, WatchPoll,
                    WatchAnnounce, Tick
    <2>2. \A d \in Clients : NoHandler(d)' => NoHandler(d)
        BY <1>0, <1>4 DEF Connect, FirstState, Close, Deliver, Receive, Telemetry, WatchPoll,
                    WatchAnnounce, Tick, NoHandler, LeaseInv, LeaseTypes
    <2> QED  BY <1>1, <2>1, <2>2
<1>5. ASSUME NEW c \in Clients, Handle(c)
      PROVE  TasksAreLive' /\ NothingDiscovers'
    <2>0. inbox[c] # <<>> /\ inbox' = [inbox EXCEPT ![c] = Tail(@)]
        BY <1>5 DEF Handle, HandleReadOnly, HandleLock, HandleHeartbeat, HandleDenied,
                    HandleDispatch, Taken
    <2>1. ~NoHandler(c) /\ (PutAck(c) => \A d \in Clients : NoHandler(d)' => NoHandler(d))
        BY <1>3, <2>0
    <2>2. CASE HandleReadOnly(c) \/ HandleHeartbeat(c)
               \/ \E op \in {"control", "stop"} : HandleDenied(c, op)
        BY <1>1, <2>1, <2>2 DEF HandleReadOnly, HandleHeartbeat, HandleDenied
    <2>3. CASE \E op \in {"lock", "unlock"} : HandleLock(c, op)
        <3> DEFINE u == NewTask(c, Head(inbox[c]), "announce")
        <3>1. u \in Task /\ u.at = "announce"
            BY <1>0, <2>0, NewTaskIsLive
        <3>2. tasks' \subseteq tasks \union {u}
            BY <2>3 DEF HandleLock
        <3> HIDE DEF u
        <3> QED  BY <1>2, <2>1, <2>3, <3>1, <3>2 DEF HandleLock
    <2>4. CASE \E op \in {"control", "stop"} : HandleDispatch(c, op)
        <3>1. PICK at \in {"discover", "service"} :
                  /\ tasks' = tasks \union {NewTask(c, Head(inbox[c]), at)}
                  /\ at = "discover" => Undiscovered
                  /\ conn' = conn
            BY <2>4 DEF HandleDispatch
        <3> DEFINE u == NewTask(c, Head(inbox[c]), at)
        <3>2. u \in Task /\ u.at = at /\ u.client = c
            BY <1>0, <2>0, NewTaskIsLive
        <3>3. \A d \in Clients : NoHandler(d)' => NoHandler(d)
            BY <3>1 DEF NoHandler
        <3>4. tasks' \subseteq tasks \union {u}
            BY <3>1
        <3> HIDE DEF u
        <3> QED  BY <1>2, <2>1, <3>1, <3>2, <3>3, <3>4
    <2> QED  BY <1>5, <2>2, <2>3, <2>4 DEF Handle
<1>6. ASSUME NEW c \in Clients, Disconnect(c)
      PROVE  TasksAreLive' /\ NothingDiscovers'
    <2>1. conn' = [conn EXCEPT ![c] = "gone"] /\ \A t \in tasks : t.client # c
        BY <1>6 DEF Disconnect
    <2>2. \A d \in Clients : d # c /\ NoHandler(d)' => NoHandler(d)
        BY <1>0, <2>1 DEF NoHandler, LeaseInv, LeaseTypes
    <2>3. ASSUME NEW t \in tasks'
          PROVE  /\ t \in Task
                 /\ t \in tasks \/ t.at = "announce"
        BY <1>0, <1>6, <2>3 DEF Disconnect, TasksAreLive, Task, AllOps
    <2>4. TasksAreLive'
        BY <1>0, <2>1, <2>2, <2>3 DEF TasksAreLive, Task
    <2>5. NothingDiscovers'
        BY <1>0, <2>3 DEF NothingDiscovers
    <2> QED  BY <2>4, <2>5
<1>7. ASSUME NEW t \in tasks, Discovered(t) \/ DispatchEnds(t) \/ Announce(t)
      PROVE  TasksAreLive' /\ NothingDiscovers'
    <2>0. t \in Task
        BY <1>0 DEF TasksAreLive
    <2>1. CASE Discovered(t)
        <3> DEFINE u == [t EXCEPT !.at = "service"]
        <3>1. u \in Task /\ u.at = "service" /\ u.client = t.client
            BY <2>0 DEF Task
        <3>2. tasks' \subseteq tasks \union {u} /\ conn' = conn /\ t.at = "discover"
            BY <2>1 DEF Discovered
        <3>3. ~NoHandler(t.client)
            BY <1>0, <3>2 DEF TasksAreLive
        <3>4. \A d \in Clients : NoHandler(d)' => NoHandler(d)
            BY <3>2 DEF NoHandler
        <3> HIDE DEF u
        <3> QED  BY <1>2, <3>1, <3>2, <3>3, <3>4
    <2>2. CASE DispatchEnds(t)
        <3>1. t.client \in Clients /\ ~NoHandler(t.client)
            BY <1>0, <2>0, <2>2 DEF DispatchEnds, TasksAreLive, Task
        <3>2. \A d \in Clients : NoHandler(d)' => NoHandler(d)
            BY <1>0, <2>2, <3>1, PutAckKeepsConnections DEF DispatchEnds
        <3> QED  BY <1>1, <2>2, <3>2 DEF DispatchEnds
    <2>3. CASE Announce(t)
        BY <1>1, <2>3 DEF Announce, NoHandler
    <2> QED  BY <1>7, <2>1, <2>2, <2>3
<1> QED  BY <1>4, <1>5, <1>6, <1>7 DEF Next, TaskStep

-----------------------------------------------------------------------------
LEMMA LeaseInvStep ==
    ASSUME IInv, Next
    PROVE  LeaseInv'
<1>0. LeaseInv
    BY DEF IInv
<1>1. ASSUME NEW c \in Clients, Handle(c)
      PROVE  LeaseInv'
    BY <1>0, <1>1, HandlerStep, LockStep DEF Handle
<1> QED  BY <1>0, <1>1, ConnectionStep, ReceiveStep, DisconnectStep, TaskAndClockStep DEF Next

LEMMA InitIInv == Init => IInv
<1> SUFFICES ASSUME Init PROVE IInv
    OBVIOUS
<1>1. guard \in Guard
    BY Guards DEF Init, Reasons
<1>2. LeaseTypes
    BY <1>1 DEF Init, LeaseTypes
<1>3. LeaseMatchesLock /\ GhostsAreQuiet
    BY LeaseAssumption DEF Init, LeaseMatchesLock, GhostsAreQuiet
<1> QED  BY <1>2, <1>3 DEF IInv, LeaseInv, TasksAreLive, NothingDiscovers, Init

LEMMA StutterIInv ==
    ASSUME IInv, UNCHANGED vars
    PROVE  IInv'
BY DEF IInv, LeaseInv, LeaseTypes, LeaseMatchesLock, GhostsAreQuiet, TasksAreLive,
       NothingDiscovers, NoHandler, vars

THEOREM IInvHolds == Spec => []IInv
<1>1. IInv /\ [Next]_vars => IInv'
    BY LeaseInvStep, TasksStep, StutterIInv DEF IInv
<1> QED  BY <1>1, InitIInv, PTL DEF Spec

(* A locked guard never has an owner and an owner's guard is never locked, *)
(* in every interleaving of set_control_lock, heartbeats, expiry and       *)
(* disconnection, for any number of connections.                           *)
THEOREM LockAndLeaseAgree == Spec => []LeaseMatchesLock
<1>1. IInv => LeaseMatchesLock
    BY DEF IInv, LeaseInv
<1> QED  BY <1>1, IInvHolds, PTL

(* A connection that has ended, or has not begun, never holds the lease,   *)
(* although requests it left behind run after its socket is gone.          *)
THEOREM GhostsNeverOwn == Spec => []GoneOwnsNothing
<1>1. IInv => GoneOwnsNothing
    BY LeaseAssumption, SyncedOwner
       DEF IInv, LeaseInv, GhostsAreQuiet, GoneOwnsNothing, NoHandler, Owns
<1> QED  BY <1>1, IInvHolds, PTL

-----------------------------------------------------------------------------
(* Whoever owns the lease after a step had it or found it free.            *)
LEMMA OwnerChanges ==
    ASSUME IInv, Next
    PROVE  \/ owner' \in {owner, NoOne}
           \/ Synced(guard, owner) \in {NoOne, owner'}
<1>0. LeaseInv
    BY DEF IInv
<1>1. ASSUME NEW c \in Clients, NEW op \in {"lock", "unlock"}, HandleLock(c, op)
      PROVE  \/ owner' \in {owner, NoOne}
             \/ Synced(guard, owner) \in {NoOne, owner'}
    BY <1>0, <1>1, SetLockedTakesFreeLease DEF HandleLock
<1>2. ASSUME NEW c \in Clients, HandleHeartbeat(c)
      PROVE  owner' \in {owner, NoOne}
    BY <1>0, <1>2, HeartbeatKeepsLease DEF HandleHeartbeat
<1>3. ASSUME LookOnly \/ owner' = owner
      PROVE  owner' \in {owner, NoOne}
    BY <1>0, <1>3, LookKeepsLease
<1>4. ASSUME NEW c \in Clients,
             \/ Connect(c) \/ FirstState(c) \/ Close(c) \/ Deliver(c)
             \/ \E op \in Ops : Receive(c, op)
             \/ HandleReadOnly(c)
             \/ \E op \in {"control", "stop"} : HandleDenied(c, op) \/ HandleDispatch(c, op)
      PROVE  owner' \in {owner, NoOne}
    BY <1>3, <1>4 DEF Connect, FirstState, Close, Deliver, Receive, HandleReadOnly,
                      HandleDenied, HandleDispatch, leaseVars
<1>5. ASSUME NEW c \in Clients, Disconnect(c)
      PROVE  owner' \in {owner, NoOne}
    BY <1>0, <1>5, SyncedOwner DEF Disconnect
<1>6. ASSUME TaskStep \/ Telemetry \/ WatchPoll \/ WatchAnnounce \/ Tick
      PROVE  owner' \in {owner, NoOne}
    BY <1>3, <1>6 DEF TaskStep, Discovered, DispatchEnds, Announce, Telemetry, WatchPoll,
                      WatchAnnounce, Tick, leaseVars
<1> QED  BY <1>1, <1>2, <1>4, <1>5, <1>6 DEF Next, Handle

(* Exclusivity of the lease: no request of one connection moves a lease    *)
(* that another connection still holds to itself.                          *)
THEOREM LeaseNeverStolen == Spec => NeverStolen
<1>1. ASSUME IInv, [Next]_vars, NEW c \in Clients, NEW d \in Clients, c # d, Owns(c)
      PROVE  Synced(guard', owner') # d
    <2>1. Synced(guard, owner) = c /\ owner = c
        BY <1>1, SyncedOwner, LeaseAssumption DEF Owns, IInv
    <2>2. Synced(guard', owner') \in {owner', NoOne}
        BY DEF Synced
    <2>3. CASE Next
        BY <1>1, <2>1, <2>2, <2>3, OwnerChanges, LeaseAssumption
    <2>4. CASE UNCHANGED vars
        BY <1>1, <2>1, <2>2, <2>4, LeaseAssumption DEF vars
    <2> QED  BY <1>1, <2>3, <2>4
<1>2. IInv /\ [Next]_vars
          => [\A c, d \in Clients : c # d /\ Owns(c) => Synced(guard', owner') # d]_vars
    BY <1>1
<1> QED  BY <1>2, IInvHolds, PTL DEF Spec, NeverStolen

(* With every service known, a controlled operation reaches the robot only *)
(* while its connection holds the unexpired lease.                         *)
THEOREM HolderDrives == ASSUME ~Undiscovered PROVE Spec => OnlyOwnerDrives
<1>1. ASSUME IInv, Next, nEffects' # nEffects
      PROVE  Synced(guard', owner') = driver'
    <2>1. ASSUME NEW t \in tasks, Discovered(t)
          PROVE  FALSE
        BY <1>1, <2>1 DEF Discovered, IInv, NothingDiscovers
    <2>2. PICK c \in Clients, op \in {"control", "stop"} : HandleDispatch(c, op)
        BY <1>1, <2>1 DEF Next, Connect, FirstState, Close, Disconnect, Deliver, Receive,
           Handle, HandleReadOnly, HandleLock, HandleHeartbeat, HandleDenied, TaskStep,
           DispatchEnds, Announce, Telemetry, WatchPoll, WatchAnnounce, Tick
    <2>3. driver' = c /\ Owns(c) /\ LookOnly
        BY <1>1, <2>2 DEF HandleDispatch, TakesEffect, Authorize
    <2>4. Synced(guard, owner) = c /\ owner' = c /\ owner = c /\ guard' = guard
        BY <1>1, <2>3, SyncedOwner, LeaseAssumption DEF Owns, LookOnly, IInv
    <2> QED  BY <2>3, <2>4
<1>2. IInv /\ [Next]_vars => [nEffects' # nEffects => Synced(guard', owner') = driver']_vars
    BY <1>1 DEF vars
<1> QED  BY <1>2, IInvHolds, PTL DEF Spec, OnlyOwnerDrives
-----------------------------------------------------------------------------
(* The queues.                                                             *)

(* The queue of a connection holds at most one message of each kind that   *)
(* may be replaced, and no more than its capacity.                         *)
OneOfEach(q) ==
    \A i, j \in 1 .. Len(q) : Replaceable(q[i]) /\ q[i].op = q[j].op => i = j

Queues == {q \in Seq(Message) : Len(q) <= Capacity /\ OneOfEach(q)}

(* Nothing in the queue says who is in control.                            *)
Silent(q) == \A i \in 1 .. Len(q) : ~Replaceable(q[i])

LEMMA LeastIndex ==
    ASSUME NEW I \in SUBSET Nat, I # {}
    PROVE  Min(I) \in I
<1>1. IsWellFoundedOn({ss \in Nat \X Nat : ss[1] < ss[2]}, Nat)
    BY NatLessThanWellFounded DEF OpToRel
<1>2. PICK x \in I : \A y \in I : <<y, x>> \notin {ss \in Nat \X Nat : ss[1] < ss[2]}
    BY <1>1, WFMin
<1>3. ASSUME NEW y \in I  PROVE x <= y
    <2>1. x \in Nat /\ y \in Nat /\ ~(y < x)
        BY <1>2
    <2> QED  BY <2>1
<1> QED  BY <1>3 DEF Min

LEMMA Removed ==
    ASSUME NEW q \in Seq(Message), NEW k \in 1 .. Len(q)
    PROVE  /\ RemoveAt(q, k) \in Seq(Message)
           /\ Len(RemoveAt(q, k)) = Len(q) - 1
           /\ \A i \in 1 .. Len(q) - 1 :
                 RemoveAt(q, k)[i] = IF i < k THEN q[i] ELSE q[i + 1]
<1> DEFINE a == SubSeq(q, 1, k - 1)
           b == SubSeq(q, k + 1, Len(q))
<1>0. Len(q) \in Nat /\ k \in Nat
    BY LenProperties
<1>1. a \in Seq(Message) /\ Len(a) = k - 1 /\ \A i \in 1 .. k - 1 : a[i] = q[i]
    BY <1>0, SubSeqProperties
<1>2. b \in Seq(Message) /\ Len(b) = Len(q) - k /\ \A i \in 1 .. Len(q) - k : b[i] = q[k + i]
    BY <1>0, SubSeqProperties
<1>3. RemoveAt(q, k) = a \o b
    BY DEF RemoveAt
<1> HIDE DEF a, b
<1>4. /\ a \o b \in Seq(Message) /\ Len(a \o b) = Len(a) + Len(b)
      /\ \A i \in 1 .. Len(a) + Len(b) :
            (a \o b)[i] = IF i <= Len(a) THEN a[i] ELSE b[i - Len(a)]
    BY <1>1, <1>2, ConcatProperties
<1>5. ASSUME NEW i \in 1 .. Len(q) - 1
      PROVE  (a \o b)[i] = IF i < k THEN q[i] ELSE q[i + 1]
    <2>1. CASE i < k
        BY <1>0, <1>1, <1>2, <1>4, <2>1
    <2>2. CASE i >= k
        <3> DEFINE j == i - (k - 1)
        <3>1. (a \o b)[i] = b[j]
            BY <1>0, <1>1, <1>2, <1>4, <2>2
        <3>2. j \in 1 .. Len(q) - k /\ k + j = i + 1
            BY <1>0, <2>2
        <3> HIDE DEF j
        <3>3. b[j] = q[k + j]
            BY <1>2, <3>2
        <3>4. ~(i < k)
            BY <1>0, <2>2
        <3> QED  BY <3>1, <3>2, <3>3, <3>4
    <2>3. i < k \/ i >= k
        BY <1>0
    <2> QED  BY <2>1, <2>2, <2>3
<1> QED  BY <1>0, <1>1, <1>2, <1>3, <1>4, <1>5

(* The ways of a put: dropped, in place of the last message of its kind,   *)
(* at the end, or at the end after another has made room.                  *)
LEMMA WaysToPut ==
    ASSUME NEW q \in Seq(Message), NEW m \in Message
    PROVE  \/ Put(q, m) = q /\ (Replaceable(m) => Silent(q))
           \/ \E k \in 1 .. Len(q) :
                 Replaceable(m) /\ q[k].op = m.op /\ Put(q, m) = [q EXCEPT ![k] = m]
           \/ /\ Replaceable(m) => \A j \in 1 .. Len(q) : q[j].op # m.op
              /\ \/ Len(q) < Capacity /\ Put(q, m) = Append(q, m)
                 \/ \E k \in 1 .. Len(q) :
                       Replaceable(m) /\ Put(q, m) = Append(RemoveAt(q, k), m)
<1> DEFINE I == {i \in 1 .. Len(q) : Replaceable(m) /\ q[i].op = m.op}
           J == {i \in 1 .. Len(q) : Replaceable(q[i])}
           same == IF I # {} THEN Min(I) ELSE 0
           removable == IF J # {} THEN Min(J) ELSE 0
<1>0. Len(q) \in Nat
    BY LenProperties
<1>1. Put(q, m) = IF same # 0 THEN [q EXCEPT ![same] = m]
                  ELSE IF Len(q) < Capacity THEN Append(q, m)
                  ELSE IF removable = 0 \/ ~Replaceable(m) THEN q
                  ELSE Append(RemoveAt(q, removable), m)
    BY DEF Put, SelectInSeq
<1>2. IF I # {} THEN same \in I ELSE same = 0
    <2>1. I \in SUBSET Nat
        BY <1>0
    <2> HIDE DEF I
    <2> QED  BY <2>1, LeastIndex
<1>3. IF J # {} THEN removable \in J ELSE removable = 0
    <2>1. J \in SUBSET Nat
        BY <1>0
    <2> HIDE DEF J
    <2> QED  BY <2>1, LeastIndex
<1> HIDE DEF same, removable
<1>4. CASE same # 0
    BY <1>0, <1>1, <1>2, <1>4
<1>5. CASE same = 0
    <2>1. Replaceable(m) => \A j \in 1 .. Len(q) : q[j].op # m.op
        BY <1>0, <1>2, <1>5
    <2>2. CASE Len(q) < Capacity
        BY <1>1, <1>5, <2>1, <2>2
    <2>3. CASE ~(Len(q) < Capacity) /\ (removable = 0 \/ ~Replaceable(m))
        <3>1. Put(q, m) = q
            BY <1>1, <1>5, <2>3
        <3>2. Replaceable(m) => Silent(q)
            BY <1>0, <1>3, <2>3 DEF Silent
        <3> QED  BY <3>1, <3>2
    <2>4. CASE ~(Len(q) < Capacity) /\ removable # 0 /\ Replaceable(m)
        <3>1. Put(q, m) = Append(RemoveAt(q, removable), m)
            BY <1>1, <1>5, <2>4
        <3>2. removable \in 1 .. Len(q)
            BY <1>3, <2>4
        <3> QED  BY <2>1, <2>4, <3>1, <3>2
    <2> QED  BY <2>2, <2>3, <2>4
<1> QED  BY <1>4, <1>5

(* What a queue holds after a put: its messages or the new one; it stays a *)
(* queue; a message that may be replaced is dropped only by a queue of     *)
(* answers, and is otherwise the only one of its kind.                     *)
Placed(q, m, r) ==
    /\ r \in Queues
    /\ \A i \in 1 .. Len(r) : r[i] = m \/ \E j \in 1 .. Len(q) : r[i] = q[j]
    /\ Silent(r) => Silent(q)
    /\ Replaceable(m) =>
          \/ r = q /\ Silent(q)
          \/ /\ \E i \in 1 .. Len(r) : r[i] = m
             /\ \A i \in 1 .. Len(r) : r[i].op = m.op => r[i] = m

LEMMA AppendPlaces ==
    ASSUME NEW q \in Queues, NEW m \in Message, NEW p \in Queues,
           Len(p) < Capacity, p = q \/ Replaceable(m),
           \A i \in 1 .. Len(p) : \E j \in 1 .. Len(q) : p[i] = q[j],
           Replaceable(m) => \A j \in 1 .. Len(p) : p[j].op # m.op
    PROVE  Placed(q, m, Append(p, m))
<1> DEFINE r == Append(p, m)
<1>2. Capacity \in Nat
    BY LeaseAssumption
<1>0. p \in Seq(Message) /\ Len(p) \in Nat /\ OneOfEach(p)
    BY LenProperties DEF Queues
<1>1. /\ r \in Seq(Message) /\ Len(r) = Len(p) + 1 /\ r[Len(p) + 1] = m
      /\ \A i \in 1 .. Len(p) : r[i] = p[i]
    BY <1>0, AppendProperties
<1> HIDE DEF r
<1>3. OneOfEach(r)
    <2> SUFFICES ASSUME NEW i \in 1 .. Len(p) + 1, NEW j \in 1 .. Len(p) + 1,
                        Replaceable(r[i]), r[i].op = r[j].op
                 PROVE  i = j
        BY <1>0, <1>1 DEF OneOfEach
    <2>1. CASE i \in 1 .. Len(p) /\ j \in 1 .. Len(p)
        BY <1>0, <1>1, <2>1 DEF OneOfEach
    <2>2. CASE i = Len(p) + 1 /\ j \in 1 .. Len(p)
        BY <1>0, <1>1, <2>2
    <2>3. CASE j = Len(p) + 1 /\ i \in 1 .. Len(p)
        BY <1>0, <1>1, <2>3 DEF Replaceable
    <2> QED  BY <1>0, <2>1, <2>2, <2>3
<1>4. Replaceable(m) => \A i \in 1 .. Len(r) : r[i].op = m.op => r[i] = m
    BY <1>0, <1>1
<1>5. Silent(r) => ~Replaceable(m) /\ Silent(p)
    BY <1>0, <1>1 DEF Silent
<1>6. ASSUME NEW i \in 1 .. Len(r)  PROVE r[i] = m \/ \E j \in 1 .. Len(q) : r[i] = q[j]
    <2>1. CASE i = Len(p) + 1
        BY <1>1, <2>1
    <2>2. CASE i \in 1 .. Len(p)
        <3>1. r[i] = p[i]
            BY <1>1, <2>2
        <3> QED  BY <2>2, <3>1
    <2> QED  BY <1>0, <1>1, <2>1, <2>2
<1>7. r \in Queues
    BY <1>2, <1>0, <1>1, <1>3 DEF Queues
<1>8. Silent(r) => Silent(q)
    BY <1>5
<1>9. \E i \in 1 .. Len(r) : r[i] = m
    BY <1>0, <1>1
<1> QED  BY <1>4, <1>6, <1>7, <1>8, <1>9 DEF Placed, r

LEMMA PutPlaces ==
    ASSUME NEW q \in Queues, NEW m \in Message
    PROVE  Placed(q, m, Put(q, m))
<1> DEFINE r == Put(q, m)
<1>0. /\ q \in Seq(Message) /\ Len(q) \in Nat /\ Len(q) <= Capacity /\ OneOfEach(q)
      /\ Capacity \in Nat
    BY LenProperties, LeaseAssumption DEF Queues
<1>1. CASE r = q /\ (Replaceable(m) => Silent(q))
    BY <1>0, <1>1 DEF Placed
<1>2. ASSUME NEW k \in 1 .. Len(q), Replaceable(m), q[k].op = m.op, r = [q EXCEPT ![k] = m]
      PROVE  Placed(q, m, r)
    <2>1. /\ r \in Seq(Message) /\ Len(r) = Len(q)
          /\ \A i \in 1 .. Len(q) : r[i] = IF i = k THEN m ELSE q[i]
        BY <1>0, <1>2, ExceptSeq
    <2> HIDE DEF r
    <2>2. \A j \in 1 .. Len(q) : q[j].op = m.op => j = k
        BY <1>0, <1>2 DEF OneOfEach, Replaceable
    <2>3. OneOfEach(r)
        BY <1>0, <2>1, <2>2, <1>2 DEF OneOfEach, Replaceable
    <2>4. \A i \in 1 .. Len(r) : r[i].op = m.op => r[i] = m
        BY <1>0, <2>1, <2>2
    <2>5. r[k] = m /\ ~Silent(r)
        BY <1>0, <1>2, <2>1 DEF Silent
    <2> QED  BY <1>0, <1>2, <2>1, <2>3, <2>4, <2>5 DEF Placed, Queues
<1>4. CASE /\ Replaceable(m) => \A j \in 1 .. Len(q) : q[j].op # m.op
           /\ Len(q) < Capacity /\ r = Append(q, m)
    <2> QED  BY <1>4, AppendPlaces
<1>5. ASSUME \A j \in 1 .. Len(q) : q[j].op # m.op, Replaceable(m),
             NEW k \in 1 .. Len(q), r = Append(RemoveAt(q, k), m)
      PROVE  Placed(q, m, r)
    <2> DEFINE p == RemoveAt(q, k)
    <2>1. /\ p \in Seq(Message) /\ Len(p) = Len(q) - 1
          /\ \A i \in 1 .. Len(q) - 1 : p[i] = IF i < k THEN q[i] ELSE q[i + 1]
        BY <1>0, Removed
    <2> HIDE DEF p, r
    <2>2. \A i \in 1 .. Len(p) : \E j \in 1 .. Len(q) : p[i] = q[j]
        BY <1>0, <2>1
    <2>3. OneOfEach(p)
        <3> SUFFICES ASSUME NEW i \in 1 .. Len(q) - 1, NEW j \in 1 .. Len(q) - 1,
                            Replaceable(p[i]), p[i].op = p[j].op
                     PROVE  i = j
            BY <1>0, <2>1 DEF OneOfEach
        <3> DEFINE at(n) == IF n < k THEN n ELSE n + 1
        <3>1. at(i) \in 1 .. Len(q) /\ at(j) \in 1 .. Len(q) /\ (at(i) = at(j) => i = j)
            BY <1>0
        <3>2. p[i] = q[at(i)] /\ p[j] = q[at(j)]
            BY <1>0, <2>1
        <3> HIDE DEF at
        <3> QED  BY <1>0, <3>1, <3>2 DEF OneOfEach
    <2>4. p \in Queues /\ Len(p) < Capacity
        BY <1>0, <2>1, <2>3 DEF Queues
    <2>5. \A i \in 1 .. Len(p) : p[i].op # m.op
        BY <1>5, <2>2
    <2> QED  BY <1>5, <2>2, <2>4, <2>5, AppendPlaces DEF p
<1> HIDE DEF r
<1> QED  BY <1>0, <1>1, <1>2, <1>4, <1>5, WaysToPut DEF r

-----------------------------------------------------------------------------
(* What the cockpits are told.                                             *)

(* The signature of an expired lease.                                      *)
Lapsed == [locked |-> TRUE, reason |-> "UI_HEARTBEAT_TIMEOUT", owned |-> FALSE]

(* What the queue will make its cockpit believe once it is delivered.      *)
Claims(q) == \E i \in 1 .. Len(q) : Replaceable(q[i]) /\ q[i].mine
WillBelieve(c) == Claims(outbox[c]) \/ (view[c] /\ Silent(outbox[c]))

(* A transition is on its way, or the next poll of the watchdog sends one. *)
Announced ==
    \/ \E t \in tasks : t.at = "announce"
    \/ watch.at = "announce"
    \/ SignatureNow = Lapsed /\ watch.prev # Lapsed

GuardOK == guard.locked <=> guard.age = -1

TellTypes ==
    /\ outbox \in [Clients -> Queues]
    /\ watch \in [prev : Signature, at : {"sleep", "announce"}, fresh : BOOLEAN]
    /\ view \in [Clients -> BOOLEAN]
    /\ missed \subseteq Clients

HistoryTypes ==
    /\ nEffects \in Nat
    /\ driver \in Clients \union {NoOne}
    /\ acks \in [Clients -> [put : Nat, sent : Nat]]

(* Nobody tells a read-only connection, or one that has not begun, that it *)
(* is in control.                                                          *)
NavLiveNeverOwns == owner \notin NavLive
UnlistedOK ==
    \A c \in Clients : c \in NavLive \/ conn[c] = "absent"
        => ~view[c] /\ ~Claims(outbox[c])

(* The watchdog has seen the lease open since it last saw it lapsed,       *)
(* unless the lease was opened within this sleep of its.                   *)
WatchOK ==
    /\ watch.at = "announce" => guard.age <= 0
    /\ watch.prev = Lapsed /\ watch.fresh => guard.age <= 0

Listening(c) == conn[c] \in {"opening", "open"}

ToldOK ==
    \A c \in Clients \ missed :
        Listening(c) /\ WillBelieve(c) => Owns(c) \/ Announced

(* A step after which the lease looks as before.                           *)
Calm ==
    /\ \A c \in Clients : Owns(c)' <=> Owns(c)
    /\ SignatureNow' = SignatureNow
    /\ guard'.age <= 0 \/ guard'.age = guard.age
    /\ GuardOK'

LEMMA SameLookIsCalm ==
    ASSUME Synced(guard', owner') = Synced(guard, owner),
           Expire(guard').locked = Expire(guard).locked,
           Expire(guard').reason = Expire(guard).reason,
           guard'.age <= 0 \/ guard'.age = guard.age, guard'.locked <=> guard'.age = -1
    PROVE  Calm
<1>1. SignatureNow' = SignatureNow
    BY DEF SignatureNow
<1>2. \A c \in Clients : Owns(c)' <=> Owns(c)
    BY DEF Owns
<1> QED  BY <1>1, <1>2 DEF Calm, GuardOK

LEMMA LookIsCalm ==
    ASSUME LeaseInv, GuardOK, LookOnly \/ UNCHANGED leaseVars
    PROVE  Calm
<1>0. guard \in Guard /\ guard.age \in -1 .. Timeout + 1 /\ Timeout \in Nat
    BY LeaseAssumption DEF LeaseInv, LeaseTypes, Guard
<1>1. CASE UNCHANGED leaseVars
    BY <1>1 DEF leaseVars, Calm, Owns, SignatureNow, GuardOK
<1>2. CASE LookOnly /\ Expire(guard) = guard
    <2>1. guard' = guard /\ owner' = Synced(guard, owner)
        BY <1>2 DEF LookOnly
    <2>2. Synced(guard', owner') = Synced(guard, owner)
        BY <2>1 DEF Synced
    <2> QED  BY <2>1, <2>2 DEF Calm, Owns, SignatureNow, GuardOK
<1>3. CASE LookOnly /\ Expire(guard) # guard
    <2>1. /\ guard' = Expire(guard)
          /\ Expire(guard) = [locked |-> TRUE, reason |-> "UI_HEARTBEAT_TIMEOUT", age |-> -1]
        BY <1>3 DEF LookOnly, Expire
    <2>2. Expire(guard') = guard' /\ owner' = NoOne /\ Synced(guard, owner) = NoOne
        BY <1>3, <2>1 DEF LookOnly, Expire, Synced
    <2>3. Synced(guard', owner') = NoOne
        BY <2>2 DEF Synced
    <2>4. guard'.age = -1 /\ guard'.locked
        BY <2>1
    <2>5. Expire(guard') = Expire(guard) /\ Synced(guard', owner') = Synced(guard, owner)
        BY <2>1, <2>2, <2>3
    <2> QED  BY <2>4, <2>5, SameLookIsCalm
<1> QED  BY <1>1, <1>2, <1>3

LEMMA HeartbeatIsCalm ==
    ASSUME LeaseInv, GuardOK, NEW c \in Clients, Heartbeat(c)
    PROVE  Calm
<1>1. CASE Owns(c)
    <2>1. Synced(guard, owner) = c /\ c # NoOne
        BY <1>1, LeaseAssumption DEF Owns
    <2>2. owner = c /\ Expire(guard) = guard /\ ~guard.locked
        BY <2>1, SyncedOwner
    <2>3. guard \in Guard /\ Timeout \in Nat
        BY LeaseAssumption DEF LeaseInv, LeaseTypes
    <2>4. /\ guard'.locked = FALSE /\ guard'.reason = guard.reason /\ guard'.age = 0
          /\ owner' = c
        BY <1>1, <2>2, <2>3 DEF Heartbeat, Guard
    <2>5. Expire(guard') = guard'
        BY <2>3, <2>4 DEF Expire
    <2>6. Synced(guard', owner') = c
        BY <2>4, <2>5 DEF Synced
    <2>7. guard.locked = FALSE
        BY <2>2, <2>3 DEF Guard
    <2>8. /\ Synced(guard', owner') = Synced(guard, owner)
          /\ Expire(guard').locked = Expire(guard).locked
          /\ Expire(guard').reason = Expire(guard).reason
        BY <2>1, <2>2, <2>4, <2>5, <2>6, <2>7
    <2>9. ~guard'.locked /\ guard'.age # -1 /\ guard'.age <= 0
        BY <2>4
    <2> QED  BY <2>8, <2>9, SameLookIsCalm
<1>2. CASE ~Owns(c)
    BY <1>2, LookIsCalm DEF Heartbeat
<1> QED  BY <1>1, <1>2

(* What a put of a queue's owner makes of its beliefs.                     *)
LEMMA AckBelief ==
    ASSUME NEW q \in Queues
    PROVE  /\ Put(q, Ack) \in Queues
           /\ Claims(Put(q, Ack)) => Claims(q)
           /\ Silent(Put(q, Ack)) => Silent(q)
<1> DEFINE r == Put(q, Ack)
<1>1. Ack \in Message /\ ~Replaceable(Ack)
    BY DEF Ack, Message, Replaceable
<1>2. Placed(q, Ack, r)
    BY <1>1, PutPlaces
<1> HIDE DEF r
<1>3. Claims(r) => Claims(q)
    BY <1>1, <1>2 DEF Claims, Placed
<1> QED  BY <1>2, <1>3 DEF Placed, r

LEMMA StateBelief ==
    ASSUME NEW q \in Queues, NEW op \in {"state", "nav_telemetry"}, NEW b \in BOOLEAN
    PROVE  /\ Put(q, [op |-> op, mine |-> b]) \in Queues
           /\ Claims(Put(q, [op |-> op, mine |-> b])) => Claims(q) \/ b
           /\ Silent(Put(q, [op |-> op, mine |-> b])) => Silent(q)
<1> DEFINE m == [op |-> op, mine |-> b]
           r == Put(q, m)
<1>1. m \in Message /\ Replaceable(m) /\ m.mine = b
    BY DEF Message, Replaceable
<1> HIDE DEF m
<1>2. Placed(q, m, r)
    BY <1>1, PutPlaces
<1> HIDE DEF r
<1>3. Claims(r) => Claims(q) \/ b
    BY <1>1, <1>2 DEF Claims, Placed
<1> QED  BY <1>2, <1>3 DEF Placed, r, m

LEMMA TransitionBelief ==
    ASSUME NEW q \in Queues, NEW b \in BOOLEAN,
           NEW r, r = Put(Put(q, [op |-> "state", mine |-> b]),
                          [op |-> "nav_telemetry", mine |-> b])
    PROVE  r \in Queues /\ (Silent(r) => Silent(q)) /\ (Claims(r) => b)
<1> DEFINE s == [op |-> "state", mine |-> b]
           n == [op |-> "nav_telemetry", mine |-> b]
           p == Put(q, s)
<1>1. /\ s \in Message /\ Replaceable(s) /\ s.mine = b /\ s.op = "state"
      /\ n \in Message /\ Replaceable(n) /\ n.mine = b /\ n.op = "nav_telemetry"
    BY DEF Message, Replaceable
<1>2. r = Put(p, n)
    OBVIOUS
<1> HIDE DEF s, n
<1>3. Placed(q, s, p)
    BY <1>1, PutPlaces
<1> HIDE DEF p
<1>4. p \in Queues
    BY <1>3 DEF Placed
<1>5. Placed(p, n, r)
    BY <1>1, <1>2, <1>4, PutPlaces
<1>6. \A i \in 1 .. Len(p) : Replaceable(p[i]) /\ p[i].op = "state" => p[i].mine = b
    BY <1>1, <1>3 DEF Placed, Silent
<1>7. ASSUME NEW i \in 1 .. Len(r), Replaceable(r[i])
      PROVE  r[i].mine = b
    <2>0. r[i].op \in {"state", "nav_telemetry"}
        <3>1. r \in Seq(Message)
            BY <1>5 DEF Placed, Queues
        <3>2. r[i] \in Message
            BY <3>1, ElementOfSeq
        <3> QED  BY <1>7, <3>2 DEF Message, Replaceable
    <2>1. CASE r[i].op = "nav_telemetry"
        BY <1>1, <1>5, <1>7, <2>1 DEF Placed, Silent
    <2>2. CASE r[i].op = "state"
        BY <1>1, <1>5, <1>6, <1>7, <2>2 DEF Placed
    <2> QED  BY <2>0, <2>1, <2>2
<1>8. Claims(r) => b
    BY <1>7 DEF Claims
<1> QED  BY <1>3, <1>5, <1>8 DEF Placed

LEMMA SilenceIsFound ==
    ASSUME NEW q \in Queues
    PROVE  SelectInSeq(q, Replaceable) = 0 <=> Silent(q)
<1> DEFINE J == {i \in 1 .. Len(q) : Replaceable(q[i])}
<1>1. SelectInSeq(q, Replaceable) = IF J # {} THEN Min(J) ELSE 0
    BY DEF SelectInSeq
<1>2. q \in Seq(Message) /\ Len(q) \in Nat
    BY LenProperties DEF Queues
<1>3. J # {} => Min(J) \in J
    <2>1. J \in SUBSET Nat
        BY <1>2
    <2> HIDE DEF J
    <2> QED  BY <2>1, LeastIndex
<1> HIDE DEF J
<1> QED  BY <1>1, <1>2, <1>3 DEF Silent, J

-----------------------------------------------------------------------------
(* What a step makes the cockpits believe: nobody comes to believe in a    *)
(* control that it did not hold when the step looked.                      *)
Beliefs ==
    \A c \in Clients :
        /\ Claims(outbox'[c]) => Claims(outbox[c]) \/ Owns(c)
        /\ view'[c] => view[c] \/ Claims(outbox[c])
        /\ conn'[c] # "gone" => (WillBelieve(c)' => WillBelieve(c) \/ Owns(c))

QueuesTyped == outbox' \in [Clients -> Queues] /\ view' \in [Clients -> BOOLEAN]

LEMMA QuietBeliefs ==
    ASSUME TellTypes, UNCHANGED <<outbox, view>>
    PROVE  Beliefs /\ QueuesTyped
BY DEF TellTypes, Beliefs, QueuesTyped, WillBelieve

LEMMA AckBeliefs ==
    ASSUME TellTypes, NEW d \in Clients, PutAck(d), view' = view
    PROVE  Beliefs /\ QueuesTyped
<1>1. CASE outbox' = outbox
    BY <1>1, QuietBeliefs
<1>2. CASE outbox' = [outbox EXCEPT ![d] = Put(outbox[d], Ack)]
    <2>1. outbox[d] \in Queues
        BY DEF TellTypes
    <2> DEFINE r == Put(outbox[d], Ack)
    <2>2. r \in Queues /\ (Claims(r) => Claims(outbox[d])) /\ (Silent(r) => Silent(outbox[d]))
        BY <2>1, AckBelief
    <2>3. outbox' = [outbox EXCEPT ![d] = r]
        BY <1>2
    <2> HIDE DEF r
    <2>4. outbox' \in [Clients -> Queues]
        BY <2>2, <2>3 DEF TellTypes
    <2>5. \A c \in Clients : outbox'[c] = IF c = d THEN r ELSE outbox[c]
        BY <2>3 DEF TellTypes
    <2> QED  BY <2>2, <2>4, <2>5 DEF Beliefs, QueuesTyped, WillBelieve, TellTypes
<1> QED  BY <1>1, <1>2 DEF PutAck

LEMMA OwnsIsBoolean == \A c \in Clients : Owns(c) \in BOOLEAN
BY DEF Owns

LEMMA FirstStateBeliefs ==
    ASSUME TellTypes, NEW d \in Clients, FirstState(d)
    PROVE  Beliefs /\ QueuesTyped
<1> DEFINE r == Put(outbox[d], [op |-> "state", mine |-> Owns(d)])
<1>1. outbox[d] \in Queues /\ Owns(d) \in BOOLEAN
    BY OwnsIsBoolean DEF TellTypes
<1>2. /\ r \in Queues /\ (Claims(r) => Claims(outbox[d]) \/ Owns(d))
      /\ Silent(r) => Silent(outbox[d])
    BY <1>1, StateBelief
<1>3. outbox' = [outbox EXCEPT ![d] = r] /\ view' = view
    BY DEF FirstState, StateFor
<1> HIDE DEF r
<1>4. outbox' \in [Clients -> Queues]
    BY <1>2, <1>3 DEF TellTypes
<1>5. \A c \in Clients : outbox'[c] = IF c = d THEN r ELSE outbox[c]
    BY <1>3 DEF TellTypes
<1> QED  BY <1>2, <1>3, <1>4, <1>5 DEF Beliefs, QueuesTyped, WillBelieve, TellTypes

LEMMA BroadcastBeliefs ==
    ASSUME TellTypes, Broadcast("nav_telemetry"), view' = view
    PROVE  Beliefs /\ QueuesTyped
<1>1. ASSUME NEW c \in Clients
      PROVE  /\ outbox'[c] \in Queues
             /\ Claims(outbox'[c]) => Claims(outbox[c]) \/ Owns(c)
             /\ Silent(outbox'[c]) => Silent(outbox[c])
    <2>1. outbox[c] \in Queues /\ Owns(c) \in BOOLEAN
        BY OwnsIsBoolean DEF TellTypes
    <2>2. CASE outbox'[c] = outbox[c]
        BY <2>1, <2>2
    <2>3. CASE outbox'[c] = Put(outbox[c], [op |-> "nav_telemetry", mine |-> Owns(c)])
        BY <2>1, <2>3, StateBelief
    <2> QED  BY <2>2, <2>3 DEF Broadcast, StateFor
<1>2. outbox' \in [Clients -> Queues]
    BY <1>1 DEF Broadcast
<1> QED  BY <1>1, <1>2 DEF Beliefs, QueuesTyped, WillBelieve, TellTypes

(* After a transition a cockpit that it reached believes what is the case. *)
LEMMA TransitionBeliefs ==
    ASSUME TellTypes, BroadcastOperatorTransition, view' = view
    PROVE  /\ Beliefs /\ QueuesTyped /\ missed' \subseteq Clients
           /\ \A c \in Listeners : c \notin missed' /\ WillBelieve(c)' => Owns(c)
<1> DEFINE put(c) == Put(Put(outbox[c], [op |-> "state", mine |-> Owns(c)]),
                         [op |-> "nav_telemetry", mine |-> Owns(c)])
<1>0. /\ outbox' = [c \in Clients |-> IF c \in Listeners THEN put(c) ELSE outbox[c]]
      /\ missed' = {c \in Clients :
             IF c \in Listeners THEN SelectInSeq(outbox'[c], Replaceable) = 0 ELSE c \in missed}
    BY DEF BroadcastOperatorTransition, StateFor
<1>1. ASSUME NEW c \in Clients
      PROVE  /\ put(c) \in Queues /\ (Silent(put(c)) => Silent(outbox[c]))
             /\ Claims(put(c)) => Owns(c)
    <2>1. outbox[c] \in Queues /\ Owns(c) \in BOOLEAN
        BY OwnsIsBoolean DEF TellTypes
    <2> QED  BY <2>1, TransitionBelief
<1> HIDE DEF put
<1>2. outbox' \in [Clients -> Queues]
    BY <1>0, <1>1 DEF TellTypes
<1>3. ASSUME NEW c \in Listeners, c \notin missed', WillBelieve(c)'
      PROVE  Owns(c)
    <2>1. c \in Clients /\ outbox'[c] = put(c)
        BY <1>0 DEF Listeners
    <2>2. SelectInSeq(outbox'[c], Replaceable) # 0
        BY <1>0, <1>3, <2>1
    <2>3. ~Silent(outbox'[c])
        BY <1>1, <2>1, <2>2, SilenceIsFound
    <2> QED  BY <1>1, <1>3, <2>1, <2>3 DEF WillBelieve
<1>4. Beliefs
    BY <1>0, <1>1 DEF Beliefs, WillBelieve
<1> QED  BY <1>0, <1>2, <1>3, <1>4 DEF QueuesTyped, TellTypes

LEMMA DeliverBeliefs ==
    ASSUME TellTypes, NEW d \in Clients, Deliver(d)
    PROVE  Beliefs /\ QueuesTyped
<1> DEFINE q == outbox[d]
           m == Head(q)
           r == Tail(q)
<1>1. q \in Seq(Message) /\ q # <<>> /\ Len(q) <= Capacity /\ OneOfEach(q) /\ Len(q) \in Nat
      /\ Capacity \in Nat
    BY LenProperties, LeaseAssumption DEF TellTypes, Queues, Deliver
<1>2. /\ m \in Message /\ m = q[1] /\ r \in Seq(Message) /\ Len(r) = Len(q) - 1
      /\ \A i \in 1 .. Len(q) - 1 : r[i] = q[i + 1]
    BY <1>1, HeadTailProperties
<1>3. /\ outbox' = [outbox EXCEPT ![d] = r]
      /\ view' = IF Replaceable(m) THEN [view EXCEPT ![d] = m.mine] ELSE view
    BY DEF Deliver
<1> HIDE DEF q, m, r
<1>4. OneOfEach(r)
    <2> SUFFICES ASSUME NEW i \in 1 .. Len(q) - 1, NEW j \in 1 .. Len(q) - 1,
                        Replaceable(r[i]), r[i].op = r[j].op
                 PROVE  i = j
        BY <1>1, <1>2 DEF OneOfEach
    <2>1. i + 1 \in 1 .. Len(q) /\ j + 1 \in 1 .. Len(q)
        BY <1>1
    <2>2. i + 1 = j + 1
        BY <1>1, <1>2, <2>1 DEF OneOfEach
    <2> QED  BY <1>1, <2>2
<1>5. r \in Queues
    BY <1>1, <1>2, <1>4 DEF Queues
<1>6. outbox' \in [Clients -> Queues] /\ \A c \in Clients : outbox'[c] = IF c = d THEN r ELSE outbox[c]
    BY <1>3, <1>5 DEF TellTypes
<1>7. m.mine \in BOOLEAN
    BY <1>2 DEF Message
<1>8. /\ view' \in [Clients -> BOOLEAN]
      /\ \A c \in Clients : view'[c] = IF c = d /\ Replaceable(m) THEN m.mine ELSE view[c]
    BY <1>3, <1>7 DEF TellTypes
<1>9. Claims(r) => Claims(q)
    <2> SUFFICES ASSUME NEW i \in 1 .. Len(q) - 1, Replaceable(r[i]), r[i].mine
                 PROVE  Claims(q)
        BY <1>1, <1>2 DEF Claims
    <2>1. i + 1 \in 1 .. Len(q) /\ r[i] = q[i + 1]
        BY <1>1, <1>2
    <2> QED  BY <2>1 DEF Claims
<1>10. Replaceable(m) /\ m.mine => Claims(q)
    <2>1. 1 \in 1 .. Len(q)
        BY <1>1, EmptySeq
    <2> QED  BY <1>2, <2>1 DEF Claims
<1>11. Silent(r) /\ ~Replaceable(m) => Silent(q)
    <2> SUFFICES ASSUME Silent(r), ~Replaceable(m), NEW i \in 1 .. Len(q)
                 PROVE  ~Replaceable(q[i])
        BY DEF Silent
    <2>1. CASE i = 1
        BY <1>2, <2>1
    <2>2. CASE i # 1
        <3>1. i - 1 \in 1 .. Len(q) - 1 /\ q[i] = r[i - 1]
            BY <1>1, <1>2, <2>2
        <3> QED  BY <1>1, <1>2, <3>1 DEF Silent
    <2> QED  BY <2>1, <2>2
<1>12. q = outbox[d]
    BY DEF q
<1>13. ASSUME NEW c \in Clients
       PROVE  /\ Claims(outbox'[c]) => Claims(outbox[c]) \/ Owns(c)
              /\ view'[c] => view[c] \/ Claims(outbox[c])
              /\ WillBelieve(c)' => WillBelieve(c) \/ Owns(c)
    <2>1. CASE c # d
        BY <1>6, <1>8, <2>1 DEF WillBelieve
    <2>2. CASE c = d
        BY <1>6, <1>8, <1>9, <1>10, <1>11, <1>12, <2>2 DEF WillBelieve
    <2> QED  BY <2>1, <2>2
<1> QED  BY <1>6, <1>8, <1>13 DEF Beliefs, QueuesTyped

LEMMA DisconnectBeliefs ==
    ASSUME LeaseInv, TellTypes, NEW d \in Clients, Disconnect(d)
    PROVE  Beliefs /\ QueuesTyped
<1>1. /\ outbox' = [outbox EXCEPT ![d] = <<>>] /\ view' = view
      /\ conn' = [conn EXCEPT ![d] = "gone"]
    BY DEF Disconnect
<1>2. <<>> \in Queues /\ ~Claims(<<>>)
    <2>1. <<>> \in Seq(Message) /\ Len(<<>>) = 0 /\ 1 .. 0 = {}
        BY EmptySeq
    <2> QED  BY <2>1, LeaseAssumption DEF Queues, OneOfEach, Claims
<1>3. outbox' \in [Clients -> Queues]
    BY <1>1, <1>2 DEF TellTypes
<1>4. \A c \in Clients : outbox'[c] = IF c = d THEN <<>> ELSE outbox[c]
    BY <1>1 DEF TellTypes
<1>5. conn'[d] = "gone"
    BY <1>1 DEF LeaseInv, LeaseTypes
<1> QED  BY <1>1, <1>2, <1>3, <1>4, <1>5 DEF Beliefs, QueuesTyped, WillBelieve, TellTypes

-----------------------------------------------------------------------------
Told == TellTypes /\ GuardOK /\ NavLiveNeverOwns /\ UnlistedOK /\ WatchOK /\ ToldOK

LEMMA OwnsIsOwning ==
    ASSUME LeaseInv, NEW c \in Clients, Owns(c)
    PROVE  owner = c /\ Expire(guard) = guard /\ ~guard.locked
BY SyncedOwner, LeaseAssumption DEF Owns

(* No connection begins again or comes back.                               *)
ConnectionsAge ==
    \A c \in Clients :
        /\ conn'[c] = "absent" => conn[c] = "absent"
        /\ Listening(c)' => Listening(c) \/ conn[c] = "absent"

LEMMA UnlistedStep ==
    ASSUME LeaseInv, Told, Beliefs, ConnectionsAge
    PROVE  UnlistedOK'
<1> SUFFICES ASSUME NEW c \in Clients, c \in NavLive \/ conn'[c] = "absent"
             PROVE  ~view'[c] /\ ~Claims(outbox'[c])
    BY DEF UnlistedOK
<1>1. c \in NavLive \/ conn[c] = "absent"
    BY DEF ConnectionsAge
<1>2. ~Owns(c)
    BY <1>1, OwnsIsOwning DEF Told, NavLiveNeverOwns, LeaseInv, GhostsAreQuiet, NoHandler
<1>3. ~view[c] /\ ~Claims(outbox[c])
    BY <1>1 DEF Told, UnlistedOK
<1> QED  BY <1>2, <1>3 DEF Beliefs

(* Whoever listens after a step and would believe in a control that it did *)
(* not hold believed so before.                                            *)
LEMMA BelievedBefore ==
    ASSUME Told, Beliefs, ConnectionsAge, NEW c \in Clients, Listening(c)',
           WillBelieve(c)', ~Owns(c)
    PROVE  Listening(c) /\ WillBelieve(c)
<1>1. conn'[c] # "gone"
    BY DEF Listening
<1>2. WillBelieve(c)
    BY <1>1 DEF Beliefs
<1>3. conn[c] # "absent"
    BY <1>2 DEF Told, UnlistedOK, WillBelieve
<1> QED  BY <1>2, <1>3 DEF ConnectionsAge

(* A calm step keeps every cockpit told if it keeps what is announced.     *)
LEMMA CalmStep ==
    ASSUME LeaseInv, Told, Calm, Beliefs, QueuesTyped, ConnectionsAge, NavLiveNeverOwns',
           missed \subseteq missed', missed' \subseteq Clients,
           watch' = watch, \A t \in tasks : t.at = "announce" => t \in tasks'
    PROVE  Told'
<1>1. Announced => Announced'
    BY DEF Announced, Calm
<1>2. ASSUME NEW c \in Clients \ missed', Listening(c)', WillBelieve(c)'
      PROVE  Owns(c)' \/ Announced'
    <2>1. CASE Owns(c)
        BY <2>1 DEF Calm
    <2>2. CASE ~Owns(c)
        <3>1. Listening(c) /\ WillBelieve(c)
            BY <1>2, <2>2, BelievedBefore
        <3> QED  BY <1>1, <2>2, <3>1 DEF Told, ToldOK
    <2> QED  BY <2>1, <2>2
<1>3. ToldOK'
    BY <1>2 DEF ToldOK
<1>4. TellTypes'
    BY DEF Told, TellTypes, QueuesTyped
<1>5. WatchOK'
    BY DEF Told, WatchOK, Calm
<1> QED  BY <1>3, <1>4, <1>5, UnlistedStep DEF Told, Calm

LEMMA SignatureTyped ==
    ASSUME LeaseInv
    PROVE  SignatureNow \in Signature
<1>1. Expire(guard) \in Guard
    BY SyncedOwner
<1> QED  BY <1>1 DEF SignatureNow, Signature, Guard

(* The watchdog announces an expiry at the first poll that sees it.        *)
LEMMA PollStep ==
    ASSUME LeaseInv, Told, WatchPoll, NavLiveNeverOwns'
    PROVE  Told'
<1> DEFINE alert == /\ SignatureNow # watch.prev
                    /\ SignatureNow.locked
                    /\ SignatureNow.reason = "UI_HEARTBEAT_TIMEOUT"
<1>1. /\ watch' = [prev |-> SignatureNow, fresh |-> TRUE,
                   at |-> IF alert THEN "announce" ELSE "sleep"]
      /\ LookOnly /\ watch.at = "sleep"
      /\ UNCHANGED <<conn, tasks, outbox, view, missed>>
    BY DEF WatchPoll
<1> HIDE DEF alert
<1>2. Calm
    BY <1>1, LookIsCalm DEF Told
<1>3. Beliefs /\ QueuesTyped /\ ConnectionsAge
    BY <1>1, QuietBeliefs DEF Told, ConnectionsAge, Listening
<1>4. SignatureNow \in Signature
    BY SignatureTyped
<1>5. TellTypes'
    BY <1>1, <1>3, <1>4 DEF Told, TellTypes, QueuesTyped
<1>6. SignatureNow.locked => guard'.age = -1
    <2>1. ASSUME SignatureNow.locked  PROVE guard'.age = -1
        <3>1. Expire(guard).locked /\ guard' = Expire(guard)
            BY <1>1, <2>1 DEF SignatureNow, LookOnly
        <3> QED  BY <1>2, <3>1 DEF Calm, GuardOK
    <2> QED  BY <2>1
<1>7. WatchOK'
    <2>1. watch'.at = "announce" => alert
        BY <1>1
    <2>2. watch'.prev = Lapsed => SignatureNow.locked
        BY <1>1 DEF Lapsed
    <2> QED  BY <1>6, <2>1, <2>2 DEF WatchOK, alert
<1>8. Announced => Announced'
    <2>1. ASSUME SignatureNow = Lapsed, watch.prev # Lapsed  PROVE watch'.at = "announce"
        <3>1. alert
            BY <2>1 DEF alert, Lapsed
        <3> QED  BY <1>1, <3>1
    <2> QED  BY <1>1, <2>1 DEF Announced
<1>9. ASSUME NEW c \in Clients \ missed', Listening(c)', WillBelieve(c)'
      PROVE  Owns(c)' \/ Announced'
    <2>1. CASE Owns(c)
        BY <1>2, <2>1 DEF Calm
    <2>2. CASE ~Owns(c)
        <3>1. Listening(c) /\ WillBelieve(c) /\ c \notin missed
            BY <1>1, <1>3, <1>9, <2>2, BelievedBefore
        <3> QED  BY <1>8, <2>2, <3>1 DEF Told, ToldOK
    <2> QED  BY <2>1, <2>2
<1>10. ToldOK'
    BY <1>9 DEF ToldOK
<1> QED  BY <1>2, <1>3, <1>5, <1>7, <1>10, UnlistedStep DEF Told, Calm

(* A transition tells every cockpit it reaches how things are.             *)
LEMMA TransitionStep ==
    ASSUME LeaseInv, Told, NavLiveNeverOwns', BroadcastOperatorTransition, LookOnly,
           UNCHANGED <<conn, view>>,
           \/ watch' = watch
           \/ /\ watch.at = "announce"
              /\ watch' = [watch EXCEPT !.at = "sleep", !.fresh = TRUE]
    PROVE  Told'
<1>1. Calm
    BY LookIsCalm DEF Told
<1>2. /\ Beliefs /\ QueuesTyped /\ missed' \subseteq Clients
      /\ \A c \in Listeners : c \notin missed' /\ WillBelieve(c)' => Owns(c)
    BY TransitionBeliefs DEF Told
<1>3. ConnectionsAge
    BY DEF ConnectionsAge, Listening
<1>4. UnlistedOK'
    BY <1>2, <1>3, UnlistedStep
<1>5. TellTypes'
    BY <1>2 DEF Told, TellTypes, QueuesTyped
<1>6. WatchOK'
    <2>1. CASE watch' = watch
        BY <1>1, <2>1 DEF Told, WatchOK, Calm
    <2>2. CASE watch.at = "announce" /\ watch' = [watch EXCEPT !.at = "sleep", !.fresh = TRUE]
        <3>1. watch'.at = "sleep" /\ guard.age <= 0
            BY <2>2 DEF Told, TellTypes, WatchOK
        <3> QED  BY <1>1, <3>1 DEF WatchOK, Calm
    <2> QED  BY <2>1, <2>2
<1>7. ASSUME NEW c \in Clients \ missed', Listening(c)', WillBelieve(c)'
      PROVE  Owns(c)'
    <2>1. c \notin NavLive
        BY <1>4, <1>7 DEF UnlistedOK, WillBelieve
    <2>2. c \in Listeners
        BY <1>7, <2>1 DEF Listening, Listeners
    <2> QED  BY <1>1, <1>2, <1>7, <2>2 DEF Calm
<1>8. ToldOK'
    BY <1>7 DEF ToldOK
<1> QED  BY <1>1, <1>4, <1>5, <1>6, <1>8 DEF Told, Calm

LEMMA PutAckAges ==
    ASSUME LeaseInv, NEW d \in Clients, PutAck(d)
    PROVE  ConnectionsAge /\ \A c \in Clients : Listening(c)' => Listening(c)
<1>1. conn \in [Clients -> {"absent", "opening", "open", "closed", "gone"}]
    BY DEF LeaseInv, LeaseTypes
<1>2. CASE conn' = conn
    BY <1>2 DEF ConnectionsAge, Listening
<1>3. CASE conn' = [conn EXCEPT ![d] = "closed"]
    <2>1. \A c \in Clients : conn'[c] = IF c = d THEN "closed" ELSE conn[c]
        BY <1>1, <1>3
    <2> QED  BY <2>1 DEF ConnectionsAge, Listening
<1> QED  BY <1>2, <1>3 DEF PutAck

(* What set_control_lock does to the clock of the guard.                   *)
LEMMA LocksAndUnlocks ==
    /\ \A r : LockedBy(r).locked = TRUE /\ LockedBy(r).age = -1
    /\ Unlocked.locked = FALSE /\ Unlocked.age = 0
BY DEF LockedBy, Unlocked

LEMMA LockingResets ==
    ASSUME LeaseInv, NEW c \in Clients, NEW l \in BOOLEAN, SetLocked(c, l), l \/ MayUnlock(c)
    PROVE  GuardOK' /\ guard'.age <= 0
<1>1. guard' = LockedBy("UI_LOCK_REQUEST") \/ guard' = Unlocked
    BY DEF SetLocked
<1>2. \/ guard'.locked = TRUE /\ guard'.age = -1
      \/ guard'.locked = FALSE /\ guard'.age = 0
    BY <1>1, LocksAndUnlocks
<1> QED  BY <1>2 DEF GuardOK

LEMMA LockTells ==
    ASSUME LeaseInv, Told, NEW c \in Clients, NEW op \in {"lock", "unlock"},
           HandleLock(c, op), NavLiveNeverOwns'
    PROVE  Told'
<1>0. /\ PutAck(c) /\ UNCHANGED <<watch, view>> /\ SetLocked(c, op = "lock")
      /\ inbox[c] # <<>>
    BY DEF HandleLock, Taken
<1>1. Beliefs /\ QueuesTyped
    BY <1>0, AckBeliefs DEF Told
<1>2. ConnectionsAge /\ \A d \in Clients : Listening(d)' => Listening(d)
    BY <1>0, PutAckAges
<1>3. CASE op = "unlock" /\ ~MayUnlock(c)
    <2>1. LookOnly
        BY <1>0, <1>3 DEF SetLocked
    <2>2. Calm
        BY <2>1, LookIsCalm DEF Told
    <2>3. missed' = missed /\ tasks' = tasks
        BY <1>3 DEF HandleLock
    <2> QED  BY <1>0, <1>1, <1>2, <2>2, <2>3, CalmStep DEF Told, TellTypes
<1>4. CASE op = "lock" \/ MayUnlock(c)
    <2>1. GuardOK' /\ guard'.age <= 0
        BY <1>0, <1>4, LockingResets
    <2>2. UnlistedOK'
        BY <1>1, <1>2, UnlistedStep
    <2>3. missed' = IF Overflows(outbox[c], Ack) THEN missed \union Listeners ELSE missed
        BY <1>4 DEF HandleLock
    <2>4. TellTypes'
        BY <1>0, <1>1, <2>3 DEF Told, TellTypes, QueuesTyped, Listeners
    <2>5. WatchOK'
        BY <2>1 DEF WatchOK
    <2>6. CASE ~Overflows(outbox[c], Ack)
        <3> DEFINE u == NewTask(c, Head(inbox[c]), "announce")
        <3>1. u.at = "announce"
            BY <1>0, NewTaskIsLive
        <3>2. u \in tasks'
            BY <1>4, <2>6 DEF HandleLock
        <3> HIDE DEF u
        <3>3. Announced'
            BY <3>1, <3>2 DEF Announced
        <3> QED  BY <2>1, <2>2, <2>4, <2>5, <3>3 DEF Told, ToldOK
    <2>7. CASE Overflows(outbox[c], Ack)
        <3>1. ASSUME NEW d \in Clients \ missed', Listening(d)', WillBelieve(d)'
              PROVE  FALSE
            <4>1. d \notin NavLive
                BY <2>2, <3>1 DEF UnlistedOK, WillBelieve
            <4>2. d \in Listeners
                BY <1>2, <3>1, <4>1 DEF Listening, Listeners
            <4> QED  BY <2>3, <2>7, <3>1, <4>2
        <3> QED  BY <2>1, <2>2, <2>4, <2>5, <3>1 DEF Told, ToldOK
    <2> QED  BY <2>6, <2>7
<1> QED  BY <1>3, <1>4

LEMMA DisconnectTells ==
    ASSUME LeaseInv, Told, NEW c \in Clients, Disconnect(c), NavLiveNeverOwns'
    PROVE  Told'
<1>1. Beliefs /\ QueuesTyped
    BY DisconnectBeliefs DEF Told
<1>2. /\ conn' = [conn EXCEPT ![c] = "gone"]
      /\ UNCHANGED <<watch, view, missed>>
      /\ conn \in [Clients -> {"absent", "opening", "open", "closed", "gone"}]
    BY DEF Disconnect, LeaseInv, LeaseTypes
<1>3. ConnectionsAge
    BY <1>2 DEF ConnectionsAge, Listening
<1>4. CASE ~Owns(c)
    <2>1. LookOnly /\ tasks' = tasks
        BY <1>4 DEF Disconnect, LookOnly
    <2>2. Calm
        BY <2>1, LookIsCalm DEF Told
    <2> QED  BY <1>1, <1>2, <1>3, <2>1, <2>2, CalmStep DEF Told, TellTypes
<1>5. CASE Owns(c)
    <2> DEFINE u == [id |-> 0, client |-> c, op |-> "lock", at |-> "announce"]
    <2>1. guard' = LockedBy("UI_CLIENT_DISCONNECTED") /\ u \in tasks' /\ u.at = "announce"
        BY <1>5 DEF Disconnect
    <2> HIDE DEF u
    <2>2. Announced'
        BY <2>1 DEF Announced
    <2>3. GuardOK' /\ guard'.age <= 0
        BY <2>1 DEF GuardOK, LockedBy
    <2>4. TellTypes'
        BY <1>1, <1>2 DEF Told, TellTypes, QueuesTyped
    <2>5. WatchOK'
        BY <2>3 DEF WatchOK
    <2> QED  BY <1>1, <1>3, <2>2, <2>3, <2>4, <2>5, UnlistedStep DEF Told, ToldOK
<1> QED  BY <1>4, <1>5

(* The server answers within a tick and polls between two ticks, so the    *)
(* poll before an expiry has seen the lease open.                          *)
Prompt == ~SlowState /\ Timeout >= 1

LEMMA TickTells ==
    ASSUME Prompt, LeaseInv, Told, Tick, NavLiveNeverOwns'
    PROVE  Told'
<1>1. /\ guard.age \in 0 .. Timeout /\ watch.at = "sleep" /\ watch.fresh
      /\ \A t \in tasks : t.at # "announce"
      /\ guard' = [guard EXCEPT !.age = @ + 1] /\ owner' = owner
      /\ watch' = [watch EXCEPT !.fresh = FALSE]
      /\ UNCHANGED <<conn, outbox, view, missed, tasks>>
    BY DEF Tick, Prompt
<1>2. guard \in Guard /\ Timeout \in Nat /\ guard.locked = FALSE /\ Timeout >= 1
    BY <1>1, LeaseAssumption DEF LeaseInv, LeaseTypes, Told, GuardOK, Guard, Prompt
<1>3. guard'.locked = FALSE /\ guard'.age = guard.age + 1 /\ guard'.reason = guard.reason
    BY <1>1, <1>2 DEF Guard
<1>4. watch'.at = "sleep" /\ watch'.fresh = FALSE /\ watch'.prev = watch.prev
    BY <1>1 DEF Told, TellTypes
<1>5. Beliefs /\ QueuesTyped /\ ConnectionsAge
    BY <1>1, QuietBeliefs DEF Told, ConnectionsAge, Listening
<1>6. GuardOK'
    BY <1>1, <1>3 DEF GuardOK
<1>7. TellTypes'
    BY <1>1, <1>5 DEF Told, TellTypes, QueuesTyped
<1>8. WatchOK'
    BY <1>4 DEF WatchOK
<1>9. Expire(guard) = guard /\ SignatureNow # Lapsed
    <2>1. Expire(guard) = guard
        BY <1>1, <1>2 DEF Expire
    <2>2. SignatureNow.locked = FALSE /\ Lapsed.locked = TRUE
        BY <1>2, <2>1 DEF SignatureNow, Lapsed
    <2> QED  BY <2>1, <2>2
<1>10. ~Announced
    BY <1>1, <1>9 DEF Announced
<1>11. ASSUME NEW c \in Clients \ missed', Listening(c)', WillBelieve(c)'
       PROVE  Owns(c)' \/ Announced'
    <2>1. Owns(c)
        BY <1>1, <1>5, <1>10, <1>11, BelievedBefore DEF Told, ToldOK
    <2>2. Synced(guard, owner) = c /\ owner = c
        BY <2>1, OwnsIsOwning DEF Owns
    <2>3. CASE guard.age < Timeout
        <3>1. Expire(guard') = guard'
            BY <1>1, <1>2, <1>3, <2>3 DEF Expire
        <3>2. Synced(guard', owner') = owner
            BY <1>1, <1>3, <3>1 DEF Synced
        <3> QED  BY <2>2, <3>2 DEF Owns
    <2>4. CASE guard.age = Timeout
        <3>1. guard'.age > Timeout /\ ~guard'.locked
            BY <1>2, <1>3, <2>4
        <3>2. Expire(guard').locked = TRUE /\ Expire(guard').reason = "UI_HEARTBEAT_TIMEOUT"
            BY <3>1 DEF Expire
        <3>3. Synced(guard', owner') = NoOne
            BY <3>2 DEF Synced
        <3>4. SignatureNow' = Lapsed
            BY <3>2, <3>3 DEF SignatureNow, Lapsed
        <3>5. watch.prev # Lapsed
            BY <1>1, <1>2, <2>4 DEF Told, WatchOK
        <3> QED  BY <1>4, <3>4, <3>5 DEF Announced
    <2> QED  BY <1>1, <1>2, <2>3, <2>4
<1>12. ToldOK'
    BY <1>11 DEF ToldOK
<1> QED  BY <1>5, <1>6, <1>7, <1>8, <1>12, UnlistedStep DEF Told

(* Only a cockpit takes the lease.                                         *)
LEMMA NavLiveStep ==
    ASSUME IInv, NavLiveNeverOwns, Next
    PROVE  NavLiveNeverOwns'
<1>0. LeaseInv /\ NoOne \notin NavLive
    BY LeaseAssumption DEF IInv
<1>1. ASSUME NEW c \in Clients, NEW op \in {"lock", "unlock"}, HandleLock(c, op)
      PROVE  NavLiveNeverOwns'
    <2>1. c \notin NavLive /\ SetLocked(c, op = "lock")
        BY <1>1 DEF HandleLock
    <2>2. owner' \in {owner, NoOne, c}
        BY <1>0, <2>1, SetLockedTakesFreeLease
    <2> QED  BY <1>0, <2>1, <2>2 DEF NavLiveNeverOwns
<1>2. ASSUME NEW c \in Clients, HandleHeartbeat(c)
      PROVE  NavLiveNeverOwns'
    BY <1>0, <1>2, HeartbeatKeepsLease DEF HandleHeartbeat, NavLiveNeverOwns
<1>3. ASSUME LookOnly \/ owner' = owner
      PROVE  NavLiveNeverOwns'
    BY <1>0, <1>3, LookKeepsLease DEF NavLiveNeverOwns
<1>4. ASSUME NEW c \in Clients,
             \/ Connect(c) \/ FirstState(c) \/ Close(c) \/ Deliver(c)
             \/ \E op \in Ops : Receive(c, op)
             \/ HandleReadOnly(c)
             \/ \E op \in {"control", "stop"} : HandleDenied(c, op) \/ HandleDispatch(c, op)
      PROVE  NavLiveNeverOwns'
    BY <1>3, <1>4 DEF Connect, FirstState, Close, Deliver, Receive, HandleReadOnly,
                      HandleDenied, HandleDispatch, leaseVars
<1>5. ASSUME NEW c \in Clients, Disconnect(c)
      PROVE  NavLiveNeverOwns'
    BY <1>0, <1>5, SyncedOwner DEF Disconnect, NavLiveNeverOwns
<1>6. ASSUME TaskStep \/ Telemetry \/ WatchPoll \/ WatchAnnounce \/ Tick
      PROVE  NavLiveNeverOwns'
    BY <1>3, <1>6 DEF TaskStep, Discovered, DispatchEnds, Announce, Telemetry, WatchPoll,
                      WatchAnnounce, Tick, leaseVars
<1> QED  BY <1>1, <1>2, <1>4, <1>5, <1>6 DEF Next, Handle

LEMMA ConnectionTells ==
    ASSUME LeaseInv, Told, NavLiveNeverOwns', NEW c \in Clients,
           \/ Connect(c) \/ FirstState(c) \/ Close(c) \/ Deliver(c)
           \/ \E op \in Ops : Receive(c, op)
    PROVE  Told'
<1>1. Calm
    BY LookIsCalm DEF Told, Connect, FirstState, Close, Deliver, Receive
<1>2. ConnectionsAge
    BY DEF LeaseInv, LeaseTypes, ConnectionsAge, Listening, Connect, FirstState, Close, Deliver, Receive
<1>3. UNCHANGED <<watch, tasks, missed>>
    BY DEF Connect, FirstState, Close, Deliver, Receive
<1>4. Beliefs /\ QueuesTyped
    <2>1. CASE FirstState(c) \/ Deliver(c)
        BY <2>1, FirstStateBeliefs, DeliverBeliefs DEF Told
    <2>2. CASE UNCHANGED <<outbox, view>>
        BY <2>2, QuietBeliefs DEF Told
    <2> QED  BY <2>1, <2>2 DEF Connect, Close, Receive
<1> QED  BY <1>1, <1>2, <1>3, <1>4, CalmStep DEF Told, TellTypes

LEMMA HandlerTells ==
    ASSUME LeaseInv, Told, NavLiveNeverOwns', NEW c \in Clients,
           \/ HandleReadOnly(c) \/ HandleHeartbeat(c)
           \/ \E op \in {"control", "stop"} : HandleDenied(c, op) \/ HandleDispatch(c, op)
    PROVE  Told'
<1>1. Calm
    BY LookIsCalm, HeartbeatIsCalm DEF Told, HandleReadOnly, HandleHeartbeat, HandleDenied, HandleDispatch
<1>2. UNCHANGED <<watch, missed, view>> /\ tasks \subseteq tasks'
    BY DEF HandleReadOnly, HandleHeartbeat, HandleDenied, HandleDispatch
<1>3. Beliefs /\ QueuesTyped /\ ConnectionsAge
    <2>1. CASE PutAck(c)
        BY <1>2, <2>1, AckBeliefs, PutAckAges DEF Told
    <2>2. CASE UNCHANGED <<outbox, conn>>
        BY <1>2, <2>2, QuietBeliefs DEF Told, ConnectionsAge, Listening
    <2> QED  BY <2>1, <2>2 DEF HandleReadOnly, HandleHeartbeat, HandleDenied, HandleDispatch
<1> QED  BY <1>1, <1>2, <1>3, CalmStep DEF Told, TellTypes

LEMMA TaskTells ==
    ASSUME IInv, Told, NavLiveNeverOwns', TaskStep \/ Telemetry \/ WatchAnnounce
    PROVE  Told'
<1>0. LeaseInv
    BY DEF IInv
<1>1. ASSUME NEW t \in tasks, Announce(t)
      PROVE  Told'
    BY <1>0, <1>1, TransitionStep DEF Announce
<1>2. CASE WatchAnnounce
    BY <1>0, <1>2, TransitionStep DEF WatchAnnounce
<1>3. CASE Telemetry
    <2>1. Calm /\ Beliefs /\ QueuesTyped /\ ConnectionsAge
        BY <1>0, <1>3, LookIsCalm, BroadcastBeliefs DEF Telemetry, Told, ConnectionsAge, Listening
    <2> QED  BY <1>0, <1>3, <2>1, CalmStep DEF Told, TellTypes, Telemetry
<1>4. ASSUME NEW t \in tasks, Discovered(t) \/ DispatchEnds(t)
      PROVE  Told'
    <2>0. t.client \in Clients
        BY <1>4 DEF IInv, TasksAreLive, Task
    <2>1. Calm
        BY <1>0, <1>4, LookIsCalm DEF Told, Discovered, DispatchEnds
    <2>2. /\ UNCHANGED <<watch, missed, view>>
          /\ \A u \in tasks : u.at = "announce" => u \in tasks'
        BY <1>4 DEF Discovered, DispatchEnds
    <2>3. Beliefs /\ QueuesTyped /\ ConnectionsAge
        <3>1. CASE DispatchEnds(t)
            BY <1>0, <2>0, <2>2, <3>1, AckBeliefs, PutAckAges DEF DispatchEnds, Told
        <3>2. CASE Discovered(t)
            BY <1>0, <2>2, <3>2, QuietBeliefs DEF Discovered, Told, ConnectionsAge, Listening
        <3> QED  BY <1>4, <3>1, <3>2
    <2> QED  BY <1>0, <2>1, <2>2, <2>3, CalmStep DEF Told, TellTypes
<1> QED  BY <1>1, <1>2, <1>3, <1>4 DEF TaskStep

LEMMA ToldStep ==
    ASSUME Prompt, IInv, Told, [Next]_vars
    PROVE  Told'
<1>0. LeaseInv
    BY DEF IInv
<1>1. CASE Next
    <2>1. NavLiveNeverOwns'
        BY <1>1, NavLiveStep DEF Told
    <2>2. ASSUME NEW c \in Clients, Handle(c)
          PROVE  Told'
        BY <1>0, <2>1, <2>2, HandlerTells, LockTells DEF Handle
    <2> QED  BY <1>0, <1>1, <2>1, <2>2, ConnectionTells, DisconnectTells, TaskTells, PollStep,
                TickTells DEF Next
<1>2. CASE UNCHANGED vars
    <2>0. UNCHANGED <<leaseVars, outbox, view, conn>>
        BY <1>2 DEF vars, leaseVars
    <2>1. Calm /\ Beliefs /\ QueuesTyped /\ ConnectionsAge
        BY <1>0, <2>0, LookIsCalm, QuietBeliefs DEF Told, ConnectionsAge, Listening
    <2> QED  BY <1>0, <1>2, <2>1, CalmStep DEF vars, leaseVars, Told, TellTypes, NavLiveNeverOwns
<1> QED  BY <1>1, <1>2

LEMMA InitTold ==
    ASSUME Init
    PROVE  Told
<1>1. IInv
    BY InitIInv
<1>2. <<>> \in Queues /\ ~Claims(<<>>)
    <2>1. <<>> \in Seq(Message) /\ Len(<<>>) = 0 /\ 1 .. 0 = {}
        BY EmptySeq
    <2> QED  BY <2>1, LeaseAssumption DEF Queues, OneOfEach, Claims
<1>3. GuardOK /\ guard.age <= 0
    <2>1. guard = LockedBy("STARTUP_LOCKED") \/ guard = Unlocked
        BY DEF Init
    <2>2. \/ guard.locked = TRUE /\ guard.age = -1
          \/ guard.locked = FALSE /\ guard.age = 0
        BY <2>1, LocksAndUnlocks
    <2> QED  BY <2>2 DEF GuardOK
<1>4. SignatureNow \in Signature
    BY <1>1, SignatureTyped DEF IInv
<1>5. TellTypes
    BY <1>2, <1>4 DEF Init, TellTypes
<1>6. NavLiveNeverOwns /\ UnlistedOK /\ ToldOK
    BY <1>2, LeaseAssumption DEF Init, NavLiveNeverOwns, UnlistedOK, ToldOK, Listening
<1> QED  BY <1>3, <1>5, <1>6 DEF Told, WatchOK

(* Once its queue is empty and nothing is being announced, no cockpit that *)
(* the last transition has reached believes in a control it does not have: *)
(* every lock, unlock, disconnection and expiry is broadcast, and no older *)
(* state is delivered after it, whatever the capacity of the queues.  The  *)
(* heartbeat may not run out between two polls of the watchdog.            *)
THEOREM CockpitsAreTold == Prompt => (Spec => []CockpitIsTold)
<1> SUFFICES ASSUME Prompt  PROVE Spec => []CockpitIsTold
    OBVIOUS
<1>1. Told => CockpitIsTold
    <2> SUFFICES ASSUME Told, NEW c \in Clients \ missed, conn[c] = "open", outbox[c] = <<>>,
                        view[c], \A t \in tasks : t.at # "announce", watch.at = "sleep",
                        watch.prev = SignatureNow
                 PROVE  Owns(c)
        BY DEF CockpitIsTold
    <2>1. Silent(outbox[c])
        <3>1. Len(<<>>) = 0 /\ 1 .. 0 = {}
            OBVIOUS
        <3> QED  BY <3>1 DEF Silent
    <2>2. ~Announced
        BY DEF Announced
    <2> QED  BY <2>1, <2>2 DEF Told, ToldOK, WillBelieve, Listening
<1> QED  BY <1>1, InitTold, ToldStep, IInvHolds, PTL DEF Spec

-----------------------------------------------------------------------------
(* Types, without any assumption on the clock.                             *)
AllTypes == TellTypes /\ GuardOK /\ HistoryTypes

LEMMA QueuesStep ==
    ASSUME IInv, TellTypes, Next
    PROVE  QueuesTyped /\ missed' \subseteq Clients
<1>0. LeaseInv
    BY DEF IInv
<1>1. ASSUME NEW c \in Clients, Handle(c)
      PROVE  QueuesTyped /\ missed' \subseteq Clients
    <2>1. view' = view /\ (PutAck(c) \/ outbox' = outbox)
        BY <1>1 DEF Handle, HandleReadOnly, HandleLock, HandleHeartbeat, HandleDenied, HandleDispatch
    <2>2. QueuesTyped
        BY <2>1, AckBeliefs, QuietBeliefs
    <2>3. missed' \in {missed, missed \union Listeners}
        BY <1>1 DEF Handle, HandleReadOnly, HandleLock, HandleHeartbeat, HandleDenied, HandleDispatch
    <2> QED  BY <2>2, <2>3 DEF TellTypes, Listeners
<1>2. ASSUME NEW t \in tasks, Discovered(t) \/ DispatchEnds(t)
      PROVE  QueuesTyped /\ missed' \subseteq Clients
    <2>1. t.client \in Clients
        BY DEF IInv, TasksAreLive, Task
    <2> QED  BY <1>2, <2>1, AckBeliefs, QuietBeliefs DEF Discovered, DispatchEnds, TellTypes
<1>3. CASE WatchAnnounce \/ \E t \in tasks : Announce(t)
    BY <1>3, TransitionBeliefs DEF WatchAnnounce, Announce
<1>4. CASE Telemetry
    BY <1>4, BroadcastBeliefs DEF Telemetry, TellTypes
<1>5. CASE WatchPoll \/ Tick
    BY <1>5, QuietBeliefs DEF WatchPoll, Tick, TellTypes
<1>6. ASSUME NEW c \in Clients, FirstState(c) \/ Deliver(c) \/ Disconnect(c)
      PROVE  QueuesTyped /\ missed' \subseteq Clients
    BY <1>0, <1>6, FirstStateBeliefs, DeliverBeliefs, DisconnectBeliefs
       DEF FirstState, Deliver, Disconnect, TellTypes
<1>7. ASSUME NEW c \in Clients, Connect(c) \/ Close(c) \/ \E op \in Ops : Receive(c, op)
      PROVE  QueuesTyped /\ missed' \subseteq Clients
    BY <1>7, QuietBeliefs DEF Connect, Close, Receive, TellTypes
<1> QED  BY <1>1, <1>2, <1>3, <1>4, <1>5, <1>6, <1>7 DEF Next, TaskStep

LEMMA WatchTyped ==
    ASSUME IInv, TellTypes, Next
    PROVE  watch' \in [prev : Signature, at : {"sleep", "announce"}, fresh : BOOLEAN]
<1>1. CASE WatchPoll
    BY <1>1, SignatureTyped DEF WatchPoll, IInv
<1>2. CASE watch' = watch
    BY <1>2 DEF TellTypes
<1>3. CASE WatchAnnounce
    BY <1>3 DEF WatchAnnounce, TellTypes
<1>4. CASE Tick
    BY <1>4 DEF Tick, TellTypes
<1> QED  BY <1>1, <1>2, <1>3, <1>4 DEF Next, Connect, FirstState, Close, Disconnect, Deliver,
            Receive, Handle, HandleReadOnly, HandleLock, HandleHeartbeat, HandleDenied,
            HandleDispatch, TaskStep, Discovered, DispatchEnds, Announce, Telemetry

LEMMA GuardStep ==
    ASSUME IInv, GuardOK, Next
    PROVE  GuardOK'
<1>0. LeaseInv
    BY DEF IInv
<1>1. ASSUME LookOnly \/ UNCHANGED leaseVars  PROVE GuardOK'
    BY <1>0, <1>1, LookIsCalm DEF Calm
<1>2. ASSUME NEW c \in Clients, HandleHeartbeat(c)  PROVE GuardOK'
    BY <1>0, <1>2, HeartbeatIsCalm DEF HandleHeartbeat, Calm
<1>3. ASSUME NEW c \in Clients, NEW op \in {"lock", "unlock"}, HandleLock(c, op)  PROVE GuardOK'
    <2>1. SetLocked(c, op = "lock")
        BY <1>3 DEF HandleLock
    <2>2. CASE op = "lock" \/ MayUnlock(c)
        BY <1>0, <2>1, <2>2, LockingResets
    <2>3. CASE ~(op = "lock" \/ MayUnlock(c))
        BY <1>1, <2>1, <2>3 DEF SetLocked
    <2> QED  BY <2>2, <2>3
<1>4. ASSUME NEW c \in Clients, Disconnect(c)  PROVE GuardOK'
    <2>1. CASE Owns(c)
        <3>1. guard' = LockedBy("UI_CLIENT_DISCONNECTED")
            BY <1>4, <2>1 DEF Disconnect
        <3> QED  BY <3>1, LocksAndUnlocks DEF GuardOK
    <2>2. CASE ~Owns(c)
        BY <1>1, <1>4, <2>2 DEF Disconnect, LookOnly
    <2> QED  BY <2>1, <2>2
<1>5. CASE Tick
    <2>1. guard.age \in 0 .. Timeout /\ guard' = [guard EXCEPT !.age = @ + 1] /\ guard \in Guard
        BY <1>0, <1>5 DEF Tick, LeaseInv, LeaseTypes
    <2>2. guard'.age = guard.age + 1 /\ guard'.locked = guard.locked
        BY <2>1 DEF Guard
    <2> QED  BY <2>1, <2>2, LeaseAssumption DEF GuardOK
<1>6. CASE Telemetry \/ WatchPoll \/ WatchAnnounce \/ TaskStep
    BY <1>1, <1>6 DEF Telemetry, WatchPoll, WatchAnnounce, TaskStep, Discovered, DispatchEnds, Announce
<1>7. ASSUME NEW c \in Clients,
             \/ Connect(c) \/ FirstState(c) \/ Close(c) \/ Deliver(c)
             \/ \E op \in Ops : Receive(c, op)
             \/ HandleReadOnly(c)
             \/ \E op \in {"control", "stop"} : HandleDenied(c, op) \/ HandleDispatch(c, op)
      PROVE  GuardOK'
    BY <1>1, <1>7 DEF Connect, FirstState, Close, Deliver, Receive, HandleReadOnly,
                      HandleDenied, HandleDispatch
<1> QED  BY <1>2, <1>3, <1>4, <1>5, <1>6, <1>7 DEF Next, Handle

LEMMA HistoryStep ==
    ASSUME IInv, HistoryTypes, Next
    PROVE  HistoryTypes'
<1>1. ASSUME NEW c \in Clients, PutAck(c) \/ acks' = acks
      PROVE  acks' \in [Clients -> [put : Nat, sent : Nat]]
    <2>1. CASE acks' = acks
        BY <2>1 DEF HistoryTypes
    <2>2. CASE acks' = [acks EXCEPT ![c].put = @ + 1]
        <3>1. acks[c].put + 1 \in Nat /\ acks[c] \in [put : Nat, sent : Nat]
            BY DEF HistoryTypes
        <3> QED  BY <2>2, <3>1 DEF HistoryTypes
    <2> QED  BY <1>1, <2>1, <2>2 DEF PutAck
<1>2. ASSUME NEW c \in Clients, NEW op, TakesEffect(c, op) \/ UNCHANGED <<driver, nEffects>>
      PROVE  driver' \in Clients \union {NoOne} /\ nEffects' \in Nat
    BY <1>2 DEF TakesEffect, HistoryTypes
<1>3. ASSUME NEW c \in Clients, Handle(c)
      PROVE  HistoryTypes'
    <2>1. PutAck(c) \/ acks' = acks
        BY <1>3 DEF Handle, HandleReadOnly, HandleLock, HandleHeartbeat, HandleDenied, HandleDispatch
    <2>2. (\E op \in {"control", "stop"} : TakesEffect(c, op)) \/ UNCHANGED <<driver, nEffects>>
        BY <1>3 DEF Handle, HandleReadOnly, HandleLock, HandleHeartbeat, HandleDenied, HandleDispatch
    <2> QED  BY <1>1, <1>2, <2>1, <2>2 DEF HistoryTypes
<1>4. ASSUME NEW t \in tasks, Discovered(t) \/ DispatchEnds(t)
      PROVE  HistoryTypes'
    <2>1. t.client \in Clients
        BY DEF IInv, TasksAreLive, Task
    <2> QED  BY <1>1, <1>2, <1>4, <2>1 DEF Discovered, DispatchEnds, HistoryTypes
<1>5. ASSUME NEW c \in Clients, Deliver(c)
      PROVE  HistoryTypes'
    <2>1. acks' = acks \/ acks' = [acks EXCEPT ![c].sent = @ + 1]
        BY <1>5 DEF Deliver
    <2>2. acks[c].sent + 1 \in Nat /\ acks[c] \in [put : Nat, sent : Nat]
        BY DEF HistoryTypes
    <2>3. acks' \in [Clients -> [put : Nat, sent : Nat]]
        BY <2>1, <2>2 DEF HistoryTypes
    <2> QED  BY <1>5, <2>3 DEF Deliver, HistoryTypes
<1>6. CASE UNCHANGED <<driver, nEffects, acks>>
    BY <1>6 DEF HistoryTypes
<1> QED  BY <1>3, <1>4, <1>5, <1>6 DEF Next, Connect, FirstState, Close, Disconnect, Receive,
            TaskStep, Announce, Telemetry, WatchPoll, WatchAnnounce, Tick

(* The states of guard, lease, connections, queues and suspended handlers  *)
(* are those that the code declares; the guard has no heartbeat exactly    *)
(* while it is locked.                                                     *)
THEOREM LeaseTypeOK == Spec => []TypeOK
<1>1. Init => AllTypes
    <2> SUFFICES ASSUME Init  PROVE AllTypes
        OBVIOUS
    <2> QED  BY InitTold DEF Init, Told, AllTypes, HistoryTypes
<1>2. IInv /\ AllTypes /\ [Next]_vars => AllTypes'
    <2>1. ASSUME IInv, AllTypes, Next  PROVE AllTypes'
        BY <2>1, QueuesStep, WatchTyped, GuardStep, HistoryStep DEF AllTypes, TellTypes, QueuesTyped
    <2>2. ASSUME AllTypes, UNCHANGED vars  PROVE AllTypes'
        BY <2>2 DEF AllTypes, TellTypes, GuardOK, HistoryTypes, vars
    <2> QED  BY <2>1, <2>2
<1>3. IInv /\ AllTypes => TypeOK
    BY DEF IInv, AllTypes, LeaseInv, LeaseTypes, TasksAreLive, TellTypes, GuardOK, HistoryTypes,
           Queues, TypeOK
<1> QED  BY <1>1, <1>2, <1>3, IInvHolds, PTL DEF Spec
=============================================================================
