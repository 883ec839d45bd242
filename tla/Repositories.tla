---------------------------- MODULE Repositories ----------------------------
(***************************************************************************)
(* The files that the gateway keeps for its operators.                     *)
(*                                                                         *)
(* routes.json (route_repository.py): operators load a route, edit their   *)
(* copy and save it with the revision they loaded.  Several gateway        *)
(* processes may have the same file open; an operation holds an exclusive  *)
(* flock from its read to its replace.  A process may die between any two  *)
(* steps; the operating system then releases its lock.                     *)
(*                                                                         *)
(* The waypoint file (waypoint_repository.py): save_waypoints_file         *)
(* validates a document twice and replaces the file, load_waypoints_file   *)
(* reads and validates it again.  No lock: two gateway processes may save  *)
(* at once, and either may die.                                            *)
(***************************************************************************)
EXTENDS Integers, FiniteSets

CONSTANTS
    Operators,
    Processes, NoProcess,
    Names,          \* names an operator may give to a route
    MaxRevision,    \* bound: saves of one route
    MaxIds,         \* bound: routes ever created
    MaxProcessCrashes

ASSUME LibraryAssumption == NoProcess \notin Processes

Document == [base : Nat, by : Operators]
Route == [id : Nat, name : Names, revision : Nat, document : Document]
NoOperation == [op |-> "idle"]

VARIABLES
    routes,     \* routes.json; a missing file reads as no routes
    flock,      \* who holds the lock file
    work,       \* the operation each process is in
    copy,       \* the route each operator has open, a set of at most one
    nextId, crashes

libraryVars == <<routes, flock, work, copy, nextId, crashes>>

LibraryTypeOK ==
    /\ \A r \in routes :
           /\ r.id \in 1..MaxIds /\ r.name \in Names /\ r.revision \in 1..MaxRevision
           /\ r.document \in [base : 0..MaxRevision, by : Operators]
    /\ flock \in Processes \union {NoProcess}
    /\ \A p \in Processes : work[p].op \in {"idle", "save_route", "delete_route"}
    /\ \A o \in Operators : Cardinality(copy[o]) <= 1
    /\ nextId \in 1..MaxIds + 1 /\ crashes \in 0..MaxProcessCrashes

-----------------------------------------------------------------------------
(* Broken variant: only the mutex of the process is taken.                 *)
MayLockAlone(p) == TRUE

(* _locked: the mutex of the process and the flock of the file.            *)
MayLock(p) == flock = NoProcess

MayBegin(p) == work[p] = NoOperation /\ MayLock(p)

(* _read: an unreadable store is refused, ROUTE_STORE_INVALID.             *)
Readable(stored) == \A r, s \in stored : r # s => r.id # s.id /\ r.name # s.name

(* Broken variant: the revision of the operator's copy is not compared.    *)
AdmitsAnyRevision(stored, op, mine, name) ==
    /\ Readable(stored)
    /\ op = "delete_route" => mine # {}
    /\ \A m \in mine : \E r \in stored : r.id = m.id
    /\ op = "save_route" => ~\E r \in stored : r.name = name /\ \A m \in mine : m.id # r.id

(* dispatch, up to the write: ROUTE_NOT_FOUND, ROUTE_CONFLICT,             *)
(* ROUTE_NAME_EXISTS and INVALID_ROUTE refuse.                             *)
Admits(stored, op, mine, name) ==
    /\ Readable(stored)
    /\ op = "delete_route" => mine # {}
    /\ \A m \in mine : \E r \in stored : r.id = m.id /\ r.revision = m.revision
    /\ op = "save_route" => ~\E r \in stored : r.name = name /\ \A m \in mine : m.id # r.id

(* validate_route and the new entry: the document was edited from the      *)
(* revision of the copy.                                                   *)
Saving(stored, mine, name, o) ==
    LET old == {r \in stored : \E m \in mine : m.id = r.id}
    IN  [id |-> IF old = {} THEN nextId ELSE (CHOOSE r \in old : TRUE).id,
         name |-> name,
         revision |-> IF old = {} THEN 1 ELSE (CHOOSE r \in old : TRUE).revision + 1,
         document |-> [base |-> IF mine = {} THEN 0 ELSE (CHOOSE m \in mine : TRUE).revision,
                       by |-> o]]

(* The library after the operation.                                        *)
Result(stored, op, mine, name, o) ==
    LET kept == {r \in stored : \A m \in mine : m.id # r.id}
    IN  IF op = "delete_route" THEN kept ELSE kept \union {Saving(stored, mine, name, o)}

-----------------------------------------------------------------------------
LibraryInit ==
    /\ routes = {}
    /\ flock = NoProcess
    /\ work = [p \in Processes |-> NoOperation]
    /\ copy = [o \in Operators |-> {}]
    /\ nextId = 1 /\ crashes = 0

(* get_route: an operator opens a route, or starts an empty one.           *)
OpenRoute(o, p, r) ==
    /\ MayBegin(p)
    /\ copy' = [copy EXCEPT ![o] = r]
    /\ UNCHANGED <<routes, flock, work, nextId, crashes>>

(* dispatch takes the lock, reads and decides; a refusal changes nothing.  *)
BeginRouteOp(o, p, op, name) ==
    /\ MayBegin(p)
    /\ Admits(routes, op, copy[o], name)
    /\ copy[o] = {} => nextId <= MaxIds
    /\ \A m \in copy[o] : m.revision < MaxRevision
    /\ flock' = p
    /\ work' = [work EXCEPT ![p] = [op |-> op, for |-> o, mine |-> copy[o],
                   name |-> name, data |-> Result(routes, op, copy[o], name, o)]]
    /\ nextId' = IF op = "save_route" /\ copy[o] = {} THEN nextId + 1 ELSE nextId
    /\ UNCHANGED <<routes, copy, crashes>>

(* _write: temporary file, fsync, replace; then the answer and the unlock. *)
EndRouteOp(p) ==
    /\ work[p].op \in {"save_route", "delete_route"}
    /\ routes' = work[p].data
    /\ flock' = NoProcess
    /\ copy' = [copy EXCEPT ![work[p].for] =
           IF work[p].op = "delete_route" THEN {}
           ELSE {r \in work[p].data : r.document.by = work[p].for /\ r.name = work[p].name}]
    /\ work' = [work EXCEPT ![p] = NoOperation]
    /\ UNCHANGED <<nextId, crashes>>

(* A process dies in the middle of an operation, before the new file       *)
(* replaced the old one or after it; nobody is answered.                   *)
ProcessDies(p, replaced) ==
    /\ work[p] # NoOperation /\ crashes < MaxProcessCrashes
    /\ crashes' = crashes + 1
    /\ routes' = IF replaced THEN work[p].data ELSE routes
    /\ flock' = IF flock = p THEN NoProcess ELSE flock
    /\ work' = [work EXCEPT ![p] = NoOperation]
    /\ UNCHANGED <<copy, nextId>>

LibraryNext ==
    \/ \E o \in Operators, p \in Processes :
           \/ \E r \in {{s} : s \in routes} \union {{}} : OpenRoute(o, p, r)
           \/ \E op \in {"save_route", "delete_route"}, n \in Names : BeginRouteOp(o, p, op, n)
    \/ \E p \in Processes : EndRouteOp(p) \/ \E b \in BOOLEAN : ProcessDies(p, b)

LibrarySpec == LibraryInit /\ [][LibraryNext]_libraryVars

-----------------------------------------------------------------------------
(* Every document in the library was edited from the revision it replaced: *)
(* no operator ever overwrote a version of a route he had not seen.        *)
NoLostUpdate == \A r \in routes : r.document.base = r.revision - 1

(* What _read demands of the file is what dispatch leaves in it: names and *)
(* ids are unique, so no sequence of saves, renames, deletions and crashes *)
(* makes the library unreadable.                                           *)
LibraryStaysReadable == Readable(routes)

(* A route never goes back to an earlier revision, and leaves the library  *)
(* only by an operator's deletion.                                         *)
RevisionStep == \A r \in routes :
    \/ \E s \in routes' : s.id = r.id /\ s.revision >= r.revision
    \/ \E p \in Processes : work[p].op = "delete_route" /\ \E m \in work[p].mine : m.id = r.id
RevisionsGrow == [][RevisionStep]_libraryVars

-----------------------------------------------------------------------------
(* The waypoint file.  An optional field is the set of its value, empty    *)
(* when it is absent.                                                      *)

CONSTANTS
    Gateways,
    MaxSaves, MaxDeaths    \* bounds: saves, and deaths of a gateway

Points == 0 .. 1       \* waypoint indices of the documents
Indices == {0, 2}       \* what a profile may hold: an index in and one out of range

RawPoint == [role : {{}, {"normal"}, {"home"}}, actions : {{}, {"empty"}, {"some"}}]
RawProfile == [home : Indices, loop : {<<2, 0>>, <<0, 0>>}]
Raw == [points : [Points -> RawPoint], profile : {{}} \union {{p} : p \in RawProfile}]

VARIABLES
    file,       \* the YAML on disk, as a set of at most one document
    saving,     \* the document each gateway is writing, if any
    last,       \* history: the document last acknowledged or left by a dead gateway
    nSaves, nDeaths

fileVars == <<file, saving, last, nSaves, nDeaths>>

-----------------------------------------------------------------------------
(* _normalize_waypoint: role is kept only for HOME, actions as they are.   *)
NormalizePoint(p) == [p EXCEPT !.role = @ \ {"normal"}]

(* Broken variant: a loop index outside the document is kept.              *)
NormalizeProfileKeeping(p) == [home |-> p.home, loop |-> {p.loop[i] : i \in DOMAIN p.loop}]

(* _normalize_patrol_profile: an index out of range is none, or left out,  *)
(* and a repeated one counts once.                                         *)
NormalizeProfile(p) ==
    [home |-> IF p.home \in Points THEN p.home ELSE -1,
     loop |-> {p.loop[i] : i \in DOMAIN p.loop} \intersect Points]

(* normalize_document, which refuses a second HOME.                        *)
ValidDocument(raw) == Cardinality({i \in Points : raw.points[i].role = {"home"}}) <= 1

NormalizeDocument(raw) ==
    [points |-> [i \in Points |-> NormalizePoint(raw.points[i])],
     profile |-> {NormalizeProfile(p) : p \in raw.profile}]

(* Broken variant: the role is not written.                                *)
ToYamlPointWithoutRole(p) == [role |-> {}, actions |-> p.actions \ {"empty"}]

(* to_yaml_document: empty actions are not written.                        *)
ToYamlPoint(p) == [role |-> p.role, actions |-> p.actions \ {"empty"}]

ToYaml(d) == [points |-> [i \in Points |-> ToYamlPoint(d.points[i])], profile |-> d.profile]

(* parse_yaml of what ToYaml wrote; its lists of indices are sets here.    *)
Parse(y) ==
    [points |-> [i \in Points |-> NormalizePoint(y.points[i])],
     profile |-> {[home |-> IF p.home \in Points THEN p.home ELSE -1,
                   loop |-> p.loop \intersect Points] : p \in y.profile}]

(* Two documents that mean the same: no actions and empty actions do.      *)
Means(d) ==
    [points |-> [i \in Points |-> [role |-> d.points[i].role,
                                   actions |-> d.points[i].actions \ {"empty"}]],
     profile |-> d.profile]

FileTypeOK ==
    /\ Cardinality(file) <= 1 /\ Cardinality(last) <= 1
    /\ DOMAIN saving = Gateways /\ \A g \in Gateways : Cardinality(saving[g]) <= 1
    /\ nSaves \in 0..MaxSaves /\ nDeaths \in 0..MaxDeaths

-----------------------------------------------------------------------------
FileInit ==
    /\ file = {} /\ last = {}
    /\ saving = [g \in Gateways |-> {}]
    /\ nSaves = 0 /\ nDeaths = 0

(* dispatch of save_waypoints_file, up to the temporary file.              *)
BeginSave(g, raw) ==
    /\ saving[g] = {} /\ nSaves < MaxSaves
    /\ ValidDocument(raw)
    /\ saving' = [saving EXCEPT ![g] = {NormalizeDocument(raw)}]
    /\ nSaves' = nSaves + 1
    /\ UNCHANGED <<file, last, nDeaths>>

(* os.replace and the answer.                                              *)
EndSave(g) == \E d \in saving[g] :
    /\ file' = {ToYaml(d)} /\ last' = {d}
    /\ saving' = [saving EXCEPT ![g] = {}]
    /\ UNCHANGED <<nSaves, nDeaths>>

(* A gateway dies before or after the replace; the temporary file stays.   *)
GatewayDies(g, replaced) == \E d \in saving[g] :
    /\ nDeaths < MaxDeaths /\ nDeaths' = nDeaths + 1
    /\ file' = IF replaced THEN {ToYaml(d)} ELSE file
    /\ last' = IF replaced THEN {d} ELSE last
    /\ saving' = [saving EXCEPT ![g] = {}]
    /\ UNCHANGED nSaves

FileNext == \E g \in Gateways :
    \/ \E raw \in Raw : BeginSave(g, raw)
    \/ EndSave(g)
    \/ \E b \in BOOLEAN : GatewayDies(g, b)

FileSpec == FileInit /\ [][FileNext]_fileVars

-----------------------------------------------------------------------------
(* What load_waypoints_file answers is the last document that replaced the *)
(* file, whole and with its meaning: validating, writing, reading and      *)
(* validating again loses nothing and changes nothing.                     *)
WaypointsComeBack == {Means(Parse(y)) : y \in file} = {Means(d) : d \in last}

(* Every index of a loaded profile points at a waypoint of the document.   *)
ProfileStaysInside == \A d \in last : \A p \in d.profile : p.loop \subseteq Points
=============================================================================
