-------------------------- MODULE ComponentLemmas --------------------------
(***************************************************************************)
(* Lemmas about the components of MCComponents that have variables of      *)
(* their own: what surrounds the planner (keepout zones, path policy,      *)
(* navigation snapshot), the records of the gateway and of the evaluation  *)
(* (route library, waypoint file, evaluation matrix), and the battery      *)
(* guard.  Each part has an inductive invariant, that it holds at first,   *)
(* that a step keeps it, and what it is there for; ComponentProofs puts    *)
(* them together.                                                          *)
(***************************************************************************)
EXTENDS BatteryGuard, Repositories, EvaluationMatrix, KeepoutZones, PathPolicy, NavSnapshot,
        FiniteSetTheorems, WellFoundedInduction, TLAPS

-----------------------------------------------------------------------------
(* The route library.  The data that an operation carries from its read to *)
(* its write contains every route of the file, at its revision or later,   *)
(* except the one it deletes: the lock of the file keeps the others out,   *)
(* so the write loses nothing.                                             *)

(* A route as it may stand in the file.                                    *)
GoodRoute(r) ==
    /\ r \in [id : Nat, name : Names, revision : Nat, document : Document]
    /\ r.id < nextId /\ r.document.base = r.revision - 1

(* What an operation leaves for every route it found: the route at its     *)
(* revision or a later one, unless the operation deletes it.               *)
Succeeds(w, r) ==
    \/ \E s \in w.data : s.id = r.id /\ s.revision >= r.revision
    \/ w.op = "delete_route" /\ \E m \in w.mine : m.id = r.id

Busy == [op : {"save_route", "delete_route"}, for : Operators, mine : SUBSET Route,
         name : Names, data : SUBSET Route]

LibraryInv ==
    /\ nextId \in Nat
    /\ routes \subseteq Route /\ copy \in [Operators -> SUBSET Route]
    /\ work \in [Processes -> Busy \union {NoOperation}]
    /\ flock \in Processes \union {NoProcess}
    /\ \A r \in routes : GoodRoute(r)
    /\ Readable(routes)
    /\ \A o \in Operators : \A r, s \in copy[o] : r = s
    /\ \A p \in Processes : work[p] # NoOperation =>
           /\ flock = p
           /\ \A r \in work[p].data : GoodRoute(r)
           /\ Readable(work[p].data)
           /\ \A r \in routes : Succeeds(work[p], r)

LEMMA LibraryInitially == LibraryInit => LibraryInv
BY LibraryAssumption DEF LibraryInit, LibraryInv, Readable, Busy, NoOperation, GoodRoute

(* A new route has an identifier of its own, an edited one the next        *)
(* revision of the route it replaces, the one the operator had open.       *)
LEMMA SavingFits ==
    ASSUME LibraryInv, NEW o \in Operators, NEW name \in Names,
           Admits(routes, "save_route", copy[o], name)
    PROVE  LET s == Saving(routes, copy[o], name, o)
           IN  /\ s \in Route /\ s.name = name
               /\ s.document.base = s.revision - 1
               /\ copy[o] = {} => s.id = nextId
               /\ copy[o] # {} => s.id < nextId
               /\ \A m \in copy[o] : \A r \in routes :
                      r.id = m.id => s.id = r.id /\ s.revision >= r.revision
               /\ \A r \in routes : (\A m \in copy[o] : m.id # r.id) => s.id # r.id
<1> DEFINE mine == copy[o]
           old == {r \in routes : \E m \in mine : m.id = r.id}
           s == Saving(routes, mine, name, o)
<1>0. /\ nextId \in Nat /\ mine \subseteq Route /\ routes \subseteq Route
      /\ \A r \in routes : GoodRoute(r)
      /\ \A a, b \in mine : a = b
BY DEF LibraryInv
<1>r. \A r \in routes : /\ r.id \in Nat /\ r.revision \in Nat
                        /\ r.id < nextId /\ r.document.base = r.revision - 1
BY <1>0 DEF GoodRoute
<1>1. CASE mine = {}
  <2>1. old = {} BY <1>1
  <2>2. s = [id |-> nextId, name |-> name, revision |-> 1,
             document |-> [base |-> 0, by |-> o]]
    BY <1>1, <2>1 DEF Saving
  <2>3. s \in Route BY <2>2, <1>0 DEF Route, Document
  <2>4. /\ s.name = name /\ s.id = nextId /\ s.document.base = 0 /\ s.revision = 1 BY <2>2
  <2> QED BY <1>1, <2>3, <2>4, <1>r
<1>2. CASE mine # {}
  <2>1. PICK m \in mine : TRUE BY <1>2
  <2>2. mine = {m} BY <2>1, <1>0
  <2>3. PICK r \in routes : r.id = m.id /\ r.revision = m.revision
    BY <2>1 DEF Admits
  <2>4. \A q \in routes : q.id = m.id => q = r
    BY <2>3 DEF Admits, Readable
  <2>5. old = {r} BY <2>2, <2>3, <2>4
  <2>6. (CHOOSE q \in old : TRUE) = r /\ (CHOOSE q \in mine : TRUE) = m BY <2>5, <2>2
  <2> HIDE DEF old
  <2>7. s = [id |-> r.id, name |-> name, revision |-> r.revision + 1,
             document |-> [base |-> m.revision, by |-> o]]
    BY <1>2, <2>5, <2>6 DEF Saving, old
  <2>8. r.id \in Nat /\ r.revision \in Nat /\ m.revision \in Nat /\ r.id < nextId
    BY <2>3, <1>r
  <2>9. s \in Route BY <2>7, <2>8 DEF Route, Document
  <2>10. /\ s.name = name /\ s.id = r.id /\ s.document.base = m.revision
         /\ s.revision = r.revision + 1
    BY <2>7
  <2> HIDE DEF s
  <2>11. s.document.base = s.revision - 1 BY <2>10, <2>3, <2>8
  <2>12. \A q \in routes : q.id = m.id => s.id = q.id /\ s.revision >= q.revision
    BY <2>4, <2>10, <2>8
  <2>13. \A q \in routes : m.id # q.id => s.id # q.id BY <2>10, <2>3
  <2> QED BY <1>2, <2>2, <2>8, <2>9, <2>10, <2>11, <2>12, <2>13 DEF s
<1> QED BY <1>1, <1>2

LEMMA ResultFits ==
    ASSUME LibraryInv, NEW o \in Operators, NEW name \in Names,
           NEW op \in {"save_route", "delete_route"},
           Admits(routes, op, copy[o], name)
    PROVE  LET data == Result(routes, op, copy[o], name, o)
           IN  /\ data \subseteq Route
               /\ Readable(data)
               /\ \A r \in data :
                      /\ r.document.base = r.revision - 1
                      /\ r.id < nextId \/ (op = "save_route" /\ copy[o] = {} /\ r.id = nextId)
               /\ \A r \in routes :
                      \/ \E s \in data : s.id = r.id /\ s.revision >= r.revision
                      \/ op = "delete_route" /\ \E m \in copy[o] : m.id = r.id
<1> DEFINE mine == copy[o]
           kept == {r \in routes : \A m \in mine : m.id # r.id}
           s == Saving(routes, mine, name, o)
           data == Result(routes, op, mine, name, o)
<1>0. /\ nextId \in Nat /\ routes \subseteq Route /\ Readable(routes)
      /\ \A r \in routes : r.id \in Nat /\ r.revision \in Nat
      /\ \A r \in routes : r.id < nextId /\ r.document.base = r.revision - 1
BY DEF LibraryInv, GoodRoute
<1>1. CASE op = "delete_route"
  <2>1. data = kept BY <1>1 DEF Result
  <2> HIDE DEF data
  <2>2. data \subseteq routes BY <2>1
  <2>3. \A r \in routes : r \in data \/ \E m \in mine : m.id = r.id BY <2>1
  <2>4. Readable(data) BY <2>2, <1>0 DEF Readable
  <2>5. \A r \in routes : \/ \E q \in data : q.id = r.id /\ q.revision >= r.revision
                          \/ op = "delete_route" /\ \E m \in mine : m.id = r.id
    <3> TAKE r \in routes
    <3>1. r.revision >= r.revision BY <1>0
    <3> QED BY <2>3, <3>1, <1>1
  <2> QED BY <2>2, <2>4, <2>5, <1>0 DEF data
<1>2. CASE op = "save_route"
  <2>1. data = kept \union {s} BY <1>2 DEF Result
  <2>2. /\ s \in Route /\ s.name = name
        /\ s.document.base = s.revision - 1
        /\ mine = {} => s.id = nextId
        /\ mine # {} => s.id < nextId
        /\ \A m \in mine : \A r \in routes :
               r.id = m.id => s.id = r.id /\ s.revision >= r.revision
        /\ \A r \in routes : (\A m \in mine : m.id # r.id) => s.id # r.id
    BY <1>2, SavingFits
  <2>3. \A r \in kept : r.name # name
    BY <1>2 DEF Admits
  <2> HIDE DEF data, s
  <2>4. Readable(data)
    <3> SUFFICES ASSUME NEW q \in data, NEW r \in data, q # r
                 PROVE  q.id # r.id /\ q.name # r.name
      BY DEF Readable
    <3>1. CASE q \in kept /\ r \in kept BY <3>1, <1>0 DEF Readable
    <3>2. CASE q \in kept /\ r = s BY <3>2, <2>2, <2>3
    <3>3. CASE q = s /\ r \in kept BY <3>3, <2>2, <2>3
    <3> QED BY <2>1, <3>1, <3>2, <3>3
  <2>5. \A r \in routes : \E q \in data : q.id = r.id /\ q.revision >= r.revision
    <3> TAKE r \in routes
    <3>1. CASE r \in kept
      <4>1. r.revision >= r.revision BY <1>0
      <4> QED BY <4>1, <3>1, <2>1
    <3>2. CASE r \notin kept
      <4>1. PICK m \in mine : m.id = r.id BY <3>2
      <4> QED BY <4>1, <2>1, <2>2
    <3> QED BY <3>1, <3>2
  <2>6. data \subseteq Route BY <2>1, <2>2, <1>0
  <2>7. \A r \in data : /\ r.document.base = r.revision - 1
                        /\ r.id < nextId \/ (mine = {} /\ r.id = nextId)
    BY <2>1, <2>2, <1>0
  <2> QED BY <1>2, <2>4, <2>5, <2>6, <2>7 DEF data
<1> QED BY <1>1, <1>2

LEMMA LibraryStep ==
    ASSUME LibraryInv, [LibraryNext]_libraryVars
    PROVE  LibraryInv'
<1> USE DEF LibraryInv
<1>1. CASE UNCHANGED libraryVars
BY <1>1 DEF libraryVars, GoodRoute, Readable, Succeeds
<1>2. ASSUME NEW o \in Operators, NEW p \in Processes,
             NEW r \in {{s} : s \in routes} \union {{}}, OpenRoute(o, p, r)
      PROVE  LibraryInv'
  <2>1. /\ copy' = [copy EXCEPT ![o] = r]
        /\ UNCHANGED <<routes, flock, work, nextId>>
    BY <1>2 DEF OpenRoute
  <2>2. r \subseteq Route /\ \A a, b \in r : a = b OBVIOUS
  <2>3. copy' \in [Operators -> SUBSET Route] BY <2>1, <2>2
  <2>4. \A x \in Operators : \A a, b \in copy'[x] : a = b BY <2>1, <2>2
  <2> QED BY <2>1, <2>3, <2>4 DEF GoodRoute, Readable, Succeeds
<1>3. ASSUME NEW o \in Operators, NEW p \in Processes,
             NEW op \in {"save_route", "delete_route"}, NEW n \in Names,
             BeginRouteOp(o, p, op, n)
      PROVE  LibraryInv'
  <2> DEFINE data == Result(routes, op, copy[o], n, o)
             w == [op |-> op, for |-> o, mine |-> copy[o], name |-> n, data |-> data]
  <2>1. /\ Admits(routes, op, copy[o], n) /\ flock = NoProcess
        /\ flock' = p /\ work' = [work EXCEPT ![p] = w]
        /\ nextId' = IF op = "save_route" /\ copy[o] = {} THEN nextId + 1 ELSE nextId
        /\ UNCHANGED <<routes, copy>>
    BY <1>3 DEF BeginRouteOp, MayBegin, MayLock
  <2>2. /\ data \subseteq Route /\ Readable(data)
        /\ \A r \in data :
              /\ r.document.base = r.revision - 1
              /\ r.id < nextId \/ (op = "save_route" /\ copy[o] = {} /\ r.id = nextId)
        /\ \A r \in routes :
              \/ \E s \in data : s.id = r.id /\ s.revision >= r.revision
              \/ op = "delete_route" /\ \E m \in copy[o] : m.id = r.id
    BY <2>1, ResultFits
  <2> HIDE DEF data
  <2>3. copy[o] \subseteq Route OBVIOUS
  <2>4. w \in Busy BY <2>2, <2>3 DEF Busy
  <2>5. /\ w.op = op /\ w.mine = copy[o] /\ w.data = data OBVIOUS
  <2> HIDE DEF w
  <2>6. work' \in [Processes -> Busy \union {NoOperation}] BY <2>1, <2>4
  <2>7. nextId' \in Nat /\ nextId' >= nextId
    BY <2>1
  <2>8. \A r \in routes' : GoodRoute(r)'
    <3> SUFFICES ASSUME NEW r \in routes PROVE GoodRoute(r)' BY <2>1
    <3>1. r.id \in Nat /\ r.id < nextId BY DEF GoodRoute
    <3> QED BY <3>1, <2>7 DEF GoodRoute
  <2>9. \A r \in data : GoodRoute(r)'
    <3> SUFFICES ASSUME NEW r \in data PROVE GoodRoute(r)' OBVIOUS
    <3>1. r \in Route /\ r.id \in Nat BY <2>2 DEF Route
    <3>2. r.id < nextId' BY <3>1, <2>1, <2>2
    <3> QED BY <3>1, <3>2, <2>2 DEF GoodRoute, Route
  <2>10. ASSUME NEW x \in Processes, work'[x] # NoOperation
         PROVE  /\ flock' = x
                /\ \A r \in work'[x].data : GoodRoute(r)'
                /\ Readable(work'[x].data)
                /\ \A r \in routes' : Succeeds(work'[x], r)
    <3>1. x = p BY <2>10, <2>1, LibraryAssumption
    <3>2. work'[x] = w BY <3>1, <2>1
    <3> QED BY <3>1, <3>2, <2>1, <2>2, <2>5, <2>9 DEF Succeeds
  <2>11. Readable(routes') /\ routes' \subseteq Route BY <2>1
  <2>12. copy' \in [Operators -> SUBSET Route] /\ flock' \in Processes \union {NoProcess}
    BY <2>1
  <2>13. \A x \in Operators : \A a, b \in copy'[x] : a = b BY <2>1
  <2>14. \A x \in Processes : work'[x] # NoOperation =>
                /\ flock' = x
                /\ \A r \in work'[x].data : GoodRoute(r)'
                /\ Readable(work'[x].data)
                /\ \A r \in routes' : Succeeds(work'[x], r)
    BY <2>10
  <2> QED BY <2>6, <2>7, <2>8, <2>11, <2>12, <2>13, <2>14 DEF Readable, Succeeds
<1>4. ASSUME NEW p \in Processes, EndRouteOp(p) \/ \E b \in BOOLEAN : ProcessDies(p, b)
      PROVE  LibraryInv'
  <2> DEFINE w == work[p]
  <2>0. work[p] # NoOperation
    BY <1>4 DEF EndRouteOp, ProcessDies, NoOperation
  <2>1. w \in Busy /\ flock = p BY <2>0
  <2>2. /\ w.data \subseteq Route /\ w.mine \subseteq Route /\ w.for \in Operators
        /\ \A r \in w.data : GoodRoute(r)
        /\ Readable(w.data)
    BY <2>0, <2>1 DEF Busy
  <2>3. /\ work' = [work EXCEPT ![p] = NoOperation] /\ flock' = NoProcess /\ nextId' = nextId
        /\ routes' = routes \/ routes' = w.data
    BY <1>4, <2>1 DEF EndRouteOp, ProcessDies
  <2>4. \A x \in Processes : work'[x] = NoOperation
    BY <2>1, <2>3
  <2>5. work' \in [Processes -> Busy \union {NoOperation}] BY <2>3
  <2>6. /\ routes' \subseteq Route /\ Readable(routes')
        /\ \A r \in routes' : GoodRoute(r)'
    BY <2>2, <2>3 DEF GoodRoute
  <2>7. /\ copy' \in [Operators -> SUBSET Route]
        /\ \A x \in Operators : \A a, b \in copy'[x] : a = b
    <3>1. CASE \E b \in BOOLEAN : ProcessDies(p, b)
      BY <3>1 DEF ProcessDies
    <3>2. CASE EndRouteOp(p)
      <4> DEFINE c == IF work[p].op = "delete_route" THEN {}
                      ELSE {r \in work[p].data :
                               r.document.by = work[p].for /\ r.name = work[p].name}
      <4>1. copy' = [copy EXCEPT ![w.for] = c] BY <3>2 DEF EndRouteOp
      <4>2. c \subseteq Route BY <2>2
      <4>3. \A a, b \in c : a = b BY <2>2 DEF Readable
      <4> HIDE DEF c, w
      <4> QED BY <4>1, <4>2, <4>3, <2>2
    <3> QED BY <1>4, <3>1, <3>2
  <2> QED BY <2>3, <2>4, <2>5, <2>6, <2>7 DEF Readable
<1> QED BY <1>1, <1>2, <1>3, <1>4 DEF LibraryNext

LEMMA LibraryKept ==
    ASSUME LibraryInv
    PROVE  NoLostUpdate /\ LibraryStaysReadable
BY DEF LibraryInv, NoLostUpdate, LibraryStaysReadable, GoodRoute

LEMMA LibraryRevisionStep ==
    ASSUME LibraryInv, [LibraryNext]_libraryVars
    PROVE  RevisionStep
<1>0. \A r \in routes : r.revision \in Nat BY DEF LibraryInv, Route
<1>1. CASE routes' = routes BY <1>0, <1>1 DEF RevisionStep
<1>2. ASSUME NEW p \in Processes, work[p] # NoOperation, routes' = work[p].data
      PROVE  RevisionStep
BY <1>2 DEF LibraryInv, RevisionStep, Succeeds
<1>3. \/ routes' = routes
      \/ \E p \in Processes : work[p] # NoOperation /\ routes' = work[p].data
  <2>1. CASE UNCHANGED libraryVars BY <2>1 DEF libraryVars
  <2>2. ASSUME NEW o \in Operators, NEW p \in Processes, NEW r, OpenRoute(o, p, r)
        PROVE  routes' = routes
    BY <2>2 DEF OpenRoute
  <2>3. ASSUME NEW o \in Operators, NEW p \in Processes, NEW op, NEW n, BeginRouteOp(o, p, op, n)
        PROVE  routes' = routes
    BY <2>3 DEF BeginRouteOp
  <2>4. ASSUME NEW p \in Processes, EndRouteOp(p) \/ \E b \in BOOLEAN : ProcessDies(p, b)
        PROVE  \/ routes' = routes
               \/ work[p] # NoOperation /\ routes' = work[p].data
    BY <2>4 DEF EndRouteOp, ProcessDies, NoOperation
  <2> QED BY <2>1, <2>2, <2>3, <2>4 DEF LibraryNext
<1> QED BY <1>1, <1>2, <1>3

-----------------------------------------------------------------------------
(* The waypoint file.  What is parsed from a document that was normalized  *)
(* and written means what the document meant.                              *)

(* A document as normalize_document leaves it.                             *)
NormalPoint == [role : {{}, {"home"}}, actions : {{}, {"empty"}, {"some"}}]
NormalProfile == [home : Points \union {-1}, loop : SUBSET Points]
Normal == [points : [Points -> NormalPoint], profile : SUBSET NormalProfile]

LEMMA Normalized ==
    ASSUME NEW raw \in Raw
    PROVE  NormalizeDocument(raw) \in Normal
<1>1. raw.points \in [Points -> RawPoint] /\ raw.profile \in {{}} \union {{p} : p \in RawProfile}
BY DEF Raw
<1>2. ASSUME NEW i \in Points PROVE NormalizePoint(raw.points[i]) \in NormalPoint
  <2>1. raw.points[i] \in RawPoint BY <1>1
  <2>2. PICK p \in RawPoint : p = raw.points[i] BY <2>1
  <2>3. p.role \ {"normal"} \in {{}, {"home"}} BY DEF RawPoint
  <2>4. [p EXCEPT !.role = p.role \ {"normal"}] \in NormalPoint
    BY <2>3 DEF RawPoint, NormalPoint
  <2> QED BY <2>2, <2>4 DEF NormalizePoint
<1>3. ASSUME NEW p \in raw.profile PROVE NormalizeProfile(p) \in NormalProfile
  <2>1. p \in RawProfile BY <1>1
  <2>2. {p.loop[i] : i \in DOMAIN p.loop} \intersect Points \in SUBSET Points OBVIOUS
  <2>3. (IF p.home \in Points THEN p.home ELSE -1) \in Points \union {-1} OBVIOUS
  <2> QED BY <2>2, <2>3 DEF NormalizeProfile, NormalProfile
<1>4. [i \in Points |-> NormalizePoint(raw.points[i])] \in [Points -> NormalPoint] BY <1>2
<1>5. {NormalizeProfile(p) : p \in raw.profile} \in SUBSET NormalProfile BY <1>3
<1> QED BY <1>4, <1>5 DEF NormalizeDocument, Normal

(* Writing a document, reading it and validating it again.                 *)
LEMMA RoundTrip ==
    ASSUME NEW d \in Normal
    PROVE  Means(Parse(ToYaml(d))) = Means(d)
<1> DEFINE pts == d.points
           prof == d.profile
           roles == [i \in Points |-> pts[i].role]
           acts == [i \in Points |-> pts[i].actions]
           fewer == [i \in Points |-> acts[i] \ {"empty"}]
<1>1. /\ d = [points |-> pts, profile |-> prof] /\ pts \in [Points -> NormalPoint]
      /\ prof \in SUBSET NormalProfile
BY DEF Normal
<1>0. /\ roles \in [Points -> SUBSET {"home"}]
      /\ acts \in [Points -> SUBSET {"empty", "some"}]
      /\ fewer \in [Points -> SUBSET {"empty", "some"}]
BY <1>1 DEF NormalPoint
<1>2. \A i \in Points : /\ pts[i] = [role |-> roles[i], actions |-> acts[i]]
                        /\ roles[i] \in {{}, {"home"}}
BY <1>1 DEF NormalPoint
<1>3. pts = [i \in Points |-> [role |-> roles[i], actions |-> acts[i]]] BY <1>1, <1>2
<1> DEFINE y == ToYaml(d)
<1>4. y = [points |-> [i \in Points |-> [role |-> roles[i], actions |-> fewer[i]]], profile |-> prof]
  <2>1. \A i \in Points : ToYamlPoint(pts[i]) = [role |-> roles[i], actions |-> fewer[i]]
    BY <1>2 DEF ToYamlPoint
  <2>2. y = [points |-> [i \in Points |-> ToYamlPoint(pts[i])], profile |-> prof] BY DEF ToYaml
  <2> HIDE DEF y, pts, roles, fewer
  <2> QED BY <2>1, <2>2
<1>5. Parse(y) = y
  <2>1. /\ y.profile = prof
        /\ \A i \in Points : y.points[i] = [role |-> roles[i], actions |-> fewer[i]]
    <3> HIDE DEF y, pts, prof, roles, fewer
    <3> QED BY <1>4
  <2>2. \A i \in Points : NormalizePoint(y.points[i]) = [role |-> roles[i], actions |-> fewer[i]]
    <3> SUFFICES ASSUME NEW i \in Points
                 PROVE  NormalizePoint(y.points[i]) = [role |-> roles[i], actions |-> fewer[i]]
      OBVIOUS
    <3>1. roles[i] \ {"normal"} = roles[i] BY <1>2
    <3> HIDE DEF y, roles, fewer
    <3> QED BY <2>1, <3>1 DEF NormalizePoint
  <2>3. \A p \in prof : p.home \in Points \union {-1} /\ p.loop \in SUBSET Points
                        /\ p = [home |-> p.home, loop |-> p.loop]
    BY <1>1 DEF NormalProfile
  <2>4. \A p \in prof : [home |-> IF p.home \in Points THEN p.home ELSE -1,
                         loop |-> p.loop \intersect Points] = p
    <3> SUFFICES ASSUME NEW p \in prof
                 PROVE  [home |-> IF p.home \in Points THEN p.home ELSE -1,
                         loop |-> p.loop \intersect Points] = p
      OBVIOUS
    <3>1. (IF p.home \in Points THEN p.home ELSE -1) = p.home BY <2>3
    <3>2. p.loop \intersect Points = p.loop BY <2>3
    <3> QED BY <3>1, <3>2, <2>3
  <2>5. {[home |-> IF p.home \in Points THEN p.home ELSE -1,
          loop |-> p.loop \intersect Points] : p \in y.profile} = prof
    <3> DEFINE again(p) == [home |-> IF p.home \in Points THEN p.home ELSE -1,
                            loop |-> p.loop \intersect Points]
    <3>1. \A p \in prof : again(p) = p BY <2>4
    <3>2. y.profile = prof BY <2>1
    <3> HIDE DEF y, prof, again
    <3>3. {again(p) : p \in y.profile} = prof BY <3>1, <3>2
    <3> QED BY <3>3 DEF again
  <2>6. [i \in Points |-> NormalizePoint(y.points[i])]
          = [i \in Points |-> [role |-> roles[i], actions |-> fewer[i]]]
    BY <2>2
  <2> HIDE DEF y, pts, prof, roles, fewer
  <2> QED BY <1>4, <2>5, <2>6 DEF Parse
<1>6. Means(d) = [points |-> [i \in Points |-> [role |-> roles[i],
                                               actions |-> acts[i] \ {"empty"}]], profile |-> prof]
  <2>1. \A i \in Points : /\ pts[i].role = roles[i]
                          /\ pts[i].actions \ {"empty"} = acts[i] \ {"empty"}
    OBVIOUS
  <2>2. Means(d) = [points |-> [i \in Points |-> [role |-> pts[i].role,
                                                 actions |-> pts[i].actions \ {"empty"}]],
                    profile |-> prof]
    BY DEF Means
  <2> HIDE DEF pts, prof, roles, acts
  <2> QED BY <2>1, <2>2
<1>7. Means(y) = [points |-> [i \in Points |-> [role |-> roles[i],
                                               actions |-> fewer[i] \ {"empty"}]], profile |-> prof]
  <2> HIDE DEF y, prof, roles, fewer
  <2>1. /\ y.profile = prof
        /\ \A i \in Points : y.points[i].role = roles[i] /\ y.points[i].actions = fewer[i]
    BY <1>4
  <2>2. \A i \in Points : [role |-> y.points[i].role, actions |-> y.points[i].actions \ {"empty"}]
                           = [role |-> roles[i], actions |-> fewer[i] \ {"empty"}]
    BY <2>1
  <2>3. [i \in Points |-> [role |-> y.points[i].role, actions |-> y.points[i].actions \ {"empty"}]]
          = [i \in Points |-> [role |-> roles[i], actions |-> fewer[i] \ {"empty"}]]
    BY <2>2
  <2> QED BY <2>1, <2>3 DEF Means
<1>8. \A i \in Points : fewer[i] \ {"empty"} = acts[i] \ {"empty"} OBVIOUS
<1>9. [i \in Points |-> [role |-> roles[i], actions |-> fewer[i] \ {"empty"}]]
        = [i \in Points |-> [role |-> roles[i], actions |-> acts[i] \ {"empty"}]]
  <2> HIDE DEF roles, fewer, acts
  <2> QED BY <1>8
<1> HIDE DEF y, pts, prof, roles, fewer, acts
<1> QED BY <1>5, <1>6, <1>7, <1>9 DEF y

FileInv ==
    /\ saving \in [Gateways -> SUBSET Normal]
    /\ last \subseteq Normal
    /\ file = {ToYaml(d) : d \in last}

LEMMA FileInitially == FileInit => FileInv
BY DEF FileInit, FileInv

LEMMA FileStep ==
    ASSUME FileInv, [FileNext]_fileVars
    PROVE  FileInv'
<1> USE DEF FileInv
<1>1. CASE UNCHANGED fileVars BY <1>1 DEF fileVars
<1>2. ASSUME NEW g \in Gateways, NEW raw \in Raw, BeginSave(g, raw) PROVE FileInv'
  <2>1. NormalizeDocument(raw) \in Normal BY Normalized
  <2>2. /\ saving' = [saving EXCEPT ![g] = {NormalizeDocument(raw)}]
        /\ UNCHANGED <<file, last>>
    BY <1>2 DEF BeginSave
  <2> QED BY <2>1, <2>2
<1>3. ASSUME NEW g \in Gateways, EndSave(g) PROVE FileInv'
  <2>1. PICK d \in saving[g] : /\ file' = {ToYaml(d)} /\ last' = {d}
                               /\ saving' = [saving EXCEPT ![g] = {}]
    BY <1>3 DEF EndSave
  <2>2. d \in Normal BY <2>1
  <2> QED BY <2>1, <2>2
<1>4. ASSUME NEW g \in Gateways, NEW b \in BOOLEAN, GatewayDies(g, b) PROVE FileInv'
  <2>1. PICK d \in saving[g] : /\ file' = IF b THEN {ToYaml(d)} ELSE file
                               /\ last' = IF b THEN {d} ELSE last
                               /\ saving' = [saving EXCEPT ![g] = {}]
    BY <1>4 DEF GatewayDies
  <2>2. d \in Normal BY <2>1
  <2>3. CASE b = TRUE BY <2>1, <2>2, <2>3
  <2>4. CASE b = FALSE BY <2>1, <2>4
  <2> QED BY <2>3, <2>4
<1> QED BY <1>1, <1>2, <1>3, <1>4 DEF FileNext

LEMMA FileComesBack ==
    ASSUME FileInv
    PROVE  WaypointsComeBack /\ ProfileStaysInside
<1>1. \A d \in last : Means(Parse(ToYaml(d))) = Means(d) BY RoundTrip DEF FileInv
<1>2. file = {ToYaml(d) : d \in last} BY DEF FileInv
<1>3. WaypointsComeBack BY <1>1, <1>2 DEF WaypointsComeBack
<1>4. ProfileStaysInside BY DEF FileInv, ProfileStaysInside, Normal, NormalProfile
<1> QED BY <1>3, <1>4

-----------------------------------------------------------------------------
(* The evaluation matrix.  A worker that simulates holds the lock of its   *)
(* domain, and the simulation is its own; what a worker has recorded       *)
(* follows from how its cells ended.                                       *)

LEMMA NatHasMin ==
    ASSUME NEW T \in SUBSET Nat, T # {}
    PROVE  \E x \in T : \A y \in T : x <= y
<1> DEFINE R == {ss \in Nat \X Nat : ss[1] < ss[2]}
<1>1. IsWellFoundedOn(R, Nat)
    BY NatLessThanWellFounded DEF OpToRel
<1> HIDE DEF R
<1>2. PICK x \in T : \A y \in T : ~(<<y, x>> \in R)
    BY <1>1, WFMin
<1>3. \A y \in T : ~(y < x) BY <1>2 DEF R
<1> QED BY <1>3

(* The domains are tried in a circle.                                      *)
LEMMA OffsetIsADomain ==
    ASSUME nextDomain \in Domains, NEW k \in Nat
    PROVE  Offset(k) \in Domains
<1>1. PICK low \in Domains, high \in Domains : Domains = low .. high
BY MatrixAssumption
<1>2. low \in Nat /\ high \in Nat /\ nextDomain \in Nat /\ low <= nextDomain /\ nextDomain <= high
BY <1>1, MatrixAssumption
<1>3. (CHOOSE d \in Domains : \A e \in Domains : d <= e) = low
  <2> DEFINE least == CHOOSE d \in Domains : \A e \in Domains : d <= e
  <2>1. \A e \in Domains : low <= e BY <1>1, <1>2
  <2>2. least \in Domains /\ \A e \in Domains : least <= e BY <2>1
  <2>3. least <= low /\ low <= least BY <2>1, <2>2
  <2> HIDE DEF least
  <2>4. least \in Nat BY <2>2, MatrixAssumption
  <2> QED BY <2>3, <2>4, <1>2 DEF least
<1>4. Cardinality(Domains) = high - low + 1
BY <1>1, <1>2, FS_Interval
<1> DEFINE c == Cardinality(Domains)
           x == nextDomain - low + k
<1>5. c \in Nat /\ c > 0 /\ x \in Nat BY <1>2, <1>4
<1>6. Offset(k) = low + (x % c) BY <1>3 DEF Offset
<1>7. x % c \in 0 .. c - 1
  <2> HIDE DEF x, c
  <2> QED BY <1>5
<1> HIDE DEF x
<1>8. low + (x % c) \in low .. high BY <1>7, <1>4, <1>2
<1> QED BY <1>6, <1>8, <1>1

(* What the allocator selects is a domain nobody holds.                    *)
LEMMA SelectedIsFree ==
    ASSUME nextDomain \in Domains, Free # {}
    PROVE  /\ SelectedDomain \in Domains /\ locks[SelectedDomain] = NoOne
           /\ Offset((CHOOSE k \in Free : \A j \in Free : k <= j) + 1) \in Domains
<1>1. PICK low \in Domains, high \in Domains : Domains = low .. high
BY MatrixAssumption
<1>2. Cardinality(Domains) \in Nat
  <2>1. low \in Nat /\ high \in Nat /\ low <= high BY <1>1, MatrixAssumption
  <2>2. Cardinality(low .. high) = high - low + 1 BY <2>1, FS_Interval
  <2> QED BY <1>1, <2>1, <2>2
<1>3. Free \in SUBSET Nat BY <1>2 DEF Free
<1> DEFINE first == CHOOSE k \in Free : \A j \in Free : k <= j
<1>4. \E k \in Free : \A j \in Free : k <= j BY <1>3, NatHasMin
<1>5. first \in Free BY <1>4
<1> HIDE DEF first
<1>6. first \in Nat /\ first + 1 \in Nat /\ locks[Offset(first)] = NoOne BY <1>3, <1>5 DEF Free
<1>7. Offset(first) \in Domains /\ Offset(first + 1) \in Domains
BY <1>6, OffsetIsADomain
<1> QED BY <1>6, <1>7 DEF SelectedDomain, first

Stages == {"idle", "launch", "wait_ready", "evaluate", "terminate", "unlock"}

MatrixTypes ==
    /\ invocation \in [n : Nat, on : BOOLEAN, rerun : BOOLEAN]
    /\ todo \subseteq Cells
    /\ worker \in [Workers -> [cell : Cells \union {0}, at : Stages, domain : Domains \union {0}]]
    /\ locks \in [Domains -> Workers \union {NoOne, Foreign}]
    /\ nextDomain \in Domains
    /\ sims \subseteq [domain : Domains, owner : Workers \union {NoOne}]
    /\ bundle \in [Cells -> [exists : BOOLEAN, by : Nat]]
    /\ recorded \in [Cells -> Outcomes \union {"none"}]
    /\ exitCode \in {"none", "ok", "failed"}

(* A worker at work holds the lock of its domain, for a cell, in an        *)
(* invocation that runs.                                                   *)
WorkersHoldTheirDomain ==
    \A w \in Workers :
        /\ worker[w].at = "idle" <=> worker[w] = IdleWorker
        /\ worker[w].at # "idle" =>
               /\ invocation.on = TRUE
               /\ worker[w].cell \in Cells /\ worker[w].domain \in Domains
               /\ locks[worker[w].domain] = w

(* The simulation of a living worker is the one it is at work with.        *)
SimsAreOwned ==
    \A s \in sims : s.owner \in Workers =>
        /\ worker[s.owner].domain = s.domain
        /\ worker[s.owner].at \in {"wait_ready", "evaluate", "terminate"}

OutcomesAreEarned ==
    /\ \A c \in Cells : recorded[c] = "passed" => bundle[c].by > 0
    /\ invocation.on = TRUE => invocation.n > 0 /\ exitCode = "none"
    /\ exitCode = "ok" => \A c \in Cells : recorded[c] = "passed"

MatrixInv == MatrixTypes /\ WorkersHoldTheirDomain /\ SimsAreOwned /\ OutcomesAreEarned

LEMMA MatrixInitially == MatrixInit => MatrixInv
<1> SUFFICES ASSUME MatrixInit PROVE MatrixInv OBVIOUS
<1>1. PICK low \in Domains, high \in Domains : Domains = low .. high
BY MatrixAssumption
<1>2. \A e \in Domains : low <= e BY <1>1, MatrixAssumption
<1>3. nextDomain \in Domains BY <1>2 DEF MatrixInit
<1>4. MatrixTypes
BY <1>3 DEF MatrixInit, MatrixTypes, IdleWorker, Stages, Outcomes
<1>5. WorkersHoldTheirDomain BY DEF MatrixInit, WorkersHoldTheirDomain, IdleWorker
<1>6. SimsAreOwned /\ OutcomesAreEarned
BY DEF MatrixInit, SimsAreOwned, OutcomesAreEarned
<1> QED BY <1>4, <1>5, <1>6 DEF MatrixInv

(* A step of a worker from one stage to the next.                          *)
LEMMA StepOf ==
    ASSUME MatrixTypes, NEW w \in Workers, NEW at \in Stages, Step(w, at)
    PROVE  /\ worker' \in [Workers -> [cell : Cells \union {0}, at : Stages,
                                       domain : Domains \union {0}]]
           /\ worker'[w].at = at
           /\ worker'[w].cell = worker[w].cell /\ worker'[w].domain = worker[w].domain
           /\ \A v \in Workers : v # w => worker'[v] = worker[v]
<1> DEFINE next == [worker[w] EXCEPT !.at = at]
<1>1. worker[w] \in [cell : Cells \union {0}, at : Stages, domain : Domains \union {0}]
BY DEF MatrixTypes
<1>2. /\ next \in [cell : Cells \union {0}, at : Stages, domain : Domains \union {0}]
      /\ next.at = at /\ next.cell = worker[w].cell /\ next.domain = worker[w].domain
BY <1>1
<1>3. worker' = [worker EXCEPT ![w] = next] BY DEF Step
<1> HIDE DEF next
<1> QED BY <1>2, <1>3 DEF MatrixTypes

(* The outcome of a trial.                                                 *)
LEMMA FailureBundleOf ==
    ASSUME MatrixTypes, OutcomesAreEarned, NEW c \in Cells, FailureBundle(c)
    PROVE  /\ bundle' \in [Cells -> [exists : BOOLEAN, by : Nat]]
           /\ recorded' \in [Cells -> Outcomes \union {"none"}]
           /\ \A d \in Cells : recorded'[d] = "passed" => bundle'[d].by > 0
BY DEF FailureBundle, MatrixTypes, OutcomesAreEarned, Outcomes

LEMMA RecordsOf ==
    ASSUME MatrixTypes, OutcomesAreEarned, NEW c \in Cells, invocation.on = TRUE,
           NEW ok \in BOOLEAN, NEW wrote \in BOOLEAN, ok => wrote, Records(c, ok, wrote)
    PROVE  /\ bundle' \in [Cells -> [exists : BOOLEAN, by : Nat]]
           /\ recorded' \in [Cells -> Outcomes \union {"none"}]
           /\ \A d \in Cells : recorded'[d] = "passed" => bundle'[d].by > 0
<1>1. CASE wrote \/ bundle[c].exists
  <2> DEFINE b == IF wrote THEN [exists |-> TRUE, by |-> invocation.n] ELSE bundle[c]
             o == IF ok THEN "passed" ELSE "functional_failure"
  <2>0. invocation.n \in Nat /\ invocation.n > 0 BY DEF MatrixTypes, OutcomesAreEarned
  <2>1. bundle' = [bundle EXCEPT ![c] = b] /\ recorded' = [recorded EXCEPT ![c] = o]
    BY <1>1 DEF Records
  <2>2. /\ b \in [exists : BOOLEAN, by : Nat] /\ o \in Outcomes
        /\ o = "passed" => b.by > 0
    BY <2>0 DEF MatrixTypes, Outcomes
  <2> HIDE DEF b, o
  <2> QED BY <2>1, <2>2 DEF MatrixTypes, OutcomesAreEarned
<1>2. CASE ~(wrote \/ bundle[c].exists)
BY <1>2, FailureBundleOf DEF Records
<1> QED BY <1>1, <1>2

(* A worker at work goes on to a stage at which it holds its domain.       *)
LEMMA WorkGoesOn ==
    ASSUME MatrixInv, NEW w \in Workers, worker[w].at # "idle",
           NEW at \in Stages \ {"idle"}, Step(w, at),
           UNCHANGED <<invocation, todo, locks, nextDomain, exitCode>>,
           bundle' \in [Cells -> [exists : BOOLEAN, by : Nat]],
           recorded' \in [Cells -> Outcomes \union {"none"}],
           \A d \in Cells : recorded'[d] = "passed" => bundle'[d].by > 0,
           sims' \subseteq [domain : Domains, owner : Workers \union {NoOne}],
           SimsAreOwned'
    PROVE  MatrixInv'
<1> USE DEF MatrixInv
<1>1. /\ worker' \in [Workers -> [cell : Cells \union {0}, at : Stages,
                                  domain : Domains \union {0}]]
      /\ worker'[w].at = at
      /\ worker'[w].cell = worker[w].cell /\ worker'[w].domain = worker[w].domain
      /\ \A v \in Workers : v # w => worker'[v] = worker[v]
BY StepOf
<1>2. MatrixTypes' BY <1>1 DEF MatrixTypes
<1>3. WorkersHoldTheirDomain'
BY <1>1 DEF WorkersHoldTheirDomain, IdleWorker
<1>4. OutcomesAreEarned'
  <2>1. invocation.on = TRUE /\ exitCode = "none" BY DEF WorkersHoldTheirDomain, OutcomesAreEarned
  <2> QED BY <2>1 DEF OutcomesAreEarned
<1> QED BY <1>2, <1>3, <1>4

LEMMA TakesCellKeeps ==
    ASSUME MatrixInv, NEW w \in Workers, TakesCell(w)
    PROVE  MatrixInv'
<1> DEFINE c == CHOOSE x \in todo : \A y \in todo : x <= y
<1> USE DEF MatrixInv
<1>0. /\ invocation.on /\ worker[w] = IdleWorker /\ worker[w].at = "idle"
      /\ UNCHANGED <<invocation, sims, exitCode>>
      /\ todo' = todo \ {c} /\ todo # {}
BY DEF TakesCell, IdleWorker
<1>c. c \in Cells
  <2>1. todo \in SUBSET Nat /\ todo \subseteq Cells BY MatrixAssumption DEF MatrixTypes
  <2>2. \E x \in todo : \A y \in todo : x <= y BY <1>0, <2>1, NatHasMin
  <2> QED BY <2>1, <2>2
<1>1. CASE Free = {}
  <2>1. /\ FailureBundle(c) /\ UNCHANGED <<locks, nextDomain, worker>>
    BY <1>1 DEF TakesCell
  <2>2. todo' \subseteq Cells BY <1>0 DEF MatrixTypes
  <2>3. /\ bundle' \in [Cells -> [exists : BOOLEAN, by : Nat]]
        /\ recorded' \in [Cells -> Outcomes \union {"none"}]
        /\ \A d \in Cells : recorded'[d] = "passed" => bundle'[d].by > 0
    <3> HIDE DEF c
    <3> QED BY <1>c, <2>1, FailureBundleOf
  <2> HIDE DEF c
  <2>4. MatrixTypes' BY <1>0, <2>1, <2>2, <2>3 DEF MatrixTypes
  <2>5. WorkersHoldTheirDomain' /\ SimsAreOwned'
    BY <1>0, <2>1 DEF WorkersHoldTheirDomain, SimsAreOwned
  <2>6. OutcomesAreEarned'
    <3>1. exitCode = "none" BY <1>0 DEF OutcomesAreEarned, MatrixTypes
    <3> QED BY <1>0, <2>3, <3>1 DEF OutcomesAreEarned
  <2> QED BY <2>4, <2>5, <2>6
<1>2. CASE Free # {}
  <2> DEFINE dom == SelectedDomain
             wk == [cell |-> c, at |-> "launch", domain |-> dom]
  <2>1. /\ locks' = [locks EXCEPT ![dom] = w]
        /\ nextDomain' = Offset((CHOOSE k \in Free : \A j \in Free : k <= j) + 1)
        /\ worker' = [worker EXCEPT ![w] = wk]
        /\ UNCHANGED <<bundle, recorded>>
    BY <1>2 DEF TakesCell
  <2>2. /\ dom \in Domains /\ locks[dom] = NoOne /\ nextDomain' \in Domains
    BY <1>2, <2>1, SelectedIsFree DEF MatrixTypes
  <2> HIDE DEF c, dom
  <2>4. /\ wk \in [cell : Cells \union {0}, at : Stages, domain : Domains \union {0}]
        /\ wk.cell = c /\ wk.at = "launch" /\ wk.domain = dom
    BY <2>2, <1>c DEF Stages
  <2> HIDE DEF wk
  <2>5. MatrixTypes' BY <1>0, <2>1, <2>2, <2>4 DEF MatrixTypes
  <2>6. WorkersHoldTheirDomain'
    <3> SUFFICES ASSUME NEW v \in Workers
                 PROVE  /\ worker'[v].at = "idle" <=> worker'[v] = IdleWorker
                        /\ worker'[v].at # "idle" =>
                               /\ invocation'.on = TRUE
                               /\ worker'[v].cell \in Cells /\ worker'[v].domain \in Domains
                               /\ locks'[worker'[v].domain] = v
      BY DEF WorkersHoldTheirDomain
    <3>1. CASE v = w
      BY <3>1, <2>1, <2>2, <1>c, <2>4, <1>0 DEF MatrixTypes, IdleWorker
    <3>2. CASE v # w
      BY <3>2, <2>1, <2>2, <1>0, MatrixAssumption DEF MatrixTypes, WorkersHoldTheirDomain
    <3> QED BY <3>1, <3>2
  <2>7. SimsAreOwned'
    <3> SUFFICES ASSUME NEW s \in sims, s.owner \in Workers
                 PROVE  /\ worker'[s.owner].domain = s.domain
                        /\ worker'[s.owner].at \in {"wait_ready", "evaluate", "terminate"}
      BY <1>0 DEF SimsAreOwned
    <3>1. s.owner # w BY <1>0 DEF SimsAreOwned
    <3> QED BY <3>1, <2>1 DEF SimsAreOwned, MatrixTypes
  <2>8. OutcomesAreEarned' BY <1>0, <2>1 DEF OutcomesAreEarned
  <2> QED BY <2>5, <2>6, <2>7, <2>8
<1> QED BY <1>1, <1>2

LEMMA WorkerKeeps ==
    ASSUME MatrixInv, NEW w \in Workers,
           Launches(w) \/ WaitsReady(w) \/ Evaluates(w) \/ Terminates(w)
    PROVE  MatrixInv'
<1> USE DEF MatrixInv
<1>0. ASSUME worker[w].at # "idle"
      PROVE  /\ worker[w].cell \in Cells /\ worker[w].domain \in Domains
             /\ invocation.on = TRUE
BY <1>0 DEF WorkersHoldTheirDomain
<1>s. sims \subseteq [domain : Domains, owner : Workers \union {NoOne}] BY DEF MatrixTypes
<1>b. ASSUME UNCHANGED <<bundle, recorded>>
      PROVE  /\ bundle' \in [Cells -> [exists : BOOLEAN, by : Nat]]
             /\ recorded' \in [Cells -> Outcomes \union {"none"}]
             /\ \A d \in Cells : recorded'[d] = "passed" => bundle'[d].by > 0
BY <1>b DEF MatrixTypes, OutcomesAreEarned
(* The simulations of the others stay theirs.                              *)
<1>o. ASSUME NEW at \in Stages, Step(w, at),
             \A s \in sims' : s \in sims \/ (s.owner = w /\ s.domain = worker[w].domain),
             at \in {"wait_ready", "evaluate", "terminate"} \/ (\A s \in sims' : s.owner # w)
      PROVE  SimsAreOwned'
  <2>1. /\ worker'[w].at = at /\ worker'[w].domain = worker[w].domain
        /\ \A v \in Workers : v # w => worker'[v] = worker[v]
    BY <1>o, StepOf
  <2> SUFFICES ASSUME NEW s \in sims', s.owner \in Workers
               PROVE  /\ worker'[s.owner].domain = s.domain
                      /\ worker'[s.owner].at \in {"wait_ready", "evaluate", "terminate"}
    BY DEF SimsAreOwned
  <2>2. CASE s.owner = w
    BY <2>1, <2>2, <1>o DEF SimsAreOwned
  <2>3. CASE s.owner # w
    BY <2>1, <2>3, <1>o DEF SimsAreOwned
  <2> QED BY <2>2, <2>3
<1>1. CASE Launches(w)
  <2>0. /\ worker[w].at = "launch"
        /\ UNCHANGED <<invocation, todo, locks, nextDomain, exitCode>>
    BY <1>1 DEF Launches
  <2>n. \A s \in sims : s.owner # w BY <2>0 DEF SimsAreOwned
  <2>1. CASE /\ sims' = sims \union {[domain |-> worker[w].domain, owner |-> w]}
             /\ Step(w, "wait_ready") /\ UNCHANGED <<bundle, recorded>>
    <3>1. sims' \subseteq [domain : Domains, owner : Workers \union {NoOne}]
      BY <2>0, <2>1, <1>0, <1>s
    <3>2. \A s \in sims' : s \in sims \/ (s.owner = w /\ s.domain = worker[w].domain)
      BY <2>1
    <3>3. "wait_ready" \in Stages \ {"idle"} BY DEF Stages
    <3>4. SimsAreOwned' BY <2>1, <3>2, <3>3, <1>o
    <3> QED BY <2>0, <2>1, <3>1, <3>3, <3>4, <1>b, WorkGoesOn
  <2>2. CASE FailureBundle(worker[w].cell) /\ Step(w, "unlock") /\ UNCHANGED sims
    <3>3. "unlock" \in Stages \ {"idle"} BY DEF Stages
    <3>4. SimsAreOwned' BY <2>2, <2>n, <3>3, <1>o
    <3>5. /\ bundle' \in [Cells -> [exists : BOOLEAN, by : Nat]]
          /\ recorded' \in [Cells -> Outcomes \union {"none"}]
          /\ \A d \in Cells : recorded'[d] = "passed" => bundle'[d].by > 0
      BY <2>0, <2>2, <1>0, FailureBundleOf
    <3> QED BY <2>0, <2>2, <3>3, <3>4, <3>5, <1>s, WorkGoesOn
  <2> QED BY <1>1, <2>1, <2>2 DEF Launches
<1>2. CASE WaitsReady(w)
  <2>0. /\ worker[w].at = "wait_ready"
        /\ UNCHANGED <<invocation, todo, locks, nextDomain, sims, exitCode>>
    BY <1>2 DEF WaitsReady
  <2>3. "evaluate" \in Stages \ {"idle"} /\ "terminate" \in Stages \ {"idle"} BY DEF Stages
  <2>1. CASE Step(w, "evaluate") /\ UNCHANGED <<bundle, recorded>>
    <3>4. SimsAreOwned' BY <2>0, <2>1, <2>3, <1>o
    <3> QED BY <2>0, <2>1, <2>3, <3>4, <1>s, <1>b, WorkGoesOn
  <2>2. CASE FailureBundle(worker[w].cell) /\ Step(w, "terminate")
    <3>4. SimsAreOwned' BY <2>0, <2>2, <2>3, <1>o
    <3>5. /\ bundle' \in [Cells -> [exists : BOOLEAN, by : Nat]]
          /\ recorded' \in [Cells -> Outcomes \union {"none"}]
          /\ \A d \in Cells : recorded'[d] = "passed" => bundle'[d].by > 0
      BY <2>0, <2>2, <1>0, FailureBundleOf
    <3> QED BY <2>0, <2>2, <2>3, <3>4, <3>5, <1>s, WorkGoesOn
  <2> QED BY <1>2, <2>1, <2>2 DEF WaitsReady
<1>3. CASE Evaluates(w)
  <2>0. /\ worker[w].at = "evaluate" /\ Step(w, "terminate")
        /\ UNCHANGED <<invocation, todo, locks, nextDomain, sims, exitCode>>
    BY <1>3 DEF Evaluates
  <2>1. PICK ok \in BOOLEAN, wrote \in BOOLEAN :
            (ok => wrote) /\ Records(worker[w].cell, ok, wrote)
    BY <1>3 DEF Evaluates
  <2>2. worker[w].cell \in Cells /\ invocation.on = TRUE BY <2>0, <1>0
  <2>3. "terminate" \in Stages \ {"idle"} BY DEF Stages
  <2>4. SimsAreOwned' BY <2>0, <2>3, <1>o
  <2>5. /\ bundle' \in [Cells -> [exists : BOOLEAN, by : Nat]]
        /\ recorded' \in [Cells -> Outcomes \union {"none"}]
        /\ \A d \in Cells : recorded'[d] = "passed" => bundle'[d].by > 0
    BY <2>1, <2>2, RecordsOf
  <2> QED BY <2>0, <2>3, <2>4, <2>5, <1>s, WorkGoesOn
<1>4. CASE Terminates(w)
  <2>0. /\ worker[w].at = "terminate" /\ Step(w, "unlock")
        /\ sims' = sims \ {[domain |-> worker[w].domain, owner |-> w]}
        /\ UNCHANGED <<invocation, todo, locks, nextDomain, bundle, recorded, exitCode>>
    BY <1>4 DEF Terminates
  <2>1. \A s \in sims' : s.owner # w
    <3> SUFFICES ASSUME NEW s \in sims, s.owner = w
                 PROVE  s = [domain |-> worker[w].domain, owner |-> w]
      BY <2>0
    <3>1. s.domain = worker[w].domain BY DEF SimsAreOwned
    <3> QED BY <3>1, <1>s
  <2>3. "unlock" \in Stages \ {"idle"} BY DEF Stages
  <2>4. SimsAreOwned' BY <2>0, <2>1, <2>3, <1>o
  <2>5. sims' \subseteq [domain : Domains, owner : Workers \union {NoOne}] BY <2>0, <1>s
  <2> QED BY <2>0, <2>3, <2>4, <2>5, <1>b, WorkGoesOn
<1> QED BY <1>1, <1>2, <1>3, <1>4

LEMMA UnlocksKeeps ==
    ASSUME MatrixInv, NEW w \in Workers, Unlocks(w)
    PROVE  MatrixInv'
<1> USE DEF MatrixInv
<1>1. /\ worker[w].at = "unlock"
      /\ locks' = [locks EXCEPT ![worker[w].domain] = NoOne]
      /\ worker' = [worker EXCEPT ![w] = IdleWorker]
      /\ UNCHANGED <<invocation, todo, nextDomain, sims, bundle, recorded, exitCode>>
BY DEF Unlocks
<1>2. worker[w].domain \in Domains /\ locks[worker[w].domain] = w
BY <1>1 DEF WorkersHoldTheirDomain
<1>3. IdleWorker \in [cell : Cells \union {0}, at : Stages, domain : Domains \union {0}]
      /\ IdleWorker.at = "idle"
BY DEF IdleWorker, Stages
<1>4. MatrixTypes' BY <1>1, <1>3 DEF MatrixTypes
<1>5. WorkersHoldTheirDomain'
  <2> SUFFICES ASSUME NEW v \in Workers
               PROVE  /\ worker'[v].at = "idle" <=> worker'[v] = IdleWorker
                      /\ worker'[v].at # "idle" =>
                             /\ invocation'.on = TRUE
                             /\ worker'[v].cell \in Cells /\ worker'[v].domain \in Domains
                             /\ locks'[worker'[v].domain] = v
    BY DEF WorkersHoldTheirDomain
  <2>1. CASE v = w BY <2>1, <1>1, <1>3 DEF MatrixTypes
  <2>2. CASE v # w BY <2>2, <1>1, <1>2 DEF MatrixTypes, WorkersHoldTheirDomain
  <2> QED BY <2>1, <2>2
<1>6. SimsAreOwned'
  <2>1. \A s \in sims : s.owner \in Workers => s.owner # w BY <1>1 DEF SimsAreOwned
  <2> QED BY <2>1, <1>1 DEF SimsAreOwned, MatrixTypes
<1>7. OutcomesAreEarned' BY <1>1 DEF OutcomesAreEarned
<1> QED BY <1>4, <1>5, <1>6, <1>7

LEMMA WorkerDiesKeeps ==
    ASSUME MatrixInv, NEW w \in Workers, WorkerDies(w)
    PROVE  MatrixInv'
<1> USE DEF MatrixInv
<1> DEFINE failing == todo \union {worker[v].cell : v \in {x \in Workers : worker[x] # IdleWorker}}
<1>1. /\ worker[w].at # "idle"
      /\ bundle' = [c \in Cells |-> IF c \in failing THEN [exists |-> TRUE, by |-> 0] ELSE bundle[c]]
      /\ recorded' = [c \in Cells |-> IF c \in failing THEN "setup_failure" ELSE recorded[c]]
      /\ locks' = [d \in Domains |-> IF locks[d] \in Workers THEN NoOne ELSE locks[d]]
      /\ sims' = {[s EXCEPT !.owner = NoOne] : s \in sims}
      /\ worker' = [v \in Workers |-> IdleWorker] /\ todo' = {}
      /\ UNCHANGED <<invocation, nextDomain, exitCode>>
BY DEF WorkerDies
<1> HIDE DEF failing
<1>2. IdleWorker \in [cell : Cells \union {0}, at : Stages, domain : Domains \union {0}]
      /\ IdleWorker.at = "idle"
BY DEF IdleWorker, Stages
<1>3. \A s \in sims' : s \in [domain : Domains, owner : {NoOne}]
  <2> SUFFICES ASSUME NEW s \in sims
               PROVE  [s EXCEPT !.owner = NoOne] \in [domain : Domains, owner : {NoOne}]
    BY <1>1
  <2>1. s \in [domain : Domains, owner : Workers \union {NoOne}] BY DEF MatrixTypes
  <2> QED BY <2>1
<1>3a. sims' \subseteq [domain : Domains, owner : Workers \union {NoOne}] BY <1>3
<1>4. /\ bundle' \in [Cells -> [exists : BOOLEAN, by : Nat]]
      /\ recorded' \in [Cells -> Outcomes \union {"none"}]
      /\ \A d \in Cells : recorded'[d] = "passed" => bundle'[d].by > 0
BY <1>1 DEF MatrixTypes, OutcomesAreEarned, Outcomes
<1>5. MatrixTypes' BY <1>1, <1>2, <1>3a, <1>4 DEF MatrixTypes
<1>6. WorkersHoldTheirDomain' BY <1>1, <1>2 DEF WorkersHoldTheirDomain
<1>7. SimsAreOwned' BY <1>3, MatrixAssumption DEF SimsAreOwned
<1>8. OutcomesAreEarned'
  <2>1. invocation.on = TRUE /\ exitCode = "none"
    BY <1>1 DEF WorkersHoldTheirDomain, OutcomesAreEarned
  <2> QED BY <2>1, <1>1, <1>4 DEF OutcomesAreEarned
<1> QED BY <1>5, <1>6, <1>7, <1>8

LEMMA MainKeeps ==
    ASSUME MatrixInv,
           Finishes \/ (\E r \in BOOLEAN : Invokes(r)) \/ (\E d \in Domains : ForeignLocks(d))
    PROVE  MatrixInv'
<1> USE DEF MatrixInv
<1>1. CASE Finishes
  <2>1. /\ invocation.on /\ todo = {} /\ \A w \in Workers : worker[w] = IdleWorker
        /\ invocation' = [invocation EXCEPT !.on = FALSE]
        /\ exitCode' = MatrixExitCode
        /\ UNCHANGED <<todo, worker, locks, nextDomain, sims, bundle, recorded>>
    BY <1>1 DEF Finishes
  <2>2. invocation' \in [n : Nat, on : BOOLEAN, rerun : BOOLEAN] /\ invocation'.on = FALSE
    BY <2>1 DEF MatrixTypes
  <2>3. exitCode' \in {"ok", "failed"}
        /\ (exitCode' = "ok" => \A c \in Cells : recorded[c] = "passed")
    BY <2>1 DEF MatrixExitCode, TrialResult, MatrixTypes, Outcomes
  <2>4. MatrixTypes' BY <2>1, <2>2, <2>3 DEF MatrixTypes
  <2>5. WorkersHoldTheirDomain' BY <2>1 DEF WorkersHoldTheirDomain, IdleWorker
  <2>6. SimsAreOwned' BY <2>1 DEF SimsAreOwned
  <2>7. OutcomesAreEarned' BY <2>1, <2>2, <2>3 DEF OutcomesAreEarned
  <2> QED BY <2>4, <2>5, <2>6, <2>7
<1>2. ASSUME NEW r \in BOOLEAN, Invokes(r) PROVE MatrixInv'
  <2>1. /\ \A w \in Workers : worker[w] = IdleWorker
        /\ invocation' = [n |-> invocation.n + 1, on |-> TRUE, rerun |-> r]
        /\ exitCode' = "none"
        /\ UNCHANGED <<worker, locks, nextDomain, sims, bundle, recorded>>
    BY <1>2 DEF Invokes
  <2>2. /\ invocation' \in [n : Nat, on : BOOLEAN, rerun : BOOLEAN] /\ invocation'.on = TRUE
        /\ invocation'.n > 0
    BY <2>1 DEF MatrixTypes
  <2>3. todo' \subseteq Cells BY <1>2 DEF Invokes
  <2>4. MatrixTypes' BY <2>1, <2>2, <2>3 DEF MatrixTypes
  <2>5. WorkersHoldTheirDomain' BY <2>1 DEF WorkersHoldTheirDomain, IdleWorker
  <2>6. SimsAreOwned' BY <2>1 DEF SimsAreOwned
  <2>7. OutcomesAreEarned' BY <2>1, <2>2 DEF OutcomesAreEarned
  <2> QED BY <2>4, <2>5, <2>6, <2>7
<1>3. ASSUME NEW d \in Domains, ForeignLocks(d) PROVE MatrixInv'
  <2>1. /\ locks[d] \notin Workers
        /\ locks' = [locks EXCEPT ![d] = Foreign] \/ locks' = [locks EXCEPT ![d] = NoOne]
        /\ UNCHANGED <<invocation, todo, worker, nextDomain, sims, bundle, recorded, exitCode>>
    BY <1>3, MatrixAssumption DEF ForeignLocks
  <2>2. MatrixTypes' BY <2>1 DEF MatrixTypes
  <2>3. WorkersHoldTheirDomain' BY <2>1 DEF WorkersHoldTheirDomain, MatrixTypes
  <2>4. SimsAreOwned' /\ OutcomesAreEarned' BY <2>1 DEF SimsAreOwned, OutcomesAreEarned
  <2> QED BY <2>2, <2>3, <2>4
<1> QED BY <1>1, <1>2, <1>3

LEMMA MatrixStep ==
    ASSUME MatrixInv, [MatrixNext]_matrixVars
    PROVE  MatrixInv'
<1>1. CASE UNCHANGED matrixVars
  <2>1. MatrixTypes' BY <1>1 DEF matrixVars, MatrixInv, MatrixTypes
  <2>2. WorkersHoldTheirDomain' /\ SimsAreOwned' /\ OutcomesAreEarned'
    BY <1>1 DEF matrixVars, MatrixInv, WorkersHoldTheirDomain, SimsAreOwned, OutcomesAreEarned
  <2> QED BY <2>1, <2>2 DEF MatrixInv
<1>2. CASE Finishes \/ (\E r \in BOOLEAN : Invokes(r)) \/ (\E d \in Domains : ForeignLocks(d))
BY <1>2, MainKeeps
<1>3. ASSUME NEW w \in Workers, TakesCell(w) PROVE MatrixInv' BY <1>3, TakesCellKeeps
<1>4. ASSUME NEW w \in Workers, Launches(w) \/ WaitsReady(w) \/ Evaluates(w) \/ Terminates(w)
      PROVE MatrixInv'
BY <1>4, WorkerKeeps
<1>5. ASSUME NEW w \in Workers, Unlocks(w) PROVE MatrixInv' BY <1>5, UnlocksKeeps
<1>6. ASSUME NEW w \in Workers, WorkerDies(w) PROVE MatrixInv' BY <1>6, WorkerDiesKeeps
<1> QED BY <1>1, <1>2, <1>3, <1>4, <1>5, <1>6 DEF MatrixNext

LEMMA MatrixKept ==
    ASSUME MatrixInv
    PROVE  DomainsAreExclusive /\ GoodExitIsEarned
<1> USE DEF MatrixInv
<1>1. ASSUME NEW s \in sims, s.owner \in Workers
      PROVE  locks[s.domain] = s.owner
BY <1>1 DEF SimsAreOwned, WorkersHoldTheirDomain
<1>2. ASSUME NEW s \in sims, s.owner \in Workers,
             NEW t \in sims, t.owner \in Workers, t.domain = s.domain
      PROVE  t = s
  <2>1. t.owner = s.owner BY <1>1, <1>2
  <2>2. /\ s \in [domain : Domains, owner : Workers \union {NoOne}]
        /\ t \in [domain : Domains, owner : Workers \union {NoOne}]
    BY DEF MatrixTypes
  <2> QED BY <2>1, <2>2, <1>2
<1>3. DomainsAreExclusive BY <1>1, <1>2 DEF DomainsAreExclusive
<1>4. GoodExitIsEarned BY DEF GoodExitIsEarned, OutcomesAreEarned
<1> QED BY <1>3, <1>4

-----------------------------------------------------------------------------
(* Keepout zones, from the file to the master costmap.  Whenever no        *)
(* request is between its save and its publication, the live document is   *)
(* the one on disk and the one the layer has or is about to get; what the  *)
(* master costmap holds was painted in the last cycle and is reset in the  *)
(* next one.                                                               *)

(* zones_manager and its file: the shape of their records, and when the    *)
(* document that is live, or that is about to be, is the one on disk.      *)
ManagerShape ==
    /\ manager = [pc |-> manager.pc, doc |-> manager.doc, ready |-> manager.ready,
                  rev |-> manager.rev, cand |-> manager.cand, persist |-> manager.persist]
    /\ manager.pc \in {"boot", "idle", "project", "persist", "activate", "publish"}
    /\ manager.ready \in BOOLEAN /\ manager.persist \in BOOLEAN /\ manager.rev \in Nat
    /\ zoneFile.st \in {"missing", "invalid", "valid"}
    /\ zoneFile.st = "missing" => zoneFile = NoZoneFile

OnDisk(doc) == zoneFile.st \in {"valid", "invalid"} /\ doc = zoneFile.doc

LiveIsOnDisk ==
    /\ manager.pc = "boot" => ~manager.ready
    /\ manager.ready /\ manager.pc \in {"idle", "project", "persist"} => OnDisk(manager.doc)
    /\ manager.pc = "project" /\ ~manager.persist => OnDisk(manager.cand)
    /\ manager.pc = "activate" => OnDisk(manager.cand)
    /\ manager.pc = "publish" => manager.ready /\ manager.rev > 0 /\ OnDisk(manager.doc)

(* The layer: what the master costmap holds was rendered in the last       *)
(* cycle, and lies in the dirty region while a cycle is under way.         *)
LayerShape ==
    /\ layer = [pc |-> layer.pc, current |-> layer.current, previous |-> layer.previous,
                rendered |-> layer.rendered, cycle |-> layer.cycle, ok |-> layer.ok,
                read |-> layer.read, dirty |-> layer.dirty]
    /\ layer.pc \in {"idle", "bounds", "costs", "failed"}

MasterIsRendered ==
    /\ layer.cycle = layer.rendered
    /\ layer.pc # "costs" => master \subseteq layer.rendered
    /\ layer.pc = "bounds" => layer.rendered \subseteq layer.dirty
    /\ layer.pc = "costs" => /\ layer.cycle = layer.read /\ layer.ok = TRUE
                             /\ master \subseteq layer.dirty
    /\ layer.pc \in {"bounds", "costs"} => layer.read \subseteq layer.dirty

(* What the layer has, or is about to get, is the live document.           *)
LayerHasTheLive ==
    manager.ready /\ manager.pc # "publish" =>
        IF mail = NoKeepouts THEN layer.current = manager.doc.on ELSE mail.zones = manager.doc.on

ZonesInv ==
    ManagerShape /\ LiveIsOnDisk /\ LayerShape /\ MasterIsRendered /\ LayerHasTheLive
    /\ NoGhostKeepouts

LEMMA ZonesInitially == ZonesInit => ZonesInv
BY DEF ZonesInit, ZonesInv, ManagerShape, LiveIsOnDisk, OnDisk, LayerShape, MasterIsRendered,
       LayerHasTheLive, NoGhostKeepouts, Booting, NoZoneFile, Saved, NoKeepouts, EMPTY_GEOJSON

LEMMA ManagerStep ==
    ASSUME ManagerShape, LiveIsOnDisk,
           \/ LoadInitialState \/ Reload \/ \E d \in Documents : SetGeojson(d)
           \/ \E ok \in BOOLEAN : Project(ok) \/ PersistDocument(ok)
           \/ ActivateDocument \/ PublishProjectedState \/ ZonesManagerCrashes
    PROVE  ManagerShape' /\ LiveIsOnDisk'
<1> USE DEF ManagerShape, LiveIsOnDisk, OnDisk
<1>1. CASE LoadInitialState BY <1>1 DEF LoadInitialState, NoZoneFile
<1>2. CASE Reload BY <1>2 DEF Reload
<1>3. CASE \E d \in Documents : SetGeojson(d) BY <1>3 DEF SetGeojson
<1>4. ASSUME NEW ok \in BOOLEAN, Project(ok) PROVE ManagerShape' /\ LiveIsOnDisk'
  BY <1>4 DEF Project
<1>5. ASSUME NEW ok \in BOOLEAN, PersistDocument(ok) PROVE ManagerShape' /\ LiveIsOnDisk'
  BY <1>5 DEF PersistDocument, Saved
<1>6. CASE ActivateDocument
  <2> DEFINE next == manager.rev + 1
  <2>1. next \in Nat /\ next > 0 OBVIOUS
  <2>2. manager' = [manager EXCEPT !.pc = "publish", !.doc = manager.cand, !.ready = TRUE,
                                   !.rev = next]
    BY <1>6 DEF ActivateDocument
  <2> HIDE DEF next
  <2>3. manager' = [pc |-> "publish", doc |-> manager.cand, ready |-> TRUE, rev |-> next,
                    cand |-> manager.cand, persist |-> manager.persist]
        /\ UNCHANGED zoneFile
    BY <1>6, <2>2 DEF ActivateDocument
  <2>4. ManagerShape' BY <2>1, <2>3
  <2>5. OnDisk(manager.cand) BY <1>6 DEF ActivateDocument
  <2>6. zoneFile' = zoneFile BY <1>6 DEF ActivateDocument
  <2>7. LiveIsOnDisk' BY <2>1, <2>3, <2>5, <2>6
  <2> QED BY <2>4, <2>7
<1>7. CASE PublishProjectedState BY <1>7 DEF PublishProjectedState
<1>8. CASE ZonesManagerCrashes BY <1>8 DEF ZonesManagerCrashes, Booting
<1> QED BY <1>1, <1>2, <1>3, <1>4, <1>5, <1>6, <1>7, <1>8

LEMMA DeliveryStep ==
    ASSUME ManagerShape, LiveIsOnDisk, LayerHasTheLive, NoGhostKeepouts,
           \/ LoadInitialState \/ Reload \/ \E d \in Documents : SetGeojson(d)
           \/ \E ok \in BOOLEAN : Project(ok) \/ PersistDocument(ok)
           \/ ActivateDocument \/ PublishProjectedState \/ ZonesManagerCrashes
    PROVE  LayerHasTheLive' /\ NoGhostKeepouts'
<1> USE DEF ManagerShape, LiveIsOnDisk, LayerHasTheLive, NoGhostKeepouts
<1>1. CASE LoadInitialState BY <1>1 DEF LoadInitialState
<1>2. CASE Reload BY <1>2 DEF Reload
<1>3. ASSUME NEW d \in Documents, SetGeojson(d) PROVE LayerHasTheLive' /\ NoGhostKeepouts'
  <2>1. /\ manager'.doc = manager.doc /\ manager'.ready = manager.ready
        /\ manager.pc # "publish" /\ UNCHANGED <<mail, layer, master, odom, settled>>
    BY <1>3 DEF SetGeojson
  <2> QED BY <2>1
<1>4. ASSUME NEW ok \in BOOLEAN, Project(ok) PROVE LayerHasTheLive' /\ NoGhostKeepouts'
  BY <1>4 DEF Project
<1>5. ASSUME NEW ok \in BOOLEAN, PersistDocument(ok)
      PROVE LayerHasTheLive' /\ NoGhostKeepouts'
  BY <1>5 DEF PersistDocument
<1>6. CASE ActivateDocument BY <1>6 DEF ActivateDocument
<1>7. CASE PublishProjectedState BY <1>7 DEF PublishProjectedState, NoKeepouts
<1>8. CASE ZonesManagerCrashes BY <1>8 DEF ZonesManagerCrashes, Booting
<1> QED BY <1>1, <1>2, <1>3, <1>4, <1>5, <1>6, <1>7, <1>8

LEMMA LayerStep ==
    ASSUME LayerShape, MasterIsRendered, LayerHasTheLive, NoGhostKeepouts,
           \/ StateCallback \/ StoreRendered \/ UpdateCosts \/ ResetLayer
           \/ \E other \in {{}, AllZones \X Transforms}, found \in BOOLEAN :
                UpdateBounds(other, found)
           \/ \E t \in Transforms : TransformMoves(t)
    PROVE  LayerShape' /\ MasterIsRendered' /\ LayerHasTheLive' /\ NoGhostKeepouts'
<1> DEFINE Goal == LayerShape' /\ MasterIsRendered' /\ LayerHasTheLive' /\ NoGhostKeepouts'
<1> USE DEF LayerShape, MasterIsRendered, LayerHasTheLive, NoGhostKeepouts
<1>1. CASE StateCallback BY <1>1 DEF StateCallback
<1>2. CASE StoreRendered BY <1>2 DEF StoreRendered
<1>3. CASE UpdateCosts BY <1>3 DEF UpdateCosts, ZoneCells
<1>4. CASE ResetLayer BY <1>4 DEF ResetLayer
<1>5. ASSUME NEW other \in {{}, AllZones \X Transforms}, NEW found \in BOOLEAN,
             UpdateBounds(other, found)
      PROVE  Goal
  <2>1. CASE found = TRUE
    BY <1>5, <2>1 DEF UpdateBounds, Dirty, ZoneCells
  <2>2. CASE found = FALSE BY <1>5, <2>2 DEF UpdateBounds
  <2> QED BY <2>1, <2>2
<1>6. CASE \E t \in Transforms : TransformMoves(t) BY <1>6 DEF TransformMoves
<1> QED BY <1>1, <1>2, <1>3, <1>4, <1>5, <1>6

LEMMA ZonesStep == ZonesInv /\ [ZonesNext]_zoneVars => ZonesInv'
<1> SUFFICES ASSUME ZonesInv, [ZonesNext]_zoneVars PROVE ZonesInv'
    OBVIOUS
<1> USE DEF ZonesInv
<1>1. CASE \/ LoadInitialState \/ Reload \/ \E d \in Documents : SetGeojson(d)
           \/ \E ok \in BOOLEAN : Project(ok) \/ PersistDocument(ok)
           \/ ActivateDocument \/ PublishProjectedState \/ ZonesManagerCrashes
  <2>1. ManagerShape' /\ LiveIsOnDisk' BY <1>1, ManagerStep
  <2>2. LayerHasTheLive' /\ NoGhostKeepouts' BY <1>1, DeliveryStep
  <2>3. UNCHANGED <<layer, master>>
    BY <1>1 DEF LoadInitialState, Reload, SetGeojson, Project, PersistDocument,
                ActivateDocument, PublishProjectedState, ZonesManagerCrashes
  <2>4. LayerShape' /\ MasterIsRendered' BY <2>3 DEF LayerShape, MasterIsRendered
  <2> QED BY <2>1, <2>2, <2>4
<1>2. CASE \/ StateCallback \/ StoreRendered \/ UpdateCosts \/ ResetLayer
           \/ \E other \in {{}, AllZones \X Transforms}, found \in BOOLEAN :
                UpdateBounds(other, found)
           \/ \E t \in Transforms : TransformMoves(t)
  <2>1. LayerShape' /\ MasterIsRendered' /\ LayerHasTheLive' /\ NoGhostKeepouts'
    BY <1>2, LayerStep
  <2>2. UNCHANGED <<manager, zoneFile>>
    BY <1>2 DEF StateCallback, StoreRendered, UpdateCosts, ResetLayer, UpdateBounds,
                TransformMoves
  <2>3. ManagerShape' /\ LiveIsOnDisk' BY <2>2 DEF ManagerShape, LiveIsOnDisk, OnDisk
  <2> QED BY <2>1, <2>3
<1>3. CASE UNCHANGED zoneVars
  BY <1>3 DEF zoneVars, ManagerShape, LiveIsOnDisk, OnDisk, LayerShape, MasterIsRendered,
              LayerHasTheLive, NoGhostKeepouts
<1> QED BY <1>1, <1>2, <1>3 DEF ZonesNext

LEMMA KeepoutsHold == ZonesInv => LiveIsSaved /\ NoGhostKeepouts
BY DEF ZonesInv, LiveIsOnDisk, OnDisk, LiveIsSaved

-----------------------------------------------------------------------------
(* The path policy.  Its observation of a far obstacle never claims more   *)
(* time or more costmaps than the run of evaluations that all saw one.     *)

(* An observation of a far obstacle, with its place left open.             *)
FarShape(far) ==
    /\ far = [seen |-> far.seen, age |-> far.age, counted |-> far.counted,
              count |-> far.count, place |-> far.place]
    /\ far.seen \in BOOLEAN /\ far.counted \in BOOLEAN
    /\ far.age \in Nat /\ far.count \in 0 .. 2

PolicyShape(p) ==
    p = [path |-> p.path, best |-> p.best, stalled |-> p.stalled, cross |-> p.cross,
         replan |-> p.replan, far |-> p.far, keepout |-> p.keepout]

PathShape ==
    /\ PolicyIsValid
    /\ PolicyShape(policy)
    /\ FarShape(policy.far)
    /\ track = [path |-> track.path, progress |-> track.progress] /\ track.path \in PathIds
    /\ farRun \in [path : 0 .. 2, age : Nat, maps : 0 .. 2, fresh : BOOLEAN]

(* What the policy has observed lies within the run of sightings: its age  *)
(* and its costmaps are of evaluations of this path that all saw one.      *)
FarIsInTheRun ==
    /\ policy.far.seen = TRUE =>
          /\ farRun.path = policy.path /\ farRun.path # 0
          /\ policy.far.age <= farRun.age /\ policy.far.count <= farRun.maps
          /\ policy.far.counted = FALSE => farRun.fresh = TRUE
    /\ farRun.path # 0 => farRun.maps > 0

PersistentIsEarned ==
    verdict.reason = "persistent" =>
        farRun.maps >= 2 /\ farRun.age >= FarPersistence /\ farRun.path # 0

PathInv == PathShape /\ FarIsInTheRun /\ PersistentIsEarned

LEMMA NoFarShape == FarShape(NoFar) /\ NoFar.seen = FALSE
BY DEF FarShape, NoFar

LEMMA PathInitially == PathInit => PathInv
<1> SUFFICES ASSUME PathInit PROVE PathInv
    OBVIOUS
<1>1. PathShape
  BY NoFarShape DEF PathInit, PathShape, PolicyShape, PathIds, NoRun
<1>2. FarIsInTheRun BY NoFarShape DEF PathInit, FarIsInTheRun, NoRun
<1>3. PersistentIsEarned BY DEF PathInit, PersistentIsEarned
<1> QED BY <1>1, <1>2, <1>3 DEF PathInv

(* A far obstacle is seen: the observation goes on, or begins with one     *)
(* costmap and no age.                                                     *)
LEMMA Observed ==
    ASSUME NEW far, FarShape(far)
    PROVE  /\ FarShape(FarObserved(far))
           /\ FarObserved(far).seen = TRUE /\ FarObserved(far).counted = TRUE
           /\ \/ FarObserved(far).age = 0 /\ FarObserved(far).count = 1
              \/ /\ far.seen = TRUE /\ FarObserved(far).age = far.age
                 /\ far.counted = TRUE => FarObserved(far).count = far.count
                 /\ far.counted = FALSE =>
                       FarObserved(far).count = IF far.count < 2 THEN far.count + 1 ELSE 2
<1> DEFINE same == far.seen /\ Distance(FarPlace, far.place) <= SamePlace
           kept == IF same THEN far ELSE [NoFar EXCEPT !.seen = TRUE, !.place = FarPlace]
           more == IF kept.count < 2 THEN kept.count + 1 ELSE kept.count
<1>1. FarObserved(far) = IF kept.counted THEN kept
                         ELSE [kept EXCEPT !.counted = TRUE, !.count = more]
  BY DEF FarObserved
<1>2. CASE same
  <2>1. kept = far /\ far.seen = TRUE BY <1>2 DEF FarShape
  <2> HIDE DEF kept, same
  <2>2. more \in 0 .. 2 /\ more = IF far.count < 2 THEN far.count + 1 ELSE 2
    BY <2>1 DEF FarShape
  <2> HIDE DEF more
  <2>3. CASE far.counted = TRUE
    <3>1. FarObserved(far) = far BY <1>1, <2>1, <2>3
    <3> QED BY <3>1, <2>1, <2>3
  <2>4. CASE far.counted = FALSE
    <3>1. FarObserved(far) = [far EXCEPT !.counted = TRUE, !.count = more]
      BY <1>1, <2>1, <2>4
    <3>2. FarObserved(far) = [seen |-> far.seen, age |-> far.age, counted |-> TRUE,
                              count |-> more, place |-> far.place]
      BY <3>1 DEF FarShape
    <3> QED BY <3>2, <2>1, <2>2, <2>4 DEF FarShape
  <2> QED BY <2>3, <2>4 DEF FarShape
<1>3. CASE ~same
  <2>1. kept = [seen |-> TRUE, age |-> 0, counted |-> FALSE, count |-> 0, place |-> FarPlace]
    BY <1>3 DEF NoFar
  <2> HIDE DEF kept, same
  <2>2. kept.counted = FALSE /\ more = 1 BY <2>1
  <2> HIDE DEF more
  <2>3. FarObserved(far) = [seen |-> TRUE, age |-> 0, counted |-> TRUE, count |-> 1,
                            place |-> FarPlace]
    BY <1>1, <2>1, <2>2
  <2> QED BY <2>3 DEF FarShape
<1> QED BY <1>2, <1>3

(* The same obstacle in the same run, or a new one in it.                  *)
LEMMA RunOfASighting ==
    ASSUME PathShape, FarIsInTheRun, NEW far,
           far = IF track.path = policy.path THEN policy.far ELSE NoFar
    PROVE  /\ FarShape(FarObserved(far))
           /\ FarObserved(far).seen = TRUE /\ FarObserved(far).counted = TRUE
           /\ RunOf(TRUE) \in [path : 0 .. 2, age : Nat, maps : 0 .. 2, fresh : BOOLEAN]
           /\ RunOf(TRUE).path = track.path /\ RunOf(TRUE).maps > 0
           /\ FarObserved(far).age <= RunOf(TRUE).age
           /\ FarObserved(far).count <= RunOf(TRUE).maps
<1> USE DEF PathShape, PathIds
<1> DEFINE maps == IF farRun.fresh /\ farRun.maps < 2 THEN farRun.maps + 1 ELSE farRun.maps
           run == IF farRun.path = track.path
                  THEN [path |-> farRun.path, age |-> farRun.age, maps |-> maps,
                        fresh |-> FALSE]
                  ELSE [path |-> track.path, age |-> 0, maps |-> 1, fresh |-> FALSE]
<1>1. maps \in 0 .. 2 /\ farRun.maps <= maps OBVIOUS
<1>2. RunOf(TRUE) = run
  <2> HIDE DEF run
  <2>1. CASE farRun.path = track.path
    <3>1. RunOf(TRUE) = [farRun EXCEPT !.maps = maps, !.fresh = FALSE] BY <2>1 DEF RunOf
    <3> HIDE DEF maps
    <3> QED BY <3>1, <2>1 DEF run
  <2>2. CASE farRun.path # track.path BY <2>2 DEF RunOf, run
  <2> QED BY <2>1, <2>2
<1>3. FarShape(far) BY NoFarShape
<1>4. run.path = track.path /\ run.maps > 0
      /\ run \in [path : 0 .. 2, age : Nat, maps : 0 .. 2, fresh : BOOLEAN]
  <2> HIDE DEF maps
  <2>1. CASE farRun.path = track.path BY <2>1, <1>1 DEF FarIsInTheRun
  <2>2. CASE farRun.path # track.path BY <2>2
  <2> QED BY <2>1, <2>2
<1> DEFINE observed == FarObserved(far)
<1>5. CASE observed.age = 0 /\ observed.count = 1
  <2> HIDE DEF run, observed
  <2>1. observed.age <= run.age /\ observed.count <= run.maps BY <1>4, <1>5
  <2> QED BY <2>1, <1>2, <1>3, <1>4, Observed DEF observed
<1>6. CASE /\ far.seen = TRUE /\ observed.age = far.age
           /\ far.counted = TRUE => observed.count = far.count
           /\ far.counted = FALSE =>
                 observed.count = IF far.count < 2 THEN far.count + 1 ELSE 2
  <2>1. far = policy.far /\ track.path = policy.path BY <1>6, NoFarShape
  <2>2. farRun.path = track.path BY <1>6, <2>1 DEF FarIsInTheRun
  <2>3. run.age = farRun.age /\ run.maps = maps BY <2>2
  <2> HIDE DEF run, observed
  <2>4. observed.age <= run.age BY <1>6, <2>1, <2>3 DEF FarIsInTheRun
  <2>5. observed.count <= run.maps
    <3>1. CASE far.counted = TRUE
      BY <3>1, <1>1, <1>6, <2>1, <2>3 DEF FarIsInTheRun, FarShape
    <3>2. CASE far.counted = FALSE
      <4>1. farRun.fresh = TRUE BY <3>2, <1>6, <2>1 DEF FarIsInTheRun
      <4>2. maps = IF farRun.maps < 2 THEN farRun.maps + 1 ELSE farRun.maps BY <4>1
      <4> HIDE DEF maps
      <4> QED BY <3>2, <1>1, <1>6, <2>1, <2>3, <4>2 DEF FarIsInTheRun, FarShape
    <3> QED BY <3>1, <3>2, <1>3 DEF FarShape
  <2> QED BY <2>4, <2>5, <1>2, <1>3, <1>4, Observed DEF observed
<1> QED BY <1>3, <1>5, <1>6, Observed

(* Judge, in the forms its branches take.                                  *)
LEMMA JudgeStep ==
    ASSUME PathInv, NEW off, Judge(off), UNCHANGED <<costmap, track, keepouts>>
    PROVE  PathInv'
<1> USE DEF PathInv
<1> DEFINE known == track.path = policy.path
           advanced == known /\ track.progress > policy.best
           cross == IF off = "off" THEN IF known THEN policy.cross + 1 ELSE 1
                    ELSE IF off = "on" \/ ~known THEN 0 ELSE policy.cross
           crossed == IF cross < CrossConfirmations THEN cross ELSE CrossConfirmations
           saw == Geometry.reason = "far"
           followed == IF known THEN policy.far ELSE NoFar
           far == IF saw THEN FarObserved(followed) ELSE NoFar
           stalled == IF known /\ ~advanced THEN policy.stalled ELSE 0
           best == IF known /\ ~advanced THEN policy.best ELSE track.progress
           run == RunOf(TRUE)
           judged == [policy EXCEPT !.path = track.path, !.best = best, !.stalled = stalled,
                                    !.cross = crossed, !.far = far, !.keepout = keepouts]
<1>1. /\ policy' \in {judged, [judged EXCEPT !.replan = 0]}
      /\ farRun' = RunOf(saw)
      /\ verdict'.reason = "persistent" =>
            Persistent(far) \/ Geometry.reason = "persistent"
  BY DEF Judge, Answer
<1>2. Geometry.reason # "persistent" BY DEF Geometry
<1>3. /\ FarShape(far)
      /\ far.seen = TRUE => saw /\ far.counted = TRUE
      /\ saw => /\ run.path = track.path /\ run.maps > 0
                /\ run \in [path : 0 .. 2, age : Nat, maps : 0 .. 2, fresh : BOOLEAN]
                /\ far.age <= run.age /\ far.count <= run.maps
      /\ ~saw => far = NoFar
  <2> HIDE DEF saw
  <2>1. CASE saw BY <2>1, RunOfASighting DEF run
  <2>2. CASE ~saw BY <2>2, NoFarShape
  <2> QED BY <2>1, <2>2
<1> HIDE DEF run, far, saw, crossed, cross, stalled, best, advanced
<1>4. PolicyShape(judged) /\ judged.path = track.path /\ judged.far = far
  <2>1. judged = [policy EXCEPT !.path = track.path, !.best = best, !.stalled = stalled,
                                !.cross = crossed, !.far = far, !.keepout = keepouts]
    OBVIOUS
  <2>2. PolicyShape(policy) BY DEF PathShape
  <2> HIDE DEF judged
  <2> QED BY <2>1, <2>2 DEF PolicyShape
<1> HIDE DEF judged
<1>5. PolicyShape(policy') /\ policy'.path = track.path /\ policy'.far = far
  <2>1. CASE policy' = judged BY <2>1, <1>4
  <2>2. CASE policy' = [judged EXCEPT !.replan = 0] BY <2>2, <1>4 DEF PolicyShape
  <2> QED BY <2>1, <2>2, <1>1
<1>6. farRun' = IF saw THEN run ELSE NoRun
  <2>1. CASE saw = TRUE BY <2>1, <1>1 DEF run
  <2>2. CASE ~saw BY <2>2, <1>1 DEF RunOf
  <2> QED BY <2>1, <2>2 DEF saw
<1>7. NoRun \in [path : 0 .. 2, age : Nat, maps : 0 .. 2, fresh : BOOLEAN] /\ NoRun.path = 0
  BY DEF NoRun
<1>8. PathShape' BY <1>3, <1>5, <1>6, <1>7 DEF PathShape
<1>9. track.path # 0 BY DEF PathShape, PathIds
<1>10. FarIsInTheRun'
  <2>1. CASE saw BY <2>1, <1>3, <1>5, <1>6, <1>9 DEF FarIsInTheRun
  <2>2. CASE ~saw BY <2>2, <1>3, <1>5, <1>6, <1>7, NoFarShape DEF FarIsInTheRun
  <2> QED BY <2>1, <2>2
<1>11. PersistentIsEarned'
  <2> SUFFICES ASSUME verdict'.reason = "persistent"
               PROVE  farRun'.maps >= 2 /\ farRun'.age >= FarPersistence /\ farRun'.path # 0
      BY DEF PersistentIsEarned
  <2>1. far.count >= 2 /\ far.age >= FarPersistence BY <1>1, <1>2 DEF Persistent
  <2>2. saw
    <3>1. NoFar.count = 0 BY DEF NoFar
    <3> QED BY <3>1, <2>1, <1>3
  <2>3. farRun' = run BY <2>2, <1>6
  <2>4. FarPersistence \in Nat BY DEF PathShape, PolicyIsValid
  <2>5. far.age \in Nat /\ far.count \in Nat BY <1>3 DEF FarShape
  <2>6. run.age \in Nat /\ run.maps \in Nat BY <2>2, <1>3
  <2> QED BY <2>1, <2>2, <2>3, <2>4, <2>5, <2>6, <1>3, <1>9
<1> QED BY <1>8, <1>10, <1>11

(* The observation ends: no data, or other keepouts.                       *)
LEMMA ObservationEnds ==
    ASSUME PathInv, NEW keepout, NEW state, NEW reason, reason # "persistent",
           policy' = [policy EXCEPT !.keepout = keepout, !.far = NoFar],
           Answer(state, reason, FALSE), UNCHANGED <<costmap, track, keepouts>>
    PROVE  PathInv'
<1> USE DEF PathInv
<1>1. farRun' = NoRun BY DEF Answer, RunOf
<1>2. PathShape'
  <2>1. policy' = [path |-> policy.path, best |-> policy.best, stalled |-> policy.stalled,
                   cross |-> policy.cross, replan |-> policy.replan, far |-> NoFar,
                   keepout |-> keepout]
    BY DEF PathShape, PolicyShape
  <2>2. NoRun \in [path : 0 .. 2, age : Nat, maps : 0 .. 2, fresh : BOOLEAN] BY DEF NoRun
  <2> QED BY <1>1, <2>1, <2>2, NoFarShape DEF PathShape, PolicyShape
<1>3. FarIsInTheRun'
  BY <1>1, NoFarShape DEF FarIsInTheRun, PathShape, PolicyShape, NoRun
<1>4. PersistentIsEarned' BY DEF PersistentIsEarned, Answer
<1> QED BY <1>2, <1>3, <1>4

(* A new costmap; and time, by which an observation and the run that it is *)
(* in grow older together.                                                 *)
LEMMA CostmapStep ==
    ASSUME PathInv, NEW cost, OnCostmap(cost)
    PROVE  PathInv'
<1> USE DEF PathInv
<1> DEFINE no == FALSE
           far == [policy.far EXCEPT !.counted = no]
<1>1. policy' = [policy EXCEPT !.far = far] BY DEF OnCostmap
<1>0. no \in BOOLEAN /\ no = FALSE OBVIOUS
<1> HIDE DEF no
<1>2. far = [seen |-> policy.far.seen, age |-> policy.far.age, counted |-> no,
             count |-> policy.far.count, place |-> policy.far.place]
  BY DEF PathShape, FarShape
<1> HIDE DEF far
<1>3. FarShape(far) BY <1>0, <1>2 DEF PathShape, FarShape
<1>4. farRun' = [farRun EXCEPT !.fresh = TRUE] /\ UNCHANGED <<track, verdict>>
  BY DEF OnCostmap
<1>5. PathShape' BY <1>1, <1>3, <1>4 DEF PathShape, PolicyShape
<1>6. FarIsInTheRun' BY <1>0, <1>1, <1>2, <1>4 DEF FarIsInTheRun, PathShape, PolicyShape
<1>7. PersistentIsEarned' BY <1>4 DEF PersistentIsEarned, PathShape
<1> QED BY <1>5, <1>6, <1>7

LEMMA ElapseStep ==
    ASSUME PathInv, ElapsePath
    PROVE  PathInv'
<1> USE DEF PathInv
<1>p. FarPersistence \in Nat BY DEF PathShape, PolicyIsValid
<1> DEFINE farAge == IF policy.far.seen THEN OneOlder(policy.far.age, FarPersistence) ELSE 0
           runAge == IF farRun.path # 0 THEN OneOlder(farRun.age, FarPersistence) ELSE 0
           stalled == OneOlder(policy.stalled, ProgressTimeout)
           replan == OneOlder(policy.replan, Cooldown)
           far == [policy.far EXCEPT !.age = farAge]
<1>1. farAge \in Nat /\ runAge \in Nat BY <1>p DEF OneOlder, PathShape, FarShape
<1>2. policy.far.seen = TRUE => farAge <= runAge
  BY <1>p DEF OneOlder, PathShape, FarShape, FarIsInTheRun
<1>3. farRun.path # 0 /\ farRun.age >= FarPersistence => runAge >= FarPersistence
  BY <1>p DEF OneOlder, PathShape
<1>4. policy' = [policy EXCEPT !.stalled = stalled, !.replan = replan, !.far = far]
      /\ farRun' = [farRun EXCEPT !.age = runAge] /\ UNCHANGED <<track, verdict>>
  BY DEF ElapsePath
<1> HIDE DEF farAge, runAge, stalled, replan
<1>5. far = [seen |-> policy.far.seen, age |-> farAge, counted |-> policy.far.counted,
             count |-> policy.far.count, place |-> policy.far.place]
  BY DEF PathShape, FarShape
<1> HIDE DEF far
<1>6. FarShape(far) BY <1>1, <1>5 DEF PathShape, FarShape
<1>7. PathShape' BY <1>1, <1>4, <1>6 DEF PathShape, PolicyShape
<1>8. FarIsInTheRun' BY <1>1, <1>2, <1>4, <1>5 DEF FarIsInTheRun, PathShape, PolicyShape
<1>9. PersistentIsEarned' BY <1>3, <1>4 DEF PersistentIsEarned, PathShape
<1> QED BY <1>7, <1>8, <1>9

LEMMA PathStep == PathInv /\ [PathNext]_pathVars => PathInv'
<1> SUFFICES ASSUME PathInv, [PathNext]_pathVars PROVE PathInv'
    OBVIOUS
<1>1. ASSUME NEW tf \in BOOLEAN, NEW off \in {"on", "between", "off"}, EvaluateActive(tf, off)
      PROVE  PathInv'
  <2>0. UNCHANGED <<costmap, track, keepouts>> BY <1>1 DEF EvaluateActive
  <2>1. CASE NoData(tf)
    <3>1. policy' = [policy EXCEPT !.keepout = policy.keepout, !.far = NoFar]
      BY <2>1 DEF NoData, PathInv, PathShape, PolicyShape
    <3> QED BY <2>0, <2>1, <3>1, ObservationEnds DEF NoData
  <2>2. CASE KeepoutChanged BY <2>0, <2>2, ObservationEnds DEF KeepoutChanged
  <2>3. CASE Judge(off) BY <2>0, <2>3, JudgeStep
  <2> QED BY <1>1, <2>1, <2>2, <2>3 DEF EvaluateActive
<1>2. CASE EvaluateMissing
  BY <1>2 DEF EvaluateMissing, PathInv, PathShape, FarIsInTheRun, PersistentIsEarned
<1>3. CASE EvaluateCandidate
  <2>1. verdict'.reason # "persistent" BY <1>3 DEF EvaluateCandidate, CandidateGeometry
  <2> QED BY <1>3, <2>1 DEF EvaluateCandidate, PathInv, PathShape, FarIsInTheRun,
                            PersistentIsEarned
<1>4. CASE \E cost \in Costmaps : OnCostmap(cost) BY <1>4, CostmapStep
<1>5. CASE OnKeepouts
  BY <1>5 DEF OnKeepouts, PathInv, PathShape, FarIsInTheRun, PersistentIsEarned
<1>6. CASE MoveOn
  BY <1>6 DEF MoveOn, PathInv, PathShape, FarIsInTheRun, PersistentIsEarned
<1>7. CASE NewPath
  BY <1>7 DEF NewPath, PathInv, PathShape, PathIds, FarIsInTheRun, PersistentIsEarned
<1>8. CASE ElapsePath BY <1>8, ElapseStep
<1>9. CASE UNCHANGED pathVars
  BY <1>9 DEF pathVars, PathInv, PathShape, FarIsInTheRun, PersistentIsEarned
<1> QED BY <1>1, <1>2, <1>3, <1>4, <1>5, <1>6, <1>7, <1>8, <1>9 DEF PathNext

-----------------------------------------------------------------------------
(* The navigation snapshot.  The plan that is held was cached in the       *)
(* activity that the retention is in, or was fresh when it began; a    *)
(* plan, and a sample that tells of an activity, are of a time at which    *)
(* there was navigation.                                                   *)

SnapshotShape ==
    /\ snapNow \in Nat \ {0}
    /\ navGoal = [active |-> navGoal.active, count |-> navGoal.count, plans |-> navGoal.plans,
                  costmaps |-> navGoal.costmaps, ended |-> navGoal.ended]
    /\ navGoal.count \in Nat /\ navGoal.ended \in Nat
    /\ cache = [local |-> cache.local, plan |-> cache.plan, telemetry |-> cache.telemetry]
    /\ retention = [active |-> retention.active, seen |-> retention.seen,
                    held |-> retention.held, since |-> retention.since]
    /\ retention.active \in BOOLEAN
    /\ retention.since \in Nat /\ retention.since <= snapNow

(* A plan has a stamp, whether it is on its way or cached.                 *)
PlansAreStamped ==
    /\ \A p \in planWire : p.stamp \in Nat \ {0}
    /\ cache.plan # Absent =>
          cache.plan.stamp \in Nat \ {0} /\ cache.plan.last \in Nat

(* There was navigation at t, or there is, or there has been since.        *)
NavigationSince(t) ==
    t \in Nat /\ t <= snapNow /\ (navGoal.active # 0 \/ navGoal.ended >= t)

EvidenceIsTrue ==
    /\ \A p \in planWire : NavigationSince(p.stamp)
    /\ cache.plan # Absent => NavigationSince(cache.plan.stamp)
    /\ retention.active => NavigationSince(cache.telemetry.last)

(* The plan that is held was cached while the activity lasted, or was      *)
(* fresh when it began.                                                    *)
HeldIsRecent ==
    /\ retention.active = FALSE => retention.held = Absent
    /\ retention.held # Absent => \/ retention.held.last >= retention.since
                                  \/ retention.held.stamp >= retention.since - MaxAge

SnapshotInv ==
    /\ SnapshotShape /\ PlansAreStamped /\ EvidenceIsTrue /\ HeldIsRecent
    /\ RetainedPlanIsRecent /\ PlanEndsWithNavigation

LEMMA NothingShown == NoResponse.retained = FALSE /\ NoResponse.plan = Absent
BY DEF NoResponse

LEMMA SnapshotInitially == SnapshotInit => SnapshotInv
<1> SUFFICES ASSUME SnapshotInit PROVE SnapshotInv
    OBVIOUS
<1>1. SnapshotShape
  BY DEF SnapshotInit, SnapshotShape, EmptyCache, NoRetention
<1>2. PlansAreStamped /\ EvidenceIsTrue /\ HeldIsRecent
  BY DEF SnapshotInit, PlansAreStamped, EvidenceIsTrue, HeldIsRecent, EmptyCache, NoRetention
<1>3. RetainedPlanIsRecent /\ PlanEndsWithNavigation
  <2>1. shown.retained = FALSE /\ shown.plan = Absent BY NothingShown DEF SnapshotInit
  <2> QED BY <2>1 DEF RetainedPlanIsRecent, PlanEndsWithNavigation
<1> QED BY <1>1, <1>2, <1>3 DEF SnapshotInv

(* A cached message: what it is made of.                                   *)
LEMMA CachedFields ==
    ASSUME NEW key, NEW stamp, NEW goal
    PROVE  Cached(key, stamp, goal).stamp = stamp /\ Cached(key, stamp, goal).last = snapNow
BY DEF Cached

(* The telemetry tells of an activity: the plan that is held afterwards.   *)
LEMMA TelemetryStep ==
    ASSUME SnapshotInv, CacheNavTelemetry
    PROVE  SnapshotShape' /\ PlansAreStamped' /\ EvidenceIsTrue' /\ HeldIsRecent'
<1> USE SnapshotAssumption DEF SnapshotInv, SnapshotShape
<1> DEFINE told == navGoal.active # 0
           begins == told /\ ~retention.active
           began == IF begins THEN snapNow ELSE retention.since
           held == IF ~told THEN Absent
                   ELSE IF ~retention.active /\ IsFresh(cache.plan) THEN cache.plan
                   ELSE retention.held
<1>1. retention' = [active |-> told, seen |-> TRUE, held |-> held, since |-> began]
  BY DEF CacheNavTelemetry, UpdateGoal
<1>2. cache'.plan = cache.plan
      /\ cache' = [local |-> cache'.local, plan |-> cache'.plan,
                   telemetry |-> cache'.telemetry]
  BY DEF CacheNavTelemetry
<1>3. UNCHANGED <<snapNow, navGoal, planWire>> /\ cache'.telemetry.last = snapNow
  BY CachedFields DEF CacheNavTelemetry
<1>4. told \in BOOLEAN /\ began \in Nat /\ began <= snapNow OBVIOUS
<1>5. told = FALSE => held = Absent OBVIOUS
<1>6. held # Absent => held.last >= began \/ held.stamp >= began - MaxAge
  <2> SUFFICES ASSUME held # Absent PROVE held.last >= began \/ held.stamp >= began - MaxAge
      OBVIOUS
  <2>1. CASE ~retention.active /\ IsFresh(cache.plan)
    <3>1. held = cache.plan /\ began = snapNow /\ cache.plan # Absent BY <2>1
    <3>2. cache.plan.stamp \in Nat \ {0} BY <3>1 DEF PlansAreStamped
    <3>3. snapNow - cache.plan.stamp \in 0 .. MaxAge BY <2>1, <3>2 DEF IsFresh
    <3> QED BY <3>1, <3>2, <3>3
  <2>2. CASE ~(~retention.active /\ IsFresh(cache.plan))
    <3>1. held = retention.held BY <2>2
    <3>2. retention.active BY <3>1, <2>2 DEF HeldIsRecent
    <3>3. began = retention.since BY <3>2
    <3> QED BY <3>1, <3>3 DEF HeldIsRecent
  <2> QED BY <2>1, <2>2
<1>7. EvidenceIsTrue'
  <2>1. told => NavigationSince(snapNow) BY DEF NavigationSince
  <2> HIDE DEF told, held, began
  <2> QED BY <1>1, <1>2, <1>3, <2>1 DEF EvidenceIsTrue, NavigationSince
<1> HIDE DEF told, begins, began, held
<1>8. SnapshotShape' BY <1>1, <1>2, <1>3, <1>4
<1>9. PlansAreStamped' BY <1>2, <1>3 DEF PlansAreStamped
<1>10. HeldIsRecent' BY <1>1, <1>5, <1>6 DEF HeldIsRecent
<1> QED BY <1>8, <1>9, <1>10, <1>7

(* A plan arrives, and is held if the goal is known to be active.          *)
LEMMA PlanStep ==
    ASSUME SnapshotInv, CachePlan
    PROVE  SnapshotShape' /\ PlansAreStamped' /\ EvidenceIsTrue' /\ HeldIsRecent'
<1> USE DEF SnapshotInv, SnapshotShape
<1> PICK p \in planWire :
      LET cached == Cached("plan", p.stamp, p.goal)
      IN /\ cache' = [cache EXCEPT !.plan = cached]
         /\ retention' = IF retention.active THEN [retention EXCEPT !.held = cached]
                         ELSE retention
  BY DEF CachePlan
<1> DEFINE cached == Cached("plan", p.stamp, p.goal)
<1>1. cached.stamp \in Nat \ {0} /\ cached.last = snapNow
  BY CachedFields DEF PlansAreStamped
<1>2. cache' = [cache EXCEPT !.plan = cached]
      /\ retention' = IF retention.active THEN [retention EXCEPT !.held = cached]
                      ELSE retention
  OBVIOUS
<1>3. planWire' = {} /\ UNCHANGED <<snapNow, navGoal>> BY DEF CachePlan
<1>4. cached.stamp = p.stamp BY CachedFields
<1> HIDE DEF cached
<1>5. SnapshotShape' BY <1>2, <1>3
<1>6. PlansAreStamped' BY <1>1, <1>2, <1>3 DEF PlansAreStamped
<1>7. HeldIsRecent' BY <1>1, <1>2 DEF HeldIsRecent
<1>8. EvidenceIsTrue'
  <2>1. NavigationSince(cached.stamp) BY <1>4 DEF EvidenceIsTrue
  <2> QED BY <1>2, <1>3, <2>1 DEF EvidenceIsTrue, NavigationSince
<1> QED BY <1>5, <1>6, <1>7, <1>8

(* An answer: what it draws rests on a fresh plan or on a fresh sample.    *)
LEMMA AnswerStep ==
    ASSUME SnapshotInv, NEW valid \in BOOLEAN, NEW robotTf \in BOOLEAN, NEW layerTf \in BOOLEAN,
           NEW drawn \in BOOLEAN, SnapshotAnswered(valid, robotTf, layerTf, drawn)
    PROVE  SnapshotInv'
<1> USE DEF SnapshotInv
<1> DEFINE error == SnapshotError(valid, robotTf, drawn)
           choice == PlanDrawn(layerTf)
<1>1. /\ shown' = [error |-> error, plan |-> IF error = "" THEN choice.plan ELSE Absent,
                   retained |-> error = "" /\ choice.retained,
                   told |-> cache.telemetry.goal, since |-> retention.since]
      /\ UNCHANGED <<snapNow, navGoal, planWire, cache, retention>>
  BY DEF SnapshotAnswered
<1>2. choice.retained => choice.plan = retention.held /\ retention.held # Absent
  BY DEF PlanDrawn, Select
<1>3. choice.plan # Absent => \E t \in Nat : NavigationSince(t) /\ snapNow - t <= MaxAge
  <2> SUFFICES ASSUME choice.plan # Absent
               PROVE  \E t \in Nat : NavigationSince(t) /\ snapNow - t <= MaxAge
      OBVIOUS
  <2>1. CASE choice.plan = cache.plan /\ IsFresh(cache.plan)
    <3>1. cache.plan # Absent /\ cache.plan.stamp \in Nat \ {0}
      BY <2>1 DEF IsFresh, PlansAreStamped
    <3>2. snapNow - cache.plan.stamp <= MaxAge
      BY <2>1, <3>1, SnapshotAssumption DEF IsFresh, SnapshotShape
    <3>3. NavigationSince(cache.plan.stamp) BY <3>1 DEF EvidenceIsTrue
    <3> QED BY <3>1, <3>2, <3>3
  <2>2. CASE retention.active /\ TelemetryFresh(cache.telemetry)
    <3>1. NavigationSince(cache.telemetry.last) BY <2>2 DEF EvidenceIsTrue
    <3>2. snapNow - cache.telemetry.last <= MaxAge BY <2>2 DEF TelemetryFresh
    <3> QED BY <3>1, <3>2 DEF NavigationSince
  <2> QED BY <2>1, <2>2 DEF PlanDrawn, Select
<1> HIDE DEF error, choice
<1>4. PlanEndsWithNavigation'
  <2> SUFFICES ASSUME shown'.plan # Absent
               PROVE  navGoal.active # 0 \/ snapNow - navGoal.ended <= MaxAge
      BY <1>1 DEF PlanEndsWithNavigation
  <2>1. PICK t \in Nat : NavigationSince(t) /\ snapNow - t <= MaxAge BY <1>1, <1>3
  <2> QED BY <2>1, SnapshotAssumption DEF NavigationSince, SnapshotShape
<1>5. shown'.retained => shown'.plan = retention.held /\ retention.held # Absent
                         /\ shown'.since = retention.since
  BY <1>1, <1>2
<1>6. RetainedPlanIsRecent'
  BY <1>5 DEF HeldIsRecent, RetainedPlanIsRecent
<1>7. SnapshotShape' /\ PlansAreStamped' /\ EvidenceIsTrue' /\ HeldIsRecent'
  BY <1>1 DEF SnapshotShape, PlansAreStamped, EvidenceIsTrue, NavigationSince, HeldIsRecent
<1> QED BY <1>6, <1>7, <1>4

LEMMA SnapshotStep == SnapshotInv /\ [SnapshotNext]_snapshotVars => SnapshotInv'
<1> SUFFICES ASSUME SnapshotInv, [SnapshotNext]_snapshotVars PROVE SnapshotInv'
    OBVIOUS
<1> DEFINE Kept == SnapshotShape' /\ PlansAreStamped' /\ EvidenceIsTrue' /\ HeldIsRecent'
<1>1. SnapTick => Kept
  BY DEF SnapTick, SnapshotInv, SnapshotShape, PlansAreStamped,
         EvidenceIsTrue, NavigationSince, HeldIsRecent
<1>2. ASSUME GoalStarts \/ GoalStops PROVE Kept
  <2>1. UNCHANGED <<snapNow, planWire, cache, retention>> BY <1>2 DEF GoalStarts, GoalStops
  <2>2. \E active, count, ended \in Nat :
           /\ navGoal' = [active |-> active, count |-> count, plans |-> navGoal.plans,
                          costmaps |-> navGoal.costmaps, ended |-> ended]
           /\ active # 0 \/ ended = snapNow
    <3>1. CASE GoalStarts
      <4> DEFINE next == navGoal.count + 1
      <4>1. next \in Nat /\ next # 0 /\ navGoal.ended \in Nat BY DEF SnapshotInv, SnapshotShape
      <4>2. navGoal' = [active |-> next, count |-> next, plans |-> navGoal.plans,
                        costmaps |-> navGoal.costmaps, ended |-> navGoal.ended]
        BY <3>1 DEF GoalStarts, SnapshotInv, SnapshotShape
      <4> HIDE DEF next
      <4> QED BY <4>1, <4>2
    <3>2. CASE GoalStops
      <4>1. navGoal' = [active |-> 0, count |-> navGoal.count, plans |-> navGoal.plans,
                        costmaps |-> navGoal.costmaps, ended |-> snapNow]
        BY <3>2 DEF GoalStops, SnapshotInv, SnapshotShape
      <4> QED BY <4>1 DEF SnapshotInv, SnapshotShape
    <3> QED BY <1>2, <3>1, <3>2
  <2>3. SnapshotShape' BY <2>1, <2>2 DEF SnapshotInv, SnapshotShape
  <2>4. navGoal'.active # 0 \/ navGoal'.ended = snapNow BY <2>2
  <2>5. EvidenceIsTrue'
    BY <2>1, <2>4 DEF SnapshotInv, SnapshotShape, EvidenceIsTrue, NavigationSince
  <2>6. PlansAreStamped' /\ HeldIsRecent'
    BY <2>1 DEF SnapshotInv, PlansAreStamped, HeldIsRecent
  <2> QED BY <2>3, <2>5, <2>6
<1>3. ASSUME PlanPublished PROVE Kept
  <2>1. /\ navGoal.active # 0 /\ navGoal' = [navGoal EXCEPT !.plans = @ + 1]
        /\ UNCHANGED <<snapNow, cache, retention>>
    BY <1>3 DEF PlanPublished
  <2>2. \A p \in planWire' : p.stamp = snapNow BY <1>3 DEF PlanPublished
  <2>3. navGoal'.active = navGoal.active /\ navGoal'.ended = navGoal.ended
    BY <2>1 DEF SnapshotInv, SnapshotShape
  <2>4. EvidenceIsTrue'
    BY <2>1, <2>2, <2>3 DEF SnapshotInv, SnapshotShape, EvidenceIsTrue, NavigationSince
  <2>5. SnapshotShape' /\ PlansAreStamped' /\ HeldIsRecent'
    BY <2>1, <2>2 DEF SnapshotInv, SnapshotShape, PlansAreStamped, HeldIsRecent
  <2> QED BY <2>4, <2>5
<1>4. ASSUME NEW stamped \in BOOLEAN, CacheMessage(stamped) PROVE Kept
  <2> DEFINE grid == Cached("local", IF stamped THEN snapNow ELSE 0, 0)
  <2>1. /\ cache' = [cache EXCEPT !.local = grid] /\ UNCHANGED <<snapNow, planWire, retention>>
        /\ navGoal' = [navGoal EXCEPT !.costmaps = @ + 1]
    BY <1>4 DEF CacheMessage
  <2> HIDE DEF grid
  <2> QED BY <2>1 DEF SnapshotInv, SnapshotShape, PlansAreStamped,
         EvidenceIsTrue, NavigationSince, HeldIsRecent
<1>5. ASSUME NEW fits \in BOOLEAN, CacheGridUpdate(fits) PROVE Kept
  <2> DEFINE grid == GridUpdated(fits)
  <2>1. /\ cache' = [cache EXCEPT !.local = grid] /\ UNCHANGED <<snapNow, planWire, retention>>
        /\ navGoal' = [navGoal EXCEPT !.costmaps = @ + 1]
    BY <1>5 DEF CacheGridUpdate
  <2> HIDE DEF grid
  <2> QED BY <2>1 DEF SnapshotInv, SnapshotShape, PlansAreStamped,
         EvidenceIsTrue, NavigationSince, HeldIsRecent
<1>6. CachePlan => Kept BY PlanStep
<1>7. CacheNavTelemetry => Kept BY TelemetryStep
<1>8. shown' = NoResponse => (RetainedPlanIsRecent /\ PlanEndsWithNavigation)'
  <2> SUFFICES ASSUME shown' = NoResponse PROVE (RetainedPlanIsRecent /\ PlanEndsWithNavigation)'
      OBVIOUS
  <2>1. shown'.retained = FALSE /\ shown'.plan = Absent BY NothingShown
  <2> QED BY <2>1 DEF RetainedPlanIsRecent, PlanEndsWithNavigation
<1>9. ASSUME NEW valid \in BOOLEAN, NEW robotTf \in BOOLEAN, NEW layerTf \in BOOLEAN,
             NEW drawn \in BOOLEAN, SnapshotAnswered(valid, robotTf, layerTf, drawn)
      PROVE  SnapshotInv'
  BY <1>9, AnswerStep
<1>10. CASE UNCHANGED snapshotVars
  BY <1>10 DEF snapshotVars, SnapshotInv, SnapshotShape, PlansAreStamped,
               EvidenceIsTrue, NavigationSince, HeldIsRecent,
               RetainedPlanIsRecent, PlanEndsWithNavigation
<1> HIDE DEF Kept
<1>11. CASE /\ \/ SnapTick \/ GoalStarts \/ GoalStops \/ PlanPublished
               \/ \E stamped \in BOOLEAN : CacheMessage(stamped)
               \/ \E fits \in BOOLEAN : CacheGridUpdate(fits)
               \/ CachePlan \/ CacheNavTelemetry
            /\ shown' = NoResponse
  <2>1. Kept BY <1>1, <1>2, <1>3, <1>4, <1>5, <1>6, <1>7, <1>11
  <2> QED BY <2>1, <1>8, <1>11 DEF Kept, SnapshotInv
<1> QED BY <1>9, <1>10, <1>11 DEF SnapshotNext

-----------------------------------------------------------------------------
(* The battery guard.  With the BMS as source, the clock that may turn the *)
(* latch has run since the last trusted sample that spoke against it.      *)

(* The clock n of the estimator has run while every sample was of `band',  *)
(* since the last one that was not.                                        *)
Earned(n, band) ==
    n > 0 => /\ evidence.band = band /\ evidence.last # Unbroken
             /\ evidence.since >= n + evidence.last \/ evidence.since = OldAge

(* With the BMS as source, the estimator measures from the sample that the *)
(* evidence ends with, the sample at hand is no older, and the clock that  *)
(* may turn the latch is earned.                                           *)
ClocksAreEarned ==
    source = "external" =>
        /\ estimator.last = evidence.last
        /\ evidence.last # Unbroken => evidence.since >= evidence.last
        /\ sample.known = FALSE => estimator.last = Unbroken
        /\ sample.known = TRUE /\ estimator.last # Unbroken => sample.age <= estimator.last
        /\ estimator.latched = FALSE => Earned(estimator.low, "low")
        /\ estimator.latched = TRUE => Earned(estimator.clear, "high")

BatteryInv == BatteryTypeOK /\ ClocksAreEarned

LEMMA OldAgeBounds ==
    /\ OldAge \in Nat /\ StaleTimeout \in Nat /\ LowPersist \in Nat /\ ClearPersist \in Nat
    /\ LowPersist > 0 /\ ClearPersist > 0 /\ StaleTimeout > 0
    /\ OldAge > LowPersist + StaleTimeout /\ OldAge > ClearPersist + StaleTimeout
BY BatteryAssumption DEF OldAge

LEMMA BatteryInitially == BatteryInit => BatteryInv
<1> SUFFICES ASSUME BatteryInit PROVE BatteryInv
    OBVIOUS
<1> USE OldAgeBounds DEF BatteryInit, Unbroken
<1>1. sample \in [known : BOOLEAN, band : Bands, suspect : BOOLEAN, age : 0 .. OldAge,
                  ready : BOOLEAN, fresh : BOOLEAN]
  BY DEF NoBattery, Charged, Bands
<1>2. evidence \in [band : Bands, since : 0 .. OldAge, last : Unbroken .. OldAge]
  BY DEF NoEvidence, Bands
<1>3. estimator \in [last : Unbroken .. OldAge, low : 0 .. LowPersist,
                     clear : 0 .. ClearPersist, latched : BOOLEAN]
  OBVIOUS
<1>4. BatteryTypeOK BY <1>1, <1>2, <1>3 DEF BatteryTypeOK
<1>5. ClocksAreEarned BY DEF ClocksAreEarned, Earned, NoEvidence, NoBattery, Charged
<1> QED BY <1>4, <1>5 DEF BatteryInv

(* A clock that is broken off.                                             *)
LEMMA Broken ==
    ASSUME BatteryTypeOK
    PROVE  /\ BreakContinuity(estimator) \in
                [last : {Unbroken}, low : {0}, clear : {0}, latched : BOOLEAN]
           /\ BreakContinuity(estimator).latched = estimator.latched
BY DEF BatteryTypeOK, BreakContinuity, Unbroken

LEMMA NoEvidenceType ==
    /\ NoEvidence \in [band : Bands, since : 0 .. OldAge, last : Unbroken .. OldAge]
    /\ NoEvidence.last = Unbroken
BY OldAgeBounds DEF NoEvidence, Bands, Unbroken

LEMMA MessageStep ==
    ASSUME BatteryInv, NEW band \in Bands, NEW suspect \in BOOLEAN, NEW usable \in BOOLEAN,
           NEW age \in 0 .. StaleTimeout, OnExternalBattery(band, suspect, usable, age)
    PROVE  BatteryInv' /\ LatchStep
<1> USE DEF BatteryInv
<1> DEFINE broken == (sample.known /\ ~LinkFresh(sample)) \/ ~usable
<1>1. /\ source = "external" /\ source' = source
      /\ UNCHANGED <<guardMsg, ticked>>
      /\ sample.known = TRUE => age < sample.age
      /\ estimator' = IF broken THEN BreakContinuity(estimator) ELSE estimator
      /\ evidence' = IF broken THEN NoEvidence ELSE evidence
  BY DEF OnExternalBattery, BatteryTypeOK
<1>2. sample' = IF usable
                THEN [known |-> TRUE, band |-> band, suspect |-> suspect, age |-> age,
                      ready |-> TRUE, fresh |-> TRUE]
                ELSE NoBattery
  BY DEF OnExternalBattery
<1>3. ~usable => broken OBVIOUS
<1> HIDE DEF broken
<1>4. sample' \in [known : BOOLEAN, band : Bands, suspect : BOOLEAN, age : 0 .. OldAge,
                   ready : BOOLEAN, fresh : BOOLEAN]
  BY <1>2, OldAgeBounds DEF NoBattery, Bands
<1>5. CASE broken
  <2>1. /\ estimator' \in [last : {Unbroken}, low : {0}, clear : {0}, latched : BOOLEAN]
        /\ estimator'.latched = estimator.latched /\ evidence' = NoEvidence
    BY <1>1, <1>5, Broken
  <2>2. estimator' \in [last : Unbroken .. OldAge, low : 0 .. LowPersist,
                        clear : 0 .. ClearPersist, latched : BOOLEAN]
    BY <2>1, OldAgeBounds DEF Unbroken
  <2>3. BatteryTypeOK' BY <1>1, <1>4, <2>1, <2>2, NoEvidenceType DEF BatteryTypeOK
  <2>4. ClocksAreEarned' BY <2>1, NoEvidenceType DEF ClocksAreEarned, Earned
  <2>5. LatchStep
    <3>1. estimator.latched \in BOOLEAN BY DEF BatteryTypeOK
    <3> QED BY <2>1, <3>1 DEF LatchStep
  <2> QED BY <2>3, <2>4, <2>5
<1>6. CASE ~broken
  <2>1. estimator' = estimator /\ evidence' = evidence BY <1>1, <1>6
  <2>2. usable = TRUE BY <1>3, <1>6
  <2>3. sample'.known = TRUE /\ sample'.age = age BY <1>2, <2>2
  <2>4. estimator.last # Unbroken => sample.known = TRUE /\ sample.age <= estimator.last
    BY <1>1 DEF ClocksAreEarned, BatteryTypeOK
  <2>5. estimator.last # Unbroken => age <= estimator.last
    BY <1>1, <2>4, OldAgeBounds DEF BatteryTypeOK, Unbroken
  <2>6. BatteryTypeOK' BY <1>1, <1>4, <2>1 DEF BatteryTypeOK
  <2>7. ClocksAreEarned' BY <1>1, <2>1, <2>3, <2>5 DEF ClocksAreEarned, Earned
  <2>8. LatchStep
    <3>1. estimator.latched \in BOOLEAN BY DEF BatteryTypeOK
    <3> QED BY <2>1, <3>1 DEF LatchStep
  <2> QED BY <2>6, <2>7, <2>8
<1> QED BY <1>5, <1>6

LEMMA SimulatedStep ==
    ASSUME BatteryInv, NEW band \in Bands, NEW suspect \in BOOLEAN, NEW ready \in BOOLEAN,
           NEW fresh \in BOOLEAN, SetSimBattery(band, suspect, ready, fresh)
    PROVE  BatteryInv' /\ LatchStep
<1>1. /\ source = "transport" /\ sample' = [known |-> TRUE, band |-> band, suspect |-> suspect,
                                            age |-> 0, ready |-> ready, fresh |-> fresh]
      /\ UNCHANGED <<source, estimator, guardMsg, ticked, evidence>>
  BY DEF SetSimBattery
<1>2. sample' \in [known : BOOLEAN, band : Bands, suspect : BOOLEAN, age : 0 .. OldAge,
                   ready : BOOLEAN, fresh : BOOLEAN]
  BY <1>1, OldAgeBounds
<1>3. BatteryTypeOK' BY <1>1, <1>2 DEF BatteryInv, BatteryTypeOK
<1> QED BY <1>1, <1>3 DEF BatteryInv, ClocksAreEarned, LatchStep

(* The estimator after a trusted sample.                                   *)
LEMMA Updated ==
    ASSUME BatteryTypeOK, estimator' = Update(estimator, sample)
    PROVE  /\ estimator' \in [last : Unbroken .. OldAge, low : 0 .. LowPersist,
                              clear : 0 .. ClearPersist, latched : BOOLEAN]
           /\ estimator'.last = sample.age
<1> USE OldAgeBounds DEF Unbroken
<1> DEFINE dt == IF estimator.last = Unbroken \/ estimator.last < sample.age THEN 0
                 ELSE estimator.last - sample.age
           low == IF sample.band = "low" THEN estimator.low + dt ELSE 0
           clear == IF sample.band = "high" THEN estimator.clear + dt ELSE 0
           capped == IF low < LowPersist THEN low ELSE LowPersist
           turned == low >= LowPersist
           off == FALSE
           on == TRUE
<1>1. /\ estimator.latched \in BOOLEAN /\ estimator.low \in 0 .. LowPersist
      /\ sample.age \in -1 .. OldAge /\ estimator.clear \in 0 .. ClearPersist
  BY DEF BatteryTypeOK
<1>2. dt \in Nat BY DEF BatteryTypeOK
<1>3. /\ estimator.latched = FALSE =>
            estimator' = [last |-> sample.age, low |-> capped, clear |-> 0, latched |-> turned]
      /\ estimator.latched = TRUE /\ clear >= ClearPersist =>
            estimator' = [last |-> sample.age, low |-> 0, clear |-> 0, latched |-> off]
      /\ estimator.latched = TRUE /\ ~(clear >= ClearPersist) =>
            estimator' = [last |-> sample.age, low |-> estimator.low, clear |-> clear,
                          latched |-> on]
  BY DEF Update
<1> HIDE DEF dt
<1>4. capped \in 0 .. LowPersist /\ turned \in BOOLEAN /\ clear \in Nat BY <1>1, <1>2
<1>4a. off \in BOOLEAN /\ on \in BOOLEAN OBVIOUS
<1> HIDE DEF low, clear, capped, turned, off, on
<1>5. CASE estimator.latched = FALSE BY <1>1, <1>3, <1>4, <1>5
<1>6. CASE estimator.latched = TRUE /\ clear >= ClearPersist BY <1>1, <1>3, <1>4a, <1>6
<1>7. CASE estimator.latched = TRUE /\ ~(clear >= ClearPersist)
  <2>1. clear \in 0 .. ClearPersist BY <1>4, <1>7
  <2> QED BY <1>1, <1>3, <1>4a, <1>7, <2>1
<1> QED BY <1>1, <1>5, <1>6, <1>7

(* What the telemetry timer does to the clocks, with the BMS as source.    *)
LEMMA TrustedSample ==
    ASSUME BatteryInv, source = "external", sample.known = TRUE, sample.suspect = FALSE,
           LinkFresh(sample), estimator' = Update(estimator, sample),
           evidence' = Vouched(sample), UNCHANGED <<source, sample>>
    PROVE  /\ evidence' \in [band : Bands, since : 0 .. OldAge, last : Unbroken .. OldAge]
           /\ ClocksAreEarned' /\ LatchStep
<1> USE OldAgeBounds DEF Unbroken, BatteryInv
<1> DEFINE from == IF evidence.last = Unbroken THEN sample.age
                   ELSE IF evidence.band = sample.band THEN evidence.since ELSE evidence.last
           dt == IF estimator.last = Unbroken \/ estimator.last < sample.age THEN 0
                 ELSE estimator.last - sample.age
           low == IF sample.band = "low" THEN estimator.low + dt ELSE 0
           clear == IF sample.band = "high" THEN estimator.clear + dt ELSE 0
           turned == low >= LowPersist
<1>1. /\ estimator.latched \in BOOLEAN /\ estimator.low \in 0 .. LowPersist
      /\ estimator.clear \in 0 .. ClearPersist /\ estimator.last \in Unbroken .. OldAge
      /\ sample.age \in 0 .. StaleTimeout /\ sample.band \in Bands
      /\ evidence.since \in 0 .. OldAge /\ evidence.band \in Bands
  BY DEF BatteryTypeOK, LinkFresh
<1>2. /\ estimator.last = evidence.last
      /\ evidence.last # Unbroken => evidence.since >= evidence.last
      /\ estimator.last # Unbroken => sample.age <= estimator.last
      /\ estimator.latched = FALSE => Earned(estimator.low, "low")
      /\ estimator.latched = TRUE => Earned(estimator.clear, "high")
  BY DEF ClocksAreEarned
<1>3. evidence' = [band |-> sample.band, last |-> sample.age, since |-> from]
  BY DEF Vouched
<1>4. from \in 0 .. OldAge BY <1>1, <1>2
<1>5. /\ dt \in Nat
      /\ estimator.last = Unbroken => dt = 0
      /\ estimator.last # Unbroken => estimator.last = dt + sample.age
  BY <1>1, <1>2
<1>6. /\ estimator.latched = FALSE =>
            estimator' = [last |-> sample.age,
                          low |-> IF low < LowPersist THEN low ELSE LowPersist,
                          clear |-> 0, latched |-> turned]
      /\ estimator.latched = TRUE /\ clear >= ClearPersist =>
            estimator' = [last |-> sample.age, low |-> 0, clear |-> 0, latched |-> FALSE]
      /\ estimator.latched = TRUE /\ ~(clear >= ClearPersist) =>
            estimator' = [last |-> sample.age, low |-> estimator.low, clear |-> clear,
                          latched |-> TRUE]
  BY DEF Update
<1> HIDE DEF dt
(* A clock that was earned and has run on to this sample.                *)
<1>7. estimator.latched = FALSE /\ low > 0 =>
         sample.band = "low" /\ (from >= low + sample.age \/ from = OldAge)
  <2> SUFFICES ASSUME estimator.latched = FALSE, low > 0
               PROVE  sample.band = "low" /\ (from >= low + sample.age \/ from = OldAge)
      OBVIOUS
  <2>1. sample.band = "low" /\ low = estimator.low + dt OBVIOUS
  <2>2. Earned(estimator.low, "low") BY <1>2
  <2>3. CASE estimator.low > 0
    <3>1. from = evidence.since BY <2>1, <2>2, <2>3 DEF Earned
    <3> HIDE DEF from
    <3> QED BY <2>1, <2>2, <2>3, <3>1, <1>1, <1>2, <1>5 DEF Earned
  <2>4. CASE estimator.low = 0
    <3>1. evidence.last # Unbroken /\ evidence.last = low + sample.age
      BY <2>1, <2>4, <1>1, <1>2, <1>5
    <3>2. CASE evidence.band = sample.band
      <4>1. from = evidence.since BY <3>1, <3>2
      <4> QED BY <2>1, <3>1, <4>1, <2>4, <1>1, <1>2, <1>5
    <3>3. CASE evidence.band # sample.band BY <2>1, <2>4, <3>1, <3>3, <1>1, <1>5
    <3> QED BY <3>2, <3>3
  <2> QED BY <1>1, <2>3, <2>4
<1>8. estimator.latched = TRUE /\ clear > 0 =>
         sample.band = "high" /\ (from >= clear + sample.age \/ from = OldAge)
  <2> SUFFICES ASSUME estimator.latched = TRUE, clear > 0
               PROVE  sample.band = "high" /\ (from >= clear + sample.age \/ from = OldAge)
      OBVIOUS
  <2>1. sample.band = "high" /\ clear = estimator.clear + dt OBVIOUS
  <2>2. Earned(estimator.clear, "high") BY <1>2
  <2>3. CASE estimator.clear > 0
    <3>1. from = evidence.since BY <2>1, <2>2, <2>3 DEF Earned
    <3> HIDE DEF from
    <3> QED BY <2>1, <2>2, <2>3, <3>1, <1>1, <1>2, <1>5 DEF Earned
  <2>4. CASE estimator.clear = 0
    <3>1. evidence.last # Unbroken /\ evidence.last = clear + sample.age
      BY <2>1, <2>4, <1>1, <1>2, <1>5
    <3>2. CASE evidence.band = sample.band
      <4>1. from = evidence.since BY <3>1, <3>2
      <4> QED BY <2>1, <3>1, <4>1, <2>4, <1>1, <1>2, <1>5
    <3>3. CASE evidence.band # sample.band BY <2>1, <2>4, <3>1, <3>3, <1>1, <1>5
    <3> QED BY <3>2, <3>3
  <2> QED BY <1>1, <2>3, <2>4
<1> DEFINE capped == IF low < LowPersist THEN low ELSE LowPersist
<1>9. low \in Nat /\ clear \in Nat /\ capped <= low /\ capped \in Nat /\ turned \in BOOLEAN
  BY <1>1, <1>5
<1>10. turned <=> low >= LowPersist OBVIOUS
<1> HIDE DEF from, low, clear, turned, capped
<1>11. evidence'.band = sample.band /\ evidence'.last = sample.age /\ evidence'.since = from
  BY <1>3
<1>12. /\ estimator'.last = sample.age
       /\ estimator'.latched = FALSE => Earned(estimator.low, "low")'
       /\ estimator'.latched = TRUE => Earned(estimator.clear, "high")'
       /\ LatchStep
  <2>1. CASE estimator.latched = FALSE
    <3>1. estimator' = [last |-> sample.age, low |-> capped, clear |-> 0, latched |-> turned]
      BY <1>6, <2>1 DEF capped
    <3>2. /\ estimator'.last = sample.age /\ estimator'.low = capped /\ estimator'.clear = 0
          /\ estimator'.latched = turned
      BY <3>1
    <3>3. Earned(estimator.low, "low")'
      BY <3>2, <1>7, <1>9, <1>11, <1>1, <1>4, <2>1 DEF Earned
    <3>4. Earned(estimator.clear, "high")' BY <3>2 DEF Earned
    <3>5. turned => evidence'.band = "low" /\ evidence'.since >= LowPersist
      BY <1>1, <1>4, <1>7, <1>9, <1>10, <1>11, <2>1
    <3>6. LatchStep BY <2>1, <3>2, <3>5, <1>9 DEF LatchStep
    <3> QED BY <3>2, <3>3, <3>4, <3>6
  <2>2. CASE estimator.latched = TRUE /\ clear >= ClearPersist
    <3>1. /\ estimator'.last = sample.age /\ estimator'.low = 0
          /\ estimator'.latched = FALSE
      BY <1>6, <2>2
    <3>2. Earned(estimator.low, "low")' BY <3>1 DEF Earned
    <3>3. evidence'.band = "high" /\ evidence'.since >= ClearPersist
      BY <1>1, <1>4, <1>8, <1>9, <1>11, <2>2
    <3>4. LatchStep BY <2>2, <3>1, <3>3 DEF LatchStep
    <3> QED BY <3>1, <3>2, <3>4
  <2>3. CASE estimator.latched = TRUE /\ ~(clear >= ClearPersist)
    <3>1. /\ estimator'.last = sample.age /\ estimator'.clear = clear
          /\ estimator'.latched = TRUE
      BY <1>6, <2>3
    <3>2. Earned(estimator.clear, "high")'
      BY <3>1, <1>8, <1>9, <1>11, <1>1, <1>4, <2>3 DEF Earned
    <3>3. LatchStep BY <2>3, <3>1 DEF LatchStep
    <3> QED BY <3>1, <3>2, <3>3
  <2> QED BY <2>1, <2>2, <2>3, <1>1
<1>13. evidence' \in [band : Bands, since : 0 .. OldAge, last : Unbroken .. OldAge]
  BY <1>1, <1>3, <1>4
<1>14. from >= sample.age
  BY <1>1, <1>2 DEF from
<1>15. ClocksAreEarned' BY <1>11, <1>12, <1>14, <1>1 DEF ClocksAreEarned
<1> QED BY <1>12, <1>13, <1>15

(* The guard message of a tick has its type.                               *)
LEMMA GuardMessage ==
    ASSUME BatteryTypeOK, TelemetryTick,
           estimator' \in [last : Unbroken .. OldAge, low : 0 .. LowPersist,
                           clear : 0 .. ClearPersist, latched : BOOLEAN],
           evidence' \in [band : Bands, since : 0 .. OldAge, last : Unbroken .. OldAge]
    PROVE  BatteryTypeOK'
<1> DEFINE state == StateLabel(sample, estimator'.latched)
           fresh == sample.known /\ sample.fresh /\ LinkFresh(sample)
           recommend == estimator'.latched
<1>1. guardMsg' = [state |-> state, fresh |-> fresh, recommend |-> recommend]
      /\ ticked' = TRUE /\ UNCHANGED <<source, sample>>
  BY DEF TelemetryTick
<1>2. state \in {"none", "UNAVAILABLE", "STALE", "SUSPECT", "LOW_ENERGY_GO_HOME", "OK"}
  BY DEF StateLabel
<1>3. fresh \in BOOLEAN /\ recommend \in BOOLEAN OBVIOUS
<1> HIDE DEF state, fresh, recommend
<1> QED BY <1>1, <1>2, <1>3 DEF BatteryTypeOK

LEMMA TickStep ==
    ASSUME BatteryInv, TelemetryTick
    PROVE  BatteryInv' /\ LatchStep
<1> USE OldAgeBounds DEF BatteryInv
<1>1. /\ estimator' = Estimated(estimator, sample) /\ evidence' = Vouched(sample)
      /\ ticked' = TRUE /\ UNCHANGED <<source, sample>>
  BY DEF TelemetryTick
<1>2. /\ estimator.latched \in BOOLEAN /\ sample.known \in BOOLEAN
      /\ sample.suspect \in BOOLEAN /\ LinkFresh(sample) \in BOOLEAN
      /\ evidence \in [band : Bands, since : 0 .. OldAge, last : Unbroken .. OldAge]
  BY DEF BatteryTypeOK, LinkFresh
<1>3. CASE source = "external" /\ sample.known = TRUE /\ sample.suspect = FALSE
           /\ LinkFresh(sample)
  <2>1. estimator' = Update(estimator, sample) BY <1>1, <1>3 DEF Estimated, Trusted
  <2>2. estimator' \in [last : Unbroken .. OldAge, low : 0 .. LowPersist,
                        clear : 0 .. ClearPersist, latched : BOOLEAN]
    BY <2>1, Updated
  <2>3. /\ evidence' \in [band : Bands, since : 0 .. OldAge, last : Unbroken .. OldAge]
        /\ ClocksAreEarned' /\ LatchStep
    BY <1>1, <1>3, <2>1, TrustedSample
  <2>4. BatteryTypeOK' BY <1>1, <2>2, <2>3, GuardMessage
  <2> QED BY <2>3, <2>4
<1>4. CASE source = "external" /\ ~(sample.known = TRUE /\ sample.suspect = FALSE
                                    /\ LinkFresh(sample))
  <2>1. estimator' = BreakContinuity(estimator) /\ evidence' = NoEvidence
    BY <1>1, <1>2, <1>4 DEF Estimated, Trusted, Vouched
  <2>2. /\ estimator' \in [last : {Unbroken}, low : {0}, clear : {0}, latched : BOOLEAN]
        /\ estimator'.latched = estimator.latched
    BY <2>1, Broken
  <2>3. estimator' \in [last : Unbroken .. OldAge, low : 0 .. LowPersist,
                        clear : 0 .. ClearPersist, latched : BOOLEAN]
    BY <2>2 DEF Unbroken
  <2>4. BatteryTypeOK' BY <1>1, <2>1, <2>3, NoEvidenceType, GuardMessage
  <2>5. ClocksAreEarned' BY <1>1, <2>1, <2>2, NoEvidenceType DEF ClocksAreEarned, Earned
  <2>6. LatchStep BY <1>2, <2>2 DEF LatchStep
  <2> QED BY <2>4, <2>5, <2>6
<1>5. CASE source # "external"
  <2>1. estimator' \in [last : Unbroken .. OldAge, low : 0 .. LowPersist,
                        clear : 0 .. ClearPersist, latched : BOOLEAN]
    <3>1. CASE estimator' = estimator BY <3>1 DEF BatteryTypeOK
    <3>2. CASE estimator' = Update(estimator, sample) BY <3>2, Updated
    <3> QED BY <1>1, <1>5, <3>1, <3>2 DEF Estimated, Trusted
  <2>2. evidence' \in [band : Bands, since : 0 .. OldAge, last : Unbroken .. OldAge]
    <3>1. CASE evidence' = NoEvidence BY <3>1, NoEvidenceType
    <3>2. CASE evidence' # NoEvidence
      <4> DEFINE from == IF evidence.last = Unbroken THEN sample.age
                         ELSE IF evidence.band = sample.band THEN evidence.since
                         ELSE evidence.last
      <4>1. evidence' = [band |-> sample.band, last |-> sample.age, since |-> from]
        BY <1>1, <3>2 DEF Vouched
      <4>2. /\ sample.age \in 0 .. OldAge /\ sample.band \in Bands
            /\ from \in 0 .. OldAge
        BY <1>2 DEF BatteryTypeOK, Unbroken
      <4> HIDE DEF from
      <4> QED BY <4>1, <4>2 DEF Unbroken
    <3> QED BY <3>1, <3>2
  <2>3. BatteryTypeOK' BY <1>1, <2>1, <2>2, GuardMessage
  <2> QED BY <1>1, <1>5, <2>3 DEF ClocksAreEarned, LatchStep
<1> QED BY <1>3, <1>4, <1>5

(* Time passes: the sample, the estimator and the evidence age together.   *)
LEMMA BatteryAges ==
    ASSUME BatteryInv, ElapseBattery
    PROVE  BatteryInv' /\ LatchStep
<1> USE OldAgeBounds DEF BatteryInv
<1> DEFINE age == IF ~sample.known \/ (source = "transport" /\ sample.fresh) THEN 0
                  ELSE Aged(sample.age)
           heard == IF estimator.last = Unbroken THEN estimator.last ELSE Aged(estimator.last)
           since == Aged(evidence.since)
           final == Aged(evidence.last)
<1>1. /\ sample' = [sample EXCEPT !.age = age]
      /\ estimator' = [estimator EXCEPT !.last = heard]
      /\ evidence' = IF evidence.last = Unbroken THEN evidence
                     ELSE [evidence EXCEPT !.since = since, !.last = final]
      /\ ticked' = FALSE /\ UNCHANGED <<source, guardMsg>>
  BY DEF ElapseBattery
<1>2. /\ age \in 0 .. OldAge /\ heard \in Unbroken .. OldAge
      /\ since \in 0 .. OldAge
      /\ evidence.last # Unbroken => final \in 0 .. OldAge
  BY DEF BatteryTypeOK, Aged, Unbroken
<1>3. heard = Unbroken <=> estimator.last = Unbroken
  BY DEF BatteryTypeOK, Aged, Unbroken
<1>4. source = "external" /\ evidence.last # Unbroken => heard = final
  BY DEF ClocksAreEarned
<1>5. source = "external" /\ sample.known = TRUE /\ estimator.last # Unbroken => age <= heard
  BY DEF BatteryTypeOK, ClocksAreEarned, Aged, Unbroken
<1>6. evidence.last # Unbroken /\ evidence.since >= evidence.last => since >= final
  BY DEF BatteryTypeOK, Aged, Unbroken
<1>7. ASSUME NEW n \in Nat, evidence.last # Unbroken,
             evidence.since >= n + evidence.last \/ evidence.since = OldAge
      PROVE  since >= n + final \/ since = OldAge
  BY <1>7 DEF BatteryTypeOK, Aged, Unbroken
<1> HIDE DEF age, heard, since, final
<1>8. BatteryTypeOK'
  <2>1. sample' \in [known : BOOLEAN, band : Bands, suspect : BOOLEAN, age : 0 .. OldAge,
                     ready : BOOLEAN, fresh : BOOLEAN]
    BY <1>1, <1>2 DEF BatteryTypeOK
  <2>2. estimator' \in [last : Unbroken .. OldAge, low : 0 .. LowPersist,
                        clear : 0 .. ClearPersist, latched : BOOLEAN]
    BY <1>1, <1>2 DEF BatteryTypeOK
  <2>3. evidence' \in [band : Bands, since : 0 .. OldAge, last : Unbroken .. OldAge]
    <3>1. CASE evidence.last = Unbroken BY <1>1, <3>1 DEF BatteryTypeOK
    <3>2. CASE evidence.last # Unbroken
      <4>1. final \in Unbroken .. OldAge BY <1>2, <3>2 DEF Unbroken
      <4> QED BY <1>1, <1>2, <3>2, <4>1 DEF BatteryTypeOK
    <3> QED BY <3>1, <3>2
  <2> QED BY <1>1, <2>1, <2>2, <2>3 DEF BatteryTypeOK
<1>9. /\ estimator'.last = heard /\ estimator'.latched = estimator.latched
      /\ estimator'.low = estimator.low /\ estimator'.clear = estimator.clear
      /\ sample'.age = age /\ sample'.known = sample.known
  BY <1>1 DEF BatteryTypeOK
<1>10. /\ estimator.low \in Nat /\ estimator.clear \in Nat
       /\ estimator.latched \in BOOLEAN
  BY DEF BatteryTypeOK
<1>11. CASE evidence.last = Unbroken
  <2>1. evidence' = evidence BY <1>1, <1>11
  <2>2. ClocksAreEarned' BY <1>1, <1>3, <1>9, <1>11, <2>1 DEF ClocksAreEarned, Earned
  <2> QED BY <1>8, <1>9, <1>10, <2>2 DEF LatchStep
<1>12. CASE evidence.last # Unbroken
  <2>1. /\ evidence'.band = evidence.band /\ evidence'.since = since
        /\ evidence'.last = final
    BY <1>1, <1>12 DEF BatteryTypeOK
  <2>2. final # Unbroken BY <1>2, <1>12 DEF Unbroken
  <2>3. ASSUME NEW band, Earned(estimator.low, band) PROVE Earned(estimator.low, band)'
    BY <1>7, <1>9, <1>10, <1>12, <2>1, <2>2, <2>3 DEF Earned
  <2>4. ASSUME NEW band, Earned(estimator.clear, band) PROVE Earned(estimator.clear, band)'
    BY <1>7, <1>9, <1>10, <1>12, <2>1, <2>2, <2>4 DEF Earned
  <2>5. ClocksAreEarned'
    BY <1>1, <1>3, <1>4, <1>5, <1>6, <1>9, <1>12, <2>1, <2>2, <2>3, <2>4
       DEF ClocksAreEarned
  <2> QED BY <1>8, <1>9, <1>10, <2>5 DEF LatchStep
<1> QED BY <1>11, <1>12

LEMMA BatteryStep ==
    ASSUME BatteryInv, [BatteryNext]_batteryVars
    PROVE  BatteryInv' /\ LatchStep
<1>1. ASSUME NEW band \in Bands, NEW suspect \in BOOLEAN, NEW usable \in BOOLEAN,
             NEW age \in 0 .. StaleTimeout, OnExternalBattery(band, suspect, usable, age)
      PROVE  BatteryInv' /\ LatchStep
  BY <1>1, MessageStep
<1>2. ASSUME NEW band \in Bands, NEW suspect \in BOOLEAN, NEW ready \in BOOLEAN,
             NEW fresh \in BOOLEAN, SetSimBattery(band, suspect, ready, fresh)
      PROVE  BatteryInv' /\ LatchStep
  BY <1>2, SimulatedStep
<1>3. CASE UNCHANGED batteryVars
  <2>1. estimator.latched \in BOOLEAN BY DEF BatteryInv, BatteryTypeOK
  <2> QED BY <1>3, <2>1 DEF batteryVars, BatteryInv, BatteryTypeOK, ClocksAreEarned, Earned,
                            LatchStep
<1> QED BY <1>1, <1>2, <1>3, TickStep, BatteryAges DEF BatteryNext
=============================================================================
