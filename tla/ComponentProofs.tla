--------------------------- MODULE ComponentProofs ---------------------------
(***************************************************************************)
(* What the lemmas of ComponentLemmas establish for the behaviours of      *)
(* MCComponents, in which one component moves and the others rest.         *)
(***************************************************************************)
EXTENDS MCComponents, ComponentLemmas

RecordsInv == LibraryInv /\ FileInv /\ MatrixInv
PlansInv == ZonesInv /\ PathInv /\ SnapshotInv

LEMMA RecordsInitially == Init => RecordsInv
BY LibraryInitially, FileInitially, MatrixInitially DEF Init, RecordsInit, RecordsInv

LEMMA PlansInitially == Init => PlansInv
BY ZonesInitially, PathInitially, SnapshotInitially DEF Init, PlansInit, PlansInv

(* Every step of the run is a step of the component, or lets it rest.      *)
LEMMA OneComponentMoves ==
    ASSUME [Next]_allVars
    PROVE  /\ [BatteryNext]_batteryVars
           /\ [LibraryNext]_libraryVars /\ [FileNext]_fileVars /\ [MatrixNext]_matrixVars
           /\ [ZonesNext]_zoneVars /\ [PathNext]_pathVars /\ [SnapshotNext]_snapshotVars
<1>1. CASE Next
  <2>1. CASE RecordsNext /\ UNCHANGED <<batteryVars, planVars>> BY <2>1 DEF RecordsNext, planVars
  <2>2. CASE PlansNext /\ UNCHANGED <<batteryVars, recordVars>> BY <2>2 DEF PlansNext, recordVars
  <2>3. CASE /\ BatteryNext \/ UNCHANGED batteryVars
             /\ UNCHANGED <<recordVars, planVars>>
    BY <2>3 DEF recordVars, planVars
  <2> QED BY <1>1, <2>1, <2>2, <2>3 DEF Next
<1>2. CASE UNCHANGED allVars BY <1>2 DEF allVars, recordVars, planVars
<1> QED BY <1>1, <1>2

(* RecordsSafe, for any number of operators, gateway processes, routes,    *)
(* waypoints, cells, workers and domains: the write of an operation on the *)
(* library contains every update before it and whatever dies leaves a file *)
(* that can be read, waypoints mean after a restart what was saved, no two *)
(* simulations share a domain, and a matrix exits well only when every     *)
(* cell has passed.                                                        *)
THEOREM RecordsAreSafe == Spec => []RecordsSafe
<1>1. Init => RecordsInv
  BY RecordsInitially
<1>2. RecordsInv /\ [Next]_allVars => RecordsInv'
  BY OneComponentMoves, LibraryStep, FileStep, MatrixStep DEF RecordsInv
<1>3. RecordsInv => RecordsSafe
  BY LibraryKept, FileComesBack, MatrixKept DEF RecordsInv, RecordsSafe
<1> QED BY <1>1, <1>2, <1>3, PTL DEF Spec

(* NavigationSafe, for any documents, transforms, costmaps, horizons and   *)
(* timeouts: a far obstacle replaces the path only after it was seen as    *)
(* long as it takes in two costmaps of one run, what zones_manager calls   *)
(* ready is on disk, a settled costmap holds the live keepouts and nothing *)
(* else, no plan is drawn more than MaxAge after navigation ended, and one *)
(* that is retained past its age was cached while the telemetry told of an *)
(* active goal or was at most MaxAge old when it began to.                 *)
THEOREM NavigationIsSafe == Spec => []NavigationSafe
<1>1. Init => PlansInv
  BY PlansInitially
<1>2. PlansInv /\ [Next]_allVars => PlansInv'
  BY OneComponentMoves, ZonesStep, PathStep, SnapshotStep DEF PlansInv
<1>3. PlansInv => NavigationSafe
  BY KeepoutsHold DEF PlansInv, NavigationSafe, PathInv, PersistentIsEarned, FarReplanIsEarned,
     SnapshotInv
<1> QED BY <1>1, <1>2, <1>3, PTL DEF Spec

(* The revisions of the route library grow in every step of the run: a     *)
(* conjunct of StepsAreOrdered.                                            *)
THEOREM RevisionsOnlyGrow == Spec => [][RevisionStep]_allVars
<1>1. Init => LibraryInv BY LibraryInitially DEF Init, RecordsInit
<1>2. LibraryInv /\ [Next]_allVars => LibraryInv' BY OneComponentMoves, LibraryStep
<1>3. LibraryInv /\ [Next]_allVars => RevisionStep BY OneComponentMoves, LibraryRevisionStep
<1> QED BY <1>1, <1>2, <1>3, PTL DEF Spec

(* The latch of the battery guard is earned, for any persistence and any   *)
(* stale timeout: with the BMS as source it is set only after every        *)
(* trusted sample since the last one that was not low has been low for     *)
(* battery_return_home_persist_s, and cleared likewise: a conjunct of      *)
(* StepsAreOrdered.                                                        *)
THEOREM BatteryLatchIsEarned == Spec => [][LatchStep]_allVars
<1>1. Init => BatteryInv BY BatteryInitially DEF Init
<1>2. BatteryInv /\ [Next]_allVars => BatteryInv' BY OneComponentMoves, BatteryStep
<1>3. BatteryInv /\ [Next]_allVars => LatchStep BY OneComponentMoves, BatteryStep
<1> QED BY <1>1, <1>2, <1>3, PTL DEF Spec
===============================================================================
