---------------------------- MODULE KeepoutZones ----------------------------
(***************************************************************************)
(* No-go zones from the operator to the costmap: zones_manager.py projects *)
(* a document, saves it and publishes it (latched, depth 1), and the       *)
(* costmap layer vector_keepout_layer.cpp paints what it received, its     *)
(* subscription and the costmap's update thread sharing four lists.        *)
(*                                                                         *)
(* A document names the zones it enables and the ones it disables; a cell  *)
(* of the costmap stands for a zone seen through a transform map -> odom.  *)
(* All of zones_manager's services run in one mutually exclusive group, so *)
(* only a crash comes between the steps of _apply.                         *)
(***************************************************************************)
EXTENDS Integers

CONSTANTS
    Documents,      \* GeoJSON documents that normalize_geojson accepts
    Transforms,     \* map -> odom, as localization moves it
    MaxApplies,     \* bound: set_geojson and reload_from_disk requests
    MaxZoneCrashes  \* bound: restarts of zones_manager

EMPTY_GEOJSON == [on |-> {}, off |-> {}]
NoZoneFile == [st |-> "missing", doc |-> EMPTY_GEOJSON]
Saved(doc) == [st |-> "valid", doc |-> doc]
NoKeepouts == [rev |-> 0, zones |-> {}]

VARIABLES
    zoneFile,       \* no_go_zones.geojson: is it there, is it valid, its document
    manager,        \* _document, _mask_ready, _projected_revision, and _apply's progress
    mail,           \* the latched message, if the layer has not had it yet
    layer,          \* polygons_map_, previous_map_, previous_rendered_, cycle_polygons_,
                    \* current_, and where the update thread is
    master,         \* keepout cells of the master costmap, external
    odom,           \* the transform of the moment
    settled,        \* history: a cycle has painted what was delivered last
    nApplies, nZoneCrashes

zoneVars == <<zoneFile, manager, mail, layer, master, odom, settled, nApplies, nZoneCrashes>>

Booting == [pc |-> "boot", doc |-> EMPTY_GEOJSON, ready |-> FALSE, rev |-> 0,
            cand |-> EMPTY_GEOJSON, persist |-> FALSE]

ZonesInit ==
    /\ zoneFile \in {NoZoneFile, [st |-> "invalid", doc |-> EMPTY_GEOJSON]}
                    \union {Saved(d) : d \in Documents}
    /\ manager = Booting
    /\ mail = NoKeepouts
    /\ layer = [pc |-> "idle", current |-> {}, previous |-> {}, rendered |-> {}, cycle |-> {},
                ok |-> TRUE, read |-> {}, dirty |-> {}]
    /\ master = {}
    /\ odom \in Transforms
    /\ settled = FALSE
    /\ nApplies = 0 /\ nZoneCrashes = 0

-----------------------------------------------------------------------------
(* zones_manager.  _load_initial_state, from its one-shot timer: a missing *)
(* file is created, an invalid one is ignored and left in place.           *)
LoadInitialState ==
    /\ manager.pc = "boot"
    /\ manager' = [manager EXCEPT !.pc = "project", !.persist = zoneFile = NoZoneFile,
                                  !.cand = zoneFile.doc]
    /\ UNCHANGED <<zoneFile, mail, layer, master, odom, settled, nApplies, nZoneCrashes>>

(* _set_geojson with a valid document, and _reload.                        *)
SetGeojson(doc) ==
    /\ manager.pc = "idle" /\ nApplies < MaxApplies
    /\ nApplies' = nApplies + 1
    /\ manager' = [manager EXCEPT !.pc = "project", !.persist = TRUE, !.cand = doc]
    /\ UNCHANGED <<zoneFile, mail, layer, master, odom, settled, nZoneCrashes>>

Reload ==
    /\ manager.pc = "idle" /\ nApplies < MaxApplies
    /\ zoneFile.st = "valid"
    /\ nApplies' = nApplies + 1
    /\ manager' = [manager EXCEPT !.pc = "project", !.persist = FALSE, !.cand = zoneFile.doc]
    /\ UNCHANGED <<zoneFile, mail, layer, master, odom, settled, nZoneCrashes>>

(* _project: every vertex, of disabled zones too, needs fromLL.            *)
Project(ok) ==
    /\ manager.pc = "project"
    /\ ~ok => manager.cand # EMPTY_GEOJSON
    /\ manager' = [manager EXCEPT !.pc = IF ~ok THEN "idle"
                                         ELSE IF manager.persist THEN "persist" ELSE "activate"]
    /\ UNCHANGED <<zoneFile, mail, layer, master, odom, settled, nApplies, nZoneCrashes>>

(* Broken variant: the document is activated although it was not saved.    *)
PersistDocumentAnyway(ok) ==
    /\ manager.pc = "persist"
    /\ zoneFile' = IF ok THEN Saved(manager.cand) ELSE zoneFile
    /\ manager' = [manager EXCEPT !.pc = "activate"]
    /\ UNCHANGED <<mail, layer, master, odom, settled, nApplies, nZoneCrashes>>

(* _persist_document: replaced atomically or not at all.                   *)
PersistDocument(ok) ==
    /\ manager.pc = "persist"
    /\ zoneFile' = IF ok THEN Saved(manager.cand) ELSE zoneFile
    /\ manager' = [manager EXCEPT !.pc = IF ok THEN "activate" ELSE "idle"]
    /\ UNCHANGED <<mail, layer, master, odom, settled, nApplies, nZoneCrashes>>

(* _activate_document and the publication that follows it.                 *)
ActivateDocument ==
    /\ manager.pc = "activate"
    /\ manager' = [manager EXCEPT !.pc = "publish", !.doc = manager.cand, !.ready = TRUE,
                                  !.rev = @ + 1]
    /\ settled' = FALSE
    /\ UNCHANGED <<zoneFile, mail, layer, master, odom, nApplies, nZoneCrashes>>

PublishProjectedState ==
    /\ manager.pc = "publish"
    /\ manager' = [manager EXCEPT !.pc = "idle"]
    /\ mail' = [rev |-> manager.rev, zones |-> manager.doc.on]
    /\ settled' = FALSE
    /\ UNCHANGED <<zoneFile, layer, master, odom, nApplies, nZoneCrashes>>

(* The process dies and is started again; a latched message dies with it.  *)
ZonesManagerCrashes ==
    /\ nZoneCrashes < MaxZoneCrashes
    /\ nZoneCrashes' = nZoneCrashes + 1
    /\ manager' = Booting
    /\ mail' = NoKeepouts
    /\ settled' = FALSE
    /\ UNCHANGED <<zoneFile, layer, master, odom, nApplies>>

-----------------------------------------------------------------------------
(* The layer.                                                              *)

(* state_callback and replace_state.                                       *)
StateCallback ==
    /\ mail # NoKeepouts
    /\ layer' = [layer EXCEPT !.previous = layer.current, !.current = mail.zones, !.ok = TRUE]
    /\ mail' = NoKeepouts
    /\ settled' = FALSE
    /\ UNCHANGED <<zoneFile, manager, master, odom, nApplies, nZoneCrashes>>

(* transform_polygons *)
ZoneCells(zones) == zones \X {odom}

(* Broken variant: the cells of the previous cycle are not dirty.          *)
DirtyWithoutRendered(other) == ZoneCells(layer.current \union layer.previous) \union other

(* add_bounds for the three lists; `other`: what the other layers changed. *)
Dirty(other) == ZoneCells(layer.current \union layer.previous) \union layer.rendered \union other

(* updateBounds, up to its second lock.  Without a transform the layer     *)
(* adds no bounds.                                                         *)
UpdateBounds(other, found) ==
    /\ layer.pc = "idle"
    /\ layer' = IF found
                THEN [layer EXCEPT !.pc = "bounds", !.read = ZoneCells(layer.current),
                                   !.dirty = Dirty(other)]
                ELSE [layer EXCEPT !.pc = "failed", !.ok = FALSE, !.dirty = other]
    /\ settled' = (settled /\ found)
    /\ UNCHANGED <<zoneFile, manager, mail, master, odom, nApplies, nZoneCrashes>>

(* The second locked section and the assignment after it.                  *)
StoreRendered ==
    /\ layer.pc = "bounds"
    /\ layer' = [layer EXCEPT !.pc = "costs", !.previous = {}, !.rendered = layer.read,
                              !.cycle = layer.read, !.ok = TRUE]
    /\ UNCHANGED <<zoneFile, manager, mail, master, odom, settled, nApplies, nZoneCrashes>>

(* The costmap has reset the dirty region; updateCosts paints it again.    *)
UpdateCosts ==
    /\ layer.pc \in {"costs", "failed"}
    /\ layer' = [layer EXCEPT !.pc = "idle", !.read = {}, !.dirty = {}]
    /\ master' = (master \ layer.dirty) \union
                 (IF layer.ok THEN layer.cycle \intersect layer.dirty ELSE {})
    /\ settled' = (layer.pc = "costs" /\ layer.read = ZoneCells(layer.current) /\ layer.cycle = layer.read
                   /\ mail = NoKeepouts /\ manager.ready /\ manager.pc # "publish")
    /\ UNCHANGED <<zoneFile, manager, mail, odom, nApplies, nZoneCrashes>>

(* A clear service resets the master and calls reset() of every layer.     *)
ResetLayer ==
    /\ layer.pc = "idle"
    /\ layer' = [layer EXCEPT !.previous = layer.current, !.ok = TRUE]
    /\ master' = {}
    /\ settled' = FALSE
    /\ UNCHANGED <<zoneFile, manager, mail, odom, nApplies, nZoneCrashes>>

TransformMoves(t) ==
    /\ t # odom /\ layer.pc = "idle"
    /\ odom' = t
    /\ settled' = FALSE
    /\ UNCHANGED <<zoneFile, manager, mail, layer, master, nApplies, nZoneCrashes>>

AllZones == UNION {d.on \union d.off : d \in Documents}

ZonesNext ==
    \/ LoadInitialState \/ Reload \/ \E d \in Documents : SetGeojson(d)
    \/ \E ok \in BOOLEAN : Project(ok) \/ PersistDocument(ok)
    \/ ActivateDocument \/ PublishProjectedState \/ ZonesManagerCrashes
    \/ StateCallback \/ StoreRendered \/ UpdateCosts \/ ResetLayer
    \/ \E other \in {{}, AllZones \X Transforms}, found \in BOOLEAN : UpdateBounds(other, found)
    \/ \E t \in Transforms : TransformMoves(t)

-----------------------------------------------------------------------------
ZonesTypeOK ==
    /\ zoneFile \in [st : {"missing", "invalid", "valid"},
                     doc : Documents \union {EMPTY_GEOJSON}]
    /\ manager.doc \in Documents \union {EMPTY_GEOJSON}
    /\ master \subseteq AllZones \X Transforms
    /\ layer.rendered \union layer.cycle \union layer.read \subseteq AllZones \X Transforms

(* What zones_manager calls ready is what it would load after a crash, and *)
(* what it publishes: a document is never live and lost.  The one document *)
(* that is live and not on disk is the empty one, for an invalid file.     *)
LiveIsSaved ==
    manager.ready /\ manager.pc = "idle" =>
        zoneFile.st \in {"valid", "invalid"} /\ manager.doc = zoneFile.doc

(* Once the layer has painted what was delivered last, the costmap holds   *)
(* the enabled zones of the live document where the transform puts them,   *)
(* and no ghost of an earlier document or transform: whatever came between *)
(* the two locked sections of an update, after a failed lookup, a cleared  *)
(* costmap, two deliveries in one cycle, and a restart that counts the     *)
(* revisions from one again.                                               *)
NoGhostKeepouts ==
    settled => master = manager.doc.on \X {odom}
=============================================================================
