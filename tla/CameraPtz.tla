------------------------------ MODULE CameraPtz ------------------------------
(***************************************************************************)
(* The pan-tilt-zoom camera node: camera_node.py with camera_domain.py,    *)
(* the backends (camera_backend.py, camera_onvif.py) and camera_presets.py.*)
(*                                                                         *)
(* Every handler runs under _operation_lock, so a handler is one action.   *)
(* The network may lose a request or its answer; a head that is not        *)
(* simulated reaches its aim some time after the write was answered.       *)
(* Angles are on a grid: a turn has Turn positions, of which pan_max_deg   *)
(* leaves the last one out of reach.                                       *)
(***************************************************************************)
EXTENDS Integers, FiniteSets

CONSTANTS
    Backends,           \* a subset of {"sim", "isapi", "onvif_uniarch", "none"}
    Turn, TiltMax, ZoomMax,
    ProbeCooldown,      \* camera_probe_cooldown_s, in ticks
    MaxFaults,          \* bound: requests the network or the disk fails
    MaxSaves,           \* bound: presets saved
    MaxNodeCrashes

Pose == [pan : 0..Turn - 1, tilt : 0..TiltMax, zoom : 1..ZoomMax]
PresetNames == {"home", "front", "left"}
NoPose == [pan |-> 0, tilt |-> 0, zoom |-> 0]
Poses == Pose \union {NoPose}

VARIABLES
    backend,    \* the configured backend; "none": the configuration is invalid
    node,       \* "up" or "down"
    cam,        \* CameraState: available, pose, active_preset
    cooldown,   \* ticks until _probe may try again by itself
    presets, disk,
    head, aim,  \* where the camera looks and where it was told to look
    still,      \* history: the head rested when its pose was last read
    nFaults, nSaves, nCrashes

cameraVars == <<backend, node, cam, cooldown, presets, disk, head, aim, still,
                nFaults, nSaves, nCrashes>>

CameraTypeOK ==
    /\ backend \in Backends /\ node \in {"up", "down"}
    /\ cam.available \in BOOLEAN /\ cam.pose \in Poses
    /\ cam.preset \in PresetNames \union {""}
    /\ cooldown \in 0..ProbeCooldown
    /\ presets \in [PresetNames -> Pose]
    /\ disk \in [PresetNames -> Pose] \union {<<>>}
    /\ head \in Pose /\ aim \in Pose /\ still \in BOOLEAN
    /\ nFaults \in 0..MaxFaults /\ nSaves \in 0..MaxSaves /\ nCrashes \in 0..MaxNodeCrashes

-----------------------------------------------------------------------------
ClampTo(v, low, high) == IF v < low THEN low ELSE IF v > high THEN high ELSE v

(* normalize_pan: once round the circle, then inside the limits.           *)
NormalizePan(angle) == ClampTo(angle % Turn, 0, Turn - 2)

NormalizePose(pan, tilt, zoom) ==
    [pan |-> NormalizePan(pan), tilt |-> ClampTo(tilt, 0, TiltMax),
     zoom |-> ClampTo(zoom, 1, ZoomMax)]

(* target_pose for the axes an operator selects; a value of an axis that   *)
(* is not selected is ignored.                                             *)
TargetPose(current, relative, axes, value) ==
    LET axis(a, now) == IF a \notin axes THEN now
                        ELSE IF relative THEN now + value ELSE value
    IN  NormalizePose(axis("pan", current.pan), axis("tilt", current.tilt),
                      axis("zoom", current.zoom))

DefaultPresets ==
    [n \in PresetNames |-> NormalizePose(IF n = "left" THEN 1 ELSE 0, 0, 1)]

(* matching_preset: the first in the order of the table.                   *)
MatchingPreset(pose, table) ==
    IF table["home"] = pose THEN "home"
    ELSE IF table["front"] = pose THEN "front"
    ELSE IF table["left"] = pose THEN "left" ELSE ""

(* saved_preset: home stores the zoom, the lateral presets keep theirs.    *)
SavedPreset(name, current, table) ==
    [current EXCEPT !.zoom = IF name = "home" THEN current.zoom ELSE table[name].zoom]

(* PresetRepository.load over the defaults; a missing or unreadable file   *)
(* leaves the defaults.                                                    *)
LoadPresets(document) == IF document = <<>> THEN DefaultPresets ELSE document

-----------------------------------------------------------------------------
(* The configuration a backend needs is complete; otherwise the node runs  *)
(* without one.                                                            *)
Configured == backend # "none"

(* SimCameraBackend moves at once and is always available.                 *)
Simulated == backend = "sim"

(* read_state: ONVIF reports no zoom.                                      *)
ReadState(looks) == IF backend = "onvif_uniarch" THEN [looks EXCEPT !.zoom = 1] ELSE looks

(* What a write does: whether it is carried out and whether it is answered.*)
(* The simulated camera never fails; ONVIF refuses a zoom.                 *)
WriteOutcomes(target) ==
    IF Simulated THEN {[done |-> TRUE, ok |-> TRUE]}
    ELSE IF backend = "onvif_uniarch" /\ target.zoom # 1
    THEN {[done |-> FALSE, ok |-> FALSE]}
    ELSE {[done |-> TRUE, ok |-> TRUE]} \union
         (IF nFaults < MaxFaults
          THEN {[done |-> TRUE, ok |-> FALSE], [done |-> FALSE, ok |-> FALSE]} ELSE {})

ReadOutcomes ==
    IF ~Configured THEN {FALSE}
    ELSE IF ~Simulated /\ nFaults < MaxFaults THEN BOOLEAN ELSE {TRUE}

(* _state_from_pose.                                                       *)
StateFromPose(pose, table) ==
    [available |-> TRUE, pose |-> pose, preset |-> MatchingPreset(pose, table)]

(* Broken variant: a failed command leaves the camera available.           *)
FailedButAvailable(state) == state

(* The except branch of _execute.                                          *)
CommandFailed(state) == [state EXCEPT !.available = FALSE]

(* _probe with the request answered or not; the cooldown starts again.     *)
Probed(state, table, answered) ==
    IF ~Configured THEN state
    ELSE IF answered THEN StateFromPose(ReadState(head), table) ELSE [state EXCEPT !.available = FALSE]

MayProbe == cooldown = 0

-----------------------------------------------------------------------------
CameraInit ==
    /\ backend \in Backends /\ node = "down"
    /\ cam = [available |-> FALSE, pose |-> NoPose, preset |-> ""]
    /\ cooldown = 0 /\ presets = DefaultPresets /\ disk = <<>>
    /\ head = NormalizePose(0, 0, 1) /\ aim = head /\ still = TRUE
    /\ nFaults = 0 /\ nSaves = 0 /\ nCrashes = 0

(* __init__: the presets are loaded, the backend configured and probed.    *)
(* The simulated camera is part of the node and starts at its initial pose.*)
CameraStarts ==
    /\ node = "down" /\ node' = "up"
    /\ presets' = LoadPresets(disk)
    /\ IF Simulated
       THEN head' = NormalizePose(0, 0, 1) /\ aim' = head'
       ELSE UNCHANGED <<head, aim>>
    /\ \E answered \in ReadOutcomes :
          /\ cam' = IF ~Configured \/ ~answered
                    THEN [available |-> FALSE, pose |-> NoPose, preset |-> ""]
                    ELSE StateFromPose(ReadState(head'), presets')
          /\ nFaults' = IF answered \/ ~Configured THEN nFaults ELSE nFaults + 1
    /\ cooldown' = ProbeCooldown /\ still' = (head' = aim')
    /\ UNCHANGED <<backend, disk, nSaves, nCrashes>>

(* _read, for the status services: a forced probe.                         *)
ReadsState ==
    /\ node = "up"
    /\ \E answered \in ReadOutcomes :
          /\ cam' = Probed(cam, presets, answered)
          /\ nFaults' = IF answered \/ ~Configured THEN nFaults ELSE nFaults + 1
    /\ cooldown' = ProbeCooldown
    /\ still' = (head = aim)
    /\ UNCHANGED <<backend, node, presets, disk, head, aim, nSaves, nCrashes>>

(* _execute when the camera is not available and the probe is not due, or  *)
(* does not make it available: the command is refused.                     *)
Refuses ==
    /\ node = "up" /\ ~cam.available
    /\ IF MayProbe
       THEN /\ FALSE \in ReadOutcomes
            /\ cam' = Probed(cam, presets, FALSE)
            /\ cooldown' = ProbeCooldown
            /\ nFaults' = IF ~Configured THEN nFaults ELSE nFaults + 1
       ELSE UNCHANGED <<cam, cooldown, nFaults>>
    /\ UNCHANGED <<backend, node, presets, disk, head, aim, still, nSaves, nCrashes>>

(* _execute with the pose the node knows, probing first when that is due:  *)
(* the write, the read back, and the state that follows.                   *)
Execute(known, target) ==
    \E w \in WriteOutcomes(target) :
       /\ aim' = IF w.done THEN target ELSE aim
       /\ head' = IF w.done /\ Simulated THEN target ELSE head
       /\ \E answered \in IF w.ok THEN ReadOutcomes ELSE {FALSE} :
             /\ cam' = IF answered THEN StateFromPose(ReadState(head'), presets)
                       ELSE CommandFailed(known)
             /\ still' = IF answered THEN head' = aim' ELSE still
             /\ nFaults' = IF answered THEN nFaults
                           ELSE IF nFaults < MaxFaults THEN nFaults + 1 ELSE nFaults
       /\ UNCHANGED <<backend, node, presets, disk, nSaves, nCrashes>>

(* The state a command starts from: available, or made so by a probe.      *)
KnownStates ==
    IF cam.available THEN {cam}
    ELSE IF MayProbe /\ Configured THEN {StateFromPose(ReadState(head), presets)} ELSE {}

(* The new pose is a function of the known one.                            *)
Commanded(target) ==
    /\ node = "up"
    /\ \E known \in KnownStates :
          /\ Execute(known, target[known.pose])
          /\ cooldown' = IF cam.available THEN cooldown ELSE ProbeCooldown

(* _on_pan, _on_ptz and _on_zoom_toggle.                                   *)
Pans(angle) == Commanded([p \in Poses |-> NormalizePose(angle, p.tilt, p.zoom)])
Ptz(relative, axes, value) ==
    Commanded([p \in Poses |-> TargetPose(p, relative, axes, value)])
ZoomToggles ==
    Commanded([p \in Poses |-> NormalizePose(p.pan, p.tilt, IF p.zoom > 1 THEN 1 ELSE ZoomMax)])

(* _on_preset: resolve_preset found the name.                              *)
GoesToPreset(name) == Commanded([p \in Poses |-> presets[name]])

(* A request whose values are not finite, refused inside the operation:    *)
(* ValueError is handled as a failed command.                              *)
RefusesValues ==
    /\ node = "up"
    /\ \E known \in KnownStates : cam' = CommandFailed(known)
    /\ cooldown' = IF cam.available THEN cooldown ELSE ProbeCooldown
    /\ still' = IF cam.available THEN still ELSE head = aim
    /\ UNCHANGED <<backend, node, presets, disk, head, aim, nFaults, nSaves, nCrashes>>

(* Broken variant: the table of the node is changed before the file.       *)
TableBeforeSave(saved, table, name, preset) == [table EXCEPT ![name] = preset]

(* _on_save_preset: the node's table follows the file.                     *)
TableAfterSave(saved, table, name, preset) ==
    IF saved THEN [table EXCEPT ![name] = preset] ELSE table

(* _on_save_preset after a read that was answered; the file is replaced    *)
(* or, when the disk fails, left alone.  The node may die in between.  A   *)
(* read that fails, a name or a zoom choice that is refused: ReadsState.   *)
SavesPreset(name) ==
    /\ node = "up" /\ nSaves < MaxSaves /\ Configured
    /\ LET pose == ReadState(head)
           preset == SavedPreset(name, pose, presets)
       IN \E saved \in BOOLEAN, dies \in BOOLEAN :
          /\ ~saved => nFaults < MaxFaults
          /\ dies => nCrashes < MaxNodeCrashes
          /\ disk' = IF saved THEN [presets EXCEPT ![name] = preset] ELSE disk
          /\ presets' = TableAfterSave(saved, presets, name, preset)
          /\ cam' = StateFromPose(pose, IF saved THEN presets' ELSE presets)
          /\ node' = IF dies THEN "down" ELSE "up"
          /\ nFaults' = IF saved THEN nFaults ELSE nFaults + 1
          /\ nCrashes' = IF dies THEN nCrashes + 1 ELSE nCrashes
    /\ nSaves' = nSaves + 1 /\ cooldown' = ProbeCooldown /\ still' = (head = aim)
    /\ UNCHANGED <<backend, head, aim>>

(* External: the head reaches its aim.                                     *)
HeadArrives ==
    /\ head # aim /\ head' = aim
    /\ UNCHANGED <<backend, node, cam, cooldown, presets, disk, aim, still, nFaults, nSaves, nCrashes>>

CameraTick ==
    /\ cooldown > 0 /\ cooldown' = cooldown - 1
    /\ UNCHANGED <<backend, node, cam, presets, disk, head, aim, still, nFaults, nSaves, nCrashes>>

CameraDies ==
    /\ node = "up" /\ nCrashes < MaxNodeCrashes
    /\ node' = "down" /\ nCrashes' = nCrashes + 1
    /\ UNCHANGED <<backend, cam, cooldown, presets, disk, head, aim, still, nFaults, nSaves>>

CameraNext ==
    \/ CameraStarts \/ ReadsState \/ Refuses \/ ZoomToggles \/ RefusesValues
    \/ HeadArrives \/ CameraTick \/ CameraDies
    \/ \E angle \in -1..Turn : Pans(angle)
    \/ \E relative \in BOOLEAN, axes \in SUBSET {"pan", "tilt", "zoom"}, value \in {-1, 1} :
          Ptz(relative, axes, value)
    \/ \E name \in PresetNames : GoesToPreset(name) \/ SavesPreset(name)

CameraSpec == CameraInit /\ [][CameraNext]_cameraVars

-----------------------------------------------------------------------------
(* A camera that is shown as available and whose head rested when it was   *)
(* last read looks where the cockpit says: no command was carried out      *)
(* without the node knowing.  ONVIF does not report the zoom.              *)
KnownPoseIsTrue ==
    node = "up" /\ cam.available /\ still /\ backend # "onvif_uniarch" => cam.pose = aim

(* The presets in use are the ones a restart would load, whatever failed   *)
(* while they were saved.                                                  *)
PresetsAreKept == node = "up" => presets = LoadPresets(disk)
=============================================================================
