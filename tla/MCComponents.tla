---------------------------- MODULE MCComponents ----------------------------
(***************************************************************************)
(* One small instance of every component that answers for itself: the      *)
(* behaviours of the run are the behaviours of each of them.               *)
(*                                                                         *)
(* `part' is the component a behaviour is about.  The command chain, the   *)
(* battery guard, the files of the gateway, the evaluation matrix, the     *)
(* keepout zones, the path policy and the navigation snapshot have the     *)
(* variables of their own modules, which rest in the behaviours of the     *)
(* others; the state of every other component is kept in s1, s2, ..., in   *)
(* the order of its module.                                                *)
(***************************************************************************)
EXTENDS DriveChain, BatteryGuard, Repositories, EvaluationMatrix, KeepoutZones,
        PathPolicy, NavSnapshot

CONSTANT NoValue    \* None

VARIABLES part, s1, s2, s3, s4, s5, s6, s7, s8, s9, s10, s11, s12, s13

slots == <<s1, s2, s3, s4, s5, s6, s7, s8, s9, s10, s11, s12, s13>>
recordVars == <<libraryVars, fileVars, matrixVars>>
planVars == <<zoneVars, pathVars, snapshotVars>>
allVars == <<part, slots, chainVars, batteryVars, recordVars, planVars>>

MCSetups == {<<"legacy", "uart", TRUE>>, <<"canonical", "sim", TRUE>>}
MCTwists == {<<1, 0>>}
MCScanAges == {0}

(* Zones of a document that are switched on, and off.                      *)
MCDocuments == {[on |-> {"z"}, off |-> {}], [on |-> {"y"}, off |-> {"z"}]}

MCCostmaps == {<<"free", "free">>, <<"free", "lethal">>, <<"lethal", "free">>}

(* Routes with a long closing leg, with a short one, with short legs in a  *)
(* row, and one that ends; not every waypoint may be passed softly.        *)
Missions ==
    {[loop |-> TRUE, legs |-> <<4, 2, 4>>, soft |-> <<TRUE, TRUE, TRUE>>],
     [loop |-> TRUE, legs |-> <<1, 1, 4, 1>>, soft |-> <<TRUE, TRUE, TRUE, FALSE>>],
     [loop |-> TRUE, legs |-> <<1, 4, 1, 2>>, soft |-> <<TRUE, TRUE, TRUE, TRUE>>],
     [loop |-> FALSE, legs |-> <<4, 2, 1>>, soft |-> <<TRUE, FALSE, TRUE, TRUE>>]}

Drives == {<<"turn", "straight", "straight">>}

Driven ==
    {[drive |-> FALSE, stop |-> FALSE, moves |-> FALSE],
     [drive |-> TRUE, stop |-> FALSE, moves |-> TRUE], [drive |-> TRUE, stop |-> TRUE, moves |-> TRUE]}

(* Camera documents: the frame rate in each notation, and a document in    *)
(* which the profile cannot be set.                                        *)
Element(tag, section, unit, text) ==
    [tag |-> tag, section |-> section, unit |-> unit, text |-> text]

StreamDocuments ==
    {<<Element("enabled", "video", "", on), Element("maxFrameRate", "video", rate[1], rate[2]),
       Element("videoQualityControlType", "video", "", control),
       Element("constantBitRate", "video", "", 1), Element("vbrUpperCap", "video", "", 2),
       Element("enabled", "audio", "", "false")>> :
        on \in {"true", "false"}, control \in {"CBR", "VBR"},
        rate \in {<<"", 2500>>, <<"", 25>>, <<"centihz", 2500>>, <<"fps", 25>>}}
    \union {<<Element("videoQualityControlType", "video", "", "OTHER")>>}

-----------------------------------------------------------------------------
Arbiter == INSTANCE CommandArbiter WITH
    ManualTimeout <- 1, MonitorTimeout <- 1, Healths <- {"keep", "maneuver"},
    MonitorStops <- BOOLEAN, ScanAges <- {-1, 0},
    TeleopBrakes <- {0}, HoldTicks <- 1, MaxModeChanges <- 1, MaxHolds <- 2, MaxFinal <- 1,
    manual <- s1, seen <- s2, deciding <- s3, takeover <- s4, holds <- s5, final <- s6,
    changes <- s7, strays <- s8

Rtk == INSTANCE RtkCorrections WITH
    SourceStale <- 1, AdapterStale <- 1, MaxTransit <- 1, MaxBackoff <- 0, MaxFrames <- 1,
    MaxRestarts <- 0, source <- s1, onTheWay <- s2, adapter <- s3, frameAge <- s4,
    refused <- s5, nRestarts <- s6

RtkRuns == INSTANCE RtkCorrections WITH
    SourceStale <- 1, AdapterStale <- 1, MaxTransit <- 0, MaxBackoff <- 0, MaxFrames <- 2,
    MaxRestarts <- 1, source <- s1, onTheWay <- s2, adapter <- s3, frameAge <- s4,
    refused <- s5, nRestarts <- s6

Frames == INSTANCE Framing WITH
    MaxStream <- 7, stream <- s1, esp <- s2, rtcm <- s3, latest <- s4

Chunking == INSTANCE RouteChunks WITH
    Routes <- Missions, Modes <- {"legacy_pair", "adaptive_dense"}, Spacing <- 2,
    DenseLeg <- 4, DenseHorizon <- 9, PrunesClosure <- FALSE, MaxChunks <- 7,
    MaxRetries <- 1, route <- s1, walkMode <- s2, mission <- s3, window <- s4, walk <- s5

Lease == INSTANCE OperatorLease WITH
    Clients <- {"a", "n"}, NoOne <- "none", NavLive <- {"n"}, Timeout <- 1, Capacity <- 2,
    StartLocked <- FALSE, MaxRequests <- 2, Ops <- {"unlock", "heartbeat", "stop"},
    Undiscovered <- TRUE, Telemetered <- TRUE, SlowState <- FALSE, owner <- s1, guard <- s2,
    conn <- s3, inbox <- s4, tasks <- s5, outbox <- s6, watch <- s7, view <- s8,
    nRequests <- s9, driver <- s10, nEffects <- s11, acks <- s12, missed <- s13

Camera == INSTANCE CameraPtz WITH
    Backends <- {"sim", "isapi", "onvif_uniarch", "none"}, Turn <- 3, TiltMax <- 0,
    ZoomMax <- 2, ProbeCooldown <- 1, MaxFaults <- 1, MaxSaves <- 1, MaxNodeCrashes <- 1,
    backend <- s1, node <- s2, cam <- s3, cooldown <- s4, presets <- s5, disk <- s6,
    head <- s7, aim <- s8, still <- s9, nFaults <- s10, nSaves <- s11, nCrashes <- s12

Video == INSTANCE StreamProfile WITH
    Documents <- StreamDocuments, Rates <- {1, 25, 30}, Bitrates <- {1, 2}, MaxOthers <- 1,
    NoValue <- NoValue, doc <- s1, tool <- s2, read <- s3, desired <- s4, capable <- s5,
    nOthers <- s6

Redispatch == INSTANCE ContinuityTrial WITH
    Chunks <- 1, MaxStamps <- 2, MaxRedispatches <- 1, stage <- s1, nowStamp <- s2,
    routing <- s3, driving <- s4, leaving <- s5, rexWire <- s6, navWire <- s7,
    observed <- s8, planned <- s9, summary <- s10

Continuity == INSTANCE ContinuityTrial WITH
    Chunks <- 2, MaxStamps <- 3, MaxRedispatches <- 0, stage <- s1, nowStamp <- s2,
    routing <- s3, driving <- s4, leaving <- s5, rexWire <- s6, navWire <- s7,
    observed <- s8, planned <- s9, summary <- s10

Heading == INSTANCE CourseHeading WITH
    Trips <- Drives, MaxFixAge <- 1, MaxMotionAge <- 1, MaxSampleDt <- 3, FixHorizon <- 3,
    EnterDuration <- 1, ExitDuration <- 1, MaxExcursion <- 1, MinDistance <- 2,
    RtkMaxAge <- 1, trip <- s1, now <- s2, drive <- s3, speed <- s4, turn <- s5,
    fixes <- s6, lastFix <- s7, rejection <- s8, rtk <- s9, listening <- s10,
    pending <- s11, heading <- s12, selected <- s13

Wheels == INSTANCE WheelOdometry WITH
    Period <- 2, MaxSkew <- 1, MaxDt <- 4, MaxStamp <- 10, MaxFaults <- 1, MaxQueue <- 2,
    MaxResets <- 1, calibrated <- s1, stamp <- s2, traction <- s3, steering <- s4,
    odom <- s5, pose <- s6, legacy <- s7, emitted <- s8, whole <- s9, faults <- s10,
    resets <- s11

Fixes == INSTANCE MapMeasurement WITH
    FixAge <- 2, OdomAge <- 2, HeadingGap <- 2, HistoryAge <- 3, QueueLength <- 2,
    MaxNow <- 4, MaxClockResets <- 1, clock <- s1, waiting <- s2, samples <- s3,
    since <- s4, newestFix <- s5, mounted <- s6, placed <- s7, clockResets <- s8

Shadow == INSTANCE ShadowComparison WITH
    Commands <- {"go", "nonfinite"}, PairTimeout <- 1, QueueDepth <- 2, ValidFor <- 1,
    MaxCommands <- 3, MaxLost <- 1, MaxWrong <- 1, published <- s1, toAdapter <- s2,
    toComparison <- s3, shadow <- s4, legacyQueue <- s5, shadowQueue <- s6, failures <- s7,
    compared <- s8, level <- s9, dry <- s10, received <- s11, lost <- s12, wrong <- s13

Sensors == INSTANCE SimSensors WITH
    Devices <- {"drive", "gps", "imu"}, MaxSimTime <- 3, MaxDelay <- 1, MaxPending <- 1,
    FixPeriod <- 2, QualityPeriod <- 2, DegradedFor <- 1, Dropouts <- {2},
    MaxRollbacks <- 1, MaxSamples <- 2, device <- s1, simTime <- s2, onWay <- s3,
    pendingSamples <- s4, sequence <- s5, lastClock <- s6, lastFix <- s7, polled <- s8,
    out <- s9, rollbacks <- s10

Simulator == INSTANCE SimTelemetry WITH
    MaxAngle <- 1, MaxJointDelta <- 0, SimTimeout <- 0, None <- NoValue, Orders <- Driven,
    MaxVehicleMoves <- 1, body <- s1, odomSample <- s2, joints <- s3, order <- s4,
    override <- s5, report <- s6, vehicleMoves <- s7

-----------------------------------------------------------------------------
(* The slots from one on that a component does not use.                    *)
Unused13 == s13 = 0
Unused12 == s12 = 0 /\ Unused13
Unused11 == s11 = 0 /\ Unused12
Unused10 == s10 = 0 /\ Unused11
Unused9 == s9 = 0 /\ Unused10
Unused8 == s8 = 0 /\ Unused9
Unused7 == s7 = 0 /\ Unused8
Unused6 == s6 = 0 /\ Unused7
Unused5 == s5 = 0 /\ Unused6
Unused4 == s4 = 0 /\ Unused5
Unused3 == s3 = 0 /\ Unused4
Unused2 == s2 = 0 /\ Unused3
Unused1 == s1 = 0 /\ Unused2

(* A setup and a source for the behaviours that are not about them, a file *)
(* and a transform likewise.                                               *)
Resting ==
    /\ part # "chain" => setup = CHOOSE s \in Setups : TRUE
    /\ part # "battery" => source = CHOOSE s \in BatterySources : TRUE
    /\ part # "zones" => zoneFile = NoZoneFile /\ odom = CHOOSE t \in Transforms : TRUE

ComponentInit ==
    \/ part \in {"chain", "battery", "library", "waypoints", "matrix", "zones", "paths", "snapshot"}
       /\ Unused1
    \/ part = "arbiter" /\ Arbiter!ArbiterInit /\ Unused9
    \/ part = "rtk" /\ Rtk!RtkInit /\ Unused7
    \/ part = "rtkruns" /\ RtkRuns!RtkInit /\ Unused7
    \/ part = "frames" /\ Frames!FramingInit /\ Unused5
    \/ part = "chunks" /\ Chunking!ChunksInit /\ Unused6
    \/ part = "lease" /\ Lease!Init
    \/ part = "camera" /\ Camera!CameraInit /\ Unused13
    \/ part = "video" /\ Video!StreamInit /\ Unused7
    \/ part = "continuity" /\ Continuity!ContinuityInit /\ Unused11
    \/ part = "redispatch" /\ Redispatch!ContinuityInit /\ Unused11
    \/ part = "heading" /\ Heading!HeadingInit
    \/ part = "wheels" /\ Wheels!OdomInit /\ Unused12
    \/ part = "fixes" /\ Fixes!MapInit /\ Unused9
    \/ part = "shadow" /\ Shadow!ShadowInit
    \/ part = "sensors" /\ Sensors!SensorsInit /\ Unused11
    \/ part = "simulator" /\ Simulator!TelemetryInit /\ Unused8

RecordsInit == LibraryInit /\ FileInit /\ MatrixInit
PlansInit == ZonesInit /\ PathInit /\ SnapshotInit

Init ==
    ComponentInit /\ ChainInit /\ BatteryInit /\ RecordsInit /\ PlansInit /\ Resting

ComponentNext ==
    \/ part = "arbiter" /\ Arbiter!ArbiterNext /\ UNCHANGED <<s9, s10, s11, s12, s13>>
    \/ part = "rtk" /\ Rtk!RtkNext /\ UNCHANGED <<s7, s8, s9, s10, s11, s12, s13>>
    \/ part = "rtkruns" /\ RtkRuns!RtkNext /\ UNCHANGED <<s7, s8, s9, s10, s11, s12, s13>>
    \/ part = "frames" /\ Frames!FramingNext /\ UNCHANGED <<s5, s6, s7, s8, s9, s10, s11, s12, s13>>
    \/ part = "chunks" /\ Chunking!ChunksNext /\ UNCHANGED <<s6, s7, s8, s9, s10, s11, s12, s13>>
    \/ part = "lease" /\ Lease!Next
    \/ part = "camera" /\ Camera!CameraNext /\ UNCHANGED <<s13>>
    \/ part = "video" /\ Video!StreamNext /\ UNCHANGED <<s7, s8, s9, s10, s11, s12, s13>>
    \/ part = "continuity" /\ Continuity!ContinuityNext /\ UNCHANGED <<s11, s12, s13>>
    \/ part = "redispatch" /\ Redispatch!ContinuityNext /\ UNCHANGED <<s11, s12, s13>>
    \/ part = "heading" /\ Heading!HeadingNext
    \/ part = "wheels" /\ Wheels!OdomNext /\ UNCHANGED <<s12, s13>>
    \/ part = "fixes" /\ Fixes!MapNext /\ UNCHANGED <<s9, s10, s11, s12, s13>>
    \/ part = "shadow" /\ Shadow!ShadowNext
    \/ part = "sensors" /\ Sensors!SensorsNext /\ UNCHANGED <<s11, s12, s13>>
    \/ part = "simulator" /\ Simulator!TelemetryNext /\ UNCHANGED <<s8, s9, s10, s11, s12, s13>>

(* A step of one of the records; the others rest.                          *)
RecordsNext ==
    \/ part = "library" /\ LibraryNext /\ UNCHANGED <<fileVars, matrixVars>>
    \/ part = "waypoints" /\ FileNext /\ UNCHANGED <<libraryVars, matrixVars>>
    \/ part = "matrix" /\ MatrixNext /\ UNCHANGED <<libraryVars, fileVars>>

(* A step of one of the components around the planner.                     *)
PlansNext ==
    \/ part = "zones" /\ ZonesNext /\ UNCHANGED <<pathVars, snapshotVars>>
    \/ part = "paths" /\ PathNext /\ UNCHANGED <<zoneVars, snapshotVars>>
    \/ part = "snapshot" /\ SnapshotNext /\ UNCHANGED <<zoneVars, pathVars>>

Next ==
    /\ UNCHANGED part
    /\ \/ part = "chain" /\ ChainNext /\ UNCHANGED <<slots, batteryVars, recordVars, planVars>>
       \/ part = "battery" /\ BatteryNext /\ UNCHANGED <<slots, chainVars, recordVars, planVars>>
       \/ RecordsNext /\ UNCHANGED <<slots, chainVars, batteryVars, planVars>>
       \/ PlansNext /\ UNCHANGED <<slots, chainVars, batteryVars, recordVars>>
       \/ ComponentNext /\ UNCHANGED <<chainVars, batteryVars, recordVars, planVars>>

Spec == Init /\ [][Next]_allVars

-----------------------------------------------------------------------------
(* Every component keeps its variables within their types and bounds.      *)
ComponentsTypeOK ==
    /\ part = "chain" => DriveTypeOK /\ ArbiterTypeOK
    /\ part = "battery" => BatteryTypeOK
    /\ part = "library" => LibraryTypeOK
    /\ part = "waypoints" => FileTypeOK
    /\ part = "matrix" => MatrixTypeOK
    /\ part = "zones" => ZonesTypeOK
    /\ part = "paths" => PathTypeOK
    /\ part = "snapshot" => SnapshotTypeOK
    /\ part = "arbiter" => Arbiter!ArbiterTypeOK
    /\ part = "rtk" => Rtk!RtkTypeOK
    /\ part = "rtkruns" => RtkRuns!RtkTypeOK
    /\ part = "frames" => Frames!FramingTypeOK
    /\ part = "chunks" => Chunking!ChunksTypeOK
    /\ part = "lease" => Lease!TypeOK
    /\ part = "camera" => Camera!CameraTypeOK
    /\ part = "video" => Video!StreamTypeOK
    /\ part = "continuity" => Continuity!ContinuityTypeOK
    /\ part = "redispatch" => Redispatch!ContinuityTypeOK
    /\ part = "heading" => Heading!HeadingTypeOK
    /\ part = "wheels" => Wheels!OdomTypeOK
    /\ part = "fixes" => Fixes!MapTypeOK
    /\ part = "shadow" => Shadow!ShadowTypeOK
    /\ part = "sensors" => Sensors!SensorsTypeOK
    /\ part = "simulator" => Simulator!TelemetryTypeOK

(* What an acknowledgement said stays true: AcksAreKept of OperatorLease,  *)
(* with two requests of a connection under way.                            *)
AcksAreKept == part = "lease" => Lease!AcksAreKept

(* Navigation around the planner.  A far obstacle replaces the path only   *)
(* after it was seen for far_persistence_s in unbroken looks; keepouts in  *)
(* force are the ones on disk, and none is left in the costmap from a      *)
(* document or a transform before; a plan is not drawn for longer than     *)
(* MaxAge after navigation ended, and one that is retained was cached in   *)
(* the activity told of or was fresh when it began.                        *)
NavigationSafe ==
    /\ part = "paths" => FarReplanIsEarned
    /\ part = "zones" => LiveIsSaved /\ NoGhostKeepouts
    /\ part = "snapshot" => PlanEndsWithNavigation /\ RetainedPlanIsRecent

(* Devices.  Corrections called fresh are fresh, and a restart of their    *)
(* source costs one frame; damage on a serial line costs no frame after    *)
(* it; a pose of the camera that is called known is the true one, and its  *)
(* presets survive a crash; the stream tool changes what it manages and    *)
(* nothing else, and the camera then says what was written.                *)
DevicesSafe ==
    /\ part = "rtk" => Rtk!FreshIsTrue
    /\ part = "rtkruns" => RtkRuns!RestartCostsOneFrame
    /\ part = "frames" => Frames!NoFrameLost
    /\ part = "camera" => Camera!KnownPoseIsTrue /\ Camera!PresetsAreKept
    /\ part = "video" => Video!OnlyManagedChange /\ Video!WrittenIsReadBack

(* What is followed over a drive.  A loop's checkpoints count for the lap  *)
(* they were passed in and every window of the route ends; the window of a *)
(* chunk keeps the goal it was for; a course heading is of a straight run; *)
(* a position is placed with the heading of its own time; only a slip of   *)
(* its two sides stops the odometry, which never invents time; a shadow    *)
(* comparison that reports agreement has compared every command; samples   *)
(* of a trial before a reset of the simulator stay out of the next one.    *)
TrackingSafe ==
    /\ part = "chunks" => Chunking!EveryVisitCounts /\ Chunking!WindowsAreFinite
    /\ part = "continuity" => Continuity!WindowsKeepTheirGoal
    /\ part = "redispatch" => Redispatch!WindowsKeepTheirGoal
    /\ part = "heading" => Heading!HeadingIsOfAStraightRun
    /\ part = "fixes" => Fixes!PositionUsesItsOwnHeading
    /\ part = "wheels" => Wheels!OnlyASlipStopsIt /\ Wheels!TimeIsNotInvented
    /\ part = "shadow" => Shadow!AgreementIsComplete
    /\ part = "sensors" => Sensors!TrialsAreSeparate

(* Records.  No update of the route library is lost and the file stays     *)
(* readable through crashes; waypoints come back as they were saved, with  *)
(* profiles that point at them; two simulations never share a domain, and  *)
(* a matrix that exits well has evaluated every cell.                      *)
RecordsSafe ==
    /\ part = "library" => NoLostUpdate /\ LibraryStaysReadable
    /\ part = "waypoints" => WaypointsComeBack /\ ProfileStaysInside
    /\ part = "matrix" => DomainsAreExclusive /\ GoodExitIsEarned

(* What no step may do.  Visits follow the order of the route; revisions   *)
(* of the library grow; headings and positions are published in the order  *)
(* of their fixes; a wheel sample is used once; joint angles the simulator *)
(* has overruled are not reported; the battery latch is set and cleared    *)
(* only on trusted samples that agree for as long as it takes.             *)
StepsAreOrdered ==
    [][/\ part = "arbiter" => Arbiter!TakeoverStep
       /\ part = "chunks" => Chunking!VisitStep
       /\ part = "library" => RevisionStep
       /\ part = "heading" => Heading!HeadingStep
       /\ part = "fixes" => Fixes!PositionStep
       /\ part = "wheels" => Wheels!PairStep
       /\ part = "simulator" => Simulator!JointStep
       /\ part = "battery" => LatchStep]_allVars
=============================================================================
