----------------------------- MODULE MCServices -----------------------------
(***************************************************************************)
(* One small instance of every service that has to come to an end: the     *)
(* behaviours of the run are the behaviours of each of them, under the     *)
(* fairness of its own module, while the others rest.                      *)
(***************************************************************************)
EXTENDS NavGoals, Nav2Startup, GuardedTree, CockpitState, CockpitRequests, Recording,
        EvaluationTrial, NavigationProfile

VARIABLE part   \* the service a behaviour is about

Services == {"goals", "startup", "tree", "cockpit", "requests", "recording", "trial", "profile"}

serviceVars == <<part, goalVars, startupVars, treeVars, cockpitVars, requestVars,
                 recordingVars, trialVars, vars>>

MCOrder == <<"ground_filter", "local_inflation", "controller">>
MCSeveral == {"ground_filter", "local_inflation"}

(* The rover and the simulator.                                            *)
MCStartupModes == {[clock |-> FALSE, scan |-> TRUE, keepout |-> TRUE],
                   [clock |-> TRUE, scan |-> FALSE, keepout |-> FALSE]}

-----------------------------------------------------------------------------
(* The services that rest start somewhere.                                 *)
Resting ==
    /\ part # "startup" => startMode = CHOOSE m \in StartupModes : TRUE
    /\ part # "cockpit" => profile = CHOOSE p \in ViewProfiles : TRUE
    /\ part # "trial" => mode = (CHOOSE m \in TrialModes : TRUE) /\ server.id = 0

ServicesInit ==
    /\ part \in Services
    /\ GoalsInit /\ StartupInit /\ TreeInit /\ CockpitInit /\ RequestsInit /\ RecordingInit
    /\ TrialInit /\ Init
    /\ Resting

ServicesNext ==
    /\ UNCHANGED part
    /\ \/ part = "goals" /\ GoalsNext
       \/ part # "goals" /\ UNCHANGED goalVars
    /\ \/ part = "startup" /\ StartupNext
       \/ part # "startup" /\ UNCHANGED startupVars
    /\ \/ part = "tree" /\ TreeNext
       \/ part # "tree" /\ UNCHANGED treeVars
    /\ \/ part = "cockpit" /\ CockpitNext
       \/ part # "cockpit" /\ UNCHANGED cockpitVars
    /\ \/ part = "requests" /\ RequestsNext
       \/ part # "requests" /\ UNCHANGED requestVars
    /\ \/ part = "recording" /\ RecordingNext
       \/ part # "recording" /\ UNCHANGED recordingVars
    /\ \/ part = "trial" /\ TrialNext
       \/ part # "trial" /\ UNCHANGED trialVars
    /\ \/ part = "profile" /\ Next
       \/ part # "profile" /\ UNCHANGED vars

(* The state of the service a behaviour is about.                          *)
chosen ==
    CASE part = "goals" -> goalVars [] part = "startup" -> startupVars
      [] part = "tree" -> treeVars [] part = "cockpit" -> cockpitVars
      [] part = "requests" -> requestVars [] part = "recording" -> recordingVars
      [] part = "trial" -> trialVars [] part = "profile" -> vars

(* The fairness of each module.  As part never changes, one condition may  *)
(* take up one of every module: what timers and loops do, what comes next, *)
(* deadlines, answers, and what reaches the screen.                        *)
TimersRun ==
    \/ part = "goals" /\ CallerStep("service")
    \/ part = "startup" /\ StartupTick
    \/ part = "tree" /\ TickTree
    \/ part = "cockpit" /\ OnNavTelemetry
    \/ /\ part = "requests"
       /\ \E r \in Requests :
            \/ RejectFrame(r) \/ DispatchDirect(r) \/ DispatchService(r)
            \/ \E o \in {"ok", "ROUTE_ERROR", "STORAGE_FAILURE"} : DispatchStored(r, o)
    \/ part = "recording" /\ \E enough \in BOOLEAN : TickBegins(enough)
    \/ part = "trial" /\ TelemetryTick

WorkGoesOn ==
    \/ part = "goals" /\ CallerStep("rviz")
    \/ part = "tree" /\ ElapseWait
    \/ part = "cockpit" /\ PeriodPasses
    \/ part = "requests" /\ \E r \in Requests : CallService(r) \/ ServiceUnavailable(r)
    \/ part = "trial" /\ ReceivesTelemetry

DeadlinesPass ==
    \/ part = "cockpit" /\ OnCompactTelemetryTimer
    \/ part = "requests" /\ \E r \in Requests : ServiceTimesOut(r)
    \/ part = "trial" /\ FinishesTrial

AnswersCome ==
    \/ part = "cockpit" /\ \E i \in 1 .. Len(answers), b \in BOOLEAN : StateAnswered(i, b)
    \/ part = "requests" /\ \E r \in Requests : CameraRefreshed(r, "SERVICE_TIMEOUT")

ServicesFairness ==
    /\ WF_chosen(UNCHANGED part /\ TimersRun)
    /\ WF_chosen(UNCHANGED part /\ WorkGoesOn)
    /\ WF_chosen(UNCHANGED part /\ DeadlinesPass)
    /\ WF_chosen(UNCHANGED part /\ AnswersCome)
    /\ WF_cockpitVars(part = "cockpit" /\ Shown)
    /\ \A e \in Epochs :
         /\ WF_goalVars(part = "goals" /\ NavigationAnswers(e))
         /\ WF_goalVars(part = "goals" /\ e \in cancelled /\ GoalEnds(e))
    /\ \A c \in Cameras :
         WF_recordingVars(part = "recording" /\ \E works \in BOOLEAN : TickCamera(c, works))
    /\ \A t \in Threads : WF_vars(part = "profile" /\ Serve(t))

ServicesSpec == ServicesInit /\ [][ServicesNext]_serviceVars /\ ServicesFairness

-----------------------------------------------------------------------------
(* Every service keeps its variables within their types and bounds.        *)
ServicesTypeOK ==
    /\ GoalsTypeOK /\ StartupTypeOK /\ TreeTypeOK /\ CockpitTypeOK /\ RequestsTypeOK
    /\ RecordingTypeOK /\ TrialTypeOK /\ TypeOK

(* What the services say is so.  Nav2 is called ready when its nodes have  *)
(* been active; the controller follows a path on the guard's word; an      *)
(* acknowledgement tells what was done; a mission's capture outlives lost  *)
(* authorities, failed writes and restarts and an operator's wish is kept; *)
(* a trial is judged by its own result; no thread of the profile           *)
(* coordinator is surprised by another's transaction.                      *)
ServicesSafe ==
    /\ ReadyMeansActive
    /\ FollowsOnWord
    /\ AnswerTellsTheTruth
    /\ CaptureOutlivesMission /\ ManualIsKept
    /\ JudgedOnItsOwn
    /\ NoUnexpectedConfirmation

(* What a step may not do: a wait for a maneuver is ended by the adoption  *)
(* of an approved path alone, and a profile becomes the active one only    *)
(* when every component has been set to it.                                *)
StepsAreEarned == [][AdoptionStep /\ CommitStep]_serviceVars

(* What a behaviour is waiting for, and what ends that.  These are the     *)
(* conditions of CancellationEnds, StartupEnds, ManeuverEnds,              *)
(* EveryRequestAnswered, TrialEnds and TransactionEnds.                    *)
Pending ==
    \/ part = "goals" /\ goal.asked /\ GoalActive
    \/ part = "startup" /\ startup = "STARTING"
    \/ part = "tree" /\ tree.phase = "running" /\ wait.left >= 0
    \/ part = "requests" /\ \E r \in Requests : life[r] = "received"
    \/ part = "trial" /\ trial.goal
    \/ part = "profile" /\ Busy

Over ==
    \/ part = "goals" /\ goal.terminal
    \/ part = "startup" /\ startup \in {"ACTIVE", "FAILED"}
    \/ part = "tree" /\ (tree.phase # "running" \/ wait.left < 0)
    \/ part = "requests" /\ \A r \in Requests : life[r] = "done"
    \/ part = "trial" /\ verdict # ""
    \/ part = "profile" /\ ~Busy

(* Everything ends.  A cancelled goal is reported ended; a startup becomes *)
(* active or fails; a wait for a maneuver leads to another path or to the  *)
(* end of the goal; every request is acknowledged; a trial gets its        *)
(* verdict; a profile transaction is closed; the screen shows the robot's  *)
(* mode in the end, and cameras that should record do.                     *)
EverythingEnds ==
    /\ Pending ~> Over
    /\ part = "cockpit" => ScreenCatchesUp
    /\ part = "recording" => RecorderFollows
=============================================================================
