---------------------------- MODULE PatrolProofs ----------------------------
(***************************************************************************)
(* What PatrolCoordinator guarantees for every loop, every bound and every *)
(* scenario: its types, the battery rule of the loop, the exit of a return *)
(* and the order of the phases.                                            *)
(***************************************************************************)
EXTENDS PatrolCoordinator, TLAPS, WellFoundedInduction, SequenceTheorems

(* Every nonempty set of naturals has a least element.                     *)
LEMMA NatHasMin ==
    ASSUME NEW T \in SUBSET Nat, T # {}
    PROVE  \E x \in T : \A y \in T : x <= y
<1> DEFINE R == {ss \in Nat \X Nat : ss[1] < ss[2]}
<1>1. IsWellFoundedOn(R, Nat)
    BY NatLessThanWellFounded DEF OpToRel
<1> HIDE DEF R
<1>2. PICK x \in T : \A y \in T : ~(<<y, x>> \in R)
    BY <1>1, WFMin
<1>3. ASSUME NEW y \in T  PROVE x <= y
    <2>1. x \in Nat /\ y \in Nat /\ ~(<<y, x>> \in R)
        BY <1>2
    <2> QED  BY <2>1 DEF R
<1> QED  BY <1>3

(* select_return_exit finds a waypoint of the loop, and none is nearer.    *)
LEMMA ExitIsNearest ==
    /\ SelectReturnExit \in LoopIndex
    /\ \A j \in LoopIndex : Dist[SelectReturnExit] <= Dist[j]
<1> DEFINE Ds == {Dist[i] : i \in LoopIndex}
           First(i) == \A j \in LoopIndex : Dist[i] < Dist[j] \/ (Dist[i] = Dist[j] /\ i <= j)
<1>1. /\ LoopIndex # {} /\ LoopIndex \subseteq Nat
      /\ \A i \in LoopIndex : Dist[i] \in Nat
    <2>1. 0 \in LoopIndex
        BY SpecAssumption DEF ValidMission, LoopIndex
    <2> QED  BY <2>1, SpecAssumption DEF ValidMission, LoopIndex
<1>2. PICK d \in Ds : \A e \in Ds : d <= e
    <2>1. Ds \in SUBSET Nat /\ Ds # {}
        BY <1>1
    <2> QED  BY <2>1, NatHasMin
<1> DEFINE Is == {i \in LoopIndex : Dist[i] = d}
<1>3. PICK i \in Is : \A j \in Is : i <= j
    <2>1. Is \in SUBSET Nat /\ Is # {}
        BY <1>1, <1>2
    <2> QED  BY <2>1, NatHasMin
<1>4. i \in LoopIndex /\ First(i)
    <2> SUFFICES ASSUME NEW j \in LoopIndex
                 PROVE  Dist[i] < Dist[j] \/ (Dist[i] = Dist[j] /\ i <= j)
        BY <1>3
    <2>1. Dist[i] = d /\ d <= Dist[j] /\ Dist[j] \in Nat /\ d \in Nat
        BY <1>1, <1>2, <1>3
    <2>2. CASE Dist[j] = d
        BY <2>1, <2>2, <1>3
    <2>3. CASE Dist[j] # d
        BY <2>1, <2>3
    <2> QED  BY <2>2, <2>3
<1> HIDE DEF First
<1>5. SelectReturnExit \in LoopIndex /\ First(SelectReturnExit)
    <2>1. SelectReturnExit = CHOOSE k \in LoopIndex : First(k)
        BY DEF SelectReturnExit, First
    <2> QED  BY <2>1, <1>4
<1> QED  BY <1>5, <1>1 DEF First

-----------------------------------------------------------------------------
(* The strengthening.  A machine waits at two places, _machine and the     *)
(* local variable of a replacement that has not assigned it yet; the rules *)
(* must hold at both, because StartAssign moves one to the other.          *)
MachineOK(m) ==
    /\ m.phase = "PATROL" => ~m.low
    /\ m.phase \in {"EXIT_LOOP", "RETURN_HOME"} => m.exit = SelectReturnExit

ThreadsOK == \A t \in starting : MachineOK(t.m)

IInv == TypeOK /\ MachineOK(machine) /\ ThreadsOK

Machines == Machine(MissionIds)

(* PatrolMachine's operations keep the type and the rules.                 *)
LEMMA StartOK ==
    ASSUME NEW mid \in MissionIds, NEW atHome \in BOOLEAN, NEW latched \in BOOLEAN
    PROVE  Start(mid, atHome, latched) \in Machines /\ MachineOK(Start(mid, atHome, latched))
BY DEF Start, Machines, Machine, MachineOK, PatrolPhase, MovingPhases

LEMMA RequestReturnOK ==
    ASSUME NEW m \in Machines, MachineOK(m)
    PROVE  RequestReturnHome(m) \in Machines /\ MachineOK(RequestReturnHome(m))
BY ExitIsNearest DEF RequestReturnHome, Machines, Machine, MachineOK, PatrolPhase, MovingPhases

LEMMA LatchOK ==
    ASSUME NEW m \in Machines, MachineOK(m), NEW atHome \in BOOLEAN
    PROVE  LatchBatteryReturn(m, atHome) \in Machines /\ MachineOK(LatchBatteryReturn(m, atHome))
BY ExitIsNearest DEF LatchBatteryReturn, RequestReturnHome, Machines, Machine, MachineOK,
                     PatrolPhase, MovingPhases

LEMMA GoalSucceededOK ==
    ASSUME NEW m \in Machines, MachineOK(m), NEW index
    PROVE  GoalSucceeded(m, index) \in Machines /\ MachineOK(GoalSucceeded(m, index))
<1>1. CASE m.phase = "DEPART_HOME"
    BY <1>1 DEF GoalSucceeded, Machines, Machine, MachineOK, PatrolPhase, MovingPhases
<1>2. CASE m.phase = "JOIN_LOOP"
    <2> DEFINE p == [m EXCEPT !.phase = "PATROL"]
    <2>1. p \in Machines /\ p.low = m.low /\ p.exit = m.exit /\ p.phase = "PATROL" /\ p.mid = m.mid
        BY DEF Machines, Machine, PatrolPhase, MovingPhases
    <2>2. GoalSucceeded(m, index) = IF m.low THEN RequestReturnHome(p) ELSE p
        BY <1>2 DEF GoalSucceeded
    <2>3. RequestReturnHome(p) \in Machines /\ MachineOK(RequestReturnHome(p))
        BY <2>1, ExitIsNearest DEF RequestReturnHome, Machines, Machine, MachineOK, PatrolPhase, MovingPhases
    <2>4. ~m.low => MachineOK(p)
        BY <2>1 DEF MachineOK
    <2> HIDE DEF p
    <2> QED  BY <2>1, <2>2, <2>3, <2>4
<1>3. CASE m.phase = "EXIT_LOOP"
    BY <1>3 DEF GoalSucceeded, Machines, Machine, MachineOK, PatrolPhase, MovingPhases
<1>4. CASE m.phase = "RETURN_HOME"
    BY <1>4 DEF GoalSucceeded, Machines, Machine, MachineOK, PatrolPhase, MovingPhases
<1>5. CASE m.phase \notin {"DEPART_HOME", "JOIN_LOOP", "EXIT_LOOP", "RETURN_HOME"}
    BY <1>5 DEF GoalSucceeded
<1> QED  BY <1>1, <1>2, <1>3, <1>4, <1>5

LEMMA StopOK ==
    ASSUME NEW m \in Machines, MachineOK(m)
    PROVE  /\ Pause(m) \in Machines /\ MachineOK(Pause(m))
           /\ Abort(m) \in Machines /\ MachineOK(Abort(m))
BY DEF Pause, Abort, Active, Machines, Machine, MachineOK, PatrolPhase, MovingPhases

LEMMA NoMachineOK == NoMachine \in Machines /\ MachineOK(NoMachine)
BY BoundsAssumption DEF NoMachine, Machines, Machine, MachineOK, MissionIds

(* The battery policy and the calls stay in their types.                   *)
LEMMA BatteryOK ==
    ASSUME NEW b \in BatteryInput
    PROVE  Evaluate(b) \in BatteryInput /\ ClearLatch(b) \in BatteryInput
BY DEF Evaluate, ClearLatch, BatteryInput

LEMMA LegOK ==
    ASSUME NEW phase
    PROVE  Leg(phase) \in Legs
BY DEF Leg, Legs

LEMMA NewCallOK ==
    ASSUME NEW who \in CancelCallers \union {"dispatch"},
           NEW phase \in PatrolPhase \union {"NONE"}, NEW tag \in MissionIds
    PROVE  NewCall(who, phase, tag) \in Call
BY LegOK DEF NewCall, Call

(* _dispatch_phase.                                                        *)
LEMMA DispatchOK ==
    ASSUME TypeOK, NEW m \in Machines, MachineOK(m), NEW rid \in RouteIds,
           NEW cs \in SUBSET Call, DispatchPhase(m, rid, cs)
    PROVE  /\ machine' \in Machines /\ MachineOK(machine')
           /\ routeId' \in RouteIds /\ superseded' \in RouteIds
           /\ delegated' \in Legs /\ calls' \subseteq Call
<1>1. m.phase \in PatrolPhase \union {"NONE"} /\ m.mid \in MissionIds
    BY DEF Machines, Machine
<1>2. NewCall("dispatch", m.phase, m.mid) \in Call
    BY <1>1, NewCallOK
<1>3. Leg(m.phase) \in Legs
    BY LegOK
<1> QED  BY <1>2, <1>3, StopOK DEF DispatchPhase, TypeOK, RouteIds

-----------------------------------------------------------------------------
(* The initial state satisfies the strengthened invariant.                 *)
LEMMA InitIInv == Init => IInv
<1> SUFFICES ASSUME Init  PROVE IInv
    OBVIOUS
<1>1. machine \in Machines /\ MachineOK(machine)
    BY NoMachineOK DEF Init
<1>2. battery \in BatteryInput
    BY DEF Init, NoBatteryInput, BatteryInput, Guards, Socs
<1>3. 0 \in MissionIds /\ 0 \in 0 .. MaxForeign
    BY BoundsAssumption DEF MissionIds
<1>4. routes \in Seq(Route) /\ events \in Seq([id : RouteIds, k : Nat])
    BY DEF Init
<1>5. rexPrep \in Route /\ delegated \in Legs
    BY <1>3 DEF Init, NoRoute, Route, Legs
<1>6. TypeOK
    BY <1>1, <1>2, <1>3, <1>4, <1>5 DEF Init, TypeOK, Machines, RouteIds, RouteStatus
<1> QED  BY <1>1, <1>6 DEF IInv, ThreadsOK, Init

(* Steps that leave every machine alone, in the order of the module.       *)
LEMMA InputSteps ==
    ASSUME IInv,
           \/ \E p \in Poses : OnPose(p)
           \/ BatteryAge \/ SetPatrolMission \/ PreparationFails \/ TickRouteState
    PROVE  IInv'
<1> USE DEF IInv, ThreadsOK, MachineOK
<1>1. ASSUME NEW p \in Poses, OnPose(p)  PROVE IInv'
    BY <1>1, BoundsAssumption DEF OnPose, TypeOK, rexVars
<1>2. CASE BatteryAge
    BY <1>2 DEF BatteryAge, TypeOK, rexVars, BatteryInput, Guards, Socs
<1>3. CASE SetPatrolMission
    BY <1>3, BoundsAssumption DEF SetPatrolMission, TypeOK, rexVars, MissionIds
<1>4. CASE PreparationFails
    BY <1>4, BoundsAssumption DEF PreparationFails, TypeOK, rexVars, MissionIds
<1>5. CASE TickRouteState
    BY <1>5 DEF TickRouteState, TypeOK, rexVars, coordVars
<1> QED  BY <1>1, <1>2, <1>3, <1>4, <1>5

LEMMA BatteryStepOK ==
    ASSUME IInv, NEW b \in BatteryInput, BatterySample(b)
    PROVE  IInv'
<1>1. Evaluate(b) \in BatteryInput
    BY BatteryOK
<1>2. /\ machine \in Machines /\ MachineOK(machine) /\ AtHome \in BOOLEAN
      /\ machine.mid \in MissionIds /\ TypeOK
    BY DEF IInv, TypeOK, Machines, Machine, AtHome
<1> DEFINE after == LatchBatteryReturn(machine, AtHome)
<1>3. after \in Machines /\ MachineOK(after) /\ Abort(after) \in Machines /\ MachineOK(Abort(after))
    BY <1>2, LatchOK, StopOK
<1>4. NewCall("departure", "NONE", machine.mid) \in Call
    BY <1>2, NewCallOK DEF CancelCallers
<1> HIDE DEF after
<1>5. machine' \in Machines /\ MachineOK(machine') /\ calls' \subseteq Call
    BY <1>2, <1>3, <1>4 DEF BatterySample, ConsumeBatteryDecision, after, TypeOK
<1>6. TypeOK'
    BY <1>1, <1>2, <1>5 DEF BatterySample, TypeOK, Machines, rexVars
<1> QED  BY <1>5, <1>6 DEF IInv, ThreadsOK, MachineOK, BatterySample

LEMMA ActivateSpecOK ==
    ASSUME IInv, ActivateSpec
    PROVE  IInv'
<1> DEFINE b == Evaluate(ClearLatch(battery))
           m == Start(preparation, pose = "home", b.latched)
<1>1. TypeOK /\ preparation \in MissionIds /\ 0 \in MissionIds
    BY BoundsAssumption DEF IInv, TypeOK, MissionIds
<1>2. b \in BatteryInput /\ b.latched \in BOOLEAN
    BY <1>1, BatteryOK DEF TypeOK, BatteryInput
<1>3. m \in Machines /\ MachineOK(m)
    BY <1>1, <1>2, StartOK
<1>4. NewCall("replace", "NONE", preparation) \in Call
    BY <1>1, NewCallOK DEF CancelCallers
<1> HIDE DEF b, m
<1>5. /\ machine' \in Machines /\ MachineOK(machine')
      /\ routeId' \in RouteIds /\ superseded' \in RouteIds /\ delegated' \in Legs
      /\ calls' \subseteq Call /\ battery' \in BatteryInput /\ haveSpec' \in BOOLEAN
    <2>1. CASE /\ pose # "none" /\ ~Active(machine)
               /\ battery' = b /\ haveSpec' = TRUE
               /\ DispatchPhase(m, 0, calls)
        BY <2>1, <1>1, <1>2, <1>3, DispatchOK DEF TypeOK, RouteIds
    <2>2. CASE calls' = calls \union {NewCall("replace", "NONE", preparation)}
               /\ UNCHANGED <<machine, haveSpec, routeId, superseded, delegated, battery>>
        BY <2>2, <1>1, <1>4 DEF TypeOK, IInv, Machines, MachineOK
    <2>3. CASE UNCHANGED <<machine, haveSpec, routeId, superseded, delegated, battery, calls>>
        BY <2>3, <1>1 DEF TypeOK, IInv, Machines, MachineOK
    <2> QED  BY <2>1, <2>2, <2>3 DEF ActivateSpec, b, m
<1>6. TypeOK'
    BY <1>1, <1>5 DEF ActivateSpec, TypeOK, Machines, rexVars
<1> QED  BY <1>5, <1>6 DEF IInv, ThreadsOK, MachineOK, ActivateSpec

(* The end of a replacement, one step per access to shared state.          *)
LEMMA ReplacementOK ==
    ASSUME IInv,
           \/ \E c \in calls : FinishReplacementFailed(c) \/ FinishReplacement(c)
           \/ StartStep
    PROVE  IInv'
<1>0. /\ TypeOK /\ MachineOK(machine) /\ ThreadsOK /\ 0 \in MissionIds
      /\ machine \in Machines /\ NoMachine \in Machines /\ MachineOK(NoMachine)
    BY BoundsAssumption, NoMachineOK DEF IInv, TypeOK, MissionIds, Machines
<1>1. ASSUME NEW c \in calls, FinishReplacementFailed(c)  PROVE IInv'
    BY <1>0, <1>1 DEF FinishReplacementFailed, IInv, TypeOK, ThreadsOK, MachineOK, rexVars
<1>2. ASSUME NEW c \in calls, FinishReplacement(c)  PROVE IInv'
    <2> DEFINE t == [spec |-> c.tag, pc |-> "begin", m |-> NoMachine, leg |-> "NONE"]
    <2>1. t \in Thread
        BY <1>0 DEF TypeOK, Thread, Call, Machines, Legs
    <2>2. starting' \subseteq starting \union {t} /\ preparation' \in MissionIds /\ calls' \subseteq Call
        BY <1>0, <1>2 DEF FinishReplacement, TypeOK
    <2>3. TypeOK'
        BY <1>0, <1>2, <2>1, <2>2 DEF FinishReplacement, TypeOK, rexVars
    <2>4. \A u \in starting' : MachineOK(u.m)
        BY <1>0, <2>2 DEF ThreadsOK
    <2>5. machine' = machine
        BY <1>2 DEF FinishReplacement
    <2> QED  BY <1>0, <2>3, <2>4, <2>5 DEF IInv, ThreadsOK, MachineOK
<1>3. ASSUME NEW t \in starting  PROVE t \in Thread /\ t.m \in Machines /\ MachineOK(t.m) /\ t.spec \in MissionIds
    BY <1>0, <1>3 DEF TypeOK, Thread, ThreadsOK, Machines
<1>4. ASSUME NEW t \in starting, StartBegin(t)  PROVE IInv'
    <2> DEFINE u == [t EXCEPT !.pc = "evaluate"]
    <2>1. u \in Thread /\ u.m = t.m
        BY <1>3 DEF Thread
    <2>2. battery' \in BatteryInput
        BY <1>0, <1>4, BatteryOK DEF StartBegin, TypeOK
    <2>3. starting' \subseteq Thread /\ \A w \in starting' : MachineOK(w.m)
        BY <1>0, <1>3, <1>4, <2>1 DEF StartBegin, Replace, ThreadsOK, TypeOK
    <2> QED  BY <1>0, <1>4, <2>2, <2>3
             DEF StartBegin, IInv, TypeOK, ThreadsOK, MachineOK, rexVars, coordVars
<1>5. ASSUME NEW t \in starting, StartEvaluate(t)  PROVE IInv'
    <2> DEFINE m == Start(t.spec, pose = "home", battery'.latched)
               u == [t EXCEPT !.pc = "assign", !.m = m]
    <2>1. battery' \in BatteryInput /\ battery'.latched \in BOOLEAN
        BY <1>0, <1>5, BatteryOK DEF StartEvaluate, TypeOK, BatteryInput
    <2>2. m \in Machines /\ MachineOK(m)
        BY <1>3, <2>1, StartOK
    <2> HIDE DEF m
    <2>3. u \in Thread /\ u.m = m
        BY <1>3, <2>2 DEF Thread, Machines
    <2>4. starting' = (starting \ {t}) \union {u}
        BY <1>5 DEF StartEvaluate, Replace, m
    <2> HIDE DEF u
    <2>5. starting' \subseteq Thread /\ \A w \in starting' : MachineOK(w.m)
        BY <1>0, <2>2, <2>3, <2>4 DEF ThreadsOK, TypeOK
    <2> QED  BY <1>0, <1>5, <2>1, <2>5
             DEF StartEvaluate, IInv, TypeOK, ThreadsOK, MachineOK, rexVars, coordVars
<1>6. ASSUME NEW t \in starting, StartAssign(t)  PROVE IInv'
    <2> DEFINE u == [t EXCEPT !.pc = "read"]
    <2>1. u \in Thread /\ u.m = t.m
        BY <1>3 DEF Thread
    <2>2. starting' \subseteq Thread /\ \A w \in starting' : MachineOK(w.m)
        BY <1>0, <1>3, <1>6, <2>1 DEF StartAssign, Replace, ThreadsOK, TypeOK
    <2>3. machine' \in Machines /\ MachineOK(machine')
        BY <1>3, <1>6 DEF StartAssign
    <2>4. TypeOK'
        BY <1>0, <1>6, <2>2, <2>3 DEF StartAssign, TypeOK, rexVars, Machines, RouteIds
    <2> QED  BY <2>2, <2>3, <2>4 DEF IInv, ThreadsOK
<1>7. ASSUME NEW t \in starting, StartRead(t)  PROVE IInv'
    <2> DEFINE u == [t EXCEPT !.pc = "send", !.m = machine, !.leg = Leg(machine.phase)]
    <2>1. u \in Thread /\ u.m = machine
        BY <1>0, <1>3, LegOK DEF Thread, Machines
    <2>2. starting' \subseteq (starting \ {t}) \union {u} /\ delegated' \in Legs
        BY <1>0, <1>7, LegOK DEF StartRead, Replace, TypeOK
    <2> HIDE DEF u
    <2>3. starting' \subseteq Thread /\ \A w \in starting' : MachineOK(w.m)
        BY <1>0, <2>1, <2>2 DEF ThreadsOK, TypeOK
    <2> QED  BY <1>0, <1>7, <2>2, <2>3
             DEF StartRead, IInv, TypeOK, ThreadsOK, MachineOK, rexVars
<1>8. ASSUME NEW t \in starting, StartSend(t)  PROVE IInv'
    <2> DEFINE phase == IF machine.mid = t.m.mid THEN machine.phase ELSE t.m.phase
               c == [NewCall("dispatch", phase, t.m.mid) EXCEPT !.leg = t.leg]
    <2>1. phase \in PatrolPhase \union {"NONE"} /\ t.m.mid \in MissionIds /\ t.leg \in Legs
        BY <1>0, <1>3 DEF Machines, Machine, Thread
    <2> HIDE DEF phase
    <2>2. c \in Call
        BY <2>1, NewCallOK DEF Call
    <2>3. /\ machine' \in Machines /\ MachineOK(machine') /\ calls' \subseteq Call
          /\ superseded' \in RouteIds /\ routeId' \in RouteIds
        <3>1. Pause(machine) \in Machines /\ MachineOK(Pause(machine))
            BY <1>0, StopOK
        <3>2. \/ /\ superseded' = routeId /\ routeId' = 0 /\ machine' = machine
                 /\ calls' = calls \union {c}
              \/ /\ machine' = machine \/ machine' = Pause(machine)
                 /\ superseded' = superseded /\ routeId' = routeId /\ calls' = calls
            BY <1>8 DEF StartSend, phase
        <3> HIDE DEF c
        <3>3. calls' \subseteq calls \union {c}
            BY <3>2
        <3>4. machine' \in {machine, Pause(machine)}
            BY <3>2
        <3> QED  BY <1>0, <2>2, <3>1, <3>2, <3>3, <3>4 DEF TypeOK, RouteIds
    <2>4. starting' \subseteq starting
        BY <1>8 DEF StartSend
    <2>5. TypeOK'
        BY <1>0, <1>8, <2>3, <2>4 DEF StartSend, TypeOK, rexVars, Machines
    <2> QED  BY <1>0, <2>3, <2>4, <2>5 DEF IInv, ThreadsOK
<1> QED  BY <1>1, <1>2, <1>4, <1>5, <1>6, <1>7, <1>8 DEF StartStep

(* Answers, polls, events and operator requests.                           *)
LEMMA CallbackOK ==
    ASSUME IInv,
           \/ \E c \in calls : \/ OnRouteDispatched(c) \/ AfterExitCancelled(c)
                               \/ OnBatteryDepartureCancelled(c)
           \/ OnRouteState \/ OnEvent \/ RequestReturn \/ Cancel
    PROVE  IInv'
<1>0. /\ TypeOK /\ MachineOK(machine) /\ ThreadsOK /\ machine \in Machines
      /\ machine.mid \in MissionIds /\ 0 \in MissionIds
      /\ Pause(machine) \in Machines /\ MachineOK(Pause(machine))
      /\ Abort(machine) \in Machines /\ MachineOK(Abort(machine))
    BY BoundsAssumption, StopOK DEF IInv, TypeOK, MissionIds, Machines, Machine
<1>1. ASSUME NEW c \in calls, OnRouteDispatched(c)  PROVE IInv'
    <2>1. machine' \in Machines /\ MachineOK(machine')
        BY <1>0, <1>1 DEF OnRouteDispatched
    <2>2. TypeOK'
        BY <1>0, <1>1, <2>1 DEF OnRouteDispatched, TypeOK, Machines, rexVars
    <2> QED  BY <1>0, <1>1, <2>1, <2>2 DEF OnRouteDispatched, IInv, ThreadsOK, MachineOK
<1>2. ASSUME NEW c \in calls, AfterExitCancelled(c)  PROVE IInv'
    <2>1. /\ machine' \in Machines /\ MachineOK(machine')
          /\ routeId' \in RouteIds /\ superseded' \in RouteIds
          /\ delegated' \in Legs /\ calls' \subseteq Call
        <3>1. CASE DispatchPhase(machine, routeId, calls \ {c})
            BY <1>0, <3>1, DispatchOK DEF TypeOK
        <3>2. CASE /\ machine' = IF c.st = "failed" THEN Pause(machine) ELSE machine
                   /\ calls' = calls \ {c}
                   /\ UNCHANGED <<routeId, superseded, delegated>>
            BY <1>0, <3>2 DEF TypeOK
        <3> QED  BY <1>2, <3>1, <3>2 DEF AfterExitCancelled
    <2>2. TypeOK'
        BY <1>0, <1>2, <2>1 DEF AfterExitCancelled, TypeOK, Machines, rexVars
    <2> QED  BY <1>0, <1>2, <2>1, <2>2 DEF AfterExitCancelled, IInv, ThreadsOK, MachineOK
<1>3. ASSUME NEW c \in calls, OnBatteryDepartureCancelled(c)  PROVE IInv'
    <2>1. machine' \in Machines /\ MachineOK(machine')
        BY <1>0, <1>3 DEF OnBatteryDepartureCancelled
    <2>2. TypeOK'
        BY <1>0, <1>3, <2>1 DEF OnBatteryDepartureCancelled, TypeOK, Machines, rexVars
    <2> QED  BY <1>0, <1>3, <2>1, <2>2
             DEF OnBatteryDepartureCancelled, IInv, ThreadsOK, MachineOK
<1>4. CASE OnRouteState
    <2> DEFINE g == GoalSucceeded(machine, -1)
    <2>1. g \in Machines /\ MachineOK(g)
        BY <1>0, GoalSucceededOK
    <2>2. poll.id \in RouteIds
        BY <1>0 DEF TypeOK
    <2> HIDE DEF g
    <2>3. /\ machine' \in Machines /\ MachineOK(machine')
          /\ routeId' \in RouteIds /\ superseded' \in RouteIds
          /\ delegated' \in Legs /\ calls' \subseteq Call
        <3>1. CASE DispatchPhase(g, poll.id, calls)
            BY <1>0, <2>1, <2>2, <3>1, DispatchOK DEF TypeOK
        <3>2. CASE /\ routeId' \in {poll.id, routeId}
                   /\ machine' \in {g, machine, Pause(machine)}
                   /\ UNCHANGED <<superseded, delegated, calls>>
            BY <1>0, <2>1, <2>2, <3>2 DEF TypeOK
        <3> QED  BY <1>4, <3>1, <3>2 DEF OnRouteState, g
    <2>4. TypeOK'
        <3>1. poll' \in [st : {"none", "sent", "done"}, id : RouteIds, status : RouteStatus]
            BY <1>4 DEF OnRouteState, RouteIds, RouteStatus
        <3> QED  BY <1>0, <1>4, <2>3, <3>1 DEF OnRouteState, TypeOK, Machines, rexVars
    <2> QED  BY <1>0, <1>4, <2>3, <2>4 DEF OnRouteState, IInv, ThreadsOK, MachineOK
<1>5. CASE OnEvent
    <2> DEFINE g == GoalSucceeded(machine, InputIndex(delegated, Head(events).k))
               c == NewCall("exit", "NONE", machine.mid)
    <2>1. g \in Machines /\ MachineOK(g)
        BY <1>0, GoalSucceededOK
    <2>2. c \in Call
        BY <1>0, NewCallOK DEF CancelCallers
    <2> HIDE DEF g, c
    <2>3. machine' \in {g, machine} /\ calls' \subseteq calls \union {c}
        BY <1>5 DEF OnEvent, g, c
    <2>4. machine' \in Machines /\ MachineOK(machine') /\ calls' \subseteq Call
        BY <1>0, <2>1, <2>2, <2>3 DEF TypeOK
    <2>5. events' \in Seq([id : RouteIds, k : Nat])
        BY <1>0, <1>5 DEF OnEvent, TypeOK
    <2>6. TypeOK'
        BY <1>0, <1>5, <2>4, <2>5 DEF OnEvent, TypeOK, Machines, rexVars
    <2> QED  BY <1>0, <1>5, <2>4, <2>6 DEF OnEvent, IInv, ThreadsOK, MachineOK
<1>6. CASE RequestReturn
    <2>1. machine' \in Machines /\ MachineOK(machine')
        BY <1>0, <1>6, RequestReturnOK DEF RequestReturn
    <2>2. TypeOK'
        BY <1>0, <1>6, <2>1 DEF RequestReturn, TypeOK, Machines, rexVars
    <2> QED  BY <1>0, <1>6, <2>1, <2>2 DEF RequestReturn, IInv, ThreadsOK, MachineOK
<1>7. CASE Cancel
    <2>1. machine' \in Machines /\ MachineOK(machine')
        BY <1>7, NoMachineOK DEF Cancel
    <2>2. battery' \in BatteryInput
        BY <1>0, <1>7, BatteryOK DEF Cancel, TypeOK
    <2>3. NewCall("user", "NONE", machine.mid) \in Call
        BY <1>0, NewCallOK DEF CancelCallers
    <2>4. calls' \subseteq calls \union {NewCall("user", "NONE", machine.mid)}
        BY <1>7 DEF Cancel
    <2>5. TypeOK'
        BY <1>0, <1>7, <2>1, <2>2, <2>3, <2>4 DEF Cancel, TypeOK, Machines, rexVars, RouteIds
    <2> QED  BY <1>0, <1>7, <2>1, <2>5 DEF Cancel, IInv, ThreadsOK, MachineOK
<1> QED  BY <1>1, <1>2, <1>3, <1>4, <1>5, <1>6, <1>7

(* The route executor never touches the coordinator.                       *)
LEMMA RexOK ==
    ASSUME IInv,
           \/ RexServe \/ RexForeignSet \/ RexStarts \/ RexPrepFails
           \/ RexCheckpoint \/ RexPause \/ RexCancelEnds \/ RexState
    PROVE  IInv'
<1>0. TypeOK /\ NoRoute \in Route
    BY BoundsAssumption DEF IInv, NoRoute, Route, Legs, MissionIds
<1>1. UNCHANGED <<machine, starting>>
    BY DEF RexServe, RexSet, RexCancel, RexForeignSet, RexStarts, RexActivate, RexPrepFails,
           RexCheckpoint, RexPause, RexCancelEnds, RexCancelDone, RexState, restOfCoord, coordVars
<1>2. TypeOK'
    <2>1. ASSUME NEW c \in calls, RexSet(c)  PROVE TypeOK'
        <3>1. [leg |-> c.leg, mid |-> c.tag] \in Route /\ [c EXCEPT !.st = "failed"] \in Call
            BY <1>0 DEF TypeOK, Call, Route
        <3> QED  BY <1>0, <2>1, <3>1 DEF RexSet, TypeOK, restOfCoord, coordVars
    <2>2. ASSUME NEW c \in calls, RexCancel(c)  PROVE TypeOK'
        <3>1. [c EXCEPT !.st = "serving"] \in Call /\ c \in Call
            BY <1>0 DEF TypeOK, Call
        <3>2. rex' \in [id : RouteIds, status : RouteStatus, pos : Nat]
            BY <1>0, <2>2 DEF RexCancel, TypeOK, RouteStatus
        <3> QED  BY <1>0, <2>2, <3>1, <3>2 DEF RexCancel, TypeOK, restOfCoord, coordVars
    <2>3. CASE RexForeignSet
        <3>1. rexPrep' \in Route
            BY <2>3, BoundsAssumption DEF RexForeignSet, Route, Legs, MissionIds
        <3>2. nForeign' \in 0 .. MaxForeign
            BY <1>0, <2>3, BoundsAssumption DEF RexForeignSet, TypeOK
        <3> QED  BY <1>0, <2>3, <3>1, <3>2 DEF RexForeignSet, TypeOK, restOfCoord, coordVars
    <2>4. ASSUME NEW status \in {"ACTIVE", "COMPLETED"},
                 NEW pos \in 0 .. LoopLen + DepartLen + ReturnLen, RexActivate(status, pos)
          PROVE  TypeOK'
        <3>1. routes' \in Seq(Route)
            BY <1>0, <2>4 DEF RexActivate, TypeOK
        <3>2. rex' \in [id : RouteIds, status : RouteStatus, pos : Nat]
            <4>1. Len(routes) \in Nat /\ pos \in Nat
                BY <1>0, SpecAssumption DEF ValidMission, TypeOK
            <4> QED  BY <2>4, <4>1 DEF RexActivate, RouteIds, RouteStatus
        <3> QED  BY <1>0, <2>4, <3>1, <3>2 DEF RexActivate, TypeOK, restOfCoord, coordVars
    <2>5. CASE RexPrepFails
        BY <1>0, <2>5 DEF RexPrepFails, TypeOK, restOfCoord, coordVars
    <2>6. CASE RexCheckpoint
        <3>1. rex.pos \in Nat /\ rex.pos + 1 \in Nat /\ (rex.pos + 1) % LoopLen \in Nat /\ rex.id \in RouteIds
            BY <1>0, SpecAssumption DEF ValidMission, TypeOK
        <3>2. rex' \in [id : RouteIds, status : RouteStatus, pos : Nat]
            BY <1>0, <2>6, <3>1 DEF RexCheckpoint, TypeOK, RouteStatus
        <3>3. events' \in Seq([id : RouteIds, k : Nat])
            BY <1>0, <2>6, <3>1 DEF RexCheckpoint, TypeOK
        <3> QED  BY <1>0, <2>6, <3>2, <3>3 DEF RexCheckpoint, TypeOK, restOfCoord, coordVars
    <2>7. CASE RexPause
        <3>1. rex' \in [id : RouteIds, status : RouteStatus, pos : Nat]
            BY <1>0, <2>7 DEF RexPause, TypeOK, RouteStatus
        <3> QED  BY <1>0, <2>7, <3>1 DEF RexPause, TypeOK, restOfCoord, coordVars
    <2>8. ASSUME NEW c \in rexBusy, NEW st \in {"ok", "failed"}, RexCancelDone(c, st)
          PROVE  TypeOK'
        <3>1. [c EXCEPT !.st = st] \in Call
            <4>1. c \in Call
                BY <1>0 DEF TypeOK
            <4> QED  BY <4>1 DEF Call
        <3>2. calls' \subseteq calls \union {[c EXCEPT !.st = st]}
            BY <2>8 DEF RexCancelDone
        <3> QED  BY <1>0, <2>8, <3>1, <3>2 DEF RexCancelDone, TypeOK, restOfCoord, coordVars
    <2>9. CASE RexState
        <3>1. poll' \in [st : {"none", "sent", "done"}, id : RouteIds, status : RouteStatus]
            BY <1>0, <2>9 DEF RexState, TypeOK
        <3> QED  BY <1>0, <2>9, <3>1 DEF RexState, TypeOK, restOfCoord, coordVars, rexVars
    <2> QED  BY <2>1, <2>2, <2>3, <2>4, <2>5, <2>6, <2>7, <2>8, <2>9
             DEF RexServe, RexStarts, RexCancelEnds
<1> QED  BY <1>1, <1>2 DEF IInv, ThreadsOK, MachineOK

(* The invariant is inductive.                                             *)
LEMMA NextIInv == IInv /\ [Next]_vars => IInv'
<1> SUFFICES ASSUME IInv, [Next]_vars  PROVE IInv'
    OBVIOUS
<1>1. CASE UNCHANGED vars
    BY <1>1 DEF vars, IInv, TypeOK, ThreadsOK, MachineOK
<1>2. CASE BatteryStep
    <2>1. /\ battery \in BatteryInput
          /\ GuardInputs \subseteq Guards /\ SocInputs \subseteq Socs
        BY BoundsAssumption DEF IInv, TypeOK
    <2>2. ASSUME NEW g \in GuardInputs, OnBatteryGuard(g)  PROVE IInv'
        <3>1. [battery EXCEPT !.guard = g] \in BatteryInput
            BY <2>1 DEF BatteryInput
        <3> QED  BY <2>2, <3>1, BatteryStepOK DEF OnBatteryGuard
    <2>3. ASSUME NEW x \in SocInputs, OnBatteryState(x)  PROVE IInv'
        <3>1. [battery EXCEPT !.soc = x] \in BatteryInput
            BY <2>1 DEF BatteryInput
        <3> QED  BY <2>3, <3>1, BatteryStepOK DEF OnBatteryState
    <2>4. CASE BatteryAge
        BY <2>4, InputSteps
    <2> QED  BY <1>2, <2>2, <2>3, <2>4 DEF BatteryStep
<1>3. CASE \/ \E p \in Poses : OnPose(p)
           \/ SetPatrolMission \/ PreparationFails \/ TickRouteState
    BY <1>3, InputSteps
<1>4. CASE ActivateSpec
    BY <1>4, ActivateSpecOK
<1>5. CASE StartStep
    BY <1>5, ReplacementOK
<1>6. CASE AnswerStep
    BY <1>6, ReplacementOK, CallbackOK DEF AnswerStep
<1>7. CASE OnRouteState \/ OnEvent \/ RequestReturn \/ Cancel
    BY <1>7, CallbackOK
<1>8. CASE \/ RexServe \/ RexForeignSet \/ RexStarts \/ RexPrepFails
           \/ RexCheckpoint \/ RexPause \/ RexCancelEnds \/ RexState
    BY <1>8, RexOK
<1> QED  BY <1>1, <1>2, <1>3, <1>4, <1>5, <1>6, <1>7, <1>8 DEF Next

-----------------------------------------------------------------------------
(* Type correctness of the coordinator in every reachable state.           *)
THEOREM PatrolTypeOK == Spec => []TypeOK
<1>1. IInv => TypeOK
    BY DEF IInv
<1> QED  BY <1>1, InitIInv, NextIInv, PTL DEF Spec

(* A patrol whose battery return is latched never stays in PATROL: for any *)
(* loop, any bounds, with replacements and foreign routes.                 *)
THEOREM LowBatteryNeverPatrols == Spec => []NoPatrolOnLowBattery
<1>1. IInv => NoPatrolOnLowBattery
    BY DEF IInv, MachineOK, NoPatrolOnLowBattery
<1> QED  BY <1>1, InitIInv, NextIInv, PTL DEF Spec

(* A returning patrol leaves the loop at its nearest waypoint.             *)
THEOREM ReturnLeavesAtNearestExit == Spec => []ReturnKnowsItsExit
<1>1. IInv => ReturnKnowsItsExit
    BY ExitIsNearest DEF IInv, MachineOK, ReturnKnowsItsExit
<1> QED  BY <1>1, InitIInv, NextIInv, PTL DEF Spec

-----------------------------------------------------------------------------
(* The number of a patrol is handed on: from the preparation to the call   *)
(* that stops the patrol before it, from there to the thread that starts   *)
(* it, and from there to the machine.  No two places hold the same number, *)
(* so no machine is ever started twice.                                    *)
Waiting == {c \in calls : c.who = "replace"}
Fresh == {t \in starting : t.pc \in {"begin", "evaluate", "assign"}}

IdsOK ==
    /\ machine.mid \in 0 .. nSets /\ (machine.phase # "NONE" => machine.mid # 0)
    /\ preparation \in 0 .. nSets /\ (preparation # 0 => preparation # machine.mid)
    /\ \A c \in Waiting : c.tag \in 1 .. nSets /\ c.tag # machine.mid /\ c.tag # preparation
    /\ \A t \in Fresh : /\ t.spec \in 1 .. nSets /\ t.spec # machine.mid /\ t.spec # preparation
                        /\ t.pc = "assign" => t.m.mid = t.spec /\ t.m.phase # "NONE"
                        /\ \A c \in Waiting : c.tag # t.spec
    /\ \A c, d \in Waiting : c.tag = d.tag => c = d
    /\ \A t, u \in Fresh : t.spec = u.spec => t = u

(* The call in which the executor's _cancel is blocked is on its way.      *)
BusyOK == \A c \in rexBusy : [c EXCEPT !.st = "serving"] \in calls

(* The machine n is m later on: the same patrol, no less far.              *)
Later(m, n) ==
    /\ n.mid = m.mid
    /\ (n.phase = "NONE") = (m.phase = "NONE")
    /\ PhaseRank(n.phase) >= PhaseRank(m.phase)
    /\ m.low => n.low

LEMMA LaterSelf == ASSUME NEW m \in Machines PROVE Later(m, m)
<1>1. PhaseRank(m.phase) \in Int
    BY DEF Machines, Machine, PatrolPhase, MovingPhases, PhaseRank
<1> QED  BY <1>1 DEF Later

LEMMA RequestReturnLater ==
    ASSUME NEW m \in Machines
    PROVE  Later(m, RequestReturnHome(m))
<1>1. CASE m.phase = "PATROL"
    <2> DEFINE n == [m EXCEPT !.exit = SelectReturnExit, !.phase = "EXIT_LOOP"]
    <2>1. n.mid = m.mid /\ n.phase = "EXIT_LOOP" /\ n.low = m.low
        BY DEF Machines, Machine
    <2>2. RequestReturnHome(m) = n
        BY <1>1 DEF RequestReturnHome
    <2> HIDE DEF n
    <2> QED  BY <1>1, <2>1, <2>2 DEF Later, PhaseRank
<1>2. CASE m.phase # "PATROL"
    BY <1>2, LaterSelf DEF RequestReturnHome
<1> QED  BY <1>1, <1>2

LEMMA LaterTrans ==
    ASSUME NEW m \in Machines, NEW n \in Machines, NEW k \in Machines, Later(m, n), Later(n, k)
    PROVE  Later(m, k)
<1>1. PhaseRank(m.phase) \in Int /\ PhaseRank(n.phase) \in Int /\ PhaseRank(k.phase) \in Int
    BY DEF Machines, Machine, PatrolPhase, MovingPhases, PhaseRank
<1> QED  BY <1>1 DEF Later

LEMMA LatchLater ==
    ASSUME NEW m \in Machines, NEW atHome \in BOOLEAN
    PROVE  Later(m, LatchBatteryReturn(m, atHome)) /\ LatchBatteryReturn(m, atHome).low
<1> DEFINE l == [m EXCEPT !.low = TRUE]
           n == [l EXCEPT !.phase = "AT_HOME"]
<1>1. l \in Machines /\ l.mid = m.mid /\ l.phase = m.phase /\ l.low
    BY DEF Machines, Machine
<1>2. n.mid = m.mid /\ n.phase = "AT_HOME" /\ n.low
    BY DEF Machines, Machine
<1>3. \/ m.phase = "DEPART_HOME" /\ LatchBatteryReturn(m, atHome) = n
      \/ LatchBatteryReturn(m, atHome) = RequestReturnHome(l)
    BY DEF LatchBatteryReturn
<1> HIDE DEF l, n
<1>4. m.phase = "DEPART_HOME" => Later(m, n)
    BY <1>2 DEF Later, PhaseRank
<1>5. Later(m, l)
    BY <1>1, LaterSelf DEF Later
<1>6. Later(l, RequestReturnHome(l)) /\ RequestReturnHome(l).low
    BY <1>1, RequestReturnLater DEF Later
<1>7. RequestReturnHome(l) \in Machines
    BY <1>1, ExitIsNearest DEF RequestReturnHome, Machines, Machine, PatrolPhase, MovingPhases
<1> QED  BY <1>1, <1>2, <1>3, <1>4, <1>5, <1>6, <1>7, LaterTrans

LEMMA GoalSucceededLater ==
    ASSUME NEW m \in Machines, NEW index
    PROVE  Later(m, GoalSucceeded(m, index))
<1>1. CASE m.phase = "JOIN_LOOP"
    <2> DEFINE p == [m EXCEPT !.phase = "PATROL"]
    <2>1. p \in Machines /\ p.mid = m.mid /\ p.phase = "PATROL" /\ p.low = m.low
        BY DEF Machines, Machine, PatrolPhase, MovingPhases
    <2>2. GoalSucceeded(m, index) = RequestReturnHome(p) \/ GoalSucceeded(m, index) = p
        BY <1>1 DEF GoalSucceeded
    <2> HIDE DEF p
    <2>3. Later(m, p)
        BY <1>1, <2>1 DEF Later, PhaseRank
    <2>4. RequestReturnHome(p) \in Machines
        BY <2>1, ExitIsNearest DEF RequestReturnHome, Machines, Machine, PatrolPhase, MovingPhases
    <2> QED  BY <2>1, <2>2, <2>3, <2>4, RequestReturnLater, LaterTrans
<1>2. ASSUME NEW ph \in {"JOIN_LOOP", "RETURN_HOME", "AT_HOME"}, PhaseRank(ph) >= PhaseRank(m.phase),
             m.phase # "NONE"
      PROVE  Later(m, [m EXCEPT !.phase = ph])
    <2>1. LET n == [m EXCEPT !.phase = ph] IN n.mid = m.mid /\ n.phase = ph /\ n.low = m.low
        BY DEF Machines, Machine
    <2> QED  BY <1>2, <2>1 DEF Later
<1>3. CASE m.phase = "DEPART_HOME"
    <2>1. GoalSucceeded(m, index) = [m EXCEPT !.phase = "JOIN_LOOP"]
        BY <1>3 DEF GoalSucceeded
    <2>2. PhaseRank("JOIN_LOOP") >= PhaseRank(m.phase)
        BY <1>3 DEF PhaseRank
    <2> QED  BY <1>2, <1>3, <2>1, <2>2
<1>4. CASE m.phase = "EXIT_LOOP" /\ index = m.exit
    <2>1. GoalSucceeded(m, index) = [m EXCEPT !.phase = "RETURN_HOME"]
        BY <1>4 DEF GoalSucceeded
    <2>2. PhaseRank("RETURN_HOME") >= PhaseRank(m.phase)
        BY <1>4 DEF PhaseRank
    <2> QED  BY <1>2, <1>4, <2>1, <2>2
<1>5. CASE m.phase = "RETURN_HOME"
    <2>1. GoalSucceeded(m, index) = [m EXCEPT !.phase = "AT_HOME"]
        BY <1>5 DEF GoalSucceeded
    <2>2. PhaseRank("AT_HOME") >= PhaseRank(m.phase)
        BY <1>5 DEF PhaseRank
    <2> QED  BY <1>2, <1>5, <2>1, <2>2
<1>6. CASE m.phase \notin {"DEPART_HOME", "JOIN_LOOP", "RETURN_HOME"}
           /\ ~(m.phase = "EXIT_LOOP" /\ index = m.exit)
    BY <1>6, LaterSelf DEF GoalSucceeded
<1> QED  BY <1>1, <1>3, <1>4, <1>5, <1>6

LEMMA StopLater ==
    ASSUME NEW m \in Machines
    PROVE  Later(m, Pause(m)) /\ (m.phase # "NONE" => Later(m, Abort(m)))
<1>1. ASSUME NEW ph \in {"PAUSED", "ABORTED"}, PhaseRank(ph) >= PhaseRank(m.phase), m.phase # "NONE"
      PROVE  Later(m, [m EXCEPT !.phase = ph])
    <2>1. LET n == [m EXCEPT !.phase = ph] IN n.mid = m.mid /\ n.phase = ph /\ n.low = m.low
        BY DEF Machines, Machine
    <2> QED  BY <1>1, <2>1 DEF Later
<1>2. PhaseRank("ABORTED") >= PhaseRank(m.phase)
    BY DEF PhaseRank, Machines, Machine, PatrolPhase, MovingPhases
<1>3. Active(m) => PhaseRank("PAUSED") >= PhaseRank(m.phase) /\ m.phase # "NONE"
    BY DEF Active, PhaseRank, MovingPhases
<1> QED  BY <1>1, <1>2, <1>3, LaterSelf DEF Pause, Abort

-----------------------------------------------------------------------------
FreshPc == {"begin", "evaluate", "assign"}

(* A step that hands no number on.                                         *)
LEMMA IdsQuiet ==
    ASSUME IInv, IdsOK, Later(machine, machine') \/ machine' = NoMachine,
           preparation' \in {preparation, 0}, nSets' = nSets,
           \A c \in calls' : c.who = "replace" => c \in calls,
           \A t \in starting' : t.pc \in FreshPc => t \in starting
    PROVE  IdsOK'
<1>1. nSets \in Nat
    BY BoundsAssumption DEF IInv, TypeOK, MissionIds
<1>2. Waiting' \subseteq Waiting /\ Fresh' \subseteq Fresh
    BY DEF Waiting, Fresh, FreshPc
<1>3. /\ machine'.mid = machine.mid \/ machine'.mid = 0
      /\ machine'.phase # "NONE" => machine.phase # "NONE" /\ machine'.mid = machine.mid
    BY DEF Later, NoMachine
<1> QED  BY <1>1, <1>2, <1>3 DEF IdsOK

(* A step of which _cancel of the executor takes no notice.                *)
LEMMA BusyQuiet ==
    ASSUME IInv, BusyOK, rexBusy' = rexBusy, \A c \in calls : c.st = "serving" => c \in calls'
    PROVE  BusyOK'
<1> SUFFICES ASSUME NEW c \in rexBusy PROVE [c EXCEPT !.st = "serving"] \in calls'
    BY DEF BusyOK
<1>1. c \in Call
    BY DEF IInv, TypeOK
<1>2. [c EXCEPT !.st = "serving"].st = "serving"
    BY <1>1 DEF Call
<1>3. [c EXCEPT !.st = "serving"] \in calls
    BY DEF BusyOK
<1> QED  BY <1>2, <1>3

(* What a step does to the machine: it goes on with the same patrol, ends  *)
(* it, or begins one whose number was waiting.                             *)
Begins(n) == machine'.mid = n /\ n # 0 /\ machine'.phase # "NONE"
MachineMove ==
    \/ Later(machine, machine')
    \/ machine' = NoMachine
    \/ preparation # 0 /\ Begins(preparation)
    \/ \E t \in Fresh : t.pc = "assign" /\ Begins(t.spec)

LEMMA DispatchMoves ==
    ASSUME TypeOK, NEW m \in Machines, NEW rid, NEW cs, DispatchPhase(m, rid, cs)
    PROVE  /\ Later(m, machine')
           /\ cs \subseteq calls' /\ \A c \in calls' : c \in cs \/ c.who = "dispatch"
<1>1. NewCall("dispatch", m.phase, m.mid).who = "dispatch"
    BY DEF NewCall
<1> QED  BY <1>1, LaterSelf, StopLater DEF DispatchPhase

LEMMA InputMoves ==
    ASSUME IInv, IdsOK, BusyOK,
           \/ \E p \in Poses : OnPose(p)
           \/ BatteryAge \/ SetPatrolMission \/ PreparationFails \/ TickRouteState
    PROVE  IdsOK' /\ BusyOK' /\ MachineMove
<1>1. machine' = machine /\ UNCHANGED <<calls, starting, rexBusy>>
    BY DEF OnPose, BatteryAge, SetPatrolMission, PreparationFails, TickRouteState, coordVars, rexVars
<1>2. machine \in Machines
    BY DEF IInv, TypeOK, Machines
<1>3. Later(machine, machine')
    BY <1>1, <1>2, LaterSelf
<1>4. BusyOK'
    BY <1>1, BusyQuiet
<1>5. CASE SetPatrolMission
    <2>1. nSets \in Nat /\ nSets' = nSets + 1 /\ preparation' = nSets + 1
        BY <1>5, BoundsAssumption DEF IInv, TypeOK, MissionIds, SetPatrolMission
    <2>2. Waiting' = Waiting /\ Fresh' = Fresh
        BY <1>1 DEF Waiting, Fresh
    <2>3. IdsOK'
        BY <1>1, <2>1, <2>2 DEF IdsOK
    <2> QED  BY <1>3, <1>4, <2>3 DEF MachineMove
<1>6. CASE (\E p \in Poses : OnPose(p)) \/ BatteryAge \/ PreparationFails \/ TickRouteState
    <2>1. preparation' \in {preparation, 0} /\ nSets' = nSets
        BY <1>6 DEF OnPose, BatteryAge, PreparationFails, TickRouteState, coordVars
    <2>2. IdsOK'
        BY <1>1, <1>3, <2>1, IdsQuiet
    <2> QED  BY <1>3, <1>4, <2>2 DEF MachineMove
<1> QED  BY <1>5, <1>6

LEMMA BatteryMoves ==
    ASSUME IInv, IdsOK, BusyOK, NEW b, BatterySample(b)
    PROVE  IdsOK' /\ BusyOK' /\ MachineMove
<1>1. machine \in Machines /\ AtHome \in BOOLEAN
    BY DEF IInv, TypeOK, Machines, AtHome
<1> DEFINE after == LatchBatteryReturn(machine, AtHome)
           c == NewCall("departure", "NONE", machine.mid)
<1>2. Later(machine, after) /\ after \in Machines
    BY <1>1, LatchLater, LatchOK DEF IInv
<1>3. after.phase = "AT_HOME" => Later(machine, Abort(after)) /\ Abort(after) \in Machines
    BY <1>1, <1>2, StopLater, StopOK, LaterTrans, LatchOK DEF IInv
<1>4. c.who = "departure"
    BY DEF NewCall
<1> HIDE DEF after, c
<1>5. /\ machine' = machine \/ machine' = after \/ (after.phase = "AT_HOME" /\ machine' = Abort(after))
      /\ calls' = calls \/ calls' = calls \union {c}
    BY DEF BatterySample, ConsumeBatteryDecision, CancelActiveRoute, after, c
<1>6. Later(machine, machine')
    BY <1>1, <1>2, <1>3, <1>5, LaterSelf
<1>7. UNCHANGED <<preparation, nSets, starting, rexBusy>>
    BY DEF BatterySample, rexVars
<1>8. IdsOK'
    BY <1>4, <1>5, <1>6, <1>7, IdsQuiet
<1>9. BusyOK'
    BY <1>5, <1>7, BusyQuiet
<1> QED  BY <1>6, <1>8, <1>9 DEF MachineMove

LEMMA ActivateMoves ==
    ASSUME IInv, IdsOK, BusyOK, ActivateSpec
    PROVE  IdsOK' /\ BusyOK' /\ MachineMove
<1> DEFINE b == Evaluate(ClearLatch(battery))
           m == Start(preparation, pose = "home", b.latched)
           c == NewCall("replace", "NONE", preparation)
<1>1. /\ machine \in Machines /\ TypeOK /\ preparation \in MissionIds /\ nSets \in Nat
      /\ preparation # 0 /\ preparation' = 0 /\ UNCHANGED <<nSets, starting, rexBusy>>
    BY BoundsAssumption DEF IInv, TypeOK, Machines, MissionIds, ActivateSpec, rexVars
<1>2. b.latched \in BOOLEAN
    BY <1>1, BatteryOK DEF TypeOK, BatteryInput
<1>3. m \in Machines /\ m.mid = preparation /\ m.phase # "NONE"
    BY <1>1, <1>2, StartOK DEF Start
<1>4. c.who = "replace" /\ c.tag = preparation
    BY DEF NewCall
<1> HIDE DEF b, m, c
<1>5. CASE DispatchPhase(m, 0, calls)
    <2>1. /\ Later(m, machine') /\ calls \subseteq calls'
          /\ \A d \in calls' : d \in calls \/ d.who = "dispatch"
        BY <1>1, <1>3, <1>5, DispatchMoves
    <2>2. machine'.mid = preparation /\ machine'.phase # "NONE"
        BY <1>3, <2>1 DEF Later
    <2>3. Waiting' \subseteq Waiting /\ Fresh' = Fresh
        BY <1>1, <2>1 DEF Waiting, Fresh
    <2>4. IdsOK'
        BY <1>1, <2>2, <2>3 DEF IdsOK, MissionIds
    <2>5. BusyOK'
        BY <1>1, <2>1, BusyQuiet
    <2> QED  BY <1>1, <2>2, <2>4, <2>5 DEF MachineMove, Begins
<1>6. CASE machine' = machine /\ calls' = calls
    <2>1. Later(machine, machine')
        BY <1>1, <1>6, LaterSelf
    <2>2. IdsOK'
        BY <1>1, <1>6, <2>1, IdsQuiet
    <2>3. BusyOK'
        BY <1>1, <1>6, BusyQuiet
    <2> QED  BY <2>1, <2>2, <2>3 DEF MachineMove
<1>7. CASE machine' = machine /\ calls' = calls \union {c}
    <2>1. Later(machine, machine')
        BY <1>1, <1>7, LaterSelf
    <2>2. BusyOK'
        BY <1>1, <1>7, BusyQuiet
    <2>3. Waiting' = Waiting \union {c} /\ Fresh' = Fresh
        BY <1>1, <1>4, <1>7 DEF Waiting, Fresh
    <2>4. IdsOK'
        BY <1>1, <1>4, <1>7, <2>3 DEF IdsOK, MissionIds
    <2> QED  BY <2>1, <2>2, <2>4 DEF MachineMove
<1> QED  BY <1>5, <1>6, <1>7 DEF ActivateSpec, b, m, c

(* A number stays with its call, whatever the call's progress.             *)
LEMMA IdsRename ==
    ASSUME IInv, IdsOK, NEW c \in calls, NEW d, d.who = c.who, d.tag = c.tag,
           calls' \subseteq (calls \ {c}) \union {d},
           UNCHANGED <<machine, preparation, nSets, starting>>
    PROVE  IdsOK'
<1>1. nSets \in Nat
    BY BoundsAssumption DEF IInv, TypeOK, MissionIds
<1>2. CASE c.who = "replace"
    <2>1. c \in Waiting /\ Waiting' \subseteq (Waiting \ {c}) \union {d} /\ Fresh' = Fresh
        BY <1>2 DEF Waiting, Fresh
    <2> QED  BY <1>1, <2>1 DEF IdsOK
<1>3. CASE c.who # "replace"
    <2>1. Waiting' \subseteq Waiting /\ Fresh' = Fresh
        BY <1>3 DEF Waiting, Fresh
    <2> QED  BY <1>1, <2>1 DEF IdsOK
<1> QED  BY <1>2, <1>3

(* A number stays with its thread until the thread assigns the machine.    *)
LEMMA IdsThread ==
    ASSUME IInv, IdsOK, NEW t \in Fresh, NEW u, u.spec = t.spec,
           u.pc = "assign" => u.m.mid = u.spec /\ u.m.phase # "NONE",
           starting' = (starting \ {t}) \union {u},
           UNCHANGED <<machine, preparation, nSets, calls>>
    PROVE  IdsOK'
<1>1. nSets \in Nat
    BY BoundsAssumption DEF IInv, TypeOK, MissionIds
<1>2. Waiting' = Waiting /\ Fresh' \subseteq (Fresh \ {t}) \union {u}
    BY DEF Waiting, Fresh
<1> QED  BY <1>1, <1>2 DEF IdsOK

LEMMA ReplacementMoves ==
    ASSUME IInv, IdsOK, BusyOK,
           \/ \E c \in calls : FinishReplacementFailed(c) \/ FinishReplacement(c)
           \/ StartStep
    PROVE  IdsOK' /\ BusyOK' /\ MachineMove
<1>0. machine \in Machines /\ nSets \in Nat /\ Later(machine, machine)
    BY BoundsAssumption, LaterSelf DEF IInv, TypeOK, Machines, MissionIds
<1>1. ASSUME NEW c \in calls, FinishReplacementFailed(c)  PROVE IdsOK' /\ BusyOK' /\ MachineMove
    <2>1. /\ machine' = machine /\ preparation' = 0 /\ calls' = calls \ {c} /\ c.st = "failed"
          /\ UNCHANGED <<nSets, starting, rexBusy>>
        BY <1>1 DEF FinishReplacementFailed, rexVars
    <2> QED  BY <1>0, <2>1, IdsQuiet, BusyQuiet DEF MachineMove
<1>2. ASSUME NEW c \in calls, FinishReplacement(c)  PROVE IdsOK' /\ BusyOK' /\ MachineMove
    <2> DEFINE t == [spec |-> c.tag, pc |-> "begin", m |-> NoMachine, leg |-> "NONE"]
    <2>1. /\ machine' = machine /\ calls' = calls \ {c} /\ c.st = "ok" /\ c.who = "replace"
          /\ UNCHANGED <<nSets, rexBusy>> /\ preparation' \in {preparation, 0}
          /\ starting' \subseteq starting \union {t}
        BY <1>2 DEF FinishReplacement, rexVars
    <2>2. t.spec = c.tag /\ t.pc = "begin"
        OBVIOUS
    <2> HIDE DEF t
    <2>3. c \in Waiting /\ Waiting' = Waiting \ {c} /\ Fresh' \subseteq Fresh \union {t}
        BY <2>1, <2>2 DEF Waiting, Fresh
    <2>4. IdsOK'
        BY <1>0, <2>1, <2>2, <2>3 DEF IdsOK
    <2> QED  BY <1>0, <2>1, <2>4, BusyQuiet DEF MachineMove
<1>3. ASSUME NEW t \in starting  PROVE t \in Thread /\ t.spec \in MissionIds
    BY <1>3 DEF IInv, TypeOK, Thread
<1>4. ASSUME NEW t \in starting, StartBegin(t)  PROVE IdsOK' /\ BusyOK' /\ MachineMove
    <2> DEFINE u == [t EXCEPT !.pc = "evaluate"]
    <2>1. u.spec = t.spec /\ u.pc = "evaluate"
        BY <1>3 DEF Thread
    <2>2. t \in Fresh /\ starting' = (starting \ {t}) \union {u}
          /\ UNCHANGED <<machine, preparation, nSets, calls, rexBusy>>
        BY <1>4 DEF StartBegin, Replace, Fresh, coordVars, rexVars
    <2> HIDE DEF u
    <2> QED  BY <1>0, <2>1, <2>2, IdsThread, BusyQuiet DEF MachineMove
<1>5. ASSUME NEW t \in starting, StartEvaluate(t)  PROVE IdsOK' /\ BusyOK' /\ MachineMove
    <2> DEFINE m == Start(t.spec, pose = "home", battery'.latched)
               u == [t EXCEPT !.pc = "assign", !.m = m]
    <2>1. m.mid = t.spec /\ m.phase # "NONE"
        BY DEF Start
    <2>2. t \in Fresh /\ starting' = (starting \ {t}) \union {u}
          /\ UNCHANGED <<machine, preparation, nSets, calls, rexBusy>>
        BY <1>5 DEF StartEvaluate, Replace, Fresh, coordVars, rexVars
    <2> HIDE DEF m
    <2>3. u.spec = t.spec /\ u.m = m
        BY <1>3 DEF Thread
    <2> HIDE DEF u
    <2> QED  BY <1>0, <2>1, <2>2, <2>3, IdsThread, BusyQuiet DEF MachineMove
<1>6. ASSUME NEW t \in starting, StartAssign(t)  PROVE IdsOK' /\ BusyOK' /\ MachineMove
    <2> DEFINE u == [t EXCEPT !.pc = "read"]
    <2>1. u.pc = "read"
        BY <1>3 DEF Thread
    <2>2. /\ t \in Fresh /\ t.pc = "assign" /\ starting' = (starting \ {t}) \union {u}
          /\ machine' = t.m /\ UNCHANGED <<preparation, nSets, calls, rexBusy>>
        BY <1>6 DEF StartAssign, Replace, Fresh, rexVars
    <2> HIDE DEF u
    <2>3. t.spec \in 1 .. nSets /\ Begins(t.spec)
        BY <1>0, <2>2 DEF IdsOK, Begins
    <2>4. Waiting' = Waiting /\ Fresh' \subseteq Fresh \ {t}
        BY <2>1, <2>2 DEF Waiting, Fresh
    <2>5. IdsOK'
        BY <1>0, <2>2, <2>3, <2>4 DEF IdsOK, Begins
    <2> QED  BY <2>2, <2>3, <2>5, BusyQuiet DEF MachineMove
<1>7. ASSUME NEW t \in starting, StartRead(t)  PROVE IdsOK' /\ BusyOK' /\ MachineMove
    <2> DEFINE u == [t EXCEPT !.pc = "send", !.m = machine, !.leg = Leg(machine.phase)]
    <2>1. u.pc = "send"
        BY <1>3 DEF Thread
    <2>2. /\ starting' \subseteq (starting \ {t}) \union {u}
          /\ UNCHANGED <<machine, preparation, nSets, calls, rexBusy>>
        BY <1>7 DEF StartRead, Replace, rexVars
    <2> HIDE DEF u
    <2>3. \A w \in starting' : w.pc \in FreshPc => w \in starting
        BY <2>1, <2>2 DEF FreshPc
    <2> QED  BY <1>0, <2>2, <2>3, IdsQuiet, BusyQuiet DEF MachineMove
<1>8. ASSUME NEW t \in starting, StartSend(t)  PROVE IdsOK' /\ BusyOK' /\ MachineMove
    <2> DEFINE phase == IF machine.mid = t.m.mid THEN machine.phase ELSE t.m.phase
               c == [NewCall("dispatch", phase, t.m.mid) EXCEPT !.leg = t.leg]
    <2>1. c.who = "dispatch"
        BY DEF NewCall
    <2>2. /\ starting' = starting \ {t} /\ UNCHANGED <<preparation, nSets, rexBusy>>
          /\ calls' = calls \/ calls' = calls \union {c}
          /\ machine' = machine \/ machine' = Pause(machine)
        BY <1>8 DEF StartSend, rexVars
    <2> HIDE DEF c
    <2>3. Later(machine, machine')
        BY <1>0, <2>2, StopLater
    <2> QED  BY <2>1, <2>2, <2>3, IdsQuiet, BusyQuiet DEF MachineMove
<1> QED  BY <1>1, <1>2, <1>4, <1>5, <1>6, <1>7, <1>8 DEF StartStep

(* A callback goes on with the patrol, asks for no replacement and leaves  *)
(* the call that _cancel serves alone.                                     *)
CallbackGoesOn ==
    /\ Later(machine, machine')
    /\ \A c \in calls' : c.who = "replace" => c \in calls
    /\ \A c \in calls : c.st = "serving" => c \in calls'

LEMMA CallbackLater ==
    ASSUME IInv,
           \/ \E c \in calls : \/ OnRouteDispatched(c) \/ AfterExitCancelled(c)
                               \/ OnBatteryDepartureCancelled(c)
           \/ OnRouteState \/ OnEvent \/ RequestReturn
    PROVE  CallbackGoesOn
<1> USE DEF CallbackGoesOn
<1>0. /\ TypeOK /\ machine \in Machines /\ Later(machine, machine)
      /\ Later(machine, Pause(machine))
      /\ machine.phase # "NONE" => Later(machine, Abort(machine))
    BY LaterSelf, StopLater DEF IInv, TypeOK, Machines
<1>1. ASSUME NEW c \in calls, OnRouteDispatched(c)  PROVE CallbackGoesOn
    BY <1>0, <1>1 DEF OnRouteDispatched
<1>2. ASSUME NEW c \in calls, AfterExitCancelled(c)  PROVE CallbackGoesOn
    <2>1. c.st # "serving"
        BY <1>2 DEF AfterExitCancelled, Answered
    <2>2. CASE DispatchPhase(machine, routeId, calls \ {c})
        <3>1. /\ Later(machine, machine') /\ calls \ {c} \subseteq calls'
              /\ \A d \in calls' : d \in calls \ {c} \/ d.who = "dispatch"
            BY <1>0, <2>2, DispatchMoves
        <3> QED  BY <2>1, <3>1
    <2>3. CASE /\ machine' = IF c.st = "failed" THEN Pause(machine) ELSE machine
               /\ calls' = calls \ {c}
        BY <1>0, <2>1, <2>3
    <2> QED  BY <1>2, <2>2, <2>3 DEF AfterExitCancelled
<1>3. ASSUME NEW c \in calls, OnBatteryDepartureCancelled(c)  PROVE CallbackGoesOn
    BY <1>0, <1>3 DEF OnBatteryDepartureCancelled, Answered
<1>4. CASE OnRouteState
    <2> DEFINE g == GoalSucceeded(machine, -1)
    <2>1. g \in Machines /\ Later(machine, g)
        BY <1>0, GoalSucceededLater, GoalSucceededOK DEF IInv
    <2> HIDE DEF g
    <2>2. CASE DispatchPhase(g, poll.id, calls)
        <3>1. /\ Later(g, machine') /\ calls \subseteq calls'
              /\ \A d \in calls' : d \in calls \/ d.who = "dispatch"
            BY <1>0, <2>1, <2>2, DispatchMoves
        <3>2. machine' \in Machines
            BY <1>4, CallbackOK DEF IInv, TypeOK, Machines
        <3> QED  BY <1>0, <2>1, <3>1, <3>2, LaterTrans
    <2>3. CASE machine' \in {g, machine, Pause(machine)} /\ UNCHANGED calls
        BY <1>0, <2>1, <2>3
    <2> QED  BY <1>4, <2>2, <2>3 DEF OnRouteState, g
<1>5. CASE OnEvent
    <2> DEFINE g == GoalSucceeded(machine, InputIndex(delegated, Head(events).k))
               c == NewCall("exit", "NONE", machine.mid)
    <2>1. Later(machine, g) /\ c.who = "exit"
        BY <1>0, GoalSucceededLater DEF NewCall
    <2> HIDE DEF g, c
    <2>2. machine' \in {g, machine} /\ (calls' = calls \/ calls' = calls \union {c})
        BY <1>5 DEF OnEvent, g, c
    <2> QED  BY <1>0, <2>1, <2>2
<1>6. CASE RequestReturn
    BY <1>0, <1>6, RequestReturnLater DEF RequestReturn
<1> QED  BY <1>1, <1>2, <1>3, <1>4, <1>5, <1>6

LEMMA CallbackMoves ==
    ASSUME IInv, IdsOK, BusyOK,
           \/ \E c \in calls : \/ OnRouteDispatched(c) \/ AfterExitCancelled(c)
                               \/ OnBatteryDepartureCancelled(c)
           \/ OnRouteState \/ OnEvent \/ RequestReturn \/ Cancel
    PROVE  IdsOK' /\ BusyOK' /\ MachineMove
<1>1. UNCHANGED <<nSets, starting, rexBusy>> /\ preparation' \in {preparation, 0}
    BY DEF OnRouteDispatched, AfterExitCancelled, OnBatteryDepartureCancelled, OnRouteState,
           OnEvent, RequestReturn, Cancel, rexVars
<1>2. /\ Later(machine, machine') \/ machine' = NoMachine
      /\ \A c \in calls' : c.who = "replace" => c \in calls
      /\ \A c \in calls : c.st = "serving" => c \in calls'
    <2>1. CASE Cancel
        <3> DEFINE c == NewCall("user", "NONE", machine.mid)
        <3>1. c.who = "user"
            BY DEF NewCall
        <3> HIDE DEF c
        <3>2. machine' = NoMachine /\ (calls' = calls \/ calls' = calls \union {c})
            BY <2>1 DEF Cancel, c
        <3> QED  BY <3>1, <3>2
    <2> QED  BY <2>1, CallbackLater DEF CallbackGoesOn
<1>3. IdsOK'
    BY <1>1, <1>2, IdsQuiet DEF FreshPc
<1>4. BusyOK'
    BY <1>1, <1>2, BusyQuiet
<1> QED  BY <1>2, <1>3, <1>4 DEF MachineMove

LEMMA RexMoves ==
    ASSUME IInv, IdsOK, BusyOK,
           \/ RexServe \/ RexForeignSet \/ RexStarts \/ RexPrepFails
           \/ RexCheckpoint \/ RexPause \/ RexCancelEnds \/ RexState
    PROVE  IdsOK' /\ BusyOK' /\ MachineMove
<1>1. UNCHANGED <<machine, preparation, nSets, starting>>
    BY DEF RexServe, RexSet, RexCancel, RexForeignSet, RexStarts, RexActivate, RexPrepFails,
           RexCheckpoint, RexPause, RexCancelEnds, RexCancelDone, RexState, restOfCoord, coordVars
<1>2. machine \in Machines /\ Later(machine, machine')
    BY <1>1, LaterSelf DEF IInv, TypeOK, Machines
<1>3. IdsOK' /\ BusyOK'
    <2>1. ASSUME NEW c \in calls, RexSet(c)  PROVE IdsOK' /\ BusyOK'
        <3> DEFINE d == [c EXCEPT !.st = "failed"]
        <3>1. d.who = c.who /\ d.tag = c.tag
            BY DEF IInv, TypeOK, Call
        <3>2. /\ calls' \subseteq (calls \ {c}) \union {d} /\ rexBusy' = rexBusy
              /\ calls \ {c} \subseteq calls' /\ c.st = "sent"
            BY <2>1 DEF RexSet
        <3> HIDE DEF d
        <3> QED  BY <1>1, <3>1, <3>2, IdsRename, BusyQuiet
    <2>2. ASSUME NEW c \in calls, RexCancel(c)  PROVE IdsOK' /\ BusyOK'
        <3> DEFINE d == [c EXCEPT !.st = "serving"]
        <3>1. d.who = c.who /\ d.tag = c.tag
            BY DEF IInv, TypeOK, Call
        <3>2. calls' = (calls \ {c}) \union {d} /\ rexBusy' = {c}
            BY <2>2 DEF RexCancel
        <3>3. BusyOK'
            BY <3>2 DEF BusyOK
        <3> HIDE DEF d
        <3> QED  BY <1>1, <3>1, <3>2, <3>3, IdsRename
    <2>3. ASSUME NEW c \in rexBusy, NEW st \in {"ok", "failed"}, RexCancelDone(c, st)
          PROVE  IdsOK' /\ BusyOK'
        <3> DEFINE d == [c EXCEPT !.st = "serving"]
                   e == [c EXCEPT !.st = st]
        <3>1. e.who = d.who /\ e.tag = d.tag /\ d \in calls
            BY DEF IInv, TypeOK, Call, BusyOK
        <3>2. calls' \subseteq (calls \ {d}) \union {e} /\ rexBusy' = {}
            BY <2>3 DEF RexCancelDone
        <3> HIDE DEF d, e
        <3>3. BusyOK'
            BY <3>2 DEF BusyOK
        <3> QED  BY <1>1, <3>1, <3>2, <3>3, IdsRename
    <2>4. CASE \/ RexForeignSet \/ RexStarts \/ RexPrepFails
               \/ RexCheckpoint \/ RexPause \/ RexState
        <3>1. UNCHANGED <<calls, rexBusy>>
            BY <2>4 DEF RexForeignSet, RexStarts, RexActivate, RexPrepFails, RexCheckpoint,
                        RexPause, RexState, rexVars
        <3> QED  BY <1>1, <1>2, <3>1, IdsQuiet, BusyQuiet
    <2> QED  BY <2>1, <2>2, <2>3, <2>4 DEF RexServe, RexCancelEnds
<1> QED  BY <1>2, <1>3 DEF MachineMove

LEMMA NextMoves ==
    ASSUME IInv, IdsOK, BusyOK, [Next]_vars
    PROVE  IdsOK' /\ BusyOK' /\ MachineMove
<1>1. CASE UNCHANGED vars
    <2>1. UNCHANGED <<machine, preparation, nSets, starting, calls, rexBusy>>
        BY <1>1 DEF vars
    <2>2. machine \in Machines /\ Later(machine, machine')
        BY <2>1, LaterSelf DEF IInv, TypeOK, Machines
    <2> QED  BY <2>1, <2>2, IdsQuiet, BusyQuiet DEF MachineMove
<1>2. CASE BatteryStep
    BY <1>2, BatteryMoves, InputMoves DEF BatteryStep, OnBatteryGuard, OnBatteryState
<1>3. CASE \/ \E p \in Poses : OnPose(p)
           \/ SetPatrolMission \/ PreparationFails \/ TickRouteState
    BY <1>3, InputMoves
<1>4. CASE ActivateSpec
    BY <1>4, ActivateMoves
<1>5. CASE StartStep
    BY <1>5, ReplacementMoves
<1>6. CASE AnswerStep
    BY <1>6, ReplacementMoves, CallbackMoves DEF AnswerStep
<1>7. CASE OnRouteState \/ OnEvent \/ RequestReturn \/ Cancel
    BY <1>7, CallbackMoves
<1>8. CASE \/ RexServe \/ RexForeignSet \/ RexStarts \/ RexPrepFails
           \/ RexCheckpoint \/ RexPause \/ RexCancelEnds \/ RexState
    BY <1>8, RexMoves
<1> QED  BY <1>1, <1>2, <1>3, <1>4, <1>5, <1>6, <1>7, <1>8 DEF Next

LEMMA InitIds == Init => IdsOK /\ BusyOK
BY DEF Init, IdsOK, BusyOK, Waiting, Fresh, NoMachine

PatrolInv == IInv /\ IdsOK /\ BusyOK

(* The strengthened invariant holds in every reachable state.              *)
LEMMA PatrolInvariance == Spec => []PatrolInv
<1>1. Init => PatrolInv
    BY InitIInv, InitIds DEF PatrolInv
<1>2. PatrolInv /\ [Next]_vars => PatrolInv'
    BY NextIInv, NextMoves DEF PatrolInv
<1> QED  BY <1>1, <1>2, PTL DEF Spec

(* No callback, however late, takes a patrol back to an earlier phase or   *)
(* clears the battery latch of its mission: with any number of patrols,    *)
(* replacements that start without the lock, and foreign routes.           *)
THEOREM PhasesNeverGoBack == Spec => PhasesOnlyAdvance
<1>1. ASSUME PatrolInv, [Next]_vars
      PROVE  machine'.mid = machine.mid /\ machine.phase # "NONE" =>
                 /\ PhaseRank(machine'.phase) >= PhaseRank(machine.phase)
                 /\ machine.low => machine'.low
    <2> SUFFICES ASSUME machine'.mid = machine.mid, machine.phase # "NONE"
                 PROVE  Later(machine, machine')
        BY DEF Later
    <2>1. MachineMove
        BY <1>1, NextMoves DEF PatrolInv
    <2>2. machine' # NoMachine
        BY <1>1 DEF PatrolInv, IdsOK, NoMachine
    <2>3. preparation # 0 => preparation # machine.mid
        BY <1>1 DEF PatrolInv, IdsOK
    <2>4. \A t \in Fresh : t.spec # machine.mid
        BY <1>1 DEF PatrolInv, IdsOK
    <2> QED  BY <2>1, <2>2, <2>3, <2>4 DEF MachineMove, Begins
<1> QED  BY <1>1, PatrolInvariance, PTL DEF Spec, PhasesOnlyAdvance

-----------------------------------------------------------------------------
(* Every route the coordinator has handed out, wherever it is: in a thread *)
(* that has read its leg, in a dispatch on its way, in the preparation of  *)
(* the executor, or accepted under a mission_id.                           *)
RouteOfThread(t) == [leg |-> t.leg, mid |-> t.m.mid]
RouteOfCall(c) == [leg |-> c.leg, mid |-> c.tag]
Out == {RouteOfThread(t) : t \in {u \in starting : u.pc = "send"}}
       \union {RouteOfCall(c) : c \in {d \in calls : d.who = "dispatch"}}
       \union {rexPrep} \union {routes[i] : i \in DOMAIN routes}

(* The patrols that are submitted and have not started.                    *)
Waiters == ({preparation} \ {0}) \union {c.tag : c \in Waiting} \union {t.spec : t \in Fresh}

(* A patrol that has not started has no route.                             *)
UnsentOK == \A r \in Out : r.mid \in 0 .. nSets /\ r.mid \notin Waiters

(* Once the loop of the patrol is handed out, the indices in               *)
(* _delegated_input_indices are those of the loop.                         *)
DelegatedOK ==
    /\ Leg(machine.phase) = "LOOP"
    /\ [leg |-> "LOOP", mid |-> machine.mid] \in Out
    => delegated = "LOOP"

(* A mission_id the coordinator or a poll holds has been given out.        *)
RangeOK == {routeId, poll.id, rex.id} \subseteq 0 .. Len(routes)

(* What one step does to each of these.                                    *)
OwnRoute == [leg |-> Leg(machine.phase), mid |-> machine.mid]
OutMove == \A r \in Out' : r \in Out \/ r.mid = 0 \/ (r = OwnRoute' /\ delegated' = Leg(machine'.phase))
LegMove ==
    \/ /\ delegated' = delegated /\ machine'.mid = machine.mid
       /\ Leg(machine'.phase) = "LOOP" => Leg(machine.phase) = "LOOP"
    \/ delegated' = Leg(machine'.phase)
    \/ Leg(machine'.phase) # "LOOP"
    \/ machine'.mid \in Waiters
WaitMove ==
    /\ nSets' \in Nat /\ nSets' >= nSets
    /\ \A n \in Waiters' : n \in Waiters \/ n > nSets
RangeMove ==
    /\ Len(routes') \in Nat /\ Len(routes') >= Len(routes)
    /\ routeId' \in {routeId, poll.id, 0} /\ poll'.id \in {poll.id, rex.id, 0}
    /\ rex'.id = rex.id \/ rex'.id \in 0 .. Len(routes')

RouteInv == UnsentOK /\ DelegatedOK /\ RangeOK

LEMMA WaitersNat ==
    ASSUME IInv, IdsOK
    PROVE  nSets \in Nat /\ Waiters \subseteq 1 .. nSets /\ machine.mid \notin Waiters
<1>1. nSets \in Nat
    BY BoundsAssumption DEF IInv, TypeOK, MissionIds
<1> QED  BY <1>1 DEF IdsOK, Waiters

LEMMA RouteStep ==
    ASSUME IInv, IInv', IdsOK, IdsOK', RouteInv, OutMove, LegMove, WaitMove, RangeMove
    PROVE  RouteInv'
<1>1. nSets \in Nat /\ Waiters \subseteq 1 .. nSets /\ machine.mid \notin Waiters
    BY WaitersNat
<1>2. Waiters' \subseteq 1 .. nSets' /\ machine'.mid \notin Waiters' /\ machine'.mid \in 0 .. nSets'
      /\ nSets' \in Nat
    <2>1. Waiters' = ({preparation'} \ {0}) \union {c.tag : c \in Waiting'} \union {t.spec : t \in Fresh'}
        BY DEF Waiters
    <2>2. nSets' \in Nat
        BY DEF WaitMove
    <2> QED  BY <2>1, <2>2 DEF IdsOK
<1>3. UnsentOK'
    <2> SUFFICES ASSUME NEW r \in Out'  PROVE r.mid \in 0 .. nSets' /\ r.mid \notin Waiters'
        BY DEF UnsentOK
    <2>1. CASE r \in Out
        <3>1. r.mid \in 0 .. nSets /\ r.mid \notin Waiters
            BY <2>1 DEF RouteInv, UnsentOK
        <3> QED  BY <3>1, <1>1, <1>2 DEF WaitMove
    <2>2. CASE r.mid = 0
        BY <2>2, <1>2
    <2>3. CASE r = OwnRoute'
        BY <2>3, <1>2 DEF OwnRoute
    <2> QED  BY <2>1, <2>2, <2>3 DEF OutMove
<1>4. DelegatedOK'
    <2> DEFINE r == [leg |-> "LOOP", mid |-> machine'.mid]
    <2> SUFFICES ASSUME Leg(machine'.phase) = "LOOP", r \in Out', delegated' # "LOOP"
                 PROVE  FALSE
        BY DEF DelegatedOK
    <2>1. r.mid = machine'.mid /\ machine'.mid # 0
        BY DEF IdsOK, Leg
    <2>2. r \in Out
        BY <2>1 DEF OutMove
    <2>3. machine'.mid \notin Waiters
        BY <2>1, <2>2 DEF RouteInv, UnsentOK
    <2> QED  BY <2>2, <2>3 DEF LegMove, RouteInv, DelegatedOK
<1>5. RangeOK'
    <2>1. Len(routes) \in Nat
        BY DEF IInv, TypeOK
    <2>2. Len(routes') \in Nat /\ Len(routes') >= Len(routes)
        BY DEF RangeMove
    <2>3. routeId \in 0 .. Len(routes') /\ poll.id \in 0 .. Len(routes') /\ rex.id \in 0 .. Len(routes')
        BY <2>1, <2>2 DEF RouteInv, RangeOK
    <2> QED  BY <2>2, <2>3 DEF RangeMove, RangeOK
<1> QED  BY <1>3, <1>4, <1>5 DEF RouteInv

(* A step that hands no route out.                                         *)
LEMMA OutQuiet ==
    ASSUME \A t \in starting' : t.pc = "send" => t \in starting,
           \A c \in calls' : c.who = "dispatch" => c \in calls,
           UNCHANGED <<rexPrep, routes>>
    PROVE  Out' \subseteq Out
BY DEF Out

(* A step that goes on with the same patrol keeps its leg, or changes to   *)
(* another than the loop.                                                  *)
LEMMA LegOfStop ==
    ASSUME NEW m \in Machines
    PROVE  /\ Leg(Pause(m).phase) \in {Leg(m.phase), "NONE"}
           /\ Leg(Abort(m).phase) = "NONE"
           /\ Active(m) => Leg(Pause(m).phase) = "NONE"
<1>1. [m EXCEPT !.phase = "PAUSED"].phase = "PAUSED" /\ [m EXCEPT !.phase = "ABORTED"].phase = "ABORTED"
    BY DEF Machines, Machine
<1> QED  BY <1>1 DEF Pause, Abort, Leg

LEMMA WaitQuiet ==
    ASSUME IInv, UNCHANGED nSets, preparation' \in {preparation, 0},
           \A c \in calls' : c.who = "replace" => c \in calls,
           \A t \in starting' : t.pc \in FreshPc => t \in starting
    PROVE  WaitMove
<1>1. nSets \in Nat
    BY BoundsAssumption DEF IInv, TypeOK, MissionIds
<1>2. Waiting' \subseteq Waiting /\ Fresh' \subseteq Fresh
    BY DEF Waiting, Fresh, FreshPc
<1>3. Waiters' \subseteq Waiters
    BY <1>2 DEF Waiters
<1> QED  BY <1>1, <1>3 DEF WaitMove

LEMMA DispatchHands ==
    ASSUME NEW m \in Machines, NEW rid, NEW cs, DispatchPhase(m, rid, cs)
    PROVE  /\ delegated' = Leg(machine'.phase) \/ Leg(machine'.phase) # "LOOP"
           /\ \A c \in calls' : \/ c \in cs
                                \/ RouteOfCall(c) = OwnRoute' /\ delegated' = Leg(machine'.phase)
           /\ routeId' \in {rid, 0}
<1>1. CASE ~Active(m) /\ machine' = m /\ routeId' = rid /\ calls' = cs
    BY <1>1 DEF Active, MovingPhases, Leg
<1>2. CASE /\ machine' = m /\ delegated' = Leg(m.phase) /\ routeId' = 0
           /\ calls' = cs \union {NewCall("dispatch", m.phase, m.mid)}
    <2>1. RouteOfCall(NewCall("dispatch", m.phase, m.mid)) = OwnRoute'
        BY <1>2 DEF RouteOfCall, NewCall, OwnRoute
    <2> QED  BY <1>2, <2>1
<1>3. CASE Active(m) /\ machine' = Pause(m) /\ routeId' = rid /\ calls' = cs
    BY <1>3, LegOfStop
<1> QED  BY <1>1, <1>2, <1>3 DEF DispatchPhase

LEMMA OutByCalls ==
    ASSUME \A t \in starting' : t.pc = "send" => t \in starting,
           \A c \in calls' : \/ c.who # "dispatch" \/ c \in calls
                             \/ RouteOfCall(c) = OwnRoute' /\ delegated' = Leg(machine'.phase),
           UNCHANGED <<rexPrep, routes>>
    PROVE  OutMove
BY DEF Out, OutMove

LEMMA InputRoutes ==
    ASSUME IInv, IdsOK,
           \/ \E p \in Poses : OnPose(p)
           \/ BatteryAge \/ SetPatrolMission \/ PreparationFails \/ TickRouteState
    PROVE  OutMove /\ LegMove /\ WaitMove /\ RangeMove
<1>1. UNCHANGED <<machine, delegated, routeId, calls, starting, rex, rexPrep, routes>>
    BY DEF OnPose, BatteryAge, SetPatrolMission, PreparationFails, TickRouteState, coordVars, rexVars
<1>2. OutMove /\ LegMove
    BY <1>1, OutByCalls DEF LegMove
<1>3. poll'.id = poll.id
    BY DEF OnPose, BatteryAge, SetPatrolMission, PreparationFails, TickRouteState, IInv, TypeOK
<1>4. RangeMove
    <2>1. Len(routes) \in Nat
        BY DEF IInv, TypeOK
    <2> QED  BY <1>1, <1>3, <2>1 DEF RangeMove
<1>5. WaitMove
    <2>1. CASE SetPatrolMission
        <3>1. nSets \in Nat /\ nSets' = nSets + 1 /\ preparation' = nSets + 1
            BY <2>1, BoundsAssumption DEF IInv, TypeOK, MissionIds, SetPatrolMission
        <3>2. Waiting' = Waiting /\ Fresh' = Fresh
            BY <1>1 DEF Waiting, Fresh
        <3>3. Waiters' \subseteq Waiters \union {nSets + 1}
            BY <3>1, <3>2 DEF Waiters
        <3> QED  BY <3>1, <3>3 DEF WaitMove
    <2>2. CASE (\E p \in Poses : OnPose(p)) \/ BatteryAge \/ PreparationFails \/ TickRouteState
        <3>1. preparation' \in {preparation, 0} /\ nSets' = nSets
            BY <2>2 DEF OnPose, BatteryAge, PreparationFails, TickRouteState, coordVars
        <3> QED  BY <1>1, <3>1, WaitQuiet
    <2> QED  BY <2>1, <2>2
<1> QED  BY <1>2, <1>4, <1>5

LEMMA RangeQuiet ==
    ASSUME IInv, routeId' \in {routeId, poll.id, 0}, UNCHANGED <<rex, routes>>, poll'.id \in {poll.id, rex.id, 0}
    PROVE  RangeMove
<1>1. Len(routes) \in Nat
    BY DEF IInv, TypeOK
<1> QED  BY <1>1 DEF RangeMove

(* The callbacks that go on with the machine: its leg stays the loop, or   *)
(* is the loop no longer, or the loop is dispatched.                       *)
LEMMA LatchLeg ==
    ASSUME NEW m \in Machines, NEW atHome \in BOOLEAN
    PROVE  Leg(LatchBatteryReturn(m, atHome).phase) = "LOOP" => Leg(m.phase) = "LOOP"
<1> DEFINE l == [m EXCEPT !.low = TRUE]
           a == [l EXCEPT !.phase = "AT_HOME"]
           e == [l EXCEPT !.exit = SelectReturnExit, !.phase = "EXIT_LOOP"]
<1>1. l.phase = m.phase /\ a.phase = "AT_HOME" /\ e.phase = "EXIT_LOOP"
    BY DEF Machines, Machine
<1>2. \/ LatchBatteryReturn(m, atHome) = a
      \/ l.phase = "PATROL" /\ LatchBatteryReturn(m, atHome) = e
      \/ LatchBatteryReturn(m, atHome) = l
    BY DEF LatchBatteryReturn, RequestReturnHome
<1> HIDE DEF l, a, e
<1> QED  BY <1>1, <1>2 DEF Leg

LEMMA GoalLeg ==
    ASSUME NEW m \in Machines, NEW index, m.phase # "DEPART_HOME"
    PROVE  Leg(GoalSucceeded(m, index).phase) = "LOOP" => Leg(m.phase) = "LOOP"
<1>1. CASE m.phase \in {"JOIN_LOOP", "PATROL", "EXIT_LOOP"}
    BY <1>1 DEF Leg
<1>2. CASE m.phase = "RETURN_HOME"
    <2>1. GoalSucceeded(m, index) = [m EXCEPT !.phase = "AT_HOME"]
        BY <1>2 DEF GoalSucceeded
    <2>2. [m EXCEPT !.phase = "AT_HOME"].phase = "AT_HOME"
        BY DEF Machines, Machine
    <2> QED  BY <2>1, <2>2 DEF Leg
<1>3. CASE m.phase \notin {"JOIN_LOOP", "PATROL", "EXIT_LOOP", "RETURN_HOME"}
    BY <1>3 DEF GoalSucceeded
<1> QED  BY <1>1, <1>2, <1>3

LEMMA BatteryRoutes ==
    ASSUME IInv, IdsOK, NEW b, BatterySample(b)
    PROVE  OutMove /\ LegMove /\ WaitMove /\ RangeMove
<1>1. machine \in Machines /\ AtHome \in BOOLEAN
    BY DEF IInv, TypeOK, Machines, AtHome
<1> DEFINE after == LatchBatteryReturn(machine, AtHome)
           c == NewCall("departure", "NONE", machine.mid)
<1>2. /\ after \in Machines /\ after.mid = machine.mid
      /\ Leg(after.phase) = "LOOP" => Leg(machine.phase) = "LOOP"
    BY <1>1, LatchLater, LatchOK, LatchLeg DEF IInv, Later
<1>3. Leg(Abort(after).phase) = "NONE"
    BY <1>2, LegOfStop
<1>4. c.who = "departure"
    BY DEF NewCall
<1> HIDE DEF after, c
<1>5. /\ machine' = machine \/ machine' = after \/ machine' = Abort(after)
      /\ calls' = calls \/ calls' = calls \union {c}
    BY DEF BatterySample, ConsumeBatteryDecision, after, c
<1>6. UNCHANGED <<preparation, nSets, starting, delegated, routeId, poll, rex, rexPrep, routes>>
    BY DEF BatterySample, rexVars
<1>7. OutMove
    BY <1>4, <1>5, <1>6, OutByCalls
<1>8. LegMove
    BY <1>2, <1>3, <1>5, <1>6 DEF LegMove
<1>9. WaitMove
    BY <1>4, <1>5, <1>6, WaitQuiet
<1> QED  BY <1>6, <1>7, <1>8, <1>9, RangeQuiet

LEMMA ActivateRoutes ==
    ASSUME IInv, IdsOK, ActivateSpec
    PROVE  OutMove /\ LegMove /\ WaitMove /\ RangeMove
<1> DEFINE b == Evaluate(ClearLatch(battery))
           m == Start(preparation, pose = "home", b.latched)
           c == NewCall("replace", "NONE", preparation)
<1>1. /\ machine \in Machines /\ TypeOK /\ preparation \in MissionIds /\ nSets \in Nat
      /\ preparation # 0 /\ preparation' = 0
      /\ UNCHANGED <<nSets, starting, poll, rex, rexPrep, routes>>
    BY BoundsAssumption DEF IInv, TypeOK, Machines, MissionIds, ActivateSpec, rexVars
<1>2. b.latched \in BOOLEAN
    BY <1>1, BatteryOK DEF TypeOK, BatteryInput
<1>3. m \in Machines
    BY <1>1, <1>2, StartOK
<1>4. c.who = "replace" /\ c.tag = preparation
    BY DEF NewCall
<1> HIDE DEF b, m, c
<1>5. CASE DispatchPhase(m, 0, calls)
    <2>1. \A d \in calls' : d \in calls \/ d.who = "dispatch"
        BY <1>1, <1>3, <1>5, DispatchMoves
    <2>2. /\ delegated' = Leg(machine'.phase) \/ Leg(machine'.phase) # "LOOP"
          /\ \A d \in calls' : \/ d \in calls
                               \/ RouteOfCall(d) = OwnRoute' /\ delegated' = Leg(machine'.phase)
          /\ routeId' \in {0}
        BY <1>3, <1>5, DispatchHands
    <2>3. OutMove
        BY <1>1, <2>2, OutByCalls
    <2>4. WaitMove
        BY <1>1, <2>1, WaitQuiet
    <2> QED  BY <1>1, <2>2, <2>3, <2>4, RangeQuiet DEF LegMove
<1>6. CASE UNCHANGED <<machine, routeId, delegated>> /\ calls' \subseteq calls \union {c}
    <2>1. OutMove
        BY <1>1, <1>4, <1>6, OutByCalls
    <2>2. Waiters' \subseteq Waiters
        <3>1. Waiting' \subseteq Waiting \union {c} /\ Fresh' = Fresh
            BY <1>1, <1>4, <1>6 DEF Waiting, Fresh
        <3> QED  BY <1>1, <1>4, <3>1 DEF Waiters
    <2> QED  BY <1>1, <1>6, <2>1, <2>2, RangeQuiet DEF LegMove, WaitMove
<1> QED  BY <1>5, <1>6 DEF ActivateSpec, b, m, c

LEMMA ReplacementRoutes ==
    ASSUME IInv, IdsOK,
           \/ \E c \in calls : FinishReplacementFailed(c) \/ FinishReplacement(c)
           \/ StartStep
    PROVE  OutMove /\ LegMove /\ WaitMove /\ RangeMove
<1>0. machine \in Machines /\ nSets \in Nat
    BY BoundsAssumption DEF IInv, TypeOK, Machines, MissionIds
<1>1. UNCHANGED <<nSets, poll, rex, rexPrep, routes>> /\ routeId' \in {routeId, 0}
    BY DEF FinishReplacementFailed, FinishReplacement, StartStep, StartBegin, StartEvaluate,
           StartAssign, StartRead, StartSend, coordVars, rexVars
<1>2. RangeMove
    BY <1>1, RangeQuiet
<1>3. ASSUME NEW c \in calls, FinishReplacementFailed(c)  PROVE OutMove /\ LegMove /\ WaitMove
    <2>1. UNCHANGED <<machine, delegated, starting>> /\ calls' = calls \ {c} /\ preparation' = 0
        BY <1>3 DEF FinishReplacementFailed
    <2> QED  BY <1>1, <2>1, OutByCalls, WaitQuiet DEF LegMove
<1>4. ASSUME NEW c \in calls, FinishReplacement(c)  PROVE OutMove /\ LegMove /\ WaitMove
    <2> DEFINE t == [spec |-> c.tag, pc |-> "begin", m |-> NoMachine, leg |-> "NONE"]
    <2>1. /\ UNCHANGED <<machine, delegated>> /\ calls' = calls \ {c} /\ c.who = "replace"
          /\ preparation' \in {preparation, 0} /\ starting' \subseteq starting \union {t}
        BY <1>4 DEF FinishReplacement
    <2>2. t.spec = c.tag /\ t.pc = "begin"
        OBVIOUS
    <2> HIDE DEF t
    <2>3. c \in Waiting /\ Waiting' \subseteq Waiting /\ Fresh' \subseteq Fresh \union {t}
        BY <2>1, <2>2 DEF Waiting, Fresh
    <2>4. Waiters' \subseteq Waiters
        BY <2>1, <2>2, <2>3 DEF Waiters
    <2>5. OutMove
        BY <1>1, <2>1, <2>2, OutByCalls
    <2> QED  BY <1>0, <1>1, <2>1, <2>4, <2>5 DEF LegMove, WaitMove
<1>5. ASSUME NEW t \in starting  PROVE t \in Thread
    BY <1>5 DEF IInv, TypeOK
<1>6. ASSUME NEW t \in Fresh, NEW u, u.spec = t.spec, u.pc # "send",
             starting' = (starting \ {t}) \union {u}, UNCHANGED <<calls, preparation>>
      PROVE  OutMove /\ WaitMove
    <2>1. Waiting' = Waiting /\ Fresh' \subseteq Fresh \union {u}
        BY <1>6 DEF Waiting, Fresh
    <2>2. Waiters' \subseteq Waiters
        BY <1>6, <2>1 DEF Waiters
    <2>3. OutMove
        BY <1>1, <1>6, OutByCalls
    <2> QED  BY <1>0, <1>1, <2>2, <2>3 DEF WaitMove
<1>7. ASSUME NEW t \in starting, StartBegin(t)  PROVE OutMove /\ LegMove /\ WaitMove
    <2> DEFINE u == [t EXCEPT !.pc = "evaluate"]
    <2>1. u.spec = t.spec /\ u.pc # "send"
        BY <1>5 DEF Thread
    <2>2. t \in Fresh /\ starting' = (starting \ {t}) \union {u}
          /\ UNCHANGED <<machine, delegated, preparation, calls>>
        BY <1>7 DEF StartBegin, Replace, Fresh, coordVars
    <2> HIDE DEF u
    <2> QED  BY <1>6, <2>1, <2>2 DEF LegMove
<1>8. ASSUME NEW t \in starting, StartEvaluate(t)  PROVE OutMove /\ LegMove /\ WaitMove
    <2> DEFINE m == Start(t.spec, pose = "home", battery'.latched)
               u == [t EXCEPT !.pc = "assign", !.m = m]
    <2>1. t \in Fresh /\ starting' = (starting \ {t}) \union {u}
          /\ UNCHANGED <<machine, delegated, preparation, calls>>
        BY <1>8 DEF StartEvaluate, Replace, Fresh, coordVars
    <2> HIDE DEF m
    <2>2. u.spec = t.spec /\ u.pc # "send"
        BY <1>5 DEF Thread
    <2> HIDE DEF u
    <2> QED  BY <1>6, <2>1, <2>2 DEF LegMove
<1>9. ASSUME NEW t \in starting, StartAssign(t)  PROVE OutMove /\ LegMove /\ WaitMove
    <2> DEFINE u == [t EXCEPT !.pc = "read"]
    <2>1. u.spec = t.spec /\ u.pc # "send"
        BY <1>5 DEF Thread
    <2>2. /\ t \in Fresh /\ t.pc = "assign" /\ starting' = (starting \ {t}) \union {u}
          /\ machine' = t.m /\ UNCHANGED <<preparation, calls>>
        BY <1>9 DEF StartAssign, Replace, Fresh
    <2> HIDE DEF u
    <2>3. machine'.mid \in Waiters
        BY <2>2 DEF IdsOK, Waiters
    <2> QED  BY <1>6, <2>1, <2>2, <2>3 DEF LegMove
<1>10. ASSUME NEW t \in starting, StartRead(t)  PROVE OutMove /\ LegMove /\ WaitMove
    <2> DEFINE u == [t EXCEPT !.pc = "send", !.m = machine, !.leg = Leg(machine.phase)]
    <2>1. u.pc = "send" /\ u.m = machine /\ u.leg = Leg(machine.phase)
        BY <1>5 DEF Thread
    <2>2. /\ UNCHANGED <<machine, preparation, calls>>
          /\ \/ starting' = (starting \ {t}) \union {u} /\ delegated' = Leg(machine.phase)
             \/ starting' = starting \ {t} /\ delegated' = delegated
        BY <1>10 DEF StartRead, Replace
    <2> HIDE DEF u
    <2>3. RouteOfThread(u) = OwnRoute'
        BY <2>1, <2>2 DEF RouteOfThread, OwnRoute
    <2>4. OutMove
        <3>1. CASE starting' = (starting \ {t}) \union {u} /\ delegated' = Leg(machine.phase)
            BY <1>1, <2>2, <2>3, <3>1 DEF OutMove, Out
        <3>2. CASE starting' = starting \ {t}
            BY <1>1, <2>2, <3>2, OutByCalls
        <3> QED  BY <2>2, <3>1, <3>2
    <2>5. \A w \in starting' : w.pc \in FreshPc => w \in starting
        BY <2>1, <2>2 DEF FreshPc
    <2>6. WaitMove
        BY <1>1, <2>2, <2>5, WaitQuiet
    <2> QED  BY <2>2, <2>4, <2>6 DEF LegMove
<1>11. ASSUME NEW t \in starting, StartSend(t)  PROVE OutMove /\ LegMove /\ WaitMove
    <2> DEFINE phase == IF machine.mid = t.m.mid THEN machine.phase ELSE t.m.phase
               c == [NewCall("dispatch", phase, t.m.mid) EXCEPT !.leg = t.leg]
    <2>1. c.who = "dispatch" /\ c.leg = t.leg /\ c.tag = t.m.mid
        BY DEF NewCall
    <2>2. /\ starting' = starting \ {t} /\ UNCHANGED <<preparation, delegated>>
          /\ calls' = calls \/ calls' = calls \union {c}
          /\ machine' = machine \/ machine' = Pause(machine)
          /\ t.pc = "send"
        BY <1>11 DEF StartSend
    <2> HIDE DEF c
    <2>3. RouteOfCall(c) = RouteOfThread(t)
        BY <2>1 DEF RouteOfCall, RouteOfThread
    <2>4. OutMove
        <3>1. RouteOfCall(c) \in Out
            BY <2>2, <2>3 DEF Out
        <3> QED  BY <1>1, <2>2, <3>1 DEF OutMove, Out
    <2>5. WaitMove
        BY <1>1, <2>1, <2>2, WaitQuiet
    <2>6. Pause(machine).mid = machine.mid /\ Leg(Pause(machine).phase) \in {Leg(machine.phase), "NONE"}
        BY <1>0, StopLater, LegOfStop DEF Later
    <2>7. LegMove
        BY <2>2, <2>6 DEF LegMove
    <2> QED  BY <2>4, <2>5, <2>7
<1> QED  BY <1>2, <1>3, <1>4, <1>7, <1>8, <1>9, <1>10, <1>11 DEF StartStep

LEMMA CallbackRoutes ==
    ASSUME IInv, IdsOK,
           \/ \E c \in calls : \/ OnRouteDispatched(c) \/ AfterExitCancelled(c)
                               \/ OnBatteryDepartureCancelled(c)
           \/ OnRouteState \/ OnEvent \/ RequestReturn \/ Cancel
    PROVE  OutMove /\ LegMove /\ WaitMove /\ RangeMove
<1>0. /\ TypeOK /\ machine \in Machines
      /\ Pause(machine).mid = machine.mid /\ Leg(Pause(machine).phase) \in {Leg(machine.phase), "NONE"}
      /\ Leg(Abort(machine).phase) = "NONE"
    BY StopLater, LegOfStop DEF IInv, TypeOK, Machines, Later
<1>1. UNCHANGED <<nSets, starting, rex, rexPrep, routes>> /\ preparation' \in {preparation, 0}
    BY DEF OnRouteDispatched, AfterExitCancelled, OnBatteryDepartureCancelled, OnRouteState,
           OnEvent, RequestReturn, Cancel, rexVars
<1>2. /\ LegMove
      /\ routeId' \in {routeId, poll.id, 0} /\ poll'.id \in {poll.id, 0}
      /\ \A c \in calls' : c.who = "replace" => c \in calls
      /\ \A c \in calls' : \/ c.who # "dispatch" \/ c \in calls
                           \/ RouteOfCall(c) = OwnRoute' /\ delegated' = Leg(machine'.phase)
    <2>1. ASSUME NEW c \in calls, OnRouteDispatched(c)  PROVE <1>2!:
        BY <1>0, <2>1 DEF OnRouteDispatched, LegMove
    <2>2. ASSUME NEW c \in calls, AfterExitCancelled(c)  PROVE <1>2!:
        <3>1. CASE DispatchPhase(machine, routeId, calls \ {c})
            <4>1. \A d \in calls' : d \in calls \ {c} \/ d.who = "dispatch"
                BY <1>0, <3>1, DispatchMoves
            <4>2. /\ delegated' = Leg(machine'.phase) \/ Leg(machine'.phase) # "LOOP"
                  /\ \A d \in calls' : \/ d \in calls \ {c}
                                       \/ RouteOfCall(d) = OwnRoute' /\ delegated' = Leg(machine'.phase)
                  /\ routeId' \in {routeId, 0}
                BY <1>0, <3>1, DispatchHands
            <4>3. poll' = poll
                BY <2>2 DEF AfterExitCancelled
            <4> QED  BY <4>1, <4>2, <4>3 DEF LegMove
        <3>2. CASE /\ machine' = IF c.st = "failed" THEN Pause(machine) ELSE machine
                   /\ calls' = calls \ {c} /\ UNCHANGED <<routeId, delegated>>
            <4>1. poll' = poll
                BY <2>2 DEF AfterExitCancelled
            <4> QED  BY <1>0, <3>2, <4>1 DEF LegMove
        <3> QED  BY <2>2, <3>1, <3>2 DEF AfterExitCancelled
    <2>3. ASSUME NEW c \in calls, OnBatteryDepartureCancelled(c)  PROVE <1>2!:
        BY <1>0, <2>3 DEF OnBatteryDepartureCancelled, LegMove
    <2>4. CASE OnRouteState
        <3> DEFINE g == GoalSucceeded(machine, -1)
        <3>1. g \in Machines /\ g.mid = machine.mid
            BY <1>0, GoalSucceededLater, GoalSucceededOK DEF IInv, Later
        <3>2. machine.phase = "RETURN_HOME" => Leg(g.phase) # "LOOP"
            BY <1>0, GoalLeg DEF Leg
        <3>3. poll'.id = 0
            BY <2>4 DEF OnRouteState
        <3> HIDE DEF g
        <3>4. CASE DispatchPhase(g, poll.id, calls)
            <4>1. \A d \in calls' : d \in calls \/ d.who = "dispatch"
                BY <1>0, <3>1, <3>4, DispatchMoves
            <4>2. /\ delegated' = Leg(machine'.phase) \/ Leg(machine'.phase) # "LOOP"
                  /\ \A d \in calls' : \/ d \in calls
                                       \/ RouteOfCall(d) = OwnRoute' /\ delegated' = Leg(machine'.phase)
                  /\ routeId' \in {poll.id, 0}
                BY <3>1, <3>4, DispatchHands
            <4> QED  BY <3>3, <4>1, <4>2 DEF LegMove
        <3>5. CASE /\ machine' \in {machine, Pause(machine)} \/ (machine.phase = "RETURN_HOME" /\ machine' = g)
                   /\ UNCHANGED <<calls, delegated>> /\ routeId' \in {routeId, poll.id}
            BY <1>0, <3>1, <3>2, <3>3, <3>5 DEF LegMove
        <3> QED  BY <2>4, <3>4, <3>5 DEF OnRouteState, g
    <2>5. CASE OnEvent
        <3> DEFINE g == GoalSucceeded(machine, InputIndex(delegated, Head(events).k))
                   c == NewCall("exit", "NONE", machine.mid)
        <3>1. g.mid = machine.mid /\ c.who = "exit"
            BY <1>0, GoalSucceededLater DEF NewCall, Later
        <3> HIDE DEF g, c
        <3>2. /\ machine' = machine \/ (machine' = g /\ machine.phase \in {"JOIN_LOOP", "EXIT_LOOP"})
              /\ calls' = calls \/ calls' = calls \union {c}
              /\ UNCHANGED <<delegated, routeId, poll>>
            BY <2>5 DEF OnEvent, g, c
        <3>3. machine.phase \in {"JOIN_LOOP", "EXIT_LOOP"} => Leg(machine.phase) = "LOOP"
            BY DEF Leg
        <3> QED  BY <3>1, <3>2, <3>3 DEF LegMove
    <2>6. CASE RequestReturn
        <3>1. machine'.mid = machine.mid /\ Leg(machine.phase) = "LOOP"
            BY <1>0, <2>6, RequestReturnLater DEF RequestReturn, Later, Leg
        <3> QED  BY <2>6, <3>1 DEF RequestReturn, LegMove
    <2>7. CASE Cancel
        <3> DEFINE c == NewCall("user", "NONE", machine.mid)
        <3>1. c.who = "user"
            BY DEF NewCall
        <3> HIDE DEF c
        <3>2. machine' = NoMachine /\ (calls' = calls \/ calls' = calls \union {c})
              /\ routeId' = 0 /\ poll' = poll
            BY <2>7 DEF Cancel, c
        <3>3. Leg(machine'.phase) # "LOOP"
            BY <3>2 DEF Leg, NoMachine
        <3> QED  BY <3>1, <3>2, <3>3 DEF LegMove
    <2> QED  BY <2>1, <2>2, <2>3, <2>4, <2>5, <2>6, <2>7
<1>3. OutMove
    BY <1>1, <1>2, OutByCalls
<1>4. WaitMove
    BY <1>1, <1>2, WaitQuiet DEF FreshPc
<1>5. RangeMove
    BY <1>1, <1>2, RangeQuiet
<1> QED  BY <1>2, <1>3, <1>4, <1>5

LEMMA RexRoutes ==
    ASSUME IInv, IdsOK, BusyOK,
           \/ RexServe \/ RexForeignSet \/ RexStarts \/ RexPrepFails
           \/ RexCheckpoint \/ RexPause \/ RexCancelEnds \/ RexState
    PROVE  OutMove /\ LegMove /\ WaitMove /\ RangeMove
<1>1. UNCHANGED <<machine, delegated, routeId, preparation, nSets, starting>>
    BY DEF RexServe, RexSet, RexCancel, RexForeignSet, RexStarts, RexActivate, RexPrepFails,
           RexCheckpoint, RexPause, RexCancelEnds, RexCancelDone, RexState, restOfCoord, coordVars
<1>2. LegMove
    BY <1>1 DEF LegMove
<1>3. Len(routes) \in Nat /\ routes \in Seq(Route) /\ nSets \in Nat /\ calls \subseteq Call /\ NoRoute.mid = 0
    BY BoundsAssumption DEF IInv, TypeOK, MissionIds, NoRoute
<1>4. ASSUME NEW c \in calls, NEW d, d.who = c.who, d.tag = c.tag, d.leg = c.leg,
             calls' \subseteq (calls \ {c}) \union {d}
      PROVE  /\ WaitMove
             /\ \A e \in calls' : e.who = "dispatch" => RouteOfCall(e) \in Out
    <2>1. RouteOfCall(d) = RouteOfCall(c)
        BY <1>4 DEF RouteOfCall
    <2>2. \A e \in calls' : e.who = "dispatch" => RouteOfCall(e) \in Out
        BY <1>4, <2>1 DEF Out
    <2>3. Waiters' \subseteq Waiters
        <3>1. Fresh' = Fresh /\ \A e \in Waiting' : e \in Waiting \/ (e = d /\ c \in Waiting)
            BY <1>1, <1>4 DEF Fresh, Waiting
        <3> QED  BY <1>1, <1>4, <3>1 DEF Waiters
    <2> QED  BY <1>1, <1>3, <2>2, <2>3 DEF WaitMove
<1>5. ASSUME \A e \in calls' : e.who = "dispatch" => RouteOfCall(e) \in Out,
             routes' = routes, rexPrep' \in Out \/ rexPrep'.mid = 0
      PROVE  OutMove
    BY <1>1, <1>5 DEF OutMove, Out
<1>6. rexPrep \in Out /\ \A c \in calls : c.who = "dispatch" => RouteOfCall(c) \in Out
    BY DEF Out
<1>7. ASSUME NEW c \in calls, RexSet(c)  PROVE OutMove /\ WaitMove /\ RangeMove
    <2> DEFINE d == [c EXCEPT !.st = "failed"]
    <2>1. d.who = c.who /\ d.tag = c.tag /\ d.leg = c.leg
        BY <1>3 DEF Call
    <2>2. /\ calls' \subseteq (calls \ {c}) \union {d} /\ UNCHANGED <<poll, rex, routes>>
          /\ rexPrep' \in {RouteOfCall(c), rexPrep} /\ c.who = "dispatch"
        BY <1>7 DEF RexSet, RouteOfCall
    <2> HIDE DEF d
    <2> QED  BY <1>1, <1>4, <1>5, <1>6, <2>1, <2>2, RangeQuiet
<1>8. ASSUME NEW c \in calls, RexCancel(c)  PROVE OutMove /\ WaitMove /\ RangeMove
    <2> DEFINE d == [c EXCEPT !.st = "serving"]
    <2>1. d.who = c.who /\ d.tag = c.tag /\ d.leg = c.leg
        BY <1>3 DEF Call
    <2>2. /\ calls' = (calls \ {c}) \union {d} /\ UNCHANGED <<poll, routes>> /\ rexPrep' = NoRoute
          /\ rex'.id = rex.id
        BY <1>8 DEF RexCancel, IInv, TypeOK
    <2> HIDE DEF d
    <2>3. OutMove /\ WaitMove
        BY <1>3, <1>4, <1>5, <2>1, <2>2
    <2> QED  BY <1>1, <1>3, <2>2, <2>3 DEF RangeMove
<1>9. ASSUME NEW c \in rexBusy, NEW st \in {"ok", "failed"}, RexCancelDone(c, st)
      PROVE  OutMove /\ WaitMove /\ RangeMove
    <2> DEFINE d == [c EXCEPT !.st = "serving"]
               e == [c EXCEPT !.st = st]
    <2>1. e.who = d.who /\ e.tag = d.tag /\ e.leg = d.leg /\ d \in calls
        BY DEF IInv, TypeOK, Call, BusyOK
    <2>2. calls' \subseteq (calls \ {d}) \union {e} /\ UNCHANGED <<poll, rex, routes, rexPrep>>
        BY <1>9 DEF RexCancelDone
    <2> HIDE DEF d, e
    <2> QED  BY <1>1, <1>4, <1>5, <1>6, <2>1, <2>2, RangeQuiet
<1>10. ASSUME calls' = calls  PROVE WaitMove
    BY <1>1, <1>10, WaitQuiet
<1>11. CASE RexForeignSet \/ RexPrepFails
    <2>1. UNCHANGED <<calls, poll, rex, routes>> /\ rexPrep'.mid = 0
        BY <1>3, <1>11 DEF RexForeignSet, RexPrepFails
    <2> QED  BY <1>1, <1>2, <1>5, <1>6, <1>10, <2>1, RangeQuiet
<1>12. ASSUME NEW status \in {"ACTIVE", "COMPLETED"},
              NEW pos \in 0 .. LoopLen + DepartLen + ReturnLen, RexActivate(status, pos)
       PROVE  OutMove /\ WaitMove /\ RangeMove
    <2>1. /\ routes' = Append(routes, rexPrep) /\ rexPrep' = NoRoute /\ UNCHANGED <<calls, poll>>
          /\ rex'.id = Len(routes) + 1
        BY <1>12 DEF RexActivate
    <2>2. Len(routes') = Len(routes) + 1
        BY <1>3, <2>1 DEF IInv, TypeOK
    <2>3. \A i \in DOMAIN routes' : routes'[i] = rexPrep \/ \E j \in DOMAIN routes : routes'[i] = routes[j]
        BY <1>3, <2>1 DEF IInv, TypeOK
    <2>4. OutMove
        BY <1>1, <1>3, <2>1, <2>3 DEF OutMove, Out
    <2> QED  BY <1>1, <1>3, <1>10, <2>1, <2>2, <2>4 DEF RangeMove
<1>13. CASE RexCheckpoint \/ RexPause
    <2>1. UNCHANGED <<calls, poll, rexPrep, routes>> /\ rex'.id = rex.id
        BY <1>13 DEF RexCheckpoint, RexPause, IInv, TypeOK
    <2>2. OutMove /\ WaitMove
        BY <1>5, <1>6, <1>10, <2>1
    <2> QED  BY <1>1, <1>2, <1>3, <2>1, <2>2 DEF RangeMove
<1>14. CASE RexState
    <2>1. UNCHANGED <<calls, rex, rexPrep, routes>> /\ poll'.id = rex.id
        BY <1>14 DEF RexState, rexVars
    <2> QED  BY <1>1, <1>2, <1>5, <1>6, <1>10, <2>1, RangeQuiet
<1> QED  BY <1>2, <1>7, <1>8, <1>9, <1>11, <1>12, <1>13, <1>14 DEF RexServe, RexStarts, RexCancelEnds

LEMMA NextRoutes ==
    ASSUME IInv, IdsOK, BusyOK, RouteInv, [Next]_vars
    PROVE  RouteInv'
<1>0. IInv' /\ IdsOK'
    BY NextIInv, NextMoves
<1>1. CASE UNCHANGED vars
    BY <1>1 DEF vars, RouteInv, UnsentOK, DelegatedOK, RangeOK, Out, Waiters, Waiting, Fresh
<1>2. CASE Next
    <2> SUFFICES OutMove /\ LegMove /\ WaitMove /\ RangeMove
        BY <1>0, RouteStep
    <2>1. CASE BatteryStep
        BY <2>1, BatteryRoutes, InputRoutes DEF BatteryStep, OnBatteryGuard, OnBatteryState
    <2>2. CASE \/ \E p \in Poses : OnPose(p)
               \/ SetPatrolMission \/ PreparationFails \/ TickRouteState
        BY <2>2, InputRoutes
    <2>3. CASE ActivateSpec
        BY <2>3, ActivateRoutes
    <2>4. CASE StartStep
        BY <2>4, ReplacementRoutes
    <2>5. CASE AnswerStep
        BY <2>5, ReplacementRoutes, CallbackRoutes DEF AnswerStep
    <2>6. CASE OnRouteState \/ OnEvent \/ RequestReturn \/ Cancel
        BY <2>6, CallbackRoutes
    <2>7. CASE \/ RexServe \/ RexForeignSet \/ RexStarts \/ RexPrepFails
               \/ RexCheckpoint \/ RexPause \/ RexCancelEnds \/ RexState
        BY <2>7, RexRoutes
    <2> QED  BY <1>2, <2>1, <2>2, <2>3, <2>4, <2>5, <2>6, <2>7 DEF Next
<1> QED  BY <1>1, <1>2

LEMMA InitRoutes == Init => RouteInv
<1> SUFFICES ASSUME Init  PROVE RouteInv
    OBVIOUS
<1>1. Out = {NoRoute} /\ NoRoute.mid = 0 /\ Waiters = {}
    BY DEF Init, Out, Waiters, Waiting, Fresh, NoRoute
<1>2. Leg(machine.phase) # "LOOP"
    BY DEF Init, NoMachine, Leg
<1>3. {routeId, poll.id, rex.id} = {0} /\ Len(routes) = 0
    BY DEF Init
<1> QED  BY <1>1, <1>2, <1>3 DEF Init, RouteInv, UnsentOK, DelegatedOK, RangeOK

-----------------------------------------------------------------------------
(* The phases that end on the progress of a route.                         *)
Crosses ==
    /\ machine'.mid = machine.mid
    /\ \/ machine.phase = "DEPART_HOME" /\ machine'.phase = "JOIN_LOOP"
       \/ machine.phase = "RETURN_HOME" /\ machine'.phase = "AT_HOME"
       \/ machine.phase = "JOIN_LOOP" /\ machine'.phase \in {"PATROL", "EXIT_LOOP"}
       \/ machine.phase = "EXIT_LOOP" /\ machine'.phase = "RETURN_HOME"

(* Only a poll, or an event of the adopted route, ends one of them.        *)
EndedByPoll ==
    /\ OnRouteState /\ machine.phase \in {"DEPART_HOME", "RETURN_HOME"}
    /\ poll.st = "done" /\ poll.status = "COMPLETED"
    /\ RouteStateBelongsToDispatch(routeId, superseded, poll.id)
EndedByEvent ==
    /\ OnEvent /\ machine.phase \in {"JOIN_LOOP", "EXIT_LOOP"}
    /\ events # <<>> /\ routeId # 0 /\ Head(events).id = routeId
    /\ machine.phase = "EXIT_LOOP" => InputIndex(delegated, Head(events).k) = machine.exit

(* Stopping, latching and asking for the return end no such phase.         *)
LEMMA NoCrossing ==
    ASSUME \/ machine'.phase \in {machine.phase, "PAUSED", "ABORTED", "NONE"}
           \/ machine.phase = "PATROL"
           \/ machine.phase = "DEPART_HOME" /\ machine'.phase = "AT_HOME"
    PROVE  ~Crosses
BY DEF Crosses

LEMMA StopPhase ==
    ASSUME NEW m \in Machines
    PROVE  Pause(m).phase \in {m.phase, "PAUSED"} /\ Abort(m).phase = "ABORTED"
BY DEF Pause, Abort, Machines, Machine

LEMMA LatchPhase ==
    ASSUME NEW m \in Machines, NEW atHome \in BOOLEAN
    PROVE  LET n == LatchBatteryReturn(m, atHome)
           IN  n.phase = m.phase \/ m.phase = "PATROL" \/ (m.phase = "DEPART_HOME" /\ n.phase = "AT_HOME")
<1> DEFINE l == [m EXCEPT !.low = TRUE]
           a == [l EXCEPT !.phase = "AT_HOME"]
<1>1. l.phase = m.phase /\ a.phase = "AT_HOME"
    BY DEF Machines, Machine
<1>2. \/ m.phase = "DEPART_HOME" /\ LatchBatteryReturn(m, atHome) = a
      \/ l.phase = "PATROL"
      \/ LatchBatteryReturn(m, atHome) = l
    BY DEF LatchBatteryReturn, RequestReturnHome
<1> HIDE DEF l, a
<1> QED  BY <1>1, <1>2

LEMMA WhoEndsAPhase ==
    ASSUME PatrolInv, [Next]_vars, Crosses
    PROVE  EndedByPoll \/ EndedByEvent
<1>0. IInv /\ IdsOK /\ TypeOK /\ machine \in Machines /\ AtHome \in BOOLEAN
    BY DEF PatrolInv, IInv, TypeOK, Machines, AtHome
<1>1. ASSUME machine'.phase \in {machine.phase, "PAUSED", "ABORTED", "NONE"}  PROVE FALSE
    BY <1>1, NoCrossing
<1>2. machine' = machine => FALSE
    BY <1>1
<1>3. CASE UNCHANGED vars
    BY <1>2, <1>3 DEF vars
<1>4. ASSUME NEW b, BatterySample(b)  PROVE FALSE
    <2> DEFINE after == LatchBatteryReturn(machine, AtHome)
    <2>1. after \in Machines
        BY <1>0, LatchOK DEF IInv
    <2>2. \/ after.phase = machine.phase \/ machine.phase = "PATROL"
          \/ machine.phase = "DEPART_HOME" /\ after.phase = "AT_HOME"
        BY <1>0, LatchPhase
    <2>3. Abort(after).phase = "ABORTED"
        BY <2>1, StopPhase
    <2> HIDE DEF after
    <2>4. machine' = machine \/ machine' = after \/ machine' = Abort(after)
        BY <1>4 DEF BatterySample, ConsumeBatteryDecision, after
    <2> QED  BY <1>1, <2>2, <2>3, <2>4, NoCrossing
<1>5. CASE \/ \E p \in Poses : OnPose(p)
           \/ BatteryAge \/ SetPatrolMission \/ PreparationFails \/ TickRouteState
    BY <1>2, <1>5 DEF OnPose, BatteryAge, SetPatrolMission, PreparationFails, TickRouteState, coordVars
<1>6. CASE ActivateSpec
    <2> DEFINE b == Evaluate(ClearLatch(battery))
               m == Start(preparation, pose = "home", b.latched)
    <2>1. preparation # 0 /\ preparation \in MissionIds /\ preparation # machine.mid
        BY <1>0, <1>6 DEF ActivateSpec, IdsOK, TypeOK
    <2>2. b.latched \in BOOLEAN
        BY <1>0, BatteryOK DEF TypeOK, BatteryInput
    <2>3. m \in Machines /\ m.mid = preparation
        BY <2>1, <2>2, StartOK DEF Start
    <2> HIDE DEF b, m
    <2>4. DispatchPhase(m, 0, calls) => machine'.mid = preparation
        BY <1>0, <2>3, DispatchMoves DEF Later
    <2>5. machine' = machine \/ DispatchPhase(m, 0, calls)
        BY <1>6 DEF ActivateSpec, b, m
    <2> QED  BY <1>2, <2>1, <2>4, <2>5 DEF Crosses
<1>7. CASE StartStep
    <2>1. PICK t \in starting : StartBegin(t) \/ StartEvaluate(t) \/ StartAssign(t) \/ StartRead(t) \/ StartSend(t)
        BY <1>7 DEF StartStep
    <2>2. CASE StartAssign(t)
        <3>1. t \in Fresh /\ machine' = t.m /\ t.pc = "assign"
            BY <2>2 DEF StartAssign, Fresh
        <3>2. machine'.mid # machine.mid
            BY <1>0, <3>1 DEF IdsOK
        <3> QED  BY <3>2 DEF Crosses
    <2>3. CASE StartBegin(t) \/ StartEvaluate(t) \/ StartRead(t)
        BY <1>2, <2>3 DEF StartBegin, StartEvaluate, StartRead, coordVars
    <2>4. CASE StartSend(t)
        <3>1. machine' = machine \/ machine' = Pause(machine)
            BY <2>4 DEF StartSend
        <3> QED  BY <1>0, <1>1, <3>1, StopPhase
    <2> QED  BY <2>1, <2>2, <2>3, <2>4
<1>8. CASE AnswerStep
    <2>1. PICK c \in calls :
            \/ FinishReplacement(c) \/ FinishReplacementFailed(c)
            \/ OnRouteDispatched(c) \/ AfterExitCancelled(c) \/ OnBatteryDepartureCancelled(c)
        BY <1>8 DEF AnswerStep
    <2>2. CASE AfterExitCancelled(c)
        <3>1. CASE DispatchPhase(machine, routeId, calls \ {c})
            <4>1. machine' = machine \/ machine' = Pause(machine)
                BY <3>1 DEF DispatchPhase
            <4> QED  BY <1>0, <1>1, <4>1, StopPhase
        <3>2. CASE machine' = IF c.st = "failed" THEN Pause(machine) ELSE machine
            BY <1>0, <1>1, <3>2, StopPhase
        <3> QED  BY <2>2, <3>1, <3>2 DEF AfterExitCancelled
    <2>3. CASE FinishReplacement(c) \/ FinishReplacementFailed(c)
        BY <1>2, <2>3 DEF FinishReplacement, FinishReplacementFailed
    <2>4. CASE OnRouteDispatched(c) \/ OnBatteryDepartureCancelled(c)
        <3>1. machine' \in {machine, Pause(machine), Abort(machine)}
            BY <2>4 DEF OnRouteDispatched, OnBatteryDepartureCancelled
        <3> QED  BY <1>0, <1>1, <3>1, StopPhase
    <2> QED  BY <2>1, <2>2, <2>3, <2>4
<1>9. CASE OnRouteState
    <2> DEFINE mine == Active(machine) /\ RouteStateBelongsToDispatch(routeId, superseded, poll.id)
               done(phase) == mine /\ poll.status = "COMPLETED" /\ machine.phase = phase
    <2>1. poll.st = "done"
        BY <1>9 DEF OnRouteState
    <2>2. CASE done("DEPART_HOME") \/ done("RETURN_HOME")
        BY <1>9, <2>1, <2>2 DEF EndedByPoll
    <2>3. CASE ~done("DEPART_HOME") /\ ~done("RETURN_HOME")
        <3>1. machine' = machine \/ machine' = Pause(machine)
            BY <1>9, <2>3 DEF OnRouteState
        <3> QED  BY <1>0, <1>1, <3>1, StopPhase
    <2> QED  BY <2>2, <2>3
<1>10. CASE OnEvent
    BY <1>2, <1>10 DEF OnEvent, EndedByEvent
<1>11. CASE RequestReturn
    BY <1>11, NoCrossing DEF RequestReturn
<1>12. CASE Cancel
    BY <1>12, <1>1 DEF Cancel, NoMachine
<1>13. CASE \/ RexServe \/ RexForeignSet \/ RexStarts \/ RexPrepFails
            \/ RexCheckpoint \/ RexPause \/ RexCancelEnds \/ RexState
    BY <1>2, <1>13 DEF RexServe, RexSet, RexCancel, RexForeignSet, RexStarts, RexActivate, RexPrepFails,
           RexCheckpoint, RexPause, RexCancelEnds, RexCancelDone, RexState, restOfCoord, coordVars
<1>14. CASE BatteryStep
    BY <1>4, <1>5, <1>14 DEF BatteryStep, OnBatteryGuard, OnBatteryState
<1> QED  BY <1>3, <1>5, <1>6, <1>7, <1>8, <1>9, <1>10, <1>11, <1>12, <1>13, <1>14 DEF Next

(* The waypoint of the loop at which an event of the loop route was.       *)
LEMMA LoopPosition ==
    ASSUME NEW k \in Nat
    PROVE  /\ (EntryIndex + 1 + k) % LoopLen \in LoopIndex
           /\ InputIndex("LOOP", k) \in LoopIndex => InputIndex("LOOP", k) = (EntryIndex + 1 + k) % LoopLen
<1>1. LoopLen \in Nat /\ LoopLen >= 2 /\ EntryIndex \in Nat
    BY SpecAssumption DEF ValidMission
<1>2. (EntryIndex + 1 + k) % LoopLen \in LoopIndex
    BY <1>1 DEF LoopIndex
<1>3. InputIndex("LOOP", k) = -1 \/ InputIndex("LOOP", k) = (EntryIndex + 1 + k) % LoopLen
    BY DEF InputIndex
<1>4. -1 \notin LoopIndex
    BY DEF LoopIndex
<1> QED  BY <1>2, <1>3, <1>4

(* An event of the loop that the coordinator follows as its own.           *)
LEMMA OwnEvent ==
    ASSUME PatrolInv, RouteInv, EndedByEvent, routes[routeId] = OwnRoute
    PROVE  /\ machine.phase = "JOIN_LOOP" => ReachedOwn(LoopIndex)
           /\ machine.phase = "EXIT_LOOP" => ReachedOwn({machine.exit})
<1> DEFINE k == Head(events).k
<1>1. /\ k \in Nat /\ events # <<>> /\ Len(routes) \in Nat /\ routes \in Seq(Route)
      /\ Leg(machine.phase) = "LOOP"
    <2>1. events \in Seq([id : RouteIds, k : Nat]) /\ events # <<>> /\ routes \in Seq(Route)
        BY DEF PatrolInv, IInv, TypeOK, EndedByEvent
    <2>2. Head(events) \in [id : RouteIds, k : Nat]
        BY <2>1, HeadTailProperties
    <2> QED  BY <2>1, <2>2 DEF EndedByEvent, Leg
<1>2. routes[Head(events).id] = [leg |-> "LOOP", mid |-> machine.mid]
    BY <1>1 DEF EndedByEvent, OwnRoute
<1>3. routeId \in DOMAIN routes
    BY <1>1 DEF RouteInv, RangeOK, EndedByEvent
<1>4. delegated = "LOOP"
    BY <1>1, <1>3 DEF RouteInv, DelegatedOK, Out, OwnRoute
<1> HIDE DEF k
<1>5. machine.phase = "EXIT_LOOP" => machine.exit \in LoopIndex /\ InputIndex("LOOP", k) = machine.exit
    BY <1>4, ExitIsNearest DEF EndedByEvent, PatrolInv, IInv, MachineOK, k
<1> QED  BY <1>1, <1>2, <1>5, LoopPosition DEF ReachedOwn, k

(* The adopted route ends a phase, if it is the one the phase dispatched.  *)
LEMMA OwnRouteEndsPhase ==
    ASSUME PatrolInv, RouteInv, [Next]_vars, routeId # 0, routes[routeId] = OwnRoute
    PROVE  PhaseEndedByOwnRoute
<1> SUFFICES ASSUME Crosses  PROVE PhaseEndedByOwnRoute
    BY DEF Crosses, PhaseEndedByOwnRoute
<1>1. CASE EndedByPoll
    <2>1. poll.id = routeId
        BY <1>1 DEF EndedByPoll, RouteStateBelongsToDispatch
    <2> QED  BY <1>1, <2>1 DEF EndedByPoll, PhaseEndedByOwnRoute, PolledOwn, OwnRoute, Leg
<1>2. CASE EndedByEvent
    BY <1>2, OwnEvent DEF EndedByEvent, PhaseEndedByOwnRoute
<1> QED  BY <1>1, <1>2, WhoEndsAPhase

(* The strengthened invariant, with what it says of the routes.            *)
LEMMA RouteInvariance == Spec => [](PatrolInv /\ RouteInv)
<1>1. Init => PatrolInv /\ RouteInv
    BY InitIInv, InitIds, InitRoutes DEF PatrolInv
<1>2. PatrolInv /\ RouteInv /\ [Next]_vars => (PatrolInv /\ RouteInv)'
    BY NextIInv, NextMoves, NextRoutes DEF PatrolInv
<1> QED  BY <1>1, <1>2, PTL DEF Spec

(* Once the route the coordinator dispatched has identified itself, no     *)
(* other route ends a phase of the patrol: neither a foreign one, nor one  *)
(* of an earlier patrol, whichever replacement is under way.               *)
THEOREM IdentifiedRouteDecides == Spec => IdentifiedRouteIsTheOnlyOne
<1>1. ASSUME PatrolInv /\ RouteInv, [Next]_vars
      PROVE  routeId # 0 /\ routes[routeId] = [leg |-> Leg(machine.phase), mid |-> machine.mid]
                 => PhaseEndedByOwnRoute
    BY <1>1, OwnRouteEndsPhase DEF OwnRoute
<1> QED  BY <1>1, RouteInvariance, PTL DEF Spec, IdentifiedRouteIsTheOnlyOne

-----------------------------------------------------------------------------
(* Patrols one after the other: nobody submits a patrol while one is       *)
(* active, so nothing starts without the lock.                             *)
OneByOne == ~OperatorReplaces \/ MaxSets <= 1

SoloOK ==
    /\ starting = {} /\ Waiting = {}
    /\ preparation # 0 => ~Active(machine)
    /\ machine.phase # "IDLE"

(* A patrol that waits was submitted after the last cancel.                *)
EndedOK ==
    /\ endedUpTo <= nSets
    /\ preparation # 0 => preparation > endedUpTo
    /\ machine.phase # "NONE" => machine.mid > endedUpTo

MissionLatched == machine.phase # "NONE" /\ battery.latched => machine.low

SoloInv == SoloOK /\ EndedOK /\ MissionLatched

(* What goes on with a patrol does not make it active again.               *)
LEMMA LaterStops ==
    ASSUME NEW m \in Machines, NEW n \in Machines, Later(m, n), m.phase # "IDLE"
    PROVE  n.phase # "IDLE" /\ (~Active(m) => ~Active(n))
<1>1. m.phase \in PatrolPhase \union {"NONE"} /\ n.phase \in PatrolPhase \union {"NONE"}
    BY DEF Machines, Machine
<1> QED  BY <1>1 DEF Later, PhaseRank, Active, PatrolPhase, MovingPhases

(* A step that goes on with the patrol, if any.                            *)
LEMMA SoloQuiet ==
    ASSUME IInv, IInv', SoloInv, Later(machine, machine'), UNCHANGED <<nSets, endedUpTo, starting>>,
           preparation' \in {preparation, 0},
           battery'.latched = battery.latched \/ (machine'.phase # "NONE" /\ battery'.latched => machine'.low),
           \A c \in calls' : c.who = "replace" => \E d \in calls : d.who = "replace"
    PROVE  SoloInv'
<1>1. machine \in Machines /\ machine' \in Machines
    BY DEF IInv, TypeOK, Machines
<1>2. machine'.mid = machine.mid /\ (machine'.phase = "NONE") = (machine.phase = "NONE")
      /\ (machine.low => machine'.low)
    BY DEF Later
<1>3. SoloOK'
    <2>1. Waiting' = {}
        BY DEF SoloInv, SoloOK, Waiting
    <2> QED  BY <1>1, <2>1, LaterStops DEF SoloInv, SoloOK
<1>4. EndedOK'
    BY <1>2 DEF SoloInv, EndedOK
<1>5. MissionLatched'
    BY <1>2 DEF SoloInv, MissionLatched
<1> QED  BY <1>3, <1>4, <1>5 DEF SoloInv

LEMMA SoloInput ==
    ASSUME OneByOne, IInv, IdsOK, IInv', SoloInv,
           \/ \E p \in Poses : OnPose(p)
           \/ BatteryAge \/ SetPatrolMission \/ PreparationFails \/ TickRouteState
    PROVE  SoloInv'
<1>1. UNCHANGED <<machine, calls, starting, endedUpTo>>
    BY DEF OnPose, BatteryAge, SetPatrolMission, PreparationFails, TickRouteState, coordVars
<1>2. machine \in Machines /\ Later(machine, machine')
    BY <1>1, LaterSelf DEF IInv, TypeOK, Machines
<1>3. battery'.latched = battery.latched
    BY DEF OnPose, BatteryAge, SetPatrolMission, PreparationFails, TickRouteState, IInv, TypeOK, BatteryInput
<1>4. CASE SetPatrolMission
    <2>1. /\ nSets \in Nat /\ nSets < MaxSets /\ nSets' = nSets + 1 /\ preparation' = nSets + 1
          /\ OperatorReplaces \/ ~Active(machine)
        BY <1>4, BoundsAssumption DEF IInv, TypeOK, MissionIds, SetPatrolMission
    <2>2. endedUpTo \in Nat
        BY BoundsAssumption DEF IInv, TypeOK, MissionIds
    <2>3. ~Active(machine)
        <3>1. CASE MaxSets <= 1
            <4>1. nSets = 0
                BY <2>1, <3>1, BoundsAssumption
            <4>2. machine.phase = "NONE"
                BY <4>1 DEF IdsOK
            <4> QED  BY <4>2 DEF Active, MovingPhases
        <3>2. CASE ~OperatorReplaces
            BY <2>1, <3>2
        <3> QED  BY <3>1, <3>2 DEF OneByOne
    <2>4. SoloOK'
        BY <1>1, <2>3 DEF SoloInv, SoloOK, Waiting, Active
    <2>5. EndedOK'
        BY <1>1, <2>1, <2>2 DEF SoloInv, EndedOK
    <2>6. MissionLatched'
        BY <1>1, <1>3 DEF SoloInv, MissionLatched
    <2> QED  BY <2>4, <2>5, <2>6 DEF SoloInv
<1>5. CASE (\E p \in Poses : OnPose(p)) \/ BatteryAge \/ PreparationFails \/ TickRouteState
    <2>1. preparation' \in {preparation, 0} /\ nSets' = nSets
        BY <1>5 DEF OnPose, BatteryAge, PreparationFails, TickRouteState, coordVars
    <2> QED  BY <1>1, <1>2, <1>3, <2>1, SoloQuiet
<1> QED  BY <1>4, <1>5

(* A sample that latches reports it once, and the report reaches the       *)
(* mission; the sample b keeps the latch that was there.                   *)
LEMMA SoloBattery ==
    ASSUME IInv, IInv', SoloInv, NEW b \in BatteryInput, b.latched = battery.latched, BatterySample(b)
    PROVE  SoloInv'
<1>1. machine \in Machines /\ AtHome \in BOOLEAN
    BY DEF IInv, TypeOK, Machines, AtHome
<1> DEFINE after == LatchBatteryReturn(machine, AtHome)
           c == NewCall("departure", "NONE", machine.mid)
           newly == Evaluate(b).latched /\ ~battery.latched
<1>2. Later(machine, after) /\ after \in Machines /\ after.low
    BY <1>1, LatchLater, LatchOK DEF IInv
<1>3. after.phase = "AT_HOME" => Later(machine, Abort(after)) /\ Abort(after).low
    BY <1>1, <1>2, StopLater, StopOK, LaterTrans, LatchOK DEF IInv, Later
<1>4. c.who = "departure" /\ battery' = Evaluate(b)
    BY DEF NewCall, BatterySample
<1> HIDE DEF after, c
<1>5. /\ \/ machine' = machine /\ (machine.phase = "NONE" \/ ~newly)
         \/ machine' = after \/ (after.phase = "AT_HOME" /\ machine' = Abort(after))
      /\ calls' = calls \/ calls' = calls \union {c}
      /\ UNCHANGED <<preparation, nSets, starting, endedUpTo>>
    BY DEF BatterySample, ConsumeBatteryDecision, CancelActiveRoute, after, c
<1>6. Later(machine, machine')
    BY <1>1, <1>2, <1>3, <1>5, LaterSelf
<1>7. machine'.phase # "NONE" /\ battery'.latched => machine'.low
    <2> SUFFICES ASSUME machine'.phase # "NONE", battery'.latched  PROVE machine'.low
        OBVIOUS
    <2>1. CASE machine' = machine /\ ~newly
        BY <1>4, <2>1 DEF SoloInv, MissionLatched
    <2> QED  BY <1>2, <1>3, <1>5, <2>1
<1> QED  BY <1>4, <1>5, <1>6, <1>7, SoloQuiet

LEMMA SoloActivate ==
    ASSUME IInv, IInv', IdsOK, SoloInv, ActivateSpec
    PROVE  SoloInv'
<1> DEFINE b == Evaluate(ClearLatch(battery))
           m == Start(preparation, pose = "home", b.latched)
<1>1. /\ machine \in Machines /\ machine' \in Machines /\ TypeOK /\ preparation \in MissionIds
      /\ preparation # 0 /\ preparation' = 0 /\ UNCHANGED <<nSets, starting, endedUpTo>>
    BY DEF IInv, TypeOK, Machines, ActivateSpec
<1>2. b.latched \in BOOLEAN
    BY <1>1, BatteryOK DEF TypeOK, BatteryInput
<1>3. /\ m \in Machines /\ m.mid = preparation /\ m.phase \notin {"NONE", "IDLE"}
      /\ m.low = b.latched
    BY <1>1, <1>2, StartOK DEF Start
<1>4. ~Active(machine)
    BY <1>1 DEF SoloInv, SoloOK
<1> HIDE DEF b, m
<1>5. CASE DispatchPhase(m, 0, calls) /\ battery' = b
    <2>1. Later(m, machine') /\ \A d \in calls' : d \in calls \/ d.who = "dispatch"
        BY <1>1, <1>3, <1>5, DispatchMoves
    <2>2. /\ machine'.mid = preparation /\ machine'.phase # "IDLE"
          /\ b.latched => machine'.low
        BY <1>1, <1>3, <2>1, LaterStops DEF Later
    <2>3. SoloOK'
        BY <1>1, <2>1, <2>2 DEF SoloInv, SoloOK, Waiting
    <2>4. EndedOK'
        BY <1>1, <2>2 DEF SoloInv, EndedOK
    <2>5. MissionLatched'
        BY <1>5, <2>2 DEF MissionLatched
    <2> QED  BY <2>3, <2>4, <2>5 DEF SoloInv
<1>6. CASE UNCHANGED <<machine, calls, battery>>
    BY <1>1, <1>6, LaterSelf, SoloQuiet
<1> QED  BY <1>4, <1>5, <1>6 DEF ActivateSpec, b, m

LEMMA SoloCallback ==
    ASSUME IInv, IInv', IdsOK, BusyOK, SoloInv,
           \/ \E c \in calls : \/ OnRouteDispatched(c) \/ AfterExitCancelled(c)
                               \/ OnBatteryDepartureCancelled(c)
           \/ OnRouteState \/ OnEvent \/ RequestReturn \/ Cancel
    PROVE  SoloInv'
<1>1. CASE Cancel
    <2>1. /\ machine' = NoMachine /\ preparation' = 0 /\ endedUpTo' = nSets /\ nSets' = nSets
          /\ starting' = starting
        BY <1>1 DEF Cancel
    <2>2. Waiting' = {}
        <3> DEFINE c == NewCall("user", "NONE", machine.mid)
        <3>1. c.who = "user" /\ (calls' = calls \/ calls' = calls \union {c})
            BY <1>1 DEF Cancel, NewCall
        <3> HIDE DEF c
        <3> QED  BY <3>1 DEF SoloInv, SoloOK, Waiting
    <2>3. nSets \in Nat /\ machine'.phase = "NONE"
        BY <2>1, BoundsAssumption DEF IInv, TypeOK, MissionIds, NoMachine
    <2> QED  BY <2>1, <2>2, <2>3 DEF SoloInv, SoloOK, EndedOK, MissionLatched
<1>2. CASE \/ \E c \in calls : \/ OnRouteDispatched(c) \/ AfterExitCancelled(c)
                               \/ OnBatteryDepartureCancelled(c)
           \/ OnRouteState \/ OnEvent \/ RequestReturn
    <2>1. UNCHANGED <<nSets, endedUpTo, starting, battery, preparation>>
        BY <1>2 DEF OnRouteDispatched, AfterExitCancelled, OnBatteryDepartureCancelled, OnRouteState,
                    OnEvent, RequestReturn
    <2>2. Later(machine, machine') /\ \A c \in calls' : c.who = "replace" => c \in calls
        BY <1>2, CallbackLater DEF CallbackGoesOn
    <2> QED  BY <2>1, <2>2, SoloQuiet
<1> QED  BY <1>1, <1>2

LEMMA SoloRex ==
    ASSUME IInv, IInv', BusyOK, SoloInv,
           \/ RexServe \/ RexForeignSet \/ RexStarts \/ RexPrepFails
           \/ RexCheckpoint \/ RexPause \/ RexCancelEnds \/ RexState
    PROVE  SoloInv'
<1>1. UNCHANGED <<machine, preparation, nSets, starting, battery, endedUpTo>>
    BY DEF RexServe, RexSet, RexCancel, RexForeignSet, RexStarts, RexActivate, RexPrepFails,
           RexCheckpoint, RexPause, RexCancelEnds, RexCancelDone, RexState, restOfCoord, coordVars
<1>2. machine \in Machines /\ Later(machine, machine')
    BY <1>1, LaterSelf DEF IInv, TypeOK, Machines
<1>3. \A c \in calls' : c.who = "replace" => \E d \in calls : d.who = "replace"
    <2>1. ASSUME NEW c \in calls, RexSet(c) \/ RexCancel(c)  PROVE <1>3
        <3>1. c \in Call
            BY DEF IInv, TypeOK
        <3>2. [c EXCEPT !.st = "failed"].who = c.who /\ [c EXCEPT !.st = "serving"].who = c.who
            BY <3>1 DEF Call
        <3>3. calls' \subseteq calls \union {[c EXCEPT !.st = "failed"], [c EXCEPT !.st = "serving"]}
            BY <2>1 DEF RexSet, RexCancel
        <3> QED  BY <3>2, <3>3
    <2>2. ASSUME NEW c \in rexBusy, NEW st \in {"ok", "failed"}, RexCancelDone(c, st)  PROVE <1>3
        <3> DEFINE d == [c EXCEPT !.st = "serving"]
                   e == [c EXCEPT !.st = st]
        <3>1. e.who = d.who /\ d \in calls
            BY DEF IInv, TypeOK, Call, BusyOK
        <3>2. calls' \subseteq calls \union {e}
            BY <2>2 DEF RexCancelDone
        <3> HIDE DEF d, e
        <3> QED  BY <3>1, <3>2
    <2>3. CASE \/ RexForeignSet \/ RexStarts \/ RexPrepFails
               \/ RexCheckpoint \/ RexPause \/ RexState
        <3>1. calls' = calls
            BY <2>3 DEF RexForeignSet, RexStarts, RexActivate, RexPrepFails, RexCheckpoint,
                        RexPause, RexState
        <3> QED  BY <3>1
    <2> QED  BY <2>1, <2>2, <2>3 DEF RexServe, RexCancelEnds
<1> QED  BY <1>1, <1>2, <1>3, SoloQuiet

LEMMA NextSolo ==
    ASSUME OneByOne, PatrolInv, SoloInv, [Next]_vars
    PROVE  SoloInv'
<1>0. IInv /\ IdsOK /\ BusyOK /\ IInv' /\ starting = {} /\ Waiting = {}
    BY NextIInv DEF PatrolInv, SoloInv, SoloOK
<1>1. CASE UNCHANGED vars
    BY <1>1 DEF vars, SoloInv, SoloOK, EndedOK, MissionLatched, Waiting, Active
<1>2. CASE BatteryStep
    <2>1. battery \in BatteryInput /\ GuardInputs \subseteq Guards /\ SocInputs \subseteq Socs
        BY <1>0, BoundsAssumption DEF IInv, TypeOK
    <2>2. ASSUME NEW g \in GuardInputs, OnBatteryGuard(g)  PROVE SoloInv'
        <3> DEFINE b == [battery EXCEPT !.guard = g]
        <3>1. b \in BatteryInput /\ b.latched = battery.latched
            BY <2>1 DEF BatteryInput
        <3> HIDE DEF b
        <3> QED  BY <1>0, <2>2, <3>1, SoloBattery DEF OnBatteryGuard, b
    <2>3. ASSUME NEW x \in SocInputs, OnBatteryState(x)  PROVE SoloInv'
        <3> DEFINE b == [battery EXCEPT !.soc = x]
        <3>1. b \in BatteryInput /\ b.latched = battery.latched
            BY <2>1 DEF BatteryInput
        <3> HIDE DEF b
        <3> QED  BY <1>0, <2>3, <3>1, SoloBattery DEF OnBatteryState, b
    <2>4. CASE BatteryAge
        BY <1>0, <2>4, SoloInput
    <2> QED  BY <1>2, <2>2, <2>3, <2>4 DEF BatteryStep
<1>3. CASE \/ \E p \in Poses : OnPose(p)
           \/ SetPatrolMission \/ PreparationFails \/ TickRouteState
    BY <1>0, <1>3, SoloInput
<1>4. CASE ActivateSpec
    BY <1>0, <1>4, SoloActivate
<1>5. CASE StartStep
    BY <1>0, <1>5 DEF StartStep
<1>6. CASE AnswerStep
    <2>1. \A c \in calls : ~FinishReplacement(c) /\ ~FinishReplacementFailed(c)
        BY <1>0 DEF FinishReplacement, FinishReplacementFailed, Waiting
    <2> QED  BY <1>0, <1>6, <2>1, SoloCallback DEF AnswerStep
<1>7. CASE OnRouteState \/ OnEvent \/ RequestReturn \/ Cancel
    BY <1>0, <1>7, SoloCallback
<1>8. CASE \/ RexServe \/ RexForeignSet \/ RexStarts \/ RexPrepFails
           \/ RexCheckpoint \/ RexPause \/ RexCancelEnds \/ RexState
    BY <1>0, <1>8, SoloRex
<1> QED  BY <1>1, <1>2, <1>3, <1>4, <1>5, <1>6, <1>7, <1>8 DEF Next

(* The invariant of patrols that follow one another.                       *)
LEMMA SoloInvariance == OneByOne => (Spec => [](PatrolInv /\ SoloInv))
<1> SUFFICES ASSUME OneByOne  PROVE Spec => [](PatrolInv /\ SoloInv)
    OBVIOUS
<1>1. Init => PatrolInv /\ SoloInv
    BY InitIInv, InitIds DEF PatrolInv, Init, SoloInv, SoloOK, EndedOK, MissionLatched, Waiting, NoMachine
<1>2. PatrolInv /\ SoloInv /\ [Next]_vars => (PatrolInv /\ SoloInv)'
    BY NextIInv, NextMoves, NextSolo DEF PatrolInv
<1> QED  BY <1>1, <1>2, PTL DEF Spec

(* An explicit cancel is final, if patrols are not replaced while active:  *)
(* no patrol submitted before it ever runs after it, whatever was being    *)
(* converted and whichever answers were on their way.                      *)
THEOREM CancelEndsThePatrol == ~OperatorReplaces => (Spec => []CancelIsFinal)
<1> SUFFICES ASSUME ~OperatorReplaces  PROVE Spec => []CancelIsFinal
    OBVIOUS
<1>1. SoloInv => CancelIsFinal
    BY DEF SoloInv, EndedOK, CancelIsFinal
<1>2. OneByOne
    BY DEF OneByOne
<1> QED  BY <1>1, <1>2, SoloInvariance, PTL

(* The latch of the battery policy reaches the mission, if patrols are not *)
(* replaced while active: newly_latched is reported once, and never to a   *)
(* mission that will be thrown away.                                       *)
THEOREM LatchIsNeverMissed == ~OperatorReplaces => (Spec => []LatchReachesMission)
<1> SUFFICES ASSUME ~OperatorReplaces  PROVE Spec => []LatchReachesMission
    OBVIOUS
<1>1. SoloInv => LatchReachesMission
    BY DEF SoloInv, MissionLatched, LatchReachesMission
<1>2. OneByOne
    BY DEF OneByOne
<1> QED  BY <1>1, <1>2, SoloInvariance, PTL

-----------------------------------------------------------------------------
(* One patrol, and nobody else uses the route executor.  Its routes follow *)
(* one another: a leg is handed out when the one before it has identified  *)
(* itself, so the newest mission_id is the superseded one or the next.     *)
Alone == MaxSets <= 1 /\ MaxForeign = 0

Newest == Len(routes)
Sent == {c \in calls : c.who = "dispatch" /\ c.st = "sent"}
Exits == {c \in calls : c.who = "exit"}
LoopRoute == [leg |-> "LOOP", mid |-> machine.mid]
Following == {OwnRoute} \union (IF machine.phase = "RETURN_HOME" THEN {LoopRoute} ELSE {})

(* Until the patrol is activated nothing has been asked of the executor.   *)
UnusedOK ==
    preparation # 0 \/ nSets = 0 =>
        /\ machine.phase = "NONE" /\ calls = {} /\ rexPrep = NoRoute /\ routes = <<>>
        /\ routeId = 0 /\ superseded = 0 /\ poll.id = 0

(* The executor runs the newest route, an answered poll is no older than   *)
(* what the coordinator knows, and a loop never completes.                 *)
NewestOK ==
    /\ rex.id = Newest /\ superseded <= Newest
    /\ poll.id # 0 => poll.id >= superseded /\ poll.id >= routeId
    /\ rex.status = "COMPLETED" => routes[rex.id].leg # "LOOP"
    /\ poll.id # 0 /\ poll.status = "COMPLETED" => routes[poll.id].leg # "LOOP"

(* At most one route is on its way to the executor.                        *)
PendingOK ==
    /\ \A c, d \in Sent : c = d
    /\ Sent # {} => rexPrep = NoRoute

(* An active patrol waits for its route, or follows the newest one.        *)
FollowOK ==
    Active(machine) =>
        /\ Newest \in {superseded, superseded + 1}
        /\ routeId # 0 => routeId = Newest /\ Newest = superseded + 1
        /\ Newest = superseded + 1 => Sent = {} /\ rexPrep = NoRoute /\ routes[Newest] \in Following
        /\ \A c \in Sent : RouteOfCall(c) = OwnRoute
        /\ rexPrep \in {NoRoute, OwnRoute}

(* The exit is cancelled once, and an executor that has begun to serve the *)
(* cancel runs no route until the return leg is handed out.                *)
ExitOK ==
    /\ \A c, d \in Exits : c = d
    /\ \A c \in Exits : Active(machine) =>
           machine.phase = "RETURN_HOME" /\ routeId # 0 /\ (c.st # "sent" => rex.status # "ACTIVE")

ReturnOK == \A c \in Sent : c.leg = "RETURN" => rex.status # "ACTIVE"

AloneInv == UnusedOK /\ NewestOK /\ PendingOK /\ FollowOK /\ ExitOK /\ ReturnOK

(* A step that takes no route and hands none out.                          *)
GoesOn ==
    Active(machine') =>
        /\ Active(machine) /\ machine'.mid = machine.mid
        /\ Leg(machine'.phase) = Leg(machine.phase)

LEMMA AloneQuiet ==
    ASSUME IInv, AloneInv, UnusedOK', GoesOn,
           routes' = routes, rex'.id = rex.id,
           rex'.status = "ACTIVE" => rex.status = "ACTIVE",
           rex'.status = "COMPLETED" => rex.status = "COMPLETED" \/ routes[rex.id].leg # "LOOP",
           superseded' \in {superseded, 0},
           poll'.id = 0 \/ (/\ poll'.id = poll.id /\ poll'.status = poll.status
                            /\ routeId' \in {routeId, 0}),
           Active(machine') => /\ superseded' = superseded
                               /\ \/ routeId' = routeId
                                  \/ routeId = 0 /\ routeId' = Newest /\ Newest = superseded + 1,
           Sent' \subseteq Sent, Exits' \subseteq Exits, rexPrep' \in {rexPrep, NoRoute}
    PROVE  AloneInv'
<1>1. /\ Len(routes) \in Nat /\ superseded \in Nat /\ routeId \in Nat /\ poll.id \in Nat
      /\ machine \in Machines
    BY DEF IInv, TypeOK, RouteIds, Machines
<1>2. NewestOK'
    BY <1>1 DEF AloneInv, NewestOK, Newest
<1>3. PendingOK'
    BY DEF AloneInv, PendingOK
<1>4. ReturnOK'
    BY DEF AloneInv, ReturnOK
<1>5. ASSUME Active(machine')
      PROVE  /\ Active(machine) /\ OwnRoute' = OwnRoute /\ Following' = Following
             /\ machine.phase = "RETURN_HOME" => machine'.phase = "RETURN_HOME"
    <2>1. Active(machine) /\ OwnRoute' = OwnRoute /\ LoopRoute' = LoopRoute
        BY <1>5 DEF GoesOn, OwnRoute, LoopRoute
    <2>2. (machine.phase = "RETURN_HOME") <=> (machine'.phase = "RETURN_HOME")
        BY <1>5, <2>1 DEF GoesOn, Leg, Active, MovingPhases
    <2> QED  BY <2>1, <2>2 DEF Following
<1>6. FollowOK'
    <2> SUFFICES ASSUME Active(machine')
                 PROVE  /\ Newest' \in {superseded', superseded' + 1}
                        /\ routeId' # 0 => routeId' = Newest' /\ Newest' = superseded' + 1
                        /\ Newest' = superseded' + 1 =>
                              Sent' = {} /\ rexPrep' = NoRoute /\ routes'[Newest'] \in Following'
                        /\ \A c \in Sent' : RouteOfCall(c) = OwnRoute'
                        /\ rexPrep' \in {NoRoute, OwnRoute'}
        BY DEF FollowOK
    <2>1. Newest' = Newest /\ superseded' = superseded
        BY DEF Newest
    <2> QED  BY <1>5, <2>1 DEF AloneInv, FollowOK
<1>7. ExitOK'
    <2>1. \A c, d \in Exits' : c = d
        BY DEF AloneInv, ExitOK
    <2>2. ASSUME NEW c \in Exits', Active(machine')
          PROVE  machine'.phase = "RETURN_HOME" /\ routeId' # 0 /\ (c.st # "sent" => rex'.status # "ACTIVE")
        BY <1>5, <2>2 DEF AloneInv, ExitOK
    <2> QED  BY <2>1, <2>2 DEF ExitOK
<1> QED  BY <1>2, <1>3, <1>4, <1>6, <1>7 DEF AloneInv

(* A step in which the coordinator hands a leg out: the one before it is   *)
(* the newest route, and nothing is on its way.                            *)
LEMMA AloneDispatch ==
    ASSUME IInv, IInv', AloneInv, UnusedOK', NEW m \in Machines, NEW rid, NEW cs,
           DispatchPhase(m, rid, cs), rid = Newest, rexPrep = NoRoute,
           \A c \in cs : c.who # "exit" /\ ~(c.who = "dispatch" /\ c.st = "sent"),
           m.phase = "RETURN_HOME" => rex.status # "ACTIVE",
           UNCHANGED <<routes, rex, rexPrep>>,
           poll'.id = 0 \/ (poll' = poll /\ poll.id >= rid)
    PROVE  AloneInv'
<1> DEFINE c == NewCall("dispatch", m.phase, m.mid)
<1>1. /\ Len(routes) \in Nat /\ superseded \in Nat /\ poll.id \in Nat /\ Newest' = Newest /\ Newest \in Nat
    BY DEF IInv, TypeOK, RouteIds, Newest
<1>2. c.who = "dispatch" /\ c.st = "sent" /\ c.leg = Leg(m.phase) /\ RouteOfCall(c) = [leg |-> Leg(m.phase), mid |-> m.mid]
    BY DEF NewCall, RouteOfCall
<1> HIDE DEF c
<1>3. CASE ~Active(machine') /\ routeId' = rid /\ calls' = cs /\ superseded' = superseded
    <2>1. Sent' = {} /\ Exits' = {}
        BY <1>3 DEF Sent, Exits
    <2>2. NewestOK'
        BY <1>1, <1>3 DEF AloneInv, NewestOK, Newest
    <2> QED  BY <1>3, <2>1, <2>2 DEF AloneInv, PendingOK, FollowOK, ExitOK, ReturnOK
<1>4. CASE Active(m) /\ machine' = m /\ superseded' = rid /\ routeId' = 0 /\ calls' = cs \union {c}
    <2>1. Sent' = {c} /\ Exits' = {}
        BY <1>2, <1>4 DEF Sent, Exits
    <2>2. NewestOK'
        BY <1>1, <1>4 DEF AloneInv, NewestOK, Newest
    <2>3. OwnRoute' = RouteOfCall(c)
        BY <1>2, <1>4 DEF OwnRoute
    <2>4. FollowOK'
        BY <1>1, <1>4, <2>1, <2>3 DEF FollowOK
    <2>5. c.leg = "RETURN" => rex.status # "ACTIVE"
        BY <1>2 DEF Leg
    <2> QED  BY <2>1, <2>2, <2>4, <2>5 DEF AloneInv, PendingOK, ExitOK, ReturnOK
<1>5. Active(m) => ~Active(Pause(m))
    <2>1. Active(m) => Pause(m).phase = "PAUSED"
        BY DEF Pause, Machines, Machine
    <2> QED  BY <2>1 DEF Active, MovingPhases
<1> QED  BY <1>3, <1>4, <1>5 DEF DispatchPhase, c

Used == preparation = 0 /\ nSets # 0

LEMMA UsedStays ==
    ASSUME Used, preparation' \in {preparation, 0}, nSets' = nSets
    PROVE  UnusedOK'
BY DEF Used, UnusedOK

(* Something in the hands of the executor, or a machine, means use.        *)
LEMMA InUse ==
    ASSUME UnusedOK, machine.phase # "NONE" \/ calls # {} \/ rexPrep # NoRoute
    PROVE  Used
BY DEF UnusedOK, Used

LEMMA AloneInput ==
    ASSUME Alone, IInv, AloneInv,
           \/ \E p \in Poses : OnPose(p)
           \/ BatteryAge \/ SetPatrolMission \/ PreparationFails \/ TickRouteState
    PROVE  AloneInv'
<1>1. UNCHANGED <<machine, calls, routes, rex, rexPrep, routeId, superseded>>
    BY DEF OnPose, BatteryAge, SetPatrolMission, PreparationFails, TickRouteState, coordVars, rexVars
<1>2. poll'.id = poll.id /\ poll'.status = poll.status
    BY DEF OnPose, BatteryAge, SetPatrolMission, PreparationFails, TickRouteState, IInv, TypeOK
<1>3. Sent' = Sent /\ Exits' = Exits /\ GoesOn
    BY <1>1 DEF Sent, Exits, GoesOn, Active
<1>4. UnusedOK'
    <2>1. preparation' # 0 \/ nSets' = 0 => preparation # 0 \/ nSets = 0
        <3>1. CASE SetPatrolMission
            <4>1. nSets \in Nat /\ nSets < MaxSets /\ MaxSets <= 1
                BY <3>1, BoundsAssumption DEF Alone, SetPatrolMission, IInv, TypeOK, MissionIds
            <4> QED  BY <4>1, BoundsAssumption
        <3>2. CASE (\E p \in Poses : OnPose(p)) \/ BatteryAge \/ PreparationFails \/ TickRouteState
            BY <3>2 DEF OnPose, BatteryAge, PreparationFails, TickRouteState, coordVars
        <3> QED  BY <3>1, <3>2
    <2> QED  BY <1>1, <1>2, <2>1 DEF AloneInv, UnusedOK
<1> QED  BY <1>1, <1>2, <1>3, <1>4, AloneQuiet

LEMMA AloneBattery ==
    ASSUME IInv, AloneInv, NEW b, BatterySample(b)
    PROVE  AloneInv'
<1>1. machine \in Machines /\ AtHome \in BOOLEAN
    BY DEF IInv, TypeOK, Machines, AtHome
<1> DEFINE after == LatchBatteryReturn(machine, AtHome)
           c == NewCall("departure", "NONE", machine.mid)
<1>2. after \in Machines /\ after.mid = machine.mid
    BY <1>1, LatchLater, LatchOK DEF IInv, Later
<1>3. Active(after) => Active(machine) /\ Leg(after.phase) = Leg(machine.phase)
    <2>1. CASE machine.phase = "PATROL"
        <3> DEFINE l == [machine EXCEPT !.low = TRUE]
                   e == [l EXCEPT !.exit = SelectReturnExit, !.phase = "EXIT_LOOP"]
        <3>1. l.phase = "PATROL" /\ e.phase = "EXIT_LOOP"
            BY <1>1, <2>1 DEF Machines, Machine
        <3>2. after = e
            BY <2>1, <3>1 DEF LatchBatteryReturn, RequestReturnHome
        <3> HIDE DEF l, e, after
        <3> QED  BY <2>1, <3>1, <3>2 DEF Active, Leg, MovingPhases
    <2>2. CASE machine.phase # "PATROL"
        <3>1. after.phase = machine.phase \/ after.phase = "AT_HOME"
            BY <1>1, <2>2, LatchPhase
        <3> HIDE DEF after
        <3> QED  BY <3>1 DEF Active, MovingPhases
    <2> QED  BY <2>1, <2>2
<1>4. ~Active(Abort(after))
    BY <1>2, StopPhase DEF Active, MovingPhases
<1>5. c.who = "departure"
    BY DEF NewCall
<1> HIDE DEF after, c
<1>6. /\ \/ machine' = machine /\ calls' = calls
         \/ /\ machine.phase # "NONE" /\ (machine' = after \/ machine' = Abort(after))
            /\ calls' = calls \/ calls' = calls \union {c}
      /\ UNCHANGED <<preparation, nSets, routes, rex, rexPrep, routeId, superseded, poll>>
    BY DEF BatterySample, ConsumeBatteryDecision, rexVars, after, c
<1>7. GoesOn
    BY <1>2, <1>3, <1>4, <1>6 DEF GoesOn
<1>8. Sent' \subseteq Sent /\ Exits' \subseteq Exits
    BY <1>5, <1>6 DEF Sent, Exits
<1>9. UnusedOK'
    <2>1. CASE machine.phase # "NONE"
        BY <1>6, <2>1, InUse, UsedStays DEF AloneInv
    <2>2. CASE machine' = machine /\ calls' = calls
        BY <1>6, <2>2 DEF AloneInv, UnusedOK
    <2> QED  BY <1>6, <2>1, <2>2
<1> QED  BY <1>6, <1>7, <1>8, <1>9, AloneQuiet

LEMMA AloneActivate ==
    ASSUME IInv, IInv', IdsOK, AloneInv, ActivateSpec
    PROVE  AloneInv'
<1> DEFINE b == Evaluate(ClearLatch(battery))
           m == Start(preparation, pose = "home", b.latched)
<1>1. /\ TypeOK /\ preparation \in MissionIds /\ preparation # 0 /\ preparation' = 0
      /\ UNCHANGED <<nSets, starting, poll, routes, rex, rexPrep>>
    BY DEF IInv, TypeOK, ActivateSpec, rexVars
<1>2. b.latched \in BOOLEAN
    BY <1>1, BatteryOK DEF TypeOK, BatteryInput
<1>3. m \in Machines /\ m.phase # "RETURN_HOME"
    BY <1>1, <1>2, StartOK DEF Start
<1>4. /\ machine.phase = "NONE" /\ calls = {} /\ rexPrep = NoRoute /\ routes = <<>>
      /\ routeId = 0 /\ superseded = 0 /\ poll.id = 0
    BY <1>1 DEF AloneInv, UnusedOK
<1>5. ~Active(machine)
    BY <1>4 DEF Active, MovingPhases
<1>6. UnusedOK'
    <2>1. nSets # 0
        BY <1>1, BoundsAssumption DEF IdsOK, TypeOK, MissionIds
    <2> QED  BY <1>1, <2>1 DEF UnusedOK
<1> HIDE DEF b, m
<1>7. CASE DispatchPhase(m, 0, calls)
    <2>1. 0 = Newest
        BY <1>4 DEF Newest
    <2> QED  BY <1>1, <1>3, <1>4, <1>6, <1>7, <2>1, AloneDispatch
<1>8. CASE UNCHANGED <<machine, routeId, superseded, calls>>
    <2>1. GoesOn /\ Sent' = Sent /\ Exits' = Exits
        BY <1>8 DEF GoesOn, Active, Sent, Exits
    <2> QED  BY <1>1, <1>6, <1>8, <2>1, AloneQuiet
<1> QED  BY <1>5, <1>7, <1>8 DEF ActivateSpec, b, m

(* Answers that stop the machine or leave it alone.                        *)
LEMMA AloneStop ==
    ASSUME IInv, AloneInv, NEW c \in calls, calls' = calls \ {c},
           machine' \in {machine, Pause(machine), Abort(machine)},
           UNCHANGED <<preparation, nSets, routes, rex, rexPrep, routeId, superseded, poll>>
    PROVE  AloneInv'
<1>1. machine \in Machines
    BY DEF IInv, TypeOK, Machines
<1>2. GoesOn
    <2>1. /\ Pause(machine) = machine \/ ~Active(Pause(machine))
          /\ ~Active(Abort(machine))
        BY <1>1, StopPhase DEF Pause, Active, MovingPhases, Machines, Machine
    <2> QED  BY <2>1 DEF GoesOn
<1>3. Sent' \subseteq Sent /\ Exits' \subseteq Exits
    BY DEF Sent, Exits
<1>4. UnusedOK'
    BY InUse, UsedStays DEF AloneInv
<1> QED  BY <1>2, <1>3, <1>4, AloneQuiet

LEMMA AloneAnswer ==
    ASSUME IInv, IInv', AloneInv, RangeOK, NEW c \in calls,
           OnRouteDispatched(c) \/ AfterExitCancelled(c) \/ OnBatteryDepartureCancelled(c)
    PROVE  AloneInv'
<1>1. CASE OnRouteDispatched(c) \/ OnBatteryDepartureCancelled(c)
    <2>1. /\ calls' = calls \ {c} /\ machine' \in {machine, Pause(machine), Abort(machine)}
          /\ UNCHANGED <<preparation, nSets, routes, rex, rexPrep, routeId, superseded, poll>>
        BY <1>1 DEF OnRouteDispatched, OnBatteryDepartureCancelled, rexVars
    <2> QED  BY <2>1, AloneStop
<1>2. CASE AfterExitCancelled(c)
    <2>1. /\ c \in Exits /\ machine \in Machines
          /\ UNCHANGED <<preparation, nSets, routes, rex, rexPrep, poll>>
        BY <1>2 DEF AfterExitCancelled, Exits, rexVars, IInv, TypeOK, Machines
    <2>2. CASE /\ machine' = IF c.st = "failed" THEN Pause(machine) ELSE machine
               /\ calls' = calls \ {c} /\ UNCHANGED <<routeId, superseded>>
        BY <2>1, <2>2, AloneStop
    <2>3. CASE /\ c.st = "ok" /\ machine.phase = "RETURN_HOME"
               /\ DispatchPhase(machine, routeId, calls \ {c})
        <3>1. Active(machine)
            BY <2>3 DEF Active, MovingPhases
        <3>2. routeId # 0 /\ rex.status # "ACTIVE"
            BY <2>1, <2>3, <3>1 DEF AloneInv, ExitOK
        <3>3. routeId = Newest /\ Sent = {} /\ rexPrep = NoRoute
            BY <3>1, <3>2 DEF AloneInv, FollowOK
        <3>4. \A d \in calls \ {c} : d.who # "exit" /\ ~(d.who = "dispatch" /\ d.st = "sent")
            BY <2>1, <3>3 DEF AloneInv, ExitOK, Exits, Sent
        <3>5. UnusedOK'
            BY <2>1, InUse, UsedStays DEF AloneInv
        <3>6. poll.id = 0 \/ poll.id >= routeId
            BY DEF AloneInv, NewestOK
        <3> QED  BY <2>1, <2>3, <3>2, <3>3, <3>4, <3>5, <3>6, AloneDispatch
    <2> QED  BY <1>2, <2>2, <2>3 DEF AfterExitCancelled
<1> QED  BY <1>1, <1>2

(* A poll that belongs to the dispatch is one of the newest route.         *)
LEMMA PollIsNewest ==
    ASSUME IInv, AloneInv, RangeOK, Active(machine),
           RouteStateBelongsToDispatch(routeId, superseded, poll.id)
    PROVE  poll.id # 0 /\ poll.id = Newest /\ Newest = superseded + 1
<1>1. /\ Newest \in Nat /\ superseded \in Nat /\ routeId \in Nat /\ poll.id \in 0 .. Newest
    BY DEF IInv, TypeOK, RouteIds, Newest, RangeOK
<1>2. CASE routeId # 0
    BY <1>2 DEF AloneInv, FollowOK, RouteStateBelongsToDispatch
<1>3. CASE routeId = 0
    <2>1. poll.id # 0 /\ poll.id # superseded /\ poll.id >= superseded
        BY <1>3 DEF AloneInv, NewestOK, RouteStateBelongsToDispatch
    <2>2. Newest \in {superseded, superseded + 1}
        BY DEF AloneInv, FollowOK
    <2> QED  BY <1>1, <2>1, <2>2
<1> QED  BY <1>2, <1>3

LEMMA AlonePoll ==
    ASSUME IInv, IInv', AloneInv, RangeOK, OnRouteState
    PROVE  AloneInv'
<1> DEFINE mine == Active(machine) /\ RouteStateBelongsToDispatch(routeId, superseded, poll.id)
           g == GoalSucceeded(machine, -1)
<1>1. /\ machine \in Machines /\ poll'.id = 0
      /\ UNCHANGED <<preparation, nSets, routes, rex, rexPrep>>
    BY DEF OnRouteState, rexVars, IInv, TypeOK, Machines
<1>2. mine => poll.id # 0 /\ poll.id = Newest /\ Newest = superseded + 1
    BY PollIsNewest
<1>3. mine => Sent = {} /\ rexPrep = NoRoute /\ Used
    BY <1>2, InUse DEF AloneInv, FollowOK, Active, MovingPhases
<1>4. g \in Machines
    BY <1>1, GoalSucceededOK DEF IInv
<1>5. /\ machine.phase = "DEPART_HOME" => g.phase = "JOIN_LOOP"
      /\ machine.phase = "RETURN_HOME" => ~Active(g)
    <2>1. [machine EXCEPT !.phase = "JOIN_LOOP"].phase = "JOIN_LOOP" /\ [machine EXCEPT !.phase = "AT_HOME"].phase = "AT_HOME"
        BY <1>1 DEF Machines, Machine
    <2> QED  BY <2>1 DEF GoalSucceeded, Active, MovingPhases
<1>6. Pause(machine) = machine \/ ~Active(Pause(machine))
    BY <1>1, StopPhase DEF Pause, Active, MovingPhases, Machines, Machine
<1> HIDE DEF g, mine
<1>7. CASE mine /\ machine.phase = "DEPART_HOME" /\ DispatchPhase(g, poll.id, calls)
    <2>1. \A c \in calls : c.who # "exit"
        BY <1>7 DEF AloneInv, ExitOK, Exits, mine
    <2>2. \A c \in calls : ~(c.who = "dispatch" /\ c.st = "sent")
        BY <1>3, <1>7 DEF Sent
    <2>3. UnusedOK'
        BY <1>1, <1>3, <1>7, UsedStays
    <2>4. g.phase # "RETURN_HOME"
        BY <1>5, <1>7
    <2> QED  BY <1>1, <1>2, <1>3, <1>4, <1>7, <2>1, <2>2, <2>3, <2>4, AloneDispatch
<1>8. CASE /\ \/ routeId' = routeId /\ machine' = machine
              \/ mine /\ routeId' = poll.id
                 /\ \/ machine' \in {machine, Pause(machine)}
                    \/ machine.phase = "RETURN_HOME" /\ machine' = g
           /\ UNCHANGED <<superseded, calls>>
    <2>1. GoesOn
        BY <1>5, <1>6, <1>8 DEF GoesOn
    <2>2. Sent' = Sent /\ Exits' = Exits
        BY <1>8 DEF Sent, Exits
    <2>3. UnusedOK'
        <3>1. CASE mine
            BY <1>1, <1>3, <3>1, UsedStays
        <3>2. CASE ~mine
            BY <1>1, <1>8, <3>2 DEF AloneInv, UnusedOK
        <3> QED  BY <3>1, <3>2
    <2>4. \/ routeId' = routeId
          \/ routeId = 0 /\ routeId' = Newest /\ Newest = superseded + 1
        BY <1>2, <1>8 DEF AloneInv, FollowOK, mine, RouteStateBelongsToDispatch
    <2> QED  BY <1>1, <1>8, <2>1, <2>2, <2>3, <2>4, AloneQuiet
<1> QED  BY <1>7, <1>8 DEF OnRouteState, mine, g

LEMMA AloneEvent ==
    ASSUME IInv, AloneInv, OnEvent
    PROVE  AloneInv'
<1> DEFINE index == InputIndex(delegated, Head(events).k)
           ours == routeId # 0 /\ Head(events).id = routeId
           g == GoalSucceeded(machine, index)
           c == NewCall("exit", "NONE", machine.mid)
<1>1. /\ machine \in Machines
      /\ UNCHANGED <<preparation, nSets, routes, rex, rexPrep, routeId, superseded, poll>>
    BY DEF OnEvent, rexVars, IInv, TypeOK, Machines
<1>2. g.mid = machine.mid
    BY <1>1, GoalSucceededLater DEF Later
<1>3. c.who = "exit" /\ c.st = "sent"
    BY DEF NewCall
<1>4. machine.phase = "JOIN_LOOP" => g.phase \in {"PATROL", "EXIT_LOOP"}
    <2> DEFINE p == [machine EXCEPT !.phase = "PATROL"]
    <2>1. p \in Machines /\ p.phase = "PATROL"
        BY <1>1 DEF Machines, Machine, PatrolPhase, MovingPhases
    <2>2. machine.phase = "JOIN_LOOP" => g \in {p, RequestReturnHome(p)}
        BY DEF GoalSucceeded
    <2> HIDE DEF p, g
    <2>3. RequestReturnHome(p).phase = "EXIT_LOOP"
        BY <2>1 DEF RequestReturnHome, Machines, Machine
    <2> QED  BY <2>1, <2>2, <2>3
<1>5. machine.phase = "EXIT_LOOP" /\ index = machine.exit => g.phase = "RETURN_HOME"
    BY <1>1 DEF GoalSucceeded, Machines, Machine
<1>6. \/ machine' = machine /\ calls' = calls
      \/ ours /\ machine.phase = "JOIN_LOOP" /\ machine' = g /\ calls' = calls
      \/ /\ ours /\ machine.phase = "EXIT_LOOP" /\ index = machine.exit
         /\ machine' = g /\ calls' = calls \union {c}
    BY DEF OnEvent
<1> HIDE DEF g, c, index
<1>7. CASE \/ machine' = machine /\ calls' = calls
           \/ ours /\ machine.phase = "JOIN_LOOP" /\ machine' = g /\ calls' = calls
    <2>1. GoesOn
        BY <1>2, <1>4, <1>7 DEF GoesOn, Active, Leg, MovingPhases
    <2>2. Sent' = Sent /\ Exits' = Exits
        BY <1>7 DEF Sent, Exits
    <2>3. UnusedOK'
        <3>1. CASE machine' = machine /\ calls' = calls
            BY <1>1, <3>1 DEF AloneInv, UnusedOK
        <3>2. CASE machine.phase = "JOIN_LOOP"
            BY <1>1, <3>2, InUse, UsedStays DEF AloneInv
        <3> QED  BY <1>7, <3>1, <3>2
    <2> QED  BY <1>1, <1>7, <2>1, <2>2, <2>3, AloneQuiet
<1>8. CASE /\ ours /\ machine.phase = "EXIT_LOOP" /\ index = machine.exit
           /\ machine' = g /\ calls' = calls \union {c}
    <2>1. Active(machine) /\ machine'.phase = "RETURN_HOME" /\ machine'.mid = machine.mid
        BY <1>2, <1>5, <1>8 DEF Active, MovingPhases
    <2>2. /\ Newest = superseded + 1 /\ routeId = Newest /\ routeId # 0 /\ Sent = {} /\ rexPrep = NoRoute
          /\ routes[Newest] = OwnRoute
        BY <1>8, <2>1 DEF AloneInv, FollowOK, Following
    <2>3. Exits = {}
        BY <1>8, <2>1 DEF AloneInv, ExitOK
    <2>4. Sent' = {} /\ Exits' = {c}
        BY <1>3, <1>8, <2>2, <2>3 DEF Sent, Exits
    <2>5. OwnRoute = LoopRoute'
        BY <1>8, <2>1 DEF OwnRoute, LoopRoute, Leg
    <2>6. routes[Newest] \in Following'
        BY <2>1, <2>2, <2>5 DEF Following
    <2>7. NewestOK'
        BY <1>1 DEF AloneInv, NewestOK, Newest
    <2>8. FollowOK'
        BY <1>1, <2>2, <2>4, <2>6 DEF FollowOK, Newest
    <2>9. ExitOK'
        BY <1>1, <1>3, <2>1, <2>2, <2>4 DEF ExitOK
    <2>10. UnusedOK'
        BY <1>1, <1>8, InUse, UsedStays DEF AloneInv
    <2> QED  BY <2>4, <2>7, <2>8, <2>9, <2>10 DEF AloneInv, PendingOK, ReturnOK
<1> QED  BY <1>6, <1>7, <1>8

LEMMA AloneOperator ==
    ASSUME IInv, AloneInv, RequestReturn \/ Cancel
    PROVE  AloneInv'
<1>1. /\ machine \in Machines
      /\ UNCHANGED <<nSets, routes, rex, rexPrep, poll>>
    BY DEF RequestReturn, Cancel, rexVars, IInv, TypeOK, Machines
<1>2. CASE RequestReturn
    <2>1. machine'.phase = "EXIT_LOOP" /\ machine'.mid = machine.mid
        BY <1>1, <1>2 DEF RequestReturn, RequestReturnHome, Machines, Machine
    <2>2. GoesOn
        BY <1>2, <2>1 DEF RequestReturn, GoesOn, Active, MovingPhases, Leg
    <2>3. UNCHANGED <<calls, routeId, superseded, preparation>>
        BY <1>2 DEF RequestReturn
    <2>4. Sent' = Sent /\ Exits' = Exits
        BY <2>3 DEF Sent, Exits
    <2>5. UnusedOK'
        <3>1. machine.phase # "NONE"
            BY <1>2 DEF RequestReturn
        <3> QED  BY <1>1, <2>3, <3>1, InUse, UsedStays DEF AloneInv
    <2> QED  BY <1>1, <2>2, <2>3, <2>4, <2>5, AloneQuiet
<1>3. CASE Cancel
    <2> DEFINE c == NewCall("user", "NONE", machine.mid)
    <2>1. c.who = "user"
        BY DEF NewCall
    <2> HIDE DEF c
    <2>2. /\ machine' = NoMachine /\ routeId' = 0 /\ superseded' = 0 /\ preparation' = 0
          /\ calls' = calls \/ (machine.phase # "NONE" /\ calls' = calls \union {c})
        BY <1>3 DEF Cancel, c
    <2>3. ~Active(machine') /\ machine'.phase = "NONE"
        BY <2>2 DEF NoMachine, Active, MovingPhases
    <2>4. Sent' \subseteq Sent /\ Exits' \subseteq Exits
        BY <2>1, <2>2 DEF Sent, Exits
    <2>5. UnusedOK'
        <3>1. CASE Used
            BY <1>1, <2>2, <3>1, UsedStays
        <3>2. CASE ~Used
            BY <1>1, <2>2, <2>3, <3>2 DEF AloneInv, UnusedOK, Used
        <3> QED  BY <3>1, <3>2
    <2> QED  BY <1>1, <2>2, <2>3, <2>4, <2>5, AloneQuiet DEF GoesOn
<1> QED  BY <1>2, <1>3

(* The executor serves a dispatch: the route is prepared, or refused.      *)
LEMMA AloneRexSet ==
    ASSUME IInv, AloneInv, NEW c \in calls, RexSet(c)
    PROVE  AloneInv'
<1> DEFINE d == [c EXCEPT !.st = "failed"]
<1>1. /\ UNCHANGED <<machine, preparation, nSets, routeId, superseded, poll, rex, routes>>
      /\ c \in Sent /\ c \in Call
    BY DEF RexSet, restOfCoord, coordVars, Sent, IInv, TypeOK
<1>2. d.who = c.who /\ d.st = "failed" /\ c.who = "dispatch"
    BY <1>1 DEF Call, Sent
<1>3. \/ rexPrep' = RouteOfCall(c) /\ calls' = calls \ {c}
      \/ rexPrep' = rexPrep /\ calls' = (calls \ {c}) \union {d}
    BY DEF RexSet, RouteOfCall
<1> HIDE DEF d
<1>4. Sent' = Sent \ {c} /\ Exits' = Exits
    BY <1>1, <1>2, <1>3 DEF Sent, Exits
<1>5. Sent' = {} /\ rexPrep = NoRoute
    BY <1>1, <1>4 DEF AloneInv, PendingOK
<1>6. UnusedOK'
    BY <1>1, InUse, UsedStays DEF AloneInv
<1>7. CASE rexPrep' = rexPrep
    <2>1. GoesOn
        BY <1>1 DEF GoesOn, Active
    <2> QED  BY <1>1, <1>4, <1>6, <1>7, <2>1, AloneQuiet
<1>8. CASE rexPrep' = RouteOfCall(c)
    <2>1. NewestOK'
        BY <1>1 DEF AloneInv, NewestOK, Newest
    <2>2. FollowOK'
        <3> SUFFICES ASSUME Active(machine)  PROVE FollowOK'
            BY <1>1 DEF FollowOK, Active
        <3>1. /\ Newest \in {superseded, superseded + 1} /\ Newest # superseded + 1 /\ routeId = 0
              /\ RouteOfCall(c) = OwnRoute
            BY <1>1 DEF AloneInv, FollowOK
        <3>2. Newest' = Newest /\ OwnRoute' = OwnRoute
            BY <1>1 DEF Newest, OwnRoute
        <3> QED  BY <1>1, <1>5, <1>8, <3>1, <3>2 DEF FollowOK
    <2>3. ExitOK'
        BY <1>1, <1>4 DEF AloneInv, ExitOK, Active
    <2> QED  BY <1>5, <1>6, <2>1, <2>2, <2>3 DEF AloneInv, PendingOK, ReturnOK
<1> QED  BY <1>3, <1>7, <1>8

(* A cancel begins, and ends: its call stays one call.                     *)
LEMMA AloneRexCancel ==
    ASSUME IInv, AloneInv, NEW c \in calls, NEW d, d.who = c.who, d.st # "sent",
           c.who # "dispatch" \/ c.st # "sent",
           calls' \subseteq (calls \ {c}) \union {d},
           UNCHANGED <<machine, preparation, nSets, routeId, superseded, poll, routes>>,
           rexPrep' \in {rexPrep, NoRoute}, rex'.id = rex.id,
           rex'.status = "COMPLETED" => rex.status = "COMPLETED",
           rex'.status # "ACTIVE" \/ (rex' = rex /\ c.st # "sent")
    PROVE  AloneInv'
<1>1. Sent' \subseteq Sent
    BY DEF Sent
<1>2. UnusedOK'
    BY InUse, UsedStays DEF AloneInv
<1>3. NewestOK'
    BY DEF AloneInv, NewestOK, Newest
<1>4. PendingOK' /\ ReturnOK'
    BY <1>1 DEF AloneInv, PendingOK, ReturnOK
<1>5. FollowOK'
    <2>1. OwnRoute' = OwnRoute /\ Following' = Following /\ Newest' = Newest
        BY DEF OwnRoute, Following, LoopRoute, Newest
    <2> QED  BY <1>1, <2>1 DEF AloneInv, FollowOK, Active
<1>6. ExitOK'
    <2>1. \A e \in Exits' : (e \in Exits /\ e # c) \/ (e = d /\ c \in Exits)
        BY DEF Exits
    <2>2. \A e, f \in Exits' : e = f
        BY <2>1 DEF AloneInv, ExitOK
    <2>3. ASSUME NEW e \in Exits', Active(machine')
          PROVE  machine'.phase = "RETURN_HOME" /\ routeId' # 0 /\ (e.st # "sent" => rex'.status # "ACTIVE")
        BY <2>1, <2>3 DEF AloneInv, ExitOK, Active
    <2> QED  BY <2>2, <2>3 DEF ExitOK
<1> QED  BY <1>2, <1>3, <1>4, <1>5, <1>6 DEF AloneInv

(* The prepared route gets the next mission_id and is the newest.          *)
LEMMA AloneRexActivate ==
    ASSUME IInv, AloneInv, RangeOK, NEW status, NEW pos, RexActivate(status, pos)
    PROVE  AloneInv'
<1>1. /\ UNCHANGED <<machine, preparation, nSets, routeId, superseded, poll, calls>>
      /\ rexPrep # NoRoute /\ rexPrep' = NoRoute /\ routes' = Append(routes, rexPrep)
      /\ rex'.id = Len(routes) + 1 /\ rex'.status = status
      /\ status = "COMPLETED" => rexPrep.leg # "LOOP"
    BY DEF RexActivate, restOfCoord, coordVars
<1>2. /\ Newest \in Nat /\ superseded \in Nat /\ routes \in Seq(Route) /\ rexPrep \in Route
      /\ poll.id \in 0 .. Newest /\ routeId \in 0 .. Newest
    BY DEF IInv, TypeOK, RouteIds, Newest, RangeOK
<1>3. Newest' = Newest + 1 /\ routes'[Newest + 1] = rexPrep /\ \A i \in 1 .. Newest : routes'[i] = routes[i]
    BY <1>1, <1>2 DEF Newest
<1>4. Sent = {} /\ Sent' = {} /\ Exits' = Exits
    BY <1>1 DEF AloneInv, PendingOK, Sent, Exits
<1>5. UnusedOK'
    BY <1>1, InUse, UsedStays DEF AloneInv
<1>6. NewestOK'
    <2>1. rex'.id = Newest' /\ superseded' <= Newest'
        BY <1>1, <1>2, <1>3 DEF AloneInv, NewestOK, Newest
    <2>2. rex'.status = "COMPLETED" => routes'[rex'.id].leg # "LOOP"
        BY <1>1, <1>3, <2>1
    <2>3. poll.id # 0 => routes'[poll.id] = routes[poll.id]
        BY <1>2, <1>3
    <2> QED  BY <1>1, <2>1, <2>2, <2>3 DEF AloneInv, NewestOK
<1>7. ASSUME Active(machine)
      PROVE  /\ Newest = superseded /\ routeId = 0 /\ rexPrep = OwnRoute /\ Exits = {}
    <2>1. Newest = superseded /\ routeId = 0 /\ rexPrep = OwnRoute
        BY <1>1, <1>7 DEF AloneInv, FollowOK
    <2> QED  BY <1>7, <2>1 DEF AloneInv, ExitOK
<1>8. FollowOK'
    <2> SUFFICES ASSUME Active(machine)  PROVE FollowOK'
        BY <1>1 DEF FollowOK, Active
    <2>1. OwnRoute' = OwnRoute /\ OwnRoute \in Following'
        BY <1>1 DEF OwnRoute, Following
    <2> QED  BY <1>1, <1>2, <1>3, <1>4, <1>7, <2>1 DEF FollowOK
<1>9. ExitOK'
    BY <1>1, <1>4, <1>7 DEF AloneInv, ExitOK, Active
<1> QED  BY <1>1, <1>4, <1>5, <1>6, <1>8, <1>9 DEF AloneInv, PendingOK, ReturnOK

LEMMA AloneRex ==
    ASSUME Alone, IInv, BusyOK, AloneInv, RangeOK,
           \/ RexServe \/ RexForeignSet \/ RexStarts \/ RexPrepFails
           \/ RexCheckpoint \/ RexPause \/ RexCancelEnds \/ RexState
    PROVE  AloneInv'
<1>0. UNCHANGED <<machine, preparation, nSets, routeId, superseded>>
    BY DEF RexServe, RexSet, RexCancel, RexForeignSet, RexStarts, RexActivate, RexPrepFails,
           RexCheckpoint, RexPause, RexCancelEnds, RexCancelDone, RexState, restOfCoord, coordVars
<1>1. rex \in [id : RouteIds, status : RouteStatus, pos : Nat] /\ calls \subseteq Call /\ rexBusy \subseteq Call
    BY DEF IInv, TypeOK
<1>2. ASSUME NEW c \in calls, RexCancel(c)  PROVE AloneInv'
    <2> DEFINE d == [c EXCEPT !.st = "serving"]
    <2>1. d.who = c.who /\ d.st # "sent"
        BY <1>1 DEF Call
    <2>2. /\ calls' = (calls \ {c}) \union {d} /\ UNCHANGED <<poll, routes>> /\ rexPrep' = NoRoute
          /\ rex'.id = rex.id /\ rex'.status # "ACTIVE" /\ c.who # "dispatch"
          /\ rex'.status = "COMPLETED" => rex.status = "COMPLETED"
        BY <1>1, <1>2 DEF RexCancel, CancelCallers
    <2> HIDE DEF d
    <2> QED  BY <1>0, <2>1, <2>2, AloneRexCancel
<1>3. ASSUME NEW c \in rexBusy, NEW st \in {"ok", "failed"}, RexCancelDone(c, st)  PROVE AloneInv'
    <2> DEFINE d == [c EXCEPT !.st = "serving"]
               e == [c EXCEPT !.st = st]
    <2>1. e.who = d.who /\ e.st # "sent" /\ d.st # "sent" /\ d \in calls
        BY <1>1 DEF Call, BusyOK
    <2>2. calls' \subseteq (calls \ {d}) \union {e} /\ UNCHANGED <<poll, rex, routes, rexPrep>>
        BY <1>3 DEF RexCancelDone
    <2> HIDE DEF d, e
    <2> QED  BY <1>0, <2>1, <2>2, AloneRexCancel
<1>4. CASE RexForeignSet
    <2>1. nForeign \in Nat /\ nForeign < MaxForeign
        BY <1>4, BoundsAssumption DEF RexForeignSet, IInv, TypeOK
    <2> QED  BY <2>1 DEF Alone
<1>5. CASE RexPrepFails \/ RexCheckpoint \/ RexPause
    <2>1. /\ UNCHANGED <<calls, poll, routes>> /\ rexPrep' \in {rexPrep, NoRoute}
          /\ rex'.id = rex.id /\ (rex'.status = "ACTIVE" => rex.status = "ACTIVE")
          /\ rex'.status = "COMPLETED" => rex.status = "COMPLETED" \/ routes[rex.id].leg # "LOOP"
        BY <1>1, <1>5 DEF RexPrepFails, RexCheckpoint, RexPause
    <2>2. GoesOn /\ Sent' = Sent /\ Exits' = Exits
        BY <1>0, <2>1 DEF GoesOn, Active, Sent, Exits
    <2>3. UnusedOK'
        BY <1>0, <2>1 DEF AloneInv, UnusedOK
    <2> QED  BY <1>0, <2>1, <2>2, <2>3, AloneQuiet
<1>6. CASE RexState
    <2>1. UNCHANGED <<calls, rex, routes, rexPrep>> /\ poll'.id = rex.id /\ poll'.status = rex.status
        BY <1>6 DEF RexState, rexVars
    <2>2. /\ Newest \in Nat /\ superseded \in Nat /\ routeId \in 0 .. Newest
          /\ OwnRoute' = OwnRoute /\ Following' = Following /\ Newest' = Newest
          /\ Sent' = Sent /\ Exits' = Exits
        BY <1>0, <2>1 DEF IInv, TypeOK, RouteIds, RangeOK, Newest, OwnRoute, Following, LoopRoute, Sent, Exits
    <2>3. NewestOK'
        BY <1>0, <2>1, <2>2 DEF AloneInv, NewestOK
    <2>4. UnusedOK'
        <3>1. routes = <<>> => rex.id = 0
            BY DEF AloneInv, NewestOK, Newest
        <3> QED  BY <1>0, <2>1, <3>1 DEF AloneInv, UnusedOK
    <2> QED  BY <1>0, <2>1, <2>2, <2>3, <2>4 DEF AloneInv, PendingOK, FollowOK, ExitOK, ReturnOK, Active
<1> QED  BY <1>2, <1>3, <1>4, <1>5, <1>6, AloneRexSet, AloneRexActivate
         DEF RexServe, RexStarts, RexCancelEnds

LEMMA NextAlone ==
    ASSUME Alone, PatrolInv, RouteInv, SoloInv, AloneInv, [Next]_vars
    PROVE  AloneInv'
<1>0. IInv /\ IdsOK /\ BusyOK /\ IInv' /\ RangeOK /\ starting = {} /\ Waiting = {}
    BY NextIInv DEF PatrolInv, RouteInv, SoloInv, SoloOK
<1>1. CASE UNCHANGED vars
    BY <1>1 DEF vars, AloneInv, UnusedOK, NewestOK, PendingOK, FollowOK, ExitOK, ReturnOK, Newest, Sent,
                Exits, OwnRoute, LoopRoute, Following, Active
<1>2. CASE BatteryStep
    BY <1>0, <1>2, AloneBattery, AloneInput DEF BatteryStep, OnBatteryGuard, OnBatteryState
<1>3. CASE \/ \E p \in Poses : OnPose(p)
           \/ SetPatrolMission \/ PreparationFails \/ TickRouteState
    BY <1>0, <1>3, AloneInput
<1>4. CASE ActivateSpec
    BY <1>0, <1>4, AloneActivate
<1>5. CASE StartStep
    BY <1>0, <1>5 DEF StartStep
<1>6. CASE AnswerStep
    <2>1. \A c \in calls : ~FinishReplacement(c) /\ ~FinishReplacementFailed(c)
        BY <1>0 DEF FinishReplacement, FinishReplacementFailed, Waiting
    <2> QED  BY <1>0, <1>6, <2>1, AloneAnswer DEF AnswerStep
<1>7. CASE OnRouteState \/ OnEvent \/ RequestReturn \/ Cancel
    BY <1>0, <1>7, AlonePoll, AloneEvent, AloneOperator
<1>8. CASE \/ RexServe \/ RexForeignSet \/ RexStarts \/ RexPrepFails
           \/ RexCheckpoint \/ RexPause \/ RexCancelEnds \/ RexState
    BY <1>0, <1>8, AloneRex
<1> QED  BY <1>1, <1>2, <1>3, <1>4, <1>5, <1>6, <1>7, <1>8 DEF Next

LEMMA InitAlone == Init => AloneInv
<1> SUFFICES ASSUME Init  PROVE AloneInv
    OBVIOUS
<1>1. Sent = {} /\ Exits = {} /\ Newest = 0 /\ ~Active(machine) /\ machine.phase = "NONE"
    BY DEF Init, Sent, Exits, Newest, Active, NoMachine, MovingPhases
<1>2. rex.id = 0 /\ rex.status = "IDLE" /\ poll.id = 0 /\ superseded = 0
    BY DEF Init
<1> QED  BY <1>1, <1>2 DEF Init, AloneInv, UnusedOK, NewestOK, PendingOK, FollowOK, ExitOK, ReturnOK

(* The invariant of one patrol that has the executor for itself.           *)
AllInv == PatrolInv /\ RouteInv /\ SoloInv /\ AloneInv
LEMMA AloneInvariance == Alone => (Spec => []AllInv)
<1> SUFFICES ASSUME Alone  PROVE Spec => []AllInv
    OBVIOUS
<1>0. OneByOne
    BY DEF Alone, OneByOne
<1>1. Init => AllInv
    BY InitIInv, InitIds, InitRoutes, InitAlone
       DEF AllInv, PatrolInv, Init, SoloInv, SoloOK, EndedOK, MissionLatched, Waiting, NoMachine
<1>2. AllInv /\ [Next]_vars => AllInv'
    BY <1>0, NextIInv, NextMoves, NextRoutes, NextSolo, NextAlone DEF AllInv, PatrolInv
<1> QED  BY <1>1, <1>2, PTL DEF Spec

(* A patrol that has the executor for itself follows its own routes only:  *)
(* whatever polls and events are on their way, the mission_id it adopts is *)
(* that of the leg it dispatched for its phase.                            *)
THEOREM OnlyOwnRoutesAdopted == Alone => (Spec => []AdoptedRouteIsOurs)
<1> SUFFICES ASSUME Alone  PROVE Spec => []AdoptedRouteIsOurs
    OBVIOUS
<1>1. AllInv => AdoptedRouteIsOurs
    <2> SUFFICES ASSUME AllInv, routeId # 0, Active(machine)
                 PROVE  /\ routes[routeId].mid = machine.mid
                        /\ routes[routeId].leg \in {Leg(machine.phase)} \union
                               (IF machine.phase = "RETURN_HOME" THEN {"LOOP"} ELSE {})
        BY DEF AdoptedRouteIsOurs
    <2>1. routes[routeId] \in Following
        BY DEF AllInv, AloneInv, FollowOK
    <2> QED  BY <2>1 DEF Following, OwnRoute, LoopRoute
<1> QED  BY <1>1, AloneInvariance, PTL

(* The return leg of such a patrol reaches the executor after its loop has *)
(* stopped: AfterExitCancelled dispatches it once the cancel has answered. *)
THEOREM LoopStopsBeforeReturn == Alone => (Spec => []ReturnAfterLoopStopped)
<1> SUFFICES ASSUME Alone  PROVE Spec => []ReturnAfterLoopStopped
    OBVIOUS
<1>1. AllInv => ReturnAfterLoopStopped
    BY DEF AllInv, AloneInv, ReturnOK, Sent, ReturnAfterLoopStopped
<1> QED  BY <1>1, AloneInvariance, PTL

(* Every phase of such a patrol ends on its own route: the depart and the  *)
(* return leg by a poll of that leg, the join and the exit by an event of  *)
(* its loop, the exit at the exit waypoint.                                *)
THEOREM OwnRouteEndsEveryPhase == Alone => (Spec => PhaseEndsOnOwnRoute)
<1> SUFFICES ASSUME Alone  PROVE Spec => PhaseEndsOnOwnRoute
    OBVIOUS
<1>1. ASSUME AllInv, [Next]_vars  PROVE PhaseEndedByOwnRoute
    <2> SUFFICES ASSUME Crosses  PROVE PhaseEndedByOwnRoute
        BY DEF Crosses, PhaseEndedByOwnRoute
    <2>0. PatrolInv /\ RouteInv /\ AloneInv /\ IInv /\ RangeOK
        BY <1>1 DEF AllInv, PatrolInv, RouteInv
    <2>1. CASE EndedByEvent
        <3>1. Active(machine) /\ machine.phase # "RETURN_HOME" /\ routeId # 0
            BY <2>1 DEF EndedByEvent, Active, MovingPhases
        <3>2. routes[routeId] = OwnRoute
            BY <2>0, <3>1 DEF AloneInv, FollowOK, Following
        <3> QED  BY <2>0, <2>1, <3>2, OwnEvent DEF EndedByEvent, PhaseEndedByOwnRoute
    <2>2. CASE EndedByPoll
        <3>1. Active(machine) /\ poll.id # 0 /\ poll.id = Newest /\ Newest = superseded + 1
            BY <2>0, <2>2, PollIsNewest DEF EndedByPoll, Active, MovingPhases
        <3>2. routes[poll.id] \in Following /\ routes[poll.id].leg # "LOOP"
            BY <2>0, <2>2, <3>1 DEF AloneInv, FollowOK, NewestOK, EndedByPoll
        <3>3. routes[poll.id] = OwnRoute
            BY <3>2 DEF Following, LoopRoute
        <3> QED  BY <2>2, <3>1, <3>3 DEF EndedByPoll, PhaseEndedByOwnRoute, PolledOwn, OwnRoute, Leg
    <2> QED  BY <1>1, <2>0, <2>1, <2>2, WhoEndsAPhase
<1> QED  BY <1>1, AloneInvariance, PTL DEF Spec, PhaseEndsOnOwnRoute
=============================================================================
