------------------------------ MODULE Recording ------------------------------
(***************************************************************************)
(* When the cameras are recorded: recording_policy.py (what is wanted),    *)
(* recordings.py (persistence, the worker thread, the disk) and the poll   *)
(* of the mission authorities in ros_gateway.py.                           *)
(*                                                                         *)
(* Three threads meet here: the poll runs in the ROS spin thread, manual   *)
(* requests in asyncio's worker threads, tick in a thread of its own.  The *)
(* first two hold the lock from the change of the policy to the end of     *)
(* persist.  The process may die at any moment and start again.            *)
(***************************************************************************)
EXTENDS Integers, FiniteSets

CONSTANTS
    Cameras,
    MaxFaults,      \* bound: failures of persist and of the media service
    MaxProcessCrashes,
    MaxRequests     \* bound: manual requests

ASSUME RecordingAssumption ==
    MaxFaults \in Nat /\ MaxProcessCrashes \in Nat /\ MaxRequests \in Nat

Authorities == {"route", "patrol"}     \* get_route_state, get_patrol_state

(* tail_until: 0.0, in the future, or a moment that has passed.            *)
Tails == {"never", "running", "over"}
RecordingPolicy == [manual : BOOLEAN, mission : BOOLEAN, tail : Tails, stale : BOOLEAN]
Saved == [manual : BOOLEAN, mission : BOOLEAN, tail_pending : BOOLEAN]

VARIABLES
    policy,     \* Recordings.policy
    saved,      \* the state file
    mission,    \* what each authority would answer: active (or paused) or not
    poll,       \* _recording_futures: an answer per authority, or not polled
    spinning,   \* is the ROS spin thread alive?
    diskOk,     \* disk_ok
    tick,       \* the worker: [todo, wanted] of the tick under way
    record,     \* is each camera recorded by the media service?
    lastRunning,   \* history: missions on file as last seen running
    promised,   \* history: the manual intent last acknowledged
    faults      \* [disk, media, crash, asked] so far

recordingVars == <<policy, saved, mission, poll, spinning, diskOk, tick, record,
                   lastRunning, promised, faults>>

Answers == {"none", "pending", "idle", "active"}
NotPolled == [a \in Authorities |-> "none"]

RecordingTypeOK ==
    /\ policy \in RecordingPolicy /\ saved \in Saved
    /\ mission \in [Authorities -> BOOLEAN]
    /\ poll \in [on : BOOLEAN, got : [Authorities -> Answers]]
    /\ spinning \in BOOLEAN /\ diskOk \in BOOLEAN
    /\ tick \in [todo : SUBSET Cameras, wanted : BOOLEAN]
    /\ record \in [Cameras -> BOOLEAN]
    /\ lastRunning \in BOOLEAN /\ promised \in BOOLEAN
    /\ faults \in [disk : 0..MaxFaults, media : 0..MaxFaults,
                   crash : 0..MaxProcessCrashes, asked : 0..MaxRequests]

-----------------------------------------------------------------------------
(* recording_policy.py *)

(* Broken variant: an authority that is silent counts as idle.             *)
MissionSignalOfTheValid(got) ==
    IF \E a \in Authorities : got[a] = "active" THEN "active"
    ELSE IF \E a \in Authorities : got[a] = "idle" THEN "idle"
    ELSE "unknown"

(* mission_signal: one active authority is enough, idle takes them all.    *)
MissionSignal(got) ==
    IF \E a \in Authorities : got[a] = "active" THEN "active"
    ELSE IF \A a \in Authorities : got[a] = "idle" THEN "idle"
    ELSE "unknown"

(* RecordingPolicy.observe *)
ObserveSignal(p, signal) ==
    IF signal = "unknown" THEN [p EXCEPT !.stale = TRUE]
    ELSE [p EXCEPT !.stale = FALSE, !.mission = signal = "active",
              !.tail = CASE signal = "active" -> "never"
                         [] p.mission -> "running"
                         [] OTHER -> @]

(* RecordingPolicy.wanted: silence does not end a capture.                 *)
Wanted(p) == p.manual \/ p.mission \/ p.tail = "running" \/ (p.stale /\ p.tail = "over")

(* persist: what goes to the file.                                         *)
Document(p) == [manual |-> p.manual, mission |-> p.mission,
                tail_pending |-> p.tail = "running"]

(* Broken variant: a restart takes only the operator's wish.               *)
RestoredManual(s) == [manual |-> s.manual, mission |-> FALSE,
                      tail |-> IF s.tail_pending THEN "running" ELSE "never",
                      stale |-> TRUE]

(* __init__: the policy of a new process; nothing is known of the mission. *)
Restored(s) == [manual |-> s.manual, mission |-> s.mission,
                tail |-> IF s.tail_pending THEN "running" ELSE "never",
                stale |-> TRUE]

-----------------------------------------------------------------------------
RecordingInit ==
    /\ saved = [manual |-> FALSE, mission |-> FALSE, tail_pending |-> FALSE]
    /\ policy = Restored(saved)
    /\ mission = [a \in Authorities |-> FALSE]
    /\ poll = [on |-> FALSE, got |-> NotPolled]
    /\ spinning = TRUE /\ diskOk = TRUE
    /\ tick = [todo |-> {}, wanted |-> FALSE]
    /\ record = [c \in Cameras |-> FALSE]
    /\ lastRunning = FALSE /\ promised = FALSE
    /\ faults = [disk |-> 0, media |-> 0, crash |-> 0, asked |-> 0]

(* A mission starts or ends (external).                                    *)
MissionChanges(a) ==
    /\ mission' = [mission EXCEPT ![a] = ~@]
    /\ UNCHANGED <<policy, saved, poll, spinning, diskOk, tick, record, lastRunning,
                   promised, faults>>

(* _poll_recording_mission, its last part: ask those that are ready; when  *)
(* nobody is, observe(None) at once.                                       *)
PollAsks(ready) ==
    /\ spinning /\ ~poll.on
    /\ IF ready # {}
       THEN /\ poll' = [on |-> TRUE, got |-> [a \in Authorities |->
                            IF a \in ready THEN "pending" ELSE "none"]]
            /\ UNCHANGED <<policy, saved>>
       ELSE /\ policy' = ObserveSignal(policy, "unknown")
            /\ saved' = Document(policy')
            /\ UNCHANGED poll
    /\ UNCHANGED <<mission, spinning, diskOk, tick, record, lastRunning, promised, faults>>

AuthorityAnswers(a) ==
    /\ poll.on /\ poll.got[a] = "pending"
    /\ \E answer \in {IF mission[a] THEN "active" ELSE "idle", "none"} :
           poll' = [poll EXCEPT !.got[a] = answer]
    /\ UNCHANGED <<policy, saved, mission, spinning, diskOk, tick, record, lastRunning,
                   promised, faults>>

(* _poll_recording_mission, its first part: all answered, or four seconds  *)
(* have passed and the missing ones are cancelled; then observe.           *)
PollCollects ==
    LET signal == MissionSignal(poll.got)
    IN  /\ spinning /\ poll.on
        /\ poll' = [on |-> FALSE, got |-> NotPolled]
        /\ policy' = ObserveSignal(policy, signal)
        /\ saved' = Document(policy')
        /\ lastRunning' = CASE signal = "active" -> TRUE
                         [] \A a \in Authorities : poll.got[a] = "idle" -> FALSE
                         [] OTHER -> lastRunning
        /\ UNCHANGED <<mission, spinning, diskOk, tick, record, promised, faults>>

(* The same with a persist that fails: observe has changed the policy, the *)
(* exception leaves the timer callback and ends the spin thread.           *)
PollCollectsInVain ==
    /\ spinning /\ poll.on /\ faults.disk + faults.media < MaxFaults
    /\ faults' = [faults EXCEPT !.disk = @ + 1]
    /\ policy' = ObserveSignal(policy, MissionSignal(poll.got))
    /\ spinning' = FALSE
    /\ lastRunning' = (lastRunning /\ \E a \in Authorities : poll.got[a] # "idle")
    /\ UNCHANGED <<saved, mission, poll, diskOk, tick, record, promised>>

(* Broken variant: the operator is answered although nothing was saved.    *)
ManualAnyway(enabled, persisted) ==
    /\ faults.asked < MaxRequests
    /\ ~persisted => faults.disk + faults.media < MaxFaults
    /\ policy' = [policy EXCEPT !.manual = enabled]
    /\ saved' = IF persisted THEN Document(policy') ELSE saved
    /\ promised' = enabled
    /\ faults' = [faults EXCEPT !.asked = @ + 1, !.disk = IF persisted THEN @ ELSE @ + 1]
    /\ UNCHANGED <<mission, poll, spinning, diskOk, tick, record, lastRunning>>

(* Recordings.manual: a persist that fails takes the change back.          *)
Manual(enabled, persisted) ==
    /\ faults.asked < MaxRequests
    /\ ~persisted => faults.disk + faults.media < MaxFaults
    /\ IF persisted
       THEN /\ policy' = [policy EXCEPT !.manual = enabled]
            /\ saved' = Document(policy')
            /\ promised' = enabled
       ELSE UNCHANGED <<policy, saved, promised>>
    /\ faults' = [faults EXCEPT !.asked = @ + 1, !.disk = IF persisted THEN @ ELSE @ + 1]
    /\ UNCHANGED <<mission, poll, spinning, diskOk, tick, record, lastRunning>>

TailPasses ==
    /\ policy.tail = "running"
    /\ policy' = [policy EXCEPT !.tail = "over"]
    /\ UNCHANGED <<saved, mission, poll, spinning, diskOk, tick, record, lastRunning,
                   promised, faults>>

(* tick, until it has read what is wanted: maintain_disk deletes the       *)
(* oldest closed segments and says whether that was enough.                *)
TickBegins(enough) ==
    /\ tick.todo = {}
    /\ diskOk' = enough
    /\ tick' = [todo |-> Cameras, wanted |-> Wanted(policy) /\ enough]
    /\ UNCHANGED <<policy, saved, mission, poll, spinning, record, lastRunning, promised,
                   faults>>

(* tick for one camera: the relay process and the media service, which may *)
(* fail; the next camera goes on with the same wish.                       *)
TickCamera(c, works) ==
    /\ c \in tick.todo
    /\ works \/ faults.disk + faults.media < MaxFaults
    /\ tick' = [tick EXCEPT !.todo = @ \ {c}]
    /\ record' = IF works THEN [record EXCEPT ![c] = tick.wanted] ELSE record
    /\ faults' = IF works THEN faults ELSE [faults EXCEPT !.media = @ + 1]
    /\ UNCHANGED <<policy, saved, mission, poll, spinning, diskOk, lastRunning, promised>>

(* The process dies, its relays with it, and is started again.             *)
ProcessRestarts ==
    /\ faults.crash < MaxProcessCrashes
    /\ faults' = [faults EXCEPT !.crash = @ + 1]
    /\ policy' = Restored(saved)
    /\ poll' = [on |-> FALSE, got |-> NotPolled]
    /\ spinning' = TRUE /\ diskOk' = TRUE
    /\ tick' = [todo |-> {}, wanted |-> FALSE]
    /\ UNCHANGED <<saved, mission, record, lastRunning, promised>>

RecordingNext ==
    \/ \E a \in Authorities : MissionChanges(a) \/ AuthorityAnswers(a)
    \/ \E ready \in SUBSET Authorities : PollAsks(ready)
    \/ PollCollects \/ PollCollectsInVain
    \/ \E e \in BOOLEAN, p \in BOOLEAN : Manual(e, p)
    \/ TailPasses
    \/ \E enough \in BOOLEAN : TickBegins(enough)
    \/ \E c \in Cameras, works \in BOOLEAN : TickCamera(c, works)
    \/ ProcessRestarts

(* The worker loops every two seconds and each step of it has a timeout.   *)
RecordingFairness ==
    /\ WF_recordingVars(\E enough \in BOOLEAN : TickBegins(enough))
    /\ \A c \in Cameras : WF_recordingVars(\E works \in BOOLEAN : TickCamera(c, works))

RecordingSpec == RecordingInit /\ [][RecordingNext]_recordingVars /\ RecordingFairness

-----------------------------------------------------------------------------
(* A mission that was seen running is recorded until every authority has   *)
(* said it is idle: not the silence of one, not a failed write, not a      *)
(* restart in the middle of it ends the capture.                           *)
CaptureOutlivesMission == lastRunning => Wanted(policy)

(* While there is disk and the wish stays, every camera ends up recorded,  *)
(* whatever the media service failed at before.                            *)
RecorderFollows ==
    <>[](diskOk /\ Wanted(policy)) => <>[](\A c \in Cameras : record[c])

(* The wish of an operator that was acknowledged is the one in force, also *)
(* after a failed write and after a restart.                               *)
ManualIsKept == policy.manual = promised
=============================================================================
