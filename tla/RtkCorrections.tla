--------------------------- MODULE RtkCorrections ---------------------------
(***************************************************************************)
(* RTK corrections from the caster to the autopilot: the reader thread and *)
(* the status timer of ntrip_rtcm_source.py, the two topics between them   *)
(* and pixhawk_rtk_adapter.py, which validates and orders the frames       *)
(* (rtk_domain.py) and tells the rest of the robot how fresh they are.     *)
(*                                                                         *)
(* Ages are in ticks; NoAge stands for None.  A message spends at most     *)
(* MaxTransit ticks on its way, and may be lost.                           *)
(***************************************************************************)
EXTENDS Integers

CONSTANTS
    SourceStale,    \* rtcm_stale_timeout_s of the source
    AdapterStale,   \* stale_timeout_s of the adapter
    MaxTransit,     \* bound: how long a status is on its way
    MaxBackoff,     \* doublings from reconnect_delay_s to max_reconnect_delay_s
    MaxFrames,      \* bound: frames of one run of the source
    MaxRestarts     \* bound: restarts of the source

NoAge == -1

VARIABLES
    source,     \* _connected, _state, _last_frame_monotonic, _sequence, the reader's place
    onTheWay,   \* the RTCM frame (0: none) and the status between the nodes
    adapter,    \* _source_status with its age, _last_sequence, _last_delivered_ns
    frameAge,   \* history: since the source last published a frame
    refused,    \* history: valid frames refused in a row for their sequence
    nRestarts

rtkVars == <<source, onTheWay, adapter, frameAge, refused, nRestarts>>

NoStatus == [st |-> "DISCONNECTED", fresh |-> FALSE, age |-> NoAge, waited |-> 0, sent |-> FALSE]

SourceStarts == [pc |-> "opening", connected |-> FALSE, st |-> "DISCONNECTED", age |-> NoAge,
                 sequence |-> 0, delay |-> 0, stop |-> FALSE]

RtkInit ==
    /\ source = SourceStarts
    /\ onTheWay = [frame |-> 0, status |-> NoStatus]
    /\ adapter = [status |-> NoStatus, sequence |-> 0, delivered |-> NoAge, failed |-> FALSE]
    /\ frameAge = NoAge
    /\ refused = 0 /\ nRestarts = 0

-----------------------------------------------------------------------------
(* The reader thread.  _open_stream and _set_connected.                    *)
OpenStream ==
    /\ source.pc = "opening" /\ ~source.stop
    /\ source' = [source EXCEPT !.pc = "streaming", !.connected = TRUE,
                                !.st = "CONNECTED_NO_DATA", !.age = NoAge]
    /\ UNCHANGED <<onTheWay, adapter, frameAge, refused, nRestarts>>

(* _set_error: no connection, a refusal, a bad chunk, the end of the       *)
(* stream; then the wait for the next attempt.                             *)
Fails ==
    /\ source.pc \in {"opening", "streaming"}
    /\ source' = [source EXCEPT !.pc = IF source.stop THEN "stopped" ELSE "waiting",
                                !.connected = FALSE, !.st = "ERROR"]
    /\ UNCHANGED <<onTheWay, adapter, frameAge, refused, nRestarts>>

(* _publish_frame, for a frame that the decoder has let through.           *)
PublishFrame ==
    /\ source.pc = "streaming" /\ source.sequence < MaxFrames
    /\ ~source.stop
    /\ source' = [source EXCEPT !.sequence = @ + 1, !.age = 0, !.connected = TRUE,
                                !.st = "RECEIVING", !.delay = 0]
    /\ onTheWay' = [onTheWay EXCEPT !.frame = source.sequence + 1]
    /\ frameAge' = 0
    /\ UNCHANGED <<adapter, refused, nRestarts>>

(* A pass of the read loop without a valid frame: read timeout, noise, CRC *)
(* errors.  Before the first frame nothing is ever stale.                  *)
ReadNothing ==
    /\ source.pc = "streaming" /\ source.age > SourceStale
    /\ source' = [source EXCEPT !.pc = IF source.stop THEN "stopped" ELSE "waiting",
                                !.connected = FALSE, !.st = "STALE"]
    /\ UNCHANGED <<onTheWay, adapter, frameAge, refused, nRestarts>>

(* _wake_event.wait runs into its timeout and the delay doubles.           *)
Reconnect ==
    /\ source.pc = "waiting"
    /\ source' = [source EXCEPT !.pc = IF source.stop THEN "stopped" ELSE "opening",
                                !.delay = IF @ < MaxBackoff THEN @ + 1 ELSE @]
    /\ UNCHANGED <<onTheWay, adapter, frameAge, refused, nRestarts>>

(* _publish_status of the source: the timer may call the stream stale      *)
(* before the reader does.                                                 *)
SourceState ==
    IF source.connected /\ source.age = NoAge THEN "CONNECTED_NO_DATA"
    ELSE IF source.connected /\ source.age > SourceStale THEN "STALE"
    ELSE source.st

PublishSourceStatus ==
    /\ source.pc # "stopped"
    /\ source' = [source EXCEPT !.st = IF SourceState = "STALE" THEN "STALE" ELSE @]
    /\ onTheWay' = [onTheWay EXCEPT !.status =
           [st |-> SourceState, age |-> source.age, waited |-> 0, sent |-> TRUE,
            fresh |-> SourceState = "RECEIVING" /\ source.age \in 0 .. SourceStale]]
    /\ UNCHANGED <<adapter, frameAge, refused, nRestarts>>

DestroyNode ==
    /\ ~source.stop
    /\ source' = [source EXCEPT !.stop = TRUE]
    /\ UNCHANGED <<onTheWay, adapter, frameAge, refused, nRestarts>>

(* The process is started again: the sequence numbers begin anew.          *)
SourceRestarts ==
    /\ source.stop /\ nRestarts < MaxRestarts
    /\ nRestarts' = nRestarts + 1
    /\ source' = SourceStarts
    /\ UNCHANGED <<onTheWay, adapter, frameAge, refused>>

-----------------------------------------------------------------------------
(* The adapter.                                                            *)
OnSourceStatus ==
    /\ onTheWay.status.sent
    /\ adapter' = [adapter EXCEPT !.status = [onTheWay.status EXCEPT !.waited = 0]]
    /\ onTheWay' = [onTheWay EXCEPT !.status = NoStatus]
    /\ UNCHANGED <<source, frameAge, refused, nRestarts>>

(* sequence_transition: a lower number than the last is a reset.           *)
SequenceTransition(previous, current) ==
    IF previous = 0 THEN "first"
    ELSE IF current > previous THEN "advanced"
    ELSE IF current = previous THEN "duplicate"
    ELSE "reset"

Accepted(sequence) == SequenceTransition(adapter.sequence, sequence) \in {"first", "advanced"}

(* Broken variant: a refused number is not taken for the new start.        *)
NextSequenceKept(sequence) == IF Accepted(sequence) THEN sequence ELSE adapter.sequence

(* evaluate_rtcm_delivery, for a valid frame: what _last_sequence becomes. *)
NextSequence(sequence) ==
    IF SequenceTransition(adapter.sequence, sequence) = "duplicate" THEN adapter.sequence
    ELSE sequence

(* _on_rtcm; publishing to MAVROS may fail.                                *)
OnRtcm(ok) ==
    LET n == onTheWay.frame
    IN  /\ n # 0
        /\ onTheWay' = [onTheWay EXCEPT !.frame = 0]
        /\ adapter' = [adapter EXCEPT !.sequence = NextSequence(n),
                         !.delivered = IF Accepted(n) /\ ok THEN 0 ELSE @,
                         !.failed = IF Accepted(n) THEN ~ok ELSE @]
        /\ refused' = IF Accepted(n) THEN 0 ELSE refused + 1
        /\ UNCHANGED <<source, frameAge, nRestarts>>

(* A frame too large for MAVROS, or of another source, or a lost message.  *)
LoseMessage ==
    /\ onTheWay.frame # 0 \/ onTheWay.status.sent
    /\ \/ onTheWay' = [onTheWay EXCEPT !.frame = 0]
       \/ onTheWay' = [onTheWay EXCEPT !.status = NoStatus]
    /\ UNCHANGED <<source, adapter, frameAge, refused, nRestarts>>

DeliveryState ==
    IF adapter.failed THEN "ERROR"
    ELSE IF adapter.delivered = NoAge THEN "IDLE"
    ELSE IF adapter.delivered > AdapterStale THEN "STALE" ELSE "DELIVERING"

(* Broken variant: the age in the status is not carried on.                *)
CorrectionsFreshAsTold ==
    LET s == adapter.status
    IN  s.sent /\ s.waited <= AdapterStale /\ s.fresh /\ s.age <= AdapterStale

(* The age the source told plus what has passed since.                     *)
CorrectionsFresh ==
    LET s == adapter.status
    IN  s.sent /\ s.waited <= AdapterStale /\ s.fresh /\ s.age + s.waited <= AdapterStale

(* _publish_status of the adapter changes nothing; this is what it says.   *)
RtkStatus ==
    [corrections_fresh |-> CorrectionsFresh,
     delivery_state |-> DeliveryState,
     acquisition_state |-> IF adapter.status.sent /\ adapter.status.waited > AdapterStale
                           THEN "STALE" ELSE adapter.status.st]

(* Ages past the timeout that is applied to them are all alike.            *)
Older(age, timeout) == IF age \in 0 .. timeout THEN age + 1 ELSE age

ElapseRtk ==
    /\ onTheWay.status.waited < MaxTransit
    /\ source' = [source EXCEPT !.age = Older(@, SourceStale)]
    /\ onTheWay' = [onTheWay EXCEPT !.status.waited = IF onTheWay.status.sent THEN @ + 1 ELSE @]
    /\ adapter' = [adapter EXCEPT !.status.waited = IF adapter.status.sent
                                                     THEN Older(@, AdapterStale) ELSE @,
                                  !.delivered = Older(@, AdapterStale)]
    /\ frameAge' = Older(frameAge, AdapterStale + MaxTransit)
    /\ UNCHANGED <<refused, nRestarts>>

RtkNext ==
    \/ OpenStream \/ Fails \/ PublishFrame \/ ReadNothing \/ Reconnect
    \/ PublishSourceStatus \/ DestroyNode \/ SourceRestarts
    \/ OnSourceStatus \/ LoseMessage \/ ElapseRtk
    \/ \E ok \in BOOLEAN : OnRtcm(ok)

-----------------------------------------------------------------------------
RtkTypeOK ==
    /\ source.st \in {"DISCONNECTED", "CONNECTED_NO_DATA", "RECEIVING", "STALE", "ERROR"}
    /\ source.age \in NoAge .. SourceStale + 1 /\ source.delay \in 0 .. MaxBackoff
    /\ onTheWay.frame \in 0 .. MaxFrames
    /\ adapter.sequence \in 0 .. MaxFrames
    /\ RtkStatus.delivery_state \in {"IDLE", "DELIVERING", "STALE", "ERROR"}

(* What the robot is told of its corrections is true: a status that calls  *)
(* them fresh is published within stale_timeout_s of a frame of the        *)
(* source, plus the time its own status took to arrive, across             *)
(* reconnections, restarts, lost statuses and a source that has gone       *)
(* silent.                                                                 *)
FreshIsTrue == RtkStatus.corrections_fresh => frameAge \in 0 .. AdapterStale + MaxTransit

(* A restart of the source costs the receiver one frame, not all those up  *)
(* to the number where it stopped.                                         *)
RestartCostsOneFrame == refused <= 1
=============================================================================
