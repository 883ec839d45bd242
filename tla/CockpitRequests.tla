--------------------------- MODULE CockpitRequests ---------------------------
(***************************************************************************)
(* The life of a cockpit request: protocol.py decodes and validates it,    *)
(* websocket_server.py authorizes it, ros_gateway.py turns it into a       *)
(* publication, a file operation or a service call, and one                *)
(* acknowledgement goes back.  The handlers are asyncio tasks: several     *)
(* requests are under way at once and their services answer in any order.  *)
(*                                                                         *)
(* A frame is known by the first thing that is wrong with it.              *)
(***************************************************************************)
EXTENDS Integers, Sequences

CONSTANTS
    Requests        \* the requests of a client

(* What a frame asks for, by the branch of dispatch it takes.              *)
Direct == {"set_manual_cmd", "set_sensor_info_view"}
Stored == {"route_store", "waypoints_file"}
Served == {"get_state", "mission", "plain", "camera", "camera_read", "snapshot"}
Ops == Direct \union Stored \union Served \union {"set_datum", "unknown"}

(* is_controlled_operation; "plain" stands for the operations that are not,*)
(* such as cancel_route and brake.                                         *)
Controlled == {"set_manual_cmd", "mission", "camera"}

(* The first defect of a frame, in the order the code looks for them.      *)
Defects == {"not_utf8", "not_json", "not_object", "no_op", "bad_id", "bad_payload",
            "bad_fields", "bad_waypoints", "bad_type", "none"}
Frame == [op : Ops, defect : Defects]
NoFrame == [op |-> "unknown", defect |-> "none"]

Life == {"absent", "received", "discover", "call", "refresh", "done"}
(* What the robot, or the disk, did with a request.                        *)
Deed == {"nothing", "done", "refused"}

VARIABLES
    life,       \* where each handler is
    frame,      \* what each request says
    service,    \* the service call of a request: none, sent or cancelled
    deed,       \* what came of it
    reply,      \* has the service answered the gateway?
    acks        \* the codes of the acknowledgements put, in order

requestVars == <<life, frame, service, deed, reply, acks>>

Codes == {"ok", "failed", "invalid_json", "invalid_request", "unknown_op",
          "UNSUPPORTED_FIXED_DATUM", "LOCKED", "SERVICE_UNAVAILABLE",
          "SERVICE_TIMEOUT", "INVALID_REQUEST", "STORAGE_FAILURE", "ROUTE_ERROR",
          "GATEWAY_FAILURE", "refresh_failed"}

RequestsTypeOK ==
    /\ life \in [Requests -> Life] /\ frame \in [Requests -> Frame]
    /\ service \in [Requests -> {"none", "sent", "cancelled"}]
    /\ deed \in [Requests -> Deed] /\ reply \in [Requests -> BOOLEAN]
    /\ acks \in [Requests -> Seq(Codes)]

-----------------------------------------------------------------------------
(* parse_request: the code of the error, or "none".                        *)
ParseError(f) ==
    CASE f.defect \in {"not_utf8", "not_json"} -> "invalid_json"
      [] f.defect \in {"not_object", "no_op", "bad_id", "bad_payload"} -> "invalid_request"
      [] OTHER -> "none"

(* validate_request: the surface that is independent of ROS.  Waypoints    *)
(* and the types of optional fields are not looked at here.                *)
ValidationError(f) ==
    IF f.op = "set_datum" THEN "UNSUPPORTED_FIXED_DATUM"
    ELSE IF f.op = "unknown" THEN "unknown_op"
    ELSE IF f.defect = "bad_fields" THEN "invalid_request"
    ELSE "none"

ProtocolError(f) == IF ParseError(f) # "none" THEN ParseError(f) ELSE ValidationError(f)

(* build_ros_request with _waypoints and _route_options, and               *)
(* normalize_document: a bad waypoint is a ValueError, a field of the      *)
(* wrong type may be a TypeError.                                          *)
BuildError(f) ==
    CASE f.op \in {"mission", "waypoints_file"} /\ f.defect = "bad_waypoints" ->
            "INVALID_REQUEST"
      [] f.op = "mission" /\ f.defect = "bad_type" -> "GATEWAY_FAILURE"
      [] OTHER -> "none"

Answer(r, code) ==
    /\ life' = [life EXCEPT ![r] = "done"]
    /\ acks' = [acks EXCEPT ![r] = Append(@, code)]

-----------------------------------------------------------------------------
RequestsInit ==
    /\ life = [r \in Requests |-> "absent"]
    /\ frame = [r \in Requests |-> NoFrame]
    /\ service = [r \in Requests |-> "none"]
    /\ deed = [r \in Requests |-> "nothing"]
    /\ reply = [r \in Requests |-> FALSE]
    /\ acks = [r \in Requests |-> <<>>]

(* A frame arrives and gets a task of its own.                             *)
ReceiveFrame(r, f) ==
    /\ life[r] = "absent"
    /\ life' = [life EXCEPT ![r] = "received"]
    /\ frame' = [frame EXCEPT ![r] = f]
    /\ UNCHANGED <<service, deed, reply, acks>>

(* _handle, the ProtocolError path.                                        *)
RejectFrame(r) ==
    /\ life[r] = "received"
    /\ ProtocolError(frame[r]) # "none"
    /\ Answer(r, ProtocolError(frame[r]))
    /\ UNCHANGED <<frame, service, deed, reply>>

(* _handle: the lease does not let this client do it.                      *)
DenyFrame(r) ==
    /\ life[r] = "received" /\ ProtocolError(frame[r]) = "none"
    /\ frame[r].op \in Controlled
    /\ Answer(r, "LOCKED")
    /\ UNCHANGED <<frame, service, deed, reply>>

(* dispatch of set_manual_cmd and of a sensor view: nothing is awaited.    *)
DispatchDirect(r) ==
    /\ life[r] = "received" /\ ProtocolError(frame[r]) = "none"
    /\ frame[r].op \in Direct
    /\ deed' = [deed EXCEPT ![r] = "done"]
    /\ Answer(r, "ok")
    /\ UNCHANGED <<frame, service, reply>>

(* dispatch of a route or waypoint file operation: the repository does it, *)
(* refuses it (RouteError), or the disk fails before anything is replaced. *)
DispatchStored(r, outcome) ==
    /\ life[r] = "received" /\ ProtocolError(frame[r]) = "none"
    /\ frame[r].op \in Stored
    /\ IF BuildError(frame[r]) # "none"
       THEN Answer(r, BuildError(frame[r])) /\ UNCHANGED deed
       ELSE /\ outcome = "ROUTE_ERROR" => frame[r].op = "route_store"
            /\ Answer(r, outcome)
            /\ deed' = [deed EXCEPT ![r] = IF outcome = "ok" THEN "done" ELSE @]
    /\ UNCHANGED <<frame, service, reply>>

(* dispatch of everything else: the request is built, then its service is  *)
(* looked for.                                                             *)
DispatchService(r) ==
    /\ life[r] = "received" /\ ProtocolError(frame[r]) = "none"
    /\ frame[r].op \in Served
    /\ IF BuildError(frame[r]) # "none"
       THEN Answer(r, BuildError(frame[r]))
       ELSE life' = [life EXCEPT ![r] = "discover"] /\ UNCHANGED acks
    /\ UNCHANGED <<frame, service, deed, reply>>

(* _call: the service is there.                                            *)
CallService(r) ==
    /\ life[r] = "discover"
    /\ life' = [life EXCEPT ![r] = "call"]
    /\ service' = [service EXCEPT ![r] = "sent"]
    /\ UNCHANGED <<frame, deed, reply, acks>>

(* initial_state turns the failure of a section into a part of its answer. *)
Failure(r, code) == IF frame[r].op = "get_state" THEN "ok" ELSE code

(* Broken variant: the request is sent before the service is looked for.   *)
ServiceUnavailableAfterSending(r) ==
    /\ life[r] = "discover"
    /\ service' = [service EXCEPT ![r] = "sent"]
    /\ Answer(r, Failure(r, "SERVICE_UNAVAILABLE"))
    /\ UNCHANGED <<frame, deed, reply>>

(* _call: the discovery deadline passes.                                   *)
ServiceUnavailable(r) ==
    /\ life[r] = "discover"
    /\ Answer(r, Failure(r, "SERVICE_UNAVAILABLE"))
    /\ UNCHANGED <<frame, service, deed, reply>>

(* The server behind the service works (external): also on a request whose *)
(* caller no longer waits, which future.cancel does not recall.            *)
ServeRequest(r, outcome) ==
    /\ service[r] # "none" /\ ~reply[r]
    /\ deed' = [deed EXCEPT ![r] = outcome]
    /\ reply' = [reply EXCEPT ![r] = TRUE]
    /\ UNCHANGED <<life, frame, service, acks>>

(* Broken variant: a response counts as success whatever it says.          *)
ServiceAnsweredOk(r) ==
    /\ life[r] = "call" /\ service[r] = "sent" /\ reply[r]
    /\ IF frame[r].op = "camera"
       THEN life' = [life EXCEPT ![r] = "refresh"] /\ UNCHANGED acks
       ELSE Answer(r, "ok")
    /\ UNCHANGED <<frame, service, deed, reply>>

(* _dispatch_service, _snapshot, _camera: the response decides; a camera   *)
(* operation that worked is followed by a read of its state.               *)
ServiceAnswered(r) ==
    /\ life[r] = "call" /\ service[r] = "sent" /\ reply[r]
    /\ IF deed[r] = "refused" THEN Answer(r, Failure(r, "failed"))
       ELSE IF frame[r].op = "camera"
       THEN life' = [life EXCEPT ![r] = "refresh"] /\ UNCHANGED acks
       ELSE Answer(r, "ok")
    /\ UNCHANGED <<frame, service, deed, reply>>

(* Broken variant: nobody gives up on a service.                           *)
ServiceTimesOutNever(r) == FALSE /\ UNCHANGED requestVars

(* _call: the response budget is over.                                     *)
ServiceTimesOut(r) ==
    /\ life[r] = "call"
    /\ service' = [service EXCEPT ![r] = "cancelled"]
    /\ Answer(r, Failure(r, "SERVICE_TIMEOUT"))
    /\ UNCHANGED <<frame, deed, reply>>

(* _camera: the refreshed state, or what prevented it.                     *)
CameraRefreshed(r, code) ==
    /\ life[r] = "refresh"
    /\ Answer(r, code)
    /\ UNCHANGED <<frame, service, deed, reply>>

RequestsNext == \E r \in Requests :
    \/ \E f \in Frame : ReceiveFrame(r, f)
    \/ RejectFrame(r) \/ DenyFrame(r) \/ DispatchDirect(r)
    \/ \E o \in {"ok", "ROUTE_ERROR", "STORAGE_FAILURE"} : DispatchStored(r, o)
    \/ DispatchService(r) \/ CallService(r) \/ ServiceUnavailable(r)
    \/ \E o \in {"done", "refused"} : ServeRequest(r, o)
    \/ ServiceAnswered(r) \/ ServiceTimesOut(r)
    \/ \E c \in {"ok", "refresh_failed", "SERVICE_UNAVAILABLE", "SERVICE_TIMEOUT"} :
           CameraRefreshed(r, c)

(* The loop runs every task, and both waits of _call have a deadline.      *)
RequestsFairness == \A r \in Requests :
    /\ WF_requestVars(RejectFrame(r) \/ DispatchDirect(r) \/ DispatchService(r)
                      \/ \E o \in {"ok", "ROUTE_ERROR", "STORAGE_FAILURE"} :
                             DispatchStored(r, o))
    /\ WF_requestVars(CallService(r) \/ ServiceUnavailable(r))
    /\ WF_requestVars(ServiceTimesOut(r))
    /\ WF_requestVars(CameraRefreshed(r, "SERVICE_TIMEOUT"))

RequestsSpec == RequestsInit /\ [][RequestsNext]_requestVars /\ RequestsFairness

-----------------------------------------------------------------------------
(* The codes after which the operator may repeat the request: they are     *)
(* produced before anything was asked of the robot or replaced on disk.    *)
Harmless == Codes \ {"ok", "failed", "SERVICE_TIMEOUT", "refresh_failed",
                     "SERVICE_UNAVAILABLE"}

(* An acknowledgement tells the truth and keeps telling it: ok means that  *)
(* the operation was done, and after a refusal of the gateway it is not    *)
(* done later either.  SERVICE_UNAVAILABLE is a refusal except for a       *)
(* camera, whose second call may fail after the first one moved it.        *)
AnswerTellsTheTruth == \A r \in Requests : \A code \in {acks[r][i] : i \in 1..Len(acks[r])} :
    /\ code = "ok" /\ frame[r].op # "get_state" => deed[r] = "done"
    /\ code = "failed" => deed[r] = "refused"
    /\ code \in Harmless => deed[r] = "nothing"
    /\ code = "SERVICE_UNAVAILABLE" /\ frame[r].op # "camera" => deed[r] = "nothing"

(* Every request that was received is acknowledged, once.                  *)
EveryRequestAnswered ==
    /\ \A r \in Requests : life[r] = "received" ~> life[r] = "done"
    /\ [](\A r \in Requests : Len(acks[r]) = IF life[r] = "done" THEN 1 ELSE 0)
=============================================================================
