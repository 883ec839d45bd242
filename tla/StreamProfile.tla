---------------------------- MODULE StreamProfile ----------------------------
(***************************************************************************)
(* The tool that applies a streaming profile to a camera:                  *)
(* camera_stream_profile.py and camera_stream_profile_tool.py.             *)
(*                                                                         *)
(* The tool reads the XML document of a stream, replaces the text of the   *)
(* managed elements in place, sends the document back and reads it again.  *)
(* A document is the sequence of its elements; the rate of a frame-rate    *)
(* element may be in frames or in hundredths of a frame.                   *)
(***************************************************************************)
EXTENDS Integers, Sequences, FiniteSets

CONSTANTS
    Documents,      \* the documents a camera may start with
    Rates, Bitrates,\* the values a profile may ask for
    MaxOthers,      \* bound: changes made by another client
    NoValue         \* a field the profile leaves out

Fields == {"fps", "rate_control", "bitrate_kbps", "audio_enabled"}

(* load_profile and normalize_profile_fields: at least one managed field.  *)
ProfileRequests ==
    {p \in [fps : Rates \union {NoValue}, rate_control : {"CBR", "VBR", NoValue},
            bitrate_kbps : Bitrates \union {NoValue}, audio_enabled : {"true", NoValue}] :
        \E f \in Fields : p[f] # NoValue}

VARIABLES
    doc,        \* the camera's document
    tool,       \* what the tool does next
    read,       \* the document the tool read
    desired,    \* the normalised profile
    capable,    \* the bitrates the camera declares; {}: it declares none
    nOthers

streamVars == <<doc, tool, read, desired, capable, nOthers>>

Stages == {"get", "validate", "put", "status", "rejected", "verify",
           "applied", "unchanged", "error"}

StreamTypeOK ==
    /\ Len(doc) = Len(read) /\ tool \in Stages
    /\ desired \in ProfileRequests
    /\ capable \subseteq Bitrates /\ nOthers \in 0..MaxOthers

-----------------------------------------------------------------------------
(* _first_descendant and _field_element: the first element with the name;  *)
(* the audio switch is the "enabled" element inside the audio section.     *)
FieldElements(d, tag) == {i \in DOMAIN d : d[i].tag = tag}
FirstOf(s) == CHOOSE i \in s : \A j \in s : i <= j

(* _bitrate_aliases: the element of a bitrate depends on the rate control. *)
BitrateTag(control) ==
    CASE control = "CBR" -> "constantBitRate"
      [] control = "VBR" -> "vbrUpperCap"
      [] OTHER -> "none"

FieldElement(d, field, control) ==
    CASE field = "fps" -> FieldElements(d, "maxFrameRate")
      [] field = "rate_control" -> FieldElements(d, "videoQualityControlType")
      [] field = "bitrate_kbps" -> FieldElements(d, BitrateTag(control))
      [] field = "audio_enabled" -> {i \in FieldElements(d, "enabled") : d[i].section = "audio"}

(* _parse_field and _encode_field for a frame rate: hundredths when the    *)
(* unit says so, or when there is no unit and the text is above 120.       *)
InHundredths(e) == e.unit = "centihz" \/ (e.unit = "" /\ e.text > 120)
ParseFps(e) == IF InHundredths(e) THEN e.text \div 100 ELSE e.text

(* Broken variant: the unit of the element is not asked for.               *)
EncodeFpsPlain(value, e) == value

EncodeFps(value, e) ==
    IF e.unit = "centihz" \/ (e.unit = "" /\ value \in 2..120 /\ e.text > 120)
    THEN value * 100 ELSE value

ParseField(field, e) == IF field = "fps" THEN ParseFps(e) ELSE e.text
EncodeField(field, value, e) == IF field = "fps" THEN EncodeFps(value, e) ELSE value

RateControl(d) ==
    LET s == FieldElements(d, "videoQualityControlType")
    IN  IF s = {} THEN "unavailable" ELSE d[FirstOf(s)].text

(* parse_stream_profile: a field without an element is not available.      *)
ProfileOf(d, field) ==
    LET s == FieldElement(d, field, RateControl(d))
    IN  IF s = {} THEN NoValue ELSE ParseField(field, d[FirstOf(s)])

Asked == {f \in Fields : desired[f] # NoValue}
EffectiveControl == IF "rate_control" \in Asked THEN desired["rate_control"] ELSE RateControl(read)

(* validate_capabilities and the refusals of apply_profile_xml.            *)
Applicable ==
    /\ "bitrate_kbps" \in Asked =>
          /\ EffectiveControl \in {"CBR", "VBR"}
          /\ capable # {} => desired["bitrate_kbps"] \in capable
    /\ \A f \in Asked : FieldElement(read, f, EffectiveControl) # {}

(* apply_profile_xml: the elements whose value differs.                    *)
Changes ==
    {f \in Asked : LET e == read[FirstOf(FieldElement(read, f, EffectiveControl))]
                   IN  ParseField(f, e) # desired[f]}

(* Broken variant: the first element of the name is taken.                 *)
OccurrenceOfTheFirst(d, i) == 1

(* _replace_xml_element_text: an element is known by its name and by how   *)
(* many elements of that name come before it.                              *)
Occurrence(d, i) == Cardinality({j \in 1..i : d[j].tag = d[i].tag})

(* The place in the text of the n-th element of a name.                    *)
Located(d, tag, n) ==
    CHOOSE i \in DOMAIN d : d[i].tag = tag /\ Cardinality({j \in 1..i : d[j].tag = tag}) = n

Replaced ==
    LET target(f) == FirstOf(FieldElement(read, f, EffectiveControl))
        place(f) == Located(read, read[target(f)].tag, Occurrence(read, target(f)))
    IN  [i \in DOMAIN read |->
            IF \E f \in Changes : place(f) = i
            THEN LET f == CHOOSE g \in Changes : place(g) = i
                 IN  [read[i] EXCEPT !.text = EncodeField(f, desired[f], read[target(f)])]
            ELSE read[i]]

-----------------------------------------------------------------------------
(* parse_capabilities: what the camera declares for a bitrate; a camera    *)
(* without the page (404) declares nothing.                                *)
DeclaredBitrates == SUBSET Bitrates

StreamInit ==
    /\ doc \in Documents /\ read = doc
    /\ tool = "get"
    /\ desired \in ProfileRequests
    /\ capable \in DeclaredBitrates
    /\ nOthers = 0

(* _apply: the stream is discovered and read; a request may fail.          *)
GetsDocument ==
    /\ tool = "get"
    /\ \/ tool' = "validate" /\ read' = doc
       \/ tool' = "error" /\ UNCHANGED read
    /\ UNCHANGED <<doc, desired, capable, nOthers>>

(* validate_capabilities, apply_profile_xml; --dry-run, or nothing to do.  *)
Validates ==
    /\ tool = "validate"
    /\ \/ ~Applicable /\ tool' = "error"
       \/ Applicable /\ tool' = "unchanged"
       \/ Applicable /\ Changes # {} /\ tool' = "put"
    /\ UNCHANGED <<doc, read, desired, capable, nOthers>>

(* The PUT: carried out, refused, or carried out without an answer.        *)
PutsDocument ==
    /\ tool = "put"
    /\ \/ tool' = "status" /\ doc' = Replaced
       \/ tool' = "rejected" /\ UNCHANGED doc
       \/ tool' = "error" /\ doc' \in {doc, Replaced}
    /\ UNCHANGED <<read, desired, capable, nOthers>>

(* parse_response_status and is_success: HTTP 200 may carry a refusal.     *)
ReadsStatus ==
    /\ tool \in {"status", "rejected"}
    /\ tool' = IF tool = "status" THEN "verify" ELSE "error"
    /\ UNCHANGED <<doc, read, desired, capable, nOthers>>

(* verify_profile on a second GET.                                         *)
Verifies ==
    /\ tool = "verify"
    /\ tool' = IF \A f \in Asked : ProfileOf(doc, f) = desired[f] THEN "applied" ELSE "error"
    /\ UNCHANGED <<doc, read, desired, capable, nOthers>>

(* External: another client changes the camera.                            *)
OtherClientWrites(i) ==
    /\ nOthers < MaxOthers /\ i \in DOMAIN doc /\ doc[i].tag = "enabled"
    /\ doc' = [doc EXCEPT ![i].text = IF @ = "true" THEN "false" ELSE "true"]
    /\ nOthers' = nOthers + 1
    /\ UNCHANGED <<tool, read, desired, capable>>

StreamNext ==
    \/ GetsDocument \/ Validates \/ PutsDocument \/ ReadsStatus \/ Verifies
    \/ \E i \in DOMAIN doc : OtherClientWrites(i)

StreamSpec == StreamInit /\ [][StreamNext]_streamVars

-----------------------------------------------------------------------------
(* "Mutate only managed fields": a document that is sent back differs from *)
(* the one that was read only in the elements of the fields asked for.     *)
OnlyManagedChange ==
    tool = "put" => \A i \in DOMAIN read : Replaced[i] # read[i] =>
        \E f \in Asked : i \in FieldElement(read, f, EffectiveControl)

(* A profile that the camera accepted and nobody else touched is found     *)
(* again: what is written is what is read back, whatever the unit.         *)
WrittenIsReadBack ==
    tool = "verify" /\ nOthers = 0 => \A f \in Asked : ProfileOf(doc, f) = desired[f]
=============================================================================
