-------------------------------- MODULE Wire --------------------------------
(***************************************************************************)
(* The typed channels of protocol v11: which bodies each channel and       *)
(* direction decodes (the enums of src/shared/control/src/service.rs), the *)
(* bounds every decoder checks, and the framing both ends share            *)
(* (src/shared/control/src/lib.rs).                                        *)
(*                                                                         *)
(* A body is a record: its "type" and the fields present on the wire, an   *)
(* optional field that is absent being absent from the record.  A text is  *)
(* its length: 0 is a blank one and Unclean one with a NUL or a CR in it.  *)
(* A JSON value is its encoded length.  An identifier is well formed when  *)
(* it is in Ids.                                                           *)
(***************************************************************************)
EXTENDS Integers, Sequences, SequencesExt

CONSTANTS
    Ids,        \* the well-formed identifiers
    Limit       \* the MAX_* constants, by name

Unclean == -1

\* Names no surface may register: answers nobody asked for and a terminal's
\* turns are recorded under them.
UNPROMPTED_SURFACE == "unprompted"
TERMINAL_SURFACE == "terminal"

SERVICE_VERSION == 11

-----------------------------------------------------------------------------
(* The shapes serde decodes: fields that must be there, fields that may be. *)

Shape(must, may) == [must |-> must, may |-> may]

SurfaceRequestBody ==
    [hello            |-> Shape({"surface"}, {}),
     message          |-> Shape({"id", "text"}, {"attachments"}),
     abort            |-> Shape({"id"}, {}),
     job_command      |-> Shape({"id", "action"}, {}),
     briefing_dismiss |-> Shape({"id"}, {}),
     offer_take       |-> Shape({"id"}, {})]

SurfaceResponseBody ==
    [message     |-> Shape({"role", "surface", "text"},
                           {"details", "widgets", "attachments", "receipts"}),
     message_ack |-> Shape({"id"}, {}),
     aborted     |-> Shape({"id"}, {}),
     state       |-> Shape({"state", "detail"}, {"holder"}),
     jobs        |-> Shape({"jobs"}, {}),
     briefings   |-> Shape({"briefings"}, {}),
     offer_taken |-> Shape({"id"}, {}),
     ready       |-> Shape({"surface"}, {}),
     rejected    |-> Shape({"operation", "code", "detail"}, {"id"})]

AgentRequestBody ==
    [hello             |-> Shape({}, {"lease", "session"}),
     session           |-> Shape({"id", "file", "cwd"}, {"parent"}),
     turn              |-> Shape({"id", "text"}, {"images"}),
     activity          |-> Shape({"working"}, {}),
     proactive_started |-> Shape({"proactive_id"}, {}),
     proactive_settled |-> Shape({"proactive_id"}, {}),
     response          |-> Shape({"text"}, {"proactive_id", "turn_id", "details", "widgets",
                                            "attachments", "receipts"}),
     jobs              |-> Shape({"jobs"}, {})]

AgentResponseBody ==
    [ready       |-> Shape({}, {}),
     message     |-> Shape({"id", "text", "widgets"}, {"attachments"}),
     wake        |-> Shape({"custom_type", "text"}, {"proactive_id", "details"}),
     abort       |-> Shape({"id"}, {}),
     job_command |-> Shape({"id", "action"}, {}),
     offer_take  |-> Shape({"id"}, {}),
     turn_ack    |-> Shape({"id", "sequence"}, {}),
     handoff     |-> Shape({"generation", "next"}, {}),
     catch_up    |-> Shape({"since", "entries"}, {}),
     rejected    |-> Shape({"code", "detail"}, {"id"})]

ControlRequestBody ==
    [hello         |-> Shape({}, {}),
     state         |-> Shape({"id"}, {}),
     wake          |-> Shape({"id", "custom_type", "text"}, {"details"}),
     briefing      |-> Shape({"id", "briefing"}, {"wake"}),
     lease_acquire |-> Shape({"id", "holder"}, {"abort_working"}),
     lease_ping    |-> Shape({"id"}, {}),
     lease_release |-> Shape({"id"}, {}),
     conversation  |-> Shape({"id", "since"}, {})]

ControlResponseBody ==
    [ready                |-> Shape({}, {}),
     state                |-> Shape({"id", "state", "detail", "session_dir"},
                                    {"holder", "generation", "lineage_file"}),
     wake_ack             |-> Shape({"id"}, {}),
     briefing_ack         |-> Shape({"id"}, {}),
     lease                |-> Shape({"id", "generation", "session_dir", "sequence", "owner"},
                                    {"lineage_file"}),
     lease_pong           |-> Shape({"id", "generation"}, {}),
     lease_released       |-> Shape({"id"}, {}),
     conversation_entries |-> Shape({"id", "entries"}, {"more"}),
     rejected             |-> Shape({"id", "code", "detail"}, {})]

\* deny_unknown_fields: nothing missing and nothing the shape does not name.
Decodes(enum, body) ==
    /\ body.type \in DOMAIN enum
    /\ enum[body.type].must \subseteq DOMAIN body
    /\ DOMAIN body \ {"type"} \subseteq enum[body.type].must \cup enum[body.type].may

-----------------------------------------------------------------------------
(* The bounds every field is checked against. *)

\* A field that is absent is a field nothing is asked of.
Held(body, field, Valid(_)) == field \in DOMAIN body => Valid(body[field])
Field(body, field, default) == IF field \in DOMAIN body THEN body[field] ELSE default

Text(value, max, allow_empty) == value \in (IF allow_empty THEN 0 ELSE 1) .. max
Id(value) == value \in Ids
Path(value) == Text(value.size, Limit.path, FALSE) /\ value.absolute

Distinct(items, Key(_)) ==
    \A i, j \in DOMAIN items : Key(items[i]) = Key(items[j]) => i = j

ValidAgentSession(session) ==
    /\ Id(session.id)
    /\ Path(session.file)
    /\ Path(session.cwd)
    /\ Held(session, "parent", Path)

ConversationEntries(entries) ==
    /\ Len(entries) <= Limit.page
    /\ \A i \in DOMAIN entries : /\ Id(entries[i].surface)
                                 /\ Text(entries[i].text, Limit.text, FALSE)

Widgets(definitions) ==
    /\ Len(definitions) <= Limit.widgets
    /\ \A i \in DOMAIN definitions :
         /\ Id(definitions[i].name)
         /\ Text(definitions[i].description, Limit.widget_description, TRUE)
         /\ definitions[i].input_schema \in 0 .. Limit.widget_schema

ValidAttachmentDescriptor(file) ==
    /\ Id(file.id)
    /\ Text(file.name, Limit.attachment_name, FALSE)
    /\ file.plain                       \* the name holds no path and no control character
    /\ file.media_type                  \* one "major/minor" of token characters
    /\ file.size \in 1 .. Limit.attachment

Descriptors(files) ==
    /\ Len(files) <= Limit.attachments
    /\ \A i \in DOMAIN files : ValidAttachmentDescriptor(files[i])
    /\ Distinct(files, LAMBDA file : file.id)

AttachmentIds(ids) ==
    /\ Len(ids) <= Limit.attachments
    /\ \A i \in DOMAIN ids : Id(ids[i])
    /\ Distinct(ids, LAMBDA one : one)

Calls(widgets) ==
    /\ Len(widgets) <= Limit.widgets
    /\ \A i \in DOMAIN widgets : /\ Id(widgets[i].id)
                                 /\ Id(widgets[i].name)
                                 /\ widgets[i].arguments <= Limit.widget_arguments

\* What the control socket accepts is exactly what the agent is handed.
Wake(body) ==
    /\ Id(body.custom_type)
    /\ Text(body.text, Limit.text, FALSE)
    /\ Held(body, "details", LAMBDA details : details \in 0 .. Limit.details)

\* One group per job, and an offer's identifier names one offer in the whole
\* message.
Citations(groups) ==
    /\ Len(groups) <= Limit.citations
    /\ Distinct(groups, LAMBDA group : group.job_id)
    /\ \A i \in DOMAIN groups :
         /\ Id(groups[i].job_id)
         /\ Len(groups[i].badges) <= Limit.receipts
         /\ Len(groups[i].offers) <= Limit.offers
         /\ \A badge \in ToSet(groups[i].badges) : /\ Text(badge.label, Limit.badge, FALSE)
                                                   /\ Text(badge.value, Limit.badge, FALSE)
         /\ \A offer \in ToSet(groups[i].offers) : /\ Id(offer.id)
                                                   /\ Text(offer.label, Limit.badge, FALSE)
    /\ \A i, j \in DOMAIN groups :
         \A m \in DOMAIN groups[i].offers, n \in DOMAIN groups[j].offers :
           groups[i].offers[m].id = groups[j].offers[n].id => i = j /\ m = n

JobRows(rows) ==
    /\ Len(rows) <= Limit.job_rows
    /\ Distinct(rows, LAMBDA row : row.id)
    /\ \A i \in DOMAIN rows :
         /\ Id(rows[i].id)
         /\ Held(rows[i], "project", LAMBDA project : Text(project, Limit.identifier, FALSE))
         /\ Text(rows[i].summary, Limit.job_summary, TRUE)

ValidBriefingRow(row) ==
    /\ Id(row.id)
    /\ row.dated                        \* the date reads as YYYY-MM-DD
    /\ Id(row.profile)
    /\ row.failed <= row.completed
    /\ row.completed <= row.total
    /\ Text(row.summary, Limit.briefing_summary, TRUE)

BriefingRows(rows) ==
    /\ Len(rows) <= Limit.briefing_rows
    /\ \A i \in DOMAIN rows : ValidBriefingRow(rows[i])
    /\ Distinct(rows, LAMBDA row : row.id)

ValidBriefingWake(wake) == Id(wake.event_id) /\ Wake(wake)

ValidRegistration(surface) ==
    /\ Id(surface.id)
    /\ surface.id \notin {UNPROMPTED_SURFACE, TERMINAL_SURFACE}
    /\ Text(surface.name, Limit.surface_name, FALSE)
    /\ Widgets(surface.widgets)

\* What a stored message must be is what a live one must be.
ValidConversationMessage(message) ==
    /\ Id(message.surface)
    /\ Text(message.text, Limit.text, FALSE)
    /\ Held(message, "details", LAMBDA details : Text(details, Limit.details, FALSE))
    /\ Held(message, "widgets", Calls)
    /\ Held(message, "attachments", Descriptors)
    /\ Held(message, "receipts", Citations)

Refusal(body) ==
    /\ Held(body, "id", Id)
    /\ Id(body.code)
    /\ Text(body.detail, Limit.detail, TRUE)

-----------------------------------------------------------------------------
(* One validator for each channel and direction. *)

ValidSurfaceRequest(body) ==
    CASE body.type = "hello"   -> ValidRegistration(body.surface)
      [] body.type = "message" -> /\ Id(body.id)
                                  /\ Text(body.text, Limit.text, FALSE)
                                  /\ Held(body, "attachments", AttachmentIds)
      [] OTHER                 -> Id(body.id)

ValidSurfaceResponse(body) ==
    CASE body.type = "message"   -> ValidConversationMessage(body)
      [] body.type = "state"     -> Text(body.detail, Limit.detail, TRUE)
      [] body.type = "jobs"      -> JobRows(body.jobs)
      [] body.type = "briefings" -> BriefingRows(body.briefings)
      [] body.type = "ready"     -> Id(body.surface)
      [] body.type = "rejected"  -> Refusal(body) /\ Id(body.operation)
      [] OTHER                   -> Id(body.id)

ValidAgentRequest(body) ==
    CASE body.type = "hello"    -> Held(body, "session", ValidAgentSession)
      [] body.type = "session"  -> ValidAgentSession(body)
      [] body.type = "turn"     -> /\ Id(body.id)
                                   /\ Text(body.text, Limit.text, FALSE)
                                   /\ Field(body, "images", 0) <= Limit.turn_images
      [] body.type = "activity" -> TRUE
      [] body.type = "jobs"     -> JobRows(body.jobs)
      [] body.type = "response" ->
           /\ Held(body, "proactive_id", Id)
           /\ Held(body, "turn_id", Id)
           /\ Text(body.text, Limit.text, FALSE)
           /\ Held(body, "details", LAMBDA details : Text(details, Limit.details, FALSE))
           /\ Held(body, "widgets", Calls)
           /\ Held(body, "attachments", AttachmentIds)
           /\ Held(body, "receipts", Citations)
      [] OTHER                  -> Id(body.proactive_id)

ValidAgentResponse(body) ==
    CASE body.type = "message"  -> /\ Id(body.id)
                                   /\ Text(body.text, Limit.text, FALSE)
                                   /\ Widgets(body.widgets)
                                   /\ Held(body, "attachments", Descriptors)
      [] body.type = "wake"     -> Held(body, "proactive_id", Id) /\ Wake(body)
      [] body.type = "catch_up" -> ConversationEntries(body.entries)
      [] body.type = "rejected" -> Refusal(body)
      [] body.type \in {"ready", "handoff"} -> TRUE
      [] OTHER                  -> Id(body.id)

ValidControlRequest(body) ==
    CASE body.type = "hello"         -> TRUE
      [] body.type = "wake"          -> Id(body.id) /\ Wake(body)
      [] body.type = "briefing"      -> /\ Id(body.id)
                                        /\ ValidBriefingRow(body.briefing)
                                        /\ Held(body, "wake", ValidBriefingWake)
      [] body.type = "lease_acquire" -> /\ Id(body.id)
                                        /\ Held(body.holder, "session_file", Path)
                                        /\ Path(body.holder.cwd)
      [] OTHER                       -> Id(body.id)

ValidControlResponse(body) ==
    CASE body.type = "ready"    -> TRUE
      [] body.type = "state"    -> /\ Id(body.id)
                                   /\ Path(body.session_dir)
                                   /\ Held(body, "lineage_file", Path)
                                   /\ Text(body.detail, Limit.detail, TRUE)
      [] body.type = "lease"    -> /\ Id(body.id)
                                   /\ Path(body.session_dir)
                                   /\ Held(body, "lineage_file", Path)
                                   /\ Id(body.owner)
      [] body.type = "conversation_entries" -> Id(body.id) /\ ConversationEntries(body.entries)
      [] body.type = "rejected" -> Refusal(body)
      [] OTHER                  -> Id(body.id)

-----------------------------------------------------------------------------
(* The frame: one bounded line that ends with exactly one LF. *)

SumOf(items, Part(_)) ==
    LET sum[n \in 0 .. Len(items)] ==
          IF n = 0 THEN 0 ELSE sum[n - 1] + (IF Part(items[n]) > 0 THEN Part(items[n]) ELSE 0)
    IN  sum[Len(items)]

DefinitionsSize(widgets) == SumOf(widgets, LAMBDA one : one.description + one.input_schema)

\* The bytes of a body that can add up: identifiers, labels and summaries are
\* small enough that a frame of nothing else always fits.  Attachments cross as
\* identifiers towards the service and as descriptors from it, and widgets as
\* definitions towards the agent and as calls from it.
EncodedSize(body) ==
    LET described == body.type = "message" /\ DOMAIN body \cap {"role", "widgets"} # {}
        defined   == body.type = "message" /\ "id" \in DOMAIN body
        widgets   == Field(body, "widgets", <<>>)
    IN  Field(body, "text", 0) + Field(body, "details", 0) + Field(body, "detail", 0)
        + SumOf(Field(body, "entries", <<>>), LAMBDA entry : entry.text)
        + (IF defined THEN DefinitionsSize(widgets)
                      ELSE SumOf(widgets, LAMBDA call : call.arguments))
        + (IF body.type = "hello" /\ "surface" \in DOMAIN body
           THEN DefinitionsSize(body.surface.widgets) ELSE 0)
        + (IF described THEN Limit.descriptor * Len(Field(body, "attachments", <<>>)) ELSE 0)

\* write_message: a message no peer would read is not written.
Fits(body) == EncodedSize(body) <= Limit.message

Frame(body) == [v |-> SERVICE_VERSION, terminated |-> TRUE, body |-> body]

\* read_exact: the line, then the version, then the shape, then the bounds.
Reads(frame, enum, Valid(_)) ==
    /\ Fits(frame.body)
    /\ frame.terminated
    /\ frame.v = SERVICE_VERSION
    /\ Decodes(enum, frame.body)
    /\ Valid(frame.body)

ReadsSurfaceRequest(frame) == Reads(frame, SurfaceRequestBody, ValidSurfaceRequest)
ReadsSurfaceResponse(frame) == Reads(frame, SurfaceResponseBody, ValidSurfaceResponse)
ReadsAgentRequest(frame) == Reads(frame, AgentRequestBody, ValidAgentRequest)
ReadsAgentResponse(frame) == Reads(frame, AgentResponseBody, ValidAgentResponse)
ReadsControlRequest(frame) == Reads(frame, ControlRequestBody, ValidControlRequest)
ReadsControlResponse(frame) == Reads(frame, ControlResponseBody, ValidControlResponse)

-----------------------------------------------------------------------------
(* The extension's ends of the agent and control channels                  *)
(* (src/agent/extensions/scufris/service/protocol.ts and client.ts).       *)

Least(a, b) == IF a < b THEN a ELSE b

\* recordedText: words a terminal has already shown are cut, never refused.
RecordedText(text) == IF text = Unclean THEN 1 ELSE Least(text, Limit.text)
\* jobSummary: the same for one row's summary.
JobSummary(text) == IF text = Unclean THEN 1 ELSE Least(text, Limit.job_summary)

\* AgentClient.turn and AgentClient.jobs clamp, the others send what they have.
Clamped(body) ==
    CASE body.type = "turn" -> [body EXCEPT !.text = RecordedText(@)]
      [] body.type = "jobs" ->
           [body EXCEPT !.jobs = [i \in DOMAIN @ |-> [@[i] EXCEPT !.summary = JobSummary(@)]]]
      [] OTHER              -> body

EncodesWhatFits(body) == Fits(body)

\* encodeAgentRequest: the host's rules, and what breaks one is not written.
ExtensionEncodes(body) ==
    /\ Held(body, "lease", LAMBDA generation : generation >= 1)
    /\ ValidAgentRequest(body)
    /\ Fits(body)

ExtensionEntries(entries) ==
    /\ Len(entries) <= Limit.page
    /\ \A i \in DOMAIN entries : /\ Id(entries[i].surface)
                                 /\ Text(entries[i].text, Limit.text, TRUE)

\* decodeAgentResponse: fields it does not know are left alone, and a detail is
\* whatever text it is.
ExtensionDecodes(frame) ==
    LET body == frame.body IN
    /\ frame.v = SERVICE_VERSION
    /\ CASE body.type = "message"  -> /\ Len(body.widgets) <= Limit.widgets
                                      /\ \A i \in DOMAIN body.widgets : Id(body.widgets[i].name)
                                      /\ Held(body, "attachments", Descriptors)
                                      /\ Id(body.id)
                                      /\ Text(body.text, Limit.text, FALSE)
         [] body.type = "wake"     -> Held(body, "proactive_id", Id) /\ Wake(body)
         [] body.type = "catch_up" -> ExtensionEntries(body.entries)
         [] body.type = "rejected" -> Held(body, "id", Id) /\ Id(body.code)
         [] body.type = "handoff"  -> body.generation >= 1
         [] body.type = "ready"    -> TRUE
         [] OTHER                  -> Id(body.id)

\* decodeControlResponse, for the terminal that holds the lease.
TerminalDecodes(frame) ==
    LET body == frame.body IN
    /\ frame.v = SERVICE_VERSION
    /\ CASE body.type = "state"      -> /\ Id(body.id)
                                        /\ Path(body.session_dir)
                                        /\ Held(body, "lineage_file", Path)
         [] body.type = "lease"      -> /\ Id(body.id)
                                        /\ body.generation >= 1
                                        /\ Path(body.session_dir)
                                        /\ Held(body, "lineage_file", Path)
                                        /\ Id(body.owner)
         [] body.type = "lease_pong" -> Id(body.id) /\ body.generation >= 1
         [] body.type = "conversation_entries" -> Id(body.id) /\ ExtensionEntries(body.entries)
         [] body.type = "rejected"   -> Id(body.id) /\ Id(body.code)
         [] body.type = "ready"      -> TRUE
         [] body.type = "lease_released" -> Id(body.id)
         [] OTHER                    -> FALSE
=============================================================================
