----------------------------- MODULE MCWireRelay -----------------------------
(* Small frames for WireRelay: seven units to a line, four to a text.       *)
EXTENDS WireRelay

MCLimit ==
    [message |-> 7, text |-> 4, details |-> 3, detail |-> 1, identifier |-> 1,
     surface_name |-> 1, widgets |-> 1, widget_description |-> 1, widget_schema |-> 2,
     widget_arguments |-> 2, attachments |-> 1, attachment_name |-> 1, attachment |-> 1,
     descriptor |-> 1, citations |-> 1, receipts |-> 1, offers |-> 1, badge |-> 1,
     job_rows |-> 2, job_summary |-> 1, briefing_rows |-> 2, briefing_summary |-> 1,
     page |-> 2, turn_images |-> 1, path |-> 1]

MCIds == {"a", "b", "f", "gone", "pill", "terminal", "unprompted", "code", "message", "abort",
          "job", "briefing", "offer", "hello", "foreground"}

File(id) == [id |-> id, name |-> 1, plain |-> TRUE, media_type |-> TRUE, size |-> 1]
MCFiles == [f |-> File("f")]

Chart(schema) == [name |-> "a", description |-> 1, input_schema |-> schema]
Pill(schema) == [type |-> "hello", surface |-> [id |-> "pill", name |-> 1,
                                                widgets |-> <<Chart(schema)>>]]
Row(id, kind, summary) == [id |-> id, state |-> kind, since |-> 0, summary |-> summary]
Brief(id) == [id |-> id, dated |-> TRUE, profile |-> "a", completed |-> 1, total |-> 1,
              failed |-> 0, summary |-> 1]
Cited == <<[job_id |-> "a", badges |-> <<[label |-> 1, value |-> 1]>>,
            offers |-> <<[id |-> "b", label |-> 1]>>]>>
Cwd == [size |-> 1, absolute |-> TRUE]

Say(bodies) == {Frame(body) : body \in bodies}

SurfaceFrames(text, schema) ==
    Say({Pill(schema),
         [type |-> "message", id |-> "a", text |-> text, attachments |-> <<"f">>],
         [type |-> "message", id |-> "a", text |-> Unclean],
         [type |-> "abort", id |-> "a"],
         [type |-> "job_command", id |-> "b", action |-> "cancel"],
         [type |-> "briefing_dismiss", id |-> "a"],
         [type |-> "offer_take", id |-> "b"]})

AgentFrames(turn, answer) ==
    Say({[type |-> "hello"],
         [type |-> "hello", lease |-> 1, session |-> [id |-> "a", file |-> Cwd, cwd |-> Cwd]],
         [type |-> "turn", id |-> "a", text |-> turn, images |-> 1],
         [type |-> "activity", working |-> TRUE],
         [type |-> "jobs", jobs |-> <<Row("a", "blocked", 2), Row("b", "failed", Unclean)>>],
         [type |-> "response", text |-> answer, details |-> 3, attachments |-> <<"f">>,
          receipts |-> Cited],
         [type |-> "response", text |-> 1, turn_id |-> "a", attachments |-> <<"gone">>,
          widgets |-> <<[id |-> "a", name |-> "a", arguments |-> 2]>>],
         [type |-> "response", text |-> 1, details |-> 4],
         [type |-> "proactive_settled", proactive_id |-> "a"]})

ControlFrames ==
    Say({[type |-> "hello"], [type |-> "state", id |-> "a"],
         [type |-> "wake", id |-> "a", custom_type |-> "b", text |-> 4, details |-> 3],
         [type |-> "briefing", id |-> "a", briefing |-> Brief("a")],
         [type |-> "lease_acquire", id |-> "a", holder |-> [cwd |-> Cwd]],
         [type |-> "lease_ping", id |-> "a"], [type |-> "lease_release", id |-> "a"],
         [type |-> "conversation", id |-> "a", since |-> 0]})

Kept(role, name, text) == [type |-> "message", role |-> role, surface |-> name, text |-> text]
\* What a restart brings back: a full replay.
RoomyReplays == {<<Kept("user", "pill", 3), Kept("assistant", "unprompted", 3)>>}
FullReplays == {<<Kept("user", "pill", 4), Kept("assistant", "unprompted", 4)>>}

\* Words that leave room for what the service adds to them.
Roomy == [surface |-> SurfaceFrames(3, 1), agent |-> AgentFrames(3, 3), control |-> ControlFrames]
\* Every word the decoders accept.
Full == [surface |-> SurfaceFrames(4, 2), agent |-> AgentFrames(4, 4), control |-> ControlFrames]
=============================================================================
