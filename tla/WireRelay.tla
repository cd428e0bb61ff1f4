------------------------------ MODULE WireRelay ------------------------------
(***************************************************************************)
(* What crosses the service's three sockets, and what it costs whom        *)
(* (src/host/service/src/server.rs over the handlers of service.rs): one   *)
(* connection of each channel, its reader and writer threads, the outbox   *)
(* between the service and the writer, and what every handler passes from  *)
(* one peer on to the others.                                              *)
(*                                                                         *)
(* What the service decides is modelled in the modules of its parts; here  *)
(* a decision is either answer, and what matters is the message that       *)
(* carries it.                                                             *)
(***************************************************************************)
EXTENDS Wire, FiniteSets

CONSTANTS
    Requests,      \* the frames each peer's program may send, by channel
    StoredFiles,   \* descriptors of the attachments the store holds, by identifier
    Details,       \* what a lifecycle detail may be (texts)
    Restored,      \* the replays a snapshot may have brought back
    OUTBOX,        \* messages an outbox holds
    CONVERSATION_ENTRIES, \* messages the replay holds
    MaxFrames      \* frames sent, lifecycle reports and hang-ups, over all connections

Channels == {"surface", "agent", "control"}

ASSUME RelayAssumption ==
    /\ DOMAIN Requests = Channels
    /\ {OUTBOX, CONVERSATION_ENTRIES, MaxFrames} \subseteq Nat \ {0}

VARIABLES
    stage,     \* the reader thread: "away", "greeting", "open", "closing"
    writer,    \* the writer thread runs
    holder,    \* who holds the outbox's sending half: "nobody", "reader", "service"
    box,       \* the outbox
    peer,      \* the peer's end of the socket is open
    wire,      \* the service has not shut its end down
    line,      \* at most one frame on its way to the service
    cut,       \* why the service or the peer gave the connection up
    surface,   \* the registration of the surface that holds a name
    lease,     \* the agent connection names the lease, and one is held
    replay,    \* ConversationHistory, the messages
    jobs, briefings, life,    \* Inner::jobs, the rows shown, the lifecycle and its detail
    frames

threads == <<stage, writer, wire>>
sending == <<holder, box>>
service == <<surface, lease, replay, jobs, briefings, life>>
relayVars == <<threads, sending, peer, line, cut, service, frames>>

NoSurface == [id |-> "nobody", name |-> 1, widgets |-> <<>>]
Silent == [v |-> 0, terminated |-> FALSE, body |-> [type |-> "none"]]

-----------------------------------------------------------------------------
(* Sending.  try_send never waits: an outbox that is full, or whose writer  *)
(* is gone, costs the peer its place and not the service its time.          *)

\* The outbox of a connection somebody still holds.
Enqueue(held, letters) == SubSeq(held \o letters, 1, Least(OUTBOX, Len(held \o letters)))

\* broadcast, send_surface and send_agent, one after the other: each letter is
\* a channel and what is said on it.
PostAll(mail, letters) ==
    LET to(ch) == LET mine == SelectSeq(letters, LAMBDA letter : letter[1] = ch)
                  IN  [i \in DOMAIN mine |-> mine[i][2]]
        fits(ch) == writer[ch] /\ Len(mail.box[ch]) + Len(to(ch)) <= OUTBOX
    IN  [holder |-> [ch \in Channels |->
            IF mail.holder[ch] = "service" /\ to(ch) # <<>> /\ ~fits(ch) THEN "nobody"
            ELSE mail.holder[ch]],
         box |-> [ch \in Channels |->
            IF mail.holder[ch] = "service" /\ writer[ch] THEN Enqueue(mail.box[ch], to(ch))
            ELSE mail.box[ch]]]

Post(mail, ch, body) == PostAll(mail, << <<ch, body>> >>)

Mail == [holder |-> holder, box |-> box]
Deliver(mail) == holder' = mail.holder /\ box' = mail.box
Reaches(ch) == Post(Mail, ch, [type |-> "none"]).holder[ch] = "service"

Rejected(fields) == fields @@ [type |-> "rejected", code |-> "code", detail |-> 1]
RejectedSurface(id, operation) ==
    <<"surface", Rejected([id |-> id, operation |-> operation])>>
Told(body) == <<"surface", body>>

\* Inner::state: what failed first, then what is blocked, then the lifecycle.
Attention(rows, kind) == SelectSeq(rows, LAMBDA row : row.state = kind)
State(rows, lifecycle) ==
    IF Attention(rows, "failed") # <<>>
    THEN [state |-> "failed", detail |-> Head(Attention(rows, "failed")).summary]
    ELSE IF lifecycle.state # "failed" /\ Attention(rows, "blocked") # <<>>
    THEN [state |-> "blocked", detail |-> Head(Attention(rows, "blocked")).summary]
    ELSE lifecycle
StateBody(rows, lifecycle) == [type |-> "state"] @@ State(rows, lifecycle)

Remembered(message) ==
    LET whole == Append(replay, message) IN
    IF Len(whole) > CONVERSATION_ENTRIES THEN Tail(whole) ELSE whole

Entries ==
    LET page == SubSeq(replay, Len(replay) - Least(Limit.page, Len(replay)) + 1, Len(replay))
    IN [i \in DOMAIN page |->
          [sequence |-> i, role |-> page[i].role, surface |-> page[i].surface,
           text |-> page[i].text]]

Descriptions(ids) == [i \in DOMAIN ids |-> StoredFiles[ids[i]]]
Stored(ids) == ToSet(ids) \subseteq DOMAIN StoredFiles

\* An optional list that is empty is not written.
Message(role, name, text, rest) ==
    [type |-> "message", role |-> role, surface |-> name, text |-> text] @@ rest
Listed(field, items) == IF items = <<>> THEN <<>> ELSE field :> items

-----------------------------------------------------------------------------
(* surface_message, surface_abort, surface_job_command,                     *)
(* surface_briefing_dismiss and surface_offer_take.  The proactive slot, the *)
(* store's refusals and the offer's fate are either here.                   *)

SurfaceMessage(body) ==
    LET ids == Field(body, "attachments", <<>>)
        said == Message("user", surface.id, body.text, Listed("attachments", Descriptions(ids)))
        asked == [type |-> "message", id |-> body.id, text |-> body.text,
                  widgets |-> surface.widgets] @@ Listed("attachments", Descriptions(ids))
    IN  /\ \/ \* a reserved slot, or a file the store no longer has
              /\ Deliver(PostAll(Mail, <<RejectedSurface(body.id, "message")>>))
              /\ replay' = replay
           \/ /\ Stored(ids)
              /\ IF Reaches("agent")
                 THEN /\ replay' = Remembered(said)
                      /\ Deliver(PostAll(Mail, << <<"agent", asked>>, Told(said),
                                   Told([type |-> "message_ack", id |-> body.id])>>))
                 ELSE /\ replay' = replay
                      /\ Deliver(PostAll(Mail, << <<"agent", asked>>,
                                   RejectedSurface(body.id, "message")>>))
        /\ UNCHANGED <<surface, lease, jobs, briefings, life>>

\* Abort and job commands go to the agent, and back when there is none.
SurfaceCommand(body, operation, forwarded, done) ==
    /\ Deliver(PostAll(Mail, << <<"agent", forwarded>> >> \o
                 (IF Reaches("agent") THEN done ELSE <<RejectedSurface(body.id, operation)>>)))
    /\ UNCHANGED service

SurfaceAbort(body) ==
    SurfaceCommand(body, "abort", [type |-> "abort", id |-> body.id],
                   <<Told([type |-> "aborted", id |-> body.id])>>)

SurfaceJobCommand(body) == SurfaceCommand(body, "job", body, <<>>)

SurfaceBriefingDismiss(body) ==
    \/ /\ briefings' = SelectSeq(briefings, LAMBDA row : row.id # body.id)
       /\ Deliver(PostAll(Mail, <<Told([type |-> "briefings", briefings |-> briefings'])>>))
       /\ UNCHANGED <<surface, lease, replay, jobs, life>>
    \/ /\ Deliver(PostAll(Mail, <<RejectedSurface(body.id, "briefing")>>))
       /\ UNCHANGED service

SurfaceOfferTake(body) ==
    /\ \/ Deliver(PostAll(Mail, <<RejectedSurface(body.id, "offer")>>))
       \/ Deliver(PostAll(Mail,
            LET taken == Told([type |-> "offer_taken", id |-> body.id]) IN
            << taken, <<"agent", body>> >> \o
            (IF Reaches("agent") THEN <<>> ELSE <<RejectedSurface(body.id, "offer")>>)))
    /\ UNCHANGED service

SurfaceRequest(body) ==
    \/ body.type = "message"          /\ SurfaceMessage(body)
    \/ body.type = "abort"            /\ SurfaceAbort(body)
    \/ body.type = "job_command"      /\ SurfaceJobCommand(body)
    \/ body.type = "briefing_dismiss" /\ SurfaceBriefingDismiss(body)
    \/ body.type = "offer_take"       /\ SurfaceOfferTake(body)

-----------------------------------------------------------------------------
\* What a turn that carried images reads as: one line longer.
WithImages(body) == body.text + (IF Field(body, "images", 0) > 0 THEN 1 ELSE 0)

AgentTurn(body) ==
    IF lease = "fenced"
    THEN LET said == Message("user", TERMINAL_SURFACE, WithImages(body), <<>>) IN
         /\ replay' = Remembered(said)
         /\ Deliver(PostAll(Mail, <<Told(said),
              <<"agent", [type |-> "turn_ack", id |-> body.id, sequence |-> 1]>> >>))
    ELSE /\ replay' = replay
         /\ Deliver(PostAll(Mail, << <<"agent", Rejected([id |-> body.id])>> >>))

\* An answer shown to its owner, at the terminal or unprompted.  Widget calls
\* and files that cannot be shown are refused and cost nothing else.
AgentAnswer(body) ==
    LET ids == Field(body, "attachments", <<>>)
        refusal == << <<"agent", Rejected(IF "turn_id" \in DOMAIN body
                                          THEN [id |-> body.turn_id] ELSE <<>>)>> >>
        extras == (IF "details" \in DOMAIN body THEN [details |-> body.details] ELSE <<>>)
                  @@ Listed("receipts", Field(body, "receipts", <<>>))
                  @@ (IF Stored(ids) THEN Listed("attachments", Descriptions(ids)) ELSE <<>>)
        lost == IF Stored(ids) THEN <<>> ELSE refusal
    IN  \/ \* the surface that asked, its widgets drawn or refused
           /\ surface.id # "nobody"
           /\ \E drawn \in BOOLEAN :
                LET said == Message("assistant", surface.id, body.text, extras
                              @@ (IF drawn /\ "widgets" \in DOMAIN body
                                  THEN [widgets |-> body.widgets] ELSE <<>>))
                IN  /\ replay' = Remembered(said)
                    /\ Deliver(PostAll(Mail,
                         (IF drawn THEN <<>> ELSE refusal) \o lost \o <<Told(said)>>))
        \/ \E name \in {TERMINAL_SURFACE, UNPROMPTED_SURFACE} :
             LET said == Message("assistant", name, body.text, extras)
                 undrawn == IF name = TERMINAL_SURFACE /\ "widgets" \in DOMAIN body
                            THEN refusal ELSE <<>>
             IN  /\ replay' = Remembered(said)
                 /\ Deliver(PostAll(Mail, undrawn \o lost \o <<Told(said)>>))

AgentJobs(body) ==
    /\ jobs' = body.jobs
    /\ Deliver(PostAll(Mail, <<Told([type |-> "jobs", jobs |-> jobs']),
                               Told(StateBody(jobs', life))>>))

AgentActivity(body) ==
    IF life.state = "failed" THEN UNCHANGED <<sending, life>>
    ELSE /\ life' = [state |-> IF body.working THEN "working" ELSE "idle", detail |-> 0]
         /\ Deliver(Post(Mail, "surface", StateBody(jobs, life')))

\* A briefing's own lines are ProactiveDelivery's: one that names no active
\* event is logged, as a new session file is.
AgentRequest(body) ==
    \/ /\ body.type = "turn" /\ AgentTurn(body)
       /\ UNCHANGED <<surface, lease, jobs, briefings, life>>
    \/ /\ body.type = "response" /\ "proactive_id" \notin DOMAIN body /\ AgentAnswer(body)
       /\ UNCHANGED <<surface, lease, jobs, briefings, life>>
    \/ /\ body.type = "jobs" /\ AgentJobs(body)
       /\ UNCHANGED <<surface, lease, replay, briefings, life>>
    \/ /\ body.type = "activity" /\ AgentActivity(body)
       /\ UNCHANGED <<surface, lease, replay, jobs, briefings>>
    \/ /\ \/ body.type \in {"session", "proactive_started", "proactive_settled"}
          \/ body.type = "response" /\ "proactive_id" \in DOMAIN body
       /\ UNCHANGED <<service, sending>>

-----------------------------------------------------------------------------
(* The control channel: every request has one answer, on its own outbox.    *)

Reply(mail, body) ==
    [mail EXCEPT !.box["control"] = Enqueue(@, <<body>>)]
Dir == [size |-> 1, absolute |-> TRUE]
Starting == [state |-> "starting", detail |-> 1]
Leased(id) == [type |-> "lease", id |-> id, generation |-> 1, session_dir |-> Dir,
               lineage_file |-> Dir, sequence |-> 1, owner |-> "foreground"]

\* A handoff is said before the agent's place is taken: agent_left, whose
\* briefing went back to the inbox.
HandedOff(mail, next) ==
    IF mail.holder["agent"] # "service" THEN mail
    ELSE LET told == Post(mail, "agent", [type |-> "handoff", generation |-> 1, next |-> next])
         IN  Post([told EXCEPT !.holder["agent"] = "nobody"], "surface",
                  [type |-> "briefings", briefings |-> briefings])

\* Ending a lease takes the agent that was fenced by it along.
LeaseEnds(mail) ==
    Post(IF lease = "fenced" THEN HandedOff(mail, "managed") ELSE mail,
         "surface", StateBody(jobs, Starting))

ControlState(body) ==
    /\ Deliver(Reply(Mail, [id |-> body.id, session_dir |-> Dir, lineage_file |-> Dir]
                           @@ StateBody(jobs, life)))
    /\ UNCHANGED service

\* What reached the agent was what the control channel accepted.
ControlWake(body) ==
    /\ \/ \* a durable response is in progress
          Deliver(Reply(Mail, Rejected([id |-> body.id])))
       \/ LET wake == [type |-> "wake", custom_type |-> body.custom_type, text |-> body.text]
                      @@ (IF "details" \in DOMAIN body THEN [details |-> body.details] ELSE <<>>)
          IN  Deliver(Reply(Post(Mail, "agent", wake),
                            IF Reaches("agent") THEN [type |-> "wake_ack", id |-> body.id]
                            ELSE Rejected([id |-> body.id])))
    /\ UNCHANGED service

ControlBriefing(body) ==
    \/ /\ briefings' = Append(SelectSeq(briefings, LAMBDA row : row.id # body.briefing.id),
                             body.briefing)
       /\ Len(briefings') <= Limit.briefing_rows
       /\ Deliver(Reply(Post(Mail, "surface", [type |-> "briefings", briefings |-> briefings']),
                        [type |-> "briefing_ack", id |-> body.id]))
       /\ UNCHANGED <<surface, lease, replay, jobs, life>>
    \/ /\ Deliver(Reply(Mail, Rejected([id |-> body.id])))
       /\ UNCHANGED service

ControlLeaseAcquire(body) ==
    \/ /\ lease = "none"
       /\ lease' = "held"
       /\ life' = Starting
       /\ Deliver(Reply(Post(HandedOff(Mail, "terminal"), "surface",
                             StateBody(jobs, Starting)), Leased(body.id)))
       /\ UNCHANGED <<surface, replay, jobs, briefings>>
    \/ \* the agent is busy, or failed and its detail says why
       /\ lease = "none"
       /\ Deliver(Reply(Mail, [Rejected([id |-> body.id]) EXCEPT !.detail = life.detail]))
       /\ UNCHANGED service
    \/ /\ lease # "none"
       /\ Deliver(Reply(Mail, Leased(body.id)))
       /\ UNCHANGED service

ControlLeasePing(body) ==
    /\ Deliver(Reply(Mail, IF lease # "none"
                           THEN [type |-> "lease_pong", id |-> body.id, generation |-> 1]
                           ELSE Rejected([id |-> body.id])))
    /\ UNCHANGED service

ControlLeaseRelease(body) ==
    /\ IF lease = "none"
       THEN /\ Deliver(Reply(Mail, Rejected([id |-> body.id])))
            /\ UNCHANGED <<lease, life>>
       ELSE /\ Deliver(Reply(LeaseEnds(Mail), [type |-> "lease_released", id |-> body.id]))
            /\ lease' = "none"
            /\ life' = Starting
    /\ UNCHANGED <<surface, replay, jobs, briefings>>

ControlConversation(body) ==
    /\ Deliver(Reply(Mail, [type |-> "conversation_entries", id |-> body.id,
                            entries |-> Entries, more |-> FALSE]))
    /\ UNCHANGED service

ControlRequest(body) ==
    \/ /\ body.type = "hello"
       /\ Deliver(Reply(Mail, Rejected([id |-> "hello"])))
       /\ UNCHANGED service
    \/ body.type = "state"         /\ ControlState(body)
    \/ body.type = "wake"          /\ ControlWake(body)
    \/ body.type = "briefing"      /\ ControlBriefing(body)
    \/ body.type = "lease_acquire" /\ ControlLeaseAcquire(body)
    \/ body.type = "lease_ping"    /\ ControlLeasePing(body)
    \/ body.type = "lease_release" /\ ControlLeaseRelease(body)
    \/ body.type = "conversation"  /\ ControlConversation(body)

-----------------------------------------------------------------------------
(* The threads: surface(), agent(), control() and writer() of server.rs.    *)

Drop(field, ch, value) == [field EXCEPT ![ch] = value]

\* serve: a connection is accepted, and its reader and its writer start.
Connect(ch) ==
    /\ stage[ch] = "away"
    /\ frames < MaxFrames
    /\ stage' = Drop(stage, ch, "greeting")
    /\ writer' = Drop(writer, ch, TRUE)
    /\ wire' = Drop(wire, ch, TRUE)
    /\ peer' = Drop(peer, ch, TRUE)
    /\ holder' = Drop(holder, ch, "reader")
    /\ line' = Drop(line, ch, Silent)
    /\ UNCHANGED <<box, cut, service, frames>>

Readable(ch) ==
    CASE ch = "surface" -> ReadsSurfaceRequest(line[ch])
      [] ch = "agent"   -> ReadsAgentRequest(line[ch])
      [] OTHER          -> ReadsControlRequest(line[ch])

\* register_surface: the replay, the state and the rows, then ready.
Greeting ==
    replay \o <<StateBody(jobs, life), [type |-> "jobs", jobs |-> jobs],
                [type |-> "briefings", briefings |-> briefings],
                [type |-> "ready", surface |-> line["surface"].body.surface.id]>>

GreetSurface ==
    /\ surface' = line["surface"].body.surface
    /\ holder' = Drop(holder, "surface", "service")
    /\ box' = Drop(box, "surface", Enqueue(<<>>, Greeting))
    /\ stage' = Drop(stage, "surface", "open")
    /\ UNCHANGED <<lease, replay, jobs, briefings, life>>

\* admit_agent: fenced by the lease, and told what it missed or not.
GreetAgent ==
    LET named == "lease" \in DOMAIN line["agent"].body IN
    IF named = (lease # "none")
    THEN /\ holder' = Drop(holder, "agent", "service")
         /\ lease' = IF named THEN "fenced" ELSE lease
         /\ life' = IF named THEN [state |-> "idle", detail |-> 0] ELSE life
         /\ \E missed \in BOOLEAN :
              box' = [box EXCEPT
                !["agent"] = <<[type |-> "ready"]>> \o
                    (IF missed /\ Entries # <<>>
                     THEN <<[type |-> "catch_up", since |-> 0, entries |-> Entries]>>
                     ELSE <<>>),
                !["surface"] = IF named THEN Post(Mail, "surface", StateBody(jobs, life')).box["surface"]
                               ELSE @]
         /\ stage' = Drop(stage, "agent", "open")
         /\ UNCHANGED <<surface, replay, jobs, briefings>>
    ELSE /\ holder' = Drop(holder, "agent", "nobody")
         /\ box' = Drop(box, "agent", <<Rejected(<<>>)>>)
         /\ stage' = Drop(stage, "agent", "closing")
         /\ UNCHANGED service

GreetControl ==
    /\ box' = Drop(box, "control", Enqueue(<<>>, <<[type |-> "ready"]>>))
    /\ stage' = Drop(stage, "control", "open")
    /\ UNCHANGED <<holder, service>>

\* The first line is a hello.
Greet(ch) ==
    /\ stage[ch] = "greeting"
    /\ line[ch] # Silent /\ Readable(ch) /\ line[ch].body.type = "hello"
    /\ CASE ch = "surface" -> GreetSurface
         [] ch = "agent"   -> GreetAgent
         [] OTHER          -> GreetControl
    /\ line' = Drop(line, ch, Silent)
    /\ UNCHANGED <<writer, wire, peer, cut, frames>>

\* The reader's loop: a line read is a line handled, and one from a
\* connection that lost its place is heard by nobody.
Serve(ch) ==
    /\ stage[ch] = "open"
    /\ line[ch] # Silent /\ Readable(ch)
    /\ ch # "control" => line[ch].body.type # "hello"
    /\ IF ch = "control" THEN ControlRequest(line[ch].body)
       ELSE IF holder[ch] # "service" THEN UNCHANGED <<sending, service>>
       ELSE IF ch = "surface" THEN SurfaceRequest(line[ch].body)
       ELSE AgentRequest(line[ch].body)
    /\ line' = Drop(line, ch, Silent)
    /\ UNCHANGED <<threads, peer, cut, frames>>

KeepsOutbox(ch) ==
    /\ lease' = IF ch = "surface" THEN lease ELSE "none"
    /\ surface' = IF ch = "surface" THEN NoSurface ELSE surface
    /\ Deliver([Mail EXCEPT !.holder[ch] = IF ch = "control" THEN @ ELSE "nobody"])
    /\ UNCHANGED <<replay, jobs, briefings, life>>

KeepsPlace(ch) == UNCHANGED <<sending, service>>

\* unregister_surface, unregister_agent and control_disconnected, of a
\* connection that still has its place.
Left(ch) ==
    CASE ch = "surface" -> /\ surface' = NoSurface
                           /\ Deliver([Mail EXCEPT !.holder[ch] = "nobody"])
                           /\ UNCHANGED <<lease, replay, jobs, briefings, life>>
      [] ch = "agent"   -> /\ lease' = IF lease = "fenced" /\ holder[ch] = "service"
                                       THEN "held" ELSE lease
                           /\ Deliver([(IF holder[ch] = "service"
                                        THEN Post(Mail, "surface", [type |-> "briefings",
                                                                    briefings |-> briefings])
                                        ELSE Mail) EXCEPT !.holder[ch] = "nobody"])
                           /\ UNCHANGED <<surface, replay, jobs, briefings, life>>
      [] OTHER          -> /\ lease' = "none"
                           /\ life' = IF lease = "none" THEN life ELSE Starting
                           /\ Deliver([(IF lease = "none" THEN Mail ELSE LeaseEnds(Mail))
                                       EXCEPT !.holder[ch] = "nobody"])
                           /\ UNCHANGED <<surface, replay, jobs, briefings>>

\* What ends a reader: the peer is gone, or a line it does not accept.
Ended(ch) == line[ch] = Silent /\ ~(peer[ch] /\ wire[ch])
Misread(ch) ==
    /\ line[ch] # Silent
    /\ \/ ~Readable(ch)
       \/ (stage[ch] = "greeting") # (line[ch].body.type = "hello")
          /\ (ch = "control" => stage[ch] = "greeting")

\* Only a connection past its handshake is shut down by its reader.
Close(ch) ==
    /\ stage[ch] \in {"greeting", "open"}
    /\ Ended(ch) \/ Misread(ch)
    /\ IF stage[ch] = "open" THEN Left(ch) /\ wire' = Drop(wire, ch, FALSE)
       ELSE /\ holder' = Drop(holder, ch, "nobody")
            /\ UNCHANGED <<box, wire, service>>
    /\ stage' = Drop(stage, ch, "closing")
    /\ line' = Drop(line, ch, Silent)
    /\ cut' = IF Misread(ch) THEN Drop(cut, ch, "misread") ELSE cut
    /\ UNCHANGED <<writer, peer, frames>>

\* join: the reader waits for its writer.
JoinThreads(ch) ==
    /\ stage[ch] = "closing" /\ ~writer[ch]
    /\ stage' = Drop(stage, ch, "away")
    /\ peer' = Drop(peer, ch, FALSE)
    /\ cut' = Drop(cut, ch, "none")
    /\ UNCHANGED <<writer, wire, sending, line, service, frames>>

\* A peer that reads what it does not accept closes the connection.
Accepts(ch, body) ==
    CASE ch = "surface" -> ReadsSurfaceResponse(Frame(body))
      [] ch = "agent"   -> ExtensionDecodes(Frame(body))
      [] OTHER          -> /\ ReadsControlResponse(Frame(body))
                           /\ body.type \in {"wake_ack", "briefing_ack"}
                              \/ TerminalDecodes(Frame(body))

\* The writer: one message at a time, for as long as the peer reads.
Write(ch) ==
    /\ writer[ch] /\ box[ch] # <<>> /\ peer[ch] /\ wire[ch]
    /\ Fits(Head(box[ch]))
    /\ box' = Drop(box, ch, Tail(box[ch]))
    /\ IF Accepts(ch, Head(box[ch])) THEN UNCHANGED <<peer, cut>>
       ELSE peer' = Drop(peer, ch, FALSE) /\ cut' = Drop(cut, ch, "refused")
    /\ UNCHANGED <<threads, holder, line, service, frames>>

\* It ends when nobody holds the sending half any more, when the socket is
\* gone, and at a message that cannot be written; and takes the socket along.
WriterEnds(ch) ==
    /\ writer[ch]
    /\ \/ box[ch] = <<>> /\ holder[ch] = "nobody"
       \/ box[ch] # <<>> /\ (~Fits(Head(box[ch])) \/ ~(peer[ch] /\ wire[ch]))
    /\ cut' = IF box[ch] # <<>> /\ ~Fits(Head(box[ch])) THEN Drop(cut, ch, "oversized") ELSE cut
    /\ writer' = Drop(writer, ch, FALSE)
    /\ wire' = Drop(wire, ch, FALSE)
    /\ box' = Drop(box, ch, <<>>)
    /\ UNCHANGED <<stage, holder, peer, line, service, frames>>

-----------------------------------------------------------------------------
(* The peers.                                                               *)

\* The extension writes nothing its encoder refuses; the others are programs
\* of any make.
Send(ch) ==
    /\ peer[ch] /\ line[ch] = Silent /\ wire[ch] /\ frames < MaxFrames
    /\ \E frame \in Requests[ch] :
         LET sent == IF ch = "agent" THEN Frame(Clamped(frame.body)) ELSE frame IN
         /\ ch = "agent" => ExtensionEncodes(sent.body)
         /\ (stage[ch] = "greeting") = (frame.body.type = "hello") \/ ch = "surface"
         /\ line' = Drop(line, ch, sent)
    /\ frames' = frames + 1
    /\ UNCHANGED <<threads, sending, peer, cut, service>>

HangUp(ch) ==
    /\ peer[ch] /\ stage[ch] \in {"greeting", "open"} /\ frames < MaxFrames
    /\ peer' = Drop(peer, ch, FALSE)
    /\ frames' = frames + 1
    /\ UNCHANGED <<threads, sending, line, cut, service>>

\* apply, start_agent and agent_ended: the lifecycle as the child tells it.
Report ==
    /\ \E kind \in {"failed", "working", "idle"}, detail \in Details :
         /\ kind # "failed" => detail = 0
         /\ life' = [state |-> kind, detail |-> detail]
    /\ life' # life /\ frames < MaxFrames
    /\ frames' = frames + 1
    /\ Deliver(Post(Mail, "surface", StateBody(jobs, life')))
    /\ UNCHANGED <<threads, peer, line, cut, surface, lease, replay, jobs, briefings>>

Each(value) == [ch \in Channels |-> value]

RelayInit ==
    /\ stage = Each("away")
    /\ writer = Each(FALSE)
    /\ holder = Each("nobody")
    /\ box = Each(<<>>)
    /\ peer = Each(FALSE)
    /\ wire = Each(FALSE)
    /\ line = Each(Silent)
    /\ cut = Each("none")
    /\ surface = NoSurface
    /\ lease = "none"
    /\ replay \in Restored
    /\ jobs = <<>> /\ briefings = <<>>
    /\ life = [state |-> "idle", detail |-> 0]
    /\ frames = 0

RelayNext ==
    \/ \E ch \in Channels :
         \/ Connect(ch) \/ Greet(ch) \/ Serve(ch) \/ Close(ch) \/ JoinThreads(ch)
         \/ Write(ch) \/ WriterEnds(ch) \/ Send(ch) \/ HangUp(ch)
    \/ Report

\* The service's threads are scheduled; the peers owe it nothing.  One message
\* to a new socket, the refusal of an agent turned away, waits for no reader.
Threads(ch) ==
    \/ Close(ch) \/ WriterEnds(ch) \/ JoinThreads(ch)
    \/ stage[ch] = "closing" /\ Write(ch)

Fairness == \A ch \in Channels : WF_relayVars(Threads(ch))

RelaySpec == RelayInit /\ [][RelayNext]_relayVars /\ Fairness

-----------------------------------------------------------------------------
(* Properties.                                                              *)

RelayTypeOK ==
    /\ stage \in [Channels -> {"away", "greeting", "open", "closing"}]
    /\ {writer, peer, wire} \subseteq [Channels -> BOOLEAN]
    /\ holder \in [Channels -> {"nobody", "reader", "service"}]
    /\ \A ch \in Channels : Len(box[ch]) <= OUTBOX
    /\ cut \in [Channels -> {"none", "oversized", "refused", "misread"}]
    /\ lease \in {"none", "held", "fenced"}
    /\ Len(replay) <= CONVERSATION_ENTRIES
    /\ frames \in 0 .. MaxFrames

\* Nobody's connection is closed for what somebody else said: what the service
\* accepts on one channel it can write on the others and its readers there
\* accept, and the extension never writes a line the host breaks the
\* connection for (the comment over protocol.ts's bounded()).
NobodyElsesFault ==
    \A ch \in Channels : cut[ch] \in {"none", "misread"} /\ (ch = "agent" => cut[ch] = "none")

\* Everything recorded is something every surface accepts, so the replay can
\* be shown to whoever joins and the snapshot read back after a restart
\* (validate_conversation_message).
ReplayIsShowable == \A i \in DOMAIN replay : ValidConversationMessage(replay[i])

\* What one peer says reaches the others as something they accept, now and out
\* of the replay.
RelayIsSound == RelayTypeOK /\ NobodyElsesFault /\ ReplayIsShowable

\* A place at the service is held by a connection that is still read: one that
\* is over never keeps its name, the agent's seat or the lease.
PlacesAreHeld ==
    /\ \A ch \in {"surface", "agent"} : holder[ch] = "service" => stage[ch] = "open"
    /\ surface.id # "nobody" => stage["surface"] = "open"
    /\ lease # "none" => stage["control"] = "open"

\* A reader that is done does not wait for its writer for ever: whatever is in
\* the outbox and whether or not the peer reads, the connection's threads end.
ThreadsEnd == \A ch \in Channels : []<>(stage[ch] # "closing")
=============================================================================
