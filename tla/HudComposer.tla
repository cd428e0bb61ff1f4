------------------------------ MODULE HudComposer ------------------------------
(****************************************************************************)
(* The conversation window of one desktop (surfaces/desktop/src:            *)
(* conversation.rs, hud.rs, link.rs, main.rs), on the feed of               *)
(* ConversationFeed: its link joins under the name Desk, and what it shows  *)
(* is what that connection has read.                                        *)
(*                                                                          *)
(* Two threads meet here.  The link's reads the socket, tells the window    *)
(* what it read and joins again when the connection ends; the page's takes  *)
(* a line from the composer, finds the link ready and writes it.            *)
(****************************************************************************)
EXTENDS ConversationFeed

CONSTANTS
  Desk,      \* the surface this desktop registers as
  LinesKept, \* LINES
  Files,     \* managed files the person may add
  MaxTyped,  \* lines typed
  Hasty      \* the connection may end under a line being written

ASSUME HudAssumption ==
  /\ Desk \in Surfaces /\ LinesKept \in Nat \ {0} /\ MaxTyped \in Nat /\ Hasty \in BOOLEAN

VARIABLES
  link,      \* the link's thread: its connection, the replay left, ready, ending
  composer,  \* Conversation: sending, attachments, withdrawn, trouble
  typed,     \* Conversation::submissions
  writing,   \* the page's thread in Hud::typed: its line, and the files taken
  wire,      \* lines written to a connection and not read by the service
  answers,   \* what the service answered on the link's connection
  spoken     \* the last words handed to the speaker

window == <<link, composer, typed, writing, wire, answers, spoken>>
hudVars == <<vars, window>>

NoLine == 0
NoWriting == [id |-> NoLine, files |-> {}, checked |-> FALSE]
Ended == [conn |-> None, replay |-> 0, ready |-> FALSE, ending |-> FALSE]

\* Bound: the composer is used, and a connection ends on this side first,
\* where the desk is the only surface and its lines are the conversation.
Alone == (\A c \in Joins : sockets[c].name \in {Desk, Nobody}) /\ last <= typed
Untouched == typed = 0 /\ composer.files = {}

-----------------------------------------------------------------------------
Kept(lines) == IF Len(lines) > LinesKept THEN Tail(lines) ELSE lines

\* Conversation::said
Said(lines, line) == Kept(Append(lines, line))

\* Conversation::offer_taken
OfferTaken(lines, id) ==
  [i \in DOMAIN lines |-> IF lines[i].id = id THEN [lines[i] EXCEPT !.offer = "taken"]
                          ELSE lines[i]]

\* Hud::said and Hud::offer_taken
Told(lines, line) ==
  IF line.offer = "spent" THEN OfferTaken(lines, line.id) ELSE Said(lines, line)

\* Conversation::lines: each join forgets them and is told all of them.
Shows(c) == FoldLeft(Told, <<>>, sockets[c].read)

Settle(trouble) == [composer EXCEPT !.sending = NoLine, !.trouble = trouble]

\* Conversation::returned
Returned(id) ==
  IF composer.sending # id THEN composer
  ELSE [Settle("unavailable") EXCEPT !.files = composer.withdrawn, !.withdrawn = {}]

\* Conversation::accepted and Conversation::refused
Answered(answer) ==
  IF composer.sending # answer.id THEN composer
  ELSE [Settle(IF answer.taken THEN "none" ELSE "refused") EXCEPT !.withdrawn = {}]

\* Mutant: a connection that ends leaves the line waiting.
StillWaiting == composer

\* Conversation::dropped
GivenUp == IF composer.sending = NoLine THEN composer ELSE Settle("unavailable")

\* Conversation::ready
Ready == IF composer.sending = NoLine THEN [composer EXCEPT !.trouble = "none"] ELSE composer

-----------------------------------------------------------------------------
(* The link's thread.                                                       *)

\* serve, as far as its hello: the service registers the name and the window
\* starts over, told by the same thread as everything after it.
LinkConnects ==
  /\ link = Ended
  /\ Join(Desk)
  /\ link' = [Ended EXCEPT !.conn = joined', !.replay = Len(ring)]
  /\ composer' = [composer EXCEPT !.trouble = "loading"]
  /\ UNCHANGED <<typed, writing, wire, answers, spoken>>

Live == link.ready

\* serve: one line of the conversation, spoken if it is live
\* (local_presentation).
LinkReads ==
  /\ ~link.ending /\ link.conn # None /\ (link.replay > 0 \/ link.ready)
  /\ Takes(link.conn)
  /\ LET line == Head(sockets[link.conn].outbox)
     IN  /\ link' = IF link.replay > 0 THEN [link EXCEPT !.replay = @ - 1] ELSE link
         /\ spoken' = IF Live /\ line.offer # "spent" THEN line.id ELSE spoken
  /\ UNCHANGED <<composer, typed, writing, wire, answers>>

\* serve: surface.ready, behind the replay.
LinkReady ==
  /\ ~link.ending /\ link.conn # None /\ link.replay = 0 /\ ~link.ready
  /\ sockets[link.conn].open
  /\ link' = [link EXCEPT !.ready = TRUE]
  /\ composer' = Ready
  /\ UNCHANGED <<vars, typed, writing, wire, answers, spoken>>

\* serve: an answer to a line of the window, or a refusal of something else it
\* asked for (Conversation::request_failed).
LinkAnswers ==
  /\ ~link.ending /\ answers # <<>> /\ answers' = Tail(answers)
  /\ composer' = Answered(Head(answers))
  /\ UNCHANGED <<vars, link, typed, writing, wire, spoken>>

\* serve returns, its stream at an end or not making sense: nothing may be
\* written any more and what was not read never will be, and the window is told
\* (LinkEvent::Disconnected).  Where no line is being written the two are one
\* step.
LinkEnds ==
  /\ link.conn # None /\ ~link.ending /\ (sockets[link.conn].open => Alone)
  /\ answers' = <<>>
  /\ IF writing = NoWriting
     THEN link' = Ended /\ composer' = GivenUp
     ELSE link' = [link EXCEPT !.ready = FALSE, !.ending = TRUE] /\ UNCHANGED composer
  /\ UNCHANGED <<vars, typed, writing, wire, spoken>>

LinkDisconnected ==
  /\ link.ending /\ (Hasty \/ writing = NoWriting)
  /\ link' = Ended
  /\ composer' = GivenUp
  /\ UNCHANGED <<vars, typed, writing, wire, answers, spoken>>

-----------------------------------------------------------------------------
(* The page's thread.                                                       *)

\* Hud::attach_file and Hud::detach
ComposerChanges ==
  /\ Alone /\ writing = NoWriting
  /\ \E file \in Files :
       composer' = IF file \in composer.files
                   THEN [composer EXCEPT !.files = @ \ {file}]
                   ELSE [composer EXCEPT !.files = @ \cup {file}, !.trouble = "none"]
  /\ UNCHANGED <<vars, link, typed, writing, wire, answers, spoken>>

\* Conversation::typed: one line at a time, with the files chosen for it.
HudTyped ==
  /\ Alone /\ writing = NoWriting /\ composer.sending = NoLine
  /\ typed < MaxTyped /\ typed' = typed + 1
  /\ composer' = [sending |-> typed', files |-> {}, withdrawn |-> composer.files,
                  trouble |-> "none"]
  /\ writing' = [id |-> typed', files |-> composer.files, checked |-> FALSE]
  /\ UNCHANGED <<vars, link, wire, answers, spoken>>

Returns ==
  /\ writing' = NoWriting
  /\ composer' = Returned(writing.id)
  /\ UNCHANGED <<vars, link, typed, wire, answers, spoken>>

\* ServiceLink::submit_with_attachments: first the flag.
HudChecks ==
  /\ writing # NoWriting /\ ~writing.checked
  /\ IF link.ready
     THEN writing' = [writing EXCEPT !.checked = TRUE]
          /\ UNCHANGED <<vars, link, composer, typed, wire, answers, spoken>>
     ELSE Returns

\* Then the writer: whichever connection is behind it by now, if any.
HudWrites ==
  /\ writing.checked
  /\ IF link.conn # None /\ ~link.ending /\ sockets[link.conn].open
     THEN /\ writing' = NoWriting
          /\ wire' = wire \cup {[conn |-> link.conn, id |-> writing.id]}
          /\ UNCHANGED <<vars, link, composer, typed, answers, spoken>>
     ELSE Returns

-----------------------------------------------------------------------------
(* The service reads the line, as ConversationFeed records words.           *)

\* The answer to a line, queued for the connection it came by.
Answer(line, accepted) ==
  answers' = IF line.conn = link.conn /\ ~link.ending
             THEN Append(answers, [id |-> line.id, taken |-> accepted]) ELSE answers

\* surface_message: taken and told to every surface, or refused.  A connection
\* that no longer holds its name is not answered at all.  Each connection has a
\* reader of its own, which reads what was written first.
ServiceReads ==
  /\ \E line \in wire :
       /\ \A other \in wire : other.conn = line.conn => line.id <= other.id
       /\ wire' = wire \ {line}
       /\ IF ~Speaks(line.conn) THEN UNCHANGED <<vars, answers>>
          ELSE \/ Record("none") /\ Answer(line, TRUE)
               \/ Answer(line, FALSE) /\ UNCHANGED vars
  /\ UNCHANGED <<link, composer, typed, writing, spoken>>

\* A connection that ends takes what was not read with it.
Unread == wire' = {line \in wire : sockets'[line.conn].open}

\* The feed, without the desk's own joining and reading.
FeedSteps ==
  /\ \/ Untouched /\ \E s \in Surfaces \ {Desk} : Join(s)
     \/ \E c \in Joins : \/ Closes(c)
                         \/ sockets[c].name # Desk /\ Takes(c)
                         \/ Untouched /\ \E id \in 1..MaxSaid : TakesOffer(c, id)
     \/ Untouched /\ \E offer \in {"none", "open"} : Record(offer)
     \/ Restart
  /\ Unread
  /\ UNCHANGED <<link, composer, typed, writing, answers, spoken>>

HudInit ==
  /\ Init
  /\ link = Ended
  /\ composer = [sending |-> NoLine, files |-> {}, withdrawn |-> {}, trouble |-> "none"]
  /\ typed = 0 /\ writing = NoWriting /\ wire = {} /\ answers = <<>> /\ spoken = 0

HudNext ==
  \/ LinkConnects \/ LinkReads \/ LinkReady \/ LinkAnswers \/ LinkEnds \/ LinkDisconnected
  \/ ComposerChanges \/ HudTyped \/ HudChecks \/ HudWrites
  \/ ServiceReads \/ FeedSteps

HudSpec == HudInit /\ [][HudNext]_hudVars

-----------------------------------------------------------------------------
HudTypeOK ==
  /\ TypeOK
  /\ link.conn \in 0..MaxJoins /\ composer.sending \in 0..typed
  /\ composer.files \cup composer.withdrawn \subseteq Files
  /\ composer.trouble \in {"none", "loading", "unavailable", "refused"}
  /\ wire \subseteq [conn : Joins, id : 1..typed]
  /\ Len(answers) <= typed /\ spoken \in 0..MaxSaid

\* However often it was connected, a window that has read what it was sent
\* shows exactly the service's lines, and an offer as spent exactly where it
\* is (conversation.rs:205, "after the replay the two hold exactly the same
\* lines").
WindowIsTheRing ==
  LET c == link.conn
  IN  link.ready /\ registry[Desk] = c /\ sockets[c].outbox = <<>> =>
        Shows(c) = [i \in DOMAIN ring |-> [id |-> ring[i].id, offer |-> ring[i].offer]]

\* A line the window waits for is being written, or on its way, or answered,
\* or its connection is about to be given up: the composer never refuses every
\* later line for one nobody will answer (Conversation::dropped).
WaitsForSomething ==
  composer.sending # NoLine =>
    \/ writing.id = composer.sending
    \/ link.conn # None /\ ~Registered(link.conn)
    \/ link.ending
    \/ [conn |-> link.conn, id |-> composer.sending] \in wire
    \/ \E i \in DOMAIN answers : answers[i].id = composer.sending

\* A line that never left this process is in the composer again, files and
\* all, and the composer takes the next one (Conversation::returned).
UnsentComesBack ==
  [][writing # NoWriting /\ writing' = NoWriting /\ wire' = wire =>
       composer'.sending = NoLine /\ writing.files \subseteq composer'.files]_hudVars

\* No words are spoken twice, or after later ones: a replay is shown and never
\* spoken (local_presentation).
SpokenOnce == [][spoken' # spoken => spoken' > spoken]_hudVars

\* A line the service refused, or whose connection ended before the answer,
\* is still with the person (service.rs:955, "every surface keeps a refused
\* submission in its field").
RefusedIsKept ==
  [][composer.sending # NoLine /\ composer'.sending = NoLine /\ composer'.trouble = "refused" =>
       composer.withdrawn \subseteq composer'.files]_hudVars

\* Every screen shows the ring: what the surfaces and a new agent are told is
\* what it holds, and the conversation window shows what it was told.
ScreensShowTheRing == FeedIsWhole /\ WindowIsTheRing

\* The conversation window outgrows no bound and waits only for an answer that
\* can come.
WindowIsSound == HudTypeOK /\ WaitsForSomething
=============================================================================
