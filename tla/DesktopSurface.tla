--------------------------- MODULE DesktopSurface ---------------------------
(****************************************************************************)
(* The pill, its textbox, its keys and the microphone behind it             *)
(* (surfaces/desktop/src/app.rs, over the transitions of Companion).        *)
(*                                                                          *)
(* Every change of the companion is a decision with a version.  A thread    *)
(* that shows one either becomes the applier, or leaves the decision and    *)
(* its follower to the thread that is; the applier puts decisions on the    *)
(* windows until none is newer, then runs every follower with the last      *)
(* outcome.  Repair chains and the keyboard watch are timers beside it.     *)
(*                                                                          *)
(* Words, storage and delivery are DesktopTranscript's subject: there is    *)
(* one text here, saves succeed, and an answer comes whenever it likes.     *)
(****************************************************************************)
EXTENDS Companion, FiniteSets, WindowVerdicts

CONSTANTS
  Hasty,        \* keys, answers and the ticker may overtake a thread at the surfaces
  Workspace,    \* Surface::holding: widgets are up behind the pill
  MaxGestures,  \* keys pressed and answers given in a behaviour
  MaxReports,   \* presentations published without a gesture
  MaxTrouble,   \* window, render, capture and keyboard failures
  Repairs,      \* REPAIR_ATTEMPTS
  MaxDecisions  \* decisions after which no repair comes due

ASSUME BoundsAssumption ==
  /\ Hasty \in BOOLEAN /\ Workspace \in BOOLEAN
  /\ {MaxGestures, MaxReports, MaxTrouble, MaxDecisions} \subseteq Nat
  /\ Repairs \in Nat \ {0}

VARIABLES
  companion,   \* App::companion
  decisions,   \* App::decisions
  work,        \* threads with actions, a decision or followers still to see to
  surface,     \* App::surface: Ordered's Latest, and what its applier is at
  put,         \* the version last put on the windows
  screen,      \* App::screen
  drawn,       \* App::drawn_recording
  keys,        \* App::keys_stand
  repairing,   \* App::repairing
  chains,      \* repairs waiting for their delay
  watching,    \* App::watching
  looks,       \* looks waiting for their interval
  stopping,    \* looks between letting the watch go and looking again
  capture,     \* App::recording: the generation that holds the microphone
  generation,  \* App::capture_generation
  failed,      \* App::failed_capture
  opening,     \* captures inside Recorder::start
  hearing,     \* transcriptions running, by App::transcription
  hears,       \* App::transcription
  late,        \* events handed to the executor
  gestures, reports, trouble

showing == <<companion, decisions, work>>
windows == <<put, screen, drawn, keys>>
timers == <<repairing, chains, watching, looks, stopping>>
microphone == <<capture, generation, failed, opening, hearing, hears, late>>
bounds == <<gestures, reports, trouble>>
vars == <<companion, decisions, work, surface, put, screen, drawn, keys,
          repairing, chains, watching, looks, stopping, capture, generation, failed,
          opening, hearing, hears, late, gestures, reports, trouble>>

Text == CHOOSE t \in Texts : TRUE
OnScreen(posture) == posture # "off"
Textbox(posture) == posture = "editing"
Visible == screen \in {"seen", "ready"}
RecordingShown == drawn /\ Visible

Carry(actions) == [kind |-> "carry", actions |-> actions, left |-> 0, wanted |-> "off"]
Nothing == [kind |-> "nothing", actions |-> <<>>, left |-> 0, wanted |-> "off"]
Chain(left, wanted) == [kind |-> "repair", actions |-> <<>>, left |-> left, wanted |-> wanted]
NoDecision == [version |-> 0, posture |-> "off", recording |-> FALSE]

\* One thread: actions, then a decision to show with its follower, then the
\* followers an apply ended with.
Item(actions, decision, follower, followers, ok) ==
  [actions |-> actions, decision |-> decision, follower |-> follower,
   followers |-> followers, ok |-> ok]
Over(item) == item.actions = <<>> /\ item.decision = NoDecision /\ item.followers = <<>>

\* App::stamp
Stamp(c, version) == [version |-> version, posture |-> Posture(c),
                      recording |-> ShowsRecording(c)]

\* What App::handle leaves a thread to do once the companion has decided.
Handling(d, decision) ==
  IF Waits(decision.posture) THEN Item(<<>>, decision, Carry(d.actions), <<>>, TRUE)
                             ELSE Item(d.actions, decision, Nothing, <<>>, TRUE)

\* App::decide: the companion changes and the result is stamped under one lock.
\* rest are the threads the change leaves behind.
Decide(d, rest, item(_, _)) ==
  LET decision == Stamp(d.companion, decisions + 1)
  IN  /\ companion' = d.companion
      /\ decisions' = decisions + 1
      /\ work' = rest \cup {item(d, decision)}

HandleFrom(e, rest) == Decide(Apply(companion, e), rest, Handling)

-----------------------------------------------------------------------------
(* Events.                                                                  *)

Quiet == work = {} /\ ~surface.applying /\ opening = {}

Gesture(e) ==
  /\ gestures < MaxGestures /\ (Hasty \/ Quiet)
  /\ HandleFrom(e, work)
  /\ gestures' = gestures + 1
  /\ UNCHANGED <<surface, windows, timers, microphone, reports, trouble>>

Activate == Gesture(Plain("activate"))

\* App::escapes_to: in a phase holding something, Escape is a cancel while
\* there is a workspace to go back to.
Escape ==
  /\ keys \/ screen = "ready"
  /\ Gesture(Plain(IF Waits(Posture(companion)) /\ Workspace THEN "cancel" ELSE "escape"))

\* App::workspace
ToggleWorkspace ==
  Gesture(Plain(IF Posture(companion) = "off" THEN "reveal" ELSE "dismiss"))

Enter == screen = "ready" /\ Gesture(Event("enter", NoId, Text))

Stop == companion.working /\ Gesture(Plain("stop"))

Answered ==
  /\ companion.phase = "sent"
  /\ \E kind \in {"acknowledged", "submission_uncertain"} :
       Gesture(Event(kind, companion.id, Empty))

\* App::set_assistant with App::publish, and App::report: nothing waits for the
\* outcome.
Report ==
  /\ reports < MaxReports
  /\ \E c \in {[companion EXCEPT !.working = ~@], ReportTrouble(companion)} :
       Decide(Done(c, <<>>), work,
              LAMBDA d, decision : Item(<<>>, decision, Nothing, <<>>, TRUE))
  /\ reports' = reports + 1
  /\ UNCHANGED <<surface, windows, timers, microphone, gestures, trouble>>

\* An event the executor was handed.
Executed ==
  \E e \in late :
    /\ HandleFrom(Plain(e), work)
    /\ late' = late \ {e}
    /\ UNCHANGED <<surface, windows, timers, capture, generation, failed, opening,
                   hearing, hears, bounds>>

-----------------------------------------------------------------------------
(* Ordered::apply.                                                          *)

Ready(item) == item.actions = <<>> /\ item.decision # NoDecision

\* Mutant: a decision that finds one waiting leaves it there.
FirstWins(decision) == surface.next = NoDecision

Newest(decision) == decision.version >= surface.version

\* A thread brings its decision: it becomes the applier, leaves both decision
\* and follower to it, or finds a newer one applied and follows at once.
Bring ==
  \E item \in work :
    /\ Ready(item)
    /\ LET taken == IF Newest(item.decision)
                    THEN [surface EXCEPT !.version = item.decision.version,
                                         !.next = item.decision]
                    ELSE surface
       IN  IF surface.applying
           THEN /\ surface' = [taken EXCEPT !.waiting = Append(@, item.follower)]
                /\ work' = work \ {item}
           ELSE IF taken.next = NoDecision
           THEN /\ surface' = taken
                /\ work' = (work \ {item})
                             \cup {Item(<<>>, NoDecision, Nothing, <<item.follower>>, TRUE)}
           ELSE /\ surface' = [taken EXCEPT !.applying = TRUE, !.own = item.follower]
                /\ work' = work \ {item}
    /\ UNCHANGED <<companion, decisions, windows, timers, microphone, bounds>>

\* The applier takes the newest decision, or finds none and hands back the
\* surface together with every follower.
Take ==
  /\ surface.applying /\ surface.stage = "take"
  /\ IF surface.next # NoDecision
     THEN /\ surface' = [surface EXCEPT !.current = surface.next, !.next = NoDecision,
                                        !.stage = "windows"]
          /\ UNCHANGED work
     ELSE /\ surface' = [surface EXCEPT !.applying = FALSE, !.waiting = <<>>,
                                        !.own = Nothing, !.current = NoDecision]
          /\ work' = work \cup {Item(<<>>, NoDecision, Nothing,
                                     <<surface.own>> \o surface.waiting, surface.ok)}
  /\ UNCHANGED <<companion, decisions, windows, timers, microphone, bounds>>

\* App::record
Recorded(shown) == CASE shown = "unsure" -> "unknown" [] OTHER -> shown

\* App::stand: a pill nothing proved visible is asked for again.
Stands(s) ==
  IF s \in {"seen", "ready"} THEN {<<s, TRUE>>}
  ELSE {IF shown = "error" THEN <<s, FALSE>> ELSE <<Recorded(shown), TRUE>>
        : shown \in {PillShown(w) : w \in PillShows}}

\* App::raise, of the box over a pill that stands: up with the keys only when
\* the display says so, and over a pill that is seen.
Boxed(s) ==
  LET under == IF s = "ready" THEN "seen" ELSE s
  IN  {IF shown = "ready" /\ under = "seen" THEN <<"ready", TRUE>>
       ELSE <<under, shown # "error">>
       : shown \in {BoxShown(w) : w \in BoxShows}}

\* App::raise: the pill first, and a box that still has the keys is left.
Raises(s) ==
  UNION {IF ~p[2] THEN {p}
         ELSE IF p[1] = "ready" THEN {p} \cup Boxed(p[1]) ELSE Boxed(p[1])
         : p \in Stands(s)}

\* App::settle: a box that will not go stops it.
Settles(s) ==
  UNION {IF gone THEN Stands(IF s = "ready" THEN "seen" ELSE s) ELSE {<<s, FALSE>>}
         : gone \in {BoxHidden(w) : w \in BoxHides}}

\* App::lower: a pill still up is recorded as seen, one nobody can speak for
\* as unknown.
Lowers(s) ==
  IF s = "off" THEN {<<"off", TRUE>>}
  ELSE {CASE hidden = "down" -> <<"off", TRUE>>
          [] hidden = "unsure" -> <<"unknown", TRUE>>
          [] OTHER -> <<"seen", FALSE>>
        : hidden \in {PillHidden(w) : w \in PillHides}}

\* What the windows may do for one posture, and the outcome they have when
\* nothing goes wrong.
Places(posture) ==
  CASE posture = "editing" -> Raises(screen)
    [] posture \in {"watched", "passive"} -> Settles(screen)
    [] OTHER -> Lowers(screen)

Wanted(posture) ==
  CASE posture = "editing" -> <<"ready", TRUE>>
    [] posture = "off" -> <<"off", TRUE>>
    [] OTHER -> <<"seen", TRUE>>

\* App::put, its windows.
PutWindows ==
  /\ surface.applying /\ surface.stage = "windows"
  /\ \E p \in Places(surface.current.posture) :
       /\ screen' = p[1]
       /\ surface' = [surface EXCEPT !.ok = p[2], !.stage = "draw"]
       /\ IF p \in {Wanted(surface.current.posture), <<screen, TRUE>>}
          THEN UNCHANGED trouble
          ELSE trouble < MaxTrouble /\ trouble' = trouble + 1
  /\ put' = surface.current.version
  /\ UNCHANGED <<showing, drawn, keys, timers, microphone, gestures, reports>>

\* App::falls_short
FallsShort(posture, s) ==
  CASE posture = "editing" -> s # "ready"
    [] posture = "watched" -> s \notin {"seen", "ready"}
    [] posture = "passive" -> s \notin {"seen", "doubtful"}
    [] OTHER -> s # "off"

\* App::put: a shortfall starts one chain, and a window in its place ends it.
Repair(posture) ==
  IF ~FallsShort(posture, screen)
  THEN repairing' = FALSE /\ UNCHANGED chains
  ELSE IF repairing THEN UNCHANGED <<repairing, chains>>
  ELSE repairing' = TRUE /\ chains' = Append(chains, Repairs)

\* App::watch
Watch(posture) ==
  IF Textbox(posture) /\ ~watching THEN watching' = TRUE /\ looks' = looks + 1
                                   ELSE UNCHANGED <<watching, looks>>

\* App::set_keys
HoldsKeys(posture) == OnScreen(posture)

\* App::put, the rest: both surfaces are drawn, a shortfall starts a repair,
\* the keys follow the pill, and a microphone nobody can see is stopped.  A
\* pill that takes nothing keeps what it last showed.
PutRest ==
  /\ surface.applying /\ surface.stage = "draw"
  /\ LET c == surface.current
     IN  /\ \/ drawn' = c.recording /\ UNCHANGED trouble
            \/ trouble < MaxTrouble /\ trouble' = trouble + 1 /\ UNCHANGED drawn
         /\ Repair(c.posture)
         /\ keys' = HoldsKeys(c.posture)
         /\ Watch(c.posture)
         /\ late' = IF c.recording /\ capture # 0 /\ ~(drawn' /\ Visible)
                    THEN late \cup {"recording_failed"} ELSE late
  /\ surface' = [surface EXCEPT !.stage = "take"]
  /\ UNCHANGED <<showing, put, screen, stopping, capture, generation, failed, opening,
                 hearing, hears, gestures, reports>>

-----------------------------------------------------------------------------
\* App::repair, after the newest phase was put again.
AskAgain(f) ==
  IF FallsShort(f.wanted, screen) /\ f.left > 1
  THEN chains' = Append(chains, f.left - 1) /\ UNCHANGED repairing
  ELSE repairing' = FALSE /\ UNCHANGED chains

\* A thread done with its actions turns to its next follower.
Follow ==
  \E item \in work :
    /\ item.actions = <<>> /\ item.decision = NoDecision /\ item.followers # <<>>
    /\ LET f == Head(item.followers)
           behind == [item EXCEPT !.followers = Tail(@)]
           rest == (work \ {item}) \cup (IF Over(behind) THEN {} ELSE {behind})
       IN  CASE f.kind = "carry" /\ item.ok ->
                  /\ work' = IF f.actions = <<>> THEN rest
                             ELSE (work \ {item}) \cup {[behind EXCEPT !.actions = f.actions]}
                  /\ UNCHANGED <<companion, decisions, repairing, chains>>
             [] f.kind = "carry" /\ ~item.ok ->
                  \* App::abandon
                  /\ Decide(Abandon(companion), rest,
                            LAMBDA d, decision : Item(d.actions, decision, Nothing, <<>>, TRUE))
                  /\ UNCHANGED <<repairing, chains>>
             [] f.kind = "repair" ->
                  /\ work' = rest
                  /\ AskAgain(f)
                  /\ UNCHANGED <<companion, decisions>>
             [] OTHER -> work' = rest /\ UNCHANGED <<companion, decisions, repairing, chains>>
    /\ UNCHANGED <<surface, windows, watching, looks, stopping, microphone, bounds>>

Doing(item, kinds) == item.actions # <<>> /\ Head(item.actions).kind \in kinds
Did(item) == LET behind == [item EXCEPT !.actions = Tail(@)]
             IN  (work \ {item}) \cup (IF Over(behind) THEN {} ELSE {behind})
\* A failing action drops the ones behind it.
Dropped(item) == LET behind == [item EXCEPT !.actions = <<>>, !.decision = NoDecision]
                 IN  (work \ {item}) \cup (IF Over(behind) THEN {} ELSE {behind})

\* Mutant: the microphone opens whatever the pill shows.
OpensBlind == TRUE

MayOpen == RecordingShown

\* StartRecording and the first half of start_recording: the indicator first,
\* then a generation of its own.
StartRecording ==
  \E item \in work :
    /\ Doing(item, {"start"})
    /\ IF ~MayOpen
       THEN /\ HandleFrom(Plain("recording_failed"), Dropped(item))
            /\ UNCHANGED <<generation, opening>>
       ELSE /\ generation' = generation + 1
            /\ opening' = opening \cup {[generation |-> generation + 1, item |-> item]}
            /\ work' = work \ {item}
            /\ UNCHANGED <<companion, decisions>>
    /\ UNCHANGED <<surface, windows, timers, capture, failed, hearing, hears, late, bounds>>

\* Recorder::start returned: a capture that was retired or has failed meanwhile
\* is closed, and one that never started retires its own generation.
RecorderStarted ==
  \E o \in opening :
    /\ opening' = opening \ {o}
    /\ work' = (LET behind == [o.item EXCEPT !.actions = Tail(@)]
                IN  work \cup (IF Over(behind) THEN {} ELSE {behind}))
    /\ \/ /\ capture' = IF failed = o.generation \/ generation # o.generation
                        THEN capture ELSE o.generation
          /\ UNCHANGED <<generation, late, trouble>>
       \/ /\ trouble < MaxTrouble /\ trouble' = trouble + 1
          /\ generation' = generation + 1
          /\ late' = late \cup {"recording_failed"}
          /\ UNCHANGED capture
    /\ UNCHANGED <<companion, decisions, surface, windows, timers, failed, hearing,
                   hears, gestures, reports>>

\* The stream reports an error: the current capture's, or nobody's.
StreamFails ==
  /\ trouble < MaxTrouble
  /\ \/ capture = generation /\ capture # 0
     \/ \E o \in opening : o.generation = generation
  /\ failed' = generation
  /\ late' = late \cup {"recording_failed"}
  /\ trouble' = trouble + 1
  /\ UNCHANGED <<showing, surface, windows, timers, capture, generation, opening,
                 hearing, hears, gestures, reports>>

TakenAway == 0

\* StopRecording, DiscardRecording and CancelTranscription: take_recording
\* retires the generation with the capture.
CloseRecording ==
  \E item \in work :
    /\ Doing(item, {"stop", "discard", "cancel"})
    /\ work' = Did(item)
    /\ capture' = TakenAway
    /\ generation' = generation + 1
    /\ CASE Doing(item, {"stop"}) /\ capture # 0 ->
              hears' = hears + 1 /\ hearing' = hearing \cup {hears + 1}
         [] Doing(item, {"cancel"}) -> hears' = hears + 1 /\ UNCHANGED hearing
         [] OTHER -> UNCHANGED <<hears, hearing>>
    /\ UNCHANGED <<companion, decisions, surface, windows, timers, failed, opening,
                   late, bounds>>

\* The transcription ended: its event is handled unless it has been retired.
Heard ==
  \E h \in hearing :
    /\ hearing' = hearing \ {h}
    /\ IF h = hears
       THEN \/ HandleFrom(Event("transcribed", NoId, Text), work)
            \/ HandleFrom(Plain("transcription_failed"), work)
       ELSE UNCHANGED showing
    /\ UNCHANGED <<surface, windows, timers, capture, generation, failed, opening,
                   hears, late, bounds>>

\* start_ticker: a recording at its limit is stopped as a second press would.
TickerDue == capture # 0 /\ Gesture(Plain("activate"))

\* Every other action leaves the surfaces and the microphone alone.
OtherAction ==
  \E item \in work :
    /\ Doing(item, {"persist", "submit", "clear", "forget", "abort"})
    /\ work' = Did(item)
    /\ UNCHANGED <<companion, decisions, surface, windows, timers, microphone, bounds>>

-----------------------------------------------------------------------------
(* Timers.                                                                  *)

\* App::repair after its delay: the newest phase is put again.
RepairDue ==
  /\ chains # <<>> /\ decisions < MaxDecisions
  /\ LET decision == Stamp(companion, decisions + 1)
     IN  /\ decisions' = decisions + 1
         /\ work' = work \cup {Item(<<>>, decision, Chain(Head(chains), decision.posture),
                                    <<>>, TRUE)}
  /\ chains' = Tail(chains)
  /\ UNCHANGED <<companion, surface, windows, repairing, watching, looks, stopping,
                 microphone, bounds>>

\* App::look: the phase let the keyboard go, so the watch is about to stop.
LookStops ==
  /\ looks > 0 /\ ~Textbox(Posture(companion))
  /\ looks' = looks - 1
  /\ stopping' = stopping + 1
  /\ UNCHANGED <<showing, surface, windows, repairing, chains, watching, microphone, bounds>>

\* It stops, unless a phase began needing the keyboard meanwhile and found the
\* watch still armed.
LookBack ==
  /\ stopping > 0
  /\ stopping' = stopping - 1
  /\ watching' = Textbox(Posture(companion))
  /\ looks' = looks + (IF Textbox(Posture(companion)) THEN 1 ELSE 0)
  /\ UNCHANGED <<showing, surface, windows, repairing, chains, microphone, bounds>>

\* App::look while the phase needs the keyboard: a box that lost it to nothing
\* is shown again.
LookOn ==
  /\ looks > 0 /\ Textbox(Posture(companion))
  /\ screen = "ready" /\ trouble < MaxTrouble
  /\ trouble' = trouble + 1
  /\ Decide(Done(companion, <<>>), work,
            LAMBDA d, decision : Item(<<>>, decision, Nothing, <<>>, TRUE))
  /\ UNCHANGED <<surface, windows, timers, microphone, gestures, reports>>

Init ==
  /\ companion = Fresh /\ decisions = 0 /\ work = {}
  /\ surface = [next |-> NoDecision, version |-> 0, applying |-> FALSE,
                waiting |-> <<>>, own |-> Nothing, current |-> NoDecision,
                stage |-> "take", ok |-> TRUE]
  /\ put = 0 /\ screen = "off" /\ drawn = FALSE /\ keys = FALSE
  /\ repairing = FALSE /\ chains = <<>>
  /\ watching = FALSE /\ looks = 0 /\ stopping = 0
  /\ capture = 0 /\ generation = 0 /\ failed = 0 /\ opening = {}
  /\ hearing = {} /\ hears = 0 /\ late = {}
  /\ gestures = 0 /\ reports = 0 /\ trouble = 0

Events == Activate \/ Escape \/ ToggleWorkspace \/ Enter \/ Stop \/ Answered \/ Report
Threads == \/ Executed \/ Bring \/ Take \/ PutWindows \/ PutRest \/ Follow
           \/ StartRecording \/ RecorderStarted \/ CloseRecording \/ Heard \/ OtherAction
           \/ RepairDue \/ LookStops \/ LookBack
Mishaps == StreamFails \/ TickerDue \/ LookOn

Next == Events \/ Threads \/ Mishaps

Spec == Init /\ [][Next]_vars

-----------------------------------------------------------------------------
Postures == {"off", "passive", "editing", "watched"}
Settled == Quiet /\ late = {}

TypeOK ==
  /\ companion \in Companions
  /\ surface.current.posture \in Postures /\ surface.next.posture \in Postures
  /\ screen \in {"off", "unknown", "doubtful", "seen", "ready"}
  /\ chains \in Seq(1..Repairs)
  /\ looks \in Nat /\ stopping \in Nat
  /\ capture \in 0..generation /\ failed \in 0..generation
  /\ put \in 0..decisions /\ surface.version \in 0..decisions
  /\ late \subseteq {"recording_failed"}

\* Once the threads are done the windows are on the companion's newest
\* decision: none is lost with a thread that found another at the surface
\* (app.rs:327, Ordered).
SettledOnNewest == Quiet => put = decisions /\ surface.next = NoDecision

\* A decision never reaches the windows after a newer one has
\* (App::show, "an older decision ... changes nothing").
NeverBackwards == [][put' >= put]_put

\* The microphone is never left open behind a pill that does not say so: once
\* nothing is in flight, an open capture belongs to a listening phase whose
\* indicator the person can see (App::handle, App::recording_shown).
OpenOnlyAnnounced ==
  Settled /\ capture # 0 => companion.phase = "listening" /\ RecordingShown

\* A phase with the textbox is watched: some look is on its way, or the watch
\* about to stop has yet to look back (App::look).
TextboxWatched ==
  Quiet /\ Textbox(Posture(companion)) => looks + stopping > 0

\* While the flag says a repair is under way one is: a chain whose thread was
\* lost would block every later one (App::put).
RepairingIsRunning ==
  Quiet /\ repairing => chains # <<>>

\* A transcription ends somewhere: the pill is not left waiting for words from
\* a recording that is gone (App::stop_recording).
TranscribingEnds ==
  Settled /\ companion.phase = "transcribing" => hearing # {}
=============================================================================
