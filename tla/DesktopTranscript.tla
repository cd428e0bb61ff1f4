-------------------------- MODULE DesktopTranscript --------------------------
(****************************************************************************)
(* The words a person dictated, from the transcription to the conversation  *)
(* (surfaces/desktop/src: app.rs, pending.rs, link.rs, over the transitions *)
(* of Companion).                                                           *)
(*                                                                          *)
(* A thread that applies an event runs the actions the companion asks for   *)
(* one at a time (doing), or, when the phase must be on screen first, leaves*)
(* them for whichever thread proves the window (left).  The record on disk, *)
(* the link, the answers and the acknowledgement timers run beside it, and  *)
(* the process may die between any two of these steps.                      *)
(*                                                                          *)
(* The service answers from how the code in host/service takes a message;   *)
(* microphone, windows and their order are DesktopSurface's subject.        *)
(****************************************************************************)
EXTENDS Companion, FiniteSets

CONSTANTS
  Hasty,          \* the person may act before the start, storage and windows settle
  MaxDictations,  \* transcriptions in a behaviour
  MaxSends,       \* submissions in a behaviour
  MaxFaults,      \* failed saves, removals, windows, writes and connections
  MaxCrashes      \* deaths of the process

ASSUME BoundsAssumption ==
  /\ Hasty \in BOOLEAN
  /\ MaxDictations \in Nat /\ MaxSends \in Nat
  /\ MaxFaults \in Nat /\ MaxCrashes \in Nat

VARIABLES
  running,    \* "down", "starting" until App::start has loaded, "up"
  companion,  \* App::companion
  doing,      \* the actions each thread is still carrying out
  left,       \* the actions of the decisions whose window is not proved yet
  voice,      \* "off", "recording", "finishing": the capture and its transcription
  disk,       \* the pending record, or NoRecord
  attempts,   \* App::submissions
  timers,     \* the acknowledgement timers armed
  late,       \* events the executor has yet to apply
  linked,     \* ServiceLink::ready
  wire,       \* submissions written and not yet read by the service
  answers,    \* answers written and not yet read by the link
  taken,      \* what the service put in the conversation, per submission
  asked,      \* forced sends the person confirmed, per submission
  fate,       \* what became of each transcript
  faults, crashes

shown == <<companion, doing, left>>
outside == <<linked, wire, answers, timers, late, attempts>>
ghosts == <<taken, asked, fate>>
bounds == <<faults, crashes>>
vars == <<running, companion, doing, left, voice, disk, attempts, timers, late,
          linked, wire, answers, taken, asked, fate, faults, crashes>>

Threads == {"page", "keys", "link", "window"}
Ids == 1..MaxDictations
NoRecord == [id |-> NoId, text |-> Empty, discarded |-> FALSE]
Record(id, text) == [id |-> id, text |-> text, discarded |-> FALSE]
Tombstone(id) == [id |-> id, text |-> Empty, discarded |-> TRUE]

Idle == /\ \A t \in Threads : doing[t] = <<>>
        /\ left = <<>>

\* FilePendingStore::load: a tombstone is a complete answer.
Load == IF disk.discarded THEN NoRecord ELSE disk

-----------------------------------------------------------------------------
(* Applying events.                                                         *)

Fated(ids, what) == [id \in Ids |-> IF id \in ids THEN what ELSE fate[id]]

\* What a change of the companion says about the words it held.
FateAfter(e, d) ==
  CASE e.kind = "transcribed" /\ d.companion.id # companion.id ->
         Fated({d.companion.id}, "spoken")
    [] e.kind = "acknowledged" /\ d.actions # <<>> -> Fated({companion.id}, "settled")
    [] e.kind = "discard_failed" -> Fated({e.id}, "dropped")
    [] OTHER -> fate

\* App::handle by thread t: a phase the person must see runs its actions only
\* once its window is proved, every other runs them here and now.
Handle(t, e) ==
  LET d == Apply(companion, e)
  IN  /\ companion' = d.companion
      /\ IF Waits(Posture(d.companion))
         THEN /\ left' = Append(left, d.actions)
              /\ doing' = [doing EXCEPT ![t] = <<>>]
         ELSE /\ doing' = [doing EXCEPT ![t] = d.actions]
              /\ UNCHANGED left
      /\ fate' = FateAfter(e, d)

\* An event of the person, on a thread that is free.
Gesture(t, e) ==
  /\ running # "down"
  /\ doing[t] = <<>>
  /\ Hasty \/ (running = "up" /\ Idle)
  /\ Handle(t, e)
  /\ UNCHANGED <<running, voice, disk, outside, taken, bounds>>

Activate == /\ companion.commands < MaxDictations \/ companion.phase = "listening"
            /\ Gesture("keys", Plain("activate"))
            /\ UNCHANGED asked

Escape == /\ companion.phase # "resting"
          /\ \E t \in {"keys", "page"} : Gesture(t, Plain("escape"))
          /\ UNCHANGED asked

\* Enter in the textbox: what the field holds when it is editable, the words
\* held when it is not.
Enter ==
  /\ companion.phase \in {"editing", "retained"}
  /\ attempts < MaxSends
  /\ \E text \in IF Editable(companion) THEN Texts ELSE {companion.text} :
       Gesture("page", Event("enter", NoId, text))
  /\ asked' = IF companion.phase = "retained" /\ companion.delivery = "uncertain"
                 /\ companion.warned
              THEN [asked EXCEPT ![companion.id] = @ + 1] ELSE asked

\* An executor thread applies one event; none of those asks for an action
\* outside a phase that waits.
Executed ==
  \E e \in late :
    /\ running # "down"
    /\ Handle("window", e)
    /\ doing["window"] = <<>>
    /\ late' = late \ {e}
    /\ UNCHANGED <<running, voice, disk, linked, wire, answers, timers, attempts,
                   taken, asked, bounds>>

\* The transcription of a recording that was stopped, unless it was cancelled.
Heard ==
  /\ running # "down" /\ voice = "finishing"
  /\ doing["window"] = <<>>
  /\ \/ \E text \in Texts \cup {Empty} : Handle("window", Event("transcribed", NoId, text))
     \/ Handle("window", Plain("transcription_failed"))
  /\ voice' = "off"
  /\ UNCHANGED <<running, disk, outside, taken, asked, bounds>>

\* App::put came to an end: every follower left behind runs in order, or gives
\* its interaction up when the window is not there.
WindowUp ==
  /\ left # <<>> /\ doing["window"] = <<>>
  /\ doing' = [doing EXCEPT !["window"] = Head(left)]
  /\ left' = Tail(left)
  /\ UNCHANGED <<running, companion, voice, disk, outside, ghosts, bounds>>

\* App::abandon: the words stop being held, and whatever is stored stays.
WindowFailed ==
  /\ left # <<>> /\ doing["window"] = <<>> /\ faults < MaxFaults
  /\ LET d == Abandon(companion)
     IN  /\ companion' = d.companion
         /\ doing' = [doing EXCEPT !["window"] = d.actions]
  /\ left' = Tail(left)
  /\ fate' = IF companion.phase \in Holding THEN Fated({companion.id}, "abandoned") ELSE fate
  /\ faults' = faults + 1
  /\ UNCHANGED <<running, voice, disk, outside, taken, asked, crashes>>

-----------------------------------------------------------------------------
(* App::run, one action of one thread at a time.                            *)

Next_(t) == doing' = [doing EXCEPT ![t] = Tail(@)]
Doing(t, kind) == running # "down" /\ doing[t] # <<>> /\ Head(doing[t]).kind = kind

Save(t) ==
  /\ Doing(t, "persist")
  /\ LET a == Head(doing[t])
     IN  /\ disk' = Record(a.id, a.text)
         /\ fate' = IF fate[a.id] = "spoken" THEN Fated({a.id}, "stored") ELSE fate
  /\ Next_(t)
  /\ UNCHANGED <<running, companion, left, voice, outside, taken, asked, bounds>>

\* FilePendingStore::write fails before the rename, or after it when the
\* directory will not sync; the actions behind it are dropped.
SaveFails(t) ==
  /\ Doing(t, "persist") /\ faults < MaxFaults
  /\ LET a == Head(doing[t]) IN disk' \in {disk, Record(a.id, a.text)}
  /\ Handle(t, Plain("persist_failed"))
  /\ faults' = faults + 1
  /\ UNCHANGED <<running, voice, outside, taken, asked, crashes>>

\* clear_pending: both attempts may fail, and only the log hears of it.
ClearPending(t) ==
  /\ Doing(t, "clear")
  /\ \/ disk' = NoRecord /\ UNCHANGED faults
     \/ faults < MaxFaults /\ faults' = faults + 1 /\ UNCHANGED disk
  /\ Next_(t)
  /\ UNCHANGED <<running, companion, left, voice, outside, ghosts, crashes>>

\* discard_pending, when the removal or at least its tombstone landed.
DiscardPending(t) ==
  /\ Doing(t, "forget")
  /\ LET id == Head(doing[t]).id
     IN  /\ \/ disk' = NoRecord /\ UNCHANGED faults
            \/ faults < MaxFaults /\ faults' = faults + 1 /\ disk' = Tombstone(id)
         /\ fate' = Fated({id}, "discarded")
  /\ Next_(t)
  /\ UNCHANGED <<running, companion, left, voice, outside, taken, asked, crashes>>

\* Neither was possible: the pill reopens to say the words are still there.
DiscardFails(t) ==
  /\ Doing(t, "forget") /\ faults < MaxFaults
  /\ Handle(t, Event("discard_failed", Head(doing[t]).id, Empty))
  /\ faults' = faults + 1
  /\ UNCHANGED <<running, voice, disk, outside, taken, asked, crashes>>

\* Mutant: a submission that left is not timed.
SubmitsUntimed(t) ==
  /\ Doing(t, "submit") /\ linked
  /\ LET a == Head(doing[t])
     IN  wire' = wire \cup {[id |-> a.id, text |-> a.text, attempt |-> attempts + 1]}
  /\ attempts' = attempts + 1
  /\ Next_(t)
  /\ UNCHANGED <<running, companion, left, voice, disk, timers, late, linked, answers,
                 ghosts, bounds>>

\* App::submit with the link ready: the bytes leave and a timer is armed.
Submit(t) ==
  /\ Doing(t, "submit") /\ linked
  /\ LET a == Head(doing[t])
         n == attempts + 1
     IN  /\ attempts' = n
         /\ wire' = wire \cup {[id |-> a.id, text |-> a.text, attempt |-> n]}
         /\ timers' = timers \cup {[id |-> a.id, attempt |-> n]}
  /\ Next_(t)
  /\ UNCHANGED <<running, companion, left, voice, disk, late, linked, answers,
                 ghosts, bounds>>

\* App::submit while the link is down or its write fails: fail_submission.
SubmitFails(t) ==
  /\ Doing(t, "submit")
  /\ \/ ~linked /\ UNCHANGED faults
     \/ linked /\ faults < MaxFaults /\ faults' = faults + 1
  /\ attempts' = attempts + 1
  /\ late' = late \cup {Event("submission_failed", Head(doing[t]).id, Empty)}
  /\ Next_(t)
  /\ UNCHANGED <<running, companion, left, voice, disk, timers, linked, wire, answers,
                 ghosts, crashes>>

\* start_recording, stop_recording and the two ways a capture is thrown away.
Voice(t) ==
  /\ \/ /\ Doing(t, "start")
        /\ \/ voice' = "recording" /\ UNCHANGED <<late, faults>>
           \/ /\ faults < MaxFaults /\ faults' = faults + 1
              /\ late' = late \cup {Plain("recording_failed")}
              /\ UNCHANGED voice
     \/ /\ Doing(t, "stop")
        /\ voice' = IF voice = "recording" THEN "finishing" ELSE voice
        /\ UNCHANGED <<late, faults>>
     \/ /\ Doing(t, "discard") \/ Doing(t, "cancel")
        /\ voice' = "off"
        /\ UNCHANGED <<late, faults>>
  /\ Next_(t)
  /\ UNCHANGED <<running, companion, left, disk, linked, wire, answers, timers,
                 attempts, ghosts, crashes>>

\* The acknowledgement timer: this attempt's, or nobody's.
TimerFires ==
  \E m \in timers :
    /\ running # "down"
    /\ timers' = timers \ {m}
    /\ late' = IF m.attempt = attempts
               THEN late \cup {Event("submission_uncertain", m.id, Empty)} ELSE late
    /\ UNCHANGED <<running, shown, voice, disk, linked, wire, answers, attempts,
                   ghosts, bounds>>

-----------------------------------------------------------------------------
(* The link and the service behind it.                                      *)

Link == /\ running # "down" /\ ~linked
        /\ linked' = TRUE
        /\ UNCHANGED <<running, shown, voice, disk, wire, answers, timers, late,
                       attempts, ghosts, bounds>>

Took(messages) ==
  [id \in Ids |-> taken[id] \o
     LET of == {m \in messages : m.id = id}
     IN  IF of = {} THEN <<>> ELSE <<(CHOOSE m \in of : TRUE).text>>]

\* The connection ends: what the service had read is in the conversation, and
\* every answer on the way is gone.
LinkDrops ==
  /\ running # "down" /\ linked /\ faults < MaxFaults
  /\ linked' = FALSE
  /\ \E read \in SUBSET wire : taken' = Took(read)
  /\ wire' = {} /\ answers' = {}
  /\ faults' = faults + 1
  /\ UNCHANGED <<running, shown, voice, disk, timers, late, attempts, asked, fate, crashes>>

\* The service takes a message and acknowledges it, or refuses it.
ServiceTakes ==
  \E m \in wire :
    /\ wire' = wire \ {m}
    /\ taken' = Took({m})
    /\ answers' = answers \cup {Event("acknowledged", m.id, Empty)}
    /\ UNCHANGED <<running, shown, voice, disk, linked, timers, late, attempts,
                   asked, fate, bounds>>

ServiceRefuses ==
  \E m \in wire :
    /\ wire' = wire \ {m}
    /\ answers' = answers \cup {Event("submission_failed", m.id, Empty)}
    /\ UNCHANGED <<running, shown, voice, disk, linked, timers, late, attempts,
                   ghosts, bounds>>

\* App::observe for an answer, on the link's reading thread.
Answered ==
  \E e \in answers :
    /\ doing["link"] = <<>>
    /\ Handle("link", e)
    /\ answers' = answers \ {e}
    /\ UNCHANGED <<running, voice, disk, linked, wire, timers, late, attempts,
                   taken, asked, bounds>>

-----------------------------------------------------------------------------
(* The process.                                                             *)

Crash ==
  /\ running # "down" /\ crashes < MaxCrashes
  /\ running' = "down"
  /\ \E read \in SUBSET wire : taken' = Took(read)
  /\ wire' = {} /\ answers' = {} /\ linked' = FALSE
  /\ timers' = {} /\ late' = {} /\ left' = <<>> /\ voice' = "off"
  /\ doing' = [t \in Threads |-> <<>>]
  /\ companion' = [Fresh EXCEPT !.commands = companion.commands]
  /\ fate' = [id \in Ids |-> IF fate[id] = "spoken" THEN "dropped" ELSE fate[id]]
  /\ crashes' = crashes + 1
  /\ UNCHANGED <<disk, attempts, asked, faults>>

\* A new process; its prefix keeps its identifiers apart from the last one's,
\* here by counting on.
Boot ==
  /\ running = "down"
  /\ running' = "starting"
  /\ UNCHANGED <<shown, voice, disk, outside, ghosts, bounds>>

\* App::start: the record comes back unless the person is already dictating,
\* one that cannot be read is reported, and the pill is waited for.
Recover ==
  /\ running = "starting"
  /\ running' = "up"
  /\ \/ LET found == Load
        IN  /\ companion' = IF found.id = NoId THEN companion
                            ELSE Restore(companion, found.id, found.text)
            /\ fate' = IF found.id # NoId /\ companion.phase # "resting"
                       THEN Fated({found.id}, "dropped") ELSE fate
            /\ UNCHANGED faults
     \/ /\ disk.id # NoId /\ faults < MaxFaults
        /\ faults' = faults + 1
        /\ companion' = ReportTrouble(companion)
        /\ fate' = IF disk.discarded THEN fate ELSE Fated({disk.id}, "dropped")
  /\ left' = Append(left, <<>>)
  /\ UNCHANGED <<doing, voice, disk, outside, taken, asked, crashes>>

Init ==
  /\ running = "starting" /\ companion = Fresh
  /\ doing = [t \in Threads |-> <<>>] /\ left = <<>>
  /\ voice = "off" /\ disk = NoRecord
  /\ attempts = 0 /\ timers = {} /\ late = {}
  /\ linked = FALSE /\ wire = {} /\ answers = {}
  /\ taken = [id \in Ids |-> <<>>] /\ asked = [id \in Ids |-> 0]
  /\ fate = [id \in Ids |-> "unspoken"]
  /\ faults = 0 /\ crashes = 0

Carry(t) == \/ Save(t) \/ SaveFails(t) \/ ClearPending(t) \/ DiscardPending(t)
            \/ DiscardFails(t) \/ Submit(t) \/ SubmitFails(t) \/ Voice(t)

Next == \/ Activate \/ Escape \/ Enter
        \/ Executed \/ Heard \/ WindowUp \/ WindowFailed
        \/ \E t \in Threads : Carry(t)
        \/ TimerFires \/ Link \/ LinkDrops \/ ServiceTakes \/ ServiceRefuses \/ Answered
        \/ Crash \/ Boot \/ Recover

\* Threads run, windows answer, timers fire and the executor drains; nothing is
\* asked of the person, the service or the link.
Fairness == /\ WF_vars(Executed) /\ WF_vars(WindowUp) /\ WF_vars(TimerFires)
            /\ WF_vars(Recover) /\ \A t \in Threads : WF_vars(Carry(t))

Spec == Init /\ [][Next]_vars /\ Fairness

-----------------------------------------------------------------------------
TypeOK ==
  /\ running \in {"down", "starting", "up"}
  /\ companion \in Companions
  /\ \A t \in Threads : Len(doing[t]) <= 2
  /\ voice \in {"off", "recording", "finishing"}
  /\ disk \in {NoRecord} \cup {Tombstone(id) : id \in Ids}
              \cup {Record(id, text) : id \in Ids, text \in Texts}
  /\ attempts \in 0..MaxSends
  /\ fate \in [Ids -> {"unspoken", "spoken", "stored", "settled", "discarded", "abandoned", "dropped"}]

\* A transcript enters the conversation again only when the person confirmed
\* the second send past the warning (app.rs:608, Delivery::Uncertain).
TwiceOnlyIfAsked == \A id \in Ids : Len(taken[id]) <= 1 + asked[id]

\* Words that may be in the conversation already are never sent again under the
\* same identifier with other words in them (state.rs, Delivery).
OneTextPerTranscript ==
  \A id \in Ids : \A i, j \in 1..Len(taken[id]) : taken[id][i] = taken[id][j]

\* A transcript once stored stays on disk until it is acknowledged, discarded
\* or given up (pending.rs:3).
StoredUntilRetired ==
  \A id \in Ids : fate[id] = "stored" => disk.id = id /\ ~disk.discarded

\* A stored transcript the process knows of is on the pill until it is retired,
\* or on its way to be discarded: no answer, timer or failure leaves a record
\* behind that nothing holds (state.rs, Phase).
StoredIsHeld ==
  \A id \in Ids : running = "up" /\ fate[id] = "stored" =>
    \/ companion.phase \in Holding /\ companion.id = id
    \/ \E t \in Threads : Doing(t, "forget") /\ Head(doing[t]).id = id

\* The words of an interaction whose window failed are on disk and come back on
\* the next start, so nothing is thrown away (state.rs:478, App::abandon).
AbandonedIsStored ==
  \A id \in Ids : fate[id] = "abandoned" => disk.id = id /\ ~disk.discarded

\* Nothing is on its way to the service that is not on disk with the same
\* words, unless it has been answered, discarded or given up (App::handle).
SentOnlyStored ==
  \A m \in wire : fate[m.id] \in {"spoken", "stored"} =>
                    disk = Record(m.id, m.text)

\* Words the person discarded are never held again, whatever failed or crashed
\* meanwhile (discard_pending: "Discarded words must not come back").
DiscardedStaysGone ==
  companion.phase \in Holding => fate[companion.id] # "discarded"

\* Only the answer to its own submission settles a transcript (App::observe).
SettledWasTaken == \A id \in Ids : fate[id] = "settled" => taken[id] # <<>>

\* A submission is never left unanswered on screen: it is acknowledged, refused
\* or called uncertain while the process lives (App::submit).
SentIsAnswered == (companion.phase = "sent") ~> (companion.phase # "sent")

\* What becomes of dictated words: wherever the process died, whatever failed
\* and however late an answer comes, they are sent once unless the person asked
\* twice, stay on disk while they may be needed, stay on the pill while they
\* are on disk, and stay gone when they were thrown away (state.rs, pending.rs,
\* App::handle).
WordsAreSafe ==
  /\ TypeOK
  /\ TwiceOnlyIfAsked /\ OneTextPerTranscript
  /\ StoredUntilRetired /\ StoredIsHeld /\ SentOnlyStored
  /\ DiscardedStaysGone /\ SettledWasTaken
=============================================================================
