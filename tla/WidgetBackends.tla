--------------------------- MODULE WidgetBackends ---------------------------
(****************************************************************************)
(* The processes behind live widget panels                                  *)
(* (desktop/src/widgets/backends.rs), with the part of the widget runtime   *)
(* that reads them (runtime.rs open, feed, health, restart, retire).        *)
(*                                                                          *)
(* A backend is found by the question it answers, so panels asking the same *)
(* question share one.  A reader thread per process takes its lines; four   *)
(* times a second a beat hands what came in to the event loop, which gives  *)
(* it to the runtime one piece at a time: at once if the turn is free, or   *)
(* through the thread that may wait for it (turn.rs).  A process told to    *)
(* stop may write on until it is killed.                                    *)
(****************************************************************************)
EXTENDS Naturals, FiniteSets, FiniteSetsExt, Sequences, SequencesExt, Functions

CONSTANTS
  Surfaces,     \* panels that may be opened: their labels, minted in order
  Question,     \* Order::key of the panel each would be
  Patience,     \* beats of silence before a backend is stale
  Holds,        \* whether a reading may ask for its panel to be kept
  Hasty,        \* the person may restart a backend while news of it is coming
  MaxProcesses, \* processes started, those that fail to included
  MaxLines,     \* lines all processes together may write
  MaxFailures,  \* processes that will not start
  MaxBacklog    \* news the event loop may still owe when a beat comes

Keys == Range(Question)
Pids == 1..MaxProcesses
NoReading == [pid |-> 0, line |-> 0, hold |-> FALSE]

ASSUME BackendsAssumption ==
  /\ Question \in [Surfaces -> Keys]
  /\ Surfaces \subseteq Nat
  /\ {Patience, MaxProcesses, MaxLines, MaxFailures, MaxBacklog} \subseteq Nat
  /\ Holds \subseteq BOOLEAN /\ Hasty \in BOOLEAN

VARIABLES
  panel,     \* Runtime::surfaces: of each panel what its chrome and page show
  running,   \* State::running, by question
  readers,   \* State::readers, by panel
  data,      \* State::data: the reading of each panel waiting for the beat
  health,    \* State::health: changes waiting for the beat
  news,      \* handed to the event loop and not yet heard
  turn,      \* some other decision is being carried out
  waiting,   \* Turn::later: what the event loop heard and could not decide
  process,   \* every process started, by pid: what it is and its unread lines
  lines,     \* lines written so far
  failures

vars == <<panel, running, readers, data, health, news, turn, waiting, process, lines, failures>>

loop == <<turn, waiting>>
backends == <<running, readers, data, health, process, lines, failures>>
Healths == {"Fresh", "Stale", "Dead"}
Without(entries, ids) == Restrict(entries, DOMAIN entries \ ids)
With(entries, id, value) ==
  [i \in DOMAIN entries \cup {id} |-> IF i = id THEN value ELSE entries[i]]

ReadersOf(key) == {s \in DOMAIN readers : readers[s] = key}
Open(s) == panel[s].life = "open"
News(s, what) == [surface |-> s, health |-> what]
ReadingNews(s, reading) == [surface |-> s, reading |-> reading]
HealthNews(ids, what) == SetToSeq({News(s, what) : s \in ids})

-----------------------------------------------------------------------------
\* stop: the input is closed and the group signalled; it may write on, unless
\* it has exited already.
Stopped(ps, key) ==
  IF key \in DOMAIN running /\ ps[running[key].pid].state = "running"
  THEN [ps EXCEPT ![running[key].pid].state = "stopping"] ELSE ps

Launched(key, state) ==
  [state |-> state, key |-> key, reading |-> state = "running", unread |-> <<>>]

\* raise: a process for these panels, or word to each that there is none.
Raise(key, refs, base, pending, ps) ==
  /\ Len(ps) < MaxProcesses
  /\ \/ /\ process' = Append(ps, Launched(key, "running"))
        /\ running' = With(base, key, [pid |-> Len(ps) + 1, refs |-> refs, quiet |-> 0,
                                       health |-> "Fresh", last |-> NoReading])
        /\ health' = pending
        /\ UNCHANGED failures
     \/ /\ failures < MaxFailures /\ failures' = failures + 1
        /\ process' = Append(ps, Launched(key, "exited"))
        /\ running' = base
        /\ health' = pending \o HealthNews(refs, "Dead")

\* subscribe's catching up: what the process last said.
CaughtUp(s, entry) ==
  data' = IF entry.last # NoReading THEN With(data, s, entry.last) ELSE data

JoinsHealth(s, entry) ==
  health' = IF entry.health # "Fresh" THEN Append(health, News(s, entry.health)) ELSE health

\* Runtime::open of a live panel, and Backends::subscribe.
OpenPanel(s) ==
  /\ panel[s].life = "new" /\ ~turn
  /\ \A label \in Surfaces : label < s => panel[label].life # "new"
  /\ panel' = [panel EXCEPT ![s].life = "open"]
  /\ readers' = With(readers, s, Question[s])
  /\ LET key == Question[s]
     IN  \/ /\ key \in DOMAIN running
            /\ running' = [running EXCEPT ![key].refs = @ \cup {s}]
            /\ CaughtUp(s, running[key]) /\ JoinsHealth(s, running[key])
            /\ UNCHANGED <<process, failures>>
         \/ /\ key \notin DOMAIN running
            /\ Raise(key, {s}, running, health, process)
            /\ UNCHANGED data
  /\ UNCHANGED <<news, loop, lines>>

\* Mutant: the last panel to leave leaves its process running.
LeavesRunning(s) ==
  LET key == readers[s]
      refs == IF key \in DOMAIN running THEN running[key].refs \ {s} ELSE {}
  IN  /\ running' = IF refs = {} THEN Without(running, {key})
                    ELSE [running EXCEPT ![key].refs = refs]
      /\ UNCHANGED process

Leave(s) ==
  LET key == readers[s]
      refs == IF key \in DOMAIN running THEN running[key].refs \ {s} ELSE {}
  IN  IF refs = {}
      THEN running' = Without(running, {key}) /\ process' = Stopped(process, key)
      ELSE running' = [running EXCEPT ![key].refs = refs] /\ UNCHANGED process

Forgotten(s) == Without(data, {s})

\* Runtime::retire, and Backends::unsubscribe.
Retire(s) ==
  /\ Open(s) /\ ~turn
  /\ panel' = [panel EXCEPT ![s].life = "gone"]
  /\ readers' = Without(readers, {s}) /\ data' = Forgotten(s)
  /\ Leave(s)
  /\ UNCHANGED <<health, news, loop, lines, failures>>

BroughtBack(s) == ReadersOf(readers[s])

\* Runtime::restart, and Backends::restart, for every panel reading the same.
RestartPanel(s) ==
  /\ Open(s) /\ ~turn
  /\ Hasty \/ (news \o waiting = <<>> /\ health = <<>>)
  /\ panel' = [panel EXCEPT ![s].health = "Fresh"]
  /\ LET key == readers[s]
     IN  Raise(key, BroughtBack(s), Without(running, {key}), health, Stopped(process, key))
  /\ UNCHANGED <<readers, data, news, loop, lines>>

-----------------------------------------------------------------------------
Writes(p) ==
  /\ process[p].state \in {"running", "stopping"} /\ lines < MaxLines
  /\ lines' = lines + 1
  /\ \E hold \in Holds :
       process' = [process EXCEPT ![p].unread =
                     Append(@, [pid |-> p, line |-> lines + 1, hold |-> hold])]
  /\ UNCHANGED <<panel, running, readers, data, health, news, loop, failures>>

\* It exits by itself, or is killed once its time to leave is up.
Exits(p) ==
  /\ process[p].state \in {"running", "stopping"}
  /\ process' = [process EXCEPT ![p].state = "exited"]
  /\ UNCHANGED <<panel, running, readers, data, health, news, loop, lines, failures>>

\* read: one line is for the panels of whatever process answers this question
\* now; with none, the thread ends.
Read(p) ==
  /\ process[p].reading /\ process[p].unread # <<>>
  /\ LET key == process[p].key
         line == Head(process[p].unread)
     IN  IF key \in DOMAIN running
         THEN LET entry == running[key]
              IN  /\ process' = [process EXCEPT ![p].unread = Tail(@)]
                  /\ running' = [running EXCEPT ![key].quiet = 0, ![key].health = "Fresh",
                                                ![key].last = line]
                  /\ health' = IF entry.health = "Fresh" THEN health
                               ELSE health \o HealthNews(entry.refs, "Fresh")
                  /\ data' = [s \in DOMAIN data \cup entry.refs |->
                                IF s \in entry.refs THEN line ELSE data[s]]
         ELSE /\ process' = [process EXCEPT ![p].reading = FALSE, ![p].unread = <<>>]
              /\ UNCHANGED <<running, health, data>>
  /\ UNCHANGED <<panel, readers, news, loop, lines, failures>>

-----------------------------------------------------------------------------
Exited(key) == process[running[key].pid].state = "exited"
Overdue(key) == running[key].health = "Fresh" /\ running[key].quiet + 1 > Patience

\* drain: the panels of the processes that have exited.
Bereaved(keys) == UNION {running[key].refs : key \in keys}

\* Backends::drain, and the batch handed to the event loop: exits and silences
\* first, then the changes of health that waited, then the readings.
Beat ==
  /\ Len(news \o waiting) <= MaxBacklog
  /\ LET buried == {key \in DOMAIN running : Exited(key)}
         silent == {key \in DOMAIN running \ buried : Overdue(key)}
     IN  /\ news' = news \o HealthNews(Bereaved(buried), "Dead")
                         \o HealthNews(UNION {running[key].refs : key \in silent}, "Stale")
                         \o health
                         \o SetToSeq({ReadingNews(s, data[s]) : s \in DOMAIN data})
         /\ running' = [key \in DOMAIN running \ buried |->
              [running[key] EXCEPT !.quiet = IF @ > Patience THEN @ ELSE @ + 1,
                                   !.health = IF key \in silent THEN "Stale" ELSE @]]
  /\ health' = <<>> /\ data' = <<>>
  /\ UNCHANGED <<panel, readers, loop, process, lines, failures>>

\* Runtime::health: a dead backend ends the hold.
HeardHealth(p, what) == [p EXCEPT !.health = what, !.held = @ /\ what # "Dead"]

\* Runtime::feed: each reading asks again to be kept, or does not.
HeardReading(p, reading) == [p EXCEPT !.shown = reading, !.held = reading.hold]

Heard(one) ==
  LET p == panel[one.surface]
  IN  panel' = [panel EXCEPT ![one.surface] =
        IF p.life # "open" THEN p
        ELSE IF "health" \in DOMAIN one THEN HeardHealth(p, one.health)
        ELSE HeardReading(p, one.reading)]

\* Mutant: a free turn is enough, whatever is waiting for one.
TurnIsFree == ~turn

\* Turn::free: the turn, if nothing already waits for it.
Free == ~turn /\ waiting = <<>>

\* hear, on the event loop: one piece of news is decided here, or handed over.
Hear ==
  /\ news # <<>> /\ news' = Tail(news)
  /\ \/ Free /\ Heard(Head(news)) /\ UNCHANGED waiting
     \/ ~Free /\ waiting' = Append(waiting, Head(news)) /\ UNCHANGED panel
  /\ UNCHANGED <<turn, backends>>

\* Turn::staff: the thread that may wait makes what was handed over, in order.
Work ==
  /\ waiting # <<>> /\ ~turn
  /\ waiting' = Tail(waiting) /\ Heard(Head(waiting))
  /\ UNCHANGED <<news, turn, backends>>

\* Some other thread takes the turn while there is news, and is done with it;
\* a turn nobody on the event loop wants is not modelled.
TakeTurn == ~turn /\ news # <<>> /\ waiting = <<>> /\ turn' = TRUE /\ UNCHANGED <<panel, news, waiting, backends>>
TurnDone == turn /\ turn' = FALSE /\ UNCHANGED <<panel, news, waiting, backends>>

-----------------------------------------------------------------------------
Init ==
  /\ panel = [s \in Surfaces |-> [life |-> "new", health |-> "Fresh", held |-> FALSE,
                                  shown |-> NoReading]]
  /\ running = <<>> /\ readers = <<>> /\ data = <<>> /\ health = <<>> /\ news = <<>>
  /\ turn = FALSE /\ waiting = <<>>
  /\ process = <<>> /\ lines = 0 /\ failures = 0

Next ==
  \/ \E s \in Surfaces : OpenPanel(s) \/ Retire(s) \/ RestartPanel(s)
  \/ \E p \in DOMAIN process : Writes(p) \/ Exits(p) \/ Read(p)
  \/ Beat \/ Hear \/ Work \/ TakeTurn \/ TurnDone

\* The reader threads, the beat, the event loop and the thread behind it keep
\* running, and whoever takes the turn gives it back.
Spec ==
  /\ Init /\ [][Next]_vars
  /\ WF_vars(Beat) /\ WF_vars(Hear) /\ WF_vars(Work) /\ WF_vars(TurnDone)
  /\ \A p \in Pids : WF_vars(p \in DOMAIN process /\ Read(p))

-----------------------------------------------------------------------------
TypeOK ==
  /\ \A s \in Surfaces : /\ panel[s].life \in {"new", "open", "gone"}
                         /\ panel[s].health \in Healths /\ panel[s].held \in BOOLEAN
  /\ DOMAIN running \subseteq Keys
  /\ \A key \in DOMAIN running : /\ running[key].pid \in DOMAIN process
                                /\ running[key].health \in {"Fresh", "Stale"}
  /\ readers \in [DOMAIN readers -> Keys] /\ DOMAIN readers \subseteq Surfaces
  /\ DOMAIN data \subseteq DOMAIN readers
  /\ Len(process) <= MaxProcesses /\ lines \in 0..MaxLines

\* The last panel to leave a backend stops it, a restart stops the one before,
\* and no process runs outside the table (subscribe, unsubscribe, restart).
NoOrphans ==
  \A p \in DOMAIN process : process[p].state = "running" =>
    LET key == process[p].key IN key \in DOMAIN running /\ running[key].pid = p

\* A running backend is read by open panels that ask its question, and by one
\* at least (subscribe, unsubscribe, restart).
ReadByOpenPanels ==
  \A key \in DOMAIN running :
    /\ running[key].refs # {}
    /\ \A s \in running[key].refs : Open(s) /\ readers[s] = key

Settled == news \o waiting = <<>> /\ health = <<>> /\ DOMAIN data = {}

\* Once a beat is heard, every panel reading a backend shows the last thing it
\* said, those that joined late too (read, subscribe, drain, feed,
\* Turn::free, "not overtaken by one asked for after it").
LatestShown ==
  Settled => \A key \in DOMAIN running : running[key].last # NoReading =>
    \A s \in running[key].refs : panel[s].shown = running[key].last

\* Once a beat is heard, no panel reading a silent backend passes it off as
\* fresh, one that joined during the silence least of all (drain, subscribe).
SilenceIsShown ==
  Settled => \A key \in DOMAIN running : \A s \in running[key].refs :
    panel[s].health = "Fresh" => running[key].health = "Fresh"

\* A process replaced under its panels takes over all of them (restart,
\* "leaving the others on a dead one would be the worst of both").
RestartTakesAll ==
  [][\A key \in DOMAIN running \cap DOMAIN running' :
       running'[key].pid # running[key].pid => running'[key].refs = ReadersOf(key)]_vars

\* A process that exits under a panel is said to be dead on it, unless it is
\* started over or the panel goes first (drain, health).
ExitIsSaid ==
  \A s \in Surfaces :
    LET bereft == \E key \in DOMAIN running : s \in running[key].refs /\ Exited(key)
    IN  bereft ~> (panel[s].health = "Dead" \/ panel[s].life = "gone"
                   \/ (s \in DOMAIN readers /\ ~bereft /\ readers[s] \in DOMAIN running))

\* A hold survives nothing, a crash least of all: a panel is not kept for a
\* backend that is gone (feed, health).
HoldEndsWithBackend ==
  Settled => \A s \in Surfaces :
    (Open(s) /\ panel[s].held) => readers[s] \in DOMAIN running

\* A panel that says dead is fed by nothing: what it shows never changes again
\* (Health::Dead).
DeadIsGone ==
  Settled => \A key \in DOMAIN running : \A s \in running[key].refs :
    panel[s].health # "Dead"

\* Processes, table and panels agree: nothing runs that the table does not
\* know, and nothing is in it that no open panel reads.
TableIsSound == NoOrphans /\ ReadByOpenPanels

\* What a panel shows of a live backend is what the backend said last, and a
\* silent one is not passed off as fresh.
PanelsAreTold == TypeOK /\ LatestShown /\ SilenceIsShown
=============================================================================
