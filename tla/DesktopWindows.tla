---------------------------- MODULE DesktopWindows ----------------------------
(****************************************************************************)
(* Who has the keyboard of the desktop, and who gets it back: the           *)
(* transcript box, the conversation window and the form a panel borrows     *)
(* (desktop/src: focus.rs, hud.rs, form.rs, textbox.rs, main.rs), beside    *)
(* the pill and the panels, which refuse it.  A window comes up in two      *)
(* steps, on whichever thread asked: what the keyboard is to go back to is  *)
(* recorded, then it is mapped.  The window manager may or may not give it  *)
(* the keyboard, and may call a window active that does not have it.        *)
(****************************************************************************)
EXTENDS Naturals, FiniteSets

CONSTANTS
  Apps,        \* the person's own windows
  Panels,      \* the panels on the screen
  Hurried,     \* two things happen to windows at a time, or behind one's back
  MaxTroubles  \* windows that do not come up

ASSUME WindowsAssumption ==
  /\ Apps \cap (Panels \cup {"textbox", "hud", "form", "pill", "nobody"}) = {}
  /\ Panels \cap {"textbox", "hud", "form", "pill", "nobody"} = {}
  /\ Hurried \in BOOLEAN /\ MaxTroubles \in Nat

VARIABLES
  keys,      \* the window the keyboard is in
  active,    \* _NET_ACTIVE_WINDOW
  mapped,    \* the windows of Own the display shows
  away,      \* those shown on the workspace the person is not on
  previous,  \* FocusTracker::previous, of the tracker of each
  raising,   \* those whose tracker is set and that are about to be mapped
  question,  \* Form::pending: the panel it is asked for
  lowering,  \* Form::put_away is about to begin
  panel,     \* each panel: open, closing (its name gone, its window not) or gone
  took,      \* the window each took the keyboard from, while that may be said
  covered,   \* another of Own was mapped over the transcript box
  troubles

windows == <<keys, active, mapped, away, previous, raising, question, lowering, panel, took,
             covered, troubles>>

Own == {"textbox", "hud", "form"}
NoWindow == "nobody"
NoQuestion == "nobody"

-----------------------------------------------------------------------------
\* hud::up and form::up, by the display: not on another workspace.
Up(w) == w \in mapped

\* textbox::focused, hud::holds_keyboard, form::holds
Holds(w) == keys = w

\* focus::own_windows
OwnWindows == Own \cup {"pill"} \cup {p \in Panels : panel[p] = "open"}

\* worth_returning_to
Worth(w) == w # NoWindow /\ w \notin OwnWindows

\* FocusTracker::capture, somewhere_to_return: the active window, the
\* keyboard's when that is the companion's, or what was recorded before.
SomewhereToReturn(w) ==
  IF Worth(active) THEN active ELSE IF Worth(keys) THEN keys ELSE previous[w]

\* Never over the window itself.
Capture(w) ==
  previous' = IF Holds(w) THEN previous ELSE [previous EXCEPT ![w] = SomewhereToReturn(w)]

\* textbox::up, by the toolkit: also on another workspace.
TakeIsUp == "textbox" \in mapped \cup away

\* What can be said of whom the keyboard was taken from, once it is in `to`:
\* when it is with the person again, nothing.
TakenFrom(w, to) ==
  [o \in Own |-> IF to \in Apps THEN NoWindow
                 ELSE IF o = w THEN IF keys \in Apps THEN keys ELSE NoWindow
                 ELSE took[o]]

MovesTo(w) == keys' = w /\ active' = w

Quiet == raising = {} /\ ~lowering /\ \A p \in Panels : panel[p] # "closing"

\* Two things at a time only where hurry is looked at.
Unhurried == Hurried \/ Quiet

-----------------------------------------------------------------------------
RoomFor == ~TakeIsUp

\* Hud::show: not over a take; also of a window that is up (report_summon_refusal).
HudShows ==
  /\ Unhurried /\ "hud" \notin raising /\ RoomFor
  /\ Capture("hud") /\ raising' = raising \cup {"hud"}
  /\ UNCHANGED <<keys, active, mapped, away, question, lowering, panel, took, covered, troubles>>

\* DesktopSurface::show_textbox: there is a take to decide about, or the box lost
\* the keyboard.
TextboxShows ==
  /\ Unhurried /\ "textbox" \notin raising
  /\ Capture("textbox") /\ raising' = raising \cup {"textbox"}
  /\ UNCHANGED <<keys, active, mapped, away, question, lowering, panel, took, covered, troubles>>

FormIsFree == question = NoQuestion \/ ~Up("form")

\* Widgets::ask and Form::open, for a panel whose tick was used: refused over a
\* take and over another question.
FormAsks(p) ==
  /\ Unhurried /\ (Hurried \/ "form" \notin away) /\ panel[p] = "open"
  /\ "form" \notin raising /\ ~TakeIsUp /\ FormIsFree
  /\ question' = p /\ Capture("form") /\ raising' = raising \cup {"form"}
  /\ UNCHANGED <<keys, active, mapped, away, lowering, panel, took, covered, troubles>>

\* hud::raise, form::raise, textbox::raise: the keyboard is claimed, the
\* window mapped and made active, and the keyboard asked for.
Mapped(w) ==
  /\ w \in raising /\ raising' = raising \ {w}
  /\ mapped' = mapped \cup {w} /\ away' = away \ {w} /\ active' = w
  /\ \E to \in {w, keys} : keys' = to /\ took' = TakenFrom(w, to)
  /\ covered' = (w # "textbox" /\ (covered \/ "textbox" \in mapped))
  /\ UNCHANGED <<previous, question, lowering, panel, troubles>>

\* The display says it did not come up; a question stays with the form.
NotMapped(w) ==
  /\ w \in raising /\ raising' = raising \ {w}
  /\ troubles < MaxTroubles /\ troubles' = troubles + 1
  /\ UNCHANGED <<keys, active, mapped, away, previous, question, lowering, panel, took, covered>>

-----------------------------------------------------------------------------
\* Wherever the window manager puts a keyboard nothing asked for.
Elsewhere(w) == Apps \cup {NoWindow} \cup (mapped \ {w})

\* FocusTracker::restore, once w is down; with nothing recorded, nothing.
Restored(w) ==
  /\ previous' = [previous EXCEPT ![w] = NoWindow]
  /\ \E to \in IF previous[w] = NoWindow THEN IF keys = w THEN Elsewhere(w) ELSE {keys}
               ELSE IF previous[w] \in Apps THEN {previous[w]} ELSE {NoWindow} :
       MovesTo(to) /\ took' = TakenFrom(NoWindow, to)

\* w is down and the keyboard was never in it.
NotRestored(w) ==
  /\ active' = IF active = w THEN keys ELSE active
  /\ UNCHANGED <<keys, previous, took>>

\* Mutant: the keyboard is given back by a window that does not have it.
GivesBackAlways(w) == Restored(w)

\* Hud::hide, Form::put_away: only a window that has the keyboard gives it back.
GivesBack(w) == IF Holds(w) THEN Restored(w) ELSE NotRestored(w)

Down(w) == mapped' = mapped \ {w} /\ away' = away \ {w}

HudHides ==
  /\ Unhurried /\ Up("hud") /\ "hud" \notin raising
  /\ Down("hud") /\ GivesBack("hud") /\ covered' = FALSE
  /\ UNCHANGED <<raising, question, lowering, panel, troubles>>

\* DesktopSurface::hide_textbox: given back whoever has the keyboard by now.
TextboxHides ==
  /\ TakeIsUp /\ "textbox" \notin raising
  /\ Down("textbox") /\ Restored("textbox") /\ covered' = FALSE
  /\ UNCHANGED <<raising, question, lowering, panel, troubles>>

\* Form::submit and Form::cancel: the question is taken off, and where it was
\* answered the answer goes to the panel it was asked for.
FormAnswered ==
  /\ Unhurried /\ Up("form") /\ question # NoQuestion /\ ~lowering
  /\ question' = NoQuestion /\ lowering' = TRUE
  /\ UNCHANGED <<keys, active, mapped, away, previous, raising, panel, took, covered, troubles>>

\* Form::put_away
FormPutAway ==
  /\ lowering /\ lowering' = FALSE
  /\ IF Up("form") THEN Down("form") /\ GivesBack("form")
     ELSE UNCHANGED <<mapped, away, keys, active, previous, took>>
  /\ UNCHANGED <<raising, question, panel, covered, troubles>>

\* Mutant: a panel that goes leaves its question behind.
Remembered(p) == UNCHANGED <<question, lowering>>

\* Form::forget
Forgotten(p) ==
  /\ question' = IF question = p THEN NoQuestion ELSE question
  /\ lowering' = (lowering \/ question = p)

\* Act::Retire: the form forgets the panel, and its shell is discarded: first
\* the name the display knows it by, then the window.
PanelCloses(p) ==
  /\ Unhurried /\ panel[p] = "open" /\ (Hurried \/ question # p \/ "form" \notin away)
  /\ Forgotten(p) /\ panel' = [panel EXCEPT ![p] = "closing"]
  /\ UNCHANGED <<keys, active, mapped, away, previous, raising, took, covered, troubles>>

PanelGone(p) ==
  /\ panel[p] = "closing" /\ panel' = [panel EXCEPT ![p] = "gone"]
  /\ active' = IF active = p THEN keys ELSE active
  /\ UNCHANGED <<keys, mapped, away, previous, raising, question, lowering, took, covered, troubles>>

-----------------------------------------------------------------------------
\* The person clicks: into a window of their own or of the companion's, or on
\* a panel, which is then called active and gets no key.
Clicks(w) ==
  /\ Unhurried
  /\ w \in Apps \cup mapped
  /\ MovesTo(w) /\ took' = [o \in Own |-> IF w \in Apps \/ o = w THEN NoWindow ELSE took[o]]
  /\ UNCHANGED <<mapped, away, previous, raising, question, lowering, panel, covered, troubles>>

MadeActive(w) ==
  /\ w = "pill" \/ (w \in Panels /\ panel[w] = "open")
  /\ active' = w
  /\ UNCHANGED <<keys, mapped, away, previous, raising, question, lowering, panel, took,
                 covered, troubles>>

\* The person goes to another workspace, or comes back: only the pill and the
\* panels follow.
Switches ==
  /\ Unhurried
  /\ mapped' = away /\ away' = mapped
  /\ \E a \in Apps : MovesTo(a) /\ took' = TakenFrom(NoWindow, a)
  /\ UNCHANGED <<previous, raising, question, lowering, panel, covered, troubles>>

WindowsInit ==
  /\ keys \in Apps /\ active = keys /\ mapped = {} /\ away = {}
  /\ previous = [w \in Own |-> NoWindow] /\ took = previous /\ raising = {}
  /\ question = NoQuestion /\ lowering = FALSE /\ panel = [p \in Panels |-> "open"]
  /\ covered = FALSE /\ troubles = 0

WindowsNext ==
  \/ HudShows \/ HudHides \/ TextboxShows \/ TextboxHides
  \/ FormAnswered \/ FormPutAway \/ Switches
  \/ \E w \in Own : Mapped(w) \/ NotMapped(w)
  \/ \E p \in Panels : FormAsks(p) \/ PanelCloses(p) \/ PanelGone(p)
  \/ \E w \in Apps \cup Own : Clicks(w)
  \/ \E w \in Panels \cup {"pill"} : MadeActive(w)

WindowsSpec == WindowsInit /\ [][WindowsNext]_windows

-----------------------------------------------------------------------------
WindowsTypeOK ==
  /\ keys \in Apps \cup Own \cup {NoWindow}
  /\ active \in Apps \cup Own \cup Panels \cup {"pill", NoWindow}
  /\ mapped \cup away \cup raising \subseteq Own
  /\ question \in Panels \cup {NoQuestion} /\ panel \in [Panels -> {"open", "closing", "gone"}]
  /\ previous \in [Own -> Apps \cup Own \cup Panels \cup {NoWindow}]
  /\ took \in [Own -> Apps \cup {NoWindow}] /\ troubles \in 0..MaxTroubles

\* The keyboard is only ever to go back to a window of the person's: never to
\* one of the companion's, whatever the window manager called active
\* (focus.rs, "never somewhere to give the desktop back to").
ReturnsToPerson == \A w \in Own : previous[w] \in Apps \cup {NoWindow}

\* Nothing of the companion's comes up over a take in the transcript box
\* (hud.rs, "the box wins that band outright"; form.rs).
NothingOverTheTake == ~covered

KeysTaken == keys \in Apps /\ keys' \in Apps /\ keys' # keys

\* A window of the companion's goes down with the keyboard it took out of one
\* of the person's.
GoesDown(w) == w \in mapped /\ w \notin mapped' \cup away' /\ keys = w /\ took[w] # NoWindow

\* Where the person types does not change under them, from one of their
\* windows to another, by the conversation or the form: only a window that had
\* the keyboard gives it back (hud.rs, "an unguarded restore is a plain focus
\* steal"; the transcript box does not ask).  One that took it out of a window
\* of theirs and goes down gives it back there: through panels clicked on and
\* called active, the pill, and other windows coming and going.
KeyboardGoesBack ==
  [][/\ KeysTaken => Clicks(keys') \/ Switches \/ TextboxHides
     /\ \A w \in Own : GoesDown(w) => keys' = took[w]]_windows

\* The same of the transcript box, which gives back unguarded.
BoxStealsNothing == [][KeysTaken => (Clicks(keys') \/ Switches)]_windows

\* The question in the form leaves it by being answered, or with its panel: no
\* other question types over the words in it (form.rs, "a second question
\* would type over them").
WordsAreKept ==
  [][(question # NoQuestion /\ "form" \in mapped \cup away /\ question' # question)
       => question' = NoQuestion]_windows

\* What the form asks has a panel for the answer to land on; once nothing is on
\* its way the form is up exactly while it asks something, a window that would
\* not come up aside (form.rs open, forget, put_away).
FormAsksForSomeone ==
  /\ question # NoQuestion => panel[question] = "open"
  /\ ("form" \notin raising /\ ~lowering) =>
       /\ "form" \in mapped \cup away => question # NoQuestion
       /\ (question # NoQuestion /\ troubles = 0) => "form" \in mapped \cup away

\* Nothing of the companion's is in the person's way: the keyboard is to go
\* back to a window of theirs, nothing covers a take, and the form is up for a
\* panel that waits for its answer.
WindowsAreSound == ReturnsToPerson /\ NothingOverTheTake /\ FormAsksForSomeone
=============================================================================
