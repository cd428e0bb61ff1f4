---------------------------- MODULE WindowVerdicts ----------------------------
(****************************************************************************)
(* What asking for a window achieved (surfaces/desktop/src: display.rs,     *)
(* pill.rs, textbox.rs).  A request is carried out somewhere else and       *)
(* later, so the display is asked until it agrees or has had long enough    *)
(* not to, and a thread that cannot wait learns nothing.  Every way the     *)
(* toolkit, the display and the window manager may take one request is a    *)
(* record; the operators say what the caller is told of it.                 *)
(****************************************************************************)
EXTENDS Sequences, SequencesExt

\* display::Verdict
Verdicts == {"yes", "no", "unsure"}

\* What the display answers while it is asked.
Asked == {<<a>> : a \in Verdicts} \cup {<<a, b>> : a \in Verdicts, b \in Verdicts}

\* until: the wanted answer ends the wait; without it a wait that was not
\* possible or whose last answer was none proves nothing.
Until(answers, wanted, patient) ==
  IF Head(answers) = wanted THEN "yes"
  ELSE IF ~patient THEN "unsure"
  ELSE IF wanted \in ToSet(answers) THEN "yes"
  ELSE IF Last(answers) = "unsure" THEN "unsure"
  ELSE "no"

\* came_up, went_down and took_the_keyboard, over whatever the display does.
CameUp == {Until(answers, "yes", patient) : answers \in Asked, patient \in BOOLEAN}
WentDown == {Until(answers, "no", patient) : answers \in Asked, patient \in BOOLEAN}
TookTheKeyboard == {Until(answers, "yes", TRUE) : answers \in Asked}

-----------------------------------------------------------------------------
\* One show of the pill: placed, mapped, up, kept on top.
PillShows == [placed : BOOLEAN, opened : BOOLEAN, up : CameUp, top : BOOLEAN]

\* pill::show and reveal: an indicator that may be hidden or misplaced is
\* doubtful, whatever the display said of its being up.
PillShown(w) ==
  IF ~w.opened \/ w.up = "no" THEN "error"
  ELSE IF ~w.placed \/ ~w.top THEN "doubtful"
  ELSE IF w.up = "yes" THEN "seen"
  ELSE "unsure"

PillHides == [hidden : BOOLEAN, down : WentDown]

\* pill::hide: a pill still up is never said to be down.
PillHidden(w) ==
  IF ~w.hidden \/ w.down = "no" THEN "error"
  ELSE IF w.down = "yes" THEN "down"
  ELSE "unsure"

\* One raise of the textbox: the keyboard claimed before it is mapped, up, on
\* top, the keyboard asked for and held.
BoxShows == [claimed : BOOLEAN, opened : BOOLEAN, up : CameUp, top : BOOLEAN,
             asked : BOOLEAN, holds : TookTheKeyboard]

\* textbox::raise
BoxShown(w) ==
  IF ~w.claimed \/ ~w.opened \/ w.up = "no" THEN "error"
  ELSE IF w.up = "unsure" THEN "unsure"
  ELSE IF ~w.top THEN "doubtful"
  ELSE IF w.asked /\ w.holds = "yes" THEN "ready"
  ELSE "seen"

\* One hide of the textbox, where the toolkit thinks it is up, with the
\* keyboard given back.
BoxHides == [up : BOOLEAN, hidden : BOOLEAN, down : WentDown, restored : BOOLEAN]

\* DesktopSurface::hide_textbox and textbox::hide: a box that is down already
\* has nothing to give back.
BoxHidden(w) == ~w.up \/ (w.hidden /\ w.down # "no" /\ w.restored)
=============================================================================
