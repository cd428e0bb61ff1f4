----------------------------- MODULE DesktopProofs -----------------------------
(****************************************************************************)
(* What the desktop surface promises of what it puts on the screen: of the  *)
(* keyboard (DesktopWindows), for any number of windows of the person's,    *)
(* panels and windows that do not come up, as long as one thing happens to  *)
(* the windows at a time; of the warm shells (PanelPool), for any number of *)
(* shells, labels, opening threads and windows that cannot be built; and of *)
(* where the panels stand (WidgetShelf), for any number of panels of any    *)
(* heights, any corners and sizes of the screen, and windows that are lost. *)
(****************************************************************************)
EXTENDS DesktopWindows, PanelPool, WidgetShelf, FiniteSetTheorems, TLAPS

-----------------------------------------------------------------------------
(* The keyboard and the windows.                                            *)

\* One thing at a time (Hurried, in the actions of DesktopWindows).
OneAtATime == ~Hurried

\* Where the keyboard and the window manager's attention can be.
KeyboardTyped ==
  /\ keys \in Apps \cup Own \cup {NoWindow}
  /\ active \in Apps \cup Own \cup Panels \cup {"pill", NoWindow}
  /\ previous \in [Own -> Apps \cup {NoWindow}]
  /\ took \in [Own -> Apps \cup {NoWindow}]

WindowsTyped ==
  /\ KeyboardTyped
  /\ mapped \subseteq Own /\ away \subseteq Own /\ raising \subseteq Own
  /\ mapped \cap away = {}
  /\ question \in Panels \cup {NoQuestion} /\ lowering \in BOOLEAN
  /\ panel \in [Panels -> {"open", "closing", "gone"}]
  /\ covered \in BOOLEAN /\ troubles \in 0..MaxTroubles

\* A window the window manager calls active and that is the person's has the
\* keyboard; a panel that is gone is called active by nobody.
ActiveIsThere ==
  /\ active \in Apps => keys = active
  /\ active \in Panels => panel[active] # "gone"

\* One window comes up at a time, over no take, and what it is to give back is
\* where the person types.
RaisingAlone ==
  \A w \in raising :
    /\ raising = {w}
    /\ w # "textbox" => "textbox" \notin mapped \cup away
    /\ keys \in Apps => previous[w] = keys

\* A window that took the keyboard out of one of the person's remembers which,
\* until the person has it back.
TakenIsRemembered ==
  /\ \A w \in Own : took[w] # NoWindow => previous[w] = took[w]
  /\ keys \in Apps => \A w \in Own : took[w] = NoWindow

\* A form on its way up asks something, one on its way down asks nothing and
\* is on the person's workspace.
FormInOrder ==
  /\ "form" \in raising => question # NoQuestion
  /\ lowering => raising = {} /\ question = NoQuestion /\ "form" \notin away

WindowsInv ==
  /\ WindowsTyped /\ ActiveIsThere /\ RaisingAlone /\ TakenIsRemembered /\ FormInOrder
  /\ NothingOverTheTake /\ FormAsksForSomeone

-----------------------------------------------------------------------------
\* The first state.
LEMMA WindowsBegin == WindowsInit => WindowsInv
<1> SUFFICES ASSUME WindowsInit PROVE WindowsInv
  OBVIOUS
<1> USE DEF WindowsInit, Own, NoWindow, NoQuestion
<1>1. WindowsTyped
  <2>1. previous \in [Own -> Apps \cup {NoWindow}] /\ took = previous
    OBVIOUS
  <2>2. KeyboardTyped
    BY <2>1 DEF KeyboardTyped
  <2>3. troubles \in 0..MaxTroubles
    BY WindowsAssumption
  <2> QED
    BY <2>2, <2>3 DEF WindowsTyped
<1>2. ActiveIsThere
  BY DEF ActiveIsThere
<1>3. RaisingAlone /\ TakenIsRemembered /\ FormInOrder
  BY DEF RaisingAlone, TakenIsRemembered, FormInOrder
<1>4. NothingOverTheTake /\ FormAsksForSomeone
  BY DEF NothingOverTheTake, FormAsksForSomeone
<1> QED
  BY <1>1, <1>2, <1>3, <1>4 DEF WindowsInv

\* What focus.rs returns to is a window of the person's: the one with the
\* keyboard where one has it, and otherwise what was recorded before.
LEMMA ReturnIsThePersons ==
  ASSUME WindowsTyped, ActiveIsThere, Quiet, NEW w \in Own
  PROVE  /\ SomewhereToReturn(w) \in Apps \cup {NoWindow}
         /\ keys \in Apps => SomewhereToReturn(w) = keys
         /\ keys \notin Apps => SomewhereToReturn(w) = previous[w]
<1>1. active # NoWindow /\ active \notin OwnWindows => active \in Apps
  <2> SUFFICES ASSUME active # NoWindow, active \notin OwnWindows, active \notin Apps
               PROVE  FALSE
    OBVIOUS
  <2>1. active \in Panels /\ panel[active] # "open"
    BY DEF WindowsTyped, KeyboardTyped, OwnWindows
  <2>2. panel[active] \in {"closing", "gone"}
    BY <2>1 DEF WindowsTyped
  <2> QED
    BY <2>1, <2>2 DEF ActiveIsThere, Quiet
<1>2. keys # NoWindow /\ keys \notin OwnWindows <=> keys \in Apps
  BY WindowsAssumption DEF WindowsTyped, KeyboardTyped, OwnWindows, Own, NoWindow
<1>3. active \in Apps => keys = active
  BY DEF ActiveIsThere
<1>4. previous[w] \in Apps \cup {NoWindow}
  BY DEF WindowsTyped, KeyboardTyped
<1> QED
  BY <1>1, <1>2, <1>3, <1>4 DEF SomewhereToReturn, Worth

\* Recording it: the window now on its way up is to give back where the person
\* types, and while they type in none of theirs nothing recorded changes.
LEMMA CaptureRecords ==
  ASSUME WindowsTyped, ActiveIsThere, Quiet, NEW w \in Own, Capture(w)
  PROVE  /\ previous' \in [Own -> Apps \cup {NoWindow}]
         /\ keys \in Apps => previous'[w] = keys
         /\ keys \notin Apps => previous' = previous
<1>1. previous \in [Own -> Apps \cup {NoWindow}]
  BY DEF WindowsTyped, KeyboardTyped
<1>2. keys \in Apps => ~Holds(w)
  BY WindowsAssumption DEF Holds, Own
<1>3. CASE Holds(w)
  BY <1>1, <1>2, <1>3 DEF Capture
<1>4. CASE ~Holds(w)
  <2>1. previous' = [previous EXCEPT ![w] = SomewhereToReturn(w)]
    BY <1>4 DEF Capture
  <2> QED
    BY <1>1, <2>1, ReturnIsThePersons
<1> QED
  BY <1>3, <1>4

-----------------------------------------------------------------------------
\* A window begins to come up: all three ways.
LEMMA RaisedInOrder ==
  ASSUME WindowsInv, Quiet, NEW w \in Own, Capture(w), raising' = raising \cup {w},
         w # "textbox" => ~TakeIsUp,
         UNCHANGED <<keys, active, mapped, away, lowering, panel, took, covered, troubles>>,
         question' \in Panels \cup {NoQuestion}
  PROVE  /\ WindowsTyped' /\ ActiveIsThere' /\ RaisingAlone' /\ TakenIsRemembered'
         /\ NothingOverTheTake' /\ raising' = {w} /\ ~lowering'
<1>1. WindowsTyped /\ ActiveIsThere /\ RaisingAlone /\ TakenIsRemembered /\ NothingOverTheTake
  BY DEF WindowsInv
<1>2. /\ previous' \in [Own -> Apps \cup {NoWindow}]
      /\ keys \in Apps => previous'[w] = keys
      /\ keys \notin Apps => previous' = previous
  BY <1>1, CaptureRecords
<1>3. raising' = {w} /\ ~lowering'
  BY DEF Quiet
<1>4. WindowsTyped'
  BY <1>1, <1>2, <1>3 DEF WindowsTyped, KeyboardTyped
<1>5. ActiveIsThere' /\ NothingOverTheTake'
  BY <1>1 DEF ActiveIsThere, NothingOverTheTake
<1>6. RaisingAlone'
  BY <1>2, <1>3 DEF RaisingAlone, TakeIsUp
<1>7. TakenIsRemembered'
  BY <1>1, <1>2 DEF TakenIsRemembered
<1> QED
  BY <1>3, <1>4, <1>5, <1>6, <1>7

\* Hud::show
LEMMA HudShowsInOrder ==
  ASSUME OneAtATime, WindowsInv, HudShows PROVE WindowsInv'
<1>1. Quiet
  BY DEF OneAtATime, HudShows, Unhurried
<1>2. "hud" \in Own /\ question \in Panels \cup {NoQuestion}
  BY DEF Own, WindowsInv, WindowsTyped
<1>3. /\ WindowsTyped' /\ ActiveIsThere' /\ RaisingAlone' /\ TakenIsRemembered'
      /\ NothingOverTheTake' /\ raising' = {"hud"} /\ ~lowering'
  BY <1>1, <1>2, RaisedInOrder DEF HudShows, RoomFor
<1>4. FormInOrder'
  BY <1>3 DEF FormInOrder
<1>5. FormAsksForSomeone'
  BY <1>1, <1>3 DEF WindowsInv, FormAsksForSomeone, HudShows, Quiet
<1> QED
  BY <1>3, <1>4, <1>5 DEF WindowsInv

\* DesktopSurface::show_textbox
LEMMA TextboxShowsInOrder ==
  ASSUME OneAtATime, WindowsInv, TextboxShows PROVE WindowsInv'
<1>1. Quiet
  BY DEF OneAtATime, TextboxShows, Unhurried
<1>2. "textbox" \in Own /\ question \in Panels \cup {NoQuestion}
  BY DEF Own, WindowsInv, WindowsTyped
<1>3. /\ WindowsTyped' /\ ActiveIsThere' /\ RaisingAlone' /\ TakenIsRemembered'
      /\ NothingOverTheTake' /\ raising' = {"textbox"} /\ ~lowering'
  BY <1>1, <1>2, RaisedInOrder DEF TextboxShows
<1>4. FormInOrder'
  BY <1>3 DEF FormInOrder
<1>5. FormAsksForSomeone'
  BY <1>1, <1>3 DEF WindowsInv, FormAsksForSomeone, TextboxShows, Quiet
<1> QED
  BY <1>3, <1>4, <1>5 DEF WindowsInv

\* Widgets::ask and Form::open
LEMMA FormAsksInOrder ==
  ASSUME OneAtATime, WindowsInv, NEW p \in Panels, FormAsks(p) PROVE WindowsInv'
<1>1. Quiet
  BY DEF OneAtATime, FormAsks, Unhurried
<1>2. "form" \in Own /\ question' = p /\ p # NoQuestion
  BY WindowsAssumption DEF Own, FormAsks, NoQuestion
<1>3. /\ WindowsTyped' /\ ActiveIsThere' /\ RaisingAlone' /\ TakenIsRemembered'
      /\ NothingOverTheTake' /\ raising' = {"form"} /\ ~lowering'
  BY <1>1, <1>2, RaisedInOrder DEF FormAsks
<1>4. FormInOrder'
  BY <1>2, <1>3 DEF FormInOrder
<1>5. FormAsksForSomeone'
  BY <1>2, <1>3 DEF FormAsksForSomeone, FormAsks
<1> QED
  BY <1>3, <1>4, <1>5 DEF WindowsInv

-----------------------------------------------------------------------------
\* Where what is said of the taking goes with the keyboard: when it is with
\* the person, nothing is said; no window has it said of it anew but the one
\* the keyboard moves to.
LEMMA TakenFromWhom ==
  ASSUME took \in [Own -> Apps \cup {NoWindow}], NEW w, NEW to
  PROVE  /\ TakenFrom(w, to) \in [Own -> Apps \cup {NoWindow}]
         /\ to \in Apps => \A o \in Own : TakenFrom(w, to)[o] = NoWindow
         /\ \A o \in Own : o # w =>
              TakenFrom(w, to)[o] \in {took[o], NoWindow}
         /\ (w \in Own /\ TakenFrom(w, to)[w] # NoWindow) =>
              (keys \in Apps /\ TakenFrom(w, to)[w] = keys)
  BY DEF TakenFrom

\* hud::raise, form::raise, textbox::raise
LEMMA MappedInOrder ==
  ASSUME OneAtATime, WindowsInv, NEW w \in Own, Mapped(w) PROVE WindowsInv'
<1>1. WindowsTyped /\ ActiveIsThere /\ RaisingAlone /\ TakenIsRemembered /\ FormInOrder
  BY DEF WindowsInv
<1>2. raising = {w} /\ raising' = {} /\ (w # "textbox" => "textbox" \notin mapped \cup away)
  BY <1>1 DEF Mapped, RaisingAlone
<1>3. PICK to \in {w, keys} : keys' = to /\ took' = TakenFrom(w, to)
  BY DEF Mapped
<1>4. /\ took \in [Own -> Apps \cup {NoWindow}]
      /\ previous \in [Own -> Apps \cup {NoWindow}]
      /\ to \in Apps \cup Own \cup {NoWindow}
  BY <1>1 DEF WindowsTyped, KeyboardTyped
<1>5. /\ took' \in [Own -> Apps \cup {NoWindow}]
      /\ keys' \in Apps => \A o \in Own : took'[o] = NoWindow
      /\ \A o \in Own : o # w => took'[o] \in {took[o], NoWindow}
      /\ took'[w] # NoWindow => (keys \in Apps /\ took'[w] = keys)
  BY <1>3, <1>4, TakenFromWhom
<1>6. WindowsTyped'
  <2>1. KeyboardTyped'
    BY <1>3, <1>4, <1>5 DEF KeyboardTyped, Mapped
  <2> QED
    BY <1>1, <1>2, <2>1 DEF WindowsTyped, Mapped
<1>7. ActiveIsThere'
  BY WindowsAssumption DEF ActiveIsThere, Mapped, Own
<1>8. RaisingAlone'
  BY <1>2 DEF RaisingAlone
<1>9. TakenIsRemembered'
  <2>1. keys \in Apps => previous[w] = keys
    BY <1>1, <1>2 DEF RaisingAlone
  <2>2. previous' = previous
    BY DEF Mapped
  <2> QED
    BY <1>1, <1>5, <2>1, <2>2 DEF TakenIsRemembered
<1>10. FormInOrder'
  BY <1>1, <1>2 DEF FormInOrder, Mapped
<1>11. NothingOverTheTake'
  BY <1>2 DEF WindowsInv, NothingOverTheTake, Mapped
<1>12. FormAsksForSomeone'
  BY <1>1, <1>2 DEF WindowsInv, FormAsksForSomeone, FormInOrder, Mapped, Own
<1> QED
  BY <1>6, <1>7, <1>8, <1>9, <1>10, <1>11, <1>12 DEF WindowsInv

\* The display says it did not come up.
LEMMA NotMappedInOrder ==
  ASSUME OneAtATime, WindowsInv, NEW w \in Own, NotMapped(w) PROVE WindowsInv'
<1>1. WindowsTyped /\ ActiveIsThere /\ RaisingAlone /\ TakenIsRemembered /\ FormInOrder
  BY DEF WindowsInv
<1>2. raising = {w} /\ raising' = {}
  BY <1>1 DEF NotMapped, RaisingAlone
<1>3. troubles' \in 0..MaxTroubles /\ troubles' # 0
  BY <1>1, WindowsAssumption DEF WindowsTyped, NotMapped
<1>4. WindowsTyped'
  BY <1>1, <1>2, <1>3 DEF WindowsTyped, KeyboardTyped, NotMapped
<1>5. ActiveIsThere' /\ RaisingAlone' /\ TakenIsRemembered' /\ FormInOrder'
  BY <1>1, <1>2 DEF ActiveIsThere, RaisingAlone, TakenIsRemembered, FormInOrder, NotMapped
<1>6. NothingOverTheTake' /\ FormAsksForSomeone'
  BY <1>1, <1>2, <1>3
  DEF WindowsInv, NothingOverTheTake, FormAsksForSomeone, FormInOrder, NotMapped, Own
<1> QED
  BY <1>4, <1>5, <1>6 DEF WindowsInv

-----------------------------------------------------------------------------
\* A window that has the keyboard gives it back: to the window of the person's
\* recorded, and where none is, wherever the window manager puts it.
LEMMA RestoredInOrder ==
  ASSUME WindowsInv, NEW w \in Own, Restored(w), UNCHANGED panel
  PROVE  /\ KeyboardTyped' /\ ActiveIsThere' /\ TakenIsRemembered'
         /\ (keys = w /\ took[w] # NoWindow) => keys' = took[w]
<1>1. WindowsTyped /\ ActiveIsThere /\ TakenIsRemembered
  BY DEF WindowsInv
<1>2. PICK to \in IF previous[w] = NoWindow THEN IF keys = w THEN Elsewhere(w) ELSE {keys}
                   ELSE IF previous[w] \in Apps THEN {previous[w]} ELSE {NoWindow} :
        MovesTo(to) /\ took' = TakenFrom(NoWindow, to)
  BY DEF Restored
<1>3. /\ previous \in [Own -> Apps \cup {NoWindow}] /\ took \in [Own -> Apps \cup {NoWindow}]
      /\ keys \in Apps \cup Own \cup {NoWindow} /\ mapped \subseteq Own
  BY <1>1 DEF WindowsTyped, KeyboardTyped
<1>4. to \in Apps \cup Own \cup {NoWindow}
  BY <1>2, <1>3 DEF Elsewhere
<1>5. previous' = [previous EXCEPT ![w] = NoWindow] /\ keys' = to /\ active' = to
  BY <1>2 DEF Restored, MovesTo
<1>6. /\ took' \in [Own -> Apps \cup {NoWindow}]
      /\ to \in Apps => \A o \in Own : took'[o] = NoWindow
      /\ \A o \in Own : took'[o] \in {took[o], NoWindow}
  BY <1>2, <1>3, TakenFromWhom DEF Own, NoWindow
<1>7. previous' \in [Own -> Apps \cup {NoWindow}]
  BY <1>3, <1>5
<1>8. took[w] # NoWindow => previous[w] = took[w] /\ previous[w] \in Apps
  BY <1>1, <1>3 DEF TakenIsRemembered
<1>9. took[w] # NoWindow => to = took[w] /\ to \in Apps
  BY <1>2, <1>8
<1>10. TakenIsRemembered'
  <2>1. \A o \in Own : took'[o] # NoWindow => previous'[o] = took'[o]
    <3> SUFFICES ASSUME NEW o \in Own, took'[o] # NoWindow PROVE previous'[o] = took'[o]
      OBVIOUS
    <3>1. took'[o] = took[o] /\ previous[o] = took[o] /\ to \notin Apps
      BY <1>1, <1>6 DEF TakenIsRemembered
    <3>2. o # w
      BY <1>9, <3>1
    <3> QED
      BY <1>3, <1>5, <3>1, <3>2
  <2> QED
    BY <1>5, <1>6, <2>1 DEF TakenIsRemembered
<1>11. ActiveIsThere'
  BY <1>4, <1>5, WindowsAssumption DEF ActiveIsThere, Own, NoWindow
<1> QED
  BY <1>4, <1>5, <1>6, <1>7, <1>9, <1>10, <1>11 DEF KeyboardTyped

\* Hud::hide and Form::put_away, which ask first who has it.
LEMMA GivesBackInOrder ==
  ASSUME WindowsInv, NEW w \in Own, GivesBack(w), UNCHANGED panel
  PROVE  /\ KeyboardTyped' /\ ActiveIsThere' /\ TakenIsRemembered'
         /\ (keys = w /\ took[w] # NoWindow) => keys' = took[w]
         /\ keys # w => keys' = keys
<1>1. CASE Holds(w)
  BY <1>1, RestoredInOrder DEF GivesBack, Holds
<1>2. CASE ~Holds(w)
  <2>1. keys # w /\ NotRestored(w)
    BY <1>2 DEF GivesBack, Holds
  <2>2. WindowsTyped /\ ActiveIsThere /\ TakenIsRemembered
    BY DEF WindowsInv
  <2>3. KeyboardTyped'
    BY <2>1, <2>2 DEF WindowsTyped, KeyboardTyped, NotRestored
  <2>4. ActiveIsThere'
    BY <2>1, <2>2, WindowsAssumption
    DEF WindowsTyped, KeyboardTyped, ActiveIsThere, NotRestored, Own, NoWindow
  <2>5. TakenIsRemembered'
    BY <2>1, <2>2 DEF TakenIsRemembered, NotRestored
  <2> QED
    BY <2>1, <2>3, <2>4, <2>5 DEF NotRestored
<1> QED
  BY <1>1, <1>2

-----------------------------------------------------------------------------
\* Hud::hide
LEMMA HudHidesInOrder ==
  ASSUME OneAtATime, WindowsInv, HudHides PROVE WindowsInv'
<1>1. Quiet /\ "hud" \in Own /\ UNCHANGED panel /\ GivesBack("hud")
  BY DEF OneAtATime, HudHides, Unhurried, Own
<1>2. KeyboardTyped' /\ ActiveIsThere' /\ TakenIsRemembered'
  BY <1>1, GivesBackInOrder
<1>3. WindowsTyped'
  BY <1>2 DEF WindowsInv, WindowsTyped, HudHides, Down
<1>4. RaisingAlone' /\ FormInOrder'
  BY <1>1 DEF RaisingAlone, FormInOrder, HudHides, Quiet
<1>5. NothingOverTheTake' /\ FormAsksForSomeone'
  BY DEF WindowsInv, NothingOverTheTake, FormAsksForSomeone, HudHides, Down
<1> QED
  BY <1>2, <1>3, <1>4, <1>5 DEF WindowsInv

\* DesktopSurface::hide_textbox
LEMMA TextboxHidesInOrder ==
  ASSUME OneAtATime, WindowsInv, TextboxHides PROVE WindowsInv'
<1>1. "textbox" \in Own /\ UNCHANGED panel /\ Restored("textbox")
  BY DEF TextboxHides, Own
<1>2. KeyboardTyped' /\ ActiveIsThere' /\ TakenIsRemembered'
  BY <1>1, RestoredInOrder
<1>3. raising = {}
  BY DEF WindowsInv, RaisingAlone, TextboxHides, TakeIsUp
<1>4. WindowsTyped'
  BY <1>2 DEF WindowsInv, WindowsTyped, TextboxHides, Down
<1>5. RaisingAlone'
  BY <1>3 DEF RaisingAlone, TextboxHides
<1>6. FormInOrder'
  BY <1>3 DEF WindowsInv, FormInOrder, TextboxHides, Down
<1>7. NothingOverTheTake' /\ FormAsksForSomeone'
  BY DEF WindowsInv, NothingOverTheTake, FormAsksForSomeone, TextboxHides, Down
<1> QED
  BY <1>2, <1>4, <1>5, <1>6, <1>7 DEF WindowsInv

\* Form::submit and Form::cancel
LEMMA FormAnsweredInOrder ==
  ASSUME OneAtATime, WindowsInv, FormAnswered PROVE WindowsInv'
<1>1. Quiet
  BY DEF OneAtATime, FormAnswered, Unhurried
<1>2. "form" \notin away
  BY DEF FormAnswered, Up, WindowsInv, WindowsTyped
<1>3. WindowsTyped' /\ ActiveIsThere' /\ TakenIsRemembered' /\ NothingOverTheTake'
  BY DEF WindowsInv, WindowsTyped, KeyboardTyped, ActiveIsThere, TakenIsRemembered,
         NothingOverTheTake, FormAnswered
<1>4. RaisingAlone' /\ FormInOrder' /\ FormAsksForSomeone'
  BY <1>1, <1>2 DEF RaisingAlone, FormInOrder, FormAsksForSomeone, FormAnswered, Quiet
<1> QED
  BY <1>3, <1>4 DEF WindowsInv

\* Form::put_away
LEMMA FormPutAwayInOrder ==
  ASSUME OneAtATime, WindowsInv, FormPutAway PROVE WindowsInv'
<1>1. /\ lowering /\ raising = {} /\ question = NoQuestion /\ "form" \notin away
      /\ "form" \in Own /\ UNCHANGED panel
  BY DEF WindowsInv, FormInOrder, FormPutAway, Own
<1>2. KeyboardTyped' /\ ActiveIsThere' /\ TakenIsRemembered'
  <2>1. CASE Up("form")
    BY <1>1, <2>1, GivesBackInOrder DEF FormPutAway
  <2>2. CASE ~Up("form")
    BY <1>1, <2>2 DEF WindowsInv, WindowsTyped, KeyboardTyped, ActiveIsThere, TakenIsRemembered,
                      FormPutAway
  <2> QED
    BY <2>1, <2>2
<1>3. "form" \notin mapped' \cup away' /\ mapped' \subseteq mapped /\ away' \subseteq away
  BY <1>1 DEF FormPutAway, Down, Up
<1>4. WindowsTyped'
  BY <1>2, <1>3 DEF WindowsInv, WindowsTyped, FormPutAway
<1>5. RaisingAlone' /\ FormInOrder' /\ NothingOverTheTake' /\ FormAsksForSomeone'
  BY <1>1, <1>3
  DEF WindowsInv, RaisingAlone, FormInOrder, NothingOverTheTake, FormAsksForSomeone, FormPutAway
<1> QED
  BY <1>2, <1>4, <1>5 DEF WindowsInv

\* Act::Retire
LEMMA PanelClosesInOrder ==
  ASSUME OneAtATime, WindowsInv, NEW p \in Panels, PanelCloses(p) PROVE WindowsInv'
<1>1. Quiet /\ (question = p => "form" \notin away) /\ p # NoQuestion
  BY WindowsAssumption DEF OneAtATime, PanelCloses, Unhurried, NoQuestion
<1>2. WindowsTyped
  BY DEF WindowsInv
<1>3. panel' = [panel EXCEPT ![p] = "closing"] /\ panel \in [Panels -> {"open", "closing", "gone"}]
  BY <1>2 DEF PanelCloses, WindowsTyped
<1>4. panel' \in [Panels -> {"open", "closing", "gone"}]
  BY <1>3
<1>5. /\ question' = IF question = p THEN NoQuestion ELSE question
      /\ lowering' = (lowering \/ question = p)
  BY DEF PanelCloses, Forgotten
<1>6. WindowsTyped'
  BY <1>2, <1>4, <1>5 DEF WindowsTyped, KeyboardTyped, PanelCloses
<1>7. ActiveIsThere'
  <2>1. ActiveIsThere /\ active' = active /\ keys' = keys
    BY DEF WindowsInv, PanelCloses
  <2> QED
    BY <1>3, <2>1 DEF ActiveIsThere
<1>8. RaisingAlone' /\ TakenIsRemembered' /\ NothingOverTheTake'
  BY DEF WindowsInv, RaisingAlone, TakenIsRemembered, NothingOverTheTake, PanelCloses
<1>9. FormInOrder'
  BY <1>1, <1>5 DEF FormInOrder, PanelCloses, Quiet
<1>10. FormAsksForSomeone'
  <2>1. FormAsksForSomeone /\ question \in Panels \cup {NoQuestion}
    BY DEF WindowsInv, WindowsTyped
  <2>2. question' # NoQuestion => question' = question /\ question # p
    BY <1>1, <1>5
  <2>3. question' # NoQuestion => panel'[question'] = "open"
    BY <1>3, <2>1, <2>2 DEF FormAsksForSomeone
  <2>4. /\ raising' = raising /\ mapped' = mapped /\ away' = away /\ troubles' = troubles
        /\ ~lowering' => ~lowering /\ question' = question
    BY <1>5 DEF PanelCloses
  <2> QED
    BY <2>1, <2>3, <2>4 DEF FormAsksForSomeone
<1> QED
  BY <1>6, <1>7, <1>8, <1>9, <1>10 DEF WindowsInv

\* The window of a panel that closes is gone.
LEMMA PanelGoneInOrder ==
  ASSUME OneAtATime, WindowsInv, NEW p \in Panels, PanelGone(p) PROVE WindowsInv'
<1>1. WindowsTyped /\ ActiveIsThere /\ FormAsksForSomeone
  BY DEF WindowsInv
<1>2. /\ panel' = [panel EXCEPT ![p] = "gone"] /\ panel[p] = "closing"
      /\ panel \in [Panels -> {"open", "closing", "gone"}]
  BY <1>1 DEF PanelGone, WindowsTyped
<1>3. panel' \in [Panels -> {"open", "closing", "gone"}]
  BY <1>2
<1>4. active' = (IF active = p THEN keys ELSE active) /\ keys' = keys
  BY DEF PanelGone
<1>5. active' \in Apps \cup Own \cup Panels \cup {"pill", NoWindow}
  BY <1>1, <1>4 DEF WindowsTyped, KeyboardTyped
<1>6. WindowsTyped'
  BY <1>1, <1>3, <1>5 DEF WindowsTyped, KeyboardTyped, PanelGone
<1>7. keys \notin Panels
  BY <1>1, WindowsAssumption DEF WindowsTyped, KeyboardTyped, Own, NoWindow
<1>8. ActiveIsThere'
  BY <1>1, <1>2, <1>4, <1>7 DEF ActiveIsThere
<1>9. RaisingAlone' /\ TakenIsRemembered' /\ FormInOrder' /\ NothingOverTheTake'
  BY DEF WindowsInv, RaisingAlone, TakenIsRemembered, FormInOrder, NothingOverTheTake, PanelGone
<1>10. FormAsksForSomeone'
  <2>1. question # NoQuestion => question # p /\ panel'[question] = "open"
    BY <1>1, <1>2 DEF FormAsksForSomeone, WindowsTyped
  <2> QED
    BY <1>1, <2>1 DEF FormAsksForSomeone, PanelGone
<1> QED
  BY <1>6, <1>8, <1>9, <1>10 DEF WindowsInv

-----------------------------------------------------------------------------
\* The person clicks into a window of theirs or of the companion's.
LEMMA ClicksInOrder ==
  ASSUME OneAtATime, WindowsInv, NEW w \in Apps \cup Own, Clicks(w) PROVE WindowsInv'
<1>1. Quiet
  BY DEF OneAtATime, Clicks, Unhurried
<1>2. WindowsTyped /\ TakenIsRemembered
  BY DEF WindowsInv
<1>3. keys' = w /\ active' = w
  BY DEF Clicks, MovesTo
<1>4. took' = [o \in Own |-> IF w \in Apps \/ o = w THEN NoWindow ELSE took[o]]
  BY DEF Clicks
<1>5. took' \in [Own -> Apps \cup {NoWindow}]
  BY <1>2, <1>4 DEF WindowsTyped, KeyboardTyped
<1>6. WindowsTyped'
  BY <1>2, <1>3, <1>5 DEF WindowsTyped, KeyboardTyped, Clicks
<1>7. ActiveIsThere'
  BY <1>3, WindowsAssumption DEF ActiveIsThere, Own
<1>8. TakenIsRemembered'
  BY <1>2, <1>3, <1>4 DEF TakenIsRemembered, Clicks
<1>9. RaisingAlone' /\ FormInOrder' /\ NothingOverTheTake' /\ FormAsksForSomeone'
  BY <1>1
  DEF WindowsInv, RaisingAlone, FormInOrder, NothingOverTheTake, FormAsksForSomeone, Clicks, Quiet
<1> QED
  BY <1>6, <1>7, <1>8, <1>9 DEF WindowsInv

\* A window that gets no key is called active.
LEMMA MadeActiveInOrder ==
  ASSUME OneAtATime, WindowsInv, NEW w \in Panels \cup {"pill"}, MadeActive(w) PROVE WindowsInv'
<1>1. w \notin Apps /\ (w \in Panels => panel[w] = "open")
  BY WindowsAssumption DEF MadeActive
<1>2. WindowsTyped' /\ ActiveIsThere'
  BY <1>1 DEF WindowsInv, WindowsTyped, KeyboardTyped, ActiveIsThere, MadeActive
<1>3. RaisingAlone' /\ TakenIsRemembered' /\ FormInOrder'
  BY DEF WindowsInv, RaisingAlone, TakenIsRemembered, FormInOrder, MadeActive
<1>4. NothingOverTheTake' /\ FormAsksForSomeone'
  BY DEF WindowsInv, NothingOverTheTake, FormAsksForSomeone, MadeActive
<1> QED
  BY <1>2, <1>3, <1>4 DEF WindowsInv

\* The person goes to another workspace.
LEMMA SwitchesInOrder ==
  ASSUME OneAtATime, WindowsInv, Switches PROVE WindowsInv'
<1>1. Quiet
  BY DEF OneAtATime, Switches, Unhurried
<1>2. WindowsTyped
  BY DEF WindowsInv
<1>3. PICK a \in Apps : MovesTo(a) /\ took' = TakenFrom(NoWindow, a)
  BY DEF Switches
<1>4. keys' = a /\ active' = a
  BY <1>3 DEF MovesTo
<1>5. took' \in [Own -> Apps \cup {NoWindow}] /\ \A o \in Own : took'[o] = NoWindow
  BY <1>2, <1>3, TakenFromWhom DEF WindowsTyped, KeyboardTyped
<1>6. WindowsTyped'
  BY <1>2, <1>4, <1>5 DEF WindowsTyped, KeyboardTyped, Switches
<1>7. ActiveIsThere'
  BY <1>4, WindowsAssumption DEF ActiveIsThere
<1>8. TakenIsRemembered'
  BY <1>5 DEF TakenIsRemembered
<1>9. RaisingAlone' /\ FormInOrder' /\ NothingOverTheTake' /\ FormAsksForSomeone'
  BY <1>1
  DEF WindowsInv, RaisingAlone, FormInOrder, NothingOverTheTake, FormAsksForSomeone, Switches,
      Quiet
<1> QED
  BY <1>6, <1>7, <1>8, <1>9 DEF WindowsInv

-----------------------------------------------------------------------------
LEMMA WindowsStep ==
  ASSUME OneAtATime, WindowsInv, [WindowsNext]_windows PROVE WindowsInv'
<1>1. CASE UNCHANGED windows
  BY <1>1
  DEF windows, WindowsInv, WindowsTyped, KeyboardTyped, ActiveIsThere, RaisingAlone,
      TakenIsRemembered, FormInOrder, NothingOverTheTake, FormAsksForSomeone
<1>2. CASE HudShows
  BY <1>2, HudShowsInOrder
<1>3. CASE HudHides
  BY <1>3, HudHidesInOrder
<1>4. CASE TextboxShows
  BY <1>4, TextboxShowsInOrder
<1>5. CASE TextboxHides
  BY <1>5, TextboxHidesInOrder
<1>6. CASE FormAnswered
  BY <1>6, FormAnsweredInOrder
<1>7. CASE FormPutAway
  BY <1>7, FormPutAwayInOrder
<1>8. CASE Switches
  BY <1>8, SwitchesInOrder
<1>9. CASE \E w \in Own : Mapped(w) \/ NotMapped(w)
  BY <1>9, MappedInOrder, NotMappedInOrder
<1>10. CASE \E p \in Panels : FormAsks(p) \/ PanelCloses(p) \/ PanelGone(p)
  BY <1>10, FormAsksInOrder, PanelClosesInOrder, PanelGoneInOrder
<1>11. CASE \E w \in Apps \cup Own : Clicks(w)
  BY <1>11, ClicksInOrder
<1>12. CASE \E w \in Panels \cup {"pill"} : MadeActive(w)
  BY <1>12, MadeActiveInOrder
<1> QED
  BY <1>1, <1>2, <1>3, <1>4, <1>5, <1>6, <1>7, <1>8, <1>9, <1>10, <1>11, <1>12 DEF WindowsNext

\* One thing at a time, the windows stay in order.
THEOREM WindowsInvariant == ASSUME OneAtATime PROVE WindowsSpec => []WindowsInv
<1>1. WindowsInit => WindowsInv
  BY WindowsBegin
<1>2. WindowsInv /\ [WindowsNext]_windows => WindowsInv'
  BY WindowsStep
<1> QED
  BY <1>1, <1>2, PTL DEF WindowsSpec

\* Nothing of the companion's is in the person's way (focus.rs, hud.rs,
\* form.rs): the keyboard is only ever to go back to a window of theirs,
\* nothing comes up over a take, and the form is up for a panel that waits for
\* its answer.
THEOREM NothingIsInTheWay == ASSUME OneAtATime PROVE WindowsSpec => []WindowsAreSound
<1>1. WindowsInv => WindowsAreSound
  BY DEF WindowsInv, WindowsTyped, KeyboardTyped, WindowsAreSound, ReturnsToPerson
<1> QED
  BY <1>1, WindowsInvariant, PTL

\* A step that takes the keyboard from one window of the person's to another
\* is theirs, or the transcript box's; and a window that goes down with a
\* keyboard it took from one of theirs gives it back there.
LEMMA KeyboardStep ==
  ASSUME OneAtATime, WindowsInv, [WindowsNext]_windows
  PROVE  /\ KeysTaken => (Clicks(keys') \/ Switches \/ TextboxHides)
         /\ \A w \in Own : GoesDown(w) => keys' = took[w]
<1>1. keys \in Apps => keys \notin Own
  BY WindowsAssumption DEF Own
<1>2. WindowsTyped
  BY DEF WindowsInv
<1>3. CASE UNCHANGED windows
  BY <1>3 DEF windows, KeysTaken, GoesDown
<1>4. CASE HudShows \/ TextboxShows
  BY <1>4 DEF HudShows, TextboxShows, KeysTaken, GoesDown
<1>5. CASE HudHides
  <2>1. /\ (keys = "hud" /\ took["hud"] # NoWindow) => keys' = took["hud"]
        /\ keys # "hud" => keys' = keys
    BY <1>5, GivesBackInOrder DEF HudHides, Own
  <2>2. mapped' \cup away' = (mapped \cup away) \ {"hud"}
    BY <1>5 DEF HudHides, Down
  <2>3. "hud" \in Own
    BY DEF Own
  <2> QED
    BY <1>1, <1>2, <2>1, <2>2, <2>3 DEF KeysTaken, GoesDown
<1>6. CASE TextboxHides
  <2>1. (keys = "textbox" /\ took["textbox"] # NoWindow) => keys' = took["textbox"]
    BY <1>6, RestoredInOrder DEF TextboxHides, Own
  <2>2. mapped' \cup away' = (mapped \cup away) \ {"textbox"}
    BY <1>6 DEF TextboxHides, Down
  <2> QED
    BY <1>6, <2>1, <2>2 DEF GoesDown
<1>7. CASE FormAnswered
  BY <1>7 DEF FormAnswered, KeysTaken, GoesDown
<1>8. CASE FormPutAway
  <2>1. CASE Up("form")
    <3>1. /\ (keys = "form" /\ took["form"] # NoWindow) => keys' = took["form"]
          /\ keys # "form" => keys' = keys
      BY <1>8, <2>1, GivesBackInOrder DEF FormPutAway, Own
    <3>2. mapped' \cup away' = (mapped \cup away) \ {"form"} /\ "form" \in Own
      BY <1>8, <2>1 DEF FormPutAway, Down, Own
    <3> QED
      BY <1>1, <1>2, <3>1, <3>2 DEF KeysTaken, GoesDown
  <2>2. CASE ~Up("form")
    BY <1>8, <2>2 DEF FormPutAway, KeysTaken, GoesDown
  <2> QED
    BY <2>1, <2>2
<1>9. CASE Switches
  <2>1. mapped' \cup away' = mapped \cup away
    BY <1>9 DEF Switches
  <2> QED
    BY <1>9, <2>1 DEF GoesDown
<1>10. ASSUME NEW w \in Own, Mapped(w) \/ NotMapped(w)
       PROVE  KeysTaken = FALSE /\ \A o \in Own : ~GoesDown(o)
  <2>1. keys' \in {w, keys} /\ mapped \cup away \subseteq mapped' \cup away'
    BY <1>10 DEF Mapped, NotMapped
  <2>2. w \notin Apps
    BY WindowsAssumption DEF Own
  <2> QED
    BY <2>1, <2>2 DEF KeysTaken, GoesDown
<1>11. CASE \E p \in Panels : FormAsks(p) \/ PanelCloses(p) \/ PanelGone(p)
  BY <1>11 DEF FormAsks, PanelCloses, PanelGone, KeysTaken, GoesDown
<1>12. ASSUME NEW w \in Apps \cup Own, Clicks(w)
       PROVE  Clicks(keys') /\ \A o \in Own : ~GoesDown(o)
  BY <1>12 DEF Clicks, MovesTo, GoesDown
<1>13. CASE \E w \in Panels \cup {"pill"} : MadeActive(w)
  BY <1>13 DEF MadeActive, KeysTaken, GoesDown
<1> QED
  BY <1>3, <1>4, <1>5, <1>6, <1>7, <1>8, <1>9, <1>10, <1>11, <1>12, <1>13 DEF WindowsNext

\* Where the person types does not change under them, from one of their
\* windows to another, by the conversation or the form; and a window that took
\* the keyboard out of one of theirs gives it back there.
THEOREM TheKeyboardGoesBack == ASSUME OneAtATime PROVE WindowsSpec => KeyboardGoesBack
<1>1. WindowsInv /\ [WindowsNext]_windows =>
        [/\ KeysTaken => Clicks(keys') \/ Switches \/ TextboxHides
         /\ \A w \in Own : GoesDown(w) => keys' = took[w]]_windows
  BY KeyboardStep
<1> QED
  BY <1>1, WindowsInvariant, PTL DEF WindowsSpec, KeyboardGoesBack

\* No question types over the words in the form: the one it asks leaves it by
\* being answered or with its panel (form.rs).
THEOREM NoQuestionTypesOver == ASSUME OneAtATime PROVE WindowsSpec => WordsAreKept
<1>1. ASSUME WindowsInv, [WindowsNext]_windows
      PROVE  (question # NoQuestion /\ "form" \in mapped \cup away /\ question' # question)
               => question' = NoQuestion
  <2>1. CASE UNCHANGED windows
    BY <2>1 DEF windows
  <2>2. CASE HudShows \/ HudHides \/ TextboxShows \/ TextboxHides \/ Switches \/ FormPutAway
    BY <2>2 DEF HudShows, HudHides, TextboxShows, TextboxHides, Switches, FormPutAway
  <2>3. CASE FormAnswered
    BY <2>3 DEF FormAnswered
  <2>4. CASE \E w \in Own : Mapped(w) \/ NotMapped(w)
    BY <2>4 DEF Mapped, NotMapped
  <2>5. CASE \E p \in Panels : FormAsks(p)
    BY <2>5 DEF FormAsks, FormIsFree, Up, OneAtATime
  <2>6. CASE \E p \in Panels : PanelCloses(p) \/ PanelGone(p)
    BY <2>6 DEF PanelCloses, PanelGone, Forgotten
  <2>7. CASE \E w \in Apps \cup Own : Clicks(w)
    BY <2>7 DEF Clicks
  <2>8. CASE \E w \in Panels \cup {"pill"} : MadeActive(w)
    BY <2>8 DEF MadeActive
  <2> QED
    BY <1>1, <2>1, <2>2, <2>3, <2>4, <2>5, <2>6, <2>7, <2>8 DEF WindowsNext
<1>2. WindowsInv /\ [WindowsNext]_windows =>
        [(question # NoQuestion /\ "form" \in mapped \cup away /\ question' # question)
           => question' = NoQuestion]_windows
  BY <1>1
<1> QED
  BY <1>2, WindowsInvariant, PTL DEF WindowsSpec, WordsAreKept
-----------------------------------------------------------------------------
(* The warm shells.                                                         *)

Minted == 1..minted
Steps == {"rest", "looking", "refilling", "dry", "waiting", "taken"}

\* A thread has a shell from the moment it takes one until it is done with it.
PoolTyped ==
  /\ minted \in 0..MaxMinted /\ woes \in 0..MaxWoes
  /\ idle \in Seq(Nat) /\ ToSet(idle) \subseteq Minted
  /\ loading \in [DOMAIN loading -> BOOLEAN] /\ DOMAIN loading \subseteq Minted
  /\ channels \cup named \cup built \cup panels \cup handed \subseteq Minted
  /\ opener \in [Openers -> [at : Steps, shell : Minted \cup {NoShell}]]
  /\ \A o \in Openers : opener[o].shell # NoShell <=> opener[o].at \in {"refilling", "taken"}

\* Where a shell is: loading with no channel yet, idle, taken by one thread or
\* holding a panel; and what was ever taken stays taken.
ShellsInPlace ==
  /\ DOMAIN loading \cap (channels \cup ToSet(idle)) = {}
  /\ Taken \cup panels \subseteq handed

PoolInv == PoolTyped /\ ShellsInPlace /\ PoolIsSound

-----------------------------------------------------------------------------
(* Queues without repetition.                                               *)

LEMMA Queued ==
  ASSUME NEW queue \in Seq(Nat), NEW l \in Nat, l \notin ToSet(queue), IsInjective(queue)
  PROVE  /\ Append(queue, l) \in Seq(Nat) /\ Len(Append(queue, l)) = Len(queue) + 1
         /\ ToSet(Append(queue, l)) = ToSet(queue) \cup {l}
         /\ IsInjective(Append(queue, l))
<1> DEFINE longer == Append(queue, l)
<1>1. /\ longer \in Seq(Nat) /\ Len(longer) = Len(queue) + 1 /\ Len(queue) \in Nat
      /\ \A i \in 1..Len(queue) : longer[i] = queue[i]
      /\ longer[Len(queue) + 1] = l
      /\ DOMAIN longer = 1..Len(longer) /\ DOMAIN queue = 1..Len(queue)
  OBVIOUS
<1> HIDE DEF longer
<1>2. \A i \in 1..Len(longer) : i \in 1..Len(queue) \/ i = Len(queue) + 1
  BY <1>1
<1>3. \A i \in 1..Len(queue) : queue[i] # l /\ i \in 1..Len(longer)
  BY <1>1 DEF ToSet
<1>4. ToSet(longer) = ToSet(queue) \cup {l}
  <2>1. \A x : x \in ToSet(longer) => x \in ToSet(queue) \cup {l}
    BY <1>1, <1>2 DEF ToSet
  <2>2. \A x : x \in ToSet(queue) \cup {l} => x \in ToSet(longer)
    <3>1. Len(queue) + 1 \in 1..Len(longer)
      BY <1>1
    <3> QED BY <1>1, <1>3, <3>1 DEF ToSet
  <2> QED BY <2>1, <2>2
<1>5. ASSUME NEW i \in 1..Len(longer), NEW j \in 1..Len(longer), longer[i] = longer[j]
      PROVE  i = j
  BY <1>1, <1>2, <1>3, <1>5 DEF IsInjective
<1> QED BY <1>1, <1>4, <1>5 DEF IsInjective, longer

LEMMA Unqueued ==
  ASSUME NEW queue \in Seq(Nat), queue # <<>>, IsInjective(queue)
  PROVE  /\ Tail(queue) \in Seq(Nat) /\ Len(Tail(queue)) = Len(queue) - 1
         /\ ToSet(Tail(queue)) = ToSet(queue) \ {Head(queue)}
         /\ Head(queue) \in ToSet(queue)
         /\ IsInjective(Tail(queue))
<1> DEFINE rest == Tail(queue)
<1>1. /\ rest \in Seq(Nat) /\ Len(rest) = Len(queue) - 1 /\ Len(queue) \in Nat \ {0}
      /\ \A i \in 1..Len(rest) : rest[i] = queue[i + 1]
      /\ Head(queue) = queue[1] /\ DOMAIN rest = 1..Len(rest) /\ DOMAIN queue = 1..Len(queue)
  OBVIOUS
<1> HIDE DEF rest
<1>2. Head(queue) \in ToSet(queue)
  BY <1>1 DEF ToSet
<1>3. \A x : x \in ToSet(rest) => x \in ToSet(queue) \ {Head(queue)}
  <2> SUFFICES ASSUME NEW i \in 1..Len(rest) PROVE rest[i] \in ToSet(queue) \ {Head(queue)}
    BY <1>1 DEF ToSet
  <2>1. i + 1 \in 1..Len(queue) /\ 1 \in 1..Len(queue) /\ i + 1 # 1
    BY <1>1
  <2>2. queue[i + 1] # queue[1]
    BY <1>1, <2>1 DEF IsInjective
  <2> QED BY <1>1, <2>1, <2>2 DEF ToSet
<1>4. \A x : x \in ToSet(queue) \ {Head(queue)} => x \in ToSet(rest)
  <2> SUFFICES ASSUME NEW i \in 1..Len(queue), queue[i] # Head(queue)
               PROVE  queue[i] \in ToSet(rest)
    BY <1>1 DEF ToSet
  <2>1. i - 1 \in 1..Len(rest) /\ rest[i - 1] = queue[i]
    BY <1>1
  <2> QED BY <1>1, <2>1 DEF ToSet
<1>5. IsInjective(rest)
  <2> SUFFICES ASSUME NEW i \in 1..Len(rest), NEW j \in 1..Len(rest), rest[i] = rest[j]
               PROVE  i = j
    BY <1>1 DEF IsInjective
  <2>0. rest[i] = queue[i + 1] /\ rest[j] = queue[j + 1]
    BY <1>1
  <2>1. i + 1 \in 1..Len(queue) /\ j + 1 \in 1..Len(queue)
    BY <1>1
  <2>2. i + 1 = j + 1
    BY <1>1, <2>0, <2>1 DEF IsInjective
  <2> QED BY <2>2
<1> QED BY <1>1, <1>2, <1>3, <1>4, <1>5 DEF rest

-----------------------------------------------------------------------------
(* Warming.                                                                 *)

\* The pool has this queue and no more than it was asked for, and what it
\* builds beside what was loading is new.
Warmed(queue) ==
  /\ idle' = queue /\ minted' \in minted..MaxMinted
  /\ loading' \in [DOMAIN loading' -> BOOLEAN]
  /\ DOMAIN loading' \subseteq DOMAIN loading \cup (minted + 1 .. minted')
  /\ Len(queue) + Cardinality(DOMAIN loading') <= WarmShells

LEMMA LoadingIsFinite ==
  ASSUME PoolTyped
  PROVE  IsFiniteSet(DOMAIN loading) /\ Cardinality(DOMAIN loading) \in Nat
<1>1. IsFiniteSet(Minted)
  <2>1. 1 \in Int /\ minted \in Int
    BY PoolAssumption DEF PoolTyped
  <2> QED BY <2>1, FS_Interval DEF Minted
<1> QED BY <1>1, FS_Subset, FS_CardinalityType DEF PoolTyped

LEMMA WarmWarms ==
  ASSUME PoolTyped, NEW queue \in Seq(Nat),
         Len(queue) + Cardinality(DOMAIN loading) <= WarmShells, Warm(queue)
  PROVE  Warmed(queue)
<1> DEFINE waits == StillLoading(loading)
           short == Short(queue, waits)
           wanted == minted + 1 .. minted + short
<1>1. DOMAIN waits \subseteq DOMAIN loading /\ waits \in [DOMAIN waits -> BOOLEAN]
  BY DEF StillLoading, Drop, Restrict, PoolTyped
<1>2. /\ IsFiniteSet(DOMAIN waits) /\ Cardinality(DOMAIN waits) \in Nat
      /\ Cardinality(DOMAIN waits) <= Cardinality(DOMAIN loading)
  BY <1>1, LoadingIsFinite, FS_Subset, FS_CardinalityType
<1>3. /\ minted \in Nat /\ MaxMinted \in Nat /\ WarmShells \in Nat /\ minted <= MaxMinted
      /\ Len(queue) \in Nat /\ Cardinality(DOMAIN loading) \in Nat
  BY PoolAssumption, LoadingIsFinite DEF PoolTyped
<1>4. /\ short \in Nat /\ minted + short <= MaxMinted
      /\ Len(queue) + Cardinality(DOMAIN waits) + short <= WarmShells
  <2> DEFINE counted == Len(queue) + Cardinality(DOMAIN waits)
             lacking == IF counted >= WarmShells THEN 0 ELSE WarmShells - counted
             left == MaxMinted - minted
  <2>1. counted \in Nat /\ counted <= WarmShells
    BY <1>2, <1>3
  <2> HIDE DEF counted
  <2>2. lacking \in Nat /\ left \in Nat /\ counted + lacking <= WarmShells
    BY <2>1, <1>3
  <2> HIDE DEF lacking, left
  <2>3. Min({lacking, left}) \in {lacking, left}
        /\ Min({lacking, left}) <= lacking /\ Min({lacking, left}) <= left
    <3>1. \E x \in {lacking, left} : \A y \in {lacking, left} : x =< y
      BY <2>2
    <3> QED BY <3>1 DEF Min
  <2>4. short = Min({lacking, left})
    BY DEF Short, short, counted, lacking, left
  <2> HIDE DEF short
  <2> QED BY <2>1, <2>2, <2>3, <2>4, <1>3 DEF left, counted
<1> HIDE DEF short
<1>5. IsFiniteSet(wanted) /\ Cardinality(wanted) = short
  <2>1. minted + 1 \in Int /\ minted + short \in Int
    BY <1>3, <1>4
  <2>2. /\ IsFiniteSet(wanted)
        /\ Cardinality(wanted) = IF minted + 1 > minted + short THEN 0
                                 ELSE (minted + short) - (minted + 1) + 1
    BY <2>1, FS_Interval
  <2> QED BY <1>3, <1>4, <2>2
<1>6. /\ idle' = queue /\ minted' = minted + Cardinality(wanted)
      /\ loading' = [l \in DOMAIN waits \cup wanted |-> l \in DOMAIN waits /\ waits[l]]
  BY DEF Warm, short
<1> HIDE DEF waits
<1>7. minted' = minted + short /\ wanted = minted + 1 .. minted'
  BY <1>5, <1>6
<1>8. DOMAIN loading' = DOMAIN waits \cup wanted /\ loading' \in [DOMAIN loading' -> BOOLEAN]
  BY <1>1, <1>6
<1>9. DOMAIN waits \cap wanted = {}
  BY <1>1, <1>3 DEF PoolTyped, Minted
<1>10. Cardinality(DOMAIN loading') = Cardinality(DOMAIN waits) + short
  <2>1. Cardinality(DOMAIN waits \cap wanted) = 0
    BY <1>9, FS_EmptySet
  <2>2. Cardinality(DOMAIN waits \cup wanted)
          = Cardinality(DOMAIN waits) + Cardinality(wanted) - Cardinality(DOMAIN waits \cap wanted)
    BY <1>2, <1>5, FS_Union
  <2> QED BY <1>2, <1>4, <1>5, <1>8, <2>1, <2>2
<1> QED BY <1>1, <1>3, <1>4, <1>6, <1>7, <1>8, <1>10, <1>2 DEF Warmed

-----------------------------------------------------------------------------
(* The first state.                                                         *)

LEMMA PoolBegins == PoolInit => PoolInv
<1> SUFFICES ASSUME PoolInit PROVE PoolInv
  OBVIOUS
<1>1. /\ minted \in 0..MaxMinted /\ minted <= WarmShells /\ woes \in 0..MaxWoes
  <2>1. WarmShells \in Nat /\ MaxMinted \in Nat /\ MaxWoes \in Nat
    BY PoolAssumption
  <2>2. \E x \in {WarmShells, MaxMinted} : \A y \in {WarmShells, MaxMinted} : x =< y
    BY <2>1
  <2>3. minted \in {WarmShells, MaxMinted} /\ \A y \in {WarmShells, MaxMinted} : minted <= y
    BY <2>2 DEF PoolInit, Min
  <2>4. woes = 0
    BY DEF PoolInit
  <2> QED BY <2>1, <2>3, <2>4
<1>2. /\ idle = <<>> /\ idle \in Seq(Nat) /\ Len(idle) = 0 /\ ToSet(idle) = {}
      /\ IsInjective(idle)
  BY DEF PoolInit, ToSet, IsInjective
<1>3. /\ DOMAIN loading = Minted /\ loading \in [DOMAIN loading -> BOOLEAN]
      /\ Cardinality(DOMAIN loading) = minted
  <2>1. DOMAIN loading = 1..minted /\ loading \in [DOMAIN loading -> BOOLEAN]
    BY DEF PoolInit
  <2>2. Cardinality(1..minted) = IF 1 > minted THEN 0 ELSE minted - 1 + 1
    BY <1>1, PoolAssumption, FS_Interval
  <2> QED BY <1>1, <2>1, <2>2, PoolAssumption DEF Minted
<1>4. /\ channels = {} /\ named = {} /\ built = {} /\ panels = {} /\ handed = {} /\ Taken = {}
      /\ \A o \in Openers : opener[o].shell = NoShell /\ opener[o].at = "rest"
      /\ opener \in [Openers -> [at : Steps, shell : Minted \cup {NoShell}]]
  BY DEF PoolInit, Taken, Steps
<1>5. PoolTyped
  BY <1>1, <1>2, <1>3, <1>4 DEF PoolTyped
<1>6. ShellsInPlace
  BY <1>2, <1>4 DEF ShellsInPlace
<1>7. UsedOnce /\ NothingLeftOver
  BY <1>2, <1>4 DEF UsedOnce, NothingLeftOver
<1>8. WarmIsEnough
  BY <1>1, <1>2, <1>3, PoolAssumption DEF WarmIsEnough
<1> QED BY <1>5, <1>6, <1>7, <1>8 DEF PoolInv, PoolIsSound

-----------------------------------------------------------------------------
(* The steps.                                                               *)

\* The pool's own part, with nothing but new shells loading.
Rewarmed ==
  /\ idle' = idle /\ minted' \in 0..MaxMinted /\ Minted \subseteq Minted'
  /\ loading' \in [DOMAIN loading' -> BOOLEAN] /\ DOMAIN loading' \subseteq Minted'
  /\ DOMAIN loading' \cap (channels \cup ToSet(idle) \cup handed) = {}
  /\ WarmIsEnough'

LEMMA Rewarms ==
  ASSUME PoolInv, Warm(idle)
  PROVE  Rewarmed
<1>1. Warmed(idle)
  BY WarmWarms DEF PoolInv, PoolTyped, PoolIsSound, WarmIsEnough
<1>2. minted \in Nat /\ MaxMinted \in Nat /\ minted' \in Nat /\ minted <= minted' /\ minted' <= MaxMinted
  BY <1>1, PoolAssumption DEF Warmed, PoolInv, PoolTyped
<1>3. Minted' = 1..minted' /\ Minted \subseteq Minted'
  BY <1>2 DEF Minted
<1>4. DOMAIN loading \subseteq Minted /\ (minted + 1 .. minted') \subseteq Minted'
  BY <1>2, <1>3 DEF PoolInv, PoolTyped
<1>5. (minted + 1 .. minted') \cap Minted = {}
  BY <1>2 DEF Minted
<1>6. channels \cup ToSet(idle) \cup handed \subseteq Minted
  BY DEF PoolInv, PoolTyped
<1>7. DOMAIN loading \cap (channels \cup ToSet(idle) \cup handed) = {}
  BY DEF PoolInv, ShellsInPlace, PoolIsSound, UsedOnce
<1>8. DOMAIN loading' \cap (channels \cup ToSet(idle) \cup handed) = {}
  BY <1>1, <1>5, <1>6, <1>7 DEF Warmed
<1>9. WarmIsEnough'
  BY <1>1 DEF Warmed, WarmIsEnough
<1> QED BY <1>1, <1>2, <1>3, <1>4, <1>8, <1>9 DEF Warmed, Rewarmed

\* No shell that was taken waits in the queue.
LEMMA DiscardRewarms ==
  ASSUME PoolInv, NEW ids, ids \subseteq handed, Discard(ids)
  PROVE  Rewarmed /\ channels' = channels \ ids /\ built' = built \ ids
<1>1. ToSet(idle) \cap ids = {}
  BY DEF PoolInv, PoolIsSound, UsedOnce
<1> QED BY <1>1, Rewarms DEF Discard, Replaced, Keeping

LEMMA Moved ==
  ASSUME PoolInv, NEW o \in Openers, NEW where \in Steps, NEW shell, At(o, where, shell),
         Minted \subseteq Minted', shell \in Minted' \cup {NoShell},
         shell # NoShell <=> where \in {"refilling", "taken"}
  PROVE  /\ opener' \in [Openers -> [at : Steps, shell : Minted' \cup {NoShell}]]
         /\ \A p \in Openers : opener'[p].shell # NoShell <=> opener'[p].at \in {"refilling", "taken"}
         /\ opener'[o].shell = shell
         /\ \A p \in Openers : p # o => opener'[p].shell = opener[p].shell
         /\ Taken' \subseteq Taken \cup {shell}
<1>1. opener \in [Openers -> [at : Steps, shell : Minted \cup {NoShell}]]
  BY DEF PoolInv, PoolTyped
<1>2. opener' = [opener EXCEPT ![o] = [at |-> where, shell |-> shell]]
  BY DEF At
<1>3. opener' \in [Openers -> [at : Steps, shell : Minted' \cup {NoShell}]]
  BY <1>1, <1>2
<1>4. opener'[o] = [at |-> where, shell |-> shell] /\ \A p \in Openers : p # o => opener'[p] = opener[p]
  BY <1>1, <1>2
<1>5. \A p \in Openers : opener[p].shell # NoShell <=> opener[p].at \in {"refilling", "taken"}
  BY DEF PoolInv, PoolTyped
<1>6. Taken' \subseteq Taken \cup {shell}
  BY <1>4 DEF Taken
<1> QED BY <1>3, <1>4, <1>5, <1>6

LEMMA BuildsKeeps == ASSUME PoolInv, NEW l \in Shells, Builds(l) PROVE PoolInv'
<1>1. l \in DOMAIN loading /\ l \in Minted
  BY DEF Builds, PoolInv, PoolTyped
<1>2. UNCHANGED <<idle, channels, minted, named, panels, opener, handed>>
  BY DEF Builds
<1>3. /\ loading' \in [DOMAIN loading' -> BOOLEAN] /\ DOMAIN loading' \subseteq DOMAIN loading
      /\ built \subseteq built' /\ built' \subseteq built \cup {l} /\ woes' \in 0..MaxWoes
  BY PoolAssumption DEF Builds, PoolInv, PoolTyped, Drop, Restrict
<1>4. PoolTyped'
  BY <1>1, <1>2, <1>3 DEF PoolInv, PoolTyped, Minted
<1>5. Taken' = Taken
  BY <1>2 DEF Taken
<1>6. ShellsInPlace'
  BY <1>2, <1>3, <1>5 DEF PoolInv, ShellsInPlace
<1>7. UsedOnce'
  BY <1>2, <1>3, <1>5 DEF PoolInv, PoolIsSound, UsedOnce
<1>8. WarmIsEnough'
  <2>1. /\ Cardinality(DOMAIN loading') \in Nat
        /\ Cardinality(DOMAIN loading') <= Cardinality(DOMAIN loading)
    BY <1>3, LoadingIsFinite, FS_Subset, FS_CardinalityType DEF PoolInv
  <2> QED BY <1>2, <2>1, LoadingIsFinite, PoolAssumption
        DEF PoolInv, PoolTyped, PoolIsSound, WarmIsEnough
<1>9. NothingLeftOver'
  BY <1>1, <1>2, <1>3, <1>5 DEF PoolInv, PoolIsSound, UsedOnce, NothingLeftOver
<1> QED BY <1>4, <1>6, <1>7, <1>8, <1>9 DEF PoolInv, PoolIsSound

LEMMA OverdueKeeps == ASSUME PoolInv, NEW l \in Shells, GrowsOverdue(l) PROVE PoolInv'
<1>1. UNCHANGED <<idle, channels, minted, named, built, panels, opener, handed, woes>>
  BY DEF GrowsOverdue
<1>2. DOMAIN loading' = DOMAIN loading /\ loading' \in [DOMAIN loading' -> BOOLEAN]
  BY DEF GrowsOverdue, PoolInv, PoolTyped
<1>3. PoolTyped'
  BY <1>1, <1>2 DEF PoolInv, PoolTyped, Minted
<1>4. Taken' = Taken
  BY <1>1 DEF Taken
<1>5. ShellsInPlace'
  BY <1>1, <1>2, <1>4 DEF PoolInv, ShellsInPlace
<1>6. UsedOnce' /\ NothingLeftOver'
  BY <1>1, <1>2, <1>4 DEF PoolInv, PoolIsSound, UsedOnce, NothingLeftOver
<1>7. WarmIsEnough'
  BY <1>1, <1>2 DEF PoolInv, PoolIsSound, WarmIsEnough
<1> QED BY <1>3, <1>5, <1>6, <1>7 DEF PoolInv, PoolIsSound

LEMMA ReadyKeeps == ASSUME PoolInv, NEW l \in Shells, Ready(l) PROVE PoolInv'
<1>1. UNCHANGED <<minted, named, built, panels, opener, handed, woes>> /\ Taken' = Taken
  BY DEF Ready, Taken
<1>2. l \in built /\ l \in Minted /\ l \in Nat /\ channels' = channels \cup {l}
  BY DEF Ready, PoolInv, PoolTyped, Shells
<1>3. /\ DOMAIN loading' = DOMAIN loading \ {l} /\ loading' \in [DOMAIN loading' -> BOOLEAN]
  BY DEF Ready, Drop, Restrict, PoolInv, PoolTyped
<1>4. /\ IsFiniteSet(DOMAIN loading) /\ Cardinality(DOMAIN loading) \in Nat
      /\ Cardinality(DOMAIN loading') = IF l \in DOMAIN loading THEN Cardinality(DOMAIN loading) - 1
                                        ELSE Cardinality(DOMAIN loading)
  BY <1>3, LoadingIsFinite, FS_RemoveElement DEF PoolInv
<1>5. /\ idle' \in Seq(Nat) /\ IsInjective(idle') /\ ToSet(idle') \subseteq ToSet(idle) \cup {l}
      /\ ToSet(idle') \cap (DOMAIN loading' \cup handed) = {}
      /\ Len(idle') + Cardinality(DOMAIN loading') <= WarmShells
  <2>1. CASE FirstReport(l)
    <3>1. l \in DOMAIN loading /\ idle' = Append(idle, l)
      BY <2>1 DEF Ready, FirstReport
    <3>2. l \notin ToSet(idle) /\ l \notin handed
      BY <3>1 DEF PoolInv, ShellsInPlace, PoolIsSound, UsedOnce
    <3>3. idle \in Seq(Nat) /\ IsInjective(idle)
      BY DEF PoolInv, PoolTyped, PoolIsSound, UsedOnce
    <3>4. /\ idle' \in Seq(Nat) /\ Len(idle') = Len(idle) + 1
          /\ ToSet(idle') = ToSet(idle) \cup {l} /\ IsInjective(idle')
      BY <1>2, <3>1, <3>2, <3>3, Queued
    <3>5. Len(idle) \in Nat /\ Len(idle) + Cardinality(DOMAIN loading) <= WarmShells
      BY <3>3 DEF PoolInv, PoolIsSound, WarmIsEnough
    <3>6. Len(idle') + Cardinality(DOMAIN loading') <= WarmShells
      BY <1>4, <3>1, <3>4, <3>5, PoolAssumption
    <3> QED BY <1>3, <3>2, <3>4, <3>6 DEF PoolInv, PoolIsSound, UsedOnce, ShellsInPlace
  <2>2. CASE ~FirstReport(l)
    <3>1. idle' = idle
      BY <2>2 DEF Ready
    <3>2. Len(idle) \in Nat /\ Len(idle) + Cardinality(DOMAIN loading) <= WarmShells
      BY DEF PoolInv, PoolTyped, PoolIsSound, WarmIsEnough
    <3>3. Len(idle') + Cardinality(DOMAIN loading') <= WarmShells
      BY <1>4, <3>1, <3>2, PoolAssumption
    <3> QED BY <1>3, <3>1, <3>3 DEF PoolInv, PoolTyped, PoolIsSound, UsedOnce, ShellsInPlace
  <2> QED BY <2>1, <2>2
<1>6. PoolTyped'
  BY <1>1, <1>2, <1>3, <1>5 DEF PoolInv, PoolTyped, Minted
<1>7. ShellsInPlace'
  BY <1>1, <1>2, <1>3, <1>5 DEF PoolInv, ShellsInPlace
<1>8. UsedOnce' /\ NothingLeftOver'
  BY <1>1, <1>2, <1>3, <1>5 DEF PoolInv, PoolIsSound, UsedOnce, NothingLeftOver
<1> QED BY <1>5, <1>6, <1>7, <1>8 DEF PoolInv, PoolIsSound, WarmIsEnough

\* A thread with no shell goes on without one.
LEMMA WalkKeeps ==
  ASSUME PoolInv, NEW o \in Openers, NEW where \in {"rest", "looking", "dry", "waiting"},
         opener[o].shell = NoShell, At(o, where, NoShell),
         UNCHANGED <<channels, named, built, panels, handed, woes>>, Rewarmed
  PROVE  PoolInv'
<1>1. where \in Steps /\ Minted \subseteq Minted'
  BY DEF Steps, Rewarmed
<1>2. /\ opener' \in [Openers -> [at : Steps, shell : Minted' \cup {NoShell}]]
      /\ \A p \in Openers : opener'[p].shell # NoShell <=> opener'[p].at \in {"refilling", "taken"}
      /\ opener'[o].shell = NoShell
      /\ \A p \in Openers : p # o => opener'[p].shell = opener[p].shell
  BY <1>1, Moved
<1>3. \A p \in Openers : opener'[p].shell = opener[p].shell
  BY <1>2
<1>4. Taken' = Taken
  BY <1>3 DEF Taken
<1>5. PoolTyped' /\ WarmIsEnough'
  BY <1>1, <1>2 DEF PoolInv, PoolTyped, Rewarmed
<1>6. ShellsInPlace'
  BY <1>4 DEF PoolInv, ShellsInPlace, Rewarmed
<1>7. UsedOnce' /\ NothingLeftOver'
  BY <1>3, <1>4 DEF PoolInv, PoolIsSound, UsedOnce, NothingLeftOver, Rewarmed
<1> QED BY <1>5, <1>6, <1>7 DEF PoolInv, PoolIsSound

LEMMA SameIsRewarmed ==
  ASSUME PoolInv, UNCHANGED <<idle, loading, minted>>
  PROVE  Rewarmed
BY DEF PoolInv, PoolTyped, ShellsInPlace, PoolIsSound, UsedOnce, WarmIsEnough, Minted, Rewarmed

LEMMA WithoutShell ==
  ASSUME PoolInv, NEW o \in Openers, opener[o].at \notin {"refilling", "taken"}
  PROVE  opener[o].shell = NoShell
BY DEF PoolInv, PoolTyped

LEMMA WalksKeep ==
  ASSUME PoolInv, NEW o \in Openers,
         AsksToOpen(o) \/ LooksAgain(o) \/ Woken(o) \/ GivesUp(o) \/ FindsNone(o)
  PROVE  PoolInv'
<1>1. opener[o].shell = NoShell
  BY WithoutShell DEF AsksToOpen, LooksAgain, Woken, GivesUp, OutOfTime, FindsNone
<1>2. \E where \in {"rest", "looking", "dry", "waiting"} : At(o, where, NoShell)
  BY DEF AsksToOpen, LooksAgain, Woken, GivesUp, FindsNone
<1>3. UNCHANGED <<channels, named, built, panels, handed, woes>>
  BY DEF AsksToOpen, LooksAgain, Woken, GivesUp, FindsNone, shells
<1>4. Rewarmed
  <2>1. CASE FindsNone(o)
    BY <2>1, Rewarms DEF FindsNone
  <2>2. CASE AsksToOpen(o) \/ LooksAgain(o) \/ Woken(o) \/ GivesUp(o)
    BY <2>2, SameIsRewarmed DEF AsksToOpen, LooksAgain, Woken, GivesUp, shells
  <2> QED BY <2>1, <2>2
<1> QED BY <1>1, <1>2, <1>3, <1>4, WalkKeeps

LEMMA TakesKeeps == ASSUME PoolInv, NEW o \in Openers, Takes(o) PROVE PoolInv'
<1> DEFINE first == Head(idle)
<1>1. /\ idle # <<>> /\ idle' = Tail(idle)
      /\ UNCHANGED <<channels, loading, minted, named, built, panels, woes>>
      /\ Minted' = Minted
  BY DEF Takes, Minted
<1>2. /\ idle' \in Seq(Nat) /\ Len(idle') = Len(idle) - 1 /\ IsInjective(idle')
      /\ ToSet(idle') = ToSet(idle) \ {first} /\ first \in ToSet(idle)
  BY <1>1, Unqueued DEF PoolInv, PoolTyped, PoolIsSound, UsedOnce
<1>3. /\ first \in channels /\ first \in built /\ first \notin DOMAIN loading
      /\ first \notin handed /\ first \in Minted /\ first # NoShell
  BY <1>2 DEF PoolInv, PoolTyped, ShellsInPlace, PoolIsSound, UsedOnce, Minted, NoShell
<1>4. At(o, "refilling", first) /\ handed' = handed \cup {first}
  BY <1>3 DEF Takes
<1> HIDE DEF first
<1>5. opener[o].shell = NoShell
  BY WithoutShell DEF Takes
<1>6. /\ opener' \in [Openers -> [at : Steps, shell : Minted' \cup {NoShell}]]
      /\ \A p \in Openers : opener'[p].shell # NoShell <=> opener'[p].at \in {"refilling", "taken"}
      /\ opener'[o].shell = first
      /\ \A p \in Openers : p # o => opener'[p].shell = opener[p].shell
      /\ Taken' \subseteq Taken \cup {first}
  <2>1. "refilling" \in Steps
    BY DEF Steps
  <2> QED BY <1>1, <1>3, <1>4, <2>1, Moved
<1>7. Taken' = Taken \cup {first}
  BY <1>3, <1>5, <1>6 DEF Taken
<1>8. Taken \cup panels \subseteq handed
  BY DEF PoolInv, ShellsInPlace
<1>9. PoolTyped'
  BY <1>1, <1>2, <1>3, <1>4, <1>6 DEF PoolInv, PoolTyped
<1>10. ShellsInPlace'
  BY <1>1, <1>2, <1>4, <1>7 DEF PoolInv, ShellsInPlace
<1>11. UsedOnce'
  <2>1. \A p, q \in Openers :
          p # q => opener'[p].shell = NoShell \/ opener'[p].shell # opener'[q].shell
    <3>1. \A p \in Openers : p # o => opener[p].shell # first
      BY <1>3, <1>8 DEF Taken
    <3> QED BY <1>3, <1>6, <3>1 DEF PoolInv, PoolIsSound, UsedOnce
  <2> QED BY <1>1, <1>2, <1>3, <1>4, <1>7, <1>8, <2>1
        DEF PoolInv, ShellsInPlace, PoolIsSound, UsedOnce
<1>12. WarmIsEnough'
  BY <1>1, <1>2, LoadingIsFinite, PoolAssumption
  DEF PoolInv, PoolTyped, PoolIsSound, WarmIsEnough
<1>13. NothingLeftOver'
  BY <1>1, <1>4, <1>7 DEF PoolInv, PoolIsSound, NothingLeftOver
<1> QED BY <1>9, <1>10, <1>11, <1>12, <1>13 DEF PoolInv, PoolIsSound

LEMMA RefillsKeeps == ASSUME PoolInv, NEW o \in Openers, Refills(o) PROVE PoolInv'
<1>1. /\ UNCHANGED <<channels, named, built, panels, handed, woes>>
      /\ At(o, "taken", opener[o].shell) /\ Rewarmed
  BY Rewarms DEF Refills
<1>2. opener[o].shell # NoShell /\ opener[o].shell \in Minted
  BY DEF Refills, PoolInv, PoolTyped
<1>3. Minted \subseteq Minted' /\ "taken" \in Steps
  BY <1>1 DEF Rewarmed, Steps
<1>4. /\ opener' \in [Openers -> [at : Steps, shell : Minted' \cup {NoShell}]]
      /\ \A p \in Openers : opener'[p].shell # NoShell <=> opener'[p].at \in {"refilling", "taken"}
      /\ opener'[o].shell = opener[o].shell
      /\ \A p \in Openers : p # o => opener'[p].shell = opener[p].shell
  BY <1>1, <1>2, <1>3, Moved
<1>5. \A p \in Openers : opener'[p].shell = opener[p].shell
  BY <1>4
<1>6. Taken' = Taken
  BY <1>5 DEF Taken
<1>7. PoolTyped' /\ WarmIsEnough'
  BY <1>1, <1>3, <1>4 DEF PoolInv, PoolTyped, Rewarmed
<1>8. ShellsInPlace'
  BY <1>1, <1>6 DEF PoolInv, ShellsInPlace, Rewarmed
<1>9. UsedOnce' /\ NothingLeftOver'
  BY <1>1, <1>5, <1>6 DEF PoolInv, PoolIsSound, UsedOnce, NothingLeftOver, Rewarmed
<1> QED BY <1>7, <1>8, <1>9 DEF PoolInv, PoolIsSound

\* A thread that is done with its shell leaves it to nobody else's thread.
LEMMA DoneWith ==
  ASSUME PoolInv, NEW o \in Openers, opener[o].at = "taken", At(o, "rest", NoShell),
         Minted \subseteq Minted'
  PROVE  /\ opener[o].shell \in Taken
         /\ Taken' = Taken \ {opener[o].shell}
         /\ opener' \in [Openers -> [at : Steps, shell : Minted' \cup {NoShell}]]
         /\ \A p \in Openers : opener'[p].shell # NoShell <=> opener'[p].at \in {"refilling", "taken"}
         /\ \A p, q \in Openers :
              p # q => opener'[p].shell = NoShell \/ opener'[p].shell # opener'[q].shell
<1>1. opener[o].shell # NoShell
  BY DEF PoolInv, PoolTyped
<1>2. /\ opener' \in [Openers -> [at : Steps, shell : Minted' \cup {NoShell}]]
      /\ \A p \in Openers : opener'[p].shell # NoShell <=> opener'[p].at \in {"refilling", "taken"}
      /\ opener'[o].shell = NoShell
      /\ \A p \in Openers : p # o => opener'[p].shell = opener[p].shell
  BY Moved DEF Steps
<1>3. \A p, q \in Openers : p # q => opener[p].shell = NoShell \/ opener[p].shell # opener[q].shell
  BY DEF PoolInv, PoolIsSound, UsedOnce
<1>4. \A p, q \in Openers :
        p # q => opener'[p].shell = NoShell \/ opener'[p].shell # opener'[q].shell
  BY <1>2, <1>3
<1>5. opener[o].shell \in Taken
  BY <1>1 DEF Taken
<1>6. \A x : x \in Taken' => x \in Taken \ {opener[o].shell}
  BY <1>1, <1>2, <1>3 DEF Taken
<1>7. \A x : x \in Taken \ {opener[o].shell} => x \in Taken'
  BY <1>2 DEF Taken
<1> QED BY <1>2, <1>4, <1>5, <1>6, <1>7

LEMMA AdoptsKeeps == ASSUME PoolInv, NEW o \in Openers, Adopts(o) PROVE PoolInv'
<1> DEFINE shell == opener[o].shell
<1>1. opener[o].at = "taken" /\ At(o, "rest", NoShell) /\ UNCHANGED <<handed, woes>>
  BY DEF Adopts
<1>2. PICK out \in SUBSET panels, waits \in BOOLEAN :
        /\ panels' = (panels \ out) \cup {shell}
        /\ IF out = {} THEN UNCHANGED <<idle, loading, minted, channels, built>> ELSE Discard(out)
        /\ named' = (named \ out) \cup (IF waits THEN {} ELSE {shell})
  BY DEF Adopts
<1>3. Taken \cup panels \subseteq handed /\ panels \cap Taken = {}
  BY DEF PoolInv, ShellsInPlace, PoolIsSound, UsedOnce
<1>4. Rewarmed /\ channels' = channels \ out /\ built' = built \ out
  <2>1. CASE out = {}
    BY <1>2, <2>1, SameIsRewarmed
  <2>2. CASE out # {}
    BY <1>2, <1>3, <2>2, DiscardRewarms
  <2> QED BY <2>1, <2>2
<1>5. Minted \subseteq Minted'
  BY <1>4 DEF Rewarmed
<1>6. /\ shell \in Taken /\ Taken' = Taken \ {shell}
      /\ opener' \in [Openers -> [at : Steps, shell : Minted' \cup {NoShell}]]
      /\ \A p \in Openers : opener'[p].shell # NoShell <=> opener'[p].at \in {"refilling", "taken"}
      /\ \A p, q \in Openers :
           p # q => opener'[p].shell = NoShell \/ opener'[p].shell # opener'[q].shell
  BY <1>1, <1>5, DoneWith
<1> HIDE DEF shell
<1>7. shell \in Minted /\ shell \notin out
  BY <1>3, <1>6 DEF PoolInv, PoolTyped
<1>8. named' \subseteq panels' /\ panels' \subseteq panels \cup {shell}
  BY <1>2 DEF PoolInv, PoolIsSound, UsedOnce
<1>9. PoolTyped' /\ WarmIsEnough'
  BY <1>1, <1>4, <1>5, <1>6, <1>7, <1>8 DEF PoolInv, PoolTyped, Rewarmed
<1>10. ShellsInPlace'
  BY <1>1, <1>3, <1>4, <1>6, <1>8 DEF PoolInv, ShellsInPlace, Rewarmed
<1>11. UsedOnce'
  <2>1. ToSet(idle) \cup Taken \cup panels \subseteq built \cap channels
    BY DEF PoolInv, PoolIsSound, UsedOnce
  <2>2. ToSet(idle') \cup Taken' \cup panels' \subseteq built' \cap channels'
    <3>1. ToSet(idle) \cap out = {}
      BY <1>3 DEF PoolInv, PoolIsSound, UsedOnce
    <3> QED BY <1>2, <1>3, <1>4, <1>6, <1>7, <2>1, <3>1 DEF Rewarmed
  <2>3. panels' \cap Taken' = {}
    BY <1>3, <1>6, <1>8
  <2>4. IsInjective(idle') /\ (ToSet(idle') \cup DOMAIN loading') \cap handed' = {}
    BY <1>1, <1>4 DEF PoolInv, PoolIsSound, UsedOnce, Rewarmed
  <2> QED BY <1>6, <1>8, <2>2, <2>3, <2>4 DEF UsedOnce
<1>12. NothingLeftOver'
  BY <1>1, <1>2, <1>4, <1>6 DEF PoolInv, PoolIsSound, NothingLeftOver
<1> QED BY <1>9, <1>10, <1>11, <1>12 DEF PoolInv, PoolIsSound

LEMMA RefusedKeeps == ASSUME PoolInv, NEW o \in Openers, Refused(o) PROVE PoolInv'
<1> DEFINE shell == opener[o].shell
<1>1. /\ opener[o].at = "taken" /\ At(o, "rest", NoShell) /\ UNCHANGED <<panels, handed>>
      /\ named' = named \ {shell} /\ Discard({shell})
  BY DEF Refused, Unwanted
<1>2. woes' \in 0..MaxWoes
  BY PoolAssumption DEF Refused, PoolInv, PoolTyped
<1>3. Taken \cup panels \subseteq handed /\ panels \cap Taken = {} /\ shell \in Taken
  BY <1>1 DEF PoolInv, PoolTyped, ShellsInPlace, PoolIsSound, UsedOnce, Taken
<1>4. Rewarmed /\ channels' = channels \ {shell} /\ built' = built \ {shell}
  BY <1>1, <1>3, DiscardRewarms
<1>5. Minted \subseteq Minted'
  BY <1>4 DEF Rewarmed
<1>6. /\ Taken' = Taken \ {shell}
      /\ opener' \in [Openers -> [at : Steps, shell : Minted' \cup {NoShell}]]
      /\ \A p \in Openers : opener'[p].shell # NoShell <=> opener'[p].at \in {"refilling", "taken"}
      /\ \A p, q \in Openers :
           p # q => opener'[p].shell = NoShell \/ opener'[p].shell # opener'[q].shell
  BY <1>1, <1>5, DoneWith
<1> HIDE DEF shell
<1>7. PoolTyped' /\ WarmIsEnough'
  BY <1>1, <1>2, <1>4, <1>5, <1>6 DEF PoolInv, PoolTyped, Rewarmed
<1>8. ShellsInPlace'
  BY <1>1, <1>3, <1>4, <1>6 DEF PoolInv, ShellsInPlace, Rewarmed
<1>9. UsedOnce'
  <2>1. ToSet(idle) \cap {shell} = {} /\ shell \notin panels
    BY <1>3 DEF PoolInv, PoolIsSound, UsedOnce
  <2> QED BY <1>1, <1>4, <1>6, <2>1 DEF PoolInv, PoolIsSound, UsedOnce, Rewarmed
<1>10. NothingLeftOver'
  BY <1>1, <1>4, <1>6 DEF PoolInv, PoolIsSound, NothingLeftOver
<1> QED BY <1>7, <1>8, <1>9, <1>10 DEF PoolInv, PoolIsSound

LEMMA RetiresKeeps == ASSUME PoolInv, NEW l \in Shells, PanelRetires(l) PROVE PoolInv'
<1>1. /\ l \in panels /\ panels' = panels \ {l} /\ Discard({l}) /\ named' = named \ {l}
      /\ UNCHANGED <<opener, handed, woes>> /\ Taken' = Taken
  BY DEF PanelRetires, Taken
<1>2. Taken \cup panels \subseteq handed /\ panels \cap Taken = {}
  BY DEF PoolInv, ShellsInPlace, PoolIsSound, UsedOnce
<1>3. Rewarmed /\ channels' = channels \ {l} /\ built' = built \ {l}
  BY <1>1, <1>2, DiscardRewarms
<1>4. PoolTyped' /\ WarmIsEnough'
  <2>1. opener' \in [Openers -> [at : Steps, shell : Minted' \cup {NoShell}]]
    BY <1>1, <1>3 DEF PoolInv, PoolTyped, Rewarmed
  <2> QED BY <1>1, <1>3, <2>1 DEF PoolInv, PoolTyped, Rewarmed
<1>5. ShellsInPlace'
  BY <1>1, <1>2, <1>3 DEF PoolInv, ShellsInPlace, Rewarmed
<1>6. UsedOnce'
  <2>1. ToSet(idle) \cap {l} = {} /\ l \notin Taken
    BY <1>1, <1>2 DEF PoolInv, PoolIsSound, UsedOnce
  <2> QED BY <1>1, <1>3, <2>1 DEF PoolInv, PoolIsSound, UsedOnce, Rewarmed
<1>7. NothingLeftOver'
  BY <1>1, <1>3 DEF PoolInv, PoolIsSound, NothingLeftOver
<1> QED BY <1>4, <1>5, <1>6, <1>7 DEF PoolInv, PoolIsSound

LEMMA RaisedKeeps == ASSUME PoolInv, NEW l \in Shells, PanelRaised(l) PROVE PoolInv'
<1>1. /\ l \in panels /\ named' = named \cup {l} /\ Taken' = Taken
      /\ UNCHANGED <<idle, channels, loading, minted, built, panels, opener, handed, woes>>
  BY DEF PanelRaised, Taken
<1>2. PoolTyped' /\ WarmIsEnough'
  BY <1>1 DEF PoolInv, PoolTyped, PoolIsSound, WarmIsEnough, Minted
<1>3. ShellsInPlace' /\ UsedOnce' /\ NothingLeftOver'
  BY <1>1 DEF PoolInv, ShellsInPlace, PoolIsSound, UsedOnce, NothingLeftOver
<1> QED BY <1>2, <1>3 DEF PoolInv, PoolIsSound

LEMMA PoolStep == PoolInv /\ [PoolNext]_pool => PoolInv'
<1> SUFFICES ASSUME PoolInv, [PoolNext]_pool PROVE PoolInv'
  OBVIOUS
<1>1. ASSUME NEW l \in Shells,
             \/ Builds(l) \/ GrowsOverdue(l) \/ Ready(l) \/ PanelRetires(l) \/ PanelRaised(l)
      PROVE  PoolInv'
  BY <1>1, BuildsKeeps, OverdueKeeps, ReadyKeeps, RetiresKeeps, RaisedKeeps
<1>2. ASSUME NEW o \in Openers, AsksToOpen(o) \/ Opening(o) PROVE PoolInv'
  BY <1>2, WalksKeep, TakesKeeps, RefillsKeeps, AdoptsKeeps, RefusedKeeps DEF Opening
<1>3. CASE UNCHANGED pool
  BY <1>3 DEF pool, shells, PoolInv, PoolTyped, Minted, ShellsInPlace, Taken,
     PoolIsSound, UsedOnce, WarmIsEnough, NothingLeftOver
<1> QED BY <1>1, <1>2, <1>3 DEF PoolNext

\* The pool keeps to its invariant (pool.rs): every shell is in one place.
THEOREM PoolInvariant == PoolSpec => []PoolInv
<1> QED BY PoolBegins, PoolStep, PTL DEF PoolSpec

\* A shell is used once, no more of them wait than were asked for, and none is
\* left on the screen, for any threads, shells and pages that never load
\* (Pool::take, ready, warm, discard).
THEOREM ShellsAreUsedOnce == PoolSpec => []PoolIsSound
<1>1. PoolInv => PoolIsSound
  BY DEF PoolInv
<1> QED BY <1>1, PoolInvariant, PTL

-----------------------------------------------------------------------------
(* Where the panels stand.                                                  *)


\* A panel that is pinned is given back only while the layer is up
\* (GivesBackHidden, in Release).
GivenBackInSight == ~GivesBackHidden

\* A panel in a slot of any rank or reach, however long it has aged.
Standing ==
  [kind : {"Shelf"}, rank : Nat] \cup [kind : {"Edge"}, corner : Range(Corners), reach : Nat]

Placed ==
  [posture : {"Exhibit", "Instrument"}, height : UNION Range(Heights), slot : Standing,
   owned : BOOLEAN, life : {"Live", "Dim", "Pinned"}, cited : BOOLEAN, hovered : BOOLEAN,
   aging : Nat, held : BOOLEAN, holding : Nat, dead : BOOLEAN]

Entries(entries) == DOMAIN entries \subseteq Labels /\ entries \in [DOMAIN entries -> Placed]

\* The columns of a side leave room for the gap of the last panel and no more.
SidesFit(entries, off) ==
  \A corner \in DOMAIN Facing :
    Claimed(entries, Column(entries, corner) \ off)
      + Claimed(entries, Column(entries, Facing[corner]) \ off) <= EdgeReach + Margin

\* What a row is reflowed from: its panels are the layer's, each once, and the
\* others hang from an edge with room for all.
Arranged(entries, row) ==
  /\ Entries(entries) /\ row \in Seq(DOMAIN entries) /\ IsInjective(row)
  /\ Range(row) = OnLayer(entries)
  /\ \A s \in DOMAIN entries \ Range(row) : entries[s].slot.kind = "Edge"
  /\ SidesFit(entries, Range(row))

\* What a reflow leaves: a shelf in order, and each column packed from its
\* corner.
Settled(entries, row) ==
  /\ Arranged(entries, row) /\ Len(row) <= ShelfSlots
  /\ \A i \in DOMAIN row : entries[row[i]].slot = ShelfSlot(i)
  /\ \A s \in DOMAIN entries \ Range(row) :
       entries[s].slot.reach = Claimed(entries, Before(entries, s))

\* The same panels, wherever they stand.
Relocated(new, old) == new = [old EXCEPT !.slot = new.slot]
SamePanels(new, old) ==
  DOMAIN new = DOMAIN old /\ \A s \in DOMAIN old : Relocated(new[s], old[s])

-----------------------------------------------------------------------------
(* What panels claim.                                                       *)

LEMMA ShelfConstants ==
  /\ MaxOpens \in Nat /\ EdgeReach \in Nat /\ Margin \in Nat /\ HoldCeiling \in Nat /\ MaxLost \in Nat
  /\ ShelfSlots \in Nat \ {0} /\ Grace \in Nat \ {0} /\ Labels \subseteq Nat
  /\ \A n \in Labels : \A h \in Heights[n] : h \in UNION Range(Heights)
  /\ \A h \in UNION Range(Heights) : h \in Nat \ {0}
  /\ Corners \in Seq(DOMAIN Facing) /\ Range(Corners) \subseteq DOMAIN Facing
  /\ \A c \in DOMAIN Facing : Facing[c] \in DOMAIN Facing /\ Facing[Facing[c]] = c
<1>1. /\ MaxOpens \in Nat /\ EdgeReach \in Nat /\ Margin \in Nat /\ HoldCeiling \in Nat
      /\ MaxLost \in Nat /\ ShelfSlots \in Nat \ {0} /\ Grace \in Nat \ {0}
  BY ShelfAssumption DEF ShelfAssumption
<1>2. Labels \subseteq Nat
  BY <1>1 DEF Labels
<1>3. Heights \in [Labels -> SUBSET (Nat \ {0})]
  BY ShelfAssumption DEF ShelfAssumption
<1>4. \A n \in Labels : \A h \in Heights[n] : h \in UNION Range(Heights)
  BY <1>3 DEF Range
<1>5. \A h \in UNION Range(Heights) : h \in Nat \ {0}
  BY <1>3 DEF Range
<1>6. Corners \in Seq(DOMAIN Facing) /\ Range(Corners) \subseteq DOMAIN Facing
  BY ShelfAssumption DEF ShelfAssumption, Range
<1>7. \A c \in DOMAIN Facing : Facing[c] \in DOMAIN Facing /\ Facing[Facing[c]] = c
  BY DEF Facing
<1> QED BY <1>1, <1>2, <1>4, <1>5, <1>6, <1>7

LEMMA LabelsAreFinite ==
  ASSUME NEW ids, ids \subseteq Labels
  PROVE  IsFiniteSet(ids) /\ Cardinality(ids) \in Nat
<1>1. 1 \in Int /\ MaxOpens \in Int
  BY ShelfConstants
<1>2. IsFiniteSet(Labels)
  BY <1>1, FS_Interval DEF Labels
<1> QED BY <1>2, FS_Subset, FS_CardinalityType

LEMMA HeightsOf ==
  ASSUME NEW entries, Entries(entries), NEW s \in DOMAIN entries
  PROVE  entries[s].height \in Nat \ {0} /\ entries[s].height + Margin \in Nat \ {0} /\ s \in Nat
<1>1. entries[s] \in Placed
  BY DEF Entries
<1>2. entries[s].height \in UNION Range(Heights)
  BY <1>1 DEF Placed
<1>3. s \in Labels
  BY DEF Entries
<1>4. entries[s].height \in Nat \ {0} /\ s \in Nat
  BY <1>2, <1>3, ShelfConstants, Zenon
<1> QED BY <1>4, ShelfConstants

LEMMA PixelsAreFinite ==
  ASSUME NEW entries, Entries(entries), NEW ids, ids \subseteq DOMAIN entries
  PROVE  IsFiniteSet(Pixels(entries, ids)) /\ Claimed(entries, ids) \in Nat
<1> DEFINE part == [s \in ids |-> {s} \X (1..entries[s].height + Margin)]
           parts == {{s} \X (1..entries[s].height + Margin) : s \in ids}
<1>1. \A s \in ids : IsFiniteSet({s} \X (1..entries[s].height + Margin))
  <2> SUFFICES ASSUME NEW s \in ids PROVE IsFiniteSet({s} \X (1..entries[s].height + Margin))
    OBVIOUS
  <2>1. entries[s].height + Margin \in Int /\ 1 \in Int
    BY HeightsOf
  <2>2. IsFiniteSet(1..entries[s].height + Margin)
    BY <2>1, FS_Interval
  <2> QED BY <2>2, FS_Singleton, FS_Product
<1>2. part \in Surjection(ids, parts)
  BY DEF Surjection
<1>3. IsFiniteSet(parts)
  <2>1. ids \subseteq Labels
    BY DEF Entries
  <2> QED BY <1>2, <2>1, LabelsAreFinite, FS_Surjection
<1>4. IsFiniteSet(UNION parts)
  BY <1>1, <1>3, FS_UNION
<1> QED BY <1>4, FS_CardinalityType DEF Pixels, Claimed

LEMMA ClaimOfOne ==
  ASSUME NEW entries, Entries(entries), NEW s \in DOMAIN entries
  PROVE  Claimed(entries, {s}) = entries[s].height + Margin
<1> DEFINE tall == entries[s].height + Margin
<1>1. Pixels(entries, {s}) = {s} \X (1..tall)
  BY DEF Pixels
<1>2. tall \in Nat \ {0} /\ tall \in Int /\ 1 \in Int
  BY HeightsOf
<1> HIDE DEF tall
<1>3. IsFiniteSet(1..tall) /\ Cardinality(1..tall) = tall
  <2>1. IsFiniteSet(1..tall) /\ Cardinality(1..tall) = IF 1 > tall THEN 0 ELSE tall - 1 + 1
    BY <1>2, FS_Interval
  <2> QED BY <1>2, <2>1
<1>4. IsFiniteSet({s}) /\ Cardinality({s}) = 1
  BY FS_Singleton
<1>5. Cardinality({s} \X (1..tall)) = Cardinality({s}) * Cardinality(1..tall)
  BY <1>3, <1>4, FS_Product
<1>6. Cardinality({s} \X (1..tall)) = 1 * tall
  BY <1>3, <1>4, <1>5, Zenon
<1>7. Claimed(entries, {s}) = Cardinality({s} \X (1..tall))
  BY <1>1, Zenon DEF Claimed
<1> QED BY <1>2, <1>6, <1>7 DEF tall

LEMMA ClaimsAdd ==
  ASSUME NEW entries, Entries(entries), NEW A, NEW B,
         A \subseteq DOMAIN entries, B \subseteq DOMAIN entries, A \cap B = {}
  PROVE  Claimed(entries, A \cup B) = Claimed(entries, A) + Claimed(entries, B)
<1>1. /\ Pixels(entries, A \cup B) = Pixels(entries, A) \cup Pixels(entries, B)
      /\ Pixels(entries, A) \cap Pixels(entries, B) = {}
  BY DEF Pixels
<1>2. Cardinality(Pixels(entries, A) \cap Pixels(entries, B)) = 0
  BY <1>1, FS_EmptySet
<1>3. Cardinality(Pixels(entries, A) \cup Pixels(entries, B))
        = Cardinality(Pixels(entries, A)) + Cardinality(Pixels(entries, B))
            - Cardinality(Pixels(entries, A) \cap Pixels(entries, B))
  BY PixelsAreFinite, FS_Union
<1>4. Claimed(entries, A \cup B) = Cardinality(Pixels(entries, A) \cup Pixels(entries, B))
  BY <1>1, Zenon DEF Claimed
<1>5. /\ Claimed(entries, A) = Cardinality(Pixels(entries, A))
      /\ Claimed(entries, B) = Cardinality(Pixels(entries, B))
  BY DEF Claimed
<1>6. Claimed(entries, A) \in Nat /\ Claimed(entries, B) \in Nat
  BY PixelsAreFinite
<1> QED BY <1>2, <1>3, <1>4, <1>5, <1>6

LEMMA ClaimsGrow ==
  ASSUME NEW entries, Entries(entries), NEW A, NEW B, A \subseteq B, B \subseteq DOMAIN entries
  PROVE  Claimed(entries, A) <= Claimed(entries, B)
<1>1. Claimed(entries, A \cup (B \ A)) = Claimed(entries, A) + Claimed(entries, B \ A)
  BY ClaimsAdd
<1>2. A \cup (B \ A) = B
  OBVIOUS
<1>3. Claimed(entries, B) = Claimed(entries, A) + Claimed(entries, B \ A)
  BY <1>1, <1>2, Zenon
<1>4. Claimed(entries, A) \in Nat /\ Claimed(entries, B \ A) \in Nat
  BY PixelsAreFinite
<1> QED BY <1>3, <1>4

\* Panels as tall as before claim what they did.
LEMMA ClaimsTheSame ==
  ASSUME NEW old, NEW new, NEW ids, \A s \in ids : new[s].height = old[s].height
  PROVE  Claimed(new, ids) = Claimed(old, ids)
<1>1. {{s} \X (1..new[s].height + Margin) : s \in ids} = {{s} \X (1..old[s].height + Margin) : s \in ids}
  OBVIOUS
<1>2. Pixels(new, ids) = Pixels(old, ids)
  BY <1>1, Zenon DEF Pixels
<1> QED BY <1>2, Zenon DEF Claimed

-----------------------------------------------------------------------------
(* Rows.                                                                    *)

\* The places of a row that nothing was taken off.
Left(row, ids) == {i \in DOMAIN row : row[i] \notin ids}

\* What is left of a row is what was not taken off it, each once.
LEMMA OffIs ==
  ASSUME NEW labels, labels \subseteq Labels, NEW row \in Seq(labels), IsInjective(row), NEW ids
  PROVE  /\ Off(row, ids) \in Seq(labels \ ids) /\ IsInjective(Off(row, ids))
         /\ Range(Off(row, ids)) = Range(row) \ ids
         /\ Len(Off(row, ids)) = Cardinality(Left(row, ids))
<1> DEFINE left == {i \in DOMAIN row : row[i] \notin ids}
           place(i) == Cardinality({j \in left : j <= i})
           many == Cardinality(left)
           at(k) == CHOOSE i \in left : place(i) = k
           off == Off(row, ids)
<1>1. /\ Len(row) \in Nat /\ DOMAIN row = 1..Len(row) /\ left \subseteq Nat
      /\ \A i \in left : row[i] \in labels \ ids /\ i \in DOMAIN row
  OBVIOUS
<1>2. IsFiniteSet(left) /\ many \in Nat
  <2>1. 1 \in Int /\ Len(row) \in Int
    BY <1>1
  <2>2. IsFiniteSet(DOMAIN row)
    BY <1>1, <2>1, FS_Interval
  <2> QED BY <2>2, FS_Subset, FS_CardinalityType
<1>3. \A i \in left : place(i) \in 1..many
  <2> SUFFICES ASSUME NEW i \in left PROVE place(i) \in 1..many
    OBVIOUS
  <2> DEFINE upto == {j \in left : j <= i}
  <2>1. upto \in SUBSET left /\ i \in upto
    BY <1>1
  <2>2. IsFiniteSet(upto) /\ Cardinality(upto) <= many
    BY <1>2, <2>1, FS_Subset
  <2>3. Cardinality(upto) \in Nat /\ Cardinality(upto) # 0
    BY <2>1, <2>2, FS_CardinalityType, FS_EmptySet
  <2> QED BY <1>2, <2>2, <2>3
<1>4. \A i, j \in left : i < j => place(i) < place(j)
  <2> SUFFICES ASSUME NEW i \in left, NEW j \in left, i < j PROVE place(i) < place(j)
    OBVIOUS
  <2> DEFINE first == {k \in left : k <= i}
             more == {k \in left : k <= j}
  <2>1. first \in SUBSET more /\ more \in SUBSET left /\ j \in more /\ j \notin first
    BY <1>1
  <2>2. IsFiniteSet(more)
    BY <1>2, <2>1, FS_Subset
  <2>3. IsFiniteSet(first) /\ Cardinality(first) <= Cardinality(more)
        /\ (Cardinality(first) = Cardinality(more) => first = more)
    BY <2>1, <2>2, FS_Subset
  <2>4. Cardinality(first) \in Nat /\ Cardinality(more) \in Nat
    BY <2>2, <2>3, FS_CardinalityType
  <2>5. first # more
    BY <2>1
  <2> QED BY <2>3, <2>4, <2>5
<1>a. \A a, b \in Nat : ~(a < b) /\ ~(b < a) => a = b
  OBVIOUS
<1> HIDE DEF place
<1>5. \A k \in 1..many : at(k) \in left /\ place(at(k)) = k
  <2> DEFINE f == [i \in left |-> place(i)]
  <2>1. f \in Injection(left, 1..many)
    <3>1. \A i, j \in left : f[i] = f[j] => i = j
      <4> SUFFICES ASSUME NEW i \in left, NEW j \in left, place(i) = place(j) PROVE i = j
        OBVIOUS
      <4>1. place(i) \in Nat /\ place(j) \in Nat /\ i \in Nat /\ j \in Nat
        BY <1>1, <1>2, <1>3
      <4>2. ~(i < j) /\ ~(j < i)
        <5>1. i < j => place(i) < place(j)
          BY <1>4
        <5>2. j < i => place(j) < place(i)
          BY <1>4
        <5> QED BY <4>1, <5>1, <5>2
      <4> QED BY <1>a, <4>1, <4>2, Zenon
    <3>2. f \in [left -> 1..many]
      BY <1>3
    <3> QED BY <3>1, <3>2 DEF Injection, IsInjective
  <2>2. 1 \in Int /\ many \in Int
    BY <1>2
  <2>3. IsFiniteSet(1..many) /\ Cardinality(1..many) = many
    BY <1>2, <2>2, FS_Interval
  <2>4. f \in Surjection(left, 1..many)
    BY <2>1, <2>3, FS_Injection
  <2> SUFFICES ASSUME NEW k \in 1..many PROVE at(k) \in left /\ place(at(k)) = k
    OBVIOUS
  <2>5. \E i \in left : place(i) = k
    BY <2>4 DEF Surjection
  <2> QED BY <2>5
<1>6. /\ DOMAIN off = 1..many
      /\ \A k \in 1..many : off[k] = row[at(k)]
  BY DEF Off, place
<1> HIDE DEF off, at, many, left
<1>7. off \in Seq(labels \ ids) /\ Len(off) = many
  <2>1. \A k \in 1..many : off[k] \in labels \ ids
    BY <1>1, <1>5, <1>6
  <2>2. off = [k \in 1..many |-> row[at(k)]]
    BY DEF Off, off, at, place, many, left
  <2> QED BY <1>2, <1>6, <2>1, <2>2
<1>8. IsInjective(off)
  <2> SUFFICES ASSUME NEW k \in 1..many, NEW l \in 1..many, off[k] = off[l] PROVE k = l
    BY <1>6 DEF IsInjective
  <2>1. at(k) = at(l)
    BY <1>1, <1>5, <1>6 DEF IsInjective
  <2> QED BY <1>5, <2>1
<1>9. Range(off) = Range(row) \ ids
  <2>1. \A x \in Range(off) : x \in Range(row) \ ids
    <3> SUFFICES ASSUME NEW k \in 1..many PROVE off[k] \in Range(row) \ ids
      BY <1>6 DEF Range
    <3> QED BY <1>1, <1>5, <1>6 DEF Range
  <2>2. \A x \in Range(row) \ ids : x \in Range(off)
    <3> SUFFICES ASSUME NEW i \in DOMAIN row, row[i] \notin ids PROVE row[i] \in Range(off)
      BY DEF Range
    <3>1. i \in left
      BY DEF left
    <3>2. place(i) \in 1..many
      BY <1>3, <3>1
    <3>3. at(place(i)) \in left /\ place(at(place(i))) = place(i)
      BY <1>5, <3>2
    <3>4. at(place(i)) = i
      <4>1. /\ ~(at(place(i)) < i) /\ ~(i < at(place(i)))
        <5>1. place(i) \in Nat
          BY <1>2, <3>2
        <5> QED BY <1>4, <3>1, <3>3, <5>1
      <4>2. at(place(i)) \in Nat /\ i \in Nat
        BY <1>1, <3>1, <3>3
      <4> QED BY <1>a, <4>1, <4>2, Zenon
    <3> QED BY <1>6, <3>2, <3>4 DEF Range
  <2> QED BY <2>1, <2>2
<1> QED BY <1>7, <1>8, <1>9 DEF off, many, left, Left

\* A row from which those too many are taken off fits the shelf.
LEMMA OffFits ==
  ASSUME NEW labels, labels \subseteq Labels, NEW row \in Seq(labels), IsInjective(row), NEW ids,
         Crowded(row) \subseteq ids
  PROVE  Len(Off(row, ids)) <= ShelfSlots
<1> DEFINE left == Left(row, ids)
<1>1. Len(Off(row, ids)) = Cardinality(left)
  BY OffIs
<1>2. left \in SUBSET (1..ShelfSlots)
  <2> SUFFICES ASSUME NEW i \in DOMAIN row, row[i] \notin ids PROVE i \in 1..ShelfSlots
    BY DEF Left
  <2>1. i \in 1..Len(row) /\ Len(row) \in Nat /\ ShelfSlots \in Nat
    BY ShelfConstants
  <2>2. i \notin ShelfSlots + 1 .. Len(row)
    BY DEF Crowded
  <2> QED BY <2>1, <2>2
<1>3. 1 \in Int /\ ShelfSlots \in Int /\ ShelfSlots \in Nat \ {0}
  BY ShelfConstants
<1>4. IsFiniteSet(1..ShelfSlots) /\ Cardinality(1..ShelfSlots) = ShelfSlots
  <2>1. /\ IsFiniteSet(1..ShelfSlots)
        /\ Cardinality(1..ShelfSlots) = IF 1 > ShelfSlots THEN 0 ELSE ShelfSlots - 1 + 1
    BY <1>3, FS_Interval
  <2> QED BY <1>3, <2>1
<1>5. Cardinality(left) <= Cardinality(1..ShelfSlots)
  BY <1>2, <1>4, FS_Subset
<1> QED BY <1>1, <1>4, <1>5

\* A newcomer at the front of a row.
LEMMA InFront ==
  ASSUME NEW labels, NEW row \in Seq(labels), IsInjective(row), NEW s, s \notin Range(row)
  PROVE  /\ <<s>> \o row \in Seq(labels \cup {s}) /\ IsInjective(<<s>> \o row)
         /\ Range(<<s>> \o row) = Range(row) \cup {s}
         /\ Crowded(<<s>> \o row) \subseteq Range(row)
<1> DEFINE longer == <<s>> \o row
<1>1. /\ longer \in Seq(labels \cup {s}) /\ Len(longer) = Len(row) + 1 /\ Len(row) \in Nat
      /\ longer[1] = s /\ \A i \in 2..Len(longer) : longer[i] = row[i - 1]
      /\ DOMAIN longer = 1..Len(longer) /\ DOMAIN row = 1..Len(row)
  OBVIOUS
<1> HIDE DEF longer
<1>2. \A i \in 2..Len(longer) : i - 1 \in DOMAIN row /\ longer[i] \in Range(row) /\ longer[i] # s
  <2> SUFFICES ASSUME NEW i \in 2..Len(longer)
               PROVE  i - 1 \in DOMAIN row /\ longer[i] \in Range(row) /\ longer[i] # s
    OBVIOUS
  <2>1. i - 1 \in DOMAIN row /\ longer[i] = row[i - 1]
    BY <1>1
  <2> QED BY <2>1 DEF Range
<1>3. IsInjective(longer)
  <2> SUFFICES ASSUME NEW i \in 1..Len(longer), NEW j \in 1..Len(longer), longer[i] = longer[j]
               PROVE  i = j
    BY <1>1 DEF IsInjective
  <2>1. CASE i = 1 \/ j = 1
    BY <1>1, <1>2, <2>1
  <2>2. CASE i # 1 /\ j # 1
    <3>1. i \in 2..Len(longer) /\ j \in 2..Len(longer)
      BY <1>1, <2>2
    <3>2. row[i - 1] = row[j - 1]
      BY <1>1, <3>1
    <3>3. i - 1 = j - 1
      BY <1>2, <3>1, <3>2 DEF IsInjective
    <3> QED BY <3>3
  <2> QED BY <2>1, <2>2
<1>4. Range(longer) = Range(row) \cup {s}
  <2>1. \A x \in Range(longer) : x \in Range(row) \cup {s}
    <3> SUFFICES ASSUME NEW i \in 1..Len(longer) PROVE longer[i] \in Range(row) \cup {s}
      BY <1>1 DEF Range
    <3>1. i = 1 \/ i \in 2..Len(longer)
      BY <1>1
    <3> QED BY <1>1, <1>2, <3>1
  <2>2. \A i \in DOMAIN row : row[i] \in Range(longer)
    <3> SUFFICES ASSUME NEW i \in DOMAIN row PROVE row[i] \in Range(longer)
      OBVIOUS
    <3>1. i + 1 \in 2..Len(longer) /\ i + 1 \in DOMAIN longer /\ (i + 1) - 1 = i
      BY <1>1
    <3>2. longer[i + 1] = row[i]
      BY <1>1, <3>1
    <3> QED BY <3>1, <3>2 DEF Range
  <2>3. 1 \in DOMAIN longer /\ longer[1] = s
    BY <1>1
  <2>4. s \in Range(longer)
    BY <2>3, Zenon DEF Range
  <2>5. \A x \in Range(row) : x \in Range(longer)
    <3> SUFFICES ASSUME NEW i \in DOMAIN row PROVE row[i] \in Range(longer)
      BY Zenon DEF Range
    <3> QED BY <2>2
  <2> HIDE DEF longer
  <2> QED BY <2>1, <2>4, <2>5
<1>5. Crowded(longer) \subseteq Range(row)
  <2> SUFFICES ASSUME NEW i \in ShelfSlots + 1 .. Len(longer) PROVE longer[i] \in Range(row)
    BY DEF Crowded
  <2>1. i \in 2..Len(longer)
    BY <1>1, ShelfConstants
  <2> QED BY <1>2, <2>1
<1> QED BY <1>1, <1>3, <1>4, <1>5 DEF longer

-----------------------------------------------------------------------------
(* A reflow.                                                                *)

\* Which of the panels that hang from an edge stand nearer the corner than s.
Ahead(entries, off, s) ==
  {t \in DOMAIN entries \ off :
     /\ entries[t].slot.corner = entries[s].slot.corner
     /\ \/ entries[t].slot.reach < entries[s].slot.reach
        \/ entries[t].slot.reach = entries[s].slot.reach /\ t < s}

LEMMA PlacedIs ==
  ASSUME NEW entries, Entries(entries), NEW s \in DOMAIN entries
  PROVE  /\ entries[s] \in Placed /\ entries[s].slot \in Standing
         /\ entries[s].slot.kind = "Edge" =>
              /\ entries[s].slot = EdgeSlot(entries[s].slot.corner, entries[s].slot.reach)
              /\ entries[s].slot.corner \in Range(Corners) /\ entries[s].slot.reach \in Nat
         /\ entries[s].slot.kind # "Edge" => entries[s].slot.kind = "Shelf"
<1>1. entries[s] \in Placed
  BY DEF Entries
<1>2. entries[s].slot \in Standing
  BY <1>1 DEF Placed
<1> QED BY <1>1, <1>2 DEF Standing, EdgeSlot

\* Those ahead claim less the nearer they are, by the panel between at least.
LEMMA AheadClaims ==
  ASSUME NEW entries, Entries(entries), NEW off,
         \A s \in DOMAIN entries \ off : entries[s].slot.kind = "Edge",
         NEW s \in DOMAIN entries \ off, NEW t \in DOMAIN entries \ off,
         t \in Ahead(entries, off, s)
  PROVE  /\ Claimed(entries, Ahead(entries, off, t)) + entries[t].height + Margin
              <= Claimed(entries, Ahead(entries, off, s))
         /\ s \notin Ahead(entries, off, t)
<1> DEFINE near == Ahead(entries, off, t)
           far == Ahead(entries, off, s)
<1>1. \A u \in DOMAIN entries \ off : entries[u].slot.reach \in Nat /\ u \in Nat
  BY PlacedIs, HeightsOf
<1>2. near \subseteq far /\ s \notin near /\ t \notin near /\ t \in far
  <2>1. \A u \in near : u \in far
    BY <1>1 DEF Ahead
  <2>2. s \notin near /\ t \notin near
    BY <1>1 DEF Ahead
  <2> QED BY <2>1, <2>2
<1>3. near \subseteq DOMAIN entries /\ far \subseteq DOMAIN entries
  BY DEF Ahead
<1> HIDE DEF near, far
<1>4. Claimed(entries, near \cup {t}) = Claimed(entries, near) + Claimed(entries, {t})
  BY <1>2, <1>3, ClaimsAdd
<1>5. Claimed(entries, near \cup {t}) <= Claimed(entries, far)
  <2>1. near \cup {t} \subseteq far
    BY <1>2
  <2> QED BY <1>3, <2>1, ClaimsGrow
<1>6. Claimed(entries, {t}) = entries[t].height + Margin
  BY ClaimOfOne
<1>7. Claimed(entries, near) \in Nat /\ Claimed(entries, far) \in Nat
  BY <1>3, PixelsAreFinite
<1>8. entries[t].height \in Nat /\ Margin \in Nat
  BY HeightsOf, ShelfConstants
<1> QED BY <1>2, <1>4, <1>5, <1>6, <1>7, <1>8 DEF near, far

LEMMA ReflowIs ==
  ASSUME NEW entries, NEW row, Arranged(entries, row)
  PROVE  /\ Reflow(entries, row) = [s \in DOMAIN entries |-> Reflow(entries, row)[s]]
         /\ \A i \in DOMAIN row :
              Reflow(entries, row)[row[i]] = [entries[row[i]] EXCEPT !.slot = ShelfSlot(i)]
         /\ \A s \in DOMAIN entries \ Range(row) :
              Reflow(entries, row)[s] =
                [entries[s] EXCEPT !.slot = EdgeSlot(entries[s].slot.corner,
                                              Claimed(entries, Ahead(entries, Range(row), s)))]
<1> DEFINE rank(s) == CHOOSE i \in DOMAIN row : row[i] = s
           ranked == [s \in DOMAIN entries |->
                        IF s \in Range(row)
                        THEN [entries[s] EXCEPT !.slot = ShelfSlot(rank(s))]
                        ELSE entries[s]]
           new == Reflow(entries, row)
<1>1. \A i \in DOMAIN row : row[i] \in Range(row) /\ row[i] \in DOMAIN entries /\ rank(row[i]) = i
  <2> SUFFICES ASSUME NEW i \in DOMAIN row
               PROVE  row[i] \in Range(row) /\ row[i] \in DOMAIN entries /\ rank(row[i]) = i
    OBVIOUS
  <2>1. row[i] \in Range(row) /\ row[i] \in DOMAIN entries
    BY DEF Range, Arranged
  <2>2. rank(row[i]) \in DOMAIN row /\ row[rank(row[i])] = row[i]
    OBVIOUS
  <2>3. rank(row[i]) = i
    BY <2>2 DEF Arranged, IsInjective
  <2> QED BY <2>1, <2>3
<1>2. Entries(entries) /\ \A s \in DOMAIN entries : entries[s] \in Placed
  BY PlacedIs DEF Arranged
<1> HIDE DEF rank
<1>3. /\ DOMAIN ranked = DOMAIN entries
      /\ \A s \in Range(row) : s \in DOMAIN entries =>
           /\ ranked[s] = [entries[s] EXCEPT !.slot = ShelfSlot(rank(s))]
           /\ ranked[s].slot.kind = "Shelf" /\ ranked[s].height = entries[s].height
      /\ \A s \in DOMAIN entries \ Range(row) : ranked[s] = entries[s]
  <2>1. \A s \in Range(row) : s \in DOMAIN entries =>
           /\ ranked[s] = [entries[s] EXCEPT !.slot = ShelfSlot(rank(s))]
           /\ ranked[s].slot.kind = "Shelf" /\ ranked[s].height = entries[s].height
    <3> SUFFICES ASSUME NEW s \in DOMAIN entries, s \in Range(row)
                 PROVE  /\ ranked[s] = [entries[s] EXCEPT !.slot = ShelfSlot(rank(s))]
                        /\ ranked[s].slot.kind = "Shelf" /\ ranked[s].height = entries[s].height
      OBVIOUS
    <3>1. ranked[s] = [entries[s] EXCEPT !.slot = ShelfSlot(rank(s))]
      OBVIOUS
    <3>2. entries[s] \in Placed
      BY <1>2
    <3> QED BY <3>1, <3>2 DEF Placed, ShelfSlot
  <2> QED BY <2>1
<1>4. new = [s \in DOMAIN ranked |->
               IF ranked[s].slot.kind = "Edge"
               THEN [ranked[s] EXCEPT !.slot.reach = Claimed(ranked, Before(ranked, s))]
               ELSE ranked[s]]
  BY DEF Reflow, rank
<1> HIDE DEF ranked, new
<1>5. ASSUME NEW s \in DOMAIN entries \ Range(row)
      PROVE  Claimed(ranked, Before(ranked, s)) = Claimed(entries, Ahead(entries, Range(row), s))
  <2>1. \A t \in DOMAIN entries \ Range(row) : entries[t].slot.kind = "Edge"
    BY DEF Arranged
  <2>2. Before(ranked, s) = Ahead(entries, Range(row), s)
    BY <1>3, <2>1 DEF Before, Ahead, Column
  <2>3. \A t \in Ahead(entries, Range(row), s) : ranked[t].height = entries[t].height
    BY <1>3 DEF Ahead
  <2>4. Claimed(ranked, Ahead(entries, Range(row), s)) = Claimed(entries, Ahead(entries, Range(row), s))
    BY <2>3, ClaimsTheSame
  <2> QED BY <2>2, <2>4, Zenon
<1>6. new = [s \in DOMAIN entries |-> new[s]]
  BY <1>3, <1>4
<1>7. ASSUME NEW i \in DOMAIN row
      PROVE  new[row[i]] = [entries[row[i]] EXCEPT !.slot = ShelfSlot(i)]
  <2>1. ranked[row[i]] = [entries[row[i]] EXCEPT !.slot = ShelfSlot(i)] /\ ranked[row[i]].slot.kind # "Edge"
    BY <1>1, <1>3
  <2>2. new[row[i]] = ranked[row[i]]
    BY <1>1, <1>3, <1>4, <2>1
  <2> QED BY <2>1, <2>2
<1>8. ASSUME NEW s \in DOMAIN entries \ Range(row)
      PROVE  new[s] = [entries[s] EXCEPT !.slot = EdgeSlot(entries[s].slot.corner,
                                              Claimed(entries, Ahead(entries, Range(row), s)))]
  <2> DEFINE claim == Claimed(entries, Ahead(entries, Range(row), s))
  <2>1. ranked[s] = entries[s] /\ entries[s].slot.kind = "Edge"
    BY <1>3 DEF Arranged
  <2>2. Claimed(ranked, Before(ranked, s)) = claim
    BY <1>5
  <2> HIDE DEF claim
  <2>3. new[s] = [entries[s] EXCEPT !.slot.reach = claim]
    BY <1>3, <1>4, <2>1, <2>2
  <2>4. entries[s] \in Placed /\ entries[s].slot = EdgeSlot(entries[s].slot.corner, entries[s].slot.reach)
    BY <1>2, <2>1, PlacedIs
  <2>5. [entries[s] EXCEPT !.slot.reach = claim] =
          [entries[s] EXCEPT !.slot = [entries[s].slot EXCEPT !.reach = claim]]
    BY <2>4 DEF Placed
  <2>6. [entries[s].slot EXCEPT !.reach = claim] = EdgeSlot(entries[s].slot.corner, claim)
    BY <2>4 DEF EdgeSlot
  <2> QED BY <2>3, <2>5, <2>6 DEF claim
<1> QED BY <1>6, <1>7, <1>8 DEF new

LEMMA ReflowSettles ==
  ASSUME NEW entries, NEW row, Arranged(entries, row), Len(row) <= ShelfSlots
  PROVE  /\ Settled(Reflow(entries, row), row)
         /\ SamePanels(Reflow(entries, row), entries)
<1>0. /\ \A i \in DOMAIN row :
              Reflow(entries, row)[row[i]] = [entries[row[i]] EXCEPT !.slot = ShelfSlot(i)]
      /\ \A s \in DOMAIN entries \ Range(row) :
              Reflow(entries, row)[s] =
                [entries[s] EXCEPT !.slot = EdgeSlot(entries[s].slot.corner,
                                              Claimed(entries, Ahead(entries, Range(row), s)))]
  BY ReflowIs
<1> DEFINE new == Reflow(entries, row)
           off == Range(row)
           ahead(s) == Ahead(entries, off, s)
           claim(s) == Claimed(entries, ahead(s))
           hanging == DOMAIN entries \ off
<1>1. /\ DOMAIN new = DOMAIN entries /\ new = [s \in DOMAIN entries |-> new[s]]
      /\ \A i \in DOMAIN row : new[row[i]] = [entries[row[i]] EXCEPT !.slot = ShelfSlot(i)]
      /\ \A s \in hanging :
           new[s] = [entries[s] EXCEPT !.slot = EdgeSlot(entries[s].slot.corner, claim(s))]
  <2>1. new = [s \in DOMAIN entries |-> new[s]]
    BY ReflowIs
  <2>2. DOMAIN [s \in DOMAIN entries |-> new[s]] = DOMAIN entries
    OBVIOUS
  <2>3. DOMAIN new = DOMAIN entries
    BY <2>1, <2>2, Zenon
  <2>4. \A i \in DOMAIN row : new[row[i]] = [entries[row[i]] EXCEPT !.slot = ShelfSlot(i)]
    BY <1>0, Zenon
  <2>5. \A s \in hanging :
          new[s] = [entries[s] EXCEPT !.slot = EdgeSlot(entries[s].slot.corner, claim(s))]
    BY <1>0, Zenon
  <2> QED BY <2>1, <2>3, <2>4, <2>5, Zenon
<1>2. /\ Entries(entries) /\ row \in Seq(DOMAIN entries) /\ IsInjective(row)
      /\ off = OnLayer(entries) /\ SidesFit(entries, off)
      /\ \A s \in hanging : entries[s].slot.kind = "Edge"
  BY DEF Arranged
<1>3. /\ \A s \in DOMAIN entries : entries[s] \in Placed
      /\ \A s \in hanging : entries[s].slot.corner \in Range(Corners)
      /\ \A s \in hanging : entries[s].slot.reach \in Nat /\ s \in Nat
  BY <1>2, PlacedIs, HeightsOf
<1>4. \A s \in hanging : claim(s) \in Nat /\ ahead(s) \subseteq hanging
  <2> SUFFICES ASSUME NEW s \in hanging PROVE claim(s) \in Nat /\ ahead(s) \subseteq hanging
    OBVIOUS
  <2>1. ahead(s) \subseteq hanging
    BY DEF Ahead
  <2> QED BY <1>2, <2>1, PixelsAreFinite
<1>5. \A s, t \in hanging : t \in ahead(s) => claim(t) < claim(s) /\ s \notin ahead(t)
  <2> SUFFICES ASSUME NEW s \in hanging, NEW t \in hanging, t \in ahead(s)
               PROVE  claim(t) < claim(s) /\ s \notin ahead(t)
    OBVIOUS
  <2>1. claim(t) + entries[t].height + Margin <= claim(s) /\ s \notin ahead(t)
    BY <1>2, AheadClaims
  <2>2. claim(t) \in Nat /\ claim(s) \in Nat
    BY <1>4
  <2>3. entries[t].height \in Nat \ {0} /\ Margin \in Nat
    BY <1>2, HeightsOf, ShelfConstants
  <2> QED BY <2>1, <2>2, <2>3
<1>6. \A s, t \in hanging : s # t /\ entries[s].slot.corner = entries[t].slot.corner
                             => t \in ahead(s) \/ s \in ahead(t)
  BY <1>3 DEF Ahead
<1>7. \A s \in off : \E i \in DOMAIN row : row[i] = s /\ s \in DOMAIN entries
  BY <1>2 DEF Range, OnLayer
<1> HIDE DEF new, off, ahead, claim, hanging
<1>h. \A s \in DOMAIN entries : s \in off \/ s \in hanging
  BY DEF hanging
<1>8. ASSUME NEW s \in DOMAIN entries
      PROVE  new[s] \in Placed /\ new[s] = [entries[s] EXCEPT !.slot = new[s].slot]
  <2>1. CASE s \in off
    <3>1. PICK i \in DOMAIN row : row[i] = s
      BY <1>7, <2>1
    <3>2. i \in Nat
      BY <1>2
    <3>4. new[row[i]] = [entries[row[i]] EXCEPT !.slot = ShelfSlot(i)]
      BY <1>1, Zenon
    <3>5. new[s] = [entries[s] EXCEPT !.slot = ShelfSlot(i)]
      BY <3>1, <3>4, Zenon
    <3>3. ShelfSlot(i) \in Standing
      BY <3>2 DEF ShelfSlot, Standing
    <3> QED BY <1>3, <3>5, <3>3 DEF Placed
  <2>2. CASE s \in hanging
    <3>1. new[s] = [entries[s] EXCEPT !.slot = EdgeSlot(entries[s].slot.corner, claim(s))]
      BY <1>1, <2>2
    <3>2. EdgeSlot(entries[s].slot.corner, claim(s)) \in Standing
      BY <1>3, <1>4, <2>2 DEF EdgeSlot, Standing
    <3> QED BY <1>3, <3>1, <3>2 DEF Placed
  <2> QED BY <1>h, <2>1, <2>2
<1>9. Entries(new) /\ SamePanels(new, entries)
  <2>1. [s \in DOMAIN entries |-> new[s]] \in [DOMAIN entries -> Placed]
    BY <1>8
  <2>2. new \in [DOMAIN new -> Placed] /\ DOMAIN new \subseteq Labels
    BY <1>1, <1>2, <2>1, Zenon DEF Entries
  <2>3. Entries(new)
    BY <2>2, Zenon DEF Entries
  <2>4. DOMAIN new = DOMAIN entries
    BY <1>1, Zenon
  <2>5. \A s \in DOMAIN entries : Relocated(new[s], entries[s])
    BY <1>8, Zenon DEF Relocated
  <2> QED BY <2>3, <2>4, <2>5, Zenon DEF SamePanels
<1>10. ASSUME NEW s \in DOMAIN entries
       PROVE  /\ new[s].height = entries[s].height
              /\ Transient(new[s]) = Transient(entries[s])
  <2>1. new[s] = [entries[s] EXCEPT !.slot = new[s].slot] /\ entries[s] \in Placed
    BY <1>3, <1>8
  <2> QED BY <2>1, SMTT(60) DEF Placed, Transient
<1>11. ASSUME NEW i \in DOMAIN row
       PROVE  new[row[i]].slot = ShelfSlot(i) /\ new[row[i]].slot.kind = "Shelf"
  <2>1. entries[row[i]] \in Placed
    BY <1>2, <1>3
  <2>2. new[row[i]] = [entries[row[i]] EXCEPT !.slot = ShelfSlot(i)]
    BY <1>1, Zenon
  <2> QED BY <2>1, <2>2 DEF Placed, ShelfSlot
<1>12. ASSUME NEW s \in hanging
       PROVE  /\ new[s].slot = EdgeSlot(entries[s].slot.corner, claim(s))
              /\ new[s].slot.kind = "Edge" /\ new[s].slot.reach = claim(s)
              /\ new[s].slot.corner = entries[s].slot.corner
  <2>1. entries[s] \in Placed
    BY <1>3 DEF hanging
  <2>2. new[s] = [entries[s] EXCEPT !.slot = EdgeSlot(entries[s].slot.corner, claim(s))]
    BY <1>1, Zenon
  <2> QED BY <2>1, <2>2 DEF Placed, EdgeSlot
<1>13. ASSUME NEW s \in off, s \in DOMAIN entries PROVE new[s].slot.kind = "Shelf"
  BY <1>7, <1>11, <1>13
<1>14. \A corner : Column(new, corner) \ off = Column(entries, corner) \ off
  BY <1>1, <1>2, <1>12 DEF Column, hanging
<1>15. \A ids : ids \subseteq DOMAIN entries => Claimed(new, ids) = Claimed(entries, ids)
  <2> SUFFICES ASSUME NEW ids, ids \subseteq DOMAIN entries PROVE Claimed(new, ids) = Claimed(entries, ids)
    OBVIOUS
  <2>1. \A s \in ids : new[s].height = entries[s].height
    BY <1>10
  <2> QED BY <2>1, ClaimsTheSame
<1>16. SidesFit(new, off)
  <2> SUFFICES ASSUME NEW corner \in DOMAIN Facing
               PROVE  Claimed(new, Column(new, corner) \ off)
                        + Claimed(new, Column(new, Facing[corner]) \ off) <= EdgeReach + Margin
    BY DEF SidesFit
  <2>1. /\ Claimed(new, Column(new, corner) \ off) = Claimed(new, Column(entries, corner) \ off)
        /\ Claimed(new, Column(new, Facing[corner]) \ off)
             = Claimed(new, Column(entries, Facing[corner]) \ off)
    BY <1>14, Zenon
  <2>2. /\ Column(entries, corner) \ off \subseteq DOMAIN entries
        /\ Column(entries, Facing[corner]) \ off \subseteq DOMAIN entries
    BY DEF Column
  <2>3. /\ Claimed(new, Column(entries, corner) \ off) = Claimed(entries, Column(entries, corner) \ off)
        /\ Claimed(new, Column(entries, Facing[corner]) \ off)
             = Claimed(entries, Column(entries, Facing[corner]) \ off)
    BY <1>15, <2>2, Zenon
  <2>4. Claimed(entries, Column(entries, corner) \ off)
          + Claimed(entries, Column(entries, Facing[corner]) \ off) <= EdgeReach + Margin
    BY <1>2 DEF SidesFit
  <2> QED BY <2>1, <2>3, <2>4, Zenon
<1>17. OnLayer(new) = OnLayer(entries)
  BY <1>1, <1>10 DEF OnLayer
<1>18. Arranged(new, row)
  BY <1>1, <1>2, <1>9, <1>12, <1>16, <1>17 DEF Arranged, off, hanging
<1>19. ASSUME NEW s \in hanging
       PROVE  new[s].slot.reach = Claimed(new, Before(new, s))
  <2>1. \A t \in hanging : t \in Before(new, s) <=> t \in ahead(s)
    <3> SUFFICES ASSUME NEW t \in hanging PROVE t \in Before(new, s) <=> t \in ahead(s)
      OBVIOUS
    <3>0. claim(s) \in Nat /\ claim(t) \in Nat /\ t \in Nat /\ s \in Nat
      BY <1>3, <1>4
    <3>1. t \in Before(new, s) <=> /\ entries[t].slot.corner = entries[s].slot.corner
                                   /\ claim(t) < claim(s) \/ (claim(t) = claim(s) /\ t < s)
      BY <1>1, <1>12 DEF Before, Column, hanging
    <3>2. t \in ahead(s) => entries[t].slot.corner = entries[s].slot.corner
      BY DEF ahead, Ahead
    <3>3. CASE t \in ahead(s)
      <4>1. claim(t) < claim(s)
        BY <1>5, <3>3
      <4> QED BY <3>1, <3>2, <3>3, <4>1
    <3>4. CASE t \notin ahead(s)
      <4>1. CASE t = s
        BY <3>0, <3>1, <3>4, <4>1
      <4>2. CASE t # s /\ entries[t].slot.corner = entries[s].slot.corner
        <5>1. s \in ahead(t)
          BY <1>6, <3>4, <4>2
        <5>2. claim(s) < claim(t)
          BY <1>5, <5>1
        <5> QED BY <3>0, <3>1, <3>4, <5>2
      <4>3. CASE entries[t].slot.corner # entries[s].slot.corner
        BY <3>1, <3>4, <4>3
      <4> QED BY <4>1, <4>2, <4>3
    <3> QED BY <3>3, <3>4
  <2>2. \A t \in Before(new, s) : t \in hanging
    BY <1>1, <1>h, <1>13 DEF Before, Column
  <2>3. Before(new, s) = ahead(s)
    BY <1>4, <2>1, <2>2
  <2>4. ahead(s) \subseteq DOMAIN entries
    BY <1>4 DEF hanging
  <2>5. Claimed(new, ahead(s)) = claim(s)
    BY <1>15, <2>4 DEF claim
  <2> QED BY <1>12, <2>3, <2>5, Zenon
<1>20. Settled(new, row)
  BY <1>1, <1>11, <1>18, <1>19 DEF Settled, off, hanging
<1> QED BY <1>9, <1>20 DEF new

-----------------------------------------------------------------------------
(* Taking panels off, and putting them on.                                  *)

LEMMA MinusIs ==
  ASSUME NEW f, NEW ids
  PROVE  /\ DOMAIN Minus(f, ids) = DOMAIN f \ ids
         /\ \A s \in DOMAIN f \ ids : Minus(f, ids)[s] = f[s]
         /\ Minus(f, ids) = [s \in DOMAIN f \ ids |-> f[s]]
  BY DEF Minus, Restrict

\* Columns that lost somebody fit as before.
LEMMA FewerFit ==
  ASSUME NEW old, NEW new, Entries(old), NEW off, NEW less, SidesFit(old, off),
         \A s \in DOMAIN new \cap DOMAIN old : new[s].height = old[s].height,
         \A corner \in DOMAIN Facing : Column(new, corner) \ less \subseteq Column(old, corner) \ off
  PROVE  SidesFit(new, less)
<1> SUFFICES ASSUME NEW corner \in DOMAIN Facing
             PROVE  Claimed(new, Column(new, corner) \ less)
                      + Claimed(new, Column(new, Facing[corner]) \ less) <= EdgeReach + Margin
  BY DEF SidesFit
<1>1. ASSUME NEW c \in DOMAIN Facing
      PROVE  /\ Claimed(new, Column(new, c) \ less) <= Claimed(old, Column(old, c) \ off)
             /\ Claimed(new, Column(new, c) \ less) \in Nat
             /\ Claimed(old, Column(old, c) \ off) \in Nat
  <2> DEFINE few == Column(new, c) \ less
             many == Column(old, c) \ off
  <2>1. few \subseteq many /\ many \subseteq DOMAIN old /\ few \subseteq DOMAIN new
    BY DEF Column
  <2> HIDE DEF few, many
  <2>2. Claimed(new, few) = Claimed(old, few)
    <3>1. \A s \in few : new[s].height = old[s].height
      BY <2>1
    <3> QED BY <3>1, ClaimsTheSame
  <2>3. Claimed(old, few) <= Claimed(old, many)
    BY <2>1, ClaimsGrow
  <2>4. Claimed(old, few) \in Nat /\ Claimed(old, many) \in Nat
    BY <2>1, PixelsAreFinite
  <2> QED BY <2>2, <2>3, <2>4 DEF few, many
<1>2. corner \in DOMAIN Facing /\ Facing[corner] \in DOMAIN Facing
  BY ShelfConstants
<1>3. /\ Claimed(new, Column(new, corner) \ less) <= Claimed(old, Column(old, corner) \ off)
      /\ Claimed(new, Column(new, corner) \ less) \in Nat
      /\ Claimed(old, Column(old, corner) \ off) \in Nat
  BY <1>1, <1>2, Zenon
<1>4. /\ Claimed(new, Column(new, Facing[corner]) \ less)
           <= Claimed(old, Column(old, Facing[corner]) \ off)
      /\ Claimed(new, Column(new, Facing[corner]) \ less) \in Nat
      /\ Claimed(old, Column(old, Facing[corner]) \ off) \in Nat
  BY <1>1, <1>2, Zenon
<1>5. Claimed(old, Column(old, corner) \ off) + Claimed(old, Column(old, Facing[corner]) \ off)
        <= EdgeReach + Margin
  BY DEF SidesFit
<1>6. EdgeReach \in Nat /\ Margin \in Nat
  BY ShelfConstants
<1> DEFINE here == Claimed(new, Column(new, corner) \ less)
           there == Claimed(new, Column(new, Facing[corner]) \ less)
           before == Claimed(old, Column(old, corner) \ off)
           beyond == Claimed(old, Column(old, Facing[corner]) \ off)
<1>7. /\ here <= before /\ here \in Nat /\ before \in Nat
      /\ there <= beyond /\ there \in Nat /\ beyond \in Nat
      /\ before + beyond <= EdgeReach + Margin
  BY <1>3, <1>4, <1>5, Zenon
<1> HIDE DEF here, there, before, beyond
<1>8. here + there <= EdgeReach + Margin
  BY <1>6, <1>7
<1> QED BY <1>8 DEF here, there

LEMMA MinusArranged ==
  ASSUME NEW entries, NEW row, Arranged(entries, row), NEW ids
  PROVE  Arranged(Minus(entries, ids), Off(row, ids))
<1> DEFINE left == Minus(entries, ids)
           rest == Off(row, ids)
<1>1. /\ DOMAIN left = DOMAIN entries \ ids
      /\ \A s \in DOMAIN entries \ ids : left[s] = entries[s]
      /\ left = [s \in DOMAIN entries \ ids |-> entries[s]]
  BY MinusIs
<1>2. /\ Entries(entries) /\ row \in Seq(DOMAIN entries) /\ IsInjective(row)
      /\ Range(row) = OnLayer(entries) /\ SidesFit(entries, Range(row))
      /\ \A s \in DOMAIN entries \ Range(row) : entries[s].slot.kind = "Edge"
      /\ DOMAIN entries \subseteq Labels
  BY DEF Arranged, Entries
<1>3. /\ rest \in Seq(DOMAIN entries \ ids) /\ IsInjective(rest)
      /\ Range(rest) = Range(row) \ ids
  BY <1>2, OffIs
<1> HIDE DEF left, rest
<1>4. Entries(left)
  <2>1. \A s \in DOMAIN entries \ ids : entries[s] \in Placed
    BY <1>2, PlacedIs
  <2>2. [s \in DOMAIN entries \ ids |-> entries[s]] \in [DOMAIN entries \ ids -> Placed]
    BY <2>1
  <2>3. left \in [DOMAIN left -> Placed]
    BY <1>1, <2>2, Zenon
  <2> QED BY <1>1, <1>2, <2>3 DEF Entries
<1>5. OnLayer(left) = OnLayer(entries) \ ids
  BY <1>1 DEF OnLayer
<1>6. \A corner : Column(left, corner) \ Range(rest) \subseteq Column(entries, corner) \ Range(row)
  BY <1>1, <1>3 DEF Column
<1>7. SidesFit(left, Range(rest))
  <2>1. \A s \in DOMAIN left \cap DOMAIN entries : left[s].height = entries[s].height
    BY <1>1
  <2> QED BY <1>2, <1>6, <2>1, FewerFit
<1> QED BY <1>1, <1>2, <1>3, <1>4, <1>5, <1>7 DEF Arranged, left, rest

\* Nothing about a panel but its slot and who has it matters to where it stands.
LEMMA SameArranged ==
  ASSUME NEW old, NEW new, NEW row, Arranged(old, row), DOMAIN new = DOMAIN old,
         new \in [DOMAIN new -> Placed],
         \A s \in DOMAIN old : /\ new[s].slot = old[s].slot /\ new[s].height = old[s].height
                              /\ Transient(new[s]) = Transient(old[s])
  PROVE  Arranged(new, row)
<1>1. /\ Entries(old) /\ row \in Seq(DOMAIN old) /\ IsInjective(row)
      /\ Range(row) = OnLayer(old) /\ SidesFit(old, Range(row))
      /\ \A s \in DOMAIN old \ Range(row) : old[s].slot.kind = "Edge"
  BY DEF Arranged
<1>2. OnLayer(new) = OnLayer(old)
  BY DEF OnLayer
<1>3. \A corner : Column(new, corner) = Column(old, corner)
  BY DEF Column
<1>4. SidesFit(new, Range(row))
  <2>1. \A corner \in DOMAIN Facing : Column(new, corner) \ Range(row) \subseteq Column(old, corner) \ Range(row)
    BY <1>3
  <2> QED BY <1>1, <2>1, FewerFit
<1>5. Entries(new)
  BY <1>1 DEF Entries
<1> QED BY <1>1, <1>2, <1>4, <1>5 DEF Arranged

LEMMA SameSettled ==
  ASSUME NEW old, NEW new, NEW row, Settled(old, row), DOMAIN new = DOMAIN old,
         new \in [DOMAIN new -> Placed],
         \A s \in DOMAIN old : /\ new[s].slot = old[s].slot /\ new[s].height = old[s].height
                              /\ Transient(new[s]) = Transient(old[s])
  PROVE  Settled(new, row)
<1>1. Arranged(new, row)
  BY SameArranged DEF Settled
<1>2. \A i \in DOMAIN row : row[i] \in DOMAIN old /\ new[row[i]].slot = ShelfSlot(i)
  BY DEF Settled, Arranged
<1>3. ASSUME NEW s \in DOMAIN old \ Range(row)
      PROVE  new[s].slot.reach = Claimed(new, Before(new, s))
  <2>1. Before(new, s) = Before(old, s) /\ Before(old, s) \subseteq DOMAIN old
    BY DEF Before, Column
  <2>2. Claimed(new, Before(old, s)) = Claimed(old, Before(old, s))
    <3>1. \A t \in Before(old, s) : new[t].height = old[t].height
      BY <2>1
    <3> QED BY <3>1, ClaimsTheSame
  <2>3. Claimed(new, Before(new, s)) = Claimed(old, Before(old, s))
    BY <2>1, <2>2, Zenon
  <2>4. old[s].slot.reach = Claimed(old, Before(old, s))
    BY DEF Settled
  <2> QED BY <2>3, <2>4
<1> QED BY <1>1, <1>2, <1>3 DEF Settled

\* What a retirement leaves is settled, and everybody left is as before.
LEMMA RetireSettles ==
  ASSUME NEW entries, NEW row, Arranged(entries, row), NEW ids, Crowded(row) \subseteq ids
  PROVE  /\ Settled(Reflow(Minus(entries, ids), Off(row, ids)), Off(row, ids))
         /\ DOMAIN Reflow(Minus(entries, ids), Off(row, ids)) = DOMAIN entries \ ids
         /\ \A s \in DOMAIN entries \ ids :
              Relocated(Reflow(Minus(entries, ids), Off(row, ids))[s], entries[s])
<1>1. Arranged(Minus(entries, ids), Off(row, ids))
  BY MinusArranged
<1>2. Len(Off(row, ids)) <= ShelfSlots
  BY OffFits DEF Arranged, Entries
<1>3. /\ Settled(Reflow(Minus(entries, ids), Off(row, ids)), Off(row, ids))
      /\ SamePanels(Reflow(Minus(entries, ids), Off(row, ids)), Minus(entries, ids))
  BY <1>1, <1>2, ReflowSettles
<1>4. /\ DOMAIN Minus(entries, ids) = DOMAIN entries \ ids
      /\ \A s \in DOMAIN entries \ ids : Minus(entries, ids)[s] = entries[s]
  BY MinusIs
<1> QED BY <1>3, <1>4 DEF SamePanels

LEMMA OffNothing ==
  ASSUME NEW labels, NEW row \in Seq(labels)
  PROVE  Off(row, {}) = row
<1> DEFINE left == {i \in DOMAIN row : row[i] \notin {}}
           place(i) == Cardinality({j \in left : j <= i})
           at(k) == CHOOSE i \in left : place(i) = k
<1>1. Len(row) \in Nat /\ DOMAIN row = 1..Len(row) /\ left = 1..Len(row)
  OBVIOUS
<1>2. \A i \in 1..Len(row) : place(i) = i
  <2> SUFFICES ASSUME NEW i \in 1..Len(row) PROVE place(i) = i
    OBVIOUS
  <2>1. {j \in left : j <= i} = 1..i
    BY <1>1
  <2>2. 1 \in Int /\ i \in Int /\ i >= 1
    BY <1>1
  <2>3. Cardinality(1..i) = IF 1 > i THEN 0 ELSE i - 1 + 1
    BY <2>2, FS_Interval
  <2>4. Cardinality(1..i) = i
    BY <2>2, <2>3
  <2> QED BY <2>1, <2>4, Zenon
<1>3. Cardinality(left) = Len(row)
  <2>1. 1 \in Int /\ Len(row) \in Int
    BY <1>1
  <2>2. Cardinality(1..Len(row)) = IF 1 > Len(row) THEN 0 ELSE Len(row) - 1 + 1
    BY <2>1, FS_Interval
  <2>3. Cardinality(1..Len(row)) = Len(row)
    BY <1>1, <2>2
  <2> QED BY <1>1, <2>3, Zenon
<1>4. Off(row, {}) = [k \in 1..Cardinality(left) |-> row[at(k)]]
  BY DEF Off
<1> HIDE DEF left, place
<1>5. \A k \in 1..Len(row) : at(k) = k
  <2> SUFFICES ASSUME NEW k \in 1..Len(row) PROVE at(k) = k
    OBVIOUS
  <2>1. at(k) \in left /\ place(at(k)) = k
    BY <1>1, <1>2
  <2> QED BY <1>1, <1>2, <2>1
<1> HIDE DEF at
<1>6. Off(row, {}) = [k \in 1..Len(row) |-> row[at(k)]]
  BY <1>3, <1>4, Zenon
<1>7. [k \in 1..Len(row) |-> row[at(k)]] = [k \in 1..Len(row) |-> row[k]]
  BY <1>5
<1>8. row = [k \in 1..Len(row) |-> row[k]]
  BY <1>1
<1> QED BY <1>6, <1>7, <1>8, Zenon

LEMMA NobodyCrowded ==
  ASSUME NEW row, Len(row) \in Nat, Len(row) <= ShelfSlots
  PROVE  Crowded(row) = {}
  BY ShelfConstants DEF Crowded

\* In a settled state no panel on the shelf is in a column.
LEMMA ColumnsOfSettled ==
  ASSUME NEW entries, NEW row, Settled(entries, row)
  PROVE  /\ \A s \in Range(row) : s \in DOMAIN entries /\ entries[s].slot.kind = "Shelf"
         /\ \A corner : Column(entries, corner) \cap Range(row) = {}
         /\ SidesFit(entries, {})
<1>1. ASSUME NEW i \in DOMAIN row
      PROVE  row[i] \in DOMAIN entries /\ entries[row[i]].slot.kind = "Shelf"
  <2>1. row \in Seq(DOMAIN entries) /\ entries[row[i]].slot = ShelfSlot(i)
    BY DEF Settled, Arranged
  <2>2. row[i] \in DOMAIN entries
    BY <2>1
  <2> QED BY <2>1, <2>2 DEF ShelfSlot
<1>a. \A s \in Range(row) : s \in DOMAIN entries /\ entries[s].slot.kind = "Shelf"
  BY <1>1 DEF Range
<1>2. \A corner : Column(entries, corner) \cap Range(row) = {}
  BY <1>a DEF Column
<1>3. SidesFit(entries, {})
  <2>1. SidesFit(entries, Range(row)) /\ Entries(entries)
    BY DEF Settled, Arranged
  <2>2. \A corner \in DOMAIN Facing : Column(entries, corner) \ {} \subseteq Column(entries, corner) \ Range(row)
    BY <1>2
  <2> QED BY <2>1, <2>2, FewerFit
<1> QED BY <1>a, <1>2, <1>3

\* An edge with room, and a column that grew by a panel it had room for.
LEMMA FreeEdgeHasRoom ==
  ASSUME NEW entries, Entries(entries), NEW height, NEW slot \in FreeEdges(entries, height)
  PROVE  /\ slot.corner \in Range(Corners) /\ slot \in Standing /\ slot.kind = "Edge"
         /\ slot.corner \in DOMAIN Facing /\ Fits(entries, slot.corner, height)
<1>1. PICK j \in DOMAIN Corners :
        /\ slot = EdgeSlot(Corners[j], Claimed(entries, Column(entries, Corners[j])))
        /\ Fits(entries, Corners[j], height)
  BY DEF FreeEdges
<1>2. Corners[j] \in Range(Corners) /\ Corners[j] \in DOMAIN Facing
  BY ShelfConstants DEF Range
<1>3. Claimed(entries, Column(entries, Corners[j])) \in Nat
  <2>1. Column(entries, Corners[j]) \subseteq DOMAIN entries
    BY DEF Column
  <2> QED BY <2>1, PixelsAreFinite
<1>4. /\ slot.kind = "Edge" /\ slot.corner = Corners[j]
      /\ slot \in [kind : {"Edge"}, corner : Range(Corners), reach : Nat]
  BY <1>1, <1>2, <1>3 DEF EdgeSlot
<1> QED BY <1>1, <1>2, <1>4 DEF Standing

LEMMA OneMoreFits ==
  ASSUME NEW old, Entries(old), SidesFit(old, {}), NEW new, Entries(new), NEW s,
         DOMAIN new = DOMAIN old \cup {s}, \A corner : s \notin Column(old, corner),
         \A t \in DOMAIN old \ {s} : new[t] = old[t],
         new[s].slot.kind = "Edge", new[s].slot.corner \in DOMAIN Facing,
         Fits(old, new[s].slot.corner, new[s].height)
  PROVE  SidesFit(new, {})
<1> DEFINE mine == new[s].slot.corner
           tall == new[s].height
           was(c) == Claimed(old, Column(old, c))
<1>1. Column(new, mine) = Column(old, mine) \cup {s}
  BY DEF Column
<1>2. \A c : c # mine => Column(new, c) = Column(old, c)
  BY DEF Column
<1>3. \A c : Column(old, c) \subseteq DOMAIN old /\ Column(old, c) \subseteq DOMAIN new /\ s \notin Column(old, c)
  BY DEF Column
<1>4. \A c : Claimed(new, Column(old, c)) = was(c) /\ was(c) \in Nat
  <2> SUFFICES ASSUME NEW c PROVE Claimed(new, Column(old, c)) = was(c) /\ was(c) \in Nat
    OBVIOUS
  <2>1. \A t \in Column(old, c) : new[t].height = old[t].height
    BY <1>3
  <2> QED BY <1>3, <2>1, ClaimsTheSame, PixelsAreFinite
<1>5. Claimed(new, Column(old, mine) \cup {s}) = Claimed(new, Column(old, mine)) + Claimed(new, {s})
  BY <1>3, ClaimsAdd
<1>6. Claimed(new, {s}) = tall + Margin /\ tall \in Nat
  BY ClaimOfOne, HeightsOf
<1>7. was(mine) + tall + was(Facing[mine]) <= EdgeReach
  BY DEF Fits
<1>8. /\ mine \in DOMAIN Facing /\ Facing[mine] \in DOMAIN Facing /\ Facing[Facing[mine]] = mine
      /\ Facing[mine] # mine
  BY ShelfConstants DEF Facing
<1>9. EdgeReach \in Nat /\ Margin \in Nat
  BY ShelfConstants
<1>10. \A c \in DOMAIN Facing : was(c) + was(Facing[c]) <= EdgeReach + Margin
  <2>1. \A c : Column(old, c) \ {} = Column(old, c)
    OBVIOUS
  <2> QED BY <2>1, Zenon DEF SidesFit
<1>11. \A c : Column(new, c) \ {} = Column(new, c)
  OBVIOUS
<1>12. Claimed(new, Column(new, mine)) = was(mine) + tall + Margin
  <2>1. Claimed(new, Column(new, mine)) = was(mine) + (tall + Margin)
    BY <1>1, <1>4, <1>5, <1>6, Zenon
  <2>2. was(mine) \in Nat
    BY <1>4
  <2> HIDE DEF was, tall, mine
  <2> QED BY <1>6, <1>9, <2>1, <2>2
<1>13. \A c : c # mine => Claimed(new, Column(new, c)) = was(c)
  BY <1>2, <1>4, Zenon
<1>14. \A c : was(c) \in Nat
  BY <1>4
<1> HIDE DEF was, tall, mine
<1> SUFFICES ASSUME NEW c \in DOMAIN Facing
             PROVE  Claimed(new, Column(new, c)) + Claimed(new, Column(new, Facing[c])) <= EdgeReach + Margin
  BY <1>11, Zenon DEF SidesFit
<1>15. CASE c = mine
  <2>1. Claimed(new, Column(new, Facing[c])) = was(Facing[mine])
    BY <1>8, <1>13, <1>15
  <2>2. Claimed(new, Column(new, c)) = was(mine) + tall + Margin
    BY <1>12, <1>15
  <2>3. was(mine) \in Nat /\ was(Facing[mine]) \in Nat
    BY <1>14
  <2> QED BY <1>6, <1>7, <1>9, <2>1, <2>2, <2>3
<1>16. CASE c = Facing[mine]
  <2>1. Claimed(new, Column(new, c)) = was(Facing[mine])
    BY <1>8, <1>13, <1>16
  <2>2. Claimed(new, Column(new, Facing[c])) = was(mine) + tall + Margin
    BY <1>8, <1>12, <1>16
  <2>3. was(mine) \in Nat /\ was(Facing[mine]) \in Nat
    BY <1>14
  <2> QED BY <1>6, <1>7, <1>9, <2>1, <2>2, <2>3
<1>17. CASE c # mine /\ c # Facing[mine]
  <2>1. Facing[c] # mine
    BY <1>17, ShelfConstants
  <2>2. /\ Claimed(new, Column(new, c)) = was(c)
        /\ Claimed(new, Column(new, Facing[c])) = was(Facing[c])
    BY <1>13, <1>17, <2>1
  <2> QED BY <1>10, <2>2
<1> QED BY <1>15, <1>16, <1>17

-----------------------------------------------------------------------------
(* The invariant.                                                           *)

\* A panel has not aged longer than nobody attended it, and only one that is
\* dim, which the person's are not, ages at all.
AtRest(surface, count) ==
  /\ surface.aging \in 0..Grace - 1 /\ surface.holding \in 0..HoldCeiling
  /\ surface.aging <= count
  /\ surface.life # "Dim" => surface.aging = 0
  /\ surface.owned => surface.life # "Dim"

Counted ==
  /\ opened \in 0..MaxOpens /\ losses \in 0..MaxLost
  /\ frozen \subseteq Stills /\ hidden \in BOOLEAN
  /\ unread \in [Labels -> 0..Grace]

Windowed ==
  /\ DOMAIN screen = Open
  /\ \A s \in Open : screen[s] \in [up : BOOLEAN, sticky : BOOLEAN]

ShelfInv ==
  /\ Counted /\ Windowed /\ Settled(surfaces, shelf)
  /\ Open \subseteq 1..opened /\ \A s \in Open : AtRest(surfaces[s], unread[s])

LEMMA ShelfFacts ==
  ASSUME ShelfInv
  PROVE  /\ Arranged(surfaces, shelf) /\ Entries(surfaces) /\ SidesFit(surfaces, {})
         /\ \A s \in Open : surfaces[s] \in Placed /\ s \in Labels /\ s \in Nat /\ s <= opened
         /\ shelf \in Seq(Open) /\ IsInjective(shelf) /\ Len(shelf) <= ShelfSlots /\ Len(shelf) \in Nat
         /\ Range(shelf) = OnLayer(surfaces) /\ Range(shelf) \subseteq Open /\ Crowded(shelf) = {}
         /\ \A s \in Range(shelf) : surfaces[s].slot.kind = "Shelf" /\ Transient(surfaces[s])
         /\ \A s \in Open \ Range(shelf) : surfaces[s].slot.kind = "Edge" /\ ~Transient(surfaces[s])
         /\ opened \in Nat /\ opened <= MaxOpens /\ opened + 1 \notin Open /\ Open \subseteq Labels
<1>1. Settled(surfaces, shelf) /\ Arranged(surfaces, shelf) /\ Entries(surfaces)
  BY DEF ShelfInv, Settled, Arranged
<1>2. \A s \in Open : surfaces[s] \in Placed /\ s \in Labels
  BY <1>1, PlacedIs DEF Open, Entries
<1>3. /\ shelf \in Seq(Open) /\ IsInjective(shelf) /\ Len(shelf) <= ShelfSlots /\ Len(shelf) \in Nat
      /\ Range(shelf) = OnLayer(surfaces)
  BY <1>1 DEF Open, Settled, Arranged
<1>4. Crowded(shelf) = {}
  BY <1>3, NobodyCrowded
<1>5. /\ \A s \in Range(shelf) : s \in Open /\ surfaces[s].slot.kind = "Shelf"
      /\ SidesFit(surfaces, {})
  BY <1>1, ColumnsOfSettled DEF Open
<1>6. \A s \in Open \ Range(shelf) : surfaces[s].slot.kind = "Edge"
  BY <1>1 DEF Arranged, Open
<1>7. \A s \in Open : s \in Range(shelf) <=> Transient(surfaces[s])
  BY <1>3 DEF OnLayer, Open
<1>8. opened \in Nat /\ opened <= MaxOpens /\ \A s \in Open : s \in 1..opened
  BY ShelfConstants DEF ShelfInv, Counted
<1>9. \A s \in Open : s \in Nat /\ s <= opened
  BY <1>8
<1>10. opened + 1 \notin Open
  BY <1>8, <1>9
<1> QED BY <1>1, <1>2, <1>3, <1>4, <1>5, <1>6, <1>7, <1>8, <1>9, <1>10

\* A step that moves nobody.
LEMMA NobodyMoves ==
  ASSUME ShelfInv, Counted', opened' = opened, shelf' = shelf, DOMAIN screen' = DOMAIN screen,
         \A s \in Open : screen'[s] \in [up : BOOLEAN, sticky : BOOLEAN],
         DOMAIN surfaces' = Open, surfaces' \in [Open -> Placed],
         \A s \in Open :
           /\ surfaces'[s].slot = surfaces[s].slot /\ surfaces'[s].height = surfaces[s].height
           /\ surfaces'[s].posture = surfaces[s].posture /\ surfaces'[s].owned = surfaces[s].owned
           /\ AtRest(surfaces'[s], unread'[s])
  PROVE  ShelfInv'
<1>1. \A s \in Open : Transient(surfaces'[s]) = Transient(surfaces[s])
  BY DEF Transient
<1>2. DOMAIN surfaces' = DOMAIN surfaces
  BY DEF Open
<1>3. Settled(surfaces', shelf)
  <2>1. /\ surfaces' \in [DOMAIN surfaces' -> Placed]
        /\ \A s \in DOMAIN surfaces : /\ surfaces'[s].slot = surfaces[s].slot
                                       /\ surfaces'[s].height = surfaces[s].height
                                       /\ Transient(surfaces'[s]) = Transient(surfaces[s])
    BY <1>1 DEF Open
  <2> QED BY <1>2, <2>1, SameSettled DEF ShelfInv
<1>4. Settled(surfaces', shelf')
  BY <1>3
<1>5. Open' = Open
  BY <1>2 DEF Open
<1>6. Windowed'
  BY <1>5 DEF Windowed, ShelfInv
<1>7. Open' \subseteq 1..opened' /\ \A s \in Open' : AtRest(surfaces'[s], unread'[s])
  BY <1>5 DEF ShelfInv
<1> QED BY <1>4, <1>6, <1>7 DEF ShelfInv, Settled, Arranged, Entries, SidesFit, Claimed, Column, Before, Pixels, OnLayer, Transient, Placed, AtRest

\* A step after which those left are where a reflow puts them.
LEMMA ReflowedAgain ==
  ASSUME Counted', NEW entries, NEW row, Settled(surfaces', shelf'),
         DOMAIN surfaces' = DOMAIN entries, Entries(entries), DOMAIN entries \subseteq 1..opened',
         \A s \in DOMAIN entries : Relocated(surfaces'[s], entries[s]),
         \A s \in DOMAIN entries : AtRest(entries[s], unread'[s]),
         DOMAIN screen' = DOMAIN entries,
         \A s \in DOMAIN entries : screen'[s] \in [up : BOOLEAN, sticky : BOOLEAN]
  PROVE  ShelfInv'
<1>1. \A s \in DOMAIN entries : AtRest(surfaces'[s], unread'[s])
  <2> SUFFICES ASSUME NEW s \in DOMAIN entries PROVE AtRest(surfaces'[s], unread'[s])
    OBVIOUS
  <2>1. entries[s] \in Placed /\ surfaces'[s] = [entries[s] EXCEPT !.slot = surfaces'[s].slot]
    BY PlacedIs DEF Relocated
  <2> QED BY <2>1 DEF AtRest, Placed
<1>2. Open' = DOMAIN entries
  BY DEF Open
<1>3. Windowed'
  BY <1>2 DEF Windowed
<1> QED BY <1>1, <1>2, <1>3 DEF ShelfInv

-----------------------------------------------------------------------------
(* One lemma per operation.                                                 *)

LEMMA AttendedIsCounted ==
  ASSUME ShelfInv, NEW ids, Attended(ids)
  PROVE  /\ unread' \in [Labels -> 0..Grace]
         /\ \A s \in Labels : unread'[s] = IF s \in ids THEN 0 ELSE unread[s]
<1>1. unread \in [Labels -> 0..Grace] /\ 0 \in 0..Grace
  BY ShelfConstants DEF ShelfInv, Counted
<1> QED BY <1>1 DEF Attended

LEMMA RetireKeeps ==
  ASSUME ShelfInv, NEW entries, NEW row, NEW ids,
         Arranged(entries, row), Crowded(row) \subseteq ids,
         surfaces' = Reflow(Minus(entries, ids), Off(row, ids)), shelf' = Off(row, ids),
         opened' \in 0..MaxOpens, losses' \in 0..MaxLost, frozen' \subseteq Stills, hidden' \in BOOLEAN,
         unread' \in [Labels -> 0..Grace],
         DOMAIN entries \ ids \subseteq 1..opened',
         \A s \in DOMAIN entries \ ids : AtRest(entries[s], unread'[s]),
         DOMAIN screen' = DOMAIN entries \ ids,
         \A s \in DOMAIN entries \ ids : screen'[s] \in [up : BOOLEAN, sticky : BOOLEAN]
  PROVE  /\ ShelfInv' /\ Open' = DOMAIN entries \ ids
         /\ \A s \in DOMAIN entries \ ids :
              /\ surfaces'[s].posture = entries[s].posture /\ surfaces'[s].owned = entries[s].owned
              /\ Transient(surfaces'[s]) = Transient(entries[s])
<1>0. /\ Settled(Reflow(Minus(entries, ids), Off(row, ids)), Off(row, ids))
      /\ DOMAIN Reflow(Minus(entries, ids), Off(row, ids)) = DOMAIN entries \ ids
      /\ \A s \in DOMAIN entries \ ids :
           Relocated(Reflow(Minus(entries, ids), Off(row, ids))[s], entries[s])
  BY RetireSettles, Zenon
<1> DEFINE left == Minus(entries, ids)
<1>1. /\ DOMAIN left = DOMAIN entries \ ids
      /\ \A s \in DOMAIN entries \ ids : left[s] = entries[s]
      /\ left = [s \in DOMAIN entries \ ids |-> entries[s]]
  BY MinusIs
<1>2. Entries(entries) /\ \A s \in DOMAIN entries : entries[s] \in Placed
  BY PlacedIs DEF Arranged
<1>3. Entries(left)
  <2>1. [s \in DOMAIN entries \ ids |-> entries[s]] \in [DOMAIN entries \ ids -> Placed]
    BY <1>2
  <2>2. left \in [DOMAIN left -> Placed]
    BY <1>1, <2>1, Zenon
  <2> QED BY <1>1, <1>2, <2>2 DEF Entries
<1>4. Settled(surfaces', shelf') /\ DOMAIN surfaces' = DOMAIN entries \ ids
  BY <1>0, Zenon
<1>5. \A s \in DOMAIN entries \ ids : Relocated(surfaces'[s], entries[s])
  BY <1>0, Zenon
<1> HIDE DEF left
<1>6. \A s \in DOMAIN left : Relocated(surfaces'[s], left[s])
  BY <1>1, <1>5
<1>7. Counted'
  BY DEF Counted
<1>8. ShelfInv'
  <2>1. /\ DOMAIN surfaces' = DOMAIN left /\ DOMAIN left \subseteq 1..opened'
        /\ \A s \in DOMAIN left : AtRest(left[s], unread'[s])
        /\ DOMAIN screen' = DOMAIN left
        /\ \A s \in DOMAIN left : screen'[s] \in [up : BOOLEAN, sticky : BOOLEAN]
    BY <1>1, <1>4
  <2> QED BY <1>3, <1>4, <1>6, <1>7, <2>1, ReflowedAgain
<1>9. Open' = DOMAIN entries \ ids
  BY <1>4 DEF Open
<1>10. ASSUME NEW s \in DOMAIN entries \ ids
       PROVE  /\ surfaces'[s].posture = entries[s].posture /\ surfaces'[s].owned = entries[s].owned
              /\ Transient(surfaces'[s]) = Transient(entries[s])
  <2>1. surfaces'[s] = [entries[s] EXCEPT !.slot = surfaces'[s].slot] /\ entries[s] \in Placed
    BY <1>2, <1>5 DEF Relocated
  <2> QED BY <2>1 DEF Placed, Transient
<1> QED BY <1>8, <1>9, <1>10

\* A panel that opens stands at the front of the shelf, or in a column with
\* room for it.
OpensAs(posture, height, slot, entries, row) ==
  /\ height \in Heights[opened + 1]
  /\ slot \in IF posture = "Exhibit" THEN {ShelfSlot(1)} ELSE FreeEdges(surfaces, height)
  /\ entries = With(surfaces, opened + 1, NewPanel(posture, height, slot))
  /\ row = IF posture = "Exhibit" THEN <<opened + 1>> \o shelf ELSE shelf

LEMMA OpeningArranged ==
  ASSUME ShelfInv, opened < MaxOpens, NEW posture \in {"Exhibit", "Instrument"},
         NEW height, NEW slot, NEW entries, NEW row,
         OpensAs(posture, height, slot, entries, row)
  PROVE  /\ Arranged(entries, row) /\ DOMAIN entries = Open \cup {opened + 1}
         /\ entries[opened + 1] = NewPanel(posture, height, slot)
         /\ \A s \in Open : entries[s] = surfaces[s]
         /\ Crowded(row) \subseteq Range(shelf)
<1> USE DEF OpensAs
<1> DEFINE id == opened + 1
<1>1. id \in Labels /\ id \notin Open /\ height \in UNION Range(Heights)
  <2>1. id \in Labels
    BY ShelfFacts, ShelfConstants DEF Labels
  <2> QED BY <2>1, ShelfFacts, ShelfConstants
<1>2. slot \in Standing /\ (posture = "Instrument" =>
        /\ slot.kind = "Edge" /\ slot.corner \in DOMAIN Facing /\ Fits(surfaces, slot.corner, height))
  <2>1. CASE posture = "Exhibit"
    BY <2>1, ShelfConstants DEF ShelfSlot, Standing
  <2>2. CASE posture = "Instrument"
    <3>1. slot \in FreeEdges(surfaces, height)
      BY <2>2
    <3> QED BY <2>2, <3>1, ShelfFacts, FreeEdgeHasRoom
  <2> QED BY <2>1, <2>2
<1>3. NewPanel(posture, height, slot) \in Placed
  BY <1>1, <1>2 DEF NewPanel, Placed
<1>4. /\ DOMAIN entries = Open \cup {id} /\ entries[id] = NewPanel(posture, height, slot)
      /\ \A s \in Open : entries[s] = surfaces[s]
      /\ entries = [s \in Open \cup {id} |-> IF s = id THEN NewPanel(posture, height, slot) ELSE surfaces[s]]
  BY <1>1 DEF With, Open
<1> HIDE DEF id
<1>5. Entries(entries)
  <2>1. [s \in Open \cup {id} |-> IF s = id THEN NewPanel(posture, height, slot) ELSE surfaces[s]]
          \in [Open \cup {id} -> Placed]
    BY <1>3, ShelfFacts
  <2>2. entries \in [DOMAIN entries -> Placed]
    BY <1>4, <2>1, Zenon
  <2> QED BY <1>1, <1>4, <2>2, ShelfFacts DEF Entries
<1>6. /\ entries[id].posture = posture /\ ~entries[id].owned /\ entries[id].slot = slot
      /\ entries[id].height = height
  BY <1>4 DEF NewPanel
<1>7. CASE posture = "Exhibit"
  <2>1. row = <<id>> \o shelf
    BY <1>7 DEF id
  <2>2. /\ row \in Seq(Open \cup {id}) /\ IsInjective(row) /\ Range(row) = Range(shelf) \cup {id}
        /\ Crowded(row) \subseteq Range(shelf)
    <3>1. shelf \in Seq(Open) /\ IsInjective(shelf) /\ id \notin Range(shelf)
      BY <1>1, ShelfFacts
    <3>2. /\ <<id>> \o shelf \in Seq(Open \cup {id}) /\ IsInjective(<<id>> \o shelf)
          /\ Range(<<id>> \o shelf) = Range(shelf) \cup {id}
          /\ Crowded(<<id>> \o shelf) \subseteq Range(shelf)
      BY <3>1, InFront
    <3> QED BY <2>1, <3>2, Zenon
  <2>3. OnLayer(entries) = OnLayer(surfaces) \cup {id}
    BY <1>4, <1>6, <1>7 DEF OnLayer, Transient, Open
  <2>4. SidesFit(entries, Range(row))
    <3>1. \A corner \in DOMAIN Facing : Column(entries, corner) \ Range(row) \subseteq Column(surfaces, corner) \ {}
      BY <1>4, <1>6, <1>7 DEF Column, ShelfSlot, Open
    <3>2. \A s \in DOMAIN entries \cap DOMAIN surfaces : entries[s].height = surfaces[s].height
      BY <1>4 DEF Open
    <3>3. Entries(surfaces) /\ SidesFit(surfaces, {})
      BY ShelfFacts
    <3> QED BY <3>1, <3>2, <3>3, FewerFit
  <2>5. \A s \in DOMAIN entries \ Range(row) : entries[s].slot.kind = "Edge"
    BY <1>4, <2>2, ShelfFacts
  <2>6. Range(row) = OnLayer(entries)
    BY <2>2, <2>3, ShelfFacts
  <2>7. row \in Seq(DOMAIN entries)
    BY <1>4, <2>2, Zenon
  <2> QED BY <1>4, <1>5, <2>2, <2>4, <2>5, <2>6, <2>7 DEF Arranged, id
<1>8. CASE posture = "Instrument"
  <2>1. row = shelf
    BY <1>8
  <2>2. OnLayer(entries) = OnLayer(surfaces)
    BY <1>1, <1>4, <1>6, <1>8 DEF OnLayer, Transient, Open
  <2>3. SidesFit(entries, {})
    <3>1. \A corner : id \notin Column(surfaces, corner)
      BY <1>1 DEF Column, Open
    <3>2. DOMAIN entries = DOMAIN surfaces \cup {id} /\ \A s \in DOMAIN surfaces \ {id} : entries[s] = surfaces[s]
      BY <1>4 DEF Open
    <3>3. /\ entries[id].slot.kind = "Edge" /\ entries[id].slot.corner \in DOMAIN Facing
          /\ Fits(surfaces, entries[id].slot.corner, entries[id].height)
      BY <1>2, <1>6, <1>8
    <3>4. Entries(surfaces) /\ SidesFit(surfaces, {})
      BY ShelfFacts
    <3> QED BY <1>5, <3>1, <3>2, <3>3, <3>4, OneMoreFits
  <2>4. SidesFit(entries, Range(row))
    <3>1. \A corner \in DOMAIN Facing : Column(entries, corner) \ Range(row) \subseteq Column(entries, corner) \ {}
      OBVIOUS
    <3> QED BY <1>5, <2>3, <3>1, FewerFit
  <2>5. \A s \in DOMAIN entries \ Range(row) : entries[s].slot.kind = "Edge"
    BY <1>2, <1>4, <1>6, <1>8, <2>1, ShelfFacts
  <2>6. row \in Seq(DOMAIN entries)
    BY <1>4, <2>1, ShelfFacts
  <2> QED BY <1>4, <1>5, <2>1, <2>2, <2>4, <2>5, <2>6, ShelfFacts DEF Arranged, id
<1> QED BY <1>7, <1>8

-----------------------------------------------------------------------------
(* What each operation does to the invariant, to the layer and to whom it   *)
(* takes off.                                                               *)

PillStep == GivenBackInSight /\ LayerFollowsPill => LayerFollowsPill'

Keeps == ShelfInv' /\ PillStep /\ LeavesByRight

\* Where nobody comes, goes or changes hands, the windows follow as they did.
LEMMA NobodyGoes ==
  ASSUME ShelfInv, ShelfInv', Open' = Open, screen' = screen, hidden' = hidden,
         \A s \in Open : Transient(surfaces'[s]) = Transient(surfaces[s])
  PROVE  PillStep /\ LeavesByRight
  BY DEF PillStep, LayerFollowsPill, LeavesByRight

LEMMA OpenRefusedKeeps == ASSUME ShelfInv, NEW height, OpenRefused(height) PROVE Keeps
<1>1. /\ opened' = opened + 1 /\ opened < MaxOpens
      /\ UNCHANGED <<surfaces, shelf, frozen, hidden, screen, unread, losses>>
  BY DEF OpenRefused, runtime
<1>2. Open' = Open
  BY <1>1 DEF Open
<1>3. opened' \in 0..MaxOpens /\ 1..opened \subseteq 1..opened'
  BY <1>1, ShelfFacts, ShelfConstants
<1>4. Counted'
  BY <1>1, <1>3 DEF ShelfInv, Counted
<1>5. Windowed'
  BY <1>1, <1>2 DEF ShelfInv, Windowed
<1>6. Settled(surfaces', shelf')
  BY <1>1 DEF ShelfInv
<1>7. Open' \subseteq 1..opened' /\ \A s \in Open' : AtRest(surfaces'[s], unread'[s])
  BY <1>1, <1>2, <1>3 DEF ShelfInv
<1>8. ShelfInv'
  BY <1>4, <1>5, <1>6, <1>7 DEF ShelfInv
<1> QED BY <1>1, <1>2, <1>8, NobodyGoes DEF Keeps

LEMMA OpenPanelKeeps ==
  ASSUME ShelfInv, NEW posture \in {"Exhibit", "Instrument"}, NEW height, OpenPanel(posture, height)
  PROVE  Keeps
<1>1. PICK slot \in IF posture = "Exhibit" THEN {ShelfSlot(1)} ELSE FreeEdges(surfaces, height) :
        LET id == opened + 1
            row == IF posture = "Exhibit" THEN <<id>> \o shelf ELSE shelf
            entries == With(surfaces, id, NewPanel(posture, height, slot))
        IN  \/ /\ Retire(Crowded(row), entries, row)
               /\ screen' = With(Minus(screen, Crowded(row)), id, Window(posture))
               /\ UNCHANGED losses
            \/ /\ losses < MaxLost /\ losses' = losses + 1
               /\ Retire(Crowded(row) \cup {id}, entries, row)
               /\ screen' = Minus(screen, Crowded(row))
  BY DEF OpenPanel
<1>2. /\ opened < MaxOpens /\ opened' = opened + 1 /\ height \in Heights[opened + 1]
      /\ UNCHANGED <<frozen, hidden>>
  BY DEF OpenPanel
<1> DEFINE id == opened + 1
           row == IF posture = "Exhibit" THEN <<id>> \o shelf ELSE shelf
           entries == With(surfaces, id, NewPanel(posture, height, slot))
<1>a. /\ entries = With(surfaces, opened + 1, NewPanel(posture, height, slot))
      /\ row = IF posture = "Exhibit" THEN <<opened + 1>> \o shelf ELSE shelf
  OBVIOUS
<1>b. \/ /\ Retire(Crowded(row), entries, row)
         /\ screen' = With(Minus(screen, Crowded(row)), id, Window(posture))
         /\ UNCHANGED losses
      \/ /\ losses < MaxLost /\ losses' = losses + 1
         /\ Retire(Crowded(row) \cup {id}, entries, row)
         /\ screen' = Minus(screen, Crowded(row))
  BY <1>1, Zenon
<1> HIDE DEF row, entries
<1>c. /\ Arranged(entries, row) /\ DOMAIN entries = Open \cup {opened + 1}
      /\ entries[opened + 1] = NewPanel(posture, height, slot)
      /\ \A s \in Open : entries[s] = surfaces[s]
      /\ Crowded(row) \subseteq Range(shelf)
  <2>1. OpensAs(posture, height, slot, entries, row)
    BY <1>2, <1>a, Zenon DEF OpensAs
  <2> QED BY <1>2, <2>1, OpeningArranged, Zenon
<1>3. /\ Arranged(entries, row) /\ DOMAIN entries = Open \cup {id}
      /\ entries[id] = NewPanel(posture, height, slot)
      /\ \A s \in Open : entries[s] = surfaces[s]
      /\ Crowded(row) \subseteq Range(shelf)
  BY <1>c, Zenon
<1>4. PICK ids \in {Crowded(row), Crowded(row) \cup {id}} :
        /\ Retire(ids, entries, row) /\ losses' \in {losses, losses + 1}
        /\ losses' = losses + 1 => losses < MaxLost
        /\ ids = Crowded(row) => screen' = With(Minus(screen, Crowded(row)), id, Window(posture))
        /\ ids # Crowded(row) => screen' = Minus(screen, Crowded(row))
  <2>1. id \notin Crowded(row)
    BY <1>3, ShelfFacts
  <2>2. CASE /\ Retire(Crowded(row), entries, row)
             /\ screen' = With(Minus(screen, Crowded(row)), id, Window(posture))
             /\ UNCHANGED losses
    <3>1. losses' # losses + 1
      BY <2>2 DEF ShelfInv, Counted
    <3> QED BY <2>2, <3>1
  <2>3. CASE /\ losses < MaxLost /\ losses' = losses + 1
             /\ Retire(Crowded(row) \cup {id}, entries, row)
             /\ screen' = Minus(screen, Crowded(row))
    BY <2>1, <2>3
  <2> QED BY <1>b, <2>2, <2>3
<1>5. /\ id \notin Open /\ id \notin Crowded(row) /\ id \in Labels /\ id \in Nat
      /\ opened' \in 0..MaxOpens /\ 1..opened \subseteq 1..opened' /\ id \in 1..opened'
  <2>1. opened \in Nat /\ opened + 1 \notin Open /\ MaxOpens \in Nat
    BY ShelfFacts, ShelfConstants
  <2>2. id \in Labels
    BY <1>2, <2>1 DEF Labels
  <2>3. id \notin Crowded(row)
    <3>1. Range(shelf) \subseteq Open
      BY ShelfFacts
    <3> QED BY <1>3, <2>1, <3>1
  <2>4. /\ opened' \in 0..MaxOpens /\ id \in 1..opened' /\ id \in Nat
        /\ 1..opened \subseteq 1..opened'
    BY <1>2, <2>1
  <2> QED BY <2>1, <2>2, <2>3, <2>4
<1> HIDE DEF id
<1>6. /\ surfaces' = Reflow(Minus(entries, ids), Off(row, ids)) /\ shelf' = Off(row, ids)
      /\ unread' = [s \in Labels |-> IF s \in ids THEN 0 ELSE unread[s]]
  BY <1>4 DEF Retire
<1>7. /\ unread' \in [Labels -> 0..Grace]
      /\ \A s \in Labels : unread'[s] = IF s \in ids THEN 0 ELSE unread[s]
  BY <1>6, AttendedIsCounted DEF Attended
<1>8. losses' \in 0..MaxLost
  BY <1>4, ShelfConstants DEF ShelfInv, Counted
<1>9. /\ DOMAIN Minus(screen, Crowded(row)) = Open \ Crowded(row)
      /\ \A s \in Open \ Crowded(row) : Minus(screen, Crowded(row))[s] = screen[s]
  BY MinusIs DEF ShelfInv, Windowed
<1>10. /\ DOMAIN screen' = DOMAIN entries \ ids
       /\ \A s \in Open \ ids : screen'[s] = screen[s]
       /\ id \notin ids => screen'[id] = Window(posture)
  <2>1. CASE ids = Crowded(row)
    <3> DEFINE kept == Minus(screen, Crowded(row))
    <3> HIDE DEF kept
    <3>1. screen' = With(kept, id, Window(posture))
      BY <1>4, <2>1 DEF kept
    <3>2. /\ DOMAIN screen' = DOMAIN kept \cup {id} /\ screen'[id] = Window(posture)
          /\ \A s \in DOMAIN kept \ {id} : screen'[s] = kept[s]
      BY <3>1 DEF With
    <3>3. DOMAIN kept = Open \ Crowded(row) /\ \A s \in Open \ Crowded(row) : kept[s] = screen[s]
      BY <1>9 DEF kept
    <3> QED BY <1>3, <1>5, <2>1, <3>2, <3>3
  <2>2. CASE ids = Crowded(row) \cup {id}
    <3>1. screen' = Minus(screen, Crowded(row))
      BY <1>4, <1>5, <2>2
    <3> QED BY <1>3, <1>5, <1>9, <2>2, <3>1
  <2> QED BY <1>4, <2>1, <2>2
<1>11. hidden \in BOOLEAN /\ Window(posture) \in [up : BOOLEAN, sticky : BOOLEAN]
  BY DEF Window, ShelfInv, Counted
<1>12. \A s \in DOMAIN entries \ ids : screen'[s] \in [up : BOOLEAN, sticky : BOOLEAN]
  BY <1>3, <1>10, <1>11 DEF ShelfInv, Windowed
<1>13. \A s \in DOMAIN entries \ ids : AtRest(entries[s], unread'[s])
  <2> SUFFICES ASSUME NEW s \in DOMAIN entries \ ids PROVE AtRest(entries[s], unread'[s])
    OBVIOUS
  <2>1. CASE s \in Open
    BY <1>3, <1>7, <2>1, ShelfFacts DEF ShelfInv
  <2>2. CASE s = id
    <3>1. unread'[id] \in 0..Grace
      BY <1>5, <1>7
    <3>2. entries[s] = NewPanel(posture, height, slot)
      BY <1>3, <2>2
    <3> QED BY <2>2, <3>1, <3>2, ShelfConstants DEF NewPanel, AtRest
  <2> QED BY <1>3, <2>1, <2>2
<1>14. DOMAIN entries \ ids \subseteq 1..opened'
  BY <1>3, <1>5 DEF ShelfInv
<1>15. /\ ShelfInv' /\ Open' = DOMAIN entries \ ids
       /\ \A s \in DOMAIN entries \ ids : Transient(surfaces'[s]) = Transient(entries[s])
  <2>1. Crowded(row) \subseteq ids /\ frozen' \subseteq Stills /\ hidden' \in BOOLEAN
    BY <1>2, <1>4 DEF ShelfInv, Counted
  <2> QED BY <1>3, <1>5, <1>6, <1>7, <1>8, <1>10, <1>12, <1>13, <1>14, <2>1, RetireKeeps
<1>16. PillStep
  <2> SUFFICES ASSUME LayerFollowsPill, NEW s \in Open'
               PROVE  /\ screen'[s].up <=> ~(hidden' /\ Transient(surfaces'[s]))
                      /\ screen'[s].up => (screen'[s].sticky <=> Transient(surfaces'[s]))
    BY DEF PillStep, LayerFollowsPill
  <2>1. CASE s \in Open
    BY <1>2, <1>3, <1>10, <1>15, <2>1 DEF LayerFollowsPill
  <2>2. CASE s = id
    <3>1. Transient(surfaces'[s]) <=> posture = "Exhibit"
      BY <1>3, <1>15, <2>2 DEF Transient, NewPanel
    <3>2. screen'[s] = Window(posture)
      BY <1>10, <1>15, <2>2
    <3> QED BY <1>2, <1>11, <3>1, <3>2 DEF Window
  <2> QED BY <1>3, <1>15, <2>1, <2>2
<1>17. LeavesByRight
  <2> SUFFICES ASSUME NEW s \in Open \ Open'
               PROVE  opened' # opened /\ ~surfaces[s].owned
    BY DEF LeavesByRight
  <2>1. s \in Range(shelf)
    BY <1>3, <1>4, <1>5, <1>15
  <2>2. ~surfaces[s].owned
    BY <2>1, ShelfFacts DEF Transient
  <2> QED BY <1>2, <2>2, ShelfFacts
<1> QED BY <1>15, <1>16, <1>17 DEF Keeps
\* Those who stay are seen as they were.
LEMMA TheRestIsSeen ==
  ASSUME NEW ids, Open' = Open \ ids, hidden' = hidden,
         \A s \in Open \ ids : /\ screen'[s] = screen[s]
                               /\ Transient(surfaces'[s]) = Transient(surfaces[s])
  PROVE  PillStep
  BY DEF PillStep, LayerFollowsPill

\* Panels taken off, and nothing else done to any.
LEMMA TakenOff ==
  ASSUME ShelfInv, NEW ids, Retire(ids, surfaces, shelf),
         opened' = opened, losses' \in 0..MaxLost, frozen' \subseteq Stills, hidden' \in BOOLEAN,
         DOMAIN screen' = Open \ ids,
         \A s \in Open \ ids : screen'[s] \in [up : BOOLEAN, sticky : BOOLEAN]
  PROVE  /\ ShelfInv' /\ Open' = Open \ ids
         /\ \A s \in Open \ ids : Transient(surfaces'[s]) = Transient(surfaces[s])
<1>1. /\ surfaces' = Reflow(Minus(surfaces, ids), Off(shelf, ids)) /\ shelf' = Off(shelf, ids)
      /\ Attended(ids)
  BY DEF Retire, Attended
<1>2. /\ unread' \in [Labels -> 0..Grace]
      /\ \A s \in Labels : unread'[s] = IF s \in ids THEN 0 ELSE unread[s]
  BY <1>1, AttendedIsCounted
<1>3. /\ Arranged(surfaces, shelf) /\ Crowded(shelf) \subseteq ids
      /\ opened' \in 0..MaxOpens /\ Open \ ids \subseteq 1..opened'
  BY ShelfFacts DEF ShelfInv, Counted
<1>4. \A s \in Open \ ids : AtRest(surfaces[s], unread'[s])
  BY <1>2, ShelfFacts DEF ShelfInv
<1>5. DOMAIN surfaces \ ids = Open \ ids
  BY DEF Open
<1>6. /\ DOMAIN surfaces \ ids \subseteq 1..opened' /\ DOMAIN screen' = DOMAIN surfaces \ ids
      /\ \A s \in DOMAIN surfaces \ ids : /\ AtRest(surfaces[s], unread'[s])
                                          /\ screen'[s] \in [up : BOOLEAN, sticky : BOOLEAN]
  BY <1>3, <1>4, <1>5, Zenon
<1>7. /\ ShelfInv' /\ Open' = DOMAIN surfaces \ ids
      /\ \A s \in DOMAIN surfaces \ ids : Transient(surfaces'[s]) = Transient(surfaces[s])
  BY <1>1, <1>2, <1>3, <1>6, RetireKeeps
<1> QED BY <1>5, <1>7, Zenon

LEMMA DismissedKeeps == ASSUME ShelfInv, NEW s \in Open, Dismissed(s) PROVE Keeps
<1>1. /\ Retire({s}, surfaces, shelf) /\ screen' = Minus(screen, {s})
      /\ UNCHANGED <<frozen, hidden, opened, losses>>
  BY DEF Dismissed
<1>2. /\ DOMAIN screen' = Open \ {s} /\ \A t \in Open \ {s} : screen'[t] = screen[t]
  <2>1. DOMAIN screen = Open
    BY DEF ShelfInv, Windowed
  <2>2. /\ DOMAIN Minus(screen, {s}) = DOMAIN screen \ {s}
        /\ \A t \in DOMAIN screen \ {s} : Minus(screen, {s})[t] = screen[t]
    BY MinusIs
  <2> QED BY <1>1, <2>1, <2>2
<1>3. /\ losses' \in 0..MaxLost /\ frozen' \subseteq Stills /\ hidden' \in BOOLEAN
      /\ \A t \in Open \ {s} : screen'[t] \in [up : BOOLEAN, sticky : BOOLEAN]
  BY <1>1, <1>2 DEF ShelfInv, Counted, Windowed
<1>4. /\ ShelfInv' /\ Open' = Open \ {s}
      /\ \A t \in Open \ {s} : Transient(surfaces'[t]) = Transient(surfaces[t])
  BY <1>1, <1>2, <1>3, TakenOff
<1>5. PillStep
  BY <1>1, <1>2, <1>4, TheRestIsSeen
<1>6. LeavesByRight
  BY <1>4 DEF LeavesByRight
<1> QED BY <1>4, <1>5, <1>6 DEF Keeps

LEMMA PinKeeps == ASSUME ShelfInv, NEW s \in Open, Pin(s) PROVE Keeps
<1>1. PICK slot \in IF s \in Range(shelf) THEN FreeEdges(surfaces, surfaces[s].height)
                    ELSE {surfaces[s].slot} :
        /\ shelf' = Off(shelf, {s})
        /\ surfaces' = Reflow([surfaces EXCEPT ![s].owned = TRUE, ![s].life = "Pinned",
                                               ![s].aging = 0, ![s].slot = slot], shelf')
  BY DEF Pin, PinnedOff
<1>2. /\ ~surfaces[s].owned /\ screen[s].up /\ screen' = [screen EXCEPT ![s].sticky = FALSE]
      /\ Attended({s}) /\ UNCHANGED <<frozen, hidden, opened, losses>>
  BY DEF Pin
<1> DEFINE entries == [surfaces EXCEPT ![s].owned = TRUE, ![s].life = "Pinned",
                                       ![s].aging = 0, ![s].slot = slot]
           row == Off(shelf, {s})
<1>3. /\ row \in Seq(Open \ {s}) /\ IsInjective(row) /\ Range(row) = Range(shelf) \ {s}
      /\ Len(row) <= ShelfSlots
  <2>1. /\ Crowded(shelf) \subseteq {s} /\ Open \subseteq Labels
        /\ shelf \in Seq(Open) /\ IsInjective(shelf)
    BY ShelfFacts
  <2>2. Len(Off(shelf, {s})) <= ShelfSlots
    BY <2>1, OffFits
  <2>3. /\ Off(shelf, {s}) \in Seq(Open \ {s}) /\ IsInjective(Off(shelf, {s}))
        /\ Range(Off(shelf, {s})) = Range(shelf) \ {s}
    BY <2>1, OffIs
  <2> QED BY <2>2, <2>3, Zenon
<1>4. /\ slot \in Standing /\ slot.kind = "Edge" /\ slot.corner \in DOMAIN Facing
      /\ s \in Range(shelf) => Fits(surfaces, slot.corner, surfaces[s].height)
      /\ s \notin Range(shelf) => slot = surfaces[s].slot
  <2>1. CASE s \in Range(shelf)
    <3>1. slot \in FreeEdges(surfaces, surfaces[s].height) /\ Entries(surfaces)
      BY <2>1, ShelfFacts
    <3> QED BY <2>1, <3>1, FreeEdgeHasRoom
  <2>2. CASE s \notin Range(shelf)
    <3>1. slot = surfaces[s].slot /\ slot.kind = "Edge"
      BY <2>2, ShelfFacts
    <3>2. slot \in Standing /\ slot.corner \in Range(Corners)
      BY <3>1, ShelfFacts, PlacedIs DEF Open
    <3> QED BY <2>2, <3>1, <3>2, ShelfConstants
  <2> QED BY <2>1, <2>2
<1>5. /\ DOMAIN entries = Open /\ DOMAIN surfaces = Open
      /\ entries[s] = [surfaces[s] EXCEPT !.owned = TRUE, !.life = "Pinned", !.aging = 0, !.slot = slot]
      /\ \A t \in Open \ {s} : entries[t] = surfaces[t]
      /\ entries = [t \in Open |-> entries[t]]
  BY DEF Open
<1>6. /\ surfaces' = Reflow(entries, row) /\ shelf' = row
  BY <1>1
<1> HIDE DEF entries, row
<1>7. /\ entries[s] \in Placed /\ entries[s].slot = slot /\ entries[s].height = surfaces[s].height
      /\ ~Transient(entries[s]) /\ entries[s].owned /\ entries[s].life = "Pinned"
      /\ entries[s].aging = 0 /\ entries[s].holding = surfaces[s].holding
  <2>1. surfaces[s] \in Placed
    BY ShelfFacts
  <2>2. entries[s] = [surfaces[s] EXCEPT !.owned = TRUE, !.life = "Pinned", !.aging = 0, !.slot = slot]
    BY <1>5
  <2>3. /\ entries[s].slot = slot /\ entries[s].height = surfaces[s].height
        /\ entries[s].owned /\ entries[s].life = "Pinned"
        /\ entries[s].aging = 0 /\ entries[s].holding = surfaces[s].holding
    BY <2>1, <2>2 DEF Placed
  <2>4. ~Transient(entries[s])
    BY <2>3 DEF Transient
  <2>5. entries[s] \in Placed
    <3> DEFINE kept == [surfaces[s] EXCEPT !.owned = TRUE]
               pinned == [kept EXCEPT !.life = "Pinned"]
               young == [pinned EXCEPT !.aging = 0]
    <3>1. kept \in Placed
      BY <2>1 DEF Placed
    <3>2. pinned \in Placed
      BY <3>1 DEF Placed
    <3>3. young \in Placed
      BY <3>2 DEF Placed
    <3>4. [young EXCEPT !.slot = slot] \in Placed
      BY <1>4, <3>3 DEF Placed
    <3> QED BY <2>2, <3>4
  <2> QED BY <2>3, <2>4, <2>5
<1>8. Entries(entries)
  <2>1. \A t \in Open : entries[t] \in Placed
    BY <1>5, <1>7, ShelfFacts
  <2>2. [t \in Open |-> entries[t]] \in [Open -> Placed]
    BY <2>1
  <2>3. entries \in [DOMAIN entries -> Placed]
    BY <1>5, <2>2, Zenon
  <2> QED BY <1>5, <2>3, ShelfFacts DEF Entries
<1>9. OnLayer(entries) = OnLayer(surfaces) \ {s}
  BY <1>5, <1>7 DEF OnLayer
<1>10. SidesFit(entries, Range(row))
  <2>1. Entries(surfaces) /\ SidesFit(surfaces, {})
    BY ShelfFacts
  <2>2. CASE s \in Range(shelf)
    <3>1. \A corner : s \notin Column(surfaces, corner)
      BY <2>2, ShelfFacts DEF Column
    <3>2. /\ DOMAIN entries = DOMAIN surfaces \cup {s}
          /\ \A t \in DOMAIN surfaces \ {s} : entries[t] = surfaces[t]
          /\ entries[s].slot.kind = "Edge" /\ entries[s].slot.corner \in DOMAIN Facing
          /\ Fits(surfaces, entries[s].slot.corner, entries[s].height)
      BY <1>4, <1>5, <1>7, <2>2
    <3>3. SidesFit(entries, {})
      BY <1>8, <2>1, <3>1, <3>2, OneMoreFits
    <3>4. \A corner \in DOMAIN Facing : Column(entries, corner) \ Range(row) \subseteq Column(entries, corner) \ {}
      OBVIOUS
    <3> QED BY <1>8, <3>3, <3>4, FewerFit
  <2>3. CASE s \notin Range(shelf)
    <3>1. \A t \in Open : entries[t].slot = surfaces[t].slot /\ entries[t].height = surfaces[t].height
      BY <1>4, <1>5, <1>7, <2>3
    <3>2. \A corner \in DOMAIN Facing : Column(entries, corner) \ Range(row) \subseteq Column(surfaces, corner) \ {}
      BY <1>5, <3>1 DEF Column
    <3>3. \A t \in DOMAIN entries \cap DOMAIN surfaces : entries[t].height = surfaces[t].height
      BY <1>5, <3>1
    <3> QED BY <2>1, <3>2, <3>3, FewerFit
  <2> QED BY <2>2, <2>3
<1>11. Arranged(entries, row)
  <2>1. \A t \in DOMAIN entries \ Range(row) : entries[t].slot.kind = "Edge"
    BY <1>3, <1>4, <1>5, <1>7, ShelfFacts
  <2>2. row \in Seq(DOMAIN entries)
    BY <1>3, <1>5
  <2>3. Range(row) = OnLayer(entries)
    BY <1>3, <1>9, ShelfFacts
  <2> QED BY <1>3, <1>8, <1>10, <2>1, <2>2, <2>3 DEF Arranged
<1>12. Settled(surfaces', shelf') /\ SamePanels(surfaces', entries)
  <2>1. Settled(Reflow(entries, row), row) /\ SamePanels(Reflow(entries, row), entries)
    BY <1>3, <1>11, ReflowSettles
  <2> QED BY <1>6, <2>1, Zenon
<1>13. /\ unread' \in [Labels -> 0..Grace]
       /\ \A t \in Labels : unread'[t] = IF t \in {s} THEN 0 ELSE unread[t]
  BY <1>2, AttendedIsCounted
<1>14. \A t \in Open : AtRest(entries[t], unread'[t])
  <2> SUFFICES ASSUME NEW t \in Open PROVE AtRest(entries[t], unread'[t])
    OBVIOUS
  <2>1. CASE t = s
    <3>1. unread'[s] \in 0..Grace /\ Grace \in Nat \ {0}
      BY <1>13, ShelfFacts, ShelfConstants
    <3>2. surfaces[s].holding \in 0..HoldCeiling
      BY DEF ShelfInv, AtRest
    <3> QED BY <1>7, <2>1, <3>1, <3>2 DEF AtRest
  <2>2. CASE t # s
    BY <1>5, <1>13, <2>2, ShelfFacts DEF ShelfInv
  <2> QED BY <2>1, <2>2
<1>15. /\ DOMAIN screen' = Open /\ \A t \in Open \ {s} : screen'[t] = screen[t]
       /\ screen'[s] = [screen[s] EXCEPT !.sticky = FALSE]
       /\ \A t \in Open : screen'[t] \in [up : BOOLEAN, sticky : BOOLEAN]
       /\ screen'[s].up = screen[s].up /\ ~screen'[s].sticky
  <2>1. DOMAIN screen = Open /\ \A t \in Open : screen[t] \in [up : BOOLEAN, sticky : BOOLEAN]
    BY DEF ShelfInv, Windowed
  <2> QED BY <1>2, <2>1
<1>16. ShelfInv'
  <2>1. Counted'
    BY <1>2, <1>13 DEF ShelfInv, Counted
  <2>2. DOMAIN surfaces' = DOMAIN entries /\ \A t \in DOMAIN entries : Relocated(surfaces'[t], entries[t])
    BY <1>12 DEF SamePanels
  <2>3. /\ DOMAIN entries \subseteq 1..opened' /\ DOMAIN screen' = DOMAIN entries
        /\ \A t \in DOMAIN entries : /\ AtRest(entries[t], unread'[t])
                                     /\ screen'[t] \in [up : BOOLEAN, sticky : BOOLEAN]
    BY <1>2, <1>5, <1>14, <1>15 DEF ShelfInv
  <2> QED BY <1>8, <1>12, <2>1, <2>2, <2>3, ReflowedAgain
<1>17. Open' = Open /\ \A t \in Open : Transient(surfaces'[t]) = Transient(entries[t])
  <2>1. DOMAIN surfaces' = Open /\ \A t \in Open : surfaces'[t] = [entries[t] EXCEPT !.slot = surfaces'[t].slot]
    BY <1>5, <1>12 DEF SamePanels, Relocated
  <2>2. \A t \in Open : entries[t] \in Placed
    BY <1>5, <1>7, ShelfFacts
  <2> QED BY <2>1, <2>2 DEF Open, Transient, Placed
<1>18. PillStep
  <2> SUFFICES ASSUME LayerFollowsPill, NEW t \in Open
               PROVE  /\ screen'[t].up <=> ~(hidden' /\ Transient(surfaces'[t]))
                      /\ screen'[t].up => (screen'[t].sticky <=> Transient(surfaces'[t]))
    BY <1>17 DEF PillStep, LayerFollowsPill
  <2>1. CASE t = s
    BY <1>2, <1>7, <1>15, <1>17, <2>1
  <2>2. CASE t # s
    BY <1>2, <1>5, <1>15, <1>17, <2>2 DEF LayerFollowsPill
  <2> QED BY <2>1, <2>2
<1>19. LeavesByRight
  BY <1>17 DEF LeavesByRight
<1> QED BY <1>16, <1>18, <1>19 DEF Keeps
LEMMA ReleaseKeeps == ASSUME ShelfInv, NEW s \in Open, Release(s) PROVE Keeps
<1> DEFINE exhibit == surfaces[s].posture = "Exhibit"
           row == IF exhibit THEN <<s>> \o shelf ELSE shelf
           entries == [surfaces EXCEPT ![s].owned = FALSE, ![s].life = "Live",
                                       ![s].aging = 0, ![s].cited = TRUE]
           ids == Crowded(row)
<1>1. /\ surfaces' = Reflow(Minus(entries, ids), Off(row, ids)) /\ shelf' = Off(row, ids)
      /\ Attended(ids \cup {s}) /\ screen' = Minus([screen EXCEPT ![s].sticky = exhibit], ids)
  BY DEF Release
<1>2. /\ surfaces[s].owned /\ (GivesBackHidden \/ ~hidden)
      /\ UNCHANGED <<frozen, hidden, opened, losses>>
  BY DEF Release
<1>3. /\ DOMAIN entries = Open /\ DOMAIN surfaces = Open
      /\ entries[s] = [surfaces[s] EXCEPT !.owned = FALSE, !.life = "Live", !.aging = 0, !.cited = TRUE]
      /\ \A t \in Open \ {s} : entries[t] = surfaces[t]
      /\ entries = [t \in Open |-> entries[t]]
  BY DEF Open
<1>4. s \notin Range(shelf) /\ surfaces[s].slot.kind = "Edge"
  BY <1>2, ShelfFacts DEF Transient
<1>5. /\ row \in Seq(Open) /\ IsInjective(row) /\ ids \subseteq Range(shelf)
      /\ Range(row) = IF exhibit THEN Range(shelf) \cup {s} ELSE Range(shelf)
  <2>1. shelf \in Seq(Open) /\ IsInjective(shelf) /\ Crowded(shelf) = {}
    BY ShelfFacts
  <2>2. CASE exhibit
    <3>1. /\ <<s>> \o shelf \in Seq(Open \cup {s}) /\ IsInjective(<<s>> \o shelf)
          /\ Range(<<s>> \o shelf) = Range(shelf) \cup {s}
          /\ Crowded(<<s>> \o shelf) \subseteq Range(shelf)
      BY <1>4, <2>1, InFront
    <3>2. Open \cup {s} = Open
      OBVIOUS
    <3>3. row = <<s>> \o shelf
      BY <2>2
    <3> QED BY <2>2, <3>1, <3>2, <3>3, Zenon
  <2>3. CASE ~exhibit
    <3>1. row = shelf
      BY <2>3
    <3> QED BY <2>1, <2>3, <3>1
  <2> QED BY <2>2, <2>3
<1> HIDE DEF entries, row, ids
<1>6. /\ entries[s].slot = surfaces[s].slot /\ entries[s].height = surfaces[s].height
      /\ ~entries[s].owned /\ entries[s].posture = surfaces[s].posture
      /\ entries[s].life = "Live" /\ entries[s].aging = 0
      /\ entries[s].holding = surfaces[s].holding /\ entries[s] \in Placed
  <2>1. surfaces[s] \in Placed
    BY ShelfFacts
  <2>2. entries[s] = [surfaces[s] EXCEPT !.owned = FALSE, !.life = "Live", !.aging = 0, !.cited = TRUE]
    BY <1>3
  <2>3. entries[s] \in Placed
    <3> DEFINE given == [surfaces[s] EXCEPT !.owned = FALSE]
               live == [given EXCEPT !.life = "Live"]
               young == [live EXCEPT !.aging = 0]
    <3>1. given \in Placed
      BY <2>1 DEF Placed
    <3>2. live \in Placed
      BY <3>1 DEF Placed
    <3>3. young \in Placed
      BY <3>2 DEF Placed
    <3>4. [young EXCEPT !.cited = TRUE] \in Placed
      BY <3>3 DEF Placed
    <3> QED BY <2>2, <3>4
  <2> QED BY <2>1, <2>2, <2>3 DEF Placed
<1>7. Entries(entries)
  <2>1. \A t \in Open : entries[t] \in Placed
    BY <1>3, <1>6, ShelfFacts
  <2>2. [t \in Open |-> entries[t]] \in [Open -> Placed]
    BY <2>1
  <2>3. entries \in [DOMAIN entries -> Placed]
    BY <1>3, <2>2, Zenon
  <2> QED BY <1>3, <2>3, ShelfFacts DEF Entries
<1>8. Transient(entries[s]) <=> exhibit
  BY <1>6 DEF Transient
<1>9. Range(row) = OnLayer(entries)
  <2>1. OnLayer(entries) = IF exhibit THEN OnLayer(surfaces) \cup {s} ELSE OnLayer(surfaces)
    BY <1>2, <1>3, <1>8 DEF OnLayer, Transient
  <2> QED BY <1>5, <2>1, ShelfFacts
<1>10. \A t \in Open : entries[t].slot = surfaces[t].slot /\ entries[t].height = surfaces[t].height
  BY <1>3, <1>6
<1>11. SidesFit(entries, Range(row))
  <2>1. Entries(surfaces) /\ SidesFit(surfaces, {})
    BY ShelfFacts
  <2>2. \A corner \in DOMAIN Facing : Column(entries, corner) \ Range(row) \subseteq Column(surfaces, corner) \ {}
    BY <1>3, <1>10 DEF Column
  <2>3. \A t \in DOMAIN entries \cap DOMAIN surfaces : entries[t].height = surfaces[t].height
    BY <1>3, <1>10
  <2> QED BY <2>1, <2>2, <2>3, FewerFit
<1>12. Arranged(entries, row)
  <2>1. \A t \in DOMAIN entries \ Range(row) : entries[t].slot.kind = "Edge"
    BY <1>3, <1>4, <1>5, <1>10, ShelfFacts
  <2>2. row \in Seq(DOMAIN entries)
    BY <1>3, <1>5
  <2> QED BY <1>5, <1>7, <1>9, <1>11, <2>1, <2>2 DEF Arranged
<1>13. /\ unread' \in [Labels -> 0..Grace]
       /\ \A t \in Labels : unread'[t] = IF t \in ids \cup {s} THEN 0 ELSE unread[t]
  <2>1. Attended(ids \cup {s})
    BY <1>1
  <2> QED BY <2>1, AttendedIsCounted
<1>14. \A t \in Open \ ids : AtRest(entries[t], unread'[t])
  <2> SUFFICES ASSUME NEW t \in Open \ ids PROVE AtRest(entries[t], unread'[t])
    OBVIOUS
  <2>1. CASE t = s
    <3>1. unread'[s] \in 0..Grace /\ Grace \in Nat \ {0}
      BY <1>13, ShelfFacts, ShelfConstants
    <3>2. surfaces[s].holding \in 0..HoldCeiling
      BY DEF ShelfInv, AtRest
    <3> QED BY <1>6, <2>1, <3>1, <3>2 DEF AtRest
  <2>2. CASE t # s
    BY <1>3, <1>13, <2>2, ShelfFacts DEF ShelfInv
  <2> QED BY <2>1, <2>2
<1>15. /\ DOMAIN screen' = Open \ ids /\ \A t \in Open \ (ids \cup {s}) : screen'[t] = screen[t]
       /\ s \notin ids /\ screen'[s].up = screen[s].up /\ screen'[s].sticky = exhibit
       /\ \A t \in Open \ ids : screen'[t] \in [up : BOOLEAN, sticky : BOOLEAN]
  <2> DEFINE shown == [screen EXCEPT ![s].sticky = exhibit]
  <2>1. DOMAIN screen = Open /\ \A t \in Open : screen[t] \in [up : BOOLEAN, sticky : BOOLEAN]
    BY DEF ShelfInv, Windowed
  <2>2. /\ DOMAIN shown = Open /\ \A t \in Open \ {s} : shown[t] = screen[t]
        /\ shown[s].up = screen[s].up /\ shown[s].sticky = exhibit
        /\ \A t \in Open : shown[t] \in [up : BOOLEAN, sticky : BOOLEAN]
    BY <2>1
  <2> HIDE DEF shown
  <2>3. screen' = Minus(shown, ids)
    BY <1>1 DEF shown
  <2>4. DOMAIN screen' = DOMAIN shown \ ids /\ \A t \in DOMAIN shown \ ids : screen'[t] = shown[t]
    BY <2>3, MinusIs
  <2>5. s \notin ids
    BY <1>4, <1>5
  <2> QED BY <2>2, <2>4, <2>5
<1>16. /\ ShelfInv' /\ Open' = Open \ ids
       /\ \A t \in Open \ ids : Transient(surfaces'[t]) = Transient(entries[t])
  <2>1. /\ Crowded(row) \subseteq ids /\ frozen' \subseteq Stills /\ hidden' \in BOOLEAN
        /\ opened' \in 0..MaxOpens /\ losses' \in 0..MaxLost /\ Open \ ids \subseteq 1..opened'
    BY <1>2 DEF ShelfInv, Counted, ids
  <2>2. /\ DOMAIN entries \ ids \subseteq 1..opened' /\ DOMAIN screen' = DOMAIN entries \ ids
        /\ \A t \in DOMAIN entries \ ids : /\ AtRest(entries[t], unread'[t])
                                           /\ screen'[t] \in [up : BOOLEAN, sticky : BOOLEAN]
    BY <1>3, <1>14, <1>15, <2>1
  <2>3. surfaces' = Reflow(Minus(entries, ids), Off(row, ids)) /\ shelf' = Off(row, ids)
    BY <1>1
  <2>4. /\ ShelfInv' /\ Open' = DOMAIN entries \ ids
        /\ \A t \in DOMAIN entries \ ids : Transient(surfaces'[t]) = Transient(entries[t])
    BY <1>12, <1>13, <2>1, <2>2, <2>3, RetireKeeps
  <2> QED BY <1>3, <2>4
<1>17. PillStep
  <2> SUFFICES ASSUME GivenBackInSight, LayerFollowsPill, NEW t \in Open \ ids
               PROVE  /\ screen'[t].up <=> ~(hidden' /\ Transient(surfaces'[t]))
                      /\ screen'[t].up => (screen'[t].sticky <=> Transient(surfaces'[t]))
    BY <1>16 DEF PillStep, LayerFollowsPill
  <2>1. CASE t = s
    <3>1. ~hidden /\ screen[s].up
      BY <1>2 DEF GivenBackInSight, LayerFollowsPill
    <3> QED BY <1>2, <1>8, <1>15, <1>16, <2>1, <3>1
  <2>2. CASE t # s
    BY <1>2, <1>3, <1>15, <1>16, <2>2 DEF LayerFollowsPill
  <2> QED BY <2>1, <2>2
<1>18. LeavesByRight
  <2>1. \A t \in Open \ Open' : ~surfaces[t].owned
    BY <1>5, <1>16, ShelfFacts DEF Transient
  <2> QED BY <2>1 DEF LeavesByRight
<1> QED BY <1>16, <1>17, <1>18 DEF Keeps

\* What is said or done about panels moves none of them.
LEMMA NobodyIsMoved ==
  ASSUME ShelfInv, unread' \in [Labels -> 0..Grace],
         UNCHANGED <<shelf, frozen, hidden, screen, opened, losses>>,
         DOMAIN surfaces' = Open, \A s \in Open : surfaces'[s] \in Placed,
         surfaces' = [s \in Open |-> surfaces'[s]],
         \A s \in Open :
           /\ surfaces'[s].slot = surfaces[s].slot /\ surfaces'[s].height = surfaces[s].height
           /\ surfaces'[s].posture = surfaces[s].posture /\ surfaces'[s].owned = surfaces[s].owned
           /\ AtRest(surfaces'[s], unread'[s])
  PROVE  Keeps
<1>1. Counted'
  BY DEF ShelfInv, Counted
<1>2. surfaces' \in [Open -> Placed]
  <2>1. [s \in Open |-> surfaces'[s]] \in [Open -> Placed]
    OBVIOUS
  <2> QED BY <2>1, Zenon
<1>3. DOMAIN screen' = DOMAIN screen /\ \A s \in Open : screen'[s] \in [up : BOOLEAN, sticky : BOOLEAN]
  BY DEF ShelfInv, Windowed
<1>4. ShelfInv'
  BY <1>1, <1>2, <1>3, NobodyMoves
<1>5. Open' = Open /\ \A s \in Open : Transient(surfaces'[s]) = Transient(surfaces[s])
  BY DEF Open, Transient
<1> QED BY <1>4, <1>5, NobodyGoes DEF Keeps

LEMMA HoverKeeps == ASSUME ShelfInv, NEW s \in Open, Hover(s) PROVE Keeps
<1>1. /\ surfaces' = [t \in Open |->
           IF t # s THEN [surfaces[t] EXCEPT !.hovered = FALSE]
           ELSE IF surfaces[s].life = "Dim"
                THEN [surfaces[s] EXCEPT !.hovered = TRUE, !.life = "Live", !.aging = 0]
                ELSE [surfaces[s] EXCEPT !.hovered = TRUE]]
      /\ Attended({s}) /\ UNCHANGED <<shelf, frozen, hidden, screen, opened, losses>>
  BY DEF Hover
<1>2. /\ unread' \in [Labels -> 0..Grace]
      /\ \A t \in Labels : unread'[t] = IF t \in {s} THEN 0 ELSE unread[t]
  BY <1>1, AttendedIsCounted
<1>3. DOMAIN surfaces' = Open /\ surfaces' = [t \in Open |-> surfaces'[t]]
  BY <1>1
<1>4. ASSUME NEW t \in Open
      PROVE  /\ surfaces'[t] \in Placed
             /\ surfaces'[t].slot = surfaces[t].slot /\ surfaces'[t].height = surfaces[t].height
             /\ surfaces'[t].posture = surfaces[t].posture /\ surfaces'[t].owned = surfaces[t].owned
             /\ AtRest(surfaces'[t], unread'[t])
  <2>1. surfaces[t] \in Placed /\ t \in Labels /\ AtRest(surfaces[t], unread[t])
    BY ShelfFacts DEF ShelfInv
  <2>2. CASE t # s
    <3>1. surfaces'[t] = [surfaces[t] EXCEPT !.hovered = FALSE] /\ unread'[t] = unread[t]
      BY <1>1, <1>2, <2>1, <2>2
    <3> QED BY <2>1, <3>1 DEF Placed, AtRest
  <2>3. CASE t = s /\ surfaces[s].life = "Dim"
    <3>1. /\ surfaces'[t] = [surfaces[t] EXCEPT !.hovered = TRUE, !.life = "Live", !.aging = 0]
          /\ unread'[t] = 0
      BY <1>1, <1>2, <2>1, <2>3
    <3>2. /\ surfaces'[t].slot = surfaces[t].slot /\ surfaces'[t].height = surfaces[t].height
          /\ surfaces'[t].posture = surfaces[t].posture /\ surfaces'[t].owned = surfaces[t].owned
          /\ surfaces'[t].life = "Live" /\ surfaces'[t].aging = 0 /\ surfaces'[t].holding = surfaces[t].holding
      BY <2>1, <3>1 DEF Placed
    <3>3. surfaces'[t] \in Placed
      <4> DEFINE seen == [surfaces[t] EXCEPT !.hovered = TRUE]
                 live == [seen EXCEPT !.life = "Live"]
      <4>1. seen \in Placed
        BY <2>1 DEF Placed
      <4>2. live \in Placed
        BY <4>1 DEF Placed
      <4>3. [live EXCEPT !.aging = 0] \in Placed
        BY <4>2 DEF Placed
      <4> QED BY <3>1, <4>3
    <3>4. AtRest(surfaces'[t], unread'[t])
      BY <2>1, <3>1, <3>2, ShelfConstants DEF AtRest
    <3> QED BY <3>2, <3>3, <3>4
  <2>4. CASE t = s /\ surfaces[s].life # "Dim"
    <3>1. surfaces'[t] = [surfaces[t] EXCEPT !.hovered = TRUE] /\ unread'[t] = 0
      BY <1>1, <1>2, <2>1, <2>4
    <3>2. /\ surfaces'[t].slot = surfaces[t].slot /\ surfaces'[t].height = surfaces[t].height
          /\ surfaces'[t].posture = surfaces[t].posture /\ surfaces'[t].owned = surfaces[t].owned
          /\ surfaces'[t].life = surfaces[t].life /\ surfaces'[t].aging = surfaces[t].aging /\ surfaces'[t].holding = surfaces[t].holding
      BY <2>1, <3>1 DEF Placed
    <3>3. surfaces'[t] \in Placed
      BY <2>1, <3>1 DEF Placed
    <3>4. AtRest(surfaces'[t], unread'[t])
      <4>1. surfaces[t].aging = 0
        BY <2>1, <2>4 DEF AtRest
      <4> QED BY <2>1, <3>1, <3>2, <4>1 DEF AtRest
    <3> QED BY <3>2, <3>3, <3>4
  <2> QED BY <2>2, <2>3, <2>4
<1> QED BY <1>1, <1>2, <1>3, <1>4, NobodyIsMoved

LEMMA PointerLeavesKeeps == ASSUME ShelfInv, PointerLeaves PROVE Keeps
<1>1. /\ surfaces' = [t \in Open |-> [surfaces[t] EXCEPT !.hovered = FALSE]]
      /\ UNCHANGED <<shelf, frozen, hidden, screen, opened, unread, losses>>
  BY DEF PointerLeaves
<1>2. unread' \in [Labels -> 0..Grace]
  BY <1>1 DEF ShelfInv, Counted
<1>3. DOMAIN surfaces' = Open /\ surfaces' = [t \in Open |-> surfaces'[t]]
  BY <1>1
<1>4. ASSUME NEW t \in Open
      PROVE  /\ surfaces'[t] \in Placed
             /\ surfaces'[t].slot = surfaces[t].slot /\ surfaces'[t].height = surfaces[t].height
             /\ surfaces'[t].posture = surfaces[t].posture /\ surfaces'[t].owned = surfaces[t].owned
             /\ AtRest(surfaces'[t], unread'[t])
  <2>1. surfaces[t] \in Placed /\ AtRest(surfaces[t], unread[t])
    BY ShelfFacts DEF ShelfInv
  <2>2. surfaces'[t] = [surfaces[t] EXCEPT !.hovered = FALSE] /\ unread'[t] = unread[t]
    BY <1>1
  <2> QED BY <2>1, <2>2 DEF Placed, AtRest
<1> QED BY <1>1, <1>2, <1>3, <1>4, NobodyIsMoved

LEMMA TurnEndedKeeps == ASSUME ShelfInv, TurnEnded PROVE Keeps
<1>1. /\ surfaces' = [t \in Open |->
           IF Dimming(surfaces[t])
           THEN [surfaces[t] EXCEPT !.cited = FALSE, !.life = "Dim", !.aging = 0]
           ELSE [surfaces[t] EXCEPT !.cited = FALSE]]
      /\ UNCHANGED <<shelf, frozen, hidden, screen, opened, unread, losses>>
  BY DEF TurnEnded
<1>2. unread' \in [Labels -> 0..Grace]
  BY <1>1 DEF ShelfInv, Counted
<1>3. DOMAIN surfaces' = Open /\ surfaces' = [t \in Open |-> surfaces'[t]]
  BY <1>1
<1>4. ASSUME NEW t \in Open
      PROVE  /\ surfaces'[t] \in Placed
             /\ surfaces'[t].slot = surfaces[t].slot /\ surfaces'[t].height = surfaces[t].height
             /\ surfaces'[t].posture = surfaces[t].posture /\ surfaces'[t].owned = surfaces[t].owned
             /\ AtRest(surfaces'[t], unread'[t])
  <2>1. /\ surfaces[t] \in Placed /\ AtRest(surfaces[t], unread[t]) /\ unread[t] \in 0..Grace
        /\ unread'[t] = unread[t]
    BY <1>1, ShelfFacts DEF ShelfInv, Counted
  <2>2. CASE Dimming(surfaces[t])
    <3>1. /\ surfaces'[t] = [surfaces[t] EXCEPT !.cited = FALSE, !.life = "Dim", !.aging = 0]
          /\ ~surfaces[t].owned
      BY <1>1, <2>2 DEF Dimming, Transient
    <3>2. /\ surfaces'[t].slot = surfaces[t].slot /\ surfaces'[t].height = surfaces[t].height
          /\ surfaces'[t].posture = surfaces[t].posture /\ surfaces'[t].owned = surfaces[t].owned
          /\ surfaces'[t].life = "Dim" /\ surfaces'[t].aging = 0 /\ surfaces'[t].holding = surfaces[t].holding
      BY <2>1, <3>1 DEF Placed
    <3>3. surfaces'[t] \in Placed
      <4> DEFINE unsaid == [surfaces[t] EXCEPT !.cited = FALSE]
                 dim == [unsaid EXCEPT !.life = "Dim"]
      <4>1. unsaid \in Placed
        BY <2>1 DEF Placed
      <4>2. dim \in Placed
        BY <4>1 DEF Placed
      <4>3. [dim EXCEPT !.aging = 0] \in Placed
        BY <4>2 DEF Placed
      <4> QED BY <3>1, <4>3
    <3>4. AtRest(surfaces'[t], unread'[t])
      BY <2>1, <3>1, <3>2, ShelfConstants DEF AtRest
    <3> QED BY <3>2, <3>3, <3>4
  <2>3. CASE ~Dimming(surfaces[t])
    <3>1. surfaces'[t] = [surfaces[t] EXCEPT !.cited = FALSE]
      BY <1>1, <2>3
    <3> QED BY <2>1, <3>1 DEF Placed, AtRest
  <2> QED BY <2>2, <2>3
<1> QED BY <1>1, <1>2, <1>3, <1>4, NobodyIsMoved

LEMMA FeedKeeps == ASSUME ShelfInv, NEW s \in Open, NEW hold \in BOOLEAN, Feed(s, hold) PROVE Keeps
<1> DEFINE ended == IF surfaces[s].held /\ ~hold THEN {s} ELSE {}
<1>1. /\ surfaces' = [surfaces EXCEPT ![s] = Reading(surfaces[s], hold)]
      /\ Attended(ended) /\ UNCHANGED <<shelf, frozen, hidden, screen, opened, losses>>
  BY DEF Feed
<1>2. /\ unread' \in [Labels -> 0..Grace]
      /\ \A t \in Labels : unread'[t] = IF t \in ended THEN 0 ELSE unread[t]
  BY <1>1, AttendedIsCounted
<1>3. /\ DOMAIN surfaces' = Open /\ surfaces' = [t \in Open |-> surfaces'[t]]
      /\ surfaces'[s] = Reading(surfaces[s], hold) /\ \A t \in Open \ {s} : surfaces'[t] = surfaces[t]
  BY <1>1 DEF Open
<1>4. ASSUME NEW t \in Open
      PROVE  /\ surfaces'[t] \in Placed
             /\ surfaces'[t].slot = surfaces[t].slot /\ surfaces'[t].height = surfaces[t].height
             /\ surfaces'[t].posture = surfaces[t].posture /\ surfaces'[t].owned = surfaces[t].owned
             /\ AtRest(surfaces'[t], unread'[t])
  <2>1. surfaces[t] \in Placed /\ t \in Labels /\ AtRest(surfaces[t], unread[t])
    BY ShelfFacts DEF ShelfInv
  <2>2. CASE t # s
    BY <1>2, <1>3, <2>1, <2>2
  <2>3. CASE t = s
    <3>1. /\ surfaces'[t] = [surfaces[t] EXCEPT !.held = hold, !.holding = IF hold THEN @ ELSE 0,
                                                !.aging = IF surfaces[t].held /\ ~hold THEN 0 ELSE @]
      BY <1>3, <2>3 DEF Reading
    <3>2. unread'[t] = IF surfaces[t].held /\ ~hold THEN 0 ELSE unread[t]
      BY <1>2, <2>1, <2>3
    <3>3. HoldCeiling \in Nat /\ Grace \in Nat \ {0}
      BY ShelfConstants
    <3> DEFINE waited == IF hold THEN surfaces[t].holding ELSE 0
               rested == IF surfaces[t].held /\ ~hold THEN 0 ELSE surfaces[t].aging
    <3>4. surfaces'[t] = [surfaces[t] EXCEPT !.held = hold, !.holding = waited, !.aging = rested]
      BY <2>1, <3>1 DEF Placed
    <3>5. waited \in Nat /\ rested \in Nat /\ waited \in {0, surfaces[t].holding}
          /\ rested \in {0, surfaces[t].aging} /\ (unread'[t] = unread[t] \/ rested = 0)
          /\ unread'[t] \in 0..Grace
      BY <1>2, <2>1, <3>2 DEF Placed
    <3> HIDE DEF waited, rested
    <3>6. /\ surfaces'[t].slot = surfaces[t].slot /\ surfaces'[t].height = surfaces[t].height
          /\ surfaces'[t].posture = surfaces[t].posture /\ surfaces'[t].owned = surfaces[t].owned
          /\ surfaces'[t].life = surfaces[t].life /\ surfaces'[t].aging = rested /\ surfaces'[t].holding = waited
      BY <2>1, <3>4 DEF Placed
    <3>7. surfaces'[t] \in Placed
      <4> DEFINE read == [surfaces[t] EXCEPT !.held = hold]
                 kept == [read EXCEPT !.holding = waited]
      <4>1. read \in Placed
        BY <2>1 DEF Placed
      <4>2. kept \in Placed
        BY <3>5, <4>1 DEF Placed
      <4>3. [kept EXCEPT !.aging = rested] \in Placed
        BY <3>5, <4>2 DEF Placed
      <4> QED BY <3>4, <4>3
    <3>8. AtRest(surfaces'[t], unread'[t])
      BY <2>1, <3>3, <3>5, <3>6 DEF AtRest
    <3> QED BY <3>6, <3>7, <3>8
  <2> QED BY <2>2, <2>3
<1> QED BY <1>1, <1>2, <1>3, <1>4, NobodyIsMoved

LEMMA BackendDiesKeeps == ASSUME ShelfInv, NEW s \in Open, BackendDies(s) PROVE Keeps
<1>1. /\ surfaces' = [surfaces EXCEPT ![s].dead = TRUE, ![s].held = FALSE,
                                      ![s].holding = 0, ![s].aging = 0]
      /\ Attended({s}) /\ UNCHANGED <<shelf, frozen, hidden, screen, opened, losses>>
  BY DEF BackendDies
<1>2. /\ unread' \in [Labels -> 0..Grace]
      /\ \A t \in Labels : unread'[t] = IF t \in {s} THEN 0 ELSE unread[t]
  BY <1>1, AttendedIsCounted
<1>3. /\ DOMAIN surfaces' = Open /\ surfaces' = [t \in Open |-> surfaces'[t]]
      /\ surfaces'[s] = [surfaces[s] EXCEPT !.dead = TRUE, !.held = FALSE, !.holding = 0, !.aging = 0]
      /\ \A t \in Open \ {s} : surfaces'[t] = surfaces[t]
  BY <1>1 DEF Open
<1>4. ASSUME NEW t \in Open
      PROVE  /\ surfaces'[t] \in Placed
             /\ surfaces'[t].slot = surfaces[t].slot /\ surfaces'[t].height = surfaces[t].height
             /\ surfaces'[t].posture = surfaces[t].posture /\ surfaces'[t].owned = surfaces[t].owned
             /\ AtRest(surfaces'[t], unread'[t])
  <2>1. surfaces[t] \in Placed /\ t \in Labels /\ AtRest(surfaces[t], unread[t])
    BY ShelfFacts DEF ShelfInv
  <2>2. CASE t # s
    BY <1>2, <1>3, <2>1, <2>2
  <2>3. CASE t = s
    <3>1. /\ surfaces'[t] = [surfaces[t] EXCEPT !.dead = TRUE, !.held = FALSE, !.holding = 0, !.aging = 0]
          /\ unread'[t] = 0
      BY <1>2, <1>3, <2>1, <2>3
    <3>2. HoldCeiling \in Nat /\ Grace \in Nat \ {0}
      BY ShelfConstants
    <3>3. surfaces'[t] \in Placed
      <4> DEFINE dead == [surfaces[t] EXCEPT !.dead = TRUE]
                 free == [dead EXCEPT !.held = FALSE]
                 fresh == [free EXCEPT !.holding = 0]
      <4>1. dead \in Placed
        BY <2>1 DEF Placed
      <4>2. free \in Placed
        BY <4>1 DEF Placed
      <4>3. fresh \in Placed
        BY <4>2 DEF Placed
      <4>4. [fresh EXCEPT !.aging = 0] \in Placed
        BY <4>3 DEF Placed
      <4> QED BY <3>1, <4>4
    <3> QED BY <2>1, <3>1, <3>2, <3>3 DEF Placed, AtRest
  <2> QED BY <2>2, <2>3
<1> QED BY <1>1, <1>2, <1>3, <1>4, NobodyIsMoved

LEMMA FreezeKeeps == ASSUME ShelfInv, NEW reason \in Stills, Freeze(reason) PROVE Keeps
<1>1. /\ frozen' \subseteq Stills /\ UNCHANGED <<surfaces, shelf, hidden, screen, opened, unread, losses>>
  BY DEF Freeze, ShelfInv, Counted
<1>2. Counted' /\ Windowed' /\ Settled(surfaces', shelf')
  BY <1>1 DEF ShelfInv, Counted, Windowed, Open
<1>3. Open' = Open
  BY <1>1 DEF Open
<1>4. Open' \subseteq 1..opened' /\ \A s \in Open' : AtRest(surfaces'[s], unread'[s])
  BY <1>1, <1>3 DEF ShelfInv
<1>5. ShelfInv'
  BY <1>2, <1>4 DEF ShelfInv
<1> QED BY <1>1, <1>3, <1>5, NobodyGoes DEF Keeps

LEMMA LayerDownKeeps == ASSUME ShelfInv, LayerDown PROVE Keeps
<1>1. /\ ~hidden /\ hidden' = TRUE
      /\ screen' = [s \in Open |-> IF Transient(surfaces[s]) THEN [screen[s] EXCEPT !.up = FALSE]
                                   ELSE screen[s]]
      /\ UNCHANGED <<surfaces, shelf, frozen, opened, unread, losses>>
  BY DEF LayerDown
<1>2. Open' = Open
  BY <1>1 DEF Open
<1>3. /\ DOMAIN screen' = Open
      /\ \A s \in Open : screen'[s] = IF Transient(surfaces[s]) THEN [screen[s] EXCEPT !.up = FALSE]
                                      ELSE screen[s]
  BY <1>1
<1>4. Windowed' /\ \A s \in Open : screen[s] \in [up : BOOLEAN, sticky : BOOLEAN]
  BY <1>2, <1>3 DEF ShelfInv, Windowed
<1>5. Counted' /\ Settled(surfaces', shelf')
  BY <1>1 DEF ShelfInv, Counted
<1>6. Open' \subseteq 1..opened' /\ \A s \in Open' : AtRest(surfaces'[s], unread'[s])
  BY <1>1, <1>2 DEF ShelfInv
<1>7. ShelfInv'
  BY <1>4, <1>5, <1>6 DEF ShelfInv
<1>8. PillStep
  BY <1>1, <1>2, <1>3, <1>4 DEF PillStep, LayerFollowsPill
<1>9. LeavesByRight
  BY <1>2 DEF LeavesByRight
<1> QED BY <1>7, <1>8, <1>9 DEF Keeps
LEMMA LayerUpKeeps == ASSUME ShelfInv, LayerUp PROVE Keeps
<1>1. PICK lost \in SUBSET OnLayer(surfaces) :
        /\ \/ lost = {} /\ UNCHANGED losses
           \/ lost # {} /\ losses < MaxLost /\ losses' = losses + 1
        /\ IF lost = {} THEN UNCHANGED <<surfaces, shelf, unread>> ELSE Retire(lost, surfaces, shelf)
        /\ screen' = Minus(BroughtBack(OnLayer(surfaces)), lost)
  BY DEF LayerUp
<1>2. hidden /\ hidden' = FALSE /\ UNCHANGED <<frozen, opened>>
  BY DEF LayerUp
<1>3. /\ DOMAIN screen' = Open \ lost
      /\ \A s \in Open \ lost : screen'[s] = IF Transient(surfaces[s]) THEN [up |-> TRUE, sticky |-> TRUE]
                                             ELSE screen[s]
  <2> DEFINE back == BroughtBack(OnLayer(surfaces))
  <2>1. /\ DOMAIN back = Open
        /\ \A s \in Open : back[s] = IF Transient(surfaces[s]) THEN [up |-> TRUE, sticky |-> TRUE]
                                     ELSE screen[s]
    BY DEF BroughtBack, OnLayer, Open
  <2> HIDE DEF back
  <2>2. screen' = Minus(back, lost)
    BY <1>1 DEF back
  <2>3. DOMAIN screen' = DOMAIN back \ lost /\ \A s \in DOMAIN back \ lost : screen'[s] = back[s]
    BY <2>2, MinusIs
  <2> QED BY <2>1, <2>3
<1>4. /\ losses' \in 0..MaxLost /\ frozen' \subseteq Stills /\ hidden' \in BOOLEAN
      /\ \A s \in Open \ lost : screen'[s] \in [up : BOOLEAN, sticky : BOOLEAN]
  <2>1. losses' \in 0..MaxLost
    BY <1>1, ShelfConstants DEF ShelfInv, Counted
  <2>2. frozen' \subseteq Stills /\ hidden' \in BOOLEAN
    BY <1>2 DEF ShelfInv, Counted
  <2>3. \A s \in Open : screen[s] \in [up : BOOLEAN, sticky : BOOLEAN]
    BY DEF ShelfInv, Windowed
  <2>4. [up |-> TRUE, sticky |-> TRUE] \in [up : BOOLEAN, sticky : BOOLEAN]
    OBVIOUS
  <2>5. \A s \in Open \ lost : screen'[s] \in [up : BOOLEAN, sticky : BOOLEAN]
    BY <1>3, <2>3, <2>4
  <2> QED BY <2>1, <2>2, <2>5
<1>5. /\ ShelfInv' /\ Open' = Open \ lost
      /\ \A s \in Open \ lost : Transient(surfaces'[s]) = Transient(surfaces[s])
  <2>1. CASE lost = {}
    <3>1. UNCHANGED <<surfaces, shelf, unread, losses, frozen, opened>>
      BY <1>1, <1>2, <2>1
    <3>2. Open' = Open /\ Open \ lost = Open
      BY <2>1, <3>1 DEF Open
    <3>3. Counted' /\ Windowed' /\ Settled(surfaces', shelf')
      <4>1. Counted'
        BY <1>4, <3>1 DEF ShelfInv, Counted
      <4>2. Windowed'
        BY <1>3, <1>4, <3>2 DEF Windowed
      <4>3. Settled(surfaces', shelf')
        BY <3>1 DEF ShelfInv
      <4> QED BY <4>1, <4>2, <4>3
    <3>4. Open' \subseteq 1..opened' /\ \A s \in Open' : AtRest(surfaces'[s], unread'[s])
      BY <3>1, <3>2 DEF ShelfInv
    <3> QED BY <3>1, <3>2, <3>3, <3>4 DEF ShelfInv
  <2>2. CASE lost # {}
    <3>1. Retire(lost, surfaces, shelf) /\ opened' = opened
      BY <1>1, <1>2, <2>2
    <3> QED BY <1>3, <1>4, <3>1, TakenOff
  <2> QED BY <2>1, <2>2
<1>6. PillStep
  BY <1>2, <1>3, <1>5 DEF PillStep, LayerFollowsPill
<1>7. LeavesByRight
  <2> SUFFICES ASSUME NEW s \in Open \ Open' PROVE ~surfaces[s].owned /\ ~ClocksRun
    BY DEF LeavesByRight
  <2>1. s \in OnLayer(surfaces)
    BY <1>5
  <2> QED BY <1>2, <2>1 DEF OnLayer, Transient, ClocksRun
<1> QED BY <1>5, <1>6, <1>7 DEF Keeps

LEMMA SweepKeeps == ASSUME ShelfInv, Sweep PROVE Keeps
<1> DEFINE aged == [s \in Open |->
             IF ~Aging(surfaces[s]) THEN surfaces[s]
             ELSE IF Kept(surfaces[s]) THEN [surfaces[s] EXCEPT !.holding = @ + 1]
             ELSE [surfaces[s] EXCEPT !.aging = @ + 1]]
           spent == {s \in Open : aged[s].aging >= Grace}
           running == {s \in Open : frozen = {} /\ ~surfaces[s].hovered
                                    /\ surfaces[s].life = "Dim" /\ ~Kept(surfaces[s])}
<1>1. /\ surfaces' = IF spent = {} THEN aged ELSE Reflow(Minus(aged, spent), Off(shelf, spent))
      /\ shelf' = Off(shelf, spent) /\ screen' = Minus(screen, spent)
      /\ unread' = [s \in Labels |-> IF s \in running /\ s \notin spent /\ unread[s] < Grace
                                     THEN unread[s] + 1
                                     ELSE IF s \in spent THEN 0 ELSE unread[s]]
  BY DEF Sweep
<1>2. /\ ~hidden /\ frozen = {} /\ UNCHANGED <<frozen, hidden, opened, losses>>
  BY DEF Sweep, ClocksRun
<1>3. /\ DOMAIN aged = Open /\ aged = [s \in Open |-> aged[s]]
      /\ \A s \in Open : aged[s] =
           IF ~Aging(surfaces[s]) THEN surfaces[s]
           ELSE IF Kept(surfaces[s]) THEN [surfaces[s] EXCEPT !.holding = surfaces[s].holding + 1]
           ELSE [surfaces[s] EXCEPT !.aging = surfaces[s].aging + 1]
  <2>1. \A s \in Open : surfaces[s] \in Placed
    BY ShelfFacts
  <2> QED BY <2>1 DEF Placed
<1>4. \A s \in Open : s \in spent <=> aged[s].aging >= Grace
  OBVIOUS
<1>5. \A s \in Open : s \in running <=> Aging(surfaces[s]) /\ ~Kept(surfaces[s])
  BY <1>2 DEF Aging
<1>a. spent \subseteq Open /\ running \subseteq Open
  OBVIOUS
<1> HIDE DEF aged, spent, running
<1>6. ASSUME NEW s \in Open
      PROVE  /\ aged[s] \in Placed
             /\ aged[s].slot = surfaces[s].slot /\ aged[s].height = surfaces[s].height
             /\ aged[s].posture = surfaces[s].posture /\ aged[s].owned = surfaces[s].owned
             /\ aged[s].life = surfaces[s].life
             /\ \/ s \notin running /\ aged[s].aging = surfaces[s].aging
                \/ s \in running /\ surfaces[s].life = "Dim" /\ aged[s].aging = surfaces[s].aging + 1
             /\ aged[s].holding \in 0..HoldCeiling
  <2>1. surfaces[s] \in Placed /\ surfaces[s].holding \in 0..HoldCeiling
    BY ShelfFacts DEF ShelfInv, AtRest
  <2>2. CASE ~Aging(surfaces[s])
    BY <1>3, <1>5, <2>1, <2>2
  <2>3. CASE Aging(surfaces[s]) /\ Kept(surfaces[s])
    <3>1. aged[s] = [surfaces[s] EXCEPT !.holding = surfaces[s].holding + 1] /\ s \notin running
      BY <1>3, <1>5, <2>3
    <3>2. surfaces[s].holding + 1 \in 0..HoldCeiling
      BY <2>1, <2>3, ShelfConstants DEF Kept
    <3> QED BY <2>1, <3>1, <3>2 DEF Placed
  <2>4. CASE Aging(surfaces[s]) /\ ~Kept(surfaces[s])
    <3>1. aged[s] = [surfaces[s] EXCEPT !.aging = surfaces[s].aging + 1] /\ s \in running
      BY <1>3, <1>5, <2>4
    <3> QED BY <2>1, <2>4, <3>1 DEF Placed, Aging
  <2> QED BY <2>2, <2>3, <2>4
<1>7. /\ unread' \in [Labels -> 0..Grace]
      /\ \A s \in Labels : unread'[s] = IF s \in running /\ s \notin spent /\ unread[s] < Grace
                                        THEN unread[s] + 1
                                        ELSE IF s \in spent THEN 0 ELSE unread[s]
  <2>1. unread \in [Labels -> 0..Grace] /\ Grace \in Nat
    BY ShelfConstants DEF ShelfInv, Counted
  <2> QED BY <1>1, <2>1
<1>8. ASSUME NEW s \in Open \ spent PROVE AtRest(aged[s], unread'[s])
  <2>1. /\ AtRest(surfaces[s], unread[s]) /\ s \in Labels /\ unread[s] \in 0..Grace /\ Grace \in Nat \ {0}
    BY ShelfFacts, ShelfConstants DEF ShelfInv, Counted
  <2>2. surfaces[s].aging \in Nat /\ ~(aged[s].aging >= Grace) /\ surfaces[s].aging <= unread[s]
    BY <1>4, <2>1 DEF AtRest
  <2>3. /\ unread'[s] = IF s \in running /\ unread[s] < Grace THEN unread[s] + 1 ELSE unread[s]
        /\ aged[s].holding \in 0..HoldCeiling
    BY <1>6, <1>7, <2>1
  <2>4. CASE s \notin running
    BY <1>6, <2>1, <2>3, <2>4 DEF AtRest
  <2>5. CASE s \in running
    <3>1. aged[s].aging = surfaces[s].aging + 1 /\ surfaces[s].life = "Dim" /\ aged[s].life = "Dim"
          /\ aged[s].owned = surfaces[s].owned
      BY <1>6, <2>5
    <3>2. aged[s].aging \in 0..Grace - 1 /\ aged[s].aging <= unread'[s]
      BY <2>1, <2>2, <2>3, <2>5, <3>1
    <3>3. ~aged[s].owned
      BY <2>1, <3>1 DEF AtRest
    <3> QED BY <2>3, <3>1, <3>2, <3>3 DEF AtRest
  <2> QED BY <2>4, <2>5
<1>9. Arranged(aged, shelf)
  <2>1. \A s \in Open : Transient(aged[s]) = Transient(surfaces[s])
    BY <1>6 DEF Transient
  <2>2. aged \in [DOMAIN aged -> Placed]
    <3>1. [s \in Open |-> aged[s]] \in [Open -> Placed]
      BY <1>6
    <3> QED BY <1>3, <3>1, Zenon
  <2>3. DOMAIN aged = DOMAIN surfaces /\ DOMAIN surfaces = Open
    BY <1>3 DEF Open
  <2> QED BY <1>6, <2>1, <2>2, <2>3, ShelfFacts, SameArranged
<1>10. /\ DOMAIN screen' = Open \ spent /\ \A s \in Open \ spent : screen'[s] = screen[s]
       /\ \A s \in Open \ spent : screen'[s] \in [up : BOOLEAN, sticky : BOOLEAN]
  <2>1. DOMAIN screen = Open /\ \A s \in Open : screen[s] \in [up : BOOLEAN, sticky : BOOLEAN]
    BY DEF ShelfInv, Windowed
  <2>2. DOMAIN screen' = DOMAIN screen \ spent /\ \A s \in DOMAIN screen \ spent : screen'[s] = screen[s]
    BY <1>1, MinusIs
  <2> QED BY <2>1, <2>2
<1>11. /\ ShelfInv' /\ Open' = Open \ spent
       /\ \A s \in Open \ spent : Transient(surfaces'[s]) = Transient(surfaces[s])
  <2>1. CASE spent = {}
    <3>1. surfaces' = aged /\ Open \ spent = Open
      BY <1>1, <2>1
    <3>2. shelf' = shelf
      <4>1. Off(shelf, {}) = shelf
        BY ShelfFacts, OffNothing
      <4> QED BY <1>1, <2>1, <4>1
    <3>3. Counted'
      BY <1>2, <1>7 DEF ShelfInv, Counted
    <3>4. surfaces' \in [Open -> Placed] /\ DOMAIN surfaces' = Open
      <4>1. [s \in Open |-> aged[s]] \in [Open -> Placed]
        BY <1>6
      <4> QED BY <1>3, <3>1, <4>1, Zenon
    <3>5. DOMAIN screen' = DOMAIN screen
      BY <1>10, <3>1 DEF ShelfInv, Windowed
    <3>6. \A s \in Open :
            /\ surfaces'[s].slot = surfaces[s].slot /\ surfaces'[s].height = surfaces[s].height
            /\ surfaces'[s].posture = surfaces[s].posture /\ surfaces'[s].owned = surfaces[s].owned
            /\ AtRest(surfaces'[s], unread'[s]) /\ screen'[s] \in [up : BOOLEAN, sticky : BOOLEAN]
      BY <1>6, <1>8, <1>10, <3>1
    <3>7. ShelfInv'
      BY <1>2, <3>2, <3>3, <3>4, <3>5, <3>6, NobodyMoves
    <3> QED BY <3>1, <3>4, <3>6, <3>7 DEF Open, Transient
  <2>2. CASE spent # {}
    <3>1. surfaces' = Reflow(Minus(aged, spent), Off(shelf, spent)) /\ shelf' = Off(shelf, spent)
      BY <1>1, <2>2
    <3>2. /\ Crowded(shelf) \subseteq spent /\ opened' \in 0..MaxOpens /\ losses' \in 0..MaxLost
          /\ frozen' \subseteq Stills /\ hidden' \in BOOLEAN /\ Open \ spent \subseteq 1..opened'
      BY <1>2, ShelfFacts DEF ShelfInv, Counted
    <3>3. /\ DOMAIN aged \ spent \subseteq 1..opened' /\ DOMAIN screen' = DOMAIN aged \ spent
          /\ \A s \in DOMAIN aged \ spent : /\ AtRest(aged[s], unread'[s])
                                            /\ screen'[s] \in [up : BOOLEAN, sticky : BOOLEAN]
      BY <1>3, <1>8, <1>10, <3>2
    <3>4. /\ ShelfInv' /\ Open' = DOMAIN aged \ spent
          /\ \A s \in DOMAIN aged \ spent : Transient(surfaces'[s]) = Transient(aged[s])
      BY <1>7, <1>9, <3>1, <3>2, <3>3, RetireKeeps
    <3> QED BY <1>3, <1>6, <3>4 DEF Transient
  <2> QED BY <2>1, <2>2
<1>12. PillStep
  BY <1>2, <1>10, <1>11, TheRestIsSeen
<1>13. LeavesByRight
  <2> SUFFICES ASSUME NEW s \in Open \ Open'
               PROVE  ~surfaces[s].owned /\ surfaces[s].life = "Dim" /\ unread[s] + 1 >= Grace
    BY DEF LeavesByRight
  <2>1. s \in spent /\ AtRest(surfaces[s], unread[s]) /\ s \in Labels /\ Grace \in Nat \ {0}
        /\ unread[s] \in 0..Grace
    BY <1>11, ShelfFacts, ShelfConstants DEF ShelfInv, Counted
  <2>2. aged[s].aging >= Grace
    BY <1>4, <2>1
  <2>3. s \in running /\ surfaces[s].life = "Dim" /\ aged[s].aging = surfaces[s].aging + 1
    BY <1>6, <2>1, <2>2 DEF AtRest
  <2> QED BY <2>1, <2>2, <2>3 DEF AtRest
<1> QED BY <1>11, <1>12, <1>13 DEF Keeps

-----------------------------------------------------------------------------
(* The theorems.                                                            *)

\* A panel in a column ends no further from the corner than its column claims.
LEMMA WithinTheColumn ==
  ASSUME ShelfInv, NEW s \in Open, surfaces[s].slot.kind = "Edge"
  PROVE  /\ surfaces[s].slot.reach + surfaces[s].height + Margin
              <= Claimed(surfaces, Column(surfaces, surfaces[s].slot.corner))
         /\ surfaces[s].slot.reach \in Nat /\ surfaces[s].slot.corner \in DOMAIN Facing
         /\ surfaces[s].slot.corner \in Range(Corners)
         /\ surfaces[s].height \in Nat \ {0}
<1> DEFINE column == Column(surfaces, surfaces[s].slot.corner)
           ahead == Before(surfaces, s)
<1>1. Entries(surfaces) /\ s \notin Range(shelf) /\ DOMAIN surfaces = Open
  BY ShelfFacts DEF Open
<1>2. surfaces[s].slot.reach = Claimed(surfaces, ahead)
  BY <1>1 DEF ShelfInv, Settled
<1>3. surfaces[s].slot.reach \in Nat /\ surfaces[s].slot.corner \in Range(Corners)
  BY <1>1, PlacedIs
<1>4. ahead \subseteq DOMAIN surfaces /\ s \notin ahead /\ ahead \cup {s} \subseteq column /\ column \subseteq DOMAIN surfaces
  <2>1. s \notin ahead
    BY <1>3, ShelfFacts DEF Before
  <2> QED BY <1>1, <2>1 DEF Before, Column
<1> HIDE DEF ahead, column
<1>5. Claimed(surfaces, ahead \cup {s}) = Claimed(surfaces, ahead) + Claimed(surfaces, {s})
  BY <1>1, <1>4, ClaimsAdd
<1>6. Claimed(surfaces, {s}) = surfaces[s].height + Margin /\ surfaces[s].height \in Nat \ {0}
  BY <1>1, ClaimOfOne, HeightsOf
<1>7. Claimed(surfaces, ahead \cup {s}) <= Claimed(surfaces, column)
  BY <1>1, <1>4, ClaimsGrow
<1>8. Claimed(surfaces, ahead) \in Nat /\ Claimed(surfaces, column) \in Nat /\ Margin \in Nat
  BY <1>1, <1>4, PixelsAreFinite, ShelfConstants
<1> DEFINE near == Claimed(surfaces, ahead)
           all == Claimed(surfaces, column)
           both == Claimed(surfaces, ahead \cup {s})
           tall == surfaces[s].height
<1>9. near \in Nat /\ all \in Nat /\ tall \in Nat /\ both = near + (tall + Margin) /\ both <= all
  BY <1>5, <1>6, <1>7, <1>8
<1> HIDE DEF near, all, both, tall
<1>10. near + tall + Margin <= all
  BY <1>8, <1>9
<1> QED BY <1>2, <1>3, <1>6, <1>10, ShelfConstants DEF near, all, tall, column

LEMMA InvIsApart == ASSUME ShelfInv PROVE NothingOverlaps
<1> DEFINE far(u) == surfaces[u].slot.reach + surfaces[u].height + Margin
           hung == {u \in Open : surfaces[u].slot.kind = "Edge"}
<1> SUFFICES ASSUME NEW s \in hung, NEW t \in hung, s # t
             PROVE  /\ surfaces[s].slot.corner = surfaces[t].slot.corner =>
                         \/ surfaces[t].slot.reach >= far(s)
                         \/ surfaces[s].slot.reach >= far(t)
                    /\ surfaces[s].slot.corner = Facing[surfaces[t].slot.corner] =>
                         far(s) + far(t) <= EdgeReach + Margin
  BY Zenon DEF NothingOverlaps
<1>1. /\ Entries(surfaces) /\ SidesFit(surfaces, {}) /\ s \in Open /\ t \in Open
      /\ s \in Nat /\ t \in Nat /\ DOMAIN surfaces = Open
      /\ s \in Open \ Range(shelf) /\ t \in Open \ Range(shelf)
      /\ \A u \in DOMAIN surfaces \ Range(shelf) : surfaces[u].slot.kind = "Edge"
  BY ShelfFacts DEF Open
<1>2. /\ far(s) <= Claimed(surfaces, Column(surfaces, surfaces[s].slot.corner))
      /\ far(t) <= Claimed(surfaces, Column(surfaces, surfaces[t].slot.corner))
      /\ surfaces[s].slot.reach \in Nat /\ surfaces[t].slot.reach \in Nat
      /\ surfaces[t].slot.corner \in DOMAIN Facing
      /\ surfaces[s].height \in Nat /\ surfaces[t].height \in Nat /\ Margin \in Nat /\ EdgeReach \in Nat
  BY <1>1, WithinTheColumn, ShelfConstants
<1>3. \A u \in Open \ Range(shelf) :
        /\ Before(surfaces, u) = Ahead(surfaces, Range(shelf), u)
        /\ surfaces[u].slot.reach = Claimed(surfaces, Ahead(surfaces, Range(shelf), u))
  <2> SUFFICES ASSUME NEW u \in Open \ Range(shelf)
               PROVE  /\ Before(surfaces, u) = Ahead(surfaces, Range(shelf), u)
                      /\ surfaces[u].slot.reach = Claimed(surfaces, Ahead(surfaces, Range(shelf), u))
    OBVIOUS
  <2>1. \A v \in Open : v \in Range(shelf) => surfaces[v].slot.kind # "Edge"
    BY ShelfFacts
  <2>2. Before(surfaces, u) = Ahead(surfaces, Range(shelf), u)
    BY <1>1, <2>1 DEF Before, Ahead, Column
  <2>3. surfaces[u].slot.reach = Claimed(surfaces, Before(surfaces, u))
    BY <1>1 DEF ShelfInv, Settled
  <2> QED BY <2>2, <2>3, Zenon
<1>4. ASSUME NEW a \in Open \ Range(shelf), NEW b \in Open \ Range(shelf),
             a \in Ahead(surfaces, Range(shelf), b), surfaces[a].slot.reach \in Nat,
             surfaces[a].height \in Nat, surfaces[b].slot.reach \in Nat
      PROVE  surfaces[b].slot.reach >= far(a)
  <2>1. Claimed(surfaces, Ahead(surfaces, Range(shelf), a)) + surfaces[a].height + Margin
          <= Claimed(surfaces, Ahead(surfaces, Range(shelf), b))
    BY <1>1, <1>4, AheadClaims
  <2>2. surfaces[a].slot.reach + surfaces[a].height + Margin <= surfaces[b].slot.reach
    BY <1>3, <2>1, Zenon
  <2> QED BY <1>2, <1>4, <2>2
<1>5. ASSUME surfaces[s].slot.corner = surfaces[t].slot.corner
      PROVE  surfaces[t].slot.reach >= far(s) \/ surfaces[s].slot.reach >= far(t)
  <2>1. s \in Ahead(surfaces, Range(shelf), t) \/ t \in Ahead(surfaces, Range(shelf), s)
    BY <1>1, <1>2, <1>5 DEF Ahead
  <2> QED BY <1>1, <1>2, <1>4, <2>1
<1>6. ASSUME surfaces[s].slot.corner = Facing[surfaces[t].slot.corner]
      PROVE  far(s) + far(t) <= EdgeReach + Margin
  <2> DEFINE c == surfaces[t].slot.corner
             mine == Claimed(surfaces, Column(surfaces, c))
             over == Claimed(surfaces, Column(surfaces, Facing[c]))
  <2>1. \A d : Column(surfaces, d) \ {} = Column(surfaces, d) /\ Column(surfaces, d) \subseteq DOMAIN surfaces
    BY DEF Column
  <2>2. mine + over <= EdgeReach + Margin
    BY <1>1, <1>2, <2>1, Zenon DEF SidesFit
  <2>3. far(t) <= mine /\ far(s) <= over
    BY <1>2, <1>6
  <2>4. mine \in Nat /\ over \in Nat
    BY <1>1, <2>1, PixelsAreFinite
  <2>5. far(s) \in Nat /\ far(t) \in Nat
    BY <1>2
  <2> HIDE DEF far, mine, over
  <2> QED BY <1>2, <2>2, <2>3, <2>4, <2>5
<1> QED BY <1>5, <1>6

LEMMA InvIsTyped == ASSUME ShelfInv PROVE ShelfTypeOK /\ ShelfInOrder
<1>1. ShelfInOrder
  <2>1. \A i \in DOMAIN shelf : surfaces[shelf[i]].slot = ShelfSlot(i)
    BY DEF ShelfInv, Settled
  <2> QED BY <2>1, ShelfFacts DEF ShelfInOrder
<1>2. ASSUME NEW s \in Open PROVE surfaces[s] \in PanelStates
  <2>1. surfaces[s] \in Placed /\ AtRest(surfaces[s], unread[s])
    BY ShelfFacts DEF ShelfInv
  <2>2. surfaces[s].slot \in Slots
    <3>1. CASE s \in Range(shelf)
      <4>1. PICK i \in DOMAIN shelf : shelf[i] = s
        BY <3>1 DEF Range
      <4>2. surfaces[s].slot = ShelfSlot(i)
        BY <4>1 DEF ShelfInv, Settled
      <4>3. i \in 1..ShelfSlots
        <5>1. i \in 1..Len(shelf) /\ Len(shelf) \in Nat /\ Len(shelf) <= ShelfSlots /\ ShelfSlots \in Nat
          BY ShelfFacts, ShelfConstants
        <5> QED BY <5>1
      <4> QED BY <4>2, <4>3 DEF Slots, ShelfSlot
    <3>2. CASE s \notin Range(shelf)
      <4>1. surfaces[s].slot.kind = "Edge" /\ DOMAIN surfaces = Open
        BY <3>2, ShelfFacts DEF Open
      <4> DEFINE c == surfaces[s].slot.corner
                 mine == Claimed(surfaces, Column(surfaces, c))
                 over == Claimed(surfaces, Column(surfaces, Facing[c]))
                 reach == surfaces[s].slot.reach
                 tall == surfaces[s].height
      <4>2. /\ reach + tall + Margin <= mine /\ reach \in Nat /\ c \in DOMAIN Facing
            /\ c \in Range(Corners) /\ tall \in Nat
        BY <4>1, WithinTheColumn
      <4>3. \A d : Column(surfaces, d) \ {} = Column(surfaces, d) /\ Column(surfaces, d) \subseteq DOMAIN surfaces
        BY DEF Column
      <4>4. mine + over <= EdgeReach + Margin
        BY <4>2, <4>3, ShelfFacts, Zenon DEF SidesFit
      <4>5. mine \in Nat /\ over \in Nat /\ Margin \in Nat /\ EdgeReach \in Nat
        BY <4>3, ShelfFacts, PixelsAreFinite, ShelfConstants
      <4>6. surfaces[s].slot = EdgeSlot(c, reach)
        BY <4>1, ShelfFacts, PlacedIs
      <4> HIDE DEF c, mine, over, reach, tall
      <4>7. reach \in 0..EdgeReach
        BY <4>2, <4>4, <4>5
      <4> QED BY <4>2, <4>6, <4>7 DEF Slots, EdgeSlot
    <3> QED BY <3>1, <3>2
  <2>3. surfaces[s].aging \in 0..Grace - 1 /\ surfaces[s].holding \in 0..HoldCeiling
    BY <2>1 DEF AtRest
  <2> QED BY <2>1, <2>2, <2>3 DEF Placed, PanelStates
<1> QED BY <1>1, <1>2, ShelfFacts DEF ShelfTypeOK, ShelfInv, Counted, Windowed

LEMMA ShelfStarts == ASSUME ShelfInit PROVE ShelfInv /\ LayerFollowsPill
<1>1. /\ surfaces = <<>> /\ shelf = <<>> /\ screen = <<>> /\ DOMAIN surfaces = {} /\ Open = {}
      /\ DOMAIN screen = {} /\ Range(shelf) = {} /\ Len(shelf) = 0 /\ DOMAIN shelf = {}
  BY DEF ShelfInit, Open, Range
<1>2. SidesFit(surfaces, Range(shelf))
  <2>1. \A c : Column(surfaces, c) \ Range(shelf) = {}
    BY <1>1 DEF Column
  <2>2. Pixels(surfaces, {}) = {}
    BY DEF Pixels
  <2>3. Claimed(surfaces, {}) = 0
    BY <2>2, FS_EmptySet DEF Claimed
  <2>4. 0 + 0 <= EdgeReach + Margin
    BY ShelfConstants
  <2> SUFFICES ASSUME NEW c \in DOMAIN Facing
               PROVE  Claimed(surfaces, Column(surfaces, c) \ Range(shelf))
                        + Claimed(surfaces, Column(surfaces, Facing[c]) \ Range(shelf)) <= EdgeReach + Margin
    BY DEF SidesFit
  <2> QED BY <2>1, <2>3, <2>4, Zenon
<1>3. Entries(surfaces)
  <2>1. surfaces \in [{} -> Placed]
    BY <1>1
  <2> QED BY <1>1, <2>1 DEF Entries
<1>4. Arranged(surfaces, shelf)
  <2>1. shelf \in Seq(DOMAIN surfaces) /\ IsInjective(shelf) /\ Range(shelf) = OnLayer(surfaces)
    BY <1>1 DEF IsInjective, OnLayer
  <2> QED BY <1>1, <1>2, <1>3, <2>1 DEF Arranged
<1>5. Settled(surfaces, shelf)
  BY <1>1, <1>4, ShelfConstants DEF Settled
<1>6. Counted /\ Windowed
  <2>1. 0 \in 0..MaxOpens /\ 0 \in 0..MaxLost /\ 0 \in 0..Grace
    BY ShelfConstants
  <2>2. unread \in [Labels -> 0..Grace]
    BY <2>1 DEF ShelfInit
  <2>3. opened \in 0..MaxOpens /\ losses \in 0..MaxLost /\ frozen \subseteq Stills /\ hidden \in BOOLEAN
    BY <2>1 DEF ShelfInit
  <2> QED BY <1>1, <2>2, <2>3 DEF Counted, Windowed
<1> QED BY <1>1, <1>5, <1>6 DEF ShelfInv, LayerFollowsPill

\* One lemma per operation, put together.
LEMMA ShelfKeeps == ASSUME ShelfInv, [ShelfNext]_shelfVars PROVE Keeps
<1>1. CASE UNCHANGED shelfVars
  <2>1. UNCHANGED <<surfaces, shelf, frozen, hidden, screen, opened, unread, losses>>
    BY <1>1 DEF shelfVars, runtime
  <2>2. Open' = Open
    BY <2>1 DEF Open
  <2>3. Counted' /\ Windowed' /\ Settled(surfaces', shelf')
    BY <2>1, <2>2 DEF ShelfInv, Counted, Windowed
  <2>4. Open' \subseteq 1..opened' /\ \A s \in Open' : AtRest(surfaces'[s], unread'[s])
    BY <2>1, <2>2 DEF ShelfInv
  <2>5. ShelfInv'
    BY <2>3, <2>4 DEF ShelfInv
  <2> QED BY <2>1, <2>2, <2>5, NobodyGoes DEF Keeps
<1>2. ASSUME NEW height, OpenRefused(height) PROVE Keeps
  BY <1>2, OpenRefusedKeeps
<1>3. ASSUME NEW height, NEW posture \in {"Exhibit", "Instrument"}, OpenPanel(posture, height)
      PROVE  Keeps
  BY <1>3, OpenPanelKeeps
<1>4. ASSUME NEW s \in Open, Dismissed(s) \/ Pin(s) \/ Release(s) \/ Hover(s) PROVE Keeps
  BY <1>4, DismissedKeeps, PinKeeps, ReleaseKeeps, HoverKeeps
<1>5. ASSUME NEW s \in Open, BackendDies(s) \/ \E hold \in BOOLEAN : Feed(s, hold) PROVE Keeps
  BY <1>5, BackendDiesKeeps, FeedKeeps
<1>6. CASE TurnEnded \/ Sweep \/ PointerLeaves \/ LayerDown \/ LayerUp
  BY <1>6, TurnEndedKeeps, SweepKeeps, PointerLeavesKeeps, LayerDownKeeps, LayerUpKeeps
<1>7. ASSUME NEW reason \in Stills, Freeze(reason) PROVE Keeps
  BY <1>7, FreezeKeeps
<1>8. CASE ShelfNext
  BY <1>2, <1>3, <1>4, <1>5, <1>6, <1>7, <1>8, Zenon DEF ShelfNext
<1> QED BY <1>1, <1>8

\* Every panel the runtime keeps stands where the last reflow put it: the
\* columns packed from their corners, what they claim within the edge, and no
\* panel aged longer than nobody attended it (widgets/runtime.rs).
THEOREM ShelfInvariant == ShelfSpec => []ShelfInv
<1>1. ShelfInit => ShelfInv
  BY ShelfStarts
<1>2. ShelfInv /\ [ShelfNext]_shelfVars => ShelfInv'
  BY ShelfKeeps DEF Keeps
<1> QED BY <1>1, <1>2, PTL DEF ShelfSpec

\* The shelf stays in the order of use and no two panels are in one place,
\* whatever is opened, pinned, given back, retired or lost (free_edge, reflow).
THEOREM PanelsKeepApart == ShelfSpec => [](ShelfTypeOK /\ ShelfInOrder /\ NothingOverlaps)
<1>1. ShelfInv => ShelfTypeOK /\ ShelfInOrder /\ NothingOverlaps
  BY InvIsApart, InvIsTyped
<1> QED BY <1>1, ShelfInvariant, PTL

\* And the layer comes and goes with the pill and takes only its own, where a
\* pinned panel is given back in sight (Release; conceal).
THEOREM PanelsAreInPlace ==
  ASSUME GivenBackInSight
  PROVE  ShelfSpec => []PanelsStand
<1>1. ShelfInit => ShelfInv /\ LayerFollowsPill
  BY ShelfStarts
<1>2. ShelfInv /\ LayerFollowsPill /\ [ShelfNext]_shelfVars => (ShelfInv /\ LayerFollowsPill)'
  BY ShelfKeeps, GivenBackInSight DEF Keeps, PillStep
<1>3. ShelfInv /\ LayerFollowsPill => PanelsStand
  BY InvIsApart, InvIsTyped DEF PanelsStand
<1> QED BY <1>1, <1>2, <1>3, PTL DEF ShelfSpec

\* What the person kept leaves only by the person's own tick, and the clock
\* retires only a panel nobody attended for a whole grace (sweep, crowd_out).
THEOREM NobodyLosesAPanel == ShelfSpec => PanelsLeave
<1>1. ShelfInv /\ [ShelfNext]_shelfVars => [LeavesByRight]_shelfVars
  BY ShelfKeeps DEF Keeps
<1> QED BY <1>1, ShelfInvariant, PTL DEF ShelfSpec, PanelsLeave
=============================================================================
