------------------------------ MODULE WidgetShelf ------------------------------
(****************************************************************************)
(* Which widget panels are open and where each one stands                   *)
(* (desktop/src/widgets/runtime.rs), with what the host makes of each       *)
(* decision on the screen (mod.rs perform and settle).  A decision and all  *)
(* it decides are carried out under one turn, so each is one step.          *)
(*                                                                          *)
(* Exhibits stand on the shelf, newest first; instruments, and exhibits the *)
(* person pinned, hang in columns from the corners of the screen.           *)
(****************************************************************************)
EXTENDS Naturals, FiniteSets, Sequences, Functions

CONSTANTS
  MaxOpens,     \* panels asked for: labels are minted once and never reused
  Heights,      \* Heights[n]: sizes the n-th panel asked for may have
  Corners,      \* EDGE_SLOTS
  Fed,          \* the labels whose widget has a backend
  ShelfSlots,   \* SHELF_SLOTS
  EdgeReach,    \* EDGE_REACH
  Margin,       \* EDGE_MARGIN
  Grace,        \* GRACE, in sweeps
  HoldCeiling,  \* HOLD_CEILING, in sweeps
  Stills,       \* what stops the clocks (Freeze): speech, the microphone
  GivesBackHidden,        \* a pinned panel may be given back while the layer is down
  MaxLost     \* windows that do not come up

Labels == 1..MaxOpens
Facing == [TopRight |-> "BottomRight", TopLeft |-> "BottomLeft",
           BottomRight |-> "TopRight", BottomLeft |-> "TopLeft"]

ASSUME ShelfAssumption ==
  /\ {MaxOpens, EdgeReach, Margin, HoldCeiling, MaxLost} \subseteq Nat
  /\ {ShelfSlots, Grace} \subseteq Nat \ {0}
  /\ Heights \in [Labels -> SUBSET (Nat \ {0})] /\ Fed \subseteq Labels
  /\ Corners \in Seq(DOMAIN Facing) /\ GivesBackHidden \in BOOLEAN

VARIABLES
  surfaces,  \* Runtime::surfaces
  shelf,     \* Runtime::shelf, newest first
  frozen,    \* Runtime::frozen
  hidden,    \* Runtime::hidden
  screen,    \* the window of each surface: up, and on every workspace
  opened,    \* labels handed out
  unread,    \* sweeps each panel has sat dim and unheld since anyone attended it
  losses

runtime == <<surfaces, shelf, frozen, hidden>>
shelfVars == <<runtime, screen, opened, unread, losses>>

Open == DOMAIN surfaces
Minus(entries, ids) == Restrict(entries, DOMAIN entries \ ids)
With(entries, id, value) ==
  [i \in DOMAIN entries \cup {id} |-> IF i = id THEN value ELSE entries[i]]

\* Surface::transient
Transient(surface) == surface.posture = "Exhibit" /\ ~surface.owned
OnLayer(entries) == {s \in DOMAIN entries : Transient(entries[s])}

-----------------------------------------------------------------------------
ShelfSlot(rank) == [kind |-> "Shelf", rank |-> rank]
EdgeSlot(corner, reach) == [kind |-> "Edge", corner |-> corner, reach |-> reach]

\* Runtime::column, as a set.
Column(entries, corner) ==
  {s \in DOMAIN entries : entries[s].slot.kind = "Edge" /\ entries[s].slot.corner = corner}

\* The pixels of a column some panels of it take, with the gap after each.
Pixels(entries, ids) == UNION {{s} \X (1..entries[s].height + Margin) : s \in ids}

\* Runtime::claimed, of some of a column.
Claimed(entries, ids) == Cardinality(Pixels(entries, ids))

\* Who of its column stands nearer the corner than s.
Before(entries, s) ==
  {t \in Column(entries, entries[s].slot.corner) :
     \/ entries[t].slot.reach < entries[s].slot.reach
     \/ entries[t].slot.reach = entries[s].slot.reach /\ t < s}

Fits(entries, corner, height) ==
  Claimed(entries, Column(entries, corner)) + height
    + Claimed(entries, Column(entries, Facing[corner])) <= EdgeReach

\* Runtime::free_edge: the shallowest column with room, the first of equals.
FreeEdges(entries, height) ==
  {EdgeSlot(corner, Claimed(entries, Column(entries, corner))) :
     corner \in {Corners[i] : i \in {j \in DOMAIN Corners :
       LET depth(k) == Cardinality(Column(entries, Corners[k]))
           room == {k \in DOMAIN Corners : Fits(entries, Corners[k], height)}
       IN  j \in room /\ \A k \in room \ {j} :
             depth(j) < depth(k) \/ (depth(j) = depth(k) /\ j < k)}}}

\* Runtime::reflow: the shelf by recency, then each column from its corner.
Reflow(entries, row) ==
  LET ranked == [s \in DOMAIN entries |->
        IF s \in Range(row)
        THEN [entries[s] EXCEPT !.slot = ShelfSlot(CHOOSE i \in DOMAIN row : row[i] = s)]
        ELSE entries[s]]
  IN  [s \in DOMAIN ranked |->
        IF ranked[s].slot.kind = "Edge"
        THEN [ranked[s] EXCEPT !.slot.reach = Claimed(ranked, Before(ranked, s))]
        ELSE ranked[s]]

\* What is left of a row, in its order.
Off(row, ids) ==
  LET left == {i \in DOMAIN row : row[i] \notin ids}
      place(i) == Cardinality({j \in left : j <= i})
  IN  [k \in 1..Cardinality(left) |-> row[CHOOSE i \in left : place(i) = k]]

\* Runtime::crowd_out: whom a shelf with one too many retires.
Crowded(row) == {row[i] : i \in ShelfSlots + 1 .. Len(row)}

\* Runtime::retire, of some panels, with the shells they were in.
Retire(ids, entries, row) ==
  /\ surfaces' = Reflow(Minus(entries, ids), Off(row, ids))
  /\ shelf' = Off(row, ids)
  /\ unread' = [s \in Labels |-> IF s \in ids THEN 0 ELSE unread[s]]

\* What anything said or done about a panel does to the count of its rest.
Attended(ids) == unread' = [s \in Labels |-> IF s \in ids THEN 0 ELSE unread[s]]

-----------------------------------------------------------------------------
NewPanel(posture, height, slot) ==
  [posture |-> posture, height |-> height, slot |-> slot, owned |-> FALSE, life |-> "Live",
   cited |-> TRUE, hovered |-> FALSE, aging |-> 0, held |-> FALSE, holding |-> 0, dead |-> FALSE]

\* Act::Adopt and the Stick behind it: behind a layer that is down the window
\* is sized and waits.
Window(posture) ==
  LET waits == hidden /\ posture = "Exhibit"
  IN  [up |-> ~waits, sticky |-> posture = "Exhibit" /\ ~waits]

\* Runtime::open; a window that does not come up takes its panel with it
\* (settle, Cmd::Lost), after the shelf has made room for it.
OpenPanel(posture, height) ==
  /\ opened < MaxOpens /\ opened' = opened + 1 /\ height \in Heights[opened + 1]
  /\ \E slot \in IF posture = "Exhibit" THEN {ShelfSlot(1)} ELSE FreeEdges(surfaces, height) :
       LET id == opened + 1
           row == IF posture = "Exhibit" THEN <<id>> \o shelf ELSE shelf
           entries == With(surfaces, id, NewPanel(posture, height, slot))
       IN  \/ /\ Retire(Crowded(row), entries, row)
              /\ screen' = With(Minus(screen, Crowded(row)), id, Window(posture))
              /\ UNCHANGED losses
           \/ /\ losses < MaxLost /\ losses' = losses + 1
              /\ Retire(Crowded(row) \cup {id}, entries, row)
              /\ screen' = Minus(screen, Crowded(row))
  /\ UNCHANGED <<frozen, hidden>>

\* No edge has room: the panel is refused, its shell discarded.
OpenRefused(height) ==
  /\ opened < MaxOpens /\ opened' = opened + 1 /\ height \in Heights[opened + 1]
  /\ FreeEdges(surfaces, height) = {}
  /\ UNCHANGED <<runtime, screen, unread, losses>>

\* Runtime::dismissed: the person closed it with its own tick.
Dismissed(s) ==
  /\ screen[s].up
  /\ Retire({s}, surfaces, shelf)
  /\ screen' = Minus(screen, {s})
  /\ UNCHANGED <<frozen, hidden, opened, losses>>

PinnedOff(s) == Off(shelf, {s})

\* Runtime::pin: the person's from now on, in a place of its own.
Pin(s) ==
  /\ ~surfaces[s].owned /\ screen[s].up
  /\ \E slot \in IF s \in Range(shelf) THEN FreeEdges(surfaces, surfaces[s].height)
                 ELSE {surfaces[s].slot} :
       /\ shelf' = PinnedOff(s)
       /\ surfaces' = Reflow([surfaces EXCEPT ![s].owned = TRUE, ![s].life = "Pinned",
                                             ![s].aging = 0, ![s].slot = slot], shelf')
  /\ screen' = [screen EXCEPT ![s].sticky = FALSE]
  /\ Attended({s})
  /\ UNCHANGED <<frozen, hidden, opened, losses>>

\* Runtime::release: given back, an exhibit is the newest on the shelf again.
Release(s) ==
  /\ surfaces[s].owned /\ (GivesBackHidden \/ ~hidden)
  /\ LET exhibit == surfaces[s].posture = "Exhibit"
         row == IF exhibit THEN <<s>> \o shelf ELSE shelf
         entries == [surfaces EXCEPT ![s].owned = FALSE, ![s].life = "Live",
                                     ![s].aging = 0, ![s].cited = TRUE]
     IN  /\ surfaces' = Reflow(Minus(entries, Crowded(row)), Off(row, Crowded(row)))
         /\ shelf' = Off(row, Crowded(row))
         /\ Attended(Crowded(row) \cup {s})
         /\ screen' = Minus([screen EXCEPT ![s].sticky = exhibit], Crowded(row))
  /\ UNCHANGED <<frozen, hidden, opened, losses>>

-----------------------------------------------------------------------------
Dimming(surface) ==
  Transient(surface) /\ ~surface.cited /\ ~surface.hovered /\ surface.life = "Live"

\* Runtime::turn_ended: what the turn never mentioned dims.
TurnEnded ==
  /\ surfaces' = [s \in Open |->
       IF Dimming(surfaces[s])
       THEN [surfaces[s] EXCEPT !.cited = FALSE, !.life = "Dim", !.aging = 0]
       ELSE [surfaces[s] EXCEPT !.cited = FALSE]]
  /\ UNCHANGED <<shelf, frozen, hidden, screen, opened, unread, losses>>

ClocksRun == ~hidden /\ frozen = {}

Kept(surface) == surface.held /\ surface.holding < HoldCeiling

Aging(surface) == surface.life = "Dim" /\ ~surface.hovered

\* Runtime::sweep: one sweep older, or kept by its backend; spent panels retire.
Sweep ==
  /\ ClocksRun
  /\ LET aged == [s \in Open |->
           IF ~Aging(surfaces[s]) THEN surfaces[s]
           ELSE IF Kept(surfaces[s]) THEN [surfaces[s] EXCEPT !.holding = @ + 1]
           ELSE [surfaces[s] EXCEPT !.aging = @ + 1]]
         spent == {s \in Open : aged[s].aging >= Grace}
         running == {s \in Open : frozen = {} /\ ~surfaces[s].hovered
                                  /\ surfaces[s].life = "Dim" /\ ~Kept(surfaces[s])}
     IN  /\ surfaces' = IF spent = {} THEN aged ELSE Reflow(Minus(aged, spent), Off(shelf, spent))
         /\ shelf' = Off(shelf, spent)
         /\ screen' = Minus(screen, spent)
         /\ unread' = [s \in Labels |-> IF s \in running /\ s \notin spent /\ unread[s] < Grace
                                        THEN unread[s] + 1
                                        ELSE IF s \in spent THEN 0 ELSE unread[s]]
  /\ UNCHANGED <<frozen, hidden, opened, losses>>

\* Runtime::hover: there is one pointer, over one window at most.
Hover(s) ==
  /\ screen[s].up
  /\ surfaces' = [t \in Open |->
       IF t # s THEN [surfaces[t] EXCEPT !.hovered = FALSE]
       ELSE IF surfaces[s].life = "Dim"
            THEN [surfaces[s] EXCEPT !.hovered = TRUE, !.life = "Live", !.aging = 0]
            ELSE [surfaces[s] EXCEPT !.hovered = TRUE]]
  /\ Attended({s})
  /\ UNCHANGED <<shelf, frozen, hidden, screen, opened, losses>>

PointerLeaves ==
  /\ surfaces' = [t \in Open |-> [surfaces[t] EXCEPT !.hovered = FALSE]]
  /\ UNCHANGED <<shelf, frozen, hidden, screen, opened, unread, losses>>

\* Mutant: the count goes on from where the hold found it.
HoldPauses(surface, hold) ==
  [surface EXCEPT !.held = hold, !.holding = IF hold THEN @ ELSE 0]

\* Runtime::feed: each reading asks again to be kept, or ends it, and with it
\* the time spent before.
Reading(surface, hold) ==
  [surface EXCEPT !.held = hold, !.holding = IF hold THEN @ ELSE 0,
                  !.aging = IF surface.held /\ ~hold THEN 0 ELSE @]

Feed(s, hold) ==
  /\ ~surfaces[s].dead
  /\ surfaces' = [surfaces EXCEPT ![s] = Reading(surfaces[s], hold)]
  /\ Attended(IF surfaces[s].held /\ ~hold THEN {s} ELSE {})
  /\ UNCHANGED <<shelf, frozen, hidden, screen, opened, losses>>

\* Runtime::health: a dead backend keeps nothing.
BackendDies(s) ==
  /\ ~surfaces[s].dead
  /\ surfaces' = [surfaces EXCEPT ![s].dead = TRUE, ![s].held = FALSE,
                                 ![s].holding = 0, ![s].aging = 0]
  /\ Attended({s})
  /\ UNCHANGED <<shelf, frozen, hidden, screen, opened, losses>>

\* Cmd::Freeze: one reason begins or ends to hold.
Freeze(reason) ==
  /\ frozen' = IF reason \in frozen THEN frozen \ {reason} ELSE frozen \cup {reason}
  /\ UNCHANGED <<surfaces, shelf, hidden, screen, opened, unread, losses>>

\* Runtime::conceal, going down: nothing is retired.
LayerDown ==
  /\ ~hidden /\ hidden' = TRUE
  /\ screen' = [s \in Open |-> IF Transient(surfaces[s]) THEN [screen[s] EXCEPT !.up = FALSE]
                               ELSE screen[s]]
  /\ UNCHANGED <<surfaces, shelf, frozen, opened, unread, losses>>

\* Mutant: a window that comes back is not told which workspaces it is on.
NotToldAgain(shown) ==
  [s \in Open |-> IF s \in shown THEN [screen[s] EXCEPT !.up = TRUE] ELSE screen[s]]

\* The window manager forgets the state of a window that unmapped.
BroughtBack(shown) ==
  [s \in Open |-> IF s \in shown THEN [up |-> TRUE, sticky |-> TRUE] ELSE screen[s]]

\* Runtime::conceal, coming back; a window that will not come is retired.
LayerUp ==
  /\ hidden /\ hidden' = FALSE
  /\ \E lost \in SUBSET OnLayer(surfaces) :
       /\ \/ lost = {} /\ UNCHANGED losses
          \/ lost # {} /\ losses < MaxLost /\ losses' = losses + 1
       /\ IF lost = {} THEN UNCHANGED <<surfaces, shelf, unread>> ELSE Retire(lost, surfaces, shelf)
       /\ screen' = Minus(BroughtBack(OnLayer(surfaces)), lost)
  /\ UNCHANGED <<frozen, opened>>

-----------------------------------------------------------------------------
ShelfInit ==
  /\ surfaces = <<>> /\ shelf = <<>> /\ frozen = {} /\ hidden = FALSE
  /\ screen = <<>> /\ opened = 0 /\ unread = [s \in Labels |-> 0] /\ losses = 0

ShelfNext ==
  \/ \E height \in UNION Range(Heights) :
       OpenRefused(height) \/ \E posture \in {"Exhibit", "Instrument"} : OpenPanel(posture, height)
  \/ \E s \in Open : Dismissed(s) \/ Pin(s) \/ Release(s) \/ Hover(s)
  \/ \E s \in Open \cap Fed : BackendDies(s) \/ \E hold \in BOOLEAN : Feed(s, hold)
  \/ TurnEnded \/ Sweep \/ PointerLeaves \/ LayerDown \/ LayerUp
  \/ \E reason \in Stills : Freeze(reason)

\* The clock thread keeps sweeping.
ShelfSpec == ShelfInit /\ [][ShelfNext]_shelfVars /\ WF_shelfVars(Sweep)

-----------------------------------------------------------------------------
Slots ==
  [kind : {"Shelf"}, rank : 1..ShelfSlots]
    \cup [kind : {"Edge"}, corner : Range(Corners), reach : 0..EdgeReach]

PanelStates ==
  [posture : {"Exhibit", "Instrument"}, height : UNION Range(Heights), slot : Slots, owned : BOOLEAN,
   life : {"Live", "Dim", "Pinned"}, cited : BOOLEAN, hovered : BOOLEAN,
   aging : 0..Grace - 1, held : BOOLEAN, holding : 0..HoldCeiling, dead : BOOLEAN]

\* Every panel stands in a slot that exists, and every one has a window.
ShelfTypeOK ==
  /\ Open \subseteq 1..opened /\ \A s \in Open : surfaces[s] \in PanelStates
  /\ shelf \in Seq(Open) /\ frozen \subseteq Stills /\ hidden \in BOOLEAN
  /\ DOMAIN screen = Open /\ \A s \in Open : screen[s] \in [up : BOOLEAN, sticky : BOOLEAN]
  /\ opened \in 0..MaxOpens /\ unread \in [Labels -> 0..Grace] /\ losses \in 0..MaxLost

\* The shelf holds exactly the exhibits nobody pinned, each once and never
\* more than fit, and each stands in the column of its recency: through
\* crowding out, pinning, giving back and retiring (runtime.rs reflow).
ShelfInOrder ==
  /\ Range(shelf) = OnLayer(surfaces) /\ IsInjective(shelf) /\ Len(shelf) <= ShelfSlots
  /\ \A i \in DOMAIN shelf : surfaces[shelf[i]].slot = ShelfSlot(i)

\* No two panels are put in one place: in a column each clears the one before
\* it, and the two columns of a side do not meet (free_edge, claimed, reflow).
NothingOverlaps ==
  \A s, t \in {u \in Open : surfaces[u].slot.kind = "Edge"} :
    LET far(u) == surfaces[u].slot.reach + surfaces[u].height + Margin
    IN  s # t =>
          /\ surfaces[s].slot.corner = surfaces[t].slot.corner =>
               \/ surfaces[t].slot.reach >= far(s)
               \/ surfaces[s].slot.reach >= far(t)
          /\ surfaces[s].slot.corner = Facing[surfaces[t].slot.corner] =>
               far(s) + far(t) <= EdgeReach + Margin

\* The runtime's own panels are on the screen exactly while the layer is, and
\* are then on every workspace; the person's stand where they were put
\* (runtime.rs conceal, 905-911).
LayerFollowsPill ==
  \A s \in Open : /\ screen[s].up <=> ~(hidden /\ Transient(surfaces[s]))
                  /\ screen[s].up => (screen[s].sticky <=> Transient(surfaces[s]))

\* What the person kept leaves only by the person's own tick: no turn, no clock
\* and no newer panel takes it, nor the layer coming and going.  And the clock
\* retires a panel only after a whole grace of sweeps in which nobody had it
\* under the pointer, opened, pinned, gave back or still held it, and in none
\* of which Scufris spoke or listened (sweep, hover, feed, health).
LeavesByRight ==
  \A s \in Open \ Open' :
    /\ surfaces[s].owned => Dismissed(s)
    /\ opened' = opened /\ screen[s].up /\ ~surfaces[s].owned /\ ClocksRun
         => \/ surfaces[s].life = "Dim" /\ unread[s] + 1 >= Grace
            \/ Dismissed(s) \/ \E t \in Open : Release(t)

PanelsLeave == [][LeavesByRight]_shelfVars

\* A panel the conversation left does not stay for ever, whatever its backend
\* asks for, unless somebody looks at it or the clocks are stopped.
AgesOut ==
  \A s \in Labels, hold \in BOOLEAN :
    []<>~(s \in Open /\ ClocksRun /\ surfaces[s].life = "Dim" /\ ~surfaces[s].hovered
          /\ surfaces[s].held = hold)

\* Where the panels stand: the shelf is in the order of use, no two panels are
\* in one place, and the layer comes and goes with the pill and takes only its
\* own.
PanelsStand == ShelfTypeOK /\ ShelfInOrder /\ NothingOverlaps /\ LayerFollowsPill
=============================================================================
