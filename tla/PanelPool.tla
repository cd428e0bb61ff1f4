------------------------------- MODULE PanelPool -------------------------------
(****************************************************************************)
(* The warm shell windows a panel opens in (desktop/src/widgets/pool.rs,    *)
(* windows.rs) and the threads that open panels in them (mod.rs opening,    *)
(* perform): the link's, with a call of the service, and the one behind the *)
(* event loop, with a summon from the tray.  Each step below is one holding *)
(* of the pool's lock, or one turn.                                         *)
(****************************************************************************)
EXTENDS Naturals, FiniteSets, FiniteSetsExt, Sequences, SequencesExt, Functions

CONSTANTS
  WarmShells,   \* WARM_SHELLS
  MaxMinted,    \* labels minted
  Openers,      \* the threads that open panels
  MaxWoes       \* windows that cannot be built, or do not come up

ASSUME PoolAssumption == WarmShells \in Nat \ {0} /\ {MaxMinted, MaxWoes} \subseteq Nat

VARIABLES
  idle,       \* PoolState::idle
  channels,   \* PoolState::channels: the shells that can be told something
  loading,    \* PoolState::loading: TRUE once LOAD_PATIENCE has passed
  minted,     \* PoolState::minted
  named,      \* PoolState::named: the shells the display knows
  built,      \* the windows there are
  panels,     \* Runtime::surfaces: the shells holding a widget
  opener,     \* where each thread that opens a panel is, and its shell
  handed,     \* the shells ever taken
  woes

shells == <<idle, channels, loading, minted, named, built>>
pool == <<shells, panels, opener, handed, woes>>

Shells == 1..MaxMinted
NoShell == 0
Drop(entries, ids) == Restrict(entries, DOMAIN entries \ ids)

-----------------------------------------------------------------------------
\* Pool::warm: the shells that were given long enough to load.
StillLoading(waits) == Drop(waits, {l \in DOMAIN waits : waits[l]})

\* Pool::warm: as many as the pool is short of, within the labels there are.
Short(queue, waits) ==
  LET counted == Len(queue) + Cardinality(DOMAIN waits)
      wanted == IF counted >= WarmShells THEN 0 ELSE WarmShells - counted
  IN  Min({wanted, MaxMinted - minted})

\* Pool::warm, after the pool's queue became this one.
Warm(queue) ==
  LET waits == StillLoading(loading)
      wanted == minted + 1 .. minted + Short(queue, waits)
  IN  /\ idle' = queue /\ minted' = minted + Cardinality(wanted)
      /\ loading' = [l \in DOMAIN waits \cup wanted |-> l \in DOMAIN waits /\ waits[l]]

Replaced(queue) == Warm(queue)

\* What is left of the queue without some shells.
Keeping(queue, ids) ==
  IF ToSet(queue) \cap ids = {} THEN queue ELSE SelectSeq(queue, LAMBDA l : l \notin ids)

\* Pool::discard, of some shells: their windows go, and replacements start.
Discard(ids) ==
  /\ Replaced(Keeping(idle, ids))
  /\ channels' = channels \ ids /\ built' = built \ ids

\* windows::build: a hidden window, or none.
Builds(l) ==
  /\ l \in DOMAIN loading \ built
  /\ \/ built' = built \cup {l} /\ UNCHANGED <<loading, woes>>
     \/ /\ woes < MaxWoes /\ woes' = woes + 1
        /\ loading' = Drop(loading, {l}) /\ UNCHANGED built
  /\ UNCHANGED <<idle, channels, minted, named, panels, opener, handed>>

\* LOAD_PATIENCE passes over a shell whose page has not reported.
GrowsOverdue(l) ==
  /\ l \in DOMAIN loading \cap built /\ ~loading[l]
  /\ loading' = [loading EXCEPT ![l] = TRUE]
  /\ UNCHANGED <<idle, channels, minted, named, built, panels, opener, handed, woes>>

\* Mutant: whoever reports itself is ready to be taken.
AnyReport(l) == TRUE

FirstReport(l) == l \in DOMAIN loading /\ l \notin channels

\* Pool::ready: a page loaded, or loaded again.
Ready(l) ==
  /\ l \in built
  /\ channels' = channels \cup {l}
  /\ loading' = Drop(loading, {l})
  /\ idle' = IF FirstReport(l) THEN Append(idle, l) ELSE idle
  /\ UNCHANGED <<minted, named, built, panels, opener, handed, woes>>

-----------------------------------------------------------------------------
At(o, where, shell) == opener' = [opener EXCEPT ![o] = [at |-> where, shell |-> shell]]

\* Widgets::opening, of a widget the catalog has.
AsksToOpen(o) ==
  /\ opener[o].at = "rest"
  /\ At(o, "looking", NoShell)
  /\ UNCHANGED <<shells, panels, handed, woes>>

\* Pool::take: the first idle shell; one that cannot be told anything is
\* dropped and the next is looked at.
Takes(o) ==
  /\ opener[o].at = "looking" /\ idle # <<>> /\ idle' = Tail(idle)
  /\ IF Head(idle) \in channels
     THEN At(o, "refilling", Head(idle)) /\ handed' = handed \cup {Head(idle)}
     ELSE UNCHANGED <<opener, handed>>
  /\ UNCHANGED <<channels, loading, minted, named, built, panels, woes>>

\* The replacement is started at once, not at the next open.
Refills(o) ==
  /\ opener[o].at = "refilling"
  /\ Warm(idle) /\ At(o, "taken", opener[o].shell)
  /\ UNCHANGED <<channels, named, built, panels, handed, woes>>

FindsNone(o) ==
  /\ opener[o].at = "looking" /\ idle = <<>>
  /\ Warm(idle) /\ At(o, "dry", NoShell)
  /\ UNCHANGED <<channels, named, built, panels, handed, woes>>

\* After the warming: a shell came in meanwhile, or it waits for one to.
LooksAgain(o) ==
  /\ opener[o].at = "dry"
  /\ At(o, IF idle = <<>> THEN "waiting" ELSE "looking", NoShell)
  /\ UNCHANGED <<shells, panels, handed, woes>>

\* Woken by Pool::ready.
Woken(o) ==
  /\ opener[o].at = "waiting" /\ idle # <<>>
  /\ At(o, "looking", NoShell)
  /\ UNCHANGED <<shells, panels, handed, woes>>

OutOfTime(o) == opener[o].at \in {"dry", "waiting"} /\ idle = <<>>

\* WARM_WAIT is over with nothing to take: the open is refused.
GivesUp(o) ==
  /\ OutOfTime(o)
  /\ At(o, "rest", NoShell)
  /\ UNCHANGED <<shells, panels, handed, woes>>

-----------------------------------------------------------------------------
Unwanted(o) == Discard({opener[o].shell}) /\ named' = named \ {opener[o].shell}

\* Runtime::open and Act::Adopt under the turn, a crowded panel discarded.  A
\* window behind a layer that is down has no name on the display yet.
Adopts(o) ==
  /\ opener[o].at = "taken" /\ opener[o].shell \in built
  /\ \E out \in {ids \in SUBSET panels : Cardinality(ids) <= 1}, hidden \in BOOLEAN :
       /\ panels' = (panels \ out) \cup {opener[o].shell}
       /\ IF out = {} THEN UNCHANGED <<idle, loading, minted, channels, built>> ELSE Discard(out)
       /\ named' = (named \ out) \cup (IF hidden THEN {} ELSE {opener[o].shell})
  /\ At(o, "rest", NoShell)
  /\ UNCHANGED <<handed, woes>>

\* The runtime refuses the open, or the window never reaches the screen
\* (settle, Cmd::Lost): either way the shell is not used again.
Refused(o) ==
  /\ opener[o].at = "taken" /\ woes < MaxWoes /\ woes' = woes + 1
  /\ Unwanted(o) /\ At(o, "rest", NoShell)
  /\ UNCHANGED <<panels, handed>>

\* Act::Retire: closed by its tick, aged, or crowded out.
PanelRetires(l) ==
  /\ l \in panels /\ panels' = panels \ {l}
  /\ Discard({l}) /\ named' = named \ {l}
  /\ UNCHANGED <<opener, handed, woes>>

\* Act::Conceal, coming back: placed as the first time, and named.
PanelRaised(l) ==
  /\ l \in panels \ named
  /\ named' = named \cup {l}
  /\ UNCHANGED <<idle, channels, loading, minted, built, panels, opener, handed, woes>>

-----------------------------------------------------------------------------
\* Pool::new, and the first warming (Widgets::start).
PoolInit ==
  /\ idle = <<>> /\ channels = {} /\ named = {} /\ built = {} /\ panels = {} /\ handed = {}
  /\ minted = Min({WarmShells, MaxMinted}) /\ loading = [l \in 1..minted |-> FALSE]
  /\ opener = [o \in Openers |-> [at |-> "rest", shell |-> NoShell]] /\ woes = 0

Opening(o) ==
  \/ Takes(o) \/ Refills(o) \/ FindsNone(o) \/ LooksAgain(o) \/ Woken(o) \/ GivesUp(o)
  \/ Adopts(o) \/ Refused(o)

PoolNext ==
  \/ \E l \in Shells : \/ Builds(l) \/ GrowsOverdue(l) \/ Ready(l)
                       \/ PanelRetires(l) \/ PanelRaised(l)
  \/ \E o \in Openers : AsksToOpen(o) \/ Opening(o)

PoolSpec == PoolInit /\ [][PoolNext]_pool

\* A thread that opens a panel goes on, its wait ends, and the turn it needs
\* comes free.
PoolFairness == \A o \in Openers : WF_pool(Opening(o))

-----------------------------------------------------------------------------
Taken == {opener[o].shell : o \in Openers} \ {NoShell}

PoolTypeOK ==
  /\ idle \in Seq(Shells) /\ Len(idle) <= minted /\ DOMAIN loading \subseteq Shells /\ minted \in 0..MaxMinted
  /\ channels \cup named \cup built \cup panels \cup handed \subseteq Shells
  /\ \A o \in Openers : opener[o].at \in {"rest", "looking", "refilling", "dry", "waiting", "taken"}
  /\ woes \in 0..MaxWoes

\* A shell is used once: what was taken is never in the pool again, no two
\* openings and no two panels have the same one, and what waits or holds a
\* widget has a window that can be told something (pool.rs, "a label handed
\* out twice would let an update ... land on whatever took its place").
UsedOnce ==
  /\ IsInjective(idle) /\ (ToSet(idle) \cup DOMAIN loading) \cap handed = {}
  /\ \A o, p \in Openers : o # p => opener[o].shell = NoShell \/ opener[o].shell # opener[p].shell
  /\ panels \cap Taken = {}
  /\ ToSet(idle) \cup Taken \cup panels \subseteq built \cap channels
  /\ named \subseteq panels

\* The pool never holds more than it was asked to, loading ones counted
\* (warm, ready, "counted twice").
WarmIsEnough == Len(idle) + Cardinality(DOMAIN loading) <= WarmShells

\* Shells that were taken and are of no panel are gone from the screen: none
\* is left behind by an open that was refused, lost or crowded out.
NothingLeftOver == handed \cap built \subseteq panels \cup Taken

\* Whoever finds the pool empty leaves it with shells that may still load,
\* whatever pages died on the way before (LOAD_PATIENCE, "would leave the pool
\* unable to build anything again"); and whoever takes one, or throws one away,
\* leaves it full.
Refilled ==
  [][/\ \A o \in Openers : FindsNone(o) =>
          (\E l \in DOMAIN loading' : ~loading'[l]) \/ minted' = MaxMinted
     /\ (\E o \in Openers : Refills(o)) \/ (\E l \in panels : PanelRetires(l)) =>
          \/ Len(idle') + Cardinality(DOMAIN loading') = WarmShells
          \/ minted' = MaxMinted]_pool

\* Every open is answered: the wait for a shell ends (WARM_WAIT).
OpensEnd == \A o \in Openers : []<>(opener[o].at = "rest")

\* A shell whose page reports late is taken into the pool all the same
\* (pool.rs:197, "A shell the pool gave up waiting for is still welcome").
LateIsWelcome == built \cap channels \subseteq ToSet(idle) \cup Taken \cup panels

\* What the pool promises whoever opens a panel: a shell that was never used
\* before, no more of them than were asked for, and none left on the screen
\* when the open came to nothing.
PoolIsSound == UsedOnce /\ WarmIsEnough /\ NothingLeftOver
=============================================================================
