----------------------------- MODULE MCWidgetShelf -----------------------------
EXTENDS WidgetShelf, PanelPool

\* One side of the screen: a third panel fits it only when it is a small one.
OneSide == <<"TopRight", "BottomRight">>
Sizes == <<{1}, {1}, {1, 3}>>

\* Where the panels stand and which windows they are in share no state: the
\* runtime only carries the pool's labels.  So neither moves in a behaviour in
\* which the other does.
PanelsInit == ShelfInit /\ PoolInit

PanelsNext ==
  \/ ShelfNext /\ PoolInit /\ UNCHANGED pool
  \/ PoolNext /\ ShelfInit /\ UNCHANGED shelfVars

PanelsSpec ==
  PanelsInit /\ [][PanelsNext]_<<shelfVars, pool>> /\ WF_shelfVars(Sweep) /\ PoolFairness
=============================================================================
