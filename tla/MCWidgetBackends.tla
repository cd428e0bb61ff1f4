--------------------------- MODULE MCWidgetBackends ---------------------------
EXTENDS WidgetBackends

\* Two panels asking the same question, as shared widgets do.
OneQuestion == [s \in Surfaces |-> "q"]
=============================================================================
