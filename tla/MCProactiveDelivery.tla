------------------------ MODULE MCProactiveDelivery ------------------------
EXTENDS ProactiveDelivery

MCRuns == 1..2
\* Two generations of one date and profile: the runaway signature.
OneLabel == [r \in MCRuns |-> "daily"]
Report1(collection, completed) ==
  [collection |-> collection, completed |-> completed, total |-> 1, failed |-> 0]
MCIncoming == {Report1("collected", 1)}
=============================================================================
