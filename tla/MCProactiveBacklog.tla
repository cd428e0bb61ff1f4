------------------------- MODULE MCProactiveBacklog -------------------------
(* Three runs wait, two of them generations of one date and profile, beside *)
(* a run imported as delivered: the circuit must tell a legitimate backlog  *)
(* from a repeat.                                                           *)
EXTENDS ProactiveDelivery

MCRuns == 1..4
TwoLabels == <<"daily", "weekly", "daily", "weekly">>
MCIncoming == {[collection |-> "collected", completed |-> 1, total |-> 1,
                failed |-> 0]}
=============================================================================
