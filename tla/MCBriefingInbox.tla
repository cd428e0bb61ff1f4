--------------------------- MODULE MCBriefingInbox ---------------------------
(* Three generations compete for two audit rows; a producer reports them    *)
(* with progress, with success, with one failed source and with a stale     *)
(* smaller count.                                                           *)
EXTENDS BriefingInbox

MCRuns == 1..3

Report(collection, completed, failed) ==
  [collection |-> collection, completed |-> completed, total |-> 2,
   failed |-> failed]

MCReports == {Report("collecting", 1, 0), Report("collecting", 1, 1),
               Report("collected", 2, 0), Report("failed", 2, 2)}
=============================================================================
