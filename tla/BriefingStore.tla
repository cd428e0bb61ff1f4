---------------------------- MODULE BriefingStore ----------------------------
(****************************************************************************)
(* The service-owned account of scheduled briefings                         *)
(* (host/service/src/briefings.rs), as operators over a store value.  The   *)
(* modules BriefingInbox and ProactiveDelivery hold one such value in       *)
(* memory and one on disk.                                                  *)
(*                                                                          *)
(* A run and its terminal event are one identity here: the producer names   *)
(* the event after the run, and upsert refuses an event that is queued for  *)
(* another run.  The queue is a set with the order "ahead" instead of a     *)
(* vector, so that removing an entry renumbers nothing.  The summary text   *)
(* and the run's labels are left out.                                       *)
(****************************************************************************)
EXTENDS Naturals, FiniteSets

CONSTANTS
  Runs,         \* generation identities, numbered in (since, id) order
  MaxRows,      \* MAX_BRIEFING_ROWS
  MaxSources,   \* bound on the measured source counts
  Outcomes      \* what a snapshot write can do: a subset of WriteOutcomes

WriteOutcomes == {"stored", "refused", "unsynced"}

ASSUME RunsAssumption == Runs \subseteq Nat \ {0} /\ IsFiniteSet(Runs)
ASSUME BoundsAssumption == MaxRows \in Nat \ {0} /\ MaxSources \in Nat
ASSUME OutcomesAssumption ==
         Outcomes \subseteq WriteOutcomes /\ "stored" \in Outcomes

Collections == {"collecting", "collected", "failed"}
Deliveries == {"absent", "pending", "in_progress", "failed", "delivered"}

Account == [collection : Collections, completed : 0..MaxSources,
            total : 0..MaxSources, failed : 0..MaxSources]

NoAccount == [collection |-> "collecting", completed |-> 0, total |-> 0,
              failed |-> 0]

Store == [delivery : [Runs -> Deliveries], account : [Runs -> Account],
          queue : SUBSET Runs, ahead : SUBSET (Runs \X Runs),
          dismissed : SUBSET Runs]

EmptyStore == [delivery |-> [r \in Runs |-> "absent"],
               account |-> [r \in Runs |-> NoAccount],
               queue |-> {}, ahead |-> {}, dismissed |-> {}]

-----------------------------------------------------------------------------
Retained(s) == {r \in Runs : s.delivery[r] # "absent"}

Active(s, r) == \/ s.account[r].collection = "collecting"
                \/ s.delivery[r] \in {"pending", "in_progress"}

Partial(s, r) == /\ s.account[r].collection = "collected"
                 /\ s.account[r].failed > 0

RequiresAttention(s, r) ==
  \/ s.delivery[r] = "failed"
  \/ /\ s.delivery[r] = "delivered"
     /\ s.account[r].collection = "failed" \/ Partial(s, r)

Dismissible(s, r) == /\ s.account[r].collection # "collecting"
                     /\ s.delivery[r] = "delivered"

Waiting(s) == {r \in s.queue : s.delivery[r] = "pending"}

\* BriefingStore::next: the first queued wake whose row is still pending.
IsNext(s, r) == /\ r \in Waiting(s)
                /\ \A o \in Waiting(s) : <<o, r>> \notin s.ahead

-----------------------------------------------------------------------------
Mark(s, R, d) ==
  [s EXCEPT !.delivery = [r \in Runs |-> IF r \in R THEN d ELSE @[r]]]

Enqueue(s, r) ==
  [s EXCEPT !.queue = @ \cup {r}, !.ahead = @ \cup (s.queue \X {r})]

Dequeue(s, R) ==
  [s EXCEPT !.queue = @ \ R,
            !.ahead = {p \in @ : p[1] \notin R /\ p[2] \notin R}]

\* The store after BriefingStore::open has read snapshot s: no model is
\* attached to this process, so a dispatched or stopped row is pending again.
Reopened(s) == Mark(s, {r \in Runs : s.delivery[r] \in {"in_progress", "failed"}},
                    "pending")

InProgress(s, r) == IF r \in s.queue THEN Mark(s, {r}, "in_progress") ELSE s

Retried(s, r) == IF r \in s.queue THEN Mark(s, {r}, "pending") ELSE s

\* fail_runs over the whole queue (queued_delivery_failed).
QueueFailed(s) ==
  Mark(s, {r \in s.queue : s.delivery[r] \in {"pending", "in_progress"}}, "failed")

ResumeStopped(s) ==
  Mark(s, {r \in Runs : s.delivery[r] \in {"failed", "in_progress"}}, "pending")

Acknowledged(s, r) == Dequeue(Mark(s, {r}, "delivered"), {r})

\* Mutant: recovery closes every queued wake, answered or not.
RecoversAll(s, replay) == Dequeue(Mark(s, s.queue, "delivered"), s.queue)

\* recover_delivered: every queued wake whose answer replay already holds.
Recovered(s, replay) ==
  Dequeue(Mark(s, s.queue \cap replay, "delivered"), s.queue \cap replay)

Dismissed(s, r) == [s EXCEPT !.dismissed = @ \cup {r}]

-----------------------------------------------------------------------------
Greater(a, b) == IF a >= b THEN a ELSE b
Lesser(a, b) == IF a <= b THEN a ELSE b

\* A generation update never moves a row backward.
MergeAccount(current, incoming) ==
  IF current.collection \in {"collecting", incoming.collection}
  THEN LET total == Greater(current.total, incoming.total)
           completed == Lesser(Greater(current.completed, incoming.completed), total)
       IN  [collection |-> incoming.collection, total |-> total,
            completed |-> completed,
            failed |-> Lesser(Greater(current.failed, incoming.failed), completed)]
  ELSE current

\* Mutant: the computed delivery state always replaces the stored one.
MovesBackward(s, r, incoming, delivered) ==
  [s EXCEPT !.delivery[r] = IF delivered THEN "delivered" ELSE "pending",
            !.account[r] = incoming]

MergeRow(s, r, incoming, delivered) ==
  IF s.delivery[r] = "absent"
  THEN [s EXCEPT !.delivery[r] = IF delivered THEN "delivered" ELSE "pending",
                 !.account[r] = incoming]
  ELSE [s EXCEPT !.delivery[r] = IF delivered THEN "delivered" ELSE @,
                 !.account[r] = MergeAccount(@, incoming)]

QueueWake(s, r, wake) ==
  IF wake /\ s.delivery[r] # "delivered" /\ r \notin s.queue
  THEN Enqueue(s, r) ELSE s

\* Mutant: a wake stays queued after its row was closed.
KeepsDeliveredWakes(s) == s

DropDeliveredWakes(s) ==
  Dequeue(s, {r \in s.queue : s.delivery[r] = "delivered"})

\* Mutant: a row that can still progress may be dropped.
EvictsUnsettled(s, r) ==
  s.delivery[r] # "absent" /\ (~RequiresAttention(s, r) \/ r \in s.dismissed)

\* Rows the bounded audit may drop: work that can still make progress and
\* attention nobody has dismissed are protected.
Evictable(s, r) ==
  \/ s.delivery[r] = "failed"
  \/ /\ s.delivery[r] = "delivered"
     /\ ~Active(s, r)
     /\ ~RequiresAttention(s, r) \/ r \in s.dismissed

Candidates(s) == {r \in Runs : Evictable(s, r)}

Removed(s, r) ==
  LET t == Dequeue(s, {r})
  IN  [t EXCEPT !.delivery[r] = "absent", !.account[r] = NoAccount,
                !.dismissed = @ \ {r}]

OverBound(s) == Cardinality(Retained(s)) > MaxRows

\* The oldest candidate yields.  One upsert adds at most one row, so one
\* eviction restores the bound.
Compacted(s) ==
  IF OverBound(s)
  THEN Removed(s, CHOOSE r \in Candidates(s) : \A o \in Candidates(s) : r <= o)
  ELSE s

Merged(s, r, incoming, wake, delivered) ==
  DropDeliveredWakes(QueueWake(MergeRow(s, r, incoming, delivered), r, wake))

\* upsert returns StoreError::Full and changes nothing.
UpsertFull(s, r, incoming, wake, delivered) ==
  LET m == Merged(s, r, incoming, wake, delivered)
  IN  OverBound(m) /\ Candidates(m) = {}

Upserted(s, r, incoming, wake, delivered) ==
  Compacted(Merged(s, r, incoming, wake, delivered))

-----------------------------------------------------------------------------
(* BriefingStore::persist rewrites the whole snapshot.  It is stored, or    *)
(* refused, or renamed into place with the directory sync failing: then     *)
(* disk has the new state and the caller rolls memory back.                 *)

\* Mutant: a failed write leaves memory changed.
NeverRollsBack(old, new, outcome) == new

InMemory(old, new, outcome) == IF outcome = "stored" THEN new ELSE old
OnDisk(old, new, outcome) == IF outcome = "refused" THEN old ELSE new

\* What BriefingStore::load accepts.  It rejects the whole file otherwise,
\* and the service then starts with no briefing state at all.
Loadable(s) ==
  /\ Cardinality(Retained(s)) <= 2 * MaxRows
  /\ \A r \in Retained(s) : /\ s.account[r].completed <= s.account[r].total
                            /\ s.account[r].failed <= s.account[r].completed
  /\ \A r \in s.queue : s.delivery[r] \notin {"absent", "delivered"}
  /\ \A r \in s.dismissed : r \in Retained(s) /\ Dismissible(s, r)
=============================================================================
