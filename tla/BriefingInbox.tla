---------------------------- MODULE BriefingInbox ----------------------------
(****************************************************************************)
(* The briefing store as the service drives it: what it holds in memory,    *)
(* the snapshot on disk, and a process that can stop between any two        *)
(* operations.  Every operation runs under the service lock.  Which         *)
(* operation is called when is left open; ProactiveDelivery closes that.    *)
(****************************************************************************)
EXTENDS BriefingStore

CONSTANT Reports   \* the accounts a producer can report, stale ones included

ASSUME ReportsAssumption ==
         Reports \subseteq {a \in Account : a.failed <= a.completed
                                             /\ a.completed <= a.total}

VARIABLES memory, snapshot

inboxVars == <<memory, snapshot>>

InboxInit == memory = EmptyStore /\ snapshot = EmptyStore

\* One fallible write: the operation's error path restores memory.
Write(new) == \E outcome \in Outcomes :
                /\ memory' = InMemory(memory, new, outcome)
                /\ snapshot' = OnDisk(snapshot, new, outcome)

\* An operation that found nothing to change returns before it writes.
WriteIfChanged(new) == new # memory /\ Write(new)

\* A wake comes with a terminal row; a row reported delivered has none.
Upsert(r, incoming, wake, delivered) ==
  /\ wake => incoming.collection # "collecting"
  /\ ~UpsertFull(memory, r, incoming, wake, delivered)
  /\ WriteIfChanged(Upserted(memory, r, incoming, wake, delivered))

Reserve(r) == r \in memory.queue /\ Write(InProgress(memory, r))

Retry(r) == r \in memory.queue /\ Write(Retried(memory, r))

StopQueue == WriteIfChanged(QueueFailed(memory))

Resume == WriteIfChanged(ResumeStopped(memory))

Acknowledge(r) == r \in memory.queue /\ Write(Acknowledged(memory, r))

Recover(replay) == memory.queue \cap replay # {} /\ Write(Recovered(memory, replay))

Dismiss(r) ==
  /\ r \in Retained(memory)
  /\ Dismissible(memory, r)
  /\ WriteIfChanged(Dismissed(memory, r))

\* The process ends and BriefingStore::open reads what disk holds.  A failed
\* write of the reopened rows is only logged.
Reopen ==
  LET opened == Reopened(snapshot)
  IN  /\ memory' = opened
      /\ \E outcome \in Outcomes :
           snapshot' = IF opened = snapshot THEN snapshot ELSE OnDisk(snapshot, opened, outcome)

InboxNext ==
  \/ \E r \in Runs, a \in Reports, wake, delivered \in BOOLEAN :
       Upsert(r, a, wake, delivered)
  \/ \E r \in Runs : \/ Reserve(r)
                     \/ Retry(r)
                     \/ Acknowledge(r)
                     \/ Recover({r})
                     \/ Dismiss(r)
  \/ StopQueue
  \/ Resume
  \/ Reopen

InboxSpec == InboxInit /\ [][InboxNext]_inboxVars

-----------------------------------------------------------------------------
\* Both copies of the store are well formed.
InboxTypeOK == memory \in Store /\ snapshot \in Store

\* Every snapshot that can be on disk is one BriefingStore::load accepts.
\* One that it rejects is moved aside and every queued briefing is lost.
DiskLoads == Loadable(snapshot)

\* A queued wake has exactly one way out: its row is retained, is not
\* delivered, and the queue orders it against every other queued wake.
QueueSound ==
  /\ \A r \in memory.queue : memory.delivery[r] \notin {"absent", "delivered"}
  /\ memory.ahead \subseteq memory.queue \X memory.queue
  /\ \A r, o \in memory.queue : r # o => (<<r, o>> \in memory.ahead) # (<<o, r>> \in memory.ahead)

\* The audit never exceeds its bound.
AuditBounded == Cardinality(Retained(memory)) <= MaxRows

\* A queued wake survives a crash at any point: disk has it queued too, or
\* records its delivery.  The one exception is a stopped row the bounded
\* audit dropped in a write whose directory sync then failed.
QueuedIsDurable ==
  \A r \in memory.queue :
    \/ r \in snapshot.queue
    \/ snapshot.delivery[r] = "delivered"
    \/ snapshot.delivery[r] = "absent" /\ memory.delivery[r] = "failed"

\* A delivered row never comes back as undelivered after a restart, so its
\* briefing is not sent to the model again.
DeliveredIsDurable ==
  \A r \in Runs : memory.delivery[r] = "delivered" =>
                    snapshot.delivery[r] \in {"delivered", "absent"}

\* While the process lives, no producer report, however stale, moves a row
\* back: delivery stays delivered, a finished collection keeps its result,
\* and the measured counts never shrink.
NeverBackward ==
  [][Reopen \/
     \A r \in Retained(memory) \cap Retained(memory') :
       /\ memory.delivery[r] = "delivered" => memory'.delivery[r] = "delivered"
       /\ memory.account[r].collection # "collecting" =>
            memory'.account[r].collection = memory.account[r].collection
       /\ memory'.account[r].completed >= memory.account[r].completed
       /\ memory'.account[r].total >= memory.account[r].total
       /\ memory'.account[r].failed >= memory.account[r].failed]_inboxVars

\* A row that leaves the audit was delivered and owed nobody attention, or
\* had been stopped by the circuit; work that can still progress never goes.
EvictsOnlySettled ==
  [][Reopen \/
     \A r \in Retained(memory) \ Retained(memory') :
       \/ memory.delivery[r] = "failed"
       \/ /\ memory.delivery[r] = "delivered" /\ ~Active(memory, r)
          /\ ~RequiresAttention(memory, r) \/ r \in memory.dismissed]_inboxVars
=============================================================================
