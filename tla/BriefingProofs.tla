--------------------------- MODULE BriefingProofs ---------------------------
(****************************************************************************)
(* What the briefing store and proactive delivery promise, for any runs and *)
(* labels, any audit bound, any limit and any failing writes.               *)
(*                                                                          *)
(* First what each operation of the store returns: a store, which rows and  *)
(* queue entries it leaves alone, and that it takes a sound store to a sound*)
(* store that "evolves" from it.  Write then leaves memory and disk at the  *)
(* old and the new store in one of three combinations, and the durability   *)
(* properties of BriefingInbox are read off Evolves: the only combination   *)
(* that disagrees has memory at the old store and disk at the new one.      *)
(* ProactiveDelivery follows: of the slot, the queue and the runaway        *)
(* circuit, then of the answers.                                            *)
(****************************************************************************)
EXTENDS ProactiveDelivery, BriefingInbox, TLAPS, WellFoundedInduction, FiniteSetTheorems

-----------------------------------------------------------------------------
(* The operations of the store.                                             *)

\* Marking rows with a delivery state changes no queue and no other row
\* (in_progress, retry, fail_runs and resume_stopped are all marks).
LEMMA MarkFacts ==
  ASSUME NEW s \in Store, NEW R, NEW d \in Deliveries
  PROVE  /\ Mark(s, R, d) \in Store
         /\ Mark(s, R, d).queue = s.queue
         /\ Mark(s, R, d).account = s.account
         /\ \A r \in Runs : Mark(s, R, d).delivery[r] = IF r \in R THEN d ELSE s.delivery[r]
  BY DEF Mark, Store

\* Appending an event keeps the store typed and queues exactly that run.
LEMMA EnqueueFacts ==
  ASSUME NEW s \in Store, NEW r \in Runs
  PROVE  /\ Enqueue(s, r) \in Store
         /\ Enqueue(s, r).queue = s.queue \cup {r}
         /\ Enqueue(s, r).delivery = s.delivery
         /\ Enqueue(s, r).account = s.account
  BY DEF Enqueue, Store

\* Closing events keeps the store typed and takes only those runs off.
LEMMA DequeueFacts ==
  ASSUME NEW s \in Store, NEW R
  PROVE  /\ Dequeue(s, R) \in Store
         /\ Dequeue(s, R).queue = s.queue \ R
         /\ Dequeue(s, R).delivery = s.delivery
         /\ Dequeue(s, R).account = s.account
  BY DEF Dequeue, Store

\* upsert merges two accounts into an account, every count within its bounds.
LEMMA MergeAccountType ==
  ASSUME NEW a \in Account, NEW b \in Account
  PROVE  MergeAccount(a, b) \in Account
  BY BoundsAssumption DEF MergeAccount, Account, Greater, Lesser, Collections

\* Merging a report touches the reported row only and never takes a delivered
\* row back.
LEMMA MergeRowFacts ==
  ASSUME NEW s \in Store, NEW r \in Runs, NEW a \in Account, NEW delivered \in BOOLEAN
  PROVE  /\ MergeRow(s, r, a, delivered) \in Store
         /\ MergeRow(s, r, a, delivered).queue = s.queue
         /\ \A o \in Runs \ {r} : MergeRow(s, r, a, delivered).delivery[o] = s.delivery[o]
         /\ MergeRow(s, r, a, delivered).delivery[r] =
              IF delivered THEN "delivered"
              ELSE IF s.delivery[r] = "absent" THEN "pending" ELSE s.delivery[r]
  <1>1. MergeAccount(s.account[r], a) \in Account
    BY MergeAccountType DEF Store
  <1> QED
    BY <1>1 DEF MergeRow, Store, Deliveries

\* Before the audit bound is applied, upsert keeps every other row and queues at
\* most the reported run.
LEMMA MergedFacts ==
  ASSUME NEW s \in Store, NEW r \in Runs, NEW a \in Account,
         NEW wake \in BOOLEAN, NEW delivered \in BOOLEAN
  PROVE  LET m == Merged(s, r, a, wake, delivered)
             row == MergeRow(s, r, a, delivered)
         IN  /\ m \in Store
             /\ m.delivery = row.delivery /\ m.account = row.account
             /\ m.queue = {o \in s.queue \cup (IF wake THEN {r} ELSE {}) :
                            row.delivery[o] # "delivered"}
  <1> DEFINE row == MergeRow(s, r, a, delivered)
             q == QueueWake(row, r, wake)
  <1>1. row \in Store /\ row.queue = s.queue
    BY MergeRowFacts
  <1>2. q \in Store /\ q.delivery = row.delivery /\ q.account = row.account
    BY <1>1, EnqueueFacts DEF QueueWake
  <1>3. q.queue = s.queue \cup (IF wake /\ row.delivery[r] # "delivered" THEN {r} ELSE {})
    BY <1>1, EnqueueFacts DEF QueueWake
  <1>4. Merged(s, r, a, wake, delivered) = Dequeue(q, {o \in q.queue : q.delivery[o] = "delivered"})
    BY DEF Merged, DropDeliveredWakes
  <1> HIDE DEF row, q
  <1>5. /\ Merged(s, r, a, wake, delivered) \in Store
        /\ Merged(s, r, a, wake, delivered).delivery = q.delivery
        /\ Merged(s, r, a, wake, delivered).account = q.account
        /\ Merged(s, r, a, wake, delivered).queue
             = q.queue \ {o \in q.queue : q.delivery[o] = "delivered"}
    BY <1>2, <1>4, DequeueFacts
  <1>6. Merged(s, r, a, wake, delivered).queue
          = {o \in s.queue \cup (IF wake THEN {r} ELSE {}) : row.delivery[o] # "delivered"}
    BY <1>2, <1>3, <1>5
  <1> QED
    BY <1>2, <1>5, <1>6 DEF row

\* Dropping a row from the audit drops it from the queue too.
LEMMA RemovedFacts ==
  ASSUME NEW s \in Store, NEW r
  PROVE  /\ Removed(s, r) \in Store
         /\ Removed(s, r).queue = s.queue \ {r}
         /\ \A o \in Runs : /\ Removed(s, r).delivery[o] = IF o = r THEN "absent" ELSE s.delivery[o]
                            /\ o # r => Removed(s, r).account[o] = s.account[o]
  <1>1. NoAccount \in Account /\ "absent" \in Deliveries
    BY BoundsAssumption DEF NoAccount, Account, Collections, Deliveries
  <1> DEFINE t == Dequeue(s, {r})
  <1>2. /\ t \in Store /\ t.queue = s.queue \ {r}
        /\ t.delivery = s.delivery /\ t.account = s.account
    BY DequeueFacts
  <1>3. Removed(s, r) = [t EXCEPT !.delivery[r] = "absent", !.account[r] = NoAccount,
                                  !.dismissed = @ \ {r}]
    BY DEF Removed
  <1> HIDE DEF t
  <1>4. PICK d \in [Runs -> Deliveries], a \in [Runs -> Account], q \in SUBSET Runs,
             h \in SUBSET (Runs \X Runs), x \in SUBSET Runs :
          t = [delivery |-> d, account |-> a, queue |-> q, ahead |-> h, dismissed |-> x]
    BY <1>2 DEF Store
  <1>5. Removed(s, r) = [delivery |-> [d EXCEPT ![r] = "absent"],
                         account |-> [a EXCEPT ![r] = NoAccount],
                         queue |-> q, ahead |-> h, dismissed |-> x \ {r}]
    BY <1>3, <1>4
  <1>6. /\ [d EXCEPT ![r] = "absent"] \in [Runs -> Deliveries]
        /\ [a EXCEPT ![r] = NoAccount] \in [Runs -> Account]
        /\ \A o \in Runs : /\ [d EXCEPT ![r] = "absent"][o] = IF o = r THEN "absent" ELSE d[o]
                           /\ o # r => [a EXCEPT ![r] = NoAccount][o] = a[o]
    BY <1>1
  <1>7. d = s.delivery /\ a = s.account /\ q = s.queue \ {r}
    BY <1>2, <1>4
  <1>8. Removed(s, r) \in Store
    BY <1>4, <1>5, <1>6 DEF Store
  <1>9. /\ Removed(s, r).queue = q
        /\ \A o \in Runs : /\ Removed(s, r).delivery[o] = [d EXCEPT ![r] = "absent"][o]
                           /\ Removed(s, r).account[o] = [a EXCEPT ![r] = NoAccount][o]
    BY <1>5
  <1>10. \A o \in Runs : /\ Removed(s, r).delivery[o] = IF o = r THEN "absent" ELSE s.delivery[o]
                         /\ o # r => Removed(s, r).account[o] = s.account[o]
    BY <1>6, <1>7, <1>9
  <1> QED
    BY <1>7, <1>8, <1>9, <1>10

\* The audit has an oldest candidate, so the row it drops is one it may drop.
LEMMA OldestCandidate ==
  ASSUME NEW s, Candidates(s) # {}
  PROVE  LET x == CHOOSE r \in Candidates(s) : \A o \in Candidates(s) : r <= o
         IN  x \in Runs /\ Evictable(s, x)
  <1>1. Candidates(s) \subseteq Nat
    BY RunsAssumption DEF Candidates
  <1> DEFINE Less == {p \in Nat \X Nat : p[1] < p[2]}
  <1>2. IsWellFoundedOn(Less, Nat)
    BY NatLessThanWellFounded DEF OpToRel
  <1> HIDE DEF Less
  <1>3. PICK x \in Candidates(s) : \A o \in Candidates(s) : <<o, x>> \notin Less
    BY <1>1, <1>2, WFMin
  <1>4. ASSUME NEW o \in Candidates(s) PROVE x <= o
    <2>1. x \in Nat /\ o \in Nat /\ <<o, x>> \notin Less
      BY <1>1, <1>3
    <2>2. ~(o < x)
      BY <2>1 DEF Less
    <2> QED
      BY <2>1, <2>2
  <1>5. \E r \in Candidates(s) : \A o \in Candidates(s) : r <= o
    BY <1>4
  <1>6. (CHOOSE r \in Candidates(s) : \A o \in Candidates(s) : r <= o) \in Candidates(s)
    BY <1>5, Zenon
  <1> DEFINE c == CHOOSE r \in Candidates(s) : \A o \in Candidates(s) : r <= o
  <1> HIDE DEF c
  <1>7. c \in Runs /\ Evictable(s, c)
    <2>1. c \in Candidates(s)
      BY <1>6 DEF c
    <2> QED
      BY <2>1 DEF Candidates
  <1> QED
    BY <1>7 DEF c

\* Applying MAX_BRIEFING_ROWS drops only rows that failed or were delivered.
LEMMA CompactedFacts ==
  ASSUME NEW m \in Store, OverBound(m) => Candidates(m) # {}
  PROVE  /\ Compacted(m) \in Store
         /\ \A o \in Runs :
              \/ /\ Compacted(m).delivery[o] = m.delivery[o]
                 /\ Compacted(m).account[o] = m.account[o]
                 /\ o \in Compacted(m).queue <=> o \in m.queue
              \/ /\ Compacted(m).delivery[o] = "absent" /\ o \notin Compacted(m).queue
                 /\ m.delivery[o] \in {"failed", "delivered"}
  <1>1. CASE ~OverBound(m)
    BY <1>1 DEF Compacted
  <1>2. CASE OverBound(m)
    <2> DEFINE c == CHOOSE r \in Candidates(m) : \A o \in Candidates(m) : r <= o
    <2>1. c \in Runs /\ Evictable(m, c)
      BY <1>2, OldestCandidate
    <2>2. Compacted(m) = Removed(m, c)
      BY <1>2 DEF Compacted
    <2> HIDE DEF c
    <2>3. m.delivery[c] \in {"failed", "delivered"}
      BY <2>1 DEF Evictable
    <2>4. /\ Removed(m, c) \in Store /\ Removed(m, c).queue = m.queue \ {c}
          /\ \A o \in Runs : /\ Removed(m, c).delivery[o] = IF o = c THEN "absent" ELSE m.delivery[o]
                             /\ o # c => Removed(m, c).account[o] = m.account[o]
      BY RemovedFacts
    <2> QED
      BY <2>2, <2>3, <2>4
  <1> QED
    BY <1>1, <1>2

\* What a report may do to the queue and to a dispatched row: it queues only
\* the run it reports, leaves nothing queued that is closed, and takes a
\* dispatched run off the queue only by closing that run.
LEMMA UpsertedFacts ==
  ASSUME NEW s \in Store, NEW r \in Runs, NEW a \in Account,
         NEW wake \in BOOLEAN, NEW delivered \in BOOLEAN,
         ~UpsertFull(s, r, a, wake, delivered),
         \A o \in s.queue : s.delivery[o] \in {"pending", "in_progress", "failed"}
  PROVE  LET u == Upserted(s, r, a, wake, delivered)
         IN  /\ u \in Store
             /\ \A o \in u.queue : /\ o \in s.queue \/ (o = r /\ wake /\ ~delivered)
                                  /\ u.delivery[o] \in {"pending", "in_progress", "failed"}
             /\ \A o \in Runs : u.delivery[o] = "in_progress" =>
                  /\ s.delivery[o] = "in_progress"
                  /\ o \in s.queue => o \in u.queue
             /\ \A o \in s.queue : s.delivery[o] = "in_progress" =>
                  IF o \in u.queue THEN u.delivery[o] = "in_progress" ELSE o = r /\ delivered
  <1> DEFINE m == Merged(s, r, a, wake, delivered)
             row == MergeRow(s, r, a, delivered)
             u == Upserted(s, r, a, wake, delivered)
  <1>1. /\ m \in Store /\ m.delivery = row.delivery
        /\ m.queue = {o \in s.queue \cup (IF wake THEN {r} ELSE {}) :
                         row.delivery[o] # "delivered"}
    BY MergedFacts
  <1>2. /\ \A o \in Runs \ {r} : row.delivery[o] = s.delivery[o]
        /\ row.delivery[r] = IF delivered THEN "delivered"
                             ELSE IF s.delivery[r] = "absent" THEN "pending" ELSE s.delivery[r]
    BY MergeRowFacts
  <1>3. u = Compacted(m) /\ (OverBound(m) => Candidates(m) # {})
    BY DEF Upserted, UpsertFull
  <1>4. s.queue \subseteq Runs /\ m.queue \subseteq Runs /\ s.delivery \in [Runs -> Deliveries]
    BY <1>1 DEF Store
  <1> HIDE DEF m, row, u
  <1>5. /\ u \in Store
        /\ \A o \in Runs :
              \/ u.delivery[o] = row.delivery[o] /\ (o \in u.queue <=> o \in m.queue)
              \/ /\ u.delivery[o] = "absent" /\ o \notin u.queue
                 /\ row.delivery[o] \in {"failed", "delivered"}
    BY <1>1, <1>3, CompactedFacts
  <1>6. u.queue \subseteq Runs
    BY <1>5 DEF Store
  <1>7. s.delivery[r] \in {"absent", "pending", "in_progress", "failed", "delivered"}
    BY <1>4 DEF Deliveries
  <1>8. ASSUME NEW o \in u.queue
        PROVE  /\ o \in s.queue \/ (o = r /\ wake /\ ~delivered)
               /\ u.delivery[o] \in {"pending", "in_progress", "failed"}
    BY <1>1, <1>2, <1>5, <1>6, <1>7
  <1>9. ASSUME NEW o \in Runs, u.delivery[o] = "in_progress"
        PROVE  s.delivery[o] = "in_progress" /\ (o \in s.queue => o \in u.queue)
    BY <1>1, <1>2, <1>5, <1>9
  <1>10. ASSUME NEW o \in s.queue, s.delivery[o] = "in_progress"
         PROVE  IF o \in u.queue THEN u.delivery[o] = "in_progress" ELSE o = r /\ delivered
    BY <1>1, <1>2, <1>4, <1>5, <1>10
  <1> QED
    BY <1>5, <1>8, <1>9, <1>10 DEF u

\* A report closes no row but the one it reports as delivered.
LEMMA UpsertedCloses ==
  ASSUME NEW s \in Store, NEW r \in Runs, NEW a \in Account,
         NEW wake \in BOOLEAN, NEW delivered \in BOOLEAN,
         ~UpsertFull(s, r, a, wake, delivered), NEW o \in Runs,
         Upserted(s, r, a, wake, delivered).delivery[o] = "delivered"
  PROVE  s.delivery[o] = "delivered" \/ (o = r /\ delivered)
  <1> DEFINE m == Merged(s, r, a, wake, delivered)
  <1>1. m \in Store /\ m.delivery = MergeRow(s, r, a, delivered).delivery
    BY MergedFacts
  <1>2. Upserted(s, r, a, wake, delivered) = Compacted(m) /\ (OverBound(m) => Candidates(m) # {})
    BY DEF Upserted, UpsertFull
  <1> HIDE DEF m
  <1>3. m.delivery[o] = "delivered"
    BY <1>1, <1>2, CompactedFacts
  <1> QED
    BY <1>1, <1>3, MergeRowFacts

-----------------------------------------------------------------------------
\* The operations that only mark rows.
LEMMA QueueFailedFacts ==
  ASSUME NEW s \in Store
  PROVE  /\ QueueFailed(s) \in Store /\ QueueFailed(s).queue = s.queue
         /\ \A r \in Runs : QueueFailed(s).delivery[r] =
              IF r \in s.queue /\ s.delivery[r] \in {"pending", "in_progress"}
              THEN "failed" ELSE s.delivery[r]
  BY MarkFacts DEF QueueFailed, Deliveries

\* An owner's resume makes every stopped row pending again.
LEMMA ResumeStoppedFacts ==
  ASSUME NEW s \in Store
  PROVE  /\ ResumeStopped(s) \in Store /\ ResumeStopped(s).queue = s.queue
         /\ \A r \in Runs : ResumeStopped(s).delivery[r] =
              IF s.delivery[r] \in {"failed", "in_progress"} THEN "pending" ELSE s.delivery[r]
  BY MarkFacts DEF ResumeStopped, Deliveries

\* BriefingStore::open makes rows that were in progress or failed pending again.
LEMMA ReopenedFacts ==
  ASSUME NEW s \in Store
  PROVE  /\ Reopened(s) \in Store /\ Reopened(s).queue = s.queue
         /\ \A r \in Runs : Reopened(s).delivery[r] =
              IF s.delivery[r] \in {"failed", "in_progress"} THEN "pending" ELSE s.delivery[r]
  BY MarkFacts DEF Reopened, Deliveries

\* Reserving a row marks it and leaves the queue alone.
LEMMA InProgressFacts ==
  ASSUME NEW s \in Store, NEW r \in s.queue
  PROVE  /\ InProgress(s, r) \in Store /\ InProgress(s, r).queue = s.queue
         /\ \A o \in Runs : InProgress(s, r).delivery[o] =
              IF o = r THEN "in_progress" ELSE s.delivery[o]
  BY MarkFacts DEF InProgress, Deliveries

\* Retrying a row marks it pending and leaves the queue alone.
LEMMA RetriedFacts ==
  ASSUME NEW s \in Store, NEW r \in s.queue
  PROVE  /\ Retried(s, r) \in Store /\ Retried(s, r).queue = s.queue
         /\ \A o \in Runs : Retried(s, r).delivery[o] =
              IF o = r THEN "pending" ELSE s.delivery[o]
  BY MarkFacts DEF Retried, Deliveries

\* The two operations that close events: acknowledge and recover_delivered.
LEMMA ClosedFacts ==
  ASSUME NEW s \in Store, NEW R
  PROVE  LET t == Dequeue(Mark(s, R, "delivered"), R)
         IN  /\ t \in Store /\ t.queue = s.queue \ R
             /\ \A r \in Runs : t.delivery[r] = IF r \in R THEN "delivered" ELSE s.delivery[r]
  <1>1. Mark(s, R, "delivered") \in Store
    BY MarkFacts DEF Deliveries
  <1> QED
    BY <1>1, MarkFacts, DequeueFacts DEF Deliveries

-----------------------------------------------------------------------------
(* What the snapshot promises, and how one operation may change it. *)

\* Every queued wake is still owed.
Open(s) == \A r \in s.queue : s.delivery[r] \notin {"absent", "delivered"}

\* The queue is one line: of two queued wakes exactly one is ahead.
Ordered(s) ==
  /\ s.ahead \subseteq s.queue \X s.queue
  /\ \A r, o \in s.queue : r # o => (<<r, o>> \in s.ahead) # (<<o, r>> \in s.ahead)

\* Failed sources are completed ones, completed ones were asked for.
Counted(s) == \A r \in Runs : /\ s.account[r].failed <= s.account[r].completed
                              /\ s.account[r].completed <= s.account[r].total

\* Only settled rows are dismissed.
Settled(s) == \A r \in s.dismissed : Dismissible(s, r)

Sound(s) == s \in Store /\ Open(s) /\ Ordered(s) /\ Counted(s) /\ Settled(s)

Bounded(s) == Cardinality(Retained(s)) <= MaxRows

\* A retained row may only move forward.
Forward(s, t, r) ==
  /\ s.delivery[r] = "delivered" => t.delivery[r] = "delivered"
  /\ s.account[r].collection # "collecting" =>
       t.account[r].collection = s.account[r].collection
  /\ t.account[r].completed >= s.account[r].completed
  /\ t.account[r].total >= s.account[r].total
  /\ t.account[r].failed >= s.account[r].failed

\* How one operation may change a store: a wake leaves the queue delivered, or
\* with its stopped row; rows go forward; only evictable rows go away.
Evolves(s, t) ==
  \A r \in Runs :
    /\ r \in s.queue => \/ r \in t.queue
                        \/ t.delivery[r] = "delivered"
                        \/ t.delivery[r] = "absent" /\ s.delivery[r] = "failed"
    /\ r \in Retained(s) \cap Retained(t) => Forward(s, t, r)
    /\ r \in Retained(s) \ Retained(t) => Evictable(s, r)

\* A producer counts failed sources among the completed, completed among all.
Measured(a) == a \in Account /\ a.failed <= a.completed /\ a.completed <= a.total

-----------------------------------------------------------------------------
\* The fields of a store have their types.
LEMMA StoreFields ==
  ASSUME NEW s \in Store
  PROVE  /\ s.queue \subseteq Runs /\ s.dismissed \subseteq Runs
         /\ s.delivery \in [Runs -> Deliveries] /\ s.account \in [Runs -> Account]
         /\ \A r \in Runs : /\ s.account[r].completed \in Nat
                            /\ s.account[r].total \in Nat
                            /\ s.account[r].failed \in Nat
                            /\ s.account[r].collection \in Collections
  BY BoundsAssumption DEF Store, Account

\* The audit is finite, so its size is a number.
LEMMA RetainedFinite ==
  ASSUME NEW s
  PROVE  IsFiniteSet(Retained(s)) /\ Cardinality(Retained(s)) \in Nat
  <1>1. Retained(s) \subseteq Runs
    BY DEF Retained
  <1> QED
    BY <1>1, RunsAssumption, FS_Subset, FS_CardinalityType

\* A store evolves from itself: a refused or rolled back write loses nothing.
LEMMA EvolvesReflexive ==
  ASSUME NEW s \in Store
  PROVE  Evolves(s, s)
  BY StoreFields DEF Evolves, Forward

\* A mark that stays among the unsettled states and moves no settled row keeps
\* the store sound (in_progress, retry, fail_runs, resume_stopped, open).
LEMMA MarkSound ==
  ASSUME NEW s, Sound(s), Bounded(s),
         NEW R, \A r \in R : r \in Runs => s.delivery[r] \notin {"absent", "delivered"},
         NEW d \in {"pending", "in_progress", "failed"}
  PROVE  Sound(Mark(s, R, d)) /\ Bounded(Mark(s, R, d)) /\ Evolves(s, Mark(s, R, d))
  <1> DEFINE t == Mark(s, R, d)
  <1>1. /\ t \in Store /\ t.queue = s.queue /\ t.account = s.account
        /\ \A r \in Runs : t.delivery[r] = IF r \in R THEN d ELSE s.delivery[r]
    BY MarkFacts DEF Deliveries, Sound
  <1>2. t.ahead = s.ahead /\ t.dismissed = s.dismissed
    BY DEF Mark, Sound, Store
  <1> HIDE DEF t
  <1>3. s \in Store /\ Open(s) /\ Ordered(s) /\ Counted(s) /\ Settled(s)
    BY DEF Sound
  <1>4. s.queue \subseteq Runs /\ s.dismissed \subseteq Runs
    BY <1>3, StoreFields
  <1>5. Open(t)
    BY <1>1, <1>3, <1>4 DEF Open
  <1>6. Ordered(t) /\ Counted(t)
    BY <1>1, <1>2, <1>3 DEF Ordered, Counted
  <1>7. Settled(t)
    BY <1>1, <1>2, <1>3, <1>4 DEF Settled, Dismissible
  <1>8. Retained(t) = Retained(s)
    BY <1>1 DEF Retained
  <1>9. Evolves(s, t)
    BY <1>1, <1>3, <1>8, StoreFields DEF Evolves, Forward
  <1> QED
    BY <1>1, <1>5, <1>6, <1>7, <1>8, <1>9 DEF Sound, Bounded, t

\* Taking wakes off the queue leaves the others in line.
LEMMA DequeueOrdered ==
  ASSUME NEW s \in Store, Ordered(s), NEW R
  PROVE  /\ Ordered(Dequeue(s, R))
         /\ Dequeue(s, R).dismissed = s.dismissed
  <1>1. /\ Dequeue(s, R).ahead = {p \in s.ahead : p[1] \notin R /\ p[2] \notin R}
        /\ Dequeue(s, R).queue = s.queue \ R
        /\ Dequeue(s, R).dismissed = s.dismissed
    BY DEF Dequeue, Store
  <1> QED
    BY <1>1 DEF Ordered

\* Closing queued wakes as delivered (acknowledge, recover_delivered).
LEMMA CloseSound ==
  ASSUME NEW s, Sound(s), Bounded(s), NEW R \in SUBSET s.queue
  PROVE  LET t == Dequeue(Mark(s, R, "delivered"), R)
         IN  Sound(t) /\ Bounded(t) /\ Evolves(s, t)
  <1> DEFINE m == Mark(s, R, "delivered")
             t == Dequeue(m, R)
  <1>1. s \in Store /\ Open(s) /\ Ordered(s) /\ Counted(s) /\ Settled(s)
    BY DEF Sound
  <1>2. s.queue \subseteq Runs /\ s.dismissed \subseteq Runs /\ R \subseteq Runs
    BY <1>1, StoreFields
  <1>3. /\ m \in Store /\ m.queue = s.queue /\ m.account = s.account
        /\ m.ahead = s.ahead /\ m.dismissed = s.dismissed
        /\ \A r \in Runs : m.delivery[r] = IF r \in R THEN "delivered" ELSE s.delivery[r]
    <2>1. m.ahead = s.ahead /\ m.dismissed = s.dismissed
      BY <1>1 DEF Mark, Store
    <2> QED
      BY <1>1, <2>1, MarkFacts DEF Deliveries
  <1> HIDE DEF m
  <1>4. Ordered(m)
    BY <1>1, <1>3 DEF Ordered
  <1>5. /\ t \in Store /\ t.queue = s.queue \ R /\ t.account = s.account
        /\ t.delivery = m.delivery /\ t.dismissed = s.dismissed /\ Ordered(t)
    BY <1>3, <1>4, DequeueFacts, DequeueOrdered
  <1> HIDE DEF t
  <1>6. Open(t) /\ Counted(t) /\ Settled(t)
    BY <1>1, <1>2, <1>3, <1>5 DEF Open, Counted, Settled, Dismissible
  <1>7. Retained(t) = Retained(s)
    BY <1>1, <1>2, <1>3, <1>5 DEF Retained, Open
  <1>8. Evolves(s, t)
    BY <1>1, <1>2, <1>3, <1>5, <1>7, StoreFields DEF Evolves, Forward
  <1> QED
    BY <1>5, <1>6, <1>7, <1>8 DEF Sound, Bounded, t, m

\* Dismissing a settled row.
LEMMA DismissSound ==
  ASSUME NEW s, Sound(s), Bounded(s), NEW r \in Runs, Dismissible(s, r)
  PROVE  Sound(Dismissed(s, r)) /\ Bounded(Dismissed(s, r)) /\ Evolves(s, Dismissed(s, r))
  <1> DEFINE t == Dismissed(s, r)
  <1>1. s \in Store /\ Open(s) /\ Ordered(s) /\ Counted(s) /\ Settled(s)
    BY DEF Sound
  <1>2. /\ t \in Store /\ t.queue = s.queue /\ t.ahead = s.ahead
        /\ t.account = s.account /\ t.delivery = s.delivery
        /\ t.dismissed = s.dismissed \cup {r}
    BY <1>1 DEF Dismissed, Store
  <1> HIDE DEF t
  <1>3. Retained(t) = Retained(s)
    BY <1>2 DEF Retained
  <1>4. Open(t) /\ Ordered(t) /\ Counted(t)
    BY <1>1, <1>2 DEF Open, Ordered, Counted
  <1>5. Settled(t)
    BY <1>1, <1>2 DEF Settled, Dismissible
  <1>6. Evolves(s, t)
    BY <1>1, <1>2, <1>3, StoreFields DEF Evolves, Forward
  <1> QED
    BY <1>2, <1>3, <1>4, <1>5, <1>6 DEF Sound, Bounded, t

-----------------------------------------------------------------------------
\* Merging two counted accounts goes forward from the current one.
LEMMA MergeAccountForward ==
  ASSUME NEW c \in Account, c.failed <= c.completed, c.completed <= c.total,
         NEW a \in Account, a.failed <= a.completed, a.completed <= a.total
  PROVE  LET m == MergeAccount(c, a)
         IN  /\ m.failed <= m.completed /\ m.completed <= m.total
             /\ m.completed >= c.completed /\ m.total >= c.total /\ m.failed >= c.failed
             /\ c.collection # "collecting" => m.collection = c.collection
  BY BoundsAssumption DEF MergeAccount, Account, Greater, Lesser, Collections

\* Merging a report changes only the reported row, and takes it forward.
LEMMA MergeRowForward ==
  ASSUME NEW s, Sound(s), NEW r \in Runs, NEW a, Measured(a), NEW delivered \in BOOLEAN
  PROVE  LET t == MergeRow(s, r, a, delivered)
         IN  /\ t \in Store /\ t.queue = s.queue
             /\ t.ahead = s.ahead /\ t.dismissed = s.dismissed
             /\ \A o \in Runs \ {r} : /\ t.delivery[o] = s.delivery[o]
                                      /\ t.account[o] = s.account[o]
             /\ r \in Retained(t)
             /\ t.delivery[r] = "delivered" <=> delivered \/ s.delivery[r] = "delivered"
             /\ r \in Retained(s) => Forward(s, t, r)
             /\ Counted(t)
  <1> DEFINE t == MergeRow(s, r, a, delivered)
             n == MergeAccount(s.account[r], a)
  <1>1. s \in Store /\ Counted(s)
    BY DEF Sound
  <1>2. a \in Account /\ a.failed <= a.completed /\ a.completed <= a.total
    BY DEF Measured
  <1>3. /\ s.account[r] \in Account
        /\ s.account[r].failed <= s.account[r].completed
        /\ s.account[r].completed <= s.account[r].total
    BY <1>1 DEF Store, Counted
  <1>4. /\ n.failed <= n.completed /\ n.completed <= n.total
        /\ n.completed >= s.account[r].completed /\ n.total >= s.account[r].total
        /\ n.failed >= s.account[r].failed
        /\ s.account[r].collection # "collecting" => n.collection = s.account[r].collection
    BY <1>2, <1>3, MergeAccountForward
  <1>5. /\ t \in Store /\ t.queue = s.queue
        /\ \A o \in Runs \ {r} : t.delivery[o] = s.delivery[o]
        /\ t.delivery[r] = IF delivered THEN "delivered"
                           ELSE IF s.delivery[r] = "absent" THEN "pending" ELSE s.delivery[r]
    BY <1>1, <1>2, MergeRowFacts
  <1> HIDE DEF n
  <1>6. /\ t.ahead = s.ahead /\ t.dismissed = s.dismissed
        /\ t.account = [s.account EXCEPT ![r] = IF s.delivery[r] = "absent" THEN a ELSE n]
    BY <1>1 DEF MergeRow, Store, n
  <1> HIDE DEF t
  <1>7. \A o \in Runs : t.account[o] = IF o # r THEN s.account[o]
                                       ELSE IF s.delivery[r] = "absent" THEN a ELSE n
    BY <1>1, <1>6, StoreFields
  <1>8. Counted(t)
    BY <1>1, <1>2, <1>4, <1>7 DEF Counted
  <1>9. r \in Retained(t)
    BY <1>5 DEF Retained
  <1>10. r \in Retained(s) => Forward(s, t, r)
    BY <1>4, <1>5, <1>7 DEF Retained, Forward
  <1> QED
    BY <1>5, <1>6, <1>7, <1>8, <1>9, <1>10 DEF t

\* A new wake joins the end of the line.
LEMMA QueueWakeOrdered ==
  ASSUME NEW s \in Store, Ordered(s), NEW r \in Runs, NEW wake \in BOOLEAN
  PROVE  LET q == QueueWake(s, r, wake)
         IN  /\ q \in Store /\ Ordered(q)
             /\ q.delivery = s.delivery /\ q.account = s.account /\ q.dismissed = s.dismissed
  <1>1. CASE ~(wake /\ s.delivery[r] # "delivered" /\ r \notin s.queue)
    BY <1>1 DEF QueueWake
  <1>2. CASE wake /\ s.delivery[r] # "delivered" /\ r \notin s.queue
    <2> DEFINE q == Enqueue(s, r)
    <2>1. /\ q \in Store /\ q.queue = s.queue \cup {r}
          /\ q.delivery = s.delivery /\ q.account = s.account
      BY EnqueueFacts
    <2>2. q.ahead = s.ahead \cup (s.queue \X {r}) /\ q.dismissed = s.dismissed
      BY DEF Enqueue, Store
    <2>3. QueueWake(s, r, wake) = q
      BY <1>2 DEF QueueWake
    <2> HIDE DEF q
    <2>4. q.ahead \subseteq q.queue \X q.queue
      BY <2>1, <2>2 DEF Ordered
    <2>5. ASSUME NEW x \in q.queue, NEW y \in q.queue, x # y
          PROVE  (<<x, y>> \in q.ahead) # (<<y, x>> \in q.ahead)
      <3>1. /\ <<x, y>> \in q.ahead <=> <<x, y>> \in s.ahead \/ (x \in s.queue /\ y = r)
            /\ <<y, x>> \in q.ahead <=> <<y, x>> \in s.ahead \/ (y \in s.queue /\ x = r)
        BY <2>2
      <3>2. \A u, v : <<u, v>> \in s.ahead => u \in s.queue /\ v \in s.queue
        BY DEF Ordered
      <3>3. CASE x \in s.queue /\ y \in s.queue
        BY <1>2, <2>5, <3>1, <3>3 DEF Ordered
      <3>4. CASE x = r \/ y = r
        BY <1>2, <2>1, <2>5, <3>1, <3>2, <3>4
      <3> QED
        BY <2>1, <3>3, <3>4
    <2> QED
      BY <2>1, <2>2, <2>3, <2>4, <2>5 DEF Ordered
  <1> QED
    BY <1>1, <1>2

\* Before the audit bound is applied, a report takes a sound store to a sound
\* one in which only the reported row differs and may be new.
LEMMA MergedSound ==
  ASSUME NEW s, Sound(s), NEW r \in Runs, NEW a, Measured(a),
         NEW wake \in BOOLEAN, NEW delivered \in BOOLEAN
  PROVE  LET m == Merged(s, r, a, wake, delivered)
         IN  /\ Sound(m) /\ Evolves(s, m)
             /\ \A o \in Runs \ {r} : /\ m.delivery[o] = s.delivery[o]
                                      /\ m.account[o] = s.account[o]
             /\ m.dismissed = s.dismissed
             /\ Retained(m) = Retained(s) \cup {r}
  <1> DEFINE row == MergeRow(s, r, a, delivered)
             q == QueueWake(row, r, wake)
             m == Merged(s, r, a, wake, delivered)
  <1>1. s \in Store /\ Open(s) /\ Ordered(s) /\ Counted(s) /\ Settled(s)
    BY DEF Sound
  <1>2. /\ row \in Store /\ row.queue = s.queue
        /\ row.ahead = s.ahead /\ row.dismissed = s.dismissed
        /\ \A o \in Runs \ {r} : row.delivery[o] = s.delivery[o] /\ row.account[o] = s.account[o]
        /\ r \in Retained(row)
        /\ row.delivery[r] = "delivered" <=> delivered \/ s.delivery[r] = "delivered"
        /\ r \in Retained(s) => Forward(s, row, r)
        /\ Counted(row)
    BY MergeRowForward
  <1>3. m = Dequeue(q, {o \in q.queue : q.delivery[o] = "delivered"})
    BY DEF Merged, DropDeliveredWakes
  <1>4. a \in Account
    BY DEF Measured
  <1>5. /\ m.delivery = row.delivery
        /\ m.queue = {o \in s.queue \cup (IF wake THEN {r} ELSE {}) :
                        row.delivery[o] # "delivered"}
    BY <1>1, <1>4, MergedFacts
  <1> HIDE DEF row
  <1>6. Ordered(row)
    BY <1>1, <1>2 DEF Ordered
  <1>7. /\ q \in Store /\ Ordered(q) /\ q.delivery = row.delivery
        /\ q.account = row.account /\ q.dismissed = row.dismissed
    BY <1>2, <1>6, QueueWakeOrdered
  <1> HIDE DEF q, m
  <1>8. m \in Store /\ Ordered(m) /\ m.account = row.account /\ m.dismissed = s.dismissed
    BY <1>2, <1>3, <1>7, DequeueFacts, DequeueOrdered
  <1>9. s.queue \subseteq Runs /\ s.dismissed \subseteq Runs
    BY <1>1, StoreFields
  <1>10. Open(m)
    BY <1>1, <1>2, <1>5, <1>9 DEF Open, Retained
  <1>11. Counted(m)
    BY <1>2, <1>8 DEF Counted
  <1>12. Settled(m)
    <2>1. ASSUME NEW o \in s.dismissed, o # r PROVE Dismissible(m, o)
      BY <1>1, <1>2, <1>5, <1>8, <1>9, <2>1 DEF Settled, Dismissible
    <2>2. ASSUME r \in s.dismissed PROVE Dismissible(m, r)
      <3>1. s.delivery[r] = "delivered" /\ s.account[r].collection # "collecting"
        BY <1>1, <2>2 DEF Settled, Dismissible
      <3>2. Forward(s, row, r)
        BY <1>2, <3>1 DEF Retained
      <3> QED
        BY <1>5, <1>8, <3>1, <3>2 DEF Forward, Dismissible
    <2> QED
      BY <1>8, <2>1, <2>2 DEF Settled
  <1>13. Retained(m) = Retained(s) \cup {r}
    BY <1>2, <1>5 DEF Retained
  <1>14. Evolves(s, m)
    <2>1. ASSUME NEW o \in Runs, o \in Retained(s) PROVE Forward(s, m, o)
      <3>1. CASE o = r
        BY <1>2, <1>5, <1>8, <2>1, <3>1 DEF Forward
      <3>2. CASE o # r
        BY <1>1, <1>2, <1>5, <1>8, <3>2, StoreFields DEF Forward
      <3> QED
        BY <3>1, <3>2
    <2>2. ASSUME NEW o \in s.queue PROVE o \in m.queue \/ m.delivery[o] = "delivered"
      BY <1>5, <2>2
    <2> QED
      BY <1>13, <2>1, <2>2 DEF Evolves
  <1> QED
    BY <1>2, <1>5, <1>8, <1>10, <1>11, <1>12, <1>13, <1>14 DEF Sound, m

\* Dropping an evictable row leaves a sound store.
LEMMA RemovedSound ==
  ASSUME NEW m, Sound(m), NEW c \in Runs, Evictable(m, c)
  PROVE  LET t == Removed(m, c)
         IN  /\ Sound(t)
             /\ t.queue = m.queue \ {c}
             /\ \A o \in Runs \ {c} : t.delivery[o] = m.delivery[o] /\ t.account[o] = m.account[o]
             /\ Retained(t) = Retained(m) \ {c}
             /\ c \in Retained(m)
  <1> DEFINE d == Dequeue(m, {c})
             t == Removed(m, c)
  <1>1. m \in Store /\ Open(m) /\ Ordered(m) /\ Counted(m) /\ Settled(m)
    BY DEF Sound
  <1>2. /\ d \in Store /\ Ordered(d) /\ d.account = m.account
        /\ d.queue = m.queue \ {c} /\ d.dismissed = m.dismissed
    BY <1>1, DequeueFacts, DequeueOrdered
  <1>3. /\ t \in Store /\ t.queue = m.queue \ {c}
        /\ \A o \in Runs : /\ t.delivery[o] = IF o = c THEN "absent" ELSE m.delivery[o]
                           /\ o # c => t.account[o] = m.account[o]
    BY <1>1, RemovedFacts
  <1>4. t = [d EXCEPT !.delivery[c] = "absent", !.account[c] = NoAccount,
                      !.dismissed = @ \ {c}]
    BY DEF Removed
  <1> HIDE DEF d, t
  <1>5. /\ t.ahead = d.ahead /\ t.dismissed = m.dismissed \ {c}
        /\ t.account = [m.account EXCEPT ![c] = NoAccount]
    BY <1>2, <1>4 DEF Store
  <1>6. \A o \in Runs : t.account[o] = IF o = c THEN NoAccount ELSE m.account[o]
    BY <1>1, <1>5, StoreFields
  <1>7. m.queue \subseteq Runs /\ m.dismissed \subseteq Runs
    BY <1>1, StoreFields
  <1>8. Open(t) /\ Ordered(t)
    BY <1>1, <1>2, <1>3, <1>5, <1>7 DEF Open, Ordered
  <1>9. Counted(t)
    BY <1>1, <1>6 DEF Counted, NoAccount
  <1>10. Settled(t)
    BY <1>1, <1>3, <1>5, <1>6, <1>7 DEF Settled, Dismissible
  <1>11. Retained(t) = Retained(m) \ {c} /\ c \in Retained(m)
    BY <1>3 DEF Retained, Evictable
  <1> QED
    BY <1>3, <1>6, <1>8, <1>9, <1>10, <1>11 DEF Sound, t

\* A report the store accepts keeps it sound and within MAX_BRIEFING_ROWS, and
\* evicts at most one older row, which was settled or stopped.
LEMMA UpsertedSound ==
  ASSUME NEW s, Sound(s), Bounded(s), NEW r \in Runs, NEW a, Measured(a),
         NEW wake \in BOOLEAN, NEW delivered \in BOOLEAN,
         ~UpsertFull(s, r, a, wake, delivered)
  PROVE  LET t == Upserted(s, r, a, wake, delivered)
         IN  Sound(t) /\ Bounded(t) /\ Evolves(s, t)
  <1> DEFINE m == Merged(s, r, a, wake, delivered)
             t == Upserted(s, r, a, wake, delivered)
             c == CHOOSE x \in Candidates(m) : \A o \in Candidates(m) : x <= o
  <1>1. /\ Sound(m) /\ Evolves(s, m)
        /\ \A o \in Runs \ {r} : m.delivery[o] = s.delivery[o] /\ m.account[o] = s.account[o]
        /\ m.dismissed = s.dismissed
        /\ Retained(m) = Retained(s) \cup {r}
    BY MergedSound
  <1>2. t = Compacted(m) /\ (OverBound(m) => Candidates(m) # {})
    BY DEF Upserted, UpsertFull
  <1> HIDE DEF m
  <1>3. /\ IsFiniteSet(Retained(s)) /\ Cardinality(Retained(s)) \in Nat
        /\ IsFiniteSet(Retained(m)) /\ Cardinality(Retained(m)) \in Nat
        /\ MaxRows \in Nat
    BY RetainedFinite, BoundsAssumption
  <1>4. CASE ~OverBound(m)
    <2>1. t = m
      BY <1>2, <1>4 DEF Compacted
    <2>2. Bounded(m)
      BY <1>3, <1>4 DEF OverBound, Bounded
    <2> QED
      BY <1>1, <2>1, <2>2
  <1>5. CASE OverBound(m)
    <2>1. c \in Runs /\ Evictable(m, c)
      BY <1>2, <1>5, OldestCandidate
    <2>2. t = Removed(m, c)
      BY <1>2, <1>5 DEF Compacted
    <2> HIDE DEF c, t
    <2>3. /\ Sound(t) /\ t.queue = m.queue \ {c}
          /\ \A o \in Runs \ {c} : t.delivery[o] = m.delivery[o] /\ t.account[o] = m.account[o]
          /\ Retained(t) = Retained(m) \ {c}
          /\ c \in Retained(m)
      BY <1>1, <2>1, <2>2, RemovedSound
    <2>4. r \notin Retained(s)
      <3>1. SUFFICES ASSUME r \in Retained(s) PROVE FALSE
        OBVIOUS
      <3>2. Retained(m) = Retained(s)
        BY <1>1, <3>1
      <3> QED
        BY <1>3, <1>5, <3>2 DEF OverBound, Bounded
    <2>5. Cardinality(Retained(m)) = Cardinality(Retained(s)) + 1
      BY <1>1, <1>3, <2>4, FS_AddElement
    <2>6. Cardinality(Retained(t)) = Cardinality(Retained(m)) - 1
      BY <1>3, <2>3, FS_RemoveElement
    <2>7. Bounded(t)
      BY <1>3, <2>5, <2>6 DEF Bounded
    <2>8. c # r => Evictable(s, c) /\ s.delivery[c] = m.delivery[c]
      BY <1>1, <2>1 DEF Evictable, Active, RequiresAttention, Partial
    <2>9. ASSUME NEW o \in s.queue
          PROVE  \/ o \in t.queue
                 \/ t.delivery[o] = "delivered"
                 \/ t.delivery[o] = "absent" /\ s.delivery[o] = "failed"
      <3>1. o \in Runs /\ s.delivery[o] \notin {"absent", "delivered"}
        BY <2>9, StoreFields DEF Sound, Open
      <3>2. o # r /\ m.delivery[o] = s.delivery[o]
        BY <1>1, <2>4, <3>1 DEF Retained
      <3>3. o \in m.queue
        BY <1>1, <2>9, <3>1, <3>2 DEF Evolves
      <3>4. CASE o # c
        BY <2>3, <3>3, <3>4
      <3>5. CASE o = c
        <4>1. s.delivery[o] = "failed"
          BY <2>8, <3>1, <3>2, <3>5 DEF Evictable
        <4>2. t.delivery[o] = "absent"
          BY <2>3, <3>1, <3>5 DEF Retained
        <4> QED
          BY <4>1, <4>2
      <3> QED
        BY <3>4, <3>5
    <2>10. ASSUME NEW o \in Runs, o \in Retained(s) \cap Retained(t)
           PROVE  Forward(s, t, o)
      <3>1. o # c /\ o \in Retained(m)
        BY <2>3, <2>10
      <3>2. Forward(s, m, o)
        BY <1>1, <2>10, <3>1 DEF Evolves
      <3> QED
        BY <2>3, <3>1, <3>2 DEF Forward
    <2>11. ASSUME NEW o \in Runs, o \in Retained(s) \ Retained(t)
           PROVE  Evictable(s, o)
      <3>1. o = c
        BY <1>1, <2>3, <2>11
      <3> QED
        BY <2>4, <2>8, <2>11, <3>1
    <2>12. Evolves(s, t)
      BY <2>9, <2>10, <2>11 DEF Evolves
    <2> QED
      BY <2>3, <2>7, <2>12 DEF t
  <1> QED
    BY <1>4, <1>5

-----------------------------------------------------------------------------
(* The inbox: the store as the service drives it.                           *)

\* The inductive invariant: both copies are sound and within the bound, and
\* disk has lost nothing memory owes or has delivered.
InboxInv == /\ Sound(memory) /\ Bounded(memory)
        /\ Sound(snapshot) /\ Bounded(snapshot)
        /\ QueuedIsDurable /\ DeliveredIsDurable

-----------------------------------------------------------------------------
\* One fallible write keeps the invariant: stored or refused, the two copies
\* agree or stay as they were; unsynced, disk is one operation ahead.
LEMMA WriteSafe ==
  ASSUME InboxInv, NEW new, Sound(new), Bounded(new), Evolves(memory, new), Write(new)
  PROVE  InboxInv' /\ Evolves(memory, memory')
  <1>1. PICK outcome \in Outcomes : /\ memory' = InMemory(memory, new, outcome)
                                    /\ snapshot' = OnDisk(snapshot, new, outcome)
    BY DEF Write
  <1>2. memory \in Store /\ new \in Store /\ Evolves(memory, memory)
    BY EvolvesReflexive DEF InboxInv, Sound
  <1>3. CASE outcome = "stored"
    <2>1. memory' = new /\ snapshot' = new
      BY <1>1, <1>3 DEF InMemory, OnDisk
    <2>2. QueuedIsDurable' /\ DeliveredIsDurable'
      BY <2>1 DEF QueuedIsDurable, DeliveredIsDurable
    <2> QED
      BY <2>1, <2>2 DEF InboxInv
  <1>4. CASE outcome = "refused"
    <2>1. memory' = memory /\ snapshot' = snapshot
      BY <1>1, <1>4 DEF InMemory, OnDisk
    <2> QED
      BY <1>2, <2>1 DEF InboxInv, QueuedIsDurable, DeliveredIsDurable
  <1>5. CASE outcome = "unsynced"
    <2>1. memory' = memory /\ snapshot' = new
      BY <1>1, <1>5 DEF InMemory, OnDisk
    <2>2. memory.queue \subseteq Runs
      BY <1>2, StoreFields
    <2>3. QueuedIsDurable'
      BY <2>1, <2>2 DEF Evolves, QueuedIsDurable
    <2>4. DeliveredIsDurable'
      BY <2>1 DEF Evolves, Forward, Retained, DeliveredIsDurable
    <2> QED
      BY <1>2, <2>1, <2>3, <2>4 DEF InboxInv
  <1> QED
    BY <1>3, <1>4, <1>5, OutcomesAssumption DEF WriteOutcomes

\* Every operation evolves memory and keeps the invariant.
LEMMA OperationSafe ==
  ASSUME InboxInv, InboxNext, ~Reopen
  PROVE  InboxInv' /\ Evolves(memory, memory')
  <1>1. /\ Sound(memory) /\ Bounded(memory) /\ memory \in Store /\ Open(memory)
        /\ memory.queue \subseteq Runs
    BY StoreFields DEF InboxInv, Sound
  <1>2. ASSUME NEW r \in Runs, NEW a \in Reports, NEW wake \in BOOLEAN,
               NEW delivered \in BOOLEAN, Upsert(r, a, wake, delivered)
        PROVE  InboxInv' /\ Evolves(memory, memory')
    <2>1. Measured(a)
      BY ReportsAssumption DEF Measured
    <2> QED
      BY <1>1, <1>2, <2>1, UpsertedSound, WriteSafe DEF Upsert, WriteIfChanged
  <1>3. ASSUME NEW r \in Runs, Reserve(r)
        PROVE  InboxInv' /\ Evolves(memory, memory')
    <2>1. InProgress(memory, r) = Mark(memory, {r}, "in_progress") /\ Write(InProgress(memory, r))
      BY <1>3 DEF Reserve, InProgress
    <2>2. memory.delivery[r] \notin {"absent", "delivered"}
      BY <1>1, <1>3 DEF Reserve, Open
    <2> QED
      BY <1>1, <2>1, <2>2, MarkSound, WriteSafe
  <1>4. ASSUME NEW r \in Runs, Retry(r)
        PROVE  InboxInv' /\ Evolves(memory, memory')
    <2>1. Retried(memory, r) = Mark(memory, {r}, "pending") /\ Write(Retried(memory, r))
      BY <1>4 DEF Retry, Retried
    <2>2. memory.delivery[r] \notin {"absent", "delivered"}
      BY <1>1, <1>4 DEF Retry, Open
    <2> QED
      BY <1>1, <2>1, <2>2, MarkSound, WriteSafe
  <1>5. ASSUME NEW r \in Runs, Acknowledge(r)
        PROVE  InboxInv' /\ Evolves(memory, memory')
    <2>1. {r} \in SUBSET memory.queue /\ Write(Acknowledged(memory, r))
      BY <1>5 DEF Acknowledge
    <2>2. Acknowledged(memory, r) = Dequeue(Mark(memory, {r}, "delivered"), {r})
      BY DEF Acknowledged
    <2> QED
      BY <1>1, <2>1, <2>2, CloseSound, WriteSafe
  <1>6. ASSUME NEW r \in Runs, Recover({r})
        PROVE  InboxInv' /\ Evolves(memory, memory')
    <2> DEFINE R == memory.queue \cap {r}
    <2>1. R \in SUBSET memory.queue /\ Write(Recovered(memory, {r}))
      BY <1>6 DEF Recover
    <2>2. Recovered(memory, {r}) = Dequeue(Mark(memory, R, "delivered"), R)
      BY DEF Recovered
    <2> HIDE DEF R
    <2> QED
      BY <1>1, <2>1, <2>2, CloseSound, WriteSafe
  <1>7. ASSUME NEW r \in Runs, Dismiss(r)
        PROVE  InboxInv' /\ Evolves(memory, memory')
    BY <1>1, <1>7, DismissSound, WriteSafe DEF Dismiss, WriteIfChanged
  <1>8. ASSUME StopQueue
        PROVE  InboxInv' /\ Evolves(memory, memory')
    <2> DEFINE R == {r \in memory.queue : memory.delivery[r] \in {"pending", "in_progress"}}
    <2>1. QueueFailed(memory) = Mark(memory, R, "failed") /\ Write(QueueFailed(memory))
      BY <1>8 DEF StopQueue, WriteIfChanged, QueueFailed
    <2>2. \A r \in R : r \in Runs => memory.delivery[r] \notin {"absent", "delivered"}
      OBVIOUS
    <2> HIDE DEF R
    <2> QED
      BY <1>1, <2>1, <2>2, MarkSound, WriteSafe
  <1>9. ASSUME Resume
        PROVE  InboxInv' /\ Evolves(memory, memory')
    <2> DEFINE R == {r \in Runs : memory.delivery[r] \in {"failed", "in_progress"}}
    <2>1. ResumeStopped(memory) = Mark(memory, R, "pending") /\ Write(ResumeStopped(memory))
      BY <1>9 DEF Resume, WriteIfChanged, ResumeStopped
    <2>2. \A r \in R : r \in Runs => memory.delivery[r] \notin {"absent", "delivered"}
      OBVIOUS
    <2> HIDE DEF R
    <2> QED
      BY <1>1, <2>1, <2>2, MarkSound, WriteSafe
  <1> QED
    BY <1>2, <1>3, <1>4, <1>5, <1>6, <1>7, <1>8, <1>9 DEF InboxNext

\* Restarting takes both copies from disk.
LEMMA RestartSafe ==
  ASSUME InboxInv, Reopen
  PROVE  InboxInv'
  <1> DEFINE R == {r \in Runs : snapshot.delivery[r] \in {"in_progress", "failed"}}
             opened == Reopened(snapshot)
  <1>1. opened = Mark(snapshot, R, "pending")
    BY DEF Reopened
  <1>2. \A r \in R : r \in Runs => snapshot.delivery[r] \notin {"absent", "delivered"}
    OBVIOUS
  <1> HIDE DEF R
  <1>3. Sound(opened) /\ Bounded(opened) /\ snapshot \in Store
    BY <1>1, <1>2, MarkSound DEF InboxInv, Sound
  <1>4. /\ opened.queue = snapshot.queue
        /\ \A r \in Runs : opened.delivery[r] = "delivered" => snapshot.delivery[r] = "delivered"
    BY <1>3, ReopenedFacts
  <1>5. memory' = opened /\ snapshot' \in {snapshot, opened}
    BY DEF Reopen, OnDisk
  <1> HIDE DEF opened
  <1>6. Sound(memory') /\ Bounded(memory') /\ Sound(snapshot') /\ Bounded(snapshot')
    BY <1>3, <1>5 DEF InboxInv
  <1>7. QueuedIsDurable' /\ DeliveredIsDurable'
    BY <1>4, <1>5 DEF QueuedIsDurable, DeliveredIsDurable
  <1> QED
    BY <1>6, <1>7 DEF InboxInv

\* The service starts with no briefing state.
LEMMA InitSafe ==
  ASSUME InboxInit
  PROVE  InboxInv
  <1>1. EmptyStore \in Store
    BY BoundsAssumption DEF EmptyStore, Store, NoAccount, Account, Collections, Deliveries
  <1>2. Retained(EmptyStore) = {}
    BY DEF Retained, EmptyStore
  <1>3. Bounded(EmptyStore)
    BY <1>2, BoundsAssumption, FS_EmptySet DEF Bounded
  <1>4. Sound(EmptyStore)
    BY <1>1 DEF Sound, Open, Ordered, Counted, Settled, EmptyStore, NoAccount
  <1>5. QueuedIsDurable /\ DeliveredIsDurable
    BY DEF InboxInit, QueuedIsDurable, DeliveredIsDurable, EmptyStore
  <1> QED
    BY <1>3, <1>4, <1>5 DEF InboxInit, InboxInv

-----------------------------------------------------------------------------
\* The inductive invariant holds of every behaviour of the inbox.
THEOREM InboxInvariant == InboxSpec => []InboxInv
  <1>1. InboxInit => InboxInv
    BY InitSafe
  <1>2. InboxInv /\ [InboxNext]_inboxVars => InboxInv'
    <2> SUFFICES ASSUME InboxInv, [InboxNext]_inboxVars PROVE InboxInv'
      OBVIOUS
    <2>1. CASE InboxNext
      BY <2>1, OperationSafe, RestartSafe
    <2>2. CASE UNCHANGED inboxVars
      BY <2>2 DEF inboxVars, InboxInv, QueuedIsDurable, DeliveredIsDurable
    <2> QED
      BY <2>1, <2>2
  <1> QED
    BY <1>1, <1>2, PTL DEF InboxSpec

\* Both copies of the store stay well formed.
THEOREM InboxTyped == InboxSpec => []InboxTypeOK
  <1>1. InboxInv => InboxTypeOK
    BY DEF InboxInv, Sound, InboxTypeOK
  <1> QED
    BY <1>1, InboxInvariant, PTL

\* No sequence of operations, failed writes and restarts leaves a snapshot
\* that BriefingStore::load would reject.
THEOREM SnapshotsLoad == InboxSpec => []DiskLoads
  <1>1. InboxInv => DiskLoads
    <2> SUFFICES ASSUME InboxInv PROVE Loadable(snapshot)
      BY DEF DiskLoads
    <2>1. Sound(snapshot) /\ Bounded(snapshot)
      BY DEF InboxInv
    <2>2. Cardinality(Retained(snapshot)) <= 2 * MaxRows
      BY <2>1, RetainedFinite, BoundsAssumption DEF Bounded
    <2>3. \A r \in snapshot.dismissed : r \in Retained(snapshot) /\ Dismissible(snapshot, r)
      BY <2>1, StoreFields DEF Sound, Settled, Dismissible, Retained
    <2> QED
      BY <2>1, <2>2, <2>3 DEF Loadable, Sound, Open, Counted, Retained
  <1> QED
    BY <1>1, InboxInvariant, PTL

\* Every queued wake has exactly one way out, and one place in the line.
THEOREM QueueIsSound == InboxSpec => []QueueSound
  <1>1. InboxInv => QueueSound
    BY DEF InboxInv, Sound, Open, Ordered, QueueSound
  <1> QED
    BY <1>1, InboxInvariant, PTL

\* The audit never exceeds MAX_BRIEFING_ROWS.
THEOREM AuditIsBounded == InboxSpec => []AuditBounded
  <1>1. InboxInv => AuditBounded
    BY DEF InboxInv, Bounded, AuditBounded
  <1> QED
    BY <1>1, InboxInvariant, PTL

\* A queued wake survives a crash at any point.
THEOREM QueuedWakesSurvive == InboxSpec => []QueuedIsDurable
  <1>1. InboxInv => QueuedIsDurable
    BY DEF InboxInv
  <1> QED
    BY <1>1, InboxInvariant, PTL

\* A delivered row never comes back undelivered after a restart.
THEOREM DeliveriesSurvive == InboxSpec => []DeliveredIsDurable
  <1>1. InboxInv => DeliveredIsDurable
    BY DEF InboxInv
  <1> QED
    BY <1>1, InboxInvariant, PTL

\* No report, however stale, moves a row back while the process lives.
THEOREM RowsGoForward == InboxSpec => NeverBackward
  <1> DEFINE Body ==
        \A r \in Retained(memory) \cap Retained(memory') :
          /\ memory.delivery[r] = "delivered" => memory'.delivery[r] = "delivered"
          /\ memory.account[r].collection # "collecting" =>
               memory'.account[r].collection = memory.account[r].collection
          /\ memory'.account[r].completed >= memory.account[r].completed
          /\ memory'.account[r].total >= memory.account[r].total
          /\ memory'.account[r].failed >= memory.account[r].failed
  <1>1. InboxInv /\ [InboxNext]_inboxVars => [Reopen \/ Body]_inboxVars
    <2> SUFFICES ASSUME InboxInv, InboxNext, ~Reopen PROVE Body
      OBVIOUS
    <2>1. Evolves(memory, memory')
      BY OperationSafe
    <2>2. Retained(memory) \subseteq Runs
      BY DEF Retained
    <2> QED
      BY <2>1, <2>2 DEF Evolves, Forward
  <1> QED
    BY <1>1, InboxInvariant, PTL DEF InboxSpec, NeverBackward

\* Only settled or stopped rows leave the audit.
THEOREM EvictionIsSafe == InboxSpec => EvictsOnlySettled
  <1> DEFINE Body ==
        \A r \in Retained(memory) \ Retained(memory') :
          \/ memory.delivery[r] = "failed"
          \/ /\ memory.delivery[r] = "delivered" /\ ~Active(memory, r)
             /\ ~RequiresAttention(memory, r) \/ r \in memory.dismissed
  <1>1. InboxInv /\ [InboxNext]_inboxVars => [Reopen \/ Body]_inboxVars
    <2> SUFFICES ASSUME InboxInv, InboxNext, ~Reopen PROVE Body
      OBVIOUS
    <2>1. Evolves(memory, memory')
      BY OperationSafe
    <2>2. Retained(memory) \subseteq Runs
      BY DEF Retained
    <2> QED
      BY <2>1, <2>2 DEF Evolves, Evictable
  <1> QED
    BY <1>1, InboxInvariant, PTL DEF InboxSpec, EvictsOnlySettled

-----------------------------------------------------------------------------
(* Proactive delivery.                                                      *)

\* A store whose queued wakes are all owed their answer.
OwedStore(s) == s \in Store /\ Owed(s)

\* What the service's store and slot keep to.
SlotOK == /\ OwedStore(mem) /\ OwedStore(disk)
          /\ SlotBacked /\ NoStrandedRow
          /\ \A r \in Runs : mem.delivery[r] = "in_progress" => r \in mem.queue

-----------------------------------------------------------------------------
(* What the operations of the store make of a sound one. *)

\* An empty inbox owes nothing.
LEMMA EmptyOwed == OwedStore(EmptyStore)
  <1>1. NoAccount \in Account /\ "absent" \in Deliveries
    BY BoundsAssumption DEF NoAccount, Account, Collections, Deliveries
  <1> QED
    BY <1>1 DEF OwedStore, Owed, EmptyStore, Store

\* queued_delivery_failed and its kind only relabel what is queued.
LEMMA MarksOwed ==
  ASSUME NEW s, OwedStore(s)
  PROVE  /\ OwedStore(QueueFailed(s)) /\ OwedStore(ResumeStopped(s)) /\ OwedStore(Reopened(s))
         /\ \A r \in s.queue : OwedStore(InProgress(s, r)) /\ OwedStore(Retried(s, r))
  <1>1. s \in Store /\ s.queue \subseteq Runs
    BY DEF OwedStore, Store
  <1>2. OwedStore(QueueFailed(s))
    BY <1>1, QueueFailedFacts DEF OwedStore, Owed
  <1>3. OwedStore(ResumeStopped(s))
    BY <1>1, ResumeStoppedFacts DEF OwedStore, Owed
  <1>4. OwedStore(Reopened(s))
    BY <1>1, ReopenedFacts DEF OwedStore, Owed
  <1>5. ASSUME NEW r \in s.queue PROVE OwedStore(InProgress(s, r))
    BY <1>1, InProgressFacts DEF OwedStore, Owed
  <1>6. ASSUME NEW r \in s.queue PROVE OwedStore(Retried(s, r))
    BY <1>1, RetriedFacts DEF OwedStore, Owed
  <1> QED
    BY <1>2, <1>3, <1>4, <1>5, <1>6

\* Closing events leaves the others owed.
LEMMA ClosedOwed ==
  ASSUME NEW s, OwedStore(s), NEW R
  PROVE  OwedStore(Dequeue(Mark(s, R, "delivered"), R))
  <1>1. s \in Store /\ s.queue \subseteq Runs
    BY DEF OwedStore, Store
  <1> QED
    BY <1>1, ClosedFacts DEF OwedStore, Owed

\* A report queues no imported run.
LEMMA UpsertedOwed ==
  ASSUME NEW s, OwedStore(s), NEW r \in Runs, NEW a \in Account,
         NEW wake \in BOOLEAN, NEW delivered \in BOOLEAN,
         wake => r \notin Imported, ~UpsertFull(s, r, a, wake, delivered)
  PROVE  OwedStore(Upserted(s, r, a, wake, delivered))
  <1>1. /\ s \in Store
        /\ \A o \in s.queue : s.delivery[o] \in {"pending", "in_progress", "failed"}
    BY DEF OwedStore, Owed
  <1> QED
    BY <1>1, UpsertedFacts DEF OwedStore, Owed

-----------------------------------------------------------------------------
(* What the writes leave in memory and on disk. *)

\* Whatever a write does, both copies are old or new, and memory is new only
\* when the write was stored.
LEMMA PersistOwed ==
  ASSUME NEW m, NEW d, NEW new, NEW outcome, OwedStore(m), OwedStore(d), OwedStore(new),
         PersistFrom(m, d, new, outcome)
  PROVE  /\ OwedStore(mem') /\ OwedStore(disk')
         /\ mem' = IF outcome = "stored" THEN new ELSE m
  BY DEF PersistFrom, InMemory, OnDisk

\* A failed write leaves disk old or new.
LEMMA OnDiskOwed ==
  ASSUME NEW d, NEW new, NEW outcome, OwedStore(d), OwedStore(new)
  PROVE  OwedStore(OnDisk(d, new, outcome))
  BY DEF OnDisk

\* Stopping the queue puts no row in progress and leaves the queue as it was.
LEMMA StopQueueOwed ==
  ASSUME NEW m, NEW d, OwedStore(m), OwedStore(d), StopQueueFrom(m, d)
  PROVE  /\ OwedStore(mem') /\ OwedStore(disk') /\ mem'.queue = m.queue
         /\ \A r \in Runs : mem'.delivery[r] = "in_progress" => m.delivery[r] = "in_progress"
  <1>1. /\ OwedStore(QueueFailed(m)) /\ QueueFailed(m).queue = m.queue
        /\ \A r \in Runs : QueueFailed(m).delivery[r] = "in_progress" =>
                             m.delivery[r] = "in_progress"
    BY MarksOwed, QueueFailedFacts DEF OwedStore
  <1>2. CASE QueueFailed(m) = m
    BY <1>2 DEF StopQueueFrom
  <1>3. CASE QueueFailed(m) # m
    <2>1. PICK outcome \in Outcomes : PersistFrom(m, d, QueueFailed(m), outcome)
      BY <1>3 DEF StopQueueFrom
    <2> QED
      BY <1>1, <2>1, PersistOwed
  <1> QED
    BY <1>2, <1>3

-----------------------------------------------------------------------------
(* The slot. *)

\* With the slot empty a row may be in progress only behind the circuit.
LEMMA EmptySlot ==
  ASSUME OwedStore(mem'), OwedStore(disk'), active' = NoRun,
         \A r \in Runs : mem'.delivery[r] = "in_progress" => circuit' /\ r \in mem'.queue
  PROVE  SlotOK'
  BY DEF SlotOK, SlotBacked, NoStrandedRow

\* Nothing is in progress but the event in the slot, and with the circuit
\* closed and the slot empty nothing at all.
LEMMA OnlyActive ==
  ASSUME SlotOK, ~circuit, NEW r \in Runs, mem.delivery[r] = "in_progress"
  PROVE  active = r /\ r \in mem.queue
  BY DEF SlotOK, NoStrandedRow

\* The slot and the circuit exclude each other.
LEMMA SlotClosesCircuit ==
  ASSUME SlotOK, active \in Runs
  PROVE  ~circuit /\ active # NoRun
  BY RunsAssumption DEF SlotOK, SlotBacked, NoRun

\* Steps that leave store, slot and circuit alone, and do not push the answer
\* of the event in the slot out of the replay, disturb nothing.
LEMMA SlotUntouched ==
  ASSUME SlotOK, UNCHANGED <<mem, disk, active, circuit>>,
         active \in replay => active \in replay'
  PROVE  SlotOK'
  BY DEF SlotOK, SlotBacked, NoStrandedRow

\* Delivery that stops empties the slot behind the circuit.
LEMMA StopSlot ==
  ASSUME SlotOK, NEW d, OwedStore(d), StopDelivery(d), active' = NoRun
  PROVE  SlotOK'
  <1>1. /\ OwedStore(mem') /\ OwedStore(disk') /\ mem'.queue = mem.queue /\ circuit'
        /\ \A r \in Runs : mem'.delivery[r] = "in_progress" => mem.delivery[r] = "in_progress"
    BY StopQueueOwed DEF StopDelivery, SlotOK
  <1> QED
    BY <1>1, EmptySlot DEF SlotOK

\* agent_left and proactive_settled: the event is pending again, or stopped.
LEMMA ReturnSlot ==
  ASSUME SlotOK, NEW r \in Runs, active = r, NEW d, OwedStore(d),
         ReturnToInbox(r, d), active' = NoRun
  PROVE  SlotOK'
  <1>1. /\ OwedStore(mem) /\ ~circuit
        /\ \A o \in Runs : mem.delivery[o] = "in_progress" => o = r /\ r \in mem.queue
    BY SlotClosesCircuit, OnlyActive DEF SlotOK
  <1>2. CASE r \notin mem.queue /\ mem' = mem /\ disk' = d
    BY <1>1, <1>2, EmptySlot
  <1>3. CASE r \in mem.queue /\ PersistFrom(mem, d, Retried(mem, r), "stored")
    <2>1. /\ OwedStore(Retried(mem, r))
          /\ \A o \in Runs : Retried(mem, r).delivery[o] # "in_progress"
      BY <1>1, <1>3, MarksOwed, RetriedFacts DEF OwedStore
    <2>2. OwedStore(mem') /\ OwedStore(disk') /\ mem' = Retried(mem, r)
      BY <1>1, <1>3, <2>1, PersistOwed
    <2> QED
      BY <2>1, <2>2, EmptySlot
  <1>4. ASSUME NEW outcome, r \in mem.queue,
               StopDelivery(OnDisk(d, Retried(mem, r), outcome))
        PROVE  SlotOK'
    BY <1>1, <1>4, MarksOwed, OnDiskOwed, StopSlot
  <1> QED
    BY <1>2, <1>3, <1>4 DEF ReturnToInbox

\* dispatch_briefing_now reserves one row, stops the queue, or changes nothing.
LEMMA DispatchSlot ==
  ASSUME SlotOK, DispatchNow, replay' = replay
  PROVE  SlotOK'
  <1>1. CASE ~Ready \/ NothingWaits
    <2>1. UNCHANGED <<mem, disk, active, circuit>>
      BY <1>1 DEF DispatchNow, NothingWaits, store, slot, IsNext, Waiting
    <2> QED
      BY <2>1, SlotUntouched
  <1>2. ASSUME Ready, NEW r \in Runs, IsNext(mem, r),
               OpenCircuit(r) \/ ReservationFails(r) \/ SendWake(r) \/ WakeNotSent(r)
        PROVE  SlotOK'
    <2>1. /\ OwedStore(mem) /\ OwedStore(disk) /\ ~circuit /\ active = NoRun /\ r \in mem.queue
          /\ \A o \in Runs : mem.delivery[o] # "in_progress"
      BY <1>2, OnlyActive, RunsAssumption DEF Ready, IsNext, Waiting, SlotOK, NoRun
    <2> DEFINE reserved == InProgress(mem, r)
    <2>2. /\ OwedStore(reserved) /\ reserved.queue = mem.queue
          /\ \A o \in Runs : reserved.delivery[o] = "in_progress" <=> o = r
      BY <2>1, MarksOwed, InProgressFacts DEF OwedStore
    <2> HIDE DEF reserved
    <2>3. CASE OpenCircuit(r)
      <3>1. PICK outcome \in Outcomes : PersistFrom(mem, disk, QueueFailed(mem), outcome)
        BY <2>3 DEF OpenCircuit, Persist
      <3>2. /\ OwedStore(QueueFailed(mem))
            /\ \A o \in Runs : QueueFailed(mem).delivery[o] # "in_progress"
        BY <2>1, MarksOwed, QueueFailedFacts DEF OwedStore
      <3>3. /\ OwedStore(mem') /\ OwedStore(disk') /\ active' = NoRun
            /\ mem' = QueueFailed(mem) \/ mem' = mem
        BY <2>1, <2>3, <3>1, <3>2, PersistOwed DEF OpenCircuit, slot
      <3> QED
        BY <2>1, <3>2, <3>3, EmptySlot
    <2>4. CASE ReservationFails(r)
      <3>1. PICK outcome \in Outcomes : StopDelivery(OnDisk(disk, reserved, outcome))
        BY <2>4 DEF ReservationFails, reserved
      <3> QED
        BY <2>1, <2>2, <2>4, <3>1, OnDiskOwed, StopSlot DEF ReservationFails, slot
    <2>5. CASE SendWake(r)
      <3>1. PersistFrom(mem, disk, reserved, "stored") /\ active' = r /\ circuit' = circuit
        BY <2>5 DEF SendWake, Persist, reserved
      <3>2. OwedStore(mem') /\ OwedStore(disk') /\ mem' = reserved
        BY <2>1, <2>2, <3>1, PersistOwed
      <3> QED
        BY <2>1, <2>2, <3>1, <3>2 DEF SlotOK, SlotBacked, NoStrandedRow
    <2>6. CASE WakeNotSent(r)
      <3>1. PICK outcome \in Outcomes :
              /\ PersistFrom(reserved, reserved, Retried(reserved, r), outcome)
              /\ outcome # "stored" => circuit'
        BY <2>6 DEF WakeNotSent, reserved
      <3>2. /\ OwedStore(Retried(reserved, r))
            /\ \A o \in Runs : Retried(reserved, r).delivery[o] # "in_progress"
        BY <2>1, <2>2, MarksOwed, RetriedFacts DEF OwedStore
      <3>3. /\ OwedStore(mem') /\ OwedStore(disk')
            /\ mem' = IF outcome = "stored" THEN Retried(reserved, r) ELSE reserved
        BY <2>2, <3>1, <3>2, PersistOwed
      <3>4. active' = NoRun
        BY <2>1, <2>6 DEF WakeNotSent, slot
      <3> QED
        BY <2>1, <2>2, <3>1, <3>2, <3>3, <3>4, EmptySlot
    <2> QED
      BY <1>2, <2>3, <2>4, <2>5, <2>6
  <1> QED
    BY <1>1, <1>2 DEF DispatchNow

\* A producer's report takes the event out of the slot's reach only by closing
\* it with its answer in the replay, and puts no row in progress.
LEMMA ReportSlot ==
  ASSUME SlotOK, active \in Runs \cup {NoRun}, NEW r \in Runs, NEW a \in Incoming,
         Report(r, a)
  PROVE  SlotOK'
  <1> DEFINE wake == CarriesWake(r, a)
             delivered == r \in Imported \/ (wake /\ r \in replay)
             new == Upserted(mem, r, a, wake, delivered)
             Agrees(m) ==
               /\ \A o \in Runs : m.delivery[o] = "in_progress" =>
                                    mem.delivery[o] = "in_progress" /\ o \in m.queue
               /\ active # NoRun => IF active \in m.queue
                                    THEN m.delivery[active] = "in_progress"
                                    ELSE active \in replay
  <1>1. /\ OwedStore(mem) /\ OwedStore(disk) /\ mem \in Store
        /\ \A o \in mem.queue : o \notin Imported
                                /\ mem.delivery[o] \in {"pending", "in_progress", "failed"}
    BY DEF SlotOK, OwedStore, Owed
  <1>2. /\ a \in Account /\ wake \in BOOLEAN /\ delivered \in BOOLEAN
        /\ wake => r \notin Imported
        /\ ~UpsertFull(mem, r, a, wake, delivered)
    BY IncomingAssumption DEF CarriesWake, Report
  <1>3. OwedStore(new)
    BY <1>1, <1>2, UpsertedOwed
  <1>4. delivered <=> r \in Imported \/ (wake /\ r \in replay)
    OBVIOUS
  <1> HIDE DEF wake, delivered
  <1>5. /\ \A o \in new.queue : o \in mem.queue \/ (o = r /\ wake /\ ~delivered)
        /\ \A o \in Runs : new.delivery[o] = "in_progress" =>
             mem.delivery[o] = "in_progress" /\ (o \in mem.queue => o \in new.queue)
        /\ \A o \in mem.queue : mem.delivery[o] = "in_progress" =>
             IF o \in new.queue THEN new.delivery[o] = "in_progress" ELSE o = r /\ delivered
    BY <1>1, <1>2, UpsertedFacts
  <1>6. /\ active # NoRun => IF active \in mem.queue
                             THEN mem.delivery[active] = "in_progress"
                             ELSE active \in replay
        /\ circuit => active = NoRun
        /\ \A o \in Runs : mem.delivery[o] = "in_progress" => o \in mem.queue
    BY DEF SlotOK, SlotBacked
  <1>7. /\ active' = active /\ circuit' = circuit /\ replay' = replay
        /\ \/ new = mem /\ FinishReport(r, mem, disk)
           \/ FinishReport(r, new, new)
           \/ \E outcome \in Outcomes \ {"stored"} : Persist(new, outcome)
    BY DEF Report, canon, slot, wake, delivered
  <1> HIDE DEF new
  <1>8. Agrees(new)
    BY <1>1, <1>4, <1>5, <1>6
  <1>9. ASSUME mem' = new \/ mem' = mem, OwedStore(mem'), OwedStore(disk') PROVE SlotOK'
    BY <1>7, <1>8, <1>9 DEF SlotOK, SlotBacked, NoStrandedRow
  <1>10. ASSUME NEW d, OwedStore(d), FinishReport(r, new, d) PROVE SlotOK'
    <2>1. CASE mem' = new /\ disk' = d
      BY <1>3, <1>9, <1>10, <2>1
    <2>2. ASSUME NEW outcome \in Outcomes, circuit,
                 PersistFrom(new, d, QueueFailed(new), outcome)
          PROVE  SlotOK'
      <3>1. /\ OwedStore(QueueFailed(new)) /\ QueueFailed(new).queue = new.queue
            /\ \A o \in Runs : QueueFailed(new).delivery[o] = "in_progress" =>
                                 new.delivery[o] = "in_progress"
        BY <1>3, MarksOwed, QueueFailedFacts DEF OwedStore
      <3>2. /\ OwedStore(mem') /\ OwedStore(disk')
            /\ mem' = IF outcome = "stored" THEN QueueFailed(new) ELSE new
        BY <1>3, <1>10, <2>2, <3>1, PersistOwed
      <3> QED
        BY <1>6, <1>7, <1>8, <2>2, <3>1, <3>2, EmptySlot
    <2> QED
      BY <1>10, <2>1, <2>2 DEF FinishReport
  <1>11. CASE \E outcome \in Outcomes \ {"stored"} : Persist(new, outcome)
    <2>1. OwedStore(mem') /\ OwedStore(disk') /\ mem' = mem
      BY <1>1, <1>3, <1>11, PersistOwed DEF Persist
    <2> QED
      BY <1>9, <2>1
  <1>12. CASE new = mem /\ FinishReport(r, mem, disk)
    BY <1>1, <1>10, <1>12
  <1> QED
    BY <1>3, <1>7, <1>10, <1>11, <1>12

\* An answer closes its event, keeps it for the retried acknowledgement, or
\* finds it closed and stops delivery.
LEMMA ResponseSlot ==
  ASSUME SlotOK, NEW r \in Runs, Response(r)
  PROVE  SlotOK'
  <1>1. /\ OwedStore(mem) /\ OwedStore(disk) /\ mem \in Store /\ active = r /\ ~circuit
        /\ \A o \in Runs : mem.delivery[o] = "in_progress" => o = r /\ r \in mem.queue
    <2>1. active = r
      BY DEF Response
    <2> QED
      BY <2>1, SlotClosesCircuit, OnlyActive DEF SlotOK, OwedStore
  <1> DEFINE closed == Acknowledged(mem, r)
  <1>2. /\ OwedStore(closed)
        /\ \A o \in Runs : closed.delivery[o] # "in_progress"
    BY <1>1, ClosedOwed, ClosedFacts DEF Acknowledged
  <1> HIDE DEF closed
  <1>3. ASSUME r \in replay', AcknowledgeAnswer(r) PROVE SlotOK'
    <2>1. CASE Persist(closed, "stored") /\ active' = NoRun
      <3>1. OwedStore(mem') /\ OwedStore(disk') /\ mem' = closed
        BY <1>1, <1>2, <2>1, PersistOwed DEF Persist
      <3> QED
        BY <1>2, <2>1, <3>1, EmptySlot
    <2>2. ASSUME NEW outcome \in Outcomes \ {"stored"}, Persist(closed, outcome),
                 UNCHANGED <<active, circuit>>
          PROVE  SlotOK'
      <3>1. OwedStore(mem') /\ OwedStore(disk') /\ mem' = mem
        BY <1>1, <1>2, <2>2, PersistOwed DEF Persist
      <3> QED
        BY <1>1, <1>3, <2>2, <3>1 DEF SlotOK, SlotBacked, NoStrandedRow
    <2>3. CASE r \notin mem.queue /\ active' = NoRun /\ circuit' /\ StopQueueFrom(mem, disk)
      BY <1>1, <2>3, StopQueueOwed, EmptySlot
    <2> QED
      BY <1>3, <2>1, <2>2, <2>3 DEF AcknowledgeAnswer, closed
  <1>4. CASE AnswerNotRecorded(r)
    BY <1>4, SlotUntouched DEF AnswerNotRecorded, store
  <1>5. CASE RecordAnswer(r) /\ AcknowledgeAnswer(r)
    BY <1>3, <1>5 DEF RecordAnswer
  <1>6. CASE r \in replay /\ UNCHANGED <<canon, recordings>> /\ AcknowledgeAnswer(r)
    BY <1>3, <1>6 DEF canon
  <1> QED
    BY <1>4, <1>5, <1>6 DEF Response

\* A settlement recovers the acknowledgement or returns the event.
LEMMA SettledSlot ==
  ASSUME SlotOK, NEW r \in Runs, ProactiveSettled(r)
  PROVE  SlotOK'
  <1>1. active = r /\ active' = NoRun
    BY DEF ProactiveSettled
  <1>2. /\ OwedStore(mem) /\ OwedStore(disk) /\ mem \in Store
        /\ \A o \in Runs : mem.delivery[o] = "in_progress" => o = r
    BY <1>1, SlotClosesCircuit, OnlyActive DEF SlotOK, OwedStore
  <1> DEFINE closed == Recovered(mem, {r})
  <1>3. /\ OwedStore(closed)
        /\ r \in mem.queue => \A o \in Runs : closed.delivery[o] # "in_progress"
    BY <1>2, ClosedOwed, ClosedFacts DEF Recovered
  <1> HIDE DEF closed
  <1>4. CASE r \in mem.queue /\ Persist(closed, "stored")
    <2>1. OwedStore(mem') /\ OwedStore(disk') /\ mem' = closed
      BY <1>2, <1>3, <1>4, PersistOwed DEF Persist
    <2> QED
      BY <1>1, <1>3, <1>4, <2>1, EmptySlot
  <1>5. CASE ReturnToInbox(r, disk)
    BY <1>1, <1>2, <1>5, ReturnSlot
  <1>6. ASSUME NEW outcome, ReturnToInbox(r, OnDisk(disk, closed, outcome)) PROVE SlotOK'
    BY <1>1, <1>2, <1>3, <1>6, OnDiskOwed, ReturnSlot
  <1> QED
    BY <1>4, <1>5, <1>6 DEF ProactiveSettled, closed

\* An owner's turn reopens a stopped queue with nothing in progress.
LEMMA OwnerTurnSlot ==
  ASSUME SlotOK, NEW terminal, OwnerTurn(terminal)
  PROVE  SlotOK'
  <1>1. /\ OwedStore(mem) /\ OwedStore(disk) /\ mem \in Store
        /\ active' = active /\ (circuit => active = NoRun)
        /\ active \in replay => active \in replay'
    BY DEF SlotOK, OwedStore, SlotBacked, OwnerTurn, slot, RecordMessage, PushedOut
  <1> DEFINE resumed == ResumeStopped(mem)
  <1>2. OwedStore(resumed) /\ \A o \in Runs : resumed.delivery[o] # "in_progress"
    BY <1>1, MarksOwed, ResumeStoppedFacts
  <1> HIDE DEF resumed
  <1>3. CASE UNCHANGED <<store, circuit>>
    BY <1>1, <1>3, SlotUntouched DEF store
  <1>4. CASE /\ circuit
             /\ IF resumed = mem THEN UNCHANGED store ELSE Persist(resumed, "stored")
    <2>1. OwedStore(mem') /\ OwedStore(disk') /\ mem' = resumed
      BY <1>1, <1>2, <1>4, PersistOwed DEF Persist, store
    <2> QED
      BY <1>1, <1>2, <1>4, <2>1, EmptySlot
  <1>5. ASSUME NEW outcome \in Outcomes \ {"stored"}, Persist(resumed, outcome),
               circuit' = circuit
        PROVE  SlotOK'
    <2>1. OwedStore(mem') /\ OwedStore(disk') /\ mem' = mem
      BY <1>1, <1>2, <1>5, PersistOwed DEF Persist
    <2> QED
      BY <1>1, <1>5, <2>1 DEF SlotOK, SlotBacked, NoStrandedRow
  <1> QED
    BY <1>3, <1>4, <1>5 DEF OwnerTurn, resumed

\* A restarted service has nothing in progress.
LEMMA RestartSlot ==
  ASSUME SlotOK, Restart
  PROVE  SlotOK'
  <1> DEFINE opened == Reopened(disk)
             recovered == Recovered(opened, replayDisk)
             at(reopening) == IF opened = disk THEN disk ELSE OnDisk(disk, opened, reopening)
  <1>1. OwedStore(disk) /\ disk \in Store
    BY DEF SlotOK, OwedStore
  <1>2. OwedStore(opened) /\ \A o \in Runs : opened.delivery[o] # "in_progress"
    BY <1>1, MarksOwed, ReopenedFacts
  <1>3. /\ active' = NoRun
        /\ \E reopening \in Outcomes, recovering \in Outcomes :
             \/ mem' = opened /\ disk' = at(reopening)
             \/ PersistFrom(opened, at(reopening), recovered, recovering)
    BY DEF Restart
  <1> HIDE DEF opened
  <1>4. OwedStore(recovered) /\ \A o \in Runs : recovered.delivery[o] # "in_progress"
    BY <1>2, ClosedOwed, ClosedFacts DEF Recovered, OwedStore
  <1>5. \A reopening : OwedStore(at(reopening))
    BY <1>1, <1>2, OnDiskOwed
  <1> HIDE DEF recovered, at
  <1>6. OwedStore(mem') /\ OwedStore(disk') /\ (mem' = opened \/ mem' = recovered)
    BY <1>2, <1>3, <1>4, <1>5, PersistOwed
  <1> QED
    BY <1>2, <1>3, <1>4, <1>6, EmptySlot

\* Every step keeps the slot sound.
LEMMA SlotStep ==
  ASSUME SlotOK, active \in Runs \cup {NoRun}, [Next]_vars
  PROVE  SlotOK'
  <1>1. CASE Dispatch \/ TimerFires
    BY <1>1, DispatchSlot, SlotUntouched DEF Dispatch, TimerFires, canon, store, slot
  <1>2. ASSUME NEW r \in Runs, NEW a \in Incoming, Report(r, a) PROVE SlotOK'
    BY <1>2, ReportSlot
  <1>3. CASE AgentLeaves
    <2>1. CASE active = NoRun
      BY <1>3, <2>1, SlotUntouched DEF AgentLeaves, store, canon
    <2>2. CASE active \in Runs
      <3>1. active # NoRun /\ OwedStore(disk)
        BY <2>2, SlotClosesCircuit DEF SlotOK
      <3> QED
        BY <1>3, <2>2, <3>1, ReturnSlot DEF AgentLeaves
    <2> QED
      BY <2>1, <2>2
  <1>4. ASSUME NEW r \in Runs, Response(r) PROVE SlotOK'
    BY <1>4, ResponseSlot
  <1>5. ASSUME NEW r \in Runs, ProactiveSettled(r) PROVE SlotOK'
    BY <1>5, SettledSlot
  <1>6. ASSUME NEW terminal, OwnerTurn(terminal) PROVE SlotOK'
    BY <1>6, OwnerTurnSlot
  <1>7. CASE Restart
    BY <1>7, RestartSlot
  <1>8. CASE OtherAnswer
    BY <1>8, SlotUntouched DEF OtherAnswer, RecordMessage, PushedOut, store, slot
  <1>9. CASE \/ BackoffElapses \/ AgentForgotten \/ TurnAborts \/ SurfaceRegisters
             \/ \E leased \in BOOLEAN : AgentJoins(leased)
             \/ \E r \in Runs : ProactiveStarted(r)
             \/ \E to \in Lifecycles \ {"stopped"} : LifecycleMoves(to)
    <2>1. UNCHANGED <<mem, disk, active, circuit, replay>>
      BY <1>9 DEF BackoffElapses, AgentForgotten, TurnAborts, SurfaceRegisters, AgentJoins,
                  ProactiveStarted, LifecycleMoves, store, canon, slot
    <2> QED
      BY <2>1, SlotUntouched
  <1>10. CASE UNCHANGED vars
    BY <1>10, SlotUntouched DEF vars, store, canon, slot
  <1> QED
    BY <1>1, <1>2, <1>3, <1>4, <1>5, <1>6, <1>7, <1>8, <1>9, <1>10 DEF Next

-----------------------------------------------------------------------------
(* The pacing of model turns. *)

\* What the counters are.
Paced == /\ consecutive \in Nat /\ seen \subseteq Labels /\ starts \in [Labels -> Nat]
         /\ PacingInv

\* A fresh sequence has room for a turn.
LEMMA ResetPaced ==
  ASSUME ResetSequence
  PROVE  Paced'
  <1>1. /\ consecutive' = 0 /\ seen' = {} /\ MaxConsecutive \in Nat \ {0}
        /\ \A l \in Labels : starts'[l] = 0
        /\ starts' \in [Labels -> Nat]
    BY PacingAssumption DEF ResetSequence
  <1> QED
    BY <1>1, PacingAssumption DEF Paced, PacingInv

\* Without a new event in the slot an untouched count stays paced.
LEMMA UntouchedPaced ==
  ASSUME Paced, UNCHANGED pacing,
         active' = NoRun \/ started' \/ UNCHANGED <<active, started>>
  PROVE  Paced'
  BY DEF Paced, PacingInv, pacing

\* A turn is counted while there is room or for a label's first time, and the
\* event it was counted for has started or is gone afterwards.
LEMMA CountPaced ==
  ASSUME Paced, active \in Runs, CountStart(active), started \in BOOLEAN,
         active' = NoRun \/ started'
  PROVE  Paced'
  <1>1. CASE started
    BY <1>1, UntouchedPaced DEF CountStart
  <1>2. CASE ~started
    <2> DEFINE l == LogicalRun[active]
    <2>1. /\ l \in Labels /\ active # NoRun /\ MaxConsecutive \in Nat \ {0}
          /\ consecutive \in Nat /\ starts \in [Labels -> Nat] /\ seen \subseteq Labels
      BY PacingAssumption, RunsAssumption DEF Labels, NoRun, Paced
    <2>2. consecutive < MaxConsecutive \/ l \notin seen
      BY <1>2, <2>1 DEF Paced, PacingInv
    <2>3. \A o \in Labels : /\ starts[o] > 0 => o \in seen
                            /\ starts[o] <= consecutive /\ starts[o] <= MaxConsecutive
      BY DEF Paced, PacingInv
    <2>4. consecutive' = consecutive + 1
      BY <1>2 DEF CountStart
    <2>5. \/ seen' = seen \cup {l} /\ starts' = [starts EXCEPT ![l] = @ + 1]
          \/ UNCHANGED <<seen, starts>>
      BY <1>2 DEF CountStart
    <2> HIDE DEF l
    <2>6. \A o \in Labels : \/ starts'[o] = starts[o]
                            \/ o = l /\ o \in seen' /\ starts'[o] = starts[o] + 1
      BY <2>1, <2>5
    <2>7. /\ consecutive' \in Nat /\ seen' \subseteq Labels /\ starts' \in [Labels -> Nat]
          /\ seen \subseteq seen'
      BY <2>1, <2>4, <2>5
    <2>8. ASSUME NEW o \in Labels
          PROVE  /\ starts'[o] > 0 => o \in seen'
                 /\ starts'[o] <= consecutive' /\ starts'[o] <= MaxConsecutive
      <3>1. starts[o] \in Nat
        BY <2>1
      <3>2. CASE starts'[o] = starts[o]
        BY <2>1, <2>3, <2>4, <2>7, <3>1, <3>2
      <3>3. CASE o = l /\ o \in seen' /\ starts'[o] = starts[o] + 1
        BY <2>1, <2>2, <2>3, <2>4, <3>1, <3>3
      <3> QED
        BY <2>6, <3>2, <3>3
    <2> QED
      BY <2>7, <2>8 DEF Paced, PacingInv
  <1> QED
    BY <1>1, <1>2

\* A dispatch sends a wake only below the limit or for a label new to the
\* sequence.
LEMMA DispatchPaced ==
  ASSUME Paced, DispatchNow
  PROVE  Paced'
  <1>1. CASE NothingWaits
    BY <1>1, ResetPaced DEF NothingWaits
  <1>2. ASSUME NEW r \in Runs, SendWake(r) PROVE Paced'
    <2>1. /\ ~Repeated(r) /\ active' = r /\ UNCHANGED pacing
      BY <1>2 DEF SendWake
    <2>2. consecutive \in Nat /\ MaxConsecutive \in Nat
      BY PacingAssumption DEF Paced
    <2>3. consecutive < MaxConsecutive \/ LogicalRun[r] \notin seen
      BY <2>1, <2>2 DEF Repeated
    <2> QED
      BY <2>1, <2>3 DEF Paced, PacingInv, pacing
  <1>3. CASE \/ ~Ready /\ UNCHANGED <<store, slot, pacing, backoff, circuit, lifecycle, agent>>
             \/ \E r \in Runs : OpenCircuit(r) \/ ReservationFails(r) \/ WakeNotSent(r)
    BY <1>3, UntouchedPaced DEF OpenCircuit, ReservationFails, WakeNotSent, slot
  <1> QED
    BY <1>1, <1>2, <1>3 DEF DispatchNow

\* Every step keeps the count.
LEMMA PacingStep ==
  ASSUME Paced, started \in BOOLEAN, [Next]_vars
  PROVE  Paced'
  <1>1. CASE Dispatch \/ TimerFires
    BY <1>1, DispatchPaced, UntouchedPaced DEF Dispatch, TimerFires, slot
  <1>2. ASSUME NEW r \in Runs, ProactiveStarted(r) \/ Response(r) PROVE Paced'
    <2>1. active = r /\ CountStart(active) /\ (active' = NoRun \/ started')
      BY <1>2 DEF ProactiveStarted, Response, AcknowledgeAnswer, AnswerNotRecorded
    <2> QED
      BY <2>1, CountPaced
  <1>3. ASSUME NEW terminal, OwnerTurn(terminal) PROVE Paced'
    BY <1>3, ResetPaced, UntouchedPaced DEF OwnerTurn, slot
  <1>4. CASE Restart
    BY <1>4, ResetPaced DEF Restart
  <1>5. CASE \/ \E r \in Runs, a \in Incoming : Report(r, a)
             \/ BackoffElapses \/ AgentForgotten \/ OtherAnswer \/ TurnAborts \/ SurfaceRegisters
             \/ \E leased \in BOOLEAN : AgentJoins(leased)
             \/ \E to \in Lifecycles \ {"stopped"} : LifecycleMoves(to)
    <2>1. UNCHANGED pacing /\ UNCHANGED <<active, started>>
      BY <1>5 DEF Report, BackoffElapses, AgentForgotten, OtherAnswer, TurnAborts,
                  SurfaceRegisters, AgentJoins, LifecycleMoves, slot
    <2> QED
      BY <2>1, UntouchedPaced
  <1>6. CASE AgentLeaves \/ \E r \in Runs : ProactiveSettled(r)
    BY <1>6, UntouchedPaced DEF AgentLeaves, ProactiveSettled
  <1>7. CASE UNCHANGED vars
    BY <1>7, UntouchedPaced DEF vars, slot
  <1> QED
    BY <1>1, <1>2, <1>3, <1>4, <1>5, <1>6, <1>7 DEF Next

-----------------------------------------------------------------------------
(* The types of everything else. *)

Gates == /\ lifecycle \in Lifecycles /\ turn \in BOOLEAN /\ agent \in BOOLEAN
         /\ active \in Runs \cup {NoRun} /\ started \in BOOLEAN
         /\ backoff \in {"none", "running", "over"}
         /\ timer \in BOOLEAN /\ circuit \in BOOLEAN /\ owed \in 0..MaxOwed
Seen == /\ replay \subseteq Runs /\ replayDisk \subseteq Runs /\ acked \subseteq Runs
        /\ recordings \in [Runs -> Nat]
        /\ surface \in BOOLEAN /\ shown \in [Runs -> 0..2]

\* Owing one more dispatch stays within the bound.
LEMMA OweType == ASSUME owed \in 0..MaxOwed, OweDispatch PROVE owed' \in 0..MaxOwed
  BY PacingAssumption DEF OweDispatch, Lesser

\* Stopping and returning keep the gates typed.
LEMMA ReturnType ==
  ASSUME Gates, NEW r, NEW d, ReturnToInbox(r, d)
  PROVE  /\ lifecycle' \in Lifecycles /\ circuit' \in BOOLEAN
         /\ backoff' \in {"none", "running", "over"}
  BY DEF ReturnToInbox, StopDelivery, Gates, Lifecycles

\* dispatch_briefing_now keeps the gates typed.
LEMMA DispatchType ==
  ASSUME Gates, DispatchNow
  PROVE  /\ lifecycle' \in Lifecycles /\ agent' \in BOOLEAN
         /\ active' \in Runs \cup {NoRun} /\ started' \in BOOLEAN
         /\ backoff' \in {"none", "running", "over"} /\ circuit' \in BOOLEAN
  <1>1. CASE NothingWaits \/ UNCHANGED <<store, slot, pacing, backoff, circuit, lifecycle, agent>>
    BY <1>1 DEF NothingWaits, slot, Gates
  <1>2. ASSUME NEW r \in Runs, OpenCircuit(r) \/ ReservationFails(r) \/ SendWake(r) \/ WakeNotSent(r)
        PROVE  /\ lifecycle' \in Lifecycles /\ agent' \in BOOLEAN
               /\ active' \in Runs \cup {NoRun} /\ started' \in BOOLEAN
               /\ backoff' \in {"none", "running", "over"} /\ circuit' \in BOOLEAN
    BY <1>2 DEF OpenCircuit, ReservationFails, SendWake, WakeNotSent, StopDelivery, slot,
                Gates, Lifecycles
  <1> QED
    BY <1>1, <1>2 DEF DispatchNow

\* Every step keeps the gates typed.
LEMMA GatesStep ==
  ASSUME Gates, [Next]_vars
  PROVE  Gates'
  <1>1. CASE Dispatch
    <2>1. owed' \in 0..MaxOwed
      BY <1>1, PacingAssumption DEF Dispatch, Gates
    <2>2. timer' \in BOOLEAN /\ turn' \in BOOLEAN
      BY <1>1 DEF Dispatch, Gates
    <2> QED
      BY <1>1, <2>1, <2>2, DispatchType DEF Dispatch, Gates, slot
  <1>2. CASE TimerFires
    <2>1. owed' \in 0..MaxOwed /\ timer' \in BOOLEAN /\ turn' \in BOOLEAN
      BY <1>2, OweType DEF TimerFires, Gates
    <2> QED
      BY <1>2, <2>1, DispatchType DEF TimerFires, Gates, slot
  <1>3. ASSUME NEW r \in Runs, NEW a \in Incoming, Report(r, a) PROVE Gates'
    <2>1. owed' \in 0..MaxOwed
      BY <1>3, OweType DEF Report, FinishReport, Gates
    <2> QED
      BY <1>3, <2>1 DEF Report, gates, slot, Gates
  <1>4. ASSUME NEW leased \in BOOLEAN, AgentJoins(leased) PROVE Gates'
    BY <1>4, OweType DEF AgentJoins, slot, Gates, Lifecycles
  <1>5. CASE AgentLeaves
    BY <1>5, ReturnType DEF AgentLeaves, Gates
  <1>6. ASSUME NEW r \in Runs, ProactiveStarted(r) PROVE Gates'
    BY <1>6 DEF ProactiveStarted, gates, Gates
  <1>7. ASSUME NEW r \in Runs, Response(r) PROVE Gates'
    BY <1>7, OweType DEF Response, AcknowledgeAnswer, AnswerNotRecorded, gates, Gates
  <1>8. ASSUME NEW r \in Runs, ProactiveSettled(r) PROVE Gates'
    BY <1>8, OweType, ReturnType DEF ProactiveSettled, Gates
  <1>9. ASSUME NEW terminal \in BOOLEAN, OwnerTurn(terminal) PROVE Gates'
    BY <1>9 DEF OwnerTurn, slot, Gates, Lifecycles
  <1>10. ASSUME NEW to \in Lifecycles \ {"stopped"}, LifecycleMoves(to) PROVE Gates'
    BY <1>10, OweType DEF LifecycleMoves, slot, Gates
  <1>11. CASE Restart
    <2>1. /\ lifecycle' = "starting" /\ turn' = FALSE /\ agent' = FALSE
          /\ active' = NoRun /\ started' = FALSE
          /\ backoff' = "none" /\ timer' = FALSE /\ circuit' = FALSE /\ owed' = 0
      BY <1>11 DEF Restart
    <2>2. owed' \in 0..MaxOwed
      BY <2>1, PacingAssumption
    <2> QED
      BY <2>1, <2>2 DEF Gates, Lifecycles
  <1>12. CASE BackoffElapses \/ AgentForgotten \/ OtherAnswer \/ TurnAborts \/ SurfaceRegisters
    BY <1>12 DEF BackoffElapses, AgentForgotten, OtherAnswer, TurnAborts, SurfaceRegisters,
                 gates, slot, Gates
  <1>13. CASE UNCHANGED vars
    BY <1>13 DEF vars, gates, slot, Gates
  <1> QED
    BY <1>1, <1>2, <1>3, <1>4, <1>5, <1>6, <1>7, <1>8, <1>9, <1>10, <1>11, <1>12, <1>13 DEF Next

\* A broadcast shows a run to a surface.
LEMMA BroadcastType ==
  ASSUME shown \in [Runs -> 0..2], NEW r \in Runs, Broadcast(r)
  PROVE  shown' \in [Runs -> 0..2]
  <1>1. Lesser(shown[r] + 1, 2) \in 0..2
    BY DEF Lesser
  <1> QED
    BY <1>1 DEF Broadcast

\* Recording a message only pushes deliveries out.
LEMMA RecordType ==
  ASSUME replay \subseteq Runs, replayDisk \subseteq Runs, RecordMessage
  PROVE  replay' \subseteq Runs /\ replayDisk' \subseteq Runs
  BY DEF RecordMessage, OnDisk

\* Every step keeps what an observer has seen typed.
LEMMA SeenStep ==
  ASSUME Seen, [Next]_vars
  PROVE  Seen'
  <1>1. ASSUME NEW r \in Runs, NEW a \in Incoming, Report(r, a) PROVE Seen'
    <2>1. recordings' \in [Runs -> Nat]
      BY <1>1 DEF Report, SinceTakenIn, Seen
    <2>2. acked' \subseteq Runs
      BY <1>1 DEF Report, FinishReport, Retained, Seen
    <2> QED
      BY <1>1, <2>1, <2>2 DEF Report, canon, screen, Seen
  <1>2. ASSUME NEW r \in Runs, Response(r) PROVE Seen'
    <2>1. /\ replay' \subseteq Runs /\ replayDisk' \subseteq Runs
          /\ recordings' \in [Runs -> Nat]
      BY <1>2 DEF Response, RecordAnswer, AnswerNotRecorded, PushedOut, OnDisk, canon, Seen
    <2>2. shown' \in [Runs -> 0..2]
      BY <1>2, BroadcastType DEF Response, AcknowledgeAnswer, AnswerNotRecorded, Seen
    <2> QED
      BY <1>2, <2>1, <2>2 DEF Response, Seen
  <1>3. ASSUME NEW r \in Runs, ProactiveSettled(r) PROVE Seen'
    <2>1. shown' \in [Runs -> 0..2]
      BY <1>3, BroadcastType DEF ProactiveSettled, Seen
    <2> QED
      BY <1>3, <2>1 DEF ProactiveSettled, canon, Seen
  <1>4. CASE OtherAnswer \/ \E terminal \in BOOLEAN : OwnerTurn(terminal)
    BY <1>4, RecordType DEF OtherAnswer, OwnerTurn, screen, Seen
  <1>5. CASE SurfaceRegisters
    BY <1>5 DEF SurfaceRegisters, canon, Seen
  <1>6. CASE Restart
    <2> DEFINE known == [r \in Runs |-> IF r \in (replayDisk \ replay) \cap mem.queue
                                        THEN recordings[r] + 1 ELSE recordings[r]]
    <2>1. known \in [Runs -> Nat]
      BY DEF Seen
    <2>2. recordings' = SinceTakenIn(mem', known)
      BY <1>6 DEF Restart
    <2> HIDE DEF known
    <2>3. recordings' \in [Runs -> Nat]
      BY <2>1, <2>2 DEF SinceTakenIn
    <2>4. /\ replay' = replayDisk /\ replayDisk' = replayDisk /\ acked' \subseteq acked
          /\ surface' = FALSE /\ shown' = [r \in Runs |-> 0]
      BY <1>6 DEF Restart
    <2>5. shown' \in [Runs -> 0..2]
      BY <2>4
    <2> QED
      BY <2>3, <2>4, <2>5 DEF Seen
  <1>7. CASE \/ Dispatch \/ TimerFires \/ BackoffElapses \/ AgentLeaves \/ AgentForgotten
             \/ TurnAborts
             \/ \E leased \in BOOLEAN : AgentJoins(leased)
             \/ \E r \in Runs : ProactiveStarted(r)
             \/ \E to \in Lifecycles \ {"stopped"} : LifecycleMoves(to)
             \/ UNCHANGED vars
    BY <1>7 DEF Dispatch, TimerFires, BackoffElapses, AgentLeaves, AgentForgotten, TurnAborts,
                AgentJoins, ProactiveStarted, LifecycleMoves, vars, canon, screen, Seen
  <1> QED
    BY <1>1, <1>2, <1>3, <1>4, <1>5, <1>6, <1>7 DEF Next

-----------------------------------------------------------------------------
(* The theorems. *)

Inductive == SlotOK /\ Paced /\ Gates /\ Seen

\* The parts above are the invariant ProactiveDelivery states.
LEMMA InductiveIsIInv == Inductive <=> IInv
  BY DEF Inductive, IInv, SlotOK, SlotInv, OwedStore, Paced, Gates, Seen, TypeOK

\* A service with nothing stored satisfies the invariant.
LEMMA InitInductive == Init => Inductive
  <1> SUFFICES ASSUME Init PROVE Inductive
    OBVIOUS
  <1>1. SlotOK
    <2>1. \A r \in Runs : EmptyStore.delivery[r] # "in_progress"
      BY DEF EmptyStore
    <2> QED
      BY <2>1, EmptyOwed DEF Init, SlotOK, SlotBacked, NoStrandedRow
  <1>2. Paced
    BY PacingAssumption DEF Init, Paced, PacingInv
  <1>3. Gates /\ Seen
    <2>1. owed \in 0..MaxOwed /\ recordings \in [Runs -> Nat] /\ shown \in [Runs -> 0..2]
      BY PacingAssumption DEF Init
    <2> QED
      BY <2>1 DEF Init, Gates, Seen, Lifecycles
  <1> QED
    BY <1>1, <1>2, <1>3 DEF Inductive

\* Every step keeps the invariant.
LEMMA InductiveStep == Inductive /\ [Next]_vars => Inductive'
  <1> SUFFICES ASSUME Inductive, [Next]_vars PROVE Inductive'
    OBVIOUS
  <1>1. SlotOK'
    BY SlotStep DEF Inductive, Gates
  <1>2. Paced'
    BY PacingStep DEF Inductive, Gates
  <1>3. Gates' /\ Seen'
    BY GatesStep, SeenStep DEF Inductive
  <1> QED
    BY <1>1, <1>2, <1>3 DEF Inductive

\* The invariant behind the slot, the queue and the circuit holds whatever the
\* agent sends, whichever writes fail and wherever the process dies.
THEOREM Invariant == Spec => []IInv
  <1>1. Spec => []Inductive
    BY InitInductive, InductiveStep, PTL DEF Spec
  <1>2. Inductive => IInv
    BY InductiveIsIInv
  <1> QED
    BY <1>1, <1>2, PTL

\* Every variable of the delivery machine keeps its type.
THEOREM TypeCorrect == Spec => []TypeOK
  <1>1. IInv => TypeOK
    BY DEF IInv
  <1> QED
    BY <1>1, Invariant, PTL

\* The proactive slot always has its row, in progress in the inbox or closed by
\* a report with the answer in the replay; and no row is left in progress with
\* nobody to finish or retry it.
THEOREM SlotIsTheRow == Spec => []SlotMatchesAudit
  <1>1. IInv => SlotMatchesAudit
    BY DEF IInv, SlotInv, SlotMatchesAudit
  <1> QED
    BY <1>1, Invariant, PTL

\* No label gets more than MAX_CONSECUTIVE_PROACTIVE_TURNS counted turns in a
\* sequence.
THEOREM RunawayIsBounded == Spec => []RunawayBounded
  <1>1. IInv => RunawayBounded
    BY DEF IInv, PacingInv, RunawayBounded
  <1> QED
    BY <1>1, Invariant, PTL

-----------------------------------------------------------------------------
(****************************************************************************)
(* No briefing is lost and none is answered twice: what proactive delivery  *)
(* promises of its answers, for any runs, bounds and failing writes.        *)
(*                                                                          *)
(* Two facts carry the proof.  Disk is at most one store operation further  *)
(* than memory, which the store part calls Evolves(mem, disk); and the      *)
(* answer of a queued wake that memory has, disk has too.  Every handler    *)
(* but a report only relabels rows or closes the event it answers, so one   *)
(* relation (Reach) describes what it may leave in memory and on disk.      *)
(****************************************************************************)

\* Every retained row has a way to its answer: it is queued, it is delivered,
\* or its producer still owes the terminal report.
Kept(s) == \A r \in Retained(s) : \/ r \in s.queue
                                  \/ s.delivery[r] = "delivered"
                                  \/ s.account[r].collection = "collecting"

Good(s) == Sound(s) /\ Bounded(s) /\ Kept(s)

\* Memory m and disk d: disk is at most one operation further.
Copies(m, d) == Good(m) /\ Good(d) /\ Evolves(m, d)

\* What the replay holds and the observer has counted agrees with the inbox.
ReplayKnown ==
  /\ \A r \in mem.queue \cap replay : r \in replayDisk
  /\ \A r \in disk.queue \ mem.queue : r \notin replay
RecordedKnown ==
  \A r \in Runs : /\ recordings[r] <= 1
                  /\ recordings[r] # 0 => \/ mem.delivery[r] = "delivered"
                                          \/ r \in mem.queue \cap replay

AnswersInv == /\ Copies(mem, disk) /\ acked \subseteq Retained(mem)
              /\ ReplayKnown /\ RecordedKnown /\ ReservationDurable

-----------------------------------------------------------------------------
(* Operations that relabel rows or close queued wakes among C. *)

Settles(s, t, C) ==
  /\ Good(t) /\ Evolves(s, t)
  /\ Retained(t) = Retained(s) /\ t.queue \subseteq s.queue /\ s.queue \ t.queue \subseteq C
  /\ \A r \in Runs : t.delivery[r] = "delivered" <=>
                       s.delivery[r] = "delivered" \/ r \in s.queue \ t.queue

\* Relabelling the rows of R, none of them settled.
LEMMA MarkSettles ==
  ASSUME NEW s, Good(s), NEW C,
         NEW R, \A r \in R : r \in Runs => s.delivery[r] \notin {"absent", "delivered"},
         NEW d \in {"pending", "in_progress", "failed"}
  PROVE  Settles(s, Mark(s, R, d), C) /\ Evolves(Mark(s, R, d), s)
  <1> DEFINE t == Mark(s, R, d)
  <1>1. s \in Store /\ s.queue \subseteq Runs
    BY StoreFields DEF Good, Sound
  <1>2. Sound(t) /\ Bounded(t) /\ Evolves(s, t)
    BY MarkSound DEF Good
  <1>3. /\ t \in Store /\ t.queue = s.queue /\ t.account = s.account
        /\ \A r \in Runs : t.delivery[r] = IF r \in R THEN d ELSE s.delivery[r]
    BY <1>1, MarkFacts DEF Deliveries
  <1> HIDE DEF t
  <1>4. /\ Retained(t) = Retained(s)
        /\ \A r \in Runs : t.delivery[r] = "delivered" <=> s.delivery[r] = "delivered"
    BY <1>3 DEF Retained
  <1>5. Kept(t)
    BY <1>3, <1>4 DEF Good, Kept, Retained
  <1>6. Evolves(t, s)
    BY <1>1, <1>3, <1>4, StoreFields DEF Evolves, Forward, Retained
  <1> QED
    BY <1>2, <1>3, <1>4, <1>5, <1>6 DEF Settles, Good, t

\* Closing queued wakes R.
LEMMA CloseSettles ==
  ASSUME NEW s, Good(s), NEW C, NEW R \in SUBSET (s.queue \cap C)
  PROVE  Settles(s, Dequeue(Mark(s, R, "delivered"), R), C)
  <1> DEFINE t == Dequeue(Mark(s, R, "delivered"), R)
  <1>1. s \in Store /\ s.queue \subseteq Runs /\ Open(s) /\ R \in SUBSET s.queue
    BY StoreFields DEF Good, Sound
  <1>2. Sound(t) /\ Bounded(t) /\ Evolves(s, t)
    BY <1>1, CloseSound DEF Good
  <1>3. /\ t.queue = s.queue \ R
        /\ \A r \in Runs : t.delivery[r] = IF r \in R THEN "delivered" ELSE s.delivery[r]
    BY <1>1, ClosedFacts
  <1>4. t.account = s.account
    BY <1>1, MarkFacts, DequeueFacts DEF Deliveries
  <1> HIDE DEF t
  <1>5. Retained(t) = Retained(s)
    BY <1>1, <1>3 DEF Retained, Open
  <1>6. Kept(t)
    BY <1>3, <1>4, <1>5 DEF Good, Kept, Retained
  <1> QED
    BY <1>1, <1>2, <1>3, <1>5, <1>6 DEF Settles, Good, t

\* The store operations of the handlers, one by one.
LEMMA OperationsSettle ==
  ASSUME NEW s, Good(s), NEW C
  PROVE  /\ Settles(s, QueueFailed(s), C)
         /\ Settles(s, ResumeStopped(s), C)
         /\ Settles(s, Reopened(s), C) /\ Evolves(Reopened(s), s)
         /\ \A r \in s.queue : Settles(s, InProgress(s, r), C) /\ Settles(s, Retried(s, r), C)
         /\ \A r \in s.queue \cap C : Settles(s, Acknowledged(s, r), C)
         /\ \A R : s.queue \cap R \subseteq C => Settles(s, Recovered(s, R), C)
  <1>1. s \in Store /\ Open(s)
    BY DEF Good, Sound
  <1>2. Settles(s, QueueFailed(s), C)
    <2> DEFINE R == {r \in s.queue : s.delivery[r] \in {"pending", "in_progress"}}
    <2>1. \A r \in R : r \in Runs => s.delivery[r] \notin {"absent", "delivered"}
      OBVIOUS
    <2>2. QueueFailed(s) = Mark(s, R, "failed")
      BY DEF QueueFailed
    <2> HIDE DEF R
    <2> QED
      BY <2>1, <2>2, MarkSettles
  <1>3. Settles(s, ResumeStopped(s), C)
    <2> DEFINE R == {r \in Runs : s.delivery[r] \in {"failed", "in_progress"}}
    <2>1. \A r \in R : r \in Runs => s.delivery[r] \notin {"absent", "delivered"}
      OBVIOUS
    <2>2. ResumeStopped(s) = Mark(s, R, "pending")
      BY DEF ResumeStopped
    <2> HIDE DEF R
    <2> QED
      BY <2>1, <2>2, MarkSettles
  <1>4. Settles(s, Reopened(s), C) /\ Evolves(Reopened(s), s)
    <2> DEFINE R == {r \in Runs : s.delivery[r] \in {"in_progress", "failed"}}
    <2>1. \A r \in R : r \in Runs => s.delivery[r] \notin {"absent", "delivered"}
      OBVIOUS
    <2>2. Reopened(s) = Mark(s, R, "pending")
      BY DEF Reopened
    <2> HIDE DEF R
    <2> QED
      BY <2>1, <2>2, MarkSettles
  <1>5. ASSUME NEW r \in s.queue
        PROVE  Settles(s, InProgress(s, r), C) /\ Settles(s, Retried(s, r), C)
    <2>1. \A o \in {r} : o \in Runs => s.delivery[o] \notin {"absent", "delivered"}
      BY <1>1 DEF Open
    <2> QED
      BY <2>1, MarkSettles DEF InProgress, Retried
  <1>6. ASSUME NEW r \in s.queue \cap C
        PROVE  Settles(s, Acknowledged(s, r), C)
    <2>1. {r} \in SUBSET (s.queue \cap C)
      OBVIOUS
    <2> QED
      BY <2>1, CloseSettles DEF Acknowledged
  <1>7. ASSUME NEW R, s.queue \cap R \subseteq C
        PROVE  Settles(s, Recovered(s, R), C)
    <2>1. s.queue \cap R \in SUBSET (s.queue \cap C)
      BY <1>7
    <2> QED
      BY <2>1, CloseSettles DEF Recovered
  <1> QED
    BY <1>2, <1>3, <1>4, <1>5, <1>6, <1>7

\* A store evolves from itself.
LEMMA GoodReflexive == ASSUME NEW s, Good(s) PROVE Evolves(s, s) /\ s \in Store
  BY EvolvesReflexive DEF Good, Sound

\* One write keeps the copies together.
LEMMA CopiesPersist ==
  ASSUME NEW m, NEW d, Copies(m, d), NEW new, Good(new), Evolves(m, new),
         NEW outcome \in Outcomes, PersistFrom(m, d, new, outcome)
  PROVE  Copies(mem', disk')
  <1>1. Evolves(m, m) /\ Evolves(new, new)
    BY GoodReflexive DEF Copies
  <1> QED
    BY <1>1 DEF Copies, PersistFrom, InMemory, OnDisk

-----------------------------------------------------------------------------
(* What a handler that closes only wakes of C may leave in memory and on    *)
(* disk.                                                                    *)

Reach(m, d, C) ==
  /\ Copies(m, d)
  /\ Retained(m) = Retained(mem) /\ m.queue \subseteq mem.queue
  /\ mem.queue \ m.queue \subseteq C
  /\ \A r \in Runs : m.delivery[r] = "delivered" <=>
                       mem.delivery[r] = "delivered" \/ r \in mem.queue \ m.queue
  /\ \A r \in Runs : d.delivery[r] = "delivered" =>
                       \/ mem.delivery[r] = "delivered" \/ disk.delivery[r] = "delivered"
                       \/ r \in C
  /\ d.queue \ m.queue \subseteq disk.queue \ mem.queue

\* Before the first write nothing has changed.
LEMMA ReachStart ==
  ASSUME Copies(mem, disk), NEW C
  PROVE  Reach(mem, disk, C)
  BY DEF Reach

\* A write that failed leaves memory and moves disk, or not.
LEMMA ReachOnDisk ==
  ASSUME NEW m, NEW d, NEW C, Reach(m, d, C), NEW t, Settles(m, t, C), NEW outcome
  PROVE  Reach(m, OnDisk(d, t, outcome), C)
  BY DEF Reach, Copies, Settles, OnDisk

\* A write, whatever its outcome.
LEMMA ReachPersist ==
  ASSUME NEW m, NEW d, NEW C, Reach(m, d, C), NEW t, Settles(m, t, C),
         NEW outcome \in Outcomes, PersistFrom(m, d, t, outcome)
  PROVE  Reach(mem', disk', C)
  <1>1. CASE outcome = "stored"
    <2>1. mem' = t /\ disk' = t
      BY <1>1 DEF PersistFrom, InMemory, OnDisk
    <2>2. Copies(t, t)
      BY GoodReflexive DEF Settles, Copies
    <2>3. Reach(t, t, C)
      BY <2>2 DEF Reach, Settles
    <2> QED
      BY <2>1, <2>3
  <1>2. CASE outcome # "stored"
    <2>1. mem' = m /\ disk' = OnDisk(d, t, outcome)
      BY <1>2 DEF PersistFrom, InMemory
    <2> QED
      BY <2>1, ReachOnDisk
  <1> QED
    BY <1>1, <1>2

\* queued_delivery_failed, whatever its own write does.
LEMMA ReachStop ==
  ASSUME NEW m, NEW d, NEW C, Reach(m, d, C), StopQueueFrom(m, d)
  PROVE  Reach(mem', disk', C)
  <1>1. Settles(m, QueueFailed(m), C)
    BY OperationsSettle DEF Reach, Copies
  <1>2. CASE QueueFailed(m) = m
    BY <1>2 DEF StopQueueFrom
  <1>3. CASE QueueFailed(m) # m
    <2>1. PICK outcome \in Outcomes : PersistFrom(m, d, QueueFailed(m), outcome)
      BY <1>3 DEF StopQueueFrom
    <2> QED
      BY <1>1, <2>1, ReachPersist
  <1> QED
    BY <1>2, <1>3

\* The event goes back to the inbox, or delivery stops.
LEMMA ReachReturn ==
  ASSUME NEW d, NEW C, Reach(mem, d, C), NEW r \in Runs, ReturnToInbox(r, d),
         "stored" \in Outcomes
  PROVE  Reach(mem', disk', C)
  <1>1. CASE mem' = mem /\ disk' = d
    BY <1>1
  <1>2. ASSUME r \in mem.queue PROVE Settles(mem, Retried(mem, r), C)
    BY <1>2, OperationsSettle DEF Reach, Copies
  <1>3. CASE r \in mem.queue /\ PersistFrom(mem, d, Retried(mem, r), "stored")
    BY <1>2, <1>3, ReachPersist
  <1>4. ASSUME NEW outcome \in Outcomes, r \in mem.queue,
               StopDelivery(OnDisk(d, Retried(mem, r), outcome))
        PROVE  Reach(mem', disk', C)
    <2>1. StopQueueFrom(mem, OnDisk(d, Retried(mem, r), outcome))
      BY <1>4 DEF StopDelivery
    <2>2. Reach(mem, OnDisk(d, Retried(mem, r), outcome), C)
      BY <1>2, <1>4, ReachOnDisk
    <2> QED
      BY <2>1, <2>2, ReachStop
  <1> QED
    BY <1>1, <1>3, <1>4 DEF ReturnToInbox

-----------------------------------------------------------------------------
(* What the handlers do to the store. *)

\* dispatch_briefing_now closes nothing.
LEMMA DispatchReach ==
  ASSUME Copies(mem, disk), DispatchNow
  PROVE  Reach(mem', disk', {})
  <1>0. Reach(mem, disk, {}) /\ Good(mem) /\ "stored" \in Outcomes
    BY ReachStart, OutcomesAssumption DEF Copies
  <1>1. CASE ~Ready \/ NothingWaits
    <2>1. UNCHANGED <<mem, disk>>
      BY <1>1 DEF DispatchNow, NothingWaits, store, IsNext, Waiting
    <2> QED
      BY <1>0, <2>1
  <1>2. ASSUME NEW r \in Runs, IsNext(mem, r),
               OpenCircuit(r) \/ ReservationFails(r) \/ SendWake(r) \/ WakeNotSent(r)
        PROVE  Reach(mem', disk', {})
    <2> DEFINE reserved == InProgress(mem, r)
    <2>1. r \in mem.queue
      BY <1>2 DEF IsNext, Waiting
    <2>2. Settles(mem, reserved, {}) /\ Settles(mem, QueueFailed(mem), {})
      BY <1>0, <2>1, OperationsSettle
    <2> HIDE DEF reserved
    <2>3. CASE OpenCircuit(r)
      BY <1>0, <2>2, <2>3, ReachPersist DEF OpenCircuit, Persist
    <2>4. CASE ReservationFails(r)
      <3>1. PICK outcome \in Outcomes : StopDelivery(OnDisk(disk, reserved, outcome))
        BY <2>4 DEF ReservationFails, reserved
      <3> QED
        BY <1>0, <2>2, <3>1, ReachOnDisk, ReachStop DEF StopDelivery
    <2>5. CASE SendWake(r)
      BY <1>0, <2>2, <2>5, ReachPersist DEF SendWake, Persist, reserved
    <2>6. CASE WakeNotSent(r)
      <3>1. PICK outcome \in Outcomes :
              PersistFrom(reserved, reserved, Retried(reserved, r), outcome)
        BY <2>6 DEF WakeNotSent, reserved
      <3>2. Copies(reserved, reserved) /\ reserved.queue = mem.queue
        BY <2>1, <2>2, GoodReflexive, InProgressFacts, <1>0 DEF Settles, Copies, reserved
      <3>3. Reach(reserved, reserved, {})
        BY <2>2, <3>2 DEF Reach, Settles
      <3>4. Settles(reserved, Retried(reserved, r), {})
        BY <2>1, <3>2, OperationsSettle DEF Copies
      <3> QED
        BY <3>1, <3>3, <3>4, ReachPersist
    <2> QED
      BY <1>2, <2>3, <2>4, <2>5, <2>6
  <1> QED
    BY <1>1, <1>2 DEF DispatchNow

\* An answer closes at most its own event, and only with the answer in the
\* replay, in memory and on disk.
LEMMA ResponseReach ==
  ASSUME Copies(mem, disk), ReplayKnown, NEW r \in Runs, Response(r)
  PROVE  \E C : Reach(mem', disk', C) /\ C \subseteq replay' \cap replayDisk'
  <1>1. \A C : Reach(mem, disk, C)
    BY ReachStart
  <1>2. Good(mem)
    BY DEF Copies
  <1>3. ASSUME AcknowledgeAnswer(r),
               r \in mem.queue => r \in replay' \cap replayDisk'
        PROVE  \E C : Reach(mem', disk', C) /\ C \subseteq replay' \cap replayDisk'
    <2>1. CASE r \in mem.queue
      <3>1. PICK outcome \in Outcomes : PersistFrom(mem, disk, Acknowledged(mem, r), outcome)
        BY <1>3, <2>1, OutcomesAssumption DEF AcknowledgeAnswer, Persist
      <3>2. Settles(mem, Acknowledged(mem, r), {r})
        BY <1>2, <2>1, OperationsSettle
      <3>3. Reach(mem', disk', {r})
        BY <1>1, <3>1, <3>2, ReachPersist
      <3> QED
        BY <1>3, <2>1, <3>3
    <2>2. CASE r \notin mem.queue
      <3>1. StopQueueFrom(mem, disk)
        BY <1>3, <2>2 DEF AcknowledgeAnswer
      <3>2. Reach(mem', disk', {})
        BY <1>1, <3>1, ReachStop
      <3> QED
        BY <3>2
    <2> QED
      BY <2>1, <2>2
  <1>4. CASE RecordAnswer(r) /\ AcknowledgeAnswer(r)
    BY <1>3, <1>4 DEF RecordAnswer
  <1>5. CASE r \in replay /\ UNCHANGED <<canon, recordings>> /\ AcknowledgeAnswer(r)
    BY <1>3, <1>5 DEF canon, ReplayKnown
  <1>6. CASE AnswerNotRecorded(r)
    <2>1. Reach(mem', disk', {})
      BY <1>1, <1>6 DEF AnswerNotRecorded, store
    <2> QED
      BY <2>1
  <1> QED
    BY <1>4, <1>5, <1>6 DEF Response

\* A settlement closes its event only with the answer in the replay.
LEMMA SettledReach ==
  ASSUME Copies(mem, disk), ReplayKnown, NEW r \in Runs, ProactiveSettled(r)
  PROVE  \E C : Reach(mem', disk', C) /\ C \subseteq replay' \cap replayDisk'
  <1>1. /\ \A C : Reach(mem, disk, C)
        /\ Good(mem) /\ "stored" \in Outcomes
    BY ReachStart, OutcomesAssumption DEF Copies
  <1>2. UNCHANGED <<replay, replayDisk>>
    BY DEF ProactiveSettled, canon
  <1>3. CASE r \in replay \cap mem.queue
    <2>1. {r} \subseteq replay' \cap replayDisk'
      BY <1>2, <1>3 DEF ReplayKnown
    <2>2. Settles(mem, Recovered(mem, {r}), {r})
      BY <1>1, OperationsSettle
    <2>3. CASE Persist(Recovered(mem, {r}), "stored")
      BY <1>1, <2>1, <2>2, <2>3, ReachPersist DEF Persist
    <2>4. ASSUME NEW outcome \in Outcomes,
                 ReturnToInbox(r, OnDisk(disk, Recovered(mem, {r}), outcome))
          PROVE  Reach(mem', disk', {r})
      <3>1. Reach(mem, OnDisk(disk, Recovered(mem, {r}), outcome), {r})
        BY <1>1, <2>2, ReachOnDisk
      <3> QED
        BY <1>1, <2>4, <3>1, ReachReturn
    <2> QED
      BY <1>3, <2>1, <2>3, <2>4 DEF ProactiveSettled
  <1>4. CASE r \notin replay \cap mem.queue
    <2>1. ReturnToInbox(r, disk)
      BY <1>4 DEF ProactiveSettled
    <2>2. Reach(mem', disk', {})
      BY <1>1, <2>1, ReachReturn
    <2> QED
      BY <2>2
  <1> QED
    BY <1>3, <1>4

\* An owner's turn relabels the stopped queue.
LEMMA OwnerTurnReach ==
  ASSUME Copies(mem, disk), NEW terminal, OwnerTurn(terminal)
  PROVE  Reach(mem', disk', {})
  <1>1. Reach(mem, disk, {}) /\ Settles(mem, ResumeStopped(mem), {}) /\ "stored" \in Outcomes
    BY ReachStart, OperationsSettle, OutcomesAssumption DEF Copies
  <1>2. CASE UNCHANGED store
    BY <1>1, <1>2 DEF store
  <1>3. ASSUME NEW outcome \in Outcomes, Persist(ResumeStopped(mem), outcome)
        PROVE  Reach(mem', disk', {})
    BY <1>1, <1>3, ReachPersist DEF Persist
  <1> QED
    BY <1>1, <1>2, <1>3 DEF OwnerTurn

\* Every step but a report and a restart closes only events whose answer is in
\* the replay, in memory and on disk.
LEMMA StepReach ==
  ASSUME Copies(mem, disk), ReplayKnown, active \in Runs \cup {NoRun}, [Next]_vars,
         ~Restart, ~\E r \in Runs, a \in Incoming : Report(r, a)
  PROVE  \E C : Reach(mem', disk', C) /\ C \subseteq replay' \cap replayDisk'
  <1>1. Reach(mem, disk, {}) /\ "stored" \in Outcomes
    BY ReachStart, OutcomesAssumption
  <1>2. CASE UNCHANGED <<mem, disk>>
    BY <1>1, <1>2
  <1>3. CASE Reach(mem', disk', {})
    BY <1>3
  <1>4. CASE Dispatch \/ TimerFires
    BY <1>2, <1>3, <1>4, DispatchReach DEF Dispatch, TimerFires, store
  <1>5. CASE AgentLeaves
    <2>1. CASE active = NoRun
      BY <1>2, <1>5, <2>1 DEF AgentLeaves, store
    <2>2. CASE active \in Runs /\ active # NoRun
      BY <1>1, <1>3, <1>5, <2>2, ReachReturn DEF AgentLeaves
    <2> QED
      BY <2>1, <2>2
  <1>6. ASSUME NEW r \in Runs, Response(r) \/ ProactiveSettled(r)
        PROVE  \E C : Reach(mem', disk', C) /\ C \subseteq replay' \cap replayDisk'
    BY <1>6, ResponseReach, SettledReach
  <1>7. ASSUME NEW terminal, OwnerTurn(terminal)
        PROVE  Reach(mem', disk', {})
    BY <1>7, OwnerTurnReach
  <1>8. CASE \/ BackoffElapses \/ AgentForgotten \/ TurnAborts \/ SurfaceRegisters
             \/ OtherAnswer \/ UNCHANGED vars
             \/ \E leased \in BOOLEAN : AgentJoins(leased)
             \/ \E r \in Runs : ProactiveStarted(r)
             \/ \E to \in Lifecycles \ {"stopped"} : LifecycleMoves(to)
    BY <1>2, <1>8 DEF BackoffElapses, AgentForgotten, TurnAborts, SurfaceRegisters,
       OtherAnswer, AgentJoins, ProactiveStarted, LifecycleMoves, vars, store
  <1> QED
    BY <1>3, <1>4, <1>5, <1>6, <1>7, <1>8 DEF Next

-----------------------------------------------------------------------------
(* What the handlers do to the replay. *)

\* Only the answer of a queued event joins the replay, no queued event's answer
\* leaves it, and disk has what memory has of the queued ones.
ReplayMoves ==
  /\ \A r \in mem.queue : r \in replay => r \in replay'
  /\ \A r \in mem.queue : r \in replay' => r \in replayDisk'
  /\ replay' \ replay \subseteq mem.queue
  /\ \A r \in Runs : \/ recordings'[r] = recordings[r]
                     \/ r \in replay' \ replay /\ recordings'[r] = recordings[r] + 1

\* Every step but a report and a restart.
LEMMA StepReplay ==
  ASSUME SlotOK, ReplayKnown, recordings \in [Runs -> Nat], [Next]_vars,
         ~Restart, ~\E r \in Runs, a \in Incoming : Report(r, a)
  PROVE  ReplayMoves
  <1>1. CASE UNCHANGED <<replay, replayDisk, recordings>>
    BY <1>1 DEF ReplayKnown, ReplayMoves
  <1>2. CASE RecordMessage /\ UNCHANGED recordings
    BY <1>2 DEF RecordMessage, PushedOut, OnDisk, ReplayKnown, ReplayMoves
  <1>3. ASSUME NEW r \in Runs, Response(r) PROVE ReplayMoves
    <2>1. active = r /\ active # NoRun
      BY <1>3, SlotClosesCircuit DEF Response
    <2>2. CASE RecordAnswer(r)
      <3>1. r \in mem.queue
        BY <2>1, <2>2 DEF SlotOK, SlotBacked, RecordAnswer
      <3>2. /\ replay' = replayDisk' /\ r \in replay' /\ r \notin replay
            /\ replay' \ replay \subseteq {r}
            /\ \A o \in mem.queue : o \in replay => o \in replay'
        BY <2>2 DEF RecordAnswer, PushedOut
      <3>3. \A o \in Runs : recordings'[o] = IF o = r THEN recordings[o] + 1 ELSE recordings[o]
        BY <2>2 DEF RecordAnswer
      <3> QED
        BY <3>1, <3>2, <3>3 DEF ReplayMoves
    <2>3. CASE AnswerNotRecorded(r)
      BY <2>3 DEF AnswerNotRecorded, PushedOut, OnDisk, ReplayKnown, ReplayMoves
    <2>4. CASE UNCHANGED <<canon, recordings>>
      BY <1>1, <2>4 DEF canon
    <2> QED
      BY <1>3, <2>2, <2>3, <2>4 DEF Response
  <1>4. CASE OtherAnswer \/ \E terminal \in BOOLEAN : OwnerTurn(terminal)
    BY <1>2, <1>4 DEF OtherAnswer, OwnerTurn
  <1>5. CASE \/ Dispatch \/ TimerFires \/ AgentLeaves
             \/ BackoffElapses \/ AgentForgotten \/ TurnAborts \/ SurfaceRegisters
             \/ UNCHANGED vars
             \/ \E leased \in BOOLEAN : AgentJoins(leased)
             \/ \E r \in Runs : ProactiveStarted(r) \/ ProactiveSettled(r)
             \/ \E to \in Lifecycles \ {"stopped"} : LifecycleMoves(to)
    BY <1>1, <1>5 DEF Dispatch, TimerFires, AgentLeaves, BackoffElapses, AgentForgotten,
       TurnAborts, SurfaceRegisters, AgentJoins, ProactiveStarted, ProactiveSettled,
       LifecycleMoves, vars, canon
  <1> QED
    BY <1>3, <1>4, <1>5 DEF Next

\* Together they keep the replay and the counts known.
LEMMA KnownStep ==
  ASSUME Copies(mem, disk), ReplayKnown, RecordedKnown, recordings \in [Runs -> Nat],
         NEW C, Reach(mem', disk', C), C \subseteq replay', ReplayMoves
  PROVE  ReplayKnown' /\ RecordedKnown'
  <1>1. /\ mem.queue \subseteq Runs /\ \A r \in mem.queue : mem.delivery[r] # "delivered"
    BY StoreFields DEF Copies, Good, Sound, Open
  <1>2. ReplayKnown'
    BY DEF ReplayKnown, ReplayMoves, Reach
  <1>3. ASSUME NEW r \in Runs
        PROVE  /\ recordings'[r] <= 1
               /\ recordings'[r] # 0 => \/ mem'.delivery[r] = "delivered"
                                        \/ r \in mem'.queue \cap replay'
    <2>1. /\ mem.delivery[r] = "delivered" => mem'.delivery[r] = "delivered"
          /\ r \in mem.queue => r \in mem'.queue \/ mem'.delivery[r] = "delivered"
      BY DEF Reach
    <2>2. CASE recordings'[r] = recordings[r]
      BY <2>1, <2>2 DEF RecordedKnown, ReplayMoves
    <2>3. CASE r \in replay' \ replay /\ recordings'[r] = recordings[r] + 1
      <3>1. r \in mem.queue /\ recordings[r] = 0
        BY <1>1, <2>3 DEF RecordedKnown, ReplayMoves
      <3> QED
        BY <2>1, <2>3, <3>1
    <2> QED
      BY <2>2, <2>3 DEF ReplayMoves
  <1> QED
    BY <1>2, <1>3 DEF RecordedKnown

-----------------------------------------------------------------------------
(* A producer's report. *)

\* A report leaves every row a way to its answer.
LEMMA UpsertedGood ==
  ASSUME NEW s, Good(s), NEW r \in Runs, NEW a, Measured(a),
         NEW wake \in BOOLEAN, NEW delivered \in BOOLEAN,
         a.collection # "collecting" => wake \/ delivered,
         ~UpsertFull(s, r, a, wake, delivered)
  PROVE  /\ Good(Upserted(s, r, a, wake, delivered))
         /\ Evolves(s, Upserted(s, r, a, wake, delivered))
  <1> DEFINE m == Merged(s, r, a, wake, delivered)
             row == MergeRow(s, r, a, delivered)
             u == Upserted(s, r, a, wake, delivered)
  <1>1. Sound(u) /\ Bounded(u) /\ Evolves(s, u)
    BY UpsertedSound DEF Good
  <1>2. s \in Store /\ a \in Account /\ s.queue \subseteq Runs /\ Sound(s)
    BY StoreFields DEF Good, Sound, Measured
  <1>3. /\ m \in Store /\ m.delivery = row.delivery /\ m.account = row.account
        /\ m.queue = {o \in s.queue \cup (IF wake THEN {r} ELSE {}) :
                         row.delivery[o] # "delivered"}
    BY <1>2, MergedFacts
  <1>4. \A o \in Runs \ {r} : m.account[o] = s.account[o]
    BY <1>2, MergedSound
  <1>5. /\ \A o \in Runs \ {r} : row.delivery[o] = s.delivery[o]
        /\ row.delivery[r] = IF delivered THEN "delivered"
                             ELSE IF s.delivery[r] = "absent" THEN "pending" ELSE s.delivery[r]
    BY <1>2, MergeRowFacts
  <1>6. a.collection = "collecting" /\ (s.delivery[r] = "absent" \/ s.account[r].collection = "collecting")
          => row.account[r].collection = "collecting"
    <2>1. s.account[r].collection = "collecting" =>
            MergeAccount(s.account[r], a).collection = a.collection
      BY DEF MergeAccount
    <2> HIDE DEF row
    <2>2. row.account[r] = IF s.delivery[r] = "absent" THEN a ELSE MergeAccount(s.account[r], a)
      BY <1>2 DEF row, MergeRow, Store
    <2> QED
      BY <2>1, <2>2
  <1>7. u = Compacted(m) /\ (OverBound(m) => Candidates(m) # {})
    BY DEF Upserted, UpsertFull
  <1> HIDE DEF m, row, u
  <1>8. ASSUME NEW o \in Runs, m.delivery[o] # "absent"
        PROVE  o \in m.queue \/ m.delivery[o] = "delivered" \/ m.account[o].collection = "collecting"
    <2>1. s.delivery[o] # "absent" => \/ o \in s.queue
                                      \/ s.delivery[o] = "delivered"
                                      \/ s.account[o].collection = "collecting"
      BY DEF Good, Kept, Retained
    <2>2. CASE o # r
      BY <1>3, <1>4, <1>5, <1>8, <2>1, <2>2
    <2>3. CASE o = r
      BY <1>3, <1>5, <1>6, <2>1, <2>3
    <2> QED
      BY <2>2, <2>3
  <1>9. Kept(u)
    BY <1>3, <1>7, <1>8, CompactedFacts DEF Kept, Retained
  <1> QED
    BY <1>1, <1>9 DEF Good, u

\* What a report leaves in memory and on disk: the old store or the new one,
\* whose queue an open circuit may have stopped.
LEMMA ReportStores ==
  ASSUME AnswersInv, SlotOK, NEW r \in Runs, NEW a \in Incoming, Report(r, a)
  PROVE  LET wake == CarriesWake(r, a)
             delivered == r \in Imported \/ (wake /\ r \in replay)
             new == Upserted(mem, r, a, wake, delivered)
         IN  /\ Copies(mem', disk')
             /\ acked' \subseteq Retained(mem')
             /\ \/ mem' = mem /\ disk' = disk
                \/ mem' = mem /\ disk' = new
                \/ mem' \in {new, QueueFailed(new)}
                   /\ disk' \in {new, QueueFailed(new)}
                \/ mem' = QueueFailed(mem) /\ disk' = QueueFailed(mem) /\ new = mem
                \/ mem' = mem /\ disk' = QueueFailed(mem) /\ new = mem
             /\ Good(new) /\ Evolves(mem, new)
  <1> DEFINE wake == CarriesWake(r, a)
             delivered == r \in Imported \/ (wake /\ r \in replay)
             new == Upserted(mem, r, a, wake, delivered)
  <1>1. /\ Copies(mem, disk) /\ acked \subseteq Retained(mem)
    BY DEF AnswersInv
  <1>2. /\ Measured(a) /\ wake \in BOOLEAN /\ delivered \in BOOLEAN
        /\ a.collection # "collecting" => wake \/ delivered
        /\ ~UpsertFull(mem, r, a, wake, delivered)
    BY IncomingAssumption DEF CarriesWake, Report, Measured
  <1>3. Good(new) /\ Evolves(mem, new) /\ Evolves(mem, mem) /\ Evolves(new, new)
    BY <1>1, <1>2, UpsertedGood, GoodReflexive DEF Copies
  <1>4. /\ \/ new = mem /\ FinishReport(r, mem, disk)
           \/ FinishReport(r, new, new)
           \/ \E outcome \in Outcomes \ {"stored"} :
                Persist(new, outcome) /\ UNCHANGED <<acked, owed>>
    BY DEF Report
  <1> HIDE DEF wake, delivered, new
  <1>6. CASE \E outcome \in Outcomes \ {"stored"} :
               Persist(new, outcome) /\ UNCHANGED <<acked, owed>>
    <2>1. PICK outcome \in Outcomes \ {"stored"} : Persist(new, outcome) /\ acked' = acked
      BY <1>6
    <2>2. mem' = mem /\ (disk' = disk \/ disk' = new)
      BY <2>1 DEF Persist, PersistFrom, InMemory, OnDisk
    <2> QED
      BY <1>1, <1>3, <2>1, <2>2 DEF Copies, new, wake, delivered
  <1>7. ASSUME NEW d, Copies(new, d), FinishReport(r, new, d)
        PROVE  /\ Copies(mem', disk') /\ acked' \subseteq Retained(mem')
               /\ \/ mem' = new /\ disk' = d
                  \/ mem' = QueueFailed(new) /\ disk' = QueueFailed(new)
                  \/ mem' = new /\ disk' = QueueFailed(new)
    <2>1. Settles(new, QueueFailed(new), {})
      BY <1>3, OperationsSettle
    <2>2. acked' \subseteq Retained(new)
      BY <1>7 DEF FinishReport
    <2>3. CASE mem' = new /\ disk' = d
      BY <1>7, <2>2, <2>3
    <2>4. ASSUME NEW outcome \in Outcomes, PersistFrom(new, d, QueueFailed(new), outcome)
          PROVE  /\ Copies(mem', disk') /\ acked' \subseteq Retained(mem')
                 /\ \/ mem' = new /\ disk' = d
                    \/ mem' = QueueFailed(new) /\ disk' = QueueFailed(new)
                    \/ mem' = new /\ disk' = QueueFailed(new)
      <3>1. Copies(mem', disk')
        BY <1>7, <2>1, <2>4, CopiesPersist DEF Settles
      <3>2. \/ mem' = new /\ disk' = d
            \/ mem' = QueueFailed(new) /\ disk' = QueueFailed(new)
            \/ mem' = new /\ disk' = QueueFailed(new)
        BY <2>4 DEF PersistFrom, InMemory, OnDisk
      <3> QED
        BY <2>1, <2>2, <3>1, <3>2 DEF Settles
    <2> QED
      BY <1>7, <2>3, <2>4 DEF FinishReport
  <1>8. CASE FinishReport(r, new, new)
    <2>1. Copies(new, new)
      BY <1>3 DEF Copies
    <2> QED
      BY <1>3, <1>7, <1>8, <2>1 DEF new, wake, delivered
  <1>9. CASE new = mem /\ FinishReport(r, mem, disk)
    <2>1. /\ Copies(mem', disk') /\ acked' \subseteq Retained(mem')
          /\ \/ mem' = mem /\ disk' = disk
             \/ mem' = QueueFailed(mem) /\ disk' = QueueFailed(mem)
             \/ mem' = mem /\ disk' = QueueFailed(mem)
      BY <1>1, <1>7, <1>9
    <2> QED
      BY <1>3, <1>9, <2>1 DEF new, wake, delivered
  <1> QED
    BY <1>4, <1>6, <1>8, <1>9

\* A report closes an event on disk only with its answer there.
LEMMA ReportCloses ==
  ASSUME AnswersInv, SlotOK, NEW r \in Runs, NEW a \in Incoming, Report(r, a),
         NEW o \in disk.queue, disk'.delivery[o] = "delivered"
  PROVE  o \in replayDisk'
  <1> DEFINE wake == CarriesWake(r, a)
             delivered == r \in Imported \/ (wake /\ r \in replay)
             new == Upserted(mem, r, a, wake, delivered)
  <1>1. /\ \/ disk' \in {disk, new, QueueFailed(new)}
           \/ disk' = QueueFailed(mem) /\ new = mem
        /\ Good(new)
    BY ReportStores
  <1>2. /\ o \in Runs /\ disk.delivery[o] # "delivered" /\ o \notin Imported
        /\ disk.delivery[o] # "absent"
    BY StoreFields DEF AnswersInv, Copies, Good, Sound, Open, SlotOK, OwedStore, Owed
  <1>3. mem.delivery[o] # "delivered"
    BY <1>2 DEF AnswersInv, Copies, Evolves, Forward, Retained
  <1>4. /\ mem \in Store /\ a \in Account /\ wake \in BOOLEAN /\ delivered \in BOOLEAN
        /\ ~UpsertFull(mem, r, a, wake, delivered)
    BY IncomingAssumption DEF AnswersInv, Copies, Good, Sound, CarriesWake, Report
  <1> HIDE DEF wake, delivered, new
  <1>5. disk'.delivery[o] = "delivered" => new.delivery[o] = "delivered"
    BY <1>1, <1>2, QueueFailedFacts DEF Good, Sound
  <1>6. o = r /\ delivered
    BY <1>2, <1>3, <1>4, <1>5, UpsertedCloses DEF new
  <1>7. o \in mem.queue /\ o \in replay
    BY <1>2, <1>6 DEF AnswersInv, ReplayKnown, delivered
  <1>8. replayDisk' = replayDisk
    BY DEF Report, canon
  <1> QED
    BY <1>7, <1>8 DEF AnswersInv, ReplayKnown

\* A report keeps the replay and the counts known: it queues no run whose
\* answer is there, and a count starts again with its row.
LEMMA ReportKnown ==
  ASSUME AnswersInv, SlotOK, NEW r \in Runs, NEW a \in Incoming, Report(r, a),
         recordings \in [Runs -> Nat]
  PROVE  ReplayKnown' /\ RecordedKnown'
  <1> DEFINE wake == CarriesWake(r, a)
             delivered == r \in Imported \/ (wake /\ r \in replay)
             new == Upserted(mem, r, a, wake, delivered)
  <1>1. /\ \/ mem' = mem /\ disk' = disk
           \/ mem' = mem /\ disk' = new
           \/ mem' \in {new, QueueFailed(new)} /\ disk' \in {new, QueueFailed(new)}
           \/ mem' \in {mem, QueueFailed(mem)} /\ disk' = QueueFailed(mem)
        /\ Good(new) /\ Evolves(mem, new)
    BY ReportStores
  <1>2. /\ mem \in Store /\ a \in Account /\ wake \in BOOLEAN /\ delivered \in BOOLEAN
        /\ ~UpsertFull(mem, r, a, wake, delivered)
        /\ \A o \in mem.queue : mem.delivery[o] \in {"pending", "in_progress", "failed"}
    BY IncomingAssumption DEF AnswersInv, Copies, Good, Sound, CarriesWake, Report,
       SlotOK, OwedStore, Owed
  <1>3. wake /\ ~delivered => r \notin replay
    OBVIOUS
  <1> HIDE DEF wake, delivered
  <1>4. \A o \in new.queue : o \in mem.queue \/ o \notin replay
    BY <1>2, <1>3, UpsertedFacts
  <1>5. UNCHANGED <<replay, replayDisk>>
    BY DEF Report, canon
  <1> HIDE DEF new
  <1>6. new \in Store
    BY <1>1 DEF Good, Sound
  <1>7. /\ mem'.queue = mem.queue \/ mem'.queue = new.queue
        /\ disk'.queue \ mem'.queue \subseteq (disk.queue \ mem.queue) \cup (new.queue \ mem.queue)
    BY <1>1, <1>2, <1>6, QueueFailedFacts
  <1>8. ReplayKnown'
    BY <1>4, <1>5, <1>7 DEF AnswersInv, ReplayKnown
  <1>9. /\ \A o \in Runs : mem.delivery[o] = "delivered" => mem'.delivery[o] \in {"delivered", "absent"}
        /\ \A o \in mem.queue : o \in mem'.queue \/ mem'.delivery[o] \in {"delivered", "absent"}
    <2>1. mem' \in {mem, new, QueueFailed(new), QueueFailed(mem)}
      BY <1>1
    <2>2. /\ \A o \in Runs : mem.delivery[o] = "delivered" => new.delivery[o] \in {"delivered", "absent"}
          /\ \A o \in mem.queue : o \in new.queue \/ new.delivery[o] \in {"delivered", "absent"}
      <3>1. mem.queue \subseteq Runs
        BY <1>2, StoreFields
      <3> QED
        BY <1>1, <3>1 DEF Evolves, Forward, Retained
    <2>3. mem.queue \subseteq Runs
      BY <1>2, StoreFields
    <2> QED
      BY <1>2, <1>6, <2>1, <2>2, <2>3, QueueFailedFacts
  <1>10. recordings' = SinceTakenIn(mem', recordings)
    BY DEF Report
  <1>11. ASSUME NEW o \in Runs
         PROVE  /\ recordings'[o] <= 1
                /\ recordings'[o] # 0 => \/ mem'.delivery[o] = "delivered"
                                         \/ o \in mem'.queue \cap replay'
    <2>1. recordings'[o] = IF mem'.delivery[o] = "absent" THEN 0 ELSE recordings[o]
      BY <1>10 DEF SinceTakenIn
    <2> QED
      BY <1>5, <1>9, <2>1 DEF AnswersInv, RecordedKnown
  <1> QED
    BY <1>8, <1>11 DEF RecordedKnown

-----------------------------------------------------------------------------
(* A restart. *)

\* A restarted service closes only what disk answers, and keeps the copies
\* together, the acknowledged runs and the counts.
LEMMA RestartAnswers ==
  ASSUME AnswersInv, Restart, recordings \in [Runs -> Nat]
  PROVE  /\ AnswersInv'
         /\ \A o \in disk.queue : disk'.delivery[o] = "delivered" => o \in replayDisk'
  <1> DEFINE opened == Reopened(disk)
             recovered == Recovered(opened, replayDisk)
             at(reopening) == IF opened = disk THEN disk ELSE OnDisk(disk, opened, reopening)
             C == opened.queue \cap replayDisk
             known == [r \in Runs |-> IF r \in (replayDisk \ replay) \cap mem.queue
                                      THEN recordings[r] + 1 ELSE recordings[r]]
  <1>1. /\ Good(mem) /\ Good(disk) /\ Evolves(mem, disk) /\ disk \in Store
        /\ Open(disk) /\ Open(mem) /\ mem.queue \subseteq Runs /\ disk.queue \subseteq Runs
    BY StoreFields DEF AnswersInv, Copies, Good, Sound
  <1>2. Settles(disk, opened, {}) /\ Evolves(opened, disk)
    BY <1>1, OperationsSettle
  <1>3. /\ \E reopening \in Outcomes, recovering \in Outcomes :
             \/ mem' = opened /\ disk' = at(reopening)
             \/ PersistFrom(opened, at(reopening), recovered, recovering)
        /\ active' = NoRun /\ acked' = acked \cap Retained(mem')
        /\ replay' = replayDisk /\ replayDisk' = replayDisk
        /\ recordings' = SinceTakenIn(mem', known)
    BY DEF Restart
  <1> HIDE DEF opened
  <1>4. Settles(opened, recovered, C)
    BY <1>2, OperationsSettle DEF Settles
  <1>5. \A reopening : at(reopening) \in {disk, opened}
    BY DEF OnDisk
  <1>6. Copies(opened, disk) /\ Copies(opened, opened) /\ Copies(recovered, recovered)
        /\ Copies(opened, recovered)
    BY <1>1, <1>2, <1>4, GoodReflexive DEF Copies, Settles
  <1> HIDE DEF recovered, at
  <1>7. \/ mem' = opened /\ disk' \in {disk, opened, recovered}
        \/ mem' = recovered /\ disk' = recovered
    BY <1>3, <1>5 DEF PersistFrom, InMemory, OnDisk
  <1>8. Copies(mem', disk')
    BY <1>6, <1>7
  <1>9. ReplayKnown'
    BY <1>2, <1>3, <1>4, <1>7 DEF ReplayKnown, Settles
  <1>10. /\ \A o \in Runs : disk.delivery[o] = "delivered" => mem'.delivery[o] = "delivered"
         /\ \A o \in Runs : disk.delivery[o] = "absent" => mem'.delivery[o] = "absent"
         /\ \A o \in disk.queue : o \in mem'.queue \/ mem'.delivery[o] = "delivered"
    BY <1>1, <1>2, <1>4, <1>7 DEF Settles, Retained
  <1>11. /\ \A o \in Runs : mem.delivery[o] = "delivered" => mem'.delivery[o] \in {"delivered", "absent"}
         /\ \A o \in mem.queue : o \in mem'.queue \/ mem'.delivery[o] \in {"delivered", "absent"}
    BY <1>1, <1>10 DEF Evolves, Forward, Retained
  <1>12. ASSUME NEW o \in Runs
         PROVE  /\ recordings'[o] <= 1
                /\ recordings'[o] # 0 => \/ mem'.delivery[o] = "delivered"
                                         \/ o \in mem'.queue \cap replay'
    <2>1. recordings'[o] = IF mem'.delivery[o] = "absent" THEN 0
                           ELSE IF o \in (replayDisk \ replay) \cap mem.queue
                           THEN recordings[o] + 1 ELSE recordings[o]
      BY <1>3 DEF SinceTakenIn
    <2>2. CASE o \in (replayDisk \ replay) \cap mem.queue
      <3>1. recordings[o] = 0
        BY <1>1, <2>2 DEF AnswersInv, RecordedKnown, Open
      <3> QED
        BY <1>3, <1>11, <2>1, <2>2, <3>1
    <2>3. CASE o \notin (replayDisk \ replay) \cap mem.queue
      BY <1>3, <1>11, <2>1, <2>3 DEF AnswersInv, RecordedKnown, ReplayKnown
    <2> QED
      BY <2>2, <2>3
  <1>13. ReservationDurable'
    BY <1>1, <1>3, <1>8, RunsAssumption, StoreFields DEF ReservationDurable, NoRun, Copies, Good, Sound
  <1>14. ASSUME NEW o \in disk.queue, disk'.delivery[o] = "delivered"
         PROVE  o \in replayDisk'
    BY <1>1, <1>2, <1>3, <1>4, <1>7, <1>14 DEF Settles, Open
  <1> QED
    BY <1>3, <1>8, <1>9, <1>12, <1>13, <1>14 DEF AnswersInv, RecordedKnown

-----------------------------------------------------------------------------
(* The reservation. *)

\* The row in the slot is on disk when disk equals memory, when neither moved,
\* and when the slot is empty.
LEMMA ReservationKept ==
  ASSUME ReservationDurable, SlotOK', active' \in Runs \cup {NoRun},
         Good(mem'),
         \/ active' = NoRun
         \/ disk' = mem'
         \/ UNCHANGED <<mem, disk, active>>
  PROVE  ReservationDurable'
  <1>1. mem'.queue \subseteq Runs /\ NoRun \notin Runs
    BY StoreFields, RunsAssumption DEF Good, Sound, NoRun
  <1> QED
    BY <1>1 DEF ReservationDurable, SlotOK, SlotBacked

\* A report does not take the row in the slot off the disk's account.
LEMMA ReservationReport ==
  ASSUME AnswersInv, SlotOK, SlotOK', active \in Runs \cup {NoRun}, Good(mem'),
         NEW r \in Runs, NEW a \in Incoming, Report(r, a)
  PROVE  ReservationDurable'
  <1> DEFINE wake == CarriesWake(r, a)
             delivered == r \in Imported \/ (wake /\ r \in replay)
             new == Upserted(mem, r, a, wake, delivered)
  <1>1. /\ active' = active /\ circuit' = circuit
        /\ \/ new = mem /\ FinishReport(r, mem, disk)
           \/ FinishReport(r, new, new)
           \/ \E outcome \in Outcomes \ {"stored"} : Persist(new, outcome)
    BY DEF Report, slot
  <1>2. /\ mem \in Store /\ a \in Account /\ wake \in BOOLEAN /\ delivered \in BOOLEAN
        /\ ~UpsertFull(mem, r, a, wake, delivered)
        /\ \A o \in mem.queue : mem.delivery[o] \in {"pending", "in_progress", "failed"}
    BY IncomingAssumption DEF AnswersInv, Copies, Good, Sound, CarriesWake, Report,
       SlotOK, OwedStore, Owed
  <1>3. Evolves(mem, new)
    BY ReportStores
  <1> HIDE DEF wake, delivered
  <1>4. \A o \in mem.queue : mem.delivery[o] = "in_progress" =>
          new.delivery[o] \in {"in_progress", "delivered"}
    <2>1. \A o \in mem.queue : mem.delivery[o] = "in_progress" /\ o \in new.queue =>
            new.delivery[o] = "in_progress"
      BY <1>2, UpsertedFacts
    <2>2. mem.queue \subseteq Runs
      BY <1>2, StoreFields
    <2> QED
      BY <1>3, <2>1, <2>2 DEF Evolves
  <1> HIDE DEF new
  <1>5. CASE active = NoRun
    BY <1>1, <1>5, ReservationKept DEF AnswersInv
  <1>6. CASE active \in Runs
    <2>1. ~circuit
      BY <1>6, SlotClosesCircuit
    <2>2. CASE new = mem /\ FinishReport(r, mem, disk)
      <3>1. mem' = mem /\ disk' = disk
        BY <2>1, <2>2 DEF FinishReport
      <3> QED
        BY <1>1, <3>1, ReservationKept DEF AnswersInv
    <2>3. CASE FinishReport(r, new, new)
      <3>1. mem' = disk'
        BY <2>1, <2>3 DEF FinishReport
      <3> QED
        BY <1>1, <3>1, ReservationKept DEF AnswersInv
    <2>4. ASSUME NEW outcome \in Outcomes \ {"stored"}, Persist(new, outcome)
          PROVE  ReservationDurable'
      <3>1. mem' = mem /\ (disk' = disk \/ disk' = new)
        BY <2>4 DEF Persist, PersistFrom, InMemory, OnDisk
      <3>2. active \in mem.queue => mem.delivery[active] = "in_progress"
        BY <2>1, <1>6, SlotClosesCircuit DEF SlotOK, SlotBacked
      <3> QED
        BY <1>1, <1>4, <3>1, <3>2 DEF AnswersInv, ReservationDurable
    <2> QED
      BY <1>1, <2>2, <2>3, <2>4
  <1> QED
    BY <1>5, <1>6

\* Every step keeps the reservation of the event in the slot on disk.
LEMMA ReservationStep ==
  ASSUME AnswersInv, SlotOK, SlotOK', active \in Runs \cup {NoRun},
         active' \in Runs \cup {NoRun}, Good(mem'), [Next]_vars, ~Restart
  PROVE  ReservationDurable'
  <1>1. ReservationDurable
    BY DEF AnswersInv
  <1>2. CASE UNCHANGED <<mem, disk, active>> \/ active' = NoRun
    BY <1>1, <1>2, ReservationKept
  <1>3. ASSUME DispatchNow PROVE ReservationDurable'
    <2>1. CASE \E r \in Runs : SendWake(r)
      <3>1. disk' = mem'
        BY <2>1 DEF SendWake, Persist, PersistFrom, InMemory, OnDisk
      <3> QED
        BY <1>1, <3>1, ReservationKept
    <2>2. CASE ~\E r \in Runs : SendWake(r)
      BY <1>2, <1>3, <2>2 DEF DispatchNow, NothingWaits, OpenCircuit, ReservationFails,
         WakeNotSent, Ready, store, slot
    <2> QED
      BY <2>1, <2>2
  <1>4. CASE Dispatch \/ TimerFires
    BY <1>2, <1>3, <1>4 DEF Dispatch, TimerFires, store, slot
  <1>5. ASSUME NEW r \in Runs, NEW a \in Incoming, Report(r, a) PROVE ReservationDurable'
    BY <1>5, ReservationReport
  <1>6. ASSUME NEW r \in Runs, Response(r) PROVE ReservationDurable'
    <2>1. active = r
      BY <1>6 DEF Response
    <2>2. CASE AnswerNotRecorded(r)
      BY <1>2, <2>2 DEF AnswerNotRecorded, store
    <2>3. ASSUME NEW outcome \in Outcomes \ {"stored"}, r \in mem.queue,
                 Persist(Acknowledged(mem, r), outcome), active' = active
          PROVE  ReservationDurable'
      <3>1. mem' = mem /\ (disk' = disk \/ disk' = Acknowledged(mem, r))
        BY <2>3 DEF Persist, PersistFrom, InMemory, OnDisk
      <3>2. Acknowledged(mem, r).delivery[r] = "delivered"
        BY ClosedFacts DEF Acknowledged, AnswersInv, Copies, Good, Sound
      <3> QED
        BY <1>1, <2>1, <2>3, <3>1, <3>2 DEF ReservationDurable
    <2> QED
      BY <1>2, <1>6, <2>2, <2>3 DEF Response, AcknowledgeAnswer
  <1>7. ASSUME NEW terminal, OwnerTurn(terminal) PROVE ReservationDurable'
    <2>1. circuit => active = NoRun
      BY DEF SlotOK, SlotBacked
    <2> QED
      BY <1>2, <1>7, <2>1 DEF OwnerTurn, store, slot
  <1>8. CASE \/ AgentLeaves
             \/ BackoffElapses \/ AgentForgotten \/ TurnAborts \/ SurfaceRegisters
             \/ OtherAnswer \/ UNCHANGED vars
             \/ \E leased \in BOOLEAN : AgentJoins(leased)
             \/ \E r \in Runs : ProactiveStarted(r) \/ ProactiveSettled(r)
             \/ \E to \in Lifecycles \ {"stopped"} : LifecycleMoves(to)
    BY <1>2, <1>8 DEF AgentLeaves, BackoffElapses, AgentForgotten, TurnAborts,
       SurfaceRegisters, OtherAnswer, AgentJoins, ProactiveStarted, ProactiveSettled,
       LifecycleMoves, vars, store, slot
  <1> QED
    BY <1>4, <1>5, <1>6, <1>7, <1>8 DEF Next

-----------------------------------------------------------------------------
(* The invariant of the answers. *)

\* A service with nothing stored satisfies it.
LEMMA InitAnswers == Init => AnswersInv
  <1> SUFFICES ASSUME Init PROVE AnswersInv
    OBVIOUS
  <1>1. EmptyStore \in Store
    BY EmptyOwed DEF OwedStore
  <1>2. Retained(EmptyStore) = {} /\ EmptyStore.queue = {}
    BY DEF Retained, EmptyStore
  <1>3. Bounded(EmptyStore)
    BY <1>2, BoundsAssumption, FS_EmptySet DEF Bounded
  <1>4. Sound(EmptyStore)
    BY <1>1 DEF Sound, Open, Ordered, Counted, Settled, EmptyStore, NoAccount
  <1>5. Copies(mem, disk)
    BY <1>2, <1>3, <1>4, GoodReflexive DEF Init, Copies, Good, Kept
  <1>6. ReplayKnown /\ RecordedKnown /\ ReservationDurable
    BY <1>2 DEF Init, ReplayKnown, RecordedKnown, ReservationDurable
  <1> QED
    BY <1>5, <1>6 DEF Init, AnswersInv

\* The acknowledged runs change only with a report and a restart.
LEMMA AcknowledgedOnly ==
  ASSUME [Next]_vars, ~Restart, ~\E r \in Runs, a \in Incoming : Report(r, a)
  PROVE  acked' = acked
  BY DEF Next, vars, Dispatch, TimerFires, BackoffElapses, AgentJoins, AgentLeaves,
     AgentForgotten, ProactiveStarted, Response, ProactiveSettled, OwnerTurn, OtherAnswer,
     TurnAborts, LifecycleMoves, SurfaceRegisters

\* Every step keeps it, and closes an event on disk only with its answer there.
LEMMA AnswersStep ==
  ASSUME Inductive, Inductive', AnswersInv, [Next]_vars
  PROVE  /\ AnswersInv'
         /\ \A r \in disk.queue : disk'.delivery[r] = "delivered" => r \in replayDisk'
  <1>1. /\ SlotOK /\ SlotOK' /\ active \in Runs \cup {NoRun} /\ active' \in Runs \cup {NoRun}
        /\ recordings \in [Runs -> Nat]
        /\ Copies(mem, disk) /\ ReplayKnown /\ RecordedKnown /\ acked \subseteq Retained(mem)
    BY DEF Inductive, Gates, Seen, AnswersInv
  <1>2. CASE Restart
    BY <1>1, <1>2, RestartAnswers
  <1>3. ASSUME ~Restart, NEW r \in Runs, NEW a \in Incoming, Report(r, a)
        PROVE  /\ AnswersInv'
               /\ \A o \in disk.queue : disk'.delivery[o] = "delivered" => o \in replayDisk'
    <2>1. Copies(mem', disk') /\ acked' \subseteq Retained(mem')
      BY <1>1, <1>3, ReportStores
    <2>2. ReplayKnown' /\ RecordedKnown'
      BY <1>1, <1>3, ReportKnown
    <2>3. ReservationDurable'
      BY <1>1, <1>3, <2>1, ReservationStep DEF Copies
    <2>4. \A o \in disk.queue : disk'.delivery[o] = "delivered" => o \in replayDisk'
      BY <1>1, <1>3, ReportCloses
    <2> QED
      BY <2>1, <2>2, <2>3, <2>4 DEF AnswersInv
  <1>4. CASE ~Restart /\ ~\E r \in Runs, a \in Incoming : Report(r, a)
    <2>1. PICK C : Reach(mem', disk', C) /\ C \subseteq replay' \cap replayDisk'
      BY <1>1, <1>4, StepReach
    <2>2. ReplayKnown' /\ RecordedKnown'
      BY <1>1, <1>4, <2>1, StepReplay, KnownStep
    <2>3. Copies(mem', disk') /\ acked' \subseteq Retained(mem')
      BY <1>1, <1>4, <2>1, AcknowledgedOnly DEF Reach
    <2>4. ReservationDurable'
      BY <1>1, <1>4, <2>3, ReservationStep DEF Copies
    <2>5. ASSUME NEW r \in disk.queue, disk'.delivery[r] = "delivered"
          PROVE  r \in replayDisk'
      <3>1. /\ r \in Runs /\ disk.delivery[r] \notin {"absent", "delivered"}
        BY <1>1, StoreFields DEF Copies, Good, Sound, Open
      <3>2. mem.delivery[r] # "delivered"
        BY <1>1, <3>1 DEF Copies, Evolves, Forward, Retained
      <3> QED
        BY <2>1, <2>5, <3>1, <3>2 DEF Reach
    <2> QED
      BY <2>2, <2>3, <2>4, <2>5 DEF AnswersInv
  <1> QED
    BY <1>2, <1>3, <1>4

\* The invariant of the answers holds of every behaviour.
THEOREM AnswersInvariant == Spec => [](Inductive /\ AnswersInv)
  <1>1. Init => Inductive /\ AnswersInv
    BY InitInductive, InitAnswers
  <1>2. Inductive /\ AnswersInv /\ [Next]_vars => Inductive' /\ AnswersInv'
    BY InductiveStep, AnswersStep
  <1> QED
    BY <1>1, <1>2, PTL DEF Spec

\* A crash while the model works on a briefing finds its reservation on disk.
THEOREM ReservationsSurvive == Spec => []ReservationDurable
  <1>1. AnswersInv => ReservationDurable
    BY DEF AnswersInv
  <1> QED
    BY <1>1, AnswersInvariant, PTL

\* A run whose report was acknowledged is never lost: not to failed writes, to
\* the audit bound or to crashes.
THEOREM AcknowledgedSurvive == Spec => []AcknowledgedIsDurable
  <1>1. AnswersInv => AcknowledgedIsDurable
    <2> SUFFICES ASSUME AnswersInv, NEW r \in acked
                 PROVE  \/ r \in disk.queue
                        \/ disk.delivery[r] = "delivered"
                        \/ /\ disk.account[r].collection = "collecting"
                           /\ disk.delivery[r] # "absent"
                        \/ disk.delivery[r] = "absent" /\ Evictable(mem, r)
      BY DEF AcknowledgedIsDurable
    <2>1. r \in Retained(mem) /\ r \in Runs /\ Kept(disk) /\ Evolves(mem, disk)
      BY DEF AnswersInv, Copies, Good, Retained
    <2> QED
      BY <2>1 DEF Kept, Evolves, Retained
  <1> QED
    BY <1>1, AnswersInvariant, PTL

\* No retry, duplicate report, late response or restart records a second
\* answer while the audit keeps the row.
THEOREM AnswersAreRecordedOnce == Spec => []AnswerRecordedOnce
  <1>1. AnswersInv => AnswerRecordedOnce
    BY DEF AnswersInv, RecordedKnown, AnswerRecordedOnce
  <1> QED
    BY <1>1, AnswersInvariant, PTL

\* A queued wake is closed on disk only with its answer on disk.
THEOREM ClosedIsAnswered == Spec => AnsweredBeforeClosed
  <1> DEFINE Body == \A r \in disk.queue : disk'.delivery[r] = "delivered" => r \in replayDisk'
  <1>1. Inductive /\ AnswersInv /\ (Inductive /\ AnswersInv)' /\ [Next]_vars => [Body]_vars
    BY AnswersStep
  <1> QED
    BY <1>1, AnswersInvariant, PTL DEF Spec, AnsweredBeforeClosed

-----------------------------------------------------------------------------
(* A store that takes every write: what the rows and the surfaces say.      *)
(* With failing writes neither holds: a stop that could not be stored       *)
(* leaves rows pending, and an acknowledgement that could not be stored is  *)
(* repeated after the answer was shown.                                     *)

TakesEveryWrite == Outcomes = {"stored"}

\* One stored write.
LEMMA StoredPersist ==
  ASSUME NEW m, NEW d, NEW new, NEW outcome, outcome = "stored",
         PersistFrom(m, d, new, outcome)
  PROVE  mem' = new /\ disk' = new
  BY DEF PersistFrom, InMemory, OnDisk

\* A stopped queue is stopped row by row.
LEMMA StoppedQueue ==
  ASSUME NEW s, OwedStore(s)
  PROVE  \A r \in QueueFailed(s).queue : QueueFailed(s).delivery[r] = "failed"
  <1>1. s \in Store /\ s.queue \subseteq Runs
    BY StoreFields DEF OwedStore
  <1> QED
    BY <1>1, QueueFailedFacts DEF OwedStore, Owed

\* Stopping the queue leaves both copies with every row stopped.
LEMMA StoredStop ==
  ASSUME TakesEveryWrite, NEW m, OwedStore(m), StopQueueFrom(m, m)
  PROVE  /\ disk' = mem'
         /\ \A r \in mem'.queue : mem'.delivery[r] = "failed"
  <1>1. mem' = QueueFailed(m) /\ disk' = QueueFailed(m)
    BY StoredPersist DEF StopQueueFrom, TakesEveryWrite
  <1> QED
    BY <1>1, StoppedQueue

\* Returning an event to the inbox stores it.
LEMMA StoredReturn ==
  ASSUME TakesEveryWrite, NEW r, disk = mem, ReturnToInbox(r, disk)
  PROVE  disk' = mem' /\ circuit' = circuit
  BY StoredPersist DEF ReturnToInbox, TakesEveryWrite

\* While the circuit is open every queued row says so, after every step.
LEMMA StoppedStep ==
  ASSUME TakesEveryWrite, SlotOK, active \in Runs \cup {NoRun}, disk = mem,
         StoppedRowsSaySo, [Next]_vars, ~Restart,
         OwedStore(mem')
  PROVE  StoppedRowsSaySo' /\ disk' = mem'
  <1>1. CASE UNCHANGED <<mem, disk, circuit>>
    BY <1>1 DEF StoppedRowsSaySo
  <1>2. CASE ~circuit' /\ disk' = mem'
    BY <1>2 DEF StoppedRowsSaySo
  <1>3. ASSUME DispatchNow PROVE StoppedRowsSaySo' /\ disk' = mem'
    <2>1. ASSUME NEW r \in Runs, OpenCircuit(r) PROVE StoppedRowsSaySo' /\ disk' = mem'
      <3>1. mem' = QueueFailed(mem) /\ disk' = QueueFailed(mem)
        BY <2>1, StoredPersist DEF OpenCircuit, Persist, TakesEveryWrite
      <3> QED
        BY <3>1, StoppedQueue DEF StoppedRowsSaySo, SlotOK
    <2>2. ASSUME NEW r \in Runs, ReservationFails(r) PROVE FALSE
      BY <2>2 DEF ReservationFails, TakesEveryWrite
    <2>3. ASSUME NEW r \in Runs, Ready, SendWake(r) PROVE ~circuit' /\ disk' = mem'
      BY <2>3, StoredPersist DEF SendWake, Ready, Persist
    <2>4. ASSUME NEW r \in Runs, Ready, WakeNotSent(r) PROVE ~circuit' /\ disk' = mem'
      BY <2>4, StoredPersist DEF WakeNotSent, Ready, TakesEveryWrite
    <2>5. CASE ~Ready \/ NothingWaits
      BY <1>1, <1>3, <2>5 DEF DispatchNow, NothingWaits, store, IsNext, Waiting
    <2> QED
      BY <1>2, <1>3, <2>1, <2>2, <2>3, <2>4, <2>5 DEF DispatchNow
  <1>4. CASE Dispatch \/ TimerFires
    BY <1>1, <1>3, <1>4 DEF Dispatch, TimerFires, store
  <1>5. ASSUME NEW r \in Runs, NEW a \in Incoming, Report(r, a)
        PROVE  StoppedRowsSaySo' /\ disk' = mem'
    <2> DEFINE wake == CarriesWake(r, a)
               delivered == r \in Imported \/ (wake /\ r \in replay)
               new == Upserted(mem, r, a, wake, delivered)
    <2>1. /\ circuit' = circuit
          /\ FinishReport(r, new, new)
      BY <1>5 DEF Report, TakesEveryWrite
    <2> HIDE DEF new
    <2>2. CASE ~circuit
      <3>1. disk' = mem'
        BY <2>1, <2>2 DEF FinishReport
      <3> QED
        BY <1>2, <2>1, <2>2, <3>1
    <2>3. CASE circuit
      <3>1. disk' = mem' /\ mem' = QueueFailed(new)
        BY <2>1, <2>3, StoredPersist DEF FinishReport, TakesEveryWrite
      <3>2. OwedStore(new)
        BY <1>5, UpsertedOwed, IncomingAssumption DEF new, Report, CarriesWake, SlotOK
      <3> QED
        BY <3>1, <3>2, StoppedQueue DEF StoppedRowsSaySo
    <2> QED
      BY <2>2, <2>3
  <1>6. CASE AgentLeaves
    <2>1. CASE active = NoRun
      BY <1>1, <1>6, <2>1 DEF AgentLeaves, store
    <2>2. CASE active \in Runs
      <3>1. ~circuit /\ active # NoRun
        BY <2>2, SlotClosesCircuit
      <3> QED
        BY <1>2, <1>6, <3>1, StoredReturn DEF AgentLeaves
    <2> QED
      BY <2>1, <2>2
  <1>7. ASSUME NEW r \in Runs, Response(r) PROVE StoppedRowsSaySo' /\ disk' = mem'
    <2>1. ~circuit
      BY <1>7, SlotClosesCircuit DEF Response
    <2>2. CASE AnswerNotRecorded(r)
      BY <1>1, <2>2 DEF AnswerNotRecorded, TakesEveryWrite
    <2>3. CASE Persist(Acknowledged(mem, r), "stored") /\ circuit' = circuit
      BY <1>2, <2>1, <2>3, StoredPersist DEF Persist
    <2>4. CASE StopQueueFrom(mem, disk)
      BY <2>4, StoredStop DEF StoppedRowsSaySo, SlotOK
    <2> QED
      BY <1>7, <2>2, <2>3, <2>4 DEF Response, AcknowledgeAnswer, TakesEveryWrite
  <1>8. ASSUME NEW r \in Runs, ProactiveSettled(r) PROVE StoppedRowsSaySo' /\ disk' = mem'
    <2>1. ~circuit
      BY <1>8, SlotClosesCircuit DEF ProactiveSettled
    <2>2. CASE Persist(Recovered(mem, {r}), "stored") /\ circuit' = circuit
      BY <1>2, <2>1, <2>2, StoredPersist DEF Persist
    <2>3. CASE ReturnToInbox(r, disk)
      BY <1>2, <2>1, <2>3, StoredReturn
    <2> QED
      BY <1>8, <2>2, <2>3 DEF ProactiveSettled, TakesEveryWrite
  <1>9. ASSUME NEW terminal, OwnerTurn(terminal) PROVE StoppedRowsSaySo' /\ disk' = mem'
    <2>1. CASE UNCHANGED <<store, circuit>>
      BY <1>1, <2>1 DEF store
    <2>2. CASE circuit' = FALSE /\ (UNCHANGED store \/ Persist(ResumeStopped(mem), "stored"))
      BY <1>2, <2>2, StoredPersist DEF Persist, store
    <2> QED
      BY <1>9, <2>1, <2>2 DEF OwnerTurn, TakesEveryWrite
  <1>10. CASE \/ BackoffElapses \/ AgentForgotten \/ TurnAborts \/ SurfaceRegisters
              \/ OtherAnswer \/ UNCHANGED vars
              \/ \E leased \in BOOLEAN : AgentJoins(leased)
              \/ \E r \in Runs : ProactiveStarted(r)
              \/ \E to \in Lifecycles \ {"stopped"} : LifecycleMoves(to)
    BY <1>1, <1>10 DEF BackoffElapses, AgentForgotten, TurnAborts, SurfaceRegisters,
       OtherAnswer, AgentJoins, ProactiveStarted, LifecycleMoves, vars, store
  <1> QED
    BY <1>4, <1>5, <1>6, <1>7, <1>8, <1>9, <1>10 DEF Next

\* A restart stores what it opened and closes the circuit.
LEMMA StoppedRestart ==
  ASSUME TakesEveryWrite, Restart
  PROVE  StoppedRowsSaySo' /\ disk' = mem'
  <1> DEFINE opened == Reopened(disk)
             recovered == Recovered(opened, replayDisk)
  <1>1. /\ ~circuit'
        /\ \/ mem' = opened /\ disk' = (IF opened = disk THEN disk ELSE OnDisk(disk, opened, "stored"))
           \/ \E d : PersistFrom(opened, d, recovered, "stored")
    BY DEF Restart, TakesEveryWrite
  <1> HIDE DEF opened, recovered
  <1>2. disk' = mem'
    BY <1>1, StoredPersist DEF OnDisk
  <1> QED
    BY <1>1, <1>2 DEF StoppedRowsSaySo

\* With a store that takes every write, delivery that stopped says so in every
\* row it will not send, the ones reported after the stop included.
THEOREM StoppedRowsAreSaid ==
  ASSUME TakesEveryWrite
  PROVE  Spec => []StoppedRowsSaySo
  <1> DEFINE Stopped == StoppedRowsSaySo /\ disk = mem
  <1>1. Init => Stopped
    BY DEF Init, StoppedRowsSaySo
  <1>2. Inductive /\ Inductive' /\ Stopped /\ [Next]_vars => Stopped'
    BY StoppedStep, StoppedRestart DEF Inductive, Gates, SlotOK
  <1>3. Stopped => StoppedRowsSaySo
    OBVIOUS
  <1> HIDE DEF Stopped
  <1> QED
    BY <1>1, <1>2, <1>3, AnswersInvariant, PTL DEF Spec

\* The inbox keeps every row.
KeepsEveryRow == Cardinality(Runs) <= MaxRows

\* What was answered is closed, was shown to the surface that is registered,
\* and was shown at most once.
Audience ==
  /\ disk = mem /\ replayDisk = replay
  /\ \A r \in replay : mem.delivery[r] = "delivered"
  /\ \A r \in Runs : /\ shown[r] <= 1
                     /\ shown[r] # 0 => mem.delivery[r] = "delivered"
  /\ surface => \A r \in replay : shown[r] = 1

\* An audit that has room keeps the rows a report does not touch.
LEMMA NothingEvicted ==
  ASSUME KeepsEveryRow, NEW s
  PROVE  Compacted(s) = s
  <1>1. Retained(s) \subseteq Runs
    BY DEF Retained
  <1>2. Cardinality(Retained(s)) <= Cardinality(Runs)
    BY <1>1, RunsAssumption, FS_Subset
  <1>3. Cardinality(Retained(s)) \in Nat /\ Cardinality(Runs) \in Nat /\ MaxRows \in Nat
    BY <1>1, RunsAssumption, BoundsAssumption, FS_Subset, FS_CardinalityType
  <1>4. ~OverBound(s)
    BY <1>2, <1>3 DEF OverBound, KeepsEveryRow
  <1> QED
    BY <1>4 DEF Compacted

\* A closed row stays closed while the process lives.
LEMMA ClosedStays ==
  ASSUME KeepsEveryRow, Inductive, AnswersInv, [Next]_vars, ~Restart, NEW r \in Runs,
         mem.delivery[r] = "delivered"
  PROVE  mem'.delivery[r] = "delivered"
  <1>1. /\ Copies(mem, disk) /\ ReplayKnown /\ active \in Runs \cup {NoRun} /\ SlotOK
    BY DEF Inductive, Gates, AnswersInv
  <1>2. CASE ~\E o \in Runs, a \in Incoming : Report(o, a)
    BY <1>1, <1>2, StepReach DEF Reach
  <1>3. ASSUME NEW o \in Runs, NEW a \in Incoming, Report(o, a)
        PROVE  mem'.delivery[r] = "delivered"
    <2> DEFINE wake == CarriesWake(o, a)
               delivered == o \in Imported \/ (wake /\ o \in replay)
               new == Upserted(mem, o, a, wake, delivered)
    <2>1. mem' \in {mem, new, QueueFailed(new), QueueFailed(mem)} /\ Good(new)
      BY <1>1, <1>3, ReportStores
    <2>2. mem \in Store /\ a \in Account /\ wake \in BOOLEAN /\ delivered \in BOOLEAN
      BY <1>1, IncomingAssumption DEF Copies, Good, Sound, CarriesWake
    <2>3. new = Merged(mem, o, a, wake, delivered)
      BY NothingEvicted DEF Upserted
    <2> HIDE DEF wake, delivered, new
    <2>4. new.delivery = MergeRow(mem, o, a, delivered).delivery
      BY <2>2, <2>3, MergedFacts
    <2>5. MergeRow(mem, o, a, delivered).delivery[r] = "delivered"
      BY <2>2, MergeRowFacts
    <2>6. new.delivery[r] = "delivered"
      BY <2>4, <2>5
    <2> QED
      BY <2>1, <2>2, <2>6, QueueFailedFacts DEF Good, Sound
  <1> QED
    BY <1>2, <1>3

\* With every write stored, an answer is recorded, closed and shown in one
\* step.
LEMMA AudienceResponse ==
  ASSUME TakesEveryWrite, Inductive, AnswersInv, Audience, disk' = mem',
         NEW r \in Runs, Response(r),
         \A o \in Runs : mem.delivery[o] = "delivered" => mem'.delivery[o] = "delivered"
  PROVE  Audience'
  <1>1. /\ mem.queue \subseteq Runs /\ \A o \in mem.queue : mem.delivery[o] # "delivered"
        /\ mem \in Store /\ replay \subseteq Runs /\ shown \in [Runs -> 0..2]
        /\ SlotOK /\ active = r /\ active # NoRun /\ surface' = surface
    BY StoreFields, SlotClosesCircuit DEF AnswersInv, Copies, Good, Sound, Open, Inductive,
       Seen, Response
  <1>2. r \in mem.queue \/ r \in replay
    BY <1>1 DEF SlotOK, SlotBacked
  <1>3. CASE RecordAnswer(r) /\ AcknowledgeAnswer(r)
    <2>1. r \in mem.queue /\ shown[r] = 0
      BY <1>1, <1>2, <1>3 DEF RecordAnswer, Audience
    <2>2. Persist(Acknowledged(mem, r), "stored") /\ Broadcast(r)
      BY <1>3, <2>1 DEF AcknowledgeAnswer, TakesEveryWrite
    <2>3. mem'.delivery[r] = "delivered"
      <3>1. mem' = Acknowledged(mem, r)
        BY <2>2, StoredPersist DEF Persist
      <3>2. Acknowledged(mem, r).delivery[r] = "delivered"
        BY <1>1, ClosedFacts DEF Acknowledged
      <3> QED
        BY <3>1, <3>2
    <2>4. /\ \A o \in Runs \ {r} : shown'[o] = shown[o]
          /\ shown'[r] = IF surface THEN 1 ELSE 0
      BY <1>1, <2>1, <2>2 DEF Broadcast, Lesser
    <2>5. replay' \subseteq replay \cup {r} /\ replayDisk' = replay'
      BY <1>3 DEF RecordAnswer
    <2> QED
      BY <1>1, <2>3, <2>4, <2>5 DEF Audience
  <1>4. CASE r \in replay /\ UNCHANGED <<canon, recordings>> /\ AcknowledgeAnswer(r)
    <2>1. r \notin mem.queue
      BY <1>1, <1>4 DEF Audience
    <2>2. UNCHANGED <<shown, replay, replayDisk>>
      BY <1>4, <2>1 DEF AcknowledgeAnswer, canon
    <2> QED
      BY <1>1, <2>2 DEF Audience
  <1> QED
    BY <1>3, <1>4 DEF Response, AnswerNotRecorded, TakesEveryWrite

\* Every step keeps the audience.
LEMMA AudienceStep ==
  ASSUME TakesEveryWrite, KeepsEveryRow, Inductive, AnswersInv, StoppedRowsSaySo, Audience,
         OwedStore(mem'), [Next]_vars
  PROVE  Audience'
  <1>1. /\ SlotOK /\ active \in Runs \cup {NoRun} /\ disk = mem
        /\ replay \subseteq Runs /\ shown \in [Runs -> 0..2]
        /\ mem.queue \subseteq Runs /\ \A o \in mem.queue : mem.delivery[o] # "delivered"
    BY StoreFields DEF Inductive, Gates, Seen, Audience, AnswersInv, Copies, Good, Sound, Open
  <1>2. disk' = mem'
    BY <1>1, StoppedStep, StoppedRestart
  <1>3. CASE Restart
    <2>1. /\ surface' = FALSE /\ \A r \in Runs : shown'[r] = 0
          /\ replay' = replayDisk /\ replayDisk' = replayDisk
      BY <1>3 DEF Restart
    <2>2. \A r \in replay : mem'.delivery[r] = "delivered"
      <3> DEFINE opened == Reopened(disk)
                 recovered == Recovered(opened, replayDisk)
      <3>1. /\ opened \in Store
            /\ \A r \in replay : opened.delivery[r] = "delivered"
        BY <1>1, ReopenedFacts DEF Audience, SlotOK, OwedStore
      <3>2. mem' \in {opened, recovered}
        BY <1>3 DEF Restart, PersistFrom, InMemory
      <3> HIDE DEF opened
      <3>3. \A r \in replay : recovered.delivery[r] = "delivered"
        BY <1>1, <3>1, ClosedFacts DEF Recovered
      <3> HIDE DEF recovered
      <3> QED
        BY <3>1, <3>2, <3>3
    <2> QED
      BY <1>2, <2>1, <2>2 DEF Audience
  <1>4. CASE ~Restart
    <2>1. \A r \in Runs : mem.delivery[r] = "delivered" => mem'.delivery[r] = "delivered"
      BY <1>4, ClosedStays
    <2>2. CASE UNCHANGED <<shown, surface>> /\ replayDisk' = replay' /\ replay' \subseteq replay
      BY <1>1, <1>2, <2>1, <2>2 DEF Audience
    <2>3. ASSUME NEW r \in Runs, Response(r) PROVE Audience'
      BY <1>2, <2>1, <2>3, AudienceResponse
    <2>4. ASSUME NEW r \in Runs, ProactiveSettled(r) PROVE Audience'
      <3>1. r \notin replay \cap mem.queue
        BY <1>1 DEF Audience
      <3>2. UNCHANGED <<shown, surface, replay, replayDisk>>
        BY <2>4, <3>1 DEF ProactiveSettled, canon
      <3> QED
        BY <2>2, <3>2 DEF Audience
    <2>5. CASE SurfaceRegisters
      <3>1. /\ mem' = mem /\ replay' = replay /\ replayDisk' = replayDisk
            /\ \A r \in Runs : shown'[r] = IF r \in replay THEN 1 ELSE 0
        BY <2>5 DEF SurfaceRegisters, store, canon
      <3> QED
        BY <1>1, <1>2, <3>1 DEF Audience
    <2>6. CASE OtherAnswer \/ \E terminal \in BOOLEAN : OwnerTurn(terminal)
      <3>1. UNCHANGED <<shown, surface>> /\ RecordMessage
        BY <2>6 DEF OtherAnswer, OwnerTurn, screen
      <3>2. replayDisk' = replay' /\ replay' \subseteq replay
        BY <3>1 DEF RecordMessage, OnDisk, TakesEveryWrite
      <3> QED
        BY <2>2, <3>1, <3>2
    <2>7. CASE \/ Dispatch \/ TimerFires \/ AgentLeaves
               \/ \E r \in Runs, a \in Incoming : Report(r, a)
               \/ BackoffElapses \/ AgentForgotten \/ TurnAborts \/ UNCHANGED vars
               \/ \E leased \in BOOLEAN : AgentJoins(leased)
               \/ \E r \in Runs : ProactiveStarted(r)
               \/ \E to \in Lifecycles \ {"stopped"} : LifecycleMoves(to)
      <3>1. UNCHANGED <<shown, surface, replay, replayDisk>>
        BY <2>7 DEF Dispatch, TimerFires, AgentLeaves, Report, BackoffElapses, AgentForgotten,
           TurnAborts, AgentJoins, ProactiveStarted, LifecycleMoves, vars, canon, screen
      <3> QED
        BY <2>2, <3>1 DEF Audience
    <2> QED
      BY <1>4, <2>3, <2>4, <2>5, <2>6, <2>7 DEF Next
  <1> QED
    BY <1>3, <1>4

\* The audience of every behaviour.
LEMMA AudienceInvariant ==
  ASSUME TakesEveryWrite, KeepsEveryRow
  PROVE  Spec => []Audience
  <1>1. Init => Audience
    BY DEF Init, Audience
  <1>2. /\ Inductive /\ AnswersInv /\ Inductive' /\ StoppedRowsSaySo /\ Audience /\ [Next]_vars
        => Audience'
    BY AudienceStep DEF Inductive, SlotOK
  <1> QED
    BY <1>1, <1>2, AnswersInvariant, StoppedRowsAreSaid, PTL DEF Spec

\* With every write stored and room in the audit, a surface is shown an answer
\* at most once, the replay it was registered with included.
THEOREM AnswersAreShownOnce ==
  ASSUME TakesEveryWrite, KeepsEveryRow
  PROVE  Spec => []ShownAtMostOnce
  <1>1. Audience => ShownAtMostOnce
    BY DEF Audience, ShownAtMostOnce
  <1> QED
    BY <1>1, AudienceInvariant, PTL

\* And a surface that is registered has the answer of every closed briefing.
THEOREM AnswersAreShown ==
  ASSUME TakesEveryWrite, KeepsEveryRow
  PROVE  Spec => []ShownWhenDelivered
  <1>1. Audience => ShownWhenDelivered
    BY DEF Audience, ShownWhenDelivered
  <1> QED
    BY <1>1, AudienceInvariant, PTL
=============================================================================
