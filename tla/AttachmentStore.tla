--------------------------- MODULE AttachmentStore ---------------------------
(****************************************************************************)
(* The durable attachment bytes of the service                              *)
(* (host/service/src/attachment.rs): an object and a metadata record on     *)
(* disk for each attachment, an index of the records in memory, two quotas  *)
(* and two retentions.  The index lock makes every operation one step; the  *)
(* process can still die inside it, between two files.                      *)
(*                                                                          *)
(* Attachments are numbered in the order they are stored; their names,      *)
(* media types and bytes are left out, sizes are not.                       *)
(****************************************************************************)
EXTENDS Integers, FiniteSets, Sequences, Functions

CONSTANTS
  Sizes,         \* the size of each attachment that may be stored, in order
  ObjectQuotas,  \* MAX_OBJECTS, of the release each start may run
  ByteQuota,     \* MAX_TOTAL_BYTES
  Unreferenced,  \* UNREFERENCED_RETENTION
  Referenced,    \* REFERENCED_RETENTION
  MaxClock,      \* where the clock stops
  MaxFaults      \* failed writes and removals, and deaths of the process

Attachments == DOMAIN Sizes

ASSUME StoreAssumption ==
  /\ Sizes \in Seq(Nat \ {0})
  /\ ObjectQuotas \subseteq Nat \ {0} /\ ObjectQuotas # {}
  /\ {ByteQuota, Unreferenced, Referenced, MaxClock, MaxFaults} \subseteq Nat
  /\ Unreferenced <= Referenced

VARIABLES
  up,        \* a service process has the store open
  quota,     \* the object quota of this process
  index,     \* Index::records
  bytes,     \* Index::bytes
  records,   \* the metadata directory
  objects,   \* the objects directory
  clock,
  stored,    \* how many identifiers have been drawn
  sent,      \* attachments of the messages taken, with when each was stored
  refusal,   \* what the last put was refused over
  faults

disk == <<records, objects>>
vars == <<up, quota, index, bytes, records, objects, clock, stored, sent, refusal, faults>>

Records == [created : Nat, referenced : BOOLEAN]

\* The bytes of some attachments, each as whose it is and its position.
BytesOf(ids) == UNION {{i} \X (1..Sizes[i]) : i \in ids}
Weight(ids) == Cardinality(BytesOf(ids))

Retention(record) == IF record.referenced THEN Referenced ELSE Unreferenced
Expired(record) == clock - record.created > Retention(record)
ExpiredIn(entries) == {i \in DOMAIN entries : Expired(entries[i])}

Without(entries, ids) == Restrict(entries, DOMAIN entries \ ids)
With(entries, id, record) ==
  [i \in DOMAIN entries \cup {id} |-> IF i = id THEN record ELSE entries[i]]

-----------------------------------------------------------------------------
Full(entries, total, size) ==
  Cardinality(DOMAIN entries) >= quota \/ total + size > ByteQuota

\* expire, when the quota is what would refuse this put.
Expiring(id) == IF Full(index, bytes, Sizes[id]) THEN ExpiredIn(index) ELSE {}

Freed(gone) == Weight(gone)

\* discard: each of the two files of a record goes unless it cannot be removed.
Discard(gone) ==
  \E kept \in SUBSET gone : \E left \in SUBSET gone :
    /\ \/ kept \cup left = {} /\ UNCHANGED faults
       \/ kept \cup left # {} /\ faults < MaxFaults /\ faults' = faults + 1
    /\ records' = Without(records, gone \ kept)
    /\ objects' = objects \ (gone \ left)

\* put_reader refuses.
Refuse ==
  /\ up /\ stored + 1 \in Attachments
  /\ LET id == stored + 1
         gone == Expiring(id)
         left == Without(index, gone)
         total == bytes - Freed(gone)
     IN  /\ Full(left, total, Sizes[id])
         /\ Discard(gone)
         /\ index' = left /\ bytes' = total
         /\ refusal' = [live |-> Cardinality({i \in DOMAIN index : ~Expired(index[i])}),
                        size |-> Weight({i \in DOMAIN index : ~Expired(index[i])}) + Sizes[id],
                        quota |-> quota]
  /\ UNCHANGED <<up, quota, clock, stored, sent>>

\* put_reader stores: the object is renamed into place, then its record, and
\* only then is it indexed.
Put ==
  /\ up /\ stored + 1 \in Attachments
  /\ LET id == stored + 1
         gone == Expiring(id)
         left == Without(index, gone)
         total == bytes - Freed(gone)
         record == [created |-> clock, referenced |-> FALSE]
     IN  /\ ~Full(left, total, Sizes[id])
         /\ stored' = id
         /\ index' = With(left, id, record)
         /\ bytes' = total + Sizes[id]
         /\ records' = With(Without(records, gone), id, record)
         /\ objects' = (objects \ gone) \cup {id}
  /\ UNCHANGED <<up, quota, clock, sent, refusal, faults>>

\* The object or the record could not be written: nothing is indexed, and the
\* object is removed if it can be.
PutFails ==
  /\ up /\ stored + 1 \in Attachments /\ faults < MaxFaults
  /\ LET id == stored + 1
         gone == Expiring(id)
         left == Without(index, gone)
     IN  /\ ~Full(left, bytes - Freed(gone), Sizes[id])
         /\ stored' = id
         /\ index' = left /\ bytes' = bytes - Freed(gone)
         /\ records' = Without(records, gone)
         /\ objects' \in {objects \ gone, (objects \ gone) \cup {id}}
  /\ faults' = faults + 1
  /\ UNCHANGED <<up, quota, clock, sent, refusal>>

\* The process dies inside a put: among the removals, metadata before object,
\* after the object, or after its record.
DiesInPut ==
  /\ up /\ stored + 1 \in Attachments /\ faults < MaxFaults
  /\ LET id == stored + 1
         gone == Expiring(id)
         record == [created |-> clock, referenced |-> FALSE]
     IN  \/ \E removed \in SUBSET gone : \E half \in SUBSET removed :
              /\ Cardinality(half) <= 1
              /\ records' = Without(records, removed)
              /\ objects' = objects \ (removed \ half)
              /\ UNCHANGED stored
         \/ /\ ~Full(Without(index, gone), bytes - Freed(gone), Sizes[id])
            /\ stored' = id
            /\ objects' = (objects \ gone) \cup {id}
            /\ records' \in {Without(records, gone), With(Without(records, gone), id, record)}
  /\ up' = FALSE /\ index' = <<>> /\ bytes' = 0
  /\ faults' = faults + 1
  /\ UNCHANGED <<quota, clock, sent, refusal>>

-----------------------------------------------------------------------------
Marked(entries, ids) ==
  [i \in DOMAIN entries |-> IF i \in ids THEN [entries[i] EXCEPT !.referenced = TRUE]
                                         ELSE entries[i]]

\* The message is taken: a history of what its sender may count on.
Taken(ids) == [i \in DOMAIN sent \cup ids |-> IF i \in ids THEN index[i].created ELSE sent[i]]

\* Mutant: the message is taken and its attachments are marked in memory only.
MarksInMemory ==
  /\ up
  /\ \E ids \in SUBSET DOMAIN index \ {{}} :
       /\ index' = Marked(index, ids)
       /\ sent' = Taken(ids)
  /\ UNCHANGED <<up, quota, bytes, disk, clock, stored, refusal, faults>>

\* resolve for a message: every attachment is in the index, and each that was
\* not referenced is written so before the message is taken.
Send ==
  /\ up
  /\ \E ids \in SUBSET DOMAIN index \ {{}} :
       /\ index' = Marked(index, ids)
       /\ records' = [i \in DOMAIN records |-> IF i \in ids THEN index'[i] ELSE records[i]]
       /\ sent' = Taken(ids)
  /\ UNCHANGED <<up, quota, bytes, objects, clock, stored, refusal, faults>>

\* One of the writes fails: the message is refused, and the attachments before
\* it stay marked.
SendFails ==
  /\ up /\ faults < MaxFaults
  /\ \E ids \in SUBSET DOMAIN index : \E marked \in SUBSET ids :
       /\ marked # ids
       /\ \E i \in ids \ marked : ~index[i].referenced
       /\ index' = Marked(index, marked)
       /\ records' = [i \in DOMAIN records |-> IF i \in marked THEN index'[i] ELSE records[i]]
  /\ faults' = faults + 1
  /\ UNCHANGED <<up, quota, bytes, objects, clock, stored, sent, refusal>>

Die ==
  /\ up /\ faults < MaxFaults
  /\ up' = FALSE /\ index' = <<>> /\ bytes' = 0
  /\ faults' = faults + 1
  /\ UNCHANGED <<quota, records, objects, clock, stored, sent, refusal>>

-----------------------------------------------------------------------------
\* read_record: a record is trusted when its object is there.
Trusted == DOMAIN records \cap objects

\* load indexes records in the order of the directory while they fit, and
\* leaves out those that do not.
Indexed(ids, fresh) ==
  /\ Cardinality(ids) <= quota' /\ Weight(ids) <= ByteQuota
  /\ \A i \in fresh \ ids : Cardinality(ids) >= quota' \/ Weight(ids) + Sizes[i] > ByteQuota

\* load's sweep of the objects keeps those indexed and those left out.
Swept(ids, leftOut) == objects \cap (ids \cup leftOut)

\* AttachmentStore::open
Open ==
  /\ ~up /\ up' = TRUE
  /\ quota' \in ObjectQuotas
  /\ LET fresh == {i \in Trusted : ~Expired(records[i])}
     IN  \E ids \in SUBSET fresh :
           /\ Indexed(ids, fresh)
           /\ index' = Restrict(records, ids)
           /\ bytes' = Weight(ids)
           /\ records' = Restrict(records, fresh)
           /\ objects' = Swept(ids, fresh \ ids)
  /\ UNCHANGED <<clock, stored, sent, refusal, faults>>

Tick == /\ clock < MaxClock
        /\ clock' = clock + 1
        /\ UNCHANGED <<up, quota, index, bytes, disk, stored, sent, refusal, faults>>

NoRefusal == [live |-> 0, size |-> 0, quota |-> 0]

Init ==
  /\ up = FALSE /\ quota \in ObjectQuotas
  /\ index = <<>> /\ bytes = 0 /\ records = <<>> /\ objects = {}
  /\ clock = 0 /\ stored = 0 /\ sent = <<>> /\ refusal = NoRefusal /\ faults = 0

Next == \/ Put \/ PutFails \/ DiesInPut \/ Refuse \/ Send \/ SendFails \/ Die \/ Open \/ Tick

Spec == Init /\ [][Next]_vars

-----------------------------------------------------------------------------
(* The content API's byte ranges: requested_range over a request of at most *)
(* one range, with Unset for a bound that is not there.                     *)

Unset == -1
Unsatisfiable == <<1, 0>>

RequestedRange(from, to, size) ==
  IF from = Unset THEN IF to = 0 THEN Unsatisfiable
                       ELSE <<IF to > size THEN 0 ELSE size - to, size - 1>>
  ELSE LET end == IF to = Unset \/ to > size - 1 THEN size - 1 ELSE to
       IN  IF from >= size \/ end < from THEN Unsatisfiable ELSE <<from, end>>

NoRange == <<Unset, Unset>>

\* download: the bytes of an object of this size a request is answered with.
Download(range, size) ==
  LET r == RequestedRange(range[1], range[2], size)
  IN  IF range = NoRange THEN [status |-> 200, body |-> 0..(size - 1)]
      ELSE IF r = Unsatisfiable THEN [status |-> 416, body |-> {}]
      ELSE [status |-> 206, body |-> r[1]..r[2]]

\* The bytes a request names: those from first to last, or the last so many.
Named(range, size) ==
  {b \in 0..(size - 1) : IF range[1] = Unset THEN range[2] = Unset \/ b >= size - range[2]
                         ELSE b >= range[1] /\ (range[2] = Unset \/ b <= range[2])}

-----------------------------------------------------------------------------
TypeOK ==
  /\ up \in BOOLEAN /\ quota \in ObjectQuotas
  /\ index \in [DOMAIN index -> Records] /\ records \in [DOMAIN records -> Records]
  /\ DOMAIN index \subseteq 1..stored /\ DOMAIN records \subseteq 1..stored
  /\ objects \subseteq 1..stored
  /\ clock \in 0..MaxClock /\ stored \in 0..Len(Sizes)
  /\ sent \in [DOMAIN sent -> Nat] /\ DOMAIN sent \subseteq 1..stored

\* What the index answers for is on disk: the record as it is in memory, and
\* its object; no failed write or partly marked message parts them (resolve,
\* put_reader).
IndexIsOnDisk ==
  \A i \in DOMAIN index : i \in DOMAIN records /\ records[i] = index[i] /\ i \in objects

\* The byte count follows the records through every put, expiry, failure and
\* start, and neither quota is passed (put_reader, expire, load).
CountsAreTrue ==
  /\ bytes = Weight(DOMAIN index)
  /\ up => Cardinality(DOMAIN index) <= quota /\ bytes <= ByteQuota

\* An attachment of a message the service took keeps its bytes and its record
\* for the whole retention, through crashes and through a store too full to
\* index it (load, "the quota does not silently delete").
SentIsKept ==
  \A i \in DOMAIN sent : clock - sent[i] <= Referenced =>
    i \in objects /\ i \in DOMAIN records /\ records[i].referenced

\* A put is refused only over records that have not expired (expire, "has to
\* be able to clear itself without a restart").
RefusedOnlyWhenFull ==
  refusal # NoRefusal => refusal.live >= refusal.quota \/ refusal.size > ByteQuota

\* A start leaves no object without a record and no record without an object,
\* whatever the last process died in (load).
StartsClean == [][~up /\ up' => objects' = DOMAIN records']_vars

\* A request is answered with exactly the bytes it names, or refused when it
\* names none (requested_range, download).
RangesAreExact ==
  \A i \in objects : \A range \in (Unset..4) \X (Unset..4) :
    LET answer == Download(range, Sizes[i])
    IN  /\ answer.body = Named(range, Sizes[i])
        /\ answer.status = 416 <=> answer.body = {}
=============================================================================
