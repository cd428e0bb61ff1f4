--------------------------- MODULE ContentPathProofs ---------------------------
(****************************************************************************)
(* What the attachment store and the way to it promise, for any sizes,      *)
(* quotas, retentions, recordings and ranges, however often a write fails   *)
(* and wherever the service dies.                                           *)
(****************************************************************************)
EXTENDS ContentPath, FiniteSetTheorems, TLAPS

\* An attachment that was stored at some time: its record says so while there
\* is one, and both files are there for the shorter retention at least.
Custody(i, at) ==
  /\ i \in 1..stored /\ at \in Nat
  /\ i \in DOMAIN records => records[i].created = at
  /\ clock - at <= Unreferenced => i \in objects /\ i \in DOMAIN records

\* The same of one that a message names, for the longer retention.
Promised(i, at) ==
  /\ i \in 1..stored /\ at \in Nat
  /\ i \in DOMAIN records => records[i].created = at
  /\ clock - at <= Referenced => i \in objects /\ i \in DOMAIN records /\ records[i].referenced

-----------------------------------------------------------------------------
(* Weights. *)

LEMMA SizesAre ==
  /\ Attachments = 1..Len(Sizes) /\ Len(Sizes) \in Nat
  /\ \A i \in Attachments : Sizes[i] \in Nat \ {0}
  BY StoreAssumption DEF StoreAssumption, Attachments

LEMMA Few ==
  ASSUME NEW ids, ids \subseteq Attachments
  PROVE  IsFiniteSet(ids) /\ Cardinality(ids) \in Nat
<1>1. IsFiniteSet(Attachments)
  BY SizesAre, FS_Interval
<1> QED BY <1>1, FS_Subset, FS_CardinalityType

LEMMA BytesAreFinite ==
  ASSUME NEW ids, ids \subseteq Attachments
  PROVE  IsFiniteSet(BytesOf(ids)) /\ Weight(ids) \in Nat
<1> DEFINE part == [i \in ids |-> {i} \X (1..Sizes[i])]
           parts == {{i} \X (1..Sizes[i]) : i \in ids}
<1>1. \A i \in ids : IsFiniteSet({i} \X (1..Sizes[i]))
  <2> SUFFICES ASSUME NEW i \in ids PROVE IsFiniteSet({i} \X (1..Sizes[i]))
    OBVIOUS
  <2>1. Sizes[i] \in Int /\ 1 \in Int
    BY SizesAre
  <2>2. IsFiniteSet(1..Sizes[i])
    BY <2>1, FS_Interval
  <2> QED BY <2>2, FS_Singleton, FS_Product
<1>2. part \in Surjection(ids, parts)
  BY DEF Surjection
<1>3. IsFiniteSet(parts)
  BY <1>2, Few, FS_Surjection
<1>4. IsFiniteSet(UNION parts)
  BY <1>1, <1>3, FS_UNION
<1> QED BY <1>4, FS_CardinalityType DEF BytesOf, Weight

LEMMA WeightOfOne ==
  ASSUME NEW i \in Attachments
  PROVE  Weight({i}) = Sizes[i]
<1>1. BytesOf({i}) = {i} \X (1..Sizes[i])
  BY DEF BytesOf
<1>2. Sizes[i] \in Nat \ {0} /\ Sizes[i] \in Int /\ 1 \in Int
  BY SizesAre
<1>3. IsFiniteSet(1..Sizes[i]) /\ Cardinality(1..Sizes[i]) = Sizes[i]
  <2>1. /\ IsFiniteSet(1..Sizes[i])
        /\ Cardinality(1..Sizes[i]) = IF 1 > Sizes[i] THEN 0 ELSE Sizes[i] - 1 + 1
    BY <1>2, FS_Interval
  <2> QED BY <1>2, <2>1
<1>4. IsFiniteSet({i}) /\ Cardinality({i}) = 1
  BY FS_Singleton
<1>5. Cardinality({i} \X (1..Sizes[i])) = Cardinality({i}) * Cardinality(1..Sizes[i])
  BY <1>3, <1>4, FS_Product
<1>6. Cardinality({i} \X (1..Sizes[i])) = 1 * Sizes[i]
  BY <1>3, <1>4, <1>5, Zenon
<1>7. Weight({i}) = Cardinality({i} \X (1..Sizes[i]))
  BY <1>1, Zenon DEF Weight
<1> QED BY <1>2, <1>6, <1>7

\* What is taken together weighs what its parts do.
LEMMA WeightsAdd ==
  ASSUME NEW A, NEW B, A \subseteq Attachments, B \subseteq Attachments, A \cap B = {}
  PROVE  Weight(A \cup B) = Weight(A) + Weight(B)
<1>1. BytesOf(A \cup B) = BytesOf(A) \cup BytesOf(B) /\ BytesOf(A) \cap BytesOf(B) = {}
  BY DEF BytesOf
<1>2. Cardinality(BytesOf(A) \cap BytesOf(B)) = 0
  BY <1>1, FS_EmptySet
<1>3. Cardinality(BytesOf(A) \cup BytesOf(B))
        = Cardinality(BytesOf(A)) + Cardinality(BytesOf(B)) - Cardinality(BytesOf(A) \cap BytesOf(B))
  BY BytesAreFinite, FS_Union
<1>4. Weight(A \cup B) = Cardinality(BytesOf(A) \cup BytesOf(B))
  BY <1>1, Zenon DEF Weight
<1>5. Weight(A) = Cardinality(BytesOf(A)) /\ Weight(B) = Cardinality(BytesOf(B))
  BY DEF Weight
<1>6. Weight(A) \in Nat /\ Weight(B) \in Nat
  BY BytesAreFinite
<1> QED BY <1>2, <1>3, <1>4, <1>5, <1>6

LEMMA WeightLeft ==
  ASSUME NEW A, NEW B, A \subseteq Attachments
  PROVE  /\ Weight(A \ B) = Weight(A) - Weight(A \cap B)
         /\ Weight(A \ B) <= Weight(A) /\ Cardinality(A \ B) <= Cardinality(A)
<1>1. Weight(A) = Weight(A \ B) + Weight(A \cap B)
  <2>1. A \ B \subseteq Attachments /\ A \cap B \subseteq Attachments /\ (A \ B) \cap (A \cap B) = {}
    OBVIOUS
  <2>2. Weight((A \ B) \cup (A \cap B)) = Weight(A \ B) + Weight(A \cap B)
    BY <2>1, WeightsAdd
  <2>3. (A \ B) \cup (A \cap B) = A
    OBVIOUS
  <2> QED BY <2>2, <2>3, Zenon
<1>3. Weight(A \ B) \in Nat /\ Weight(A \cap B) \in Nat /\ Weight(A) \in Nat
  BY BytesAreFinite
<1>4. Cardinality(A \ B) <= Cardinality(A)
  <2>1. A \ B \in SUBSET A
    OBVIOUS
  <2> QED BY <2>1, Few, FS_Subset
<1> QED BY <1>1, <1>3, <1>4

LEMMA WeightMore ==
  ASSUME NEW A, NEW i \in Attachments, A \subseteq Attachments, i \notin A
  PROVE  Weight(A \cup {i}) = Weight(A) + Sizes[i] /\ Cardinality(A \cup {i}) = Cardinality(A) + 1
<1>1. Weight(A \cup {i}) = Weight(A) + Weight({i})
  BY WeightsAdd
<1> QED BY <1>1, WeightOfOne, Few, FS_AddElement

-----------------------------------------------------------------------------
(* The store. *)

\* What an open store keeps in memory is on disk, and its counts are true.
StoreInv ==
  /\ TypeOK /\ IndexIsOnDisk /\ CountsAreTrue
  /\ ~up => DOMAIN index = {}

\* What no operation does to an attachment stored before: give it another
\* time, take its mark, or remove it before it expires.
Endures ==
  /\ stored <= stored' /\ stored' \in Nat /\ clock <= clock' /\ clock' \in Nat
  /\ \A i \in 1..stored :
       /\ i \in DOMAIN records' => /\ i \in DOMAIN records
                                   /\ records'[i].created = records[i].created
                                   /\ records[i].referenced => records'[i].referenced
       /\ i \in DOMAIN records \cap objects /\ ~Expired(records[i]) =>
            i \in DOMAIN records' \cap objects'

LEMMA Bounds ==
  /\ ObjectQuotas \subseteq Nat \ {0} /\ ByteQuota \in Nat /\ Unreferenced \in Nat
  /\ Referenced \in Nat /\ MaxClock \in Nat /\ MaxFaults \in Nat /\ Unreferenced <= Referenced
  BY StoreAssumption DEF StoreAssumption

LEMMA StoreTypes ==
  ASSUME StoreInv
  PROVE  /\ up \in BOOLEAN /\ quota \in Nat \ {0} /\ clock \in Nat /\ stored \in Nat
         /\ stored <= Len(Sizes) /\ 1..stored \subseteq Attachments
         /\ DOMAIN index \subseteq Attachments /\ DOMAIN index \subseteq DOMAIN records
         /\ DOMAIN records \subseteq 1..stored /\ objects \subseteq 1..stored
         /\ \A i \in DOMAIN index : index[i] \in Records /\ records[i] = index[i] /\ i \in objects
         /\ \A i \in DOMAIN records : records[i] \in Records
         /\ bytes = Weight(DOMAIN index) /\ bytes \in Nat
<1>1. 1..stored \subseteq Attachments /\ stored \in Nat /\ stored <= Len(Sizes)
  BY SizesAre DEF StoreInv, TypeOK
<1>2. DOMAIN index \subseteq Attachments
  BY <1>1 DEF StoreInv, TypeOK
<1>3. bytes = Weight(DOMAIN index) /\ bytes \in Nat
  BY <1>2, BytesAreFinite DEF StoreInv, CountsAreTrue
<1> QED BY <1>1, <1>2, <1>3, Bounds DEF StoreInv, TypeOK, IndexIsOnDisk

\* What is left of a function.
LEMMA WithoutIs ==
  ASSUME NEW f, NEW ids
  PROVE  /\ DOMAIN Without(f, ids) = DOMAIN f \ ids
         /\ \A i \in DOMAIN f \ ids : Without(f, ids)[i] = f[i]
         /\ Without(f, ids) = [i \in DOMAIN f \ ids |-> f[i]]
  BY DEF Without, Restrict

\* Only what has expired goes.
LEMMA OnlyExpiredGoes ==
  ASSUME StoreInv, NEW gone, gone \subseteq ExpiredIn(index),
         stored <= stored', stored' \in Nat, clock' = clock,
         \A i \in 1..stored :
           /\ i \in DOMAIN records' => i \in DOMAIN records /\ records'[i] = records[i]
           /\ i \in DOMAIN records \ gone => i \in DOMAIN records'
           /\ i \in objects \ gone => i \in objects'
  PROVE  Endures
<1>1. \A i \in gone : i \in DOMAIN index /\ Expired(records[i])
  BY StoreTypes DEF ExpiredIn
<1> QED BY <1>1, StoreTypes DEF Endures

LEMMA ExpiringExpired ==
  ASSUME NEW id
  PROVE  Expiring(id) \subseteq ExpiredIn(index) /\ Expiring(id) \subseteq DOMAIN index
  BY DEF Expiring, ExpiredIn

\* What memory has left after an expiry.
LEMMA LeftInMemory ==
  ASSUME StoreInv, NEW gone, gone \subseteq DOMAIN index
  PROVE  /\ DOMAIN Without(index, gone) = DOMAIN index \ gone
         /\ Without(index, gone) \in [DOMAIN Without(index, gone) -> Records]
         /\ \A i \in DOMAIN Without(index, gone) : Without(index, gone)[i] = records[i]
         /\ bytes - Freed(gone) = Weight(DOMAIN Without(index, gone))
         /\ bytes - Freed(gone) \in Nat
         /\ up => /\ bytes - Freed(gone) <= ByteQuota
                  /\ Cardinality(DOMAIN Without(index, gone)) <= quota
<1>1. DOMAIN index \cap gone = gone
  OBVIOUS
<1>2. Weight(DOMAIN index \ gone) = Weight(DOMAIN index) - Weight(gone)
  <2>1. Weight(DOMAIN index \ gone) = Weight(DOMAIN index) - Weight(DOMAIN index \cap gone)
    BY StoreTypes, WeightLeft
  <2> QED BY <1>1, <2>1, Zenon
<1>3. /\ Weight(DOMAIN index \ gone) <= Weight(DOMAIN index)
      /\ Cardinality(DOMAIN index \ gone) <= Cardinality(DOMAIN index)
  BY StoreTypes, WeightLeft
<1>4. /\ DOMAIN Without(index, gone) = DOMAIN index \ gone
      /\ \A i \in DOMAIN Without(index, gone) : Without(index, gone)[i] = records[i]
      /\ Without(index, gone) \in [DOMAIN Without(index, gone) -> Records]
  <2>1. \A i \in DOMAIN index \ gone : index[i] \in Records /\ records[i] = index[i]
    BY StoreTypes
  <2>2. [i \in DOMAIN index \ gone |-> index[i]] \in [DOMAIN index \ gone -> Records]
    BY <2>1
  <2>3. Without(index, gone) \in [DOMAIN Without(index, gone) -> Records]
    BY <2>2, WithoutIs, Zenon
  <2>4. DOMAIN Without(index, gone) = DOMAIN index \ gone
    BY WithoutIs
  <2>5. \A i \in DOMAIN index \ gone : Without(index, gone)[i] = index[i]
    BY WithoutIs
  <2> QED BY <2>1, <2>3, <2>4, <2>5
<1>5. /\ Weight(DOMAIN Without(index, gone)) = Weight(DOMAIN index \ gone)
      /\ Cardinality(DOMAIN Without(index, gone)) = Cardinality(DOMAIN index \ gone)
  BY <1>4, Zenon
<1>6. /\ Weight(DOMAIN index \ gone) \in Nat
      /\ Cardinality(DOMAIN index \ gone) \in Nat /\ Cardinality(DOMAIN index) \in Nat
  <2>1. DOMAIN index \ gone \subseteq Attachments
    BY StoreTypes
  <2> QED BY <2>1, StoreTypes, BytesAreFinite, Few
<1>7. up => Cardinality(DOMAIN index) <= quota /\ bytes <= ByteQuota
  BY DEF StoreInv, CountsAreTrue
<1>8. bytes = Weight(DOMAIN index) /\ bytes \in Nat /\ quota \in Nat /\ ByteQuota \in Nat
  BY StoreTypes, Bounds
<1>9. bytes - Freed(gone) = Weight(DOMAIN index \ gone)
  BY <1>2, <1>8 DEF Freed
<1> QED BY <1>3, <1>4, <1>5, <1>6, <1>7, <1>8, <1>9

\* What the disk has left, of some entries removed.
LEMMA LeftOnDisk ==
  ASSUME StoreInv, NEW gone
  PROVE  /\ DOMAIN Without(records, gone) = DOMAIN records \ gone
         /\ Without(records, gone) \in [DOMAIN Without(records, gone) -> Records]
         /\ \A i \in DOMAIN records \ gone : Without(records, gone)[i] = records[i]
<1>1. \A i \in DOMAIN records \ gone : records[i] \in Records
  BY StoreTypes
<1>2. [i \in DOMAIN records \ gone |-> records[i]] \in [DOMAIN records \ gone -> Records]
  BY <1>1
<1> QED BY <1>2, WithoutIs, Zenon

\* Memory and disk after an operation that touched both.
LEMMA StoreAgain ==
  ASSUME up' \in BOOLEAN, quota' \in ObjectQuotas, clock' \in 0..MaxClock,
         stored' \in 0..Len(Sizes),
         index' \in [DOMAIN index' -> Records], records' \in [DOMAIN records' -> Records],
         DOMAIN records' \subseteq 1..stored', objects' \subseteq 1..stored',
         sent' \in [DOMAIN sent' -> Nat], DOMAIN sent' \subseteq 1..stored',
         \A i \in DOMAIN index' : i \in DOMAIN records' /\ records'[i] = index'[i] /\ i \in objects',
         bytes' = Weight(DOMAIN index'),
         up' => Cardinality(DOMAIN index') <= quota' /\ bytes' <= ByteQuota,
         ~up' => DOMAIN index' = {}
  PROVE  StoreInv'
<1>1. TypeOK'
  BY DEF TypeOK
<1>2. IndexIsOnDisk'
  BY DEF IndexIsOnDisk
<1>3. CountsAreTrue'
  BY DEF CountsAreTrue, Weight, BytesOf
<1> QED BY <1>1, <1>2, <1>3 DEF StoreInv

LEMMA PutKeeps ==
  ASSUME StoreInv, Put
  PROVE  StoreInv' /\ Endures
<1> DEFINE id == stored + 1
           gone == Expiring(id)
           left == Without(index, gone)
           total == bytes - Freed(gone)
           record == [created |-> clock, referenced |-> FALSE]
<1>1. /\ up /\ id \in Attachments /\ ~Full(left, total, Sizes[id])
      /\ stored' = id /\ index' = With(left, id, record) /\ bytes' = total + Sizes[id]
      /\ records' = With(Without(records, gone), id, record)
      /\ objects' = (objects \ gone) \cup {id}
      /\ UNCHANGED <<up, quota, clock, sent>>
  BY DEF Put
<1>2. /\ gone \subseteq ExpiredIn(index) /\ gone \subseteq DOMAIN index
  BY ExpiringExpired
<1> HIDE DEF gone
<1>3. /\ DOMAIN left = DOMAIN index \ gone /\ left \in [DOMAIN left -> Records]
      /\ \A i \in DOMAIN left : left[i] = records[i]
      /\ total = Weight(DOMAIN left) /\ total \in Nat
  BY <1>2, LeftInMemory
<1>4. /\ DOMAIN Without(records, gone) = DOMAIN records \ gone
      /\ Without(records, gone) \in [DOMAIN Without(records, gone) -> Records]
      /\ \A i \in DOMAIN records \ gone : Without(records, gone)[i] = records[i]
  BY LeftOnDisk
<1> HIDE DEF left, total
<1>5. /\ id \in Nat /\ id \notin 1..stored /\ 1..stored \subseteq 1..id /\ record \in Records
      /\ id \in 0..Len(Sizes) /\ id \in 1..id
  BY <1>1, SizesAre, StoreTypes DEF Records
<1> HIDE DEF id, record
<1>6. /\ DOMAIN index' = DOMAIN left \cup {id} /\ index'[id] = record
      /\ \A i \in DOMAIN left \ {id} : index'[i] = left[i]
      /\ index' \in [DOMAIN index' -> Records]
  <2>1. /\ DOMAIN index' = DOMAIN left \cup {id} /\ index'[id] = record
        /\ \A i \in DOMAIN left \ {id} : index'[i] = left[i]
    <3>1. /\ DOMAIN With(left, id, record) = DOMAIN left \cup {id}
          /\ With(left, id, record)[id] = record
          /\ \A i \in DOMAIN left \ {id} : With(left, id, record)[i] = left[i]
      BY DEF With
    <3> QED BY <1>1, <3>1
  <2>2. index' = [i \in DOMAIN left \cup {id} |-> IF i = id THEN record ELSE left[i]]
    BY <1>1 DEF With
  <2> QED BY <1>3, <1>5, <2>1, <2>2
<1>7. /\ DOMAIN records' = (DOMAIN records \ gone) \cup {id} /\ records'[id] = record
      /\ \A i \in DOMAIN records \ (gone \cup {id}) : records'[i] = records[i]
      /\ records' \in [DOMAIN records' -> Records]
  <2>1. /\ DOMAIN records' = DOMAIN Without(records, gone) \cup {id} /\ records'[id] = record
        /\ \A i \in DOMAIN Without(records, gone) \ {id} : records'[i] = Without(records, gone)[i]
    <3> DEFINE kept == Without(records, gone)
    <3> HIDE DEF kept
    <3>1. /\ DOMAIN With(kept, id, record) = DOMAIN kept \cup {id}
          /\ With(kept, id, record)[id] = record
          /\ \A i \in DOMAIN kept \ {id} : With(kept, id, record)[i] = kept[i]
      BY DEF With
    <3>2. records' = With(kept, id, record)
      BY <1>1 DEF kept
    <3>3. /\ DOMAIN records' = DOMAIN kept \cup {id} /\ records'[id] = record
          /\ \A i \in DOMAIN kept \ {id} : records'[i] = kept[i]
      BY <3>1, <3>2
    <3> QED BY <3>3 DEF kept
  <2>2. records' = [i \in DOMAIN Without(records, gone) \cup {id} |->
                     IF i = id THEN record ELSE Without(records, gone)[i]]
    BY <1>1 DEF With
  <2> QED BY <1>4, <1>5, <2>1, <2>2
<1>8. bytes' = Weight(DOMAIN index') /\ Cardinality(DOMAIN index') <= quota /\ bytes' <= ByteQuota
  <2>1. DOMAIN left \subseteq Attachments /\ id \notin DOMAIN left
    BY <1>3, <1>5, StoreTypes
  <2>2. /\ Weight(DOMAIN left \cup {id}) = Weight(DOMAIN left) + Sizes[id]
        /\ Cardinality(DOMAIN left \cup {id}) = Cardinality(DOMAIN left) + 1
    BY <1>1, <2>1, WeightMore
  <2>3. /\ Weight(DOMAIN index') = Weight(DOMAIN left \cup {id})
        /\ Cardinality(DOMAIN index') = Cardinality(DOMAIN left \cup {id})
    BY <1>6, Zenon
  <2>4. Cardinality(DOMAIN left) < quota /\ total + Sizes[id] <= ByteQuota
    <3>1. Cardinality(DOMAIN left) \in Nat /\ quota \in Nat /\ Sizes[id] \in Nat /\ ByteQuota \in Nat
      BY <1>1, <2>1, Few, StoreTypes, SizesAre, Bounds
    <3> QED BY <1>1, <1>3, <3>1 DEF Full
  <2>5. Cardinality(DOMAIN left) \in Nat /\ quota \in Nat
    BY <2>1, Few, StoreTypes
  <2> QED BY <1>1, <1>3, <2>2, <2>3, <2>4, <2>5
<1>9. \A i \in DOMAIN index' : i \in DOMAIN records' /\ records'[i] = index'[i] /\ i \in objects'
  BY <1>1, <1>3, <1>5, <1>6, <1>7, StoreTypes
<1>10. StoreInv'
  <2>1. DOMAIN records' \subseteq 1..stored' /\ objects' \subseteq 1..stored'
    BY <1>1, <1>5, <1>7, StoreTypes
  <2>2. /\ up' \in BOOLEAN /\ quota' \in ObjectQuotas /\ clock' \in 0..MaxClock
        /\ sent' \in [DOMAIN sent' -> Nat] /\ DOMAIN sent' \subseteq 1..stored' /\ up'
        /\ stored' \in 0..Len(Sizes)
    BY <1>1, <1>5 DEF StoreInv, TypeOK
  <2> QED BY <1>1, <1>6, <1>7, <1>8, <1>9, <2>1, <2>2, StoreAgain
<1>11. Endures
  <2>1. \A i \in 1..stored :
          /\ i \in DOMAIN records' => i \in DOMAIN records /\ records'[i] = records[i]
          /\ i \in DOMAIN records \ gone => i \in DOMAIN records'
          /\ i \in objects \ gone => i \in objects'
    BY <1>1, <1>5, <1>7
  <2>2. stored <= stored' /\ stored' \in Nat /\ clock' = clock
    BY <1>1, StoreTypes DEF id
  <2> QED BY <1>2, <2>1, <2>2, OnlyExpiredGoes
<1> QED BY <1>10, <1>11

\* Memory after an expiry, with the disk agreeing on what memory has left.
LEMMA ExpiryKeeps ==
  ASSUME StoreInv, up, NEW gone, gone \subseteq ExpiredIn(index), gone \subseteq DOMAIN index,
         stored' \in {stored, stored + 1}, stored' <= Len(Sizes),
         UNCHANGED <<quota, clock, sent>>,
         records' \in [DOMAIN records' -> Records], objects' \subseteq 1..stored',
         DOMAIN records \ gone \subseteq DOMAIN records', DOMAIN records' \subseteq DOMAIN records,
         \A i \in DOMAIN records' : records'[i] = records[i],
         objects \ gone \subseteq objects',
         \/ up' /\ index' = Without(index, gone) /\ bytes' = bytes - Freed(gone)
         \/ ~up' /\ up' \in BOOLEAN /\ index' = <<>> /\ bytes' = 0
  PROVE  StoreInv' /\ Endures
<1>1. /\ stored' \in Nat /\ stored' \in 0..Len(Sizes) /\ 1..stored \subseteq 1..stored'
      /\ stored <= stored'
  BY StoreTypes, SizesAre
<1>2. DOMAIN records' \subseteq 1..stored'
  BY <1>1, StoreTypes
<1>3. Endures
  BY <1>1, StoreTypes, OnlyExpiredGoes
<1>4. /\ quota' \in ObjectQuotas /\ clock' \in 0..MaxClock
      /\ sent' \in [DOMAIN sent' -> Nat] /\ DOMAIN sent' \subseteq 1..stored'
  BY <1>1 DEF StoreInv, TypeOK
<1>5. CASE up' /\ index' = Without(index, gone) /\ bytes' = bytes - Freed(gone)
  <2> DEFINE left == Without(index, gone)
  <2>1. /\ DOMAIN left = DOMAIN index \ gone /\ left \in [DOMAIN left -> Records]
        /\ \A i \in DOMAIN left : left[i] = records[i]
        /\ bytes - Freed(gone) = Weight(DOMAIN left) /\ bytes - Freed(gone) <= ByteQuota
        /\ Cardinality(DOMAIN left) <= quota
    BY LeftInMemory
  <2> HIDE DEF left
  <2>2. index' = left
    BY <1>5 DEF left
  <2>3. \A i \in DOMAIN index' : i \in DOMAIN records' /\ records'[i] = index'[i] /\ i \in objects'
    BY <2>1, <2>2, StoreTypes
  <2>4. bytes' = Weight(DOMAIN index') /\ Cardinality(DOMAIN index') <= quota' /\ bytes' <= ByteQuota
    BY <1>5, <2>1, <2>2
  <2>5. index' \in [DOMAIN index' -> Records] /\ up' \in BOOLEAN
    BY <1>5, <2>1, <2>2 DEF StoreInv, TypeOK
  <2> QED BY <1>1, <1>2, <1>3, <1>4, <1>5, <2>3, <2>4, <2>5, StoreAgain
<1>6. CASE ~up' /\ up' \in BOOLEAN /\ index' = <<>> /\ bytes' = 0
  <2>1. DOMAIN index' = {} /\ index' \in [DOMAIN index' -> Records]
    BY <1>6
  <2>2. Weight({}) = 0
    BY FS_EmptySet DEF Weight, BytesOf
  <2>3. bytes' = Weight(DOMAIN index')
    BY <1>6, <2>1, <2>2, Zenon
  <2> QED BY <1>1, <1>2, <1>3, <1>4, <1>6, <2>1, <2>3, StoreAgain
<1> QED BY <1>5, <1>6

\* Nothing of the disk but some of what expired is touched.
LEMMA RemovedIs ==
  ASSUME StoreInv, NEW gone, records' = Without(records, gone)
  PROVE  /\ records' \in [DOMAIN records' -> Records] /\ DOMAIN records' = DOMAIN records \ gone
         /\ \A i \in DOMAIN records' : records'[i] = records[i]
  BY LeftOnDisk

LEMMA PutFailsKeeps ==
  ASSUME StoreInv, PutFails
  PROVE  StoreInv' /\ Endures
<1> DEFINE gone == Expiring(stored + 1)
<1>1. /\ up /\ up' /\ stored + 1 \in Attachments /\ stored' = stored + 1
      /\ index' = Without(index, gone) /\ bytes' = bytes - Freed(gone)
      /\ records' = Without(records, gone)
      /\ objects' \in {objects \ gone, (objects \ gone) \cup {stored'}}
      /\ UNCHANGED <<quota, clock, sent>>
  BY DEF PutFails
<1>2. gone \subseteq ExpiredIn(index) /\ gone \subseteq DOMAIN index
  BY ExpiringExpired
<1> HIDE DEF gone
<1>3. /\ records' \in [DOMAIN records' -> Records] /\ DOMAIN records' = DOMAIN records \ gone
      /\ \A i \in DOMAIN records' : records'[i] = records[i]
  BY <1>1, RemovedIs
<1>4. stored' <= Len(Sizes) /\ objects' \subseteq 1..stored'
  BY <1>1, StoreTypes, SizesAre
<1>5. objects \ gone \subseteq objects'
  BY <1>1
<1> QED BY <1>1, <1>2, <1>3, <1>4, <1>5, ExpiryKeeps

LEMMA DiscardIs ==
  ASSUME StoreInv, NEW gone, Discard(gone)
  PROVE  /\ records' \in [DOMAIN records' -> Records]
         /\ DOMAIN records \ gone \subseteq DOMAIN records' /\ DOMAIN records' \subseteq DOMAIN records
         /\ \A i \in DOMAIN records' : records'[i] = records[i]
         /\ objects \ gone \subseteq objects' /\ objects' \subseteq objects
<1>1. PICK kept \in SUBSET gone, over \in SUBSET gone :
        records' = Without(records, gone \ kept) /\ objects' = objects \ (gone \ over)
  BY DEF Discard
<1>2. /\ records' \in [DOMAIN records' -> Records] /\ DOMAIN records' = DOMAIN records \ (gone \ kept)
      /\ \A i \in DOMAIN records' : records'[i] = records[i]
  BY <1>1, RemovedIs
<1> QED BY <1>1, <1>2

LEMMA RefuseKeeps ==
  ASSUME StoreInv, Refuse
  PROVE  StoreInv' /\ Endures
<1> DEFINE gone == Expiring(stored + 1)
<1>1. /\ up /\ up' /\ stored' = stored
      /\ index' = Without(index, gone) /\ bytes' = bytes - Freed(gone)
      /\ Discard(gone)
      /\ UNCHANGED <<quota, clock, sent>>
  BY DEF Refuse
<1>2. gone \subseteq ExpiredIn(index) /\ gone \subseteq DOMAIN index
  BY ExpiringExpired
<1> HIDE DEF gone
<1>3. stored' <= Len(Sizes) /\ objects' \subseteq 1..stored'
  BY <1>1, DiscardIs, StoreTypes
<1> QED BY <1>1, <1>2, <1>3, DiscardIs, ExpiryKeeps

LEMMA DiesInPutKeeps ==
  ASSUME StoreInv, DiesInPut
  PROVE  StoreInv' /\ Endures
<1> DEFINE id == stored + 1
           gone == Expiring(id)
           record == [created |-> clock, referenced |-> FALSE]
<1>1. /\ up /\ id \in Attachments /\ ~up' /\ up' \in BOOLEAN /\ index' = <<>> /\ bytes' = 0
      /\ UNCHANGED <<quota, clock, sent>>
      /\ \/ \E removed \in SUBSET gone : \E half \in SUBSET removed :
              /\ records' = Without(records, removed) /\ objects' = objects \ (removed \ half)
              /\ stored' = stored
         \/ /\ stored' = id /\ objects' = (objects \ gone) \cup {id}
            /\ records' \in {Without(records, gone), With(Without(records, gone), id, record)}
  BY DEF DiesInPut
<1>2. gone \subseteq ExpiredIn(index) /\ gone \subseteq DOMAIN index
  BY ExpiringExpired
<1> HIDE DEF gone
<1>3. stored + 1 <= Len(Sizes) /\ stored \in Nat /\ id \in Nat /\ id \notin 1..stored
      /\ stored <= Len(Sizes) /\ objects \subseteq 1..stored /\ objects \cup {id} \subseteq 1..id
  BY <1>1, StoreTypes, SizesAre
<1>4. CASE \E removed \in SUBSET gone : \E half \in SUBSET removed :
              /\ records' = Without(records, removed) /\ objects' = objects \ (removed \ half)
              /\ stored' = stored
  <2>1. PICK removed \in SUBSET gone, half \in SUBSET gone :
              /\ records' = Without(records, removed) /\ objects' = objects \ (removed \ half)
              /\ stored' = stored
    BY <1>4
  <2>2. /\ records' \in [DOMAIN records' -> Records] /\ DOMAIN records' = DOMAIN records \ removed
        /\ \A i \in DOMAIN records' : records'[i] = records[i]
    BY <2>1, RemovedIs
  <2> QED BY <1>1, <1>2, <1>3, <2>1, <2>2, ExpiryKeeps
<1>5. CASE stored' = id /\ objects' = (objects \ gone) \cup {id} /\ records' = Without(records, gone)
  <2>1. /\ records' \in [DOMAIN records' -> Records] /\ DOMAIN records' = DOMAIN records \ gone
        /\ \A i \in DOMAIN records' : records'[i] = records[i]
    BY <1>5, RemovedIs
  <2> QED BY <1>1, <1>2, <1>3, <1>5, <2>1, ExpiryKeeps
<1>6. CASE /\ stored' = id /\ objects' = (objects \ gone) \cup {id}
           /\ records' = With(Without(records, gone), id, record)
  <2>1. /\ DOMAIN Without(records, gone) = DOMAIN records \ gone
        /\ \A i \in DOMAIN records \ gone : Without(records, gone)[i] = records[i] /\ records[i] \in Records
    BY LeftOnDisk, StoreTypes
  <2>2. /\ DOMAIN records' = (DOMAIN records \ gone) \cup {id} /\ records'[id] = record
        /\ \A i \in DOMAIN records \ (gone \cup {id}) : records'[i] = records[i]
        /\ records' \in [DOMAIN records' -> Records]
    <3>1. record \in Records
      BY StoreTypes DEF Records
    <3> HIDE DEF record, id
    <3>2. records' = [i \in (DOMAIN records \ gone) \cup {id} |->
                       IF i = id THEN record ELSE Without(records, gone)[i]]
      BY <1>6, <2>1 DEF With
    <3> QED BY <2>1, <3>1, <3>2
  <2>3. DOMAIN records' \subseteq 1..stored' /\ objects' \subseteq 1..stored'
    BY <1>3, <1>6, <2>2, StoreTypes
  <2>4. StoreInv'
    <3>1. DOMAIN index' = {} /\ index' \in [DOMAIN index' -> Records]
      BY <1>1
    <3>2. Weight({}) = 0
      BY FS_EmptySet DEF Weight, BytesOf
    <3>3. bytes' = Weight(DOMAIN index')
      BY <1>1, <3>1, <3>2, Zenon
    <3>4. /\ quota' \in ObjectQuotas /\ clock' \in 0..MaxClock /\ stored' \in 0..Len(Sizes)
          /\ sent' \in [DOMAIN sent' -> Nat] /\ DOMAIN sent' \subseteq 1..stored'
      BY <1>1, <1>3, <1>6, SizesAre DEF StoreInv, TypeOK
    <3> QED BY <1>1, <2>2, <2>3, <3>1, <3>3, <3>4, StoreAgain
  <2>5. Endures
    <3>1. \A i \in 1..stored :
            /\ i \in DOMAIN records' => i \in DOMAIN records /\ records'[i] = records[i]
            /\ i \in DOMAIN records \ gone => i \in DOMAIN records'
            /\ i \in objects \ gone => i \in objects'
      BY <1>3, <1>6, <2>2
    <3>2. stored <= stored' /\ stored' \in Nat /\ clock' = clock
      BY <1>1, <1>3, <1>6
    <3> QED BY <1>2, <3>1, <3>2, OnlyExpiredGoes
  <2> QED BY <2>4, <2>5
<1> QED BY <1>1, <1>4, <1>5, <1>6

\* Marks: the records of some attachments say that a message names them.
LEMMA MarkedIs ==
  ASSUME StoreInv, NEW ids, index' = Marked(index, ids), ids \subseteq DOMAIN index,
         records' = [i \in DOMAIN records |-> IF i \in ids THEN index'[i] ELSE records[i]]
  PROVE  /\ DOMAIN index' = DOMAIN index /\ index' \in [DOMAIN index' -> Records]
         /\ DOMAIN records' = DOMAIN records /\ records' \in [DOMAIN records' -> Records]
         /\ \A i \in DOMAIN index' : records'[i] = index'[i]
         /\ \A i \in ids : records'[i].referenced /\ records'[i].created = index[i].created
         /\ \A i \in DOMAIN records : /\ records'[i].created = records[i].created
                                      /\ records[i].referenced => records'[i].referenced
<1>1. DOMAIN index' = DOMAIN index /\ DOMAIN records' = DOMAIN records
  BY DEF Marked
<1>2. \A i \in ids : /\ index'[i] = [index[i] EXCEPT !.referenced = TRUE] /\ records'[i] = index'[i]
                     /\ index[i] \in Records /\ records[i] = index[i]
  BY StoreTypes DEF Marked
<1>3. \A i \in DOMAIN index \ ids : /\ index'[i] = index[i] /\ records'[i] = records[i]
                                    /\ records[i] = index[i] /\ index[i] \in Records
  BY StoreTypes DEF Marked
<1>4. \A i \in DOMAIN records \ ids : records'[i] = records[i] /\ records[i] \in Records
  BY StoreTypes
<1>5. \A i \in ids : /\ records'[i] \in Records /\ index'[i] \in Records
                     /\ records'[i].referenced /\ records'[i].created = index[i].created
  <2> SUFFICES ASSUME NEW i \in ids
               PROVE  /\ records'[i] \in Records /\ index'[i] \in Records
                      /\ records'[i].referenced /\ records'[i].created = index[i].created
    OBVIOUS
  <2> DEFINE r == index[i]
  <2>1. r \in [created : Nat, referenced : BOOLEAN]
    BY <1>2 DEF Records
  <2>2. index'[i] = [r EXCEPT !.referenced = TRUE] /\ records'[i] = index'[i]
    BY <1>2
  <2> HIDE DEF r
  <2>3. LET m == [r EXCEPT !.referenced = TRUE]
        IN  m \in [created : Nat, referenced : BOOLEAN] /\ m.referenced /\ m.created = r.created
    BY <2>1
  <2> QED BY <2>2, <2>3 DEF Records, r
<1>6. /\ \A i \in DOMAIN index : index'[i] \in Records
      /\ \A i \in DOMAIN records : records'[i] \in Records
  BY <1>3, <1>4, <1>5
<1>7. index' \in [DOMAIN index' -> Records] /\ records' \in [DOMAIN records' -> Records]
  BY <1>1, <1>6 DEF Marked
<1> QED BY <1>1, <1>2, <1>3, <1>4, <1>5, <1>7

LEMMA MarkKeeps ==
  ASSUME StoreInv, up, NEW ids, index' = Marked(index, ids), ids \subseteq DOMAIN index,
         records' = [i \in DOMAIN records |-> IF i \in ids THEN index'[i] ELSE records[i]],
         UNCHANGED <<up, quota, bytes, objects, clock, stored>>,
         sent' \in [DOMAIN sent' -> Nat], DOMAIN sent' \subseteq 1..stored
  PROVE  StoreInv' /\ Endures
<1>1. /\ DOMAIN index' = DOMAIN index /\ index' \in [DOMAIN index' -> Records]
      /\ DOMAIN records' = DOMAIN records /\ records' \in [DOMAIN records' -> Records]
      /\ \A i \in DOMAIN index' : records'[i] = index'[i]
      /\ \A i \in DOMAIN records : /\ records'[i].created = records[i].created
                                   /\ records[i].referenced => records'[i].referenced
  BY MarkedIs
<1>2. bytes' = Weight(DOMAIN index') /\ Cardinality(DOMAIN index') <= quota' /\ bytes' <= ByteQuota
  <2>1. bytes = Weight(DOMAIN index) /\ Cardinality(DOMAIN index) <= quota /\ bytes <= ByteQuota
    BY DEF StoreInv, CountsAreTrue
  <2> QED BY <1>1, <2>1
<1>3. \A i \in DOMAIN index' : i \in DOMAIN records' /\ records'[i] = index'[i] /\ i \in objects'
  BY <1>1, StoreTypes
<1>4. /\ up' \in BOOLEAN /\ quota' \in ObjectQuotas /\ clock' \in 0..MaxClock
      /\ stored' \in 0..Len(Sizes) /\ DOMAIN records' \subseteq 1..stored' /\ objects' \subseteq 1..stored'
      /\ DOMAIN sent' \subseteq 1..stored' /\ up'
  BY <1>1 DEF StoreInv, TypeOK
<1>5. StoreInv'
  BY <1>1, <1>2, <1>3, <1>4, StoreAgain
<1>6. Endures
  BY <1>1, StoreTypes DEF Endures
<1> QED BY <1>5, <1>6

LEMMA SendIs ==
  ASSUME StoreInv, Send
  PROVE  /\ StoreInv' /\ Endures
         /\ \E ids \in SUBSET DOMAIN index :
              /\ \A i \in ids : /\ i \in objects' /\ i \in DOMAIN records'
                                /\ records'[i].referenced /\ records'[i].created = sent'[i]
                                /\ sent'[i] \in Nat /\ i \in 1..stored
              /\ DOMAIN sent' = DOMAIN sent \cup ids
              /\ \A i \in DOMAIN sent \ ids : sent'[i] = sent[i]
<1>1. PICK ids \in SUBSET DOMAIN index :
        /\ index' = Marked(index, ids) /\ sent' = Taken(ids)
        /\ records' = [i \in DOMAIN records |-> IF i \in ids THEN index'[i] ELSE records[i]]
  BY DEF Send
<1>2. up /\ UNCHANGED <<up, quota, bytes, objects, clock, stored>>
  BY DEF Send
<1>3. /\ DOMAIN sent' = DOMAIN sent \cup ids
      /\ \A i \in ids : sent'[i] = index[i].created
      /\ \A i \in DOMAIN sent \ ids : sent'[i] = sent[i]
  BY <1>1 DEF Taken
<1>4. \A i \in ids : index[i].created \in Nat /\ i \in objects /\ i \in DOMAIN records /\ i \in 1..stored
  BY StoreTypes DEF Records
<1>5. sent \in [DOMAIN sent -> Nat] /\ DOMAIN sent \subseteq 1..stored
  BY DEF StoreInv, TypeOK
<1>6. sent' \in [DOMAIN sent' -> Nat] /\ DOMAIN sent' \subseteq 1..stored
  <2>1. \A i \in DOMAIN sent \cup ids : (IF i \in ids THEN index[i].created ELSE sent[i]) \in Nat
    BY <1>4, <1>5
  <2>2. sent' \in [DOMAIN sent \cup ids -> Nat]
    BY <1>1, <2>1 DEF Taken
  <2> QED BY <1>3, <1>4, <1>5, <2>2
<1>7. StoreInv' /\ Endures
  BY <1>1, <1>2, <1>6, MarkKeeps
<1>8. \A i \in ids : records'[i].referenced /\ records'[i].created = index[i].created
  BY <1>1, MarkedIs
<1>9. DOMAIN records' = DOMAIN records /\ objects' = objects
  BY <1>1, <1>2
<1> QED BY <1>3, <1>4, <1>7, <1>8, <1>9

LEMMA SendFailsKeeps ==
  ASSUME StoreInv, SendFails
  PROVE  StoreInv' /\ Endures
<1>1. PICK ids \in SUBSET DOMAIN index :
        /\ index' = Marked(index, ids)
        /\ records' = [i \in DOMAIN records |-> IF i \in ids THEN index'[i] ELSE records[i]]
  BY DEF SendFails
<1>2. up /\ UNCHANGED <<up, quota, bytes, objects, clock, stored, sent>>
  BY DEF SendFails
<1>3. sent' \in [DOMAIN sent' -> Nat] /\ DOMAIN sent' \subseteq 1..stored
  BY <1>2 DEF StoreInv, TypeOK
<1> QED BY <1>1, <1>2, <1>3, MarkKeeps

LEMMA DieKeeps ==
  ASSUME StoreInv, Die
  PROVE  StoreInv' /\ Endures
<1>1. /\ up /\ ~up' /\ up' \in BOOLEAN /\ index' = <<>> /\ bytes' = 0
      /\ UNCHANGED <<quota, records, objects, clock, stored, sent>>
  BY DEF Die
<1>2. /\ records \in [DOMAIN records -> Records] /\ objects \subseteq 1..stored
      /\ stored <= Len(Sizes)
  BY StoreTypes DEF StoreInv, TypeOK
<1> DEFINE gone == {}
<1>3. /\ gone \subseteq ExpiredIn(index) /\ gone \subseteq DOMAIN index
      /\ DOMAIN records \ gone \subseteq DOMAIN records' /\ DOMAIN records' \subseteq DOMAIN records
      /\ \A i \in DOMAIN records' : records'[i] = records[i]
      /\ objects \ gone \subseteq objects'
  BY <1>1
<1>4. /\ records' \in [DOMAIN records' -> Records] /\ objects' \subseteq 1..stored'
      /\ stored' <= Len(Sizes) /\ stored' \in {stored, stored + 1}
  BY <1>1, <1>2
<1> HIDE DEF gone
<1> QED BY <1>1, <1>3, <1>4, ExpiryKeeps

LEMMA TickKeeps ==
  ASSUME StoreInv, Tick
  PROVE  StoreInv' /\ Endures
<1>1. /\ clock' = clock + 1 /\ clock' \in 0..MaxClock
      /\ UNCHANGED <<up, quota, index, bytes, records, objects, stored, sent>>
  BY Bounds DEF Tick, disk, StoreInv, TypeOK
<1>2. StoreInv'
  BY <1>1, StoreAgain DEF StoreInv, TypeOK, IndexIsOnDisk, CountsAreTrue
<1>3. Endures
  BY <1>1, StoreTypes DEF Endures
<1> QED BY <1>2, <1>3

LEMMA OpenKeeps ==
  ASSUME StoreInv, Open
  PROVE  StoreInv' /\ Endures
<1> DEFINE fresh == {i \in Trusted : ~Expired(records[i])}
<1>1. PICK ids \in SUBSET fresh :
        /\ Indexed(ids, fresh) /\ index' = Restrict(records, ids) /\ bytes' = Weight(ids)
        /\ records' = Restrict(records, fresh) /\ objects' = Swept(ids, fresh \ ids)
  BY DEF Open
<1>2. up' /\ up' \in BOOLEAN /\ quota' \in ObjectQuotas /\ UNCHANGED <<clock, stored, sent>>
  BY DEF Open
<1>3. fresh \subseteq DOMAIN records /\ fresh \subseteq objects
  BY DEF Trusted
<1>4. /\ DOMAIN index' = ids /\ DOMAIN records' = fresh
      /\ \A i \in ids : index'[i] = records[i]
      /\ \A i \in fresh : records'[i] = records[i]
      /\ index' \in [DOMAIN index' -> Records] /\ records' \in [DOMAIN records' -> Records]
  <2>1. \A i \in fresh : records[i] \in Records
    BY <1>3, StoreTypes
  <2>2. index' = [i \in ids |-> records[i]] /\ records' = [i \in fresh |-> records[i]]
    BY <1>1 DEF Restrict
  <2> HIDE DEF fresh
  <2> QED BY <2>1, <2>2
<1>5. objects' = fresh
  BY <1>1, <1>3 DEF Swept
<1>6. \A i \in 1..stored : i \in DOMAIN records \cap objects /\ ~Expired(records[i]) => i \in fresh
  BY DEF Trusted
<1> HIDE DEF fresh
<1>7. bytes' = Weight(DOMAIN index') /\ Cardinality(DOMAIN index') <= quota' /\ bytes' <= ByteQuota
  BY <1>1, <1>4 DEF Indexed
<1>8. /\ clock' \in 0..MaxClock /\ stored' \in 0..Len(Sizes)
      /\ sent' \in [DOMAIN sent' -> Nat] /\ DOMAIN sent' \subseteq 1..stored'
      /\ DOMAIN records' \subseteq 1..stored' /\ objects' \subseteq 1..stored'
  BY <1>2, <1>3, <1>4, <1>5 DEF StoreInv, TypeOK
<1>9. \A i \in DOMAIN index' : i \in DOMAIN records' /\ records'[i] = index'[i] /\ i \in objects'
  BY <1>1, <1>4, <1>5
<1>10. StoreInv'
  BY <1>2, <1>4, <1>7, <1>8, <1>9, StoreAgain
<1>11. Endures
  BY <1>2, <1>3, <1>4, <1>5, <1>6, StoreTypes DEF Endures
<1> QED BY <1>10, <1>11

-----------------------------------------------------------------------------
(* The content API, the gateway and the desktop. *)

\* What is with the content API was let through by the gateway or comes from
\* the desktop.
LetThrough(request) ==
  /\ request \in Uploads \cup Imports
  /\ request.op = "upload" => ~request.parameters /\ request.wrong \in {"nothing", "name", "empty"}

\* The content API's answers.
Fits(request, code) ==
  /\ code \in {"ok", "attachment_quota", "attachment_unavailable", "invalid_attachment",
               "attachment_too_large"}
  /\ code = "attachment_too_large" => request.wrong = "over"
  /\ request.wrong = "over" => code \in {"attachment_too_large", "attachment_unavailable"}
  /\ code = "invalid_attachment" /\ request.op # "import" => request.wrong \in {"name", "empty"}

Exchanging ==
  /\ exchange.step \in {"asked", "answered"} => LetThrough(exchange.request)
  /\ exchange.step = "answered" => Fits(exchange.request, exchange.code)

\* What a message names, and what a client was told it has or is about to be,
\* is in custody.
Promises == \A i \in DOMAIN sent : Promised(i, sent[i])
HeldWell == \A i \in DOMAIN held : Custody(i, held[i])
AnsweredWell == exchange.step = "answered" => \A i \in exchange.body : Custody(i, exchange.at)

ClientsTyped ==
  /\ held \in [DOMAIN held -> Nat] /\ DOMAIN held \subseteq 1..stored
  /\ copy \in [DOMAIN copy -> {"part", "whole"}] /\ DOMAIN copy \subseteq 1..stored
  /\ thumb \in [DOMAIN thumb -> {"part", "junk", "whole"}] /\ DOMAIN thumb \subseteq DOMAIN copy

Ending == RefusalsAreTrue /\ SavedIsWhole /\ FramesAreImages /\ RecordingsAreSound

ContentInv ==
  /\ StoreInv /\ Promises /\ RefusedOnlyWhenFull
  /\ exchange.step \in {"idle", "asked", "answered", "told"}
  /\ ClientsTyped /\ HeldWell
  /\ Exchanging /\ AnsweredWell /\ Ending

-----------------------------------------------------------------------------
(* The ranges of the content API. *)

\* A range names the bytes it is answered with.
LEMMA RangeIsAnswered ==
  ASSUME NEW size \in Nat \ {0}, NEW from \in Int, NEW to \in Int, from >= -1, to >= -1
  PROVE  LET answer == Download(<<from, to>>, size)
         IN  /\ answer.body = Named(<<from, to>>, size)
             /\ answer.status = 416 <=> answer.body = {}
<1> DEFINE range == <<from, to>>
           r == RequestedRange(from, to, size)
           named == Named(range, size)
           answer == Download(range, size)
<1>1. named = {b \in 0..(size - 1) : IF from = -1 THEN to = -1 \/ b >= size - to
                                     ELSE b >= from /\ (to = -1 \/ b <= to)}
  BY DEF Named, Unset
<1>2. answer = IF from = -1 /\ to = -1 THEN [status |-> 200, body |-> 0..(size - 1)]
               ELSE IF r = <<1, 0>> THEN [status |-> 416, body |-> {}]
               ELSE [status |-> 206, body |-> r[1]..r[2]]
  BY DEF Download, NoRange, Unset, Unsatisfiable
<1>3. r = IF from = -1 THEN IF to = 0 THEN <<1, 0>>
                            ELSE <<IF to > size THEN 0 ELSE size - to, size - 1>>
          ELSE IF from >= size \/ (IF to = -1 \/ to > size - 1 THEN size - 1 ELSE to) < from
               THEN <<1, 0>>
               ELSE <<from, IF to = -1 \/ to > size - 1 THEN size - 1 ELSE to>>
  BY DEF RequestedRange, Unset, Unsatisfiable
<1> HIDE DEF named, answer, r, range
<1> SUFFICES answer.body = named /\ (answer.status = 416 <=> answer.body = {})
  BY DEF answer, named, range
<1>4. CASE from = -1 /\ to = -1
  <2>1. answer.status = 200 /\ answer.body = 0..(size - 1)
    BY <1>2, <1>4
  <2>2. named = 0..(size - 1)
    BY <1>1, <1>4
  <2>3. 0 \in 0..(size - 1)
    OBVIOUS
  <2> QED BY <2>1, <2>2, <2>3
<1>5. CASE from = -1 /\ to # -1 /\ to = 0
  <2>1. answer.status = 416 /\ answer.body = {}
    BY <1>2, <1>3, <1>5
  <2>2. named = {}
    BY <1>1, <1>5
  <2> QED BY <2>1, <2>2
<1>6. CASE from = -1 /\ to > 0
  <2> DEFINE low == IF to > size THEN 0 ELSE size - to
  <2>1. low \in 0..(size - 1) /\ r = <<low, size - 1>> /\ low \in Int
    BY <1>3, <1>6
  <2>2. r # <<1, 0>>
    BY <2>1
  <2>3. answer.status = 206 /\ answer.body = low..(size - 1)
    BY <1>2, <1>6, <2>1, <2>2
  <2>4. named = low..(size - 1)
    BY <1>1, <1>6
  <2>5. low \in low..(size - 1)
    BY <2>1
  <2> QED BY <2>3, <2>4, <2>5
<1>7. CASE from # -1
  <2> DEFINE end == IF to = -1 \/ to > size - 1 THEN size - 1 ELSE to
  <2>1. end \in Int /\ end <= size - 1
    OBVIOUS
  <2>2. CASE from >= size \/ end < from
    <3>1. answer.status = 416 /\ answer.body = {}
      BY <1>2, <1>3, <1>7, <2>2
    <3>2. named = {}
      BY <1>1, <1>7, <2>2
    <3> QED BY <3>1, <3>2
  <2>3. CASE ~(from >= size \/ end < from)
    <3>1. r = <<from, end>>
      BY <1>3, <1>7, <2>3
    <3> HIDE DEF end
    <3>2. r # <<1, 0>> /\ r[1] = from /\ r[2] = end
      BY <2>1, <2>3, <3>1
    <3>3. answer.status = 206 /\ answer.body = from..end
      BY <1>2, <1>7, <3>1, <3>2
    <3>4. named = from..end
      BY <1>1, <1>7, <2>1, <2>3 DEF end
    <3>5. from \in from..end
      BY <2>1, <2>3
    <3> QED BY <3>3, <3>4, <3>5
  <2> QED BY <2>2, <2>3
<1> QED BY <1>4, <1>5, <1>6, <1>7

-----------------------------------------------------------------------------
(* What the store's operations mean for whoever was promised something. *)

StoreStep == \/ Put \/ PutFails \/ Refuse \/ DiesInPut \/ Send \/ SendFails \/ Die \/ Open \/ Tick
             \/ Tear \/ UNCHANGED vars

LEMMA StepKeeps ==
  ASSUME StoreInv, StoreStep
  PROVE  StoreInv' /\ Endures
<1>1. CASE Tear \/ UNCHANGED vars
  <2>1. UNCHANGED <<up, quota, index, bytes, records, objects, clock, stored, sent>>
    BY <1>1 DEF Tear, vars, disk
  <2>2. StoreInv'
    BY <2>1 DEF StoreInv, TypeOK, IndexIsOnDisk, CountsAreTrue
  <2>3. Endures
    BY <2>1, StoreTypes DEF Endures
  <2> QED BY <2>2, <2>3
<1> QED
  BY <1>1, PutKeeps, PutFailsKeeps, RefuseKeeps, DiesInPutKeeps, SendIs, SendFailsKeeps, DieKeeps,
     OpenKeeps, TickKeeps DEF StoreStep

LEMMA Sooner == \A at, c, d, r \in Nat : c <= d /\ d - at <= r => c - at <= r
  OBVIOUS

\* A promise outlives a step: the record is not touched before it expires.
LEMMA PromiseEndures ==
  ASSUME StoreInv, Endures, NEW i, NEW at, Promised(i, at)
  PROVE  /\ i \in 1..stored' /\ at \in Nat
         /\ i \in DOMAIN records' => records'[i].created = at
         /\ clock' - at <= Referenced => i \in objects' /\ i \in DOMAIN records' /\ records'[i].referenced
<1>1. /\ i \in 1..stored /\ at \in Nat /\ (i \in DOMAIN records => records[i].created = at)
      /\ clock - at <= Referenced => i \in objects /\ i \in DOMAIN records /\ records[i].referenced
  BY DEF Promised
<1>2. /\ clock \in Nat /\ clock' \in Nat /\ clock <= clock' /\ stored \in Nat /\ stored' \in Nat
      /\ stored <= stored' /\ Referenced \in Nat
  BY StoreTypes, Bounds DEF Endures
<1>3. clock' - at <= Referenced => clock - at <= Referenced
  <2>1. at \in Nat /\ clock \in Nat /\ clock' \in Nat /\ clock <= clock' /\ Referenced \in Nat
    BY <1>1, <1>2
  <2> QED BY <2>1, Sooner
<1>4. clock - at <= Referenced => ~Expired(records[i])
  BY <1>1, <1>2 DEF Expired, Retention
<1>5. /\ i \in DOMAIN records' => /\ i \in DOMAIN records
                                  /\ records'[i].created = records[i].created
                                  /\ records[i].referenced => records'[i].referenced
      /\ i \in DOMAIN records \cap objects /\ ~Expired(records[i]) => i \in DOMAIN records' \cap objects'
  BY <1>1 DEF Endures
<1>6. i \in 1..stored'
  <2>1. i \in Nat /\ i >= 1 /\ i <= stored
    BY <1>1, <1>2
  <2> QED BY <1>2, <2>1
<1>7. i \in DOMAIN records' => records'[i].created = at
  BY <1>1, <1>5
<1>8. ASSUME clock' - at <= Referenced
      PROVE  i \in objects' /\ i \in DOMAIN records' /\ records'[i].referenced
  <2>1. i \in objects /\ i \in DOMAIN records /\ records[i].referenced /\ ~Expired(records[i])
    BY <1>1, <1>3, <1>4, <1>8
  <2> QED BY <1>5, <2>1
<1> QED BY <1>1, <1>6, <1>7, <1>8

LEMMA CustodyEndures ==
  ASSUME StoreInv, Endures, NEW i, NEW at, Custody(i, at)
  PROVE  /\ i \in 1..stored' /\ at \in Nat
         /\ i \in DOMAIN records' => records'[i].created = at
         /\ clock' - at <= Unreferenced => i \in objects' /\ i \in DOMAIN records'
<1>1. /\ i \in 1..stored /\ at \in Nat /\ (i \in DOMAIN records => records[i].created = at)
      /\ clock - at <= Unreferenced => i \in objects /\ i \in DOMAIN records
  BY DEF Custody
<1>2. /\ clock \in Nat /\ clock' \in Nat /\ clock <= clock' /\ stored \in Nat /\ stored' \in Nat
      /\ stored <= stored' /\ Referenced \in Nat /\ Unreferenced \in Nat /\ Unreferenced <= Referenced
  BY StoreTypes, Bounds DEF Endures
<1>3. clock' - at <= Unreferenced => clock - at <= Unreferenced
  <2>1. at \in Nat /\ clock \in Nat /\ clock' \in Nat /\ clock <= clock' /\ Unreferenced \in Nat
    BY <1>1, <1>2
  <2> QED BY <2>1, Sooner
<1>4. clock - at <= Unreferenced => ~Expired(records[i])
  BY <1>1, <1>2 DEF Expired, Retention
<1>5. /\ i \in DOMAIN records' => /\ i \in DOMAIN records
                                  /\ records'[i].created = records[i].created
                                  /\ records[i].referenced => records'[i].referenced
      /\ i \in DOMAIN records \cap objects /\ ~Expired(records[i]) => i \in DOMAIN records' \cap objects'
  BY <1>1 DEF Endures
<1>6. i \in 1..stored'
  <2>1. i \in Nat /\ i >= 1 /\ i <= stored
    BY <1>1, <1>2
  <2> QED BY <1>2, <2>1
<1>7. i \in DOMAIN records' => records'[i].created = at
  BY <1>1, <1>5
<1>8. ASSUME clock' - at <= Unreferenced
      PROVE  i \in objects' /\ i \in DOMAIN records'
  <2>1. i \in objects /\ i \in DOMAIN records /\ ~Expired(records[i])
    BY <1>1, <1>3, <1>4, <1>8
  <2> QED BY <1>5, <2>1
<1> QED BY <1>1, <1>6, <1>7, <1>8

LEMMA PromisesKept ==
  ASSUME StoreInv, Promises, StoreStep
  PROVE  Promises'
<1>1. StoreInv' /\ Endures
  BY StepKeeps
<1>2. ASSUME sent' = sent PROVE Promises'
  <2> SUFFICES ASSUME NEW i \in DOMAIN sent
               PROVE  /\ i \in 1..stored' /\ sent[i] \in Nat
                      /\ i \in DOMAIN records' => records'[i].created = sent[i]
                      /\ clock' - sent[i] <= Referenced =>
                           i \in objects' /\ i \in DOMAIN records' /\ records'[i].referenced
    BY <1>2 DEF Promises, Promised
  <2>1. Promised(i, sent[i])
    BY DEF Promises
  <2> QED BY <1>1, <2>1, PromiseEndures
<1>3. CASE Send
  <2>1. PICK ids \in SUBSET DOMAIN index :
              /\ \A i \in ids : /\ i \in objects' /\ i \in DOMAIN records'
                                /\ records'[i].referenced /\ records'[i].created = sent'[i]
                                /\ sent'[i] \in Nat /\ i \in 1..stored
              /\ DOMAIN sent' = DOMAIN sent \cup ids
              /\ \A i \in DOMAIN sent \ ids : sent'[i] = sent[i]
    BY <1>3, SendIs
  <2>2. stored' = stored
    BY <1>3 DEF Send
  <2> SUFFICES ASSUME NEW i \in DOMAIN sent'
               PROVE  /\ i \in 1..stored' /\ sent'[i] \in Nat
                      /\ i \in DOMAIN records' => records'[i].created = sent'[i]
                      /\ clock' - sent'[i] <= Referenced =>
                           i \in objects' /\ i \in DOMAIN records' /\ records'[i].referenced
    BY DEF Promises, Promised
  <2>3. CASE i \in ids
    BY <2>1, <2>2, <2>3
  <2>4. CASE i \notin ids
    <3>1. i \in DOMAIN sent /\ sent'[i] = sent[i] /\ Promised(i, sent[i])
      BY <2>1, <2>4 DEF Promises
    <3>2. /\ i \in 1..stored' /\ sent[i] \in Nat
          /\ i \in DOMAIN records' => records'[i].created = sent[i]
          /\ clock' - sent[i] <= Referenced =>
               i \in objects' /\ i \in DOMAIN records' /\ records'[i].referenced
      BY <1>1, <3>1, PromiseEndures
    <3> QED BY <3>1, <3>2
  <2> QED BY <2>3, <2>4
<1>4. ASSUME ~Send PROVE sent' = sent
  BY <1>4 DEF StoreStep, Put, PutFails, Refuse, DiesInPut, SendFails, Die, Open, Tick, Tear, vars
<1> QED BY <1>2, <1>3, <1>4

\* A refusal is over what has not expired: the rest was dropped first.
LEMMA RefusedWell ==
  ASSUME StoreInv, RefusedOnlyWhenFull, StoreStep
  PROVE  RefusedOnlyWhenFull'
<1>1. CASE Refuse
  <2> DEFINE id == stored + 1
             gone == Expiring(id)
             left == Without(index, gone)
             total == bytes - Freed(gone)
             live == {i \in DOMAIN index : ~Expired(index[i])}
  <2>1. /\ Full(left, total, Sizes[id])
        /\ refusal' = [live |-> Cardinality(live), size |-> Weight(live) + Sizes[id], quota |-> quota]
    BY <1>1 DEF Refuse
  <2>2. gone = ExpiredIn(index)
    <3>1. CASE Full(index, bytes, Sizes[id])
      BY <3>1 DEF Expiring
    <3>2. CASE ~Full(index, bytes, Sizes[id])
      <4>1. gone = {}
        BY <3>2 DEF Expiring
      <4>2. DOMAIN left = DOMAIN index
        BY <4>1 DEF Without, Restrict
      <4>3. Weight({}) = 0
        BY FS_EmptySet DEF Weight, BytesOf
      <4>4. total = bytes
        <5>1. Weight(gone) = 0
          BY <4>1, <4>3, Zenon
        <5>2. bytes \in Nat
          BY StoreTypes
        <5> QED BY <5>1, <5>2 DEF Freed
      <4>5. Cardinality(DOMAIN left) = Cardinality(DOMAIN index)
        BY <4>2
      <4> HIDE DEF left, total, id
      <4>6. Full(index, bytes, Sizes[id])
        BY <2>1, <4>4, <4>5 DEF Full
      <4> QED BY <3>2, <4>6
    <3> QED BY <3>1, <3>2
  <2>3. DOMAIN index \ gone = live /\ gone \subseteq DOMAIN index
    BY <2>2 DEF ExpiredIn
  <2> HIDE DEF gone, live
  <2>4. DOMAIN left = live /\ total = Weight(DOMAIN left)
    BY <2>3, LeftInMemory
  <2> HIDE DEF left, total
  <2>5. Cardinality(DOMAIN left) = Cardinality(live) /\ Weight(DOMAIN left) = Weight(live)
    BY <2>4, Zenon
  <2>6. Cardinality(live) >= quota \/ Weight(live) + Sizes[id] > ByteQuota
    BY <2>1, <2>4, <2>5 DEF Full
  <2> QED BY <2>1, <2>6 DEF RefusedOnlyWhenFull
<1>2. CASE ~Refuse
  <2>1. refusal' = refusal
    BY <1>2 DEF StoreStep, Put, PutFails, DiesInPut, Send, SendFails, Die, Open, Tick, Tear, vars
  <2> QED BY <2>1 DEF RefusedOnlyWhenFull
<1> QED BY <1>1, <1>2

LEMMA HeldKept ==
  ASSUME StoreInv, HeldWell, ClientsTyped, StoreStep, held' = held
  PROVE  HeldWell'
<1>1. StoreInv' /\ Endures
  BY StepKeeps
<1> SUFFICES ASSUME NEW i \in DOMAIN held
             PROVE  /\ i \in 1..stored' /\ held[i] \in Nat
                    /\ i \in DOMAIN records' => records'[i].created = held[i]
                    /\ clock' - held[i] <= Unreferenced => i \in objects' /\ i \in DOMAIN records'
  BY DEF HeldWell, Custody
<1>2. Custody(i, held[i])
  BY DEF HeldWell
<1> QED BY <1>1, <1>2, CustodyEndures

LEMMA ClientsStay ==
  ASSUME StoreInv, ClientsTyped, StoreStep, UNCHANGED client
  PROVE  ClientsTyped'
<1>1. Endures
  BY StepKeeps
<1>2. 1..stored \subseteq 1..stored'
  BY <1>1, StoreTypes DEF Endures
<1> QED BY <1>2 DEF ClientsTyped, client

\* What is answered stays in custody until the client has it.
LEMMA AnswerKept ==
  ASSUME StoreInv, AnsweredWell, StoreStep, exchange' = exchange
  PROVE  AnsweredWell'
<1>1. StoreInv' /\ Endures
  BY StepKeeps
<1> SUFFICES ASSUME exchange.step = "answered", NEW i \in exchange.body
             PROVE  /\ i \in 1..stored' /\ exchange.at \in Nat
                    /\ i \in DOMAIN records' => records'[i].created = exchange.at
                    /\ clock' - exchange.at <= Unreferenced => i \in objects' /\ i \in DOMAIN records'
  BY DEF AnsweredWell, Custody
<1>2. Custody(i, exchange.at)
  BY DEF AnsweredWell
<1> QED BY <1>1, <1>2, CustodyEndures

-----------------------------------------------------------------------------
(* What a client is told. *)

\* A code is true of what was wrong with a request.
TrueOf(op, wrong, code) ==
  /\ code \in {"attachment_too_large", "audio_too_large"} => wrong = "over"
  /\ wrong = "over" => code \in
       {"attachment_too_large", "audio_too_large", "attachment_unavailable"}
  /\ code \in {"attachment_incomplete", "audio_incomplete"} => wrong = "cut"
  /\ code = "invalid_attachment" /\ op # "import" => wrong \in {"query", "name", "type", "empty", "id"}
  /\ (code = "unauthorized") = (wrong = "token")

Sound(audio) ==
  /\ Counted(audio, "fmt") # {}
  /\ Cardinality(Counted(audio, "data")) = 1 =>
       \A i \in Counted(audio, "data") : audio[i].size \in 1..MaxAudio

LEMMA ToldWell ==
  ASSUME NEW request, NEW code, NEW file, exchange' = Told(request, code, file),
         TrueOf(request.op, request.wrong, code),
         request.op = "save" => file # "part", request.op = "thumbnail" => file # "junk",
         request.op = "transcribe" /\ code = "ok" => Sound(file)
  PROVE  /\ exchange'.step \in {"idle", "asked", "answered", "told"}
         /\ Exchanging' /\ AnsweredWell' /\ Ending'
<1>1. /\ exchange'.step = "told" /\ exchange'.op = request.op /\ exchange'.wrong = request.wrong
      /\ exchange'.code = code /\ exchange'.file = file
  BY DEF Told
<1>2. RefusalsAreTrue'
  BY <1>1 DEF RefusalsAreTrue, TrueOf, Ended
<1>3. SavedIsWhole' /\ FramesAreImages'
  BY <1>1 DEF SavedIsWhole, FramesAreImages, Ended
<1>4. RecordingsAreSound'
  BY <1>1 DEF RecordingsAreSound, Ended, Sound
<1> QED BY <1>1, <1>2, <1>3, <1>4 DEF Exchanging, AnsweredWell, Ending

\* A request that has not ended says nothing of how it ends.
LEMMA NotEnded ==
  ASSUME exchange'.step \in {"idle", "asked", "answered"}
  PROVE  Ending'
  BY DEF Ending, RefusalsAreTrue, SavedIsWhole, FramesAreImages, RecordingsAreSound, Ended

LEMMA Unavailable ==
  ASSUME NEW request, request.wrong # "token"
  PROVE  TrueOf(request.op, request.wrong, "attachment_unavailable")
  BY DEF TrueOf

LEMMA LetThroughIs ==
  ASSUME NEW request, LetThrough(request)
  PROVE  /\ request.wrong # "token"
         /\ request.op \in {"upload", "import"}
         /\ \A code : Fits(request, code) => TrueOf(request.op, request.wrong, code)
<1>1. request.op = "upload" \/ request.op = "import"
  BY DEF LetThrough, Uploads, Imports
<1>2. request.wrong \notin {"token", "cut"}
  BY DEF LetThrough, Uploads, Imports
<1> QED BY <1>1, <1>2 DEF Fits, TrueOf

\* What the content API refuses fits the request.
LEMMA PutRefusalFits ==
  ASSUME NEW request, LetThrough(request), PutRefusal(request) # "none"
  PROVE  Fits(request, PutRefusal(request))
<1>1. CASE request.op = "import" /\ request.wrong \in {"nothing", "relative", "link", "missing", "empty", "over"}
  BY <1>1 DEF PutRefusal, Fits
<1>2. CASE request.op = "upload" /\ ~request.parameters /\ request.wrong \in {"nothing", "name", "empty"}
  BY <1>2 DEF PutRefusal, Fits
<1> QED BY <1>1, <1>2 DEF LetThrough, Uploads, Imports

\* What the gateway refuses is true of the request.
LEMMA GatewayIsTrue ==
  ASSUME NEW request, request.op \in {"upload", "get", "head", "transcribe"},
         GatewayRefusal(request) # "none"
  PROVE  TrueOf(request.op, request.wrong, GatewayRefusal(request))
  BY DEF GatewayRefusal, TrueOf

LEMMA GatewayLets ==
  ASSUME NEW request, GatewayRefusal(request) = "none"
  PROVE  /\ request.wrong \notin {"token", "query", "id", "type", "over", "cut"}
         /\ request.op = "transcribe" => ValidWav(request.audio)
  BY DEF GatewayRefusal

LEMMA RecordingIsSound ==
  ASSUME NEW audio \in Recordings, ValidWav(audio)
  PROVE  Sound(audio)
<1> DEFINE data == Counted(audio, "data")
<1>1. Counted(audio, "fmt") # {} /\ audio[Last(data)].size \in 1..MaxAudio
  BY DEF ValidWav
<1>2. IsFiniteSet(data)
  <2>1. audio \in Seq([name : STRING, size : Nat, sound : BOOLEAN])
    BY ContentAssumption DEF ContentAssumption
  <2>2. DOMAIN audio = 1..Len(audio) /\ Len(audio) \in Int /\ 1 \in Int
    BY <2>1
  <2>3. IsFiniteSet(1..Len(audio))
    BY <2>2, FS_Interval
  <2>4. data \in SUBSET (1..Len(audio))
    BY <2>2 DEF Counted
  <2> QED BY <2>3, <2>4, FS_Subset
<1>3. ASSUME Cardinality(data) = 1 PROVE \A i \in data : audio[i].size \in 1..MaxAudio
  <2>1. PICK x : data = {x}
    BY <1>2, <1>3, FS_Singleton
  <2>2. x \in Nat
    <3>1. audio \in Seq([name : STRING, size : Nat, sound : BOOLEAN])
      BY ContentAssumption DEF ContentAssumption
    <3> QED BY <2>1, <3>1 DEF Counted
  <2>3. Last(data) = x
    BY <2>1, <2>2 DEF Last
  <2> QED BY <1>1, <2>1, <2>3
<1> QED BY <1>1, <1>3 DEF Sound

-----------------------------------------------------------------------------
(* The steps. *)

LEMMA ContentAgain ==
  ASSUME ContentInv, StoreStep, UNCHANGED client,
         exchange'.step \in {"idle", "asked", "answered", "told"},
         Exchanging', AnsweredWell', Ending'
  PROVE  ContentInv'
<1>1. StoreInv' /\ Promises' /\ RefusedOnlyWhenFull'
  BY StepKeeps, PromisesKept, RefusedWell DEF ContentInv
<1>2. ClientsTyped'
  BY ClientsStay DEF ContentInv
<1>3. HeldWell'
  <2>1. held' = held
    BY DEF client
  <2> QED BY <2>1, HeldKept DEF ContentInv
<1> QED BY <1>1, <1>2, <1>3 DEF ContentInv

\* A request that ends where it was asked, with the store as it was.
LEMMA EndsAtOnce ==
  ASSUME ContentInv, StoreStep, UNCHANGED client,
         NEW request, NEW code, NEW file, exchange' = Told(request, code, file),
         TrueOf(request.op, request.wrong, code),
         request.op = "save" => file # "part", request.op = "thumbnail" => file # "junk",
         request.op = "transcribe" /\ code = "ok" => Sound(file)
  PROVE  ContentInv'
  BY ToldWell, ContentAgain

\* A request that is with the content API now.
LEMMA IsAsked ==
  ASSUME ContentInv, StoreStep, UNCHANGED client,
         NEW request, exchange' = Asked(request), LetThrough(request)
  PROVE  ContentInv'
<1>1. exchange'.step = "asked" /\ exchange'.request = request
  BY DEF Asked
<1>2. Exchanging' /\ AnsweredWell'
  BY <1>1 DEF Exchanging, AnsweredWell, LetThrough, Uploads, Imports
<1>3. Ending'
  BY <1>1, NotEnded
<1> QED BY <1>1, <1>2, <1>3, ContentAgain

\* An answer of the content API, with nothing in it to keep.
LEMMA IsAnswered ==
  ASSUME ContentInv, StoreStep, UNCHANGED client, exchange.step = "asked",
         NEW code, Answer(code, {}), Fits(exchange.request, code)
  PROVE  ContentInv'
<1>1. /\ exchange'.step = "answered" /\ exchange'.request = exchange.request
      /\ exchange'.code = code /\ exchange'.body = {}
  BY DEF Answer, Answered
<1>2. LetThrough(exchange.request)
  BY DEF ContentInv, Exchanging
<1>3. Exchanging'
  BY <1>1, <1>2 DEF Exchanging, LetThrough, Fits, Uploads, Imports
<1>4. AnsweredWell'
  BY <1>1 DEF AnsweredWell
<1>5. Ending'
  BY <1>1, NotEnded
<1> QED BY <1>1, <1>3, <1>4, <1>5, ContentAgain

LEMMA AsksKeep ==
  ASSUME ContentInv, NEW request, NEW code, NEW passed, Ask(request, code, passed),
         request.op \in {"upload", "import"},
         code # "none" => TrueOf(request.op, request.wrong, code),
         code = "none" => LetThrough(passed) /\ request.wrong # "token"
  PROVE  ContentInv'
<1>1. StoreStep /\ UNCHANGED client
  BY DEF Ask, StoreStep
<1>2. exchange' = IF code # "none" THEN Told(request, code, "none")
                  ELSE IF ~up THEN Told(request, "attachment_unavailable", "none")
                  ELSE Asked(passed)
  BY DEF Ask
<1>3. CASE code # "none"
  BY <1>1, <1>2, <1>3, EndsAtOnce
<1>4. CASE code = "none" /\ ~up
  BY <1>1, <1>2, <1>4, Unavailable, EndsAtOnce
<1>5. CASE code = "none" /\ up
  BY <1>1, <1>2, <1>5, IsAsked
<1> QED BY <1>3, <1>4, <1>5 DEF ContentInv, StoreInv, TypeOK

LEMMA PhoneUploadsKeeps ==
  ASSUME ContentInv, PhoneUploads
  PROVE  ContentInv'
<1>1. PICK request \in Uploads : Ask(request, GatewayRefusal(request), Forwarded(request))
  BY DEF PhoneUploads
<1>2. /\ request.op = "upload"
      /\ request.wrong \in {"nothing", "token", "query", "name", "type", "empty", "over", "cut"}
  BY DEF Uploads
<1>3. GatewayRefusal(request) # "none" => TrueOf(request.op, request.wrong, GatewayRefusal(request))
  BY <1>2, GatewayIsTrue
<1>4. ASSUME GatewayRefusal(request) = "none"
      PROVE  LetThrough(Forwarded(request)) /\ request.wrong # "token"
  <2>1. request.wrong \in {"nothing", "name", "empty"}
    BY <1>2, <1>4, GatewayLets
  <2>2. Forwarded(request) = [request EXCEPT !.parameters = FALSE]
    BY <1>2 DEF Forwarded
  <2>3. /\ Forwarded(request) \in Uploads /\ Forwarded(request).parameters = FALSE
        /\ Forwarded(request).wrong = request.wrong
    BY <2>2 DEF Uploads
  <2> QED BY <2>1, <2>3 DEF LetThrough
<1> QED BY <1>1, <1>2, <1>3, <1>4, AsksKeep

LEMMA DesktopImportsKeeps ==
  ASSUME ContentInv, DesktopImports
  PROVE  ContentInv'
<1>1. PICK request \in Imports : Ask(request, "none", request)
  BY DEF DesktopImports
<1>2. /\ request.op = "import"
      /\ request.wrong \in {"nothing", "relative", "link", "missing", "empty", "over"}
  BY DEF Imports
<1>3. LetThrough(request) /\ request.wrong # "token"
  BY <1>2 DEF LetThrough
<1> QED BY <1>1, <1>2, <1>3, AsksKeep

LEMMA StoresKeeps ==
  ASSUME ContentInv, Stores
  PROVE  ContentInv'
<1> DEFINE request == exchange.request
           wrong == PutRefusal(request)
<1>1. /\ exchange.step = "asked" /\ UNCHANGED client /\ LetThrough(request)
  BY DEF Stores, ContentInv, Exchanging
<1>2. CASE wrong # "none" /\ Answer(wrong, {}) /\ UNCHANGED vars
  <2>1. Fits(request, wrong)
    BY <1>1, <1>2, PutRefusalFits
  <2> QED BY <1>1, <1>2, <2>1, IsAnswered DEF StoreStep
<1>3. ASSUME wrong = "none"
      PROVE  Fits(request, "ok") /\ Fits(request, "attachment_quota") /\ Fits(request, "attachment_unavailable")
             /\ request.wrong # "over"
  <2>1. request.wrong # "over"
    BY <1>3 DEF PutRefusal
  <2> QED BY <2>1 DEF Fits
<1>4. CASE wrong = "none" /\ Put /\ Stored(stored')
  <2>1. /\ exchange'.step = "answered" /\ exchange'.request = request /\ exchange'.code = "ok"
        /\ exchange'.body = {stored'} /\ exchange'.at = clock
    BY <1>4 DEF Stored, Answered
  <2>2. Exchanging'
    <3>1. LetThrough(exchange'.request) /\ Fits(exchange'.request, exchange'.code)
      BY <1>1, <1>3, <1>4, <2>1
    <3> QED BY <2>1, <3>1 DEF Exchanging, LetThrough, Fits, Uploads, Imports
  <2>3. /\ stored' = stored + 1 /\ clock' = clock
        /\ stored' \in DOMAIN records' /\ records'[stored'].created = clock /\ stored' \in objects'
    BY <1>4 DEF Put, With
  <2>4. stored' \in 1..stored' /\ clock \in Nat
    BY <2>3, StoreTypes DEF ContentInv
  <2>5. AnsweredWell'
    BY <2>1, <2>3, <2>4 DEF AnsweredWell, Custody
  <2>6. Ending'
    BY <2>1, NotEnded
  <2> QED BY <1>1, <1>4, <2>1, <2>2, <2>5, <2>6, ContentAgain DEF StoreStep
<1>5. CASE wrong = "none" /\ Refuse /\ Answer("attachment_quota", {})
  BY <1>1, <1>3, <1>5, IsAnswered DEF StoreStep
<1>6. CASE wrong = "none" /\ PutFails /\ Answer("attachment_unavailable", {})
  BY <1>1, <1>3, <1>6, IsAnswered DEF StoreStep
<1>7. CASE wrong = "none" /\ PutFails /\ request.op = "import" /\ Answer("invalid_attachment", {})
  <2>1. Fits(request, "invalid_attachment")
    BY <1>3, <1>7 DEF Fits
  <2> QED BY <1>1, <1>7, <2>1, IsAnswered DEF StoreStep
<1>8. CASE wrong = "none" /\ DiesInPut /\ exchange' = Told(request, "attachment_unavailable", "none")
  BY <1>1, <1>8, LetThroughIs, Unavailable, EndsAtOnce DEF StoreStep
<1> QED BY <1>2, <1>4, <1>5, <1>6, <1>7, <1>8 DEF Stores

LEMMA LostKeeps ==
  ASSUME ContentInv, Lost
  PROVE  ContentInv'
<1>1. LetThrough(exchange.request) /\ UNCHANGED client /\ StoreStep
  BY DEF Lost, ContentInv, Exchanging, StoreStep
<1>2. exchange' = Told(exchange.request, "attachment_unavailable", "none")
  BY DEF Lost
<1> QED BY <1>1, <1>2, LetThroughIs, Unavailable, EndsAtOnce

LEMMA PutArrivesKeeps ==
  ASSUME ContentInv, PutArrives
  PROVE  ContentInv'
<1>1. /\ exchange.step = "answered" /\ exchange' = Told(exchange.request, exchange.code, "none")
      /\ held' = Holds(exchange.body, exchange.at) /\ UNCHANGED <<copy, thumb, vars>>
  BY DEF PutArrives
<1>2. UNCHANGED <<up, quota, index, bytes, records, objects, clock, stored, sent, refusal>> /\ StoreStep
  BY <1>1 DEF vars, disk, StoreStep
<1>3. StoreInv' /\ Promises' /\ RefusedOnlyWhenFull'
  BY <1>2, StepKeeps, PromisesKept, RefusedWell DEF ContentInv
<1>4. \A i \in exchange.body : Custody(i, exchange.at)
  BY <1>1 DEF ContentInv, AnsweredWell
<1>5. /\ DOMAIN held' = DOMAIN held \cup exchange.body
      /\ \A i \in DOMAIN held : held'[i] = held[i]
      /\ \A i \in exchange.body \ DOMAIN held : held'[i] = exchange.at
  BY <1>1 DEF Holds
<1>6. \A i \in DOMAIN held' : Custody(i, held'[i])
  BY <1>4, <1>5 DEF ContentInv, HeldWell
<1>7. HeldWell'
  BY <1>2, <1>6 DEF HeldWell, Custody
<1>8. ClientsTyped'
  <2>1. \A i \in DOMAIN held' : held'[i] \in Nat /\ i \in 1..stored
    BY <1>6 DEF Custody
  <2>2. held' \in [DOMAIN held' -> Nat]
    BY <1>1, <2>1 DEF Holds
  <2> QED BY <1>1, <1>2, <2>1, <2>2 DEF ContentInv, ClientsTyped
<1>9. /\ exchange'.step \in {"idle", "asked", "answered", "told"}
      /\ Exchanging' /\ AnsweredWell' /\ Ending'
  <2>1. LetThrough(exchange.request) /\ Fits(exchange.request, exchange.code)
    BY <1>1 DEF ContentInv, Exchanging
  <2> QED BY <1>1, <2>1, LetThroughIs, ToldWell
<1> QED BY <1>3, <1>7, <1>8, <1>9 DEF ContentInv

LEMMA PhoneFetchesKeeps ==
  ASSUME ContentInv, PhoneFetches
  PROVE  ContentInv'
<1>1. PICK request \in Fetches \cup Probes :
        exchange' = Told(request, IF GatewayRefusal(request) # "none" THEN GatewayRefusal(request)
                                  ELSE Fetched(request.id, IF request.op = "head" THEN NoRange
                                                           ELSE request.range).code, "none")
  BY DEF PhoneFetches
<1>2. UNCHANGED client /\ StoreStep
  BY DEF PhoneFetches, StoreStep
<1>3. request.op \in {"get", "head"}
  BY DEF Fetches, Probes
<1>4. CASE GatewayRefusal(request) # "none"
  <2>1. TrueOf(request.op, request.wrong, GatewayRefusal(request))
    BY <1>3, <1>4, GatewayIsTrue
  <2> QED BY <1>1, <1>2, <1>3, <1>4, <2>1, EndsAtOnce
<1>5. CASE GatewayRefusal(request) = "none"
  <2> DEFINE code == Fetched(request.id, IF request.op = "head" THEN NoRange ELSE request.range).code
  <2>1. code \in {"attachment_unavailable", "attachment_not_found", "invalid_range", "ok"}
    BY DEF Fetched
  <2>2. request.wrong \notin {"token", "over"}
    BY <1>5, GatewayLets
  <2> HIDE DEF code
  <2>3. TrueOf(request.op, request.wrong, code)
    BY <2>1, <2>2 DEF TrueOf
  <2>4. exchange' = Told(request, code, "none")
    BY <1>1, <1>5 DEF code
  <2> QED BY <1>2, <1>3, <2>3, <2>4, EndsAtOnce
<1> QED BY <1>4, <1>5

LEMMA TranscribesKeeps ==
  ASSUME ContentInv, Transcribes
  PROVE  ContentInv'
<1>1. PICK request \in Transcriptions,
           said \in {"ok", "invalid_transcript", "transcription_failed",
                     "transcription_timeout", "transcription_unavailable"} :
        exchange' = Told(request, IF GatewayRefusal(request) # "none" THEN GatewayRefusal(request)
                                  ELSE said, request.audio)
  BY DEF Transcribes
<1>2. UNCHANGED client /\ StoreStep
  BY DEF Transcribes, StoreStep
<1>3. request.op = "transcribe" /\ request.audio \in Recordings
  BY DEF Transcriptions
<1>4. CASE GatewayRefusal(request) # "none"
  <2>1. TrueOf(request.op, request.wrong, GatewayRefusal(request))
    BY <1>3, <1>4, GatewayIsTrue
  <2>2. GatewayRefusal(request) # "ok"
    BY DEF GatewayRefusal
  <2> QED BY <1>1, <1>2, <1>3, <1>4, <2>1, <2>2, EndsAtOnce
<1>5. CASE GatewayRefusal(request) = "none"
  <2>1. request.wrong \notin {"token", "over"} /\ ValidWav(request.audio)
    BY <1>3, <1>5, GatewayLets
  <2>2. TrueOf(request.op, request.wrong, said)
    BY <2>1 DEF TrueOf
  <2>3. Sound(request.audio)
    BY <1>3, <2>1, RecordingIsSound
  <2> QED BY <1>1, <1>2, <1>3, <1>5, <2>2, <2>3, EndsAtOnce
<1> QED BY <1>4, <1>5

\* What an operation of the desktop's client makes of its copies and frames.
LEMMA ViewEnds ==
  ASSUME ContentInv, NEW view \in Views, NEW code, NEW file, Finish(view, code, file),
         UNCHANGED vars \/ Tear, held' = held, ClientsTyped',
         code \in {"ok", "preview_unavailable", "attachment_unavailable", "not_saved"},
         view.op = "save" => file # "part", view.op = "thumbnail" => file # "junk"
  PROVE  ContentInv'
<1>1. StoreStep
  BY DEF StoreStep
<1>2. StoreInv' /\ Promises' /\ RefusedOnlyWhenFull'
  BY <1>1, StepKeeps, PromisesKept, RefusedWell DEF ContentInv
<1>3. HeldWell'
  BY <1>1, HeldKept DEF ContentInv
<1>4. view.wrong = "nothing" /\ view.op \in {"open", "thumbnail", "save"}
  BY DEF Views
<1>5. TrueOf(view.op, view.wrong, code)
  BY <1>4 DEF TrueOf
<1>6. exchange' = Told(view, code, file)
  BY DEF Finish
<1>7. /\ exchange'.step \in {"idle", "asked", "answered", "told"}
      /\ Exchanging' /\ AnsweredWell' /\ Ending'
  BY <1>4, <1>5, <1>6, ToldWell
<1> QED BY <1>2, <1>3, <1>7 DEF ContentInv

LEMMA UntornStored ==
  ASSUME UNCHANGED vars \/ Tear
  PROVE  stored' = stored
  BY DEF vars, Tear

LEMMA CopiesTyped ==
  ASSUME ContentInv, UNCHANGED vars \/ Tear, held' = held, NEW id \in 1..stored,
         copy' = copy \/ \E state \in {"part", "whole"} :
           copy' = [i \in DOMAIN copy \cup {id} |-> IF i = id THEN state ELSE copy[i]],
         \/ thumb' = thumb
         \/ id \in DOMAIN copy' /\ \E state \in {"part", "junk", "whole"} : Framed(id, state)
  PROVE  ClientsTyped'
<1>1. stored' = stored
  BY UntornStored
<1>2. ClientsTyped
  BY DEF ContentInv
<1>3. /\ copy' \in [DOMAIN copy' -> {"part", "whole"}] /\ DOMAIN copy' \subseteq 1..stored'
      /\ DOMAIN copy \subseteq DOMAIN copy'
  <2>1. CASE copy' = copy
    BY <1>1, <1>2, <2>1 DEF ClientsTyped
  <2>2. ASSUME NEW state \in {"part", "whole"},
               copy' = [i \in DOMAIN copy \cup {id} |-> IF i = id THEN state ELSE copy[i]]
        PROVE  /\ copy' \in [DOMAIN copy' -> {"part", "whole"}] /\ DOMAIN copy' \subseteq 1..stored'
               /\ DOMAIN copy \subseteq DOMAIN copy'
    BY <1>1, <1>2, <2>2 DEF ClientsTyped
  <2> QED BY <2>1, <2>2
<1>4. thumb' \in [DOMAIN thumb' -> {"part", "junk", "whole"}] /\ DOMAIN thumb' \subseteq DOMAIN copy'
  <2>1. CASE thumb' = thumb
    BY <1>2, <1>3, <2>1 DEF ClientsTyped
  <2>2. ASSUME NEW state \in {"part", "junk", "whole"}, Framed(id, state), id \in DOMAIN copy'
        PROVE  thumb' \in [DOMAIN thumb' -> {"part", "junk", "whole"}] /\ DOMAIN thumb' \subseteq DOMAIN copy'
    BY <1>2, <1>3, <2>2 DEF ClientsTyped, Framed
  <2> QED BY <2>1, <2>2
<1> QED BY <1>1, <1>2, <1>3, <1>4 DEF ClientsTyped

LEMMA OpenedKeeps ==
  ASSUME ContentInv, NEW view \in Views, view.op = "open", view.id \in 1..stored, held' = held,
         Opened(view)
  PROVE  ContentInv'
<1>1. thumb' = thumb
  BY DEF Opened
<1>2. CASE view.id \in DOMAIN copy /\ Finish(view, "ok", copy[view.id]) /\ UNCHANGED vars /\ UNCHANGED copy
  BY <1>1, <1>2, CopiesTyped, ViewEnds
<1>3. CASE /\ Finish(view, "ok", "whole") /\ UNCHANGED vars
           /\ copy' = [i \in DOMAIN copy \cup {view.id} |-> IF i = view.id THEN "whole" ELSE copy[i]]
  BY <1>1, <1>3, CopiesTyped, ViewEnds
<1>4. CASE /\ Finish(view, "preview_unavailable", "none") /\ Tear
           /\ copy' = [i \in DOMAIN copy \cup {view.id} |-> IF i = view.id THEN "part" ELSE copy[i]]
  BY <1>1, <1>4, CopiesTyped, ViewEnds
<1> QED BY <1>2, <1>3, <1>4 DEF Opened, PrivateCopy

LEMMA ThumbnailKeeps ==
  ASSUME ContentInv, NEW view \in Views, view.op = "thumbnail", view.id \in 1..stored, held' = held,
         Thumbnail(view)
  PROVE  ContentInv'
<1> DEFINE id == view.id
           Copies(state) == copy' = [i \in DOMAIN copy \cup {id} |-> IF i = id THEN state ELSE copy[i]]
<1>1. CASE Finish(view, "ok", "whole") /\ UNCHANGED <<copy, thumb, vars>>
  BY <1>1, CopiesTyped, ViewEnds
<1>2. CASE Finish(view, "preview_unavailable", "none") /\ Tear /\ UNCHANGED thumb /\ Copies("part")
  BY <1>2, CopiesTyped, ViewEnds
<1>3. CASE Extracted(view) /\ ((id \in DOMAIN copy /\ copy' = copy) \/ Copies("whole"))
  <2>1. id \in DOMAIN copy'
    BY <1>3
  <2>2. CASE /\ id \in DOMAIN thumb /\ Showable(thumb[id])
             /\ Finish(view, "ok", thumb[id]) /\ UNCHANGED <<thumb, vars>>
    <3>1. thumb[id] # "junk"
      BY <2>2 DEF Showable
    <3> QED BY <1>3, <2>2, <3>1, CopiesTyped, ViewEnds
  <2>3. CASE Framed(id, "whole") /\ Finish(view, "ok", "whole") /\ UNCHANGED vars
    BY <1>3, <2>1, <2>3, CopiesTyped, ViewEnds
  <2>4. CASE /\ \E state \in {"part", "junk"} : Framed(id, state)
             /\ Finish(view, "preview_unavailable", "none") /\ Tear
    BY <1>3, <2>1, <2>4, CopiesTyped, ViewEnds
  <2> QED BY <1>3, <2>2, <2>3, <2>4 DEF Extracted
<1> QED BY <1>1, <1>2, <1>3 DEF Thumbnail, PrivateCopy

LEMMA DesktopViewsKeeps ==
  ASSUME ContentInv, DesktopViews
  PROVE  ContentInv'
<1>1. PICK view \in Views :
        /\ view.id <= stored
        /\ \/ ViewFails(view) /\ UNCHANGED <<copy, thumb, vars>>
           \/ /\ Downloaded(view.id)
              /\ \/ view.op = "save" /\ AtomicWrite(view) /\ UNCHANGED <<copy, thumb>>
                 \/ view.op = "open" /\ Inline(view.id) /\ Opened(view)
                 \/ view.op = "thumbnail" /\ Inline(view.id) /\ Thumbnail(view)
  BY DEF DesktopViews
<1>2. held' = held
  BY DEF DesktopViews
<1>3. view.id \in 1..stored
  BY <1>1, SizesAre, StoreTypes DEF Views, ContentInv
<1>4. CASE ViewFails(view) /\ UNCHANGED <<copy, thumb, vars>>
  <2>1. ClientsTyped'
    BY <1>2, <1>3, <1>4, CopiesTyped
  <2>2. \/ Finish(view, "preview_unavailable", "none")
        \/ Finish(view, "attachment_unavailable", "none")
    BY <1>4 DEF ViewFails
  <2> QED BY <1>2, <1>4, <2>1, <2>2, ViewEnds
<1>5. CASE view.op = "save" /\ AtomicWrite(view) /\ UNCHANGED <<copy, thumb>>
  <2>1. \/ Finish(view, "ok", "whole") /\ UNCHANGED vars
        \/ Finish(view, "not_saved", "older") /\ Tear
    BY <1>5 DEF AtomicWrite
  <2>2. ClientsTyped'
    BY <1>2, <1>3, <1>5, <2>1, CopiesTyped
  <2> QED BY <1>2, <1>5, <2>1, <2>2, ViewEnds
<1>6. CASE view.op = "open" /\ Opened(view)
  BY <1>2, <1>3, <1>6, OpenedKeeps
<1>7. CASE view.op = "thumbnail" /\ Thumbnail(view)
  BY <1>2, <1>3, <1>7, ThumbnailKeeps
<1> QED BY <1>1, <1>4, <1>5, <1>6, <1>7

LEMMA ReadsKeeps ==
  ASSUME ContentInv, Reads
  PROVE  ContentInv'
<1>1. exchange'.step = "idle" /\ UNCHANGED client /\ StoreStep
  BY DEF Reads, Idle, StoreStep
<1>2. Exchanging' /\ AnsweredWell'
  BY <1>1 DEF Exchanging, AnsweredWell
<1> QED BY <1>1, <1>2, NotEnded, ContentAgain

LEMMA StoreGoesOnKeeps ==
  ASSUME ContentInv, StoreGoesOn
  PROVE  ContentInv'
<1>1. StoreStep /\ UNCHANGED client /\ exchange' = exchange
  BY DEF StoreGoesOn, StoreStep, content
<1>2. exchange'.step \in {"idle", "asked", "answered"} /\ Exchanging'
  BY <1>1 DEF ContentInv, StoreGoesOn, Exchanging, LetThrough, Fits, Uploads, Imports
<1>3. AnsweredWell'
  BY <1>1, AnswerKept DEF ContentInv
<1> QED BY <1>1, <1>2, <1>3, NotEnded, ContentAgain

LEMMA DiesKeeps ==
  ASSUME ContentInv, Dies
  PROVE  ContentInv'
<1>1. StoreStep /\ UNCHANGED client
  BY DEF Dies, StoreStep
<1>2. CASE exchange.step = "asked"
  <2>1. LetThrough(exchange.request)
    BY <1>2 DEF ContentInv, Exchanging
  <2>2. exchange' = Told(exchange.request, "attachment_unavailable", "none")
    BY <1>2 DEF Dies
  <2> QED BY <1>1, <2>1, <2>2, LetThroughIs, Unavailable, EndsAtOnce
<1>3. CASE exchange.step # "asked"
  <2>1. exchange' = exchange /\ exchange'.step \in {"idle", "answered"}
    BY <1>3 DEF Dies, ContentInv
  <2>2. Exchanging'
    BY <2>1 DEF ContentInv, Exchanging, LetThrough, Fits, Uploads, Imports
  <2>3. AnsweredWell'
    BY <1>1, <2>1, AnswerKept DEF ContentInv
  <2> QED BY <1>1, <2>1, <2>2, <2>3, NotEnded, ContentAgain
<1> QED BY <1>2, <1>3

-----------------------------------------------------------------------------
(* The theorems. *)

LEMMA ContentStarts == ContentInit => ContentInv
<1> SUFFICES ASSUME ContentInit PROVE ContentInv
  OBVIOUS
<1>1. /\ up = FALSE /\ quota \in ObjectQuotas /\ index = <<>> /\ bytes = 0 /\ records = <<>>
      /\ objects = {} /\ clock = 0 /\ stored = 0 /\ sent = <<>> /\ refusal = NoRefusal /\ faults = 0
      /\ exchange = Idle /\ held = <<>> /\ copy = <<>> /\ thumb = <<>>
  BY DEF ContentInit, Init
<1>2. /\ DOMAIN index = {} /\ DOMAIN records = {} /\ DOMAIN sent = {} /\ DOMAIN held = {}
      /\ DOMAIN copy = {} /\ DOMAIN thumb = {}
  BY <1>1
<1>3. TypeOK
  <2>1. /\ index \in [DOMAIN index -> Records] /\ records \in [DOMAIN records -> Records]
        /\ sent \in [DOMAIN sent -> Nat]
    BY <1>1
  <2>2. clock \in 0..MaxClock /\ stored \in 0..Len(Sizes)
    BY <1>1, Bounds, SizesAre
  <2> QED BY <1>1, <1>2, <2>1, <2>2 DEF TypeOK
<1>4. CountsAreTrue
  <2>1. Weight({}) = 0
    BY FS_EmptySet DEF Weight, BytesOf
  <2>2. bytes = Weight(DOMAIN index)
    BY <1>1, <1>2, <2>1, Zenon
  <2> QED BY <1>1, <2>2 DEF CountsAreTrue
<1>5. StoreInv /\ Promises /\ RefusedOnlyWhenFull
  BY <1>1, <1>2, <1>3, <1>4 DEF StoreInv, IndexIsOnDisk, Promises, RefusedOnlyWhenFull
<1>6. ClientsTyped /\ HeldWell
  <2>1. held \in [DOMAIN held -> Nat] /\ copy \in [DOMAIN copy -> {"part", "whole"}]
        /\ thumb \in [DOMAIN thumb -> {"part", "junk", "whole"}]
    BY <1>1
  <2> QED BY <1>2, <2>1 DEF ClientsTyped, HeldWell
<1>7. exchange.step = "idle"
  BY <1>1 DEF Idle
<1>8. Exchanging /\ AnsweredWell /\ Ending
  BY <1>7 DEF Exchanging, AnsweredWell, Ending, RefusalsAreTrue, SavedIsWhole, FramesAreImages,
              RecordingsAreSound, Ended
<1> QED BY <1>5, <1>6, <1>7, <1>8 DEF ContentInv

LEMMA ContentStep == ContentInv /\ [ContentNext]_<<vars, content>> => ContentInv'
<1> SUFFICES ASSUME ContentInv, [ContentNext]_<<vars, content>> PROVE ContentInv'
  OBVIOUS
<1>1. CASE UNCHANGED <<vars, content>>
  <2>1. StoreStep /\ UNCHANGED client /\ exchange' = exchange
    BY <1>1 DEF StoreStep, content
  <2>2. Exchanging' /\ exchange'.step \in {"idle", "asked", "answered", "told"}
    BY <2>1 DEF ContentInv, Exchanging, LetThrough, Fits, Uploads, Imports
  <2>3. AnsweredWell'
    BY <2>1, AnswerKept DEF ContentInv
  <2>4. Ending'
    BY <2>1 DEF ContentInv, Ending, RefusalsAreTrue, SavedIsWhole, FramesAreImages,
                RecordingsAreSound, Ended, Counted
  <2> QED BY <2>1, <2>2, <2>3, <2>4, ContentAgain
<1> QED
  BY <1>1, PhoneUploadsKeeps, DesktopImportsKeeps, StoresKeeps, LostKeeps, PutArrivesKeeps,
     PhoneFetchesKeeps, TranscribesKeeps, DesktopViewsKeeps, ReadsKeeps, StoreGoesOnKeeps, DiesKeeps
     DEF ContentNext

\* The inductive invariant: memory, disk and counts agree, and everything
\* anybody was promised is in custody, the answer under way included
\* (attachment.rs of the service).
THEOREM ContentInvariant == ContentSpec => []ContentInv
  BY ContentStarts, ContentStep, PTL DEF ContentSpec

LEMMA SoundStore == ContentInv => StoreIsSound
<1> SUFFICES ASSUME ContentInv PROVE StoreIsSound
  OBVIOUS
<1>1. ContentTypeOK
  BY DEF ContentInv, ContentTypeOK, StoreInv, ClientsTyped, Exchanging, LetThrough
<1>2. IndexIsOnDisk /\ CountsAreTrue
  BY DEF ContentInv, StoreInv
<1>3. SentIsKept
  BY DEF ContentInv, Promises, Promised, SentIsKept
<1>4. HeldIsKept
  BY DEF ContentInv, HeldWell, Custody, HeldIsKept
<1> QED BY <1>1, <1>2, <1>3, <1>4 DEF StoreIsSound

LEMMA TrueAnswers == ContentInv => AnswersAreTrue
<1> SUFFICES ASSUME ContentInv PROVE AnswersAreTrue
  OBVIOUS
<1>1. RangesAreExact
  <2> SUFFICES ASSUME NEW i \in objects, NEW range \in (Unset..4) \X (Unset..4)
               PROVE  LET answer == Download(range, Sizes[i])
                      IN  /\ answer.body = Named(range, Sizes[i])
                          /\ answer.status = 416 <=> answer.body = {}
    BY DEF RangesAreExact
  <2>1. i \in Attachments
    BY StoreTypes DEF ContentInv
  <2>2. Sizes[i] \in Nat \ {0}
    BY <2>1, SizesAre
  <2>3. PICK from \in Unset..4, to \in Unset..4 : range = <<from, to>>
    OBVIOUS
  <2>4. from \in Int /\ to \in Int /\ from >= -1 /\ to >= -1
    BY <2>3 DEF Unset
  <2> QED BY <2>2, <2>3, <2>4, RangeIsAnswered
<1> QED BY <1>1 DEF ContentInv, Ending, AnswersAreTrue

\* The store keeps what it says it has, and everything a message names or a
\* client was told it has for its whole retention, through failed writes,
\* deaths between any two files and starts of a release with a smaller quota
\* (attachment.rs: put_reader, expire, resolve, load).
THEOREM StoreKeepsItsWord == ContentSpec => []StoreIsSound
  BY ContentInvariant, SoundStore, PTL

\* Whoever of the gateway, the content API and the desktop answers a request,
\* what it says of it is true (scufris-surface-gateway.rs, attachment.rs of the
\* service and of the desktop).
THEOREM AnswersAreHonest == ContentSpec => []AnswersAreTrue
  BY ContentInvariant, TrueAnswers, PTL
=============================================================================
