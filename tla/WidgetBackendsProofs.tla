------------------------- MODULE WidgetBackendsProofs -------------------------
(****************************************************************************)
(* What WidgetBackends promises of the table of processes and of what the   *)
(* panels are told, for any panels, questions, processes and lines: the     *)
(* table agrees with the processes, and what a panel shows of a backend is  *)
(* what the backend said last, whatever is on its way and in any order of   *)
(* beats, turns, restarts and exits.                                        *)
(****************************************************************************)
EXTENDS WidgetBackends, FiniteSetTheorems, TLAPS

\* No beat comes later than a backend's whole patience: what waits for the
\* beat was said within it.
BeatsInTime == Patience # 0

Readings == [pid : Nat, line : Nat, hold : BOOLEAN]
Entries == [pid : Nat, refs : SUBSET Surfaces, quiet : Nat, health : {"Fresh", "Stale"},
            last : Readings]
Shown == [life : {"new", "open", "gone"}, health : Healths, held : BOOLEAN, shown : Readings]
Processes == [state : {"running", "stopping", "exited"}, key : Keys, reading : BOOLEAN,
              unread : Seq(Readings)]
HealthItems == [surface : Surfaces, health : Healths]
Items == HealthItems \cup [surface : Surfaces, reading : Readings]

TableTyped ==
  /\ running \in [DOMAIN running -> Entries] /\ DOMAIN running \subseteq Keys
  /\ readers \in [DOMAIN readers -> Keys] /\ DOMAIN readers \subseteq Surfaces
  /\ process \in Seq(Processes) /\ Len(process) <= MaxProcesses
  /\ lines \in 0..MaxLines

NewsTyped ==
  /\ panel \in [Surfaces -> Shown]
  /\ data \in [DOMAIN data -> Readings]
  /\ health \in Seq(HealthItems) /\ news \in Seq(Items) /\ waiting \in Seq(Items)

\* The panels that are open read, and no other, and they are finitely many;
\* what waits for the beat is for them.
ReadersAreOpen ==
  /\ IsFiniteSet(DOMAIN readers)
  /\ \A s \in DOMAIN readers : Open(s)
  /\ \A s \in Surfaces : Open(s) => s \in DOMAIN readers
  /\ DOMAIN data \subseteq DOMAIN readers
  /\ \A key \in DOMAIN running : running[key].refs \subseteq DOMAIN readers

ProcessesAreKnown == \A key \in DOMAIN running : running[key].pid \in DOMAIN process

\* One of good is in q.
Has(q, good) == \E j \in DOMAIN q : q[j] \in good

\* What is bad in q is made good further on.
MadeGood(q, bad, good) ==
  \A i \in DOMAIN q : q[i] \in bad => \E j \in DOMAIN q : j > i /\ q[j] \in good

\* The news the event loop owes, in the order it will be decided.
Owed == waiting \o news

Superseded(s, last) == {ReadingNews(s, r) : r \in Readings \ {last}}
Latest(s, last) == {ReadingNews(s, last)}

\* Panel s is about to be told the last thing said, or has been: it waits for
\* the beat, is owed, or is shown.
ToldLast(s, last, waits, owed, shown) ==
  IF s \in DOMAIN waits THEN waits[s] = last
  ELSE /\ MadeGood(owed, Superseded(s, last), Latest(s, last))
       /\ shown = last \/ Has(owed, Latest(s, last))

ReadersAreTold ==
  \A key \in DOMAIN running : running[key].last # NoReading =>
    \A s \in running[key].refs : ToldLast(s, running[key].last, data, Owed, panel[s].shown)

SaysFresh(s) == {News(s, "Fresh")}
SaysSilent(s) == {News(s, "Stale"), News(s, "Dead")}

\* Panel s is about to be told that its backend is silent, or has been.
ToldSilent(s, owed, says) ==
  /\ MadeGood(owed, SaysFresh(s), SaysSilent(s))
  /\ says # "Fresh" \/ Has(owed, SaysSilent(s))

SilenceIsTold ==
  Patience # 0 =>
  \A key \in DOMAIN running : running[key].health = "Stale" =>
    \A s \in running[key].refs : ToldSilent(s, Owed \o health, panel[s].health)

\* A backend that is said to be fresh again has not been silent for a beat.
FreshIsRecent ==
  \A key \in DOMAIN running : \A s \in running[key].refs :
    Has(health, SaysFresh(s)) => running[key].quiet = 0

\* Of a panel that was never open nothing is said.
NothingSaidOfNew == \A s \in Surfaces : panel[s].life = "new" => ~Has(health, SaysFresh(s))

TableInv ==
  /\ TableTyped /\ NewsTyped /\ ReadersAreOpen /\ ProcessesAreKnown
  /\ NoOrphans /\ ReadByOpenPanels

ToldInv == ReadersAreTold /\ SilenceIsTold /\ FreshIsRecent /\ NothingSaidOfNew

BackendsInv == TableInv /\ ToldInv

-----------------------------------------------------------------------------
\* The two kinds of news, and what they are about, are never confused.
LEMMA NewsAreTold ==
  /\ \A s, t, a, b : News(s, a) = News(t, b) <=> (s = t /\ a = b)
  /\ \A s, t, a, b : ReadingNews(s, a) = ReadingNews(t, b) <=> (s = t /\ a = b)
  /\ \A s, t, a, b : News(s, a) # ReadingNews(t, b)
<1>1. ASSUME NEW s, NEW t, NEW a, NEW b, News(s, a) = News(t, b) PROVE s = t /\ a = b
  <2>1. News(s, a).surface = News(t, b).surface /\ News(s, a).health = News(t, b).health
    BY <1>1
  <2> QED
    BY <2>1 DEF News
<1>2. ASSUME NEW s, NEW t, NEW a, NEW b, ReadingNews(s, a) = ReadingNews(t, b)
      PROVE  s = t /\ a = b
  <2>1. /\ ReadingNews(s, a).surface = ReadingNews(t, b).surface
        /\ ReadingNews(s, a).reading = ReadingNews(t, b).reading
    BY <1>2
  <2> QED
    BY <2>1 DEF ReadingNews
<1>3. ASSUME NEW s, NEW t, NEW a, NEW b PROVE News(s, a) # ReadingNews(t, b)
  <2>1. "health" \in DOMAIN News(s, a) /\ "health" \notin DOMAIN ReadingNews(t, b)
    BY DEF News, ReadingNews
  <2> QED
    BY <2>1
<1> QED
  BY <1>1, <1>2, <1>3

\* Where the elements of a concatenation are.
LEMMA Places ==
  ASSUME NEW T, NEW q \in Seq(T), NEW r \in Seq(T)
  PROVE  /\ q \o r \in Seq(T)
         /\ DOMAIN q = 1..Len(q) /\ DOMAIN r = 1..Len(r)
         /\ DOMAIN (q \o r) = 1..(Len(q) + Len(r))
         /\ \A i \in 1..Len(q) : (q \o r)[i] = q[i]
         /\ \A i \in 1..Len(r) : (q \o r)[Len(q) + i] = r[i] /\ Len(q) + i \in DOMAIN (q \o r)
         /\ \A i \in DOMAIN (q \o r) : i \in 1..Len(q) \/ i - Len(q) \in 1..Len(r)
  OBVIOUS

LEMMA HasTogether ==
  ASSUME NEW T, NEW q \in Seq(T), NEW r \in Seq(T), NEW good
  PROVE  Has(q \o r, good) <=> (Has(q, good) \/ Has(r, good))
<1>1. ASSUME Has(q \o r, good) PROVE Has(q, good) \/ Has(r, good)
  <2>1. PICK j \in DOMAIN (q \o r) : (q \o r)[j] \in good
    BY <1>1 DEF Has
  <2>2. CASE j \in 1..Len(q)
    BY <2>1, <2>2, Places DEF Has
  <2>3. CASE j - Len(q) \in 1..Len(r)
    BY <2>1, <2>3 DEF Has
  <2> QED
    BY <2>1, <2>2, <2>3, Places
<1>2. ASSUME Has(q, good) PROVE Has(q \o r, good)
  BY <1>2 DEF Has
<1>3. ASSUME Has(r, good) PROVE Has(q \o r, good)
  <2>1. PICK j \in 1..Len(r) : r[j] \in good
    BY <1>3 DEF Has
  <2> QED
    BY <2>1, Places DEF Has
<1> QED
  BY <1>1, <1>2, <1>3

\* Put together, two sequences make good what each does, or what the second
\* has good in it.
LEMMA MadeGoodTogether ==
  ASSUME NEW T, NEW q \in Seq(T), NEW r \in Seq(T), NEW bad, NEW good,
         MadeGood(q, bad, good) \/ Has(r, good) \/ ~Has(q, bad), MadeGood(r, bad, good)
  PROVE  MadeGood(q \o r, bad, good)
<1> SUFFICES ASSUME NEW i \in DOMAIN (q \o r), (q \o r)[i] \in bad
             PROVE  \E j \in DOMAIN (q \o r) : j > i /\ (q \o r)[j] \in good
  BY DEF MadeGood
<1>1. CASE i \in 1..Len(q)
  <2>1. q[i] \in bad /\ Has(q, bad)
    BY <1>1, Places DEF Has
  <2>2. CASE Has(r, good)
    <3>1. PICK j \in 1..Len(r) : r[j] \in good
      BY <2>2 DEF Has
    <3>2. Len(q) + j > i /\ (q \o r)[Len(q) + j] \in good /\ Len(q) + j \in DOMAIN (q \o r)
      BY <1>1, <3>1, Places
    <3> QED
      BY <3>2
  <2>3. CASE MadeGood(q, bad, good)
    <3>1. PICK j \in 1..Len(q) : j > i /\ q[j] \in good
      BY <1>1, <2>1, <2>3 DEF MadeGood
    <3> QED
      BY <3>1
  <2> QED
    BY <2>1, <2>2, <2>3
<1>2. CASE i - Len(q) \in 1..Len(r)
  <2>1. r[i - Len(q)] \in bad
    BY <1>2
  <2>2. PICK j \in 1..Len(r) : j > i - Len(q) /\ r[j] \in good
    BY <1>2, <2>1 DEF MadeGood
  <2>3. Len(q) + j > i /\ (q \o r)[Len(q) + j] \in good /\ Len(q) + j \in DOMAIN (q \o r)
    BY <1>2, <2>2, Places
  <2> QED
    BY <2>3
<1> QED
  BY <1>1, <1>2, Places

\* And the second of two makes good what the two do.
LEMMA MadeGoodBehind ==
  ASSUME NEW T, NEW q \in Seq(T), NEW r \in Seq(T), NEW bad, NEW good,
         MadeGood(q \o r, bad, good)
  PROVE  /\ MadeGood(r, bad, good)
         /\ Has(q, bad) => MadeGood(q, bad, good) \/ Has(r, good)
<1>1. MadeGood(r, bad, good)
  <2> SUFFICES ASSUME NEW i \in 1..Len(r), r[i] \in bad
               PROVE  \E j \in 1..Len(r) : j > i /\ r[j] \in good
    BY DEF MadeGood
  <2>1. (q \o r)[Len(q) + i] \in bad /\ Len(q) + i \in DOMAIN (q \o r)
    BY Places
  <2>2. PICK j \in DOMAIN (q \o r) : j > Len(q) + i /\ (q \o r)[j] \in good
    BY <2>1 DEF MadeGood
  <2>3. j - Len(q) \in 1..Len(r) /\ j - Len(q) > i /\ r[j - Len(q)] \in good
    BY <2>2
  <2> QED
    BY <2>3
<1>2. MadeGood(q, bad, good) \/ Has(r, good)
  <2> SUFFICES ASSUME ~Has(r, good), NEW i \in 1..Len(q), q[i] \in bad
               PROVE  \E j \in 1..Len(q) : j > i /\ q[j] \in good
    BY DEF MadeGood
  <2>1. (q \o r)[i] \in bad /\ i \in DOMAIN (q \o r)
    BY Places
  <2>2. PICK j \in DOMAIN (q \o r) : j > i /\ (q \o r)[j] \in good
    BY <2>1 DEF MadeGood
  <2>3. ~(j - Len(q) \in 1..Len(r))
    BY <2>2, Places DEF Has
  <2>4. j \in 1..Len(q)
    BY <2>2, <2>3, Places
  <2> QED
    BY <2>2, <2>4
<1> QED
  BY <1>1, <1>2

\* The first of a sequence is taken.
LEMMA MadeGoodTaken ==
  ASSUME NEW T, NEW q \in Seq(T), q # <<>>, NEW bad, NEW good
  PROVE  /\ Tail(q) \in Seq(T) /\ Head(q) \in T
         /\ MadeGood(q, bad, good) => MadeGood(Tail(q), bad, good)
         /\ MadeGood(q, bad, good) /\ Head(q) \in bad => Has(Tail(q), good)
         /\ Has(q, good) => Head(q) \in good \/ Has(Tail(q), good)
<1>1. /\ Tail(q) \in Seq(T) /\ Head(q) \in T /\ Head(q) = q[1] /\ 1 \in DOMAIN q
      /\ \A i \in DOMAIN Tail(q) : i + 1 \in DOMAIN q /\ Tail(q)[i] = q[i + 1]
      /\ \A i \in DOMAIN q : i > 1 => i - 1 \in DOMAIN Tail(q) /\ Tail(q)[i - 1] = q[i]
      /\ DOMAIN q \subseteq Nat /\ DOMAIN Tail(q) \subseteq Nat
      /\ \A i \in DOMAIN q : i >= 1
  OBVIOUS
<1>2. ASSUME MadeGood(q, bad, good) PROVE MadeGood(Tail(q), bad, good)
  <2> SUFFICES ASSUME NEW i \in DOMAIN Tail(q), Tail(q)[i] \in bad
               PROVE  \E j \in DOMAIN Tail(q) : j > i /\ Tail(q)[j] \in good
    BY DEF MadeGood
  <2>1. PICK j \in DOMAIN q : j > i + 1 /\ q[j] \in good
    BY <1>1, <1>2 DEF MadeGood
  <2>2. j - 1 \in DOMAIN Tail(q) /\ j - 1 > i /\ Tail(q)[j - 1] \in good
    BY <1>1, <2>1
  <2> QED
    BY <2>2
<1>3. ASSUME MadeGood(q, bad, good), Head(q) \in bad PROVE Has(Tail(q), good)
  <2>1. PICK j \in DOMAIN q : j > 1 /\ q[j] \in good
    BY <1>1, <1>3 DEF MadeGood
  <2> QED
    BY <1>1, <2>1 DEF Has
<1>4. ASSUME Has(q, good) PROVE Head(q) \in good \/ Has(Tail(q), good)
  <2>1. PICK j \in DOMAIN q : q[j] \in good
    BY <1>4 DEF Has
  <2>2. j = 1 \/ j > 1
    BY <1>1, <2>1
  <2> QED
    BY <1>1, <2>1, <2>2 DEF Has
<1> QED
  BY <1>1, <1>2, <1>3, <1>4

-----------------------------------------------------------------------------
\* A finite set put in some order: what it has is what is in the set.
LEMMA SetInOrder ==
  ASSUME NEW T, NEW S \in SUBSET T, IsFiniteSet(S)
  PROVE  /\ SetToSeq(S) \in Seq(T)
         /\ \A i \in DOMAIN SetToSeq(S) : SetToSeq(S)[i] \in S
         /\ \A x \in S : \E i \in DOMAIN SetToSeq(S) : SetToSeq(S)[i] = x
<1> DEFINE N == Cardinality(S)
<1>1. N \in Nat /\ ExistsBijection(1..N, S)
  BY FS_CardinalityType
<1>2. PICK f \in [1..N -> S] : IsInjective(f)
  BY <1>1 DEF ExistsBijection, Bijection, Injection
<1>3. SetToSeq(S) \in [1..N -> S] /\ IsInjective(SetToSeq(S))
  BY <1>2 DEF SetToSeq
<1> DEFINE g == SetToSeq(S)
<1>4. g \in Injection(1..N, S)
  BY <1>3 DEF Injection
<1> HIDE DEF g, N
<1>5. Cardinality(1..N) = N
  BY <1>1, FS_Interval
<1>6. g \in Surjection(1..N, S)
  BY <1>4, <1>5, FS_Injection DEF N
<1>7. g \in [1..N -> S] /\ \A x \in S : \E i \in 1..N : g[i] = x
  BY <1>6 DEF Surjection
<1>8. g \in Seq(T) /\ DOMAIN g = 1..N
  BY <1>1, <1>7
<1> QED
  BY <1>7, <1>8 DEF g

\* Word of health to some panels says it of each of them and of no other.
LEMMA HealthIsSaid ==
  ASSUME NEW ids \in SUBSET Surfaces, IsFiniteSet(ids), NEW what \in Healths
  PROVE  /\ HealthNews(ids, what) \in Seq(HealthItems)
         /\ \A good : Has(HealthNews(ids, what), good) <=> \E s \in ids : News(s, what) \in good
<1> DEFINE said == {News(s, what) : s \in ids}
           f == [s \in ids |-> News(s, what)]
<1>1. f \in Surjection(ids, said)
  BY DEF Surjection
<1>2. IsFiniteSet(said)
  <2> HIDE DEF f, said
  <2> QED
    BY <1>1, FS_Surjection
<1>3. said \in SUBSET HealthItems
  BY DEF News, HealthItems
<1>4. HealthNews(ids, what) = SetToSeq(said)
  BY DEF HealthNews
<1>5. /\ SetToSeq(said) \in Seq(HealthItems)
      /\ \A i \in DOMAIN SetToSeq(said) : SetToSeq(said)[i] \in said
      /\ \A x \in said : \E i \in DOMAIN SetToSeq(said) : SetToSeq(said)[i] = x
  <2> HIDE DEF said
  <2> QED
    BY <1>2, <1>3, SetInOrder
<1>6. ASSUME NEW good
      PROVE  Has(HealthNews(ids, what), good) <=> \E s \in ids : News(s, what) \in good
  <2>1. \A x : x \in said <=> \E s \in ids : x = News(s, what)
    OBVIOUS
  <2> DEFINE q == SetToSeq(said)
  <2>2. /\ \A i \in DOMAIN q : q[i] \in said
        /\ \A x \in said : \E i \in DOMAIN q : q[i] = x
    BY <1>5
  <2>3. HealthNews(ids, what) = q
    BY <1>4
  <2> HIDE DEF said, q
  <2>4. Has(q, good) <=> \E s \in ids : News(s, what) \in good
    <3>1. Has(q, good) <=> \E i \in DOMAIN q : q[i] \in good
      BY DEF Has
    <3>2. Has(q, good) <=> \E x \in said : x \in good
      BY <2>2, <3>1
    <3> QED
      BY <2>1, <3>2
  <2> QED
    BY <2>3, <2>4
<1> QED
  BY <1>4, <1>5, <1>6

\* An entry put into a table, and some taken out.
LEMMA EntryPut ==
  ASSUME NEW V, NEW f, f \in [DOMAIN f -> V], NEW k, NEW v \in V
  PROVE  /\ With(f, k, v) \in [DOMAIN f \cup {k} -> V] /\ With(f, k, v)[k] = v
         /\ \A i \in DOMAIN f : i # k => With(f, k, v)[i] = f[i]
         /\ DOMAIN With(f, k, v) = DOMAIN f \cup {k}
  BY DEF With

LEMMA EntriesTaken ==
  ASSUME NEW V, NEW f, f \in [DOMAIN f -> V], NEW ids
  PROVE  /\ Without(f, ids) \in [DOMAIN f \ ids -> V] /\ DOMAIN Without(f, ids) = DOMAIN f \ ids
         /\ \A i \in DOMAIN f \ ids : Without(f, ids)[i] = f[i]
  BY DEF Without, Restrict

LEMMA NothingRead == NoReading \in Readings
  BY DEF NoReading, Readings

\* stop: the process of a question, and no other, runs no more.
LEMMA StoppedInOrder ==
  ASSUME TableTyped, ProcessesAreKnown, NoOrphans, NEW key \in Keys
  PROVE  /\ Stopped(process, key) \in Seq(Processes) /\ Len(Stopped(process, key)) = Len(process)
         /\ \A p \in DOMAIN process :
              /\ Stopped(process, key)[p].key = process[p].key
              /\ Stopped(process, key)[p].state = "running" =>
                   (process[p].state = "running" /\ process[p].key # key)
<1>1. process \in Seq(Processes)
  BY DEF TableTyped
<1>2. CASE key \in DOMAIN running /\ process[running[key].pid].state = "running"
  <2> DEFINE pid == running[key].pid
             ps == [process EXCEPT ![pid] = [process[pid] EXCEPT !.state = "stopping"]]
  <2>1. pid \in DOMAIN process /\ process[pid] \in Processes /\ Stopped(process, key) = ps
    BY <1>1, <1>2 DEF ProcessesAreKnown, Stopped
  <2>2. [process[pid] EXCEPT !.state = "stopping"] \in Processes
    BY <2>1 DEF Processes
  <2>3. /\ [process[pid] EXCEPT !.state = "stopping"].state = "stopping"
        /\ [process[pid] EXCEPT !.state = "stopping"].key = process[pid].key
    BY <2>1 DEF Processes
  <2>4. ps \in Seq(Processes) /\ Len(ps) = Len(process)
    BY <1>1, <2>1, <2>2
  <2>5. ASSUME NEW p \in DOMAIN process
        PROVE  /\ ps[p].key = process[p].key
               /\ ps[p].state = "running" => (process[p].state = "running" /\ process[p].key # key)
    <3>1. CASE p = pid
      BY <2>1, <2>3, <3>1
    <3>2. CASE p # pid
      BY <2>1, <3>2 DEF NoOrphans
    <3> QED
      BY <3>1, <3>2
  <2> QED
    BY <2>1, <2>4, <2>5
<1>3. CASE ~(key \in DOMAIN running /\ process[running[key].pid].state = "running")
  BY <1>1, <1>3 DEF Stopped, NoOrphans
<1> QED
  BY <1>2, <1>3

\* A table without a question, in which the processes that run are.
TableReady(key, base, ps) ==
  /\ base \in [DOMAIN base -> Entries] /\ DOMAIN base \subseteq Keys \ {key}
  /\ ps \in Seq(Processes)
  /\ \A k \in DOMAIN base : base[k].pid \in DOMAIN ps
  /\ \A p \in DOMAIN ps : ps[p].state = "running" =>
       (ps[p].key \in DOMAIN base /\ base[ps[p].key].pid = p)

\* raise: on a table without the question, and with every process that runs in
\* it, either the question is answered by a new process that has said nothing,
\* or its panels are told that there is none.
LEMMA RaiseInOrder ==
  ASSUME NEW key \in Keys, NEW refs \in SUBSET Surfaces, IsFiniteSet(refs), NEW base, NEW ps,
         TableReady(key, base, ps), health \in Seq(HealthItems),
         Raise(key, refs, base, health, ps)
  PROVE  /\ running' \in [DOMAIN running' -> Entries] /\ DOMAIN running' \subseteq Keys
         /\ process' \in Seq(Processes) /\ Len(process') <= MaxProcesses
         /\ ProcessesAreKnown' /\ NoOrphans'
         /\ \A k \in DOMAIN running' : k # key => (k \in DOMAIN base /\ running'[k] = base[k])
         /\ key \in DOMAIN running' =>
              /\ running'[key].refs = refs /\ running'[key].quiet = 0
              /\ running'[key].health = "Fresh" /\ running'[key].last = NoReading
         /\ health' \in Seq(HealthItems)
         /\ health' = health \/ health' = health \o HealthNews(refs, "Dead")
<1>0. /\ base \in [DOMAIN base -> Entries] /\ DOMAIN base \subseteq Keys \ {key}
      /\ ps \in Seq(Processes)
      /\ \A k \in DOMAIN base : base[k].pid \in DOMAIN ps
      /\ \A p \in DOMAIN ps : ps[p].state = "running" =>
           (ps[p].key \in DOMAIN base /\ base[ps[p].key].pid = p)
  BY DEF TableReady
<1>1. /\ Len(ps) \in Nat /\ Len(ps) + 1 <= MaxProcesses /\ Len(ps) + 1 \in Nat
      /\ MaxProcesses \in Nat
  BY <1>0, BackendsAssumption DEF Raise
<1>2. \A state \in {"running", "exited"} : Launched(key, state) \in Processes
  BY DEF Launched, Processes
<1>3. /\ Launched(key, "running").key = key /\ Launched(key, "exited").key = key
      /\ Launched(key, "exited").state = "exited"
  BY DEF Launched
<1>4. CASE /\ process' = Append(ps, Launched(key, "running"))
           /\ running' = With(base, key, [pid |-> Len(ps) + 1, refs |-> refs, quiet |-> 0,
                                          health |-> "Fresh", last |-> NoReading])
           /\ health' = health
  <2> DEFINE entry == [pid |-> Len(ps) + 1, refs |-> refs, quiet |-> 0,
                       health |-> "Fresh", last |-> NoReading]
  <2>1. entry \in Entries
    BY <1>1, NothingRead DEF Entries
  <2>2. /\ entry.pid = Len(ps) + 1 /\ entry.refs = refs /\ entry.quiet = 0
        /\ entry.health = "Fresh" /\ entry.last = NoReading
    OBVIOUS
  <2>3. running' = With(base, key, entry)
    BY <1>4
  <2> HIDE DEF entry
  <2>4. /\ running' \in [DOMAIN base \cup {key} -> Entries] /\ running'[key] = entry
        /\ \A k \in DOMAIN base : k # key => running'[k] = base[k]
        /\ DOMAIN running' = DOMAIN base \cup {key}
    BY <1>0, <2>1, <2>3 DEF With
  <2>5. /\ process' \in Seq(Processes) /\ Len(process') = Len(ps) + 1
        /\ DOMAIN process' = DOMAIN ps \cup {Len(ps) + 1}
        /\ \A p \in DOMAIN ps : process'[p] = ps[p]
        /\ process'[Len(ps) + 1] = Launched(key, "running") /\ Len(ps) + 1 \notin DOMAIN ps
    BY <1>0, <1>1, <1>2, <1>4
  <2>6. ProcessesAreKnown'
    BY <1>0, <2>2, <2>4, <2>5 DEF ProcessesAreKnown
  <2>7. NoOrphans'
    BY <1>0, <1>3, <2>2, <2>4, <2>5 DEF NoOrphans
  <2> QED
    BY <1>0, <1>1, <1>4, <2>2, <2>4, <2>5, <2>6, <2>7
<1>5. CASE /\ process' = Append(ps, Launched(key, "exited"))
           /\ running' = base /\ health' = health \o HealthNews(refs, "Dead")
  <2>1. /\ process' \in Seq(Processes) /\ Len(process') = Len(ps) + 1
        /\ DOMAIN process' = DOMAIN ps \cup {Len(ps) + 1}
        /\ \A p \in DOMAIN ps : process'[p] = ps[p]
        /\ process'[Len(ps) + 1] = Launched(key, "exited")
    BY <1>0, <1>1, <1>2, <1>5
  <2>2. ProcessesAreKnown'
    BY <1>0, <1>5, <2>1 DEF ProcessesAreKnown
  <2>3. NoOrphans'
    BY <1>0, <1>3, <1>5, <2>1 DEF NoOrphans
  <2>4. HealthNews(refs, "Dead") \in Seq(HealthItems)
    BY HealthIsSaid DEF Healths
  <2>5. health' \in Seq(HealthItems)
    BY <1>5, <2>4
  <2> QED
    BY <1>0, <1>1, <1>5, <2>1, <2>2, <2>3, <2>5
<1> QED
  BY <1>4, <1>5 DEF Raise

-----------------------------------------------------------------------------
\* What is owed and what waits for the beat, one after the other.
LEMMA OwedTyped ==
  ASSUME NewsTyped
  PROVE  /\ Owed \in Seq(Items) /\ health \in Seq(Items) /\ Owed \o health \in Seq(Items)
         /\ waiting \in Seq(Items) /\ news \in Seq(Items)
<1>1. HealthItems \subseteq Items
  BY DEF Items
<1>2. health \in Seq(Items)
  BY <1>1 DEF NewsTyped
<1> QED
  BY <1>2 DEF NewsTyped, Owed

LEMMA OneAfterAnother ==
  ASSUME NEW T, NEW a \in Seq(T), NEW b \in Seq(T), NEW c \in Seq(T)
  PROVE  a \o (b \o c) = (a \o b) \o c
  OBVIOUS

\* More news that does not say the panel's backend is fresh, or news that ends
\* by saying it is silent.
LEMMA SilenceStaysTold ==
  ASSUME NEW s, NEW owed \in Seq(Items), NEW more \in Seq(Items), NEW says,
         ~Has(more, SaysFresh(s)), ToldSilent(s, owed, says)
  PROVE  ToldSilent(s, owed \o more, says)
<1>1. MadeGood(more, SaysFresh(s), SaysSilent(s))
  BY DEF MadeGood, Has
<1>2. MadeGood(owed \o more, SaysFresh(s), SaysSilent(s))
  BY <1>1, MadeGoodTogether DEF ToldSilent
<1> QED
  BY <1>2, HasTogether DEF ToldSilent

LEMMA SilenceIsToldNow ==
  ASSUME NEW s, NEW owed \in Seq(Items), NEW more \in Seq(Items), NEW says,
         ~Has(more, SaysFresh(s)), Has(more, SaysSilent(s))
  PROVE  ToldSilent(s, owed \o more, says)
<1>1. MadeGood(more, SaysFresh(s), SaysSilent(s))
  BY DEF MadeGood, Has
<1>2. MadeGood(owed \o more, SaysFresh(s), SaysSilent(s))
  BY <1>1, MadeGoodTogether
<1> QED
  BY <1>2, HasTogether DEF ToldSilent

\* A panel reads one backend at a time.
LEMMA ReadsOne ==
  ASSUME ReadByOpenPanels
  PROVE  \A k \in DOMAIN running, l \in DOMAIN running :
           \A s \in running[k].refs : s \in running[l].refs => k = l
  BY DEF ReadByOpenPanels

\* A panel's life changes and nothing else of it.
LEMMA LifeChanges ==
  ASSUME panel \in [Surfaces -> Shown], NEW s \in Surfaces, NEW life \in {"new", "open", "gone"},
         panel' = [panel EXCEPT ![s].life = life]
  PROVE  /\ panel' \in [Surfaces -> Shown] /\ panel'[s].life = life
         /\ \A t \in Surfaces : /\ t # s => panel'[t] = panel[t]
                                /\ panel'[t].shown = panel[t].shown
                                /\ panel'[t].health = panel[t].health
<1>1. panel[s] \in Shown
  OBVIOUS
<1>2. /\ [panel[s] EXCEPT !.life = life] \in Shown
      /\ [panel[s] EXCEPT !.life = life].life = life
      /\ [panel[s] EXCEPT !.life = life].shown = panel[s].shown
      /\ [panel[s] EXCEPT !.life = life].health = panel[s].health
  BY <1>1 DEF Shown
<1> QED
  BY <1>2

-----------------------------------------------------------------------------
\* The panels of one backend change and nothing else of the table.
LEMMA RefsChange ==
  ASSUME TableTyped, NEW key \in DOMAIN running, NEW refs \in SUBSET Surfaces,
         running' = [running EXCEPT ![key].refs = refs]
  PROVE  /\ running' \in [DOMAIN running -> Entries] /\ DOMAIN running' = DOMAIN running
         /\ running'[key].refs = refs
         /\ \A k \in DOMAIN running :
              /\ k # key => running'[k] = running[k]
              /\ running'[k].pid = running[k].pid /\ running'[k].quiet = running[k].quiet
              /\ running'[k].health = running[k].health /\ running'[k].last = running[k].last
<1>1. running[key] \in Entries
  BY DEF TableTyped
<1> DEFINE entry == [running[key] EXCEPT !.refs = refs]
<1>2. /\ entry \in Entries /\ entry.refs = refs /\ entry.pid = running[key].pid
      /\ entry.quiet = running[key].quiet /\ entry.health = running[key].health
      /\ entry.last = running[key].last
  BY <1>1 DEF Entries
<1>3. running' = [running EXCEPT ![key] = entry]
  OBVIOUS
<1>4. running \in [DOMAIN running -> Entries]
  BY DEF TableTyped
<1> HIDE DEF entry
<1> QED
  BY <1>2, <1>3, <1>4

\* A panel opens: it is one of the readers, who are all open.
LEMMA OpenedReads ==
  ASSUME TableInv, NEW s \in Surfaces, OpenPanel(s)
  PROVE  /\ Question[s] \in Keys /\ s \notin DOMAIN readers /\ panel[s].life = "new"
         /\ readers' \in [DOMAIN readers' -> Keys] /\ DOMAIN readers' = DOMAIN readers \cup {s}
         /\ readers'[s] = Question[s] /\ \A t \in DOMAIN readers : readers'[t] = readers[t]
         /\ IsFiniteSet(DOMAIN readers') /\ \A t \in DOMAIN readers' : Open(t)'
         /\ panel' \in [Surfaces -> Shown]
         /\ \A t \in Surfaces : /\ t # s => panel'[t] = panel[t]
                                /\ panel'[t].shown = panel[t].shown
                                /\ panel'[t].health = panel[t].health
         /\ panel'[s].life = "open"
<1>1. Question[s] \in Keys
  BY BackendsAssumption
<1>2. /\ panel[s].life = "new" /\ panel' = [panel EXCEPT ![s].life = "open"]
      /\ readers' = With(readers, s, Question[s])
  BY DEF OpenPanel
<1>3. s \notin DOMAIN readers
  BY <1>2 DEF TableInv, ReadersAreOpen, Open
<1>4. readers \in [DOMAIN readers -> Keys] /\ DOMAIN readers \subseteq Surfaces
  BY DEF TableInv, TableTyped
<1>5. /\ readers' \in [DOMAIN readers' -> Keys] /\ DOMAIN readers' = DOMAIN readers \cup {s}
      /\ readers'[s] = Question[s] /\ \A t \in DOMAIN readers : readers'[t] = readers[t]
  BY <1>1, <1>2, <1>3, <1>4 DEF With
<1>6. /\ panel' \in [Surfaces -> Shown] /\ panel'[s].life = "open"
      /\ \A t \in Surfaces : /\ t # s => panel'[t] = panel[t]
                             /\ panel'[t].shown = panel[t].shown
                             /\ panel'[t].health = panel[t].health
  BY <1>2, LifeChanges DEF TableInv, NewsTyped
<1>7. IsFiniteSet(DOMAIN readers')
  BY <1>5, FS_AddElement DEF TableInv, ReadersAreOpen
<1>8. \A t \in DOMAIN readers' : panel'[t].life = "open"
  BY <1>4, <1>5, <1>6 DEF TableInv, ReadersAreOpen, Open
<1> QED
  BY <1>1, <1>2, <1>3, <1>5, <1>6, <1>7, <1>8 DEF Open

\* subscribe, for a question that is being answered.
LEMMA Joins ==
  ASSUME BackendsInv, NEW s \in Surfaces, OpenPanel(s), NEW key \in DOMAIN running,
         key = Question[s], running' = [running EXCEPT ![key].refs = @ \cup {s}],
         CaughtUp(s, running[key]), JoinsHealth(s, running[key]), UNCHANGED process
  PROVE  BackendsInv'
<1> DEFINE entry == running[key]
<1>1. TableTyped /\ NewsTyped /\ ReadersAreOpen /\ ProcessesAreKnown /\ NoOrphans /\ ReadByOpenPanels
  BY DEF BackendsInv, TableInv
<1>2. ReadersAreTold /\ SilenceIsTold /\ FreshIsRecent /\ NothingSaidOfNew
  BY DEF BackendsInv, ToldInv
<1>3. /\ Question[s] \in Keys /\ s \notin DOMAIN readers /\ panel[s].life = "new"
      /\ readers' \in [DOMAIN readers' -> Keys] /\ DOMAIN readers' = DOMAIN readers \cup {s}
      /\ readers'[s] = Question[s] /\ \A t \in DOMAIN readers : readers'[t] = readers[t]
      /\ IsFiniteSet(DOMAIN readers') /\ \A t \in DOMAIN readers' : Open(t)'
      /\ panel' \in [Surfaces -> Shown]
      /\ \A t \in Surfaces : /\ t # s => panel'[t] = panel[t]
                             /\ panel'[t].shown = panel[t].shown
                             /\ panel'[t].health = panel[t].health
      /\ panel'[s].life = "open"
  BY OpenedReads DEF BackendsInv
<1>4. entry \in Entries /\ entry.refs \in SUBSET Surfaces /\ entry.last \in Readings
      /\ entry.health \in {"Fresh", "Stale"}
  BY <1>1 DEF TableTyped, Entries
<1>5. /\ running' \in [DOMAIN running -> Entries] /\ DOMAIN running' = DOMAIN running
      /\ running'[key].refs = entry.refs \cup {s}
      /\ \A k \in DOMAIN running :
           /\ k # key => running'[k] = running[k]
           /\ running'[k].pid = running[k].pid /\ running'[k].quiet = running[k].quiet
           /\ running'[k].health = running[k].health /\ running'[k].last = running[k].last
  <2>1. running' = [running EXCEPT ![key].refs = running[key].refs \cup {s}]
    BY <1>1 DEF TableTyped
  <2>2. running[key].refs \cup {s} \in SUBSET Surfaces
    BY <1>4
  <2> HIDE DEF entry
  <2>3. /\ running' \in [DOMAIN running -> Entries] /\ DOMAIN running' = DOMAIN running
        /\ running'[key].refs = running[key].refs \cup {s}
        /\ \A k \in DOMAIN running :
             /\ k # key => running'[k] = running[k]
             /\ running'[k].pid = running[k].pid /\ running'[k].quiet = running[k].quiet
             /\ running'[k].health = running[k].health /\ running'[k].last = running[k].last
    BY <1>1, <2>1, <2>2, RefsChange
  <2> QED
    BY <2>3 DEF entry
<1>6. \A k \in DOMAIN running : running[k].refs \subseteq DOMAIN readers /\ s \notin running[k].refs
  BY <1>1, <1>3 DEF ReadersAreOpen
<1>7. UNCHANGED <<news, waiting, lines>>
  BY DEF OpenPanel, loop
<1>8. /\ data' \in [DOMAIN data' -> Readings] /\ DOMAIN data' \subseteq DOMAIN data \cup {s}
      /\ \A t : t # s => (t \in DOMAIN data' <=> t \in DOMAIN data)
      /\ \A t \in DOMAIN data : t # s => data'[t] = data[t]
      /\ entry.last # NoReading => s \in DOMAIN data' /\ data'[s] = entry.last
  BY <1>1, <1>4 DEF CaughtUp, NewsTyped, With
<1> DEFINE more == IF entry.health # "Fresh" THEN <<News(s, "Stale")>> ELSE <<>>
<1>9. /\ more \in Seq(HealthItems) /\ more \in Seq(Items)
      /\ health' = health \o more
      /\ \A good : Has(more, good) <=> (entry.health = "Stale" /\ News(s, "Stale") \in good)
  <2>1. News(s, "Stale") \in HealthItems /\ News(s, "Stale") \in Items
    BY DEF News, HealthItems, Items, Healths
  <2>2. health \in Seq(HealthItems)
    BY <1>1 DEF NewsTyped
  <2>3. CASE entry.health = "Fresh"
    BY <2>2, <2>3 DEF JoinsHealth, Has
  <2>4. CASE entry.health = "Stale"
    <3>1. more = <<News(s, "Stale")>> /\ health' = Append(health, News(s, "Stale"))
      BY <2>4 DEF JoinsHealth
    <3>2. \A good : Has(more, good) <=> News(s, "Stale") \in good
      BY <3>1 DEF Has
    <3> QED
      BY <2>1, <2>2, <2>4, <3>1, <3>2
  <2> QED
    BY <1>4, <2>3, <2>4
<1> HIDE DEF more, entry
<1>10. health \in Seq(HealthItems) /\ health' \in Seq(HealthItems)
  BY <1>1, <1>9 DEF NewsTyped
<1>11. TableTyped' /\ NewsTyped'
  BY <1>1, <1>3, <1>5, <1>7, <1>8, <1>10 DEF TableTyped, NewsTyped
<1>12. ReadersAreOpen'
  BY <1>1, <1>3, <1>5, <1>6, <1>8 DEF ReadersAreOpen, Open, entry
<1>13. ProcessesAreKnown' /\ NoOrphans'
  BY <1>1, <1>5 DEF ProcessesAreKnown, NoOrphans
<1>14. ReadByOpenPanels'
  <2>1. \A k \in DOMAIN running : \A t \in running[k].refs : readers[t] = k
    BY <1>1 DEF ReadByOpenPanels
  <2>2. \A k \in DOMAIN running' : running'[k].refs # {}
    BY <1>1, <1>5 DEF ReadByOpenPanels
  <2>3. \A k \in DOMAIN running' : \A t \in running'[k].refs : t \in DOMAIN readers' /\ readers'[t] = k
    BY <1>3, <1>5, <1>6, <2>1 DEF entry
  <2> QED
    BY <1>3, <2>2, <2>3 DEF ReadByOpenPanels
<1>15. Owed' = Owed /\ Owed \in Seq(Items) /\ health \in Seq(Items) /\ Owed \o health \in Seq(Items)
  BY <1>1, <1>7, OwedTyped DEF Owed
<1>16. ReadersAreTold'
  <2> SUFFICES ASSUME NEW k \in DOMAIN running', running'[k].last # NoReading,
                      NEW t \in running'[k].refs
               PROVE  ToldLast(t, running'[k].last, data', Owed', panel'[t].shown)
    BY DEF ReadersAreTold
  <2>1. CASE t = s
    <3>1. k = key
      BY <1>5, <1>6, <2>1
    <3> QED
      BY <1>5, <1>8, <2>1, <3>1 DEF ToldLast, entry
  <2>2. CASE t # s
    <3>1. t \in running[k].refs /\ running'[k].last = running[k].last /\ t \in Surfaces
      BY <1>1, <1>3, <1>5, <1>6, <2>2 DEF entry, TableTyped
    <3>2. ToldLast(t, running[k].last, data, Owed, panel[t].shown)
      BY <1>2, <1>5, <3>1 DEF ReadersAreTold
    <3> QED
      BY <1>3, <1>8, <1>15, <2>2, <3>1, <3>2 DEF ToldLast
  <2> QED
    BY <2>1, <2>2
<1>17. (Owed \o health)' = (Owed \o health) \o more
  BY <1>9, <1>15, OneAfterAnother, SMTT(60)
<1>18. SilenceIsTold'
  <2> SUFFICES ASSUME Patience # 0, NEW k \in DOMAIN running', running'[k].health = "Stale",
                      NEW t \in running'[k].refs
               PROVE  ToldSilent(t, (Owed \o health) \o more, panel'[t].health)
    BY <1>17 DEF SilenceIsTold
  <2>1. ~Has(more, SaysFresh(t))
    BY <1>9, NewsAreTold DEF SaysFresh
  <2>2. CASE t = s
    <3>1. entry.health = "Stale"
      BY <1>5, <1>6, <2>2 DEF entry
    <3>2. Has(more, SaysSilent(t))
      BY <1>9, <2>2, <3>1 DEF SaysSilent
    <3> QED
      BY <1>9, <1>15, <2>1, <3>2, SilenceIsToldNow
  <2>3. CASE t # s
    <3>1. t \in running[k].refs /\ running[k].health = "Stale" /\ t \in Surfaces
      BY <1>1, <1>3, <1>5, <1>6, <2>3 DEF entry, TableTyped
    <3>2. ToldSilent(t, Owed \o health, panel'[t].health)
      BY <1>2, <1>3, <1>5, <3>1 DEF SilenceIsTold
    <3> QED
      BY <1>9, <1>15, <2>1, <3>2, SilenceStaysTold
  <2> QED
    BY <2>2, <2>3
<1>19. \A t : Has(health', SaysFresh(t)) => Has(health, SaysFresh(t))
  BY <1>9, <1>10, HasTogether, NewsAreTold DEF SaysFresh
<1>20. FreshIsRecent' /\ NothingSaidOfNew'
  <2>1. NothingSaidOfNew'
    BY <1>2, <1>3, <1>19 DEF NothingSaidOfNew
  <2>2. ~Has(health', SaysFresh(s))
    BY <1>2, <1>3, <1>19 DEF NothingSaidOfNew
  <2>3. FreshIsRecent'
    BY <1>2, <1>5, <1>19, <2>2 DEF FreshIsRecent, entry
  <2> QED
    BY <2>1, <2>3
<1> QED
  BY <1>11, <1>12, <1>13, <1>14, <1>16, <1>18, <1>20 DEF BackendsInv, TableInv, ToldInv

\* The table as it is, without a question.
TableWithout(key, base, ps) ==
  /\ TableReady(key, base, ps) /\ DOMAIN base \subseteq DOMAIN running
  /\ \A k \in DOMAIN base : base[k] = running[k]

\* The panels of a question are readers of it, and the others as they were.
ReadersStay(key, refs) ==
  /\ refs \in SUBSET Surfaces /\ IsFiniteSet(refs) /\ refs # {}
  /\ readers' \in [DOMAIN readers' -> Keys] /\ DOMAIN readers' \subseteq Surfaces
  /\ IsFiniteSet(DOMAIN readers') /\ \A t \in DOMAIN readers' : Open(t)'
  /\ \A t \in Surfaces : Open(t)' => t \in DOMAIN readers'
  /\ \A t \in DOMAIN readers : t \in DOMAIN readers' /\ readers'[t] = readers[t]
  /\ \A t \in refs : t \in DOMAIN readers' /\ readers'[t] = key

PanelsStay(key) ==
  /\ panel' \in [Surfaces -> Shown]
  /\ \A t \in Surfaces : /\ panel'[t].shown = panel[t].shown
                         /\ panel'[t].life = "new" => panel[t].life = "new"
                         /\ (t \in DOMAIN readers /\ readers[t] # key) =>
                              panel'[t].health = panel[t].health

\* What raise makes of the table.
RaisedTable(key, refs) ==
  /\ running' \in [DOMAIN running' -> Entries] /\ DOMAIN running' \subseteq Keys
  /\ \A k \in DOMAIN running' : k # key => (k \in DOMAIN running /\ running'[k] = running[k])
  /\ key \in DOMAIN running' =>
       /\ running'[key].refs = refs /\ running'[key].quiet = 0
       /\ running'[key].health = "Fresh" /\ running'[key].last = NoReading
  /\ health' = health \/ health' = health \o HealthNews(refs, "Dead")

LEMMA RaisedTableInOrder ==
  ASSUME TableInv, NEW key \in Keys, NEW refs, NEW base, NEW ps,
         TableWithout(key, base, ps), ReadersStay(key, refs),
         Raise(key, refs, base, health, ps)
  PROVE  /\ RaisedTable(key, refs) /\ health' \in Seq(HealthItems)
         /\ process' \in Seq(Processes) /\ Len(process') <= MaxProcesses
         /\ ProcessesAreKnown' /\ NoOrphans'
<1>1. /\ refs \in SUBSET Surfaces /\ IsFiniteSet(refs) /\ health \in Seq(HealthItems)
      /\ TableReady(key, base, ps)
      /\ \A k \in DOMAIN base : k \in DOMAIN running /\ base[k] = running[k]
  BY DEF TableWithout, ReadersStay, TableInv, TableTyped, NewsTyped
<1>2. /\ running' \in [DOMAIN running' -> Entries] /\ DOMAIN running' \subseteq Keys
      /\ process' \in Seq(Processes) /\ Len(process') <= MaxProcesses
      /\ ProcessesAreKnown' /\ NoOrphans'
      /\ \A k \in DOMAIN running' : k # key => (k \in DOMAIN base /\ running'[k] = base[k])
      /\ key \in DOMAIN running' =>
           /\ running'[key].refs = refs /\ running'[key].quiet = 0
           /\ running'[key].health = "Fresh" /\ running'[key].last = NoReading
      /\ health' \in Seq(HealthItems)
      /\ health' = health \/ health' = health \o HealthNews(refs, "Dead")
  BY <1>1, RaiseInOrder
<1>3. \A k \in DOMAIN running' : k # key => (k \in DOMAIN running /\ running'[k] = running[k])
  BY <1>1, <1>2
<1> QED
  BY <1>2, <1>3 DEF RaisedTable

\* Who reads what once the table has a question's panels anew.
LEMMA RaisedAreRead ==
  ASSUME TableInv, NEW key \in Keys, NEW refs, ReadersStay(key, refs), RaisedTable(key, refs)
  PROVE  /\ \A k \in DOMAIN running' : \A t \in running'[k].refs :
              /\ t \in DOMAIN readers' /\ readers'[t] = k
              /\ k # key => t \in DOMAIN readers /\ readers[t] = k
         /\ \A k \in DOMAIN running' : running'[k].refs # {}
<1> SUFFICES ASSUME NEW k \in DOMAIN running'
             PROVE  /\ \A t \in running'[k].refs :
                         /\ t \in DOMAIN readers' /\ readers'[t] = k
                         /\ k # key => t \in DOMAIN readers /\ readers[t] = k
                    /\ running'[k].refs # {}
  OBVIOUS
<1>1. CASE k = key
  BY <1>1 DEF RaisedTable, ReadersStay
<1>2. CASE k # key
  <2>1. k \in DOMAIN running /\ running'[k] = running[k]
    BY <1>2 DEF RaisedTable
  <2>2. running[k].refs # {} /\ \A t \in running[k].refs : t \in DOMAIN readers /\ readers[t] = k
    BY <2>1 DEF TableInv, ReadersAreOpen, ReadByOpenPanels
  <2> QED
    BY <2>1, <2>2 DEF ReadersStay
<1> QED
  BY <1>1, <1>2

\* The other questions are answered, and their panels told, as before.
LEMMA RaisedAreTold ==
  ASSUME BackendsInv, NEW key \in Keys, NEW refs, ReadersStay(key, refs), RaisedTable(key, refs),
         PanelsStay(key), data' = data, Owed' = Owed
  PROVE  ToldInv'
<1>1. ReadersAreTold /\ SilenceIsTold /\ FreshIsRecent /\ NothingSaidOfNew
  BY DEF BackendsInv, ToldInv
<1>2. Owed \in Seq(Items) /\ health \in Seq(Items) /\ Owed \o health \in Seq(Items)
  BY OwedTyped DEF BackendsInv, TableInv
<1>3. \A k \in DOMAIN running' : \A t \in running'[k].refs :
        k # key => t \in DOMAIN readers /\ readers[t] = k
  BY RaisedAreRead DEF BackendsInv
<1>4. DOMAIN readers \subseteq Surfaces
  BY DEF BackendsInv, TableInv, TableTyped
<1>5. ASSUME NEW k \in DOMAIN running', NEW t \in running'[k].refs, k # key
      PROVE  /\ k \in DOMAIN running /\ running'[k] = running[k] /\ t \in Surfaces
             /\ panel'[t].shown = panel[t].shown /\ panel'[t].health = panel[t].health
  <2>1. t \in Surfaces /\ t \in DOMAIN readers /\ readers[t] # key
    BY <1>3, <1>4, <1>5
  <2> QED
    BY <1>5, <2>1 DEF RaisedTable, PanelsStay
<1>6. ReadersAreTold'
  <2> SUFFICES ASSUME NEW k \in DOMAIN running', running'[k].last # NoReading,
                      NEW t \in running'[k].refs
               PROVE  ToldLast(t, running'[k].last, data', Owed', panel'[t].shown)
    BY DEF ReadersAreTold
  <2>1. k # key
    BY DEF RaisedTable
  <2>2. ToldLast(t, running[k].last, data, Owed, panel[t].shown)
    BY <1>1, <1>5, <2>1 DEF ReadersAreTold
  <2> QED
    BY <1>5, <2>1, <2>2
<1> DEFINE dead == HealthNews(refs, "Dead")
<1>7. dead \in Seq(Items) /\ \A t : ~Has(dead, SaysFresh(t))
  <2>1. refs \in SUBSET Surfaces /\ IsFiniteSet(refs) /\ "Dead" \in Healths
    BY DEF ReadersStay, Healths
  <2>2. /\ dead \in Seq(HealthItems)
        /\ \A good : Has(dead, good) <=> \E t \in refs : News(t, "Dead") \in good
    BY <2>1, HealthIsSaid
  <2>3. HealthItems \subseteq Items
    BY DEF Items
  <2> HIDE DEF dead
  <2> QED
    BY <2>2, <2>3, NewsAreTold DEF SaysFresh
<1>8. health' = health \/ health' = health \o dead
  BY DEF RaisedTable
<1> HIDE DEF dead
<1>9. Owed' \o health' = Owed \o health \/ Owed' \o health' = (Owed \o health) \o dead
  <2>1. CASE health' = health
    BY <2>1
  <2>2. CASE health' = health \o dead
    <3>1. Owed \o (health \o dead) = (Owed \o health) \o dead
      BY <1>2, <1>7, OneAfterAnother
    <3> QED
      BY <2>2, <3>1
  <2> QED
    BY <1>8, <2>1, <2>2
<1>10. SilenceIsTold'
  <2> SUFFICES ASSUME Patience # 0, NEW k \in DOMAIN running', running'[k].health = "Stale",
                      NEW t \in running'[k].refs
               PROVE  ToldSilent(t, Owed' \o health', panel'[t].health)
    BY DEF SilenceIsTold
  <2>1. k # key
    BY DEF RaisedTable
  <2>2. ToldSilent(t, Owed \o health, panel'[t].health)
    BY <1>1, <1>5, <2>1 DEF SilenceIsTold
  <2>3. ToldSilent(t, (Owed \o health) \o dead, panel'[t].health)
    BY <1>2, <1>7, <2>2, SilenceStaysTold
  <2> QED
    BY <1>9, <2>2, <2>3
<1>11. \A t : Has(health', SaysFresh(t)) => Has(health, SaysFresh(t))
  <2>1. CASE health' = health
    BY <2>1
  <2>2. CASE health' = health \o dead
    <3>1. \A t : Has(health \o dead, SaysFresh(t)) => Has(health, SaysFresh(t))
      BY <1>2, <1>7, HasTogether
    <3> QED
      BY <2>2, <3>1
  <2> QED
    BY <1>8, <2>1, <2>2
<1>12. FreshIsRecent'
  BY <1>1, <1>11 DEF FreshIsRecent, RaisedTable
<1>13. NothingSaidOfNew'
  BY <1>1, <1>11 DEF NothingSaidOfNew, PanelsStay
<1> QED
  BY <1>6, <1>10, <1>12, <1>13 DEF ToldInv

\* raise, for the panels of a question nothing answers any more.
LEMMA Raised ==
  ASSUME BackendsInv, NEW key \in Keys, NEW refs, NEW base, NEW ps,
         TableWithout(key, base, ps), ReadersStay(key, refs), PanelsStay(key),
         Raise(key, refs, base, health, ps),
         data' = data, waiting' = waiting, news' = news, lines' = lines
  PROVE  BackendsInv'
<1>1. TableInv
  BY DEF BackendsInv
<1>2. /\ RaisedTable(key, refs) /\ health' \in Seq(HealthItems)
      /\ process' \in Seq(Processes) /\ Len(process') <= MaxProcesses
      /\ ProcessesAreKnown' /\ NoOrphans'
  BY <1>1, RaisedTableInOrder
<1>3. TableTyped'
  BY <1>1, <1>2 DEF TableInv, TableTyped, RaisedTable, ReadersStay
<1>4. NewsTyped'
  BY <1>1, <1>2 DEF TableInv, NewsTyped, PanelsStay
<1>5. /\ \A k \in DOMAIN running' : \A t \in running'[k].refs : t \in DOMAIN readers' /\ readers'[t] = k
      /\ \A k \in DOMAIN running' : running'[k].refs # {}
  BY <1>1, <1>2, RaisedAreRead
<1>6. \A t \in DOMAIN readers' : Open(t)'
  BY DEF ReadersStay
<1>7. ReadersAreOpen'
  <2>1. DOMAIN data' \subseteq DOMAIN readers'
    BY <1>1 DEF TableInv, ReadersAreOpen, ReadersStay
  <2>2. IsFiniteSet(DOMAIN readers') /\ \A t \in Surfaces : Open(t)' => t \in DOMAIN readers'
    BY DEF ReadersStay
  <2> QED
    BY <1>5, <1>6, <2>1, <2>2 DEF ReadersAreOpen
<1>8. ReadByOpenPanels'
  BY <1>5, <1>6 DEF ReadByOpenPanels
<1>9. Owed' = Owed
  BY DEF Owed
<1>10. ToldInv'
  BY <1>2, <1>9, RaisedAreTold
<1> QED
  BY <1>2, <1>3, <1>4, <1>7, <1>8, <1>10 DEF BackendsInv, TableInv

\* Runtime::open of a live panel.
LEMMA OpenPanelInOrder ==
  ASSUME BackendsInv, NEW s \in Surfaces, OpenPanel(s) PROVE BackendsInv'
<1> DEFINE key == Question[s]
<1>1. CASE /\ key \in DOMAIN running
           /\ running' = [running EXCEPT ![key].refs = @ \cup {s}]
           /\ CaughtUp(s, running[key]) /\ JoinsHealth(s, running[key])
           /\ UNCHANGED <<process, failures>>
  BY <1>1, Joins
<1>2. CASE /\ key \notin DOMAIN running
           /\ Raise(key, {s}, running, health, process)
           /\ UNCHANGED data
  <2>1. /\ key \in Keys /\ s \notin DOMAIN readers /\ panel[s].life = "new"
        /\ readers' \in [DOMAIN readers' -> Keys] /\ DOMAIN readers' = DOMAIN readers \cup {s}
        /\ readers'[s] = key /\ \A t \in DOMAIN readers : readers'[t] = readers[t]
        /\ IsFiniteSet(DOMAIN readers') /\ \A t \in DOMAIN readers' : Open(t)'
        /\ panel' \in [Surfaces -> Shown]
        /\ \A t \in Surfaces : /\ t # s => panel'[t] = panel[t]
                               /\ panel'[t].shown = panel[t].shown
                               /\ panel'[t].health = panel[t].health
        /\ panel'[s].life = "open"
    BY OpenedReads DEF BackendsInv
  <2>2. TableWithout(key, running, process)
    BY <1>2 DEF BackendsInv, TableInv, TableTyped, TableWithout, TableReady, ProcessesAreKnown, NoOrphans
  <2>3. IsFiniteSet({s})
    BY FS_Singleton
  <2>4. ReadersStay(key, {s})
    BY <2>1, <2>3 DEF ReadersStay, BackendsInv, TableInv, TableTyped, ReadersAreOpen, Open
  <2>5. data' = data /\ waiting' = waiting /\ news' = news /\ lines' = lines
    BY <1>2 DEF OpenPanel, loop
  <2>6. PanelsStay(key)
    BY <2>1 DEF PanelsStay
  <2>7. Raise(key, {s}, running, health, process)
    BY <1>2
  <2> HIDE DEF key
  <2> QED
    BY <2>1, <2>2, <2>4, <2>5, <2>6, <2>7, Raised
<1> QED
  BY <1>1, <1>2 DEF OpenPanel

\* Runtime::restart: the process before is stopped, and the panels of the
\* question have a new one or are told that there is none.
LEMMA RestartPanelInOrder ==
  ASSUME BackendsInv, NEW s \in Surfaces, RestartPanel(s) PROVE BackendsInv'
<1> DEFINE key == readers[s]
           base == Without(running, {key})
           ps == Stopped(process, key)
           refs == BroughtBack(s)
<1>1. TableTyped /\ NewsTyped /\ ReadersAreOpen /\ ProcessesAreKnown /\ NoOrphans
      /\ s \in DOMAIN readers
  BY DEF BackendsInv, TableInv, ReadersAreOpen, RestartPanel
<1>2. key \in Keys /\ readers \in [DOMAIN readers -> Keys] /\ DOMAIN readers \subseteq Surfaces
  BY <1>1 DEF TableTyped
<1>3. refs \in SUBSET Surfaces /\ IsFiniteSet(refs) /\ refs # {}
      /\ \A t \in refs : t \in DOMAIN readers /\ readers[t] = key
  <2>1. refs \in SUBSET DOMAIN readers /\ s \in refs /\ \A t \in refs : readers[t] = key
    BY <1>1 DEF BroughtBack, ReadersOf
  <2>2. IsFiniteSet(refs)
    <3> HIDE DEF refs
    <3> QED
      BY <1>1, <2>1, FS_Subset DEF ReadersAreOpen
  <2> QED
    BY <1>2, <2>1, <2>2
<1>4. /\ base \in [DOMAIN base -> Entries] /\ DOMAIN base = DOMAIN running \ {key}
      /\ \A k \in DOMAIN base : base[k] = running[k]
  BY <1>1 DEF TableTyped, Without, Restrict
<1>5. /\ ps \in Seq(Processes) /\ Len(ps) = Len(process)
      /\ \A p \in DOMAIN process :
           /\ ps[p].key = process[p].key
           /\ ps[p].state = "running" => (process[p].state = "running" /\ process[p].key # key)
  BY <1>1, <1>2, StoppedInOrder
<1>6. DOMAIN ps = DOMAIN process
  BY <1>1, <1>5 DEF TableTyped
<1>7. TableWithout(key, base, ps)
  <2> HIDE DEF base, ps, key
  <2> QED
    BY <1>1, <1>4, <1>5, <1>6 DEF TableTyped, TableWithout, TableReady, ProcessesAreKnown, NoOrphans
<1>8. /\ data' = data /\ waiting' = waiting /\ news' = news /\ lines' = lines /\ readers' = readers
      /\ panel' = [panel EXCEPT ![s].health = "Fresh"]
      /\ Raise(key, refs, base, health, ps)
  BY DEF RestartPanel, loop
<1>9. /\ panel' \in [Surfaces -> Shown]
      /\ \A t \in Surfaces : /\ panel'[t].shown = panel[t].shown /\ panel'[t].life = panel[t].life
                             /\ t # s => panel'[t].health = panel[t].health
  <2>1. panel \in [Surfaces -> Shown] /\ panel[s] \in Shown
    BY <1>1 DEF NewsTyped
  <2>2. /\ [panel[s] EXCEPT !.health = "Fresh"] \in Shown
        /\ [panel[s] EXCEPT !.health = "Fresh"].shown = panel[s].shown
        /\ [panel[s] EXCEPT !.health = "Fresh"].life = panel[s].life
    BY <2>1 DEF Shown, Healths
  <2> QED
    BY <1>8, <2>1, <2>2
<1>10. /\ IsFiniteSet(DOMAIN readers') /\ \A t \in DOMAIN readers' : Open(t)'
       /\ \A t \in Surfaces : Open(t)' => t \in DOMAIN readers'
  BY <1>1, <1>2, <1>8, <1>9 DEF ReadersAreOpen, Open
<1>11. PanelsStay(key)
  BY <1>9 DEF PanelsStay
<1>12. ReadersStay(key, refs)
  <2> HIDE DEF refs, key
  <2> QED
    BY <1>2, <1>3, <1>8, <1>10 DEF ReadersStay
<1> HIDE DEF key, base, ps, refs
<1> QED
  BY <1>2, <1>7, <1>8, <1>11, <1>12, Raised

-----------------------------------------------------------------------------
\* unsubscribe: what is left of the table, and of the processes.
LEMMA LeaveInOrder ==
  ASSUME TableInv, NEW s \in DOMAIN readers, Leave(s)
  PROVE  /\ running' \in [DOMAIN running' -> Entries] /\ DOMAIN running' \subseteq DOMAIN running
         /\ \A k \in DOMAIN running' :
              /\ running'[k].refs = running[k].refs \ {s} /\ running'[k].refs # {}
              /\ running'[k].pid = running[k].pid /\ running'[k].quiet = running[k].quiet
              /\ running'[k].health = running[k].health /\ running'[k].last = running[k].last
         /\ process' \in Seq(Processes) /\ Len(process') = Len(process)
         /\ NoOrphans'
<1> DEFINE key == readers[s]
           refs == IF key \in DOMAIN running THEN running[key].refs \ {s} ELSE {}
<1>1. TableTyped /\ ReadersAreOpen /\ ProcessesAreKnown /\ NoOrphans /\ ReadByOpenPanels
  BY DEF TableInv
<1>2. key \in Keys /\ running \in [DOMAIN running -> Entries] /\ process \in Seq(Processes)
  BY <1>1 DEF TableTyped
<1>3. /\ refs = {} => running' = Without(running, {key}) /\ process' = Stopped(process, key)
      /\ refs # {} => running' = [running EXCEPT ![key].refs = refs] /\ process' = process
      /\ key \in DOMAIN running => refs = running[key].refs \ {s}
      /\ key \notin DOMAIN running => refs = {}
  BY DEF Leave
<1> HIDE DEF key, refs
<1>6. \A k \in DOMAIN running :
        /\ running[k].refs # {} /\ running[k].refs \in SUBSET Surfaces
        /\ k # key => running[k].refs \ {s} = running[k].refs
  <2> SUFFICES ASSUME NEW k \in DOMAIN running
               PROVE  /\ running[k].refs # {} /\ running[k].refs \in SUBSET Surfaces
                      /\ k # key => s \notin running[k].refs
    OBVIOUS
  <2>1. running[k] \in Entries
    BY <1>2
  <2> QED
    BY <1>1, <2>1 DEF ReadByOpenPanels, Entries, key
<1>4. CASE refs = {}
  <2>1. running' = Without(running, {key}) /\ process' = Stopped(process, key)
    BY <1>3, <1>4
  <2>2. /\ running' \in [DOMAIN running' -> Entries] /\ DOMAIN running' = DOMAIN running \ {key}
        /\ \A k \in DOMAIN running' : running'[k] = running[k]
    BY <1>2, <2>1 DEF Without, Restrict
  <2>3. /\ process' \in Seq(Processes) /\ Len(process') = Len(process)
        /\ \A p \in DOMAIN process :
             /\ process'[p].key = process[p].key
             /\ process'[p].state = "running" => (process[p].state = "running" /\ process[p].key # key)
    BY <1>1, <1>2, <2>1, StoppedInOrder
  <2>4. DOMAIN process' = DOMAIN process
    BY <1>2, <2>3
  <2>5. NoOrphans'
    BY <1>1, <2>2, <2>3, <2>4 DEF NoOrphans
  <2>6. \A k \in DOMAIN running' :
          /\ k \in DOMAIN running /\ running'[k] = running[k]
          /\ running'[k].refs = running[k].refs \ {s} /\ running'[k].refs # {}
    BY <1>6, <2>2
  <2> QED
    BY <2>2, <2>3, <2>5, <2>6
<1>5. CASE refs # {}
  <2>0. key \in DOMAIN running
    BY <1>3, <1>5
  <2>1. key \in DOMAIN running /\ refs = running[key].refs \ {s} /\ refs \in SUBSET Surfaces
    BY <1>3, <1>6, <2>0
  <2>2. running' = [running EXCEPT ![key].refs = refs] /\ process' = process
    BY <1>3, <1>5
  <2>3. /\ running' \in [DOMAIN running -> Entries] /\ DOMAIN running' = DOMAIN running
        /\ running'[key].refs = refs
        /\ \A k \in DOMAIN running :
             /\ k # key => running'[k] = running[k]
             /\ running'[k].pid = running[k].pid /\ running'[k].quiet = running[k].quiet
             /\ running'[k].health = running[k].health /\ running'[k].last = running[k].last
    BY <1>1, <2>1, <2>2, RefsChange
  <2>4. NoOrphans'
    BY <1>1, <2>2, <2>3 DEF NoOrphans
  <2>5. \A k \in DOMAIN running' :
          running'[k].refs = running[k].refs \ {s} /\ running'[k].refs # {}
    BY <1>5, <1>6, <2>1, <2>3
  <2> QED
    BY <1>2, <2>2, <2>3, <2>4, <2>5
<1> QED
  BY <1>4, <1>5

\* Runtime::retire
LEMMA RetireInOrder ==
  ASSUME BackendsInv, NEW s \in Surfaces, Retire(s) PROVE BackendsInv'
<1>1. TableTyped /\ NewsTyped /\ ReadersAreOpen /\ ProcessesAreKnown /\ NoOrphans /\ ReadByOpenPanels
  BY DEF BackendsInv, TableInv
<1>2. ReadersAreTold /\ SilenceIsTold /\ FreshIsRecent /\ NothingSaidOfNew
  BY DEF BackendsInv, ToldInv
<1>3. s \in DOMAIN readers
  BY <1>1 DEF Retire, ReadersAreOpen
<1>4. /\ running' \in [DOMAIN running' -> Entries] /\ DOMAIN running' \subseteq DOMAIN running
      /\ \A k \in DOMAIN running' :
           /\ running'[k].refs = running[k].refs \ {s} /\ running'[k].refs # {}
           /\ running'[k].pid = running[k].pid /\ running'[k].quiet = running[k].quiet
           /\ running'[k].health = running[k].health /\ running'[k].last = running[k].last
      /\ process' \in Seq(Processes) /\ Len(process') = Len(process)
      /\ NoOrphans'
  BY <1>3, LeaveInOrder DEF BackendsInv, Retire
<1>5. /\ readers' \in [DOMAIN readers' -> Keys] /\ DOMAIN readers' = DOMAIN readers \ {s}
      /\ \A t \in DOMAIN readers' : readers'[t] = readers[t]
  BY <1>1 DEF Retire, TableTyped, Without, Restrict
<1>6. /\ data' \in [DOMAIN data' -> Readings] /\ DOMAIN data' = DOMAIN data \ {s}
      /\ \A t \in DOMAIN data' : data'[t] = data[t]
  BY <1>1 DEF Retire, NewsTyped, Forgotten, Without, Restrict
<1>7. /\ panel' \in [Surfaces -> Shown] /\ panel'[s].life = "gone"
      /\ \A t \in Surfaces : t # s => panel'[t] = panel[t]
  <2>1. panel' = [panel EXCEPT ![s].life = "gone"] /\ panel \in [Surfaces -> Shown]
    BY <1>1 DEF Retire, NewsTyped
  <2> QED
    BY <2>1, LifeChanges
<1>8. UNCHANGED <<health, news, waiting, lines>>
  BY DEF Retire, loop
<1>9. DOMAIN readers \subseteq Surfaces /\ DOMAIN running \subseteq Keys
  BY <1>1 DEF TableTyped
<1>10. TableTyped' /\ NewsTyped'
  BY <1>1, <1>4, <1>5, <1>6, <1>7, <1>8 DEF TableTyped, NewsTyped
<1>11. ReadersAreOpen'
  <2>1. IsFiniteSet(DOMAIN readers')
    BY <1>1, <1>5, FS_Subset DEF ReadersAreOpen
  <2>2. /\ \A t \in DOMAIN readers' : Open(t)'
        /\ \A t \in Surfaces : Open(t)' => t \in DOMAIN readers'
    BY <1>1, <1>5, <1>7, <1>9 DEF ReadersAreOpen, Open
  <2>3. DOMAIN data' \subseteq DOMAIN readers'
    BY <1>1, <1>5, <1>6 DEF ReadersAreOpen
  <2>4. \A k \in DOMAIN running' : running'[k].refs \subseteq DOMAIN readers'
    BY <1>1, <1>4, <1>5 DEF ReadersAreOpen
  <2> QED
    BY <2>1, <2>2, <2>3, <2>4 DEF ReadersAreOpen
<1>12. ProcessesAreKnown'
  BY <1>1, <1>4 DEF ProcessesAreKnown, TableTyped
<1>13. ReadByOpenPanels'
  BY <1>1, <1>4, <1>5, <1>11 DEF ReadByOpenPanels, ReadersAreOpen
<1>14. \A k \in DOMAIN running' : \A t \in running'[k].refs :
         k \in DOMAIN running /\ t \in running[k].refs /\ t # s /\ t \in Surfaces /\ panel'[t] = panel[t]
  BY <1>1, <1>4, <1>7, <1>9 DEF ReadersAreOpen
<1>15. Owed' = Owed /\ health' = health
  BY <1>8 DEF Owed
<1>16. ReadersAreTold'
  BY <1>2, <1>4, <1>6, <1>14, <1>15 DEF ReadersAreTold, ToldLast
<1>17. SilenceIsTold'
  BY <1>2, <1>4, <1>14, <1>15 DEF SilenceIsTold
<1>18. FreshIsRecent' /\ NothingSaidOfNew'
  BY <1>2, <1>4, <1>7, <1>14, <1>15 DEF FreshIsRecent, NothingSaidOfNew
<1> QED
  BY <1>4, <1>10, <1>11, <1>12, <1>13, <1>16, <1>17, <1>18 DEF BackendsInv, TableInv, ToldInv

-----------------------------------------------------------------------------
\* A process says a line nobody has read yet.
LEMMA WritesInOrder ==
  ASSUME BackendsInv, NEW p \in DOMAIN process, Writes(p) PROVE BackendsInv'
<1>1. TableInv /\ ToldInv /\ TableTyped /\ process \in Seq(Processes) /\ process[p] \in Processes
  BY DEF BackendsInv, TableInv, TableTyped
<1>2. PICK hold \in Holds :
        process' = [process EXCEPT ![p].unread = Append(@, [pid |-> p, line |-> lines + 1, hold |-> hold])]
  BY DEF Writes
<1> DEFINE line == [pid |-> p, line |-> lines + 1, hold |-> hold]
           one == [process[p] EXCEPT !.unread = Append(process[p].unread, line)]
<1>3. line \in Readings
  BY <1>1, BackendsAssumption DEF TableTyped, Readings
<1>4. Append(process[p].unread, line) \in Seq(Readings)
  BY <1>1, <1>3 DEF Processes
<1>5. one \in Processes /\ one.state = process[p].state /\ one.key = process[p].key
  BY <1>1, <1>4 DEF Processes
<1>6. process' = [process EXCEPT ![p] = one]
  BY <1>1, <1>2
<1> HIDE DEF line, one
<1>7. /\ process' \in Seq(Processes) /\ Len(process') = Len(process)
      /\ DOMAIN process' = DOMAIN process
      /\ \A q \in DOMAIN process : process'[q].state = process[q].state /\ process'[q].key = process[q].key
  BY <1>1, <1>5, <1>6
<1>8. lines' \in 0..MaxLines
  BY <1>1, BackendsAssumption DEF Writes, TableTyped
<1>9. UNCHANGED <<panel, running, readers, data, health, news, waiting>>
  BY DEF Writes, loop
<1>10. TableInv'
  BY <1>1, <1>7, <1>8, <1>9
  DEF TableInv, TableTyped, NewsTyped, ReadersAreOpen, ProcessesAreKnown, NoOrphans, ReadByOpenPanels, Open
<1>11. ToldInv'
  BY <1>1, <1>9 DEF ToldInv, ReadersAreTold, SilenceIsTold, FreshIsRecent, NothingSaidOfNew, Owed
<1> QED
  BY <1>10, <1>11 DEF BackendsInv

\* It exits, or is killed.
LEMMA ExitsInOrder ==
  ASSUME BackendsInv, NEW p \in DOMAIN process, Exits(p) PROVE BackendsInv'
<1>1. TableInv /\ ToldInv /\ process \in Seq(Processes) /\ process[p] \in Processes
  BY DEF BackendsInv, TableInv, TableTyped
<1> DEFINE one == [process[p] EXCEPT !.state = "exited"]
<1>2. one \in Processes /\ one.state = "exited" /\ one.key = process[p].key
  BY <1>1 DEF Processes
<1>3. process' = [process EXCEPT ![p] = one]
  BY DEF Exits
<1> HIDE DEF one
<1>4. /\ process' \in Seq(Processes) /\ Len(process') = Len(process)
      /\ DOMAIN process' = DOMAIN process
      /\ \A q \in DOMAIN process : /\ process'[q].state = "running" => process[q].state = "running"
                                  /\ process'[q].key = process[q].key
  BY <1>1, <1>2, <1>3
<1>5. UNCHANGED <<panel, running, readers, data, health, news, waiting, lines>>
  BY DEF Exits, loop
<1>6. TableInv'
  <2>1. NoOrphans'
    BY <1>1, <1>4, <1>5 DEF TableInv, NoOrphans
  <2>2. TableTyped' /\ ProcessesAreKnown'
    BY <1>1, <1>4, <1>5 DEF TableInv, TableTyped, ProcessesAreKnown
  <2>3. NewsTyped' /\ ReadersAreOpen' /\ ReadByOpenPanels'
    BY <1>1, <1>5 DEF TableInv, NewsTyped, ReadersAreOpen, ReadByOpenPanels, Open
  <2> QED
    BY <2>1, <2>2, <2>3 DEF TableInv
<1>7. ToldInv'
  BY <1>1, <1>5 DEF ToldInv, ReadersAreTold, SilenceIsTold, FreshIsRecent, NothingSaidOfNew, Owed
<1> QED
  BY <1>6, <1>7 DEF BackendsInv

-----------------------------------------------------------------------------
\* A line is taken from a process, or the thread that reads it ends: what the
\* process is stays.
LEMMA ReadFromProcess ==
  ASSUME TableTyped, NEW p \in DOMAIN process, process[p].unread # <<>>,
         \/ process' = [process EXCEPT ![p].unread = Tail(@)]
         \/ process' = [process EXCEPT ![p].reading = FALSE, ![p].unread = <<>>]
  PROVE  /\ Head(process[p].unread) \in Readings
         /\ process' \in Seq(Processes) /\ Len(process') = Len(process)
         /\ DOMAIN process' = DOMAIN process
         /\ \A q \in DOMAIN process : /\ process'[q].state = process[q].state
                                     /\ process'[q].key = process[q].key
<1>1. process \in Seq(Processes) /\ process[p] \in Processes
  BY DEF TableTyped
<1>2. process[p].unread \in Seq(Readings)
  BY <1>1 DEF Processes
<1>3. Head(process[p].unread) \in Readings /\ Tail(process[p].unread) \in Seq(Readings)
  BY <1>2
<1> DEFINE taken == [process[p] EXCEPT !.unread = Tail(process[p].unread)]
           quiet == [process[p] EXCEPT !.reading = FALSE]
           ended == [quiet EXCEPT !.unread = <<>>]
<1>4. taken \in Processes /\ taken.state = process[p].state /\ taken.key = process[p].key
  BY <1>1, <1>3 DEF Processes
<1>5. ended \in Processes /\ ended.state = process[p].state /\ ended.key = process[p].key
  <2>1. quiet \in Processes /\ quiet.state = process[p].state /\ quiet.key = process[p].key
    BY <1>1 DEF Processes
  <2>2. <<>> \in Seq(Readings)
    OBVIOUS
  <2> HIDE DEF quiet
  <2> QED
    BY <2>1, <2>2 DEF Processes
<1>6. process' = [process EXCEPT ![p] = taken] \/ process' = [process EXCEPT ![p] = ended]
  <2>1. CASE process' = [process EXCEPT ![p].unread = Tail(@)]
    BY <1>1, <2>1
  <2>2. CASE process' = [process EXCEPT ![p].reading = FALSE, ![p].unread = <<>>]
    <3>1. process' = [[process EXCEPT ![p] = quiet] EXCEPT ![p] = ended]
      BY <1>1, <2>2
    <3> HIDE DEF ended
    <3> QED
      BY <1>1, <3>1
  <2> QED
    BY <2>1, <2>2
<1> HIDE DEF taken, ended
<1> QED
  BY <1>1, <1>3, <1>4, <1>5, <1>6

\* A backend speaks.
LEMMA EntrySpeaks ==
  ASSUME TableTyped, NEW key \in DOMAIN running, NEW line \in Readings,
         running' = [running EXCEPT ![key].quiet = 0, ![key].health = "Fresh", ![key].last = line]
  PROVE  /\ running' \in [DOMAIN running -> Entries] /\ DOMAIN running' = DOMAIN running
         /\ \A k \in DOMAIN running : k # key => running'[k] = running[k]
         /\ running'[key].pid = running[key].pid /\ running'[key].refs = running[key].refs
         /\ running'[key].quiet = 0 /\ running'[key].health = "Fresh" /\ running'[key].last = line
<1> DEFINE e1 == [running[key] EXCEPT !.quiet = 0]
           e2 == [e1 EXCEPT !.health = "Fresh"]
           e3 == [e2 EXCEPT !.last = line]
<1>1. running \in [DOMAIN running -> Entries] /\ running[key] \in Entries
  BY DEF TableTyped
<1>2. e1 \in Entries /\ e1.pid = running[key].pid /\ e1.refs = running[key].refs /\ e1.quiet = 0
  BY <1>1 DEF Entries
<1>3. /\ e2 \in Entries /\ e2.pid = e1.pid /\ e2.refs = e1.refs /\ e2.quiet = e1.quiet
      /\ e2.health = "Fresh"
  <2> HIDE DEF e1
  <2> QED
    BY <1>2 DEF Entries
<1>4. /\ e3 \in Entries /\ e3.pid = e2.pid /\ e3.refs = e2.refs /\ e3.quiet = e2.quiet
      /\ e3.health = e2.health /\ e3.last = line
  <2> HIDE DEF e2
  <2> QED
    BY <1>3 DEF Entries
<1>5. running' = [running EXCEPT ![key] = e3]
  <2> DEFINE r1 == [running EXCEPT ![key] = e1]
             r2 == [r1 EXCEPT ![key] = e2]
  <2>1. running' = [r2 EXCEPT ![key] = e3]
    BY <1>1
  <2> HIDE DEF e1, e2, e3
  <2> QED
    BY <1>1, <2>1
<1> HIDE DEF e1, e2, e3
<1> QED
  BY <1>1, <1>2, <1>3, <1>4, <1>5

\* read, while something answers the question.
LEMMA ReadIsTold ==
  ASSUME BackendsInv, NEW p \in DOMAIN process, Read(p), process[p].key \in DOMAIN running
  PROVE  BackendsInv'
<1> DEFINE key == process[p].key
           line == Head(process[p].unread)
           refs == running[key].refs
<1>1. TableTyped /\ NewsTyped /\ ReadersAreOpen /\ ProcessesAreKnown /\ NoOrphans /\ ReadByOpenPanels
  BY DEF BackendsInv, TableInv
<1>2. ReadersAreTold /\ SilenceIsTold /\ FreshIsRecent /\ NothingSaidOfNew
  BY DEF BackendsInv, ToldInv
<1>3. /\ process[p].unread # <<>>
      /\ process' = [process EXCEPT ![p].unread = Tail(@)]
      /\ running' = [running EXCEPT ![key].quiet = 0, ![key].health = "Fresh", ![key].last = line]
      /\ health' = IF running[key].health = "Fresh" THEN health ELSE health \o HealthNews(refs, "Fresh")
      /\ data' = [s \in DOMAIN data \cup refs |-> IF s \in refs THEN line ELSE data[s]]
      /\ panel' = panel /\ readers' = readers /\ news' = news /\ waiting' = waiting /\ lines' = lines
  BY DEF Read, loop
<1>4. /\ line \in Readings /\ process' \in Seq(Processes) /\ Len(process') = Len(process)
      /\ DOMAIN process' = DOMAIN process
      /\ \A q \in DOMAIN process : /\ process'[q].state = process[q].state
                                  /\ process'[q].key = process[q].key
  BY <1>1, <1>3, ReadFromProcess
<1> HIDE DEF line
<1>5. key \in DOMAIN running
  OBVIOUS
<1> HIDE DEF key
<1>6. /\ running' \in [DOMAIN running -> Entries] /\ DOMAIN running' = DOMAIN running
      /\ \A k \in DOMAIN running : k # key => running'[k] = running[k]
      /\ running'[key].pid = running[key].pid /\ running'[key].refs = running[key].refs
      /\ running'[key].quiet = 0 /\ running'[key].health = "Fresh" /\ running'[key].last = line
  BY <1>1, <1>3, <1>4, <1>5, EntrySpeaks
<1>7. /\ refs \in SUBSET DOMAIN readers /\ refs \in SUBSET Surfaces
      /\ \A s \in refs : panel[s].life = "open"
  BY <1>1, <1>5 DEF ReadersAreOpen, TableTyped, Open
<1>8. IsFiniteSet(refs)
  <2> HIDE DEF refs
  <2> QED
    BY <1>1, <1>7, FS_Subset DEF ReadersAreOpen
<1>9. \A k \in DOMAIN running : k # key => \A t \in running[k].refs : t \notin refs
  BY <1>1, <1>5, ReadsOne
<1>10. \A k \in DOMAIN running : running'[k].refs = running[k].refs /\ running'[k].pid = running[k].pid
  BY <1>6
<1>11. running[key].refs = refs
  OBVIOUS
<1> HIDE DEF refs
<1> DEFINE fresh == HealthNews(refs, "Fresh")
<1>12. /\ fresh \in Seq(HealthItems)
       /\ \A good : Has(fresh, good) <=> \E s \in refs : News(s, "Fresh") \in good
  BY <1>7, <1>8, HealthIsSaid DEF Healths
<1> HIDE DEF fresh
<1>13. /\ health \in Seq(HealthItems) /\ HealthItems \subseteq Items
       /\ health' = health \/ health' = health \o fresh
       /\ \A t : t \notin refs => ~Has(fresh, SaysFresh(t))
  BY <1>1, <1>3, <1>12, NewsAreTold DEF NewsTyped, Items, SaysFresh, fresh
<1>14. fresh \in Seq(Items) /\ health' \in Seq(HealthItems)
  <2>1. health \o fresh \in Seq(HealthItems)
    BY <1>12, <1>13
  <2>2. fresh \in Seq(Items)
    BY <1>12, <1>13
  <2> QED
    BY <1>13, <2>1, <2>2
<1>15. /\ data' \in [DOMAIN data' -> Readings] /\ DOMAIN data' = DOMAIN data \cup refs
       /\ \A s \in refs : data'[s] = line
       /\ \A s \in DOMAIN data : s \notin refs => data'[s] = data[s]
  BY <1>1, <1>3, <1>4 DEF NewsTyped
<1>16. TableTyped' /\ NewsTyped'
  BY <1>1, <1>3, <1>4, <1>6, <1>14, <1>15 DEF TableTyped, NewsTyped
<1>17. ReadersAreOpen'
  BY <1>1, <1>3, <1>6, <1>7, <1>10, <1>15 DEF ReadersAreOpen, Open
<1>18. ProcessesAreKnown' /\ NoOrphans'
  BY <1>1, <1>4, <1>6, <1>10, SMTT(60) DEF ProcessesAreKnown, NoOrphans
<1>19. ReadByOpenPanels'
  BY <1>1, <1>3, <1>6, <1>10 DEF ReadByOpenPanels, Open
<1>20. Owed' = Owed /\ Owed \in Seq(Items) /\ health \in Seq(Items) /\ Owed \o health \in Seq(Items)
  BY <1>1, <1>3, OwedTyped DEF Owed
<1>21. ReadersAreTold'
  <2> SUFFICES ASSUME NEW k \in DOMAIN running', running'[k].last # NoReading,
                      NEW t \in running'[k].refs
               PROVE  ToldLast(t, running'[k].last, data', Owed', panel'[t].shown)
    BY DEF ReadersAreTold
  <2>1. CASE k = key
    BY <1>6, <1>11, <1>15, <2>1 DEF ToldLast
  <2>2. CASE k # key
    <3>1. running'[k] = running[k] /\ t \notin refs /\ k \in DOMAIN running
      BY <1>6, <1>9, <2>2
    <3>2. ToldLast(t, running[k].last, data, Owed, panel[t].shown)
      BY <1>2, <3>1 DEF ReadersAreTold
    <3> QED
      BY <1>3, <1>15, <1>20, <3>1, <3>2 DEF ToldLast
  <2> QED
    BY <2>1, <2>2
<1>22. SilenceIsTold'
  <2> SUFFICES ASSUME Patience # 0, NEW k \in DOMAIN running', running'[k].health = "Stale",
                      NEW t \in running'[k].refs
               PROVE  ToldSilent(t, Owed' \o health', panel'[t].health)
    BY DEF SilenceIsTold
  <2>1. k # key /\ k \in DOMAIN running /\ running'[k] = running[k] /\ t \notin refs
    BY <1>6, <1>9
  <2>2. ToldSilent(t, Owed \o health, panel[t].health)
    BY <1>2, <2>1 DEF SilenceIsTold
  <2>3. CASE health' = health
    BY <1>3, <1>20, <2>2, <2>3
  <2>4. CASE health' = health \o fresh
    <3>1. Owed \o (health \o fresh) = (Owed \o health) \o fresh
      BY <1>14, <1>20, OneAfterAnother, SMTT(60)
    <3>2. ToldSilent(t, (Owed \o health) \o fresh, panel[t].health)
      BY <1>13, <1>14, <1>20, <2>1, <2>2, SilenceStaysTold
    <3> QED
      BY <1>3, <1>20, <2>4, <3>1, <3>2
  <2> QED
    BY <1>13, <2>3, <2>4
<1>23. \A t : t \notin refs => (Has(health', SaysFresh(t)) => Has(health, SaysFresh(t)))
  <2>1. CASE health' = health
    BY <2>1
  <2>2. CASE health' = health \o fresh
    <3>1. \A t : Has(health \o fresh, SaysFresh(t)) =>
            (Has(health, SaysFresh(t)) \/ Has(fresh, SaysFresh(t)))
      BY <1>14, <1>20, HasTogether
    <3> QED
      BY <1>13, <2>2, <3>1
  <2> QED
    BY <1>13, <2>1, <2>2
<1>24. FreshIsRecent'
  <2> SUFFICES ASSUME NEW k \in DOMAIN running', NEW t \in running'[k].refs,
                      Has(health', SaysFresh(t))
               PROVE  running'[k].quiet = 0
    BY DEF FreshIsRecent
  <2>1. CASE k = key
    BY <1>6, <2>1
  <2>2. CASE k # key
    BY <1>2, <1>6, <1>9, <1>23, <2>2 DEF FreshIsRecent
  <2> QED
    BY <2>1, <2>2
<1>25. NothingSaidOfNew'
  BY <1>2, <1>3, <1>7, <1>23 DEF NothingSaidOfNew
<1> QED
  BY <1>16, <1>17, <1>18, <1>19, <1>21, <1>22, <1>24, <1>25 DEF BackendsInv, TableInv, ToldInv

LEMMA ReadInOrder ==
  ASSUME BackendsInv, NEW p \in DOMAIN process, Read(p) PROVE BackendsInv'
<1>1. CASE process[p].key \in DOMAIN running
  BY <1>1, ReadIsTold
<1>2. CASE process[p].key \notin DOMAIN running
  <2>1. TableInv /\ ToldInv /\ TableTyped
    BY DEF BackendsInv, TableInv
  <2>2. /\ process[p].unread # <<>>
        /\ process' = [process EXCEPT ![p].reading = FALSE, ![p].unread = <<>>]
        /\ UNCHANGED <<panel, running, readers, data, health, news, waiting, lines>>
    BY <1>2 DEF Read, loop
  <2>3. /\ process' \in Seq(Processes) /\ Len(process') = Len(process)
        /\ DOMAIN process' = DOMAIN process
        /\ \A q \in DOMAIN process : /\ process'[q].state = process[q].state
                                    /\ process'[q].key = process[q].key
    BY <2>1, <2>2, ReadFromProcess
  <2>4. TableInv'
    BY <2>1, <2>2, <2>3
    DEF TableInv, TableTyped, NewsTyped, ReadersAreOpen, ProcessesAreKnown, NoOrphans, ReadByOpenPanels,
        Open
  <2>5. ToldInv'
    BY <2>1, <2>2 DEF ToldInv, ReadersAreTold, SilenceIsTold, FreshIsRecent, NothingSaidOfNew, Owed
  <2> QED
    BY <2>4, <2>5 DEF BackendsInv
<1> QED
  BY <1>1, <1>2

-----------------------------------------------------------------------------
\* More news without a reading of the panel's, or news that ends with the last
\* there is.
LEMMA LastStaysTold ==
  ASSUME NEW s, NEW last, NEW owed \in Seq(Items), NEW more \in Seq(Items), NEW shown,
         ~Has(more, Superseded(s, last)),
         \/ Has(more, Latest(s, last))
         \/ ToldLast(s, last, <<>>, owed, shown)
  PROVE  ToldLast(s, last, <<>>, owed \o more, shown)
<1>1. s \notin DOMAIN <<>>
  OBVIOUS
<1>2. MadeGood(more, Superseded(s, last), Latest(s, last))
  BY DEF MadeGood, Has
<1>3. MadeGood(owed \o more, Superseded(s, last), Latest(s, last))
  BY <1>1, <1>2, MadeGoodTogether DEF ToldLast
<1>4. Has(owed \o more, Latest(s, last)) <=> (Has(owed, Latest(s, last)) \/ Has(more, Latest(s, last)))
  BY HasTogether
<1> QED
  BY <1>1, <1>3, <1>4 DEF ToldLast

\* Of a silent backend more is said before what waited for the beat.
LEMMA SilenceToldBetween ==
  ASSUME NEW s, NEW owed \in Seq(Items), NEW more \in Seq(Items), NEW waits \in Seq(Items), NEW says,
         ~Has(more, SaysFresh(s)), ToldSilent(s, owed \o waits, says)
  PROVE  ToldSilent(s, (owed \o more) \o waits, says)
<1> DEFINE fresh == SaysFresh(s)
           silent == SaysSilent(s)
<1>1. MadeGood(owed \o waits, fresh, silent) /\ (says # "Fresh" \/ Has(owed \o waits, silent))
  BY DEF ToldSilent
<1> HIDE DEF fresh, silent
<1>2. /\ MadeGood(waits, fresh, silent)
      /\ Has(owed, fresh) => MadeGood(owed, fresh, silent) \/ Has(waits, silent)
  BY <1>1, MadeGoodBehind
<1>3. MadeGood(more, fresh, silent) /\ ~Has(more, fresh)
  BY DEF MadeGood, Has, fresh
<1>4. owed \o more \in Seq(Items) /\ (Has(owed \o more, fresh) => Has(owed, fresh))
  BY <1>3, HasTogether
<1>5. MadeGood(owed, fresh, silent) => MadeGood(owed \o more, fresh, silent)
  BY <1>3, MadeGoodTogether
<1>6. MadeGood((owed \o more) \o waits, fresh, silent)
  BY <1>2, <1>4, <1>5, MadeGoodTogether
<1>7. Has(owed \o waits, silent) => Has((owed \o more) \o waits, silent)
  BY <1>4, HasTogether
<1> QED
  BY <1>1, <1>6, <1>7 DEF ToldSilent, fresh, silent

\* The readings that wait for the beat, handed over: of each panel its own.
LEMMA ReadingsAreSaid ==
  ASSUME IsFiniteSet(DOMAIN data), data \in [DOMAIN data -> Readings], DOMAIN data \subseteq Surfaces
  PROVE  LET said == SetToSeq({ReadingNews(s, data[s]) : s \in DOMAIN data})
         IN  /\ said \in Seq(Items)
             /\ \A good : Has(said, good) <=> \E s \in DOMAIN data : ReadingNews(s, data[s]) \in good
<1> DEFINE all == {ReadingNews(s, data[s]) : s \in DOMAIN data}
           f == [s \in DOMAIN data |-> ReadingNews(s, data[s])]
           said == SetToSeq(all)
<1>1. f \in Surjection(DOMAIN data, all)
  BY DEF Surjection
<1>2. IsFiniteSet(all)
  <2> HIDE DEF f, all
  <2> QED
    BY <1>1, FS_Surjection
<1>3. all \in SUBSET Items
  BY DEF ReadingNews, Items
<1>4. \A x : x \in all <=> \E s \in DOMAIN data : x = ReadingNews(s, data[s])
  OBVIOUS
<1>5. /\ said \in Seq(Items)
      /\ \A i \in DOMAIN said : said[i] \in all
      /\ \A x \in all : \E i \in DOMAIN said : said[i] = x
  <2> HIDE DEF all
  <2> QED
    BY <1>2, <1>3, SetInOrder
<1> HIDE DEF all, said
<1>6. ASSUME NEW good
      PROVE  Has(said, good) <=> \E s \in DOMAIN data : ReadingNews(s, data[s]) \in good
  <2>1. Has(said, good) <=> \E x \in all : x \in good
    BY <1>5 DEF Has
  <2> QED
    BY <1>4, <2>1
<1> QED
  BY <1>5, <1>6 DEF all, said

\* Word of health is never a reading.
LEMMA HealthIsNoReading ==
  ASSUME NEW q \in Seq(HealthItems), NEW s, NEW last
  PROVE  ~Has(q, Superseded(s, last)) /\ ~Has(q, Latest(s, last))
<1>1. \A x \in HealthItems : \A r : x # ReadingNews(s, r)
  <2> SUFFICES ASSUME NEW x \in HealthItems, NEW r PROVE x # ReadingNews(s, r)
    OBVIOUS
  <2>1. "health" \in DOMAIN x /\ "health" \notin DOMAIN ReadingNews(s, r)
    BY DEF HealthItems, ReadingNews
  <2> QED
    BY <2>1
<1>2. \A i \in DOMAIN q : q[i] \in HealthItems
  OBVIOUS
<1> QED
  BY <1>1, <1>2 DEF Has, Superseded, Latest

\* What a beat makes of an entry.
AfterBeat(e, key, silent) ==
  [e EXCEPT !.quiet = IF @ > Patience THEN @ ELSE @ + 1,
            !.health = IF key \in silent THEN "Stale" ELSE @]

LEMMA EntryBeaten ==
  ASSUME NEW e \in Entries, NEW key, NEW silent
  PROVE  LET b == AfterBeat(e, key, silent)
         IN  /\ b \in Entries /\ b.pid = e.pid /\ b.refs = e.refs /\ b.last = e.last
             /\ b.health = IF key \in silent THEN "Stale" ELSE e.health
<1> DEFINE quiet == IF e.quiet > Patience THEN e.quiet ELSE e.quiet + 1
           says == IF key \in silent THEN "Stale" ELSE e.health
           e1 == [e EXCEPT !.quiet = quiet]
           e2 == [e1 EXCEPT !.health = says]
<1>1. e.quiet \in Nat /\ e.health \in {"Fresh", "Stale"}
  BY DEF Entries
<1>2. e.quiet + 1 \in Nat
  BY <1>1
<1>3. quiet \in Nat /\ says \in {"Fresh", "Stale"}
  BY <1>1, <1>2
<1>4. AfterBeat(e, key, silent) = e2
  BY DEF Entries, AfterBeat
<1> HIDE DEF quiet, says
<1>5. /\ e1 \in Entries /\ e1.pid = e.pid /\ e1.refs = e.refs /\ e1.last = e.last
  BY <1>3 DEF Entries
<1> HIDE DEF e1
<1>6. e2 \in Entries /\ e2.pid = e1.pid /\ e2.refs = e1.refs /\ e2.last = e1.last /\ e2.health = says
  BY <1>3, <1>5 DEF Entries
<1> QED
  BY <1>4, <1>5, <1>6 DEF says

\* And of the table.
TableAfter(before, buried, silent) ==
  [key \in DOMAIN before \ buried |-> AfterBeat(before[key], key, silent)]

Beaten(before, after, buried, silent) ==
  /\ DOMAIN after = DOMAIN before \ buried
  /\ after \in [DOMAIN after -> Entries]
  /\ \A k \in DOMAIN after :
       /\ after[k].pid = before[k].pid /\ after[k].refs = before[k].refs
       /\ after[k].last = before[k].last
       /\ after[k].health = IF k \in silent THEN "Stale" ELSE before[k].health

LEMMA TableBeaten ==
  ASSUME NEW before, before \in [DOMAIN before -> Entries], NEW buried, NEW silent
  PROVE  Beaten(before, TableAfter(before, buried, silent), buried, silent)
<1> DEFINE after == TableAfter(before, buried, silent)
<1>2. /\ DOMAIN after = DOMAIN before \ buried
      /\ \A k \in DOMAIN after : after[k] = AfterBeat(before[k], k, silent)
      /\ after = [k \in DOMAIN after |-> after[k]]
  BY DEF TableAfter
<1> HIDE DEF after
<1>3. ASSUME NEW k \in DOMAIN after
      PROVE  /\ after[k] \in Entries
             /\ after[k].pid = before[k].pid /\ after[k].refs = before[k].refs
             /\ after[k].last = before[k].last
             /\ after[k].health = IF k \in silent THEN "Stale" ELSE before[k].health
  <2>1. before[k] \in Entries /\ after[k] = AfterBeat(before[k], k, silent)
    BY <1>2, <1>3
  <2> QED
    BY <2>1, EntryBeaten
<1>4. after \in [DOMAIN after -> Entries]
  BY <1>2, <1>3
<1> QED
  BY <1>2, <1>3, <1>4 DEF after, Beaten

\* A row of news is the same row however it was put together.
Rows == Seq(Items)
Joined(a, b) == a \o b

LEMMA JoinedRows ==
  /\ \A a, b \in Rows : Joined(a, b) \in Rows
  /\ \A a, b, c \in Rows : Joined(a, Joined(b, c)) = Joined(Joined(a, b), c)
<1>1. ASSUME NEW a \in Seq(Items), NEW b \in Seq(Items) PROVE a \o b \in Seq(Items)
  OBVIOUS
<1>2. ASSUME NEW a \in Seq(Items), NEW b \in Seq(Items), NEW c \in Seq(Items)
      PROVE  a \o (b \o c) = (a \o b) \o c
  OBVIOUS
<1> QED
  BY <1>1, <1>2 DEF Rows, Joined

LEMMA InARow ==
  ASSUME NEW w \in Rows, NEW n \in Rows, NEW d \in Rows, NEW t \in Rows, NEW h \in Rows,
         NEW r \in Rows
  PROVE  LET more == Joined(d, t)
             all == Joined(Joined(Joined(Joined(n, d), t), h), r)
         IN  /\ all \in Rows
             /\ Joined(w, all) = Joined(Joined(Joined(Joined(w, n), more), h), r)
<1> DEFINE m == Joined(d, t)
           a == Joined(n, m)
           b == Joined(a, h)
<1>1. m \in Rows /\ Joined(Joined(n, d), t) = a
  BY JoinedRows
<1> HIDE DEF m
<1>2. a \in Rows /\ Joined(w, a) = Joined(Joined(w, n), m)
  BY <1>1, JoinedRows
<1> HIDE DEF a
<1>3. b \in Rows /\ Joined(w, b) = Joined(Joined(w, a), h)
  BY <1>2, JoinedRows
<1> HIDE DEF b
<1>4. Joined(b, r) \in Rows /\ Joined(w, Joined(b, r)) = Joined(Joined(w, b), r)
  BY <1>3, JoinedRows
<1> QED
  BY <1>1, <1>2, <1>3, <1>4 DEF m, b

\* Backends::drain, with what waited handed to the event loop.
LEMMA BeatInOrder ==
  ASSUME BackendsInv, Beat PROVE BackendsInv'
<1> DEFINE buried == {key \in DOMAIN running : Exited(key)}
           silent == {key \in DOMAIN running \ buried : Overdue(key)}
           dead == HealthNews(Bereaved(buried), "Dead")
           stale == HealthNews(UNION {running[key].refs : key \in silent}, "Stale")
           said == SetToSeq({ReadingNews(s, data[s]) : s \in DOMAIN data})
<1>1. TableTyped /\ NewsTyped /\ ReadersAreOpen /\ ProcessesAreKnown /\ NoOrphans /\ ReadByOpenPanels
  BY DEF BackendsInv, TableInv
<1>2. ReadersAreTold /\ SilenceIsTold /\ FreshIsRecent /\ NothingSaidOfNew
  BY DEF BackendsInv, ToldInv
<1>3. /\ health' = <<>> /\ data' = <<>>
      /\ panel' = panel /\ readers' = readers /\ waiting' = waiting /\ process' = process
      /\ lines' = lines
  BY DEF Beat, loop
<1>3a. news' = (((news \o dead) \o stale) \o health) \o said
  BY DEF Beat
<1>4. running' = TableAfter(running, buried, silent)
  BY DEF Beat, TableAfter, AfterBeat
<1>5. /\ \A k \in DOMAIN running : k \in buried <=> process[running[k].pid].state = "exited"
      /\ \A k \in silent : k \in DOMAIN running /\ (Patience # 0 => running[k].quiet # 0)
  <2>1. \A k \in silent : k \in DOMAIN running /\ running[k].quiet + 1 > Patience
    BY DEF Overdue
  <2>2. \A k \in DOMAIN running : running[k].quiet \in Nat
    BY <1>1 DEF TableTyped, Entries
  <2>3. Patience \in Nat
    BY BackendsAssumption
  <2>4. \A k \in silent : Patience # 0 => running[k].quiet # 0
    <3> HIDE DEF silent
    <3> QED
      BY <2>1, <2>2, <2>3
  <2> QED
    BY <2>1, <2>4 DEF Exited
<1>6. /\ Bereaved(buried) \in SUBSET DOMAIN readers
      /\ UNION {running[key].refs : key \in silent} \in SUBSET DOMAIN readers
      /\ DOMAIN data \in SUBSET DOMAIN readers /\ DOMAIN readers \in SUBSET Surfaces
  BY <1>1 DEF ReadersAreOpen, Bereaved, TableTyped
<1>7. /\ dead \in Seq(HealthItems) /\ \A t : ~Has(dead, SaysFresh(t))
  <2> DEFINE ids == Bereaved(buried)
  <2>1. ids \in SUBSET Surfaces /\ IsFiniteSet(ids) /\ dead = HealthNews(ids, "Dead")
    <3>1. ids \in SUBSET DOMAIN readers /\ DOMAIN readers \in SUBSET Surfaces
      BY <1>6
    <3> HIDE DEF ids
    <3>2. IsFiniteSet(ids)
      BY <1>1, <3>1, FS_Subset DEF ReadersAreOpen
    <3> QED
      BY <3>1, <3>2 DEF ids
  <2> HIDE DEF ids, dead
  <2>2. HealthNews(ids, "Dead") \in Seq(HealthItems)
        /\ \A good : Has(HealthNews(ids, "Dead"), good) <=> \E s \in ids : News(s, "Dead") \in good
    BY <2>1, HealthIsSaid DEF Healths
  <2> QED
    BY <2>1, <2>2, NewsAreTold DEF SaysFresh
<1>8. /\ stale \in Seq(HealthItems) /\ \A t : ~Has(stale, SaysFresh(t))
      /\ \A k \in silent : \A t \in running[k].refs : Has(stale, SaysSilent(t))
  <2> DEFINE ids == UNION {running[key].refs : key \in silent}
  <2>1. ids \in SUBSET Surfaces /\ IsFiniteSet(ids) /\ stale = HealthNews(ids, "Stale")
    <3>1. ids \in SUBSET DOMAIN readers /\ DOMAIN readers \in SUBSET Surfaces
      BY <1>6
    <3> HIDE DEF ids
    <3>2. IsFiniteSet(ids)
      BY <1>1, <3>1, FS_Subset DEF ReadersAreOpen
    <3> QED
      BY <3>1, <3>2 DEF ids
  <2>2. \A k \in silent : \A t \in running[k].refs : t \in ids
    OBVIOUS
  <2> HIDE DEF ids, stale, silent
  <2>3. HealthNews(ids, "Stale") \in Seq(HealthItems)
        /\ \A good : Has(HealthNews(ids, "Stale"), good) <=> \E s \in ids : News(s, "Stale") \in good
    BY <2>1, HealthIsSaid DEF Healths
  <2>4. \A t : ~Has(stale, SaysFresh(t))
    BY <2>1, <2>3, NewsAreTold DEF SaysFresh
  <2>5. \A t \in ids : Has(stale, SaysSilent(t))
    BY <2>1, <2>3 DEF SaysSilent
  <2> QED
    BY <2>1, <2>2, <2>3, <2>4, <2>5
<1>9. /\ said \in Seq(Items)
      /\ \A good : Has(said, good) <=> \E s \in DOMAIN data : ReadingNews(s, data[s]) \in good
  <2>1. IsFiniteSet(DOMAIN data)
    BY <1>1, <1>6, FS_Subset DEF ReadersAreOpen
  <2>2. data \in [DOMAIN data -> Readings] /\ DOMAIN data \subseteq Surfaces
    BY <1>1, <1>6 DEF NewsTyped
  <2> QED
    BY <2>1, <2>2, ReadingsAreSaid
<1> HIDE DEF dead, stale, said
<1> DEFINE more == dead \o stale
<1>10. /\ Owed \in Seq(Items) /\ health \in Seq(Items) /\ health \in Seq(HealthItems)
       /\ waiting \in Seq(Items) /\ news \in Seq(Items) /\ HealthItems \subseteq Items
  BY <1>1, OwedTyped DEF NewsTyped, Items
<1>11. /\ dead \in Seq(Items) /\ stale \in Seq(Items) /\ more \in Seq(Items)
       /\ more \in Seq(HealthItems)
  <2>1. dead \in Seq(Items) /\ stale \in Seq(Items)
    BY <1>7, <1>8, <1>10
  <2>2. dead \o stale \in Seq(HealthItems)
    BY <1>7, <1>8
  <2>3. dead \o stale \in Seq(Items)
    BY <2>1
  <2> QED
    BY <2>1, <2>2, <2>3
<1>12. /\ \A t : ~Has(more, SaysFresh(t))
       /\ \A k \in silent : \A t \in running[k].refs : Has(more, SaysSilent(t))
  <2>1. \A good : Has(dead \o stale, good) <=> (Has(dead, good) \/ Has(stale, good))
    BY <1>11, HasTogether
  <2> HIDE DEF silent
  <2> QED
    BY <1>7, <1>8, <2>1
<1>13. Owed' = ((Owed \o more) \o health) \o said /\ news' \in Seq(Items)
  <2>1. waiting \in Rows /\ news \in Rows /\ dead \in Rows /\ stale \in Rows /\ health \in Rows
        /\ said \in Rows
    BY <1>9, <1>10, <1>11 DEF Rows
  <2>2. more = Joined(dead, stale) /\ Owed = Joined(waiting, news)
    BY DEF Joined, Owed
  <2>3. news' = Joined(Joined(Joined(Joined(news, dead), stale), health), said)
    BY <1>3a DEF Joined
  <2>4. Owed' = Joined(waiting, news')
    BY <1>3 DEF Joined, Owed
  <2> HIDE DEF more
  <2>5. news' \in Rows /\ Owed' = Joined(Joined(Joined(Owed, more), health), said)
    BY <2>1, <2>2, <2>3, <2>4, InARow
  <2> QED
    BY <2>5 DEF Joined, Rows
<1> HIDE DEF more
<1>14. /\ Owed \o more \in Seq(Items) /\ (Owed \o more) \o health \in Seq(Items)
       /\ Owed' \in Seq(Items)
  BY <1>9, <1>10, <1>11, <1>13
<1>15. /\ DOMAIN running' = DOMAIN running \ buried
       /\ running' \in [DOMAIN running' -> Entries]
       /\ \A k \in DOMAIN running' :
            /\ k \in DOMAIN running
            /\ running'[k].pid = running[k].pid /\ running'[k].refs = running[k].refs
            /\ running'[k].last = running[k].last
            /\ running'[k].health = IF k \in silent THEN "Stale" ELSE running[k].health
  <2> HIDE DEF buried, silent
  <2> DEFINE after == TableAfter(running, buried, silent)
  <2>1. running \in [DOMAIN running -> Entries]
    BY <1>1 DEF TableTyped
  <2>2. Beaten(running, after, buried, silent)
    BY <2>1, TableBeaten
  <2>3. running' = after
    BY <1>4
  <2> HIDE DEF after
  <2> QED
    BY <2>2, <2>3 DEF Beaten
<1> HIDE DEF buried, silent
<1>16. TableTyped'
  <2>1. DOMAIN running' \subseteq DOMAIN running
    BY <1>15
  <2> QED
    BY <1>1, <1>3, <1>15, <2>1 DEF TableTyped
<1>17. NewsTyped'
  <2>1. data' \in [DOMAIN data' -> Readings]
    BY <1>3
  <2>2. health' \in Seq(HealthItems)
    BY <1>3
  <2> QED
    BY <1>1, <1>3, <1>13, <2>1, <2>2 DEF NewsTyped
<1>18. ReadersAreOpen'
  <2>1. DOMAIN data' \subseteq DOMAIN readers'
    BY <1>3
  <2>2. \A k \in DOMAIN running' : running'[k].refs \subseteq DOMAIN readers'
    BY <1>1, <1>3, <1>15 DEF ReadersAreOpen
  <2>3. \A s : Open(s)' <=> Open(s)
    BY <1>3 DEF Open
  <2> QED
    BY <1>1, <1>3, <2>1, <2>2, <2>3 DEF ReadersAreOpen
<1>19. ProcessesAreKnown'
  BY <1>1, <1>3, <1>15 DEF ProcessesAreKnown
<1>20. NoOrphans' /\ ReadByOpenPanels'
  <2>1. \A s : Open(s)' <=> Open(s)
    BY <1>3 DEF Open
  <2>2. ASSUME NEW p \in DOMAIN process', process'[p].state = "running"
        PROVE  process'[p].key \in DOMAIN running' /\ running'[process'[p].key].pid = p
    <3> DEFINE k == process[p].key
    <3>1. k \in DOMAIN running /\ running[k].pid = p /\ process[p].state = "running"
      BY <1>1, <1>3, <2>2 DEF NoOrphans
    <3>2. k \notin buried
      BY <1>5, <3>1
    <3> QED
      BY <1>3, <1>15, <3>1, <3>2
  <2>3. NoOrphans'
    BY <2>2 DEF NoOrphans
  <2>4. ReadByOpenPanels'
    BY <1>1, <1>3, <1>15, <2>1 DEF ReadByOpenPanels
  <2> QED
    BY <2>3, <2>4
<1>21. ReadersAreTold'
  <2> SUFFICES ASSUME NEW k \in DOMAIN running', running'[k].last # NoReading,
                      NEW t \in running'[k].refs
               PROVE  ToldLast(t, running'[k].last, <<>>, Owed', panel'[t].shown)
    BY <1>3 DEF ReadersAreTold
  <2> DEFINE last == running[k].last
             tail == health \o said
  <2>1. /\ ToldLast(t, last, data, Owed, panel[t].shown) /\ running'[k].last = last
        /\ panel' = panel
    BY <1>2, <1>3, <1>15 DEF ReadersAreTold
  <2>2. ~Has(said, Superseded(t, last))
    <3> SUFFICES ASSUME NEW s \in DOMAIN data, ReadingNews(s, data[s]) \in Superseded(t, last)
                 PROVE  FALSE
      BY <1>9
    <3>1. s = t /\ data[s] # last
      BY NewsAreTold DEF Superseded
    <3> QED
      BY <2>1, <3>1 DEF ToldLast
  <2>3. ~Has(health, Superseded(t, last)) /\ ~Has(more, Superseded(t, last))
    BY <1>10, <1>11, HealthIsNoReading
  <2> HIDE DEF last
  <2>4. CASE t \in DOMAIN data
    <3>1. ReadingNews(t, data[t]) \in Latest(t, last)
      BY <2>1, <2>4 DEF ToldLast, Latest
    <3>2. Has(said, Latest(t, last))
      BY <1>9, <2>4, <3>1
    <3>3. ToldLast(t, last, <<>>, ((Owed \o more) \o health) \o said, panel[t].shown)
      BY <1>9, <1>14, <2>2, <3>2, LastStaysTold
    <3> QED
      BY <1>13, <2>1, <3>3
  <2>5. CASE t \notin DOMAIN data
    <3>1. ToldLast(t, last, <<>>, Owed, panel[t].shown)
      BY <2>1, <2>5 DEF ToldLast
    <3>2. ToldLast(t, last, <<>>, Owed \o more, panel[t].shown)
      BY <1>10, <1>11, <2>3, <3>1, LastStaysTold
    <3>3. ToldLast(t, last, <<>>, (Owed \o more) \o health, panel[t].shown)
      BY <1>10, <1>14, <2>3, <3>2, LastStaysTold
    <3>4. ToldLast(t, last, <<>>, ((Owed \o more) \o health) \o said, panel[t].shown)
      BY <1>9, <1>14, <2>2, <3>3, LastStaysTold
    <3> QED
      BY <1>13, <2>1, <3>4
  <2> QED
    BY <2>4, <2>5
<1>22. SilenceIsTold'
  <2> SUFFICES ASSUME Patience # 0, NEW k \in DOMAIN running', running'[k].health = "Stale",
                      NEW t \in running'[k].refs
               PROVE  ToldSilent(t, Owed', panel[t].health)
    <3>1. \A q \in Seq(Items) : q \o <<>> = q
      OBVIOUS
    <3>2. Owed' \o health' = Owed'
      BY <1>3, <1>14, <3>1
    <3> QED
      BY <1>3, <3>2 DEF SilenceIsTold
  <2>1. k \in DOMAIN running /\ t \in running[k].refs /\ (k \in silent \/ running[k].health = "Stale")
    BY <1>15
  <2>2. ~Has(said, SaysFresh(t))
    <3> SUFFICES ASSUME NEW s \in DOMAIN data, ReadingNews(s, data[s]) \in SaysFresh(t)
                 PROVE  FALSE
      BY <1>9
    <3> QED
      BY NewsAreTold DEF SaysFresh
  <2>3. ToldSilent(t, (Owed \o more) \o health, panel[t].health)
    <3>1. CASE k \in silent
      <4>1. ~Has(health, SaysFresh(t))
        BY <1>2, <1>5, <2>1, <3>1 DEF FreshIsRecent
      <4>2. ToldSilent(t, Owed \o more, panel[t].health)
        BY <1>10, <1>11, <1>12, <2>1, <3>1, SilenceIsToldNow
      <4> QED
        BY <1>10, <1>14, <4>1, <4>2, SilenceStaysTold
    <3>2. CASE running[k].health = "Stale"
      <4>1. ToldSilent(t, Owed \o health, panel[t].health)
        BY <1>2, <2>1, <3>2 DEF SilenceIsTold
      <4> QED
        BY <1>10, <1>11, <1>12, <4>1, SilenceToldBetween
    <3> QED
      BY <2>1, <3>1, <3>2
  <2>4. ToldSilent(t, ((Owed \o more) \o health) \o said, panel[t].health)
    BY <1>9, <1>14, <2>2, <2>3, SilenceStaysTold
  <2> QED
    BY <1>13, <2>4
<1>23. FreshIsRecent' /\ NothingSaidOfNew'
  <2>1. \A good : ~Has(health', good)
    BY <1>3 DEF Has
  <2> QED
    BY <2>1 DEF FreshIsRecent, NothingSaidOfNew
<1> QED
  BY <1>16, <1>17, <1>18, <1>19, <1>20, <1>21, <1>22, <1>23 DEF BackendsInv, TableInv, ToldInv

-----------------------------------------------------------------------------
\* What a piece of news makes of the panels.
LEMMA ItemsAreNews ==
  ASSUME NEW one \in Items
  PROVE  /\ one.surface \in Surfaces
         /\ \/ \E w \in Healths : one = News(one.surface, w) /\ one.health = w /\ "health" \in DOMAIN one
            \/ \E r \in Readings : /\ one = ReadingNews(one.surface, r) /\ one.reading = r
                                  /\ "health" \notin DOMAIN one
<1>1. CASE one \in HealthItems
  BY <1>1 DEF HealthItems, News
<1>2. CASE one \in [surface : Surfaces, reading : Readings]
  BY <1>2 DEF ReadingNews
<1> QED
  BY <1>1, <1>2 DEF Items

LEMMA PanelTold ==
  ASSUME NEW p \in Shown
  PROVE  /\ \A what \in Healths :
              /\ HeardHealth(p, what) \in Shown /\ HeardHealth(p, what).life = p.life
              /\ HeardHealth(p, what).health = what /\ HeardHealth(p, what).shown = p.shown
         /\ \A r \in Readings :
              /\ HeardReading(p, r) \in Shown /\ HeardReading(p, r).life = p.life
              /\ HeardReading(p, r).health = p.health /\ HeardReading(p, r).shown = r
<1>1. ASSUME NEW what \in Healths
      PROVE  /\ HeardHealth(p, what) \in Shown /\ HeardHealth(p, what).life = p.life
             /\ HeardHealth(p, what).health = what /\ HeardHealth(p, what).shown = p.shown
  <2> DEFINE held == p.held /\ what # "Dead"
             e1 == [p EXCEPT !.health = what]
             e2 == [e1 EXCEPT !.held = held]
  <2>1. HeardHealth(p, what) = e2
    BY DEF HeardHealth, Shown
  <2>2. held \in BOOLEAN
    OBVIOUS
  <2> HIDE DEF held
  <2>3. e1 \in Shown /\ e1.life = p.life /\ e1.health = what /\ e1.shown = p.shown
    BY DEF Shown
  <2> HIDE DEF e1
  <2>4. e2 \in Shown /\ e2.life = e1.life /\ e2.health = e1.health /\ e2.shown = e1.shown
    BY <2>2, <2>3 DEF Shown
  <2> QED
    BY <2>1, <2>3, <2>4
<1>2. ASSUME NEW r \in Readings
      PROVE  /\ HeardReading(p, r) \in Shown /\ HeardReading(p, r).life = p.life
             /\ HeardReading(p, r).health = p.health /\ HeardReading(p, r).shown = r
  <2> DEFINE held == r.hold
             e1 == [p EXCEPT !.shown = r]
             e2 == [e1 EXCEPT !.held = held]
  <2>1. HeardReading(p, r) = e2
    BY DEF HeardReading, Shown
  <2>2. held \in BOOLEAN
    BY DEF Readings
  <2> HIDE DEF held
  <2>3. e1 \in Shown /\ e1.life = p.life /\ e1.health = p.health /\ e1.shown = r
    BY DEF Shown
  <2> HIDE DEF e1
  <2>4. e2 \in Shown /\ e2.life = e1.life /\ e2.health = e1.health /\ e2.shown = e1.shown
    BY <2>2, <2>3 DEF Shown
  <2> QED
    BY <2>1, <2>3, <2>4
<1> QED
  BY <1>1, <1>2

\* One panel alone is told, if it is open, and opens or closes for nothing.
PanelsTold(one) ==
  /\ panel' \in [Surfaces -> Shown]
  /\ \A s \in Surfaces : panel'[s].life = panel[s].life
  /\ \A s \in Surfaces : one.surface # s => panel'[s] = panel[s]
  /\ \A s \in Surfaces : Open(s) =>
       /\ \A w \in Healths : one = News(s, w) =>
            panel'[s].health = w /\ panel'[s].shown = panel[s].shown
       /\ \A r \in Readings : one = ReadingNews(s, r) =>
            panel'[s].shown = r /\ panel'[s].health = panel[s].health

LEMMA HeardByPanels ==
  ASSUME NewsTyped, NEW one \in Items, Heard(one)
  PROVE  PanelsTold(one)
<1> DEFINE s == one.surface
           p == panel[s]
           q == IF p.life # "open" THEN p
                ELSE IF "health" \in DOMAIN one THEN HeardHealth(p, one.health)
                ELSE HeardReading(p, one.reading)
<1>1. s \in Surfaces /\ panel \in [Surfaces -> Shown] /\ p \in Shown
  BY ItemsAreNews DEF NewsTyped
<1>2. panel' = [panel EXCEPT ![s] = q]
  BY DEF Heard
<1>3. q \in Shown /\ q.life = p.life
  BY <1>1, PanelTold, ItemsAreNews
<1>4. ASSUME Open(s), NEW w \in Healths, one = News(s, w)
      PROVE  q.health = w /\ q.shown = p.shown
  <2>1. "health" \in DOMAIN one /\ one.health = w
    BY <1>4 DEF News
  <2> QED
    BY <1>1, <1>4, <2>1, PanelTold DEF Open
<1>5. ASSUME Open(s), NEW r \in Readings, one = ReadingNews(s, r)
      PROVE  q.shown = r /\ q.health = p.health
  <2>1. "health" \notin DOMAIN one /\ one.reading = r
    BY <1>5 DEF ReadingNews
  <2> QED
    BY <1>1, <1>5, <2>1, PanelTold DEF Open
<1>6. \A t, w : (one = News(t, w) \/ one = ReadingNews(t, w)) => t = s
  BY DEF News, ReadingNews
<1> HIDE DEF q
<1>7. /\ panel' \in [Surfaces -> Shown] /\ panel'[s] = q
      /\ \A t \in Surfaces : t # s => panel'[t] = panel[t]
  BY <1>1, <1>2, <1>3
<1> QED
  BY <1>1, <1>3, <1>4, <1>5, <1>6, <1>7 DEF PanelsTold

\* The first of what waits in two rows.
LEMMA FirstOfTwo ==
  ASSUME NEW T, NEW q \in Seq(T), NEW r \in Seq(T), q # <<>>
  PROVE  Head(q \o r) = Head(q) /\ Tail(q \o r) = Tail(q) \o r /\ q \o r # <<>>
  OBVIOUS

\* The next piece of news is decided, here or behind: what is owed is less by
\* that one.
LEMMA HeardInOrder ==
  ASSUME BackendsInv, Owed # <<>>, Heard(Head(Owed)), Owed' = Tail(Owed),
         news' \in Seq(Items), waiting' \in Seq(Items), UNCHANGED backends
  PROVE  BackendsInv'
<1> DEFINE one == Head(Owed)
<1>1. TableTyped /\ NewsTyped /\ ReadersAreOpen /\ ProcessesAreKnown /\ NoOrphans /\ ReadByOpenPanels
  BY DEF BackendsInv, TableInv
<1>2. ReadersAreTold /\ SilenceIsTold /\ FreshIsRecent /\ NothingSaidOfNew
  BY DEF BackendsInv, ToldInv
<1>3. /\ running' = running /\ readers' = readers /\ data' = data /\ health' = health
      /\ process' = process /\ lines' = lines /\ failures' = failures
  BY DEF backends
<1>4. Owed \in Seq(Items) /\ health \in Seq(Items) /\ Owed \o health \in Seq(Items)
  BY <1>1, OwedTyped
<1>5. one \in Items /\ Tail(Owed) \in Seq(Items)
  BY <1>4
<1>6. PanelsTold(one)
  BY <1>1, <1>5, HeardByPanels
<1> HIDE DEF one
<1>7. \A s \in Surfaces : Open(s)' <=> Open(s)
  BY <1>6 DEF PanelsTold, Open
<1>8. \A k \in DOMAIN running : \A s \in running[k].refs :
        s \in Surfaces /\ Open(s) /\ running[k].last \in Readings
  BY <1>1 DEF TableTyped, Entries, ReadByOpenPanels
<1>9. TableTyped'
  BY <1>1, <1>3 DEF TableTyped
<1>10. NewsTyped'
  BY <1>1, <1>3, <1>6 DEF NewsTyped, PanelsTold
<1>11. DOMAIN readers \subseteq Surfaces
  BY <1>1 DEF TableTyped
<1>12. ReadersAreOpen'
  BY <1>1, <1>3, <1>7, <1>11 DEF ReadersAreOpen
<1>13. ProcessesAreKnown' /\ NoOrphans'
  BY <1>1, <1>3 DEF ProcessesAreKnown, NoOrphans
<1>14. ReadByOpenPanels'
  BY <1>1, <1>3, <1>7, <1>8 DEF ReadByOpenPanels
<1>15. ReadersAreTold'
  <2> SUFFICES ASSUME NEW k \in DOMAIN running, running[k].last # NoReading,
                      NEW s \in running[k].refs
               PROVE  ToldLast(s, running[k].last, data, Tail(Owed), panel'[s].shown)
    BY <1>3 DEF ReadersAreTold
  <2> DEFINE last == running[k].last
  <2>1. ToldLast(s, last, data, Owed, panel[s].shown)
    BY <1>2 DEF ReadersAreTold
  <2>2. s \in Surfaces /\ Open(s) /\ last \in Readings
    BY <1>8
  <2> HIDE DEF last
  <2>3. CASE s \in DOMAIN data
    BY <2>1, <2>3 DEF ToldLast, last
  <2>4. CASE s \notin DOMAIN data
    <3> DEFINE bad == Superseded(s, last)
               good == Latest(s, last)
    <3>1. MadeGood(Owed, bad, good) /\ (panel[s].shown = last \/ Has(Owed, good))
      BY <2>1, <2>4 DEF ToldLast
    <3>2. \A r \in Readings : ReadingNews(s, r) \in bad \/ r = last
      BY DEF Superseded
    <3>3. ReadingNews(s, last) \in good /\ \A x \in good : x = ReadingNews(s, last)
      BY DEF Latest
    <3> HIDE DEF bad, good
    <3>4. /\ MadeGood(Tail(Owed), bad, good)
          /\ one \in bad => Has(Tail(Owed), good)
          /\ Has(Owed, good) => one \in good \/ Has(Tail(Owed), good)
      BY <1>4, <3>1, MadeGoodTaken DEF one
    <3>5. one \in good => panel'[s].shown = last
      BY <1>6, <2>2, <3>3 DEF PanelsTold
    <3>6. one \in bad \/ one \in good \/ panel'[s].shown = panel[s].shown
      <4>1. CASE \E r \in Readings : one = ReadingNews(s, r)
        BY <3>2, <3>3, <4>1
      <4>2. CASE \E w \in Healths : one = News(s, w)
        BY <1>6, <2>2, <4>2 DEF PanelsTold
      <4>3. CASE one.surface # s
        BY <1>6, <2>2, <4>3 DEF PanelsTold
      <4> QED
        BY <1>5, <4>1, <4>2, <4>3, ItemsAreNews
    <3>7. panel'[s].shown = last \/ Has(Tail(Owed), good)
      BY <3>1, <3>4, <3>5, <3>6
    <3> QED
      BY <2>4, <3>4, <3>7 DEF ToldLast, bad, good, last
  <2> QED
    BY <2>3, <2>4
<1>16. SilenceIsTold'
  <2> DEFINE q == Owed \o health
  <2>1. q # <<>> /\ Head(q) = one /\ Owed' \o health' = Tail(q) /\ q \in Seq(Items)
    BY <1>3, <1>4, FirstOfTwo DEF one
  <2> SUFFICES ASSUME Patience # 0, NEW k \in DOMAIN running, running[k].health = "Stale",
                      NEW s \in running[k].refs
               PROVE  ToldSilent(s, Tail(q), panel'[s].health)
    BY <1>3, <2>1 DEF SilenceIsTold
  <2> DEFINE bad == SaysFresh(s)
             good == SaysSilent(s)
  <2>2. ToldSilent(s, q, panel[s].health)
    BY <1>2 DEF SilenceIsTold
  <2>3. s \in Surfaces /\ Open(s)
    BY <1>8
  <2>4. \A w \in Healths : News(s, w) \in bad \/ News(s, w) \in good
    BY DEF SaysFresh, SaysSilent, Healths
  <2>5. \A x \in good : \E w \in Healths : x = News(s, w) /\ w # "Fresh"
    BY DEF SaysSilent, Healths
  <2> HIDE DEF q
  <2>6. MadeGood(q, bad, good) /\ (panel[s].health # "Fresh" \/ Has(q, good))
    BY <2>2 DEF ToldSilent
  <2> HIDE DEF bad, good
  <2>7. /\ MadeGood(Tail(q), bad, good)
        /\ one \in bad => Has(Tail(q), good)
        /\ Has(q, good) => one \in good \/ Has(Tail(q), good)
    BY <2>1, <2>6, MadeGoodTaken
  <2>8. one \in good => panel'[s].health # "Fresh"
    BY <1>6, <2>3, <2>5 DEF PanelsTold
  <2>9. one \in bad \/ one \in good \/ panel'[s].health = panel[s].health
    <3>1. CASE \E w \in Healths : one = News(s, w)
      BY <2>4, <3>1
    <3>2. CASE \E r \in Readings : one = ReadingNews(s, r)
      BY <1>6, <2>3, <3>2 DEF PanelsTold
    <3>3. CASE one.surface # s
      BY <1>6, <2>3, <3>3 DEF PanelsTold
    <3> QED
      BY <1>5, <3>1, <3>2, <3>3, ItemsAreNews
  <2>10. panel'[s].health # "Fresh" \/ Has(Tail(q), good)
    BY <2>6, <2>7, <2>8, <2>9
  <2> QED
    BY <2>7, <2>10 DEF ToldSilent, bad, good
<1>17. FreshIsRecent'
  BY <1>2, <1>3 DEF FreshIsRecent
<1>18. NothingSaidOfNew'
  BY <1>2, <1>3, <1>6 DEF NothingSaidOfNew, PanelsTold
<1> QED
  BY <1>9, <1>10, <1>12, <1>13, <1>14, <1>15, <1>16, <1>17, <1>18 DEF BackendsInv, TableInv, ToldInv

\* Nothing happens to the panels, the processes or the order of what is owed.
LEMMA StillInOrder ==
  ASSUME BackendsInv, Owed' = Owed, news' \in Seq(Items), waiting' \in Seq(Items),
         UNCHANGED <<panel, backends>>
  PROVE  BackendsInv'
<1>1. TableTyped /\ NewsTyped /\ ReadersAreOpen /\ ProcessesAreKnown /\ NoOrphans /\ ReadByOpenPanels
  BY DEF BackendsInv, TableInv
<1>2. ReadersAreTold /\ SilenceIsTold /\ FreshIsRecent /\ NothingSaidOfNew
  BY DEF BackendsInv, ToldInv
<1>3. /\ running' = running /\ readers' = readers /\ data' = data /\ health' = health
      /\ process' = process /\ lines' = lines /\ failures' = failures /\ panel' = panel
  BY DEF backends
<1>4. \A s : Open(s)' <=> Open(s)
  BY <1>3 DEF Open
<1>5. TableTyped' /\ NewsTyped'
  BY <1>1, <1>3 DEF TableTyped, NewsTyped
<1>6. ReadersAreOpen' /\ ReadByOpenPanels'
  BY <1>1, <1>3, <1>4 DEF ReadersAreOpen, ReadByOpenPanels
<1>7. ProcessesAreKnown' /\ NoOrphans'
  BY <1>1, <1>3 DEF ProcessesAreKnown, NoOrphans
<1>8. ReadersAreTold' /\ SilenceIsTold'
  BY <1>2, <1>3 DEF ReadersAreTold, SilenceIsTold
<1>9. FreshIsRecent' /\ NothingSaidOfNew'
  BY <1>2, <1>3 DEF FreshIsRecent, NothingSaidOfNew
<1> QED
  BY <1>5, <1>6, <1>7, <1>8, <1>9 DEF BackendsInv, TableInv, ToldInv

LEMMA HearInOrder ==
  ASSUME BackendsInv, Hear PROVE BackendsInv'
<1>1. news \in Seq(Items) /\ waiting \in Seq(Items)
  BY DEF BackendsInv, TableInv, NewsTyped
<1>2. /\ news # <<>> /\ news' = Tail(news) /\ UNCHANGED backends
      /\ Head(news) \in Items /\ Tail(news) \in Seq(Items)
  BY <1>1 DEF Hear
<1>3. CASE Free /\ Heard(Head(news)) /\ UNCHANGED waiting
  <2>1. waiting = <<>> /\ waiting' = <<>>
    BY <1>3 DEF Free
  <2>2. \A q \in Seq(Items) : <<>> \o q = q
    OBVIOUS
  <2>3. Owed = news /\ Owed' = Tail(news)
    BY <1>1, <1>2, <2>1, <2>2 DEF Owed
  <2> QED
    BY <1>1, <1>2, <1>3, <2>1, <2>3, HeardInOrder
<1>4. CASE ~Free /\ waiting' = Append(waiting, Head(news)) /\ UNCHANGED panel
  <2>1. Owed' = Owed
    BY <1>1, <1>2, <1>4 DEF Owed
  <2>2. waiting' \in Seq(Items)
    BY <1>1, <1>2, <1>4
  <2> QED
    BY <1>1, <1>2, <1>4, <2>1, <2>2, StillInOrder
<1> QED
  BY <1>3, <1>4 DEF Hear

LEMMA WorkInOrder ==
  ASSUME BackendsInv, Work PROVE BackendsInv'
<1>1. news \in Seq(Items) /\ waiting \in Seq(Items)
  BY DEF BackendsInv, TableInv, NewsTyped
<1>2. /\ waiting # <<>> /\ waiting' = Tail(waiting) /\ Heard(Head(waiting))
      /\ UNCHANGED backends /\ news' = news /\ Tail(waiting) \in Seq(Items)
  BY <1>1 DEF Work
<1>3. Head(Owed) = Head(waiting) /\ Tail(Owed) = Tail(waiting) \o news /\ Owed # <<>>
  BY <1>1, <1>2, FirstOfTwo DEF Owed
<1>4. Owed' = Tail(Owed)
  BY <1>2, <1>3 DEF Owed
<1> QED
  BY <1>1, <1>2, <1>3, <1>4, HeardInOrder

-----------------------------------------------------------------------------
LEMMA BackendsStart ==
  ASSUME Init PROVE BackendsInv
<1>1. /\ running = <<>> /\ readers = <<>> /\ data = <<>> /\ health = <<>> /\ news = <<>>
      /\ waiting = <<>> /\ process = <<>> /\ lines = 0
      /\ panel = [s \in Surfaces |-> [life |-> "new", health |-> "Fresh", held |-> FALSE,
                                      shown |-> NoReading]]
  BY DEF Init
<1>2. DOMAIN running = {} /\ DOMAIN readers = {} /\ DOMAIN data = {} /\ DOMAIN process = {}
  BY <1>1
<1>3. \A T : <<>> \in Seq(T) /\ <<>> \in [{} -> T]
  OBVIOUS
<1>4. MaxProcesses \in Nat /\ MaxLines \in Nat
  BY BackendsAssumption
<1>5. TableTyped
  BY <1>1, <1>2, <1>3, <1>4 DEF TableTyped
<1>6. NewsTyped
  BY <1>1, <1>2, <1>3, NothingRead DEF NewsTyped, Shown, Healths
<1>7. \A s \in Surfaces : ~Open(s)
  BY <1>1 DEF Open
<1>8. ReadersAreOpen
  BY <1>2, <1>7, FS_EmptySet DEF ReadersAreOpen
<1>9. ProcessesAreKnown /\ NoOrphans /\ ReadByOpenPanels /\ ReadersAreTold /\ SilenceIsTold /\ FreshIsRecent
  BY <1>2 DEF ProcessesAreKnown, NoOrphans, ReadByOpenPanels, ReadersAreTold, SilenceIsTold,
              FreshIsRecent
<1>10. NothingSaidOfNew
  BY <1>1 DEF NothingSaidOfNew, Has
<1> QED
  BY <1>5, <1>6, <1>8, <1>9, <1>10 DEF BackendsInv, TableInv, ToldInv

LEMMA BackendsStep ==
  ASSUME BackendsInv, [Next]_vars PROVE BackendsInv'
<1>1. ASSUME NEW s \in Surfaces, OpenPanel(s) PROVE BackendsInv'
  BY <1>1, OpenPanelInOrder
<1>2. ASSUME NEW s \in Surfaces, Retire(s) PROVE BackendsInv'
  BY <1>2, RetireInOrder
<1>3. ASSUME NEW s \in Surfaces, RestartPanel(s) PROVE BackendsInv'
  BY <1>3, RestartPanelInOrder
<1>4. ASSUME NEW p \in DOMAIN process, Writes(p) PROVE BackendsInv'
  BY <1>4, WritesInOrder
<1>5. ASSUME NEW p \in DOMAIN process, Exits(p) PROVE BackendsInv'
  BY <1>5, ExitsInOrder
<1>6. ASSUME NEW p \in DOMAIN process, Read(p) PROVE BackendsInv'
  BY <1>6, ReadInOrder
<1>7. CASE Beat
  BY <1>7, BeatInOrder
<1>8. CASE Hear
  BY <1>8, HearInOrder
<1>9. CASE Work
  BY <1>9, WorkInOrder
<1>10. CASE TakeTurn \/ TurnDone \/ UNCHANGED vars
  <2>1. UNCHANGED <<panel, news, waiting, backends>>
    BY <1>10 DEF TakeTurn, TurnDone, vars, backends
  <2>2. news \in Seq(Items) /\ waiting \in Seq(Items)
    BY DEF BackendsInv, TableInv, NewsTyped
  <2> QED
    BY <2>1, <2>2, StillInOrder DEF Owed
<1> QED
  BY <1>1, <1>2, <1>3, <1>4, <1>5, <1>6, <1>7, <1>8, <1>9, <1>10 DEF Next

\* The table agrees with the processes, and what is on its way to the panels
\* with the table, always.
THEOREM BackendsInvariant == Spec => []BackendsInv
<1>1. Init => BackendsInv
  BY BackendsStart
<1>2. BackendsInv /\ [Next]_vars => BackendsInv'
  BY BackendsStep
<1> QED
  BY <1>1, <1>2, PTL DEF Spec

\* Nothing runs that the table does not know, and nothing is in it that no open
\* panel reads: the table counts its panels and its processes right, whatever
\* exits, will not start, or is started over (subscribe, unsubscribe, restart,
\* drain).
THEOREM NothingIsLeftRunning == Spec => []TableIsSound
<1>1. BackendsInv => TableIsSound
  BY DEF BackendsInv, TableInv, TableIsSound
<1> QED
  BY <1>1, BackendsInvariant, PTL

\* Once nothing is on its way, nothing is owed.
LEMMA NothingOwed ==
  ASSUME NewsTyped, Settled
  PROVE  Owed = <<>> /\ health = <<>> /\ DOMAIN data = {}
<1>1. news \in Seq(Items) /\ waiting \in Seq(Items) /\ news \o waiting = <<>>
  BY DEF NewsTyped, Settled
<1>2. \A q \in Seq(Items), r \in Seq(Items) : q \o r = <<>> => q = <<>> /\ r = <<>>
  OBVIOUS
<1>3. news = <<>> /\ waiting = <<>>
  BY <1>1, <1>2
<1>4. waiting \o news = <<>>
  BY <1>3
<1> QED
  BY <1>4 DEF Settled, Owed

\* What is told in the end is shown: the last thing said, to every panel that
\* reads the backend (read, subscribe, drain, feed).
LEMMA LatestIsShown == ASSUME BackendsInv PROVE LatestShown
<1> SUFFICES ASSUME Settled, NEW key \in DOMAIN running, running[key].last # NoReading,
                    NEW s \in running[key].refs
             PROVE  panel[s].shown = running[key].last
  BY DEF LatestShown
<1>1. ToldLast(s, running[key].last, data, Owed, panel[s].shown)
  BY DEF BackendsInv, ToldInv, ReadersAreTold
<1>2. Owed = <<>> /\ s \notin DOMAIN data
  BY NothingOwed DEF BackendsInv, TableInv
<1>3. ~Has(Owed, Latest(s, running[key].last))
  BY <1>2 DEF Has
<1> QED
  BY <1>1, <1>2, <1>3 DEF ToldLast

\* And no silence is passed off as fresh (drain, subscribe).
LEMMA SilenceIsSeen == ASSUME BackendsInv, BeatsInTime PROVE SilenceIsShown
<1> SUFFICES ASSUME Settled, NEW key \in DOMAIN running, NEW s \in running[key].refs,
                    running[key].health # "Fresh"
             PROVE  panel[s].health # "Fresh"
  BY DEF SilenceIsShown
<1>1. running[key].health = "Stale"
  BY DEF BackendsInv, TableInv, TableTyped, Entries
<1>2. ToldSilent(s, Owed \o health, panel[s].health)
  BY <1>1 DEF BackendsInv, ToldInv, SilenceIsTold, BeatsInTime
<1>3. Owed = <<>> /\ health = <<>>
  BY NothingOwed DEF BackendsInv, TableInv
<1>4. Owed \o health = <<>>
  BY <1>3
<1>5. ~Has(Owed \o health, SaysSilent(s))
  BY <1>4 DEF Has
<1> QED
  BY <1>2, <1>5 DEF ToldSilent

LEMMA BackendsTyped == ASSUME BackendsInv PROVE TypeOK
<1>1. TableTyped /\ NewsTyped /\ ReadersAreOpen /\ ProcessesAreKnown
  BY DEF BackendsInv, TableInv
<1>2. \A s \in Surfaces : /\ panel[s].life \in {"new", "open", "gone"}
                         /\ panel[s].health \in Healths /\ panel[s].held \in BOOLEAN
  BY <1>1 DEF NewsTyped, Shown
<1>3. /\ DOMAIN running \subseteq Keys
      /\ \A key \in DOMAIN running : /\ running[key].pid \in DOMAIN process
                                    /\ running[key].health \in {"Fresh", "Stale"}
  BY <1>1 DEF TableTyped, ProcessesAreKnown, Entries
<1> QED
  BY <1>1, <1>2, <1>3 DEF TypeOK, TableTyped, ReadersAreOpen

\* A panel shows the last reading of the backend it reads, whenever nothing is
\* on its way to it, those that joined late or were started over too.
THEOREM TheLatestIsShown == Spec => []LatestShown
<1>1. BackendsInv => LatestShown
  BY LatestIsShown
<1> QED
  BY <1>1, BackendsInvariant, PTL

\* What a panel shows of a live backend is what the backend said last, and
\* silence is not passed off as fresh, if no beat comes later than a backend's
\* whole patience.
THEOREM PanelsAreToldRight == BeatsInTime => (Spec => []PanelsAreTold)
<1> SUFFICES ASSUME BeatsInTime PROVE Spec => []PanelsAreTold
  OBVIOUS
<1>1. BackendsInv => PanelsAreTold
  BY LatestIsShown, SilenceIsSeen, BackendsTyped DEF PanelsAreTold
<1> QED
  BY <1>1, BackendsInvariant, PTL

\* A process started over takes all who read the one before along with it
\* (restart).
THEOREM RestartTakesThemAll == Spec => RestartTakesAll
<1> DEFINE All == \A key \in DOMAIN running \cap DOMAIN running' :
                    running'[key].pid # running[key].pid => running'[key].refs = ReadersOf(key)
<1>1. BackendsInv /\ [Next]_vars => All
  <2> SUFFICES ASSUME BackendsInv, [Next]_vars PROVE All
    OBVIOUS
  <2>1. TableTyped
    BY DEF BackendsInv, TableInv
  <2>2. ASSUME NEW s \in Surfaces, RestartPanel(s) PROVE All
    <3> DEFINE key == readers[s]
    <3>1. \/ /\ running' = With(Without(running, {key}), key,
                    [pid |-> Len(Stopped(process, key)) + 1, refs |-> ReadersOf(key), quiet |-> 0,
                     health |-> "Fresh", last |-> NoReading])
          \/ running' = Without(running, {key})
      BY <2>2 DEF RestartPanel, Raise, BroughtBack
    <3>2. ReadersOf(key)' = ReadersOf(key)
      BY <2>2 DEF RestartPanel, ReadersOf
    <3> DEFINE new == [pid |-> Len(Stopped(process, key)) + 1, refs |-> ReadersOf(key), quiet |-> 0,
                       health |-> "Fresh", last |-> NoReading]
    <3>3. running' = With(Without(running, {key}), key, new) \/ running' = Without(running, {key})
      BY <3>1
    <3>4. new.refs = ReadersOf(key)
      OBVIOUS
    <3> HIDE DEF key, new
    <3>5. \A k \in DOMAIN running \cap DOMAIN running' :
            running'[k] = running[k] \/ (k = key /\ running'[k] = new)
      BY <3>3 DEF With, Without, Restrict
    <3> QED
      BY <3>2, <3>4, <3>5
  <2>3. ASSUME NEW s \in Surfaces, OpenPanel(s) PROVE All
    <3>1. \/ running' = [running EXCEPT ![Question[s]].refs = @ \cup {s}] /\ Question[s] \in DOMAIN running
          \/ /\ Question[s] \notin DOMAIN running
             /\ \/ running' = running
                \/ running' = With(running, Question[s],
                      [pid |-> Len(process) + 1, refs |-> {s}, quiet |-> 0, health |-> "Fresh",
                       last |-> NoReading])
      BY <2>3 DEF OpenPanel, Raise
    <3>2. CASE Question[s] \in DOMAIN running /\
               running' = [running EXCEPT ![Question[s]].refs = @ \cup {s}]
      <4> DEFINE refs == running[Question[s]].refs \cup {s}
      <4>1. refs \in SUBSET Surfaces /\ running' = [running EXCEPT ![Question[s]].refs = refs]
        BY <2>1, <3>2 DEF TableTyped, Entries
      <4> HIDE DEF refs
      <4> QED
        BY <2>1, <3>2, <4>1, RefsChange
    <3>3. CASE Question[s] \notin DOMAIN running
      BY <3>1, <3>3 DEF With
    <3> QED
      BY <3>1, <3>2, <3>3
  <2>4. ASSUME NEW s \in Surfaces, Retire(s) PROVE All
    <3>1. Leave(s) /\ Open(s)
      BY <2>4 DEF Retire
    <3>2. TableInv /\ s \in DOMAIN readers
      BY <3>1 DEF BackendsInv, TableInv, ReadersAreOpen
    <3> QED
      BY <3>1, <3>2, LeaveInOrder
  <2>5. ASSUME NEW p \in DOMAIN process, Read(p) PROVE All
    <3> DEFINE line == Head(process[p].unread)
               key == process[p].key
    <3>1. CASE key \notin DOMAIN running
      BY <2>5, <3>1 DEF Read
    <3>2. CASE key \in DOMAIN running
      <4>1. running' = [running EXCEPT ![key].quiet = 0, ![key].health = "Fresh", ![key].last = line]
        BY <2>5, <3>2 DEF Read
      <4>2. process[p].unread \in Seq(Readings) /\ process[p].unread # <<>>
        <5>1. process[p] \in Processes
          BY <2>1 DEF TableTyped
        <5> QED
          BY <2>5, <5>1 DEF Read, Processes
      <4>3. line \in Readings
        BY <4>2
      <4> HIDE DEF line, key
      <4>4. \A k \in DOMAIN running : running'[k].pid = running[k].pid
        BY <2>1, <3>2, <4>1, <4>3, EntrySpeaks
      <4> QED
        BY <4>4
    <3> QED
      BY <3>1, <3>2
  <2>6. CASE Beat
    <3>1. \A k \in DOMAIN running \cap DOMAIN running' : running'[k].pid = running[k].pid
      <4> DEFINE buried == {key \in DOMAIN running : Exited(key)}
                 silent == {key \in DOMAIN running \ buried : Overdue(key)}
                 after == TableAfter(running, buried, silent)
      <4>1. running' = after
        BY <2>6 DEF Beat, TableAfter, AfterBeat
      <4> HIDE DEF buried, silent
      <4>2. Beaten(running, after, buried, silent)
        BY <2>1, TableBeaten DEF TableTyped
      <4> HIDE DEF after
      <4> QED
        BY <4>1, <4>2 DEF Beaten
    <3> QED
      BY <3>1
  <2>7. CASE UNCHANGED running
    BY <2>7
  <2> QED
    BY <2>2, <2>3, <2>4, <2>5, <2>6, <2>7
    DEF Next, Writes, Exits, Hear, Work, TakeTurn, TurnDone, backends, vars
<1> QED
  BY <1>1, BackendsInvariant, PTL DEF Spec, RestartTakesAll
=============================================================================
