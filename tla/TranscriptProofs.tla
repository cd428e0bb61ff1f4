--------------------------- MODULE TranscriptProofs ---------------------------
(****************************************************************************)
(* Dictated words are safe, for any number of dictations, sends, faults and *)
(* deaths of the desktop's process.                                         *)
(*                                                                          *)
(* TInv says what the pill, the hands of the threads, the record on disk,   *)
(* the wire, the answers and the conversation agree on.  Most steps add no  *)
(* words anywhere: QuietKeeps shows each part of TInv for all of them.  The *)
(* steps that bring words into the world or take them out of it - a         *)
(* transcript, a save, a send, a handled event, a delivery, a death - are   *)
(* shown part by part.                                                      *)
(****************************************************************************)
EXTENDS DesktopTranscript, FiniteSetTheorems, TLAPS

-----------------------------------------------------------------------------
(* What stays true of dictated words.                                       *)

VoiceActs == {"start", "stop", "discard", "cancel"}
ActKinds == VoiceActs \cup {"persist", "submit", "forget", "clear"}
Acts == [kind : ActKinds, id : 0..MaxDictations, text : Texts \cup {Empty}]
LateKinds == {"submission_failed", "submission_uncertain", "recording_failed"}
AnswerKinds == {"acknowledged", "submission_failed"}
Messages == [id : Ids, text : Texts, attempt : Nat]

TranscriptTypes ==
  /\ running \in {"down", "starting", "up"}
  /\ companion \in Companions /\ companion.commands \in 0..MaxDictations
  /\ companion.id \in 0..MaxDictations
  /\ doing \in [Threads -> Seq(Acts)] /\ left \in Seq(Seq(Acts))
  /\ voice \in {"off", "recording", "finishing"}
  /\ disk \in {NoRecord} \cup {Tombstone(id) : id \in Ids}
              \cup {Record(id, text) : id \in Ids, text \in Texts}
  /\ attempts \in 0..MaxSends
  /\ late \in SUBSET [kind : LateKinds, id : 0..MaxDictations, text : {Empty}]
  /\ answers \in SUBSET [kind : AnswerKinds, id : Ids, text : {Empty}]
  /\ wire \in SUBSET Messages /\ IsFiniteSet(wire)
  /\ \A m \in wire : m.attempt <= attempts
  /\ timers \in SUBSET [id : Ids, attempt : Nat]
  /\ taken \in [Ids -> Seq(Texts)] /\ asked \in [Ids -> Nat]
  /\ fate \in [Ids -> {"unspoken", "spoken", "stored", "settled", "discarded", "abandoned", "dropped"}]

\* Which thread carries out what.
Threaded(t) ==
  CASE t = "page" -> {"persist", "submit", "forget", "discard", "cancel"}
    [] t = "keys" -> {"forget", "discard", "cancel"}
    [] t = "link" -> {"clear"}
    [] OTHER -> VoiceActs \cup {"persist"}

Proper(t, s) ==
  /\ Len(s) <= (IF t = "page" THEN 2 ELSE 1)
  /\ \A k \in 1..Len(s) : s[k].kind \in Threaded(t)
  /\ t = "page" /\ Len(s) = 1 => s[1].kind # "persist"
  /\ t = "page" /\ Len(s) = 2 =>
       /\ s[1].kind = "persist" /\ s[2].kind = "submit"
       /\ s[1].id = s[2].id /\ s[1].text = s[2].text
Follower(s) == Len(s) <= 1 /\ \A k \in 1..Len(s) : s[k].kind \in VoiceActs \cup {"persist"}

Agenda ==
  /\ \A t \in Threads : Proper(t, doing[t])
  /\ \A i \in 1..Len(left) : Follower(left[i])

\* A process that is not up has nothing in hand.
Unstarted ==
  running # "up" =>
    /\ Idle /\ companion = [Fresh EXCEPT !.commands = companion.commands]
    /\ late = {} /\ timers = {} /\ wire = {} /\ answers = {} /\ voice = "off"

HandOf(D, L) ==
  {a \in Acts : \/ \E t \in Threads : \E k \in 1..Len(D[t]) : a = D[t][k]
                \/ \E i \in 1..Len(L) : \E k \in 1..Len(L[i]) : a = L[i][k]}
InHand == HandOf(doing, left)
PendingKind(kinds) == \E a \in InHand : a.kind \in kinds

Held == companion.phase \in Holding

\* The actions that are about words.
Wording == {"persist", "submit", "forget", "clear"}
\* A save some thread beside the page's is to make.
SavedAside ==
  \/ \E k \in 1..Len(doing["window"]) : doing["window"][k].kind = "persist"
  \/ \E i \in 1..Len(left) : \E k \in 1..Len(left[i]) : left[i][k].kind = "persist"
\* The words of this action are on disk and go out next.
Ready(a) == doing["page"] # <<>> /\ doing["page"][1] = a /\ a.kind = "submit"

\* What the companion holds in each phase, and what may be pending then.
Phased ==
  /\ Held => companion.id \in 1..companion.commands /\ companion.text \in Texts
  /\ ~Held => companion.id = NoId
  /\ companion.phase \notin {"sent", "retained"} => companion.delivery = "refused"
  /\ companion.phase \in {"listening", "transcribing"} => companion.commands < MaxDictations
  /\ companion.phase \in {"listening", "transcribing", "failed"} => ~PendingKind(Wording)
  /\ PendingKind({"forget", "clear"}) => companion.phase = "resting"
  /\ PendingKind({"forget"}) => ~PendingKind({"persist", "submit", "clear"})
  /\ companion.phase = "sent" => ~SavedAside
  /\ \A t, u \in Threads :
       doing[t] # <<>> /\ doing[u] # <<>> /\ doing[t][1].kind = "forget" /\ doing[u][1].kind = "forget"
         => t = u

\* Whatever is about words is about the same ones, those held if any are.
Together ==
  /\ \A a, b \in InHand :
       a.kind \in {"persist", "submit", "forget"} /\ b.kind \in {"persist", "submit", "forget"}
         => a.id = b.id /\ a.text = b.text
  /\ \A a \in InHand : a.kind \in {"persist", "submit"} /\ Held =>
       a.id = companion.id /\ a.text = companion.text

\* Nothing is about words not spoken yet.
Known ==
  /\ \A a \in InHand : a.kind \in {"persist", "submit", "forget"} =>
       /\ a.id \in 1..companion.commands
       /\ a.kind # "forget" => a.text \in Texts
  /\ \A m \in wire : m.id <= companion.commands
  /\ \A m \in timers : m.id <= companion.commands
  /\ \A e \in late : e.id <= companion.commands
  /\ \A e \in answers : e.id <= companion.commands
  /\ disk.id <= companion.commands
  /\ \A id \in Ids : id > companion.commands =>
       taken[id] = <<>> /\ asked[id] = 0 /\ fate[id] = "unspoken"
  /\ attempts = MaxSends => ~PendingKind({"submit"})

\* Where words that are still needed are.
Needed(id) == fate[id] \in {"spoken", "stored"}
Fates ==
  /\ \A id \in Ids : fate[id] = "stored" => disk.id = id /\ ~disk.discarded
  /\ \A id \in Ids : fate[id] = "spoken" => running = "up"
  /\ \A id \in Ids : running = "up" /\ Needed(id) =>
       \/ Held /\ companion.id = id
       \/ \E a \in InHand : a.kind = "forget" /\ a.id = id
  /\ Held => fate[companion.id] # "discarded"
  /\ disk.id # NoId /\ ~disk.discarded => fate[disk.id] # "discarded"
  /\ \A a \in InHand : a.kind \in {"persist", "submit"} => fate[a.id] # "discarded"
  /\ \A m \in wire : fate[m.id] # "spoken"
  /\ \A a \in InHand : Ready(a) => fate[a.id] # "spoken"
  /\ \A e \in answers : e.kind = "acknowledged" => taken[e.id] # <<>>
  /\ \A id \in Ids : fate[id] = "settled" => taken[id] # <<>>

\* How often words have gone out or are about to.
Due(id) == IF \E a \in InHand : a.kind = "submit" /\ a.id = id THEN 1 ELSE 0
OnWire(id) == {m \in wire : m.id = id}
Spent(id) == Len(taken[id]) + Cardinality(OnWire(id)) + Due(id)
FailedLate(id) == IF Event("submission_failed", id, Empty) \in late THEN 1 ELSE 0
FailedAnswer(id) == IF Event("submission_failed", id, Empty) \in answers THEN 1 ELSE 0
Counted ==
  /\ \A id \in Ids : Spent(id) <= 1 + asked[id]
  /\ \A id \in Ids : Held /\ companion.id = id /\ companion.delivery = "refused" =>
       /\ asked[id] = 0
       /\ Spent(id) + FailedLate(id) + FailedAnswer(id) <= (IF companion.phase = "sent" THEN 1 ELSE 0)

\* In which words.
Out(id, text) ==
  \/ \E m \in wire : m.id = id /\ m.text = text
  \/ \E k \in 1..Len(taken[id]) : taken[id][k] = text
Worded ==
  /\ \A id \in Ids : \A x, y \in Texts : Out(id, x) /\ Out(id, y) => x = y
  /\ \A x \in Texts : disk.id # NoId /\ ~disk.discarded /\ Out(disk.id, x) => disk.text = x
  /\ \A x \in Texts : Held /\ Out(companion.id, x) => companion.text = x
  /\ \A a \in InHand : \A x \in Texts :
       a.kind \in {"persist", "submit"} /\ Out(a.id, x) => a.text = x
  /\ \A a \in InHand : Ready(a) /\ disk.id = a.id /\ ~disk.discarded => disk.text = a.text

WordsInv == Phased /\ Together /\ Known /\ Fates /\ Counted /\ Worded
TInv == TranscriptTypes /\ Agenda /\ Unstarted /\ WordsInv

LEMMA PillFits == TranscriptTypes => companion \in Companions
  BY DEF TranscriptTypes

\* What is left to show of the types for a step that leaves the pill, the disk
\* and what was asked alone.
LEMMA KeptTypes ==
  ASSUME TranscriptTypes, UNCHANGED <<running, companion, disk, attempts, asked, fate>>,
         doing' \in [Threads -> Seq(Acts)], left' \in Seq(Seq(Acts)),
         voice' \in {"off", "recording", "finishing"}, wire' \subseteq wire,
         late' \in SUBSET [kind : LateKinds, id : 0..MaxDictations, text : {Empty}],
         answers' \in SUBSET [kind : AnswerKinds, id : Ids, text : {Empty}],
         timers' \in SUBSET [id : Ids, attempt : Nat], taken' \in [Ids -> Seq(Texts)]
  PROVE  TranscriptTypes'
<1>1. /\ running' = running /\ companion' = companion /\ disk' = disk /\ attempts' = attempts
      /\ asked' = asked /\ fate' = fate
  OBVIOUS
<1>2. /\ running' \in {"down", "starting", "up"} /\ attempts' \in 0..MaxSends
      /\ asked' \in [Ids -> Nat]
  BY <1>1 DEF TranscriptTypes
<1>3. /\ companion' \in Companions /\ companion'.commands \in 0..MaxDictations
      /\ companion'.id \in 0..MaxDictations
  BY <1>1 DEF TranscriptTypes
<1>4. disk' \in {NoRecord} \cup {Tombstone(id) : id \in Ids}
                \cup {Record(id, text) : id \in Ids, text \in Texts}
  BY <1>1 DEF TranscriptTypes
<1>5. fate' \in [Ids -> {"unspoken", "spoken", "stored", "settled", "discarded", "abandoned", "dropped"}]
  BY <1>1 DEF TranscriptTypes
<1>6. wire' \in SUBSET Messages /\ IsFiniteSet(wire') /\ \A m \in wire' : m.attempt <= attempts'
  <2>1. wire \in SUBSET Messages /\ IsFiniteSet(wire) /\ \A m \in wire : m.attempt <= attempts
    BY DEF TranscriptTypes
  <2>2. wire' \subseteq wire  OBVIOUS
  <2> HIDE DEF TranscriptTypes
  <2> QED  BY <1>1, <2>1, <2>2, FS_Subset
<1> QED  BY <1>2, <1>3, <1>4, <1>5, <1>6, SMTT(60) DEF TranscriptTypes

-----------------------------------------------------------------------------
(* The pill, one change at a time.                                          *)

LEMMA WithoutFits ==
  ASSUME NEW c \in Companions, NEW p \in Phases
  PROVE  /\ Without(c, p) \in Companions
         /\ Without(c, p).phase = p /\ Without(c, p).id = NoId /\ Without(c, p).text = Empty
         /\ Without(c, p).delivery = "refused" /\ ~Without(c, p).warned
         /\ Without(c, p).dismissed = c.dismissed /\ Without(c, p).blind = c.blind
         /\ Without(c, p).commands = c.commands
<1> DEFINE c1 == [c EXCEPT !.phase = p]
           c2 == [c1 EXCEPT !.id = NoId]
           c3 == [c2 EXCEPT !.text = Empty]
           c4 == [c3 EXCEPT !.delivery = "refused"]
           c5 == [c4 EXCEPT !.warned = FALSE]
<1>1. c1 \in Companions  BY DEF Companions
<1>2. c2 \in Companions
  <2> HIDE DEF c1
  <2> QED  BY <1>1 DEF Companions, NoId
<1>3. c3 \in Companions
  <2> HIDE DEF c2
  <2> QED  BY <1>2 DEF Companions
<1>4. c4 \in Companions
  <2> HIDE DEF c3
  <2> QED  BY <1>3 DEF Companions
<1>5. c5 \in Companions
  <2> HIDE DEF c4
  <2> QED  BY <1>4 DEF Companions
<1>6. Without(c, p) = c5  BY DEF Without, Companions
<1>7. /\ c5.phase = p /\ c5.id = NoId /\ c5.text = Empty
      /\ c5.delivery = "refused" /\ ~c5.warned
      /\ c5.dismissed = c.dismissed /\ c5.blind = c.blind /\ c5.commands = c.commands
  BY DEF Companions
<1> HIDE DEF c5
<1> QED  BY <1>5, <1>6, <1>7

LEMMA RetainFits ==
  ASSUME NEW c \in Companions, NEW y \in {"refused", "uncertain"}, NEW w \in BOOLEAN
  PROVE  /\ Retain(c, y, w) \in Companions
         /\ Retain(c, y, w).phase = "retained" /\ Retain(c, y, w).id = c.id
         /\ Retain(c, y, w).text = c.text /\ Retain(c, y, w).delivery = y
         /\ Retain(c, y, w).commands = c.commands /\ Retain(c, y, w).warned = w
<1> DEFINE c1 == [c EXCEPT !.phase = "retained"]
           c2 == [c1 EXCEPT !.delivery = y]
           c3 == [c2 EXCEPT !.warned = w]
<1>1. c1 \in Companions  BY DEF Companions, Phases
<1>2. c2 \in Companions
  <2> HIDE DEF c1
  <2> QED  BY <1>1 DEF Companions
<1>3. c3 \in Companions
  <2> HIDE DEF c2
  <2> QED  BY <1>2 DEF Companions
<1>4. Retain(c, y, w) = c3  BY DEF Retain, Companions
<1>5. /\ c3.phase = "retained" /\ c3.id = c.id /\ c3.text = c.text /\ c3.delivery = y
      /\ c3.commands = c.commands /\ c3.warned = w
  BY DEF Companions
<1> HIDE DEF c3
<1> QED  BY <1>3, <1>4, <1>5

\* Companion::submit
LEMMA SendFits ==
  ASSUME NEW c \in Companions, NEW x \in Texts, NEW forced \in BOOLEAN
  PROVE  LET d == SendWords(c, x, forced)
         IN  /\ d.companion \in Companions
             /\ d.companion.phase = "sent" /\ d.companion.id = c.id /\ d.companion.text = x
             /\ d.companion.delivery = (IF forced THEN "uncertain" ELSE "refused")
             /\ d.companion.commands = c.commands /\ d.companion.blind = c.blind
             /\ d.actions = <<Act("persist", c.id, x), Act("submit", c.id, x)>>
<1> DEFINE y == IF forced THEN "uncertain" ELSE "refused"
           c1 == [c EXCEPT !.phase = "sent"]
           c2 == [c1 EXCEPT !.text = x]
           c3 == [c2 EXCEPT !.warned = FALSE]
           c4 == [c3 EXCEPT !.delivery = y]
<1>0. y \in {"refused", "uncertain"}  OBVIOUS
<1>1. c1 \in Companions  BY DEF Companions, Phases
<1>2. c2 \in Companions
  <2> HIDE DEF c1
  <2> QED  BY <1>1 DEF Companions
<1>3. c3 \in Companions
  <2> HIDE DEF c2
  <2> QED  BY <1>2 DEF Companions
<1>4. c4 \in Companions
  <2> HIDE DEF c3, y
  <2> QED  BY <1>0, <1>3 DEF Companions
<1>5. /\ SendWords(c, x, forced).companion = c4
      /\ SendWords(c, x, forced).actions = <<Act("persist", c.id, x), Act("submit", c.id, x)>>
  BY DEF SendWords, Done, Companions
<1>6. /\ c4.phase = "sent" /\ c4.id = c.id /\ c4.text = x /\ c4.delivery = y
      /\ c4.commands = c.commands /\ c4.blind = c.blind
  BY DEF Companions
<1> HIDE DEF c4
<1> QED  BY <1>4, <1>5, <1>6

\* The textbox opens on words with a number of their own.
LEMMA TranscribedFits ==
  ASSUME NEW c \in Companions, NEW x \in Texts
  PROVE  LET d == Transcribed(c, x)
         IN  /\ d.companion \in Companions
             /\ d.companion.phase = "editing" /\ d.companion.id = c.commands + 1
             /\ d.companion.text = x /\ d.companion.delivery = c.delivery
             /\ d.companion.commands = c.commands + 1 /\ d.companion.blind = c.blind
             /\ d.actions = <<Act("persist", c.commands + 1, x)>>
<1> DEFINE n == c.commands + 1
           c1 == [c EXCEPT !.phase = "editing"]
           c2 == [c1 EXCEPT !.id = n]
           c3 == [c2 EXCEPT !.text = x]
           c4 == [c3 EXCEPT !.commands = n]
<1>0. n \in Nat  BY DEF Companions
<1>1. c1 \in Companions  BY DEF Companions, Phases
<1>2. c2 \in Companions
  <2> HIDE DEF c1, n
  <2> QED  BY <1>0, <1>1 DEF Companions
<1>3. c3 \in Companions
  <2> HIDE DEF c2
  <2> QED  BY <1>2 DEF Companions
<1>4. c4 \in Companions
  <2> HIDE DEF c3, n
  <2> QED  BY <1>0, <1>3 DEF Companions
<1>5. x # Empty  BY TextsAssumption
<1>6. /\ Transcribed(c, x).companion = c4
      /\ Transcribed(c, x).actions = <<Act("persist", n, x)>>
  BY <1>5 DEF Transcribed, Done, Companions
<1>7. /\ c4.phase = "editing" /\ c4.id = n /\ c4.text = x /\ c4.delivery = c.delivery
      /\ c4.commands = n /\ c4.blind = c.blind
  BY DEF Companions
<1> HIDE DEF c4
<1> QED  BY <1>4, <1>6, <1>7

\* Companion::restore
LEMMA RestoreFits ==
  ASSUME NEW c \in Companions, c.phase = "resting", NEW id \in Nat, NEW x \in Texts
  PROVE  /\ Restore(c, id, x) \in Companions
         /\ Restore(c, id, x).phase = "retained" /\ Restore(c, id, x).id = id
         /\ Restore(c, id, x).text = x /\ Restore(c, id, x).delivery = "uncertain"
         /\ Restore(c, id, x).commands = c.commands
<1> DEFINE r == Retain(c, "uncertain", FALSE)
           c1 == [r EXCEPT !.id = id]
           c2 == [c1 EXCEPT !.text = x]
<1>0. /\ r \in Companions /\ r.phase = "retained" /\ r.delivery = "uncertain"
      /\ r.commands = c.commands
  BY RetainFits
<1> HIDE DEF r
<1>1. c1 \in Companions  BY <1>0 DEF Companions
<1>2. c2 \in Companions
  <2> HIDE DEF c1
  <2> QED  BY <1>1 DEF Companions
<1>3. Restore(c, id, x) = c2
  <2>1. Restore(c, id, x) = [r EXCEPT !.id = id, !.text = x]  BY DEF Restore, r
  <2> QED  BY <1>0, <2>1 DEF Companions
<1>4. /\ c2.phase = "retained" /\ c2.id = id /\ c2.text = x /\ c2.delivery = "uncertain"
      /\ c2.commands = c.commands
  BY <1>0 DEF Companions
<1> HIDE DEF c2
<1> QED  BY <1>2, <1>3, <1>4

\* What Companion::apply does for a gesture that asks for the pill, and for one
\* that ends an interaction.
Woken(c) == [c EXCEPT !.blind = FALSE, !.dismissed = FALSE]
LEMMA WokenFits ==
  ASSUME NEW c \in Companions
  PROVE  /\ Woken(c) \in Companions
         /\ Woken(c).phase = c.phase /\ Woken(c).id = c.id /\ Woken(c).text = c.text
         /\ Woken(c).delivery = c.delivery /\ Woken(c).commands = c.commands
         /\ ~Woken(c).blind
<1> DEFINE c1 == [c EXCEPT !.blind = FALSE]
           c2 == [c1 EXCEPT !.dismissed = FALSE]
<1>1. c1 \in Companions  BY DEF Companions
<1>2. c2 \in Companions
  <2> HIDE DEF c1
  <2> QED  BY <1>1 DEF Companions
<1>3. Woken(c) = c2  BY DEF Woken, Companions
<1>4. /\ c2.phase = c.phase /\ c2.id = c.id /\ c2.text = c.text
      /\ c2.delivery = c.delivery /\ c2.commands = c.commands /\ ~c2.blind
  BY DEF Companions
<1> HIDE DEF c2
<1> QED  BY <1>2, <1>3, <1>4

\* Nothing about words: what two companions that hold the same agree on.
SameWords(c, d) ==
  /\ d.phase = c.phase /\ d.id = c.id /\ d.text = c.text
  /\ d.delivery = c.delivery /\ d.commands = c.commands

\* A companion that holds no words, in one of its phases.
Wordless(d, p, n) ==
  /\ d.phase = p /\ d.id = NoId /\ d.delivery = "refused" /\ d.commands = n

LEMMA CloseFits ==
  ASSUME NEW c \in Companions, NEW actions
  PROVE  /\ Close(c, FALSE, actions).companion \in Companions
         /\ Wordless(Close(c, FALSE, actions).companion, "resting", c.commands)
         /\ Close(c, FALSE, actions).actions = actions
<1> DEFINE w == Without(c, "resting")
           c1 == [w EXCEPT !.dismissed = TRUE]
<1>0. /\ w \in Companions /\ w.phase = "resting" /\ w.id = NoId /\ w.delivery = "refused"
      /\ w.commands = c.commands
  BY WithoutFits DEF Phases
<1>1. Close(c, FALSE, actions).companion = c1 /\ Close(c, FALSE, actions).actions = actions
  BY DEF Close, Done
<1> HIDE DEF w
<1>2. /\ c1 \in Companions /\ c1.phase = "resting" /\ c1.id = NoId /\ c1.delivery = "refused"
      /\ c1.commands = c.commands
  BY <1>0 DEF Companions
<1> HIDE DEF c1
<1> QED  BY <1>1, <1>2 DEF Wordless

LEMMA AbandonFits ==
  ASSUME NEW c \in Companions
  PROVE  /\ Abandon(c).companion \in Companions
         /\ Wordless(Abandon(c).companion, "resting", c.commands)
         /\ Abandon(c).companion.blind
         /\ Abandon(c).actions =
              (CASE c.phase = "listening" -> <<Act("discard", NoId, Empty)>>
                 [] c.phase = "transcribing" -> <<Act("cancel", NoId, Empty)>>
                 [] OTHER -> <<>>)
<1> DEFINE w == Without(c, "resting")
           c1 == [w EXCEPT !.blind = TRUE]
<1>0. /\ w \in Companions /\ w.phase = "resting" /\ w.id = NoId /\ w.delivery = "refused"
      /\ w.commands = c.commands
  BY WithoutFits DEF Phases
<1>1. /\ Abandon(c).companion = c1
      /\ Abandon(c).actions = (CASE c.phase = "listening" -> <<Act("discard", NoId, Empty)>>
                                 [] c.phase = "transcribing" -> <<Act("cancel", NoId, Empty)>>
                                 [] OTHER -> <<>>)
  BY Zenon DEF Abandon, Done
<1> HIDE DEF w
<1>2. /\ c1 \in Companions /\ c1.phase = "resting" /\ c1.id = NoId /\ c1.delivery = "refused"
      /\ c1.commands = c.commands /\ c1.blind
  BY <1>0 DEF Companions
<1> HIDE DEF c1
<1> QED  BY <1>1, <1>2, Zenon DEF Wordless

LEMMA FreshFits ==
  ASSUME NEW n \in Nat
  PROVE  /\ [Fresh EXCEPT !.commands = n] \in Companions
         /\ Wordless([Fresh EXCEPT !.commands = n], "resting", n)
  BY DEF Fresh, Companions, Wordless, Phases, NoId

-----------------------------------------------------------------------------
(* What each event makes of it.                                             *)

LEMMA PostureIs ==
  ASSUME NEW c \in Companions
  PROVE  /\ c.phase \in {"resting", "sent"} => ~Waits(Posture(c))
         /\ c.blind => ~Waits(Posture(c))
         /\ ~c.blind /\ c.phase \notin {"resting", "sent"} => Waits(Posture(c))
  BY DEF Posture, Waits, Companions

LEMMA ActivateIs ==
  ASSUME NEW c \in Companions
  PROVE  LET d == Apply(c, Plain("activate"))
         IN  /\ d.companion \in Companions
             /\ c.phase \in {"resting", "failed"} =>
                  /\ Wordless(d.companion, "listening", c.commands)
                  /\ d.actions = <<Act("start", NoId, Empty)>> /\ Waits(Posture(d.companion))
             /\ c.phase = "listening" =>
                  /\ Wordless(d.companion, "transcribing", c.commands)
                  /\ d.actions = <<Act("stop", NoId, Empty)>> /\ Waits(Posture(d.companion))
             /\ c.phase \notin {"resting", "failed", "listening"} =>
                  SameWords(c, d.companion) /\ d.actions = <<>>
<1> DEFINE w == Woken(c)
           d == Apply(c, Plain("activate"))
<1>1. w \in Companions /\ SameWords(c, w) /\ ~w.blind
  BY WokenFits DEF SameWords
<1>2. d = Activated(w)
  BY DEF Apply, Transition, Plain, Event, Woken
<1> HIDE DEF w, d
<1>3. w.phase = c.phase /\ w.commands = c.commands  BY <1>1 DEF SameWords
<1>4. CASE c.phase \in {"resting", "failed"}
  <2>1. d = Done(Without(w, "listening"), <<Act("start", NoId, Empty)>>)
    BY <1>2, <1>3, <1>4 DEF Activated
  <2>2. "listening" \in Phases  BY DEF Phases
  <2>3. Without(w, "listening") \in Companions /\ Wordless(Without(w, "listening"), "listening", c.commands)
        /\ ~Without(w, "listening").blind
    BY <1>1, <1>3, <2>2, WithoutFits DEF Wordless
  <2>4. Without(w, "listening").phase = "listening"  BY <2>3 DEF Wordless
  <2>5. Waits(Posture(Without(w, "listening")))
    BY <2>3, <2>4, PostureIs
  <2> QED  BY <1>4, <2>1, <2>3, <2>5 DEF Done, d
<1>5. CASE c.phase = "listening"
  <2>1. d = Done(Without(w, "transcribing"), <<Act("stop", NoId, Empty)>>)
    BY <1>2, <1>3, <1>5 DEF Activated
  <2>2. "transcribing" \in Phases  BY DEF Phases
  <2>3. /\ Without(w, "transcribing") \in Companions
        /\ Wordless(Without(w, "transcribing"), "transcribing", c.commands)
        /\ ~Without(w, "transcribing").blind
    BY <1>1, <1>3, <2>2, WithoutFits DEF Wordless
  <2>4. Without(w, "transcribing").phase = "transcribing"  BY <2>3 DEF Wordless
  <2>5. Waits(Posture(Without(w, "transcribing")))
    BY <2>3, <2>4, PostureIs
  <2> QED  BY <1>5, <2>1, <2>3, <2>5 DEF Done, d
<1>6. CASE c.phase \notin {"resting", "failed", "listening"}
  <2>1. d = Done(w, <<>>)  BY <1>2, <1>3, <1>6 DEF Activated
  <2> QED  BY <1>1, <1>6, <2>1 DEF Done, d
<1> QED  BY <1>4, <1>5, <1>6

LEMMA EscapeIs ==
  ASSUME NEW c \in Companions
  PROVE  LET d == Apply(c, Plain("escape"))
         IN  /\ d.companion \in Companions
             /\ ~Waits(Posture(d.companion))
             /\ c.phase \notin {"resting", "sent"} => Wordless(d.companion, "resting", c.commands)
             /\ c.phase \in {"resting", "sent"} => SameWords(c, d.companion)
             /\ d.actions = (CASE c.phase = "listening" -> <<Act("discard", NoId, Empty)>>
                               [] c.phase = "transcribing" -> <<Act("cancel", NoId, Empty)>>
                               [] c.phase \in {"editing", "retained"} -> <<Act("forget", c.id, Empty)>>
                               [] OTHER -> <<>>)
<1> DEFINE d == Apply(c, Plain("escape"))
           acts == CASE c.phase = "listening" -> <<Act("discard", NoId, Empty)>>
                     [] c.phase = "transcribing" -> <<Act("cancel", NoId, Empty)>>
                     [] c.phase \in {"editing", "retained"} -> <<Act("forget", c.id, Empty)>>
                     [] OTHER -> <<>>
<1>1. d = Escaped(c, FALSE)
  BY DEF Apply, Transition, Plain, Event
<1>2. CASE c.phase \notin {"resting", "sent"}
  <2>1. d = Close(c, FALSE, acts)
    BY <1>1, <1>2 DEF Escaped, Companions, Phases
  <2> HIDE DEF acts, d
  <2>2. d.companion \in Companions /\ Wordless(d.companion, "resting", c.commands) /\ d.actions = acts
    BY <2>1, CloseFits, Zenon
  <2>3. d.companion.phase = "resting"  BY <2>2 DEF Wordless
  <2>4. ~Waits(Posture(d.companion))  BY <2>2, <2>3, PostureIs
  <2> QED  BY <1>2, <2>2, <2>4 DEF d, acts
<1>3. CASE c.phase \in {"resting", "sent"}
  <2>1. d = Done([c EXCEPT !.dismissed = TRUE], <<>>)
    BY <1>1, <1>3 DEF Escaped
  <2> HIDE DEF d
  <2>2. [c EXCEPT !.dismissed = TRUE] \in Companions /\ SameWords(c, [c EXCEPT !.dismissed = TRUE])
    BY DEF Companions, SameWords
  <2>3. d.companion = [c EXCEPT !.dismissed = TRUE] /\ d.actions = <<>>
    BY <2>1 DEF Done
  <2>4. d.companion \in Companions /\ SameWords(c, d.companion)
    BY <2>2, <2>3
  <2>5. acts = <<>>  BY <1>3
  <2> HIDE DEF acts
  <2>6. ~Waits(Posture(d.companion))  BY <1>3, <2>4, PostureIs DEF SameWords
  <2> QED  BY <1>3, <2>3, <2>4, <2>5, <2>6 DEF d, acts
<1> QED  BY <1>2, <1>3

LEMMA EnterIs ==
  ASSUME NEW c \in Companions, c.phase \in {"editing", "retained"}, c.text \in Texts, NEW x \in Texts
  PROVE  LET d == Apply(c, Event("enter", NoId, x))
         IN  /\ c.phase = "editing" \/ c.delivery = "refused" =>
                  d = SendWords(c, x, FALSE)
             /\ c.phase = "retained" /\ c.delivery = "uncertain" /\ c.warned =>
                  d = SendWords(c, c.text, TRUE)
             /\ c.phase = "retained" /\ c.delivery = "uncertain" /\ ~c.warned =>
                  d = Done(Retain(c, "uncertain", TRUE), <<>>)
<1>1. Apply(c, Event("enter", NoId, x)) = Entered(c, x)
  BY DEF Apply, Transition, Event
<1>2. x # Empty  BY TextsAssumption
<1> QED  BY <1>1, <1>2 DEF Entered, Companions

LEMMA AnswerIs ==
  ASSUME NEW c \in Companions, NEW e \in [kind : LateKinds \cup AnswerKinds, id : Nat, text : {Empty}]
  PROVE  LET d == Apply(c, e)
         IN  /\ e.kind = "acknowledged" =>
                  d = (IF c.phase \in {"sent", "retained"} /\ c.id = e.id
                       THEN Done(Without(c, "resting"), <<Act("clear", NoId, Empty)>>)
                       ELSE Done(c, <<>>))
             /\ e.kind = "submission_failed" =>
                  d = (IF c.phase = "sent" /\ c.id = e.id
                       THEN Done(Retain(c, c.delivery, FALSE), <<>>) ELSE Done(c, <<>>))
             /\ e.kind = "submission_uncertain" =>
                  d = (IF c.phase = "sent" /\ c.id = e.id
                       THEN Done(Retain(c, "uncertain", FALSE), <<>>) ELSE Done(c, <<>>))
             /\ e.kind = "recording_failed" =>
                  d = (CASE c.phase = "listening" -> Done(Without(c, "failed"), <<Act("discard", NoId, Empty)>>)
                         [] c.phase = "transcribing" -> Done(Without(c, "failed"), <<Act("cancel", NoId, Empty)>>)
                         [] OTHER -> Done(c, <<>>))
<1>1. CASE e.kind = "acknowledged"
  BY <1>1 DEF Apply, Transition, Acknowledged
<1>2. CASE e.kind = "submission_failed"
  BY <1>2 DEF Apply, Transition, NotSent
<1>3. CASE e.kind = "submission_uncertain"
  BY <1>3 DEF Apply, Transition, Unconfirmed
<1>4. CASE e.kind = "recording_failed"
  BY <1>4 DEF Apply, Transition, MicrophoneFailed
<1> QED  BY <1>1, <1>2, <1>3, <1>4 DEF LateKinds, AnswerKinds

LEMMA FailureIs ==
  ASSUME NEW c \in Companions, NEW id \in Nat
  PROVE  /\ Apply(c, Plain("persist_failed")) =
              (IF c.phase = "sent" THEN Done(Retain(c, c.delivery, FALSE), <<>>) ELSE Done(c, <<>>))
         /\ Apply(c, Event("discard_failed", id, Empty)) =
              (IF c.phase = "resting" THEN Done(Without(c, "failed"), <<>>) ELSE Done(c, <<>>))
<1>1. Apply(c, Plain("persist_failed")) = SaveFailed(c)
  BY DEF Apply, Transition, Plain, Event
<1>2. CASE c.phase = "resting"
  BY <1>1, <1>2 DEF Apply, Transition, Event, SaveFailed
<1>3. CASE c.phase # "resting"
  BY <1>1, <1>3 DEF Apply, Transition, Event, SaveFailed
<1> QED  BY <1>2, <1>3

LEMMA HeardIs ==
  ASSUME NEW c \in Companions, NEW x \in Texts \cup {Empty}
  PROVE  /\ Apply(c, Event("transcribed", NoId, x)) =
              (IF c.phase # "transcribing" THEN Done(c, <<>>)
               ELSE IF x = Empty THEN Done(Without(c, "failed"), <<>>) ELSE Transcribed(c, x))
         /\ Apply(c, Plain("transcription_failed")) =
              (IF c.phase # "transcribing" THEN Done(c, <<>>) ELSE Done(Without(c, "failed"), <<>>))
<1>1. CASE c.phase = "transcribing"
  BY <1>1 DEF Apply, Transition, Event, Plain, Transcribed
<1>2. CASE c.phase # "transcribing"
  BY <1>2 DEF Apply, Transition, Event, Plain
<1> QED  BY <1>1, <1>2

-----------------------------------------------------------------------------
(* Threads and what is left for a window.                                   *)

LEMMA HandOfIs ==
  ASSUME NEW D \in [Threads -> Seq(Acts)], NEW L \in Seq(Seq(Acts)), NEW a
  PROVE  a \in HandOf(D, L) <=>
           \/ \E t \in Threads : \E k \in 1..Len(D[t]) : a = D[t][k]
           \/ \E i \in 1..Len(L) : \E k \in 1..Len(L[i]) : a = L[i][k]
<1>1. \A t \in Threads : \A k \in 1..Len(D[t]) : D[t][k] \in Acts  OBVIOUS
<1>2. \A i \in 1..Len(L) : \A k \in 1..Len(L[i]) : L[i][k] \in Acts  OBVIOUS
<1> QED  BY <1>1, <1>2, Zenon DEF HandOf

\* What hands hold after a step that changes one thread's and what is left.
LEMMA HandMoves ==
  ASSUME NEW D \in [Threads -> Seq(Acts)], NEW L \in Seq(Seq(Acts)),
         NEW E \in [Threads -> Seq(Acts)], NEW M \in Seq(Seq(Acts)), NEW S,
         \A t \in Threads : \A k \in 1..Len(E[t]) : E[t][k] \in HandOf(D, L) \cup S,
         \A i \in 1..Len(M) : \A k \in 1..Len(M[i]) : M[i][k] \in HandOf(D, L) \cup S
  PROVE  HandOf(E, M) \subseteq HandOf(D, L) \cup S
<1> SUFFICES ASSUME NEW a \in HandOf(E, M) PROVE a \in HandOf(D, L) \cup S
  OBVIOUS
<1>1. \/ \E t \in Threads : \E k \in 1..Len(E[t]) : a = E[t][k]
      \/ \E i \in 1..Len(M) : \E k \in 1..Len(M[i]) : a = M[i][k]
  BY Zenon DEF HandOf
<1> QED  BY <1>1, Zenon

LEMMA HandHolds ==
  ASSUME NEW D \in [Threads -> Seq(Acts)], NEW L \in Seq(Seq(Acts))
  PROVE  /\ \A t \in Threads : \A k \in 1..Len(D[t]) : D[t][k] \in HandOf(D, L)
         /\ \A i \in 1..Len(L) : \A k \in 1..Len(L[i]) : L[i][k] \in HandOf(D, L)
<1>1. \A t \in Threads : \A k \in 1..Len(D[t]) : D[t][k] \in HandOf(D, L)
  BY HandOfIs, Zenon
<1>2. \A i \in 1..Len(L) : \A k \in 1..Len(L[i]) : L[i][k] \in HandOf(D, L)
  BY HandOfIs, Zenon
<1> QED  BY <1>1, <1>2

LEMMA TailIs ==
  ASSUME NEW S, NEW s \in Seq(S), s # <<>>
  PROVE  /\ Tail(s) \in Seq(S) /\ Len(Tail(s)) = Len(s) - 1 /\ Len(s) \in Nat \ {0}
         /\ Head(s) = s[1] /\ Head(s) \in S
         /\ \A k \in 1..Len(Tail(s)) : Tail(s)[k] = s[k + 1]
  OBVIOUS

LEMMA ProperEmpty == \A t \in Threads : Proper(t, <<>>)
  BY DEF Proper, Threads

LEMMA ProperTail ==
  ASSUME NEW t \in Threads, NEW s \in Seq(Acts), s # <<>>, Proper(t, s)
  PROVE  Proper(t, Tail(s))
<1> DEFINE r == Tail(s)
<1>1. /\ r \in Seq(Acts) /\ Len(r) = Len(s) - 1 /\ Len(s) \in Nat \ {0}
      /\ \A k \in 1..Len(r) : r[k] = s[k + 1]
  BY TailIs, Zenon
<1> HIDE DEF r
<1>0. Len(r) = Len(s) - 1 /\ Len(s) \in Nat \ {0}  BY <1>1, Zenon
<1>2. Len(r) <= (IF t = "page" THEN 2 ELSE 1)  BY <1>1 DEF Proper
<1>3. \A k \in 1..Len(r) : r[k].kind \in Threaded(t)
  <2> TAKE k \in 1..Len(r)
  <2>1. k + 1 \in 1..Len(s)  BY <1>1
  <2>2. s[k + 1].kind \in Threaded(t)  BY <2>1 DEF Proper
  <2> QED  BY <1>1, <2>2
<1>4. t = "page" /\ Len(r) = 1 => r[1].kind # "persist"
  <2> SUFFICES ASSUME t = "page", Len(r) = 1 PROVE r[1].kind # "persist"
    OBVIOUS
  <2> DEFINE n == Len(s)
             m == Len(r)
  <2>0. m = 1 /\ m = n - 1 /\ n \in Nat  BY <1>0
  <2>1. n = 2 /\ 1 \in 1..m /\ 1 + 1 = 2
    <3> HIDE DEF n, m
    <3> QED  BY <2>0
  <2>2. s[2].kind = "submit"  BY <2>1, Zenon DEF Proper
  <2>3. 1 \in 1..Len(r) /\ 1 + 1 = 2  BY <2>1, Zenon
  <2>4. r[1] = s[1 + 1]  BY <1>1, <2>3, Zenon
  <2>5. r[1] = s[2]  BY <2>3, <2>4
  <2> QED  BY <2>2, <2>5
<1>5. ~(Len(r) = 2)
  <2>1. Len(s) <= 2  BY <1>1 DEF Proper
  <2> QED  BY <1>1, <2>1
<1>6. Proper(t, r)  BY <1>2, <1>3, <1>4, <1>5, Zenon DEF Proper
<1> QED  BY <1>6 DEF r

\* App::run: an action done is in no one's hand, and the rest is as it was.
LEMMA NextIs ==
  ASSUME TranscriptTypes, Agenda, NEW t \in Threads, doing[t] # <<>>, Next_(t), left' = left
  PROVE  /\ doing' \in [Threads -> Seq(Acts)] /\ left' \in Seq(Seq(Acts)) /\ Agenda'
         /\ InHand' \subseteq InHand
         /\ Head(doing[t]) = doing[t][1] /\ doing[t][1] \in InHand /\ doing[t][1] \in Acts
         /\ 1 \in 1..Len(doing[t])
         /\ doing'[t] = Tail(doing[t])
         /\ \A u \in Threads \ {t} : doing'[u] = doing[u]
<1>1. doing \in [Threads -> Seq(Acts)] /\ left \in Seq(Seq(Acts))  BY DEF TranscriptTypes
<1> DEFINE s == doing[t]
<1>2. s \in Seq(Acts)  BY <1>1
<1>3. /\ Tail(s) \in Seq(Acts) /\ Len(Tail(s)) = Len(s) - 1 /\ Len(s) \in Nat \ {0}
      /\ Head(s) = s[1] /\ Head(s) \in Acts
      /\ \A k \in 1..Len(Tail(s)) : Tail(s)[k] = s[k + 1]
  BY <1>2, TailIs, Zenon
<1>4. doing' = [doing EXCEPT ![t] = Tail(s)]  BY DEF Next_
<1>5. doing' \in [Threads -> Seq(Acts)] /\ doing'[t] = Tail(s)
      /\ \A u \in Threads \ {t} : doing'[u] = doing[u]
  <2> HIDE DEF s
  <2> QED  BY <1>1, <1>3, <1>4
<1>6. Proper(t, Tail(s))  BY <1>2, ProperTail, Zenon DEF Agenda
<1>7. Agenda'
  <2>1. \A u \in Threads : Proper(u, doing'[u])
    BY <1>5, <1>6, Zenon DEF Agenda
  <2>2. \A i \in 1..Len(left') : Follower(left'[i])  BY Zenon DEF Agenda
  <2> QED  BY <2>1, <2>2, Zenon DEF Agenda
<1>8. InHand' \subseteq InHand
  <2>1. left' \in Seq(Seq(Acts))  BY <1>1
  <2>2. /\ \A u \in Threads : \A k \in 1..Len(doing[u]) : doing[u][k] \in InHand
        /\ \A i \in 1..Len(left) : \A k \in 1..Len(left[i]) : left[i][k] \in InHand
    BY <1>1, HandHolds, Zenon DEF InHand
  <2>3. \A u \in Threads : \A k \in 1..Len(doing'[u]) : doing'[u][k] \in InHand \cup {}
    <3> TAKE u \in Threads
    <3>1. CASE u = t
      <4> TAKE k \in 1..Len(doing'[u])
      <4>1. doing'[u] = Tail(s) /\ k \in 1..Len(Tail(s))  BY <1>5, <3>1, Zenon
      <4>2. k + 1 \in 1..Len(s) /\ Tail(s)[k] = s[k + 1]
        <5> DEFINE q == Tail(s)
        <5>1. k \in 1..Len(q)  BY <4>1
        <5> HIDE DEF q
        <5>2. Len(q) = Len(s) - 1 /\ Len(s) \in Nat /\ \A l \in 1..Len(q) : q[l] = s[l + 1]
          BY <1>3 DEF q
        <5>3. k + 1 \in 1..Len(s) /\ q[k] = s[k + 1]  BY <5>1, <5>2
        <5> QED  BY <5>3 DEF q
      <4>3. k + 1 \in 1..Len(s) /\ doing'[u][k] = s[k + 1]  BY <4>1, <4>2, Zenon
      <4> QED  BY <2>2, <4>1
    <3>2. CASE u # t
      BY <1>5, <2>2, <3>2
    <3> QED  BY <3>1, <3>2
  <2>4. \A i \in 1..Len(left') : \A k \in 1..Len(left'[i]) : left'[i][k] \in InHand \cup {}
    BY <2>2
  <2>5. HandOf(doing', left') \subseteq HandOf(doing, left) \cup {}
    BY <1>1, <1>5, <2>1, <2>3, <2>4, HandMoves, Zenon DEF InHand
  <2> QED  BY <2>5 DEF InHand
<1>9. 1 \in 1..Len(s)  BY <1>3
<1>10. s[1] \in InHand
  BY <1>1, <1>9, HandHolds, Zenon DEF InHand
<1> QED  BY <1>1, <1>3, <1>5, <1>7, <1>8, <1>9, <1>10

\* App::handle: its actions go to the thread, or are left for the window.
LEMMA HandleIs ==
  ASSUME TranscriptTypes, Agenda, NEW t \in Threads, NEW e, Handle(t, e), NEW d,
         d = Apply(companion, e), d.actions \in Seq(Acts),
         Waits(Posture(d.companion)) => Follower(d.actions),
         ~Waits(Posture(d.companion)) => Proper(t, d.actions)
  PROVE  /\ companion' = d.companion /\ fate' = FateAfter(e, d)
         /\ doing' \in [Threads -> Seq(Acts)] /\ left' \in Seq(Seq(Acts)) /\ Agenda'
         /\ InHand' \subseteq InHand \cup {d.actions[k] : k \in 1..Len(d.actions)}
         /\ doing'[t] = (IF Waits(Posture(d.companion)) THEN <<>> ELSE d.actions)
         /\ \A u \in Threads \ {t} : doing'[u] = doing[u]
<1>1. doing \in [Threads -> Seq(Acts)] /\ left \in Seq(Seq(Acts))  BY DEF TranscriptTypes
<1>2. companion' = d.companion /\ fate' = FateAfter(e, d)  BY Zenon DEF Handle
<1> DEFINE s == IF Waits(Posture(d.companion)) THEN <<>> ELSE d.actions
<1>3. s \in Seq(Acts)  OBVIOUS
<1>4. doing' = [doing EXCEPT ![t] = s]
  BY Zenon DEF Handle
<1>5. left' = left \/ (Waits(Posture(d.companion)) /\ left' = Append(left, d.actions))
  BY Zenon DEF Handle
<1>6. Proper(t, s)  BY ProperEmpty, Zenon
<1>7. s = <<>> \/ s = d.actions  OBVIOUS
<1>8. doing'[t] = s  BY <1>1, <1>4
<1>9. \A u \in Threads \ {t} : doing'[u] = doing[u]  BY <1>1, <1>4
<1>10. doing' \in [Threads -> Seq(Acts)]
  <2> HIDE DEF s
  <2> QED  BY <1>1, <1>3, <1>4
<1>11. left' \in Seq(Seq(Acts))
  <2>1. CASE left' = left  BY <1>1, <2>1
  <2>2. CASE left' = Append(left, d.actions)  BY <1>1, <2>2
  <2> QED  BY <1>5, <2>1, <2>2
<1>12. \A i \in 1..Len(left') :
         \/ i \in 1..Len(left) /\ left'[i] = left[i]
         \/ Waits(Posture(d.companion)) /\ left'[i] = d.actions
  BY <1>1, <1>5
<1>13. Agenda'
  <2>1. \A u \in Threads : Proper(u, doing'[u])
    <3> TAKE u \in Threads
    <3>1. CASE u = t
      <4> HIDE DEF s
      <4> QED  BY <1>6, <1>8, <3>1
    <3>2. CASE u # t
      <4>1. doing'[u] = doing[u]  BY <1>9, <3>2
      <4>2. Proper(u, doing[u])  BY DEF Agenda
      <4> QED  BY <4>1, <4>2
    <3> QED  BY <3>1, <3>2
  <2>2. \A i \in 1..Len(left') : Follower(left'[i])
    <3> TAKE i \in 1..Len(left')
    <3>1. CASE i \in 1..Len(left) /\ left'[i] = left[i]
      <4>1. Follower(left[i])  BY <3>1 DEF Agenda
      <4> QED  BY <3>1, <4>1
    <3>2. CASE Waits(Posture(d.companion)) /\ left'[i] = d.actions
      <4>1. Follower(d.actions)  BY <3>2
      <4> QED  BY <3>2, <4>1
    <3> QED  BY <1>12, <3>1, <3>2
  <2> QED  BY <2>1, <2>2, Zenon DEF Agenda
<1> DEFINE S == {d.actions[k] : k \in 1..Len(d.actions)}
<1>14. InHand' \subseteq InHand \cup S
  <2>1. /\ \A u \in Threads : \A k \in 1..Len(doing[u]) : doing[u][k] \in InHand
        /\ \A i \in 1..Len(left) : \A k \in 1..Len(left[i]) : left[i][k] \in InHand
    BY <1>1, HandHolds, Zenon DEF InHand
  <2>2. \A k \in 1..Len(d.actions) : d.actions[k] \in S  OBVIOUS
  <2> HIDE DEF S
  <2>3. \A u \in Threads : \A k \in 1..Len(doing'[u]) : doing'[u][k] \in InHand \cup S
    <3> TAKE u \in Threads
    <3>1. CASE u # t
      BY <1>9, <2>1, <3>1
    <3>2. CASE u = t /\ s = <<>>
      <4> HIDE DEF s
      <4> QED  BY <1>8, <3>2
    <3>3. CASE u = t /\ s = d.actions
      <4> HIDE DEF s
      <4> QED  BY <1>8, <2>2, <3>3
    <3> QED  BY <1>7, <3>1, <3>2, <3>3
  <2>4. \A i \in 1..Len(left') : \A k \in 1..Len(left'[i]) : left'[i][k] \in InHand \cup S
    BY <1>12, <2>1, <2>2
  <2>5. HandOf(doing', left') \subseteq HandOf(doing, left) \cup S
    BY <1>1, <1>10, <1>11, <2>3, <2>4, HandMoves, Zenon DEF InHand
  <2> QED  BY <2>5 DEF InHand
<1> QED  BY <1>2, <1>8, <1>9, <1>10, <1>11, <1>13, <1>14, Zenon

\* App::put: what was left goes to the thread that proved the window, or what
\* an abandoned interaction asks for does.
Proved(acts) == left' = Tail(left) /\ doing' = [doing EXCEPT !["window"] = acts]
LEMMA WindowIs ==
  ASSUME TranscriptTypes, Agenda, left # <<>>,
         NEW acts, acts \in Seq(Acts), Proper("window", acts), Proved(acts)
  PROVE  /\ doing' \in [Threads -> Seq(Acts)] /\ left' \in Seq(Seq(Acts)) /\ Agenda'
         /\ InHand' \subseteq InHand \cup {acts[k] : k \in 1..Len(acts)}
         /\ \A u \in Threads \ {"window"} : doing'[u] = doing[u]
<1>1. doing \in [Threads -> Seq(Acts)] /\ left \in Seq(Seq(Acts))  BY DEF TranscriptTypes
<1>2. "window" \in Threads  BY DEF Threads
<1>3. doing'["window"] = acts /\ \A u \in Threads \ {"window"} : doing'[u] = doing[u]
  BY <1>1, <1>2 DEF Proved
<1>4. doing' \in [Threads -> Seq(Acts)]  BY <1>1 DEF Proved
<1>5. /\ left' \in Seq(Seq(Acts)) /\ Len(left') = Len(left) - 1 /\ Len(left) \in Nat \ {0}
      /\ \A i \in 1..Len(left') : left'[i] = left[i + 1]
  <2>1. /\ Tail(left) \in Seq(Seq(Acts)) /\ Len(Tail(left)) = Len(left) - 1 /\ Len(left) \in Nat \ {0}
        /\ \A i \in 1..Len(Tail(left)) : Tail(left)[i] = left[i + 1]
    BY <1>1, TailIs, Zenon
  <2> QED  BY <2>1, Zenon DEF Proved
<1>6. \A i \in 1..Len(left') : i + 1 \in 1..Len(left) /\ left'[i] = left[i + 1]
  BY <1>5
<1>7. Agenda'
  <2>1. \A u \in Threads : Proper(u, doing'[u])
    BY <1>3, Zenon DEF Agenda
  <2>2. \A i \in 1..Len(left') : Follower(left'[i])
    BY <1>6, Zenon DEF Agenda
  <2> QED  BY <2>1, <2>2, Zenon DEF Agenda
<1> DEFINE S == {acts[k] : k \in 1..Len(acts)}
<1>8. InHand' \subseteq InHand \cup S
  <2>1. /\ \A u \in Threads : \A k \in 1..Len(doing[u]) : doing[u][k] \in InHand
        /\ \A i \in 1..Len(left) : \A k \in 1..Len(left[i]) : left[i][k] \in InHand
    BY <1>1, HandHolds, Zenon DEF InHand
  <2>2. \A k \in 1..Len(acts) : acts[k] \in S  OBVIOUS
  <2> HIDE DEF S
  <2>3. \A u \in Threads : \A k \in 1..Len(doing'[u]) : doing'[u][k] \in InHand \cup S
    BY <1>3, <2>1, <2>2
  <2>4. \A i \in 1..Len(left') : \A k \in 1..Len(left'[i]) : left'[i][k] \in InHand \cup S
    BY <1>6, <2>1
  <2>6. left' \in Seq(Seq(Acts))  BY <1>5
  <2>5. HandOf(doing', left') \subseteq HandOf(doing, left) \cup S
    BY <1>1, <1>4, <2>3, <2>4, <2>6, HandMoves, Zenon DEF InHand
  <2> QED  BY <2>5 DEF InHand
<1> QED  BY <1>3, <1>4, <1>5, <1>7, <1>8, Zenon

\* Only the page forgets or submits, and only from the end of what it does.
LEMMA WhoDoes ==
  ASSUME TranscriptTypes, Agenda
  PROVE  /\ \A a \in InHand : a.kind = "forget" =>
              \E t \in Threads : Len(doing[t]) = 1 /\ doing[t] # <<>> /\ doing[t][1] = a
         /\ \A a \in InHand : a.kind = "submit" =>
              /\ doing["page"] # <<>> /\ doing["page"][Len(doing["page"])] = a
              /\ Len(doing["page"]) \in 1..2
              /\ Len(doing["page"]) = 2 => doing["page"][1].kind = "persist"
         /\ \A a \in InHand : a.kind = "clear" => \E k \in 1..Len(doing["link"]) : doing["link"][k] = a
<1>1. doing \in [Threads -> Seq(Acts)] /\ left \in Seq(Seq(Acts))  BY DEF TranscriptTypes
<1>2. ASSUME NEW a \in InHand, a.kind \in {"forget", "submit", "clear"}
      PROVE  \E t \in Threads : \E k \in 1..Len(doing[t]) : a = doing[t][k]
  <2>1. \/ \E t \in Threads : \E k \in 1..Len(doing[t]) : a = doing[t][k]
        \/ \E i \in 1..Len(left) : \E k \in 1..Len(left[i]) : a = left[i][k]
    BY Zenon DEF InHand, HandOf
  <2>2. ASSUME NEW i \in 1..Len(left), NEW k \in 1..Len(left[i]), a = left[i][k] PROVE FALSE
    <3>1. left[i][k].kind \in VoiceActs \cup {"persist"}  BY Zenon DEF Agenda, Follower
    <3> QED  BY <1>2, <2>2, <3>1 DEF VoiceActs
  <2> QED  BY <2>1, <2>2, Zenon
<1>3. ASSUME NEW a \in InHand, a.kind = "forget"
      PROVE  \E t \in Threads : Len(doing[t]) = 1 /\ doing[t] # <<>> /\ doing[t][1] = a
  <2>1. PICK t \in Threads : \E k \in 1..Len(doing[t]) : a = doing[t][k]  BY <1>2, <1>3, Zenon
  <2>2. PICK k \in 1..Len(doing[t]) : a = doing[t][k]  BY <2>1
  <2> DEFINE s == doing[t]
             n == Len(s)
  <2>3. Proper(t, s)  BY Zenon DEF Agenda
  <2>4. n \in Nat /\ n <= 2 /\ k \in 1..n
    BY <1>1, <2>3 DEF Proper
  <2>5. n # 2
    <3>1. SUFFICES ASSUME n = 2 PROVE FALSE  OBVIOUS
    <3>2. t = "page"  BY <2>3, <3>1 DEF Proper
    <3>3. s[1].kind = "persist" /\ s[2].kind = "submit"  BY <2>3, <3>1, <3>2, Zenon DEF Proper
    <3>4. k = 1 \/ k = 2  BY <2>4, <3>1
    <3>5. s[k].kind = "forget"  BY <1>3, <2>2
    <3> HIDE DEF s
    <3> QED  BY <3>3, <3>4, <3>5
  <2>6. n = 1 /\ k = 1
    <3> HIDE DEF n
    <3> QED  BY <2>4, <2>5
  <2>7. doing[t] # <<>>  BY <1>1, k \in 1..Len(doing[t])
  <2> QED  BY <2>2, <2>6, <2>7, Zenon
<1>4. ASSUME NEW a \in InHand, a.kind = "submit"
      PROVE  /\ doing["page"] # <<>> /\ doing["page"][Len(doing["page"])] = a
             /\ Len(doing["page"]) \in 1..2
             /\ Len(doing["page"]) = 2 => doing["page"][1].kind = "persist"
  <2>1. PICK t \in Threads : \E k \in 1..Len(doing[t]) : a = doing[t][k]  BY <1>2, <1>4, Zenon
  <2>2. PICK k \in 1..Len(doing[t]) : a = doing[t][k]  BY <2>1
  <2>3. Proper(t, doing[t])  BY Zenon DEF Agenda
  <2>4. doing[t][k].kind \in Threaded(t)  BY <2>3, Zenon DEF Proper
  <2>5. t = "page"  BY <1>4, <2>2, <2>4 DEF Threaded, Threads, VoiceActs
  <2> DEFINE s == doing["page"]
             n == Len(s)
  <2>6. n \in Nat /\ n <= 2 /\ k \in 1..n
    BY <1>1, <2>3, <2>5 DEF Proper, Threads
  <2>7. n = 2 => s[1].kind = "persist" /\ k # 1
    <3>1. SUFFICES ASSUME n = 2 PROVE s[1].kind = "persist" /\ k # 1  OBVIOUS
    <3>2. s[1].kind = "persist"  BY <2>3, <2>5, <3>1, Zenon DEF Proper
    <3> QED  BY <1>4, <2>2, <2>5, <3>2
  <2>8. n \in 1..2 /\ k = n
    <3> HIDE DEF n, s
    <3> QED  BY <2>6, <2>7
  <2>9. s # <<>>  BY <1>1, <2>8
  <2> QED  BY <2>2, <2>5, <2>7, <2>8, <2>9, Zenon
<1>5. ASSUME NEW a \in InHand, a.kind = "clear"
      PROVE  \E k \in 1..Len(doing["link"]) : doing["link"][k] = a
  <2>1. PICK t \in Threads : \E k \in 1..Len(doing[t]) : a = doing[t][k]  BY <1>2, <1>5, Zenon
  <2>2. PICK k \in 1..Len(doing[t]) : a = doing[t][k]  BY <2>1
  <2>3. Proper(t, doing[t])  BY Zenon DEF Agenda
  <2>4. doing[t][k].kind \in Threaded(t)  BY <2>3, Zenon DEF Proper
  <2>5. t = "link"  BY <1>5, <2>2, <2>4 DEF Threaded, Threads, VoiceActs
  <2> QED  BY <2>2, <2>5
<1> QED  BY <1>3, <1>4, <1>5, Zenon

\* What a thread says next, and what is saved beside the page, come from what
\* was there before or from what it was just given.
LEMMA NextWords ==
  ASSUME TranscriptTypes, Agenda, NEW t \in Threads, doing[t] # <<>>, Next_(t), left' = left
  PROVE  /\ SavedAside' => SavedAside
         /\ \A a \in Acts : Ready(a)' =>
              \/ Ready(a) /\ t # "page"
              \/ /\ t = "page" /\ doing[t][1].kind = "persist" /\ a.kind = "submit"
                 /\ doing[t][1].id = a.id /\ doing[t][1].text = a.text
<1>1. doing \in [Threads -> Seq(Acts)] /\ left \in Seq(Seq(Acts))  BY DEF TranscriptTypes
<1>2. "page" \in Threads /\ "window" \in Threads  BY DEF Threads
<1>3. doing'[t] = Tail(doing[t]) /\ \A u \in Threads \ {t} : doing'[u] = doing[u]
  BY NextIs, Zenon
<1> DEFINE s == doing[t]
<1>4. /\ Tail(s) \in Seq(Acts) /\ Len(Tail(s)) = Len(s) - 1 /\ Len(s) \in Nat \ {0}
      /\ \A k \in 1..Len(Tail(s)) : Tail(s)[k] = s[k + 1]
  BY <1>1, TailIs, Zenon
<1>5. SavedAside' => SavedAside
  <2>1. CASE t = "window"
    <3>1. \A k \in 1..Len(Tail(s)) : k + 1 \in 1..Len(s) /\ Tail(s)[k] = s[k + 1]
      <4> DEFINE r == Tail(s)
      <4>1. Len(r) = Len(s) - 1 /\ Len(s) \in Nat \ {0} /\ \A k \in 1..Len(r) : r[k] = s[k + 1]
        BY <1>4
      <4> HIDE DEF r, s
      <4>2. \A k \in 1..Len(r) : k + 1 \in 1..Len(s) /\ r[k] = s[k + 1]  BY <4>1
      <4> QED  BY <4>2 DEF r
    <3>2. \A k \in 1..Len(doing'["window"]) : k + 1 \in 1..Len(s) /\ doing'["window"][k] = s[k + 1]
      BY <1>3, <2>1, <3>1, Zenon
    <3> QED  BY <2>1, <3>2 DEF SavedAside
  <2>2. CASE t # "window"
    <3>1. doing'["window"] = doing["window"]  BY <1>2, <1>3, <2>2
    <3> QED  BY <3>1 DEF SavedAside
  <2> QED  BY <2>1, <2>2
<1>6. ASSUME NEW a \in Acts, Ready(a)', t = "page"
      PROVE  /\ doing[t][1].kind = "persist" /\ a.kind = "submit"
             /\ doing[t][1].id = a.id /\ doing[t][1].text = a.text
  <2> DEFINE n == Len(s)
             r == Tail(s)
             m == Len(r)
  <2>1. r # <<>> /\ r[1] = a /\ a.kind = "submit"  BY <1>3, <1>6 DEF Ready
  <2>2. Proper("page", s)  BY <1>6, Zenon DEF Agenda
  <2>3. r \in Seq(Acts) /\ m = n - 1 /\ n \in Nat \ {0} /\ \A k \in 1..m : r[k] = s[k + 1]
    BY <1>4
  <2>4. n <= 2  BY <2>2 DEF Proper
  <2>5. m # 0
    <3> HIDE DEF r
    <3> QED  BY <2>1, <2>3
  <2>6. n = 2 /\ 1 \in 1..m /\ 1 + 1 = 2
    <3> HIDE DEF n, m, r, s
    <3> QED  BY <2>3, <2>4, <2>5
  <2>7. r[1] = s[1 + 1]  BY <2>3, <2>6, Zenon
  <2>8. a = s[2]
    <3> HIDE DEF r, s
    <3> QED  BY <2>1, <2>6, <2>7
  <2>9. s[1].kind = "persist" /\ s[1].id = s[2].id /\ s[1].text = s[2].text
    BY <2>2, <2>6, Zenon DEF Proper
  <2> QED  BY <2>1, <2>8, <2>9
<1>7. ASSUME NEW a \in Acts, Ready(a)', t # "page" PROVE Ready(a)
  <2>1. doing'["page"] = doing["page"]  BY <1>2, <1>3, <1>7
  <2> QED  BY <1>7, <2>1 DEF Ready
<1> QED  BY <1>5, <1>6, <1>7, Zenon

LEMMA HandleWords ==
  ASSUME TranscriptTypes, Agenda, NEW t \in Threads, NEW e, Handle(t, e), NEW d,
         d = Apply(companion, e), d.actions \in Seq(Acts),
         Waits(Posture(d.companion)) => Follower(d.actions),
         ~Waits(Posture(d.companion)) => Proper(t, d.actions),
         d.actions # <<>> => d.actions[1].kind # "submit"
  PROVE  /\ \/ \A k \in 1..Len(d.actions) : d.actions[k].kind # "persist"
            \/ ~Waits(Posture(d.companion)) /\ t = "page"
            =>
              (SavedAside' => SavedAside)
         /\ \A a \in Acts : Ready(a)' => Ready(a)
         /\ (doing[t] = <<>> \/ doing[t][1].kind # "forget") =>
              \A a \in InHand : a.kind = "forget" => a \in InHand'
<1>1. doing \in [Threads -> Seq(Acts)] /\ left \in Seq(Seq(Acts))  BY DEF TranscriptTypes
<1>2. "page" \in Threads /\ "window" \in Threads  BY DEF Threads
<1> DEFINE s == IF Waits(Posture(d.companion)) THEN <<>> ELSE d.actions
<1>3. /\ doing'[t] = s /\ \A u \in Threads \ {t} : doing'[u] = doing[u]
      /\ doing' \in [Threads -> Seq(Acts)] /\ left' \in Seq(Seq(Acts))
  BY HandleIs, ZenonT(60)
<1>4. left' = left \/ (Waits(Posture(d.companion)) /\ left' = Append(left, d.actions))
  BY Zenon DEF Handle
<1>5. \A i \in 1..Len(left') :
         \/ i \in 1..Len(left) /\ left'[i] = left[i]
         \/ Waits(Posture(d.companion)) /\ left'[i] = d.actions
  <2> DEFINE a == d.actions
             w == Waits(Posture(d.companion))
  <2>1. left \in Seq(Seq(Acts)) /\ a \in Seq(Acts)  BY <1>1
  <2>2. left' = left \/ (w /\ left' = Append(left, a))  BY <1>4
  <2> HIDE DEF a, w
  <2>5. \A i \in 1..Len(left') :
           \/ i \in 1..Len(left) /\ left'[i] = left[i]
           \/ w /\ left'[i] = a
    <3>1. ASSUME left' = left PROVE \A i \in 1..Len(left') : i \in 1..Len(left) /\ left'[i] = left[i]
      BY <3>1
    <3>2. ASSUME w, left' = Append(left, a)
          PROVE  \A i \in 1..Len(left') :
                   \/ i \in 1..Len(left) /\ left'[i] = left[i]
                   \/ w /\ left'[i] = a
      BY <2>1, <3>2
    <3> QED  BY <2>2, <3>1, <3>2
  <2> QED  BY <2>5 DEF a, w
<1>6. s = <<>> \/ s = d.actions  OBVIOUS
<1>7. ASSUME \A k \in 1..Len(d.actions) : d.actions[k].kind # "persist", SavedAside' PROVE SavedAside
  <2>1. CASE \E k \in 1..Len(doing'["window"]) : doing'["window"][k].kind = "persist"
    <3>1. CASE t = "window"
      <4>1. doing'["window"] = <<>> \/ doing'["window"] = d.actions
        <5> HIDE DEF s
        <5> QED  BY <1>3, <1>6, <3>1
      <4> QED  BY <1>7, <2>1, <4>1
    <3>2. CASE t # "window"
      <4>1. doing'["window"] = doing["window"]  BY <1>2, <1>3, <3>2
      <4> QED  BY <2>1, <4>1 DEF SavedAside
    <3> QED  BY <3>1, <3>2
  <2>2. CASE \E i \in 1..Len(left') : \E k \in 1..Len(left'[i]) : left'[i][k].kind = "persist"
    <3>1. PICK i \in 1..Len(left') : \E k \in 1..Len(left'[i]) : left'[i][k].kind = "persist"  BY <2>2
    <3>2. left'[i] # d.actions  BY <1>7, <3>1
    <3>3. i \in 1..Len(left) /\ left'[i] = left[i]  BY <1>5, <3>2
    <3> QED  BY <3>1, <3>3 DEF SavedAside
  <2> QED  BY <1>7, <2>1, <2>2 DEF SavedAside
<1>8. ASSUME ~Waits(Posture(d.companion)), t = "page", SavedAside' PROVE SavedAside
  <2>1. left' = left  BY <1>4, <1>8
  <2>2. doing'["window"] = doing["window"]  BY <1>2, <1>3, <1>8
  <2> QED  BY <1>8, <2>1, <2>2 DEF SavedAside
<1>9. ASSUME NEW a \in Acts, Ready(a)' PROVE Ready(a)
  <2>1. CASE t = "page"
    <3>1. doing'["page"] # <<>> /\ doing'["page"][1] = a /\ a.kind = "submit"  BY <1>9 DEF Ready
    <3>2. s # <<>> /\ s[1].kind = "submit"  BY <1>3, <2>1, <3>1, Zenon
    <3>3. s = d.actions /\ ~Waits(Posture(d.companion))  BY <3>2
    <3> QED  BY <3>2, <3>3
  <2>2. CASE t # "page"
    <3>1. doing'["page"] = doing["page"]  BY <1>2, <1>3, <2>2
    <3> QED  BY <1>9, <3>1 DEF Ready
  <2> QED  BY <2>1, <2>2
<1>10. ASSUME doing[t] = <<>> \/ doing[t][1].kind # "forget", NEW a \in InHand, a.kind = "forget"
       PROVE  a \in InHand'
  <2>1. PICK u \in Threads : Len(doing[u]) = 1 /\ doing[u] # <<>> /\ doing[u][1] = a
    BY <1>10, WhoDoes, Zenon
  <2>2. u # t  BY <1>10, <2>1
  <2>3. doing'[u] = doing[u]  BY <1>3, <2>2
  <2>4. 1 \in 1..Len(doing'[u]) /\ doing'[u][1] = a  BY <2>1, <2>3
  <2>5. doing'[u][1] \in HandOf(doing', left')  BY <1>3, <2>4, HandHolds, Zenon
  <2> QED  BY <2>4, <2>5 DEF InHand
<1> QED  BY <1>7, <1>8, <1>9, <1>10, Zenon

-----------------------------------------------------------------------------
(* A step that is not about words.                                          *)

Voiced == {a \in Acts : a.kind \in VoiceActs}
Forgets(t) == doing[t] # <<>> /\ doing[t][1].kind = "forget"

\* What the hands hold afterwards that is about words, they held before.
Handed ==
  /\ InHand' \subseteq InHand \cup Voiced
  /\ \A t \in Threads : Forgets(t)' => Forgets(t)
  /\ SavedAside' => SavedAside
  /\ \A a \in Acts : Ready(a)' => Ready(a)

Shifted ==
  /\ ~Held /\ ~Held' /\ companion'.id = NoId /\ companion'.delivery = "refused"
  /\ companion'.commands = companion.commands
  /\ \/ companion.phase \in {"listening", "transcribing", "failed"}
     \/ InHand = {} \/ companion'.phase = "resting"
  /\ companion'.phase \in {"listening", "transcribing"} => companion.commands < MaxDictations

Quiet ==
  /\ SameWords(companion, companion') \/ Shifted
  /\ Handed /\ \A a \in InHand : a.kind = "forget" => a \in InHand'
  /\ UNCHANGED <<disk, wire, taken, asked, fate, attempts>>
  /\ answers' \subseteq answers
  /\ \A m \in timers' : m \in timers
  /\ \A e \in late' : e \in late \/ (e.kind # "submission_failed" /\ e.id <= companion.commands)
  /\ running' = running \/ (running # "up" /\ running' # "up")

LEMMA QuietPhased ==
  ASSUME TranscriptTypes, TranscriptTypes', Phased, Quiet PROVE Phased'
<1>1. \A a \in InHand' : a.kind \in Wording => a \in InHand
  BY DEF Quiet, Handed, Voiced, VoiceActs, Wording
<1>2. \A kinds : kinds \subseteq Wording => (PendingKind(kinds)' => PendingKind(kinds))
  BY <1>1 DEF PendingKind
<1>3. /\ PendingKind(Wording)' => PendingKind(Wording)
      /\ PendingKind({"forget", "clear"})' => PendingKind({"forget", "clear"})
      /\ PendingKind({"forget"})' => PendingKind({"forget"})
      /\ PendingKind({"persist", "submit", "clear"})' => PendingKind({"persist", "submit", "clear"})
  BY <1>1 DEF PendingKind, Wording
<1>4. InHand = {} \/ companion.phase \in {"listening", "transcribing", "failed"} => ~PendingKind(Wording)
  BY DEF PendingKind, Phased
<1>5. ~PendingKind(Wording) => ~PendingKind({"forget", "clear"})
  BY DEF PendingKind, Wording
<1>6. \A t, u \in Threads : Forgets(t)' /\ Forgets(u)' => t = u
  BY DEF Quiet, Handed, Phased, Forgets
<1>7. companion'.phase = "sent" => ~SavedAside'
  BY DEF Quiet, SameWords, Shifted, Held, Holding, Handed, Phased
<1>8. CASE SameWords(companion, companion')
  BY <1>3, <1>6, <1>7, <1>8 DEF Phased, SameWords, Held, Forgets
<1>9. CASE Shifted
  BY <1>3, <1>4, <1>5, <1>6, <1>7, <1>9 DEF Phased, Shifted, Held, Forgets, Holding
<1> QED  BY <1>8, <1>9 DEF Quiet

LEMMA QuietTogether ==
  ASSUME TranscriptTypes, TranscriptTypes', Together, Quiet PROVE Together'
<1>1. \A a \in InHand' : a.kind \in Wording => a \in InHand
  BY DEF Quiet, Handed, Voiced, VoiceActs, Wording
<1>2. Held' => Held /\ companion'.id = companion.id /\ companion'.text = companion.text
  BY DEF Quiet, SameWords, Shifted, Held
<1> QED  BY <1>1, <1>2 DEF Together, Wording

LEMMA QuietKnown ==
  ASSUME TranscriptTypes, TranscriptTypes', Known, Quiet PROVE Known'
<1>1. \A a \in InHand' : a.kind \in Wording => a \in InHand
  BY DEF Quiet, Handed, Voiced, VoiceActs, Wording
<1>2. companion'.commands = companion.commands
  BY DEF Quiet, SameWords, Shifted
<1>3. PendingKind({"submit"})' => PendingKind({"submit"})
  BY <1>1 DEF PendingKind, Wording
<1>4. \A e \in late' : e.id <= companion.commands
  BY DEF Quiet, Known
<1> QED  BY <1>1, <1>2, <1>3, <1>4 DEF Known, Wording, Quiet

LEMMA QuietFates ==
  ASSUME TranscriptTypes, TranscriptTypes', Fates, Quiet PROVE Fates'
<1>1. \A a \in InHand' : a.kind \in Wording => a \in InHand
  BY DEF Quiet, Handed, Voiced, VoiceActs, Wording
<1>2. (Held' <=> Held) /\ (Held => companion'.id = companion.id)
  BY DEF Quiet, SameWords, Shifted, Held
<1>3. fate' = fate /\ disk' = disk /\ wire' = wire /\ taken' = taken /\ answers' \subseteq answers
  BY DEF Quiet
<1>4. running' = "up" <=> running = "up"
  BY DEF Quiet
<1>5. InHand' \subseteq Acts
  BY DEF InHand, HandOf
<1>6. \A id \in Ids : running' = "up" /\ Needed(id)' =>
        \/ Held' /\ companion'.id = id
        \/ \E a \in InHand' : a.kind = "forget" /\ a.id = id
  <2> TAKE id \in Ids
  <2>1. Needed(id)' <=> Needed(id)  BY <1>3 DEF Needed
  <2>2. running = "up" /\ Needed(id) =>
        \/ Held /\ companion.id = id
        \/ \E a \in InHand : a.kind = "forget" /\ a.id = id
    BY DEF Fates
  <2>3. \A a \in InHand : a.kind = "forget" => a \in InHand'  BY DEF Quiet
  <2> QED  BY <1>2, <1>4, <2>1, <2>2, <2>3
<1>7. \A a \in InHand' : Ready(a)' => fate'[a.id] # "spoken"
  <2> TAKE a \in InHand'
  <2>1. Ready(a)' => Ready(a) /\ a.kind = "submit"  BY <1>5 DEF Quiet, Handed, Ready
  <2>2. a.kind = "submit" => a \in InHand  BY <1>1 DEF Wording
  <2> QED  BY <1>3, <2>1, <2>2 DEF Fates
<1>8. \A a \in InHand' : a.kind \in {"persist", "submit"} => fate'[a.id] # "discarded"
  BY <1>1, <1>3 DEF Fates, Wording
<1>9. \A id \in Ids : fate'[id] = "spoken" => running' = "up"
  BY <1>3, <1>4 DEF Fates
<1> QED  BY <1>2, <1>3, <1>6, <1>7, <1>8, <1>9 DEF Fates

LEMMA QuietCounted ==
  ASSUME TranscriptTypes, TranscriptTypes', Phased, Counted, Quiet PROVE Counted'
<1>1. \A a \in InHand' : a.kind \in Wording => a \in InHand
  BY DEF Quiet, Handed, Voiced, VoiceActs, Wording
<1>2. Held' => Held /\ companion'.id = companion.id /\ companion'.delivery = companion.delivery
               /\ companion'.phase = companion.phase
  BY DEF Quiet, SameWords, Shifted, Held
<1>3. wire' = wire /\ taken' = taken /\ asked' = asked /\ answers' \subseteq answers
  BY DEF Quiet
<1>4. \A id \in Ids : Due(id) \in 0..1 /\ Due(id)' \in 0..1 /\ Due(id)' <= Due(id)
  <2> TAKE id \in Ids
  <2>1. (\E a \in InHand' : a.kind = "submit" /\ a.id = id) => (\E a \in InHand : a.kind = "submit" /\ a.id = id)
    BY <1>1 DEF Wording
  <2> QED  BY <2>1 DEF Due
<1>5. \A id \in Ids : /\ FailedLate(id) \in 0..1 /\ FailedLate(id)' \in 0..1 /\ FailedLate(id)' <= FailedLate(id)
                      /\ FailedAnswer(id) \in 0..1 /\ FailedAnswer(id)' \in 0..1 /\ FailedAnswer(id)' <= FailedAnswer(id)
  <2> TAKE id \in Ids
  <2> DEFINE e == Event("submission_failed", id, Empty)
  <2>1. e.kind = "submission_failed"  BY DEF Event
  <2>2. e \in late' => e \in late
    <3> HIDE DEF e
    <3> QED  BY <2>1 DEF Quiet
  <2>3. e \in answers' => e \in answers  BY <1>3
  <2> HIDE DEF e
  <2>4. /\ FailedLate(id) = (IF e \in late THEN 1 ELSE 0) /\ FailedLate(id)' = (IF e \in late' THEN 1 ELSE 0)
        /\ FailedAnswer(id) = (IF e \in answers THEN 1 ELSE 0)
        /\ FailedAnswer(id)' = (IF e \in answers' THEN 1 ELSE 0)
    BY DEF FailedLate, FailedAnswer, e
  <2> QED  BY <2>2, <2>3, <2>4
<1>6. \A id \in Ids : Spent(id) \in Nat /\ Spent(id)' \in Nat /\ Spent(id)' <= Spent(id)
  <2> TAKE id \in Ids
  <2>1. Len(taken[id]) \in Nat  BY DEF TranscriptTypes
  <2>2. OnWire(id) \subseteq wire  BY DEF OnWire
  <2>3. IsFiniteSet(OnWire(id))  BY <2>2, FS_Subset DEF TranscriptTypes
  <2>4. Cardinality(OnWire(id)) \in Nat  BY <2>3, FS_CardinalityType
  <2>5. OnWire(id)' = OnWire(id)  BY <1>3 DEF OnWire
  <2> DEFINE n == Len(taken[id])
             c == Cardinality(OnWire(id))
  <2>6. Due(id) \in 0..1 /\ Due(id)' \in 0..1  BY DEF Due
  <2>7. Due(id)' <= Due(id)  BY <1>4
  <2>8. n \in Nat /\ c \in Nat  BY <2>1, <2>4
  <2>9. Spent(id) = n + c + Due(id) /\ Spent(id)' = n + c + Due(id)'
    BY <1>3, <2>5 DEF Spent
  <2> HIDE DEF n, c
  <2> QED  BY <2>6, <2>7, <2>8, <2>9
<1>8. \A id \in Ids : Spent(id)' <= 1 + asked'[id]
  BY <1>3, <1>6 DEF Counted, TranscriptTypes
<1>9. ASSUME NEW id \in Ids, Held', companion'.id = id, companion'.delivery = "refused"
      PROVE  /\ asked'[id] = 0
             /\ Spent(id)' + FailedLate(id)' + FailedAnswer(id)'
                  <= (IF companion'.phase = "sent" THEN 1 ELSE 0)
  <2>1. companion.id = id /\ companion'.phase = companion.phase
    BY <1>2, <1>9
  <2>2. /\ asked[id] = 0
        /\ Spent(id) + FailedLate(id) + FailedAnswer(id) <= (IF companion.phase = "sent" THEN 1 ELSE 0)
    BY <1>2, <1>9, Zenon DEF Counted
  <2>3. Spent(id)' + FailedLate(id)' + FailedAnswer(id)' <= (IF companion.phase = "sent" THEN 1 ELSE 0)
    BY <1>5, <1>6, <2>2
  <2> QED  BY <1>3, <2>1, <2>2, <2>3
<1> QED  BY <1>8, <1>9 DEF Counted

LEMMA QuietWorded ==
  ASSUME TranscriptTypes, TranscriptTypes', Worded, Quiet PROVE Worded'
<1>1. \A a \in InHand' : a.kind \in Wording => a \in InHand
  BY DEF Quiet, Handed, Voiced, VoiceActs, Wording
<1>2. Held' => Held /\ companion'.id = companion.id /\ companion'.text = companion.text
  BY DEF Quiet, SameWords, Shifted, Held
<1>3. disk' = disk /\ \A id, x : Out(id, x)' <=> Out(id, x)
  BY DEF Quiet, Out
<1>4. InHand' \subseteq Acts
  BY DEF InHand, HandOf
<1>5. \A a \in InHand' : Ready(a)' => Ready(a) /\ a \in InHand
  BY <1>1, <1>4 DEF Quiet, Handed, Ready, Wording
<1> QED  BY <1>1, <1>2, <1>3, <1>5 DEF Worded, Wording

LEMMA QuietKeeps ==
  ASSUME TranscriptTypes, TranscriptTypes', WordsInv, Quiet PROVE WordsInv'
  BY QuietPhased, QuietTogether, QuietKnown, QuietFates, QuietCounted, QuietWorded, Zenon DEF WordsInv

-----------------------------------------------------------------------------
(* The steps that are not about words.                                      *)

LEMMA VoiceActIs ==
  ASSUME NEW kind \in VoiceActs
  PROVE  /\ Act(kind, NoId, Empty) \in Voiced /\ <<Act(kind, NoId, Empty)>> \in Seq(Acts)
         /\ Follower(<<Act(kind, NoId, Empty)>>)
         /\ {<<Act(kind, NoId, Empty)>>[k] : k \in 1..Len(<<Act(kind, NoId, Empty)>>)} \subseteq Voiced
         /\ \A k \in 1..Len(<<Act(kind, NoId, Empty)>>) : <<Act(kind, NoId, Empty)>>[k].kind \in VoiceActs
<1> DEFINE a == Act(kind, NoId, Empty)
<1>1. a \in Acts /\ a.kind = kind
  BY BoundsAssumption DEF Act, Acts, ActKinds, NoId
<1>2. a \in Voiced  BY <1>1 DEF Voiced
<1> HIDE DEF a
<1>3. <<a>> \in Seq(Acts) /\ Len(<<a>>) = 1 /\ <<a>>[1] = a  BY <1>1
<1>4. \A k \in 1..Len(<<a>>) : <<a>>[k] = a  BY <1>3
<1>5. Follower(<<a>>)  BY <1>1, <1>3 DEF Follower
<1>6. {<<a>>[k] : k \in 1..Len(<<a>>)} \subseteq Voiced  BY <1>2, <1>4
<1>7. \A k \in 1..Len(<<a>>) : <<a>>[k].kind \in VoiceActs  BY <1>1, <1>4
<1> QED  BY <1>2, <1>3, <1>5, <1>6, <1>7 DEF a

LEMMA NoActs ==
  /\ <<>> \in Seq(Acts) /\ Follower(<<>>) /\ \A t \in Threads : Proper(t, <<>>)
  /\ {(<<>>)[k] : k \in 1..Len(<<>>)} \subseteq Voiced
  /\ \A k \in 1..Len(<<>>) : (<<>>)[k].kind \in VoiceActs
<1>1. <<>> \in Seq(Acts) /\ Follower(<<>>) /\ Len(<<>>) = 0  BY DEF Follower
<1>2. \A k \in 1..Len(<<>>) : FALSE  BY <1>1
<1> QED  BY <1>1, <1>2, ProperEmpty

LEMMA IdleHands == ASSUME Idle PROVE InHand = {} /\ ~SavedAside
<1>1. left = <<>> /\ \A t \in Threads : doing[t] = <<>>  BY DEF Idle
<1>2. Len(<<>>) = 0  OBVIOUS
<1>3. "window" \in Threads  BY DEF Threads
<1>4. InHand = {}
  BY <1>1, <1>2 DEF InHand, HandOf
<1>5. ~SavedAside
  BY <1>1, <1>2, <1>3 DEF SavedAside
<1> QED  BY <1>4, <1>5

LEMMA FateIs ==
  ASSUME NEW e, NEW d, e.kind \notin {"transcribed", "acknowledged", "discard_failed"}
  PROVE  FateAfter(e, d) = fate
  BY DEF FateAfter

\* What is left to show of the types for a step of one event: the pill, the
\* hands and the fates.
Handled ==
  /\ companion' \in Companions /\ companion'.commands \in 0..MaxDictations
  /\ companion'.id \in 0..MaxDictations
  /\ doing' \in [Threads -> Seq(Acts)] /\ left' \in Seq(Seq(Acts)) /\ Agenda'

LEMMA HandledTypes ==
  ASSUME TranscriptTypes, Handled, UNCHANGED <<running, disk, attempts, wire, taken>>,
         late' \subseteq late, answers' \subseteq answers, timers' = timers,
         voice' \in {"off", "recording", "finishing"}, asked' \in [Ids -> Nat],
         fate' \in [Ids -> {"unspoken", "spoken", "stored", "settled", "discarded", "abandoned", "dropped"}]
  PROVE  TranscriptTypes'
<1>0. /\ running' = running /\ disk' = disk /\ attempts' = attempts
      /\ wire' = wire /\ taken' = taken /\ timers' = timers
  OBVIOUS
<1>1. /\ running' \in {"down", "starting", "up"}
      /\ disk' \in {NoRecord} \cup {Tombstone(id) : id \in Ids}
                   \cup {Record(id, text) : id \in Ids, text \in Texts}
      /\ attempts' \in 0..MaxSends
  BY DEF TranscriptTypes
<1>2. /\ wire' \in SUBSET Messages /\ IsFiniteSet(wire') /\ \A m \in wire' : m.attempt <= attempts'
      /\ timers' \in SUBSET [id : Ids, attempt : Nat]
      /\ taken' \in [Ids -> Seq(Texts)]
  BY <1>0 DEF TranscriptTypes
<1>3. /\ late' \in SUBSET [kind : LateKinds, id : 0..MaxDictations, text : {Empty}]
      /\ answers' \in SUBSET [kind : AnswerKinds, id : Ids, text : {Empty}]
  BY DEF TranscriptTypes
<1>4. /\ companion' \in Companions /\ companion'.commands \in 0..MaxDictations
      /\ companion'.id \in 0..MaxDictations
      /\ doing' \in [Threads -> Seq(Acts)] /\ left' \in Seq(Seq(Acts))
  BY Zenon DEF Handled
<1> QED  BY <1>1, <1>2, <1>3, <1>4, SMTT(60) DEF TranscriptTypes

\* Actions a thread or a window can be given that are not about words.
Quietly(s) ==
  /\ s \in Seq(Acts) /\ Follower(s)
  /\ {s[k] : k \in 1..Len(s)} \subseteq Voiced
  /\ \A k \in 1..Len(s) : s[k].kind \in VoiceActs

LEMMA QuietActs ==
  /\ Quietly(<<>>)
  /\ \A kind \in VoiceActs : Quietly(<<Act(kind, NoId, Empty)>>)
<1>1. Quietly(<<>>)  BY NoActs, Zenon DEF Quietly
<1>2. \A kind \in VoiceActs : Quietly(<<Act(kind, NoId, Empty)>>)  BY VoiceActIs, Zenon DEF Quietly
<1> QED  BY <1>1, <1>2

LEMMA QuietHandle ==
  ASSUME TranscriptTypes, Agenda, NEW t \in Threads, NEW e, Handle(t, e), NEW d,
         d = Apply(companion, e), Quietly(d.actions),
         ~Waits(Posture(d.companion)) => Proper(t, d.actions)
  PROVE  /\ companion' = d.companion /\ fate' = FateAfter(e, d)
         /\ doing' \in [Threads -> Seq(Acts)] /\ left' \in Seq(Seq(Acts)) /\ Agenda'
         /\ doing'[t] = (IF Waits(Posture(d.companion)) THEN <<>> ELSE d.actions)
         /\ Handed
         /\ (doing[t] = <<>> \/ doing[t][1].kind # "forget") =>
              \A a \in InHand : a.kind = "forget" => a \in InHand'
<1> DEFINE s == d.actions
<1>1. s \in Seq(Acts) /\ Follower(s) /\ {s[k] : k \in 1..Len(s)} \subseteq Voiced
  BY Zenon DEF Quietly
<1>2. \A k \in 1..Len(s) : s[k].kind \in VoiceActs  BY Zenon DEF Quietly
<1>3. s # <<>> => s[1].kind \in VoiceActs  BY <1>1, <1>2
<1>4. s # <<>> => s[1].kind # "submit" /\ s[1].kind # "forget"  BY <1>3 DEF VoiceActs
<1>5. \A k \in 1..Len(s) : s[k].kind # "persist"  BY <1>2 DEF VoiceActs
<1>6. /\ companion' = d.companion /\ fate' = FateAfter(e, d)
      /\ doing' \in [Threads -> Seq(Acts)] /\ left' \in Seq(Seq(Acts)) /\ Agenda'
      /\ InHand' \subseteq InHand \cup {s[k] : k \in 1..Len(s)}
      /\ doing'[t] = (IF Waits(Posture(d.companion)) THEN <<>> ELSE s)
      /\ \A u \in Threads \ {t} : doing'[u] = doing[u]
  <2>1. d.actions \in Seq(Acts) /\ Follower(d.actions)  BY <1>1
  <2> QED  BY <2>1, HandleIs, SMTT(60)
<1>7. /\ SavedAside' => SavedAside
      /\ \A a \in Acts : Ready(a)' => Ready(a)
      /\ (doing[t] = <<>> \/ doing[t][1].kind # "forget") =>
           \A a \in InHand : a.kind = "forget" => a \in InHand'
  BY <1>1, <1>4, <1>5, HandleWords, Zenon
<1>8. \A u \in Threads : Forgets(u)' => Forgets(u)
  <2> SUFFICES ASSUME NEW u \in Threads, Forgets(u)' PROVE Forgets(u)
    OBVIOUS
  <2>1. CASE u = t
    <3>1. doing'[t] # <<>> /\ doing'[t][1].kind = "forget"  BY <2>1 DEF Forgets
    <3>2. doing'[t] = s
      <4> HIDE DEF s
      <4> QED  BY <1>6, <3>1
    <3> QED  BY <1>4, <3>1, <3>2
  <2>2. CASE u # t
    <3>1. doing'[u] = doing[u]  BY <1>6, <2>2
    <3> QED  BY <3>1 DEF Forgets
  <2> QED  BY <2>1, <2>2
<1>9. InHand' \subseteq InHand \cup Voiced
  <2> HIDE DEF s
  <2> QED  BY <1>1, <1>6
<1> QED  BY <1>6, <1>7, <1>8, <1>9 DEF Handed

\* A step that applies one event to no one's words.
LEMMA HandleKeeps ==
  ASSUME TInv, running = "up", NEW t \in Threads, NEW e, Handle(t, e), NEW d,
         d = Apply(companion, e), d.companion \in Companions, Quietly(d.actions),
         ~Waits(Posture(d.companion)) => Proper(t, d.actions),
         doing[t] = <<>> \/ doing[t][1].kind # "forget",
         FateAfter(e, d) = fate,
         SameWords(companion, companion') \/ Shifted,
         UNCHANGED <<running, disk, attempts, wire, taken, asked, timers>>,
         late' \subseteq late, answers' \subseteq answers,
         voice' \in {"off", "recording", "finishing"}
  PROVE  TInv'
<1>0. TranscriptTypes /\ Agenda /\ WordsInv  BY Zenon DEF TInv
<1>1. /\ companion' = d.companion /\ fate' = FateAfter(e, d)
      /\ doing' \in [Threads -> Seq(Acts)] /\ left' \in Seq(Seq(Acts)) /\ Agenda'
      /\ Handed /\ \A a \in InHand : a.kind = "forget" => a \in InHand'
  BY <1>0, QuietHandle, Zenon
<1>2. fate' = fate  BY <1>1
<1>3. /\ running' = running /\ disk' = disk /\ attempts' = attempts /\ wire' = wire
      /\ taken' = taken /\ asked' = asked /\ timers' = timers
  OBVIOUS
<1>4. Quiet
  BY <1>1, <1>2, <1>3 DEF Quiet
<1>5. Handled
  <2>1. companion' \in Companions  BY <1>1
  <2>2. /\ companion.commands \in 0..MaxDictations /\ companion.id \in 0..MaxDictations
        /\ NoId \in 0..MaxDictations
    BY <1>0, BoundsAssumption DEF TranscriptTypes, NoId
  <2>3. companion'.commands = companion.commands /\ (companion'.id = companion.id \/ companion'.id = NoId)
    BY DEF SameWords, Shifted
  <2>4. companion'.commands \in 0..MaxDictations /\ companion'.id \in 0..MaxDictations
    BY <2>2, <2>3
  <2> QED  BY <1>1, <2>1, <2>4, Zenon DEF Handled
<1>6. TranscriptTypes'
  <2>1. /\ asked' \in [Ids -> Nat]
        /\ fate' \in [Ids -> {"unspoken", "spoken", "stored", "settled", "discarded", "abandoned", "dropped"}]
    BY <1>0, <1>2, <1>3 DEF TranscriptTypes
  <2> QED  BY <1>0, <1>3, <1>5, <2>1, HandledTypes
<1>7. WordsInv'  BY <1>0, <1>4, <1>6, QuietKeeps
<1>8. Unstarted'  BY <1>3 DEF Unstarted
<1> QED  BY <1>1, <1>6, <1>7, <1>8 DEF TInv

LEMMA ActivateKeeps ==
  ASSUME TInv, ~Hasty, Activate PROVE TInv'
<1> DEFINE e == Plain("activate")
           d == Apply(companion, e)
<1>0. WordsInv /\ companion \in Companions /\ voice \in {"off", "recording", "finishing"}
  BY DEF TInv, TranscriptTypes
<1>1. /\ running = "up" /\ Idle /\ Handle("keys", e) /\ doing["keys"] = <<>>
      /\ UNCHANGED <<running, voice, disk, outside, taken, bounds, asked>>
      /\ companion.commands < MaxDictations \/ companion.phase = "listening"
  BY Zenon DEF Activate, Gesture
<1>2. "keys" \in Threads /\ {"start", "stop"} \subseteq VoiceActs  BY DEF Threads, VoiceActs
<1>3. /\ d.companion \in Companions
      /\ companion.phase \in {"resting", "failed"} =>
           /\ Wordless(d.companion, "listening", companion.commands)
           /\ d.actions = <<Act("start", NoId, Empty)>> /\ Waits(Posture(d.companion))
      /\ companion.phase = "listening" =>
           /\ Wordless(d.companion, "transcribing", companion.commands)
           /\ d.actions = <<Act("stop", NoId, Empty)>> /\ Waits(Posture(d.companion))
      /\ companion.phase \notin {"resting", "failed", "listening"} =>
           SameWords(companion, d.companion) /\ d.actions = <<>>
  BY <1>0, ActivateIs, Zenon
<1>4. e.kind = "activate"  BY DEF Plain, Event
<1>5. companion' = d.companion  BY <1>1 DEF Handle
<1>6. d = Apply(companion, e)  OBVIOUS
<1> HIDE DEF d, e
<1>7. Quietly(d.actions) /\ (~Waits(Posture(d.companion)) => d.actions = <<>>)
  <2>1. Quietly(<<Act("start", NoId, Empty)>>) /\ Quietly(<<Act("stop", NoId, Empty)>>) /\ Quietly(<<>>)
    BY <1>2, QuietActs
  <2> QED  BY <1>3, <2>1
<1>8. ~Waits(Posture(d.companion)) => Proper("keys", d.actions)
  BY <1>2, <1>7, ProperEmpty
<1>9. FateAfter(e, d) = fate  BY <1>4, FateIs
<1>10. InHand = {}  BY <1>1, IdleHands
<1>11. SameWords(companion, companion') \/ Shifted
  <2>1. CASE companion.phase \in {"resting", "failed"}
    BY <1>1, <1>3, <1>5, <1>10, <2>1 DEF Shifted, Wordless, Held, Holding
  <2>2. CASE companion.phase = "listening"
    BY <1>0, <1>3, <1>5, <1>10, <2>2 DEF Shifted, Wordless, Held, Holding, WordsInv, Phased
  <2> QED  BY <1>3, <1>5, <2>1, <2>2
<1>12. /\ UNCHANGED <<running, disk, attempts, wire, taken, asked, timers>>
       /\ late' \subseteq late /\ answers' \subseteq answers
       /\ voice' \in {"off", "recording", "finishing"}
  BY <1>0, <1>1 DEF outside
<1> QED  BY <1>1, <1>2, <1>3, <1>6, <1>7, <1>8, <1>9, <1>11, <1>12, HandleKeeps

\* Escape where nothing is held.
LEMMA LeaveKeeps ==
  ASSUME TInv, ~Hasty, Escape, ~Held PROVE TInv'
<1> DEFINE e == Plain("escape")
           d == Apply(companion, e)
<1>0. WordsInv /\ companion \in Companions /\ voice \in {"off", "recording", "finishing"}
  BY DEF TInv, TranscriptTypes
<1>1. PICK t \in {"keys", "page"} : Gesture(t, e)  BY Zenon DEF Escape
<1>2. /\ running = "up" /\ Idle /\ Handle(t, e) /\ doing[t] = <<>>
      /\ UNCHANGED <<running, voice, disk, outside, taken, bounds>> /\ asked' = asked
  BY <1>1, Zenon DEF Escape, Gesture
<1>3. t \in Threads /\ {"discard", "cancel"} \subseteq VoiceActs  BY DEF Threads, VoiceActs
<1>4. /\ d.companion \in Companions
      /\ companion.phase \notin {"resting", "sent"} => Wordless(d.companion, "resting", companion.commands)
      /\ companion.phase \in {"resting", "sent"} => SameWords(companion, d.companion)
      /\ d.actions = (CASE companion.phase = "listening" -> <<Act("discard", NoId, Empty)>>
                        [] companion.phase = "transcribing" -> <<Act("cancel", NoId, Empty)>>
                        [] companion.phase \in {"editing", "retained"} -> <<Act("forget", companion.id, Empty)>>
                        [] OTHER -> <<>>)
  BY <1>0, EscapeIs, Zenon
<1>5. e.kind = "escape"  BY DEF Plain, Event
<1>6. companion' = d.companion  BY <1>2 DEF Handle
<1>7. d = Apply(companion, e)  OBVIOUS
<1> HIDE DEF d, e
<1>8. d.actions \in {<<>>, <<Act("discard", NoId, Empty)>>, <<Act("cancel", NoId, Empty)>>}
  BY <1>4 DEF Held, Holding
<1>9. Quietly(d.actions)
  <2>1. Quietly(<<Act("discard", NoId, Empty)>>) /\ Quietly(<<Act("cancel", NoId, Empty)>>) /\ Quietly(<<>>)
    BY <1>3, QuietActs
  <2> QED  BY <1>8, <2>1
<1>10. Proper(t, d.actions)
  <2>1. Proper(t, <<>>)  BY <1>3, ProperEmpty
  <2>2. Proper(t, <<Act("discard", NoId, Empty)>>) /\ Proper(t, <<Act("cancel", NoId, Empty)>>)
    BY DEF Proper, Threaded, Act
  <2> QED  BY <1>8, <2>1, <2>2
<1>11. FateAfter(e, d) = fate  BY <1>5, FateIs
<1>12. SameWords(companion, companion') \/ Shifted
  BY <1>4, <1>6 DEF Shifted, Wordless, Held, Holding
<1>13. /\ UNCHANGED <<running, disk, attempts, wire, taken, asked, timers>>
       /\ late' \subseteq late /\ answers' \subseteq answers
       /\ voice' \in {"off", "recording", "finishing"}
  BY <1>0, <1>2 DEF outside
<1> QED  BY <1>2, <1>3, <1>4, <1>7, <1>9, <1>10, <1>11, <1>12, <1>13, HandleKeeps

\* An event that is about the words held.
Hits(e) ==
  /\ companion.id = e.id
  /\ \/ e.kind = "acknowledged" /\ companion.phase \in {"sent", "retained"}
     \/ e.kind \in {"submission_failed", "submission_uncertain"} /\ companion.phase = "sent"

LEMMA FailedIs ==
  ASSUME NEW c \in Companions
  PROVE  Without(c, "failed") \in Companions /\ Wordless(Without(c, "failed"), "failed", c.commands)
<1>1. "failed" \in Phases  BY DEF Phases
<1> QED  BY <1>1, WithoutFits DEF Wordless

\* An answer, a timer or a failed recording that comes after the words it is about.
LEMMA MissKeeps ==
  ASSUME TInv, running = "up", NEW t \in {"window", "link"},
         NEW e \in [kind : LateKinds \cup AnswerKinds, id : Nat, text : {Empty}],
         Handle(t, e), ~Hits(e), e.kind = "recording_failed" => t = "window",
         doing[t] = <<>>,
         UNCHANGED <<running, disk, attempts, wire, taken, asked, timers, voice>>,
         late' \subseteq late, answers' \subseteq answers
  PROVE  TInv'
<1> DEFINE d == Apply(companion, e)
<1>0. WordsInv /\ companion \in Companions /\ voice' \in {"off", "recording", "finishing"}
  BY DEF TInv, TranscriptTypes
<1>1. t \in Threads /\ {"discard", "cancel"} \subseteq VoiceActs  BY DEF Threads, VoiceActs
<1>2. /\ e.kind = "acknowledged" =>
           d = (IF companion.phase \in {"sent", "retained"} /\ companion.id = e.id
                THEN Done(Without(companion, "resting"), <<Act("clear", NoId, Empty)>>)
                ELSE Done(companion, <<>>))
      /\ e.kind = "submission_failed" =>
           d = (IF companion.phase = "sent" /\ companion.id = e.id
                THEN Done(Retain(companion, companion.delivery, FALSE), <<>>) ELSE Done(companion, <<>>))
      /\ e.kind = "submission_uncertain" =>
           d = (IF companion.phase = "sent" /\ companion.id = e.id
                THEN Done(Retain(companion, "uncertain", FALSE), <<>>) ELSE Done(companion, <<>>))
      /\ e.kind = "recording_failed" =>
           d = (CASE companion.phase = "listening" -> Done(Without(companion, "failed"), <<Act("discard", NoId, Empty)>>)
                  [] companion.phase = "transcribing" -> Done(Without(companion, "failed"), <<Act("cancel", NoId, Empty)>>)
                  [] OTHER -> Done(companion, <<>>))
  BY <1>0, AnswerIs, Zenon
<1>3. companion' = d.companion  BY DEF Handle
<1>4. d = Apply(companion, e)  OBVIOUS
<1> HIDE DEF d
<1>5. \/ d = Done(companion, <<>>)
      \/ /\ e.kind = "recording_failed" /\ companion.phase \in {"listening", "transcribing"}
         /\ \/ d = Done(Without(companion, "failed"), <<Act("discard", NoId, Empty)>>)
            \/ d = Done(Without(companion, "failed"), <<Act("cancel", NoId, Empty)>>)
  BY <1>2 DEF Hits, LateKinds, AnswerKinds
<1>6. /\ d.companion \in Companions
      /\ d.actions \in {<<>>, <<Act("discard", NoId, Empty)>>, <<Act("cancel", NoId, Empty)>>}
      /\ d.actions = <<>> \/ e.kind = "recording_failed"
  BY <1>0, <1>5, FailedIs DEF Done
<1>7. Quietly(d.actions)
  <2>1. Quietly(<<Act("discard", NoId, Empty)>>) /\ Quietly(<<Act("cancel", NoId, Empty)>>) /\ Quietly(<<>>)
    BY <1>1, QuietActs
  <2> QED  BY <1>6, <2>1
<1>8. Proper(t, d.actions)
  <2>1. Proper(t, <<>>)  BY <1>1, ProperEmpty
  <2>2. Proper("window", <<Act("discard", NoId, Empty)>>) /\ Proper("window", <<Act("cancel", NoId, Empty)>>)
    BY DEF Proper, Threaded, Act, VoiceActs
  <2> QED  BY <1>6, <2>1, <2>2
<1>9. FateAfter(e, d) = fate
  BY <1>6 DEF FateAfter, LateKinds, AnswerKinds
<1>10. SameWords(companion, companion') \/ Shifted
  <2>1. CASE d = Done(companion, <<>>)
    BY <1>3, <2>1 DEF SameWords, Done
  <2>2. CASE companion.phase \in {"listening", "transcribing"} /\ companion' = Without(companion, "failed")
    <3>1. Wordless(companion', "failed", companion.commands)
      BY <1>0, <2>2, FailedIs
    <3> QED  BY <2>2, <3>1 DEF Shifted, Wordless, Held, Holding
  <2> QED  BY <1>3, <1>5, <2>1, <2>2 DEF Done
<1>11. UNCHANGED <<running, disk, attempts, wire, taken, asked, timers>>  OBVIOUS
<1> QED  BY <1>0, <1>1, <1>4, <1>6, <1>7, <1>8, <1>9, <1>10, <1>11, HandleKeeps

\* A transcription that brings no words, or comes to a pill that stopped waiting.
LEMMA NothingHeardKeeps ==
  ASSUME TInv, running = "up", NEW e, Handle("window", e),
         \/ e = Plain("transcription_failed")
         \/ \E x \in Texts \cup {Empty} : e = Event("transcribed", NoId, x) /\ (companion.phase # "transcribing" \/ x = Empty),
         doing["window"] = <<>>, voice' = "off",
         UNCHANGED <<running, disk, attempts, wire, taken, asked, timers, late, answers>>
  PROVE  TInv'
<1> DEFINE d == Apply(companion, e)
<1>0. WordsInv /\ companion \in Companions  BY DEF TInv, TranscriptTypes
<1>1. "window" \in Threads  BY DEF Threads
<1>2. \/ d = Done(companion, <<>>)
      \/ companion.phase = "transcribing" /\ d = Done(Without(companion, "failed"), <<>>)
  <2>1. CASE e = Plain("transcription_failed")
    <3>1. Apply(companion, Plain("transcription_failed")) =
            (IF companion.phase # "transcribing" THEN Done(companion, <<>>)
             ELSE Done(Without(companion, "failed"), <<>>))
      BY <1>0, HeardIs, Zenon
    <3> QED  BY <2>1, <3>1
  <2>2. ASSUME NEW x \in Texts \cup {Empty}, e = Event("transcribed", NoId, x),
               companion.phase # "transcribing" \/ x = Empty
        PROVE  \/ d = Done(companion, <<>>)
               \/ companion.phase = "transcribing" /\ d = Done(Without(companion, "failed"), <<>>)
    <3>1. Apply(companion, Event("transcribed", NoId, x)) =
            (IF companion.phase # "transcribing" THEN Done(companion, <<>>)
             ELSE IF x = Empty THEN Done(Without(companion, "failed"), <<>>) ELSE Transcribed(companion, x))
      BY <1>0, HeardIs, Zenon
    <3> QED  BY <2>2, <3>1
  <2> QED  BY <2>1, <2>2
<1>3. companion' = d.companion  BY DEF Handle
<1>4. d = Apply(companion, e)  OBVIOUS
<1>k. e.kind \in {"transcribed", "transcription_failed"}  BY DEF Plain, Event
<1> HIDE DEF d
<1>5. d.actions = <<>> /\ d.companion \in Companions  BY <1>0, <1>2, FailedIs DEF Done
<1>6. Quietly(d.actions) /\ Proper("window", d.actions)
  BY <1>1, <1>5, QuietActs, ProperEmpty
<1>7. SameWords(companion, companion') \/ Shifted
  <2>1. CASE d = Done(companion, <<>>)
    BY <1>3, <2>1 DEF SameWords, Done
  <2>2. CASE companion.phase = "transcribing" /\ d = Done(Without(companion, "failed"), <<>>)
    <3>1. Wordless(companion', "failed", companion.commands)
      BY <1>0, <1>3, <2>2, FailedIs DEF Done
    <3> QED  BY <2>2, <3>1 DEF Shifted, Wordless, Held, Holding
  <2> QED  BY <1>2, <2>1, <2>2
<1>8. d.companion.id = companion.id
  BY <1>0, <1>3, <1>7 DEF SameWords, Shifted, WordsInv, Phased
<1>9. FateAfter(e, d) = fate
  BY <1>8, <1>k DEF FateAfter
<1>10. /\ UNCHANGED <<running, disk, attempts, wire, taken, asked, timers>>
       /\ late' \subseteq late /\ answers' \subseteq answers
       /\ voice' \in {"off", "recording", "finishing"}
  OBVIOUS
<1> QED  BY <1>1, <1>4, <1>5, <1>6, <1>7, <1>9, <1>10, HandleKeeps

\* A window proved: what was left for it is now in a hand, and nothing else moved.
LEMMA WindowWords ==
  ASSUME TranscriptTypes, Agenda, left # <<>>, doing["window"] = <<>>,
         NEW acts, acts = Head(left) \/ Quietly(acts), Proved(acts)
  PROVE  /\ doing' \in [Threads -> Seq(Acts)] /\ left' \in Seq(Seq(Acts)) /\ Agenda'
         /\ Handed /\ \A a \in InHand : a.kind = "forget" => a \in InHand'
<1>1. doing \in [Threads -> Seq(Acts)] /\ left \in Seq(Seq(Acts))  BY DEF TranscriptTypes
<1>2. "window" \in Threads /\ "page" \in Threads  BY DEF Threads
<1>3. /\ Tail(left) \in Seq(Seq(Acts)) /\ Len(Tail(left)) = Len(left) - 1 /\ Len(left) \in Nat \ {0}
      /\ Head(left) = left[1] /\ Head(left) \in Seq(Acts)
      /\ \A i \in 1..Len(Tail(left)) : Tail(left)[i] = left[i + 1]
  BY <1>1, TailIs, Zenon
<1>4. 1 \in 1..Len(left) /\ \A i \in 1..Len(left') : i + 1 \in 1..Len(left) /\ left'[i] = left[i + 1]
  BY <1>3 DEF Proved
<1>5. acts \in Seq(Acts) /\ Follower(acts)
  <2>1. Follower(left[1])  BY <1>4, Zenon DEF Agenda
  <2> QED  BY <1>3, <2>1 DEF Quietly
<1>6. \A k \in 1..Len(acts) : acts[k].kind \in VoiceActs \cup {"persist"} /\ acts[k].kind \in ActKinds
  BY <1>5, Zenon DEF Follower, ActKinds
<1>7. Proper("window", acts)
  BY <1>5, <1>6 DEF Proper, Follower, Threaded
<1>8. /\ doing' \in [Threads -> Seq(Acts)] /\ left' \in Seq(Seq(Acts)) /\ Agenda'
      /\ InHand' \subseteq InHand \cup {acts[k] : k \in 1..Len(acts)}
      /\ \A u \in Threads \ {"window"} : doing'[u] = doing[u]
  BY <1>5, <1>7, WindowIs, Zenon
<1>9. doing'["window"] = acts  BY <1>1, <1>2 DEF Proved
<1>10. \A i \in 1..Len(left) : \A k \in 1..Len(left[i]) : left[i][k] \in InHand
  BY <1>1, HandHolds, Zenon DEF InHand
<1>11. InHand' \subseteq InHand \cup Voiced
  <2>1. {acts[k] : k \in 1..Len(acts)} \subseteq InHand \cup Voiced
    <3>1. CASE acts = Head(left)  BY <1>3, <1>4, <1>10, <3>1
    <3>2. CASE Quietly(acts)  BY <3>2 DEF Quietly
    <3> QED  BY <3>1, <3>2
  <2> QED  BY <1>8, <2>1
<1>12. \A t \in Threads : Forgets(t)' => Forgets(t)
  <2> SUFFICES ASSUME NEW t \in Threads, Forgets(t)' PROVE Forgets(t)
    OBVIOUS
  <2>1. CASE t = "window"
    <3>1. acts # <<>> /\ acts[1].kind = "forget"  BY <1>9, <2>1 DEF Forgets
    <3>2. 1 \in 1..Len(acts)  BY <1>5, <3>1
    <3> QED  BY <1>6, <3>1, <3>2 DEF VoiceActs
  <2>2. CASE t # "window"
    <3>1. doing'[t] = doing[t]  BY <1>8, <2>2
    <3> QED  BY <3>1 DEF Forgets
  <2> QED  BY <2>1, <2>2
<1>13. SavedAside' => SavedAside
  <2>1. ASSUME NEW k \in 1..Len(doing'["window"]), doing'["window"][k].kind = "persist"
        PROVE  SavedAside
    <3>1. ~Quietly(acts)  BY <1>9, <2>1 DEF Quietly, VoiceActs
    <3>2. acts = left[1]  BY <1>3, <3>1
    <3> QED  BY <1>4, <1>9, <2>1, <3>2 DEF SavedAside
  <2>2. ASSUME NEW i \in 1..Len(left'), NEW k \in 1..Len(left'[i]), left'[i][k].kind = "persist"
        PROVE  SavedAside
    BY <1>4, <2>2 DEF SavedAside
  <2> QED  BY <2>1, <2>2 DEF SavedAside
<1>14. \A a \in Acts : Ready(a)' => Ready(a)
  <2>1. doing'["page"] = doing["page"]  BY <1>2, <1>8
  <2> QED  BY <2>1 DEF Ready
<1>15. \A a \in InHand : a.kind = "forget" => a \in InHand'
  <2> SUFFICES ASSUME NEW a \in InHand, a.kind = "forget" PROVE a \in InHand'
    OBVIOUS
  <2>1. PICK u \in Threads : Len(doing[u]) = 1 /\ doing[u] # <<>> /\ doing[u][1] = a
    BY WhoDoes, Zenon
  <2>2. doing'[u] = doing[u]  BY <1>8, <2>1
  <2>3. 1 \in 1..Len(doing'[u]) /\ doing'[u][1] = a  BY <2>1, <2>2
  <2>4. doing'[u][1] \in HandOf(doing', left')  BY <1>8, <2>3, HandHolds, Zenon
  <2> QED  BY <2>3, <2>4 DEF InHand
<1> QED  BY <1>8, <1>11, <1>12, <1>13, <1>14, <1>15, Zenon DEF Handed

\* A thread that goes on to its next action has not begun to forget, and what
\* another thread was to forget it still is.
LEMMA NextForgets ==
  ASSUME TranscriptTypes, Agenda, NEW t \in Threads, doing[t] # <<>>, Next_(t), left' = left
  PROVE  /\ \A u \in Threads : Forgets(u)' => Forgets(u) /\ u # t
         /\ \A a \in InHand : a.kind = "forget" => a \in InHand' \/ doing[t][1] = a
<1>1. /\ doing' \in [Threads -> Seq(Acts)] /\ left' \in Seq(Seq(Acts))
      /\ doing'[t] = Tail(doing[t])
      /\ \A u \in Threads \ {t} : doing'[u] = doing[u]
  BY NextIs, Zenon
<1> DEFINE s == doing[t]
           n == Len(s)
           r == Tail(s)
           m == Len(r)
<1>2. s \in Seq(Acts)  BY DEF TranscriptTypes
<1>3. r \in Seq(Acts) /\ m = n - 1 /\ n \in Nat \ {0} /\ \A k \in 1..m : r[k] = s[k + 1]
  BY <1>2, TailIs, Zenon
<1>4. Proper(t, s)  BY Zenon DEF Agenda
<1>5. r = <<>> \/ r[1].kind # "forget"
  <2>1. CASE n = 2
    <3>1. t = "page"  BY <1>4, <2>1 DEF Proper
    <3>2. s[2].kind = "submit"  BY <1>4, <2>1, <3>1, Zenon DEF Proper
    <3>3. 1 \in 1..m /\ 1 + 1 = 2
      <4> HIDE DEF m, n
      <4> QED  BY <1>3, <2>1
    <3>4. r[1] = s[1 + 1]  BY <1>3, <3>3, Zenon
    <3>5. r[1] = s[2]
      <4> HIDE DEF r, s
      <4> QED  BY <3>3, <3>4
    <3> QED  BY <3>2, <3>5
  <2>2. CASE n # 2
    <3>1. n <= 2  BY <1>4 DEF Proper
    <3>2. m = 0
      <4> HIDE DEF m, n
      <4> QED  BY <1>3, <2>2, <3>1
    <3>3. r = <<>>
      <4> HIDE DEF r
      <4> QED  BY <1>3, <3>2
    <3> QED  BY <3>3
  <2> QED  BY <2>1, <2>2
<1>6. ASSUME NEW u \in Threads, Forgets(u)' PROVE Forgets(u) /\ u # t
  <2>1. u # t
    <3>1. SUFFICES ASSUME u = t PROVE FALSE  OBVIOUS
    <3>2. r # <<>> /\ r[1].kind = "forget"  BY <1>1, <1>6, <3>1 DEF Forgets
    <3> QED  BY <1>5, <3>2
  <2>2. doing'[u] = doing[u]  BY <1>1, <2>1
  <2> QED  BY <1>6, <2>1, <2>2 DEF Forgets
<1>7. ASSUME NEW a \in InHand, a.kind = "forget", doing[t][1] # a PROVE a \in InHand'
  <2>1. PICK u \in Threads : Len(doing[u]) = 1 /\ doing[u] # <<>> /\ doing[u][1] = a
    BY <1>7, WhoDoes, Zenon
  <2>2. doing'[u] = doing[u]  BY <1>1, <1>7, <2>1
  <2>3. 1 \in 1..Len(doing'[u]) /\ doing'[u][1] = a  BY <2>1, <2>2
  <2>4. doing'[u][1] \in HandOf(doing', left')  BY <1>1, <2>3, HandHolds, Zenon
  <2> QED  BY <2>3, <2>4 DEF InHand
<1> QED  BY <1>6, <1>7, Zenon

LEMMA StillHands ==
  ASSUME Agenda, UNCHANGED shown
  PROVE  /\ Agenda' /\ Handed /\ \A a \in InHand : a.kind = "forget" => a \in InHand'
         /\ SameWords(companion, companion')
<1>1. companion' = companion /\ doing' = doing /\ left' = left  BY DEF shown
<1>2. InHand' = InHand  BY <1>1 DEF InHand, HandOf
<1>3. Handed  BY <1>1, <1>2 DEF Handed, Forgets, SavedAside, Ready
<1>4. Agenda'  BY <1>1, Zenon DEF Agenda
<1>5. SameWords(companion, companion')  BY <1>1 DEF SameWords
<1> QED  BY <1>2, <1>3, <1>4, <1>5

LEMMA StillTypes ==
  ASSUME TranscriptTypes, Handled, UNCHANGED <<running, voice, disk, outside, taken, asked>>,
         fate' \in [Ids -> {"unspoken", "spoken", "stored", "settled", "discarded", "abandoned", "dropped"}]
  PROVE  TranscriptTypes'
<1>1. /\ UNCHANGED <<running, disk, attempts, wire, taken>>
      /\ late' \subseteq late /\ answers' \subseteq answers /\ timers' = timers
  BY DEF outside
<1>2. voice' \in {"off", "recording", "finishing"} /\ asked' \in [Ids -> Nat]
  BY DEF TranscriptTypes
<1> QED  BY <1>1, <1>2, HandledTypes

LEMMA WindowUpKeeps ==
  ASSUME TInv, WindowUp PROVE TInv'
<1>0. TranscriptTypes /\ Agenda /\ WordsInv  BY DEF TInv
<1>1. /\ left # <<>> /\ doing["window"] = <<>> /\ Proved(Head(left))
      /\ UNCHANGED <<running, companion, voice, disk, outside, ghosts, bounds>>
  BY Zenon DEF WindowUp, Proved
<1>2. /\ doing' \in [Threads -> Seq(Acts)] /\ left' \in Seq(Seq(Acts)) /\ Agenda'
      /\ Handed /\ \A a \in InHand : a.kind = "forget" => a \in InHand'
  BY <1>0, <1>1, WindowWords, Zenon
<1>3. running = "up"  BY <1>1 DEF TInv, Unstarted, Idle
<1>4. Quiet
  BY <1>1, <1>2 DEF Quiet, SameWords, outside, ghosts
<1>5. TranscriptTypes'
  <2>1. /\ companion' \in Companions /\ companion'.commands \in 0..MaxDictations
        /\ companion'.id \in 0..MaxDictations
        /\ fate' \in [Ids -> {"unspoken", "spoken", "stored", "settled", "discarded", "abandoned", "dropped"}]
    BY <1>0, <1>1 DEF TranscriptTypes, ghosts
  <2>2. Handled  BY <1>2, <2>1, Zenon DEF Handled
  <2>3. UNCHANGED <<running, voice, disk, outside, taken, asked>>  BY <1>1 DEF ghosts
  <2> QED  BY <1>0, <2>1, <2>2, <2>3, StillTypes
<1>6. Unstarted'  BY <1>1, <1>3 DEF Unstarted
<1>7. WordsInv'  BY <1>0, <1>4, <1>5, QuietKeeps
<1> QED  BY <1>2, <1>5, <1>6, <1>7 DEF TInv

\* App::abandon where nothing is held.
LEMMA AbandonKeeps ==
  ASSUME TInv, WindowFailed, ~Held PROVE TInv'
<1> DEFINE d == Abandon(companion)
<1>0. TranscriptTypes /\ Agenda /\ WordsInv /\ companion \in Companions  BY DEF TInv, TranscriptTypes
<1>1. /\ left # <<>> /\ doing["window"] = <<>> /\ Proved(d.actions) /\ companion' = d.companion
      /\ UNCHANGED <<running, voice, disk, outside, taken, asked>>
  BY Zenon DEF WindowFailed, Proved
<1>2. fate' = fate  BY DEF WindowFailed, Held
<1>3. /\ d.companion \in Companions
      /\ Wordless(d.companion, "resting", companion.commands)
      /\ d.actions = (CASE companion.phase = "listening" -> <<Act("discard", NoId, Empty)>>
                        [] companion.phase = "transcribing" -> <<Act("cancel", NoId, Empty)>>
                        [] OTHER -> <<>>)
  BY <1>0, AbandonFits, Zenon
<1> HIDE DEF d
<1>4. Quietly(d.actions)
  <2>1. {"discard", "cancel"} \subseteq VoiceActs  BY DEF VoiceActs
  <2>2. Quietly(<<Act("discard", NoId, Empty)>>) /\ Quietly(<<Act("cancel", NoId, Empty)>>) /\ Quietly(<<>>)
    BY <2>1, QuietActs
  <2> QED  BY <1>3, <2>2
<1>5. /\ doing' \in [Threads -> Seq(Acts)] /\ left' \in Seq(Seq(Acts)) /\ Agenda'
      /\ Handed /\ \A a \in InHand : a.kind = "forget" => a \in InHand'
  BY <1>0, <1>1, <1>4, WindowWords, Zenon
<1>6. running = "up"  BY <1>1 DEF TInv, Unstarted, Idle
<1>7. Shifted
  BY <1>1, <1>3 DEF Shifted, Wordless, Held, Holding
<1>8. Quiet
  BY <1>1, <1>2, <1>5, <1>7 DEF Quiet, outside
<1>9. TranscriptTypes'
  <2>1. companion' \in Companions /\ companion'.commands \in 0..MaxDictations /\ companion'.id \in 0..MaxDictations
    BY <1>0, <1>1, <1>3, BoundsAssumption DEF Wordless, NoId, TranscriptTypes
  <2>2. Handled  BY <1>5, <2>1, Zenon DEF Handled
  <2>3. fate' \in [Ids -> {"unspoken", "spoken", "stored", "settled", "discarded", "abandoned", "dropped"}]
    BY <1>0, <1>2 DEF TranscriptTypes
  <2> QED  BY <1>0, <1>1, <2>2, <2>3, StillTypes
<1>10. Unstarted'  BY <1>1, <1>6 DEF Unstarted
<1>11. WordsInv'  BY <1>0, <1>8, <1>9, QuietKeeps
<1> QED  BY <1>5, <1>9, <1>10, <1>11 DEF TInv

LEMMA VoiceKeeps ==
  ASSUME TInv, NEW t \in Threads, Voice(t) PROVE TInv'
<1>0. TranscriptTypes /\ Agenda /\ WordsInv  BY DEF TInv
<1>1. /\ running # "down" /\ doing[t] # <<>> /\ Head(doing[t]).kind \in VoiceActs /\ Next_(t)
      /\ UNCHANGED <<running, companion, left, disk, linked, wire, answers, timers,
                     attempts, ghosts, crashes>>
  BY DEF Voice, Doing, VoiceActs
<1>2. /\ voice' \in {"off", "recording", "finishing"}
      /\ late' = late \/ late' = late \cup {Plain("recording_failed")}
  BY <1>0 DEF Voice, TranscriptTypes
<1>3. running = "up"  BY <1>1 DEF TInv, Unstarted, Idle
<1>4. /\ doing' \in [Threads -> Seq(Acts)] /\ left' \in Seq(Seq(Acts)) /\ Agenda'
      /\ InHand' \subseteq InHand /\ Head(doing[t]) = doing[t][1]
  BY <1>0, <1>1, NextIs
<1>5. doing[t][1].kind \in VoiceActs  BY <1>1, <1>4
<1>6. /\ \A u \in Threads : Forgets(u)' => Forgets(u) /\ u # t
      /\ \A a \in InHand : a.kind = "forget" => a \in InHand' \/ doing[t][1] = a
  BY <1>0, <1>1, NextForgets
<1>7. /\ SavedAside' => SavedAside
      /\ \A a \in Acts : Ready(a)' =>
           \/ Ready(a) /\ t # "page"
           \/ /\ t = "page" /\ doing[t][1].kind = "persist" /\ a.kind = "submit"
              /\ doing[t][1].id = a.id /\ doing[t][1].text = a.text
  BY <1>0, <1>1, NextWords
<1>8. Handed /\ \A a \in InHand : a.kind = "forget" => a \in InHand'
  BY <1>4, <1>5, <1>6, <1>7 DEF Handed, VoiceActs
<1>9. Plain("recording_failed") \in [kind : LateKinds, id : 0..MaxDictations, text : {Empty}]
      /\ Plain("recording_failed").kind # "submission_failed" /\ Plain("recording_failed").id = 0
  BY BoundsAssumption DEF Plain, Event, NoId, LateKinds
<1>10. companion.commands \in Nat  BY <1>0 DEF TranscriptTypes
<1>11. \A e \in late' : e \in late \/ (e.kind # "submission_failed" /\ e.id <= companion.commands)
  BY <1>2, <1>9, <1>10
<1>12. Quiet
  BY <1>1, <1>8, <1>11 DEF Quiet, SameWords, ghosts
<1>13. TranscriptTypes'
  <2>1. late' \in SUBSET [kind : LateKinds, id : 0..MaxDictations, text : {Empty}]
    <3>1. late \in SUBSET [kind : LateKinds, id : 0..MaxDictations, text : {Empty}]
      BY <1>0 DEF TranscriptTypes
    <3> QED  BY <1>2, <1>9, <3>1
  <2>2. /\ answers' \in SUBSET [kind : AnswerKinds, id : Ids, text : {Empty}]
        /\ timers' \in SUBSET [id : Ids, attempt : Nat] /\ taken' \in [Ids -> Seq(Texts)]
    BY <1>0, <1>1 DEF TranscriptTypes, ghosts
  <2>3. UNCHANGED <<running, companion, disk, attempts, asked, fate>> /\ wire' \subseteq wire
    BY <1>1 DEF ghosts
  <2> QED  BY <1>0, <1>2, <1>4, <2>1, <2>2, <2>3, KeptTypes
<1>14. Unstarted'  BY <1>1, <1>3 DEF Unstarted
<1>15. WordsInv'  BY <1>0, <1>12, <1>13, QuietKeeps
<1> QED  BY <1>4, <1>13, <1>14, <1>15 DEF TInv

LEMMA TimerFiresKeeps ==
  ASSUME TInv, TimerFires PROVE TInv'
<1>0. TranscriptTypes /\ Agenda /\ WordsInv  BY DEF TInv
<1>1. PICK m \in timers :
        /\ running # "down"
        /\ timers' = timers \ {m}
        /\ late' = IF m.attempt = attempts
                   THEN late \cup {Event("submission_uncertain", m.id, Empty)} ELSE late
        /\ UNCHANGED <<running, shown, voice, disk, linked, wire, answers, attempts,
                       ghosts, bounds>>
  BY Zenon DEF TimerFires
<1>2. running = "up"  BY <1>1 DEF TInv, Unstarted
<1>3. Agenda' /\ Handed /\ (\A a \in InHand : a.kind = "forget" => a \in InHand')
      /\ SameWords(companion, companion')
  BY <1>0, <1>1, StillHands
<1> DEFINE e == Event("submission_uncertain", m.id, Empty)
<1>4. m.id \in Ids /\ m.id <= companion.commands  BY <1>0 DEF TranscriptTypes, WordsInv, Known
<1>5. /\ e \in [kind : LateKinds, id : 0..MaxDictations, text : {Empty}]
      /\ e.kind # "submission_failed" /\ e.id <= companion.commands
  BY <1>4, BoundsAssumption DEF Event, LateKinds, Ids
<1> HIDE DEF e
<1>6. late' = late \/ late' = late \cup {e}  BY <1>1 DEF e
<1>7. Quiet
  <2>1. \A x \in late' : x \in late \/ (x.kind # "submission_failed" /\ x.id <= companion.commands)
    BY <1>5, <1>6
  <2> QED  BY <1>1, <1>3, <2>1 DEF Quiet, ghosts
<1>8. TranscriptTypes'
  <2>1. late' \in SUBSET [kind : LateKinds, id : 0..MaxDictations, text : {Empty}]
    <3>1. late \in SUBSET [kind : LateKinds, id : 0..MaxDictations, text : {Empty}]
      BY <1>0 DEF TranscriptTypes
    <3> QED  BY <1>5, <1>6, <3>1
  <2>2. timers' \in SUBSET [id : Ids, attempt : Nat]
    BY <1>0, <1>1 DEF TranscriptTypes
  <2>3. /\ running' = running /\ companion' = companion /\ doing' = doing /\ left' = left
        /\ voice' = voice /\ disk' = disk /\ attempts' = attempts /\ wire' = wire
        /\ answers' = answers /\ taken' = taken /\ asked' = asked /\ fate' = fate
    BY <1>1 DEF shown, ghosts
  <2>4. /\ doing' \in [Threads -> Seq(Acts)] /\ left' \in Seq(Seq(Acts))
        /\ voice' \in {"off", "recording", "finishing"}
        /\ answers' \in SUBSET [kind : AnswerKinds, id : Ids, text : {Empty}]
        /\ taken' \in [Ids -> Seq(Texts)]
    BY <1>0, <2>3 DEF TranscriptTypes
  <2> QED  BY <1>0, <2>1, <2>2, <2>3, <2>4, KeptTypes
<1>9. Unstarted'  BY <1>1, <1>2 DEF Unstarted
<1>10. WordsInv'  BY <1>0, <1>7, <1>8, QuietKeeps
<1> QED  BY <1>3, <1>8, <1>9, <1>10 DEF TInv

\* The link coming up, a new process before App::start has loaded, and no step at all.
LEMMA StillKeeps ==
  ASSUME TInv, UNCHANGED <<shown, voice, disk, wire, answers, timers, late, attempts, ghosts>>,
         running' = running \/ (running # "up" /\ running' = "starting")
  PROVE  TInv'
<1>0. TranscriptTypes /\ Agenda /\ WordsInv  BY DEF TInv
<1>1. Agenda' /\ Handed /\ (\A a \in InHand : a.kind = "forget" => a \in InHand')
      /\ SameWords(companion, companion')
  BY <1>0, StillHands
<1>2. /\ companion' = companion /\ doing' = doing /\ left' = left
      /\ voice' = voice /\ disk' = disk /\ attempts' = attempts /\ wire' = wire /\ timers' = timers
      /\ answers' = answers /\ late' = late /\ taken' = taken /\ asked' = asked /\ fate' = fate
  BY DEF shown, ghosts
<1>3. Quiet  BY <1>1, <1>2 DEF Quiet
<1>4. TranscriptTypes'
  <2>1. running' \in {"down", "starting", "up"}  BY <1>0 DEF TranscriptTypes
  <2> QED  BY <1>0, <1>2, <2>1 DEF TranscriptTypes
<1>5. Unstarted'  BY <1>2 DEF TInv, Unstarted, Idle
<1>6. WordsInv'  BY <1>0, <1>3, <1>4, QuietKeeps
<1> QED  BY <1>1, <1>4, <1>5, <1>6 DEF TInv

LEMMA LinkKeeps == ASSUME TInv, Link PROVE TInv'
<1>1. /\ UNCHANGED <<shown, voice, disk, wire, answers, timers, late, attempts, ghosts>>
      /\ running' = running
  BY DEF Link
<1> QED  BY <1>1, StillKeeps

LEMMA BootKeeps == ASSUME TInv, Boot PROVE TInv'
<1>1. /\ UNCHANGED <<shown, voice, disk, wire, answers, timers, late, attempts, ghosts>>
      /\ running # "up" /\ running' = "starting"
  BY DEF Boot, outside
<1> QED  BY <1>1, StillKeeps

-----------------------------------------------------------------------------
(* The steps of a thread that is about words.                               *)

\* Nothing new about words in the hands, and the pill holds what it held.
Fewer == \A a \in InHand' : a.kind \in {"persist", "submit", "forget"} => a \in InHand
Fixed == Held' => Held /\ companion'.id = companion.id /\ companion'.text = companion.text

LEMMA TogetherStays ==
  ASSUME Together, Fewer, Fixed PROVE Together'
  BY DEF Together, Fewer, Fixed

\* One action of one thread: what App::run leaves of the hands.
LEMMA CarryIs ==
  ASSUME TInv, NEW t \in Threads, NEW kind, Doing(t, kind), Next_(t),
         UNCHANGED <<running, companion, left>>
  PROVE  /\ running = "up" /\ Unstarted'
         /\ Head(doing[t]) = doing[t][1] /\ doing[t][1].kind = kind
         /\ doing[t][1] \in InHand /\ doing[t][1] \in Acts
         /\ doing' \in [Threads -> Seq(Acts)] /\ left' \in Seq(Seq(Acts)) /\ Agenda'
         /\ InHand' \subseteq InHand
         /\ \A a \in InHand : a.kind = "forget" => a \in InHand' \/ doing[t][1] = a
         /\ \A a \in Acts : Ready(a)' =>
              \/ Ready(a) /\ t # "page"
              \/ /\ t = "page" /\ doing[t][1].kind = "persist" /\ a.kind = "submit"
                 /\ doing[t][1].id = a.id /\ doing[t][1].text = a.text
         /\ Phased' /\ Together'
<1>0. TranscriptTypes /\ Agenda /\ WordsInv  BY DEF TInv
<1>1. running # "down" /\ doing[t] # <<>> /\ Head(doing[t]).kind = kind  BY DEF Doing
<1>2. running = "up"  BY <1>1 DEF TInv, Unstarted, Idle
<1>3. /\ doing' \in [Threads -> Seq(Acts)] /\ left' \in Seq(Seq(Acts)) /\ Agenda'
      /\ InHand' \subseteq InHand
      /\ Head(doing[t]) = doing[t][1] /\ doing[t][1] \in InHand /\ doing[t][1] \in Acts
  BY <1>0, <1>1, NextIs
<1>4. /\ \A u \in Threads : Forgets(u)' => Forgets(u) /\ u # t
      /\ \A a \in InHand : a.kind = "forget" => a \in InHand' \/ doing[t][1] = a
  BY <1>0, <1>1, NextForgets
<1>5. /\ SavedAside' => SavedAside
      /\ \A a \in Acts : Ready(a)' =>
           \/ Ready(a) /\ t # "page"
           \/ /\ t = "page" /\ doing[t][1].kind = "persist" /\ a.kind = "submit"
              /\ doing[t][1].id = a.id /\ doing[t][1].text = a.text
  BY <1>0, <1>1, NextWords
<1>6. Phased'
  <2>1. /\ PendingKind(Wording)' => PendingKind(Wording)
        /\ PendingKind({"forget", "clear"})' => PendingKind({"forget", "clear"})
        /\ PendingKind({"forget"})' => PendingKind({"forget"})
        /\ PendingKind({"persist", "submit", "clear"})' => PendingKind({"persist", "submit", "clear"})
    BY <1>3 DEF PendingKind
  <2>2. \A u, v \in Threads : Forgets(u)' /\ Forgets(v)' => u = v
    BY <1>0, <1>4 DEF WordsInv, Phased, Forgets
  <2>3. companion' = companion /\ Phased  BY <1>0 DEF WordsInv
  <2> QED  BY <1>5, <2>1, <2>2, <2>3 DEF Phased, Held, Forgets
<1>7. Together'
  <2>1. Fewer /\ Fixed  BY <1>3 DEF Fewer, Fixed, Held
  <2> QED  BY <1>0, <2>1, TogetherStays DEF WordsInv
<1>8. Unstarted'  BY <1>2 DEF Unstarted
<1> QED  BY <1>1, <1>2, <1>3, <1>4, <1>5, <1>6, <1>7, <1>8

\* The same, but for what is on disk.
LEMMA SavedTypes ==
  ASSUME TranscriptTypes, Handled, UNCHANGED <<running, voice, outside, taken, asked>>,
         disk' \in {NoRecord} \cup {Tombstone(id) : id \in Ids}
                   \cup {Record(id, text) : id \in Ids, text \in Texts},
         fate' \in [Ids -> {"unspoken", "spoken", "stored", "settled", "discarded", "abandoned", "dropped"}]
  PROVE  TranscriptTypes'
<1>0. /\ running' = running /\ voice' = voice /\ attempts' = attempts /\ late' = late
      /\ answers' = answers /\ wire' = wire /\ timers' = timers /\ taken' = taken /\ asked' = asked
  BY DEF outside
<1>1. /\ running' \in {"down", "starting", "up"} /\ voice' \in {"off", "recording", "finishing"}
      /\ attempts' \in 0..MaxSends /\ asked' \in [Ids -> Nat]
  BY <1>0 DEF TranscriptTypes
<1>2. /\ wire' \in SUBSET Messages /\ IsFiniteSet(wire') /\ \A m \in wire' : m.attempt <= attempts'
      /\ timers' \in SUBSET [id : Ids, attempt : Nat]
      /\ taken' \in [Ids -> Seq(Texts)]
  BY <1>0 DEF TranscriptTypes
<1>3. /\ late' \in SUBSET [kind : LateKinds, id : 0..MaxDictations, text : {Empty}]
      /\ answers' \in SUBSET [kind : AnswerKinds, id : Ids, text : {Empty}]
  BY <1>0 DEF TranscriptTypes
<1>4. /\ companion' \in Companions /\ companion'.commands \in 0..MaxDictations
      /\ companion'.id \in 0..MaxDictations
      /\ doing' \in [Threads -> Seq(Acts)] /\ left' \in Seq(Seq(Acts))
  BY Zenon DEF Handled
<1> QED  BY <1>1, <1>2, <1>3, <1>4, SMTT(60) DEF TranscriptTypes

LEMMA SpokenIds ==
  ASSUME TranscriptTypes, NEW id \in 1..companion.commands PROVE id \in Ids
<1>1. companion.commands \in 0..MaxDictations /\ MaxDictations \in Nat
  BY BoundsAssumption DEF TranscriptTypes
<1> QED  BY <1>1 DEF Ids

\* Of the words an action in hand saves nothing else is kept on disk.
LEMMA SaverKnows ==
  ASSUME TranscriptTypes, WordsInv, running = "up", NEW a \in InHand, a.kind \in {"persist", "clear", "forget"}
  PROVE  /\ a.kind # "clear" => a.id \in Ids /\ a.id <= companion.commands
         /\ a.kind = "persist" => a.text \in Texts
         /\ \A id \in Ids : Needed(id) /\ a.kind \in {"clear", "forget"} => a.kind = "forget" /\ a.id = id
         /\ \A id \in Ids : Needed(id) /\ a.kind = "persist" => a.id = id
<1>1. a.kind # "clear" => a.id \in Ids /\ a.id <= companion.commands
  <2>1. a.kind # "clear" => a.id \in 1..companion.commands  BY DEF WordsInv, Known
  <2>2. companion.commands \in Nat  BY DEF TranscriptTypes
  <2> QED  BY <2>1, <2>2, SpokenIds
<1>2. a.kind = "persist" => a.text \in Texts  BY DEF WordsInv, Known
<1>3. ASSUME NEW id \in Ids, Needed(id), a.kind \in {"clear", "forget"}
      PROVE  a.kind = "forget" /\ a.id = id
  <2>1. companion.phase = "resting"
    BY <1>3 DEF WordsInv, Phased, PendingKind
  <2>2. ~Held  BY <2>1 DEF Held, Holding
  <2>3. PICK b \in InHand : b.kind = "forget" /\ b.id = id
    BY <1>3, <2>2 DEF WordsInv, Fates
  <2>4. a.kind # "clear"  BY <2>3 DEF WordsInv, Phased, PendingKind
  <2> QED  BY <1>3, <2>3, <2>4 DEF WordsInv, Together
<1>4. ASSUME NEW id \in Ids, Needed(id), a.kind = "persist" PROVE a.id = id
  <2>1. \A b \in InHand : b.kind # "forget"
    BY <1>4 DEF WordsInv, Phased, PendingKind
  <2>2. Held /\ companion.id = id  BY <1>4, <2>1 DEF WordsInv, Fates
  <2> QED  BY <1>4, <2>2 DEF WordsInv, Together
<1> QED  BY <1>1, <1>2, <1>3, <1>4

\* Counting goes down with what is in hand.
LEMMA CountedStays ==
  ASSUME TranscriptTypes, TranscriptTypes', Counted, Fewer,
         UNCHANGED <<wire, taken, asked>>, answers' \subseteq answers,
         \A e \in late' : e \in late \/ e.kind # "submission_failed",
         Held' => /\ Held /\ companion'.id = companion.id
                  /\ companion'.delivery = companion.delivery /\ companion'.phase = companion.phase
  PROVE  Counted'
<1>3. wire' = wire /\ taken' = taken /\ asked' = asked  OBVIOUS
<1>4. \A id \in Ids : Due(id) \in 0..1 /\ Due(id)' \in 0..1 /\ Due(id)' <= Due(id)
  <2> TAKE id \in Ids
  <2>1. (\E a \in InHand' : a.kind = "submit" /\ a.id = id) => (\E a \in InHand : a.kind = "submit" /\ a.id = id)
    BY DEF Fewer
  <2> QED  BY <2>1 DEF Due
<1>5. \A id \in Ids : /\ FailedLate(id) \in 0..1 /\ FailedLate(id)' \in 0..1 /\ FailedLate(id)' <= FailedLate(id)
                      /\ FailedAnswer(id) \in 0..1 /\ FailedAnswer(id)' \in 0..1 /\ FailedAnswer(id)' <= FailedAnswer(id)
  <2> TAKE id \in Ids
  <2> DEFINE e == Event("submission_failed", id, Empty)
  <2>1. e.kind = "submission_failed"  BY DEF Event
  <2>2. e \in late' => e \in late
    <3> HIDE DEF e
    <3> QED  BY <2>1
  <2>3. e \in answers' => e \in answers  OBVIOUS
  <2> HIDE DEF e
  <2>4. /\ FailedLate(id) = (IF e \in late THEN 1 ELSE 0) /\ FailedLate(id)' = (IF e \in late' THEN 1 ELSE 0)
        /\ FailedAnswer(id) = (IF e \in answers THEN 1 ELSE 0)
        /\ FailedAnswer(id)' = (IF e \in answers' THEN 1 ELSE 0)
    BY DEF FailedLate, FailedAnswer, e
  <2> QED  BY <2>2, <2>3, <2>4
<1>6. \A id \in Ids : Spent(id) \in Nat /\ Spent(id)' \in Nat /\ Spent(id)' <= Spent(id)
  <2> TAKE id \in Ids
  <2>1. Len(taken[id]) \in Nat  BY DEF TranscriptTypes
  <2>2. OnWire(id) \subseteq wire  BY DEF OnWire
  <2>3. IsFiniteSet(OnWire(id))  BY <2>2, FS_Subset DEF TranscriptTypes
  <2>4. Cardinality(OnWire(id)) \in Nat  BY <2>3, FS_CardinalityType
  <2>5. OnWire(id)' = OnWire(id)  BY <1>3 DEF OnWire
  <2> DEFINE n == Len(taken[id])
             c == Cardinality(OnWire(id))
  <2>6. Due(id) \in 0..1 /\ Due(id)' \in 0..1  BY DEF Due
  <2>7. Due(id)' <= Due(id)  BY <1>4
  <2>8. n \in Nat /\ c \in Nat  BY <2>1, <2>4
  <2>9. Spent(id) = n + c + Due(id) /\ Spent(id)' = n + c + Due(id)'
    BY <1>3, <2>5 DEF Spent
  <2> HIDE DEF n, c
  <2> QED  BY <2>6, <2>7, <2>8, <2>9
<1>8. \A id \in Ids : Spent(id)' <= 1 + asked'[id]
  BY <1>3, <1>6 DEF Counted, TranscriptTypes
<1>9. ASSUME NEW id \in Ids, Held', companion'.id = id, companion'.delivery = "refused"
      PROVE  /\ asked'[id] = 0
             /\ Spent(id)' + FailedLate(id)' + FailedAnswer(id)'
                  <= (IF companion'.phase = "sent" THEN 1 ELSE 0)
  <2>1. companion.id = id /\ companion'.phase = companion.phase
    BY <1>9
  <2>2. /\ asked[id] = 0
        /\ Spent(id) + FailedLate(id) + FailedAnswer(id) <= (IF companion.phase = "sent" THEN 1 ELSE 0)
    BY <1>9, Zenon DEF Counted
  <2>3. Spent(id)' + FailedLate(id)' + FailedAnswer(id)' <= (IF companion.phase = "sent" THEN 1 ELSE 0)
    BY <1>5, <1>6, <2>2
  <2> QED  BY <1>3, <2>1, <2>2, <2>3
<1> QED  BY <1>8, <1>9 DEF Counted

LEMMA SaveKeeps ==
  ASSUME TInv, NEW t \in Threads, Save(t) PROVE TInv'
<1> DEFINE a == doing[t][1]
<1>0. TranscriptTypes /\ Agenda /\ WordsInv  BY DEF TInv
<1>1. /\ Doing(t, "persist") /\ Next_(t)
      /\ UNCHANGED <<running, companion, left, voice, outside, taken, asked, bounds>>
  BY DEF Save
<1>2. /\ running = "up" /\ Unstarted'
      /\ Head(doing[t]) = a /\ a.kind = "persist" /\ a \in InHand /\ a \in Acts
      /\ doing' \in [Threads -> Seq(Acts)] /\ left' \in Seq(Seq(Acts)) /\ Agenda'
      /\ InHand' \subseteq InHand
      /\ \A b \in InHand : b.kind = "forget" => b \in InHand' \/ a = b
      /\ \A b \in Acts : Ready(b)' =>
           \/ Ready(b) /\ t # "page"
           \/ /\ t = "page" /\ a.kind = "persist" /\ b.kind = "submit"
              /\ a.id = b.id /\ a.text = b.text
      /\ Phased' /\ Together'
  BY <1>1, CarryIs
<1>3. /\ disk' = Record(a.id, a.text)
      /\ fate' = IF fate[a.id] = "spoken" THEN Fated({a.id}, "stored") ELSE fate
  BY <1>2 DEF Save
<1> HIDE DEF a
<1>4. a.id \in Ids /\ a.id <= companion.commands /\ a.text \in Texts
      /\ \A id \in Ids : Needed(id) => a.id = id
  BY <1>0, <1>2, SaverKnows
<1>5. \A id \in Ids : fate'[id] = (IF id = a.id /\ fate[id] = "spoken" THEN "stored" ELSE fate[id])
  BY <1>0, <1>3, <1>4 DEF Fated, TranscriptTypes
<1>6. disk'.id = a.id /\ disk'.text = a.text /\ ~disk'.discarded
  BY <1>3 DEF Record
<1>7. TranscriptTypes'
  <2>1. disk' \in {NoRecord} \cup {Tombstone(id) : id \in Ids} \cup {Record(id, text) : id \in Ids, text \in Texts}
    BY <1>3, <1>4
  <2>2. fate' \in [Ids -> {"unspoken", "spoken", "stored", "settled", "discarded", "abandoned", "dropped"}]
    BY <1>0, <1>3 DEF Fated, TranscriptTypes
  <2>3. Handled
    <3>1. /\ companion' \in Companions /\ companion'.commands \in 0..MaxDictations
          /\ companion'.id \in 0..MaxDictations
      BY <1>0, <1>1 DEF TranscriptTypes
    <3> QED  BY <1>2, <3>1, Zenon DEF Handled
  <2> QED  BY <1>0, <1>1, <2>1, <2>2, <2>3, SavedTypes
<1>8. /\ companion' = companion /\ running' = running /\ wire' = wire /\ taken' = taken
      /\ asked' = asked /\ answers' = answers /\ late' = late /\ timers' = timers /\ attempts' = attempts
  BY <1>1 DEF outside
<1>9. Fewer  BY <1>2 DEF Fewer
<1>10. Known'
  <2>1. PendingKind({"submit"})' => PendingKind({"submit"})  BY <1>2 DEF PendingKind
  <2>2. \A id \in Ids : id > companion'.commands => fate'[id] = "unspoken"
    BY <1>0, <1>4, <1>5, <1>8 DEF WordsInv, Known, TranscriptTypes, Companions, Ids
  <2> QED  BY <1>0, <1>2, <1>4, <1>6, <1>8, <2>1, <2>2 DEF WordsInv, Known
<1>11. Fates'
  <2>1. \A id \in Ids : Needed(id)' <=> Needed(id)  BY <1>5 DEF Needed
  <2>2. \A id \in Ids : fate'[id] = "stored" => disk'.id = id /\ ~disk'.discarded
    BY <1>4, <1>6, <2>1 DEF Needed
  <2>3. \A id \in Ids : fate'[id] = "discarded" <=> fate[id] = "discarded"
    BY <1>5
  <2>4. \A id \in Ids : running' = "up" /\ Needed(id)' =>
          \/ Held' /\ companion'.id = id
          \/ \E b \in InHand' : b.kind = "forget" /\ b.id = id
    <3> TAKE id \in Ids
    <3>1. running = "up" /\ Needed(id) =>
          \/ Held /\ companion.id = id
          \/ \E b \in InHand : b.kind = "forget" /\ b.id = id
      BY <1>0 DEF WordsInv, Fates
    <3> QED  BY <1>2, <1>8, <2>1, <3>1 DEF Held
  <2>5. Held' => fate'[companion'.id] # "discarded"
    <3>1. Held => companion.id \in Ids /\ fate[companion.id] # "discarded"
      BY <1>0 DEF WordsInv, Phased, Fates, TranscriptTypes, Ids
    <3> QED  BY <1>8, <2>3, <3>1 DEF Held
  <2>6. fate'[disk'.id] # "discarded"
    BY <1>0, <1>2, <1>4, <1>6, <2>3 DEF WordsInv, Fates
  <2>7. \A b \in InHand' : b.kind \in {"persist", "submit"} => b.id \in Ids /\ fate'[b.id] # "discarded"
    <3> SUFFICES ASSUME NEW b \in InHand', b.kind \in {"persist", "submit"}
                 PROVE  b.id \in Ids /\ fate'[b.id] # "discarded"
      OBVIOUS
    <3>1. b \in InHand /\ b.id \in 1..companion.commands
      BY <1>0, <1>2 DEF WordsInv, Known
    <3>2. b.id \in Ids  BY <1>0, <3>1, SpokenIds
    <3> QED  BY <1>0, <3>2, <2>3, <3>1 DEF WordsInv, Fates
  <2>8. \A m \in wire' : fate'[m.id] # "spoken"
    <3> TAKE m \in wire'
    <3>1. m.id \in Ids /\ fate[m.id] # "spoken"  BY <1>0, <1>8 DEF WordsInv, Fates, TranscriptTypes, Messages
    <3> QED  BY <1>5, <3>1
  <2>9. \A b \in InHand' : Ready(b)' => fate'[b.id] # "spoken"
    <3> SUFFICES ASSUME NEW b \in InHand', Ready(b)' PROVE fate'[b.id] # "spoken"
      OBVIOUS
    <3>1. b \in InHand /\ b \in Acts /\ b.kind = "submit"
      BY <1>2 DEF Ready, InHand, HandOf
    <3>2. b.id \in Ids  BY <2>7, <3>1
    <3>3. CASE Ready(b)  BY <1>0, <1>5, <3>1, <3>2, <3>3 DEF WordsInv, Fates
    <3>4. CASE a.id = b.id  BY <1>5, <3>2, <3>4
    <3> QED  BY <1>2, <3>1, <3>3, <3>4
  <2>10. \A e \in answers' : e.kind = "acknowledged" => taken'[e.id] # <<>>
    BY <1>0, <1>8 DEF WordsInv, Fates
  <2>11. \A id \in Ids : (fate'[id] = "settled" => taken'[id] # <<>>) /\ (fate'[id] = "spoken" => running' = "up")
    BY <1>0, <1>2, <1>5, <1>8 DEF WordsInv, Fates
  <2> QED  BY <2>2, <2>4, <2>5, <2>6, <2>7, <2>8, <2>9, <2>10, <2>11 DEF Fates
<1>12. Counted'
  BY <1>0, <1>7, <1>8, <1>9, CountedStays DEF WordsInv, Held
<1>13. Worded'
  <2>1. \A id, x : Out(id, x)' <=> Out(id, x)  BY <1>8 DEF Out
  <2>2. \A x \in Texts : Out(a.id, x) => a.text = x
    BY <1>0, <1>2 DEF WordsInv, Worded
  <2>3. \A b \in InHand' : Ready(b)' /\ b.id = a.id => a.text = b.text
    <3> SUFFICES ASSUME NEW b \in InHand', Ready(b)', b.id = a.id PROVE a.text = b.text
      OBVIOUS
    <3>1. b \in InHand /\ b \in Acts /\ b.kind = "submit"
      BY <1>2 DEF Ready, InHand, HandOf
    <3> QED  BY <1>0, <1>2, <3>1 DEF WordsInv, Together
  <2> QED  BY <1>0, <1>2, <1>6, <1>8, <2>1, <2>2, <2>3 DEF WordsInv, Worded, Held
<1> QED  BY <1>2, <1>7, <1>10, <1>11, <1>12, <1>13 DEF TInv, WordsInv

\* What a step that leaves the fates, the wire and the conversation alone keeps
\* of them, when the disk holds what it held or what is being saved.
LEMMA FatesStay ==
  ASSUME TInv, TranscriptTypes', running' = running, Fewer,
         \A b \in InHand : b.kind = "forget" => b \in InHand',
         UNCHANGED <<wire, taken, fate>>, answers' \subseteq answers,
         (Held' <=> Held) /\ (Held => companion'.id = companion.id),
         \A b \in InHand' : Ready(b)' => Ready(b),
         \/ disk' = disk
         \/ \E a \in InHand : a.kind = "persist" /\ disk' = Record(a.id, a.text)
         \/ disk' = NoRecord /\ \A id \in Ids : ~Needed(id)
  PROVE  Fates'
<1>0. TranscriptTypes /\ WordsInv /\ Fates  BY DEF TInv, WordsInv
<1>1. wire' = wire /\ taken' = taken /\ fate' = fate  OBVIOUS
<1>2. ASSUME NEW id \in Ids, fate'[id] = "stored" PROVE disk'.id = id /\ ~disk'.discarded
  <2>1. Needed(id) /\ fate[id] = "stored"  BY <1>1, <1>2 DEF Needed
  <2>2. disk.id = id /\ ~disk.discarded  BY <1>0, <2>1 DEF Fates
  <2>3. running = "up" \/ disk' = disk
    <3>1. running # "up" => InHand = {}  BY IdleHands DEF TInv, Unstarted
    <3> QED  BY <2>1, <3>1
  <2>4. ASSUME NEW a \in InHand, a.kind = "persist", disk' = Record(a.id, a.text), running = "up"
        PROVE  disk'.id = id /\ ~disk'.discarded
    <3>1. a.id = id  BY <1>0, <2>1, <2>4, SaverKnows
    <3> QED  BY <2>4, <3>1 DEF Record
  <2> QED  BY <2>1, <2>2, <2>3, <2>4
<1>3. \A id \in Ids : running' = "up" /\ Needed(id)' =>
        \/ Held' /\ companion'.id = id
        \/ \E a \in InHand' : a.kind = "forget" /\ a.id = id
  <2> TAKE id \in Ids
  <2>1. Needed(id)' <=> Needed(id)  BY <1>1 DEF Needed
  <2>2. running = "up" /\ Needed(id) =>
        \/ Held /\ companion.id = id
        \/ \E a \in InHand : a.kind = "forget" /\ a.id = id
    BY <1>0 DEF Fates
  <2> QED  BY <2>1, <2>2
<1>4. Held' => fate'[companion'.id] # "discarded"  BY <1>0, <1>1 DEF Fates
<1>5. disk'.id # NoId /\ ~disk'.discarded => fate'[disk'.id] # "discarded"
  BY <1>0, <1>1 DEF Fates, Record, NoRecord
<1>6. \A b \in InHand' : b.kind \in {"persist", "submit"} => fate'[b.id] # "discarded"
  BY <1>0, <1>1 DEF Fates, Fewer
<1>7. \A b \in InHand' : Ready(b)' => fate'[b.id] # "spoken"
  <2> SUFFICES ASSUME NEW b \in InHand', Ready(b)' PROVE fate'[b.id] # "spoken"
    OBVIOUS
  <2>1. Ready(b) /\ b \in InHand  BY DEF Ready, Fewer
  <2> QED  BY <1>0, <1>1, <2>1 DEF Fates
<1>8. /\ \A m \in wire' : fate'[m.id] # "spoken"
      /\ \A e \in answers' : e.kind = "acknowledged" => taken'[e.id] # <<>>
      /\ \A id \in Ids : (fate'[id] = "settled" => taken'[id] # <<>>) /\ (fate'[id] = "spoken" => running' = "up")
  BY <1>0, <1>1 DEF Fates
<1> QED  BY <1>2, <1>3, <1>4, <1>5, <1>6, <1>7, <1>8 DEF Fates

LEMMA WordedStays ==
  ASSUME TInv, Fewer, Fixed, UNCHANGED <<wire, taken>>,
         \A b \in InHand' : Ready(b)' => Ready(b),
         \/ disk' = disk \/ disk' = NoRecord \/ disk'.discarded
         \/ \E a \in InHand : a.kind = "persist" /\ disk' = Record(a.id, a.text)
  PROVE  Worded'
<1>0. TranscriptTypes /\ Worded /\ Together  BY DEF TInv, WordsInv
<1>1. \A id, x : Out(id, x)' <=> Out(id, x)  BY DEF Out
<1>2. \A id \in Ids : \A x, y \in Texts : Out(id, x)' /\ Out(id, y)' => x = y
  BY <1>0, <1>1 DEF Worded
<1>3. (\A x \in Texts : disk.id # NoId /\ ~disk.discarded /\ Out(disk.id, x) => disk.text = x)'
  BY <1>0, <1>1 DEF Worded, NoRecord, Record
<1>4. (\A x \in Texts : Held /\ Out(companion.id, x) => companion.text = x)'
  BY <1>0, <1>1 DEF Worded, Fixed
<1>5. (\A b \in InHand : \A x \in Texts :
         b.kind \in {"persist", "submit"} /\ Out(b.id, x) => b.text = x)'
  BY <1>0, <1>1 DEF Worded, Fewer
<1>6. \A b \in InHand' : Ready(b)' /\ disk'.id = b.id /\ ~disk'.discarded => disk'.text = b.text
  <2> SUFFICES ASSUME NEW b \in InHand', Ready(b)', disk'.id = b.id, ~disk'.discarded
               PROVE  disk'.text = b.text
    OBVIOUS
  <2>1. Ready(b) /\ b \in InHand /\ b.kind = "submit"  BY DEF Ready, Fewer
  <2>2. CASE disk' = disk  BY <1>0, <2>1, <2>2 DEF Worded
  <2>3. ASSUME NEW a \in InHand, a.kind = "persist", disk' = Record(a.id, a.text)
        PROVE  disk'.text = b.text
    BY <1>0, <2>1, <2>3 DEF Together, Record
  <2>4. disk' # NoRecord
    <3>1. b.id # NoId
      BY <2>1 DEF TInv, WordsInv, Known, NoId
    <3> QED  BY <3>1 DEF NoRecord
  <2> QED  BY <2>2, <2>3, <2>4
<1> QED  BY <1>2, <1>3, <1>4, <1>5, <1>6 DEF Worded

\* Words sent come back to the pill.
Subsides ==
  /\ companion.phase = "sent" /\ companion'.phase = "retained"
  /\ companion'.id = companion.id /\ companion'.text = companion.text
  /\ companion'.commands = companion.commands

LEMMA SubsidesPhased ==
  ASSUME Phased, Subsides, Handed PROVE Phased'
<1>1. \A a \in InHand' : a.kind \in Wording => a \in InHand
  BY DEF Handed, Voiced, VoiceActs, Wording
<1>2. ~PendingKind({"forget", "clear"}) /\ ~PendingKind({"forget"})
  BY DEF Phased, Subsides, PendingKind
<1>3. ~PendingKind({"forget", "clear"})' /\ ~PendingKind({"forget"})'
  BY <1>1, <1>2 DEF PendingKind, Wording
<1>4. \A t, u \in Threads : Forgets(t)' /\ Forgets(u)' => t = u
  BY DEF Handed, Phased, Forgets
<1>5. Held /\ Held'  BY DEF Subsides, Held, Holding
<1> QED  BY <1>3, <1>4, <1>5 DEF Phased, Subsides, Forgets

LEMMA CalmPhased ==
  ASSUME Phased, SameWords(companion, companion'), Handed PROVE Phased'
<1>1. \A a \in InHand' : a.kind \in Wording => a \in InHand
  BY DEF Handed, Voiced, VoiceActs, Wording
<1>2. /\ PendingKind(Wording)' => PendingKind(Wording)
      /\ PendingKind({"forget", "clear"})' => PendingKind({"forget", "clear"})
      /\ PendingKind({"forget"})' => PendingKind({"forget"})
      /\ PendingKind({"persist", "submit", "clear"})' => PendingKind({"persist", "submit", "clear"})
  BY <1>1 DEF PendingKind, Wording
<1>3. \A t, u \in Threads : Forgets(t)' /\ Forgets(u)' => t = u
  BY DEF Handed, Phased, Forgets
<1>4. companion'.phase = "sent" => ~SavedAside'
  BY DEF SameWords, Handed, Phased
<1> QED  BY <1>2, <1>3, <1>4 DEF Phased, SameWords, Held, Forgets

LEMMA HandedFewer == ASSUME Handed PROVE Fewer
  BY DEF Handed, Fewer, Voiced, VoiceActs

\* The numbers there are to count with, and where a submission waits.
Numbers ==
  \A id \in Ids :
    /\ Len(taken[id]) \in Nat /\ Cardinality(OnWire(id)) \in Nat /\ Due(id) \in 0..1
    /\ Spent(id) \in Nat /\ IsFiniteSet(OnWire(id))
    /\ FailedLate(id) \in 0..1 /\ FailedAnswer(id) \in 0..1
LEMMA NumbersHold == TranscriptTypes => Numbers
<1> SUFFICES ASSUME TranscriptTypes, NEW id \in Ids
             PROVE  /\ Len(taken[id]) \in Nat /\ Cardinality(OnWire(id)) \in Nat /\ Due(id) \in 0..1
                    /\ Spent(id) \in Nat /\ IsFiniteSet(OnWire(id))
                    /\ FailedLate(id) \in 0..1 /\ FailedAnswer(id) \in 0..1
  BY DEF Numbers
<1>1. Len(taken[id]) \in Nat  BY DEF TranscriptTypes
<1>2. OnWire(id) \subseteq wire  BY DEF OnWire
<1>3. IsFiniteSet(OnWire(id))  BY <1>2, FS_Subset DEF TranscriptTypes
<1>4. Cardinality(OnWire(id)) \in Nat  BY <1>3, FS_CardinalityType
<1>5. Due(id) \in 0..1 /\ FailedLate(id) \in 0..1 /\ FailedAnswer(id) \in 0..1
  BY DEF Due, FailedLate, FailedAnswer
<1> QED  BY <1>1, <1>3, <1>4, <1>5 DEF Spent

LEMMA NumbersGoOn == TranscriptTypes' => Numbers'
  BY NumbersHold, PTL

SubmitsOnPage == \A a \in InHand : a.kind = "submit" => doing["page"] # <<>> /\ doing["page"][Len(doing["page"])] = a
ForgetsAtHead == \A a \in InHand : a.kind = "forget" => \E t \in Threads : Forgets(t) /\ doing[t][1] = a
LEMMA HeadsHold == TranscriptTypes /\ Agenda => SubmitsOnPage /\ ForgetsAtHead
  BY WhoDoes, Zenon DEF SubmitsOnPage, ForgetsAtHead, Forgets

LEMMA HeadsGoOn == TranscriptTypes' /\ Agenda' => SubmitsOnPage' /\ ForgetsAtHead'
  BY HeadsHold, PTL

\* Words that were sent and are no longer, once one of the things that could
\* have put them in the conversation is gone.
LEMMA CountedSubsides ==
  ASSUME TranscriptTypes, TranscriptTypes', Counted, UNCHANGED asked, Subsides,
         \A id \in Ids : Spent(id)' <= Spent(id),
         companion'.delivery = "refused" =>
           companion.delivery = "refused" /\
           \A id \in Ids : companion.id = id =>
             Spent(id)' + FailedLate(id)' + FailedAnswer(id)' + 1
               <= Spent(id) + FailedLate(id) + FailedAnswer(id)
  PROVE  Counted'
<1>1. \A id \in Ids : Spent(id) \in Nat /\ Spent(id)' \in Nat /\ FailedLate(id) \in 0..1
        /\ FailedLate(id)' \in 0..1 /\ FailedAnswer(id) \in 0..1 /\ FailedAnswer(id)' \in 0..1
  <2> TAKE id \in Ids
  <2>1. Spent(id) \in Nat /\ FailedLate(id) \in 0..1 /\ FailedAnswer(id) \in 0..1
    BY NumbersHold DEF Numbers
  <2>2. Spent(id)' \in Nat /\ FailedLate(id)' \in 0..1 /\ FailedAnswer(id)' \in 0..1
    BY NumbersGoOn DEF Numbers
  <2> QED  BY <2>1, <2>2
<1>2. \A id \in Ids : Spent(id)' <= 1 + asked'[id]
  BY <1>1 DEF Counted, TranscriptTypes
<1>3. ASSUME NEW id \in Ids, companion'.id = id, companion'.delivery = "refused"
      PROVE  /\ asked'[id] = 0
             /\ Spent(id)' + FailedLate(id)' + FailedAnswer(id)' <= 0
  <2>1. companion.id = id /\ companion.delivery = "refused" /\ companion.phase = "sent" /\ Held
    BY <1>3 DEF Subsides, Held, Holding
  <2>2. /\ asked[id] = 0
        /\ Spent(id) + FailedLate(id) + FailedAnswer(id) <= (IF companion.phase = "sent" THEN 1 ELSE 0)
    BY <2>1, Zenon DEF Counted
  <2>3. Spent(id) + FailedLate(id) + FailedAnswer(id) <= 1  BY <2>1, <2>2
  <2>4. Spent(id)' + FailedLate(id)' + FailedAnswer(id)' + 1 <= Spent(id) + FailedLate(id) + FailedAnswer(id)
    BY <1>3, <2>1
  <2>5. Spent(id)' + FailedLate(id)' + FailedAnswer(id)' <= 0  BY <1>1, <2>3, <2>4
  <2> QED  BY <2>2, <2>5
<1>4. companion'.phase = "retained"  BY DEF Subsides
<1> QED  BY <1>2, <1>3, <1>4 DEF Counted

LEMMA SaveFailsKeeps ==
  ASSUME TInv, NEW t \in Threads, SaveFails(t) PROVE TInv'
<1> DEFINE a == doing[t][1]
           e == Plain("persist_failed")
           d == Apply(companion, e)
<1>0. TranscriptTypes /\ Agenda /\ WordsInv /\ companion \in Companions
  <2>1. TranscriptTypes /\ Agenda /\ WordsInv  BY Zenon DEF TInv
  <2> QED  BY <2>1, PillFits, Zenon
<1>1. /\ running # "down" /\ doing[t] # <<>> /\ Head(doing[t]).kind = "persist"
      /\ Handle(t, e) /\ disk' \in {disk, Record(Head(doing[t]).id, Head(doing[t]).text)}
      /\ UNCHANGED <<running, voice, outside, taken, asked, crashes>>
  BY DEF SaveFails, Doing
<1>2. running = "up"  BY <1>1 DEF TInv, Unstarted, Idle
<1>3. doing[t] \in Seq(Acts)  BY <1>0 DEF TranscriptTypes
<1>4. Head(doing[t]) = a /\ 1 \in 1..Len(doing[t]) /\ Len(doing[t]) \in Nat
  BY <1>1, <1>3
<1>5. a \in InHand
  <2>1. doing \in [Threads -> Seq(Acts)] /\ left \in Seq(Seq(Acts))  BY <1>0 DEF TranscriptTypes
  <2> QED  BY <1>4, <2>1, HandHolds, Zenon DEF InHand
<1>6. a.kind = "persist" /\ disk' \in {disk, Record(a.id, a.text)}  BY <1>1, <1>4
<1>7. d = (IF companion.phase = "sent" THEN Done(Retain(companion, companion.delivery, FALSE), <<>>)
           ELSE Done(companion, <<>>))
  <2>1. 0 \in Nat  OBVIOUS
  <2> QED  BY <1>0, <2>1, FailureIs, Zenon
<1>8. e.kind = "persist_failed"  BY DEF Plain, Event
<1>9. companion' = d.companion /\ fate' = FateAfter(e, d)  BY <1>1 DEF Handle
<1>10. d = Apply(companion, e)  OBVIOUS
<1> HIDE DEF a, d, e
<1>11. fate' = fate  BY <1>8, <1>9, FateIs
<1>12. /\ d.actions = <<>> /\ d.companion \in Companions
       /\ companion.phase = "sent" => Subsides /\ companion'.delivery = companion.delivery
       /\ companion.phase # "sent" => companion' = companion
  <2>1. CASE companion.phase = "sent"
    <3>1. companion.delivery \in {"refused", "uncertain"}  BY <1>0 DEF Companions
    <3>2. /\ Retain(companion, companion.delivery, FALSE) \in Companions
          /\ Retain(companion, companion.delivery, FALSE).phase = "retained"
          /\ Retain(companion, companion.delivery, FALSE).id = companion.id
          /\ Retain(companion, companion.delivery, FALSE).text = companion.text
          /\ Retain(companion, companion.delivery, FALSE).delivery = companion.delivery
          /\ Retain(companion, companion.delivery, FALSE).commands = companion.commands
      BY <1>0, <3>1, RetainFits
    <3>3. companion' = Retain(companion, companion.delivery, FALSE) /\ d.actions = <<>>
      BY <1>7, <1>9, <2>1 DEF Done
    <3> QED  BY <1>9, <2>1, <3>2, <3>3 DEF Subsides
  <2>2. CASE companion.phase # "sent"  BY <1>0, <1>7, <1>9, <2>2 DEF Done
  <2> QED  BY <2>1, <2>2
<1>13. Quietly(d.actions) /\ Proper(t, d.actions)
  BY <1>12, QuietActs, ProperEmpty
<1>14. /\ doing' \in [Threads -> Seq(Acts)] /\ left' \in Seq(Seq(Acts)) /\ Agenda'
       /\ doing'[t] = (IF Waits(Posture(d.companion)) THEN <<>> ELSE d.actions)
       /\ Handed
       /\ (doing[t] = <<>> \/ doing[t][1].kind # "forget") =>
            \A b \in InHand : b.kind = "forget" => b \in InHand'
  BY <1>0, <1>1, <1>10, <1>13, QuietHandle, Zenon
<1>15. doing'[t] = <<>> /\ \A b \in InHand : b.kind = "forget" => b \in InHand'
  BY <1>6, <1>12, <1>14 DEF a
<1>16. /\ companion' \in Companions /\ companion'.id = companion.id /\ companion'.text = companion.text
       /\ companion'.commands = companion.commands /\ (Held' <=> Held)
  BY <1>9, <1>12 DEF Subsides, Held, Holding
<1>17. Handled
  BY <1>0, <1>14, <1>16 DEF Handled, TranscriptTypes
<1>18. TranscriptTypes'
  <2>1. a.id \in Ids /\ a.text \in Texts  BY <1>0, <1>2, <1>5, <1>6, SaverKnows
  <2>2. disk' \in {NoRecord} \cup {Tombstone(id) : id \in Ids} \cup {Record(id, text) : id \in Ids, text \in Texts}
    BY <1>0, <1>6, <2>1 DEF TranscriptTypes
  <2>3. fate' \in [Ids -> {"unspoken", "spoken", "stored", "settled", "discarded", "abandoned", "dropped"}]
    BY <1>0, <1>11 DEF TranscriptTypes
  <2> QED  BY <1>0, <1>1, <1>17, <2>2, <2>3, SavedTypes
<1>19. Fewer /\ Fixed /\ \A b \in InHand' : Ready(b)' => Ready(b)
  <2>1. InHand' \subseteq Acts  BY DEF InHand, HandOf
  <2> QED  BY <1>14, <1>16, <2>1, HandedFewer DEF Fixed, Handed
<1>20. /\ running' = running /\ wire' = wire /\ taken' = taken /\ asked' = asked /\ answers' = answers
       /\ late' = late /\ timers' = timers /\ attempts' = attempts
  BY <1>1 DEF outside
<1>21. Phased'
  <2>1. companion.phase # "sent" => SameWords(companion, companion')  BY <1>12 DEF SameWords
  <2> QED  BY <1>0, <1>12, <1>14, <2>1, SubsidesPhased, CalmPhased DEF WordsInv
<1>22. Together'  BY <1>0, <1>19, TogetherStays DEF WordsInv
<1>23. Known'
  <2>1. PendingKind({"submit"})' => PendingKind({"submit"})  BY <1>19 DEF PendingKind, Fewer
  <2>2. a.id <= companion.commands  BY <1>0, <1>2, <1>5, <1>6, SaverKnows
  <2>3. disk'.id <= companion.commands
    BY <1>0, <1>6, <2>2 DEF WordsInv, Known, Record
  <2> QED  BY <1>0, <1>11, <1>16, <1>19, <1>20, <2>1, <2>3 DEF WordsInv, Known, Fewer
<1>24. disk' = disk \/ \E b \in InHand : b.kind = "persist" /\ disk' = Record(b.id, b.text)
  BY <1>5, <1>6
<1>25. Fates'
  BY <1>11, <1>15, <1>16, <1>18, <1>19, <1>20, <1>24, FatesStay
<1>26. Worded'  BY <1>19, <1>20, <1>24, WordedStays
<1>27. Counted'
  <2>1. CASE companion.phase # "sent"
    <3>1. Held' => /\ Held /\ companion'.id = companion.id
                   /\ companion'.delivery = companion.delivery /\ companion'.phase = companion.phase
      BY <1>12, <1>16, <2>1
    <3>2. UNCHANGED <<wire, taken, asked>> /\ answers' \subseteq answers
          /\ \A x \in late' : x \in late \/ x.kind # "submission_failed"
      BY <1>20
    <3>3. Counted /\ Fewer  BY <1>0, <1>19 DEF WordsInv
    <3> QED  BY <1>0, <1>18, <3>1, <3>2, <3>3, CountedStays
  <2>2. CASE companion.phase = "sent"
    <3>1. t = "page"
      <4>1. Proper(t, doing[t])  BY <1>0, Zenon DEF Agenda
      <4>2. doing[t][1].kind \in Threaded(t)  BY <1>4, <4>1, Zenon DEF Proper
      <4>3. t \in {"page", "window"}  BY <1>6, <4>2 DEF a, Threaded, Threads, VoiceActs
      <4>4. t # "window"  BY <1>0, <1>4, <1>6, <2>2 DEF a, SavedAside, WordsInv, Phased
      <4> QED  BY <4>3, <4>4
    <3>2. Due(companion.id) = 1
      <4> DEFINE s == doing["page"]
                 n == Len(s)
      <4>1. Proper("page", s) /\ n \in Nat /\ 1 \in 1..n /\ s[1].kind = "persist"
        BY <1>0, <1>4, <1>6, <3>1 DEF Agenda, a
      <4>2. n <= 2 /\ n # 1  BY <4>1 DEF Proper
      <4>3. n = 2
        <5> HIDE DEF n, s
        <5> QED  BY <4>1, <4>2
      <4>4. s[2].kind = "submit" /\ s[1].id = s[2].id  BY <4>1, <4>3, Zenon DEF Proper
      <4>5. 2 \in 1..Len(s)  BY <4>3
      <4>6. s[2] \in InHand
        <5>1. doing \in [Threads -> Seq(Acts)] /\ left \in Seq(Seq(Acts)) /\ "page" \in Threads
          BY <1>0 DEF TranscriptTypes, Threads
        <5> QED  BY <4>5, <5>1, HandHolds, Zenon DEF InHand
      <4>7. Held  BY <2>2 DEF Held, Holding
      <4>8. s[2].id = companion.id
        <5> HIDE DEF s
        <5> QED  BY <1>0, <4>4, <4>6, <4>7 DEF WordsInv, Together
      <4> HIDE DEF s
      <4> QED  BY <4>4, <4>6, <4>8 DEF Due
    <3>3. \A b \in InHand' : b.kind # "submit"
      <4>1. TranscriptTypes' /\ Agenda'  BY <1>14, <1>18
      <4>2. SubmitsOnPage'  BY <4>1, HeadsGoOn
      <4> QED  BY <1>15, <3>1, <4>2 DEF SubmitsOnPage
    <3>4. \A id \in Ids : /\ Due(id)' = 0 /\ OnWire(id)' = OnWire(id)
                          /\ FailedLate(id)' = FailedLate(id) /\ FailedAnswer(id)' = FailedAnswer(id)
      BY <1>20, <3>3 DEF Due, OnWire, FailedLate, FailedAnswer
    <3>5. \A id \in Ids : Spent(id)' <= Spent(id) /\ (companion.id = id => Spent(id)' + 1 <= Spent(id))
      <4> TAKE id \in Ids
      <4>1. /\ Len(taken[id]) \in Nat /\ Cardinality(OnWire(id)) \in Nat /\ Due(id) \in 0..1
        BY <1>0, NumbersHold DEF Numbers
      <4>2. Spent(id) = Len(taken[id]) + Cardinality(OnWire(id)) + Due(id)  BY DEF Spent
      <4>3. Spent(id)' = Len(taken[id]) + Cardinality(OnWire(id)) + 0
        BY <1>20, <3>4 DEF Spent
      <4> QED  BY <3>2, <4>1, <4>2, <4>3
    <3>6. \A id \in Ids : FailedLate(id) \in 0..1 /\ FailedAnswer(id) \in 0..1 /\ Spent(id) \in Nat /\ Spent(id)' \in Nat
      <4>1. \A id \in Ids : Spent(id) \in Nat /\ FailedLate(id) \in 0..1 /\ FailedAnswer(id) \in 0..1
        BY <1>0, NumbersHold DEF Numbers
      <4>2. \A id \in Ids : Spent(id)' \in Nat  BY <1>18, NumbersGoOn DEF Numbers
      <4> QED  BY <4>1, <4>2
    <3>7. \A id \in Ids : companion.id = id =>
             Spent(id)' + FailedLate(id)' + FailedAnswer(id)' + 1
               <= Spent(id) + FailedLate(id) + FailedAnswer(id)
      BY <3>4, <3>5, <3>6
    <3> QED  BY <1>0, <1>12, <1>18, <1>20, <2>2, <3>5, <3>7, CountedSubsides DEF WordsInv
  <2> QED  BY <2>1, <2>2
<1>28. Unstarted'  BY <1>2, <1>20 DEF Unstarted
<1> QED  BY <1>14, <1>18, <1>21, <1>22, <1>23, <1>25, <1>26, <1>27, <1>28 DEF TInv, WordsInv

LEMMA ClearPendingKeeps ==
  ASSUME TInv, NEW t \in Threads, ClearPending(t) PROVE TInv'
<1> DEFINE a == doing[t][1]
<1>0. TranscriptTypes /\ Agenda /\ WordsInv  BY DEF TInv
<1>1. /\ Doing(t, "clear") /\ Next_(t) /\ disk' \in {disk, NoRecord}
      /\ UNCHANGED <<running, companion, left, voice, outside, ghosts, crashes>>
  BY DEF ClearPending
<1>2. /\ running = "up" /\ Unstarted'
      /\ a.kind = "clear" /\ a \in InHand
      /\ doing' \in [Threads -> Seq(Acts)] /\ left' \in Seq(Seq(Acts)) /\ Agenda'
      /\ InHand' \subseteq InHand
      /\ \A b \in InHand : b.kind = "forget" => b \in InHand' \/ a = b
      /\ \A b \in Acts : Ready(b)' => Ready(b)
      /\ Phased' /\ Together'
  <2>1. UNCHANGED <<running, companion, left>>  BY <1>1
  <2>2. doing[t][1].kind = "clear" => doing[t][1].kind # "persist"  OBVIOUS
  <2> QED  BY <1>1, <2>1, <2>2, CarryIs
<1> HIDE DEF a
<1>3. \A id \in Ids : ~Needed(id)
  <2>1. \A id \in Ids : Needed(id) /\ a.kind \in {"clear", "forget"} => a.kind = "forget" /\ a.id = id
    BY <1>0, <1>2, SaverKnows
  <2> QED  BY <1>2, <2>1
<1>4. /\ companion' = companion /\ running' = running /\ wire' = wire /\ taken' = taken
      /\ asked' = asked /\ answers' = answers /\ late' = late /\ timers' = timers /\ attempts' = attempts
      /\ fate' = fate
  BY <1>1 DEF outside, ghosts
<1>5. TranscriptTypes'
  <2>1. /\ companion' \in Companions /\ companion'.commands \in 0..MaxDictations
        /\ companion'.id \in 0..MaxDictations
        /\ fate' \in [Ids -> {"unspoken", "spoken", "stored", "settled", "discarded", "abandoned", "dropped"}]
    BY <1>0, <1>4 DEF TranscriptTypes
  <2>2. Handled  BY <1>2, <2>1, Zenon DEF Handled
  <2>3. disk' \in {NoRecord} \cup {Tombstone(id) : id \in Ids} \cup {Record(id, text) : id \in Ids, text \in Texts}
    BY <1>0, <1>1 DEF TranscriptTypes
  <2>4. UNCHANGED <<running, voice, outside, taken, asked>>  BY <1>1 DEF ghosts
  <2> QED  BY <1>0, <2>1, <2>2, <2>3, <2>4, SavedTypes
<1>6. /\ Fewer /\ Fixed /\ (Held' <=> Held)
      /\ \A b \in InHand : b.kind = "forget" => b \in InHand'
      /\ \A b \in InHand' : Ready(b)' => Ready(b)
  <2>1. InHand' \subseteq Acts  BY DEF InHand, HandOf
  <2> QED  BY <1>2, <1>4, <2>1 DEF Fewer, Fixed, Held
<1>7. Known'
  <2>1. PendingKind({"submit"})' => PendingKind({"submit"})  BY <1>2 DEF PendingKind
  <2>2. disk'.id <= companion.commands
    <3>1. NoRecord.id = 0  BY DEF NoRecord, NoId
    <3>2. disk.id <= companion.commands /\ companion.commands \in Nat
      BY <1>0 DEF WordsInv, Known, TranscriptTypes
    <3> QED  BY <1>1, <3>1, <3>2
  <2> QED  BY <1>0, <1>2, <1>4, <2>1, <2>2 DEF WordsInv, Known
<1>8. Fates'
  BY <1>1, <1>3, <1>4, <1>5, <1>6, FatesStay
<1>9. Worded'  BY <1>1, <1>4, <1>6, WordedStays
<1>10. Counted'
  <2>1. UNCHANGED <<wire, taken, asked>> /\ answers' \subseteq answers
        /\ \A x \in late' : x \in late \/ x.kind # "submission_failed"
    BY <1>4
  <2>2. Counted  BY <1>0 DEF WordsInv
  <2>3. Held' => /\ Held /\ companion'.id = companion.id
                 /\ companion'.delivery = companion.delivery /\ companion'.phase = companion.phase
    BY <1>4 DEF Held
  <2> QED  BY <1>0, <1>5, <1>6, <2>1, <2>2, <2>3, CountedStays
<1> QED  BY <1>2, <1>5, <1>7, <1>8, <1>9, <1>10 DEF TInv, WordsInv

\* Words thrown away, or given up for lack of a disk: no one needs any others.
LEMMA ForgottenFates ==
  ASSUME TInv, TranscriptTypes', running' = running, NEW a \in InHand, a.kind = "forget", running = "up",
         Fewer, ~Held', NEW what, what \in {"discarded", "dropped"}, fate' = Fated({a.id}, what),
         UNCHANGED <<wire, taken, answers>>,
         (disk' = disk /\ what = "dropped") \/ disk' = NoRecord \/ disk'.discarded
  PROVE  Fates' /\ \A id \in Ids : ~Needed(id)'
<1>0. TranscriptTypes /\ WordsInv /\ Fates  BY DEF TInv, WordsInv
<1>1. a.id \in Ids /\ \A id \in Ids : Needed(id) => a.id = id
  BY <1>0, SaverKnows
<1>2. \A id \in Ids : fate'[id] = (IF id = a.id THEN what ELSE fate[id])
  BY <1>0, <1>1 DEF Fated, TranscriptTypes
<1>3. \A id \in Ids : ~Needed(id)'
  BY <1>1, <1>2 DEF Needed
<1>4. \A id \in Ids : fate'[id] \notin {"spoken", "stored"}
  BY <1>3 DEF Needed
<1>5. \A b \in InHand : b.kind \notin {"persist", "submit"}
  BY <1>0 DEF WordsInv, Phased, PendingKind
<1>6. \A b \in InHand' : b.kind \notin {"persist", "submit"}
  BY <1>5 DEF Fewer
<1>7. \A b \in InHand' : ~Ready(b)'  BY <1>6 DEF Ready
<1>8. disk'.id # NoId /\ ~disk'.discarded => fate'[disk'.id] # "discarded"
  <2>1. SUFFICES ASSUME disk' = disk, what = "dropped", disk.id # NoId, ~disk.discarded
                 PROVE  fate'[disk.id] # "discarded"
    BY DEF NoRecord
  <2>2. disk.id \in Ids  BY <1>0, <2>1 DEF TranscriptTypes, NoRecord, Tombstone, Record
  <2>3. fate[disk.id] # "discarded"  BY <1>0, <2>1 DEF Fates
  <2> QED  BY <1>2, <2>1, <2>2, <2>3
<1>9. \A m \in wire' : fate'[m.id] # "spoken"
  <2>1. \A m \in wire : m.id \in Ids  BY <1>0 DEF TranscriptTypes, Messages
  <2> QED  BY <1>4, <2>1
<1>10. \A e \in answers' : e.kind = "acknowledged" => taken'[e.id] # <<>>
  BY <1>0 DEF Fates
<1>11. \A id \in Ids : fate'[id] = "settled" => taken'[id] # <<>>
  BY <1>0, <1>2 DEF Fates
<1> QED  BY <1>3, <1>4, <1>6, <1>7, <1>8, <1>9, <1>10, <1>11, ZenonT(60) DEF Fates

LEMMA DiscardPendingKeeps ==
  ASSUME TInv, NEW t \in Threads, DiscardPending(t) PROVE TInv'
<1> DEFINE a == doing[t][1]
<1>0. TranscriptTypes /\ Agenda /\ WordsInv  BY DEF TInv
<1>1. /\ Doing(t, "forget") /\ Next_(t)
      /\ disk' = NoRecord \/ disk' = Tombstone(Head(doing[t]).id)
      /\ fate' = Fated({Head(doing[t]).id}, "discarded")
      /\ UNCHANGED <<running, companion, left, voice, outside, taken, asked, crashes>>
  BY DEF DiscardPending
<1>2. /\ running = "up" /\ Unstarted' /\ Head(doing[t]) = a
      /\ a.kind = "forget" /\ a \in InHand
      /\ doing' \in [Threads -> Seq(Acts)] /\ left' \in Seq(Seq(Acts)) /\ Agenda'
      /\ InHand' \subseteq InHand
      /\ \A b \in Acts : Ready(b)' => Ready(b)
      /\ Phased' /\ Together'
  <2>1. UNCHANGED <<running, companion, left>>  BY <1>1
  <2>2. doing[t][1].kind = "forget" => doing[t][1].kind # "persist"  OBVIOUS
  <2> QED  BY <1>1, <2>1, <2>2, CarryIs
<1>3. disk' \in {NoRecord, Tombstone(a.id)} /\ fate' = Fated({a.id}, "discarded")  BY <1>1, <1>2
<1> HIDE DEF a
<1>4. a.id \in Ids /\ a.id <= companion.commands  BY <1>0, <1>2, SaverKnows
<1>5. /\ companion' = companion /\ running' = running /\ wire' = wire /\ taken' = taken
      /\ asked' = asked /\ answers' = answers /\ late' = late /\ timers' = timers /\ attempts' = attempts
  BY <1>1 DEF outside
<1>6. TranscriptTypes'
  <2>1. /\ companion' \in Companions /\ companion'.commands \in 0..MaxDictations
        /\ companion'.id \in 0..MaxDictations
    BY <1>0, <1>5 DEF TranscriptTypes
  <2>2. fate' \in [Ids -> {"unspoken", "spoken", "stored", "settled", "discarded", "abandoned", "dropped"}]
    BY <1>0, <1>3 DEF TranscriptTypes, Fated
  <2>3. Handled  BY <1>2, <2>1, Zenon DEF Handled
  <2>4. disk' \in {NoRecord} \cup {Tombstone(id) : id \in Ids} \cup {Record(id, text) : id \in Ids, text \in Texts}
    BY <1>3, <1>4
  <2> QED  BY <1>0, <1>1, <2>2, <2>3, <2>4, SavedTypes
<1>7. ~Held' /\ Fewer /\ Fixed /\ \A b \in InHand' : Ready(b)' => Ready(b)
  <2>1. companion.phase = "resting"  BY <1>0, <1>2 DEF WordsInv, Phased, PendingKind
  <2>2. ~Held'  BY <1>5, <2>1 DEF Held, Holding
  <2>3. InHand' \subseteq Acts  BY DEF InHand, HandOf
  <2> QED  BY <1>2, <2>2, <2>3 DEF Fewer, Fixed
<1>8. Known'
  <2>1. PendingKind({"submit"})' => PendingKind({"submit"})  BY <1>2 DEF PendingKind
  <2>2. disk'.id <= companion.commands
    <3>1. NoRecord.id = 0 /\ Tombstone(a.id).id = a.id  BY DEF NoRecord, NoId, Tombstone
    <3>2. companion.commands \in Nat  BY <1>0 DEF TranscriptTypes
    <3> QED  BY <1>3, <1>4, <3>1, <3>2
  <2>3. \A id \in Ids : id > companion.commands => fate'[id] = "unspoken"
    <3> TAKE id \in Ids
    <3>1. id \in Nat /\ companion.commands \in Nat /\ a.id \in Nat
      BY <1>0, <1>4, BoundsAssumption DEF TranscriptTypes, Ids
    <3>2. id > companion.commands => id # a.id  BY <1>4, <3>1
    <3>3. id > companion.commands => fate[id] = "unspoken"  BY <1>0 DEF WordsInv, Known
    <3> QED  BY <1>0, <1>3, <3>2, <3>3 DEF Fated, TranscriptTypes
  <2> QED  BY <1>0, <1>2, <1>5, <2>1, <2>2, <2>3 DEF WordsInv, Known
<1>9. disk' = NoRecord \/ disk'.discarded  BY <1>3 DEF Tombstone
<1>10. Fates'
  BY <1>2, <1>3, <1>5, <1>6, <1>7, <1>9, ForgottenFates
<1>11. Worded'  BY <1>5, <1>7, <1>9, WordedStays
<1>12. Counted'
  <2>1. UNCHANGED <<wire, taken, asked>> /\ answers' \subseteq answers
        /\ \A x \in late' : x \in late \/ x.kind # "submission_failed"
    BY <1>5
  <2>2. Counted  BY <1>0 DEF WordsInv
  <2> QED  BY <1>0, <1>6, <1>7, <2>1, <2>2, CountedStays
<1> QED  BY <1>2, <1>6, <1>8, <1>10, <1>11, <1>12 DEF TInv, WordsInv

LEMMA DiscardFailsKeeps ==
  ASSUME TInv, NEW t \in Threads, DiscardFails(t) PROVE TInv'
<1> DEFINE a == doing[t][1]
           e == Event("discard_failed", Head(doing[t]).id, Empty)
           d == Apply(companion, e)
<1>0. TranscriptTypes /\ Agenda /\ WordsInv /\ companion \in Companions
  <2>1. TranscriptTypes /\ Agenda /\ WordsInv  BY Zenon DEF TInv
  <2> QED  BY <2>1, PillFits, Zenon
<1>1. /\ running # "down" /\ doing[t] # <<>> /\ Head(doing[t]).kind = "forget"
      /\ Handle(t, e)
      /\ UNCHANGED <<running, voice, disk, outside, taken, asked, crashes>>
  BY DEF DiscardFails, Doing
<1>2. running = "up"  BY <1>1 DEF TInv, Unstarted, Idle
<1>3. doing[t] \in Seq(Acts)  BY <1>0 DEF TranscriptTypes
<1>4. Head(doing[t]) = a /\ 1 \in 1..Len(doing[t]) /\ Len(doing[t]) \in Nat
  BY <1>1, <1>3
<1>5. a \in InHand
  <2>1. doing \in [Threads -> Seq(Acts)] /\ left \in Seq(Seq(Acts))  BY <1>0 DEF TranscriptTypes
  <2> QED  BY <1>4, <2>1, HandHolds, Zenon DEF InHand
<1>6. a.kind = "forget"  BY <1>1, <1>4
<1>7. a.id \in Ids /\ a.id <= companion.commands  BY <1>0, <1>2, <1>5, <1>6, SaverKnows
<1>8. companion.phase = "resting" /\ ~Held
  <2>1. companion.phase = "resting"  BY <1>0, <1>5, <1>6 DEF WordsInv, Phased, PendingKind
  <2> QED  BY <2>1 DEF Held, Holding
<1>9. d = Done(Without(companion, "failed"), <<>>)
  <2>1. e = Event("discard_failed", a.id, Empty)  BY <1>4
  <2>2. a.id \in Nat  BY <1>7 DEF Ids
  <2> HIDE DEF a
  <2> QED  BY <1>0, <1>8, <2>1, <2>2, FailureIs
<1>10. companion' = d.companion /\ fate' = FateAfter(e, d)  BY <1>1 DEF Handle
<1>11. d = Apply(companion, e) /\ e.kind = "discard_failed" /\ e.id = a.id
  BY <1>4 DEF Event
<1>12. fate' = Fated({a.id}, "dropped")
  BY <1>10, <1>11 DEF FateAfter
<1> HIDE DEF a, d, e
<1>13. /\ d.actions = <<>> /\ d.companion \in Companions
       /\ Wordless(companion', "failed", companion.commands)
  BY <1>0, <1>9, <1>10, FailedIs DEF Done
<1>14. Quietly(d.actions) /\ Proper(t, d.actions)
  BY <1>13, QuietActs, ProperEmpty
<1>15. /\ doing' \in [Threads -> Seq(Acts)] /\ left' \in Seq(Seq(Acts)) /\ Agenda'
       /\ doing'[t] = (IF Waits(Posture(d.companion)) THEN <<>> ELSE d.actions)
       /\ Handed
  BY <1>0, <1>1, <1>11, <1>14, QuietHandle, Zenon
<1>16. doing'[t] = <<>>  BY <1>13, <1>15
<1>17. companion' \in Companions /\ ~Held' /\ companion'.id = NoId /\ companion'.delivery = "refused"
       /\ companion'.commands = companion.commands /\ companion'.phase = "failed"
  BY <1>10, <1>13 DEF Wordless, Held, Holding
<1>18. TranscriptTypes'
  <2>1. companion'.commands \in 0..MaxDictations /\ companion'.id \in 0..MaxDictations
    BY <1>0, <1>17, BoundsAssumption DEF TranscriptTypes, NoId
  <2>2. Handled  BY <1>15, <1>17, <2>1, Zenon DEF Handled
  <2>3. fate' \in [Ids -> {"unspoken", "spoken", "stored", "settled", "discarded", "abandoned", "dropped"}]
    BY <1>0, <1>12 DEF TranscriptTypes, Fated
  <2>4. disk' \in {NoRecord} \cup {Tombstone(id) : id \in Ids} \cup {Record(id, text) : id \in Ids, text \in Texts}
    BY <1>0, <1>1 DEF TranscriptTypes
  <2> QED  BY <1>0, <1>1, <2>2, <2>3, <2>4, SavedTypes
<1>19. Fewer /\ Fixed /\ \A b \in InHand' : Ready(b)' => Ready(b)
  <2>1. InHand' \subseteq Acts  BY DEF InHand, HandOf
  <2> QED  BY <1>15, <1>17, <2>1, HandedFewer DEF Fixed, Handed
<1>20. /\ running' = running /\ wire' = wire /\ taken' = taken /\ asked' = asked /\ answers' = answers
       /\ late' = late /\ timers' = timers /\ attempts' = attempts /\ disk' = disk
  BY <1>1 DEF outside
<1>21. Phased'
  <2>1. \A b \in InHand : b.kind \notin {"persist", "submit", "clear"}
    BY <1>0, <1>5, <1>6 DEF WordsInv, Phased, PendingKind
  <2>2. ForgetsAtHead'  BY <1>15, <1>18, HeadsGoOn
  <2>3. \A b \in InHand' : b.kind # "forget"
    <3> SUFFICES ASSUME NEW b \in InHand', b.kind = "forget" PROVE FALSE
      OBVIOUS
    <3>1. PICK u \in Threads : Forgets(u)'  BY <2>2 DEF ForgetsAtHead
    <3>2. Forgets(u)  BY <1>15, <3>1 DEF Handed
    <3>3. Forgets(t)  BY <1>1, <1>4, <1>6 DEF Forgets, a
    <3>4. u = t  BY <1>0, <3>2, <3>3 DEF WordsInv, Phased, Forgets
    <3> QED  BY <1>16, <3>1, <3>4 DEF Forgets
  <2>4. \A b \in InHand' : b.kind \notin Wording
    BY <1>15, <2>1, <2>3 DEF Handed, Voiced, VoiceActs, Wording
  <2>5. ~PendingKind(Wording)' /\ ~PendingKind({"forget", "clear"})' /\ ~PendingKind({"forget"})'
    BY <2>4 DEF PendingKind, Wording
  <2>6. \A u, v \in Threads : Forgets(u)' /\ Forgets(v)' => u = v
    BY <1>0, <1>15 DEF Handed, WordsInv, Phased, Forgets
  <2> QED  BY <1>17, <2>5, <2>6 DEF Phased, Forgets
<1>22. Together'  BY <1>0, <1>19, TogetherStays DEF WordsInv
<1>23. Known'
  <2>1. PendingKind({"submit"})' => PendingKind({"submit"})  BY <1>19 DEF PendingKind, Fewer
  <2>3. \A id \in Ids : id > companion.commands => fate'[id] = "unspoken"
    <3> TAKE id \in Ids
    <3>1. id \in Nat /\ companion.commands \in Nat /\ a.id \in Nat
      BY <1>0, <1>7, BoundsAssumption DEF TranscriptTypes, Ids
    <3>2. id > companion.commands => id # a.id  BY <1>7, <3>1
    <3>3. id > companion.commands => fate[id] = "unspoken"  BY <1>0 DEF WordsInv, Known
    <3> QED  BY <1>0, <1>12, <3>2, <3>3 DEF Fated, TranscriptTypes
  <2> QED  BY <1>0, <1>17, <1>19, <1>20, <2>1, <2>3 DEF WordsInv, Known, Fewer
<1>24. Fates'
  BY <1>2, <1>5, <1>6, <1>12, <1>17, <1>18, <1>19, <1>20, ForgottenFates
<1>25. Worded'  BY <1>19, <1>20, WordedStays
<1>26. Counted'
  <2>1. UNCHANGED <<wire, taken, asked>> /\ answers' \subseteq answers
        /\ \A x \in late' : x \in late \/ x.kind # "submission_failed"
    BY <1>20
  <2>2. Counted  BY <1>0 DEF WordsInv
  <2> QED  BY <1>0, <1>17, <1>18, <1>19, <2>1, <2>2, CountedStays
<1>27. Unstarted'  BY <1>2, <1>20 DEF Unstarted
<1> QED  BY <1>15, <1>18, <1>21, <1>22, <1>23, <1>24, <1>25, <1>26, <1>27 DEF TInv, WordsInv

\* The page's only submission leaves its hand.
LEMMA SubmitIs ==
  ASSUME TInv, NEW t \in Threads, Doing(t, "submit"), Next_(t),
         UNCHANGED <<running, companion, left>>, TranscriptTypes'
  PROVE  /\ t = "page" /\ Ready(doing[t][1])
         /\ \A b \in InHand' : b.kind # "submit" /\ ~Ready(b)'
<1>0. TranscriptTypes /\ Agenda  BY DEF TInv
<1>1. /\ Head(doing[t]) = doing[t][1] /\ doing[t][1].kind = "submit" /\ doing[t][1] \in InHand
      /\ Agenda'
  BY CarryIs
<1>2. doing[t] \in Seq(Acts) /\ doing[t] # <<>>  BY <1>0 DEF TranscriptTypes, Doing
<1>3. Proper(t, doing[t])  BY <1>0, Zenon DEF Agenda
<1>4. 1 \in 1..Len(doing[t])  BY <1>2
<1>5. doing[t][1].kind \in Threaded(t)  BY <1>3, <1>4, Zenon DEF Proper
<1>6. t = "page"  BY <1>1, <1>5 DEF Threaded, Threads, VoiceActs
<1>7. doing'["page"] = <<>>
  <2> DEFINE s == doing["page"]
             n == Len(s)
  <2>1. Proper("page", s) /\ s \in Seq(Acts) /\ s # <<>> /\ n \in Nat /\ n <= 2 /\ s[1].kind = "submit"
    BY <1>1, <1>2, <1>3, <1>6 DEF Proper
  <2>2. n # 2  BY <2>1 DEF Proper
  <2>3. n # 0  BY <2>1
  <2>4. n = 1
    <3> HIDE DEF n
    <3> QED  BY <2>1, <2>2, <2>3
  <2>5. Tail(s) \in Seq(Acts) /\ Len(Tail(s)) = Len(s) - 1  BY <2>1, TailIs, Zenon
  <2>6. Tail(s) = <<>>
    <3> DEFINE r == Tail(s)
    <3>1. Len(r) = 0 /\ r \in Seq(Acts)  BY <2>4, <2>5
    <3> HIDE DEF r
    <3>2. r = <<>>  BY <3>1
    <3> QED  BY <3>2 DEF r
  <2>7. doing' = [doing EXCEPT !["page"] = Tail(s)]  BY <1>6 DEF Next_
  <2>8. "page" \in Threads /\ doing \in [Threads -> Seq(Acts)]  BY <1>0 DEF Threads, TranscriptTypes
  <2> QED  BY <2>6, <2>7, <2>8
<1>8. SubmitsOnPage'  BY <1>1, HeadsGoOn
<1> QED  BY <1>1, <1>2, <1>6, <1>7, <1>8 DEF SubmitsOnPage, Ready

LEMMA SubmitKeeps ==
  ASSUME TInv, NEW t \in Threads, Submit(t) PROVE TInv'
<1> DEFINE a == doing[t][1]
           n == attempts + 1
           m == [id |-> a.id, text |-> a.text, attempt |-> n]
<1>0. TranscriptTypes /\ Agenda /\ WordsInv  BY DEF TInv
<1>1. /\ Doing(t, "submit") /\ Next_(t)
      /\ UNCHANGED <<running, companion, left>>
      /\ UNCHANGED <<voice, disk, late, linked, answers, ghosts>>
  BY DEF Submit
<1>2. /\ running = "up" /\ Unstarted' /\ Head(doing[t]) = a
      /\ a.kind = "submit" /\ a \in InHand /\ a \in Acts
      /\ doing' \in [Threads -> Seq(Acts)] /\ left' \in Seq(Seq(Acts)) /\ Agenda'
      /\ InHand' \subseteq InHand
      /\ \A b \in InHand : b.kind = "forget" => b \in InHand' \/ a = b
      /\ Phased' /\ Together'
  BY <1>1, CarryIs
<1>3. attempts' = n /\ wire' = wire \cup {m} /\ timers' = timers \cup {[id |-> a.id, attempt |-> n]}
  BY <1>2 DEF Submit
<1>4. a.id \in 1..companion.commands /\ a.text \in Texts
  BY <1>0, <1>2 DEF WordsInv, Known
<1>5. a.id \in Ids  BY <1>0, <1>4, SpokenIds
<1>6. attempts \in Nat /\ attempts < MaxSends
  <2>1. PendingKind({"submit"})  BY <1>2 DEF PendingKind
  <2>2. attempts # MaxSends /\ attempts \in 0..MaxSends /\ MaxSends \in Nat
    BY <1>0, <2>1, BoundsAssumption DEF WordsInv, Known, TranscriptTypes
  <2> QED  BY <2>2
<1>7. m \in Messages /\ m.id = a.id /\ m.text = a.text /\ m.attempt = n /\ m \notin wire
  <2>1. m \in Messages  BY <1>4, <1>5, <1>6 DEF Messages
  <2>2. \A x \in wire : x.attempt <= attempts /\ x.attempt \in Nat  BY <1>0 DEF TranscriptTypes, Messages
  <2> QED  BY <1>6, <2>1, <2>2
<1>8. /\ companion' = companion /\ running' = running /\ taken' = taken /\ disk' = disk /\ voice' = voice
      /\ asked' = asked /\ answers' = answers /\ late' = late /\ fate' = fate
  BY <1>1 DEF ghosts
<1> HIDE DEF a, m
<1>9. TranscriptTypes'
  <2>1. /\ wire' \in SUBSET Messages /\ IsFiniteSet(wire')
    <3>1. wire \in SUBSET Messages /\ IsFiniteSet(wire)  BY <1>0 DEF TranscriptTypes
    <3> QED  BY <1>3, <1>7, <3>1, FS_AddElement
  <2>2. \A x \in wire' : x.attempt <= attempts'
    <3>1. \A x \in wire : x.attempt <= attempts /\ x.attempt \in Nat  BY <1>0 DEF TranscriptTypes, Messages
    <3> QED  BY <1>3, <1>6, <1>7, <3>1
  <2>3. timers' \in SUBSET [id : Ids, attempt : Nat]
    <3>1. timers \in SUBSET [id : Ids, attempt : Nat]  BY <1>0 DEF TranscriptTypes
    <3>2. [id |-> a.id, attempt |-> n] \in [id : Ids, attempt : Nat]  BY <1>5, <1>6
    <3> QED  BY <1>3, <3>1, <3>2
  <2>4. attempts' \in 0..MaxSends  BY <1>3, <1>6, BoundsAssumption
  <2>5. /\ running' \in {"down", "starting", "up"}
        /\ companion' \in Companions /\ companion'.commands \in 0..MaxDictations
        /\ companion'.id \in 0..MaxDictations
        /\ voice' \in {"off", "recording", "finishing"}
        /\ disk' \in {NoRecord} \cup {Tombstone(id) : id \in Ids}
                    \cup {Record(id, text) : id \in Ids, text \in Texts}
    BY <1>0, <1>8 DEF TranscriptTypes
  <2>6. /\ late' \in SUBSET [kind : LateKinds, id : 0..MaxDictations, text : {Empty}]
        /\ answers' \in SUBSET [kind : AnswerKinds, id : Ids, text : {Empty}]
        /\ taken' \in [Ids -> Seq(Texts)] /\ asked' \in [Ids -> Nat]
        /\ fate' \in [Ids -> {"unspoken", "spoken", "stored", "settled", "discarded", "abandoned", "dropped"}]
    BY <1>0, <1>8 DEF TranscriptTypes
  <2> QED  BY <1>2, <2>1, <2>2, <2>3, <2>4, <2>5, <2>6, SMTT(60) DEF TranscriptTypes
<1>10. /\ t = "page" /\ Ready(a)
       /\ \A b \in InHand' : b.kind # "submit" /\ ~Ready(b)'
  BY <1>1, <1>9, SubmitIs DEF a
<1>11. Known'
  <2>1. ~PendingKind({"submit"})'  BY <1>10 DEF PendingKind
  <2>2. \A x \in wire' : x.id <= companion.commands
    BY <1>0, <1>3, <1>4, <1>7 DEF WordsInv, Known
  <2>3. \A x \in timers' : x.id <= companion.commands
    BY <1>0, <1>3, <1>4 DEF WordsInv, Known
  <2> QED  BY <1>0, <1>2, <1>8, <2>1, <2>2, <2>3 DEF WordsInv, Known
<1>12. Fates'
  <2>1. Fates  BY <1>0 DEF WordsInv
  <2>2. \A x \in wire' : fate'[x.id] # "spoken"
    <3>1. fate[a.id] # "spoken"  BY <1>2, <1>10, <2>1 DEF Fates
    <3> QED  BY <1>3, <1>7, <1>8, <2>1, <3>1 DEF Fates
  <2>3. \A id \in Ids : running' = "up" /\ Needed(id)' =>
          \/ Held' /\ companion'.id = id
          \/ \E b \in InHand' : b.kind = "forget" /\ b.id = id
    <3> TAKE id \in Ids
    <3>1. running = "up" /\ Needed(id) =>
          \/ Held /\ companion.id = id
          \/ \E b \in InHand : b.kind = "forget" /\ b.id = id
      BY <2>1 DEF Fates
    <3> QED  BY <1>2, <1>8, <3>1 DEF Held, Needed
  <2>4. \A b \in InHand' : b.kind \in {"persist", "submit"} => fate'[b.id] # "discarded"
    BY <1>2, <1>8, <2>1 DEF Fates
  <2> QED  BY <1>8, <1>10, <2>1, <2>2, <2>3, <2>4 DEF Fates, Held
<1>13. \A id \in Ids : /\ Spent(id)' <= Spent(id) /\ FailedLate(id)' = FailedLate(id)
                       /\ FailedAnswer(id)' = FailedAnswer(id) /\ Spent(id) \in Nat /\ Spent(id)' \in Nat
  <2> TAKE id \in Ids
  <2>1. /\ Len(taken[id]) \in Nat /\ Cardinality(OnWire(id)) \in Nat /\ Due(id) \in 0..1
        /\ IsFiniteSet(OnWire(id)) /\ Spent(id) \in Nat
    BY <1>0, NumbersHold DEF Numbers
  <2>2. Spent(id)' \in Nat  BY <1>9, NumbersGoOn DEF Numbers
  <2>3. Due(id)' = 0  BY <1>10 DEF Due
  <2>4. Cardinality(OnWire(id)') <= Cardinality(OnWire(id)) + Due(id)
    <3>1. CASE id = a.id
      <4>1. OnWire(id)' = OnWire(id) \cup {m}  BY <1>3, <1>7, <3>1 DEF OnWire
      <4>2. m \notin OnWire(id)  BY <1>7 DEF OnWire
      <4>3. Cardinality(OnWire(id)') = Cardinality(OnWire(id)) + 1
        BY <2>1, <4>1, <4>2, FS_AddElement
      <4>4. Due(id) = 1  BY <1>2, <3>1 DEF Due
      <4> QED  BY <2>1, <4>3, <4>4
    <3>2. CASE id # a.id
      <4>1. OnWire(id)' = OnWire(id)  BY <1>3, <1>7, <3>2 DEF OnWire
      <4> QED  BY <2>1, <4>1
    <3> QED  BY <3>1, <3>2
  <2>5. Spent(id) = Len(taken[id]) + Cardinality(OnWire(id)) + Due(id)  BY DEF Spent
  <2>6. Spent(id)' = Len(taken[id]) + Cardinality(OnWire(id)') + 0  BY <1>8, <2>3 DEF Spent
  <2>7. Cardinality(OnWire(id)') \in Nat
    <3>1. (Cardinality(OnWire(id)) \in Nat)'  BY <1>9, NumbersGoOn DEF Numbers
    <3> QED  BY <3>1
  <2>8. Spent(id)' <= Spent(id)  BY <2>1, <2>4, <2>5, <2>6, <2>7
  <2>9. FailedLate(id)' = FailedLate(id) /\ FailedAnswer(id)' = FailedAnswer(id)
    BY <1>8 DEF FailedLate, FailedAnswer
  <2> QED  BY <2>1, <2>2, <2>8, <2>9
<1>14. Counted'
  <2>1. \A id \in Ids : FailedLate(id) \in 0..1 /\ FailedAnswer(id) \in 0..1
    BY <1>0, NumbersHold DEF Numbers
  <2>2. Counted  BY <1>0 DEF WordsInv
  <2>3. \A id \in Ids : Spent(id)' <= 1 + asked'[id]
    <3> TAKE id \in Ids
    <3>1. Spent(id) <= 1 + asked[id] /\ asked[id] \in Nat  BY <1>0, <2>2 DEF Counted, TranscriptTypes
    <3> QED  BY <1>8, <1>13, <3>1
  <2>4. \A id \in Ids : Held' /\ companion'.id = id /\ companion'.delivery = "refused" =>
          /\ asked'[id] = 0
          /\ Spent(id)' + FailedLate(id)' + FailedAnswer(id)' <= (IF companion'.phase = "sent" THEN 1 ELSE 0)
    <3> SUFFICES ASSUME NEW id \in Ids, Held', companion'.id = id, companion'.delivery = "refused"
                 PROVE  /\ asked'[id] = 0
                        /\ Spent(id)' + FailedLate(id)' + FailedAnswer(id)' <= (IF companion'.phase = "sent" THEN 1 ELSE 0)
      OBVIOUS
    <3>1. /\ asked[id] = 0
          /\ Spent(id) + FailedLate(id) + FailedAnswer(id) <= (IF companion.phase = "sent" THEN 1 ELSE 0)
      BY <1>8, <2>2 DEF Counted, Held
    <3>2. Spent(id)' + FailedLate(id)' + FailedAnswer(id)' <= (IF companion.phase = "sent" THEN 1 ELSE 0)
      BY <1>13, <2>1, <3>1
    <3> QED  BY <1>8, <3>1, <3>2
  <2> QED  BY <2>3, <2>4 DEF Counted
<1>15. Worded'
  <2>1. \A id, x : Out(id, x)' => Out(id, x) \/ (id = a.id /\ x = a.text)
    BY <1>3, <1>7, <1>8 DEF Out
  <2>2. Worded /\ Together  BY <1>0 DEF WordsInv
  <2>3. \A x \in Texts : Out(a.id, x) => x = a.text  BY <1>2, <2>2 DEF Worded
  <2>4. (\A id \in Ids : \A x, y \in Texts : Out(id, x) /\ Out(id, y) => x = y)'
    BY <2>1, <2>2, <2>3 DEF Worded
  <2>5. (\A x \in Texts : disk.id # NoId /\ ~disk.discarded /\ Out(disk.id, x) => disk.text = x)'
    BY <1>2, <1>8, <1>10, <2>1, <2>2 DEF Worded
  <2>6. (\A x \in Texts : Held /\ Out(companion.id, x) => companion.text = x)'
    BY <1>2, <1>8, <2>1, <2>2, SMTT(60) DEF Worded, Held, Together
  <2>7. (\A b \in InHand : \A x \in Texts :
           b.kind \in {"persist", "submit"} /\ Out(b.id, x) => b.text = x)'
    BY <1>2, <2>1, <2>2 DEF Worded, Together
  <2> QED  BY <1>10, <2>4, <2>5, <2>6, <2>7 DEF Worded
<1> QED  BY <1>2, <1>9, <1>11, <1>12, <1>14, <1>15 DEF TInv, WordsInv

LEMMA SubmitFailsKeeps ==
  ASSUME TInv, NEW t \in Threads, SubmitFails(t) PROVE TInv'
<1> DEFINE a == doing[t][1]
           e == Event("submission_failed", a.id, Empty)
<1>0. TranscriptTypes /\ Agenda /\ WordsInv  BY DEF TInv
<1>1. /\ Doing(t, "submit") /\ Next_(t)
      /\ UNCHANGED <<running, companion, left>>
      /\ UNCHANGED <<voice, disk, timers, linked, wire, answers, ghosts>>
  BY DEF SubmitFails
<1>2. /\ running = "up" /\ Unstarted' /\ Head(doing[t]) = a
      /\ a.kind = "submit" /\ a \in InHand /\ a \in Acts
      /\ doing' \in [Threads -> Seq(Acts)] /\ left' \in Seq(Seq(Acts)) /\ Agenda'
      /\ InHand' \subseteq InHand
      /\ \A b \in InHand : b.kind = "forget" => b \in InHand' \/ a = b
      /\ Phased' /\ Together'
  BY <1>1, CarryIs
<1>3. attempts' = attempts + 1 /\ late' = late \cup {e}
  BY <1>2 DEF SubmitFails
<1>4. a.id \in 1..companion.commands
  BY <1>0, <1>2 DEF WordsInv, Known
<1>5. a.id \in Ids  BY <1>0, <1>4, SpokenIds
<1>6. attempts \in Nat /\ attempts < MaxSends
  <2>1. PendingKind({"submit"})  BY <1>2 DEF PendingKind
  <2>2. attempts # MaxSends /\ attempts \in 0..MaxSends /\ MaxSends \in Nat
    BY <1>0, <2>1, BoundsAssumption DEF WordsInv, Known, TranscriptTypes
  <2> QED  BY <2>2
<1>7. e \in [kind : LateKinds, id : 0..MaxDictations, text : {Empty}] /\ e.id = a.id
  BY <1>5, BoundsAssumption DEF Event, LateKinds, Ids
<1>8. /\ companion' = companion /\ running' = running /\ taken' = taken /\ disk' = disk /\ voice' = voice
      /\ asked' = asked /\ answers' = answers /\ wire' = wire /\ timers' = timers /\ fate' = fate
  BY <1>1 DEF ghosts
<1>e. \A id \in Ids : Event("submission_failed", id, Empty) = e => id = a.id
  BY DEF Event
<1> HIDE DEF a, e
<1>9. TranscriptTypes'
  <2>1. /\ wire' \in SUBSET Messages /\ IsFiniteSet(wire')
        /\ timers' \in SUBSET [id : Ids, attempt : Nat]
    BY <1>0, <1>8 DEF TranscriptTypes
  <2>2. \A x \in wire' : x.attempt <= attempts'
    <3>1. \A x \in wire : x.attempt <= attempts /\ x.attempt \in Nat  BY <1>0 DEF TranscriptTypes, Messages
    <3> QED  BY <1>3, <1>6, <1>8, <3>1
  <2>3. late' \in SUBSET [kind : LateKinds, id : 0..MaxDictations, text : {Empty}]
    <3>1. late \in SUBSET [kind : LateKinds, id : 0..MaxDictations, text : {Empty}]
      BY <1>0 DEF TranscriptTypes
    <3> QED  BY <1>3, <1>7, <3>1
  <2>4. attempts' \in 0..MaxSends  BY <1>3, <1>6, BoundsAssumption
  <2>5. /\ running' \in {"down", "starting", "up"}
        /\ companion' \in Companions /\ companion'.commands \in 0..MaxDictations
        /\ companion'.id \in 0..MaxDictations
        /\ voice' \in {"off", "recording", "finishing"}
        /\ disk' \in {NoRecord} \cup {Tombstone(id) : id \in Ids}
                    \cup {Record(id, text) : id \in Ids, text \in Texts}
    BY <1>0, <1>8 DEF TranscriptTypes
  <2>6. /\ answers' \in SUBSET [kind : AnswerKinds, id : Ids, text : {Empty}]
        /\ taken' \in [Ids -> Seq(Texts)] /\ asked' \in [Ids -> Nat]
        /\ fate' \in [Ids -> {"unspoken", "spoken", "stored", "settled", "discarded", "abandoned", "dropped"}]
    BY <1>0, <1>8 DEF TranscriptTypes
  <2> QED  BY <1>2, <2>1, <2>2, <2>3, <2>4, <2>5, <2>6, SMTT(60) DEF TranscriptTypes
<1>10. \A b \in InHand' : b.kind # "submit" /\ ~Ready(b)'
  BY <1>1, <1>9, SubmitIs
<1>11. Known'
  <2>1. ~PendingKind({"submit"})'  BY <1>10 DEF PendingKind
  <2>2. \A x \in late' : x.id <= companion.commands
    BY <1>0, <1>3, <1>4, <1>7 DEF WordsInv, Known
  <2> QED  BY <1>0, <1>2, <1>8, <2>1, <2>2 DEF WordsInv, Known
<1>12. /\ Fewer /\ Fixed /\ (Held' <=> Held) /\ (Held => companion'.id = companion.id)
       /\ \A b \in InHand : b.kind = "forget" => b \in InHand'
       /\ \A b \in InHand' : Ready(b)' => Ready(b)
  BY <1>2, <1>8, <1>10 DEF Fewer, Fixed, Held
<1>13. Fates'
  BY <1>8, <1>9, <1>12, FatesStay
<1>14. Worded'  BY <1>8, <1>12, WordedStays
<1>15. Counted'
  <2>1. Counted  BY <1>0 DEF WordsInv
  <2>2. \A id \in Ids : /\ Spent(id) \in Nat /\ Spent(id)' \in Nat /\ FailedLate(id) \in 0..1
                        /\ FailedLate(id)' \in 0..1 /\ FailedAnswer(id) \in 0..1 /\ Due(id) \in 0..1
                        /\ Len(taken[id]) \in Nat /\ Cardinality(OnWire(id)) \in Nat
    BY <1>0, <1>9, NumbersHold, NumbersGoOn DEF Numbers
  <2>3. \A id \in Ids : FailedAnswer(id)' = FailedAnswer(id) /\ OnWire(id)' = OnWire(id) /\ Due(id)' = 0
    BY <1>8, <1>10 DEF FailedAnswer, OnWire, Due
  <2>4. \A id \in Ids : id # a.id => FailedLate(id)' = FailedLate(id)
    BY <1>3, <1>e DEF FailedLate
  <2>5. Due(a.id) = 1  BY <1>2 DEF Due
  <2>6. \A id \in Ids : Spent(id)' <= Spent(id) /\ Spent(id)' + FailedLate(id)' <= Spent(id) + FailedLate(id)
    <3> TAKE id \in Ids
    <3>1. Spent(id) = Len(taken[id]) + Cardinality(OnWire(id)) + Due(id)  BY DEF Spent
    <3>2. Spent(id)' = Len(taken[id]) + Cardinality(OnWire(id)) + 0  BY <1>8, <2>3 DEF Spent
    <3>3. Spent(id)' <= Spent(id)  BY <2>2, <3>1, <3>2
    <3>4. CASE id = a.id
      <4>1. Due(id) = 1  BY <2>5, <3>4
      <4> QED  BY <2>2, <3>1, <3>2, <3>3, <4>1
    <3>5. CASE id # a.id  BY <2>2, <2>4, <3>3, <3>5
    <3> QED  BY <3>3, <3>4, <3>5
  <2>7. \A id \in Ids : Spent(id)' <= 1 + asked'[id]
    <3> TAKE id \in Ids
    <3>1. Spent(id) <= 1 + asked[id] /\ asked[id] \in Nat  BY <1>0, <2>1 DEF Counted, TranscriptTypes
    <3> QED  BY <1>8, <2>2, <2>6, <3>1
  <2>8. \A id \in Ids : Held' /\ companion'.id = id /\ companion'.delivery = "refused" =>
          /\ asked'[id] = 0
          /\ Spent(id)' + FailedLate(id)' + FailedAnswer(id)' <= (IF companion'.phase = "sent" THEN 1 ELSE 0)
    <3> SUFFICES ASSUME NEW id \in Ids, Held', companion'.id = id, companion'.delivery = "refused"
                 PROVE  /\ asked'[id] = 0
                        /\ Spent(id)' + FailedLate(id)' + FailedAnswer(id)' <= (IF companion'.phase = "sent" THEN 1 ELSE 0)
      OBVIOUS
    <3>1. /\ asked[id] = 0
          /\ Spent(id) + FailedLate(id) + FailedAnswer(id) <= (IF companion.phase = "sent" THEN 1 ELSE 0)
      BY <1>8, <2>1 DEF Counted, Held
    <3>2. Spent(id)' + FailedLate(id)' + FailedAnswer(id)' <= (IF companion.phase = "sent" THEN 1 ELSE 0)
      BY <2>2, <2>3, <2>6, <3>1
    <3> QED  BY <1>8, <3>1, <3>2
  <2> QED  BY <2>7, <2>8 DEF Counted
<1> QED  BY <1>2, <1>9, <1>11, <1>13, <1>14, <1>15 DEF TInv, WordsInv

-----------------------------------------------------------------------------
(* The service and the end of a connection or of the process.               *)

\* What the service has read is in the conversation, after what was there.
GrewBy(id, read) ==
  /\ taken'[id] \in Seq(Texts)
  /\ taken[id] # <<>> \/ (\E m \in read : m.id = id) => taken'[id] # <<>>
  /\ Len(taken'[id]) <= Len(taken[id]) + (IF \E m \in read : m.id = id THEN 1 ELSE 0)
  /\ (\A m \in read : m.id # id) => taken'[id] = taken[id]
  /\ \A k \in 1..Len(taken'[id]) :
       \/ \E j \in 1..Len(taken[id]) : taken[id][j] = taken'[id][k]
       \/ \E m \in read : m.id = id /\ m.text = taken'[id][k]

LEMMA TookEach ==
  ASSUME TranscriptTypes, NEW read \in SUBSET wire, taken' = Took(read), NEW id \in Ids
  PROVE  GrewBy(id, read)
<1> DEFINE of(i) == {m \in read : m.id = i}
           one(i) == CHOOSE m \in of(i) : TRUE
           more(i) == IF of(i) = {} THEN <<>> ELSE <<one(i).text>>
<1>1. \A m \in read : m \in Messages  BY DEF TranscriptTypes
<1>2. taken' = [i \in Ids |-> taken[i] \o more(i)]  BY DEF Took
<1>3. \A i \in Ids : of(i) # {} => one(i) \in of(i)  OBVIOUS
<1>4. \A i \in Ids : of(i) = {} <=> ~\E m \in read : m.id = i  OBVIOUS
<1>5. taken[id] \in Seq(Texts)  BY DEF TranscriptTypes
<1>6. CASE of(id) = {}
  <2>1. taken'[id] = taken[id] \o <<>>  BY <1>2, <1>6
  <2>2. taken'[id] = taken[id]  BY <1>5, <2>1
  <2>3. ~\E m \in read : m.id = id  BY <1>4, <1>6
  <2> HIDE DEF of, one, more
  <2>4. Len(taken[id]) \in Nat  BY <1>5
  <2> QED  BY <1>5, <2>2, <2>3, <2>4 DEF GrewBy
<1>7. CASE of(id) # {}
  <2>1. one(id) \in of(id) /\ taken'[id] = taken[id] \o <<one(id).text>>
    BY <1>2, <1>3, <1>7
  <2>2. one(id) \in read /\ one(id).id = id  BY <2>1
  <2>3. \E m \in read : m.id = id  BY <1>4, <1>7
  <2> HIDE DEF one, of, more
  <2>4. one(id).text \in Texts  BY <1>1, <2>2 DEF Messages
  <2> DEFINE x == one(id).text
  <2> HIDE DEF x
  <2>5. taken'[id] = taken[id] \o <<x>> /\ x \in Texts  BY <2>1, <2>4 DEF x
  <2>6. /\ taken'[id] \in Seq(Texts) /\ Len(taken'[id]) = Len(taken[id]) + 1
        /\ \A k \in 1..Len(taken'[id]) :
             \/ k \in 1..Len(taken[id]) /\ taken'[id][k] = taken[id][k]
             \/ taken'[id][k] = x
    BY <1>5, <2>5
  <2>7. Len(taken[id]) \in Nat  BY <1>5
  <2>8. taken'[id] # <<>>  BY <2>6, <2>7
  <2> QED  BY <2>2, <2>3, <2>6, <2>7, <2>8 DEF x, GrewBy
<1> QED  BY <1>6, <1>7

LEMMA TookIs ==
  ASSUME TranscriptTypes, NEW read \in SUBSET wire, taken' = Took(read)
  PROVE  taken' \in [Ids -> Seq(Texts)]
<1>1. \A id \in Ids : GrewBy(id, read)  BY TookEach, Zenon
<1>2. \A id \in Ids : taken'[id] \in Seq(Texts)  BY <1>1 DEF GrewBy
<1> QED  BY <1>2 DEF Took

LEMMA TookAll ==
  ASSUME TranscriptTypes, NEW read \in SUBSET wire, taken' = Took(read), NEW id \in Ids
  PROVE  /\ taken[id] # <<>> => taken'[id] # <<>>
         /\ \A m \in read : m.id = id => taken'[id] # <<>>
         /\ (\A m \in read : m.id # id) => taken'[id] = taken[id]
<1>0. /\ taken[id] # <<>> \/ (\E m \in read : m.id = id) => taken'[id] # <<>>
      /\ (\A m \in read : m.id # id) => taken'[id] = taken[id]
  <2>1. GrewBy(id, read)  BY TookEach, Zenon
  <2> QED  BY <2>1 DEF GrewBy
<1>1. ASSUME taken[id] # <<>> PROVE taken'[id] # <<>>  BY <1>0, <1>1, Zenon
<1>2. ASSUME NEW m \in read, m.id = id PROVE taken'[id] # <<>>  BY <1>0, <1>2, Zenon
<1>3. ASSUME \A m \in read : m.id # id PROVE taken'[id] = taken[id]  BY <1>0, <1>3, Zenon
<1> QED  BY <1>1, <1>2, <1>3

LEMMA FewerByOne ==
  ASSUME NEW S, NEW T, IsFiniteSet(S), NEW x \in S, T \subseteq S \ {x}
  PROVE  /\ IsFiniteSet(T) /\ Cardinality(T) \in Nat /\ Cardinality(S) \in Nat
         /\ Cardinality(T) + 1 <= Cardinality(S)
<1>1. IsFiniteSet(S \ {x}) /\ Cardinality(S \ {x}) = Cardinality(S) - 1
  BY FS_RemoveElement
<1>2. IsFiniteSet(T) /\ Cardinality(T) <= Cardinality(S \ {x})  BY <1>1, FS_Subset
<1>3. Cardinality(T) \in Nat /\ Cardinality(S) \in Nat /\ Cardinality(S \ {x}) \in Nat
  BY <1>1, <1>2, FS_CardinalityType
<1> QED  BY <1>1, <1>2, <1>3

\* What is read leaves the wire as it enters the conversation: nothing is spent twice.
LEMMA TookSpent ==
  ASSUME TranscriptTypes, TranscriptTypes', NEW read \in SUBSET wire, taken' = Took(read),
         wire' \subseteq wire \ read, Fewer, NEW id \in Ids
  PROVE  /\ Spent(id)' <= Spent(id)
         /\ (\E m \in wire \ read : m.id = id /\ m \notin wire') => Spent(id)' + 1 <= Spent(id)
<1>1. /\ Len(taken[id]) \in Nat /\ Cardinality(OnWire(id)) \in Nat /\ Due(id) \in 0..1
      /\ IsFiniteSet(OnWire(id)) /\ Spent(id) \in Nat
  BY NumbersHold DEF Numbers
<1>2. (/\ Len(taken[id]) \in Nat /\ Cardinality(OnWire(id)) \in Nat /\ Due(id) \in 0..1
       /\ Spent(id) \in Nat)'
  BY NumbersGoOn DEF Numbers
<1>3. Due(id)' <= Due(id)
  <2>1. (\E a \in InHand' : a.kind = "submit" /\ a.id = id) => (\E a \in InHand : a.kind = "submit" /\ a.id = id)
    BY DEF Fewer
  <2> QED  BY <2>1 DEF Due
<1>4. Len(taken'[id]) <= Len(taken[id]) + (IF \E m \in read : m.id = id THEN 1 ELSE 0)
  <2>1. GrewBy(id, read)  BY TookEach, Zenon
  <2> QED  BY <2>1 DEF GrewBy
<1> DEFINE S == OnWire(id)
           T == OnWire(id)'
<1>5. T \subseteq S /\ T \cap read = {} /\ \A m \in read : m.id = id => m \in S
  BY DEF OnWire
<1>6. Spent(id) = Len(taken[id]) + Cardinality(S) + Due(id)
      /\ Spent(id)' = Len(taken'[id]) + Cardinality(T) + Due(id)'
  BY DEF Spent
<1>7. \A m \in wire : m.id = id /\ m \notin wire' => m \in S /\ m \notin T
  BY DEF OnWire
<1>8. Cardinality(S) \in Nat /\ Cardinality(T) \in Nat /\ Len(taken'[id]) \in Nat /\ Due(id)' \in 0..1
  BY <1>1, <1>2
<1> DEFINE one == IF \E m \in read : m.id = id THEN 1 ELSE 0
           lost == IF \E m \in wire \ read : m.id = id /\ m \notin wire' THEN 1 ELSE 0
<1>9. Cardinality(T) + one + lost <= Cardinality(S)
  <2> HIDE DEF S, T
  <2>1. CASE ~(\E m \in read : m.id = id) /\ lost = 0
    <3>1. IsFiniteSet(S) /\ T \in SUBSET S  BY <1>1, <1>5 DEF S
    <3>2. Cardinality(T) <= Cardinality(S)  BY <3>1, FS_Subset
    <3>3. one = 0  BY <2>1
    <3> HIDE DEF one, lost
    <3> QED  BY <1>8, <2>1, <3>2, <3>3
  <2>2. CASE ~(\E m \in read : m.id = id) /\ lost = 1
    <3>1. PICK m \in wire \ read : m.id = id /\ m \notin wire'  BY <2>2
    <3>2. m \in S /\ T \subseteq S \ {m}  BY <1>5, <1>7, <3>1
    <3>3. Cardinality(T) + 1 <= Cardinality(S)  BY <1>1, <3>2, FewerByOne DEF S
    <3> QED  BY <1>8, <2>2, <3>3
  <2>3. ASSUME NEW m \in read, m.id = id, lost = 0 PROVE Cardinality(T) + one + lost <= Cardinality(S)
    <3>1. m \in S /\ T \subseteq S \ {m}  BY <1>5, <2>3
    <3>2. Cardinality(T) + 1 <= Cardinality(S)  BY <1>1, <3>1, FewerByOne DEF S
    <3> QED  BY <1>8, <2>3, <3>2
  <2>4. ASSUME NEW m \in read, m.id = id, lost = 1 PROVE Cardinality(T) + one + lost <= Cardinality(S)
    <3>1. PICK n \in wire \ read : n.id = id /\ n \notin wire'  BY <2>4
    <3>2. n \in S /\ m \in S \ {n} /\ T \subseteq (S \ {n}) \ {m}  BY <1>5, <1>7, <2>4, <3>1
    <3> DEFINE R == S \ {n}
    <3>3. IsFiniteSet(R) /\ Cardinality(R) + 1 <= Cardinality(S) /\ Cardinality(R) \in Nat
      BY <1>1, <3>2, FewerByOne DEF S
    <3> HIDE DEF R
    <3>4. Cardinality(T) + 1 <= Cardinality(R)  BY <3>2, <3>3, FewerByOne DEF R
    <3>5. one = 1  BY <2>4
    <3> HIDE DEF one
    <3> QED  BY <1>8, <2>4, <3>3, <3>4, <3>5
  <2>5. lost \in {0, 1}  OBVIOUS
  <2> HIDE DEF one, lost
  <2> QED  BY <2>1, <2>2, <2>3, <2>4, <2>5 DEF one
<1>10. /\ one \in 0..1 /\ lost \in 0..1
       /\ Len(taken'[id]) <= Len(taken[id]) + one
  <2>1. one \in 0..1 /\ lost \in 0..1  OBVIOUS
  <2> HIDE DEF lost
  <2>2. Len(taken'[id]) <= Len(taken[id]) + one  BY <1>4
  <2> QED  BY <2>1, <2>2
<1>11. (\E m \in wire \ read : m.id = id /\ m \notin wire') => lost = 1  OBVIOUS
<1> HIDE DEF S, T, one, lost
<1>12. Spent(id)' + lost <= Spent(id)
  <2> DEFINE l == Len(taken[id])
             m == Len(taken'[id])
             s == Cardinality(S)
             c == Cardinality(T)
             d == Due(id)
             e == Due(id)'
             x == Spent(id)
             y == Spent(id)'
  <2>1. l \in Nat /\ m \in Nat /\ s \in Nat /\ c \in Nat /\ d \in Nat /\ e \in Nat
    BY <1>1, <1>8
  <2>2. x = l + s + d /\ y = m + c + e  BY <1>6
  <2>3. e <= d /\ m <= l + one /\ c + one + lost <= s  BY <1>3, <1>9, <1>10
  <2>4. one \in Nat /\ lost \in Nat  BY <1>10
  <2> HIDE DEF l, m, s, c, d, e, x, y
  <2>5. y + lost <= x  BY <2>1, <2>2, <2>3, <2>4
  <2> QED  BY <2>5 DEF x, y
<1>13. Spent(id)' \in Nat  BY <1>2
<1> QED  BY <1>1, <1>10, <1>11, <1>12, <1>13

LEMMA OutStays ==
  ASSUME TranscriptTypes, NEW read \in SUBSET wire, taken' = Took(read), wire' \subseteq wire,
         NEW id \in Ids, NEW x, Out(id, x)'
  PROVE  Out(id, x)
<1>1. \A k \in 1..Len(taken'[id]) :
        \/ \E j \in 1..Len(taken[id]) : taken[id][j] = taken'[id][k]
        \/ \E m \in read : m.id = id /\ m.text = taken'[id][k]
  <2>1. GrewBy(id, read)  BY TookEach, Zenon
  <2> QED  BY <2>1 DEF GrewBy
<1>2. CASE \E m \in wire' : m.id = id /\ m.text = x
  BY <1>2 DEF Out
<1>3. ASSUME NEW k \in 1..Len(taken'[id]), taken'[id][k] = x PROVE Out(id, x)
  BY <1>1, <1>3 DEF Out
<1> QED  BY <1>2, <1>3 DEF Out

\* What the service does with the wire, and what becomes of the wire when the
\* connection ends.
LEMMA DeliveryKeeps ==
  ASSUME TInv, UNCHANGED <<running, shown, voice, disk, timers, late, attempts, asked, fate>>,
         NEW read \in SUBSET wire, taken' = Took(read), wire' \subseteq wire \ read,
         NEW new \in SUBSET [kind : AnswerKinds, id : Ids, text : {Empty}],
         answers' \subseteq answers \cup new,
         \A e \in new : e.kind = "acknowledged" => \E m \in read : m.id = e.id,
         \A e \in new : e.kind = "submission_failed" =>
           \E m \in wire \ read : m.id = e.id /\ m \notin wire'
  PROVE  TInv'
<1>0. TranscriptTypes /\ Agenda /\ WordsInv  BY DEF TInv
<1>1. /\ running' = running /\ companion' = companion /\ doing' = doing /\ left' = left
      /\ voice' = voice /\ disk' = disk /\ timers' = timers /\ late' = late /\ attempts' = attempts
      /\ asked' = asked /\ fate' = fate
  BY DEF shown
<1>2. InHand' = InHand  BY <1>1 DEF InHand, HandOf
<1>3. Agenda' /\ Handed  BY <1>0, StillHands
<1>4. \A e \in new : e.kind \in AnswerKinds /\ e.id \in Ids /\ \E m \in wire : m.id = e.id
  BY DEF AnswerKinds
<1>5. TranscriptTypes'
  <2>2. taken' \in [Ids -> Seq(Texts)]  BY <1>0, TookIs
  <2>3. answers' \in SUBSET [kind : AnswerKinds, id : Ids, text : {Empty}]
    <3>1. answers \in SUBSET [kind : AnswerKinds, id : Ids, text : {Empty}]  BY <1>0 DEF TranscriptTypes
    <3> QED  BY <3>1
  <2>4. /\ doing' \in [Threads -> Seq(Acts)] /\ left' \in Seq(Seq(Acts))
        /\ voice' \in {"off", "recording", "finishing"}
        /\ late' \in SUBSET [kind : LateKinds, id : 0..MaxDictations, text : {Empty}]
        /\ timers' \in SUBSET [id : Ids, attempt : Nat]
    BY <1>0, <1>1 DEF TranscriptTypes
  <2>5. wire' \subseteq wire  OBVIOUS
  <2> QED  BY <1>0, <1>1, <2>2, <2>3, <2>4, <2>5, KeptTypes
<1>6. Unstarted'
  <2>1. SUFFICES ASSUME running # "up" PROVE wire' = {} /\ answers' = {}
    BY <1>1 DEF TInv, Unstarted, Idle
  <2>2. wire = {} /\ answers = {}  BY <2>1 DEF TInv, Unstarted
  <2> QED  BY <1>4, <2>2
<1>7. Phased'
  <2>1. SameWords(companion, companion')  BY <1>1 DEF SameWords
  <2> QED  BY <1>0, <1>3, <2>1, CalmPhased DEF WordsInv
<1>8. Fewer /\ Fixed  BY <1>1, <1>2 DEF Fewer, Fixed, Held
<1>9. Together'  BY <1>0, <1>8, TogetherStays DEF WordsInv
<1>10. Known'
  <2>1. \A m \in wire' : m.id <= companion.commands  BY <1>0 DEF WordsInv, Known
  <2>2. \A e \in answers' : e.id <= companion.commands
    BY <1>0, <1>4 DEF WordsInv, Known
  <2>3. \A id \in Ids : id > companion.commands => taken'[id] = <<>>
    <3> SUFFICES ASSUME NEW id \in Ids, id > companion.commands PROVE taken'[id] = <<>>
      OBVIOUS
    <3>1. \A m \in read : m.id # id
      <4>1. \A m \in read : m.id <= companion.commands  BY <1>0 DEF WordsInv, Known
      <4>2. id \in Nat /\ companion.commands \in Nat  BY <1>0, BoundsAssumption DEF TranscriptTypes, Ids
      <4> QED  BY <4>1, <4>2
    <3>2. taken'[id] = taken[id]  BY <1>0, <3>1, TookAll
    <3> QED  BY <1>0, <3>2 DEF WordsInv, Known
  <2>4. \A id \in Ids : id > companion.commands => asked[id] = 0 /\ fate[id] = "unspoken"
    BY <1>0 DEF WordsInv, Known
  <2>5. PendingKind({"submit"})' <=> PendingKind({"submit"})  BY <1>2 DEF PendingKind
  <2> QED  BY <1>0, <1>1, <1>2, <2>1, <2>2, <2>3, <2>4, <2>5 DEF WordsInv, Known
<1>11. \A id \in Ids : taken[id] # <<>> \/ (\E m \in read : m.id = id) => taken'[id] # <<>>
  <2> TAKE id \in Ids
  <2>1. /\ taken[id] # <<>> => taken'[id] # <<>>
        /\ \A m \in read : m.id = id => taken'[id] # <<>>
    BY <1>0, TookAll
  <2> QED  BY <2>1
<1>12. Fates'
  <2>1. Fates  BY <1>0 DEF WordsInv
  <2>2. \A m \in wire' : fate'[m.id] # "spoken"  BY <1>1, <2>1 DEF Fates
  <2>3. \A e \in answers' : e.kind = "acknowledged" => taken'[e.id] # <<>>
    <3> SUFFICES ASSUME NEW e \in answers', e.kind = "acknowledged" PROVE taken'[e.id] # <<>>
      OBVIOUS
    <3>1. CASE e \in answers
      <4>1. e.id \in Ids /\ taken[e.id] # <<>>  BY <1>0, <2>1, <3>1 DEF TranscriptTypes, Fates
      <4> QED  BY <1>11, <4>1
    <3>2. CASE e \in new  BY <1>4, <1>11, <3>2
    <3> QED  BY <3>1, <3>2
  <2>4. \A id \in Ids : fate'[id] = "settled" => taken'[id] # <<>>  BY <1>1, <1>11, <2>1 DEF Fates
  <2>5. \A a \in InHand' : Ready(a)' => fate'[a.id] # "spoken"
    BY <1>1, <1>2, <2>1 DEF Fates, Ready
  <2>6. \A id \in Ids : running' = "up" /\ Needed(id)' =>
          \/ Held' /\ companion'.id = id
          \/ \E b \in InHand' : b.kind = "forget" /\ b.id = id
    BY <1>1, <1>2, <2>1 DEF Fates, Needed, Held
  <2> QED  BY <1>1, <1>2, <2>1, <2>2, <2>3, <2>4, <2>5, <2>6 DEF Fates, Held
<1>13. Counted'
  <2>1. Counted  BY <1>0 DEF WordsInv
  <2>2. \A id \in Ids : /\ Spent(id) \in Nat /\ Spent(id)' \in Nat /\ FailedLate(id) \in 0..1
                        /\ FailedAnswer(id) \in 0..1 /\ FailedAnswer(id)' \in 0..1
    BY <1>0, <1>5, NumbersHold, NumbersGoOn DEF Numbers
  <2>3. \A id \in Ids : /\ Spent(id)' <= Spent(id)
                        /\ (\E m \in wire \ read : m.id = id /\ m \notin wire') => Spent(id)' + 1 <= Spent(id)
    BY <1>0, <1>5, <1>8, TookSpent
  <2>4. \A id \in Ids : Spent(id)' + FailedAnswer(id)' <= Spent(id) + FailedAnswer(id)
    <3> TAKE id \in Ids
    <3> DEFINE e == Event("submission_failed", id, Empty)
    <3>1. e.kind = "submission_failed" /\ e.id = id  BY DEF Event
    <3>2. FailedAnswer(id) = (IF e \in answers THEN 1 ELSE 0) /\ FailedAnswer(id)' = (IF e \in answers' THEN 1 ELSE 0)
      BY DEF FailedAnswer
    <3> HIDE DEF e
    <3>3. CASE e \in answers' /\ e \notin answers
      <4>1. \E m \in wire \ read : m.id = id /\ m \notin wire'  BY <3>1, <3>3
      <4> QED  BY <2>2, <2>3, <3>2, <3>3, <4>1
    <3>4. CASE ~(e \in answers' /\ e \notin answers)
      BY <2>2, <2>3, <3>2, <3>4
    <3> QED  BY <3>3, <3>4
  <2>5. \A id \in Ids : FailedLate(id)' = FailedLate(id)  BY <1>1 DEF FailedLate
  <2>6. \A id \in Ids : Spent(id)' <= 1 + asked'[id]
    <3> TAKE id \in Ids
    <3>1. Spent(id) <= 1 + asked[id] /\ asked[id] \in Nat  BY <1>0, <2>1 DEF Counted, TranscriptTypes
    <3> QED  BY <1>1, <2>2, <2>3, <3>1
  <2>7. \A id \in Ids : Held' /\ companion'.id = id /\ companion'.delivery = "refused" =>
          /\ asked'[id] = 0
          /\ Spent(id)' + FailedLate(id)' + FailedAnswer(id)' <= (IF companion'.phase = "sent" THEN 1 ELSE 0)
    <3> SUFFICES ASSUME NEW id \in Ids, Held', companion'.id = id, companion'.delivery = "refused"
                 PROVE  /\ asked'[id] = 0
                        /\ Spent(id)' + FailedLate(id)' + FailedAnswer(id)' <= (IF companion'.phase = "sent" THEN 1 ELSE 0)
      OBVIOUS
    <3>1. /\ asked[id] = 0
          /\ Spent(id) + FailedLate(id) + FailedAnswer(id) <= (IF companion.phase = "sent" THEN 1 ELSE 0)
      BY <1>1, <2>1 DEF Counted, Held
    <3>2. Spent(id)' + FailedLate(id)' + FailedAnswer(id)' <= (IF companion.phase = "sent" THEN 1 ELSE 0)
      BY <2>2, <2>4, <2>5, <3>1
    <3> QED  BY <1>1, <3>1, <3>2
  <2> QED  BY <2>6, <2>7 DEF Counted
<1>14. Worded'
  <2>1. \A id \in Ids : \A x : Out(id, x)' => Out(id, x)
    <3>1. wire' \subseteq wire  OBVIOUS
    <3> QED  BY <1>0, <3>1, OutStays
  <2>2. Worded  BY <1>0 DEF WordsInv
  <2>3. disk.id # NoId => disk.id \in Ids
    BY <1>0 DEF TranscriptTypes, NoRecord, Tombstone, Record
  <2>4. Held => companion.id \in Ids
    <3>1. Held => companion.id \in 1..companion.commands  BY <1>0 DEF WordsInv, Phased
    <3> QED  BY <1>0, <3>1, SpokenIds
  <2>5. \A a \in InHand : a.kind \in {"persist", "submit"} => a.id \in Ids
    <3>1. \A a \in InHand : a.kind \in {"persist", "submit"} => a.id \in 1..companion.commands
      BY <1>0 DEF WordsInv, Known
    <3> QED  BY <1>0, <3>1, SpokenIds
  <2>6. (\A id \in Ids : \A x, y \in Texts : Out(id, x) /\ Out(id, y) => x = y)'
    BY <2>1, <2>2 DEF Worded
  <2>7. (\A x \in Texts : disk.id # NoId /\ ~disk.discarded /\ Out(disk.id, x) => disk.text = x)'
    BY <1>1, <2>1, <2>2, <2>3 DEF Worded
  <2>8. (\A x \in Texts : Held /\ Out(companion.id, x) => companion.text = x)'
    BY <1>1, <2>1, <2>2, <2>4 DEF Worded, Held
  <2>9. (\A b \in InHand : \A x \in Texts :
           b.kind \in {"persist", "submit"} /\ Out(b.id, x) => b.text = x)'
    BY <1>2, <2>1, <2>2, <2>5 DEF Worded
  <2>10. \A a \in InHand' : Ready(a)' /\ disk'.id = a.id /\ ~disk'.discarded => disk'.text = a.text
    BY <1>1, <1>2, <2>2 DEF Worded, Ready
  <2> QED  BY <2>6, <2>7, <2>8, <2>9, <2>10 DEF Worded
<1> QED  BY <1>3, <1>5, <1>6, <1>7, <1>9, <1>10, <1>12, <1>13, <1>14 DEF TInv, WordsInv

LEMMA NothingTook == ASSUME TranscriptTypes PROVE taken = Took({})
<1>1. taken \in [Ids -> Seq(Texts)]  BY DEF TranscriptTypes
<1>2. Took({}) = [id \in Ids |-> taken[id] \o <<>>]  BY DEF Took
<1>3. \A id \in Ids : taken[id] \o <<>> = taken[id]
  <2> TAKE id \in Ids
  <2>1. taken[id] \in Seq(Texts)  BY <1>1
  <2> QED  BY <2>1
<1> HIDE DEF Took
<1>4. Took({}) = [id \in Ids |-> taken[id]]  BY <1>2, <1>3
<1> QED  BY <1>1, <1>4

LEMMA LinkDropsKeeps == ASSUME TInv, LinkDrops PROVE TInv'
<1>1. PICK read \in SUBSET wire : taken' = Took(read)  BY DEF LinkDrops
<1>2. /\ UNCHANGED <<running, shown, voice, disk, timers, late, attempts, asked, fate>>
      /\ wire' = {} /\ answers' = {}
  BY DEF LinkDrops
<1>3. wire' \subseteq wire \ read /\ answers' \subseteq answers \cup {}  BY <1>2
<1>4. {} \in SUBSET [kind : AnswerKinds, id : Ids, text : {Empty}]  OBVIOUS
<1>5. /\ \A e \in {} : e.kind = "acknowledged" => \E m \in read : m.id = e.id
      /\ \A e \in {} : e.kind = "submission_failed" => \E m \in wire \ read : m.id = e.id /\ m \notin wire'
  OBVIOUS
<1> QED  BY <1>1, <1>2, <1>3, <1>4, <1>5, DeliveryKeeps

LEMMA ServiceTakesKeeps == ASSUME TInv, ServiceTakes PROVE TInv'
<1>1. PICK m \in wire : /\ wire' = wire \ {m} /\ taken' = Took({m})
                        /\ answers' = answers \cup {Event("acknowledged", m.id, Empty)}
                        /\ UNCHANGED <<running, shown, voice, disk, linked, timers, late, attempts,
                                       asked, fate, bounds>>
  BY DEF ServiceTakes
<1> DEFINE a == Event("acknowledged", m.id, Empty)
<1>2. m.id \in Ids  BY DEF TInv, TranscriptTypes, Messages
<1>3. a.kind = "acknowledged" /\ a.id = m.id /\ a \in [kind : AnswerKinds, id : Ids, text : {Empty}]
  BY <1>2 DEF Event, AnswerKinds
<1>4. answers' = answers \cup {a}  BY <1>1
<1> HIDE DEF a
<1>5. UNCHANGED <<running, shown, voice, disk, timers, late, attempts, asked, fate>>
  BY <1>1
<1>6. {m} \in SUBSET wire /\ taken' = Took({m}) /\ wire' \subseteq wire \ {m}  BY <1>1
<1>7. {a} \in SUBSET [kind : AnswerKinds, id : Ids, text : {Empty}] /\ answers' \subseteq answers \cup {a}
  BY <1>3, <1>4
<1>8. /\ \A e \in {a} : e.kind = "acknowledged" => \E n \in {m} : n.id = e.id
      /\ \A e \in {a} : e.kind = "submission_failed" => \E n \in wire \ {m} : n.id = e.id /\ n \notin wire'
  BY <1>3
<1> QED  BY <1>5, <1>6, <1>7, <1>8, DeliveryKeeps

LEMMA ServiceRefusesKeeps == ASSUME TInv, ServiceRefuses PROVE TInv'
<1>1. PICK m \in wire : /\ wire' = wire \ {m}
                        /\ answers' = answers \cup {Event("submission_failed", m.id, Empty)}
                        /\ UNCHANGED <<running, shown, voice, disk, linked, timers, late, attempts,
                                       ghosts, bounds>>
  BY DEF ServiceRefuses
<1> DEFINE a == Event("submission_failed", m.id, Empty)
<1>2. m.id \in Ids  BY DEF TInv, TranscriptTypes, Messages
<1>3. a.kind = "submission_failed" /\ a.id = m.id /\ a \in [kind : AnswerKinds, id : Ids, text : {Empty}]
  BY <1>2 DEF Event, AnswerKinds
<1>4. answers' = answers \cup {a}  BY <1>1
<1> HIDE DEF a
<1>5. UNCHANGED <<running, shown, voice, disk, timers, late, attempts, asked, fate>> /\ taken' = taken
  BY <1>1 DEF ghosts
<1>6. taken' = Took({})  BY <1>5, NothingTook DEF TInv
<1>7. {} \in SUBSET wire /\ wire' \subseteq wire \ {}  BY <1>1
<1>8. {a} \in SUBSET [kind : AnswerKinds, id : Ids, text : {Empty}] /\ answers' \subseteq answers \cup {a}
  BY <1>3, <1>4
<1>9. /\ \A e \in {a} : e.kind = "acknowledged" => \E n \in {} : n.id = e.id
      /\ \A e \in {a} : e.kind = "submission_failed" => \E n \in wire \ {} : n.id = e.id /\ n \notin wire'
  BY <1>1, <1>3
<1> QED  BY <1>5, <1>6, <1>7, <1>8, <1>9, DeliveryKeeps

\* Words refused, or whose answer is late, come back to the pill.
LEMMA ReturnKeeps ==
  ASSUME TInv, running = "up", NEW t \in {"window", "link"},
         NEW e \in [kind : LateKinds \cup AnswerKinds, id : Nat, text : {Empty}],
         Handle(t, e), Hits(e), e.kind \in {"submission_failed", "submission_uncertain"},
         doing[t] = <<>>,
         UNCHANGED <<running, disk, attempts, wire, taken, asked, timers, voice>>,
         late' \subseteq late, answers' \subseteq answers,
         (e \in late /\ e \notin late') \/ (e \in answers /\ e \notin answers')
  PROVE  TInv'
<1> DEFINE d == Apply(companion, e)
           y == IF e.kind = "submission_failed" THEN companion.delivery ELSE "uncertain"
           r == Retain(companion, y, FALSE)
<1>0. TranscriptTypes /\ Agenda /\ WordsInv /\ companion \in Companions
  <2>1. TranscriptTypes /\ Agenda /\ WordsInv  BY Zenon DEF TInv
  <2> QED  BY <2>1, PillFits, Zenon
<1>1. t \in Threads  BY DEF Threads
<1>2. companion.phase = "sent" /\ companion.id = e.id  BY DEF Hits
<1>3. /\ e.kind = "submission_failed" =>
           d = (IF companion.phase = "sent" /\ companion.id = e.id
                THEN Done(Retain(companion, companion.delivery, FALSE), <<>>) ELSE Done(companion, <<>>))
      /\ e.kind = "submission_uncertain" =>
           d = (IF companion.phase = "sent" /\ companion.id = e.id
                THEN Done(Retain(companion, "uncertain", FALSE), <<>>) ELSE Done(companion, <<>>))
  BY <1>0, AnswerIs, Zenon
<1>4. y \in {"refused", "uncertain"}  BY <1>0 DEF Companions
<1>5. /\ r \in Companions /\ r.phase = "retained" /\ r.id = companion.id /\ r.text = companion.text
      /\ r.delivery = y /\ r.commands = companion.commands
  <2>1. FALSE \in BOOLEAN  OBVIOUS
  <2> HIDE DEF y
  <2>2. CASE y = "refused"  BY <1>0, <2>1, <2>2, RetainFits
  <2>3. CASE y = "uncertain"  BY <1>0, <2>1, <2>3, RetainFits
  <2> QED  BY <1>4, <2>2, <2>3
<1>6. d = Done(r, <<>>)  BY <1>2, <1>3
<1>7. companion' = d.companion /\ fate' = FateAfter(e, d)  BY DEF Handle
<1>8. d = Apply(companion, e)  OBVIOUS
<1>9. y = "refused" => e.kind = "submission_failed" /\ companion.delivery = "refused"  OBVIOUS
<1> HIDE DEF d, r, y
<1>10. companion' = r /\ d.actions = <<>> /\ d.companion = r  BY <1>6, <1>7 DEF Done
<1>11. fate' = fate  BY <1>7, FateIs
<1>12. Subsides  BY <1>2, <1>5, <1>10 DEF Subsides
<1>13. Quietly(d.actions) /\ Proper(t, d.actions)
  BY <1>1, <1>10, QuietActs, ProperEmpty
<1>14. /\ doing' \in [Threads -> Seq(Acts)] /\ left' \in Seq(Seq(Acts)) /\ Agenda'
       /\ Handed
       /\ \A b \in InHand : b.kind = "forget" => b \in InHand'
  BY <1>0, <1>1, <1>8, <1>13, QuietHandle, Zenon
<1>15. /\ companion' \in Companions /\ companion'.id = companion.id /\ companion'.text = companion.text
       /\ companion'.commands = companion.commands /\ (Held' <=> Held) /\ companion'.delivery = y
  BY <1>2, <1>5, <1>10 DEF Held, Holding
<1>16. Handled
  BY <1>0, <1>14, <1>15 DEF Handled, TranscriptTypes
<1>17. /\ running' = running /\ disk' = disk /\ attempts' = attempts /\ wire' = wire /\ taken' = taken
       /\ asked' = asked /\ timers' = timers /\ voice' = voice
  OBVIOUS
<1>18. TranscriptTypes'
  <2>1. /\ fate' \in [Ids -> {"unspoken", "spoken", "stored", "settled", "discarded", "abandoned", "dropped"}]
        /\ asked' \in [Ids -> Nat] /\ voice' \in {"off", "recording", "finishing"}
    BY <1>0, <1>11, <1>17 DEF TranscriptTypes
  <2> QED  BY <1>0, <1>16, <1>17, <2>1, HandledTypes
<1>19. Fewer /\ Fixed /\ \A b \in InHand' : Ready(b)' => Ready(b)
  <2>1. InHand' \subseteq Acts  BY DEF InHand, HandOf
  <2> QED  BY <1>14, <1>15, <2>1, HandedFewer DEF Fixed, Handed
<1>20. Phased'  BY <1>0, <1>12, <1>14, SubsidesPhased DEF WordsInv
<1>21. Together'  BY <1>0, <1>19, TogetherStays DEF WordsInv
<1>22. Known'
  <2>1. PendingKind({"submit"})' => PendingKind({"submit"})  BY <1>19 DEF PendingKind, Fewer
  <2> QED  BY <1>0, <1>11, <1>15, <1>17, <1>19, <2>1 DEF WordsInv, Known, Fewer
<1>23. Fates'
  BY <1>11, <1>14, <1>15, <1>17, <1>18, <1>19, FatesStay
<1>24. Worded'  BY <1>17, <1>19, WordedStays
<1>25. Counted'
  <2>1. \A id \in Ids : Due(id)' <= Due(id) /\ Due(id) \in 0..1 /\ Due(id)' \in 0..1
    <3> TAKE id \in Ids
    <3>1. (\E b \in InHand' : b.kind = "submit" /\ b.id = id) => \E b \in InHand : b.kind = "submit" /\ b.id = id
      BY <1>19 DEF Fewer
    <3> QED  BY <3>1 DEF Due
  <2>2. \A id \in Ids : Spent(id)' <= Spent(id)
    <3> TAKE id \in Ids
    <3>1. Len(taken[id]) \in Nat /\ Cardinality(OnWire(id)) \in Nat
      BY <1>0, NumbersHold DEF Numbers
    <3>2. Spent(id) = Len(taken[id]) + Cardinality(OnWire(id)) + Due(id)  BY DEF Spent
    <3>3. OnWire(id)' = OnWire(id)  BY <1>17 DEF OnWire
    <3>4. Spent(id)' = Len(taken[id]) + Cardinality(OnWire(id)) + Due(id)'
      BY <1>17, <3>3 DEF Spent
    <3> QED  BY <2>1, <3>1, <3>2, <3>4
  <2>3. \A id \in Ids : /\ FailedLate(id)' <= FailedLate(id) /\ FailedAnswer(id)' <= FailedAnswer(id)
                        /\ FailedLate(id) \in 0..1 /\ FailedLate(id)' \in 0..1
                        /\ FailedAnswer(id) \in 0..1 /\ FailedAnswer(id)' \in 0..1
    BY DEF FailedLate, FailedAnswer
  <2>4. ASSUME e.kind = "submission_failed", NEW id \in Ids, companion.id = id
        PROVE  FailedLate(id)' + FailedAnswer(id)' + 1 <= FailedLate(id) + FailedAnswer(id)
    <3>1. e = Event("submission_failed", id, Empty)  BY <1>2, <2>4 DEF Event
    <3>2. CASE e \in late /\ e \notin late'
      <4>1. FailedLate(id) = 1 /\ FailedLate(id)' = 0  BY <3>1, <3>2 DEF FailedLate
      <4> QED  BY <2>3, <4>1
    <3>3. CASE e \in answers /\ e \notin answers'
      <4>1. FailedAnswer(id) = 1 /\ FailedAnswer(id)' = 0  BY <3>1, <3>3 DEF FailedAnswer
      <4> QED  BY <2>3, <4>1
    <3> QED  BY <3>2, <3>3
  <2>5. \A id \in Ids : Spent(id) \in Nat /\ Spent(id)' \in Nat
    BY <1>0, <1>18, NumbersHold, NumbersGoOn DEF Numbers
  <2>6. companion'.delivery = "refused" =>
          companion.delivery = "refused" /\
          \A id \in Ids : companion.id = id =>
            Spent(id)' + FailedLate(id)' + FailedAnswer(id)' + 1
              <= Spent(id) + FailedLate(id) + FailedAnswer(id)
    BY <1>9, <1>15, <2>2, <2>3, <2>4, <2>5
  <2> QED  BY <1>0, <1>12, <1>17, <1>18, <2>2, <2>6, CountedSubsides DEF WordsInv
<1>26. Unstarted'  BY <1>17 DEF Unstarted
<1> QED  BY <1>14, <1>18, <1>20, <1>21, <1>22, <1>23, <1>24, <1>25, <1>26 DEF TInv, WordsInv

\* The answer to the words held: they are settled, and their record goes.
LEMMA SettledKeeps ==
  ASSUME TInv, running = "up",
         NEW e \in [kind : LateKinds \cup AnswerKinds, id : Nat, text : {Empty}],
         Handle("link", e), Hits(e), e.kind = "acknowledged", e \in answers,
         doing["link"] = <<>>,
         UNCHANGED <<running, disk, attempts, wire, taken, asked, timers, voice, late>>,
         answers' \subseteq answers
  PROVE  TInv'
<1> DEFINE d == Apply(companion, e)
           w == Without(companion, "resting")
           s == <<Act("clear", NoId, Empty)>>
           i == companion.id
<1>0. TranscriptTypes /\ Agenda /\ WordsInv /\ companion \in Companions
  <2>1. TranscriptTypes /\ Agenda /\ WordsInv  BY Zenon DEF TInv
  <2> QED  BY <2>1, PillFits, Zenon
<1>1. "link" \in Threads /\ "resting" \in Phases  BY DEF Threads, Phases
<1>2. companion.phase \in {"sent", "retained"} /\ i = e.id /\ Held  BY DEF Hits, Held, Holding
<1>3. e.kind = "acknowledged" =>
        d = (IF companion.phase \in {"sent", "retained"} /\ companion.id = e.id
             THEN Done(Without(companion, "resting"), <<Act("clear", NoId, Empty)>>)
             ELSE Done(companion, <<>>))
  BY <1>0, AnswerIs, Zenon
<1>4. d = Done(w, s)  BY <1>2, <1>3
<1>5. w \in Companions /\ w.phase = "resting" /\ w.id = NoId /\ w.delivery = "refused" /\ w.commands = companion.commands
  BY <1>0, <1>1, WithoutFits
<1>6. /\ s \in Seq(Acts) /\ Len(s) = 1 /\ s[1].kind = "clear" /\ s # <<>>
      /\ Proper("link", s) /\ \A k \in 1..Len(s) : s[k].kind = "clear"
  BY BoundsAssumption DEF Acts, ActKinds, Act, NoId, Proper, Threaded
<1>7. companion' = d.companion /\ fate' = FateAfter(e, d)  BY DEF Handle
<1>8. d = Apply(companion, e)  OBVIOUS
<1> HIDE DEF d, w, s
<1>9. d.companion = w /\ d.actions = s  BY <1>4 DEF Done
<1>10. ~Waits(Posture(d.companion))  BY <1>5, <1>9, PostureIs
<1>11. /\ d.actions \in Seq(Acts)
       /\ Waits(Posture(d.companion)) => Follower(d.actions)
       /\ ~Waits(Posture(d.companion)) => Proper("link", d.actions)
       /\ d.actions # <<>> => d.actions[1].kind # "submit"
       /\ \A k \in 1..Len(d.actions) : d.actions[k].kind # "persist"
  BY <1>6, <1>9, <1>10
<1>12. /\ doing' \in [Threads -> Seq(Acts)] /\ left' \in Seq(Seq(Acts)) /\ Agenda'
       /\ InHand' \subseteq InHand \cup {d.actions[k] : k \in 1..Len(d.actions)}
       /\ doing'["link"] = (IF Waits(Posture(d.companion)) THEN <<>> ELSE d.actions)
       /\ \A u \in Threads \ {"link"} : doing'[u] = doing[u]
  <2>1. d.actions \in Seq(Acts) /\ (Waits(Posture(d.companion)) => Follower(d.actions))
        /\ (~Waits(Posture(d.companion)) => Proper("link", d.actions))
    BY <1>11
  <2> QED  BY <1>0, <1>1, <1>8, <2>1, HandleIs, SMTT(60)
<1>13. /\ SavedAside' => SavedAside
       /\ \A a \in Acts : Ready(a)' => Ready(a)
  BY <1>0, <1>1, <1>8, <1>11, HandleWords, ZenonT(60)
<1>14. fate' = Fated({i}, "settled")
  BY <1>6, <1>7, <1>9 DEF FateAfter
<1>15. \A a \in InHand' : a \in InHand \/ a.kind = "clear"
  <2>1. \A k \in 1..Len(d.actions) : d.actions[k].kind = "clear"  BY <1>6, <1>9
  <2>2. InHand' \subseteq InHand \cup {d.actions[k] : k \in 1..Len(d.actions)}  BY <1>12, Zenon
  <2> QED  BY <2>1, <2>2, Zenon
<1>16. ~Held' /\ companion'.id = NoId /\ companion'.phase = "resting" /\ companion'.delivery = "refused"
       /\ companion'.commands = companion.commands /\ companion' \in Companions
  BY <1>5, <1>7, <1>9 DEF Held, Holding
<1>17. Handled
  BY <1>0, <1>12, <1>16, BoundsAssumption DEF Handled, TranscriptTypes, NoId
<1>18. /\ running' = running /\ disk' = disk /\ attempts' = attempts /\ wire' = wire /\ taken' = taken
       /\ asked' = asked /\ timers' = timers /\ voice' = voice /\ late' = late
  OBVIOUS
<1>19. i \in Ids /\ i \in 1..companion.commands
  <2>1. i \in 1..companion.commands  BY <1>0, <1>2 DEF WordsInv, Phased
  <2> QED  BY <1>0, <2>1, SpokenIds
<1>20. /\ fate' \in [Ids -> {"unspoken", "spoken", "stored", "settled", "discarded", "abandoned", "dropped"}]
       /\ fate'[i] = "settled" /\ \A id \in Ids : id # i => fate'[id] = fate[id]
  BY <1>0, <1>14, <1>19 DEF Fated, TranscriptTypes
<1> HIDE DEF i
<1>21. TranscriptTypes'
  <2>1. asked' \in [Ids -> Nat] /\ voice' \in {"off", "recording", "finishing"} /\ late' \subseteq late
    BY <1>0, <1>18 DEF TranscriptTypes
  <2> QED  BY <1>0, <1>17, <1>18, <1>20, <2>1, HandledTypes
<1>22. Fewer /\ Fixed /\ \A b \in InHand' : Ready(b)' => Ready(b)
  <2>1. InHand' \subseteq Acts  BY DEF InHand, HandOf
  <2> QED  BY <1>13, <1>15, <1>16, <2>1 DEF Fixed, Fewer
<1>23. \A a \in InHand : a.kind \notin {"forget", "clear"}
  BY <1>0, <1>2 DEF WordsInv, Phased, PendingKind
<1>24. Phased'
  <2>1. ~PendingKind({"forget"})'  BY <1>15, <1>23 DEF PendingKind
  <2>2. \A u \in Threads : Forgets(u)' => Forgets(u)
    BY <1>6, <1>9, <1>10, <1>12 DEF Forgets
  <2>3. \A t, u \in Threads : Forgets(t)' /\ Forgets(u)' => t = u
    BY <1>0, <2>2 DEF WordsInv, Phased, Forgets
  <2> QED  BY <1>16, <2>1, <2>3 DEF Phased, Forgets
<1>25. Together'  BY <1>0, <1>22, TogetherStays DEF WordsInv
<1>26. Known'
  <2>1. PendingKind({"submit"})' => PendingKind({"submit"})  BY <1>22 DEF PendingKind, Fewer
  <2>2. \A id \in Ids : id > companion.commands => fate'[id] = "unspoken"
    <3> SUFFICES ASSUME NEW id \in Ids, id > companion.commands PROVE fate'[id] = "unspoken"
      OBVIOUS
    <3>1. id # i  BY <1>0, <1>19, BoundsAssumption DEF Ids, TranscriptTypes
    <3> QED  BY <1>0, <1>20, <3>1 DEF WordsInv, Known
  <2> QED  BY <1>0, <1>16, <1>18, <1>22, <2>1, <2>2 DEF WordsInv, Known, Fewer
<1>27. Fates'
  <2>0. Fates  BY <1>0 DEF WordsInv
  <2>1. \A id \in Ids : ~Needed(id)'
    <3> SUFFICES ASSUME NEW id \in Ids, Needed(id)' PROVE FALSE
      OBVIOUS
    <3>1. id # i /\ Needed(id)  BY <1>20 DEF Needed
    <3> QED  BY <1>23, <2>0, <3>1 DEF Fates, i
  <2>2. \A id \in Ids : fate'[id] # "stored" /\ fate'[id] # "spoken"  BY <2>1 DEF Needed
  <2>3. \A id \in Ids : fate[id] # "discarded" => fate'[id] # "discarded"  BY <1>20
  <2>4. disk.id # NoId => disk.id \in Ids
    BY <1>0 DEF TranscriptTypes, NoRecord, Tombstone, Record
  <2>5. \A a \in InHand' : a.kind \in {"persist", "submit"} => a \in InHand /\ a.id \in Ids
    <3>1. \A a \in InHand : a.kind \in {"persist", "submit"} => a.id \in 1..companion.commands
      BY <1>0 DEF WordsInv, Known
    <3> QED  BY <1>0, <1>15, <3>1, SpokenIds
  <2>6. \A a \in InHand' : Ready(a)' => a.kind = "submit"  BY <1>22 DEF Ready
  <2>7. \A m \in wire' : m.id \in Ids  BY <1>0, <1>18 DEF TranscriptTypes, Messages
  <2>8. taken[i] # <<>>  BY <1>2, <2>0 DEF Fates
  <2>9. (\A id \in Ids : fate[id] = "settled" => taken[id] # <<>>)'
    BY <1>18, <1>20, <2>0, <2>8 DEF Fates
  <2>10. (\A x \in answers : x.kind = "acknowledged" => taken[x.id] # <<>>)'
    BY <1>18, <2>0 DEF Fates
  <2>11. (disk.id # NoId /\ ~disk.discarded => fate[disk.id] # "discarded")'
    BY <1>18, <2>0, <2>3, <2>4 DEF Fates
  <2>12. (\A a \in InHand : a.kind \in {"persist", "submit"} => fate[a.id] # "discarded")'
    BY <2>0, <2>3, <2>5 DEF Fates
  <2>13. (\A a \in InHand : Ready(a) => fate[a.id] # "spoken")'
    BY <2>2, <2>5, <2>6
  <2>14. (\A m \in wire : fate[m.id] # "spoken")'  BY <2>2, <2>7
  <2> QED  BY <1>16, <2>1, <2>2, <2>9, <2>10, <2>11, <2>12, <2>13, <2>14 DEF Fates
<1>28. Worded'  BY <1>18, <1>22, WordedStays
<1>29. Counted'
  <2>1. Counted /\ UNCHANGED <<wire, taken, asked>> /\ \A x \in late' : x \in late \/ x.kind # "submission_failed"
    BY <1>0, <1>18 DEF WordsInv
  <2> QED  BY <1>0, <1>16, <1>21, <1>22, <2>1, CountedStays
<1>30. Unstarted'  BY <1>18 DEF Unstarted
<1> QED  BY <1>12, <1>21, <1>24, <1>25, <1>26, <1>27, <1>28, <1>29, <1>30 DEF TInv, WordsInv

\* The heads of what the threads do are in hand.
HeadsInHand == \A t \in Threads : doing[t] # <<>> => doing[t][1] \in InHand
LEMMA HeadsAreInHand == TranscriptTypes => HeadsInHand
<1> SUFFICES ASSUME TranscriptTypes, NEW t \in Threads, doing[t] # <<>> PROVE doing[t][1] \in InHand
  BY DEF HeadsInHand
<1>1. doing \in [Threads -> Seq(Acts)] /\ left \in Seq(Seq(Acts))  BY DEF TranscriptTypes
<1>2. doing[t] \in Seq(Acts)  BY <1>1
<1>3. 1 \in 1..Len(doing[t])  BY <1>2
<1> QED  BY <1>1, <1>3, HandHolds, Zenon DEF InHand

LEMMA HeadsAreInHandNext == TranscriptTypes' => HeadsInHand'
  BY HeadsAreInHand, PTL

\* A transcription: words with a number nothing else has.
LEMMA SpokenKeeps ==
  ASSUME TInv, running = "up", NEW x \in Texts, NEW e, e = Event("transcribed", NoId, x), Handle("window", e),
         companion.phase = "transcribing", doing["window"] = <<>>, voice' = "off",
         UNCHANGED <<running, disk, attempts, wire, taken, asked, timers, late, answers>>
  PROVE  TInv'
<1>n. PICK n : n = companion.commands + 1  OBVIOUS
<1> DEFINE d == Apply(companion, e)
           s == <<Act("persist", n, x)>>
<1>0. TranscriptTypes /\ Agenda /\ WordsInv /\ companion \in Companions
  <2>1. TranscriptTypes /\ Agenda /\ WordsInv  BY Zenon DEF TInv
  <2> QED  BY <2>1, PillFits, Zenon
<1>1. "window" \in Threads  BY DEF Threads
<1>2. x # Empty  BY TextsAssumption
<1>3. d = Transcribed(companion, x)
  <2>1. x \in Texts \cup {Empty}  OBVIOUS
  <2>2. Apply(companion, Event("transcribed", NoId, x)) =
          (IF companion.phase # "transcribing" THEN Done(companion, <<>>)
           ELSE IF x = Empty THEN Done(Without(companion, "failed"), <<>>) ELSE Transcribed(companion, x))
    BY <1>0, <2>1, HeardIs, Zenon
  <2> QED  BY <1>2, <2>2
<1>4. /\ d.companion \in Companions
      /\ d.companion.phase = "editing" /\ d.companion.id = n
      /\ d.companion.text = x /\ d.companion.delivery = companion.delivery
      /\ d.companion.commands = n /\ d.actions = s
  BY <1>0, <1>3, <1>n, TranscribedFits
<1>5. n \in Ids /\ n \in 0..MaxDictations /\ companion.commands \in Nat /\ n \in Nat
  <2>1. companion.commands < MaxDictations  BY <1>0 DEF WordsInv, Phased
  <2>2. companion.commands \in 0..MaxDictations  BY <1>0 DEF TranscriptTypes
  <2> QED  BY <1>n, <2>1, <2>2, BoundsAssumption DEF Ids
<1>6. ~Held /\ companion.id = NoId /\ companion.delivery = "refused" /\ \A a \in InHand : a.kind \notin Wording
  BY <1>0 DEF WordsInv, Phased, PendingKind, Held, Holding
<1>7. companion' = d.companion /\ fate' = FateAfter(e, d)  BY DEF Handle
<1>8. d = Apply(companion, e)  OBVIOUS
<1>9. e.kind = "transcribed"  BY DEF Event
<1>10. /\ s \in Seq(Acts) /\ Len(s) = 1 /\ s # <<>> /\ s[1].kind # "submit" /\ s[1].kind # "forget"
       /\ Follower(s) /\ Proper("window", s) /\ \A k \in 1..Len(s) : s[k] = Act("persist", n, x)
  BY <1>5 DEF Acts, ActKinds, Act, Follower, Proper, Threaded
<1> HIDE DEF d, s
<1>11. n # NoId  BY <1>5 DEF Ids, NoId
<1>12. fate' = Fated({n}, "spoken")
  BY <1>4, <1>6, <1>7, <1>9, <1>11 DEF FateAfter
<1>13. /\ d.actions \in Seq(Acts) /\ (Waits(Posture(d.companion)) => Follower(d.actions))
       /\ (~Waits(Posture(d.companion)) => Proper("window", d.actions))
       /\ (d.actions # <<>> => d.actions[1].kind # "submit")
  BY <1>4, <1>10
<1>14. /\ doing' \in [Threads -> Seq(Acts)] /\ left' \in Seq(Seq(Acts)) /\ Agenda'
       /\ InHand' \subseteq InHand \cup {d.actions[k] : k \in 1..Len(d.actions)}
  BY <1>0, <1>1, <1>8, <1>13, HandleIs
<1>15. \A a \in InHand' : a \in InHand \/ a = Act("persist", n, x)
  <2>1. \A k \in 1..Len(d.actions) : d.actions[k] = Act("persist", n, x)  BY <1>4, <1>10
  <2>2. InHand' \subseteq InHand \cup {d.actions[k] : k \in 1..Len(d.actions)}  BY <1>14, Zenon
  <2> QED  BY <2>1, <2>2, Zenon
<1>16. \A a \in InHand' : /\ a.kind \notin {"submit", "forget", "clear"}
                          /\ a.kind = "persist" => a.id = n /\ a.text = x
  BY <1>6, <1>15 DEF Act, Wording
<1>17. /\ companion' \in Companions /\ companion'.phase = "editing" /\ companion'.id = n
       /\ companion'.text = x /\ companion'.delivery = "refused" /\ companion'.commands = n /\ Held'
  BY <1>4, <1>6, <1>7 DEF Held, Holding
<1>18. Handled  BY <1>5, <1>14, <1>17, Zenon DEF Handled
<1>19. /\ running' = running /\ disk' = disk /\ attempts' = attempts /\ wire' = wire /\ taken' = taken
       /\ asked' = asked /\ timers' = timers /\ voice' = "off" /\ late' = late /\ answers' = answers
  OBVIOUS
<1>20. /\ fate' \in [Ids -> {"unspoken", "spoken", "stored", "settled", "discarded", "abandoned", "dropped"}]
       /\ fate'[n] = "spoken" /\ \A id \in Ids : id # n => fate'[id] = fate[id]
  BY <1>0, <1>5, <1>12 DEF Fated, TranscriptTypes
<1>21. TranscriptTypes'
  <2>1. /\ asked' \in [Ids -> Nat] /\ voice' \in {"off", "recording", "finishing"}
        /\ late' \subseteq late /\ answers' \subseteq answers
    BY <1>0, <1>19 DEF TranscriptTypes
  <2> QED  BY <1>0, <1>18, <1>19, <1>20, <2>1, HandledTypes
<1>22. Phased'
  <2>1. ~PendingKind({"forget", "clear"})' /\ ~PendingKind({"forget"})'  BY <1>16 DEF PendingKind
  <2>2. HeadsInHand'  BY <1>21, HeadsAreInHandNext
  <2>3. \A t \in Threads : ~Forgets(t)'
    BY <1>16, <2>2 DEF HeadsInHand, Forgets
  <2>4. companion'.id \in 1..companion'.commands  BY <1>5, <1>17 DEF Ids
  <2> QED  BY <1>17, <2>1, <2>3, <2>4 DEF Phased, Forgets
<1>23. Together'  BY <1>16, <1>17 DEF Together
<1>24. \A i \in Nat : i <= companion.commands => i <= n /\ i # n  BY <1>5, <1>n
<1>25. Known
  BY <1>0 DEF WordsInv
<1>26. /\ \A m \in wire : m.id \in Nat /\ m.id <= companion.commands
       /\ \A m \in timers : m.id \in Nat /\ m.id <= companion.commands
       /\ \A a \in late : a.id \in Nat /\ a.id <= companion.commands
       /\ \A a \in answers : a.id \in Nat /\ a.id <= companion.commands
  <2>1. Ids \subseteq Nat /\ 0..MaxDictations \subseteq Nat  BY BoundsAssumption DEF Ids
  <2>2. (\A m \in wire : m.id \in Nat) /\ (\A m \in timers : m.id \in Nat)
    <3>1. wire \subseteq Messages /\ timers \subseteq [id : Ids, attempt : Nat]
      BY <1>0 DEF TranscriptTypes
    <3>2. \A m \in Messages : m.id \in Ids  BY DEF Messages
    <3> QED  BY <2>1, <3>1, <3>2
  <2>3. (\A a \in late : a.id \in Nat) /\ (\A a \in answers : a.id \in Nat)
    <3>1. /\ late \subseteq [kind : LateKinds, id : 0..MaxDictations, text : {Empty}]
          /\ answers \subseteq [kind : AnswerKinds, id : Ids, text : {Empty}]
      BY <1>0 DEF TranscriptTypes
    <3> QED  BY <2>1, <3>1
  <2> QED  BY <1>25, <2>2, <2>3 DEF Known
<1>27. disk.id \in Nat /\ disk.id <= companion.commands /\ (disk.id # NoId => disk.id \in Ids)
  <2>1. Ids \subseteq Nat /\ NoId \in Nat  BY BoundsAssumption DEF Ids, NoId
  <2>2. disk.id = NoId \/ disk.id \in Ids
    BY <1>0 DEF TranscriptTypes, NoRecord, Tombstone, Record
  <2> QED  BY <1>25, <2>1, <2>2 DEF Known
<1>28. taken[n] = <<>> /\ asked[n] = 0 /\ fate[n] = "unspoken"
  <2>1. n > companion.commands  BY <1>5, <1>n
  <2> QED  BY <1>5, <1>25, <2>1 DEF Known
<1>29. Known'
  <2>1. \A id \in Ids : id > n => taken'[id] = <<>> /\ asked'[id] = 0 /\ fate'[id] = "unspoken"
    <3> SUFFICES ASSUME NEW id \in Ids, id > n
                 PROVE  taken'[id] = <<>> /\ asked'[id] = 0 /\ fate'[id] = "unspoken"
      OBVIOUS
    <3>1. id > companion.commands /\ id # n  BY <1>5, <1>n, BoundsAssumption DEF Ids
    <3> QED  BY <1>19, <1>20, <1>25, <3>1 DEF Known
  <2>2. \A a \in InHand' : a.kind \in {"persist", "submit", "forget"} =>
          /\ a.id \in 1..n
          /\ a.kind # "forget" => a.text \in Texts
    BY <1>5, <1>16 DEF Ids
  <2>3. ~PendingKind({"submit"})'  BY <1>16 DEF PendingKind
  <2>4. disk'.id <= n  BY <1>19, <1>24, <1>27
  <2>5. (\A m \in wire : m.id <= n)' /\ (\A m \in timers : m.id <= n)'  BY <1>19, <1>24, <1>26
  <2>6. (\A a \in late : a.id <= n)' /\ (\A a \in answers : a.id <= n)'  BY <1>19, <1>24, <1>26
  <2> QED  BY <1>17, <2>1, <2>2, <2>3, <2>4, <2>5, <2>6 DEF Known
<1>30. Fates'
  <2>0. Fates  BY <1>0 DEF WordsInv
  <2>1. \A id \in Ids : ~Needed(id)
    BY <1>6, <2>0 DEF Fates, Wording
  <2>2. \A id \in Ids : Needed(id)' => id = n  BY <1>20, <2>1 DEF Needed
  <2>3. \A id \in Ids : fate'[id] # "stored"  BY <1>20, <2>1 DEF Needed
  <2>4. disk'.id # NoId /\ ~disk'.discarded => fate'[disk'.id] # "discarded"
    BY <1>19, <1>20, <1>27, <2>0 DEF Fates
  <2>5. \A a \in InHand' : a.kind \in {"persist", "submit"} => fate'[a.id] # "discarded"
    BY <1>16, <1>20
  <2>6. (\A m \in wire : fate[m.id] # "spoken")'
    <3> SUFFICES ASSUME NEW m \in wire PROVE fate'[m.id] # "spoken"
      BY <1>19
    <3>1. m.id \in Ids  BY <1>0 DEF TranscriptTypes, Messages
    <3>2. m.id # n  BY <1>24, <1>26
    <3> QED  BY <1>20, <2>1, <3>1, <3>2 DEF Needed
  <2>7. (\A a \in InHand : Ready(a) => fate[a.id] # "spoken")'  BY <1>16 DEF Ready
  <2>8. (\A a \in answers : a.kind = "acknowledged" => taken[a.id] # <<>>)'  BY <1>19, <2>0 DEF Fates
  <2>9. (\A id \in Ids : fate[id] = "settled" => taken[id] # <<>>)'
    BY <1>19, <1>20, <2>0 DEF Fates
  <2> QED  BY <1>17, <1>19, <1>20, <2>2, <2>3, <2>4, <2>5, <2>6, <2>7, <2>8, <2>9 DEF Fates
<1>31. \A m \in wire : m.id # n  BY <1>24, <1>26
<1>32. Counted'
  <2>0. Counted  BY <1>0 DEF WordsInv
  <2>1. \A id \in Ids : Due(id)' = 0 /\ OnWire(id)' = OnWire(id)
    BY <1>16, <1>19 DEF Due, OnWire
  <2>2. \A id \in Ids : Len(taken[id]) \in Nat /\ Cardinality(OnWire(id)) \in Nat /\ Due(id) \in 0..1 /\ Spent(id) \in Nat
    BY <1>0, NumbersHold DEF Numbers
  <2>3. \A id \in Ids : Spent(id)' = Len(taken[id]) + Cardinality(OnWire(id)) /\ Spent(id)' <= Spent(id)
    <3> TAKE id \in Ids
    <3>1. Spent(id)' = Len(taken[id]) + Cardinality(OnWire(id)) + 0  BY <1>19, <2>1 DEF Spent
    <3>2. Spent(id) = Len(taken[id]) + Cardinality(OnWire(id)) + Due(id)  BY DEF Spent
    <3> QED  BY <2>2, <3>1, <3>2
  <2>4. \A id \in Ids : Spent(id)' <= 1 + asked'[id]
    <3> TAKE id \in Ids
    <3>1. Spent(id) <= 1 + asked[id] /\ asked[id] \in Nat  BY <1>0, <2>0 DEF Counted, TranscriptTypes
    <3>2. Spent(id)' \in Nat  BY <1>21, NumbersGoOn DEF Numbers
    <3> QED  BY <1>19, <2>2, <2>3, <3>1, <3>2
  <2>5. OnWire(n) = {}  BY <1>31 DEF OnWire
  <2>6. Spent(n)' = 0
    <3>1. Len(taken[n]) = 0  BY <1>28
    <3>2. Cardinality(OnWire(n)) = 0  BY <2>5, FS_EmptySet
    <3> QED  BY <1>5, <2>3, <3>1, <3>2
  <2>7. FailedLate(n)' = 0 /\ FailedAnswer(n)' = 0
    <3>1. Event("submission_failed", n, Empty).id = n  BY DEF Event
    <3>2. Event("submission_failed", n, Empty) \notin late /\ Event("submission_failed", n, Empty) \notin answers
      BY <1>24, <1>26, <3>1
    <3> QED  BY <1>19, <3>2 DEF FailedLate, FailedAnswer
  <2> QED  BY <1>17, <1>19, <1>28, <2>4, <2>6, <2>7 DEF Counted
<1>33. Worded'
  <2>0. Worded  BY <1>0 DEF WordsInv
  <2>1. \A id \in Ids : \A y : Out(id, y)' = Out(id, y)  BY <1>19 DEF Out
  <2>2. \A y : ~Out(n, y)  BY <1>28, <1>31 DEF Out
  <2>3. (\A id \in Ids : \A y, z \in Texts : Out(id, y) /\ Out(id, z) => y = z)'
    BY <2>0, <2>1 DEF Worded
  <2>4. (\A y \in Texts : disk.id # NoId /\ ~disk.discarded /\ Out(disk.id, y) => disk.text = y)'
    BY <1>19, <1>27, <2>0, <2>1 DEF Worded
  <2>5. (\A y \in Texts : Held /\ Out(companion.id, y) => companion.text = y)'
    BY <1>5, <1>17, <2>1, <2>2
  <2>6. (\A a \in InHand : \A y \in Texts : a.kind \in {"persist", "submit"} /\ Out(a.id, y) => a.text = y)'
    BY <1>5, <1>16, <2>1, <2>2
  <2>7. (\A a \in InHand : Ready(a) /\ disk.id = a.id /\ ~disk.discarded => disk.text = a.text)'
    BY <1>16 DEF Ready
  <2> QED  BY <2>3, <2>4, <2>5, <2>6, <2>7 DEF Worded
<1>34. Unstarted'  BY <1>19 DEF Unstarted
<1> QED  BY <1>14, <1>21, <1>22, <1>23, <1>29, <1>30, <1>32, <1>33, <1>34 DEF TInv, WordsInv

LEMMA NothingOut ==
  ASSUME TranscriptTypes, NEW id \in Ids, Spent(id) <= 0 PROVE \A x : ~Out(id, x)
<1>1. /\ Len(taken[id]) \in Nat /\ Cardinality(OnWire(id)) \in Nat /\ Due(id) \in 0..1
      /\ IsFiniteSet(OnWire(id))
  BY NumbersHold DEF Numbers
<1> DEFINE l == Len(taken[id])
           c == Cardinality(OnWire(id))
           u == Due(id)
<1>2. l + c + u <= 0  BY DEF Spent
<1>3. l \in Nat /\ c \in Nat /\ u \in Nat  BY <1>1
<1> HIDE DEF l, c, u
<1>4. l = 0 /\ c = 0  BY <1>2, <1>3
<1>5. 1..Len(taken[id]) = {}  BY <1>4 DEF l
<1>6. OnWire(id) = {}  BY <1>1, <1>4, FS_EmptySet DEF c
<1> QED  BY <1>5, <1>6 DEF Out, OnWire

\* Enter: the words go to disk and then to the service.
LEMMA SendKeeps ==
  ASSUME TInv, running = "up", Idle, NEW x \in Texts, NEW forced \in BOOLEAN,
         NEW e, e.kind = "enter", Handle("page", e),
         Apply(companion, e) = SendWords(companion, x, forced),
         companion.phase \in {"editing", "retained"},
         ~forced => companion.delivery = "refused", forced => x = companion.text,
         asked' = (IF forced THEN [asked EXCEPT ![companion.id] = @ + 1] ELSE asked),
         attempts < MaxSends, UNCHANGED <<running, voice, disk, outside, taken>>
  PROVE  TInv'
<1>i. PICK i : i = companion.id  OBVIOUS
<1> DEFINE d == Apply(companion, e)
           P == Act("persist", i, x)
           S == Act("submit", i, x)
           s == <<P, S>>
<1>0. TranscriptTypes /\ Agenda /\ WordsInv /\ companion \in Companions
  <2>1. TranscriptTypes /\ Agenda /\ WordsInv  BY Zenon DEF TInv
  <2> QED  BY <2>1, PillFits, Zenon
<1>1. "page" \in Threads  BY DEF Threads
<1>2. Held  BY DEF Held, Holding
<1>3. i \in Ids /\ i \in 1..companion.commands
  <2>1. i \in 1..companion.commands  BY <1>0, <1>2, <1>i DEF WordsInv, Phased
  <2> QED  BY <1>0, <2>1, SpokenIds
<1>4. /\ d.companion \in Companions
      /\ d.companion.phase = "sent" /\ d.companion.id = i /\ d.companion.text = x
      /\ d.companion.delivery = (IF forced THEN "uncertain" ELSE "refused")
      /\ d.companion.commands = companion.commands
      /\ d.actions = s
  BY <1>0, <1>i, SendFits
<1>5. InHand = {} /\ ~SavedAside  BY IdleHands
<1>6. /\ P.kind = "persist" /\ P.id = i /\ P.text = x /\ P \in Acts
      /\ S.kind = "submit" /\ S.id = i /\ S.text = x /\ S \in Acts
  BY <1>3, BoundsAssumption DEF Act, Acts, ActKinds, Ids
<1>7. companion' = d.companion /\ fate' = FateAfter(e, d)  BY DEF Handle
<1>8. d = Apply(companion, e)  OBVIOUS
<1> HIDE DEF P, S, d
<1>9. /\ s \in Seq(Acts) /\ Len(s) = 2 /\ s[1] = P /\ s[2] = S /\ s # <<>>
      /\ \A k \in 1..Len(s) : s[k] = P \/ s[k] = S
  BY <1>6
<1> HIDE DEF s
<1>10. Proper("page", s)
  BY <1>6, <1>9 DEF Proper, Threaded
<1>11. ~Waits(Posture(d.companion))  BY <1>4, PostureIs
<1>12. /\ d.actions \in Seq(Acts) /\ (Waits(Posture(d.companion)) => Follower(d.actions))
       /\ (~Waits(Posture(d.companion)) => Proper("page", d.actions))
       /\ (d.actions # <<>> => d.actions[1].kind # "submit")
  BY <1>4, <1>6, <1>9, <1>10, <1>11
<1>13. /\ doing' \in [Threads -> Seq(Acts)] /\ left' \in Seq(Seq(Acts)) /\ Agenda'
       /\ InHand' \subseteq InHand \cup {d.actions[k] : k \in 1..Len(d.actions)}
       /\ doing'["page"] = (IF Waits(Posture(d.companion)) THEN <<>> ELSE d.actions)
       /\ \A u \in Threads \ {"page"} : doing'[u] = doing[u]
  BY <1>0, <1>1, <1>8, <1>12, HandleIs
<1>14. /\ SavedAside' => SavedAside
       /\ \A a \in Acts : Ready(a)' => Ready(a)
  <2>1. \/ \A k \in 1..Len(d.actions) : d.actions[k].kind # "persist"
        \/ ~Waits(Posture(d.companion)) /\ "page" = "page"
    BY <1>11
  <2> QED  BY <1>0, <1>1, <1>8, <1>12, <2>1, HandleWords
<1>15. doing'["page"] = s  BY <1>4, <1>11, <1>13
<1>16. \A a \in InHand' : a = P \/ a = S
  <2>1. \A k \in 1..Len(d.actions) : d.actions[k] = P \/ d.actions[k] = S  BY <1>4, <1>9
  <2>2. InHand' \subseteq InHand \cup {d.actions[k] : k \in 1..Len(d.actions)}  BY <1>13, Zenon
  <2> QED  BY <1>5, <2>1, <2>2, Zenon
<1>17. \A a \in InHand' : a.kind \in {"persist", "submit"} /\ a.id = i /\ a.text = x
  BY <1>6, <1>16
<1>18. \A a \in Acts : ~Ready(a)'
  <2>1. doing["page"] = <<>>  BY <1>1 DEF Idle
  <2> QED  BY <1>14, <2>1 DEF Ready
<1>19. /\ companion' \in Companions /\ companion'.phase = "sent" /\ companion'.id = i
       /\ companion'.text = x /\ companion'.commands = companion.commands /\ Held'
       /\ companion'.delivery = (IF forced THEN "uncertain" ELSE "refused")
  BY <1>4, <1>7 DEF Held, Holding
<1>20. fate' = fate  BY <1>7, FateIs
<1>21. /\ running' = running /\ disk' = disk /\ attempts' = attempts /\ wire' = wire /\ taken' = taken
       /\ timers' = timers /\ voice' = voice /\ late' = late /\ answers' = answers
  BY DEF outside
<1>22. Handled
  <2>1. companion'.commands \in 0..MaxDictations /\ companion'.id \in 0..MaxDictations
    BY <1>0, <1>3, <1>19, BoundsAssumption DEF TranscriptTypes, Ids
  <2> QED  BY <1>13, <1>19, <2>1, Zenon DEF Handled
<1>23. /\ asked \in [Ids -> Nat] /\ asked' \in [Ids -> Nat]
       /\ asked'[i] = (IF forced THEN asked[i] + 1 ELSE asked[i])
       /\ \A id \in Ids : id # i => asked'[id] = asked[id]
  <2>1. asked \in [Ids -> Nat]  BY <1>0 DEF TranscriptTypes
  <2> QED  BY <1>3, <1>i, <2>1
<1>24. TranscriptTypes'
  <2>1. /\ fate' \in [Ids -> {"unspoken", "spoken", "stored", "settled", "discarded", "abandoned", "dropped"}]
        /\ voice' \in {"off", "recording", "finishing"}
        /\ late' \subseteq late /\ answers' \subseteq answers
    BY <1>0, <1>20, <1>21 DEF TranscriptTypes
  <2> QED  BY <1>0, <1>21, <1>22, <1>23, <2>1, HandledTypes
<1>25. Phased'
  <2>1. ~PendingKind({"forget", "clear"})' /\ ~PendingKind({"forget"})'  BY <1>17 DEF PendingKind
  <2>2. HeadsInHand'  BY <1>24, HeadsAreInHandNext
  <2>3. \A t \in Threads : ~Forgets(t)'
    BY <1>17, <2>2 DEF HeadsInHand, Forgets
  <2> QED  BY <1>3, <1>5, <1>14, <1>19, <2>1, <2>3 DEF Phased, Forgets
<1>26. Together'  BY <1>17, <1>19 DEF Together
<1>27. Known'
  <2>0. Known  BY <1>0 DEF WordsInv
  <2>1. \A id \in Ids : id > companion.commands => asked'[id] = 0
    <3> SUFFICES ASSUME NEW id \in Ids, id > companion.commands PROVE asked'[id] = 0
      OBVIOUS
    <3>1. id # i  BY <1>0, <1>3, BoundsAssumption DEF Ids, TranscriptTypes
    <3> QED  BY <1>23, <2>0, <3>1 DEF Known
  <2>2. attempts' # MaxSends  BY <1>0, <1>21, BoundsAssumption DEF TranscriptTypes
  <2>3. \A a \in InHand' : a.kind \in {"persist", "submit", "forget"} =>
          /\ a.id \in 1..companion'.commands
          /\ a.kind # "forget" => a.text \in Texts
    BY <1>3, <1>17, <1>19
  <2> QED  BY <1>19, <1>20, <1>21, <2>0, <2>1, <2>2, <2>3 DEF Known
<1>28. Fates'
  <2>0. Fates  BY <1>0 DEF WordsInv
  <2>1. \A id \in Ids : Needed(id)' => id = i
    BY <1>5, <1>20, <1>i, <2>0 DEF Fates, Needed
  <2>2. fate'[i] # "discarded"  BY <1>2, <1>20, <1>i, <2>0 DEF Fates
  <2>3. InHand' \subseteq Acts  BY DEF InHand, HandOf
  <2>4. (\A a \in InHand : Ready(a) => fate[a.id] # "spoken")'  BY <1>18, <2>3
  <2>5. \A a \in InHand' : a.kind \in {"persist", "submit"} => fate'[a.id] # "discarded"
    BY <1>17, <2>2
  <2> QED  BY <1>19, <1>20, <1>21, <2>0, <2>1, <2>2, <2>4, <2>5 DEF Fates
<1>29. ~forced => asked[i] = 0 /\ Spent(i) + FailedLate(i) + FailedAnswer(i) <= 0
  BY <1>0, <1>2, <1>3, <1>i, Zenon DEF WordsInv, Counted
<1>30. /\ Len(taken[i]) \in Nat /\ Cardinality(OnWire(i)) \in Nat /\ Due(i) \in 0..1
       /\ Spent(i) \in Nat /\ FailedLate(i) \in 0..1 /\ FailedAnswer(i) \in 0..1
  BY <1>0, <1>3, NumbersHold DEF Numbers
<1>31. Counted'
  <2>0. Counted  BY <1>0 DEF WordsInv
  <2>1. \A id \in Ids : Due(id) = 0 /\ OnWire(id)' = OnWire(id)
    BY <1>5, <1>21 DEF Due, OnWire
  <2>2. \A id \in Ids : id # i => Due(id)' = 0  BY <1>17 DEF Due
  <2>3. \A id \in Ids : id # i => Spent(id)' = Spent(id)
    BY <1>21, <2>1, <2>2 DEF Spent
  <2>4. Due(i)' \in 0..1  BY DEF Due
  <2>5. Spent(i)' <= Spent(i) + 1 /\ Spent(i)' \in Nat
    <3>1. Spent(i) = Len(taken[i]) + Cardinality(OnWire(i)) + 0  BY <1>3, <2>1 DEF Spent
    <3>2. Spent(i)' = Len(taken[i]) + Cardinality(OnWire(i)) + Due(i)'  BY <1>3, <1>21, <2>1 DEF Spent
    <3> QED  BY <1>30, <2>4, <3>1, <3>2
  <2>6. FailedLate(i)' = FailedLate(i) /\ FailedAnswer(i)' = FailedAnswer(i)
    BY <1>21 DEF FailedLate, FailedAnswer
  <2>7. Spent(i) <= 1 + asked[i] /\ asked[i] \in Nat  BY <1>3, <1>23, <2>0 DEF Counted
  <2>8. \A id \in Ids : Spent(id)' <= 1 + asked'[id]
    <3> TAKE id \in Ids
    <3>1. CASE id # i  BY <1>23, <2>0, <2>3, <3>1 DEF Counted
    <3>2. CASE id = i /\ forced
      <4>1. Spent(i)' <= 1 + asked'[i]  BY <1>23, <1>30, <2>5, <2>7, <3>2
      <4> QED  BY <3>2, <4>1
    <3>3. CASE id = i /\ ~forced
      <4>1. Spent(i)' <= 1 + asked'[i]  BY <1>23, <1>29, <1>30, <2>5, <2>7, <3>3
      <4> QED  BY <3>3, <4>1
    <3> QED  BY <3>1, <3>2, <3>3
  <2>9. ~forced => asked'[i] = 0 /\ Spent(i)' + FailedLate(i)' + FailedAnswer(i)' <= 1
    BY <1>23, <1>29, <1>30, <2>5, <2>6
  <2> QED  BY <1>19, <2>8, <2>9 DEF Counted
<1>32. Worded'
  <2>0. Worded  BY <1>0 DEF WordsInv
  <2>1. \A id \in Ids : \A y : Out(id, y)' = Out(id, y)  BY <1>21 DEF Out
  <2>2. \A y \in Texts : Out(i, y) => x = y
    <3>1. CASE forced  BY <1>2, <1>i, <2>0, <3>1 DEF Worded
    <3>2. CASE ~forced
      <4>1. Spent(i) <= 0  BY <1>29, <1>30, <3>2
      <4> QED  BY <1>0, <1>3, <4>1, NothingOut
    <3> QED  BY <3>1, <3>2
  <2>3. disk.id # NoId => disk.id \in Ids
    BY <1>0 DEF TranscriptTypes, NoRecord, Tombstone, Record
  <2>4. (\A id \in Ids : \A y, z \in Texts : Out(id, y) /\ Out(id, z) => y = z)'
    BY <2>0, <2>1 DEF Worded
  <2>5. (\A y \in Texts : disk.id # NoId /\ ~disk.discarded /\ Out(disk.id, y) => disk.text = y)'
    BY <1>21, <2>0, <2>1, <2>3 DEF Worded
  <2>6. (\A y \in Texts : Held /\ Out(companion.id, y) => companion.text = y)'
    BY <1>3, <1>19, <2>1, <2>2
  <2>7. (\A a \in InHand : \A y \in Texts : a.kind \in {"persist", "submit"} /\ Out(a.id, y) => a.text = y)'
    BY <1>3, <1>17, <2>1, <2>2
  <2>8. InHand' \subseteq Acts  BY DEF InHand, HandOf
  <2>9. (\A a \in InHand : Ready(a) /\ disk.id = a.id /\ ~disk.discarded => disk.text = a.text)'
    BY <1>18, <2>8
  <2> QED  BY <2>4, <2>5, <2>6, <2>7, <2>9 DEF Worded
<1>33. Unstarted'  BY <1>21 DEF Unstarted
<1> QED  BY <1>13, <1>24, <1>25, <1>26, <1>27, <1>28, <1>31, <1>32, <1>33 DEF TInv, WordsInv

LEMMA EnterKeeps ==
  ASSUME TInv, ~Hasty, Enter PROVE TInv'
<1> DEFINE forced == /\ companion.phase = "retained" /\ companion.delivery = "uncertain"
                     /\ companion.warned
<1>1. /\ companion.phase \in {"editing", "retained"} /\ attempts < MaxSends
      /\ asked' = IF forced THEN [asked EXCEPT ![companion.id] = @ + 1] ELSE asked
  BY DEF Enter
<1>2. TranscriptTypes /\ Phased /\ companion \in Companions /\ Held
  <2>1. TranscriptTypes /\ Phased  BY Zenon DEF TInv, WordsInv
  <2>2. companion \in Companions  BY <2>1, PillFits, Zenon
  <2>3. Held  BY <1>1 DEF Held, Holding
  <2> QED  BY <2>1, <2>2, <2>3
<1>3. companion.text \in Texts  BY <1>2 DEF Phased
<1>4. PICK x \in IF Editable(companion) THEN Texts ELSE {companion.text} :
        Gesture("page", Event("enter", NoId, x))
  BY DEF Enter
<1>5. x \in Texts  BY <1>3, <1>4
<1>6. PICK e : e = Event("enter", NoId, x)  OBVIOUS
<1>7. /\ running = "up" /\ Idle /\ Handle("page", e) /\ doing["page"] = <<>>
      /\ UNCHANGED <<running, voice, disk, outside, taken>> /\ e.kind = "enter"
  BY <1>4, <1>6 DEF Gesture, Event
<1> DEFINE d == Apply(companion, e)
<1>8. /\ companion.phase = "editing" \/ companion.delivery = "refused" =>
           d = SendWords(companion, x, FALSE)
      /\ companion.phase = "retained" /\ companion.delivery = "uncertain" /\ companion.warned =>
           d = SendWords(companion, companion.text, TRUE)
      /\ companion.phase = "retained" /\ companion.delivery = "uncertain" /\ ~companion.warned =>
           d = Done(Retain(companion, "uncertain", TRUE), <<>>)
  BY <1>1, <1>2, <1>3, <1>5, <1>6, EnterIs
<1>9. companion.phase = "editing" => companion.delivery = "refused"  BY <1>2 DEF Phased
<1>10. companion.delivery \in {"refused", "uncertain"} /\ companion.warned \in BOOLEAN  BY <1>2 DEF Companions
<1>11. d = Apply(companion, e)  OBVIOUS
<1> HIDE DEF d
<1>12. CASE companion.delivery = "refused"
  <2>1. d = SendWords(companion, x, FALSE) /\ asked' = asked  BY <1>1, <1>8, <1>12
  <2>2. asked' = (IF FALSE THEN [asked EXCEPT ![companion.id] = @ + 1] ELSE asked)  BY <2>1
  <2>3. Apply(companion, e) = SendWords(companion, x, FALSE)  BY <1>11, <2>1
  <2>4. ~FALSE => companion.delivery = "refused"  BY <1>12
  <2>5. FALSE => x = companion.text  OBVIOUS
  <2>6. FALSE \in BOOLEAN  OBVIOUS
  <2> QED  BY <1>1, <1>5, <1>7, <2>2, <2>3, <2>4, <2>5, <2>6, SendKeeps
<1>13. CASE forced
  <2>1. d = SendWords(companion, companion.text, TRUE)  BY <1>8, <1>13
  <2>2. asked' = (IF TRUE THEN [asked EXCEPT ![companion.id] = @ + 1] ELSE asked)  BY <1>1, <1>13
  <2>3. Apply(companion, e) = SendWords(companion, companion.text, TRUE)  BY <1>11, <2>1
  <2>4. ~TRUE => companion.delivery = "refused"  OBVIOUS
  <2>5. TRUE => companion.text = companion.text  OBVIOUS
  <2>6. TRUE \in BOOLEAN  OBVIOUS
  <2> QED  BY <1>1, <1>3, <1>7, <2>2, <2>3, <2>4, <2>5, <2>6, SendKeeps
<1>14. CASE companion.delivery = "uncertain" /\ ~companion.warned
  <2>0. "uncertain" \in {"refused", "uncertain"} /\ TRUE \in BOOLEAN  OBVIOUS
  <2>1. companion.phase = "retained"  BY <1>1, <1>9, <1>14
  <2> DEFINE r == Retain(companion, "uncertain", TRUE)
  <2>2. /\ r \in Companions /\ r.phase = "retained" /\ r.id = companion.id
        /\ r.text = companion.text /\ r.delivery = "uncertain" /\ r.commands = companion.commands
    BY <1>2, <2>0, RetainFits
  <2>3. d = Done(r, <<>>) /\ asked' = asked  BY <1>1, <1>8, <1>14, <2>1
  <2> HIDE DEF r
  <2>4. d.companion = r /\ d.actions = <<>>  BY <2>3 DEF Done
  <2>5. companion' = d.companion  BY <1>7, <1>11 DEF Handle
  <2>6. SameWords(companion, companion')  BY <1>14, <2>1, <2>2, <2>4, <2>5 DEF SameWords
  <2>7. Quietly(d.actions) /\ Proper("page", d.actions) /\ "page" \in Threads
    BY <2>4, QuietActs, ProperEmpty DEF Threads
  <2>8. FateAfter(e, d) = fate  BY <1>7, FateIs
  <2>9. /\ UNCHANGED <<running, disk, attempts, wire, taken, asked, timers>>
        /\ late' \subseteq late /\ answers' \subseteq answers
        /\ voice' \in {"off", "recording", "finishing"}
    BY <1>2, <1>7, <2>3 DEF outside, TranscriptTypes
  <2>10. d.companion \in Companions  BY <2>2, <2>4
  <2> QED  BY <1>7, <1>11, <2>6, <2>7, <2>8, <2>9, <2>10, HandleKeeps
<1> QED  BY <1>1, <1>9, <1>10, <1>12, <1>13, <1>14

\* Escape where words are held: they are thrown away, or stay while their answer
\* is awaited.
LEMMA ThrowAwayKeeps ==
  ASSUME TInv, ~Hasty, Escape, Held PROVE TInv'
<1>i. PICK i : i = companion.id  OBVIOUS
<1>e. PICK e : e = Plain("escape")  OBVIOUS
<1> DEFINE d == Apply(companion, e)
           F == Act("forget", i, Empty)
           s == <<F>>
<1>0. TranscriptTypes /\ Agenda /\ WordsInv /\ companion \in Companions
  <2>1. TranscriptTypes /\ Agenda /\ WordsInv  BY Zenon DEF TInv
  <2> QED  BY <2>1, PillFits, Zenon
<1>1. PICK t \in {"keys", "page"} : Gesture(t, e)  BY <1>e, Zenon DEF Escape
<1>2. /\ running = "up" /\ Idle /\ Handle(t, e) /\ doing[t] = <<>>
      /\ UNCHANGED <<running, voice, disk, outside, taken, bounds>> /\ asked' = asked
  BY <1>1, Zenon DEF Escape, Gesture
<1>3. t \in Threads  BY DEF Threads
<1>4. /\ d.companion \in Companions /\ ~Waits(Posture(d.companion))
      /\ companion.phase \notin {"resting", "sent"} => Wordless(d.companion, "resting", companion.commands)
      /\ companion.phase \in {"resting", "sent"} => SameWords(companion, d.companion)
      /\ d.actions = (CASE companion.phase = "listening" -> <<Act("discard", NoId, Empty)>>
                        [] companion.phase = "transcribing" -> <<Act("cancel", NoId, Empty)>>
                        [] companion.phase \in {"editing", "retained"} -> <<Act("forget", companion.id, Empty)>>
                        [] OTHER -> <<>>)
  BY <1>0, <1>e, EscapeIs, Zenon
<1>5. e.kind = "escape"  BY <1>e DEF Plain, Event
<1>6. companion' = d.companion /\ fate' = FateAfter(e, d)  BY <1>2 DEF Handle
<1>7. d = Apply(companion, e)  OBVIOUS
<1>8. FateAfter(e, d) = fate  BY <1>5, FateIs
<1> HIDE DEF d
<1>9. /\ running' = running /\ disk' = disk /\ attempts' = attempts /\ wire' = wire /\ taken' = taken
      /\ timers' = timers /\ voice' = voice /\ late' = late /\ answers' = answers /\ asked' = asked
  BY <1>2 DEF outside
<1>10. /\ voice' \in {"off", "recording", "finishing"} /\ late' \subseteq late /\ answers' \subseteq answers
       /\ asked' \in [Ids -> Nat]
       /\ fate \in [Ids -> {"unspoken", "spoken", "stored", "settled", "discarded", "abandoned", "dropped"}]
  BY <1>0, <1>9 DEF TranscriptTypes
<1>11. CASE companion.phase = "sent"
  <2>1. d.actions = <<>>  BY <1>4, <1>11
  <2>2. Quietly(d.actions) /\ Proper(t, d.actions)  BY <1>3, <2>1, QuietActs, ProperEmpty
  <2>3. SameWords(companion, companion')  BY <1>4, <1>6, <1>11
  <2>4. UNCHANGED <<running, disk, attempts, wire, taken, asked, timers>>  BY <1>9
  <2> QED  BY <1>2, <1>3, <1>4, <1>7, <1>8, <1>10, <2>2, <2>3, <2>4, HandleKeeps
<1>12. CASE companion.phase \in {"editing", "retained"}
  <2>1. d.actions = s  BY <1>4, <1>12, <1>i
  <2>2. i \in Ids /\ i \in 1..companion.commands
    <3>1. i \in 1..companion.commands  BY <1>0, <1>i DEF WordsInv, Phased
    <3> QED  BY <1>0, <3>1, SpokenIds
  <2>3. InHand = {}  BY <1>2, IdleHands
  <2>4. F.kind = "forget" /\ F.id = i /\ F \in Acts
    BY <2>2, BoundsAssumption DEF Act, Acts, ActKinds, Ids
  <2> HIDE DEF F
  <2>5. s \in Seq(Acts) /\ Len(s) = 1 /\ s[1] = F /\ s # <<>> /\ \A k \in 1..Len(s) : s[k] = F
    BY <2>4
  <2> HIDE DEF s
  <2>6. Proper(t, s)
    BY <2>4, <2>5 DEF Proper, Threaded
  <2>7. /\ d.actions \in Seq(Acts) /\ (Waits(Posture(d.companion)) => Follower(d.actions))
        /\ (~Waits(Posture(d.companion)) => Proper(t, d.actions))
        /\ (d.actions # <<>> => d.actions[1].kind # "submit")
    BY <1>4, <2>1, <2>4, <2>5, <2>6
  <2>8. /\ doing' \in [Threads -> Seq(Acts)] /\ left' \in Seq(Seq(Acts)) /\ Agenda'
        /\ InHand' \subseteq InHand \cup {d.actions[k] : k \in 1..Len(d.actions)}
        /\ doing'[t] = (IF Waits(Posture(d.companion)) THEN <<>> ELSE d.actions)
        /\ \A u \in Threads \ {t} : doing'[u] = doing[u]
    BY <1>0, <1>2, <1>3, <1>7, <2>7, HandleIs
  <2>9. \A a \in InHand' : a = F
    <3>1. \A k \in 1..Len(d.actions) : d.actions[k] = F  BY <2>1, <2>5
    <3>2. InHand' \subseteq InHand \cup {d.actions[k] : k \in 1..Len(d.actions)}  BY <2>8, Zenon
    <3> QED  BY <2>3, <3>1, <3>2, Zenon
  <2>10. doing'[t] = s /\ \A u \in Threads \ {t} : doing'[u] = <<>>
    <3>1. doing'[t] = s  BY <1>4, <2>1, <2>8
    <3>2. \A u \in Threads : doing[u] = <<>>  BY <1>2 DEF Idle
    <3> QED  BY <2>8, <3>1, <3>2
  <2>11. /\ companion' \in Companions /\ companion'.phase = "resting" /\ companion'.id = NoId
         /\ companion'.delivery = "refused" /\ companion'.commands = companion.commands /\ ~Held'
    BY <1>4, <1>6, <1>12 DEF Wordless, Held, Holding
  <2>12. fate' = fate  BY <1>6, <1>8
  <2>13. Handled
    BY <1>0, <2>8, <2>11, BoundsAssumption DEF Handled, TranscriptTypes, NoId
  <2>14. TranscriptTypes'
    <3>1. /\ fate' \in [Ids -> {"unspoken", "spoken", "stored", "settled", "discarded", "abandoned", "dropped"}]
          /\ UNCHANGED <<running, disk, attempts, wire, taken>>
      BY <1>9, <1>10, <2>12
    <3> QED  BY <1>0, <1>9, <1>10, <2>13, <3>1, HandledTypes
  <2>15. F \in InHand'
    <3>1. HeadsInHand'  BY <2>14, HeadsAreInHandNext
    <3>2. doing'[t] # <<>> => doing'[t][1] \in InHand'  BY <1>3, <3>1 DEF HeadsInHand
    <3> QED  BY <2>5, <2>10, <3>2
  <2>16. \A a \in InHand' : a.kind = "forget" /\ a.id = i  BY <2>4, <2>9
  <2>17. Phased'
    <3>1. ~PendingKind({"persist", "submit", "clear"})'  BY <2>16 DEF PendingKind
    <3>2. \A u \in Threads : Forgets(u)' => u = t  BY <2>10 DEF Forgets
    <3>3. \A u, v \in Threads : Forgets(u)' /\ Forgets(v)' => u = v  BY <3>2
    <3> QED  BY <2>11, <3>1, <3>3 DEF Phased, Forgets
  <2>18. Together'  BY <2>9, <2>11, <2>16 DEF Together
  <2>19. Known'
    <3>1. ~PendingKind({"submit"})'  BY <2>16 DEF PendingKind
    <3>2. Known  BY <1>0 DEF WordsInv
    <3>3. \A a \in InHand' : a.kind \in {"persist", "submit", "forget"} =>
            /\ a.id \in 1..companion'.commands
            /\ a.kind # "forget" => a.text \in Texts
      BY <2>2, <2>11, <2>16
    <3> QED  BY <1>9, <2>11, <2>12, <3>1, <3>2, <3>3 DEF Known
  <2>20. Fates'
    <3>1. Fates  BY <1>0 DEF WordsInv
    <3>2. \A id \in Ids : running' = "up" /\ Needed(id)' => id = i
      BY <1>9, <1>i, <2>3, <2>12, <3>1 DEF Fates, Needed
    <3>3. \A id \in Ids : running' = "up" /\ Needed(id)' => \E a \in InHand' : a.kind = "forget" /\ a.id = id
      BY <2>4, <2>15, <3>2
    <3>4. (\A a \in InHand : Ready(a) => fate[a.id] # "spoken")'  BY <2>16 DEF Ready
    <3>5. \A a \in InHand' : a.kind \in {"persist", "submit"} => fate'[a.id] # "discarded"  BY <2>16
    <3> QED  BY <1>9, <2>11, <2>12, <3>1, <3>3, <3>4, <3>5 DEF Fates
  <2>21. Counted'
    <3>1. Counted  BY <1>0 DEF WordsInv
    <3>2. \A id \in Ids : Due(id)' = 0 /\ Due(id) = 0 /\ OnWire(id)' = OnWire(id)
      BY <1>9, <2>3, <2>16 DEF Due, OnWire
    <3>3. \A id \in Ids : Spent(id)' = Spent(id)  BY <1>9, <3>2 DEF Spent
    <3> QED  BY <1>9, <2>11, <3>1, <3>3 DEF Counted
  <2>22. Worded'
    <3>1. Worded  BY <1>0 DEF WordsInv
    <3>2. \A id \in Ids : \A y : Out(id, y)' = Out(id, y)  BY <1>9 DEF Out
    <3>3. disk.id # NoId => disk.id \in Ids
      BY <1>0 DEF TranscriptTypes, NoRecord, Tombstone, Record
    <3>4. (\A id \in Ids : \A y, z \in Texts : Out(id, y) /\ Out(id, z) => y = z)'
      BY <3>1, <3>2 DEF Worded
    <3>5. (\A y \in Texts : disk.id # NoId /\ ~disk.discarded /\ Out(disk.id, y) => disk.text = y)'
      BY <1>9, <3>1, <3>2, <3>3 DEF Worded
    <3>6. (\A a \in InHand : \A y \in Texts : a.kind \in {"persist", "submit"} /\ Out(a.id, y) => a.text = y)'
      BY <2>16
    <3>7. (\A a \in InHand : Ready(a) /\ disk.id = a.id /\ ~disk.discarded => disk.text = a.text)'
      BY <2>16 DEF Ready
    <3> QED  BY <2>11, <3>4, <3>5, <3>6, <3>7 DEF Worded
  <2>23. Unstarted'  BY <1>2, <1>9 DEF Unstarted
  <2> QED  BY <2>8, <2>14, <2>17, <2>18, <2>19, <2>20, <2>21, <2>22, <2>23 DEF TInv, WordsInv
<1> QED  BY <1>11, <1>12 DEF Held, Holding

\* App::abandon where words are held: they are on their own from here.
LEMMA GiveUpKeeps ==
  ASSUME TInv, WindowFailed, Held PROVE TInv'
<1>i. PICK i : i = companion.id  OBVIOUS
<1> DEFINE d == Abandon(companion)
<1>0. TranscriptTypes /\ Agenda /\ WordsInv /\ companion \in Companions
  <2>1. TranscriptTypes /\ Agenda /\ WordsInv  BY Zenon DEF TInv
  <2> QED  BY <2>1, PillFits, Zenon
<1>1. /\ left # <<>> /\ doing["window"] = <<>>
      /\ companion' = d.companion /\ doing' = [doing EXCEPT !["window"] = d.actions]
      /\ left' = Tail(left)
      /\ fate' = (IF companion.phase \in Holding THEN Fated({companion.id}, "abandoned") ELSE fate)
      /\ UNCHANGED <<running, voice, disk, outside, taken, asked, crashes>>
  BY DEF WindowFailed
<1>2. running = "up"  BY <1>1 DEF TInv, Unstarted, Idle
<1>3. /\ d.companion \in Companions /\ Wordless(d.companion, "resting", companion.commands)
      /\ d.actions = (CASE companion.phase = "listening" -> <<Act("discard", NoId, Empty)>>
                        [] companion.phase = "transcribing" -> <<Act("cancel", NoId, Empty)>>
                        [] OTHER -> <<>>)
  BY <1>0, AbandonFits, Zenon
<1>4. d.actions = <<>>  BY <1>3 DEF Held, Holding
<1> HIDE DEF d
<1>5. Quietly(d.actions) /\ Proved(d.actions)  BY <1>1, <1>4, QuietActs DEF Proved
<1>6. /\ doing' \in [Threads -> Seq(Acts)] /\ left' \in Seq(Seq(Acts)) /\ Agenda'
      /\ Handed /\ \A a \in InHand : a.kind = "forget" => a \in InHand'
  BY <1>0, <1>1, <1>5, WindowWords
<1>7. /\ companion' \in Companions /\ companion'.phase = "resting" /\ companion'.id = NoId
      /\ companion'.delivery = "refused" /\ companion'.commands = companion.commands /\ ~Held'
  BY <1>1, <1>3 DEF Wordless, Held, Holding
<1>8. i \in Ids /\ i \in 1..companion.commands
  <2>1. i \in 1..companion.commands  BY <1>0, <1>i DEF WordsInv, Phased
  <2> QED  BY <1>0, <2>1, SpokenIds
<1>9. fate' = Fated({i}, "abandoned")  BY <1>1, <1>i DEF Held
<1>10. /\ fate' \in [Ids -> {"unspoken", "spoken", "stored", "settled", "discarded", "abandoned", "dropped"}]
       /\ fate'[i] = "abandoned" /\ \A id \in Ids : id # i => fate'[id] = fate[id]
  BY <1>0, <1>8, <1>9 DEF Fated, TranscriptTypes
<1>11. /\ running' = running /\ disk' = disk /\ attempts' = attempts /\ wire' = wire /\ taken' = taken
       /\ timers' = timers /\ voice' = voice /\ late' = late /\ answers' = answers /\ asked' = asked
  BY <1>1 DEF outside
<1>12. Handled
  BY <1>0, <1>6, <1>7, BoundsAssumption DEF Handled, TranscriptTypes, NoId
<1>13. TranscriptTypes'
  BY <1>0, <1>1, <1>10, <1>12, StillTypes
<1>14. Fewer /\ Fixed /\ \A b \in InHand' : Ready(b)' => Ready(b)
  <2>1. InHand' \subseteq Acts  BY DEF InHand, HandOf
  <2> QED  BY <1>6, <1>7, <2>1, HandedFewer DEF Fixed, Handed
<1>15. \A a \in InHand' : a.kind \notin {"forget", "clear"}
  <2>1. \A a \in InHand : a.kind \notin {"forget", "clear"}
    BY <1>0 DEF WordsInv, Phased, PendingKind, Held, Holding
  <2>2. \A a \in InHand' : a \in InHand \/ a.kind \in VoiceActs  BY <1>6 DEF Handed, Voiced
  <2> QED  BY <2>1, <2>2 DEF VoiceActs
<1>16. Phased'
  <2>1. ~PendingKind({"forget"})'  BY <1>15 DEF PendingKind
  <2>2. \A t, u \in Threads : Forgets(t)' /\ Forgets(u)' => t = u
    BY <1>0, <1>6 DEF WordsInv, Handed, Phased, Forgets
  <2> QED  BY <1>7, <2>1, <2>2 DEF Phased, Forgets
<1>17. Together'  BY <1>0, <1>14, TogetherStays DEF WordsInv
<1>18. Known'
  <2>1. PendingKind({"submit"})' => PendingKind({"submit"})  BY <1>14 DEF PendingKind, Fewer
  <2>2. \A id \in Ids : id > companion.commands => fate'[id] = "unspoken"
    <3> SUFFICES ASSUME NEW id \in Ids, id > companion.commands PROVE fate'[id] = "unspoken"
      OBVIOUS
    <3>1. id # i  BY <1>0, <1>8, BoundsAssumption DEF Ids, TranscriptTypes
    <3> QED  BY <1>0, <1>10, <3>1 DEF WordsInv, Known
  <2> QED  BY <1>0, <1>7, <1>11, <1>14, <2>1, <2>2 DEF WordsInv, Known, Fewer
<1>19. Fates'
  <2>0. Fates  BY <1>0 DEF WordsInv
  <2>1. \A id \in Ids : ~Needed(id)'
    <3> SUFFICES ASSUME NEW id \in Ids, Needed(id)' PROVE FALSE
      OBVIOUS
    <3>1. id # i /\ Needed(id)  BY <1>10 DEF Needed
    <3>2. PICK a \in InHand : a.kind = "forget"  BY <1>2, <1>i, <2>0, <3>1 DEF Fates
    <3> QED  BY <1>6, <1>15, <3>2
  <2>2. \A id \in Ids : fate'[id] # "stored" /\ fate'[id] # "spoken"  BY <2>1 DEF Needed
  <2>3. \A id \in Ids : fate[id] # "discarded" => fate'[id] # "discarded"  BY <1>10
  <2>4. disk.id # NoId => disk.id \in Ids
    BY <1>0 DEF TranscriptTypes, NoRecord, Tombstone, Record
  <2>5. \A a \in InHand' : a.kind \in {"persist", "submit"} => a \in InHand /\ a.id \in Ids
    <3>1. \A a \in InHand : a.kind \in {"persist", "submit"} => a.id \in 1..companion.commands
      BY <1>0 DEF WordsInv, Known
    <3>2. \A a \in InHand : a.kind \in {"persist", "submit"} => a.id \in Ids  BY <1>0, <3>1, SpokenIds
    <3> QED  BY <1>14, <3>2 DEF Fewer
  <2>6. \A a \in InHand' : Ready(a)' => a.kind = "submit"  BY <1>14 DEF Ready
  <2>7. \A m \in wire' : m.id \in Ids  BY <1>0, <1>11 DEF TranscriptTypes, Messages
  <2>8. (\A id \in Ids : fate[id] = "settled" => taken[id] # <<>>)'
    BY <1>10, <1>11, <2>0 DEF Fates
  <2>9. (\A x \in answers : x.kind = "acknowledged" => taken[x.id] # <<>>)'
    BY <1>11, <2>0 DEF Fates
  <2>10. (disk.id # NoId /\ ~disk.discarded => fate[disk.id] # "discarded")'
    BY <1>11, <2>0, <2>3, <2>4 DEF Fates
  <2>11. (\A a \in InHand : a.kind \in {"persist", "submit"} => fate[a.id] # "discarded")'
    BY <2>0, <2>3, <2>5 DEF Fates
  <2>12. (\A a \in InHand : Ready(a) => fate[a.id] # "spoken")'  BY <2>2, <2>5, <2>6
  <2>13. (\A m \in wire : fate[m.id] # "spoken")'  BY <2>2, <2>7
  <2> QED  BY <1>7, <2>1, <2>2, <2>8, <2>9, <2>10, <2>11, <2>12, <2>13 DEF Fates
<1>20. Worded'  BY <1>11, <1>14, WordedStays
<1>21. Counted'
  <2>1. /\ Counted /\ UNCHANGED <<wire, taken, asked>> /\ answers' \subseteq answers
        /\ \A x \in late' : x \in late \/ x.kind # "submission_failed"
    BY <1>0, <1>11 DEF WordsInv
  <2> QED  BY <1>0, <1>7, <1>13, <1>14, <2>1, CountedStays
<1>22. Unstarted'  BY <1>2, <1>11 DEF Unstarted
<1> QED  BY <1>6, <1>13, <1>16, <1>17, <1>18, <1>19, <1>20, <1>21, <1>22 DEF TInv, WordsInv

LEMMA NoHands ==
  ASSUME NEW D, NEW L, \A t \in Threads : D[t] = <<>>, \A i \in 1..Len(L) : L[i] = <<>>
  PROVE  HandOf(D, L) = {}
  BY DEF HandOf

\* The process dies: the hands, the wire and the pill are empty, the disk and the
\* conversation are not.
LEMMA CrashKeeps == ASSUME TInv, Crash PROVE TInv'
<1>0. TranscriptTypes /\ Agenda /\ WordsInv /\ companion \in Companions
  <2>1. TranscriptTypes /\ Agenda /\ WordsInv  BY Zenon DEF TInv
  <2> QED  BY <2>1, PillFits, Zenon
<1>1. PICK read \in SUBSET wire : taken' = Took(read)  BY DEF Crash
<1>2. /\ running' = "down" /\ wire' = {} /\ answers' = {} /\ timers' = {} /\ late' = {}
      /\ left' = <<>> /\ voice' = "off" /\ doing' = [t \in Threads |-> <<>>]
      /\ companion' = [Fresh EXCEPT !.commands = companion.commands]
      /\ fate' = [id \in Ids |-> IF fate[id] = "spoken" THEN "dropped" ELSE fate[id]]
      /\ disk' = disk /\ attempts' = attempts /\ asked' = asked
  BY DEF Crash
<1>3. InHand' = {}
  <2>1. (\A t \in Threads : doing'[t] = <<>>) /\ \A i \in 1..Len(left') : left'[i] = <<>>
    BY <1>2
  <2>2. HandOf(doing', left') = {}  BY <2>1, NoHands
  <2> QED  BY <2>2 DEF InHand, HandOf
<1>4. companion.commands \in Nat  BY <1>0 DEF Companions
<1>5. companion' \in Companions /\ Wordless(companion', "resting", companion.commands)
  BY <1>2, <1>4, FreshFits
<1>6. /\ companion'.phase = "resting" /\ companion'.id = NoId /\ companion'.delivery = "refused"
      /\ companion'.commands = companion.commands /\ ~Held'
  BY <1>5 DEF Wordless, Held, Holding
<1>7. /\ doing' \in [Threads -> Seq(Acts)] /\ left' \in Seq(Seq(Acts))
      /\ \A t \in Threads : doing'[t] = <<>>
  BY <1>2
<1>8. Agenda'
  <2>1. \A t \in Threads : Proper(t, doing'[t])  BY <1>7, ProperEmpty
  <2>2. \A i \in 1..Len(left') : Follower(left'[i])  BY <1>2
  <2> QED  BY <2>1, <2>2 DEF Agenda
<1>9. \A id \in Ids : \/ fate'[id] = fate[id] /\ fate[id] # "spoken"
                      \/ fate'[id] = "dropped" /\ fate[id] = "spoken"
  <2> TAKE id \in Ids
  <2>1. fate'[id] = (IF fate[id] = "spoken" THEN "dropped" ELSE fate[id])  BY <1>2, Zenon
  <2> QED  BY <2>1
<1>10. TranscriptTypes'
  <2>1. fate' \in [Ids -> {"unspoken", "spoken", "stored", "settled", "discarded", "abandoned", "dropped"}]
    BY <1>0, <1>2 DEF TranscriptTypes
  <2>2. taken' \in [Ids -> Seq(Texts)]  BY <1>0, <1>1, TookIs
  <2>3. companion'.commands \in 0..MaxDictations /\ companion'.id \in 0..MaxDictations
    BY <1>0, <1>6, BoundsAssumption DEF TranscriptTypes, NoId
  <2>4. wire' \in SUBSET Messages /\ IsFiniteSet(wire') /\ \A m \in wire' : m.attempt <= attempts'
    BY <1>2, FS_EmptySet
  <2>5. /\ disk' \in {NoRecord} \cup {Tombstone(id) : id \in Ids}
                     \cup {Record(id, text) : id \in Ids, text \in Texts}
        /\ attempts' \in 0..MaxSends /\ asked' \in [Ids -> Nat]
    BY <1>0, <1>2 DEF TranscriptTypes
  <2>6. /\ running' \in {"down", "starting", "up"} /\ voice' \in {"off", "recording", "finishing"}
        /\ late' \in SUBSET [kind : LateKinds, id : 0..MaxDictations, text : {Empty}]
        /\ answers' \in SUBSET [kind : AnswerKinds, id : Ids, text : {Empty}]
        /\ timers' \in SUBSET [id : Ids, attempt : Nat]
    BY <1>2
  <2> QED  BY <1>5, <1>7, <2>1, <2>2, <2>3, <2>4, <2>5, <2>6 DEF TranscriptTypes
<1>11. Unstarted'
  <2>1. Idle'  BY <1>2, <1>7 DEF Idle
  <2> QED  BY <1>2, <1>6, <2>1 DEF Unstarted
<1>12. Phased'
  <2>1. ~PendingKind({"forget", "clear"})' /\ ~PendingKind({"forget"})'  BY <1>3 DEF PendingKind
  <2>2. \A u \in Threads : ~Forgets(u)'  BY <1>7 DEF Forgets
  <2> QED  BY <1>6, <2>1, <2>2 DEF Phased, Forgets
<1>13. Together'  BY <1>3 DEF Together
<1>14. Known'
  <2>0. Known  BY <1>0 DEF WordsInv
  <2>1. \A id \in Ids : id > companion.commands => taken'[id] = <<>> /\ fate'[id] = "unspoken" /\ asked'[id] = 0
    <3> SUFFICES ASSUME NEW id \in Ids, id > companion.commands
                 PROVE  taken'[id] = <<>> /\ fate'[id] = "unspoken" /\ asked'[id] = 0
      OBVIOUS
    <3>0. taken[id] = <<>> /\ asked[id] = 0 /\ fate[id] = "unspoken"  BY <2>0 DEF Known
    <3>1. \A m \in read : m.id # id
      <4>1. \A m \in read : m.id <= companion.commands  BY <2>0 DEF Known
      <4>2. id \in Nat  BY BoundsAssumption DEF Ids
      <4> QED  BY <1>4, <4>1, <4>2
    <3>2. taken'[id] = taken[id]  BY <1>0, <1>1, <3>1, TookAll
    <3> QED  BY <1>2, <1>9, <3>0, <3>2
  <2>2. ~PendingKind({"submit"})'  BY <1>3 DEF PendingKind
  <2> QED  BY <1>2, <1>3, <1>6, <2>0, <2>1, <2>2 DEF Known
<1>15. Fates'
  <2>0. Fates  BY <1>0 DEF WordsInv
  <2>1. \A id \in Ids : fate'[id] = "settled" => taken'[id] # <<>>
    <3> SUFFICES ASSUME NEW id \in Ids, fate'[id] = "settled" PROVE taken'[id] # <<>>
      OBVIOUS
    <3>1. taken[id] # <<>>  BY <1>9, <2>0 DEF Fates
    <3> QED  BY <1>0, <1>1, <3>1, TookAll
  <2>2. (\A id \in Ids : fate[id] = "stored" => disk.id = id /\ ~disk.discarded)'
    BY <1>2, <1>9, <2>0 DEF Fates
  <2>3. \A id \in Ids : fate'[id] # "spoken"  BY <1>9
  <2>4. disk.id # NoId => disk.id \in Ids
    BY <1>0 DEF TranscriptTypes, NoRecord, Tombstone, Record
  <2>5. disk'.id # NoId /\ ~disk'.discarded => fate'[disk'.id] # "discarded"
    BY <1>2, <1>9, <2>0, <2>4 DEF Fates
  <2>6. running' # "up"  BY <1>2
  <2> QED  BY <1>2, <1>3, <1>6, <2>1, <2>2, <2>3, <2>5, <2>6 DEF Fates
<1>16. Fewer  BY <1>3 DEF Fewer
<1>17. Counted'
  <2>0. Counted  BY <1>0 DEF WordsInv
  <2>1. \A id \in Ids : Spent(id)' <= Spent(id)
    <3>1. wire' \subseteq wire \ read  BY <1>2
    <3> QED  BY <1>0, <1>1, <1>10, <1>16, <3>1, TookSpent
  <2>2. \A id \in Ids : Spent(id) \in Nat /\ Spent(id)' \in Nat
    BY <1>0, <1>10, NumbersHold, NumbersGoOn DEF Numbers
  <2>3. \A id \in Ids : Spent(id)' <= 1 + asked'[id]
    <3> TAKE id \in Ids
    <3>1. Spent(id) <= 1 + asked[id] /\ asked[id] \in Nat  BY <1>0, <2>0 DEF Counted, TranscriptTypes
    <3> QED  BY <1>2, <2>1, <2>2, <3>1
  <2> QED  BY <1>6, <2>3 DEF Counted
<1>18. Worded'
  <2>0. Worded  BY <1>0 DEF WordsInv
  <2>1. \A id \in Ids : \A x : Out(id, x)' => Out(id, x)
    <3>1. wire' \subseteq wire  BY <1>2
    <3> QED  BY <1>0, <1>1, <3>1, OutStays
  <2>2. disk.id # NoId => disk.id \in Ids
    BY <1>0 DEF TranscriptTypes, NoRecord, Tombstone, Record
  <2>3. (\A id \in Ids : \A x, y \in Texts : Out(id, x) /\ Out(id, y) => x = y)'
    BY <2>0, <2>1 DEF Worded
  <2>4. (\A x \in Texts : disk.id # NoId /\ ~disk.discarded /\ Out(disk.id, x) => disk.text = x)'
    BY <1>2, <2>0, <2>1, <2>2 DEF Worded
  <2> QED  BY <1>3, <1>6, <2>3, <2>4 DEF Worded
<1> QED  BY <1>8, <1>10, <1>11, <1>12, <1>13, <1>14, <1>15, <1>17, <1>18 DEF TInv, WordsInv

\* What App::start makes of the record: the pill holds its words, or holds none
\* and nothing else needs them.
Recovered ==
  /\ companion' \in Companions /\ companion'.commands = companion.commands
  /\ \/ /\ disk.id # NoId /\ ~disk.discarded /\ fate' = fate
        /\ companion'.phase = "retained" /\ companion'.id = disk.id
        /\ companion'.text = disk.text /\ companion'.delivery = "uncertain"
     \/ /\ companion'.phase \in {"resting", "failed"} /\ companion'.id = NoId
        /\ companion'.delivery = "refused"
        /\ \/ fate' = fate /\ (disk.id = NoId \/ disk.discarded)
           \/ disk.id # NoId /\ fate' = Fated({disk.id}, "dropped")

LEMMA DiskIs ==
  ASSUME TranscriptTypes
  PROVE  /\ disk.id # NoId => disk.id \in Ids
         /\ disk.id # NoId /\ ~disk.discarded => disk.text \in Texts
         /\ disk.id \in Nat
<1>1. disk \in {NoRecord} \cup {Tombstone(id) : id \in Ids}
              \cup {Record(id, text) : id \in Ids, text \in Texts}
  BY DEF TranscriptTypes
<1>2. Ids \subseteq Nat /\ NoId \in Nat  BY BoundsAssumption DEF Ids, NoId
<1> QED  BY <1>1, <1>2 DEF NoRecord, Tombstone, Record

LEMMA RecoverIs ==
  ASSUME TInv, Recover PROVE Recovered
<1>0. TranscriptTypes /\ WordsInv /\ companion \in Companions
  <2>1. TranscriptTypes /\ WordsInv  BY Zenon DEF TInv
  <2> QED  BY <2>1, PillFits, Zenon
<1>1. companion = [Fresh EXCEPT !.commands = companion.commands]
  BY DEF Recover, TInv, Unstarted
<1>2. Wordless(companion, "resting", companion.commands)
  <2>1. companion.commands \in Nat  BY <1>0 DEF Companions
  <2> QED  BY <1>1, <2>1, FreshFits
<1>3. companion.phase = "resting" /\ companion.id = NoId /\ companion.delivery = "refused"
  BY <1>2 DEF Wordless
<1>4. /\ disk.id # NoId => disk.id \in Ids
      /\ disk.id # NoId /\ ~disk.discarded => disk.text \in Texts
      /\ disk.id \in Nat
  BY <1>0, DiskIs
<1>5. CASE /\ companion' = (IF Load.id = NoId THEN companion ELSE Restore(companion, Load.id, Load.text))
           /\ fate' = (IF Load.id # NoId /\ companion.phase # "resting"
                       THEN Fated({Load.id}, "dropped") ELSE fate)
  <2>1. fate' = fate  BY <1>3, <1>5
  <2>2. CASE disk.discarded
    <3>1. Load.id = NoId  BY <2>2 DEF Load, NoRecord
    <3>2. companion' = companion  BY <1>5, <3>1
    <3> QED  BY <1>0, <1>3, <2>1, <2>2, <3>2 DEF Recovered
  <2>3. CASE ~disk.discarded /\ disk.id = NoId
    <3>1. Load.id = NoId  BY <2>3 DEF Load
    <3>2. companion' = companion  BY <1>5, <3>1
    <3> QED  BY <1>0, <1>3, <2>1, <2>3, <3>2 DEF Recovered
  <2>4. CASE ~disk.discarded /\ disk.id # NoId
    <3>1. Load = disk  BY <2>4 DEF Load
    <3>2. companion' = Restore(companion, disk.id, disk.text)  BY <1>5, <2>4, <3>1
    <3>3. /\ companion' \in Companions
          /\ companion'.phase = "retained" /\ companion'.id = disk.id
          /\ companion'.text = disk.text /\ companion'.delivery = "uncertain"
          /\ companion'.commands = companion.commands
      BY <1>0, <1>3, <1>4, <2>4, <3>2, RestoreFits
    <3> QED  BY <2>1, <2>4, <3>3 DEF Recovered
  <2> QED  BY <2>2, <2>3, <2>4
<1>6. CASE /\ disk.id # NoId /\ companion' = ReportTrouble(companion)
           /\ fate' = (IF disk.discarded THEN fate ELSE Fated({disk.id}, "dropped"))
  <2>1. companion' = Without(companion, "failed")  BY <1>3, <1>6 DEF ReportTrouble
  <2>2. companion' \in Companions /\ Wordless(companion', "failed", companion.commands)
    BY <1>0, <2>1, FailedIs
  <2> QED  BY <1>6, <2>2 DEF Recovered, Wordless
<1> QED  BY <1>5, <1>6 DEF Recover

LEMMA RecoverKeeps == ASSUME TInv, Recover PROVE TInv'
<1>0. TranscriptTypes /\ Agenda /\ WordsInv /\ companion \in Companions
  <2>1. TranscriptTypes /\ Agenda /\ WordsInv  BY Zenon DEF TInv
  <2> QED  BY <2>1, PillFits, Zenon
<1>1. Recovered  BY RecoverIs
<1>2. /\ running = "starting" /\ running' = "up" /\ left' = Append(left, <<>>)
      /\ doing' = doing /\ voice' = voice /\ disk' = disk /\ taken' = taken /\ asked' = asked
      /\ linked' = linked /\ wire' = wire /\ answers' = answers /\ timers' = timers
      /\ late' = late /\ attempts' = attempts
  BY DEF Recover, outside
<1>3. (\A t \in Threads : doing[t] = <<>>) /\ left = <<>>
  BY <1>2 DEF TInv, Unstarted, Idle
<1>4. left' \in Seq(Seq(Acts)) /\ \A i \in 1..Len(left') : left'[i] = <<>>
  BY <1>2, <1>3
<1>5. \A t \in Threads : doing'[t] = <<>>  BY <1>2, <1>3
<1>6. InHand' = {}
  <2>1. HandOf(doing', left') = {}  BY <1>4, <1>5, NoHands
  <2> QED  BY <2>1 DEF InHand, HandOf
<1>7. InHand = {}
  <2>1. \A i \in 1..Len(left) : left[i] = <<>>  BY <1>3
  <2>2. HandOf(doing, left) = {}  BY <1>3, <2>1, NoHands
  <2> QED  BY <2>2 DEF InHand
<1>8. Agenda'
  <2>1. \A t \in Threads : Proper(t, doing'[t])  BY <1>5, ProperEmpty
  <2>2. Follower(<<>>)  BY NoActs
  <2>3. \A i \in 1..Len(left') : Follower(left'[i])  BY <1>4, <2>2
  <2> QED  BY <2>1, <2>3 DEF Agenda
<1>9. Known /\ Fates /\ Counted /\ Worded  BY <1>0 DEF WordsInv
<1>10. /\ disk.id # NoId => disk.id \in Ids
       /\ disk.id # NoId /\ ~disk.discarded => disk.text \in Texts
       /\ disk.id \in Nat /\ disk.id <= companion.commands /\ companion.commands \in Nat
  <2>1. disk.id <= companion.commands /\ companion.commands \in Nat  BY <1>0, <1>9 DEF Known, Companions
  <2> QED  BY <1>0, <2>1, DiskIs
<1>11. disk.id # NoId => disk.id \in 1..companion.commands
  BY <1>10 DEF NoId
<1>12. /\ fate \in [Ids -> {"unspoken", "spoken", "stored", "settled", "discarded", "abandoned", "dropped"}]
       /\ fate' \in [Ids -> {"unspoken", "spoken", "stored", "settled", "discarded", "abandoned", "dropped"}]
       /\ \A id \in Ids : fate'[id] = fate[id] \/ (fate'[id] = "dropped" /\ id = disk.id)
  <2>1. fate \in [Ids -> {"unspoken", "spoken", "stored", "settled", "discarded", "abandoned", "dropped"}]
    BY <1>0 DEF TranscriptTypes
  <2>2. fate' = fate \/ fate' = Fated({disk.id}, "dropped")  BY <1>1 DEF Recovered
  <2> QED  BY <2>1, <2>2 DEF Fated
<1>13. /\ companion' \in Companions /\ companion'.commands = companion.commands
       /\ \/ /\ Held' /\ companion'.phase = "retained" /\ companion'.id = disk.id /\ disk.id # NoId
             /\ ~disk.discarded /\ companion'.text = disk.text /\ companion'.delivery = "uncertain"
             /\ fate' = fate
          \/ /\ ~Held' /\ companion'.phase \in {"resting", "failed"} /\ companion'.id = NoId
             /\ companion'.delivery = "refused"
             /\ \/ fate' = fate /\ (disk.id = NoId \/ disk.discarded)
                \/ disk.id # NoId /\ fate' = Fated({disk.id}, "dropped")
  BY <1>1 DEF Recovered, Held, Holding
<1>14. TranscriptTypes'
  <2>1. companion'.commands \in 0..MaxDictations /\ companion'.id \in 0..MaxDictations
    <3>1. Ids \subseteq 0..MaxDictations /\ NoId \in 0..MaxDictations  BY BoundsAssumption DEF Ids, NoId
    <3>2. companion'.id = NoId \/ companion'.id \in Ids  BY <1>10, <1>13
    <3>3. companion.commands \in 0..MaxDictations  BY <1>0 DEF TranscriptTypes
    <3>4. companion'.commands = companion.commands  BY <1>13
    <3> QED  BY <3>1, <3>2, <3>3, <3>4
  <2>2. doing' \in [Threads -> Seq(Acts)]  BY <1>0, <1>2 DEF TranscriptTypes
  <2>3. companion' \in Companions  BY <1>13
  <2>4. /\ running' \in {"down", "starting", "up"} /\ voice' \in {"off", "recording", "finishing"}
        /\ disk' \in {NoRecord} \cup {Tombstone(id) : id \in Ids}
                     \cup {Record(id, text) : id \in Ids, text \in Texts}
        /\ attempts' \in 0..MaxSends /\ asked' \in [Ids -> Nat] /\ taken' \in [Ids -> Seq(Texts)]
    BY <1>0, <1>2 DEF TranscriptTypes
  <2>5. /\ late' \in SUBSET [kind : LateKinds, id : 0..MaxDictations, text : {Empty}]
        /\ answers' \in SUBSET [kind : AnswerKinds, id : Ids, text : {Empty}]
        /\ timers' \in SUBSET [id : Ids, attempt : Nat]
    BY <1>0, <1>2 DEF TranscriptTypes
  <2>6. wire' \in SUBSET Messages /\ IsFiniteSet(wire') /\ \A m \in wire' : m.attempt <= attempts'
    BY <1>0, <1>2 DEF TranscriptTypes
  <2> QED  BY <1>4, <1>12, <2>1, <2>2, <2>3, <2>4, <2>5, <2>6 DEF TranscriptTypes
<1>15. Unstarted'  BY <1>2 DEF Unstarted
<1>16. Phased'
  <2>1. \A kinds : ~PendingKind(kinds)'  BY <1>6 DEF PendingKind
  <2>2. \A u \in Threads : ~Forgets(u)'  BY <1>5 DEF Forgets
  <2>3. Held' => companion'.id \in 1..companion'.commands /\ companion'.text \in Texts
    BY <1>10, <1>11, <1>13
  <2>4. ~PendingKind(Wording)' /\ ~PendingKind({"forget", "clear"})' /\ ~PendingKind({"forget"})'
    BY <1>6 DEF PendingKind
  <2> QED  BY <1>13, <2>2, <2>3, <2>4 DEF Phased, Forgets
<1>17. Together'  BY <1>6 DEF Together
<1>18. Known'
  <2>1. ~PendingKind({"submit"})'  BY <1>6 DEF PendingKind
  <2>2. \A id \in Ids : id > companion.commands => fate'[id] = "unspoken"
    <3> SUFFICES ASSUME NEW id \in Ids, id > companion.commands PROVE fate'[id] = "unspoken"
      OBVIOUS
    <3>1. id # disk.id  BY <1>10, BoundsAssumption DEF Ids
    <3> QED  BY <1>9, <1>12, <3>1 DEF Known
  <2> QED  BY <1>2, <1>6, <1>9, <1>13, <2>1, <2>2 DEF Known
<1>19. Fates'
  <2>1. \A id \in Ids : ~(fate[id] = "spoken")  BY <1>2, <1>9 DEF Fates
  <2>2. \A id \in Ids : fate'[id] # "spoken"  BY <1>12, <2>1
  <2>3. \A id \in Ids : fate'[id] = "stored" => disk.id = id /\ ~disk.discarded
    BY <1>9, <1>12 DEF Fates
  <2>4. \A id \in Ids : Needed(id)' => Held' /\ companion'.id = id
    <3> SUFFICES ASSUME NEW id \in Ids, Needed(id)' PROVE Held' /\ companion'.id = id
      OBVIOUS
    <3>1. fate'[id] = "stored" /\ disk.id = id /\ ~disk.discarded  BY <2>2, <2>3 DEF Needed
    <3>2. id # NoId  BY DEF Ids, NoId
    <3>3. fate' # Fated({disk.id}, "dropped")  BY <3>1 DEF Fated
    <3> QED  BY <1>13, <3>1, <3>2, <3>3
  <2>5. disk.id # NoId /\ ~disk.discarded => fate'[disk.id] # "discarded"
    BY <1>9, <1>10, <1>12 DEF Fates
  <2>6. Held' => fate'[companion'.id] # "discarded"  BY <1>13, <2>5
  <2>7. \A id \in Ids : fate'[id] = "settled" => taken[id] # <<>>  BY <1>9, <1>12 DEF Fates
  <2>8. wire = {} /\ answers = {}  BY <1>2 DEF TInv, Unstarted
  <2> QED  BY <1>2, <1>6, <2>2, <2>3, <2>4, <2>5, <2>6, <2>7, <2>8 DEF Fates
<1>20. Counted'
  <2>1. \A id \in Ids : Due(id)' = 0 /\ Due(id) = 0 /\ OnWire(id)' = OnWire(id)
    BY <1>2, <1>6, <1>7 DEF Due, OnWire
  <2>2. \A id \in Ids : Spent(id)' = Spent(id)  BY <1>2, <2>1 DEF Spent
  <2> QED  BY <1>2, <1>9, <1>13, <2>2 DEF Counted
<1>21. Worded'
  <2>1. \A id \in Ids : \A x : Out(id, x)' = Out(id, x)  BY <1>2 DEF Out
  <2>2. (\A id \in Ids : \A x, y \in Texts : Out(id, x) /\ Out(id, y) => x = y)'
    BY <1>9, <2>1 DEF Worded
  <2>4. (\A x \in Texts : disk.id # NoId /\ ~disk.discarded /\ Out(disk.id, x) => disk.text = x)'
    BY <1>2, <1>9, <1>10, <2>1 DEF Worded
  <2>5. (\A x \in Texts : Held /\ Out(companion.id, x) => companion.text = x)'
    BY <1>9, <1>10, <1>13, <2>1 DEF Worded
  <2> QED  BY <1>6, <2>2, <2>4, <2>5 DEF Worded
<1> QED  BY <1>8, <1>14, <1>15, <1>16, <1>17, <1>18, <1>19, <1>20, <1>21 DEF TInv, WordsInv

-----------------------------------------------------------------------------
(* Every step.                                                              *)

LEMMA EscapeKeeps == ASSUME TInv, ~Hasty, Escape PROVE TInv'
  BY LeaveKeeps, ThrowAwayKeeps, Zenon

LEMMA WindowFailedKeeps == ASSUME TInv, WindowFailed PROVE TInv'
  BY AbandonKeeps, GiveUpKeeps, Zenon

\* A process that runs and has something to apply is up.
LEMMA Running ==
  ASSUME TInv, late # {} \/ answers # {} \/ voice # "off" PROVE running = "up"
  BY DEF TInv, Unstarted

LEMMA HeardKeeps == ASSUME TInv, Heard PROVE TInv'
<1>1. /\ voice = "finishing" /\ doing["window"] = <<>> /\ voice' = "off"
      /\ UNCHANGED <<running, disk, attempts, wire, taken, asked, timers, late, answers>>
  BY DEF Heard, outside
<1>2. running = "up"  BY <1>1, Running
<1>3. ASSUME Handle("window", Plain("transcription_failed")) PROVE TInv'
  <2>1. PICK e : e = Plain("transcription_failed")  OBVIOUS
  <2>2. Handle("window", e)  BY <1>3, <2>1
  <2> QED  BY <1>1, <1>2, <2>1, <2>2, NothingHeardKeeps
<1>4. ASSUME NEW x \in Texts \cup {Empty}, Handle("window", Event("transcribed", NoId, x)) PROVE TInv'
  <2>1. PICK e : e = Event("transcribed", NoId, x)  OBVIOUS
  <2>2. Handle("window", e)  BY <1>4, <2>1
  <2>3. CASE companion.phase # "transcribing" \/ x = Empty
    <3>1. \E y \in Texts \cup {Empty} : e = Event("transcribed", NoId, y) /\ (companion.phase # "transcribing" \/ y = Empty)
      BY <2>1, <2>3
    <3> QED  BY <1>1, <1>2, <2>2, <3>1, NothingHeardKeeps
  <2>4. CASE companion.phase = "transcribing" /\ x \in Texts
    BY <1>1, <1>2, <2>1, <2>2, <2>4, SpokenKeeps
  <2> QED  BY <2>3, <2>4
<1> QED  BY <1>3, <1>4 DEF Heard

LEMMA ExecutedKeeps == ASSUME TInv, Executed PROVE TInv'
<1>1. PICK e \in late :
        /\ Handle("window", e) /\ doing["window"] = <<>> /\ late' = late \ {e}
        /\ UNCHANGED <<running, voice, disk, linked, wire, answers, timers, attempts,
                       taken, asked, bounds>>
  BY DEF Executed
<1>2. running = "up"  BY <1>1, Running
<1>3. late \in SUBSET [kind : LateKinds, id : 0..MaxDictations, text : {Empty}]  BY DEF TInv, TranscriptTypes
<1>4. e \in [kind : LateKinds \cup AnswerKinds, id : Nat, text : {Empty}] /\ e.kind \in LateKinds
  BY <1>1, <1>3
<1>5. /\ UNCHANGED <<running, disk, attempts, wire, taken, asked, timers, voice>>
      /\ late' \subseteq late /\ answers' \subseteq answers /\ e \in late /\ e \notin late'
  BY <1>1
<1>6. "window" \in {"window", "link"}  OBVIOUS
<1>7. CASE ~Hits(e)
  <2>1. e.kind = "recording_failed" => "window" = "window"  OBVIOUS
  <2> QED  BY <1>1, <1>2, <1>4, <1>5, <1>6, <1>7, <2>1, MissKeeps
<1>8. CASE Hits(e)
  <2>1. e.kind \in {"submission_failed", "submission_uncertain"}
    BY <1>4, <1>8 DEF Hits, LateKinds
  <2>2. (e \in late /\ e \notin late') \/ (e \in answers /\ e \notin answers')  BY <1>5
  <2> QED  BY <1>1, <1>2, <1>4, <1>5, <1>6, <1>8, <2>1, <2>2, ReturnKeeps
<1> QED  BY <1>7, <1>8

LEMMA AnsweredKeeps == ASSUME TInv, Answered PROVE TInv'
<1>1. PICK e \in answers :
        /\ doing["link"] = <<>> /\ Handle("link", e) /\ answers' = answers \ {e}
        /\ UNCHANGED <<running, voice, disk, linked, wire, timers, late, attempts,
                       taken, asked, bounds>>
  BY DEF Answered
<1>2. running = "up"  BY <1>1, Running
<1>3. answers \in SUBSET [kind : AnswerKinds, id : Ids, text : {Empty}] /\ Ids \subseteq Nat
  BY BoundsAssumption DEF TInv, TranscriptTypes, Ids
<1>4. e \in [kind : LateKinds \cup AnswerKinds, id : Nat, text : {Empty}] /\ e.kind \in AnswerKinds
  BY <1>1, <1>3
<1>5. /\ UNCHANGED <<running, disk, attempts, wire, taken, asked, timers, voice>>
      /\ UNCHANGED <<running, disk, attempts, wire, taken, asked, timers, voice, late>>
      /\ late' \subseteq late /\ answers' \subseteq answers /\ e \in answers /\ e \notin answers'
  BY <1>1
<1>6. "link" \in {"window", "link"}  OBVIOUS
<1>7. CASE ~Hits(e)
  <2>1. e.kind = "recording_failed" => "link" = "window"  BY <1>4 DEF AnswerKinds
  <2> QED  BY <1>1, <1>2, <1>4, <1>5, <1>6, <1>7, <2>1, MissKeeps
<1>8. CASE Hits(e) /\ e.kind = "acknowledged"
  BY <1>1, <1>2, <1>4, <1>5, <1>8, SettledKeeps
<1>9. CASE Hits(e) /\ e.kind # "acknowledged"
  <2>1. e.kind \in {"submission_failed", "submission_uncertain"}
    BY <1>4, <1>9 DEF AnswerKinds
  <2>2. (e \in late /\ e \notin late') \/ (e \in answers /\ e \notin answers')  BY <1>5
  <2> QED  BY <1>1, <1>2, <1>4, <1>5, <1>6, <1>9, <2>1, <2>2, ReturnKeeps
<1> QED  BY <1>7, <1>8, <1>9

LEMMA CarryKeeps == ASSUME TInv, NEW t \in Threads, Carry(t) PROVE TInv'
  BY SaveKeeps, SaveFailsKeeps, ClearPendingKeeps, DiscardPendingKeeps, DiscardFailsKeeps,
     SubmitKeeps, SubmitFailsKeeps, VoiceKeeps, Zenon DEF Carry

LEMMA WordsStep == ASSUME ~Hasty PROVE TInv /\ [Next]_vars => TInv'
<1> SUFFICES ASSUME TInv, [Next]_vars PROVE TInv'
  OBVIOUS
<1>1. CASE Activate  BY <1>1, ActivateKeeps
<1>2. CASE Escape  BY <1>2, EscapeKeeps
<1>3. CASE Enter  BY <1>3, EnterKeeps
<1>4. CASE Executed  BY <1>4, ExecutedKeeps
<1>5. CASE Heard  BY <1>5, HeardKeeps
<1>6. CASE WindowUp  BY <1>6, WindowUpKeeps
<1>7. CASE WindowFailed  BY <1>7, WindowFailedKeeps
<1>8. CASE \E t \in Threads : Carry(t)  BY <1>8, CarryKeeps
<1>9. CASE TimerFires  BY <1>9, TimerFiresKeeps
<1>10. CASE Link  BY <1>10, LinkKeeps
<1>11. CASE LinkDrops  BY <1>11, LinkDropsKeeps
<1>12. CASE ServiceTakes  BY <1>12, ServiceTakesKeeps
<1>13. CASE ServiceRefuses  BY <1>13, ServiceRefusesKeeps
<1>14. CASE Answered  BY <1>14, AnsweredKeeps
<1>15. CASE Crash  BY <1>15, CrashKeeps
<1>16. CASE Boot  BY <1>16, BootKeeps
<1>17. CASE Recover  BY <1>17, RecoverKeeps
<1>18. CASE UNCHANGED vars
  <2>1. /\ UNCHANGED <<shown, voice, disk, wire, answers, timers, late, attempts, ghosts>>
        /\ running' = running
    BY <1>18 DEF vars, shown, ghosts
  <2> QED  BY <2>1, StillKeeps
<1> QED  BY <1>1, <1>2, <1>3, <1>4, <1>5, <1>6, <1>7, <1>8, <1>9, <1>10, <1>11, <1>12,
            <1>13, <1>14, <1>15, <1>16, <1>17, <1>18 DEF Next

\* A first start: nothing spoken, nothing stored, nothing in anybody's hands.
LEMMA WordsBegin == Init => TInv
<1> SUFFICES ASSUME Init PROVE TInv
  OBVIOUS
<1>1. /\ running = "starting" /\ companion = Fresh
      /\ doing = [t \in Threads |-> <<>>] /\ left = <<>>
      /\ voice = "off" /\ disk = NoRecord
      /\ attempts = 0 /\ timers = {} /\ late = {} /\ wire = {} /\ answers = {}
      /\ taken = [id \in Ids |-> <<>>] /\ asked = [id \in Ids |-> 0]
      /\ fate = [id \in Ids |-> "unspoken"]
  BY DEF Init
<1>2. /\ companion \in Companions /\ companion.phase = "resting" /\ companion.id = NoId
      /\ companion.delivery = "refused" /\ companion.commands = 0
      /\ companion = [Fresh EXCEPT !.commands = companion.commands]
  BY <1>1 DEF Fresh, Companions, Phases, NoId
<1>3. ~Held  BY <1>2 DEF Held, Holding
<1>4. InHand = {}
  <2>1. (\A t \in Threads : doing[t] = <<>>) /\ \A i \in 1..Len(left) : left[i] = <<>>
    BY <1>1
  <2> QED  BY <2>1, NoHands DEF InHand
<1>5. TranscriptTypes
  <2>1. MaxDictations \in Nat /\ MaxSends \in Nat  BY BoundsAssumption
  <2>2. companion.commands \in 0..MaxDictations /\ companion.id \in 0..MaxDictations
    BY <1>2, <2>1 DEF NoId
  <2>3. /\ doing \in [Threads -> Seq(Acts)] /\ left \in Seq(Seq(Acts))
        /\ taken \in [Ids -> Seq(Texts)] /\ asked \in [Ids -> Nat]
    BY <1>1
  <2>4. fate \in [Ids -> {"unspoken", "spoken", "stored", "settled", "discarded", "abandoned", "dropped"}]
    BY <1>1
  <2>5. attempts \in 0..MaxSends  BY <1>1, <2>1
  <2>6. /\ wire \in SUBSET Messages /\ IsFiniteSet(wire) /\ \A m \in wire : m.attempt <= attempts
    BY <1>1, FS_EmptySet
  <2>7. /\ running \in {"down", "starting", "up"} /\ voice \in {"off", "recording", "finishing"}
        /\ disk \in {NoRecord} \cup {Tombstone(id) : id \in Ids}
                    \cup {Record(id, text) : id \in Ids, text \in Texts}
        /\ late \in SUBSET [kind : LateKinds, id : 0..MaxDictations, text : {Empty}]
        /\ answers \in SUBSET [kind : AnswerKinds, id : Ids, text : {Empty}]
        /\ timers \in SUBSET [id : Ids, attempt : Nat]
    BY <1>1
  <2> QED  BY <1>2, <2>2, <2>3, <2>4, <2>5, <2>6, <2>7 DEF TranscriptTypes
<1>6. \A t \in Threads : doing[t] = <<>>  BY <1>1
<1>7. Agenda
  <2>1. \A t \in Threads : Proper(t, doing[t])  BY <1>5, <1>6, ProperEmpty
  <2>2. \A i \in 1..Len(left) : Follower(left[i])  BY <1>1
  <2> QED  BY <2>1, <2>2 DEF Agenda
<1>8. Unstarted
  <2>1. Idle  BY <1>1, <1>6 DEF Idle
  <2> QED  BY <1>1, <1>2, <2>1 DEF Unstarted
<1>9. Phased
  <2>1. ~PendingKind({"forget", "clear"}) /\ ~PendingKind({"forget"})  BY <1>4 DEF PendingKind
  <2> QED  BY <1>2, <1>3, <1>6, <2>1 DEF Phased
<1>10. Together  BY <1>4 DEF Together
<1>11. disk.id = NoId  BY <1>1 DEF NoRecord
<1>12. Known
  <2>1. ~PendingKind({"submit"})  BY <1>4 DEF PendingKind
  <2>2. \A id \in Ids : taken[id] = <<>> /\ asked[id] = 0 /\ fate[id] = "unspoken"  BY <1>1
  <2> QED  BY <1>1, <1>2, <1>4, <1>11, <2>1, <2>2 DEF Known, NoId
<1>13. Fates
  <2>1. \A id \in Ids : fate[id] = "unspoken"  BY <1>1
  <2> QED  BY <1>1, <1>3, <1>4, <1>11, <2>1 DEF Fates, Needed
<1>14. Counted
  <2>1. \A id \in Ids : Spent(id) <= 1 + asked[id]
    <3> TAKE id \in Ids
    <3>1. Len(taken[id]) = 0 /\ asked[id] = 0  BY <1>1
    <3>2. OnWire(id) = {}  BY <1>1 DEF OnWire
    <3>3. Cardinality(OnWire(id)) = 0  BY <3>2, FS_EmptySet
    <3>4. Due(id) = 0  BY <1>4 DEF Due
    <3> QED  BY <3>1, <3>3, <3>4 DEF Spent
  <2> QED  BY <1>3, <2>1 DEF Counted
<1>15. Worded
  <2>1. \A id \in Ids : \A x : ~Out(id, x)
    <3> TAKE id \in Ids
    <3>1. taken[id] = <<>>  BY <1>1
    <3> QED  BY <1>1, <3>1 DEF Out
  <2> QED  BY <1>3, <1>4, <1>11, <2>1 DEF Worded
<1> QED  BY <1>5, <1>7, <1>8, <1>9, <1>10, <1>12, <1>13, <1>14, <1>15 DEF TInv, WordsInv

-----------------------------------------------------------------------------
(* What follows of what the person was promised.                            *)

LEMMA WordsAreTyped == TInv => TypeOK
<1> SUFFICES ASSUME TInv PROVE TypeOK
  OBVIOUS
<1>0. TranscriptTypes /\ Agenda  BY Zenon DEF TInv
<1>1. companion \in Companions  BY <1>0, PillFits
<1>2. \A t \in Threads : Len(doing[t]) <= 2
  <2> TAKE t \in Threads
  <2>1. doing[t] \in Seq(Acts)  BY <1>0 DEF TranscriptTypes
  <2>2. Len(doing[t]) <= (IF t = "page" THEN 2 ELSE 1)  BY <1>0 DEF Agenda, Proper
  <2>3. Len(doing[t]) \in Nat  BY <2>1
  <2> QED  BY <2>2, <2>3
<1>3. /\ running \in {"down", "starting", "up"} /\ voice \in {"off", "recording", "finishing"}
      /\ disk \in {NoRecord} \cup {Tombstone(id) : id \in Ids}
                  \cup {Record(id, text) : id \in Ids, text \in Texts}
      /\ attempts \in 0..MaxSends
      /\ fate \in [Ids -> {"unspoken", "spoken", "stored", "settled", "discarded", "abandoned", "dropped"}]
  BY <1>0 DEF TranscriptTypes
<1> QED  BY <1>1, <1>2, <1>3 DEF TypeOK

LEMMA WordsAreCounted == TInv => TwiceOnlyIfAsked /\ OneTextPerTranscript
<1> SUFFICES ASSUME TInv PROVE TwiceOnlyIfAsked /\ OneTextPerTranscript
  OBVIOUS
<1>0. TranscriptTypes /\ Agenda /\ Counted /\ Worded  BY Zenon DEF TInv, WordsInv
<1>1. \A id \in Ids : Len(taken[id]) <= 1 + asked[id]
  <2> TAKE id \in Ids
  <2>1. Spent(id) <= 1 + asked[id]  BY <1>0 DEF Counted
  <2>2. /\ Len(taken[id]) \in Nat /\ Cardinality(OnWire(id)) \in Nat /\ Due(id) \in Nat
        /\ asked[id] \in Nat
    <3>1. Len(taken[id]) \in Nat /\ asked[id] \in Nat  BY <1>0 DEF TranscriptTypes
    <3>2. Due(id) \in Nat  BY DEF Due
    <3>3. IsFiniteSet(wire) /\ OnWire(id) \subseteq wire  BY <1>0 DEF TranscriptTypes, OnWire
    <3>4. Cardinality(OnWire(id)) \in Nat  BY <3>3, FS_Subset, FS_CardinalityType
    <3> QED  BY <3>1, <3>2, <3>4
  <2> QED  BY <2>1, <2>2 DEF Spent
<1>2. \A id \in Ids : \A i, j \in 1..Len(taken[id]) : taken[id][i] = taken[id][j]
  <2> TAKE id \in Ids
  <2> TAKE i, j \in 1..Len(taken[id])
  <2>1. taken[id] \in Seq(Texts)  BY <1>0 DEF TranscriptTypes
  <2>2. taken[id][i] \in Texts /\ taken[id][j] \in Texts  BY <2>1
  <2>3. Out(id, taken[id][i]) /\ Out(id, taken[id][j])  BY DEF Out
  <2> QED  BY <1>0, <2>2, <2>3 DEF Worded
<1> QED  BY <1>1, <1>2 DEF TwiceOnlyIfAsked, OneTextPerTranscript

LEMMA WordsAreStored == TInv => StoredUntilRetired /\ StoredIsHeld /\ SentOnlyStored
<1> SUFFICES ASSUME TInv PROVE StoredUntilRetired /\ StoredIsHeld /\ SentOnlyStored
  OBVIOUS
<1>0. TranscriptTypes /\ Agenda /\ Fates /\ Worded  BY Zenon DEF TInv, WordsInv
<1>1. StoredUntilRetired  BY <1>0 DEF Fates, StoredUntilRetired
<1>2. ASSUME NEW id \in Ids, running = "up", fate[id] = "stored"
      PROVE  \/ companion.phase \in Holding /\ companion.id = id
             \/ \E t \in Threads : Doing(t, "forget") /\ Head(doing[t]).id = id
  <2>1. \/ Held /\ companion.id = id
        \/ \E a \in InHand : a.kind = "forget" /\ a.id = id
    BY <1>0, <1>2 DEF Fates, Needed
  <2>2. CASE Held /\ companion.id = id  BY <2>2 DEF Held
  <2>3. CASE \E a \in InHand : a.kind = "forget" /\ a.id = id
    <3>1. PICK a \in InHand : a.kind = "forget" /\ a.id = id  BY <2>3
    <3>2. ForgetsAtHead  BY <1>0, HeadsHold
    <3>3. PICK t \in Threads : doing[t] # <<>> /\ doing[t][1] = a
      BY <3>1, <3>2 DEF ForgetsAtHead, Forgets
    <3>4. Head(doing[t]) = a  BY <3>3
    <3> QED  BY <1>2, <3>1, <3>3, <3>4 DEF Doing
  <2> QED  BY <2>1, <2>2, <2>3
<1>3. ASSUME NEW m \in wire, fate[m.id] \in {"spoken", "stored"}
      PROVE  disk = Record(m.id, m.text)
  <2>1. m \in Messages  BY <1>0 DEF TranscriptTypes
  <2>2. m.id \in Ids /\ m.text \in Texts  BY <2>1 DEF Messages
  <2>3. fate[m.id] = "stored"  BY <1>0, <1>3 DEF Fates
  <2>4. disk.id = m.id /\ ~disk.discarded  BY <1>0, <2>2, <2>3 DEF Fates
  <2>5. Out(m.id, m.text)  BY DEF Out
  <2>6. m.id # NoId  BY <2>2, BoundsAssumption DEF Ids, NoId
  <2>7. disk.text = m.text  BY <1>0, <2>2, <2>4, <2>5, <2>6 DEF Worded
  <2>8. disk \in {NoRecord} \cup {Tombstone(id) : id \in Ids}
                 \cup {Record(id, text) : id \in Ids, text \in Texts}
    BY <1>0 DEF TranscriptTypes
  <2> QED  BY <2>4, <2>6, <2>7, <2>8 DEF NoRecord, Tombstone, Record
<1> QED  BY <1>1, <1>2, <1>3 DEF StoredIsHeld, SentOnlyStored

LEMMA WordsAreKept == TInv => WordsAreSafe
<1> SUFFICES ASSUME TInv PROVE WordsAreSafe
  OBVIOUS
<1>1. Fates  BY Zenon DEF TInv, WordsInv
<1>2. DiscardedStaysGone /\ SettledWasTaken
  BY <1>1 DEF Fates, Held, DiscardedStaysGone, SettledWasTaken
<1> QED  BY <1>2, WordsAreTyped, WordsAreCounted, WordsAreStored DEF WordsAreSafe

\* InTurn: the person acts when the start, the storage and the windows have
\* settled.
InTurn == ~Hasty

\* Wherever the process dies and whatever is lost, the pill, the hands of the
\* threads, the disk, the wire and the conversation agree on which words are
\* where, how often they are on their way, and what they read.
THEOREM WordsInvariant == ASSUME InTurn PROVE Spec => []TInv
<1>1. TInv /\ [Next]_vars => TInv'
  BY WordsStep, InTurn DEF InTurn
<1> QED  BY <1>1, WordsBegin, PTL DEF Spec

\* For any number of dictations, sends, faults and deaths of the process, words
\* enter the conversation once unless the person asked twice, and never in two
\* wordings; they are on disk while they may be needed and on the pill while
\* they are on disk; nothing is on the wire that is not on disk; and what was
\* discarded stays gone (state.rs, pending.rs, App::handle).
THEOREM DictationIsSafe == ASSUME InTurn PROVE Spec => []WordsAreSafe
  BY WordsInvariant, WordsAreKept, PTL
=============================================================================
