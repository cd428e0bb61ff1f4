------------------------------ MODULE KeysProofs ------------------------------
(****************************************************************************)
(* The desktop keyboard comes to rest: DesktopKeys, for any number of       *)
(* gestures, reports and troubles, any accelerators and any of them that    *)
(* another program holds.                                                   *)
(*                                                                          *)
(* A state with everything put is right because of what was on its way in   *)
(* every state before it.  The invariant says so: the newest decision is    *)
(* with a thread or at the applying, or it was put in full; a repair under  *)
(* way has a chain or a follower; a take that is open has a start or a stop *)
(* that somebody has yet to run, a recorder, or an answer on its way.  With *)
(* nothing on its way only the last case of each is left.                   *)
(****************************************************************************)
EXTENDS DesktopKeys, TLAPS

-----------------------------------------------------------------------------
(* What is on its way.                                                      *)

ActKinds == {"start", "stop", "discard", "cancel", "persist", "submit", "clear",
             "forget", "abort", "copy"}
Acts == [kind : ActKinds, id : Nat, text : Texts \cup {Empty}]
Decisions == [version : Nat, posture : Postures, recording : BOOLEAN]
Followers == {f \in [kind : {"carry", "nothing", "repair"}, actions : Seq(Acts),
                      left : 0..Repairs, wanted : Postures] :
                f.kind # "carry" => f.actions = <<>>}
Items == {i \in [actions : Seq(Acts), decision : Decisions, follower : Followers,
                  followers : Seq(Followers), ok : BOOLEAN] :
            i.decision # NoDecision => i.followers = <<>>}
Surfaces == [next : Decisions, version : Nat, applying : BOOLEAN,
             waiting : Seq(Followers), own : Followers, current : Decisions,
             stage : {"take", "windows", "draw"}, ok : BOOLEAN]

Decided(i) == i.decision # NoDecision

\* The followers a thread still owes, and all there are.
Owing(i) == {f \in {i.follower} : Decided(i)} \cup {i.followers[k] : k \in 1..Len(i.followers)}
HeldBy(s) == IF s.applying THEN {s.own} \cup {s.waiting[k] : k \in 1..Len(s.waiting)} ELSE {}
OwedIn(W, O, s) ==
  (UNION {Owing(i) : i \in W}) \cup (UNION {Owing(o.item) : o \in O}) \cup HeldBy(s)
Owed == OwedIn(work, opening, surface)

\* The decisions that have yet to be put in full.
StampsOf(i) == {d \in {i.decision} : Decided(i)}
AtHand(s) == {d \in {s.next} : d # NoDecision} \cup {d \in {s.current} : s.stage # "take"}
AfootIn(W, O, s) ==
  (UNION {StampsOf(i) : i \in W}) \cup (UNION {StampsOf(o.item) : o \in O}) \cup AtHand(s)
Afoot == AfootIn(work, opening, surface)

\* The actions somebody has yet to run.
TasksIn(W, O, s) == {i.actions : i \in W} \cup {f.actions : f \in OwedIn(W, O, s)}
Tasks == TasksIn(work, opening, surface)
Does(acts, kinds) == \E k \in 1..Len(acts) : acts[k].kind \in kinds
Pending(kinds) == \E acts \in Tasks : Does(acts, kinds)

-----------------------------------------------------------------------------
FlightTypes ==
  /\ companion \in Companions /\ decisions \in Nat /\ put \in Nat
  /\ work \subseteq Items /\ opening \subseteq [generation : Nat \ {0}, item : Items]
  /\ surface \in Surfaces
WindowTypes ==
  /\ screen \in {"off", "unknown", "doubtful", "seen", "ready"}
  /\ drawn \in BOOLEAN /\ keys \in BOOLEAN
TimerTypes ==
  /\ repairing \in BOOLEAN /\ watching \in BOOLEAN
  /\ chains \in Seq(1..Repairs) /\ looks \in Nat /\ stopping \in Nat
MicrophoneTypes ==
  /\ generation \in Nat /\ capture \in 0..generation /\ failed \in 0..generation
  /\ hears \in Nat /\ hearing \subseteq Nat /\ late \subseteq {"recording_failed"}
BoundTypes == gestures \in Nat /\ reports \in Nat /\ trouble \in Nat
HoldTypes ==
  /\ grip \in [turn : 0..MaxPresses, down : BOOLEAN, talking : BOOLEAN]
  /\ grip.turn + reports <= MaxPresses
  /\ timing \subseteq 1..MaxPresses
  /\ queued \in Seq({"open", "talk", "tap", "cancel", "stop"})
  /\ held \subseteq Accelerators /\ wanted \in Seq(BOOLEAN)

\* A start is run by itself and with nothing to show behind it; only a repair
\* has attempts left.
Alone(i) == Does(i.actions, {"start"}) => ~Decided(i)
Threaded ==
  /\ \A i \in work : Alone(i)
  /\ \A acts \in Tasks : Does(acts, {"start"}) => Len(acts) = 1
  /\ \A o \in opening : ~Decided(o.item) /\ Len(o.item.actions) = 1
  /\ \A f \in Owed : f.kind = "repair" => f.left # 0

InOrder ==
  /\ put <= surface.version /\ surface.version <= decisions
  /\ \A d \in Afoot : /\ d.version \in 1..decisions
                      /\ d.version = decisions => d = Stamp(companion, decisions)
  /\ ~surface.applying => /\ surface.stage = "take" /\ surface.next = NoDecision
                          /\ surface.waiting = <<>>
  /\ surface.next # NoDecision => surface.next.version = surface.version
  /\ surface.stage # "take" => /\ surface.current # NoDecision
                               /\ put <= surface.current.version
                               /\ surface.current.version <= surface.version
  /\ surface.stage = "draw" => put = surface.current.version

\* The newest decision is on its way, or it has been put in full.
NewestGoesOn ==
  \/ \E d \in Afoot : d.version = decisions
  \/ /\ put = decisions
     /\ keys = OnScreen(Posture(companion))
     /\ Textbox(Posture(companion)) => watching

Core == Threaded /\ InOrder /\ NewestGoesOn

OneLook == looks + stopping = (IF watching THEN 1 ELSE 0)

RepairGoesOn == repairing => chains # <<>> \/ \E f \in Owed : f.kind = "repair"

GrabsFollow ==
  /\ held \subseteq Accelerators \ Foreign
  /\ wanted = <<>> => (trouble = 0 => held = (IF keys THEN Accelerators \ Foreign ELSE {}))
  /\ wanted # <<>> => wanted[Len(wanted)] = keys

Flight == FlightTypes /\ Core
Standing == WindowTypes /\ TimerTypes /\ MicrophoneTypes /\ BoundTypes /\ OneLook /\ RepairGoesOn

-----------------------------------------------------------------------------
Mic == {"start", "stop", "discard", "cancel"}

ListeningGoesOn ==
  companion.phase = "listening" =>
    /\ ~Pending({"stop", "discard", "cancel"})
    /\ \/ Pending({"start"}) \/ capture # 0 \/ late # {}
       \/ failed # generation /\ \E o \in opening : o.generation = generation

TranscribingGoesOn ==
  companion.phase = "transcribing" =>
    /\ ~Pending({"discard", "cancel"})
    /\ (Pending({"stop"}) /\ capture # 0) \/ hears \in hearing \/ late # {}

TakeInv == ListeningGoesOn /\ TranscribingGoesOn

-----------------------------------------------------------------------------
(* What the host is asked to do.                                            *)

LEMMA NothingDone == \A kinds : ~Does(<<>>, kinds)
  BY DEF Does

LEMMA OneDone ==
  ASSUME NEW a \in Acts
  PROVE  <<a>> \in Seq(Acts) /\ Len(<<a>>) = 1 /\ \A kinds : Does(<<a>>, kinds) <=> a.kind \in kinds
  BY DEF Does

LEMMA TwoDone ==
  ASSUME NEW a \in Acts, NEW b \in Acts
  PROVE  <<a, b>> \in Seq(Acts) /\ \A kinds : Does(<<a, b>>, kinds) <=> a.kind \in kinds \/ b.kind \in kinds
<1>1. <<a, b>> \in Seq(Acts) /\ Len(<<a, b>>) = 2 /\ <<a, b>>[1] = a /\ <<a, b>>[2] = b  OBVIOUS
<1>2. \A k \in 1..2 : k = 1 \/ k = 2  OBVIOUS
<1> QED  BY <1>1, <1>2 DEF Does

LEMMA ActFits ==
  ASSUME NEW kind \in ActKinds, NEW id \in Nat, NEW x \in Texts \cup {Empty}
  PROVE  Act(kind, id, x) \in Acts /\ Act(kind, id, x).kind = kind
  BY DEF Act, Acts

LEMMA BareActs ==
  /\ Act("start", NoId, Empty) \in Acts /\ Act("start", NoId, Empty).kind = "start"
  /\ Act("stop", NoId, Empty) \in Acts /\ Act("stop", NoId, Empty).kind = "stop"
  /\ Act("discard", NoId, Empty) \in Acts /\ Act("discard", NoId, Empty).kind = "discard"
  /\ Act("cancel", NoId, Empty) \in Acts /\ Act("cancel", NoId, Empty).kind = "cancel"
  /\ Act("clear", NoId, Empty) \in Acts /\ Act("clear", NoId, Empty).kind = "clear"
<1>1. NoId \in Nat /\ Empty \in Texts \cup {Empty}  BY DEF NoId
<1>2. {"start", "stop", "discard", "cancel", "clear"} \subseteq ActKinds  BY DEF ActKinds
<1> QED  BY <1>1, <1>2, ActFits

-----------------------------------------------------------------------------
(* The pill, one change at a time.                                          *)

LEMMA WithoutFits ==
  ASSUME NEW c \in Companions, NEW p \in Phases
  PROVE  Without(c, p) \in Companions /\ Without(c, p).phase = p /\ Without(c, p).blind = c.blind
<1> DEFINE c1 == [c EXCEPT !.phase = p]
           c2 == [c1 EXCEPT !.id = NoId]
           c3 == [c2 EXCEPT !.text = Empty]
           c4 == [c3 EXCEPT !.delivery = "refused"]
           c5 == [c4 EXCEPT !.warned = FALSE]
<1>1. c1 \in Companions  BY DEF Companions
<1>2. c2 \in Companions
  <2> HIDE DEF c1
  <2> QED  BY <1>1 DEF Companions, NoId
<1>3. c3 \in Companions
  <2> HIDE DEF c2
  <2> QED  BY <1>2 DEF Companions
<1>4. c4 \in Companions
  <2> HIDE DEF c3
  <2> QED  BY <1>3 DEF Companions
<1>5. c5 \in Companions
  <2> HIDE DEF c4
  <2> QED  BY <1>4 DEF Companions
<1>6. Without(c, p) = c5  BY DEF Without, Companions
<1>7. c5.phase = p /\ c5.blind = c.blind  BY DEF Companions
<1> HIDE DEF c5
<1> QED  BY <1>5, <1>6, <1>7

LEMMA RetainFits ==
  ASSUME NEW c \in Companions, NEW y \in {"refused", "uncertain"}, NEW w \in BOOLEAN
  PROVE  Retain(c, y, w) \in Companions /\ Retain(c, y, w).phase = "retained"
<1> DEFINE c1 == [c EXCEPT !.phase = "retained"]
           c2 == [c1 EXCEPT !.delivery = y]
           c3 == [c2 EXCEPT !.warned = w]
<1>1. c1 \in Companions  BY DEF Companions, Phases
<1>2. c2 \in Companions
  <2> HIDE DEF c1
  <2> QED  BY <1>1 DEF Companions
<1>3. c3 \in Companions
  <2> HIDE DEF c2
  <2> QED  BY <1>2 DEF Companions
<1>4. Retain(c, y, w) = c3 /\ c3.phase = "retained"  BY DEF Retain, Companions
<1> HIDE DEF c3
<1> QED  BY <1>3, <1>4

LEMMA SendFits ==
  ASSUME NEW c \in Companions, NEW x \in Texts \cup {Empty}, NEW forced \in BOOLEAN
  PROVE  LET d == SendWords(c, x, forced)
         IN  /\ d.companion \in Companions /\ d.companion.phase = "sent"
             /\ d.actions = <<Act("persist", c.id, x), Act("submit", c.id, x)>>
<1> DEFINE y == IF forced THEN "uncertain" ELSE "refused"
           c1 == [c EXCEPT !.phase = "sent"]
           c2 == [c1 EXCEPT !.text = x]
           c3 == [c2 EXCEPT !.warned = FALSE]
           c4 == [c3 EXCEPT !.delivery = y]
<1>0. y \in {"refused", "uncertain"}  OBVIOUS
<1>1. c1 \in Companions  BY DEF Companions, Phases
<1>2. c2 \in Companions
  <2> HIDE DEF c1
  <2> QED  BY <1>1 DEF Companions
<1>3. c3 \in Companions
  <2> HIDE DEF c2
  <2> QED  BY <1>2 DEF Companions
<1>4. c4 \in Companions
  <2> HIDE DEF c3, y
  <2> QED  BY <1>0, <1>3 DEF Companions
<1>5. /\ SendWords(c, x, forced).companion = c4
      /\ SendWords(c, x, forced).actions = <<Act("persist", c.id, x), Act("submit", c.id, x)>>
  BY DEF SendWords, Done, Companions
<1>6. c4.phase = "sent"  BY DEF Companions
<1> HIDE DEF c4
<1> QED  BY <1>4, <1>5, <1>6

LEMMA TranscribedFits ==
  ASSUME NEW c \in Companions, NEW x \in Texts
  PROVE  LET d == Transcribed(c, x)
         IN  /\ d.companion \in Companions /\ d.companion.phase = "editing"
             /\ d.actions = <<Act("persist", c.commands + 1, x)>>
<1> DEFINE n == c.commands + 1
           c1 == [c EXCEPT !.phase = "editing"]
           c2 == [c1 EXCEPT !.id = n]
           c3 == [c2 EXCEPT !.text = x]
           c4 == [c3 EXCEPT !.commands = n]
<1>0. n \in Nat  BY DEF Companions
<1>1. c1 \in Companions  BY DEF Companions, Phases
<1>2. c2 \in Companions
  <2> HIDE DEF c1, n
  <2> QED  BY <1>0, <1>1 DEF Companions
<1>3. c3 \in Companions
  <2> HIDE DEF c2
  <2> QED  BY <1>2 DEF Companions
<1>4. c4 \in Companions
  <2> HIDE DEF c3, n
  <2> QED  BY <1>0, <1>3 DEF Companions
<1>5. x # Empty  BY TextsAssumption
<1>6. /\ Transcribed(c, x).companion = c4
      /\ Transcribed(c, x).actions = <<Act("persist", n, x)>>
  BY <1>5 DEF Transcribed, Done, Companions
<1>7. c4.phase = "editing"  BY DEF Companions
<1> HIDE DEF c4
<1> QED  BY <1>4, <1>6, <1>7

\* What Companion::apply does for a gesture that asks for the pill.
Woken(c) == [c EXCEPT !.blind = FALSE, !.dismissed = FALSE]

LEMMA WokenFits ==
  ASSUME NEW c \in Companions
  PROVE  Woken(c) \in Companions /\ Woken(c).phase = c.phase /\ ~Woken(c).blind
<1> DEFINE c1 == [c EXCEPT !.blind = FALSE]
           c2 == [c1 EXCEPT !.dismissed = FALSE]
<1>1. c1 \in Companions  BY DEF Companions
<1>2. c2 \in Companions
  <2> HIDE DEF c1
  <2> QED  BY <1>1 DEF Companions
<1>3. Woken(c) = c2 /\ c2.phase = c.phase /\ ~c2.blind  BY DEF Woken, Companions
<1> HIDE DEF c2
<1> QED  BY <1>2, <1>3

LEMMA DismissFits ==
  ASSUME NEW c \in Companions, NEW b \in BOOLEAN
  PROVE  LET d == [c EXCEPT !.dismissed = b]
         IN  d \in Companions /\ d.phase = c.phase /\ d.blind = c.blind
  BY DEF Companions

LEMMA CloseFits ==
  ASSUME NEW c \in Companions, NEW keep \in BOOLEAN, NEW actions
  PROVE  /\ Close(c, keep, actions).companion \in Companions
         /\ Close(c, keep, actions).companion.phase = "resting"
         /\ Close(c, keep, actions).actions = actions
<1> DEFINE w == Without(c, "resting")
           b == w.dismissed \/ ~keep
<1>1. w \in Companions /\ w.phase = "resting"
  BY WithoutFits DEF Phases
<1>2. Close(c, keep, actions).companion = [w EXCEPT !.dismissed = b]
      /\ Close(c, keep, actions).actions = actions
  BY Zenon DEF Close, Done
<1>3. b \in BOOLEAN  OBVIOUS
<1> HIDE DEF w, b
<1> QED  BY <1>1, <1>2, <1>3, DismissFits

LEMMA AbandonFits ==
  ASSUME NEW c \in Companions
  PROVE  /\ Abandon(c).companion \in Companions /\ Abandon(c).companion.phase = "resting"
         /\ Abandon(c).actions =
              (CASE c.phase = "listening" -> <<Act("discard", NoId, Empty)>>
                 [] c.phase = "transcribing" -> <<Act("cancel", NoId, Empty)>>
                 [] OTHER -> <<>>)
<1> DEFINE w == Without(c, "resting")
           c1 == [w EXCEPT !.blind = TRUE]
<1>1. w \in Companions /\ w.phase = "resting"
  BY WithoutFits DEF Phases
<1>2. /\ Abandon(c).companion = c1
      /\ Abandon(c).actions = (CASE c.phase = "listening" -> <<Act("discard", NoId, Empty)>>
                                 [] c.phase = "transcribing" -> <<Act("cancel", NoId, Empty)>>
                                 [] OTHER -> <<>>)
  BY Zenon DEF Abandon, Done
<1> HIDE DEF w
<1>3. c1 \in Companions /\ c1.phase = "resting"
  BY <1>1 DEF Companions
<1> HIDE DEF c1
<1> QED  BY <1>1, <1>2, <1>3, Zenon

-----------------------------------------------------------------------------
(* What an event makes of it.                                               *)

\* Nothing that opens the microphone or begins a transcription: the pill keeps
\* its phase, or leaves the one it was in with whatever that asks for.
Quietly(c, d) ==
  /\ d.companion \in Companions /\ d.actions \in Seq(Acts)
  /\ ~Does(d.actions, {"start", "stop"})
  /\ d.companion.phase \in {"listening", "transcribing"} =>
       d.companion.phase = c.phase /\ ~Does(d.actions, Mic)

\* The two activations of a take.
Begins(c, d, from, to, kind) ==
  /\ c.phase \in from /\ d.companion \in Companions
  /\ d.companion.phase = to /\ ~d.companion.blind
  /\ d.actions = <<Act(kind, NoId, Empty)>>
Starts(c, d) == Begins(c, d, {"resting", "failed"}, "listening", "start")
Stops(c, d) == Begins(c, d, {"listening"}, "transcribing", "stop")

\* The gestures, and the events the threads hand on.
Gestures ==
  {Plain(kind) : kind \in {"activate", "escape", "cancel", "reveal", "dismiss", "stop"}}
    \cup {Event("enter", NoId, Text)}
    \cup {Event(kind, id, Empty) : kind \in {"acknowledged", "submission_uncertain"}, id \in Nat}
Voices == {Plain("recording_failed"), Plain("transcription_failed"), Event("transcribed", NoId, Text)}

LEMMA TextFits == Text \in Texts
  BY TextsAssumption DEF Text

LEMMA StaysQuietly == ASSUME NEW c \in Companions PROVE Quietly(c, Done(c, <<>>))
<1>1. Done(c, <<>>).companion = c /\ Done(c, <<>>).actions = <<>> /\ <<>> \in Seq(Acts)
  BY DEF Done
<1> QED  BY <1>1, NothingDone DEF Quietly

LEMMA ChangesQuietly ==
  ASSUME NEW c \in Companions, NEW n \in Companions, n.phase = c.phase
  PROVE  Quietly(c, Done(n, <<>>))
<1>1. Done(n, <<>>).companion = n /\ Done(n, <<>>).actions = <<>> /\ <<>> \in Seq(Acts)
  BY DEF Done
<1> QED  BY <1>1, NothingDone DEF Quietly

LEMMA LeavesQuietly ==
  ASSUME NEW c \in Companions, NEW d, d.companion \in Companions, d.actions \in Seq(Acts),
         d.companion.phase \notin {"listening", "transcribing"}, ~Does(d.actions, {"start", "stop"})
  PROVE  Quietly(c, d)
  BY DEF Quietly

LEMMA ActivateIs ==
  ASSUME NEW c \in Companions
  PROVE  LET d == Apply(c, Plain("activate"))
         IN  Quietly(c, d) \/ Starts(c, d) \/ Stops(c, d)
<1> DEFINE w == Woken(c)
           d == Apply(c, Plain("activate"))
<1>1. w \in Companions /\ w.phase = c.phase /\ ~w.blind
  BY WokenFits
<1>2. d = Activated(w)
  BY DEF Apply, Transition, Plain, Event, Woken
<1> HIDE DEF w, d
<1>4. CASE c.phase \in {"resting", "failed"}
  <2>1. d = Done(Without(w, "listening"), <<Act("start", NoId, Empty)>>)
    BY <1>1, <1>2, <1>4 DEF Activated
  <2>2. Without(w, "listening") \in Companions /\ Without(w, "listening").phase = "listening"
        /\ ~Without(w, "listening").blind
    BY <1>1, WithoutFits DEF Phases
  <2>3. d.companion = Without(w, "listening") /\ d.actions = <<Act("start", NoId, Empty)>>
    BY <2>1 DEF Done
  <2>4. Starts(c, d)  BY <1>4, <2>2, <2>3 DEF Starts, Begins
  <2> QED  BY <2>4 DEF d
<1>5. CASE c.phase = "listening"
  <2>1. d = Done(Without(w, "transcribing"), <<Act("stop", NoId, Empty)>>)
    BY <1>1, <1>2, <1>5 DEF Activated
  <2>2. Without(w, "transcribing") \in Companions /\ Without(w, "transcribing").phase = "transcribing"
        /\ ~Without(w, "transcribing").blind
    BY <1>1, WithoutFits DEF Phases
  <2>3. d.companion = Without(w, "transcribing") /\ d.actions = <<Act("stop", NoId, Empty)>>
    BY <2>1 DEF Done
  <2>4. Stops(c, d)  BY <1>5, <2>2, <2>3 DEF Stops, Begins
  <2> QED  BY <2>4 DEF d
<1>6. CASE c.phase \notin {"resting", "failed", "listening"}
  <2>1. d = Done(w, <<>>)  BY <1>1, <1>2, <1>6 DEF Activated
  <2>2. Quietly(c, d)  BY <1>1, <2>1, ChangesQuietly
  <2> QED  BY <2>2 DEF d
<1> QED  BY <1>4, <1>5, <1>6

LEMMA EscapeIs ==
  ASSUME NEW c \in Companions, NEW keep \in BOOLEAN
  PROVE  Quietly(c, Escaped(c, keep))
<1> DEFINE acts == CASE c.phase = "listening" -> <<Act("discard", NoId, Empty)>>
                     [] c.phase = "transcribing" -> <<Act("cancel", NoId, Empty)>>
                     [] c.phase \in {"editing", "retained"} -> <<Act("forget", c.id, Empty)>>
                     [] OTHER -> <<>>
           d == Escaped(c, keep)
<1>1. acts \in Seq(Acts) /\ ~Does(acts, {"start", "stop"})
  <2>1. Act("forget", c.id, Empty) \in Acts /\ Act("forget", c.id, Empty).kind = "forget"
    BY ActFits DEF Companions, ActKinds
  <2>2. <<>> \in Seq(Acts) /\ ~Does(<<>>, {"start", "stop"})  BY NothingDone
  <2> QED  BY <2>1, <2>2, BareActs, OneDone
<1>2. CASE c.phase \notin {"resting", "sent"}
  <2>1. d = Close(c, keep, acts)
    BY <1>2 DEF Escaped, Companions, Phases
  <2> HIDE DEF acts, d
  <2>2. d.companion \in Companions /\ d.companion.phase = "resting" /\ d.actions = acts
    <3>1. /\ Close(c, keep, acts).companion \in Companions
          /\ Close(c, keep, acts).companion.phase = "resting"
          /\ Close(c, keep, acts).actions = acts
      BY CloseFits
    <3> QED  BY <2>1, <3>1
  <2>3. Quietly(c, d)  BY <1>1, <2>2, LeavesQuietly
  <2> QED  BY <2>3 DEF d
<1>3. CASE c.phase \in {"resting", "sent"}
  <2> DEFINE b == c.dismissed \/ ~keep
             n == [c EXCEPT !.dismissed = b]
  <2>1. d = Done(n, <<>>)
    <3>1. d = Done([c EXCEPT !.dismissed = @ \/ ~keep], <<>>)  BY <1>3 DEF Escaped
    <3> QED  BY <3>1, Zenon
  <2>2. b \in BOOLEAN  OBVIOUS
  <2>3. n \in Companions /\ n.phase = c.phase /\ n.blind = c.blind
    <3> HIDE DEF b
    <3> QED  BY <2>2, DismissFits
  <2> HIDE DEF n, d
  <2>4. Quietly(c, d)  BY <2>1, <2>3, ChangesQuietly
  <2> QED  BY <2>4 DEF d
<1> QED  BY <1>2, <1>3

LEMMA EnterIs ==
  ASSUME NEW c \in Companions
  PROVE  Quietly(c, Apply(c, Event("enter", NoId, Text)))
<1> DEFINE d == Apply(c, Event("enter", NoId, Text))
<1>1. d = Entered(c, Text)
  BY DEF Apply, Transition, Event
<1>2. Text # Empty /\ Text \in Texts  BY TextFits, TextsAssumption
<1>3. \A x \in Texts \cup {Empty}, forced \in BOOLEAN : Quietly(c, SendWords(c, x, forced))
  <2> TAKE x \in Texts \cup {Empty}, forced \in BOOLEAN
  <2>1. /\ Act("persist", c.id, x) \in Acts /\ Act("persist", c.id, x).kind = "persist"
        /\ Act("submit", c.id, x) \in Acts /\ Act("submit", c.id, x).kind = "submit"
    BY ActFits DEF Companions, ActKinds
  <2> DEFINE s == SendWords(c, x, forced)
             acts == <<Act("persist", c.id, x), Act("submit", c.id, x)>>
  <2>2. s.companion \in Companions /\ s.companion.phase = "sent" /\ s.actions = acts
    BY SendFits
  <2>3. acts \in Seq(Acts) /\ ~Does(acts, {"start", "stop"})
    BY <2>1, TwoDone
  <2> HIDE DEF s, acts
  <2>4. Quietly(c, s)  BY <2>2, <2>3, LeavesQuietly
  <2> QED  BY <2>4 DEF s
<1>4. CASE c.phase = "editing" \/ (c.phase = "retained" /\ c.delivery = "refused")
  <2>1. d = SendWords(c, Text, FALSE)  BY <1>1, <1>2, <1>4 DEF Entered
  <2> QED  BY <1>2, <1>3, <2>1
<1>5. CASE c.phase = "retained" /\ c.delivery = "uncertain" /\ c.warned
  <2>1. d = SendWords(c, c.text, TRUE)  BY <1>1, <1>5 DEF Entered
  <2> QED  BY <1>3, <2>1 DEF Companions
<1>6. CASE c.phase = "retained" /\ c.delivery = "uncertain" /\ ~c.warned
  <2>1. d = Done(Retain(c, "uncertain", TRUE), <<>>)  BY <1>1, <1>6 DEF Entered
  <2>2. Retain(c, "uncertain", TRUE) \in Companions /\ Retain(c, "uncertain", TRUE).phase = "retained"
    BY RetainFits
  <2> HIDE DEF d
  <2>3. d.companion = Retain(c, "uncertain", TRUE) /\ d.actions = <<>> /\ <<>> \in Seq(Acts)
    BY <2>1 DEF Done
  <2>4. Quietly(c, d)  BY <2>2, <2>3, NothingDone, LeavesQuietly
  <2> QED  BY <2>4 DEF d
<1>7. CASE c.phase \notin {"editing", "retained"}
  <2>1. d = Done(c, <<>>)  BY <1>1, <1>7 DEF Entered
  <2> QED  BY <2>1, StaysQuietly
<1> QED  BY <1>4, <1>5, <1>6, <1>7 DEF Companions

LEMMA AnswersAreQuiet ==
  ASSUME NEW c \in Companions, NEW id \in Nat
  PROVE  /\ Quietly(c, Apply(c, Event("acknowledged", id, Empty)))
         /\ Quietly(c, Apply(c, Event("submission_uncertain", id, Empty)))
<1>1. Quietly(c, Acknowledged(c, id))
  <2>1. CASE c.phase \in {"sent", "retained"} /\ c.id = id
    <3> DEFINE d == Done(Without(c, "resting"), <<Act("clear", NoId, Empty)>>)
    <3>1. Without(c, "resting") \in Companions /\ Without(c, "resting").phase = "resting"
      BY WithoutFits DEF Phases
    <3>2. d.companion = Without(c, "resting") /\ d.actions = <<Act("clear", NoId, Empty)>>
      BY DEF Done
    <3>3. d.actions \in Seq(Acts) /\ ~Does(d.actions, {"start", "stop"})
      BY <3>2, BareActs, OneDone
    <3> HIDE DEF d
    <3>4. Quietly(c, d)  BY <3>1, <3>2, <3>3, LeavesQuietly
    <3> QED  BY <2>1, <3>4 DEF Acknowledged, d
  <2> QED  BY <2>1, StaysQuietly DEF Acknowledged
<1>2. Quietly(c, Unconfirmed(c, id))
  <2>1. CASE c.phase = "sent" /\ c.id = id
    <3> DEFINE d == Done(Retain(c, "uncertain", FALSE), <<>>)
    <3>1. /\ Retain(c, "uncertain", FALSE) \in Companions
          /\ Retain(c, "uncertain", FALSE).phase = "retained"
      BY RetainFits
    <3>2. d.companion = Retain(c, "uncertain", FALSE) /\ d.actions = <<>> /\ <<>> \in Seq(Acts)
      BY DEF Done
    <3> HIDE DEF d
    <3>4. Quietly(c, d)  BY <3>1, <3>2, NothingDone, LeavesQuietly
    <3> QED  BY <2>1, <3>4 DEF Unconfirmed, d
  <2> QED  BY <2>1, StaysQuietly DEF Unconfirmed
<1>3. /\ Apply(c, Event("acknowledged", id, Empty)) = Acknowledged(c, id)
      /\ Apply(c, Event("submission_uncertain", id, Empty)) = Unconfirmed(c, id)
  BY DEF Apply, Transition, Event
<1> QED  BY <1>1, <1>2, <1>3

LEMMA StopIsQuiet == ASSUME NEW c \in Companions PROVE Quietly(c, Apply(c, Plain("stop")))
<1>1. Apply(c, Plain("stop")) = Stopped(c)
  BY DEF Apply, Transition, Plain, Event
<1>2. CASE c.working
  <2> DEFINE n == c.commands + 1
             m == [c EXCEPT !.commands = n]
             acts == <<Act("abort", n, Empty)>>
  <2>1. Stopped(c).companion = m /\ Stopped(c).actions = acts
    BY <1>2 DEF Stopped, Done
  <2>2. n \in Nat  BY DEF Companions
  <2>3. acts \in Seq(Acts) /\ ~Does(acts, Mic)  /\ ~Does(acts, {"start", "stop"})
    <3> HIDE DEF n
    <3>1. Act("abort", n, Empty) \in Acts /\ Act("abort", n, Empty).kind = "abort"
      BY <2>2, ActFits DEF ActKinds
    <3> QED  BY <3>1, OneDone DEF Mic
  <2>4. m \in Companions /\ m.phase = c.phase /\ m.blind = c.blind
    <3> HIDE DEF n
    <3> QED  BY <2>2 DEF Companions
  <2> HIDE DEF m, acts
  <2> QED  BY <1>1, <2>1, <2>3, <2>4 DEF Quietly
<1>3. CASE ~c.working
  BY <1>1, <1>3, StaysQuietly DEF Stopped
<1> QED  BY <1>2, <1>3

\* Every gesture, as far as the microphone goes.
LEMMA GestureIs ==
  ASSUME NEW c \in Companions, NEW e \in Gestures
  PROVE  LET d == Apply(c, e)
         IN  Quietly(c, d) \/ Starts(c, d) \/ Stops(c, d)
<1>1. CASE e = Plain("activate")  BY <1>1, ActivateIs
<1>2. CASE e = Plain("escape") \/ e = Plain("cancel")
  <2>1. Apply(c, Plain("escape")) = Escaped(c, FALSE)
    BY DEF Apply, Transition, Plain, Event
  <2>2. Apply(c, Plain("cancel")) = Escaped(c, TRUE)
    BY DEF Apply, Transition, Plain, Event
  <2> QED  BY <1>2, <2>1, <2>2, EscapeIs
<1>3. CASE e = Plain("reveal")
  <2>1. Apply(c, e) = Done(Woken(c), <<>>)
    BY <1>3 DEF Apply, Transition, Plain, Event, Woken
  <2> QED  BY <2>1, WokenFits, ChangesQuietly
<1>4. CASE e = Plain("dismiss")
  <2> DEFINE b == c.dismissed \/ c.phase \in {"resting", "sent"}
             n == [c EXCEPT !.dismissed = b]
  <2>1. Apply(c, e) = Done(n, <<>>)
    <3>1. Apply(c, e) = Done([c EXCEPT !.dismissed = @ \/ c.phase \in {"resting", "sent"}], <<>>)
      BY <1>4 DEF Apply, Transition, Plain, Event
    <3> QED  BY <3>1, Zenon
  <2>2. b \in BOOLEAN  BY DEF Companions
  <2>3. n \in Companions /\ n.phase = c.phase /\ n.blind = c.blind
    <3> HIDE DEF b
    <3> QED  BY <2>2, DismissFits
  <2> HIDE DEF n
  <2> QED  BY <2>1, <2>3, ChangesQuietly
<1>5. CASE e = Plain("stop")  BY <1>5, StopIsQuiet
<1>6. CASE e = Event("enter", NoId, Text)  BY <1>6, EnterIs
<1>7. CASE \E id \in Nat : e = Event("acknowledged", id, Empty) \/ e = Event("submission_uncertain", id, Empty)
  BY <1>7, AnswersAreQuiet
<1> QED  BY <1>1, <1>2, <1>3, <1>4, <1>5, <1>6, <1>7 DEF Gestures

\* What the microphone and the transcriber report.
LEMMA FailureIs ==
  ASSUME NEW c \in Companions
  PROVE  LET d == Apply(c, Plain("recording_failed"))
         IN  Quietly(c, d) /\ d.companion.phase \notin {"listening", "transcribing"}
<1> DEFINE d == Apply(c, Plain("recording_failed"))
           acts == IF c.phase = "listening" THEN <<Act("discard", NoId, Empty)>>
                                            ELSE <<Act("cancel", NoId, Empty)>>
<1>1. d = MicrophoneFailed(c)
  BY DEF Apply, Transition, Plain, Event
<1>2. CASE c.phase \in {"listening", "transcribing"}
  <2>1. d = Done(Without(c, "failed"), acts)
    BY <1>1, <1>2 DEF MicrophoneFailed
  <2>2. Without(c, "failed") \in Companions /\ Without(c, "failed").phase = "failed"
    BY WithoutFits DEF Phases
  <2>3. acts \in Seq(Acts) /\ ~Does(acts, {"start", "stop"})
    BY BareActs, OneDone
  <2> HIDE DEF d, acts
  <2>4. d.companion = Without(c, "failed") /\ d.actions = acts  BY <2>1 DEF Done
  <2>5. Quietly(c, d)  BY <2>2, <2>3, <2>4, LeavesQuietly
  <2> QED  BY <2>2, <2>4, <2>5 DEF d
<1>3. CASE c.phase \notin {"listening", "transcribing"}
  <2>1. d = Done(c, <<>>)  BY <1>1, <1>3 DEF MicrophoneFailed
  <2> HIDE DEF d
  <2>2. d.companion = c  BY <2>1 DEF Done
  <2> QED  BY <1>3, <2>1, <2>2, StaysQuietly DEF d
<1> QED  BY <1>2, <1>3

LEMMA WordsAre ==
  ASSUME NEW c \in Companions, NEW e \in {Event("transcribed", NoId, Text), Plain("transcription_failed")}
  PROVE  LET d == Apply(c, e)
         IN  Quietly(c, d) /\ d.companion.phase # "transcribing"
<1> DEFINE d == Apply(c, e)
<1>1. CASE c.phase # "transcribing"
  <2>1. d = Done(c, <<>>)
    <3>1. CASE e = Event("transcribed", NoId, Text)
      BY <1>1, <3>1 DEF Apply, Transition, Event
    <3>2. CASE e = Plain("transcription_failed")
      BY <1>1, <3>2 DEF Apply, Transition, Event, Plain
    <3> QED  BY <3>1, <3>2
  <2> HIDE DEF d
  <2>2. d.companion = c  BY <2>1 DEF Done
  <2> QED  BY <1>1, <2>1, <2>2, StaysQuietly DEF d
<1>2. CASE c.phase = "transcribing" /\ e = Plain("transcription_failed")
  <2>1. d = Done(Without(c, "failed"), <<>>)
    BY <1>2 DEF Apply, Transition, Event, Plain
  <2>2. Without(c, "failed") \in Companions /\ Without(c, "failed").phase = "failed"
    BY WithoutFits DEF Phases
  <2> HIDE DEF d
  <2>3. d.companion = Without(c, "failed") /\ d.actions = <<>> /\ <<>> \in Seq(Acts)
    BY <2>1 DEF Done
  <2>4. Quietly(c, d)  BY <2>2, <2>3, NothingDone, LeavesQuietly
  <2> QED  BY <2>2, <2>3, <2>4 DEF d
<1>3. CASE c.phase = "transcribing" /\ e = Event("transcribed", NoId, Text)
  <2>1. d = Transcribed(c, Text)
    BY <1>3 DEF Apply, Transition, Event
  <2> DEFINE n == c.commands + 1
             acts == <<Act("persist", n, Text)>>
  <2>2. Transcribed(c, Text).companion \in Companions /\ Transcribed(c, Text).companion.phase = "editing"
        /\ Transcribed(c, Text).actions = acts
    BY TextFits, TranscribedFits
  <2>3. n \in Nat  BY DEF Companions
  <2>4. acts \in Seq(Acts) /\ ~Does(acts, {"start", "stop"})
    <3> HIDE DEF n
    <3>1. Act("persist", n, Text) \in Acts /\ Act("persist", n, Text).kind = "persist"
      BY <2>3, TextFits, ActFits DEF ActKinds
    <3> QED  BY <3>1, OneDone
  <2> HIDE DEF d, acts
  <2>5. d.companion \in Companions /\ d.companion.phase = "editing" /\ d.actions = acts
    BY <2>1, <2>2
  <2>6. Quietly(c, d)  BY <2>4, <2>5, LeavesQuietly
  <2> QED  BY <2>5, <2>6 DEF d
<1> QED  BY <1>1, <1>2, <1>3

LEMMA AbandonIs ==
  ASSUME NEW c \in Companions
  PROVE  Quietly(c, Abandon(c)) /\ Abandon(c).companion.phase = "resting"
<1> DEFINE acts == CASE c.phase = "listening" -> <<Act("discard", NoId, Empty)>>
                     [] c.phase = "transcribing" -> <<Act("cancel", NoId, Empty)>>
                     [] OTHER -> <<>>
<1>1. acts \in Seq(Acts) /\ ~Does(acts, {"start", "stop"})
  <2>1. <<>> \in Seq(Acts) /\ ~Does(<<>>, {"start", "stop"})  BY NothingDone
  <2> QED  BY <2>1, BareActs, OneDone
<1>2. /\ Abandon(c).companion \in Companions /\ Abandon(c).companion.phase = "resting"
      /\ Abandon(c).actions = acts
  BY AbandonFits
<1> HIDE DEF acts
<1> QED  BY <1>1, <1>2, LeavesQuietly

LEMMA ReportIs ==
  ASSUME NEW c \in Companions,
         NEW n \in {[c EXCEPT !.working = ~@], ReportTrouble(c)}
  PROVE  Quietly(c, Done(n, <<>>))
<1>1. CASE n = [c EXCEPT !.working = ~@]
  <2> DEFINE b == ~c.working
             m == [c EXCEPT !.working = b]
  <2>1. n = m  BY <1>1, Zenon
  <2>2. m \in Companions /\ m.phase = c.phase /\ m.blind = c.blind
    <3>1. b \in BOOLEAN  OBVIOUS
    <3> HIDE DEF b
    <3> QED  BY <3>1 DEF Companions
  <2> HIDE DEF m
  <2> QED  BY <2>1, <2>2, ChangesQuietly
<1>2. CASE n = ReportTrouble(c)
  <2>1. CASE c.phase = "resting"
    <3> DEFINE d == Done(n, <<>>)
    <3>1. n \in Companions /\ n.phase = "failed"
      BY <1>2, <2>1, WithoutFits DEF ReportTrouble, Phases
    <3>2. d.companion = n /\ d.actions = <<>> /\ <<>> \in Seq(Acts)  BY DEF Done
    <3> HIDE DEF d
    <3>3. Quietly(c, d)  BY <3>1, <3>2, NothingDone, LeavesQuietly
    <3> QED  BY <3>3 DEF d
  <2>2. CASE c.phase # "resting"
    BY <1>2, <2>2, StaysQuietly DEF ReportTrouble
  <2> QED  BY <2>1, <2>2
<1> QED  BY <1>1, <1>2

-----------------------------------------------------------------------------
(* Threads that come, go and move on.                                       *)

LEMMA OwedIs ==
  ASSUME NEW W, NEW O, NEW s, NEW f
  PROVE  f \in OwedIn(W, O, s) <=> \/ \E i \in W : f \in Owing(i)
                                   \/ \E o \in O : f \in Owing(o.item)
                                   \/ f \in HeldBy(s)
  BY DEF OwedIn

LEMMA AfootIs ==
  ASSUME NEW W, NEW O, NEW s, NEW d
  PROVE  d \in AfootIn(W, O, s) <=> \/ \E i \in W : d \in StampsOf(i)
                                    \/ \E o \in O : d \in StampsOf(o.item)
                                    \/ d \in AtHand(s)
  BY DEF AfootIn

LEMMA TasksAre ==
  ASSUME NEW W, NEW O, NEW s, NEW acts
  PROVE  acts \in TasksIn(W, O, s) <=> \/ \E i \in W : acts = i.actions
                                       \/ \E f \in OwedIn(W, O, s) : acts = f.actions
  BY DEF TasksIn

LEMMA OwingIs ==
  ASSUME NEW i \in Items
  PROVE  /\ Owing(i) \subseteq Followers /\ StampsOf(i) \subseteq Decisions
         /\ \A f : f \in Owing(i) <=> \/ Decided(i) /\ f = i.follower
                                      \/ \E k \in 1..Len(i.followers) : f = i.followers[k]
         /\ \A d : d \in StampsOf(i) <=> Decided(i) /\ d = i.decision
<1>1. i.follower \in Followers /\ i.followers \in Seq(Followers) /\ i.decision \in Decisions
  BY DEF Items
<1>2. \A k \in 1..Len(i.followers) : i.followers[k] \in Followers  BY <1>1
<1> QED  BY <1>1, <1>2 DEF Owing, StampsOf

\* A thread that is the same one further on.
SameThread(i, b) ==
  /\ Owing(b) = Owing(i) /\ StampsOf(b) = StampsOf(i)
  /\ Over(b) => Owing(b) = {} /\ StampsOf(b) = {} /\ b.actions = <<>>

LEMMA BehindIs ==
  ASSUME NEW i \in Items, NEW b \in Items,
         b.decision = i.decision, b.follower = i.follower, b.followers = i.followers
  PROVE  SameThread(i, b)
<1>1. Owing(b) = Owing(i) /\ StampsOf(b) = StampsOf(i)
  BY DEF Owing, StampsOf, Decided
<1>2. ASSUME Over(b) PROVE Owing(b) = {} /\ StampsOf(b) = {} /\ b.actions = <<>>
  <2>1. b.actions = <<>> /\ ~Decided(b) /\ b.followers = <<>>  BY <1>2 DEF Over, Decided
  <2>2. Len(b.followers) = 0  BY <2>1
  <2>3. \A f : f \notin Owing(b)  BY <2>1, <2>2, OwingIs
  <2>4. \A d : d \notin StampsOf(b)  BY <2>1, OwingIs
  <2> QED  BY <2>1, <2>3, <2>4
<1> QED  BY <1>1, <1>2 DEF SameThread

\* What is on its way when a thread has moved on.
SameFlight(V, P, W, O, s) ==
  OwedIn(V, P, s) = OwedIn(W, O, s) /\ AfootIn(V, P, s) = AfootIn(W, O, s)

\* The tasks of one flight are those of another, but for these.
TasksBut(V, P, W, O, s, gone, come) ==
  /\ \A acts \in TasksIn(V, P, s) : acts \in TasksIn(W, O, s) \/ acts = come
  /\ \A acts \in TasksIn(W, O, s) : acts \in TasksIn(V, P, s) \/ acts = gone
  /\ come \in TasksIn(V, P, s) \/ come = <<>>

LEMMA SameTasks ==
  ASSUME NEW W, NEW O, NEW V, NEW P, NEW s, NEW gone, NEW come,
         OwedIn(V, P, s) = OwedIn(W, O, s),
         \A v \in V : v \in W \/ v.actions = come,
         \A w \in W : w \in V \/ w.actions = gone,
         (\E v \in V : v.actions = come) \/ come = <<>>
  PROVE  TasksBut(V, P, W, O, s, gone, come)
<1>1. \A acts \in TasksIn(V, P, s) : acts \in TasksIn(W, O, s) \/ acts = come
  <2> TAKE acts \in TasksIn(V, P, s)
  <2>1. (\E v \in V : acts = v.actions) \/ (\E f \in OwedIn(V, P, s) : acts = f.actions)
    BY TasksAre
  <2> QED  BY <2>1, TasksAre
<1>2. \A acts \in TasksIn(W, O, s) : acts \in TasksIn(V, P, s) \/ acts = gone
  <2> TAKE acts \in TasksIn(W, O, s)
  <2>1. (\E w \in W : acts = w.actions) \/ (\E f \in OwedIn(W, O, s) : acts = f.actions)
    BY TasksAre
  <2> QED  BY <2>1, TasksAre
<1>3. come \in TasksIn(V, P, s) \/ come = <<>>  BY TasksAre
<1> QED  BY <1>1, <1>2, <1>3 DEF TasksBut

LEMMA MovedOn ==
  ASSUME NEW W, NEW O, NEW s, NEW i \in W, NEW b, SameThread(i, b), NEW V,
         V = (W \ {i}) \cup (IF Over(b) THEN {} ELSE {b})
  PROVE  SameFlight(V, O, W, O, s) /\ TasksBut(V, O, W, O, s, i.actions, b.actions)
<1>1. \A v \in V : v \in W \/ v = b  OBVIOUS
<1>2. \A w \in W : w \in V \/ w = i  OBVIOUS
<1>3. b \in V \/ Over(b)  OBVIOUS
<1>4. \A f : f \in OwedIn(V, O, s) <=> f \in OwedIn(W, O, s)
  <2> TAKE f
  <2>1. (\E v \in V : f \in Owing(v)) <=> (\E w \in W : f \in Owing(w))
    BY <1>1, <1>2, <1>3 DEF SameThread
  <2> QED  BY <2>1, OwedIs
<1>5. \A d : d \in AfootIn(V, O, s) <=> d \in AfootIn(W, O, s)
  <2> TAKE d
  <2>1. (\E v \in V : d \in StampsOf(v)) <=> (\E w \in W : d \in StampsOf(w))
    BY <1>1, <1>2, <1>3 DEF SameThread
  <2> QED  BY <2>1, AfootIs
<1>6. OwedIn(V, O, s) = OwedIn(W, O, s) /\ AfootIn(V, O, s) = AfootIn(W, O, s)
  BY <1>4, <1>5
<1>7. b.actions = <<>> \/ \E v \in V : v.actions = b.actions
  BY <1>3 DEF SameThread
<1> QED  BY <1>1, <1>2, <1>6, <1>7, SameTasks DEF SameFlight

LEMMA GoesOpening ==
  ASSUME NEW W, NEW O, NEW s, NEW i \in W, NEW o, o.item = i
  PROVE  /\ SameFlight(W \ {i}, O \cup {o}, W, O, s)
         /\ TasksBut(W \ {i}, O \cup {o}, W, O, s, i.actions, <<>>)
<1> DEFINE V == W \ {i}
           P == O \cup {o}
<1>4. \A f : f \in OwedIn(V, P, s) <=> f \in OwedIn(W, O, s)
  <2> TAKE f
  <2>1. (\E v \in V : f \in Owing(v)) \/ (\E p \in P : f \in Owing(p.item))
          <=> (\E w \in W : f \in Owing(w)) \/ (\E p \in O : f \in Owing(p.item))
    OBVIOUS
  <2> QED  BY <2>1, OwedIs
<1>5. \A d : d \in AfootIn(V, P, s) <=> d \in AfootIn(W, O, s)
  <2> TAKE d
  <2>1. (\E v \in V : d \in StampsOf(v)) \/ (\E p \in P : d \in StampsOf(p.item))
          <=> (\E w \in W : d \in StampsOf(w)) \/ (\E p \in O : d \in StampsOf(p.item))
    OBVIOUS
  <2> QED  BY <2>1, AfootIs
<1>6. OwedIn(V, P, s) = OwedIn(W, O, s) /\ AfootIn(V, P, s) = AfootIn(W, O, s)
  BY <1>4, <1>5
<1>7. (\A v \in V : v \in W \/ v.actions = <<>>) /\ (\A w \in W : w \in V \/ w.actions = i.actions)
  OBVIOUS
<1> HIDE DEF V, P
<1>8. TasksBut(V, P, W, O, s, i.actions, <<>>)  BY <1>6, <1>7, SameTasks
<1> QED  BY <1>6, <1>8 DEF SameFlight, V, P

LEMMA ComesBack ==
  ASSUME NEW W, NEW O, NEW s, NEW o \in O, NEW b, SameThread(o.item, b), NEW V,
         V = W \cup (IF Over(b) THEN {} ELSE {b})
  PROVE  /\ SameFlight(V, O \ {o}, W, O, s)
         /\ TasksBut(V, O \ {o}, W, O, s, <<>>, b.actions)
<1> DEFINE P == O \ {o}
<1>3. b \in V \/ Over(b)  OBVIOUS
<1>0. \A v \in V : v \in W \/ v = b  OBVIOUS
<1>4. \A f : f \in OwedIn(V, P, s) <=> f \in OwedIn(W, O, s)
  <2> TAKE f
  <2>1. (\E v \in V : f \in Owing(v)) \/ (\E p \in P : f \in Owing(p.item))
          <=> (\E w \in W : f \in Owing(w)) \/ (\E p \in O : f \in Owing(p.item))
    BY <1>0, <1>3 DEF SameThread
  <2> QED  BY <2>1, OwedIs
<1>5. \A d : d \in AfootIn(V, P, s) <=> d \in AfootIn(W, O, s)
  <2> TAKE d
  <2>1. (\E v \in V : d \in StampsOf(v)) \/ (\E p \in P : d \in StampsOf(p.item))
          <=> (\E w \in W : d \in StampsOf(w)) \/ (\E p \in O : d \in StampsOf(p.item))
    BY <1>0, <1>3 DEF SameThread
  <2> QED  BY <2>1, AfootIs
<1>6. OwedIn(V, P, s) = OwedIn(W, O, s) /\ AfootIn(V, P, s) = AfootIn(W, O, s)
  BY <1>4, <1>5
<1>7. (\A v \in V : v \in W \/ v.actions = b.actions) /\ (\A w \in W : w \in V)
      /\ (b.actions = <<>> \/ \E v \in V : v.actions = b.actions)
  BY <1>0, <1>3 DEF SameThread
<1> HIDE DEF P
<1>8. TasksBut(V, P, W, O, s, <<>>, b.actions)  BY <1>6, <1>7, SameTasks
<1> QED  BY <1>6, <1>8 DEF SameFlight, P

\* One thread more.
MoreBy(V, W, O, s, z) ==
  /\ OwedIn(V, O, s) = OwedIn(W, O, s) \cup Owing(z)
  /\ AfootIn(V, O, s) = AfootIn(W, O, s) \cup StampsOf(z)
  /\ \A acts : acts \in TasksIn(V, O, s) <=>
       acts \in TasksIn(W, O, s) \/ acts = z.actions \/ \E f \in Owing(z) : acts = f.actions

LEMMA ThreadMore ==
  ASSUME NEW W, NEW V, NEW O, NEW s, NEW z, V = W \cup {z}
  PROVE  MoreBy(V, W, O, s, z)
<1>1. \A f : f \in OwedIn(V, O, s) <=> f \in OwedIn(W, O, s) \/ f \in Owing(z)
  BY OwedIs
<1>2. \A d : d \in AfootIn(V, O, s) <=> d \in AfootIn(W, O, s) \/ d \in StampsOf(z)
  BY AfootIs
<1>3. \A acts : acts \in TasksIn(V, O, s) <=>
        acts \in TasksIn(W, O, s) \/ acts = z.actions \/ \E f \in Owing(z) : acts = f.actions
  <2> TAKE acts
  <2>1. acts \in TasksIn(V, O, s) <=> \/ \E i \in V : acts = i.actions
                                      \/ \E f \in OwedIn(V, O, s) : acts = f.actions
    BY TasksAre
  <2>2. acts \in TasksIn(W, O, s) <=> \/ \E i \in W : acts = i.actions
                                      \/ \E f \in OwedIn(W, O, s) : acts = f.actions
    BY TasksAre
  <2>3. (\E i \in V : acts = i.actions) <=> (\E i \in W : acts = i.actions) \/ acts = z.actions
    OBVIOUS
  <2>4. (\E f \in OwedIn(V, O, s) : acts = f.actions) <=>
          (\E f \in OwedIn(W, O, s) : acts = f.actions) \/ \E f \in Owing(z) : acts = f.actions
    BY <1>1
  <2> QED  BY <2>1, <2>2, <2>3, <2>4
<1> QED  BY <1>1, <1>2, <1>3 DEF MoreBy

-----------------------------------------------------------------------------
(* A step of the threads, and one that decides.                             *)

LEMMA PostureFits == \A c : Posture(c) \in Postures
  BY DEF Posture, Postures

LEMMA StampFits ==
  ASSUME NEW c \in Companions, NEW v \in Nat
  PROVE  /\ Stamp(c, v) \in Decisions /\ Stamp(c, v).version = v
         /\ Stamp(c, v).posture = Posture(c)
         /\ v # 0 => Stamp(c, v) # NoDecision
<1>1. ShowsRecording(c) \in BOOLEAN  BY DEF ShowsRecording
<1>2. Stamp(c, v) \in Decisions /\ Stamp(c, v).version = v /\ Stamp(c, v).posture = Posture(c)
  BY <1>1, PostureFits DEF Stamp, Decisions
<1>3. NoDecision.version = 0  BY DEF NoDecision
<1> QED  BY <1>2, <1>3

\* A thread moves on, or goes to the recorder and comes back.
LEMMA PassingKeeps ==
  ASSUME Core,
         UNCHANGED <<companion, decisions, surface, put, keys, watching>>,
         SameFlight(work', opening', work, opening, surface),
         NEW gone, NEW come, TasksBut(work', opening', work, opening, surface, gone, come),
         Does(come, {"start"}) => Len(come) = 1,
         \A i \in work' : Alone(i),
         \A o \in opening' : ~Decided(o.item) /\ Len(o.item.actions) = 1
  PROVE  Core' /\ Owed' = Owed
<1>1. Owed' = Owed /\ Afoot' = Afoot
  BY DEF SameFlight, Owed, Afoot
<1>2. \A acts \in Tasks' : acts \in Tasks \/ acts = come
  BY DEF TasksBut, Tasks
<1>3. Threaded'
  <2>1. (\A i \in work : Alone(i))'  BY DEF Alone
  <2>2. (\A acts \in Tasks : Does(acts, {"start"}) => Len(acts) = 1)'
    BY <1>2 DEF Core, Threaded
  <2>3. (\A o \in opening : ~Decided(o.item) /\ Len(o.item.actions) = 1)'
    BY DEF Decided
  <2>4. (\A f \in Owed : f.kind = "repair" => f.left # 0)'
    BY <1>1 DEF Core, Threaded
  <2> QED  BY <2>1, <2>2, <2>3, <2>4 DEF Threaded
<1>4. InOrder'
  BY <1>1 DEF Core, InOrder
<1>5. NewestGoesOn'
  BY <1>1 DEF Core, NewestGoesOn
<1> QED  BY <1>1, <1>3, <1>4, <1>5 DEF Core

\* What a decision leaves of the threads that were there.
RestFits(rest) ==
  /\ rest \subseteq Items
  /\ OwedIn(rest, opening, surface) \subseteq Owed
  /\ AfootIn(rest, opening, surface) \subseteq Afoot
  /\ \A i \in rest : Alone(i)
  /\ \A acts \in TasksIn(rest, opening, surface) : Does(acts, {"start"}) => Len(acts) = 1

LEMMA AllTheRest == ASSUME Core, FlightTypes PROVE RestFits(work)
  BY DEF RestFits, Core, Threaded, FlightTypes, Owed, Afoot, Tasks

\* The thread a decision starts.
Messenger(z, c, v) ==
  /\ z \in Items /\ z.decision = Stamp(c, v) /\ z.followers = <<>>
  /\ ~Does(z.actions, {"start"})
  /\ Does(z.follower.actions, {"start"}) => Len(z.follower.actions) = 1
  /\ z.follower.kind = "repair" => z.follower.left # 0

LEMMA DecidingKeeps ==
  ASSUME Core, FlightTypes, companion' \in Companions, NEW rest, RestFits(rest),
         NEW z, Messenger(z, companion', decisions + 1),
         work' = rest \cup {z}, decisions' = decisions + 1,
         UNCHANGED <<opening, surface, put>>
  PROVE  /\ Core'
         /\ Owed' = OwedIn(rest, opening, surface) \cup {z.follower}
         /\ \A acts : acts \in Tasks' <=> \/ acts \in TasksIn(rest, opening, surface)
                                           \/ acts = z.actions \/ acts = z.follower.actions
<1> DEFINE d == Stamp(companion', decisions + 1)
<1>0. decisions \in Nat /\ decisions + 1 \in Nat /\ decisions + 1 # 0
  BY DEF FlightTypes
<1>1. d \in Decisions /\ d.version = decisions + 1 /\ d # NoDecision
  BY <1>0, StampFits
<1>2. z \in Items /\ z.decision = d /\ z.followers = <<>> /\ Decided(z)
  BY <1>1 DEF Messenger, Decided
<1>3. \A f : f \in Owing(z) <=> f = z.follower
  <2>1. Len(z.followers) = 0  BY <1>2
  <2>2. \A f : f \in Owing(z) <=> \/ f = z.follower
                                   \/ \E k \in 1..0 : f = z.followers[k]
    BY <1>2, <2>1, OwingIs
  <2> QED  BY <2>2
<1>4. \A e : e \in StampsOf(z) <=> e = d
  BY <1>2, OwingIs
<1> HIDE DEF d
<1>5. /\ Owed' = OwedIn(rest, opening, surface) \cup Owing(z)
      /\ Afoot' = AfootIn(rest, opening, surface) \cup StampsOf(z)
      /\ \A acts : acts \in Tasks' <=>
              \/ acts \in TasksIn(rest, opening, surface)
              \/ acts = z.actions \/ \E f \in Owing(z) : acts = f.actions
  <2>1. MoreBy(work', rest, opening, surface, z)
    BY ThreadMore
  <2>2. /\ Owed' = OwedIn(work', opening, surface) /\ Afoot' = AfootIn(work', opening, surface)
        /\ Tasks' = TasksIn(work', opening, surface)
    BY DEF Owed, Afoot, Tasks
  <2> QED  BY <2>1, <2>2 DEF MoreBy
<1>6. Owed' = OwedIn(rest, opening, surface) \cup {z.follower}  BY <1>3, <1>5
<1>7. \A acts : acts \in Tasks' <=> \/ acts \in TasksIn(rest, opening, surface)
                                    \/ acts = z.actions \/ acts = z.follower.actions
  BY <1>3, <1>5
<1>8. \A e : e \in Afoot' => e \in Afoot \/ e = d
  BY <1>4, <1>5 DEF RestFits
<1>9. Threaded'
  <2>1. (\A i \in work : Alone(i))'
    <3>1. Alone(z)  BY DEF Alone, Messenger
    <3>2. \A i \in work' : Alone(i)  BY <3>1 DEF RestFits
    <3> QED  BY <3>2 DEF Alone
  <2>2. (\A acts \in Tasks : Does(acts, {"start"}) => Len(acts) = 1)'
    BY <1>7 DEF RestFits, Messenger
  <2>3. (\A o \in opening : ~Decided(o.item) /\ Len(o.item.actions) = 1)'
    BY DEF Core, Threaded, Decided
  <2>4. (\A f \in Owed : f.kind = "repair" => f.left # 0)'
    BY <1>6 DEF Core, Threaded, RestFits, Messenger
  <2> QED  BY <2>1, <2>2, <2>3, <2>4 DEF Threaded
<1>10. InOrder'
  <2>1. (\A e \in Afoot : /\ e.version \in 1..decisions
                          /\ e.version = decisions => e = Stamp(companion, decisions))'
    <3> SUFFICES ASSUME NEW e \in Afoot'
                 PROVE  /\ e.version \in 1..(decisions + 1)
                        /\ e.version = decisions + 1 => e = d
      BY DEF d
    <3>1. CASE e = d  BY <1>0, <1>1, <3>1
    <3>2. CASE e \in Afoot
      <4>1. e.version \in 1..decisions  BY <3>2 DEF Core, InOrder
      <4> QED  BY <1>0, <4>1
    <3> QED  BY <1>8, <3>1, <3>2
  <2>2. put' <= surface'.version /\ surface'.version <= decisions'
    <3>1. surface.version \in Nat  BY DEF FlightTypes, Surfaces
    <3> QED  BY <1>0, <3>1 DEF Core, InOrder
  <2> QED  BY <2>1, <2>2 DEF Core, InOrder
<1>11. NewestGoesOn'
  <2>1. d \in Afoot' /\ d.version = decisions'  BY <1>1, <1>4, <1>5
  <2> QED  BY <2>1 DEF NewestGoesOn
<1> QED  BY <1>6, <1>7, <1>9, <1>10, <1>11 DEF Core

-----------------------------------------------------------------------------
(* The threads the code starts.                                             *)

LEMMA ItemFits ==
  ASSUME NEW acts \in Seq(Acts), NEW e \in Decisions, NEW f \in Followers,
         NEW fs \in Seq(Followers), NEW ok \in BOOLEAN, e # NoDecision => fs = <<>>
  PROVE  LET z == Item(acts, e, f, fs, ok)
         IN  /\ z \in Items /\ z.actions = acts /\ z.decision = e
             /\ z.follower = f /\ z.followers = fs /\ z.ok = ok
  BY DEF Item, Items

LEMMA FollowerFits ==
  /\ Nothing \in Followers /\ Nothing.kind = "nothing" /\ Nothing.actions = <<>>
  /\ \A acts \in Seq(Acts) : /\ Carry(acts) \in Followers /\ Carry(acts).kind = "carry"
                             /\ Carry(acts).actions = acts
  /\ \A left \in 0..Repairs, w \in Postures :
        /\ Chain(left, w) \in Followers /\ Chain(left, w).kind = "repair"
        /\ Chain(left, w).left = left /\ Chain(left, w).actions = <<>>
<1>1. <<>> \in Seq(Acts) /\ 0 \in 0..Repairs /\ "off" \in Postures
  BY BoundsAssumption DEF Postures
<1> QED  BY <1>1 DEF Followers, Nothing, Carry, Chain

LEMMA NoDecisionFits == NoDecision \in Decisions
  BY DEF NoDecision, Decisions, Postures

Sends(z, acts, e, f) == z = Item(acts, e, f, <<>>, TRUE)

LEMMA MessengerIs ==
  ASSUME NEW c \in Companions, NEW v \in Nat, NEW acts \in Seq(Acts), ~Does(acts, {"start"}),
         NEW f \in Followers, Does(f.actions, {"start"}) => Len(f.actions) = 1,
         f.kind = "repair" => f.left # 0,
         NEW z, Sends(z, acts, Stamp(c, v), f)
  PROVE  Messenger(z, c, v) /\ z.actions = acts /\ z.follower = f
<1>1. z \in Items /\ z.actions = acts /\ z.decision = Stamp(c, v) /\ z.follower = f
      /\ z.followers = <<>>
  <2>1. Stamp(c, v) \in Decisions /\ <<>> \in Seq(Followers)  BY StampFits
  <2> QED  BY <2>1 DEF Sends, Item, Items
<1> QED  BY <1>1 DEF Messenger

\* The thread of App::handle.
LEMMA HandlingFits ==
  ASSUME NEW c \in Companions, NEW d, Quietly(c, d) \/ Starts(c, d) \/ Stops(c, d), NEW v \in Nat
  PROVE  LET z == Handling(d, Stamp(d.companion, v))
         IN  /\ Messenger(z, d.companion, v) /\ z.follower.kind # "repair"
             /\ \/ z.actions = d.actions /\ z.follower.actions = <<>>
                \/ z.actions = <<>> /\ z.follower.actions = d.actions
<1> DEFINE z == Handling(d, Stamp(d.companion, v))
           s == Stamp(d.companion, v)
<1>1. d.companion \in Companions /\ d.actions \in Seq(Acts)
  <2>1. \A kind : Begins(c, d, {"resting", "failed"}, "listening", "start")
                  => d.actions = <<Act("start", NoId, Empty)>>
    BY DEF Begins
  <2>2. Begins(c, d, {"listening"}, "transcribing", "stop")
                  => d.actions = <<Act("stop", NoId, Empty)>>
    BY DEF Begins
  <2>3. d.actions \in Seq(Acts)
    BY <2>1, <2>2, BareActs, OneDone DEF Quietly, Starts, Stops
  <2> QED  BY <2>3 DEF Quietly, Starts, Stops, Begins
<1>2. Does(d.actions, {"start"}) => Starts(c, d) /\ Len(d.actions) = 1
  <2>1. Quietly(c, d) => ~Does(d.actions, {"start"})
    BY DEF Quietly, Does
  <2>2. Stops(c, d) => ~Does(d.actions, {"start"})
    BY BareActs, OneDone DEF Stops, Begins
  <2>3. Starts(c, d) => Len(d.actions) = 1
    BY BareActs, OneDone DEF Starts, Begins
  <2> QED  BY <2>1, <2>2, <2>3
<1>3. Starts(c, d) => Waits(s.posture)
  <2>1. Starts(c, d) => Posture(d.companion) = "watched"
    BY DEF Starts, Begins, Posture
  <2>2. s.posture = Posture(d.companion)  BY <1>1, StampFits
  <2> QED  BY <2>1, <2>2 DEF Waits
<1> HIDE DEF s
<1>4. CASE Waits(s.posture)
  <2>1. z = Item(<<>>, s, Carry(d.actions), <<>>, TRUE)
    BY <1>4 DEF Handling, s
  <2>2. <<>> \in Seq(Acts) /\ ~Does(<<>>, {"start"})  BY NothingDone
  <2>3. Carry(d.actions) \in Followers /\ Carry(d.actions).kind = "carry"
        /\ Carry(d.actions).actions = d.actions
    BY <1>1, FollowerFits
  <2>4. Messenger(z, d.companion, v) /\ z.actions = <<>> /\ z.follower = Carry(d.actions)
    <3> DEFINE f == Carry(d.actions)
    <3>1. f \in Followers /\ f.actions = d.actions /\ f.kind # "repair"  BY <2>3
    <3>2. Does(f.actions, {"start"}) => Len(f.actions) = 1  BY <1>2, <3>1
    <3> HIDE DEF f
    <3> DEFINE none == <<>>
    <3>3. Sends(z, none, Stamp(d.companion, v), f)
      BY <2>1 DEF Sends, f, s
    <3>5. none \in Seq(Acts) /\ ~Does(none, {"start"})  BY <2>2
    <3> HIDE DEF z, none
    <3>4. Messenger(z, d.companion, v) /\ z.actions = none /\ z.follower = f
      BY <1>1, <3>1, <3>2, <3>3, <3>5, MessengerIs
    <3> QED  BY <3>4 DEF f, none
  <2> QED  BY <2>3, <2>4 DEF z
<1>5. CASE ~Waits(s.posture)
  <2>1. z = Item(d.actions, s, Nothing, <<>>, TRUE)
    BY <1>5 DEF Handling, s
  <2>2. ~Does(d.actions, {"start"})  BY <1>2, <1>3, <1>5
  <2>3. Nothing \in Followers /\ Nothing.kind = "nothing" /\ Nothing.actions = <<>>
        /\ ~Does(Nothing.actions, {"start"})
    BY FollowerFits, NothingDone
  <2>4. Messenger(z, d.companion, v) /\ z.actions = d.actions /\ z.follower = Nothing
    <3>1. Sends(z, d.actions, Stamp(d.companion, v), Nothing)
      BY <2>1 DEF Sends, s
    <3> HIDE DEF z
    <3> QED  BY <1>1, <2>2, <2>3, <3>1, MessengerIs
  <2> QED  BY <2>3, <2>4 DEF z
<1> QED  BY <1>4, <1>5

-----------------------------------------------------------------------------
(* The actions that decide.                                                 *)

\* What a decision of z, over the threads of rest, leaves behind.
Deciding(rest, z) ==
  /\ work' = rest \cup {z} /\ decisions' = decisions + 1
  /\ UNCHANGED <<opening, surface, put>>

LEMMA DecidingFlies ==
  ASSUME Flight, companion' \in Companions, NEW rest, RestFits(rest),
         NEW z, Messenger(z, companion', decisions + 1), Deciding(rest, z)
  PROVE  /\ Flight'
         /\ Owed' = OwedIn(rest, opening, surface) \cup {z.follower}
         /\ \A acts : acts \in Tasks' <=> \/ acts \in TasksIn(rest, opening, surface)
                                           \/ acts = z.actions \/ acts = z.follower.actions
<1>0. Core /\ FlightTypes  BY DEF Flight
<1>1. /\ Core'
      /\ Owed' = OwedIn(rest, opening, surface) \cup {z.follower}
      /\ \A acts : acts \in Tasks' <=> \/ acts \in TasksIn(rest, opening, surface)
                                        \/ acts = z.actions \/ acts = z.follower.actions
  BY <1>0, DecidingKeeps DEF Deciding
<1>2. FlightTypes'
  <2>1. rest \subseteq Items /\ z \in Items  BY DEF RestFits, Messenger
  <2> QED  BY <1>0, <2>1 DEF FlightTypes, Deciding
<1> QED  BY <1>1, <1>2 DEF Flight

\* The repairs a decision takes away: none, unless its thread just did one.
KeepsRepairs(rest) == \A f \in Owed : f.kind = "repair" => f \in OwedIn(rest, opening, surface)

\* App::handle: the companion takes an event.
Handled(d, rest) ==
  /\ companion' = d.companion
  /\ Deciding(rest, Handling(d, Stamp(d.companion, decisions + 1)))

LEMMA HandledFlies ==
  ASSUME Flight, NEW d, NEW rest, RestFits(rest), Handled(d, rest),
         Quietly(companion, d) \/ Starts(companion, d) \/ Stops(companion, d)
  PROVE  /\ Flight'
         /\ KeepsRepairs(rest) => \A f \in Owed : f.kind = "repair" => f \in Owed'
         /\ \A acts \in Tasks' : \/ acts \in TasksIn(rest, opening, surface)
                                 \/ acts = d.actions \/ acts = <<>>
         /\ \A acts : acts \in TasksIn(rest, opening, surface) \/ acts = d.actions => acts \in Tasks'
<1> DEFINE z == Handling(d, Stamp(d.companion, decisions + 1))
<1>0. companion \in Companions /\ decisions + 1 \in Nat  BY DEF Flight, FlightTypes
<1>1. /\ Messenger(z, d.companion, decisions + 1)
      /\ \/ z.actions = d.actions /\ z.follower.actions = <<>>
         \/ z.actions = <<>> /\ z.follower.actions = d.actions
  BY <1>0, HandlingFits
<1>2. companion' = d.companion /\ d.companion \in Companions /\ Deciding(rest, z)
  BY DEF Handled, Quietly, Starts, Stops, Begins
<1> HIDE DEF z
<1>3. /\ Flight'
      /\ Owed' = OwedIn(rest, opening, surface) \cup {z.follower}
      /\ \A acts : acts \in Tasks' <=> \/ acts \in TasksIn(rest, opening, surface)
                                        \/ acts = z.actions \/ acts = z.follower.actions
  BY <1>1, <1>2, DecidingFlies
<1> QED  BY <1>1, <1>3 DEF KeepsRepairs

-----------------------------------------------------------------------------
(* Who has what to run.                                                     *)

TasksStay == \A kinds : Pending(kinds)' <=> Pending(kinds)
RepairsStay == \A f \in Owed : f.kind = "repair" => f \in Owed'

LEMMA PendingIs ==
  ASSUME NEW kinds
  PROVE  Pending(kinds) <=> \E acts \in Tasks : Does(acts, kinds)
  BY DEF Pending

\* A list and what is left of it.
LEMMA TailDoes ==
  ASSUME NEW acts \in Seq(Acts), acts # <<>>, NEW kinds
  PROVE  /\ Tail(acts) \in Seq(Acts)
         /\ Does(acts, kinds) <=> Head(acts).kind \in kinds \/ Does(Tail(acts), kinds)
<1>1. /\ Tail(acts) \in Seq(Acts) /\ Len(acts) \in Nat \ {0} /\ Len(Tail(acts)) = Len(acts) - 1
      /\ \A k \in 1..Len(acts) - 1 : Tail(acts)[k] = acts[k + 1]
      /\ Head(acts) = acts[1]
  OBVIOUS
<1>2. ASSUME Does(acts, kinds) PROVE Head(acts).kind \in kinds \/ Does(Tail(acts), kinds)
  <2>1. PICK k \in 1..Len(acts) : acts[k].kind \in kinds  BY <1>2 DEF Does
  <2>2. CASE k = 1  BY <1>1, <2>1, <2>2
  <2>3. CASE k # 1
    <3>1. k - 1 \in 1..Len(acts) - 1 /\ (k - 1) + 1 = k  BY <1>1, <2>3
    <3>2. Tail(acts)[k - 1].kind \in kinds  BY <1>1, <2>1, <3>1
    <3> QED  BY <1>1, <3>1, <3>2 DEF Does
  <2> QED  BY <2>2, <2>3
<1>3. ASSUME Head(acts).kind \in kinds PROVE Does(acts, kinds)
  <2>1. 1 \in 1..Len(acts) /\ acts[1].kind \in kinds  BY <1>1, <1>3
  <2> QED  BY <2>1 DEF Does
<1>4. ASSUME Does(Tail(acts), kinds) PROVE Does(acts, kinds)
  <2>1. PICK k \in 1..Len(Tail(acts)) : Tail(acts)[k].kind \in kinds  BY <1>4 DEF Does
  <2>2. k + 1 \in 1..Len(acts) /\ acts[k + 1].kind \in kinds  BY <1>1, <2>1
  <2> QED  BY <2>2 DEF Does
<1> QED  BY <1>1, <1>2, <1>3, <1>4

\* Nothing decided: the flight is the same, its tasks are but for one.
LEMMA PassingTasks ==
  ASSUME NEW gone, NEW come, TasksBut(work', opening', work, opening, surface, gone, come),
         surface' = surface, NEW kinds
  PROVE  /\ Pending(kinds)' => Pending(kinds) \/ Does(come, kinds)
         /\ Pending(kinds) => Pending(kinds)' \/ Does(gone, kinds)
         /\ Does(come, kinds) => Pending(kinds)'
<1>1. /\ \A acts \in Tasks' : acts \in Tasks \/ acts = come
      /\ \A acts \in Tasks : acts \in Tasks' \/ acts = gone
      /\ come \in Tasks' \/ come = <<>>
  BY DEF TasksBut, Tasks
<1>2. Pending(kinds)' <=> \E acts \in Tasks' : Does(acts, kinds)
  BY DEF Pending, Does
<1> QED  BY <1>1, <1>2, NothingDone DEF Pending

LEMMA HeldByIs ==
  ASSUME NEW s, NEW f
  PROVE  f \in HeldBy(s) <=> s.applying /\ (f = s.own \/ \E k \in 1..Len(s.waiting) : f = s.waiting[k])
  BY DEF HeldBy

LEMMA AtHandIs ==
  ASSUME NEW s, NEW e
  PROVE  e \in AtHand(s) <=> \/ e = s.next /\ e # NoDecision
                             \/ e = s.current /\ s.stage # "take"
  BY DEF AtHand

LEMMA HandedTasks ==
  ASSUME opening' = opening, Owed' = Owed,
         \A i \in work : i \in work' \/ i.actions = <<>>,
         \A i \in work' : i \in work \/ i.actions = <<>>
  PROVE  TasksStay
<1> SUFFICES ASSUME NEW kinds PROVE Pending(kinds)' <=> Pending(kinds)
  BY DEF TasksStay
<1>1. Pending(kinds) <=> \/ \E i \in work : Does(i.actions, kinds)
                         \/ \E f \in Owed : Does(f.actions, kinds)
  BY DEF Pending, Tasks, TasksIn, Owed
<1>2. Pending(kinds)' <=> \/ \E i \in work' : Does(i.actions, kinds)
                          \/ \E f \in Owed' : Does(f.actions, kinds)
  BY DEF Pending, Tasks, TasksIn, Owed, Does
<1> QED  BY <1>1, <1>2, NothingDone

-----------------------------------------------------------------------------
(* The surfaces.                                                            *)

LEMMA AppendHas ==
  ASSUME NEW S, NEW fs \in Seq(S), NEW f \in S, NEW x
  PROVE  /\ Append(fs, f) \in Seq(S)
         /\ (\E k \in 1..Len(Append(fs, f)) : x = Append(fs, f)[k])
              <=> x = f \/ \E k \in 1..Len(fs) : x = fs[k]
<1>1. /\ Append(fs, f) \in Seq(S) /\ Len(fs) \in Nat /\ Len(Append(fs, f)) = Len(fs) + 1
      /\ \A k \in 1..Len(fs) : Append(fs, f)[k] = fs[k]
      /\ Append(fs, f)[Len(fs) + 1] = f
  OBVIOUS
<1>2. \A k : k \in 1..Len(fs) + 1 <=> k \in 1..Len(fs) \/ k = Len(fs) + 1
  BY <1>1
<1> QED  BY <1>1, <1>2

LEMMA ConsHas ==
  ASSUME NEW S, NEW fs \in Seq(S), NEW f \in S, NEW g, g = <<f>> \o fs, NEW x
  PROVE  /\ g \in Seq(S) /\ g # <<>>
         /\ (\E k \in 1..Len(g) : x = g[k]) <=> x = f \/ \E k \in 1..Len(fs) : x = fs[k]
<1>1. /\ g \in Seq(S) /\ Len(fs) \in Nat /\ Len(g) = Len(fs) + 1 /\ g[1] = f
      /\ \A k \in 1..Len(fs) : g[k + 1] = fs[k]
  OBVIOUS
<1>2. g # <<>>  BY <1>1
<1>3. ASSUME NEW k \in 1..Len(g), x = g[k] PROVE x = f \/ \E m \in 1..Len(fs) : x = fs[m]
  <2>1. CASE k = 1  BY <1>1, <1>3, <2>1
  <2>2. CASE k # 1
    <3>1. k - 1 \in 1..Len(fs) /\ (k - 1) + 1 = k  BY <1>1, <2>2
    <3>2. g[k] = fs[k - 1]  BY <1>1, <3>1
    <3> QED  BY <1>3, <3>1, <3>2
  <2> QED  BY <2>1, <2>2
<1>4. ASSUME NEW m \in 1..Len(fs), x = fs[m] PROVE \E k \in 1..Len(g) : x = g[k]
  <2>1. m + 1 \in 1..Len(g) /\ g[m + 1] = x  BY <1>1, <1>4
  <2> QED  BY <2>1
<1>5. 1 \in 1..Len(g)  BY <1>1
<1> QED  BY <1>1, <1>2, <1>3, <1>4, <1>5

\* A step at the surfaces that loses no follower.
LEMMA HandingKeeps ==
  ASSUME Core, opening' = opening, Owed' = Owed,
         \A i \in work : i \in work' \/ i.actions = <<>>,
         \A i \in work' : i \in work \/ i.actions = <<>>
  PROVE  Threaded' /\ TasksStay /\ RepairsStay
<1>1. TasksStay  BY HandedTasks
<1>2. RepairsStay  BY DEF RepairsStay
<1>3. Threaded'
  <2>1. (\A i \in work : Alone(i))'
    <3>1. \A i \in work' : Alone(i)  BY NothingDone DEF Core, Threaded, Alone
    <3> QED  BY <3>1 DEF Alone
  <2>2. (\A acts \in Tasks : Does(acts, {"start"}) => Len(acts) = 1)'
    <3> SUFFICES ASSUME NEW acts \in Tasks', Does(acts, {"start"}) PROVE Len(acts) = 1
      BY DEF Does
    <3>1. (\E i \in work' : acts = i.actions) \/ (\E f \in Owed' : acts = f.actions)
      BY DEF Tasks, TasksIn, Owed
    <3>2. (\E i \in work : acts = i.actions) \/ (\E f \in Owed : acts = f.actions) \/ acts = <<>>
      BY <3>1
    <3>3. acts \in Tasks \/ acts = <<>>  BY <3>2 DEF Tasks, TasksIn, Owed
    <3> QED  BY <3>3, NothingDone DEF Core, Threaded
  <2>3. (\A o \in opening : ~Decided(o.item) /\ Len(o.item.actions) = 1)'
    BY DEF Core, Threaded, Decided
  <2>4. (\A f \in Owed : f.kind = "repair" => f.left # 0)'
    BY DEF Core, Threaded
  <2> QED  BY <2>1, <2>2, <2>3, <2>4 DEF Threaded
<1> QED  BY <1>1, <1>2, <1>3

\* A thread that brings a decision.
LEMMA BringerIs ==
  ASSUME Flight, NEW i \in work, Ready(i)
  PROVE  /\ i \in Items /\ i.actions = <<>> /\ i.followers = <<>>
         /\ i.follower \in Followers /\ i.decision \in Decisions /\ Decided(i)
         /\ i.decision \in Afoot /\ i.decision.version \in 1..decisions
         /\ \A f : f \in Owing(i) <=> f = i.follower
         /\ \A e : e \in StampsOf(i) <=> e = i.decision
<1>1. i \in Items /\ i.actions = <<>> /\ Decided(i) /\ i.followers = <<>>
      /\ i.follower \in Followers /\ i.decision \in Decisions
  BY DEF Flight, FlightTypes, Ready, Decided, Items
<1>2. \A e : e \in StampsOf(i) <=> e = i.decision  BY <1>1, OwingIs
<1>3. i.decision \in Afoot  BY <1>2, AfootIs DEF Afoot
<1>4. i.decision.version \in 1..decisions  BY <1>3 DEF Flight, Core, InOrder
<1>5. \A f : f \in Owing(i) <=> f = i.follower
  <2>1. Len(i.followers) = 0  BY <1>1
  <2> QED  BY <1>1, <2>1, OwingIs
<1> QED  BY <1>1, <1>2, <1>3, <1>4, <1>5

LEMMA SurfaceFits ==
  ASSUME NEW s \in Surfaces
  PROVE  /\ s.next \in Decisions /\ s.current \in Decisions /\ s.version \in Nat
         /\ s.applying \in BOOLEAN /\ s.waiting \in Seq(Followers) /\ s.own \in Followers
         /\ s.stage \in {"take", "windows", "draw"} /\ s.ok \in BOOLEAN
  BY DEF Surfaces

LEMMA BringFlies == Flight /\ Bring => Flight' /\ RepairsStay /\ TasksStay
<1> SUFFICES ASSUME Flight, Bring PROVE Flight' /\ RepairsStay /\ TasksStay
  OBVIOUS
<1> DEFINE Taken(i) == IF Newest(i.decision)
                       THEN [surface EXCEPT !.version = i.decision.version, !.next = i.decision]
                       ELSE surface
<1>1. PICK i \in work :
        /\ Ready(i)
        /\ IF surface.applying
           THEN /\ surface' = [Taken(i) EXCEPT !.waiting = Append(@, i.follower)]
                /\ work' = work \ {i}
           ELSE IF Taken(i).next = NoDecision
           THEN /\ surface' = Taken(i)
                /\ work' = (work \ {i}) \cup {Item(<<>>, NoDecision, Nothing, <<i.follower>>, TRUE)}
           ELSE /\ surface' = [Taken(i) EXCEPT !.applying = TRUE, !.own = i.follower]
                /\ work' = work \ {i}
  BY DEF Bring
<1>2. UNCHANGED <<companion, decisions, put, keys, watching, opening>>
  BY DEF Bring, windows, timers, microphone
<1> DEFINE t == Taken(i)
           d == i.decision
           f == i.follower
<1>3. /\ i \in Items /\ i.actions = <<>> /\ f \in Followers /\ d \in Decisions /\ d # NoDecision
      /\ d \in Afoot /\ d.version \in 1..decisions
      /\ (\A x : x \in Owing(i) <=> x = f) /\ (\A e : e \in StampsOf(i) <=> e = d)
  BY <1>1, BringerIs DEF Decided
<1>4. /\ FlightTypes /\ Core /\ surface \in Surfaces /\ decisions \in Nat
      /\ surface.version \in Nat /\ surface.version <= decisions
  BY SurfaceFits DEF Flight, FlightTypes, Core, InOrder
<1>5. /\ t \in Surfaces /\ t.applying = surface.applying /\ t.waiting = surface.waiting
      /\ t.own = surface.own /\ t.current = surface.current /\ t.stage = surface.stage
      /\ \/ t.next = d /\ t.version = d.version /\ surface.version <= d.version
         \/ t = surface /\ d.version < surface.version
  <2>1. CASE Newest(d)
    BY <1>3, <1>4, <2>1 DEF Newest, Surfaces, Decisions
  <2>2. CASE ~Newest(d)
    <3>1. d.version < surface.version  BY <1>3, <1>4, <2>2 DEF Newest
    <3> QED  BY <1>4, <2>2, <3>1
  <2> QED  BY <2>1, <2>2
<1> HIDE DEF t, d, f
\* What the surface is afterwards, whoever applies.
<1>6. /\ surface' \in Surfaces /\ surface'.next = t.next /\ surface'.version = t.version
      /\ surface'.current = surface.current /\ surface'.stage = surface.stage
      /\ ~surface'.applying => ~surface.applying /\ surface'.waiting = <<>> /\ surface'.next = NoDecision
      /\ work' \subseteq Items
      /\ \A j \in work : j \in work' \/ j = i
      /\ \A j \in work' : \/ j \in work /\ j # i
                          \/ j.actions = <<>> /\ ~Decided(j)
      /\ \A x : (\E j \in work' : x \in Owing(j)) \/ x \in HeldBy(surface')
                  <=> (\E j \in work : x \in Owing(j)) \/ x \in HeldBy(surface)
  <2>1. CASE surface.applying
    <3>1. surface' = [t EXCEPT !.waiting = Append(@, f)] /\ work' = work \ {i}
      BY <1>1, <2>1 DEF t, f
    <3>2. Append(surface.waiting, f) \in Seq(Followers)
      BY <1>3, <1>4, SurfaceFits, AppendHas
    <3>3. /\ surface' \in Surfaces /\ surface'.next = t.next /\ surface'.version = t.version
          /\ surface'.current = surface.current /\ surface'.stage = surface.stage
          /\ surface'.applying /\ surface'.own = surface.own
          /\ surface'.waiting = Append(surface.waiting, f)
      BY <1>5, <2>1, <3>1, <3>2 DEF Surfaces
    <3>4. \A x : x \in HeldBy(surface') <=> x \in HeldBy(surface) \/ x = f
      <4> TAKE x
      <4>1. (\E k \in 1..Len(Append(surface.waiting, f)) : x = Append(surface.waiting, f)[k])
              <=> x = f \/ \E k \in 1..Len(surface.waiting) : x = surface.waiting[k]
        BY <1>3, <1>4, SurfaceFits, AppendHas
      <4>2. x \in HeldBy(surface') <=> \/ x = surface.own
                                       \/ \E k \in 1..Len(Append(surface.waiting, f)) :
                                            x = Append(surface.waiting, f)[k]
        BY <3>3, HeldByIs
      <4>3. x \in HeldBy(surface) <=> \/ x = surface.own
                                      \/ \E k \in 1..Len(surface.waiting) : x = surface.waiting[k]
        BY <2>1, HeldByIs
      <4> QED  BY <4>1, <4>2, <4>3
    <3> QED  BY <1>3, <1>4, <3>1, <3>3, <3>4 DEF FlightTypes
  <2>2. CASE ~surface.applying /\ t.next = NoDecision
    <3> DEFINE z == Item(<<>>, NoDecision, Nothing, <<f>>, TRUE)
    <3>1. surface' = t /\ work' = (work \ {i}) \cup {z}
      BY <1>1, <2>2 DEF t, f
    <3>2. z \in Items /\ z.actions = <<>> /\ z.decision = NoDecision /\ z.followers = <<f>>
      <4>1. <<>> \in Seq(Acts) /\ <<f>> \in Seq(Followers) /\ Nothing \in Followers
        BY <1>3, FollowerFits
      <4> QED  BY <4>1, NoDecisionFits DEF Item, Items
    <3> HIDE DEF z
    <3>3. ~Decided(z) /\ Len(z.followers) = 1 /\ z.followers[1] = f
      BY <3>2 DEF Decided
    <3>4. \A x : x \in Owing(z) <=> x = f
      BY <3>2, <3>3, OwingIs
    <3>5. t = surface  BY <1>3, <1>5, <2>2
    <3>6. \A j \in work' : (j \in work /\ j # i) \/ j = z  BY <3>1
    <3>7. z \in work' /\ work' \subseteq Items  BY <1>4, <3>1, <3>2 DEF FlightTypes
    <3>8. surface.waiting = <<>> /\ surface.next = NoDecision
      BY <1>4, <2>2 DEF Core, InOrder
    <3>9. \A x : (\E j \in work' : x \in Owing(j)) \/ x \in HeldBy(surface')
                  <=> (\E j \in work : x \in Owing(j)) \/ x \in HeldBy(surface)
      BY <1>3, <3>1, <3>4, <3>5, <3>6, <3>7
    <3>10. \A j \in work : j \in work' \/ j = i  BY <3>1
    <3> QED  BY <1>4, <1>5, <2>2, <3>1, <3>2, <3>3, <3>5, <3>6, <3>7, <3>8, <3>9, <3>10
  <2>3. CASE ~surface.applying /\ t.next # NoDecision
    <3>1. surface' = [t EXCEPT !.applying = TRUE, !.own = f] /\ work' = work \ {i}
      BY <1>1, <2>3 DEF t, f
    <3>2. surface.waiting = <<>> /\ surface.next = NoDecision
      BY <1>4, <2>3 DEF Core, InOrder
    <3>3. /\ surface' \in Surfaces /\ surface'.next = t.next /\ surface'.version = t.version
          /\ surface'.current = surface.current /\ surface'.stage = surface.stage
          /\ surface'.applying /\ surface'.own = f /\ surface'.waiting = <<>>
      BY <1>3, <1>5, <3>1, <3>2 DEF Surfaces
    <3>4. \A x : x \in HeldBy(surface') <=> x = f
      <4>1. Len(surface'.waiting) = 0  BY <3>3
      <4> QED  BY <3>3, <4>1, HeldByIs
    <3>5. \A x : x \notin HeldBy(surface)  BY <2>3, HeldByIs
    <3> QED  BY <1>3, <1>4, <3>1, <3>3, <3>4, <3>5 DEF FlightTypes
  <2> QED  BY <2>1, <2>2, <2>3
<1>7. Owed' = Owed
  <2>1. \A x : x \in OwedIn(work', opening', surface') <=> x \in OwedIn(work, opening, surface)
    BY <1>2, <1>6, OwedIs
  <2> QED  BY <2>1 DEF Owed
<1>8. Threaded' /\ TasksStay /\ RepairsStay
  <2>1. \A j \in work : j \in work' \/ j.actions = <<>>  BY <1>3, <1>6
  <2>2. \A j \in work' : j \in work \/ j.actions = <<>>  BY <1>6
  <2> QED  BY <1>2, <1>4, <1>7, <2>1, <2>2, HandingKeeps
<1>9. \A e \in Afoot' : e \in Afoot
  <2> SUFFICES ASSUME NEW e \in Afoot' PROVE e \in Afoot
    OBVIOUS
  <2>1. \/ \E j \in work' : e \in StampsOf(j)
        \/ \E o \in opening' : e \in StampsOf(o.item)
        \/ e \in AtHand(surface')
    BY AfootIs DEF Afoot
  <2>2. ASSUME NEW j \in work', e \in StampsOf(j) PROVE e \in Afoot
    <3>1. j \in work \/ ~Decided(j)  BY <1>6
    <3>2. j \in Items  BY <1>6
    <3>3. Decided(j)  BY <2>2, <3>2, OwingIs
    <3> QED  BY <2>2, <3>1, <3>3, AfootIs DEF Afoot
  <2>3. ASSUME NEW o \in opening', e \in StampsOf(o.item) PROVE e \in Afoot
    BY <1>2, <2>3, AfootIs DEF Afoot
  <2>4. ASSUME e \in AtHand(surface') PROVE e \in Afoot
    <3>1. \/ e = surface'.next /\ e # NoDecision
          \/ e = surface'.current /\ surface'.stage # "take"
      BY <2>4, AtHandIs
    <3>2. e = d \/ e \in AtHand(surface)
      BY <1>5, <1>6, <3>1, AtHandIs
    <3> QED  BY <1>3, <3>2, AfootIs DEF Afoot
  <2> QED  BY <2>1, <2>2, <2>3, <2>4
<1>10. InOrder'
  <2>1. InOrder  BY <1>4 DEF Core
  <2>2. (\A e \in Afoot : /\ e.version \in 1..decisions
                          /\ e.version = decisions => e = Stamp(companion, decisions))'
    BY <1>2, <1>9, <2>1 DEF InOrder
  <2>3. put' <= surface'.version /\ surface'.version <= decisions'
    <3>1. d.version \in Nat /\ put <= surface.version
      BY <1>3, <2>1 DEF InOrder
    <3>2. surface'.version \in Nat /\ surface.version <= surface'.version /\ surface'.version <= decisions
      BY <1>3, <1>4, <1>5, <1>6, <3>1
    <3>3. put <= surface'.version
      <4>1. CASE surface'.version = surface.version  BY <3>1, <4>1
      <4>2. CASE surface'.version = d.version
        BY <1>4, <3>1, <3>2, <4>2 DEF FlightTypes
      <4> QED  BY <1>5, <1>6, <4>1, <4>2
    <3> QED  BY <1>2, <3>2, <3>3
  <2>4. (~surface.applying => /\ surface.stage = "take" /\ surface.next = NoDecision
                              /\ surface.waiting = <<>>)'
    BY <1>6, <2>1 DEF InOrder
  <2>5. (surface.next # NoDecision => surface.next.version = surface.version)'
    BY <1>5, <1>6, <2>1 DEF InOrder
  <2>6. (surface.stage # "take" => /\ surface.current # NoDecision
                                   /\ put <= surface.current.version
                                   /\ surface.current.version <= surface.version)'
    <3> SUFFICES ASSUME surface.stage # "take"
                 PROVE  /\ surface.current # NoDecision /\ put <= surface.current.version
                        /\ surface.current.version <= t.version
      BY <1>2, <1>6
    <3>1. /\ surface.current # NoDecision /\ put <= surface.current.version
          /\ surface.current.version <= surface.version
      BY <2>1 DEF InOrder
    <3>2. surface.current.version \in Nat /\ d.version \in Nat
      BY <1>3, <1>4, SurfaceFits DEF Decisions
    <3> QED  BY <1>4, <1>5, <3>1, <3>2
  <2>7. (surface.stage = "draw" => put = surface.current.version)'
    BY <1>2, <1>6, <2>1 DEF InOrder
  <2> QED  BY <2>2, <2>3, <2>4, <2>5, <2>6, <2>7 DEF InOrder
<1>11. NewestGoesOn'
  <2>1. CASE \E e \in Afoot : e.version = decisions
    <3>1. PICK e \in Afoot : e.version = decisions  BY <2>1
    <3>2. \/ \E j \in work : e \in StampsOf(j)
          \/ \E o \in opening : e \in StampsOf(o.item)
          \/ e = surface.next /\ e # NoDecision
          \/ e = surface.current /\ surface.stage # "take"
      BY <3>1, AfootIs, AtHandIs DEF Afoot
    <3>3. d.version <= decisions /\ d.version \in Nat  BY <1>3, <1>4
    <3>4. ASSUME t.next = d, d.version = decisions PROVE \E x \in Afoot' : x.version = decisions'
      <4>1. d \in AtHand(surface')  BY <1>3, <1>6, <3>4, AtHandIs
      <4>2. d \in Afoot'  BY <4>1, AfootIs DEF Afoot
      <4> QED  BY <1>2, <3>4, <4>2
    <3>5. ASSUME NEW j \in work, e \in StampsOf(j) PROVE \E x \in Afoot' : x.version = decisions'
      <4>1. CASE j \in work'
        <5>1. e \in Afoot'  BY <3>5, <4>1, AfootIs DEF Afoot
        <5> QED  BY <1>2, <3>1, <5>1
      <4>2. CASE j = i
        <5>1. e = d  BY <1>3, <3>5, <4>2
        <5>2. t.next = d  BY <1>4, <1>5, <3>1, <3>3, <5>1
        <5> QED  BY <3>1, <3>4, <5>1, <5>2
      <4> QED  BY <1>6, <4>1, <4>2
    <3>6. ASSUME NEW o \in opening, e \in StampsOf(o.item) PROVE \E x \in Afoot' : x.version = decisions'
      <4>1. e \in Afoot'  BY <1>2, <3>6, AfootIs DEF Afoot
      <4> QED  BY <1>2, <3>1, <4>1
    <3>7. ASSUME e = surface.next, e # NoDecision PROVE \E x \in Afoot' : x.version = decisions'
      <4>1. CASE t.next = surface.next
        <5>1. e \in AtHand(surface')  BY <1>6, <3>7, <4>1, AtHandIs
        <5>2. e \in Afoot'  BY <5>1, AfootIs DEF Afoot
        <5> QED  BY <1>2, <3>1, <5>2
      <4>2. CASE t.next = d /\ surface.version <= d.version
        <5>1. surface.version = decisions  BY <1>4, <3>1, <3>7 DEF Core, InOrder
        <5>2. d.version = decisions  BY <1>4, <3>3, <4>2, <5>1
        <5> QED  BY <3>4, <4>2, <5>2
      <4> QED  BY <1>5, <4>1, <4>2
    <3>8. ASSUME e = surface.current, surface.stage # "take" PROVE \E x \in Afoot' : x.version = decisions'
      <4>1. e \in AtHand(surface')  BY <1>6, <3>8, AtHandIs
      <4>2. e \in Afoot'  BY <4>1, AfootIs DEF Afoot
      <4> QED  BY <1>2, <3>1, <4>2
    <3> QED  BY <3>2, <3>5, <3>6, <3>7, <3>8 DEF NewestGoesOn
  <2>2. CASE ~\E e \in Afoot : e.version = decisions
    BY <1>2, <1>4, <2>2 DEF Core, NewestGoesOn
  <2> QED  BY <2>1, <2>2
<1>12. FlightTypes'
  BY <1>2, <1>4, <1>6 DEF FlightTypes
<1> QED  BY <1>8, <1>10, <1>11, <1>12 DEF Flight, Core

LEMMA TakeFlies == Flight /\ Take => Flight' /\ RepairsStay /\ TasksStay
<1> SUFFICES ASSUME Flight, Take PROVE Flight' /\ RepairsStay /\ TasksStay
  OBVIOUS
<1>1. UNCHANGED <<companion, decisions, put, keys, watching, opening>>
  BY DEF Take, windows, timers, microphone
<1>2. /\ FlightTypes /\ Core /\ surface \in Surfaces /\ surface.applying /\ surface.stage = "take"
  BY DEF Flight, FlightTypes, Take
<1>3. /\ surface' \in Surfaces /\ surface'.next = NoDecision /\ surface'.version = surface.version
      /\ ~surface'.applying => surface'.waiting = <<>> /\ surface'.stage = "take"
      /\ surface'.stage # "take" => /\ surface'.stage = "windows" /\ surface'.current = surface.next
                                    /\ surface.next # NoDecision
      /\ surface.next # NoDecision => surface'.stage # "take"
      /\ work' \subseteq Items /\ work \subseteq work'
      /\ \A j \in work' : j \in work \/ (j.actions = <<>> /\ ~Decided(j))
      /\ \A x : (\E j \in work' : x \in Owing(j)) \/ x \in HeldBy(surface')
                  <=> (\E j \in work : x \in Owing(j)) \/ x \in HeldBy(surface)
  <2>1. CASE surface.next # NoDecision
    <3>1. surface' = [surface EXCEPT !.current = surface.next, !.next = NoDecision,
                                     !.stage = "windows"] /\ work' = work
      BY <2>1 DEF Take
    <3>2. /\ surface' \in Surfaces /\ surface'.next = NoDecision /\ surface'.version = surface.version
          /\ surface'.applying = surface.applying /\ surface'.waiting = surface.waiting
          /\ surface'.own = surface.own
          /\ surface'.stage = "windows" /\ surface'.current = surface.next
      BY <1>2, <3>1, NoDecisionFits DEF Surfaces
    <3>3. HeldBy(surface') = HeldBy(surface)  BY <3>2 DEF HeldBy
    <3> QED  BY <1>2, <2>1, <3>1, <3>2, <3>3 DEF FlightTypes
  <2>2. CASE surface.next = NoDecision
    <3> DEFINE fs == <<surface.own>> \o surface.waiting
               z == Item(<<>>, NoDecision, Nothing, fs, surface.ok)
    <3>1. /\ surface' = [surface EXCEPT !.applying = FALSE, !.waiting = <<>>, !.own = Nothing,
                                        !.current = NoDecision]
          /\ work' = work \cup {z}
      BY <2>2 DEF Take
    <3>2. /\ fs \in Seq(Followers) /\ fs # <<>>
          /\ \A x : (\E k \in 1..Len(fs) : x = fs[k]) <=> x \in HeldBy(surface)
      <4>1. fs = <<surface.own>> \o surface.waiting  OBVIOUS
      <4> HIDE DEF fs
      <4>2. surface.waiting \in Seq(Followers) /\ surface.own \in Followers
        BY <1>2, SurfaceFits
      <4>3. ASSUME NEW x
            PROVE  (\E k \in 1..Len(fs) : x = fs[k])
                     <=> x = surface.own \/ \E k \in 1..Len(surface.waiting) : x = surface.waiting[k]
        BY <4>1, <4>2, ConsHas
      <4>4. fs \in Seq(Followers) /\ fs # <<>>
        BY <4>1, <4>2, ConsHas
      <4>5. ASSUME NEW x PROVE (\E k \in 1..Len(fs) : x = fs[k]) <=> x \in HeldBy(surface)
        <5>1. x \in HeldBy(surface)
                <=> x = surface.own \/ \E k \in 1..Len(surface.waiting) : x = surface.waiting[k]
          BY <1>2, HeldByIs
        <5> QED  BY <4>3, <5>1
      <4> QED  BY <4>4, <4>5
    <3> HIDE DEF fs
    <3>4. z \in Items /\ z.actions = <<>> /\ z.decision = NoDecision /\ z.followers = fs
      <4>1. <<>> \in Seq(Acts) /\ Nothing \in Followers /\ surface.ok \in BOOLEAN
        BY <1>2, FollowerFits, SurfaceFits
      <4> QED  BY <3>2, <4>1, NoDecisionFits DEF Item, Items
    <3> HIDE DEF z
    <3>5. ~Decided(z)  BY <3>4 DEF Decided
    <3>6. \A x : x \in Owing(z) <=> x \in HeldBy(surface)
      BY <3>2, <3>4, <3>5, OwingIs
    <3>7. /\ surface' \in Surfaces /\ surface'.next = NoDecision /\ surface'.version = surface.version
          /\ ~surface'.applying /\ surface'.waiting = <<>> /\ surface'.stage = "take"
      <4>1. <<>> \in Seq(Followers) /\ Nothing \in Followers /\ NoDecision \in Decisions
        BY FollowerFits, NoDecisionFits
      <4> QED  BY <1>2, <2>2, <3>1, <4>1 DEF Surfaces
    <3>8. \A x : x \notin HeldBy(surface')  BY <3>7, HeldByIs
    <3>9. \A x : (\E j \in work' : x \in Owing(j)) \/ x \in HeldBy(surface')
                  <=> (\E j \in work : x \in Owing(j)) \/ x \in HeldBy(surface)
      BY <3>1, <3>6, <3>8
    <3> QED  BY <1>2, <2>2, <3>1, <3>4, <3>5, <3>7, <3>9 DEF FlightTypes
  <2> QED  BY <2>1, <2>2
<1>4. Owed' = Owed
  <2>1. \A x : x \in OwedIn(work', opening', surface') <=> x \in OwedIn(work, opening, surface)
    BY <1>1, <1>3, OwedIs
  <2> QED  BY <2>1 DEF Owed
<1>5. Threaded' /\ TasksStay /\ RepairsStay
  <2>1. \A j \in work : j \in work' \/ j.actions = <<>>  BY <1>3
  <2>2. \A j \in work' : j \in work \/ j.actions = <<>>  BY <1>3
  <2> QED  BY <1>1, <1>2, <1>4, <2>1, <2>2, HandingKeeps
<1>6. \A e : e \in Afoot' <=> e \in Afoot
  <2> TAKE e
  <2>1. e \in AtHand(surface') <=> e \in AtHand(surface)
    BY <1>2, <1>3, AtHandIs
  <2>2. (\E j \in work' : e \in StampsOf(j)) <=> \E j \in work : e \in StampsOf(j)
    <3>1. \A j \in work' : j \in work \/ e \notin StampsOf(j)
      <4> TAKE j \in work'
      <4>1. j \in Items  BY <1>3
      <4> QED  BY <1>3, <4>1, OwingIs
    <3> QED  BY <1>3, <3>1
  <2> QED  BY <1>1, <2>1, <2>2, AfootIs DEF Afoot
<1>7. InOrder'
  <2>1. InOrder  BY <1>2 DEF Core
  <2>2. (\A e \in Afoot : /\ e.version \in 1..decisions
                          /\ e.version = decisions => e = Stamp(companion, decisions))'
    BY <1>1, <1>6, <2>1 DEF InOrder
  <2>3. put' <= surface'.version /\ surface'.version <= decisions'
    BY <1>1, <1>3, <2>1 DEF InOrder
  <2>4. (~surface.applying => /\ surface.stage = "take" /\ surface.next = NoDecision
                              /\ surface.waiting = <<>>)'
    BY <1>3
  <2>5. (surface.next # NoDecision => surface.next.version = surface.version)'
    BY <1>3
  <2>6. (surface.stage # "take" => /\ surface.current # NoDecision
                                   /\ put <= surface.current.version
                                   /\ surface.current.version <= surface.version)'
    <3> SUFFICES ASSUME surface.next # NoDecision
                 PROVE  put <= surface.next.version /\ surface.next.version <= surface.version
      BY <1>1, <1>3
    <3>1. surface.version \in Nat  BY <1>2, SurfaceFits
    <3> QED  BY <2>1, <3>1 DEF InOrder
  <2>7. (surface.stage = "draw" => put = surface.current.version)'
    BY <1>3
  <2> QED  BY <2>2, <2>3, <2>4, <2>5, <2>6, <2>7 DEF InOrder
<1>8. NewestGoesOn'
  BY <1>1, <1>2, <1>6 DEF Core, NewestGoesOn
<1>9. FlightTypes'
  BY <1>1, <1>2, <1>3 DEF FlightTypes
<1> QED  BY <1>5, <1>7, <1>8, <1>9 DEF Flight, Core


Screens == {"off", "unknown", "doubtful", "seen", "ready"}
Outcomes == Screens \X BOOLEAN

LEMMA PlacesFit == ASSUME screen \in Screens, NEW posture PROVE Places(posture) \subseteq Outcomes
<1>0. \A s \in Screens, b \in BOOLEAN : <<s, b>> \in Outcomes
  BY DEF Outcomes
<1>1. \A w : PillShown(w) \in {"error", "doubtful", "seen", "unsure"}
  BY DEF PillShown
<1>2. \A s \in Screens : Stands(s) \subseteq Outcomes
  <2> SUFFICES ASSUME NEW s \in Screens, NEW p \in Stands(s) PROVE p \in Outcomes
    OBVIOUS
  <2>1. CASE s \in {"seen", "ready"}
    <3>1. p = <<s, TRUE>>  BY <2>1 DEF Stands
    <3> QED  BY <3>1 DEF Outcomes
  <2>2. CASE s \notin {"seen", "ready"}
    <3>1. PICK shown \in {"error", "doubtful", "seen", "unsure"} :
            p = IF shown = "error" THEN <<s, FALSE>> ELSE <<Recorded(shown), TRUE>>
      BY <1>1, <2>2 DEF Stands
    <3>2. shown # "error" => Recorded(shown) \in Screens  BY DEF Recorded, Screens
    <3> QED  BY <3>1, <3>2 DEF Outcomes
  <2> QED  BY <2>1, <2>2
<1>3. \A s \in Screens : Boxed(s) \subseteq Outcomes
  <2> SUFFICES ASSUME NEW s \in Screens, NEW p \in Boxed(s) PROVE p \in Outcomes
    OBVIOUS
  <2> DEFINE under == IF s = "ready" THEN "seen" ELSE s
  <2>1. PICK shown : p = IF shown = "ready" /\ under = "seen" THEN <<"ready", TRUE>>
                         ELSE <<under, shown # "error">>
    BY DEF Boxed
  <2>2. under \in Screens /\ "ready" \in Screens  BY DEF Screens
  <2> HIDE DEF under
  <2>3. (shown # "error") \in BOOLEAN  OBVIOUS
  <2>4. p \in {<<"ready", TRUE>>, <<under, TRUE>>, <<under, FALSE>>}  BY <2>1
  <2> QED  BY <1>0, <2>2, <2>4
<1>4. Raises(screen) \subseteq Outcomes
  <2> SUFFICES ASSUME NEW q \in Raises(screen) PROVE q \in Outcomes
    OBVIOUS
  <2>1. PICK p \in Stands(screen) :
          q \in IF ~p[2] THEN {p}
                ELSE IF p[1] = "ready" THEN {p} \cup Boxed(p[1]) ELSE Boxed(p[1])
    BY DEF Raises
  <2>2. p \in Outcomes  BY <1>2
  <2>3. p[1] \in Screens  BY <2>2 DEF Outcomes
  <2>4. q = p \/ q \in Boxed(p[1])  BY <2>1
  <2> QED  BY <1>3, <2>2, <2>3, <2>4
<1>5. Settles(screen) \subseteq Outcomes
  <2>1. "seen" \in Screens  BY DEF Screens
  <2>2. \A q \in Settles(screen) : q = <<screen, FALSE>> \/ q \in Stands(screen) \/ q \in Stands("seen")
    BY DEF Settles
  <2>3. <<screen, FALSE>> \in Outcomes  BY DEF Outcomes
  <2> QED  BY <1>2, <2>1, <2>2, <2>3
<1>6. Lowers(screen) \subseteq Outcomes
  <2>1. \A q \in Lowers(screen) : q \in {<<"off", TRUE>>, <<"unknown", TRUE>>, <<"seen", FALSE>>}
    BY DEF Lowers
  <2>2. {<<"off", TRUE>>, <<"unknown", TRUE>>, <<"seen", FALSE>>} \subseteq Outcomes
    <3>1. {"off", "unknown", "seen"} \subseteq Screens  BY DEF Screens
    <3> QED  BY <1>0, <3>1
  <2> QED  BY <2>1, <2>2
<1> QED  BY <1>4, <1>5, <1>6 DEF Places

LEMMA PutFits ==
  ASSUME Flight, surface.applying, surface.stage # "take",
         UNCHANGED <<companion, decisions, work, opening>>,
         surface' \in Surfaces, surface'.next = surface.next,
         surface'.version = surface.version, surface'.applying, surface'.own = surface.own,
         surface'.waiting = surface.waiting, surface'.current = surface.current
  PROVE  /\ Threaded' /\ RepairsStay /\ TasksStay
         /\ Owed' = Owed
         /\ \A e \in Afoot' : e \in Afoot
         /\ \A e \in Afoot : e \in Afoot' \/ (e = surface.current /\ surface'.stage = "take")
<1>1. Owed' = Owed
  <2>1. HeldBy(surface') = HeldBy(surface)  BY DEF HeldBy
  <2>2. \A x : x \in OwedIn(work', opening', surface') <=> x \in OwedIn(work, opening, surface)
    BY <2>1, OwedIs
  <2> QED  BY <2>2 DEF Owed
<1>2. Threaded' /\ TasksStay /\ RepairsStay
  BY <1>1, HandingKeeps DEF Flight
<1>3. ASSUME NEW e PROVE /\ e \in AtHand(surface') => e \in AtHand(surface)
                         /\ e \in AtHand(surface) =>
                              e \in AtHand(surface') \/ (e = surface.current /\ surface'.stage = "take")
  BY AtHandIs
<1>4. ASSUME NEW e PROVE /\ e \in Afoot' => e \in Afoot
                         /\ e \in Afoot => e \in Afoot' \/ (e = surface.current /\ surface'.stage = "take")
  <2>1. e \in Afoot' <=> \/ \E j \in work : e \in StampsOf(j)
                         \/ \E o \in opening : e \in StampsOf(o.item)
                         \/ e \in AtHand(surface')
    BY AfootIs DEF Afoot
  <2>2. e \in Afoot <=> \/ \E j \in work : e \in StampsOf(j)
                        \/ \E o \in opening : e \in StampsOf(o.item)
                        \/ e \in AtHand(surface)
    BY AfootIs DEF Afoot
  <2> QED  BY <1>3, <2>1, <2>2
<1> QED  BY <1>1, <1>2, <1>4

\* The decision in hand is the newest one, or one behind it.
LEMMA InHand ==
  ASSUME Flight, surface.stage # "take"
  PROVE  /\ surface.current \in Afoot /\ surface.current.version \in 1..decisions
         /\ put <= surface.current.version
         /\ surface.current.version = decisions =>
              surface.current.posture = Posture(companion)
<1>1. surface.current \in Afoot
  BY AtHandIs, AfootIs DEF Flight, FlightTypes, Core, InOrder, Afoot
<1>2. /\ surface.current.version \in 1..decisions
      /\ surface.current.version = decisions => surface.current = Stamp(companion, decisions)
  BY <1>1 DEF Flight, Core, InOrder
<1>3. Stamp(companion, decisions).posture = Posture(companion)
  BY StampFits DEF Flight, FlightTypes
<1> QED  BY <1>1, <1>2, <1>3 DEF Flight, Core, InOrder

LEMMA PutWindowsFlies == Flight /\ WindowTypes /\ PutWindows => Flight' /\ RepairsStay /\ TasksStay
<1> SUFFICES ASSUME Flight, WindowTypes, PutWindows PROVE Flight' /\ RepairsStay /\ TasksStay
  OBVIOUS
<1>1. UNCHANGED <<companion, decisions, work, opening, keys, watching>>
  BY DEF PutWindows, showing, timers, microphone
<1>2. /\ FlightTypes /\ Core /\ surface \in Surfaces /\ surface.applying
      /\ surface.stage = "windows" /\ put' = surface.current.version
  BY DEF Flight, FlightTypes, PutWindows
<1>3. /\ surface' \in Surfaces /\ surface'.next = surface.next
      /\ surface'.version = surface.version /\ surface'.applying /\ surface'.own = surface.own
      /\ surface'.waiting = surface.waiting /\ surface'.current = surface.current
      /\ surface'.stage = "draw"
  <2>1. PICK p \in Places(surface.current.posture) :
          surface' = [surface EXCEPT !.ok = p[2], !.stage = "draw"]
    BY DEF PutWindows
  <2>2. p[2] \in BOOLEAN  BY PlacesFit DEF Outcomes, WindowTypes, Screens
  <2> QED  BY <1>2, <2>1, <2>2 DEF Surfaces
<1>4. /\ Threaded' /\ RepairsStay /\ TasksStay /\ Owed' = Owed
      /\ \A e \in Afoot' : e \in Afoot
      /\ \A e \in Afoot : e \in Afoot'
  BY <1>1, <1>2, <1>3, PutFits
<1>5. /\ surface.current \in Afoot /\ surface.current.version \in 1..decisions
      /\ put <= surface.current.version
  BY <1>2, InHand
<1>6. InOrder'
  <2>1. InOrder  BY <1>2 DEF Core
  <2>2. (\A e \in Afoot : /\ e.version \in 1..decisions
                          /\ e.version = decisions => e = Stamp(companion, decisions))'
    BY <1>1, <1>4, <2>1 DEF InOrder
  <2>3. surface.current # NoDecision /\ surface.current.version <= surface.version
    BY <1>2, <2>1 DEF InOrder
  <2> QED  BY <1>1, <1>2, <1>3, <1>5, <2>1, <2>2, <2>3 DEF InOrder
<1>7. NewestGoesOn'
  <2>1. CASE \E e \in Afoot : e.version = decisions
    BY <1>1, <1>4, <2>1 DEF NewestGoesOn
  <2>2. CASE put = decisions
    <3>1. surface.current.version = decisions
      BY <1>2, <1>5, <2>2 DEF FlightTypes
    <3> QED  BY <1>1, <1>4, <1>5, <3>1 DEF NewestGoesOn
  <2> QED  BY <1>2, <2>1, <2>2 DEF Core, NewestGoesOn
<1>8. FlightTypes'
  BY <1>1, <1>2, <1>3, <1>5 DEF FlightTypes
<1> QED  BY <1>4, <1>6, <1>7, <1>8 DEF Flight, Core

LEMMA PutRestFlies == Flight /\ TimerTypes /\ PutRest => Flight' /\ RepairsStay /\ TasksStay
<1> SUFFICES ASSUME Flight, TimerTypes, PutRest PROVE Flight' /\ RepairsStay /\ TasksStay
  OBVIOUS
<1>1. UNCHANGED <<companion, decisions, work, opening, put>>
  BY DEF PutRest, showing
<1>2. /\ FlightTypes /\ Core /\ surface \in Surfaces /\ surface.applying
      /\ surface.stage = "draw" /\ put = surface.current.version
      /\ keys' = OnScreen(surface.current.posture)
      /\ watching' = (watching \/ Textbox(surface.current.posture))
  BY DEF Flight, FlightTypes, PutRest, Core, InOrder, HoldsKeys, Watch, TimerTypes
<1>3. /\ surface' \in Surfaces /\ surface'.next = surface.next
      /\ surface'.version = surface.version /\ surface'.applying /\ surface'.own = surface.own
      /\ surface'.waiting = surface.waiting /\ surface'.current = surface.current
      /\ surface'.stage = "take"
  <2>1. surface' = [surface EXCEPT !.stage = "take"]  BY DEF PutRest
  <2> QED  BY <1>2, <2>1 DEF Surfaces
<1>4. /\ Threaded' /\ RepairsStay /\ TasksStay /\ Owed' = Owed
      /\ \A e \in Afoot' : e \in Afoot
      /\ \A e \in Afoot : e \in Afoot' \/ e = surface.current
  BY <1>1, <1>2, <1>3, PutFits
<1>5. /\ surface.current \in Afoot /\ surface.current.version \in 1..decisions
      /\ surface.current.version = decisions => surface.current.posture = Posture(companion)
  BY <1>2, InHand
<1>6. InOrder'
  <2>1. InOrder  BY <1>2 DEF Core
  <2>2. (\A e \in Afoot : /\ e.version \in 1..decisions
                          /\ e.version = decisions => e = Stamp(companion, decisions))'
    BY <1>1, <1>4, <2>1 DEF InOrder
  <2> QED  BY <1>1, <1>2, <1>3, <2>1, <2>2 DEF InOrder
<1>7. NewestGoesOn'
  <2>1. CASE put = decisions
    <3>1. surface.current.posture = Posture(companion)  BY <1>2, <1>5, <2>1
    <3> QED  BY <1>1, <1>2, <2>1, <3>1 DEF NewestGoesOn
  <2>2. CASE put # decisions
    <3>1. PICK e \in Afoot : e.version = decisions
      BY <1>2, <2>2 DEF Core, NewestGoesOn
    <3>2. e # surface.current  BY <1>2, <2>2, <3>1
    <3> QED  BY <1>1, <1>4, <3>1, <3>2 DEF NewestGoesOn
  <2> QED  BY <2>1, <2>2
<1>8. FlightTypes'
  BY <1>1, <1>2, <1>3 DEF FlightTypes
<1> QED  BY <1>4, <1>6, <1>7, <1>8 DEF Flight, Core

-----------------------------------------------------------------------------
(* The threads.                                                             *)

\* One that does an action and goes on to the next.
LEMMA DidIs ==
  ASSUME NEW i \in Items, i.actions # <<>>
  PROVE  LET b == [i EXCEPT !.actions = Tail(@)]
         IN  b \in Items /\ SameThread(i, b) /\ b.actions = Tail(i.actions) /\ b.decision = i.decision
<1> DEFINE rest == Tail(i.actions)
           b == [i EXCEPT !.actions = rest]
<1>1. rest \in Seq(Acts)  BY DEF Items
<1>2. [i EXCEPT !.actions = Tail(@)] = b  BY Zenon
<1> HIDE DEF rest
<1>3. /\ b \in Items /\ b.actions = rest /\ b.decision = i.decision /\ b.follower = i.follower
      /\ b.followers = i.followers
  BY <1>1 DEF Items
<1> HIDE DEF b
<1>4. SameThread(i, b)  BY <1>3, BehindIs
<1> QED  BY <1>2, <1>3, <1>4 DEF rest

LEMMA PassingFlies ==
  ASSUME Flight,
         UNCHANGED <<companion, decisions, surface, put, keys, watching>>,
         work' \subseteq Items, opening' \subseteq [generation : Nat \ {0}, item : Items],
         SameFlight(work', opening', work, opening, surface),
         NEW gone, NEW come, TasksBut(work', opening', work, opening, surface, gone, come),
         Does(come, {"start"}) => Len(come) = 1,
         \A i \in work' : Alone(i),
         \A o \in opening' : ~Decided(o.item) /\ Len(o.item.actions) = 1
  PROVE  Flight' /\ RepairsStay
<1>1. Core' /\ Owed' = Owed
  BY PassingKeeps DEF Flight
<1>2. FlightTypes'  BY DEF Flight, FlightTypes
<1> QED  BY <1>1, <1>2 DEF Flight, RepairsStay

LEMMA DidFlies ==
  ASSUME Flight, NEW i \in work, i.actions # <<>>, work' = Did(i),
         UNCHANGED <<companion, decisions, surface, put, keys, watching, opening>>
  PROVE  /\ Flight' /\ RepairsStay
         /\ \A kinds : /\ Pending(kinds)' => Pending(kinds)
                       /\ Pending(kinds) => Pending(kinds)' \/ Head(i.actions).kind \in kinds
<1> DEFINE b == [i EXCEPT !.actions = Tail(@)]
<1>1. i \in Items /\ work \subseteq Items /\ i.actions \in Seq(Acts) /\ Threaded
  BY DEF Flight, FlightTypes, Core, Items
<1>2. b \in Items /\ SameThread(i, b) /\ b.actions = Tail(i.actions) /\ b.decision = i.decision
  BY <1>1, DidIs
<1>3. work' = (work \ {i}) \cup (IF Over(b) THEN {} ELSE {b})
  BY DEF Did
<1> HIDE DEF b
<1>4. /\ SameFlight(work', opening', work, opening, surface)
      /\ TasksBut(work', opening', work, opening, surface, i.actions, b.actions)
  BY <1>2, <1>3, MovedOn
<1>5. i.actions \in Tasks  BY TasksAre DEF Tasks
<1>6. ~Does(b.actions, {"start"})
  <2>1. SUFFICES ASSUME Does(b.actions, {"start"}) PROVE FALSE
    OBVIOUS
  <2>2. Does(i.actions, {"start"})  BY <1>1, <1>2, <2>1, TailDoes
  <2>3. Len(i.actions) = 1  BY <1>1, <1>5, <2>2 DEF Threaded
  <2>4. Len(Tail(i.actions)) = 0  BY <1>1, <2>3
  <2> QED  BY <1>2, <2>1, <2>4 DEF Does
<1>7. Flight' /\ RepairsStay
  <2>1. \A j \in work' : Alone(j)
    <3>1. Alone(b)  BY <1>6 DEF Alone
    <3> QED  BY <1>1, <1>3, <3>1 DEF Threaded
  <2>2. work' \subseteq Items /\ opening' \subseteq [generation : Nat \ {0}, item : Items]
    BY <1>1, <1>2, <1>3 DEF Flight, FlightTypes
  <2>3. \A o \in opening' : ~Decided(o.item) /\ Len(o.item.actions) = 1
    BY <1>1 DEF Threaded
  <2> QED  BY <1>4, <1>6, <2>1, <2>2, <2>3, PassingFlies
<1>8. ASSUME NEW kinds
      PROVE  /\ Pending(kinds)' => Pending(kinds)
             /\ Pending(kinds) => Pending(kinds)' \/ Head(i.actions).kind \in kinds
  <2>1. /\ Pending(kinds)' => Pending(kinds) \/ Does(b.actions, kinds)
        /\ Pending(kinds) => Pending(kinds)' \/ Does(i.actions, kinds)
        /\ Does(b.actions, kinds) => Pending(kinds)'
    BY <1>4, PassingTasks
  <2>2. Does(i.actions, kinds) <=> Head(i.actions).kind \in kinds \/ Does(b.actions, kinds)
    BY <1>1, <1>2, TailDoes
  <2>3. Does(i.actions, kinds) => Pending(kinds)  BY <1>5 DEF Pending
  <2> QED  BY <2>1, <2>2, <2>3
<1> QED  BY <1>7, <1>8

\* One that begins: it does nothing but open the microphone.
LEMMA StarterIs ==
  ASSUME Flight, NEW i \in work, Doing(i, {"start"})
  PROVE  i \in Items /\ Does(i.actions, {"start"}) /\ ~Decided(i) /\ Len(i.actions) = 1
         /\ Pending({"start"})
<1>1. i \in Items /\ i.actions \in Seq(Acts) /\ i.actions # <<>> /\ Head(i.actions).kind \in {"start"}
  BY DEF Flight, FlightTypes, Doing, Items
<1>2. Does(i.actions, {"start"})  BY <1>1, TailDoes
<1>3. i.actions \in Tasks  BY TasksAre DEF Tasks
<1> QED  BY <1>1, <1>2, <1>3 DEF Flight, Core, Threaded, Alone, Pending

LEMMA DroppedFits ==
  ASSUME Flight, NEW i \in work, Doing(i, {"start"})
  PROVE  /\ RestFits(Dropped(i)) /\ KeepsRepairs(Dropped(i))
         /\ \A acts \in TasksIn(Dropped(i), opening, surface) : acts \in Tasks \/ acts = <<>>
<1> DEFINE b == [i EXCEPT !.actions = <<>>, !.decision = NoDecision]
           rest == Dropped(i)
<1>1. i \in Items /\ ~Decided(i)  BY StarterIs
<1>2. /\ b \in Items /\ b.actions = <<>> /\ b.decision = i.decision /\ b.follower = i.follower
      /\ b.followers = i.followers
  <2> DEFINE e == [i EXCEPT !.actions = <<>>]
             g == [e EXCEPT !.decision = NoDecision]
  <2>1. <<>> \in Seq(Acts) /\ i.decision = NoDecision /\ NoDecision \in Decisions
    BY <1>1, NoDecisionFits DEF Decided
  <2>2. /\ e \in Items /\ e.actions = <<>> /\ e.decision = NoDecision
        /\ e.follower = i.follower /\ e.followers = i.followers
    BY <1>1, <2>1 DEF Items
  <2>3. b = g  BY <1>1 DEF Items
  <2> HIDE DEF e, b
  <2>4. /\ g \in Items /\ g.actions = <<>> /\ g.decision = NoDecision
        /\ g.follower = i.follower /\ g.followers = i.followers
    BY <2>1, <2>2 DEF Items
  <2> QED  BY <2>1, <2>3, <2>4
<1>3. rest = (work \ {i}) \cup (IF Over(b) THEN {} ELSE {b})
  BY DEF Dropped
<1> HIDE DEF b, rest
<1>4. SameThread(i, b)  BY <1>1, <1>2, BehindIs
<1>5. /\ SameFlight(rest, opening, work, opening, surface)
      /\ TasksBut(rest, opening, work, opening, surface, i.actions, b.actions)
  BY <1>3, <1>4, MovedOn
<1>6. \A acts \in TasksIn(rest, opening, surface) : acts \in Tasks \/ acts = <<>>
  BY <1>2, <1>5 DEF TasksBut, Tasks
<1>7. RestFits(rest)
  <2>1. Alone(b)  BY <1>2, NothingDone DEF Alone
  <2>2. rest \subseteq Items /\ \A j \in rest : Alone(j)
    BY <1>2, <1>3, <2>1 DEF Flight, FlightTypes, Core, Threaded
  <2>3. \A acts \in TasksIn(rest, opening, surface) : Does(acts, {"start"}) => Len(acts) = 1
    BY <1>6, NothingDone DEF Flight, Core, Threaded
  <2> QED  BY <1>5, <2>2, <2>3 DEF RestFits, SameFlight, Owed, Afoot
<1>8. KeepsRepairs(rest)  BY <1>5 DEF KeepsRepairs, SameFlight, Owed
<1> QED  BY <1>6, <1>7, <1>8 DEF rest

LEMMA OpeningFlies ==
  ASSUME Flight, NEW i \in work, Doing(i, {"start"}), generation \in Nat,
         NEW o, o = [generation |-> generation + 1, item |-> i],
         work' = work \ {i}, opening' = opening \cup {o},
         UNCHANGED <<companion, decisions, surface, put, keys, watching>>
  PROVE  /\ Flight' /\ RepairsStay
         /\ \A kinds : /\ Pending(kinds)' => Pending(kinds)
                       /\ Pending(kinds) => Pending(kinds)' \/ "start" \in kinds
<1>1. i \in Items /\ Does(i.actions, {"start"}) /\ ~Decided(i) /\ Len(i.actions) = 1
  BY StarterIs
<1>2. o.item = i /\ o \in [generation : Nat \ {0}, item : Items]
  BY <1>1
<1>3. /\ SameFlight(work', opening', work, opening, surface)
      /\ TasksBut(work', opening', work, opening, surface, i.actions, <<>>)
  BY <1>2, GoesOpening
<1>4. Flight' /\ RepairsStay
  <2>1. \A j \in work' : Alone(j)  BY DEF Flight, Core, Threaded
  <2>2. work' \subseteq Items /\ opening' \subseteq [generation : Nat \ {0}, item : Items]
    BY <1>2 DEF Flight, FlightTypes
  <2>3. \A p \in opening' : ~Decided(p.item) /\ Len(p.item.actions) = 1
    BY <1>1, <1>2 DEF Flight, Core, Threaded
  <2>4. ~Does(<<>>, {"start"})  BY NothingDone
  <2> QED  BY <1>3, <2>1, <2>2, <2>3, <2>4, PassingFlies
<1>5. ASSUME NEW kinds
      PROVE  /\ Pending(kinds)' => Pending(kinds)
             /\ Pending(kinds) => Pending(kinds)' \/ "start" \in kinds
  <2>1. /\ Pending(kinds)' => Pending(kinds) \/ Does(<<>>, kinds)
        /\ Pending(kinds) => Pending(kinds)' \/ Does(i.actions, kinds)
    BY <1>3, PassingTasks
  <2>2. Does(i.actions, kinds) => "start" \in kinds
    <3>1. i.actions[1].kind = "start"
      <4>1. PICK k \in 1..Len(i.actions) : i.actions[k].kind \in {"start"}  BY <1>1 DEF Does
      <4> QED  BY <1>1, <4>1
    <3> QED  BY <1>1, <3>1 DEF Does
  <2> QED  BY <2>1, <2>2, NothingDone
<1> QED  BY <1>4, <1>5

LEMMA OpenedFlies ==
  ASSUME Flight, NEW o \in opening, opening' = opening \ {o},
         work' = (LET b == [o.item EXCEPT !.actions = Tail(@)]
                  IN  work \cup (IF Over(b) THEN {} ELSE {b})),
         UNCHANGED <<companion, decisions, surface, put, keys, watching>>
  PROVE  Flight' /\ RepairsStay /\ TasksStay
<1> DEFINE i == o.item
           b == [i EXCEPT !.actions = Tail(@)]
<1>1. i \in Items /\ i.actions # <<>> /\ i.actions \in Seq(Acts) /\ Len(i.actions) = 1 /\ ~Decided(i)
  <2>1. i \in Items /\ Len(i.actions) = 1 /\ ~Decided(i)
    BY DEF Flight, FlightTypes, Core, Threaded
  <2>2. i.actions \in Seq(Acts)  BY <2>1 DEF Items
  <2> QED  BY <2>1, <2>2
<1>2. b \in Items /\ SameThread(i, b) /\ b.actions = Tail(i.actions) /\ b.decision = i.decision
  BY <1>1, DidIs
<1>3. work' = work \cup (IF Over(b) THEN {} ELSE {b})
  OBVIOUS
<1> HIDE DEF b
<1>4. /\ SameFlight(work', opening', work, opening, surface)
      /\ TasksBut(work', opening', work, opening, surface, <<>>, b.actions)
  BY <1>2, <1>3, ComesBack
<1>5. \A kinds : ~Does(b.actions, kinds)
  <2> SUFFICES ASSUME NEW kinds, Does(b.actions, kinds) PROVE FALSE
    OBVIOUS
  <2>1. Len(b.actions) = 0
    <3>1. Len(Tail(i.actions)) = 0  BY <1>1
    <3> HIDE DEF i
    <3> QED  BY <1>2, <3>1
  <2>2. PICK k \in 1..Len(b.actions) : b.actions[k].kind \in kinds  BY DEF Does
  <2> QED  BY <2>1, <2>2
<1>6. Flight' /\ RepairsStay
  <2>1. \A j \in work' : Alone(j)
    <3>1. Alone(b)  BY <1>5 DEF Alone
    <3> QED  BY <1>3, <3>1 DEF Flight, Core, Threaded
  <2>2. work' \subseteq Items /\ opening' \subseteq [generation : Nat \ {0}, item : Items]
    BY <1>2, <1>3 DEF Flight, FlightTypes
  <2>3. \A p \in opening' : ~Decided(p.item) /\ Len(p.item.actions) = 1
    BY DEF Flight, Core, Threaded
  <2> QED  BY <1>4, <1>5, <2>1, <2>2, <2>3, PassingFlies
<1>7. TasksStay
  <2> SUFFICES ASSUME NEW kinds PROVE Pending(kinds)' <=> Pending(kinds)
    BY DEF TasksStay
  <2>1. /\ Pending(kinds)' => Pending(kinds) \/ Does(b.actions, kinds)
        /\ Pending(kinds) => Pending(kinds)' \/ Does(<<>>, kinds)
    BY <1>4, PassingTasks
  <2> QED  BY <1>5, <2>1, NothingDone
<1> QED  BY <1>6, <1>7

\* One that turns to its next follower.
Among(x, fs) == \E k \in 1..Len(fs) : x = fs[k]

LEMMA TailHas ==
  ASSUME NEW S, NEW fs \in Seq(S), fs # <<>>, NEW x
  PROVE  /\ Tail(fs) \in Seq(S) /\ Head(fs) \in S
         /\ Among(x, fs) <=> x = Head(fs) \/ Among(x, Tail(fs))
<1> DEFINE g == Tail(fs)
<1>1. /\ g \in Seq(S) /\ Len(fs) \in Nat \ {0} /\ Len(g) = Len(fs) - 1 /\ Head(fs) = fs[1]
      /\ Head(fs) \in S /\ \A k \in 1..Len(fs) - 1 : g[k] = fs[k + 1]
  OBVIOUS
<1> HIDE DEF g
<1>2. ASSUME NEW k \in 1..Len(fs), x = fs[k] PROVE x = Head(fs) \/ \E m \in 1..Len(g) : x = g[m]
  <2>1. CASE k = 1  BY <1>1, <1>2, <2>1
  <2>2. CASE k # 1
    <3>1. k - 1 \in 1..Len(fs) - 1 /\ (k - 1) + 1 = k  BY <1>1, <2>2
    <3>2. k - 1 \in 1..Len(g) /\ g[k - 1] = fs[k]  BY <1>1, <3>1
    <3> QED  BY <1>2, <3>2
  <2> QED  BY <2>1, <2>2
<1>3. ASSUME NEW m \in 1..Len(g), x = g[m] PROVE \E k \in 1..Len(fs) : x = fs[k]
  <2>1. m \in 1..Len(fs) - 1 /\ m + 1 \in 1..Len(fs)  BY <1>1
  <2>2. fs[m + 1] = x  BY <1>1, <1>3, <2>1
  <2> QED  BY <2>1, <2>2
<1>4. 1 \in 1..Len(fs)  BY <1>1
<1> QED  BY <1>1, <1>2, <1>3, <1>4 DEF g, Among

\* What the threads are without the follower one has turned to.
Turned(V, i, f) ==
  /\ \A x : x \in OwedIn(V, opening, surface) => x \in Owed
  /\ \A x \in Owed : x \in OwedIn(V, opening, surface) \/ x = f
  /\ AfootIn(V, opening, surface) = Afoot

LEMMA FollowerIs ==
  ASSUME Flight, NEW i \in work, i.actions = <<>>, i.decision = NoDecision, i.followers # <<>>,
         NEW acts \in Seq(Acts), NEW b,
         b \in {[i EXCEPT !.followers = Tail(@)],
                [[i EXCEPT !.followers = Tail(@)] EXCEPT !.actions = acts]},
         NEW V, V = (work \ {i}) \cup (IF Over(b) THEN {} ELSE {b})
  PROVE  /\ i \in Items /\ Head(i.followers) \in Followers /\ Head(i.followers) \in Owed
         /\ b \in Items /\ ~Decided(b) /\ (b.actions = <<>> \/ b.actions = acts)
         /\ b = [[i EXCEPT !.followers = Tail(@)] EXCEPT !.actions = acts] => b.actions = acts
         /\ Turned(V, i, Head(i.followers))
<1> DEFINE fs == i.followers
           c == [i EXCEPT !.followers = Tail(@)]
           e == [c EXCEPT !.actions = acts]
<1>1. i \in Items /\ fs \in Seq(Followers) /\ fs # <<>> /\ ~Decided(i) /\ work \subseteq Items
  BY DEF Flight, FlightTypes, Items, Decided
<1>2. Tail(fs) \in Seq(Followers) /\ Head(fs) \in Followers
  BY <1>1, TailHas
<1>3. c \in Items /\ c.actions = <<>> /\ c.decision = NoDecision /\ c.followers = Tail(fs)
  <2> DEFINE g == Tail(fs)
             d == [i EXCEPT !.followers = g]
  <2>1. c = d  BY Zenon
  <2> HIDE DEF g, c
  <2>2. d \in Items /\ d.actions = <<>> /\ d.decision = NoDecision /\ d.followers = g
    BY <1>1, <1>2 DEF Items, g
  <2> QED  BY <2>1, <2>2 DEF g
<1>4. e \in Items /\ e.actions = acts /\ e.decision = NoDecision /\ e.followers = Tail(fs)
  <2> HIDE DEF c
  <2> QED  BY <1>3 DEF Items
<1>5. b = c \/ b = e  OBVIOUS
<1>6. /\ b \in Items /\ ~Decided(b) /\ (b.actions = <<>> \/ b.actions = acts)
      /\ b.decision = NoDecision /\ b.followers = Tail(fs)
      /\ b = e => b.actions = acts
  <2> HIDE DEF c, e, fs
  <2> QED  BY <1>3, <1>4, <1>5 DEF Decided
<1>7. b = [[i EXCEPT !.followers = Tail(@)] EXCEPT !.actions = acts] => b.actions = acts
  BY <1>6
<1> HIDE DEF c, e
<1>8. \A x : x \in Owing(i) <=> x = Head(fs) \/ \E k \in 1..Len(Tail(fs)) : x = Tail(fs)[k]
  <2> TAKE x
  <2>1. x \in Owing(i) <=> \E k \in 1..Len(fs) : x = fs[k]  BY <1>1, OwingIs
  <2> HIDE DEF fs
  <2>2. (\E k \in 1..Len(fs) : x = fs[k])
          <=> x = Head(fs) \/ \E k \in 1..Len(Tail(fs)) : x = Tail(fs)[k]
    <3>1. Among(x, fs) <=> x = Head(fs) \/ Among(x, Tail(fs))  BY <1>1, TailHas
    <3> QED  BY <3>1 DEF Among
  <2> QED  BY <2>1, <2>2
<1>9. \A x : x \in Owing(b) <=> \E k \in 1..Len(Tail(fs)) : x = Tail(fs)[k]
  <2> TAKE x
  <2>1. x \in Owing(b) <=> \E k \in 1..Len(b.followers) : x = b.followers[k]
    BY <1>6, OwingIs
  <2> HIDE DEF fs
  <2> QED  BY <1>6, <2>1
<1>10. Over(b) => \A x : x \notin Owing(b)
  <2> SUFFICES ASSUME Over(b), NEW x \in Owing(b) PROVE FALSE
    OBVIOUS
  <2>1. Len(b.followers) = 0  BY DEF Over
  <2>2. \E k \in 1..Len(b.followers) : x = b.followers[k]  BY <1>6, OwingIs
  <2> QED  BY <2>1, <2>2
<1>11. (\A x : x \notin StampsOf(i)) /\ (\A x : x \notin StampsOf(b))
  BY <1>1, <1>6, OwingIs
<1>12. /\ \A j \in V : j \in work \/ j = b
       /\ \A j \in work : j \in V \/ j = i
       /\ b \in V \/ Over(b)
  OBVIOUS
<1>13. Head(fs) \in Owed
  BY <1>8, OwedIs DEF Owed
<1> HIDE DEF fs
<1>14. \A x : x \in OwedIn(V, opening, surface) => x \in Owed
  <2> SUFFICES ASSUME NEW x \in OwedIn(V, opening, surface) PROVE x \in Owed
    OBVIOUS
  <2>1. \/ \E j \in V : x \in Owing(j)
        \/ \E o \in opening : x \in Owing(o.item)
        \/ x \in HeldBy(surface)
    BY OwedIs
  <2>2. (\E j \in V : x \in Owing(j)) => \E j \in work : x \in Owing(j)
    BY <1>8, <1>9, <1>12
  <2> QED  BY <2>1, <2>2, OwedIs DEF Owed
<1>15. \A x \in Owed : x \in OwedIn(V, opening, surface) \/ x = Head(fs)
  <2> SUFFICES ASSUME NEW x \in Owed, x # Head(fs) PROVE x \in OwedIn(V, opening, surface)
    OBVIOUS
  <2>1. \/ \E j \in work : x \in Owing(j)
        \/ \E o \in opening : x \in Owing(o.item)
        \/ x \in HeldBy(surface)
    BY OwedIs DEF Owed
  <2>2. (\E j \in work : x \in Owing(j)) => \E j \in V : x \in Owing(j)
    BY <1>8, <1>9, <1>10, <1>12
  <2> QED  BY <2>1, <2>2, OwedIs
<1>16. \A x : x \in AfootIn(V, opening, surface) <=> x \in Afoot
  <2> TAKE x
  <2>1. (\E j \in work : x \in StampsOf(j)) <=> \E j \in V : x \in StampsOf(j)
    BY <1>11, <1>12
  <2> QED  BY <2>1, AfootIs DEF Afoot
<1>17. AfootIn(V, opening, surface) = Afoot  BY <1>16
<1> QED  BY <1>1, <1>2, <1>6, <1>7, <1>13, <1>14, <1>15, <1>17 DEF Turned, fs

LEMMA TurnedTasks ==
  ASSUME NEW V, NEW i, NEW f, Turned(V, i, f), NEW a,
         \A v \in V : v \in work \/ v.actions = a \/ v.actions = <<>>,
         \A w \in work : w \in V \/ w.actions = <<>>,
         (\E v \in V : v.actions = a) \/ a = <<>>
  PROVE  /\ \A acts \in TasksIn(V, opening, surface) : acts \in Tasks \/ acts = a \/ acts = <<>>
         /\ \A acts \in Tasks : acts \in TasksIn(V, opening, surface) \/ acts = <<>> \/ acts = f.actions
         /\ a \in TasksIn(V, opening, surface) \/ a = <<>>
<1>1. \A acts \in TasksIn(V, opening, surface) : acts \in Tasks \/ acts = a \/ acts = <<>>
  <2> TAKE acts \in TasksIn(V, opening, surface)
  <2>1. (\E v \in V : acts = v.actions) \/ (\E x \in OwedIn(V, opening, surface) : acts = x.actions)
    BY TasksAre
  <2>2. (\E x \in OwedIn(V, opening, surface) : acts = x.actions) => \E x \in Owed : acts = x.actions
    BY DEF Turned
  <2>3. (\E v \in V : acts = v.actions) => acts = a \/ acts = <<>> \/ \E v \in work : acts = v.actions
    OBVIOUS
  <2> QED  BY <2>1, <2>2, <2>3, TasksAre DEF Tasks, Owed
<1>2. \A acts \in Tasks : acts \in TasksIn(V, opening, surface) \/ acts = <<>> \/ acts = f.actions
  <2> TAKE acts \in Tasks
  <2>1. (\E v \in work : acts = v.actions) \/ (\E x \in Owed : acts = x.actions)
    BY TasksAre DEF Tasks, Owed
  <2>2. (\E x \in Owed : acts = x.actions) =>
          acts = f.actions \/ \E x \in OwedIn(V, opening, surface) : acts = x.actions
    BY DEF Turned
  <2>3. (\E v \in work : acts = v.actions) => acts = <<>> \/ \E v \in V : acts = v.actions
    OBVIOUS
  <2> QED  BY <2>1, <2>2, <2>3, TasksAre
<1>3. a \in TasksIn(V, opening, surface) \/ a = <<>>  BY TasksAre
<1> QED  BY <1>1, <1>2, <1>3

LEMMA TurnedFlies ==
  ASSUME Flight, UNCHANGED <<companion, decisions, surface, put, keys, watching, opening>>,
         work' \subseteq Items, \A j \in work' : Alone(j),
         NEW i, NEW f, Turned(work', i, f),
         \A acts \in TasksIn(work', opening, surface) : acts \in Tasks \/ acts = <<>>
  PROVE  Flight'
<1>1. Owed' = OwedIn(work', opening, surface) /\ Afoot' = Afoot
      /\ Tasks' = TasksIn(work', opening, surface)
  BY DEF Owed, Afoot, Tasks, Turned
<1>2. \A x \in Owed' : x \in Owed  BY <1>1 DEF Turned
<1>3. Threaded'
  <2>1. (\A j \in work : Alone(j))'  BY DEF Alone
  <2>2. (\A acts \in Tasks : Does(acts, {"start"}) => Len(acts) = 1)'
    BY <1>1, NothingDone DEF Flight, Core, Threaded
  <2>3. (\A o \in opening : ~Decided(o.item) /\ Len(o.item.actions) = 1)'
    BY DEF Flight, Core, Threaded, Decided
  <2>4. (\A x \in Owed : x.kind = "repair" => x.left # 0)'
    BY <1>2 DEF Flight, Core, Threaded
  <2> QED  BY <2>1, <2>2, <2>3, <2>4 DEF Threaded
<1>4. InOrder'  BY <1>1 DEF Flight, Core, InOrder
<1>5. NewestGoesOn'  BY <1>1 DEF Flight, Core, NewestGoesOn
<1>6. FlightTypes'  BY DEF Flight, FlightTypes
<1> QED  BY <1>3, <1>4, <1>5, <1>6 DEF Flight, Core

LEMMA FollowFlies ==
  Flight /\ TimerTypes /\ RepairGoesOn /\ Follow =>
    /\ Flight' /\ RepairGoesOn'
    /\ (companion' = companion /\ TasksStay) \/ companion'.phase = "resting"
<1> SUFFICES ASSUME Flight, TimerTypes, RepairGoesOn, Follow
             PROVE  /\ Flight' /\ RepairGoesOn'
                    /\ (companion' = companion /\ TasksStay) \/ companion'.phase = "resting"
  OBVIOUS
<1> DEFINE Behind(i) == [i EXCEPT !.followers = Tail(@)]
           Rest(i) == (work \ {i}) \cup (IF Over(Behind(i)) THEN {} ELSE {Behind(i)})
           First(i) == Head(i.followers)
           Goes(i) == [Behind(i) EXCEPT !.actions = First(i).actions]
<1>1. PICK i \in work :
        /\ i.actions = <<>> /\ i.decision = NoDecision /\ i.followers # <<>>
        /\ CASE First(i).kind = "carry" /\ i.ok ->
                  /\ work' = IF First(i).actions = <<>> THEN Rest(i) ELSE (work \ {i}) \cup {Goes(i)}
                  /\ UNCHANGED <<companion, decisions, repairing, chains>>
             [] First(i).kind = "carry" /\ ~i.ok ->
                  /\ Decide(Abandon(companion), Rest(i),
                            LAMBDA d, decision : Item(d.actions, decision, Nothing, <<>>, TRUE))
                  /\ UNCHANGED <<repairing, chains>>
             [] First(i).kind = "repair" ->
                  work' = Rest(i) /\ AskAgain(First(i)) /\ UNCHANGED <<companion, decisions>>
             [] OTHER -> work' = Rest(i) /\ UNCHANGED <<companion, decisions, repairing, chains>>
  BY DEF Follow
<1>2. UNCHANGED <<surface, put, keys, watching, opening>>
  BY DEF Follow, windows, microphone
<1> DEFINE f == First(i)
           b == Behind(i)
           z == Goes(i)
           rest == Rest(i)
<1>3. /\ b \in Items /\ ~Decided(b) /\ b.actions = <<>>
      /\ Turned(rest, i, f) /\ f \in Followers /\ f \in Owed
  <2>1. <<>> \in Seq(Acts)  OBVIOUS
  <2>2. b \in {b, [b EXCEPT !.actions = <<>>]}  OBVIOUS
  <2>3. rest = (work \ {i}) \cup (IF Over(b) THEN {} ELSE {b})  OBVIOUS
  <2> HIDE DEF rest
  <2> QED  BY <1>1, <2>1, <2>2, <2>3, FollowerIs
<1>4. work \subseteq Items /\ \A j \in work : Alone(j)
  BY DEF Flight, FlightTypes, Core, Threaded
<1>5. f.actions \in Seq(Acts) /\ f.actions \in Tasks /\ (f.kind # "carry" => f.actions = <<>>)
      /\ (f.kind = "repair" => f.left \in 1..Repairs)
  <2>1. f.actions \in Tasks  BY <1>3, TasksAre DEF Tasks, Owed
  <2> QED  BY <1>3, <2>1, BoundsAssumption DEF Followers, Flight, Core, Threaded
<1> HIDE DEF f, b, z, rest
<1>6. /\ \A acts \in TasksIn(rest, opening, surface) : acts \in Tasks \/ acts = <<>>
      /\ \A acts \in Tasks : acts \in TasksIn(rest, opening, surface) \/ acts = <<>> \/ acts = f.actions
      /\ rest \subseteq Items /\ \A j \in rest : Alone(j)
  <2>1. rest = (work \ {i}) \cup (IF Over(b) THEN {} ELSE {b})  BY DEF rest, b
  <2>2. Alone(b)  BY <1>3 DEF Alone
  <2>3. /\ \A v \in rest : v \in work \/ v.actions = <<>> \/ v.actions = <<>>
        /\ \A w \in work : w \in rest \/ w.actions = <<>>
    BY <1>1, <1>3, <2>1
  <2>4. /\ \A acts \in TasksIn(rest, opening, surface) : acts \in Tasks \/ acts = <<>>
        /\ \A acts \in Tasks : acts \in TasksIn(rest, opening, surface) \/ acts = <<>> \/ acts = f.actions
    <3> DEFINE a == <<>>
    <3>1. /\ \A v \in rest : v \in work \/ v.actions = a \/ v.actions = <<>>
          /\ (\E v \in rest : v.actions = a) \/ a = <<>>
      BY <2>3
    <3> HIDE DEF a
    <3>2. /\ \A acts \in TasksIn(rest, opening, surface) : acts \in Tasks \/ acts = a \/ acts = <<>>
          /\ \A acts \in Tasks : acts \in TasksIn(rest, opening, surface) \/ acts = <<>> \/ acts = f.actions
      BY <1>3, <2>3, <3>1, TurnedTasks
    <3> QED  BY <3>2 DEF a
  <2> QED  BY <1>3, <1>4, <2>1, <2>2, <2>4
<1>7. ASSUME UNCHANGED <<companion, decisions>>, work' = rest, f.actions = <<>>
      PROVE  Flight' /\ TasksStay
  <2>1. Flight'  BY <1>2, <1>3, <1>6, <1>7, TurnedFlies
  <2>2. TasksStay
    <3> SUFFICES ASSUME NEW kinds PROVE Pending(kinds)' <=> Pending(kinds)
      BY DEF TasksStay
    <3>1. Tasks' = TasksIn(rest, opening, surface)  BY <1>2, <1>7 DEF Tasks
    <3>2. Pending(kinds)' <=> \E acts \in Tasks' : Does(acts, kinds)  BY DEF Pending, Does
    <3> QED  BY <1>6, <1>7, <3>1, <3>2, NothingDone DEF Pending
  <2> QED  BY <2>1, <2>2
<1>8. ASSUME UNCHANGED <<repairing, chains>>, f.kind # "repair",
             \A x \in Owed : x \in Owed' \/ x = f
      PROVE  RepairGoesOn'
  BY <1>8 DEF RepairGoesOn
<1>9. work' = rest /\ opening' = opening /\ surface' = surface => \A x \in Owed : x \in Owed' \/ x = f
  BY <1>3 DEF Turned, Owed
<1>10. CASE f.kind = "carry" /\ i.ok /\ f.actions = <<>>
  <2>1. work' = rest /\ UNCHANGED <<companion, decisions, repairing, chains>>
    BY <1>1, <1>10 DEF f, rest
  <2> QED  BY <1>2, <1>7, <1>8, <1>9, <1>10, <2>1
<1>11. CASE f.kind = "carry" /\ i.ok /\ f.actions # <<>>
  <2>1. work' = (work \ {i}) \cup {z} /\ UNCHANGED <<companion, decisions, repairing, chains>>
    BY <1>1, <1>11 DEF f, z
  <2>2. /\ z \in Items /\ ~Decided(z) /\ z.actions = f.actions /\ Turned(work', i, f)
    <3>1. z = [[i EXCEPT !.followers = Tail(@)] EXCEPT !.actions = f.actions]
      BY DEF z, f
    <3>2. z \in {[i EXCEPT !.followers = Tail(@)],
                 [[i EXCEPT !.followers = Tail(@)] EXCEPT !.actions = f.actions]}
      BY <3>1
    <3> DEFINE V == (work \ {i}) \cup (IF Over(z) THEN {} ELSE {z})
    <3>3. V = (work \ {i}) \cup (IF Over(z) THEN {} ELSE {z})  OBVIOUS
    <3> HIDE DEF V
    <3>4. z \in Items /\ ~Decided(z) /\ z.actions = f.actions /\ Turned(V, i, Head(i.followers))
      BY <1>1, <1>5, <3>1, <3>2, <3>3, FollowerIs
    <3>5. ~Over(z)  BY <1>11, <3>4 DEF Over
    <3>6. V = work'  BY <2>1, <3>3, <3>5
    <3> QED  BY <3>4, <3>6 DEF f
  <2>3. /\ \A acts \in TasksIn(work', opening, surface) : acts \in Tasks \/ acts = <<>>
        /\ \A acts \in Tasks : acts \in TasksIn(work', opening, surface) \/ acts = <<>>
    <3>1. /\ \A v \in work' : v \in work \/ v.actions = f.actions \/ v.actions = <<>>
          /\ \A w \in work : w \in work' \/ w.actions = <<>>
          /\ \E v \in work' : v.actions = f.actions
      BY <1>1, <2>1, <2>2
    <3>2. /\ \A acts \in TasksIn(work', opening, surface) : acts \in Tasks \/ acts = f.actions \/ acts = <<>>
          /\ \A acts \in Tasks : acts \in TasksIn(work', opening, surface) \/ acts = <<>> \/ acts = f.actions
          /\ f.actions \in TasksIn(work', opening, surface) \/ f.actions = <<>>
      BY <2>2, <3>1, TurnedTasks
    <3> QED  BY <1>5, <3>2
  <2>4. work' \subseteq Items /\ \A j \in work' : Alone(j)
    <3>1. Alone(z)  BY <2>2 DEF Alone
    <3> QED  BY <1>4, <2>1, <2>2, <3>1
  <2>5. Flight'  BY <1>2, <2>1, <2>2, <2>3, <2>4, TurnedFlies
  <2>6. TasksStay
    <3> SUFFICES ASSUME NEW kinds PROVE Pending(kinds)' <=> Pending(kinds)
      BY DEF TasksStay
    <3>1. Tasks' = TasksIn(work', opening, surface)  BY <1>2 DEF Tasks
    <3>2. Pending(kinds)' <=> \E acts \in Tasks' : Does(acts, kinds)  BY DEF Pending, Does
    <3> QED  BY <2>3, <3>1, <3>2, NothingDone DEF Pending
  <2>7. \A x \in Owed : x \in Owed' \/ x = f
    BY <1>2, <2>2 DEF Turned, Owed
  <2> QED  BY <1>8, <1>11, <2>1, <2>5, <2>6, <2>7
<1>12. CASE f.kind = "carry" /\ ~i.ok
  <2> DEFINE d == Abandon(companion)
             y == Item(d.actions, Stamp(d.companion, decisions + 1), Nothing, <<>>, TRUE)
  <2>1. companion' = d.companion /\ Deciding(rest, y) /\ UNCHANGED <<repairing, chains>>
    BY <1>1, <1>2, <1>12 DEF f, rest, Decide, Deciding
  <2>2. companion \in Companions /\ decisions + 1 \in Nat
    BY DEF Flight, FlightTypes
  <2>3. Quietly(companion, d) /\ d.companion.phase = "resting"
    BY <2>2, AbandonIs
  <2>4. d.companion \in Companions /\ d.actions \in Seq(Acts) /\ ~Does(d.actions, {"start"})
    BY <2>3 DEF Quietly, Does
  <2> HIDE DEF d
  <2>5. Messenger(y, d.companion, decisions + 1) /\ y.actions = d.actions /\ y.follower = Nothing
    <3>1. Sends(y, d.actions, Stamp(d.companion, decisions + 1), Nothing)  BY DEF Sends
    <3>2. Nothing \in Followers /\ Nothing.kind = "nothing" /\ Nothing.actions = <<>>
          /\ ~Does(Nothing.actions, {"start"})
      BY FollowerFits, NothingDone
    <3> HIDE DEF y
    <3> QED  BY <2>2, <2>4, <3>1, <3>2, MessengerIs
  <2> HIDE DEF y
  <2>6. RestFits(rest)
    <3>1. \A acts \in TasksIn(rest, opening, surface) : Does(acts, {"start"}) => Len(acts) = 1
      BY <1>6, NothingDone DEF Flight, Core, Threaded
    <3>2. OwedIn(rest, opening, surface) \subseteq Owed /\ AfootIn(rest, opening, surface) \subseteq Afoot
      BY <1>3 DEF Turned
    <3> QED  BY <1>6, <3>1, <3>2 DEF RestFits
  <2>7. Flight' /\ Owed' = OwedIn(rest, opening, surface) \cup {y.follower}
    BY <2>1, <2>4, <2>5, <2>6, DecidingFlies
  <2>8. \A x \in Owed : x \in Owed' \/ x = f
    BY <1>3, <2>7 DEF Turned
  <2> QED  BY <1>8, <1>12, <2>1, <2>3, <2>7, <2>8
<1>13. CASE f.kind = "repair"
  <2>1. work' = rest /\ AskAgain(f) /\ UNCHANGED <<companion, decisions>> /\ f.actions = <<>>
    BY <1>1, <1>5, <1>13 DEF f, rest
  <2>2. chains' # <<>> \/ ~repairing'
    <3>1. chains \in Seq(1..Repairs) /\ f.left - 1 \in Int
      BY <1>5, <1>13 DEF TimerTypes
    <3>2. \A S, s, e : s \in Seq(S) /\ e \in Int => Append(s, e) # <<>>
      OBVIOUS
    <3>3. Append(chains, f.left - 1) # <<>>  BY <3>1, <3>2
    <3> QED  BY <2>1, <3>3 DEF AskAgain
  <2>3. RepairGoesOn'  BY <2>2 DEF RepairGoesOn
  <2> QED  BY <1>7, <2>1, <2>3
<1>14. CASE f.kind \notin {"carry", "repair"}
  <2>1. work' = rest /\ UNCHANGED <<companion, decisions, repairing, chains>> /\ f.actions = <<>>
    BY <1>1, <1>5, <1>14 DEF f, rest
  <2> QED  BY <1>2, <1>7, <1>8, <1>9, <1>14, <2>1
<1> QED  BY <1>10, <1>11, <1>12, <1>13, <1>14

-----------------------------------------------------------------------------
(* The decisions, by the action.                                            *)

LEMMA HandlingOn ==
  ASSUME NEW e, NEW rest, HandleFrom(e, rest), UNCHANGED <<opening, surface, put>>
  PROVE  Handled(Apply(companion, e), rest)
  BY DEF HandleFrom, Decide, Handled, Deciding

\* What is pending once the companion has decided d.
AlsoPending(d) == \A kinds : Pending(kinds)' <=> Pending(kinds) \/ Does(d.actions, kinds)

LEMMA EventFlies ==
  ASSUME Flight, NEW e, HandleFrom(e, work), UNCHANGED <<opening, surface, put>>,
         NEW d, d = Apply(companion, e),
         Quietly(companion, d) \/ Starts(companion, d) \/ Stops(companion, d)
  PROVE  Flight' /\ RepairsStay /\ AlsoPending(d) /\ companion' = d.companion
<1>1. RestFits(work)  BY AllTheRest DEF Flight
<1>2. Handled(d, work)  BY HandlingOn
<1>3. KeepsRepairs(work)  BY DEF KeepsRepairs, Owed
<1>4. /\ Flight'
      /\ \A f \in Owed : f.kind = "repair" => f \in Owed'
      /\ \A acts \in Tasks' : acts \in Tasks \/ acts = d.actions \/ acts = <<>>
      /\ \A acts : acts \in Tasks \/ acts = d.actions => acts \in Tasks'
  BY <1>1, <1>2, <1>3, HandledFlies DEF Tasks
<1>5. AlsoPending(d)
  <2> SUFFICES ASSUME NEW kinds PROVE Pending(kinds)' <=> Pending(kinds) \/ Does(d.actions, kinds)
    BY DEF AlsoPending
  <2>1. Pending(kinds)' <=> \E acts \in Tasks' : Does(acts, kinds)  BY DEF Pending, Does
  <2>2. Pending(kinds) <=> \E acts \in Tasks : Does(acts, kinds)  BY DEF Pending
  <2> QED  BY <1>4, <2>1, <2>2, NothingDone
<1> QED  BY <1>2, <1>4, <1>5 DEF RepairsStay, Handled

\* A decision nobody waits for, with whatever follows its showing.
Bare(z, e, f) == z = Item(<<>>, e, f, <<>>, TRUE)

LEMMA PublishFlies ==
  ASSUME Flight, NEW c \in Companions, companion' = c, NEW f \in Followers, f.actions = <<>>,
         f.kind = "repair" => f.left # 0,
         NEW z, Bare(z, Stamp(c, decisions + 1), f), Deciding(work, z)
  PROVE  Flight' /\ RepairsStay /\ TasksStay /\ f \in Owed'
<1>1. RestFits(work) /\ decisions + 1 \in Nat  BY AllTheRest DEF Flight, FlightTypes
<1> DEFINE none == <<>>
<1>2. none \in Seq(Acts) /\ ~Does(none, {"start"}) /\ ~Does(f.actions, {"start"})
  BY NothingDone
<1>3. Sends(z, none, Stamp(c, decisions + 1), f)  BY DEF Sends, Bare
<1> HIDE DEF none
<1>4. Messenger(z, c, decisions + 1) /\ z.actions = none /\ z.follower = f
  BY <1>1, <1>2, <1>3, MessengerIs
<1>5. /\ Flight'
      /\ Owed' = OwedIn(work, opening, surface) \cup {z.follower}
      /\ \A acts : acts \in Tasks' <=> \/ acts \in TasksIn(work, opening, surface)
                                        \/ acts = z.actions \/ acts = z.follower.actions
  BY <1>1, <1>4, DecidingFlies
<1>6. RepairsStay  BY <1>5 DEF RepairsStay, Owed
<1>7. TasksStay
  <2> SUFFICES ASSUME NEW kinds PROVE Pending(kinds)' <=> Pending(kinds)
    BY DEF TasksStay
  <2>1. Pending(kinds)' <=> \E acts \in Tasks' : Does(acts, kinds)  BY DEF Pending, Does
  <2>2. Pending(kinds) <=> \E acts \in Tasks : Does(acts, kinds)  BY DEF Pending
  <2>3. \A acts : acts \in Tasks' <=> acts \in Tasks \/ acts = <<>>
    BY <1>4, <1>5 DEF none, Tasks
  <2> QED  BY <2>1, <2>2, <2>3, NothingDone
<1> QED  BY <1>4, <1>5, <1>6, <1>7

LEMMA NothingFits ==
  Nothing \in Followers /\ Nothing.actions = <<>> /\ (Nothing.kind = "repair" => Nothing.left # 0)
<1>1. Nothing \in Followers /\ Nothing.kind = "nothing" /\ Nothing.actions = <<>>
  BY FollowerFits
<1> QED  BY <1>1, Zenon

LEMMA ReportFlies ==
  Flight /\ Report =>
    /\ Flight' /\ RepairsStay /\ TasksStay
    /\ companion' \in {[companion EXCEPT !.working = ~@], ReportTrouble(companion)}
<1> SUFFICES ASSUME Flight, Report
             PROVE  /\ Flight' /\ RepairsStay /\ TasksStay
                    /\ companion' \in {[companion EXCEPT !.working = ~@], ReportTrouble(companion)}
  OBVIOUS
<1>1. PICK c \in {[companion EXCEPT !.working = ~@], ReportTrouble(companion)} :
        Decide(Done(c, <<>>), work,
               LAMBDA d, decision : Item(<<>>, decision, Nothing, <<>>, TRUE))
  BY DEF Report
<1>2. UNCHANGED <<opening, surface, put>>  BY DEF Report, windows, microphone
<1>3. companion \in Companions  BY DEF Flight, FlightTypes
<1>4. c \in Companions
  <2>1. Quietly(companion, Done(c, <<>>))  BY <1>3, ReportIs
  <2>2. Done(c, <<>>).companion = c  BY DEF Done
  <2> QED  BY <2>1, <2>2 DEF Quietly
<1> DEFINE z == Item(<<>>, Stamp(c, decisions + 1), Nothing, <<>>, TRUE)
<1>5. companion' = c /\ Deciding(work, z)
  BY <1>1, <1>2 DEF Decide, Deciding, Done
<1>6. Bare(z, Stamp(c, decisions + 1), Nothing)  BY DEF Bare
<1> HIDE DEF z
<1>7. Flight' /\ RepairsStay /\ TasksStay
  BY <1>4, <1>5, <1>6, NothingFits, PublishFlies
<1> QED  BY <1>1, <1>5, <1>7

LEMMA LookOnFlies == Flight /\ LookOn => Flight' /\ RepairsStay /\ TasksStay /\ companion' = companion
<1> SUFFICES ASSUME Flight, LookOn
             PROVE  Flight' /\ RepairsStay /\ TasksStay /\ companion' = companion
  OBVIOUS
<1>2. UNCHANGED <<opening, surface, put>>  BY DEF LookOn, windows, microphone
<1>3. companion \in Companions  BY DEF Flight, FlightTypes
<1> DEFINE z == Item(<<>>, Stamp(companion, decisions + 1), Nothing, <<>>, TRUE)
<1>5. companion' = companion /\ Deciding(work, z)
  BY <1>2 DEF LookOn, Decide, Deciding, Done
<1>6. Bare(z, Stamp(companion, decisions + 1), Nothing)  BY DEF Bare
<1> HIDE DEF z
<1> QED  BY <1>3, <1>5, <1>6, NothingFits, PublishFlies

LEMMA RepairDueFlies ==
  Flight /\ TimerTypes /\ RepairDue => Flight' /\ RepairGoesOn' /\ TasksStay
<1> SUFFICES ASSUME Flight, TimerTypes, RepairDue
             PROVE  Flight' /\ RepairGoesOn' /\ TasksStay
  OBVIOUS
<1> DEFINE e == Stamp(companion, decisions + 1)
           f == Chain(Head(chains), e.posture)
           z == Item(<<>>, e, f, <<>>, TRUE)
<1>1. companion \in Companions /\ decisions + 1 \in Nat  BY DEF Flight, FlightTypes
<1>2. companion' = companion /\ Deciding(work, z)
  BY DEF RepairDue, Deciding, windows, microphone
<1>3. e.posture \in Postures
  BY <1>1, StampFits, PostureFits
<1>4. Head(chains) \in 1..Repairs
  <2>1. chains # <<>>  BY Zenon DEF RepairDue
  <2>2. chains \in Seq(1..Repairs)  BY DEF TimerTypes
  <2> HIDE DEF RepairDue
  <2>3. \A S, s : s \in Seq(S) /\ s # <<>> => Head(s) \in S  OBVIOUS
  <2> QED  BY <2>1, <2>2, <2>3, Zenon
<1>5. Head(chains) \in 0..Repairs /\ Head(chains) # 0
  BY <1>4, BoundsAssumption
<1>6. f \in Followers /\ f.kind = "repair" /\ f.left # 0 /\ f.actions = <<>>
  <2> DEFINE h == Head(chains)
             w == e.posture
  <2>1. h \in 0..Repairs /\ h # 0 /\ w \in Postures  BY <1>3, <1>5
  <2> HIDE DEF h, w
  <2>2. Chain(h, w) \in Followers /\ Chain(h, w).kind = "repair"
        /\ Chain(h, w).left = h /\ Chain(h, w).actions = <<>>
    BY <2>1, FollowerFits
  <2> QED  BY <2>1, <2>2 DEF h, w
<1>7. Bare(z, Stamp(companion, decisions + 1), f)  BY DEF Bare
<1> HIDE DEF z, f, e
<1>8. Flight' /\ TasksStay /\ f \in Owed'
  BY <1>1, <1>2, <1>6, <1>7, PublishFlies
<1>9. RepairGoesOn'
  <2>1. \E g \in Owed' : g.kind = "repair"  BY <1>6, <1>8
  <2> QED  BY <2>1 DEF RepairGoesOn
<1> QED  BY <1>8, <1>9

-----------------------------------------------------------------------------
(* A take, through the decisions.                                           *)

LEMMA RepairsGo ==
  ASSUME RepairGoesOn, RepairsStay, UNCHANGED <<repairing, chains>>
  PROVE  RepairGoesOn'
  BY DEF RepairGoesOn, RepairsStay

LEMMA MoreKinds ==
  ASSUME NEW acts, NEW kinds, NEW more, kinds \subseteq more, Does(acts, kinds)
  PROVE  Does(acts, more)
  BY DEF Does

LEMMA OutTakes ==
  ASSUME companion'.phase \notin {"listening", "transcribing"}
  PROVE  TakeInv'
  BY DEF TakeInv, ListeningGoesOn, TranscribingGoesOn

\* Whatever leaves the pending actions and the microphone alone.
LEMMA StaysTakes ==
  ASSUME TakeInv, companion'.phase = companion.phase, TasksStay,
         UNCHANGED <<capture, generation, failed, opening, hearing, hears>>, late \subseteq late'
  PROVE  TakeInv'
<1>1. ListeningGoesOn'  BY DEF TakeInv, ListeningGoesOn, TasksStay
<1>2. TranscribingGoesOn'  BY DEF TakeInv, TranscribingGoesOn, TasksStay
<1> QED  BY <1>1, <1>2 DEF TakeInv

LEMMA QuietlyTakes ==
  ASSUME TakeInv, NEW d, Quietly(companion, d), companion' = d.companion, AlsoPending(d),
         UNCHANGED <<capture, generation, failed, opening, late>>,
         d.companion.phase = "transcribing" => UNCHANGED <<hearing, hears>>
  PROVE  TakeInv'
<1>1. ASSUME d.companion.phase \in {"listening", "transcribing"}, NEW kinds, kinds \subseteq Mic
      PROVE  Pending(kinds)' <=> Pending(kinds)
  <2>1. ~Does(d.actions, kinds)  BY <1>1, MoreKinds DEF Quietly
  <2> QED  BY <2>1 DEF AlsoPending
<1>2. /\ {"stop", "discard", "cancel"} \subseteq Mic /\ {"start"} \subseteq Mic
      /\ {"discard", "cancel"} \subseteq Mic /\ {"stop"} \subseteq Mic
  BY DEF Mic
<1>3. ListeningGoesOn'
  <2> SUFFICES ASSUME d.companion.phase = "listening" PROVE ListeningGoesOn'
    BY DEF ListeningGoesOn
  <2>1. companion.phase = "listening"  BY DEF Quietly
  <2>2. /\ Pending({"start"})' <=> Pending({"start"})
        /\ Pending({"stop", "discard", "cancel"})' <=> Pending({"stop", "discard", "cancel"})
    BY <1>1, <1>2
  <2> QED  BY <2>1, <2>2 DEF TakeInv, ListeningGoesOn
<1>4. TranscribingGoesOn'
  <2> SUFFICES ASSUME d.companion.phase = "transcribing" PROVE TranscribingGoesOn'
    BY DEF TranscribingGoesOn
  <2>1. companion.phase = "transcribing"  BY DEF Quietly
  <2>2. /\ Pending({"stop"})' <=> Pending({"stop"})
        /\ Pending({"discard", "cancel"})' <=> Pending({"discard", "cancel"})
    BY <1>1, <1>2
  <2> QED  BY <2>1, <2>2 DEF TakeInv, TranscribingGoesOn
<1> QED  BY <1>3, <1>4 DEF TakeInv

LEMMA GestureFlies ==
  ASSUME Flight, NEW e \in Gestures, Gesture(e)
  PROVE  LET d == Apply(companion, e)
         IN  /\ Flight' /\ RepairsStay /\ AlsoPending(d) /\ companion' = d.companion
             /\ Quietly(companion, d) \/ Starts(companion, d) \/ Stops(companion, d)
<1> DEFINE d == Apply(companion, e)
<1>1. companion \in Companions  BY DEF Flight, FlightTypes
<1>2. Quietly(companion, d) \/ Starts(companion, d) \/ Stops(companion, d)
  BY <1>1, GestureIs
<1>3. HandleFrom(e, work) /\ UNCHANGED <<opening, surface, put>>
  BY DEF Gesture, windows, microphone
<1>4. d = Apply(companion, e)  OBVIOUS
<1> HIDE DEF d
<1>5. Flight' /\ RepairsStay /\ AlsoPending(d) /\ companion' = d.companion
  BY <1>2, <1>3, <1>4, EventFlies
<1> QED  BY <1>2, <1>5 DEF d

\* Before anything is on its way nothing is pending.
LEMMA QuietHas == Quiet => Owed = {} /\ Tasks = {} /\ Afoot = AtHand(surface)
<1> SUFFICES ASSUME Quiet PROVE Owed = {} /\ Tasks = {} /\ Afoot = AtHand(surface)
  OBVIOUS
<1>1. work = {} /\ ~surface.applying /\ opening = {}  BY DEF Quiet
<1>2. \A f : f \notin Owed
  BY <1>1, OwedIs DEF Owed, HeldBy
<1>3. \A acts : acts \notin Tasks
  BY <1>1, <1>2, TasksAre DEF Tasks, Owed
<1>4. \A d : d \in Afoot <=> d \in AtHand(surface)
  BY <1>1, AfootIs DEF Afoot
<1> QED  BY <1>2, <1>3, <1>4

LEMMA GestureTakes ==
  ASSUME Flight, TakeInv, ~Hasty, NEW e \in Gestures, Gesture(e)
  PROVE  TakeInv'
<1> DEFINE d == Apply(companion, e)
<1>1. /\ AlsoPending(d) /\ companion' = d.companion
      /\ Quietly(companion, d) \/ Starts(companion, d) \/ Stops(companion, d)
  BY GestureFlies
<1>2. UNCHANGED <<capture, generation, failed, opening, hearing, hears, late>> /\ Quiet
  BY DEF Gesture, microphone
<1> HIDE DEF d
<1>3. \A kinds : ~Pending(kinds)
  BY <1>2, QuietHas DEF Pending
<1>4. opening = {}  BY <1>2 DEF Quiet
<1>5. CASE Quietly(companion, d)
  BY <1>1, <1>2, <1>5, QuietlyTakes
<1>6. ASSUME NEW kind, d.actions = <<Act(kind, NoId, Empty)>>, kind \in {"start", "stop"}
      PROVE  \A kinds : Pending(kinds)' <=> kind \in kinds
  <2>1. Act(kind, NoId, Empty) \in Acts /\ Act(kind, NoId, Empty).kind = kind
    BY <1>6, BareActs
  <2>2. \A kinds : Does(d.actions, kinds) <=> kind \in kinds
    BY <1>6, <2>1, OneDone
  <2> QED  BY <1>1, <1>3, <2>2 DEF AlsoPending
<1>7. CASE Starts(companion, d)
  <2>1. companion'.phase = "listening" /\ d.actions = <<Act("start", NoId, Empty)>>
    BY <1>1, <1>7 DEF Starts, Begins
  <2>2. \A kinds : Pending(kinds)' <=> "start" \in kinds  BY <1>6, <2>1
  <2>3. Pending({"start"})' /\ ~Pending({"stop", "discard", "cancel"})'  BY <2>2
  <2> QED  BY <2>1, <2>3 DEF TakeInv, ListeningGoesOn, TranscribingGoesOn
<1>8. CASE Stops(companion, d)
  <2>1. /\ companion.phase = "listening" /\ companion'.phase = "transcribing"
        /\ d.actions = <<Act("stop", NoId, Empty)>>
    BY <1>1, <1>8 DEF Stops, Begins
  <2>2. \A kinds : Pending(kinds)' <=> "stop" \in kinds  BY <1>6, <2>1
  <2>3. Pending({"stop"})' /\ ~Pending({"discard", "cancel"})'  BY <2>2
  <2>4. capture # 0 \/ late # {}
    BY <1>3, <1>4, <2>1 DEF TakeInv, ListeningGoesOn
  <2> QED  BY <1>2, <2>1, <2>3, <2>4 DEF TakeInv, ListeningGoesOn, TranscribingGoesOn
<1> QED  BY <1>1, <1>5, <1>7, <1>8

-----------------------------------------------------------------------------
(* A take, through the threads.                                             *)

LEMMA ExecutedFlies ==
  Flight /\ MicrophoneTypes /\ Executed =>
    Flight' /\ RepairsStay /\ companion'.phase \notin {"listening", "transcribing"}
<1> SUFFICES ASSUME Flight, MicrophoneTypes, Executed
             PROVE  Flight' /\ RepairsStay /\ companion'.phase \notin {"listening", "transcribing"}
  OBVIOUS
<1>1. PICK x \in late : HandleFrom(Plain(x), work)  BY DEF Executed
<1>2. x = "recording_failed"  BY DEF MicrophoneTypes
<1>3. UNCHANGED <<opening, surface, put>>  BY DEF Executed, windows
<1>4. companion \in Companions  BY DEF Flight, FlightTypes
<1> DEFINE e == Plain("recording_failed")
           d == Apply(companion, e)
<1>5. HandleFrom(e, work) /\ d = Apply(companion, e)  BY <1>1, <1>2
<1>6. Quietly(companion, d) /\ d.companion.phase \notin {"listening", "transcribing"}
  BY <1>4, FailureIs
<1> HIDE DEF d, e
<1>7. Flight' /\ RepairsStay /\ companion' = d.companion
  BY <1>3, <1>5, <1>6, EventFlies
<1> QED  BY <1>6, <1>7

LEMMA HeardFlies == Flight /\ Heard => Flight' /\ RepairsStay /\ (TakeInv => TakeInv')
<1> SUFFICES ASSUME Flight, Heard PROVE Flight' /\ RepairsStay /\ (TakeInv => TakeInv')
  OBVIOUS
<1>1. PICK h \in hearing :
        /\ hearing' = hearing \ {h}
        /\ IF h = hears
           THEN \/ HandleFrom(Event("transcribed", NoId, Text), work)
                \/ HandleFrom(Plain("transcription_failed"), work)
           ELSE UNCHANGED showing
  BY DEF Heard
<1>2. UNCHANGED <<surface, put, keys, watching, opening, capture, generation, failed, hears, late>>
  BY DEF Heard, windows, timers
<1>3. companion \in Companions  BY DEF Flight, FlightTypes
<1>4. ASSUME NEW e, e \in {Event("transcribed", NoId, Text), Plain("transcription_failed")},
             HandleFrom(e, work)
      PROVE  Flight' /\ RepairsStay /\ (TakeInv => TakeInv')
  <2> DEFINE d == Apply(companion, e)
  <2>1. Quietly(companion, d) /\ d.companion.phase # "transcribing"
    BY <1>3, <1>4, WordsAre
  <2>2. d = Apply(companion, e)  OBVIOUS
  <2> HIDE DEF d
  <2>3. Flight' /\ RepairsStay /\ AlsoPending(d) /\ companion' = d.companion
    BY <1>2, <1>4, <2>1, <2>2, EventFlies
  <2>4. TakeInv => TakeInv'
    BY <1>2, <2>1, <2>3, QuietlyTakes
  <2> QED  BY <2>3, <2>4
<1>5. CASE h = hears  BY <1>1, <1>4, <1>5
<1>6. CASE h # hears
  <2>1. UNCHANGED <<companion, decisions, work>>  BY <1>1, <1>6 DEF showing
  <2>2. Owed' = Owed /\ Afoot' = Afoot /\ Tasks' = Tasks
    BY <1>2, <2>1 DEF Owed, Afoot, Tasks
  <2>3. Flight'
    BY <1>2, <2>1, <2>2 DEF Flight, FlightTypes, Core, Threaded, InOrder, NewestGoesOn, Alone, Decided
  <2>4. RepairsStay /\ TasksStay
    BY <2>2 DEF RepairsStay, TasksStay, Pending, Does
  <2>5. TakeInv => TakeInv'
    <3>1. ASSUME TranscribingGoesOn PROVE TranscribingGoesOn'
      BY <1>1, <1>2, <1>6, <2>1, <2>4, <3>1 DEF TranscribingGoesOn, TasksStay
    <3>2. ASSUME ListeningGoesOn PROVE ListeningGoesOn'
      BY <1>2, <2>1, <2>4, <3>2 DEF ListeningGoesOn, TasksStay
    <3> QED  BY <3>1, <3>2 DEF TakeInv
  <2> QED  BY <2>3, <2>4, <2>5
<1> QED  BY <1>5, <1>6

LEMMA StartRecordingFlies ==
  Flight /\ MicrophoneTypes /\ StartRecording => Flight' /\ RepairsStay /\ (TakeInv => TakeInv')
<1> SUFFICES ASSUME Flight, MicrophoneTypes, StartRecording
             PROVE  Flight' /\ RepairsStay /\ (TakeInv => TakeInv')
  OBVIOUS
<1>1. PICK i \in work :
        /\ Doing(i, {"start"})
        /\ IF ~MayOpen
           THEN /\ HandleFrom(Plain("recording_failed"), Dropped(i))
                /\ UNCHANGED <<generation, opening>>
           ELSE /\ generation' = generation + 1
                /\ opening' = opening \cup {[generation |-> generation + 1, item |-> i]}
                /\ work' = work \ {i}
                /\ UNCHANGED <<companion, decisions>>
  BY DEF StartRecording
<1>2. UNCHANGED <<surface, put, keys, watching, capture, failed, hearing, hears, late>>
  BY DEF StartRecording, windows, timers
<1>3. companion \in Companions /\ generation \in Nat /\ failed \in 0..generation
  BY DEF Flight, FlightTypes, MicrophoneTypes
<1>4. CASE ~MayOpen
  <2> DEFINE e == Plain("recording_failed")
             d == Apply(companion, e)
             rest == Dropped(i)
  <2>1. Quietly(companion, d) /\ d.companion.phase \notin {"listening", "transcribing"}
    BY <1>3, FailureIs
  <2>2. RestFits(rest) /\ KeepsRepairs(rest)  BY <1>1, DroppedFits
  <2>3. Handled(d, rest)
    <3>1. HandleFrom(e, rest) /\ UNCHANGED <<opening, surface, put>>  BY <1>1, <1>2, <1>4
    <3> HIDE DEF e, rest
    <3> QED  BY <3>1, HandlingOn
  <2> HIDE DEF d, rest
  <2>4. Flight' /\ RepairsStay
    BY <2>1, <2>2, <2>3, HandledFlies DEF RepairsStay
  <2>5. companion'.phase \notin {"listening", "transcribing"}
    BY <2>1, <2>3 DEF Handled
  <2> QED  BY <2>4, <2>5, OutTakes
<1>5. CASE MayOpen
  <2> DEFINE o == [generation |-> generation + 1, item |-> i]
  <2>1. /\ generation' = generation + 1 /\ opening' = opening \cup {o} /\ work' = work \ {i}
        /\ UNCHANGED <<companion, decisions>>
    BY <1>1, <1>5
  <2>2. o = [generation |-> generation + 1, item |-> i] /\ o.generation = generation + 1
    OBVIOUS
  <2> HIDE DEF o
  <2>3. /\ Flight' /\ RepairsStay
        /\ \A kinds : /\ Pending(kinds)' => Pending(kinds)
                      /\ Pending(kinds) => Pending(kinds)' \/ "start" \in kinds
    BY <1>1, <1>2, <1>3, <2>1, <2>2, OpeningFlies
  <2>4. ASSUME TakeInv PROVE TakeInv'
    <3>1. ListeningGoesOn'
      <4>1. failed' # generation' /\ o \in opening' /\ o.generation = generation'
        BY <1>2, <1>3, <2>1, <2>2
      <4>2. companion.phase = "listening" => ~Pending({"stop", "discard", "cancel"})'
        BY <2>3, <2>4 DEF TakeInv, ListeningGoesOn
      <4> QED  BY <2>1, <4>1, <4>2 DEF ListeningGoesOn
    <3>2. TranscribingGoesOn'
      <4>1. Pending({"stop"}) => Pending({"stop"})'  BY <2>3
      <4>2. Pending({"discard", "cancel"})' => Pending({"discard", "cancel"})  BY <2>3
      <4> QED  BY <1>2, <2>1, <2>4, <4>1, <4>2 DEF TakeInv, TranscribingGoesOn
    <3> QED  BY <3>1, <3>2 DEF TakeInv
  <2> QED  BY <2>3, <2>4
<1> QED  BY <1>4, <1>5

LEMMA RecorderStartedFlies ==
  Flight /\ MicrophoneTypes /\ RecorderStarted =>
    Flight' /\ RepairsStay /\ MicrophoneTypes' /\ (TakeInv => TakeInv')
<1> SUFFICES ASSUME Flight, MicrophoneTypes, RecorderStarted
             PROVE  Flight' /\ RepairsStay /\ MicrophoneTypes' /\ (TakeInv => TakeInv')
  OBVIOUS
<1>1. PICK o \in opening :
        /\ opening' = opening \ {o}
        /\ work' = (LET b == [o.item EXCEPT !.actions = Tail(@)]
                    IN  work \cup (IF Over(b) THEN {} ELSE {b}))
        /\ \/ /\ capture' = IF failed = o.generation \/ generation # o.generation
                            THEN capture ELSE o.generation
              /\ UNCHANGED <<generation, late, trouble>>
           \/ /\ trouble < MaxTrouble /\ trouble' = trouble + 1
              /\ generation' = generation + 1
              /\ late' = late \cup {"recording_failed"}
              /\ UNCHANGED capture
  BY DEF RecorderStarted
<1>2. UNCHANGED <<companion, decisions, surface, put, keys, watching, failed, hearing, hears>>
  BY DEF RecorderStarted, windows, timers
<1>3. Flight' /\ RepairsStay /\ TasksStay
  BY <1>1, <1>2, OpenedFlies
<1>4. o.generation \in Nat \ {0}  BY DEF Flight, FlightTypes
<1>5. \/ capture' = capture
      \/ capture' = o.generation /\ o.generation = generation /\ generation' = generation
  BY <1>1
<1>6. \/ generation' = generation
      \/ generation' = generation + 1 /\ late' # {} /\ capture' = capture
  BY <1>1
<1>6a. late' = late \/ late' = late \cup {"recording_failed"}
  BY <1>1
<1>7. MicrophoneTypes'
  <2>1. generation' \in Nat /\ capture' \in 0..generation' /\ failed' \in 0..generation'
    BY <1>2, <1>4, <1>5, <1>6 DEF MicrophoneTypes
  <2>2. hears' \in Nat /\ hearing' \subseteq Nat /\ late' \subseteq {"recording_failed"}
    BY <1>2, <1>6a DEF MicrophoneTypes
  <2> QED  BY <2>1, <2>2 DEF MicrophoneTypes
<1>8. ASSUME TakeInv PROVE TakeInv'
  <2>1. capture # 0 => capture' # 0  BY <1>4, <1>5
  <2>2. late # {} => late' # {}  BY <1>6a
  <2>3. TranscribingGoesOn'
    BY <1>2, <1>3, <1>8, <2>1, <2>2 DEF TakeInv, TranscribingGoesOn, TasksStay
  <2>4. ASSUME failed # generation, NEW p \in opening, p.generation = generation
        PROVE  \/ capture' # 0 \/ late' # {}
               \/ failed' # generation' /\ p \in opening' /\ p.generation = generation'
    <3>1. CASE late' # {}  BY <3>1
    <3>2. CASE late' = {} /\ p # o
      BY <1>1, <1>2, <1>6, <2>4, <3>2
    <3>3. CASE late' = {} /\ p = o
      <4>1. capture' = o.generation  BY <1>1, <2>4, <3>3
      <4> QED  BY <1>4, <4>1
    <3> QED  BY <3>1, <3>2, <3>3
  <2>5. ListeningGoesOn'
    <3> SUFFICES ASSUME companion.phase = "listening" PROVE ListeningGoesOn'
      BY <1>2 DEF ListeningGoesOn
    <3>1. ~Pending({"stop", "discard", "cancel"})'
      BY <1>3, <1>8 DEF TakeInv, ListeningGoesOn, TasksStay
    <3>2. \/ Pending({"start"})' \/ capture' # 0 \/ late' # {}
          \/ failed' # generation' /\ \E q \in opening' : q.generation = generation'
      BY <1>3, <1>8, <2>1, <2>2, <2>4 DEF TakeInv, ListeningGoesOn, TasksStay
    <3> QED  BY <3>1, <3>2 DEF ListeningGoesOn
  <2> QED  BY <2>3, <2>5 DEF TakeInv
<1> QED  BY <1>3, <1>7, <1>8

LEMMA CloseRecordingFlies ==
  Flight /\ MicrophoneTypes /\ CloseRecording => Flight' /\ RepairsStay /\ (TakeInv => TakeInv')
<1> SUFFICES ASSUME Flight, MicrophoneTypes, CloseRecording
             PROVE  Flight' /\ RepairsStay /\ (TakeInv => TakeInv')
  OBVIOUS
<1>1. PICK i \in work :
        /\ Doing(i, {"stop", "discard", "cancel"})
        /\ work' = Did(i)
        /\ CASE Doing(i, {"stop"}) /\ capture # 0 ->
                  hears' = hears + 1 /\ hearing' = hearing \cup {hears + 1}
             [] Doing(i, {"cancel"}) -> hears' = hears + 1 /\ UNCHANGED hearing
             [] OTHER -> UNCHANGED <<hears, hearing>>
  BY DEF CloseRecording
<1>2. UNCHANGED <<companion, decisions, surface, put, keys, watching, opening, late>>
  BY DEF CloseRecording, windows, timers
<1> DEFINE kind == Head(i.actions).kind
<1>3. i.actions # <<>> /\ kind \in {"stop", "discard", "cancel"}
  BY <1>1 DEF Doing
<1>4. /\ Flight' /\ RepairsStay
      /\ \A kinds : /\ Pending(kinds)' => Pending(kinds)
                    /\ Pending(kinds) => Pending(kinds)' \/ kind \in kinds
  BY <1>1, <1>2, <1>3, DidFlies
<1>5. \A kinds : kind \in kinds => Pending(kinds)
  <2> SUFFICES ASSUME NEW kinds, kind \in kinds PROVE Pending(kinds)
    OBVIOUS
  <2>1. i.actions \in Seq(Acts)  BY DEF Flight, FlightTypes, Items
  <2>2. Does(i.actions, kinds)  BY <1>3, <2>1, TailDoes
  <2>3. i.actions \in Tasks  BY TasksAre DEF Tasks
  <2> QED  BY <2>2, <2>3 DEF Pending
<1>6. ASSUME TakeInv PROVE TakeInv'
  <2>1. companion.phase # "listening"
    BY <1>3, <1>5, <1>6 DEF TakeInv, ListeningGoesOn
  <2>2. ASSUME companion.phase = "transcribing"
        PROVE  ~Pending({"discard", "cancel"})' /\ (hears' \in hearing' \/ late' # {})
    <3>1. ~Pending({"discard", "cancel"})
      BY <1>6, <2>2 DEF TakeInv, TranscribingGoesOn
    <3>2. kind = "stop"  BY <1>3, <1>5, <3>1
    <3>3. ~Pending({"discard", "cancel"})'  BY <1>4, <3>1
    <3>4. Doing(i, {"stop"}) /\ ~Doing(i, {"cancel"})  BY <1>3, <3>2 DEF Doing
    <3>5. CASE capture # 0  BY <1>1, <3>3, <3>4, <3>5
    <3>6. CASE capture = 0
      BY <1>1, <1>2, <1>6, <2>2, <3>3, <3>4, <3>6 DEF TakeInv, TranscribingGoesOn
    <3> QED  BY <3>5, <3>6
  <2> QED  BY <1>2, <2>1, <2>2 DEF TakeInv, ListeningGoesOn, TranscribingGoesOn
<1> QED  BY <1>4, <1>6

LEMMA OtherActionFlies == Flight /\ OtherAction => Flight' /\ RepairsStay /\ (TakeInv => TakeInv')
<1> SUFFICES ASSUME Flight, OtherAction PROVE Flight' /\ RepairsStay /\ (TakeInv => TakeInv')
  OBVIOUS
<1> DEFINE others == {"persist", "submit", "clear", "forget", "abort"}
<1>1. PICK i \in work : Doing(i, others) /\ work' = Did(i)
  BY DEF OtherAction
<1>2. UNCHANGED <<companion, decisions, surface, put, keys, watching, opening, capture, generation,
                  failed, hearing, hears, late>>
  BY DEF OtherAction, windows, timers, microphone
<1> DEFINE kind == Head(i.actions).kind
<1>3. i.actions # <<>> /\ kind \in others
  BY <1>1 DEF Doing
<1>4. /\ Flight' /\ RepairsStay
      /\ \A kinds : /\ Pending(kinds)' => Pending(kinds)
                    /\ Pending(kinds) => Pending(kinds)' \/ kind \in kinds
  BY <1>1, <1>2, <1>3, DidFlies
<1>5. \A kinds : kinds \subseteq Mic => (Pending(kinds)' <=> Pending(kinds))
  <2>1. \A kinds : kinds \subseteq Mic => kind \notin kinds  BY <1>3 DEF Mic
  <2> QED  BY <1>4, <2>1
<1>6. /\ Pending({"start"})' <=> Pending({"start"})
      /\ Pending({"stop"})' <=> Pending({"stop"})
      /\ Pending({"discard", "cancel"})' <=> Pending({"discard", "cancel"})
      /\ Pending({"stop", "discard", "cancel"})' <=> Pending({"stop", "discard", "cancel"})
  <2>1. /\ {"start"} \subseteq Mic /\ {"stop"} \subseteq Mic /\ {"discard", "cancel"} \subseteq Mic
        /\ {"stop", "discard", "cancel"} \subseteq Mic
    BY DEF Mic
  <2> QED  BY <1>5, <2>1
<1>7. TakeInv => TakeInv'
  BY <1>2, <1>6 DEF TakeInv, ListeningGoesOn, TranscribingGoesOn
<1> QED  BY <1>4, <1>7

-----------------------------------------------------------------------------
(* The windows, the timers and the microphone.                              *)

Types == WindowTypes /\ TimerTypes /\ MicrophoneTypes /\ BoundTypes /\ OneLook

LEMMA WindowsStay == WindowTypes /\ UNCHANGED windows => WindowTypes'
  BY DEF WindowTypes, windows
LEMMA TimersStay == TimerTypes /\ OneLook /\ UNCHANGED timers => TimerTypes' /\ OneLook'
  BY DEF TimerTypes, OneLook, timers
LEMMA MicrophoneStays == MicrophoneTypes /\ UNCHANGED microphone => MicrophoneTypes'
  BY DEF MicrophoneTypes, microphone
LEMMA BoundsStay ==
  /\ BoundTypes /\ UNCHANGED bounds => BoundTypes'
  /\ BoundTypes /\ gestures' = gestures + 1 /\ UNCHANGED <<reports, trouble>> => BoundTypes'
  /\ BoundTypes /\ reports' = reports + 1 /\ UNCHANGED <<gestures, trouble>> => BoundTypes'
  /\ BoundTypes /\ trouble' \in {trouble, trouble + 1} /\ UNCHANGED <<gestures, reports>> => BoundTypes'
  BY DEF BoundTypes, bounds

LEMMA GestureStands == \A e : Types /\ Gesture(e) => Types'
<1> SUFFICES ASSUME NEW e, Types, Gesture(e) PROVE Types'
  OBVIOUS
<1>1. UNCHANGED <<windows, timers, microphone, reports, trouble>> /\ gestures' = gestures + 1
  BY Zenon DEF Gesture
<1> QED  BY <1>1, WindowsStay, TimersStay, MicrophoneStays, BoundsStay DEF Types

LEMMA ReportStands == Types /\ Report => Types'
<1> SUFFICES ASSUME Types, Report PROVE Types'
  OBVIOUS
<1>1. UNCHANGED <<windows, timers, microphone, gestures, trouble>> /\ reports' = reports + 1
  BY Zenon DEF Report
<1> QED  BY <1>1, WindowsStay, TimersStay, MicrophoneStays, BoundsStay DEF Types

LEMMA LookOnStands == Types /\ LookOn => Types'
<1> SUFFICES ASSUME Types, LookOn PROVE Types'
  OBVIOUS
<1>1. UNCHANGED <<windows, timers, microphone, gestures, reports>> /\ trouble' = trouble + 1
  BY Zenon DEF LookOn
<1> QED  BY <1>1, WindowsStay, TimersStay, MicrophoneStays, BoundsStay DEF Types

\* The actions that touch neither windows nor timers nor microphone.
LEMMA HandsStand == Types /\ (Bring \/ Take \/ OtherAction) => Types'
<1> SUFFICES ASSUME Types, Bring \/ Take \/ OtherAction PROVE Types'
  OBVIOUS
<1>1. UNCHANGED <<windows, timers, microphone, bounds>>
  BY Zenon DEF Bring, Take, OtherAction
<1> QED  BY <1>1, WindowsStay, TimersStay, MicrophoneStays, BoundsStay DEF Types

LEMMA ExecutedStands == Types /\ Executed => Types'
<1> SUFFICES ASSUME Types, Executed PROVE Types'
  OBVIOUS
<1>1. /\ UNCHANGED <<windows, timers, capture, generation, failed, opening, hearing, hears, bounds>>
      /\ late' \subseteq late
  <2>1. PICK e \in late : late' = late \ {e}  BY Zenon DEF Executed
  <2>2. UNCHANGED <<windows, timers, capture, generation, failed, opening, hearing, hears, bounds>>
    BY Zenon DEF Executed
  <2> QED  BY <2>1, <2>2
<1>2. MicrophoneTypes'  BY <1>1 DEF Types, MicrophoneTypes
<1> QED  BY <1>1, <1>2, WindowsStay, TimersStay, BoundsStay DEF Types

LEMMA HeardStands == Types /\ Heard => Types'
<1> SUFFICES ASSUME Types, Heard PROVE Types'
  OBVIOUS
<1>1. /\ UNCHANGED <<windows, timers, capture, generation, failed, opening, hears, late, bounds>>
      /\ hearing' \subseteq hearing
  <2>1. PICK h \in hearing : hearing' = hearing \ {h}  BY Zenon DEF Heard
  <2>2. UNCHANGED <<windows, timers, capture, generation, failed, opening, hears, late, bounds>>
    BY Zenon DEF Heard
  <2> QED  BY <2>1, <2>2
<1>2. MicrophoneTypes'  BY <1>1 DEF Types, MicrophoneTypes
<1> QED  BY <1>1, <1>2, WindowsStay, TimersStay, BoundsStay DEF Types

LEMMA StartRecordingStands == Types /\ StartRecording => Types'
<1> SUFFICES ASSUME Types, StartRecording PROVE Types'
  OBVIOUS
<1>1. /\ UNCHANGED <<windows, timers, capture, failed, hearing, hears, late, bounds>>
      /\ generation' = generation \/ generation' = generation + 1
  BY Zenon DEF StartRecording
<1>2. MicrophoneTypes'  BY <1>1 DEF Types, MicrophoneTypes
<1> QED  BY <1>1, <1>2, WindowsStay, TimersStay, BoundsStay DEF Types

LEMMA RecorderStartedStands == Flight /\ Types /\ RecorderStarted => Types'
<1> SUFFICES ASSUME Flight, Types, RecorderStarted PROVE Types'
  OBVIOUS
<1>1. /\ UNCHANGED <<windows, timers, gestures, reports>>
      /\ trouble' \in {trouble, trouble + 1}
  <2>1. UNCHANGED <<windows, timers, gestures, reports>>
        /\ (trouble' = trouble \/ trouble' = trouble + 1)
    BY Zenon DEF RecorderStarted
  <2> QED  BY <2>1
<1>2. MicrophoneTypes'  BY RecorderStartedFlies DEF Types
<1> QED  BY <1>1, <1>2, WindowsStay, TimersStay, BoundsStay DEF Types

LEMMA CloseRecordingStands == Types /\ CloseRecording => Types'
<1> SUFFICES ASSUME Types, CloseRecording PROVE Types'
  OBVIOUS
<1>1. /\ UNCHANGED <<windows, timers, failed, late, bounds>>
      /\ capture' = 0 /\ generation' = generation + 1
      /\ \/ hears' = hears + 1 /\ (hearing' = hearing \/ hearing' = hearing \cup {hears + 1})
         \/ hears' = hears /\ hearing' = hearing
  BY DEF CloseRecording, TakenAway
<1>2. generation' \in Nat /\ capture' \in 0..generation' /\ failed' \in 0..generation'
  BY <1>1 DEF Types, MicrophoneTypes
<1>3. hears' \in Nat /\ hearing' \subseteq Nat /\ late' \subseteq {"recording_failed"}
  <2> DEFINE n == hears + 1
  <2>1. n \in Nat /\ hears \in Nat /\ hearing \subseteq Nat /\ late \subseteq {"recording_failed"}
    BY DEF Types, MicrophoneTypes
  <2>2. /\ late' = late
        /\ \/ hears' = n /\ (hearing' = hearing \/ hearing' = hearing \cup {n})
           \/ hears' = hears /\ hearing' = hearing
    BY <1>1
  <2> HIDE DEF n
  <2> QED  BY <2>1, <2>2
<1> QED  BY <1>1, <1>2, <1>3, WindowsStay, TimersStay, BoundsStay DEF Types, MicrophoneTypes

LEMMA StreamFailsStands == Types /\ StreamFails => Types'
<1> SUFFICES ASSUME Types, StreamFails PROVE Types'
  OBVIOUS
<1>1. /\ UNCHANGED <<windows, timers, capture, generation, hearing, hears, gestures, reports>>
      /\ failed' = generation /\ late' = late \cup {"recording_failed"} /\ trouble' = trouble + 1
  BY Zenon DEF StreamFails
<1>2. MicrophoneTypes'
  <2>1. capture' \in 0..generation' /\ failed' \in 0..generation' /\ generation' \in Nat
    BY <1>1 DEF Types, MicrophoneTypes
  <2>2. late' \subseteq {"recording_failed"}  BY <1>1 DEF Types, MicrophoneTypes
  <2> QED  BY <1>1, <2>1, <2>2 DEF Types, MicrophoneTypes
<1> QED  BY <1>1, <1>2, WindowsStay, TimersStay, BoundsStay DEF Types

LEMMA AskAgainFits ==
  ASSUME TimerTypes, NEW f, f.left \in 0..Repairs, AskAgain(f)
  PROVE  repairing' \in BOOLEAN /\ chains' \in Seq(1..Repairs)
<1>1. CASE FallsShort(f.wanted, screen) /\ f.left > 1
  <2>1. chains' = Append(chains, f.left - 1) /\ repairing' = repairing
    BY <1>1 DEF AskAgain
  <2>2. f.left - 1 \in 1..Repairs  BY <1>1, BoundsAssumption
  <2> DEFINE n == f.left - 1
  <2>3. n \in 1..Repairs /\ chains' = Append(chains, n)  BY <2>1, <2>2
  <2> HIDE DEF n
  <2> QED  BY <2>1, <2>3 DEF TimerTypes
<1>2. CASE ~(FallsShort(f.wanted, screen) /\ f.left > 1)
  <2>1. chains' = chains /\ repairing' = FALSE
    BY <1>2 DEF AskAgain
  <2> QED  BY <2>1 DEF TimerTypes
<1> QED  BY <1>1, <1>2

LEMMA FollowStands == Flight /\ Types /\ Follow => Types'
<1> SUFFICES ASSUME Flight, Types, Follow PROVE Types'
  OBVIOUS
<1>1. UNCHANGED <<windows, watching, looks, stopping, microphone, bounds>>
  BY Zenon DEF Follow
<1>2. PICK i \in work :
        /\ i.actions = <<>> /\ i.decision = NoDecision /\ i.followers # <<>>
        /\ AskAgain(Head(i.followers)) \/ UNCHANGED <<repairing, chains>>
  BY Zenon DEF Follow
<1>3. Head(i.followers) \in Followers
  <2>1. i.followers \in Seq(Followers)  BY DEF Flight, FlightTypes, Items
  <2>2. \A S, s : s \in Seq(S) /\ s # <<>> => Head(s) \in S  OBVIOUS
  <2> QED  BY <1>2, <2>1, <2>2, Zenon
<1> DEFINE f == Head(i.followers)
<1>4. f.left \in 0..Repairs  BY <1>3 DEF Followers
<1> HIDE DEF f
<1>5. repairing' \in BOOLEAN /\ chains' \in Seq(1..Repairs)
  <2>1. CASE AskAgain(f)
    BY <1>4, <2>1, AskAgainFits DEF Types
  <2>2. CASE UNCHANGED <<repairing, chains>>
    BY <2>2 DEF Types, TimerTypes
  <2> QED  BY <1>2, <2>1, <2>2 DEF f
<1>6. TimerTypes' /\ OneLook'
  BY <1>1, <1>5 DEF Types, TimerTypes, OneLook
<1> QED  BY <1>1, <1>6, WindowsStay, MicrophoneStays, BoundsStay DEF Types

LEMMA RepairDueStands == Types /\ RepairDue => Types'
<1> SUFFICES ASSUME Types, RepairDue PROVE Types'
  OBVIOUS
<1>1. UNCHANGED <<windows, repairing, watching, looks, stopping, microphone, bounds>>
      /\ chains # <<>> /\ chains' = Tail(chains)
  BY Zenon DEF RepairDue
<1>2. \A S, s : s \in Seq(S) /\ s # <<>> => Tail(s) \in Seq(S)  OBVIOUS
<1>3. chains' \in Seq(1..Repairs)  BY <1>1, <1>2, Zenon DEF Types, TimerTypes
<1>4. TimerTypes' /\ OneLook'
  BY <1>1, <1>3 DEF Types, TimerTypes, OneLook
<1> QED  BY <1>1, <1>4, WindowsStay, MicrophoneStays, BoundsStay DEF Types

LEMMA LooksStand == Types /\ (LookStops \/ LookBack) => Types'
<1> SUFFICES ASSUME Types, LookStops \/ LookBack PROVE Types'
  OBVIOUS
<1>1. UNCHANGED <<windows, repairing, chains, microphone, bounds>>
  BY Zenon DEF LookStops, LookBack
<1>2. TimerTypes' /\ OneLook'
  <2>1. looks \in Nat /\ stopping \in Nat  BY DEF Types, TimerTypes
  <2>2. CASE LookStops
    BY <1>1, <2>1, <2>2 DEF LookStops, Types, TimerTypes, OneLook
  <2>3. CASE LookBack
    <3>1. looks = 0 /\ stopping = 1  BY <2>1, <2>3 DEF LookBack, Types, OneLook
    <3> DEFINE box == Textbox(Posture(companion))
    <3>2. watching' = box /\ looks' = looks + (IF box THEN 1 ELSE 0) /\ stopping' = stopping - 1
      BY <2>3, Zenon DEF LookBack
    <3>3. box \in BOOLEAN  BY DEF Textbox
    <3> HIDE DEF box
    <3>4. watching' \in BOOLEAN /\ looks' \in Nat /\ stopping' \in Nat
      BY <2>1, <3>1, <3>2, <3>3
    <3>5. OneLook'  BY <3>1, <3>2, <3>3 DEF OneLook
    <3>6. repairing' \in BOOLEAN /\ chains' \in Seq(1..Repairs)
      BY <1>1 DEF Types, TimerTypes
    <3> QED  BY <3>4, <3>5, <3>6 DEF TimerTypes
  <2> QED  BY <2>2, <2>3
<1> QED  BY <1>1, <1>2, WindowsStay, MicrophoneStays, BoundsStay DEF Types

LEMMA PutWindowsStands == Types /\ PutWindows => Types'
<1> SUFFICES ASSUME Types, PutWindows PROVE Types'
  OBVIOUS
<1>1. /\ UNCHANGED <<drawn, keys, timers, microphone, gestures, reports>>
      /\ (trouble' = trouble \/ trouble' = trouble + 1)
      /\ \E p \in Places(surface.current.posture) : screen' = p[1]
  BY Zenon DEF PutWindows
<1>2. screen' \in Screens
  <2>1. screen \in Screens  BY DEF Types, WindowTypes, Screens
  <2>2. Places(surface.current.posture) \subseteq Outcomes  BY <2>1, PlacesFit
  <2> QED  BY <1>1, <2>2 DEF Outcomes
<1>3. WindowTypes'  BY <1>1, <1>2 DEF Types, WindowTypes, Screens
<1>4. trouble' \in {trouble, trouble + 1}  BY <1>1
<1> QED  BY <1>1, <1>3, <1>4, TimersStay, MicrophoneStays, BoundsStay DEF Types

LEMMA PutRestStands == Flight /\ Types /\ PutRest => Types' /\ (RepairGoesOn => RepairGoesOn')
<1> SUFFICES ASSUME Flight, Types, PutRest
             PROVE  Types' /\ (RepairGoesOn => RepairGoesOn')
  OBVIOUS
<1> DEFINE p == surface.current.posture
<1>1. /\ UNCHANGED <<screen, stopping, capture, generation, failed, opening, hearing, hears,
                     gestures, reports>>
      /\ drawn' = surface.current.recording \/ drawn' = drawn
      /\ trouble' = trouble \/ trouble' = trouble + 1
      /\ Repair(p) /\ Watch(p) /\ keys' = HoldsKeys(p)
      /\ late' = late \/ late' = late \cup {"recording_failed"}
  BY Zenon DEF PutRest
<1> HIDE DEF p
<1>2. WindowTypes'
  <2>1. surface.current.recording \in BOOLEAN
    BY DEF Flight, FlightTypes, Surfaces, Decisions
  <2> QED  BY <1>1, <2>1 DEF Types, WindowTypes, HoldsKeys, OnScreen
<1>3. MicrophoneTypes'
  <2>1. late' \subseteq {"recording_failed"}  BY <1>1 DEF Types, MicrophoneTypes
  <2> QED  BY <1>1, <2>1 DEF Types, MicrophoneTypes
<1>4. BoundTypes'
  <2>1. trouble' \in {trouble, trouble + 1}  BY <1>1
  <2> QED  BY <1>1, <2>1, BoundsStay DEF Types
<1>5. \/ repairing' = FALSE /\ chains' = chains
      \/ repairing' = repairing /\ chains' = chains
      \/ repairing' = TRUE /\ chains' = Append(chains, Repairs)
  BY <1>1 DEF Repair
<1>6. repairing' \in BOOLEAN /\ chains' \in Seq(1..Repairs)
      /\ (chains' = chains \/ chains' # <<>>)
  <2>1. Repairs \in 1..Repairs  BY BoundsAssumption
  <2>2. chains \in Seq(1..Repairs) /\ repairing \in BOOLEAN  BY DEF Types, TimerTypes
  <2> DEFINE more == Append(chains, Repairs)
  <2>3. more \in Seq(1..Repairs) /\ \E k \in 1..Len(more) : Repairs = more[k]
    BY <2>1, <2>2, AppendHas
  <2>4. \A s : s = <<>> => 1..Len(s) = {}  OBVIOUS
  <2>5. more # <<>>  BY <2>3, <2>4, Zenon
  <2>6. more = Append(chains, Repairs)  OBVIOUS
  <2> HIDE DEF more
  <2> QED  BY <1>5, <2>2, <2>3, <2>5, <2>6
<1>7. TimerTypes' /\ OneLook'
  <2>1. looks \in Nat /\ stopping \in Nat /\ watching \in BOOLEAN  BY DEF Types, TimerTypes
  <2>2. watching' \in BOOLEAN /\ looks' \in Nat /\ OneLook'
    <3>1. \/ watching' = watching /\ looks' = looks
          \/ ~watching /\ watching' = TRUE /\ looks' = looks + 1
      BY <1>1, Zenon DEF Watch
    <3>2. looks + stopping = (IF watching THEN 1 ELSE 0)  BY DEF Types, OneLook
    <3>3. watching' \in BOOLEAN /\ looks' \in Nat
      <4>1. watching' \in BOOLEAN  BY <2>1, <3>1, Zenon
      <4>2. looks' = looks \/ looks' = looks + 1  BY <3>1, Zenon
      <4> QED  BY <2>1, <4>1, <4>2
    <3>4. looks' + stopping' = (IF watching' THEN 1 ELSE 0)
      BY <1>1, <2>1, <3>1, <3>2
    <3> QED  BY <3>3, <3>4 DEF OneLook
  <2> QED  BY <1>1, <1>6, <2>1, <2>2 DEF TimerTypes
<1>8. RepairGoesOn => RepairGoesOn'
  <2>1. RepairsStay  BY PutRestFlies DEF Types
  <2>2. ~repairing' \/ (repairing' = repairing /\ chains' = chains) \/ chains' # <<>>
    <3>1. CASE repairing' = TRUE /\ chains' = Append(chains, Repairs)
      <4> DEFINE more == Append(chains, Repairs)
      <4>1. chains \in Seq(1..Repairs) /\ Repairs \in 1..Repairs
        BY BoundsAssumption DEF Types, TimerTypes
      <4>2. \E k \in 1..Len(more) : Repairs = more[k]
        BY <4>1, AppendHas
      <4>3. \A s : s = <<>> => 1..Len(s) = {}  OBVIOUS
      <4> QED  BY <3>1, <4>2, <4>3, Zenon
    <3> QED  BY <1>5, <3>1
  <2> QED  BY <1>6, <2>1, <2>2 DEF RepairGoesOn, RepairsStay
<1> QED  BY <1>2, <1>3, <1>4, <1>7, <1>8 DEF Types

-----------------------------------------------------------------------------
(* Every move of the pill.                                                  *)

\* The grabber's failures are counted with the display's.
Asides ==
  /\ UNCHANGED <<showing, surface, windows, timers, microphone, gestures, reports>>
  /\ trouble' = trouble \/ trouble' = trouble + 1

Moves == \/ \E e \in Gestures : Gesture(e)
         \/ Report \/ Threads \/ StreamFails \/ LookOn \/ Asides

Pill == Flight /\ Types /\ RepairGoesOn

\* Nothing on its way or at the surfaces changes.
LEMMA ElsewhereFlies ==
  ASSUME Flight, UNCHANGED <<showing, surface, put, keys, opening>>,
         watching' = watching \/ watching' = Textbox(Posture(companion))
  PROVE  Flight' /\ RepairsStay /\ TasksStay
<1>1. UNCHANGED <<companion, decisions, work>>  BY DEF showing
<1>2. Owed' = Owed /\ Afoot' = Afoot /\ Tasks' = Tasks
  BY <1>1 DEF Owed, Afoot, Tasks
<1>3. Threaded'
  BY <1>1, <1>2 DEF Flight, Core, Threaded, Alone, Decided
<1>4. InOrder'  BY <1>1, <1>2 DEF Flight, Core, InOrder
<1>5. NewestGoesOn'  BY <1>1, <1>2 DEF Flight, Core, NewestGoesOn
<1>6. FlightTypes'  BY <1>1 DEF Flight, FlightTypes
<1>7. RepairsStay /\ TasksStay
  BY <1>2 DEF RepairsStay, TasksStay, Pending, Does
<1> QED  BY <1>3, <1>4, <1>5, <1>6, <1>7 DEF Flight, Core

LEMMA LooksFly ==
  Flight /\ (LookStops \/ LookBack) =>
    /\ Flight' /\ RepairsStay /\ TasksStay
    /\ UNCHANGED <<companion, repairing, chains, microphone>>
<1> SUFFICES ASSUME Flight, LookStops \/ LookBack
             PROVE  /\ Flight' /\ RepairsStay /\ TasksStay
                    /\ UNCHANGED <<companion, repairing, chains, microphone>>
  OBVIOUS
<1>1. /\ UNCHANGED <<showing, surface, windows, repairing, chains, microphone>>
      /\ watching' = watching \/ watching' = Textbox(Posture(companion))
  BY Zenon DEF LookStops, LookBack
<1>2. UNCHANGED <<put, keys, opening, companion>>  BY <1>1 DEF windows, microphone, showing
<1> QED  BY <1>1, <1>2, ElsewhereFlies

LEMMA AsidesFly ==
  Flight /\ (Asides \/ StreamFails) =>
    Flight' /\ RepairsStay /\ TasksStay /\ UNCHANGED <<companion, timers>>
<1> SUFFICES ASSUME Flight, Asides \/ StreamFails
             PROVE  Flight' /\ RepairsStay /\ TasksStay /\ UNCHANGED <<companion, timers>>
  OBVIOUS
<1>1. UNCHANGED <<showing, surface, windows, timers, opening>>
  BY DEF Asides, StreamFails, microphone
<1>2. UNCHANGED <<put, keys, watching, companion>>  BY <1>1 DEF windows, timers, showing
<1> QED  BY <1>1, <1>2, ElsewhereFlies

LEMMA PillMoves == Pill /\ Moves => Pill'
<1> SUFFICES ASSUME Pill, Moves PROVE Pill'
  OBVIOUS
<1>0. Flight /\ Types /\ RepairGoesOn /\ WindowTypes /\ TimerTypes /\ MicrophoneTypes
  BY DEF Pill, Types
<1>1. CASE \E e \in Gestures : Gesture(e)
  <2>1. PICK e \in Gestures : Gesture(e)  BY <1>1
  <2>2. UNCHANGED <<repairing, chains>>  BY <2>1 DEF Gesture, timers
  <2>3. Flight' /\ RepairsStay  BY <1>0, <2>1, GestureFlies
  <2>4. Types'  BY <1>0, <2>1, GestureStands
  <2> QED  BY <1>0, <2>2, <2>3, <2>4, RepairsGo DEF Pill
<1>2. CASE Report
  <2>1. UNCHANGED <<repairing, chains>>  BY <1>2 DEF Report, timers
  <2> QED  BY <1>0, <1>2, <2>1, ReportFlies, ReportStands, RepairsGo DEF Pill
<1>3. CASE LookOn
  <2>1. UNCHANGED <<repairing, chains>>  BY <1>3 DEF LookOn, timers
  <2> QED  BY <1>0, <1>3, <2>1, LookOnFlies, LookOnStands, RepairsGo DEF Pill
<1>4. CASE Asides
  <2>1. UNCHANGED <<repairing, chains, windows, timers, microphone, gestures, reports>>
    BY <1>4 DEF Asides, timers
  <2>2. trouble' \in {trouble, trouble + 1}  BY <1>4 DEF Asides
  <2>3. Types'
    BY <1>0, <2>1, <2>2, WindowsStay, TimersStay, MicrophoneStays, BoundsStay DEF Types
  <2> QED  BY <1>0, <1>4, <2>1, <2>3, AsidesFly, RepairsGo DEF Pill
<1>5. CASE StreamFails
  <2>1. UNCHANGED <<repairing, chains>>  BY <1>5 DEF StreamFails, timers
  <2> QED  BY <1>0, <1>5, <2>1, AsidesFly, StreamFailsStands, RepairsGo DEF Pill
<1>6. CASE Executed
  <2>1. UNCHANGED <<repairing, chains>>  BY <1>6, Zenon DEF Executed, timers
  <2> QED  BY <1>0, <1>6, <2>1, ExecutedFlies, ExecutedStands, RepairsGo DEF Pill
<1>7. CASE Bring
  <2>1. UNCHANGED <<repairing, chains>>  BY <1>7, Zenon DEF Bring, timers
  <2> QED  BY <1>0, <1>7, <2>1, BringFlies, HandsStand, RepairsGo DEF Pill
<1>8. CASE Take
  <2>1. UNCHANGED <<repairing, chains>>  BY <1>8, Zenon DEF Take, timers
  <2> QED  BY <1>0, <1>8, <2>1, TakeFlies, HandsStand, RepairsGo DEF Pill
<1>9. CASE PutWindows
  <2>1. UNCHANGED <<repairing, chains>>  BY <1>9, Zenon DEF PutWindows, timers
  <2> QED  BY <1>0, <1>9, <2>1, PutWindowsFlies, PutWindowsStands, RepairsGo DEF Pill
<1>10. CASE PutRest
  BY <1>0, <1>10, PutRestFlies, PutRestStands DEF Pill
<1>11. CASE Follow
  BY <1>0, <1>11, FollowFlies, FollowStands DEF Pill
<1>12. CASE StartRecording
  <2>1. UNCHANGED <<repairing, chains>>  BY <1>12, Zenon DEF StartRecording, timers
  <2> QED  BY <1>0, <1>12, <2>1, StartRecordingFlies, StartRecordingStands, RepairsGo DEF Pill
<1>13. CASE RecorderStarted
  <2>1. UNCHANGED <<repairing, chains>>  BY <1>13, Zenon DEF RecorderStarted, timers
  <2> QED  BY <1>0, <1>13, <2>1, RecorderStartedFlies, RecorderStartedStands, RepairsGo DEF Pill
<1>14. CASE CloseRecording
  <2>1. UNCHANGED <<repairing, chains>>  BY <1>14, Zenon DEF CloseRecording, timers
  <2> QED  BY <1>0, <1>14, <2>1, CloseRecordingFlies, CloseRecordingStands, RepairsGo DEF Pill
<1>15. CASE Heard
  <2>1. UNCHANGED <<repairing, chains>>  BY <1>15, Zenon DEF Heard, timers
  <2> QED  BY <1>0, <1>15, <2>1, HeardFlies, HeardStands, RepairsGo DEF Pill
<1>16. CASE OtherAction
  <2>1. UNCHANGED <<repairing, chains>>  BY <1>16, Zenon DEF OtherAction, timers
  <2> QED  BY <1>0, <1>16, <2>1, OtherActionFlies, HandsStand, RepairsGo DEF Pill
<1>17. CASE RepairDue
  BY <1>0, <1>17, RepairDueFlies, RepairDueStands DEF Pill
<1>18. CASE LookStops \/ LookBack
  <2>1. UNCHANGED <<repairing, chains>>  BY <1>18, Zenon DEF LookStops, LookBack
  <2> QED  BY <1>0, <1>18, <2>1, LooksFly, LooksStand, RepairsGo DEF Pill
<1> QED
  BY <1>1, <1>2, <1>3, <1>4, <1>5, <1>6, <1>7, <1>8, <1>9, <1>10, <1>11, <1>12, <1>13, <1>14,
     <1>15, <1>16, <1>17, <1>18, Zenon DEF Moves, Threads

LEMMA TakeMoves == Pill /\ TakeInv /\ ~Hasty /\ Moves => TakeInv'
<1> SUFFICES ASSUME Pill, TakeInv, ~Hasty, Moves PROVE TakeInv'
  OBVIOUS
<1>0. Flight /\ Types /\ RepairGoesOn /\ WindowTypes /\ TimerTypes /\ MicrophoneTypes
  BY DEF Pill, Types
<1> DEFINE Still == /\ UNCHANGED <<capture, generation, failed, opening, hearing, hears>>
                    /\ late \subseteq late'
<1>1. CASE \E e \in Gestures : Gesture(e)
  BY <1>0, <1>1, GestureTakes
<1>2. CASE Report
  <2>1. Still  BY <1>2 DEF Report, microphone
  <2>2. TasksStay /\ companion' \in {[companion EXCEPT !.working = ~@], ReportTrouble(companion)}
    BY <1>0, <1>2, ReportFlies
  <2>3. companion \in Companions  BY <1>0 DEF Flight, FlightTypes
  <2>4. \/ companion'.phase = companion.phase
        \/ companion'.phase \notin {"listening", "transcribing"}
    <3>1. Without(companion, "failed").phase = "failed"  BY <2>3, WithoutFits DEF Phases
    <3>2. [companion EXCEPT !.working = ~@].phase = companion.phase  BY <2>3 DEF Companions
    <3>3. companion' \in {[companion EXCEPT !.working = ~@], Without(companion, "failed"), companion}
      BY <2>2 DEF ReportTrouble
    <3> QED  BY <3>1, <3>2, <3>3
  <2> QED  BY <2>1, <2>2, <2>4, StaysTakes, OutTakes
<1>3. CASE LookOn
  <2>1. Still  BY <1>3 DEF LookOn, microphone
  <2> QED  BY <1>0, <1>3, <2>1, LookOnFlies, StaysTakes
<1>4. CASE Asides
  <2>1. Still  BY <1>4 DEF Asides, microphone
  <2> QED  BY <1>0, <1>4, <2>1, AsidesFly, StaysTakes
<1>5. CASE StreamFails
  <2>1. late' # {} /\ UNCHANGED <<companion, capture, hearing, hears>> /\ TasksStay
    BY <1>0, <1>5, AsidesFly DEF StreamFails
  <2> QED  BY <2>1 DEF TakeInv, ListeningGoesOn, TranscribingGoesOn, TasksStay
<1>6. CASE Executed
  BY <1>0, <1>6, ExecutedFlies, OutTakes
<1>7. CASE Bring
  <2>1. Still /\ companion' = companion  BY <1>7, Zenon DEF Bring, microphone
  <2> QED  BY <1>0, <1>7, <2>1, BringFlies, StaysTakes
<1>8. CASE Take
  <2>1. Still /\ companion' = companion  BY <1>8, Zenon DEF Take, microphone
  <2> QED  BY <1>0, <1>8, <2>1, TakeFlies, StaysTakes
<1>9. CASE PutWindows
  <2>1. Still /\ companion' = companion  BY <1>9, Zenon DEF PutWindows, microphone, showing
  <2> QED  BY <1>0, <1>9, <2>1, PutWindowsFlies, StaysTakes
<1>10. CASE PutRest
  <2>1. /\ UNCHANGED <<capture, generation, failed, opening, hearing, hears, companion>>
        /\ late' = late \/ late' = late \cup {"recording_failed"}
    BY <1>10, Zenon DEF PutRest, showing
  <2>2. late \subseteq late'  BY <2>1
  <2> QED  BY <1>0, <1>10, <2>1, <2>2, PutRestFlies, StaysTakes
<1>11. CASE Follow
  <2>1. Still  BY <1>11, Zenon DEF Follow, microphone
  <2>2. (companion' = companion /\ TasksStay) \/ companion'.phase = "resting"
    BY <1>0, <1>11, FollowFlies
  <2> QED  BY <2>1, <2>2, StaysTakes, OutTakes
<1>12. CASE StartRecording
  BY <1>0, <1>12, StartRecordingFlies
<1>13. CASE RecorderStarted
  BY <1>0, <1>13, RecorderStartedFlies
<1>14. CASE CloseRecording
  BY <1>0, <1>14, CloseRecordingFlies
<1>15. CASE Heard
  BY <1>0, <1>15, HeardFlies
<1>16. CASE OtherAction
  BY <1>0, <1>16, OtherActionFlies
<1>17. CASE RepairDue
  <2>1. Still /\ companion' = companion  BY <1>17, Zenon DEF RepairDue, microphone
  <2> QED  BY <1>0, <1>17, <2>1, RepairDueFlies, StaysTakes
<1>18. CASE LookStops \/ LookBack
  <2>1. UNCHANGED <<companion, microphone>> /\ TasksStay  BY <1>0, <1>18, LooksFly
  <2>2. Still  BY <2>1 DEF microphone
  <2> QED  BY <2>1, <2>2, StaysTakes
<1> QED
  BY <1>1, <1>2, <1>3, <1>4, <1>5, <1>6, <1>7, <1>8, <1>9, <1>10, <1>11, <1>12, <1>13, <1>14,
     <1>15, <1>16, <1>17, <1>18, Zenon DEF Moves, Threads

-----------------------------------------------------------------------------
(* The keys beside the pill.                                                *)

KeysInv == Pill /\ HoldTypes /\ GrabsFollow /\ OpenBeforeTalk

LEMMA MeaningIs ==
  ASSUME NEW g \in {"open", "talk", "tap", "cancel", "stop"}, Meaning(g)
  PROVE  \E e \in Gestures : Gesture(e)
<1>1. \A kind \in {"activate", "escape", "cancel", "reveal", "dismiss", "stop"} : Plain(kind) \in Gestures
  BY DEF Gestures
<1>2. CASE g \in {"open", "talk"}
  <2>1. Gesture(Plain("activate"))  BY <1>2 DEF Meaning, Activate
  <2> QED  BY <1>1, <2>1
<1>3. CASE g = "tap"
  <2> DEFINE kind == IF Posture(companion) = "off" THEN "reveal" ELSE "dismiss"
  <2>1. Gesture(Plain(kind)) /\ kind \in {"activate", "escape", "cancel", "reveal", "dismiss", "stop"}
    BY <1>3 DEF Meaning, ToggleWorkspace
  <2> HIDE DEF kind
  <2> QED  BY <1>1, <2>1
<1>4. CASE g = "cancel"
  <2> DEFINE kind == IF Waits(Posture(companion)) /\ Workspace THEN "cancel" ELSE "escape"
  <2>1. Gesture(Plain(kind)) /\ kind \in {"activate", "escape", "cancel", "reveal", "dismiss", "stop"}
    BY <1>4 DEF Meaning
  <2> HIDE DEF kind
  <2> QED  BY <1>1, <2>1
<1>5. CASE g = "stop"
  <2>1. Gesture(Plain("stop"))  BY <1>5 DEF Meaning
  <2> QED  BY <1>1, <2>1
<1> QED  BY <1>2, <1>3, <1>4, <1>5

LEMMA ElsewhereMoves == Flight /\ Elsewhere => Moves
<1> SUFFICES ASSUME Flight, Elsewhere PROVE Moves
  OBVIOUS
<1>1. \A kind \in {"activate", "escape", "cancel", "reveal", "dismiss", "stop"} : Plain(kind) \in Gestures
  BY DEF Gestures
<1>2. \/ Escape \/ Enter \/ Answered \/ Report \/ Threads \/ StreamFails \/ TickerDue \/ LookOn
  BY Zenon DEF Elsewhere, Mishaps
<1>3. CASE Escape
  <2> DEFINE kind == IF Waits(Posture(companion)) /\ Workspace THEN "cancel" ELSE "escape"
  <2>1. Gesture(Plain(kind)) /\ kind \in {"activate", "escape", "cancel", "reveal", "dismiss", "stop"}
    BY <1>3 DEF Escape
  <2> HIDE DEF kind
  <2> QED  BY <1>1, <2>1 DEF Moves
<1>4. CASE Enter
  BY <1>4 DEF Enter, Gestures, Moves
<1>5. CASE Answered
  <2>1. companion.id \in Nat  BY DEF Flight, FlightTypes, Companions
  <2>2. PICK kind \in {"acknowledged", "submission_uncertain"} :
          Gesture(Event(kind, companion.id, Empty))
    BY <1>5 DEF Answered
  <2>3. Event(kind, companion.id, Empty) \in Gestures  BY <2>1 DEF Gestures
  <2> QED  BY <2>2, <2>3 DEF Moves
<1>6. CASE TickerDue
  BY <1>1, <1>6 DEF TickerDue, Moves
<1> QED  BY <1>2, <1>3, <1>4, <1>5, <1>6 DEF Moves

LEMMA CarryOutMoves == HoldTypes /\ CarryOut => \E e \in Gestures : Gesture(e)
<1> SUFFICES ASSUME HoldTypes, CarryOut PROVE \E e \in Gestures : Gesture(e)
  OBVIOUS
<1>1. queued # <<>> /\ Meaning(Head(queued))  BY DEF CarryOut
<1>2. Head(queued) \in {"open", "talk", "tap", "cancel", "stop"}
  <2>1. queued \in Seq({"open", "talk", "tap", "cancel", "stop"})  BY DEF HoldTypes
  <2>2. \A S, s : s \in Seq(S) /\ s # <<>> => Head(s) \in S  OBVIOUS
  <2> QED  BY <1>1, <2>1, <2>2, Zenon
<1> DEFINE g == Head(queued)
<1>3. g \in {"open", "talk", "tap", "cancel", "stop"} /\ Meaning(g)  BY <1>1, <1>2
<1> HIDE DEF g
<1> QED  BY <1>3, MeaningIs

LEMMA StillIsAside == UNCHANGED vars => Asides
  BY DEF vars, Asides, showing, windows, timers, microphone

LEMMA GrabberIsAside == Grabber => Asides
<1> SUFFICES ASSUME Grabber PROVE Asides
  OBVIOUS
<1>1. UNCHANGED <<showing, surface, windows, timers, microphone, gestures, reports>>
      /\ (trouble' = trouble \/ trouble' = trouble + 1)
  BY Zenon DEF Grabber
<1> QED  BY <1>1 DEF Asides

\* Every step of the keys is a move of the pill.
LEMMA KeysMove == Flight /\ HoldTypes /\ [KeysNext]_allVars => Moves
<1> SUFFICES ASSUME Flight, HoldTypes, [KeysNext]_allVars PROVE Moves
  OBVIOUS
<1>1. CASE UNCHANGED allVars
  <2>1. UNCHANGED vars  BY <1>1 DEF allVars
  <2> QED  BY <2>1, StillIsAside DEF Moves
<1>2. CASE Pressed \/ Matured \/ Released \/ Beside
  <2>1. UNCHANGED vars  BY <1>2, Zenon DEF Pressed, Matured, Released, Beside
  <2> QED  BY <2>1, StillIsAside DEF Moves
<1>3. CASE Grabber  BY <1>3, GrabberIsAside DEF Moves
<1>4. CASE CarryOut  BY <1>4, CarryOutMoves DEF Moves
<1>5. CASE Elsewhere  BY <1>5, ElsewhereMoves
<1> QED  BY <1>1, <1>2, <1>3, <1>4, <1>5 DEF KeysNext

-----------------------------------------------------------------------------
(* What is held, queued and grabbed.                                        *)

\* No step takes a trouble back, and only a report is one.
Counted == reports' = reports /\ (trouble' = trouble \/ trouble' = trouble + 1)

LEMMA ThreadsCount == Threads => Counted
<1> SUFFICES ASSUME Threads PROVE Counted
  OBVIOUS
<1>1. CASE Executed \/ Bring \/ Take \/ Follow \/ StartRecording \/ CloseRecording
           \/ Heard \/ OtherAction \/ RepairDue \/ LookStops \/ LookBack
  <2>1. UNCHANGED bounds
    BY <1>1, Zenon DEF Executed, Bring, Take, Follow, StartRecording, CloseRecording, Heard,
                       OtherAction, RepairDue, LookStops, LookBack
  <2> QED  BY <2>1 DEF bounds, Counted
<1>2. CASE PutWindows \/ PutRest \/ RecorderStarted
  BY <1>2, Zenon DEF PutWindows, PutRest, RecorderStarted, Counted
<1> QED  BY <1>1, <1>2, Zenon DEF Threads

LEMMA MovesCount == Moves => Counted \/ (Report /\ trouble' = trouble)
<1> SUFFICES ASSUME Moves PROVE Counted \/ (Report /\ trouble' = trouble)
  OBVIOUS
<1>1. CASE \E e \in Gestures : Gesture(e)  BY <1>1, Zenon DEF Gesture, Counted
<1>2. CASE Report  BY <1>2, Zenon DEF Report
<1>3. CASE StreamFails \/ LookOn \/ Asides
  BY <1>3, Zenon DEF StreamFails, LookOn, Asides, Counted
<1> QED  BY <1>1, <1>2, <1>3, ThreadsCount, Zenon DEF Moves

\* A report uses up a press.
LEMMA ReportsCount == Elsewhere => reports' = reports \/ (Room /\ reports' = reports + 1)
<1> SUFFICES ASSUME Elsewhere PROVE reports' = reports \/ (Room /\ reports' = reports + 1)
  OBVIOUS
<1>1. CASE Escape \/ Enter \/ Answered \/ TickerDue
  BY <1>1, Zenon DEF Escape, Enter, Answered, TickerDue, Gesture
<1>2. CASE StreamFails \/ LookOn  BY <1>2, Zenon DEF StreamFails, LookOn
<1>3. CASE Room /\ Report  BY <1>3, Zenon DEF Report
<1> QED  BY <1>1, <1>2, <1>3, ThreadsCount, Zenon DEF Elsewhere, Mishaps, Counted

LEMMA LastOf ==
  ASSUME NEW S, NEW s \in Seq(S), NEW x \in S
  PROVE  /\ Append(s, x) \in Seq(S) /\ Len(Append(s, x)) = Len(s) + 1
         /\ Append(s, x)[Len(s) + 1] = x
         /\ \A k \in 1..Len(s) : Append(s, x)[k] = s[k]
  OBVIOUS

LEMMA BehindOf ==
  ASSUME NEW S, NEW s \in Seq(S), s # <<>>
  PROVE  /\ Tail(s) \in Seq(S) /\ Head(s) = s[1] /\ Head(s) \in S
         /\ Len(s) \in Nat \ {0} /\ Len(Tail(s)) = Len(s) - 1
         /\ \A k \in 1..Len(s) - 1 : Tail(s)[k] = s[k + 1]
  OBVIOUS

Meanings == {"open", "talk", "tap", "cancel", "stop"}

\* A gesture posted last leaves the order of those before it.
LEMMA PostKeeps ==
  ASSUME NEW q \in Seq(Meanings), NEW g \in Meanings, NEW p, p = Append(q, g)
  PROVE  /\ p \in Seq(Meanings) /\ DOMAIN p = 1..Len(q) + 1 /\ Len(p) = Len(q) + 1
         /\ p[Len(q) + 1] = g
         /\ \A k \in 1..Len(q) : p[k] = q[k]
         /\ Len(q) \in Nat /\ DOMAIN q = 1..Len(q)
<1>1. p \in Seq(Meanings)  BY LastOf
<1>2. DOMAIN p = 1..Len(p) /\ DOMAIN q = 1..Len(q) /\ Len(q) \in Nat  BY <1>1
<1> QED  BY <1>1, <1>2, LastOf

LEMMA GrabsKept ==
  ASSUME Pill, GrabsFollow, wanted \in Seq(BOOLEAN), keys \in BOOLEAN, keys' \in BOOLEAN,
         held' = held, wanted' = IF keys' = keys THEN wanted ELSE Append(wanted, keys'),
         trouble' = trouble \/ trouble' = trouble + 1
  PROVE  GrabsFollow' /\ wanted' \in Seq(BOOLEAN)
<1>1. CASE keys' = keys
  <2>1. trouble' = 0 => trouble = 0  BY DEF Pill, Types, BoundTypes
  <2> QED  BY <1>1, <2>1 DEF GrabsFollow
<1>2. CASE keys' # keys
  <2> DEFINE x == keys'
             B == BOOLEAN
  <2>1. wanted' = Append(wanted, x) /\ x \in B /\ wanted \in Seq(B)  BY <1>2
  <2> HIDE DEF x, B
  <2>2. /\ wanted' \in Seq(B) /\ Len(wanted') = Len(wanted) + 1
        /\ wanted'[Len(wanted) + 1] = x /\ Len(wanted) \in Nat
    BY <2>1, LastOf
  <2>3. wanted' # <<>>
    <3>1. \A s : s = <<>> => Len(s) = 0  OBVIOUS
    <3> QED  BY <2>2, <3>1
  <2>4. wanted'[Len(wanted')] = x  BY <2>2
  <2>5. wanted'[Len(wanted')] = keys'  BY <2>4 DEF x
  <2> QED  BY <2>2, <2>3, <2>5 DEF GrabsFollow, B
<1> QED  BY <1>1, <1>2

LEMMA GrabberKeeps ==
  ASSUME GrabsFollow, HoldTypes, BoundTypes, keys' = keys, keys \in BOOLEAN, Grabber
  PROVE  GrabsFollow' /\ HoldTypes'
<1>1. /\ wanted # <<>> /\ wanted' = Tail(wanted)
      /\ \/ Head(wanted) /\ held' = Registers /\ trouble' = trouble
         \/ ~Head(wanted) /\ held' = {} /\ trouble' = trouble
         \/ ~Head(wanted) /\ held' = held /\ trouble' = trouble + 1
      /\ UNCHANGED <<reports, hold>>
  BY Zenon DEF Grabber
<1>2. wanted \in Seq(BOOLEAN) /\ held \subseteq Accelerators \ Foreign
  BY DEF HoldTypes, GrabsFollow
<1>3. /\ wanted' \in Seq(BOOLEAN) /\ Head(wanted) = wanted[1] /\ Head(wanted) \in BOOLEAN
      /\ Len(wanted) \in Nat \ {0} /\ Len(wanted') = Len(wanted) - 1
      /\ \A k \in 1..Len(wanted) - 1 : wanted'[k] = wanted[k + 1]
  <2> DEFINE B == BOOLEAN
  <2>1. wanted \in Seq(B)  BY <1>2
  <2> HIDE DEF B
  <2>2. /\ wanted' \in Seq(B) /\ Head(wanted) = wanted[1] /\ Head(wanted) \in B
        /\ Len(wanted) \in Nat \ {0} /\ Len(wanted') = Len(wanted) - 1
        /\ \A k \in 1..Len(wanted) - 1 : wanted'[k] = wanted[k + 1]
    BY <1>1, <2>1, BehindOf
  <2> QED  BY <2>2 DEF B
<1>4. Registers = Accelerators \ Foreign  BY <1>2 DEF Registers
<1>5. held' \subseteq Accelerators \ Foreign  BY <1>1, <1>2, <1>4
<1>6. wanted[Len(wanted)] = keys  BY <1>1 DEF GrabsFollow
<1>7. ASSUME wanted' # <<>> PROVE wanted'[Len(wanted')] = keys'
  <2>1. Len(wanted') # 0  BY <1>3, <1>7
  <2>2. Len(wanted) - 1 \in 1..Len(wanted) - 1 /\ (Len(wanted) - 1) + 1 = Len(wanted)
    BY <1>3, <2>1
  <2>3. wanted'[Len(wanted) - 1] = wanted[Len(wanted)]  BY <1>3, <2>2
  <2> QED  BY <1>3, <1>6, <2>3
<1>8. ASSUME wanted' = <<>>, trouble' = 0
      PROVE  held' = (IF keys' THEN Accelerators \ Foreign ELSE {})
  <2>1. Len(wanted) = 1
    <3>1. \A s : s = <<>> => Len(s) = 0  OBVIOUS
    <3> QED  BY <1>3, <1>8, <3>1
  <2>2. Head(wanted) = keys  BY <1>3, <1>6, <2>1
  <2>3. trouble \in Nat  BY DEF BoundTypes
  <2>4. CASE keys
    BY <1>1, <1>4, <2>2, <2>4
  <2>5. CASE ~keys
    <3>1. held' = {} \/ trouble' = trouble + 1  BY <1>1, <2>2, <2>5, Zenon
    <3>2. held' = {}  BY <1>8, <2>3, <3>1
    <3> QED  BY <2>5, <3>2
  <2> QED  BY <2>4, <2>5
<1>9. GrabsFollow'  BY <1>5, <1>7, <1>8 DEF GrabsFollow
<1>10. HoldTypes'
  <2>1. UNCHANGED <<grip, timing, queued>>  BY <1>1 DEF hold
  <2> QED  BY <1>1, <1>3, <1>5, <2>1 DEF HoldTypes
<1> QED  BY <1>9, <1>10

LEMMA PostOrders ==
  ASSUME queued \in Seq(Meanings), OpenBeforeTalk, NEW g \in Meanings, queued' = Append(queued, g),
         \/ g = "talk"
         \/ grip'.down /\ grip'.talking
         \/ g # "open" /\ (grip.down /\ grip.talking => grip'.down /\ grip'.talking)
  PROVE  OpenBeforeTalk'
<1> DEFINE p == queued'
           n == Len(queued)
<1>1. /\ p \in Seq(Meanings) /\ DOMAIN p = 1..n + 1 /\ Len(p) = n + 1 /\ p[n + 1] = g
      /\ \A k \in 1..n : p[k] = queued[k]
      /\ n \in Nat /\ DOMAIN queued = 1..n
  BY PostKeeps
<1>2. n = Len(queued)  OBVIOUS
<1> HIDE DEF n
<1>3. SUFFICES ASSUME NEW i \in 1..n + 1, p[i] = "open", ~(grip'.down /\ grip'.talking)
               PROVE  i < n + 1 /\ \E j \in i + 1..n + 1 : p[j] = "talk"
  BY <1>1 DEF OpenBeforeTalk
<1>4. i \in 1..n
  <2>1. CASE i = n + 1  BY <1>1, <1>3, <2>1
  <2>2. CASE i # n + 1  BY <1>1, <1>3, <2>2
  <2> QED  BY <2>1, <2>2
<1>5. queued[i] = "open"  BY <1>1, <1>3, <1>4
<1>6. CASE g = "talk"
  <2>1. n + 1 \in i + 1..n + 1  BY <1>1, <1>4
  <2> QED  BY <1>1, <1>4, <1>6, <2>1
<1>7. CASE g # "talk"
  <2>1. ~(grip.down /\ grip.talking)  BY <1>3, <1>7
  <2>2. PICK j \in i + 1..n : queued[j] = "talk"
    BY <1>1, <1>2, <1>4, <1>5, <2>1 DEF OpenBeforeTalk
  <2>3. j \in 1..n /\ j \in i + 1..n + 1  BY <1>1, <1>4, <2>2
  <2> QED  BY <1>1, <1>4, <2>2, <2>3
<1> QED  BY <1>6, <1>7

LEMMA CarryOrders ==
  ASSUME queued \in Seq(Meanings), OpenBeforeTalk, queued # <<>>, queued' = Tail(queued), grip' = grip
  PROVE  queued' \in Seq(Meanings) /\ OpenBeforeTalk'
<1> DEFINE p == queued'
           n == Len(queued)
<1>1. /\ p \in Seq(Meanings) /\ Len(p) = n - 1 /\ n \in Nat \ {0}
      /\ \A k \in 1..n - 1 : p[k] = queued[k + 1]
  BY BehindOf
<1>2. DOMAIN p = 1..n - 1 /\ DOMAIN queued = 1..n
  <2>1. DOMAIN p = 1..Len(p)  BY <1>1
  <2> QED  BY <1>1, <2>1
<1>3. n = Len(queued)  OBVIOUS
<1> HIDE DEF n
<1>4. SUFFICES ASSUME NEW i \in 1..n - 1, p[i] = "open", ~(grip.down /\ grip.talking)
               PROVE  i < n - 1 /\ \E j \in i + 1..n - 1 : p[j] = "talk"
  BY <1>1, <1>2 DEF OpenBeforeTalk
<1>5. i + 1 \in 1..n /\ queued[i + 1] = "open"  BY <1>1, <1>4
<1>6. PICK j \in (i + 1) + 1..n : queued[j] = "talk"
  BY <1>1, <1>2, <1>3, <1>4, <1>5 DEF OpenBeforeTalk
<1>7. j - 1 \in i + 1..n - 1 /\ (j - 1) + 1 = j /\ j - 1 \in 1..n - 1
  BY <1>1, <1>4, <1>6
<1>8. p[j - 1] = "talk"  BY <1>1, <1>6, <1>7
<1> QED  BY <1>1, <1>4, <1>7, <1>8

LEMMA KeysKeep ==
  ASSUME KeysInv, Pill', [KeysNext]_allVars
  PROVE  HoldTypes' /\ GrabsFollow' /\ OpenBeforeTalk'
<1>1. /\ Pill /\ HoldTypes /\ GrabsFollow /\ OpenBeforeTalk
      /\ Flight /\ Types /\ BoundTypes /\ keys \in BOOLEAN /\ keys' \in BOOLEAN
  BY DEF KeysInv, Pill, Types, WindowTypes
<1>2. /\ grip \in [turn : 0..MaxPresses, down : BOOLEAN, talking : BOOLEAN]
      /\ grip.turn + reports <= MaxPresses
      /\ timing \subseteq 1..MaxPresses /\ queued \in Seq(Meanings)
      /\ held \subseteq Accelerators /\ wanted \in Seq(BOOLEAN)
      /\ MaxPresses \in Nat /\ reports \in Nat
  BY <1>1, KeysAssumption DEF HoldTypes, Meanings, BoundTypes
<1>3. {"open", "talk", "tap", "cancel", "stop"} = Meanings /\ Accelerators \subseteq Meanings
      /\ "open" \notin Accelerators
  BY DEF Meanings, Accelerators
<1>4. ASSUME UNCHANGED <<vars, grabs>>
      PROVE  GrabsFollow' /\ held' = held /\ wanted' = wanted /\ reports' = reports
  <2>1. UNCHANGED <<keys, trouble, reports, held, wanted>>  BY <1>4 DEF vars, grabs
  <2> QED  BY <1>1, <2>1 DEF GrabsFollow
<1>5. CASE UNCHANGED allVars
  <2>1. UNCHANGED <<vars, grabs, grip, timing, queued>>  BY <1>5 DEF allVars, keyVars, hold
  <2>2. OpenBeforeTalk'  BY <1>1, <2>1 DEF OpenBeforeTalk
  <2> QED  BY <1>1, <1>4, <2>1, <2>2 DEF HoldTypes
<1>6. CASE Pressed
  <2>1. /\ ~grip.down /\ grip.turn + reports < MaxPresses
        /\ grip' = [turn |-> grip.turn + 1, down |-> TRUE, talking |-> FALSE]
        /\ timing' = timing \cup {grip.turn + 1}
        /\ UNCHANGED <<vars, grabs, queued>>
    BY <1>6 DEF Pressed, Room
  <2>2. grip.turn + 1 \in 1..MaxPresses /\ (grip.turn + 1) + reports <= MaxPresses
    BY <1>2, <2>1
  <2>3. /\ grip' \in [turn : 0..MaxPresses, down : BOOLEAN, talking : BOOLEAN]
        /\ grip'.turn = grip.turn + 1
    BY <2>1, <2>2
  <2>4. HoldTypes'  BY <1>2, <1>3, <1>4, <2>1, <2>2, <2>3 DEF HoldTypes
  <2>5. OpenBeforeTalk'  BY <1>1, <2>1 DEF OpenBeforeTalk
  <2> QED  BY <1>4, <2>1, <2>4, <2>5
<1>7. CASE Matured
  <2>1. PICK turn \in timing :
          /\ timing' = timing \ {turn}
          /\ IF StillDown(turn) THEN grip' = [grip EXCEPT !.talking = TRUE] /\ Post("open")
                                ELSE UNCHANGED <<grip, queued>>
          /\ UNCHANGED <<vars, beside, grabs, take>>
    BY <1>7 DEF Matured
  <2>2. CASE StillDown(turn)
    <3>1. grip' = [grip EXCEPT !.talking = TRUE] /\ queued' = Append(queued, "open") /\ grip.down
      BY <2>1, <2>2 DEF StillDown, Post
    <3>2. /\ grip' \in [turn : 0..MaxPresses, down : BOOLEAN, talking : BOOLEAN]
          /\ grip'.turn = grip.turn /\ grip'.down /\ grip'.talking
      BY <1>2, <3>1
    <3> DEFINE g == "open"
    <3>3. g \in Meanings /\ queued' = Append(queued, g)  BY <1>3, <3>1
    <3> HIDE DEF g
    <3>4. OpenBeforeTalk'  BY <1>1, <1>2, <3>2, <3>3, PostOrders
    <3>5. queued' \in Seq(Meanings)  BY <1>2, <3>3, PostKeeps
    <3>6. HoldTypes'  BY <1>2, <1>3, <1>4, <2>1, <3>2, <3>5 DEF HoldTypes
    <3> QED  BY <1>4, <2>1, <3>4, <3>6
  <2>3. CASE ~StillDown(turn)
    <3>1. UNCHANGED <<grip, queued>>  BY <2>1, <2>3
    <3>2. OpenBeforeTalk'  BY <1>1, <3>1 DEF OpenBeforeTalk
    <3>3. HoldTypes'  BY <1>2, <1>3, <1>4, <2>1, <3>1 DEF HoldTypes
    <3> QED  BY <1>4, <2>1, <3>2, <3>3
  <2> QED  BY <2>2, <2>3
<1>8. CASE Released
  <2> DEFINE g == IF grip.talking THEN "talk" ELSE "tap"
  <2>1. /\ grip.down /\ grip' = [grip EXCEPT !.down = FALSE, !.talking = FALSE]
        /\ queued' = Append(queued, g) /\ UNCHANGED <<vars, timing, grabs>>
    BY <1>8 DEF Released, Post
  <2>2. grip' \in [turn : 0..MaxPresses, down : BOOLEAN, talking : BOOLEAN] /\ grip'.turn = grip.turn
    BY <1>2, <2>1
  <2>3. g \in Meanings /\ (g = "talk" \/ (g # "open" /\ ~grip.talking))
    BY <1>3
  <2> HIDE DEF g
  <2>4. OpenBeforeTalk'  BY <1>1, <1>2, <2>1, <2>3, PostOrders
  <2>5. queued' \in Seq(Meanings)  BY <1>2, <2>1, <2>3, PostKeeps
  <2>6. HoldTypes'  BY <1>2, <1>3, <1>4, <2>1, <2>2, <2>5 DEF HoldTypes
  <2> QED  BY <1>4, <2>1, <2>4, <2>6
<1>9. CASE Beside
  <2>1. PICK g \in held : queued' = Append(queued, g)  BY <1>9 DEF Beside, Post
  <2>2. UNCHANGED <<vars, grip, timing, grabs>>  BY <1>9 DEF Beside
  <2>3. g \in Meanings /\ g # "open"  BY <1>2, <1>3, <2>1
  <2>4. OpenBeforeTalk'  BY <1>1, <1>2, <2>1, <2>2, <2>3, PostOrders
  <2>5. queued' \in Seq(Meanings)  BY <1>2, <2>1, <2>3, PostKeeps
  <2>6. HoldTypes'  BY <1>2, <1>3, <1>4, <2>2, <2>5 DEF HoldTypes
  <2> QED  BY <1>4, <2>2, <2>4, <2>6
<1>10. CASE Grabber
  <2>1. UNCHANGED <<keys, grip, queued>>
    <3>1. UNCHANGED <<windows, hold>>  BY <1>10, Zenon DEF Grabber
    <3> QED  BY <3>1 DEF windows, hold
  <2>2. GrabsFollow' /\ HoldTypes'  BY <1>1, <1>10, <2>1, GrabberKeeps
  <2>3. OpenBeforeTalk'  BY <1>1, <2>1 DEF OpenBeforeTalk
  <2> QED  BY <2>2, <2>3
<1>11. CASE CarryOut
  <2>1. queued # <<>> /\ queued' = Tail(queued) /\ UNCHANGED <<grip, timing, grabs>>
    BY <1>11 DEF CarryOut
  <2>2. PICK e \in Gestures : Gesture(e)  BY <1>1, <1>11, CarryOutMoves
  <2>3. UNCHANGED <<windows, reports, trouble>>  BY <2>2, Zenon DEF Gesture
  <2>4. UNCHANGED <<keys, reports, trouble, held, wanted>>  BY <2>1, <2>3 DEF windows, grabs
  <2>5. GrabsFollow'  BY <1>1, <2>4 DEF GrabsFollow
  <2>6. queued' \in Seq(Meanings) /\ OpenBeforeTalk'  BY <1>1, <1>2, <2>1, CarryOrders
  <2>7. HoldTypes'  BY <1>2, <1>3, <2>1, <2>4, <2>6 DEF HoldTypes
  <2> QED  BY <2>5, <2>6, <2>7
<1>12. CASE Elsewhere
  <2>1. /\ wanted' = (IF keys' = keys THEN wanted ELSE Append(wanted, keys'))
        /\ UNCHANGED <<hold, held>>
    BY <1>12, Zenon DEF Elsewhere
  <2>2. UNCHANGED <<grip, timing, queued>>  BY <2>1 DEF hold
  <2>3. Moves  BY <1>1, <1>12, ElsewhereMoves
  <2>4. trouble' = trouble \/ trouble' = trouble + 1
    BY <2>3, MovesCount DEF Counted
  <2>5. GrabsFollow' /\ wanted' \in Seq(BOOLEAN)
    BY <1>1, <1>2, <2>1, <2>4, GrabsKept
  <2>6. grip'.turn + reports' <= MaxPresses
    <3>1. reports' = reports \/ (Room /\ reports' = reports + 1)  BY <1>12, ReportsCount
    <3> QED  BY <1>2, <2>2, <3>1 DEF Room
  <2>7. HoldTypes'
    BY <1>2, <1>3, <2>1, <2>2, <2>5, <2>6 DEF HoldTypes
  <2>8. OpenBeforeTalk'  BY <1>1, <2>2 DEF OpenBeforeTalk
  <2> QED  BY <2>5, <2>7, <2>8
<1> QED
  BY <1>5, <1>6, <1>7, <1>8, <1>9, <1>10, <1>11, <1>12, Zenon DEF KeysNext

-----------------------------------------------------------------------------
(* Once every thread is done.                                               *)

LEMMA KeysBegin == KeysInit => KeysInv /\ TakeInv
<1> SUFFICES ASSUME KeysInit PROVE KeysInv /\ TakeInv
  OBVIOUS
<1>1. /\ companion = Fresh /\ decisions = 0 /\ work = {} /\ opening = {}
      /\ put = 0 /\ screen = "off" /\ drawn = FALSE /\ keys = FALSE
      /\ repairing = FALSE /\ chains = <<>> /\ watching = FALSE /\ looks = 0 /\ stopping = 0
      /\ capture = 0 /\ generation = 0 /\ failed = 0
      /\ hearing = {} /\ hears = 0 /\ late = {}
      /\ gestures = 0 /\ reports = 0 /\ trouble = 0
  BY Zenon DEF KeysInit, Init
<1>2. /\ surface = [next |-> NoDecision, version |-> 0, applying |-> FALSE,
                    waiting |-> <<>>, own |-> Nothing, current |-> NoDecision,
                    stage |-> "take", ok |-> TRUE]
  BY Zenon DEF KeysInit, Init
<1>3. /\ surface.next = NoDecision /\ surface.version = 0 /\ surface.applying = FALSE
      /\ surface.waiting = <<>> /\ surface.stage = "take"
      /\ surface \in Surfaces
  <2>1. NoDecision \in Decisions /\ Nothing \in Followers /\ <<>> \in Seq(Followers)
    BY NoDecisionFits, FollowerFits
  <2> QED  BY <1>2, <2>1 DEF Surfaces
<1>4. Quiet  BY <1>1, <1>3 DEF Quiet
<1>5. Owed = {} /\ Tasks = {} /\ Afoot = {}
  <2>1. \A e : e \notin AtHand(surface)  BY <1>3, AtHandIs
  <2> QED  BY <1>4, <2>1, QuietHas
<1>6. Fresh \in Companions /\ Fresh.phase = "resting" /\ Posture(Fresh) = "off"
  BY TextsAssumption DEF Fresh, Companions, Phases, NoId, Posture
<1>7. FlightTypes  BY <1>1, <1>3, <1>6 DEF FlightTypes
<1>8. Threaded  BY <1>1, <1>5 DEF Threaded
<1>9. InOrder  BY <1>1, <1>3, <1>5 DEF InOrder
<1>10. NewestGoesOn  BY <1>1, <1>6 DEF NewestGoesOn, OnScreen, Textbox
<1>11. Types
  <2>1. <<>> \in Seq(1..Repairs)  OBVIOUS
  <2>2. WindowTypes  BY <1>1 DEF WindowTypes
  <2>3. TimerTypes  BY <1>1, <2>1 DEF TimerTypes
  <2>4. MicrophoneTypes  BY <1>1 DEF MicrophoneTypes
  <2>5. BoundTypes  BY <1>1 DEF BoundTypes
  <2>6. OneLook  BY <1>1 DEF OneLook
  <2> QED  BY <2>2, <2>3, <2>4, <2>5, <2>6 DEF Types
<1>12. RepairGoesOn  BY <1>1 DEF RepairGoesOn
<1>13. TakeInv  BY <1>1, <1>6 DEF TakeInv, ListeningGoesOn, TranscribingGoesOn
<1>14. /\ grip = [turn |-> 0, down |-> FALSE, talking |-> FALSE]
       /\ timing = {} /\ queued = <<>> /\ wanted = <<>> /\ held = {}
  BY Zenon DEF KeysInit
<1>15. HoldTypes
  <2>1. MaxPresses \in Nat  BY KeysAssumption
  <2>2. grip \in [turn : 0..MaxPresses, down : BOOLEAN, talking : BOOLEAN] /\ grip.turn = 0
    BY <1>14, <2>1
  <2>3. <<>> \in Seq({"open", "talk", "tap", "cancel", "stop"}) /\ <<>> \in Seq(BOOLEAN)
    OBVIOUS
  <2> QED  BY <1>1, <1>14, <2>1, <2>2, <2>3 DEF HoldTypes
<1>16. GrabsFollow  BY <1>1, <1>14 DEF GrabsFollow
<1>17. OpenBeforeTalk
  <2>1. \A s : s = <<>> => DOMAIN s = {}  OBVIOUS
  <2> QED  BY <1>14, <2>1 DEF OpenBeforeTalk
<1> QED
  BY <1>7, <1>8, <1>9, <1>10, <1>11, <1>12, <1>13, <1>15, <1>16, <1>17
  DEF KeysInv, Pill, Flight, Core

LEMMA KeysStep == KeysInv /\ [KeysNext]_allVars => KeysInv'
<1> SUFFICES ASSUME KeysInv, [KeysNext]_allVars PROVE KeysInv'
  OBVIOUS
<1>1. Moves  BY KeysMove DEF KeysInv, Pill
<1>2. Pill'  BY <1>1, PillMoves DEF KeysInv
<1>3. HoldTypes' /\ GrabsFollow' /\ OpenBeforeTalk'  BY <1>2, KeysKeep
<1> QED  BY <1>2, <1>3 DEF KeysInv

LEMMA TakeStep == KeysInv /\ TakeInv /\ ~Hasty /\ [KeysNext]_allVars => TakeInv'
<1> SUFFICES ASSUME KeysInv, TakeInv, ~Hasty, [KeysNext]_allVars PROVE TakeInv'
  OBVIOUS
<1>1. Moves  BY KeysMove DEF KeysInv, Pill
<1> QED  BY <1>1, TakeMoves DEF KeysInv

\* What the companion decided last is on the windows, watched, repaired and
\* grabbed for.
OnceQuiet ==
  /\ KeysTypeOK
  /\ SettledOnNewest /\ TextboxWatched /\ RepairingIsRunning
  /\ GrabsFollowPill

LEMMA KeysSettle == KeysInv => OnceQuiet
<1> SUFFICES ASSUME KeysInv PROVE OnceQuiet
  OBVIOUS
<1>1. /\ Flight /\ FlightTypes /\ Threaded /\ InOrder /\ NewestGoesOn
      /\ WindowTypes /\ TimerTypes /\ MicrophoneTypes /\ BoundTypes /\ OneLook
      /\ RepairGoesOn /\ HoldTypes /\ GrabsFollow
  BY DEF KeysInv, Pill, Types, Flight, Core
<1>2. KeysTypeOK
  <2>1. surface.current.posture \in Postures /\ surface.next.posture \in Postures
    BY <1>1 DEF FlightTypes, Surfaces, Decisions
  <2>2. put \in 0..decisions /\ surface.version \in 0..decisions
    BY <1>1 DEF FlightTypes, InOrder, Surfaces
  <2>3. TypeOK
    BY <1>1, <2>1, <2>2 DEF TypeOK, FlightTypes, WindowTypes, TimerTypes, MicrophoneTypes
  <2> QED  BY <1>1, <2>3 DEF KeysTypeOK, HoldTypes
<1>3. ASSUME Quiet
      PROVE  /\ put = decisions /\ surface.next = NoDecision
             /\ keys = OnScreen(Posture(companion))
             /\ Textbox(Posture(companion)) => watching
             /\ repairing => chains # <<>>
  <2>1. ~surface.applying  BY <1>3 DEF Quiet
  <2>2. surface.stage = "take" /\ surface.next = NoDecision
    BY <1>1, <2>1 DEF InOrder
  <2>3. \A e : e \notin AtHand(surface)  BY <2>2, AtHandIs
  <2>4. Owed = {} /\ Afoot = {}  BY <1>3, <2>3, QuietHas
  <2> QED  BY <1>1, <2>2, <2>4 DEF NewestGoesOn, RepairGoesOn
<1>4. SettledOnNewest  BY <1>3 DEF SettledOnNewest
<1>5. TextboxWatched
  <2> SUFFICES ASSUME Quiet, Textbox(Posture(companion)) PROVE looks + stopping > 0
    BY DEF TextboxWatched
  <2>1. watching  BY <1>3
  <2>2. looks + stopping = 1  BY <1>1, <2>1 DEF OneLook
  <2> QED  BY <2>2
<1>6. RepairingIsRunning  BY <1>3 DEF RepairingIsRunning
<1>7. GrabsFollowPill
  <2> SUFFICES ASSUME Quiet, wanted = <<>>, trouble = 0
               PROVE  held = IF OnScreen(Posture(companion)) THEN Accelerators \ Foreign ELSE {}
    BY DEF GrabsFollowPill
  <2>1. held = (IF keys THEN Accelerators \ Foreign ELSE {})  BY <1>1 DEF GrabsFollow
  <2> QED  BY <1>3, <2>1
<1> QED  BY <1>2, <1>4, <1>5, <1>6, <1>7 DEF OnceQuiet

\* Keys, answers and the ticker wait for the threads at the surfaces.
InTurn == ~Hasty

LEMMA TakeSettles == TakeInv => TranscribingEnds
<1> SUFFICES ASSUME TakeInv, Settled, companion.phase = "transcribing" PROVE hearing # {}
  BY DEF TranscribingEnds
<1>1. Quiet /\ late = {}  BY DEF Settled
<1>2. ~Pending({"stop"})  BY <1>1, QuietHas DEF Pending
<1> QED  BY <1>1, <1>2 DEF TakeInv, TranscribingGoesOn

\* However the threads come by, and with any key or answer overtaking them,
\* what is left once they are done is the newest decision, and no release is
\* carried out before its opening (app.rs, Ordered; keys.rs, Hold, grabber).
THEOREM KeysSettleOnNewest == KeysSpec => [](OnceQuiet /\ OpenBeforeTalk)
<1>1. KeysInit => KeysInv  BY KeysBegin
<1>2. KeysInv /\ [KeysNext]_allVars => KeysInv'  BY KeysStep
<1>3. KeysInv => OnceQuiet /\ OpenBeforeTalk  BY KeysSettle DEF KeysInv
<1> QED  BY <1>1, <1>2, <1>3, PTL DEF KeysSpec

\* While keys and answers wait for the threads at the surfaces a transcription
\* ends somewhere too: a pill that says it is transcribing has a recording to
\* stop, a transcription running or a failure to hear of (App::stop_recording).
THEOREM QuietSettles == ASSUME InTurn PROVE KeysSpec => []QuietIsSettled
<1>1. KeysInit => KeysInv /\ TakeInv  BY KeysBegin
<1>2. KeysInv /\ TakeInv /\ [KeysNext]_allVars => KeysInv' /\ TakeInv'
  BY KeysStep, TakeStep, InTurn DEF InTurn
<1>3. KeysInv /\ TakeInv => QuietIsSettled
  BY KeysSettle, TakeSettles DEF OnceQuiet, QuietIsSettled
<1> QED  BY <1>1, <1>2, <1>3, PTL DEF KeysSpec
=============================================================================
