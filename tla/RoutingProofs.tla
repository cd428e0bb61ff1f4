----------------------------- MODULE RoutingProofs -----------------------------
(****************************************************************************)
(* Who is answered, and over which connections.                             *)
(*                                                                          *)
(* TurnRouting, for any number of surfaces, words, terminals, session       *)
(* files, lines on the way and faults: no surface is spoken to more often   *)
(* than it spoke, and, unless things happen behind one another's back       *)
(* (Hasty), what was typed is answered where it was typed and whoever is    *)
(* the agent knows the newest page of the conversation.                     *)
(*                                                                          *)
(* WireRelay, for any frames, attachments, texts, bounds of the outboxes    *)
(* and the replay, and any limits of the protocol: whoever holds a place at *)
(* the service is still read.  What a handler sends can cost a peer its     *)
(* place and never gives it one, so a place is gained only by a hello and   *)
(* has to be given back wherever the reader ends.                           *)
(****************************************************************************)
EXTENDS TurnRouting, WireRelay, TLAPS, FiniteSetTheorems

Session == [used : BOOLEAN, parent : 0..MaxFiles, knows : SUBSET Nat]
ToLine == [kind : {"message", "abort", "catch_up", "turn_ack"}, ids : SUBSET Nat]
FromLine == [kind : {"turn", "answer"}, name : Nat, to : Nat]
Words == [role : {"user", "assistant"}, surface : Surfaces \cup {"unprompted", "terminal"},
          answers : Nat]

TurnsTyped(t) ==
  /\ t \in [turns : Nat, open : Nat, accepted : Nat]
  /\ t.accepted <= t.open /\ t.open <= t.turns

PlaceTyped ==
  /\ agent \in [kind : {"managed", "terminal"}, file : Files] \cup {NoAgent}
  /\ lineage \in [file : 0..MaxFiles, holder : {"managed", "terminal"}, own : 0..MaxFiles]
  /\ toAgent \in Seq(ToLine) /\ Len(toAgent) <= MaxQueue + 1
  /\ fromAgent \in Seq(FromLine) /\ Len(fromAgent) <= MaxQueue
  /\ TurnsTyped(typed)
  /\ sessions \in [Files -> Session]

Typed ==
  /\ present \in [Surfaces -> BOOLEAN]
  /\ turn \in [surface : Surfaces \cup {"terminal", "nobody"}, id : Nat]
  /\ slot \in BOOLEAN /\ said \in Seq(Words) /\ faults \in Nat
  /\ PlaceTyped

-----------------------------------------------------------------------------
\* What was said by a role under a surface's name, of the first n words.
By(q, n, role, s) == {i \in 1..n : q[i].role = role /\ q[i].surface = s}

\* A surface whose turn is open spoke more often than it was spoken to.
TurnIsOwed(s) ==
  Cardinality(By(said, Len(said), "assistant", s)) + (IF turn.surface = s THEN 1 ELSE 0)
    <= Cardinality(By(said, Len(said), "user", s))
OpenTurnIsOwed == \A s \in Surfaces : TurnIsOwed(s)

SpokeFirst(s) ==
  \A n \in DOMAIN said :
    Cardinality(By(said, n, "assistant", s)) <= Cardinality(By(said, n, "user", s))

\* The numbers of the turns a terminal typed are above those of the words.
TypedTurnIsTerminal == turn.id > MaxSaid => turn.surface = "terminal"

\* An answer names the typed turn it is to, and a turn has a name.
LinesNameTheirTurn ==
  \A i \in DOMAIN fromAgent :
    /\ fromAgent[i].kind = "turn" => fromAgent[i].name # None
    /\ fromAgent[i].kind = "answer" => fromAgent[i].name = fromAgent[i].to

\* Something the agent will hear brings it these words.
Coming(q, id) ==
  \E i \in DOMAIN q : q[i].kind \in {"message", "catch_up"} /\ id \in q[i].ids

KnowsTail(file) ==
  \A id \in Newest : id \in sessions[file].knows \/ Coming(toAgent, id)

\* The session files in use are the first ones.
FilesInOrder == \E k \in 0..MaxFiles : \A f \in Files : sessions[f].used <=> f <= k

\* The agent is the lineage, and the lineage has the newest page: in its
\* session, or on the way to it; before there is one, the managed child's file
\* has it.
LineageIsCurrent ==
  /\ agent # NoAgent => agent.file = lineage.file /\ agent.kind = lineage.holder
  /\ lineage.file # None => sessions[lineage.file].used /\ KnowsTail(lineage.file)
  /\ lineage.own # None => sessions[lineage.own].used
  /\ lineage.holder = "managed" => lineage.file \in {None, lineage.own}
  /\ lineage.file = None =>
       /\ lineage.holder = "managed"
       /\ IF lineage.own = None THEN said = <<>> ELSE KnowsTail(lineage.own)

\* With no agent nothing is on the way.
NothingToNobody == agent = NoAgent => toAgent = <<>> /\ fromAgent = <<>>

\* What holds whether or not things happen behind one another's back, and what
\* holds when they do not.
Routed == Typed /\ NothingToNobody /\ OpenTurnIsOwed /\ NoUnaskedSpeech
Orderly ==
  /\ Routed /\ TypedTurnIsTerminal /\ LinesNameTheirTurn /\ TypedStaysTyped
  /\ FilesInOrder /\ LineageIsCurrent

\* Nothing happens behind another's back (Hasty, in the actions of TurnRouting).
InTurn == ~Hasty

-----------------------------------------------------------------------------
(* The operators of the model.                                             *)

LEMMA ForkedType ==
  ASSUME NEW file \in Files, NEW from \in 0..MaxFiles, sessions \in [Files -> Session]
  PROVE  /\ Forked(file, from) \in [Files -> Session]
         /\ Forked(file, from)[file] =
              [used |-> TRUE, parent |-> from,
               knows |-> IF from = None THEN {} ELSE sessions[from].knows]
         /\ \A f \in Files \ {file} : Forked(file, from)[f] = sessions[f]
  <1>1. CASE from = None
    BY <1>1 DEF Forked, Session, Files, None
  <1>2. CASE from # None
    <2>1. from \in Files /\ sessions[from].knows \in SUBSET Nat
      BY <1>2 DEF Files, None, Session
    <2> QED
      BY <1>2, <2>1 DEF Forked, Session
  <1> QED
    BY <1>1, <1>2

LEMMA ConstantTypes ==
  /\ MaxSaid \in Nat /\ MaxTyped \in Nat /\ MaxFiles \in Nat /\ MaxQueue \in Nat
  /\ MaxFaults \in Nat /\ Page \in Nat /\ Page # 0
  /\ "unprompted" \notin Surfaces /\ "terminal" \notin Surfaces /\ "nobody" \notin Surfaces
  BY RoutingAssumption

LEMMA NewestType ==
  ASSUME said \in Seq(Words)
  PROVE  Newest \in SUBSET Nat
  BY DEF Newest

LEMMA ByIsFinite ==
  ASSUME NEW q, NEW n \in Nat, NEW role, NEW s
  PROVE  IsFiniteSet(By(q, n, role, s)) /\ Cardinality(By(q, n, role, s)) \in Nat
  <1>1. By(q, n, role, s) \subseteq 1..n
    BY DEF By
  <1>2. IsFiniteSet(1..n)
    BY FS_Interval
  <1>3. IsFiniteSet(By(q, n, role, s))
    BY <1>1, <1>2, FS_Subset
  <1> QED
    BY <1>3, FS_CardinalityType

\* What was said stays said, and a new word counts once, for who said it.
LEMMA SaidStays ==
  ASSUME NEW q \in Seq(Words), NEW w \in Words, NEW role, NEW s, NEW n \in 0..Len(q)
  PROVE  By(Append(q, w), n, role, s) = By(q, n, role, s)
  <1>1. \A i \in 1..Len(q) : Append(q, w)[i] = q[i]
    OBVIOUS
  <1> QED
    BY <1>1 DEF By

LEMMA SaidCounts ==
  ASSUME NEW q \in Seq(Words), NEW w \in Words, NEW role, NEW s
  PROVE  Cardinality(By(Append(q, w), Len(q) + 1, role, s)) =
           Cardinality(By(q, Len(q), role, s))
             + (IF w.role = role /\ w.surface = s THEN 1 ELSE 0)
  <1> DEFINE l == Len(q)
             more == Append(q, w)
  <1>1. /\ l \in Nat /\ Len(more) = l + 1 /\ more[l + 1] = w
        /\ \A i \in 1..l : more[i] = q[i]
    OBVIOUS
  <1>2. IsFiniteSet(By(q, l, role, s)) /\ Cardinality(By(q, l, role, s)) \in Nat
    BY <1>1, ByIsFinite
  <1> HIDE DEF more, l
  <1>3. CASE w.role = role /\ w.surface = s
    <2>1. By(more, l + 1, role, s) = By(q, l, role, s) \cup {l + 1}
      BY <1>1, <1>3 DEF By
    <2>2. l + 1 \notin By(q, l, role, s)
      BY <1>1 DEF By
    <2>3. Cardinality(By(more, l + 1, role, s)) = Cardinality(By(q, l, role, s)) + 1
      BY <1>2, <2>1, <2>2, FS_AddElement
    <2> QED
      BY <1>3, <2>3 DEF more, l
  <1>4. CASE ~(w.role = role /\ w.surface = s)
    <2>1. By(more, l + 1, role, s) = By(q, l, role, s)
      BY <1>1, <1>4 DEF By
    <2> QED
      BY <1>2, <1>4, <2>1 DEF more, l
  <1> QED
    BY <1>3, <1>4

LEMMA ComingAppended ==
  ASSUME NEW q \in Seq(ToLine), NEW msg \in ToLine, NEW id, Coming(q, id)
  PROVE  Coming(Append(q, msg), id)
  <1>1. PICK i \in 1..Len(q) : q[i].kind \in {"message", "catch_up"} /\ id \in q[i].ids
    BY DEF Coming
  <1>2. i \in 1..Len(Append(q, msg)) /\ Append(q, msg)[i] = q[i]
    BY <1>1
  <1>3. DOMAIN Append(q, msg) = 1..Len(Append(q, msg))
    OBVIOUS
  <1> QED
    BY <1>1, <1>2, <1>3 DEF Coming

LEMMA ComingNext ==
  ASSUME NEW q \in Seq(ToLine), q # <<>>, NEW id, Coming(q, id)
  PROVE  \/ Head(q).kind \in {"message", "catch_up"} /\ id \in Head(q).ids
         \/ Coming(Tail(q), id)
  <1>1. PICK i \in 1..Len(q) : q[i].kind \in {"message", "catch_up"} /\ id \in q[i].ids
    BY DEF Coming
  <1>2. CASE i = 1
    BY <1>1, <1>2
  <1>3. CASE i # 1
    <2>1. i - 1 \in DOMAIN Tail(q) /\ Tail(q)[i - 1] = q[i]
      BY <1>1, <1>3
    <2> QED
      BY <1>1, <2>1 DEF Coming
  <1> QED
    BY <1>2, <1>3

-----------------------------------------------------------------------------
(* Types.                                                                  *)

LEMMA InitTyped == Init => Typed
  <1> SUFFICES ASSUME Init PROVE Typed
    OBVIOUS
  <1>1. sessions \in [Files -> Session]
    BY ConstantTypes DEF Init, Session, None
  <1>2. TurnsTyped(typed)
    BY DEF Init, None, TurnsTyped
  <1>3. lineage \in [file : 0..MaxFiles, holder : {"managed", "terminal"}, own : 0..MaxFiles]
    BY ConstantTypes DEF Init, NoLineage, None
  <1>4. toAgent \in Seq(ToLine) /\ Len(toAgent) <= MaxQueue + 1
        /\ fromAgent \in Seq(FromLine) /\ Len(fromAgent) <= MaxQueue /\ said \in Seq(Words)
    BY ConstantTypes DEF Init
  <1>5. turn \in [surface : Surfaces \cup {"terminal", "nobody"}, id : Nat]
    BY DEF Init, NoTurn, None
  <1> QED
    BY <1>1, <1>2, <1>3, <1>4, <1>5 DEF Init, Typed, PlaceTyped

LEMMA AnswerType ==
  ASSUME Typed, NEW name \in Nat
  PROVE  /\ Destination(name).turn \in [surface : Surfaces \cup {"terminal", "nobody"}, id : Nat]
         /\ \A to : Owner(to) \in Surfaces \cup {"unprompted", "terminal"}
  <1>1. NoTurn \in [surface : Surfaces \cup {"terminal", "nobody"}, id : Nat]
    BY DEF NoTurn, None
  <1> QED
    BY <1>1 DEF Destination, Owner, Typed

LEMMA TurnsFacts ==
  ASSUME NEW t, TurnsTyped(t)
  PROVE  /\ TurnsTyped([t EXCEPT !.open = None, !.accepted = None])
         /\ TurnsTyped([t EXCEPT !.accepted = t.open])
         /\ TurnsTyped([t EXCEPT !.turns = @ + 1, !.open = t.turns + 1])
  <1> DEFINE over == [t EXCEPT !.open = None, !.accepted = None]
             known == [t EXCEPT !.accepted = t.open]
             next == [t EXCEPT !.turns = @ + 1, !.open = t.turns + 1]
  <1>1. /\ t \in [turns : Nat, open : Nat, accepted : Nat]
        /\ t.accepted <= t.open /\ t.open <= t.turns
        /\ t.turns \in Nat /\ t.open \in Nat /\ t.accepted \in Nat
    BY DEF TurnsTyped
  <1>2. over \in [turns : Nat, open : Nat, accepted : Nat]
    BY <1>1 DEF None
  <1>3. over.open = 0 /\ over.accepted = 0 /\ over.turns = t.turns
    BY <1>1 DEF None
  <1>4. known \in [turns : Nat, open : Nat, accepted : Nat]
    BY <1>1
  <1>5. known.open = t.open /\ known.accepted = t.open /\ known.turns = t.turns
    BY <1>1
  <1>6. next \in [turns : Nat, open : Nat, accepted : Nat]
    <2> DEFINE more == t.turns + 1
    <2>1. more \in Nat
      BY <1>1
    <2>2. next = [t EXCEPT !.turns = more, !.open = more]
      OBVIOUS
    <2> HIDE DEF more, next
    <2> QED
      BY <1>1, <2>1, <2>2
  <1>7. next.open = t.turns + 1 /\ next.accepted = t.accepted /\ next.turns = t.turns + 1
    BY <1>1
  <1> HIDE DEF over, known, next
  <1>8. TurnsTyped(over) /\ TurnsTyped(known) /\ TurnsTyped(next)
    BY <1>1, <1>2, <1>3, <1>4, <1>5, <1>6, <1>7 DEF TurnsTyped
  <1> QED
    BY <1>8 DEF over, known, next

LEMMA LinesType ==
  ASSUME Typed
  PROVE  /\ fromAgent # <<>> => /\ Head(fromAgent) \in FromLine /\ Tail(fromAgent) \in Seq(FromLine)
                               /\ Len(Tail(fromAgent)) = Len(fromAgent) - 1
         /\ toAgent # <<>> => /\ Head(toAgent) \in ToLine /\ Tail(toAgent) \in Seq(ToLine)
                             /\ Len(Tail(toAgent)) = Len(toAgent) - 1
         /\ Len(toAgent) \in Nat /\ Len(fromAgent) \in Nat /\ Len(said) \in Nat
  BY DEF Typed, PlaceTyped

LEMMA HeadNames ==
  \A msg \in FromLine : msg.name \in Nat /\ msg.to \in Nat
  BY DEF FromLine

\* One more line to the agent keeps the type and the room of the queue.
LEMMA SentType ==
  ASSUME Typed, NEW msg \in ToLine, Len(toAgent) < MaxQueue, toAgent' = Append(toAgent, msg)
  PROVE  toAgent' \in Seq(ToLine) /\ Len(toAgent') <= MaxQueue + 1
  BY ConstantTypes DEF Typed, PlaceTyped

LEMMA InContextType ==
  ASSUME Typed, NEW id \in Nat, agent # NoAgent
  PROVE  InContext(id) \in [Files -> Session]
  BY DEF InContext, Typed, PlaceTyped, Session

LEMMA SayingTyped ==
  ASSUME Typed, NEW s \in Surfaces, Says(s)
  PROVE  Typed'
  <1>1. /\ Len(said) \in Nat /\ Len(toAgent) < MaxQueue
        /\ toAgent' = Append(toAgent, [kind |-> "message", ids |-> {Len(said) + 1}])
    BY LinesType DEF Says, SendAgent
  <1>2. [kind |-> "message", ids |-> {Len(said) + 1}] \in ToLine
    BY <1>1 DEF ToLine
  <1>3. toAgent' \in Seq(ToLine) /\ Len(toAgent') <= MaxQueue + 1
    BY <1>1, <1>2, SentType
  <1>4. said' \in Seq(Words)
    BY DEF Says, Record, Typed, Words, None
  <1>5. turn' \in [surface : Surfaces \cup {"terminal", "nobody"}, id : Nat]
    BY <1>1 DEF Says
  <1> QED
    BY <1>3, <1>4, <1>5 DEF Says, Typed, PlaceTyped

LEMMA AbortTyped ==
  ASSUME Typed, NEW s \in Surfaces, Aborts(s)
  PROVE  Typed'
  <1>1. [kind |-> "abort", ids |-> {}] \in ToLine /\ Len(toAgent) < MaxQueue
        /\ toAgent' = Append(toAgent, [kind |-> "abort", ids |-> {}])
    BY DEF Aborts, SendAgent, ToLine
  <1>2. toAgent' \in Seq(ToLine) /\ Len(toAgent') <= MaxQueue + 1
    BY <1>1, SentType
  <1> QED
    BY <1>2 DEF Aborts, Typed, PlaceTyped, NoTurn, None

LEMMA JoiningTyped ==
  ASSUME Typed, NEW kind \in {"managed", "terminal"}, NEW file \in Files, AgentJoins(kind, file)
  PROVE  Typed'
  <1>1. sessions \in [Files -> Session] /\ lineage.file \in 0..MaxFiles /\ None \in 0..MaxFiles
        /\ lineage.own \in 0..MaxFiles /\ file \in 0..MaxFiles
    BY ConstantTypes DEF Typed, PlaceTyped, None, Files
  <1>2. sessions' \in {sessions, Forked(file, lineage.file), Forked(file, None)}
    BY DEF AgentJoins
  <1>8. sessions' \in [Files -> Session]
    <2>1. Forked(file, lineage.file) \in [Files -> Session] /\ Forked(file, None) \in [Files -> Session]
      BY <1>1, ForkedType
    <2> QED
      BY <1>1, <1>2, <2>1
  <1>3. toAgent' \in Seq(ToLine) /\ Len(toAgent') <= MaxQueue + 1
    <2>1. [kind |-> "catch_up", ids |-> Newest] \in ToLine
      BY NewestType DEF Typed, ToLine
    <2> DEFINE msg == [kind |-> "catch_up", ids |-> Newest]
    <2> HIDE DEF msg
    <2>2. toAgent' \in {<<>>, <<msg>>}
      BY DEF AgentJoins, msg
    <2>3. msg \in ToLine
      BY <2>1 DEF msg
    <2>4. <<msg>> \in Seq(ToLine) /\ Len(<<msg>>) = 1
      BY <2>3
    <2>5. <<>> \in Seq(ToLine) /\ Len(<<>>) = 0
      OBVIOUS
    <2>6. CASE toAgent' = <<>>
      BY <2>5, <2>6, ConstantTypes
    <2>7. CASE toAgent' = <<msg>>
      BY <2>4, <2>7, ConstantTypes
    <2> QED
      BY <2>2, <2>6, <2>7
  <1>4. fromAgent' \in Seq(FromLine) /\ Len(fromAgent') <= MaxQueue
    BY ConstantTypes DEF AgentJoins
  <1>5. TurnsTyped(typed')
    BY TurnsFacts DEF AgentJoins, Typed, PlaceTyped
  <1>6. agent' \in [kind : {"managed", "terminal"}, file : Files]
    BY DEF AgentJoins
  <1>7. lineage' \in [file : 0..MaxFiles, holder : {"managed", "terminal"}, own : 0..MaxFiles]
    BY <1>1 DEF AgentJoins
  <1> QED
    BY <1>3, <1>4, <1>5, <1>6, <1>7, <1>8 DEF AgentJoins, Typed, PlaceTyped

LEMMA HearingTyped ==
  ASSUME Typed, AgentHears
  PROVE  Typed'
  <1>1. toAgent' \in Seq(ToLine) /\ Len(toAgent') <= MaxQueue + 1 /\ Head(toAgent) \in ToLine
    BY LinesType, ConstantTypes DEF AgentHears, Typed, PlaceTyped
  <1>2. sessions' \in [Files -> Session]
    <2> DEFINE new == IF Head(toAgent).kind \in {"message", "catch_up"} THEN Head(toAgent).ids ELSE {}
    <2>1. new \in SUBSET Nat
      BY <1>1 DEF ToLine
    <2>2. sessions' = [sessions EXCEPT ![agent.file].knows = @ \cup new]
      BY DEF AgentHears
    <2> HIDE DEF new
    <2> QED
      BY <2>1, <2>2 DEF Typed, PlaceTyped, Session
  <1>3. TurnsTyped(typed')
    BY TurnsFacts DEF AgentHears, Typed, PlaceTyped
  <1> QED
    BY <1>1, <1>2, <1>3 DEF AgentHears, Typed, PlaceTyped

LEMMA AnsweringTyped ==
  ASSUME Typed, TerminalTypes \/ AgentAnswers
  PROVE  Typed'
  <1>1. CASE TerminalTypes
    <2>1. typed.turns \in Nat /\ [kind |-> "turn", name |-> typed.turns + 1, to |-> None] \in FromLine
      BY DEF Typed, PlaceTyped, TurnsTyped, FromLine, None
    <2>2. fromAgent' \in Seq(FromLine) /\ Len(fromAgent') <= MaxQueue
      BY <1>1, <2>1, ConstantTypes DEF TerminalTypes, Typed, PlaceTyped
    <2>3. TurnsTyped(typed')
      BY <1>1, TurnsFacts DEF TerminalTypes, Typed, PlaceTyped
    <2> QED
      BY <1>1, <2>2, <2>3 DEF TerminalTypes, Typed, PlaceTyped
  <1>2. CASE AgentAnswers
    <2>1. [kind |-> "answer", name |-> typed.accepted, to |-> typed.open] \in FromLine
      BY DEF Typed, PlaceTyped, TurnsTyped, FromLine
    <2>2. fromAgent' \in Seq(FromLine) /\ Len(fromAgent') <= MaxQueue
      BY <1>2, <2>1, ConstantTypes DEF AgentAnswers, Typed, PlaceTyped
    <2> QED
      BY <1>2, <2>2 DEF AgentAnswers, Typed, PlaceTyped
  <1> QED
    BY <1>1, <1>2

LEMMA HeardTurnTyped ==
  ASSUME Typed, agent # NoAgent, HearsTurn
  PROVE  Typed'
  <1>1. /\ Head(fromAgent) \in FromLine /\ Len(said) \in Nat /\ Len(toAgent) < MaxQueue
        /\ fromAgent' \in Seq(FromLine) /\ Len(fromAgent') <= MaxQueue
        /\ Head(fromAgent).name \in Nat
    BY LinesType, ConstantTypes, HeadNames DEF HearsTurn, Typed, PlaceTyped
  <1>2. [kind |-> "turn_ack", ids |-> {Head(fromAgent).name}] \in ToLine
    BY <1>1 DEF ToLine
  <1>3. toAgent' \in Seq(ToLine) /\ Len(toAgent') <= MaxQueue + 1
    BY <1>1, <1>2, SentType DEF HearsTurn
  <1>4. said' \in Seq(Words)
    BY DEF HearsTurn, Record, Typed, Words, None
  <1>5. turn' \in [surface : Surfaces \cup {"terminal", "nobody"}, id : Nat]
    BY <1>1, ConstantTypes DEF HearsTurn
  <1>6. sessions' \in [Files -> Session]
    BY <1>1, InContextType DEF HearsTurn
  <1> QED
    BY <1>1, <1>3, <1>4, <1>5, <1>6 DEF HearsTurn, Typed, PlaceTyped

LEMMA HeardAnswerTyped ==
  ASSUME Typed, agent # NoAgent, HearsAnswer
  PROVE  Typed'
  <1>1. /\ Head(fromAgent) \in FromLine /\ Len(said) \in Nat
        /\ fromAgent' \in Seq(FromLine) /\ Len(fromAgent') <= MaxQueue
        /\ Head(fromAgent).name \in Nat /\ Head(fromAgent).to \in Nat
    BY LinesType, ConstantTypes, HeadNames DEF HearsAnswer, Typed, PlaceTyped
  <1>2. said' \in Seq(Words)
    BY <1>1, AnswerType DEF HearsAnswer, Record, Typed, Words
  <1>3. turn' \in [surface : Surfaces \cup {"terminal", "nobody"}, id : Nat]
    BY <1>1, AnswerType DEF HearsAnswer
  <1>4. sessions' \in [Files -> Session]
    BY <1>1, InContextType DEF HearsAnswer
  <1> QED
    BY <1>1, <1>2, <1>3, <1>4 DEF HearsAnswer, Typed, PlaceTyped

LEMMA RestartTyped ==
  ASSUME Typed, Restart
  PROVE  Typed'
  <1>1. lineage' \in [file : 0..MaxFiles, holder : {"managed", "terminal"}, own : 0..MaxFiles]
    BY ConstantTypes DEF Restart, NoLineage, Typed, PlaceTyped, None
  <1>2. TurnsTyped(typed')
    BY TurnsFacts DEF Restart, Typed, PlaceTyped
  <1>3. /\ toAgent' \in Seq(ToLine) /\ Len(toAgent') <= MaxQueue + 1
        /\ fromAgent' \in Seq(FromLine) /\ Len(fromAgent') <= MaxQueue
    BY ConstantTypes DEF Restart
  <1> QED
    <2>1. turn' \in [surface : Surfaces \cup {"terminal", "nobody"}, id : Nat]
      BY DEF Restart, NoTurn, None
    <2>2. agent' = NoAgent /\ sessions' \in [Files -> Session] /\ said' \in Seq(Words)
      BY DEF Restart, Typed, PlaceTyped
    <2>3. present' \in [Surfaces -> BOOLEAN] /\ slot' \in BOOLEAN
      BY Zenon DEF Restart
    <2>4. faults' \in Nat
      BY DEF Restart, Typed
    <2> QED
      BY <1>1, <1>2, <1>3, <2>1, <2>2, <2>3, <2>4 DEF Typed, PlaceTyped

LEMMA OtherStepsTyped ==
  ASSUME Typed,
         \/ \E s \in Surfaces : Join(s) \/ Leaves(s) \/ FindsAgentGone(s)
         \/ BriefingHolds \/ AgentLeaves \/ AgentSettles \/ TerminalForks \/ UNCHANGED vars
  PROVE  Typed'
  <1>1. CASE BriefingHolds \/ \E s \in Surfaces : Join(s) \/ Leaves(s)
    BY <1>1 DEF Join, Leaves, BriefingHolds, Typed, PlaceTyped, place
  <1> <<>> \in Seq(ToLine) /\ <<>> \in Seq(FromLine) /\ Len(<<>>) = 0 /\ 0 <= MaxQueue
     /\ 0 <= MaxQueue + 1
    BY ConstantTypes
  <1>2. CASE \E s \in Surfaces : FindsAgentGone(s)
    BY <1>2 DEF FindsAgentGone, Typed, PlaceTyped
  <1>6. CASE AgentLeaves
    BY <1>6 DEF AgentLeaves, Typed, PlaceTyped
  <1>3. CASE AgentSettles
    BY <1>3, TurnsFacts DEF AgentSettles, Typed, PlaceTyped
  <1>4. CASE TerminalForks
    <2>1. sessions' \in [Files -> Session]
      BY <1>4, ForkedType DEF TerminalForks, Typed, PlaceTyped
    <2> QED
      BY <1>4, <2>1 DEF TerminalForks, Typed, PlaceTyped
  <1>5. CASE UNCHANGED vars
    BY <1>5 DEF vars, place, Typed, PlaceTyped
  <1> QED
    BY <1>1, <1>2, <1>3, <1>4, <1>5, <1>6

-----------------------------------------------------------------------------
(* No surface is spoken to more often than it spoke.                       *)

\* A surface whose turn opens says this word, and one it is said to has its
\* turn closed.
SaidInTurn(w) ==
  \A s \in Surfaces :
    /\ turn'.surface = s => \/ turn.surface = s /\ ~(w.role = "assistant" /\ w.surface = s)
                            \/ w.role = "user" /\ w.surface = s
    /\ (w.role = "assistant" /\ w.surface = s) => turn.surface = s /\ turn'.surface # s

\* One more word keeps every count, if the answer was owed.
LEMMA CountsAppended ==
  ASSUME Typed, OpenTurnIsOwed, NoUnaskedSpeech, NEW w \in Words, said' = Append(said, w),
         SaidInTurn(w)
  PROVE  OpenTurnIsOwed' /\ NoUnaskedSpeech'
  <1>1. ASSUME NEW s \in Surfaces
        PROVE  TurnIsOwed(s)' /\ SpokeFirst(s)'
    <2> DEFINE l == Len(said)
               answers(q, n) == Cardinality(By(q, n, "assistant", s))
               questions(q, n) == Cardinality(By(q, n, "user", s))
    <2>1. said \in Seq(Words) /\ l \in Nat /\ Len(said') = l + 1 /\ DOMAIN said' = 1..(l + 1)
          /\ DOMAIN said = 1..l
      BY DEF Typed
    <2>2. /\ \A n \in 0..l : answers(said', n) = answers(said, n)
          /\ \A n \in 0..l : questions(said', n) = questions(said, n)
          /\ answers(said', l + 1) = answers(said, l)
                + (IF w.role = "assistant" /\ w.surface = s THEN 1 ELSE 0)
          /\ questions(said', l + 1) = questions(said, l)
                + (IF w.role = "user" /\ w.surface = s THEN 1 ELSE 0)
      <3>1. \A n \in 0..l : answers(said', n) = answers(said, n)
        BY <2>1, SaidStays
      <3>2. \A n \in 0..l : questions(said', n) = questions(said, n)
        BY <2>1, SaidStays
      <3>3. answers(said', l + 1) = answers(said, l)
              + (IF w.role = "assistant" /\ w.surface = s THEN 1 ELSE 0)
        BY <2>1, SaidCounts
      <3>4. questions(said', l + 1) = questions(said, l)
              + (IF w.role = "user" /\ w.surface = s THEN 1 ELSE 0)
        BY <2>1, SaidCounts
      <3> QED
        BY <3>1, <3>2, <3>3, <3>4
    <2>3. answers(said, l) \in Nat /\ questions(said, l) \in Nat
      BY <2>1, ByIsFinite
    <2>4. answers(said, l) + (IF turn.surface = s THEN 1 ELSE 0) <= questions(said, l)
      BY DEF OpenTurnIsOwed, TurnIsOwed
    <2>5. \A n \in 1..l : answers(said, n) <= questions(said, n)
      BY <2>1 DEF NoUnaskedSpeech, By
    <2>9. /\ turn'.surface = s => \/ turn.surface = s /\ ~(w.role = "assistant" /\ w.surface = s)
                                  \/ w.role = "user" /\ w.surface = s
          /\ (w.role = "assistant" /\ w.surface = s) => turn.surface = s /\ turn'.surface # s
          /\ w.role = "user" => w.role # "assistant"
      BY DEF SaidInTurn
    <2> HIDE DEF answers, questions
    <2>6. answers(said', l + 1) + (IF turn'.surface = s THEN 1 ELSE 0) <= questions(said', l + 1)
      BY <2>2, <2>3, <2>4, <2>9
    <2>7. answers(said', l + 1) <= questions(said', l + 1)
      BY <2>1, <2>2, <2>3, <2>4, <2>9
    <2>8. \A n \in 1..(l + 1) : answers(said', n) <= questions(said', n)
      BY <2>1, <2>2, <2>5, <2>7
    <2> QED
      BY <2>1, <2>6, <2>8 DEF answers, questions, TurnIsOwed, SpokeFirst
  <1>2. OpenTurnIsOwed'
    BY <1>1 DEF OpenTurnIsOwed
  <1>3. NoUnaskedSpeech'
    BY <1>1 DEF NoUnaskedSpeech, SpokeFirst, By
  <1> QED
    BY <1>2, <1>3

LEMMA SpeechIsAsked ==
  ASSUME Typed, Typed', OpenTurnIsOwed, NoUnaskedSpeech, [Next]_vars
  PROVE  OpenTurnIsOwed' /\ NoUnaskedSpeech'
  <1>1. ASSUME NEW w \in Words, said' = Append(said, w), SaidInTurn(w)
        PROVE  OpenTurnIsOwed' /\ NoUnaskedSpeech'
    BY <1>1, CountsAppended
  <1>2. ASSUME said' = said, turn' = turn \/ turn' = NoTurn
        PROVE  OpenTurnIsOwed' /\ NoUnaskedSpeech'
    <2>1. \A s \in Surfaces : turn'.surface = s => turn.surface = s
      BY <1>2, ConstantTypes DEF NoTurn
    <2>2. \A s \in Surfaces :
            /\ Cardinality(By(said, Len(said), "assistant", s)) \in Nat
            /\ Cardinality(By(said, Len(said), "user", s)) \in Nat
      BY ByIsFinite DEF Typed
    <2> QED
      BY <1>2, <2>1, <2>2 DEF OpenTurnIsOwed, TurnIsOwed, NoUnaskedSpeech
  <1>3. ASSUME NEW s \in Surfaces, Says(s)
        PROVE  OpenTurnIsOwed' /\ NoUnaskedSpeech'
    <2> DEFINE w == [role |-> "user", surface |-> s, answers |-> None]
    <2>1. w \in Words /\ said' = Append(said, w) /\ turn'.surface = s
      BY <1>3 DEF Says, Record, Words, None
    <2>2. SaidInTurn(w)
      BY <2>1 DEF SaidInTurn
    <2> QED
      BY <1>1, <2>1, <2>2
  <1>4. CASE HearsTurn
    <2> DEFINE w == [role |-> "user", surface |-> "terminal", answers |-> None]
    <2>1. w \in Words /\ said' = Append(said, w) /\ turn'.surface = "terminal"
      BY <1>4 DEF HearsTurn, Record, Words, None
    <2>2. \A s \in Surfaces : s # "terminal"
      BY ConstantTypes
    <2>3. SaidInTurn(w)
      BY <2>1, <2>2 DEF SaidInTurn
    <2> QED
      BY <1>1, <2>1, <2>3
  <1>5. CASE HearsAnswer
    <2> DEFINE where == Destination(Head(fromAgent).name)
               w == [role |-> "assistant", surface |-> Owner(where.to),
                     answers |-> Head(fromAgent).to]
    <2>1. Head(fromAgent) \in FromLine /\ Head(fromAgent).to \in Nat /\ Head(fromAgent).name \in Nat
      BY <1>5, LinesType, HeadNames DEF HearsAnswer
    <2>2. Owner(where.to) \in Surfaces \cup {"unprompted", "terminal"}
      BY <2>1, AnswerType
    <2>3. w \in Words /\ said' = Append(said, w) /\ turn' = where.turn
      BY <1>5, <2>1, <2>2 DEF HearsAnswer, Record, Words
    <2>4. /\ where.turn = turn \/ where.turn = NoTurn
          /\ \/ where.to = turn.surface /\ where.turn = NoTurn
             \/ where.to \in {"terminal", "unprompted"}
      BY DEF Destination
    <2>5. \A s \in Surfaces : Owner(where.to) = s => where.to = s
      BY ConstantTypes DEF Owner
    <2>6. \A s \in Surfaces : s \notin {"terminal", "unprompted", "nobody"} /\ NoTurn.surface # s
      BY ConstantTypes DEF NoTurn
    <2> HIDE DEF where
    <2>7. ASSUME NEW s \in Surfaces
          PROVE  /\ turn'.surface = s =>
                      \/ turn.surface = s /\ ~(w.role = "assistant" /\ w.surface = s)
                      \/ w.role = "user" /\ w.surface = s
                 /\ (w.role = "assistant" /\ w.surface = s) => turn.surface = s /\ turn'.surface # s
      BY <2>3, <2>4, <2>5, <2>6
    <2> HIDE DEF w
    <2>8. SaidInTurn(w)
      BY <2>7, Zenon DEF SaidInTurn
    <2> QED
      BY <1>1, <2>3, <2>8
  <1>6. CASE \E s \in Surfaces : Aborts(s)
    BY <1>2, <1>6 DEF Aborts
  <1>7. CASE Restart
    BY <1>2, <1>7 DEF Restart
  <1>8. CASE \E s \in Surfaces : Join(s) \/ Leaves(s) \/ FindsAgentGone(s)
    BY <1>2, <1>8 DEF Join, Leaves, FindsAgentGone
  <1>9. CASE \E kind \in {"managed", "terminal"}, file \in Files : AgentJoins(kind, file)
    BY <1>2, <1>9 DEF AgentJoins
  <1>10. CASE AgentHears \/ AgentLeaves \/ AgentAnswers \/ AgentSettles \/ TerminalForks
              \/ TerminalTypes \/ BriefingHolds
    BY <1>2, <1>10 DEF AgentHears, AgentLeaves, AgentAnswers, AgentSettles, TerminalForks,
       TerminalTypes, BriefingHolds
  <1>11. CASE UNCHANGED vars
    BY <1>2, <1>11 DEF vars
  <1> QED
    BY <1>3, <1>4, <1>5, <1>6, <1>7, <1>8, <1>9, <1>10, <1>11 DEF Next

-----------------------------------------------------------------------------
(* The invariants that hold however hasty everyone is.                     *)

LEMMA RoutedStep ==
  ASSUME Routed, [Next]_vars
  PROVE  Routed'
  <1>1. Typed /\ NothingToNobody /\ OpenTurnIsOwed /\ NoUnaskedSpeech
    BY DEF Routed
  <1>2. (HearsTurn \/ HearsAnswer) => agent # NoAgent
    BY <1>1 DEF NothingToNobody, HearsTurn, HearsAnswer
  <1>3. Typed'
    <2>1. CASE \E s \in Surfaces : Says(s)
      BY <1>1, <2>1, SayingTyped
    <2>2. CASE \E s \in Surfaces : Aborts(s)
      BY <1>1, <2>2, AbortTyped
    <2>3. CASE \E kind \in {"managed", "terminal"}, file \in Files : AgentJoins(kind, file)
      BY <1>1, <2>3, JoiningTyped
    <2>4. CASE AgentHears
      BY <1>1, <2>4, HearingTyped
    <2>5. CASE TerminalTypes \/ AgentAnswers
      BY <1>1, <2>5, AnsweringTyped
    <2>6. CASE HearsTurn
      BY <1>1, <1>2, <2>6, HeardTurnTyped
    <2>7. CASE HearsAnswer
      BY <1>1, <1>2, <2>7, HeardAnswerTyped
    <2>8. CASE Restart
      BY <1>1, <2>8, RestartTyped
    <2>9. CASE \/ \E s \in Surfaces : Join(s) \/ Leaves(s) \/ FindsAgentGone(s)
               \/ BriefingHolds \/ AgentLeaves \/ AgentSettles \/ TerminalForks \/ UNCHANGED vars
      BY <1>1, <2>9, OtherStepsTyped
    <2> QED
      BY <2>1, <2>2, <2>3, <2>4, <2>5, <2>6, <2>7, <2>8, <2>9 DEF Next
  <1>4. NothingToNobody'
    <2>1. CASE \E kind \in {"managed", "terminal"}, file \in Files : AgentJoins(kind, file)
      BY <2>1 DEF AgentJoins, NothingToNobody, NoAgent
    <2>2. CASE \E s \in Surfaces : Says(s) \/ Aborts(s) \/ FindsAgentGone(s)
      BY <2>2 DEF Says, Aborts, SendAgent, FindsAgentGone, NothingToNobody
    <2>3. CASE AgentHears \/ AgentLeaves \/ TerminalTypes \/ AgentAnswers \/ Restart
      BY <1>1, <2>3 DEF AgentHears, AgentLeaves, TerminalTypes, AgentAnswers, Restart,
         NothingToNobody, NoAgent
    <2>4. CASE HearsTurn \/ HearsAnswer
      BY <1>2, <2>4 DEF HearsTurn, HearsAnswer, NothingToNobody
    <2>5. CASE \/ \E s \in Surfaces : Join(s) \/ Leaves(s)
               \/ BriefingHolds \/ AgentSettles \/ TerminalForks \/ UNCHANGED vars
      BY <1>1, <2>5 DEF Join, Leaves, BriefingHolds, AgentSettles, TerminalForks, vars, place,
         NothingToNobody
    <2> QED
      BY <2>1, <2>2, <2>3, <2>4, <2>5 DEF Next
  <1> QED
    BY <1>1, <1>3, <1>4, SpeechIsAsked DEF Routed

LEMMA InitRouted == Init => Routed
  <1> SUFFICES ASSUME Init PROVE Routed
    OBVIOUS
  <1>1. Typed
    BY InitTyped
  <1>2. NothingToNobody /\ NoUnaskedSpeech /\ said = <<>> /\ turn = NoTurn
    BY DEF Init, NothingToNobody, NoUnaskedSpeech
  <1>3. OpenTurnIsOwed
    <2> SUFFICES ASSUME NEW s \in Surfaces PROVE TurnIsOwed(s)
      BY DEF OpenTurnIsOwed
    <2>1. By(said, Len(said), "assistant", s) = {}
      BY <1>2 DEF By
    <2>4. By(said, Len(said), "user", s) = {}
      BY <1>2 DEF By
    <2>3. Cardinality({}) = 0 /\ 0 + 0 <= 0
      BY FS_EmptySet
    <2>2. turn.surface # s /\ Len(said) = 0
      BY <1>2, ConstantTypes DEF NoTurn
    <2> QED
      BY <2>1, <2>2, <2>3, <2>4, Zenon DEF TurnIsOwed
  <1> QED
    BY <1>1, <1>2, <1>3 DEF Routed

\* Each line and each turn keeps its type, and a surface whose turn is open
\* spoke more often than it was spoken to.
THEOREM RoutedInvariant == Spec => []Routed
  <1>1. Routed /\ [Next]_vars => Routed'
    BY RoutedStep
  <1> QED
    BY <1>1, InitRouted, PTL DEF Spec

\* No surface is spoken to more often than it spoke (NoUnaskedSpeech).
THEOREM NobodyIsSpokenToUnasked == Spec => []NoUnaskedSpeech
  <1>1. Routed => NoUnaskedSpeech
    BY DEF Routed
  <1> QED
    BY <1>1, RoutedInvariant, PTL

-----------------------------------------------------------------------------
(* What was typed is answered where it was typed.                          *)

LEMMA LinesStep ==
  ASSUME InTurn, Typed, LinesNameTheirTurn, [Next]_vars
  PROVE  LinesNameTheirTurn'
  <1>1. ASSUME NEW msg \in FromLine, fromAgent' = Append(fromAgent, msg),
               msg.kind = "turn" => msg.name # None, msg.kind = "answer" => msg.name = msg.to
        PROVE  LinesNameTheirTurn'
    <2>1. fromAgent \in Seq(FromLine) /\ DOMAIN fromAgent' = 1..(Len(fromAgent) + 1)
          /\ DOMAIN fromAgent = 1..Len(fromAgent)
      BY <1>1 DEF Typed, PlaceTyped
    <2>2. \A i \in DOMAIN fromAgent' : IF i = Len(fromAgent) + 1 THEN fromAgent'[i] = msg
                                       ELSE i \in DOMAIN fromAgent /\ fromAgent'[i] = fromAgent[i]
      BY <1>1, <2>1
    <2> QED
      BY <1>1, <2>2 DEF LinesNameTheirTurn
  <1>2. ASSUME fromAgent # <<>>, fromAgent' = Tail(fromAgent)
        PROVE  LinesNameTheirTurn'
    <2>1. \A i \in DOMAIN fromAgent' : i + 1 \in DOMAIN fromAgent /\ fromAgent'[i] = fromAgent[i + 1]
      BY <1>2 DEF Typed, PlaceTyped
    <2> QED
      BY <2>1 DEF LinesNameTheirTurn
  <1>3. ASSUME fromAgent' \in {<<>>, fromAgent}
        PROVE  LinesNameTheirTurn'
    BY <1>3 DEF LinesNameTheirTurn
  <1>4. CASE TerminalTypes
    <2> DEFINE msg == [kind |-> "turn", name |-> typed.turns + 1, to |-> None]
    <2>1. msg \in FromLine /\ msg.name # None
      BY DEF Typed, PlaceTyped, TurnsTyped, FromLine, None
    <2> QED
      BY <1>1, <1>4, <2>1 DEF TerminalTypes
  <1>5. CASE AgentAnswers
    <2> DEFINE msg == [kind |-> "answer", name |-> typed.accepted, to |-> typed.open]
    <2>1. msg \in FromLine /\ msg.name = msg.to
      BY <1>5 DEF AgentAnswers, InTurn, Typed, PlaceTyped, TurnsTyped, FromLine
    <2> QED
      BY <1>1, <1>5, <2>1 DEF AgentAnswers
  <1>6. CASE HearsTurn \/ HearsAnswer
    BY <1>2, <1>6 DEF HearsTurn, HearsAnswer
  <1>7. CASE \E s \in Surfaces : Join(s) \/ Leaves(s) \/ Says(s) \/ Aborts(s) \/ FindsAgentGone(s)
    BY <1>3, <1>7 DEF Join, Leaves, Says, Aborts, FindsAgentGone, place
  <1>8. CASE \E kind \in {"managed", "terminal"}, file \in Files : AgentJoins(kind, file)
    BY <1>3, <1>8 DEF AgentJoins
  <1>9. CASE \/ AgentHears \/ AgentLeaves \/ AgentSettles \/ TerminalForks \/ BriefingHolds
             \/ Restart \/ UNCHANGED vars
    BY <1>3, <1>9 DEF AgentHears, AgentLeaves, AgentSettles, TerminalForks, BriefingHolds, Restart,
       vars, place
  <1> QED
    BY <1>4, <1>5, <1>6, <1>7, <1>8, <1>9 DEF Next

LEMMA TypedTurnStep ==
  ASSUME Typed, TypedTurnIsTerminal, [Next]_vars
  PROVE  TypedTurnIsTerminal'
  <1>1. CASE \E s \in Surfaces : Says(s)
    <2>1. Len(said) + 1 <= MaxSaid
      BY <1>1, LinesType, ConstantTypes DEF Says
    <2> QED
      BY <1>1, <2>1, LinesType, ConstantTypes DEF Says, TypedTurnIsTerminal
  <1>2. CASE HearsTurn
    BY <1>2 DEF HearsTurn, TypedTurnIsTerminal
  <1>3. ASSUME turn' \in {turn, NoTurn}
        PROVE  TypedTurnIsTerminal'
    BY <1>3, ConstantTypes DEF TypedTurnIsTerminal, NoTurn, None
  <1>4. CASE HearsAnswer
    BY <1>3, <1>4 DEF HearsAnswer, Destination
  <1>5. CASE \E s \in Surfaces : Join(s) \/ Leaves(s) \/ Aborts(s) \/ FindsAgentGone(s)
    BY <1>3, <1>5 DEF Join, Leaves, Aborts, FindsAgentGone
  <1>6. CASE \E kind \in {"managed", "terminal"}, file \in Files : AgentJoins(kind, file)
    BY <1>3, <1>6 DEF AgentJoins
  <1>7. CASE \/ AgentHears \/ AgentLeaves \/ AgentAnswers \/ AgentSettles \/ TerminalForks
             \/ TerminalTypes \/ BriefingHolds \/ Restart \/ UNCHANGED vars
    BY <1>3, <1>7 DEF AgentHears, AgentLeaves, AgentAnswers, AgentSettles, TerminalForks,
       TerminalTypes, BriefingHolds, Restart, vars
  <1> QED
    BY <1>1, <1>2, <1>4, <1>5, <1>6, <1>7 DEF Next

LEMMA NamedAnswerGoes ==
  ASSUME NEW name \in Nat, name # None, Typed, TypedTurnIsTerminal
  PROVE  Destination(name).to = "terminal"
  <1>1. CASE turn.id = MaxSaid + name
    <2>1. turn.id > MaxSaid
      BY <1>1, ConstantTypes DEF None
    <2>2. turn.surface = "terminal"
      BY <2>1 DEF TypedTurnIsTerminal
    <2>3. Destination(name) = [to |-> turn.surface, turn |-> NoTurn]
      BY <1>1 DEF Destination
    <2> QED
      BY <2>2, <2>3
  <1>2. CASE turn.id # MaxSaid + name
    <2>1. Destination(name) = [to |-> "terminal", turn |-> turn]
      BY <1>2 DEF Destination
    <2> QED
      BY <2>1
  <1> QED
    BY <1>1, <1>2

LEMMA TypedStaysStep ==
  ASSUME Typed, TypedTurnIsTerminal, LinesNameTheirTurn, TypedStaysTyped, [Next]_vars
  PROVE  TypedStaysTyped'
  <1>1. ASSUME NEW w \in Words, said' = Append(said, w), w.answers # None => w.surface = "terminal"
        PROVE  TypedStaysTyped'
    <2>1. said \in Seq(Words) /\ Len(said) \in Nat
      BY DEF Typed
    <2>2. \A i \in DOMAIN said' : IF i = Len(said) + 1 THEN said'[i] = w
                                  ELSE i \in DOMAIN said /\ said'[i] = said[i]
      BY <1>1, <2>1
    <2> QED
      BY <1>1, <2>2 DEF TypedStaysTyped
  <1>2. CASE HearsAnswer
    <2> DEFINE msg == Head(fromAgent)
               where == Destination(msg.name)
               w == [role |-> "assistant", surface |-> Owner(where.to), answers |-> msg.to]
    <2>1. msg \in FromLine /\ msg.to \in Nat /\ msg.name \in Nat /\ msg.kind = "answer"
      BY <1>2, LinesType, HeadNames DEF HearsAnswer
    <2>2. msg.name = msg.to
      <3>1. 1 \in DOMAIN fromAgent /\ fromAgent[1] = msg
        BY <1>2 DEF HearsAnswer, Typed, PlaceTyped
      <3> QED
        BY <2>1, <3>1 DEF LinesNameTheirTurn
    <2>3. w \in Words /\ said' = Append(said, w)
      BY <1>2, <2>1, AnswerType DEF HearsAnswer, Record, Words
    <2>4. msg.to # None => where.to = "terminal"
      BY <2>1, <2>2, NamedAnswerGoes
    <2>5. w.answers # None => w.surface = "terminal"
      BY <2>4 DEF Owner
    <2> QED
      BY <1>1, <2>3, <2>5
  <1>3. CASE HearsTurn
    <2> DEFINE w == [role |-> "user", surface |-> "terminal", answers |-> None]
    <2>1. w \in Words /\ said' = Append(said, w) /\ w.answers = None
      BY <1>3 DEF HearsTurn, Record, Words, None
    <2> QED
      BY <1>1, <2>1
  <1>4. ASSUME NEW s \in Surfaces, Says(s)
        PROVE  TypedStaysTyped'
    <2> DEFINE w == [role |-> "user", surface |-> s, answers |-> None]
    <2>1. w \in Words /\ said' = Append(said, w) /\ w.answers = None
      BY <1>4 DEF Says, Record, Words, None
    <2> QED
      BY <1>1, <2>1
  <1>5. CASE \E s \in Surfaces : Join(s) \/ Leaves(s) \/ Aborts(s) \/ FindsAgentGone(s)
    BY <1>5 DEF Join, Leaves, Aborts, FindsAgentGone, TypedStaysTyped
  <1>6. CASE \E kind \in {"managed", "terminal"}, file \in Files : AgentJoins(kind, file)
    BY <1>6 DEF AgentJoins, TypedStaysTyped
  <1>7. CASE \/ AgentHears \/ AgentLeaves \/ AgentAnswers \/ AgentSettles \/ TerminalForks
             \/ TerminalTypes \/ BriefingHolds \/ Restart \/ UNCHANGED vars
    BY <1>7 DEF AgentHears, AgentLeaves, AgentAnswers, AgentSettles, TerminalForks,
       TerminalTypes, BriefingHolds, Restart, vars, TypedStaysTyped
  <1> QED
    BY <1>2, <1>3, <1>4, <1>5, <1>6, <1>7 DEF Next

-----------------------------------------------------------------------------
(* Whoever is the agent knows the newest page.                             *)

LEMMA FreshIsNext ==
  ASSUME Typed, NEW k \in 0..MaxFiles, \A f \in Files : sessions[f].used <=> f <= k
  PROVE  Fresh = k + 1
  <1>1. {f \in Files : sessions[f].used} = 1..k
    BY ConstantTypes DEF Files
  <1>2. Cardinality(1..k) = k
    BY FS_Interval
  <1> QED
    BY <1>1, <1>2 DEF Fresh

LEMMA FreshIsUnused ==
  ASSUME Typed, FilesInOrder, Fresh \in Files
  PROVE  ~sessions[Fresh].used
  <1>1. PICK k \in 0..MaxFiles : \A f \in Files : sessions[f].used <=> f <= k
    BY DEF FilesInOrder
  <1>2. Fresh = k + 1
    BY <1>1, FreshIsNext
  <1> QED
    BY <1>1, <1>2

\* A file forked becomes the next one in use.
LEMMA ForkKeepsOrder ==
  ASSUME Typed, FilesInOrder, Fresh \in Files, NEW from \in 0..MaxFiles,
         sessions' = Forked(Fresh, from)
  PROVE  FilesInOrder'
  <1>1. PICK k \in 0..MaxFiles : \A f \in Files : sessions[f].used <=> f <= k
    BY DEF FilesInOrder
  <1>2. Fresh = k + 1
    BY <1>1, FreshIsNext
  <1>3. k + 1 \in 0..MaxFiles
    BY <1>2, ConstantTypes DEF Files
  <1>4. sessions'[Fresh].used /\ \A f \in Files \ {Fresh} : sessions'[f] = sessions[f]
    <2>1. sessions \in [Files -> Session]
      BY DEF Typed, PlaceTyped
    <2>2. Forked(Fresh, from)[Fresh].used
      BY <2>1 DEF Forked
    <2>3. \A f \in Files \ {Fresh} : Forked(Fresh, from)[f] = sessions[f]
      BY <2>1, ForkedType
    <2> QED
      BY <2>2, <2>3
  <1>5. \A f \in Files : sessions'[f].used <=> f <= k + 1
    BY <1>1, <1>2, <1>4, ConstantTypes DEF Files
  <1> QED
    BY <1>3, <1>5 DEF FilesInOrder

LEMMA UseIsKept ==
  ASSUME FilesInOrder, \A f \in Files : sessions'[f].used = sessions[f].used
  PROVE  FilesInOrder'
  BY DEF FilesInOrder

LEMMA InContextFacts ==
  ASSUME Typed, NEW id \in Nat, NEW file \in Files, agent.file = file, sessions' = InContext(id)
  PROVE  /\ \A f \in Files : sessions'[f].used = sessions[f].used
         /\ sessions'[file].knows = sessions[file].knows \cup {id}
  BY DEF InContext, Typed, PlaceTyped, Session

LEMMA HearsFacts ==
  ASSUME Typed, AgentHears, NEW file \in Files, agent.file = file
  PROVE  /\ \A f \in Files : sessions'[f].used = sessions[f].used
         /\ sessions[file].knows \subseteq sessions'[file].knows
         /\ Head(toAgent).kind \in {"message", "catch_up"} =>
              Head(toAgent).ids \subseteq sessions'[file].knows
  <1> DEFINE new == IF Head(toAgent).kind \in {"message", "catch_up"} THEN Head(toAgent).ids ELSE {}
  <1>1. sessions' = [sessions EXCEPT ![agent.file].knows = @ \cup new]
    BY DEF AgentHears
  <1>2. sessions \in [Files -> Session]
    BY DEF Typed, PlaceTyped
  <1> HIDE DEF new
  <1>3. /\ \A f \in Files : sessions'[f].used = sessions[f].used
        /\ sessions'[file].knows = sessions[file].knows \cup new
    BY <1>1, <1>2 DEF Session
  <1> QED
    BY <1>3 DEF new

LEMMA FilesStep ==
  ASSUME Typed, NothingToNobody, FilesInOrder, LineageIsCurrent, [Next]_vars
  PROVE  FilesInOrder'
  <1>0. agent # NoAgent => agent.file \in Files
    BY DEF Typed, PlaceTyped
  <1>1. ASSUME NEW kind \in {"managed", "terminal"}, NEW file \in Files, AgentJoins(kind, file)
        PROVE  FilesInOrder'
    <2>1. PICK known : MayJoin(kind, file, known) /\ sessions' = known
      BY <1>1 DEF AgentJoins
    <2>2. lineage.file \in 0..MaxFiles /\ None \in 0..MaxFiles
      BY ConstantTypes DEF Typed, PlaceTyped, None
    <2>3. known = sessions \/ (file = Fresh /\ \E from \in {lineage.file, None} : known = Forked(file, from))
      BY <2>1 DEF MayJoin
    <2>4. CASE known = sessions
      BY <2>1, <2>4, UseIsKept
    <2>5. ASSUME file = Fresh, NEW from \in {lineage.file, None}, known = Forked(file, from)
          PROVE  FilesInOrder'
      <3>1. from \in 0..MaxFiles /\ Fresh \in Files /\ sessions' = Forked(Fresh, from)
        BY <2>1, <2>2, <2>5
      <3> QED
        BY <3>1, ForkKeepsOrder
    <2> QED
      BY <2>3, <2>4, <2>5
  <1>2. CASE TerminalForks
    <2>1. lineage.file \in 0..MaxFiles
      BY DEF Typed, PlaceTyped
    <2> QED
      BY <1>2, <2>1, ForkKeepsOrder DEF TerminalForks
  <1>3. CASE AgentHears
    BY <1>0, <1>3, HearsFacts, UseIsKept DEF AgentHears
  <1>4. CASE HearsTurn \/ HearsAnswer
    <2>1. agent # NoAgent /\ Len(said) + 1 \in Nat /\ sessions' = InContext(Len(said) + 1)
      BY <1>4, LinesType DEF HearsTurn, HearsAnswer, NothingToNobody
    <2> QED
      BY <1>0, <2>1, InContextFacts, UseIsKept
  <1>5. CASE \E s \in Surfaces : Join(s) \/ Leaves(s) \/ Says(s) \/ Aborts(s) \/ FindsAgentGone(s)
    BY <1>5, UseIsKept DEF Join, Leaves, Says, Aborts, FindsAgentGone, place
  <1>6. CASE \/ AgentLeaves \/ AgentSettles \/ AgentAnswers \/ TerminalTypes \/ BriefingHolds
             \/ Restart \/ UNCHANGED vars
    BY <1>6, UseIsKept DEF AgentLeaves, AgentSettles, AgentAnswers, TerminalTypes, BriefingHolds,
       Restart, vars, place
  <1> QED
    BY <1>1, <1>2, <1>3, <1>4, <1>5, <1>6 DEF Next

LEMMA AgentIsLineage ==
  ASSUME Typed, LineageIsCurrent, agent # NoAgent
  PROVE  lineage.file \in Files /\ agent.file = lineage.file /\ lineage.file # None
         /\ sessions[lineage.file].used /\ KnowsTail(lineage.file)
  <1>1. agent.file \in Files /\ agent.file = lineage.file
    BY DEF Typed, PlaceTyped, LineageIsCurrent
  <1>2. lineage.file # None
    BY <1>1, ConstantTypes DEF Files, None
  <1> QED
    BY <1>1, <1>2 DEF LineageIsCurrent

\* A word more moves the page by one.
LEMMA PageMoves ==
  ASSUME Typed, NEW w \in Words, said' = Append(said, w)
  PROVE  \A id \in Newest' : id \in Newest \/ id = Len(said) + 1
  <1>1. Len(said) \in Nat /\ Len(said') = Len(said) + 1
    BY DEF Typed
  <1> QED
    BY <1>1, ConstantTypes DEF Newest

\* The agent stays, and has or is about to hear the page.
LEMMA LineageKept ==
  ASSUME Typed, LineageIsCurrent, agent # NoAgent, agent' = agent, lineage' = lineage,
         \A f \in Files : sessions'[f].used = sessions[f].used,
         \A id \in Newest' : id \in sessions'[lineage.file].knows \/ Coming(toAgent', id)
  PROVE  LineageIsCurrent'
  <1>1. lineage.file \in Files /\ lineage.file # None
    BY AgentIsLineage
  <1>2. lineage.own # None => lineage.own \in Files
    BY DEF Typed, PlaceTyped, Files, None
  <1> QED
    BY <1>1, <1>2 DEF LineageIsCurrent, KnowsTail

\* The agent is gone, and what was said to it it has heard.
LEMMA LineageRests ==
  ASSUME LineageIsCurrent, toAgent = <<>>, agent' = NoAgent, toAgent' = <<>>,
         lineage' = lineage, sessions' = sessions, said' = said
  PROVE  LineageIsCurrent'
  BY DEF LineageIsCurrent, KnowsTail, Newest

LEMMA NothingComes == \A id : ~Coming(<<>>, id)
  BY DEF Coming

LEMMA SpokenKept ==
  ASSUME InTurn, Typed, NothingToNobody, LineageIsCurrent,
         \/ \E s \in Surfaces : Says(s) \/ Aborts(s)
         \/ HearsTurn \/ HearsAnswer
  PROVE  LineageIsCurrent'
  <1>1. agent # NoAgent
    BY DEF Says, Aborts, SendAgent, HearsTurn, HearsAnswer, NothingToNobody
  <1>2. lineage.file \in Files /\ agent.file = lineage.file /\ KnowsTail(lineage.file)
    BY <1>1, AgentIsLineage
  <1>3. toAgent \in Seq(ToLine) /\ Len(said) + 1 \in Nat
    BY LinesType DEF Typed, PlaceTyped
  <1>4. ASSUME NEW s \in Surfaces, Says(s)
        PROVE  LineageIsCurrent'
    <2> DEFINE w == [role |-> "user", surface |-> s, answers |-> None]
               msg == [kind |-> "message", ids |-> {Len(said) + 1}]
    <2>1. w \in Words /\ said' = Append(said, w)
      BY <1>4 DEF Says, Record, Words, None
    <2>2. msg \in ToLine /\ toAgent' = Append(toAgent, msg)
      BY <1>3, <1>4 DEF Says, SendAgent, ToLine
    <2>3. sessions' = sessions /\ agent' = agent /\ lineage' = lineage
      BY <1>4 DEF Says
    <2>4. Coming(toAgent', Len(said) + 1)
      <3>1. Len(toAgent) + 1 \in DOMAIN toAgent' /\ toAgent'[Len(toAgent) + 1] = msg
        BY <1>3, <2>2
      <3> QED
        BY <3>1 DEF Coming
    <2> HIDE DEF w, msg
    <2>5. \A id \in Newest' : id \in sessions'[lineage.file].knows \/ Coming(toAgent', id)
      BY <1>2, <1>3, <2>1, <2>2, <2>3, <2>4, PageMoves, ComingAppended DEF KnowsTail
    <2> QED
      BY <1>1, <2>3, <2>5, LineageKept
  <1>5. ASSUME NEW s \in Surfaces, Aborts(s)
        PROVE  LineageIsCurrent'
    <2> DEFINE msg == [kind |-> "abort", ids |-> {}]
    <2>1. msg \in ToLine /\ toAgent' = Append(toAgent, msg)
      BY <1>5 DEF Aborts, SendAgent, ToLine
    <2>2. sessions' = sessions /\ agent' = agent /\ lineage' = lineage /\ said' = said
      BY <1>5 DEF Aborts
    <2>3. Newest' = Newest
      BY <2>2 DEF Newest
    <2> HIDE DEF msg
    <2>4. \A id \in Newest' : id \in sessions'[lineage.file].knows \/ Coming(toAgent', id)
      BY <1>2, <1>3, <2>1, <2>2, <2>3, ComingAppended DEF KnowsTail
    <2> QED
      BY <1>1, <2>2, <2>4, LineageKept
  <1>6. ASSUME NEW w \in Words, said' = Append(said, w), sessions' = InContext(Len(said) + 1),
               agent' = agent, lineage' = lineage,
               \A id : Coming(toAgent, id) => Coming(toAgent', id)
        PROVE  LineageIsCurrent'
    <2>1. /\ \A f \in Files : sessions'[f].used = sessions[f].used
          /\ sessions'[lineage.file].knows = sessions[lineage.file].knows \cup {Len(said) + 1}
      BY <1>2, <1>3, <1>6, InContextFacts
    <2>2. \A id \in Newest' : id \in sessions'[lineage.file].knows \/ Coming(toAgent', id)
      BY <1>2, <1>6, <2>1, PageMoves DEF KnowsTail
    <2> QED
      BY <1>1, <1>6, <2>1, <2>2, LineageKept
  <1>7. CASE HearsTurn
    <2> DEFINE w == [role |-> "user", surface |-> "terminal", answers |-> None]
               msg == [kind |-> "turn_ack", ids |-> {Head(fromAgent).name}]
    <2>1. w \in Words /\ said' = Append(said, w)
      BY <1>7 DEF HearsTurn, Record, Words, None
    <2>2. Head(fromAgent).name \in Nat
      BY <1>7, LinesType, HeadNames DEF HearsTurn
    <2>3. msg \in ToLine /\ toAgent' = Append(toAgent, msg)
      BY <1>7, <2>2 DEF HearsTurn, ToLine
    <2> HIDE DEF w, msg
    <2>4. \A id : Coming(toAgent, id) => Coming(toAgent', id)
      BY <1>3, <2>3, ComingAppended
    <2>5. sessions' = InContext(Len(said) + 1) /\ agent' = agent /\ lineage' = lineage
      BY <1>7 DEF HearsTurn
    <2> QED
      BY <1>6, <2>1, <2>4, <2>5
  <1>8. CASE HearsAnswer
    <2> DEFINE msg == Head(fromAgent)
               w == [role |-> "assistant", surface |-> Owner(Destination(msg.name).to),
                     answers |-> msg.to]
    <2>1. msg \in FromLine /\ msg.to \in Nat /\ msg.name \in Nat
      BY <1>8, LinesType, HeadNames DEF HearsAnswer
    <2>2. w \in Words /\ said' = Append(said, w)
      BY <1>8, <2>1, AnswerType DEF HearsAnswer, Record, Words
    <2>3. sessions' = InContext(Len(said) + 1) /\ agent' = agent /\ lineage' = lineage
          /\ toAgent' = toAgent
      BY <1>8 DEF HearsAnswer
    <2> HIDE DEF w
    <2> QED
      BY <1>6, <2>2, <2>3
  <1> QED
    BY <1>4, <1>5, <1>7, <1>8

LEMMA HeardKept ==
  ASSUME Typed, LineageIsCurrent, AgentHears
  PROVE  LineageIsCurrent'
  <1>1. agent # NoAgent /\ toAgent # <<>> /\ toAgent' = Tail(toAgent)
        /\ agent' = agent /\ lineage' = lineage /\ said' = said
    BY DEF AgentHears
  <1>2. lineage.file \in Files /\ agent.file = lineage.file /\ KnowsTail(lineage.file)
    BY <1>1, AgentIsLineage
  <1>3. /\ \A f \in Files : sessions'[f].used = sessions[f].used
        /\ sessions[lineage.file].knows \subseteq sessions'[lineage.file].knows
        /\ Head(toAgent).kind \in {"message", "catch_up"} =>
             Head(toAgent).ids \subseteq sessions'[lineage.file].knows
    BY <1>2, HearsFacts
  <1>4. Newest' = Newest /\ toAgent \in Seq(ToLine)
    BY <1>1 DEF Newest, Typed, PlaceTyped
  <1>5. \A id \in Newest' : id \in sessions'[lineage.file].knows \/ Coming(toAgent', id)
    BY <1>1, <1>2, <1>3, <1>4, ComingNext DEF KnowsTail
  <1> QED
    BY <1>1, <1>3, <1>5, LineageKept

\* A file forked leaves the others as they were.
LEMMA ForkLeavesOthers ==
  ASSUME Typed, FilesInOrder, Fresh \in Files, NEW from \in 0..MaxFiles, NEW f \in Files,
         sessions[f].used
  PROVE  f # Fresh /\ Forked(Fresh, from)[f] = sessions[f]
  <1>1. f # Fresh
    BY FreshIsUnused
  <1>2. sessions \in [Files -> Session]
    BY DEF Typed, PlaceTyped
  <1>3. \A g \in Files \ {Fresh} : Forked(Fresh, from)[g] = sessions[g]
    BY <1>2, ForkedType
  <1> QED
    BY <1>1, <1>3

LEMMA ForksKept ==
  ASSUME Typed, FilesInOrder, LineageIsCurrent, TerminalForks
  PROVE  LineageIsCurrent'
  <1>1. /\ Fresh \in Files /\ lineage.file \in Files /\ lineage.file # None
        /\ sessions' = Forked(Fresh, lineage.file) /\ lineage.file \in 0..MaxFiles
        /\ agent' = agent /\ lineage' = lineage /\ toAgent' = toAgent /\ said' = said
    BY ConstantTypes DEF TerminalForks, Typed, PlaceTyped, Files, None
  <1>2. lineage.own # None => lineage.own \in Files
    BY DEF Typed, PlaceTyped, Files, None
  <1>3. sessions'[lineage.file] = sessions[lineage.file]
    BY <1>1, ForkLeavesOthers DEF LineageIsCurrent
  <1>4. lineage.own # None => sessions'[lineage.own] = sessions[lineage.own]
    BY <1>1, <1>2, ForkLeavesOthers DEF LineageIsCurrent
  <1>5. Newest' = Newest
    BY <1>1 DEF Newest
  <1> QED
    BY <1>1, <1>3, <1>4, <1>5 DEF LineageIsCurrent, KnowsTail

LEMMA JoinKept ==
  ASSUME InTurn, Typed, NothingToNobody, FilesInOrder, LineageIsCurrent,
         NEW kind \in {"managed", "terminal"}, NEW file \in Files, AgentJoins(kind, file)
  PROVE  LineageIsCurrent'
  <1>1. /\ agent = NoAgent /\ MayJoin(kind, file, sessions') /\ ForkIsCurrent(kind, file, sessions')
        /\ toAgent' = IF ContinuesLineage(file, sessions') \/ said = <<>> THEN <<>>
                      ELSE <<[kind |-> "catch_up", ids |-> Newest]>>
        /\ agent' = [kind |-> kind, file |-> file] /\ said' = said
        /\ lineage' = [file |-> file, holder |-> kind,
                       own |-> IF kind = "managed" THEN file ELSE lineage.own]
    BY DEF AgentJoins, InTurn
  <1>2. /\ lineage.file \in 0..MaxFiles /\ None \in 0..MaxFiles /\ lineage.own \in 0..MaxFiles
        /\ lineage.holder \in {"managed", "terminal"} /\ file # None
        /\ lineage.file # None => lineage.file \in Files
        /\ lineage.own # None => lineage.own \in Files
        /\ sessions \in [Files -> Session]
    BY ConstantTypes DEF Typed, PlaceTyped, None, Files
  <1>3. toAgent = <<>> /\ \A f : KnowsTail(f) => Newest \subseteq sessions[f].knows
    BY <1>1, NothingComes DEF NothingToNobody, KnowsTail
  \* The file that joins is in use, and forked or one of before.
  <1>4. \/ file = Fresh /\ \E from \in {lineage.file, None} : sessions' = Forked(file, from)
        \/ sessions' = sessions /\ sessions[file].used
    BY <1>1, <1>2 DEF MayJoin, Continued, LineageIsCurrent
  <1>5. sessions'[file].used
    <2>1. ASSUME file = Fresh, NEW from \in {lineage.file, None}, sessions' = Forked(file, from)
          PROVE  sessions'[file].used
      BY <1>2, <2>1 DEF Forked
    <2> QED
      BY <1>4, <2>1
  <1>6. \A f \in Files : sessions[f].used => sessions'[f].used /\ sessions'[f] = sessions[f]
    <2>1. ASSUME file = Fresh, NEW from \in {lineage.file, None}, sessions' = Forked(file, from),
                 NEW f \in Files, sessions[f].used
          PROVE  sessions'[f] = sessions[f]
      BY <1>2, <2>1, ForkLeavesOthers
    <2> QED
      BY <1>4, <2>1
  <1>7. file = lineage.file => sessions' = sessions
    BY <1>2, <1>4, FreshIsUnused DEF LineageIsCurrent
  <1>8. ASSUME ContinuesLineage(file, sessions') \/ said = <<>>
        PROVE  Newest \subseteq sessions'[file].knows
    <2>1. CASE said = <<>>
      <3>1. Newest = {}
        BY <2>1 DEF Newest
      <3> QED
        BY <3>1
    <2>2. CASE lineage.file = None /\ said # <<>>
      <3>1. kind = "managed" /\ lineage.holder = "managed" /\ lineage.own # None
            /\ KnowsTail(lineage.own)
        BY <1>1, <2>2 DEF ForkIsCurrent, LineageIsCurrent
      <3>2. file = lineage.own /\ sessions' = sessions
        BY <1>1, <2>2, <3>1 DEF MayJoin, Continued
      <3> QED
        BY <1>3, <3>1, <3>2
    <2>3. CASE lineage.file # None /\ file = lineage.file
      BY <1>3, <1>7, <2>3 DEF LineageIsCurrent
    <2>4. CASE lineage.file # None /\ sessions'[file].parent = lineage.file
      <3>1. sessions[lineage.file].knows \subseteq sessions'[file].knows
        BY <1>1, <2>4 DEF ForkIsCurrent
      <3> QED
        BY <1>3, <2>4, <3>1 DEF LineageIsCurrent
    <2> QED
      BY <1>8, <2>1, <2>2, <2>3, <2>4 DEF ContinuesLineage
  <1>9. \A id \in Newest : id \in sessions'[file].knows \/ Coming(toAgent', id)
    <2>1. CASE ContinuesLineage(file, sessions') \/ said = <<>>
      BY <1>8, <2>1
    <2>2. CASE ~(ContinuesLineage(file, sessions') \/ said = <<>>)
      <3>1. toAgent' = <<[kind |-> "catch_up", ids |-> Newest]>>
        BY <1>1, <2>2
      <3>2. 1 \in DOMAIN toAgent' /\ toAgent'[1] = [kind |-> "catch_up", ids |-> Newest]
        BY <3>1
      <3>3. toAgent'[1].kind \in {"message", "catch_up"} /\ toAgent'[1].ids = Newest
        BY <3>2
      <3> QED
        BY <3>2, <3>3 DEF Coming
    <2> QED
      BY <2>1, <2>2
  <1>10. Newest' = Newest
    BY <1>1 DEF Newest
  <1>11. KnowsTail(lineage.file)'
    BY <1>1, <1>9, <1>10 DEF KnowsTail
  <1>12. lineage'.own # None => sessions'[lineage'.own].used
    <2>1. CASE kind = "managed"
      BY <1>1, <1>5, <2>1
    <2>2. CASE kind # "managed"
      BY <1>1, <1>2, <1>6, <2>2 DEF LineageIsCurrent
    <2> QED
      BY <2>1, <2>2
  <1>13. lineage'.file = file /\ agent'.file = file /\ agent'.kind = kind /\ lineage'.holder = kind
         /\ (kind = "managed" => lineage'.own = file)
    BY <1>1
  <1> QED
    BY <1>2, <1>5, <1>11, <1>12, <1>13 DEF LineageIsCurrent

LEMMA RestartKept ==
  ASSUME InTurn, Typed, LineageIsCurrent, Restart
  PROVE  LineageIsCurrent'
  <1>1. /\ lineage.holder = "managed" /\ toAgent = <<>> /\ toAgent' = <<>> /\ agent' = NoAgent
        /\ lineage' = [NoLineage EXCEPT !.own = lineage.own]
        /\ sessions' = sessions /\ said' = said
    BY DEF Restart, InTurn
  <1>2. lineage'.file = None /\ lineage'.holder = "managed" /\ lineage'.own = lineage.own
    BY <1>1 DEF NoLineage
  <1>3. lineage.file \in {None, lineage.own}
    BY <1>1 DEF LineageIsCurrent
  <1>4. lineage.own # None => KnowsTail(lineage.own) /\ sessions[lineage.own].used
    BY <1>3 DEF LineageIsCurrent
  <1>5. lineage.own = None => said = <<>>
    BY <1>3 DEF LineageIsCurrent
  <1>6. Newest' = Newest
    BY <1>1 DEF Newest
  <1>7. lineage.own # None => KnowsTail(lineage.own)'
    BY <1>1, <1>2, <1>4, <1>6 DEF KnowsTail
  <1> QED
    BY <1>1, <1>2, <1>4, <1>5, <1>7 DEF LineageIsCurrent

LEMMA LineageStep ==
  ASSUME InTurn, Typed, NothingToNobody, FilesInOrder, LineageIsCurrent, [Next]_vars
  PROVE  LineageIsCurrent'
  <1>1. CASE \/ \E s \in Surfaces : Says(s) \/ Aborts(s)
             \/ HearsTurn \/ HearsAnswer
    BY <1>1, SpokenKept
  <1>2. CASE AgentHears
    BY <1>2, HeardKept
  <1>3. CASE TerminalForks
    BY <1>3, ForksKept
  <1>4. CASE \E kind \in {"managed", "terminal"}, file \in Files : AgentJoins(kind, file)
    BY <1>4, JoinKept
  <1>5. CASE Restart
    BY <1>5, RestartKept
  <1>6. CASE AgentLeaves \/ \E s \in Surfaces : FindsAgentGone(s)
    BY <1>6, LineageRests DEF AgentLeaves, FindsAgentGone, InTurn
  <1>7. ASSUME agent' = agent, lineage' = lineage, toAgent' = toAgent, sessions' = sessions,
               said' = said
        PROVE  LineageIsCurrent'
    BY <1>7 DEF LineageIsCurrent, KnowsTail, Newest
  <1>8. CASE \/ \E s \in Surfaces : Join(s) \/ Leaves(s)
             \/ AgentSettles \/ AgentAnswers \/ TerminalTypes \/ BriefingHolds \/ UNCHANGED vars
    BY <1>7, <1>8 DEF Join, Leaves, AgentSettles, AgentAnswers, TerminalTypes, BriefingHolds,
       vars, place
  <1> QED
    BY <1>1, <1>2, <1>3, <1>4, <1>5, <1>6, <1>8 DEF Next

-----------------------------------------------------------------------------
LEMMA InitOrderly == Init => Orderly
  <1> SUFFICES ASSUME Init PROVE Orderly
    OBVIOUS
  <1>1. Routed
    BY InitRouted
  <1>2. TypedTurnIsTerminal /\ LinesNameTheirTurn /\ TypedStaysTyped
    BY ConstantTypes DEF Init, NoTurn, None, TypedTurnIsTerminal, LinesNameTheirTurn, TypedStaysTyped
  <1>3. FilesInOrder
    <2>1. 0 \in 0..MaxFiles /\ \A f \in Files : sessions[f].used <=> f <= 0
      BY ConstantTypes DEF Init, Files
    <2> QED
      BY <2>1 DEF FilesInOrder
  <1>4. LineageIsCurrent
    BY DEF Init, NoLineage, LineageIsCurrent
  <1> QED
    BY <1>1, <1>2, <1>3, <1>4 DEF Orderly

\* What is on the way and what is in the session files is in order, if nothing
\* happens behind another's back: the lineage has the page, a typed turn is
\* named by its answer.
THEOREM OrderlyInvariant ==
  ASSUME InTurn
  PROVE  Spec => []Orderly
  <1>1. Orderly /\ [Next]_vars => Orderly'
    <2> SUFFICES ASSUME Orderly, [Next]_vars PROVE Orderly'
      OBVIOUS
    <2>1. /\ Routed /\ Typed /\ NothingToNobody /\ TypedTurnIsTerminal /\ LinesNameTheirTurn
          /\ TypedStaysTyped /\ FilesInOrder /\ LineageIsCurrent
      BY DEF Orderly, Routed
    <2> QED
      BY <2>1, RoutedStep, LinesStep, TypedTurnStep, TypedStaysStep, FilesStep, LineageStep
      DEF Orderly
  <1> QED
    BY <1>1, InitOrderly, PTL DEF Spec

\* An answer goes to whoever asked: to the surface whose turn it is and once,
\* to the terminal for what was typed there, and to nobody otherwise
\* (AnswersGoHome).
THEOREM EveryAnswerGoesHome ==
  ASSUME InTurn
  PROVE  Spec => []AnswersGoHome
  <1>1. Orderly => AnswersGoHome
    <2> SUFFICES ASSUME Orderly PROVE AnswersGoHome
      OBVIOUS
    <2>1. Typed /\ NoUnaskedSpeech /\ TypedStaysTyped
      BY DEF Orderly, Routed
    <2>2. TypeOK
      <3>1. /\ agent.kind \in {"none", "managed", "terminal"} /\ agent.file \in 0..MaxFiles
        BY <2>1, ConstantTypes DEF Typed, PlaceTyped, NoAgent, None, Files
      <3>2. typed.accepted \in 0..typed.open /\ typed.open \in 0..typed.turns
        BY <2>1 DEF Typed, PlaceTyped, TurnsTyped
      <3> QED
        BY <2>1, <3>1, <3>2 DEF Typed, PlaceTyped, TypeOK
    <2> QED
      BY <2>1, <2>2 DEF AnswersGoHome
  <1> QED
    BY <1>1, OrderlyInvariant, PTL

\* Whoever is the agent has the newest page of the conversation in its session,
\* or on the way to it (AgentKnowsTail).
THEOREM EveryAgentKnowsTail ==
  ASSUME InTurn
  PROVE  Spec => []AgentKnowsTail
  <1>1. Orderly => AgentKnowsTail
    <2> SUFFICES ASSUME Orderly, agent # NoAgent, NEW id \in Newest
                 PROVE  id \in sessions[agent.file].knows \cup UNION {toAgent[i].ids : i \in
                          {j \in DOMAIN toAgent : toAgent[j].kind \in {"message", "catch_up"}}}
      BY DEF AgentKnowsTail
    <2>1. agent.file = lineage.file /\ KnowsTail(lineage.file)
      BY AgentIsLineage DEF Orderly, Routed
    <2>2. CASE id \in sessions[agent.file].knows
      BY <2>2
    <2>3. CASE Coming(toAgent, id)
      BY <2>3 DEF Coming
    <2> QED
      BY <2>1, <2>2, <2>3 DEF KnowsTail
  <1> QED
    BY <1>1, OrderlyInvariant, PTL

-----------------------------------------------------------------------------
(* The places of WireRelay.                                                 *)

Holders == {"nobody", "reader", "service"}
Stages == {"away", "greeting", "open", "closing"}

PlacesInv ==
    /\ stage \in [Channels -> Stages] /\ holder \in [Channels -> Holders]
    /\ PlacesAreHeld

\* What is sent gives nobody a place.
Sent(mail) ==
    /\ mail = [holder |-> mail.holder, box |-> mail.box]
    /\ mail.holder \in [Channels -> Holders]
    /\ \A ch \in Channels : mail.holder[ch] = "service" => holder[ch] = "service"

\* What waits already was given no place by being sent.
LEMMA MailIsSent == PlacesInv => Sent(Mail)
  BY DEF PlacesInv, Sent, Mail

\* A letter that finds an outbox full costs its place; none gives one.
LEMMA PostAllSends ==
  ASSUME NEW mail, Sent(mail), NEW letters
  PROVE  Sent(PostAll(mail, letters))
  <1> DEFINE mine(ch) == SelectSeq(letters, LAMBDA letter : letter[1] = ch)
             to(ch) == [i \in DOMAIN mine(ch) |-> mine(ch)[i][2]]
             lost(ch) == /\ mail.holder[ch] = "service" /\ to(ch) # <<>>
                         /\ ~(writer[ch] /\ Len(mail.box[ch]) + Len(to(ch)) <= OUTBOX)
             boxes == [ch \in Channels |->
                         IF mail.holder[ch] = "service" /\ writer[ch]
                         THEN Enqueue(mail.box[ch], to(ch)) ELSE mail.box[ch]]
             holders == [ch \in Channels |-> IF lost(ch) THEN "nobody" ELSE mail.holder[ch]]
  <1>1. PostAll(mail, letters) = [holder |-> holders, box |-> boxes]
    BY DEF PostAll
  <1> HIDE DEF boxes, lost
  <1>2. holders \in [Channels -> Holders]
    BY DEF Sent, Holders
  <1>3. \A ch \in Channels : holders[ch] = "service" => holder[ch] = "service"
    BY DEF Sent
  <1> HIDE DEF holders
  <1> QED
    BY <1>1, <1>2, <1>3 DEF Sent

LEMMA PostSends ==
  ASSUME NEW mail, Sent(mail), NEW ch, NEW body
  PROVE  Sent(Post(mail, ch, body))
  BY PostAllSends DEF Post

LEMMA ReplySends ==
  ASSUME NEW mail, Sent(mail), NEW body
  PROVE  Sent(Reply(mail, body))
  BY DEF Sent, Reply

\* A place can be given up besides.
LEMMA GivenUpSends ==
  ASSUME NEW mail, Sent(mail), NEW ch \in Channels
  PROVE  /\ Sent([mail EXCEPT !.holder[ch] = "nobody"])
         /\ [mail EXCEPT !.holder[ch] = "nobody"].holder[ch] = "nobody"
  <1>1. [mail EXCEPT !.holder[ch] = "nobody"] =
          [holder |-> [mail.holder EXCEPT ![ch] = "nobody"], box |-> mail.box]
    BY DEF Sent
  <1> QED
    BY <1>1 DEF Sent, Holders

LEMMA HandedOffSends ==
  ASSUME NEW mail, Sent(mail), NEW next
  PROVE  Sent(HandedOff(mail, next))
  <1> DEFINE told == Post(mail, "agent", [type |-> "handoff", generation |-> 1, next |-> next])
             left == [told EXCEPT !.holder["agent"] = "nobody"]
  <1>1. "agent" \in Channels
    BY DEF Channels
  <1>2. Sent(told)
    BY PostSends
  <1> HIDE DEF told
  <1>3. Sent(left)
    BY <1>1, <1>2, GivenUpSends
  <1>4. HandedOff(mail, next) = mail
        \/ HandedOff(mail, next) =
             Post(left, "surface", [type |-> "briefings", briefings |-> briefings])
    BY DEF HandedOff, told
  <1> HIDE DEF left
  <1>5. Sent(Post(left, "surface", [type |-> "briefings", briefings |-> briefings]))
    BY <1>3, PostSends
  <1> QED
    BY <1>4, <1>5

LEMMA LeaseEndsSends ==
  ASSUME NEW mail, Sent(mail)
  PROVE  Sent(LeaseEnds(mail))
  <1>1. Sent(IF lease = "fenced" THEN HandedOff(mail, "managed") ELSE mail)
    BY HandedOffSends
  <1> QED
    BY <1>1, PostSends DEF LeaseEnds

\* A handler that sends, takes no name and leaves the lease, or asks for it on
\* the channel that is read, keeps every place where it was.
Quiet ==
    /\ holder' \in [Channels -> Holders]
    /\ \A ch \in Channels : holder'[ch] = "service" => holder[ch] = "service"
    /\ surface' = surface

LEMMA DeliverQuiet ==
  ASSUME NEW mail, Sent(mail), Deliver(mail), surface' = surface
  PROVE  Quiet
  BY DEF Sent, Deliver, Quiet

LEMMA StaysQuiet ==
  ASSUME PlacesInv, UNCHANGED <<sending, surface>>
  PROVE  Quiet
  BY DEF PlacesInv, Quiet, sending

\* What the service does with a line of a surface.
LEMMA SurfaceIsQuiet ==
  ASSUME PlacesInv, NEW body, SurfaceRequest(body)
  PROVE  Quiet /\ lease' = lease
  <1>1. Sent(Mail)
    BY MailIsSent
  <1>2. ASSUME NEW letters, Deliver(PostAll(Mail, letters)), surface' = surface PROVE Quiet
    BY <1>1, <1>2, PostAllSends, DeliverQuiet
  <1>3. CASE SurfaceMessage(body)
    BY <1>2, <1>3 DEF SurfaceMessage
  <1>4. CASE SurfaceAbort(body) \/ SurfaceJobCommand(body)
    BY <1>2, <1>4 DEF SurfaceAbort, SurfaceJobCommand, SurfaceCommand, service
  <1>5. CASE SurfaceBriefingDismiss(body)
    BY <1>2, <1>5 DEF SurfaceBriefingDismiss, service
  <1>6. CASE SurfaceOfferTake(body)
    BY <1>2, <1>6 DEF SurfaceOfferTake, service
  <1> QED
    BY <1>3, <1>4, <1>5, <1>6 DEF SurfaceRequest

LEMMA AgentIsQuiet ==
  ASSUME PlacesInv, NEW body, AgentRequest(body)
  PROVE  Quiet /\ lease' = lease
  <1>1. Sent(Mail)
    BY MailIsSent
  <1>2. ASSUME NEW letters, Deliver(PostAll(Mail, letters)), surface' = surface PROVE Quiet
    BY <1>1, <1>2, PostAllSends, DeliverQuiet
  <1>3. CASE AgentTurn(body) /\ UNCHANGED <<surface, lease, jobs, briefings, life>>
    BY <1>2, <1>3 DEF AgentTurn
  <1>4. CASE AgentAnswer(body) /\ UNCHANGED <<surface, lease, jobs, briefings, life>>
    BY <1>2, <1>4 DEF AgentAnswer
  <1>5. CASE AgentJobs(body) /\ UNCHANGED <<surface, lease, replay, briefings, life>>
    BY <1>2, <1>5 DEF AgentJobs
  <1>6. CASE AgentActivity(body) /\ UNCHANGED <<surface, lease, replay, jobs, briefings>>
    BY <1>2, <1>6, StaysQuiet DEF AgentActivity, Post
  <1>7. CASE UNCHANGED <<service, sending>>
    BY <1>7, StaysQuiet DEF service
  <1> QED
    BY <1>3, <1>4, <1>5, <1>6, <1>7 DEF AgentRequest

LEMMA ControlIsQuiet ==
  ASSUME PlacesInv, NEW body, ControlRequest(body)
  PROVE  Quiet
  <1>1. Sent(Mail)
    BY MailIsSent
  <1>2. ASSUME NEW mail, Sent(mail), NEW answer, Deliver(Reply(mail, answer)), surface' = surface
        PROVE  Quiet
    BY <1>2, ReplySends, DeliverQuiet
  <1>3. ASSUME NEW ch, NEW letter PROVE Sent(Post(Mail, ch, letter))
    BY <1>1, PostSends
  <1>4. CASE Deliver(Reply(Mail, Rejected([id |-> "hello"]))) /\ UNCHANGED service
    BY <1>1, <1>2, <1>4 DEF service
  <1>5. CASE ControlState(body)
    BY <1>1, <1>2, <1>5 DEF ControlState, service
  <1>6. CASE ControlWake(body)
    BY <1>1, <1>2, <1>3, <1>6 DEF ControlWake, service
  <1>7. CASE ControlBriefing(body)
    BY <1>1, <1>2, <1>3, <1>7 DEF ControlBriefing, service
  <1>8. CASE ControlLeaseAcquire(body)
    <2>1. Sent(Post(HandedOff(Mail, "terminal"), "surface", StateBody(jobs, Starting)))
      BY <1>1, HandedOffSends, PostSends
    <2> QED
      BY <1>1, <1>2, <1>8, <2>1 DEF ControlLeaseAcquire, service
  <1>9. CASE ControlLeasePing(body)
    BY <1>1, <1>2, <1>9 DEF ControlLeasePing, service
  <1>10. CASE ControlLeaseRelease(body)
    <2>1. Sent(LeaseEnds(Mail))
      BY <1>1, LeaseEndsSends
    <2> QED
      BY <1>1, <1>2, <1>10, <2>1 DEF ControlLeaseRelease
  <1>11. CASE ControlConversation(body)
    BY <1>1, <1>2, <1>11 DEF ControlConversation, service
  <1> QED
    BY <1>4, <1>5, <1>6, <1>7, <1>8, <1>9, <1>10, <1>11 DEF ControlRequest

\* What is read on a connection that is open leaves every place with who had it.
LEMMA ServeKeeps ==
  ASSUME PlacesInv, NEW ch \in Channels, Serve(ch)
  PROVE  PlacesInv'
  <1>1. stage' = stage /\ stage[ch] = "open"
    BY DEF Serve, threads
  <1>2. Quiet /\ (ch # "control" => lease' = lease)
    <2>1. CASE ch = "control"
      BY <2>1, ControlIsQuiet DEF Serve
    <2>2. CASE ch # "control" /\ UNCHANGED <<sending, service>>
      BY <2>2, StaysQuiet DEF service
    <2>3. CASE SurfaceRequest(line[ch].body) /\ ch # "control"
      BY <2>3, SurfaceIsQuiet
    <2>4. CASE AgentRequest(line[ch].body) /\ ch # "control"
      BY <2>4, AgentIsQuiet
    <2> QED
      BY <2>1, <2>2, <2>3, <2>4 DEF Serve
  <1> QED
    BY <1>1, <1>2 DEF PlacesInv, PlacesAreHeld, Quiet, Channels

\* A hello takes the place and opens the connection in one step.
LEMMA GreetKeeps ==
  ASSUME PlacesInv, NEW ch \in Channels, Greet(ch)
  PROVE  PlacesInv'
  <1> USE DEF PlacesInv, PlacesAreHeld, Channels, Stages, Holders, Drop
  <1>1. stage[ch] = "greeting"
    BY DEF Greet
  <1>2. CASE ch = "surface"
    <2>1. GreetSurface
      BY <1>2 DEF Greet
    <2> QED
      BY <1>1, <1>2, <2>1 DEF GreetSurface
  <1>3. CASE ch = "agent"
    <2>1. GreetAgent
      BY <1>3 DEF Greet
    <2> QED
      BY <1>1, <1>3, <2>1 DEF GreetAgent, service
  <1>4. CASE ch = "control"
    <2>1. GreetControl
      BY <1>4 DEF Greet
    <2> QED
      BY <1>1, <1>4, <2>1 DEF GreetControl, service
  <1> QED
    BY <1>2, <1>3, <1>4

\* A reader that ends gives up what its connection held: the name, the seat of
\* the agent, the lease.
LEMMA CloseKeeps ==
  ASSUME PlacesInv, NEW ch \in Channels, Close(ch)
  PROVE  PlacesInv'
  <1>1. stage' = [stage EXCEPT ![ch] = "closing"] /\ stage[ch] \in {"greeting", "open"}
    BY DEF Close, Drop
  <1>2. CASE stage[ch] = "open"
    <2>1. Left(ch)
      BY <1>2 DEF Close
    <2>2. Sent(Mail)
      BY MailIsSent
    <2>3. ASSUME NEW mail, Sent(mail), Deliver([mail EXCEPT !.holder[ch] = "nobody"])
          PROVE  /\ holder' \in [Channels -> Holders] /\ holder'[ch] # "service"
                 /\ \A d \in Channels : holder'[d] = "service" => holder[d] = "service"
      BY <2>3, GivenUpSends DEF Deliver, Sent
    <2>4. CASE ch = "surface"
      <3>1. /\ surface' = NoSurface /\ lease' = lease
            /\ Deliver([Mail EXCEPT !.holder[ch] = "nobody"])
        BY <2>1, <2>4 DEF Left
      <3>2. /\ holder' \in [Channels -> Holders] /\ holder'[ch] # "service"
            /\ \A d \in Channels : holder'[d] = "service" => holder[d] = "service"
        BY <2>2, <2>3, <3>1
      <3> QED
        BY <1>1, <2>4, <3>1, <3>2
        DEF PlacesInv, PlacesAreHeld, Channels, Stages, NoSurface
    <2>5. CASE ch = "agent"
      <3>1. /\ surface' = surface /\ (lease' # lease => lease # "none")
            /\ \E mail \in {Mail, Post(Mail, "surface", [type |-> "briefings",
                                                         briefings |-> briefings])} :
                 Deliver([mail EXCEPT !.holder[ch] = "nobody"])
        BY <2>1, <2>5 DEF Left
      <3>2. /\ holder' \in [Channels -> Holders] /\ holder'[ch] # "service"
            /\ \A d \in Channels : holder'[d] = "service" => holder[d] = "service"
        BY <2>2, <2>3, <3>1, PostSends
      <3> QED
        BY <1>1, <2>5, <3>1, <3>2 DEF PlacesInv, PlacesAreHeld, Channels, Stages
    <2>6. CASE ch = "control"
      <3>1. /\ surface' = surface /\ lease' = "none"
            /\ \E mail \in {Mail, LeaseEnds(Mail)} :
                 Deliver([mail EXCEPT !.holder[ch] = "nobody"])
        BY <2>1, <2>6 DEF Left
      <3>2. /\ holder' \in [Channels -> Holders] /\ holder'[ch] # "service"
            /\ \A d \in Channels : holder'[d] = "service" => holder[d] = "service"
        BY <2>2, <2>3, <3>1, LeaseEndsSends
      <3> QED
        BY <1>1, <2>6, <3>1, <3>2 DEF PlacesInv, PlacesAreHeld, Channels, Stages
    <2> QED
      BY <2>4, <2>5, <2>6 DEF Channels
  <1>3. CASE stage[ch] # "open"
    <2>1. holder' = [holder EXCEPT ![ch] = "nobody"] /\ surface' = surface /\ lease' = lease
      BY <1>3 DEF Close, Drop, service
    <2> QED
      BY <1>1, <1>3, <2>1 DEF PlacesInv, PlacesAreHeld, Channels, Stages, Holders
  <1> QED
    BY <1>2, <1>3

LEMMA PlacesStep == PlacesInv /\ [RelayNext]_relayVars => PlacesInv'
  <1> SUFFICES ASSUME PlacesInv, [RelayNext]_relayVars PROVE PlacesInv'
    OBVIOUS
  <1>1. ASSUME NEW ch \in Channels, Connect(ch) PROVE PlacesInv'
    BY <1>1 DEF Connect, Drop, service, PlacesInv, PlacesAreHeld, Channels, Stages, Holders
  <1>2. ASSUME NEW ch \in Channels, JoinThreads(ch) PROVE PlacesInv'
    BY <1>2 DEF JoinThreads, Drop, sending, service, PlacesInv, PlacesAreHeld, Channels, Stages
  <1>3. CASE UNCHANGED <<stage, holder, surface, lease>>
    BY <1>3 DEF PlacesInv, PlacesAreHeld
  <1>4. ASSUME NEW ch \in Channels, Write(ch) \/ WriterEnds(ch) \/ Send(ch) \/ HangUp(ch)
        PROVE  PlacesInv'
    BY <1>3, <1>4 DEF Write, WriterEnds, Send, HangUp, threads, sending, service
  <1>5. CASE Report
    <2>1. Quiet /\ lease' = lease /\ stage' = stage
      <3>1. Sent(Post(Mail, "surface", StateBody(jobs, life')))
        BY MailIsSent, PostSends
      <3> QED
        BY <1>5, <3>1, DeliverQuiet DEF Report, threads
    <2> QED
      BY <2>1 DEF Quiet, PlacesInv, PlacesAreHeld, Channels
  <1>6. CASE UNCHANGED relayVars
    BY <1>3, <1>6 DEF relayVars, threads, sending, service
  <1> QED
    BY <1>1, <1>2, <1>4, <1>5, <1>6, ServeKeeps, GreetKeeps, CloseKeeps DEF RelayNext

\* A connection that is over keeps nothing at the service, whoever ended it and
\* whatever was on its way: a name, the seat of the agent and the lease are held
\* by connections that are still read (unregister_surface, unregister_agent,
\* control_disconnected).
THEOREM PlacesStayHeld == RelaySpec => []PlacesAreHeld
  <1>1. RelayInit => PlacesInv
    BY DEF RelayInit, Each, NoSurface, PlacesInv, PlacesAreHeld, Channels, Stages, Holders
  <1>2. PlacesInv => PlacesAreHeld
    BY DEF PlacesInv
  <1> QED
    BY <1>1, <1>2, PlacesStep, PTL DEF RelaySpec
=============================================================================
