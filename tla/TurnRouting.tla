------------------------------ MODULE TurnRouting ------------------------------
(****************************************************************************)
(* Whose turn it is, and what the agent knows of the conversation           *)
(* (host/service/src/service.rs with the extension's typed turns): what a   *)
(* surface or a terminal says opens a turn, an answer closes the turn it    *)
(* belongs to and is told to whoever opened it; the agent's place is taken  *)
(* by one process after another, and one that has not the conversation in   *)
(* its session is told it.                                                  *)
(*                                                                          *)
(* Words are numbered as they are said; a number stands for its text.  How  *)
(* surfaces hear them is ConversationFeed's, who may be the agent           *)
(* AgentLease's, and what a briefing does with the model                    *)
(* ProactiveDelivery's.                                                     *)
(****************************************************************************)
EXTENDS Naturals, FiniteSets, FiniteSetsExt, Sequences, SequencesExt

CONSTANTS
  Surfaces,      \* the names surfaces register under
  MaxSaid,       \* words said
  Page,          \* MAX_CONVERSATION_PAGE
  MaxTyped,      \* turns typed at a terminal
  MaxFiles,      \* session files
  MaxQueue,      \* lines on the way to and from the agent
  Hasty,         \* see AgentLeaves, AgentJoins, AgentAnswers and Restart
  MaxFaults      \* agents gone and restarts of the service

None == 0
Files == 1..MaxFiles

ASSUME RoutingAssumption ==
  /\ {MaxSaid, MaxTyped, MaxFiles, MaxQueue, MaxFaults} \subseteq Nat
  /\ Page \in Nat \ {0}
  /\ Surfaces \cap {"unprompted", "terminal", "nobody"} = {}
  /\ Hasty \in BOOLEAN

VARIABLES
  present,   \* the names in Inner::surfaces
  turn,      \* associated_surface and associated_turn
  slot,      \* a briefing holds the model (active_proactive)
  agent,     \* which process is the agent, and its session file
  lineage,   \* lineage_file and lineage_holder, and the file the managed child
             \* wrote last, which its --continue finds
  toAgent, fromAgent,  \* lines on the way
  typed,     \* the extension: turns typed, the one running, the one accepted
  sessions,  \* what each session file was forked from and has in its context
  said,      \* everything said: who by, where to, the typed turn it answers
  faults

place == <<agent, lineage, toAgent, fromAgent, typed, sessions>>
vars == <<present, turn, slot, place, said, faults>>

NoTurn == [surface |-> "nobody", id |-> None]
NoAgent == [kind |-> "none", file |-> None]
NoLineage == [file |-> None, holder |-> "managed", own |-> None]

-----------------------------------------------------------------------------
\* register_surface and unregister_surface, of the name.
Join(s) ==
  /\ ~present[s] /\ present' = [present EXCEPT ![s] = TRUE]
  /\ UNCHANGED <<turn, slot, place, said, faults>>

Leaves(s) ==
  /\ present[s] /\ present' = [present EXCEPT ![s] = FALSE]
  /\ UNCHANGED <<turn, slot, place, said, faults>>

\* Inner::record, of words by a role under a surface's name.
Record(role, surface, answers) ==
  said' = Append(said, [role |-> role, surface |-> surface, answers |-> answers])

\* Inner::send_agent: the line is queued, or the agent turns out to be gone.
SendAgent(line) ==
  /\ agent # NoAgent /\ Len(toAgent) < MaxQueue
  /\ toAgent' = Append(toAgent, line)

\* surface_message: the words go to the agent and open a turn.  With no agent,
\* behind a briefing or with an attachment that is gone they are refused:
\* nothing changes.
Says(s) ==
  /\ present[s] /\ ~slot /\ Len(said) + Len(fromAgent) < MaxSaid
  /\ SendAgent([kind |-> "message", ids |-> {Len(said) + 1}])
  /\ turn' = [surface |-> s, id |-> Len(said) + 1]
  /\ Record("user", s, None)
  /\ UNCHANGED <<present, slot, agent, lineage, fromAgent, typed, sessions, faults>>

\* surface_abort: the turn ends without an answer, whoever opened it.
Aborts(s) ==
  /\ present[s] /\ SendAgent([kind |-> "abort", ids |-> {}])
  /\ turn' = NoTurn
  /\ UNCHANGED <<present, slot, agent, lineage, fromAgent, typed, sessions, said, faults>>

\* A line that finds the agent gone costs the agent its connection, and the
\* surface its request.
FindsAgentGone(s) ==
  /\ present[s] /\ agent # NoAgent /\ ~slot /\ faults < MaxFaults /\ faults' = faults + 1
  /\ Hasty \/ toAgent = <<>>
  /\ agent' = NoAgent /\ toAgent' = <<>> /\ fromAgent' = <<>>
  /\ UNCHANGED <<present, lineage, typed, sessions, said, turn, slot>>

\* A briefing takes the model while nobody's turn is open, and gives it back.
BriefingHolds ==
  /\ slot \/ (turn = NoTurn /\ agent # NoAgent)
  /\ slot' = ~slot
  /\ UNCHANGED <<present, turn, place, said, faults>>

-----------------------------------------------------------------------------
Fresh == Cardinality({f \in Files : sessions[f].used}) + 1
Forked(file, from) ==
  [sessions EXCEPT ![file] = [used |-> TRUE, parent |-> from,
     knows |-> IF from = None THEN {} ELSE sessions[from].knows]]

\* What the process that joins declares: the managed child forks a terminal's
\* file and otherwise continues its own (start_agent, fork_from); a terminal
\* forks the lineage as it attaches, or comes with a file of its own.
Continued == IF lineage.file # None THEN lineage.file ELSE lineage.own

MayJoin(kind, file, known) ==
  \/ /\ kind = "managed" /\ lineage.holder = "terminal"
     /\ file = Fresh /\ known = Forked(file, lineage.file)
  \/ /\ kind = "managed" /\ lineage.holder = "managed"
     /\ IF Continued = None THEN file = Fresh /\ known = Forked(file, None)
        ELSE file = Continued /\ known = sessions
  \/ /\ kind = "terminal" /\ file = Fresh
     /\ known \in {Forked(file, lineage.file), Forked(file, None)}
  \/ kind = "terminal" /\ sessions[file].used /\ known = sessions

\* Nothing was said in the lineage since the file was forked from it; where
\* there is no lineage yet, the managed child is first.
ForkIsCurrent(kind, file, known) ==
  CASE lineage.file = None -> kind = "managed" \/ said = <<>>
    [] lineage.file # None /\ known[file].parent = lineage.file ->
         sessions[lineage.file].knows \subseteq known[file].knows
    [] OTHER -> TRUE

\* A terminal forks the lineage and has not asked for the agent yet.
TerminalForks ==
  /\ Fresh \in Files /\ lineage.file # None
  /\ sessions' = Forked(Fresh, lineage.file)
  /\ UNCHANGED <<present, said, agent, lineage, toAgent, fromAgent, typed, turn, slot, faults>>

\* Mutant: a file the service has seen before continues the conversation.
ContinuesAny(file, known) ==
  lineage.file = None \/ sessions[file].used \/ known[file].parent = lineage.file

\* Inner::continues_lineage
ContinuesLineage(file, known) ==
  lineage.file = None \/ file = lineage.file \/ known[file].parent = lineage.file

\* send_catch_up: the newest page (CatchUpIsNewest of ConversationFeed).
Newest == {id \in 1..Len(said) : id + Page > Len(said)}

\* admit_agent: one agent at a time; its session becomes the lineage.
AgentJoins(kind, file) ==
  /\ agent = NoAgent /\ file \in Files
  /\ \E known \in {sessions, Forked(file, lineage.file), Forked(file, None)} :
       /\ MayJoin(kind, file, known)
       /\ Hasty \/ ForkIsCurrent(kind, file, known)
       /\ sessions' = known
       /\ toAgent' = IF ContinuesLineage(file, known) \/ said = <<>> THEN <<>>
                     ELSE <<[kind |-> "catch_up", ids |-> Newest]>>
  /\ agent' = [kind |-> kind, file |-> file]
  /\ lineage' = [file |-> file, holder |-> kind,
                  own |-> IF kind = "managed" THEN file ELSE lineage.own]
  /\ fromAgent' = <<>> /\ typed' = [typed EXCEPT !.open = None, !.accepted = None]
  /\ UNCHANGED <<present, said, turn, slot, faults>>

\* The agent takes its next line: words and the catch-up enter its context.
AgentHears ==
  /\ agent # NoAgent /\ toAgent # <<>> /\ toAgent' = Tail(toAgent)
  /\ LET line == Head(toAgent)
     IN  /\ sessions' = [sessions EXCEPT ![agent.file].knows =
               @ \cup (IF line.kind \in {"message", "catch_up"} THEN line.ids ELSE {})]
         /\ typed' = IF line.kind = "turn_ack" /\ line.ids = {typed.open}
                     THEN [typed EXCEPT !.accepted = typed.open] ELSE typed
  /\ UNCHANGED <<present, said, agent, lineage, fromAgent, turn, slot, faults>>

\* agent_left: the connection ended, after the last line that was sent on it.
\* The open turn stays open.
AgentLeaves ==
  /\ agent # NoAgent /\ fromAgent = <<>> /\ (Hasty \/ toAgent = <<>>)
  /\ agent' = NoAgent /\ toAgent' = <<>> /\ slot' = FALSE
  /\ UNCHANGED <<present, said, lineage, fromAgent, typed, sessions, turn, faults>>

\* A line typed at the terminal that is the agent (the extension's input).
TerminalTypes ==
  /\ agent.kind = "terminal" /\ Len(fromAgent) < MaxQueue /\ typed.turns < MaxTyped
  /\ Len(said) + Len(fromAgent) < MaxSaid
  /\ typed' = [typed EXCEPT !.turns = @ + 1, !.open = typed.turns + 1]
  /\ fromAgent' = Append(fromAgent, [kind |-> "turn", name |-> typed.turns + 1, to |-> None])
  /\ UNCHANGED <<present, said, agent, lineage, toAgent, sessions, turn, slot, faults>>

\* The agent answers: naming the typed turn the host accepted, if there is one.
AgentAnswers ==
  /\ agent # NoAgent /\ sessions[agent.file].knows # {} /\ Len(fromAgent) < MaxQueue
  /\ Len(said) + Len(fromAgent) < MaxSaid
  /\ Hasty \/ typed.accepted = typed.open
  /\ fromAgent' = Append(fromAgent,
       [kind |-> "answer", name |-> typed.accepted, to |-> typed.open])
  /\ UNCHANGED <<present, said, agent, lineage, toAgent, typed, sessions, turn, slot, faults>>

\* The agent's turn is over: agent_settled.
AgentSettles ==
  /\ agent # NoAgent /\ typed.open # None
  /\ typed' = [typed EXCEPT !.open = None, !.accepted = None]
  /\ UNCHANGED <<present, said, agent, lineage, toAgent, fromAgent, sessions, turn, slot, faults>>

\* What is in the agent's own session before the service has it.
InContext(id) == [sessions EXCEPT ![agent.file].knows = @ \cup {id}]

\* AgentRequestBody::Turn, from the terminal that holds the lease.
HearsTurn ==
  /\ fromAgent # <<>> /\ Head(fromAgent).kind = "turn" /\ Len(toAgent) < MaxQueue
  /\ turn' = [surface |-> "terminal", id |-> MaxSaid + Head(fromAgent).name]
  /\ Record("user", "terminal", None)
  /\ sessions' = InContext(Len(said) + 1)
  /\ toAgent' = Append(toAgent, [kind |-> "turn_ack", ids |-> {Head(fromAgent).name}])
  /\ fromAgent' = Tail(fromAgent)
  /\ UNCHANGED <<present, agent, lineage, typed, slot, faults>>

\* Mutant: an answer that names no turn is the open turn's and leaves it open.
LeavesOpen(name) ==
  IF name # None
  THEN IF turn.id = MaxSaid + name THEN [to |-> turn.surface, turn |-> NoTurn]
       ELSE [to |-> "terminal", turn |-> turn]
  ELSE IF slot THEN [to |-> "unprompted", turn |-> turn]
       ELSE [to |-> turn.surface, turn |-> turn]

\* Whose answer it is, and what becomes of the open turn.
Destination(name) ==
  IF name # None
  THEN IF turn.id = MaxSaid + name THEN [to |-> turn.surface, turn |-> NoTurn]
       ELSE [to |-> "terminal", turn |-> turn]
  ELSE IF slot THEN [to |-> "unprompted", turn |-> turn]
       ELSE [to |-> turn.surface, turn |-> NoTurn]

\* An owner that left is told nothing: the answer is nobody's.
Owner(to) ==
  IF to = "terminal" \/ (to \in Surfaces /\ present[to]) THEN to ELSE "unprompted"

\* AgentRequestBody::Response without a briefing's correlation.
HearsAnswer ==
  /\ fromAgent # <<>> /\ Head(fromAgent).kind = "answer"
  /\ LET where == Destination(Head(fromAgent).name)
     IN  /\ turn' = where.turn
         /\ Record("assistant", Owner(where.to), Head(fromAgent).to)
  /\ sessions' = InContext(Len(said) + 1)
  /\ fromAgent' = Tail(fromAgent)
  /\ UNCHANGED <<present, agent, lineage, toAgent, typed, slot, faults>>

\* The service stops and starts, and remembers the conversation and nothing
\* else.
Restart ==
  /\ faults < MaxFaults /\ faults' = faults + 1
  /\ Hasty \/ (lineage.holder = "managed" /\ toAgent = <<>>)
  /\ present' = [s \in Surfaces |-> FALSE]
  /\ turn' = NoTurn /\ slot' = FALSE /\ agent' = NoAgent
  /\ lineage' = [NoLineage EXCEPT !.own = lineage.own]
  /\ toAgent' = <<>> /\ fromAgent' = <<>>
  /\ typed' = [typed EXCEPT !.open = None, !.accepted = None]
  /\ UNCHANGED <<sessions, said>>

-----------------------------------------------------------------------------
Init ==
  /\ present = [s \in Surfaces |-> FALSE] /\ said = <<>>
  /\ turn = NoTurn /\ slot = FALSE /\ agent = NoAgent /\ lineage = NoLineage
  /\ toAgent = <<>> /\ fromAgent = <<>> /\ typed = [turns |-> 0, open |-> None, accepted |-> None]
  /\ sessions = [f \in Files |-> [used |-> FALSE, parent |-> None, knows |-> {}]]
  /\ faults = 0

Next ==
  \/ \E s \in Surfaces : Join(s) \/ Leaves(s) \/ Says(s) \/ Aborts(s) \/ FindsAgentGone(s)
  \/ \E kind \in {"managed", "terminal"}, file \in Files : AgentJoins(kind, file)
  \/ AgentHears \/ AgentLeaves \/ AgentAnswers \/ AgentSettles
  \/ TerminalForks \/ TerminalTypes \/ HearsTurn \/ HearsAnswer
  \/ BriefingHolds \/ Restart

Spec == Init /\ [][Next]_vars

-----------------------------------------------------------------------------
\* Types; the typed turn an answer may name is never newer than the one running.
TypeOK ==
  /\ present \in [Surfaces -> BOOLEAN]
  /\ turn.surface \in Surfaces \cup {"terminal", "nobody"} /\ slot \in BOOLEAN
  /\ agent.kind \in {"none", "managed", "terminal"} /\ agent.file \in 0..MaxFiles
  /\ Len(toAgent) <= MaxQueue + 1 /\ Len(fromAgent) <= MaxQueue
  /\ typed.accepted \in 0..typed.open /\ typed.open \in 0..typed.turns

\* No surface is spoken to more often than it spoke: one question is answered
\* to it at most once, and what nobody asked is nobody's.
NoUnaskedSpeech ==
  \A s \in Surfaces, n \in DOMAIN said :
    LET by(role) == {i \in 1..n : said[i].role = role /\ said[i].surface = s}
    IN  Cardinality(by("assistant")) <= Cardinality(by("user"))

\* The answer to a turn typed at the terminal is the terminal's, whatever a
\* surface asked in the meantime.
TypedStaysTyped ==
  \A i \in DOMAIN said : said[i].answers # None => said[i].surface = "terminal"

\* Whoever is the agent has the newest page of the conversation in its session
\* or on the way to it (admit_agent: "one that does not has a new file and no
\* memory of it, and catch-up is the only thing that makes the next answer
\* honest").
AgentKnowsTail ==
  agent # NoAgent =>
    Newest \subseteq sessions[agent.file].knows \cup UNION {toAgent[i].ids : i \in
        {j \in DOMAIN toAgent : toAgent[j].kind \in {"message", "catch_up"}}}

\* An answer goes to whoever asked: to the surface whose turn it is and once,
\* to the terminal for what was typed there, and to nobody otherwise.
AnswersGoHome == TypeOK /\ NoUnaskedSpeech /\ TypedStaysTyped
=============================================================================
