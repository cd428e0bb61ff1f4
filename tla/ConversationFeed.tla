--------------------------- MODULE ConversationFeed ---------------------------
(****************************************************************************)
(* The conversation as every surface hears it (host/service: service.rs,    *)
(* conversation.rs, server.rs).  A surface that joins is replayed the ring  *)
(* and then told everything that is said, both under one lock; an offer in  *)
(* an answer is taken once; the ring is stored as it changes and opened     *)
(* again by the next run of the service.                                    *)
(*                                                                          *)
(* Words are numbered as they are said; a number stands for its text.  A    *)
(* connection registers once, so it and its generation are one number.      *)
(* Whose turn the words belong to is TurnRouting's.                         *)
(****************************************************************************)
EXTENDS Naturals, FiniteSets, FiniteSetsExt, Sequences, SequencesExt, Functions

CONSTANTS
  Surfaces,      \* the names surfaces register under
  MaxJoins,      \* registrations
  MaxSaid,       \* words said
  Entries,       \* CONVERSATION_ENTRIES
  Page,          \* MAX_CONVERSATION_PAGE
  LastSequence,  \* u64::MAX
  Outbox,        \* OUTBOX
  MaxFaults      \* snapshots not stored and restarts of the service

None == 0
Joins == 1..MaxJoins
Nobody == "nobody"

ASSUME FeedAssumption ==
  /\ {MaxJoins, MaxFaults} \subseteq Nat /\ {MaxSaid, Entries, Page} \subseteq Nat \ {0}
  /\ Page <= Entries
  /\ LastSequence \in Nat /\ LastSequence > Entries + 1
  /\ Outbox \in Nat /\ Outbox > Entries
  /\ Nobody \notin Surfaces

VARIABLES
  registry,  \* Inner::surfaces: the connection that holds each name
  speaks,    \* Inner::surface_by_connection
  joined,    \* Inner::next_surface_generation
  sockets,   \* per connection: open, what is queued for it, what it has read
  ring,      \* ConversationHistory::entries
  next,      \* ConversationHistory::next_sequence
  disk,      \* the stored snapshot
  stream,    \* what this run of the service has in mind, from its first entry
  last,      \* the words said last
  taken,     \* how often the agent was handed each offer, in this run
  faults

channel == <<registry, speaks, joined, sockets>>
history == <<ring, next, disk, stream, last>>
vars == <<channel, history, taken, faults>>

Shut == [open |-> FALSE, name |-> Nobody, read |-> <<>>, outbox |-> <<>>]
Registered(c) == \E s \in Surfaces : registry[s] = c
Ids(entries) == [i \in DOMAIN entries |-> entries[i].id]

-----------------------------------------------------------------------------
Resequenced(entries) == [i \in DOMAIN entries |-> [entries[i] EXCEPT !.sequence = i]]

\* ConversationHistory::push
Push(entries, number, entry) ==
  LET renumber == number = LastSequence
      kept == IF renumber THEN Resequenced(entries) ELSE entries
      sequence == IF renumber THEN Len(entries) + 1 ELSE number
  IN  [entries |-> Append(IF Len(kept) = Entries THEN Tail(kept) ELSE kept,
                          [id |-> entry.id, offer |-> entry.offer, sequence |-> sequence]),
       next |-> sequence + 1]

\* persist: the whole ring, or the old snapshot stays.
Persist ==
  \/ disk' = ring' /\ UNCHANGED faults
  \/ faults < MaxFaults /\ faults' = faults + 1 /\ UNCHANGED disk

\* Mutant: a surface that cannot be told is skipped, not dropped.
BroadcastSkips(line) ==
  /\ sockets' = [c \in Joins |->
       IF Registered(c) /\ Len(sockets[c].outbox) < Outbox
       THEN [sockets[c] EXCEPT !.outbox = Append(@, line)] ELSE sockets[c]]
  /\ UNCHANGED <<registry, speaks>>

\* Inner::broadcast: a surface whose outbox is full is dropped.
Broadcast(line) ==
  LET full == {c \in Joins : Registered(c) /\ Len(sockets[c].outbox) >= Outbox}
  IN  /\ sockets' = [c \in Joins |->
           IF Registered(c) /\ c \notin full
           THEN [sockets[c] EXCEPT !.outbox = Append(@, line)] ELSE sockets[c]]
      /\ registry' = [s \in Surfaces |-> IF registry[s] \in full THEN None ELSE registry[s]]
      /\ speaks' = [c \in Joins |-> IF c \in full THEN Nobody ELSE speaks[c]]

\* entries_since: the entries after a number, at most a page of them.
EntriesSince(entries, number) ==
  LET after == SelectSeq(entries, LAMBDA entry : entry.sequence > number)
  IN  SubSeq(after, 1, Min({Page, Len(after)}))

\* send_catch_up: one page, from a page before the newest.
CatchUp(entries) ==
  LET latest == IF entries = <<>> THEN 0 ELSE Last(entries).sequence
  IN  EntriesSince(entries, IF latest > Page THEN latest - Page ELSE 0)

-----------------------------------------------------------------------------
\* register_surface: replay and everything after it under one lock; an older
\* connection of the name is forgotten, its socket closed when it has drained.
Join(s) ==
  /\ joined < MaxJoins /\ joined' = joined + 1
  /\ registry' = [registry EXCEPT ![s] = joined']
  /\ speaks' = [c \in Joins |-> IF c = joined' THEN s
                                ELSE IF c = registry[s] THEN Nobody ELSE speaks[c]]
  /\ sockets' = [sockets EXCEPT ![joined'] =
       [open |-> TRUE, name |-> s, read |-> <<>>,
        outbox |-> [i \in DOMAIN ring |-> [id |-> ring[i].id, offer |-> ring[i].offer]]]]
  /\ UNCHANGED <<history, taken, faults>>

Unheld(c) == [s \in Surfaces |-> IF registry[s] = c THEN None ELSE registry[s]]

\* unregister_surface, when the connection's reader ends: the surface left, its
\* socket was shut, or a line was not one the protocol knows.
Closes(c) ==
  /\ sockets[c].open
  /\ sockets' = [sockets EXCEPT ![c] = Shut]
  /\ registry' = Unheld(c)
  /\ speaks' = [speaks EXCEPT ![c] = Nobody]
  /\ UNCHANGED <<joined, history, taken, faults>>

\* surface_writer: the surface takes its next line.
Takes(c) ==
  /\ sockets[c].open /\ sockets[c].outbox # <<>>
  /\ sockets' = [sockets EXCEPT ![c].outbox = Tail(@),
                                ![c].read = Append(@, Head(sockets[c].outbox))]
  /\ UNCHANGED <<registry, speaks, joined, history, taken, faults>>

-----------------------------------------------------------------------------
\* Inner::record: words of the owner or the agent, an answer perhaps with an
\* offer (surface_message, a typed turn, a response).
Record(offer) ==
  LET id == last + 1
      pushed == Push(ring, next, [id |-> id, offer |-> offer])
  IN  /\ last < MaxSaid /\ last' = id
      /\ stream' = Append(stream, id)
      /\ ring' = pushed.entries /\ next' = pushed.next /\ Persist
      /\ Broadcast([id |-> id, offer |-> offer])
      /\ UNCHANGED <<joined, taken>>

\* speaking_surface: the connection holds its name.
Speaks(c) == sockets[c].open /\ speaks[c] # Nobody /\ registry[speaks[c]] = c

\* Mutant: the mark is told and not kept.
MarkTold(entries, id) == entries

\* take_offer: the mark lives on the message, so that a replay carries it.
MarkTaken(entries, id) ==
  [i \in DOMAIN entries |-> IF entries[i].id = id THEN [entries[i] EXCEPT !.offer = "taken"]
                            ELSE entries[i]]

\* surface_offer_take: spent, told to every surface and handed to the agent,
\* if there is one.
TakesOffer(c, id) ==
  /\ Speaks(c)
  /\ \E i \in DOMAIN ring : ring[i].id = id /\ ring[i].offer = "open"
  /\ ring' = MarkTaken(ring, id) /\ Persist
  /\ Broadcast([id |-> id, offer |-> "spent"])
  /\ taken' \in {taken, [taken EXCEPT ![id] = @ + 1]}
  /\ UNCHANGED <<joined, next, stream, last>>

\* set_next_sequence
NextAfter(entries) ==
  IF entries = <<>> THEN 1
  ELSE IF Last(entries).sequence = LastSequence THEN Len(entries) + 1
  ELSE Last(entries).sequence + 1

Reopened(entries) ==
  IF entries # <<>> /\ Last(entries).sequence = LastSequence THEN Resequenced(entries) ELSE entries

\* The service stops and starts: the snapshot is opened (ConversationHistory::
\* open) and nothing else is remembered.
Restart ==
  /\ faults < MaxFaults /\ faults' = faults + 1
  /\ ring' = Reopened(disk) /\ next' = NextAfter(disk)
  /\ stream' = Ids(disk) /\ taken' = [id \in 1..MaxSaid |-> 0]
  /\ registry' = [s \in Surfaces |-> None] /\ speaks' = [c \in Joins |-> Nobody]
  /\ sockets' = [c \in Joins |-> Shut]
  /\ UNCHANGED <<joined, disk, last>>

-----------------------------------------------------------------------------
\* A first start, or one after a long past, whose last words have one of the
\* last sequence numbers.
Init ==
  /\ registry = [s \in Surfaces |-> None] /\ speaks = [c \in Joins |-> Nobody] /\ joined = 0
  /\ sockets = [c \in Joins |-> Shut]
  /\ \/ ring = <<>> /\ last = 0
     \/ \E sequence \in {LastSequence - 1, LastSequence} :
          ring = Reopened(<<[id |-> 1, offer |-> "none", sequence |-> sequence]>>) /\ last = 1
  /\ next = NextAfter(ring) /\ disk = ring /\ stream = Ids(ring)
  /\ taken = [id \in 1..MaxSaid |-> 0] /\ faults = 0

Next ==
  \/ \E s \in Surfaces : Join(s)
  \/ \E c \in Joins : Closes(c) \/ Takes(c) \/ \E id \in 1..MaxSaid : TakesOffer(c, id)
  \/ \E offer \in {"none", "open"} : Record(offer)
  \/ Restart

Spec == Init /\ [][Next]_vars

-----------------------------------------------------------------------------
Lines == [id : 1..MaxSaid, offer : {"none", "open", "taken", "spent"}]

\* Nothing outgrows its bound: an outbox, the ring or a sequence number.
TypeOK ==
  /\ registry \in [Surfaces -> 0..MaxJoins] /\ joined \in 0..MaxJoins
  /\ speaks \in [Joins -> Surfaces \cup {Nobody}]
  /\ \A c \in Joins : /\ Len(sockets[c].outbox) <= Outbox
                       /\ Range(sockets[c].outbox) \cup Range(sockets[c].read) \subseteq Lines
  /\ Len(ring) <= Entries /\ Len(disk) <= Entries /\ next \in 1..LastSequence
  /\ \A i \in DOMAIN ring : ring[i].sequence \in 1..next - 1

\* An agent that is told what it missed is told the newest page of it, in
\* order and without a gap, however often the numbers have started over
\* (send_catch_up, resequence, set_next_sequence).
CatchUpIsNewest ==
  CatchUp(ring) = SubSeq(ring, Len(ring) - Min({Page, Len(ring)}) + 1, Len(ring))

Heard(c) == sockets[c].read \o sockets[c].outbox
Words(lines) == SelectSeq(lines, LAMBDA line : line.offer # "spent")

\* A surface that is registered has heard, or is about to, everything from the
\* oldest entry kept when it joined, in order and once: nothing said between
\* its replay and its first news is lost, and one that cannot keep up is not
\* left registered with a gap (register_surface, broadcast).
StreamIsWhole ==
  /\ IsSuffix(Ids(ring), stream)
  /\ \A c \in Joins : Registered(c) =>
       LET heard == Words(Heard(c))
       IN  IsSuffix(Ids(heard), stream) /\ Len(heard) >= Len(ring)

\* An offer is shown as taken on exactly the screens where it is: the mark is
\* in the replay of those that join later and in the news of the rest, and a
\* surface that comes back is not handed a live button for work already done
\* (take_offer).
OfferLooksAsItIs ==
  \A c \in Joins, i \in DOMAIN ring :
    Registered(c) /\ ring[i].offer # "none" =>
      (ring[i].offer = "taken" <=>
         \E k \in DOMAIN Heard(c) : /\ Heard(c)[k].id = ring[i].id
                                    /\ Heard(c)[k].offer \in {"taken", "spent"})

\* The work behind an offer is handed out once, whoever presses and however
\* often the surfaces come back.
OfferWorkedOnce == \A id \in 1..MaxSaid : taken[id] <= 1

\* A name passes from one connection to another only when a newer one takes
\* it, its own closes or its own outbox was full: a connection that was
\* replaced takes nothing with it (unregister_surface).
NameIsKept ==
  [][\A s \in Surfaces :
       LET c == registry[s]
       IN  c # None /\ registry'[s] # c =>
             \/ registry'[s] = joined' /\ joined' > joined
             \/ ~sockets'[c].open
             \/ Len(sockets[c].outbox) >= Outbox]_vars

\* What the surfaces and a new agent are told is what the ring holds: the whole
\* of it, in order, with every offer as it is.
FeedIsWhole == CatchUpIsNewest /\ StreamIsWhole /\ OfferLooksAsItIs
=============================================================================
