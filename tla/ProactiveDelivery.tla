-------------------------- MODULE ProactiveDelivery --------------------------
(****************************************************************************)
(* How the service gives queued briefings to the model, one at a time, and  *)
(* records each answer (host/service/src/service.rs).  The state is what    *)
(* Inner holds for it: the briefing store, the canonical replay, the one    *)
(* proactive slot, its pacing and circuit, and the parts of the lifecycle,  *)
(* the owner turn and the agent connection that gate a dispatch.            *)
(*                                                                          *)
(* Every handler holds one lock, so a handler is one action.  Where a       *)
(* handler releases the lock and then calls dispatch_briefing, the call is  *)
(* a step of its own (Dispatch) that other threads may overtake; "owed"     *)
(* counts the threads that still have it to make.                           *)
(*                                                                          *)
(* The agent is not trusted here: while connected it may send any marker,   *)
(* response or settlement in any order, which covers markers that are late, *)
(* repeated, missing or about another event.                                *)
(****************************************************************************)
EXTENDS BriefingStore

CONSTANTS
  Incoming,        \* accounts a producer reports
  Imported,        \* runs from before the service owned delivery
  LogicalRun,      \* the (date, profile) label of each run
  MaxConsecutive,  \* MAX_CONSECUTIVE_PROACTIVE_TURNS
  MaxOwed,         \* bound: dispatch calls outstanding at once
  Watched,         \* bound: whether a surface ever registers
  Sends            \* what a send to the agent can do: a subset of SendResults

SendResults == {"sent", "gone"}
Labels == {LogicalRun[r] : r \in Runs}
NoRun == 0   \* active_proactive is None

ASSUME IncomingAssumption ==
         Incoming \subseteq {a \in Account : a.failed <= a.completed
                                             /\ a.completed <= a.total}
ASSUME PacingAssumption == MaxConsecutive \in Nat \ {0} /\ MaxOwed \in Nat \ {0}
                            /\ Watched \in BOOLEAN
ASSUME RunKindsAssumption == DOMAIN LogicalRun = Runs /\ Imported \subseteq Runs
ASSUME SendsAssumption == Sends \subseteq SendResults /\ "sent" \in Sends

VARIABLES
  mem, disk,          \* the briefing store, in memory and its last snapshot
  replay, replayDisk, \* delivery ids in the canonical replay, likewise
  lifecycle, turn, agent,
  active, started,    \* the slot, and whether Pi delivered its message
  consecutive, seen, backoff, timer, circuit,
  owed,
  \* What an observer has seen; no action reads these.
  acked,              \* runs whose report was acknowledged, while the audit
                      \* keeps them
  recordings,         \* times each answer entered the replay since the audit
                      \* took its run in
  starts,             \* counted turns of each label in this sequence
  surface, shown      \* a registered surface and what it has been shown

store == <<mem, disk>>
canon == <<replay, replayDisk>>
gates == <<lifecycle, turn, agent>>
slot == <<active, started>>
pacing == <<consecutive, seen, starts>>
screen == <<surface, shown>>
vars == <<store, canon, gates, slot, pacing, backoff, timer, circuit, owed,
          acked, recordings, screen>>

Lifecycles == {"starting", "working", "idle", "failed", "stopped"}

TypeOK ==
  /\ mem \in Store /\ disk \in Store
  /\ replay \subseteq Runs /\ replayDisk \subseteq Runs
  /\ lifecycle \in Lifecycles    \* "stopped" is Failed with the briefing detail
  /\ turn \in BOOLEAN /\ agent \in BOOLEAN
  /\ active \in Runs \cup {NoRun} /\ started \in BOOLEAN
  /\ consecutive \in Nat /\ seen \subseteq Labels
  /\ backoff \in {"none", "running", "over"}
  /\ timer \in BOOLEAN /\ circuit \in BOOLEAN /\ owed \in 0..MaxOwed
  /\ acked \subseteq Runs
  /\ recordings \in [Runs -> Nat] /\ starts \in [Labels -> Nat]
  /\ surface \in BOOLEAN /\ shown \in [Runs -> 0..2]

Init ==
  /\ mem = EmptyStore /\ disk = EmptyStore
  /\ replay = {} /\ replayDisk = {}
  /\ lifecycle = "starting" /\ turn = FALSE /\ agent = FALSE
  /\ active = NoRun /\ started = FALSE
  /\ consecutive = 0 /\ seen = {} /\ backoff = "none"
  /\ timer = FALSE /\ circuit = FALSE /\ owed = 0
  /\ acked = {}
  /\ recordings = [r \in Runs |-> 0] /\ starts = [l \in Labels |-> 0]
  /\ surface = FALSE /\ shown = [r \in Runs |-> 0]

-----------------------------------------------------------------------------
(* Parts of handlers. *)

OweDispatch == owed' = Lesser(owed + 1, MaxOwed)

\* A write of memory m over disk d that the handler goes on from.
PersistFrom(m, d, new, outcome) ==
  mem' = InMemory(m, new, outcome) /\ disk' = OnDisk(d, new, outcome)

Persist(new, outcome) == PersistFrom(mem, disk, new, outcome)

\* queued_delivery_failed, whose own failure is only logged.
StopQueueFrom(m, d) ==
  IF QueueFailed(m) = m
  THEN mem' = m /\ disk' = d
  ELSE \E outcome \in Outcomes : PersistFrom(m, d, QueueFailed(m), outcome)

\* Mutant: the service forgets that delivery is stopped.
StopsQueueOnly(d) ==
  /\ lifecycle' = "stopped"
  /\ StopQueueFrom(mem, d)
  /\ UNCHANGED circuit

\* A store write failed with disk left at d: delivery stops for safety.
StopDelivery(d) ==
  /\ circuit' = TRUE
  /\ lifecycle' = "stopped"
  /\ StopQueueFrom(mem, d)

\* With disk at d, the slot's event goes back to the inbox, or delivery stops.
ReturnToInbox(r, d) ==
  LET new == Retried(mem, r)
  IN  \/ /\ r \notin mem.queue
         /\ mem' = mem /\ disk' = d
         /\ backoff' = "running"
         /\ UNCHANGED <<circuit, lifecycle>>
      \/ /\ r \in mem.queue
         /\ PersistFrom(mem, d, new, "stored")
         /\ backoff' = "running"
         /\ UNCHANGED <<circuit, lifecycle>>
      \/ \E outcome \in Outcomes \ {"stored"} :
           /\ r \in mem.queue
           /\ StopDelivery(OnDisk(d, new, outcome))
           /\ UNCHANGED backoff

ResetSequence ==
  consecutive' = 0 /\ seen' = {} /\ starts' = [l \in Labels |-> 0]

\* Counts the model turn of the active event once.
CountStart(r) ==
  IF started
  THEN UNCHANGED pacing
  ELSE /\ consecutive' = consecutive + 1
       /\ IF r \in mem.queue
          THEN /\ seen' = seen \cup {LogicalRun[r]}
               /\ starts' = [starts EXCEPT ![LogicalRun[r]] = @ + 1]
          ELSE UNCHANGED <<seen, starts>>

SinceTakenIn(m, recorded) ==
  [r \in Runs |-> IF m.delivery[r] = "absent" THEN 0 ELSE recorded[r]]

\* What recording one message pushes out of the full ring: at most one
\* delivery.  Bound: CONVERSATION_ENTRIES outlast an open wake, so its own
\* answer is still there when it is acknowledged.
PushedOut == {{}} \cup {{r} : r \in replay \ (mem.queue \cup {active})}

\* An ordinary message is recorded; memory keeps it if the write fails.
RecordMessage ==
  \E out \in PushedOut, outcome \in Outcomes :
    /\ replay' = replay \ out
    /\ replayDisk' = OnDisk(replayDisk, replay', outcome)

Broadcast(r) ==
  shown' = IF surface THEN [shown EXCEPT ![r] = Lesser(@ + 1, 2)] ELSE shown

-----------------------------------------------------------------------------
(* dispatch_briefing_now, as called with the lock held. *)

Ready == /\ lifecycle = "idle" /\ ~turn /\ active = NoRun
         /\ agent /\ ~circuit

NothingWaits ==
  /\ Waiting(mem) = {}
  /\ ResetSequence
  /\ backoff' = "none"
  /\ UNCHANGED <<store, slot, circuit, lifecycle, agent>>

\* Mutant: the limit is exceeded once.
RepeatedLate(r) == consecutive > MaxConsecutive /\ LogicalRun[r] \in seen

Repeated(r) == consecutive >= MaxConsecutive /\ LogicalRun[r] \in seen

\* The runaway signature: the queue is stopped, and says so even if the stop
\* could not be stored.
OpenCircuit(r) ==
  /\ Repeated(r)
  /\ circuit' = TRUE
  /\ \E outcome \in Outcomes :
       /\ Persist(QueueFailed(mem), outcome)
       /\ lifecycle' = IF outcome = "stored" THEN lifecycle ELSE "stopped"
  /\ UNCHANGED <<slot, pacing, backoff, agent>>

ReservationFails(r) ==
  /\ ~Repeated(r)
  /\ \E outcome \in Outcomes \ {"stored"} :
       StopDelivery(OnDisk(disk, InProgress(mem, r), outcome))
  /\ UNCHANGED <<slot, pacing, backoff, agent>>

SendsUnstored(r) ==
  /\ ~Repeated(r)
  /\ mem' = InProgress(mem, r)
  /\ active' = r
  /\ started' = FALSE
  /\ backoff' = "none"
  /\ UNCHANGED <<disk, pacing, circuit, lifecycle, agent>>

SendWake(r) ==
  /\ ~Repeated(r)
  /\ Persist(InProgress(mem, r), "stored")
  /\ active' = r
  /\ started' = FALSE
  /\ backoff' = "none"
  /\ UNCHANGED <<pacing, circuit, lifecycle, agent>>

\* The reservation was stored and the agent turned out to be gone.
WakeNotSent(r) ==
  LET reserved == InProgress(mem, r)
  IN  /\ ~Repeated(r)
      /\ "gone" \in Sends
      /\ agent' = FALSE
      /\ \E outcome \in Outcomes :
           /\ PersistFrom(reserved, reserved, Retried(reserved, r), outcome)
           /\ IF outcome = "stored"
              THEN UNCHANGED <<circuit, lifecycle>>
              ELSE circuit' = TRUE /\ lifecycle' = "stopped"
      /\ UNCHANGED <<slot, pacing, backoff>>

DispatchNow ==
  IF Ready
  THEN \/ NothingWaits
       \/ \E r \in Runs : /\ IsNext(mem, r)
                          /\ \/ OpenCircuit(r)
                             \/ ReservationFails(r)
                             \/ SendWake(r)
                             \/ WakeNotSent(r)
  ELSE UNCHANGED <<store, slot, pacing, backoff, circuit, lifecycle, agent>>

\* A thread reaches dispatch_briefing: it dispatches, arms the one timer, or
\* leaves an armed timer alone.
Dispatch ==
  /\ owed > 0
  /\ owed' = owed - 1
  /\ IF Ready /\ backoff = "running"
     THEN /\ timer' = TRUE
          /\ UNCHANGED <<store, slot, pacing, backoff, circuit, lifecycle, agent>>
     ELSE DispatchNow /\ UNCHANGED timer
  /\ UNCHANGED <<canon, turn, acked, recordings, screen>>

\* The armed timer's thread wakes.  A deadline moved meanwhile is waited for
\* again.
TimerFires ==
  /\ timer
  /\ timer' = FALSE
  /\ IF backoff = "running"
     THEN /\ OweDispatch
          /\ UNCHANGED <<store, slot, pacing, backoff, circuit, lifecycle, agent>>
     ELSE DispatchNow /\ UNCHANGED owed
  /\ UNCHANGED <<canon, turn, acked, recordings, screen>>

BackoffElapses ==
  /\ backoff = "running"
  /\ backoff' = "over"
  /\ UNCHANGED <<store, canon, gates, slot, pacing, timer, circuit, owed,
                 acked, recordings, screen>>

-----------------------------------------------------------------------------
(* control_briefing: a producer reports a run. *)

\* Progress is quiet and a terminal report carries the wake, except that an
\* imported run is reported delivered without one.
CarriesWake(r, incoming) == r \notin Imported /\ incoming.collection # "collecting"

\* Mutant: a report does not notice the open circuit.
FinishesQueued(r, new, d) ==
  /\ mem' = new /\ disk' = d
  /\ acked' = (acked \cup {r}) \cap Retained(new)
  /\ OweDispatch

\* The report is in memory as new and on disk as d.  An open circuit stops
\* the new row too, before the producer is answered.
FinishReport(r, new, d) ==
  \/ /\ IF circuit THEN QueueFailed(new) = new ELSE TRUE
     /\ mem' = new /\ disk' = d
     /\ acked' = (acked \cup {r}) \cap Retained(new)
     /\ OweDispatch
  \/ \E outcome \in Outcomes :
       /\ circuit /\ QueueFailed(new) # new
       /\ PersistFrom(new, d, QueueFailed(new), outcome)
       /\ IF outcome = "stored"
          THEN acked' = (acked \cup {r}) \cap Retained(new) /\ OweDispatch
          ELSE acked' = acked \cap Retained(new) /\ UNCHANGED owed

Report(r, incoming) ==
  LET wake == CarriesWake(r, incoming)
      delivered == r \in Imported \/ (wake /\ r \in replay)
      new == Upserted(mem, r, incoming, wake, delivered)
  IN  /\ ~UpsertFull(mem, r, incoming, wake, delivered)
      /\ IF new = mem
         THEN FinishReport(r, mem, disk)
         ELSE \/ FinishReport(r, new, new)
              \/ \E outcome \in Outcomes \ {"stored"} :
                   Persist(new, outcome) /\ UNCHANGED <<acked, owed>>
      /\ recordings' = SinceTakenIn(mem', recordings)
      /\ UNCHANGED <<canon, gates, slot, pacing, backoff, timer, circuit, screen>>

-----------------------------------------------------------------------------
(* The agent channel. *)

AgentJoins(leased) ==
  /\ ~agent
  /\ agent' = TRUE
  /\ lifecycle' = IF leased THEN "idle" ELSE lifecycle
  /\ OweDispatch
  /\ UNCHANGED <<store, canon, turn, slot, pacing, backoff, timer, circuit,
                 acked, recordings, screen>>

\* agent_left: the connection closed, or a lease moved the agent.
AgentLeaves ==
  /\ agent
  /\ agent' = FALSE
  /\ started' = FALSE
  /\ active' = NoRun
  /\ IF active = NoRun
     THEN UNCHANGED <<store, backoff, circuit, lifecycle>>
     ELSE ReturnToInbox(active, disk)
  /\ UNCHANGED <<canon, turn, pacing, timer, owed, acked, recordings, screen>>

\* A send of any other message finds the outbox full or closed: send_agent
\* forgets the connection and nothing else.
AgentForgotten ==
  /\ "gone" \in Sends
  /\ agent
  /\ agent' = FALSE
  /\ UNCHANGED <<store, canon, lifecycle, turn, slot, pacing, backoff, timer,
                 circuit, owed, acked, recordings, screen>>

ProactiveStarted(r) ==
  /\ agent
  /\ active = r
  /\ CountStart(r)
  /\ started' = TRUE
  /\ UNCHANGED <<store, canon, gates, active, backoff, timer, circuit, owed,
                 acked, recordings, screen>>

\* The answer is in replay: acknowledge it, and only then show it.
AcknowledgeAnswer(r) ==
  \/ /\ r \in mem.queue
     /\ Persist(Acknowledged(mem, r), "stored")
     /\ active' = NoRun /\ started' = FALSE
     /\ Broadcast(r)
     /\ backoff' = "running"
     /\ OweDispatch
     /\ UNCHANGED circuit
  \/ \E outcome \in Outcomes \ {"stored"} :
       /\ r \in mem.queue
       /\ Persist(Acknowledged(mem, r), outcome)
       /\ started' = TRUE
       /\ UNCHANGED <<active, shown, backoff, circuit, owed>>
  \/ /\ r \notin mem.queue
     /\ active' = NoRun /\ started' = FALSE
     /\ circuit' = TRUE
     /\ StopQueueFrom(mem, disk)
     /\ OweDispatch
     /\ UNCHANGED <<shown, backoff>>

\* Mutant: the replay does not recognise a delivery it already has.
RecordsAgain(r) ==
  /\ replay' = replay \cup {r}
  /\ replayDisk' = replay'
  /\ recordings' = [recordings EXCEPT ![r] = @ + 1]

RecordAnswer(r) ==
  /\ r \notin replay
  /\ \E out \in PushedOut : replay' = (replay \ out) \cup {r}
  /\ replayDisk' = replay'
  /\ recordings' = [recordings EXCEPT ![r] = @ + 1]

AnswerNotRecorded(r) ==
  /\ r \notin replay
  /\ \E out \in PushedOut, outcome \in Outcomes \ {"stored"} :
       replayDisk' = OnDisk(replayDisk, (replay \ out) \cup {r}, outcome)
  /\ started' = TRUE
  /\ UNCHANGED <<replay, recordings, store, active, shown, backoff, circuit, owed>>

\* A response that carries the active event's correlation.
Response(r) ==
  /\ agent
  /\ active = r
  /\ CountStart(r)
  /\ \/ RecordAnswer(r) /\ AcknowledgeAnswer(r)
     \/ r \in replay /\ UNCHANGED <<canon, recordings>> /\ AcknowledgeAnswer(r)
     \/ AnswerNotRecorded(r)
  /\ UNCHANGED <<gates, timer, acked, surface>>

\* proactive_settled: the turn ended.  Either its answer is in replay and only
\* the acknowledgement is missing, or the event is tried again.
ProactiveSettled(r) ==
  /\ agent
  /\ active = r
  /\ active' = NoRun /\ started' = FALSE
  /\ OweDispatch
  /\ \/ /\ r \in replay \cap mem.queue
        /\ Persist(Recovered(mem, {r}), "stored")
        /\ Broadcast(r)
        /\ backoff' = "running"
        /\ UNCHANGED <<circuit, lifecycle>>
     \/ /\ r \notin replay \cap mem.queue
        /\ ReturnToInbox(r, disk)
        /\ UNCHANGED shown
     \/ \E outcome \in Outcomes \ {"stored"} :
        /\ r \in replay \cap mem.queue
        /\ ReturnToInbox(r, OnDisk(disk, Recovered(mem, {r}), outcome))
        /\ UNCHANGED shown
  /\ UNCHANGED <<canon, turn, agent, pacing, timer, acked, recordings, surface>>

-----------------------------------------------------------------------------
(* Owner turns, the lifecycle, surfaces, and the process itself. *)

\* owner_turn.  A surface may open one only while no briefing holds the slot;
\* a typed terminal turn is already in Pi and cannot be refused.
OwnerTurn(terminal) ==
  /\ agent
  /\ active = NoRun \/ terminal
  /\ turn' = TRUE
  /\ RecordMessage
  /\ \/ /\ ~circuit
        /\ ResetSequence
        /\ backoff' = "none"
        /\ UNCHANGED <<store, circuit, lifecycle>>
     \/ /\ circuit
        /\ IF ResumeStopped(mem) = mem THEN UNCHANGED store
                                       ELSE Persist(ResumeStopped(mem), "stored")
        /\ circuit' = FALSE
        /\ lifecycle' = IF lifecycle = "stopped" THEN "idle" ELSE lifecycle
        /\ ResetSequence
        /\ backoff' = "none"
     \/ \E outcome \in Outcomes \ {"stored"} :
          /\ circuit /\ ResumeStopped(mem) # mem
          /\ Persist(ResumeStopped(mem), outcome)
          /\ UNCHANGED <<circuit, lifecycle, pacing, backoff>>
  /\ UNCHANGED <<agent, slot, timer, owed, acked, recordings, screen>>

\* An answer without the slot's correlation: it closes the owner's turn if it
\* is the one that turn is owed.  dispatch_briefing is not called.
OtherAnswer ==
  /\ agent
  /\ RecordMessage
  /\ turn' \in {turn, FALSE}
  /\ UNCHANGED <<store, lifecycle, agent, slot, pacing, backoff, timer,
                 circuit, owed, acked, recordings, screen>>

\* A surface's accepted abort, or a lease taken from a working agent.
TurnAborts ==
  /\ turn
  /\ agent \/ lifecycle = "working"
  /\ turn' = FALSE
  /\ UNCHANGED <<store, canon, lifecycle, agent, slot, pacing, backoff, timer,
                 circuit, owed, acked, recordings, screen>>

\* What Pi's own events and the process supervision make of the lifecycle
\* (apply, start_agent, agent_ended, the lease).  Every handler that reports
\* the agent idle dispatches afterwards.
LifecycleMoves(to) ==
  /\ lifecycle' = to
  /\ IF to = "idle" THEN OweDispatch ELSE UNCHANGED owed
  /\ UNCHANGED <<store, canon, turn, agent, slot, pacing, backoff, timer,
                 circuit, acked, recordings, screen>>

\* Mutant: a surface joins the live broadcasts without the replay.
RegistersLive ==
  /\ Watched
  /\ surface' = TRUE
  /\ shown' = [r \in Runs |-> 0]
  /\ UNCHANGED <<store, canon, gates, slot, pacing, backoff, timer, circuit,
                 owed, acked, recordings>>

\* register_surface queues the whole replay before any live broadcast.
SurfaceRegisters ==
  /\ Watched
  /\ surface' = TRUE
  /\ shown' = [r \in Runs |-> IF r \in replay THEN 1 ELSE 0]
  /\ UNCHANGED <<store, canon, gates, slot, pacing, backoff, timer, circuit,
                 owed, acked, recordings>>

\* The process ends anywhere and Service::new reads both files back.
Restart ==
  LET opened == Reopened(disk)
      recovered == Recovered(opened, replayDisk)
  IN  /\ \E reopening \in Outcomes, recovering \in Outcomes :
           LET d == IF opened = disk THEN disk ELSE OnDisk(disk, opened, reopening)
           IN  IF opened.queue \cap replayDisk = {}
               THEN mem' = opened /\ disk' = d
               ELSE PersistFrom(opened, d, recovered, recovering)
      /\ replay' = replayDisk
      /\ recordings' = SinceTakenIn(mem', [r \in Runs |->
           IF r \in (replayDisk \ replay) \cap mem.queue
           THEN recordings[r] + 1 ELSE recordings[r]])
      /\ lifecycle' = "starting" /\ turn' = FALSE /\ agent' = FALSE
      /\ active' = NoRun /\ started' = FALSE
      /\ ResetSequence
      /\ backoff' = "none" /\ timer' = FALSE /\ circuit' = FALSE /\ owed' = 0
      /\ surface' = FALSE /\ shown' = [r \in Runs |-> 0]
      /\ acked' = acked \cap Retained(mem')
      /\ UNCHANGED replayDisk

Next ==
  \/ Dispatch
  \/ TimerFires
  \/ BackoffElapses
  \/ \E r \in Runs, a \in Incoming : Report(r, a)
  \/ \E leased \in BOOLEAN : AgentJoins(leased)
  \/ AgentLeaves
  \/ AgentForgotten
  \/ \E r \in Runs : \/ ProactiveStarted(r)
                     \/ Response(r)
                     \/ ProactiveSettled(r)
  \/ \E terminal \in BOOLEAN : OwnerTurn(terminal)
  \/ OtherAnswer
  \/ TurnAborts
  \/ \E to \in Lifecycles \ {"stopped"} : LifecycleMoves(to)
  \/ SurfaceRegisters
  \/ Restart

Spec == Init /\ [][Next]_vars

-----------------------------------------------------------------------------
\* A queued event that holds the slot is in progress, and one that a producer
\* report closed meanwhile has its answer in the replay; an open circuit holds
\* no slot.
SlotBacked ==
  /\ active # NoRun => IF active \in mem.queue
                       THEN mem.delivery[active] = "in_progress"
                       ELSE active \in replay
  /\ circuit => active = NoRun

\* No row is left in progress with nobody to finish or retry it: it would be
\* skipped by every later dispatch.
NoStrandedRow ==
  \A r \in Runs : mem.delivery[r] = "in_progress" => active = r \/ circuit

\* The slot and the inbox tell the same story, in both directions: what the
\* slot carries has its row or its answer, and what a row says is under way is
\* in the slot.
SlotMatchesAudit == SlotBacked /\ NoStrandedRow

\* "The row is stored as in progress before the wake crosses the volatile
\* agent connection": a crash while the model works finds it on disk.
ReservationDurable ==
  active \in mem.queue => disk.delivery[active] \in {"in_progress", "delivered"}

\* A run whose report was acknowledged survives a crash at any point: disk
\* still owes its answer, has it, or waits for its terminal report.  The one
\* exception is a row the bounded audit dropped in a write whose directory
\* sync then failed.
AcknowledgedIsDurable ==
  \A r \in acked : \/ r \in disk.queue
                   \/ disk.delivery[r] = "delivered"
                   \/ /\ disk.account[r].collection = "collecting"
                      /\ disk.delivery[r] # "absent"
                   \/ disk.delivery[r] = "absent" /\ Evictable(mem, r)

\* Retries, duplicate reports, late responses and restarts record one answer,
\* for as long as the bounded audit keeps the row.
AnswerRecordedOnce == \A r \in Runs : recordings[r] <= 1

\* A wake queued on disk is closed there only once disk holds its answer:
\* whatever write fails and wherever the process dies, no briefing is closed
\* unanswered.
AnsweredBeforeClosed ==
  [][\A r \in disk.queue : disk'.delivery[r] = "delivered" => r \in replayDisk']_vars

\* One logical run never gets more than MaxConsecutive model turns in a
\* sequence, whatever order runs of several labels arrive in.
RunawayBounded == \A l \in Labels : starts[l] <= MaxConsecutive

\* Why SlotBacked, NoStrandedRow and RunawayBounded hold.  A queued wake is owed
\* its answer, in memory and on disk: its row is not closed and its run is no
\* imported one, so a report can take it out of a slot only with the answer in
\* the replay.
Owed(s) == \A r \in s.queue : /\ r \notin Imported
                              /\ s.delivery[r] \in {"pending", "in_progress", "failed"}
SlotInv ==
  /\ Owed(mem) /\ Owed(disk)
  /\ SlotBacked /\ NoStrandedRow
  /\ \A r \in Runs : mem.delivery[r] = "in_progress" => r \in mem.queue

\* A turn still to be counted was dispatched below the limit or for a label new
\* to the sequence, and a label is counted only once it was seen.
PacingInv ==
  /\ active # NoRun /\ ~started =>
       consecutive < MaxConsecutive \/ LogicalRun[active] \notin seen
  /\ \A l \in Labels : /\ starts[l] > 0 => l \in seen
                       /\ starts[l] <= consecutive
                       /\ starts[l] <= MaxConsecutive
IInv == TypeOK /\ SlotInv /\ PacingInv

\* While delivery is stopped every queued row says so, the ones that were
\* reported after the stop included.  (With a store that takes every write.)
StoppedRowsSaySo == circuit => \A r \in mem.queue : mem.delivery[r] = "failed"

\* "These do not produce a second visible answer": between its registration
\* and its end a surface is shown an answer at most once, the replay included.
ShownAtMostOnce == \A r \in Runs : shown[r] <= 1

\* A surface that is registered when a briefing is closed has its answer.
ShownWhenDelivered ==
  surface => \A r \in replay \ {active} :
               mem.delivery[r] = "delivered" => shown[r] >= 1

\* A reserved slot has a connected agent to settle it; without one every
\* owner message is refused until some later agent leaves.
SlotHasAgent == active # NoRun => agent
=============================================================================
