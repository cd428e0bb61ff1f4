----------------------------- MODULE AgentLease -----------------------------
(****************************************************************************)
(* Which process is the agent (host/service/src/service.rs, agent.rs): the  *)
(* supervision of the managed child, the terminal lease that takes the      *)
(* agent away from it, and the agent channel both are admitted on.          *)
(*                                                                          *)
(* Four kinds of thread meet here: the control connection that takes a      *)
(* lease, the reader of each child's stdout, the threads on their way to    *)
(* start_agent, and the main thread that shuts the service down.  Each      *)
(* drops the lock while it stops a child, waits for a turn to settle or     *)
(* sleeps, and takes it again; every such gap is a step boundary.  A child  *)
(* is named by the process generation it was started as.                    *)
(****************************************************************************)
EXTENDS Naturals

CONSTANTS
  Conns,        \* control connections that may ask for the lease
  MaxGen,       \* bound: process generations, so starts and grants together
  MaxFailures,  \* MAX_FAILURES
  EarlyEof      \* whether a child's stdout can end while the child lives

ASSUME GenAssumption == MaxGen \in Nat /\ MaxFailures \in Nat \ {0}
ASSUME EofAssumption == EarlyEof \in BOOLEAN

Gens == 1..MaxGen
NoGen == 0
NoLease == [gen |-> NoGen]
NoAgent == [joined |-> FALSE, lease |-> NoGen]

VARIABLES
  process,    \* the child Inner holds, or None
  procGen, lifecycle, failures, stopping,
  lease, leaseGen,
  agent,      \* the admitted connection, and the lease its hello named
  alive,      \* children whose process exists
  reader,     \* the stdout reader of each child
  control,    \* the thread of each control connection
  starters,   \* threads about to call start_agent
  main        \* the main thread: serving, stopping a child, or exited

supervision == <<process, procGen, failures>>
leasing == <<lease, leaseGen>>
threads == <<reader, control, starters, main>>
leaseVars == <<supervision, lifecycle, stopping, leasing, agent, alive, threads>>

\* "stopped" is Lifecycle::Failed with the briefing circuit as its detail.
Lifecycles == {"starting", "working", "idle", "failed", "stopped"}
Failures == {"failed", "stopped"}
Child == Gens \cup {NoGen}

ReaderState ==
  [pc : {"none", "booting", "reading", "stopping", "stopped", "done"},
   child : Child, quiet : BOOLEAN]
ControlState ==
  [pc : {"idle", "settling", "stopping", "answered"}, child : Child, gen : Child]

LeaseTypeOK ==
  /\ process \in Child /\ procGen \in 0..MaxGen
  /\ lifecycle \in Lifecycles /\ failures \in Nat /\ stopping \in BOOLEAN
  /\ lease \in {NoLease} \cup [gen : Gens, conn : Conns]
  /\ leaseGen \in 0..procGen
  /\ agent \in [joined : BOOLEAN, lease : Child]
  /\ alive \subseteq Gens
  /\ reader \in [Gens -> ReaderState]
  /\ control \in [Conns -> ControlState]
  /\ starters \in Nat
  /\ main \in [pc : {"serving", "stopping", "exited"}, child : Child]

LeaseInit ==
  /\ process = NoGen /\ procGen = 0 /\ failures = 0
  /\ lifecycle = "starting" /\ stopping = FALSE
  /\ lease = NoLease /\ leaseGen = 0
  /\ agent = NoAgent /\ alive = {}
  /\ reader = [g \in Gens |-> [pc |-> "none", child |-> NoGen, quiet |-> FALSE]]
  /\ control = [c \in Conns |-> [pc |-> "idle", child |-> NoGen, gen |-> NoGen]]
  /\ starters = 1        \* main calls start_agent once
  /\ main = [pc |-> "serving", child |-> NoGen]

Running == main.pc # "exited"
Leased == lease # NoLease

\* Agent::stop says goodbye, then signals, and returns only once the child is
\* gone.
Stopped(child) == child \notin alive
BeingStopped(g) ==
  \/ main.pc = "stopping" /\ main.child = g
  \/ \E c \in Conns : control[c].pc = "stopping" /\ control[c].child = g
  \/ \E h \in Gens : reader[h].pc = "stopping" /\ reader[h].child = g

-----------------------------------------------------------------------------
(* The managed child. *)

\* Mutants: start_agent without one of its guards.
StartsBesideChild == ~stopping /\ ~Leased
StartsUnderLease == ~stopping /\ process = NoGen

MayStart == ~stopping /\ process = NoGen /\ ~Leased

\* start_agent.
StartAgent ==
  /\ Running /\ starters > 0
  /\ starters' = starters - 1
  /\ \/ /\ ~MayStart
        /\ UNCHANGED <<supervision, lifecycle, alive, reader>>
     \/ /\ MayStart /\ procGen < MaxGen
        /\ procGen' = procGen + 1
        /\ \/ /\ process' = procGen'
              /\ alive' = alive \cup {procGen'}
              /\ reader' = [reader EXCEPT ![procGen'].pc = "booting"]
              /\ lifecycle' = "starting"
              /\ UNCHANGED failures
           \/ \* The agent would not start, and nothing retries.
              /\ failures' = failures + 1
              /\ lifecycle' = "failed"
              /\ UNCHANGED <<process, alive, reader>>
  /\ UNCHANGED <<stopping, leasing, agent, control, main>>

ChildDies(g) ==
  /\ Running /\ g \in alive
  /\ alive' = alive \ {g}
  /\ UNCHANGED <<supervision, lifecycle, stopping, leasing, agent, threads>>

Reading(g) == reader[g].pc \in {"booting", "reading"}

\* apply: what a child wrote, read by its own reader however late.
ChildEvent(g, to) ==
  /\ Running /\ Reading(g)
  /\ lifecycle' = to
  /\ UNCHANGED <<supervision, stopping, leasing, agent, alive, threads>>

\* The one answer to the boot command also ends a run of failures.
ChildBooted(g, to) ==
  /\ Running /\ reader[g].pc = "booting"
  /\ reader' = [reader EXCEPT ![g].pc = "reading"]
  /\ lifecycle' = to
  /\ failures' = IF to = "failed" THEN failures ELSE 0
  /\ UNCHANGED <<process, procGen, stopping, leasing, agent, alive, control,
                 starters, main>>

\* agent_ended up to its first unlock: a stale reader stops here, another one
\* takes the child to stop it.
ReaderEnds(g) ==
  /\ Running /\ Reading(g)
  /\ g \notin alive \/ EarlyEof
  /\ IF procGen # g
     THEN /\ reader' = [reader EXCEPT ![g].pc = "done"]
          /\ UNCHANGED process
     ELSE /\ reader' = [reader EXCEPT ![g] = [pc |-> "stopping", child |-> process,
                                              quiet |-> stopping]]
          /\ process' = NoGen
  /\ UNCHANGED <<procGen, failures, lifecycle, stopping, leasing, agent, alive,
                 control, starters, main>>

ReaderStopsChild(g) ==
  /\ Running /\ reader[g].pc = "stopping"
  /\ Stopped(reader[g].child)
  /\ reader' = [reader EXCEPT ![g] = [pc |-> IF @.quiet THEN "done" ELSE "stopped",
                                      child |-> NoGen, quiet |-> @.quiet]]
  /\ UNCHANGED <<supervision, lifecycle, stopping, leasing, agent, alive,
                 control, starters, main>>

\* agent_ended from its second lock: count the failure, and restart after a
\* delay or give up.
ReaderCounts(g) ==
  /\ Running /\ reader[g].pc = "stopped"
  /\ reader' = [reader EXCEPT ![g].pc = "done"]
  /\ \E healthy \in BOOLEAN :
       failures' = IF healthy THEN 1 ELSE failures + 1
  /\ IF failures' >= MaxFailures
     THEN lifecycle' = "failed" /\ UNCHANGED starters
     ELSE lifecycle' = "starting" /\ starters' = starters + 1
  /\ UNCHANGED <<process, procGen, stopping, leasing, agent, alive, control, main>>

-----------------------------------------------------------------------------
\* The part of control_lease_acquire from the grant to its unlock.
Grant(c) ==
  /\ procGen < MaxGen
  /\ leaseGen' = leaseGen + 1
  /\ lease' = [gen |-> leaseGen', conn |-> c]
  /\ procGen' = procGen + 1
  /\ process' = NoGen
  /\ agent' = NoAgent
  /\ lifecycle' = "starting"
  /\ control' = [control EXCEPT ![c] = [pc |-> "stopping", child |-> process,
                                        gen |-> leaseGen']]
  /\ UNCHANGED <<failures, stopping, alive, reader, starters, main>>

\* control_lease_acquire.  Every refusal leaves the state as it is, and so
\* does a repeated request of the holder.
Acquire(c) ==
  /\ Running /\ control[c].pc \in {"idle", "answered"}
  /\ ~stopping /\ ~Leased /\ lifecycle \notin Failures \cup {"working"}
  /\ Grant(c)

\* A turn is running and the caller asked to abort it: wait without the lock.
AcquireAborting(c) ==
  /\ Running /\ control[c].pc \in {"idle", "answered"}
  /\ ~stopping /\ ~Leased /\ lifecycle = "working"
  /\ control' = [control EXCEPT ![c] = [pc |-> "settling", child |-> NoGen,
                                        gen |-> NoGen]]
  /\ UNCHANGED <<supervision, lifecycle, stopping, leasing, agent, alive,
                 reader, starters, main>>

\* The turn settled, or ABORT_SETTLE ran out.
SettleWaited(c) ==
  /\ Running /\ control[c].pc = "settling"
  /\ \/ /\ stopping \/ Leased
        /\ control' = [control EXCEPT ![c].pc = "idle"]
        /\ UNCHANGED <<supervision, lifecycle, stopping, leasing, agent, alive,
                       reader, starters, main>>
     \/ /\ ~stopping /\ ~Leased
        /\ Grant(c)

\* Mutant: the reply does not wait for the child.
AnswersEarly(c) ==
  /\ Running /\ control[c].pc = "stopping"
  /\ control' = [control EXCEPT ![c] = [pc |-> "answered", child |-> NoGen,
                                        gen |-> @.gen]]
  /\ UNCHANGED <<supervision, lifecycle, stopping, leasing, agent, alive,
                 reader, starters, main>>

\* The child is stopped and reaped; the reply is the permission to connect.
LeaseAnswered(c) ==
  /\ Running /\ control[c].pc = "stopping"
  /\ Stopped(control[c].child)
  /\ control' = [control EXCEPT ![c] = [pc |-> "answered", child |-> NoGen,
                                        gen |-> @.gen]]
  /\ UNCHANGED <<supervision, lifecycle, stopping, leasing, agent, alive,
                 reader, starters, main>>

\* Mutant: nothing is started when the lease ends.
EndsDetached(c) ==
  /\ Running /\ Leased /\ lease.conn = c /\ control[c].pc = "answered"
  /\ lease' = NoLease
  /\ agent' = IF agent.lease = lease.gen THEN NoAgent ELSE agent
  /\ lifecycle' = "starting"
  /\ UNCHANGED <<supervision, stopping, leaseGen, alive, reader, control,
                 starters, main>>

\* end_lease up to its unlock: a release, the connection closing, or the
\* heartbeat deadline, once the reply is out.
EndLease(c) ==
  /\ Running /\ Leased /\ lease.conn = c /\ control[c].pc = "answered"
  /\ lease' = NoLease
  /\ agent' = IF agent.lease = lease.gen THEN NoAgent ELSE agent
  /\ lifecycle' = "starting"
  /\ starters' = starters + 1
  /\ UNCHANGED <<supervision, stopping, leaseGen, alive, reader, control, main>>

\* The control connection closes without the lease; its name is free again.
ControlCloses(c) ==
  /\ Running /\ control[c].pc = "answered"
  /\ Leased => lease.conn # c
  /\ control' = [control EXCEPT ![c] = [pc |-> "idle", child |-> NoGen,
                                        gen |-> NoGen]]
  /\ UNCHANGED <<supervision, lifecycle, stopping, leasing, agent, alive,
                 reader, starters, main>>

-----------------------------------------------------------------------------
(* The agent channel. *)

\* Mutant: a child's hello is admitted under a lease.
ChildJoinsAnyway ==
  /\ Running /\ \E g \in Gens : reader[g].pc # "none"
  /\ agent = NoAgent
  /\ agent' = [joined |-> TRUE, lease |-> NoGen]
  /\ UNCHANGED <<supervision, lifecycle, stopping, leasing, alive, threads>>

\* admit_agent for a hello that names no lease; a child may be gone by the
\* time its hello is read.
ChildJoins ==
  /\ Running /\ \E g \in Gens : reader[g].pc # "none"
  /\ ~Leased /\ agent = NoAgent
  /\ agent' = [joined |-> TRUE, lease |-> NoGen]
  /\ UNCHANGED <<supervision, lifecycle, stopping, leasing, alive, threads>>

\* admit_agent for a hello that names the generation its control connection
\* was answered with, which may have ended since.
TerminalJoins(c) ==
  /\ Running /\ control[c].pc = "answered"
  /\ Leased /\ lease.gen = control[c].gen /\ agent = NoAgent
  /\ agent' = [joined |-> TRUE, lease |-> lease.gen]
  /\ lifecycle' = "idle"
  /\ UNCHANGED <<supervision, stopping, leasing, alive, threads>>

\* agent.activity: any agent may report it, and for a terminal nothing else does.
Activity(to) ==
  /\ Running /\ agent.joined
  /\ lifecycle \notin Failures
  /\ lifecycle' = to
  /\ UNCHANGED <<supervision, stopping, leasing, agent, alive, threads>>

\* unregister_agent: the admitted connection closed.
AgentCloses ==
  /\ Running /\ agent # NoAgent
  /\ agent' = NoAgent
  /\ UNCHANGED <<supervision, lifecycle, stopping, leasing, alive, threads>>

-----------------------------------------------------------------------------
(* What ProactiveDelivery does to the lifecycle they share. *)

\* The briefing circuit opens: a repeat, a store or a send that failed.
BriefingsStop ==
  /\ Running /\ lifecycle # "stopped"
  /\ lifecycle' = "stopped"
  /\ UNCHANGED <<supervision, stopping, leasing, agent, alive, threads>>

\* owner_turn closes it again, which takes a connected agent.
OwnerResumes ==
  /\ Running /\ agent.joined /\ lifecycle = "stopped"
  /\ lifecycle' = "idle"
  /\ UNCHANGED <<supervision, stopping, leasing, agent, alive, threads>>

-----------------------------------------------------------------------------
(* shutdown. *)

Shutdown ==
  /\ main.pc = "serving"
  /\ stopping' = TRUE
  /\ lease' = NoLease
  /\ process' = NoGen
  /\ main' = [pc |-> "stopping", child |-> process]
  /\ UNCHANGED <<procGen, failures, lifecycle, leaseGen, agent, alive, reader,
                 control, starters>>

Exit ==
  /\ main.pc = "stopping"
  /\ Stopped(main.child)
  /\ main' = [pc |-> "exited", child |-> NoGen]
  /\ UNCHANGED <<supervision, lifecycle, stopping, leasing, agent, alive, reader,
                 control, starters>>

LeaseNext ==
  \/ StartAgent
  \/ \E g \in Gens : \/ ChildDies(g)
                     \/ \E to \in {"working", "idle"} : ChildEvent(g, to)
                     \/ \E to \in {"working", "idle", "failed"} : ChildBooted(g, to)
                     \/ ReaderEnds(g)
                     \/ ReaderStopsChild(g)
                     \/ ReaderCounts(g)
  \/ \E c \in Conns : \/ Acquire(c)
                      \/ AcquireAborting(c)
                      \/ SettleWaited(c)
                      \/ LeaseAnswered(c)
                      \/ EndLease(c)
                      \/ ControlCloses(c)
                      \/ TerminalJoins(c)
  \/ \E to \in {"working", "idle"} : Activity(to)
  \/ BriefingsStop
  \/ OwnerResumes
  \/ ChildJoins
  \/ AgentCloses
  \/ Shutdown
  \/ Exit

\* The threads of the service run: none stays forever before a step it can
\* take, and a child that is being stopped is killed in the end.  Nothing is
\* assumed of other children, of terminals or of signals.
LeaseFairness ==
  /\ WF_leaseVars(StartAgent)
  /\ \A g \in Gens : /\ WF_leaseVars(g \notin alive /\ ReaderEnds(g))
                     /\ WF_leaseVars(BeingStopped(g) /\ ChildDies(g))
                     /\ WF_leaseVars(ReaderStopsChild(g))
                     /\ WF_leaseVars(ReaderCounts(g))
  /\ \A c \in Conns : WF_leaseVars(SettleWaited(c)) /\ WF_leaseVars(LeaseAnswered(c))
  /\ WF_leaseVars(Exit)

LeaseSpec == LeaseInit /\ [][LeaseNext]_leaseVars
FairLeaseSpec == LeaseSpec /\ LeaseFairness

-----------------------------------------------------------------------------
\* "One child at a time."
OneChild == \A g, h \in alive : g = h

\* The answer to lease_acquire is the permission to connect: from then on and
\* while the lease lives, no managed child holds the session.
TerminalAnswered == Leased /\ control[lease.conn].pc = "answered"
TerminalAlone == TerminalAnswered => alive = {}

\* The session changes hands as SessionOwner says: between a managed child and
\* a terminal lies a moment with neither, in both directions.
SessionHolder == IF TerminalAnswered THEN "terminal"
                 ELSE IF alive # {} THEN "managed" ELSE "nobody"
Owner == INSTANCE SessionOwner WITH owner <- SessionHolder
OneOwner == Owner!Spec

\* The agent channel is fenced by the live lease: while one is held only the
\* terminal it was granted to is admitted, and without one no terminal is.
AgentFenced ==
  agent # NoAgent => IF Leased THEN agent.lease = lease.gen
                               ELSE agent.lease = NoGen \/ stopping

\* The service holds no child while a terminal holds the lease, so its
\* supervision restarts nothing behind the terminal's back.
NoChildUnderLease == Leased => process = NoGen

\* Why the four above hold.  A live child always has someone who will wait for
\* it: Inner, the control thread that took it for a lease, or the main thread.
\* Only the thread of the live lease can be taking one, and a stopping service
\* has handed out its child and its lease for good.
ChildHeld ==
  \A g \in alive :
    \/ process = g
    \/ \E c \in Conns : control[c].pc = "stopping" /\ control[c].child = g
    \/ main.pc = "stopping" /\ main.child = g
StopsUnderLease ==
  \A c \in Conns : control[c].pc = "stopping" => stopping \/ (Leased /\ lease.conn = c)
StoppingIsFinal ==
  /\ stopping <=> main.pc # "serving"
  /\ stopping => ~Leased /\ process = NoGen
LeaseInv ==
  /\ LeaseTypeOK /\ OneChild /\ AgentFenced /\ NoChildUnderLease
  /\ ChildHeld /\ StopsUnderLease /\ StoppingIsFinal
  /\ process # NoGen => process = procGen

\* "There is no way to be left detached with nothing to put the agent back":
\* unless a failure is ever reported, a service with neither child nor lease
\* always comes by one again, whichever thread was meant to bring it.
Detached == process = NoGen /\ ~Leased /\ ~stopping /\ procGen < MaxGen
SomeAgentReturns == <>(lifecycle \in Failures) \/ []<>~Detached

\* "A new process generation makes the child's reader thread stale, so its
\* exit is not the failure that restarts it."
StaleReaderCountsNothing ==
  [][\A g \in Gens : reader[g].pc = "stopped" /\ reader'[g].pc = "done"
                       => procGen = g]_leaseVars

\* "A service that has stopped restarting its agent is not a service a
\* terminal should quietly stand in for."
GrantHidesNoFailure ==
  [][~Leased /\ lease' # NoLease => lifecycle \notin Failures]_leaseVars

\* "the agent is stopped and the socket is removed before the process goes"
NoOrphan == main.pc = "exited" => alive = {}
=============================================================================
