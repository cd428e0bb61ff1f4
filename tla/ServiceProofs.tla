---------------------------- MODULE ServiceProofs ----------------------------
(****************************************************************************)
(* The service's agent and its conversation.                                *)
(*                                                                          *)
(* First the safety of the agent's supervision for any number of control    *)
(* connections, process generations and failures.  That the channel is      *)
(* fenced and no child is supervised behind a lease holds whatever a child  *)
(* does; that there is one child, and that a terminal is alone, as long as  *)
(* its stdout ends only with it (EarlyEof is FALSE: with TRUE, TLC starts   *)
(* one child beside another).                                               *)
(*                                                                          *)
(* Then the feed, for any surfaces, connections, words, faults and bounds:  *)
(* an offer is worked once.  Last the conversation window on it: whatever   *)
(* the window does is a step of the feed, and its composer waits only for   *)
(* an answer that can come.                                                 *)
(****************************************************************************)
EXTENDS AgentLease, HudComposer, TLAPS

\* A fresh service (Service::new) satisfies the invariant.
LEMMA InitInvariant == LeaseInit => LeaseInv
  <1> SUFFICES ASSUME LeaseInit PROVE LeaseInv
    OBVIOUS
  <1>1. LeaseTypeOK
    <2>1. /\ process \in Child /\ procGen \in 0..MaxGen /\ leaseGen \in 0..procGen
          /\ lifecycle \in Lifecycles /\ failures \in Nat /\ starters \in Nat
      BY GenAssumption DEF LeaseInit, Child, NoGen, Lifecycles
    <2>2. stopping \in BOOLEAN /\ alive \subseteq Gens
      BY DEF LeaseInit
    <2>3. lease \in {NoLease} \cup [gen : Gens, conn : Conns]
      BY DEF LeaseInit
    <2>4. agent \in [joined : BOOLEAN, lease : Child]
      BY DEF LeaseInit, NoAgent, Child
    <2>5. reader \in [Gens -> ReaderState]
      BY DEF LeaseInit, Child, ReaderState
    <2>6. control \in [Conns -> ControlState]
      BY DEF LeaseInit, Child, ControlState
    <2>7. main \in [pc : {"serving", "stopping", "exited"}, child : Child]
      BY DEF LeaseInit, Child
    <2> QED
      BY <2>1, <2>2, <2>3, <2>4, <2>5, <2>6, <2>7 DEF LeaseTypeOK
  <1>2. OneChild /\ AgentFenced /\ NoChildUnderLease
    BY DEF LeaseInit, OneChild, AgentFenced, NoChildUnderLease, Leased, NoLease
  <1>3. ChildHeld /\ StopsUnderLease /\ StoppingIsFinal
    BY DEF LeaseInit, ChildHeld, StopsUnderLease, StoppingIsFinal
  <1> QED
    BY <1>1, <1>2, <1>3 DEF LeaseInv, LeaseInit

\* Every step keeps the types.
LEMMA TypeStep == LeaseTypeOK /\ [LeaseNext]_leaseVars => LeaseTypeOK'
  <1> SUFFICES ASSUME LeaseTypeOK, [LeaseNext]_leaseVars PROVE LeaseTypeOK'
    OBVIOUS
  <1> USE GenAssumption DEF LeaseTypeOK, Child, Gens, NoGen, Lifecycles, supervision, leasing,
          threads
  <1>1. CASE StartAgent
    <2>1. procGen < MaxGen => procGen + 1 \in 1..MaxGen
      OBVIOUS
    <2>2. reader' \in [Gens -> ReaderState]
      <3>1. CASE UNCHANGED reader
        BY <3>1
      <3>2. CASE procGen < MaxGen /\ reader' = [reader EXCEPT ![procGen + 1].pc = "booting"]
        <4>1. reader[procGen + 1] \in ReaderState
          BY <2>1, <3>2
        <4>2. [reader[procGen + 1] EXCEPT !.pc = "booting"] \in ReaderState
          BY <4>1 DEF ReaderState
        <4> QED
          BY <2>1, <3>2, <4>2
      <3> QED
        BY <1>1, <3>1, <3>2 DEF StartAgent, MayStart
    <2> QED
      BY <1>1, <2>1, <2>2 DEF StartAgent, MayStart
  <1>2. ASSUME NEW g \in Gens, ChildDies(g) PROVE LeaseTypeOK'
    BY <1>2 DEF ChildDies
  <1>3. ASSUME NEW g \in Gens, NEW to \in {"working", "idle"}, ChildEvent(g, to)
        PROVE LeaseTypeOK'
    BY <1>3 DEF ChildEvent
  <1>4. ASSUME NEW g \in Gens, NEW to \in {"working", "idle", "failed"},
               ChildBooted(g, to)
        PROVE LeaseTypeOK'
    <2>1. [reader[g] EXCEPT !.pc = "reading"] \in ReaderState
      BY SMTT(60) DEF ReaderState
    <2>2. reader' \in [Gens -> ReaderState]
      BY <1>4, <2>1 DEF ChildBooted
    <2> QED
      BY <1>4, <2>2, SMTT(60) DEF ChildBooted
  <1>5. ASSUME NEW g \in Gens, ReaderEnds(g) PROVE LeaseTypeOK'
    <2>1. /\ [reader[g] EXCEPT !.pc = "done"] \in ReaderState
          /\ [pc |-> "stopping", child |-> process, quiet |-> stopping] \in ReaderState
      BY DEF ReaderState
    <2>2. reader' \in [Gens -> ReaderState]
      BY <1>5, <2>1 DEF ReaderEnds
    <2> QED
      BY <1>5, <2>2 DEF ReaderEnds
  <1>6. ASSUME NEW g \in Gens, ReaderStopsChild(g) PROVE LeaseTypeOK'
    <2>1. [pc |-> IF reader[g].quiet THEN "done" ELSE "stopped", child |-> NoGen,
           quiet |-> reader[g].quiet] \in ReaderState
      BY DEF ReaderState
    <2>2. reader' \in [Gens -> ReaderState]
      BY <1>6, <2>1 DEF ReaderStopsChild
    <2> QED
      BY <1>6, <2>2, SMTT(60) DEF ReaderStopsChild
  <1>7. ASSUME NEW g \in Gens, ReaderCounts(g) PROVE LeaseTypeOK'
    <2>1. [reader[g] EXCEPT !.pc = "done"] \in ReaderState
      BY DEF ReaderState
    <2>2. reader' \in [Gens -> ReaderState]
      BY <1>7, <2>1 DEF ReaderCounts
    <2> QED
      BY <1>7, <2>2, SMTT(60) DEF ReaderCounts
  <1>8. ASSUME NEW c \in Conns, Grant(c) PROVE LeaseTypeOK'
    <2>1. leaseGen + 1 \in Gens /\ procGen + 1 \in 0..MaxGen /\ leaseGen + 1 \in 0..(procGen + 1)
      BY <1>8 DEF Grant
    <2>2. [pc |-> "stopping", child |-> process, gen |-> leaseGen + 1] \in ControlState
      BY <2>1 DEF ControlState
    <2>3. control' \in [Conns -> ControlState]
      BY <1>8, <2>2 DEF Grant
    <2>4. lease' \in [gen : Gens, conn : Conns] /\ agent' \in [joined : BOOLEAN, lease : Child]
      BY <1>8, <2>1 DEF Grant, NoAgent
    <2> QED
      BY <1>8, <2>1, <2>3, <2>4 DEF Grant
  <1>9. ASSUME NEW c \in Conns, AcquireAborting(c) PROVE LeaseTypeOK'
    BY <1>9 DEF AcquireAborting, ControlState
  <1>10. ASSUME NEW c \in Conns, SettleWaited(c), ~Grant(c) PROVE LeaseTypeOK'
    <2>1. [control[c] EXCEPT !.pc = "idle"] \in ControlState
      BY SMTT(60) DEF ControlState
    <2>2. control' \in [Conns -> ControlState]
      BY <1>10, <2>1 DEF SettleWaited
    <2> QED
      BY <1>10, <2>2 DEF SettleWaited
  <1>11. ASSUME NEW c \in Conns, LeaseAnswered(c) PROVE LeaseTypeOK'
    <2>1. [pc |-> "answered", child |-> NoGen, gen |-> control[c].gen] \in ControlState
      BY DEF ControlState
    <2>2. control' \in [Conns -> ControlState]
      BY <1>11, <2>1 DEF LeaseAnswered
    <2> QED
      BY <1>11, <2>2 DEF LeaseAnswered
  <1>12. ASSUME NEW c \in Conns, EndLease(c) PROVE LeaseTypeOK'
    BY <1>12 DEF EndLease, NoAgent
  <1>13. ASSUME NEW c \in Conns, ControlCloses(c) PROVE LeaseTypeOK'
    BY <1>13 DEF ControlCloses, ControlState
  <1>14. ASSUME NEW c \in Conns, TerminalJoins(c) PROVE LeaseTypeOK'
    BY <1>14 DEF TerminalJoins, Leased
  <1>15. ASSUME NEW to \in {"working", "idle"}, Activity(to) PROVE LeaseTypeOK'
    BY <1>15 DEF Activity
  <1>16. CASE BriefingsStop \/ OwnerResumes
    BY <1>16 DEF BriefingsStop, OwnerResumes
  <1>17. CASE ChildJoins \/ AgentCloses
    <2>1. [joined |-> TRUE, lease |-> NoGen] \in [joined : BOOLEAN, lease : Child]
      OBVIOUS
    <2>2. NoAgent \in [joined : BOOLEAN, lease : Child]
      BY DEF NoAgent
    <2> QED
      BY <1>17, <2>1, <2>2 DEF ChildJoins, AgentCloses
  <1>18. CASE Shutdown \/ Exit
    <2>1. main' \in [pc : {"serving", "stopping", "exited"}, child : Child]
      BY <1>18 DEF Shutdown, Exit
    <2> QED
      BY <1>18, <2>1 DEF Shutdown, Exit
  <1>19. CASE UNCHANGED leaseVars
    BY <1>19 DEF leaseVars
  <1> QED
    <2> HIDE DEF LeaseTypeOK
    <2> QED
      BY <1>1, <1>2, <1>3, <1>4, <1>5, <1>6, <1>7, <1>8, <1>9, <1>10, <1>11, <1>12,
         <1>13, <1>14, <1>15, <1>16, <1>17, <1>18, <1>19 DEF LeaseNext, Acquire, Gens

\* Who may speak for the agent depends on the lease, the generation handed out
\* with it and the shutdown alone, and not on which processes live: every step
\* keeps it, a child whose stdout ends early included.
Fence == LeaseTypeOK /\ AgentFenced /\ NoChildUnderLease /\ StoppingIsFinal

LEMMA FenceStep == Fence /\ [LeaseNext]_leaseVars => Fence'
  <1> SUFFICES ASSUME Fence, [LeaseNext]_leaseVars PROVE Fence'
    OBVIOUS
  <1>t. LeaseTypeOK /\ LeaseTypeOK'
    BY TypeStep DEF Fence
  <1> DEFINE Fenced == AgentFenced /\ NoChildUnderLease /\ StoppingIsFinal
  <1>f. Fenced
    BY DEF Fence
  <1> USE DEF AgentFenced, NoChildUnderLease, StoppingIsFinal, Leased, Running,
              supervision, leasing, threads
  <1>1. CASE UNCHANGED <<lease, agent, process, stopping, main>>
    <2>1. Fenced'
      BY <1>1, <1>f
    <2> QED
      BY <1>t, <2>1 DEF Fence
  <1>2. ASSUME StartAgent PROVE Fenced'
    BY <1>2, <1>f DEF StartAgent, MayStart
  <1>3. ASSUME NEW g \in Gens, ReaderEnds(g) PROVE Fenced'
    BY <1>3, <1>f DEF ReaderEnds
  <1>4. ASSUME NEW c \in Conns, ~stopping, Grant(c) PROVE Fenced'
    <2>1. lease' # NoLease
      BY <1>4, <1>t DEF Grant, NoLease, LeaseTypeOK, Gens
    <2> QED
      BY <1>4, <1>f, <2>1 DEF Grant
  <1>5. ASSUME NEW c \in Conns, SettleWaited(c) PROVE Fenced'
    BY <1>4, <1>5, <1>f DEF SettleWaited
  <1>6. ASSUME NEW c \in Conns, EndLease(c) PROVE Fenced'
    BY <1>6, <1>f DEF EndLease
  <1>7. ASSUME NEW c \in Conns, TerminalJoins(c) PROVE Fenced'
    BY <1>7, <1>f DEF TerminalJoins
  <1>8. ASSUME ChildJoins \/ AgentCloses PROVE Fenced'
    BY <1>8, <1>f DEF ChildJoins, AgentCloses, NoAgent
  <1>9. ASSUME Shutdown \/ Exit PROVE Fenced'
    BY <1>9, <1>f DEF Shutdown, Exit
  <1>10. Fenced' \/ UNCHANGED <<lease, agent, process, stopping, main>>
    <2> HIDE DEF Fenced
    <2>1. CASE \E c \in Conns : \/ Acquire(c) \/ SettleWaited(c) \/ EndLease(c) \/ TerminalJoins(c)
      BY <1>4, <1>5, <1>6, <1>7, <2>1 DEF Acquire
    <2>2. CASE \E c \in Conns : AcquireAborting(c) \/ LeaseAnswered(c) \/ ControlCloses(c)
      BY <2>2 DEF AcquireAborting, LeaseAnswered, ControlCloses
    <2>3. CASE \E g \in Gens : \/ ChildDies(g) \/ ReaderStopsChild(g) \/ ReaderCounts(g)
                              \/ \E to \in {"working", "idle"} : ChildEvent(g, to)
                              \/ \E up \in {"working", "idle", "failed"} :
                                   ChildBooted(g, up)
      BY <2>3 DEF ChildDies, ReaderStopsChild, ReaderCounts, ChildEvent, ChildBooted
    <2>4. CASE \/ BriefingsStop \/ OwnerResumes \/ \E to \in {"working", "idle"} : Activity(to)
      BY <2>4 DEF BriefingsStop, OwnerResumes, Activity
    <2>5. CASE UNCHANGED leaseVars
      BY <2>5 DEF leaseVars
    <2> QED
      BY <1>2, <1>3, <1>8, <1>9, <2>1, <2>2, <2>3, <2>4, <2>5 DEF LeaseNext
  <1> QED
    <2> HIDE DEF Fenced
    <2>1. CASE Fenced'
      BY <1>t, <2>1 DEF Fence, Fenced
    <2> QED
      BY <1>1, <1>10, <2>1

\* Every step keeps the invariant: only the death of a child, start_agent, a
\* grant, the answer to one and the shutdown disturb who holds a child.
LEMMA InvariantStep ==
  ASSUME EarlyEof = FALSE
  PROVE  LeaseInv /\ [LeaseNext]_leaseVars => LeaseInv'
  <1> SUFFICES ASSUME LeaseInv, [LeaseNext]_leaseVars PROVE LeaseInv'
    OBVIOUS
  <1>t. LeaseTypeOK /\ LeaseTypeOK'
    BY TypeStep DEF LeaseInv
  <1> DEFINE Rest ==
        /\ OneChild /\ AgentFenced /\ NoChildUnderLease
        /\ ChildHeld /\ StopsUnderLease /\ StoppingIsFinal
        /\ process # NoGen => process = procGen
  <1>r. Rest
    BY DEF LeaseInv
  <1> USE DEF OneChild, AgentFenced, NoChildUnderLease, ChildHeld, StopsUnderLease,
          StoppingIsFinal, Leased, Running, supervision, leasing, threads
  <1>1. ASSUME StartAgent PROVE Rest'
    <2>1. CASE UNCHANGED <<process, procGen, alive, reader>>
      BY <1>1, <1>r, <2>1 DEF StartAgent, MayStart
    <2>2. CASE ~stopping /\ process = NoGen /\ ~Leased /\ alive' = alive \cup {procGen + 1}
               /\ process' = procGen + 1 /\ procGen' = procGen + 1
      <3>1. alive = {}
        BY <1>r, <1>t, <2>2 DEF NoGen, LeaseTypeOK, Gens
      <3> QED
        BY <1>1, <1>r, <2>2, <3>1 DEF StartAgent, MayStart
    <2>3. CASE process = NoGen /\ UNCHANGED <<process, alive, reader>>
      BY <1>1, <1>r, <2>3 DEF StartAgent, MayStart
    <2> QED
      BY <1>1, <2>1, <2>2, <2>3 DEF StartAgent, MayStart
  <1>2. ASSUME NEW g \in Gens, ChildDies(g) PROVE Rest'
    BY <1>2, <1>r DEF ChildDies
  <1>3. ASSUME NEW g \in Gens, NEW to \in {"working", "idle"}, ChildEvent(g, to)
        PROVE Rest'
    BY <1>3, <1>r DEF ChildEvent
  <1>4. ASSUME NEW g \in Gens, NEW to \in {"working", "idle", "failed"},
               ChildBooted(g, to)
        PROVE Rest'
    BY <1>4, <1>r DEF ChildBooted
  <1>5. ASSUME NEW g \in Gens, ReaderEnds(g) PROVE Rest'
    BY <1>5, <1>r DEF ReaderEnds
  <1>6. ASSUME NEW g \in Gens, ReaderStopsChild(g) PROVE Rest'
    BY <1>6, <1>r DEF ReaderStopsChild
  <1>7. ASSUME NEW g \in Gens, ReaderCounts(g) PROVE Rest'
    BY <1>7, <1>r DEF ReaderCounts
  <1>8. ASSUME NEW c \in Conns, control[c].pc # "stopping", ~stopping, ~Leased, Grant(c)
        PROVE Rest'
    <2>1. /\ lease' # NoLease /\ lease'.conn = c /\ agent' = NoAgent /\ process' = NoGen
          /\ UNCHANGED <<stopping, alive, main>>
      BY <1>8, <1>t DEF Grant, NoLease, LeaseTypeOK, Gens, NoGen
    <2>2. control'[c].pc = "stopping" /\ control'[c].child = process
      BY <1>8, <1>t DEF Grant, LeaseTypeOK
    <2>3. \A d \in Conns \ {c} : control'[d] = control[d]
      BY <1>8, <1>t DEF Grant, LeaseTypeOK
    <2>4. OneChild' /\ AgentFenced' /\ NoChildUnderLease' /\ StoppingIsFinal'
      BY <1>8, <1>r, <2>1
    <2>5. ChildHeld'
      BY <1>8, <1>r, <2>1, <2>2, <2>3
    <2>6. StopsUnderLease'
      BY <1>8, <1>r, <2>1, <2>2, <2>3
    <2> QED
      BY <2>1, <2>4, <2>5, <2>6
  <1>9. ASSUME NEW c \in Conns, AcquireAborting(c) PROVE Rest'
    BY <1>9, <1>r, <1>t DEF AcquireAborting, LeaseTypeOK, ControlState
  <1>10. ASSUME NEW c \in Conns, SettleWaited(c) PROVE Rest'
    BY <1>10, <1>8, <1>r, <1>t DEF SettleWaited, LeaseTypeOK, ControlState
  <1>11. ASSUME NEW c \in Conns, LeaseAnswered(c) PROVE Rest'
    BY <1>11, <1>r, <1>t DEF LeaseAnswered, Stopped, LeaseTypeOK, ControlState
  <1>12. ASSUME NEW c \in Conns, EndLease(c) PROVE Rest'
    <2>1. ~Leased' /\ process' = NoGen /\ ~stopping'
      BY <1>12, <1>r DEF EndLease
    <2>2. agent' = NoAgent
      BY <1>12, <1>r DEF EndLease
    <2>3. ChildHeld' /\ StopsUnderLease'
      BY <1>12, <1>r, <2>1 DEF EndLease
    <2> QED
      BY <1>12, <1>r, <2>1, <2>2, <2>3 DEF EndLease
  <1>13. ASSUME NEW c \in Conns, ControlCloses(c) PROVE Rest'
    BY <1>13, <1>r, <1>t DEF ControlCloses, LeaseTypeOK, ControlState
  <1>14. ASSUME NEW c \in Conns, TerminalJoins(c) PROVE Rest'
    BY <1>14, <1>r DEF TerminalJoins
  <1>15. ASSUME NEW to \in {"working", "idle"}, Activity(to) PROVE Rest'
    BY <1>15, <1>r DEF Activity
  <1>16. ASSUME BriefingsStop \/ OwnerResumes PROVE Rest'
    BY <1>16, <1>r DEF BriefingsStop, OwnerResumes
  <1>17. ASSUME ChildJoins \/ AgentCloses PROVE Rest'
    BY <1>17, <1>r DEF ChildJoins, AgentCloses, NoAgent
  <1>18. ASSUME Shutdown PROVE Rest'
    BY <1>18, <1>r DEF Shutdown
  <1>19. ASSUME Exit PROVE Rest'
    BY <1>19, <1>r DEF Exit, Stopped
  <1>20. ASSUME UNCHANGED leaseVars PROVE Rest'
    BY <1>20, <1>r DEF leaseVars
  <1> QED
    <2>1. Rest'
      <3> HIDE DEF Rest
      <3> QED
        BY <1>1, <1>2, <1>3, <1>4, <1>5, <1>6, <1>7, <1>8, <1>9, <1>10, <1>11, <1>12,
           <1>13, <1>14, <1>15, <1>16, <1>17, <1>18, <1>19, <1>20 DEF LeaseNext, Acquire, Rest
    <2> QED
      BY <1>t, <2>1 DEF LeaseInv

-----------------------------------------------------------------------------
\* Every variable keeps its type, however many processes and connections there
\* are, and a lease generation never runs ahead of the process generations.
THEOREM LeaseTypeCorrect == LeaseSpec => []LeaseTypeOK
  <1>1. LeaseInit => LeaseTypeOK
    BY InitInvariant DEF LeaseInv
  <1> QED
    BY <1>1, TypeStep, PTL DEF LeaseSpec

\* The invariant behind the supervision, as long as stdout ends with the child.
THEOREM LeaseInvariant ==
  ASSUME EarlyEof = FALSE
  PROVE  LeaseSpec => []LeaseInv
  BY InitInvariant, InvariantStep, PTL DEF LeaseSpec

\* control_lease_acquire's answer means what it says: the child is gone.  A live
\* child would need a holder, and under an answered lease there is none.
LEMMA AnswerNeedsNoChild == LeaseInv => TerminalAlone
  BY DEF LeaseInv, TerminalAlone, TerminalAnswered, ChildHeld, StopsUnderLease, StoppingIsFinal,
         NoChildUnderLease, LeaseTypeOK, Gens, NoGen

\* "One child at a time": no start overlaps a child that is still being stopped.
THEOREM OneChildAtATime ==
  ASSUME EarlyEof = FALSE
  PROVE  LeaseSpec => []OneChild
  <1>1. LeaseInv => OneChild
    BY DEF LeaseInv
  <1> QED
    BY <1>1, LeaseInvariant, PTL

\* A terminal that was answered is alone with the session.
THEOREM TerminalIsAlone ==
  ASSUME EarlyEof = FALSE
  PROVE  LeaseSpec => []TerminalAlone
  BY AnswerNeedsNoChild, LeaseInvariant, PTL

\* The fence is an invariant by itself.
LEMMA FenceHolds == LeaseSpec => []Fence
  <1>1. LeaseInit => Fence
    BY InitInvariant DEF LeaseInv, Fence
  <1> QED
    BY <1>1, FenceStep, PTL DEF LeaseSpec

\* admit_agent and end_lease fence the agent channel by the live lease, however
\* late a hello is read and whatever processes are still alive.
THEOREM ChannelIsFenced == LeaseSpec => []AgentFenced
  <1>1. Fence => AgentFenced
    BY DEF Fence
  <1> QED
    BY <1>1, FenceHolds, PTL

\* The service supervises no child behind a lease: whatever a reader, a backoff
\* or a start that was under way finds, nothing is restarted there.
THEOREM NoChildBehindLease == LeaseSpec => []NoChildUnderLease
  <1>1. Fence => NoChildUnderLease
    BY DEF Fence
  <1> QED
    BY <1>1, FenceHolds, PTL

-----------------------------------------------------------------------------
\* Each step of the supervision is a step of the session's owner or none: the
\* owner changes only when a child starts or dies and when a lease is answered
\* or ends, and TerminalAlone says who was, or will be, alone then.
LEMMA OwnerStep ==
  ASSUME LeaseInv, LeaseInv', [LeaseNext]_leaseVars
  PROVE  [Owner!Next]_SessionHolder
  <1> DEFINE Moves == \/ UNCHANGED SessionHolder
                      \/ SessionHolder # "nobody" /\ SessionHolder' = "nobody"
                      \/ SessionHolder = "nobody" /\ SessionHolder' \in {"managed", "terminal"}
  <1> USE DEF SessionHolder
  <1>a. (TerminalAnswered => alive = {}) /\ (TerminalAnswered => alive = {})'
    BY AnswerNeedsNoChild, PTL DEF TerminalAlone
  <1>t. /\ control \in [Conns -> ControlState]
        /\ Leased => lease.conn \in Conns
    BY DEF LeaseInv, LeaseTypeOK, Leased
  <1>2. ASSUME StartAgent PROVE Moves
    BY <1>2, <1>a DEF StartAgent, MayStart, TerminalAnswered, Leased, leasing
  <1>3. ASSUME NEW g \in Gens, ChildDies(g) PROVE Moves
    BY <1>3, <1>a DEF ChildDies, TerminalAnswered, Leased, leasing, threads, LeaseInv, OneChild
  <1>4. ASSUME NEW c \in Conns, ~Leased, Grant(c) PROVE Moves
    BY <1>4, <1>t DEF Grant, TerminalAnswered, Leased
  <1>5. ASSUME NEW c \in Conns, AcquireAborting(c) PROVE Moves
    BY <1>5, <1>t DEF AcquireAborting, TerminalAnswered, Leased, leasing
  <1>6. ASSUME NEW c \in Conns, SettleWaited(c) PROVE Moves
    <2>1. CASE control' = [control EXCEPT ![c].pc = "idle"] /\ UNCHANGED <<lease, alive>>
      BY <1>6, <1>t, <2>1 DEF SettleWaited, TerminalAnswered, Leased
    <2>2. CASE ~Leased /\ Grant(c)
      BY <1>4, <2>2
    <2> QED
      BY <1>6, <2>1, <2>2 DEF SettleWaited, leasing
  <1>7. ASSUME NEW c \in Conns, LeaseAnswered(c) PROVE Moves
    BY <1>7, <1>a, <1>t DEF LeaseAnswered, TerminalAnswered, Leased, leasing
  <1>8. ASSUME NEW c \in Conns, EndLease(c) PROVE Moves
    BY <1>8, <1>a DEF EndLease, TerminalAnswered, Leased
  <1>9. ASSUME NEW c \in Conns, ControlCloses(c) PROVE Moves
    BY <1>9, <1>t DEF ControlCloses, TerminalAnswered, Leased, leasing
  <1>10. ASSUME Shutdown PROVE Moves
    BY <1>10, <1>a DEF Shutdown, TerminalAnswered, Leased
  <1>11. ASSUME UNCHANGED <<lease, control, alive>> PROVE Moves
    BY <1>11 DEF TerminalAnswered, Leased
  <1>12. Moves \/ UNCHANGED <<lease, control, alive>>
    <2> HIDE DEF Moves
    <2>1. CASE \E c \in Conns : \/ Acquire(c) \/ AcquireAborting(c) \/ SettleWaited(c)
                               \/ LeaseAnswered(c) \/ EndLease(c) \/ ControlCloses(c)
                               \/ TerminalJoins(c)
      BY <1>4, <1>5, <1>6, <1>7, <1>8, <1>9, <2>1
      DEF Acquire, TerminalJoins, leasing, threads
    <2>2. CASE \E g \in Gens : \/ ReaderEnds(g) \/ ReaderStopsChild(g) \/ ReaderCounts(g)
                              \/ \E to \in {"working", "idle"} : ChildEvent(g, to)
                              \/ \E up \in {"working", "idle", "failed"} :
                                   ChildBooted(g, up)
      BY <2>2 DEF ReaderEnds, ReaderStopsChild, ReaderCounts, ChildEvent, ChildBooted,
                  leasing, threads
    <2>3. CASE \/ BriefingsStop \/ OwnerResumes \/ ChildJoins \/ AgentCloses \/ Exit
               \/ \E to \in {"working", "idle"} : Activity(to)
      BY <2>3 DEF BriefingsStop, OwnerResumes, ChildJoins, AgentCloses, Exit, Activity,
                  leasing, threads
    <2>4. CASE UNCHANGED leaseVars
      BY <2>4 DEF leaseVars, leasing, threads
    <2> QED
      BY <1>2, <1>3, <1>10, <2>1, <2>2, <2>3, <2>4 DEF LeaseNext
  <1>13. Moves
    BY <1>11, <1>12
  <1> QED
    <2> HIDE DEF SessionHolder
    <2> QED
      BY <1>13 DEF Owner!Next, Owner!LetGo, Owner!Take, Owner!Owners, Owner!Nobody

\* The supervision implements SessionOwner: the session never has two writers,
\* and changes hands only through a moment with none.
THEOREM ImplementsSessionOwner ==
  ASSUME EarlyEof = FALSE
  PROVE  LeaseSpec => OneOwner
  <1>1. LeaseInit => Owner!Init
    BY DEF LeaseInit, Owner!Init, Owner!Nobody, SessionHolder, TerminalAnswered, Leased
  <1>2. LeaseInv /\ LeaseInv' /\ [LeaseNext]_leaseVars
          => [Owner!Next]_SessionHolder
    BY OwnerStep
  <1> QED
    BY <1>1, <1>2, LeaseInvariant, PTL DEF LeaseSpec, OneOwner, Owner!Spec

-----------------------------------------------------------------------------
(* The conversation feed.                                                   *)

Items == [id : 1..MaxSaid, offer : {"none", "open", "taken"}, sequence : Nat]
Sockets == [open : BOOLEAN, name : Surfaces \cup {Nobody}, read : Seq(Lines), outbox : Seq(Lines)]

\* Numbered in order, within a bound.
Numbered(entries, bound) ==
  /\ entries \in Seq(Items) /\ Len(entries) <= Entries
  /\ \A i \in 1..Len(entries) : entries[i].sequence \in 1..bound
  /\ \A i, j \in 1..Len(entries) : i < j => entries[i].sequence < entries[j].sequence

Known(entries) == \A i \in 1..Len(entries) : entries[i].id <= last

\* The ring can be numbered on, and so can the copy on disk.
HistoryFits ==
  /\ Numbered(ring, next - 1) /\ next \in 1..LastSequence
  /\ Numbered(disk, LastSequence)
  /\ last \in 0..MaxSaid /\ Known(ring) /\ Known(disk)

\* A name is held by an open connection that speaks by it.
PlacesFit ==
  /\ joined \in 0..MaxJoins
  /\ registry \in [Surfaces -> 0..MaxJoins] /\ speaks \in [Joins -> Surfaces \cup {Nobody}]
  /\ sockets \in [Joins -> Sockets] /\ \A c \in Joins : Len(sockets[c].outbox) <= Outbox
  /\ \A s \in Surfaces : registry[s] # None =>
       /\ registry[s] <= joined /\ sockets[registry[s]].open /\ speaks[registry[s]] = s

\* An offer that is open was handed to no agent of this run.
OffersFit ==
  /\ taken \in [1..MaxSaid -> 0..1]
  /\ \A i \in 1..Len(ring) : ring[i].offer = "open" => taken[ring[i].id] = 0
  /\ \A id \in 1..MaxSaid : id > last => taken[id] = 0

FeedInv == HistoryFits /\ PlacesFit /\ OffersFit

\* Numbering afresh keeps everything but the numbers, which no longer run out.
LEMMA ResequencedFits ==
  ASSUME NEW entries, NEW bound, Numbered(entries, bound)
  PROVE  /\ Numbered(Resequenced(entries), Len(entries))
         /\ Len(Resequenced(entries)) = Len(entries)
         /\ \A i \in 1..Len(entries) : /\ Resequenced(entries)[i].id = entries[i].id
                                       /\ Resequenced(entries)[i].offer = entries[i].offer
  <1>1. entries \in Seq(Items) /\ Len(entries) \in Nat /\ DOMAIN entries = 1..Len(entries)
    BY DEF Numbered
  <1>2. Resequenced(entries) = [i \in 1..Len(entries) |-> [entries[i] EXCEPT !.sequence = i]]
    BY <1>1 DEF Resequenced
  <1>3. \A i \in 1..Len(entries) :
          /\ [entries[i] EXCEPT !.sequence = i] \in Items
          /\ [entries[i] EXCEPT !.sequence = i].sequence = i
          /\ [entries[i] EXCEPT !.sequence = i].id = entries[i].id
          /\ [entries[i] EXCEPT !.sequence = i].offer = entries[i].offer
    <2> TAKE i \in 1..Len(entries)
    <2>1. entries[i] \in Items /\ i \in Nat
      BY <1>1
    <2> QED
      BY <2>1 DEF Items
  <1>4. Resequenced(entries) \in Seq(Items) /\ Len(Resequenced(entries)) = Len(entries)
    BY <1>1, <1>2, <1>3
  <1>5. \A i \in 1..Len(entries) : Resequenced(entries)[i].sequence = i
    BY <1>1, <1>2, <1>3
  <1>6. Len(entries) <= Entries
    BY DEF Numbered
  <1>7. Numbered(Resequenced(entries), Len(entries))
    BY <1>1, <1>4, <1>5, <1>6 DEF Numbered
  <1> QED
    BY <1>2, <1>3, <1>4, <1>7

\* What is true of each entry by its id and its offer alone is true of the
\* second list where it is true of the first.
Within(later, earlier) ==
  \A i \in 1..Len(later) : \E j \in 1..Len(earlier) :
    later[i].id = earlier[j].id /\ later[i].offer = earlier[j].offer

\* Each entry is the last of the list, which is the new one, or an old one.
PushedFrom(later, earlier, entry) ==
  \A i \in 1..Len(later) :
    \/ later[i].id = entry.id /\ later[i].offer = entry.offer
    \/ \E j \in 1..Len(earlier) :
         later[i].id = earlier[j].id /\ later[i].offer = earlier[j].offer

\* A list that is numbered below a number takes one more under it, the oldest
\* going where it is full.
LEMMA AppendFits ==
  ASSUME NEW kept, NEW number \in Nat \ {0}, Numbered(kept, number - 1),
         NEW id \in 1..MaxSaid, NEW offer \in {"none", "open"}
  PROVE  LET item == [id |-> id, offer |-> offer, sequence |-> number]
             longer == Append(IF Len(kept) = Entries THEN Tail(kept) ELSE kept, item)
         IN  Numbered(longer, number) /\ PushedFrom(longer, kept, item)
  <1> DEFINE item == [id |-> id, offer |-> offer, sequence |-> number]
             base == IF Len(kept) = Entries THEN Tail(kept) ELSE kept
             longer == Append(base, item)
  <1>1. item \in Items /\ item.sequence = number
    BY DEF Items
  <1>2. kept \in Seq(Items) /\ Len(kept) \in Nat /\ Len(kept) <= Entries /\ Entries \in Nat \ {0}
    BY FeedAssumption DEF Numbered
  <1>3. PICK shift \in {0, 1} :
          /\ base \in Seq(Items) /\ Len(base) = Len(kept) - shift /\ Len(base) < Entries
          /\ \A i \in 1..Len(base) : base[i] = kept[i + shift]
    <2>1. CASE Len(kept) = Entries
      <3>1. kept # <<>>
        BY <1>2, <2>1
      <3>2. /\ Tail(kept) \in Seq(Items) /\ Len(Tail(kept)) = Len(kept) - 1
            /\ \A i \in 1..Len(Tail(kept)) : Tail(kept)[i] = kept[i + 1]
        BY <1>2, <3>1
      <3> QED
        BY <1>2, <2>1, <3>2
    <2>2. CASE Len(kept) # Entries
      BY <1>2, <2>2
    <2> QED
      BY <2>1, <2>2
  <1> HIDE DEF base, item
  <1>4. /\ longer \in Seq(Items) /\ Len(longer) = Len(base) + 1
        /\ longer[Len(base) + 1] = item
        /\ \A i \in 1..Len(base) : longer[i] = base[i]
    BY <1>1, <1>3
  <1>5. PICK n \in Nat, k \in Nat : n = Len(base) /\ k = Len(kept)
    <2>1. Len(base) \in Nat
      BY <1>3
    <2> QED
      BY <1>2, <2>1, Zenon
  <1> HIDE DEF longer
  <1>6. n = k - shift /\ Len(longer) = n + 1 /\ longer[n + 1] = item
    <2>1. n = k - shift
      BY <1>3, <1>5
    <2>2. Len(longer) = n + 1
      BY <1>4, <1>5
    <2>3. longer[n + 1] = item
      BY <1>4, <1>5, Zenon
    <2> QED
      BY <2>1, <2>2, <2>3
  <1>11. \A i \in 1..n : longer[i] = kept[i + shift] /\ i + shift \in 1..k
    <2>1. \A i \in 1..n : longer[i] = base[i] /\ base[i] = kept[i + shift]
      BY <1>3, <1>4, <1>5, Zenon
    <2>2. \A i \in 1..n : i + shift \in 1..k
      BY <1>5, <1>6
    <2> QED
      BY <2>1, <2>2, Zenon
  <1>7. \A i \in 1..k : kept[i].sequence \in 1..(number - 1)
    BY <1>5 DEF Numbered
  <1>8. \A i, j \in 1..k : i < j => kept[i].sequence < kept[j].sequence
    BY <1>5 DEF Numbered
  <1>12. \A i \in 1..n : longer[i].sequence \in 1..(number - 1)
    BY <1>11, <1>7
  <1>13. \A i \in 1..(n + 1) : i = n + 1 \/ i \in 1..n
    OBVIOUS
  <1>9. \A i \in 1..(n + 1) : longer[i].sequence \in 1..number
    <2> TAKE i \in 1..(n + 1)
    <2>1. CASE i = n + 1
      BY <1>1, <1>6, <2>1
    <2>2. CASE i \in 1..n
      BY <1>12, <2>2
    <2> QED
      BY <1>13, <2>1, <2>2
  <1>10. \A i, j \in 1..(n + 1) : i < j => longer[i].sequence < longer[j].sequence
    <2> SUFFICES ASSUME NEW i \in 1..(n + 1), NEW j \in 1..(n + 1), i < j
                 PROVE  longer[i].sequence < longer[j].sequence
      OBVIOUS
    <2>1. i \in 1..n
      OBVIOUS
    <2>2. CASE j = n + 1
      BY <1>1, <1>6, <1>12, <2>1, <2>2
    <2>3. CASE j \in 1..n
      <3>1. longer[i] = kept[i + shift] /\ longer[j] = kept[j + shift]
        BY <1>11, <2>1, <2>3
      <3>2. i + shift \in 1..k /\ j + shift \in 1..k /\ i + shift < j + shift
        BY <1>11, <2>1, <2>3
      <3> QED
        BY <1>8, <3>1, <3>2
    <2> QED
      BY <1>13, <2>2, <2>3
  <1>14. Numbered(longer, number)
    <2>1. Len(longer) <= Entries
      BY <1>2, <1>3, <1>5, <1>6
    <2>2. longer \in Seq(Items)
      BY <1>4
    <2> QED
      BY <1>6, <1>9, <1>10, <2>1, <2>2 DEF Numbered
  <1>15. PushedFrom(longer, kept, item)
    BY <1>5, <1>6, <1>11, <1>13 DEF PushedFrom
  <1> QED
    BY <1>14, <1>15 DEF longer, base, item

\* Pushing numbers on, and starts over where the numbers are at their end.
LEMMA PushFits ==
  ASSUME NEW entries, NEW number \in 1..LastSequence, Numbered(entries, number - 1),
         NEW id \in 1..MaxSaid, NEW offer \in {"none", "open"}
  PROVE  LET entry == [id |-> id, offer |-> offer]
             pushed == Push(entries, number, entry)
         IN  /\ Numbered(pushed.entries, pushed.next - 1) /\ pushed.next \in 1..LastSequence
             /\ PushedFrom(pushed.entries, entries, entry)
  <1> DEFINE entry == [id |-> id, offer |-> offer]
             item(n) == [id |-> id, offer |-> offer, sequence |-> n]
             longer(kept, n) == Append(IF Len(kept) = Entries THEN Tail(kept) ELSE kept, item(n))
  <1>0. /\ LastSequence \in Nat /\ LastSequence > Entries + 1 /\ Entries \in Nat
        /\ Len(entries) \in Nat /\ Len(entries) <= Entries
    BY FeedAssumption DEF Numbered
  <1>1. CASE number # LastSequence
    <2>1. Push(entries, number, entry) = [entries |-> longer(entries, number), next |-> number + 1]
      BY <1>1 DEF Push
    <2>2. /\ Numbered(longer(entries, number), number)
          /\ PushedFrom(longer(entries, number), entries, item(number))
      <3>1. number \in Nat \ {0} /\ Numbered(entries, number - 1)
        BY <1>0
      <3> QED
        BY <3>1, AppendFits
    <2>3. PushedFrom(longer(entries, number), entries, entry)
      BY <2>2 DEF PushedFrom
    <2> HIDE DEF longer
    <2>4. number + 1 \in 1..LastSequence /\ (number + 1) - 1 = number
      BY <1>0, <1>1
    <2> QED
      BY <2>1, <2>2, <2>3, <2>4
  <1>2. CASE number = LastSequence
    <2> DEFINE kept == Resequenced(entries)
               n == Len(entries) + 1
    <2>1. Push(entries, number, entry) = [entries |-> longer(kept, n), next |-> n + 1]
      BY <1>2 DEF Push
    <2>2. /\ Numbered(kept, Len(entries)) /\ Len(kept) = Len(entries)
          /\ \A i \in 1..Len(entries) :
               kept[i].id = entries[i].id /\ kept[i].offer = entries[i].offer
      BY ResequencedFits
    <2>3. n \in Nat \ {0} /\ n - 1 = Len(entries) /\ n + 1 \in 1..LastSequence /\ (n + 1) - 1 = n
      BY <1>0
    <2> HIDE DEF kept, n
    <2>4. Numbered(kept, n - 1)
      BY <2>2, <2>3
    <2>5. Numbered(longer(kept, n), n) /\ PushedFrom(longer(kept, n), kept, item(n))
      BY <2>3, <2>4, AppendFits
    <2> HIDE DEF longer
    <2>6. PushedFrom(longer(kept, n), entries, entry)
      BY <2>2, <2>5 DEF PushedFrom
    <2> QED
      BY <2>1, <2>3, <2>5, <2>6
  <1> QED
    BY <1>1, <1>2

\* Marking an offer leaves the numbers and the words.
LEMMA MarkFits ==
  ASSUME NEW entries, NEW bound, Numbered(entries, bound), NEW id
  PROVE  /\ Numbered(MarkTaken(entries, id), bound)
         /\ Len(MarkTaken(entries, id)) = Len(entries)
         /\ \A i \in 1..Len(entries) :
              /\ MarkTaken(entries, id)[i].id = entries[i].id
              /\ MarkTaken(entries, id)[i].offer =
                   IF entries[i].id = id THEN "taken" ELSE entries[i].offer
  <1> DEFINE mark(i) == IF entries[i].id = id THEN [entries[i] EXCEPT !.offer = "taken"]
                        ELSE entries[i]
  <1>1. /\ entries \in Seq(Items) /\ Len(entries) \in Nat /\ DOMAIN entries = 1..Len(entries)
        /\ Len(entries) <= Entries
    BY DEF Numbered
  <1>2. MarkTaken(entries, id) = [i \in 1..Len(entries) |-> mark(i)]
    BY <1>1 DEF MarkTaken
  <1>3. \A i \in 1..Len(entries) :
          /\ mark(i) \in Items /\ mark(i).sequence = entries[i].sequence
          /\ mark(i).id = entries[i].id
          /\ mark(i).offer = IF entries[i].id = id THEN "taken" ELSE entries[i].offer
    <2> TAKE i \in 1..Len(entries)
    <2>1. entries[i] \in Items
      BY <1>1
    <2> QED
      BY <2>1 DEF Items
  <1> HIDE DEF mark
  <1>4. /\ MarkTaken(entries, id) \in Seq(Items) /\ Len(MarkTaken(entries, id)) = Len(entries)
        /\ \A i \in 1..Len(entries) : MarkTaken(entries, id)[i] = mark(i)
    BY <1>1, <1>2, <1>3
  <1>5. Numbered(MarkTaken(entries, id), bound)
    BY <1>1, <1>3, <1>4 DEF Numbered
  <1> QED
    BY <1>3, <1>4, <1>5

\* What was stored opens as a ring that can be numbered on.
LEMMA ReopenFits ==
  ASSUME NEW entries, Numbered(entries, LastSequence)
  PROVE  /\ Numbered(Reopened(entries), NextAfter(entries) - 1)
         /\ NextAfter(entries) \in 1..LastSequence
         /\ Within(Reopened(entries), entries)
  <1>1. /\ entries \in Seq(Items) /\ Len(entries) \in Nat /\ Len(entries) <= Entries
        /\ Entries \in Nat /\ LastSequence \in Nat /\ LastSequence > Entries + 1
        /\ \A i \in 1..Len(entries) : entries[i].sequence \in 1..LastSequence
        /\ \A i, j \in 1..Len(entries) : i < j => entries[i].sequence < entries[j].sequence
    BY FeedAssumption DEF Numbered
  <1>2. CASE entries = <<>>
    <2>1. Reopened(entries) = <<>> /\ NextAfter(entries) = 1
      BY <1>2 DEF Reopened, NextAfter
    <2>2. Len(<<>>) = 0 /\ <<>> \in Seq(Items) /\ 1 - 1 = 0
      OBVIOUS
    <2>3. Numbered(<<>>, 0) /\ Within(<<>>, <<>>)
      BY <1>1, <2>2 DEF Numbered, Within
    <2> QED
      BY <1>1, <1>2, <2>1, <2>3
  <1>3. CASE entries # <<>>
    <2>1. Len(entries) \in 1..Len(entries) /\ Last(entries) = entries[Len(entries)]
      BY <1>1, <1>3 DEF Last
    <2>2. CASE Last(entries).sequence = LastSequence
      <3>1. Reopened(entries) = Resequenced(entries) /\ NextAfter(entries) = Len(entries) + 1
        BY <1>3, <2>2 DEF Reopened, NextAfter
      <3>2. /\ Numbered(Resequenced(entries), Len(entries))
            /\ Len(Resequenced(entries)) = Len(entries)
            /\ \A i \in 1..Len(entries) : /\ Resequenced(entries)[i].id = entries[i].id
                                          /\ Resequenced(entries)[i].offer = entries[i].offer
        BY ResequencedFits
      <3>3. NextAfter(entries) \in 1..LastSequence /\ NextAfter(entries) - 1 = Len(entries)
        BY <1>1, <3>1
      <3>4. Within(Resequenced(entries), entries)
        BY <3>2 DEF Within
      <3> QED
        BY <3>1, <3>2, <3>3, <3>4
    <2>3. CASE Last(entries).sequence # LastSequence
      <3>1. Reopened(entries) = entries /\ NextAfter(entries) = Last(entries).sequence + 1
        BY <1>3, <2>3 DEF Reopened, NextAfter
      <3>2. Last(entries).sequence \in 1..LastSequence
        BY <1>1, <2>1
      <3>3. /\ NextAfter(entries) \in 1..LastSequence
            /\ NextAfter(entries) - 1 = Last(entries).sequence
        BY <1>1, <2>3, <3>1, <3>2
      <3>4. \A i \in 1..Len(entries) : entries[i].sequence \in 1..Last(entries).sequence
        <4> TAKE i \in 1..Len(entries)
        <4>1. CASE i = Len(entries)
          BY <1>1, <2>1, <4>1
        <4>2. CASE i < Len(entries)
          BY <1>1, <2>1, <4>2
        <4> QED
          BY <1>1, <4>1, <4>2
      <3>5. Numbered(entries, Last(entries).sequence)
        BY <1>1, <3>4 DEF Numbered
      <3>6. Within(entries, entries)
        BY DEF Within
      <3> QED
        BY <3>1, <3>3, <3>5, <3>6
    <2> QED
      BY <2>2, <2>3
  <1> QED
    BY <1>2, <1>3

-----------------------------------------------------------------------------
\* A start satisfies the invariant, the one after a long past included.
LEMMA FeedInit == Init => FeedInv
  <1> SUFFICES ASSUME Init PROVE FeedInv
    OBVIOUS
  <1>1. /\ MaxJoins \in Nat /\ MaxSaid \in Nat \ {0} /\ Entries \in Nat \ {0}
        /\ LastSequence \in Nat /\ LastSequence > Entries + 1 /\ Outbox \in Nat
        /\ Nobody \notin Surfaces
    BY FeedAssumption
  <1>2. /\ Numbered(ring, next - 1) /\ next \in 1..LastSequence /\ Numbered(ring, LastSequence)
        /\ last \in 0..MaxSaid /\ Known(ring)
        /\ \A i \in 1..Len(ring) : ring[i].offer = "none"
    <2>1. CASE ring = <<>> /\ last = 0
      <3>1. next = 1 /\ Len(ring) = 0 /\ ring \in Seq(Items)
        BY <2>1 DEF Init, NextAfter
      <3> QED
        BY <1>1, <2>1, <3>1 DEF Numbered, Known
    <2>2. ASSUME NEW sequence \in {LastSequence - 1, LastSequence}, last = 1,
                 ring = Reopened(<<[id |-> 1, offer |-> "none", sequence |-> sequence]>>)
          PROVE  /\ Numbered(ring, LastSequence - 1) /\ Known(ring)
                 /\ Len(ring) = 1 /\ ring[1].offer = "none"
      <3> DEFINE item(n) == [id |-> 1, offer |-> "none", sequence |-> n]
      <3>1. PICK n \in 1..(LastSequence - 1) : ring = <<item(n)>>
        <4>1. Last(<<item(sequence)>>).sequence = sequence /\ <<item(sequence)>> # <<>>
          BY DEF Last
        <4>2. CASE sequence = LastSequence
          <5>1. ring = Resequenced(<<item(sequence)>>)
            BY <2>2, <4>1, <4>2 DEF Reopened
          <5>2. ring = [i \in 1..1 |-> [item(sequence) EXCEPT !.sequence = i]]
            BY <5>1 DEF Resequenced
          <5>3. ring = <<item(1)>>
            BY <5>2
          <5> QED
            BY <1>1, <5>3
        <4>3. CASE sequence # LastSequence
          <5>1. ring = <<item(sequence)>>
            BY <2>2, <4>1, <4>3 DEF Reopened
          <5> QED
            BY <1>1, <4>3, <5>1
        <4> QED
          BY <4>2, <4>3
      <3>2. item(n) \in Items /\ item(n).sequence = n /\ item(n).id = 1 /\ item(n).offer = "none"
        BY <1>1, <3>1 DEF Items
      <3> HIDE DEF item
      <3>3. ring \in Seq(Items) /\ Len(ring) = 1 /\ ring[1] = item(n)
        BY <3>1, <3>2
      <3>4. \A i \in 1..Len(ring) : ring[i] = item(n)
        BY <3>3
      <3>5. \A i, j \in 1..Len(ring) : ~(i < j)
        BY <3>3
      <3>6. Len(ring) <= Entries
        BY <1>1, <3>3
      <3>7. Numbered(ring, LastSequence - 1)
        BY <3>1, <3>2, <3>3, <3>4, <3>5, <3>6 DEF Numbered
      <3>8. Known(ring)
        BY <2>2, <3>2, <3>4 DEF Known
      <3> QED
        BY <3>2, <3>3, <3>7, <3>8
    <2>3. ASSUME NEW sequence \in {LastSequence - 1, LastSequence}, last = 1,
                 ring = Reopened(<<[id |-> 1, offer |-> "none", sequence |-> sequence]>>)
          PROVE  /\ Numbered(ring, next - 1) /\ next \in 1..LastSequence
                 /\ Numbered(ring, LastSequence)
      <3>1. Numbered(ring, LastSequence - 1) /\ Len(ring) = 1
        BY <2>2, <2>3
      <3>2. Numbered(ring, LastSequence)
        BY <1>1, <3>1 DEF Numbered
      <3>3. /\ Numbered(Reopened(ring), NextAfter(ring) - 1) /\ NextAfter(ring) \in 1..LastSequence
        BY <3>2, ReopenFits
      <3>4. Reopened(ring) = ring
        BY <1>1, <3>1 DEF Reopened, Numbered, Last
      <3>5. next = NextAfter(ring)
        BY DEF Init
      <3> QED
        BY <3>2, <3>3, <3>4, <3>5
    <2>4. ASSUME NEW sequence \in {LastSequence - 1, LastSequence}, last = 1,
                 ring = Reopened(<<[id |-> 1, offer |-> "none", sequence |-> sequence]>>)
          PROVE  /\ last \in 0..MaxSaid /\ Known(ring)
                 /\ \A i \in 1..Len(ring) : ring[i].offer = "none"
      BY <1>1, <2>2, <2>4
    <2> QED
      BY <2>1, <2>3, <2>4 DEF Init
  <1>3. HistoryFits
    BY <1>2 DEF Init, HistoryFits
  <1>4. PlacesFit
    <2>1. Shut \in Sockets /\ Len(Shut.outbox) = 0 /\ 0 <= Outbox
      BY <1>1 DEF Shut, Sockets
    <2> QED
      BY <1>1, <2>1 DEF Init, PlacesFit, None
  <1>5. OffersFit
    BY <1>1, <1>2 DEF Init, OffersFit
  <1> QED
    BY <1>3, <1>4, <1>5 DEF FeedInv

\* Telling every surface drops those that cannot be told, and no other.
LEMMA BroadcastFits ==
  ASSUME PlacesFit, NEW line \in Lines, Broadcast(line), joined' = joined
  PROVE  PlacesFit'
  <1> DEFINE full == {c \in Joins : Registered(c) /\ Len(sockets[c].outbox) >= Outbox}
  <1>1. /\ sockets' = [c \in Joins |->
              IF Registered(c) /\ c \notin full
              THEN [sockets[c] EXCEPT !.outbox = Append(@, line)] ELSE sockets[c]]
        /\ registry' = [s \in Surfaces |-> IF registry[s] \in full THEN None ELSE registry[s]]
        /\ speaks' = [c \in Joins |-> IF c \in full THEN Nobody ELSE speaks[c]]
    BY DEF Broadcast
  <1>2. Outbox \in Nat /\ MaxJoins \in Nat /\ joined \in 0..MaxJoins
    BY FeedAssumption DEF PlacesFit
  <1>3. \A c \in Joins : /\ sockets[c] \in Sockets /\ Len(sockets[c].outbox) \in Nat
                         /\ Len(sockets[c].outbox) <= Outbox
    BY DEF PlacesFit, Sockets
  <1>4. \A c \in Joins : c \notin full /\ Registered(c) => Len(sockets[c].outbox) < Outbox
    BY <1>2, <1>3
  <1>5. \A c \in Joins :
          /\ sockets'[c] \in Sockets /\ Len(sockets'[c].outbox) <= Outbox
          /\ sockets'[c].open = sockets[c].open
    <2> TAKE c \in Joins
    <2>1. CASE Registered(c) /\ c \notin full
      <3>1. sockets'[c] = [sockets[c] EXCEPT !.outbox = Append(@, line)]
        BY <1>1, <2>1
      <3>2. Len(sockets[c].outbox) < Outbox
        BY <1>4, <2>1
      <3> HIDE DEF full
      <3>3. /\ Append(sockets[c].outbox, line) \in Seq(Lines)
            /\ Len(Append(sockets[c].outbox, line)) = Len(sockets[c].outbox) + 1
        BY <1>3 DEF Sockets
      <3>4. /\ sockets'[c].outbox = Append(sockets[c].outbox, line)
            /\ sockets'[c].open = sockets[c].open /\ sockets'[c] \in Sockets
        BY <1>3, <3>1, <3>3 DEF Sockets
      <3> QED
        BY <1>2, <1>3, <3>2, <3>3, <3>4
    <2>2. CASE ~(Registered(c) /\ c \notin full)
      BY <1>1, <1>3, <2>2
    <2> QED
      BY <2>1, <2>2
  <1> HIDE DEF full
  <1>6. sockets' \in [Joins -> Sockets]
    BY <1>1, <1>5
  <1>7. registry' \in [Surfaces -> 0..MaxJoins] /\ speaks' \in [Joins -> Surfaces \cup {Nobody}]
    BY <1>1, <1>2 DEF PlacesFit, None
  <1>8. \A s \in Surfaces : registry'[s] # None =>
          registry'[s] = registry[s] /\ registry[s] \in Joins /\ registry[s] \notin full
    BY <1>1, <1>2 DEF PlacesFit, None, Joins
  <1>9. \A s \in Surfaces : registry'[s] # None =>
          /\ registry'[s] <= joined' /\ sockets'[registry'[s]].open /\ speaks'[registry'[s]] = s
    <2> SUFFICES ASSUME NEW s \in Surfaces, registry'[s] # None
                 PROVE  /\ registry'[s] <= joined' /\ sockets'[registry'[s]].open
                        /\ speaks'[registry'[s]] = s
      OBVIOUS
    <2>1. registry'[s] = registry[s] /\ registry[s] \in Joins /\ registry[s] \notin full
      BY <1>8
    <2>2. registry[s] <= joined /\ sockets[registry[s]].open /\ speaks[registry[s]] = s
      BY <2>1 DEF PlacesFit
    <2> QED
      BY <1>1, <1>5, <2>1, <2>2
  <1>10. joined' \in 0..MaxJoins /\ \A c \in Joins : Len(sockets'[c].outbox) <= Outbox
    BY <1>2, <1>5
  <1> QED
    BY <1>6, <1>7, <1>9, <1>10 DEF PlacesFit

\* An entry that is kept is of words that were said.
LEMMA NumberedWords ==
  ASSUME NEW entries, NEW bound, Numbered(entries, bound)
  PROVE  /\ \A i \in 1..Len(entries) : entries[i] \in Items
         /\ \A i \in 1..Len(entries) :
              /\ entries[i].id \in 1..MaxSaid
              /\ entries[i].offer \in {"none", "open", "taken"}
  <1>1. entries \in Seq(Items)
    BY DEF Numbered
  <1>2. \A i \in 1..Len(entries) : entries[i] \in Items
    BY <1>1
  <1> QED
    BY <1>2 DEF Items

\* What is in the ring after a push was in it before, or is new.
LEMMA RecordKeeps ==
  ASSUME FeedInv, NEW offer \in {"none", "open"}, Record(offer)
  PROVE  FeedInv'
  <1> DEFINE id == last + 1
             entry == [id |-> id, offer |-> offer]
             pushed == Push(ring, next, entry)
  <1>1. /\ last < MaxSaid /\ last' = id /\ ring' = pushed.entries /\ next' = pushed.next
        /\ Persist /\ Broadcast([id |-> id, offer |-> offer])
        /\ UNCHANGED <<joined, taken>>
    BY DEF Record
  <1>2. MaxSaid \in Nat /\ last \in 0..MaxSaid /\ id \in 1..MaxSaid
    BY <1>1, FeedAssumption DEF FeedInv, HistoryFits
  <1>3. /\ Numbered(pushed.entries, pushed.next - 1) /\ pushed.next \in 1..LastSequence
        /\ PushedFrom(pushed.entries, ring, entry)
    <2>1. next \in 1..LastSequence /\ Numbered(ring, next - 1)
      BY DEF FeedInv, HistoryFits
    <2> QED
      BY <1>2, <2>1, PushFits
  <1> HIDE DEF pushed
  <1>4. Numbered(ring', next' - 1) /\ next' \in 1..LastSequence /\ PushedFrom(ring', ring, entry)
    BY <1>1, <1>3
  <1>5. Numbered(ring', LastSequence)
    <2>1. LastSequence \in Nat
      BY FeedAssumption
    <2>2. \A i \in 1..Len(ring') : ring'[i].sequence \in 1..LastSequence
      BY <1>4, <2>1 DEF Numbered
    <2> QED
      BY <1>4, <2>2 DEF Numbered
  <1>6. /\ \A i \in 1..Len(ring) : ring[i].id <= last /\ ring[i].id \in 1..MaxSaid
        /\ \A i \in 1..Len(disk) : disk[i].id <= last /\ disk[i].id \in 1..MaxSaid
    <2>1. /\ Numbered(ring, next - 1) /\ Numbered(disk, LastSequence) /\ Known(ring) /\ Known(disk)
      BY DEF FeedInv, HistoryFits
    <2>2. \A i \in 1..Len(ring) : ring[i].id \in 1..MaxSaid
      BY <2>1, NumberedWords
    <2>3. \A i \in 1..Len(disk) : disk[i].id \in 1..MaxSaid
      BY <2>1, NumberedWords
    <2> QED
      BY <2>1, <2>2, <2>3 DEF Known
  <1>7. \A i \in 1..Len(ring') : ring'[i].id <= last'
    BY <1>1, <1>2, <1>4, <1>6 DEF PushedFrom
  <1>8. \A i \in 1..Len(disk) : disk[i].id <= last'
    BY <1>1, <1>2, <1>6
  <1>9. disk' = ring' \/ disk' = disk
    BY <1>1 DEF Persist
  <1>10. HistoryFits'
    <2>1. Numbered(disk, LastSequence)
      BY DEF FeedInv, HistoryFits
    <2>2. Numbered(disk', LastSequence)
      BY <1>5, <1>9, <2>1
    <2>3. Known(ring)' /\ Known(disk)'
      BY <1>7, <1>8, <1>9 DEF Known
    <2>4. last' \in 0..MaxSaid
      BY <1>1, <1>2
    <2> QED
      BY <1>4, <2>2, <2>3, <2>4 DEF HistoryFits
  <1>11. PlacesFit'
    <2>1. [id |-> id, offer |-> offer] \in Lines
      BY <1>2 DEF Lines
    <2> QED
      BY <1>1, <2>1, BroadcastFits DEF FeedInv
  <1>12. OffersFit'
    <2>1. /\ taken' = taken /\ taken \in [1..MaxSaid -> 0..1]
          /\ \A i \in 1..Len(ring) : ring[i].offer = "open" => taken[ring[i].id] = 0
          /\ \A word \in 1..MaxSaid : word > last => taken[word] = 0
      BY <1>1 DEF FeedInv, OffersFit
    <2>2. taken[id] = 0 /\ \A word \in 1..MaxSaid : word > last' => taken[word] = 0
      BY <1>1, <1>2, <2>1
    <2>3. \A i \in 1..Len(ring') : ring'[i].offer = "open" => taken[ring'[i].id] = 0
      BY <1>4, <2>1, <2>2 DEF PushedFrom
    <2> QED
      BY <2>1, <2>2, <2>3 DEF OffersFit
  <1> QED
    BY <1>10, <1>11, <1>12 DEF FeedInv

\* The mark is kept before the work is handed out: the offer is not open again
\* in this run.
LEMMA TakesOfferKeeps ==
  ASSUME FeedInv, NEW c \in Joins, NEW id \in 1..MaxSaid, TakesOffer(c, id)
  PROVE  FeedInv'
  <1>1. /\ ring' = MarkTaken(ring, id) /\ Persist /\ Broadcast([id |-> id, offer |-> "spent"])
        /\ taken' \in {taken, [taken EXCEPT ![id] = @ + 1]}
        /\ UNCHANGED <<joined, next, last>>
        /\ \E i \in DOMAIN ring : ring[i].id = id /\ ring[i].offer = "open"
    BY DEF TakesOffer
  <1>2. /\ Numbered(ring, next - 1) /\ next \in 1..LastSequence /\ Numbered(disk, LastSequence)
        /\ last \in 0..MaxSaid /\ Known(ring) /\ Known(disk)
    BY DEF FeedInv, HistoryFits
  <1>3. /\ Numbered(ring', next - 1) /\ Len(ring') = Len(ring)
        /\ \A i \in 1..Len(ring) :
             /\ ring'[i].id = ring[i].id
             /\ ring'[i].offer = IF ring[i].id = id THEN "taken" ELSE ring[i].offer
    BY <1>1, <1>2, MarkFits
  <1>4. Numbered(ring', LastSequence)
    <2>1. LastSequence \in Nat
      BY FeedAssumption
    <2>2. \A i \in 1..Len(ring') : ring'[i].sequence \in 1..LastSequence
      BY <1>2, <1>3, <2>1 DEF Numbered
    <2> QED
      BY <1>3, <2>2 DEF Numbered
  <1>5. disk' = ring' \/ disk' = disk
    BY <1>1 DEF Persist
  <1>6. HistoryFits'
    <2>1. Numbered(disk', LastSequence)
      BY <1>2, <1>4, <1>5
    <2>2. \A i \in 1..Len(ring') : ring'[i].id <= last'
      BY <1>1, <1>2, <1>3 DEF Known
    <2>3. \A i \in 1..Len(disk') : disk'[i].id <= last'
      BY <1>1, <1>2, <1>5, <2>2 DEF Known
    <2>4. Known(ring)' /\ Known(disk)'
      BY <2>2, <2>3 DEF Known
    <2> QED
      BY <1>1, <1>2, <1>3, <2>1, <2>4 DEF HistoryFits
  <1>7. PlacesFit'
    <2>1. [id |-> id, offer |-> "spent"] \in Lines
      BY DEF Lines
    <2> QED
      BY <1>1, <2>1, BroadcastFits DEF FeedInv
  <1>8. OffersFit'
    <2>1. /\ taken \in [1..MaxSaid -> 0..1]
          /\ \A i \in 1..Len(ring) : ring[i].offer = "open" => taken[ring[i].id] = 0
          /\ \A word \in 1..MaxSaid : word > last => taken[word] = 0
      BY DEF FeedInv, OffersFit
    <2>2. Len(ring) \in Nat /\ DOMAIN ring = 1..Len(ring)
      BY <1>2 DEF Numbered
    <2>3. taken[id] = 0 /\ id <= last
      BY <1>1, <1>2, <2>1, <2>2 DEF Known
    <2>4. /\ taken' \in [1..MaxSaid -> 0..1]
          /\ \A word \in 1..MaxSaid : word # id => taken'[word] = taken[word]
      <3>1. CASE taken' = taken
        BY <2>1, <3>1
      <3>2. CASE taken' = [taken EXCEPT ![id] = @ + 1]
        <4>1. taken' = [taken EXCEPT ![id] = 1]
          BY <2>3, <3>2
        <4> QED
          BY <2>1, <4>1
      <3> QED
        BY <1>1, <3>1, <3>2
    <2>5. \A i \in 1..Len(ring) : ring[i].id \in 1..MaxSaid
      BY <1>2, NumberedWords
    <2>6. \A i \in 1..Len(ring') : ring'[i].offer = "open" => taken'[ring'[i].id] = 0
      BY <1>3, <2>1, <2>4, <2>5
    <2>7. \A word \in 1..MaxSaid : word > last' => taken'[word] = 0
      BY <1>1, <1>2, <2>1, <2>3, <2>4
    <2> QED
      BY <2>4, <2>6, <2>7 DEF OffersFit
  <1> QED
    BY <1>6, <1>7, <1>8 DEF FeedInv

\* The next run opens what was stored, and has handed out nothing.
LEMMA RestartKeeps == FeedInv /\ Restart => FeedInv'
  <1> SUFFICES ASSUME FeedInv, Restart PROVE FeedInv'
    OBVIOUS
  <1>1. /\ ring' = Reopened(disk) /\ next' = NextAfter(disk)
        /\ taken' = [id \in 1..MaxSaid |-> 0]
        /\ registry' = [s \in Surfaces |-> None] /\ speaks' = [c \in Joins |-> Nobody]
        /\ sockets' = [c \in Joins |-> Shut] /\ UNCHANGED <<joined, disk, last>>
    BY DEF Restart
  <1>2. /\ Numbered(disk, LastSequence) /\ last \in 0..MaxSaid /\ Known(disk)
    BY DEF FeedInv, HistoryFits
  <1>3. /\ Numbered(ring', next' - 1) /\ next' \in 1..LastSequence /\ Within(ring', disk)
    BY <1>1, <1>2, ReopenFits
  <1>4. \A i \in 1..Len(ring') : ring'[i].id <= last' /\ ring'[i].id \in 1..MaxSaid
    <2>1. \A i \in 1..Len(disk) : disk[i].id \in 1..MaxSaid
      BY <1>2, NumberedWords
    <2> QED
      BY <1>1, <1>2, <1>3, <2>1 DEF Within, Known
  <1>5. HistoryFits'
    BY <1>1, <1>2, <1>3, <1>4 DEF HistoryFits, Known
  <1>6. PlacesFit'
    <2>1. Shut \in Sockets /\ Len(Shut.outbox) = 0 /\ 0 <= Outbox
      BY FeedAssumption DEF Shut, Sockets
    <2>2. joined' \in 0..MaxJoins /\ MaxJoins \in Nat
      BY <1>1, FeedAssumption DEF FeedInv, PlacesFit
    <2> QED
      BY <1>1, <2>1, <2>2 DEF PlacesFit, None
  <1>7. OffersFit'
    BY <1>1, <1>4 DEF OffersFit
  <1> QED
    BY <1>5, <1>6, <1>7 DEF FeedInv

\* What is not the history is not touched by a surface that comes, reads or goes.
LEMMA HistoryStays ==
  ASSUME FeedInv, UNCHANGED <<ring, next, disk, last, taken>>
  PROVE  HistoryFits' /\ OffersFit'
  <1>1. HistoryFits' = HistoryFits /\ OffersFit' = OffersFit
    BY DEF HistoryFits, OffersFit, Known, Numbered
  <1> QED
    BY <1>1 DEF FeedInv

\* A surface that joins is given a connection nobody had.
LEMMA JoinKeeps ==
  ASSUME FeedInv, NEW s \in Surfaces, Join(s)
  PROVE  FeedInv'
  <1> DEFINE line(i) == [id |-> ring[i].id, offer |-> ring[i].offer]
             fresh == [open |-> TRUE, name |-> s, read |-> <<>>,
                       outbox |-> [i \in DOMAIN ring |-> line(i)]]
  <1>1. /\ joined < MaxJoins /\ joined' = joined + 1
        /\ registry' = [registry EXCEPT ![s] = joined']
        /\ speaks' = [c \in Joins |-> IF c = joined' THEN s
                                      ELSE IF c = registry[s] THEN Nobody ELSE speaks[c]]
        /\ sockets' = [sockets EXCEPT ![joined'] = fresh]
        /\ UNCHANGED <<ring, next, disk, last, taken>>
    BY DEF Join, history
  <1>2. /\ joined \in 0..MaxJoins /\ MaxJoins \in Nat /\ joined' \in Joins
        /\ Outbox \in Nat /\ Entries \in Nat /\ Outbox > Entries /\ joined' # joined
    BY <1>1, FeedAssumption DEF FeedInv, PlacesFit, Joins
  <1>3. fresh \in Sockets /\ Len(fresh.outbox) <= Outbox /\ fresh.open
    <2>1. /\ ring \in Seq(Items) /\ DOMAIN ring = 1..Len(ring)
          /\ Len(ring) \in Nat /\ Len(ring) <= Entries
      BY DEF FeedInv, HistoryFits, Numbered
    <2>2. \A i \in 1..Len(ring) : line(i) \in Lines
      <3>1. Numbered(ring, next - 1)
        BY DEF FeedInv, HistoryFits
      <3>2. \A i \in 1..Len(ring) :
              ring[i].id \in 1..MaxSaid /\ ring[i].offer \in {"none", "open", "taken"}
        BY <3>1, NumberedWords
      <3> QED
        BY <3>2 DEF Lines
    <2>3. /\ [i \in 1..Len(ring) |-> line(i)] \in Seq(Lines)
          /\ Len([i \in 1..Len(ring) |-> line(i)]) = Len(ring)
      BY <2>1, <2>2
    <2> HIDE DEF line
    <2> QED
      BY <1>2, <2>1, <2>3 DEF Sockets
  <1> HIDE DEF fresh
  <1>4. /\ registry \in [Surfaces -> 0..MaxJoins] /\ speaks \in [Joins -> Surfaces \cup {Nobody}]
        /\ sockets \in [Joins -> Sockets] /\ \A c \in Joins : Len(sockets[c].outbox) <= Outbox
        /\ \A n \in Surfaces : registry[n] # None =>
             /\ registry[n] <= joined /\ sockets[registry[n]].open /\ speaks[registry[n]] = n
    BY DEF FeedInv, PlacesFit
  <1>5. \A n \in Surfaces : registry'[n] # None =>
          /\ registry'[n] <= joined' /\ sockets'[registry'[n]].open /\ speaks'[registry'[n]] = n
    <2> SUFFICES ASSUME NEW n \in Surfaces, registry'[n] # None
                 PROVE  /\ registry'[n] <= joined' /\ sockets'[registry'[n]].open
                        /\ speaks'[registry'[n]] = n
      OBVIOUS
    <2>1. CASE n = s
      BY <1>1, <1>2, <1>3, <1>4, <2>1
    <2>2. CASE n # s
      <3>1. registry'[n] = registry[n] /\ registry[n] \in Joins /\ registry[n] <= joined
        BY <1>1, <1>2, <1>4, <2>2 DEF None, Joins
      <3>2. registry[n] # joined' /\ registry[n] # registry[s]
        BY <1>1, <1>2, <1>4, <2>2, <3>1
      <3> QED
        BY <1>1, <1>2, <1>4, <3>1, <3>2
    <2> QED
      BY <2>1, <2>2
  <1>6. PlacesFit'
    <2>1. registry' \in [Surfaces -> 0..MaxJoins] /\ speaks' \in [Joins -> Surfaces \cup {Nobody}]
      BY <1>1, <1>2, <1>4 DEF Joins
    <2>2. sockets' \in [Joins -> Sockets]
      BY <1>1, <1>3, <1>4
    <2>3. \A c \in Joins : Len(sockets'[c].outbox) <= Outbox
      BY <1>1, <1>3, <1>4
    <2>4. joined' \in 0..MaxJoins
      BY <1>1, <1>2
    <2> QED
      BY <1>5, <2>1, <2>2, <2>3, <2>4 DEF PlacesFit
  <1> QED
    BY <1>1, <1>6, HistoryStays DEF FeedInv

\* Nobody is left registered on a socket that closed.
LEMMA ClosesKeeps ==
  ASSUME FeedInv, NEW c \in Joins, Closes(c)
  PROVE  FeedInv'
  <1>1. /\ sockets' = [sockets EXCEPT ![c] = Shut] /\ registry' = Unheld(c)
        /\ speaks' = [speaks EXCEPT ![c] = Nobody]
        /\ UNCHANGED <<joined, ring, next, disk, last, taken>>
    BY DEF Closes, history
  <1>2. Shut \in Sockets /\ Len(Shut.outbox) = 0 /\ 0 <= Outbox /\ MaxJoins \in Nat
    BY FeedAssumption DEF Shut, Sockets
  <1>3. /\ registry \in [Surfaces -> 0..MaxJoins] /\ speaks \in [Joins -> Surfaces \cup {Nobody}]
        /\ sockets \in [Joins -> Sockets] /\ \A d \in Joins : Len(sockets[d].outbox) <= Outbox
        /\ joined \in 0..MaxJoins
        /\ \A n \in Surfaces : registry[n] # None =>
             /\ registry[n] <= joined /\ sockets[registry[n]].open /\ speaks[registry[n]] = n
    BY DEF FeedInv, PlacesFit
  <1>4. \A n \in Surfaces : registry'[n] # None =>
          registry'[n] = registry[n] /\ registry[n] \in Joins \ {c}
    BY <1>1, <1>2, <1>3 DEF Unheld, None, Joins
  <1>5. \A n \in Surfaces : registry'[n] # None =>
          /\ registry'[n] <= joined' /\ sockets'[registry'[n]].open /\ speaks'[registry'[n]] = n
    BY <1>1, <1>3, <1>4
  <1>6. registry' \in [Surfaces -> 0..MaxJoins] /\ speaks' \in [Joins -> Surfaces \cup {Nobody}]
    BY <1>1, <1>2, <1>3 DEF Unheld, None
  <1>7. sockets' \in [Joins -> Sockets] /\ \A d \in Joins : Len(sockets'[d].outbox) <= Outbox
    BY <1>1, <1>2, <1>3
  <1>8. PlacesFit'
    BY <1>1, <1>3, <1>5, <1>6, <1>7 DEF PlacesFit
  <1> QED
    BY <1>1, <1>8, HistoryStays DEF FeedInv

LEMMA TakesKeeps ==
  ASSUME FeedInv, NEW c \in Joins, Takes(c)
  PROVE  FeedInv'
  <1>1. /\ sockets[c].outbox # <<>>
        /\ sockets' = [sockets EXCEPT ![c].outbox = Tail(@),
                                      ![c].read = Append(@, Head(sockets[c].outbox))]
        /\ UNCHANGED <<registry, speaks, joined, ring, next, disk, last, taken>>
    BY DEF Takes, history
  <1>2. /\ registry \in [Surfaces -> 0..MaxJoins] /\ speaks \in [Joins -> Surfaces \cup {Nobody}]
        /\ sockets \in [Joins -> Sockets] /\ \A d \in Joins : Len(sockets[d].outbox) <= Outbox
        /\ joined \in 0..MaxJoins /\ MaxJoins \in Nat /\ Outbox \in Nat
        /\ \A n \in Surfaces : registry[n] # None =>
             /\ registry[n] <= joined /\ sockets[registry[n]].open /\ speaks[registry[n]] = n
    BY FeedAssumption DEF FeedInv, PlacesFit
  <1>3. sockets[c] \in Sockets
    BY <1>2
  <1>4. /\ Tail(sockets[c].outbox) \in Seq(Lines)
        /\ Len(Tail(sockets[c].outbox)) <= Outbox
        /\ Append(sockets[c].read, Head(sockets[c].outbox)) \in Seq(Lines)
    BY <1>1, <1>2, <1>3 DEF Sockets
  <1>5. /\ sockets'[c] \in Sockets /\ Len(sockets'[c].outbox) <= Outbox
        /\ sockets'[c].open = sockets[c].open
        /\ \A d \in Joins \ {c} : sockets'[d] = sockets[d]
    <2>1. sockets'[c] = [sockets[c] EXCEPT !.outbox = Tail(sockets[c].outbox),
                                           !.read = Append(@, Head(sockets[c].outbox))]
      BY <1>1, <1>2
    <2>2. \A d \in Joins \ {c} : sockets'[d] = sockets[d]
      BY <1>1, <1>2
    <2>3. /\ sockets'[c] \in Sockets /\ sockets'[c].outbox = Tail(sockets[c].outbox)
          /\ sockets'[c].open = sockets[c].open
      BY <1>3, <1>4, <2>1 DEF Sockets
    <2> QED
      BY <1>4, <2>2, <2>3
  <1>6. sockets' \in [Joins -> Sockets]
    BY <1>1, <1>2, <1>5
  <1>7. \A d \in Joins : Len(sockets'[d].outbox) <= Outbox /\ sockets'[d].open = sockets[d].open
    BY <1>2, <1>5
  <1>8. \A n \in Surfaces : registry[n] # None => registry[n] \in Joins
    BY <1>2 DEF Joins, None
  <1>9. PlacesFit'
    BY <1>1, <1>2, <1>6, <1>7, <1>8 DEF PlacesFit
  <1> QED
    BY <1>1, <1>9, HistoryStays DEF FeedInv

\* Every step of the feed keeps its invariant.
LEMMA FeedStep == FeedInv /\ [Next]_vars => FeedInv'
  <1> SUFFICES ASSUME FeedInv, [Next]_vars PROVE FeedInv'
    OBVIOUS
  <1>1. CASE UNCHANGED vars
    <2>1. PlacesFit' = PlacesFit
      BY <1>1 DEF PlacesFit, vars, channel
    <2> QED
      BY <1>1, <2>1, HistoryStays DEF FeedInv, vars, history
  <1>2. CASE Next
    BY <1>2, JoinKeeps, ClosesKeeps, TakesKeeps, TakesOfferKeeps, RecordKeeps, RestartKeeps DEF Next
  <1> QED
    BY <1>1, <1>2

\* The numbers, the places and the offers of the conversation stay as they
\* should, for any number of surfaces, words and restarts.
THEOREM FeedInvariant == Spec => []FeedInv
  BY FeedInit, FeedStep, PTL DEF Spec

\* Nothing of the feed outgrows its bound: an outbox, the ring or a number.
LEMMA FeedTyped == FeedInv => TypeOK
  <1> SUFFICES ASSUME FeedInv PROVE TypeOK
    OBVIOUS
  <1>1. \A c \in Joins : Range(sockets[c].outbox) \cup Range(sockets[c].read) \subseteq Lines
    <2> TAKE c \in Joins
    <2>1. sockets[c].outbox \in Seq(Lines) /\ sockets[c].read \in Seq(Lines)
      BY DEF FeedInv, PlacesFit, Sockets
    <2> QED
      BY <2>1 DEF Range
  <1>2. Len(ring) <= Entries /\ Len(disk) <= Entries /\ next \in 1..LastSequence
    BY DEF FeedInv, HistoryFits, Numbered
  <1>3. \A i \in DOMAIN ring : ring[i].sequence \in 1..next - 1
    BY DEF FeedInv, HistoryFits, Numbered
  <1> QED
    BY <1>1, <1>2, <1>3 DEF FeedInv, PlacesFit, TypeOK

\* The work behind an offer is handed out at most once (take_offer), whoever
\* presses, on however many screens, and whether or not the mark was stored.
THEOREM OffersAreWorkedOnce == Spec => []OfferWorkedOnce
  <1>1. FeedInv => OfferWorkedOnce
    BY DEF FeedInv, OffersFit, OfferWorkedOnce
  <1> QED
    BY <1>1, FeedInvariant, PTL

\* A name passes on only to a newer connection, or from one that closed or
\* could not keep up: a connection that was replaced takes nothing with it when
\* its reader ends later (unregister_surface).
THEOREM NamesPassOn == Spec => NameIsKept
  <1> DEFINE Passed(s) ==
        LET c == registry[s]
        IN  c # None /\ registry'[s] # c =>
              \/ registry'[s] = joined' /\ joined' > joined
              \/ ~sockets'[c].open
              \/ Len(sockets[c].outbox) >= Outbox
  <1>1. FeedInv /\ [Next]_vars => [\A s \in Surfaces : Passed(s)]_vars
    <2> SUFFICES ASSUME FeedInv, Next, NEW s \in Surfaces PROVE Passed(s)
      OBVIOUS
    <2>1. /\ joined \in 0..MaxJoins /\ MaxJoins \in Nat /\ registry \in [Surfaces -> 0..MaxJoins]
          /\ sockets \in [Joins -> Sockets] /\ ~Shut.open
          /\ (registry[s] # None => registry[s] \in Joins)
      BY FeedAssumption DEF FeedInv, PlacesFit, Joins, None, Shut
    <2>2. ASSUME NEW n \in Surfaces, Join(n) PROVE Passed(s)
      BY <2>1, <2>2 DEF Join
    <2>3. ASSUME NEW c \in Joins, Closes(c) PROVE Passed(s)
      BY <2>1, <2>3 DEF Closes, Unheld
    <2>4. ASSUME NEW c \in Joins, Takes(c) PROVE Passed(s)
      BY <2>4 DEF Takes
    <2>5. ASSUME NEW line, Broadcast(line) PROVE Passed(s)
      BY <2>1, <2>5 DEF Broadcast
    <2>6. ASSUME Restart PROVE Passed(s)
      BY <2>1, <2>6 DEF Restart
    <2> HIDE DEF Passed
    <2>7. ASSUME NEW c \in Joins, NEW id \in 1..MaxSaid, TakesOffer(c, id) PROVE Passed(s)
      BY <2>5, <2>7 DEF TakesOffer
    <2>8. ASSUME NEW offer \in {"none", "open"}, Record(offer) PROVE Passed(s)
      BY <2>5, <2>8 DEF Record
    <2> QED
      BY <2>2, <2>3, <2>4, <2>6, <2>7, <2>8 DEF Next
  <1> QED
    BY <1>1, FeedInvariant, PTL DEF Spec, NameIsKept

-----------------------------------------------------------------------------
(* The conversation window.                                                 *)

Composers ==
  [sending : 0..MaxTyped, files : SUBSET Files, withdrawn : SUBSET Files,
   trouble : {"none", "loading", "unavailable", "refused"}]

\* The link has a connection of its own, and so has every line written.
LinkFits ==
  /\ joined \in 0..MaxJoins
  /\ link \in [conn : 0..joined, replay : Nat, ready : BOOLEAN, ending : BOOLEAN]

WindowFits ==
  /\ typed \in 0..MaxTyped /\ composer \in Composers /\ composer.sending <= typed
  /\ wire \subseteq [conn : 1..joined, id : 1..typed] /\ spoken \in 0..MaxSaid
  /\ answers \in Seq([id : 1..typed, taken : BOOLEAN])

\* One line at a time: it is being written, or on the wire of the connection
\* there is, or answered.
OneLine ==
  /\ writing # NoWriting =>
       /\ writing \in [id : 1..typed, files : SUBSET Files, checked : BOOLEAN]
       /\ writing.id = composer.sending /\ writing.files = composer.withdrawn /\ answers = <<>>
  /\ answers # <<>> => Len(answers) = 1 /\ answers[1].id = composer.sending
  /\ ~link.ending => \A line \in wire : line.conn = link.conn =>
       line.id = composer.sending /\ answers = <<>> /\ writing = NoWriting
  /\ link.ending \/ link.conn = None => answers = <<>>

WindowInv == FeedInv /\ LinkFits /\ WindowFits /\ OneLine /\ WaitsForSomething

\* A connection that lost its name never has one again: names are given to new
\* connections only.
LEMMA NamesAreNotGivenBack ==
  ASSUME FeedInv, [Next]_vars
  PROVE  /\ joined' >= joined /\ joined' \in 0..MaxJoins
         /\ \A c \in 1..joined : ~Registered(c) => ~Registered(c)'
  <1>1. /\ joined \in 0..MaxJoins /\ MaxJoins \in Nat /\ registry \in [Surfaces -> 0..MaxJoins]
    BY FeedAssumption DEF FeedInv, PlacesFit
  <1> DEFINE Stays == joined' = joined /\ \A s \in Surfaces : registry'[s] \in {registry[s], None}
  <1>2. Stays => /\ joined' >= joined /\ joined' \in 0..MaxJoins
                 /\ \A c \in 1..joined : ~Registered(c) => ~Registered(c)'
    BY <1>1 DEF Registered, None
  <1>3. ASSUME NEW s \in Surfaces, Join(s)
        PROVE  /\ joined' >= joined /\ joined' \in 0..MaxJoins
               /\ \A c \in 1..joined : ~Registered(c) => ~Registered(c)'
    <2>1. /\ joined < MaxJoins /\ joined' = joined + 1
          /\ registry' = [registry EXCEPT ![s] = joined']
      BY <1>3 DEF Join
    <2>2. \A n \in Surfaces : registry'[n] = joined' \/ registry'[n] = registry[n]
      BY <1>1, <2>1
    <2> QED
      BY <1>1, <2>1, <2>2 DEF Registered
  <1>4. ASSUME NEW c \in Joins, Closes(c) PROVE Stays
    BY <1>1, <1>4 DEF Closes, Unheld
  <1>5. ASSUME NEW c \in Joins, Takes(c) PROVE Stays
    BY <1>1, <1>5 DEF Takes
  <1>6. ASSUME NEW c \in Joins, NEW id \in 1..MaxSaid, TakesOffer(c, id) PROVE Stays
    BY <1>1, <1>6 DEF TakesOffer, Broadcast
  <1>7. ASSUME NEW offer \in {"none", "open"}, Record(offer) PROVE Stays
    BY <1>1, <1>7 DEF Record, Broadcast
  <1>8. ASSUME Restart PROVE Stays
    BY <1>1, <1>8 DEF Restart
  <1>9. ASSUME UNCHANGED vars PROVE Stays
    BY <1>1, <1>9 DEF vars, channel
  <1> HIDE DEF Stays
  <1> QED
    BY <1>2, <1>3, <1>4, <1>5, <1>6, <1>7, <1>8, <1>9 DEF Next

\* Whatever the window does, its link or its service's reader, is a step of the
\* feed or none of its business.
LEMMA WindowSteps ==
  ASSUME LinkFits, [HudNext]_hudVars
  PROVE  [Next]_vars
  <1>1. Desk \in Surfaces /\ (link.conn # None => link.conn \in Joins)
    BY HudAssumption, FeedAssumption DEF LinkFits, Joins, None
  <1>2. CASE LinkConnects
    BY <1>1, <1>2 DEF LinkConnects, Next
  <1>3. CASE LinkReads
    BY <1>1, <1>3 DEF LinkReads, Next
  <1>4. CASE LinkReady \/ LinkAnswers \/ LinkEnds \/ LinkDisconnected
    BY <1>4 DEF LinkReady, LinkAnswers, LinkEnds, LinkDisconnected
  <1>5. CASE ComposerChanges \/ HudTyped \/ HudChecks \/ HudWrites
    BY <1>5 DEF ComposerChanges, HudTyped, HudChecks, HudWrites, Returns
  <1>6. CASE ServiceReads
    <2>1. UNCHANGED vars \/ Record("none")
      BY <1>6 DEF ServiceReads
    <2> QED
      BY <2>1 DEF Next
  <1>7. CASE FeedSteps
    BY <1>7 DEF FeedSteps, Next
  <1>8. CASE UNCHANGED hudVars
    BY <1>8 DEF hudVars
  <1> QED
    BY <1>2, <1>3, <1>4, <1>5, <1>6, <1>7, <1>8 DEF HudNext

\* The link stays on a connection that was made.
LEMMA LinkStep ==
  ASSUME FeedInv, LinkFits, [HudNext]_hudVars
  PROVE  FeedInv' /\ LinkFits'
  <1>1. [Next]_vars
    BY WindowSteps
  <1>2. FeedInv'
    BY <1>1, FeedStep
  <1>3. joined' >= joined /\ joined' \in 0..MaxJoins /\ joined \in 0..MaxJoins
    BY <1>1, NamesAreNotGivenBack DEF LinkFits
  <1> DEFINE Links == [conn : 0..joined', replay : Nat, ready : BOOLEAN, ending : BOOLEAN]
  <1>4. /\ link \in [conn : 0..joined, replay : Nat, ready : BOOLEAN, ending : BOOLEAN]
        /\ link \in Links
    <2>1. MaxJoins \in Nat /\ 0..joined \subseteq 0..joined'
      BY <1>3, FeedAssumption
    <2> QED
      BY <2>1 DEF LinkFits
  <1>5. Ended \in Links
    BY <1>3 DEF Ended, None
  <1>6. CASE LinkConnects
    <2>1. link' = [Ended EXCEPT !.conn = joined', !.replay = Len(ring)]
      BY <1>6 DEF LinkConnects
    <2>2. Len(ring) \in Nat /\ joined' \in 0..joined'
      BY <1>3 DEF FeedInv, HistoryFits, Numbered
    <2> QED
      BY <1>2, <1>3, <2>1, <2>2 DEF LinkFits, Ended
  <1>7. CASE LinkReads
    <2>1. link' = IF link.replay > 0 THEN [link EXCEPT !.replay = @ - 1] ELSE link
      BY <1>7 DEF LinkReads
    <2>2. link' \in Links
      BY <1>4, <2>1
    <2> QED
      BY <1>2, <1>3, <2>2 DEF LinkFits
  <1>8. CASE LinkReady
    BY <1>2, <1>3, <1>4, <1>8 DEF LinkFits, LinkReady
  <1>9. CASE LinkEnds
    <2>1. link' = Ended \/ link' = [link EXCEPT !.ready = FALSE, !.ending = TRUE]
      BY <1>9 DEF LinkEnds
    <2>2. link' \in Links
      BY <1>4, <1>5, <2>1
    <2> QED
      BY <1>2, <1>3, <2>2 DEF LinkFits
  <1>10. CASE LinkDisconnected
    BY <1>2, <1>3, <1>5, <1>10 DEF LinkFits, LinkDisconnected
  <1>11. CASE link' = link
    BY <1>2, <1>3, <1>4, <1>11 DEF LinkFits
  <1> QED
    BY <1>6, <1>7, <1>8, <1>9, <1>10, <1>11
    DEF HudNext, LinkAnswers, ComposerChanges, HudTyped, HudChecks, HudWrites, Returns,
        ServiceReads, FeedSteps, hudVars, window

LEMMA LinkInit == HudInit => FeedInv /\ LinkFits
  <1> SUFFICES ASSUME HudInit PROVE FeedInv /\ LinkFits
    OBVIOUS
  <1>1. FeedInv /\ joined = 0 /\ MaxJoins \in Nat
    BY FeedInit, FeedAssumption DEF HudInit, Init
  <1> QED
    BY <1>1 DEF HudInit, LinkFits, Ended, None

\* The conversation window is a client of the feed and no more: with it, the
\* service does what it does without (HudComposer implements ConversationFeed).
THEOREM WindowImplementsFeed == HudSpec => Spec
  <1>1. HudInit => Init
    BY DEF HudInit
  <1>2. FeedInv /\ LinkFits /\ [HudNext]_hudVars => (FeedInv /\ LinkFits)' /\ [Next]_vars
    BY LinkStep, WindowSteps
  <1> QED
    BY <1>1, <1>2, LinkInit, PTL DEF HudSpec, Spec

\* Under a desktop that presses, loses its connection and comes back, the work
\* behind an offer is still handed out once.
THEOREM OffersAreWorkedOnceHere == HudSpec => []OfferWorkedOnce
  BY WindowImplementsFeed, OffersAreWorkedOnce, PTL

-----------------------------------------------------------------------------
\* What the composer becomes, and that it waits no more once its line is
\* answered, returned or given up.
LEMMA ComposerFits ==
  ASSUME composer \in Composers
  PROVE  /\ GivenUp \in Composers /\ GivenUp.sending = NoLine
         /\ Ready \in Composers /\ Ready.sending = composer.sending
         /\ Ready.withdrawn = composer.withdrawn
         /\ Returned(composer.sending) \in Composers /\ Returned(composer.sending).sending = NoLine
         /\ Returned(composer.sending).files = composer.withdrawn
         /\ \A answer : answer.id = composer.sending =>
              Answered(answer) \in Composers /\ Answered(answer).sending = NoLine
  <1>1. \A trouble \in {"none", "loading", "unavailable", "refused"} :
          Settle(trouble) \in Composers /\ Settle(trouble).sending = NoLine
    <2> TAKE trouble \in {"none", "loading", "unavailable", "refused"}
    <2>1. Settle(trouble) = [composer EXCEPT !.sending = NoLine, !.trouble = trouble]
      BY DEF Settle
    <2>2. NoLine \in 0..MaxTyped
      BY HudAssumption DEF NoLine
    <2> QED
      BY <2>1, <2>2 DEF Composers
  <1>2. GivenUp \in Composers /\ GivenUp.sending = NoLine
    BY <1>1 DEF GivenUp
  <1>3. /\ Ready \in Composers /\ Ready.sending = composer.sending
        /\ Ready.withdrawn = composer.withdrawn
    BY DEF Ready, Composers
  <1>4. /\ Returned(composer.sending) \in Composers /\ Returned(composer.sending).sending = NoLine
        /\ Returned(composer.sending).files = composer.withdrawn
    BY <1>1 DEF Returned, Composers
  <1>5. ASSUME NEW answer, answer.id = composer.sending
        PROVE  Answered(answer) \in Composers /\ Answered(answer).sending = NoLine
    BY <1>1, <1>5 DEF Answered, Composers
  <1> QED
    BY <1>2, <1>3, <1>4, <1>5

\* A connection that holds its name speaks by it.
LEMMA RegisteredSpeaks ==
  ASSUME FeedInv, NEW c \in Joins, Registered(c)
  PROVE  Speaks(c)
  <1>1. PICK s \in Surfaces : registry[s] = c
    BY DEF Registered
  <1>2. c # None /\ s # Nobody
    BY FeedAssumption DEF Joins, None
  <1>3. sockets[c].open /\ speaks[c] = s
    BY <1>1, <1>2 DEF FeedInv, PlacesFit
  <1> QED
    BY <1>1, <1>2, <1>3 DEF Speaks

\* The first of a sequence is one of its members.
LEMMA FirstOf ==
  ASSUME NEW S, NEW s \in Seq(S)
  PROVE  s # <<>> => s[1] \in S
  <1>1. s # <<>> => 1 \in 1..Len(s)
    OBVIOUS
  <1> QED
    BY <1>1

\* The window's own part of the invariant.
Talk == WindowFits /\ OneLine /\ WaitsForSomething

\* What every step of the feed leaves of it, where the window stays as it is.
LEMMA FeedLeavesTalk ==
  ASSUME FeedInv, FeedInv', LinkFits, Talk, [Next]_vars,
         UNCHANGED <<link, composer, typed, writing, answers, spoken>>,
         wire' \subseteq wire,
         \A line \in wire \ wire' : line.conn = link.conn => ~Registered(line.conn)'
  PROVE  Talk'
  <1>1. joined' >= joined /\ \A c \in 1..joined : ~Registered(c) => ~Registered(c)'
    BY NamesAreNotGivenBack
  <1>2. WindowFits'
    <2>1. 1..joined \subseteq 1..joined'
      BY <1>1, NamesAreNotGivenBack DEF LinkFits
    <2>2. [conn : 1..joined, id : 1..typed] \subseteq [conn : 1..joined', id : 1..typed]
      BY <2>1
    <2> QED
      BY <2>2 DEF Talk, WindowFits
  <1>3. OneLine'
    BY DEF Talk, OneLine
  <1>4. WaitsForSomething'
    <2> DEFINE line == [conn |-> link.conn, id |-> composer.sending]
    <2>1. CASE composer.sending # NoLine /\ line \in wire /\ line \notin wire'
      <3>1. line.conn = link.conn /\ link.conn # None
        BY <2>1 DEF Talk, WindowFits, None
      <3>2. ~Registered(link.conn)'
        BY <2>1, <3>1
      <3> QED
        BY <3>1, <3>2 DEF WaitsForSomething
    <2>2. CASE link.conn # None /\ ~Registered(link.conn)
      <3>1. ~Registered(link.conn)'
        BY <1>1, <2>2 DEF LinkFits, None
      <3> QED
        BY <2>2, <3>1 DEF WaitsForSomething
    <2>3. CASE ~(link.conn # None /\ ~Registered(link.conn)) /\ (line \in wire => line \in wire')
      BY <2>3 DEF Talk, WaitsForSomething
    <2>4. CASE composer.sending = NoLine
      BY <2>4 DEF WaitsForSomething
    <2> QED
      BY <2>1, <2>2, <2>3, <2>4
  <1> QED
    BY <1>2, <1>3, <1>4 DEF Talk

\* The window starts on nothing.
LEMMA TalkInit == HudInit => Talk
  <1> SUFFICES ASSUME HudInit PROVE Talk
    OBVIOUS
  <1>1. MaxTyped \in Nat /\ MaxSaid \in Nat
    BY HudAssumption, FeedAssumption
  <1>2. WindowFits
    BY <1>1 DEF HudInit, WindowFits, Composers, NoLine
  <1>3. OneLine /\ WaitsForSomething
    BY DEF HudInit, OneLine, WaitsForSomething, NoLine
  <1> QED
    BY <1>2, <1>3 DEF Talk

\* A link that joins finds nothing answered on its new connection, and a line
\* that was waited for on the old one was given up.
LEMMA TalkConnects == FeedInv /\ LinkFits /\ Talk /\ LinkConnects => Talk'
  <1> SUFFICES ASSUME FeedInv, LinkFits, Talk, LinkConnects PROVE Talk'
    OBVIOUS
  <1>1. /\ link = Ended /\ joined' = joined + 1
        /\ link' = [Ended EXCEPT !.conn = joined', !.replay = Len(ring)]
        /\ composer' = [composer EXCEPT !.trouble = "loading"]
        /\ UNCHANGED <<typed, writing, wire, answers, spoken>>
    BY DEF LinkConnects, Join
  <1>2. joined \in Nat
    BY DEF LinkFits
  <1>3. /\ link.conn = None /\ ~link.ending /\ link'.conn = joined' /\ ~link'.ending
    BY <1>1 DEF Ended
  <1>4. answers = <<>>
    BY <1>3 DEF Talk, OneLine
  <1>5. /\ composer' \in Composers /\ composer'.sending = composer.sending
        /\ composer'.withdrawn = composer.withdrawn
    BY <1>1 DEF Talk, WindowFits, Composers
  <1>6. WindowFits'
    <2>1. [conn : 1..joined, id : 1..typed] \subseteq [conn : 1..joined', id : 1..typed]
      BY <1>1, <1>2
    <2> QED
      BY <1>1, <1>5, <2>1 DEF Talk, WindowFits
  <1>7. \A line \in wire : line.conn # joined' /\ line.conn # None
    BY <1>1, <1>2 DEF Talk, WindowFits, None
  <1>8. OneLine'
    BY <1>1, <1>3, <1>4, <1>5, <1>7 DEF Talk, OneLine
  <1>9. WaitsForSomething'
    <2>1. composer.sending # NoLine => writing.id = composer.sending
      BY <1>3, <1>4, <1>7 DEF Talk, WaitsForSomething
    <2> QED
      BY <1>1, <1>5, <2>1 DEF WaitsForSomething
  <1> QED
    BY <1>6, <1>8, <1>9 DEF Talk

LEMMA TalkReads == FeedInv /\ FeedInv' /\ LinkFits /\ Talk /\ LinkReads => Talk'
  <1> SUFFICES ASSUME FeedInv, FeedInv', LinkFits, Talk, LinkReads PROVE Talk'
    OBVIOUS
  <1> DEFINE line == Head(sockets[link.conn].outbox)
  <1>1. /\ link.conn # None /\ Takes(link.conn)
        /\ UNCHANGED <<composer, typed, wire, writing, answers>>
        /\ link' = IF link.replay > 0 THEN [link EXCEPT !.replay = @ - 1] ELSE link
        /\ spoken' \in {line.id, spoken}
    BY DEF LinkReads
  <1>2. link'.conn = link.conn /\ link'.ending = link.ending /\ link.conn \in Joins
    BY <1>1, FeedAssumption DEF LinkFits, Joins, None
  <1>3. line.id \in 0..MaxSaid
    <2>1. sockets[link.conn].outbox \in Seq(Lines) /\ sockets[link.conn].outbox # <<>>
      BY <1>1, <1>2 DEF FeedInv, PlacesFit, Sockets, Takes
    <2>2. line \in Lines
      BY <2>1
    <2> QED
      BY <2>2 DEF Lines
  <1>4. joined' = joined /\ registry' = registry
    BY <1>1 DEF Takes
  <1> HIDE DEF line
  <1>5. WindowFits'
    BY <1>1, <1>3, <1>4 DEF Talk, WindowFits
  <1>6. OneLine'
    BY <1>1, <1>2 DEF Talk, OneLine
  <1>7. WaitsForSomething'
    BY <1>1, <1>2, <1>4 DEF Talk, WaitsForSomething, Registered
  <1> QED
    BY <1>5, <1>6, <1>7 DEF Talk

LEMMA TalkReady == LinkFits /\ Talk /\ LinkReady => Talk'
  <1> SUFFICES ASSUME LinkFits, Talk, LinkReady PROVE Talk'
    OBVIOUS
  <1>1. /\ link' = [link EXCEPT !.ready = TRUE] /\ composer' = Ready
        /\ UNCHANGED <<vars, typed, writing, wire, answers, spoken>>
    BY DEF LinkReady
  <1>2. link'.conn = link.conn /\ link'.ending = link.ending
    BY <1>1 DEF LinkFits
  <1>3. /\ composer' \in Composers /\ composer'.sending = composer.sending
        /\ composer'.withdrawn = composer.withdrawn
    BY <1>1, ComposerFits DEF Talk, WindowFits
  <1>4. joined' = joined /\ registry' = registry
    BY <1>1 DEF vars, channel
  <1>5. WindowFits' /\ OneLine'
    BY <1>1, <1>2, <1>3, <1>4 DEF Talk, WindowFits, OneLine
  <1>6. WaitsForSomething'
    BY <1>1, <1>2, <1>3, <1>4 DEF Talk, WaitsForSomething, Registered
  <1> QED
    BY <1>5, <1>6 DEF Talk

\* The one answer there is is the line's the composer waits for.
LEMMA TalkAnswers == Talk /\ LinkAnswers => Talk'
  <1> SUFFICES ASSUME Talk, LinkAnswers PROVE Talk'
    OBVIOUS
  <1>1. /\ ~link.ending /\ answers # <<>> /\ answers' = Tail(answers)
        /\ composer' = Answered(Head(answers))
        /\ UNCHANGED <<vars, link, typed, writing, wire, spoken>>
    BY DEF LinkAnswers
  <1>2. /\ answers \in Seq([id : 1..typed, taken : BOOLEAN])
        /\ typed \in 0..MaxTyped /\ MaxTyped \in Nat
    BY HudAssumption DEF Talk, WindowFits
  <1>3. Len(answers) = 1 /\ answers[1].id = composer.sending
    BY <1>1 DEF Talk, OneLine
  <1>4. answers' = <<>> /\ Head(answers).id = composer.sending
    BY <1>1, <1>2, <1>3
  <1>5. composer' \in Composers /\ composer'.sending = NoLine
    BY <1>1, <1>4, ComposerFits DEF Talk, WindowFits
  <1>6. writing = NoWriting /\ \A line \in wire : line.conn # link.conn
    BY <1>1 DEF Talk, OneLine
  <1>7. WindowFits'
    <2>1. <<>> \in Seq([id : 1..typed, taken : BOOLEAN]) /\ NoLine <= typed
      BY <1>2 DEF NoLine
    <2> QED
      BY <1>1, <1>4, <1>5, <2>1 DEF Talk, WindowFits, vars, channel
  <1>8. OneLine' /\ WaitsForSomething'
    BY <1>1, <1>4, <1>5, <1>6 DEF OneLine, WaitsForSomething
  <1> QED
    BY <1>7, <1>8 DEF Talk

\* A connection that ends gives up the line that waited on it, unless it is
\* still being written, and is ended when it is not.
LEMMA TalkEnds ==
  ASSUME ~Hasty, LinkFits, Talk, LinkEnds \/ LinkDisconnected
  PROVE  Talk'
  <1>1. /\ UNCHANGED <<vars, typed, writing, wire, spoken>> /\ answers' = <<>>
        /\ \/ writing = NoWriting /\ link' = Ended /\ composer' = GivenUp
           \/ /\ writing # NoWriting /\ composer' = composer
              /\ link' = [link EXCEPT !.ready = FALSE, !.ending = TRUE]
    <2>1. CASE LinkEnds
      BY <2>1 DEF LinkEnds
    <2>2. CASE LinkDisconnected
      BY <2>2 DEF LinkDisconnected, Talk, OneLine
    <2> QED
      BY <2>1, <2>2
  <1>2. composer' \in Composers /\ composer'.sending \in {NoLine, composer.sending}
    BY <1>1, ComposerFits DEF Talk, WindowFits
  <1>3. WindowFits'
    <2>1. <<>> \in Seq([id : 1..typed, taken : BOOLEAN]) /\ NoLine <= typed
      BY HudAssumption DEF NoLine, Talk, WindowFits
    <2> QED
      BY <1>1, <1>2, <2>1 DEF Talk, WindowFits, vars, channel
  <1>4. CASE writing = NoWriting /\ link' = Ended /\ composer' = GivenUp
    <2>1. composer'.sending = NoLine
      BY <1>4, ComposerFits DEF Talk, WindowFits
    <2>2. link'.conn = None /\ \A line \in wire' : line.conn # None
      BY <1>1, <1>4 DEF Talk, WindowFits, Ended, LinkFits, None
    <2>3. OneLine' /\ WaitsForSomething'
      BY <1>1, <1>4, <2>1, <2>2 DEF OneLine, WaitsForSomething
    <2> QED
      BY <1>3, <2>3 DEF Talk
  <1>5. CASE /\ writing # NoWriting /\ composer' = composer
             /\ link' = [link EXCEPT !.ready = FALSE, !.ending = TRUE]
    <2>1. link'.ending
      BY <1>5 DEF LinkFits
    <2>2. OneLine' /\ WaitsForSomething'
      BY <1>1, <1>5, <2>1 DEF Talk, OneLine, WaitsForSomething
    <2> QED
      BY <1>3, <2>2 DEF Talk
  <1> QED
    BY <1>1, <1>4, <1>5

LEMMA TalkChanges == Talk /\ ComposerChanges => Talk'
  <1> SUFFICES ASSUME Talk, ComposerChanges PROVE Talk'
    OBVIOUS
  <1>1. PICK file \in Files :
          composer' = IF file \in composer.files
                      THEN [composer EXCEPT !.files = @ \ {file}]
                      ELSE [composer EXCEPT !.files = @ \cup {file}, !.trouble = "none"]
    BY DEF ComposerChanges
  <1>2. UNCHANGED <<vars, link, typed, writing, wire, answers, spoken>>
    BY DEF ComposerChanges
  <1>3. /\ composer' \in Composers /\ composer'.sending = composer.sending
        /\ writing' = NoWriting
    BY <1>1 DEF ComposerChanges, Talk, WindowFits, Composers
  <1>4. WindowFits' /\ OneLine'
    BY <1>2, <1>3 DEF Talk, WindowFits, OneLine, vars, channel
  <1>5. WaitsForSomething'
    BY <1>2, <1>3 DEF Talk, WaitsForSomething, Registered, vars, channel
  <1> QED
    BY <1>4, <1>5 DEF Talk

\* A new line is typed where none is waited for: nothing of an older one is on
\* the wire of this connection, or answered.
LEMMA TalkTyped == LinkFits /\ Talk /\ HudTyped => Talk'
  <1> SUFFICES ASSUME LinkFits, Talk, HudTyped PROVE Talk'
    OBVIOUS
  <1>1. /\ writing = NoWriting /\ composer.sending = NoLine
        /\ typed < MaxTyped /\ typed' = typed + 1
        /\ composer' = [sending |-> typed', files |-> {}, withdrawn |-> composer.files,
                        trouble |-> "none"]
        /\ writing' = [id |-> typed', files |-> composer.files, checked |-> FALSE]
        /\ UNCHANGED <<vars, link, wire, answers, spoken>>
    BY DEF HudTyped
  <1>2. /\ typed \in 0..MaxTyped /\ MaxTyped \in Nat /\ composer \in Composers
        /\ wire \subseteq [conn : 1..joined, id : 1..typed]
        /\ answers \in Seq([id : 1..typed, taken : BOOLEAN]) /\ spoken \in 0..MaxSaid
    BY HudAssumption DEF Talk, WindowFits
  <1>3. typed' \in 0..MaxTyped /\ typed' \in 1..typed' /\ typed' # NoLine /\ typed' <= typed'
    BY <1>1, <1>2 DEF NoLine
  <1>4. answers = <<>>
    <2>1. answers # <<>> => answers[1] \in [id : 1..typed, taken : BOOLEAN]
      BY <1>2, FirstOf
    <2>2. answers # <<>> => answers[1].id # NoLine
      BY <1>2, <2>1 DEF NoLine
    <2> QED
      BY <1>1, <2>2 DEF Talk, OneLine
  <1>5. ~link.ending => \A line \in wire : line.conn # link.conn
    BY <1>1, <1>2 DEF Talk, OneLine, NoLine
  <1>6. /\ composer' \in Composers /\ composer'.sending = typed'
        /\ composer'.withdrawn = composer.files
    BY <1>1, <1>2, <1>3 DEF Composers
  <1>7. WindowFits'
    <2>1. wire \subseteq [conn : 1..joined, id : 1..typed']
      <3>1. 1..typed \subseteq 1..typed'
        BY <1>1, <1>2
      <3> QED
        BY <1>2, <3>1
    <2>2. <<>> \in Seq([id : 1..typed', taken : BOOLEAN])
      OBVIOUS
    <2>3. joined' = joined
      BY <1>1 DEF vars, channel
    <2> QED
      BY <1>1, <1>2, <1>3, <1>4, <1>6, <2>1, <2>2, <2>3 DEF WindowFits
  <1>8. /\ writing' \in [id : 1..typed', files : SUBSET Files, checked : BOOLEAN]
        /\ writing'.id = typed' /\ writing'.files = composer.files
    BY <1>1, <1>2, <1>3 DEF Composers
  <1>9. OneLine' /\ WaitsForSomething'
    BY <1>1, <1>4, <1>5, <1>6, <1>8 DEF OneLine, WaitsForSomething
  <1> QED
    BY <1>7, <1>9 DEF Talk

\* A line that could not be written comes back, and nothing waits.
LEMMA TalkReturns == Talk /\ writing # NoWriting /\ Returns => Talk'
  <1> SUFFICES ASSUME Talk, writing # NoWriting, Returns PROVE Talk'
    OBVIOUS
  <1>1. /\ writing' = NoWriting /\ composer' = Returned(composer.sending)
        /\ UNCHANGED <<vars, link, typed, wire, answers, spoken>> /\ answers = <<>>
    BY DEF Returns, Talk, OneLine
  <1>2. composer' \in Composers /\ composer'.sending = NoLine
    BY <1>1, ComposerFits DEF Talk, WindowFits
  <1>3. NoLine <= typed
    BY HudAssumption DEF NoLine, Talk, WindowFits
  <1>4. WindowFits'
    BY <1>1, <1>2, <1>3 DEF Talk, WindowFits, vars, channel
  <1>5. ~link.ending => \A line \in wire : line.conn # link.conn
    BY DEF Talk, OneLine
  <1>6. OneLine' /\ WaitsForSomething'
    BY <1>1, <1>2, <1>5 DEF OneLine, WaitsForSomething
  <1> QED
    BY <1>4, <1>6 DEF Talk

LEMMA TalkChecks == Talk /\ HudChecks => Talk'
  <1> SUFFICES ASSUME Talk, HudChecks PROVE Talk'
    OBVIOUS
  <1>1. CASE Returns
    BY <1>1, TalkReturns DEF HudChecks
  <1>2. CASE writing' = [writing EXCEPT !.checked = TRUE]
             /\ UNCHANGED <<vars, link, composer, typed, wire, answers, spoken>>
    <2>1. /\ writing \in [id : 1..typed, files : SUBSET Files, checked : BOOLEAN]
          /\ writing.id = composer.sending /\ writing.files = composer.withdrawn /\ answers = <<>>
      BY DEF HudChecks, Talk, OneLine
    <2>2. /\ writing' \in [id : 1..typed, files : SUBSET Files, checked : BOOLEAN]
          /\ writing'.id = writing.id /\ writing'.files = writing.files
      BY <1>2, <2>1
    <2>3. ~link.ending => \A line \in wire : line.conn # link.conn
      BY DEF HudChecks, Talk, OneLine
    <2>4. WindowFits'
      BY <1>2 DEF Talk, WindowFits, vars, channel
    <2>5. OneLine' /\ WaitsForSomething'
      BY <1>2, <2>1, <2>2, <2>3 DEF Talk, OneLine, WaitsForSomething
    <2> QED
      BY <2>4, <2>5 DEF Talk
  <1> QED
    BY <1>1, <1>2 DEF HudChecks

\* A line that is written is waited for on the connection it was written to.
LEMMA TalkWrites == FeedInv /\ LinkFits /\ Talk /\ HudWrites => Talk'
  <1> SUFFICES ASSUME FeedInv, LinkFits, Talk, HudWrites PROVE Talk'
    OBVIOUS
  <1>0. writing # NoWriting
    BY DEF HudWrites, NoWriting
  <1>1. CASE Returns
    BY <1>0, <1>1, TalkReturns
  <1>2. CASE /\ link.conn # None /\ ~link.ending /\ writing' = NoWriting
             /\ wire' = wire \cup {[conn |-> link.conn, id |-> writing.id]}
             /\ UNCHANGED <<vars, link, composer, typed, answers, spoken>>
    <2>1. /\ writing.id \in 1..typed /\ writing.id = composer.sending /\ answers = <<>>
      BY <1>0 DEF Talk, OneLine
    <2>2. link.conn \in 1..joined
      BY <1>2 DEF LinkFits, None
    <2>3. \A line \in wire : line.conn # link.conn
      BY <1>0, <1>2 DEF Talk, OneLine
    <2>4. WindowFits'
      BY <1>2, <2>1, <2>2 DEF Talk, WindowFits, vars, channel
    <2>5. OneLine'
      BY <1>2, <2>1, <2>3 DEF OneLine
    <2>6. WaitsForSomething'
      BY <1>2, <2>1 DEF WaitsForSomething
    <2> QED
      BY <2>4, <2>5, <2>6 DEF Talk
  <1> QED
    BY <1>1, <1>2 DEF HudWrites

\* The service reads a line: the window waits on for its answer, if the line
\* came by the connection it still has, and else as it did before.
LEMMA TalkIsRead ==
  ASSUME FeedInv, FeedInv', LinkFits, Talk, [Next]_vars, ServiceReads
  PROVE  Talk'
  <1>1. PICK line \in wire :
          /\ wire' = wire \ {line}
          /\ IF ~Speaks(line.conn) THEN UNCHANGED <<vars, answers>>
             ELSE \E accepted \in BOOLEAN : Answer(line, accepted)
    BY DEF ServiceReads
  <1>2. UNCHANGED <<link, composer, typed, writing, spoken>>
    BY DEF ServiceReads
  <1>3. /\ line.conn \in 1..joined /\ line.id \in 1..typed
        /\ line = [conn |-> line.conn, id |-> line.id]
        /\ line.conn \in Joins
    BY FeedAssumption DEF Talk, WindowFits, LinkFits, Joins
  <1>4. CASE answers' = answers /\ (line.conn = link.conn => ~Registered(line.conn)')
    BY <1>1, <1>2, <1>4, FeedLeavesTalk
  <1>5. CASE answers' = answers /\ link.ending
    <2>1. joined' >= joined
      BY NamesAreNotGivenBack
    <2>2. WindowFits'
      <3>1. 1..joined \subseteq 1..joined'
        BY <2>1, NamesAreNotGivenBack DEF LinkFits
      <3>2. wire' \subseteq [conn : 1..joined', id : 1..typed]
        BY <1>1, <3>1 DEF Talk, WindowFits
      <3> QED
        BY <1>2, <1>5, <3>2 DEF Talk, WindowFits
    <2>3. OneLine' /\ WaitsForSomething'
      BY <1>1, <1>2, <1>5 DEF Talk, OneLine, WaitsForSomething
    <2> QED
      BY <2>2, <2>3 DEF Talk
  <1>6. ASSUME NEW accepted \in BOOLEAN, line.conn = link.conn, ~link.ending,
               answers' = Append(answers, [id |-> line.id, taken |-> accepted])
        PROVE  Talk'
    <2>1. line.id = composer.sending /\ answers = <<>> /\ writing = NoWriting
      BY <1>6 DEF Talk, OneLine
    <2>2. \A other \in wire' : other.conn # link.conn
      <3> SUFFICES ASSUME NEW other \in wire', other.conn = link.conn PROVE FALSE
        OBVIOUS
      <3>1. other \in wire /\ other # line
        BY <1>1
      <3>2. other.id = composer.sending /\ other = [conn |-> other.conn, id |-> other.id]
        BY <1>6, <3>1 DEF Talk, OneLine, WindowFits
      <3> QED
        BY <1>3, <1>6, <2>1, <3>1, <3>2
    <2>3. answers' = <<[id |-> line.id, taken |-> accepted]>>
      BY <1>6, <2>1
    <2>4. /\ Len(answers') = 1 /\ answers'[1].id = composer.sending /\ answers' # <<>>
          /\ 1 \in DOMAIN answers'
      BY <2>1, <2>3
    <2>5. answers' \in Seq([id : 1..typed, taken : BOOLEAN])
      BY <1>3, <2>3
    <2>6. WindowFits'
      <3>1. 1..joined \subseteq 1..joined'
        BY NamesAreNotGivenBack DEF LinkFits
      <3>2. wire' \subseteq [conn : 1..joined', id : 1..typed]
        BY <1>1, <3>1 DEF Talk, WindowFits
      <3> QED
        BY <1>2, <2>5, <3>2 DEF Talk, WindowFits
    <2>7. link.conn # None
      BY <1>3, <1>6 DEF None
    <2>8. OneLine'
      BY <1>2, <1>6, <2>1, <2>2, <2>4, <2>7 DEF OneLine
    <2>9. WaitsForSomething'
      BY <1>2, <2>4 DEF WaitsForSomething
    <2> QED
      BY <2>6, <2>8, <2>9 DEF Talk
  <1>7. CASE ~Speaks(line.conn)
    <2>1. ~Registered(line.conn) /\ answers' = answers
      BY <1>1, <1>3, <1>7, RegisteredSpeaks
    <2>2. ~Registered(line.conn)'
      BY <1>3, <2>1, NamesAreNotGivenBack
    <2> QED
      BY <1>4, <2>1, <2>2
  <1>8. CASE Speaks(line.conn)
    <2>1. PICK accepted \in BOOLEAN :
            answers' = IF line.conn = link.conn /\ ~link.ending
                       THEN Append(answers, [id |-> line.id, taken |-> accepted]) ELSE answers
      BY <1>1, <1>8 DEF Answer
    <2> QED
      BY <1>4, <1>5, <1>6, <2>1
  <1> QED
    BY <1>7, <1>8

\* Every step keeps what the window's invariant says.
LEMMA TalkStep ==
  ASSUME ~Hasty, FeedInv, FeedInv', LinkFits, Talk, [HudNext]_hudVars
  PROVE  Talk'
  <1>1. [Next]_vars
    BY WindowSteps
  <1>2. CASE FeedSteps
    <2>1. /\ wire' = {line \in wire : sockets'[line.conn].open}
          /\ UNCHANGED <<link, composer, typed, writing, answers, spoken>>
      BY <1>2 DEF FeedSteps, Unread
    <2>2. \A line \in wire \ wire' : ~Registered(line.conn)'
      <3> SUFFICES ASSUME NEW line \in wire, ~sockets'[line.conn].open, Registered(line.conn)'
                   PROVE  FALSE
        BY <2>1
      <3>1. line.conn # None
        BY DEF Talk, WindowFits, None
      <3> QED
        BY <3>1 DEF FeedInv, PlacesFit, Registered
    <2> QED
      BY <1>1, <2>1, <2>2, FeedLeavesTalk
  <1>3. CASE UNCHANGED hudVars
    <2>1. UNCHANGED <<link, composer, typed, writing, wire, answers, spoken>>
      BY <1>3 DEF hudVars, window
    <2> QED
      BY <1>1, <2>1, FeedLeavesTalk
  <1>4. CASE ServiceReads
    BY <1>1, <1>4, TalkIsRead
  <1> QED
    BY <1>2, <1>3, <1>4, TalkConnects, TalkReads, TalkReady, TalkAnswers, TalkEnds, TalkChanges,
       TalkTyped, TalkChecks, TalkWrites DEF HudNext

\* The conversation window's invariant, as long as its connection is not given
\* up under the line being written.
THEOREM WindowInvariant ==
  ASSUME ~Hasty
  PROVE  HudSpec => []WindowInv
  <1>1. HudInit => WindowInv
    BY LinkInit, TalkInit DEF WindowInv, Talk
  <1>2. WindowInv /\ [HudNext]_hudVars => WindowInv'
    <2> SUFFICES ASSUME WindowInv, [HudNext]_hudVars PROVE WindowInv'
      OBVIOUS
    <2>1. FeedInv /\ LinkFits /\ Talk
      BY DEF WindowInv, Talk
    <2>2. FeedInv' /\ LinkFits'
      BY <2>1, LinkStep
    <2>3. Talk'
      BY <2>1, <2>2, TalkStep
    <2> QED
      BY <2>2, <2>3 DEF WindowInv, Talk
  <1> QED
    BY <1>1, <1>2, PTL DEF HudSpec

\* The composer waits only for an answer that can come, and never refuses every
\* later line for one that nobody will answer (Conversation::dropped), whatever
\* order the link, the page and the service are in; and nothing of the window
\* or of the feed outgrows its bound.
THEOREM WindowStaysSound ==
  ASSUME ~Hasty
  PROVE  HudSpec => []WindowIsSound
  <1>1. WindowInv => HudTypeOK
    <2> SUFFICES ASSUME WindowInv PROVE HudTypeOK
      OBVIOUS
    <2>1. TypeOK
      BY FeedTyped DEF WindowInv
    <2>2. link.conn \in 0..MaxJoins
      BY FeedAssumption DEF WindowInv, LinkFits
    <2>3. /\ composer.sending \in 0..typed
          /\ composer.files \cup composer.withdrawn \subseteq Files
          /\ composer.trouble \in {"none", "loading", "unavailable", "refused"}
      BY HudAssumption DEF WindowInv, WindowFits, Composers
    <2>4. wire \subseteq [conn : Joins, id : 1..typed] /\ spoken \in 0..MaxSaid
      <3>1. 1..joined \subseteq Joins
        BY FeedAssumption DEF WindowInv, LinkFits, Joins
      <3> QED
        BY <3>1 DEF WindowInv, WindowFits
    <2>5. Len(answers) <= typed
      <3>1. /\ answers \in Seq([id : 1..typed, taken : BOOLEAN]) /\ typed \in Nat
            /\ (answers # <<>> => Len(answers) = 1)
        BY HudAssumption DEF WindowInv, WindowFits, OneLine
      <3>2. CASE answers = <<>>
        BY <3>1, <3>2
      <3>3. CASE answers # <<>>
        <4>1. answers[1] \in [id : 1..typed, taken : BOOLEAN]
          BY <3>1, <3>3, FirstOf
        <4>2. 1 <= typed
          BY <3>1, <4>1
        <4> QED
          BY <3>1, <3>3, <4>2
      <3> QED
        BY <3>2, <3>3
    <2> QED
      BY <2>1, <2>2, <2>3, <2>4, <2>5 DEF HudTypeOK
  <1>2. WindowInv => WindowIsSound
    BY <1>1 DEF WindowInv, WindowIsSound
  <1> QED
    BY <1>2, WindowInvariant, PTL

\* A line that could not be written is in the composer again, with the files
\* chosen for it, and the composer takes the next one (Conversation::returned),
\* however the flag, the writer and the end of the connection fell out.
THEOREM UnsentLinesComeBack ==
  ASSUME ~Hasty
  PROVE  HudSpec => UnsentComesBack
  <1> DEFINE Back == writing # NoWriting /\ writing' = NoWriting /\ wire' = wire =>
                       composer'.sending = NoLine /\ writing.files \subseteq composer'.files
  <1>1. WindowInv /\ [HudNext]_hudVars => [Back]_hudVars
    <2> SUFFICES ASSUME WindowInv, HudNext, writing # NoWriting, writing' = NoWriting, wire' = wire
                 PROVE  composer'.sending = NoLine /\ writing.files \subseteq composer'.files
      OBVIOUS
    <2>1. /\ writing.id = composer.sending /\ writing.files = composer.withdrawn
          /\ ~link.ending => \A line \in wire : line.conn # link.conn
          /\ composer \in Composers
      BY DEF WindowInv, OneLine, WindowFits
    <2>2. CASE Returns
      <3>1. composer' = Returned(composer.sending)
        BY <2>1, <2>2 DEF Returns
      <3> QED
        BY <2>1, <3>1, ComposerFits
    <2>3. CASE HudWrites /\ ~Returns
      <3>1. ~link.ending /\ wire' = wire \cup {[conn |-> link.conn, id |-> writing.id]}
        BY <2>3 DEF HudWrites
      <3>2. [conn |-> link.conn, id |-> writing.id] \in wire
        BY <3>1
      <3> QED
        BY <2>1, <3>1, <3>2
    <2>4. CASE HudChecks /\ ~Returns
      <3>1. writing' = [writing EXCEPT !.checked = TRUE]
        BY <2>4 DEF HudChecks
      <3>2. writing'.checked /\ ~NoWriting.checked
        BY <3>1 DEF WindowInv, OneLine, NoWriting
      <3> QED
        BY <3>2
    <2>5. CASE \/ LinkConnects \/ LinkReads \/ LinkReady \/ LinkAnswers \/ LinkEnds
               \/ LinkDisconnected \/ ComposerChanges \/ HudTyped \/ ServiceReads \/ FeedSteps
      BY <2>5 DEF LinkConnects, LinkReads, LinkReady, LinkAnswers, LinkEnds, LinkDisconnected,
                  ComposerChanges, HudTyped, ServiceReads, FeedSteps
    <2> QED
      BY <2>2, <2>3, <2>4, <2>5 DEF HudNext
  <1> QED
    BY <1>1, WindowInvariant, PTL DEF HudSpec, UnsentComesBack
=============================================================================
