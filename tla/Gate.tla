-------------------------------- MODULE Gate --------------------------------
(***************************************************************************)
(* The load/prove gate of one PJRT client: `Gate`, `GateState` and         *)
(* `GatePass` of bridge/src/artifact.rs.                                   *)
(*                                                                         *)
(* A critical section of the gate's mutex is one action.  A thread that    *)
(* finds its condition false goes to sleep on the condition variable in    *)
(* the same step ("parked"); a notify_all makes every sleeper runnable     *)
(* ("awake"), and a runnable thread evaluates its `while` condition again  *)
(* in a step of its own, by when another thread may have changed it.  The  *)
(* mutex is never held across a panic that matters: both `lock` and `wait` *)
(* take the state out of a poisoned lock.                                  *)
(***************************************************************************)
EXTENDS Naturals, FiniteSets

CONSTANTS Loads,   \* threads that load programs: preload workers, proves that load
          Proves   \* threads that prove

ASSUME ThreadsAssumption ==
    /\ Loads \cap Proves = {}
    /\ IsFiniteSet(Loads)
    /\ IsFiniteSet(Proves)

VARIABLES
    loadsInFlight,   \* GateState.loads_in_flight
    proving,         \* GateState.proving
    provesWaiting,   \* GateState.proves_waiting
    startedProving,  \* GateState.started_proving
    pc               \* where each thread is, with respect to the gate

vars == <<loadsInFlight, proving, provesWaiting, startedProving, pc>>

Threads == Loads \cup Proves

Waiting == {"parked", "awake"}

Init ==
    /\ loadsInFlight = 0
    /\ proving = FALSE
    /\ provesWaiting = 0
    /\ startedProving = FALSE
    /\ pc = [t \in Threads |-> "out"]

\* Mutant: the test of a load forgets the waiting proves.
LoadMayEnterDespiteWaiter == ~proving
\* Mutant: it forgets the prove that is in.
LoadMayEnterDespiteProve == provesWaiting = 0
LoadMayEnter == ~proving /\ provesWaiting = 0

ProveMayEnter == ~proving /\ loadsInFlight = 0

\* `t` moves to `to`, and cv.notify_all() makes every sleeper runnable.
MoveAndNotify(t, to) ==
    pc' = [u \in Threads |-> IF u = t THEN to
                             ELSE IF pc[u] = "parked" THEN "awake" ELSE pc[u]]

-----------------------------------------------------------------------------
\* The `while` of enter_load, reached from the call (`out`) or from a wake-up.
TestLoad(t) ==
    /\ \/ /\ LoadMayEnter
          /\ loadsInFlight' = loadsInFlight + 1
          /\ pc' = [pc EXCEPT ![t] = "in"]
       \/ /\ ~LoadMayEnter
          /\ pc' = [pc EXCEPT ![t] = "parked"]
          /\ UNCHANGED loadsInFlight
    /\ UNCHANGED <<proving, provesWaiting, startedProving>>

EnterLoad(t) == pc[t] = "out" /\ TestLoad(t)

RecheckLoad(t) == pc[t] = "awake" /\ TestLoad(t)

\* The `while` of enter_prove and what follows it, with `asked` the value of
\* proves_waiting once this prove is counted in it.
TestProve(t, asked) ==
    /\ \/ /\ ProveMayEnter
          /\ provesWaiting' = asked - 1
          /\ proving' = TRUE
          /\ startedProving' = TRUE
          /\ pc' = [pc EXCEPT ![t] = "in"]
       \/ /\ ~ProveMayEnter
          /\ provesWaiting' = asked
          /\ pc' = [pc EXCEPT ![t] = "parked"]
          /\ UNCHANGED <<proving, startedProving>>
    /\ UNCHANGED loadsInFlight

EnterProve(t) == pc[t] = "out" /\ TestProve(t, provesWaiting + 1)

\* Mutant: a prove counts itself again at every wake-up.
RecheckProveRecounted(t) == pc[t] = "awake" /\ TestProve(t, provesWaiting + 1)

RecheckProve(t) == pc[t] = "awake" /\ TestProve(t, provesWaiting)

\* std's condition variables may wake a thread for no reason.
SpuriousWakeup(t) ==
    /\ pc[t] = "parked"
    /\ pc' = [pc EXCEPT ![t] = "awake"]
    /\ UNCHANGED <<loadsInFlight, proving, provesWaiting, startedProving>>

\* Mutant: a load leaves and notifies nobody.
LeaveLoadSilently(t) ==
    /\ pc[t] = "in"
    /\ loadsInFlight' = loadsInFlight - 1
    /\ pc' = [pc EXCEPT ![t] = "out"]
    /\ UNCHANGED <<proving, provesWaiting, startedProving>>

\* Mutant: a prove leaves and notifies nobody.
LeaveProveSilently(t) ==
    /\ pc[t] = "in"
    /\ proving' = FALSE
    /\ pc' = [pc EXCEPT ![t] = "out"]
    /\ UNCHANGED <<loadsInFlight, provesWaiting, startedProving>>

\* Drop of a GatePass; a panic inside the pass unwinds through the same drop.
LeaveLoad(t) ==
    /\ pc[t] = "in"
    /\ loadsInFlight' = loadsInFlight - 1
    /\ MoveAndNotify(t, "out")
    /\ UNCHANGED <<proving, provesWaiting, startedProving>>

LeaveProve(t) ==
    /\ pc[t] = "in"
    /\ proving' = FALSE
    /\ MoveAndNotify(t, "out")
    /\ UNCHANGED <<loadsInFlight, provesWaiting, startedProving>>

Next ==
    \/ \E t \in Loads : EnterLoad(t) \/ RecheckLoad(t) \/ LeaveLoad(t)
    \/ \E t \in Proves : EnterProve(t) \/ RecheckProve(t) \/ LeaveProve(t)
    \/ \E t \in Threads : SpuriousWakeup(t)

Spec == Init /\ [][Next]_vars

\* A runnable thread runs, and what holds a pass (one program's load, one
\* prove) ends.  Nothing makes a thread come to the gate.
Fairness ==
    /\ \A t \in Loads : WF_vars(RecheckLoad(t)) /\ WF_vars(LeaveLoad(t))
    /\ \A t \in Proves : WF_vars(RecheckProve(t)) /\ WF_vars(LeaveProve(t))

FairSpec == Spec /\ Fairness

-----------------------------------------------------------------------------
\* The values the gate's state ranges over.
TypeOK ==
    /\ loadsInFlight \in 0 .. Cardinality(Loads)
    /\ proving \in BOOLEAN
    /\ provesWaiting \in 0 .. Cardinality(Proves)
    /\ startedProving \in BOOLEAN
    /\ pc \in [Threads -> {"out", "parked", "awake", "in"}]

LoadsIn == {t \in Loads : pc[t] = "in"}

ProvesAsking == {p \in Proves : pc[p] \in Waiting}

\* A prove has the plugin to itself: no load, and no other prove, holds a
\* pass of the gate beside it (enter_prove: "then own the plugin").
ProveAlone ==
    \A p \in Proves : pc[p] = "in" => \A t \in Threads \ {p} : pc[t] # "in"

\* The counters the two `while` conditions read agree with the threads they
\* count, whatever the threads did: a drift would let two proves in or leave
\* one out for good.
CountsExact ==
    /\ loadsInFlight = Cardinality(LoadsIn)
    /\ provesWaiting = Cardinality(ProvesAsking)
    /\ proving <=> \E p \in Proves : pc[p] = "in"

\* No wake-up is ever lost: a thread asleep on the condition variable has a
\* false condition, so whoever makes it true must have notified it.
NoLostWakeup ==
    \A t \in Threads : pc[t] = "parked" =>
        IF t \in Loads THEN ~LoadMayEnter ELSE ~ProveMayEnter

\* Once a prove waits, no load joins the ones already in flight: "a prove
\* waits at most for the loads already in flight" (GateState).
NoLoadOvertakesAProve ==
    [][ProvesAsking # {} =>
          \A l \in Loads : pc'[l] = "in" => pc[l] = "in"]_vars

\* The four invariants together are inductive (module GateProofs): the counts
\* are what the exclusion and the wake-ups follow from.
IInv == TypeOK /\ CountsExact /\ ProveAlone /\ NoLostWakeup

\* The gate keeps the promise of PluginExclusion: a thread is inside while
\* it holds a pass, a prove is asking while it waits in enter_prove.
Exclusion == INSTANCE PluginExclusion WITH
                inside <- {t \in Threads : pc[t] = "in"},
                asking <- ProvesAsking

ImplementsExclusion == Exclusion!Spec

\* However many loads keep coming, while proves wait one of them gets in; with
\* one prove at a time at the gate, as the slot's lock arranges, it is the one
\* that waits.
SomeProveGetsIn == ProvesAsking # {} ~> \E p \in Proves : pc[p] = "in"

\* Loads have no such promise while proves keep coming, but once they stop
\* every waiting load gets in.
LoadsGetInOnceProvesStop ==
    (<>[](\A p \in Proves : pc[p] = "out"))
        => \A l \in Loads : pc[l] \in Waiting ~> pc[l] = "in"
=============================================================================
