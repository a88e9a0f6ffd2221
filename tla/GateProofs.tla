----------------------------- MODULE GateProofs -----------------------------
(***************************************************************************)
(* Proofs about Gate, for any finite sets of loading and proving threads:  *)
(* its type, the exclusion of loads and proves, the exactness of its       *)
(* counters, the absence of lost wake-ups, and that a waiting prove is not *)
(* overtaken by loads.                                                     *)
(***************************************************************************)
EXTENDS Gate, FiniteSetTheorems, TLAPS

-----------------------------------------------------------------------------
\* The sets the counters count are finite, and their sizes move by one with
\* the thread that joins or leaves.
LEMMA FiniteCounts ==
    ASSUME TypeOK
    PROVE  /\ IsFiniteSet(LoadsIn) /\ Cardinality(LoadsIn) \in 0 .. Cardinality(Loads)
           /\ IsFiniteSet(ProvesAsking)
           /\ Cardinality(ProvesAsking) \in 0 .. Cardinality(Proves)
           /\ IsFiniteSet(LoadsIn') /\ Cardinality(LoadsIn') \in 0 .. Cardinality(Loads)
           /\ IsFiniteSet(ProvesAsking')
           /\ Cardinality(ProvesAsking') \in 0 .. Cardinality(Proves)
<1>1. /\ LoadsIn \in SUBSET Loads /\ LoadsIn' \in SUBSET Loads
      /\ ProvesAsking \in SUBSET Proves /\ ProvesAsking' \in SUBSET Proves
  BY DEF LoadsIn, ProvesAsking
<1>2. IsFiniteSet(Loads) /\ IsFiniteSet(Proves)
  BY ThreadsAssumption DEF ThreadsAssumption
<1>3. /\ IsFiniteSet(LoadsIn) /\ Cardinality(LoadsIn) <= Cardinality(Loads)
      /\ IsFiniteSet(LoadsIn') /\ Cardinality(LoadsIn') <= Cardinality(Loads)
  BY <1>1, <1>2, FS_Subset
<1>4. /\ IsFiniteSet(ProvesAsking) /\ Cardinality(ProvesAsking) <= Cardinality(Proves)
      /\ IsFiniteSet(ProvesAsking') /\ Cardinality(ProvesAsking') <= Cardinality(Proves)
  BY <1>1, <1>2, FS_Subset
<1>5. /\ Cardinality(LoadsIn) \in Nat /\ Cardinality(LoadsIn') \in Nat
      /\ Cardinality(ProvesAsking) \in Nat /\ Cardinality(ProvesAsking') \in Nat
      /\ Cardinality(Loads) \in Nat /\ Cardinality(Proves) \in Nat
  BY <1>2, <1>3, <1>4, FS_CardinalityType
<1>6. QED
  BY <1>3, <1>4, <1>5

\* A counter is zero exactly when nobody is counted.
LEMMA ZeroMeansNone ==
    ASSUME TypeOK, CountsExact
    PROVE  /\ loadsInFlight = 0 <=> LoadsIn = {}
           /\ provesWaiting = 0 <=> ProvesAsking = {}
BY FiniteCounts, FS_EmptySet DEF CountsExact

LEMMA InitEstablishes == Init => IInv
<1> SUFFICES ASSUME Init PROVE IInv
  OBVIOUS
<1>1. IsFiniteSet(Loads) /\ IsFiniteSet(Proves)
  BY ThreadsAssumption DEF ThreadsAssumption
<1>2. LoadsIn = {} /\ ProvesAsking = {}
  BY DEF Init, LoadsIn, ProvesAsking, Threads, Waiting
<1>3. Cardinality(Loads) \in Nat /\ Cardinality(Proves) \in Nat /\ Cardinality({}) = 0
  BY <1>1, FS_CardinalityType, FS_EmptySet
<1>4. TypeOK
  <2>1. loadsInFlight \in 0 .. Cardinality(Loads) /\ provesWaiting \in 0 .. Cardinality(Proves)
    BY <1>3 DEF Init
  <2>2. pc \in [Threads -> {"out", "parked", "awake", "in"}]
    BY DEF Init
  <2>3. QED
    BY <2>1, <2>2 DEF Init, TypeOK
<1>5. CountsExact
  BY <1>2, <1>3 DEF Init, CountsExact, Threads
<1>6. ProveAlone /\ NoLostWakeup
  BY DEF Init, ProveAlone, NoLostWakeup, Threads
<1>7. QED
  BY <1>4, <1>5, <1>6 DEF IInv

-----------------------------------------------------------------------------
\* A load's test of its condition, from the call or from a wake-up.
LEMMA TestLoadPreserves ==
    ASSUME IInv, NEW t \in Loads, pc[t] \in {"out", "awake"}, TestLoad(t)
    PROVE  IInv'
<1> USE DEF IInv
<1>1. t \in Threads /\ t \notin Proves
  BY ThreadsAssumption DEF ThreadsAssumption, Threads
<1>2. ProvesAsking' = ProvesAsking
  BY <1>1 DEF ProvesAsking, TestLoad, TypeOK, Threads
<1>3. CASE /\ LoadMayEnter
           /\ loadsInFlight' = loadsInFlight + 1
           /\ pc' = [pc EXCEPT ![t] = "in"]
  <2>1. LoadsIn' = LoadsIn \cup {t} /\ t \notin LoadsIn
    BY <1>1, <1>3 DEF LoadsIn, TypeOK, Threads
  <2>2. loadsInFlight' = Cardinality(LoadsIn')
    BY <2>1, <1>3, FiniteCounts, FS_AddElement DEF CountsExact
  <2>3. CountsExact'
    BY <1>1, <1>2, <1>3, <2>2 DEF CountsExact, TestLoad, TypeOK, Threads
  <2>4. TypeOK'
    BY <1>1, <1>3, <2>2, FiniteCounts DEF TypeOK, TestLoad
  <2>5. ~proving /\ ProvesAsking = {} /\ \A p \in Proves : pc[p] # "in"
    BY <1>3, ZeroMeansNone DEF LoadMayEnter, CountsExact
  <2>6. ProveAlone'
    BY <1>1, <1>3, <2>5 DEF ProveAlone, TypeOK, Threads
  <2>7. \A u \in Threads : pc[u] # "parked"
    <3>1. \A u \in Loads : pc[u] # "parked"
      BY <1>3 DEF NoLostWakeup, Threads
    <3>2. \A u \in Proves : pc[u] # "parked"
      BY <2>5 DEF ProvesAsking, Waiting
    <3>3. QED
      BY <3>1, <3>2 DEF Threads
  <2>8. NoLostWakeup'
    BY <1>1, <1>3, <2>7 DEF NoLostWakeup, TypeOK
  <2>9. QED
    BY <2>3, <2>4, <2>6, <2>8
<1>4. CASE /\ ~LoadMayEnter
           /\ pc' = [pc EXCEPT ![t] = "parked"]
           /\ UNCHANGED loadsInFlight
  <2>1. LoadsIn' = LoadsIn
    BY <1>1, <1>4 DEF LoadsIn, TypeOK, Threads
  <2>2. CountsExact'
    BY <1>1, <1>2, <1>4, <2>1 DEF CountsExact, TestLoad, TypeOK, Threads
  <2>3. TypeOK'
    BY <1>1, <1>4 DEF TypeOK, TestLoad
  <2>4. ProveAlone'
    BY <1>1, <1>4 DEF ProveAlone, TypeOK, Threads
  <2>5. NoLostWakeup'
    BY <1>1, <1>4 DEF NoLostWakeup, TypeOK, TestLoad, LoadMayEnter, ProveMayEnter
  <2>6. QED
    BY <2>2, <2>3, <2>4, <2>5
<1>5. QED
  BY <1>3, <1>4 DEF TestLoad

\* A prove's test of its condition; `asked` counts this prove among the
\* waiting ones, which it already is when it comes from a wake-up.
LEMMA TestProvePreserves ==
    ASSUME IInv, NEW t \in Proves, NEW asked \in Nat,
           \/ pc[t] = "out" /\ asked = provesWaiting + 1
           \/ pc[t] = "awake" /\ asked = provesWaiting,
           TestProve(t, asked)
    PROVE  IInv'
<1> USE DEF IInv
<1>1. t \in Threads /\ t \notin Loads
  BY ThreadsAssumption DEF ThreadsAssumption, Threads
<1>2. LoadsIn' = LoadsIn
  BY <1>1 DEF LoadsIn, TestProve, TypeOK, Threads
<1>3. Cardinality(ProvesAsking \cup {t}) = asked /\ IsFiniteSet(ProvesAsking \cup {t})
  BY FiniteCounts, FS_AddElement DEF CountsExact, ProvesAsking, Waiting
<1>4. CASE /\ ProveMayEnter
           /\ provesWaiting' = asked - 1
           /\ proving' = TRUE
           /\ startedProving' = TRUE
           /\ pc' = [pc EXCEPT ![t] = "in"]
  <2>1. ProvesAsking' = (ProvesAsking \cup {t}) \ {t}
    BY <1>1, <1>4 DEF ProvesAsking, Waiting, TypeOK, Threads
  <2>2. provesWaiting' = Cardinality(ProvesAsking')
    BY <1>3, <1>4, <2>1, FS_RemoveElement
  <2>3. CountsExact'
    BY <1>1, <1>2, <1>4, <2>2 DEF CountsExact, TestProve, TypeOK
  <2>4. TypeOK'
    BY <1>1, <1>4, <2>2, FiniteCounts DEF TypeOK, TestProve
  <2>5. /\ \A u \in Loads : pc[u] # "in"
        /\ \A u \in Proves : pc[u] # "in"
    BY <1>4, ZeroMeansNone DEF ProveMayEnter, CountsExact, LoadsIn
  <2>6. ProveAlone'
    BY <1>1, <1>4, <2>5 DEF ProveAlone, TypeOK, Threads
  <2>7. NoLostWakeup'
    BY <1>4 DEF NoLostWakeup, LoadMayEnter, ProveMayEnter
  <2>8. QED
    BY <2>3, <2>4, <2>6, <2>7
<1>5. CASE /\ ~ProveMayEnter
           /\ provesWaiting' = asked
           /\ pc' = [pc EXCEPT ![t] = "parked"]
           /\ UNCHANGED <<proving, startedProving>>
  <2>1. ProvesAsking' = ProvesAsking \cup {t}
    BY <1>1, <1>5 DEF ProvesAsking, Waiting, TypeOK, Threads
  <2>2. provesWaiting' = Cardinality(ProvesAsking')
    BY <1>3, <1>5, <2>1
  <2>3. CountsExact'
    BY <1>1, <1>2, <1>5, <2>2 DEF CountsExact, TestProve, TypeOK
  <2>4. TypeOK'
    BY <1>1, <1>5, <2>2, FiniteCounts DEF TypeOK, TestProve
  <2>5. ProveAlone'
    BY <1>1, <1>5 DEF ProveAlone, TypeOK, Threads
  <2>6. provesWaiting' # 0
    BY <2>1, <2>2, FiniteCounts, FS_EmptySet
  <2>7. NoLostWakeup'
    BY <1>1, <1>5, <2>6 DEF NoLostWakeup, TypeOK, TestProve, LoadMayEnter, ProveMayEnter, Threads
  <2>8. QED
    BY <2>3, <2>4, <2>5, <2>7
<1>6. QED
  BY <1>4, <1>5 DEF TestProve

\* Leaving the gate: nobody is left asleep, so no wake-up can be lost.
LEMMA LeaveLoadPreserves ==
    ASSUME IInv, NEW t \in Loads, LeaveLoad(t)
    PROVE  IInv'
<1> USE DEF IInv, LeaveLoad, MoveAndNotify
<1>1. t \in Threads /\ t \notin Proves
  BY ThreadsAssumption DEF ThreadsAssumption, Threads
<1>2. LoadsIn' = LoadsIn \ {t} /\ t \in LoadsIn
  BY <1>1 DEF LoadsIn, TypeOK, Threads
<1>3. ProvesAsking' = ProvesAsking
  BY <1>1 DEF ProvesAsking, Waiting, TypeOK, Threads
<1>4. loadsInFlight' = Cardinality(LoadsIn')
  BY <1>2, FiniteCounts, FS_RemoveElement DEF CountsExact
<1>5. CountsExact'
  BY <1>1, <1>3, <1>4 DEF CountsExact, TypeOK, Threads
<1>6. TypeOK'
  BY <1>1, <1>4, FiniteCounts DEF TypeOK
<1>7. ProveAlone'
  BY <1>1 DEF ProveAlone, TypeOK, Threads
<1>8. NoLostWakeup'
  BY DEF NoLostWakeup, TypeOK, Threads
<1>9. QED
  BY <1>5, <1>6, <1>7, <1>8

LEMMA LeaveProvePreserves ==
    ASSUME IInv, NEW t \in Proves, LeaveProve(t)
    PROVE  IInv'
<1> USE DEF IInv, LeaveProve, MoveAndNotify
<1>1. t \in Threads /\ t \notin Loads
  BY ThreadsAssumption DEF ThreadsAssumption, Threads
<1>2. LoadsIn' = LoadsIn
  BY <1>1 DEF LoadsIn, TypeOK, Threads
<1>3. ProvesAsking' = ProvesAsking
  BY <1>1 DEF ProvesAsking, Waiting, TypeOK, Threads
<1>4. \A p \in Proves : pc'[p] # "in"
  BY <1>1 DEF ProveAlone, TypeOK, Threads
<1>5. CountsExact'
  BY <1>2, <1>3, <1>4 DEF CountsExact
<1>6. TypeOK'
  BY <1>1 DEF TypeOK
<1>7. ProveAlone'
  BY <1>4 DEF ProveAlone
<1>8. NoLostWakeup'
  BY DEF NoLostWakeup, TypeOK, Threads
<1>9. QED
  BY <1>5, <1>6, <1>7, <1>8

LEMMA SpuriousWakeupPreserves ==
    ASSUME IInv, NEW t \in Threads, SpuriousWakeup(t)
    PROVE  IInv'
<1> USE DEF IInv, SpuriousWakeup
<1>1. LoadsIn' = LoadsIn /\ ProvesAsking' = ProvesAsking
  BY DEF LoadsIn, ProvesAsking, Waiting, TypeOK, Threads
<1>2. CountsExact'
  BY <1>1 DEF CountsExact, TypeOK, Threads
<1>3. TypeOK' /\ ProveAlone' /\ NoLostWakeup'
  BY DEF TypeOK, ProveAlone, NoLostWakeup, Threads, LoadMayEnter, ProveMayEnter
<1>4. QED
  BY <1>2, <1>3

LEMMA StepPreserves == IInv /\ [Next]_vars => IInv'
<1> SUFFICES ASSUME IInv, [Next]_vars PROVE IInv'
  OBVIOUS
<1>1. ASSUME NEW t \in Loads, EnterLoad(t) PROVE IInv'
  BY <1>1, TestLoadPreserves DEF EnterLoad
<1>2. ASSUME NEW t \in Loads, RecheckLoad(t) PROVE IInv'
  BY <1>2, TestLoadPreserves DEF RecheckLoad
<1>3. ASSUME NEW t \in Proves, EnterProve(t) PROVE IInv'
  <2>1. provesWaiting + 1 \in Nat
    BY FiniteCounts DEF IInv, CountsExact
  <2>2. QED
    BY <1>3, <2>1, TestProvePreserves DEF EnterProve
<1>4. ASSUME NEW t \in Proves, RecheckProve(t) PROVE IInv'
  <2>1. provesWaiting \in Nat
    BY FiniteCounts DEF IInv, CountsExact
  <2>2. QED
    BY <1>4, <2>1, TestProvePreserves DEF RecheckProve
<1>5. ASSUME UNCHANGED vars PROVE IInv'
  BY <1>5 DEF vars, IInv, TypeOK, CountsExact, ProveAlone, NoLostWakeup,
              LoadsIn, ProvesAsking, LoadMayEnter, ProveMayEnter
<1>6. QED
  BY <1>1, <1>2, <1>3, <1>4, <1>5, LeaveLoadPreserves, LeaveProvePreserves,
     SpuriousWakeupPreserves DEF Next

-----------------------------------------------------------------------------
\* The inductive invariant of the gate.
THEOREM GateInvariant == Spec => []IInv
BY InitEstablishes, StepPreserves, PTL DEF Spec

\* The gate's state keeps its type: the counters stay between nothing and the
\* number of threads, in particular they never underflow.
THEOREM GateTypeCorrect == Spec => []TypeOK
<1>1. IInv => TypeOK
  BY DEF IInv
<1>2. QED
  BY <1>1, GateInvariant, PTL

\* A prove has the plugin to itself, with any number of threads.
THEOREM GateExclusion == Spec => []ProveAlone
<1>1. IInv => ProveAlone
  BY DEF IInv
<1>2. QED
  BY <1>1, GateInvariant, PTL

\* The counters the conditions read never drift from the threads they count.
THEOREM GateCounts == Spec => []CountsExact
<1>1. IInv => CountsExact
  BY DEF IInv
<1>2. QED
  BY <1>1, GateInvariant, PTL

\* No thread sleeps through the change it waits for.
THEOREM GateWakesEverySleeper == Spec => []NoLostWakeup
<1>1. IInv => NoLostWakeup
  BY DEF IInv
<1>2. QED
  BY <1>1, GateInvariant, PTL

\* A step of the gate lets no load in while a prove waits.
LEMMA NoStepOvertakes ==
    ASSUME IInv, Next, ProvesAsking # {}
    PROVE  \A l \in Loads : pc'[l] = "in" => pc[l] = "in"
<1> SUFFICES ASSUME NEW l \in Loads, pc'[l] = "in" PROVE pc[l] = "in"
  OBVIOUS
<1>1. ~LoadMayEnter /\ l \in Threads /\ l \notin Proves /\ TypeOK
  BY ZeroMeansNone, ThreadsAssumption DEF LoadMayEnter, IInv, Threads, ThreadsAssumption
<1>2. ASSUME NEW t \in Loads, EnterLoad(t) \/ RecheckLoad(t) PROVE pc[l] = "in"
  BY <1>1, <1>2 DEF EnterLoad, RecheckLoad, TestLoad, TypeOK
<1>3. ASSUME NEW t \in Proves, EnterProve(t) \/ RecheckProve(t) PROVE pc[l] = "in"
  BY <1>1, <1>3 DEF EnterProve, RecheckProve, TestProve, TypeOK
<1>4. ASSUME NEW t \in Threads, LeaveLoad(t) \/ LeaveProve(t) PROVE pc[l] = "in"
  BY <1>1, <1>4 DEF LeaveLoad, LeaveProve, MoveAndNotify, TypeOK
<1>5. ASSUME NEW t \in Threads, SpuriousWakeup(t) PROVE pc[l] = "in"
  BY <1>1, <1>5 DEF SpuriousWakeup, TypeOK
<1>6. QED
  BY <1>2, <1>3, <1>4, <1>5 DEF Next, Threads

\* While a prove waits, no load joins the ones in flight.
THEOREM ProvesAreNotOvertaken == Spec => NoLoadOvertakesAProve
<1>1. IInv /\ [Next]_vars
        => [ProvesAsking # {} =>
               \A l \in Loads : pc'[l] = "in" => pc[l] = "in"]_vars
  BY NoStepOvertakes
<1>2. QED
  BY <1>1, GateInvariant, PTL DEF Spec, NoLoadOvertakesAProve

-----------------------------------------------------------------------------
\* The gate implements PluginExclusion: `Inside` and `ProvesAsking` are what
\* the abstract state maps to.
Inside == {t \in Threads : pc[t] = "in"}

LEMMA InsideFacts ==
    ASSUME IInv
    PROVE  /\ \A t \in Threads : t \in Inside <=> pc[t] = "in"
           /\ LoadMayEnter <=> ProvesAsking = {} /\ Inside \subseteq Loads
           /\ ProveMayEnter <=> Inside = {}
<1>1. proving <=> \E p \in Proves : pc[p] = "in"
  BY DEF IInv, CountsExact
<1>2. (loadsInFlight = 0 <=> LoadsIn = {}) /\ (provesWaiting = 0 <=> ProvesAsking = {})
  BY ZeroMeansNone DEF IInv
<1>3. Inside \subseteq Loads <=> ~\E p \in Proves : pc[p] = "in"
  BY ThreadsAssumption DEF ThreadsAssumption, Inside, Threads
<1>4. Inside = {} <=> LoadsIn = {} /\ ~\E p \in Proves : pc[p] = "in"
  BY DEF Inside, Threads, LoadsIn
<1>5. LoadMayEnter <=> ProvesAsking = {} /\ Inside \subseteq Loads
  BY <1>1, <1>2, <1>3 DEF LoadMayEnter
<1>6. ProveMayEnter <=> Inside = {}
  BY <1>1, <1>2, <1>4 DEF ProveMayEnter
<1>7. QED
  BY <1>5, <1>6 DEF Inside

\* A load's test is a JoinLoad, or nothing the abstract gate can see.
LEMMA TestLoadRefines ==
    ASSUME IInv, NEW t \in Loads, pc[t] \in {"out", "awake"}, TestLoad(t)
    PROVE  Exclusion!JoinLoad(t) \/ UNCHANGED <<Inside, ProvesAsking>>
<1>1. t \in Threads /\ t \notin Proves /\ pc \in [Threads -> {"out", "parked", "awake", "in"}]
  BY ThreadsAssumption DEF ThreadsAssumption, Threads, IInv, TypeOK
<1>2. ProvesAsking' = ProvesAsking
  BY <1>1 DEF ProvesAsking, TestLoad, Threads
<1>3. CASE LoadMayEnter /\ pc' = [pc EXCEPT ![t] = "in"]
  <2>1. Inside' = Inside \cup {t} /\ t \notin Inside
    BY <1>1, <1>3 DEF Inside
  <2>2. ProvesAsking = {} /\ Inside \subseteq Loads
    BY <1>3, InsideFacts
  <2>3. QED
    BY <1>2, <2>1, <2>2 DEF Exclusion!JoinLoad, Inside
<1>4. CASE pc' = [pc EXCEPT ![t] = "parked"]
  <2>1. Inside' = Inside
    BY <1>1, <1>4 DEF Inside
  <2>2. QED
    BY <1>2, <2>1
<1>5. QED
  BY <1>3, <1>4 DEF TestLoad

\* A prove's test is a StartProve, an AskProve, or nothing.
LEMMA TestProveRefines ==
    ASSUME IInv, NEW t \in Proves, NEW asked, pc[t] \in {"out", "awake"}, TestProve(t, asked)
    PROVE  \/ Exclusion!AskProve(t) \/ Exclusion!StartProve(t)
           \/ UNCHANGED <<Inside, ProvesAsking>>
<1>1. t \in Threads /\ t \notin Loads /\ pc \in [Threads -> {"out", "parked", "awake", "in"}]
  BY ThreadsAssumption DEF ThreadsAssumption, Threads, IInv, TypeOK
<1>2. CASE ProveMayEnter /\ pc' = [pc EXCEPT ![t] = "in"]
  <2>1. Inside' = {t} /\ Inside = {}
    BY <1>1, <1>2, InsideFacts DEF Inside
  <2>2. ProvesAsking' = ProvesAsking \ {t}
    BY <1>1, <1>2 DEF ProvesAsking, Waiting, Threads
  <2>3. QED
    BY <2>1, <2>2 DEF Exclusion!StartProve, Inside
<1>3. CASE ~ProveMayEnter /\ pc' = [pc EXCEPT ![t] = "parked"]
  <2>1. Inside' = Inside /\ Inside # {} /\ t \notin Inside
    BY <1>1, <1>3, InsideFacts DEF Inside
  <2>2. ProvesAsking' = ProvesAsking \cup {t}
    BY <1>1, <1>3 DEF ProvesAsking, Waiting, Threads
  <2>3. CASE pc[t] = "awake"
    BY <2>1, <2>2, <2>3 DEF ProvesAsking, Waiting
  <2>4. CASE pc[t] = "out"
    <3>1. t \notin ProvesAsking
      BY <2>4 DEF ProvesAsking, Waiting
    <3>2. QED
      BY <2>1, <2>2, <3>1 DEF Exclusion!AskProve, Inside
  <2>5. QED
    BY <2>3, <2>4
<1>4. QED
  BY <1>2, <1>3 DEF TestProve

\* A drop of a pass is a Leave.
LEMMA LeaveRefines ==
    ASSUME IInv, NEW t \in Threads, pc[t] = "in", MoveAndNotify(t, "out")
    PROVE  Exclusion!Leave(t)
<1>1. pc \in [Threads -> {"out", "parked", "awake", "in"}]
  BY DEF IInv, TypeOK
<1>2. Inside' = Inside \ {t} /\ t \in Inside
  BY <1>1 DEF Inside, MoveAndNotify
<1>3. ProvesAsking' = ProvesAsking
  BY <1>1 DEF ProvesAsking, Waiting, MoveAndNotify, Threads
<1>4. QED
  BY <1>2, <1>3 DEF Exclusion!Leave, Inside

\* Every behaviour of the gate is one of PluginExclusion.
THEOREM GateImplementsExclusion == Spec => ImplementsExclusion
<1>1. Init => Exclusion!Init
  BY DEF Init, Exclusion!Init, ProvesAsking, Waiting, Threads
<1>2. IInv /\ [Next]_vars => [Exclusion!Next]_(Exclusion!vars)
  <2> SUFFICES ASSUME IInv, [Next]_vars
               PROVE  Exclusion!Next \/ UNCHANGED <<Inside, ProvesAsking>>
    BY DEF Exclusion!vars, Inside
  <2>1. ASSUME NEW t \in Loads, EnterLoad(t) \/ RecheckLoad(t)
        PROVE  Exclusion!Next \/ UNCHANGED <<Inside, ProvesAsking>>
    BY <2>1, TestLoadRefines DEF EnterLoad, RecheckLoad, Exclusion!Next
  <2>2. ASSUME NEW t \in Proves, EnterProve(t) \/ RecheckProve(t)
        PROVE  Exclusion!Next \/ UNCHANGED <<Inside, ProvesAsking>>
    BY <2>2, TestProveRefines DEF EnterProve, RecheckProve, Exclusion!Next
  <2>3. ASSUME NEW t \in Loads, LeaveLoad(t)
        PROVE  Exclusion!Next
    BY <2>3, LeaveRefines DEF LeaveLoad, Exclusion!Next, Threads
  <2>4. ASSUME NEW t \in Proves, LeaveProve(t)
        PROVE  Exclusion!Next
    BY <2>4, LeaveRefines DEF LeaveProve, Exclusion!Next, Threads
  <2>5. ASSUME NEW t \in Threads, SpuriousWakeup(t)
        PROVE  UNCHANGED <<Inside, ProvesAsking>>
    BY <2>5 DEF SpuriousWakeup, Inside, ProvesAsking, Waiting, IInv, TypeOK, Threads
  <2>6. ASSUME UNCHANGED vars
        PROVE  UNCHANGED <<Inside, ProvesAsking>>
    BY <2>6 DEF vars, Inside, ProvesAsking
  <2>7. QED
    BY <2>1, <2>2, <2>3, <2>4, <2>5, <2>6 DEF Next
<1>3. QED
  BY <1>1, <1>2, GateInvariant, PTL DEF Spec, ImplementsExclusion, Exclusion!Spec
=============================================================================
