---------------------------- MODULE PendingProofs ----------------------------
(***************************************************************************)
(* Proofs about Pending, for any finite set of instances, any uploads, any *)
(* count and any budget: its type, first come first served, the count and  *)
(* the budget, the bookkeeping, the absence of lost wake-ups, and that the *)
(* queue implements FifoAdmission.                                         *)
(***************************************************************************)
EXTENDS Pending, FiniteFacts, SequenceTheorems, TLAPS

Labels == {"new", "parked", "awake", "admitted", "dropped", "gone"}

WaitingTickets == {ticket[i] : i \in {j \in Instances : pc[j] \in Waiting}}

-----------------------------------------------------------------------------
LEMMA FiniteDrawn ==
    /\ IsFiniteSet(Drawn) /\ Cardinality(Drawn) \in 0 .. Cardinality(Instances)
    /\ IsFiniteSet(Drawn') /\ Cardinality(Drawn') \in 0 .. Cardinality(Instances)
<1>1. IsFiniteSet(Instances) /\ Drawn \in SUBSET Instances /\ Drawn' \in SUBSET Instances
  BY QueueAssumption DEF QueueAssumption, Drawn
<1>2. /\ IsFiniteSet(Drawn) /\ Cardinality(Drawn) <= Cardinality(Instances)
      /\ IsFiniteSet(Drawn') /\ Cardinality(Drawn') <= Cardinality(Instances)
  BY <1>1, FS_Subset
<1>3. /\ Cardinality(Drawn) \in Nat /\ Cardinality(Drawn') \in Nat
      /\ Cardinality(Instances) \in Nat
  BY <1>1, <1>2, FS_CardinalityType
<1>4. QED
  BY <1>2, <1>3

\* The admitted entries are finitely many: one per instance at most.
LEMMA FiniteAdmitted ==
    ASSUME EntriesMatchPasses
    PROVE  IsFiniteSet(admitted) /\ Cardinality(admitted) \in Nat
<1>1. IsFiniteSet(Inside)
  BY QueueAssumption, FS_Subset DEF QueueAssumption, Inside
<1> DEFINE f == [i \in Inside |-> Entry(i)]
<1>2. f \in Surjection(Inside, admitted)
  BY DEF EntriesMatchPasses, Surjection
<1>3. QED
  BY <1>1, <1>2, FS_Surjection, FS_CardinalityType

LEMMA InitEstablishes == Init => IInv
<1> SUFFICES ASSUME Init PROVE IInv
  OBVIOUS
<1>1. Drawn = {} /\ Inside = {}
  BY DEF Init, Drawn, Inside
<1>2. Cardinality({}) = 0
  BY FS_EmptySet
<1>3. TypeOK
  <2>1. Cardinality(Instances) \in Nat
    BY QueueAssumption, FS_CardinalityType DEF QueueAssumption
  <2>2. ticket \in [Instances -> Nat] /\ pc \in [Instances -> Labels]
    BY DEF Init, Labels
  <2>3. next \in 0 .. Cardinality(Instances) /\ serving \in 0 .. next
    BY <2>1 DEF Init
  <2>4. QED
    BY <2>2, <2>3 DEF Init, TypeOK, Labels
<1>4. TicketsInOrder
  BY <1>1, <1>2 DEF Init, TicketsInOrder
<1>5. EntriesMatchPasses
  <2>1. {j \in Instances : pc[j] \in Waiting} = {}
    BY DEF Init, Waiting
  <2>2. serving .. next - 1 = {}
    BY DEF Init
  <2>3. QED
    BY <1>1, <2>1, <2>2 DEF Init, EntriesMatchPasses
<1>6. AtMostCap
  BY <1>2, QueueAssumption DEF Init, AtMostCap, QueueAssumption
<1>7. NoLostWakeup
  BY DEF Init, NoLostWakeup
<1>8. QED
  BY <1>3, <1>4, <1>5, <1>6, <1>7 DEF IInv

-----------------------------------------------------------------------------
\* What holds of the instance whose step it is once it has its ticket `t`:
\* either it drew it just now, or it waited with it.  `drawn` is the set of
\* those that have drawn, this instance included, and `n` the next ticket.
HasTicket(i, t, n) ==
    \/ pc[i] = "new" /\ t = next /\ n = next + 1
       /\ ticket' = [ticket EXCEPT ![i] = t]
    \/ pc[i] = "awake" /\ t = ticket[i] /\ n = next
       /\ ticket' = ticket

LEMMA TicketFacts ==
    ASSUME IInv, NEW i \in Instances, NEW t, NEW n, HasTicket(i, t, n)
    PROVE  /\ t \in Nat /\ n \in Nat /\ serving <= t /\ t < n /\ next <= n
           /\ Cardinality(Drawn \cup {i}) = n
           /\ ticket' \in [Instances -> Nat] /\ ticket'[i] = t
           /\ \A j \in Instances \ {i} : ticket'[j] = ticket[j]
           /\ \A j \in Drawn \ {i} : ticket[j] # t
<1>1. TypeOK /\ TicketsInOrder
  BY DEF IInv
<1>2. next \in Nat /\ serving \in Nat /\ serving <= next
  BY <1>1, QueueAssumption, FS_CardinalityType DEF TypeOK, QueueAssumption
<1>3. CASE pc[i] = "new" /\ t = next /\ n = next + 1 /\ ticket' = [ticket EXCEPT ![i] = t]
  <2>1. i \notin Drawn
    BY <1>3 DEF Drawn
  <2>2. Cardinality(Drawn \cup {i}) = n
    BY <1>1, <1>3, <2>1, FiniteDrawn, FS_AddElement DEF TicketsInOrder
  <2>3. \A j \in Drawn : ticket[j] # t
    BY <1>1, <1>2, <1>3 DEF TicketsInOrder, TypeOK, Drawn
  <2>4. QED
    BY <1>1, <1>2, <1>3, <2>2, <2>3 DEF TypeOK
<1>4. CASE pc[i] = "awake" /\ t = ticket[i] /\ n = next /\ ticket' = ticket
  <2>1. i \in Drawn /\ pc[i] \in Waiting
    BY <1>4 DEF Drawn, Waiting
  <2>2. Drawn \cup {i} = Drawn
    BY <2>1
  <2>3. QED
    BY <1>1, <1>2, <1>4, <2>1, <2>2 DEF TicketsInOrder, TypeOK, Drawn
<1>5. QED
  BY <1>3, <1>4 DEF HasTicket

\* The step that lets the instance in.
LEMMA EnterPreserves ==
    ASSUME IInv, NEW i \in Instances, NEW t, NEW n, HasTicket(i, t, n), next' = n,
           MayEnter(t, Uploads[i]),
           serving' = serving + 1,
           admitted' = admitted \cup {[ticket |-> t, uploads |-> Uploads[i]]},
           pc' = [j \in Instances |-> IF j = i THEN "admitted"
                                      ELSE IF pc[j] = "parked" THEN "awake" ELSE pc[j]]
    PROVE  IInv'
<1>1. /\ TypeOK /\ TicketsInOrder /\ EntriesMatchPasses /\ AtMostCap
  BY DEF IInv
<1>2. /\ t \in Nat /\ n \in Nat /\ serving <= t /\ t < n /\ next <= n
      /\ Cardinality(Drawn \cup {i}) = n
      /\ ticket' \in [Instances -> Nat] /\ ticket'[i] = t
      /\ \A j \in Instances \ {i} : ticket'[j] = ticket[j]
      /\ \A j \in Drawn \ {i} : ticket[j] # t
  BY TicketFacts
<1>3. t = serving /\ Cardinality(admitted) < Cap
  BY DEF MayEnter, Admits
<1>4. next \in Nat /\ serving \in Nat /\ serving <= next
  BY <1>1, QueueAssumption, FS_CardinalityType DEF TypeOK, QueueAssumption
<1>5. Drawn' = Drawn \cup {i}
  BY DEF Drawn
<1>6. TypeOK'
  <2>1. pc' \in [Instances -> Labels]
    BY <1>1 DEF TypeOK, Labels
  <2>2. next' \in 0 .. Cardinality(Instances) /\ serving' \in 0 .. next'
    BY <1>2, <1>3, <1>4, <1>5, FiniteDrawn
  <2>3. admitted' \in SUBSET [ticket : Nat, uploads : Nat]
    BY <1>1, <1>2, QueueAssumption DEF TypeOK, QueueAssumption
  <2>4. QED
    BY <1>2, <2>1, <2>2, <2>3 DEF TypeOK, Labels
<1>7. \A j \in Drawn \ {i} : ticket[j] < next /\ (serving <= ticket[j] <=> pc[j] \in Waiting)
  BY <1>1 DEF TicketsInOrder
<1>8. TicketsInOrder'
  <2>1. next' = Cardinality(Drawn')
    BY <1>2, <1>5
  <2>2. ASSUME NEW j \in Drawn'
        PROVE  ticket'[j] < next' /\ (serving' <= ticket'[j] <=> pc'[j] \in Waiting)
    <3>1. CASE j = i
      BY <1>2, <1>3, <1>4, <3>1 DEF Waiting
    <3>2. CASE j # i
      <4>1. j \in Drawn \ {i} /\ j \in Instances /\ ticket'[j] = ticket[j] /\ ticket[j] \in Nat
        BY <1>1, <1>2, <1>5, <3>2 DEF Drawn, TypeOK
      <4>2. pc'[j] \in Waiting <=> pc[j] \in Waiting
        BY <3>2, <4>1 DEF Waiting
      <4>3. ticket[j] # serving
        BY <1>2, <1>3, <4>1
      <4>4. QED
        BY <1>2, <1>4, <1>7, <4>1, <4>2, <4>3
    <3>3. QED
      BY <3>1, <3>2
  <2>3. ASSUME NEW j \in Drawn', NEW k \in Drawn', ticket'[j] = ticket'[k]
        PROVE  j = k
    BY <1>1, <1>2, <1>5, <2>3 DEF TicketsInOrder, Drawn
  <2>4. QED
    BY <2>1, <2>2, <2>3 DEF TicketsInOrder
<1>9. EntriesMatchPasses'
  <2>1. Inside' = Inside \cup {i} /\ i \notin Inside
    BY DEF Inside, HasTicket
  <2>2. \A j \in Inside : j # i /\ ticket'[j] = ticket[j]
    BY <1>2, <2>1 DEF Inside
  <2>3. admitted' = {[ticket |-> ticket'[j], uploads |-> Uploads[j]] : j \in Inside'}
    <3>1. admitted = {[ticket |-> ticket[j], uploads |-> Uploads[j]] : j \in Inside}
      BY <1>1 DEF EntriesMatchPasses, Entry
    <3>2. QED
      BY <1>2, <2>1, <2>2, <3>1
  <2>4. WaitingTickets' = serving' .. next' - 1
    <3>1. WaitingTickets = serving .. next - 1
      BY <1>1 DEF EntriesMatchPasses, WaitingTickets
    <3>2. \A j \in Instances : pc'[j] \in Waiting <=> j # i /\ pc[j] \in Waiting
      BY DEF Waiting
    <3>3. \A j \in Instances : pc[j] \in Waiting => j \in Drawn
      BY DEF Waiting, Drawn
    <3>4. WaitingTickets' = WaitingTickets \ {t}
      <4>1. ASSUME NEW j \in Instances, pc'[j] \in Waiting
            PROVE  ticket'[j] \in WaitingTickets \ {t}
        BY <1>2, <3>2, <3>3, <4>1 DEF WaitingTickets
      <4>2. ASSUME NEW j \in Instances, pc[j] \in Waiting, ticket[j] # t
            PROVE  ticket[j] \in WaitingTickets'
        <5>1. j # i
          BY <4>2 DEF HasTicket, Waiting
        <5>2. pc'[j] \in Waiting /\ ticket'[j] = ticket[j]
          BY <1>2, <3>2, <4>2, <5>1
        <5>3. QED
          BY <5>2 DEF WaitingTickets
      <4>3. QED
        BY <4>1, <4>2 DEF WaitingTickets
    <3>5. (serving .. next - 1) \ {t} = serving + 1 .. n - 1
      <4>1. CASE n = next
        BY <1>2, <1>3, <1>4, <4>1
      <4>2. CASE n = next + 1 /\ t = next
        BY <1>2, <1>3, <1>4, <4>2
      <4>3. QED
        BY <4>1, <4>2 DEF HasTicket
    <3>6. QED
      BY <3>1, <3>4, <3>5
  <2>5. QED
    BY <2>3, <2>4 DEF EntriesMatchPasses, Entry, WaitingTickets
<1>10. AtMostCap'
  <2>1. IsFiniteSet(admitted) /\ Cardinality(admitted) \in Nat
    BY <1>1, FiniteAdmitted
  <2>2. Cardinality(admitted') \in {Cardinality(admitted), Cardinality(admitted) + 1}
    BY <2>1, FS_AddElement
  <2>3. Cap \in Nat
    BY QueueAssumption DEF QueueAssumption
  <2>4. Cardinality(admitted') <= Cap
    BY <1>3, <2>1, <2>2, <2>3
  <2>5. QED
    BY <2>4 DEF AtMostCap
<1>11. NoLostWakeup'
  BY DEF NoLostWakeup
<1>12. QED
  BY <1>6, <1>8, <1>9, <1>10, <1>11 DEF IInv

\* The step that puts the instance to sleep.
LEMMA ParkPreserves ==
    ASSUME IInv, NEW i \in Instances, NEW t, NEW n, HasTicket(i, t, n), next' = n,
           ~MayEnter(t, Uploads[i]),
           pc' = [pc EXCEPT ![i] = "parked"],
           UNCHANGED <<admitted, serving>>
    PROVE  IInv'
<1>1. /\ TypeOK /\ TicketsInOrder /\ EntriesMatchPasses /\ AtMostCap /\ NoLostWakeup
  BY DEF IInv
<1>2. /\ t \in Nat /\ n \in Nat /\ serving <= t /\ t < n /\ next <= n
      /\ Cardinality(Drawn \cup {i}) = n
      /\ ticket' \in [Instances -> Nat] /\ ticket'[i] = t
      /\ \A j \in Instances \ {i} : ticket'[j] = ticket[j]
      /\ \A j \in Drawn \ {i} : ticket[j] # t
  BY TicketFacts
<1>3. next \in Nat /\ serving \in Nat /\ serving <= next
  BY <1>1, QueueAssumption, FS_CardinalityType DEF TypeOK, QueueAssumption
<1>4. Drawn' = Drawn \cup {i}
  BY <1>1 DEF Drawn, TypeOK
<1>5. TypeOK'
  <2>1. pc' \in [Instances -> Labels]
    BY <1>1 DEF TypeOK, Labels
  <2>2. next' \in 0 .. Cardinality(Instances) /\ serving' \in 0 .. next'
    BY <1>2, <1>3, <1>4, FiniteDrawn
  <2>3. QED
    BY <1>1, <1>2, <2>1, <2>2 DEF TypeOK, Labels
<1>6. TicketsInOrder'
  <2>1. next' = Cardinality(Drawn')
    BY <1>2, <1>4
  <2>2. ASSUME NEW j \in Drawn'
        PROVE  ticket'[j] < next' /\ (serving' <= ticket'[j] <=> pc'[j] \in Waiting)
    <3>1. CASE j = i
      BY <1>1, <1>2, <3>1 DEF Waiting, TypeOK
    <3>2. CASE j # i
      <4>1. j \in Drawn /\ j \in Instances /\ ticket'[j] = ticket[j] /\ ticket[j] \in Nat
        BY <1>1, <1>2, <1>4, <3>2 DEF Drawn, TypeOK
      <4>2. pc'[j] = pc[j]
        BY <1>1, <3>2, <4>1 DEF TypeOK
      <4>3. ticket[j] < next /\ (serving <= ticket[j] <=> pc[j] \in Waiting)
        BY <1>1, <4>1 DEF TicketsInOrder
      <4>4. QED
        BY <1>2, <1>3, <4>1, <4>2, <4>3
    <3>3. QED
      BY <3>1, <3>2
  <2>3. ASSUME NEW j \in Drawn', NEW k \in Drawn', ticket'[j] = ticket'[k]
        PROVE  j = k
    BY <1>1, <1>2, <1>4, <2>3 DEF TicketsInOrder, Drawn
  <2>4. QED
    BY <2>1, <2>2, <2>3 DEF TicketsInOrder
<1>7. EntriesMatchPasses'
  <2>1. Inside' = Inside /\ i \notin Inside
    BY <1>1 DEF Inside, HasTicket, TypeOK
  <2>2. \A j \in Inside : ticket'[j] = ticket[j]
    BY <1>2, <2>1 DEF Inside
  <2>3. admitted' = {[ticket |-> ticket'[j], uploads |-> Uploads[j]] : j \in Inside'}
    BY <1>1, <2>1, <2>2 DEF EntriesMatchPasses, Entry
  <2>4. WaitingTickets' = serving' .. next' - 1
    <3>1. WaitingTickets = serving .. next - 1
      BY <1>1 DEF EntriesMatchPasses, WaitingTickets
    <3>2. \A j \in Instances : pc'[j] \in Waiting <=> j = i \/ pc[j] \in Waiting
      BY <1>1 DEF Waiting, TypeOK
    <3>3. WaitingTickets' = WaitingTickets \cup {t}
      <4>1. ASSUME NEW j \in Instances, pc'[j] \in Waiting
            PROVE  ticket'[j] \in WaitingTickets \cup {t}
        BY <1>2, <3>2, <4>1 DEF WaitingTickets
      <4>2. t \in WaitingTickets'
        BY <1>2, <3>2 DEF WaitingTickets
      <4>3. ASSUME NEW j \in Instances, pc[j] \in Waiting
            PROVE  ticket[j] \in WaitingTickets'
        <5>1. CASE j = i
          <6>1. ticket[j] = t
            BY <4>3, <5>1 DEF HasTicket, Waiting
          <6>2. QED
            BY <4>2, <6>1
        <5>2. CASE j # i
          <6>1. pc'[j] \in Waiting /\ ticket'[j] = ticket[j]
            BY <1>2, <3>2, <4>3, <5>2
          <6>2. QED
            BY <6>1 DEF WaitingTickets
        <5>3. QED
          BY <5>1, <5>2
      <4>4. QED
        BY <4>1, <4>2, <4>3 DEF WaitingTickets
    <3>4. (serving .. next - 1) \cup {t} = serving .. n - 1
      <4>1. CASE n = next
        BY <1>2, <1>3, <4>1
      <4>2. CASE n = next + 1 /\ t = next
        BY <1>2, <1>3, <4>2
      <4>3. QED
        BY <4>1, <4>2 DEF HasTicket
    <3>5. QED
      BY <3>1, <3>3, <3>4
  <2>5. QED
    BY <2>3, <2>4 DEF EntriesMatchPasses, Entry, WaitingTickets
<1>8. AtMostCap'
  BY <1>1 DEF AtMostCap
<1>9. NoLostWakeup'
  <2> SUFFICES ASSUME NEW j \in Instances, pc'[j] = "parked",
                      MayEnter(ticket[j], Uploads[j])'
               PROVE  \E k \in Instances : pc'[k] = "dropped"
    BY DEF NoLostWakeup
  <2>1. MayEnter(ticket'[j], Uploads[j])
    BY DEF MayEnter, Admits
  <2>2. j # i
    BY <1>2, <2>1
  <2>3. pc[j] = "parked" /\ MayEnter(ticket[j], Uploads[j])
    BY <1>1, <1>2, <2>1, <2>2 DEF TypeOK
  <2>4. PICK k \in Instances : pc[k] = "dropped"
    BY <1>1, <2>3 DEF NoLostWakeup
  <2>5. pc'[k] = "dropped"
    BY <1>1, <2>4 DEF HasTicket, TypeOK
  <2>6. QED
    BY <2>5
<1>10. QED
  BY <1>5, <1>6, <1>7, <1>8, <1>9 DEF IInv

\* The three steps that touch no ticket.
LEMMA SpuriousWakeupPreserves ==
    ASSUME IInv, NEW i \in Instances, SpuriousWakeup(i)
    PROVE  IInv'
<1> USE DEF IInv, SpuriousWakeup
<1>1. \A j \in Instances : /\ pc'[j] \in Waiting <=> pc[j] \in Waiting
                           /\ \A l \in Labels \ Waiting : pc'[j] = l <=> pc[j] = l
                           /\ pc'[j] = "parked" => pc[j] = "parked"
  BY DEF TypeOK, Waiting, Labels
<1>2. Drawn' = Drawn /\ Inside' = Inside /\ WaitingTickets' = WaitingTickets
  BY <1>1 DEF Drawn, Inside, WaitingTickets, Labels, Waiting
<1>3. TypeOK'
  BY DEF TypeOK
<1>4. TicketsInOrder'
  BY <1>1, <1>2 DEF TicketsInOrder, Drawn
<1>5. EntriesMatchPasses'
  BY <1>2 DEF EntriesMatchPasses, Entry, WaitingTickets
<1>6. NoLostWakeup'
  <2> SUFFICES ASSUME NEW j \in Instances, pc'[j] = "parked", MayEnter(ticket[j], Uploads[j])
               PROVE  \E k \in Instances : pc'[k] = "dropped"
    BY DEF NoLostWakeup, MayEnter, Admits
  <2>1. PICK k \in Instances : pc[k] = "dropped"
    BY <1>1 DEF NoLostWakeup
  <2>2. QED
    BY <1>1, <2>1 DEF Labels, Waiting
<1>7. QED
  BY <1>3, <1>4, <1>5, <1>6 DEF AtMostCap

LEMMA DropPassPreserves ==
    ASSUME IInv, NEW i \in Instances, DropPass(i)
    PROVE  IInv'
<1> USE DEF IInv, DropPass
<1>1. /\ \A j \in Instances : pc'[j] \in Waiting <=> pc[j] \in Waiting
      /\ pc' = [pc EXCEPT ![i] = "dropped"] /\ pc[i] = "admitted" /\ pc'[i] = "dropped"
      /\ \A j \in Instances \ {i} : pc'[j] = pc[j]
  BY DEF TypeOK, Waiting
<1>2. Drawn' = Drawn /\ WaitingTickets' = WaitingTickets
  BY <1>1 DEF Drawn, WaitingTickets
<1>3. Inside' = Inside \ {i}
  BY <1>1 DEF Inside
<1>4. TypeOK'
  BY DEF TypeOK
<1>5. TicketsInOrder'
  BY <1>1, <1>2 DEF TicketsInOrder, Drawn
<1>6. EntriesMatchPasses'
  <2>1. admitted = {Entry(j) : j \in Inside}
    BY DEF EntriesMatchPasses
  <2>2. \A j \in Inside : Entry(j).ticket = ticket[j]
    BY DEF Entry
  <2>3. \A j \in Inside : ticket[j] = ticket[i] <=> j = i
    BY <1>1 DEF TicketsInOrder, Drawn, Inside
  <2>4. admitted' = {Entry(j) : j \in Inside'}
    BY <1>3, <2>1, <2>2, <2>3
  <2>5. QED
    BY <1>2, <2>4 DEF EntriesMatchPasses, Entry, WaitingTickets
<1>7. AtMostCap'
  <2>1. IsFiniteSet(admitted) /\ Cardinality(admitted) \in Nat
    BY FiniteAdmitted
  <2>2. admitted' \in SUBSET admitted
    OBVIOUS
  <2>3. Cardinality(admitted') <= Cardinality(admitted) /\ Cardinality(admitted') \in Nat
    BY <2>1, <2>2, FS_Subset, FS_CardinalityType
  <2>4. QED
    BY <2>1, <2>3, QueueAssumption DEF AtMostCap, QueueAssumption
<1>8. NoLostWakeup'
  BY <1>1 DEF NoLostWakeup
<1>9. QED
  BY <1>4, <1>5, <1>6, <1>7, <1>8

LEMMA NotifyAfterDropPreserves ==
    ASSUME IInv, NEW i \in Instances, NotifyAfterDrop(i)
    PROVE  IInv'
<1> USE DEF IInv, NotifyAfterDrop
<1>1. \A j \in Instances : /\ pc'[j] \in Waiting <=> pc[j] \in Waiting
                           /\ pc'[j] = "new" <=> pc[j] = "new"
                           /\ pc'[j] = "admitted" <=> pc[j] = "admitted"
  BY DEF TypeOK, Waiting
<1>2. Drawn' = Drawn /\ Inside' = Inside /\ WaitingTickets' = WaitingTickets
  BY <1>1 DEF Drawn, Inside, WaitingTickets
<1>3. TypeOK'
  BY DEF TypeOK
<1>4. TicketsInOrder'
  BY <1>1, <1>2 DEF TicketsInOrder, Drawn
<1>5. EntriesMatchPasses'
  BY <1>2 DEF EntriesMatchPasses, Entry, WaitingTickets
<1>6. NoLostWakeup'
  BY DEF NoLostWakeup
<1>7. QED
  BY <1>3, <1>4, <1>5, <1>6 DEF AtMostCap

LEMMA StepPreserves == IInv /\ [Next]_vars => IInv'
<1> SUFFICES ASSUME IInv, [Next]_vars PROVE IInv'
  OBVIOUS
<1>1. ASSUME NEW i \in Instances, Acquire(i) PROVE IInv'
  <2>1. HasTicket(i, next, next + 1) /\ next' = next + 1
    BY <1>1 DEF Acquire, HasTicket
  <2>2. QED
    BY <1>1, <2>1, EnterPreserves, ParkPreserves DEF Acquire, TestTurn
<1>2. ASSUME NEW i \in Instances, Recheck(i) PROVE IInv'
  <2>1. HasTicket(i, ticket[i], next) /\ next' = next
    BY <1>2 DEF Recheck, HasTicket
  <2>2. QED
    BY <1>2, <2>1, EnterPreserves, ParkPreserves DEF Recheck, TestTurn
<1>3. ASSUME UNCHANGED vars PROVE IInv'
  BY <1>3 DEF vars, IInv, TypeOK, TicketsInOrder, EntriesMatchPasses, AtMostCap,
              NoLostWakeup, Drawn, Inside, Entry, MayEnter, Admits
<1>4. QED
  BY <1>1, <1>2, <1>3, SpuriousWakeupPreserves, DropPassPreserves,
     NotifyAfterDropPreserves DEF Next, Finished

-----------------------------------------------------------------------------
\* The inductive invariant of the admission queue.
THEOREM PendingInvariant == Spec => []IInv
BY InitEstablishes, StepPreserves, PTL DEF Spec

\* The queue's state keeps its type: no more tickets than instances, and the
\* turn never passes the last ticket drawn (`queued` never underflows).
THEOREM PendingTypeCorrect == Spec => []TypeOK
<1>1. IInv => TypeOK
  BY DEF IInv
<1>2. QED
  BY <1>1, PendingInvariant, PTL

\* First come, first served.
THEOREM PendingNobodyOvertakes == Spec => []NobodyOvertakes
<1>1. IInv => NobodyOvertakes
  <2> SUFFICES ASSUME IInv, NEW i \in Instances, NEW j \in Instances,
                      pc[i] \in Waiting, pc[j] \in {"admitted", "dropped", "gone"}
               PROVE  ticket[j] < ticket[i]
    BY DEF NobodyOvertakes
  <2>1. i \in Drawn /\ j \in Drawn /\ pc[j] \notin Waiting
    BY DEF Drawn, Waiting
  <2>2. serving <= ticket[i] /\ ~(serving <= ticket[j])
    BY <2>1 DEF IInv, TicketsInOrder
  <2>3. serving \in Nat /\ ticket[i] \in Nat /\ ticket[j] \in Nat
    BY QueueAssumption, FS_CardinalityType DEF IInv, TypeOK, QueueAssumption
  <2>4. QED
    BY <2>2, <2>3
<1>2. QED
  BY <1>1, PendingInvariant, PTL

\* Never more than ZZ_PENDING instances in.
THEOREM PendingAtMostCap == Spec => []AtMostCap
<1>1. IInv => AtMostCap
  BY DEF IInv
<1>2. QED
  BY <1>1, PendingInvariant, PTL

\* The instance whose turn it is never sleeps through its admission, the gap
\* between a drop and its notification included.
THEOREM PendingWakesTheHead == Spec => []NoLostWakeup
<1>1. IInv => NoLostWakeup
  BY DEF IInv
<1>2. QED
  BY <1>1, PendingInvariant, PTL

\* The entries are those of the passes alive, the turns those of the waiters.
THEOREM PendingEntriesMatch == Spec => []EntriesMatchPasses
<1>1. IInv => EntriesMatchPasses
  BY DEF IInv
<1>2. QED
  BY <1>1, PendingInvariant, PTL

-----------------------------------------------------------------------------
\* A sum of uploads over entries is one over the instances they stand for.
LEMMA SumUploadsIsTotal ==
    ASSUME NEW A, IsFiniteSet(A)
    PROVE  SumUploads(A) = Total([a \in A |-> a.uploads], A)
<1> DEFINE w == [a \in A |-> a.uploads]
           Body(g) == [s \in SUBSET A |->
                         IF s = {} THEN 0 ELSE Taken(s).uploads + g[s \ {Taken(s)}]]
           iter == CHOOSE g : g = Body(g)
<1>1. SumUploads(A) = iter[A]
  BY DEF SumUploads, MapThenSumSet, MapThenFoldSet, Taken
<1>2. ASSUME NEW g
      PROVE  SumsOver(g, w, A) <=> g = Body(g)
  <2>1. \A s \in SUBSET A : s # {} => w[Taken(s)] = Taken(s).uploads
    BY TakenIsMember
  <2>2. [s \in SUBSET A |-> IF s = {} THEN 0 ELSE w[Taken(s)] + g[s \ {Taken(s)}]] = Body(g)
    BY <2>1
  <2>3. QED
    BY <2>2 DEF SumsOver
<1>3. \E h : h = Body(h)
  BY <1>2, TotalIsASum
<1>4. iter = Body(iter)
  BY <1>3
<1> HIDE DEF w, iter
<1>5. SumsOver(iter, w, A)
  BY <1>2, <1>4
<1>6. iter[A] = Total(w, A)
  BY <1>5, TotalIs
<1>7. QED
  BY <1>1, <1>6 DEF w

LEMMA EntrySums ==
    ASSUME TypeOK, NEW A \in SUBSET Instances,
           \A i, j \in A : ticket[i] = ticket[j] => i = j
    PROVE  SumUploads({Entry(i) : i \in A}) = Total(Uploads, A)
<1> DEFINE f == [i \in A |-> Entry(i)]
           E == {f[i] : i \in A}
           v == [a \in E |-> a.uploads]
<1>1. IsFiniteSet(A)
  BY FS_Subset, QueueAssumption DEF QueueAssumption
<1>2. \A i \in A : Uploads[i] \in Nat
  BY QueueAssumption DEF QueueAssumption
<1>3. \A i, j \in A : f[i] = f[j] => i = j
  BY DEF Entry
<1>4. \A i \in A : v[f[i]] = Uploads[i]
  BY DEF Entry
<1>5. IsFiniteSet(E)
  <2>1. f \in Surjection(A, E)
    BY DEF Surjection
  <2>2. QED
    BY <1>1, <2>1, FS_Surjection
<1>6. E = {Entry(i) : i \in A}
  OBVIOUS
<1>7. SumUploads(E) = Total(v, E)
  <2> HIDE DEF E
  <2>1. QED
    BY <1>5, SumUploadsIsTotal
<1> HIDE DEF f, v
<1>8. Total(v, E) = Total(Uploads, A)
  BY <1>1, <1>2, <1>3, <1>4, TotalMapped
<1>9. QED
  BY <1>6, <1>7, <1>8

\* The uploads of all but one of the instances of S fit, whichever the one.
FitBeside(S) == \A p \in S : Total(Uploads, S \ {p}) <= Budget

LEMMA InsideFacts ==
    ASSUME IInv
    PROVE  /\ Inside \in SUBSET Instances /\ IsFiniteSet(Inside)
           /\ \A i, j \in Inside : ticket[i] = ticket[j] => i = j
           /\ \A S \in SUBSET Inside : SumUploads({Entry(i) : i \in S}) = Total(Uploads, S)
           /\ admitted = {Entry(i) : i \in Inside}
           /\ Cardinality(admitted) = Cardinality(Inside)
<1>1. Inside \in SUBSET Instances /\ IsFiniteSet(Inside)
  BY FS_Subset, QueueAssumption DEF QueueAssumption, Inside
<1>2. \A i, j \in Inside : ticket[i] = ticket[j] => i = j
  BY DEF IInv, TicketsInOrder, Inside, Drawn
<1>3. \A S \in SUBSET Inside : SumUploads({Entry(i) : i \in S}) = Total(Uploads, S)
  BY <1>1, <1>2, EntrySums DEF IInv
<1>4. admitted = {Entry(i) : i \in Inside}
  BY DEF IInv, EntriesMatchPasses
<1>5. Cardinality(admitted) = Cardinality(Inside)
  <2> DEFINE f == [i \in Inside |-> Entry(i)]
  <2>1. f \in Surjection(Inside, admitted)
    BY <1>4 DEF Surjection
  <2>2. \A i, j \in Inside : f[i] = f[j] => i = j
    BY <1>2 DEF Entry
  <2>3. f \in Bijection(Inside, admitted)
    BY <2>1, <2>2 DEF Bijection, Injection, IsInjective, Surjection
  <2> HIDE DEF f
  <2>4. QED
    BY <1>1, <2>3, FS_Bijection DEF ExistsBijection
<1>6. QED
  BY <1>1, <1>2, <1>3, <1>4, <1>5

\* What Admits weighs is what the promise asks for.
LEMMA AdmittedFit ==
    ASSUME IInv, NEW i \in Instances, i \notin Inside, Admits(Uploads[i])
    PROVE  FitBeside(Inside \cup {i}) /\ Cardinality(Inside \cup {i}) <= Cap
<1>1. /\ Inside \in SUBSET Instances /\ IsFiniteSet(Inside)
      /\ SumUploads({Entry(j) : j \in Inside}) = Total(Uploads, Inside)
      /\ admitted = {Entry(j) : j \in Inside}
      /\ Cardinality(admitted) = Cardinality(Inside)
  BY InsideFacts
<1>2. Cap \in Nat /\ Budget \in Nat /\ \A j \in Instances : Uploads[j] \in Nat
  BY QueueAssumption DEF QueueAssumption
<1> DEFINE S == Inside \cup {i}
<1>3. S \in SUBSET Instances /\ IsFiniteSet(S) /\ Cardinality(S) = Cardinality(Inside) + 1
  BY <1>1, FS_AddElement
<1>4. Cardinality(S) <= Cap
  <2>1. Cardinality(Inside) \in Nat /\ Cardinality(Inside) < Cap
    BY <1>1, FS_CardinalityType DEF Admits
  <2>2. QED
    BY <1>2, <1>3, <2>1
<1>5. \A j \in S : Uploads[j] \in Nat
  BY <1>2, <1>3
<1>6. ASSUME NEW p \in S
      PROVE  Total(Uploads, S \ {p}) <= Budget
  <2>1. Total(Uploads, S) = Total(Uploads, S \ {p}) + Uploads[p]
    <3> HIDE DEF S
    <3>1. QED
      BY <1>3, <1>5, <1>6, TotalRemove
  <2>2. Total(Uploads, S) = Total(Uploads, Inside) + Uploads[i]
    BY <1>1, <1>5, TotalAdd
  <2>3. Total(Uploads, S \ {p}) \in Nat /\ Total(Uploads, Inside) \in Nat
    <3>1. IsFiniteSet(S \ {p}) /\ \A j \in S \ {p} : Uploads[j] \in Nat
      BY <1>3, <1>5, FS_Subset
    <3>2. \A j \in Inside : Uploads[j] \in Nat
      BY <1>5
    <3> HIDE DEF S
    <3>3. QED
      BY <1>1, <3>1, <3>2, TotalNat
  <2>4. CASE admitted = {}
    <3>1. Inside = {}
      BY <1>1, <2>4
    <3>2. S \ {p} = {}
      BY <1>6, <3>1
    <3>3. QED
      BY <1>2, <3>2, TotalOfNothing
  <2>5. CASE admitted # {}
    <3> DEFINE W == {Uploads[i]} \cup {a.uploads : a \in admitted}
    <3>1. Uploads[i] + SumUploads(admitted) - Min(W) <= Budget
      BY <2>5 DEF Admits
    <3>2. W = {Uploads[j] : j \in S}
      <4>1. {a.uploads : a \in admitted} = {Uploads[j] : j \in Inside}
        <5>1. \A j \in Inside : Entry(j).uploads = Uploads[j]
          BY DEF Entry
        <5>2. QED
          BY <1>1, <5>1
      <4>2. QED
        BY <4>1
    <3>3. IsFiniteSet(W) /\ (\A n \in W : n \in Nat) /\ W # {}
      <4> DEFINE g == [j \in S |-> Uploads[j]]
      <4>1. g \in Surjection(S, W)
        BY <3>2 DEF Surjection
      <4>2. IsFiniteSet(W)
        BY <1>3, <4>1, FS_Surjection
      <4>3. QED
        BY <1>5, <3>2, <4>2
    <3> HIDE DEF W
    <3>4. Min(W) \in W /\ \A n \in W : Min(W) <= n
      <4>1. \E m \in W : \A n \in W : m <= n
        BY <3>3, LeastMember
      <4>2. QED
        BY <4>1 DEF Min
    <3>5. Min(W) \in Nat /\ Min(W) <= Uploads[p] /\ Uploads[p] \in Nat /\ Uploads[i] \in Nat
      BY <1>5, <1>6, <3>2, <3>3, <3>4
    <3>6. Uploads[i] + Total(Uploads, Inside) - Min(W) <= Budget
      BY <1>1, <3>1
    <3> HIDE DEF S
    <3>7. QED
      BY <1>2, <2>1, <2>2, <2>3, <3>5, <3>6
  <2>6. QED
    BY <2>4, <2>5
<1>7. QED
  BY <1>4, <1>6 DEF FitBeside

\* Who leaves makes room for nobody but those already in.
LEMMA LeavingFits ==
    ASSUME NEW S \in SUBSET Instances, NEW q \in S, FitBeside(S)
    PROVE  FitBeside(S \ {q})
<1>1. IsFiniteSet(S) /\ Budget \in Nat /\ \A j \in S : Uploads[j] \in Nat
  BY FS_Subset, QueueAssumption DEF QueueAssumption
<1>2. ASSUME NEW p \in S \ {q}
      PROVE  Total(Uploads, (S \ {q}) \ {p}) <= Budget
  <2> DEFINE R == S \ {p}
  <2>1. IsFiniteSet(R) /\ q \in R /\ \A j \in R : Uploads[j] \in Nat
    BY <1>1, FS_Subset
  <2>2. Total(Uploads, R) <= Budget
    BY DEF FitBeside
  <2>3. (S \ {q}) \ {p} = R \ {q}
    OBVIOUS
  <2> HIDE DEF R
  <2>4. Total(Uploads, R) = Total(Uploads, R \ {q}) + Uploads[q]
    BY <2>1, TotalRemove
  <2>5. Total(Uploads, R \ {q}) \in Nat /\ Uploads[q] \in Nat
    <3>1. IsFiniteSet(R \ {q}) /\ \A j \in R \ {q} : Uploads[j] \in Nat
      BY <2>1, FS_Subset
    <3>2. QED
      BY <2>1, <3>1, TotalNat
  <2>6. QED
    BY <1>1, <2>2, <2>3, <2>4, <2>5
<1>3. QED
  BY <1>2 DEF FitBeside

\* What a step does to the instances inside.
LEMMA InsideSteps ==
    ASSUME IInv, [Next]_vars
    PROVE  \/ \E i \in Instances \ Inside : Admits(Uploads[i]) /\ Inside' = Inside \cup {i}
           \/ \E i \in Inside : Inside' = Inside \ {i}
           \/ Inside' = Inside
<1> USE DEF IInv, TypeOK
<1>1. ASSUME NEW i \in Instances, NEW t, TestTurn(i, t), pc[i] \in {"new", "awake"}
      PROVE  \/ Admits(Uploads[i]) /\ Inside' = Inside \cup {i} /\ i \notin Inside
             \/ Inside' = Inside
  BY <1>1 DEF TestTurn, MayEnter, Inside
<1>2. ASSUME NEW i \in Instances, SpuriousWakeup(i) \/ NotifyAfterDrop(i)
      PROVE  Inside' = Inside
  BY <1>2 DEF SpuriousWakeup, NotifyAfterDrop, Inside
<1>3. ASSUME NEW i \in Instances, DropPass(i)
      PROVE  i \in Inside /\ Inside' = Inside \ {i}
  BY <1>3 DEF DropPass, Inside
<1>4. ASSUME UNCHANGED vars PROVE Inside' = Inside
  BY <1>4 DEF vars, Inside
<1>5. ASSUME NEW i \in Instances, Acquire(i) \/ Recheck(i)
      PROVE  pc[i] \in {"new", "awake"} /\ \E t : TestTurn(i, t)
  BY <1>5 DEF Acquire, Recheck
<1> QED
  BY <1>1, <1>2, <1>3, <1>4, <1>5 DEF Next, Finished

LEMMA FitStep == IInv /\ FitBeside(Inside) /\ [Next]_vars => FitBeside(Inside)'
<1> SUFFICES ASSUME IInv, FitBeside(Inside), [Next]_vars PROVE FitBeside(Inside')
  BY DEF FitBeside
<1>1. Inside \in SUBSET Instances
  BY DEF Inside
<1>2. QED
  BY <1>1, InsideSteps, AdmittedFit, LeavingFits

\* Whichever of the instances let in is the one proving, the uploads of the
\* others are within ZZ_PENDING_BYTES: Queue::admits, which weighs everything
\* but the smallest, suffices, and no drop or later admission undoes it.
THEOREM PendingBudgetHolds == Spec => []BudgetHoldsWhicheverProves
<1>1. Init => FitBeside(Inside)
  BY DEF Init, FitBeside, Inside
<1>2. IInv /\ FitBeside(Inside) => BudgetHoldsWhicheverProves
  <2> SUFFICES ASSUME IInv, FitBeside(Inside), NEW a \in admitted
               PROVE  SumUploads(admitted \ {a}) <= Budget
    BY DEF BudgetHoldsWhicheverProves
  <2>1. PICK p \in Inside : a = Entry(p)
    BY InsideFacts
  <2>2. admitted \ {a} = {Entry(j) : j \in Inside \ {p}}
    BY <2>1, InsideFacts DEF Entry
  <2>3. SumUploads({Entry(j) : j \in Inside \ {p}}) = Total(Uploads, Inside \ {p})
    BY InsideFacts
  <2>4. QED
    BY <2>1, <2>2, <2>3 DEF FitBeside
<1>3. QED
  BY <1>1, <1>2, FitStep, PendingInvariant, PTL DEF Spec
\* The queue implements FifoAdmission.  Its line is the waiters by ticket.
Line == [k \in 1 .. next - serving |-> HolderOf(serving + k - 1)]

HoldersWait ==
    /\ \A i \in Instances : pc[i] \in Waiting => HolderOf(ticket[i]) = i
    /\ \A t \in serving .. next - 1 :
          /\ HolderOf(t) \in Instances /\ pc[HolderOf(t)] \in Waiting
          /\ ticket[HolderOf(t)] = t

LineIsTheWaiters ==
    /\ next \in Nat /\ serving \in Nat /\ serving <= next /\ next - serving \in Nat
    /\ Line \in Seq(Instances) /\ Len(Line) = next - serving
    /\ \A i \in Instances, k \in 1 .. next - serving :
          Line[k] = i <=> pc[i] \in Waiting /\ ticket[i] = serving + k - 1
    /\ {Line[k] : k \in 1 .. Len(Line)} = {i \in Instances : pc[i] \in Waiting}

LEMMA HolderFacts == IInv => HoldersWait
<1> SUFFICES ASSUME IInv PROVE HoldersWait
  OBVIOUS
<1>1. ASSUME NEW i \in Instances, pc[i] \in Waiting
      PROVE  HolderOf(ticket[i]) = i
  <2>1. \A j \in Instances : pc[j] \in Waiting /\ ticket[j] = ticket[i] => j = i
    BY <1>1 DEF IInv, TicketsInOrder, Drawn, Waiting
  <2>2. QED
    BY <1>1, <2>1 DEF HolderOf
<1>2. ASSUME NEW t \in serving .. next - 1
      PROVE  /\ HolderOf(t) \in Instances /\ pc[HolderOf(t)] \in Waiting
             /\ ticket[HolderOf(t)] = t
  <2>1. \E i \in Instances : pc[i] \in Waiting /\ ticket[i] = t
    BY DEF IInv, EntriesMatchPasses
  <2>2. QED
    BY <2>1 DEF HolderOf
<1>3. QED
  BY <1>1, <1>2 DEF HoldersWait

LEMMA LineFacts == IInv => LineIsTheWaiters
<1> SUFFICES ASSUME IInv PROVE LineIsTheWaiters
  OBVIOUS
<1>1. next \in Nat /\ serving \in Nat /\ serving <= next /\ next - serving \in Nat
  BY QueueAssumption, FS_CardinalityType DEF IInv, TypeOK, QueueAssumption
<1>2. \A k \in 1 .. next - serving : serving + k - 1 \in serving .. next - 1
  BY <1>1
<1>3. \A k \in 1 .. next - serving :
         Line[k] = HolderOf(serving + k - 1) /\ Line[k] \in Instances /\ pc[Line[k]] \in Waiting
  BY <1>2, HolderFacts DEF Line, HoldersWait
<1>4. Line \in [1 .. next - serving -> Instances]
  BY <1>3 DEF Line
<1>5. Line \in Seq(Instances) /\ Len(Line) = next - serving
  BY <1>1, <1>4
<1>6. ASSUME NEW i \in Instances, pc[i] \in Waiting
      PROVE  \E k \in 1 .. next - serving : Line[k] = i
  <2>1. ticket[i] \in serving .. next - 1
    BY <1>6 DEF IInv, EntriesMatchPasses
  <2>2. HolderOf(ticket[i]) = i
    BY <1>6, HolderFacts DEF HoldersWait
  <2> DEFINE k == ticket[i] - serving + 1
  <2>3. k \in 1 .. next - serving /\ serving + k - 1 = ticket[i]
    BY <1>1, <2>1
  <2> HIDE DEF k
  <2>4. Line[k] = i
    BY <1>3, <2>2, <2>3
  <2>5. QED
    BY <2>3, <2>4
<1>7. {Line[k] : k \in 1 .. Len(Line)} = {i \in Instances : pc[i] \in Waiting}
  <2> HIDE DEF Line
  <2>1. QED
    BY <1>3, <1>5, <1>6
<1>8. \A i \in Instances, k \in 1 .. next - serving :
         Line[k] = i <=> pc[i] \in Waiting /\ ticket[i] = serving + k - 1
  BY <1>2, HolderFacts DEF Line, HoldersWait
<1>9. QED
  BY <1>1, <1>5, <1>7, <1>8 DEF LineIsTheWaiters

LEMMA FifoTogether ==
    ASSUME NEW S
    PROVE  Fifo!FitsTogether(S) <=> FitBeside(S) /\ Cardinality(S) <= Cap
<1>1. \A A : Fifo!BytesOf(A) = Total(Uploads, A)
  BY DEF Fifo!BytesOf, Fifo!MapThenSumSet, Fifo!MapThenFoldSet, Taken, Total, SumsOver
<1>2. Fifo!Cardinality(S) = Cardinality(S)
  BY DEF Fifo!Cardinality, Cardinality
<1>3. QED
  BY <1>1, <1>2 DEF Fifo!FitsTogether, FitBeside

LEMMA LineFactsNext == IInv' => LineIsTheWaiters'
BY LineFacts, PTL

\* The line stays as it is when nobody's turn has come and no ticket is drawn.
LEMMA SameLine ==
    ASSUME UNCHANGED <<next, serving, ticket>>,
           \A i \in Instances : pc'[i] \in Waiting <=> pc[i] \in Waiting
    PROVE  Line' = Line
<1>1. \A t : HolderOf(t)' = HolderOf(t)
  BY DEF HolderOf
<1>2. QED
  BY <1>1 DEF Line

\* Who draws a ticket and sleeps is last in line.
LEMMA JoinsLine ==
    ASSUME IInv, IInv', NEW i \in Instances, pc[i] = "new",
           ticket' = [ticket EXCEPT ![i] = next], next' = next + 1, serving' = serving,
           pc' = [pc EXCEPT ![i] = "parked"]
    PROVE  Line' = Append(Line, i)
<1>1. LineIsTheWaiters /\ LineIsTheWaiters'
  BY LineFacts, LineFactsNext
<1>2. pc \in [Instances -> Labels] /\ ticket \in [Instances -> Nat]
  BY DEF IInv, TypeOK, Labels
<1>3. next \in Nat /\ serving \in Nat /\ serving <= next /\ next - serving \in Nat
  BY <1>1 DEF LineIsTheWaiters
<1>4. /\ Line \in Seq(Instances) /\ Len(Line) = next - serving
      /\ Line' \in Seq(Instances) /\ Len(Line') = next - serving + 1
  BY <1>1, <1>3 DEF LineIsTheWaiters
<1>5. ASSUME NEW k \in 1 .. next - serving
      PROVE  Line'[k] = Line[k]
  <2>1. Line[k] \in Instances
    BY <1>4, ElementOfSeq
  <2>2. PICK j \in Instances : j = Line[k]
    BY <2>1
  <2>3. pc[j] \in Waiting /\ ticket[j] = serving + k - 1
    BY <1>1, <2>2 DEF LineIsTheWaiters
  <2>4. j # i
    BY <2>3 DEF Waiting
  <2>5. pc'[j] \in Waiting /\ ticket'[j] = serving' + k - 1
    BY <1>2, <2>3, <2>4
  <2>6. k \in 1 .. next' - serving'
    BY <1>3
  <2>7. Line'[k] = j
    BY <1>1, <2>5, <2>6 DEF LineIsTheWaiters
  <2>8. QED
    BY <2>2, <2>7
<1>6. Line'[next - serving + 1] = i
  <2>1. pc'[i] \in Waiting /\ ticket'[i] = next
    BY <1>2 DEF Waiting
  <2>2. /\ next - serving + 1 \in 1 .. next' - serving'
        /\ serving' + (next - serving + 1) - 1 = next
    BY <1>3
  <2>3. QED
    BY <1>1, <2>1, <2>2 DEF LineIsTheWaiters
<1> DEFINE n == next - serving
<1> HIDE DEF Line, n
<1>7. n \in Nat /\ n = Len(Line) /\ Len(Line') = n + 1
  BY <1>3, <1>4 DEF n
<1>8. QED
  <2>1. Append(Line, i) \in Seq(Instances) /\ Len(Append(Line, i)) = n + 1
    BY <1>4, <1>7
  <2>2. \A k \in 1 .. n + 1 : Append(Line, i)[k] = IF k = n + 1 THEN i ELSE Line[k]
    BY <1>4, <1>7
  <2>3. \A k \in 1 .. n + 1 : Line'[k] = Append(Line, i)[k]
    BY <1>5, <1>6, <1>7, <2>2 DEF n
  <2>4. QED
    BY <1>4, <1>7, <2>1, <2>3, SeqEqual

\* Whose turn it is is first in line, and the others move up.
LEMMA LeavesLine ==
    ASSUME IInv, IInv', NEW i \in Instances, pc[i] = "awake", ticket[i] = serving,
           UNCHANGED <<ticket, next>>, serving' = serving + 1,
           \A j \in Instances \ {i} : pc'[j] \in Waiting <=> pc[j] \in Waiting
    PROVE  Line # <<>> /\ Head(Line) = i /\ Line' = Tail(Line)
<1>1. LineIsTheWaiters /\ LineIsTheWaiters'
  BY LineFacts, LineFactsNext
<1>2. /\ next \in Nat /\ serving \in Nat /\ serving <= next /\ next - serving \in Nat
      /\ next' - serving' \in Nat
  BY <1>1 DEF LineIsTheWaiters
<1>3. /\ Line \in Seq(Instances) /\ Len(Line) = next - serving
      /\ Line' \in Seq(Instances) /\ Len(Line') = next - serving - 1
  BY <1>1, <1>2 DEF LineIsTheWaiters
<1>4. 1 \in 1 .. next - serving
  BY <1>2
<1>5. Line[1] = i
  <2>1. pc[i] \in Waiting /\ ticket[i] = serving + 1 - 1
    BY <1>2 DEF Waiting
  <2>2. QED
    BY <1>1, <1>4, <2>1 DEF LineIsTheWaiters
<1>6. ASSUME NEW k \in 1 .. next - serving - 1
      PROVE  Line'[k] = Line[k + 1]
  <2>1. k + 1 \in 1 .. next - serving /\ k \in 1 .. next' - serving'
    BY <1>2
  <2>2. Line[k + 1] \in Instances
    BY <1>3, <2>1, ElementOfSeq
  <2>3. PICK j \in Instances : j = Line[k + 1]
    BY <2>2
  <2>4. pc[j] \in Waiting /\ ticket[j] = serving + (k + 1) - 1
    BY <1>1, <2>1, <2>3 DEF LineIsTheWaiters
  <2>5. j # i
    BY <1>2, <2>4
  <2>6. pc'[j] \in Waiting /\ ticket'[j] = serving' + k - 1
    BY <1>2, <2>4, <2>5
  <2>7. Line'[k] = j
    BY <1>1, <2>1, <2>6 DEF LineIsTheWaiters
  <2>8. QED
    BY <2>3, <2>7
<1> DEFINE n == next - serving
<1>7. n \in Nat /\ n = Len(Line) /\ Len(Line') = n - 1 /\ 1 \in 1 .. n
  BY <1>2, <1>3, <1>4
<1>8. \A k \in 1 .. n - 1 : Line'[k] = Line[k + 1]
  BY <1>6
<1> HIDE DEF Line, n
<1>9. Line # <<>>
  BY <1>3, <1>7, EmptySeq
<1>10. Head(Line) = i
  BY <1>3, <1>5, <1>9
<1>11. /\ Tail(Line) \in Seq(Instances) /\ Len(Tail(Line)) = n - 1
       /\ \A k \in 1 .. n - 1 : Tail(Line)[k] = Line[k + 1]
  BY <1>3, <1>7, <1>9, HeadTailProperties
<1>12. Line' = Tail(Line)
  BY <1>3, <1>7, <1>8, <1>11, SeqEqual
<1>13. QED
  BY <1>9, <1>10, <1>12

\* The actions of the promise, said of Line.
LEMMA FifoActions ==
    ASSUME NEW i \in Instances
    PROVE  /\ /\ i \notin Inside \cup {Line[k] : k \in 1 .. Len(Line)}
              /\ Line' = Append(Line, i) /\ Inside' = Inside
              => Fifo!Next
           /\ /\ i \notin Inside /\ Line = <<>> /\ FitBeside(Inside \cup {i})
              /\ Cardinality(Inside \cup {i}) <= Cap
              /\ Inside' = Inside \cup {i} /\ Line' = Line
              => Fifo!Next
           /\ /\ Line # <<>> /\ Head(Line) = i /\ FitBeside(Inside \cup {i})
              /\ Cardinality(Inside \cup {i}) <= Cap
              /\ Inside' = Inside \cup {i} /\ Line' = Tail(Line)
              => Fifo!Next
           /\ i \in Inside /\ Inside' = Inside \ {i} /\ Line' = Line => Fifo!Next
<1>1. Fifo!FitsTogether(Inside \cup {i})
         <=> FitBeside(Inside \cup {i}) /\ Cardinality(Inside \cup {i}) <= Cap
  BY FifoTogether
<1>2. ASSUME i \notin Inside \cup {Line[k] : k \in 1 .. Len(Line)},
             Line' = Append(Line, i), Inside' = Inside
      PROVE  Fifo!Arrive(i)
  BY <1>2 DEF Fifo!Arrive, Fifo!InLine, Line
<1>3. ASSUME i \notin Inside, Line = <<>>, Fifo!FitsTogether(Inside \cup {i}),
             Inside' = Inside \cup {i}, Line' = Line
      PROVE  Fifo!PassThrough(i)
  BY <1>3 DEF Fifo!PassThrough, Line
<1>4. ASSUME Line # <<>>, Head(Line) = i, Fifo!FitsTogether(Inside \cup {i}),
             Inside' = Inside \cup {i}, Line' = Tail(Line)
      PROVE  Fifo!LetIn
  BY <1>4 DEF Fifo!LetIn, Line
<1>5. ASSUME i \in Inside, Inside' = Inside \ {i}, Line' = Line
      PROVE  Fifo!Leave(i)
  BY <1>5 DEF Fifo!Leave, Line
<1>6. QED
  BY <1>1, <1>2, <1>3, <1>4, <1>5 DEF Fifo!Next

LEMMA FifoStutter == Line' = Line /\ Inside' = Inside => UNCHANGED Fifo!vars
BY DEF Fifo!vars, Line

LEMMA FifoStep == IInv /\ IInv' /\ [Next]_vars => [Fifo!Next]_(Fifo!vars)
<1> SUFFICES ASSUME IInv, IInv', [Next]_vars PROVE Fifo!Next \/ UNCHANGED Fifo!vars
  OBVIOUS
<1>1. pc \in [Instances -> Labels] /\ ticket \in [Instances -> Nat]
  BY DEF IInv, TypeOK, Labels
<1>2. LineIsTheWaiters /\ LineIsTheWaiters'
  BY LineFacts, LineFactsNext
<1>3. next \in Nat /\ serving \in Nat /\ serving <= next
  BY <1>2 DEF LineIsTheWaiters
<1>4. ASSUME NEW i \in Instances, Acquire(i), MayEnter(next, Uploads[i]),
             serving' = serving + 1,
             pc' = [j \in Instances |-> IF j = i THEN "admitted"
                                        ELSE IF pc[j] = "parked" THEN "awake" ELSE pc[j]]
      PROVE  Fifo!Next
  <2>1. next = serving /\ next' = serving' /\ Admits(Uploads[i]) /\ pc[i] = "new"
    BY <1>4 DEF Acquire, MayEnter
  <2>2. Len(Line) = 0 /\ Len(Line') = 0 /\ Line \in Seq(Instances) /\ Line' \in Seq(Instances)
    <3>1. /\ Line \in Seq(Instances) /\ Len(Line) = next - serving
          /\ Line' \in Seq(Instances) /\ Len(Line') = next' - serving'
      BY <1>2 DEF LineIsTheWaiters
    <3>2. next - serving = 0 /\ next' - serving' = 0
      BY <1>3, <1>4, <2>1
    <3>3. QED
      BY <3>1, <3>2
  <2>3. Line = <<>> /\ Line' = <<>>
    <3> HIDE DEF Line
    <3>1. QED
      BY <2>2, EmptySeq
  <2>4. i \notin Inside /\ Inside' = Inside \cup {i}
    BY <1>4, <2>1 DEF Inside
  <2>5. FitBeside(Inside \cup {i}) /\ Cardinality(Inside \cup {i}) <= Cap
    BY <2>1, <2>4, AdmittedFit
  <2>6. QED
    BY <2>3, <2>4, <2>5, FifoActions
<1>5. ASSUME NEW i \in Instances, Acquire(i), pc' = [pc EXCEPT ![i] = "parked"],
             UNCHANGED <<admitted, serving>>
      PROVE  Fifo!Next
  <2>1. pc[i] = "new" /\ ticket' = [ticket EXCEPT ![i] = next] /\ next' = next + 1
    BY <1>5 DEF Acquire
  <2>2. Line' = Append(Line, i)
    BY <1>5, <2>1, JoinsLine
  <2>3. Inside' = Inside /\ i \notin Inside
    BY <1>1, <1>5, <2>1 DEF Inside
  <2>4. i \notin {Line[k] : k \in 1 .. Len(Line)}
    BY <1>2, <2>1 DEF LineIsTheWaiters, Waiting
  <2>5. QED
    BY <2>2, <2>3, <2>4, FifoActions
<1>6. ASSUME NEW i \in Instances, Recheck(i), MayEnter(ticket[i], Uploads[i]),
             serving' = serving + 1,
             pc' = [j \in Instances |-> IF j = i THEN "admitted"
                                        ELSE IF pc[j] = "parked" THEN "awake" ELSE pc[j]]
      PROVE  Fifo!Next
  <2>1. pc[i] = "awake" /\ ticket[i] = serving /\ UNCHANGED <<ticket, next>> /\ Admits(Uploads[i])
    BY <1>6 DEF Recheck, MayEnter
  <2>2. \A j \in Instances \ {i} : pc'[j] \in Waiting <=> pc[j] \in Waiting
    BY <1>1, <1>6 DEF Waiting, Labels
  <2>3. Line # <<>> /\ Head(Line) = i /\ Line' = Tail(Line)
    BY <1>6, <2>1, <2>2, LeavesLine
  <2>4. i \notin Inside /\ Inside' = Inside \cup {i}
    BY <1>6, <2>1 DEF Inside
  <2>5. FitBeside(Inside \cup {i}) /\ Cardinality(Inside \cup {i}) <= Cap
    BY <2>1, <2>4, AdmittedFit
  <2>6. QED
    BY <2>3, <2>4, <2>5, FifoActions
<1>7. ASSUME NEW i \in Instances, Recheck(i), pc' = [pc EXCEPT ![i] = "parked"],
             UNCHANGED <<admitted, serving>>
      PROVE  UNCHANGED Fifo!vars
  <2>1. pc[i] = "awake" /\ UNCHANGED <<next, serving, ticket>>
    BY <1>7 DEF Recheck
  <2>2. \A j \in Instances : pc'[j] \in Waiting <=> pc[j] \in Waiting
    BY <1>1, <1>7, <2>1 DEF Waiting
  <2>3. Inside' = Inside
    BY <1>1, <1>7, <2>1 DEF Inside
  <2>4. QED
    BY <2>1, <2>2, <2>3, SameLine, FifoStutter
<1>8. ASSUME NEW i \in Instances, SpuriousWakeup(i) \/ NotifyAfterDrop(i)
      PROVE  UNCHANGED Fifo!vars
  <2>1. UNCHANGED <<next, serving, ticket>>
    BY <1>8 DEF SpuriousWakeup, NotifyAfterDrop
  <2>2. \A j \in Instances : /\ pc'[j] \in Waiting <=> pc[j] \in Waiting
                             /\ pc'[j] = "admitted" <=> pc[j] = "admitted"
    BY <1>1, <1>8 DEF SpuriousWakeup, NotifyAfterDrop, Waiting
  <2>3. Inside' = Inside
    BY <2>2 DEF Inside
  <2>4. QED
    BY <2>1, <2>2, <2>3, SameLine, FifoStutter
<1>9. ASSUME NEW i \in Instances, DropPass(i)
      PROVE  Fifo!Next
  <2>1. UNCHANGED <<next, serving, ticket>> /\ pc[i] = "admitted" /\ pc' = [pc EXCEPT ![i] = "dropped"]
    BY <1>9 DEF DropPass
  <2>2. \A j \in Instances : pc'[j] \in Waiting <=> pc[j] \in Waiting
    BY <1>1, <2>1 DEF Waiting
  <2>3. i \in Inside /\ Inside' = Inside \ {i}
    BY <1>1, <2>1 DEF Inside
  <2>4. QED
    BY <2>1, <2>2, <2>3, SameLine, FifoActions
<1>10. ASSUME UNCHANGED vars PROVE UNCHANGED Fifo!vars
  BY <1>10, SameLine, FifoStutter DEF vars, Inside
<1>11. QED
  BY <1>4, <1>5, <1>6, <1>7, <1>8, <1>9, <1>10 DEF Next, Finished, Acquire, Recheck, TestTurn

\* The ticket queue, its condition variable and its two-step drop implement
\* the promise: a line served in order, of which the first is let in when it
\* fits beside those inside.
THEOREM PendingImplementsFifo == Spec => ImplementsFifoAdmission
<1>1. Init => Fifo!Init
  <2> SUFFICES ASSUME Init PROVE Fifo!Init
    OBVIOUS
  <2>1. LineIsTheWaiters /\ next - serving = 0
    BY InitEstablishes, LineFacts DEF Init
  <2>2. Line \in Seq(Instances) /\ Len(Line) = 0
    BY <2>1 DEF LineIsTheWaiters
  <2>3. Line = <<>>
    <3> HIDE DEF Line
    <3>1. QED
      BY <2>2, EmptySeq
  <2>4. Inside = {}
    BY DEF Init, Inside
  <2>5. QED
    BY <2>3, <2>4 DEF Fifo!Init, Line
<1>2. QED
  BY <1>1, FifoStep, PendingInvariant, PTL DEF Spec, Fifo!Spec, ImplementsFifoAdmission
=============================================================================
