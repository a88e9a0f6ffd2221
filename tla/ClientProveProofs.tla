-------------------------- MODULE ClientProveProofs --------------------------
(***************************************************************************)
(* Proofs about ClientProve, for any instances, AIRs, admission, depths,   *)
(* residency and plans: the fixed sections a prove finds on its driver,    *)
(* the permit of the read-ahead, how many sections are on the card, which  *)
(* AIRs stay resident, and, when no prove panics, the agreement of the     *)
(* residency mirror with the drivers.                                      *)
(*                                                                         *)
(* Two arguments meet.  The threads' control (who waits, who holds the     *)
(* slot, the permit or the sections) needs nothing of the order of use;    *)
(* what the eviction leaves behind is counted, with the facts about finite *)
(* sets of FiniteFacts: the AIRs evicted are the first of the others by    *)
(* their stamps, so they are exactly as many as are too many.              *)
(***************************************************************************)
EXTENDS ClientProve, FiniteFacts

\* TypeOK in two parts: what the threads' control turns on, and the rest.
ClientTypes ==
    /\ line \in Seq(Instances)
    /\ slot \in Instances \cup {Nobody}
    /\ fixed \in SUBSET Airs /\ mirror \in SUBSET Airs
    /\ permits \in SUBSET Instances /\ releases \in SUBSET Instances
    /\ pc \in [Instances -> Labels]

RestTypes ==
    /\ inside \in SUBSET Instances
    /\ ahead \in [Instances -> {"nothing", "words", "uploaded"}]
    /\ plan \in [Airs -> Nat]
    /\ lastUsed \in [Airs -> Nat] /\ tick \in Nat

LEMMA TwoParts == TypeOK <=> ClientTypes /\ RestTypes
BY DEF TypeOK, ClientTypes, RestTypes

-----------------------------------------------------------------------------
\* The threads: who waits in the line, who holds the slot.

LEMMA LineOfInstances ==
    ASSUME line \in Seq(Instances)
    PROVE  \A k \in 1 .. Len(line) : line[k] \in Instances
OBVIOUS

\* A thread that is not in the line moves, and neither takes nor frees the
\* slot.
LEMMA ThreadMoves ==
    ASSUME ClientTypes, LineWaits, SlotIsHeldInside,
           NEW i \in Instances, NEW to \in Labels,
           pc[i] # "in line", Goto(i, to), line' = line, slot' = slot,
           pc[i] \in HoldingSlot <=> to \in HoldingSlot
    PROVE  pc' \in [Instances -> Labels] /\ LineWaits' /\ SlotIsHeldInside'
<1>1. pc \in [Instances -> Labels] /\ line \in Seq(Instances)
  BY DEF ClientTypes
<1>2. pc' = [pc EXCEPT ![i] = to]
  BY DEF Goto
<1>3. pc' \in [Instances -> Labels]
  BY <1>1, <1>2
<1>4. LineWaits'
  <2>1. \A k \in 1 .. Len(line) : line[k] \in Instances
    BY <1>1, LineOfInstances
  <2>2. \A k \in 1 .. Len(line) : pc'[line[k]] = "in line"
    BY <1>1, <1>2, <2>1 DEF LineWaits
  <2>3. QED
    BY <2>2 DEF LineWaits
<1>5. SlotIsHeldInside'
  BY <1>1, <1>2 DEF SlotIsHeldInside
<1>6. QED
  BY <1>3, <1>4, <1>5

\* Joining the line, or passing it by.
LEMMA AskMoves ==
    ASSUME ClientTypes, LineWaits, SlotIsHeldInside, NEW i \in Instances, AskAdmission(i)
    PROVE  ClientTypes' /\ LineWaits' /\ SlotIsHeldInside'
<1>1. pc \in [Instances -> Labels] /\ line \in Seq(Instances) /\ pc[i] = "new"
  BY DEF ClientTypes, AskAdmission
<1>2. UNCHANGED <<slot, sections, plan>>
  BY DEF AskAdmission
<1>3. CASE Admission!PassThrough(i) /\ Goto(i, "admitted")
  <2>1. line' = line /\ slot' = slot
    BY <1>2, <1>3 DEF Admission!PassThrough
  <2>2. pc' \in [Instances -> Labels] /\ LineWaits' /\ SlotIsHeldInside'
    BY <1>1, <1>3, <2>1, ThreadMoves DEF Labels, HoldingSlot
  <2>3. QED
    BY <1>2, <2>1, <2>2 DEF ClientTypes, sections
<1>4. CASE Admission!Arrive(i) /\ Goto(i, "in line")
  <2>1. line' = Append(line, i)
    BY <1>4 DEF Admission!Arrive
  <2>2. pc' = [pc EXCEPT ![i] = "in line"]
    BY <1>4 DEF Goto
  <2>3. line' \in Seq(Instances) /\ pc' \in [Instances -> Labels]
    <3>1. line' \in Seq(Instances)
      BY <1>1, <2>1
    <3>2. pc' \in [Instances -> Labels]
      BY <1>1, <2>2 DEF Labels
    <3>3. QED
      BY <3>1, <3>2
  <2>4. /\ Len(line') = Len(line) + 1
        /\ \A k \in 1 .. Len(line) : line'[k] = line[k]
        /\ line'[Len(line) + 1] = i
    BY <1>1, <2>1
  <2>5. \A k \in 1 .. Len(line) : line[k] # i /\ line[k] \in Instances
    <3>1. \A k \in 1 .. Len(line) : line[k] \in Instances
      BY <1>1
    <3>2. \A k \in 1 .. Len(line) : line[k] # i
      <4>1. pc[i] # "in line"
        BY <1>1
      <4>2. QED
        BY <4>1 DEF LineWaits
    <3>3. QED
      BY <3>1, <3>2
  <2>6. Len(line) \in Nat
    BY <1>1
  <2>7. LineWaits'
    <3>1. \A k \in 1 .. Len(line') : k \in 1 .. Len(line) \/ k = Len(line) + 1
      BY <2>4, <2>6
    <3>2. ASSUME NEW k \in 1 .. Len(line')
          PROVE  pc'[line'[k]] = "in line"
      <4>1. pc \in [Instances -> Labels]
        BY <1>1
      <4>2. CASE k \in 1 .. Len(line)
        <5>1. line'[k] = line[k] /\ line[k] # i /\ line[k] \in Instances
          BY <4>2, <2>4, <2>5
        <5>2. pc[line[k]] = "in line"
          BY <4>2 DEF LineWaits
        <5>3. QED
          BY <4>1, <5>1, <5>2, <2>2
      <4>3. CASE k = Len(line) + 1
        BY <4>1, <4>3, <2>4, <2>2
      <4>4. QED
        BY <3>1, <4>2, <4>3
    <3>3. ASSUME NEW k \in 1 .. Len(line'), NEW n \in 1 .. Len(line'), line'[k] = line'[n]
          PROVE  k = n
      <4>1. CASE k \in 1 .. Len(line) /\ n \in 1 .. Len(line)
        <5>1. line[k] = line[n]
          BY <3>3, <4>1, <2>4
        <5>2. QED
          BY <4>1, <5>1 DEF LineWaits
      <4>2. CASE k \in 1 .. Len(line) /\ n = Len(line) + 1
        BY <3>3, <4>2, <2>4, <2>5
      <4>3. CASE k = Len(line) + 1 /\ n \in 1 .. Len(line)
        BY <3>3, <4>3, <2>4, <2>5
      <4>4. QED
        BY <3>1, <4>1, <4>2, <4>3
    <3>4. QED
      BY <3>2, <3>3 DEF LineWaits
  <2>8. SlotIsHeldInside'
    BY <1>1, <1>2, <2>2 DEF SlotIsHeldInside, HoldingSlot
  <2>9. QED
    BY <1>2, <2>3, <2>7, <2>8 DEF ClientTypes, sections
<1>5. QED
  BY <1>3, <1>4 DEF AskAdmission

\* The head of the line is let in.
LEMMA AdmitMoves ==
    ASSUME ClientTypes, LineWaits, SlotIsHeldInside, Admit
    PROVE  ClientTypes' /\ LineWaits' /\ SlotIsHeldInside'
<1>1. pc \in [Instances -> Labels] /\ line \in Seq(Instances) /\ line # <<>>
  BY DEF ClientTypes, Admit, Admission!LetIn
<1>2. UNCHANGED <<slot, sections, plan>>
  BY DEF Admit
<1>3. line' = Tail(line) /\ pc' = [pc EXCEPT ![Head(line)] = "admitted"]
  BY DEF Admit, Admission!LetIn, Goto
<1>4. Head(line) = line[1] /\ Head(line) \in Instances /\ Len(line) \in Nat \ {0}
  BY <1>1
<1>5. /\ line' \in Seq(Instances) /\ Len(line') = Len(line) - 1
      /\ \A k \in 1 .. Len(line') : line'[k] = line[k + 1]
  BY <1>1, <1>3
<1>6. pc' \in [Instances -> Labels]
  BY <1>1, <1>3 DEF Labels
<1>7. pc[Head(line)] = "in line"
  <2>1. 1 \in 1 .. Len(line)
    BY <1>4
  <2>2. pc[line[1]] = "in line"
    BY <2>1 DEF LineWaits
  <2>3. QED
    BY <1>4, <2>2
<1>8. LineWaits'
  <2>1. \A k \in 1 .. Len(line') : k + 1 \in 1 .. Len(line) /\ k + 1 # 1
    BY <1>4, <1>5
  <2>2. \A k \in 1 .. Len(line') : line'[k] # Head(line) /\ line'[k] \in Instances
    <3>1. 1 \in 1 .. Len(line)
      BY <1>4
    <3>2. \A k \in 1 .. Len(line) : line[k] \in Instances
      BY <1>1
    <3>3. ASSUME NEW k \in 1 .. Len(line')
          PROVE  line'[k] # line[1]
      BY <1>5, <2>1, <3>1 DEF LineWaits
    <3>4. Head(line) = line[1]
      BY <1>4
    <3>5. QED
      BY <1>5, <2>1, <3>2, <3>3, <3>4
  <2>3. \A k \in 1 .. Len(line') : pc'[line'[k]] = "in line"
    BY <1>1, <1>3, <1>5, <2>1, <2>2 DEF LineWaits
  <2>4. ASSUME NEW k \in 1 .. Len(line'), NEW n \in 1 .. Len(line'), line'[k] = line'[n]
        PROVE  k = n
    <3>1. line[k + 1] = line[n + 1] /\ k + 1 \in 1 .. Len(line) /\ n + 1 \in 1 .. Len(line)
      BY <1>5, <2>1, <2>4
    <3>2. k + 1 = n + 1
      BY <3>1 DEF LineWaits
    <3>3. k \in Int /\ n \in Int
      BY <1>4, <1>5
    <3>4. QED
      BY <3>2, <3>3
  <2>5. QED
    BY <2>3, <2>4 DEF LineWaits
<1>9. SlotIsHeldInside'
  BY <1>1, <1>2, <1>3, <1>4, <1>7 DEF SlotIsHeldInside, HoldingSlot
<1>10. QED
  BY <1>2, <1>5, <1>6, <1>8, <1>9 DEF ClientTypes, sections

\* Taking the slot, which is free, and freeing it.
LEMMA TakeMoves ==
    ASSUME ClientTypes, LineWaits, SlotIsHeldInside, NEW i \in Instances, TakeSlot(i)
    PROVE  ClientTypes' /\ LineWaits' /\ SlotIsHeldInside'
<1>1. /\ pc \in [Instances -> Labels] /\ line \in Seq(Instances)
      /\ fixed \in SUBSET Airs /\ mirror \in SUBSET Airs /\ releases \in SUBSET Instances
      /\ permits \in SUBSET Instances
  BY DEF ClientTypes
<1>2. pc[i] = "slot wait" /\ slot = Nobody /\ slot' = i
  BY DEF TakeSlot
<1>3. pc' = [pc EXCEPT ![i] = "slot"] /\ line' = line /\ permits' = permits
  BY DEF TakeSlot, Goto, admission
<1>4. /\ fixed' \in SUBSET Airs /\ mirror' \in SUBSET Airs /\ releases' \in SUBSET Instances
  BY <1>1 DEF TakeSlot
<1>5. pc' \in [Instances -> Labels]
  BY <1>1, <1>3 DEF Labels
<1>6. LineWaits'
  <2>1. \A k \in 1 .. Len(line) : line[k] \in Instances
    BY <1>1, LineOfInstances
  <2>2. \A k \in 1 .. Len(line) : line[k] # i
    BY <1>2 DEF LineWaits
  <2>3. \A k \in 1 .. Len(line) : pc'[line[k]] = "in line"
    BY <1>1, <1>3, <2>1, <2>2 DEF LineWaits
  <2>4. QED
    BY <1>3, <2>3 DEF LineWaits
<1>7. SlotIsHeldInside'
  <2>1. \A j \in Instances : pc[j] \notin HoldingSlot
    BY <1>2, ClientAssumption DEF SlotIsHeldInside, ClientAssumption
  <2>2. QED
    BY <1>1, <1>2, <1>3, <2>1 DEF SlotIsHeldInside, HoldingSlot
<1>8. QED
  BY <1>1, <1>2, <1>3, <1>4, <1>5, <1>6, <1>7 DEF ClientTypes

LEMMA FreeMoves ==
    ASSUME ClientTypes, LineWaits, SlotIsHeldInside, NEW i \in Instances, FreeSlot(i)
    PROVE  ClientTypes' /\ LineWaits' /\ SlotIsHeldInside'
<1>1. pc \in [Instances -> Labels] /\ line \in Seq(Instances)
  BY DEF ClientTypes
<1>2. pc[i] = "slot done" /\ slot = i /\ slot' = Nobody
  BY DEF FreeSlot
<1>3. pc' = [pc EXCEPT ![i] = "leaving"] /\ line' = line /\ UNCHANGED sections
  BY DEF FreeSlot, Goto, admission
<1>4. pc' \in [Instances -> Labels]
  BY <1>1, <1>3 DEF Labels
<1>5. LineWaits'
  <2>1. \A k \in 1 .. Len(line) : line[k] \in Instances
    BY <1>1, LineOfInstances
  <2>2. \A k \in 1 .. Len(line) : line[k] # i
    BY <1>2 DEF LineWaits
  <2>3. \A k \in 1 .. Len(line) : pc'[line[k]] = "in line"
    BY <1>1, <1>3, <2>1, <2>2 DEF LineWaits
  <2>4. QED
    BY <1>3, <2>3 DEF LineWaits
<1>6. SlotIsHeldInside'
  BY <1>1, <1>2, <1>3, ClientAssumption DEF SlotIsHeldInside, HoldingSlot, ClientAssumption
<1>7. QED
  BY <1>1, <1>2, <1>3, <1>4, <1>5, <1>6 DEF ClientTypes, sections

\* Every other step of a thread.
LEMMA OthersMove ==
    ASSUME ClientTypes, LineWaits, SlotIsHeldInside, NEW i \in Instances,
           \/ UploadInputs(i) \/ PlanAhead(i) \/ ReadKey(i) \/ UploadAhead(i)
           \/ InstallFixed(i) \/ FindResident(i) \/ MirrorInstall(i) \/ FailToPrepare(i)
           \/ StartProve(i) \/ EndProve(i) \/ PanicInProve(i) \/ LeaveClient(i)
    PROVE  ClientTypes' /\ LineWaits' /\ SlotIsHeldInside'
<1> USE DEF sections, admission
<1> DEFINE Moved == pc' \in [Instances -> Labels] /\ LineWaits' /\ SlotIsHeldInside'
<1>1. CASE UploadInputs(i)
  <2>1. Moved
    BY <1>1, ThreadMoves DEF UploadInputs, Labels, HoldingSlot
  <2>2. QED
    BY <1>1, <2>1 DEF UploadInputs, ClientTypes
<1>2. CASE PlanAhead(i)
  <2>1. Moved
    BY <1>2, ThreadMoves DEF PlanAhead, Labels, HoldingSlot
  <2>2. QED
    BY <1>2, <2>1 DEF PlanAhead, ClientTypes
<1>3. CASE ReadKey(i)
  <2>1. Moved
    BY <1>3, ThreadMoves DEF ReadKey, Labels, HoldingSlot
  <2>2. QED
    BY <1>3, <2>1 DEF ReadKey, ClientTypes
<1>4. CASE UploadAhead(i)
  <2>1. Moved
    BY <1>4, ThreadMoves DEF UploadAhead, Labels, HoldingSlot
  <2>2. QED
    BY <1>4, <2>1 DEF UploadAhead, ClientTypes
<1>5. CASE InstallFixed(i)
  <2>1. Moved
    BY <1>5, ThreadMoves DEF InstallFixed, Labels, HoldingSlot
  <2>2. AirOf[i] \in Airs
    BY ClientAssumption DEF ClientAssumption
  <2>3. QED
    BY <1>5, <2>1, <2>2 DEF InstallFixed, DropAhead, ClientTypes
<1>6. CASE FindResident(i)
  <2>1. Moved
    BY <1>6, ThreadMoves DEF FindResident, Labels, HoldingSlot
  <2>2. QED
    BY <1>6, <2>1 DEF FindResident, DropAhead, ClientTypes
<1>7. CASE MirrorInstall(i)
  <2>1. Moved
    BY <1>7, ThreadMoves DEF MirrorInstall, Labels, HoldingSlot
  <2>2. AirOf[i] \in Airs
    BY ClientAssumption DEF ClientAssumption
  <2>3. QED
    BY <1>7, <2>1, <2>2 DEF MirrorInstall, ClientTypes
<1>8. CASE FailToPrepare(i)
  <2>1. Moved
    BY <1>8, ThreadMoves DEF FailToPrepare, Labels, HoldingSlot
  <2>2. QED
    BY <1>8, <2>1 DEF FailToPrepare, ClientTypes
<1>9. CASE StartProve(i)
  <2>1. Moved
    BY <1>9, ThreadMoves DEF StartProve, Labels, HoldingSlot
  <2>2. QED
    BY <1>9, <2>1 DEF StartProve, ClientTypes
<1>10. CASE EndProve(i)
  <2>1. Moved
    BY <1>10, ThreadMoves DEF EndProve, Labels, HoldingSlot
  <2>2. QED
    BY <1>10, <2>1 DEF EndProve, ClientTypes
<1>11. CASE PanicInProve(i)
  <2>1. Moved
    BY <1>11, ThreadMoves DEF PanicInProve, Labels, HoldingSlot
  <2>2. QED
    BY <1>11, <2>1 DEF PanicInProve, ClientTypes
<1>12. CASE LeaveClient(i)
  <2>1. line' = line
    BY <1>12 DEF LeaveClient, Admission!Leave
  <2>2. Moved
    BY <1>12, <2>1, ThreadMoves DEF LeaveClient, Labels, HoldingSlot
  <2>3. QED
    BY <1>12, <2>1, <2>2 DEF LeaveClient, ClientTypes
<1>13. QED
  BY <1>1, <1>2, <1>3, <1>4, <1>5, <1>6, <1>7, <1>8, <1>9, <1>10, <1>11, <1>12

\* All of the steps together, the stutter with them.
LEMMA StepsMove ==
    ASSUME ClientTypes, LineWaits, SlotIsHeldInside, [Next]_vars
    PROVE  ClientTypes' /\ LineWaits' /\ SlotIsHeldInside'
<1>1. CASE SetPlan
  <2>1. UNCHANGED <<line, slot, fixed, mirror, permits, releases, pc>>
    BY <1>1 DEF SetPlan, sections, admission
  <2>2. QED
    BY <2>1 DEF ClientTypes, LineWaits, SlotIsHeldInside
<1>2. CASE UNCHANGED vars
  <2>1. UNCHANGED <<line, slot, fixed, mirror, permits, releases, pc>>
    BY <1>2 DEF vars, sections, admission
  <2>2. QED
    BY <2>1 DEF ClientTypes, LineWaits, SlotIsHeldInside
<1>3. CASE Admit
  BY <1>3, AdmitMoves
<1>4. ASSUME NEW i \in Instances, BeforeSlot(i) \/ TakeSlot(i) \/ UnderSlot(i) \/ LeaveClient(i)
      PROVE  ClientTypes' /\ LineWaits' /\ SlotIsHeldInside'
  BY <1>4, AskMoves, TakeMoves, FreeMoves, OthersMove DEF BeforeSlot, UnderSlot
<1>5. QED
  BY <1>1, <1>2, <1>3, <1>4 DEF Next, Finished

-----------------------------------------------------------------------------
\* The permit: only PlanAhead takes one, and the ways out of the labels where
\* it may be held give it back.
LEMMA PermitsStayOnTheWay ==
    ASSUME ClientTypes, LineWaits, PermitOnlyOnTheWay, [Next]_vars
    PROVE  PermitOnlyOnTheWay'
<1> DEFINE OnTheWay == {"reading", "uploading", "slot wait", "slot"}
<1>1. /\ pc \in [Instances -> Labels] /\ permits \in SUBSET Instances
      /\ \A j \in permits : pc[j] \in OnTheWay
  BY DEF ClientTypes, PermitOnlyOnTheWay
<1>2. SUFFICES permits' \in SUBSET Instances /\ \A j \in permits' : pc'[j] \in OnTheWay
  BY DEF PermitOnlyOnTheWay
<1>3. ASSUME NEW i \in Instances, NEW to \in Labels, Goto(i, to),
             permits' \subseteq permits, i \in permits' => to \in OnTheWay
      PROVE  permits' \in SUBSET Instances /\ \A j \in permits' : pc'[j] \in OnTheWay
  BY <1>1, <1>3 DEF Goto
<1> USE DEF sections
<1>4. CASE SetPlan \/ UNCHANGED vars
  <2>1. UNCHANGED <<permits, pc>>
    BY <1>4 DEF SetPlan, vars
  <2>2. QED
    BY <1>1, <2>1
<1>5. CASE Admit
  <2>1. Head(line) \in Instances /\ pc[Head(line)] = "in line"
    <3>1. line \in Seq(Instances) /\ line # <<>>
      BY <1>5 DEF Admit, Admission!LetIn, ClientTypes
    <3>2. Head(line) = line[1] /\ 1 \in 1 .. Len(line) /\ Head(line) \in Instances
      BY <3>1
    <3>3. QED
      BY <3>2 DEF LineWaits
  <2>2. permits' = permits /\ Goto(Head(line), "admitted")
    BY <1>5 DEF Admit
  <2>3. Head(line) \notin permits
    BY <1>1, <2>1
  <2>4. QED
    BY <1>3, <2>1, <2>2, <2>3 DEF Labels
<1>6. ASSUME NEW i \in Instances, BeforeSlot(i) \/ TakeSlot(i) \/ UnderSlot(i) \/ LeaveClient(i)
      PROVE  permits' \in SUBSET Instances /\ \A j \in permits' : pc'[j] \in OnTheWay
  <2>1. CASE AskAdmission(i)
    BY <1>1, <1>3, <2>1 DEF AskAdmission, Labels
  <2>2. CASE UploadInputs(i)
    BY <1>1, <1>3, <2>2 DEF UploadInputs, Labels
  <2>3. CASE PlanAhead(i)
    <3>1. permits' \subseteq permits \cup {i}
      BY <2>3 DEF PlanAhead
    <3>2. Goto(i, "slot wait") \/ Goto(i, "reading")
      BY <2>3 DEF PlanAhead
    <3>3. QED
      BY <1>1, <3>1, <3>2 DEF Goto
  <2>4. CASE ReadKey(i)
    BY <1>1, <1>3, <2>4 DEF ReadKey, Labels
  <2>5. CASE UploadAhead(i)
    BY <1>1, <1>3, <2>5 DEF UploadAhead, Labels
  <2>6. CASE TakeSlot(i)
    BY <1>1, <1>3, <2>6 DEF TakeSlot, Labels
  <2>7. CASE InstallFixed(i) \/ FindResident(i)
    BY <1>1, <1>3, <2>7 DEF InstallFixed, FindResident, DropAhead, Labels
  <2>8. CASE MirrorInstall(i) \/ FailToPrepare(i) \/ StartProve(i)
    BY <1>1, <1>3, <2>8 DEF MirrorInstall, FailToPrepare, StartProve, Labels
  <2>9. CASE EndProve(i) \/ PanicInProve(i) \/ FreeSlot(i) \/ LeaveClient(i)
    BY <1>1, <1>3, <2>9 DEF EndProve, PanicInProve, FreeSlot, LeaveClient, Labels
  <2>10. QED
    BY <1>6, <2>1, <2>2, <2>3, <2>4, <2>5, <2>6, <2>7, <2>8, <2>9 DEF BeforeSlot, UnderSlot
<1>7. QED
  BY <1>4, <1>5, <1>6 DEF Next, Finished

-----------------------------------------------------------------------------
\* The sections on the driver and their mirror.  Nobody but the holder of the
\* slot touches a driver, and nobody but a taker of the free slot evicts.
Sections == ProveFindsItsSections /\ ReleasedSectionsAreOff

\* A thread outside the slot, or nobody, moves.
LEMMA OutsideStep ==
    ASSUME ClientTypes, SlotIsHeldInside, Sections,
           UNCHANGED <<slot, fixed, mirror, releases>>,
           \A j \in Instances :
               pc'[j] = pc[j] \/ (pc[j] \notin HoldingSlot /\ pc'[j] \notin HoldingSlot)
    PROVE  /\ Sections'
           /\ MirrorTrailsTheHolder => MirrorTrailsTheHolder'
<1>1. \A j \in Instances : pc[j] \in HoldingSlot <=> slot = j
  BY DEF SlotIsHeldInside
<1>2. ProveFindsItsSections' /\ ReleasedSectionsAreOff'
  BY DEF Sections, ProveFindsItsSections, ReleasedSectionsAreOff, HoldingSlot
<1>3. ASSUME MirrorTrailsTheHolder
      PROVE  MirrorTrailsTheHolder'
  <2>1. slot \in Instances => pc'[slot] = pc[slot]
    BY <1>1
  <2>2. slot \in Instances \cup {Nobody}
    BY DEF ClientTypes
  <2>3. QED
    BY <1>3, <2>1, <2>2 DEF MirrorTrailsTheHolder
<1>4. QED
  BY <1>2, <1>3 DEF Sections

\* The slot is taken: no thread holds it, so none has sections to lose, and
\* mirror and drivers agree before and, losing the same AIRs, after.
LEMMA TakeSlotSections ==
    ASSUME ClientTypes, SlotIsHeldInside, Sections, NEW i \in Instances, TakeSlot(i)
    PROVE  /\ Sections'
           /\ MirrorTrailsTheHolder => MirrorTrailsTheHolder'
<1>1. pc \in [Instances -> Labels] /\ slot = Nobody /\ slot' = i
  BY DEF ClientTypes, TakeSlot
<1>2. pc' = [pc EXCEPT ![i] = "slot"]
  BY DEF TakeSlot, Goto
<1>3. \A j \in Instances : pc[j] \notin HoldingSlot
  BY <1>1, ClientAssumption DEF SlotIsHeldInside, ClientAssumption
<1>4. Sections'
  <2>1. \A j \in Instances : pc'[j] \notin {"installed", "ready", "proving"}
    BY <1>1, <1>2, <1>3 DEF HoldingSlot
  <2>2. QED
    BY <2>1 DEF Sections, ProveFindsItsSections, ReleasedSectionsAreOff
<1>5. ASSUME MirrorTrailsTheHolder
      PROVE  MirrorTrailsTheHolder'
  <2>1. \A a \in Airs : a \in mirror <=> a \in fixed
    BY <1>1, <1>5 DEF MirrorTrailsTheHolder
  <2>2. \A a \in Airs : a \in mirror' <=> a \in fixed'
    BY <2>1 DEF TakeSlot
  <2>3. QED
    BY <2>2 DEF MirrorTrailsTheHolder
<1>6. QED
  BY <1>4, <1>5

\* The holder's own steps: no other thread is under the slot.
LEMMA UnderSlotSections ==
    ASSUME ClientTypes, SlotIsHeldInside, Sections, NEW i \in Instances, UnderSlot(i)
    PROVE  Sections'
<1> DEFINE Quiet(j) == pc'[j] = pc[j] /\ pc[j] \notin HoldingSlot
<1> DEFINE Fine(j) ==
      /\ pc'[j] \in {"installed", "ready"} => AirOf[j] \in fixed'
      /\ pc'[j] = "proving" /\ j \in releases' => AirOf[j] \notin fixed'
<1> USE DEF sections
<1>1. SUFFICES ASSUME NEW j \in Instances PROVE Fine(j)
  BY DEF Sections, ProveFindsItsSections, ReleasedSectionsAreOff
<1>2. /\ pc[j] \in {"installed", "ready"} => AirOf[j] \in fixed
      /\ pc[j] = "proving" /\ j \in releases => AirOf[j] \notin fixed
  BY DEF Sections, ProveFindsItsSections, ReleasedSectionsAreOff
<1>3. j # i => pc[j] \notin HoldingSlot
  BY DEF UnderSlot, InstallFixed, FindResident, MirrorInstall, FailToPrepare, StartProve,
         EndProve, PanicInProve, FreeSlot, SlotIsHeldInside, HoldingSlot
<1>4. pc \in [Instances -> Labels]
  BY DEF ClientTypes
<1>5. CASE j # i
  <2>1. pc'[j] = pc[j]
    BY <1>4, <1>5 DEF UnderSlot, InstallFixed, FindResident, MirrorInstall, FailToPrepare,
                      StartProve, EndProve, PanicInProve, FreeSlot, Goto
  <2>2. QED
    BY <1>3, <1>5, <2>1 DEF HoldingSlot
<1>6. CASE j = i
  <2>1. CASE InstallFixed(i)
    BY <1>4, <1>6, <2>1 DEF InstallFixed, Goto
  <2>2. CASE FindResident(i)
    BY <1>4, <1>6, <2>2 DEF FindResident, Goto
  <2>3. CASE MirrorInstall(i)
    BY <1>2, <1>4, <1>6, <2>3 DEF MirrorInstall, Goto
  <2>4. CASE FailToPrepare(i)
    BY <1>4, <1>6, <2>4 DEF FailToPrepare, Goto
  <2>5. CASE StartProve(i)
    BY <1>4, <1>6, <2>5 DEF StartProve, Goto
  <2>6. CASE EndProve(i) \/ PanicInProve(i)
    BY <1>4, <1>6, <2>6 DEF EndProve, PanicInProve, Goto
  <2>7. CASE FreeSlot(i)
    BY <1>4, <1>6, <2>7 DEF FreeSlot, Goto
  <2>8. QED
    BY <2>1, <2>2, <2>3, <2>4, <2>5, <2>6, <2>7 DEF UnderSlot
<1>7. QED
  BY <1>5, <1>6

\* The mirror follows the drivers, if no prove unwinds past its update: an
\* install parts the two until MirrorInstall, a prove that takes its sections
\* with it until EndProve, and every other step finds them in agreement.
LEMMA UnderSlotMirror ==
    ASSUME ClientTypes, SlotIsHeldInside, Sections, MirrorTrailsTheHolder,
           "panic" \notin Faults, NEW i \in Instances, UnderSlot(i)
    PROVE  MirrorTrailsTheHolder'
<1> USE DEF sections
<1>1. /\ pc \in [Instances -> Labels]
      /\ slot = i /\ slot # Nobody
  <2>1. slot = i
    BY DEF UnderSlot, InstallFixed, FindResident, MirrorInstall, FailToPrepare, StartProve,
           EndProve, PanicInProve, FreeSlot, SlotIsHeldInside, HoldingSlot
  <2>2. QED
    BY <2>1, ClientAssumption DEF ClientTypes, ClientAssumption
<1>2. \A a \in Airs : (a \in mirror) # (a \in fixed) =>
          AirOf[i] = a /\ (pc[i] = "installed" \/ (pc[i] = "proving" /\ i \in releases))
  BY <1>1 DEF MirrorTrailsTheHolder
<1>3. /\ pc[i] \in {"installed", "ready"} => AirOf[i] \in fixed
      /\ pc[i] = "proving" /\ i \in releases => AirOf[i] \notin fixed
  BY DEF Sections, ProveFindsItsSections, ReleasedSectionsAreOff
<1>4. ASSUME \A a \in Airs : a \in mirror' <=> a \in fixed'
      PROVE  MirrorTrailsTheHolder'
  BY <1>4 DEF MirrorTrailsTheHolder
<1>5. CASE InstallFixed(i)
  <2>1. slot' = slot /\ mirror' = mirror
    BY <1>5 DEF InstallFixed
  <2>2. CASE fixed' = fixed \cup {AirOf[i]} /\ Goto(i, "installed")
    <3>1. pc'[i] = "installed"
      BY <1>1, <2>2 DEF Goto
    <3>2. \A a \in Airs : (a \in mirror') # (a \in fixed') => AirOf[i] = a
      BY <1>2, <2>1, <2>2
    <3>3. QED
      BY <1>1, <2>1, <3>1, <3>2 DEF MirrorTrailsTheHolder
  <2>3. CASE fixed' = fixed
    BY <1>2, <1>4, <1>5, <2>1, <2>3 DEF InstallFixed
  <2>4. QED
    BY <1>5, <2>2, <2>3 DEF InstallFixed
<1>6. CASE FindResident(i) \/ FailToPrepare(i) \/ FreeSlot(i)
  BY <1>2, <1>4, <1>6 DEF FindResident, FailToPrepare, FreeSlot
<1>7. CASE MirrorInstall(i)
  BY <1>2, <1>3, <1>4, <1>7 DEF MirrorInstall
<1>8. CASE StartProve(i)
  <2>1. pc'[i] = "proving" /\ slot' = slot /\ mirror' = mirror /\ releases' = releases
    BY <1>1, <1>8 DEF StartProve, Goto
  <2>2. \A a \in Airs : (a \in mirror') # (a \in fixed') => AirOf[i] = a /\ i \in releases
    BY <1>2, <1>8, <2>1 DEF StartProve
  <2>3. QED
    BY <1>1, <2>1, <2>2 DEF MirrorTrailsTheHolder
<1>9. CASE EndProve(i)
  BY <1>2, <1>3, <1>4, <1>9 DEF EndProve
<1>10. QED
  BY <1>5, <1>6, <1>7, <1>8, <1>9 DEF UnderSlot, PanicInProve

\* Every step of the client leaves sections and mirror as they should be.
LEMMA SectionsFollow ==
    ASSUME IInv, [Next]_vars
    PROVE  /\ Sections'
           /\ "panic" \notin Faults => MirrorTrailsTheHolder'
<1> USE DEF sections
<1>1. /\ ClientTypes /\ LineWaits /\ SlotIsHeldInside /\ Sections
      /\ "panic" \notin Faults => MirrorTrailsTheHolder
  BY TwoParts DEF IInv, Sections
<1>2. pc \in [Instances -> Labels]
  BY <1>1 DEF ClientTypes
<1>3. CASE SetPlan \/ UNCHANGED vars
  <2>1. UNCHANGED <<slot, fixed, mirror, releases, pc>>
    BY <1>3 DEF SetPlan, vars
  <2>2. QED
    BY <1>1, <2>1, OutsideStep
<1>4. CASE Admit
  <2>1. UNCHANGED <<slot, fixed, mirror, releases>> /\ Goto(Head(line), "admitted")
    BY <1>4 DEF Admit
  <2>2. pc[Head(line)] = "in line"
    <3>1. line \in Seq(Instances) /\ line # <<>>
      BY <1>1, <1>4 DEF Admit, Admission!LetIn, ClientTypes
    <3>2. Head(line) = line[1] /\ 1 \in 1 .. Len(line)
      BY <3>1
    <3>3. QED
      BY <1>1, <3>2 DEF LineWaits
  <2>3. \A j \in Instances :
          pc'[j] = pc[j] \/ (pc[j] \notin HoldingSlot /\ pc'[j] \notin HoldingSlot)
    BY <1>2, <2>1, <2>2 DEF Goto, HoldingSlot
  <2>4. QED
    BY <1>1, <2>1, <2>3, OutsideStep
<1>5. ASSUME NEW i \in Instances, BeforeSlot(i) \/ LeaveClient(i)
      PROVE  Sections' /\ ("panic" \notin Faults => MirrorTrailsTheHolder')
  <2>1. UNCHANGED <<slot, fixed, mirror, releases>>
    BY <1>5 DEF BeforeSlot, AskAdmission, UploadInputs, PlanAhead, ReadKey, UploadAhead,
                LeaveClient
  <2>2. \A j \in Instances :
          pc'[j] = pc[j] \/ (pc[j] \notin HoldingSlot /\ pc'[j] \notin HoldingSlot)
    BY <1>2, <1>5 DEF BeforeSlot, AskAdmission, UploadInputs, PlanAhead, ReadKey,
                      UploadAhead, LeaveClient, Goto, HoldingSlot
  <2>3. QED
    BY <1>1, <2>1, <2>2, OutsideStep
<1>6. ASSUME NEW i \in Instances, TakeSlot(i)
      PROVE  Sections' /\ ("panic" \notin Faults => MirrorTrailsTheHolder')
  BY <1>1, <1>6, TakeSlotSections
<1>7. ASSUME NEW i \in Instances, UnderSlot(i)
      PROVE  Sections' /\ ("panic" \notin Faults => MirrorTrailsTheHolder')
  BY <1>1, <1>7, UnderSlotSections, UnderSlotMirror
<1>8. QED
  BY <1>3, <1>4, <1>5, <1>6, <1>7 DEF Next, Finished

-----------------------------------------------------------------------------
\* The rest of the state keeps its types.
LEMMA RestKept ==
    ASSUME ClientTypes, RestTypes, [Next]_vars
    PROVE  RestTypes'
<1> USE DEF sections, uses, admission
<1>1. /\ inside \in SUBSET Instances
      /\ ahead \in [Instances -> {"nothing", "words", "uploaded"}]
      /\ plan \in [Airs -> Nat] /\ lastUsed \in [Airs -> Nat] /\ tick \in Nat
  BY DEF RestTypes
<1>2. CASE UNCHANGED vars
  BY <1>1, <1>2 DEF RestTypes, vars
<1>3. CASE SetPlan
  BY <1>1, <1>3, ClientAssumption DEF RestTypes, SetPlan, ClientAssumption
<1>4. CASE Admit
  <2>1. Head(line) \in Instances
    BY <1>4 DEF Admit, Admission!LetIn, ClientTypes
  <2>2. inside' = inside \cup {Head(line)} /\ UNCHANGED <<sections, plan>>
    BY <1>4 DEF Admit, Admission!LetIn
  <2>3. QED
    BY <1>1, <2>1, <2>2 DEF RestTypes
<1>5. ASSUME NEW i \in Instances, BeforeSlot(i) \/ TakeSlot(i) \/ UnderSlot(i) \/ LeaveClient(i)
      PROVE  RestTypes'
  <2>1. CASE AskAdmission(i)
    BY <1>1, <2>1 DEF RestTypes, AskAdmission, Admission!PassThrough, Admission!Arrive
  <2>2. CASE UploadInputs(i) \/ PlanAhead(i) \/ MirrorInstall(i) \/ FailToPrepare(i)
    BY <1>1, <2>2 DEF RestTypes, UploadInputs, PlanAhead, MirrorInstall, FailToPrepare
  <2>3. CASE ReadKey(i) \/ UploadAhead(i)
    BY <1>1, <2>3 DEF RestTypes, ReadKey, UploadAhead
  <2>4. CASE TakeSlot(i)
    <3>1. /\ UNCHANGED <<inside, ahead, plan>> /\ tick' = tick + 1
          /\ lastUsed' = [lastUsed EXCEPT ![AirOf[i]] = tick + 1]
      BY <2>4 DEF TakeSlot
    <3>2. tick' \in Nat
      BY <1>1, <3>1
    <3>3. lastUsed' = [lastUsed EXCEPT ![AirOf[i]] = tick']
      BY <3>1
    <3>4. lastUsed' \in [Airs -> Nat]
      BY <1>1, <3>2, <3>3
    <3>5. QED
      BY <1>1, <3>1, <3>2, <3>4 DEF RestTypes
  <2>5. CASE InstallFixed(i) \/ FindResident(i)
    BY <1>1, <2>5 DEF RestTypes, InstallFixed, FindResident, DropAhead
  <2>6. CASE StartProve(i) \/ EndProve(i) \/ PanicInProve(i) \/ FreeSlot(i)
    BY <1>1, <2>6 DEF RestTypes, StartProve, EndProve, PanicInProve, FreeSlot
  <2>7. CASE LeaveClient(i)
    BY <1>1, <2>7 DEF RestTypes, LeaveClient, Admission!Leave
  <2>8. QED
    BY <1>5, <2>1, <2>2, <2>3, <2>4, <2>5, <2>6, <2>7 DEF BeforeSlot, UnderSlot
<1>6. QED
  BY <1>2, <1>3, <1>4, <1>5 DEF Next, Finished

-----------------------------------------------------------------------------
\* The sections uploaded ahead: a permit is taken only while there is one, and
\* what was uploaded goes with it.
LEMMA PermitsFew ==
    ASSUME ClientTypes, Cardinality(permits) <= Depth, [Next]_vars
    PROVE  Cardinality(permits') <= Depth
<1> USE DEF sections, uses, admission
<1>1. IsFiniteSet(permits) /\ Cardinality(permits) \in Nat /\ Depth \in Nat
  BY ClientAssumption, FS_Subset, FS_CardinalityType DEF ClientTypes, ClientAssumption
<1>2. ASSUME permits' \subseteq permits
      PROVE  Cardinality(permits') <= Depth
  <2>1. Cardinality(permits') <= Cardinality(permits) /\ Cardinality(permits') \in Nat
    BY <1>1, <1>2, FS_Subset, FS_CardinalityType
  <2>2. QED
    BY <1>1, <2>1
<1>3. CASE \E i \in Instances : PlanAhead(i)
  <2>1. PICK i \in Instances : PlanAhead(i)
    BY <1>3
  <2>2. CASE permits' = permits
    BY <1>2, <2>2
  <2>3. CASE Cardinality(permits) < Depth /\ permits' = permits \cup {i}
    <3> DEFINE more == permits \cup {i}
    <3>1. Cardinality(more) = IF i \in permits THEN Cardinality(permits) ELSE Cardinality(permits) + 1
      BY <1>1, FS_AddElement
    <3> HIDE DEF more
    <3>2. Cardinality(more) <= Depth
      BY <1>1, <2>3, <3>1
    <3>3. permits' = more
      BY <2>3 DEF more
    <3>4. QED
      BY <3>2, <3>3
  <2>4. QED
    BY <2>1, <2>2, <2>3 DEF PlanAhead
<1>4. CASE ~ \E i \in Instances : PlanAhead(i)
  <2>1. CASE UNCHANGED vars \/ SetPlan \/ Admit
    BY <1>2, <2>1 DEF vars, SetPlan, Admit
  <2>2. ASSUME NEW i \in Instances, AskAdmission(i) \/ UploadInputs(i) \/ ReadKey(i) \/ UploadAhead(i)
        PROVE  permits' \subseteq permits
    BY <2>2 DEF AskAdmission, UploadInputs, ReadKey, UploadAhead
  <2>3. ASSUME NEW i \in Instances, TakeSlot(i) \/ UnderSlot(i) \/ LeaveClient(i)
        PROVE  permits' \subseteq permits
    BY <2>3 DEF TakeSlot, UnderSlot, InstallFixed, FindResident, DropAhead, MirrorInstall,
                FailToPrepare, StartProve, EndProve, PanicInProve, FreeSlot, LeaveClient
  <2>4. QED
    BY <1>2, <1>4, <2>1, <2>2, <2>3 DEF Next, Finished, BeforeSlot
<1>5. QED
  BY <1>3, <1>4

LEMMA UploadsKeepPermits ==
    ASSUME ClientTypes, RestTypes, LineWaits, UploadedUnderPermit, [Next]_vars
    PROVE  UploadedUnderPermit'
<1> USE DEF sections, uses, admission
<1> DEFINE Fine(j) ==
      /\ pc[j] = "uploading" => j \in permits
      /\ ahead[j] = "uploaded" => j \in permits /\ pc[j] \in {"slot wait", "slot"}
<1>1. /\ pc \in [Instances -> Labels] /\ permits \in SUBSET Instances
      /\ ahead \in [Instances -> {"nothing", "words", "uploaded"}]
      /\ \A j \in Instances : Fine(j)
  BY DEF ClientTypes, RestTypes, UploadedUnderPermit
<1>2. SUFFICES \A j \in Instances : Fine(j)'
  BY PermitsFew DEF UploadedUnderPermit
<1>3. ASSUME NEW i \in Instances, NEW to \in Labels, Goto(i, to), UNCHANGED ahead,
             permits' = permits \/ permits' = permits \cup {i} \/ permits' = permits \ {i},
             i \notin permits' \/ to # "slot wait" => ahead[i] # "uploaded",
             to = "uploading" => i \in permits'
      PROVE  \A j \in Instances : Fine(j)'
  BY <1>1, <1>3 DEF Goto
<1>4. CASE SetPlan \/ UNCHANGED vars
  <2>1. UNCHANGED <<permits, pc, ahead>>
    BY <1>4 DEF SetPlan, vars
  <2>2. QED
    BY <1>1, <2>1
<1>5. CASE Admit
  <2>1. Head(line) \in Instances /\ pc[Head(line)] = "in line"
    <3>1. line \in Seq(Instances) /\ line # <<>>
      BY <1>5 DEF Admit, Admission!LetIn, ClientTypes
    <3>2. Head(line) = line[1] /\ 1 \in 1 .. Len(line) /\ Head(line) \in Instances
      BY <3>1
    <3>3. QED
      BY <3>2 DEF LineWaits
  <2>2. permits' = permits /\ ahead' = ahead /\ Goto(Head(line), "admitted")
    BY <1>5 DEF Admit
  <2>3. ahead[Head(line)] # "uploaded"
    BY <1>1, <2>1
  <2>4. QED
    BY <1>3, <2>1, <2>2, <2>3 DEF Labels
<1>6. ASSUME NEW i \in Instances, BeforeSlot(i) \/ TakeSlot(i) \/ UnderSlot(i) \/ LeaveClient(i)
      PROVE  \A j \in Instances : Fine(j)'
  <2>1. Fine(i)
    BY <1>1
  <2>2. CASE AskAdmission(i)
    BY <1>3, <2>1, <2>2 DEF AskAdmission, Labels
  <2>3. CASE UploadInputs(i)
    BY <1>3, <2>1, <2>3 DEF UploadInputs, Labels
  <2>4. CASE PlanAhead(i)
    <3>1. permits' = permits \/ permits' = permits \cup {i}
      BY <2>4 DEF PlanAhead
    <3>2. ahead[i] # "uploaded" /\ ahead' = ahead
      BY <2>1, <2>4 DEF PlanAhead
    <3>3. Goto(i, "slot wait") \/ Goto(i, "reading")
      BY <2>4 DEF PlanAhead
    <3>4. QED
      BY <1>3, <3>1, <3>2, <3>3 DEF Labels
  <2>5. CASE ReadKey(i)
    <3>1. pc[i] = "reading" /\ ahead[i] # "uploaded"
      BY <2>1, <2>5 DEF ReadKey
    <3>2. CASE UNCHANGED ahead
      BY <1>3, <2>5, <3>1, <3>2 DEF ReadKey, Labels
    <3>3. CASE ahead' = [ahead EXCEPT ![i] = "words"] /\ permits' = permits
      <4>1. pc' = [pc EXCEPT ![i] = IF i \in permits THEN "uploading" ELSE "slot wait"]
            \/ pc' = [pc EXCEPT ![i] = "leaving"]
        BY <2>5 DEF ReadKey, Goto
      <4>2. QED
        BY <1>1, <2>5, <3>1, <3>3, <4>1 DEF ReadKey, Goto
    <3>4. QED
      BY <2>5, <3>2, <3>3 DEF ReadKey
  <2>6. CASE UploadAhead(i)
    <3>1. pc[i] = "uploading" /\ i \in permits /\ ahead[i] # "uploaded"
      BY <2>1, <2>6 DEF UploadAhead
    <3>2. pc' = [pc EXCEPT ![i] = "slot wait"]
      BY <2>6 DEF UploadAhead, Goto
    <3>3. CASE ahead' = [ahead EXCEPT ![i] = "uploaded"] /\ permits' = permits
      BY <1>1, <3>1, <3>2, <3>3
    <3>4. CASE ahead' = ahead /\ permits' = permits \ {i}
      BY <1>1, <3>1, <3>2, <3>4
    <3>5. QED
      BY <2>6, <3>3, <3>4 DEF UploadAhead
  <2>7. CASE TakeSlot(i)
    <3>1. pc' = [pc EXCEPT ![i] = "slot"] /\ permits' = permits /\ ahead' = ahead
      BY <2>7 DEF TakeSlot, Goto
    <3>2. QED
      BY <1>1, <2>1, <3>1
  <2>8. CASE InstallFixed(i) \/ FindResident(i)
    <3>1. ahead' = [ahead EXCEPT ![i] = "nothing"] /\ permits' = permits \ {i}
      BY <2>8 DEF InstallFixed, FindResident, DropAhead
    <3>2. pc' = [pc EXCEPT ![i] = "installed"] \/ pc' = [pc EXCEPT ![i] = "slot done"]
      BY <2>8 DEF InstallFixed, FindResident, Goto
    <3>3. QED
      BY <1>1, <3>1, <3>2
  <2>9. CASE MirrorInstall(i) \/ FailToPrepare(i) \/ StartProve(i)
    BY <1>3, <2>1, <2>9 DEF MirrorInstall, FailToPrepare, StartProve, Labels
  <2>10. CASE EndProve(i) \/ PanicInProve(i) \/ FreeSlot(i) \/ LeaveClient(i)
    BY <1>3, <2>1, <2>10 DEF EndProve, PanicInProve, FreeSlot, LeaveClient, Labels
  <2>11. QED
    BY <1>6, <2>2, <2>3, <2>4, <2>5, <2>6, <2>7, <2>8, <2>9, <2>10 DEF BeforeSlot, UnderSlot
<1>7. QED
  BY <1>4, <1>5, <1>6 DEF Next, Finished

-----------------------------------------------------------------------------
\* The use stamps.
LEMMA AirsOfInstances ==
    ASSUME NEW i \in Instances
    PROVE  AirOf[i] \in Airs
BY ClientAssumption DEF ClientAssumption

\* While nobody holds the slot no AIR has its place held, and while i does
\* there is one.
LEMMA HolderIs ==
    /\ slot = Nobody => AirOfHolder = {}
    /\ \A i \in Instances : slot = i => AirOfHolder = {AirOf[i]}
BY ClientAssumption DEF AirOfHolder, ClientAssumption

\* Only an instance of the client that is under the slot does a step there.
LEMMA HolderSteps ==
    ASSUME SlotIsHeldInside, NEW i \in Instances, UnderSlot(i)
    PROVE  slot = i /\ slot # Nobody /\ (slot' = slot \/ slot' = Nobody)
<1>1. slot = i
  BY DEF UnderSlot, InstallFixed, FindResident, MirrorInstall, FailToPrepare, StartProve,
         EndProve, PanicInProve, FreeSlot, SlotIsHeldInside, HoldingSlot
<1>2. slot' = slot \/ slot' = Nobody
  BY DEF UnderSlot, InstallFixed, FindResident, MirrorInstall, FailToPrepare, StartProve,
         EndProve, PanicInProve, FreeSlot
<1>3. QED
  BY <1>1, <1>2, ClientAssumption DEF ClientAssumption

\* A step outside the slot leaves it, the sections and the stamps alone; so
\* does one under it leave the stamps.
LEMMA OutsideLeaves ==
    ASSUME \/ SetPlan \/ Admit \/ UNCHANGED vars
           \/ \E i \in Instances : BeforeSlot(i) \/ LeaveClient(i)
    PROVE  UNCHANGED <<slot, fixed, lastUsed, tick, releases>>
BY DEF SetPlan, Admit, vars, BeforeSlot, LeaveClient, AskAdmission, UploadInputs, PlanAhead,
       ReadKey, UploadAhead, sections, uses

\* What a step under the slot does to the AIRs on the driver.
LEMMA UnderSlotLeaves ==
    ASSUME NEW i \in Instances, UnderSlot(i)
    PROVE  /\ UNCHANGED <<lastUsed, tick, releases>>
           /\ \/ fixed' = fixed
              \/ InstallFixed(i) /\ fixed' = fixed \cup {AirOf[i]}
              \/ StartProve(i) /\ i \in releases /\ fixed' = fixed \ {AirOf[i]}
BY DEF UnderSlot, InstallFixed, FindResident, MirrorInstall, FailToPrepare, StartProve,
       EndProve, PanicInProve, FreeSlot, sections, uses

LEMMA StampsStayApart ==
    ASSUME ClientTypes, RestTypes, SlotIsHeldInside, StampsDiffer, [Next]_vars
    PROVE  StampsDiffer'
<1>1. /\ lastUsed \in [Airs -> Nat] /\ tick \in Nat /\ fixed \in SUBSET Airs
      /\ \A a \in Airs : lastUsed[a] <= tick
      /\ \A a \in fixed : lastUsed[a] > 0
      /\ \A a \in AirOfHolder : lastUsed[a] = tick /\ tick > 0
      /\ \A a, b \in Airs : lastUsed[a] = lastUsed[b] /\ lastUsed[a] > 0 => a = b
  BY DEF ClientTypes, RestTypes, StampsDiffer
<1>2. CASE SetPlan \/ Admit \/ UNCHANGED vars \/ \E i \in Instances : BeforeSlot(i) \/ LeaveClient(i)
  <2>1. UNCHANGED <<slot, fixed, lastUsed, tick>>
    BY <1>2, OutsideLeaves
  <2>2. QED
    BY <1>1, <2>1 DEF StampsDiffer, AirOfHolder
<1>3. ASSUME NEW i \in Instances, TakeSlot(i)
      PROVE  StampsDiffer'
  <2>1. /\ tick' = tick + 1 /\ lastUsed' = [lastUsed EXCEPT ![AirOf[i]] = tick + 1]
        /\ fixed' \subseteq fixed /\ slot' = i
    BY <1>3 DEF TakeSlot
  <2>2. AirOf[i] \in Airs
    BY AirsOfInstances
  <2>3. AirOfHolder' = {AirOf[i]}
    BY <2>1, ClientAssumption DEF AirOfHolder, ClientAssumption
  <2>4. tick' \in Nat /\ tick' > tick /\ tick' > 0
    BY <1>1, <2>1
  <2>5. \A a \in Airs : lastUsed'[a] = IF a = AirOf[i] THEN tick' ELSE lastUsed[a]
    BY <1>1, <2>1, <2>2
  <2>6. \A a \in Airs : lastUsed[a] \in Nat
    BY <1>1
  <2>7. \A a \in Airs : lastUsed'[a] <= tick'
    BY <1>1, <2>4, <2>5, <2>6
  <2>8. \A a \in fixed' : lastUsed'[a] > 0
    BY <1>1, <2>1, <2>4, <2>5
  <2>9. \A a, b \in Airs : lastUsed'[a] = lastUsed'[b] /\ lastUsed'[a] > 0 => a = b
    BY <1>1, <2>4, <2>5, <2>6
  <2>10. QED
    BY <2>2, <2>3, <2>4, <2>5, <2>7, <2>8, <2>9 DEF StampsDiffer
<1>4. ASSUME NEW i \in Instances, UnderSlot(i)
      PROVE  StampsDiffer'
  <2>1. UNCHANGED <<lastUsed, tick>> /\ slot = i /\ (slot' = slot \/ slot' = Nobody)
    BY <1>4, UnderSlotLeaves, HolderSteps
  <2>2. AirOfHolder = {AirOf[i]} /\ fixed' \subseteq fixed \cup {AirOf[i]}
    BY <1>4, <2>1, HolderIs, UnderSlotLeaves
  <2>3. AirOfHolder' \subseteq AirOfHolder
    BY <2>1, ClientAssumption DEF AirOfHolder, ClientAssumption
  <2>4. QED
    BY <1>1, <2>1, <2>2, <2>3 DEF StampsDiffer
<1>5. QED
  BY <1>2, <1>3, <1>4 DEF Next, Finished

-----------------------------------------------------------------------------
\* How many AIRs are resident.

LEMMA ExcessIs ==
    ASSUME NEW air, NEW n \in Nat, n = Cardinality(Others(air)) + 1
    PROVE  /\ n > ResidentAirs => Excess(air) = n - ResidentAirs
           /\ ~(n > ResidentAirs) => Excess(air) = 0
BY DEF Excess

\* As many are evicted as are too many, so with the one to come the rest fit
\* the resident places.
LEMMA EvictionMakesRoom ==
    ASSUME ClientTypes, RestTypes, StampsDiffer, NEW air \in Airs
    PROVE  /\ IsFiniteSet(Others(air)) /\ EvictedFor(air) \subseteq Others(air)
           /\ Excess(air) \in 0 .. Cardinality(Others(air))
           /\ Cardinality(EvictedFor(air)) = Excess(air)
           /\ IsFiniteSet(Others(air) \ EvictedFor(air))
           /\ Cardinality(Others(air) \ EvictedFor(air)) < ResidentAirs
<1> DEFINE O == Others(air)
           n == Cardinality(O)
           k == Excess(air)
<1>1. IsFiniteSet(O) /\ O \subseteq fixed /\ fixed \subseteq Airs
  BY ClientAssumption, FS_Subset DEF Others, ClientTypes, ClientAssumption
<1>2. /\ \A a \in O : lastUsed[a] \in Nat
      /\ \A a, b \in O : lastUsed[a] = lastUsed[b] => a = b
  <2>1. \A a \in O : lastUsed[a] > 0
    BY <1>1 DEF StampsDiffer
  <2>2. QED
    BY <1>1, <2>1 DEF StampsDiffer, RestTypes
<1>3. n \in Nat /\ ResidentAirs \in Nat \ {0}
  BY <1>1, FS_CardinalityType, ClientAssumption DEF ClientAssumption
<1> HIDE DEF O
<1>4. EvictedFor(air) = FirstOf(lastUsed, O, k)
  BY DEF EvictedFor, FirstOf, Below, O
<1>5. k = (IF n + 1 > ResidentAirs THEN n + 1 - ResidentAirs ELSE 0) /\ k \in 0 .. n
  <2> DEFINE m == n + 1
  <2>1. m = Cardinality(Others(air)) + 1 /\ m \in Nat
    BY <1>3 DEF O
  <2> HIDE DEF m
  <2>2. /\ m > ResidentAirs => k = m - ResidentAirs
        /\ ~(m > ResidentAirs) => k = 0
    BY <2>1, ExcessIs
  <2> HIDE DEF n, k
  <2>3. QED
    BY <1>3, <2>2 DEF m
<1> HIDE DEF n, k
<1>6. Cardinality(FirstOf(lastUsed, O, k)) = k
  <2>1. k \in 0 .. Cardinality(O)
    BY <1>5 DEF n
  <2>2. QED
    BY <1>1, <1>2, <2>1, FirstAreThatMany
<1> DEFINE E == FirstOf(lastUsed, O, k)
<1>7. E \in SUBSET O
  BY DEF FirstOf
<1>8. Cardinality(E) = k
  BY <1>6
<1> HIDE DEF E
<1>9. IsFiniteSet(O \ E) /\ n = k + Cardinality(O \ E) /\ Cardinality(O \ E) \in Nat
  BY <1>1, <1>7, <1>8, PartAndRest DEF n
<1>10. Cardinality(O \ E) < ResidentAirs
  BY <1>3, <1>5, <1>9
<1>11. EvictedFor(air) = E
  BY <1>4 DEF E
<1>12. QED
  BY <1>1, <1>5, <1>7, <1>8, <1>9, <1>10, <1>11 DEF O, n, k

LEMMA ResidentsStayFew ==
    ASSUME ClientTypes, RestTypes, SlotIsHeldInside, StampsDiffer, ResidentsBounded, [Next]_vars
    PROVE  ResidentsBounded'
<1> DEFINE placed == fixed \cup AirOfHolder
<1>1. placed \in SUBSET Airs /\ IsFiniteSet(placed) /\ Cardinality(placed) \in Nat
      /\ ResidentAirs \in Nat /\ Cardinality(placed) <= ResidentAirs
  <2>1. fixed \subseteq Airs /\ AirOfHolder \subseteq Airs
    BY AirsOfInstances DEF ClientTypes, AirOfHolder
  <2>2. IsFiniteSet(placed)
    BY <2>1, FS_Subset, ClientAssumption DEF ClientAssumption
  <2>3. Cardinality(placed) \in Nat
    BY <2>2, FS_CardinalityType
  <2>4. QED
    BY <2>1, <2>2, <2>3, ClientAssumption DEF ResidentsBounded, ClientAssumption
<1> HIDE DEF placed
<1>2. ASSUME placed' \subseteq placed
      PROVE  ResidentsBounded'
  <2>1. Cardinality(placed') \in Nat /\ Cardinality(placed') <= Cardinality(placed)
    BY <1>1, <1>2, FS_Subset, FS_CardinalityType
  <2>2. Cardinality(placed') <= ResidentAirs
    BY <1>1, <2>1
  <2>3. QED
    BY <2>2 DEF placed, ResidentsBounded
<1>3. CASE SetPlan \/ Admit \/ UNCHANGED vars \/ \E i \in Instances : BeforeSlot(i) \/ LeaveClient(i)
  <2>1. UNCHANGED <<slot, fixed>>
    BY <1>3, OutsideLeaves
  <2>2. placed' \subseteq placed
    BY <2>1 DEF placed, AirOfHolder
  <2>3. QED
    BY <1>2, <2>2
<1>4. ASSUME NEW i \in Instances, TakeSlot(i)
      PROVE  ResidentsBounded'
  <2> DEFINE air == AirOf[i]
             rest == Others(air) \ EvictedFor(air)
  <2>1. fixed' = fixed \ EvictedFor(air) /\ slot' = i
    BY <1>4 DEF TakeSlot
  <2>2. AirOfHolder' = {air}
    BY <2>1, ClientAssumption DEF AirOfHolder, ClientAssumption
  <2>3. fixed' \cup AirOfHolder' = rest \cup {air} /\ air \notin rest
    BY <2>1, <2>2 DEF Others
  <2>4. IsFiniteSet(rest) /\ Cardinality(rest) < ResidentAirs
    BY AirsOfInstances, EvictionMakesRoom
  <2> HIDE DEF air, rest
  <2>5. Cardinality(rest \cup {air}) = Cardinality(rest) + 1 /\ Cardinality(rest) \in Nat
    BY <2>3, <2>4, FS_AddElement, FS_CardinalityType
  <2>6. Cardinality(rest \cup {air}) <= ResidentAirs
    BY <1>1, <2>4, <2>5
  <2>7. QED
    BY <2>3, <2>6 DEF ResidentsBounded
<1>5. ASSUME NEW i \in Instances, UnderSlot(i)
      PROVE  ResidentsBounded'
  <2>1. slot = i /\ (slot' = slot \/ slot' = Nobody) /\ fixed' \subseteq fixed \cup {AirOf[i]}
    BY <1>5, UnderSlotLeaves, HolderSteps
  <2>2. AirOfHolder = {AirOf[i]}
    BY <2>1, HolderIs
  <2>3. AirOfHolder' \subseteq AirOfHolder
    BY <2>1, ClientAssumption DEF AirOfHolder, ClientAssumption
  <2>4. placed' \subseteq placed
    BY <2>1, <2>2, <2>3 DEF placed
  <2>5. QED
    BY <1>2, <2>4
<1>6. QED
  BY <1>3, <1>4, <1>5 DEF Next, Finished

-----------------------------------------------------------------------------
\* Everything the facts above rest on holds in every state the client
\* reaches, whatever the other failures of `Faults`.
THEOREM ClientInvariant == Spec => []IInv
<1>1. Init => IInv
  <2> SUFFICES ASSUME Init PROVE IInv
    OBVIOUS
  <2>1. /\ line = <<>> /\ inside = {} /\ slot = Nobody
        /\ fixed = {} /\ mirror = {} /\ permits = {} /\ releases = {}
    BY DEF Init, Admission!Init
  <2>2. /\ pc = [j \in Instances |-> "new"] /\ ahead = [j \in Instances |-> "nothing"]
        /\ lastUsed = [a \in Airs |-> 0] /\ tick = 0 /\ plan = FirstPlan
    BY DEF Init
  <2>3. TypeOK
    BY <2>1, <2>2, ClientAssumption DEF TypeOK, Labels, ClientAssumption
  <2>4. LineWaits
    BY <2>1 DEF LineWaits
  <2>5. SlotIsHeldInside
    BY <2>1, <2>2, ClientAssumption DEF SlotIsHeldInside, HoldingSlot, ClientAssumption
  <2>6. PermitOnlyOnTheWay /\ ProveFindsItsSections /\ ReleasedSectionsAreOff
    BY <2>1, <2>2 DEF PermitOnlyOnTheWay, ProveFindsItsSections, ReleasedSectionsAreOff
  <2>7. UploadedUnderPermit
    <3>1. Cardinality(permits) = 0 /\ Depth >= 0
      BY <2>1, FS_EmptySet, ClientAssumption DEF ClientAssumption
    <3>2. QED
      BY <2>2, <3>1, ClientAssumption DEF UploadedUnderPermit, ClientAssumption
  <2>8. AirOfHolder = {}
    BY <2>1, HolderIs
  <2>9. ResidentsBounded
    <3>1. fixed \cup AirOfHolder = {}
      BY <2>1, <2>8
    <3>2. Cardinality(fixed \cup AirOfHolder) = 0
      BY <3>1, FS_EmptySet
    <3>3. QED
      BY <3>2, ClientAssumption DEF ResidentsBounded, ClientAssumption
  <2>10. StampsDiffer
    BY <2>1, <2>2, <2>8 DEF StampsDiffer
  <2>11. MirrorTrailsTheHolder
    BY <2>1 DEF MirrorTrailsTheHolder
  <2>12. QED
    BY <2>3, <2>4, <2>5, <2>6, <2>7, <2>9, <2>10, <2>11 DEF IInv
<1>2. IInv /\ [Next]_vars => IInv'
  <2> SUFFICES ASSUME IInv, [Next]_vars PROVE IInv'
    OBVIOUS
  <2>1. ClientTypes /\ RestTypes /\ LineWaits /\ SlotIsHeldInside
    BY TwoParts DEF IInv
  <2>2. ClientTypes' /\ RestTypes' /\ LineWaits' /\ SlotIsHeldInside'
    BY <2>1, StepsMove, RestKept
  <2>3. TypeOK'
    BY <2>2 DEF TypeOK, ClientTypes, RestTypes
  <2>4. PermitOnlyOnTheWay' /\ UploadedUnderPermit'
    BY <2>1, PermitsStayOnTheWay, UploadsKeepPermits DEF IInv
  <2>5. ResidentsBounded' /\ StampsDiffer'
    BY <2>1, ResidentsStayFew, StampsStayApart DEF IInv
  <2>6. /\ ProveFindsItsSections' /\ ReleasedSectionsAreOff'
        /\ "panic" \notin Faults => MirrorTrailsTheHolder'
    BY SectionsFollow DEF Sections
  <2>7. QED
    BY <2>2, <2>3, <2>4, <2>5, <2>6 DEF IInv
<1>3. QED
  BY <1>1, <1>2, PTL DEF Spec

\* A prove that starts finds its sections on the driver: the glance at the
\* mirror may be stale, another instance may have evicted the AIR or taken the
\* sections with it since, and "prove: set_fixed first" is still never said.
THEOREM ClientFindsItsSections == Spec => []ProveFindsItsSections
<1>1. IInv => ProveFindsItsSections
  BY DEF IInv
<1>2. QED
  BY <1>1, ClientInvariant, PTL

\* No way out of prove_owned, by proof, error or panic, keeps a permit of the
\* read-ahead: who holds one is between its glance and its install.
THEOREM ClientPermitOnlyOnTheWay == Spec => []PermitOnlyOnTheWay
<1>1. IInv => PermitOnlyOnTheWay
  BY DEF IInv
<1>2. QED
  BY <1>1, ClientInvariant, PTL

\* Short of a panic in a prove, FixedAhead's mirror and the drivers disagree
\* only about the AIR whose prove holds the slot.
THEOREM ClientMirrorAgrees ==
    "panic" \notin Faults => (Spec => []MirrorAgreesWithDrivers)
<1>1. ASSUME "panic" \notin Faults
      PROVE  Spec => []MirrorAgreesWithDrivers
  <2>1. IInv => MirrorAgreesWithDrivers
    BY <1>1 DEF IInv, MirrorTrailsTheHolder, MirrorAgreesWithDrivers
  <2>2. QED
    BY <2>1, ClientInvariant, PTL
<1>2. QED
  BY <1>1

\* Fixed sections on the card, counting copies, stay within the resident AIRs
\* and the read-ahead's depth: those that left the driver with a prove are of
\* an AIR whose place among the resident ones is still held, and those that
\* travel ahead each hold one of Depth permits.
THEOREM ClientSectionsBounded == Spec => []SectionsBounded
<1>1. ASSUME IInv PROVE SectionsBounded
  <2> DEFINE gone == {i \in releases : pc[i] = "proving"}
             onTheWay == {i \in Instances : pc[i] = "uploading" \/ ahead[i] = "uploaded"}
             placed == fixed \cup AirOfHolder
  <2>1. ClientTypes /\ RestTypes
    BY <1>1, TwoParts DEF IInv
  <2>2. Cardinality(onTheWay) <= Depth /\ Cardinality(onTheWay) \in Nat /\ Depth \in Nat
    <3>1. onTheWay \in SUBSET permits /\ permits \in SUBSET Instances
      BY <1>1, <2>1 DEF IInv, UploadedUnderPermit, ClientTypes
    <3>2. IsFiniteSet(permits)
      BY <3>1, ClientAssumption, FS_Subset DEF ClientAssumption
    <3> HIDE DEF onTheWay
    <3>3. /\ Cardinality(onTheWay) <= Cardinality(permits)
          /\ Cardinality(onTheWay) \in Nat /\ Cardinality(permits) \in Nat
      BY <3>1, <3>2, FS_Subset, FS_CardinalityType
    <3>4. UploadedUnderPermit
      BY <1>1 DEF IInv
    <3>5. Cardinality(permits) <= Depth
      BY <3>4 DEF UploadedUnderPermit
    <3>6. Depth \in Nat
      BY ClientAssumption DEF ClientAssumption
    <3>7. QED
      BY <3>3, <3>5, <3>6
  <2>3. IsFiniteSet(placed) /\ IsFiniteSet(fixed)
    <3>1. fixed \in SUBSET Airs /\ placed \in SUBSET Airs
      BY <2>1, AirsOfInstances DEF ClientTypes, AirOfHolder
    <3> HIDE DEF placed
    <3>2. QED
      BY <3>1, FS_Subset, ClientAssumption DEF ClientAssumption
  <2>4. /\ Cardinality(fixed) \in Nat /\ Cardinality(gone) \in Nat
        /\ Cardinality(fixed) + Cardinality(gone) <= Cardinality(placed)
    <3>1. Cardinality(fixed) \in Nat /\ Cardinality(placed) \in Nat
      BY <2>3, FS_CardinalityType
    <3>2. CASE gone = {}
      <4>1. Cardinality(gone) = 0
        BY <3>2, FS_EmptySet
      <4>2. fixed \in SUBSET placed
        OBVIOUS
      <4> HIDE DEF gone, placed
      <4>3. Cardinality(fixed) <= Cardinality(placed)
        BY <2>3, <4>2, FS_Subset
      <4>4. QED
        BY <3>1, <4>1, <4>3
    <3>3. CASE gone # {}
      <4>1. PICK i \in releases : pc[i] = "proving"
        BY <3>3
      <4>2. releases \in SUBSET Instances
        BY <2>1 DEF ClientTypes
      <4>3. slot = i /\ AirOf[i] \notin fixed
        BY <1>1, <4>1, <4>2 DEF IInv, SlotIsHeldInside, HoldingSlot, ReleasedSectionsAreOff
      <4>4. gone = {i}
        <5>1. \A j \in Instances : pc[j] = "proving" => slot = j
          BY <1>1 DEF IInv, SlotIsHeldInside, HoldingSlot
        <5>2. QED
          BY <4>1, <4>2, <4>3, <5>1
      <4>5. AirOfHolder = {AirOf[i]}
        BY <4>2, <4>3, HolderIs
      <4>6. Cardinality(gone) = 1
        BY <4>4, FS_Singleton
      <4>7. placed = fixed \cup {AirOf[i]}
        BY <4>5
      <4> HIDE DEF gone, placed
      <4>8. Cardinality(placed) = Cardinality(fixed) + 1
        BY <2>3, <4>3, <4>7, FS_AddElement
      <4>9. QED
        BY <3>1, <4>6, <4>8
    <3>4. QED
      BY <3>2, <3>3
  <2>5. Cardinality(placed) <= ResidentAirs /\ Cardinality(placed) \in Nat /\ ResidentAirs \in Nat
    BY <1>1, <2>3, FS_CardinalityType, ClientAssumption DEF IInv, ResidentsBounded, ClientAssumption
  <2>6. SectionsOnDevice = Cardinality(fixed) + Cardinality(gone) + Cardinality(onTheWay)
    BY DEF SectionsOnDevice
  <2> HIDE DEF gone, onTheWay, placed
  <2>7. SectionsOnDevice <= ResidentAirs + Depth
    BY <2>2, <2>4, <2>5, <2>6
  <2>8. QED
    BY <2>7 DEF SectionsBounded
<1>2. QED
  BY <1>1, ClientInvariant, PTL

-----------------------------------------------------------------------------
\* Which AIRs stay.

\* With a plan that does not change, an AIR that does not stay has a holder
\* that releases it, and is off the driver when the holder is done.
GoneByTheEnd ==
    \A i \in Instances : pc[i] \in HoldingSlot /\ ~KeepsFixed(AirOf[i]) =>
        /\ i \in releases
        /\ pc[i] = "slot done" => AirOf[i] \notin fixed

PlanInv == plan = FirstPlan /\ GoneByTheEnd /\ AirsProvedOnceLeave

\* The same plan keeps the same AIRs.
LEMMA SamePlan ==
    ASSUME plan' = plan
    PROVE  \A a \in Airs : KeepsFixed(a)' <=> KeepsFixed(a)
BY DEF KeepsFixed

LEMMA PlanStep ==
    ASSUME IInv, PlanInv, FirstPlan = SentPlan, "prepare" \notin Faults, [Next]_vars
    PROVE  PlanInv'
<1>1. ClientTypes /\ LineWaits /\ SlotIsHeldInside /\ ReleasedSectionsAreOff
  BY TwoParts DEF IInv
<1>2. pc \in [Instances -> Labels] /\ fixed \in SUBSET Airs
  BY <1>1 DEF ClientTypes
<1>3. plan' = plan
  BY DEF PlanInv, Next, Finished, vars, SetPlan, Admit, BeforeSlot, UnderSlot, AskAdmission,
         UploadInputs, PlanAhead, ReadKey, UploadAhead, TakeSlot, InstallFixed, FindResident,
         MirrorInstall, FailToPrepare, StartProve, EndProve, PanicInProve, FreeSlot, LeaveClient
<1>4. \A a \in Airs : KeepsFixed(a)' <=> KeepsFixed(a)
  BY <1>3, SamePlan
<1>5. SUFFICES GoneByTheEnd' /\ AirsProvedOnceLeave'
  BY <1>3 DEF PlanInv
<1>6. \A i \in Instances : AirOf[i] \in Airs
  BY AirsOfInstances
<1>7. CASE SetPlan \/ Admit \/ UNCHANGED vars \/ \E i \in Instances : BeforeSlot(i) \/ LeaveClient(i)
  <2>1. UNCHANGED <<slot, fixed, releases>>
    BY <1>7, OutsideLeaves
  <2>2. \A j \in Instances : pc'[j] \in HoldingSlot => pc'[j] = pc[j]
    <3>1. CASE SetPlan \/ UNCHANGED vars
      BY <3>1 DEF SetPlan, vars
    <3>2. CASE Admit
      BY <1>2, <3>2 DEF Admit, Goto, HoldingSlot
    <3>3. CASE \E i \in Instances : BeforeSlot(i) \/ LeaveClient(i)
      BY <1>2, <3>3 DEF BeforeSlot, AskAdmission, UploadInputs, PlanAhead, ReadKey, UploadAhead,
                        LeaveClient, Goto, HoldingSlot
    <3>4. QED
      BY <1>7, <3>1, <3>2, <3>3
  <2>3. GoneByTheEnd'
    BY <1>4, <1>6, <2>1, <2>2 DEF PlanInv, GoneByTheEnd
  <2>4. AirOfHolder' = AirOfHolder
    BY <2>1 DEF AirOfHolder
  <2>5. AirsProvedOnceLeave'
    BY <1>2, <1>4, <2>1, <2>4 DEF PlanInv, AirsProvedOnceLeave
  <2>6. QED
    BY <2>3, <2>5
<1>8. ASSUME NEW i \in Instances, TakeSlot(i)
      PROVE  GoneByTheEnd' /\ AirsProvedOnceLeave'
  <2>1. /\ slot = Nobody /\ slot' = i /\ fixed' \subseteq fixed
        /\ releases' = IF KeepsFixed(AirOf[i]) THEN releases ELSE releases \cup {i}
        /\ pc' = [pc EXCEPT ![i] = "slot"]
    BY <1>8 DEF TakeSlot, Goto
  <2>2. \A j \in Instances : pc[j] \notin HoldingSlot
    BY <1>1, <2>1, ClientAssumption DEF SlotIsHeldInside, ClientAssumption
  <2>3. \A j \in Instances : pc'[j] \in HoldingSlot => j = i /\ pc'[j] = "slot"
    BY <1>2, <2>1, <2>2
  <2>4. GoneByTheEnd'
    BY <1>4, <1>6, <2>1, <2>3 DEF GoneByTheEnd
  <2>5. AirOfHolder = {}
    BY <2>1, HolderIs
  <2>6. AirsProvedOnceLeave'
    BY <1>2, <1>4, <2>1, <2>5 DEF PlanInv, AirsProvedOnceLeave
  <2>7. QED
    BY <2>4, <2>6
<1>9. ASSUME NEW i \in Instances, UnderSlot(i)
      PROVE  GoneByTheEnd' /\ AirsProvedOnceLeave'
  <2> DEFINE air == AirOf[i]
  <2>1. /\ slot = i /\ (slot' = slot \/ slot' = Nobody)
        /\ releases' = releases /\ fixed' \subseteq fixed \cup {air}
    BY <1>1, <1>9, UnderSlotLeaves, HolderSteps
  <2>2. AirOfHolder = {air} /\ air \in Airs
    BY <2>1, HolderIs, AirsOfInstances
  <2>3. \A j \in Instances : pc[j] \in HoldingSlot <=> j = i
    BY <1>1, <2>1 DEF SlotIsHeldInside
  <2>4. \A j \in Instances : j # i => pc'[j] = pc[j]
    BY <1>2, <1>9 DEF UnderSlot, InstallFixed, FindResident, MirrorInstall, FailToPrepare,
                      StartProve, EndProve, PanicInProve, FreeSlot, Goto
  <2>5. ASSUME pc'[i] \in HoldingSlot, ~KeepsFixed(air)
        PROVE  i \in releases /\ (pc'[i] = "slot done" => air \notin fixed')
    <3>1. i \in releases
      BY <2>3, <2>5 DEF PlanInv, GoneByTheEnd
    <3>2. ASSUME pc'[i] = "slot done"
          PROVE  air \notin fixed'
      <4>1. CASE InstallFixed(i)
        <5>1. pc' = [pc EXCEPT ![i] = "installed"] \/ fixed' = fixed
          BY <4>1 DEF InstallFixed, Goto
        <5>2. QED
          BY <1>2, <3>2, <4>1, <5>1 DEF InstallFixed
      <4>2. CASE EndProve(i) \/ PanicInProve(i)
        <5>1. fixed' = fixed /\ pc[i] = "proving"
          BY <4>2 DEF EndProve, PanicInProve, sections
        <5>2. QED
          BY <1>1, <3>1, <5>1 DEF ReleasedSectionsAreOff
      <4>3. CASE FindResident(i) \/ MirrorInstall(i) \/ StartProve(i) \/ FreeSlot(i)
        BY <1>2, <3>2, <4>3 DEF FindResident, MirrorInstall, StartProve, FreeSlot, Goto
      <4>4. QED
        BY <1>9, <4>1, <4>2, <4>3 DEF UnderSlot, FailToPrepare
    <3>3. QED
      BY <3>1, <3>2
  <2>6. GoneByTheEnd'
    BY <1>4, <2>1, <2>2, <2>3, <2>4, <2>5 DEF GoneByTheEnd
  <2>7. AirsProvedOnceLeave'
    <3>1. CASE slot' = slot
      <4>1. AirOfHolder' = AirOfHolder
        BY <3>1 DEF AirOfHolder
      <4>2. QED
        BY <1>2, <1>4, <2>1, <2>2, <4>1 DEF PlanInv, AirsProvedOnceLeave
    <3>2. CASE slot' = Nobody
      <4>1. FreeSlot(i)
        BY <1>9, <2>1, <3>2, ClientAssumption
           DEF UnderSlot, InstallFixed, FindResident, MirrorInstall, FailToPrepare, StartProve,
               EndProve, PanicInProve, ClientAssumption
      <4>2. fixed' = fixed /\ pc[i] = "slot done"
        BY <4>1 DEF FreeSlot, sections
      <4>3. ~KeepsFixed(air) => air \notin fixed
        BY <4>2 DEF PlanInv, GoneByTheEnd, HoldingSlot
      <4>4. QED
        BY <1>2, <1>4, <2>2, <4>2, <4>3 DEF PlanInv, AirsProvedOnceLeave
    <3>3. QED
      BY <2>1, <3>1, <3>2
  <2>8. QED
    BY <2>6, <2>7
<1>10. QED
  BY <1>7, <1>8, <1>9 DEF Next, Finished

\* A plan that is there from the start is kept to: between two proves only
\* AIRs it proves again, or does not name, are resident.  A panic in a prove
\* changes nothing of it; an early return after the install (`prepare`) does,
\* for the sections it installed stay.
THEOREM ClientAirsProvedOnceLeave ==
    FirstPlan = SentPlan /\ "prepare" \notin Faults => (Spec => []AirsProvedOnceLeave)
<1> SUFFICES ASSUME FirstPlan = SentPlan, "prepare" \notin Faults
             PROVE  Spec => []AirsProvedOnceLeave
  OBVIOUS
<1>1. Init => PlanInv
  BY DEF Init, PlanInv, GoneByTheEnd, AirsProvedOnceLeave, HoldingSlot
<1>2. IInv /\ PlanInv /\ [Next]_vars => PlanInv'
  BY PlanStep
<1>3. PlanInv => AirsProvedOnceLeave
  BY DEF PlanInv
<1>4. QED
  BY <1>1, <1>2, <1>3, ClientInvariant, PTL DEF Spec

\* The resident AIRs as the most lately used, while none was released and
\* every set_fixed succeeds: the holder's is one of them from its turn on, on
\* the driver once it is installed.
FixedAreLatest ==
    releases = {} =>
        /\ fixed \cup AirOfHolder = Latest
        /\ \A i \in Instances : slot = i /\ pc[i] # "slot" => AirOf[i] \in fixed

\* Evicting the least lately used of the others beyond the resident places
\* leaves, with the AIR just used, the most lately used by the new stamps.
LEMMA EvictionKeepsLatest ==
    ASSUME ClientTypes, RestTypes, StampsDiffer, fixed = Latest, NEW air \in Airs,
           lastUsed' = [lastUsed EXCEPT ![air] = tick + 1]
    PROVE  (fixed \ EvictedFor(air)) \cup {air} = Latest'
<1> DEFINE Above(a) == {b \in Airs : lastUsed[b] > lastUsed[a]}
           After(a) == {b \in Airs : lastUsed'[b] > lastUsed'[a]}
           R == ResidentAirs
<1>1. /\ \A a \in Airs : lastUsed[a] \in Nat /\ lastUsed[a] <= tick
      /\ \A a, b \in Airs : lastUsed[a] = lastUsed[b] /\ lastUsed[a] > 0 => a = b
      /\ \A a \in fixed : a \in Airs /\ lastUsed[a] > 0
      /\ tick \in Nat /\ R \in Nat \ {0} /\ IsFiniteSet(Airs)
  BY ClientAssumption DEF ClientTypes, RestTypes, StampsDiffer, ClientAssumption
<1>2. \A a \in Airs : lastUsed'[a] = IF a = air THEN tick + 1 ELSE lastUsed[a]
  BY DEF RestTypes
<1>3. \A a \in Airs : a \in Latest <=> lastUsed[a] > 0 /\ Cardinality(Above(a)) < R
  BY DEF Latest
<1>4. /\ Latest' \subseteq Airs
      /\ \A a \in Airs : a \in Latest' <=> lastUsed'[a] > 0 /\ Cardinality(After(a)) < R
  BY DEF Latest
<1>5. \A a \in Airs : Above(a) \in SUBSET Airs
  OBVIOUS
<1>6. air \in Latest'
  <2>1. \A b \in Airs : ~(lastUsed'[b] > lastUsed'[air])
    BY <1>1, <1>2
  <2>2. After(air) = {}
    BY <2>1
  <2>3. Cardinality(After(air)) < R /\ lastUsed'[air] > 0
    BY <1>1, <1>2, <2>2, FS_EmptySet
  <2>4. QED
    BY <1>4, <2>3
<1>7. ASSUME NEW a \in Airs, a # air
      PROVE  a \in Latest' <=> a \in fixed \ EvictedFor(air)
  <2> DEFINE A1 == Above(a)
             A2 == Above(a) \ {air}
             A3 == After(a)
             O == Others(air)
             B == Below(lastUsed, O, a)
             C == O \ {a}
             n == Cardinality(O)
             k == Excess(air)
  <2>1. lastUsed'[a] = lastUsed[a] /\ lastUsed[a] \in Nat
    BY <1>1, <1>2, <1>7
  <2>2. A3 = A2 \cup {air} /\ air \notin A2
    <3>1. lastUsed'[air] > lastUsed[a]
      BY <1>1, <1>2
    <3>2. \A b \in Airs : b # air => lastUsed'[b] = lastUsed[b]
      BY <1>2
    <3>3. QED
      BY <2>1, <3>1, <3>2
  <2>3. A1 \in SUBSET Airs /\ A2 \in SUBSET A1
    OBVIOUS
  <2>4. a \in Latest <=> lastUsed[a] > 0 /\ Cardinality(A1) < R
    BY <1>3
  <2>5. a \in Latest' <=> lastUsed[a] > 0 /\ Cardinality(A3) < R
    BY <1>4, <2>1
  <2>6. \A b \in Airs : lastUsed[b] > lastUsed[a] /\ a \in Latest => b \in fixed
    <3>1. ASSUME NEW b \in Airs, lastUsed[b] > lastUsed[a], a \in Latest
          PROVE  b \in fixed
      <4>1. Above(b) \in SUBSET A1 /\ lastUsed[b] > 0
        BY <1>1, <3>1
      <4> DEFINE Ab == Above(b)
      <4>2. Ab \in SUBSET A1
        BY <4>1
      <4> HIDE DEF A1, Ab
      <4>3. IsFiniteSet(A1)
        BY <1>1, <2>3, FS_Subset
      <4>4. Cardinality(Ab) <= Cardinality(A1) /\ Cardinality(Ab) \in Nat /\ Cardinality(A1) \in Nat
        BY <4>2, <4>3, FS_Subset, FS_CardinalityType
      <4>5. Cardinality(Ab) < R
        BY <1>1, <2>4, <3>1, <4>4
      <4>6. Cardinality(Above(b)) < R
        BY <4>5 DEF Ab
      <4>7. QED
        BY <1>3, <4>1, <4>6
    <3>2. QED
      BY <3>1
  <2>7. a \in fixed => a \in O /\ A2 = C \ B /\ B \in SUBSET C
    <3>1. ASSUME a \in fixed
          PROVE  a \in O /\ A2 = C \ B /\ B \in SUBSET C
      <4>1. a \in O /\ O = fixed \ {air}
        BY <1>7, <3>1 DEF Others
      <4>2. \A b \in O : b \in Airs /\ lastUsed[b] \in Nat /\ (lastUsed[b] = lastUsed[a] => a = b)
        BY <1>1, <3>1, <4>1
      <4>3. B \in SUBSET C
        BY <2>1, <4>2 DEF Below
      <4>4. \A b \in C : b \notin B <=> lastUsed[b] > lastUsed[a]
        BY <2>1, <4>2 DEF Below
      <4>5. \A b \in Airs : b # air /\ lastUsed[b] > lastUsed[a] => b \in C
        BY <2>1, <2>6, <3>1, <4>1
      <4>6. A2 = C \ B
        BY <4>1, <4>2, <4>4, <4>5
      <4>7. QED
        BY <4>1, <4>3, <4>6
    <3>2. QED
      BY <3>1
  <2>8. a \in EvictedFor(air) <=> a \in O /\ Cardinality(B) < k
    BY DEF EvictedFor, Below
  <2>9. IsFiniteSet(O) /\ n \in Nat
    BY EvictionMakesRoom, FS_CardinalityType
  <2>10. k \in Nat /\ (n + 1 > R => k = n + 1 - R) /\ (~(n + 1 > R) => k = 0)
    <3> DEFINE m == n + 1
    <3>1. m \in Nat /\ m = Cardinality(Others(air)) + 1
      BY <2>9
    <3> HIDE DEF m
    <3>2. (m > R => k = m - R) /\ (~(m > R) => k = 0)
      BY <3>1, ExcessIs
    <3>3. QED
      BY <1>1, <2>9, <3>2 DEF m
  <2> HIDE DEF A1, A2, A3, O, B, C, k
  <2>11. IsFiniteSet(A1) /\ IsFiniteSet(A2)
    BY <1>1, <2>3, FS_Subset
  <2>12. Cardinality(A1) \in Nat /\ Cardinality(A2) \in Nat
    BY <2>11, FS_CardinalityType
  <2>13. Cardinality(A3) = Cardinality(A2) + 1
    BY <2>2, <2>11, FS_AddElement
  <2>14. Cardinality(A1) <= Cardinality(A2) + 1
    <3>1. Cardinality(A2) = IF air \in A1 THEN Cardinality(A1) - 1 ELSE Cardinality(A1)
      BY <2>11, FS_RemoveElement DEF A1, A2
    <3>2. QED
      BY <2>12, <3>1
  <2>15. CASE a \in fixed
    <3>1. a \in O /\ A2 = C \ B /\ B \in SUBSET C
      BY <2>7, <2>15
    <3>2. IsFiniteSet(C) /\ Cardinality(C) = n - 1
      BY <2>9, <3>1, FS_RemoveElement DEF C
    <3>3. Cardinality(C) = Cardinality(B) + Cardinality(C \ B) /\ Cardinality(B) \in Nat
      BY <3>1, <3>2, PartAndRest
    <3>4. Cardinality(A3) = n - Cardinality(B)
      BY <2>9, <2>12, <2>13, <3>1, <3>2, <3>3
    <3>5. Cardinality(A3) < R <=> ~(Cardinality(B) < k)
      <4>1. 0 <= n - Cardinality(B)
        BY <2>12, <2>13, <3>4
      <4> HIDE DEF n
      <4>2. QED
        BY <1>1, <2>9, <2>10, <3>3, <3>4, <4>1
    <3>6. lastUsed[a] > 0
      BY <1>1, <2>15
    <3>7. QED
      BY <2>5, <2>8, <2>15, <3>1, <3>5, <3>6
  <2>16. CASE a \notin fixed
    <3>1. lastUsed[a] > 0 => ~(Cardinality(A1) < R)
      BY <2>4, <2>16
    <3>2. lastUsed[a] > 0 => ~(Cardinality(A3) < R)
      BY <1>1, <2>12, <2>13, <2>14, <3>1
    <3>3. QED
      BY <2>5, <2>16, <3>2
  <2>17. QED
    BY <2>15, <2>16
<1>8. QED
  BY <1>1, <1>4, <1>6, <1>7

\* The stamps decide who is latest.
LEMMA SameStamps ==
    ASSUME lastUsed' = lastUsed
    PROVE  Latest' = Latest
BY DEF Latest

LEMMA LatestStep ==
    ASSUME IInv, FixedAreLatest, "setup" \notin Faults, [Next]_vars
    PROVE  FixedAreLatest'
<1>1. ClientTypes /\ RestTypes /\ SlotIsHeldInside /\ StampsDiffer /\ ProveFindsItsSections
  BY TwoParts DEF IInv
<1>2. pc \in [Instances -> Labels] /\ releases \in SUBSET Instances
  BY <1>1 DEF ClientTypes
<1>3. CASE SetPlan \/ Admit \/ UNCHANGED vars \/ \E i \in Instances : BeforeSlot(i) \/ LeaveClient(i)
  <2>1. UNCHANGED <<slot, fixed, lastUsed, releases>>
    BY <1>3, OutsideLeaves
  <2>2. AirOfHolder' = AirOfHolder /\ Latest' = Latest
    BY <2>1, SameStamps DEF AirOfHolder
  <2>3. \A j \in Instances : slot = j /\ pc'[j] # "slot" => pc[j] # "slot"
    <3>1. \A j \in Instances : pc[j] = "slot" => pc'[j] = "slot"
      <4>1. CASE SetPlan \/ UNCHANGED vars
        BY <4>1 DEF SetPlan, vars
      <4>2. CASE Admit
        <5>1. Head(line) \in Instances /\ pc[Head(line)] = "in line"
          <6>1. line \in Seq(Instances) /\ line # <<>>
            BY <1>1, <4>2 DEF Admit, Admission!LetIn, ClientTypes
          <6>2. Head(line) = line[1] /\ 1 \in 1 .. Len(line) /\ Head(line) \in Instances
            BY <6>1
          <6>3. QED
            BY <6>2 DEF IInv, LineWaits
        <5>2. QED
          BY <1>2, <4>2, <5>1 DEF Admit, Goto
      <4>3. CASE \E i \in Instances : BeforeSlot(i) \/ LeaveClient(i)
        BY <1>2, <4>3 DEF BeforeSlot, AskAdmission, UploadInputs, PlanAhead, ReadKey, UploadAhead,
                          LeaveClient, Goto
      <4>4. QED
        BY <1>3, <4>1, <4>2, <4>3
    <3>2. QED
      BY <3>1
  <2>4. QED
    BY <2>1, <2>2, <2>3 DEF FixedAreLatest
<1>4. ASSUME NEW i \in Instances, TakeSlot(i), releases' = {}
      PROVE  /\ fixed' \cup AirOfHolder' = Latest'
             /\ \A j \in Instances : slot' = j /\ pc'[j] # "slot" => AirOf[j] \in fixed'
  <2>1. /\ slot = Nobody /\ slot' = i /\ fixed' = fixed \ EvictedFor(AirOf[i])
        /\ lastUsed' = [lastUsed EXCEPT ![AirOf[i]] = tick + 1]
        /\ pc' = [pc EXCEPT ![i] = "slot"]
    BY <1>4 DEF TakeSlot, Goto
  <2>2. releases = {}
    BY <1>4 DEF TakeSlot
  <2>3. fixed = Latest
    <3>1. AirOfHolder = {}
      BY <2>1, HolderIs
    <3>2. QED
      BY <2>2, <3>1 DEF FixedAreLatest
  <2>4. (fixed \ EvictedFor(AirOf[i])) \cup {AirOf[i]} = Latest'
    BY <1>1, <2>1, <2>3, AirsOfInstances, EvictionKeepsLatest
  <2>5. AirOfHolder' = {AirOf[i]}
    BY <2>1, ClientAssumption DEF AirOfHolder, ClientAssumption
  <2>6. QED
    BY <1>2, <2>1, <2>4, <2>5
<1>5. ASSUME NEW i \in Instances, UnderSlot(i), releases' = {}
      PROVE  /\ fixed' \cup AirOfHolder' = Latest'
             /\ \A j \in Instances : slot' = j /\ pc'[j] # "slot" => AirOf[j] \in fixed'
  <2> DEFINE air == AirOf[i]
  <2>1. /\ slot = i /\ slot # Nobody /\ lastUsed' = lastUsed /\ releases = {}
        /\ fixed' = fixed \/ (InstallFixed(i) /\ fixed' = fixed \cup {air})
    BY <1>1, <1>5, UnderSlotLeaves, HolderSteps
  <2>2. AirOfHolder = {air} /\ Latest' = Latest
    BY <2>1, HolderIs, SameStamps
  <2>3. fixed \cup {air} = Latest /\ (pc[i] # "slot" => air \in fixed)
    BY <2>1, <2>2 DEF FixedAreLatest
  <2>4. air \in fixed'
    <3>1. CASE InstallFixed(i)
      BY <3>1 DEF InstallFixed
    <3>2. CASE FindResident(i)
      BY <3>2 DEF FindResident
    <3>3. CASE ~InstallFixed(i) /\ ~FindResident(i)
      <4>1. pc[i] # "slot"
        BY <1>5, <3>3 DEF UnderSlot, MirrorInstall, FailToPrepare, StartProve, EndProve,
                          PanicInProve, FreeSlot
      <4>2. QED
        BY <2>1, <2>3, <4>1
    <3>4. QED
      BY <3>1, <3>2, <3>3
  <2>5. AirOfHolder' \subseteq {air} /\ \A j \in Instances : slot' = j => j = i
    <3>1. slot' = i \/ slot' = Nobody
      BY <1>1, <1>5, <2>1, HolderSteps
    <3>2. QED
      BY <3>1, ClientAssumption DEF AirOfHolder, ClientAssumption
  <2>6. QED
    BY <2>1, <2>2, <2>3, <2>4, <2>5
<1>6. QED
  BY <1>3, <1>4, <1>5 DEF Next, Finished, FixedAreLatest

\* What residency is for: if every set_fixed succeeds, then as long as nothing
\* was released the resident AIRs between two proves are the ones proved last,
\* whatever order the instances came in.
THEOREM ClientResidentAreTheLatest ==
    "setup" \notin Faults => (Spec => []ResidentAreTheLatest)
<1> SUFFICES ASSUME "setup" \notin Faults PROVE Spec => []ResidentAreTheLatest
  OBVIOUS
<1>1. Init => FixedAreLatest
  <2> SUFFICES ASSUME Init PROVE FixedAreLatest
    OBVIOUS
  <2>1. fixed = {} /\ slot = Nobody /\ lastUsed = [a \in Airs |-> 0]
    BY DEF Init
  <2>2. AirOfHolder = {} /\ \A i \in Instances : slot # i
    BY <2>1, HolderIs, ClientAssumption DEF ClientAssumption
  <2>3. Latest = {}
    BY <2>1 DEF Latest
  <2>4. QED
    BY <2>1, <2>2, <2>3 DEF FixedAreLatest
<1>2. IInv /\ FixedAreLatest /\ [Next]_vars => FixedAreLatest'
  BY LatestStep
<1>3. FixedAreLatest => ResidentAreTheLatest
  BY HolderIs DEF FixedAreLatest, ResidentAreTheLatest
<1>4. QED
  BY <1>1, <1>2, <1>3, ClientInvariant, PTL DEF Spec
=============================================================================
