---------------------------- MODULE LoadingProofs ----------------------------
(***************************************************************************)
(* Proofs about what loads compiled programs.  About Loading, for any      *)
(* clients, AIRs, programs, workers, prove threads, plans and failures:    *)
(* the marks of the loads in flight, the whole artifacts, the locks of the *)
(* cache entries and the workers' count.  About ExecutableCache, for any   *)
(* processes, ids, kinds of device, failures and kills: a file cut short   *)
(* never takes the entry's name, and short of a kill no temporary is left  *)
(* behind.                                                                 *)
(***************************************************************************)
EXTENDS Loading, ExecutableCache, FiniteSetTheorems, SequenceTheorems, TLAPS

\* A place in a batch is a client and a key of the list.
LEMMA PlaceInBatch ==
    ASSUME NEW n \in Nat, NEW len \in Nat \ {0}, NEW count \in Nat, n < count * len
    PROVE  /\ n \div len \in 0 .. count - 1
           /\ n % len \in 0 .. len - 1
<1>1. n = (len * (n \div len)) + (n % len) /\ n % len \in 0 .. len - 1 /\ n \div len \in Int
  OBVIOUS
<1>2. ASSUME n \div len >= count PROVE FALSE
  <2> DEFINE q == n \div len
  <2>1. len * q >= len * count
    <3>1. len \in Nat /\ q \in Int /\ q - count \in Nat
      BY <1>1, <1>2
    <3>2. len * (q - count) >= 0
      BY <3>1
    <3>3. QED
      BY <3>1, <3>2
  <2>2. QED
    BY <1>1, <2>1
<1>3. ASSUME n \div len < 0 PROVE FALSE
  BY <1>1, <1>3
<1>4. QED
  BY <1>1, <1>2, <1>3

\* A batch is work as the list holds it.
LEMMA BatchIsTyped ==
    ASSUME NEW keys \in Seq(Keys), NEW first \in BOOLEAN
    PROVE  BatchOf(keys, first) \in Seq([client : Clients, key : Keys, first : BOOLEAN])
<1> DEFINE size == NumClients * Len(keys)
<1>1. NumClients \in Nat \ {0} /\ Len(keys) \in Nat /\ size \in Nat
  BY LoadingAssumption DEF LoadingAssumption
<1>2. ASSUME NEW n \in 1 .. size
      PROVE  /\ (n - 1) \div Len(keys) \in Clients
             /\ keys[((n - 1) % Len(keys)) + 1] \in Keys
  <2>1. Len(keys) # 0
    BY <1>1, <1>2
  <2>2. n - 1 \in Nat /\ n - 1 < NumClients * Len(keys)
    BY <1>1, <1>2
  <2>3. /\ (n - 1) \div Len(keys) \in 0 .. NumClients - 1
        /\ (n - 1) % Len(keys) \in 0 .. Len(keys) - 1
    BY <1>1, <2>1, <2>2, PlaceInBatch
  <2>4. ((n - 1) % Len(keys)) + 1 \in 1 .. Len(keys)
    BY <1>1, <2>3
  <2>5. QED
    BY <2>3, <2>4 DEF Clients
<1>3. [n \in 1 .. size |-> [client |-> (n - 1) \div Len(keys),
                            key    |-> keys[((n - 1) % Len(keys)) + 1],
                            first  |-> first]]
        \in [1 .. size -> [client : Clients, key : Keys, first : BOOLEAN]]
  BY <1>2
<1>4. QED
  BY <1>1, <1>3 DEF BatchOf

-----------------------------------------------------------------------------
\* No step takes a thread out of its kind's labels, and a thread that asks,
\* loads or proves knows its client and AIR.
LEMMA JobsStayKnown ==
    ASSUME TypeOK, ThreadsKnowTheirJobs, [Next]_vars
    PROVE  ThreadsKnowTheirJobs'
<1>1. /\ pc \in [Threads -> LoadLabels \cup {"gone", "idle", "new", "slot wait", "gate wait",
                                           "proving", "done"}]
      /\ job \in [Threads -> Jobs \cup {NoJob}]
      /\ Workers \cap Instances = {}
  BY LoadingAssumption DEF TypeOK, LoadingAssumption
<1> USE <1>1 DEF ThreadsKnowTheirJobs, Threads, LoadLabels
<1>2. CASE UNCHANGED vars \/ Finished
  BY <1>2 DEF vars, queue, marks, load, Finished
<1>3. CASE StartUp \/ SetPlan
  BY <1>3 DEF StartUp, SetPlan, Push, marks, load
<1>4. ASSUME NEW w \in Workers, TakeWork(w) PROVE ThreadsKnowTheirJobs'
  <2>1. work # <<>> => [client |-> Head(work).client, key |-> Head(work).key] \in Jobs
    <3>1. work # <<>> => Head(work) \in [client : Clients, key : Keys, first : BOOLEAN]
      <4> DEFINE Item == [client : Clients, key : Keys, first : BOOLEAN]
      <4>1. work \in Seq(Item)
        BY DEF TypeOK
      <4> HIDE DEF Item
      <4>2. work # <<>> => Head(work) \in Item
        BY <4>1, HeadTailProperties
      <4>3. QED
        BY <4>2 DEF Item
    <3>2. QED
      BY <3>1 DEF Jobs
  <2>2. QED
    BY <1>4, <2>1 DEF TakeWork, Goto
<1>5. ASSUME NEW t \in Threads, AskArtifact(t) PROVE ThreadsKnowTheirJobs'
  <2>1. pc[t] = "asking" /\ job[t] \in Jobs
    BY <1>5 DEF AskArtifact
  <2>2. CASE Goto(t, Return(t, TRUE)) /\ job' = JobAfter(t)
    BY <2>1, <2>2 DEF Goto, Return, JobAfter
  <2>3. CASE (Goto(t, "parked") \/ Goto(t, "loading")) /\ job' = job
    BY <2>1, <2>3 DEF Goto
  <2>4. QED
    BY <1>5, <2>2, <2>3 DEF AskArtifact
<1>6. ASSUME NEW t \in Threads, EndLoad(t) \/ EndFailedLoad(t) PROVE ThreadsKnowTheirJobs'
  BY <1>6 DEF EndLoad, LoadedWhole, EndFailedLoad, LoadFailed, MoveOn, Return, JobAfter
<1>7. ASSUME NEW t \in Threads,
             \/ MissManifest(t) \/ MissProgram(t) \/ EnterPlugin(t) \/ TakeEntry(t)
             \/ ReadCache(t) \/ Compile(t) \/ LeavePlugin(t) \/ SpuriousWakeup(t)
      PROVE  ThreadsKnowTheirJobs'
  BY <1>7 DEF MissManifest, MissProgram, EnterPlugin, TakeEntry, ReadCache, Compile,
              LeavePlugin, SpuriousWakeup, Goto, load
<1>8. ASSUME NEW i \in Instances, ProveStep(i) PROVE ThreadsKnowTheirJobs'
  <2>1. \A c \in SlotsFor(i) : [client |-> c, key |-> KeyOf[i]] \in Jobs
    <3>1. KeyOf[i] \in Keys /\ HomeOf[i] \in Clients
      BY LoadingAssumption DEF LoadingAssumption
    <3>2. SlotsFor(i) \subseteq Clients
      BY <3>1 DEF SlotsFor
    <3>3. QED
      BY <3>1, <3>2 DEF Jobs
  <2>2. QED
    BY <1>8, <2>1 DEF ProveStep, StartThread, TakeSlot, EnterProve, EndProve, Goto, load
<1>9. QED
  BY <1>2, <1>3, <1>4, <1>5, <1>6, <1>7, <1>8 DEF Next, LoadStep

\* The workers that run are counted: a push adds as many as it asks for, an
\* empty list retires the one that found it, and nothing else ends one.
LEMMA WorkersStayCounted ==
    ASSUME TypeOK, ThreadsKnowTheirJobs, WorkIsNeverStranded, [Next]_vars
    PROVE  WorkIsNeverStranded'
<1> DEFINE Running == {w \in Workers : pc[w] # "gone"}
<1> USE LoadingAssumption DEF LoadingAssumption, WorkIsNeverStranded, Threads
<1>1. IsFiniteSet(Workers) /\ IsFiniteSet(Running) /\ Cardinality(Running) \in Nat
  <2>1. IsFiniteSet(Running)
    BY FS_Subset
  <2>2. QED
    BY <2>1, FS_CardinalityType
<1>2. Cardinality(Workers) \in Nat /\ Cardinality(Workers) > 0
  BY FS_CardinalityType, FS_EmptySet
<1>3. CASE StartUp \/ SetPlan
  <2>1. PICK S \in SUBSET {w \in Workers : pc[w] = "gone"} :
           /\ Cardinality(S) = workers' - workers
           /\ pc' = [t \in Threads |-> IF t \in S THEN "idle" ELSE pc[t]]
    BY <1>3 DEF StartUp, SetPlan, Push
  <2>2. Running' = Running \cup S /\ Running \cap S = {}
    BY <2>1 DEF TypeOK
  <2>3. IsFiniteSet(S)
    BY <2>1, <1>1, FS_Subset
  <2>4. Cardinality(Running') = Cardinality(Running) + Cardinality(S)
    <3> HIDE DEF Running
    <3>1. Cardinality(Running \cup S)
            = Cardinality(Running) + Cardinality(S) - Cardinality(Running \cap S)
      BY <1>1, <2>3, FS_Union
    <3>2. Cardinality(Running \cap S) = 0 /\ Cardinality(S) \in Nat
      BY <2>2, <2>3, FS_EmptySet, FS_CardinalityType
    <3>3. QED
      BY <1>1, <2>2, <3>1, <3>2
  <2>5. workers' >= Cardinality(Workers) /\ workers' \in Nat
    <3>1. workers' = IF workers < Cardinality(Workers) THEN Cardinality(Workers) ELSE workers
      BY <1>3 DEF StartUp, SetPlan, Push
    <3>2. workers \in Nat
      BY <1>1
    <3>3. QED
      BY <1>2, <3>1, <3>2
  <2>6. workers' = Cardinality(Running')
    <3>1. workers = Cardinality(Running)
      OBVIOUS
    <3> HIDE DEF Running
    <3>2. QED
      BY <1>1, <2>1, <2>4, <2>5, <3>1
  <2>7. QED
    BY <1>2, <2>5, <2>6
<1>4. ASSUME NEW w \in Workers, TakeWork(w) PROVE WorkIsNeverStranded'
  <2>1. CASE work = <<>>
    <3>1. Running' = Running \ {w} /\ w \in Running /\ work' = <<>> /\ workers' = workers - 1
      BY <1>4, <2>1 DEF TakeWork, Goto, TypeOK
    <3>2. Cardinality(Running') = Cardinality(Running) - 1
      <4> HIDE DEF Running
      <4>1. QED
        BY <1>1, <3>1, FS_RemoveElement
    <3>3. QED
      BY <3>1, <3>2
  <2>2. CASE work # <<>>
    <3>1. Running' = Running /\ workers' = workers
      BY <1>4, <2>2 DEF TakeWork, Goto, TypeOK
    <3>2. QED
      BY <3>1, <2>2
  <2>3. QED
    BY <2>1, <2>2
<1>5. CASE /\ UNCHANGED <<work, workers>>
           /\ \A w \in Workers : pc'[w] = "gone" <=> pc[w] = "gone"
  <2>1. Running' = Running
    BY <1>5
  <2>2. QED
    BY <1>5, <2>1
<1>6. ASSUME NEW t \in Threads, LoadStep(t) \/ SpuriousWakeup(t)
      PROVE  UNCHANGED <<work, workers>> /\ \A w \in Workers : pc'[w] = "gone" <=> pc[w] = "gone"
  <2> USE DEF TypeOK, ThreadsKnowTheirJobs, queue
  <2>1. CASE AskArtifact(t)
    BY <2>1 DEF AskArtifact, Goto, Return
  <2>2. CASE EndLoad(t) \/ EndFailedLoad(t)
    BY <2>2 DEF EndLoad, LoadedWhole, EndFailedLoad, LoadFailed, MoveOn, Return
  <2>3. CASE \/ MissManifest(t) \/ MissProgram(t) \/ EnterPlugin(t) \/ TakeEntry(t)
             \/ ReadCache(t) \/ Compile(t) \/ LeavePlugin(t) \/ SpuriousWakeup(t)
    BY <2>3 DEF MissManifest, MissProgram, EnterPlugin, TakeEntry, ReadCache, Compile,
                LeavePlugin, SpuriousWakeup, Goto
  <2>4. QED
    BY <1>6, <2>1, <2>2, <2>3 DEF LoadStep
<1>7. ASSUME NEW i \in Instances, ProveStep(i)
      PROVE  UNCHANGED <<work, workers>> /\ \A w \in Workers : pc'[w] = "gone" <=> pc[w] = "gone"
  BY <1>7 DEF ProveStep, StartThread, TakeSlot, EnterProve, EndProve, Goto, queue, TypeOK
<1>8. CASE UNCHANGED vars \/ Finished
  BY <1>5, <1>8 DEF vars, queue, Finished
<1>9. QED
  BY <1>3, <1>4, <1>5, <1>6, <1>7, <1>8 DEF Next
-----------------------------------------------------------------------------
\* The types hold through every step.
LEMMA TypesHold ==
    ASSUME TypeOK, ThreadsKnowTheirJobs, ArtifactsAreWhole, WorkIsNeverStranded',
           [Next]_vars
    PROVE  TypeOK'
<1> DEFINE Item == [client : Clients, key : Keys, first : BOOLEAN]
           Labels == LoadLabels \cup {"gone", "idle", "new", "slot wait", "gate wait",
                                      "proving", "done"}
           Queued ==
             /\ phase \in {"start", "up", "planned"} /\ work \in Seq(Item)
             /\ pc \in [Threads -> Labels]
           Loaded ==
             /\ ready \in SUBSET Jobs /\ inFlight \in SUBSET Jobs
             /\ cache \in [Entries -> {"absent", "good", "stale"}]
             /\ started \in SUBSET Clients
             /\ job \in [Threads -> Jobs \cup {NoJob}]
             /\ exes \in [Jobs -> SUBSET (1 .. Programs)]
             /\ prog \in [Threads -> 1 .. Programs + 1]
             /\ failed \in SUBSET Threads
<1>1. workers' \in 0 .. Cardinality(Workers)
  <2> DEFINE RunningNext == {w \in Workers : pc'[w] # "gone"}
  <2>1. workers' = Cardinality(RunningNext)
    BY DEF WorkIsNeverStranded
  <2>2. IsFiniteSet(Workers)
    BY LoadingAssumption DEF LoadingAssumption
  <2>3. /\ IsFiniteSet(RunningNext) /\ Cardinality(RunningNext) <= Cardinality(Workers)
    BY <2>2, FS_Subset
  <2>4. Cardinality(RunningNext) \in Nat /\ Cardinality(Workers) \in Nat
    BY <2>2, <2>3, FS_CardinalityType
  <2> HIDE DEF RunningNext
  <2>5. QED
    BY <2>1, <2>3, <2>4
<1>2. Queued /\ Loaded
  BY DEF TypeOK
<1>3. Programs \in Nat \ {0} /\ StartKeys \in Seq(Keys) /\ PlanKeys \in Seq(Keys)
      /\ StartFirst \in BOOLEAN /\ Workers \subseteq Threads /\ Instances \subseteq Threads
  BY LoadingAssumption DEF LoadingAssumption, Threads
<1>4. CASE UNCHANGED vars \/ Finished
  BY <1>1, <1>2, <1>4 DEF vars, queue, marks, load, Finished, TypeOK
<1>5. CASE StartUp \/ SetPlan
  <2>1. PICK keys \in Seq(Keys), first \in BOOLEAN : Push(keys, first)
    BY <1>3, <1>5 DEF StartUp, SetPlan
  <2>2. work' \in Seq(Item)
    <3>1. BatchOf(keys, first) \in Seq(Item)
      BY BatchIsTyped
    <3>2. work' = BatchOf(keys, first) \o work \/ work' = work \o BatchOf(keys, first)
      BY <2>1 DEF Push
    <3>3. work \in Seq(Item)
      BY <1>2
    <3>4. BatchOf(keys, first) \o work \in Seq(Item) /\ work \o BatchOf(keys, first) \in Seq(Item)
      <4> HIDE DEF Item
      <4>1. QED
        BY <3>1, <3>3, ConcatProperties
    <3>5. QED
      BY <3>2, <3>4
  <2>3. pc' \in [Threads -> Labels]
    BY <1>2, <2>1 DEF Push
  <2>4. phase' \in {"start", "up", "planned"} /\ UNCHANGED <<marks, cache, started, exes, load>>
    BY <1>5 DEF StartUp, SetPlan
  <2>5. QED
    BY <1>1, <1>2, <2>2, <2>3, <2>4 DEF TypeOK, marks, load
<1>6. ASSUME NEW w \in Workers, TakeWork(w) PROVE TypeOK'
  <2>1. work # <<>> => Head(work) \in Item /\ Tail(work) \in Seq(Item)
    <3> HIDE DEF Item
    <3>1. QED
      BY <1>2, HeadTailProperties
  <2>2. work' \in Seq(Item)
    <3>1. work' = work \/ (work # <<>> /\ work' = Tail(work))
      BY <1>6 DEF TakeWork
    <3> HIDE DEF Item
    <3>2. QED
      BY <1>2, <2>1, <3>1
  <2>3. job' \in [Threads -> Jobs \cup {NoJob}] /\ pc' \in [Threads -> Labels]
    <3>1. work # <<>> => [client |-> Head(work).client, key |-> Head(work).key] \in Jobs
      BY <2>1 DEF Jobs
    <3>2. QED
      BY <1>2, <1>3, <1>6, <3>1 DEF TakeWork, Goto, LoadLabels
  <2>4. UNCHANGED <<phase, marks, cache, started, exes, prog, failed>>
    BY <1>6 DEF TakeWork
  <2>5. QED
    BY <1>1, <1>2, <2>2, <2>3, <2>4 DEF TypeOK, marks
<1>7. ASSUME NEW t \in Threads, LoadStep(t) \/ SpuriousWakeup(t) PROVE TypeOK'
  <2>1. pc' \in [Threads -> Labels] /\ UNCHANGED <<phase, work, started>>
    BY <1>2, <1>7
    DEF LoadStep, SpuriousWakeup, AskArtifact, EndLoad, EndFailedLoad, MoveOn, Return,
        MissManifest, MissProgram, EnterPlugin, TakeEntry, ReadCache, Compile, LeavePlugin,
        Goto, queue, load, LoadLabels
  <2>2. job' \in [Threads -> Jobs \cup {NoJob}]
    BY <1>2, <1>7
    DEF LoadStep, SpuriousWakeup, AskArtifact, EndLoad, EndFailedLoad, MoveOn, JobAfter,
        MissManifest, MissProgram, EnterPlugin, TakeEntry, ReadCache, Compile, LeavePlugin, load
  <2>3. pc[t] \in LoadLabels /\ job[t] \in Jobs
    BY <1>7
    DEF LoadStep, SpuriousWakeup, AskArtifact, EndLoad, EndFailedLoad, LoadedWhole, LoadFailed,
        MissManifest, MissProgram, EnterPlugin, TakeEntry, ReadCache, Compile, LeavePlugin,
        LoadLabels, ThreadsKnowTheirJobs
  <2>4. ready' \in SUBSET Jobs /\ inFlight' \in SUBSET Jobs /\ failed' \in SUBSET Threads
    BY <1>2, <1>7, <2>3
    DEF LoadStep, SpuriousWakeup, AskArtifact, EndLoad, EndFailedLoad, MoveOn,
        MissManifest, MissProgram, EnterPlugin, TakeEntry, ReadCache, Compile, LeavePlugin,
        marks, load
  <2>5. pc[t] = "leaving" => prog[t] \in 1 .. Programs
    <3>1. prog[t] \in 1 .. Programs + 1
      BY <1>2
    <3>2. pc[t] = "leaving" => prog[t] <= Programs
      BY DEF ArtifactsAreWhole
    <3>3. QED
      BY <1>3, <3>1, <3>2
  <2>6. prog' \in [Threads -> 1 .. Programs + 1]
    <3>1. \/ prog' = prog
          \/ prog' = [prog EXCEPT ![t] = 1]
          \/ prog' = [prog EXCEPT ![t] = @ + 1] /\ prog[t] \in 1 .. Programs
      <4>1. CASE MissProgram(t)
        <5>1. prog[t] \in 1 .. Programs + 1 /\ prog[t] <= Programs
          BY <1>2, <4>1 DEF MissProgram
        <5>2. QED
          BY <1>3, <4>1, <5>1 DEF MissProgram
      <4>2. CASE LeavePlugin(t)
        BY <2>5, <4>2 DEF LeavePlugin
      <4>3. CASE EndLoad(t) \/ EndFailedLoad(t)
        BY <4>3 DEF EndLoad, EndFailedLoad, MoveOn
      <4>4. CASE \/ AskArtifact(t) \/ MissManifest(t) \/ EnterPlugin(t) \/ TakeEntry(t)
                 \/ ReadCache(t) \/ Compile(t) \/ SpuriousWakeup(t)
        BY <4>4 DEF AskArtifact, MissManifest, EnterPlugin, TakeEntry, ReadCache, Compile,
                    SpuriousWakeup, load
      <4>5. QED
        BY <1>7, <4>1, <4>2, <4>3, <4>4 DEF LoadStep
    <3>2. 1 \in 1 .. Programs + 1 /\ \A n \in 1 .. Programs : n + 1 \in 1 .. Programs + 1
      BY <1>3
    <3>3. QED
      BY <1>2, <3>1, <3>2
  <2>7. exes' \in [Jobs -> SUBSET (1 .. Programs)]
    <3>1. \/ exes' = exes
          \/ exes' = [exes EXCEPT ![job[t]] = {}]
          \/ exes' = [exes EXCEPT ![job[t]] = @ \cup {prog[t]}] /\ prog[t] \in 1 .. Programs
      <4>1. CASE LeavePlugin(t)
        BY <2>5, <4>1 DEF LeavePlugin
      <4>2. CASE EndFailedLoad(t)
        BY <4>2 DEF EndFailedLoad
      <4>3. CASE \/ AskArtifact(t) \/ EndLoad(t) \/ MissManifest(t) \/ MissProgram(t)
                 \/ EnterPlugin(t) \/ TakeEntry(t) \/ ReadCache(t) \/ Compile(t)
                 \/ SpuriousWakeup(t)
        BY <4>3 DEF AskArtifact, EndLoad, MissManifest, MissProgram, EnterPlugin, TakeEntry,
                    ReadCache, Compile, SpuriousWakeup
      <4>4. QED
        BY <1>7, <4>1, <4>2, <4>3 DEF LoadStep
    <3>2. exes[job[t]] \in SUBSET (1 .. Programs)
      BY <1>2, <2>3
    <3>3. \A n \in 1 .. Programs : exes[job[t]] \cup {n} \in SUBSET (1 .. Programs)
      BY <3>2
    <3>4. {} \in SUBSET (1 .. Programs)
      OBVIOUS
    <3> DEFINE Allowed == SUBSET (1 .. Programs)
    <3> HIDE DEF Allowed
    <3>5. exes \in [Jobs -> Allowed] /\ {} \in Allowed
      BY <1>2, <3>4 DEF Allowed
    <3>6. prog[t] \in 1 .. Programs => exes[job[t]] \cup {prog[t]} \in Allowed
      BY <3>3 DEF Allowed
    <3>7. exes' \in [Jobs -> Allowed]
      BY <2>3, <3>1, <3>5, <3>6
    <3>8. QED
      BY <3>7 DEF Allowed
  <2>8. cache' \in [Entries -> {"absent", "good", "stale"}]
    BY <1>2, <1>7
    DEF LoadStep, SpuriousWakeup, AskArtifact, EndLoad, EndFailedLoad,
        MissManifest, MissProgram, EnterPlugin, TakeEntry, ReadCache, Compile, LeavePlugin
  <2>9. QED
    BY <1>1, <1>2, <2>1, <2>2, <2>4, <2>6, <2>7, <2>8 DEF TypeOK
<1>8. ASSUME NEW i \in Instances, ProveStep(i) PROVE TypeOK'
  <2>1. pc' \in [Threads -> Labels]
    BY <1>2, <1>8 DEF ProveStep, StartThread, TakeSlot, EnterProve, EndProve, Goto, LoadLabels
  <2>2. job' \in [Threads -> Jobs \cup {NoJob}]
    <3>1. KeyOf[i] \in Keys /\ HomeOf[i] \in Clients
      BY LoadingAssumption DEF LoadingAssumption
    <3>2. \A c \in SlotsFor(i) : [client |-> c, key |-> KeyOf[i]] \in Jobs
      BY <3>1 DEF SlotsFor, Jobs
    <3>3. QED
      BY <1>2, <1>8, <3>2 DEF ProveStep, StartThread, TakeSlot, EnterProve, EndProve, load
  <2>3. started' \in SUBSET Clients
    <3>1. pc[i] = "gate wait" => job[i].client \in Clients
      BY <1>3 DEF ThreadsKnowTheirJobs, Jobs
    <3>2. QED
      BY <1>2, <1>8, <3>1 DEF ProveStep, StartThread, TakeSlot, EnterProve, EndProve
  <2>4. UNCHANGED <<phase, work, ready, inFlight, cache, exes, prog, failed>>
    BY <1>8 DEF ProveStep, StartThread, TakeSlot, EnterProve, EndProve, queue, marks, load
  <2>5. QED
    BY <1>1, <1>2, <2>1, <2>2, <2>3, <2>4 DEF TypeOK
<1>9. QED
  BY <1>4, <1>5, <1>6, <1>7, <1>8 DEF Next

-----------------------------------------------------------------------------
\* What the steps of one thread do to the labels, the jobs and the marks,
\* whatever else they do: the other threads keep theirs, but those asleep may
\* be woken.
LEMMA LoadersMove ==
    ASSUME TypeOK, ThreadsKnowTheirJobs, [Next]_vars
    PROVE  \/ /\ UNCHANGED marks
              /\ \A u \in Threads : /\ (u \in Loaders)' <=> u \in Loaders
                                    /\ u \in Loaders => job'[u] = job[u]
           \/ \E t \in Threads :
                 /\ pc[t] = "asking" /\ job[t] \notin ready \cup inFlight
                 /\ inFlight' = inFlight \cup {job[t]} /\ ready' = ready
                 /\ job' = job /\ pc' = [pc EXCEPT ![t] = "loading"]
           \/ \E t \in Loaders :
                 /\ inFlight' = inFlight \ {job[t]} /\ ready' \in {ready, ready \cup {job[t]}}
                 /\ \A u \in Threads : /\ (u \in Loaders)' <=> u \in Loaders /\ u # t
                                       /\ u \in Loaders /\ u # t => job'[u] = job[u]
<1>1. /\ pc \in [Threads -> LoadLabels \cup {"gone", "idle", "new", "slot wait", "gate wait",
                                           "proving", "done"}]
      /\ job \in [Threads -> Jobs \cup {NoJob}]
      /\ Workers \subseteq Threads /\ Instances \subseteq Threads
  BY DEF TypeOK, Threads
<1> DEFINE Still == /\ UNCHANGED marks
                    /\ \A u \in Threads : /\ (u \in Loaders)' <=> u \in Loaders
                                          /\ u \in Loaders => job'[u] = job[u]
<1> USE <1>1 DEF Loaders, LoadLabels
<1>2. CASE UNCHANGED vars \/ Finished
  <2>1. Still
    BY <1>2 DEF vars, marks, load, Finished
  <2>2. QED
    BY <2>1
<1>3. CASE StartUp \/ SetPlan
  <2>1. Still
    BY <1>3 DEF StartUp, SetPlan, Push, marks, load
  <2>2. QED
    BY <2>1
<1>4. ASSUME NEW w \in Workers, TakeWork(w) PROVE Still
  <2>1. pc[w] = "idle" /\ pc' \in {pc, [pc EXCEPT ![w] = "gone"], [pc EXCEPT ![w] = "asking"]}
    BY <1>4 DEF TakeWork, Goto
  <2>2. \A u \in Threads \ {w} : job'[u] = job[u]
    BY <1>4 DEF TakeWork
  <2>3. UNCHANGED marks
    BY <1>4 DEF TakeWork
  <2>4. QED
    BY <2>1, <2>2, <2>3
<1>5. ASSUME NEW t \in Threads, AskArtifact(t)
      PROVE  \/ Still
             \/ /\ pc[t] = "asking" /\ job[t] \notin ready \cup inFlight
                /\ inFlight' = inFlight \cup {job[t]} /\ ready' = ready
                /\ job' = job /\ pc' = [pc EXCEPT ![t] = "loading"]
  <2>1. CASE job[t] \in ready /\ Goto(t, Return(t, TRUE)) /\ job' = JobAfter(t) /\ UNCHANGED inFlight
    <3>1. pc[t] = "asking" /\ pc' \in {[pc EXCEPT ![t] = "idle"], [pc EXCEPT ![t] = "slot wait"]}
      BY <1>5, <2>1 DEF AskArtifact, Goto, Return
    <3>2. \A u \in Threads \ {t} : job'[u] = job[u]
      BY <2>1 DEF JobAfter
    <3>3. UNCHANGED marks
      BY <1>5, <2>1 DEF AskArtifact, marks
    <3>4. Still
      BY <3>1, <3>2, <3>3
    <3>5. QED
      BY <3>4
  <2>2. CASE job[t] \in inFlight \ ready /\ Goto(t, "parked") /\ UNCHANGED <<job, inFlight>>
    BY <1>5, <2>2 DEF AskArtifact, Goto, marks
  <2>3. CASE /\ job[t] \notin ready \cup inFlight
             /\ inFlight' = inFlight \cup {job[t]}
             /\ Goto(t, "loading")
             /\ UNCHANGED job
    BY <1>5, <2>3 DEF AskArtifact, Goto
  <2>4. QED
    BY <1>5, <2>1, <2>2, <2>3 DEF AskArtifact
<1>6. ASSUME NEW t \in Threads, EndLoad(t) \/ EndFailedLoad(t)
      PROVE  /\ t \in Loaders
             /\ inFlight' = inFlight \ {job[t]} /\ ready' \in {ready, ready \cup {job[t]}}
             /\ \A u \in Threads : /\ (u \in Loaders)' <=> u \in Loaders /\ u # t
                                   /\ u \in Loaders /\ u # t => job'[u] = job[u]
  <2>1. t \in Loaders
    BY <1>6 DEF EndLoad, EndFailedLoad, LoadedWhole, LoadFailed
  <2>2. inFlight' = inFlight \ {job[t]} /\ ready' \in {ready, ready \cup {job[t]}}
    BY <1>6 DEF EndLoad, EndFailedLoad
  <2>3. job' = JobAfter(t)
    BY <1>6 DEF EndLoad, EndFailedLoad, MoveOn
  <2>4. pc'[t] \in {"idle", "slot wait", "done"}
    BY <1>6 DEF EndLoad, EndFailedLoad, MoveOn, Return
  <2>5. \A u \in Threads \ {t} : pc'[u] = pc[u] \/ (pc[u] = "parked" /\ pc'[u] = "asking")
    BY <1>6 DEF EndLoad, EndFailedLoad, MoveOn
  <2>6. \A u \in Threads \ {t} : job'[u] = job[u]
    BY <2>3 DEF JobAfter
  <2>7. ~(t \in Loaders)' /\ \A u \in Threads \ {t} : (u \in Loaders)' <=> u \in Loaders
    BY <2>4, <2>5
  <2>8. QED
    BY <2>1, <2>2, <2>6, <2>7
<1>7. ASSUME NEW t \in Threads,
             \/ MissManifest(t) \/ MissProgram(t) \/ EnterPlugin(t) \/ TakeEntry(t)
             \/ ReadCache(t) \/ Compile(t) \/ LeavePlugin(t) \/ SpuriousWakeup(t)
      PROVE  Still
  <2>1. UNCHANGED marks /\ job' = job
    BY <1>7 DEF MissManifest, MissProgram, EnterPlugin, TakeEntry, ReadCache, Compile,
                LeavePlugin, SpuriousWakeup, marks, load
  <2>2. \/ pc' = pc
        \/ pc[t] = "parked" /\ pc' = [pc EXCEPT ![t] = "asking"]
        \/ /\ pc[t] \in {"loading", "entry", "reading", "compiling", "leaving"}
           /\ \E l \in {"loading", "entry", "reading", "compiling", "leaving", "aborted"} :
                 pc' = [pc EXCEPT ![t] = l]
    BY <1>7 DEF MissManifest, MissProgram, EnterPlugin, TakeEntry, ReadCache, Compile,
                LeavePlugin, SpuriousWakeup, Goto
  <2>3. QED
    BY <2>1, <2>2
<1>8. ASSUME NEW i \in Instances, ProveStep(i) PROVE Still
  BY <1>8 DEF ProveStep, StartThread, TakeSlot, EnterProve, EndProve, Goto, marks, load
<1>9. QED
  BY <1>2, <1>3, <1>4, <1>5, <1>6, <1>7, <1>8 DEF Next, LoadStep

\* An AIR is marked exactly while one thread loads it.
LEMMA MarksStayMatched ==
    ASSUME TypeOK, ThreadsKnowTheirJobs, MarksMatchLoaders, [Next]_vars
    PROVE  MarksMatchLoaders'
<1> USE DEF MarksMatchLoaders
<1>1. Loaders \subseteq Threads /\ Loaders' \subseteq Threads
  BY DEF Loaders
<1>2. CASE /\ UNCHANGED marks
           /\ \A u \in Threads : /\ (u \in Loaders)' <=> u \in Loaders
                                 /\ u \in Loaders => job'[u] = job[u]
  <2>1. Loaders' = Loaders
    BY <1>1, <1>2
  <2>2. \A u \in Loaders : job'[u] = job[u]
    BY <1>1, <1>2
  <2>3. {job'[u] : u \in Loaders} = {job[u] : u \in Loaders}
    BY <2>2
  <2>4. inFlight' = inFlight /\ ready' = ready
    BY <1>2 DEF marks
  <2>5. QED
    BY <2>1, <2>2, <2>3, <2>4
<1>3. ASSUME NEW t \in Threads,
             pc[t] = "asking", job[t] \notin ready \cup inFlight,
             inFlight' = inFlight \cup {job[t]}, ready' = ready,
             job' = job, pc' = [pc EXCEPT ![t] = "loading"]
      PROVE  MarksMatchLoaders'
  <2>1. Loaders' = Loaders \cup {t} /\ t \notin Loaders
    BY <1>3 DEF Loaders, LoadLabels, TypeOK
  <2>2. QED
    BY <1>3, <2>1
<1>4. ASSUME NEW t \in Loaders,
             inFlight' = inFlight \ {job[t]}, ready' \in {ready, ready \cup {job[t]}},
             \A u \in Threads : /\ (u \in Loaders)' <=> u \in Loaders /\ u # t
                                /\ u \in Loaders /\ u # t => job'[u] = job[u]
      PROVE  MarksMatchLoaders'
  <2>1. Loaders' = Loaders \ {t}
    BY <1>1, <1>4
  <2>2. \A u \in Loaders \ {t} : job'[u] = job[u] /\ job[u] # job[t]
    BY <1>1, <1>4
  <2>3. {job'[u] : u \in Loaders'} = inFlight \ {job[t]}
    BY <1>4, <2>1, <2>2
  <2>4. QED
    BY <1>4, <2>1, <2>2, <2>3
<1>5. QED
  BY <1>2, <1>3, <1>4, LoadersMove

\* A thread asleep waits for a load that goes on: the end of one wakes
\* everybody asleep on its client.
LEMMA SleepersStayCovered ==
    ASSUME TypeOK, ThreadsKnowTheirJobs, SleepersHaveALoader, [Next]_vars
    PROVE  SleepersHaveALoader'
<1>1. /\ pc \in [Threads -> LoadLabels \cup {"gone", "idle", "new", "slot wait", "gate wait",
                                           "proving", "done"}]
      /\ job \in [Threads -> Jobs \cup {NoJob}]
      /\ Workers \subseteq Threads /\ Instances \subseteq Threads
  BY DEF TypeOK, Threads
<1> DEFINE Covered == /\ inFlight' = inFlight
                      /\ \A u \in Threads : pc'[u] = "parked" => pc[u] = "parked" /\ job'[u] = job[u]
<1> USE <1>1 DEF SleepersHaveALoader
<1>2. Covered => SleepersHaveALoader'
  OBVIOUS
<1>3. CASE UNCHANGED vars \/ Finished
  BY <1>2, <1>3 DEF vars, marks, load, Finished
<1>4. CASE StartUp \/ SetPlan
  BY <1>2, <1>4 DEF StartUp, SetPlan, Push, marks, load
<1>5. ASSUME NEW w \in Workers, TakeWork(w) PROVE Covered
  <2>1. pc' \in {pc, [pc EXCEPT ![w] = "gone"], [pc EXCEPT ![w] = "asking"]}
    BY <1>5 DEF TakeWork, Goto
  <2>2. pc[w] = "idle" /\ \A u \in Threads \ {w} : job'[u] = job[u]
    BY <1>5 DEF TakeWork
  <2>3. inFlight' = inFlight
    BY <1>5 DEF TakeWork, marks
  <2>4. QED
    BY <2>1, <2>2, <2>3
<1>6. ASSUME NEW t \in Threads, AskArtifact(t) PROVE SleepersHaveALoader'
  <2>1. CASE job[t] \in ready /\ Goto(t, Return(t, TRUE)) /\ job' = JobAfter(t) /\ UNCHANGED inFlight
    <3>1. pc' \in {[pc EXCEPT ![t] = "idle"], [pc EXCEPT ![t] = "slot wait"]}
      BY <2>1 DEF Goto, Return
    <3>2. \A u \in Threads \ {t} : job'[u] = job[u]
      BY <2>1 DEF JobAfter
    <3>3. QED
      BY <2>1, <3>1, <3>2
  <2>2. CASE job[t] \in inFlight \ ready /\ Goto(t, "parked") /\ UNCHANGED <<job, inFlight>>
    BY <2>2 DEF Goto
  <2>3. CASE /\ inFlight' = inFlight \cup {job[t]}
             /\ Goto(t, "loading")
             /\ UNCHANGED job
    BY <2>3 DEF Goto
  <2>4. QED
    BY <1>6, <2>1, <2>2, <2>3 DEF AskArtifact
<1>7. ASSUME NEW t \in Threads, EndLoad(t) \/ EndFailedLoad(t) PROVE SleepersHaveALoader'
  <2>1. inFlight' = inFlight \ {job[t]} /\ job' = JobAfter(t)
    BY <1>7 DEF EndLoad, EndFailedLoad, MoveOn
  <2>2. pc'[t] # "parked"
    BY <1>7 DEF EndLoad, EndFailedLoad, MoveOn, Return
  <2>3. \A u \in Threads \ {t} :
           pc'[u] = IF pc[u] = "parked" /\ job[u].client = job[t].client THEN "asking" ELSE pc[u]
    BY <1>7 DEF EndLoad, EndFailedLoad, MoveOn
  <2>4. \A u \in Threads \ {t} : job'[u] = job[u]
    BY <2>1 DEF JobAfter
  <2>5. QED
    BY <2>1, <2>2, <2>3, <2>4
<1>8. ASSUME NEW t \in Threads,
             \/ MissManifest(t) \/ MissProgram(t) \/ EnterPlugin(t) \/ TakeEntry(t)
             \/ ReadCache(t) \/ Compile(t) \/ LeavePlugin(t) \/ SpuriousWakeup(t)
      PROVE  Covered
  <2>1. inFlight' = inFlight /\ job' = job
    BY <1>8 DEF MissManifest, MissProgram, EnterPlugin, TakeEntry, ReadCache, Compile,
                LeavePlugin, SpuriousWakeup, marks, load
  <2>2. pc' = pc \/ \E l \in {"asking", "loading", "entry", "reading", "compiling", "leaving", "aborted"} :
                       pc' = [pc EXCEPT ![t] = l]
    BY <1>8 DEF MissManifest, MissProgram, EnterPlugin, TakeEntry, ReadCache, Compile,
                LeavePlugin, SpuriousWakeup, Goto
  <2>3. QED
    BY <2>1, <2>2
<1>9. ASSUME NEW i \in Instances, ProveStep(i) PROVE Covered
  BY <1>9 DEF ProveStep, StartThread, TakeSlot, EnterProve, EndProve, Goto, marks, load
<1>10. QED
  BY <1>2, <1>3, <1>4, <1>5, <1>6, <1>7, <1>8, <1>9 DEF Next, LoadStep

-----------------------------------------------------------------------------
\* A load is past the programs its artifact holds, and hands it out with all
\* of them; only the thread that loads an artifact changes it, before it is
\* ready.
LEMMA ArtifactsStayWhole ==
    ASSUME TypeOK, ThreadsKnowTheirJobs, MarksMatchLoaders, ArtifactsAreWhole, [Next]_vars
    PROVE  ArtifactsAreWhole'
<1> DEFINE InPlugin == {"entry", "reading", "compiling", "leaving"}
           Handed == {"slot wait", "gate wait", "proving"}
<1>1. /\ pc \in [Threads -> LoadLabels \cup {"gone", "idle", "new", "slot wait", "gate wait",
                                           "proving", "done"}]
      /\ job \in [Threads -> Jobs \cup {NoJob}]
      /\ prog \in [Threads -> 1 .. Programs + 1]
      /\ exes \in [Jobs -> SUBSET (1 .. Programs)]
      /\ ready \in SUBSET Jobs
      /\ Workers \subseteq Threads /\ Instances \subseteq Threads
      /\ Programs \in Nat \ {0} /\ Workers \cap Instances = {}
  BY LoadingAssumption DEF TypeOK, Threads, LoadingAssumption
<1>2. ASSUME UNCHANGED <<ready, exes, prog, failed>>,
             \A u \in Threads : (u \in Loaders)' => (u \in Loaders /\ job'[u] = job[u]) \/ prog[u] = 1,
             \A u \in Threads : u \in Loaders => (u \in Loaders)',
             \A u \in Threads : pc'[u] \in InPlugin => prog[u] <= Programs,
             \A i \in Instances : pc'[i] \in Handed => job'[i] \in ready
      PROVE  ArtifactsAreWhole'
  <2>1. \A j \in ready' : exes'[j] = 1 .. Programs
    BY <1>2 DEF ArtifactsAreWhole
  <2>2. ASSUME NEW t \in Loaders', t \notin failed'
        PROVE  1 .. (prog'[t] - 1) \subseteq exes'[job'[t]]
    <3>1. t \in Threads
      BY DEF Loaders
    <3>2. CASE prog[t] = 1
      <4>1. prog'[t] = 1
        BY <1>2, <3>2
      <4>2. 1 .. (1 - 1) = {}
        OBVIOUS
      <4>3. QED
        BY <4>1, <4>2
    <3>3. CASE t \in Loaders /\ job'[t] = job[t]
      <4>1. t \notin failed /\ prog' = prog /\ exes' = exes
        BY <1>2, <2>2
      <4>2. 1 .. (prog[t] - 1) \subseteq exes[job[t]]
        BY <3>3, <4>1 DEF ArtifactsAreWhole
      <4>3. QED
        BY <3>3, <4>1, <4>2
    <3>4. QED
      BY <1>2, <3>1, <3>2, <3>3
  <2>3. \A t \in Threads \ Loaders' : prog'[t] = 1
    BY <1>2 DEF ArtifactsAreWhole
  <2>4. QED
    BY <1>2, <2>1, <2>2, <2>3 DEF ArtifactsAreWhole
<1>3. CASE UNCHANGED vars \/ Finished
  BY <1>3 DEF vars, marks, load, Finished, ArtifactsAreWhole, Loaders
<1>4. CASE StartUp \/ SetPlan
  <2>1. /\ UNCHANGED <<ready, exes, prog, failed, job>>
        /\ \A u \in Threads : pc'[u] = pc[u] \/ (pc[u] = "gone" /\ pc'[u] = "idle")
    BY <1>4 DEF StartUp, SetPlan, Push, marks, load
  <2>2. \A u \in Threads : (u \in Loaders)' <=> u \in Loaders
    BY <2>1 DEF Loaders, LoadLabels
  <2>3. \A u \in Threads : pc'[u] \in InPlugin => prog[u] <= Programs
    BY <2>1 DEF ArtifactsAreWhole
  <2>4. \A i \in Instances : pc'[i] \in Handed => job'[i] \in ready
    BY <1>1, <2>1 DEF ArtifactsAreWhole
  <2>5. QED
    BY <1>2, <2>1, <2>2, <2>3, <2>4
<1>5. ASSUME NEW w \in Workers, TakeWork(w) PROVE ArtifactsAreWhole'
  <2>1. pc[w] = "idle" /\ pc' \in {pc, [pc EXCEPT ![w] = "gone"], [pc EXCEPT ![w] = "asking"]}
    BY <1>5 DEF TakeWork, Goto
  <2>2. \A u \in Threads \ {w} : job'[u] = job[u]
    BY <1>1, <1>5 DEF TakeWork
  <2>3. UNCHANGED <<ready, exes, prog, failed>>
    BY <1>5 DEF TakeWork, marks
  <2>4. \A u \in Threads : (u \in Loaders)' <=> u \in Loaders
    BY <1>1, <2>1 DEF Loaders, LoadLabels
  <2>5. \A u \in Loaders : u # w
    BY <2>1 DEF Loaders, LoadLabels
  <2>6. \A i \in Instances : i # w /\ pc'[i] = pc[i] /\ job'[i] = job[i]
    BY <1>1, <2>1, <2>2
  <2>7. \A u \in Threads : pc'[u] \in InPlugin => pc[u] \in InPlugin
    BY <1>1, <2>1
  <2>8. QED
    BY <1>1, <1>2, <2>2, <2>3, <2>4, <2>5, <2>6, <2>7 DEF ArtifactsAreWhole
<1>6. ASSUME NEW t \in Threads, AskArtifact(t) PROVE ArtifactsAreWhole'
  <2>1. pc[t] = "asking" /\ UNCHANGED <<ready, exes, prog, failed>>
    BY <1>6 DEF AskArtifact
  <2>2. t \notin Loaders /\ prog[t] = 1
    BY <2>1 DEF Loaders, LoadLabels, ArtifactsAreWhole
  <2>3. \A u \in Threads \ {t} : pc'[u] = pc[u] /\ job'[u] = job[u]
    BY <1>1, <1>6 DEF AskArtifact, Goto, JobAfter
  <2>4. pc'[t] \notin InPlugin
    BY <1>1, <1>6 DEF AskArtifact, Goto, Return
  <2>5. t \in Instances /\ pc'[t] \in Handed => job'[t] \in ready
    BY <1>1, <1>6 DEF AskArtifact, Goto, JobAfter
  <2>6. \A u \in Threads \ {t} : (u \in Loaders)' <=> u \in Loaders
    BY <2>3 DEF Loaders
  <2>7. QED
    BY <1>1, <1>2, <2>1, <2>2, <2>3, <2>4, <2>5, <2>6 DEF ArtifactsAreWhole
<1>7. ASSUME NEW t \in Threads, EndLoad(t) \/ EndFailedLoad(t) PROVE ArtifactsAreWhole'
  <2>1. /\ t \in Loaders /\ job[t] \in Jobs /\ job[t] \in inFlight /\ job[t] \notin ready
    BY <1>7 DEF EndLoad, EndFailedLoad, LoadedWhole, LoadFailed, Loaders, LoadLabels,
                MarksMatchLoaders, ThreadsKnowTheirJobs
  <2>2. /\ prog' = [prog EXCEPT ![t] = 1] /\ failed' = failed \ {t}
        /\ pc'[t] \in {"idle", "slot wait", "done"}
        /\ \A u \in Threads \ {t} : pc'[u] = pc[u] \/ (pc[u] = "parked" /\ pc'[u] = "asking")
        /\ \A u \in Threads \ {t} : job'[u] = job[u]
    BY <1>1, <1>7 DEF EndLoad, EndFailedLoad, MoveOn, Return, JobAfter
  <2>3. /\ t \notin Loaders'
        /\ \A u \in Threads \ {t} : (u \in Loaders)' <=> u \in Loaders
    BY <2>2 DEF Loaders, LoadLabels
  <2>4. /\ \A u \in Loaders \ {t} : exes'[job[u]] = exes[job[u]]
        /\ \A j \in ready : exes'[j] = exes[j]
    <3>1. exes' = exes \/ exes' = [exes EXCEPT ![job[t]] = {}]
      BY <1>7 DEF EndLoad, EndFailedLoad
    <3>2. \A u \in Loaders \ {t} : job[u] # job[t] /\ job[u] \in Jobs
      BY <2>1 DEF MarksMatchLoaders, ThreadsKnowTheirJobs, Loaders, LoadLabels
    <3>3. QED
      BY <1>1, <2>1, <3>1, <3>2
  <2>5. \A j \in ready' : exes'[j] = 1 .. Programs
    <3>1. CASE EndLoad(t)
      <4>1. ready' = ready \cup {job[t]} /\ exes' = exes
        BY <3>1 DEF EndLoad
      <4>2. prog[t] = Programs + 1 /\ t \notin failed
        <5>1. prog[t] > Programs /\ t \notin failed
          BY <3>1 DEF EndLoad, LoadedWhole
        <5>2. prog[t] \in 1 .. Programs + 1 /\ Programs \in Nat
          BY <1>1
        <5>3. prog[t] = Programs + 1
          BY <5>1, <5>2
        <5>4. QED
          BY <5>1, <5>3
      <4>3. 1 .. (prog[t] - 1) \subseteq exes[job[t]]
        BY <2>1, <4>2 DEF ArtifactsAreWhole
      <4>4. 1 .. (prog[t] - 1) = 1 .. Programs
        <5>1. Programs \in Nat
          BY <1>1
        <5>2. prog[t] - 1 = Programs
          BY <4>2, <5>1
        <5>3. QED
          BY <5>2
      <4>5. exes[job[t]] = 1 .. Programs
        <5>1. exes[job[t]] \subseteq 1 .. Programs
          BY <1>1, <2>1
        <5>2. QED
          BY <4>3, <4>4, <5>1
      <4>6. QED
        BY <4>1, <4>5 DEF ArtifactsAreWhole
    <3>2. CASE EndFailedLoad(t)
      <4>1. ready' = ready
        BY <3>2 DEF EndFailedLoad
      <4>2. QED
        BY <2>4, <4>1 DEF ArtifactsAreWhole
    <3>3. QED
      BY <1>7, <3>1, <3>2
  <2>6. \A i \in Instances : pc'[i] \in Handed => job'[i] \in ready'
    <3>1. ready \subseteq ready'
      BY <1>7 DEF EndLoad, EndFailedLoad
    <3>2. ASSUME t \in Instances, pc'[t] \in Handed PROVE job'[t] \in ready'
      <4>1. CASE EndLoad(t)
        BY <1>1, <3>2, <4>1 DEF EndLoad, MoveOn, JobAfter
      <4>2. CASE EndFailedLoad(t)
        BY <1>1, <3>2, <4>2 DEF EndFailedLoad, MoveOn, Return
      <4>3. QED
        BY <1>7, <4>1, <4>2
    <3>3. QED
      BY <1>1, <2>2, <3>1, <3>2 DEF ArtifactsAreWhole
  <2>7. \A u \in Loaders' : u \notin failed' => 1 .. (prog'[u] - 1) \subseteq exes'[job'[u]]
    <3>1. \A u \in Loaders' : u \in Loaders \ {t}
      BY <2>3 DEF Loaders
    <3>2. \A u \in Loaders \ {t} : prog'[u] = prog[u] /\ job'[u] = job[u]
      BY <1>1, <2>2 DEF Loaders
    <3>3. \A u \in Loaders \ {t} : u \notin failed => 1 .. (prog[u] - 1) \subseteq exes[job[u]]
      BY DEF ArtifactsAreWhole
    <3>4. \A u \in Loaders \ {t} : u \notin failed' => u \notin failed
      BY <2>2
    <3>5. \A u \in Loaders \ {t} :
             1 .. (prog'[u] - 1) = 1 .. (prog[u] - 1) /\ exes'[job'[u]] = exes[job[u]]
      BY <2>4, <3>2
    <3>6. QED
      BY <3>1, <3>3, <3>4, <3>5
  <2>8. \A u \in Threads \ Loaders' : prog'[u] = 1
    BY <1>1, <2>2, <2>3 DEF ArtifactsAreWhole
  <2>9. \A u \in Threads : pc'[u] \in InPlugin => prog'[u] <= Programs
    BY <1>1, <2>2 DEF ArtifactsAreWhole
  <2>10. QED
    BY <2>5, <2>6, <2>7, <2>8, <2>9 DEF ArtifactsAreWhole
<1>8. ASSUME NEW t \in Threads, MissProgram(t) \/ LeavePlugin(t) PROVE ArtifactsAreWhole'
  <2>1. /\ t \in Loaders /\ job[t] \in Jobs /\ job[t] \notin ready
        /\ job' = job /\ ready' = ready /\ prog[t] <= Programs
        /\ prog' = [prog EXCEPT ![t] = @ + 1]
    BY <1>8 DEF MissProgram, LeavePlugin, Loaders, LoadLabels, MarksMatchLoaders,
                ThreadsKnowTheirJobs, ArtifactsAreWhole, marks
  <2>2. Loaders' = Loaders
    BY <1>1, <1>8 DEF MissProgram, LeavePlugin, Loaders, LoadLabels, Goto
  <2>3. /\ pc'[t] = "loading"
        /\ \A u \in Threads \ {t} : pc'[u] = pc[u]
    BY <1>1, <1>8 DEF MissProgram, LeavePlugin, Goto
  <2>4. \A u \in Loaders \ {t} : job[u] # job[t] /\ job[u] \in Jobs
    BY <2>1 DEF MarksMatchLoaders, ThreadsKnowTheirJobs, Loaders, LoadLabels
  <2>5. /\ \A u \in Loaders \ {t} : exes'[job[u]] = exes[job[u]] /\ prog'[u] = prog[u]
        /\ \A j \in ready : exes'[j] = exes[j]
    <3>1. exes' = exes \/ exes' = [exes EXCEPT ![job[t]] = @ \cup {prog[t]}]
      BY <1>8 DEF MissProgram, LeavePlugin
    <3>2. QED
      BY <1>1, <2>1, <2>4, <3>1 DEF Loaders
  <2>6. t \notin failed' => 1 .. (prog'[t] - 1) \subseteq exes'[job[t]]
    <3>1. CASE MissProgram(t)
      BY <3>1 DEF MissProgram
    <3>2. CASE LeavePlugin(t)
      <4>1. exes'[job[t]] = exes[job[t]] \cup {prog[t]} /\ failed' = failed
        BY <1>1, <2>1, <3>2 DEF LeavePlugin
      <4>2. prog'[t] - 1 = prog[t] /\ prog[t] \in Nat
        <5>1. t \in Threads /\ prog[t] \in 1 .. Programs + 1
          BY <1>1, <2>1
        <5>2. prog'[t] = prog[t] + 1
          BY <1>1, <2>1, <5>1
        <5>3. QED
          BY <5>1, <5>2
      <4>3. t \notin failed => 1 .. (prog[t] - 1) \subseteq exes[job[t]]
        BY <2>1 DEF ArtifactsAreWhole
      <4>4. 1 .. prog[t] \subseteq (1 .. (prog[t] - 1)) \cup {prog[t]}
        BY <4>2
      <4>5. QED
        BY <4>1, <4>2, <4>3, <4>4
    <3>3. QED
      BY <1>8, <3>1, <3>2
  <2>7. \A u \in Loaders' : u \notin failed' => 1 .. (prog'[u] - 1) \subseteq exes'[job'[u]]
    <3>1. failed \subseteq failed'
      BY <1>8 DEF MissProgram, LeavePlugin
    <3>2. QED
      BY <2>1, <2>2, <2>5, <2>6, <3>1 DEF ArtifactsAreWhole
  <2>8. \A u \in Threads \ Loaders' : prog'[u] = 1
    BY <1>1, <2>1, <2>2 DEF ArtifactsAreWhole
  <2>9. \A u \in Threads : pc'[u] \in InPlugin => prog'[u] <= Programs
    BY <1>1, <2>1, <2>3 DEF ArtifactsAreWhole
  <2>10. \A i \in Instances : pc'[i] \in Handed => job'[i] \in ready'
    BY <1>1, <2>1, <2>3 DEF ArtifactsAreWhole
  <2>11. \A j \in ready' : exes'[j] = 1 .. Programs
    BY <2>1, <2>5 DEF ArtifactsAreWhole
  <2>12. QED
    BY <2>7, <2>8, <2>9, <2>10, <2>11 DEF ArtifactsAreWhole
<1>9. ASSUME NEW t \in Threads,
             \/ MissManifest(t) \/ EnterPlugin(t) \/ TakeEntry(t)
             \/ ReadCache(t) \/ Compile(t) \/ SpuriousWakeup(t)
      PROVE  ArtifactsAreWhole'
  <2>1. UNCHANGED <<ready, exes, prog, failed, job>>
    BY <1>9 DEF MissManifest, EnterPlugin, TakeEntry, ReadCache, Compile, SpuriousWakeup,
                marks, load
  <2>2. \/ pc[t] = "parked" /\ pc' = [pc EXCEPT ![t] = "asking"]
        \/ /\ pc[t] \in {"loading", "entry", "reading", "compiling"}
           /\ \E l \in {"entry", "reading", "compiling", "leaving", "aborted"} :
                 pc' = [pc EXCEPT ![t] = l]
    BY <1>9 DEF MissManifest, EnterPlugin, TakeEntry, ReadCache, Compile, SpuriousWakeup, Goto
  <2>3. pc[t] = "loading" /\ pc'[t] \in InPlugin => prog[t] <= Programs
    BY <1>1, <1>9 DEF MissManifest, EnterPlugin, TakeEntry, ReadCache, Compile, SpuriousWakeup, Goto
  <2>4. \A u \in Threads : (u \in Loaders)' <=> u \in Loaders
    BY <1>1, <2>2 DEF Loaders, LoadLabels
  <2>5. \A u \in Threads : pc'[u] \in InPlugin => prog[u] <= Programs
    BY <1>1, <2>2, <2>3 DEF ArtifactsAreWhole
  <2>6. \A i \in Instances : pc'[i] \in Handed => job'[i] \in ready
    BY <1>1, <2>1, <2>2 DEF ArtifactsAreWhole
  <2>7. QED
    BY <1>2, <2>1, <2>4, <2>5, <2>6
<1>10. ASSUME NEW i \in Instances, ProveStep(i) PROVE ArtifactsAreWhole'
  <2>1. UNCHANGED <<ready, exes, prog, failed>>
    BY <1>10 DEF ProveStep, StartThread, TakeSlot, EnterProve, EndProve, marks, load
  <2>2. /\ \/ pc[i] = "new" /\ pc' = [pc EXCEPT ![i] = "asking"]
           \/ pc[i] = "slot wait" /\ pc' = [pc EXCEPT ![i] = "gate wait"] /\ job' = job
           \/ pc[i] = "gate wait" /\ pc' = [pc EXCEPT ![i] = "proving"] /\ job' = job
           \/ pc[i] = "proving" /\ pc' = [pc EXCEPT ![i] = "done"] /\ job' = job
        /\ \A u \in Threads \ {i} : job'[u] = job[u]
    BY <1>1, <1>10 DEF ProveStep, StartThread, TakeSlot, EnterProve, EndProve, Goto, load
  <2>3. \A u \in Threads : (u \in Loaders)' <=> u \in Loaders /\ u # i
    BY <1>1, <2>2 DEF Loaders, LoadLabels
  <2>4. i \notin Loaders
    BY <2>2 DEF Loaders, LoadLabels
  <2>5. \A u \in Threads : pc'[u] \in InPlugin => prog[u] <= Programs
    BY <1>1, <2>2 DEF ArtifactsAreWhole
  <2>6. \A j \in Instances : pc'[j] \in Handed => job'[j] \in ready
    BY <1>1, <2>2 DEF ArtifactsAreWhole
  <2>7. QED
    BY <1>2, <2>1, <2>2, <2>3, <2>4, <2>5, <2>6
<1>11. QED
  BY <1>3, <1>4, <1>5, <1>6, <1>7, <1>8, <1>9, <1>10 DEF Next, LoadStep

-----------------------------------------------------------------------------
\* The lock of a cache file: a thread gets to the file only when no other is
\* there, and stays at the file it took.
LEMMA EntriesStayLocked ==
    ASSUME TypeOK, ThreadsKnowTheirJobs, EntriesAreLocked, [Next]_vars
    PROVE  EntriesAreLocked'
<1> DEFINE AtFile == {"reading", "compiling"}
<1>1. /\ pc \in [Threads -> LoadLabels \cup {"gone", "idle", "new", "slot wait", "gate wait",
                                           "proving", "done"}]
      /\ job \in [Threads -> Jobs \cup {NoJob}]
      /\ prog \in [Threads -> 1 .. Programs + 1]
      /\ Workers \subseteq Threads /\ Instances \subseteq Threads
  BY DEF TypeOK, Threads
<1>2. ASSUME \A u \in Threads : pc'[u] \in AtFile =>
                pc[u] \in AtFile /\ job'[u] = job[u] /\ prog'[u] = prog[u]
      PROVE  EntriesAreLocked'
  BY <1>2 DEF EntriesAreLocked, EntryOf
<1>3. CASE UNCHANGED vars \/ Finished
  BY <1>2, <1>3 DEF vars, load, Finished
<1>4. CASE StartUp \/ SetPlan
  <2>1. /\ UNCHANGED <<prog, job>>
        /\ \A u \in Threads : pc'[u] = pc[u] \/ pc'[u] = "idle"
    BY <1>4 DEF StartUp, SetPlan, Push, load
  <2>2. QED
    BY <1>2, <2>1
<1>5. ASSUME NEW w \in Workers, TakeWork(w) PROVE EntriesAreLocked'
  <2>1. /\ pc[w] = "idle" /\ prog' = prog
        /\ pc' \in {pc, [pc EXCEPT ![w] = "gone"], [pc EXCEPT ![w] = "asking"]}
    BY <1>5 DEF TakeWork, Goto
  <2>2. \A u \in Threads \ {w} : job'[u] = job[u]
    BY <1>1, <1>5 DEF TakeWork
  <2>3. \A u \in Threads : pc'[u] \in AtFile => u # w /\ pc[u] \in AtFile
    BY <1>1, <2>1
  <2>4. QED
    BY <1>2, <2>1, <2>2, <2>3
<1>6. ASSUME NEW t \in Threads, AskArtifact(t) PROVE EntriesAreLocked'
  <2>1. /\ prog' = prog /\ pc'[t] \notin AtFile
        /\ \A u \in Threads \ {t} : pc'[u] = pc[u] /\ job'[u] = job[u]
    BY <1>1, <1>6 DEF AskArtifact, Goto, JobAfter, Return
  <2>2. QED
    BY <1>2, <2>1
<1>7. ASSUME NEW t \in Threads, EndLoad(t) \/ EndFailedLoad(t) PROVE EntriesAreLocked'
  <2>1. /\ pc'[t] \notin AtFile
        /\ \A u \in Threads \ {t} : pc'[u] = pc[u] \/ pc'[u] = "asking"
        /\ \A u \in Threads \ {t} : job'[u] = job[u] /\ prog'[u] = prog[u]
    BY <1>1, <1>7 DEF EndLoad, EndFailedLoad, MoveOn, Return, JobAfter
  <2>2. QED
    BY <1>2, <2>1
<1>8. ASSUME NEW t \in Threads,
             \/ MissManifest(t) \/ MissProgram(t) \/ EnterPlugin(t) \/ ReadCache(t)
             \/ Compile(t) \/ LeavePlugin(t) \/ SpuriousWakeup(t)
      PROVE  EntriesAreLocked'
  <2>1. /\ job' = job /\ \A u \in Threads \ {t} : pc'[u] = pc[u] /\ prog'[u] = prog[u]
        /\ pc'[t] \in AtFile => pc[t] \in AtFile /\ prog'[t] = prog[t]
    BY <1>1, <1>8 DEF MissManifest, MissProgram, EnterPlugin, ReadCache, Compile, LeavePlugin,
                      SpuriousWakeup, Goto, load
  <2>2. QED
    BY <1>2, <2>1
<1>9. ASSUME NEW t \in Threads, TakeEntry(t) PROVE EntriesAreLocked'
  <2>1. job' = job /\ prog' = prog /\ pc' = [pc EXCEPT ![t] = "reading"]
    BY <1>9 DEF TakeEntry, Goto, load
  <2>2. \A u \in Threads : pc[u] \in AtFile => EntryOf(u) # EntryOf(t)
    BY <1>9 DEF TakeEntry
  <2>3. \A u \in Threads : EntryOf(u)' = EntryOf(u)
    BY <2>1 DEF EntryOf
  <2>4. \A u \in Threads \ {t} : pc'[u] = pc[u]
    BY <1>1, <2>1
  <2>5. QED
    BY <2>2, <2>3, <2>4 DEF EntriesAreLocked
<1>10. ASSUME NEW i \in Instances, ProveStep(i) PROVE EntriesAreLocked'
  <2>1. /\ prog' = prog /\ pc'[i] \notin AtFile
        /\ \A u \in Threads \ {i} : pc'[u] = pc[u] /\ job'[u] = job[u]
    BY <1>1, <1>10 DEF ProveStep, StartThread, TakeSlot, EnterProve, EndProve, Goto, load
  <2>2. QED
    BY <1>1, <1>2, <2>1
<1>11. QED
  BY <1>3, <1>4, <1>5, <1>6, <1>7, <1>8, <1>9, <1>10 DEF Next, LoadStep

-----------------------------------------------------------------------------
\* At the start there is no work, no mark, no artifact, and nobody at a file.
LEMMA InitEstablishes == ASSUME Init PROVE IInv
<1>1. TypeOK
  <2>1. Cardinality(Workers) \in Nat
    BY FS_CardinalityType, LoadingAssumption DEF LoadingAssumption
  <2>2. <<>> \in Seq([client : Clients, key : Keys, first : BOOLEAN])
    OBVIOUS
  <2>3. 1 \in 1 .. Programs + 1
    BY LoadingAssumption DEF LoadingAssumption
  <2>4. pc \in [Threads -> {"gone", "new"}]
    BY DEF Init
  <2>5. QED
    BY <2>1, <2>2, <2>3, <2>4 DEF Init, TypeOK
<1>2. \A t \in Threads : pc[t] \in {"gone", "new"} /\ prog[t] = 1
  BY DEF Init
<1>3. \A w \in Workers : pc[w] = "gone"
  BY DEF Init, Threads
<1>4. \A i \in Instances : pc[i] = "new"
  BY LoadingAssumption DEF Init, Threads, LoadingAssumption
<1>5. Loaders = {}
  BY <1>2 DEF Loaders, LoadLabels
<1>6. MarksMatchLoaders
  <2>1. {job[t] : t \in Loaders} = {}
    BY <1>5
  <2>2. QED
    BY <1>5, <2>1 DEF Init, MarksMatchLoaders
<1>7. WorkIsNeverStranded
  <2>1. {w \in Workers : pc[w] # "gone"} = {}
    BY <1>3
  <2>2. QED
    BY <2>1, FS_EmptySet DEF Init, WorkIsNeverStranded
<1>8. ThreadsKnowTheirJobs
  BY <1>2, <1>3, <1>4 DEF ThreadsKnowTheirJobs
<1>9. SleepersHaveALoader /\ EntriesAreLocked
  BY <1>2 DEF SleepersHaveALoader, EntriesAreLocked
<1>10. ArtifactsAreWhole
  BY <1>2, <1>4, <1>5 DEF Init, ArtifactsAreWhole
<1>11. QED
  BY <1>1, <1>6, <1>7, <1>8, <1>9, <1>10 DEF IInv


\* Every step keeps the inductive invariant, part by part.
LEMMA StepKeeps == ASSUME IInv, [Next]_vars PROVE IInv'
<1>1. WorkIsNeverStranded'
  BY WorkersStayCounted DEF IInv
<1>2. ThreadsKnowTheirJobs'
  BY JobsStayKnown DEF IInv
<1>3. MarksMatchLoaders'
  BY MarksStayMatched DEF IInv
<1>4. SleepersHaveALoader'
  BY SleepersStayCovered DEF IInv
<1>5. TypeOK'
  BY <1>1, TypesHold DEF IInv
<1>6. ArtifactsAreWhole'
  BY ArtifactsStayWhole DEF IInv
<1>7. EntriesAreLocked'
  BY EntriesStayLocked DEF IInv
<1>8. QED
  BY <1>1, <1>2, <1>3, <1>4, <1>5, <1>6, <1>7 DEF IInv

\* Whatever fails or panics, and however many clients, AIRs, workers and prove
\* threads there are: the marks of Loaded are the loads under way, no thread
\* sleeps for a load that nobody does, work on the list has a worker, an
\* artifact that is ready holds every program (Bridge::artifact, PreloadQueue).
THEOREM LoadingInvariant == Spec => []IInv
<1>1. Init => IInv
  BY InitEstablishes
<1>2. IInv /\ [Next]_vars => IInv'
  BY StepKeeps
<1>3. QED
  BY <1>1, <1>2, PTL DEF Spec

\* No AIR is loaded to a client twice at once, or again once it is there
\* (Bridge::artifact).
THEOREM LoadingOneLoadPerAir == Spec => []MarksMatchLoaders
<1>1. IInv => MarksMatchLoaders
  BY DEF IInv
<1>2. QED
  BY <1>1, LoadingInvariant, PTL

\* Whoever sleeps on a client's artifacts sleeps for a load that somebody does
\* (Bridge::artifact).
THEOREM LoadingSleepersHaveALoader == Spec => []SleepersHaveALoader
<1>1. IInv => SleepersHaveALoader
  BY DEF IInv
<1>2. QED
  BY <1>1, LoadingInvariant, PTL

\* The count of workers is that of the threads, and work never lies on a list
\* without one (PreloadQueue::push and take).
THEOREM LoadingStrandsNoWork == Spec => []WorkIsNeverStranded
<1>1. IInv => WorkIsNeverStranded
  BY DEF IInv
<1>2. QED
  BY <1>1, LoadingInvariant, PTL

\* A prove at the gate has every program of its AIR: it never loads one under
\* its own pass of the gate, where it would wait for itself (Bridge::artifact).
THEOREM LoadingFindsPrograms == Spec => []ProvesFindTheirPrograms
<1>1. IInv => ProvesFindTheirPrograms
  BY DEF IInv, ArtifactsAreWhole, ProvesFindTheirPrograms
<1>2. QED
  BY <1>1, LoadingInvariant, PTL

\* Nobody compiles a program whose file the cache has, however many clients
\* and threads ask for it at once (Artifact::executable).
THEOREM LoadingCompilesOnce == Spec => []NothingIsCompiledTwice
<1>1. Init => NothingIsCompiledTwice
  BY DEF Init, NothingIsCompiledTwice
<1>2. ASSUME IInv, NothingIsCompiledTwice, [Next]_vars PROVE NothingIsCompiledTwice'
  <2>1. /\ pc \in [Threads -> LoadLabels \cup {"gone", "idle", "new", "slot wait", "gate wait",
                                             "proving", "done"}]
        /\ job \in [Threads -> Jobs \cup {NoJob}]
        /\ prog \in [Threads -> 1 .. Programs + 1]
        /\ cache \in [Entries -> {"absent", "good", "stale"}]
        /\ Workers \subseteq Threads /\ Instances \subseteq Threads
    BY <1>2 DEF IInv, TypeOK, Threads
  <2>2. ASSUME cache' = cache,
               \A u \in Threads : pc'[u] = "compiling" =>
                  pc[u] = "compiling" /\ job'[u] = job[u] /\ prog'[u] = prog[u]
        PROVE  NothingIsCompiledTwice'
    BY <1>2, <2>2 DEF NothingIsCompiledTwice, EntryOf
  <2>3. CASE UNCHANGED vars \/ Finished
    BY <2>2, <2>3 DEF vars, load, Finished
  <2>4. CASE StartUp \/ SetPlan
    <3>1. /\ UNCHANGED <<prog, job, cache>>
          /\ \A u \in Threads : pc'[u] = pc[u] \/ pc'[u] = "idle"
      BY <2>4 DEF StartUp, SetPlan, Push, load
    <3>2. QED
      BY <2>2, <3>1
  <2>5. ASSUME NEW w \in Workers, TakeWork(w) PROVE NothingIsCompiledTwice'
    <3>1. /\ pc[w] = "idle" /\ prog' = prog /\ cache' = cache
          /\ pc' \in {pc, [pc EXCEPT ![w] = "gone"], [pc EXCEPT ![w] = "asking"]}
      BY <2>5 DEF TakeWork, Goto
    <3>2. \A u \in Threads \ {w} : job'[u] = job[u]
      BY <2>1, <2>5 DEF TakeWork
    <3>3. \A u \in Threads : pc'[u] = "compiling" => u # w /\ pc[u] = "compiling"
      BY <2>1, <3>1
    <3>4. QED
      BY <2>2, <3>1, <3>2, <3>3
  <2>6. ASSUME NEW t \in Threads, AskArtifact(t) PROVE NothingIsCompiledTwice'
    <3>1. /\ prog' = prog /\ cache' = cache /\ pc'[t] # "compiling"
          /\ \A u \in Threads \ {t} : pc'[u] = pc[u] /\ job'[u] = job[u]
      BY <2>1, <2>6 DEF AskArtifact, Goto, JobAfter, Return
    <3>2. QED
      BY <2>2, <3>1
  <2>7. ASSUME NEW t \in Threads, EndLoad(t) \/ EndFailedLoad(t) PROVE NothingIsCompiledTwice'
    <3>1. /\ cache' = cache /\ pc'[t] # "compiling"
          /\ \A u \in Threads \ {t} : pc'[u] = pc[u] \/ pc'[u] = "asking"
          /\ \A u \in Threads \ {t} : job'[u] = job[u] /\ prog'[u] = prog[u]
      BY <2>1, <2>7 DEF EndLoad, EndFailedLoad, MoveOn, Return, JobAfter
    <3>2. QED
      BY <2>2, <3>1
  <2>8. ASSUME NEW t \in Threads,
               \/ MissManifest(t) \/ MissProgram(t) \/ EnterPlugin(t) \/ TakeEntry(t)
               \/ LeavePlugin(t) \/ SpuriousWakeup(t)
        PROVE  NothingIsCompiledTwice'
    <3>1. /\ job' = job /\ cache' = cache /\ pc'[t] # "compiling"
          /\ \A u \in Threads \ {t} : pc'[u] = pc[u] /\ prog'[u] = prog[u]
      BY <2>1, <2>8 DEF MissManifest, MissProgram, EnterPlugin, TakeEntry, LeavePlugin,
                        SpuriousWakeup, Goto, load
    <3>2. QED
      BY <2>2, <3>1
  <2>9. ASSUME NEW t \in Threads, ReadCache(t) \/ Compile(t) PROVE NothingIsCompiledTwice'
    <3>1. /\ job' = job /\ prog' = prog /\ pc[t] \in {"reading", "compiling"}
          /\ \A u \in Threads \ {t} : pc'[u] = pc[u]
      BY <2>1, <2>9 DEF ReadCache, Compile, Goto, load
    <3>2. ASSUME NEW u \in Threads, pc[u] \in {"reading", "compiling"} PROVE EntryOf(u) \in Entries
      <4>1. job[u] \in Jobs /\ prog[u] <= Programs
        BY <1>2, <3>2 DEF IInv, ThreadsKnowTheirJobs, ArtifactsAreWhole
      <4>2. prog[u] \in 1 .. Programs + 1 /\ Programs \in Nat
        BY <2>1, LoadingAssumption DEF LoadingAssumption
      <4>3. prog[u] \in 1 .. Programs
        BY <4>1, <4>2
      <4>4. job[u].key \in Keys
        BY <4>1 DEF Jobs
      <4>5. QED
        BY <4>3, <4>4 DEF EntryOf, Entries
    <3>3. \A u \in Threads : EntryOf(u)' = EntryOf(u)
      BY <3>1 DEF EntryOf
    <3>4. ASSUME NEW u \in Threads \ {t}, pc'[u] = "compiling" PROVE cache'[EntryOf(u)] # "good"
      <4>1. pc[u] = "compiling" /\ cache[EntryOf(u)] # "good"
        BY <1>2, <3>1, <3>4 DEF NothingIsCompiledTwice
      <4>2. EntryOf(u) # EntryOf(t)
        BY <1>2, <3>1, <3>4, <4>1 DEF IInv, EntriesAreLocked
      <4>3. cache' = cache \/ \E v : cache' = [cache EXCEPT ![EntryOf(t)] = v]
        BY <2>9 DEF ReadCache, Compile
      <4>4. cache'[EntryOf(u)] = cache[EntryOf(u)]
        <5>1. EntryOf(u) \in Entries
          BY <3>2, <4>1
        <5>2. QED
          BY <2>1, <4>2, <4>3, <5>1
      <4>5. QED
        BY <4>1, <4>4
    <3>5. pc'[t] = "compiling" => cache'[EntryOf(t)] # "good"
      <4>1. CASE ReadCache(t)
        BY <2>1, <3>1, <3>2, <4>1 DEF ReadCache, Goto
      <4>2. CASE Compile(t)
        BY <2>1, <4>2 DEF Compile, Goto
      <4>3. QED
        BY <2>9, <4>1, <4>2
    <3>6. QED
      BY <3>3, <3>4, <3>5 DEF NothingIsCompiledTwice
  <2>10. ASSUME NEW i \in Instances, ProveStep(i) PROVE NothingIsCompiledTwice'
    <3>1. /\ prog' = prog /\ cache' = cache /\ pc'[i] # "compiling"
          /\ \A u \in Threads \ {i} : pc'[u] = pc[u] /\ job'[u] = job[u]
      BY <2>1, <2>10 DEF ProveStep, StartThread, TakeSlot, EnterProve, EndProve, Goto, load
    <3>2. QED
      BY <2>1, <2>2, <3>1
  <2>11. QED
    BY <1>2, <2>3, <2>4, <2>5, <2>6, <2>7, <2>8, <2>9, <2>10 DEF Next, LoadStep
<1>3. QED
  BY <1>1, <1>2, LoadingInvariant, PTL DEF Spec

\* Both at once, over any number of clients, AIRs, programs and threads.
THEOREM LoadingProgramsAreThereOnce == Spec => []ProgramsAreThereOnce
<1>1. NothingIsCompiledTwice /\ ProvesFindTheirPrograms => ProgramsAreThereOnce
  BY DEF ProgramsAreThereOnce
<1>2. QED
  BY <1>1, LoadingCompilesOnce, LoadingFindsPrograms, PTL

\* A load gets no program into the plugin while a prove of its client waits at
\* the gate, so the prove waits for those in flight as it came, whatever AIRs
\* they are of (Artifact::executable drops its pass with each program).
THEOREM LoadingLetsProvesIn == Spec => OnlyProgramsInFlightPrecedeAProve
<1> DEFINE Narrows == \A i \in Instances :
              pc[i] = "gate wait" =>
                  ProgramsInPlugin(job[i].client)' \subseteq ProgramsInPlugin(job[i].client)
           InPlugin == {"entry", "reading", "compiling", "leaving"}
<1>1. ASSUME IInv, Next PROVE Narrows
  <2>1. /\ pc \in [Threads -> LoadLabels \cup {"gone", "idle", "new", "slot wait", "gate wait",
                                             "proving", "done"}]
        /\ job \in [Threads -> Jobs \cup {NoJob}]
        /\ prog \in [Threads -> 1 .. Programs + 1]
        /\ Workers \subseteq Threads /\ Instances \subseteq Threads
    BY <1>1 DEF IInv, TypeOK, Threads
  <2>2. SUFFICES ASSUME NEW i \in Instances, pc[i] = "gate wait"
                 PROVE  ProgramsInPlugin(job[i].client)' \subseteq ProgramsInPlugin(job[i].client)
    OBVIOUS
  <2>3. ASSUME job'[i] = job[i],
               \A u \in Threads : pc'[u] \in InPlugin =>
                  pc[u] \in InPlugin /\ job'[u] = job[u] /\ prog'[u] = prog[u]
        PROVE  ProgramsInPlugin(job[i].client)' \subseteq ProgramsInPlugin(job[i].client)
    <3>1. \A u \in Threads : u \in LoadPasses(job[i].client)'
             => u \in LoadPasses(job[i].client) /\ prog'[u] = prog[u]
      BY <2>3 DEF LoadPasses
    <3>2. LoadPasses(job[i].client)' \subseteq Threads
      BY DEF LoadPasses
    <3>3. QED
      BY <3>1, <3>2 DEF ProgramsInPlugin
  <2>4. CASE StartUp \/ SetPlan
    <3>1. /\ UNCHANGED <<prog, job>>
          /\ \A u \in Threads : pc'[u] = pc[u] \/ pc'[u] = "idle"
      BY <2>4 DEF StartUp, SetPlan, Push, load
    <3>2. QED
      BY <2>3, <3>1
  <2>5. ASSUME NEW w \in Workers, TakeWork(w)
        PROVE  ProgramsInPlugin(job[i].client)' \subseteq ProgramsInPlugin(job[i].client)
    <3>1. /\ pc[w] = "idle" /\ prog' = prog
          /\ pc' \in {pc, [pc EXCEPT ![w] = "gone"], [pc EXCEPT ![w] = "asking"]}
      BY <2>5 DEF TakeWork, Goto
    <3>2. \A u \in Threads \ {w} : job'[u] = job[u]
      BY <2>1, <2>5 DEF TakeWork
    <3>3. \A u \in Threads : pc'[u] \in InPlugin => u # w /\ pc[u] \in InPlugin
      BY <2>1, <3>1
    <3>4. QED
      BY <2>1, <2>2, <2>3, <3>1, <3>2, <3>3
  <2>6. ASSUME NEW t \in Threads, AskArtifact(t)
        PROVE  ProgramsInPlugin(job[i].client)' \subseteq ProgramsInPlugin(job[i].client)
    <3>1. /\ prog' = prog /\ pc'[t] \notin InPlugin /\ pc[t] = "asking"
          /\ \A u \in Threads \ {t} : pc'[u] = pc[u] /\ job'[u] = job[u]
      BY <2>1, <2>6 DEF AskArtifact, Goto, JobAfter, Return
    <3>2. QED
      BY <2>1, <2>2, <2>3, <3>1
  <2>7. ASSUME NEW t \in Threads, EndLoad(t) \/ EndFailedLoad(t)
        PROVE  ProgramsInPlugin(job[i].client)' \subseteq ProgramsInPlugin(job[i].client)
    <3>1. /\ pc[t] \in {"loading", "aborted"} /\ pc'[t] \notin InPlugin
          /\ \A u \in Threads \ {t} : pc'[u] = pc[u] \/ pc'[u] = "asking"
          /\ \A u \in Threads \ {t} : job'[u] = job[u] /\ prog'[u] = prog[u]
      BY <2>1, <2>7 DEF EndLoad, EndFailedLoad, LoadedWhole, LoadFailed, MoveOn, Return, JobAfter
    <3>2. QED
      BY <2>1, <2>2, <2>3, <3>1
  <2>8. ASSUME NEW t \in Threads,
               \/ MissManifest(t) \/ MissProgram(t) \/ TakeEntry(t) \/ ReadCache(t)
               \/ Compile(t) \/ LeavePlugin(t) \/ SpuriousWakeup(t)
        PROVE  ProgramsInPlugin(job[i].client)' \subseteq ProgramsInPlugin(job[i].client)
    <3>1. /\ job' = job /\ \A u \in Threads \ {t} : pc'[u] = pc[u] /\ prog'[u] = prog[u]
          /\ pc'[t] \in InPlugin => pc[t] \in InPlugin /\ prog'[t] = prog[t]
      BY <2>1, <2>8 DEF MissManifest, MissProgram, TakeEntry, ReadCache, Compile, LeavePlugin,
                        SpuriousWakeup, Goto, load
    <3>2. QED
      BY <2>3, <3>1
  <2>9. ASSUME NEW t \in Threads, EnterPlugin(t)
        PROVE  ProgramsInPlugin(job[i].client)' \subseteq ProgramsInPlugin(job[i].client)
    <3>1. job[t].client # job[i].client
      BY <2>2, <2>9 DEF EnterPlugin, ProvesAtGate
    <3>2. job' = job /\ prog' = prog /\ \A u \in Threads \ {t} : pc'[u] = pc[u]
      BY <2>1, <2>9 DEF EnterPlugin, Goto, load
    <3>3. LoadPasses(job[i].client)' \subseteq LoadPasses(job[i].client)
      BY <3>1, <3>2 DEF LoadPasses
    <3>4. QED
      BY <3>2, <3>3 DEF ProgramsInPlugin
  <2>10. ASSUME NEW j \in Instances, ProveStep(j)
        PROVE  ProgramsInPlugin(job[i].client)' \subseteq ProgramsInPlugin(job[i].client)
    <3>1. /\ prog' = prog /\ pc'[j] \notin InPlugin /\ (pc[j] = "new" \/ job'[j] = job[j])
          /\ \A u \in Threads \ {j} : pc'[u] = pc[u] /\ job'[u] = job[u]
      BY <2>1, <2>10 DEF ProveStep, StartThread, TakeSlot, EnterProve, EndProve, Goto, load
    <3>2. QED
      BY <2>1, <2>2, <2>3, <3>1
  <2>11. CASE Finished
    BY <2>3, <2>11 DEF Finished, vars, load
  <2>12. QED
    BY <1>1, <2>4, <2>5, <2>6, <2>7, <2>8, <2>9, <2>10, <2>11 DEF Next, LoadStep
<1>2. IInv /\ [Next]_vars => [Narrows]_vars
  BY <1>1
<1>3. QED
  BY <1>2, LoadingInvariant, PTL DEF Spec, OnlyProgramsInFlightPrecedeAProve

-----------------------------------------------------------------------------
(* A cache entry between processes.                                        *)

\* The types hold at first and through every step.
LEMMA CacheTypesHold == (CacheInit => CacheTypeOK) /\ (CacheTypeOK /\ [CacheNext]_cacheVars => CacheTypeOK')
<1>1. ASSUME CacheInit PROVE CacheTypeOK
  BY <1>1, CacheAssumption DEF CacheInit, CacheTypeOK, Contents, CacheAssumption
<1>2. ASSUME CacheTypeOK, [CacheNext]_cacheVars PROVE CacheTypeOK'
  <2> USE <1>2, CacheAssumption DEF CacheTypeOK, CacheAssumption, Contents, StepTo, SetTemp, Temp, TempOf
  <2>1. CASE UNCHANGED cacheVars
    BY <2>1 DEF cacheVars
  <2>2. ASSUME NEW p \in Procs, Start(p) PROVE CacheTypeOK'
    BY <2>2 DEF Start
  <2>3. ASSUME NEW p \in Procs, Kill(p) PROVE CacheTypeOK'
    BY <2>3 DEF Kill
  <2>4. ASSUME NEW p \in Procs, Read(p) PROVE CacheTypeOK'
    BY <2>4 DEF Read
  <2>5. ASSUME NEW p \in Procs, Deserialize(p) \/ Remove(p) \/ CompileProgram(p) PROVE CacheTypeOK'
    BY <2>5 DEF Deserialize, Remove, CompileProgram
  <2>6. ASSUME NEW p \in Procs, OpenTemp(p) \/ FillTemp(p) PROVE CacheTypeOK'
    BY <2>6 DEF OpenTemp, FillTemp
  <2>7. ASSUME NEW p \in Procs, Rename(p) \/ Clean(p) PROVE CacheTypeOK'
    BY <2>7 DEF Rename, Clean
  <2>8. QED
    BY <2>1, <2>2, <2>3, <2>4, <2>5, <2>6, <2>7 DEF CacheNext, Work
<1>3. QED
  BY <1>1, <1>2

\* Ids are given out to differ, and no step of a live process changes one.
LEMMA PidsStayDifferent ==
    ASSUME CacheTypeOK, LivePidsDiffer, [CacheNext]_cacheVars
    PROVE  LivePidsDiffer'
<1> USE DEF LivePidsDiffer, CacheTypeOK, StepTo
<1>1. CASE UNCHANGED cacheVars
  BY <1>1 DEF cacheVars
<1>2. ASSUME NEW p \in Procs, Start(p) PROVE LivePidsDiffer'
  BY <1>2 DEF Start
<1>3. ASSUME NEW p \in Procs, Kill(p) \/ Read(p) \/ Work(p) PROVE LivePidsDiffer'
  <2>1. pid' = pid
    BY <1>3 DEF Kill, Read, Work, Deserialize, Remove, CompileProgram, OpenTemp, FillTemp, Rename, Clean
  <2>2. \A q \in Procs : step'[q] # "down" => step[q] # "down"
    BY <1>3 DEF Kill, Read, Work, Deserialize, Remove, CompileProgram, OpenTemp, FillTemp, Rename, Clean
  <2>3. QED
    BY <2>1, <2>2
<1>4. QED
  BY <1>1, <1>2, <1>3 DEF CacheNext

\* A process fills its own temporary, and the steps of the others reach
\* temporaries of other names.
LEMMA TempsGetWhole ==
    ASSUME CacheTypeOK, LivePidsDiffer, WholeBeforeRename, [CacheNext]_cacheVars
    PROVE  WholeBeforeRename'
<1> DEFINE Whole(q) ==
      /\ step[q] \in {"writing", "filling", "renaming"} => bytes[q] = KindOf[q]
      /\ step[q] = "renaming" => Temp(q) = KindOf[q]
<1> USE DEF CacheTypeOK, StepTo, SetTemp, Temp, TempOf
<1>1. \A q \in Procs : Whole(q)
  BY DEF WholeBeforeRename
<1>2. CASE UNCHANGED cacheVars
  BY <1>2 DEF cacheVars, WholeBeforeRename
<1>3. ASSUME NEW p \in Procs, NEW q \in Procs,
             Start(p) \/ Kill(p) \/ Read(p) \/ Deserialize(p) \/ Remove(p) \/ CompileProgram(p)
      PROVE  Whole(q)'
  <2>1. CASE Start(p)
    BY <1>1, <2>1 DEF Start
  <2>2. CASE Kill(p)
    BY <1>1, <2>2 DEF Kill
  <2>3. CASE Read(p) \/ Deserialize(p) \/ Remove(p) \/ CompileProgram(p)
    BY <1>1, <2>3 DEF Read, Deserialize, Remove, CompileProgram
  <2>4. QED
    BY <1>3, <2>1, <2>2, <2>3
<1>4. ASSUME NEW p \in Procs, NEW q \in Procs,
             OpenTemp(p) \/ FillTemp(p) \/ Rename(p) \/ Clean(p)
      PROVE  Whole(q)'
  <2>1. p # q /\ step[q] = "renaming" => pid[p] # pid[q]
    BY <1>4 DEF OpenTemp, FillTemp, Rename, Clean, LivePidsDiffer
  <2>2. CASE OpenTemp(p)
    BY <1>1, <2>1, <2>2 DEF OpenTemp
  <2>3. CASE FillTemp(p)
    BY <1>1, <2>1, <2>3 DEF FillTemp
  <2>4. CASE Rename(p)
    BY <1>1, <2>1, <2>4 DEF Rename
  <2>5. CASE Clean(p)
    BY <1>1, <2>1, <2>5 DEF Clean
  <2>6. QED
    BY <1>4, <2>2, <2>3, <2>4, <2>5
<1>5. QED
  BY <1>2, <1>3, <1>4 DEF CacheNext, Work, WholeBeforeRename

\* Types, ids and the temporaries about to be renamed are as they should be in
\* every state the processes reach, whoever is killed.
THEOREM CacheInvariant == CacheSpec => []CacheIInv
<1>1. CacheInit => CacheIInv
  BY CacheTypesHold DEF CacheInit, CacheIInv, LivePidsDiffer, WholeBeforeRename
<1>2. CacheIInv /\ [CacheNext]_cacheVars => CacheIInv'
  BY CacheTypesHold, PidsStayDifferent, TempsGetWhole DEF CacheIInv
<1>3. QED
  BY <1>1, <1>2, PTL DEF CacheSpec

\* Only a rename gives the entry new contents, and it renames a whole file:
\* whoever is killed between two steps, a write cut short stays a temporary.
THEOREM EntryStaysWhole == CacheSpec => EntryIsNeverTorn
<1>1. CacheIInv /\ [CacheNext]_cacheVars => [entry' = Torn => entry = Torn]_cacheVars
  <2> SUFFICES ASSUME CacheIInv, [CacheNext]_cacheVars, entry' = Torn
               PROVE  entry = Torn
    OBVIOUS
  <2>1. CASE UNCHANGED cacheVars
    BY <2>1 DEF cacheVars
  <2>2. ASSUME NEW p \in Procs, Rename(p) PROVE entry = Torn
    <3>1. Temp(p) # Torn
      BY <2>2, CacheAssumption DEF Rename, CacheIInv, WholeBeforeRename, CacheTypeOK, CacheAssumption
    <3>2. QED
      BY <2>2, <3>1 DEF Rename
  <2>3. ASSUME NEW p \in Procs, Remove(p) PROVE entry = Torn
    BY <2>3, CacheAssumption DEF Remove, CacheAssumption
  <2>4. ASSUME NEW p \in Procs, Start(p) \/ Kill(p) \/ Read(p) \/ Deserialize(p) \/ CompileProgram(p)
                                \/ OpenTemp(p) \/ FillTemp(p) \/ Clean(p)
        PROVE  entry = Torn
    BY <2>4 DEF Start, Kill, Read, Deserialize, CompileProgram, OpenTemp, FillTemp, Clean
  <2>5. QED
    BY <2>1, <2>2, <2>3, <2>4 DEF CacheNext, Work
<1>2. QED
  BY <1>1, CacheInvariant, PTL DEF CacheSpec, EntryIsNeverTorn
=============================================================================
