------------------------------- MODULE Loading -------------------------------
(***************************************************************************)
(* How the programs of an AIR get onto a client: `Loaded`, `PreloadQueue`, *)
(* `Bridge::artifact`, `preload_with`, `set_plan` and `slot_index` of      *)
(* bridge/src/lib.rs, `Artifact::compile_all`, `executable` and            *)
(* `CacheEntryLock` of bridge/src/artifact.rs.                             *)
(*                                                                         *)
(* Preload workers and prove threads load programs, one at a time through  *)
(* the client's gate (used here as module PluginExclusion describes it)    *)
(* and one at a time per file of the executable cache, which all clients   *)
(* of the process share.  The passes of the gate, the lock of a slot and   *)
(* the locks of the cache entries are guards that drop with the scope they *)
(* are taken in, so `pc` says who holds them.                              *)
(***************************************************************************)
EXTENDS Naturals, Sequences, FiniteSets

CONSTANTS
    NumClients,   \* Bridge::clients
    Keys,         \* `<Air>_n<nBits>` directories
    Programs,     \* programs in each AIR's manifest
    Workers,      \* names of the preload threads: ZZ_PRELOAD_THREADS of them
    Instances,    \* instances handed over, each proved once by its own thread
    KeyOf,        \* KeyOf[i]: OwnedRequest::key of i
    HomeOf,       \* HomeOf[i]: stream_id % n, or instance_id % n
    Streamed,     \* the instances with a stream_id
    StartKeys,    \* the AIRs Bridge::global preloads (a sequence), ...
    StartFirst,   \* ... as requested (.last-used) or in the background (all)
    PlanKeys,     \* the AIRs of proofman's plan, each once (a sequence)
    Faults,       \* the failures that may happen
    NoJob

Clients == 0 .. NumClients - 1
Jobs == [client : Clients, key : Keys]
Entries == Keys \X (1 .. Programs)
Threads == Workers \cup Instances
FaultKinds == {"manifest", "program", "compile", "write"}

ASSUME LoadingAssumption ==
    /\ NumClients \in Nat \ {0} /\ Programs \in Nat \ {0}
    /\ IsFiniteSet(Workers) /\ Workers # {} /\ IsFiniteSet(Instances)
    /\ Workers \cap Instances = {}
    /\ KeyOf \in [Instances -> Keys] /\ HomeOf \in [Instances -> Clients]
    /\ Streamed \subseteq Instances
    /\ StartKeys \in Seq(Keys) /\ PlanKeys \in Seq(Keys) /\ StartFirst \in BOOLEAN
    /\ Faults \subseteq FaultKinds
    /\ NoJob \notin Jobs

VARIABLES
    phase,     \* "start", "up" once Bridge::global is done, "planned"
    work,      \* PreloadQueue.work
    workers,   \* PreloadQueue.workers
    ready,     \* Loaded.ready, of all clients
    inFlight,  \* Loaded.in_flight, of all clients
    cache,     \* the file of each cache entry: "absent", "good" or "stale"
    started,   \* the clients that have started proving
    job,       \* the client and AIR each thread is busy with
    prog,      \* the program each loading thread is at
    failed,    \* the loads that missed a program already (each_parallel)
    exes,      \* Artifact.exes: the programs each artifact holds, by number
    pc

queue == <<phase, work, workers>>
marks == <<ready, inFlight>>
load == <<job, prog, failed>>
vars == <<queue, marks, cache, started, exes, load, pc>>

Init ==
    /\ phase = "start" /\ work = <<>> /\ workers = 0
    /\ ready = {} /\ inFlight = {} /\ started = {} /\ failed = {}
    /\ cache \in [Entries -> {"absent", "good", "stale"}]
    /\ exes = [j \in Jobs |-> {}]
    /\ job = [t \in Threads |-> NoJob]
    /\ prog = [t \in Threads |-> 1]
    /\ pc = [t \in Threads |-> IF t \in Workers THEN "gone" ELSE "new"]

Goto(t, label) == pc' = [pc EXCEPT ![t] = label]

-----------------------------------------------------------------------------
\* The work list and its workers.

\* preload_with: every client's copy of the keys, client by client.
BatchOf(keys, first) ==
    [n \in 1 .. NumClients * Len(keys) |->
        [client |-> (n - 1) \div Len(keys),
         key    |-> keys[((n - 1) % Len(keys)) + 1],
         first  |-> first]]

\* PreloadQueue::push, and the threads it asks for.
Push(keys, first) ==
    /\ work' = IF first THEN BatchOf(keys, first) \o work ELSE work \o BatchOf(keys, first)
    /\ workers' = IF workers < Cardinality(Workers) THEN Cardinality(Workers) ELSE workers
    /\ \E S \in SUBSET {w \in Workers : pc[w] = "gone"} :
          /\ Cardinality(S) = workers' - workers
          /\ pc' = [t \in Threads |-> IF t \in S THEN "idle" ELSE pc[t]]

\* Bridge::global.
StartUp ==
    /\ phase = "start"
    /\ phase' = "up"
    /\ Push(StartKeys, StartFirst)
    /\ UNCHANGED <<marks, cache, started, exes, load>>

\* set_plan, at any time after.
SetPlan ==
    /\ phase = "up"
    /\ phase' = "planned"
    /\ Push(PlanKeys, TRUE)
    /\ UNCHANGED <<marks, cache, started, exes, load>>

\* Mutant: planned work is dropped like background work.
TakeWorkSkippingRequests(w) ==
    /\ pc[w] = "idle"
    /\ \/ /\ work = <<>>
          /\ workers' = workers - 1
          /\ Goto(w, "gone")
          /\ UNCHANGED <<work, job>>
       \/ /\ work # <<>>
          /\ work' = Tail(work)
          /\ IF Head(work).client \in started
             THEN UNCHANGED <<job, pc>>
             ELSE /\ job' = [job EXCEPT ![w] = [client |-> Head(work).client, key |-> Head(work).key]]
                  /\ Goto(w, "asking")
          /\ UNCHANGED workers
    /\ UNCHANGED <<phase, marks, cache, started, exes, prog, failed>>

\* PreloadQueue::take: an empty list retires the worker in the same step.
\* Background work is passed over once its client has started proving.
TakeWork(w) ==
    /\ pc[w] = "idle"
    /\ \/ /\ work = <<>>
          /\ workers' = workers - 1
          /\ Goto(w, "gone")
          /\ UNCHANGED <<work, job>>
       \/ /\ work # <<>>
          /\ work' = Tail(work)
          /\ IF ~Head(work).first /\ Head(work).client \in started
             THEN UNCHANGED <<job, pc>>
             ELSE /\ job' = [job EXCEPT ![w] = [client |-> Head(work).client, key |-> Head(work).key]]
                  /\ Goto(w, "asking")
          /\ UNCHANGED workers
    /\ UNCHANGED <<phase, marks, cache, started, exes, prog, failed>>

-----------------------------------------------------------------------------
\* Bridge::artifact.

\* What the caller does with the artifact, or without: a worker goes back to
\* the list either way, a prove thread gives up without.
Return(t, ok) ==
    IF t \in Workers THEN "idle" ELSE IF ok THEN "slot wait" ELSE "done"

JobAfter(t) == [job EXCEPT ![t] = IF t \in Workers THEN NoJob ELSE @]

\* Under the lock: ready, or in flight elsewhere, or marked as this thread's.
AskArtifact(t) ==
    /\ pc[t] = "asking"
    /\ \/ job[t] \in ready /\ Goto(t, Return(t, TRUE)) /\ job' = JobAfter(t) /\ UNCHANGED inFlight
       \/ job[t] \in inFlight \ ready /\ Goto(t, "parked") /\ UNCHANGED <<job, inFlight>>
       \/ /\ job[t] \notin ready \cup inFlight
          /\ inFlight' = inFlight \cup {job[t]}
          /\ Goto(t, "loading")
          /\ UNCHANGED job
    /\ UNCHANGED <<queue, ready, cache, started, exes, prog, failed>>

SpuriousWakeup(t) ==
    /\ pc[t] = "parked"
    /\ Goto(t, "asking")
    /\ UNCHANGED <<queue, marks, cache, started, exes, load>>

\* The programs are through, or the load ended early: the mark goes, a whole
\* load is ready, and everybody waiting on this client looks again.
MoveOn(t, ok, notify) ==
    /\ job' = JobAfter(t)
    /\ prog' = [prog EXCEPT ![t] = 1]
    /\ failed' = failed \ {t}
    /\ pc' = [u \in Threads |->
                IF u = t THEN Return(t, ok)
                ELSE IF notify /\ pc[u] = "parked" /\ job[u].client = job[t].client
                     THEN "asking" ELSE pc[u]]

LoadedWhole(t) == pc[t] = "loading" /\ prog[t] > Programs /\ t \notin failed

LoadFailed(t) == pc[t] = "aborted" \/ (pc[t] = "loading" /\ prog[t] > Programs /\ t \in failed)

EndLoad(t) ==
    /\ LoadedWhole(t)
    /\ inFlight' = inFlight \ {job[t]}
    /\ ready' = ready \cup {job[t]}
    /\ MoveOn(t, TRUE, TRUE)
    /\ UNCHANGED <<queue, cache, started, exes>>

\* Mutant: a failed load leaves its mark.
EndFailedLoadKeepingMark(t) ==
    /\ LoadFailed(t)
    /\ MoveOn(t, FALSE, TRUE)
    /\ exes' = [exes EXCEPT ![job[t]] = {}]
    /\ UNCHANGED <<queue, marks, cache, started>>

\* Mutant: a failed load wakes nobody.
EndFailedLoadSilently(t) ==
    /\ LoadFailed(t)
    /\ inFlight' = inFlight \ {job[t]}
    /\ MoveOn(t, FALSE, FALSE)
    /\ exes' = [exes EXCEPT ![job[t]] = {}]
    /\ UNCHANGED <<queue, ready, cache, started>>

EndFailedLoad(t) ==
    /\ LoadFailed(t)
    /\ inFlight' = inFlight \ {job[t]}
    /\ MoveOn(t, FALSE, TRUE)
    /\ exes' = [exes EXCEPT ![job[t]] = {}]
    /\ UNCHANGED <<queue, ready, cache, started>>

-----------------------------------------------------------------------------
\* Artifact::executable, for the program the load is at.

\* The threads with a load pass of client c's gate, and the proves that have
\* one or have asked for it.
LoadPasses(c) ==
    {t \in Threads : /\ pc[t] \in {"entry", "reading", "compiling", "leaving"}
                     /\ job[t].client = c}

ProvesAtGate(c) == {i \in Instances : pc[i] \in {"gate wait", "proving"} /\ job[i].client = c}

EntryOf(t) == <<job[t].key, prog[t]>>

\* No manifest: the load is over before its first program.
MissManifest(t) ==
    /\ "manifest" \in Faults
    /\ pc[t] = "loading" /\ prog[t] = 1 /\ t \notin failed
    /\ Goto(t, "aborted")
    /\ UNCHANGED <<queue, marks, cache, started, exes, load>>

\* A program's file cannot be read: the load goes on to the next program, so
\* the cache fills alike, and fails in the end.
MissProgram(t) ==
    /\ "program" \in Faults
    /\ pc[t] = "loading" /\ prog[t] <= Programs
    /\ prog' = [prog EXCEPT ![t] = @ + 1]
    /\ failed' = failed \cup {t}
    /\ UNCHANGED <<queue, marks, cache, started, exes, job, pc>>

\* enter_load, for one program.
EnterPlugin(t) ==
    /\ pc[t] = "loading" /\ prog[t] <= Programs
    /\ ProvesAtGate(job[t].client) = {}
    /\ Goto(t, "entry")
    /\ UNCHANGED <<queue, marks, cache, started, exes, load>>

\* Mutant: the entry is not locked.
TakeEntryUnlocked(t) ==
    /\ pc[t] = "entry"
    /\ Goto(t, "reading")
    /\ UNCHANGED <<queue, marks, cache, started, exes, load>>

\* CacheEntryLock::take.
TakeEntry(t) ==
    /\ pc[t] = "entry"
    /\ \A u \in Threads : pc[u] \in {"reading", "compiling"} => EntryOf(u) # EntryOf(t)
    /\ Goto(t, "reading")
    /\ UNCHANGED <<queue, marks, cache, started, exes, load>>

\* A file the plugin takes is the program; one it rejects is removed.
ReadCache(t) ==
    /\ pc[t] = "reading"
    /\ Goto(t, IF cache[EntryOf(t)] = "good" THEN "leaving" ELSE "compiling")
    /\ cache' = IF cache[EntryOf(t)] = "stale"
                THEN [cache EXCEPT ![EntryOf(t)] = "absent"] ELSE cache
    /\ UNCHANGED <<queue, marks, started, exes, load>>

\* The compile, and the file for the next client: written aside and renamed,
\* or left out when the write fails.  A plugin failure panics out of the load.
Compile(t) ==
    /\ pc[t] = "compiling"
    /\ \/ cache' = [cache EXCEPT ![EntryOf(t)] = "good"] /\ Goto(t, "leaving")
       \/ "write" \in Faults /\ Goto(t, "leaving") /\ UNCHANGED cache
       \/ "compile" \in Faults /\ Goto(t, "aborted") /\ UNCHANGED cache
    /\ UNCHANGED <<queue, marks, started, exes, load>>

\* Mutant: the pass is kept to the last program.
LeavePluginAtTheEnd(t) ==
    /\ pc[t] = "leaving"
    /\ exes' = [exes EXCEPT ![job[t]] = @ \cup {prog[t]}]
    /\ prog' = [prog EXCEPT ![t] = @ + 1]
    /\ Goto(t, IF prog[t] < Programs THEN "entry" ELSE "loading")
    /\ UNCHANGED <<queue, marks, cache, started, job, failed>>

\* The gate's pass drops with each program, so a prove gets in between two.
LeavePlugin(t) ==
    /\ pc[t] = "leaving"
    /\ exes' = [exes EXCEPT ![job[t]] = @ \cup {prog[t]}]
    /\ prog' = [prog EXCEPT ![t] = @ + 1]
    /\ Goto(t, "loading")
    /\ UNCHANGED <<queue, marks, cache, started, job, failed>>

-----------------------------------------------------------------------------
\* The prove threads.

\* slot_index: the stream's client; or a client whose slot is free as the scan
\* gets to it, and the instance's own when none is.
SlotsFor(i) ==
    LET idle == {c \in Clients : \A j \in Instances : job[j] # NoJob /\ job[j].client = c
                                    => pc[j] \notin {"gate wait", "proving"}} IN
    IF i \in Streamed \/ idle = {} THEN {HomeOf[i]} ELSE idle

StartThread(i) ==
    /\ phase # "start"
    /\ pc[i] = "new"
    /\ \E c \in SlotsFor(i) : job' = [job EXCEPT ![i] = [client |-> c, key |-> KeyOf[i]]]
    /\ Goto(i, "asking")
    /\ UNCHANGED <<queue, marks, cache, started, exes, prog, failed>>

\* The slot's lock, and the prove asks the gate.
TakeSlot(i) ==
    /\ pc[i] = "slot wait"
    /\ ProvesAtGate(job[i].client) = {}
    /\ Goto(i, "gate wait")
    /\ UNCHANGED <<queue, marks, cache, started, exes, load>>

EnterProve(i) ==
    /\ pc[i] = "gate wait"
    /\ LoadPasses(job[i].client) = {}
    /\ started' = started \cup {job[i].client}
    /\ Goto(i, "proving")
    /\ UNCHANGED <<queue, marks, cache, exes, load>>

\* A prove runs every program of the AIR.  One that the artifact does not hold
\* `executable` would load, behind the gate that this very prove holds.
EndProve(i) ==
    /\ pc[i] = "proving"
    /\ exes[job[i]] = 1 .. Programs
    /\ Goto(i, "done")
    /\ UNCHANGED <<queue, marks, cache, started, exes, load>>

Finished ==
    /\ phase = "planned" /\ work = <<>>
    /\ \A t \in Threads : pc[t] \in {"gone", "done"}
    /\ UNCHANGED vars

LoadStep(t) ==
    \/ AskArtifact(t) \/ EndLoad(t) \/ EndFailedLoad(t)
    \/ MissManifest(t) \/ MissProgram(t) \/ EnterPlugin(t)
    \/ TakeEntry(t) \/ ReadCache(t) \/ Compile(t) \/ LeavePlugin(t)

ProveStep(i) == StartThread(i) \/ TakeSlot(i) \/ EnterProve(i) \/ EndProve(i)

Next ==
    \/ StartUp \/ SetPlan
    \/ \E w \in Workers : TakeWork(w)
    \/ \E t \in Threads : LoadStep(t) \/ SpuriousWakeup(t)
    \/ \E i \in Instances : ProveStep(i)
    \/ Finished

Spec == Init /\ [][Next]_vars

\* Every thread that can run does; nothing is owed a plan or a fault.
Fairness ==
    /\ WF_vars(StartUp)
    /\ \A w \in Workers : WF_vars(TakeWork(w))
    /\ \A t \in Threads : WF_vars(LoadStep(t))
    /\ \A i \in Instances : WF_vars(ProveStep(i))

FairSpec == Spec /\ Fairness

-----------------------------------------------------------------------------
\* The values the loaders' state ranges over.
LoadLabels == {"asking", "parked", "loading", "entry", "reading", "compiling", "leaving", "aborted"}

TypeOK ==
    /\ phase \in {"start", "up", "planned"}
    /\ work \in Seq([client : Clients, key : Keys, first : BOOLEAN])
    /\ workers \in 0 .. Cardinality(Workers)
    /\ ready \in SUBSET Jobs /\ inFlight \in SUBSET Jobs
    /\ cache \in [Entries -> {"absent", "good", "stale"}]
    /\ started \in SUBSET Clients
    /\ job \in [Threads -> Jobs \cup {NoJob}]
    /\ exes \in [Jobs -> SUBSET (1 .. Programs)]
    /\ prog \in [Threads -> 1 .. Programs + 1]
    /\ failed \in SUBSET Threads
    /\ pc \in [Threads -> LoadLabels \cup {"gone", "idle", "new", "slot wait", "gate wait", "proving", "done"}]

Loaders == {t \in Threads : pc[t] \in LoadLabels \ {"asking", "parked"}}

\* An AIR is on its way to a client exactly while one thread loads it there,
\* whatever fails or panics, and never once it is there: no AIR is loaded
\* twice "unless another thread already has or is doing so" (artifact).
MarksMatchLoaders ==
    /\ inFlight = {job[t] : t \in Loaders}
    /\ inFlight \cap ready = {}
    /\ \A t, u \in Loaders : job[t] = job[u] => t = u

\* A thread sleeps only for an AIR that somebody is loading: the end of that
\* load, whole or not, wakes it, so none "waits forever" (artifact).
SleepersHaveALoader == \A t \in Threads : pc[t] = "parked" => job[t] \in inFlight

\* Work on the list has a worker that will take it, and the count of workers
\* is that of the threads running: the race the comment of PreloadQueue tells.
WorkIsNeverStranded ==
    /\ workers = Cardinality({w \in Workers : pc[w] # "gone"})
    /\ work # <<>> => workers > 0

\* Nobody compiles what the cache already has: a client that comes second
\* "waits here and then finds the first one's file" (executable).
NothingIsCompiledTwice ==
    \A t \in Threads : pc[t] = "compiling" => cache[EntryOf(t)] # "good"

\* An AIR whose load missed programs and went on to the next ones is not taken
\* for loaded: a prove of it would load the missing ones under its own pass of
\* the gate, and wait there for itself.
ProvesFindTheirPrograms ==
    \A i \in Instances :
        pc[i] \in {"gate wait", "proving"} => exes[job[i]] = 1 .. Programs

\* Both at once: a program is compiled when there is no good file of it and at
\* no other time, and is there when a prove wants it.
ProgramsAreThereOnce == NothingIsCompiledTwice /\ ProvesFindTheirPrograms

\* What a thread is busy with is an AIR of a client from its request to its
\* end; a worker is never a prove thread's, nor the other way round.
ThreadsKnowTheirJobs ==
    /\ \A t \in Threads : pc[t] \notin {"gone", "idle", "new"} => job[t] \in Jobs
    /\ \A w \in Workers : pc[w] \in LoadLabels \cup {"gone", "idle"}
    /\ \A i \in Instances : pc[i] \notin {"gone", "idle"}

\* An artifact handed out holds every program of its AIR, a load that has not
\* missed one holds those it is past, and a thread that does not load is at the
\* first program.
ArtifactsAreWhole ==
    /\ \A j \in ready : exes[j] = 1 .. Programs
    /\ \A i \in Instances : pc[i] \in {"slot wait", "gate wait", "proving"} => job[i] \in ready
    /\ \A t \in Loaders : t \notin failed => 1 .. (prog[t] - 1) \subseteq exes[job[t]]
    /\ \A t \in Threads \ Loaders : prog[t] = 1
    /\ \A t \in Threads :
          pc[t] \in {"entry", "reading", "compiling", "leaving"} => prog[t] <= Programs

\* Threads at one file of the cache are there one at a time.
EntriesAreLocked ==
    \A t, u \in Threads :
        /\ pc[t] \in {"reading", "compiling"} /\ pc[u] \in {"reading", "compiling"}
        /\ EntryOf(t) = EntryOf(u)
        => t = u

\* The inductive invariant of the loaders.
IInv ==
    /\ TypeOK /\ ThreadsKnowTheirJobs /\ MarksMatchLoaders /\ SleepersHaveALoader
    /\ WorkIsNeverStranded /\ ArtifactsAreWhole /\ EntriesAreLocked

\* What a prove at the gate waits for: the programs in the plugin when it
\* asked, not one more, of any AIR ("one program, not ... the AIR's whole set").
ProgramsInPlugin(c) == {<<t, prog[t]>> : t \in LoadPasses(c)}

OnlyProgramsInFlightPrecedeAProve ==
    [][\A i \in Instances :
          pc[i] = "gate wait" =>
              ProgramsInPlugin(job[i].client)' \subseteq ProgramsInPlugin(job[i].client)]_vars

\* Every thread that proves comes to an end: the locks, the gate and the
\* condition variables leave nobody waiting, whatever loads fail.
EveryProveCompletes == \A i \in Instances : pc[i] # "new" ~> pc[i] = "done"

\* Every AIR of the plan gets onto every client when nothing fails, proving
\* or not: only background AIRs stop at the first prove.
PlannedAirsGetReady ==
    phase = "planned"
        ~> \A c \in Clients, n \in 1 .. Len(PlanKeys) : [client |-> c, key |-> PlanKeys[n]] \in ready
=============================================================================
