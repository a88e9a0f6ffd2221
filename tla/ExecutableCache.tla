--------------------------- MODULE ExecutableCache ---------------------------
(***************************************************************************)
(* One entry of the executable cache on disk, shared by the processes that *)
(* prove over one artifacts directory: the part of `Artifact::executable`  *)
(* (bridge/src/artifact.rs) that reads, rejects, removes and writes it.    *)
(* Within a process CacheEntryLock lets one thread at a time do this       *)
(* (module Loading); between processes nothing does, and a process may be  *)
(* killed between any two steps.                                           *)
(*                                                                         *)
(* An executable carries the kind of device it was made for, which the     *)
(* entry's key (the bytecode and the plugin's path, size and time) does    *)
(* not: a plugin takes the executables of its own kind and rejects any     *)
(* other, and any file that was cut short.                                 *)
(***************************************************************************)
EXTENDS Naturals

CONSTANTS
    Procs,     \* places processes run in; each may be killed and started anew
    Pids,      \* std::process::id()
    Kinds,     \* kinds of device
    KindOf,    \* KindOf[p]: what process p proves on
    Failures,    \* the failures that may happen
    MaxKills,  \* bound of the model on kills
    Absent, Torn

FailureKinds == {"remove", "compile", "write", "rename"}

ASSUME CacheAssumption ==
    /\ KindOf \in [Procs -> Kinds]
    /\ Failures \subseteq FailureKinds
    /\ MaxKills \in Nat
    /\ Absent \notin Kinds /\ Torn \notin Kinds /\ Absent # Torn

VARIABLES
    entry,  \* the file `<name>-<key>.pjrt`
    temps,  \* temps[n]: the file `<name>-<key>.tmp<n>-<seq>`
    pid,    \* the processes' ids
    bytes,  \* what each process has read of the entry, or serialized
    step,
    kills

cacheVars == <<entry, temps, pid, bytes, step, kills>>

Contents == Kinds \cup {Absent, Torn}

CacheInit ==
    /\ entry \in Contents
    /\ temps = [n \in Pids |-> Absent]
    /\ pid \in [Procs -> Pids]
    /\ bytes = [p \in Procs |-> Absent]
    /\ step = [p \in Procs |-> "down"]
    /\ kills = 0

StepTo(p, label) == step' = [step EXCEPT ![p] = label]

\* Mutant: one name for every process's temporary.
TempShared(p) == CHOOSE n \in Pids : TRUE

\* The temporary of process p's write.  Its name has a number too (SEQ) that
\* tells the writes of one process apart; here a later write takes the place
\* of what an earlier one left, under the same id or by a process that has it
\* again and counts from 0.
TempOf(p) == pid[p]

Temp(p) == temps[TempOf(p)]

SetTemp(p, content) == temps' = [temps EXCEPT ![TempOf(p)] = content]

-----------------------------------------------------------------------------
\* A process starts with an id that no live one has.
Start(p) ==
    /\ step[p] = "down"
    /\ \E n \in Pids :
          /\ \A q \in Procs : step[q] # "down" => pid[q] # n
          /\ pid' = [pid EXCEPT ![p] = n]
    /\ StepTo(p, "up")
    /\ UNCHANGED <<entry, temps, bytes, kills>>

\* It dies; the files stay as they are.
Kill(p) ==
    /\ kills < MaxKills
    /\ step[p] # "down"
    /\ kills' = kills + 1
    /\ bytes' = [bytes EXCEPT ![p] = Absent]
    /\ StepTo(p, "down")
    /\ UNCHANGED <<entry, temps, pid>>

\* A client of the process loads the program: std::fs::read of the entry, of
\* the file the name stands for now even if it is replaced meanwhile.
Read(p) ==
    /\ step[p] = "up"
    /\ bytes' = [bytes EXCEPT ![p] = entry]
    /\ StepTo(p, IF entry = Absent THEN "compiling" ELSE "deserializing")
    /\ UNCHANGED <<entry, temps, pid, kills>>

\* deserialize_and_load: an executable, or a panic that is caught.
Deserialize(p) ==
    /\ step[p] = "deserializing"
    /\ StepTo(p, IF bytes[p] = KindOf[p] THEN "up" ELSE "removing")
    /\ bytes' = [bytes EXCEPT ![p] = Absent]
    /\ UNCHANGED <<entry, temps, pid, kills>>

\* remove_file of what is there now; its result is dropped.
Remove(p) ==
    /\ step[p] = "removing"
    /\ entry' = Absent \/ ("remove" \in Failures /\ entry' = entry)
    /\ StepTo(p, "compiling")
    /\ UNCHANGED <<temps, pid, bytes, kills>>

\* A compile that panics ends the load, and a later one tries again.
CompileProgram(p) ==
    /\ step[p] = "compiling"
    /\ \/ bytes' = [bytes EXCEPT ![p] = KindOf[p]] /\ StepTo(p, "writing")
       \/ "compile" \in Failures /\ StepTo(p, "up") /\ UNCHANGED bytes
    /\ UNCHANGED <<entry, temps, pid, kills>>

\* std::fs::write: the file is created or cut to nothing, then filled.
OpenTemp(p) ==
    /\ step[p] = "writing"
    /\ SetTemp(p, Torn)
    /\ StepTo(p, "filling")
    /\ UNCHANGED <<entry, pid, bytes, kills>>

FillTemp(p) ==
    /\ step[p] = "filling"
    /\ \/ SetTemp(p, bytes[p]) /\ StepTo(p, "renaming")
       \/ "write" \in Failures /\ StepTo(p, "cleaning") /\ UNCHANGED temps
    /\ UNCHANGED <<entry, pid, bytes, kills>>

\* The whole file takes the entry's name, in place of whatever had it.
Rename(p) ==
    /\ step[p] = "renaming"
    /\ \/ /\ Temp(p) # Absent
          /\ entry' = Temp(p)
          /\ SetTemp(p, Absent)
          /\ StepTo(p, "up")
          /\ bytes' = [bytes EXCEPT ![p] = Absent]
       \/ /\ "rename" \in Failures \/ Temp(p) = Absent
          /\ StepTo(p, "cleaning")
          /\ UNCHANGED <<entry, temps, bytes>>
    /\ UNCHANGED <<pid, kills>>

\* The write or the rename failed: the temporary goes, or stays as litter,
\* since the result of this remove_file is dropped too.
Clean(p) ==
    /\ step[p] = "cleaning"
    /\ SetTemp(p, Absent) \/ ("remove" \in Failures /\ UNCHANGED temps)
    /\ StepTo(p, "up")
    /\ bytes' = [bytes EXCEPT ![p] = Absent]
    /\ UNCHANGED <<entry, pid, kills>>

Work(p) ==
    \/ Deserialize(p) \/ Remove(p) \/ CompileProgram(p)
    \/ OpenTemp(p) \/ FillTemp(p) \/ Rename(p) \/ Clean(p)

CacheNext == \E p \in Procs : Start(p) \/ Kill(p) \/ Read(p) \/ Work(p)

CacheSpec == CacheInit /\ [][CacheNext]_cacheVars

\* A load that began goes on; nothing makes a process start or load.
FairCacheSpec == CacheSpec /\ \A p \in Procs : WF_cacheVars(Work(p))
-----------------------------------------------------------------------------
\* The values files and processes range over.
CacheTypeOK ==
    /\ entry \in Contents
    /\ temps \in [Pids -> Contents]
    /\ pid \in [Procs -> Pids]
    /\ bytes \in [Procs -> Contents]
    /\ step \in [Procs -> {"down", "up", "deserializing", "removing", "compiling", "writing",
                           "filling", "renaming", "cleaning"}]
    /\ kills \in 0 .. MaxKills

\* Whoever is killed and whatever fails, a file cut short is never put under
\* the entry's name: a torn entry was there before these processes came.
EntryIsNeverTorn == [][entry' = Torn => entry = Torn]_cacheVars

\* What EntryIsNeverTorn rests on (module LoadingProofs): no two live
\* processes have one id, and a temporary about to be renamed is whole.
LivePidsDiffer ==
    \A p, q \in Procs : step[p] # "down" /\ step[q] # "down" /\ pid[p] = pid[q] => p = q

WholeBeforeRename ==
    \A p \in Procs :
        /\ step[p] \in {"writing", "filling", "renaming"} => bytes[p] = KindOf[p]
        /\ step[p] = "renaming" => Temp(p) = KindOf[p]

CacheIInv == CacheTypeOK /\ LivePidsDiffer /\ WholeBeforeRename

\* A step in which something fails that decides about the entry: a remove of
\* it, a compile, a write or a rename.  A temporary that stays does not.
FailureOf(p) ==
    \/ step[p] = "removing" /\ step'[p] = "compiling" /\ entry' # Absent
    \/ step[p] = "compiling" /\ step'[p] = "up"
    \/ step[p] \in {"filling", "renaming"} /\ step'[p] = "cleaning"

OnlyOnKind(k) == \A p \in Procs : step[p] # "down" => KindOf[p] = k

\* Once nothing fails any more and only devices of one kind are used, the entry
\* is there for them for good in the end if loads of it keep coming, whatever
\* failures, kills and other kinds left behind, and though a process that read
\* a torn entry may still remove the good one put there since.
CacheWarmsUp ==
    \A k \in Kinds :
        (/\ <>[][\A p \in Procs : ~FailureOf(p)]_cacheVars
         /\ <>[]OnlyOnKind(k)
         /\ []<>(\E p \in Procs : step[p] \notin {"down", "up"}))
        => <>[](entry = k)
=============================================================================
