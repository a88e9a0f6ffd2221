----------------------------- MODULE ClientProve -----------------------------
(***************************************************************************)
(* The proves of one PJRT client, from hand-over to completion:            *)
(* `Bridge::prove_owned` and the read-ahead of the fixed sections          *)
(* (`FixedAhead`, `AheadFixed`, `read_ahead_fixed`, `upload_ahead`) of     *)
(* bridge/src/lib.rs, with `AirDriver::set_fixed`, `drop_fixed` and the    *)
(* part of `AirDriver::prove` that takes the sections off the driver       *)
(* (bridge/src/driver.rs).                                                 *)
(*                                                                         *)
(* Three things order the threads.  The admission, shown by module Pending *)
(* to implement FifoAdmission, which is used here in its place; the lock   *)
(* of the slot, any waiter of which may get it; and the gate of module     *)
(* Gate, which only the owner of the slot asks to enter and which always   *)
(* lets it in, so entering it is part of taking the slot.  The residency   *)
(* mirror and the permit have locks of their own, so a thread on its way   *)
(* to the slot sees them change in the middle of another one's prove: each *)
(* access to them is a step.                                               *)
(***************************************************************************)
EXTENDS Naturals, Sequences, FiniteSets

CONSTANTS
    Instances,     \* instances on this client
    Airs,          \* `<Air>_n<nBits>` keys
    AirOf,         \* AirOf[i]: OwnedRequest::key of i
    Uploads, Cap, Budget,  \* see FifoAdmission
    Depth,         \* FixedAhead::depth
    ResidentAirs,  \* ZZ_RESIDENT_AIRS
    Mode,          \* ZZ_FIXED_RESIDENT: "plan", "always" or "never"
    FirstPlan,     \* Bridge::plan when the proves start, ...
    SentPlan,      \* ... and what proofman's set_plan makes of it
    Faults,        \* the failures that may happen
    Nobody

FaultKinds == {"inputs", "read", "ahead", "setup", "prepare", "panic"}

ASSUME ClientAssumption ==
    /\ IsFiniteSet(Instances) /\ IsFiniteSet(Airs)
    /\ AirOf \in [Instances -> Airs]
    /\ Cap \in Nat \ {0}
    /\ Depth \in 0 .. Cap             \* fixed_ahead_depth
    /\ ResidentAirs \in Nat \ {0}
    /\ Mode \in {"plan", "always", "never"}
    /\ FirstPlan \in [Airs -> Nat] /\ SentPlan \in [Airs -> Nat]
    /\ Faults \subseteq FaultKinds
    /\ Nobody \notin Instances

VARIABLES
    line, inside,  \* the admission: see FifoAdmission
    slot,          \* the instance that holds the slot's lock, or Nobody
    fixed,         \* the AIRs whose driver holds its fixed sections
    lastUsed,      \* Slot.last_used: when each AIR was last used, 0 for never
    tick,          \* Slot.tick
    mirror,        \* FixedAhead.resident
    permits,       \* the instances that hold a pass of FixedAhead.permit
    ahead,         \* what each instance brings to the slot (AheadFixed)
    releases,      \* the instances whose prove runs with Residency::Release
    plan,          \* Bridge.plan: instances per AIR, 0 for one not named
    pc             \* where each instance's prove thread is

admission == <<line, inside>>
uses == <<lastUsed, tick>>
sections == <<fixed, uses, mirror, permits, ahead, releases>>
vars == <<admission, slot, sections, plan, pc>>

Admission == INSTANCE FifoAdmission

Init ==
    /\ Admission!Init
    /\ slot = Nobody
    /\ fixed = {} /\ mirror = {} /\ permits = {} /\ releases = {}
    /\ lastUsed = [a \in Airs |-> 0] /\ tick = 0
    /\ ahead = [i \in Instances |-> "nothing"]
    /\ plan = FirstPlan
    /\ pc = [i \in Instances |-> "new"]

Goto(i, label) == pc' = [pc EXCEPT ![i] = label]

\* keeps_fixed: an AIR the plan names once goes with its prove; one it does
\* not name stays.
KeepsFixed(air) ==
    \/ Mode = "always"
    \/ Mode = "plan" /\ plan[air] # 1

-----------------------------------------------------------------------------
\* The plan arrives (set_plan), before, between or after the first proves.
SetPlan ==
    /\ plan = FirstPlan
    /\ plan' = SentPlan
    /\ UNCHANGED <<admission, slot, sections, pc>>

\* prove_owned up to Pending::acquire: the AIR's programs are there.
AskAdmission(i) ==
    /\ pc[i] = "new"
    /\ \/ Admission!PassThrough(i) /\ Goto(i, "admitted")
       \/ /\ line # <<>> \/ ~Admission!FitsTogether(inside \cup {i})
          /\ Admission!Arrive(i)
          /\ Goto(i, "in line")
    /\ UNCHANGED <<slot, sections, plan>>

Admit ==
    /\ Admission!LetIn
    /\ Goto(Head(line), "admitted")
    /\ UNCHANGED <<slot, sections, plan>>

UploadInputs(i) ==
    /\ pc[i] = "admitted"
    /\ \/ Goto(i, "uploaded")
       \/ "inputs" \in Faults /\ Goto(i, "leaving")
    /\ UNCHANGED <<admission, slot, sections, plan>>

\* Mutant: read ahead without a permit.
PlanDespitePermits(i) ==
    /\ pc[i] = "uploaded"
    /\ AirOf[i] \notin mirror
    /\ permits' = permits \cup {i}
    /\ Goto(i, "reading")
    /\ UNCHANGED <<admission, slot, fixed, uses, mirror, ahead, releases, plan>>

\* FixedAhead::plan: a glance at the mirror, then a try at the permit.
PlanAhead(i) ==
    /\ pc[i] = "uploaded"
    /\ \/ /\ AirOf[i] \in mirror
          /\ Goto(i, "slot wait")
          /\ UNCHANGED permits
       \/ /\ AirOf[i] \notin mirror
          /\ permits' = IF Cardinality(permits) < Depth THEN permits \cup {i} ELSE permits
          /\ Goto(i, "reading")
    /\ UNCHANGED <<admission, slot, fixed, uses, mirror, ahead, releases, plan>>

\* AheadFixed::read, on the way to the slot.
ReadKey(i) ==
    /\ pc[i] = "reading"
    /\ \/ /\ ahead' = [ahead EXCEPT ![i] = "words"]
          /\ Goto(i, IF i \in permits THEN "uploading" ELSE "slot wait")
          /\ UNCHANGED permits
       \/ /\ "read" \in Faults
          /\ permits' = permits \ {i}
          /\ Goto(i, "leaving")
          /\ UNCHANGED ahead
    /\ UNCHANGED <<admission, slot, fixed, uses, mirror, releases, plan>>

\* upload_ahead and took_upload: any failure hands the permit back and leaves
\* the words for the slot.
UploadAhead(i) ==
    /\ pc[i] = "uploading"
    /\ \/ /\ ahead' = [ahead EXCEPT ![i] = "uploaded"]
          /\ UNCHANGED permits
       \/ /\ "ahead" \in Faults
          /\ permits' = permits \ {i}
          /\ UNCHANGED ahead
    /\ Goto(i, "slot wait")
    /\ UNCHANGED <<admission, slot, fixed, uses, mirror, releases, plan>>

-----------------------------------------------------------------------------
\* Under the slot's lock.

\* The resident AIRs but `air`, and how many of them are too many beside it.
Others(air) == fixed \ {air}

Excess(air) ==
    LET n == Cardinality(Others(air)) + 1 IN IF n > ResidentAirs THEN n - ResidentAirs ELSE 0

\* Mutant: the youngest go.
EvictedYoungestFirst(air) ==
    {a \in Others(air) :
        Cardinality({b \in Others(air) : lastUsed[b] > lastUsed[a]}) < Excess(air)}

\* Those too many, the least recently used: no two AIRs have one stamp.
EvictedFor(air) ==
    {a \in Others(air) :
        Cardinality({b \in Others(air) : lastUsed[b] < lastUsed[a]}) < Excess(air)}

\* Mutant: the mirror is not told of the evicted.
TakeSlotLeavingMirror(i) ==
    /\ pc[i] = "slot wait"
    /\ slot = Nobody
    /\ slot' = i
    /\ tick' = tick + 1
    /\ lastUsed' = [lastUsed EXCEPT ![AirOf[i]] = tick + 1]
    /\ fixed' = fixed \ EvictedFor(AirOf[i])
    /\ releases' = IF KeepsFixed(AirOf[i]) THEN releases ELSE releases \cup {i}
    /\ Goto(i, "slot")
    /\ UNCHANGED <<admission, mirror, permits, ahead, plan>>

\* The lock and the gate, the use stamp, the eviction of the AIRs beyond
\* ResidentAirs, and the residency this prove runs with.
TakeSlot(i) ==
    /\ pc[i] = "slot wait"
    /\ slot = Nobody
    /\ slot' = i
    /\ tick' = tick + 1
    /\ lastUsed' = [lastUsed EXCEPT ![AirOf[i]] = tick + 1]
    /\ fixed' = fixed \ EvictedFor(AirOf[i])
    /\ mirror' = mirror \ EvictedFor(AirOf[i])
    /\ releases' = IF KeepsFixed(AirOf[i]) THEN releases ELSE releases \cup {i}
    /\ Goto(i, "slot")
    /\ UNCHANGED <<admission, permits, ahead, plan>>

\* What the prove brought along goes, and its permit with it.
DropAhead(i) ==
    /\ ahead' = [ahead EXCEPT ![i] = "nothing"]
    /\ permits' = permits \ {i}

\* No sections on the driver: set_fixed runs the setup programs over the ones
\* brought along, or over those read under the slot, and the permit goes back.
\* A read or a set_fixed that fails leaves the driver without sections.
InstallFixed(i) ==
    /\ pc[i] = "slot"
    /\ AirOf[i] \notin fixed
    /\ \/ fixed' = fixed \cup {AirOf[i]} /\ Goto(i, "installed")
       \/ "setup" \in Faults /\ Goto(i, "slot done") /\ UNCHANGED fixed
    /\ DropAhead(i)
    /\ UNCHANGED <<admission, slot, uses, mirror, releases, plan>>

\* Mutant: the glance decides under the slot too.
FindResidentTrustingTheGlance(i) ==
    /\ pc[i] = "slot"
    /\ AirOf[i] \in fixed \/ ahead[i] = "nothing"
    /\ DropAhead(i)
    /\ Goto(i, "installed")
    /\ UNCHANGED <<admission, slot, fixed, uses, mirror, releases, plan>>

\* Resident after all: the sections brought along and the permit are dropped.
FindResident(i) ==
    /\ pc[i] = "slot"
    /\ AirOf[i] \in fixed
    /\ DropAhead(i)
    /\ Goto(i, "installed")
    /\ UNCHANGED <<admission, slot, fixed, uses, mirror, releases, plan>>

\* FixedAhead::installed, past the permit.
MirrorInstall(i) ==
    /\ pc[i] = "installed"
    /\ mirror' = mirror \cup {AirOf[i]}
    /\ Goto(i, "ready")
    /\ UNCHANGED <<admission, slot, fixed, uses, permits, ahead, releases, plan>>

\* The early returns between the install and the prove (the proof buffer's
\* length, the input dump, the transcript's hash family).
FailToPrepare(i) ==
    /\ "prepare" \in Faults
    /\ pc[i] = "ready"
    /\ Goto(i, "slot done")
    /\ UNCHANGED <<admission, slot, sections, plan>>

\* Mutant: the sections go back on the driver whatever the residency.
StartProvePuttingBack(i) ==
    /\ pc[i] = "ready"
    /\ AirOf[i] \in fixed
    /\ Goto(i, "proving")
    /\ UNCHANGED <<admission, slot, fixed, uses, mirror, permits, ahead, releases, plan>>

\* AirDriver::prove takes the sections off the driver, and puts them back at
\* once when they are to be kept.
StartProve(i) ==
    /\ pc[i] = "ready"
    /\ AirOf[i] \in fixed
    /\ fixed' = IF i \in releases THEN fixed \ {AirOf[i]} ELSE fixed
    /\ Goto(i, "proving")
    /\ UNCHANGED <<admission, slot, uses, mirror, permits, ahead, releases, plan>>

\* The prove returns, a proof or an error, and the mirror is told of sections
\* that went with it.
EndProve(i) ==
    /\ pc[i] = "proving"
    /\ mirror' = IF i \in releases THEN mirror \ {AirOf[i]} ELSE mirror
    /\ Goto(i, "slot done")
    /\ UNCHANGED <<admission, slot, fixed, uses, permits, ahead, releases, plan>>

\* A plugin failure unwinds out of the prove, past the mirror's update.
PanicInProve(i) ==
    /\ "panic" \in Faults
    /\ pc[i] = "proving"
    /\ Goto(i, "slot done")
    /\ UNCHANGED <<admission, slot, sections, plan>>

\* The guards drop in the reverse of the order they were taken: gate and slot,
\* then the admission; prove_async then calls `done`.
FreeSlot(i) ==
    /\ pc[i] = "slot done"
    /\ slot = i
    /\ slot' = Nobody
    /\ Goto(i, "leaving")
    /\ UNCHANGED <<admission, sections, plan>>

\* Mutant: the pass of the admission is not dropped.
LeaveClientUncounted(i) ==
    /\ pc[i] = "leaving"
    /\ Goto(i, "done")
    /\ UNCHANGED <<admission, slot, sections, plan>>

LeaveClient(i) ==
    /\ pc[i] = "leaving"
    /\ Admission!Leave(i)
    /\ Goto(i, "done")
    /\ UNCHANGED <<slot, sections, plan>>

Finished == (\A i \in Instances : pc[i] = "done") /\ UNCHANGED vars

BeforeSlot(i) ==
    AskAdmission(i) \/ UploadInputs(i) \/ PlanAhead(i) \/ ReadKey(i) \/ UploadAhead(i)

UnderSlot(i) ==
    \/ InstallFixed(i) \/ FindResident(i) \/ MirrorInstall(i) \/ FailToPrepare(i)
    \/ StartProve(i) \/ EndProve(i) \/ PanicInProve(i) \/ FreeSlot(i)

Next ==
    \/ SetPlan \/ Admit
    \/ \E i \in Instances : BeforeSlot(i) \/ TakeSlot(i) \/ UnderSlot(i) \/ LeaveClient(i)
    \/ Finished

Spec == Init /\ [][Next]_vars

\* Every prove thread keeps running.  The slot's lock makes no promise to any
\* one waiter, but each instance takes it once, so weak fairness is enough.
Fairness ==
    /\ WF_vars(Admit)
    /\ \A i \in Instances :
          /\ WF_vars(BeforeSlot(i)) /\ WF_vars(TakeSlot(i))
          /\ WF_vars(UnderSlot(i)) /\ WF_vars(LeaveClient(i))

FairSpec == Spec /\ Fairness
-----------------------------------------------------------------------------
\* The values the client's state ranges over.
Labels ==
    {"new", "in line", "admitted", "uploaded", "reading", "uploading", "slot wait", "slot",
     "installed", "ready", "proving", "slot done", "leaving", "done"}

TypeOK ==
    /\ line \in Seq(Instances) /\ inside \in SUBSET Instances
    /\ slot \in Instances \cup {Nobody}
    /\ fixed \in SUBSET Airs /\ mirror \in SUBSET Airs
    /\ lastUsed \in [Airs -> Nat] /\ tick \in Nat
    /\ permits \in SUBSET Instances /\ releases \in SUBSET Instances
    /\ ahead \in [Instances -> {"nothing", "words", "uploaded"}]
    /\ plan \in [Airs -> Nat]
    /\ pc \in [Instances -> Labels]

\* The threads in the admission's line are asleep there, each once.
LineWaits ==
    /\ \A k \in 1 .. Len(line) : pc[line[k]] = "in line"
    /\ \A k, n \in 1 .. Len(line) : line[k] = line[n] => k = n

\* The slot's lock is held by the one thread between its take and its drop.
HoldingSlot == {"slot", "installed", "ready", "proving", "slot done"}

SlotIsHeldInside == \A i \in Instances : pc[i] \in HoldingSlot <=> slot = i

\* The AIRs' fixed sections on the card, counting copies: the resident ones,
\* those that went with the running prove, and those uploaded ahead of it.
SectionsOnDevice ==
    Cardinality(fixed)
      + Cardinality({i \in releases : pc[i] = "proving"})
      + Cardinality({i \in Instances : pc[i] = "uploading" \/ ahead[i] = "uploaded"})

\* However many proves queue behind the slot, the fixed sections on the card
\* stay within the resident AIRs and the read-ahead's depth (the comments of
\* FIXED_AHEAD and FixedAhead::depth).
SectionsBounded == SectionsOnDevice <= ResidentAirs + Depth

\* The read-ahead's mirror and the drivers disagree about an AIR only while a
\* prove of that AIR holds the slot: "the mirror only ever trails by the
\* window between a prove's glance and its own turn" (FixedAhead).
MirrorAgreesWithDrivers ==
    \A a \in Airs : (a \in mirror) # (a \in fixed) => slot # Nobody /\ AirOf[slot] = a

\* A prove that starts finds its sections on the driver, whatever the other
\* instances evicted since it looked: "prove: set_fixed first" is never said.
ProveFindsItsSections ==
    \A i \in Instances : pc[i] \in {"installed", "ready"} => AirOf[i] \in fixed

\* The permit is back before the prove runs, so the next AIR's sections can
\* travel during it, and no way out of prove_owned keeps it.
PermitOnlyOnTheWay ==
    permits \subseteq {i \in Instances : pc[i] \in {"reading", "uploading", "slot wait", "slot"}}

\* What these rest on (module ClientProveProofs): a prove runs
\* without its sections on the driver exactly when they go with it, and short
\* of a panic the mirror is wrong only about the AIR of the slot's holder,
\* before it is told of an install or of sections that went.
ReleasedSectionsAreOff ==
    \A i \in Instances : pc[i] = "proving" /\ i \in releases => AirOf[i] \notin fixed

MirrorTrailsTheHolder ==
    \A a \in Airs : (a \in mirror) # (a \in fixed) =>
        /\ slot # Nobody /\ AirOf[slot] = a
        /\ pc[slot] = "installed" \/ (pc[slot] = "proving" /\ slot \in releases)

\* The sections uploaded ahead are those of holders of a permit, and there are
\* no more of these than the read-ahead is deep.
UploadedUnderPermit ==
    /\ Cardinality(permits) <= Depth
    /\ \A i \in Instances :
          /\ pc[i] = "uploading" => i \in permits
          /\ ahead[i] = "uploaded" => i \in permits /\ pc[i] \in {"slot wait", "slot"}

\* The AIR of the slot's holder has its place among the resident ones, on the
\* driver or not.
AirOfHolder == {AirOf[i] : i \in {slot} \cap Instances}

ResidentsBounded == Cardinality(fixed \cup AirOfHolder) <= ResidentAirs

\* No two AIRs were last used at one tick, and the holder's is the latest.
StampsDiffer ==
    /\ \A a \in Airs : lastUsed[a] <= tick
    /\ \A a \in fixed : lastUsed[a] > 0
    /\ \A a \in AirOfHolder : lastUsed[a] = tick /\ tick > 0
    /\ \A a, b \in Airs : lastUsed[a] = lastUsed[b] /\ lastUsed[a] > 0 => a = b

IInv ==
    /\ TypeOK /\ LineWaits /\ SlotIsHeldInside
    /\ PermitOnlyOnTheWay /\ UploadedUnderPermit
    /\ ProveFindsItsSections /\ ReleasedSectionsAreOff
    /\ ResidentsBounded /\ StampsDiffer
    /\ "panic" \notin Faults => MirrorTrailsTheHolder

\* With a plan that is there from the start, an AIR it names once leaves nothing
\* on the client once its prove is over.
AirsProvedOnceLeave ==
    \A a \in fixed : KeepsFixed(a) \/ a \in AirOfHolder

\* What residency is for: while every AIR is kept, none was released before and
\* no set_fixed fails, the resident AIRs between two proves are those proved
\* last.
Latest ==
    {a \in Airs : /\ lastUsed[a] > 0
                  /\ Cardinality({b \in Airs : lastUsed[b] > lastUsed[a]}) < ResidentAirs}

ResidentAreTheLatest ==
    slot = Nobody /\ releases = {} /\ (\A a \in Airs : KeepsFixed(a)) => fixed = Latest

\* Every instance handed over completes, by proof, error or panic, so that
\* proofman's completion callback comes.
EveryInstanceCompletes == \A i \in Instances : pc[i] # "new" ~> pc[i] = "done"
=============================================================================
