--------------------------- MODULE BlockComposite ---------------------------
(***************************************************************************)
(* prove_block of zisk_zorch/harness/block_composite.py: every instance    *)
(* committed for the seed while the next one's trace is staged, the seed   *)
(* derived from the aggregate, every instance proved under it, and the     *)
(* block bound by the global constraints over the airgroup values; with    *)
(* the residency it bounds: host sections, staged uploads, provers and     *)
(* their uploaded key sections, interned shape constants.                  *)
(*                                                                         *)
(* An instance's airgroup value is its bus updates: its rows' and, for a   *)
(* Main segment, the direct ones of its air values.                        *)
(***************************************************************************)
EXTENDS Continuation, Bags

CONSTANTS Blocks,     \* sequences of sources: instance, family, trace, airvalues
          Verkey(_),  \* of a family
          Updates(_), \* the bus updates of a trace's rows
          Publics, ProofValues,
          NoInstance

\* An empty list of sources is refused before anything else.
ASSUME BlocksAssumption ==
    \A b \in Blocks : Len(b) \in Nat \ {0} /\ DOMAIN b = 1..Len(b)

VARIABLES
    sources,
    owned,     \* the caller keeps the provers
    pc, i,     \* where the driver is
    cached,    \* sources whose host sections are loaded
    uploads,   \* sources whose staged upload has not landed
    staged,    \* the source whose trace is staged for the next commit
    provers,   \* pairs <<family, source whose key built it>>
    sections,  \* sources whose key's sections are on the device
    interned,  \* whether shape constants are interned
    contribs,  \* the contributions so far
    seed, results,
    values     \* the updates the global constraints are evaluated over

vars == <<sources, owned, pc, i, cached, uploads, staged, provers, sections, interned,
          contribs, seed, results, values>>

Src(k) == sources[k].instance
Family(k) == sources[k].family

\* What stands for a commitment: the trace it commits to.
RootOf(k) == sources[k].trace

NoSeed == <<>>

Init ==
    /\ sources \in Blocks
    /\ owned \in BOOLEAN
    /\ pc = "start" /\ i = 1
    /\ cached = {} /\ uploads = {} /\ staged = NoInstance
    /\ provers = {} /\ sections = {} /\ interned = FALSE
    /\ contribs = <<>> /\ seed = NoSeed /\ results = <<>> /\ values = <<>>

-----------------------------------------------------------------------------
\* TraceStager.stage: reads the source's words and dispatches the upload.
Stage(k) == /\ cached' = cached \cup { Src(k) }
            /\ uploads' = uploads \cup { Src(k) }

\* A dispatched upload lands whenever the runtime gets to it.
Land == /\ \E s \in uploads : uploads' = uploads \ { s }
        /\ UNCHANGED <<sources, owned, pc, i, cached, staged, provers, sections, interned,
                       contribs, seed, results, values>>

\* prover_for: a prover built now uploads the sections of its source's key.
ProverFor(k) ==
    IF \E p \in provers : p[1] = Family(k) THEN UNCHANGED <<provers, sections>>
    ELSE /\ provers' = provers \cup { << Family(k), Src(k) >> }
         /\ sections' = sections \cup { Src(k) }

ReleaseShapeCaches == interned' = FALSE

\* Mutant: the prover goes, its key's sections stay.
DropFamilyKeepingSections(k) ==
    IF ~owned /\ (k = Len(sources) \/ Family(k + 1) # Family(k))
    THEN /\ provers' = { p \in provers : p[1] # Family(k) }
         /\ ReleaseShapeCaches
         /\ UNCHANGED sections
    ELSE UNCHANGED <<provers, sections, interned>>

\* The end of a run of one family: its prover, the sections its key uploaded
\* and the interned constants go.
DropFamily(k) ==
    IF ~owned /\ (k = Len(sources) \/ Family(k + 1) # Family(k))
    THEN /\ provers' = { p \in provers : p[1] # Family(k) }
         /\ sections' = sections \ { p[2] : p \in { q \in provers : q[1] = Family(k) } }
         /\ ReleaseShapeCaches
    ELSE UNCHANGED <<provers, sections, interned>>

Start ==
    /\ pc = "start"
    /\ Stage(1)
    /\ staged' = Src(1)
    /\ pc' = "commit"
    /\ UNCHANGED <<sources, owned, i, provers, sections, interned, contribs, seed, results, values>>

\* Phase 1: the claim, and the commit of the staged trace is dispatched.
Commit ==
    /\ pc = "commit"
    /\ ProverFor(i)
    /\ pc' = "release"
    /\ UNCHANGED <<sources, owned, i, cached, uploads, staged, interned, contribs, seed, results,
                   values>>

ReleaseHost == cached' = cached \ { Src(i) }

Release ==
    /\ pc = "release"
    /\ ReleaseHost
    /\ pc' = "lookahead"
    /\ UNCHANGED <<sources, owned, i, uploads, staged, provers, sections, interned, contribs,
                   seed, results, values>>

Lookahead ==
    /\ pc = "lookahead"
    /\ IF i < Len(sources)
       THEN Stage(i + 1) /\ staged' = Src(i + 1)
       ELSE staged' = NoInstance /\ UNCHANGED <<cached, uploads>>
    /\ pc' = "root"
    /\ UNCHANGED <<sources, owned, i, provers, sections, interned, contribs, seed, results, values>>

\* Mutant: the stage-1 values are left out of the hash.
ContributionWithoutValues(k) == << Verkey(Family(k)), RootOf(k), <<>> >>

\* instance_contribution: the verkey, the root, the stage-1 air values.
Contribution(k) == << Verkey(Family(k)), RootOf(k), sources[k].airvalues >>

\* The root is read once the trace has landed and the commit has run.
ReadRoot ==
    /\ pc = "root"
    /\ Src(i) \notin uploads
    /\ DropFamily(i)
    /\ contribs' = Append(contribs, Contribution(i))
    /\ IF i < Len(sources) THEN i' = i + 1 /\ pc' = "commit"
                           ELSE i' = 1 /\ pc' = "seed"
    /\ UNCHANGED <<sources, owned, cached, uploads, staged, seed, results, values>>

\* aggregate_contributions: a sum, whatever the order.
Aggregate(cs) == FoldLeft(LAMBDA b, c : b (+) SetToBag({ c }), EmptyBag, cs)

\* Phase 2: global_challenge.
DeriveSeed ==
    /\ pc = "seed"
    /\ seed' = << Publics, ProofValues, Aggregate(contribs) >>
    /\ pc' = "prove"
    /\ UNCHANGED <<sources, owned, i, cached, uploads, staged, provers, sections, interned,
                   contribs, results, values>>

AirGroupValue(k) ==
    Updates(sources[k].trace)
    \o (IF Family(k) = "Main" THEN Interactions(FromNamed(sources[k].airvalues)) ELSE <<>>)

\* Phase 3: the trace staged again, and the whole schedule under the seed.
Prove ==
    /\ pc = "prove"
    /\ ProverFor(i)
    /\ Stage(i)
    /\ interned' = TRUE
    /\ results' = Append(results, [instance |-> Src(i), seed |-> seed, root |-> RootOf(i),
                                   airgroup |-> AirGroupValue(i)])
    /\ pc' = "settle"
    /\ UNCHANGED <<sources, owned, i, staged, contribs, seed, values>>

\* The proof is out: nothing of the instance survives, nor its family's
\* prover after the last of a run.
Settle ==
    /\ pc = "settle"
    /\ Src(i) \notin uploads
    /\ ReleaseHost
    /\ DropFamily(i)
    /\ IF i < Len(sources) THEN i' = i + 1 /\ pc' = "prove"
                           ELSE i' = i /\ pc' = "bind"
    /\ UNCHANGED <<sources, owned, uploads, staged, contribs, seed, results, values>>

\* Phase 4: aggregate_airgroupvalues and the global constraints.
Bind ==
    /\ pc = "bind"
    /\ values' = FlattenSeq([k \in DOMAIN results |-> results[k].airgroup]) \o GlobalUpdates
    /\ pc' = "done"
    /\ UNCHANGED <<sources, owned, i, cached, uploads, staged, provers, sections, interned,
                   contribs, seed, results>>

Finished == pc = "done" /\ UNCHANGED vars

Next == \/ Start \/ Commit \/ Release \/ Lookahead \/ ReadRoot \/ DeriveSeed
        \/ Prove \/ Settle \/ Bind \/ Land \/ Finished

Spec == Init /\ [][Next]_vars

-----------------------------------------------------------------------------
Instances == { Src(k) : k \in DOMAIN sources }

Phases == { "start", "commit", "release", "lookahead", "root", "seed", "prove", "settle",
            "bind", "done" }

\* The driver stands at one instance, at the first when a phase begins, and no
\* prover is without its sections.
TypeOK ==
    /\ sources \in Blocks /\ owned \in BOOLEAN /\ interned \in BOOLEAN
    /\ i \in DOMAIN sources /\ pc \in Phases
    /\ pc \in { "start", "seed" } => i = 1
    /\ cached \subseteq Instances /\ uploads \subseteq Instances /\ sections \subseteq Instances
    /\ staged \in Instances \cup { NoInstance }
    /\ \A p \in provers : p[2] \in sections

\* What survives: never two traces on the host, nor an upload nobody waits
\* for but the lookahead's; without a caller's cache one prover, its key's
\* sections and nothing else, and at the end not a thing.
ResidencyIsBounded ==
    /\ Cardinality(cached) <= 1
    /\ Cardinality(uploads) <= 2
    /\ sections = { p[2] : p \in provers }
    /\ ~owned => Cardinality(provers) <= 1
    /\ pc \in { "bind", "done" } =>
           /\ cached = {} /\ uploads = {}
           /\ ~owned => provers = {} /\ ~interned

\* What a block's seed must be: the publics, the proof values and, whatever
\* the order, one contribution of every instance with all it commits to.
WholeBlockSeed ==
    LET committed(k) == << Verkey(Family(k)), sources[k].trace, sources[k].airvalues >>
    IN << Publics, ProofValues,
          [c \in { committed(k) : k \in DOMAIN sources } |->
              Cardinality({ k \in DOMAIN sources : committed(k) = c })] >>

\* No proof is seeded before every commitment is in: each is made under the
\* seed of the whole block, of the trace its contribution committed.
ProofsAreSeededByTheBlock ==
    \A k \in DOMAIN results :
        /\ results[k].seed = WholeBlockSeed
        /\ contribs[k][2] = results[k].root

-----------------------------------------------------------------------------
(* What these rest on (module BlockCompositeProofs).                       *)

Committing == { "start", "commit", "release", "lookahead", "root" }

Lookaheads == { Src(k) : k \in { i + 1 } \cap DOMAIN sources }

\* The trace on the host and the uploads under way are those of the instance
\* the driver stands at, until it has looked ahead.
TracesAreThisTurns ==
    /\ cached = IF pc \in { "commit", "release", "settle" } THEN { Src(i) }
                ELSE IF pc = "root" THEN Lookaheads ELSE {}
    /\ uploads \subseteq IF pc \in { "commit", "release", "lookahead", "settle" } THEN { Src(i) }
                         ELSE IF pc = "root" THEN { Src(i) } \cup Lookaheads ELSE {}

\* A family has one prover, and without a caller's cache only the family the
\* driver is at has one, and only while there is something to commit or prove.
ProversAreThisFamilys ==
    /\ sections = { p[2] : p \in provers }
    /\ \A p, q \in provers : p[1] = q[1] => p = q
    /\ ~owned =>
          /\ \A p \in provers : p[1] = Family(i)
          /\ pc \in { "seed", "bind", "done" } => provers = {}
          /\ interned => pc \in { "prove", "settle" }

Result(k) == [instance |-> Src(k), seed |-> WholeBlockSeed, root |-> RootOf(k),
              airgroup |-> AirGroupValue(k)]

\* How many instances are committed and how many proved.
Committed == IF pc \in Committing THEN i - 1 ELSE Len(sources)

Proved == IF pc \in Committing \cup { "seed" } THEN 0
          ELSE IF pc = "prove" THEN i - 1 ELSE IF pc = "settle" THEN i ELSE Len(sources)

\* Contributions and results are in the order of the sources, and between them
\* the seed of the whole block.
BlockIsInOrder ==
    /\ contribs = [k \in 1..Committed |-> Contribution(k)]
    /\ seed = IF pc \in Committing \cup { "seed" } THEN NoSeed ELSE WholeBlockSeed
    /\ results = [k \in 1..Proved |-> Result(k)]

IInv ==
    /\ TypeOK /\ ResidencyIsBounded /\ ProofsAreSeededByTheBlock
    /\ TracesAreThisTurns /\ ProversAreThisFamilys /\ BlockIsInOrder
=============================================================================
