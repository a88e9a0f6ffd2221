------------------------ MODULE BlockCompositeProofs ------------------------
(***************************************************************************)
(* Proofs about BlockComposite: that a block's seed counts every           *)
(* contribution, and what survives from one instance to the next.          *)
(***************************************************************************)
EXTENDS BlockComposite, FiniteFacts

-----------------------------------------------------------------------------
(* The sum of the contributions.                                           *)

\* `g` sums the members of a sequence at every set of its places, the way
\* FoldLeft does: the last of them over the rest.
Unfolds(g, cs) ==
    g = [s \in SUBSET DOMAIN cs |->
            IF s = {} THEN EmptyBag ELSE g[s \ {Max(s)}] (+) SetToBag({ cs[Max(s)] })]

LEMMA AggregateFolds ==
    ASSUME NEW cs
    PROVE  Aggregate(cs) = (CHOOSE g : Unfolds(g, cs))[DOMAIN cs]
BY DEF Aggregate, FoldLeft, MapThenFoldSet, Unfolds

\* How often each member stands at these places.
CountsAt(cs, s) ==
    [c \in { cs[k] : k \in s } |-> Cardinality({ k \in s : cs[k] = c })]

LEMMA MaxIsGreatest ==
    ASSUME NEW s, IsFiniteSet(s), s # {}, \A k \in s : k \in Nat
    PROVE  Max(s) \in s /\ \A k \in s : k <= Max(s)
  BY HighestIsGreatest DEF Highest, Max

\* One place more is one member more in the bag.
LEMMA CountsAdd ==
    ASSUME NEW cs, NEW s, IsFiniteSet(s), NEW m \in s
    PROVE  CountsAt(cs, s) = CountsAt(cs, s \ {m}) (+) SetToBag({ cs[m] })
<1> DEFINE r == s \ {m}
           at(t, c) == { k \in t : cs[k] = c }
           B == CountsAt(cs, r)
           one == SetToBag({ cs[m] })
<1>1. DOMAIN B = { cs[k] : k \in r } /\ DOMAIN one = { cs[m] } /\ one[cs[m]] = 1
  BY DEF CountsAt, SetToBag
<1>2. DOMAIN B \cup DOMAIN one = { cs[k] : k \in s }
  BY <1>1
<1>3. ASSUME NEW c
      PROVE  /\ IsFiniteSet(at(r, c)) /\ Cardinality(at(r, c)) \in Nat
             /\ c # cs[m] => at(s, c) = at(r, c)
             /\ c = cs[m] => Cardinality(at(s, c)) = Cardinality(at(r, c)) + 1
             /\ c \notin { cs[k] : k \in r } => Cardinality(at(r, c)) = 0
  <2>1. at(r, c) \subseteq s
    OBVIOUS
  <2>2. c = cs[m] => at(s, c) = at(r, c) \cup {m} /\ m \notin at(r, c)
    OBVIOUS
  <2>3. c # cs[m] => at(s, c) = at(r, c)
    OBVIOUS
  <2>4. c \notin { cs[k] : k \in r } => at(r, c) = {}
    OBVIOUS
  <2> HIDE DEF at
  <2>5. IsFiniteSet(at(r, c))
    BY <2>1, FS_Subset
  <2>6. Cardinality(at(r, c)) \in Nat
    BY <2>5, FS_CardinalityType
  <2>7. m \notin at(r, c) => Cardinality(at(r, c) \cup {m}) = Cardinality(at(r, c)) + 1
    BY <2>5, FS_AddElement
  <2>8. QED
    BY <2>2, <2>3, <2>4, <2>5, <2>6, <2>7, FS_EmptySet
<1>4. B (+) one = [c \in { cs[k] : k \in s } |->
                      (IF c \in DOMAIN B THEN B[c] ELSE 0)
                      + (IF c \in DOMAIN one THEN one[c] ELSE 0)]
  BY <1>2 DEF (+)
<1>5. ASSUME NEW c \in { cs[k] : k \in s }
      PROVE  (IF c \in DOMAIN B THEN B[c] ELSE 0) + (IF c \in DOMAIN one THEN one[c] ELSE 0)
                 = Cardinality(at(s, c))
  <2>1. (IF c \in DOMAIN B THEN B[c] ELSE 0) = Cardinality(at(r, c))
    BY <1>1, <1>3 DEF CountsAt
  <2>2. (IF c \in DOMAIN one THEN one[c] ELSE 0) = IF c = cs[m] THEN 1 ELSE 0
    BY <1>1
  <2>3. Cardinality(at(s, c)) = Cardinality(at(r, c)) + (IF c = cs[m] THEN 1 ELSE 0)
    <3> HIDE DEF at
    <3>1. QED
      BY <1>3
  <2> HIDE DEF at, B, one
  <2>4. QED
    BY <2>1, <2>2, <2>3
<1>6. CountsAt(cs, s) = [c \in { cs[k] : k \in s } |-> Cardinality(at(s, c))]
  BY DEF CountsAt
<1> HIDE DEF at, B, one
<1>7. B (+) one = CountsAt(cs, s)
  BY <1>4, <1>5, <1>6
<1>8. QED
  BY <1>7 DEF B, one

\* The counts of every set of places are what FoldLeft sums.
LEMMA CountsUnfold ==
    ASSUME NEW cs, NEW n \in Nat, DOMAIN cs = 1..n
    PROVE  Unfolds([s \in SUBSET DOMAIN cs |-> CountsAt(cs, s)], cs)
<1> DEFINE G == [s \in SUBSET DOMAIN cs |-> CountsAt(cs, s)]
<1>1. ASSUME NEW s \in SUBSET DOMAIN cs
      PROVE  G[s] = IF s = {} THEN EmptyBag ELSE G[s \ {Max(s)}] (+) SetToBag({ cs[Max(s)] })
  <2>1. IsFiniteSet(1..n) /\ s \subseteq 1..n
    BY FS_Interval
  <2>2. IsFiniteSet(s) /\ \A k \in s : k \in Nat
    BY <2>1, FS_Subset
  <2>3. CASE s = {}
    BY <2>3 DEF CountsAt, EmptyBag, SetToBag
  <2>4. CASE s # {}
    <3>1. Max(s) \in s
      BY <2>2, <2>4, MaxIsGreatest
    <3> DEFINE m == Max(s)
    <3>2. m \in s
      BY <3>1
    <3> HIDE DEF m
    <3>3. CountsAt(cs, s) = CountsAt(cs, s \ {m}) (+) SetToBag({ cs[m] })
      BY <2>2, <3>2, CountsAdd
    <3>4. s \ {m} \in SUBSET DOMAIN cs
      OBVIOUS
    <3>5. G[s] = CountsAt(cs, s) /\ G[s \ {m}] = CountsAt(cs, s \ {m})
      BY <3>4
    <3>6. QED
      BY <2>4, <3>3, <3>5 DEF m
  <2>5. QED
    BY <2>3, <2>4
<1> DEFINE step == [s \in SUBSET DOMAIN cs |->
                       IF s = {} THEN EmptyBag
                       ELSE G[s \ {Max(s)}] (+) SetToBag({ cs[Max(s)] })]
<1>2. \A s \in SUBSET DOMAIN cs : G[s] = step[s]
  BY <1>1
<1>3. G = [s \in SUBSET DOMAIN cs |-> G[s]] /\ step = [s \in SUBSET DOMAIN cs |-> step[s]]
  OBVIOUS
<1>4. G = step
  <2> HIDE DEF G, step
  <2>1. QED
    BY <1>2, <1>3
<1>5. QED
  BY <1>4 DEF Unfolds

\* And nothing else is: a smallest set of places at which another sum differed
\* would differ one place earlier.
LEMMA UnfoldingIsCounting ==
    ASSUME NEW cs, NEW n \in Nat, DOMAIN cs = 1..n, NEW g, Unfolds(g, cs)
    PROVE  g[DOMAIN cs] = CountsAt(cs, DOMAIN cs)
<1> DEFINE A == DOMAIN cs
           F == { s \in SUBSET A : g[s] # CountsAt(cs, s) }
<1>1. IsFiniteSet(A)
  BY FS_Interval
<1>2. A \in SUBSET A /\ F \in SUBSET (SUBSET A)
  OBVIOUS
<1>3. SUFFICES ASSUME F # {} PROVE FALSE
  BY <1>2
<1> HIDE DEF F, A
<1>4. PICK s \in F : \A u \in F : u \subseteq s => u = s
  BY <1>1, <1>2, <1>3, MinimalMember
<1>5. s \in SUBSET A /\ g[s] # CountsAt(cs, s)
  BY <1>4 DEF F
<1>6. IsFiniteSet(s) /\ \A k \in s : k \in Nat
  BY <1>1, <1>5, FS_Subset DEF A
<1>7. g[s] = IF s = {} THEN EmptyBag ELSE g[s \ {Max(s)}] (+) SetToBag({ cs[Max(s)] })
  <2>1. g = [t \in SUBSET A |->
                IF t = {} THEN EmptyBag ELSE g[t \ {Max(t)}] (+) SetToBag({ cs[Max(t)] })]
    BY DEF Unfolds, A
  <2>2. QED
    BY <1>5, <2>1
<1>8. s # {}
  <2>1. CountsAt(cs, {}) = EmptyBag
    BY DEF CountsAt, EmptyBag, SetToBag
  <2>2. QED
    BY <1>5, <1>7, <2>1
<1> DEFINE m == Max(s)
<1>9. m \in s
  BY <1>6, <1>8, MaxIsGreatest
<1>10. g[s] = g[s \ {m}] (+) SetToBag({ cs[m] })
  BY <1>7, <1>8
<1> HIDE DEF m
<1>11. g[s \ {m}] = CountsAt(cs, s \ {m})
  <2>1. s \ {m} \in SUBSET A /\ s \ {m} \subseteq s /\ s \ {m} # s
    BY <1>5, <1>9
  <2>2. s \ {m} \notin F
    BY <1>4, <2>1
  <2>3. QED
    BY <2>1, <2>2 DEF F
<1>12. CountsAt(cs, s) = CountsAt(cs, s \ {m}) (+) SetToBag({ cs[m] })
  BY <1>6, <1>9, CountsAdd
<1>13. QED
  BY <1>5, <1>10, <1>11, <1>12

\* aggregate_contributions: whatever their order, the sum says of each
\* contribution how many instances made it, and nothing else.
THEOREM AggregateCounts ==
    ASSUME NEW cs, NEW n \in Nat, DOMAIN cs = 1..n
    PROVE  Aggregate(cs) = CountsAt(cs, 1..n)
<1> DEFINE g == CHOOSE h : Unfolds(h, cs)
<1>1. \E h : Unfolds(h, cs)
  BY CountsUnfold
<1>2. Unfolds(g, cs)
  BY <1>1
<1>3. Aggregate(cs) = g[DOMAIN cs]
  BY AggregateFolds
<1> HIDE DEF g
<1>4. QED
  BY <1>2, <1>3, UnfoldingIsCounting

-----------------------------------------------------------------------------
(* Where the driver is.                                                    *)

LEMMA AppendNext ==
    ASSUME NEW n \in Nat, NEW r
    PROVE  Append([k \in 1..n |-> r[k]], r[n + 1]) = [k \in 1..(n + 1) |-> r[k]]
OBVIOUS

LEMMA SourcesAreInOrder ==
    ASSUME TypeOK
    PROVE  Len(sources) \in Nat \ {0} /\ DOMAIN sources = 1..Len(sources) /\ i \in 1..Len(sources)
BY BlocksAssumption DEF TypeOK

\* Neither the sources nor what is made of them changes.
LEMMA SourcesStay ==
    ASSUME [Next]_vars
    PROVE  /\ sources' = sources /\ owned' = owned
           /\ Instances' = Instances
           /\ WholeBlockSeed' = WholeBlockSeed
<1>1. sources' = sources /\ owned' = owned
  BY DEF Next, vars, Start, Commit, Release, Lookahead, ReadRoot, DeriveSeed, Prove, Settle,
         Bind, Land, Finished
<1>2. QED
  BY <1>1 DEF Instances, WholeBlockSeed, Src, Family

\* A turn ends with the next instance of the sources, if there is one.
LEMMA PlaceStays ==
    ASSUME TypeOK, [Next]_vars
    PROVE  i' \in DOMAIN sources /\ pc' \in Phases /\ (pc' \in { "start", "seed" } => i' = 1)
<1>1. Len(sources) \in Nat \ {0} /\ DOMAIN sources = 1..Len(sources) /\ i \in 1..Len(sources)
  BY SourcesAreInOrder
<1> DEFINE n == Len(sources)
<1> HIDE DEF n
<1>2. /\ n \in Nat \ {0} /\ DOMAIN sources = 1..n /\ i \in 1..n /\ pc \in Phases
      /\ pc \in { "start", "seed" } => i = 1
  BY <1>1 DEF n, TypeOK
<1>3. CASE Start \/ Commit \/ Release \/ Lookahead \/ DeriveSeed \/ Prove \/ Bind
  BY <1>2, <1>3 DEF Start, Commit, Release, Lookahead, DeriveSeed, Prove, Bind, Phases
<1>4. CASE ReadRoot
  <2>1. IF i < n THEN i' = i + 1 /\ pc' = "commit" ELSE i' = 1 /\ pc' = "seed"
    BY <1>4 DEF ReadRoot, n
  <2>2. QED
    BY <1>2, <2>1 DEF Phases
<1>5. CASE Settle
  <2>1. IF i < n THEN i' = i + 1 /\ pc' = "prove" ELSE i' = i /\ pc' = "bind"
    BY <1>5 DEF Settle, n
  <2>2. QED
    BY <1>2, <2>1 DEF Phases
<1>6. CASE Land \/ Finished \/ UNCHANGED vars
  BY <1>2, <1>6 DEF Land, Finished, vars
<1>7. QED
  BY <1>3, <1>4, <1>5, <1>6 DEF Next

-----------------------------------------------------------------------------
(* The traces.                                                             *)

LEMMA TracesStart == Init => TracesAreThisTurns
BY DEF Init, TracesAreThisTurns

LEMMA TracesStep ==
    ASSUME TypeOK, TracesAreThisTurns, [Next]_vars
    PROVE  TracesAreThisTurns'
<1> DEFINE n == Len(sources)
<1>1. n \in Nat \ {0} /\ DOMAIN sources = 1..n /\ i \in 1..n
  BY SourcesAreInOrder
<1>2. sources' = sources
  BY SourcesStay
<1>3. Lookaheads = IF i < n THEN { Src(i + 1) } ELSE {}
  BY <1>1 DEF Lookaheads
<1>4. /\ cached = IF pc \in { "commit", "release", "settle" } THEN { Src(i) }
                  ELSE IF pc = "root" THEN Lookaheads ELSE {}
      /\ uploads \subseteq
             IF pc \in { "commit", "release", "lookahead", "settle" } THEN { Src(i) }
             ELSE IF pc = "root" THEN { Src(i) } \cup Lookaheads ELSE {}
  BY DEF TracesAreThisTurns
<1> HIDE DEF n
<1>5. SUFFICES
        /\ cached' = IF pc' \in { "commit", "release", "settle" } THEN { Src(i') }
                     ELSE IF pc' = "root" THEN Lookaheads' ELSE {}
        /\ uploads' \subseteq
               IF pc' \in { "commit", "release", "lookahead", "settle" } THEN { Src(i') }
               ELSE IF pc' = "root" THEN { Src(i') } \cup Lookaheads' ELSE {}
  BY <1>2 DEF TracesAreThisTurns, Src
<1>6. i' = i => Lookaheads' = Lookaheads
  BY <1>2 DEF Lookaheads, Src
<1>7. CASE Start
  <2>1. i = 1 /\ i' = i
    BY <1>7 DEF Start, TypeOK
  <2>2. QED
    BY <1>4, <1>7, <2>1 DEF Start, Stage
<1>8. CASE Commit
  BY <1>4, <1>8 DEF Commit
<1>9. CASE Release
  BY <1>4, <1>9 DEF Release, ReleaseHost
<1>10. CASE Lookahead
  BY <1>3, <1>4, <1>6, <1>10 DEF Lookahead, Stage, n
<1>11. CASE ReadRoot
  <2>1. IF i < n THEN i' = i + 1 /\ pc' = "commit" ELSE i' = 1 /\ pc' = "seed"
    BY <1>11 DEF ReadRoot, n
  <2>2. pc = "root" /\ cached' = cached /\ uploads' = uploads /\ Src(i) \notin uploads
    BY <1>11 DEF ReadRoot
  <2>3. QED
    BY <1>3, <1>4, <2>1, <2>2
<1>12. CASE DeriveSeed
  BY <1>4, <1>12 DEF DeriveSeed
<1>13. CASE Prove
  BY <1>4, <1>13 DEF Prove, Stage
<1>14. CASE Settle
  <2>1. IF i < n THEN i' = i + 1 /\ pc' = "prove" ELSE i' = i /\ pc' = "bind"
    BY <1>14 DEF Settle, n
  <2>2. pc = "settle" /\ cached' = cached \ { Src(i) } /\ uploads' = uploads /\ Src(i) \notin uploads
    BY <1>14 DEF Settle, ReleaseHost
  <2>3. QED
    BY <1>4, <2>1, <2>2
<1>15. CASE Bind
  BY <1>4, <1>15 DEF Bind
<1>16. CASE Land
  BY <1>4, <1>6, <1>16 DEF Land
<1>17. CASE Finished \/ UNCHANGED vars
  BY <1>4, <1>6, <1>17 DEF Finished, vars
<1>18. QED
  BY <1>7, <1>8, <1>9, <1>10, <1>11, <1>12, <1>13, <1>14, <1>15, <1>16, <1>17 DEF Next

-----------------------------------------------------------------------------
(* The provers and their sections.                                         *)

LEMMA ProversStart == Init => ProversAreThisFamilys
BY DEF Init, ProversAreThisFamilys

\* prover_for finds the family's prover or makes the only one.
LEMMA ProverForKeeps ==
    ASSUME ProversAreThisFamilys, ProverFor(i)
    PROVE  /\ sections' = { p[2] : p \in provers' }
           /\ \A p, q \in provers' : p[1] = q[1] => p = q
           /\ ~owned => \A p \in provers' : p[1] = Family(i)
<1>1. CASE \E p \in provers : p[1] = Family(i)
  BY <1>1 DEF ProverFor, ProversAreThisFamilys
<1>2. CASE ~ \E p \in provers : p[1] = Family(i)
  <2> DEFINE new == << Family(i), Src(i) >>
  <2>1. provers' = provers \cup { new } /\ sections' = sections \cup { Src(i) }
    BY <1>2 DEF ProverFor
  <2>2. new[1] = Family(i) /\ new[2] = Src(i)
    OBVIOUS
  <2> HIDE DEF new
  <2>3. QED
    BY <1>2, <2>1, <2>2 DEF ProversAreThisFamilys
<1>3. QED
  BY <1>1, <1>2

\* drop_family: after the last of a run of a family nothing of it is left, and
\* the next instance is of the family of this one otherwise.
LEMMA DropFamilyKeeps ==
    ASSUME TypeOK, ProversAreThisFamilys, DropFamily(i)
    PROVE  /\ sections' = { p[2] : p \in provers' }
           /\ \A p, q \in provers' : p[1] = q[1] => p = q
           /\ ~owned => /\ i = Len(sources) => provers' = {}
                        /\ i # Len(sources) => \A p \in provers' : p[1] = Family(i + 1)
                        /\ (provers' = {} /\ ~interned') \/ Family(i + 1) = Family(i)
                        /\ i = Len(sources) => ~interned'
                        /\ interned' => interned
<1>1. CASE ~owned /\ (i = Len(sources) \/ Family(i + 1) # Family(i))
  <2>1. \A p \in provers : p[1] = Family(i)
    BY <1>1 DEF ProversAreThisFamilys
  <2>2. provers' = {} /\ ~interned'
        /\ sections' = sections \ { p[2] : p \in { q \in provers : q[1] = Family(i) } }
    BY <1>1, <2>1 DEF DropFamily, ReleaseShapeCaches
  <2>3. sections' = {}
    BY <2>1, <2>2 DEF ProversAreThisFamilys
  <2>4. QED
    BY <1>1, <2>2, <2>3
<1>2. CASE ~(~owned /\ (i = Len(sources) \/ Family(i + 1) # Family(i)))
  <2>1. UNCHANGED <<provers, sections, interned>>
    BY <1>2 DEF DropFamily
  <2>2. QED
    BY <1>2, <2>1 DEF ProversAreThisFamilys
<1>3. QED
  BY <1>1, <1>2

LEMMA ProversStep ==
    ASSUME TypeOK, ProversAreThisFamilys, [Next]_vars
    PROVE  ProversAreThisFamilys'
<1> DEFINE n == Len(sources)
<1>1. n \in Nat \ {0} /\ i \in 1..n
  BY SourcesAreInOrder
<1> HIDE DEF n
<1>2. sources' = sources /\ owned' = owned
  BY SourcesStay
<1>3. SUFFICES /\ sections' = { p[2] : p \in provers' }
               /\ \A p, q \in provers' : p[1] = q[1] => p = q
               /\ ~owned => /\ \A p \in provers' : p[1] = Family(i')
                            /\ pc' \in { "seed", "bind", "done" } => provers' = {}
                            /\ interned' => pc' \in { "prove", "settle" }
  BY <1>2 DEF ProversAreThisFamilys, Family
<1>4. CASE Commit
  BY <1>4, ProverForKeeps DEF Commit, ProversAreThisFamilys
<1>5. CASE Prove
  BY <1>5, ProverForKeeps DEF Prove
<1>6. CASE ReadRoot
  <2>1. IF i < n THEN i' = i + 1 /\ pc' = "commit" ELSE i' = 1 /\ pc' = "seed"
    BY <1>6 DEF ReadRoot, n
  <2>2. DropFamily(i) /\ pc = "root"
    BY <1>6 DEF ReadRoot
  <2>3. ~owned => ~interned
    BY <2>2 DEF ProversAreThisFamilys
  <2>4. QED
    BY <1>1, <2>1, <2>2, <2>3, DropFamilyKeeps DEF n
<1>7. CASE Settle
  <2>1. IF i < n THEN i' = i + 1 /\ pc' = "prove" ELSE i' = i /\ pc' = "bind"
    BY <1>7 DEF Settle, n
  <2>2. DropFamily(i)
    BY <1>7 DEF Settle
  <2>3. QED
    BY <1>1, <2>1, <2>2, DropFamilyKeeps DEF n
<1>8. CASE DeriveSeed
  BY <1>8 DEF DeriveSeed, ProversAreThisFamilys
<1>9. CASE Start \/ Release \/ Lookahead \/ Bind
  BY <1>9 DEF Start, Release, Lookahead, Bind, ProversAreThisFamilys
<1>10. CASE Land \/ Finished \/ UNCHANGED vars
  BY <1>10 DEF Land, Finished, vars, ProversAreThisFamilys
<1>11. QED
  BY <1>4, <1>5, <1>6, <1>7, <1>8, <1>9, <1>10 DEF Next

-----------------------------------------------------------------------------
(* The order of the block.                                                 *)

LEMMA OrderStart == Init => BlockIsInOrder
<1>1. ASSUME Init PROVE BlockIsInOrder
  <2>1. Committed = 0 /\ Proved = 0
    BY <1>1 DEF Init, Committed, Proved, Committing
  <2>2. contribs = <<>> /\ results = <<>> /\ seed = NoSeed /\ pc \in Committing
    BY <1>1 DEF Init, Committing
  <2>3. [k \in 1..0 |-> Contribution(k)] = <<>> /\ [k \in 1..0 |-> Result(k)] = <<>>
    OBVIOUS
  <2>4. QED
    BY <2>1, <2>2, <2>3 DEF BlockIsInOrder
<1>2. QED
  BY <1>1

\* The seed derived from all the contributions is the whole block's.
LEMMA SeedIsTheBlocks ==
    ASSUME TypeOK, contribs = [k \in 1..Len(sources) |-> Contribution(k)]
    PROVE  << Publics, ProofValues, Aggregate(contribs) >> = WholeBlockSeed
<1> DEFINE n == Len(sources)
           committed(k) == << Verkey(Family(k)), sources[k].trace, sources[k].airvalues >>
<1>1. n \in Nat /\ DOMAIN sources = 1..n
  BY SourcesAreInOrder
<1>2. \A k \in 1..n : contribs[k] = committed(k)
  BY DEF Contribution, RootOf
<1>3. Aggregate(contribs) = CountsAt(contribs, 1..n)
  BY <1>1, AggregateCounts
<1>4. CountsAt(contribs, 1..n) =
          [c \in { committed(k) : k \in 1..n } |->
              Cardinality({ k \in 1..n : committed(k) = c })]
  <2>1. { contribs[k] : k \in 1..n } = { committed(k) : k \in 1..n }
    BY <1>2
  <2>2. \A c : { k \in 1..n : contribs[k] = c } = { k \in 1..n : committed(k) = c }
    BY <1>2
  <2> HIDE DEF committed
  <2>3. QED
    BY <2>1, <2>2 DEF CountsAt
<1>5. WholeBlockSeed = << Publics, ProofValues,
          [c \in { committed(k) : k \in 1..n } |->
              Cardinality({ k \in 1..n : committed(k) = c })] >>
  BY <1>1 DEF WholeBlockSeed
<1>6. QED
  BY <1>3, <1>4, <1>5

LEMMA OrderStep ==
    ASSUME TypeOK, BlockIsInOrder, [Next]_vars
    PROVE  BlockIsInOrder'
<1> DEFINE n == Len(sources)
           C(m) == [k \in 1..m |-> Contribution(k)]
           R(m) == [k \in 1..m |-> Result(k)]
<1>1. n \in Nat \ {0} /\ i \in 1..n /\ pc \in Phases
  BY SourcesAreInOrder DEF TypeOK
<1>2. contribs = C(Committed) /\ results = R(Proved)
      /\ seed = IF pc \in Committing \cup { "seed" } THEN NoSeed ELSE WholeBlockSeed
  BY DEF BlockIsInOrder
<1>3. sources' = sources /\ WholeBlockSeed' = WholeBlockSeed
  BY SourcesStay
<1>4. \A m : C(m)' = C(m) /\ R(m)' = R(m)
  BY <1>3 DEF Contribution, Result, Src, Family, RootOf, AirGroupValue
<1> HIDE DEF C, R, n
<1>5. SUFFICES
        /\ contribs' = C(Committed')
        /\ seed' = IF pc' \in Committing \cup { "seed" } THEN NoSeed ELSE WholeBlockSeed
        /\ results' = R(Proved')
  BY <1>3, <1>4 DEF BlockIsInOrder, C, R
<1>6. CASE Start \/ Commit \/ Release \/ Lookahead
  <2>1. /\ contribs' = contribs /\ results' = results /\ seed' = seed /\ i' = i
        /\ pc \in Committing /\ pc' \in Committing
    BY <1>6 DEF Start, Commit, Release, Lookahead, Committing
  <2>2. Committed' = Committed /\ Proved' = Proved
    BY <2>1 DEF Committed, Proved, Committing
  <2>3. QED
    BY <1>2, <2>1, <2>2
<1>7. CASE ReadRoot
  <2>1. IF i < n THEN i' = i + 1 /\ pc' = "commit" ELSE i' = 1 /\ pc' = "seed"
    BY <1>7 DEF ReadRoot, n
  <2>2. /\ pc = "root" /\ contribs' = Append(contribs, Contribution(i))
        /\ results' = results /\ seed' = seed
    BY <1>7 DEF ReadRoot
  <2>3. Committed = i - 1 /\ Proved = 0 /\ Proved' = 0
    BY <2>1, <2>2 DEF Committed, Proved, Committing
  <2>4. Committed' = i
    BY <1>1, <1>3, <2>1 DEF Committed, Committing, n
  <2>5. Append(C(i - 1), Contribution(i)) = C(i)
    <3> DEFINE r == [k \in 1..i |-> Contribution(k)]
               m == i - 1
    <3>1. m \in Nat /\ m + 1 = i
      BY <1>1
    <3>2. r[i] = Contribution(i) /\ C(m) = [k \in 1..m |-> r[k]] /\ C(i) = [k \in 1..i |-> r[k]]
      BY <1>1 DEF C
    <3> HIDE DEF r, m
    <3>3. Append([k \in 1..m |-> r[k]], r[m + 1]) = [k \in 1..(m + 1) |-> r[k]]
      BY <3>1, AppendNext
    <3>4. QED
      BY <3>1, <3>2, <3>3 DEF m
  <2>6. QED
    BY <1>2, <2>1, <2>2, <2>3, <2>4, <2>5 DEF Committing
<1>8. CASE DeriveSeed
  <2>1. /\ pc = "seed" /\ pc' = "prove" /\ i' = i /\ contribs' = contribs /\ results' = results
        /\ seed' = << Publics, ProofValues, Aggregate(contribs) >>
    BY <1>8 DEF DeriveSeed
  <2>2. Committed = n /\ Committed' = n /\ Proved = 0
    BY <1>3, <2>1 DEF Committed, Proved, Committing, n
  <2>3. Proved' = 0
    BY <2>1 DEF Proved, Committing, TypeOK
  <2>4. seed' = WholeBlockSeed
    BY <1>2, <2>1, <2>2, SeedIsTheBlocks DEF C, n
  <2>5. QED
    BY <1>2, <2>1, <2>2, <2>3, <2>4 DEF Committing
<1>9. CASE Prove
  <2>1. /\ pc = "prove" /\ pc' = "settle" /\ i' = i /\ contribs' = contribs /\ seed' = seed
        /\ results' = Append(results, [instance |-> Src(i), seed |-> seed, root |-> RootOf(i),
                                       airgroup |-> AirGroupValue(i)])
    BY <1>9 DEF Prove
  <2>2. Committed = n /\ Committed' = n /\ Proved = i - 1 /\ Proved' = i
    BY <1>3, <2>1 DEF Committed, Proved, Committing, n
  <2>3. seed = WholeBlockSeed
    BY <1>2, <2>1 DEF Committing
  <2>4. results' = Append(R(i - 1), Result(i))
    BY <1>2, <2>1, <2>2, <2>3 DEF Result
  <2>5. Append(R(i - 1), Result(i)) = R(i)
    <3> DEFINE r == [k \in 1..i |-> Result(k)]
               m == i - 1
    <3>1. m \in Nat /\ m + 1 = i
      BY <1>1
    <3>2. r[i] = Result(i) /\ R(m) = [k \in 1..m |-> r[k]] /\ R(i) = [k \in 1..i |-> r[k]]
      BY <1>1 DEF R
    <3> HIDE DEF r, m
    <3>3. Append([k \in 1..m |-> r[k]], r[m + 1]) = [k \in 1..(m + 1) |-> r[k]]
      BY <3>1, AppendNext
    <3>4. QED
      BY <3>1, <3>2, <3>3 DEF m
  <2>6. QED
    BY <1>2, <2>1, <2>2, <2>3, <2>4, <2>5 DEF Committing
<1>10. CASE Settle
  <2>1. IF i < n THEN i' = i + 1 /\ pc' = "prove" ELSE i' = i /\ pc' = "bind"
    BY <1>10 DEF Settle, n
  <2>2. pc = "settle" /\ contribs' = contribs /\ seed' = seed /\ results' = results
    BY <1>10 DEF Settle
  <2>3. Committed = n /\ Committed' = n /\ Proved = i
    BY <1>3, <2>1, <2>2 DEF Committed, Proved, Committing, n
  <2>4. Proved' = i
    BY <1>1, <1>3, <2>1 DEF Proved, Committing, n
  <2>5. QED
    BY <1>2, <2>1, <2>2, <2>3, <2>4 DEF Committing
<1>11. CASE Bind
  <2>1. /\ pc = "bind" /\ pc' = "done" /\ i' = i
        /\ contribs' = contribs /\ seed' = seed /\ results' = results
    BY <1>11 DEF Bind
  <2>2. Committed' = Committed /\ Proved' = Proved
    BY <1>3, <2>1 DEF Committed, Proved, Committing
  <2>3. QED
    BY <1>2, <2>1, <2>2 DEF Committing
<1>12. CASE Land \/ Finished \/ UNCHANGED vars
  <2>1. /\ pc' = pc /\ i' = i
        /\ contribs' = contribs /\ seed' = seed /\ results' = results
    BY <1>12 DEF Land, Finished, vars
  <2>2. Committed' = Committed /\ Proved' = Proved
    BY <1>3, <2>1 DEF Committed, Proved, Committing
  <2>3. QED
    BY <1>2, <2>1, <2>2
<1>13. QED
  BY <1>6, <1>7, <1>8, <1>9, <1>10, <1>11, <1>12 DEF Next

\* What is kept of the sources is of this block's.
LEMMA TypesStep ==
    ASSUME TypeOK, [Next]_vars, TracesAreThisTurns', ProversAreThisFamilys'
    PROVE  TypeOK'
<1>1. sources' = sources /\ owned' = owned /\ Instances' = Instances
  BY SourcesStay
<1>2. i' \in DOMAIN sources /\ pc' \in Phases /\ (pc' \in { "start", "seed" } => i' = 1)
  BY PlaceStays
<1>3. Src(i)' \in Instances /\ Lookaheads' \subseteq Instances
  BY <1>1, <1>2 DEF Instances, Lookaheads, Src
<1>4. cached' \subseteq Instances /\ uploads' \subseteq Instances
  BY <1>3 DEF TracesAreThisTurns
<1>5. \A p \in provers' : p[2] \in sections'
  BY DEF ProversAreThisFamilys
<1>6. Len(sources) \in Nat \ {0} /\ DOMAIN sources = 1..Len(sources) /\ i \in 1..Len(sources)
  BY SourcesAreInOrder
<1>7. ASSUME NEW k \in DOMAIN sources PROVE Src(k) \in Instances
  BY DEF Instances
<1>8. /\ interned' \in BOOLEAN /\ sections' \subseteq Instances
      /\ staged' \in Instances \cup { NoInstance }
  <2>1. Src(i) \in Instances
    BY <1>6, <1>7
  <2>2. /\ interned \in BOOLEAN /\ sections \subseteq Instances
        /\ staged \in Instances \cup { NoInstance }
    BY DEF TypeOK
  <2>3. CASE Start
    BY <1>6, <1>7, <2>2, <2>3 DEF Start
  <2>4. CASE Commit \/ Prove
    BY <2>1, <2>2, <2>4 DEF Commit, Prove, ProverFor
  <2>5. CASE Lookahead
    <3> DEFINE n == Len(sources)
    <3>1. n \in Nat /\ DOMAIN sources = 1..n /\ i \in 1..n
      BY <1>6
    <3>2. IF i < n THEN staged' = Src(i + 1) ELSE staged' = NoInstance
      BY <2>5 DEF Lookahead
    <3>3. UNCHANGED <<sections, interned>>
      BY <2>5 DEF Lookahead
    <3> HIDE DEF n
    <3>4. QED
      BY <1>7, <2>2, <3>1, <3>2, <3>3
  <2>6. CASE ReadRoot \/ Settle
    BY <2>2, <2>6 DEF ReadRoot, Settle, DropFamily, ReleaseShapeCaches
  <2>7. CASE Release \/ DeriveSeed \/ Bind \/ Land \/ Finished \/ UNCHANGED vars
    BY <2>2, <2>7 DEF Release, DeriveSeed, Bind, Land, Finished, vars
  <2>8. QED
    BY <2>3, <2>4, <2>5, <2>6, <2>7 DEF Next
<1>9. QED
  BY <1>1, <1>2, <1>4, <1>5, <1>8 DEF TypeOK

-----------------------------------------------------------------------------
(* What these amount to.                                                   *)

\* What a block's run is made of follows from where the driver is.
LEMMA ResidencyFollows ==
    ASSUME TypeOK, TracesAreThisTurns, ProversAreThisFamilys
    PROVE  ResidencyIsBounded
<1> DEFINE ahead == Src(i + 1)
           here == Src(i)
<1>1. Lookaheads \subseteq { ahead }
  BY DEF Lookaheads
<1>2. cached = {} \/ (\E s : cached = { s })
  BY <1>1 DEF TracesAreThisTurns
<1>3. uploads \subseteq { here, ahead }
  BY <1>1 DEF TracesAreThisTurns
<1>4. ASSUME NEW S, S = {} \/ \E s : S = { s }
      PROVE  Cardinality(S) <= 1
  <2>1. CASE S = {}
    <3>1. Cardinality({}) = 0
      BY FS_EmptySet
    <3>2. QED
      BY <2>1, <3>1
  <2>2. CASE \E s : S = { s }
    <3>1. PICK s : S = { s }
      BY <2>2
    <3>2. Cardinality({ s }) = 1
      BY FS_Singleton
    <3>3. QED
      BY <3>1, <3>2
  <2>3. QED
    BY <1>4, <2>1, <2>2
<1>5. Cardinality(cached) <= 1
  BY <1>2, <1>4
<1> HIDE DEF here, ahead
<1>6. Cardinality(uploads) <= 2
  <2>1. IsFiniteSet({ here }) /\ Cardinality({ here }) = 1
    BY FS_Singleton
  <2>2. { here, ahead } = { here } \cup { ahead }
    OBVIOUS
  <2>3. IsFiniteSet({ here, ahead }) /\ Cardinality({ here, ahead }) <= 2
    BY <2>1, <2>2, FS_AddElement
  <2>4. Cardinality(uploads) <= Cardinality({ here, ahead })
        /\ Cardinality(uploads) \in Nat /\ Cardinality({ here, ahead }) \in Nat
    BY <1>3, <2>3, FS_Subset, FS_CardinalityType
  <2>5. QED
    BY <2>3, <2>4
<1>7. ~owned => Cardinality(provers) <= 1
  <2>1. ~owned => provers = {} \/ \E p : provers = { p }
    BY DEF ProversAreThisFamilys
  <2>2. QED
    BY <2>1, <1>4
<1>8. pc \in { "bind", "done" } => /\ cached = {} /\ uploads = {}
                                   /\ ~owned => provers = {} /\ ~interned
  BY DEF TracesAreThisTurns, ProversAreThisFamilys
<1>9. QED
  BY <1>5, <1>6, <1>7, <1>8 DEF ResidencyIsBounded, ProversAreThisFamilys

LEMMA SeedingFollows ==
    ASSUME TypeOK, BlockIsInOrder
    PROVE  ProofsAreSeededByTheBlock
<1>1. Len(sources) \in Nat /\ i \in 1..Len(sources)
  BY SourcesAreInOrder
<1>2. ASSUME NEW k \in DOMAIN results
      PROVE  results[k].seed = WholeBlockSeed /\ contribs[k][2] = results[k].root
  <2>1. k \in 1..Proved /\ results[k] = Result(k)
    BY <1>2 DEF BlockIsInOrder
  <2>2. pc \notin Committing \cup { "seed" }
    BY <2>1 DEF Proved
  <2>3. Committed = Len(sources)
    BY <2>2 DEF Committed
  <2>4. k \in 1..Len(sources)
    <3> DEFINE n == Len(sources)
    <3>1. Proved \in { i - 1, i, n }
      BY <2>2 DEF Proved
    <3> HIDE DEF n
    <3>2. n \in Nat /\ i \in 1..n
      BY <1>1 DEF n
    <3>3. QED
      BY <2>1, <3>1, <3>2 DEF n
  <2>5. contribs[k] = Contribution(k)
    BY <2>3, <2>4 DEF BlockIsInOrder
  <2>6. QED
    BY <2>1, <2>5 DEF Contribution, Result
<1>3. QED
  BY <1>2 DEF ProofsAreSeededByTheBlock

-----------------------------------------------------------------------------
\* The inductive invariant: where the driver is says which trace is on the
\* host and which upload is under way, whose prover is there, and how much of
\* the block is committed and proved.
THEOREM BlockInvariant == Spec => []IInv
<1>1. Init => TypeOK
  <2> SUFFICES ASSUME Init PROVE TypeOK
    OBVIOUS
  <2>1. sources \in Blocks /\ i = 1
    BY DEF Init
  <2>2. Len(sources) \in Nat \ {0} /\ DOMAIN sources = 1..Len(sources)
    BY <2>1, BlocksAssumption
  <2>3. i \in DOMAIN sources
    <3> DEFINE n == Len(sources)
    <3> HIDE DEF n
    <3>1. n \in Nat \ {0} /\ DOMAIN sources = 1..n
      BY <2>2 DEF n
    <3>2. QED
      BY <2>1, <3>1
  <2>4. QED
    BY <2>1, <2>3 DEF Init, TypeOK, Phases
<1>2. Init => IInv
  BY <1>1, TracesStart, ProversStart, OrderStart, ResidencyFollows, SeedingFollows DEF IInv
<1>3. IInv /\ [Next]_vars => IInv'
  <2> SUFFICES ASSUME IInv, [Next]_vars PROVE IInv'
    OBVIOUS
  <2>1. TypeOK /\ TracesAreThisTurns /\ ProversAreThisFamilys /\ BlockIsInOrder
    BY DEF IInv
  <2>2. TracesAreThisTurns' /\ ProversAreThisFamilys' /\ BlockIsInOrder'
    BY <2>1, TracesStep, ProversStep, OrderStep
  <2>3. TypeOK'
    BY <2>1, <2>2, TypesStep
  <2>4. ResidencyIsBounded'
    BY <2>2, <2>3, ResidencyFollows, PTL
  <2>5. ProofsAreSeededByTheBlock'
    BY <2>2, <2>3, SeedingFollows, PTL
  <2>6. QED
    BY <2>2, <2>3, <2>4, <2>5 DEF IInv
<1>4. QED
  BY <1>2, <1>3, PTL DEF Spec

\* Never two traces on the host, nor an upload but the one waited for and the
\* lookahead's; a caller without a cache has one prover at a time, and nothing
\* at the end: whatever the block's length and the order of its families.
THEOREM BlockResidencyIsBounded == Spec => []ResidencyIsBounded
<1>1. IInv => ResidencyIsBounded
  BY DEF IInv
<1>2. QED
  BY <1>1, BlockInvariant, PTL

\* Every proof is made under the seed of the whole block, of the trace whose
\* root went into that seed: for a block of any length, in any order.
THEOREM BlockProofsAreSeeded == Spec => []ProofsAreSeededByTheBlock
<1>1. IInv => ProofsAreSeededByTheBlock
  BY DEF IInv
<1>2. QED
  BY <1>1, BlockInvariant, PTL
=============================================================================
