-------------------------- MODULE TranscriptProofs --------------------------
(***************************************************************************)
(* Proofs about Transcript, for every width, rate, size of a challenge and *)
(* number of bits: the folds over a call's elements step by step, then     *)
(* where each step leaves the buffers in the stream.  Then of the grinding *)
(* of InnerProof and Fri, which seeds the query draw, and of Recursion,    *)
(* whose waves of adds are a fold too.                                     *)
(***************************************************************************)
EXTENDS Transcript, InnerProof, Recursion, FiniteFacts

-----------------------------------------------------------------------------
(* The folds.  Each FoldLeft of Transcript, and each loop of Recursion, is *)
(* one of the kinds of Op, which lets one argument serve them all.         *)

Op(kind, e, a, x) ==
    CASE kind = "put" -> PutOne(a, x)
      [] kind = "squeeze" -> SqueezeOne(a, x)
      [] kind = "bit" -> TakeBit(a, x)
      [] kind = "level" -> Relaxed(e.adds, e.size, a)
      [] kind = "add" -> [a EXCEPT ![e.size + x - 1] = AddValue(a, e.adds[x])]
      [] kind = "wave" -> RunWave(a, e.adds, e.size, x)
      [] OTHER -> a \o e[x]

\* `g` folds the members of `s` at every set of its places, the last one last.
Unfolds(g, kind, e, base, s) ==
    g = [T \in SUBSET DOMAIN s |->
            IF T = {} THEN base ELSE Op(kind, e, g[T \ {Max(T)}], s[Max(T)])]

\* The last of some places.
LEMMA MaxOfPlaces ==
    ASSUME NEW n \in Nat, NEW T \in SUBSET (1..n), T # {}
    PROVE  Max(T) \in T /\ \A x \in T : x <= Max(T)
<1>1. IsFiniteSet(1..n)
  BY FS_Interval
<1>2. IsFiniteSet(T)
  BY <1>1, FS_Subset
<1>3. \A x \in T : x \in Nat
  OBVIOUS
<1>4. QED
  BY <1>2, <1>3, HighestIsGreatest DEF Highest, Max

\* There is one such function, by induction on the set of places.
LEMMA FoldExists ==
    ASSUME NEW kind, NEW e, NEW base, NEW s, NEW n \in Nat, DOMAIN s = 1..n
    PROVE  \E g : Unfolds(g, kind, e, base, s)
<1> DEFINE A == 1..n
           Step(g, T) == IF T = {} THEN base ELSE Op(kind, e, g[T \ {Max(T)}], s[Max(T)])
           Good(g, S) == g = [T \in SUBSET S |-> Step(g, T)]
           Bad == { S \in SUBSET A : ~ \E g : Good(g, S) }
<1>1. IsFiniteSet(A) /\ Bad \in SUBSET (SUBSET A)
  BY FS_Interval
<1>2. SUFFICES ASSUME Bad # {} PROVE FALSE
  <2>1. Bad = {} => \E g : Good(g, A)
    OBVIOUS
  <2>2. QED
    BY <1>2, <2>1 DEF Unfolds
<1> HIDE DEF Bad, A
<1>3. PICK S \in Bad : \A U \in Bad : U \subseteq S => U = S
  BY <1>1, <1>2, MinimalMember
<1>4. S \in SUBSET A /\ ~ \E g : Good(g, S)
  BY <1>3 DEF Bad
<1>5. S # {}
  <2>1. SUFFICES ASSUME S = {} PROVE FALSE
    OBVIOUS
  <2> DEFINE g == [T \in SUBSET {} |-> base]
  <2>2. g = [T \in SUBSET {} |-> Step(g, T)]
    OBVIOUS
  <2>3. QED
    BY <1>4, <2>1, <2>2
<1> DEFINE m == Max(S)
<1>6. m \in S /\ \A x \in S : x <= m
  BY <1>4, <1>5, MaxOfPlaces DEF A
<1> HIDE DEF m
<1> DEFINE R == S \ {m}
<1>7. R \in SUBSET A /\ R \subseteq S /\ R # S
  BY <1>4, <1>6
<1>8. PICK g : Good(g, R)
  BY <1>3, <1>7 DEF Bad
<1>9. \A T \in SUBSET S : T # {} => Max(T) \in T /\ \A x \in T : x <= Max(T)
  <2>1. \A T \in SUBSET S : T \in SUBSET (1..n)
    BY <1>4 DEF A
  <2>2. QED
    BY <2>1, MaxOfPlaces
<1>10. \A T \in SUBSET S : m \in T => Max(T) = m
  <2>1. SUFFICES ASSUME NEW T \in SUBSET S, m \in T PROVE Max(T) = m
    OBVIOUS
  <2>2. Max(T) \in T /\ m <= Max(T)
    BY <1>9, <2>1
  <2>3. Max(T) \in S /\ Max(T) <= m
    BY <1>6, <2>2
  <2>4. m \in Nat /\ Max(T) \in Nat
    <3>1. S \subseteq 1..n
      BY <1>4 DEF A
    <3>2. m \in 1..n /\ Max(T) \in 1..n
      BY <1>6, <2>3, <3>1
    <3>3. QED
      BY <3>2
  <2>5. QED
    BY <2>2, <2>3, <2>4
<1> DEFINE h == [T \in SUBSET S |->
                    IF m \in T THEN Op(kind, e, g[T \ {m}], s[m]) ELSE g[T]]
<1>11. ASSUME NEW T \in SUBSET S PROVE h[T] = Step(h, T)
  <2>1. CASE m \in T
    <3>1. Max(T) = m /\ T # {}
      BY <1>10, <2>1
    <3>2. T \ {m} \in SUBSET S /\ m \notin T \ {m}
      OBVIOUS
    <3>3. h[T \ {m}] = g[T \ {m}]
      BY <3>2
    <3>4. h[T] = Op(kind, e, g[T \ {m}], s[m])
      BY <2>1
    <3> HIDE DEF h
    <3>5. QED
      BY <3>1, <3>3, <3>4
  <2>2. CASE m \notin T
    <3>1. T \in SUBSET R
      BY <2>2
    <3>2. g[T] = Step(g, T)
      <4>1. g = [V \in SUBSET R |-> Step(g, V)]
        BY <1>8
      <4> HIDE DEF R
      <4>2. QED
        BY <3>1, <4>1
    <3>3. h[T] = g[T]
      BY <2>2
    <3>4. CASE T = {}
      BY <3>2, <3>3, <3>4
    <3>5. CASE T # {}
      <4>1. T \ {Max(T)} \in SUBSET S /\ m \notin T \ {Max(T)}
        BY <2>2
      <4>2. h[T \ {Max(T)}] = g[T \ {Max(T)}]
        BY <4>1
      <4> HIDE DEF h
      <4>3. QED
        BY <3>2, <3>3, <3>5, <4>2
    <3>6. QED
      BY <3>4, <3>5
  <2>3. QED
    BY <2>1, <2>2
<1>12. Good(h, S)
  <2> DEFINE k == [T \in SUBSET S |-> Step(h, T)]
  <2>1. h = [T \in SUBSET S |-> h[T]] /\ k = [T \in SUBSET S |-> k[T]]
    OBVIOUS
  <2>2. \A T \in SUBSET S : h[T] = k[T]
    BY <1>11
  <2>3. h = k
    <3> HIDE DEF h, k
    <3>1. QED
      BY <2>1, <2>2
  <2>4. QED
    BY <2>3
<1>13. QED
  BY <1>4, <1>12

\* `h` is the fold of the first members of `s`, ...
Walks(h, kind, e, base, s, n) ==
    h[0] = base /\ \A k \in 1..n : h[k] = Op(kind, e, h[k - 1], s[k])

\* ... which is what a fold comes to.
LEMMA StepsOfTheFold ==
    ASSUME NEW kind, NEW e, NEW base, NEW s, NEW n \in Nat, DOMAIN s = 1..n,
           NEW g, Unfolds(g, kind, e, base, s)
    PROVE  \E h : Walks(h, kind, e, base, s, n) /\ h[n] = g[DOMAIN s]
<1> DEFINE h == [k \in 0..n |-> g[1..k]]
<1>1. \A T \in SUBSET DOMAIN s :
          g[T] = IF T = {} THEN base ELSE Op(kind, e, g[T \ {Max(T)}], s[Max(T)])
  <2>1. g = [T \in SUBSET DOMAIN s |->
               IF T = {} THEN base ELSE Op(kind, e, g[T \ {Max(T)}], s[Max(T)])]
    BY DEF Unfolds
  <2>2. QED
    BY <2>1
<1>2. h[0] = base
  <2>1. 1..0 = {} /\ {} \in SUBSET DOMAIN s
    OBVIOUS
  <2>2. g[{}] = base
    BY <1>1, <2>1
  <2>3. QED
    BY <2>1, <2>2
<1>3. ASSUME NEW k \in 1..n PROVE h[k] = Op(kind, e, h[k - 1], s[k])
  <2> DEFINE T == 1..k
  <2>1. T \in SUBSET (1..n) /\ T # {} /\ k \in T /\ \A x \in T : x <= k
    OBVIOUS
  <2>2. Max(T) \in T /\ \A x \in T : x <= Max(T)
    BY <2>1, MaxOfPlaces
  <2>3. Max(T) = k
    BY <2>1, <2>2
  <2>4. T \ {k} = 1..(k - 1)
    OBVIOUS
  <2>5. g[T] = Op(kind, e, g[T \ {k}], s[k])
    <3> HIDE DEF T
    <3>1. QED
      BY <1>1, <2>1, <2>3
  <2>6. h[k] = g[T] /\ h[k - 1] = g[1..(k - 1)]
    OBVIOUS
  <2> HIDE DEF h, T
  <2>7. QED
    BY <2>4, <2>5, <2>6
<1>4. h[n] = g[DOMAIN s]
  OBVIOUS
<1> HIDE DEF h
<1>5. QED
  BY <1>2, <1>3, <1>4 DEF Walks

\* The elements of a put, squeezed lanes, query bits and segments' blocks go one by one.
LEMMA PutAllSteps ==
    ASSUME NEW u, NEW s, NEW n \in Nat, DOMAIN s = 1..n
    PROVE  \E h : /\ h[0] = u /\ h[n] = PutAll(u, s)
                  /\ \A k \in 1..n : h[k] = PutOne(h[k - 1], s[k])
<1> DEFINE g == CHOOSE f : Unfolds(f, "put", <<>>, u, s)
<1>1. Unfolds(g, "put", <<>>, u, s)
  BY FoldExists
<1>2. PutAll(u, s) = g[DOMAIN s]
  BY DEF PutAll, FoldLeft, MapThenFoldSet, Unfolds, Op
<1> HIDE DEF g
<1>3. \E h : Walks(h, "put", <<>>, u, s, n) /\ h[n] = g[DOMAIN s]
  BY <1>1, StepsOfTheFold
<1>4. \A a, x : Op("put", <<>>, a, x) = PutOne(a, x)
  BY DEF Op
<1>5. QED
  BY <1>2, <1>3, <1>4 DEF Walks

LEMMA SqueezeSteps ==
    ASSUME NEW u, NEW n \in Nat
    PROVE  \E h : /\ h[0] = [t |-> u, read |-> <<>>] /\ h[n] = Squeeze(u, n)
                  /\ \A k \in 1..n : h[k] = SqueezeOne(h[k - 1], k)
<1> DEFINE s == [i \in 1..n |-> i]
           base == [t |-> u, read |-> <<>>]
           g == CHOOSE f : Unfolds(f, "squeeze", <<>>, base, s)
<1>1. DOMAIN s = 1..n /\ \A k \in 1..n : s[k] = k
  OBVIOUS
<1>2. Squeeze(u, n) = g[DOMAIN s]
  BY DEF Squeeze, FoldLeft, MapThenFoldSet, Unfolds, Op
<1> HIDE DEF s, base
<1>3. Unfolds(g, "squeeze", <<>>, base, s)
  BY <1>1, FoldExists
<1> HIDE DEF g
<1>4. \E h : Walks(h, "squeeze", <<>>, base, s, n) /\ h[n] = g[DOMAIN s]
  BY <1>1, <1>3, StepsOfTheFold
<1>5. \A a, x : Op("squeeze", <<>>, a, x) = SqueezeOne(a, x)
  BY DEF Op
<1>6. QED
  BY <1>1, <1>2, <1>4, <1>5 DEF base, Walks

\* The bits taken one by one, from the record before the first.
Takes(h, base, n) ==
    /\ h[0] = base /\ h[n] = FoldLeft(TakeBit, base, [i \in 1..n |-> i])
    /\ \A k \in 1..n : h[k] = TakeBit(h[k - 1], k)

LEMMA TakeSteps ==
    ASSUME NEW n \in Nat, NEW base
    PROVE  \E h : Takes(h, base, n)
<1> DEFINE s == [i \in 1..n |-> i]
           g == CHOOSE f : Unfolds(f, "bit", <<>>, base, s)
<1>1. DOMAIN s = 1..n /\ \A k \in 1..n : s[k] = k
  OBVIOUS
<1>2. FoldLeft(TakeBit, base, s) = g[DOMAIN s]
  BY DEF FoldLeft, MapThenFoldSet, Unfolds, Op
<1>3. FoldLeft(TakeBit, base, s) = FoldLeft(TakeBit, base, [i \in 1..n |-> i])
  OBVIOUS
<1> HIDE DEF s
<1>4. Unfolds(g, "bit", <<>>, base, s)
  BY <1>1, FoldExists
<1> HIDE DEF g
<1>5. \E h : Walks(h, "bit", <<>>, base, s, n) /\ h[n] = g[DOMAIN s]
  BY <1>1, <1>4, StepsOfTheFold
<1>6. \A a, x : Op("bit", <<>>, a, x) = TakeBit(a, x)
  BY DEF Op
<1>7. PICK h : Walks(h, "bit", <<>>, base, s, n) /\ h[n] = g[DOMAIN s]
  BY <1>5
<1>8. \A k \in 1..n : h[k] = TakeBit(h[k - 1], k)
  BY <1>1, <1>6, <1>7 DEF Walks
<1>9. h[0] = base /\ h[n] = FoldLeft(TakeBit, base, [i \in 1..n |-> i])
  BY <1>2, <1>3, <1>7 DEF Walks
<1>10. Takes(h, base, n)
  BY <1>8, <1>9 DEF Takes
<1>11. QED
  BY <1>10

\* The blocks of the first segments of a history.
BlocksOver(segs, k) ==
    FoldLeft(LAMBDA b, i : b \o BlocksOf(segs[i], segs[i].read), <<>>, [i \in 1..(k - 1) |-> i])

LEMMA BlocksSteps ==
    ASSUME NEW segs, NEW n \in Nat
    PROVE  \E h : /\ h[0] = <<>> /\ h[n] = BlocksOver(segs, n + 1)
                  /\ \A k \in 1..n : h[k] = h[k - 1] \o BlocksOf(segs[k], segs[k].read)
<1> DEFINE s == [i \in 1..n |-> i]
           e == [i \in 1..n |-> BlocksOf(segs[i], segs[i].read)]
<1>1. DOMAIN s = 1..n /\ \A k \in 1..n : s[k] = k
  OBVIOUS
<1>2. BlocksOver(segs, n + 1) =
          FoldLeft(LAMBDA b, i : b \o BlocksOf(segs[i], segs[i].read), <<>>, s)
  <2>1. (n + 1) - 1 = n
    OBVIOUS
  <2>2. QED
    BY <2>1, Zenon DEF BlocksOver
<1>3. \E f : Unfolds(f, "blocks", e, <<>>, s)
  <2> HIDE DEF s
  <2>1. QED
    BY <1>1, FoldExists
<1> DEFINE step(f) == [T \in SUBSET DOMAIN s |->
                         IF T = {} THEN <<>>
                         ELSE f[T \ {Max(T)}] \o BlocksOf(segs[s[Max(T)]], segs[s[Max(T)]].read)]
<1>4. ASSUME NEW f PROVE Unfolds(f, "blocks", e, <<>>, s) <=> f = step(f)
  <2>1. ASSUME NEW T \in SUBSET DOMAIN s, T # {}
        PROVE  Op("blocks", e, f[T \ {Max(T)}], s[Max(T)])
                   = f[T \ {Max(T)}] \o BlocksOf(segs[s[Max(T)]], segs[s[Max(T)]].read)
    <3>1. Max(T) \in 1..n
      BY <2>1, MaxOfPlaces
    <3>2. \A a : \A k \in 1..n : Op("blocks", e, a, s[k]) = a \o BlocksOf(segs[s[k]], segs[s[k]].read)
      BY DEF Op
    <3> HIDE DEF e, s
    <3>3. QED
      BY <3>1, <3>2
  <2> DEFINE twin == [T \in SUBSET DOMAIN s |->
                IF T = {} THEN <<>> ELSE Op("blocks", e, f[T \ {Max(T)}], s[Max(T)])]
  <2>2. twin = step(f)
    <3> HIDE DEF e, s
    <3>1. QED
      BY <2>1, Zenon
  <2>3. QED
    BY <2>2 DEF Unfolds
<1> DEFINE g == CHOOSE f : f = step(f)
<1>5. Unfolds(g, "blocks", e, <<>>, s)
  <2> HIDE DEF e, s, step
  <2>1. QED
    BY <1>3, <1>4
<1>6. BlocksOver(segs, n + 1) = g[DOMAIN s]
  BY <1>2, Zenon DEF FoldLeft, MapThenFoldSet
<1> HIDE DEF g
<1>7. \E h : Walks(h, "blocks", e, <<>>, s, n) /\ h[n] = g[DOMAIN s]
  <2> HIDE DEF s, e
  <2>1. QED
    BY <1>1, <1>5, StepsOfTheFold
<1>8. \A a : \A k \in 1..n : Op("blocks", e, a, s[k]) = a \o BlocksOf(segs[k], segs[k].read)
  BY DEF Op
<1> HIDE DEF s, e
<1>9. PICK h : Walks(h, "blocks", e, <<>>, s, n) /\ h[n] = g[DOMAIN s]
  BY <1>7
<1>10. \A k \in 1..n : h[k] = h[k - 1] \o BlocksOf(segs[k], segs[k].read)
  BY <1>8, <1>9 DEF Walks
<1>11. h[0] = <<>> /\ h[n] = BlocksOver(segs, n + 1)
  BY <1>6, <1>9 DEF Walks
<1>12. QED
  BY <1>10, <1>11

-----------------------------------------------------------------------------
(* Division, and sequences as functions of their places.                   *)

\* Division with remainder, said once so that the products stay apart.
LEMMA DivMod ==
    ASSUME NEW a \in Int, NEW d \in Nat \ {0}
    PROVE  a \div d \in Int /\ a % d \in 0..(d - 1) /\ a = d * (a \div d) + (a % d)
OBVIOUS

LEMMA DivModIs ==
    ASSUME NEW d \in Nat \ {0}, NEW q \in Int, NEW r \in 0..(d - 1), NEW a \in Int, a = d * q + r
    PROVE  a \div d = q /\ a % d = r
OBVIOUS

LEMMA NatDiv ==
    ASSUME NEW a \in Nat, NEW d \in Nat \ {0}
    PROVE  a \div d \in Nat /\ d * (a \div d) <= a /\ a < d * (a \div d) + d
<1>1. a \div d \in Int /\ a % d \in 0..(d - 1) /\ a = d * (a \div d) + (a % d)
  BY DivMod
<1> DEFINE q == a \div d
           r == a % d
<1>2. q \in Int /\ r \in 0..(d - 1) /\ a = d * q + r
  BY <1>1
<1> HIDE DEF q, r
<1>3. q >= 0
  <2>1. SUFFICES ASSUME q <= 0 - 1 PROVE FALSE
    BY <1>2
  <2>2. d * q <= d * (0 - 1)
    BY <1>2, <2>1
  <2>3. QED
    BY <1>2, <2>2
<1>4. d * q \in Int
  BY <1>2
<1>5. QED
  BY <1>2, <1>3, <1>4 DEF q

\* What the sizes are.
LEMMA Sizes ==
    Width \in Nat \ {0} /\ Rate \in Nat \ {0} /\ Rate < Width /\ Width > 1 /\ Digest \in Nat \ {0}
    /\ Limbs \in Nat \ {0} /\ QueryBits \in Nat \ {0}
BY WidthAssumption, LimbsAssumption DEF Rate

\* Sequences as functions: how they are told, compared and put together.
LEMMA SequenceIs ==
    ASSUME NEW n \in Nat, NEW s, s = [i \in 1..n |-> s[i]]
    PROVE  IsSequence(s) /\ Len(s) = n /\ DOMAIN s = 1..n
BY DEF IsSequence

LEMMA SequenceDomain ==
    ASSUME NEW s, IsSequence(s)
    PROVE  Len(s) \in Nat /\ DOMAIN s = 1..Len(s)
<1>1. Len(s) \in Nat /\ s = [i \in 1..Len(s) |-> s[i]]
  BY DEF IsSequence
<1> DEFINE n == Len(s)
<1> HIDE DEF n
<1>2. n \in Nat /\ s = [i \in 1..n |-> s[i]]
  BY <1>1 DEF n
<1>3. DOMAIN s = 1..n
  BY <1>2
<1>4. QED
  BY <1>2, <1>3 DEF n

LEMMA SequencesEqual ==
    ASSUME NEW a, NEW b, IsSequence(a), IsSequence(b), Len(a) = Len(b),
           \A i \in 1..Len(a) : a[i] = b[i]
    PROVE  a = b
<1> DEFINE n == Len(a)
<1>1. n \in Nat /\ a = [i \in 1..n |-> a[i]] /\ b = [i \in 1..n |-> b[i]]
      /\ \A i \in 1..n : a[i] = b[i]
  BY DEF IsSequence
<1> HIDE DEF n
<1>2. QED
  BY <1>1

LEMMA CatFunction ==
    ASSUME NEW m \in Nat, NEW n \in Nat, NEW a, NEW b,
           a = [i \in 1..m |-> a[i]], b = [i \in 1..n |-> b[i]]
    PROVE  a \o b = [i \in 1..(m + n) |-> IF i <= m THEN a[i] ELSE b[i - m]]
OBVIOUS

LEMMA CatIs ==
    ASSUME NEW a, NEW b, IsSequence(a), IsSequence(b)
    PROVE  /\ IsSequence(a \o b) /\ Len(a \o b) = Len(a) + Len(b)
           /\ \A i \in 1..Len(a) : (a \o b)[i] = a[i]
           /\ \A i \in 1..Len(b) : (a \o b)[Len(a) + i] = b[i]
<1> DEFINE m == Len(a)
           n == Len(b)
           c == a \o b
<1>1. m \in Nat /\ n \in Nat /\ a = [i \in 1..m |-> a[i]] /\ b = [i \in 1..n |-> b[i]]
  BY DEF IsSequence
<1> HIDE DEF m, n
<1>2. c = [i \in 1..(m + n) |-> IF i <= m THEN a[i] ELSE b[i - m]]
  BY <1>1
<1> HIDE DEF c
<1>3. m + n \in Nat /\ c = [i \in 1..(m + n) |-> c[i]]
  BY <1>1, <1>2
<1>4. IsSequence(c) /\ Len(c) = m + n
  BY <1>3, SequenceIs
<1>5. \A i \in 1..m : c[i] = a[i]
  BY <1>1, <1>2
<1>6. \A i \in 1..n : c[m + i] = b[i]
  BY <1>1, <1>2
<1>7. QED
  BY <1>4, <1>5, <1>6 DEF m, n, c

LEMMA AppendIs ==
    ASSUME NEW a, NEW x, IsSequence(a)
    PROVE  /\ IsSequence(Append(a, x)) /\ Len(Append(a, x)) = Len(a) + 1
           /\ \A i \in 1..Len(a) : Append(a, x)[i] = a[i]
           /\ Append(a, x)[Len(a) + 1] = x
<1> DEFINE m == Len(a)
           c == Append(a, x)
<1>1. m \in Nat /\ a = [i \in 1..m |-> a[i]]
  BY DEF IsSequence
<1> HIDE DEF m
<1>2. c = [i \in 1..(m + 1) |-> IF i <= m THEN a[i] ELSE x]
  BY <1>1
<1> HIDE DEF c
<1>3. m + 1 \in Nat /\ c = [i \in 1..(m + 1) |-> c[i]]
  BY <1>1, <1>2
<1>4. IsSequence(c) /\ Len(c) = m + 1
  BY <1>3, SequenceIs
<1>5. (\A i \in 1..m : c[i] = a[i]) /\ c[m + 1] = x
  BY <1>1, <1>2
<1>6. QED
  BY <1>4, <1>5 DEF m, c

LEMMA SubSeqIs ==
    ASSUME NEW w, IsSequence(w), NEW a \in Nat, NEW b \in Nat, a <= b, b <= Len(w)
    PROVE  /\ SubSeq(w, a + 1, b) = [i \in 1..(b - a) |-> w[a + i]]
           /\ IsSequence(SubSeq(w, a + 1, b)) /\ Len(SubSeq(w, a + 1, b)) = b - a
           /\ \A i \in 1..(b - a) : SubSeq(w, a + 1, b)[i] = w[a + i]
<1> DEFINE m == Len(w)
           c == SubSeq(w, a + 1, b)
<1>1. m \in Nat /\ w = [i \in 1..m |-> w[i]] /\ b <= m
  BY DEF IsSequence
<1> HIDE DEF m
<1>2. c = [i \in 1..(b - a) |-> w[a + i]]
  BY <1>1
<1> HIDE DEF c
<1>3. b - a \in Nat /\ c = [i \in 1..(b - a) |-> c[i]] /\ \A i \in 1..(b - a) : c[i] = w[a + i]
  BY <1>1, <1>2
<1>4. IsSequence(c) /\ Len(c) = b - a
  BY <1>3, SequenceIs
<1>5. QED
  BY <1>2, <1>3, <1>4 DEF c

LEMMA EmptyIs == IsSequence(<<>>) /\ Len(<<>>) = 0 /\ \A s : IsSequence(s) /\ Len(s) = 0 => s = <<>>
<1>1. <<>> = [i \in 1..0 |-> <<>>[i]] /\ Len(<<>>) = 0
  OBVIOUS
<1>2. IsSequence(<<>>)
  BY <1>1 DEF IsSequence
<1>3. ASSUME NEW s, IsSequence(s), Len(s) = 0 PROVE s = <<>>
  <2>1. s = [i \in 1..0 |-> s[i]]
    BY <1>3 DEF IsSequence
  <2>2. QED
    BY <2>1
<1>4. QED
  BY <1>1, <1>2, <1>3

\* Appending is putting a sequence of one behind.
LEMMA CatOne ==
    ASSUME NEW a, NEW x, IsSequence(a)
    PROVE  Append(a, x) = a \o [i \in 1..1 |-> x]
<1> DEFINE one == [i \in 1..1 |-> x]
<1>1. IsSequence(one) /\ Len(one) = 1 /\ one[1] = x
  <2> DEFINE l == 1
  <2>1. l \in Nat /\ one = [i \in 1..l |-> one[i]] /\ one[1] = x
    OBVIOUS
  <2> HIDE DEF l, one
  <2>2. IsSequence(one) /\ Len(one) = l
    BY <2>1, SequenceIs
  <2>3. QED
    BY <2>1, <2>2 DEF l
<1> HIDE DEF one
<1>2. IsSequence(one)
  BY <1>1
<1>3. /\ IsSequence(a \o one) /\ Len(a \o one) = Len(a) + Len(one)
      /\ \A i \in 1..Len(a) : (a \o one)[i] = a[i]
      /\ \A i \in 1..Len(one) : (a \o one)[Len(a) + i] = one[i]
  BY ONLY IsSequence(a), <1>2, CatIs
<1>4. /\ IsSequence(Append(a, x)) /\ Len(Append(a, x)) = Len(a) + 1
      /\ \A i \in 1..Len(a) : Append(a, x)[i] = a[i]
      /\ Append(a, x)[Len(a) + 1] = x
  BY AppendIs
<1> DEFINE c == Append(a, x)
           d == a \o one
           n == Len(a)
<1>5. n \in Nat
  BY DEF IsSequence
<1> HIDE DEF c, d, n
<1>6. IsSequence(c) /\ IsSequence(d) /\ Len(c) = n + 1 /\ Len(d) = n + 1
      /\ (\A i \in 1..n : c[i] = d[i]) /\ c[n + 1] = d[n + 1]
  <2>1. 1 \in 1..Len(one) /\ Len(one) = 1 /\ one[1] = x
    BY <1>1
  <2>2. (a \o one)[Len(a) + 1] = x
    BY <1>3, <2>1
  <2>3. QED
    BY <1>3, <1>4, <2>1, <2>2 DEF c, d, n
<1>7. \A i \in 1..(n + 1) : c[i] = d[i]
  BY <1>5, <1>6
<1>8. c = d
  BY <1>6, <1>7, SequencesEqual
<1>9. QED
  BY <1>8 DEF c, d, one

\* Joining sequences is associative.
LEMMA CatAssoc ==
    ASSUME NEW a, NEW b, NEW c, IsSequence(a), IsSequence(b), IsSequence(c)
    PROVE  (a \o b) \o c = a \o (b \o c)
<1> DEFINE l == Len(a)
           m == Len(b)
           n == Len(c)
<1>1. /\ l \in Nat /\ a = [i \in 1..l |-> a[i]]
      /\ m \in Nat /\ b = [i \in 1..m |-> b[i]]
      /\ n \in Nat /\ c = [i \in 1..n |-> c[i]]
  BY DEF IsSequence
<1> HIDE DEF l, m, n
<1> DEFINE ab == a \o b
           bc == b \o c
<1>2. ab = [i \in 1..(l + m) |-> IF i <= l THEN a[i] ELSE b[i - l]]
  BY <1>1, CatFunction
<1>3. bc = [i \in 1..(m + n) |-> IF i <= m THEN b[i] ELSE c[i - m]]
  BY <1>1, CatFunction
<1> HIDE DEF ab, bc
<1>4. l + m \in Nat /\ ab = [i \in 1..(l + m) |-> ab[i]]
      /\ m + n \in Nat /\ bc = [i \in 1..(m + n) |-> bc[i]]
  BY <1>1, <1>2, <1>3
<1> DEFINE lm == l + m
           mn == m + n
<1> HIDE DEF lm, mn
<1>5. /\ lm \in Nat /\ ab = [i \in 1..lm |-> ab[i]]
       /\ mn \in Nat /\ bc = [i \in 1..mn |-> bc[i]]
  BY <1>4 DEF lm, mn
<1>6. ab \o c = [i \in 1..(lm + n) |-> IF i <= lm THEN ab[i] ELSE c[i - lm]]
  BY <1>1, <1>5, CatFunction
<1>7. a \o bc = [i \in 1..(l + mn) |-> IF i <= l THEN a[i] ELSE bc[i - l]]
  BY <1>1, <1>5, CatFunction
<1>8. \A i \in 1..(lm + n) :
          (IF i <= lm THEN ab[i] ELSE c[i - lm]) = (IF i <= l THEN a[i] ELSE bc[i - l])
  BY <1>1, <1>2, <1>3 DEF lm, mn
<1>9. lm + n = l + mn
  BY <1>1 DEF lm, mn
<1>10. ab \o c = a \o bc
  BY <1>6, <1>7, <1>8, <1>9
<1>11. QED
  BY <1>10 DEF ab, bc

-----------------------------------------------------------------------------
(* Blocks.                                                                 *)

\* Products with what is at least as large, and the next.
LEMMA Times ==
    ASSUME NEW a \in Nat, NEW b \in Nat, NEW d \in Nat
    PROVE  /\ a * d \in Nat /\ d * a = a * d
           /\ a <= b => a * d <= b * d
           /\ (a + 1) * d = a * d + d
<1>1. a * d \in Nat /\ d * a = a * d /\ (a + 1) * d = a * d + d
  OBVIOUS
<1>2. a <= b => a * d <= b * d
  <2>1. SUFFICES ASSUME a <= b PROVE a * d <= b * d
    OBVIOUS
  <2>2. (b - a) * d >= 0 /\ (b - a) * d = b * d - a * d
    BY <2>1
  <2>3. QED
    BY <2>2
<1>3. QED
  BY <1>1, <1>2

\* A padded block is as long as the rate and keeps its elements.
LEMMA PaddedIs ==
    ASSUME NEW b, IsSequence(b), Len(b) <= Rate
    PROVE  /\ IsSequence(ZeroPadded(b)) /\ Len(ZeroPadded(b)) = Rate
           /\ Len(b) = Rate => ZeroPadded(b) = b
           /\ \A i \in 1..Rate : ZeroPadded(b)[i] = IF i <= Len(b) THEN b[i] ELSE Zero
<1> DEFINE m == Len(b)
           n == Rate - m
           z == [i \in 1..n |-> Zero]
           c == ZeroPadded(b)
<1>1. m \in Nat /\ b = [i \in 1..m |-> b[i]] /\ m <= Rate /\ Rate \in Nat /\ n = Rate - m
  BY Sizes DEF IsSequence
<1> HIDE DEF m, n
<1>2. n \in Nat /\ m + n = Rate
  BY <1>1
<1>3. z = [i \in 1..n |-> z[i]] /\ \A i \in 1..n : z[i] = Zero
  OBVIOUS
<1>4. c = b \o z
  BY DEF ZeroPadded, m, n
<1> HIDE DEF z, c
<1>5. c = [i \in 1..(m + n) |-> IF i <= m THEN b[i] ELSE z[i - m]]
  BY <1>1, <1>2, <1>3, <1>4, CatFunction
<1>6. c = [i \in 1..Rate |-> IF i <= m THEN b[i] ELSE Zero]
  <2>1. \A i \in 1..(m + n) : ~(i <= m) => z[i - m] = Zero
    BY <1>1, <1>2, <1>3
  <2>2. QED
    BY <1>2, <1>5, <2>1
<1>7. Rate \in Nat /\ c = [i \in 1..Rate |-> c[i]]
  BY <1>1, <1>6
<1>8. IsSequence(c) /\ Len(c) = Rate
  BY <1>7, SequenceIs
<1>9. m = Rate => c = b
  BY <1>1, <1>6
<1>10. \A i \in 1..Rate : c[i] = IF i <= m THEN b[i] ELSE Zero
  BY <1>6
<1>11. QED
  BY <1>8, <1>9, <1>10 DEF m, c

\* The blocks cut out of a sequence are its stretches of Rate elements, ...
LEMMA WholeIs ==
    ASSUME NEW w, IsSequence(w), NEW q \in Nat, q * Rate <= Len(w)
    PROVE  /\ IsSequence(Whole(w, q)) /\ Len(Whole(w, q)) = q
           /\ \A j \in 1..q : /\ Whole(w, q)[j] = SubSeq(w, (j - 1) * Rate + 1, j * Rate)
                              /\ IsSequence(Whole(w, q)[j]) /\ Len(Whole(w, q)[j]) = Rate
                              /\ (j - 1) * Rate \in Nat /\ j * Rate \in Nat
                              /\ (j - 1) * Rate <= j * Rate /\ j * Rate <= Len(w)
                              /\ j * Rate = (j - 1) * Rate + Rate
<1> DEFINE c == Whole(w, q)
<1>1. c = [j \in 1..q |-> c[j]] /\ \A j \in 1..q : c[j] = SubSeq(w, (j - 1) * Rate + 1, j * Rate)
  BY DEF Whole
<1> HIDE DEF c
<1>2. IsSequence(c) /\ Len(c) = q
  BY <1>1, SequenceIs
<1>3. ASSUME NEW j \in 1..q
      PROVE  /\ IsSequence(c[j]) /\ Len(c[j]) = Rate
             /\ (j - 1) * Rate \in Nat /\ j * Rate \in Nat
             /\ (j - 1) * Rate <= j * Rate /\ j * Rate <= Len(w)
             /\ j * Rate = (j - 1) * Rate + Rate
  <2> DEFINE a == (j - 1) * Rate
             b == j * Rate
             R == Rate
             k == j - 1
             n == Len(w)
  <2>1. n \in Nat /\ R \in Nat /\ k \in Nat /\ j \in Nat /\ j = k + 1 /\ j <= q /\ q * R <= n
    BY Sizes DEF IsSequence
  <2> HIDE DEF R, k, n
  <2>2. a = k * R /\ b = j * R
    BY DEF R, k
  <2> HIDE DEF a, b
  <2>3. a \in Nat /\ b \in Nat /\ b = a + R
    BY <2>1, <2>2, Times
  <2>4. b <= q * R /\ q * R \in Nat
    BY <2>1, <2>2, Times
  <2>5. b <= n /\ a <= b /\ b - a = R
    BY <2>1, <2>3, <2>4
  <2>6. c[j] = SubSeq(w, a + 1, b)
    BY <1>1 DEF a, b
  <2>7. IsSequence(SubSeq(w, a + 1, b)) /\ Len(SubSeq(w, a + 1, b)) = b - a
    BY <2>3, <2>5, SubSeqIs DEF n
  <2>8. QED
    BY <2>3, <2>5, <2>6, <2>7 DEF a, b, R, n
<1>4. QED
  BY <1>1, <1>2, <1>3 DEF c

\* ... and one more of them is one more stretch.
LEMMA WholeNext ==
    ASSUME NEW w, IsSequence(w), NEW q \in Nat, (q + 1) * Rate <= Len(w)
    PROVE  Whole(w, q + 1) = Append(Whole(w, q), SubSeq(w, q * Rate + 1, (q + 1) * Rate))
<1> DEFINE B(j) == SubSeq(w, (j - 1) * Rate + 1, j * Rate)
           f == [j \in 1..(q + 1) |-> B(j)]
<1>1. (q + 1) - 1 = q
  OBVIOUS
<1>2. Whole(w, q + 1) = f /\ Whole(w, q) = [j \in 1..q |-> B(j)]
  BY DEF Whole
<1>3. B(q + 1) = SubSeq(w, q * Rate + 1, (q + 1) * Rate)
  BY <1>1
<1> HIDE DEF B
<1>4. f[q + 1] = B(q + 1) /\ [j \in 1..q |-> B(j)] = [j \in 1..q |-> f[j]]
  OBVIOUS
<1>5. f = [j \in 1..(q + 1) |-> f[j]]
  OBVIOUS
<1> HIDE DEF f
<1>6. Append([j \in 1..q |-> f[j]], f[q + 1]) = [j \in 1..(q + 1) |-> f[j]]
  OBVIOUS
<1>7. QED
  BY <1>2, <1>3, <1>4, <1>5, <1>6

\* The blocks depend on what is in them.
LEMMA WholeAgrees ==
    ASSUME NEW v, NEW w, IsSequence(v), IsSequence(w), NEW n \in Nat, n <= Len(v), n <= Len(w),
           \A i \in 1..n : v[i] = w[i], NEW q \in Nat, q * Rate <= n
    PROVE  Whole(v, q) = Whole(w, q)
<1>1. Len(v) \in Nat /\ Len(w) \in Nat /\ q * Rate \in Nat /\ q * Rate <= Len(v) /\ q * Rate <= Len(w)
  <2>1. Len(v) \in Nat /\ Len(w) \in Nat /\ q * Rate \in Nat
    BY Sizes, Times DEF IsSequence
  <2>2. QED
    BY <2>1
<1>2. IsSequence(Whole(v, q)) /\ Len(Whole(v, q)) = q
  BY <1>1, WholeIs
<1>3. IsSequence(Whole(w, q)) /\ Len(Whole(w, q)) = q
  BY <1>1, WholeIs
<1>4. ASSUME NEW j \in 1..q PROVE Whole(v, q)[j] = Whole(w, q)[j]
  <2> DEFINE a == (j - 1) * Rate
             b == j * Rate
  <2>1. /\ Whole(v, q)[j] = SubSeq(v, a + 1, b) /\ a \in Nat /\ b \in Nat /\ a <= b /\ b <= Len(v)
    BY <1>1, WholeIs
  <2>2. /\ Whole(w, q)[j] = SubSeq(w, a + 1, b) /\ b <= Len(w)
    BY <1>1, WholeIs
  <2>3. b <= q * Rate
    <3> DEFINE R == Rate
    <3>1. R \in Nat /\ j \in Nat /\ j <= q
      BY Sizes
    <3> HIDE DEF R
    <3>2. QED
      BY <3>1, Times DEF R
  <2> HIDE DEF a, b
  <2>4. SubSeq(v, a + 1, b) = [i \in 1..(b - a) |-> v[a + i]]
    BY <2>1, SubSeqIs
  <2>5. SubSeq(w, a + 1, b) = [i \in 1..(b - a) |-> w[a + i]]
    BY <2>1, <2>2, SubSeqIs
  <2>6. b <= n
    BY <1>1, <2>1, <2>3
  <2>7. \A i \in 1..(b - a) : v[a + i] = w[a + i]
    BY <2>1, <2>6
  <2>8. QED
    BY <2>1, <2>2, <2>4, <2>5, <2>7
<1>5. QED
  BY <1>2, <1>3, <1>4, SequencesEqual

\* What a segment permutes of what it absorbs: its whole blocks and the rest,
\* if there is any, padded.
LEMMA ChunksAre ==
    ASSUME NEW v, IsSequence(v)
    PROVE  LET q == Len(v) \div Rate
           IN  Chunks(v) = IF Len(v) % Rate = 0 THEN Whole(v, q)
                           ELSE Append(Whole(v, q), ZeroPadded(SubSeq(v, q * Rate + 1, Len(v))))
<1> DEFINE n == Len(v)
           R == Rate
           q == n \div R
           m == n % R
           N == (n + R - 1) \div R
<1>1. n \in Nat /\ R \in Nat \ {0}
  BY Sizes DEF IsSequence
<1> HIDE DEF n, R
<1>2. q \in Nat /\ m \in 0..(R - 1) /\ n = R * q + m
  <2>1. n \in Int
    BY <1>1
  <2>2. q \in Int /\ m \in 0..(R - 1) /\ n = R * q + m
    BY <1>1, <2>1, DivMod
  <2>3. q \in Nat
    BY <1>1, NatDiv
  <2>4. QED
    BY <2>2, <2>3
<1> HIDE DEF q, m
<1>3. m = 0 => N = q
  <2>1. SUFFICES ASSUME m = 0 PROVE N = q
    OBVIOUS
  <2>2. R - 1 \in 0..(R - 1) /\ n + R - 1 \in Int /\ n + R - 1 = R * q + (R - 1)
    BY <1>1, <1>2, <2>1
  <2>3. QED
    BY <1>1, <1>2, <2>2, DivModIs
<1>4. m # 0 => N = q + 1
  <2>1. SUFFICES ASSUME m # 0 PROVE N = q + 1
    OBVIOUS
  <2> DEFINE p == q + 1
  <2>2. m - 1 \in 0..(R - 1) /\ n + R - 1 \in Int /\ p \in Int /\ n + R - 1 = R * p + (m - 1)
    BY <1>1, <1>2, <2>1
  <2> HIDE DEF p
  <2>3. N = p
    BY <1>1, <1>2, <2>2, DivModIs
  <2>4. QED
    BY <2>3 DEF p
<1> DEFINE Chunk(j) == ZeroPadded(SubSeq(v, (j - 1) * R + 1, IF j * R < n THEN j * R ELSE n))
<1>5. Chunks(v) = [j \in 1..N |-> Chunk(j)]
  BY DEF Chunks, n, R
<1>6. q * R <= n /\ q * R \in Nat /\ q * R = R * q
  BY <1>1, <1>2
<1>7. ASSUME NEW j \in 1..q PROVE Chunk(j) = Whole(v, q)[j]
  <2>1. /\ Whole(v, q)[j] = SubSeq(v, (j - 1) * R + 1, j * R)
        /\ IsSequence(Whole(v, q)[j]) /\ Len(Whole(v, q)[j]) = R
        /\ j * R \in Nat /\ j * R <= n
    BY <1>2, <1>6, WholeIs DEF n, R
  <2>2. (IF j * R < n THEN j * R ELSE n) = j * R
    BY <1>1, <2>1
  <2>3. Chunk(j) = ZeroPadded(Whole(v, q)[j])
    BY <2>1, <2>2
  <2>4. ZeroPadded(Whole(v, q)[j]) = Whole(v, q)[j]
    <3> DEFINE b == Whole(v, q)[j]
    <3>1. IsSequence(b) /\ Len(b) = Rate /\ Len(b) <= Rate
      BY <1>1, <2>1 DEF R
    <3> HIDE DEF b
    <3>2. ZeroPadded(b) = b
      BY <3>1, PaddedIs
    <3>3. QED
      BY <3>2 DEF b
  <2>5. QED
    BY <2>3, <2>4
<1>8. Whole(v, q) = [j \in 1..q |-> Whole(v, q)[j]]
  BY DEF Whole
<1>9. m = 0 => Chunks(v) = Whole(v, q)
  <2> HIDE DEF N, Chunk
  <2>1. QED
    BY <1>3, <1>5, <1>7, <1>8
<1>10. m # 0 => Chunks(v) = Append(Whole(v, q), Chunk(q + 1))
  <2> DEFINE f == [j \in 1..(q + 1) |-> Chunk(j)]
  <2>1. f = [j \in 1..(q + 1) |-> f[j]] /\ f[q + 1] = Chunk(q + 1)
        /\ \A j \in 1..q : f[j] = Chunk(j)
    BY <1>2
  <2> HIDE DEF N, Chunk
  <2>2. m # 0 => Chunks(v) = f
    BY <1>4, <1>5
  <2> HIDE DEF f
  <2>3. Whole(v, q) = [j \in 1..q |-> f[j]]
    BY <1>7, <1>8, <2>1
  <2>4. Append([j \in 1..q |-> f[j]], f[q + 1]) = [j \in 1..(q + 1) |-> f[j]]
    BY <1>2
  <2>5. QED
    BY <2>1, <2>2, <2>3, <2>4
<1>11. m # 0 => Chunk(q + 1) = ZeroPadded(SubSeq(v, q * R + 1, n))
  <2>1. (q + 1) * R >= n /\ (q + 1) - 1 = q
    <3>1. (q + 1) * R = R * q + R
      BY <1>1, <1>2
    <3>2. QED
      BY <1>1, <1>2, <3>1
  <2>2. (IF (q + 1) * R < n THEN (q + 1) * R ELSE n) = n
    BY <1>1, <1>2, <2>1
  <2>3. QED
    BY <2>1, <2>2
<1>12. QED
  BY <1>9, <1>10, <1>11 DEF n, R, q, m

-----------------------------------------------------------------------------
(* Absorbing.                                                              *)

\* A stretch grows by the element behind it, ...
LEMMA SubSeqNext ==
    ASSUME NEW w, IsSequence(w), NEW a \in Nat, NEW b \in Nat, a <= b, b < Len(w)
    PROVE  Append(SubSeq(w, a + 1, b), w[b + 1]) = SubSeq(w, a + 1, b + 1)
<1> DEFINE n == b - a
           c == b + 1
           f == [i \in 1..(n + 1) |-> w[a + i]]
<1>1. n \in Nat /\ c \in Nat /\ a <= c /\ c <= Len(w) /\ c - a = n + 1 /\ a + (n + 1) = b + 1 /\ b <= Len(w)
  BY DEF IsSequence
<1>2. SubSeq(w, a + 1, b) = [i \in 1..n |-> w[a + i]]
  BY <1>1, SubSeqIs
<1>3. SubSeq(w, a + 1, c) = [i \in 1..(c - a) |-> w[a + i]]
  <2> HIDE DEF c
  <2>1. QED
    BY <1>1, SubSeqIs
<1> HIDE DEF n
<1>4. f[n + 1] = w[b + 1] /\ [i \in 1..n |-> w[a + i]] = [i \in 1..n |-> f[i]]
      /\ f = [i \in 1..(n + 1) |-> f[i]]
  BY <1>1
<1>5. SubSeq(w, a + 1, b + 1) = f
  BY <1>1, <1>3
<1> HIDE DEF f
<1>6. Append([i \in 1..n |-> f[i]], f[n + 1]) = [i \in 1..(n + 1) |-> f[i]]
  BY <1>1
<1>7. QED
  BY <1>2, <1>4, <1>5, <1>6

\* ... and starts from nothing.
LEMMA SubSeqNone ==
    ASSUME NEW w, IsSequence(w), NEW a \in Nat, a <= Len(w)
    PROVE  SubSeq(w, a + 1, a) = <<>>
<1>1. IsSequence(SubSeq(w, a + 1, a)) /\ Len(SubSeq(w, a + 1, a)) = a - a
  BY SubSeqIs
<1>2. QED
  BY <1>1, EmptyIs

GoesBehind(a, b, x) == Append(a \o b, x) = a \o Append(b, x)

\* What is appended to the second of two sequences is appended to both.
LEMMA AppendBehind ==
    ASSUME NEW a, NEW b, NEW x, IsSequence(a), IsSequence(b)
    PROVE  GoesBehind(a, b, x)
<1> DEFINE one == [i \in 1..1 |-> x]
<1>1. IsSequence(one)
  <2> DEFINE l == 1
  <2>1. l \in Nat /\ one = [i \in 1..l |-> one[i]]
    OBVIOUS
  <2> HIDE DEF l, one
  <2>2. QED
    BY <2>1, SequenceIs
<1>2. IsSequence(a \o b)
  BY CatIs
<1>3. Append(a \o b, x) = (a \o b) \o one
  BY <1>2, CatOne
<1>4. Append(b, x) = b \o one
  BY CatOne
<1> HIDE DEF one
<1>5. (a \o b) \o one = a \o (b \o one)
  BY <1>1, CatAssoc
<1>6. QED
  BY <1>3, <1>4, <1>5 DEF GoesBehind

\* A permutation takes the pending elements, padded, and offers all lanes.
LEMMA UpdateIs ==
    ASSUME NEW u, IsSequence(u.state), IsSequence(u.pending), Len(u.pending) <= Rate,
           \A j \in DOMAIN u.state : Len(u.state[j]) = Rate
    PROVE  LET v == UpdateState(u)
           IN  /\ v.state = Append(u.state, ZeroPadded(u.pending)) /\ v.out = v.state
               /\ v.pending = <<>> /\ v.cursor = Width
               /\ WellFormed(v)
<1> DEFINE b == ZeroPadded(u.pending)
           p == Append(u.state, b)
           v == UpdateState(u)
<1>1. v = [state |-> p, out |-> p, pending |-> <<>>, cursor |-> Width]
  BY DEF UpdateState
<1>2. Len(b) = Rate
  BY PaddedIs
<1>3. IsSequence(p) /\ Len(p) = Len(u.state) + 1 /\ p[Len(u.state) + 1] = b
      /\ \A i \in 1..Len(u.state) : p[i] = u.state[i]
  BY AppendIs
<1> HIDE DEF b, p
<1>4. \A j \in DOMAIN p : Len(p[j]) = Rate
  <2>1. DOMAIN p = 1..Len(p) /\ DOMAIN u.state = 1..Len(u.state) /\ Len(u.state) \in Nat
    BY <1>3, SequenceDomain
  <2> DEFINE n == Len(u.state)
  <2>2. \A j \in 1..(n + 1) : j \in 1..n \/ j = n + 1
    BY <2>1
  <2>3. QED
    BY <1>2, <1>3, <2>1, <2>2
<1>5. WellFormed(v)
  <2>1. v.cursor \in 0..Width /\ DOMAIN v = {"state", "out", "pending", "cursor"}
    BY <1>1, Sizes
  <2>2. IsSequence(v.pending) /\ Len(v.pending) < Rate
    BY <1>1, Sizes, EmptyIs
  <2>3. IsSequence(v.state) /\ \A j \in DOMAIN v.state : Len(v.state[j]) = Rate
    BY <1>1, <1>3, <1>4
  <2>4. QED
    BY <2>1, <2>2, <2>3 DEF WellFormed
<1>6. QED
  BY <1>1, <1>5 DEF p, b

\* A put leaves an element pending, or permutes the block it makes full.
LEMMA PutOneIs ==
    ASSUME NEW u, WellFormed(u), NEW x
    PROVE  LET v == PutOne(u, x)
               p == Append(u.pending, x)
           IN  /\ WellFormed(v)
               /\ IF Len(u.pending) + 1 = Rate
                  THEN /\ v.state = Append(u.state, p) /\ v.out = v.state
                       /\ v.pending = <<>> /\ v.cursor = Width
                  ELSE v.state = u.state /\ v.pending = p /\ v.cursor = 0
<1> DEFINE v == PutOne(u, x)
           p == Append(u.pending, x)
           f == [u EXCEPT !.pending = Append(@, x), !.cursor = 0]
<1>1. IsSequence(p) /\ Len(p) = Len(u.pending) + 1 /\ Len(u.pending) \in Nat
  BY AppendIs DEF WellFormed, IsSequence
<1>2. f.state = u.state /\ f.pending = p /\ f.cursor = 0
      /\ DOMAIN f = {"state", "out", "pending", "cursor"}
  BY DEF WellFormed
<1>3. v = IF Len(f.pending) = Rate THEN UpdateState(f) ELSE f
  BY DEF PutOne
<1> HIDE DEF p, f, v
<1>4. CASE Len(p) = Rate
  <2>1. v = UpdateState(f)
    BY <1>2, <1>3, <1>4
  <2>2. /\ UpdateState(f).state = Append(f.state, ZeroPadded(f.pending))
        /\ UpdateState(f).out = UpdateState(f).state /\ UpdateState(f).pending = <<>>
        /\ UpdateState(f).cursor = Width /\ WellFormed(UpdateState(f))
    <3>1. IsSequence(f.state) /\ IsSequence(f.pending) /\ Len(f.pending) <= Rate
          /\ \A j \in DOMAIN f.state : Len(f.state[j]) = Rate
      BY <1>1, <1>2, <1>4, Sizes DEF WellFormed
    <3>2. QED
      BY <3>1, UpdateIs
  <2>3. ZeroPadded(p) = p
    BY <1>1, <1>4, Sizes, PaddedIs
  <2>4. QED
    BY <1>1, <1>2, <1>4, <2>1, <2>2, <2>3 DEF v, p
<1>5. CASE Len(p) # Rate
  <2>1. v = f
    BY <1>2, <1>3, <1>5
  <2>2. WellFormed(f)
    <3>1. Len(p) < Rate
      BY <1>1, <1>5, Sizes DEF WellFormed
    <3>2. QED
      BY <1>1, <1>2, <3>1, Sizes DEF WellFormed
  <2>3. QED
    BY <1>1, <1>2, <1>5, <2>1, <2>2 DEF v, p
<1>6. QED
  BY <1>4, <1>5

\* Each element put goes into the block under way, which is permuted once full.
LEMMA PutOneFills ==
    ASSUME NEW u, WellFormed(u), NEW before, IsSequence(before), NEW w, IsSequence(w),
           NEW c \in Nat, c < Len(w), Holds(u, before, w, c)
    PROVE  LET v == PutOne(u, w[c + 1])
           IN  WellFormed(v) /\ Filled(v, before, w, c + 1)
<1> DEFINE v == PutOne(u, w[c + 1])
           R == Rate
           L == Len(w)
           q == c \div R
           m == c % R
           a == q * R
           p == Append(u.pending, w[c + 1])
<1>1. R \in Nat \ {0} /\ L \in Nat /\ c \in Int /\ c < L
  BY Sizes DEF IsSequence
<1> HIDE DEF R, L
<1>2. q \in Nat /\ m \in 0..(R - 1) /\ c = R * q + m
  <2>1. q \in Int /\ m \in 0..(R - 1) /\ c = R * q + m
    BY <1>1, DivMod
  <2>2. q \in Nat
    BY <1>1, NatDiv
  <2>3. QED
    BY <2>1, <2>2
<1>3. u.state = before \o Whole(w, q) /\ u.pending = SubSeq(w, a + 1, c)
  BY DEF Holds, q, R
<1> HIDE DEF q, m
<1>4. a \in Nat /\ c = a + m /\ a <= c /\ c <= L
  <2>1. a \in Nat /\ R * q = a
    BY <1>1, <1>2, Times
  <2>2. QED
    BY <1>1, <1>2, <2>1
<1> HIDE DEF a
<1>5. Len(u.pending) = m /\ p = SubSeq(w, a + 1, c + 1)
  <2>1. Len(SubSeq(w, a + 1, c)) = c - a
    BY <1>4, SubSeqIs DEF L
  <2>2. Append(SubSeq(w, a + 1, c), w[c + 1]) = SubSeq(w, a + 1, c + 1)
    BY <1>4, SubSeqNext
  <2>3. Len(u.pending) = m
    BY <1>1, <1>2, <1>3, <1>4, <2>1
  <2>4. QED
    BY <1>3, <2>2, <2>3
<1>6. /\ WellFormed(v)
      /\ IF Len(u.pending) + 1 = R
         THEN v.state = Append(u.state, p) /\ v.out = v.state /\ v.pending = <<>> /\ v.cursor = Width
         ELSE v.state = u.state /\ v.pending = p /\ v.cursor = 0
  BY PutOneIs DEF R
<1> HIDE DEF p, v
<1>7. CASE m + 1 = R
  <2> DEFINE d == c + 1
             e == q + 1
  <2>1. d \in Nat /\ d \in Int /\ e \in Int /\ e \in Nat /\ d = R * e + 0 /\ 0 \in 0..(R - 1)
        /\ e * R = d /\ d <= L /\ d > 0
    BY <1>1, <1>2, <1>7
  <2> HIDE DEF d, e
  <2>2. d \div R = e /\ (d % R) = 0
    BY <1>1, <2>1, DivModIs
  <2>3. v.state = Append(u.state, p) /\ v.out = v.state /\ v.pending = <<>> /\ v.cursor = Width
    BY <1>5, <1>6, <1>7
  <2>4. Whole(w, e) = Append(Whole(w, q), SubSeq(w, a + 1, d))
    <3>1. Whole(w, q + 1) = Append(Whole(w, q), SubSeq(w, q * Rate + 1, (q + 1) * Rate))
      BY <1>2, <2>1, WholeNext DEF e, R, L
    <3>2. QED
      BY <2>1, <3>1 DEF e, a, R
  <2>5. v.state = before \o Whole(w, e)
    <3>1. IsSequence(Whole(w, q))
      BY <1>2, <1>4, WholeIs DEF a, R, L
    <3> DEFINE x == SubSeq(w, a + 1, d)
               b == Whole(w, q)
    <3>2. v.state = Append(before \o b, x) /\ Whole(w, e) = Append(b, x) /\ IsSequence(b)
      BY <1>3, <1>5, <2>3, <2>4, <3>1 DEF d
    <3> HIDE DEF x, b
    <3>3. GoesBehind(before, b, x)
      BY <3>2, AppendBehind
    <3>4. QED
      BY <3>2, <3>3 DEF GoesBehind
  <2>6. SubSeq(w, e * R + 1, d) = <<>>
    <3>1. SubSeq(w, d + 1, d) = <<>>
      BY <2>1, SubSeqNone DEF L
    <3>2. QED
      BY <2>1, <3>1
  <2>7. Holds(v, before, w, d)
    BY <2>2, <2>3, <2>5, <2>6 DEF Holds, R
  <2>8. Filled(v, before, w, d)
    BY <2>1, <2>2, <2>3, <2>7 DEF Filled, R
  <2>9. QED
    BY <1>6, <2>8 DEF d, v
<1>8. CASE m + 1 # R
  <2> DEFINE d == c + 1
             r == m + 1
  <2>1. d \in Int /\ q \in Int /\ d = R * q + r /\ r \in 0..(R - 1) /\ r # 0
    BY <1>1, <1>2, <1>8
  <2> HIDE DEF d, r
  <2>2. d \div R = q /\ (d % R) = r
    BY <1>1, <2>1, DivModIs
  <2>3. v.state = u.state /\ v.pending = p /\ v.cursor = 0
    BY <1>5, <1>6, <1>8
  <2>4. Holds(v, before, w, d)
    <3>1. p = SubSeq(w, q * R + 1, d)
      BY <1>5 DEF a, d
    <3>2. QED
      BY <1>3, <2>2, <2>3, <3>1 DEF Holds, R
  <2>5. Filled(v, before, w, d)
    BY <2>1, <2>2, <2>3, <2>4 DEF Filled, R
  <2>6. QED
    BY <1>6, <2>5 DEF d, v
<1>9. QED
  BY <1>7, <1>8

\* What holds of the sequence so far holds of a longer one.
LEMMA HoldsBeyond ==
    ASSUME NEW u, NEW before, NEW v, IsSequence(v), NEW x, IsSequence(x), Holds(u, before, v, Len(v))
    PROVE  Holds(u, before, v \o x, Len(v))
<1> DEFINE w == v \o x
           n == Len(v)
           R == Rate
           q == n \div R
           a == q * R
<1>1. IsSequence(w) /\ Len(w) = n + Len(x) /\ \A i \in 1..n : w[i] = v[i]
  BY CatIs
<1>2. n \in Nat /\ R \in Nat \ {0} /\ Len(x) \in Nat
  BY Sizes DEF IsSequence
<1> HIDE DEF w, n, R
<1>3. q \in Nat /\ R * q <= n
  BY <1>2, NatDiv
<1> HIDE DEF q
<1>4. a \in Nat /\ a <= n
  BY <1>2, <1>3, Times
<1> HIDE DEF a
<1>5. Whole(v, q) = Whole(w, q)
  <2>1. n <= Len(v) /\ n <= Len(w) /\ q * Rate <= n /\ \A i \in 1..n : v[i] = w[i]
    BY <1>1, <1>2, <1>4 DEF n, a, R
  <2>2. QED
    BY <1>1, <1>2, <1>3, <2>1, WholeAgrees
<1>6. SubSeq(v, a + 1, n) = SubSeq(w, a + 1, n)
  <2>1. SubSeq(v, a + 1, n) = [i \in 1..(n - a) |-> v[a + i]]
    <3>1. n <= Len(v)
      BY <1>2 DEF n
    <3>2. QED
      BY <1>2, <1>4, <3>1, SubSeqIs
  <2>2. SubSeq(w, a + 1, n) = [i \in 1..(n - a) |-> w[a + i]]
    <3>1. n <= Len(w)
      BY <1>1, <1>2
    <3>2. QED
      BY <1>1, <1>2, <1>4, <3>1, SubSeqIs
  <2>3. \A i \in 1..(n - a) : v[a + i] = w[a + i]
    BY <1>1, <1>2, <1>4
  <2>4. QED
    BY <2>1, <2>2, <2>3
<1>7. u.state = before \o Whole(v, q) /\ u.pending = SubSeq(v, a + 1, n)
  BY DEF Holds, q, a, R, n
<1>8. QED
  BY <1>5, <1>6, <1>7 DEF Holds, q, a, R, n, w

\* A batch of puts is its elements put one by one: where it ends does not
\* depend on how they were batched.
LEMMA PutAllFills ==
    ASSUME NEW u, WellFormed(u), NEW before, IsSequence(before), NEW v, IsSequence(v),
           Holds(u, before, v, Len(v)), NEW x, IsSequence(x), Len(x) > 0
    PROVE  /\ WellFormed(PutAll(u, x))
           /\ Filled(PutAll(u, x), before, v \o x, Len(v \o x))
<1> DEFINE w == v \o x
           c == Len(v)
           n == Len(x)
<1>1. n \in Nat /\ c \in Nat /\ DOMAIN x = 1..n /\ n > 0
  BY SequenceDomain
<1>2. IsSequence(w) /\ Len(w) = c + n /\ \A i \in 1..n : w[c + i] = x[i]
  BY CatIs
<1>3. PICK h : /\ h[0] = u /\ h[n] = PutAll(u, x)
               /\ \A k \in 1..n : h[k] = PutOne(h[k - 1], x[k])
  BY <1>1, PutAllSteps
<1>4. Holds(u, before, w, c)
  BY HoldsBeyond
<1> HIDE DEF w, c, n
<1> DEFINE S == {k \in 0..n : /\ WellFormed(h[k]) /\ Holds(h[k], before, w, c + k)
                              /\ k > 0 => Filled(h[k], before, w, c + k)}
<1>5. 0 \in S
  <2>1. c + 0 = c /\ 0 \in 0..n
    BY <1>1
  <2>2. QED
    BY <1>3, <1>4, <2>1
<1>6. ASSUME NEW k \in 1..n, k - 1 \in S PROVE k \in S
  <2> DEFINE d == c + (k - 1)
  <2>1. d \in Nat /\ d < Len(w) /\ d + 1 = c + k /\ k \in 0..n
    BY <1>1, <1>2
  <2>2. WellFormed(h[k - 1]) /\ Holds(h[k - 1], before, w, d)
    BY <1>6
  <2>3. w[d + 1] = x[k]
    BY <1>2, <2>1
  <2> HIDE DEF d
  <2>4. WellFormed(PutOne(h[k - 1], w[d + 1])) /\ Filled(PutOne(h[k - 1], w[d + 1]), before, w, d + 1)
    BY <1>2, <2>1, <2>2, PutOneFills
  <2>5. WellFormed(h[k]) /\ Filled(h[k], before, w, c + k)
    BY <1>3, <2>1, <2>3, <2>4
  <2>6. Holds(h[k], before, w, c + k)
    BY <2>5 DEF Filled
  <2>7. QED
    BY <2>1, <2>5, <2>6
<1>7. \A k \in 0..n : k \in S
  <2> HIDE DEF S
  <2>1. QED
    BY <1>1, <1>5, <1>6, UpTo
<1>8. WellFormed(h[n]) /\ Filled(h[n], before, w, c + n)
  BY <1>1, <1>7
<1>9. QED
  BY <1>2, <1>3, <1>8 DEF w, n, c

-----------------------------------------------------------------------------
(* Reading.                                                                *)

\* Nothing, joined, changes nothing.
LEMMA CatNone == ASSUME NEW a, IsSequence(a) PROVE a \o <<>> = a /\ <<>> \o a = a
<1> DEFINE n == Len(a)
           z == <<>>
           l == 0
<1>1. n \in Nat /\ a = [i \in 1..n |-> a[i]] /\ l \in Nat /\ z = [i \in 1..l |-> z[i]] /\ l = 0
  BY DEF IsSequence
<1> HIDE DEF n, z, l
<1>2. a \o z = [i \in 1..(n + l) |-> IF i <= n THEN a[i] ELSE z[i - n]]
  BY <1>1, CatFunction
<1>3. z \o a = [i \in 1..(l + n) |-> IF i <= l THEN z[i] ELSE a[i - l]]
  BY <1>1, CatFunction
<1>4. a \o z = a
  BY <1>1, <1>2
<1>5. z \o a = a
  BY <1>1, <1>3
<1>6. QED
  BY <1>4, <1>5 DEF z

\* The blocks of zeros that refill the lanes.
LEMMA IdleIs ==
    ASSUME NEW k \in Nat
    PROVE  /\ IsSequence(Idle(k)) /\ Len(Idle(k)) = k
           /\ Idle(0) = <<>>
           /\ Idle(k + 1) = Append(Idle(k), ZeroPadded(<<>>))
<1> DEFINE z == ZeroPadded(<<>>)
           f == [i \in 1..(k + 1) |-> z]
           g == [i \in 1..k |-> z]
<1>1. Idle(k) = g /\ Idle(k + 1) = f
  BY DEF Idle
<1> HIDE DEF z
<1>2. g = [i \in 1..k |-> g[i]] /\ g = [i \in 1..k |-> f[i]]
      /\ f = [i \in 1..(k + 1) |-> f[i]] /\ f[k + 1] = z
  OBVIOUS
<1>3. IsSequence(g) /\ Len(g) = k
  <2> HIDE DEF g
  <2>1. QED
    BY <1>2, SequenceIs
<1>4. f = Append(g, z)
  <2> HIDE DEF f, g
  <2>1. Append([i \in 1..k |-> f[i]], f[k + 1]) = [i \in 1..(k + 1) |-> f[i]]
    OBVIOUS
  <2>2. QED
    BY <1>2, <2>1
<1>5. Idle(0) = <<>>
  BY DEF Idle
<1>6. QED
  BY <1>1, <1>3, <1>4, <1>5 DEF z

\* Where n reads leave the lanes of a state, ...
LEMMA Places ==
    ASSUME NEW n \in Nat
    PROVE  LET b == n % Width
           IN  /\ b \in 0..(Width - 1)
               /\ b = 0 => ((0 - n) % Width) = 0
               /\ b # 0 => n > 0 /\ ((0 - n) % Width) = Width - b
               /\ ((0 - (n + 1)) % Width) = Width - 1 - b
               /\ ((Width - (Width - b)) % Width) = b
<1> DEFINE wd == Width
           a == n \div wd
           b == n % wd
           c == 0 - a
           d == (0 - a) - 1
<1>1. wd \in Nat \ {0} /\ wd > 1 /\ n \in Int
  BY Sizes
<1> HIDE DEF wd
<1>2. a \in Int /\ b \in 0..(wd - 1) /\ n = wd * a + b
  BY <1>1, DivMod
<1> HIDE DEF a, b
<1>3. c \in Int /\ d \in Int
  BY <1>2
<1>4. wd * c = 0 - wd * a /\ wd * d = (0 - wd * a) - wd
  BY <1>1, <1>2
<1> HIDE DEF c, d
<1> DEFINE x == wd * a
           m == 0 - n
           k == 0 - (n + 1)
           r == wd - b
           e == (wd - 1) - b
<1>5. x \in Int /\ n = x + b /\ wd * c = 0 - x /\ wd * d = (0 - x) - wd
  BY <1>1, <1>2, <1>4
<1> HIDE DEF x
<1>6. b = 0 => (m % wd) = 0
  <2>1. SUFFICES ASSUME b = 0 PROVE (m % wd) = 0
    OBVIOUS
  <2>2. m \in Int /\ m = wd * c + 0 /\ 0 \in 0..(wd - 1)
    BY <1>1, <1>2, <1>5, <2>1
  <2> HIDE DEF m
  <2>3. QED
    BY <1>1, <1>3, <2>2, DivModIs
<1>7. b # 0 => (m % wd) = r
  <2>1. SUFFICES ASSUME b # 0 PROVE (m % wd) = r
    OBVIOUS
  <2>2. m \in Int /\ m = wd * d + r /\ r \in 0..(wd - 1)
    BY <1>1, <1>2, <1>5, <2>1
  <2> HIDE DEF m, r
  <2>3. QED
    BY <1>1, <1>3, <2>2, DivModIs
<1>8. (k % wd) = e
  <2>1. k \in Int /\ k = wd * d + e /\ e \in 0..(wd - 1)
    BY <1>1, <1>2, <1>5
  <2> HIDE DEF k, e
  <2>2. QED
    BY <1>1, <1>3, <2>1, DivModIs
<1>9. (b % wd) = b
  <2>1. 0 \in Int /\ b \in Int /\ b = wd * 0 + b
    BY <1>1, <1>2
  <2>2. QED
    BY <1>1, <1>2, <2>1, DivModIs
<1>10. wd - (wd - b) = b
  BY <1>1, <1>2
<1>11. b # 0 => n > 0
  <2>1. n = 0 => b = 0
    <3>1. 0 \in Int /\ 0 \in 0..(wd - 1) /\ 0 = wd * 0 + 0
      BY <1>1
    <3>2. (0 % wd) = 0
      BY <1>1, <3>1, DivModIs
    <3>3. QED
      BY <3>2 DEF b
  <2>2. QED
    BY <2>1
<1>12. QED
  BY <1>2, <1>6, <1>7, <1>8, <1>9, <1>10, <1>11 DEF wd, b, m, r, k, e

\* ... and how many blocks of zeros they have taken.
LEMMA IdleCounts ==
    ASSUME NEW n \in Nat
    PROVE  /\ (n + Width - 1) \div Width \in Nat /\ n \div Width \in Nat
           /\ ((n + 1) + Width - 1) \div Width
                 = ((n + Width - 1) \div Width) + (IF (n % Width) = 0 THEN 1 ELSE 0)
           /\ n > 0 => /\ (n - 1) \div Width \in Nat
                       /\ n \div Width
                             = ((n - 1) \div Width) + (IF (n % Width) = 0 THEN 1 ELSE 0)
<1> DEFINE wd == Width
           a == n \div wd
           b == n % wd
           up == a + 1
           down == a - 1
<1>1. wd \in Nat \ {0} /\ wd > 1 /\ n \in Int
  BY Sizes
<1> HIDE DEF wd
<1>2. a \in Nat /\ a \in Int /\ b \in 0..(wd - 1) /\ n = wd * a + b
  <2>1. a \in Int /\ b \in 0..(wd - 1) /\ n = wd * a + b
    BY <1>1, DivMod
  <2>2. a \in Nat
    BY <1>1, NatDiv
  <2>3. QED
    BY <2>1, <2>2
<1> HIDE DEF a, b
<1>3. up \in Int /\ down \in Int /\ wd * up = wd * a + wd /\ wd * down = wd * a - wd /\ wd * a \in Int
  BY <1>1, <1>2
<1> DEFINE x == n + wd - 1
           y == (n + 1) + wd - 1
           z == n - 1
           l == wd - 1
           p == b - 1
<1>4. x \in Int /\ y \in Int /\ z \in Int /\ l \in 0..(wd - 1)
      /\ y = wd * up + b /\ (b = 0 => x = wd * a + l) /\ (b # 0 => x = wd * up + p /\ p \in 0..(wd - 1))
      /\ (b = 0 => z = wd * down + l) /\ (b # 0 => z = wd * a + p)
  BY <1>1, <1>2, <1>3
<1>5. up = a + 1 /\ down = a - 1
  OBVIOUS
<1>6. x = n + wd - 1 /\ x >= 0 /\ (n > 0 => z >= 0) /\ x \in Nat
  BY <1>1
<1> HIDE DEF x, y, z, l, p, up, down
<1>7. y \div wd = up
  BY <1>1, <1>2, <1>3, <1>4, DivModIs
<1>8. b = 0 => x \div wd = a /\ z \div wd = down
  <2>1. SUFFICES ASSUME b = 0 PROVE x \div wd = a /\ z \div wd = down
    OBVIOUS
  <2>2. x = wd * a + l /\ z = wd * down + l
    BY <1>4, <2>1
  <2>3. x \div wd = a
    BY <1>1, <1>2, <1>4, <2>2, DivModIs
  <2>4. z \div wd = down
    BY <1>1, <1>3, <1>4, <2>2, DivModIs
  <2>5. QED
    BY <2>3, <2>4
<1>9. b # 0 => x \div wd = up /\ z \div wd = a
  <2>1. SUFFICES ASSUME b # 0 PROVE x \div wd = up /\ z \div wd = a
    OBVIOUS
  <2>2. x = wd * up + p /\ z = wd * a + p /\ p \in 0..(wd - 1)
    BY <1>4, <2>1
  <2>3. x \div wd = up
    BY <1>1, <1>3, <1>4, <2>2, DivModIs
  <2>4. z \div wd = a
    BY <1>1, <1>2, <1>4, <2>2, DivModIs
  <2>5. QED
    BY <2>3, <2>4
<1>10. x \div wd \in Nat
  BY <1>1, <1>6, NatDiv
<1>11. n > 0 => z \div wd \in Nat
  <2>1. n > 0 => z \in Nat
    BY <1>4, <1>6
  <2>2. QED
    BY <1>1, <2>1, NatDiv
<1>12. y \div wd = (x \div wd) + (IF b = 0 THEN 1 ELSE 0)
  BY <1>2, <1>5, <1>7, <1>8, <1>9
<1>13. a = (z \div wd) + (IF b = 0 THEN 1 ELSE 0)
  BY <1>2, <1>5, <1>8, <1>9
<1>14. QED
  BY <1>2, <1>10, <1>11, <1>12, <1>13 DEF x, y, z, wd, a, b

\* The blocks of a segment are a sequence.
LEMMA ChunksSequence ==
    ASSUME NEW v, IsSequence(v)
    PROVE  IsSequence(Chunks(v))
<1> DEFINE N == (Len(v) + Rate - 1) \div Rate
           c == Chunks(v)
<1>1. N \in Nat
  <2> DEFINE x == Len(v) + Rate - 1
  <2>1. x \in Nat /\ Rate \in Nat \ {0}
    BY Sizes DEF IsSequence
  <2> HIDE DEF x
  <2>2. x \div Rate \in Nat
    BY <2>1, NatDiv
  <2>3. QED
    BY <2>2 DEF x
<1>2. c = [j \in 1..N |-> c[j]]
  BY DEF Chunks
<1> HIDE DEF N, c
<1>3. IsSequence(c)
  BY <1>1, <1>2, SequenceIs
<1>4. QED
  BY <1>3 DEF c

\* The lanes of a segment last for a block of zeros every Width reads.
LEMMA BlocksNext ==
    ASSUME NEW s, IsSequence(s.absorbed), NEW n \in Nat
    PROVE  /\ IsSequence(BlocksOf(s, n))
           /\ BlocksOf(s, 0) = IF s.absorbed = <<>> THEN <<>> ELSE Chunks(s.absorbed)
           /\ BlocksOf(s, n + 1) =
                IF (n % Width) = 0 /\ (n > 0 \/ s.absorbed = <<>>)
                THEN Append(BlocksOf(s, n), ZeroPadded(<<>>)) ELSE BlocksOf(s, n)
<1> DEFINE z == ZeroPadded(<<>>)
           c == Chunks(s.absorbed)
           x == (n + Width - 1) \div Width
           y == (n - 1) \div Width
           a == n \div Width
           e == IF (n % Width) = 0 THEN 1 ELSE 0
<1>1. x \in Nat /\ a \in Nat /\ ((n + 1) + Width - 1) \div Width = x + e
      /\ (n > 0 => y \in Nat /\ a = y + e)
  BY IdleCounts
<1>2. (n + 1) - 1 = n /\ (n + 1) # 0 /\ (n # 0 => n > 0)
  OBVIOUS
<1>3. (0 % Width) = 0 /\ (0 + Width - 1) \div Width = 0
  <2>1. Width \in Nat \ {0} /\ 0 \in 0..(Width - 1) /\ Width - 1 \in 0..(Width - 1)
        /\ 0 = Width * 0 + 0 /\ Width - 1 \in Int /\ Width - 1 = Width * 0 + (Width - 1)
        /\ 0 + Width - 1 = Width - 1
    BY Sizes
  <2>2. (0 % Width) = 0
    BY <2>1, DivModIs
  <2> DEFINE l == Width - 1
  <2>3. l \div Width = 0
    <3>1. l \in Int /\ 0 \in Int /\ l = Width * 0 + l /\ l \in 0..(Width - 1)
      BY <2>1
    <3> HIDE DEF l
    <3>2. QED
      BY <2>1, <3>1, DivModIs
  <2>4. QED
    BY <2>1, <2>2, <2>3
<1>4. /\ BlocksOf(s, n) = IF s.absorbed = <<>> THEN Idle(x) ELSE c \o Idle(IF n = 0 THEN 0 ELSE y)
      /\ BlocksOf(s, n + 1) = IF s.absorbed = <<>> THEN Idle(x + e) ELSE c \o Idle(a)
      /\ BlocksOf(s, 0) = IF s.absorbed = <<>> THEN Idle(0) ELSE c \o Idle(0)
  BY <1>1, <1>2, <1>3 DEF BlocksOf
<1>5. IsSequence(c)
  BY ChunksSequence
<1>6. \A k \in Nat : /\ IsSequence(Idle(k)) /\ Idle(k + 0) = Idle(k)
                     /\ Idle(k + 1) = Append(Idle(k), z) /\ Idle(0) = <<>>
  <2>1. \A k \in Nat : k + 0 = k
    OBVIOUS
  <2>2. QED
    BY <2>1, IdleIs
<1>7. \A k \in Nat : IsSequence(c \o Idle(k)) /\ Append(c \o Idle(k), z) = c \o Idle(k + 1)
  <2>1. SUFFICES ASSUME NEW k \in Nat
                 PROVE  IsSequence(c \o Idle(k)) /\ Append(c \o Idle(k), z) = c \o Idle(k + 1)
    OBVIOUS
  <2> DEFINE i == Idle(k)
  <2>2. IsSequence(i) /\ Idle(k + 1) = Append(i, z)
    BY <1>6
  <2> HIDE DEF i, c, z
  <2>3. IsSequence(c \o i)
    BY <1>5, <2>2, CatIs
  <2>4. GoesBehind(c, i, z)
    BY <1>5, <2>2, AppendBehind
  <2>5. QED
    BY <2>2, <2>3, <2>4 DEF GoesBehind, i
<1>8. c \o <<>> = c
  <2> HIDE DEF c
  <2>1. QED
    BY <1>5, CatNone
<1>9. e = 0 \/ e = 1
  OBVIOUS
<1>10. n = 0 => (n % Width) = 0 /\ x = 0 /\ a = 0
  <2>1. SUFFICES ASSUME n = 0 PROVE (n % Width) = 0 /\ x = 0 /\ a = 0
    OBVIOUS
  <2>2. 0 \div Width = 0
    <3>1. Width \in Nat \ {0} /\ 0 \in Int /\ 0 \in 0..(Width - 1) /\ 0 = Width * 0 + 0
      BY Sizes
    <3>2. QED
      BY <3>1, DivModIs
  <2>3. QED
    BY <1>3, <2>1, <2>2
<1>11. e = IF (n % Width) = 0 THEN 1 ELSE 0
  OBVIOUS
<1> HIDE DEF z, c, x, y, a, e
<1>12. CASE s.absorbed = <<>>
  <2>1. BlocksOf(s, n) = Idle(x) /\ BlocksOf(s, n + 1) = Idle(x + e) /\ BlocksOf(s, 0) = Idle(0)
    BY <1>4, <1>12
  <2>2. QED
    BY <1>1, <1>6, <1>11, <1>12, <2>1 DEF z
<1>13. CASE s.absorbed # <<>>
  <2> DEFINE k == IF n = 0 THEN 0 ELSE y
             i == c \o Idle(k)
  <2>1. k \in Nat /\ (n = 0 => a = k) /\ (n > 0 => a = k + e)
    BY <1>1, <1>2, <1>10
  <2>2. BlocksOf(s, n) = c \o Idle(k) /\ BlocksOf(s, n + 1) = c \o Idle(a)
        /\ BlocksOf(s, 0) = c
    BY <1>4, <1>6, <1>8, <1>13
  <2> HIDE DEF k
  <2>3. IsSequence(c \o Idle(k)) /\ Append(c \o Idle(k), z) = c \o Idle(k + 1)
    BY <1>7, <2>1
  <2>4. n > 0 /\ (n % Width) = 0 => a = k + 1
    BY <1>11, <2>1
  <2>5. ~(n > 0 /\ (n % Width) = 0) => a = k
    BY <1>2, <1>11, <2>1
  <2>6. QED
    BY <1>13, <2>2, <2>3, <2>4, <2>5 DEF z, c
<1>14. QED
  BY <1>12, <1>13

\* What is put of a segment is permuted, the rest padded, before it is read.
LEMMA FilledDrains ==
    ASSUME NEW u, WellFormed(u), NEW before, IsSequence(before),
           NEW s, IsSequence(s.absorbed), s.absorbed # <<>>,
           Filled(u, before, s.absorbed, Len(s.absorbed))
    PROVE  /\ u.pending = <<>> => Drained(u, before, s, 0)
           /\ u.pending # <<>> => /\ u.cursor = 0 /\ WellFormed(UpdateState(u))
                                  /\ Drained(UpdateState(u), before, s, 0)
<1> DEFINE v == s.absorbed
           n == Len(v)
           R == Rate
           q == n \div R
           m == n % R
           a == q * R
           p == SubSeq(v, a + 1, n)
           r == UpdateState(u)
<1>1. n \in Nat /\ n > 0 /\ R \in Nat \ {0} /\ n \in Int
  <2>1. n \in Nat /\ n # 0
    BY EmptyIs DEF IsSequence
  <2>2. QED
    BY <2>1, Sizes
<1>2. /\ u.state = before \o Whole(v, q) /\ u.pending = p
      /\ u.cursor = (IF m = 0 THEN Width ELSE 0) /\ (u.cursor > 0 => u.out = u.state)
  BY <1>1 DEF Filled, Holds
<1>3. Chunks(v) = IF m = 0 THEN Whole(v, q) ELSE Append(Whole(v, q), ZeroPadded(p))
  BY ChunksAre
<1>4. BlocksOf(s, 0) = Chunks(v)
  <2>1. 0 \in Nat
    OBVIOUS
  <2>2. QED
    BY <2>1, BlocksNext
<1> HIDE DEF n, R
<1>5. q \in Nat /\ m \in 0..(R - 1) /\ n = R * q + m
  <2>1. q \in Int /\ m \in 0..(R - 1) /\ n = R * q + m
    BY <1>1, DivMod
  <2>2. q \in Nat
    BY <1>1, NatDiv
  <2>3. QED
    BY <2>1, <2>2
<1> HIDE DEF q, m
<1>6. a \in Nat /\ n = a + m /\ a <= n
  <2>1. a \in Nat /\ R * q = a
    BY <1>1, <1>5, Times
  <2>2. QED
    BY <1>1, <1>5, <2>1
<1> HIDE DEF a
<1>7. IsSequence(p) /\ Len(p) = m
  <2>1. n <= Len(v)
    BY <1>1 DEF n
  <2>2. IsSequence(p) /\ Len(p) = n - a
    BY <1>1, <1>6, <2>1, SubSeqIs
  <2>3. n - a = m
    BY <1>1, <1>5, <1>6
  <2>4. QED
    BY <2>2, <2>3
<1> HIDE DEF p
<1>8. p = <<>> <=> m = 0
  BY <1>7, EmptyIs
<1>9. ASSUME m = 0 PROVE Drained(u, before, s, 0)
  BY <1>2, <1>3, <1>4, <1>8, <1>9, Sizes DEF Drained
<1>10. ASSUME m # 0
       PROVE  u.cursor = 0 /\ WellFormed(r) /\ Drained(r, before, s, 0)
  <2>1. IsSequence(u.state) /\ IsSequence(u.pending) /\ Len(u.pending) <= Rate
        /\ \A j \in DOMAIN u.state : Len(u.state[j]) = Rate
    BY <1>1, <1>2, <1>5, <1>7 DEF WellFormed, R
  <2>2. r.state = Append(u.state, ZeroPadded(u.pending)) /\ r.out = r.state
        /\ r.pending = <<>> /\ r.cursor = Width /\ WellFormed(r)
    BY <2>1, UpdateIs
  <2>3. IsSequence(Whole(v, q))
    BY <1>5, <1>6, WholeIs DEF a, R, n
  <2> DEFINE b == Whole(v, q)
             x == ZeroPadded(p)
  <2>4. IsSequence(b) /\ u.state = before \o b /\ Chunks(v) = Append(b, x) /\ ZeroPadded(u.pending) = x
    BY <1>2, <1>3, <1>10, <2>3
  <2> HIDE DEF b, x, r
  <2>5. GoesBehind(before, b, x)
    BY <2>4, AppendBehind
  <2>6. r.state = before \o Chunks(v)
    BY <2>2, <2>4, <2>5 DEF GoesBehind
  <2>7. Drained(r, before, s, 0)
    BY <1>4, <2>2, <2>6, Sizes DEF Drained
  <2>8. QED
    BY <1>2, <1>10, <2>2, <2>7 DEF r
<1>11. QED
  BY <1>2, <1>8, <1>9, <1>10

\* The buffers after n reads of a segment, or before its first.
At(u, before, s, n) ==
    \/ Drained(u, before, s, n)
    \/ n = 0 /\ Filled(u, before, s.absorbed, Len(s.absorbed))

\* A read finds lanes of a state that has all of the segment in it, and of
\* these the first that is not read.
LEMMA ReadyIs ==
    ASSUME NEW u, WellFormed(u), NEW before, IsSequence(before),
           NEW s, IsSequence(s.absorbed), NEW n \in Nat, At(u, before, s, n)
    PROVE  LET r == Refilled(u)
           IN  /\ WellFormed(r) /\ r.cursor \in 1..Width
               /\ r.state = before \o BlocksOf(s, n + 1) /\ r.out = r.state /\ r.pending = <<>>
               /\ ((Width - r.cursor) % Width) = (n % Width)
               /\ r.cursor - 1 = ((0 - (n + 1)) % Width)
<1> DEFINE r == Refilled(u)
           b == n % Width
           z == ZeroPadded(<<>>)
           f == UpdateState(u)
<1>1. /\ b \in 0..(Width - 1)
      /\ (b = 0 => ((0 - n) % Width) = 0)
      /\ (b # 0 => n > 0 /\ ((0 - n) % Width) = Width - b)
      /\ ((0 - (n + 1)) % Width) = Width - 1 - b
      /\ ((Width - (Width - b)) % Width) = b
  BY Places
<1>2. /\ IsSequence(BlocksOf(s, n))
      /\ BlocksOf(s, 0) = (IF s.absorbed = <<>> THEN <<>> ELSE Chunks(s.absorbed))
      /\ BlocksOf(s, n + 1) = IF b = 0 /\ (n > 0 \/ s.absorbed = <<>>)
                              THEN Append(BlocksOf(s, n), z) ELSE BlocksOf(s, n)
  BY BlocksNext
<1>3. u.pending = <<>> => f.state = Append(u.state, z) /\ f.out = f.state
                          /\ f.pending = <<>> /\ f.cursor = Width /\ WellFormed(f)
  <2>1. IsSequence(u.state) /\ IsSequence(u.pending) /\ Len(u.pending) <= Rate
        /\ \A j \in DOMAIN u.state : Len(u.state[j]) = Rate
    BY Sizes DEF WellFormed, IsSequence
  <2>2. f.state = Append(u.state, ZeroPadded(u.pending)) /\ f.out = f.state
        /\ f.pending = <<>> /\ f.cursor = Width /\ WellFormed(f)
    BY <2>1, UpdateIs
  <2>3. QED
    BY <2>2
<1>4. r = IF u.cursor = 0 THEN f ELSE u
  BY DEF Refilled
<1>5. Width \in Nat /\ Width > 1
  BY Sizes
<1> DEFINE Good(v, k) == /\ WellFormed(v) /\ v.cursor = k
                         /\ v.state = before \o BlocksOf(s, n + 1) /\ v.out = v.state /\ v.pending = <<>>
<1>6. ASSUME NEW v, Good(v, Width - b)
      PROVE  /\ WellFormed(v) /\ v.cursor \in 1..Width
             /\ v.state = before \o BlocksOf(s, n + 1) /\ v.out = v.state /\ v.pending = <<>>
             /\ ((Width - v.cursor) % Width) = b
             /\ v.cursor - 1 = ((0 - (n + 1)) % Width)
  BY <1>1, <1>5, <1>6
<1> HIDE DEF r, f, z, b
<1>7. ASSUME b = 0, n > 0 \/ s.absorbed = <<>>, u.pending = <<>>, u.cursor = 0,
             u.state = before \o BlocksOf(s, n)
      PROVE  Good(r, Width - b)
  <2> DEFINE x == BlocksOf(s, n)
  <2>1. r.state = Append(before \o x, z) /\ r.out = r.state /\ r.pending = <<>>
        /\ r.cursor = Width /\ WellFormed(r)
    BY <1>3, <1>4, <1>7
  <2>2. BlocksOf(s, n + 1) = Append(x, z) /\ IsSequence(x)
    BY <1>2, <1>7
  <2> HIDE DEF x
  <2>3. GoesBehind(before, x, z)
    BY <2>2, AppendBehind
  <2>4. Width - b = Width
    BY <1>5, <1>7
  <2>5. QED
    BY <2>1, <2>2, <2>3, <2>4 DEF GoesBehind
<1>8. ASSUME Drained(u, before, s, n) PROVE Good(r, Width - b)
  <2>1. /\ s.absorbed # <<>> \/ n > 0
        /\ u.state = before \o BlocksOf(s, n) /\ u.pending = <<>>
        /\ u.cursor = (IF n = 0 THEN Width ELSE (0 - n) % Width)
        /\ u.cursor > 0 => u.out = u.state
    BY <1>8 DEF Drained
  <2>2. CASE b = 0 /\ n > 0
    BY <1>1, <1>7, <2>1, <2>2
  <2>3. CASE b # 0
    <3>1. u.cursor = Width - b /\ u.cursor > 0
      BY <1>1, <1>5, <2>1, <2>3
    <3>2. r = u /\ BlocksOf(s, n + 1) = BlocksOf(s, n)
      BY <1>2, <1>4, <2>3, <3>1
    <3>3. QED
      BY <2>1, <3>1, <3>2
  <2>4. CASE n = 0
    <3>1. u.cursor = Width /\ u.cursor > 0 /\ s.absorbed # <<>> /\ b = 0 /\ Width - b = Width
      BY <1>1, <1>5, <2>1, <2>4
    <3>2. r = u /\ BlocksOf(s, n + 1) = BlocksOf(s, n)
      BY <1>2, <1>4, <1>5, <2>4, <3>1
    <3>3. QED
      BY <2>1, <3>1, <3>2
  <2>5. QED
    BY <2>2, <2>3, <2>4
<1>9. ASSUME n = 0, Filled(u, before, s.absorbed, Len(s.absorbed)) PROVE Good(r, Width - b)
  <2>1. b = 0
    BY <1>1, <1>9
  <2>2. CASE s.absorbed = <<>>
    <3>1. u.state = before \o Whole(<<>>, 0 \div Rate) /\ u.cursor = 0
          /\ u.pending = SubSeq(<<>>, (0 \div Rate) * Rate + 1, 0)
      <4>1. Len(<<>>) = 0
        BY EmptyIs
      <4>2. Filled(u, before, <<>>, 0)
        BY <1>9, <2>2, <4>1
      <4>3. QED
        BY <4>2 DEF Filled, Holds
    <3>2. 0 \div Rate = 0 /\ 0 * Rate = 0
      <4>1. Rate \in Nat \ {0} /\ 0 \in Int /\ 0 \in 0..(Rate - 1) /\ 0 = Rate * 0 + 0
        BY Sizes
      <4>2. 0 \div Rate = 0
        BY <4>1, DivModIs
      <4>3. QED
        BY <4>1, <4>2
    <3>3. Whole(<<>>, 0) = <<>> /\ SubSeq(<<>>, 0 + 1, 0) = <<>>
      <4>1. Whole(<<>>, 0) = <<>>
        BY DEF Whole
      <4>2. 0 \in Nat /\ 0 <= Len(<<>>)
        BY EmptyIs
      <4>3. SubSeq(<<>>, 0 + 1, 0) = <<>>
        BY <4>2, EmptyIs, SubSeqNone
      <4>4. QED
        BY <4>1, <4>3
    <3>4. u.state = before \o <<>> /\ u.pending = <<>>
      BY <3>1, <3>2, <3>3
    <3>5. BlocksOf(s, n) = <<>>
      BY <1>2, <1>9, <2>2
    <3>6. QED
      BY <1>7, <2>1, <2>2, <3>1, <3>4, <3>5
  <2>3. CASE s.absorbed # <<>> /\ u.pending = <<>>
    <3>1. Drained(u, before, s, 0)
      BY <1>9, <2>3, FilledDrains
    <3>2. QED
      BY <1>8, <1>9, <3>1
  <2>4. CASE s.absorbed # <<>> /\ u.pending # <<>>
    <3>1. u.cursor = 0 /\ WellFormed(f) /\ Drained(f, before, s, 0)
      BY <1>9, <2>4, FilledDrains DEF f
    <3>2. r = f /\ BlocksOf(s, n + 1) = BlocksOf(s, 0)
      BY <1>2, <1>4, <1>9, <2>4, <3>1
    <3>3. f.state = before \o BlocksOf(s, 0) /\ f.pending = <<>> /\ f.cursor = Width /\ f.out = f.state
      BY <1>5, <3>1 DEF Drained
    <3>4. Width - b = Width
      BY <1>5, <2>1
    <3>5. QED
      BY <3>1, <3>2, <3>3, <3>4
  <2>5. QED
    BY <2>2, <2>3, <2>4
<1>10. Good(r, Width - b)
  BY <1>8, <1>9 DEF At
<1>11. QED
  BY <1>6, <1>10 DEF r, b

\* A squeeze reads the lane that is next and moves past it.
LEMMA SqueezeOneIs ==
    ASSUME NEW u, WellFormed(u), NEW before, IsSequence(before),
           NEW s, IsSequence(s.absorbed), NEW n \in Nat, At(u, before, s, n),
           NEW read, IsSequence(read), NEW i
    PROVE  LET v == SqueezeOne([t |-> u, read |-> read], i)
           IN  /\ WellFormed(v.t) /\ Drained(v.t, before, s, n + 1)
               /\ v.read = Append(read, Lane(before \o BlocksOf(s, n + 1), n % Width))
               /\ v = [t |-> v.t, read |-> v.read]
<1> DEFINE r == Refilled(u)
           v == SqueezeOne([t |-> u, read |-> read], i)
           w == [r EXCEPT !.cursor = @ - 1]
           x == before \o BlocksOf(s, n + 1)
           b == n % Width
           c == (0 - (n + 1)) % Width
<1>1. v = [t |-> w, read |-> Append(read, Lane(r.out, (Width - r.cursor) % Width))]
  BY DEF SqueezeOne
<1>2. /\ WellFormed(r) /\ r.cursor \in 1..Width
      /\ r.state = x /\ r.out = r.state /\ r.pending = <<>>
      /\ ((Width - r.cursor) % Width) = b /\ r.cursor - 1 = c
  BY ReadyIs
<1> HIDE DEF r, x, b, c
<1>3. /\ DOMAIN w = {"state", "out", "pending", "cursor"} /\ w.state = r.state /\ w.out = r.out
      /\ w.pending = r.pending /\ w.cursor = r.cursor - 1
  BY <1>2 DEF WellFormed
<1>4. w.cursor \in 0..Width
  BY <1>2, <1>3, Sizes
<1> HIDE DEF w
<1>5. WellFormed(w)
  BY <1>2, <1>3, <1>4 DEF WellFormed
<1>6. Drained(w, before, s, n + 1)
  <2>1. n + 1 > 0 /\ n + 1 # 0
    OBVIOUS
  <2>2. w.cursor = c /\ w.state = x /\ w.out = w.state /\ w.pending = <<>>
    BY <1>2, <1>3
  <2>3. QED
    BY <2>1, <2>2 DEF Drained, c, x
<1>7. v = [t |-> w, read |-> Append(read, Lane(x, b))]
  BY <1>1, <1>2
<1> HIDE DEF v
<1>8. v.t = w /\ v.read = Append(read, Lane(x, b)) /\ v = [t |-> v.t, read |-> v.read]
  BY <1>7
<1>9. QED
  BY <1>5, <1>6, <1>8 DEF v, x, b

\* The elements read one after the other are the lanes of the stream from where
\* it stood, in order.
LEMMA SqueezeIs ==
    ASSUME NEW u, WellFormed(u), NEW before, IsSequence(before),
           NEW s, IsSequence(s.absorbed), NEW n \in Nat, At(u, before, s, n),
           NEW m \in Nat, m > 0
    PROVE  LET r == Squeeze(u, m)
           IN  /\ WellFormed(r.t) /\ Drained(r.t, before, s, n + m)
               /\ IsSequence(r.read) /\ Len(r.read) = m
               /\ \A i \in 1..m : r.read[i] = Lane(before \o BlocksOf(s, n + i), (n + i - 1) % Width)
<1> DEFINE L(i) == Lane(before \o BlocksOf(s, n + i), (n + i - 1) % Width)
<1>1. PICK h : /\ h[0] = [t |-> u, read |-> <<>>] /\ h[m] = Squeeze(u, m)
               /\ \A k \in 1..m : h[k] = SqueezeOne(h[k - 1], k)
  BY SqueezeSteps
<1> DEFINE S == {k \in 0..m : /\ WellFormed(h[k].t) /\ At(h[k].t, before, s, n + k)
                              /\ k > 0 => Drained(h[k].t, before, s, n + k)
                              /\ IsSequence(h[k].read) /\ Len(h[k].read) = k
                              /\ \A i \in 1..k : h[k].read[i] = L(i)
                              /\ h[k] = [t |-> h[k].t, read |-> h[k].read]}
<1>2. 0 \in S
  <2>1. h[0].t = u /\ h[0].read = <<>> /\ h[0] = [t |-> h[0].t, read |-> h[0].read]
    BY <1>1
  <2>2. n + 0 = n /\ 0 \in 0..m
    OBVIOUS
  <2>3. IsSequence(h[0].read) /\ Len(h[0].read) = 0
    BY <2>1, EmptyIs
  <2> HIDE DEF L
  <2>4. QED
    BY <2>1, <2>2, <2>3
<1>3. ASSUME NEW k \in 1..m, k - 1 \in S PROVE k \in S
  <2> DEFINE j == k - 1
             d == n + j
             v == h[k]
             w == h[j]
             x == L(k)
  <2>1. j \in Nat /\ d \in Nat /\ d + 1 = n + k /\ d = (n + k) - 1 /\ k = j + 1 /\ k \in 0..m /\ k > 0
    OBVIOUS
  <2>2. /\ WellFormed(w.t) /\ At(w.t, before, s, d) /\ IsSequence(w.read) /\ Len(w.read) = j
        /\ \A i \in 1..j : w.read[i] = L(i)
        /\ w = [t |-> w.t, read |-> w.read]
    BY <1>3
  <2>3. v = SqueezeOne(w, k)
    BY <1>1
  <2>4. x = Lane(before \o BlocksOf(s, d + 1), d % Width)
    BY <2>1
  <2> HIDE DEF d, w, v, L, x
  <2>5. /\ WellFormed(v.t) /\ Drained(v.t, before, s, d + 1)
        /\ v.read = Append(w.read, Lane(before \o BlocksOf(s, d + 1), d % Width))
        /\ v = [t |-> v.t, read |-> v.read]
    <3> DEFINE a == w.t
               l == w.read
               sq == SqueezeOne([t |-> a, read |-> l], k)
    <3>1. v = sq
      BY <2>2, <2>3
    <3>2. WellFormed(a) /\ At(a, before, s, d) /\ IsSequence(l) /\ d \in Nat
      BY <2>1, <2>2
    <3>3. /\ WellFormed(sq.t) /\ Drained(sq.t, before, s, d + 1)
          /\ sq.read = Append(l, Lane(before \o BlocksOf(s, d + 1), d % Width))
          /\ sq = [t |-> sq.t, read |-> sq.read]
      <4> HIDE DEF a, l
      <4>1. QED
        BY <3>2, SqueezeOneIs
    <3> HIDE DEF sq
    <3>4. QED
      BY <3>1, <3>3
  <2>6. v.read = Append(w.read, x)
    BY <2>5, <2>4
  <2>7. IsSequence(v.read) /\ Len(v.read) = k /\ v.read[k] = x
        /\ \A i \in 1..j : v.read[i] = w.read[i]
    <3> DEFINE l == w.read
               y == Append(l, x)
    <3>1. IsSequence(l) /\ Len(l) = j
      BY <2>2
    <3> HIDE DEF l
    <3>2. IsSequence(y) /\ Len(y) = Len(l) + 1 /\ (\A i \in 1..Len(l) : y[i] = l[i]) /\ y[Len(l) + 1] = x
      BY <3>1, AppendIs
    <3> HIDE DEF y
    <3>3. v.read = y
      BY <2>6 DEF y, l
    <3>4. QED
      BY <2>1, <3>1, <3>2, <3>3 DEF l
  <2>8. \A i \in 1..k : v.read[i] = L(i)
    <3>1. \A i \in 1..k : i \in 1..j \/ i = k
      BY <2>1
    <3>2. v.read[k] = L(k)
      BY <2>7 DEF x
    <3>3. QED
      BY <2>2, <2>7, <3>1, <3>2
  <2>9. Drained(v.t, before, s, n + k) /\ At(v.t, before, s, n + k)
    BY <2>1, <2>5 DEF At
  <2>10. QED
    BY <2>1, <2>5, <2>7, <2>8, <2>9 DEF v
<1>4. \A k \in 0..m : k \in S
  <2> HIDE DEF S
  <2>1. QED
    BY <1>2, <1>3, UpTo
<1>5. m \in S
  BY <1>4
<1>6. QED
  BY <1>1, <1>5

-----------------------------------------------------------------------------
(* The blocks before a segment.                                            *)

History(segs) ==
    /\ IsSequence(segs) /\ Len(segs) > 0
    /\ \A k \in DOMAIN segs :
          /\ DOMAIN segs[k] = {"absorbed", "read", "open"}
          /\ IsSequence(segs[k].absorbed)
          /\ segs[k].read \in Nat /\ segs[k].open \in BOOLEAN

\* What the segments of a history are.
LEMMA HistoryIs ==
    ASSUME NEW segs, History(segs)
    PROVE  /\ Len(segs) \in Nat \ {0} /\ DOMAIN segs = 1..Len(segs)
           /\ \A k \in 1..Len(segs) : /\ IsSequence(segs[k].absorbed) /\ segs[k].read \in Nat
                                      /\ DOMAIN segs[k] = {"absorbed", "read", "open"}
                                      /\ segs[k].open \in BOOLEAN
<1>1. Len(segs) \in Nat /\ DOMAIN segs = 1..Len(segs) /\ Len(segs) > 0
  BY SequenceDomain DEF History
<1>2. QED
  BY <1>1 DEF History

\* The blocks of the first segments depend on those segments only.
LEMMA OverAgrees ==
    ASSUME NEW a, NEW b, NEW n \in Nat,
           \A k \in 1..n : BlocksOf(a[k], a[k].read) = BlocksOf(b[k], b[k].read)
    PROVE  BlocksOver(a, n + 1) = BlocksOver(b, n + 1)
<1>1. PICK h : /\ h[0] = <<>> /\ h[n] = BlocksOver(a, n + 1)
               /\ \A k \in 1..n : h[k] = h[k - 1] \o BlocksOf(a[k], a[k].read)
  BY BlocksSteps
<1>2. PICK g : /\ g[0] = <<>> /\ g[n] = BlocksOver(b, n + 1)
               /\ \A k \in 1..n : g[k] = g[k - 1] \o BlocksOf(b[k], b[k].read)
  BY BlocksSteps
<1> DEFINE S == {k \in 0..n : h[k] = g[k]}
<1>3. 0 \in S
  BY <1>1, <1>2
<1>4. ASSUME NEW k \in 1..n, k - 1 \in S PROVE k \in S
  <2>1. h[k - 1] = g[k - 1] /\ k \in 0..n
    BY <1>4
  <2>2. h[k] = g[k]
    <3> DEFINE x == BlocksOf(a[k], a[k].read)
    <3>1. h[k] = h[k - 1] \o x
      BY <1>1
    <3>2. g[k] = g[k - 1] \o x
      BY <1>2
    <3> HIDE DEF x
    <3>3. QED
      BY <2>1, <3>1, <3>2
  <2>3. QED
    BY <2>1, <2>2
<1>5. \A k \in 0..n : k \in S
  <2> HIDE DEF S
  <2>1. QED
    BY <1>3, <1>4, UpTo
<1>6. QED
  BY <1>1, <1>2, <1>5

LEMMA OverNext ==
    ASSUME NEW segs, NEW n \in Nat
    PROVE  /\ BlocksOver(segs, 1) = <<>>
           /\ BlocksOver(segs, (n + 1) + 1)
                 = BlocksOver(segs, n + 1) \o BlocksOf(segs[n + 1], segs[n + 1].read)
<1> DEFINE m == n + 1
           B(k) == BlocksOf(segs[k], segs[k].read)
<1>1. PICK h : /\ h[0] = <<>> /\ h[m] = BlocksOver(segs, m + 1)
               /\ \A k \in 1..m : h[k] = h[k - 1] \o B(k)
  <2>1. m \in Nat
    OBVIOUS
  <2> HIDE DEF m
  <2>2. QED
    BY <2>1, BlocksSteps
<1>2. PICK g : /\ g[0] = <<>> /\ g[n] = BlocksOver(segs, n + 1)
               /\ \A k \in 1..n : g[k] = g[k - 1] \o B(k)
  BY BlocksSteps
<1> HIDE DEF B
<1> DEFINE S == {k \in 0..n : h[k] = g[k]}
<1>3. 0 \in S
  BY <1>1, <1>2
<1>4. ASSUME NEW k \in 1..n, k - 1 \in S PROVE k \in S
  <2>1. h[k - 1] = g[k - 1] /\ k \in 0..n /\ k \in 1..m
    BY <1>4
  <2>2. h[k] = h[k - 1] \o B(k)
    BY <1>1, <2>1
  <2>3. g[k] = g[k - 1] \o B(k)
    BY <1>2
  <2>4. QED
    BY <2>1, <2>2, <2>3
<1>5. \A k \in 0..n : k \in S
  <2> HIDE DEF S
  <2>1. QED
    BY <1>3, <1>4, UpTo
<1>6. h[n] = BlocksOver(segs, n + 1)
  BY <1>2, <1>5
<1>7. h[m] = h[n] \o B(m)
  <2>1. m \in 1..m /\ m - 1 = n
    OBVIOUS
  <2>2. h[m] = h[m - 1] \o B(m)
    BY <1>1, <2>1
  <2>3. QED
    BY <2>1, <2>2
<1>8. BlocksOver(segs, 1) = <<>>
  <2> DEFINE z == 0
  <2>1. z \in Nat /\ z = 0 /\ z + 1 = 1
    OBVIOUS
  <2> HIDE DEF z
  <2>2. \E f : f[0] = <<>> /\ f[z] = BlocksOver(segs, z + 1)
    BY <2>1, BlocksSteps
  <2>3. QED
    BY <2>1, <2>2
<1>9. QED
  BY <1>1, <1>6, <1>7, <1>8 DEF B

LEMMA OverIs ==
    ASSUME NEW segs, NEW n \in Nat,
           \A k \in 1..n : IsSequence(segs[k].absorbed) /\ segs[k].read \in Nat
    PROVE  IsSequence(BlocksOver(segs, n + 1))
<1> DEFINE S == {k \in 0..n : IsSequence(BlocksOver(segs, k + 1))}
<1>1. 0 \in S
  <2>1. BlocksOver(segs, 1) = <<>>
    BY OverNext
  <2>2. 0 + 1 = 1 /\ 0 \in 0..n
    OBVIOUS
  <2>3. QED
    BY <2>1, <2>2, EmptyIs
<1>2. ASSUME NEW k \in 1..n, k - 1 \in S PROVE k \in S
  <2> DEFINE j == k - 1
             B == BlocksOf(segs[k], segs[k].read)
  <2>1. j \in Nat /\ j + 1 = k /\ (j + 1) + 1 = k + 1 /\ IsSequence(BlocksOver(segs, k)) /\ k \in 0..n
    BY <1>2
  <2> HIDE DEF j
  <2>2. BlocksOver(segs, k + 1) = BlocksOver(segs, k) \o B
    <3>1. BlocksOver(segs, (j + 1) + 1)
             = BlocksOver(segs, j + 1) \o BlocksOf(segs[j + 1], segs[j + 1].read)
      BY <2>1, OverNext
    <3>2. QED
      BY <2>1, <3>1
  <2>3. IsSequence(B)
    BY BlocksNext
  <2> DEFINE A == BlocksOver(segs, k)
  <2>4. IsSequence(A \o B)
    <3> HIDE DEF B
    <3>1. IsSequence(A)
      BY <2>1
    <3> HIDE DEF A
    <3>2. QED
      BY <2>3, <3>1, CatIs
  <2>5. QED
    BY <2>1, <2>2, <2>4
<1>3. \A k \in 0..n : k \in S
  <2> HIDE DEF S
  <2>1. QED
    BY <1>1, <1>2, UpTo
<1>4. n \in S
  BY <1>3
<1>5. QED
  BY <1>4

\* A place of the stream, by what is in the history up to it.
StreamOf(segs, k, n) == Lane(BlocksOver(segs, k) \o BlocksOf(segs[k], n), (n - 1) % Width)

LEMMA StreamKept ==
    ASSUME NEW a, NEW b, NEW k \in Nat \ {0}, NEW n,
           \A j \in 1..(k - 1) : a[j].absorbed = b[j].absorbed /\ a[j].read = b[j].read,
           a[k].absorbed = b[k].absorbed
    PROVE  BlocksOver(a, k) = BlocksOver(b, k) /\ StreamOf(a, k, n) = StreamOf(b, k, n)
<1>1. BlocksOver(a, k) = BlocksOver(b, k)
  <2> DEFINE m == k - 1
  <2>1. m \in Nat /\ m + 1 = k
    OBVIOUS
  <2>2. \A j \in 1..m : BlocksOf(a[j], a[j].read) = BlocksOf(b[j], b[j].read)
    BY DEF BlocksOf
  <2> HIDE DEF m
  <2>3. BlocksOver(a, m + 1) = BlocksOver(b, m + 1)
    BY <2>1, <2>2, OverAgrees
  <2>4. QED
    BY <2>1, <2>3
<1>2. BlocksOf(a[k], n) = BlocksOf(b[k], n)
  BY DEF BlocksOf
<1>3. QED
  BY <1>1, <1>2 DEF StreamOf

-----------------------------------------------------------------------------
(* The invariant, of a transcript, a history and what is squeezed.         *)

Buffers(u, segs) ==
    LET k == Len(segs)
        s == segs[k]
    IN  IF s.open
        THEN s.read = 0 /\ Filled(u, BlocksOver(segs, k), s.absorbed, Len(s.absorbed))
        ELSE Drained(u, BlocksOver(segs, k), s, s.read)

HavePlaces(segs, sq) ==
    /\ \A i \in DOMAIN sq : sq[i].seg \in DOMAIN segs /\ sq[i].nth \in 1..segs[sq[i].seg].read
    /\ \A i, j \in DOMAIN sq : sq[i].seg = sq[j].seg /\ sq[i].nth = sq[j].nth => i = j
    /\ sq = <<>> => segs[Len(segs)].read = 0

Follows(segs, sq) ==
    \A i \in DOMAIN sq : sq[i].value = StreamOf(segs, sq[i].seg, sq[i].nth)

Sound(u, segs, sq) ==
    /\ WellFormed(u) /\ History(segs) /\ IsSequence(sq)
    /\ Buffers(u, segs) /\ HavePlaces(segs, sq) /\ Follows(segs, sq)

\* The parts of a sound transcript that the steps use.
LEMMA SoundIs ==
    ASSUME NEW u, NEW segs, NEW sq, Sound(u, segs, sq)
    PROVE  LET k == Len(segs)
               s == segs[k]
               before == BlocksOver(segs, k)
           IN  /\ WellFormed(u) /\ k \in Nat \ {0} /\ DOMAIN segs = 1..k
               /\ segs = [i \in 1..k |-> segs[i]]
               /\ IsSequence(before) /\ IsSequence(s.absorbed) /\ s.read \in Nat /\ s.open \in BOOLEAN
               /\ s.open => s.read = 0 /\ Filled(u, before, s.absorbed, Len(s.absorbed))
               /\ ~s.open => Drained(u, before, s, s.read)
               /\ \A i \in 1..k : /\ DOMAIN segs[i] = {"absorbed", "read", "open"}
                                  /\ IsSequence(segs[i].absorbed)
                                  /\ segs[i].read \in Nat /\ segs[i].open \in BOOLEAN
<1> DEFINE k == Len(segs)
           s == segs[k]
           m == k - 1
<1>1. k \in Nat \ {0} /\ DOMAIN segs = 1..k
      /\ \A i \in 1..k : /\ DOMAIN segs[i] = {"absorbed", "read", "open"}
                         /\ IsSequence(segs[i].absorbed)
                         /\ segs[i].read \in Nat /\ segs[i].open \in BOOLEAN
  BY HistoryIs DEF Sound
<1>2. segs = [i \in 1..k |-> segs[i]]
  BY DEF Sound, History, IsSequence
<1>3. IsSequence(BlocksOver(segs, k))
  <2>1. m \in Nat /\ m + 1 = k /\ \A i \in 1..m : i \in 1..k
    BY <1>1
  <2> HIDE DEF m, k
  <2>2. IsSequence(BlocksOver(segs, m + 1))
    BY <1>1, <2>1, OverIs
  <2>3. QED
    BY <2>1, <2>2
<1>4. k \in 1..k
  BY <1>1
<1>5. WellFormed(u) /\ Buffers(u, segs)
  BY DEF Sound
<1>6. /\ s.open => s.read = 0 /\ Filled(u, BlocksOver(segs, k), s.absorbed, Len(s.absorbed))
      /\ ~s.open => Drained(u, BlocksOver(segs, k), s, s.read)
  BY <1>5 DEF Buffers
<1> HIDE DEF k
<1>7. IsSequence(s.absorbed) /\ s.read \in Nat /\ s.open \in BOOLEAN
  BY <1>1, <1>4
<1>8. QED
  BY <1>1, <1>2, <1>3, <1>5, <1>6, <1>7 DEF k

\* A history goes on behind what it has: at its last segment or after it.
GoesOn(segs, new) ==
    LET k == Len(segs)
    IN  /\ k <= Len(new)
        /\ \A j \in 1..(k - 1) : new[j].absorbed = segs[j].absorbed /\ new[j].read = segs[j].read
        /\ segs[k].read > 0 => new[k].absorbed = segs[k].absorbed
        /\ segs[k].read <= new[k].read

Placed(segs, sq) ==
    \A i \in DOMAIN sq : /\ sq[i].seg \in DOMAIN segs /\ sq[i].nth \in 1..segs[sq[i].seg].read
                         /\ sq[i].value = StreamOf(segs, sq[i].seg, sq[i].nth)

\* What is squeezed stays in its place as the history goes on.
LEMMA PlacesKept ==
    ASSUME NEW segs, NEW new, NEW sq, History(segs), History(new),
           HavePlaces(segs, sq), Follows(segs, sq), GoesOn(segs, new)
    PROVE  Placed(new, sq)
<1> DEFINE n == Len(segs)
           m == Len(new)
<1>1. n \in Nat \ {0} /\ DOMAIN segs = 1..n /\ m \in Nat /\ DOMAIN new = 1..m
      /\ (\A i \in 1..n : segs[i].read \in Nat) /\ \A i \in 1..m : new[i].read \in Nat
  BY HistoryIs
<1>2. /\ \A j \in 1..(n - 1) : new[j].absorbed = segs[j].absorbed /\ new[j].read = segs[j].read
      /\ segs[n].read > 0 => new[n].absorbed = segs[n].absorbed
      /\ segs[n].read <= new[n].read /\ n <= m
  BY DEF GoesOn
<1> HIDE DEF n, m
<1>3. SUFFICES ASSUME NEW i \in DOMAIN sq
               PROVE  /\ sq[i].seg \in DOMAIN new /\ sq[i].nth \in 1..new[sq[i].seg].read
                      /\ sq[i].value = StreamOf(new, sq[i].seg, sq[i].nth)
  BY DEF Placed
<1> DEFINE k == sq[i].seg
           l == sq[i].nth
<1>4. k \in 1..n /\ l \in 1..segs[k].read /\ sq[i].value = StreamOf(segs, k, l)
  BY <1>1 DEF HavePlaces, Follows
<1> HIDE DEF k, l
<1>5. k \in 1..m /\ k \in Nat \ {0} /\ segs[k].read > 0 /\ (k = n \/ k \in 1..(n - 1))
  BY <1>1, <1>2, <1>4
<1>6. new[k].absorbed = segs[k].absorbed /\ segs[k].read <= new[k].read
  BY <1>1, <1>2, <1>5
<1>7. l \in 1..new[k].read
  BY <1>1, <1>4, <1>5, <1>6
<1>8. \A j \in 1..(k - 1) : new[j].absorbed = segs[j].absorbed /\ new[j].read = segs[j].read
  <2>1. \A j \in 1..(k - 1) : j \in 1..(n - 1)
    BY <1>1, <1>4
  <2>2. QED
    BY <1>2, <2>1
<1>9. StreamOf(new, k, l) = StreamOf(segs, k, l)
  BY <1>5, <1>6, <1>8, StreamKept
<1>10. QED
  BY <1>1, <1>4, <1>5, <1>7, <1>9 DEF k, l

LEMMA PutNone == ASSUME NEW u PROVE PutAll(u, <<>>) = u
<1> DEFINE z == <<>>
           n == 0
<1>1. n \in Nat /\ DOMAIN z = 1..n /\ n = 0
  OBVIOUS
<1> HIDE DEF z, n
<1>2. \E h : h[0] = u /\ h[n] = PutAll(u, z)
  BY <1>1, PutAllSteps
<1>3. QED
  BY <1>1, <1>2 DEF z

\* A put before the first read of a segment goes on with it, ...
LEMMA PutOn ==
    ASSUME NEW u, NEW segs, NEW sq, Sound(u, segs, sq), segs[Len(segs)].open,
           NEW x, IsSequence(x), Len(x) > 0
    PROVE  Sound(PutAll(u, x), [segs EXCEPT ![Len(segs)].absorbed = @ \o x], sq)
<1> DEFINE k == Len(segs)
           s == segs[k]
           before == BlocksOver(segs, k)
           v == s.absorbed
           w == v \o x
           r == PutAll(u, x)
           new == [segs EXCEPT ![k].absorbed = @ \o x]
<1>1. /\ WellFormed(u) /\ k \in Nat \ {0} /\ DOMAIN segs = 1..k
      /\ segs = [i \in 1..k |-> segs[i]]
      /\ IsSequence(before) /\ IsSequence(v)
      /\ s.read = 0 /\ Filled(u, before, v, Len(v))
      /\ \A i \in 1..k : /\ DOMAIN segs[i] = {"absorbed", "read", "open"}
                         /\ IsSequence(segs[i].absorbed)
                         /\ segs[i].read \in Nat /\ segs[i].open \in BOOLEAN
  BY SoundIs
<1> HIDE DEF k, before
<1>2. k \in 1..k
  BY <1>1
<1>3. WellFormed(r) /\ Filled(r, before, w, Len(w)) /\ IsSequence(w)
  <2>1. Holds(u, before, v, Len(v))
    BY <1>1 DEF Filled
  <2> HIDE DEF v
  <2>2. IsSequence(v \o x)
    BY <1>1, CatIs
  <2>3. QED
    BY <1>1, <2>1, <2>2, PutAllFills
<1> HIDE DEF w, r
<1>4. /\ new[k].absorbed = w /\ new[k].read = 0 /\ new[k].open = TRUE
      /\ \A i \in 1..k : i # k => new[i] = segs[i]
      /\ new = [i \in 1..k |-> new[i]] /\ DOMAIN new[k] = {"absorbed", "read", "open"}
  BY <1>1, <1>2 DEF w, k
<1> HIDE DEF new
<1>5. IsSequence(new) /\ Len(new) = k /\ DOMAIN new = 1..k
  BY <1>1, <1>4, SequenceIs
<1>6. History(new)
  <2>1. \A i \in 1..k : /\ DOMAIN new[i] = {"absorbed", "read", "open"}
                        /\ IsSequence(new[i].absorbed)
                        /\ new[i].read \in Nat /\ new[i].open \in BOOLEAN
    BY <1>1, <1>3, <1>4
  <2>2. QED
    BY <1>1, <1>5, <2>1 DEF History
<1>7. \A j \in 1..(k - 1) : new[j].absorbed = segs[j].absorbed /\ new[j].read = segs[j].read
  <2>1. \A j \in 1..(k - 1) : j \in 1..k /\ j # k
    BY <1>1
  <2>2. QED
    BY <1>4, <2>1
<1>8. BlocksOver(new, k) = before
  <2> DEFINE m == k - 1
  <2>1. m \in Nat /\ m + 1 = k
    BY <1>1
  <2>2. \A j \in 1..m : BlocksOf(new[j], new[j].read) = BlocksOf(segs[j], segs[j].read)
    BY <1>7 DEF BlocksOf
  <2> HIDE DEF m
  <2>3. BlocksOver(new, m + 1) = BlocksOver(segs, m + 1)
    BY <2>1, <2>2, OverAgrees
  <2>4. QED
    BY <2>1, <2>3 DEF before
<1>9. Buffers(r, new)
  BY <1>3, <1>4, <1>5, <1>8 DEF Buffers
<1>10. HavePlaces(segs, sq) /\ Follows(segs, sq) /\ History(segs) /\ IsSequence(sq)
  BY DEF Sound
<1>11. Placed(new, sq)
  <2>1. segs[k].read = 0 /\ new[k].read = 0 /\ k <= Len(new)
    BY <1>1, <1>4, <1>5
  <2>2. GoesOn(segs, new)
    BY <1>7, <2>1 DEF GoesOn, k
  <2>3. QED
    BY <1>6, <1>10, <2>2, PlacesKept
<1>12. HavePlaces(new, sq) /\ Follows(new, sq)
  BY <1>4, <1>5, <1>10, <1>11 DEF HavePlaces, Follows, Placed
<1>13. QED
  BY <1>3, <1>6, <1>9, <1>10, <1>12 DEF Sound, r, new, k

\* ... one after a read starts a segment of its own.
LEMMA PutAfter ==
    ASSUME NEW u, NEW segs, NEW sq, Sound(u, segs, sq), ~segs[Len(segs)].open,
           NEW x, IsSequence(x), Len(x) > 0
    PROVE  Sound(PutAll(u, x), Append(segs, [absorbed |-> x, read |-> 0, open |-> TRUE]), sq)
<1> DEFINE k == Len(segs)
           l == k + 1
           s == segs[k]
           before == BlocksOver(segs, k)
           blocks == BlocksOf(s, s.read)
           next == before \o blocks
           r == PutAll(u, x)
           e == [absorbed |-> x, read |-> 0, open |-> TRUE]
           new == Append(segs, e)
<1>1. /\ WellFormed(u) /\ k \in Nat \ {0} /\ DOMAIN segs = 1..k
      /\ IsSequence(before) /\ IsSequence(s.absorbed) /\ s.read \in Nat
      /\ u.state = next /\ u.pending = <<>>
      /\ \A i \in 1..k : /\ DOMAIN segs[i] = {"absorbed", "read", "open"}
                         /\ IsSequence(segs[i].absorbed)
                         /\ segs[i].read \in Nat /\ segs[i].open \in BOOLEAN
  BY SoundIs DEF Drained
<1>2. IsSequence(blocks)
  BY <1>1, BlocksNext
<1>3. IsSequence(segs)
  BY DEF Sound, History
<1> HIDE DEF before, blocks, s
<1>4. IsSequence(next)
  BY <1>1, <1>2, CatIs
<1>5. Holds(u, next, <<>>, 0)
  <2>1. 0 \div Rate = 0 /\ 0 * Rate = 0 /\ 0 + 1 = 1
    <3>1. Rate \in Nat \ {0} /\ 0 \in Int /\ 0 \in 0..(Rate - 1) /\ 0 = Rate * 0 + 0
      BY Sizes
    <3>2. 0 \div Rate = 0
      BY <3>1, DivModIs
    <3>3. QED
      BY <3>1, <3>2
  <2>2. Whole(<<>>, 0) = <<>>
    BY DEF Whole
  <2>3. SubSeq(<<>>, 0 + 1, 0) = <<>>
    BY EmptyIs, SubSeqNone
  <2>4. next \o <<>> = next
    <3> HIDE DEF next
    <3>1. QED
      BY <1>4, CatNone
  <2> HIDE DEF next
  <2>5. QED
    BY <1>1, <2>1, <2>2, <2>3, <2>4 DEF Holds
<1> HIDE DEF next
<1>6. WellFormed(r) /\ Filled(r, next, x, Len(x))
  <2> DEFINE v == <<>>
             y == v \o x
  <2>1. IsSequence(v) /\ Len(v) = 0
    BY EmptyIs
  <2>2. Holds(u, next, v, Len(v))
    BY <1>5, <2>1
  <2>3. y = x
    BY CatNone
  <2> HIDE DEF v
  <2>4. WellFormed(r) /\ Filled(r, next, y, Len(y))
    BY <1>1, <1>4, <2>1, <2>2, PutAllFills
  <2> HIDE DEF y
  <2>5. QED
    BY <2>3, <2>4
<1> HIDE DEF r
<1>7. /\ IsSequence(new) /\ Len(new) = l
      /\ \A i \in 1..k : new[i] = segs[i]
      /\ new[l] = e
  <2> HIDE DEF e
  <2>1. QED
    BY <1>3, AppendIs
<1>8. DOMAIN e = {"absorbed", "read", "open"} /\ e.absorbed = x /\ e.read = 0
      /\ e.open = TRUE /\ e.open \in BOOLEAN
  OBVIOUS
<1> HIDE DEF new, e, k
<1>9. History(new)
  <2>1. DOMAIN new = 1..l /\ \A i \in 1..l : i \in 1..k \/ i = l
    BY <1>1, <1>7, SequenceDomain
  <2>2. \A i \in 1..l : /\ DOMAIN new[i] = {"absorbed", "read", "open"}
                        /\ IsSequence(new[i].absorbed)
                        /\ new[i].read \in Nat /\ new[i].open \in BOOLEAN
    <3>1. SUFFICES ASSUME NEW i \in 1..l
                   PROVE  /\ DOMAIN new[i] = {"absorbed", "read", "open"}
                          /\ IsSequence(new[i].absorbed)
                          /\ new[i].read \in Nat /\ new[i].open \in BOOLEAN
      OBVIOUS
    <3> HIDE DEF l
    <3>2. CASE i \in 1..k
      BY <1>1, <1>7, <3>2
    <3>3. CASE i = l
      <4>1. new[i] = e
        BY <1>7, <3>3
      <4>2. IsSequence(e.absorbed) /\ e.read \in Nat /\ e.open \in BOOLEAN
        BY <1>8
      <4>3. QED
        BY <1>8, <4>1, <4>2
    <3>4. QED
      BY <2>1, <3>2, <3>3
  <2>3. QED
    BY <1>1, <1>7, <2>1, <2>2 DEF History
<1>10. BlocksOver(new, l) = next
  <2> DEFINE m == k - 1
  <2>1. m \in Nat /\ m + 1 = k /\ (m + 1) + 1 = l /\ k \in 1..k /\ k \in Nat
    BY <1>1
  <2>2. \A j \in 1..m : j \in 1..k
    BY <2>1
  <2>3. \A j \in 1..k : BlocksOf(new[j], new[j].read) = BlocksOf(segs[j], segs[j].read)
    BY <1>7
  <2> HIDE DEF m
  <2>4. BlocksOver(new, k + 1) = BlocksOver(segs, k + 1)
    BY <2>1, <2>3, OverAgrees
  <2>5. BlocksOver(segs, (m + 1) + 1) = BlocksOver(segs, m + 1) \o BlocksOf(segs[m + 1], segs[m + 1].read)
    BY <2>1, OverNext
  <2>6. BlocksOver(segs, k + 1) = next
    BY <2>1, <2>5 DEF next, before, blocks, s
  <2>7. QED
    BY <2>4, <2>6
<1>11. Buffers(r, new)
  <2> HIDE DEF l
  <2>1. QED
    BY <1>6, <1>7, <1>8, <1>10 DEF Buffers
<1>12. HavePlaces(segs, sq) /\ Follows(segs, sq) /\ History(segs) /\ IsSequence(sq)
  BY DEF Sound
<1>13. Placed(new, sq)
  <2>1. k <= Len(new) /\ k \in 1..k /\ new[k] = segs[k] /\ segs[k].read <= segs[k].read
        /\ \A j \in 1..(k - 1) : new[j] = segs[j]
    BY <1>1, <1>7
  <2>2. GoesOn(segs, new)
    BY <2>1 DEF GoesOn, k
  <2>3. QED
    BY <1>9, <1>12, <2>2, PlacesKept
<1>14. HavePlaces(new, sq) /\ Follows(new, sq)
  <2>1. new[Len(new)].read = 0
    BY <1>7, <1>8
  <2>2. QED
    BY <1>12, <1>13, <2>1 DEF HavePlaces, Follows, Placed
<1>15. QED
  BY <1>6, <1>9, <1>11, <1>12, <1>14 DEF Sound, r, new, k, e

\* Taking the state permutes what is pending, and ends the segment.
LEMMA FlushOn ==
    ASSUME NEW u, NEW segs, NEW sq, Sound(u, segs, sq), u.pending # <<>>
    PROVE  Sound(UpdateState(u), [segs EXCEPT ![Len(segs)].open = FALSE], sq)
<1> DEFINE k == Len(segs)
           s == segs[k]
           before == BlocksOver(segs, k)
           r == UpdateState(u)
           new == [segs EXCEPT ![k].open = FALSE]
           e == new[k]
<1>1. /\ WellFormed(u) /\ k \in Nat \ {0} /\ DOMAIN segs = 1..k
      /\ segs = [i \in 1..k |-> segs[i]]
      /\ IsSequence(before) /\ IsSequence(s.absorbed) /\ s.open \in BOOLEAN
      /\ s.open => s.read = 0 /\ Filled(u, before, s.absorbed, Len(s.absorbed))
      /\ ~s.open => Drained(u, before, s, s.read)
      /\ \A i \in 1..k : /\ DOMAIN segs[i] = {"absorbed", "read", "open"}
                         /\ IsSequence(segs[i].absorbed)
                         /\ segs[i].read \in Nat /\ segs[i].open \in BOOLEAN
  BY SoundIs
<1>2. s.read = 0 /\ Filled(u, before, s.absorbed, Len(s.absorbed))
  <2>1. s.open
    BY <1>1 DEF Drained
  <2>2. QED
    BY <1>1, <2>1
<1>3. s.absorbed # <<>>
  <2>1. SUFFICES ASSUME s.absorbed = <<>> PROVE FALSE
    OBVIOUS
  <2>2. At(u, before, s, 0)
    BY <1>2 DEF At
  <2>3. Len(<<>>) = 0
    BY EmptyIs
  <2>4. Filled(u, before, <<>>, 0)
    BY <1>2, <2>1, <2>3
  <2>5. u.pending = SubSeq(<<>>, (0 \div Rate) * Rate + 1, 0)
    BY <2>4 DEF Filled, Holds
  <2>6. 0 \div Rate = 0 /\ 0 * Rate = 0
    <3>1. Rate \in Nat \ {0} /\ 0 \in Int /\ 0 \in 0..(Rate - 1) /\ 0 = Rate * 0 + 0
      BY Sizes
    <3>2. 0 \div Rate = 0
      BY <3>1, DivModIs
    <3>3. QED
      BY <3>1, <3>2
  <2>7. SubSeq(<<>>, 0 + 1, 0) = <<>>
    BY EmptyIs, SubSeqNone
  <2>8. QED
    BY <2>5, <2>6, <2>7
<1>4. WellFormed(r) /\ Drained(r, before, s, 0)
  BY <1>1, <1>2, <1>3, FilledDrains
<1> HIDE DEF r, before, k
<1>5. k \in 1..k
  BY <1>1
<1>6. /\ e.absorbed = s.absorbed /\ e.read = s.read /\ e.open = FALSE
      /\ DOMAIN e = {"absorbed", "read", "open"}
      /\ \A i \in 1..k : i # k => new[i] = segs[i]
      /\ new = [i \in 1..k |-> new[i]]
  BY <1>1, <1>5
<1> HIDE DEF new
<1>7. IsSequence(new) /\ Len(new) = k /\ DOMAIN new = 1..k
  BY <1>1, <1>6, SequenceIs
<1>8. History(new)
  <2>1. \A i \in 1..k : /\ DOMAIN new[i] = {"absorbed", "read", "open"}
                        /\ IsSequence(new[i].absorbed)
                        /\ new[i].read \in Nat /\ new[i].open \in BOOLEAN
    BY <1>1, <1>6
  <2>2. QED
    BY <1>1, <1>7, <2>1 DEF History
<1>9. \A j \in 1..(k - 1) : new[j] = segs[j]
  <2>1. \A j \in 1..(k - 1) : j \in 1..k /\ j # k
    BY <1>1
  <2>2. QED
    BY <1>6, <2>1
<1>10. BlocksOver(new, k) = before
  <2>1. /\ k \in Nat \ {0} /\ new[k].absorbed = segs[k].absorbed
        /\ \A j \in 1..(k - 1) : new[j].absorbed = segs[j].absorbed /\ new[j].read = segs[j].read
    BY <1>1, <1>6, <1>9
  <2>2. BlocksOver(new, k) = BlocksOver(segs, k)
    BY ONLY <2>1, StreamKept
  <2>3. QED
    BY <2>2 DEF before
<1>11. Buffers(r, new)
  <2>1. Drained(r, before, e, 0)
    BY <1>4, <1>6 DEF Drained, BlocksOf
  <2> HIDE DEF e
  <2>2. Drained(r, before, e, e.read)
    BY <1>2, <1>6, <2>1
  <2>3. QED
    BY <1>6, <1>7, <1>10, <2>2 DEF Buffers, e
<1>12. HavePlaces(segs, sq) /\ Follows(segs, sq) /\ History(segs) /\ IsSequence(sq)
  BY DEF Sound
<1>13. Placed(new, sq)
  <2>1. k <= Len(new) /\ new[k].absorbed = segs[k].absorbed /\ segs[k].read <= new[k].read
    BY <1>1, <1>2, <1>6, <1>7
  <2>2. GoesOn(segs, new)
    BY <1>9, <2>1 DEF GoesOn, k
  <2>3. QED
    BY <1>8, <1>12, <2>2, PlacesKept
<1>14. HavePlaces(new, sq) /\ Follows(new, sq)
  <2>1. new[Len(new)].read = 0
    BY <1>2, <1>6, <1>7
  <2>2. QED
    BY <1>12, <1>13, <2>1 DEF HavePlaces, Follows, Placed
<1>15. QED
  BY <1>4, <1>8, <1>11, <1>12, <1>14 DEF Sound, r, new, k

\* The histories after m more elements are read.
ReadTo(segs, m) == [segs EXCEPT ![Len(segs)].read = @ + m, ![Len(segs)].open = FALSE]

SqueezedTo(segs, sq, read, m) ==
    sq \o [i \in 1..m |->
             [value |-> read[i], seg |-> Len(segs), nth |-> segs[Len(segs)].read + i]]

\* A squeeze goes on from where the segment's last one ended.
LEMMA ReadOn ==
    ASSUME NEW u, NEW segs, NEW sq, Sound(u, segs, sq), NEW m \in Nat, m > 0
    PROVE  /\ IsSequence(Squeeze(u, m).read) /\ Len(Squeeze(u, m).read) = m
           /\ Sound(Squeeze(u, m).t, ReadTo(segs, m), SqueezedTo(segs, sq, Squeeze(u, m).read, m))
<1> DEFINE r == Squeeze(u, m)
           k == Len(segs)
           s == segs[k]
           n == s.read
           before == BlocksOver(segs, k)
           new == [segs EXCEPT ![k].read = @ + m, ![k].open = FALSE]
           e == new[k]
           added == [i \in 1..m |-> [value |-> r.read[i], seg |-> k, nth |-> n + i]]
           all == sq \o added
           l == Len(sq)
<1>1. /\ WellFormed(u) /\ k \in Nat \ {0} /\ DOMAIN segs = 1..k
      /\ segs = [i \in 1..k |-> segs[i]]
      /\ IsSequence(before) /\ IsSequence(s.absorbed) /\ n \in Nat /\ s.open \in BOOLEAN
      /\ s.open => n = 0 /\ Filled(u, before, s.absorbed, Len(s.absorbed))
      /\ ~s.open => Drained(u, before, s, n)
      /\ \A i \in 1..k : /\ DOMAIN segs[i] = {"absorbed", "read", "open"}
                         /\ IsSequence(segs[i].absorbed)
                         /\ segs[i].read \in Nat /\ segs[i].open \in BOOLEAN
  BY SoundIs
<1>2. At(u, before, s, n)
  BY <1>1 DEF At
<1>3. /\ WellFormed(r.t) /\ Drained(r.t, before, s, n + m)
      /\ IsSequence(r.read) /\ Len(r.read) = m
      /\ \A i \in 1..m : r.read[i] = Lane(before \o BlocksOf(s, n + i), (n + i - 1) % Width)
  <2> HIDE DEF before, s
  <2>1. QED
    BY <1>1, <1>2, SqueezeIs
<1>4. k \in 1..k
  BY <1>1
<1>5. /\ e.absorbed = s.absorbed /\ e.read = n + m /\ e.open = FALSE /\ e.open \in BOOLEAN
      /\ DOMAIN e = {"absorbed", "read", "open"}
      /\ \A i \in 1..k : i # k => new[i] = segs[i]
      /\ new = [i \in 1..k |-> new[i]]
  <2> HIDE DEF k
  <2>1. DOMAIN segs[k] = {"absorbed", "read", "open"}
    BY <1>1, <1>4
  <2>2. QED
    BY <1>1, <1>4, <2>1
<1>6. /\ IsSequence(added) /\ Len(added) = m
      /\ \A i \in 1..m : added[i].value = r.read[i] /\ added[i].seg = k /\ added[i].nth = n + i
  <2>1. \A i \in 1..m : added[i].value = r.read[i] /\ added[i].seg = k /\ added[i].nth = n + i
    BY Zenon
  <2>2. added = [i \in 1..m |-> added[i]]
    OBVIOUS
  <2> HIDE DEF added
  <2>3. IsSequence(added) /\ Len(added) = m
    BY <2>2, SequenceIs
  <2>4. QED
    BY <2>1, <2>3
<1> HIDE DEF r, before, k, new, added, l
<1>7. IsSequence(new) /\ Len(new) = k /\ DOMAIN new = 1..k
  BY <1>1, <1>5, SequenceIs
<1>8. \A j \in 1..(k - 1) : new[j] = segs[j]
  <2>1. \A j \in 1..(k - 1) : j \in 1..k /\ j # k
    BY <1>1
  <2>2. QED
    BY <1>5, <2>1
<1> HIDE DEF e
<1>9. e = new[k] /\ s = segs[k]
  BY DEF e
<1>10. e.read \in Nat /\ IsSequence(e.absorbed) /\ n <= e.read /\ e.read > 0
  BY <1>1, <1>5
<1> HIDE DEF s
<1>11. History(new)
  <2>1. ASSUME NEW i \in 1..k
        PROVE  /\ DOMAIN new[i] = {"absorbed", "read", "open"}
               /\ IsSequence(new[i].absorbed)
               /\ new[i].read \in Nat /\ new[i].open \in BOOLEAN
    <3>1. CASE i = k
      <4>1. new[i] = e
        BY <1>9, <3>1
      <4>2. QED
        BY <1>5, <1>10, <4>1
    <3>2. CASE i # k
      BY <1>1, <1>5, <3>2
    <3>3. QED
      BY <3>1, <3>2
  <2>2. QED
    BY <1>1, <1>7, <2>1 DEF History
<1>12. /\ BlocksOver(new, k) = before
       /\ \A i \in 1..m : StreamOf(new, k, n + i) = StreamOf(segs, k, n + i)
  <2>1. /\ k \in Nat \ {0} /\ new[k].absorbed = segs[k].absorbed
        /\ \A j \in 1..(k - 1) : new[j].absorbed = segs[j].absorbed /\ new[j].read = segs[j].read
    BY <1>1, <1>5, <1>8, <1>9
  <2>2. \A x : BlocksOver(new, k) = BlocksOver(segs, k) /\ StreamOf(new, k, x) = StreamOf(segs, k, x)
    BY ONLY <2>1, StreamKept
  <2>3. QED
    BY <2>2 DEF before
<1>13. Buffers(r.t, new)
  <2>1. Drained(r.t, before, e, n + m)
    BY <1>3, <1>5 DEF Drained, BlocksOf
  <2>2. QED
    BY <1>5, <1>7, <1>9, <1>12, <2>1 DEF Buffers
<1>14. HavePlaces(segs, sq) /\ Follows(segs, sq) /\ History(segs) /\ IsSequence(sq)
  BY DEF Sound
<1>15. Placed(new, sq)
  <2>1. k <= Len(new) /\ new[k].absorbed = segs[k].absorbed /\ segs[k].read <= new[k].read
    BY <1>1, <1>5, <1>7, <1>9, <1>10
  <2>2. GoesOn(segs, new)
    BY <1>8, <2>1 DEF GoesOn, k
  <2>3. QED
    BY <1>11, <1>14, <2>2, PlacesKept
<1>16. /\ IsSequence(all) /\ Len(all) = l + m /\ l \in Nat /\ DOMAIN sq = 1..l
       /\ DOMAIN all = 1..(l + m)
       /\ \A i \in 1..l : all[i] = sq[i]
       /\ \A i \in 1..m : all[l + i] = added[i]
  <2>1. /\ IsSequence(all) /\ Len(all) = l + m
        /\ \A i \in 1..l : all[i] = sq[i]
        /\ \A i \in 1..m : all[l + i] = added[i]
    BY <1>6, <1>14, CatIs DEF l
  <2> HIDE DEF all
  <2>2. l \in Nat /\ DOMAIN sq = 1..l /\ DOMAIN all = 1..(l + m)
    BY <1>14, <2>1, SequenceDomain DEF l
  <2>3. QED
    BY <2>1, <2>2
<1> HIDE DEF all
<1>17. \A i \in 1..(l + m) : i \in 1..l \/ (i - l \in 1..m /\ i = l + (i - l))
  BY <1>16
<1>18. ASSUME NEW i \in 1..m
       PROVE  added[i].value = StreamOf(new, k, n + i)
  <2>1. StreamOf(new, k, n + i) = StreamOf(segs, k, n + i)
    BY <1>12
  <2>2. StreamOf(segs, k, n + i) = Lane(before \o BlocksOf(s, n + i), (n + i - 1) % Width)
    <3>1. BlocksOf(segs[k], n + i) = BlocksOf(s, n + i)
      BY <1>9
    <3>2. (n + i) - 1 = n + i - 1
      BY <1>1
    <3>3. QED
      BY <3>1, <3>2, Zenon DEF StreamOf, before
  <2>3. QED
    BY <1>3, <1>6, <2>1, <2>2
<1>19. Placed(new, all)
  <2>1. SUFFICES ASSUME NEW i \in 1..(l + m)
                 PROVE  /\ all[i].seg \in 1..k /\ all[i].nth \in 1..new[all[i].seg].read
                        /\ all[i].value = StreamOf(new, all[i].seg, all[i].nth)
    BY <1>7, <1>16 DEF Placed
  <2>2. CASE i \in 1..l
    BY <1>7, <1>15, <1>16, <2>2 DEF Placed
  <2>3. CASE i - l \in 1..m /\ i = l + (i - l)
    <3> DEFINE j == i - l
    <3>1. j \in 1..m /\ all[i] = added[j]
      BY <1>16, <2>3
    <3> HIDE DEF j
    <3>2. all[i].value = StreamOf(new, k, n + j) /\ all[i].seg = k /\ all[i].nth = n + j
      BY <1>6, <1>18, <3>1
    <3>3. n + j \in 1..(n + m) /\ new[k].read = n + m
      BY <1>1, <1>5, <1>9, <3>1
    <3>4. QED
      BY <1>4, <3>2, <3>3
  <2>4. QED
    BY <1>17, <2>2, <2>3
<1>20. ASSUME NEW i \in 1..(l + m), NEW j \in 1..(l + m),
              all[i].seg = all[j].seg, all[i].nth = all[j].nth
       PROVE  i = j
  <2>1. \A a \in 1..l : \A b \in 1..m : ~(sq[a].seg = k /\ sq[a].nth = n + b)
    <3>1. SUFFICES ASSUME NEW a \in 1..l, NEW b \in 1..m, sq[a].seg = k, sq[a].nth = n + b
                   PROVE  FALSE
      OBVIOUS
    <3>2. sq[a].nth \in 1..segs[k].read
      BY <1>14, <1>16, <3>1 DEF HavePlaces
    <3>3. QED
      BY <1>1, <1>9, <3>1, <3>2
  <2>2. CASE i \in 1..l /\ j \in 1..l
    BY <1>14, <1>16, <1>20, <2>2 DEF HavePlaces
  <2>3. CASE i \in 1..l /\ j - l \in 1..m /\ j = l + (j - l)
    <3> DEFINE b == j - l
    <3>1. b \in 1..m /\ all[j] = added[b] /\ all[i] = sq[i]
      BY <1>16, <2>3
    <3> HIDE DEF b
    <3>2. sq[i].seg = k /\ sq[i].nth = n + b
      BY <1>6, <1>20, <3>1
    <3>3. QED
      BY <2>1, <2>3, <3>1, <3>2
  <2>4. CASE j \in 1..l /\ i - l \in 1..m /\ i = l + (i - l)
    <3> DEFINE b == i - l
    <3>1. b \in 1..m /\ all[i] = added[b] /\ all[j] = sq[j]
      BY <1>16, <2>4
    <3> HIDE DEF b
    <3>2. sq[j].seg = k /\ sq[j].nth = n + b
      BY <1>6, <1>20, <3>1
    <3>3. QED
      BY <2>1, <2>4, <3>1, <3>2
  <2>5. CASE i - l \in 1..m /\ i = l + (i - l) /\ j - l \in 1..m /\ j = l + (j - l)
    <3> DEFINE a == i - l
               b == j - l
    <3>1. a \in 1..m /\ b \in 1..m /\ all[i] = added[a] /\ all[j] = added[b] /\ i = l + a /\ j = l + b
      BY <1>16, <2>5
    <3> HIDE DEF a, b
    <3>2. n + a = n + b
      BY <1>6, <1>20, <3>1
    <3>3. a = b
      BY <1>1, <3>1, <3>2
    <3>4. QED
      BY <3>1, <3>3
  <2>6. QED
    BY <1>17, <2>2, <2>3, <2>4, <2>5
<1>21. all # <<>>
  <2>1. Len(all) # 0
    BY <1>16
  <2>2. QED
    BY <2>1, EmptyIs
<1>22. HavePlaces(new, all) /\ Follows(new, all)
  BY <1>16, <1>19, <1>20, <1>21 DEF HavePlaces, Follows, Placed
<1>23. Sound(r.t, new, all)
  BY <1>3, <1>11, <1>13, <1>16, <1>22 DEF Sound
<1>24. QED
  BY <1>3, <1>23 DEF r, new, all, added, k, s, ReadTo, SqueezedTo

-----------------------------------------------------------------------------
(* The invariant of the specification.                                     *)

LEMMA BeforeIsOver == \A k : BlocksBefore(k) = BlocksOver(segments, k)
BY Zenon DEF BlocksBefore, BlocksOver

LEMMA StreamIsOver == \A k, n : StreamElement(k, n) = StreamOf(segments, k, n)
BY BeforeIsOver, Zenon DEF StreamElement, StreamOf

LEMMA SoundNow == IInv <=> Sound(t, segments, squeezed) /\ inZone \in BOOLEAN
<1>1. BuffersFollowTheStream <=> Buffers(t, segments)
  BY BeforeIsOver DEF BuffersFollowTheStream, Buffers
<1>2. SqueezesAreTheStream <=> Follows(segments, squeezed)
  BY StreamIsOver DEF SqueezesAreTheStream, Follows
<1>3. SqueezesHavePlaces <=> HavePlaces(segments, squeezed)
  BY DEF SqueezesHavePlaces, HavePlaces
<1>4. TypeOK <=> WellFormed(t) /\ History(segments) /\ IsSequence(squeezed) /\ inZone \in BOOLEAN
  BY DEF TypeOK, History
<1>5. QED
  BY <1>1, <1>2, <1>3, <1>4 DEF IInv, Sound

LEMMA SoundThen == IInv' <=> (Sound(t, segments, squeezed) /\ inZone \in BOOLEAN)'
BY SoundNow, PTL

LEMMA InitSound == Init => IInv
<1> DEFINE e == [absorbed |-> <<>>, read |-> 0, open |-> TRUE]
           l == 1
           segs == [i \in 1..l |-> e]
<1>1. SUFFICES ASSUME Init PROVE Sound(t, segments, squeezed) /\ inZone \in BOOLEAN
  BY SoundNow
<1>2. segments = segs
  <2>1. segments = <<e>>
    BY <1>1 DEF Init
  <2> HIDE DEF e
  <2>2. QED
    BY <2>1
<1>3. DOMAIN e = {"absorbed", "read", "open"} /\ e.absorbed = <<>> /\ e.read = 0 /\ e.open = TRUE
      /\ e.open \in BOOLEAN
  OBVIOUS
<1>4. segs = [i \in 1..l |-> segs[i]] /\ (\A i \in 1..l : segs[i] = e) /\ l \in Nat /\ l = 1
  OBVIOUS
<1>5. t.state = <<>> /\ t.out = <<>> /\ t.pending = <<>> /\ t.cursor = 0
      /\ DOMAIN t = {"state", "out", "pending", "cursor"}
      /\ inZone = FALSE /\ squeezed = <<>>
  BY <1>1 DEF Init, Fresh
<1> HIDE DEF e, l, segs
<1>6. IsSequence(segs) /\ Len(segs) = l /\ DOMAIN segs = 1..l
  BY <1>4, SequenceIs
<1>7. WellFormed(t)
  <2>1. 0 \in 0..Width /\ 0 < Rate
    BY Sizes
  <2>2. \A j \in DOMAIN t.state : Len(t.state[j]) = Rate
    BY <1>5
  <2>3. QED
    BY <1>5, <2>1, <2>2, EmptyIs DEF WellFormed
<1>8. History(segments)
  <2>1. \A i \in 1..l : /\ DOMAIN segs[i] = {"absorbed", "read", "open"}
                        /\ IsSequence(segs[i].absorbed)
                        /\ segs[i].read \in Nat /\ segs[i].open \in BOOLEAN
    BY <1>3, <1>4, EmptyIs
  <2>2. QED
    BY <1>2, <1>4, <1>6, <2>1 DEF History
<1>9. Buffers(t, segments)
  <2>1. segs[l] = e /\ Len(segs) = 1
    BY <1>4, <1>6
  <2>2. Filled(t, <<>>, <<>>, 0)
    <3>1. 0 \div Rate = 0 /\ 0 * Rate = 0 /\ 0 + 1 = 1
      <4>1. Rate \in Nat \ {0} /\ 0 \in Int /\ 0 \in 0..(Rate - 1) /\ 0 = Rate * 0 + 0
        BY Sizes
      <4>2. 0 \div Rate = 0
        BY <4>1, DivModIs
      <4>3. QED
        BY <4>1, <4>2
    <3>2. Whole(<<>>, 0) = <<>>
      BY DEF Whole
    <3>3. SubSeq(<<>>, 0 + 1, 0) = <<>>
      BY EmptyIs, SubSeqNone
    <3>4. <<>> \o <<>> = <<>>
      BY EmptyIs, CatNone
    <3>5. Holds(t, <<>>, <<>>, 0)
      BY <1>5, <3>1, <3>2, <3>3, <3>4 DEF Holds
    <3>6. QED
      BY <1>5, <3>5 DEF Filled
  <2>3. BlocksOver(segs, 1) = <<>>
    BY OverNext
  <2>4. Len(<<>>) = 0
    BY EmptyIs
  <2>5. QED
    BY <1>2, <1>3, <1>4, <2>1, <2>2, <2>3, <2>4 DEF Buffers
<1>10. HavePlaces(segments, squeezed) /\ Follows(segments, squeezed) /\ IsSequence(squeezed)
  <2>1. DOMAIN squeezed = {}
    BY <1>5
  <2>2. segs[Len(segs)].read = 0
    BY <1>3, <1>4, <1>6
  <2>3. QED
    BY <1>2, <1>5, <2>1, <2>2, EmptyIs DEF HavePlaces, Follows
<1>11. QED
  BY <1>5, <1>7, <1>8, <1>9, <1>10 DEF Sound

\* What callers put, hashed or not.
LEMMA SectionIs ==
    ASSUME NEW values \in Batches, NEW hashed \in BOOLEAN
    PROVE  LET x == Section(values, hashed)
           IN  IsSequence(x) /\ (x # <<>> => Len(x) > 0)
<1> DEFINE x == Section(values, hashed)
<1>1. IsSequence(values)
  <2>1. CASE values = <<>>
    BY <2>1, EmptyIs
  <2>2. ASSUME NEW v, values = <<Const(v)>> PROVE IsSequence(values)
    <3> DEFINE l == 1
    <3>1. l \in Nat /\ values = [i \in 1..l |-> values[i]]
      BY <2>2
    <3> HIDE DEF l
    <3>2. QED
      BY <3>1, SequenceIs
  <2>3. ASSUME NEW v, NEW w, values = <<Const(v), Const(w)>> PROVE IsSequence(values)
    <3> DEFINE l == 2
    <3>1. l \in Nat /\ values = [i \in 1..l |-> values[i]]
      BY <2>3
    <3> HIDE DEF l
    <3>2. QED
      BY <3>1, SequenceIs
  <2>4. QED
    BY <2>1, <2>2, <2>3 DEF Batches
<1>2. IsSequence(TranscriptHash(values))
  <2>1. \A s : IsSequence(Lanes(s, Digest))
    <3>1. SUFFICES ASSUME NEW s PROVE IsSequence(Lanes(s, Digest))
      OBVIOUS
    <3> DEFINE c == Lanes(s, Digest)
    <3>2. Digest \in Nat /\ c = [i \in 1..Digest |-> c[i]]
      BY Sizes DEF Lanes
    <3> HIDE DEF c
    <3>3. IsSequence(c)
      BY <3>2, SequenceIs
    <3>4. QED
      BY <3>3 DEF c
  <2>2. QED
    BY <2>1 DEF TranscriptHash
<1>3. IsSequence(x)
  BY <1>1, <1>2 DEF Section
<1> HIDE DEF x
<1>4. x # <<>> => Len(x) > 0
  <2>1. Len(x) \in Nat
    BY <1>3 DEF IsSequence
  <2>2. QED
    BY <1>3, <2>1, EmptyIs
<1>5. QED
  BY <1>3, <1>4 DEF x

LEMMA FieldsAreSome ==
    ASSUME NEW q \in Queries
    PROVE  /\ q[1] * q[2] \in Nat \ {0}
           /\ FieldsFor(q[1], q[2]) \in Nat /\ FieldsFor(q[1], q[2]) > 0
<1>1. q[1] \in Nat \ {0} /\ q[2] \in Nat \ {0}
  BY QueriesAssumption
<1> DEFINE a == q[1]
           b == q[2]
           n == a * b
<1>2. n \in Nat /\ n >= 1
  <2>1. a \in Nat /\ b \in Nat /\ 1 \in Nat /\ 1 <= a /\ 1 <= b
    BY <1>1
  <2> HIDE DEF a, b
  <2>2. n \in Nat /\ 1 * b <= a * b
    BY <2>1, Times
  <2>3. QED
    BY <2>1, <2>2
<1> DEFINE m == n - 1
<1>3. m \in Nat
  BY <1>2
<1>4. FieldsFor(q[1], q[2]) = (m \div QueryBits) + 1
  BY DEF FieldsFor
<1> HIDE DEF m
<1>5. m \div QueryBits \in Nat
  BY <1>3, Sizes, NatDiv
<1>6. QED
  BY <1>2, <1>4, <1>5

LEMMA StepSound == IInv /\ [Next]_vars => IInv'
<1> USE DEF vars
<1>1. SUFFICES ASSUME IInv, [Next]_vars
               PROVE  Sound(t', segments', squeezed') /\ inZone' \in BOOLEAN
  BY SoundThen
<1>2. Sound(t, segments, squeezed) /\ inZone \in BOOLEAN
  BY <1>1, SoundNow
<1>3. WellFormed(t) /\ Len(segments) \in Nat \ {0} /\ DOMAIN segments = 1..Len(segments)
      /\ segments[Len(segments)].open \in BOOLEAN
  BY <1>2, SoundIs
<1>4. ASSUME NEW values \in Batches, NEW hashed \in BOOLEAN, Put(values, hashed)
      PROVE  Sound(t', segments', squeezed') /\ inZone' \in BOOLEAN
  <2> DEFINE x == Section(values, hashed)
             k == Len(segments)
  <2>1. IsSequence(x) /\ (x # <<>> => Len(x) > 0)
    BY SectionIs
  <2>2. t' = PutAll(t, x) /\ squeezed' = squeezed /\ inZone' = inZone
        /\ segments' = IF x = <<>> THEN segments
                       ELSE IF segments[k].open
                       THEN [segments EXCEPT ![k].absorbed = @ \o x]
                       ELSE Append(segments, [absorbed |-> x, read |-> 0, open |-> TRUE])
    BY <1>4 DEF Put, Absorbing
  <2> HIDE DEF x
  <2>3. CASE x = <<>>
    <3>1. t' = t
      BY <2>2, <2>3, PutNone
    <3>2. QED
      BY <1>2, <2>2, <2>3, <3>1
  <2>4. CASE x # <<>> /\ segments[k].open
    <3>1. Sound(PutAll(t, x), [segments EXCEPT ![k].absorbed = @ \o x], squeezed)
      BY <1>2, <2>1, <2>4, PutOn
    <3>2. QED
      BY <1>2, <2>2, <2>4, <3>1
  <2>5. CASE x # <<>> /\ ~segments[k].open
    <3>1. Sound(PutAll(t, x), Append(segments, [absorbed |-> x, read |-> 0, open |-> TRUE]), squeezed)
      BY <1>2, <2>1, <2>5, PutAfter
    <3>2. QED
      BY <1>2, <2>2, <2>5, <3>1
  <2>6. QED
    BY <1>3, <2>3, <2>4, <2>5
<1>5. ASSUME GetState PROVE Sound(t', segments', squeezed') /\ inZone' \in BOOLEAN
  <2>1. squeezed' = squeezed /\ inZone' = inZone
        /\ t' = (IF t.pending # <<>> THEN UpdateState(t) ELSE t)
        /\ segments' = IF t.pending # <<>> THEN [segments EXCEPT ![Len(segments)].open = FALSE]
                                           ELSE segments
    BY <1>5 DEF GetState, Flushed
  <2>2. CASE t.pending # <<>>
    <3>1. Sound(UpdateState(t), [segments EXCEPT ![Len(segments)].open = FALSE], squeezed)
      BY <1>2, <2>2, FlushOn
    <3>2. QED
      BY <1>2, <2>1, <2>2, <3>1
  <2>3. CASE t.pending = <<>>
    BY <1>2, <2>1, <2>3
  <2>4. QED
    BY <2>2, <2>3
<1>6. ASSUME NEW m \in Nat, m > 0, t' = Squeeze(t, m).t, Reading(Squeeze(t, m).read), inZone' = inZone
      PROVE  Sound(t', segments', squeezed') /\ inZone' \in BOOLEAN
  <2> DEFINE r == Squeeze(t, m)
             new == ReadTo(segments, m)
             all == SqueezedTo(segments, squeezed, r.read, m)
  <2>1. /\ IsSequence(r.read) /\ Len(r.read) = m
        /\ Sound(r.t, new, all)
    BY <1>2, <1>6, ReadOn
  <2>2. segments' = new /\ squeezed' = all
    BY <1>6, <2>1 DEF Reading, ReadTo, SqueezedTo
  <2>3. QED
    BY <1>2, <1>6, <2>1, <2>2
<1>7. ASSUME GetField PROVE Sound(t', segments', squeezed') /\ inZone' \in BOOLEAN
  <2>1. Limbs \in Nat /\ Limbs > 0
    BY Sizes
  <2>2. t' = Squeeze(t, Limbs).t /\ Reading(Squeeze(t, Limbs).read) /\ inZone' = inZone
    BY <1>7 DEF GetField
  <2>3. QED
    BY <1>6, <2>1, <2>2
<1>8. ASSUME NEW q \in Queries, GetPermutations(q[1], q[2])
      PROVE  Sound(t', segments', squeezed') /\ inZone' \in BOOLEAN
  <2> DEFINE m == FieldsFor(q[1], q[2])
  <2>1. m \in Nat /\ m > 0
    BY FieldsAreSome
  <2>2. t' = Squeeze(t, m).t /\ Reading(Squeeze(t, m).read) /\ inZone' = inZone
    BY <1>8 DEF GetPermutations
  <2> HIDE DEF m
  <2>3. QED
    BY <1>6, <2>1, <2>2
<1>9. ASSUME t' = Unflatten(Flatten(t)), inZone' \in BOOLEAN, segments' = segments, squeezed' = squeezed
      PROVE  Sound(t', segments', squeezed') /\ inZone' \in BOOLEAN
  <2>1. t'.state = t.state /\ t'.out = t.out /\ t'.pending = t.pending /\ t'.cursor = t.cursor
        /\ DOMAIN t' = {"state", "out", "pending", "cursor"}
    BY <1>9 DEF Unflatten, Flatten
  <2>2. WellFormed(t')
    BY <1>3, <2>1 DEF WellFormed
  <2>3. Buffers(t', segments)
    <3>1. Buffers(t, segments)
      BY <1>2 DEF Sound
    <3>2. \A before, v, n : Filled(t, before, v, n) => Filled(t', before, v, n)
      BY <2>1 DEF Filled, Holds
    <3>3. \A before, s, n : Drained(t, before, s, n) => Drained(t', before, s, n)
      BY <2>1 DEF Drained
    <3>4. QED
      BY <3>1, <3>2, <3>3 DEF Buffers
  <2>4. QED
    BY <1>2, <1>9, <2>2, <2>3 DEF Sound
<1>10. ASSUME EnterZone PROVE Sound(t', segments', squeezed') /\ inZone' \in BOOLEAN
  <2>1. t' = Unflatten(Flatten(t)) /\ inZone' \in BOOLEAN /\ segments' = segments /\ squeezed' = squeezed
    BY <1>10 DEF EnterZone
  <2>2. QED
    BY <1>9, <2>1
<1>11. ASSUME LeaveZone PROVE Sound(t', segments', squeezed') /\ inZone' \in BOOLEAN
  <2>1. t' = Unflatten(Flatten(t)) /\ inZone' \in BOOLEAN /\ segments' = segments /\ squeezed' = squeezed
    BY <1>11 DEF LeaveZone
  <2>2. QED
    BY <1>9, <2>1
<1>12. ASSUME UNCHANGED vars PROVE Sound(t', segments', squeezed') /\ inZone' \in BOOLEAN
  BY <1>2, <1>12
<1>13. QED
  BY <1>1, <1>4, <1>5, <1>7, <1>8, <1>10, <1>11, <1>12 DEF Next

\* The transcript holds the place in the stream its history gives.
THEOREM TranscriptInvariant == Spec => []IInv
<1>1. Init => IInv
  BY InitSound
<1>2. IInv /\ [Next]_vars => IInv'
  BY StepSound
<1>3. QED
  BY <1>1, <1>2, PTL DEF Spec

-----------------------------------------------------------------------------
(* No lane twice: each read is further along the stream than those before. *)

\* Reads of a segment have the blocks they need, a block of zeros every Width.
LEMMA BlocksCount ==
    ASSUME NEW s, IsSequence(s.absorbed), NEW n \in Nat \ {0}
    PROVE  /\ IsSequence(BlocksOf(s, n))
           /\ (n - 1) \div Width \in Nat
           /\ \E c \in Nat \ {0} :
                 \A m \in Nat \ {0} : Len(BlocksOf(s, m)) = c + ((m - 1) \div Width)
<1>1. IsSequence(BlocksOf(s, n))
  BY BlocksNext
<1>2. \A m \in Nat \ {0} : m \in Nat /\ m - 1 \in Nat /\ (m - 1) \div Width \in Nat
  <2>1. SUFFICES ASSUME NEW m \in Nat \ {0} PROVE m - 1 \in Nat /\ (m - 1) \div Width \in Nat
    OBVIOUS
  <2> DEFINE j == m - 1
  <2>2. j \in Nat
    OBVIOUS
  <2> HIDE DEF j
  <2>3. j \div Width \in Nat
    BY <2>2, Sizes, NatDiv
  <2>4. QED
    BY <2>2, <2>3 DEF j
<1>3. CASE s.absorbed = <<>>
  <2>1. ASSUME NEW m \in Nat \ {0} PROVE Len(BlocksOf(s, m)) = 1 + ((m - 1) \div Width)
    <3> DEFINE wd == Width
               j == m - 1
               a == j \div wd
               b == j % wd
               p == a + 1
               x == m + wd - 1
    <3>1. wd \in Nat \ {0} /\ j \in Nat /\ j \in Int /\ x = j + wd
      BY Sizes
    <3> HIDE DEF wd, j
    <3>2. a \in Int /\ b \in 0..(wd - 1) /\ j = wd * a + b /\ a \in Nat
      BY <3>1, DivMod, NatDiv
    <3> HIDE DEF a, b
    <3>3. p \in Int /\ x \in Int /\ x = wd * p + b
      BY <3>1, <3>2
    <3>4. p \in Nat /\ p = 1 + a
      BY <3>2
    <3> HIDE DEF p, x
    <3>5. x \div wd = p
      BY <3>1, <3>2, <3>3, DivModIs
    <3>6. BlocksOf(s, m) = Idle(p)
      BY <1>3, <3>5 DEF BlocksOf, x, wd
    <3>7. Len(Idle(p)) = p
      BY <3>4, IdleIs
    <3>8. QED
      BY <3>4, <3>6, <3>7 DEF a, j, wd
  <2> DEFINE one == 1
  <2>2. one \in Nat \ {0}
    OBVIOUS
  <2>3. \A m \in Nat \ {0} : Len(BlocksOf(s, m)) = one + ((m - 1) \div Width)
    BY <2>1
  <2> HIDE DEF one
  <2>4. QED
    BY <1>1, <1>2, <2>2, <2>3
<1>4. CASE s.absorbed # <<>>
  <2> DEFINE c == Chunks(s.absorbed)
  <2>1. IsSequence(c)
    BY ChunksSequence
  <2>2. Len(c) \in Nat \ {0}
    <3> DEFINE v == s.absorbed
               q == Len(v) \div Rate
               y == ZeroPadded(SubSeq(v, q * Rate + 1, Len(v)))
    <3>1. Len(v) \in Nat /\ Len(v) # 0 /\ Rate \in Nat \ {0}
      BY <1>4, EmptyIs, Sizes DEF IsSequence
    <3>2. q \in Nat /\ Rate * q <= Len(v) /\ (Len(v) % Rate = 0 => q # 0)
      <4> DEFINE L == Len(v)
                 R == Rate
                 d == L \div R
                 e == L % R
      <4>1. L \in Nat /\ L # 0 /\ R \in Nat \ {0} /\ L \in Int
        BY <3>1
      <4> HIDE DEF L, R
      <4>2. d \in Nat /\ R * d <= L
        BY <4>1, NatDiv
      <4>3. L = R * d + e
        BY <4>1, DivMod
      <4> HIDE DEF d, e
      <4>4. e = 0 => d # 0
        BY <4>1, <4>3
      <4>5. QED
        BY <4>2, <4>4 DEF d, e, L, R
    <3>3. c = IF Len(v) % Rate = 0 THEN Whole(v, q) ELSE Append(Whole(v, q), y)
      BY ChunksAre
    <3> HIDE DEF v, q, y, c
    <3>4. IsSequence(Whole(v, q)) /\ Len(Whole(v, q)) = q
      <4>1. q * Rate <= Len(v)
        BY <3>1, <3>2, Times
      <4>2. QED
        BY <3>2, <4>1, WholeIs DEF v
    <3>5. Len(Append(Whole(v, q), y)) = q + 1
      <4> DEFINE z == Whole(v, q)
      <4>1. IsSequence(z) /\ Len(z) = q
        BY <3>4
      <4> HIDE DEF z
      <4>2. Len(Append(z, y)) = Len(z) + 1
        BY <4>1, AppendIs
      <4>3. QED
        BY <4>1, <4>2 DEF z
    <3>6. CASE Len(v) % Rate = 0
      BY <3>2, <3>3, <3>4, <3>6
    <3>7. CASE Len(v) % Rate # 0
      BY <3>2, <3>3, <3>5, <3>7
    <3>8. QED
      BY <3>6, <3>7
  <2> HIDE DEF c
  <2>3. ASSUME NEW m \in Nat \ {0} PROVE Len(BlocksOf(s, m)) = Len(c) + ((m - 1) \div Width)
    <3> DEFINE j == (m - 1) \div Width
               i == Idle(j)
    <3>1. BlocksOf(s, m) = c \o i
      BY <1>4 DEF BlocksOf, c
    <3>2. j \in Nat
      BY <1>2
    <3> HIDE DEF j
    <3>3. IsSequence(i) /\ Len(i) = j
      BY <3>2, IdleIs
    <3> HIDE DEF i
    <3>4. Len(c \o i) = Len(c) + Len(i)
      BY <2>1, <3>3, CatIs
    <3>5. QED
      BY <3>1, <3>3, <3>4 DEF j
  <2>4. QED
    BY <1>1, <1>2, <2>2, <2>3
<1>5. QED
  BY <1>3, <1>4

\* There are no fewer blocks before a later segment.
LEMMA OverGrows ==
    ASSUME NEW segs, History(segs), NEW a \in 1..Len(segs), NEW b \in 1..Len(segs), a < b
    PROVE  Len(BlocksOver(segs, a)) + Len(BlocksOf(segs[a], segs[a].read))
              <= Len(BlocksOver(segs, b))
<1> DEFINE l == Len(segs)
           n == b - a - 1
           O(k) == BlocksOver(segs, k)
           B(k) == BlocksOf(segs[k], segs[k].read)
<1>1. l \in Nat /\ \A i \in 1..l : IsSequence(segs[i].absorbed) /\ segs[i].read \in Nat
  BY HistoryIs
<1>2. n \in Nat /\ a \in Nat /\ b = a + n + 1 /\ a >= 1
  BY <1>1
<1> HIDE DEF l
<1>3. ASSUME NEW k \in 1..l
      PROVE  /\ IsSequence(O(k)) /\ IsSequence(B(k)) /\ O(k + 1) = O(k) \o B(k)
             /\ Len(O(k)) \in Nat /\ Len(B(k)) \in Nat /\ Len(O(k + 1)) = Len(O(k)) + Len(B(k))
  <2> DEFINE m == k - 1
  <2>1. m \in Nat /\ m + 1 = k /\ \A j \in 1..m : j \in 1..l
    BY <1>1
  <2> HIDE DEF m
  <2>2. IsSequence(BlocksOver(segs, m + 1))
    BY <1>1, <2>1, OverIs
  <2>3. IsSequence(BlocksOf(segs[k], segs[k].read))
    BY <1>1, BlocksNext
  <2>4. BlocksOver(segs, (m + 1) + 1) = BlocksOver(segs, m + 1) \o BlocksOf(segs[m + 1], segs[m + 1].read)
    BY <2>1, OverNext
  <2> DEFINE x == O(k)
             y == B(k)
             z == O(k + 1)
  <2>5. IsSequence(x) /\ IsSequence(y) /\ z = x \o y
    BY <2>1, <2>2, <2>3, <2>4
  <2> HIDE DEF x, y, z, O, B
  <2>6. Len(x \o y) = Len(x) + Len(y) /\ Len(x) \in Nat /\ Len(y) \in Nat
    BY <2>5, CatIs DEF IsSequence
  <2>7. QED
    BY <2>5, <2>6 DEF x, y, z
<1> HIDE DEF O, B, n
<1> DEFINE e == Len(O(a)) + Len(B(a))
           S == {k \in 0..n : Len(O(a + k + 1)) \in Nat /\ e <= Len(O(a + k + 1))}
<1>4. 0 \in S
  <2>1. a + 0 + 1 = a + 1 /\ a \in 1..l /\ 0 \in 0..n
    BY <1>2 DEF l
  <2>2. Len(O(a + 1)) = e /\ e \in Nat
    BY <1>3, <2>1
  <2>3. QED
    BY <2>1, <2>2
<1>5. ASSUME NEW k \in 1..n, k - 1 \in S PROVE k \in S
  <2> DEFINE j == a + (k - 1) + 1
  <2>1. j \in 1..l /\ a + k + 1 = j + 1 /\ k \in 0..n
    BY <1>1, <1>2 DEF l
  <2>2. Len(O(j)) \in Nat /\ e <= Len(O(j))
    BY <1>5
  <2>3. e \in Nat
    <3>1. a \in 1..l
      BY DEF l
    <3>2. QED
      BY <1>3, <3>1
  <2> HIDE DEF j, e
  <2>4. Len(O(j + 1)) = Len(O(j)) + Len(B(j)) /\ Len(B(j)) \in Nat
    BY <1>3, <2>1
  <2>5. QED
    BY <2>1, <2>2, <2>3, <2>4
<1>6. \A k \in 0..n : k \in S
  <2> HIDE DEF S
  <2>1. QED
    BY <1>2, <1>4, <1>5, UpTo
<1>7. n \in S /\ a + n + 1 = b
  BY <1>2, <1>6
<1>8. QED
  BY <1>7 DEF O, B

\* The number of blocks and the lane give the place of a read.
LEMMA StreamPlaces ==
    ASSUME NEW segs, History(segs),
           NEW a \in 1..Len(segs), NEW m \in 1..segs[a].read,
           NEW b \in 1..Len(segs), NEW n \in 1..segs[b].read,
           StreamOf(segs, a, m) = StreamOf(segs, b, n)
    PROVE  a = b /\ m = n
<1> DEFINE l == Len(segs)
           O(k) == BlocksOver(segs, k)
           B(k, i) == BlocksOf(segs[k], i)
           wd == Width
<1>1. l \in Nat /\ \A i \in 1..l : IsSequence(segs[i].absorbed) /\ segs[i].read \in Nat
  BY HistoryIs
<1>2. wd \in Nat \ {0}
  BY Sizes
<1> HIDE DEF l
<1>3. ASSUME NEW k \in 1..l PROVE IsSequence(O(k)) /\ Len(O(k)) \in Nat
  <2> DEFINE j == k - 1
  <2>1. j \in Nat /\ j + 1 = k /\ \A i \in 1..j : i \in 1..l
    BY <1>1
  <2> HIDE DEF j
  <2>2. IsSequence(BlocksOver(segs, j + 1))
    BY <1>1, <2>1, OverIs
  <2>3. QED
    BY <2>1, <2>2 DEF IsSequence
<1>4. ASSUME NEW k \in 1..l, NEW i \in 1..segs[k].read
      PROVE  /\ IsSequence(B(k, i)) /\ Len(B(k, i)) \in Nat /\ Len(B(k, i)) > 0
             /\ Len(B(k, i)) <= Len(B(k, segs[k].read)) /\ i \in Nat \ {0}
             /\ (i - 1) \div wd \in Nat
             /\ \A j \in 1..segs[k].read : Len(B(k, j)) = Len(B(k, i)) => (j - 1) \div wd = (i - 1) \div wd
  <2> DEFINE r == segs[k].read
             s == segs[k]
  <2>1. r \in Nat /\ i \in Nat \ {0} /\ r \in Nat \ {0} /\ i <= r /\ IsSequence(s.absorbed)
    BY <1>1
  <2>2. IsSequence(BlocksOf(s, i)) /\ (i - 1) \div wd \in Nat /\ (r - 1) \div wd \in Nat
    BY <2>1, BlocksCount
  <2>3. PICK c \in Nat \ {0} : \A x \in Nat \ {0} : Len(BlocksOf(s, x)) = c + ((x - 1) \div wd)
    BY <2>1, BlocksCount
  <2>4. \A j \in 1..r : j \in Nat \ {0} /\ (j - 1) \div wd \in Nat
    <3>1. \A j \in 1..r : j \in Nat \ {0}
      OBVIOUS
    <3>2. QED
      BY <2>1, <3>1, BlocksCount
  <2>5. (i - 1) \div wd <= (r - 1) \div wd
    <3> DEFINE x == i - 1
               y == r - 1
               d == x \div wd
               e == y \div wd
    <3>1. x \in Nat /\ y \in Nat /\ x <= y
      BY <2>1
    <3> HIDE DEF x, y, wd
    <3>2. d \in Nat /\ wd * d <= x /\ e \in Nat /\ y < wd * e + wd
      BY <1>2, <3>1, NatDiv
    <3> HIDE DEF d, e
    <3>3. SUFFICES ASSUME e + 1 <= d PROVE FALSE
      BY <3>2 DEF d, e, x, y
    <3>4. wd * (e + 1) <= wd * d /\ wd * (e + 1) = wd * e + wd
      <4> DEFINE f == e + 1
      <4>1. f \in Nat /\ f <= d /\ wd \in Nat
        BY <1>2, <3>2, <3>3
      <4> HIDE DEF f
      <4>2. f * wd <= d * wd /\ wd * f = f * wd /\ wd * d = d * wd
        BY <3>2, <4>1, Times
      <4>3. wd * (e + 1) = wd * e + wd
        BY <1>2, <3>2
      <4>4. QED
        BY <4>2, <4>3 DEF f
    <3>5. wd * d \in Int /\ wd * e \in Int
      BY <1>2, <3>2
    <3>6. QED
      BY <1>2, <3>1, <3>2, <3>4, <3>5
  <2> HIDE DEF s, r, wd
  <2>6. Len(BlocksOf(s, i)) = c + ((i - 1) \div wd) /\ Len(BlocksOf(s, r)) = c + ((r - 1) \div wd)
    BY <2>1, <2>3
  <2>7. Len(BlocksOf(s, i)) \in Nat /\ Len(BlocksOf(s, i)) > 0 /\ Len(BlocksOf(s, i)) <= Len(BlocksOf(s, r))
    <3> DEFINE d == (i - 1) \div wd
               e == (r - 1) \div wd
    <3>1. c \in Nat \ {0} /\ d \in Nat /\ e \in Nat /\ d <= e
          /\ Len(BlocksOf(s, i)) = c + d /\ Len(BlocksOf(s, r)) = c + e
      BY <2>2, <2>5, <2>6
    <3> HIDE DEF d, e
    <3>2. QED
      BY <3>1
  <2>8. \A j \in 1..r : Len(BlocksOf(s, j)) = Len(BlocksOf(s, i)) => (j - 1) \div wd = (i - 1) \div wd
    <3>1. SUFFICES ASSUME NEW j \in 1..r, Len(BlocksOf(s, j)) = Len(BlocksOf(s, i))
                   PROVE  (j - 1) \div wd = (i - 1) \div wd
      OBVIOUS
    <3>2. Len(BlocksOf(s, j)) = c + ((j - 1) \div wd) /\ (j - 1) \div wd \in Nat
      BY <2>3, <2>4
    <3>3. QED
      <4> DEFINE d == (i - 1) \div wd
                 e == (j - 1) \div wd
      <4>1. c \in Nat \ {0} /\ d \in Nat /\ e \in Nat /\ c + e = c + d
        BY <2>2, <2>6, <3>1, <3>2
      <4> HIDE DEF d, e
      <4>2. d = e
        BY <4>1
      <4>3. QED
        BY <4>2 DEF d, e
  <2>9. QED
    BY <2>1, <2>2, <2>7, <2>8 DEF s, r
<1>5. a \in 1..l /\ b \in 1..l
  BY DEF l
<1>6. /\ \A k \in 1..l : \A i \in 1..segs[k].read :
            /\ O(k) \o B(k, i) # <<>>
            /\ Len(O(k) \o B(k, i)) = Len(O(k)) + Len(B(k, i))
  <2>1. SUFFICES ASSUME NEW k \in 1..l, NEW i \in 1..segs[k].read
                 PROVE  O(k) \o B(k, i) # <<>> /\ Len(O(k) \o B(k, i)) = Len(O(k)) + Len(B(k, i))
    OBVIOUS
  <2> DEFINE x == O(k)
             y == B(k, i)
  <2>2. IsSequence(x) /\ IsSequence(y) /\ Len(x) \in Nat /\ Len(y) \in Nat /\ Len(y) > 0
    BY <1>3, <1>4
  <2> HIDE DEF x, y, O, B
  <2>3. Len(x \o y) = Len(x) + Len(y)
    BY <2>2, CatIs
  <2>4. x \o y # <<>>
    BY <2>2, <2>3, EmptyIs
  <2>5. QED
    BY <2>3, <2>4 DEF x, y
<1>7. O(a) \o B(a, m) = O(b) \o B(b, n) /\ ((m - 1) % wd) = ((n - 1) % wd)
  <2> DEFINE x == O(a) \o B(a, m)
             y == O(b) \o B(b, n)
  <2>1. x # <<>> /\ y # <<>>
    BY <1>5, <1>6
  <2>2. Lane(x, (m - 1) % wd) = Lane(y, (n - 1) % wd)
    BY DEF StreamOf
  <2> HIDE DEF x, y, wd
  <2>3. <<x, (m - 1) % wd>> = <<y, (n - 1) % wd>>
    BY <2>1, <2>2 DEF Lane
  <2>4. x = y /\ ((m - 1) % wd) = ((n - 1) % wd)
    BY <2>3
  <2>5. QED
    BY <2>4 DEF x, y
<1>8. Len(O(a)) + Len(B(a, m)) = Len(O(b)) + Len(B(b, n))
  <2>1. Len(O(a) \o B(a, m)) = Len(O(a)) + Len(B(a, m))
    BY <1>5, <1>6
  <2>2. Len(O(b) \o B(b, n)) = Len(O(b)) + Len(B(b, n))
    BY <1>5, <1>6
  <2>3. QED
    BY <1>7, <2>1, <2>2
<1>9. a \in Nat /\ b \in Nat
  BY <1>1
<1>10. Len(O(a)) \in Nat /\ Len(O(b)) \in Nat
       /\ Len(B(a, m)) \in Nat /\ Len(B(b, n)) \in Nat
       /\ Len(B(a, m)) > 0 /\ Len(B(b, n)) > 0
       /\ Len(B(a, m)) <= Len(B(a, segs[a].read)) /\ Len(B(b, n)) <= Len(B(b, segs[b].read))
  BY <1>3, <1>4, <1>5
<1>11. ~(a < b)
  <2>1. SUFFICES ASSUME a < b PROVE FALSE
    OBVIOUS
  <2>2. Len(O(a)) + Len(B(a, segs[a].read)) <= Len(O(b))
    BY <2>1, OverGrows
  <2>3. Len(B(a, segs[a].read)) \in Nat
    BY <1>1, <1>5, BlocksNext DEF IsSequence
  <2> HIDE DEF O, B
  <2>4. QED
    BY <1>8, <1>10, <2>2, <2>3
<1>12. ~(b < a)
  <2>1. SUFFICES ASSUME b < a PROVE FALSE
    OBVIOUS
  <2>2. Len(O(b)) + Len(B(b, segs[b].read)) <= Len(O(a))
    BY <2>1, OverGrows
  <2>3. Len(B(b, segs[b].read)) \in Nat
    BY <1>1, <1>5, BlocksNext DEF IsSequence
  <2> HIDE DEF O, B
  <2>4. QED
    BY <1>8, <1>10, <2>2, <2>3
<1>13. a = b
  BY <1>9, <1>11, <1>12
<1>14. Len(B(a, m)) = Len(B(a, n)) /\ n \in 1..segs[a].read
  <2> HIDE DEF O, B
  <2>1. QED
    BY <1>8, <1>10, <1>13
<1>15. (m - 1) \div wd = (n - 1) \div wd /\ m \in Nat \ {0} /\ n \in Nat \ {0}
  BY <1>4, <1>5, <1>14
<1>16. m = n
  <2> DEFINE x == m - 1
             y == n - 1
  <2>1. x \in Int /\ y \in Int
    BY <1>15
  <2> HIDE DEF wd, x, y
  <2>2. x = wd * (x \div wd) + (x % wd) /\ y = wd * (y \div wd) + (y % wd)
    BY <1>2, <2>1, DivMod
  <2>3. x \div wd = y \div wd /\ (x % wd) = (y % wd)
    BY <1>7, <1>15 DEF x, y
  <2>4. x = y
    BY <2>2, <2>3
  <2>5. QED
    BY <1>15, <2>4 DEF x, y
<1>17. QED
  BY <1>13, <1>16

\* No lane of a state is squeezed twice.
LEMMA NoLaneTwice == IInv => NoLaneSqueezedTwice
<1> DEFINE f == [i \in DOMAIN squeezed |-> squeezed[i].value]
<1>1. SUFFICES ASSUME IInv, NEW i \in DOMAIN squeezed, NEW j \in DOMAIN squeezed,
                      squeezed[i].value = squeezed[j].value
               PROVE  i = j
  BY DEF NoLaneSqueezedTwice, IsInjective
<1>2. Sound(t, segments, squeezed)
  BY <1>1, SoundNow
<1>3. History(segments) /\ HavePlaces(segments, squeezed) /\ Follows(segments, squeezed)
  BY <1>2 DEF Sound
<1>4. DOMAIN segments = 1..Len(segments)
  BY <1>3, HistoryIs
<1> DEFINE a == squeezed[i].seg
           m == squeezed[i].nth
           b == squeezed[j].seg
           n == squeezed[j].nth
<1>5. a \in 1..Len(segments) /\ m \in 1..segments[a].read
      /\ b \in 1..Len(segments) /\ n \in 1..segments[b].read
  BY <1>1, <1>3, <1>4 DEF HavePlaces
<1>6. StreamOf(segments, a, m) = StreamOf(segments, b, n)
  BY <1>1, <1>3 DEF Follows
<1>7. a = b /\ m = n
  <2> HIDE DEF a, b, m, n
  <2>1. QED
    BY <1>3, <1>5, <1>6, StreamPlaces
<1>8. QED
  BY <1>1, <1>3, <1>7 DEF HavePlaces

\* The squeezed elements are the lanes of one stream of absorbs and reads, and
\* none of them is squeezed twice, whatever is put and read when.
THEOREM TranscriptLanesAreTheStream == Spec => []LanesAreTheStream
<1>1. IInv => LanesAreTheStream
  BY NoLaneTwice DEF LanesAreTheStream
<1>2. QED
  BY <1>1, TranscriptInvariant, PTL

-----------------------------------------------------------------------------
(* The compiled scan over a section's blocks.                              *)

\* The blocks of the scan are those the transcript permutes.
LEMMA ScanBlocks ==
    ASSUME NEW v, IsSequence(v), v # <<>>
    PROVE  TranscriptHash(v) = Lanes(Chunks(v), Digest)
<1> DEFINE L == Len(v)
           R == Rate
           q == L \div R
           m == L % R
           z == (0 - L) % R
           zeros == [i \in 1..z |-> Zero]
           w == v \o zeros
           N == Len(w) \div R
           a == q * R
           p == SubSeq(v, a + 1, L)
<1>1. L \in Nat /\ R \in Nat \ {0} /\ L \in Int
  BY Sizes DEF IsSequence
<1>2. TranscriptHash(v) = Lanes(Whole(w, N), Digest)
  BY DEF TranscriptHash, Whole
<1>3. Chunks(v) = IF m = 0 THEN Whole(v, q) ELSE Append(Whole(v, q), ZeroPadded(p))
  BY ChunksAre
<1> HIDE DEF L, R
<1>4. q \in Nat /\ m \in 0..(R - 1) /\ L = R * q + m
  <2>1. q \in Int /\ m \in 0..(R - 1) /\ L = R * q + m
    BY <1>1, DivMod
  <2>2. q \in Nat
    BY <1>1, NatDiv
  <2>3. QED
    BY <2>1, <2>2
<1> HIDE DEF q, m
<1>5. a \in Nat /\ a = R * q /\ L = a + m
  <2>1. a \in Nat /\ a = R * q
    BY <1>1, <1>4, Times
  <2>2. QED
    BY <1>4, <2>1
<1>6. (m = 0 => z = 0) /\ (m # 0 => z = R - m)
  <2> DEFINE x == 0 - L
             c == 0 - q
             d == c - 1
             e == R - m
  <2>1. x \in Int /\ c \in Int /\ d \in Int /\ R * c = 0 - a /\ R * d = (0 - a) - R
    BY <1>1, <1>4, <1>5
  <2>2. m = 0 => x = R * c + 0 /\ 0 \in 0..(R - 1)
    BY <1>1, <1>5, <2>1
  <2>3. m # 0 => x = R * d + e /\ e \in 0..(R - 1)
    BY <1>1, <1>4, <1>5, <2>1
  <2>4. x \in Int /\ c \in Int /\ d \in Int
    BY <2>1
  <2> HIDE DEF x, c, d, e
  <2>5. m = 0 => (x % R) = 0
    BY <1>1, <2>2, <2>4, DivModIs
  <2>6. m # 0 => (x % R) = e
    <3>1. SUFFICES ASSUME m # 0 PROVE (x % R) = e
      OBVIOUS
    <3>2. x = R * d + e /\ e \in 0..(R - 1)
      BY <2>3, <3>1
    <3>3. QED
      BY <1>1, <2>4, <3>2, DivModIs
  <2>7. QED
    BY <2>5, <2>6 DEF x, e
<1> HIDE DEF a, z
<1>7. z \in Nat /\ z = (IF m = 0 THEN 0 ELSE R - m)
  BY <1>1, <1>4, <1>6
<1>8. IsSequence(zeros) /\ Len(zeros) = z /\ \A i \in 1..z : zeros[i] = Zero
  <2>1. zeros = [i \in 1..z |-> zeros[i]] /\ \A i \in 1..z : zeros[i] = Zero
    OBVIOUS
  <2> HIDE DEF zeros
  <2>2. QED
    BY <1>7, <2>1, SequenceIs
<1> HIDE DEF zeros
<1>9. /\ IsSequence(w) /\ Len(w) = L + z
      /\ (\A i \in 1..L : w[i] = v[i]) /\ \A i \in 1..z : w[L + i] = Zero
  BY <1>8, CatIs DEF L
<1>10. L <= Len(v) /\ L <= Len(w) /\ a <= L /\ Len(w) \in Nat
  <2>1. L = Len(v)
    BY DEF L
  <2>2. QED
    BY <1>1, <1>4, <1>5, <1>7, <1>9, <2>1
<1> HIDE DEF w
<1>11. Whole(w, q) = Whole(v, q)
  <2>1. q * Rate <= L
    BY <1>10 DEF a, R
  <2>2. QED
    BY <1>1, <1>4, <1>9, <1>10, <2>1, WholeAgrees
<1>12. CASE m = 0
  <2>1. Len(w) = R * q + 0 /\ 0 \in 0..(R - 1) /\ Len(w) \in Int /\ q \in Int
    BY <1>1, <1>4, <1>5, <1>7, <1>9, <1>12
  <2>2. N = q
    BY <1>1, <2>1, DivModIs
  <2>3. QED
    BY <1>2, <1>3, <1>11, <1>12, <2>2
<1>13. CASE m # 0
  <2> DEFINE e == q + 1
             b == e * R
             x == SubSeq(w, a + 1, b)
             y == ZeroPadded(p)
  <2>1. e \in Nat /\ e \in Int /\ b = a + R /\ b = R * e /\ Len(w) = b /\ b \in Nat /\ Len(w) = R * e + 0
    <3>1. e \in Nat /\ e \in Int
      BY <1>4
    <3>2. b = q * R + R /\ R * e = b /\ b \in Nat
      <4>1. R \in Nat /\ q \in Nat
        BY <1>1, <1>4
      <4>2. b = q * R + R
        BY <4>1, Times
      <4>3. R * e = b /\ b \in Nat
        <5> HIDE DEF e
        <5>1. QED
          BY <3>1, <4>1, Times
      <4>4. QED
        BY <4>2, <4>3
    <3>3. Len(w) = a + R
      BY <1>1, <1>4, <1>5, <1>7, <1>9, <1>13
    <3> HIDE DEF e, b
    <3>4. QED
      BY <1>1, <1>5, <3>1, <3>2, <3>3 DEF a
  <2>2. 0 \in 0..(R - 1) /\ Len(w) \in Int
    BY <1>1, <2>1
  <2>3. N = e
    <3> HIDE DEF e, b
    <3>1. QED
      BY <1>1, <2>1, <2>2, DivModIs
  <2>4. Whole(w, q + 1) = Append(Whole(w, q), SubSeq(w, q * Rate + 1, (q + 1) * Rate))
    <3>1. (q + 1) * Rate <= Len(w)
      BY <1>10, <2>1 DEF R
    <3>2. QED
      BY <1>4, <1>9, <3>1, WholeNext
  <2>5. Whole(w, e) = Append(Whole(v, q), x)
    BY <1>11, <2>4 DEF a, R
  <2> HIDE DEF e, b
  <2>6. IsSequence(x) /\ Len(x) = R /\ \A i \in 1..R : x[i] = w[a + i]
    <3>1. b - a = R /\ a <= b /\ b <= Len(w)
      BY <1>1, <1>5, <2>1
    <3>2. IsSequence(x) /\ Len(x) = b - a /\ \A i \in 1..(b - a) : x[i] = w[a + i]
      BY <1>5, <1>9, <2>1, <3>1, SubSeqIs
    <3>3. QED
      BY <3>1, <3>2
  <2>7. IsSequence(p) /\ Len(p) = m /\ \A i \in 1..m : p[i] = v[a + i]
    <3>1. L - a = m
      BY <1>1, <1>4, <1>5
    <3>2. IsSequence(p) /\ Len(p) = L - a /\ \A i \in 1..(L - a) : p[i] = v[a + i]
      BY <1>1, <1>5, <1>10, SubSeqIs
    <3>3. QED
      BY <3>1, <3>2
  <2> HIDE DEF p, x
  <2>8. IsSequence(y) /\ Len(y) = R /\ \A i \in 1..R : y[i] = IF i <= m THEN p[i] ELSE Zero
    <3>1. Len(p) <= Rate
      BY <1>1, <1>4, <2>7 DEF R
    <3>2. QED
      BY <2>7, <3>1, PaddedIs DEF R
  <2> HIDE DEF y
  <2>9. \A i \in 1..R : x[i] = y[i]
    <3>1. SUFFICES ASSUME NEW i \in 1..R PROVE x[i] = y[i]
      OBVIOUS
    <3>2. CASE i <= m
      <4>1. i \in 1..m /\ a + i \in 1..L
        BY <1>1, <1>4, <1>5, <3>2
      <4>2. QED
        BY <1>9, <2>6, <2>7, <2>8, <3>2, <4>1
    <3>3. CASE ~(i <= m)
      <4> DEFINE j == i - m
      <4>1. j \in 1..z /\ a + i = L + j
        BY <1>1, <1>4, <1>5, <1>7, <1>13, <3>3
      <4> HIDE DEF j
      <4>2. w[a + i] = Zero
        BY <1>9, <4>1
      <4>3. QED
        BY <2>6, <2>8, <3>3, <4>2
    <3>4. QED
      BY <3>2, <3>3
  <2>10. x = y
    BY <2>6, <2>8, <2>9, SequencesEqual
  <2>11. QED
    BY <1>2, <1>3, <1>13, <2>3, <2>5, <2>10 DEF y
<1>14. QED
  BY <1>12, <1>13

\* The state a transcript gives is that of all of its first segment.
LEMMA FlushedIs ==
    ASSUME IInv, Len(segments) = 1, squeezed = <<>>
    PROVE  Flushed(t).state = IF segments[1].absorbed = <<>> THEN <<>> ELSE Chunks(segments[1].absorbed)
<1> DEFINE s == segments[1]
           before == BlocksOver(segments, 1)
           v == s.absorbed
<1>1. Sound(t, segments, squeezed)
  BY SoundNow
<1>2. /\ WellFormed(t) /\ IsSequence(before) /\ IsSequence(v) /\ s.open \in BOOLEAN
      /\ s.open => s.read = 0 /\ Filled(t, before, v, Len(v))
      /\ ~s.open => Drained(t, before, s, s.read)
  BY <1>1, SoundIs
<1>3. s.read = 0
  BY <1>1 DEF Sound, HavePlaces
<1>4. before = <<>>
  BY OverNext
<1>5. BlocksOf(s, 0) = IF v = <<>> THEN <<>> ELSE Chunks(v)
  <2>1. 0 \in Nat
    OBVIOUS
  <2>2. QED
    BY <1>2, <2>1, BlocksNext
<1> DEFINE B == BlocksOf(s, 0)
<1>6. IsSequence(B)
  <2>1. 0 \in Nat
    OBVIOUS
  <2>2. QED
    BY <1>2, <2>1, BlocksNext
<1> HIDE DEF s, B, before
<1>7. before \o B = B
  BY <1>4, <1>6, CatNone
<1>8. ASSUME NEW u, Drained(u, before, s, 0) PROVE u.state = B /\ u.pending = <<>>
  BY <1>7, <1>8 DEF Drained, B
<1>9. CASE s.open /\ v = <<>>
  <2>1. Len(<<>>) = 0
    BY EmptyIs
  <2>2. Filled(t, before, <<>>, 0)
    BY <1>2, <1>9, <2>1
  <2>3. t.state = before \o Whole(<<>>, 0 \div Rate)
        /\ t.pending = SubSeq(<<>>, (0 \div Rate) * Rate + 1, 0)
    BY <2>2 DEF Filled, Holds
  <2>4. 0 \div Rate = 0 /\ 0 * Rate = 0
    <3>1. Rate \in Nat \ {0} /\ 0 \in Int /\ 0 \in 0..(Rate - 1) /\ 0 = Rate * 0 + 0
      BY Sizes
    <3>2. 0 \div Rate = 0
      BY <3>1, DivModIs
    <3>3. QED
      BY <3>1, <3>2
  <2>5. SubSeq(<<>>, 0 + 1, 0) = <<>> /\ Whole(<<>>, 0) = <<>> /\ <<>> \o <<>> = <<>>
    <3>1. SubSeq(<<>>, 0 + 1, 0) = <<>>
      BY EmptyIs, SubSeqNone
    <3>2. Whole(<<>>, 0) = <<>>
      BY DEF Whole
    <3>3. <<>> \o <<>> = <<>>
      BY EmptyIs, CatNone
    <3>4. QED
      BY <3>1, <3>2, <3>3
  <2>6. t.state = <<>> /\ t.pending = <<>>
    BY <1>4, <2>3, <2>4, <2>5
  <2>7. QED
    BY <1>5, <1>9, <2>6 DEF Flushed, s
<1>10. CASE s.open /\ v # <<>>
  <2>1. /\ t.pending = <<>> => Drained(t, before, s, 0)
        /\ t.pending # <<>> => Drained(UpdateState(t), before, s, 0)
    BY <1>2, <1>10, FilledDrains
  <2>2. Drained(Flushed(t), before, s, 0)
    BY <2>1 DEF Flushed
  <2>3. Flushed(t).state = B
    BY <1>8, <2>2
  <2>4. QED
    BY <1>5, <2>3 DEF B, s
<1>11. CASE ~s.open
  <2>1. Drained(t, before, s, 0)
    BY <1>2, <1>3, <1>11
  <2>2. t.state = B /\ Flushed(t) = t
    BY <1>8, <2>1 DEF Flushed
  <2>3. QED
    BY <1>5, <2>2 DEF B, s
<1>12. QED
  BY <1>2, <1>9, <1>10, <1>11

\* The scan and the transcript give one digest for a section.
THEOREM TranscriptScanMatches == Spec => []ScanMatchesEagerHash
<1>1. IInv => ScanMatchesEagerHash
  <2>1. SUFFICES ASSUME IInv, Len(segments) = 1, squeezed = <<>>
                 PROVE  TranscriptHash(segments[1].absorbed) = Lanes(Flushed(t).state, Digest)
    BY DEF ScanMatchesEagerHash
  <2> DEFINE v == segments[1].absorbed
  <2>2. IsSequence(v)
    <3>1. Sound(t, segments, squeezed)
      BY <2>1, SoundNow
    <3>2. QED
      BY <2>1, <3>1, SoundIs
  <2>3. Flushed(t).state = IF v = <<>> THEN <<>> ELSE Chunks(v)
    BY <2>1, FlushedIs
  <2> HIDE DEF v
  <2>4. CASE v = <<>>
    BY <2>3, <2>4 DEF TranscriptHash, v
  <2>5. CASE v # <<>>
    <3>1. TranscriptHash(v) = Lanes(Chunks(v), Digest)
      BY <2>2, <2>5, ScanBlocks
    <3>2. QED
      BY <2>3, <2>5, <3>1 DEF v
  <2>6. QED
    BY <2>4, <2>5
<1>2. QED
  BY <1>1, TranscriptInvariant, PTL

-----------------------------------------------------------------------------
(* The bits of the queries.                                                *)

LEMMA NextDivided ==
    ASSUME NEW n \in Nat, NEW d \in Nat \ {0}
    PROVE  LET last == (n % d) + 1 = d
           IN  /\ n \div d \in Nat /\ (n % d) \in 0..(d - 1)
               /\ (n + 1) \div d = IF last THEN n \div d + 1 ELSE n \div d
               /\ ((n + 1) % d) = IF last THEN 0 ELSE (n % d) + 1
<1> DEFINE q == n \div d
           m == n % d
           x == n + 1
           p == q + 1
           r == m + 1
<1>1. n \in Int /\ d \in Nat
  OBVIOUS
<1>2. q \in Nat /\ q \in Int /\ m \in 0..(d - 1) /\ n = d * q + m
  <2>1. q \in Int /\ m \in 0..(d - 1) /\ n = d * q + m
    BY <1>1, DivMod
  <2>2. q \in Nat
    BY NatDiv
  <2>3. QED
    BY <2>1, <2>2
<1> HIDE DEF q, m
<1>3. x \in Int /\ p \in Int /\ d * p = d * q + d /\ d * q \in Int
  BY <1>2
<1>4. CASE m + 1 = d
  <2>1. x = d * p + 0 /\ 0 \in 0..(d - 1)
    BY <1>2, <1>3, <1>4
  <2>2. x \in Int /\ p \in Int
    BY <1>3
  <2> HIDE DEF x, p
  <2>3. x \div d = p /\ (x % d) = 0
    BY <2>1, <2>2, DivModIs
  <2>4. QED
    BY <1>2, <1>4, <2>3 DEF q, m, x, p
<1>5. CASE m + 1 # d
  <2>1. x = d * q + r /\ r \in 0..(d - 1)
    BY <1>2, <1>3, <1>5
  <2>2. x \in Int
    BY <1>3
  <2> HIDE DEF x, r
  <2>3. x \div d = q /\ (x % d) = r
    BY <1>2, <2>1, <2>2, DivModIs
  <2>4. QED
    BY <1>2, <1>5, <2>3 DEF q, m, x, r
<1>6. QED
  BY <1>4, <1>5

\* The bits are taken element by element, each from its least significant.
LEMMA TakenAre ==
    ASSUME NEW n \in Nat
    PROVE  LET c == FoldLeft(TakeBit, [bits |-> <<>>, bit |-> 0, field |-> 1], [i \in 1..n |-> i]).bits
           IN  \A i \in 1..n : c[i] = <<1 + ((i - 1) \div QueryBits), (i - 1) % QueryBits>>
<1> DEFINE base == [bits |-> <<>>, bit |-> 0, field |-> 1]
           Q == QueryBits
           P(i) == <<1 + ((i - 1) \div Q), (i - 1) % Q>>
           fold == FoldLeft(TakeBit, base, [i \in 1..n |-> i])
<1>1. Q \in Nat \ {0}
  BY Sizes
<1>2. base.bits = <<>> /\ base.bit = 0 /\ base.field = 1
  OBVIOUS
<1> HIDE DEF base
<1>3. PICK h : /\ h[0] = base /\ h[n] = fold
               /\ \A k \in 1..n : h[k] = TakeBit(h[k - 1], k)
  <2>1. PICK h : Takes(h, base, n)
    BY TakeSteps
  <2>2. /\ h[0] = base /\ h[n] = fold
        /\ \A k \in 1..n : h[k] = TakeBit(h[k - 1], k)
    BY <2>1 DEF Takes
  <2> HIDE DEF fold
  <2>3. QED
    BY <2>2
<1> HIDE DEF fold, Q
<1> DEFINE S == {k \in 0..n : /\ IsSequence(h[k].bits) /\ Len(h[k].bits) = k
                              /\ h[k].bit = (k % Q) /\ h[k].field = 1 + (k \div Q)
                              /\ \A i \in 1..k : h[k].bits[i] = P(i)}
<1>4. 0 \in S
  <2>1. (0 % Q) = 0 /\ 0 \div Q = 0
    <3>1. 0 \in Int /\ 0 \in 0..(Q - 1) /\ 0 = Q * 0 + 0
      BY <1>1
    <3>2. QED
      BY <1>1, <3>1, DivModIs
  <2>2. h[0].bits = <<>> /\ h[0].bit = 0 /\ h[0].field = 1 + 0 /\ 0 \in 0..n
    BY <1>2, <1>3
  <2> HIDE DEF P
  <2>3. QED
    BY <2>1, <2>2, EmptyIs
<1>5. ASSUME NEW k \in 1..n, k - 1 \in S PROVE k \in S
  <2> DEFINE j == k - 1
             u == h[j]
             v == h[k]
             e == <<u.field, u.bit>>
  <2>1. j \in Nat /\ j + 1 = k /\ k \in 0..n
    OBVIOUS
  <2>2. /\ IsSequence(u.bits) /\ Len(u.bits) = j
        /\ u.bit = (j % Q) /\ u.field = 1 + (j \div Q)
        /\ \A i \in 1..j : u.bits[i] = P(i)
    BY <1>5
  <2>3. v.bits = Append(u.bits, e)
        /\ v.bit = (IF u.bit + 1 = Q THEN 0 ELSE u.bit + 1)
        /\ v.field = (IF u.bit + 1 = Q THEN u.field + 1 ELSE u.field)
    <3>1. v = TakeBit(u, k)
      BY <1>3
    <3> HIDE DEF u, v
    <3>2. QED
      BY <3>1 DEF TakeBit, Q
  <2>4. e = P(k)
    BY <2>2
  <2>5. /\ j \div Q \in Nat /\ (j % Q) \in 0..(Q - 1)
        /\ (j + 1) \div Q = (IF (j % Q) + 1 = Q THEN j \div Q + 1 ELSE j \div Q)
        /\ ((j + 1) % Q) = (IF (j % Q) + 1 = Q THEN 0 ELSE (j % Q) + 1)
    BY <1>1, <2>1, NextDivided
  <2>6. v.bit = (k % Q) /\ v.field = 1 + (k \div Q)
    <3> DEFINE a == j \div Q
               b == j % Q
               c == k \div Q
               d == k % Q
    <3>1. a \in Nat /\ c = (IF b + 1 = Q THEN a + 1 ELSE a) /\ d = (IF b + 1 = Q THEN 0 ELSE b + 1)
          /\ u.bit = b /\ u.field = 1 + a
      BY <2>1, <2>2, <2>5
    <3> HIDE DEF a, b, c, d, u, v
    <3>2. v.bit = d /\ v.field = 1 + c
      <4>1. CASE b + 1 = Q
        BY <2>3, <3>1, <4>1
      <4>2. CASE b + 1 # Q
        BY <2>3, <3>1, <4>2
      <4>3. QED
        BY <4>1, <4>2
    <3>3. QED
      BY <3>2 DEF c, d
  <2> DEFINE l == u.bits
             y == Append(l, e)
  <2>7. IsSequence(l) /\ Len(l) = j /\ v.bits = y
    BY <2>2, <2>3
  <2> HIDE DEF l, e, P, v
  <2>8. IsSequence(y) /\ Len(y) = j + 1 /\ (\A i \in 1..j : y[i] = l[i]) /\ y[j + 1] = e
    BY <2>7, AppendIs
  <2> HIDE DEF y
  <2>9. \A i \in 1..k : v.bits[i] = P(i)
    <3>1. SUFFICES ASSUME NEW i \in 1..k PROVE y[i] = P(i)
      BY <2>7
    <3>2. CASE i \in 1..j
      BY <2>2, <2>8, <3>2 DEF l
    <3>3. CASE i = k
      BY <2>1, <2>4, <2>8, <3>3
    <3>4. i \in 1..j \/ i = k
      BY <2>1
    <3>5. QED
      BY <3>2, <3>3, <3>4
  <2>10. IsSequence(v.bits) /\ Len(v.bits) = k
    BY <2>1, <2>7, <2>8
  <2>11. QED
    BY <2>1, <2>6, <2>9, <2>10 DEF v
<1>6. \A k \in 0..n : k \in S
  <2> HIDE DEF S
  <2>1. QED
    BY <1>4, <1>5, UpTo
<1>7. n \in S
  BY <1>6
<1>8. \A i \in 1..n : h[n].bits[i] = P(i)
  BY <1>7
<1>9. QED
  BY <1>3, <1>8 DEF fold, base, Q

\* How many elements give that many bits.
LEMMA FieldsHold ==
    ASSUME NEW n \in Nat \ {0}
    PROVE  /\ ((n - 1) \div QueryBits) + 1 = (n + QueryBits - 1) \div QueryBits
           /\ \A i \in 1..n : (i - 1) \div QueryBits \in 0..((n - 1) \div QueryBits)
<1> DEFINE Q == QueryBits
           x == n - 1
           a == x \div Q
           b == x % Q
           y == n + Q - 1
           p == a + 1
<1>1. Q \in Nat \ {0} /\ x \in Nat /\ x \in Int /\ y = x + Q
  BY Sizes
<1>2. \A i \in 1..n : i - 1 \in Nat /\ i - 1 <= x
  OBVIOUS
<1> HIDE DEF Q, x
<1>3. a \in Nat /\ b \in 0..(Q - 1) /\ x = Q * a + b
  <2>1. a \in Nat
    BY <1>1, NatDiv
  <2>2. QED
    BY <1>1, <2>1, DivMod
<1> HIDE DEF a, b
<1>4. y = Q * p + b /\ y \in Int /\ p \in Int
  BY <1>1, <1>3
<1>5. y \div Q = p
  <2> HIDE DEF y, p
  <2>1. QED
    BY <1>1, <1>3, <1>4, DivModIs
<1>6. ASSUME NEW i \in 1..n PROVE (i - 1) \div Q \in 0..a
  <2> DEFINE z == i - 1
             d == z \div Q
  <2>1. z \in Nat /\ z <= x
    BY <1>2
  <2> HIDE DEF z
  <2>2. d \in Nat /\ Q * d <= z
    BY <1>1, <2>1, NatDiv
  <2> HIDE DEF d
  <2>3. ~(p <= d)
    <3>1. SUFFICES ASSUME p <= d PROVE FALSE
      OBVIOUS
    <3>2. Q * p <= Q * d
      <4>1. p \in Nat /\ d \in Nat /\ Q \in Nat
        BY <1>1, <1>3, <2>2
      <4> HIDE DEF p
      <4>2. p * Q <= d * Q /\ Q * p = p * Q /\ Q * d = d * Q
        BY <3>1, <4>1, Times
      <4>3. QED
        BY <4>2
    <3>3. Q * p = (x - b) + Q
      BY <1>1, <1>3
    <3>4. Q * d \in Int
      BY <1>1, <2>2
    <3> HIDE DEF p
    <3>5. QED
      BY <1>1, <1>3, <2>1, <2>2, <3>2, <3>3, <3>4
  <2>4. QED
    BY <1>3, <2>2, <2>3 DEF d, z
<1>7. QED
  BY <1>5, <1>6 DEF Q, a, x

LEMMA QueriesStep ==
    ASSUME IInv, QueriesReadTheStreamInOrder, [Next]_vars
    PROVE  QueriesReadTheStreamInOrder'
<1> USE DEF vars
<1>1. Sound(t, segments, squeezed) /\ IsSequence(squeezed)
  BY SoundNow DEF Sound
<1> DEFINE l == Len(squeezed)
           InOrder(q, sq) ==
              q # <<>> =>
                /\ IsSequence(q.bits)
                /\ q.from \in Nat \ {0} /\ q.from + q.took - 1 <= Len(sq)
                /\ q.took = (Len(q.bits) + QueryBits - 1) \div QueryBits
                /\ \A i \in DOMAIN q.bits :
                      q.bits[i] = <<sq[q.from + ((i - 1) \div QueryBits)].value, (i - 1) % QueryBits>>
<1>2. InOrder(queried, squeezed)
  BY DEF QueriesReadTheStreamInOrder
<1>3. SUFFICES InOrder(queried', squeezed')
  BY DEF QueriesReadTheStreamInOrder
<1>4. l \in Nat
  BY <1>1 DEF IsSequence
<1>5. CASE queried' = queried /\ squeezed' = squeezed
  BY <1>2, <1>5
<1> HIDE DEF InOrder
<1>6. ASSUME NEW m \in Nat, m > 0, Reading(Squeeze(t, m).read)
      PROVE  LET r == Squeeze(t, m).read
             IN  /\ IsSequence(r) /\ Len(r) = m
                 /\ IsSequence(squeezed') /\ Len(squeezed') = l + m
                 /\ \A i \in 1..l : squeezed'[i] = squeezed[i]
                 /\ \A i \in 1..m : squeezed'[l + i].value = r[i]
  <2> DEFINE r == Squeeze(t, m).read
             k == Len(segments)
             n == segments[k].read
             added == [i \in 1..m |-> [value |-> r[i], seg |-> k, nth |-> n + i]]
             all == squeezed \o added
  <2>1. IsSequence(r) /\ Len(r) = m
    BY <1>1, <1>6, ReadOn
  <2>2. squeezed' = all
    BY <1>6, <2>1 DEF Reading
  <2>3. \A i \in 1..m : added[i].value = r[i]
    BY Zenon
  <2>4. IsSequence(added) /\ Len(added) = m
    <3>1. added = [i \in 1..m |-> added[i]]
      OBVIOUS
    <3> HIDE DEF added
    <3>2. QED
      BY <3>1, SequenceIs
  <2> HIDE DEF added, r
  <2>5. /\ IsSequence(all) /\ Len(all) = l + m
        /\ \A i \in 1..l : all[i] = squeezed[i]
        /\ \A i \in 1..m : all[l + i] = added[i]
    BY <1>1, <2>4, CatIs
  <2> HIDE DEF all
  <2>6. QED
    BY <2>1, <2>2, <2>3, <2>5 DEF r
<1>7. ASSUME GetField PROVE InOrder(queried', squeezed')
  <2>1. Limbs \in Nat /\ Limbs > 0
    BY Sizes
  <2>2. queried' = queried /\ Reading(Squeeze(t, Limbs).read)
    BY <1>7 DEF GetField
  <2>3. Len(squeezed') = l + Limbs /\ \A i \in 1..l : squeezed'[i] = squeezed[i]
    BY <1>6, <2>1, <2>2
  <2>4. SUFFICES ASSUME queried # <<>> PROVE InOrder(queried, squeezed')
    BY <2>2 DEF InOrder
  <2> DEFINE b == queried.bits
             f == queried.from
             Q == QueryBits
  <2>5. /\ IsSequence(b) /\ f \in Nat \ {0} /\ f + queried.took - 1 <= l
        /\ queried.took = (Len(b) + Q - 1) \div Q
        /\ \A i \in DOMAIN b : b[i] = <<squeezed[f + ((i - 1) \div Q)].value, (i - 1) % Q>>
    BY <1>2, <2>4 DEF InOrder
  <2>6. Len(b) \in Nat /\ DOMAIN b = 1..Len(b)
    BY <2>5, SequenceDomain
  <2>7. ASSUME NEW i \in DOMAIN b PROVE f + ((i - 1) \div Q) \in 1..l
    <3> DEFINE n == Len(b)
               a == (n - 1) \div Q
               d == (i - 1) \div Q
    <3>1. n \in Nat \ {0} /\ i \in 1..n
      BY <2>6
    <3> HIDE DEF n
    <3>2. a + 1 = (n + Q - 1) \div Q /\ d \in 0..a
      BY <3>1, FieldsHold
    <3>3. f \in Nat \ {0} /\ f + queried.took - 1 <= l /\ queried.took = a + 1
      BY <2>5, <3>2 DEF n
    <3>4. a \in Nat
      <4> DEFINE x == n - 1
      <4>1. x \in Nat
        BY <3>1
      <4> HIDE DEF x
      <4>2. x \div Q \in Nat
        BY <4>1, Sizes, NatDiv
      <4>3. QED
        BY <4>2 DEF x
    <3> HIDE DEF a, d, f
    <3>5. f + d \in 1..l
      BY <1>4, <3>2, <3>3, <3>4
    <3>6. QED
      BY <3>5 DEF d
  <2>8. \A i \in DOMAIN b : b[i] = <<squeezed'[f + ((i - 1) \div Q)].value, (i - 1) % Q>>
    BY <2>3, <2>5, <2>7
  <2>9. f + queried.took - 1 <= Len(squeezed')
    <3>1. queried.took \in Int
      <4> DEFINE x == Len(b) + Q - 1
      <4>1. x \in Int /\ Q \in Nat \ {0}
        BY <2>6, Sizes
      <4> HIDE DEF x
      <4>2. x \div Q \in Int
        BY <4>1, DivMod
      <4>3. QED
        BY <2>5, <4>2 DEF x
    <3>2. QED
      BY <1>4, <2>1, <2>3, <2>5, <3>1
  <2>10. QED
    BY <2>5, <2>8, <2>9 DEF InOrder
<1>8. ASSUME NEW q \in Queries, GetPermutations(q[1], q[2]) PROVE InOrder(queried', squeezed')
  <2> DEFINE n == q[1] * q[2]
             Q == QueryBits
             m == FieldsFor(q[1], q[2])
             r == Squeeze(t, m).read
             taken == FoldLeft(TakeBit, [bits |-> <<>>, bit |-> 0, field |-> 1], [i \in 1..n |-> i]).bits
             bits == [i \in 1..n |-> <<r[taken[i][1]], taken[i][2]>>]
  <2>1. n \in Nat \ {0} /\ m \in Nat /\ m > 0
    BY FieldsAreSome
  <2>2. m = ((n - 1) \div Q) + 1
    BY DEF FieldsFor
  <2>3. queried' = [from |-> l + 1, took |-> m, bits |-> bits] /\ Reading(r)
    <3>1. queried' = [from |-> TotalReads + 1, took |-> m, bits |-> QueryBitsOf(r, q[1], q[2])] /\ Reading(r)
      BY <1>8 DEF GetPermutations
    <3>2. QueryBitsOf(r, q[1], q[2]) = bits
      BY Zenon DEF QueryBitsOf
    <3>3. QED
      BY <3>1, <3>2 DEF TotalReads
  <2> HIDE DEF n, m
  <2>4. /\ IsSequence(r) /\ Len(r) = m
        /\ Len(squeezed') = l + m
        /\ \A i \in 1..m : squeezed'[l + i].value = r[i]
    BY <1>6, <2>1, <2>3
  <2>5. \A i \in 1..n : taken[i] = <<1 + ((i - 1) \div Q), (i - 1) % Q>>
    BY <2>1, TakenAre
  <2> HIDE DEF taken, r
  <2>6. ASSUME NEW i \in 1..n
        PROVE  bits[i] = <<squeezed'[(l + 1) + ((i - 1) \div Q)].value, (i - 1) % Q>>
    <3> DEFINE d == (i - 1) \div Q
               e == (i - 1) % Q
    <3>1. bits[i] = <<r[1 + d], e>>
      BY <2>5
    <3>2. d \in 0..(m - 1)
      <4>1. d \in 0..((n - 1) \div Q)
        BY <2>1, FieldsHold
      <4> DEFINE a == (n - 1) \div Q
      <4>2. m = a + 1 /\ d \in 0..a
        BY <2>2, <4>1
      <4> HIDE DEF a, d
      <4>3. a = m - 1
        <5>1. a \in Int
          <6> DEFINE x == n - 1
          <6>1. x \in Int /\ Q \in Nat \ {0}
            BY <2>1, Sizes
          <6> HIDE DEF x
          <6>2. x \div Q \in Int
            BY <6>1, DivMod
          <6>3. QED
            BY <6>2 DEF x, a
        <5>2. QED
          BY <4>2, <5>1
      <4>4. QED
        BY <4>2, <4>3
    <3> HIDE DEF d, e, bits
    <3>3. 1 + d \in 1..m /\ l + (1 + d) = (l + 1) + d
      BY <1>4, <2>1, <3>2
    <3>4. squeezed'[(l + 1) + d].value = r[1 + d]
      BY <2>4, <3>3
    <3>5. QED
      BY <3>1, <3>4 DEF d, e
  <2>7. IsSequence(bits) /\ Len(bits) = n /\ DOMAIN bits = 1..n
    <3>1. bits = [i \in 1..n |-> bits[i]] /\ n \in Nat
      BY <2>1
    <3> HIDE DEF bits
    <3>2. QED
      BY <3>1, SequenceIs
  <2>8. m = (n + Q - 1) \div Q
    BY <2>1, <2>2, FieldsHold
  <2>9. l + 1 \in Nat \ {0} /\ (l + 1) + m - 1 <= Len(squeezed')
    BY <1>4, <2>1, <2>4
  <2> HIDE DEF bits
  <2>10. queried'.from = l + 1 /\ queried'.took = m /\ queried'.bits = bits
    BY <2>3
  <2>11. QED
    BY <2>6, <2>7, <2>8, <2>9, <2>10 DEF InOrder
<1>9. QED
  <2>1. ASSUME NEW values, NEW hashed, Put(values, hashed) PROVE queried' = queried /\ squeezed' = squeezed
    BY <2>1 DEF Put
  <2>2. ASSUME GetState \/ EnterZone \/ LeaveZone \/ UNCHANGED vars
        PROVE  queried' = queried /\ squeezed' = squeezed
    BY <2>2 DEF GetState, EnterZone, LeaveZone
  <2>3. QED
    BY <1>5, <1>7, <1>8, <2>1, <2>2 DEF Next, InOrder

\* The queries are the used bits of the squeezed elements, in order.
THEOREM TranscriptQueriesInOrder == Spec => []QueriesReadTheStreamInOrder
<1>1. Init => QueriesReadTheStreamInOrder
  BY DEF Init, QueriesReadTheStreamInOrder
<1>2. IInv /\ QueriesReadTheStreamInOrder /\ [Next]_vars => QueriesReadTheStreamInOrder'
  BY QueriesStep
<1>3. QED
  BY <1>1, <1>2, TranscriptInvariant, PTL DEF Spec

-----------------------------------------------------------------------------
(* The grinding of InnerProof, for every field, every width of an image    *)
(* and every permutation.                                                  *)

\* Comparing the halves of an image is comparing the image (check_batch and
\* _grind_level agree).
LEMMA HalvesCompareTheImage ==
    ASSUME powBits \in 1..(WordBits - 1), NEW image \in 0..(2^WordBits - 1)
    PROVE  CheckHalves(image) <=> image < GrindLevel
<1> DEFINE half == WordBits \div 2
           h == 2^half
           hi == image \div h
           lo == image % h
<1>1. /\ half \in Nat /\ WordBits = half + half /\ powBits \in Nat
      /\ WordBits - powBits \in Nat
  BY FriAssumption
<1> HIDE DEF half
<1>2. h \in Nat \ {0} /\ 2^WordBits = h * h
  BY <1>1, PowersOfTwo, PowersMultiply
<1>3. image \in Nat
  <2>1. 2^WordBits \in Nat
    BY <1>1, <1>2
  <2>2. QED
    BY <2>1
<1> HIDE DEF h
<1>4. hi \in Nat /\ lo \in 0..(h - 1) /\ image = h * hi + lo
  BY <1>2, <1>3
<1> HIDE DEF hi, lo
<1>5. CheckHalves(image) <=>
         IF powBits <= half THEN hi < 2^(half - powBits)
                            ELSE hi = 0 /\ lo < 2^(WordBits - powBits)
  BY DEF CheckHalves, half, h, hi, lo
<1>6. CASE powBits <= half
  <2> DEFINE top == 2^(half - powBits)
  <2>1. top \in Nat /\ GrindLevel = h * top
    <3>1. half - powBits \in Nat /\ WordBits - powBits = half + (half - powBits)
      BY <1>1, <1>6
    <3>2. QED
      BY <1>1, <3>1, PowersOfTwo, PowersMultiply DEF GrindLevel, h
  <2> HIDE DEF top
  <2>2. hi < top => h * hi + lo < h * top
    <3>1. SUFFICES ASSUME hi < top PROVE h * hi + lo < h * top
      OBVIOUS
    <3>2. hi + 1 <= top
      BY <1>4, <2>1, <3>1
    <3>3. h * (hi + 1) <= h * top
      BY <1>2, <1>4, <2>1, <3>2
    <3>4. h * (hi + 1) = h * hi + h
      BY <1>2, <1>4
    <3>5. h * hi \in Nat /\ h * top \in Nat
      BY <1>2, <1>4, <2>1
    <3>6. QED
      BY <1>2, <1>4, <3>3, <3>4, <3>5
  <2>3. ~(hi < top) => ~(h * hi + lo < h * top)
    <3>1. SUFFICES ASSUME top <= hi PROVE ~(h * hi + lo < h * top)
      BY <1>4, <2>1
    <3>2. h * top <= h * hi
      BY <1>2, <1>4, <2>1, <3>1
    <3>3. h * hi \in Nat /\ h * top \in Nat
      BY <1>2, <1>4, <2>1
    <3>4. QED
      BY <1>2, <1>4, <3>2, <3>3
  <2>4. QED
    BY <1>4, <1>5, <1>6, <2>1, <2>2, <2>3 DEF top
<1>7. CASE ~(powBits <= half)
  <2> DEFINE k == 2^(WordBits - powBits)
             r == 2^(powBits - half)
  <2>1. k \in Nat /\ r \in Nat \ {0} /\ h = k * r
    <3>1. powBits - half \in Nat /\ half = (WordBits - powBits) + (powBits - half)
      BY <1>1, <1>7
    <3>2. QED
      BY <1>1, <3>1, PowersOfTwo, PowersMultiply DEF h
  <2> HIDE DEF k, r
  <2>2. k <= h
    BY <2>1
  <2>3. image < k => hi = 0
    <3>1. SUFFICES ASSUME hi >= 1 PROVE ~(image < k)
      BY <1>4
    <3>2. h * hi >= h
      BY <1>2, <1>4, <3>1
    <3>3. h * hi \in Nat
      BY <1>2, <1>4
    <3>4. QED
      BY <1>2, <1>4, <2>1, <2>2, <3>2, <3>3
  <2>4. hi = 0 => image = lo
    BY <1>2, <1>4
  <2>5. QED
    BY <1>5, <1>7, <2>3, <2>4 DEF GrindLevel, k
<1>8. QED
  BY <1>6, <1>7

\* The search's predicate is the verifier's check, and it ends on the smallest
\* nonce that passes, if any does.
LEMMA SearchFindsTheSmallest ==
    ASSUME powBits \in 1..(WordBits - 1), NEW c \in F
    PROVE  LET valid == { n \in 0..(Counters - 1) : GrindIsValid(c, n) }
           IN  /\ valid # {} => GrindSearch(c) \in valid /\ \A n \in valid : GrindSearch(c) <= n
               /\ GrindIsValid(c, GrindSearch(c)) => valid # {}
<1> DEFINE valid == { n \in 0..(Counters - 1) : GrindIsValid(c, n) }
           hits == { n \in 0..(Counters - 1) : CheckHalves(Image(c, n)) }
<1>1. Prime \in Nat /\ Counters \in Nat \ {0} /\ Counters <= Prime
  BY FriAssumption, FieldAssumption
<1>2. \A n \in 0..(Counters - 1) : n \in F
  BY <1>1 DEF F
<1>3. hits = valid
  <2>1. ASSUME NEW n \in 0..(Counters - 1)
        PROVE  CheckHalves(Image(c, n)) <=> GrindIsValid(c, n)
    <3>1. Image(c, n) \in 0..(2^WordBits - 1)
      BY FriAssumption
    <3>2. QED
      BY <1>2, <3>1, HalvesCompareTheImage DEF GrindIsValid, Hit
  <2>2. QED
    BY <2>1
<1>4. GrindSearch(c) = IF hits = {} THEN 0 ELSE CHOOSE n \in hits : \A m \in hits : n <= m
  BY DEF GrindSearch
<1>5. 0 \in 0..(Counters - 1)
  BY <1>1
<1>6. \A n \in valid : n \in Nat
  BY <1>1
<1>7. IsFiniteSet(valid)
  <2>1. IsFiniteSet(0..(Counters - 1)) /\ valid \subseteq 0..(Counters - 1)
    BY <1>1, FS_Interval
  <2>2. QED
    BY <2>1, FS_Subset
<1>8. GrindIsValid(c, 0) => valid # {}
  BY <1>5
<1> HIDE DEF valid, hits
<1>9. CASE valid = {}
  BY <1>3, <1>4, <1>8, <1>9 DEF valid
<1>10. CASE valid # {}
  <2>1. \E n \in valid : \A m \in valid : n <= m
    BY <1>6, <1>7, <1>10, LeastMember
  <2>2. QED
    BY <1>3, <1>4, <1>10, <2>1 DEF valid
<1>11. QED
  BY <1>9, <1>10

LEMMA GrindStarts == AllInit => GrindInv
<1>1. SUFFICES ASSUME AllInit PROVE GrindInv
  OBVIOUS
<1>2. CASE InnerInit
  <2>1. PICK s \in InnerSchedules, o \in InnerOracles :
           powBits = s[5] /\ seed = o.seed /\ pc = "fold" /\ proof = NoProof
    BY <1>2 DEF InnerInit
  <2>2. QED
    BY <2>1, InnerAssumption DEF GrindInv, NoProof
<1>3. CASE FriInit
  <2>1. PICK s \in Schedules : powBits = s[3]
    BY <1>3 DEF FriInit, FoldInit
  <2>2. seed \in Betas /\ pc = "fold" /\ proof = NoProof
    BY <1>3 DEF FriInit, FoldInit
  <2>3. QED
    BY <2>1, <2>2, FriAssumption DEF GrindInv, NoProof
<1>4. QED
  BY <1>1, <1>2, <1>3 DEF AllInit

\* A step that keeps the seed and hands the proof on altered.
LEMMA GrindAltered ==
    ASSUME GrindInv, powBits' = powBits, seed' = seed, pc' = "proved",
           DOMAIN proof' = DOMAIN proof, proof'.altered # "no"
    PROVE  GrindInv'
BY DEF GrindInv

\* A step that leaves the proof and its program counter alone.
LEMMA GrindUnchanged ==
    ASSUME GrindInv, UNCHANGED <<steps, nBits, powBits, seed, proof>>,
           pc' = pc \/ pc' = "verified"
    PROVE  GrindInv'
<1>1. GrindSearch(seed)' = GrindSearch(seed)
  BY DEF GrindSearch, CheckHalves
<1>2. \A n : GrindIsValid(seed, n)' <=> GrindIsValid(seed, n)
  BY DEF GrindIsValid, Hit, GrindLevel
<1>3. QED
  BY <1>1, <1>2 DEF GrindInv

LEMMA GrindSampled ==
    ASSUME GrindInv, SampleAndOpen
    PROVE  GrindInv'
<1>1. powBits' = powBits /\ seed' = seed
  BY DEF SampleAndOpen, Oracle
<1>2. GrindSearch(seed)' = GrindSearch(seed)
  BY <1>1 DEF GrindSearch, CheckHalves
<1>3. \A n : GrindIsValid(seed, n)' <=> GrindIsValid(seed, n)
  BY <1>1 DEF GrindIsValid, Hit, GrindLevel
<1>4. CASE ~GrindIsValid(seed, GrindSearch(seed))
  <2>1. pc' = "failed" /\ proof' = proof
    BY <1>4 DEF SampleAndOpen
  <2>2. QED
    BY <1>1, <1>2, <1>3, <1>4, <2>1 DEF GrindInv
<1>5. CASE GrindIsValid(seed, GrindSearch(seed))
  <2>1. pc' = "proved" /\ proof' = [NoProof EXCEPT
            !.head = SubSeq(log, 1, Len(log) - NumRounds),
            !.roots = layers, !.final = codeword, !.nonce = GrindSearch(seed),
            !.openings = ProveQueries(draw)]
    BY <1>5 DEF SampleAndOpen
  <2>2. DOMAIN proof' = DOMAIN NoProof /\ proof'.nonce = GrindSearch(seed)
    BY <2>1 DEF NoProof
  <2>3. QED
    BY <1>1, <1>2, <1>3, <1>5, <2>1, <2>2 DEF GrindInv, NoProof
<1>6. QED
  BY <1>4, <1>5

LEMMA GrindSteps ==
    ASSUME GrindInv, [AllNext]_allVars
    PROVE  GrindInv'
<1>1. CASE Commit
  BY <1>1, GrindUnchanged DEF Commit, Oracle
<1>2. CASE Quotient
  BY <1>2, GrindUnchanged DEF Quotient, Oracle
<1>3. CASE Deep
  BY <1>3, GrindUnchanged DEF Deep
<1>4. CASE EchoDeep
  BY <1>4, GrindUnchanged DEF EchoDeep
<1>5. CASE FriRound
  BY <1>5, GrindUnchanged DEF FriRound, Round, Oracle
<1>6. CASE Query
  BY <1>6, GrindSampled DEF Query
<1>7. CASE AlterFri
  <2>1. /\ powBits' = powBits /\ seed' = seed /\ pc' = "proved"
        /\ "altered" \in DOMAIN proof
    BY <1>7 DEF AlterFri, Alter, Oracle, GrindInv
  <2>2. DOMAIN proof' = DOMAIN proof /\ proof'.altered # "no"
    BY <1>7, <2>1 DEF AlterFri, Alter
  <2>3. QED
    BY <2>1, <2>2, GrindAltered
<1>8. CASE AlterHead
  <2>1. /\ powBits' = powBits /\ seed' = seed /\ pc' = "proved"
        /\ "altered" \in DOMAIN proof
    BY <1>8 DEF AlterHead, Oracle, GrindInv
  <2>2. DOMAIN proof' = DOMAIN proof /\ proof'.altered # "no"
    BY <1>8, <2>1 DEF AlterHead
  <2>3. QED
    BY <2>1, <2>2, GrindAltered
<1>9. CASE AlterOpened
  <2>1. /\ powBits' = powBits /\ seed' = seed /\ pc' = "proved"
        /\ "altered" \in DOMAIN proof
    BY <1>9 DEF AlterOpened, Oracle, GrindInv
  <2>2. DOMAIN proof' = DOMAIN proof /\ proof'.altered # "no"
    BY <1>9, <2>1 DEF AlterOpened
  <2>3. QED
    BY <2>1, <2>2, GrindAltered
<1>10. CASE VerifyFri
  BY <1>10, GrindUnchanged DEF VerifyFri, Verify, Oracle
<1>11. CASE InnerVerify
  BY <1>11, GrindUnchanged DEF InnerVerify, Oracle
<1>12. CASE UNCHANGED allVars
  BY <1>12, GrindUnchanged DEF allVars, friVars
<1>13. QED
  BY <1>1, <1>2, <1>3, <1>4, <1>5, <1>6, <1>7, <1>8, <1>9, <1>10, <1>11, <1>12 DEF AllNext

THEOREM GrindInvariant == InnerSpec => []GrindInv
<1>1. AllInit => GrindInv
  BY GrindStarts
<1>2. GrindInv /\ [AllNext]_allVars => GrindInv'
  BY GrindSteps
<1>3. QED
  BY <1>1, <1>2, PTL DEF InnerSpec

THEOREM GrindingFindsTheSmallestNonce == InnerSpec => []GrindsToTheSmallestNonce
<1>1. ASSUME GrindInv PROVE GrindsToTheSmallestNonce
  <2> DEFINE valid == { n \in 0..(Counters - 1) : GrindIsValid(seed, n) }
  <2>1. powBits \in 1..(WordBits - 1) /\ seed \in F
    BY <1>1 DEF GrindInv
  <2>2. /\ valid # {} => GrindSearch(seed) \in valid /\ \A n \in valid : GrindSearch(seed) <= n
        /\ GrindIsValid(seed, GrindSearch(seed)) => valid # {}
    BY <2>1, SearchFindsTheSmallest
  <2>3. valid # {} => GrindIsValid(seed, GrindSearch(seed))
    BY <2>2
  <2> HIDE DEF valid
  <2>4. /\ pc = "failed" => valid = {}
        /\ pc = "proved" /\ proof.altered = "no" =>
             proof.nonce \in valid /\ \A n \in valid : proof.nonce <= n
    BY <1>1, <2>2, <2>3 DEF GrindInv
  <2>5. QED
    BY <2>4 DEF GrindsToTheSmallestNonce, valid
<1>2. InnerSpec => []GrindInv
  BY GrindInvariant
<1>3. QED
  BY <1>1, <1>2, PTL

-----------------------------------------------------------------------------
(* Recursion: the levels of the adds settle, a wave is the adds of one     *)
(* level, and the waves leave what the adds one after the other do.        *)

\* A loop over the numbers up to n, as a function of how far it is.
Loops(h, kind, e, base, n) == h[0] = base /\ \A k \in 1..n : h[k] = Op(kind, e, h[k - 1], k)

LEMMA LoopExists ==
    ASSUME NEW kind, NEW e, NEW base, NEW n \in Nat
    PROVE  \E h : Loops(h, kind, e, base, n)
<1> DEFINE s == [k \in 1..n |-> k]
<1>1. DOMAIN s = 1..n /\ \A k \in 1..n : s[k] = k
  OBVIOUS
<1> HIDE DEF s
<1>2. PICK g : Unfolds(g, kind, e, base, s)
  BY <1>1, FoldExists
<1>3. PICK h : Walks(h, kind, e, base, s, n)
  BY <1>1, <1>2, StepsOfTheFold
<1>4. QED
  BY <1>1, <1>3 DEF Walks, Loops

\* The passes of the relaxation one after the other.
LEMMA LevelsAre ==
    ASSUME NEW adds, NEW size, Len(adds) \in Nat
    PROVE  /\ Levels(adds, size)[0] = [k \in DOMAIN adds |-> 0]
           /\ \A p \in 1..Len(adds) :
                 Levels(adds, size)[p] = Relaxed(adds, size, Levels(adds, size)[p - 1])
<1> DEFINE n == Len(adds)
           e == [adds |-> adds, size |-> size]
           z == [k \in DOMAIN adds |-> 0]
           step(f) == [p \in 0..n |-> IF p = 0 THEN z ELSE Relaxed(adds, size, f[p - 1])]
           lv == CHOOSE f : f = step(f)
<1>1. Levels(adds, size) = lv
  BY DEF Levels
<1>2. \A a, x : Op("level", e, a, x) = Relaxed(adds, size, a)
  BY DEF Op
<1> HIDE DEF e, z
<1>3. PICK h : Loops(h, "level", e, z, n)
  <2>1. n \in Nat
    OBVIOUS
  <2> HIDE DEF n
  <2>2. QED
    BY <2>1, LoopExists
<1> DEFINE f == [p \in 0..n |-> h[p]]
<1>4. f = step(f)
  <2>1. \A p \in 0..n : f[p] = step(f)[p]
    <3>1. SUFFICES ASSUME NEW p \in 0..n PROVE f[p] = step(f)[p]
      OBVIOUS
    <3>2. CASE p = 0
      BY <1>3, <3>2 DEF Loops
    <3>3. CASE p # 0
      <4>1. p \in 1..n /\ p - 1 \in 0..n
        BY <3>3
      <4>2. QED
        BY <1>2, <1>3, <3>3, <4>1 DEF Loops
    <3>4. QED
      BY <3>2, <3>3
  <2>2. DOMAIN f = 0..n /\ DOMAIN step(f) = 0..n
    OBVIOUS
  <2>3. f = [p \in 0..n |-> f[p]] /\ step(f) = [p \in 0..n |-> step(f)[p]]
    OBVIOUS
  <2> HIDE DEF f, step
  <2>4. QED
    BY <2>1, <2>3
<1>5. lv = step(lv)
  <2> HIDE DEF f, step
  <2>1. QED
    BY <1>4
<1> HIDE DEF lv
<1>6. QED
  BY <1>1, <1>5 DEF z

\* The adds one after the other.
OneAdd(v, adds, size, k) == [v EXCEPT ![size + k - 1] = AddValue(v, adds[k])]

LEMMA OneByOneIs ==
    ASSUME NEW w, NEW adds, NEW size, Len(adds) \in Nat
    PROVE  /\ OneByOne(w, adds, size)[0] = w
           /\ \A k \in 1..Len(adds) :
                 OneByOne(w, adds, size)[k] = OneAdd(OneByOne(w, adds, size)[k - 1], adds, size, k)
<1> DEFINE n == Len(adds)
           e == [adds |-> adds, size |-> size]
           next(a, k) == OneAdd(a, adds, size, k)
           step(f) == [k \in 0..n |-> IF k = 0 THEN w ELSE next(f[k - 1], k)]
           run == CHOOSE f : f = step(f)
<1>1. OneByOne(w, adds, size) = run
  BY DEF OneByOne, OneAdd
<1>2. \A a, x : Op("add", e, a, x) = next(a, x)
  BY DEF Op, OneAdd
<1> HIDE DEF e, next
<1>3. PICK h : Loops(h, "add", e, w, n)
  <2>1. n \in Nat
    OBVIOUS
  <2> HIDE DEF n
  <2>2. QED
    BY <2>1, LoopExists
<1> DEFINE f == [p \in 0..n |-> h[p]]
<1>4. f = step(f)
  <2>1. \A p \in 0..n : f[p] = step(f)[p]
    <3>1. SUFFICES ASSUME NEW p \in 0..n PROVE f[p] = step(f)[p]
      OBVIOUS
    <3>2. CASE p = 0
      BY <1>3, <3>2 DEF Loops
    <3>3. CASE p # 0
      <4>1. p \in 1..n /\ p - 1 \in 0..n
        BY <3>3
      <4>2. QED
        BY <1>2, <1>3, <3>3, <4>1 DEF Loops
    <3>4. QED
      BY <3>2, <3>3
  <2>2. f = [p \in 0..n |-> f[p]] /\ step(f) = [p \in 0..n |-> step(f)[p]]
    OBVIOUS
  <2> HIDE DEF f, step
  <2>3. QED
    BY <2>1, <2>2
<1>5. run = step(run)
  <2> HIDE DEF f, step
  <2>1. QED
    BY <1>4
<1> HIDE DEF run
<1>6. run[0] = w /\ \A k \in 1..n : run[k] = next(run[k - 1], k)
  BY <1>5
<1>7. QED
  BY <1>1, <1>6 DEF next

\* Adds that read what is filled before them.
Ordered(adds, size) ==
    /\ size \in Nat \ {0} /\ adds \in Seq([1..4 -> Nat])
    /\ Forward(adds, size) = {}

LEMMA OrderedAre ==
    ASSUME NEW adds, NEW size, Ordered(adds, size)
    PROVE  /\ size \in Nat \ {0} /\ Len(adds) \in Nat /\ DOMAIN adds = 1..Len(adds)
           /\ \A k \in 1..Len(adds) : \A j \in 1..4 : adds[k][j] \in Nat
           /\ adds # << >> => Len(adds) > 0
BY DEF Ordered

LEMMA OrderedReads ==
    ASSUME NEW adds, NEW size, Ordered(adds, size),
           NEW k \in 1..Len(adds), NEW cell \in Reads(adds[k])
    PROVE  /\ cell \in Nat /\ cell < size + k - 1
           /\ cell >= size => cell - size + 1 \in 1..(k - 1) /\ cell - size + 1 \in 1..Len(adds)
<1>1. cell \in Nat
  BY DEF Ordered, Reads
<1>2. ~(cell - size >= k - 1)
  BY DEF Ordered, Forward
<1>3. QED
  BY <1>1, <1>2 DEF Ordered

\* One pass is a level above the adds it reads, and looks at no other.
LEMMA RelaxedIs ==
    ASSUME NEW adds, NEW size, Ordered(adds, size), NEW level \in [1..Len(adds) -> Nat],
           NEW k \in 1..Len(adds)
    PROVE  /\ Relaxed(adds, size, level)[k] \in Nat
           /\ \A cell \in Reads(adds[k]) :
                 cell >= size => level[cell - size + 1] < Relaxed(adds, size, level)[k]
<1> DEFINE a == adds[k][1]
           b == adds[k][2]
           up(cell) == level[cell - size + 1] + 1
           R == { c \in Reads(adds[k]) : c >= size }
           X == { 0 } \cup { up(cell) : cell \in R }
<1>1. Relaxed(adds, size, level)[k] = Max(X)
  BY OrderedAre DEF Relaxed
<1>2. \A cell \in R : up(cell) \in Nat
  BY OrderedReads
<1>3. X \subseteq { 0, up(a), up(b) }
  BY DEF Reads
<1>4. IsFiniteSet({ 0, up(a), up(b) })
  <2>1. IsFiniteSet({ 0 }) /\ IsFiniteSet({ up(a) }) /\ IsFiniteSet({ up(b) })
    BY FS_Singleton
  <2> HIDE DEF up
  <2>2. \A x, y, z : { x, y, z } = ({ x } \cup { y }) \cup { z }
    OBVIOUS
  <2>3. IsFiniteSet({ 0 } \cup { up(a) })
    BY <2>1, FS_Union
  <2>4. IsFiniteSet(({ 0 } \cup { up(a) }) \cup { up(b) })
    BY <2>1, <2>3, FS_Union
  <2>5. QED
    BY <2>2, <2>4
<1>5. IsFiniteSet(X) /\ X # {} /\ \A x \in X : x \in Nat
  <2>1. IsFiniteSet(X)
    BY <1>3, <1>4, FS_Subset
  <2>2. QED
    BY <1>2, <2>1
<1> HIDE DEF X
<1>6. Max(X) \in X /\ \A x \in X : x <= Max(X)
  BY <1>5, HighestIsGreatest DEF Highest, Max
<1>7. \A cell \in R : up(cell) \in X
  BY DEF X
<1>8. ASSUME NEW cell \in Reads(adds[k]), cell >= size
      PROVE  level[cell - size + 1] < Max(X)
  <2>1. up(cell) <= Max(X) /\ level[cell - size + 1] \in Nat
    BY <1>6, <1>7, <1>8, OrderedReads
  <2>2. Max(X) \in Nat
    BY <1>5, <1>6
  <2>3. QED
    BY <2>1, <2>2
<1>9. QED
  BY <1>1, <1>5, <1>6, <1>8

LEMMA RelaxedAgree ==
    ASSUME NEW adds, NEW size, Ordered(adds, size), NEW l, NEW m, NEW k \in 1..Len(adds),
           \A j \in 1..(k - 1) : l[j] = m[j]
    PROVE  Relaxed(adds, size, l)[k] = Relaxed(adds, size, m)[k]
<1> DEFINE R == { c \in Reads(adds[k]) : c >= size }
<1>1. \A cell \in R : l[cell - size + 1] = m[cell - size + 1]
  BY OrderedReads
<1> HIDE DEF R
<1>2. { l[cell - size + 1] + 1 : cell \in R } = { m[cell - size + 1] + 1 : cell \in R }
  BY <1>1
<1>3. /\ Relaxed(adds, size, l)[k] = Max({ 0 } \cup { l[cell - size + 1] + 1 : cell \in R })
      /\ Relaxed(adds, size, m)[k] = Max({ 0 } \cup { m[cell - size + 1] + 1 : cell \in R })
  BY OrderedAre DEF Relaxed, R
<1>4. QED
  BY <1>2, <1>3

\* Every pass gives levels, ...
LEMMA LevelsAreNumbers ==
    ASSUME NEW adds, NEW size, Ordered(adds, size)
    PROVE  \A p \in 0..Len(adds) : Levels(adds, size)[p] \in [1..Len(adds) -> Nat]
<1> DEFINE n == Len(adds)
           h == Levels(adds, size)
           S == { p \in 0..n : h[p] \in [1..n -> Nat] }
<1>1. n \in Nat /\ DOMAIN adds = 1..n
  BY DEF Ordered
<1>2. h[0] = [k \in DOMAIN adds |-> 0] /\ \A p \in 1..n : h[p] = Relaxed(adds, size, h[p - 1])
  BY <1>1, LevelsAre
<1> HIDE DEF h
<1>3. 0 \in S
  BY <1>1, <1>2
<1>4. ASSUME NEW p \in 1..n, p - 1 \in S PROVE p \in S
  <2>1. \A k \in 1..n : Relaxed(adds, size, h[p - 1])[k] \in Nat
    BY <1>4, RelaxedIs
  <2>2. Relaxed(adds, size, h[p - 1]) = [k \in 1..n |-> Relaxed(adds, size, h[p - 1])[k]]
    BY <1>1 DEF Relaxed
  <2>3. QED
    BY <1>1, <1>2, <2>1, <2>2
<1> HIDE DEF S
<1>5. \A p \in 0..n : p \in S
  BY <1>1, <1>3, <1>4, UpTo
<1>6. QED
  BY <1>5 DEF S, h

\* ... and pass p settles the first p adds: the passes end within as many as
\* there are adds, on levels that one more pass leaves as they are.
LEMMA LevelsSettle ==
    ASSUME NEW adds, NEW size, Ordered(adds, size), Len(adds) > 0
    PROVE  LET n == Len(adds)
               level == Levels(adds, size)[n]
           IN  /\ level = Levels(adds, size)[n - 1]
               /\ level \in [1..n -> Nat]
               /\ level = Relaxed(adds, size, level)
<1> DEFINE n == Len(adds)
           h == Levels(adds, size)
           S == { p \in 0..(n - 1) : \A k \in 1..(p + 1) : h[p + 1][k] = h[p][k] }
<1>1. n \in Nat /\ n - 1 \in Nat /\ DOMAIN adds = 1..n
  BY DEF Ordered
<1>2. h[0] = [k \in DOMAIN adds |-> 0] /\ \A p \in 1..n : h[p] = Relaxed(adds, size, h[p - 1])
  BY <1>1, LevelsAre
<1>3. \A p \in 0..n : h[p] \in [1..n -> Nat]
  BY LevelsAreNumbers
<1> HIDE DEF h
<1>4. 0 \in S
  <2>1. h[1] = Relaxed(adds, size, h[0]) /\ 1 \in 1..n
    BY <1>1, <1>2
  <2>2. \A c \in Reads(adds[1]) : ~(c >= size)
    BY <2>1, OrderedReads
  <2>3. { h[0][cell - size + 1] + 1 : cell \in { c \in Reads(adds[1]) : c >= size } } = {}
    BY <2>2
  <2>4. h[1][1] = Max({ 0 } \cup {})
    BY <1>1, <2>1, <2>3 DEF Relaxed
  <2>5. { 0 } \cup {} = { 0 }
    OBVIOUS
  <2>6. Max({ 0 }) = 0
    BY DEF Max
  <2>7. h[1][1] = h[0][1]
    BY <1>1, <1>2, <2>4, <2>5, <2>6
  <2>8. QED
    BY <1>1, <2>7
<1>5. ASSUME NEW p \in 1..(n - 1), p - 1 \in S PROVE p \in S
  <2>1. p \in 1..n /\ p + 1 \in 1..n /\ (p - 1) + 1 = p /\ (p + 1) - 1 = p
    BY <1>1
  <2>2. \A j \in 1..p : h[p][j] = h[p - 1][j]
    BY <1>5, <2>1
  <2>3. ASSUME NEW k \in 1..(p + 1) PROVE h[p + 1][k] = h[p][k]
    <3>1. k \in 1..n /\ \A j \in 1..(k - 1) : h[p][j] = h[p - 1][j]
      BY <1>1, <2>2
    <3>2. Relaxed(adds, size, h[p])[k] = Relaxed(adds, size, h[p - 1])[k]
      BY <3>1, RelaxedAgree
    <3>3. QED
      BY <1>2, <2>1, <3>2
  <2>4. QED
    BY <2>3
<1>6. n - 1 \in S
  <2> HIDE DEF S
  <2>1. \A p \in 0..(n - 1) : p \in S
    BY <1>1, <1>4, <1>5, UpTo
  <2>2. QED
    BY <1>1, <2>1
<1>7. h[n] = h[n - 1]
  <2>1. (n - 1) + 1 = n /\ n \in 0..n /\ n - 1 \in 0..n
    BY <1>1
  <2>2. \A k \in 1..n : h[n][k] = h[n - 1][k]
    BY <1>6, <2>1
  <2>3. h[n] = [k \in 1..n |-> h[n][k]] /\ h[n - 1] = [k \in 1..n |-> h[n - 1][k]]
    BY <1>3, <2>1
  <2>4. QED
    BY <2>2, <2>3
<1>8. h[n] = Relaxed(adds, size, h[n])
  BY <1>1, <1>2, <1>7
<1>9. QED
  BY <1>1, <1>3, <1>7, <1>8 DEF h

\* An add's value looks at the cells it reads and no other.
LEMMA AddLooksAt ==
    ASSUME NEW v, NEW w, NEW add, \A c \in Reads(add) : v[c] = w[c]
    PROVE  AddValue(v, add) = AddValue(w, add)
<1>1. v[add[1]] = w[add[1]] /\ v[add[2]] = w[add[2]]
  BY DEF Reads
<1>2. QED
  BY <1>1 DEF AddValue

\* Witnesses of a circuit, the cells of its adds included.
IsWitness(w, adds, size) == w = [c \in 0..(size + Len(adds) - 1) |-> w[c]]

\* `v` is `w` with every add's value in its cell.
Settles(v, w, adds, size) ==
    /\ IsWitness(v, adds, size)
    /\ \A c \in 0..(size - 1) : v[c] = w[c]
    /\ \A j \in 1..Len(adds) : v[size + j - 1] = AddValue(v, adds[j])

\* The adds one after the other: each fills its cell and no other, with what
\* the cells it reads have at the end, too.
LEMMA OneByOneSettles ==
    ASSUME NEW adds, NEW size, Ordered(adds, size),
           NEW w, IsWitness(w, adds, size)
    PROVE  Settles(OneByOne(w, adds, size)[Len(adds)], w, adds, size)
<1> DEFINE n == Len(adds)
           D == 0..(size + n - 1)
           h == OneByOne(w, adds, size)
           Good(k) == /\ h[k] = [c \in D |-> h[k][c]]
                      /\ \A c \in 0..(size - 1) : h[k][c] = w[c]
                      /\ \A j \in 1..k : h[k][size + j - 1] = AddValue(h[k], adds[j])
           S == { k \in 0..n : Good(k) }
<1>1. n \in Nat /\ size \in Nat \ {0}
  BY OrderedAre
<1>2. h[0] = w /\ \A k \in 1..n : h[k] = OneAdd(h[k - 1], adds, size, k)
  <2>1. Len(adds) \in Nat
    BY OrderedAre
  <2>2. QED
    BY <2>1, OneByOneIs
<1> HIDE DEF h
<1>3. 0 \in S
  <2>1. \A j \in 1..0 : FALSE
    OBVIOUS
  <2>2. 0 \in 0..n /\ Good(0)
    BY <1>1, <1>2, <2>1 DEF IsWitness
  <2>3. QED
    BY <2>2
<1>4. ASSUME NEW k \in 1..n, k - 1 \in S PROVE k \in S
  <2> DEFINE a == h[k - 1]
             b == h[k]
             x == size + k - 1
  <2>1. /\ a = [c \in D |-> a[c]]
        /\ \A c \in 0..(size - 1) : a[c] = w[c]
        /\ \A j \in 1..(k - 1) : a[size + j - 1] = AddValue(a, adds[j])
    BY <1>4
  <2>2. b = [a EXCEPT ![x] = AddValue(a, adds[k])]
    BY <1>2 DEF OneAdd
  <2>3. k \in 0..n /\ x \in D /\ x \in Int
    BY <1>1
  <2> HIDE DEF a, b, D
  <2>4. /\ b = [c \in D |-> b[c]]
        /\ b[x] = AddValue(a, adds[k])
        /\ \A c \in D : c # x => b[c] = a[c]
    BY <2>1, <2>2, <2>3
  <2>5. ASSUME NEW j \in 1..k PROVE AddValue(b, adds[j]) = AddValue(a, adds[j])
    <3>1. ASSUME NEW c \in Reads(adds[j]) PROVE b[c] = a[c]
      <4>1. j \in 1..n
        BY <1>1, <1>4
      <4>2. c \in Nat /\ c < size + j - 1
        BY <4>1, OrderedReads
      <4>3. c \in D /\ c # x
        BY <1>1, <4>2 DEF D
      <4>4. QED
        BY <2>4, <4>3
    <3>2. QED
      BY <3>1, AddLooksAt
  <2>6. ASSUME NEW c \in 0..(size - 1) PROVE b[c] = w[c]
    <3>1. c \in D /\ c # x
      BY <1>1 DEF D
    <3>2. QED
      BY <2>1, <2>4, <3>1
  <2>7. ASSUME NEW j \in 1..k PROVE b[size + j - 1] = AddValue(b, adds[j])
    <3>1. CASE j = k
      BY <2>4, <2>5, <3>1
    <3>2. CASE j # k
      <4>1. j \in 1..(k - 1) /\ size + j - 1 \in D /\ size + j - 1 # x
        BY <1>1, <3>2 DEF D
      <4>2. QED
        BY <2>1, <2>4, <2>5, <4>1
    <3>3. QED
      BY <3>1, <3>2
  <2>8. Good(k)
    BY <2>4, <2>6, <2>7 DEF b, D
  <2>9. QED
    BY <2>3, <2>8
<1>5. n \in S
  <2> HIDE DEF S
  <2>1. \A k \in 0..n : k \in S
    BY <1>1, <1>3, <1>4, UpTo
  <2>2. QED
    BY <1>1, <2>1
<1>6. Good(n)
  BY <1>5
<1>7. QED
  BY <1>6 DEF h, Settles, IsWitness

\* A wave is the adds of one level, and there is one up to the highest.
LEMMA WavesAre ==
    ASSUME NEW adds, NEW size, Ordered(adds, size), adds # << >>
    PROVE  LET level == Levels(adds, size)[Len(adds)]
               byLevel == AddWaves(adds, size)
           IN  \E top \in Nat :
                  /\ \A k \in 1..Len(adds) : level[k] <= top
                  /\ DOMAIN byLevel = 1..(top + 1)
                  /\ \A lv \in 1..(top + 1) : byLevel[lv] = { k \in 1..Len(adds) : level[k] = lv - 1 }
<1> DEFINE n == Len(adds)
           level == Levels(adds, size)[n]
           L == { level[k] : k \in DOMAIN adds }
           top == Max(L)
<1>1. n \in Nat /\ n > 0 /\ DOMAIN adds = 1..n
  BY OrderedAre
<1>2. level \in [1..n -> Nat]
  BY <1>1, LevelsSettle
<1>3. AddWaves(adds, size) = [lv \in 1..(top + 1) |-> { k \in 1..n : level[k] = lv - 1 }]
  BY <1>1 DEF AddWaves
<1> HIDE DEF level, n
<1>4. PICK m \in 1..n : \A k \in 1..n : level[k] <= level[m]
  <2> DEFINE A == 1..n
  <2>1. IsFiniteSet(A)
    BY <1>1, FS_Interval
  <2>2. 1 \in A /\ \A k \in A : level[k] \in Nat
    BY <1>1, <1>2
  <2> HIDE DEF A
  <2>3. \E m \in A : \A k \in A : level[k] <= level[m]
    BY <2>1, <2>2, GreatestMember
  <2>4. QED
    BY <2>3 DEF A
<1>5. level[m] \in L /\ \A x \in L : level[m] >= x
  BY <1>1, <1>2, <1>4
<1>6. top \in Nat /\ \A k \in 1..n : level[k] <= top
  <2>1. top \in L /\ \A x \in L : top >= x
    <3> HIDE DEF L
    <3>1. QED
      BY <1>5 DEF Max
  <2>2. \A x \in L : x \in Nat
    BY <1>1, <1>2
  <2> HIDE DEF top
  <2>3. QED
    BY <1>1, <1>2, <2>1, <2>2
<1> HIDE DEF top
<1>7. QED
  BY <1>3, <1>6 DEF level, n

\* The adds of the levels below `lv` have their final values, the others none.
Partly(x, lv, w, adds, size) ==
    x = [c \in 0..(size + Len(adds) - 1) |->
           IF c >= size /\ Levels(adds, size)[Len(adds)][c - size + 1] >= lv
           THEN w[c] ELSE OneByOne(w, adds, size)[Len(adds)][c]]

\* A wave adds its level to them: all that its adds read is final.
LEMMA WaveSettles ==
    ASSUME NEW adds, NEW size, Ordered(adds, size), adds # << >>,
           NEW w, IsWitness(w, adds, size),
           NEW lv \in Nat \ {0}, NEW before, Partly(before, lv - 1, w, adds, size),
           NEW wave, wave = { k \in 1..Len(adds) : Levels(adds, size)[Len(adds)][k] = lv - 1 }
    PROVE  Partly(RunWave(before, adds, size, wave), lv, w, adds, size)
<1> DEFINE n == Len(adds)
           D == 0..(size + n - 1)
           level == Levels(adds, size)[n]
           v == OneByOne(w, adds, size)[n]
           after == RunWave(before, adds, size, wave)
           goal == [c \in D |-> IF c >= size /\ level[c - size + 1] >= lv THEN w[c] ELSE v[c]]
<1>1. n \in Nat /\ n > 0 /\ size \in Nat \ {0}
  BY OrderedAre
<1>2. level \in [1..n -> Nat] /\ level = Relaxed(adds, size, level)
  BY <1>1, LevelsSettle
<1>3. \A j \in 1..n : v[size + j - 1] = AddValue(v, adds[j])
  <2>1. Settles(v, w, adds, size)
    BY OneByOneSettles
  <2>2. QED
    BY <2>1 DEF Settles
<1>4. before = [c \in D |-> IF c >= size /\ level[c - size + 1] >= lv - 1 THEN w[c] ELSE v[c]]
  BY DEF Partly
<1>5. wave = { k \in 1..n : level[k] = lv - 1 }
  OBVIOUS
<1> HIDE DEF n, D, level, v, after
<1>6. \A c \in D : before[c] = IF c >= size /\ level[c - size + 1] >= lv - 1 THEN w[c] ELSE v[c]
  BY <1>4
<1>7. after = [c \in D |-> IF c - size + 1 \in wave THEN AddValue(before, adds[c - size + 1]) ELSE before[c]]
  BY <1>4 DEF RunWave, after
<1>8. ASSUME NEW c \in D, c - size + 1 \in wave
      PROVE  after[c] = goal[c]
  <2> DEFINE j == c - size + 1
  <2>1. j \in 1..n /\ level[j] = lv - 1 /\ c \in Nat /\ c = size + j - 1
    BY <1>1, <1>5, <1>8 DEF D
  <2>2. ASSUME NEW r \in Reads(adds[j]) PROVE before[r] = v[r]
    <3>1. r \in Nat /\ r < size + j - 1 /\ (r >= size => r - size + 1 \in 1..n)
      BY <2>1, OrderedReads DEF n
    <3>2. r >= size => level[r - size + 1] < level[j]
      BY <1>2, <2>1, RelaxedIs DEF n
    <3>3. r \in D
      BY <1>1, <2>1, <3>1 DEF D
    <3>4. ~(r >= size /\ level[r - size + 1] >= lv - 1)
      BY <1>2, <2>1, <3>1, <3>2
    <3>5. QED
      BY <1>6, <3>3, <3>4
  <2>3. AddValue(before, adds[j]) = AddValue(v, adds[j])
    <3> HIDE DEF j
    <3>1. QED
      BY <2>2, AddLooksAt
  <2>4. after[c] = v[c]
    BY <1>3, <1>7, <1>8, <2>1, <2>3
  <2>5. ~(level[j] >= lv)
    BY <2>1
  <2>6. QED
    BY <2>4, <2>5
<1>9. ASSUME NEW c \in D, c - size + 1 \notin wave
      PROVE  after[c] = goal[c]
  <2>1. after[c] = before[c]
    BY <1>7, <1>9
  <2>2. CASE c >= size
    <3>1. c - size + 1 \in 1..n
      BY <1>1, <2>2 DEF D
    <3>2. level[c - size + 1] # lv - 1 /\ level[c - size + 1] \in Nat
      BY <1>2, <1>5, <1>9, <3>1
    <3>3. level[c - size + 1] >= lv - 1 <=> level[c - size + 1] >= lv
      BY <3>2
    <3>4. QED
      BY <1>6, <2>1, <3>3
  <2>3. CASE ~(c >= size)
    BY <1>6, <2>1, <2>3
  <2>4. QED
    BY <2>2, <2>3
<1>10. goal = [c \in D |-> goal[c]] /\ after = [c \in D |-> after[c]]
  BY <1>7
<1>11. after = goal
  <2> HIDE DEF goal
  <2>1. \A c \in D : after[c] = goal[c]
    BY <1>8, <1>9
  <2>2. QED
    BY <1>10, <2>1
<1>12. QED
  BY <1>11 DEF n, D, level, v, after, Partly

\* The waves leave what the adds one after the other do.
LEMMA WavesSettle ==
    ASSUME NEW adds, NEW size, Ordered(adds, size),
           NEW w, IsWitness(w, adds, size)
    PROVE  FoldLeft(LAMBDA acc, wave : RunWave(acc, adds, size, wave), w, AddWaves(adds, size))
              = OneByOne(w, adds, size)[Len(adds)]
<1> DEFINE n == Len(adds)
           D == 0..(size + n - 1)
           e == [adds |-> adds, size |-> size]
           s == AddWaves(adds, size)
           run == FoldLeft(LAMBDA acc, wave : RunWave(acc, adds, size, wave), w, s)
           level == Levels(adds, size)[n]
           v == OneByOne(w, adds, size)[n]
           g == CHOOSE f : Unfolds(f, "wave", e, w, s)
<1>1. n \in Nat /\ size \in Nat \ {0}
  BY OrderedAre
<1>2. run = g[DOMAIN s]
  BY DEF FoldLeft, MapThenFoldSet, Unfolds, Op
<1>3. \A a, x : Op("wave", e, a, x) = RunWave(a, adds, size, x)
  BY DEF Op
<1>4. ASSUME NEW m \in Nat, DOMAIN s = 1..m
      PROVE  \E h : Walks(h, "wave", e, w, s, m) /\ h[m] = run
  <2> HIDE DEF s, e, run
  <2>1. Unfolds(g, "wave", e, w, s)
    BY <1>4, FoldExists
  <2> HIDE DEF g
  <2>2. QED
    BY <1>2, <1>4, <2>1, StepsOfTheFold
<1>5. CASE adds = << >>
  <2>1. s = << >> /\ n = 0
    BY <1>5 DEF AddWaves
  <2>2. DOMAIN s = 1..0 /\ 0 \in Nat
    BY <2>1
  <2> HIDE DEF s, e, run
  <2>3. PICK h : Walks(h, "wave", e, w, s, 0) /\ h[0] = run
    BY <1>4, <2>2
  <2>4. run = w
    BY <2>3 DEF Walks
  <2>5. v = w
    BY <1>1, <2>1, OneByOneIs
  <2>6. QED
    BY <2>4, <2>5 DEF run, s
<1>6. CASE adds # << >>
  <2>1. PICK top \in Nat : /\ \A k \in 1..n : level[k] <= top
                           /\ DOMAIN s = 1..(top + 1)
                           /\ \A lv \in 1..(top + 1) : s[lv] = { k \in 1..n : level[k] = lv - 1 }
    BY <1>6, WavesAre
  <2> DEFINE m == top + 1
             Is(x, lv) == Partly(x, lv, w, adds, size)
  <2>2. m \in Nat /\ level \in [1..n -> Nat]
    BY <1>1, <1>6, OrderedAre, LevelsSettle
  <2>3. v = [c \in D |-> v[c]] /\ \A c \in 0..(size - 1) : v[c] = w[c]
    <3>1. Settles(v, w, adds, size)
      BY OneByOneSettles
    <3>2. QED
      BY <3>1 DEF Settles, IsWitness
  <2>4. PICK h : Walks(h, "wave", e, w, s, m) /\ h[m] = run
    <3> HIDE DEF s, e, run
    <3>1. QED
      BY <1>4, <2>1, <2>2
  <2>5. h[0] = w /\ \A lv \in 1..m : h[lv] = RunWave(h[lv - 1], adds, size, s[lv])
    <3> HIDE DEF s, e, run
    <3>1. QED
      BY <1>3, <2>4 DEF Walks
  <2> DEFINE S == { lv \in 0..m : Is(h[lv], lv) }
  <2>6. 0 \in S
    <3>1. ASSUME NEW c \in D
          PROVE w[c] = IF c >= size /\ level[c - size + 1] >= 0 THEN w[c] ELSE v[c]
      <4> HIDE DEF level, v, n
      <4>1. CASE c >= size
        <5>1. c - size + 1 \in 1..n
          BY <1>1, <4>1
        <5>2. QED
          BY <2>2, <4>1, <5>1
      <4>2. CASE ~(c >= size)
        <5>1. c \in 0..(size - 1)
          BY <1>1, <4>2
        <5>2. w[c] = v[c]
          BY <2>3, <5>1
        <5>3. QED
          BY <4>2, <5>2
      <4>3. QED
        BY <4>1, <4>2
    <3>2. w = [c \in D |-> w[c]]
      BY DEF IsWitness
    <3>3. w = [c \in D |-> IF c >= size /\ level[c - size + 1] >= 0 THEN w[c] ELSE v[c]]
      <4> HIDE DEF D, level, v, n
      <4>1. QED
        BY <3>1, <3>2
    <3>4. Is(w, 0)
      BY <3>3 DEF Partly
    <3> HIDE DEF Is
    <3>5. QED
      BY <2>2, <2>5, <3>4
  <2>7. ASSUME NEW lv \in 1..m, lv - 1 \in S PROVE lv \in S
    <3>1. lv \in Nat \ {0} /\ lv \in 0..m
      BY <2>2
    <3>2. s[lv] = { k \in 1..n : level[k] = lv - 1 }
      BY <2>1
    <3>3. Is(h[lv - 1], lv - 1) /\ h[lv] = RunWave(h[lv - 1], adds, size, s[lv])
      BY <2>5, <2>7
    <3> HIDE DEF s
    <3>4. Is(RunWave(h[lv - 1], adds, size, s[lv]), lv)
      BY <1>6, <3>1, <3>2, <3>3, WaveSettles
    <3> HIDE DEF Is
    <3>5. QED
      BY <3>1, <3>3, <3>4
  <2>8. Is(h[m], m)
    <3> HIDE DEF S
    <3>1. \A lv \in 0..m : lv \in S
      BY <2>2, <2>6, <2>7, UpTo
    <3>2. m \in S
      BY <2>2, <3>1
    <3>3. QED
      BY <3>2 DEF S
  <2>9. h[m] = v
    <3>1. ASSUME NEW c \in D PROVE ~(c >= size /\ level[c - size + 1] >= m)
      <4> HIDE DEF level, v, n
      <4>1. c >= size => c - size + 1 \in 1..n
        BY <1>1
      <4>2. QED
        BY <2>1, <2>2, <4>1
    <3>2. h[m] = [c \in D |-> IF c >= size /\ level[c - size + 1] >= m THEN w[c] ELSE v[c]]
      BY <2>8 DEF Partly
    <3> HIDE DEF D, level, v, n
    <3>3. h[m] = [c \in D |-> v[c]]
      BY <3>1, <3>2
    <3>4. QED
      BY <2>3, <3>3
  <2>10. QED
    BY <2>4, <2>9
<1>7. QED
  BY <1>5, <1>6

\* Every word is below twice the modulus, an add's value below the modulus.
LEMMA WordsAreSmall ==
    ASSUME NEW adds, NEW size, Ordered(adds, size), NEW v, NEW w, Settles(v, w, adds, size),
           \A c \in 0..(size - 1) : w[c] \in 0..(2 * Modulus - 1)
    PROVE  \A c \in 0..(size + Len(adds) - 1) : v[c] \in 0..(2 * Modulus - 1)
<1> DEFINE n == Len(adds)
           Small(c) == v[c] \in 0..(2 * Modulus - 1)
           S == { k \in 0..n : \A c \in 0..(size + k - 1) : Small(c) }
<1>1. n \in Nat /\ size \in Nat \ {0} /\ \A k \in 1..n : \A j \in 1..4 : adds[k][j] \in Nat
  BY OrderedAre
<1>2. /\ \A c \in 0..(size - 1) : v[c] = w[c]
      /\ \A j \in 1..n : v[size + j - 1] = AddValue(v, adds[j])
  BY DEF Settles
<1>3. Modulus \in Nat \ {0}
  BY RecursionAssumption
<1> HIDE DEF n
<1>4. 0 \in S
  BY <1>1, <1>2
<1>5. ASSUME NEW k \in 1..n, k - 1 \in S PROVE k \in S
  <2> DEFINE x == adds[k][1]
             y == adds[k][2]
             p == adds[k][3]
             q == adds[k][4]
  <2>1. \A c \in 0..(size + k - 2) : Small(c)
    BY <1>1, <1>5
  <2>2. x \in 0..(size + k - 2) /\ y \in 0..(size + k - 2)
    <3>1. x \in Reads(adds[k]) /\ y \in Reads(adds[k]) /\ k \in 1..Len(adds)
      BY DEF Reads, n
    <3>2. x \in Nat /\ x < size + k - 1 /\ y \in Nat /\ y < size + k - 1
      BY <3>1, OrderedReads
    <3>3. QED
      BY <1>1, <3>2
  <2>3. v[x] \in Int /\ v[y] \in Int /\ p \in Int /\ q \in Int
    BY <1>1, <1>3, <2>1, <2>2
  <2>4. AddValue(v, adds[k]) = (v[x] * p + v[y] * q) % Modulus
    BY DEF AddValue
  <2> HIDE DEF x, y, p, q
  <2>5. v[x] * p \in Int /\ v[y] * q \in Int
    BY <2>3
  <2>6. v[x] * p + v[y] * q \in Int
    BY <2>5
  <2>7. (v[x] * p + v[y] * q) % Modulus \in 0..(Modulus - 1)
    BY <1>3, <2>6
  <2>8. Small(size + k - 1)
    <3>1. v[size + k - 1] \in 0..(Modulus - 1)
      BY <1>2, <2>4, <2>7
    <3>2. QED
      BY <1>3, <3>1
  <2> HIDE DEF Small
  <2>9. \A c \in 0..(size + k - 1) : Small(c)
    <3>1. ASSUME NEW c \in 0..(size + k - 1) PROVE Small(c)
      <4>1. c \in 0..(size + k - 2) \/ c = size + k - 1
        BY <1>1
      <4>2. QED
        BY <2>1, <2>8, <4>1
    <3>2. QED
      BY <3>1
  <2>10. QED
    BY <2>9
<1>6. n \in S
  <2> HIDE DEF S
  <2>1. \A k \in 0..n : k \in S
    BY <1>1, <1>4, <1>5, UpTo
  <2>2. QED
    BY <1>1, <2>1
<1>7. QED
  BY <1>6 DEF n

LEMMA CanonicalIs ==
    ASSUME NEW x \in 0..(2 * Modulus - 1)
    PROVE  Canonical(x) = x % Modulus
<1>1. Modulus \in Nat \ {0}
  BY RecursionAssumption
<1>2. CASE x < Modulus
  BY <1>1, <1>2 DEF Canonical
<1>3. CASE x >= Modulus
  BY <1>1, <1>3 DEF Canonical
<1>4. QED
  BY <1>1, <1>2, <1>3

\* A calculator that was made, of its own circuit and with its waves.
Made ==
    /\ circuit \in Circuits
    /\ Forward(circuit.adds, circuit.size) = {}
    /\ waves = AddWaves(circuit.adds, circuit.size)

LEMMA MadeIsOrdered ==
    ASSUME circuit \in Circuits, Forward(circuit.adds, circuit.size) = {}
    PROVE  Ordered(circuit.adds, circuit.size)
BY RecursionAssumption DEF Ordered

\* What a calculator settles on is proofman's.
LEMMA SettledIs ==
    ASSUME Made, NEW w \in WitnessesOf(circuit)
    PROVE  /\ DOMAIN Settled(w) = Cells(circuit)
           /\ \A cell \in Cells(circuit) : Settled(w)[cell] = Proofman(w, cell)
<1> DEFINE adds == circuit.adds
           size == circuit.size
           v == OneByOne(w, adds, size)[Len(adds)]
           run == FoldLeft(LAMBDA acc, wave : RunWave(acc, adds, size, wave), w, AddWaves(adds, size))
<1>1. Ordered(adds, size)
  BY MadeIsOrdered DEF Made
<1>2. size \in Nat \ {0} /\ Len(adds) \in Nat
  BY <1>1, OrderedAre
<1>3. PICK u \in [0..(size - 1) -> CellWords] :
         w = [cell \in Cells(circuit) |-> IF cell < size THEN u[cell] ELSE 0]
  BY DEF WitnessesOf
<1>4. IsWitness(w, adds, size)
  BY <1>3 DEF IsWitness, Cells
<1>5. \A c \in 0..(size - 1) : w[c] \in 0..(2 * Modulus - 1)
  <2>1. ASSUME NEW c \in 0..(size - 1) PROVE w[c] \in CellWords
    <3>1. c \in Cells(circuit) /\ c < size
      BY <1>2 DEF Cells
    <3>2. w[c] = u[c]
      BY <1>3, <3>1
    <3>3. QED
      BY <3>2
  <2>2. QED
    BY <2>1, RecursionAssumption
<1> HIDE DEF adds, size
<1>6. run = v
  BY <1>1, <1>4, WavesSettle
<1>7. Settles(v, w, adds, size)
  BY <1>1, <1>4, OneByOneSettles
<1>8. \A c \in 0..(size + Len(adds) - 1) : v[c] \in 0..(2 * Modulus - 1)
  BY <1>1, <1>5, <1>7, WordsAreSmall
<1>9. \A c \in Cells(circuit) : Canonical(v[c]) = v[c] % Modulus
  BY <1>8, CanonicalIs DEF Cells, adds, size
<1>10. DOMAIN w = Cells(circuit)
  BY <1>3
<1>11. Settled(w) = [cell \in DOMAIN w |-> IF cell = 0 THEN 0 ELSE Canonical(run[cell])]
  BY DEF Settled, Made, adds, size
<1>12. \A cell : Proofman(w, cell) = IF cell = 0 THEN 0 ELSE v[cell] % Modulus
  BY DEF Proofman, adds, size
<1> HIDE DEF run, v
<1>13. QED
  BY <1>6, <1>9, <1>10, <1>11, <1>12

\* Row by row, every place of a placement is one of its list.
LEMMA RowMajor ==
    ASSUME NEW rows \in Nat, NEW cols \in Nat, NEW r \in 1..rows, NEW c \in 1..cols
    PROVE  (r - 1) * cols + c \in 1..(rows * cols)
<1> DEFINE above == (r - 1) * cols
           below == (rows - r) * cols
<1>1. above \in Nat /\ below \in Nat
  <2>1. r - 1 \in Nat /\ rows - r \in Nat
    OBVIOUS
  <2>2. \A a, b \in Nat : a * b \in Nat
    OBVIOUS
  <2>3. QED
    BY <2>1, <2>2
<1>2. rows * cols = (above + cols) + below
  <2>1. r \in Int /\ rows \in Int /\ cols \in Int
    OBVIOUS
  <2>2. QED
    BY <2>1
<1> HIDE DEF above, below
<1>3. QED
  BY <1>1, <1>2 DEF above

\* The trace that is promised.
Promised(w, n, cols) ==
    [r \in 1..n |-> [c \in 1..cols |->
       IF r <= circuit.rows THEN Proofman(w, circuit.smap[(r - 1) * cols + c]) ELSE 0]]

\* The settled witness through the circuit's own placement.
LEMMA PlacesHold ==
    ASSUME Made, NEW w \in WitnessesOf(circuit), NEW n \in Heights, NEW cols \in Widths,
           Reshapes(cols)
    PROVE  LaidOut(Settled(w), Reshaped(cols), n, cols) = Promised(w, n, cols)
<1> DEFINE smap == circuit.smap
           rows == circuit.rows
           cells == Settled(w)
           at(r, c) == (r - 1) * cols + c
           place == Reshaped(cols)
<1>1. rows \in Nat /\ cols \in Nat /\ n \in Nat /\ smap \in Seq(Cells(circuit))
  BY RecursionAssumption DEF Made
<1>2. rows * cols = Len(smap)
  BY DEF Reshapes
<1>3. ASSUME NEW r \in 1..rows, NEW c \in 1..cols
      PROVE  /\ place[r][c] = smap[at(r, c)]
             /\ cells[smap[at(r, c)]] = Proofman(w, smap[at(r, c)])
  <2>1. at(r, c) \in 1..Len(smap)
    <3>1. at(r, c) \in 1..(rows * cols)
      <4> HIDE DEF rows
      <4>1. QED
        BY <1>1, RowMajor
    <3>2. QED
      BY <1>2, <3>1
  <2>2. smap[at(r, c)] \in Cells(circuit)
    <3> HIDE DEF smap, at
    <3>1. QED
      BY <1>1, <2>1
  <2>3. place[r][c] = smap[at(r, c)]
    BY DEF Reshaped
  <2>4. QED
    BY <2>2, <2>3, SettledIs
<1> DEFINE left(r, c) == IF r <= rows THEN cells[place[r][c]] ELSE 0
           right(r, c) == IF r <= rows THEN Proofman(w, smap[at(r, c)]) ELSE 0
<1>4. LaidOut(cells, place, n, cols) = [r \in 1..n |-> [c \in 1..cols |-> left(r, c)]]
  BY DEF LaidOut
<1>5. Promised(w, n, cols) = [r \in 1..n |-> [c \in 1..cols |-> right(r, c)]]
  BY DEF Promised
<1> HIDE DEF smap, rows, cells, at, place
<1>6. ASSUME NEW r \in 1..n, NEW c \in 1..cols PROVE left(r, c) = right(r, c)
  <2>1. CASE r <= rows
    <3>1. r \in 1..rows
      BY <1>1, <2>1
    <3>2. QED
      BY <1>3, <2>1, <3>1
  <2>2. CASE ~(r <= rows)
    BY <2>2
  <2>3. QED
    BY <2>1, <2>2
<1> HIDE DEF left, right
<1>7. ASSUME NEW r \in 1..n PROVE [c \in 1..cols |-> left(r, c)] = [c \in 1..cols |-> right(r, c)]
  BY <1>6
<1>8. [r \in 1..n |-> [c \in 1..cols |-> left(r, c)]] = [r \in 1..n |-> [c \in 1..cols |-> right(r, c)]]
  BY <1>7
<1>9. QED
  BY <1>4, <1>5, <1>8 DEF cells, place

\* What is promised of a circuit alone.
LEMMA CircuitsHold ==
    ASSUME circuit \in Circuits, built <=> Forward(circuit.adds, circuit.size) = {}
    PROVE  LET adds == circuit.adds
               size == circuit.size
           IN  /\ built <=> \A k \in DOMAIN adds : \A cell \in Reads(adds[k]) : cell < size + k - 1
               /\ built /\ adds # << >> =>
                     Levels(adds, size)[Len(adds)] = Levels(adds, size)[Len(adds) - 1]
<1> DEFINE adds == circuit.adds
           size == circuit.size
<1>1. size \in Nat /\ adds \in Seq([1..4 -> Nat])
  BY RecursionAssumption
<1>2. built => Ordered(adds, size)
  BY MadeIsOrdered
<1>3. Forward(adds, size)
         = { k \in DOMAIN adds : \E cell \in Reads(adds[k]) : cell - size >= k - 1 }
  BY DEF Forward
<1>4. built <=> Forward(adds, size) = {}
  OBVIOUS
<1> HIDE DEF adds, size
<1>5. ASSUME NEW k \in DOMAIN adds, NEW cell \in Reads(adds[k])
      PROVE  ~(cell - size >= k - 1) <=> cell < size + k - 1
  <2>1. k \in Nat /\ adds[k] \in [1..4 -> Nat]
    BY <1>1
  <2>2. cell \in Nat
    BY <2>1 DEF Reads
  <2>3. \A x, y, z \in Nat : ~(x - y >= z - 1) <=> x < y + z - 1
    OBVIOUS
  <2>4. size \in Nat /\ k \in Nat
    BY <1>1, <2>1
  <2>5. QED
    BY <2>2, <2>3, <2>4
<1>6. built <=> \A k \in DOMAIN adds : \A cell \in Reads(adds[k]) : cell < size + k - 1
  BY <1>3, <1>4, <1>5
<1>7. built /\ adds # << >> => Levels(adds, size)[Len(adds)] = Levels(adds, size)[Len(adds) - 1]
  BY <1>2, OrderedAre, LevelsSettle
<1>8. QED
  BY <1>6, <1>7 DEF adds, size

LEMMA CalcStarts == CalcInit => CalcInv
<1>1. SUFFICES ASSUME CalcInit PROVE CalcInv
  OBVIOUS
<1>2. circuit \in Circuits /\ (built <=> Forward(circuit.adds, circuit.size) = {})
  BY <1>1 DEF CalcInit
<1>3. \A cols \in Widths : ~Uploaded(cols)
  BY <1>1, RecursionAssumption DEF CalcInit, Uploaded, NoUpload
<1>4. answer.asked = FALSE
  BY <1>1 DEF CalcInit, NoAnswer
<1>5. WitnessesSettleInOrder
  BY <1>2, <1>4, CircuitsHold DEF WitnessesSettleInOrder
<1>6. QED
  BY <1>1, <1>2, <1>3, <1>5 DEF CalcInv, CalcInit

\* What an answer keeps of the invariant, the upload aside.
LEMMA AnswerHolds ==
    ASSUME CalcInv, built, UNCHANGED <<circuit, built, waves>>,
           NEW w \in WitnessesOf(circuit), NEW n \in Heights, NEW cols \in Widths,
           NEW ok, NEW laid, Answered(w, n, cols, ok, laid),
           ok <=> Reshapes(cols) /\ HasRoom(n),
           ok => laid = Promised(w, n, cols)
    PROVE  WitnessesSettleInOrder'
<1>1. /\ answer'.asked /\ answer'.w = w /\ answer'.n = n /\ answer'.cols = cols
      /\ answer'.ok = ok /\ (ok => answer'.trace = laid)
  BY DEF Answered
<1>2. circuit \in Circuits /\ (built <=> Forward(circuit.adds, circuit.size) = {})
  BY DEF CalcInv
<1>3. circuit' = circuit /\ built' = built
  OBVIOUS
<1>4. Promised(w, n, cols)' = Promised(w, n, cols)
  BY <1>3 DEF Promised, Proofman
<1>5. ok => answer'.trace = [r \in 1..n |-> [c \in 1..cols |->
               IF r <= circuit.rows
               THEN (Proofman(w, circuit.smap[(r - 1) * cols + c]))' ELSE 0]]
  BY <1>1, <1>3, <1>4 DEF Promised, Proofman
<1>6. QED
  BY <1>1, <1>2, <1>3, <1>5, CircuitsHold DEF WitnessesSettleInOrder, Reshapes, HasRoom

LEMMA CalcSteps == CalcInv /\ [CalcNext]_calcVars => CalcInv'
<1>1. SUFFICES ASSUME CalcInv, [CalcNext]_calcVars PROVE CalcInv'
  OBVIOUS
<1>2. ASSUME NEW w \in WitnessesOf(circuit), NEW n \in Heights, NEW cols \in Widths,
             CommittedPols(w, n, cols)
      PROVE  CalcInv'
  <2>1. built /\ UNCHANGED <<circuit, built, waves, upload>>
    BY <1>2 DEF CommittedPols
  <2>2. Made
    BY <1>1, <2>1 DEF CalcInv, Made
  <2> DEFINE ok == Reshapes(cols) /\ HasRoom(n)
             laid == LaidOut(Settled(w), Reshaped(cols), n, cols)
  <2>3. Answered(w, n, cols, ok, laid)
    BY <1>2 DEF CommittedPols
  <2>4. ok => laid = Promised(w, n, cols)
    BY <2>2, PlacesHold
  <2> HIDE DEF laid
  <2>5. WitnessesSettleInOrder'
    BY <1>1, <2>1, <2>3, <2>4, AnswerHolds
  <2>6. QED
    BY <1>1, <2>1, <2>5 DEF CalcInv, Uploaded, Reshapes, Reshaped
<1>3. ASSUME NEW w \in WitnessesOf(circuit), NEW n \in Heights, NEW cols \in Widths,
             CommittedTrace(w, n, cols)
      PROVE  CalcInv'
  <2>1. built /\ UNCHANGED <<circuit, built, waves>>
    BY <1>3 DEF CommittedTrace
  <2>2. Made
    BY <1>1, <2>1 DEF CalcInv, Made
  <2>3. \A wide \in Widths : Uploaded(wide) => Reshapes(wide) /\ upload.smap = Reshaped(wide)
    BY <1>1 DEF CalcInv
  <2>4. CASE Reshapes(cols)
    <3>1. upload'.cols = cols /\ upload'.smap = Reshaped(cols)
      BY <1>3, <2>3, <2>4 DEF CommittedTrace, Uploaded
    <3> DEFINE laid == LaidOut(Settled(w), Reshaped(cols), n, cols)
    <3>2. Answered(w, n, cols, HasRoom(n), laid)
      BY <1>3, <2>4, <3>1 DEF CommittedTrace
    <3>3. laid = Promised(w, n, cols)
      BY <2>2, <2>4, PlacesHold
    <3> HIDE DEF laid
    <3>4. WitnessesSettleInOrder'
      BY <1>1, <2>1, <2>4, <3>2, <3>3, AnswerHolds
    <3>5. QED
      BY <1>1, <2>1, <2>4, <3>1, <3>4 DEF CalcInv, Uploaded, Reshapes, Reshaped
  <2>5. CASE ~Reshapes(cols)
    <3>1. Answered(w, n, cols, FALSE, << >>) /\ UNCHANGED upload
      BY <1>3, <2>3, <2>5 DEF CommittedTrace
    <3>2. WitnessesSettleInOrder'
      BY <1>1, <2>1, <2>5, <3>1, AnswerHolds
    <3>3. QED
      BY <1>1, <2>1, <3>1, <3>2 DEF CalcInv, Uploaded, Reshapes, Reshaped
  <2>6. QED
    BY <2>4, <2>5
<1>4. CASE UNCHANGED calcVars
  BY <1>1, <1>4 DEF calcVars, CalcInv, Uploaded, Reshapes, Reshaped, WitnessesSettleInOrder, Proofman
<1>5. QED
  BY <1>1, <1>2, <1>3, <1>4 DEF CalcNext

\* A calculator keeps its waves and its placement.
THEOREM CalcInvariant == CalcSpec => []CalcInv
<1>1. CalcInit => CalcInv
  BY CalcStarts
<1>2. CalcInv /\ [CalcNext]_calcVars => CalcInv'
  BY CalcSteps
<1>3. QED
  BY <1>1, <1>2, PTL DEF CalcSpec

\* Every trace of a recursion circuit holds what its adds, run one after the
\* other, leave in the cells its placement names (CircomCalc runs them by waves
\* and keeps the placement uploaded), for every circuit, witness and order of
\* calls.
THEOREM CalculatorsSettleInOrder == CalcSpec => []WitnessesSettleInOrder
<1>1. CalcInv => WitnessesSettleInOrder
  BY DEF CalcInv
<1>2. QED
  BY <1>1, CalcInvariant, PTL
=============================================================================
