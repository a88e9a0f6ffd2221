---------------------------- MODULE FiniteFacts ----------------------------
(***************************************************************************)
(* Facts about finite sets that the proofs share.  Induction on a finite   *)
(* set, said of a set of sets so that it needs no operator parameter; and  *)
(* by it: the sum of a function of naturals over a finite set, as          *)
(* MapThenSumSet defines it; the least of a set of naturals; how many      *)
(* members of a set come first in an order.                                *)
(***************************************************************************)
EXTENDS Naturals, FiniteSets, FiniteSetTheorems, WellFoundedInduction, TLAPS

\* A family of subsets of a finite set has a member that no other one is
\* within.  With the family of the counterexamples, this is induction.
THEOREM MinimalMember ==
    ASSUME NEW A, IsFiniteSet(A), NEW F \in SUBSET (SUBSET A), F # {}
    PROVE  \E T \in F : \A U \in F : U \subseteq T => U = T
<1>1. IsWellFoundedOn(StrictSubsetOrdering(A), FiniteSubsetsOf(A))
  BY FS_StrictSubsetOrderingWellFounded
<1>2. FiniteSubsetsOf(A) = SUBSET A
  BY FS_FiniteSubsetsOfFinite
<1>3. PICK T \in F : \A U \in F : ~(<<U, T>> \in StrictSubsetOrdering(A))
  BY <1>1, <1>2, WFMin
<1>4. QED
  BY <1>3 DEF StrictSubsetOrdering

-----------------------------------------------------------------------------
\* The member that a sum takes out of a set first.
Taken(s) == CHOOSE x \in s : TRUE

\* `g` gives the sum of `w` over every subset of A.
SumsOver(g, w, A) ==
    g = [s \in SUBSET A |-> IF s = {} THEN 0 ELSE w[Taken(s)] + g[s \ {Taken(s)}]]

Total(w, A) == (CHOOSE g : SumsOver(g, w, A))[A]

LEMMA TakenIsMember == ASSUME NEW s, s # {} PROVE Taken(s) \in s
BY DEF Taken

LEMMA SumsUnfold ==
    ASSUME NEW A, NEW w, NEW g, SumsOver(g, w, A)
    PROVE  \A s \in SUBSET A :
              g[s] = IF s = {} THEN 0 ELSE w[Taken(s)] + g[s \ {Taken(s)}]
<1>1. g = [t \in SUBSET A |-> IF t = {} THEN 0 ELSE w[Taken(t)] + g[t \ {Taken(t)}]]
  BY DEF SumsOver
<1>2. QED
  BY <1>1

\* Two such functions agree where their sets and their summands do.
LEMMA SumsAgree ==
    ASSUME NEW A, NEW B, IsFiniteSet(B), NEW w, NEW v, NEW g, NEW h,
           SumsOver(g, w, A), SumsOver(h, v, B), B \subseteq A,
           \A x \in B : w[x] = v[x]
    PROVE  \A s \in SUBSET B : g[s] = h[s]
<1> DEFINE F == {s \in SUBSET B : g[s] # h[s]}
<1>1. F \in SUBSET (SUBSET B)
  OBVIOUS
<1>2. SUFFICES ASSUME F # {} PROVE FALSE
  OBVIOUS
<1> HIDE DEF F
<1>3. PICK s \in F : \A u \in F : u \subseteq s => u = s
  BY <1>1, <1>2, MinimalMember
<1> USE DEF F
<1>4. s \in SUBSET A /\ s \in SUBSET B /\ g[s] # h[s]
  BY <1>3
<1>5. /\ g[s] = IF s = {} THEN 0 ELSE w[Taken(s)] + g[s \ {Taken(s)}]
      /\ h[s] = IF s = {} THEN 0 ELSE v[Taken(s)] + h[s \ {Taken(s)}]
  <2>1. g[s] = IF s = {} THEN 0 ELSE w[Taken(s)] + g[s \ {Taken(s)}]
    BY <1>4, SumsUnfold
  <2>2. \A t \in SUBSET B : h[t] = IF t = {} THEN 0 ELSE v[Taken(t)] + h[t \ {Taken(t)}]
    <3> HIDE DEF F
    <3>1. QED
      BY SumsUnfold
  <2>3. QED
    BY <1>4, <2>1, <2>2
<1>6. s # {}
  BY <1>4, <1>5
<1>7. Taken(s) \in s
  BY <1>6, TakenIsMember
<1>8. g[s \ {Taken(s)}] = h[s \ {Taken(s)}]
  <2>1. s \ {Taken(s)} # s /\ s \ {Taken(s)} \subseteq s /\ s \ {Taken(s)} \in SUBSET B
    BY <1>4, <1>7
  <2>2. s \ {Taken(s)} \notin F
    BY <1>3, <2>1
  <2>3. QED
    BY <2>1, <2>2
<1>9. w[Taken(s)] = v[Taken(s)]
  BY <1>4, <1>7
<1>10. QED
  BY <1>4, <1>5, <1>6, <1>8, <1>9

\* There is such a function over every finite set.
LEMMA SumsExist ==
    ASSUME NEW A, IsFiniteSet(A), NEW w
    PROVE  \E g : SumsOver(g, w, A)
<1> DEFINE F == {T \in SUBSET A : ~ \E g : SumsOver(g, w, T)}
<1>1. F \in SUBSET (SUBSET A)
  OBVIOUS
<1>2. SUFFICES ASSUME F # {} PROVE FALSE
  OBVIOUS
<1> HIDE DEF F
<1>3. PICK T \in F : \A U \in F : U \subseteq T => U = T
  BY <1>1, <1>2, MinimalMember
<1> USE DEF F
<1>4. T \in SUBSET A /\ \A g : ~SumsOver(g, w, T)
  BY <1>3
<1>5. \A U \in SUBSET T : U # T => \E g : SumsOver(g, w, U)
  BY <1>3, <1>4
<1> DEFINE G(U) == CHOOSE g : SumsOver(g, w, U)
           h == [s \in SUBSET T |->
                    IF s = {} THEN 0
                    ELSE w[Taken(s)] + G(s \ {Taken(s)})[s \ {Taken(s)}]]
<1>6. \A U \in SUBSET T : U # T => SumsOver(G(U), w, U)
  BY <1>5
<1> HIDE DEF G
<1>7. ASSUME NEW u \in SUBSET T, u # T
      PROVE  h[u] = G(u)[u]
  <2>1. SumsOver(G(u), w, u)
    BY <1>6, <1>7
  <2>2. G(u)[u] = IF u = {} THEN 0 ELSE w[Taken(u)] + G(u)[u \ {Taken(u)}]
    BY <2>1, SumsUnfold
  <2>3. ASSUME u # {} PROVE G(u)[u \ {Taken(u)}] = G(u \ {Taken(u)})[u \ {Taken(u)}]
    <3> DEFINE v == u \ {Taken(u)}
    <3>1. v \in SUBSET T /\ v # T /\ v \subseteq u
      BY <1>7, <2>3, TakenIsMember
    <3>2. SumsOver(G(v), w, v)
      BY <1>6, <3>1
    <3>3. IsFiniteSet(v)
      BY <1>4, <3>1, FS_Subset
    <3> HIDE DEF v
    <3>4. \A s \in SUBSET v : G(u)[s] = G(v)[s]
      BY <2>1, <3>1, <3>2, <3>3, SumsAgree
    <3>5. G(u)[v] = G(v)[v]
      BY <3>4
    <3>6. QED
      BY <3>5 DEF v
  <2>4. QED
    BY <2>2, <2>3
<1>8. ASSUME NEW s \in SUBSET T, s # {}
      PROVE  h[s \ {Taken(s)}] = G(s \ {Taken(s)})[s \ {Taken(s)}]
  <2>1. s \ {Taken(s)} \in SUBSET T /\ s \ {Taken(s)} # T
    BY <1>8, TakenIsMember
  <2>2. QED
    BY <1>7, <2>1
<1>9. h = [s \in SUBSET T |-> IF s = {} THEN 0 ELSE w[Taken(s)] + h[s \ {Taken(s)}]]
  BY <1>8
<1>10. SumsOver(h, w, T)
  BY <1>9 DEF SumsOver
<1>11. QED
  BY <1>4, <1>10

LEMMA SumsNat ==
    ASSUME NEW A, IsFiniteSet(A), NEW w, \A y \in A : w[y] \in Nat,
           NEW g, SumsOver(g, w, A)
    PROVE  \A s \in SUBSET A : g[s] \in Nat
<1> DEFINE F == {s \in SUBSET A : g[s] \notin Nat}
<1>1. F \in SUBSET (SUBSET A)
  OBVIOUS
<1>2. SUFFICES ASSUME F # {} PROVE FALSE
  OBVIOUS
<1> HIDE DEF F
<1>3. PICK s \in F : \A u \in F : u \subseteq s => u = s
  BY <1>1, <1>2, MinimalMember
<1> USE DEF F
<1>4. s \in SUBSET A /\ g[s] \notin Nat
  BY <1>3
<1>5. g[s] = IF s = {} THEN 0 ELSE w[Taken(s)] + g[s \ {Taken(s)}]
  BY <1>4, SumsUnfold
<1>6. s # {} /\ Taken(s) \in s
  BY <1>4, <1>5, TakenIsMember
<1>7. g[s \ {Taken(s)}] \in Nat
  BY <1>3, <1>4, <1>6
<1>8. w[Taken(s)] \in Nat
  BY <1>4, <1>6
<1>9. QED
  BY <1>4, <1>5, <1>6, <1>7, <1>8

\* The order in which the members are taken does not matter.
LEMMA SumsAdd ==
    ASSUME NEW A, IsFiniteSet(A), NEW w, \A y \in A : w[y] \in Nat,
           NEW g, SumsOver(g, w, A)
    PROVE  \A s \in SUBSET A : \A x \in A \ s : g[s \cup {x}] = g[s] + w[x]
<1> DEFINE F == {s \in SUBSET A : \E x \in A \ s : g[s \cup {x}] # g[s] + w[x]}
<1>1. F \in SUBSET (SUBSET A)
  OBVIOUS
<1>2. SUFFICES ASSUME F # {} PROVE FALSE
  OBVIOUS
<1> HIDE DEF F
<1>3. PICK s \in F : \A u \in F : u \subseteq s => u = s
  BY <1>1, <1>2, MinimalMember
<1> USE DEF F
<1>4. PICK x \in A \ s : g[s \cup {x}] # g[s] + w[x]
  BY <1>3
<1> DEFINE c == Taken(s \cup {x})
<1>5. s \in SUBSET A /\ s \cup {x} \in SUBSET A /\ s \cup {x} # {}
  BY <1>3
<1>6. c \in s \cup {x}
  BY <1>5, TakenIsMember
<1>7. g[s \cup {x}] = w[c] + g[(s \cup {x}) \ {c}]
  <2> DEFINE q == s \cup {x}
  <2>1. q \in SUBSET A /\ q # {}
    BY <1>5
  <2> HIDE DEF q
  <2>2. g[q] = IF q = {} THEN 0 ELSE w[Taken(q)] + g[q \ {Taken(q)}]
    BY <2>1, SumsUnfold
  <2>3. g[q] = w[Taken(q)] + g[q \ {Taken(q)}]
    BY <2>1, <2>2
  <2>4. QED
    BY <2>3 DEF q
<1>8. g[s] \in Nat /\ w[x] \in Nat
  BY <1>5, SumsNat
<1> HIDE DEF c
<1>9. CASE c = x
  <2>1. (s \cup {x}) \ {c} = s
    BY <1>9
  <2>2. g[s \cup {x}] = w[x] + g[s]
    BY <1>7, <1>9, <2>1
  <2>3. QED
    BY <1>4, <1>8, <2>2
<1>10. CASE c # x
  <2> DEFINE r == s \ {c}
  <2>1. c \in s /\ r \in SUBSET A /\ r # s /\ r \subseteq s /\ x \in A \ r /\ c \in A \ r
    BY <1>5, <1>6, <1>10
  <2>2. r \notin F
    BY <1>3, <2>1
  <2>3. \A y \in A \ r : g[r \cup {y}] = g[r] + w[y]
    BY <2>1, <2>2
  <2>4. g[r \cup {x}] = g[r] + w[x] /\ g[r \cup {c}] = g[r] + w[c]
    BY <2>1, <2>3
  <2>5. r \cup {c} = s /\ (s \cup {x}) \ {c} = r \cup {x}
    BY <1>10, <2>1
  <2>6. g[r] \in Nat /\ w[c] \in Nat
    BY <2>1, SumsNat
  <2> HIDE DEF r
  <2>7. g[s] = g[r] + w[c] /\ g[s \cup {x}] = w[c] + (g[r] + w[x])
    BY <1>7, <2>4, <2>5
  <2>8. QED
    BY <1>4, <1>8, <2>6, <2>7
<1>11. QED
  BY <1>9, <1>10

-----------------------------------------------------------------------------
\* Total is a function that sums up every part of a finite set.
THEOREM TotalIsASum ==
    ASSUME NEW A, IsFiniteSet(A), NEW w
    PROVE  \E g : SumsOver(g, w, A) /\ Total(w, A) = g[A]
<1>1. SumsOver(CHOOSE g : SumsOver(g, w, A), w, A)
  BY SumsExist
<1>2. QED
  BY <1>1 DEF Total

\* It is what every such function gives.
THEOREM TotalIs ==
    ASSUME NEW A, IsFiniteSet(A), NEW w, NEW g, SumsOver(g, w, A)
    PROVE  g[A] = Total(w, A)
<1>1. PICK h : SumsOver(h, w, A) /\ Total(w, A) = h[A]
  BY TotalIsASum
<1> DEFINE B == A
<1>2. B \subseteq A /\ IsFiniteSet(B) /\ SumsOver(h, w, B) /\ \A x \in B : w[x] = w[x]
  BY <1>1
<1>3. B \in SUBSET B
  OBVIOUS
<1> HIDE DEF B
<1>4. g[B] = h[B]
  BY <1>2, <1>3, SumsAgree
<1>5. QED
  BY <1>1, <1>4 DEF B

\* The sum over nothing is none.
THEOREM TotalOfNothing == ASSUME NEW w PROVE Total(w, {}) = 0
<1>1. PICK g : SumsOver(g, w, {}) /\ Total(w, {}) = g[{}]
  BY TotalIsASum, FS_EmptySet
<1>2. QED
  BY <1>1, SumsUnfold

\* The sum of naturals is a natural.
THEOREM TotalNat ==
    ASSUME NEW A, IsFiniteSet(A), NEW w, \A y \in A : w[y] \in Nat
    PROVE  Total(w, A) \in Nat
<1>1. PICK g : SumsOver(g, w, A) /\ Total(w, A) = g[A]
  BY TotalIsASum
<1>2. QED
  BY <1>1, SumsNat

\* With one member more the sum has that one's weight more ...
THEOREM TotalAdd ==
    ASSUME NEW A, IsFiniteSet(A), NEW x, x \notin A,
           NEW w, w[x] \in Nat, \A y \in A : w[y] \in Nat
    PROVE  Total(w, A \cup {x}) = Total(w, A) + w[x]
<1> DEFINE B == A \cup {x}
<1>1. IsFiniteSet(B) /\ A \in SUBSET B /\ x \in B \ A /\ \A y \in B : w[y] \in Nat
  BY FS_AddElement
<1> HIDE DEF B
<1>2. PICK g : SumsOver(g, w, B) /\ Total(w, B) = g[B]
  BY <1>1, TotalIsASum
<1>3. PICK h : SumsOver(h, w, A) /\ Total(w, A) = h[A]
  BY TotalIsASum
<1>4. \A s \in SUBSET A : g[s] = h[s]
  BY <1>1, <1>2, <1>3, SumsAgree
<1>5. g[A \cup {x}] = g[A] + w[x]
  BY <1>1, <1>2, SumsAdd
<1>6. g[A] = h[A]
  BY <1>4
<1>7. QED
  BY <1>2, <1>3, <1>5, <1>6 DEF B

\* ... and with one less.
THEOREM TotalRemove ==
    ASSUME NEW A, IsFiniteSet(A), NEW x \in A, NEW w, \A y \in A : w[y] \in Nat
    PROVE  Total(w, A) = Total(w, A \ {x}) + w[x]
<1> DEFINE B == A \ {x}
<1>1. IsFiniteSet(B)
  BY FS_Subset
<1>2. x \notin B /\ B \cup {x} = A /\ w[x] \in Nat /\ \A y \in B : w[y] \in Nat
  OBVIOUS
<1> HIDE DEF B
<1>3. Total(w, B \cup {x}) = Total(w, B) + w[x]
  BY <1>1, <1>2, TotalAdd
<1>4. QED
  BY <1>2, <1>3 DEF B

\* The sum over what a one-to-one function makes of the set.
THEOREM TotalMapped ==
    ASSUME NEW A, IsFiniteSet(A), NEW f, NEW w, NEW v, \A x \in A : w[x] \in Nat,
           \A x, y \in A : f[x] = f[y] => x = y,
           \A x \in A : v[f[x]] = w[x]
    PROVE  Total(v, {f[x] : x \in A}) = Total(w, A)
<1> DEFINE Im(s) == {f[x] : x \in s}
           F == {s \in SUBSET A : Total(v, Im(s)) # Total(w, s)}
<1>1. F \in SUBSET (SUBSET A)
  OBVIOUS
<1>2. SUFFICES ASSUME F # {} PROVE FALSE
  OBVIOUS
<1> HIDE DEF F
<1>3. PICK s \in F : \A u \in F : u \subseteq s => u = s
  BY <1>1, <1>2, MinimalMember
<1>4. s \in SUBSET A /\ Total(v, Im(s)) # Total(w, s)
  BY <1>3 DEF F
<1>5. s # {}
  <2>1. Im({}) = {}
    OBVIOUS
  <2>2. QED
    BY <1>4, <2>1, TotalOfNothing
<1>6. PICK x : x \in s
  BY <1>5
<1> DEFINE r == s \ {x}
<1>7. r \in SUBSET A /\ r # s /\ r \subseteq s /\ x \notin r /\ s = r \cup {x}
  BY <1>4, <1>6
<1>8. Total(v, Im(r)) = Total(w, r)
  BY <1>3, <1>7 DEF F
<1>9. IsFiniteSet(r) /\ IsFiniteSet(Im(r))
  <2>1. IsFiniteSet(r)
    BY <1>7, FS_Subset
  <2> DEFINE h == [y \in r |-> f[y]]
  <2>2. h \in Surjection(r, Im(r))
    BY DEF Surjection
  <2>3. QED
    BY <2>1, <2>2, FS_Surjection
<1>10. Im(s) = Im(r) \cup {f[x]} /\ f[x] \notin Im(r)
  BY <1>4, <1>6, <1>7
<1>11. w[x] \in Nat /\ \A y \in r : w[y] \in Nat
  BY <1>4, <1>6, <1>7
<1>12. v[f[x]] = w[x] /\ v[f[x]] \in Nat /\ \A y \in Im(r) : v[y] \in Nat
  BY <1>4, <1>6, <1>7, <1>11
<1> HIDE DEF r, Im
<1>13. Total(w, r \cup {x}) = Total(w, r) + w[x]
  BY <1>7, <1>9, <1>11, TotalAdd
<1>14. Total(v, Im(r) \cup {f[x]}) = Total(v, Im(r)) + v[f[x]]
  BY <1>9, <1>10, <1>12, TotalAdd
<1>15. QED
  BY <1>4, <1>7, <1>8, <1>10, <1>12, <1>13, <1>14

\* A finite set of naturals that is not empty has a least member.
THEOREM LeastMember ==
    ASSUME NEW A, IsFiniteSet(A), \A n \in A : n \in Nat, A # {}
    PROVE  \E m \in A : \A n \in A : m <= n
<1> DEFINE F == {s \in SUBSET A : s # {} /\ ~ \E m \in s : \A n \in s : m <= n}
<1>1. F \in SUBSET (SUBSET A)
  OBVIOUS
<1>2. SUFFICES ASSUME F # {} PROVE FALSE
  OBVIOUS
<1> HIDE DEF F
<1>3. PICK s \in F : \A u \in F : u \subseteq s => u = s
  BY <1>1, <1>2, MinimalMember
<1>4. s \in SUBSET A /\ s # {} /\ ~ \E m \in s : \A n \in s : m <= n
  BY <1>3 DEF F
<1>5. PICK x : x \in s
  BY <1>4
<1>6. \A n \in s : n \in Nat
  BY <1>4
<1>7. CASE s \ {x} = {}
  BY <1>4, <1>5, <1>6, <1>7
<1>8. CASE s \ {x} # {}
  <2>1. s \ {x} \in SUBSET A /\ s \ {x} # s /\ s \ {x} \subseteq s
    BY <1>4, <1>5
  <2>2. PICK m \in s \ {x} : \A n \in s \ {x} : m <= n
    BY <1>3, <1>8, <2>1 DEF F
  <2>3. CASE m <= x
    BY <1>4, <2>2, <2>3
  <2>4. CASE ~(m <= x)
    <3>1. \A n \in s : x <= n
      BY <1>5, <1>6, <2>2, <2>4
    <3>2. QED
      BY <1>4, <1>5, <3>1
  <2>5. QED
    BY <2>3, <2>4
<1>9. QED
  BY <1>7, <1>8

\* Induction up to a number: what holds at nothing and is handed on by each
\* step holds at every one of them.
THEOREM UpTo ==
    ASSUME NEW n \in Nat, NEW S, 0 \in S, \A k \in 1..n : k - 1 \in S => k \in S
    PROVE  \A k \in 0..n : k \in S
<1> DEFINE A == {k \in 0..n : k \notin S}
<1>1. SUFFICES ASSUME A # {} PROVE FALSE
  OBVIOUS
<1>2. IsFiniteSet(A) /\ \A k \in A : k \in Nat
  <2>1. IsFiniteSet(0..n) /\ A \subseteq 0..n
    BY FS_Interval
  <2>2. QED
    BY <2>1, FS_Subset
<1>3. PICK m \in A : \A k \in A : m <= k
  BY <1>1, <1>2, LeastMember
<1>4. m \in 1..n /\ m - 1 \notin A /\ m - 1 \in 0..n
  BY <1>3
<1>5. QED
  BY <1>3, <1>4

-----------------------------------------------------------------------------
\* A finite set is as large as a part of it and what that leaves.
THEOREM PartAndRest ==
    ASSUME NEW S, IsFiniteSet(S), NEW T \in SUBSET S
    PROVE  /\ IsFiniteSet(T) /\ IsFiniteSet(S \ T)
           /\ Cardinality(S) \in Nat /\ Cardinality(T) \in Nat /\ Cardinality(S \ T) \in Nat
           /\ Cardinality(S) = Cardinality(T) + Cardinality(S \ T)
<1> DEFINE R == S \ T
<1>1. R \in SUBSET S
  OBVIOUS
<1>2. T \cup R = S /\ T \cap R = {}
  OBVIOUS
<1> HIDE DEF R
<1>3. IsFiniteSet(T) /\ IsFiniteSet(R)
  BY <1>1, FS_Subset
<1>4. Cardinality(S) \in Nat /\ Cardinality(T) \in Nat /\ Cardinality(R) \in Nat
  BY <1>3, FS_CardinalityType
<1>5. Cardinality(T \cup R) = Cardinality(T) + Cardinality(R) - Cardinality(T \cap R)
  BY <1>3, FS_Union
<1>6. Cardinality(S) = Cardinality(T) + Cardinality(R) - 0
  BY <1>2, <1>5, FS_EmptySet
<1>7. Cardinality(S) = Cardinality(T) + Cardinality(R)
  BY <1>4, <1>6
<1>8. QED
  BY <1>3, <1>4, <1>7 DEF R

-----------------------------------------------------------------------------
\* One of finitely many things is greatest, and the first k of them by a
\* measure that tells them apart are k.
THEOREM GreatestMember ==
    ASSUME NEW A, IsFiniteSet(A), A # {}, NEW f, \A x \in A : f[x] \in Nat
    PROVE  \E m \in A : \A n \in A : f[n] <= f[m]
<1> DEFINE F == {s \in SUBSET A : s # {} /\ ~ \E m \in s : \A n \in s : f[n] <= f[m]}
<1>1. F \in SUBSET (SUBSET A)
  OBVIOUS
<1>2. SUFFICES ASSUME F # {} PROVE FALSE
  OBVIOUS
<1> HIDE DEF F
<1>3. PICK s \in F : \A u \in F : u \subseteq s => u = s
  BY <1>1, <1>2, MinimalMember
<1>4. s \in SUBSET A /\ s # {} /\ ~ \E m \in s : \A n \in s : f[n] <= f[m]
  BY <1>3 DEF F
<1>5. PICK x : x \in s
  BY <1>4
<1>6. \A n \in s : f[n] \in Nat
  BY <1>4
<1>7. CASE s \ {x} = {}
  BY <1>4, <1>5, <1>6, <1>7
<1>8. CASE s \ {x} # {}
  <2>1. s \ {x} \in SUBSET A /\ s \ {x} # s /\ s \ {x} \subseteq s
    BY <1>4, <1>5
  <2>2. PICK m \in s \ {x} : \A n \in s \ {x} : f[n] <= f[m]
    BY <1>3, <1>8, <2>1 DEF F
  <2>3. CASE f[x] <= f[m]
    BY <1>4, <2>2, <2>3
  <2>4. CASE ~(f[x] <= f[m])
    <3>1. \A n \in s : f[n] <= f[x]
      BY <1>5, <1>6, <2>2, <2>4
    <3>2. QED
      BY <1>4, <1>5, <3>1
  <2>5. QED
    BY <2>3, <2>4
<1>9. QED
  BY <1>7, <1>8

\* The definition of FiniteSetsExt's Max.
Highest(s) == CHOOSE x \in s : \A y \in s : x >= y

\* It is a member, and none is greater.
THEOREM HighestIsGreatest ==
    ASSUME NEW s, IsFiniteSet(s), s # {}, \A k \in s : k \in Nat
    PROVE  Highest(s) \in s /\ \A k \in s : k <= Highest(s)
<1> DEFINE id == [k \in s |-> k]
<1>1. \A k \in s : id[k] \in Nat
  OBVIOUS
<1> HIDE DEF id
<1>2. PICK m \in s : \A k \in s : id[k] <= id[m]
  BY <1>1, GreatestMember
<1>3. \A k \in s : m >= k
  BY <1>2 DEF id
<1>4. QED
  BY <1>3 DEF Highest

Below(f, A, a) == {b \in A : f[b] < f[a]}

FirstOf(f, A, k) == {a \in A : Cardinality(Below(f, A, a)) < k}

\* The first k of finitely many are k, when there are so many.
THEOREM FirstAreThatMany ==
    ASSUME NEW A, IsFiniteSet(A), NEW f, \A x \in A : f[x] \in Nat,
           \A x, y \in A : f[x] = f[y] => x = y,
           NEW k \in 0 .. Cardinality(A)
    PROVE  Cardinality(FirstOf(f, A, k)) = k
<1> DEFINE Counted(s) == \A n \in 0 .. Cardinality(s) : Cardinality(FirstOf(f, s, n)) = n
           F == {s \in SUBSET A : ~Counted(s)}
<1>1. F \in SUBSET (SUBSET A)
  OBVIOUS
<1>2. SUFFICES ASSUME F # {} PROVE FALSE
  OBVIOUS
<1> HIDE DEF F
<1>3. PICK s \in F : \A u \in F : u \subseteq s => u = s
  BY <1>1, <1>2, MinimalMember
<1>4. s \in SUBSET A /\ ~Counted(s)
  BY <1>3 DEF F
<1>5. PICK n \in 0 .. Cardinality(s) : Cardinality(FirstOf(f, s, n)) # n
  BY <1>4
<1>6. s # {}
  <2>1. SUFFICES ASSUME s = {} PROVE FALSE
    OBVIOUS
  <2>2. Cardinality(s) = 0 /\ FirstOf(f, s, n) = {}
    BY <2>1, FS_EmptySet DEF FirstOf
  <2>3. n = 0 /\ Cardinality(FirstOf(f, s, n)) = 0
    BY <2>1, <2>2
  <2>4. QED
    BY <1>5, <2>3
<1>7. IsFiniteSet(s) /\ \A x \in s : f[x] \in Nat
  BY <1>4, FS_Subset
<1>8. PICK m \in s : \A x \in s : f[x] <= f[m]
  BY <1>6, <1>7, GreatestMember
<1> DEFINE r == s \ {m}
<1>9. IsFiniteSet(r) /\ r \in SUBSET A /\ r # s /\ r \subseteq s
  BY <1>4, <1>7, FS_Subset
<1>10. Cardinality(s) = Cardinality(r) + 1 /\ Cardinality(r) \in Nat
  <2>1. s = r \cup {m} /\ m \notin r
    OBVIOUS
  <2> HIDE DEF r
  <2>2. QED
    BY <1>9, <2>1, FS_AddElement, FS_CardinalityType
<1>11. Counted(r)
  BY <1>3, <1>9 DEF F
<1>12. Below(f, s, m) = r
  BY <1>4, <1>7, <1>8 DEF Below
<1>13. \A a \in r : Below(f, s, a) = Below(f, r, a)
  BY <1>7, <1>8 DEF Below
<1>14. CASE n <= Cardinality(r)
  <2>1. FirstOf(f, s, n) = FirstOf(f, r, n)
    <3>1. ~(Cardinality(Below(f, s, m)) < n)
      BY <1>10, <1>12, <1>14
    <3>2. \A a \in r : Cardinality(Below(f, s, a)) = Cardinality(Below(f, r, a))
      BY <1>13
    <3>3. QED
      BY <3>1, <3>2 DEF FirstOf
  <2>2. n \in 0 .. Cardinality(r)
    BY <1>10, <1>14
  <2>3. QED
    BY <1>5, <1>11, <2>1, <2>2
<1>15. CASE n = Cardinality(s)
  <2>1. ASSUME NEW a \in s
        PROVE  Cardinality(Below(f, s, a)) < n
    <3> DEFINE B == Below(f, s, a)
    <3>1. B \subseteq s /\ a \notin B
      BY <1>7 DEF Below
    <3>2. B \subseteq s \ {a} /\ IsFiniteSet(s \ {a})
      BY <1>7, <3>1, FS_Subset
    <3> HIDE DEF B
    <3>3. Cardinality(B) <= Cardinality(s \ {a}) /\ IsFiniteSet(B)
      BY <3>2, FS_Subset
    <3>4. Cardinality(s) = Cardinality(s \ {a}) + 1
      <4> DEFINE q == s \ {a}
      <4>1. s = q \cup {a} /\ a \notin q
        OBVIOUS
      <4>2. IsFiniteSet(q)
        BY <3>2
      <4> HIDE DEF q
      <4>3. Cardinality(s) = Cardinality(q) + 1
        BY <4>1, <4>2, FS_AddElement
      <4>4. QED
        BY <4>3 DEF q
    <3>5. Cardinality(B) \in Nat /\ Cardinality(s \ {a}) \in Nat
      BY <3>2, <3>3, FS_CardinalityType
    <3>6. QED
      BY <1>15, <3>3, <3>4, <3>5 DEF B
  <2>2. FirstOf(f, s, n) = s
    BY <2>1 DEF FirstOf
  <2>3. QED
    BY <1>5, <1>15, <2>2
<1>16. QED
  BY <1>10, <1>14, <1>15

-----------------------------------------------------------------------------
\* The powers of two count the sets of numbers up to their exponent.
THEOREM PowersOfTwo ==
    ASSUME NEW n \in Nat
    PROVE  /\ 2^0 = 1
           /\ 2^n \in Nat \ {0}
           /\ 2^(n + 1) = 2 * 2^n
<1> DEFINE A == 1..n
           A2 == 1..(n + 1)
           Old == SUBSET A
           New == (SUBSET A2) \ Old
           f == [s \in Old |-> s \cup {n + 1}]
<1>1. /\ IsFiniteSet(A) /\ Cardinality(A) = n
      /\ IsFiniteSet(A2) /\ Cardinality(A2) = n + 1
  BY FS_Interval
<1>2. /\ IsFiniteSet(Old) /\ Cardinality(Old) = 2^n
      /\ IsFiniteSet(SUBSET A2) /\ Cardinality(SUBSET A2) = 2^(n + 1)
  <2> HIDE DEF A, A2
  <2>1. QED
    BY <1>1, FS_SUBSET
<1>3. 2^0 = 1
  <2>1. IsFiniteSet({}) /\ Cardinality({}) = 0
    BY FS_EmptySet
  <2>2. Cardinality(SUBSET {}) = 2^0
    BY <2>1, FS_SUBSET
  <2>3. SUBSET {} = {{}}
    OBVIOUS
  <2>4. QED
    BY <2>2, <2>3, FS_Singleton
<1>4. A2 = A \cup {n + 1} /\ n + 1 \notin A /\ Old \in SUBSET (SUBSET A2)
  OBVIOUS
<1>5. f \in Bijection(Old, New)
  <2>1. \A s \in Old : s \cup {n + 1} \in New
    <3> HIDE DEF A, A2
    <3>1. QED
      BY <1>4
  <2>2. \A s, u \in Old : s \cup {n + 1} = u \cup {n + 1} => s = u
    <3> HIDE DEF A, A2
    <3>1. QED
      BY <1>4
  <2>3. \A u \in New : \E s \in Old : u = s \cup {n + 1}
    <3>1. SUFFICES ASSUME NEW u \in New PROVE \E s \in Old : u = s \cup {n + 1}
      OBVIOUS
    <3> HIDE DEF A, A2
    <3>2. u \ {n + 1} \in Old /\ n + 1 \in u
      BY <1>4
    <3>3. u = (u \ {n + 1}) \cup {n + 1}
      BY <3>2
    <3>4. QED
      BY <3>2, <3>3
  <2> HIDE DEF Old, New
  <2>4. f \in [Old -> New]
    BY <2>1
  <2>5. \A s \in Old : f[s] = s \cup {n + 1}
    OBVIOUS
  <2> HIDE DEF f
  <2>6. IsInjective(f)
    BY <2>2, <2>4, <2>5 DEF IsInjective
  <2>7. \A u \in New : \E s \in Old : f[s] = u
    BY <2>3, <2>5
  <2>8. QED
    BY <2>4, <2>6, <2>7 DEF Bijection, Injection, Surjection
<1> HIDE DEF f
<1>6. Cardinality(New) = Cardinality(Old)
  <2> HIDE DEF Old, New
  <2>1. ExistsBijection(Old, New)
    BY <1>5 DEF ExistsBijection
  <2>2. QED
    BY <1>2, <2>1, FS_Bijection
<1>7. Cardinality(SUBSET A2) = Cardinality(Old) + Cardinality(New) /\ Cardinality(Old) \in Nat
  BY <1>2, <1>4, PartAndRest
<1>8. 2^n # 0
  <2>1. {} \in Old
    OBVIOUS
  <2> HIDE DEF Old
  <2>2. QED
    BY <1>2, <2>1, FS_EmptySet
<1>9. QED
  BY <1>2, <1>3, <1>6, <1>7, <1>8

\* So exponents add up.
THEOREM PowersMultiply ==
    ASSUME NEW a \in Nat, NEW b \in Nat
    PROVE  2^(a + b) = 2^a * 2^b
<1> DEFINE S == { k \in 0..b : 2^(a + k) = 2^a * 2^k }
<1>1. 2^a \in Nat /\ 2^0 = 1
  BY PowersOfTwo
<1>2. 0 \in S
  <2>1. 2^(a + 0) = 2^a * 2^0
    BY <1>1
  <2>2. QED
    BY <2>1
<1>3. ASSUME NEW k \in 1..b, k - 1 \in S PROVE k \in S
  <2> DEFINE j == k - 1
  <2>1. j \in Nat /\ k = j + 1 /\ a + j \in Nat /\ a + k = (a + j) + 1
    OBVIOUS
  <2>2. 2^(a + j) = 2^a * 2^j
    BY <1>3
  <2> HIDE DEF j
  <2>3. 2^((a + j) + 1) = 2 * 2^(a + j) /\ 2^(j + 1) = 2 * 2^j /\ 2^j \in Nat
    BY <2>1, PowersOfTwo
  <2>4. 2 * (2^a * 2^j) = 2^a * (2 * 2^j)
    BY <1>1, <2>3
  <2>5. 2^(a + k) = 2^a * 2^k
    BY <2>1, <2>2, <2>3, <2>4
  <2>6. QED
    BY <2>5
<1> HIDE DEF S
<1>4. b \in S
  BY <1>2, <1>3, UpTo
<1>5. QED
  BY <1>4 DEF S
=============================================================================
