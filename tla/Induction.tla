------------------------------ MODULE Induction ------------------------------
(***************************************************************************)
(* Facts the proofs about the model's recursive definitions share.  The    *)
(* library's induction rules take an operator; here induction is over sets *)
(* and rests on NatLessThanWellFounded and WFMin alone.  On it are built   *)
(* the recursive functions of the models (split of federation.py, the      *)
(* doubled backoff of github_client.py) and the sum over a set of hosts.   *)
(***************************************************************************)
EXTENDS Integers, FiniteSets, FiniteSetsExt, FiniteSetTheorems,
        WellFoundedInduction, TLAPS

(* Every non-empty set of natural numbers has a least element.             *)
LEMMA LeastElement ==
  ASSUME NEW T \in SUBSET Nat, T # {}
  PROVE  \E m \in T : \A k \in T : m <= k
<1> DEFINE R == OpToRel(<, Nat)
<1>1. IsWellFoundedOn(R, Nat)
  BY NatLessThanWellFounded
<1>2. \E m \in T : \A k \in T : ~ (<<k, m>> \in R)
  <2> HIDE DEF R
  <2> QED BY <1>1, WFMin
<1>3. PICK m \in T : \A k \in T : ~ (<<k, m>> \in R)
  BY <1>2
<1>4. ASSUME NEW k \in T PROVE m <= k
  <2>1. ~ (<<k, m>> \in R)
    BY <1>3
  <2>2. ~ (k < m)
    BY <2>1 DEF OpToRel
  <2> QED BY <2>2
<1> QED BY <1>4

(* A set with 0 in it, and n + 1 with every n, has every natural number in *)
(* it: the one induction rule behind all that follows.                     *)
LEMMA SetInduction ==
  ASSUME NEW F, 0 \in F, \A n \in Nat : n \in F => n + 1 \in F
  PROVE  Nat \subseteq F
<1> SUFFICES ASSUME Nat \ F # {} PROVE FALSE
  OBVIOUS
<1>1. PICK m \in Nat \ F : \A k \in Nat \ F : m <= k
  BY LeastElement
<1>2. m - 1 \in Nat /\ ~ (m <= m - 1)
  BY <1>1
<1>3. m - 1 \in F
  BY <1>1, <1>2
<1>4. m \in F
  BY <1>2, <1>3
<1> QED BY <1>1, <1>4

-----------------------------------------------------------------------------
(* Recursive functions.                                                    *)

\* f is base, then step of what it was before, n times over.
Steps(base, step, n, f) ==
  f = [k \in 0..n |-> IF k = 0 THEN base ELSE step[f[k - 1]]]

(* A function defined by repeating a step n times exists and keeps the type*)
(* its start and its step have; so a split deals all its jobs.             *)
LEMMA IterationExists ==
  ASSUME NEW V, NEW base \in V, NEW step \in [V -> V], NEW n \in Nat
  PROVE  \E f \in [0..n -> V] : Steps(base, step, n, f)
<1> DEFINE F == {m \in Nat : \E f \in [0..m -> V] : Steps(base, step, m, f)}
<1>1. 0 \in F
  <2>1. [k \in 0..0 |-> base] \in [0..0 -> V]
    OBVIOUS
  <2>2. Steps(base, step, 0, [k \in 0..0 |-> base])
    BY DEF Steps
  <2> QED BY <2>1, <2>2
<1>2. ASSUME NEW m \in Nat, m \in F PROVE m + 1 \in F
  <2>1. PICK f \in [0..m -> V] : Steps(base, step, m, f)
    BY <1>2
  <2> DEFINE g == [k \in 0..(m + 1) |-> IF k <= m THEN f[k] ELSE step[f[m]]]
  <2>2. g \in [0..(m + 1) -> V]
    OBVIOUS
  <2>3. ASSUME NEW k \in 0..(m + 1)
        PROVE  g[k] = IF k = 0 THEN base ELSE step[g[k - 1]]
    <3>1. \A i \in 0..m : f[i] = IF i = 0 THEN base ELSE step[f[i - 1]]
      BY <2>1 DEF Steps
    <3>2. CASE k = 0
      BY <3>1, <3>2
    <3>3. CASE k # 0 /\ k <= m
      <4>1. k - 1 \in 0..m /\ k \in 0..m
        BY <3>3
      <4> QED BY <4>1, <3>1, <3>3
    <3>4. CASE k = m + 1
      BY <3>4
    <3> QED BY <3>2, <3>3, <3>4
  <2>4. Steps(base, step, m + 1, g)
    <3>1. g = [k \in 0..(m + 1) |-> g[k]]
      OBVIOUS
    <3> HIDE DEF g
    <3> QED BY <2>3, <3>1 DEF Steps
  <2> HIDE DEF g
  <2> QED BY <2>2, <2>4
<1> HIDE DEF F
<1>3. n \in F
  BY <1>1, <1>2, SetInduction
<1> QED BY <1>3 DEF F

(* There is only one such function; so two hosts that deal alike deal the  *)
(* same.                                                                   *)
LEMMA IterationUnique ==
  ASSUME NEW base, NEW step, NEW n \in Nat,
         NEW f, Steps(base, step, n, f), NEW g, Steps(base, step, n, g)
  PROVE  f = g
<1>1. /\ \A k \in 0..n : f[k] = IF k = 0 THEN base ELSE step[f[k - 1]]
      /\ \A k \in 0..n : g[k] = IF k = 0 THEN base ELSE step[g[k - 1]]
  BY DEF Steps
<1> DEFINE F == {m \in Nat : m <= n => f[m] = g[m]}
<1>2. 0 \in F
  BY <1>1
<1>3. ASSUME NEW m \in Nat, m \in F PROVE m + 1 \in F
  <2>1. CASE m + 1 <= n
    <3>1. m + 1 \in 0..n /\ m + 1 # 0 /\ (m + 1) - 1 = m /\ f[m] = g[m]
      BY <1>3, <2>1
    <3>2. f[m + 1] = step[f[m]] /\ g[m + 1] = step[g[m]]
      BY <1>1, <3>1
    <3> QED BY <3>1, <3>2
  <2> QED BY <2>1
<1> HIDE DEF F
<1>4. Nat \subseteq F
  BY <1>2, <1>3, SetInduction
<1>5. \A k \in 0..n : f[k] = g[k]
  BY <1>4 DEF F
<1> QED BY <1>5 DEF Steps

(* Repeating a step without end defines a function on the natural numbers, *)
(* such as the powers of two of the backoff.                               *)
LEMMA RecursionExists ==
  ASSUME NEW V, NEW base \in V, NEW step \in [V -> V]
  PROVE  \E f \in [Nat -> V] : \A k \in Nat : f[k] = IF k = 0 THEN base ELSE step[f[k - 1]]
<1> DEFINE g(n) == CHOOSE f \in [0..n -> V] : Steps(base, step, n, f)
           f == [n \in Nat |-> g(n)[n]]
<1>1. ASSUME NEW n \in Nat PROVE g(n) \in [0..n -> V] /\ Steps(base, step, n, g(n))
  <2> HIDE DEF Steps
  <2> QED BY IterationExists
<1> HIDE DEF g
<1>2. ASSUME NEW n \in Nat
      PROVE  \A k \in 0..n : g(n)[k] = IF k = 0 THEN base ELSE step[g(n)[k - 1]]
  BY <1>1 DEF Steps
<1>3. ASSUME NEW n \in Nat PROVE g(n + 1)[n] = g(n)[n]
  <2> DEFINE cut == [k \in 0..n |-> g(n + 1)[k]]
  <2>1. \A k \in 0..n : k \in 0..(n + 1)
    OBVIOUS
  <2>2. ASSUME NEW k \in 0..n PROVE cut[k] = IF k = 0 THEN base ELSE step[cut[k - 1]]
    BY <1>2, <2>1
  <2>3. cut = [k \in 0..n |-> cut[k]]
    OBVIOUS
  <2> HIDE DEF cut
  <2>4. Steps(base, step, n, cut)
    BY <2>2, <2>3 DEF Steps
  <2>5. cut = g(n)
    BY <1>1, <2>4, IterationUnique
  <2> QED BY <2>5 DEF cut
<1>4. f \in [Nat -> V]
  BY <1>1
<1>5. ASSUME NEW k \in Nat PROVE f[k] = IF k = 0 THEN base ELSE step[f[k - 1]]
  <2>1. CASE k = 0
    BY <1>2, <2>1
  <2>2. CASE k # 0
    <3>1. k - 1 \in Nat /\ (k - 1) + 1 = k
      BY <2>2
    <3>2. f[k] = step[g(k)[k - 1]]
      BY <1>2, <2>2
    <3>3. g(k)[k - 1] = f[k - 1]
      BY <1>3, <3>1
    <3> QED BY <2>2, <3>2, <3>3
  <2> QED BY <2>1, <2>2
<1> HIDE DEF f
<1> QED BY <1>4, <1>5

-----------------------------------------------------------------------------
(* Finite sets and sums over them.                                         *)

\* The element a fold takes off s next.
Pick(s) == CHOOSE x \in s : TRUE

(* Induction over the subsets of a finite set, one picked element at a     *)
(* time.                                                                   *)
LEMMA PeelInduction ==
  ASSUME NEW S, IsFiniteSet(S), NEW F, {} \in F,
         \A s \in SUBSET S : s # {} /\ s \ {Pick(s)} \in F => s \in F
  PROVE  SUBSET S \subseteq F
<1> DEFINE G == {n \in Nat : \A s \in SUBSET S : Cardinality(s) = n => s \in F}
<1>1. \A s \in SUBSET S : IsFiniteSet(s) /\ Cardinality(s) \in Nat
  BY FS_Subset, FS_CardinalityType
<1>2. 0 \in G
  BY <1>1, FS_EmptySet
<1>3. ASSUME NEW n \in Nat, n \in G PROVE n + 1 \in G
  <2> SUFFICES ASSUME NEW s \in SUBSET S, Cardinality(s) = n + 1 PROVE s \in F
    OBVIOUS
  <2>1. s # {}
    BY FS_EmptySet
  <2>2. Pick(s) \in s
    BY <2>1 DEF Pick
  <2>3. Cardinality(s \ {Pick(s)}) = n
    BY <1>1, <2>2, FS_RemoveElement
  <2>4. s \ {Pick(s)} \in F
    BY <1>3, <2>3
  <2> QED BY <2>1, <2>4
<1> HIDE DEF G
<1>4. Nat \subseteq G
  BY <1>2, <1>3, SetInduction
<1> QED BY <1>1, <1>4 DEF G

\* What SumFunctionOnSet unfolds to.
SumOf(f, s, it) == IF s = {} THEN 0 ELSE f[Pick(s)] + it[s \ {Pick(s)}]

Summed(f, S, it) == it = [s \in SUBSET S |-> SumOf(f, s, it)]

(* The sum over every subset of a finite set is defined.                   *)
LEMMA SummedExists ==
  ASSUME NEW S, IsFiniteSet(S), NEW f, \A x \in S : f[x] \in Nat
  PROVE  \E it \in [SUBSET S -> Nat] : Summed(f, S, it)
<1> DEFINE Upto(n) == {s \in SUBSET S : Cardinality(s) <= n}
           Good(n, it) == \A s \in Upto(n) : it[s] = SumOf(f, s, it)
           G == {n \in Nat : \E it \in [Upto(n) -> Nat] : Good(n, it)}
<1>1. \A s \in SUBSET S : IsFiniteSet(s) /\ Cardinality(s) \in Nat
  BY FS_Subset, FS_CardinalityType
<1>2. \A s \in SUBSET S : s # {} =>
        /\ Pick(s) \in s /\ s \ {Pick(s)} \in SUBSET S
        /\ Cardinality(s \ {Pick(s)}) = Cardinality(s) - 1
  BY <1>1, FS_RemoveElement DEF Pick
<1>3. 0 \in G
  <2> DEFINE it == [s \in Upto(0) |-> 0]
  <2>1. \A s \in Upto(0) : s = {}
    BY <1>1, FS_EmptySet
  <2>2. it \in [Upto(0) -> Nat] /\ Good(0, it)
    BY <2>1 DEF SumOf
  <2> QED BY <2>2
<1>4. ASSUME NEW n \in Nat, n \in G PROVE n + 1 \in G
  <2>1. PICK it \in [Upto(n) -> Nat] : Good(n, it)
    BY <1>4
  <2> DEFINE next == [s \in Upto(n + 1) |-> IF s \in Upto(n) THEN it[s] ELSE SumOf(f, s, it)]
  <2>2. ASSUME NEW s \in Upto(n + 1), s # {}
        PROVE  Pick(s) \in S /\ s \ {Pick(s)} \in Upto(n) /\ s \ {Pick(s)} \in Upto(n + 1)
    BY <1>1, <1>2, <2>2
  <2>3. \A s \in Upto(n + 1) : SumOf(f, s, it) \in Nat /\ SumOf(f, s, next) = SumOf(f, s, it)
    BY <2>2 DEF SumOf
  <2>4. next \in [Upto(n + 1) -> Nat]
    BY <2>3
  <2>5. Good(n + 1, next)
    <3> SUFFICES ASSUME NEW s \in Upto(n + 1) PROVE next[s] = SumOf(f, s, next)
      OBVIOUS
    <3>1. CASE s \in Upto(n)
      BY <2>1, <2>3, <3>1
    <3>2. CASE s \notin Upto(n)
      BY <2>3, <3>2
    <3> QED BY <3>1, <3>2
  <2> HIDE DEF Upto, Good, next
  <2>6. \E jt \in [Upto(n + 1) -> Nat] : Good(n + 1, jt)
    BY <2>4, <2>5
  <2> QED BY <2>6
<1>5. Cardinality(S) \in G
  <2> HIDE DEF G
  <2> QED BY <1>1, <1>3, <1>4, SetInduction
<1>6. Upto(Cardinality(S)) = SUBSET S
  BY <1>1, FS_Subset
<1>7. PICK it \in [SUBSET S -> Nat] : \A s \in SUBSET S : it[s] = SumOf(f, s, it)
  BY <1>5, <1>6
<1> QED BY <1>7 DEF Summed

(* it adds up f over every subset of S, one picked element at a time.      *)
Unfolds(f, S, it) ==
  /\ it[{}] = 0
  /\ \A s \in SUBSET S :
       s # {} => /\ Pick(s) \in s /\ f[Pick(s)] \in Nat /\ it[s \ {Pick(s)}] \in Nat
                 /\ it[s] = f[Pick(s)] + it[s \ {Pick(s)}]

(* SumFunctionOnSet, which adds up the shares and the room of the hosts, is*)
(* such a sum.                                                             *)
LEMMA SumUnfolds ==
  ASSUME NEW S, IsFiniteSet(S), NEW f, \A x \in S : f[x] \in Nat
  PROVE  \E it \in [SUBSET S -> Nat] : Unfolds(f, S, it) /\ SumFunctionOnSet(f, S) = it[S]
<1>1. PICK w \in [SUBSET S -> Nat] : Summed(f, S, w)
  BY SummedExists
<1>2. PICK it : Summed(f, S, it) /\ SumFunctionOnSet(f, S) = it[S]
  BY <1>1 DEF SumFunctionOnSet, FoldFunctionOnSet, MapThenFoldSet, Summed, SumOf, Pick
<1>3. \A s \in SUBSET S : it[s] = SumOf(f, s, it)
  BY <1>2 DEF Summed
<1>4. it[{}] = 0
  <2>1. {} \in SUBSET S
    OBVIOUS
  <2> QED BY <1>3, <2>1 DEF SumOf
<1>5. ASSUME NEW s \in SUBSET S, s # {}
      PROVE  Pick(s) \in s /\ it[s] = f[Pick(s)] + it[s \ {Pick(s)}]
  <2>1. Pick(s) \in s
    BY <1>5 DEF Pick
  <2>2. it[s] = SumOf(f, s, it)
    BY <1>3
  <2> QED BY <1>5, <2>1, <2>2 DEF SumOf
<1> DEFINE F == {s \in SUBSET S : it[s] \in Nat}
<1>7. {} \in F
  BY <1>4
<1>8. ASSUME NEW s \in SUBSET S, s # {}, s \ {Pick(s)} \in F PROVE s \in F
  <2>1. it[s] = f[Pick(s)] + it[s \ {Pick(s)}] /\ Pick(s) \in S
    BY <1>5, <1>8
  <2>2. it[s \ {Pick(s)}] \in Nat /\ f[Pick(s)] \in Nat
    BY <1>8, <2>1
  <2> QED BY <2>1, <2>2
<1> HIDE DEF F
<1>9. SUBSET S \subseteq F
  BY <1>7, <1>8, PeelInduction
<1>10. it \in [SUBSET S -> Nat]
  BY <1>2, <1>9 DEF Summed, F
<1>11. Unfolds(f, S, it)
  <2> SUFFICES ASSUME NEW s \in SUBSET S, s # {}
               PROVE  /\ Pick(s) \in s /\ f[Pick(s)] \in Nat /\ it[s \ {Pick(s)}] \in Nat
                      /\ it[s] = f[Pick(s)] + it[s \ {Pick(s)}]
    BY <1>4 DEF Unfolds
  <2>1. Pick(s) \in s /\ it[s] = f[Pick(s)] + it[s \ {Pick(s)}]
    BY <1>5
  <2>2. Pick(s) \in S /\ s \ {Pick(s)} \in SUBSET S
    BY <2>1
  <2> QED BY <1>10, <2>1, <2>2
<1> QED BY <1>2, <1>10, <1>11

(* A sum of natural numbers is one.                                        *)
LEMMA SumNat ==
  ASSUME NEW S, IsFiniteSet(S), NEW f, \A x \in S : f[x] \in Nat
  PROVE  SumFunctionOnSet(f, S) \in Nat
<1>1. PICK it \in [SUBSET S -> Nat] : Unfolds(f, S, it) /\ SumFunctionOnSet(f, S) = it[S]
  BY SumUnfolds
<1> QED BY <1>1

(* A sum of zeros is zero: nothing is dealt before the first job.          *)
LEMMA SumZero ==
  ASSUME NEW S, IsFiniteSet(S), NEW f, \A x \in S : f[x] = 0
  PROVE  SumFunctionOnSet(f, S) = 0
<1>0. \A x \in S : f[x] \in Nat
  OBVIOUS
<1>1. PICK it \in [SUBSET S -> Nat] : Unfolds(f, S, it) /\ SumFunctionOnSet(f, S) = it[S]
  BY <1>0, SumUnfolds
<1> DEFINE F == {s \in SUBSET S : it[s] = 0}
<1>2. {} \in F
  BY <1>1 DEF Unfolds
<1>3. ASSUME NEW s \in SUBSET S, s # {}, s \ {Pick(s)} \in F PROVE s \in F
  <2>1. Pick(s) \in S /\ it[s] = f[Pick(s)] + it[s \ {Pick(s)}]
    BY <1>0, <1>1, <1>3 DEF Unfolds
  <2> QED BY <1>3, <2>1
<1> HIDE DEF F
<1>4. SUBSET S \subseteq F
  BY <1>2, <1>3, PeelInduction
<1> QED BY <1>1, <1>4 DEF F

(* A sum grows with its terms: what is given stays within the room.        *)
LEMMA SumMonotone ==
  ASSUME NEW S, IsFiniteSet(S),
         NEW f, \A x \in S : f[x] \in Nat,
         NEW g, \A x \in S : g[x] \in Nat,
         \A x \in S : f[x] <= g[x]
  PROVE  SumFunctionOnSet(f, S) <= SumFunctionOnSet(g, S)
<1>1. PICK it \in [SUBSET S -> Nat] : Unfolds(f, S, it) /\ SumFunctionOnSet(f, S) = it[S]
  BY SumUnfolds
<1>2. PICK jt \in [SUBSET S -> Nat] : Unfolds(g, S, jt) /\ SumFunctionOnSet(g, S) = jt[S]
  BY SumUnfolds
<1> DEFINE F == {s \in SUBSET S : it[s] <= jt[s]}
<1>3. {} \in F
  BY <1>1, <1>2 DEF Unfolds
<1>4. ASSUME NEW s \in SUBSET S, s # {}, s \ {Pick(s)} \in F PROVE s \in F
  <2> DEFINE x == Pick(s)
             rest == s \ {x}
  <2>1. /\ x \in S /\ f[x] \in Nat /\ it[rest] \in Nat
        /\ it[s] = f[x] + it[rest]
    BY <1>1, <1>4 DEF Unfolds
  <2>2. g[x] \in Nat /\ jt[rest] \in Nat /\ jt[s] = g[x] + jt[rest]
    BY <1>2, <1>4 DEF Unfolds
  <2>3. it[rest] <= jt[rest] /\ f[x] <= g[x]
    BY <1>4, <2>1
  <2> HIDE DEF x, rest
  <2>4. it[s] <= jt[s]
    BY <2>1, <2>2, <2>3
  <2> QED BY <2>4
<1> HIDE DEF F
<1>5. SUBSET S \subseteq F
  BY <1>3, <1>4, PeelInduction
<1> QED BY <1>1, <1>2, <1>5 DEF F

(* Raising one term by one raises the sum by one: every job dealt counts   *)
(* once.                                                                   *)
LEMMA SumIncremented ==
  ASSUME NEW S, IsFiniteSet(S),
         NEW f, \A x \in S : f[x] \in Nat,
         NEW g, \A x \in S : g[x] \in Nat,
         NEW y \in S, g[y] = f[y] + 1, \A x \in S : x # y => g[x] = f[x]
  PROVE  SumFunctionOnSet(g, S) = SumFunctionOnSet(f, S) + 1
<1>1. PICK it \in [SUBSET S -> Nat] : Unfolds(f, S, it) /\ SumFunctionOnSet(f, S) = it[S]
  BY SumUnfolds
<1>2. PICK jt \in [SUBSET S -> Nat] : Unfolds(g, S, jt) /\ SumFunctionOnSet(g, S) = jt[S]
  BY SumUnfolds
<1> DEFINE F == {s \in SUBSET S : jt[s] = IF y \in s THEN it[s] + 1 ELSE it[s]}
<1>3. {} \in F
  BY <1>1, <1>2 DEF Unfolds
<1>4. ASSUME NEW s \in SUBSET S, s # {}, s \ {Pick(s)} \in F PROVE s \in F
  <2> DEFINE x == Pick(s)
             rest == s \ {x}
  <2>1. /\ x \in s /\ x \in S /\ f[x] \in Nat /\ it[rest] \in Nat
        /\ it[s] = f[x] + it[rest]
    BY <1>1, <1>4 DEF Unfolds
  <2>2. jt[s] = g[x] + jt[rest]
    BY <1>2, <1>4 DEF Unfolds
  <2>3. jt[rest] = IF y \in rest THEN it[rest] + 1 ELSE it[rest]
    BY <1>4
  <2>4. (y \in rest <=> y \in s /\ y # x)
    OBVIOUS
  <2> HIDE DEF x, rest
  <2>5. CASE y = x
    BY <2>1, <2>2, <2>3, <2>4, <2>5
  <2>6. CASE y # x
    <3>1. g[x] = f[x]
      BY <2>1, <2>6
    <3> QED BY <2>1, <2>2, <2>3, <2>4, <2>6, <3>1
  <2> QED BY <2>5, <2>6
<1> HIDE DEF F
<1>5. SUBSET S \subseteq F
  BY <1>3, <1>4, PeelInduction
<1> QED BY <1>1, <1>2, <1>5 DEF F

(* A total and transitive order on a finite set has a greatest element:    *)
(* somebody is always next to be given a job.                              *)
LEMMA GreatestExists ==
  ASSUME NEW S, IsFiniteSet(S), S # {}, NEW R,
         \A x, y \in S : <<x, y>> \in R \/ <<y, x>> \in R,
         \A x, y, z \in S : <<x, y>> \in R /\ <<y, z>> \in R => <<x, z>> \in R
  PROVE  \E x \in S : \A y \in S : <<x, y>> \in R
<1> DEFINE F == {s \in SUBSET S : s # {} => \E x \in s : \A y \in s : <<x, y>> \in R}
<1>1. {} \in F
  OBVIOUS
<1>2. ASSUME NEW s \in SUBSET S, s # {}, s \ {Pick(s)} \in F PROVE s \in F
  <2> DEFINE p == Pick(s)
  <2>1. p \in s
    BY <1>2 DEF Pick
  <2> HIDE DEF p
  <2>2. CASE s \ {p} = {}
    BY <2>1, <2>2
  <2>3. CASE s \ {p} # {}
    <3>1. PICK x \in s \ {p} : \A y \in s \ {p} : <<x, y>> \in R
      BY <1>2, <2>3 DEF p
    <3>2. CASE <<x, p>> \in R
      BY <3>1, <3>2
    <3>3. CASE <<p, x>> \in R
      BY <2>1, <3>1, <3>3
    <3> QED BY <2>1, <3>2, <3>3
  <2> QED BY <2>2, <2>3
<1> HIDE DEF F
<1>3. SUBSET S \subseteq F
  BY <1>1, <1>2, PeelInduction
<1> QED BY <1>3 DEF F
=============================================================================
