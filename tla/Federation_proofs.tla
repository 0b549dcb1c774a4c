--------------------------- MODULE Federation_proofs ---------------------------
(* Theorems about Federation, for any finite set of hosts and of jobs.     *)
EXTENDS Federation, Induction

(* Comparing products with one positive factor compares the others.        *)
LEMMA Scaled ==
  ASSUME NEW x \in Nat, NEW y \in Nat, NEW z \in Nat \ {0}
  PROVE  (x <= y <=> x * z <= y * z) /\ (x < y <=> x * z < y * z)
OBVIOUS

(* A greater factor makes no smaller product.                              *)
LEMMA Scaling ==
  ASSUME NEW x \in Nat, NEW y \in Nat, NEW z \in Nat, y <= z
  PROVE  x * (y + 1) <= x * (z + 1)
OBVIOUS

(* Comparing the free cores per job of two hosts by cross products, as Best*)
(* does in place of a quotient, is transitive.                             *)
LEMMA CrossTransitive ==
  ASSUME NEW a1 \in Nat \ {0}, NEW b1 \in Nat \ {0},
         NEW a2 \in Nat \ {0}, NEW b2 \in Nat \ {0},
         NEW a3 \in Nat \ {0}, NEW b3 \in Nat \ {0},
         a1 * b2 >= a2 * b1, a2 * b3 >= a3 * b2
  PROVE  /\ a1 * b3 >= a3 * b1
         /\ a1 * b2 > a2 * b1 \/ a2 * b3 > a3 * b2 => a1 * b3 > a3 * b1
<1>1. /\ a1 * b2 \in Nat /\ a2 * b1 \in Nat /\ a2 * b3 \in Nat /\ a3 * b2 \in Nat
      /\ a1 * b3 \in Nat /\ a3 * b1 \in Nat
  OBVIOUS
<1>2. (a2 * b1) * b3 <= (a1 * b2) * b3 /\ (a3 * b2) * b1 <= (a2 * b3) * b1
  BY <1>1, Scaled
<1>3. /\ a1 * b2 > a2 * b1 => (a2 * b1) * b3 < (a1 * b2) * b3
      /\ a2 * b3 > a3 * b2 => (a3 * b2) * b1 < (a2 * b3) * b1
  BY <1>1, Scaled
<1>4. (a2 * b1) * b3 = (a2 * b3) * b1 /\ (a1 * b2) * b3 = (a1 * b3) * b2 /\ (a3 * b2) * b1 = (a3 * b1) * b2
  OBVIOUS
<1> DEFINE p == (a3 * b1) * b2
           q == (a1 * b3) * b2
           r == (a2 * b3) * b1
<1>5. p \in Nat /\ q \in Nat /\ r \in Nat /\ p <= r /\ r <= q
  BY <1>1, <1>2, <1>4
<1>6. a1 * b2 > a2 * b1 \/ a2 * b3 > a3 * b2 => p < r \/ r < q
  BY <1>3, <1>4
<1>7. p <= q /\ (a1 * b2 > a2 * b1 \/ a2 * b3 > a3 * b2 => p < q)
  <2> HIDE DEF p, q, r
  <2> QED BY <1>5, <1>6
<1> QED BY <1>1, <1>7, Scaled

(* Whom the next job goes to.                                              *)
Beats(given, g, i) ==
  LET mine == (Free[g] + 1) * (given[i] + 1)
      other == (Free[i] + 1) * (given[g] + 1)
  IN  mine > other \/ (mine = other /\ Rank[g] <= Rank[i])

(* split always finds a host to give the next job to, among those with     *)
(* room: its comparison, names breaking the ties, has a greatest host.     *)
LEMMA BestIsOpen ==
  ASSUME NEW h \in Hosts, NEW open \in SUBSET Hosts, open # {},
         NEW given, \A g \in open : given[g] \in Nat
  PROVE  /\ Best(h, open, given) \in open
         /\ \A i \in open : Beats(given, Best(h, open, given), i)
<1> DEFINE R == {gi \in open \X open : Beats(given, gi[1], gi[2])}
<1>1. \A g, i \in open : <<g, i>> \in R <=> Beats(given, g, i)
  OBVIOUS
<1>2. \A g \in open : Free[g] + 1 \in Nat \ {0} /\ given[g] + 1 \in Nat \ {0} /\ Rank[g] \in Nat
  BY FederationAssumption
<1>3. ASSUME NEW g \in open, NEW i \in open
      PROVE  Beats(given, g, i) \/ Beats(given, i, g)
  <2> DEFINE mine == (Free[g] + 1) * (given[i] + 1)
             other == (Free[i] + 1) * (given[g] + 1)
  <2>1. mine \in Nat /\ other \in Nat
    BY <1>2
  <2>2. /\ Beats(given, g, i) <=> mine > other \/ (mine = other /\ Rank[g] <= Rank[i])
        /\ Beats(given, i, g) <=> other > mine \/ (other = mine /\ Rank[i] <= Rank[g])
    BY DEF Beats
  <2> HIDE DEF mine, other
  <2> QED BY <1>2, <2>1, <2>2
<1>4. ASSUME NEW g \in open, NEW i \in open, NEW k \in open,
             Beats(given, g, i), Beats(given, i, k)
      PROVE  Beats(given, g, k)
  <2> DEFINE a(x) == Free[x] + 1
             b(x) == given[x] + 1
  <2>1. \A x, y \in open :
          Beats(given, x, y) <=>
            a(x) * b(y) > a(y) * b(x) \/ (a(x) * b(y) = a(y) * b(x) /\ Rank[x] <= Rank[y])
    BY DEF Beats
  <2>2. \A x \in open : a(x) \in Nat \ {0} /\ b(x) \in Nat \ {0} /\ Rank[x] \in Nat
    BY <1>2
  <2> HIDE DEF a, b
  <2>3. \A x, y \in open : a(x) * b(y) \in Nat
    BY <2>2
  <2>4. a(g) * b(i) >= a(i) * b(g) /\ a(i) * b(k) >= a(k) * b(i)
    BY <1>4, <2>1, <2>3
  <2>5. /\ a(g) * b(k) >= a(k) * b(g)
        /\ a(g) * b(i) > a(i) * b(g) \/ a(i) * b(k) > a(k) * b(i) => a(g) * b(k) > a(k) * b(g)
    BY <2>2, <2>4, CrossTransitive
  <2>6. CASE a(g) * b(i) > a(i) * b(g) \/ a(i) * b(k) > a(k) * b(i)
    BY <2>1, <2>5, <2>6
  <2>7. CASE ~ (a(g) * b(i) > a(i) * b(g) \/ a(i) * b(k) > a(k) * b(i))
    <3>1. Rank[g] <= Rank[i] /\ Rank[i] <= Rank[k]
      BY <1>4, <2>1, <2>7
    <3>2. Rank[g] <= Rank[k]
      BY <2>2, <3>1
    <3>3. a(g) * b(k) > a(k) * b(g) \/ a(g) * b(k) = a(k) * b(g)
      BY <2>3, <2>5
    <3> QED BY <2>1, <3>2, <3>3
  <2> QED BY <2>6, <2>7
<1> HIDE DEF R
<1>5. \E g \in open : \A i \in open : <<g, i>> \in R
  <2>1. IsFiniteSet(open)
    BY FederationAssumption, FS_Subset
  <2>2. \A g, i \in open : <<g, i>> \in R \/ <<i, g>> \in R
    BY <1>1, <1>3
  <2>3. \A g, i, k \in open : <<g, i>> \in R /\ <<i, k>> \in R => <<g, k>> \in R
    BY <1>1, <1>4
  <2> QED BY <2>1, <2>2, <2>3, GreatestExists
<1>6. \E g \in open : \A i \in open : Beats(given, g, i)
  BY <1>1, <1>5
<1>7. Best(h, open, given) = CHOOSE g \in open : \A i \in open : Beats(given, g, i)
  BY DEF Best, Beats
<1> QED BY <1>6, <1>7
-----------------------------------------------------------------------------
(* One job dealt.                                                          *)
Room(h) == [g \in Slots(h) |-> Capacity(h, g, Known(h)[g])]

(* slot_for never answers a negative room.                                 *)
LEMMA CapacityNat ==
  ASSUME NEW h \in Hosts, NEW g \in Hosts, NEW s \in Snapshots, s.pool # None
  PROVE  Capacity(h, g, s) \in Nat
<1> DEFINE room == MaxRunners[g] - s.pool.busy
           left == s.globalFree + s.pool.running - s.pool.busy
<1>1. MaxRunners[g] \in Nat /\ s.pool.busy \in Nat /\ s.pool.running \in Nat
  BY FederationAssumption DEF Snapshots
<1>2. room \in Int /\ (s.globalFree # None => left \in Int)
  BY <1>1 DEF Snapshots
<1>3. Capacity(h, g, s) = IF TooHot(h, s.temp) THEN 0
                          ELSE Pos(IF s.globalFree = None \/ room <= left THEN room ELSE left)
  BY DEF Capacity
<1> HIDE DEF room, left
<1>4. \A n \in Int : Pos(n) \in Nat
  BY DEF Pos
<1>5. (IF s.globalFree = None \/ room <= left THEN room ELSE left) \in Int
  BY <1>2
<1> QED BY <1>3, <1>4, <1>5

(* A host splits over finitely many hosts, each with a known room.         *)
LEMMA KnownTypes ==
  ASSUME TypeOK, NEW h \in Hosts
  PROVE  /\ Slots(h) \in SUBSET Hosts /\ IsFiniteSet(Slots(h))
         /\ Room(h) \in [Slots(h) -> Nat]
<1>1. Slots(h) \in SUBSET Hosts
  BY DEF Slots
<1>2. IsFiniteSet(Slots(h))
  BY <1>1, FederationAssumption, FS_Subset
<1>3. ASSUME NEW g \in Slots(h) PROVE Capacity(h, g, Known(h)[g]) \in Nat
  <2>1. g \in Hosts /\ Known(h)[g] \in Snapshots /\ Known(h)[g].pool # None
    BY <1>1 DEF Slots, Known, TypeOK
  <2> QED BY <2>1, CapacityNat
<1> QED BY <1>1, <1>2, <1>3 DEF Room

(* One turn of split's loop: nothing moves because nobody has room, or one *)
(* host with room gets one job more.                                       *)
LEMMA DealStep ==
  ASSUME TypeOK, NEW h \in Hosts, NEW given \in [Slots(h) -> Nat]
  PROVE  /\ Deal(h, given) \in [Slots(h) -> Nat]
         /\ \/ /\ Deal(h, given) = given
               /\ \A g \in Slots(h) : given[g] >= Room(h)[g]
            \/ \E g \in Slots(h) :
                 /\ given[g] < Room(h)[g]
                 /\ Deal(h, given) = [given EXCEPT ![g] = @ + 1]
                 /\ \A i \in Slots(h) : given[i] < Room(h)[i] => Beats(given, g, i)
<1> DEFINE open == {g \in Slots(h) : given[g] < Capacity(h, g, Known(h)[g])}
<1>1. /\ Slots(h) \in SUBSET Hosts /\ Room(h) \in [Slots(h) -> Nat]
      /\ \A g \in Slots(h) : Room(h)[g] = Capacity(h, g, Known(h)[g])
  BY KnownTypes DEF Room
<1>2. Deal(h, given) = IF open = {} THEN given
                       ELSE [given EXCEPT ![Best(h, open, given)] = @ + 1]
  BY DEF Deal
<1>3. CASE open = {}
  <2>1. \A g \in Slots(h) : given[g] >= Room(h)[g]
    BY <1>1, <1>3
  <2> QED BY <1>2, <1>3, <2>1
<1>4. CASE open # {}
  <2> DEFINE g == Best(h, open, given)
  <2>1. g \in open /\ \A i \in open : Beats(given, g, i)
    <3>1. open \in SUBSET Hosts /\ \A i \in open : given[i] \in Nat
      BY <1>1
    <3> HIDE DEF open
    <3> QED BY <1>4, <3>1, BestIsOpen
  <2>2. /\ g \in Slots(h) /\ given[g] < Room(h)[g]
        /\ \A i \in Slots(h) : given[i] < Room(h)[i] => Beats(given, g, i)
    BY <1>1, <2>1
  <2>3. Deal(h, given) = [given EXCEPT ![g] = @ + 1]
    BY <1>2, <1>4
  <2> HIDE DEF g
  <2>4. [given EXCEPT ![g] = @ + 1] \in [Slots(h) -> Nat]
    BY <2>2
  <2> QED BY <2>2, <2>3, <2>4
<1> QED BY <1>3, <1>4

(* The whole deal.                                                         *)
Nothing(h) == [g \in Slots(h) |-> 0]
DealOf(h) == [given \in [Slots(h) -> Nat] |-> Deal(h, given)]

(* The loop starts from, and stays with, a count for every host.           *)
LEMMA DealOfType ==
  ASSUME TypeOK, NEW h \in Hosts
  PROVE  Nothing(h) \in [Slots(h) -> Nat] /\ DealOf(h) \in [[Slots(h) -> Nat] -> [Slots(h) -> Nat]]
BY DealStep DEF Nothing, DealOf

(* split is that turn, repeated once for every queued job.                 *)
LEMMA SplitIterates ==
  ASSUME TypeOK, NEW h \in Hosts, NEW n \in Nat
  PROVE  \E f \in [0..n -> [Slots(h) -> Nat]] :
           Steps(Nothing(h), DealOf(h), n, f) /\ Split(h, n) = f[n]
<1> DEFINE V == [Slots(h) -> Nat]
           Dealt(f) == f = [k \in 0..n |->
                              IF k = 0 THEN [g \in Slots(h) |-> 0] ELSE Deal(h, f[k - 1])]
<1>1. Nothing(h) \in V /\ DealOf(h) \in [V -> V]
  BY DealOfType
<1>2. PICK w \in [0..n -> V] : Steps(Nothing(h), DealOf(h), n, w)
  <2> HIDE DEF V
  <2> QED BY <1>1, IterationExists
<1>3. ASSUME NEW k \in 0..n, k # 0 PROVE DealOf(h)[w[k - 1]] = Deal(h, w[k - 1])
  <2>1. w[k - 1] \in V
    BY <1>2, <1>3
  <2> QED BY <2>1 DEF DealOf
<1>4. Dealt(w)
  BY <1>2, <1>3 DEF Steps, Nothing
<1> DEFINE f == CHOOSE d : Dealt(d)
<1>5. Dealt(f)
  <2> HIDE DEF Dealt
  <2> QED BY <1>4
<1>6. Split(h, n) = f[n]
  BY DEF Split
<1> HIDE DEF f
<1> DEFINE F == {m \in Nat : m <= n => f[m] \in V}
<1>7. \A k \in 0..n : f[k] = IF k = 0 THEN [g \in Slots(h) |-> 0] ELSE Deal(h, f[k - 1])
  BY <1>5
<1>8. 0 \in F
  BY <1>7
<1>9. ASSUME NEW m \in Nat, m \in F PROVE m + 1 \in F
  <2>1. CASE m + 1 <= n
    <3>1. m + 1 \in 0..n /\ m + 1 # 0 /\ (m + 1) - 1 = m /\ f[m] \in V
      BY <1>9, <2>1
    <3>2. f[m + 1] = Deal(h, f[m])
      BY <1>7, <3>1
    <3>3. f[m + 1] \in V
      BY <3>1, <3>2, DealStep
    <3> QED BY <3>3
  <2> QED BY <2>1
<1>10. Nat \subseteq F
  <2> HIDE DEF F
  <2> QED BY <1>8, <1>9, SetInduction
<1>11. \A k \in 0..n : f[k] \in V
  BY <1>10
<1>12. f \in [0..n -> V]
  <2>1. f = [k \in 0..n |-> f[k]]
    BY <1>5
  <2> HIDE DEF V
  <2> QED BY <1>11, <2>1
<1>13. ASSUME NEW k \in 0..n, k # 0 PROVE DealOf(h)[f[k - 1]] = Deal(h, f[k - 1])
  <2>1. f[k - 1] \in V
    BY <1>11, <1>13
  <2> QED BY <2>1 DEF DealOf
<1>14. Steps(Nothing(h), DealOf(h), n, f)
  BY <1>5, <1>13 DEF Steps, Nothing
<1> QED BY <1>6, <1>12, <1>14

(* The counts of split after each job, the last of which it answers.       *)
LEMMA SplitDeals ==
  ASSUME TypeOK, NEW h \in Hosts, NEW n \in Nat
  PROVE  \E f \in [0..n -> [Slots(h) -> Nat]] :
           /\ f[0] = Nothing(h) /\ f[n] = Split(h, n)
           /\ \A m \in Nat : m + 1 <= n =>
                f[m] \in [Slots(h) -> Nat] /\ f[m + 1] = Deal(h, f[m])
<1> DEFINE V == [Slots(h) -> Nat]
<1>1. PICK f \in [0..n -> V] : Steps(Nothing(h), DealOf(h), n, f) /\ Split(h, n) = f[n]
  BY SplitIterates
<1>2. \A k \in 0..n : f[k] = IF k = 0 THEN Nothing(h) ELSE DealOf(h)[f[k - 1]]
  BY <1>1 DEF Steps
<1>3. ASSUME NEW m \in Nat, m + 1 <= n
      PROVE  f[m] \in V /\ f[m + 1] = Deal(h, f[m])
  <2>1. m \in 0..n /\ m + 1 \in 0..n /\ m + 1 # 0 /\ (m + 1) - 1 = m
    BY <1>3
  <2>2. f[m] \in V /\ f[m + 1] = DealOf(h)[f[m]]
    <3> HIDE DEF V
    <3> QED BY <1>1, <1>2, <2>1
  <2> QED BY <2>2 DEF DealOf
<1>4. f[0] = Nothing(h)
  <2>1. 0 \in 0..n
    OBVIOUS
  <2> QED BY <1>2, <2>1
<1> QED BY <1>1, <1>3, <1>4

(* split, whatever the host knows of its peers and however stale that is:  *)
(* no host is given more than the room it is thought to have, and together *)
(* they are given the whole queue, or all the room there is.               *)
THEOREM SplitExact ==
  ASSUME TypeOK, NEW h \in Hosts, NEW n \in Nat
  PROVE  LET all == Total(Room(h), Slots(h))
         IN  /\ Split(h, n) \in [Slots(h) -> Nat]
             /\ \A g \in Slots(h) : Split(h, n)[g] <= Room(h)[g]
             /\ Total(Split(h, n), Slots(h)) = (IF n <= all THEN n ELSE all)
<1> DEFINE S == Slots(h)
           room == Room(h)
           Fits(v) == \A g \in S : v[g] <= room[g]
           Full(v) == \A g \in S : v[g] = room[g]
<1>1. IsFiniteSet(S) /\ room \in [S -> Nat]
  BY KnownTypes
<1>2. PICK f \in [0..n -> [S -> Nat]] :
        /\ f[0] = Nothing(h) /\ f[n] = Split(h, n)
        /\ \A m \in Nat : m + 1 <= n => f[m] \in [S -> Nat] /\ f[m + 1] = Deal(h, f[m])
  BY SplitDeals
<1>4. \A v \in [S -> Nat] : Total(v, S) \in Nat
  BY <1>1, SumNat DEF Total
<1> DEFINE Dealt(k) == /\ Fits(f[k]) /\ Total(f[k], S) <= k
                       /\ Total(f[k], S) = k \/ Full(f[k])
           F == {m \in Nat : m <= n => Dealt(m)}
<1>5. 0 \in F
  <2>1. \A g \in S : f[0][g] = 0
    BY <1>2 DEF Nothing
  <2>2. Total(f[0], S) = 0
    BY <1>1, <2>1, SumZero DEF Total
  <2> QED BY <1>1, <2>1, <2>2
<1>6. ASSUME NEW m \in Nat, m \in F PROVE m + 1 \in F
  <2> SUFFICES ASSUME m + 1 <= n PROVE Dealt(m + 1)
    OBVIOUS
  <2> DEFINE v == f[m]
             w == f[m + 1]
  <2>1. Dealt(m)
    BY <1>6
  <2>2. v \in [S -> Nat] /\ w = Deal(h, v)
    BY <1>2
  <2>3. /\ w \in [S -> Nat]
        /\ \/ w = v /\ \A g \in S : v[g] >= room[g]
           \/ \E g \in S : v[g] < room[g] /\ w = [v EXCEPT ![g] = @ + 1]
    <3> HIDE DEF v, w
    <3> QED BY <2>2, DealStep
  <2>4. Fits(v) /\ Total(v, S) \in Nat /\ Total(v, S) <= m /\ (Total(v, S) = m \/ Full(v))
    BY <1>4, <2>1, <2>2
  <2> HIDE DEF v, w, S, room
  <2>5. CASE w = v /\ \A g \in S : v[g] >= room[g]
    <3>1. Full(v)
      BY <1>1, <2>2, <2>4, <2>5
    <3> QED BY <2>4, <2>5, <3>1 DEF w
  <2>6. ASSUME NEW g \in S, v[g] < room[g], w = [v EXCEPT ![g] = @ + 1]
        PROVE  Dealt(m + 1)
    <3>1. w[g] = v[g] + 1 /\ \A i \in S : i # g => w[i] = v[i]
      BY <2>2, <2>6
    <3>2. Total(w, S) = Total(v, S) + 1
      BY <1>1, <2>2, <2>3, <3>1, SumIncremented DEF Total
    <3>3. Total(v, S) = m
      BY <1>1, <2>2, <2>4, <2>6
    <3>4. Fits(w)
      BY <1>1, <2>2, <2>3, <2>4, <2>6, <3>1
    <3> QED BY <3>2, <3>3, <3>4 DEF w
  <2> QED BY <2>3, <2>5, <2>6
<1>7. Dealt(n)
  <2> HIDE DEF F
  <2>1. n \in F
    BY <1>5, <1>6, SetInduction
  <2> QED BY <2>1 DEF F
<1> DEFINE v == f[n]
<1>8. v \in [S -> Nat] /\ Split(h, n) = v
  BY <1>2
<1>9. Fits(v) /\ Total(v, S) <= n /\ (Total(v, S) = n \/ Full(v))
  BY <1>7
<1> HIDE DEF v, S, room
<1>10. Total(v, S) <= Total(room, S) /\ Total(v, S) \in Nat /\ Total(room, S) \in Nat
  BY <1>1, <1>4, <1>8, <1>9, SumMonotone DEF Total
<1>11. Full(v) => v = room
  BY <1>1, <1>8
<1>12. Total(v, S) = IF n <= Total(room, S) THEN n ELSE Total(room, S)
  BY <1>9, <1>10, <1>11
<1> QED BY <1>8, <1>9, <1>12 DEF S, room

\* No host with room left has a better claim, by free cores per job, to a
\* job than the host that was given it.
SplitFairly(h, v) ==
  \A i, g \in Slots(h) :
    v[i] > 0 /\ v[g] < Room(h)[g] => (Free[i] + 1) * (v[g] + 1) >= (Free[g] + 1) * v[i]

(* The turn of the loop that gives a job to the best host keeps this so.   *)
LEMMA DealFairly ==
  ASSUME TypeOK, NEW h \in Hosts, NEW v \in [Slots(h) -> Nat], SplitFairly(h, v)
  PROVE  SplitFairly(h, Deal(h, v))
<1> DEFINE S == Slots(h)
           room == Room(h)
           F(i) == Free[i] + 1
           w == Deal(h, v)
<1>1. S \in SUBSET Hosts /\ room \in [S -> Nat]
  BY KnownTypes
<1>2. \A i \in S : F(i) \in Nat /\ v[i] \in Nat
  BY <1>1, FederationAssumption
<1>3. CASE w = v
  BY <1>3
<1>4. ASSUME NEW b \in S, v[b] < room[b], w = [v EXCEPT ![b] = @ + 1],
             \A i \in S : v[i] < room[i] => Beats(v, b, i)
      PROVE  SplitFairly(h, w)
  <2>1. \A i \in S : w[i] = IF i = b THEN v[i] + 1 ELSE v[i]
    BY <1>4
  <2>2. \A i, g \in S : v[i] > 0 /\ v[g] < room[g] => F(i) * (v[g] + 1) >= F(g) * v[i]
    BY DEF SplitFairly
  <2>3. \A i \in S : v[i] < room[i] => F(b) * (v[i] + 1) >= F(i) * (v[b] + 1)
    <3>1. ASSUME NEW i \in S, v[i] < room[i] PROVE F(b) * (v[i] + 1) >= F(i) * (v[b] + 1)
      <4>1. Beats(v, b, i)
        BY <1>4, <3>1
      <4>2. F(b) * (v[i] + 1) \in Nat /\ F(i) * (v[b] + 1) \in Nat
        BY <1>2
      <4> QED BY <4>1, <4>2 DEF Beats
    <3> QED BY <3>1
  <2> HIDE DEF S, room, F, w
  <2>4. ASSUME NEW i \in S, NEW g \in S, w[i] > 0, w[g] < room[g]
        PROVE  F(i) * (w[g] + 1) >= F(g) * w[i]
    <3>1. w[g] \in Nat /\ v[g] <= w[g] /\ v[g] < room[g]
      BY <1>1, <1>2, <2>1, <2>4
    <3>2. CASE i = b
      <4>1. F(b) * (v[g] + 1) >= F(g) * (v[b] + 1) /\ w[i] = v[b] + 1
        BY <2>1, <2>3, <3>1, <3>2
      <4>2. F(b) * (v[g] + 1) <= F(b) * (w[g] + 1)
        BY <1>2, <3>1, Scaling
      <4>3. F(b) * (v[g] + 1) \in Nat /\ F(b) * (w[g] + 1) \in Nat /\ F(g) * (v[b] + 1) \in Nat
        BY <1>2, <3>1
      <4> QED BY <3>2, <4>1, <4>2, <4>3
    <3>3. CASE i # b
      <4>1. w[i] = v[i] /\ F(i) * (v[g] + 1) >= F(g) * v[i]
        BY <2>1, <2>2, <2>4, <3>1, <3>3
      <4>2. F(i) * (v[g] + 1) <= F(i) * (w[g] + 1)
        BY <1>2, <3>1, Scaling
      <4>3. F(i) * (v[g] + 1) \in Nat /\ F(i) * (w[g] + 1) \in Nat /\ F(g) * v[i] \in Nat
        BY <1>2, <3>1
      <4> QED BY <4>1, <4>2, <4>3
    <3> QED BY <3>2, <3>3
  <2> QED BY <2>4 DEF SplitFairly, S, room, F
<1> HIDE DEF S, room, w
<1>5. \/ w = v
      \/ \E b \in S : /\ v[b] < room[b] /\ w = [v EXCEPT ![b] = @ + 1]
                       /\ \A i \in S : v[i] < room[i] => Beats(v, b, i)
  BY DealStep DEF S, room, w
<1> QED BY <1>3, <1>4, <1>5 DEF w

(* split, "Share queued jobs out by free cores": whatever the snapshots   *)
(* and the queue, when it ends no host that still has room had a better    *)
(* claim to a job than the host that was given it.                         *)
THEOREM SplitFair ==
  ASSUME TypeOK, NEW h \in Hosts, NEW n \in Nat
  PROVE  SplitFairly(h, Split(h, n))
<1>1. PICK f \in [0..n -> [Slots(h) -> Nat]] :
        /\ f[0] = Nothing(h) /\ f[n] = Split(h, n)
        /\ \A m \in Nat : m + 1 <= n =>
             f[m] \in [Slots(h) -> Nat] /\ f[m + 1] = Deal(h, f[m])
  BY SplitDeals
<1> DEFINE F == {m \in Nat : m <= n => SplitFairly(h, f[m])}
<1>2. 0 \in F
  BY <1>1 DEF Nothing, SplitFairly
<1>3. ASSUME NEW m \in Nat, m \in F PROVE m + 1 \in F
  <2>1. CASE m + 1 <= n
    <3>1. f[m] \in [Slots(h) -> Nat] /\ f[m + 1] = Deal(h, f[m]) /\ SplitFairly(h, f[m])
      BY <1>1, <1>3, <2>1
    <3> QED BY <3>1, DealFairly
  <2> QED BY <2>1
<1> HIDE DEF F
<1>4. n \in F
  BY <1>2, <1>3, SetInduction
<1> QED BY <1>1, <1>4 DEF F

(* split depends on the snapshots and on which of them are too hot: hosts  *)
(* that hold the same ones, and whose max_temp_c call the same ones hot,   *)
(* compute the same split, however many hosts and jobs there are.          *)
LEMMA SameSplit ==
  ASSUME TypeOK, NEW h \in Hosts, NEW g \in Hosts, NEW n \in Nat,
         Slots(h) = Slots(g), \A i \in Slots(h) : Known(h)[i] = Known(g)[i],
         \A i \in Slots(h) : TooHot(h, Known(h)[i].temp) = TooHot(g, Known(h)[i].temp)
  PROVE  Split(h, n) = Split(g, n)
<1>1. Nothing(h) = Nothing(g)
  BY DEF Nothing
<1>2. ASSUME NEW given \in [Slots(h) -> Nat] PROVE Deal(h, given) = Deal(g, given)
  <2>1. {i \in Slots(h) : given[i] < Capacity(h, i, Known(h)[i])} =
        {i \in Slots(g) : given[i] < Capacity(g, i, Known(g)[i])}
    BY DEF Capacity
  <2>2. \A open : Best(h, open, given) = Best(g, open, given)
    BY DEF Best
  <2> QED BY <2>1, <2>2 DEF Deal
<1>3. DealOf(h) = DealOf(g)
  BY <1>2 DEF DealOf
<1>4. PICK f : Steps(Nothing(h), DealOf(h), n, f) /\ Split(h, n) = f[n]
  BY SplitIterates
<1>5. PICK e : Steps(Nothing(g), DealOf(g), n, e) /\ Split(g, n) = e[n]
  BY SplitIterates
<1>6. f = e
  BY <1>1, <1>3, <1>4, <1>5, IterationUnique
<1> QED BY <1>4, <1>5, <1>6
-----------------------------------------------------------------------------
(* Types.  The runners a host has, and is about to have, stay within its   *)
(* max_runners, which is inductive with the types.                         *)
Doing(h) == {j \in Jobs : job[j] = h}

(* The busy runners of a host are a count.                                 *)
LEMMA BusyNat ==
  ASSUME TypeOK, NEW h
  PROVE  Busy(h) \in Nat /\ IsFiniteSet(Doing(h)) /\ Busy(h) = Cardinality(Doing(h))
<1>1. Doing(h) \in SUBSET Jobs
  BY DEF Doing
<1>2. IsFiniteSet(Doing(h)) /\ Cardinality(Doing(h)) \in Nat
  BY <1>1, FederationAssumption, FS_Subset, FS_CardinalityType
<1> QED BY <1>2 DEF Busy, Doing

(* A job that moves adds one busy runner where it arrives and takes one    *)
(* where it was.                                                           *)
LEMMA BusyMoves ==
  ASSUME TypeOK, NEW j \in Jobs, NEW v, job' = [job EXCEPT ![j] = v], job[j] # v, NEW h
  PROVE  Busy(h)' = IF h = v THEN Busy(h) + 1 ELSE IF h = job[j] THEN Busy(h) - 1 ELSE Busy(h)
<1>1. IsFiniteSet(Doing(h)) /\ Busy(h) = Cardinality(Doing(h))
  BY BusyNat
<1>2. Busy(h)' = Cardinality(Doing(h)')
  BY DEF Busy, Doing
<1>3. \A i \in Jobs : job'[i] = IF i = j THEN v ELSE job[i]
  BY DEF TypeOK
<1>4. CASE h = v
  <2>1. Doing(h)' = Doing(h) \cup {j} /\ j \notin Doing(h)
    BY <1>3, <1>4 DEF Doing
  <2> QED BY <1>1, <1>2, <1>4, <2>1, FS_AddElement
<1>5. CASE h = job[j]
  <2>1. Doing(h)' = Doing(h) \ {j} /\ j \in Doing(h)
    BY <1>3, <1>5 DEF Doing
  <2> QED BY <1>1, <1>2, <1>5, <2>1, FS_RemoveElement
<1>6. CASE h # v /\ h # job[j]
  <2>1. Doing(h)' = Doing(h)
    BY <1>3, <1>6 DEF Doing
  <2> QED BY <1>1, <1>2, <1>6, <2>1
<1> QED BY <1>4, <1>5, <1>6

Pending(h) == IF want[h] = None THEN 0 ELSE want[h]

(* What the types say of a host's runners, those about to come included.   *)
LEMMA RunningTypes ==
  ASSUME TypeOK, NEW h \in Hosts
  PROVE  /\ idle[h] \in Nat /\ Busy(h) \in Nat /\ Pending(h) \in Nat
         /\ Running(h) = idle[h] + Busy(h)
         /\ MaxRunners[h] \in Nat /\ Running(h) + Pending(h) <= MaxRunners[h]
<1>1. idle[h] \in Nat /\ Busy(h) \in Nat /\ Pending(h) \in Nat /\ MaxRunners[h] \in Nat
  BY BusyNat, FederationAssumption DEF TypeOK, Pending
<1>2. Running(h) + Pending(h) <= MaxRunners[h]
  BY DEF TypeOK, Pending
<1> QED BY <1>1, <1>2 DEF Running

(* What a host works out its need to be is a count.                        *)
LEMMA QueueInputNat ==
  ASSUME TypeOK, NEW h \in Hosts
  PROVE  Cardinality(Queued) \in Nat /\ QueueInput(h) \in Nat
<1>1. Queued \in SUBSET Jobs /\ {j \in Jobs : job[j] = "old"} \in SUBSET Jobs
  BY DEF Queued
<1>2. Cardinality(Queued) \in Nat /\ Cardinality({j \in Jobs : job[j] = "old"}) \in Nat
  BY <1>1, FederationAssumption, FS_Subset, FS_CardinalityType
<1>3. MyShare(h, Cardinality(Queued)) \in Nat
  <2> DEFINE n == Cardinality(Queued)
  <2>1. n \in 0..n
    BY <1>2
  <2> HIDE DEF n
  <2>2. n \in Nat
    BY <1>2 DEF n
  <2>3. PICK f \in [0..n -> [Slots(h) -> Nat]] : Split(h, n) = f[n]
    BY <2>2, SplitIterates
  <2>4. Split(h, n) \in [Slots(h) -> Nat]
    BY <2>1, <2>3
  <2> QED BY <2>4 DEF MyShare, n
<1> QED BY <1>2, <1>3 DEF QueueInput

(* _calculate_spawn_count never asks for more than max_runners leaves.     *)
LEMMA SpawnCountFits ==
  ASSUME TypeOK, NEW h \in Hosts, NEW queued \in Nat
  PROVE  SpawnCount(h, queued) \in Nat /\ Running(h) + SpawnCount(h, queued) <= MaxRunners[h]
<1>1. /\ Busy(h) \in Nat /\ Running(h) \in Nat /\ MaxRunners[h] \in Nat
      /\ Running(h) <= MaxRunners[h]
  BY RunningTypes
<1> DEFINE desired == IF Busy(h) + queued <= MaxRunners[h] THEN Busy(h) + queued ELSE MaxRunners[h]
<1>2. desired \in Nat /\ desired <= MaxRunners[h]
  BY <1>1
<1>3. SpawnCount(h, queued) = IF desired - Running(h) > 0 THEN desired - Running(h) ELSE 0
  BY DEF SpawnCount, Pos
<1> HIDE DEF desired
<1> QED BY <1>1, <1>2, <1>3

(* Every host begins without runners.                                      *)
LEMMA InitTypes == Init => TypeOK
<1> SUFFICES ASSUME Init PROVE TypeOK
  OBVIOUS
<1>1. ASSUME NEW h \in Hosts PROVE Busy(h) = 0
  <2>1. {j \in Jobs : job[j] = h} = {}
    BY FederationAssumption DEF Init
  <2> QED BY <2>1, FS_EmptySet DEF Busy
<1>2. \A h \in Hosts : Running(h) + (IF want[h] = None THEN 0 ELSE want[h]) <= MaxRunners[h]
  BY <1>1, FederationAssumption DEF Init, Running
<1> QED BY <1>2 DEF Init, TypeOK

(* A job that moves on (Arrives, Ages, Takes, Ends) raises no host's number*)
(* of runners.                                                             *)
LEMMA JobStepTypes ==
  ASSUME TypeOK, NEW j \in Jobs,
         Arrives(j) \/ Ages(j) \/ Ends(j) \/ \E h \in Hosts : Takes(h, j)
  PROVE  TypeOK'
<1> DEFINE Values == {"none", "fresh", "old", "done"} \cup Hosts
<1>1. UNCHANGED <<counts, own, view, want>> /\ job[j] \in Values
  BY DEF Arrives, Ages, Ends, Takes, TypeOK
<1>2. ASSUME NEW v \in Values, v \notin Hosts, job' = [job EXCEPT ![j] = v], UNCHANGED idle, job[j] # v
      PROVE  TypeOK'
  <2>1. ASSUME NEW h \in Hosts
        PROVE  Running(h)' + Pending(h)' <= MaxRunners[h]
    <3>1. Busy(h)' = IF h = job[j] THEN Busy(h) - 1 ELSE Busy(h)
      <4>1. h # v
        BY <1>2
      <4> QED BY <1>2, <4>1, BusyMoves
    <3>2. Running(h)' = idle[h] + Busy(h)' /\ Pending(h)' = Pending(h)
      BY <1>1, <1>2 DEF Running, Pending
    <3> QED BY <3>1, <3>2, RunningTypes, BusyNat
  <2>2. job' \in [Jobs -> Values]
    BY <1>2 DEF TypeOK
  <2> QED BY <1>1, <1>2, <2>1, <2>2 DEF TypeOK, Pending
<1>3. ASSUME NEW g \in Hosts, Takes(g, j)
      PROVE  TypeOK'
  <2>1. job' = [job EXCEPT ![j] = g] /\ job[j] \in {"fresh", "old"} /\ job[j] # g
    BY <1>3, FederationAssumption DEF Takes, Queued
  <2>2. idle' = [idle EXCEPT ![g] = @ - 1] /\ idle[g] > 0 /\ idle \in [Hosts -> Nat]
    BY <1>3 DEF Takes, TypeOK
  <2>3. ASSUME NEW h \in Hosts
        PROVE  idle'[h] \in Nat /\ Running(h)' + Pending(h)' <= MaxRunners[h]
    <3>1. Busy(h)' = IF h = g THEN Busy(h) + 1 ELSE Busy(h)
      BY <2>1, BusyMoves, FederationAssumption
    <3>2. idle'[h] = IF h = g THEN idle[h] - 1 ELSE idle[h]
      BY <2>2
    <3>3. Running(h)' = idle'[h] + Busy(h)' /\ Pending(h)' = Pending(h)
      BY <1>1 DEF Running, Pending
    <3>4. idle[h] \in Nat /\ (h = g => idle[h] > 0)
      BY <2>2
    <3> QED BY <3>1, <3>2, <3>3, <3>4, RunningTypes
  <2>4. job' \in [Jobs -> Values] /\ idle' \in [Hosts -> Nat]
    <3>1. job' \in [Jobs -> Values]
      BY <2>1 DEF TypeOK
    <3> QED BY <2>2, <2>3, <3>1
  <2> QED BY <1>1, <2>3, <2>4 DEF TypeOK, Pending
<1>4. CASE Arrives(j)
  BY <1>2, <1>4, FederationAssumption DEF Arrives
<1>5. CASE Ages(j)
  BY <1>2, <1>5, FederationAssumption DEF Ages
<1>6. CASE Ends(j)
  BY <1>2, <1>6, FederationAssumption DEF Ends
<1> QED BY <1>3, <1>4, <1>5, <1>6

(* What a host publishes and fetches, loses or forgets has its type, and   *)
(* spawns nothing.                                                         *)
LEMMA SnapshotStepTypes ==
  ASSUME TypeOK, NEW h \in Hosts, Refresh(h) \/ Restart(h) \/ \E g \in Hosts : Expires(h, g)
  PROVE  TypeOK'
<1>1. UNCHANGED <<job, idle>>
  BY DEF Refresh, Restart, Expires
<1>2. \A g \in Hosts : Busy(g)' = Busy(g) /\ Running(g)' = Running(g)
  BY <1>1 DEF Busy, Running
<1>3. CASE Refresh(h)
  <2>1. ASSUME NEW temp \in Temps PROVE Published(h, temp) \in Snapshots
    <3>1. Running(h) \in Nat /\ MaxTotal[h] \in Nat
      BY RunningTypes, FederationAssumption
    <3>2. Pos(MaxTotal[h] - Running(h)) \in Nat
      BY <3>1 DEF Pos
    <3>3. counts[h] \in [running : Nat, busy : Nat] \cup {None}
      BY DEF TypeOK
    <3>4. temp \in Nat \cup {None}
      BY FederationAssumption
    <3> QED BY <3>2, <3>3, <3>4 DEF Published, Snapshots
  <2>2. own' \in [Hosts -> Snapshots \cup {None}]
    <3>1. PICK temp \in Temps : own' = [own EXCEPT ![h] = Published(h, temp)]
      BY <1>3 DEF Refresh
    <3> QED BY <2>1, <3>1 DEF TypeOK
  <2>3. view' \in [Hosts -> [Hosts -> Snapshots \cup {None}]]
    BY <1>3 DEF Refresh, TypeOK
  <2>4. UNCHANGED <<job, idle, counts, want>>
    BY <1>3 DEF Refresh
  <2> QED BY <1>2, <2>2, <2>3, <2>4 DEF TypeOK
<1>4. CASE Restart(h)
  <2>1. /\ counts' \in [Hosts -> [running : Nat, busy : Nat] \cup {None}]
        /\ own' \in [Hosts -> Snapshots \cup {None}]
        /\ view' \in [Hosts -> [Hosts -> Snapshots \cup {None}]]
        /\ want' \in [Hosts -> Nat \cup {None}]
    BY <1>4 DEF Restart, TypeOK
  <2>2. ASSUME NEW g \in Hosts
        PROVE  Running(g)' + (IF want'[g] = None THEN 0 ELSE want'[g]) <= MaxRunners[g]
    <3>1. want'[g] = None \/ want'[g] = want[g]
      BY <1>4 DEF Restart, TypeOK
    <3> QED BY <1>2, <3>1, RunningTypes DEF Pending
  <2> QED BY <1>1, <2>1, <2>2 DEF TypeOK
<1>5. ASSUME NEW g \in Hosts, Expires(h, g)
      PROVE  TypeOK'
  <2>1. view' \in [Hosts -> [Hosts -> Snapshots \cup {None}]]
    BY <1>5 DEF Expires, TypeOK
  <2>2. UNCHANGED <<job, idle, counts, own, want>>
    BY <1>5 DEF Expires
  <2> QED BY <1>2, <2>1, <2>2 DEF TypeOK
<1> QED BY <1>3, <1>4, <1>5

(* A tick, between whose halves the host's runners may change, stays within*)
(* max_runners.                                                            *)
LEMMA TickTypes ==
  ASSUME TypeOK, NEW h \in Hosts, Inspect(h) \/ Spawn(h)
  PROVE  TypeOK'
<1>1. /\ UNCHANGED <<job, own, view>>
      /\ \A g \in Hosts : Busy(g)' = Busy(g)
  BY DEF Inspect, Spawn, Busy
<1>2. CASE Inspect(h)
  <2> DEFINE queued == IF ~Covers(h) THEN Cardinality(Queued)
                       ELSE IF Hot(h) THEN 0 ELSE QueueInput(h)
  <2>1. queued \in Nat
    BY QueueInputNat
  <2>2. want' = [want EXCEPT ![h] = SpawnCount(h, queued)] /\ UNCHANGED idle /\ want[h] = None
    BY <1>2 DEF Inspect
  <2> HIDE DEF queued
  <2>3. SpawnCount(h, queued) \in Nat /\ Running(h) + SpawnCount(h, queued) <= MaxRunners[h]
    BY <2>1, SpawnCountFits
  <2>4. want' \in [Hosts -> Nat \cup {None}]
    BY <2>2, <2>3 DEF TypeOK
  <2>5. counts' \in [Hosts -> [running : Nat, busy : Nat] \cup {None}]
    <3>1. Running(h) \in Nat /\ Busy(h) \in Nat
      BY RunningTypes
    <3> QED BY <1>2, <3>1 DEF Inspect, TypeOK
  <2>6. ASSUME NEW g \in Hosts
        PROVE  Running(g)' + (IF want'[g] = None THEN 0 ELSE want'[g]) <= MaxRunners[g]
    <3>1. Running(g)' = Running(g)
      BY <1>1, <2>2 DEF Running
    <3>2. want'[g] = IF g = h THEN SpawnCount(h, queued) ELSE want[g]
      BY <2>2 DEF TypeOK
    <3>3. CASE g = h
      BY <2>3, <3>1, <3>2, <3>3, RunningTypes
    <3>4. CASE g # h
      BY <3>1, <3>2, <3>4, RunningTypes DEF Pending
    <3> QED BY <3>3, <3>4
  <2> QED BY <1>1, <2>2, <2>4, <2>5, <2>6 DEF TypeOK
<1>3. CASE Spawn(h)
  <2> DEFINE more == IF Hot(h) THEN 0
                     ELSE IF MaxTotal[h] = 0 \/ Running(h) + want[h] <= MaxTotal[h] THEN want[h]
                     ELSE Pos(MaxTotal[h] - Running(h))
  <2>1. want[h] \in Nat /\ Pending(h) = want[h] /\ MaxTotal[h] \in Nat /\ Running(h) \in Nat
    <3>1. want[h] # None
      BY <1>3 DEF Spawn
    <3>2. want[h] \in Nat /\ Pending(h) = want[h]
      BY <3>1 DEF TypeOK, Pending
    <3>3. MaxTotal[h] \in Nat
      BY FederationAssumption
    <3>4. Running(h) \in Nat
      BY RunningTypes
    <3> QED BY <3>2, <3>3, <3>4
  <2>2. more \in Nat /\ more <= want[h]
    BY <2>1 DEF Pos
  <2>3. idle' = [idle EXCEPT ![h] = @ + more] /\ want' = [want EXCEPT ![h] = None] /\ UNCHANGED counts
    BY <1>3 DEF Spawn
  <2> HIDE DEF more
  <2>4. idle' \in [Hosts -> Nat] /\ want' \in [Hosts -> Nat \cup {None}]
    BY <2>2, <2>3 DEF TypeOK
  <2>5. ASSUME NEW g \in Hosts
        PROVE  Running(g)' + (IF want'[g] = None THEN 0 ELSE want'[g]) <= MaxRunners[g]
    <3>1. Running(g)' = idle'[g] + Busy(g)
      BY <1>1 DEF Running
    <3>2. CASE g = h
      <4>1. want'[g] = None /\ idle'[g] = idle[g] + more
        BY <2>3, <3>2 DEF TypeOK
      <4> QED BY <2>1, <2>2, <3>1, <3>2, <4>1, RunningTypes
    <3>3. CASE g # h
      <4>1. want'[g] = want[g] /\ idle'[g] = idle[g]
        BY <2>3, <3>3 DEF TypeOK
      <4> QED BY <3>1, <4>1, RunningTypes DEF Pending
    <3> QED BY <3>2, <3>3
  <2> QED BY <1>1, <2>3, <2>4, <2>5 DEF TypeOK
<1> QED BY <1>2, <1>3

(* The types hold, and no host has, or is about to have, more runners than *)
(* its max_runners (_calculate_spawn_count), whatever the peers claim.     *)
THEOREM Typing == Spec => []TypeOK
<1>1. TypeOK /\ [Next]_vars => TypeOK'
  <2> SUFFICES ASSUME TypeOK, [Next]_vars PROVE TypeOK'
    OBVIOUS
  <2>1. CASE UNCHANGED vars
    BY <2>1 DEF vars, TypeOK, Running, Busy
  <2>2. CASE Next
    BY <2>2, JobStepTypes, SnapshotStepTypes, TickTypes DEF Next
  <2> QED BY <2>1, <2>2
<1> QED BY <1>1, InitTypes, PTL DEF Spec
-----------------------------------------------------------------------------
(* federation.py: "neither doubled nor left while room exists". Any number *)
(* of hosts that hold each other's snapshots as published, and whose own   *)
(* max_temp_c call the same ones of them too hot, take shares that add up  *)
(* to the queue, or to the room there is.                                  *)
THEOREM SharesAreExact == Spec => []SharesExact
<1>1. TypeOK => SharesExact
  <2> SUFFICES ASSUME TypeOK PROVE SharesExact
    OBVIOUS
  <2> DEFINE member == Members
             room == [h \in member |-> Capacity(h, h, own[h])]
             all == Total(room, member)
             shares(n) == [h \in member |-> MyShare(h, n)]
  <2> SUFFICES ASSUME Agreed,
                      \A h, g, i \in member : TooHot(h, own[i].temp) = TooHot(g, own[i].temp),
                      NEW n \in 0 .. Total(MaxRunners, Hosts) + 1
               PROVE  /\ \A h \in member : MyShare(h, n) <= room[h]
                      /\ Total(shares(n), member) = (IF n <= all THEN n ELSE all)
    BY DEF SharesExact, SharesAddUp
  <2>0. /\ member # {} /\ member \in SUBSET Hosts
        /\ \A h \in member : Slots(h) = member /\ \A g \in member : Known(h)[g] = own[g]
    BY DEF Agreed, Members
  <2>1. n \in Nat
    <3>1. Total(MaxRunners, Hosts) \in Nat
      BY FederationAssumption, SumNat DEF Total
    <3> QED BY <3>1
  <2>2. PICK h \in member : TRUE
    BY <2>0
  <2>3. h \in Hosts /\ Slots(h) = member
    BY <2>0
  <2>4. Room(h) = room
    <3>1. ASSUME NEW g \in member PROVE Capacity(h, g, Known(h)[g]) = Capacity(g, g, own[g])
      BY <2>0, <2>3 DEF Capacity
    <3> QED BY <2>3, <3>1 DEF Room
  <2>5. /\ Split(h, n) \in [member -> Nat]
        /\ \A g \in member : Split(h, n)[g] <= room[g]
        /\ Total(Split(h, n), member) = (IF n <= all THEN n ELSE all)
    <3> HIDE DEF member, room
    <3> QED BY <2>1, <2>3, <2>4, SplitExact
  <2>6. ASSUME NEW g \in member PROVE MyShare(g, n) = Split(h, n)[g]
    <3>1. g \in Hosts /\ Slots(g) = Slots(h) /\ \A i \in Slots(g) : Known(g)[i] = Known(h)[i]
      BY <2>0, <2>3
    <3>2. \A i \in Slots(g) : TooHot(g, Known(g)[i].temp) = TooHot(h, Known(g)[i].temp)
      BY <2>0, <2>3
    <3>3. Split(g, n) = Split(h, n)
      <4> HIDE DEF member
      <4> QED BY <2>1, <2>3, <3>1, <3>2, SameSplit
    <3>4. g \in Slots(g)
      BY <2>0
    <3> QED BY <3>3, <3>4 DEF MyShare
  <2> HIDE DEF member, room
  <2>7. shares(n) = Split(h, n)
    BY <2>5, <2>6
  <2> QED BY <2>5, <2>6, <2>7
<1> QED BY <1>1, Typing, PTL
-----------------------------------------------------------------------------
Old == Cardinality({j \in Jobs : job[j] = "old"})

\* The runners a host has, and is about to have, after its next half tick
\* cover its running jobs and every old one, up to its max_runners.
HeedsRescue(h) ==
  want[h] = None /\ want'[h] # None /\ ~Hot(h) =>
    \/ Running(h)' + want'[h] >= Busy(h) + Old
    \/ Running(h)' + want'[h] >= MaxRunners[h]

(* However stale what a host holds of its peers, and whatever share it     *)
(* works out from it, its tick provides for every job older than           *)
(* rescue_after_seconds (queue_input): the step behind JobsServed.         *)
THEOREM RescueHeeded == Spec => [][\A h \in Hosts : HeedsRescue(h)]_vars
<1>1. TypeOK /\ [Next]_vars => [\A h \in Hosts : HeedsRescue(h)]_vars
  <2> SUFFICES ASSUME TypeOK, Next, NEW h \in Hosts,
                      want[h] = None, want'[h] # None, ~Hot(h)
               PROVE  \/ Running(h)' + want'[h] >= Busy(h) + Old
                      \/ Running(h)' + want'[h] >= MaxRunners[h]
    BY DEF HeedsRescue
  <2>1. Inspect(h)
    <3>1. ASSUME NEW g \in Hosts, Spawn(g) \/ Restart(g) PROVE FALSE
      BY <3>1 DEF Spawn, Restart, TypeOK
    <3>2. ASSUME NEW g \in Hosts, Inspect(g), g # h PROVE FALSE
      BY <3>2 DEF Inspect, TypeOK
    <3>3. want' # want
      OBVIOUS
    <3> QED BY <3>1, <3>2, <3>3 DEF Next, Arrives, Ages, Ends, Takes, Refresh, Expires
  <2> DEFINE queued == IF ~Covers(h) THEN Cardinality(Queued)
                       ELSE IF Hot(h) THEN 0 ELSE QueueInput(h)
             desired == IF Busy(h) + queued <= MaxRunners[h] THEN Busy(h) + queued ELSE MaxRunners[h]
  <2>2. queued \in Nat /\ Old \in Nat /\ Old <= queued
    <3>1. {j \in Jobs : job[j] = "old"} \subseteq Queued /\ Queued \in SUBSET Jobs
      BY DEF Queued
    <3>2. Old \in Nat /\ Old <= Cardinality(Queued)
      BY <3>1, FederationAssumption, FS_Subset, FS_CardinalityType DEF Old
    <3>3. Cardinality(Queued) \in Nat /\ QueueInput(h) \in Nat
      BY QueueInputNat
    <3>4. Old <= QueueInput(h)
      <4> DEFINE mine == MyShare(h, Cardinality(Queued))
      <4>1. QueueInput(h) = IF mine >= Old THEN mine ELSE Old
        BY DEF QueueInput, Old
      <4> HIDE DEF mine
      <4> QED BY <3>2, <4>1
    <3> QED BY <3>2, <3>3, <3>4
  <2>3. want'[h] = SpawnCount(h, queued) /\ Running(h)' = Running(h)
    BY <2>1 DEF Inspect, TypeOK, Running, Busy
  <2> HIDE DEF queued
  <2>4. SpawnCount(h, queued) = IF desired - Running(h) > 0 THEN desired - Running(h) ELSE 0
    BY DEF SpawnCount, Pos
  <2>5. Busy(h) \in Nat /\ Running(h) \in Nat /\ MaxRunners[h] \in Nat
    BY RunningTypes
  <2>6. desired \in Nat /\ (desired >= Busy(h) + Old \/ desired >= MaxRunners[h])
    BY <2>2, <2>5
  <2> HIDE DEF desired
  <2> QED BY <2>2, <2>3, <2>4, <2>5, <2>6
<1> QED BY <1>1, Typing, PTL DEF Spec
=============================================================================
