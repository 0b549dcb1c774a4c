------------------------- MODULE GitHubClient_proofs -------------------------
(* Theorems about GitHubClient, for any threads, tokens, slots and delays. *)
EXTENDS GitHubClient, Induction

(* Every set of callers is finite and has a size.                          *)
LEMMA CallerSets ==
  ASSUME NEW S \in SUBSET Callers
  PROVE  /\ IsFiniteSet(S) /\ Cardinality(S) \in Nat
         /\ Cardinality(S) <= Cardinality(Callers)
BY FS_Subset, FS_CardinalityType, GateAssumption

(* The doubling of the backoff (2 ** (failures - 1)) is defined, and a     *)
(* natural number, for every count of failures.                            *)
LEMMA PowersOfTwo ==
  /\ PowerOfTwo \in [Nat -> Nat]
  /\ \A n \in Nat : PowerOfTwo[n] = IF n = 0 THEN 1 ELSE 2 * PowerOfTwo[n - 1]
<1> DEFINE Doubles(f) == f = [n \in Nat |-> IF n = 0 THEN 1 ELSE 2 * f[n - 1]]
           twice == [x \in Nat |-> 2 * x]
<1>1. \E f : Doubles(f)
  <2> DEFINE V == Nat
             one == 1
  <2>1. PICK f \in [Nat -> Nat] : \A k \in Nat : f[k] = IF k = 0 THEN 1 ELSE twice[f[k - 1]]
    <3>1. twice \in [V -> V] /\ one \in V
      OBVIOUS
    <3> HIDE DEF twice, V, one
    <3>2. \E f \in [Nat -> V] : \A k \in Nat : f[k] = IF k = 0 THEN one ELSE twice[f[k - 1]]
      BY <3>1, RecursionExists
    <3> QED BY <3>2 DEF V, one
  <2>2. ASSUME NEW k \in Nat, k # 0 PROVE twice[f[k - 1]] = 2 * f[k - 1]
    <3>1. k - 1 \in Nat
      BY <2>2
    <3>2. f[k - 1] \in Nat
      BY <2>1, <3>1
    <3> QED BY <3>2
  <2>3. Doubles(f)
    <3>1. f = [k \in Nat |-> f[k]]
      BY <2>1
    <3>2. \A k \in Nat : f[k] = IF k = 0 THEN 1 ELSE 2 * f[k - 1]
      BY <2>1, <2>2
    <3> QED BY <3>1, <3>2
  <2> QED BY <2>3
<1>2. Doubles(PowerOfTwo)
  <2>1. PowerOfTwo = CHOOSE f : Doubles(f)
    BY DEF PowerOfTwo
  <2> HIDE DEF Doubles
  <2> QED BY <1>1, <2>1
<1>3. \A n \in Nat : PowerOfTwo[n] = IF n = 0 THEN 1 ELSE 2 * PowerOfTwo[n - 1]
  BY <1>2
<1> DEFINE F == {n \in Nat : PowerOfTwo[n] \in Nat}
<1>4. 0 \in F
  BY <1>3
<1>5. ASSUME NEW n \in Nat, n \in F PROVE n + 1 \in F
  <2>1. n + 1 \in Nat /\ n + 1 # 0 /\ (n + 1) - 1 = n /\ PowerOfTwo[n] \in Nat
    BY <1>5
  <2>2. PowerOfTwo[n + 1] = 2 * PowerOfTwo[n]
    BY <1>3, <2>1
  <2> QED BY <2>1, <2>2
<1>6. Nat \subseteq F
  <2> HIDE DEF F
  <2> QED BY <1>4, <1>5, SetInduction
<1>7. PowerOfTwo = [n \in Nat |-> PowerOfTwo[n]]
  BY <1>2
<1> QED BY <1>3, <1>6, <1>7

(* _block_after_secondary_limit: the backoff is a number of seconds, at    *)
(* most SecondaryMax, and no failure shortens the one before it.           *)
LEMMA BackoffBounded ==
  ASSUME NEW n \in Nat \ {0}
  PROVE  /\ Backoff(n) \in Nat /\ Backoff(n) <= SecondaryMax
         /\ Backoff(n) <= Backoff(n + 1)
<1> DEFINE p == PowerOfTwo[n - 1]
<1>1. n - 1 \in Nat /\ (n + 1) - 1 = n
  OBVIOUS
<1>2. p \in Nat /\ PowerOfTwo[n] = 2 * p
  BY <1>1, PowersOfTwo
<1>3. Backoff(n) = Sooner(SecondaryBase * p, SecondaryMax)
  BY DEF Backoff
<1>4. Backoff(n + 1) = Sooner(SecondaryBase * (2 * p), SecondaryMax)
  BY <1>1, <1>2 DEF Backoff
<1> HIDE DEF p
<1> DEFINE seconds == SecondaryBase * p
<1>5. seconds \in Nat /\ SecondaryBase * (2 * p) = 2 * seconds
  BY <1>2, GateAssumption
<1> HIDE DEF seconds
<1>6. SecondaryMax \in Nat
  BY GateAssumption
<1> QED BY <1>3, <1>4, <1>5, <1>6 DEF Sooner, seconds

(* A cooldown an answer asks for never shortens the one there is.          *)
LEMMA CooldownGrows ==
  ASSUME NEW t \in Tokens, NEW wait \in Nat, cooldown \in [Tokens -> Nat], Block(t, wait)
  PROVE  /\ cooldown' \in [Tokens -> Nat]
         /\ \A u \in Tokens : cooldown'[u] >= cooldown[u]
         /\ \A u \in Tokens : u # t => cooldown'[u] = cooldown[u]
         /\ cooldown'[t] \in {cooldown[t], wait}
BY DEF Block, CooldownAfter, Later

(* What an answer does to the cooldowns.                                   *)
Lengthens(t) ==
  /\ \A u \in Tokens : cooldown'[u] \in Nat /\ cooldown'[u] >= cooldown[u]
  /\ \A u \in Tokens : u # t => cooldown'[u] = cooldown[u]
  /\ cooldown' \in [Tokens -> Nat]
  /\ \/ cooldown'[t] = cooldown[t]
     \/ cooldown'[t] <= SecondaryMax
     \/ \E w \in Waits : cooldown'[t] <= w + 1

(* Every answer, the dropped one at the reserve and the error included,    *)
(* returns its call and lengthens at most its own token's cooldown.        *)
LEMMA AnswerLengthens ==
  ASSUME TypeOK, CallShape, NEW c \in Callers, Answer(c)
  PROVE  /\ token[c] \in Tokens /\ Return(c) /\ Lengthens(token[c])
         /\ failures' \in [Tokens -> 0 .. MaxFailures]
<1>1. token[c] \in Tokens /\ Return(c)
  BY DEF Answer, Succeeds, ReserveReached, Limited, SecondaryLimited, Fails, Return, CallShape
<1>2. cooldown \in [Tokens -> Nat] /\ failures \in [Tokens -> 0 .. MaxFailures] /\ Waits \subseteq Nat
  BY GateAssumption DEF TypeOK
<1>3. CASE Succeeds(c) \/ Fails(c)
  <2>1. UNCHANGED cooldown
    BY <1>3 DEF Succeeds, Fails
  <2>2. failures' \in [Tokens -> 0 .. MaxFailures]
    BY <1>2, <1>3, GateAssumption DEF Succeeds, Fails
  <2>3. QED BY <1>1, <1>2, <2>1, <2>2 DEF Lengthens
<1>4. CASE ReserveReached(c)
  <2>1. PICK w \in Waits \ {0} : Block(token[c], w + 1)
    BY <1>4 DEF ReserveReached
  <2>2. w + 1 \in Nat
    BY <1>2
  <2>3. UNCHANGED failures
    BY <1>4 DEF ReserveReached
  <2>4. QED BY <1>1, <1>2, <2>1, <2>2, <2>3, CooldownGrows DEF Lengthens
<1>5. CASE Limited(c)
  <2>1. PICK w \in Waits : Block(token[c], w)
    BY <1>5 DEF Limited
  <2>2. w \in Nat /\ w <= w + 1
    BY <1>2
  <2>3. UNCHANGED failures
    BY <1>5 DEF Limited
  <2>4. QED BY <1>1, <1>2, <2>1, <2>2, <2>3, CooldownGrows DEF Lengthens
<1>6. CASE SecondaryLimited(c)
  <2>1. failures[token[c]] + 1 \in 1 .. MaxFailures
    <3>1. failures[token[c]] \in 0 .. MaxFailures
      BY <1>1, <1>2
    <3>2. failures[token[c]] < MaxFailures
      BY <1>6 DEF SecondaryLimited
    <3>3. QED BY <3>1, <3>2, GateAssumption
  <2>2. failures' \in [Tokens -> 0 .. MaxFailures]
    <3>1. failures' = [failures EXCEPT ![token[c]] = @ + 1]
      BY <1>6 DEF SecondaryLimited
    <3>2. failures[token[c]] + 1 \in 0 .. MaxFailures
      BY <2>1
    <3>3. QED BY <1>1, <1>2, <3>1, <3>2
  <2>3. Block(token[c], Backoff(failures[token[c]] + 1))
    BY <1>6 DEF SecondaryLimited
  <2>4. QED BY <1>1, <1>2, <2>1, <2>2, <2>3, BackoffBounded, CooldownGrows DEF Lengthens
<1>7. QED BY <1>3, <1>4, <1>5, <1>6 DEF Answer

-----------------------------------------------------------------------------
(* The types, with what ties a call to its token: the base of the rest.    *)
LEMMA CallsShaped == Spec => [](TypeOK /\ CallShape)
<1>1. Init => TypeOK /\ CallShape
  BY GateAssumption DEF Init, TypeOK, CallShape
<1>2. TypeOK /\ CallShape /\ [Next]_vars => TypeOK' /\ CallShape'
  <2> SUFFICES ASSUME TypeOK, CallShape, [Next]_vars PROVE TypeOK' /\ CallShape'
    OBVIOUS
  <2>0. MutationDelay \in Nat \ {0} /\ SecondaryMax \in Nat /\ Waits \subseteq Nat
    BY GateAssumption
  <2>1. ASSUME NEW c \in Callers, NEW t \in Tokens, NEW m \in BOOLEAN, Call(c, t, m)
        PROVE  TypeOK' /\ CallShape'
    BY <2>1 DEF Call, TypeOK, CallShape
  <2>2. ASSUME NEW c \in Callers, TakeSlot(c) PROVE TypeOK' /\ CallShape'
    BY <2>2 DEF TakeSlot, Sent, TypeOK, CallShape
  <2>3. ASSUME NEW c \in Callers, TakeMutationLock(c) PROVE TypeOK' /\ CallShape'
    <3>1. MutationDelay - sinceMutation \in 0 .. MutationDelay
      BY <2>0 DEF TypeOK
    <3>2. QED BY <2>3, <3>1 DEF TakeMutationLock, TypeOK, CallShape
  <2>4. ASSUME NEW c \in Callers, EndPacing(c) PROVE TypeOK' /\ CallShape'
    BY <2>0, <2>4 DEF EndPacing, Sent, TypeOK, CallShape
  <2>5. ASSUME NEW c \in Callers, Answer(c) PROVE TypeOK' /\ CallShape'
    <3>1. /\ token[c] \in Tokens /\ Return(c) /\ Lengthens(token[c])
          /\ failures' \in [Tokens -> 0 .. MaxFailures]
      BY <2>5, AnswerLengthens
    <3>2. \A t \in Tokens : cooldown'[t] <= SecondaryMax \/ \E w \in Waits : cooldown'[t] <= w + 1
      BY <3>1 DEF TypeOK, Lengthens
    <3>3. cooldown' \in [Tokens -> Nat]
      BY <3>1 DEF Lengthens
    <3>4. QED BY <3>1, <3>2, <3>3 DEF Return, TypeOK, CallShape
  <2>6. ASSUME Tick PROVE TypeOK' /\ CallShape'
    <3>1. \A t \in Tokens : Later(cooldown[t] - 1, 0) \in Nat /\ Later(cooldown[t] - 1, 0) <= cooldown[t]
      BY DEF TypeOK, Later
    <3>2. cooldown' \in [Tokens -> Nat] /\ \A t \in Tokens : cooldown'[t] <= cooldown[t]
      BY <2>6, <3>1 DEF Tick
    <3>3. \A t \in Tokens : cooldown'[t] <= SecondaryMax \/ \E w \in Waits : cooldown'[t] <= w + 1
      BY <2>0, <3>2 DEF TypeOK
    <3>4. sleep' \in [Callers -> 0 .. MutationDelay] /\ sinceMutation' \in 0 .. MutationDelay
      BY <2>0, <2>6 DEF Tick, TypeOK, Later, Sooner
    <3>5. strays' \in [Tokens -> Nat]
      BY <2>6 DEF Tick, TypeOK
    <3>6. QED BY <2>6, <3>2, <3>3, <3>4, <3>5 DEF Tick, TypeOK, CallShape
  <2>7. CASE UNCHANGED vars
    BY <2>7 DEF vars, callVars, TypeOK, CallShape
  <2>8. QED BY <2>1, <2>2, <2>3, <2>4, <2>5, <2>6, <2>7 DEF Next
<1>3. QED BY <1>1, <1>2, PTL DEF Spec

(* The state keeps its types, and no token is ever locked out for longer   *)
(* than the longest wait an answer asks for or the backoff's cap.          *)
THEOREM Typing == Spec => []TypeOK
BY CallsShaped, PTL

(* Answers in any order never cut a cooldown short; it runs out.           *)
THEOREM CooldownIsKept == Spec => CooldownKept
<1>1. TypeOK /\ CallShape /\ [Next]_vars =>
        [cooldown' # cooldown =>
           \/ \A t \in Tokens : cooldown'[t] >= cooldown[t]
           \/ \A t \in Tokens : cooldown'[t] = Later(cooldown[t] - 1, 0)]_vars
  <2> SUFFICES ASSUME TypeOK, CallShape, Next, cooldown' # cooldown
               PROVE  \/ \A t \in Tokens : cooldown'[t] >= cooldown[t]
                      \/ \A t \in Tokens : cooldown'[t] = Later(cooldown[t] - 1, 0)
    OBVIOUS
  <2>1. ASSUME NEW c \in Callers, Answer(c) PROVE \A t \in Tokens : cooldown'[t] >= cooldown[t]
    BY <2>1, AnswerLengthens DEF Lengthens
  <2>2. CASE Tick
    BY <2>2 DEF Tick
  <2>3. QED BY <2>1, <2>2 DEF Next, Call, TakeSlot, TakeMutationLock, EndPacing
<1>2. QED BY <1>1, CallsShaped, PTL DEF Spec, CooldownKept

(* A mutation leaves _pace_mutation at least MutationDelay after the one   *)
(* before it: only the holder of the lock paces.                           *)
THEOREM MutationsAreSpaced == Spec => MutationsSpaced
<1>1. Init => PacerShape
  BY GateAssumption DEF Init, PacerShape
<1>2. TypeOK /\ CallShape /\ PacerShape /\ [Next]_vars => PacerShape'
  <2> SUFFICES ASSUME TypeOK, CallShape, PacerShape, [Next]_vars PROVE PacerShape'
    OBVIOUS
  <2>0. MutationDelay \in Nat /\ None \notin Callers
    BY GateAssumption
  <2>1. ASSUME NEW c \in Callers, NEW t \in Tokens, NEW m \in BOOLEAN, Call(c, t, m)
        PROVE  PacerShape'
    BY <2>1 DEF Call, TypeOK, PacerShape
  <2>2. ASSUME NEW c \in Callers, TakeSlot(c) PROVE PacerShape'
    BY <2>2 DEF TakeSlot, TypeOK, PacerShape
  <2>3. ASSUME NEW c \in Callers, TakeMutationLock(c) PROVE PacerShape'
    BY <2>0, <2>3 DEF TakeMutationLock, TypeOK, PacerShape
  <2>4. ASSUME NEW c \in Callers, EndPacing(c) PROVE PacerShape'
    BY <2>0, <2>4 DEF EndPacing, TypeOK, PacerShape
  <2>5. ASSUME NEW c \in Callers, Answer(c) PROVE PacerShape'
    <3>1. Return(c)
      BY <2>5, AnswerLengthens
    <3>2. QED BY <3>1 DEF Return, TypeOK, PacerShape
  <2>6. ASSUME Tick PROVE PacerShape'
    <3>1. at' = at /\ pacer' = pacer
      BY <2>6 DEF Tick
    <3>2. ASSUME NEW c \in Callers, at[c] = "pacing"
          PROVE  sleep'[c] + sinceMutation' >= MutationDelay
      <4>1. sleep[c] + sinceMutation >= MutationDelay
        BY <3>2 DEF PacerShape
      <4>2. sleep[c] \in Nat /\ sinceMutation \in Nat
        BY <2>0 DEF TypeOK
      <4>3. /\ sleep'[c] = Later(sleep[c] - 1, 0)
            /\ sinceMutation' = Sooner(sinceMutation + 1, MutationDelay)
        BY <2>6 DEF Tick
      <4>4. QED BY <2>0, <4>1, <4>2, <4>3 DEF Later, Sooner
    <3>3. QED BY <3>1, <3>2 DEF PacerShape
  <2>7. CASE UNCHANGED vars
    BY <2>7 DEF vars, callVars, PacerShape
  <2>8. QED BY <2>1, <2>2, <2>3, <2>4, <2>5, <2>6, <2>7 DEF Next
<1>3. TypeOK /\ CallShape /\ PacerShape /\ [Next]_vars =>
        [\A c \in Callers :
           at[c] = "pacing" /\ at'[c] = "flying" => sinceMutation = MutationDelay]_vars
  <2> SUFFICES ASSUME TypeOK, CallShape, PacerShape, Next,
                      NEW d \in Callers, at[d] = "pacing", at'[d] = "flying"
               PROVE  sinceMutation = MutationDelay
    OBVIOUS
  <2>1. ASSUME NEW c \in Callers, EndPacing(c) PROVE sinceMutation = MutationDelay
    <3>1. at[c] = "pacing" /\ sleep[c] = 0
      BY <2>1 DEF EndPacing
    <3>2. sleep[c] + sinceMutation >= MutationDelay
      BY <3>1 DEF PacerShape
    <3>3. QED BY <3>1, <3>2, GateAssumption DEF TypeOK
  <2>2. ASSUME NEW c \in Callers, Answer(c) PROVE FALSE
    <3>1. Return(c)
      BY <2>2, AnswerLengthens
    <3>2. QED BY <3>1 DEF Return, TypeOK
  <2>3. ASSUME NEW c \in Callers, NEW t \in Tokens, NEW m \in BOOLEAN, Call(c, t, m) PROVE FALSE
    BY <2>3 DEF Call, TypeOK
  <2>4. ASSUME NEW c \in Callers, TakeSlot(c) \/ TakeMutationLock(c) PROVE FALSE
    BY <2>4 DEF TakeSlot, TakeMutationLock, TypeOK
  <2>5. QED BY <2>1, <2>2, <2>3, <2>4 DEF Next, Tick
<1>4. QED BY <1>1, <1>2, <1>3, CallsShaped, PTL DEF Spec, MutationsSpaced

(* A request that goes out during its token's cooldown was committed.      *)
LEMMA SendingKeepsRoom ==
  ASSUME TypeOK, CallShape, StrayRoom, NEW c \in Callers,
         at[c] \in {"waiting", "slotted", "pacing"}, Sent(c),
         at' = [at EXCEPT ![c] = "flying"], token' = token, cooldown' = cooldown
  PROVE  StrayRoom'
<1>1. token[c] \in Tokens /\ c \in Committed(token[c])
  BY DEF CallShape, Committed
<1>2. Committed(token[c])' = Committed(token[c]) \ {c}
  BY DEF Committed, TypeOK
<1>3. Cardinality(Committed(token[c])') = Cardinality(Committed(token[c])) - 1
  <2>1. IsFiniteSet(Committed(token[c]))
    BY CallerSets DEF Committed
  <2>2. QED BY <1>1, <1>2, <2>1, FS_RemoveElement
<1>4. \A t \in Tokens : t # token[c] => Committed(t)' = Committed(t) /\ strays'[t] = strays[t]
  BY <1>1 DEF Committed, TypeOK, Sent
<1>5. \A t \in Tokens : Cooling(t)' = Cooling(t)
  BY DEF Cooling
<1>6. strays'[token[c]] = IF Cooling(token[c]) THEN strays[token[c]] + 1 ELSE strays[token[c]]
  BY <1>1 DEF Sent, TypeOK
<1>7. \A t \in Tokens : strays[t] \in Nat /\ Cardinality(Committed(t)) \in Nat
  BY CallerSets DEF TypeOK, Committed
<1>8. Cardinality(Callers) \in Nat
  BY CallerSets
<1>9. ASSUME NEW t \in Tokens
      PROVE  IF Cooling(t)' THEN strays'[t] + Cardinality(Committed(t)') < Cardinality(Callers)
             ELSE strays'[t] = 0
  <2>1. CASE t = token[c]
    BY <1>3, <1>5, <1>6, <1>7, <1>8, <2>1 DEF StrayRoom
  <2>2. CASE t # token[c]
    BY <1>4, <1>5, <2>2 DEF StrayRoom
  <2>3. QED BY <2>1, <2>2
<1>10. QED BY <1>9 DEF StrayRoom

(* During a cooldown at most one request of every other thread goes out:   *)
(* the cooldown begins with a thread that is done, and nobody commits.     *)
THEOREM StraysAreBounded == Spec => []StraysBounded
<1>1. Init => StrayRoom
  BY DEF Init, StrayRoom, Cooling
<1>2. TypeOK /\ CallShape /\ StrayRoom /\ [Next]_vars => StrayRoom'
  <2> SUFFICES ASSUME TypeOK, CallShape, StrayRoom, [Next]_vars PROVE StrayRoom'
    OBVIOUS
  <2>0. \A t \in Tokens : cooldown[t] \in Nat /\ strays[t] \in Nat
    BY DEF TypeOK
  <2>1. ASSUME NEW c \in Callers, NEW t \in Tokens, NEW m \in BOOLEAN, Call(c, t, m)
        PROVE  StrayRoom'
    <3>1. \A u \in Tokens : u # t => Committed(u)' \subseteq Committed(u)
      BY <2>1 DEF Call, Committed, TypeOK
    <3>2. \A u \in Tokens : u # t => Committed(u) \subseteq Committed(u)'
      BY <2>1 DEF Call, Committed, TypeOK
    <3>3. \A u \in Tokens : Cooling(u)' = Cooling(u) /\ strays'[u] = strays[u]
      BY <2>1 DEF Call, Cooling
    <3>4. ~Cooling(t)
      BY <2>1 DEF Call
    <3>5. QED BY <3>1, <3>2, <3>3, <3>4 DEF StrayRoom
  <2>2. ASSUME NEW c \in Callers, TakeSlot(c) PROVE StrayRoom'
    <3>1. CASE mutates[c]
      <4>1. \A t \in Tokens : Committed(t)' = Committed(t)
        BY <2>2, <3>1 DEF TakeSlot, Committed, TypeOK
      <4>2. QED BY <2>2, <3>1, <4>1 DEF TakeSlot, StrayRoom, Cooling
    <3>2. CASE ~mutates[c]
      BY <2>2, <3>2, SendingKeepsRoom DEF TakeSlot
    <3>3. QED BY <3>1, <3>2
  <2>3. ASSUME NEW c \in Callers, TakeMutationLock(c) PROVE StrayRoom'
    <3>1. \A t \in Tokens : Committed(t)' = Committed(t)
      BY <2>3 DEF TakeMutationLock, Committed, TypeOK
    <3>2. QED BY <2>3, <3>1 DEF TakeMutationLock, StrayRoom, Cooling
  <2>4. ASSUME NEW c \in Callers, EndPacing(c) PROVE StrayRoom'
    BY <2>4, SendingKeepsRoom DEF EndPacing
  <2>5. ASSUME NEW c \in Callers, Answer(c) PROVE StrayRoom'
    <3>1. token[c] \in Tokens /\ Return(c) /\ Lengthens(token[c])
      BY <2>5, AnswerLengthens
    <3>2. \A t \in Tokens : Committed(t)' = Committed(t) /\ c \notin Committed(t)
      BY <3>1 DEF Return, Committed, TypeOK
    <3>3. \A t \in Tokens : Cardinality(Committed(t)) < Cardinality(Callers)
      <4>1. ASSUME NEW t \in Tokens PROVE Cardinality(Committed(t)) < Cardinality(Callers)
        <5>1. Committed(t) \subseteq Callers \ {c}
          BY <3>2 DEF Committed
        <5>2. IsFiniteSet(Callers \ {c}) /\ Cardinality(Callers \ {c}) = Cardinality(Callers) - 1
          BY CallerSets, FS_RemoveElement, GateAssumption
        <5>3. Cardinality(Committed(t)) <= Cardinality(Callers \ {c})
          BY <5>1, <5>2, FS_Subset
        <5>4. QED BY <5>1, <5>2, <5>3, CallerSets
      <4>2. QED BY <4>1
    <3>4. strays' = strays
      BY <3>1 DEF Return
    <3>5. \A t \in Tokens : Cooling(t) => Cooling(t)'
      BY <2>0, <3>1 DEF Lengthens, Cooling
    <3>6. \A t \in Tokens : Cardinality(Committed(t)) \in Nat
      BY CallerSets DEF Committed
    <3>7. ASSUME NEW t \in Tokens
          PROVE  IF Cooling(t)' THEN strays'[t] + Cardinality(Committed(t)') < Cardinality(Callers)
                 ELSE strays'[t] = 0
      <4>1. CASE Cooling(t)
        BY <3>2, <3>4, <3>5, <4>1 DEF StrayRoom
      <4>2. CASE ~Cooling(t)
        <5>1. strays'[t] = 0
          BY <3>4, <4>2 DEF StrayRoom
        <5>2. QED BY <3>2, <3>3, <3>6, <5>1
      <4>3. QED BY <4>1, <4>2
    <3>8. QED BY <3>7 DEF StrayRoom
  <2>6. ASSUME Tick PROVE StrayRoom'
    <3>1. \A t \in Tokens : Committed(t)' = Committed(t)
      BY <2>6 DEF Tick, Committed
    <3>2. \A t \in Tokens : Cooling(t)' <=> cooldown[t] > 1
      BY <2>0, <2>6 DEF Tick, Cooling, Later
    <3>3. \A t \in Tokens : strays'[t] = IF cooldown[t] > 1 THEN strays[t] ELSE 0
      BY <2>6 DEF Tick
    <3>4. \A t \in Tokens : cooldown[t] > 1 => Cooling(t)
      BY <2>0 DEF Cooling
    <3>5. QED BY <3>1, <3>2, <3>3, <3>4 DEF StrayRoom
  <2>7. CASE UNCHANGED vars
    <3>1. \A t \in Tokens : Committed(t)' = Committed(t) /\ Cooling(t)' = Cooling(t) /\ strays'[t] = strays[t]
      BY <2>7 DEF vars, callVars, Committed, Cooling
    <3>2. QED BY <3>1 DEF StrayRoom
  <2>8. QED BY <2>1, <2>2, <2>3, <2>4, <2>5, <2>6, <2>7 DEF Next
<1>3. TypeOK /\ StrayRoom => StraysBounded
  <2>1. Cardinality(Callers) \in Nat \ {0}
    BY CallerSets, FS_EmptySet, GateAssumption
  <2>2. \A t \in Tokens : Cardinality(Committed(t)) \in Nat
    BY CallerSets DEF Committed
  <2>3. QED BY <2>1, <2>2 DEF TypeOK, StrayRoom, StraysBounded
<1>4. QED BY <1>1, <1>2, <1>3, CallsShaped, PTL DEF Spec

-----------------------------------------------------------------------------
(* At most GITHUB_MAX_CONCURRENT_REQUESTS requests are in flight or paced  *)
(* over all threads (_request): a mutation waits out its delay inside its  *)
(* slot, and no answer, error or timeout gives a slot back twice.          *)
THEOREM RequestsBounded == Spec => [](Cardinality(InSlot) <= MaxRequests)
<1> DEFINE Bounded == Cardinality(InSlot) <= MaxRequests
<1>0. MaxRequests \in Nat
  BY GateAssumption
<1>1. Init => Bounded
  <2> SUFFICES ASSUME Init PROVE InSlot = {}
    BY <1>0, FS_EmptySet
  <2> QED BY DEF Init, InSlot
<1>2. TypeOK /\ CallShape /\ Bounded /\ [Next]_vars => Bounded'
  <2> SUFFICES ASSUME TypeOK, CallShape, Bounded, [Next]_vars PROVE Bounded'
    OBVIOUS
  <2>1. IsFiniteSet(InSlot) /\ Cardinality(InSlot) \in Nat
    BY CallerSets DEF InSlot
  <2>2. ASSUME NEW c \in Callers, TakeSlot(c) PROVE Bounded'
    <3>1. InSlot' = InSlot \cup {c} /\ c \notin InSlot
      BY <2>2 DEF TakeSlot, InSlot, TypeOK
    <3>2. Cardinality(InSlot') = Cardinality(InSlot) + 1
      BY <2>1, <3>1, FS_AddElement
    <3>3. Cardinality(InSlot) < MaxRequests
      BY <2>2 DEF TakeSlot
    <3> QED BY <1>0, <2>1, <3>2, <3>3
  <2>3. ASSUME InSlot' \subseteq InSlot PROVE Bounded'
    <3>1. Cardinality(InSlot') <= Cardinality(InSlot) /\ Cardinality(InSlot') \in Nat
      BY <2>1, <2>3, FS_Subset, FS_CardinalityType
    <3> QED BY <1>0, <2>1, <3>1
  <2>4. ASSUME NEW c \in Callers, Answer(c) PROVE InSlot' \subseteq InSlot
    <3>1. Return(c)
      BY <2>4, AnswerLengthens
    <3> QED BY <3>1 DEF Return, InSlot, TypeOK
  <2>5. ASSUME NEW c \in Callers, TakeMutationLock(c) \/ EndPacing(c)
        PROVE  InSlot' \subseteq InSlot
    BY <2>5 DEF TakeMutationLock, EndPacing, InSlot, TypeOK
  <2>6. ASSUME NEW c \in Callers, NEW t \in Tokens, NEW m \in BOOLEAN, Call(c, t, m)
        PROVE  InSlot' \subseteq InSlot
    BY <2>6 DEF Call, InSlot, TypeOK
  <2>7. CASE Tick \/ UNCHANGED vars
    <3>1. InSlot' = InSlot
      BY <2>7 DEF Tick, InSlot, vars, callVars
    <3> QED BY <2>3, <3>1
  <2> HIDE DEF Bounded
  <2> QED BY <2>2, <2>3, <2>4, <2>5, <2>6, <2>7 DEF Next
<1> QED BY <1>1, <1>2, CallsShaped, PTL DEF Spec
=============================================================================
