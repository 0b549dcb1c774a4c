----------------------------- MODULE GitHubClient -----------------------------
(***************************************************************************)
(* The gate every GitHub request goes through (_request of                 *)
(* orchestrator/rorch/github_client.py): a token in cooldown is refused,   *)
(* at most MaxRequests requests are in flight over all threads, requests   *)
(* that change something are paced, and every answer may put its token     *)
(* into a cooldown. Times are kept as the seconds left to them, so that the *)
(* clock itself need not be a variable.                                    *)
(*                                                                         *)
(* Answers themselves, and the cache that turns a 304 into one, are left   *)
(* out: a 304 is an answer like a 200 here.                                *)
(***************************************************************************)
EXTENDS Integers, FiniteSets

CONSTANTS
  Callers,        \* threads: pool ticks, repository checks, runner operations
  Tokens,         \* personal access tokens
  None,           \* no thread, no token
  MaxRequests,    \* GITHUB_MAX_CONCURRENT_REQUESTS
  MutationDelay,  \* MUTATION_DELAY_SECONDS
  SecondaryBase,  \* SECONDARY_RATE_LIMIT_BASE_SECONDS
  SecondaryMax,   \* SECONDARY_RATE_LIMIT_MAX_SECONDS
  Waits,          \* seconds an answer may ask to wait; bounds the model
  MaxFailures     \* secondary limits in a row; bounds the model

ASSUME GateAssumption ==
  /\ None \notin Callers \cup Tokens
  /\ IsFiniteSet(Callers) /\ Callers # {}
  /\ MaxRequests \in Nat \ {0} /\ MutationDelay \in Nat \ {0}
  /\ SecondaryBase \in Nat \ {0} /\ SecondaryMax \in Nat \ {0}
  /\ Waits \subseteq Nat /\ MaxFailures \in Nat

VARIABLES
  at,             \* caller -> where its call is
  token,          \* caller -> the token of its call
  mutates,        \* caller -> whether its call is a DELETE
  sleep,          \* caller -> seconds left of its pacing sleep
  pacer,          \* holder of _mutation_lock
  sinceMutation,  \* seconds since _last_mutation_at, up to MutationDelay
  cooldown,       \* seconds left until _blocked_until; 0 for no entry
  failures,       \* _secondary_failures
  strays          \* token -> requests sent while it was in cooldown

callVars == <<at, token, mutates, sleep>>
vars == <<callVars, pacer, sinceMutation, cooldown, failures, strays>>

TypeOK ==
  /\ at \in [Callers -> {"idle", "waiting", "slotted", "pacing", "flying"}]
  /\ token \in [Callers -> Tokens \cup {None}]
  /\ mutates \in [Callers -> BOOLEAN]
  /\ sleep \in [Callers -> 0 .. MutationDelay]
  /\ pacer \in Callers \cup {None}
  /\ sinceMutation \in 0 .. MutationDelay
  /\ cooldown \in [Tokens -> Nat]
  /\ \A t \in Tokens : cooldown[t] <= SecondaryMax \/ \E w \in Waits : cooldown[t] <= w + 1
  /\ failures \in [Tokens -> 0 .. MaxFailures]
  /\ strays \in [Tokens -> Nat]

-----------------------------------------------------------------------------
InSlot == {c \in Callers : at[c] \in {"slotted", "pacing", "flying"}}
Cooling(t) == cooldown[t] > 0

Later(x, y) == IF x >= y THEN x ELSE y
Sooner(x, y) == IF x <= y THEN x ELSE y

\* Mutant: the last answer decides.
CooldownAfter_last(t, wait) == wait

\* max(previous, retry_at) of _block_token.
CooldownAfter(t, wait) == Later(cooldown[t], wait)

PowerOfTwo[n \in Nat] == IF n = 0 THEN 1 ELSE 2 * PowerOfTwo[n - 1]

\* Mutant: the doubling has no end.
Backoff_uncapped(n) == SecondaryBase * PowerOfTwo[n - 1]

\* The exponential backoff of a secondary limit that names no time.
Backoff(n) == Sooner(SecondaryBase * PowerOfTwo[n - 1], SecondaryMax)

\* The process starts long after _last_mutation_at, the epoch.
Init ==
  /\ at = [c \in Callers |-> "idle"]
  /\ token = [c \in Callers |-> None]
  /\ mutates = [c \in Callers |-> FALSE]
  /\ sleep = [c \in Callers |-> 0]
  /\ pacer = None
  /\ sinceMutation = MutationDelay
  /\ cooldown = [t \in Tokens |-> 0]
  /\ failures = [t \in Tokens |-> 0]
  /\ strays = [t \in Tokens |-> 0]

\* Mutant: the cooldown is not looked at.
Call_unchecked(c, t, m) ==
  /\ at[c] = "idle"
  /\ at' = [at EXCEPT ![c] = "waiting"]
  /\ token' = [token EXCEPT ![c] = t]
  /\ mutates' = [mutates EXCEPT ![c] = m]
  /\ UNCHANGED <<sleep, pacer, sinceMutation, cooldown, failures, strays>>

(* _request up to the slots. A call with a token in cooldown raises and    *)
(* changes nothing.                                                        *)
Call(c, t, m) ==
  /\ at[c] = "idle"
  /\ ~Cooling(t)
  /\ at' = [at EXCEPT ![c] = "waiting"]
  /\ token' = [token EXCEPT ![c] = t]
  /\ mutates' = [mutates EXCEPT ![c] = m]
  /\ UNCHANGED <<sleep, pacer, sinceMutation, cooldown, failures, strays>>

Sent(c) ==
  strays' = IF Cooling(token[c]) THEN [strays EXCEPT ![token[c]] = @ + 1] ELSE strays

(* A request slot is free: a read goes out, a mutation is paced first,     *)
(* holding its slot meanwhile.                                             *)
TakeSlot(c) ==
  /\ at[c] = "waiting"
  /\ Cardinality(InSlot) < MaxRequests
  /\ at' = [at EXCEPT ![c] = IF mutates[c] THEN "slotted" ELSE "flying"]
  /\ IF mutates[c] THEN UNCHANGED strays ELSE Sent(c)
  /\ UNCHANGED <<token, mutates, sleep, pacer, sinceMutation, cooldown, failures>>

\* Mutant: the delay is worked out before the lock is taken.
TakeMutationLock_unlocked(c) ==
  /\ at[c] = "slotted"
  /\ pacer' = c
  /\ sleep' = [sleep EXCEPT ![c] = MutationDelay - sinceMutation]
  /\ at' = [at EXCEPT ![c] = "pacing"]
  /\ UNCHANGED <<token, mutates, sinceMutation, cooldown, failures, strays>>

\* _pace_mutation: the lock, then what is left of the delay to sleep.
TakeMutationLock(c) ==
  /\ at[c] = "slotted"
  /\ pacer = None
  /\ pacer' = c
  /\ sleep' = [sleep EXCEPT ![c] = MutationDelay - sinceMutation]
  /\ at' = [at EXCEPT ![c] = "pacing"]
  /\ UNCHANGED <<token, mutates, sinceMutation, cooldown, failures, strays>>

\* Mutant: the lock is not given back.
EndPacing_keepsLock(c) ==
  /\ at[c] = "pacing" /\ sleep[c] = 0
  /\ sinceMutation' = 0
  /\ at' = [at EXCEPT ![c] = "flying"]
  /\ Sent(c)
  /\ UNCHANGED <<token, mutates, sleep, pacer, cooldown, failures>>

(* The sleep is over: the mutation is stamped, the lock given back, and    *)
(* the request goes out. The cooldown is not looked at again.              *)
EndPacing(c) ==
  /\ at[c] = "pacing" /\ sleep[c] = 0
  /\ sinceMutation' = 0
  /\ pacer' = None
  /\ at' = [at EXCEPT ![c] = "flying"]
  /\ Sent(c)
  /\ UNCHANGED <<token, mutates, sleep, cooldown, failures>>

Return(c) ==
  /\ at[c] = "flying"
  /\ at' = [at EXCEPT ![c] = "idle"]
  /\ token' = [token EXCEPT ![c] = None]
  /\ mutates' = [mutates EXCEPT ![c] = FALSE]
  /\ UNCHANGED <<sleep, pacer, sinceMutation, strays>>

Block(t, wait) == cooldown' = [cooldown EXCEPT ![t] = CooldownAfter(t, wait)]

\* 200, 204 or 304 with budget left.
Succeeds(c) ==
  /\ Return(c)
  /\ failures' = [failures EXCEPT ![token[c]] = 0]
  /\ UNCHANGED cooldown

\* The answer shows the reserve reached: it is dropped and the token rests
\* until one second after the reset, which lies ahead.
ReserveReached(c) ==
  /\ Return(c)
  /\ \E w \in Waits \ {0} : Block(token[c], w + 1)
  /\ UNCHANGED failures

\* Retry-After, or the primary limit's reset, which may lie behind.
Limited(c) ==
  /\ Return(c)
  /\ \E w \in Waits : Block(token[c], w)
  /\ UNCHANGED failures

\* A secondary limit that names no time doubles the token's backoff.
SecondaryLimited(c) ==
  /\ Return(c)
  /\ failures[token[c]] < MaxFailures
  /\ failures' = [failures EXCEPT ![token[c]] = @ + 1]
  /\ Block(token[c], Backoff(failures[token[c]] + 1))

\* Any other error, a timeout included: the call answers None.
Fails(c) ==
  /\ Return(c)
  /\ UNCHANGED <<cooldown, failures>>

\* A second passes. A sleep that is over keeps nobody from waking late.
Tick ==
  /\ cooldown' = [t \in Tokens |-> Later(cooldown[t] - 1, 0)]
  /\ strays' = [t \in Tokens |-> IF cooldown[t] > 1 THEN strays[t] ELSE 0]
  /\ sleep' = [c \in Callers |-> Later(sleep[c] - 1, 0)]
  /\ sinceMutation' = Sooner(sinceMutation + 1, MutationDelay)
  /\ UNCHANGED <<at, token, mutates, pacer, failures>>

Answer(c) ==
  Succeeds(c) \/ ReserveReached(c) \/ Limited(c) \/ SecondaryLimited(c) \/ Fails(c)

Next ==
  \/ \E c \in Callers :
       \/ \E t \in Tokens, m \in BOOLEAN : Call(c, t, m)
       \/ TakeSlot(c) \/ TakeMutationLock(c) \/ EndPacing(c) \/ Answer(c)
  \/ Tick

Spec == Init /\ [][Next]_vars

(* Requests time out after ten seconds, so every call in flight returns;   *)
(* threads are scheduled, semaphore and lock are handed on, time passes.   *)
Fairness ==
  /\ WF_vars(Tick)
  /\ \A c \in Callers :
       /\ WF_vars(Answer(c)) /\ WF_vars(EndPacing(c))
       /\ SF_vars(TakeSlot(c)) /\ SF_vars(TakeMutationLock(c))

LiveSpec == Spec /\ Fairness

-----------------------------------------------------------------------------
(* Properties.                                                             *)

(* A cooldown is never cut short, in whatever order the answers of         *)
(* concurrent requests arrive (_block_token): it only ends by running out. *)
CooldownKept ==
  [][cooldown' # cooldown =>
       \/ \A t \in Tokens : cooldown'[t] >= cooldown[t]
       \/ \A t \in Tokens : cooldown'[t] = Later(cooldown[t] - 1, 0)]_vars

(* During a cooldown a token's requests stop: only those go out that had   *)
(* passed the gate before, at most one of every other thread (_request     *)
(* looks at the cooldown once, before it waits for a slot).                *)
StraysBounded == \A t \in Tokens : strays[t] < Cardinality(Callers)

(* A mutation leaves _pace_mutation at least MutationDelay after the one   *)
(* before it ("at least one second apart").                                *)
MutationsSpaced ==
  [][\A c \in Callers :
       at[c] = "pacing" /\ at'[c] = "flying" => sinceMutation = MutationDelay]_vars

(* Every call comes back: pacing, slots and cooldowns lock nobody out.     *)
CallsReturn == \A c \in Callers : at[c] # "idle" ~> at[c] = "idle"

-----------------------------------------------------------------------------
(* The inductive invariant behind the first three (GitHubClient_proofs).   *)

\* A call under way has a token.
CallShape == \A c \in Callers : at[c] # "idle" => token[c] \in Tokens

\* Only the holder of the lock paces, and it sleeps long enough.
PacerShape ==
  \A c \in Callers :
    /\ at[c] = "pacing" <=> pacer = c
    /\ at[c] = "pacing" => sleep[c] + sinceMutation >= MutationDelay

\* Calls past the cooldown check that have not been sent yet.
Committed(t) ==
  {c \in Callers : token[c] = t /\ at[c] \in {"waiting", "slotted", "pacing"}}

\* A cooldown begins with the answer to a call that is over by then, and lets
\* no further call commit.
StrayRoom ==
  \A t \in Tokens :
    IF Cooling(t) THEN strays[t] + Cardinality(Committed(t)) < Cardinality(Callers)
    ELSE strays[t] = 0
=============================================================================
