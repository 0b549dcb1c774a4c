------------------------------ MODULE Federation ------------------------------
(***************************************************************************)
(* Equal peers share the queue of one pool (federation.py, scaler.py,      *)
(* __main__.py): each host publishes a snapshot, keeps the last one it     *)
(* fetched from every peer, deals the queue out over the snapshots it      *)
(* holds and spawns its own share.  Fetches fail, views get stale, hosts   *)
(* get hot, restart, or answer fetches without ever ticking again.         *)
(***************************************************************************)
EXTENDS Integers, FiniteSets, FiniteSetsExt

CONSTANTS
  Hosts,     \* instances
  Rank,      \* host -> where its name sorts
  Jobs,      \* jobs the pool's labels serve; each is queued once
  Free,      \* host -> free_cores
  MaxRunners, \* host -> max_runners of the pool there
  MaxTotal,  \* host -> max_total_runners there; 0 is no ceiling
  Temps,     \* temp_c a host may publish; None if it has no sensor
  MaxTemp,   \* host -> max_temp_c in its own config.yml
  Steady,    \* hosts that keep ticking and never get hot in their own eyes
  None

ASSUME FederationAssumption ==
  /\ IsFiniteSet(Hosts) /\ None \notin Hosts
  /\ Hosts \cap {"none", "fresh", "old", "done"} = {}
  /\ Rank \in [Hosts -> Nat] /\ \A g, h \in Hosts : Rank[g] = Rank[h] => g = h
  /\ IsFiniteSet(Jobs)
  /\ Free \in [Hosts -> Nat] /\ MaxRunners \in [Hosts -> Nat] /\ MaxTotal \in [Hosts -> Nat]
  /\ Temps \subseteq Nat \cup {None} /\ MaxTemp \in [Hosts -> Nat]
  /\ Steady \subseteq Hosts

VARIABLES
  job,     \* job -> "none", "fresh", "old" (rescue_after_seconds), a host, "done"
  idle,    \* host -> runners up that wait for a job
  counts,  \* host -> _pool_counts of the pool, or None
  own,     \* host -> the snapshot it publishes, or None
  view,    \* host -> peer -> the peer's snapshot while it is fresh, or None
  want     \* host -> runners its tick is about to spawn, or None

vars == <<job, idle, counts, own, view, want>>

Queued == {j \in Jobs : job[j] \in {"fresh", "old"}}
Busy(h) == Cardinality({j \in Jobs : job[j] = h})
Running(h) == idle[h] + Busy(h)
Pos(n) == IF n > 0 THEN n ELSE 0

Snapshots ==
  [temp : Nat \cup {None}, globalFree : Nat \cup {None},
   pool : [running : Nat, busy : Nat] \cup {None}]

TypeOK ==
  /\ job \in [Jobs -> {"none", "fresh", "old", "done"} \cup Hosts]
  /\ idle \in [Hosts -> Nat]
  /\ counts \in [Hosts -> [running : Nat, busy : Nat] \cup {None}]
  /\ own \in [Hosts -> Snapshots \cup {None}]
  /\ view \in [Hosts -> [Hosts -> Snapshots \cup {None}]]
  /\ want \in [Hosts -> Nat \cup {None}]
  /\ \A h \in Hosts : Running(h) + (IF want[h] = None THEN 0 ELSE want[h]) <= MaxRunners[h]

-----------------------------------------------------------------------------
(* The split.                                                              *)

\* Host h finds a temperature too high: by its own max_temp_c, also for a peer.
TooHot(h, temp) == temp # None /\ temp >= MaxTemp[h]

\* slot_for: how many queued jobs, as host h sees it, host g with snapshot s
\* may still take.
Capacity(h, g, s) ==
  LET room == MaxRunners[g] - s.pool.busy
      left == s.globalFree + s.pool.running - s.pool.busy
  IN  IF TooHot(h, s.temp) THEN 0
      ELSE Pos(IF s.globalFree = None \/ room <= left THEN room ELSE left)

\* The snapshots host h splits over: its own and the fresh ones.
Known(h) == [g \in Hosts |-> IF g = h THEN own[h] ELSE view[h][g]]
Slots(h) == {g \in Hosts : Known(h)[g] # None /\ Known(h)[g].pool # None}

\* Mutant: whoever computes wins its ties.
Best_me(h, open, given) ==
  CHOOSE g \in open : \A i \in open :
    LET mine == (Free[g] + 1) * (given[i] + 1)
        other == (Free[i] + 1) * (given[g] + 1)
    IN  mine > other \/ (mine = other /\ (g = h \/ (i # h /\ Rank[g] <= Rank[i])))

\* Whom host h gives the next job: the most free cores per job already
\* given, the first name among equals.
Best(h, open, given) ==
  CHOOSE g \in open : \A i \in open :
    LET mine == (Free[g] + 1) * (given[i] + 1)
        other == (Free[i] + 1) * (given[g] + 1)
    IN  mine > other \/ (mine = other /\ Rank[g] <= Rank[i])

\* The next job of the queue, dealt by host h; given is what each host has.
Deal(h, given) ==
  LET open == {g \in Slots(h) : given[g] < Capacity(h, g, Known(h)[g])}
  IN  IF open = {} THEN given
      ELSE [given EXCEPT ![Best(h, open, given)] = @ + 1]

\* split: what each host gets of n queued jobs, as host h computes it.
Split(h, n) ==
  LET dealt[k \in 0..n] ==
        IF k = 0 THEN [g \in Slots(h) |-> 0] ELSE Deal(h, dealt[k - 1])
  IN  dealt[n]

MyShare(h, n) == IF h \in Slots(h) THEN Split(h, n)[h] ELSE 0

\* covers: the host's snapshot has the pool and so has a fresh peer's.
Covers(h) == h \in Slots(h) /\ Slots(h) # {h}

\* Mutant: old jobs stay with the host they were dealt to.
QueueInput_share(h) == MyShare(h, Cardinality(Queued))

\* queue_input of a host that is not hot.
QueueInput(h) ==
  LET mine == MyShare(h, Cardinality(Queued))
      rescue == Cardinality({j \in Jobs : job[j] = "old"})
  IN  IF mine >= rescue THEN mine ELSE rescue

Hot(h) == own[h] # None /\ TooHot(h, own[h].temp)

\* Mutant: runners that are up already do not cover the need.
SpawnCount_anew(h, queued) ==
  IF Busy(h) + queued <= MaxRunners[h] THEN Busy(h) + queued ELSE MaxRunners[h]

\* _calculate_spawn_count, with min_idle 0.
SpawnCount(h, queued) ==
  LET desired == IF Busy(h) + queued <= MaxRunners[h] THEN Busy(h) + queued ELSE MaxRunners[h]
  IN  Pos(desired - Running(h))

-----------------------------------------------------------------------------
Init ==
  /\ job = [j \in Jobs |-> "none"]
  /\ idle = [h \in Hosts |-> 0]
  /\ counts = [h \in Hosts |-> None]
  /\ own = [h \in Hosts |-> None]
  /\ view = [h \in Hosts |-> [g \in Hosts |-> None]]
  /\ want = [h \in Hosts |-> None]

\* A job of the forge is queued, waits, is taken by a runner of any host and
\* ends with it.
Arrives(j) ==
  /\ job[j] = "none"
  /\ job' = [job EXCEPT ![j] = "fresh"]
  /\ UNCHANGED <<idle, counts, own, view, want>>

Ages(j) ==
  /\ job[j] = "fresh"
  /\ job' = [job EXCEPT ![j] = "old"]
  /\ UNCHANGED <<idle, counts, own, view, want>>

Takes(h, j) ==
  /\ j \in Queued
  /\ idle[h] > 0
  /\ job' = [job EXCEPT ![j] = h]
  /\ idle' = [idle EXCEPT ![h] = @ - 1]
  /\ UNCHANGED <<counts, own, view, want>>

Ends(j) ==
  /\ job[j] \in Hosts
  /\ job' = [job EXCEPT ![j] = "done"]
  /\ UNCHANGED <<idle, counts, own, view, want>>

\* The snapshot of _refresh_federation: the counts of the last tick, the
\* room of now.
Published(h, temp) ==
  [temp |-> temp, pool |-> counts[h],
   globalFree |-> IF MaxTotal[h] = 0 THEN None ELSE Pos(MaxTotal[h] - Running(h))]

(* refresh: publish, then fetch what the peers publish.  A fetch that      *)
(* fails or does not validate leaves the last view as it is.               *)
Refresh(h) ==
  /\ \E temp \in Temps :
       /\ h \in Steady => ~TooHot(h, temp)
       /\ own' = [own EXCEPT ![h] = Published(h, temp)]
  /\ \E fetched \in SUBSET {g \in Hosts \ {h} : own[g] # None} :
       view' = [view EXCEPT ![h] =
         [g \in Hosts |-> IF g \in fetched THEN own[g] ELSE @[g]]]
  /\ UNCHANGED <<job, idle, counts, want>>

(* stale_after_seconds without a good fetch.                               *)
Expires(h, g) ==
  /\ view[h][g] # None
  /\ view' = [view EXCEPT ![h][g] = None]
  /\ UNCHANGED <<job, idle, counts, own, want>>

(* The first half of a tick: whether to federate, the inspection, the      *)
(* queue and the host's part of it.                                        *)
Inspect(h) ==
  /\ want[h] = None
  /\ counts' = [counts EXCEPT ![h] = [running |-> Running(h), busy |-> Busy(h)]]
  /\ want' = [want EXCEPT ![h] =
       SpawnCount(h, IF ~Covers(h) THEN Cardinality(Queued)
                     ELSE IF Hot(h) THEN 0 ELSE QueueInput(h))]
  /\ UNCHANGED <<job, idle, own, view>>

(* The second half; a hot host spawns nothing, nor does one at its ceiling. *)
Spawn(h) ==
  /\ want[h] # None
  /\ idle' = [idle EXCEPT ![h] = @ +
       (IF Hot(h) THEN 0
        ELSE IF MaxTotal[h] = 0 \/ Running(h) + want[h] <= MaxTotal[h] THEN want[h]
        ELSE Pos(MaxTotal[h] - Running(h)))]
  /\ want' = [want EXCEPT ![h] = None]
  /\ UNCHANGED <<job, counts, own, view>>

(* A restarted orchestrator knows nothing; its runners are still there.    *)
Restart(h) ==
  /\ h \notin Steady
  /\ counts' = [counts EXCEPT ![h] = None]
  /\ own' = [own EXCEPT ![h] = None]
  /\ view' = [view EXCEPT ![h] = [g \in Hosts |-> None]]
  /\ want' = [want EXCEPT ![h] = None]
  /\ UNCHANGED <<job, idle>>

Next ==
  \/ \E j \in Jobs : Arrives(j) \/ Ages(j) \/ Ends(j) \/ \E h \in Hosts : Takes(h, j)
  \/ \E h \in Hosts :
       Refresh(h) \/ Inspect(h) \/ Spawn(h) \/ Restart(h) \/ \E g \in Hosts : Expires(h, g)

Spec == Init /\ [][Next]_vars

\* Time passes, runners work, and the steady hosts tick; nothing is said of
\* the others, whose last snapshot may be fetched for ever.
LiveSpec ==
  /\ Spec
  /\ WF_vars(\E j \in Jobs : Ages(j)) /\ WF_vars(\E j \in Jobs : Ends(j))
  /\ \A h \in Hosts : WF_vars(\E j \in Jobs : Takes(h, j))
  /\ \A h \in Steady : WF_vars(Inspect(h)) /\ WF_vars(Spawn(h))

-----------------------------------------------------------------------------
(* Properties.                                                             *)

Total(f, S) == SumFunctionOnSet(f, S)

\* The hosts that federate hold each other's snapshots as published.
Members == {h \in Hosts : h \in Slots(h)}
Agreed ==
  /\ Members # {}
  /\ \A h \in Members : Slots(h) = Members /\ \A g \in Members : Known(h)[g] = own[g]

\* What each takes for itself adds up to the queue, or to the room there is.
SharesAddUp ==
  LET room == [h \in Members |-> Capacity(h, h, own[h])]
      all == Total(room, Members)
  IN  \A n \in 0..Total(MaxRunners, Hosts) + 1 :
        /\ \A h \in Members : MyShare(h, n) <= room[h]
        /\ Total([h \in Members |-> MyShare(h, n)], Members) = (IF n <= all THEN n ELSE all)

\* federation.py: the shares are "neither doubled nor left while room
\* exists".  It takes hosts that hold the same snapshots, and whose
\* max_temp_c call the same ones of them too hot.
SharesExact ==
  Agreed /\ (\A h, g, i \in Members : TooHot(h, own[i].temp) = TooHot(g, own[i].temp))
    => SharesAddUp

\* README.md: each host "fetches its peers' snapshots every tick, and runs
\* the same deterministic split".
SameSplitEverywhere ==
  Agreed => \A g, h \in Members : \A n \in 0..Total(MaxRunners, Hosts) :
              Split(g, n) = Split(h, n)

\* Jobs older than rescue_after_seconds count on every host: whatever the
\* peers claim, and however stale it is, the queue empties while one host
\* keeps ticking.
JobsServed == Queued # {} ~> Queued = {}
=============================================================================
