------------------------------ MODULE PoolScaler ------------------------------
(***************************************************************************)
(* The scaling tick of orchestrator/rorch/scaler.py: several pools tick    *)
(* concurrently, each decides how many runners it lacks from a snapshot,   *)
(* asks for that many spawn slots under the global ceiling, and hands the  *)
(* granted slots to worker threads that run `docker run`.                  *)
(*                                                                         *)
(* A slot stands for one spawn and the container it becomes: it is granted *)
(* (reserved), run by a worker, and its container lives until it stops.    *)
(* Slot names are reused here where the code draws a fresh uuid; nothing   *)
(* remembers the name of a container that is gone.                         *)
(***************************************************************************)
EXTENDS Integers, FiniteSets

CONSTANTS
  Pools,        \* configured pools; one tick of each at a time (TickLanes)
  Personal,     \* those that spread runners over an account's repositories
  Slots,        \* identities of spawns and containers; bounds the model
  None,         \* no pool
  Caps,         \* values max_total_runners may be set to; 0 is unlimited
  MaxRunners,   \* pool -> max_runners
  MinIdle,      \* pool -> min_idle
  Workers,      \* pool -> runner_operation_workers
  Demands,      \* busy + queued as an inspection may find it; bounds the model
  OwnContainer, \* 1 if the orchestrator runs as gh-runner-orchestrator, else 0
  Faults        \* which of "manual", "ps", "submit" may happen

ASSUME PoolsAssumption ==
  /\ IsFiniteSet(Slots)
  /\ None \notin Pools
  /\ Personal \subseteq Pools

ASSUME LimitsAssumption ==
  /\ Caps \subseteq Nat /\ Caps # {}
  /\ MaxRunners \in [Pools -> Nat]
  /\ MinIdle \in [Pools -> Nat]
  /\ Workers \in [Pools -> Nat \ {0}]
  /\ Demands \subseteq Nat /\ Demands # {}
  /\ OwnContainer \in {0, 1}

VARIABLES
  pc,        \* where each pool's tick is
  running,   \* PoolInspection.running: own containers counted by this tick
  want,      \* to_spawn, what the tick asks for
  seen,      \* the cap read and the containers counted under the cap lock
  granted,   \* spawn_count of _run_runner_operations
  broken,    \* executor.submit raised during this tick
  capLock,   \* holder of _cap_lock between counting and granting
  reserved,  \* _reserved_spawns
  cap,       \* _max_total_runners
  grant,     \* slot -> where its reservation is
  ctr,       \* slot -> whether its container runs
  owner      \* slot -> the pool it was granted to

tickVars == <<pc, running, want, seen, granted, broken>>
slotVars == <<grant, ctr, owner>>
vars == <<tickVars, capLock, reserved, cap, slotVars>>

PcValues == {"idle", "inspecting", "asking", "counting", "spawning"}
GrantValues == {"none", "waiting", "starting", "ran", "dropped"}
NothingSeen == [cap |-> 0, total |-> 0]

TypeOK ==
  /\ pc \in [Pools -> PcValues]
  /\ running \in [Pools -> Nat]
  /\ want \in [Pools -> Nat]
  /\ seen \in [Pools -> [cap : Caps \cup {0}, total : Nat]]
  /\ granted \in [Pools -> Nat]
  /\ broken \in [Pools -> BOOLEAN]
  /\ capLock \in Pools \cup {None}
  /\ reserved \in Nat
  /\ cap \in Caps
  /\ grant \in [Slots -> GrantValues]
  /\ ctr \in [Slots -> {"none", "running"}]
  /\ owner \in [Slots -> Pools \cup {None}]

-----------------------------------------------------------------------------
(* What the state says about slots.                                        *)

Free == {s \in Slots : owner[s] = None}
Occupied == {s \in Slots : owner[s] # None}     \* reserved or running
Held == {s \in Slots : grant[s] # "none"}       \* reserved, not yet released
Running == {s \in Slots : ctr[s] = "running"}   \* what `docker ps` lists
Own(p) == {s \in Slots : owner[s] = p}
OwnRunning(p) == Own(p) \cap Running
OwnHeld(p) == Own(p) \cap Held
Executing(p) == {s \in Own(p) : grant[s] \in {"starting", "ran"}}

AtMost(x, y) == IF x <= y THEN x ELSE y
AtLeast(x, y) == IF x >= y THEN x ELSE y

\* running_containers ignores the exit code of `docker ps`: a failed call
\* prints nothing and counts as no container at all.
PsCounts(n) == {n} \cup (IF "ps" \in Faults THEN {0} ELSE {})

\* _calculate_spawn_count, and the personal pool's min(max_runners - total, needed).
ToSpawn(p, n, demand) ==
  LET desired == AtMost(MaxRunners[p], AtLeast(MinIdle[p], demand))
      room    == AtLeast(0, MaxRunners[p] - n)
  IN  IF p \in Personal THEN AtMost(room, AtLeast(0, demand - n))
                        ELSE AtLeast(0, desired - n)

\* Mutant: spawns already granted are not subtracted.
Headroom_ignoresReserved(p) == AtLeast(0, seen[p].cap - seen[p].total)

\* Mutant: the counter is not clamped at zero.
Released_unclamped(n) == reserved - n

\* headroom and the grant of _reserve_spawns.
Headroom(p) == AtLeast(0, seen[p].cap - seen[p].total - reserved)
Grantable(p) ==
  IF seen[p].cap = 0 THEN want[p] ELSE AtMost(want[p], Headroom(p))

Released(n) == AtLeast(0, reserved - n)

-----------------------------------------------------------------------------
Init ==
  /\ pc = [p \in Pools |-> "idle"]
  /\ running = [p \in Pools |-> 0]
  /\ want = [p \in Pools |-> 0]
  /\ seen = [p \in Pools |-> NothingSeen]
  /\ granted = [p \in Pools |-> 0]
  /\ broken = [p \in Pools |-> FALSE]
  /\ capLock = None
  /\ reserved = 0
  /\ cap \in Caps
  /\ grant = [s \in Slots |-> "none"]
  /\ ctr = [s \in Slots |-> "none"]
  /\ owner = [s \in Slots |-> None]

(* _inspect_pool up to running_containers: this tick's own containers.     *)
Inspect(p) ==
  /\ pc[p] = "idle"
  /\ pc' = [pc EXCEPT ![p] = "inspecting"]
  /\ \E n \in PsCounts(Cardinality(OwnRunning(p))) :
       running' = [running EXCEPT ![p] = n]
  /\ UNCHANGED <<want, seen, granted, broken, capLock, reserved, cap, slotVars>>

(* list_runners answered None, a rate limit, or a failed repository check. *)
InspectionFails(p) ==
  /\ pc[p] = "inspecting"
  /\ pc' = [pc EXCEPT ![p] = "idle"]
  /\ running' = [running EXCEPT ![p] = 0]
  /\ UNCHANGED <<want, seen, granted, broken, capLock, reserved, cap, slotVars>>

(* The forge answered; the tick decides. It provisions nothing when the    *)
(* pool was draining as the tick was submitted or the host is hot.         *)
Decide(p) ==
  /\ pc[p] = "inspecting"
  /\ \E demand \in Demands, heldBack \in BOOLEAN :
       LET w == IF heldBack THEN 0 ELSE ToSpawn(p, running[p], demand)
       IN  /\ want' = [want EXCEPT ![p] = w]
           /\ pc' = [pc EXCEPT ![p] = IF w = 0 THEN "idle" ELSE "asking"]
           /\ running' = [running EXCEPT ![p] = IF w = 0 THEN 0 ELSE @]
  /\ UNCHANGED <<seen, granted, broken, capLock, reserved, cap, slotVars>>

(* _reserve_spawns enters the cap lock, reads the cap and asks docker.     *)
CountRunning(p) ==
  /\ pc[p] = "asking"
  /\ capLock = None
  /\ capLock' = p
  /\ pc' = [pc EXCEPT ![p] = "counting"]
  /\ \E n \in PsCounts(Cardinality(Running) + OwnContainer) :
       seen' = [seen EXCEPT ![p] = [cap |-> cap, total |-> n]]
  /\ UNCHANGED <<running, want, granted, broken, reserved, cap, slotVars>>

(* Mutant: the tick does not wait for its spawns.                          *)
Grant_noWait(p) ==
  /\ pc[p] = "counting" /\ capLock = p
  /\ \E S \in SUBSET Free :
       /\ Cardinality(S) = Grantable(p)
       /\ grant' = [s \in Slots |-> IF s \in S THEN "waiting" ELSE grant[s]]
       /\ owner' = [s \in Slots |-> IF s \in S THEN p ELSE owner[s]]
       /\ reserved' = reserved + Cardinality(S)
  /\ capLock' = None
  /\ pc' = [pc EXCEPT ![p] = "idle"]
  /\ UNCHANGED <<running, want, seen, granted, broken, cap, ctr>>

(* Mutant: granting nothing returns without leaving the cap lock.          *)
Grant_keepsLock(p) ==
  /\ pc[p] = "counting" /\ capLock = p
  /\ \E S \in SUBSET Free :
       /\ Cardinality(S) = Grantable(p)
       /\ grant' = [s \in Slots |-> IF s \in S THEN "waiting" ELSE grant[s]]
       /\ owner' = [s \in Slots |-> IF s \in S THEN p ELSE owner[s]]
       /\ reserved' = reserved + Cardinality(S)
       /\ granted' = [granted EXCEPT ![p] = Cardinality(S)]
       /\ capLock' = IF S = {} THEN p ELSE None
       /\ pc' = [pc EXCEPT ![p] = IF S = {} THEN "idle" ELSE "spawning"]
  /\ UNCHANGED <<running, want, seen, broken, cap, ctr>>

(* ... and grants, then leaves the lock; the granted slots are handed to   *)
(* the executor's queue.                                                   *)
Grant(p) ==
  LET n == Grantable(p)
  IN  /\ pc[p] = "counting"
      /\ capLock = p
      /\ capLock' = None
      /\ \E S \in SUBSET Free :
           /\ Cardinality(S) = n
           /\ grant' = [s \in Slots |-> IF s \in S THEN "waiting" ELSE grant[s]]
           /\ owner' = [s \in Slots |-> IF s \in S THEN p ELSE owner[s]]
      /\ reserved' = reserved + n
      /\ granted' = [granted EXCEPT ![p] = n]
      /\ pc' = [pc EXCEPT ![p] = IF n = 0 THEN "idle" ELSE "spawning"]
      /\ running' = [running EXCEPT ![p] = 0]
      /\ want' = [want EXCEPT ![p] = 0]
      /\ seen' = [seen EXCEPT ![p] = NothingSeen]
      /\ UNCHANGED <<broken, cap, ctr>>

(* executor.submit raised ("can't start new thread"): some granted spawns  *)
(* are never handed to a worker; those already queued still run.           *)
SubmitFails(p) ==
  /\ "submit" \in Faults
  /\ pc[p] = "spawning" /\ ~broken[p]
  /\ \E T \in SUBSET {s \in Own(p) : grant[s] = "waiting"} :
       grant' = [s \in Slots |-> IF s \in T THEN "dropped" ELSE grant[s]]
  /\ broken' = [broken EXCEPT ![p] = TRUE]
  /\ UNCHANGED <<pc, running, want, seen, granted, capLock, reserved, cap, ctr, owner>>

(* Mutant: off by one in the worker bound.                                 *)
StartSpawn_oneShort(s) ==
  /\ grant[s] = "waiting"
  /\ Cardinality(Executing(owner[s])) < Workers[owner[s]] - 1
  /\ grant' = [grant EXCEPT ![s] = "starting"]
  /\ UNCHANGED <<tickVars, capLock, reserved, cap, ctr, owner>>

(* A worker takes a queued spawn and runs `docker run`.                    *)
StartSpawn(s) ==
  /\ grant[s] = "waiting"
  /\ Cardinality(Executing(owner[s])) < Workers[owner[s]]
  /\ grant' = [grant EXCEPT ![s] = "starting"]
  /\ UNCHANGED <<tickVars, capLock, reserved, cap, ctr, owner>>

ContainerUp(s) ==
  /\ grant[s] = "starting"
  /\ grant' = [grant EXCEPT ![s] = "ran"]
  /\ ctr' = [ctr EXCEPT ![s] = "running"]
  /\ UNCHANGED <<tickVars, capLock, reserved, cap, owner>>

(* No usable image, no registration token, `docker run` failed or raised.  *)
SpawnFails(s) ==
  /\ grant[s] = "starting"
  /\ grant' = [grant EXCEPT ![s] = "ran"]
  /\ UNCHANGED <<tickVars, capLock, reserved, cap, ctr, owner>>

(* Mutant: only a successful spawn gives its slot back.                    *)
ReleaseSlot_onlySuccess(s) ==
  /\ grant[s] = "ran" /\ capLock = None
  /\ reserved' = IF ctr[s] = "running" THEN Released(1) ELSE reserved
  /\ grant' = [grant EXCEPT ![s] = "none"]
  /\ owner' = [owner EXCEPT ![s] = IF ctr[s] = "running" THEN @ ELSE None]
  /\ UNCHANGED <<tickVars, capLock, cap, ctr>>

(* Mutant: the slot is given back without taking the cap lock.             *)
ReleaseSlot_noLock(s) ==
  /\ grant[s] = "ran"
  /\ reserved' = Released(1)
  /\ grant' = [grant EXCEPT ![s] = "none"]
  /\ owner' = [owner EXCEPT ![s] = IF ctr[s] = "running" THEN @ ELSE None]
  /\ UNCHANGED <<tickVars, capLock, cap, ctr>>

(* The finally of _spawn_reserved, under the cap lock.                     *)
ReleaseSlot(s) ==
  /\ grant[s] = "ran"
  /\ capLock = None
  /\ reserved' = Released(1)
  /\ grant' = [grant EXCEPT ![s] = "none"]
  /\ owner' = [owner EXCEPT ![s] = IF ctr[s] = "running" THEN @ ELSE None]
  /\ UNCHANGED <<tickVars, capLock, cap, ctr>>

(* Every worker is done: _run_runner_operations releases what it believes  *)
(* was never submitted. After a raised submit that is the whole grant.     *)
EndTick(p) ==
  /\ pc[p] = "spawning"
  /\ \A s \in Own(p) : grant[s] \in {"none", "dropped"}
  /\ broken[p] => capLock = None
  /\ reserved' = IF broken[p] THEN Released(granted[p]) ELSE reserved
  /\ grant' = [s \in Slots |-> IF owner[s] = p THEN "none" ELSE grant[s]]
  /\ owner' = [s \in Slots |-> IF owner[s] = p /\ ctr[s] # "running" THEN None ELSE owner[s]]
  /\ pc' = [pc EXCEPT ![p] = "idle"]
  /\ granted' = [granted EXCEPT ![p] = 0]
  /\ broken' = [broken EXCEPT ![p] = FALSE]
  /\ UNCHANGED <<running, want, seen, capLock, cap, ctr>>

(* A runner ends its one job, or a reaper or the operator removes it.      *)
ContainerStops(s) ==
  /\ ctr[s] = "running"
  /\ ctr' = [ctr EXCEPT ![s] = "none"]
  /\ owner' = [owner EXCEPT ![s] = IF grant[s] = "none" THEN None ELSE @]
  /\ UNCHANGED <<tickVars, capLock, reserved, cap, grant>>

(* The main loop applies a changed max_total_runners between ticks.        *)
SetCap(c) ==
  /\ c # cap
  /\ cap' = c
  /\ UNCHANGED <<tickVars, capLock, reserved, slotVars>>

(* POST /api/pools/{name}/scale with delta 1 starts a container directly.  *)
ManualSpawn(p) ==
  /\ "manual" \in Faults
  /\ \E s \in Free :
       /\ ctr' = [ctr EXCEPT ![s] = "running"]
       /\ owner' = [owner EXCEPT ![s] = p]
  /\ UNCHANGED <<tickVars, capLock, reserved, cap, grant>>

(* The process dies and starts again. Containers outlive it; a `docker run`*)
(* dockerd had accepted has completed or not by the first tick.            *)
Restart ==
  \E U \in SUBSET {s \in Slots : grant[s] = "starting"} :
    LET alive(s) == ctr[s] = "running" \/ s \in U
    IN  /\ ctr' = [s \in Slots |-> IF alive(s) THEN "running" ELSE "none"]
        /\ owner' = [s \in Slots |-> IF alive(s) THEN owner[s] ELSE None]
        /\ grant' = [s \in Slots |-> "none"]
        /\ reserved' = 0
        /\ capLock' = None
        /\ pc' = [p \in Pools |-> "idle"]
        /\ running' = [p \in Pools |-> 0]
        /\ want' = [p \in Pools |-> 0]
        /\ seen' = [p \in Pools |-> NothingSeen]
        /\ granted' = [p \in Pools |-> 0]
        /\ broken' = [p \in Pools |-> FALSE]
        /\ UNCHANGED cap

PoolStep(p) ==
  \/ Inspect(p) \/ InspectionFails(p) \/ Decide(p)
  \/ CountRunning(p) \/ Grant(p) \/ SubmitFails(p) \/ EndTick(p)

SlotStep(s) ==
  \/ StartSpawn(s) \/ ContainerUp(s) \/ SpawnFails(s) \/ ReleaseSlot(s)

Next ==
  \/ \E p \in Pools : PoolStep(p)
  \/ \E s \in Slots : SlotStep(s)
  \/ \E s \in Slots : ContainerStops(s)
  \/ \E c \in Caps : SetCap(c)
  \/ \E p \in Pools : ManualSpawn(p)
  \/ Restart

Spec == Init /\ [][Next]_vars

(* A tick's own steps: what its thread and its workers do without waiting  *)
(* for the cap lock, and what they do once they get it.                    *)
TickStep(p) ==
  \/ InspectionFails(p) \/ Decide(p) \/ Grant(p)
  \/ \E s \in Slots : owner[s] = p /\ (StartSpawn(s) \/ ContainerUp(s) \/ SpawnFails(s))
LockedStep(p) ==
  \/ CountRunning(p) \/ EndTick(p)
  \/ \E s \in Slots : owner[s] = p /\ ReleaseSlot(s)

(* Docker and the forge answer every call and threads are scheduled; a     *)
(* thread waiting for the cap lock gets it, since the lock is free for     *)
(* most of every poll interval. A tick need never start.                   *)
Fairness == \A p \in Pools : WF_vars(TickStep(p)) /\ SF_vars(LockedStep(p))

LiveSpec == Spec /\ Fairness

-----------------------------------------------------------------------------
(* Properties.                                                             *)

(* "Every granted slot must be released exactly once": the counter other   *)
(* pools subtract from their headroom is exactly the slots still held      *)
(* (scaler.py, _reserve_spawns and its releases).                          *)
ReservedExact == reserved = Cardinality(Held)

(* Whatever fails, headroom is never stranded: the counter may fall short  *)
(* of the held slots but never counts one that nobody holds.               *)
NoStrandedHeadroom == reserved <= Cardinality(Held)

(* The hard ceiling of max_total_runners: the runners that run and the     *)
(* spawns already granted never exceed every value the cap was given,      *)
(* although pools count and grant concurrently with starting containers.   *)
CapNeverExceeded ==
  0 \notin Caps => \E c \in Caps : Cardinality(Occupied) <= c

(* "Never exceeds max_runners": the count a tick decides from is old when  *)
(* its grant arrives, and the pool still stays within its limit.           *)
PoolLimit == \A p \in Pools : Cardinality(Own(p)) <= MaxRunners[p]

(* The number of runners grows only by a grant, and a grant keeps it       *)
(* within the cap that grant read: lowering the cap stops growth at once   *)
(* for every grant that has not yet read it.                               *)
GrowthWithinCap ==
  [][Cardinality(Occupied') > Cardinality(Occupied) =>
       \E p \in Pools :
         /\ pc[p] = "counting"
         /\ seen[p].cap # 0 => Cardinality(Occupied') <= seen[p].cap]_vars

(* Every tick ends, so its lane can run the pool's next tick.              *)
TicksEnd == \A p \in Pools : pc[p] # "idle" ~> pc[p] = "idle"

(* Every reservation is handed back, whether its spawn ran, failed or was  *)
(* never handed to a worker.                                               *)
GrantsReturn == \A s \in Slots : grant[s] # "none" ~> grant[s] = "none"

-----------------------------------------------------------------------------
(* The inductive invariant behind them (PoolScaler_proofs).                *)

(* A slot has an owner exactly while it is reserved or running, and a      *)
(* container runs only once its `docker run` got that far.                 *)
SlotShape ==
  \A s \in Slots :
    /\ owner[s] = None <=> grant[s] = "none" /\ ctr[s] = "none"
    /\ ctr[s] = "running" => grant[s] \in {"none", "ran"}

\* Only a tick that is spawning holds reservations.
HeldWhileSpawning ==
  \A s \in Slots : grant[s] # "none" => pc[owner[s]] = "spawning"

\* The pool that counts is the one that holds the cap lock.
LockShape == \A p \in Pools : pc[p] = "counting" <=> capLock = p

\* A spawn is dropped only by a submission that raised.
DroppedOnlyIfBroken ==
  \A s \in Slots : grant[s] = "dropped" => broken[owner[s]]

Shape == SlotShape /\ HeldWhileSpawning /\ LockShape /\ DroppedOnlyIfBroken

\* Without a failing submit nothing is dropped.
NothingDropped ==
  /\ \A p \in Pools : ~broken[p]
  /\ \A s \in Slots : grant[s] # "dropped"

\* spawn_count covers what the tick still holds.
GrantedCovers == \A p \in Pools : Cardinality(OwnHeld(p)) <= granted[p]

\* Between counting and granting, what was counted and what was reserved
\* still cover every slot: releases wait for the lock.
SeenCovers ==
  \A p \in Pools :
    pc[p] = "counting" =>
      /\ seen[p].cap \in Caps
      /\ Cardinality(Occupied) <= seen[p].total + reserved

\* A tick's snapshot of its own containers can only be too high.
SnapshotCovers ==
  \A p \in Pools :
    /\ pc[p] \in {"inspecting", "asking", "counting"} =>
         Cardinality(Own(p)) <= running[p]
    /\ pc[p] \in {"asking", "counting"} =>
         running[p] + want[p] <= MaxRunners[p]

(* What all of it promises: see RunnerBudget.                              *)
Claimed == [p \in Pools |-> Own(p)]
Budget == INSTANCE RunnerBudget WITH claimed <- Claimed
BudgetSpec == Budget!Spec

=============================================================================
