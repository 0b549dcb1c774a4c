-------------------------- MODULE PoolScaler_proofs --------------------------
(* Theorems about PoolScaler, for every set of pools, slots and limits.    *)
EXTENDS PoolScaler, FiniteSetTheorems, TLAPS

(* Every set of slots is finite and has a size.                            *)
LEMMA SlotSets ==
  ASSUME NEW S \in SUBSET Slots
  PROVE  IsFiniteSet(S) /\ Cardinality(S) \in Nat
BY FS_Subset, FS_CardinalityType, PoolsAssumption

(* What the tick computes is a number; the released counter stays one.     *)
LEMMA Arithmetic ==
  ASSUME TypeOK, NEW p \in Pools
  PROVE  /\ \A n \in Nat, demand \in Demands : ToSpawn(p, n, demand) \in Nat
         /\ Grantable(p) \in Nat /\ Grantable(p) <= want[p]
         /\ \A n \in Nat : Released(n) \in Nat
         /\ \A n \in Nat : PsCounts(n) \subseteq Nat
<1>0. seen[p].cap \in Nat /\ seen[p].total \in Nat
  <2>1. seen[p] \in [cap : Caps \cup {0}, total : Nat]
    BY DEF TypeOK
  <2>2. seen[p].cap \in Caps \cup {0} /\ seen[p].total \in Nat
    BY <2>1
  <2>3. Caps \cup {0} \subseteq Nat
    BY LimitsAssumption
  <2>4. QED BY <2>2, <2>3
<1> USE LimitsAssumption DEF TypeOK, AtMost, AtLeast
<1>1. ASSUME NEW n \in Nat, NEW demand \in Demands PROVE ToSpawn(p, n, demand) \in Nat
  <2>1. demand \in Nat /\ MaxRunners[p] \in Nat /\ MinIdle[p] \in Nat
    OBVIOUS
  <2>2. QED BY <2>1 DEF ToSpawn
<1>2. Grantable(p) \in Nat /\ Grantable(p) <= want[p]
  <2>1. want[p] \in Nat
    OBVIOUS
  <2>2. QED BY <1>0, <2>1 DEF Grantable, Headroom
<1>3. \A n \in Nat : Released(n) \in Nat
  BY DEF Released
<1>4. \A n \in Nat : PsCounts(n) \subseteq Nat
  BY DEF PsCounts
<1>5. QED BY <1>1, <1>2, <1>3, <1>4

(* The state always has the declared types.                                *)
THEOREM Typing == Spec => []TypeOK
<1>1. Init => TypeOK
  BY LimitsAssumption, PoolsAssumption DEF Init, TypeOK, PcValues, GrantValues, NothingSeen
<1>2. TypeOK /\ [Next]_vars => TypeOK'
  <2> SUFFICES ASSUME TypeOK, [Next]_vars PROVE TypeOK'
    OBVIOUS
  <2> USE DEF TypeOK, PcValues, GrantValues, NothingSeen
  <2>1. ASSUME NEW p \in Pools, Inspect(p) PROVE TypeOK'
    <3>1. PsCounts(Cardinality(OwnRunning(p))) \subseteq Nat
      BY SlotSets, Arithmetic DEF OwnRunning, Own
    <3>2. QED BY <2>1, <3>1 DEF Inspect, slotVars
  <2>2. ASSUME NEW p \in Pools, InspectionFails(p) PROVE TypeOK'
    BY <2>2 DEF InspectionFails, slotVars
  <2>3. ASSUME NEW p \in Pools, Decide(p) PROVE TypeOK'
    <3>1. PICK demand \in Demands, heldBack \in BOOLEAN :
            LET w == IF heldBack THEN 0 ELSE ToSpawn(p, running[p], demand)
            IN  /\ want' = [want EXCEPT ![p] = w]
                /\ pc' = [pc EXCEPT ![p] = IF w = 0 THEN "idle" ELSE "asking"]
                /\ running' = [running EXCEPT ![p] = IF w = 0 THEN 0 ELSE @]
      BY <2>3 DEF Decide
    <3>2. ToSpawn(p, running[p], demand) \in Nat
      BY Arithmetic
    <3>3. UNCHANGED <<seen, granted, broken, capLock, reserved, cap, slotVars>>
      BY <2>3 DEF Decide
    <3>4. QED BY <3>1, <3>2, <3>3 DEF slotVars
  <2>4. ASSUME NEW p \in Pools, CountRunning(p) PROVE TypeOK'
    <3>1. Cardinality(Running) + OwnContainer \in Nat
      BY SlotSets, LimitsAssumption DEF Running
    <3>2. PsCounts(Cardinality(Running) + OwnContainer) \subseteq Nat
      BY <3>1, Arithmetic
    <3>3. QED BY <2>4, <3>2 DEF CountRunning, slotVars
  <2>5. ASSUME NEW p \in Pools, Grant(p) PROVE TypeOK'
    <3>1. Grantable(p) \in Nat
      BY Arithmetic
    <3>2. QED BY <2>5, <3>1 DEF Grant
  <2>6. ASSUME NEW p \in Pools, SubmitFails(p) PROVE TypeOK'
    BY <2>6 DEF SubmitFails
  <2>7. ASSUME NEW p \in Pools, EndTick(p) PROVE TypeOK'
    BY <2>7, Arithmetic DEF EndTick
  <2>8. ASSUME NEW s \in Slots, SlotStep(s) PROVE TypeOK'
    <3>1. CASE StartSpawn(s) BY <3>1 DEF StartSpawn, tickVars
    <3>2. CASE ContainerUp(s) BY <3>2 DEF ContainerUp, tickVars
    <3>3. CASE SpawnFails(s) BY <3>3 DEF SpawnFails, tickVars
    <3>4. CASE ReleaseSlot(s)
      <4>1. Released(1) \in Nat BY DEF Released, AtLeast
      <4>2. QED BY <3>4, <4>1 DEF ReleaseSlot, tickVars
    <3>5. QED BY <2>8, <3>1, <3>2, <3>3, <3>4 DEF SlotStep
  <2>9. ASSUME NEW s \in Slots, ContainerStops(s) PROVE TypeOK'
    BY <2>9 DEF ContainerStops, tickVars
  <2>10. ASSUME NEW c \in Caps, SetCap(c) PROVE TypeOK'
    BY <2>10 DEF SetCap, tickVars, slotVars
  <2>11. ASSUME NEW p \in Pools, ManualSpawn(p) PROVE TypeOK'
    BY <2>11 DEF ManualSpawn, tickVars
  <2>12. ASSUME Restart PROVE TypeOK'
    BY <2>12 DEF Restart
  <2>13. CASE UNCHANGED vars
    BY <2>13 DEF vars, tickVars, slotVars
  <2>14. QED
    BY <2>1, <2>2, <2>3, <2>4, <2>5, <2>6, <2>7, <2>8, <2>9, <2>10, <2>11, <2>12, <2>13
    DEF Next, PoolStep
<1>3. QED BY <1>1, <1>2, PTL DEF Spec

(* How reservations, containers, ticks and the cap lock fit together,      *)
(* whatever fails.                                                         *)
LEMMA ShapeStep == TypeOK /\ Shape /\ [Next]_vars => Shape'
<1> SUFFICES ASSUME TypeOK, Shape, [Next]_vars PROVE Shape'
  OBVIOUS
<1>n. None \notin Pools
  BY PoolsAssumption
<1>o. \A s \in Slots : grant[s] # "none" => owner[s] \in Pools
  BY DEF Shape, SlotShape, TypeOK
<1> USE DEF Shape, SlotShape, HeldWhileSpawning, LockShape, DroppedOnlyIfBroken, TypeOK, PcValues, GrantValues
<1>1. ASSUME NEW p \in Pools, Inspect(p) PROVE Shape'
  BY <1>1, <1>o DEF Inspect, slotVars
<1>2. ASSUME NEW p \in Pools, InspectionFails(p) PROVE Shape'
  BY <1>2, <1>o DEF InspectionFails, slotVars
<1>3. ASSUME NEW p \in Pools, Decide(p) PROVE Shape'
  <2>1. PICK w \in {"idle", "asking"} : pc' = [pc EXCEPT ![p] = w]
    BY <1>3 DEF Decide
  <2>2. QED BY <1>3, <1>o, <2>1 DEF Decide, slotVars
<1>4. ASSUME NEW p \in Pools, CountRunning(p) PROVE Shape'
  BY <1>4, <1>n, <1>o DEF CountRunning, slotVars
<1>5. ASSUME NEW p \in Pools, Grant(p) PROVE Shape'
  <2>1. PICK S \in SUBSET Free :
          /\ Cardinality(S) = Grantable(p)
          /\ grant' = [s \in Slots |-> IF s \in S THEN "waiting" ELSE grant[s]]
          /\ owner' = [s \in Slots |-> IF s \in S THEN p ELSE owner[s]]
    BY <1>5 DEF Grant
  <2>2. \A s \in S : s \in Slots /\ owner[s] = None
    BY DEF Free
  <2>3. Grantable(p) = 0 => S = {}
    BY <2>1, FS_EmptySet, SlotSets DEF Free
  <2>4. /\ pc' = [pc EXCEPT ![p] = IF Grantable(p) = 0 THEN "idle" ELSE "spawning"]
        /\ pc[p] = "counting" /\ capLock = p /\ capLock' = None /\ ctr' = ctr
    BY <1>5 DEF Grant
  <2>5. SlotShape'
    BY <1>n, <2>1, <2>2, <2>4
  <2>6. HeldWhileSpawning'
    BY <1>o, <2>1, <2>2, <2>3, <2>4
  <2>7. LockShape'
    BY <1>n, <2>4
  <2>8. DroppedOnlyIfBroken'
    BY <1>5, <1>o, <2>1, <2>2 DEF Grant
  <2>9. QED BY <2>5, <2>6, <2>7, <2>8
<1>6. ASSUME NEW p \in Pools, SubmitFails(p) PROVE Shape'
  BY <1>6 DEF SubmitFails, Own
<1>7. ASSUME NEW p \in Pools, EndTick(p) PROVE Shape'
  <2>1. LockShape'
    BY <1>7 DEF EndTick
  <2>2. SlotShape'
    BY <1>7, <1>n DEF EndTick, Own
  <2>3. HeldWhileSpawning'
    BY <1>7, <1>n, <1>o DEF EndTick, Own
  <2>4. DroppedOnlyIfBroken'
    BY <1>7, <1>n, <1>o DEF EndTick, Own
  <2>5. QED BY <2>1, <2>2, <2>3, <2>4
<1>8. ASSUME NEW s \in Slots, SlotStep(s) PROVE Shape'
  <2>1. CASE StartSpawn(s) BY <2>1 DEF StartSpawn, tickVars
  <2>2. CASE ContainerUp(s) BY <2>2 DEF ContainerUp, tickVars
  <2>3. CASE SpawnFails(s) BY <2>3 DEF SpawnFails, tickVars
  <2>4. CASE ReleaseSlot(s) BY <2>4, <1>n, <1>o DEF ReleaseSlot, tickVars
  <2>5. QED BY <1>8, <2>1, <2>2, <2>3, <2>4 DEF SlotStep
<1>9. ASSUME NEW s \in Slots, ContainerStops(s) PROVE Shape'
  BY <1>9, <1>n, <1>o DEF ContainerStops, tickVars
<1>10. ASSUME NEW c \in Caps, SetCap(c) PROVE Shape'
  BY <1>10 DEF SetCap, tickVars, slotVars
<1>11. ASSUME NEW p \in Pools, ManualSpawn(p) PROVE Shape'
  <2>1. PICK s \in Free :
          /\ ctr' = [ctr EXCEPT ![s] = "running"]
          /\ owner' = [owner EXCEPT ![s] = p]
    BY <1>11 DEF ManualSpawn
  <2>2. s \in Slots /\ owner[s] = None /\ UNCHANGED <<pc, capLock, grant, broken>>
    BY <1>11 DEF ManualSpawn, Free, tickVars
  <2>3. QED BY <1>n, <1>o, <2>1, <2>2
<1>12. ASSUME Restart PROVE Shape'
  <2>1. PICK U \in SUBSET {s \in Slots : grant[s] = "starting"} :
          LET alive(s) == ctr[s] = "running" \/ s \in U
          IN  /\ ctr' = [s \in Slots |-> IF alive(s) THEN "running" ELSE "none"]
              /\ owner' = [s \in Slots |-> IF alive(s) THEN owner[s] ELSE None]
              /\ grant' = [s \in Slots |-> "none"]
              /\ capLock' = None
              /\ pc' = [p \in Pools |-> "idle"]
    BY <1>12 DEF Restart
  <2>2. QED BY <1>n, <1>o, <2>1
<1>13. CASE UNCHANGED vars
  BY <1>13 DEF vars, tickVars, slotVars
<1>14. QED
  BY <1>1, <1>2, <1>3, <1>4, <1>5, <1>6, <1>7, <1>8, <1>9, <1>10, <1>11, <1>12, <1>13
  DEF Next, PoolStep

(* Who owns a slot, who holds the cap lock and whose tick spawns stay in   *)
(* step in _reserve_spawns, _release_spawns and the workers, under every   *)
(* fault.                                                                  *)
THEOREM ShapeInvariant == Spec => []Shape
<1>1. Init => Shape
  BY PoolsAssumption DEF Init, Shape, SlotShape, HeldWhileSpawning, LockShape, DroppedOnlyIfBroken
<1>2. QED BY <1>1, Typing, ShapeStep, PTL DEF Spec

-----------------------------------------------------------------------------
(* Reservations: the five ways a step treats the held slots.               *)

Quiet ==
  /\ Held' = Held
  /\ \A s \in Held : owner'[s] = owner[s]
  /\ UNCHANGED <<reserved, granted>>

Takes(p, S) ==
  /\ pc[p] = "counting"
  /\ S \subseteq Free
  /\ Held' = Held \cup S
  /\ \A s \in Slots : owner'[s] = IF s \in S THEN p ELSE owner[s]
  /\ reserved' = reserved + Cardinality(S)
  /\ granted' = [granted EXCEPT ![p] = Cardinality(S)]

Returns(s) ==
  /\ s \in Held
  /\ Held' = Held \ {s}
  /\ \A t \in Held' : owner'[t] = owner[t]
  /\ reserved' = Released(1)
  /\ UNCHANGED granted

Ends(p) ==
  /\ Held' = Held \ OwnHeld(p)
  /\ \A t \in Held' : owner'[t] = owner[t]
  /\ \A t \in OwnHeld(p) : grant[t] = "dropped"
  /\ reserved' = IF broken[p] THEN Released(granted[p]) ELSE reserved
  /\ granted' = [granted EXCEPT ![p] = 0]

Forgets ==
  /\ Held' = {}
  /\ reserved' = 0
  /\ granted' = [p \in Pools |-> 0]

(* What each step of the scaler does to the counter of reservations and to *)
(* the slots held, faults and restarts included.                           *)
LEMMA ReservationSteps ==
  ASSUME TypeOK, Shape, [Next]_vars
  PROVE  \/ Quiet \/ Forgets
         \/ \E p \in Pools, S \in SUBSET Slots : Takes(p, S)
         \/ \E s \in Slots : Returns(s)
         \/ \E p \in Pools : Ends(p)
<1> USE DEF Held, TypeOK, GrantValues
<1>1. ASSUME NEW p \in Pools, Inspect(p) \/ InspectionFails(p) \/ Decide(p) \/ CountRunning(p)
      PROVE Quiet
  BY <1>1 DEF Inspect, InspectionFails, Decide, CountRunning, slotVars, Quiet
<1>2. ASSUME NEW p \in Pools, Grant(p) PROVE \E S \in SUBSET Slots : Takes(p, S)
  <2>1. PICK S \in SUBSET Free :
          /\ Cardinality(S) = Grantable(p)
          /\ grant' = [s \in Slots |-> IF s \in S THEN "waiting" ELSE grant[s]]
          /\ owner' = [s \in Slots |-> IF s \in S THEN p ELSE owner[s]]
    BY <1>2 DEF Grant
  <2>2. S \in SUBSET Slots
    BY DEF Free
  <2>3. Held' = Held \cup S
    BY <2>1, <2>2
  <2>4. QED BY <1>2, <2>1, <2>2, <2>3 DEF Grant, Takes
<1>3. ASSUME NEW p \in Pools, SubmitFails(p) PROVE Quiet
  BY <1>3 DEF SubmitFails, Quiet, Own
<1>4. ASSUME NEW p \in Pools, EndTick(p) PROVE Ends(p)
  <2>1. Held' = Held \ OwnHeld(p)
    BY <1>4 DEF EndTick, OwnHeld, Own
  <2>2. \A t \in Held' : owner'[t] = owner[t]
    BY <1>4 DEF EndTick
  <2>3. \A t \in OwnHeld(p) : grant[t] = "dropped"
    BY <1>4 DEF EndTick, OwnHeld, Own
  <2>4. QED BY <1>4, <2>1, <2>2, <2>3 DEF EndTick, Ends
<1>5. ASSUME NEW s \in Slots, StartSpawn(s) \/ ContainerUp(s) \/ SpawnFails(s) PROVE Quiet
  BY <1>5 DEF StartSpawn, ContainerUp, SpawnFails, tickVars, Quiet
<1>6. ASSUME NEW s \in Slots, ReleaseSlot(s) PROVE Returns(s)
  BY <1>6 DEF ReleaseSlot, tickVars, Returns
<1>7. ASSUME NEW s \in Slots, ContainerStops(s) PROVE Quiet
  BY <1>7 DEF ContainerStops, tickVars, Quiet
<1>8. ASSUME NEW c \in Caps, SetCap(c) PROVE Quiet
  BY <1>8 DEF SetCap, tickVars, slotVars, Quiet
<1>9. ASSUME NEW p \in Pools, ManualSpawn(p) PROVE Quiet
  <2>1. PICK s \in Free : owner' = [owner EXCEPT ![s] = p]
    BY <1>9 DEF ManualSpawn
  <2>2. s \notin Held
    BY DEF Free, Shape, SlotShape
  <2>3. QED BY <1>9, <2>1, <2>2 DEF ManualSpawn, tickVars, Quiet
<1>10. ASSUME Restart PROVE Forgets
  BY <1>10 DEF Restart, Forgets
<1>11. CASE UNCHANGED vars
  BY <1>11 DEF vars, tickVars, slotVars, Quiet
<1>12. QED
  BY <1>1, <1>2, <1>3, <1>4, <1>5, <1>6, <1>7, <1>8, <1>9, <1>10, <1>11
  DEF Next, PoolStep, SlotStep

(* A tick's spawn_count never falls short of what the tick still holds.    *)
LEMMA GrantedCoversStep ==
  TypeOK /\ Shape /\ GrantedCovers /\ [Next]_vars => GrantedCovers'
<1> SUFFICES ASSUME TypeOK, Shape, GrantedCovers, [Next]_vars, NEW q \in Pools
             PROVE  Cardinality(OwnHeld(q))' <= granted'[q]
  BY DEF GrantedCovers
<1>a. Cardinality(OwnHeld(q)) <= granted[q] /\ granted[q] \in Nat
  BY DEF GrantedCovers, TypeOK
<1>b. ASSUME OwnHeld(q)' \subseteq OwnHeld(q), granted'[q] = granted[q]
      PROVE  Cardinality(OwnHeld(q))' <= granted'[q]
  <2>1. OwnHeld(q) \in SUBSET Slots /\ OwnHeld(q)' \in SUBSET OwnHeld(q)
    BY <1>b DEF OwnHeld, Own
  <2>2. Cardinality(OwnHeld(q)') <= Cardinality(OwnHeld(q))
    BY <2>1, SlotSets, FS_Subset
  <2>3. Cardinality(OwnHeld(q)') \in Nat /\ Cardinality(OwnHeld(q)) \in Nat
    BY <2>1, SlotSets
  <2>4. QED BY <1>a, <1>b, <2>2, <2>3
<1>c. \A S : S = {} => Cardinality(S) = 0
  BY FS_EmptySet
<1> USE DEF OwnHeld, Own, TypeOK
<1>1. CASE Quiet
  BY <1>1, <1>b DEF Quiet
<1>2. CASE Forgets
  <2>1. OwnHeld(q)' = {}
    BY <1>2 DEF Forgets
  <2>2. QED BY <1>2, <1>c, <2>1 DEF Forgets
<1>3. ASSUME NEW p \in Pools, NEW S \in SUBSET Slots, Takes(p, S)
      PROVE  Cardinality(OwnHeld(q))' <= granted'[q]
  <2>1. CASE p = q
    <3>1. OwnHeld(q)' = S
      <4>1. \A s \in Held : owner[s] # p
        BY <1>3 DEF Takes, Shape, HeldWhileSpawning, Held
      <4>2. \A s \in S : s \notin Held
        BY <1>3 DEF Takes, Free, Shape, SlotShape, Held
      <4>3. QED BY <1>3, <2>1, <4>1, <4>2 DEF Takes
    <3>2. Cardinality(S) \in Nat
      BY SlotSets
    <3>3. granted'[q] = Cardinality(S)
      BY <1>3, <2>1 DEF Takes
    <3>4. Cardinality(OwnHeld(q)') = Cardinality(S)
      <4> HIDE DEF OwnHeld
      <4>1. QED BY <3>1
    <3>5. QED BY <3>2, <3>3, <3>4
  <2>2. CASE p # q
    <3>1. OwnHeld(q)' \subseteq OwnHeld(q)
      BY <1>3, <2>2 DEF Takes
    <3>2. QED BY <1>3, <1>b, <2>2, <3>1 DEF Takes
  <2>3. QED BY <2>1, <2>2
<1>4. ASSUME NEW s \in Slots, Returns(s) PROVE Cardinality(OwnHeld(q))' <= granted'[q]
  BY <1>4, <1>b DEF Returns
<1>5. ASSUME NEW p \in Pools, Ends(p) PROVE Cardinality(OwnHeld(q))' <= granted'[q]
  <2>1. CASE p = q
    <3>1. OwnHeld(q)' = {}
      BY <1>5, <2>1 DEF Ends
    <3>2. QED BY <1>5, <1>c, <2>1, <3>1 DEF Ends
  <2>2. CASE p # q
    BY <1>5, <1>b, <2>2 DEF Ends
  <2>3. QED BY <2>1, <2>2
<1>6. QED BY <1>1, <1>2, <1>3, <1>4, <1>5, ReservationSteps

(* The sizes the held slots take in the steps that change them.            *)
LEMMA HeldSizes ==
  ASSUME Shape, TypeOK
  PROVE  /\ IsFiniteSet(Held) /\ Cardinality(Held) \in Nat
         /\ \A S \in SUBSET Free : Cardinality(Held \cup S) = Cardinality(Held) + Cardinality(S)
         /\ \A s \in Held : Cardinality(Held \ {s}) = Cardinality(Held) - 1
         /\ \A p \in Pools :
              Cardinality(Held \ OwnHeld(p)) = Cardinality(Held) - Cardinality(OwnHeld(p))
<1>1. Held \in SUBSET Slots
  BY DEF Held
<1>2. IsFiniteSet(Held) /\ Cardinality(Held) \in Nat
  BY <1>1, SlotSets
<1>3. ASSUME NEW S \in SUBSET Free
      PROVE  Cardinality(Held \cup S) = Cardinality(Held) + Cardinality(S)
  <2>1. Held \cap S = {}
    BY DEF Held, Free, Shape, SlotShape
  <2>2. IsFiniteSet(S) /\ Cardinality(S) \in Nat
    BY SlotSets DEF Free
  <2>3. Cardinality(Held \cup S) =
          Cardinality(Held) + Cardinality(S) - Cardinality(Held \cap S)
    BY <1>2, <2>2, FS_Union
  <2>4. Cardinality(Held \cap S) = 0
    BY <2>1, FS_EmptySet
  <2>5. QED BY <1>2, <2>2, <2>3, <2>4
<1>4. ASSUME NEW s \in Held PROVE Cardinality(Held \ {s}) = Cardinality(Held) - 1
  BY <1>2, FS_RemoveElement
<1>5. ASSUME NEW p \in Pools
      PROVE  Cardinality(Held \ OwnHeld(p)) = Cardinality(Held) - Cardinality(OwnHeld(p))
  <2>1. OwnHeld(p) \subseteq Held
    BY DEF OwnHeld
  <2>2. Held \cap OwnHeld(p) = OwnHeld(p)
    BY <2>1
  <2>3. Cardinality(Held \ OwnHeld(p)) = Cardinality(Held) - Cardinality(Held \cap OwnHeld(p))
    BY <1>2, FS_Difference
  <2>4. QED BY <2>2, <2>3
<1>6. QED BY <1>2, <1>3, <1>4, <1>5

(* A tick's releases never exceed what it still holds, so the clamped      *)
(* counter counts no slot twice.                                           *)
LEMMA StrandedStep ==
  TypeOK /\ Shape /\ GrantedCovers /\ NoStrandedHeadroom /\ [Next]_vars => NoStrandedHeadroom'
<1> SUFFICES ASSUME TypeOK, Shape, GrantedCovers, NoStrandedHeadroom, [Next]_vars
             PROVE  reserved' <= Cardinality(Held')
  BY DEF NoStrandedHeadroom
<1>a. /\ reserved \in Nat /\ reserved <= Cardinality(Held)
      /\ Cardinality(Held) \in Nat
  BY HeldSizes DEF NoStrandedHeadroom, TypeOK
<1>b. \A n \in Nat : Released(n) = IF reserved >= n THEN reserved - n ELSE 0
  BY <1>a DEF Released, AtLeast
<1>1. CASE Quiet
  BY <1>1, <1>a DEF Quiet
<1>2. CASE Forgets
  BY <1>2, FS_EmptySet DEF Forgets
<1>3. ASSUME NEW p \in Pools, NEW S \in SUBSET Slots, Takes(p, S)
      PROVE  reserved' <= Cardinality(Held')
  <2>1. /\ Held' = Held \cup S /\ S \in SUBSET Free
        /\ reserved' = reserved + Cardinality(S)
    BY <1>3 DEF Takes
  <2>2. Cardinality(Held') = Cardinality(Held) + Cardinality(S)
    BY <2>1, HeldSizes
  <2>3. QED BY <1>a, <2>1, <2>2, SlotSets
<1>4. ASSUME NEW s \in Slots, Returns(s) PROVE reserved' <= Cardinality(Held')
  <2>1. s \in Held /\ Held' = Held \ {s} /\ reserved' = Released(1)
    BY <1>4 DEF Returns
  <2>2. Cardinality(Held') = Cardinality(Held) - 1
    BY <2>1, HeldSizes
  <2>3. Cardinality(Held') \in Nat
    BY <2>1, SlotSets DEF Held
  <2>4. QED BY <1>a, <1>b, <2>1, <2>2, <2>3
<1>5. ASSUME NEW p \in Pools, Ends(p) PROVE reserved' <= Cardinality(Held')
  <2>1. /\ Held' = Held \ OwnHeld(p)
        /\ reserved' = IF broken[p] THEN Released(granted[p]) ELSE reserved
    BY <1>5 DEF Ends
  <2>2. Cardinality(Held') = Cardinality(Held) - Cardinality(OwnHeld(p))
    BY <2>1, HeldSizes
  <2>3. /\ Cardinality(OwnHeld(p)) \in Nat /\ granted[p] \in Nat
        /\ Cardinality(OwnHeld(p)) <= granted[p]
        /\ Cardinality(Held') \in Nat
    BY <2>1, SlotSets DEF OwnHeld, Own, Held, GrantedCovers, TypeOK
  <2>4. CASE broken[p]
    BY <1>a, <1>b, <2>1, <2>2, <2>3, <2>4
  <2>5. CASE ~broken[p]
    <3>1. OwnHeld(p) = {}
      BY <1>5, <2>5 DEF Ends, OwnHeld, Own, Shape, DroppedOnlyIfBroken
    <3>2. Held' = Held /\ reserved' = reserved
      BY <2>1, <2>5, <3>1
    <3>3. QED BY <1>a, <3>2
  <2>6. QED BY <2>4, <2>5
<1>6. QED BY <1>1, <1>2, <1>3, <1>4, <1>5, ReservationSteps

(* Whatever fails - docker ps, a submit, a spawn - and whoever starts       *)
(* containers by hand, _reserved_spawns never counts a slot nobody holds.  *)
THEOREM HeadroomNeverStranded == Spec => []NoStrandedHeadroom
<1>1. Init => GrantedCovers /\ NoStrandedHeadroom
  <2> SUFFICES ASSUME Init PROVE GrantedCovers /\ NoStrandedHeadroom
    OBVIOUS
  <2>1. Held = {} /\ \A p \in Pools : OwnHeld(p) = {}
    BY DEF Init, Held, OwnHeld
  <2>2. Cardinality({}) = 0
    BY FS_EmptySet
  <2>3. QED BY <2>1, <2>2 DEF Init, GrantedCovers, NoStrandedHeadroom
<1>2. QED
  BY <1>1, Typing, ShapeInvariant, GrantedCoversStep, StrandedStep, PTL DEF Spec

(* Without a raised submit no slot is dropped.                             *)
LEMMA NothingDroppedStep ==
  ASSUME "submit" \notin Faults
  PROVE  TypeOK /\ NothingDropped /\ [Next]_vars => NothingDropped'
<1> SUFFICES ASSUME TypeOK, NothingDropped, [Next]_vars PROVE NothingDropped'
  OBVIOUS
<1> USE DEF NothingDropped, TypeOK, GrantValues
<1>1. ASSUME NEW p \in Pools, PoolStep(p) PROVE NothingDropped'
  <2>1. CASE Inspect(p) \/ InspectionFails(p) \/ Decide(p) \/ CountRunning(p)
    BY <2>1 DEF Inspect, InspectionFails, Decide, CountRunning, slotVars
  <2>2. CASE Grant(p)
    BY <2>2 DEF Grant
  <2>3. CASE SubmitFails(p)
    BY <2>3 DEF SubmitFails
  <2>4. CASE EndTick(p)
    BY <2>4 DEF EndTick
  <2>5. QED BY <1>1, <2>1, <2>2, <2>3, <2>4 DEF PoolStep
<1>2. ASSUME NEW s \in Slots, SlotStep(s) PROVE NothingDropped'
  BY <1>2 DEF SlotStep, StartSpawn, ContainerUp, SpawnFails, ReleaseSlot, tickVars
<1>3. ASSUME NEW s \in Slots, ContainerStops(s) PROVE NothingDropped'
  BY <1>3 DEF ContainerStops, tickVars
<1>4. ASSUME NEW c \in Caps, SetCap(c) PROVE NothingDropped'
  BY <1>4 DEF SetCap, tickVars, slotVars
<1>5. ASSUME NEW p \in Pools, ManualSpawn(p) PROVE NothingDropped'
  BY <1>5 DEF ManualSpawn, tickVars
<1>6. ASSUME Restart PROVE NothingDropped'
  BY <1>6 DEF Restart
<1>7. CASE UNCHANGED vars
  BY <1>7 DEF vars, tickVars, slotVars
<1>8. QED BY <1>1, <1>2, <1>3, <1>4, <1>5, <1>6, <1>7 DEF Next

(* Without a raised submit the counter is the slots reserved.              *)
LEMMA ReservedExactStep ==
  TypeOK /\ Shape /\ NothingDropped /\ ReservedExact /\ [Next]_vars => ReservedExact'
<1> SUFFICES ASSUME TypeOK, Shape, NothingDropped, ReservedExact, [Next]_vars
             PROVE  reserved' = Cardinality(Held')
  BY DEF ReservedExact
<1>a. reserved = Cardinality(Held) /\ Cardinality(Held) \in Nat
  BY HeldSizes DEF ReservedExact
<1>1. CASE Quiet
  BY <1>1, <1>a DEF Quiet
<1>2. CASE Forgets
  BY <1>2, FS_EmptySet DEF Forgets
<1>3. ASSUME NEW p \in Pools, NEW S \in SUBSET Slots, Takes(p, S)
      PROVE  reserved' = Cardinality(Held')
  BY <1>3, <1>a, HeldSizes DEF Takes
<1>4. ASSUME NEW s \in Slots, Returns(s) PROVE reserved' = Cardinality(Held')
  <2>1. s \in Held /\ Held' = Held \ {s} /\ reserved' = Released(1)
    BY <1>4 DEF Returns
  <2>2. Cardinality(Held') = Cardinality(Held) - 1
    BY <2>1, HeldSizes
  <2>3. Cardinality(Held') \in Nat
    BY <2>1, SlotSets DEF Held
  <2>4. QED BY <1>a, <2>1, <2>2, <2>3 DEF Released, AtLeast
<1>5. ASSUME NEW p \in Pools, Ends(p) PROVE reserved' = Cardinality(Held')
  <2>1. OwnHeld(p) = {} /\ ~broken[p]
    BY <1>5 DEF Ends, NothingDropped, OwnHeld, Own
  <2>2. Held' = Held /\ reserved' = reserved
    BY <1>5, <2>1 DEF Ends
  <2>3. QED BY <1>a, <2>2
<1>6. QED BY <1>1, <1>2, <1>3, <1>4, <1>5, ReservationSteps

(* "Every granted slot must be released exactly once": as long as the       *)
(* executor accepts every job, _reserved_spawns is exactly what is held.   *)
THEOREM ReservationsExact ==
  ASSUME "submit" \notin Faults
  PROVE  Spec => [](NothingDropped /\ ReservedExact)
<1>1. Init => NothingDropped /\ ReservedExact
  <2> SUFFICES ASSUME Init PROVE NothingDropped /\ ReservedExact
    OBVIOUS
  <2>1. Held = {}
    BY DEF Init, Held
  <2>2. QED BY <2>1, FS_EmptySet DEF Init, NothingDropped, ReservedExact
<1>2. QED
  BY <1>1, Typing, ShapeInvariant, NothingDroppedStep, ReservedExactStep, PTL DEF Spec

-----------------------------------------------------------------------------
(* The global ceiling.                                                     *)

\* No step but a grant gives a slot to a pool.
OnlyVacates == \A s \in Slots : owner'[s] \in {owner[s], None}

(* Without scale_pool +1, only a grant hands out slots; every other step   *)
(* at most gives some back.                                                *)
LEMMA OwnerSteps ==
  ASSUME TypeOK, "manual" \notin Faults, [Next]_vars
  PROVE  OnlyVacates \/ \E p \in Pools : Grant(p)
<1> USE DEF OnlyVacates, TypeOK
<1>1. ASSUME NEW p \in Pools, PoolStep(p), ~Grant(p) PROVE OnlyVacates
  BY <1>1 DEF PoolStep, Inspect, InspectionFails, Decide, CountRunning, SubmitFails, EndTick, slotVars
<1>2. ASSUME NEW s \in Slots, SlotStep(s) PROVE OnlyVacates
  BY <1>2 DEF SlotStep, StartSpawn, ContainerUp, SpawnFails, ReleaseSlot
<1>3. ASSUME NEW s \in Slots, ContainerStops(s) PROVE OnlyVacates
  BY <1>3 DEF ContainerStops
<1>4. ASSUME NEW c \in Caps, SetCap(c) PROVE OnlyVacates
  BY <1>4 DEF SetCap, slotVars
<1>5. ASSUME NEW p \in Pools, ManualSpawn(p) PROVE FALSE
  BY <1>5 DEF ManualSpawn
<1>6. ASSUME Restart PROVE OnlyVacates
  BY <1>6 DEF Restart
<1>7. CASE UNCHANGED vars
  BY <1>7 DEF vars, slotVars
<1>8. QED BY <1>1, <1>2, <1>3, <1>4, <1>5, <1>6, <1>7 DEF Next

(* The sizes of what is occupied and owned, and what a grant does to them. *)
LEMMA OccupiedSizes ==
  ASSUME TypeOK, NEW p \in Pools
  PROVE  /\ Cardinality(Occupied) \in Nat /\ Cardinality(Occupied') \in Nat
         /\ Cardinality(Own(p)) \in Nat /\ Cardinality(Own(p)') \in Nat
         /\ OnlyVacates =>
              /\ Cardinality(Occupied') <= Cardinality(Occupied)
              /\ Cardinality(Own(p)') <= Cardinality(Own(p))
<1>1. /\ Occupied \in SUBSET Slots /\ Occupied' \in SUBSET Slots
      /\ Own(p) \in SUBSET Slots /\ Own(p)' \in SUBSET Slots
  BY DEF Occupied, Own
<1>2. ASSUME OnlyVacates PROVE Occupied' \in SUBSET Occupied /\ Own(p)' \in SUBSET Own(p)
  BY <1>2, PoolsAssumption DEF OnlyVacates, Occupied, Own
<1>3. IsFiniteSet(Occupied) /\ IsFiniteSet(Own(p))
  BY <1>1, SlotSets
<1>4. QED BY <1>1, <1>2, <1>3, SlotSets, FS_Subset

(* A grant raises the slots in use, and its pool's own, by exactly what    *)
(* _reserve_spawns grants.                                                 *)
LEMMA GrantSizes ==
  ASSUME TypeOK, NEW p \in Pools, Grant(p)
  PROVE  /\ Cardinality(Occupied') = Cardinality(Occupied) + Grantable(p)
         /\ Cardinality(Own(p)') = Cardinality(Own(p)) + Grantable(p)
         /\ \A q \in Pools \ {p} : Own(q)' = Own(q)
<1>1. PICK S \in SUBSET Free :
        /\ Cardinality(S) = Grantable(p)
        /\ owner' = [s \in Slots |-> IF s \in S THEN p ELSE owner[s]]
  BY DEF Grant
<1>2. S \in SUBSET Slots
  BY DEF Free
<1>3. Occupied' = Occupied \cup S /\ Occupied \cap S = {}
  BY <1>1, <1>2, PoolsAssumption DEF Occupied, Free
<1>4. Own(p)' = Own(p) \cup S /\ Own(p) \cap S = {}
  BY <1>1, <1>2, PoolsAssumption DEF Own, Free
<1>5. \A q \in Pools \ {p} : Own(q)' = Own(q)
  BY <1>1, <1>2, PoolsAssumption DEF Own, Free
<1>6. /\ IsFiniteSet(Occupied) /\ IsFiniteSet(Own(p)) /\ IsFiniteSet(S)
      /\ Cardinality(Occupied) \in Nat /\ Cardinality(Own(p)) \in Nat /\ Cardinality(S) \in Nat
  <2>1. Occupied \in SUBSET Slots /\ Own(p) \in SUBSET Slots
    BY DEF Occupied, Own
  <2>2. QED BY <1>2, <2>1, SlotSets
<1>7. ASSUME NEW T, IsFiniteSet(T), Cardinality(T) \in Nat, T \cap S = {}
      PROVE  Cardinality(T \cup S) = Cardinality(T) + Cardinality(S)
  <2>1. Cardinality(T \cup S) = Cardinality(T) + Cardinality(S) - Cardinality(T \cap S)
    BY <1>6, <1>7, FS_Union
  <2>2. Cardinality(T \cap S) = 0
    BY <1>7, FS_EmptySet
  <2>3. QED BY <1>6, <1>7, <2>1, <2>2
<1>8. /\ Cardinality(Occupied \cup S) = Cardinality(Occupied) + Cardinality(S)
      /\ Cardinality(Own(p) \cup S) = Cardinality(Own(p)) + Cardinality(S)
  BY <1>3, <1>4, <1>6, <1>7
<1>9. QED BY <1>1, <1>3, <1>4, <1>5, <1>8

(* What was counted under the lock and what is reserved cover every slot   *)
(* until the grant: the counting pool keeps every release out.             *)
LEMMA SeenCoversStep ==
  ASSUME "manual" \notin Faults, "ps" \notin Faults,
         TypeOK, Shape, NothingDropped, ReservedExact, SeenCovers, [Next]_vars
  PROVE  SeenCovers'
<1> SUFFICES ASSUME NEW p \in Pools, pc'[p] = "counting"
             PROVE  /\ seen'[p].cap \in Caps
                    /\ Cardinality(Occupied') <= seen'[p].total + reserved'
  BY DEF SeenCovers
<1>1. CASE CountRunning(p)
  <2>1. /\ seen'[p] = [cap |-> cap, total |-> Cardinality(Running) + OwnContainer]
        /\ UNCHANGED <<reserved, owner>>
    BY <1>1 DEF CountRunning, PsCounts, slotVars, TypeOK
  <2>2. Occupied' = Occupied /\ Occupied \subseteq Running \cup Held
    BY <2>1 DEF Occupied, Running, Held, Shape, SlotShape, TypeOK
  <2>3. Running \in SUBSET Slots /\ Held \in SUBSET Slots
    BY DEF Running, Held
  <2>4. /\ IsFiniteSet(Running) /\ IsFiniteSet(Held) /\ IsFiniteSet(Running \cup Held)
        /\ Cardinality(Running) \in Nat /\ Cardinality(Held) \in Nat
        /\ Cardinality(Running \cap Held) \in Nat
        /\ Cardinality(Running \cup Held) \in Nat
    BY <2>3, SlotSets
  <2>5. Cardinality(Running \cup Held) =
          Cardinality(Running) + Cardinality(Held) - Cardinality(Running \cap Held)
    BY <2>4, FS_Union
  <2>6. Cardinality(Occupied) <= Cardinality(Running \cup Held)
    BY <2>2, <2>4, FS_Subset
  <2>7. Cardinality(Occupied) \in Nat /\ OwnContainer \in Nat /\ reserved = Cardinality(Held)
    BY SlotSets, LimitsAssumption DEF Occupied, ReservedExact
  <2>8. Cardinality(Occupied) <= Cardinality(Running) + OwnContainer + reserved
    BY <2>4, <2>5, <2>6, <2>7
  <2>9. QED BY <2>1, <2>2, <2>8 DEF TypeOK
<1>2. CASE ~CountRunning(p)
  <2>1. pc[p] = "counting" /\ seen'[p] = seen[p] /\ reserved' = reserved /\ OnlyVacates
    <3>1. pc[p] = "counting" => capLock = p
      BY DEF Shape, LockShape
    <3>n. None \notin Pools
      BY PoolsAssumption
    <3> USE DEF OnlyVacates, TypeOK
    <3>2. ASSUME NEW q \in Pools, PoolStep(q)
          PROVE  pc[p] = "counting" /\ seen'[p] = seen[p] /\ reserved' = reserved /\ OnlyVacates
      <4>1. CASE Inspect(q) \/ InspectionFails(q) \/ Decide(q)
        BY <4>1 DEF Inspect, InspectionFails, Decide, slotVars
      <4>2. CASE CountRunning(q)
        BY <1>2, <3>1, <3>n, <4>2 DEF CountRunning, slotVars
      <4>3. CASE Grant(q)
        BY <3>1, <4>3 DEF Grant
      <4>4. CASE SubmitFails(q)
        BY <4>4 DEF SubmitFails
      <4>5. CASE EndTick(q)
        BY <4>5 DEF EndTick, NothingDropped
      <4>6. QED BY <3>2, <4>1, <4>2, <4>3, <4>4, <4>5 DEF PoolStep
    <3>3. ASSUME NEW s \in Slots, SlotStep(s)
          PROVE  pc[p] = "counting" /\ seen'[p] = seen[p] /\ reserved' = reserved /\ OnlyVacates
      BY <3>1, <3>3, <3>n DEF SlotStep, StartSpawn, ContainerUp, SpawnFails, ReleaseSlot, tickVars
    <3>4. ASSUME NEW s \in Slots, ContainerStops(s)
          PROVE  pc[p] = "counting" /\ seen'[p] = seen[p] /\ reserved' = reserved /\ OnlyVacates
      BY <3>4 DEF ContainerStops, tickVars
    <3>5. ASSUME NEW c \in Caps, SetCap(c)
          PROVE  pc[p] = "counting" /\ seen'[p] = seen[p] /\ reserved' = reserved /\ OnlyVacates
      BY <3>5 DEF SetCap, tickVars, slotVars
    <3>6. CASE UNCHANGED vars
      BY <3>6 DEF vars, tickVars, slotVars
    <3>7. QED BY <3>2, <3>3, <3>4, <3>5, <3>6 DEF Next, ManualSpawn, Restart
  <2>2. /\ seen[p].cap \in Caps /\ seen[p].total \in Nat /\ reserved \in Nat
        /\ Cardinality(Occupied) <= seen[p].total + reserved
    BY <2>1 DEF SeenCovers, TypeOK
  <2>3. QED BY <2>1, <2>2, OccupiedSizes
<1>3. QED BY <1>1, <1>2

(* A grant stays within the cap it read.                                   *)
LEMMA GrantWithinCap ==
  ASSUME TypeOK, Shape, SeenCovers, NEW p \in Pools, Grant(p)
  PROVE  /\ seen[p].cap \in Caps
         /\ Cardinality(Occupied') > Cardinality(Occupied) /\ seen[p].cap # 0 =>
              Cardinality(Occupied') <= seen[p].cap
<1>1. /\ seen[p].cap \in Caps
      /\ Cardinality(Occupied) <= seen[p].total + reserved
  BY DEF Grant, SeenCovers
<1>2. /\ seen[p].cap \in Nat /\ seen[p].total \in Nat /\ reserved \in Nat
      /\ want[p] \in Nat /\ Cardinality(Occupied) \in Nat
  BY <1>1, OccupiedSizes, LimitsAssumption DEF TypeOK
<1>3. Cardinality(Occupied') = Cardinality(Occupied) + Grantable(p)
  BY GrantSizes
<1>4. ASSUME seen[p].cap # 0, Grantable(p) > 0
      PROVE  Grantable(p) <= seen[p].cap - seen[p].total - reserved
  BY <1>2, <1>4 DEF Grantable, Headroom, AtMost, AtLeast
<1>5. Grantable(p) \in Nat
  BY Arithmetic
<1>6. QED BY <1>1, <1>2, <1>3, <1>4, <1>5

(* Containers counted plus slots reserved keep covering every slot in use  *)
(* while a pool counts.                                                    *)
LEMMA CapStep ==
  ASSUME "manual" \notin Faults,
         TypeOK, Shape, SeenCovers, CapNeverExceeded, [Next]_vars
  PROVE  CapNeverExceeded'
<1> SUFFICES ASSUME 0 \notin Caps PROVE \E c \in Caps : Cardinality(Occupied') <= c
  BY DEF CapNeverExceeded
<1>1. PICK c \in Caps : Cardinality(Occupied) <= c
  BY DEF CapNeverExceeded
<1>2. c \in Nat /\ Cardinality(Occupied) \in Nat /\ Cardinality(Occupied') \in Nat
  <2>1. Occupied \in SUBSET Slots /\ Occupied' \in SUBSET Slots
    BY DEF Occupied
  <2>2. QED BY <2>1, SlotSets, LimitsAssumption
<1>3. CASE OnlyVacates
  <2>1. Occupied' \in SUBSET Occupied /\ IsFiniteSet(Occupied)
    BY <1>3, SlotSets DEF OnlyVacates, Occupied
  <2>2. Cardinality(Occupied') <= Cardinality(Occupied)
    BY <2>1, FS_Subset
  <2>3. QED BY <1>1, <1>2, <2>2
<1>4. ASSUME NEW p \in Pools, Grant(p) PROVE \E d \in Caps : Cardinality(Occupied') <= d
  <2>1. CASE Cardinality(Occupied') > Cardinality(Occupied)
    BY <1>4, <2>1, GrantWithinCap
  <2>2. CASE ~(Cardinality(Occupied') > Cardinality(Occupied))
    BY <1>1, <1>2, <2>2
  <2>3. QED BY <2>1, <2>2
<1>5. QED BY <1>3, <1>4, OwnerSteps

-----------------------------------------------------------------------------
(* Each pool's own limit.                                                  *)

(* A decision never asks for more than the limit leaves above the count.   *)
LEMMA DecisionWithinLimit ==
  ASSUME NEW p \in Pools, NEW n \in Nat, NEW demand \in Demands, ToSpawn(p, n, demand) # 0
  PROVE  n + ToSpawn(p, n, demand) <= MaxRunners[p]
<1>1. MaxRunners[p] \in Nat /\ MinIdle[p] \in Nat /\ demand \in Nat
  BY LimitsAssumption
<1>2. QED BY <1>1 DEF ToSpawn, AtMost, AtLeast

(* A tick's snapshot of its own containers can only get too high.          *)
LEMMA SnapshotStep ==
  ASSUME "manual" \notin Faults, "ps" \notin Faults,
         TypeOK, Shape, SnapshotCovers, [Next]_vars
  PROVE  SnapshotCovers'
<1> DEFINE Counted(p) ==
      /\ pc[p] \in {"inspecting", "asking", "counting"} => Cardinality(Own(p)) <= running[p]
      /\ pc[p] \in {"asking", "counting"} => running[p] + want[p] <= MaxRunners[p]
<1> SUFFICES ASSUME NEW p \in Pools PROVE Counted(p)'
  BY DEF SnapshotCovers
<1>a. Counted(p)
  BY DEF SnapshotCovers
<1>b. /\ running[p] \in Nat /\ want[p] \in Nat /\ MaxRunners[p] \in Nat
      /\ Cardinality(Own(p)) \in Nat /\ Cardinality(Own(p)') \in Nat
  BY OccupiedSizes, LimitsAssumption DEF TypeOK
<1>c. ASSUME pc'[p] = pc[p] \/ pc'[p] \in {"idle", "spawning"},
             running'[p] = running[p] \/ pc'[p] \in {"idle", "spawning"},
             want'[p] = want[p] \/ pc'[p] \in {"idle", "spawning"},
             Cardinality(Own(p)') <= Cardinality(Own(p)) \/ pc'[p] \in {"idle", "spawning"}
      PROVE  Counted(p)'
  BY <1>a, <1>b, <1>c
<1>d. OnlyVacates => Cardinality(Own(p)') <= Cardinality(Own(p))
  BY OccupiedSizes
<1> HIDE DEF Counted
<1>1. ASSUME NEW q \in Pools, Inspect(q) PROVE Counted(p)'
  <2>0. Own(p)' = Own(p)
    BY <1>1 DEF Inspect, slotVars, Own
  <2>1. CASE p = q
    <3>1. OwnRunning(p) = Own(p)
      BY <1>1, <2>1, PoolsAssumption
      DEF Inspect, OwnRunning, Own, Running, Shape, SlotShape, HeldWhileSpawning, TypeOK
    <3>2. running'[p] = Cardinality(Own(p)) /\ pc'[p] = "inspecting"
      BY <1>1, <2>1, <3>1 DEF Inspect, PsCounts, TypeOK
    <3>3. QED BY <1>b, <2>0, <3>2 DEF Counted
  <2>2. CASE p # q
    BY <1>1, <1>b, <1>c, <2>0, <2>2 DEF Inspect, TypeOK
  <2>3. QED BY <2>1, <2>2
<1>2. ASSUME NEW q \in Pools, InspectionFails(q) PROVE Counted(p)'
  <2>1. OnlyVacates
    BY <1>2 DEF InspectionFails, slotVars, OnlyVacates, TypeOK
  <2>2. QED BY <1>2, <1>c, <1>d, <2>1 DEF InspectionFails, TypeOK
<1>3. ASSUME NEW q \in Pools, Decide(q) PROVE Counted(p)'
  <2>0. Own(p)' = Own(p)
    BY <1>3 DEF Decide, slotVars, Own
  <2>1. PICK demand \in Demands, heldBack \in BOOLEAN :
          LET w == IF heldBack THEN 0 ELSE ToSpawn(q, running[q], demand)
          IN  /\ want' = [want EXCEPT ![q] = w]
              /\ pc' = [pc EXCEPT ![q] = IF w = 0 THEN "idle" ELSE "asking"]
              /\ running' = [running EXCEPT ![q] = IF w = 0 THEN 0 ELSE @]
    BY <1>3 DEF Decide
  <2>2. CASE p # q
    BY <1>b, <1>c, <2>0, <2>1, <2>2 DEF TypeOK
  <2>3. CASE p = q /\ (heldBack \/ ToSpawn(q, running[q], demand) = 0)
    <3>1. pc'[p] = "idle"
      BY <2>1, <2>3 DEF TypeOK
    <3>2. QED BY <1>c, <3>1
  <2>4. CASE p = q /\ ~heldBack /\ ToSpawn(p, running[p], demand) # 0
    <3>1. /\ pc'[p] = "asking" /\ running'[p] = running[p]
          /\ want'[p] = ToSpawn(p, running[p], demand)
      BY <2>1, <2>4 DEF TypeOK
    <3>2. running[p] + ToSpawn(p, running[p], demand) <= MaxRunners[p]
      BY <1>b, <2>4, DecisionWithinLimit
    <3>3. Cardinality(Own(p)) <= running[p]
      BY <1>3, <1>a, <2>4 DEF Counted, Decide
    <3>4. QED BY <1>b, <2>0, <3>1, <3>2, <3>3 DEF Counted
  <2>5. QED BY <2>2, <2>3, <2>4
<1>4. ASSUME NEW q \in Pools, CountRunning(q) PROVE Counted(p)'
  <2>1. /\ Own(p)' = Own(p) /\ UNCHANGED <<running, want>>
        /\ pc'[p] = pc[p] \/ (pc[p] = "asking" /\ pc'[p] = "counting")
    BY <1>4 DEF CountRunning, slotVars, Own, TypeOK
  <2>2. QED BY <1>a, <1>b, <2>1 DEF Counted
<1>5. ASSUME NEW q \in Pools, Grant(q) PROVE Counted(p)'
  <2>1. CASE p = q
    BY <1>5, <1>c, <2>1 DEF Grant, TypeOK
  <2>2. CASE p # q
    <3>1. Own(p)' = Own(p)
      BY <1>5, <2>2, GrantSizes
    <3>2. QED BY <1>5, <1>b, <1>c, <2>2, <3>1 DEF Grant, TypeOK
  <2>3. QED BY <2>1, <2>2
<1>6. ASSUME NEW q \in Pools, SubmitFails(q) \/ EndTick(q) PROVE Counted(p)'
  <2>1. OnlyVacates
    BY <1>6 DEF SubmitFails, EndTick, OnlyVacates, TypeOK
  <2>2. QED BY <1>6, <1>c, <1>d, <2>1 DEF SubmitFails, EndTick, TypeOK
<1>7. ASSUME NEW s \in Slots, SlotStep(s) \/ ContainerStops(s) PROVE Counted(p)'
  <2>1. OnlyVacates /\ UNCHANGED <<pc, running, want>>
    BY <1>7
    DEF SlotStep, StartSpawn, ContainerUp, SpawnFails, ReleaseSlot, ContainerStops,
        tickVars, OnlyVacates, TypeOK
  <2>2. QED BY <1>c, <1>d, <2>1
<1>8. ASSUME UNCHANGED <<tickVars, slotVars>> PROVE Counted(p)'
  <2>1. OnlyVacates
    BY <1>8 DEF slotVars, OnlyVacates, TypeOK
  <2>2. QED BY <1>8, <1>c, <1>d, <2>1 DEF tickVars
<1>9. ASSUME Restart PROVE Counted(p)'
  <2>1. pc'[p] = "idle"
    BY <1>9 DEF Restart
  <2>2. QED BY <1>c, <2>1
<1>10. QED
  BY <1>1, <1>2, <1>3, <1>4, <1>5, <1>6, <1>7, <1>8, <1>9
  DEF Next, PoolStep, SetCap, ManualSpawn, vars

(* No step takes a pool past its max_runners.                              *)
LEMMA LimitStep ==
  ASSUME "manual" \notin Faults,
         TypeOK, Shape, SnapshotCovers, PoolLimit, [Next]_vars
  PROVE  PoolLimit'
<1> SUFFICES ASSUME NEW q \in Pools PROVE Cardinality(Own(q)') <= MaxRunners[q]
  BY DEF PoolLimit
<1>1. /\ Cardinality(Own(q)) <= MaxRunners[q] /\ MaxRunners[q] \in Nat
      /\ Cardinality(Own(q)) \in Nat /\ Cardinality(Own(q)') \in Nat
  BY OccupiedSizes, LimitsAssumption DEF PoolLimit
<1>2. CASE OnlyVacates
  BY <1>1, <1>2, OccupiedSizes
<1>3. ASSUME NEW p \in Pools, Grant(p) PROVE Cardinality(Own(q)') <= MaxRunners[q]
  <2>1. CASE p # q
    <3>1. Own(q)' = Own(q)
      BY <1>3, <2>1, GrantSizes
    <3>2. QED BY <1>1, <3>1
  <2>2. CASE p = q
    <3>1. Cardinality(Own(q)') = Cardinality(Own(q)) + Grantable(q)
      BY <1>3, <2>2, GrantSizes
    <3>2. /\ Cardinality(Own(q)) <= running[q]
          /\ running[q] + want[q] <= MaxRunners[q]
      BY <1>3, <2>2 DEF SnapshotCovers, Grant
    <3>3. Grantable(q) \in Nat /\ Grantable(q) <= want[q]
      BY Arithmetic
    <3>4. running[q] \in Nat /\ want[q] \in Nat
      BY DEF TypeOK
    <3>5. QED BY <1>1, <3>1, <3>2, <3>3, <3>4
  <2>3. QED BY <2>1, <2>2
<1>4. QED BY <1>2, <1>3, OwnerSteps

-----------------------------------------------------------------------------
(* The theorems about limits.                                              *)

(* "Never exceeds max_runners": ticks alone keep every pool within its      *)
(* limit, even if submits fail, as long as docker ps answers truthfully    *)
(* and nobody scales by hand.                                              *)
THEOREM PoolLimitHolds ==
  ASSUME "manual" \notin Faults, "ps" \notin Faults
  PROVE  Spec => [](SnapshotCovers /\ PoolLimit)
<1>1. Init => SnapshotCovers /\ PoolLimit
  <2> SUFFICES ASSUME Init, NEW p \in Pools
               PROVE  pc[p] = "idle" /\ Cardinality(Own(p)) <= MaxRunners[p]
    BY DEF SnapshotCovers, PoolLimit
  <2>1. Own(p) = {}
    BY PoolsAssumption DEF Init, Own
  <2>2. QED BY <2>1, FS_EmptySet, LimitsAssumption DEF Init
<1>2. QED BY <1>1, Typing, ShapeInvariant, SnapshotStep, LimitStep, PTL DEF Spec

(* "Hard ceiling on running containers across ALL pools combined": however  *)
(* pools interleave, the runners and granted spawns stay within a cap that *)
(* was in force.                                                           *)
THEOREM CapHolds ==
  ASSUME "manual" \notin Faults, "ps" \notin Faults, "submit" \notin Faults
  PROVE  Spec => [](SeenCovers /\ CapNeverExceeded)
<1>1. Init => SeenCovers /\ CapNeverExceeded
  <2> SUFFICES ASSUME Init PROVE SeenCovers /\ CapNeverExceeded
    OBVIOUS
  <2>1. Occupied = {}
    BY DEF Init, Occupied
  <2>2. Cardinality(Occupied) = 0
    BY <2>1, FS_EmptySet
  <2>3. \A c \in Caps : 0 <= c
    BY LimitsAssumption
  <2>4. QED BY <2>2, <2>3, LimitsAssumption DEF Init, SeenCovers, CapNeverExceeded
<1>2. QED
  BY <1>1, Typing, ShapeInvariant, ReservationsExact, SeenCoversStep, CapStep, PTL DEF Spec

(* Runners are added only by a grant, within the cap that grant read.      *)
THEOREM GrowthStaysWithinCap ==
  ASSUME "manual" \notin Faults, "ps" \notin Faults, "submit" \notin Faults
  PROVE  Spec => GrowthWithinCap
<1> DEFINE Growth ==
      Cardinality(Occupied') > Cardinality(Occupied) =>
        \E p \in Pools :
          /\ pc[p] = "counting"
          /\ seen[p].cap # 0 => Cardinality(Occupied') <= seen[p].cap
<1>1. TypeOK /\ Shape /\ SeenCovers /\ [Next]_vars => [Growth]_vars
  <2> SUFFICES ASSUME TypeOK, Shape, SeenCovers, [Next]_vars,
                      Cardinality(Occupied') > Cardinality(Occupied)
               PROVE  \E p \in Pools :
                        /\ pc[p] = "counting"
                        /\ seen[p].cap # 0 => Cardinality(Occupied') <= seen[p].cap
    OBVIOUS
  <2>1. ~OnlyVacates
    <3> SUFFICES ASSUME OnlyVacates PROVE FALSE
      OBVIOUS
    <3>1. Occupied' \in SUBSET Occupied /\ Occupied \in SUBSET Slots
      BY DEF OnlyVacates, Occupied
    <3>2. /\ Cardinality(Occupied') <= Cardinality(Occupied)
          /\ Cardinality(Occupied') \in Nat /\ Cardinality(Occupied) \in Nat
      BY <3>1, SlotSets, FS_Subset
    <3>3. QED BY <3>2
  <2>2. PICK p \in Pools : Grant(p)
    BY <2>1, OwnerSteps
  <2>3. pc[p] = "counting"
    BY <2>2 DEF Grant
  <2>4. QED BY <2>2, <2>3, GrantWithinCap
<1>2. QED
  BY <1>1, Typing, ShapeInvariant, CapHolds, PTL DEF Spec, GrowthWithinCap

\* The budget's own copy of Cardinality is the same operator.
LEMMA SameCardinality == \A S : Budget!Cardinality(S) = Cardinality(S)
BY DEF Cardinality, Budget!Cardinality

(* The scaler implements the budget: its ticks, locks and reservations are *)
(* one-step claims within both limits, as far as anyone can see.           *)
THEOREM ImplementsBudget ==
  ASSUME "manual" \notin Faults, "ps" \notin Faults, "submit" \notin Faults
  PROVE  Spec => BudgetSpec
<1>1. Init => Budget!Init
  BY PoolsAssumption DEF Init, Budget!Init, Claimed, Own
<1>2. TypeOK /\ Shape /\ SeenCovers /\ SnapshotCovers /\ PoolLimit /\ PoolLimit'
        /\ [Next]_vars => [Budget!Next]_Claimed
  <2> SUFFICES ASSUME TypeOK, Shape, SeenCovers, PoolLimit', [Next]_vars
               PROVE  [Budget!Next]_Claimed
    OBVIOUS
  <2>a. Claimed \in [Pools -> SUBSET Slots] /\ Claimed' \in [Pools -> SUBSET Slots]
    BY DEF Claimed, Own
  <2>b. Budget!AllClaimed = Occupied
    BY PoolsAssumption DEF Budget!AllClaimed, Claimed, Own, Occupied, TypeOK
  <2>1. CASE OnlyVacates
    <3>1. \A p \in Pools : Own(p)' \subseteq Own(p)
      BY <2>1, PoolsAssumption DEF OnlyVacates, Own
    <3>2. \A p \in Pools : Claimed'[p] \subseteq Claimed[p]
      BY <3>1 DEF Claimed
    <3>3. QED BY <2>a, <3>2 DEF Budget!Next, Budget!Vacate
  <2>2. ASSUME NEW p \in Pools, Grant(p) PROVE [Budget!Next]_Claimed
    <3>1. PICK S \in SUBSET Free :
            /\ Cardinality(S) = Grantable(p)
            /\ owner' = [s \in Slots |-> IF s \in S THEN p ELSE owner[s]]
      BY <2>2 DEF Grant
    <3>2. Occupied' = Occupied \cup S /\ S \in SUBSET (Slots \ Occupied)
      BY <3>1, PoolsAssumption DEF Occupied, Free
    <3>3. Own(p)' = Own(p) \cup S /\ \A q \in Pools \ {p} : Own(q)' = Own(q)
      BY <3>1, PoolsAssumption DEF Own, Free
    <3>4. Claimed' = [Claimed EXCEPT ![p] = @ \cup S]
      BY <3>3 DEF Claimed
    <3>5. CASE Grantable(p) = 0
      <4>1. S = {}
        BY <3>1, <3>5, FS_EmptySet, SlotSets DEF Free
      <4>2. Claimed' = Claimed
        BY <2>a, <3>4, <4>1
      <4>3. QED BY <4>2
    <3>6. CASE Grantable(p) # 0
      <4>1. \E c \in Caps : c = 0 \/ Cardinality(Budget!AllClaimed \cup S) <= c
        <5>1. Cardinality(Occupied') > Cardinality(Occupied)
          <6>1. Cardinality(Occupied') = Cardinality(Occupied) + Grantable(p)
            BY <2>2, GrantSizes
          <6>2. Cardinality(Occupied) \in Nat /\ Grantable(p) \in Nat
            BY OccupiedSizes, Arithmetic
          <6>3. QED BY <3>6, <6>1, <6>2
        <5>2. seen[p].cap \in Caps /\ (seen[p].cap # 0 => Cardinality(Occupied') <= seen[p].cap)
          BY <2>2, <5>1, GrantWithinCap
        <5>3. QED BY <2>b, <3>2, <5>2
      <4>2. Cardinality(Claimed[p] \cup S) <= MaxRunners[p]
        <5>1. Claimed[p] \cup S = Own(p)'
          BY <3>3 DEF Claimed
        <5>2. Cardinality(Own(p)') <= MaxRunners[p]
          BY DEF PoolLimit
        <5>3. QED BY <5>1, <5>2
      <4>3. S \in SUBSET (Slots \ Budget!AllClaimed)
        BY <2>b, <3>2
      <4>4. Budget!Claim(p)
        BY <3>4, <4>1, <4>2, <4>3, SameCardinality DEF Budget!Claim
      <4>5. QED BY <4>4 DEF Budget!Next
    <3>7. QED BY <3>5, <3>6
  <2>3. QED BY <2>1, <2>2, OwnerSteps
<1>3. QED
  BY <1>1, <1>2, Typing, ShapeInvariant, CapHolds, PoolLimitHolds, PTL
  DEF Spec, BudgetSpec, Budget!Spec
=============================================================================
