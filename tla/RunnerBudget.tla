----------------------------- MODULE RunnerBudget -----------------------------
(***************************************************************************)
(* What the scaler promises about runners, without ticks, snapshots,       *)
(* reservations or locks: pools claim runners in one step that respects    *)
(* both limits, and runners go away whenever they like.                    *)
(***************************************************************************)
EXTENDS Integers, FiniteSets

CONSTANTS Pools, Slots, Caps, MaxRunners

VARIABLE claimed   \* pool -> the slots it has reserved or running

AllClaimed == UNION {claimed[p] : p \in Pools}

Init == claimed = [p \in Pools |-> {}]

(* One pool takes new slots, within its own limit and within a cap.        *)
Claim(p) ==
  \E S \in SUBSET (Slots \ AllClaimed) :
    /\ Cardinality(claimed[p] \cup S) <= MaxRunners[p]
    /\ \E c \in Caps : c = 0 \/ Cardinality(AllClaimed \cup S) <= c
    /\ claimed' = [claimed EXCEPT ![p] = @ \cup S]

(* Runners stop, spawns fail, or a restart forgets what was reserved.      *)
Vacate ==
  /\ claimed' \in [Pools -> SUBSET Slots]
  /\ \A p \in Pools : claimed'[p] \subseteq claimed[p]

Next == Vacate \/ \E p \in Pools : Claim(p)

Spec == Init /\ [][Next]_claimed
=============================================================================
