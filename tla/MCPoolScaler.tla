---------------------------- MODULE MCPoolScaler ----------------------------
(* Instances of PoolScaler for TLC: a repository pool and a personal pool. *)
EXTENDS PoolScaler, TLC

CONSTANTS ci, lab          \* the two pools
CONSTANTS s1, s2, s3, s4   \* slots

MCPersonal == {lab}
MCMaxRunners == ci :> 3 @@ lab :> 2
MCMinIdle == ci :> 1 @@ lab :> 0
MCWorkers == ci :> 1 @@ lab :> 2

SlotSymmetry == Permutations(Slots)
=============================================================================
