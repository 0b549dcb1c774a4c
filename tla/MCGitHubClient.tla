---------------------------- MODULE MCGitHubClient ----------------------------
(* Instances of GitHubClient for TLC.                                      *)
EXTENDS GitHubClient, TLC

CONSTANTS c1, c2, c3   \* threads

CallerSymmetry == Permutations(Callers)
=============================================================================
