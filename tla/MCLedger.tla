------------------------------ MODULE MCLedger ------------------------------
(* One worktree, shared by the scopes of two harnesses.                    *)
EXTENDS MutationLedger, TLC

CONSTANTS w1, s1, s2, e1, e2, t1, t2

MCSymmetry ==
  Permutations({s1, s2}) \cup Permutations({e1, e2}) \cup Permutations({t1, t2})
=============================================================================
