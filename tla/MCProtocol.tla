----------------------------- MODULE MCProtocol -----------------------------
(* One worktree, one scope, two attempts prepared side by side.           *)
EXTENDS MutationProtocol, TLC

CONSTANTS w1, s1, s2, e1, e2, t1, t2, a1, a2

MCSymmetry ==
  Permutations({e1, e2}) \cup Permutations({t1, t2})
    \cup Permutations({a1, a2})
=============================================================================
