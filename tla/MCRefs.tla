------------------------------- MODULE MCRefs -------------------------------
(* Two checkouts: the main worktrees of two clones of one repository, or    *)
(* two worktrees of one clone.                                              *)
EXTENDS MutationRefs, TLC

CONSTANTS a, b, t1, t2

MCLayouts ==
  {[c \in Checkouts |-> [clone |-> c, name |-> "main"]],
   [c \in Checkouts |-> [clone |-> "shared", name |-> c]]}

MCSymmetry == Permutations(Trees) \cup Permutations(Checkouts)
=============================================================================
