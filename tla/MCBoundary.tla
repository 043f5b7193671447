----------------------------- MODULE MCBoundary -----------------------------
(* Two tools, of one session or of two.                                    *)
EXTENDS BoundaryAdapter, TLC

CONSTANTS a, b, s1, s2

MCSymmetry == Permutations({s1, s2})
=============================================================================
