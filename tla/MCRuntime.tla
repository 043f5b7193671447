------------------------------ MODULE MCRuntime -----------------------------
(* Two processes, hooks or guards, on one worktree that two scopes share.  *)
EXTENDS GuardedShell, TLC

CONSTANTS w1, s1, s2, e1, e2, e3, c1, c2

\* A scope's Start and its Close are different deliveries.
MCCalls ==
  {call \in HookCall : \/ call.boundary.kind = "Start" /\ call.boundary.event = e1
                       \/ call.boundary.kind = "Close" /\ call.boundary.event = e2}
    \cup AbandonJob
\* All boundaries, for fewer scopes.
MCAllCalls == MCCalls \cup FlushCall
               \cup {call \in HookCall : call.boundary.kind = "Advance" /\ call.boundary.event = e3}
MCVersions == 0..MaxEdits
MCNoRequests == {}

MCSymmetry == Permutations({s1, s2}) \cup Permutations({c1, c2})
=============================================================================
