------------------------------- MODULE MCStore ------------------------------
(* Two clients race on one worktree, without the worktree lock.            *)
EXTENDS MutationStore, TLC

CONSTANTS w1, s1, s2, e1, e2, t1, t2, c1, c2

\* A scope's Close is another delivery than its Start.
HookJobs(kinds) ==
  {j \in CoordinateJob : /\ IsHookJob(j)
                         /\ j.boundary.kind \in kinds
                         /\ j.boundary.event = IF j.boundary.kind = "Start" THEN e1 ELSE e2}
FlushJobs == {j \in CoordinateJob : ~IsHookJob(j)}

\* Two Starts, the Close of one of them, and a gap; a failed capture, an
\* abandonment, and a flush that inherits the taint of an earlier failure.
MCRequests ==
  ({j \in HookJobs({"Start"}) : j.tree = t1}
     \cup {j \in HookJobs({"Close"}) : j.boundary.scope = s1 /\ j.tree = t2}
     \cup TaintJob \cup {j \in AbandonJob : j.scope = s1}) \X {FALSE}
    \cup {j \in FlushJobs : j.tree = t2} \X BOOLEAN

MCSymmetry == Permutations({c1, c2})
=============================================================================
