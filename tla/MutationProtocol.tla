-------------------------- MODULE MutationProtocol --------------------------
(***************************************************************************)
(* The mutation cursor as protocol.rs defines it: a boundary is prepared   *)
(* against the state of one moment and committed, or rejected, against the *)
(* state of a later one; any number of attempts are under way at once, and *)
(* failures, abandonments and recoveries come in between.  A worktree may  *)
(* be marked externally tainted: a database failure is recorded outside    *)
(* the database.                                                           *)
(*                                                                         *)
(* Each action is a whole function of the kernel.  Where the function      *)
(* returns the state unchanged (its guarded no-op) the action is disabled. *)
(***************************************************************************)
EXTENDS MutationKernel

CONSTANT Attempts  \* names for the speculative attempts under way at one time

VARIABLES
  worktrees, scopes, processedEvents, mutationEvents, history,
  externalTaint,  \* worktrees whose last interval may have been lost
  attempts        \* speculative attempts, by name

durableVars == <<worktrees, scopes, processedEvents, mutationEvents, history>>
vars == <<worktrees, scopes, processedEvents, mutationEvents, history, externalTaint, attempts>>

Ledger == INSTANCE MutationLedger WITH
  worktrees <- worktrees, scopes <- scopes, processedEvents <- processedEvents,
  mutationEvents <- mutationEvents, history <- history

AttemptStatus == {"Prepared", "Committed", "Rejected"}
AttemptState == [status : AttemptStatus, plan : Plan]

Init ==
  /\ Ledger!LedgerInit
  /\ externalTaint = {}
  /\ attempts = [a \in {} |-> 0]

\* Rows come into being by the store's idempotent inserts.
InitializeWorktree(w, tree) ==
  /\ Ledger!InitializeWorktree(w, tree)
  /\ UNCHANGED <<externalTaint, attempts>>

RegisterScope(s, w, actor) ==
  /\ Ledger!RegisterScope(s, w, actor)
  /\ UNCHANGED <<externalTaint, attempts>>

\* A name is prepared once: an attempt under way or finished is not reused.
Prepare(a, b, tree) ==
  /\ a \notin DOMAIN attempts
  /\ Resolvable(b, worktrees, scopes)
  /\ attempts' = Put(attempts, a,
                     [status |-> "Prepared",
                      plan |-> MakePlan(b, worktrees[BoundaryWorktree(b, scopes)], tree)])
  /\ UNCHANGED <<durableVars, externalTaint>>

\* Mutant of PlanAccepted: the external taint is not asked for.
PlanAcceptedUntainted(plan) ==
  LET w == BoundaryWorktree(plan.boundary, scopes)
  IN  Accepted(plan, worktrees[w], scopes, FALSE, processedEvents)

PlanAccepted(plan) ==
  LET w == BoundaryWorktree(plan.boundary, scopes)
  IN  Accepted(plan, worktrees[w], scopes, w \in externalTaint, processedEvents)

Finish(a, status) == attempts' = [attempts EXCEPT ![a].status = status]

CommitAccepted(a) ==
  LET plan == attempts[a].plan
  IN  /\ PlanAccepted(plan)
      /\ Finish(a, "Committed")
      /\ IF WouldAdvance(plan, scopes)
         THEN Ledger!ApplyPlan(plan, BoundaryWorktree(plan.boundary, scopes))
         ELSE UNCHANGED durableVars

CommitRejected(a) ==
  /\ ~PlanAccepted(attempts[a].plan)
  /\ Finish(a, "Rejected")
  /\ UNCHANGED durableVars

Commit(a) ==
  /\ a \in DOMAIN attempts
  /\ attempts[a].status = "Prepared"
  /\ CommitAccepted(a) \/ CommitRejected(a)
  /\ UNCHANGED externalTaint

\* An attempt lives in its process; its identity, a fresh UUID, goes with it.
Forget(a) ==
  /\ a \in DOMAIN attempts
  /\ attempts' = [x \in DOMAIN attempts \ {a} |-> attempts[x]]
  /\ UNCHANGED <<durableVars, externalTaint>>

Taint(w) ==
  /\ w \notin externalTaint
  /\ Ledger!Taint(w)
  /\ UNCHANGED <<externalTaint, attempts>>

DatabaseFailure(w) ==
  /\ w \in DOMAIN worktrees \ externalTaint
  /\ externalTaint' = externalTaint \cup {w}
  /\ UNCHANGED <<durableVars, attempts>>

Abandon(s) ==
  /\ s \in DOMAIN scopes => scopes[s].worktree \notin externalTaint
  /\ Ledger!Abandon(s)
  /\ UNCHANGED <<externalTaint, attempts>>

Recover(w, tree) ==
  /\ Ledger!Recover(w, tree, w \in externalTaint)
  /\ externalTaint' = externalTaint \ {w}
  /\ UNCHANGED attempts

Next ==
  \/ \E w \in Worktrees, tree \in Trees : InitializeWorktree(w, tree)
  \/ \E s \in Scopes, w \in Worktrees, actor \in Actors : RegisterScope(s, w, actor)
  \/ \E a \in Attempts, b \in Boundary, tree \in Trees : Prepare(a, b, tree)
  \/ \E a \in Attempts : Commit(a) \/ Forget(a)
  \/ \E w \in Worktrees : Taint(w) \/ DatabaseFailure(w)
  \/ \E s \in Scopes : Abandon(s)
  \/ \E w \in Worktrees, tree \in Trees : Recover(w, tree)

Spec == Init /\ [][Next]_vars

-----------------------------------------------------------------------------
(* Properties.                                                             *)

TypeOK ==
  /\ Ledger!LedgerTypeOK
  /\ externalTaint \subseteq DOMAIN worktrees
  /\ DOMAIN attempts \subseteq Attempts
  /\ \A a \in DOMAIN attempts : attempts[a] \in AttemptState

\* However attempts, failures and recoveries interleave, the durable state
\* moves only as if each boundary had been evaluated and applied at once.
ImplementsLedger == Ledger!LedgerSpec

\* An external taint freezes the worktree: no boundary, taint or abandonment
\* gets through until a recovery, which leaves no scope live and no failure.
ExternalTaintHoldsUntilRecovery ==
  [][\A w \in externalTaint :
       \/ w \in externalTaint' /\ Ledger!DurableOf(w)' = Ledger!DurableOf(w)
       \/ /\ w \notin externalTaint'
          /\ LiveScopesOn(scopes', w) = {}
          /\ ~NeedsRecovery(worktrees'[w], FALSE)
          /\ worktrees'[w].revision = worktrees[w].revision + 1]_vars

\* Of the attempts prepared against one state of a worktree, at most one has
\* an effect: when the commit of an attempt changes anything durable, be it
\* only a scope or a delivery, every other attempt on the worktree that is
\* still prepared is stale from then on.
StaleIn(attempt, w) ==
  attempt.status = "Prepared" /\ BoundaryWorktree(attempt.plan.boundary, scopes) = w
    => ~Fresh(attempt.plan, worktrees[w], FALSE, processedEvents)

CommitOf(a) ==
  /\ a \in DOMAIN attempts /\ a \in DOMAIN attempts'
  /\ attempts[a].status = "Prepared" /\ attempts'[a].status = "Committed"

WinnerInvalidatesRivals ==
  [][\A a \in Attempts, w \in DOMAIN worktrees :
       (CommitOf(a) /\ BoundaryWorktree(attempts[a].plan.boundary, scopes) = w
          /\ durableVars' # durableVars)
         => (\A x \in DOMAIN attempts : StaleIn(attempts[x], w))']_vars
=============================================================================
