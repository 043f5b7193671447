----------------------- MODULE MutationProtocolProofs -----------------------
(***************************************************************************)
(* The speculative protocol implements the atomic specification, for any   *)
(* number of worktrees, scopes, deliveries, trees and attempts and any     *)
(* bound on the revision.                                                  *)
(***************************************************************************)
EXTENDS MutationProtocol, TLAPS

\* The theorems about the atomic specification, for this module's variables.
Facts == INSTANCE MutationLedgerProofs

-----------------------------------------------------------------------------
(* Facts and Ledger are two instances of the same definitions.             *)

LEMMA SameAssumptions == MaxRevision \in Nat /\ Actors \subseteq Facts!ActorKind
BY RevisionBound, KnownActors DEF ActorKind, Facts!ActorKind

LEMMA SameType == Ledger!LedgerTypeOK <=> Facts!LedgerTypeOK
BY DEF Ledger!LedgerTypeOK, Facts!LedgerTypeOK, Ledger!WorktreeState, Facts!WorktreeState,
       Ledger!ScopeState, Facts!ScopeState, Ledger!ScopeStatus, Facts!ScopeStatus,
       Ledger!EventKey, Facts!EventKey, Ledger!Entry, Facts!Entry, Ledger!Step, Facts!Step,
       Ledger!HookKind, Facts!HookKind, Ledger!MutationEvent, Facts!MutationEvent,
       Ledger!Attribution, Facts!Attribution, Ledger!Boundary, Facts!Boundary,
       Ledger!HookBoundary, Facts!HookBoundary, Ledger!FlushBoundary, Facts!FlushBoundary

LEMMA SameRows ==
  /\ \A w, t : Ledger!InitializeWorktree(w, t) <=> Facts!InitializeWorktree(w, t)
  /\ \A s, w, actor : Ledger!RegisterScope(s, w, actor) <=> Facts!RegisterScope(s, w, actor)
BY DEF Ledger!InitializeWorktree, Facts!InitializeWorktree, Ledger!RegisterScope,
       Facts!RegisterScope, Ledger!Put, Facts!Put, Ledger!Record, Facts!Record,
       Ledger!InitialRow, Facts!InitialRow, Ledger!LiveScopesOn, Facts!LiveScopesOn

LEMMA SameFailures ==
  /\ \A w : Ledger!Taint(w) <=> Facts!Taint(w)
  /\ \A s : Ledger!Abandon(s) <=> Facts!Abandon(s)
  /\ \A w, t, tainted : Ledger!Recover(w, t, tainted) <=> Facts!Recover(w, t, tainted)
BY DEF Ledger!Taint, Facts!Taint, Ledger!Abandon, Facts!Abandon, Ledger!Recover, Facts!Recover,
       Ledger!Put, Facts!Put, Ledger!Record, Facts!Record, Ledger!LiveScopesOn,
       Facts!LiveScopesOn, Ledger!Unhealthy, Facts!Unhealthy, Ledger!HasHeadroom,
       Facts!HasHeadroom, Ledger!TaintRow, Facts!TaintRow, Ledger!AbandonRow, Facts!AbandonRow,
       Ledger!AbandonAll, Facts!AbandonAll, Ledger!RecoverRow, Facts!RecoverRow,
       Ledger!RecoverScopes, Facts!RecoverScopes, Ledger!NeedsRecovery, Facts!NeedsRecovery

LEMMA SameBoundary ==
  \A b, t : Ledger!ApplyBoundary(b, t) <=> Facts!ApplyBoundary(b, t)
BY DEF Ledger!ApplyBoundary, Facts!ApplyBoundary, Ledger!ApplyPlan, Facts!ApplyPlan,
       Ledger!Put, Facts!Put, Ledger!Record, Facts!Record, Ledger!LiveScopesOn,
       Facts!LiveScopesOn, Ledger!Unhealthy, Facts!Unhealthy, Ledger!HasHeadroom,
       Facts!HasHeadroom, Ledger!Resolvable, Facts!Resolvable, Ledger!IsHook, Facts!IsHook,
       Ledger!Replayed, Facts!Replayed, Ledger!Key, Facts!Key, Ledger!BoundaryWorktree,
       Facts!BoundaryWorktree, Ledger!MakePlan, Facts!MakePlan, Ledger!WouldAdvance,
       Facts!WouldAdvance, Ledger!TreeChanged, Facts!TreeChanged, Ledger!Observes,
       Facts!Observes, Ledger!MovesCursor, Facts!MovesCursor, Ledger!NextRow, Facts!NextRow,
       Ledger!NextScopes, Facts!NextScopes, Ledger!NextProcessed, Facts!NextProcessed,
       Ledger!NewEvidence, Facts!NewEvidence, Ledger!EvidenceOf, Facts!EvidenceOf,
       Ledger!AttributionForBoundary, Facts!AttributionForBoundary,
       Ledger!AttributionFor, Facts!AttributionFor, Ledger!ClosesNeverSeen,
       Facts!ClosesNeverSeen, Ledger!HasUnconfirmedScope, Facts!HasUnconfirmedScope,
       Ledger!RequiresConfirmation, Facts!RequiresConfirmation, Ledger!Confirms, Facts!Confirms,
       Ledger!Ineligible, Facts!Ineligible

LEMMA SameNext ==
  [Ledger!LedgerNext]_(Ledger!ledgerVars) <=> [Facts!LedgerNext]_(Facts!ledgerVars)
<1>1. Ledger!LedgerNext <=> Facts!LedgerNext
  <2>1. Ledger!Boundary = Facts!Boundary
    BY DEF Ledger!Boundary, Facts!Boundary, Ledger!HookBoundary, Facts!HookBoundary,
           Ledger!FlushBoundary, Facts!FlushBoundary, Ledger!HookKind, Facts!HookKind
  <2> QED BY <2>1, SameRows, SameFailures, SameBoundary DEF Ledger!LedgerNext, Facts!LedgerNext
<1>2. (UNCHANGED Ledger!ledgerVars) <=> (UNCHANGED Facts!ledgerVars)
  BY DEF Ledger!ledgerVars, Facts!ledgerVars
<1> QED BY <1>1, <1>2

\* What the ledger's theorems say of a step of the ledger.
LEMMA LedgerStep ==
  ASSUME Ledger!LedgerTypeOK, [Ledger!LedgerNext]_(Ledger!ledgerVars)
  PROVE  /\ Ledger!LedgerTypeOK'
         /\ DOMAIN worktrees \subseteq DOMAIN worktrees'
         /\ DOMAIN scopes \subseteq DOMAIN scopes'
         /\ \A s \in DOMAIN scopes : scopes'[s].worktree = scopes[s].worktree
         /\ \A w \in DOMAIN worktrees : worktrees[w].revision <= worktrees'[w].revision
<1>1. Facts!LedgerTypeOK /\ [Facts!LedgerNext]_(Facts!ledgerVars)
  BY SameType, SameNext
<1>2. Facts!LedgerTypeOK'
  BY <1>1, Facts!TypeInductive, SameAssumptions
<1>3. Ledger!LedgerTypeOK' <=> Facts!LedgerTypeOK'
  BY SameType, PTL
<1>4. /\ DOMAIN worktrees \subseteq DOMAIN worktrees'
      /\ DOMAIN scopes \subseteq DOMAIN scopes'
      /\ \A s \in DOMAIN scopes : scopes'[s].worktree = scopes[s].worktree
  BY <1>1, Facts!RowsStay, SameAssumptions DEF Facts!Onward
<1>5. \A w \in DOMAIN worktrees : worktrees[w].revision <= worktrees'[w].revision
  BY <1>1, Facts!RevisionsGrow, SameAssumptions
<1> QED BY <1>2, <1>3, <1>4, <1>5

\* A step of the ledger that moves the row of one worktree leaves what
\* belongs to any other one as it was.
LEMMA LedgerMovesOne ==
  ASSUME Ledger!LedgerTypeOK, [Ledger!LedgerNext]_(Ledger!ledgerVars),
         NEW w \in Worktrees, w \in DOMAIN worktrees',
         ~(w \in DOMAIN worktrees /\ worktrees'[w] = worktrees[w]),
         NEW v \in Worktrees, v # w
  PROVE  Ledger!DurableOf(v)' = Ledger!DurableOf(v)
<1>1. Facts!LedgerTypeOK /\ [Facts!LedgerNext]_(Facts!ledgerVars)
  BY SameType, SameNext
<1>2. Facts!DurableOf(v)' = Facts!DurableOf(v)
  BY <1>1, Facts!OneRowMoves, SameAssumptions
<1> QED BY <1>2 DEF Ledger!DurableOf, Facts!DurableOf

-----------------------------------------------------------------------------
(* The refinement.                                                         *)

\* A boundary that could be prepared can be committed: the rows it names are
\* still there.
PlansResolvable ==
  \A a \in DOMAIN attempts : Resolvable(attempts[a].plan.boundary, worktrees, scopes)

ProtocolInv == TypeOK /\ PlansResolvable

\* A plan that is fresh is the plan that would be made now.
LEMMA FreshPlan ==
  ASSUME NEW plan \in Plan, NEW row, NEW tainted, NEW processed,
         Fresh(plan, row, tainted, processed)
  PROVE  plan = MakePlan(plan.boundary, row, plan.after)
BY DEF Plan, Fresh, MakePlan

\* An accepted attempt is an atomic boundary, or changes nothing durable.
LEMMA CommitRefines ==
  ASSUME ProtocolInv, NEW a \in Attempts, Commit(a)
  PROVE  [Ledger!LedgerNext]_(Ledger!ledgerVars)
<1> DEFINE plan == attempts[a].plan
           b == plan.boundary
           t == plan.after
           w == BoundaryWorktree(b, scopes)
<1>1. plan \in Plan /\ b \in Boundary /\ t \in Trees /\ Resolvable(b, worktrees, scopes)
  BY DEF Commit, ProtocolInv, TypeOK, PlansResolvable, AttemptState, Plan
<1>2. CASE CommitAccepted(a) /\ WouldAdvance(plan, scopes)
  <2>1. /\ Fresh(plan, worktrees[w], w \in externalTaint, processedEvents)
        /\ HasHeadroom(worktrees[w])
        /\ Ledger!ApplyPlan(plan, w)
    BY <1>2 DEF CommitAccepted, PlanAccepted, Accepted
  <2>2. plan = MakePlan(b, worktrees[w], t)
    BY <1>1, <2>1, FreshPlan
  <2>3. ~Replayed(b, processedEvents)
    BY <2>1 DEF Fresh
  <2>4. /\ Ledger!BoundaryWorktree(b, scopes) = w
        /\ Ledger!MakePlan(b, worktrees[w], t) = MakePlan(b, worktrees[w], t)
        /\ Ledger!Resolvable(b, worktrees, scopes) <=> Resolvable(b, worktrees, scopes)
        /\ Ledger!Replayed(b, processedEvents) <=> Replayed(b, processedEvents)
        /\ Ledger!HasHeadroom(worktrees[w]) <=> HasHeadroom(worktrees[w])
        /\ Ledger!WouldAdvance(plan, scopes) <=> WouldAdvance(plan, scopes)
    BY DEF Ledger!BoundaryWorktree, BoundaryWorktree, Ledger!MakePlan, MakePlan,
           Ledger!Resolvable, Resolvable, Ledger!Replayed, Replayed, Ledger!HasHeadroom,
           HasHeadroom, Ledger!WouldAdvance, WouldAdvance, Ledger!IsHook, IsHook, Ledger!Key,
           Key, Ledger!TreeChanged, TreeChanged, Ledger!Observes, Observes
  <2> HIDE DEF plan, b, t, w
  <2>5. Ledger!ApplyBoundary(b, t)
    BY <1>1, <1>2, <2>1, <2>2, <2>3, <2>4 DEF Ledger!ApplyBoundary
  <2>6. b \in Ledger!Boundary
    BY <1>1 DEF Ledger!Boundary, Boundary, Ledger!HookBoundary, HookBoundary,
                Ledger!FlushBoundary, FlushBoundary, Ledger!HookKind, HookKind
  <2> QED BY <1>1, <2>5, <2>6 DEF Ledger!LedgerNext
<1>3. CASE CommitAccepted(a) /\ ~WouldAdvance(plan, scopes)
  BY <1>3 DEF CommitAccepted, durableVars, Ledger!ledgerVars
<1>4. CASE CommitRejected(a)
  BY <1>4 DEF CommitRejected, durableVars, Ledger!ledgerVars
<1> QED BY <1>2, <1>3, <1>4 DEF Commit

\* Every other step is a step of the ledger by itself, or changes nothing
\* durable.
LEMMA StepRefines ==
  ASSUME ProtocolInv, [Next]_vars
  PROVE  [Ledger!LedgerNext]_(Ledger!ledgerVars)
<1>1. CASE UNCHANGED durableVars
  BY <1>1 DEF durableVars, Ledger!ledgerVars
<1>2. CASE \E w \in Worktrees, t \in Trees : InitializeWorktree(w, t)
  BY <1>2 DEF InitializeWorktree, Ledger!LedgerNext
<1>3. CASE \E s \in Scopes, w \in Worktrees, actor \in Actors : RegisterScope(s, w, actor)
  BY <1>3 DEF RegisterScope, Ledger!LedgerNext
<1>4. CASE \E a \in Attempts : Commit(a)
  BY <1>4, CommitRefines
<1>5. CASE \E w \in Worktrees : Taint(w)
  BY <1>5 DEF Taint, Ledger!LedgerNext
<1>6. CASE \E s \in Scopes : Abandon(s)
  BY <1>6 DEF Abandon, Ledger!LedgerNext
<1>7. CASE \E w \in Worktrees, t \in Trees : Recover(w, t)
  <2>1. PICK w \in Worktrees, t \in Trees : Recover(w, t)
    BY <1>7
  <2> DEFINE tainted == w \in externalTaint
  <2>2. tainted \in BOOLEAN
    OBVIOUS
  <2>3. Ledger!Recover(w, t, tainted)
    BY <2>1 DEF Recover
  <2> HIDE DEF tainted
  <2> QED BY <2>2, <2>3 DEF Ledger!LedgerNext
<1>8. CASE \E a \in Attempts, b \in Boundary, t \in Trees : Prepare(a, b, t)
  BY <1>1, <1>8 DEF Prepare
<1>9. CASE \E a \in Attempts : Forget(a)
  BY <1>1, <1>9 DEF Forget
<1>10. CASE \E w \in Worktrees : DatabaseFailure(w)
  BY <1>1, <1>10 DEF DatabaseFailure
<1>11. CASE UNCHANGED vars
  BY <1>1, <1>11 DEF vars, durableVars
<1> QED BY <1>2, <1>3, <1>4, <1>5, <1>6, <1>7, <1>8, <1>9, <1>10, <1>11 DEF Next

LEMMA InvInit == Init => ProtocolInv
<1> SUFFICES ASSUME Init PROVE ProtocolInv
  OBVIOUS
<1>1. Ledger!LedgerTypeOK
  <2>1. Facts!LedgerInit
    BY DEF Init, Ledger!LedgerInit, Facts!LedgerInit
  <2> QED BY <2>1, Facts!TypeInit, SameType, SameAssumptions
<1> QED BY <1>1 DEF Init, ProtocolInv, TypeOK, PlansResolvable

\* The attempts stay well formed, and what they name stays known.
LEMMA InvNext ==
  ASSUME ProtocolInv, [Next]_vars
  PROVE  ProtocolInv'
<1>1. /\ Ledger!LedgerTypeOK'
      /\ DOMAIN worktrees \subseteq DOMAIN worktrees'
      /\ DOMAIN scopes \subseteq DOMAIN scopes'
      /\ \A s \in DOMAIN scopes : scopes'[s].worktree = scopes[s].worktree
  BY StepRefines, LedgerStep DEF ProtocolInv, TypeOK
<1>2. \A b : Resolvable(b, worktrees, scopes) => Resolvable(b, worktrees', scopes')
  BY <1>1 DEF Resolvable
<1>3. externalTaint' \subseteq DOMAIN worktrees'
  <2>1. externalTaint' \subseteq externalTaint \cup DOMAIN worktrees
    BY DEF Next, vars, InitializeWorktree, RegisterScope, Prepare, Commit, Forget, Taint,
           DatabaseFailure, Abandon, Recover
  <2> QED BY <1>1, <2>1 DEF ProtocolInv, TypeOK
<1> DEFINE AttemptsOK ==
      /\ DOMAIN attempts \subseteq Attempts
      /\ \A a \in DOMAIN attempts :
           /\ attempts[a] \in AttemptState
           /\ Resolvable(attempts[a].plan.boundary, worktrees, scopes)
<1>4. AttemptsOK
  BY DEF ProtocolInv, TypeOK, PlansResolvable
<1>5. ASSUME UNCHANGED attempts
      PROVE  AttemptsOK'
  BY <1>2, <1>4, <1>5
<1>6. ASSUME NEW a \in Attempts, NEW b \in Boundary, NEW t \in Trees, Prepare(a, b, t)
      PROVE  AttemptsOK'
  <2> DEFINE w == BoundaryWorktree(b, scopes)
             new == [status |-> "Prepared", plan |-> MakePlan(b, worktrees[w], t)]
  <2>1. Resolvable(b, worktrees, scopes) /\ attempts' = Put(attempts, a, new)
    BY <1>6 DEF Prepare
  <2>2. worktrees[w] \in WorktreeState
    BY <2>1 DEF ProtocolInv, TypeOK, Ledger!LedgerTypeOK, Ledger!WorktreeState, WorktreeState,
                Resolvable, BoundaryWorktree
  <2>3. new \in AttemptState /\ new.plan.boundary = b
    BY <2>2 DEF AttemptState, AttemptStatus, Plan, MakePlan, WorktreeState
  <2> HIDE DEF w, new
  <2>4. /\ DOMAIN attempts' = DOMAIN attempts \cup {a}
        /\ attempts'[a] = new
        /\ \A x \in DOMAIN attempts : x # a => attempts'[x] = attempts[x]
    BY <2>1 DEF Put
  <2> QED BY <1>2, <1>4, <2>1, <2>3, <2>4
<1>7. ASSUME NEW a \in Attempts, Commit(a)
      PROVE  AttemptsOK'
  <2>1. PICK status \in AttemptStatus : attempts' = [attempts EXCEPT ![a].status = status]
    BY <1>7 DEF Commit, CommitAccepted, CommitRejected, Finish, AttemptStatus
  <2>2. a \in DOMAIN attempts /\ attempts[a] \in AttemptState
    BY <1>4, <1>7 DEF Commit
  <2>3. /\ DOMAIN attempts' = DOMAIN attempts
        /\ attempts'[a] = [attempts[a] EXCEPT !.status = status]
        /\ \A x \in DOMAIN attempts : x # a => attempts'[x] = attempts[x]
    BY <2>1, <2>2
  <2>4. attempts'[a] \in AttemptState /\ attempts'[a].plan = attempts[a].plan
    BY <2>2, <2>3 DEF AttemptState
  <2> QED BY <1>2, <1>4, <2>3, <2>4
<1>8. ASSUME NEW a \in Attempts, Forget(a)
      PROVE  AttemptsOK'
  BY <1>2, <1>4, <1>8 DEF Forget
<1>9. AttemptsOK'
  <2> HIDE DEF AttemptsOK
  <2> QED BY <1>5, <1>6, <1>7, <1>8
          DEF Next, vars, InitializeWorktree, RegisterScope, Taint, DatabaseFailure, Abandon, Recover
<1> QED BY <1>1, <1>3, <1>9 DEF ProtocolInv, TypeOK, PlansResolvable

LEMMA Invariant == Spec => []ProtocolInv
<1>1. ProtocolInv /\ [Next]_vars => ProtocolInv'
  BY InvNext
<1> QED BY <1>1, InvInit, PTL DEF Spec

\* Durable rows, attempts and taints are well formed in every reachable
\* state, however attempts interleave.
THEOREM TypeCorrect == Spec => []TypeOK
<1>1. ProtocolInv => TypeOK
  BY DEF ProtocolInv
<1> QED BY <1>1, Invariant, PTL

\* The speculative protocol implements the atomic one: checking the baseline
\* and the delivery at the commit is enough to make each boundary appear
\* evaluated and applied at one instant.
THEOREM Refinement == Spec => ImplementsLedger
<1>1. Init => Ledger!LedgerInit
  BY DEF Init
<1>2. ProtocolInv /\ [Next]_vars => [Ledger!LedgerNext]_(Ledger!ledgerVars)
  BY StepRefines
<1> QED BY <1>1, <1>2, Invariant, PTL DEF Spec, ImplementsLedger, Ledger!LedgerSpec

-----------------------------------------------------------------------------
(* The external taint.                                                     *)

\* A commit that has an effect moves the row of its own worktree, which is
\* not externally tainted, by one revision.
LEMMA CommitMovesOwnRow ==
  ASSUME ProtocolInv, NEW a \in Attempts, Commit(a), ~UNCHANGED durableVars
  PROVE  LET w == BoundaryWorktree(attempts[a].plan.boundary, scopes)
         IN  /\ w \in DOMAIN worktrees /\ w \notin externalTaint
             /\ DOMAIN worktrees' = DOMAIN worktrees
             /\ worktrees'[w].revision = worktrees[w].revision + 1
             /\ attempts' = [attempts EXCEPT ![a].status = "Committed"]
<1> DEFINE plan == attempts[a].plan
           w == BoundaryWorktree(plan.boundary, scopes)
<1>1. CommitAccepted(a) /\ WouldAdvance(plan, scopes)
  BY DEF Commit, CommitAccepted, CommitRejected
<1>2. Ledger!ApplyPlan(plan, w)
  BY <1>1 DEF CommitAccepted
<1>3. w \notin externalTaint
  BY <1>1 DEF CommitAccepted, PlanAccepted, Accepted, Fresh
<1>4. w \in DOMAIN worktrees
  BY DEF Commit, ProtocolInv, PlansResolvable, Resolvable, BoundaryWorktree
<1>5. worktrees[w] \in WorktreeState
  BY <1>4 DEF ProtocolInv, TypeOK, Ledger!LedgerTypeOK, Ledger!WorktreeState, WorktreeState
<1>6. Ledger!WouldAdvance(plan, scopes) <=> WouldAdvance(plan, scopes)
  BY DEF Ledger!WouldAdvance, WouldAdvance, Ledger!IsHook, IsHook, Ledger!TreeChanged,
         TreeChanged, Ledger!Observes, Observes
<1>7. Ledger!NextRow(plan, worktrees[w], scopes).revision = worktrees[w].revision + 1
  BY <1>1, <1>5, <1>6 DEF Ledger!NextRow, WorktreeState
<1>8. worktrees' = [worktrees EXCEPT ![w] = Ledger!NextRow(plan, worktrees[w], scopes)]
  BY <1>2 DEF Ledger!ApplyPlan
<1>9. attempts' = [attempts EXCEPT ![a].status = "Committed"]
  BY <1>1 DEF CommitAccepted, Finish
<1> HIDE DEF plan, w
<1> QED BY <1>3, <1>4, <1>7, <1>8, <1>9 DEF plan, w

\* What a recovery of an externally tainted worktree leaves behind.
LEMMA RecoveryClears ==
  ASSUME ProtocolInv, NEW w \in externalTaint, NEW t \in Trees, Recover(w, t)
  PROVE  /\ w \notin externalTaint'
         /\ LiveScopesOn(scopes', w) = {}
         /\ ~NeedsRecovery(worktrees'[w], FALSE)
         /\ worktrees'[w].revision = worktrees[w].revision + 1
<1> DEFINE tainted == w \in externalTaint
<1>1. Ledger!Recover(w, t, tainted) /\ externalTaint' = externalTaint \ {w}
  BY DEF Recover
<1>2. tainted /\ w \in DOMAIN worktrees
  BY DEF ProtocolInv, TypeOK
<1> HIDE DEF tainted
<1>3. /\ worktrees' = [worktrees EXCEPT ![w] = Ledger!RecoverRow(worktrees[w], t)]
      /\ scopes' = Ledger!AbandonAll(scopes, Ledger!LiveScopesOn(scopes, w))
  BY <1>1, <1>2 DEF Ledger!Recover, Ledger!RecoverScopes
<1>4. /\ worktrees'[w].revision = worktrees[w].revision + 1
      /\ worktrees'[w].failure = "Healthy" /\ worktrees'[w].rebaseline = FALSE
  BY <1>2, <1>3 DEF Ledger!RecoverRow
<1>5. LiveScopesOn(scopes', w) = {}
  BY <1>3 DEF LiveScopesOn, Ledger!AbandonAll, Ledger!LiveScopesOn, ProtocolInv, TypeOK,
              Ledger!LedgerTypeOK, Ledger!ScopeState
<1> QED BY <1>1, <1>4, <1>5 DEF NeedsRecovery, Unhealthy

\* While a worktree is externally tainted nothing but its recovery touches it.
LEMMA TaintHolds ==
  ASSUME ProtocolInv, [Next]_vars, NEW w \in externalTaint
  PROVE  \/ w \in externalTaint' /\ Ledger!DurableOf(w)' = Ledger!DurableOf(w)
         \/ /\ w \notin externalTaint'
            /\ LiveScopesOn(scopes', w) = {}
            /\ ~NeedsRecovery(worktrees'[w], FALSE)
            /\ worktrees'[w].revision = worktrees[w].revision + 1
<1>1. w \in DOMAIN worktrees /\ w \in Worktrees /\ Ledger!LedgerTypeOK
  BY DEF ProtocolInv, TypeOK, Ledger!LedgerTypeOK
<1>2. [Ledger!LedgerNext]_(Ledger!ledgerVars)
  BY StepRefines
<1>3. \A v \in DOMAIN worktrees : worktrees[v].revision \in Nat
  BY RevisionBound DEF ProtocolInv, TypeOK, Ledger!LedgerTypeOK, Ledger!WorktreeState
<1>4. ASSUME NEW v \in Worktrees, v # w, v \in DOMAIN worktrees',
             ~(v \in DOMAIN worktrees /\ worktrees'[v] = worktrees[v])
      PROVE  Ledger!DurableOf(w)' = Ledger!DurableOf(w)
  BY <1>1, <1>2, <1>4, LedgerMovesOne
<1>5. CASE UNCHANGED durableVars /\ externalTaint \subseteq externalTaint'
  BY <1>5 DEF durableVars, Ledger!DurableOf
<1>6. ASSUME NEW v \in Worktrees, NEW t \in Trees, InitializeWorktree(v, t)
      PROVE  w \in externalTaint' /\ Ledger!DurableOf(w)' = Ledger!DurableOf(w)
  <2>1. v \notin DOMAIN worktrees /\ v \in DOMAIN worktrees' /\ externalTaint' = externalTaint
    BY <1>6 DEF InitializeWorktree, Ledger!InitializeWorktree, Ledger!Put
  <2> QED BY <1>1, <1>4, <2>1
<1>7. ASSUME NEW s \in Scopes, NEW v \in Worktrees, NEW actor \in Actors, RegisterScope(s, v, actor)
      PROVE  w \in externalTaint' /\ Ledger!DurableOf(w)' = Ledger!DurableOf(w)
  BY <1>7 DEF RegisterScope, Ledger!RegisterScope, Ledger!Put, Ledger!DurableOf
<1>8. ASSUME NEW a \in Attempts, Commit(a), ~UNCHANGED durableVars
      PROVE  w \in externalTaint' /\ Ledger!DurableOf(w)' = Ledger!DurableOf(w)
  <2> DEFINE v == BoundaryWorktree(attempts[a].plan.boundary, scopes)
  <2>1. /\ v \in DOMAIN worktrees /\ v \in DOMAIN worktrees' /\ v # w
        /\ worktrees'[v].revision = worktrees[v].revision + 1
    BY <1>8, CommitMovesOwnRow
  <2>2. v \in Worktrees
    BY <2>1 DEF ProtocolInv, TypeOK, Ledger!LedgerTypeOK
  <2> HIDE DEF v
  <2>3. worktrees'[v] # worktrees[v]
    BY <1>3, <2>1
  <2> QED BY <1>4, <1>8, <2>1, <2>2, <2>3 DEF Commit
<1>9. ASSUME NEW v \in Worktrees, Taint(v)
      PROVE  w \in externalTaint' /\ Ledger!DurableOf(w)' = Ledger!DurableOf(w)
  <2>1. /\ v # w /\ v \in DOMAIN worktrees /\ externalTaint' = externalTaint
        /\ worktrees' = [worktrees EXCEPT ![v] = Ledger!TaintRow(worktrees[v])]
    BY <1>9 DEF Taint, Ledger!Taint
  <2>2. worktrees[v] \in Ledger!WorktreeState
    BY <2>1 DEF ProtocolInv, TypeOK, Ledger!LedgerTypeOK
  <2>3. v \in DOMAIN worktrees' /\ worktrees'[v].revision = worktrees[v].revision + 1
    BY <2>1, <2>2 DEF Ledger!TaintRow, Ledger!WorktreeState
  <2>4. worktrees'[v] # worktrees[v]
    BY <1>3, <2>1, <2>3
  <2> QED BY <1>4, <2>1, <2>3, <2>4
<1>10. ASSUME NEW s \in Scopes, Abandon(s)
       PROVE  w \in externalTaint' /\ Ledger!DurableOf(w)' = Ledger!DurableOf(w)
  <2> DEFINE v == scopes[s].worktree
  <2>1. /\ s \in DOMAIN scopes /\ v # w /\ externalTaint' = externalTaint
        /\ worktrees' = [worktrees EXCEPT ![v] = Ledger!AbandonRow(worktrees[v])]
    BY <1>10 DEF Abandon, Ledger!Abandon
  <2>2. v \in DOMAIN worktrees /\ v \in Worktrees /\ worktrees[v] \in Ledger!WorktreeState
    BY <2>1 DEF ProtocolInv, TypeOK, Ledger!LedgerTypeOK
  <2>3. v \in DOMAIN worktrees' /\ worktrees'[v].revision = worktrees[v].revision + 1
    BY <2>1, <2>2 DEF Ledger!AbandonRow, Ledger!WorktreeState
  <2> HIDE DEF v
  <2>4. worktrees'[v] # worktrees[v]
    BY <1>3, <2>2, <2>3
  <2> QED BY <1>4, <2>1, <2>2, <2>3, <2>4
<1>11. ASSUME NEW v \in Worktrees, v # w, NEW t \in Trees, Recover(v, t)
       PROVE  w \in externalTaint' /\ Ledger!DurableOf(w)' = Ledger!DurableOf(w)
  <2>1. /\ v \in DOMAIN worktrees /\ externalTaint' = externalTaint \ {v}
        /\ worktrees' = [worktrees EXCEPT ![v] = Ledger!RecoverRow(worktrees[v], t)]
    BY <1>11 DEF Recover, Ledger!Recover
  <2>2. v \in DOMAIN worktrees' /\ worktrees'[v].revision = worktrees[v].revision + 1
    BY <2>1 DEF Ledger!RecoverRow
  <2>3. worktrees'[v] # worktrees[v]
    BY <1>3, <2>1, <2>2
  <2> QED BY <1>4, <1>11, <2>1, <2>2, <2>3
<1>12. CASE \E a \in Attempts, b \in Boundary, t \in Trees : Prepare(a, b, t)
  BY <1>5, <1>12 DEF Prepare
<1>13. CASE \E a \in Attempts : Forget(a)
  BY <1>5, <1>13 DEF Forget
<1>14. CASE \E v \in Worktrees : DatabaseFailure(v)
  BY <1>5, <1>14 DEF DatabaseFailure
<1>15. CASE UNCHANGED vars
  BY <1>5, <1>15 DEF vars, durableVars
<1>16. ASSUME NEW a \in Attempts, Commit(a), UNCHANGED durableVars
       PROVE  w \in externalTaint' /\ Ledger!DurableOf(w)' = Ledger!DurableOf(w)
  BY <1>16 DEF Commit, durableVars, Ledger!DurableOf
<1>17. CASE \E v \in Worktrees, t \in Trees : Recover(v, t)
  BY <1>11, <1>17, RecoveryClears
<1> QED BY <1>6, <1>7, <1>8, <1>9, <1>10, <1>12, <1>13, <1>14, <1>15, <1>16, <1>17 DEF Next

\* A worktree whose last interval may be lost stays as it is, whatever is
\* committed, tainted or abandoned, until a recovery ends its scopes.
THEOREM TaintIsHeld == Spec => ExternalTaintHoldsUntilRecovery
<1>1. ProtocolInv /\ [Next]_vars =>
        [\A w \in externalTaint :
           \/ w \in externalTaint' /\ Ledger!DurableOf(w)' = Ledger!DurableOf(w)
           \/ /\ w \notin externalTaint'
              /\ LiveScopesOn(scopes', w) = {}
              /\ ~NeedsRecovery(worktrees'[w], FALSE)
              /\ worktrees'[w].revision = worktrees[w].revision + 1]_vars
  BY TaintHolds
<1> QED BY <1>1, Invariant, PTL DEF Spec, ExternalTaintHoldsUntilRecovery

-----------------------------------------------------------------------------
(* One winner.                                                             *)

\* No attempt is ahead of its worktree.
PlansArePast ==
  \A a \in DOMAIN attempts :
    LET plan == attempts[a].plan
    IN  plan.expected <= worktrees[BoundaryWorktree(plan.boundary, scopes)].revision

PastInv == ProtocolInv /\ PlansArePast

\* A plan that is past stays past: its worktree is the same, and only goes on.
LEMMA PlanStaysPast ==
  ASSUME ProtocolInv, [Next]_vars, NEW b, Resolvable(b, worktrees, scopes), NEW n \in Nat,
         n <= worktrees[BoundaryWorktree(b, scopes)].revision
  PROVE  /\ BoundaryWorktree(b, scopes') = BoundaryWorktree(b, scopes)
         /\ n <= worktrees'[BoundaryWorktree(b, scopes)].revision
<1> DEFINE w == BoundaryWorktree(b, scopes)
<1>1. /\ Ledger!LedgerTypeOK'
      /\ DOMAIN worktrees \subseteq DOMAIN worktrees'
      /\ DOMAIN scopes \subseteq DOMAIN scopes'
      /\ \A s \in DOMAIN scopes : scopes'[s].worktree = scopes[s].worktree
      /\ \A v \in DOMAIN worktrees : worktrees[v].revision <= worktrees'[v].revision
  BY StepRefines, LedgerStep DEF ProtocolInv, TypeOK
<1>2. w \in DOMAIN worktrees /\ BoundaryWorktree(b, scopes') = w
  BY <1>1 DEF Resolvable, BoundaryWorktree
<1>3. worktrees[w].revision \in Nat
  BY <1>2, RevisionBound DEF ProtocolInv, TypeOK, Ledger!LedgerTypeOK, Ledger!WorktreeState
<1>4. worktrees'[w].revision \in Nat
  <2>1. worktrees'[w] \in Ledger!WorktreeState
    BY <1>1, <1>2 DEF Ledger!LedgerTypeOK
  <2> QED BY <2>1, RevisionBound DEF Ledger!WorktreeState
<1> QED BY <1>1, <1>2, <1>3, <1>4

LEMMA PastNext ==
  ASSUME PastInv, [Next]_vars
  PROVE  PastInv'
<1>1. ProtocolInv'
  BY InvNext DEF PastInv
<1>2. ASSUME NEW a \in DOMAIN attempts
      PROVE  attempts[a].plan.expected
               <= worktrees'[BoundaryWorktree(attempts[a].plan.boundary, scopes')].revision
  <2>1. attempts[a].plan.expected \in Nat
    BY RevisionBound DEF PastInv, ProtocolInv, TypeOK, AttemptState, Plan
  <2>2. Resolvable(attempts[a].plan.boundary, worktrees, scopes)
    BY DEF PastInv, ProtocolInv, PlansResolvable
  <2>3. attempts[a].plan.expected
          <= worktrees[BoundaryWorktree(attempts[a].plan.boundary, scopes)].revision
    BY DEF PastInv, PlansArePast
  <2> QED BY <2>1, <2>2, <2>3, PlanStaysPast DEF PastInv
<1>3. ASSUME NEW a \in DOMAIN attempts', a \in DOMAIN attempts => attempts'[a].plan = attempts[a].plan,
             a \notin DOMAIN attempts =>
               \E b, t : /\ Resolvable(b, worktrees, scopes)
                         /\ UNCHANGED durableVars
                         /\ attempts'[a].plan = MakePlan(b, worktrees[BoundaryWorktree(b, scopes)], t)
      PROVE  attempts'[a].plan.expected
               <= worktrees'[BoundaryWorktree(attempts'[a].plan.boundary, scopes')].revision
  <2>1. CASE a \in DOMAIN attempts
    BY <1>2, <1>3, <2>1
  <2>2. CASE a \notin DOMAIN attempts
    <3>1. PICK b, t : /\ Resolvable(b, worktrees, scopes)
                      /\ UNCHANGED durableVars
                      /\ attempts'[a].plan = MakePlan(b, worktrees[BoundaryWorktree(b, scopes)], t)
      BY <1>3, <2>2
    <3> DEFINE w == BoundaryWorktree(b, scopes)
    <3>2. w \in DOMAIN worktrees
      BY <3>1 DEF Resolvable, BoundaryWorktree
    <3>3. worktrees[w].revision \in Nat
      BY <3>2, RevisionBound DEF PastInv, ProtocolInv, TypeOK, Ledger!LedgerTypeOK,
                                 Ledger!WorktreeState
    <3>4. attempts'[a].plan.boundary = b /\ attempts'[a].plan.expected = worktrees[w].revision
      BY <3>1 DEF MakePlan
    <3>5. worktrees' = worktrees /\ scopes' = scopes
      BY <3>1 DEF durableVars
    <3> HIDE DEF w
    <3>6. BoundaryWorktree(attempts'[a].plan.boundary, scopes') = w
      BY <3>4, <3>5 DEF w
    <3> QED BY <3>3, <3>4, <3>5, <3>6
  <2> QED BY <2>1, <2>2
<1>4. \A a \in DOMAIN attempts' :
        /\ a \in DOMAIN attempts => attempts'[a].plan = attempts[a].plan
        /\ a \notin DOMAIN attempts =>
             \E b, t : /\ Resolvable(b, worktrees, scopes)
                       /\ UNCHANGED durableVars
                       /\ attempts'[a].plan = MakePlan(b, worktrees[BoundaryWorktree(b, scopes)], t)
  <2>1. CASE UNCHANGED attempts
    BY <2>1
  <2>2. ASSUME NEW a \in Attempts, NEW b \in Boundary, NEW t \in Trees, Prepare(a, b, t)
        PROVE  \A x \in DOMAIN attempts' :
                 /\ x \in DOMAIN attempts => attempts'[x].plan = attempts[x].plan
                 /\ x \notin DOMAIN attempts =>
                      /\ Resolvable(b, worktrees, scopes)
                      /\ UNCHANGED durableVars
                      /\ attempts'[x].plan = MakePlan(b, worktrees[BoundaryWorktree(b, scopes)], t)
    BY <2>2 DEF Prepare, Put
  <2>3. ASSUME NEW a \in Attempts, NEW status, Finish(a, status), a \in DOMAIN attempts
        PROVE  \A x \in DOMAIN attempts' : x \in DOMAIN attempts /\ attempts'[x].plan = attempts[x].plan
    <3>1. attempts[a] \in AttemptState
      BY <2>3 DEF PastInv, ProtocolInv, TypeOK
    <3> QED BY <2>3, <3>1 DEF Finish, AttemptState
  <2>4. ASSUME NEW a \in Attempts, Forget(a)
        PROVE  \A x \in DOMAIN attempts' : x \in DOMAIN attempts /\ attempts'[x].plan = attempts[x].plan
    BY <2>4 DEF Forget
  <2>5. CASE \E a \in Attempts : Commit(a)
    <3>1. PICK a \in Attempts : Commit(a)
      BY <2>5
    <3>2. a \in DOMAIN attempts /\ \E status : Finish(a, status)
      BY <3>1 DEF Commit, CommitAccepted, CommitRejected
    <3>3. \A x \in DOMAIN attempts' : x \in DOMAIN attempts /\ attempts'[x].plan = attempts[x].plan
      BY <2>3, <3>2
    <3> QED BY <3>3
  <2> QED BY <2>1, <2>2, <2>4, <2>5
          DEF Next, vars, InitializeWorktree, RegisterScope, Taint, DatabaseFailure, Abandon, Recover
<1>5. PlansArePast'
  BY <1>3, <1>4 DEF PlansArePast
<1> QED BY <1>1, <1>5 DEF PastInv

LEMMA Past == Spec => []PastInv
<1>1. Init => PastInv
  BY InvInit DEF Init, PastInv, PlansArePast
<1>2. PastInv /\ [Next]_vars => PastInv'
  BY PastNext
<1> QED BY <1>1, <1>2, PTL DEF Spec

\* Only a step of its own commits an attempt.
LEMMA CommitsItself ==
  ASSUME ProtocolInv, [Next]_vars, NEW a \in Attempts, CommitOf(a)
  PROVE  Commit(a)
<1>1. /\ a \in DOMAIN attempts /\ attempts[a].status = "Prepared"
      /\ a \in DOMAIN attempts' /\ attempts'[a].status = "Committed"
  BY DEF CommitOf
<1>2. ASSUME NEW x \in Attempts, NEW b, NEW t, Prepare(x, b, t)
      PROVE  FALSE
  BY <1>1, <1>2 DEF Prepare, Put
<1>3. ASSUME NEW x \in Attempts, Forget(x)
      PROVE  FALSE
  BY <1>1, <1>3 DEF Forget
<1>4. ASSUME NEW x \in Attempts, x # a, Commit(x)
      PROVE  FALSE
  <2>1. PICK status : attempts' = [attempts EXCEPT ![x].status = status]
    BY <1>4 DEF Commit, CommitAccepted, CommitRejected, Finish
  <2> QED BY <1>1, <1>4, <2>1
<1>5. CASE UNCHANGED attempts
  BY <1>1, <1>5
<1> QED BY <1>2, <1>3, <1>4, <1>5
        DEF Next, vars, InitializeWorktree, RegisterScope, Taint, DatabaseFailure, Abandon, Recover

LEMMA WinnerLeavesStale ==
  ASSUME PastInv, [Next]_vars, NEW a \in Attempts, CommitOf(a), durableVars' # durableVars,
         NEW x \in DOMAIN attempts',
         attempts'[x].status = "Prepared",
         BoundaryWorktree(attempts'[x].plan.boundary, scopes')
           = BoundaryWorktree(attempts[a].plan.boundary, scopes)
  PROVE  LET w == BoundaryWorktree(attempts[a].plan.boundary, scopes)
         IN  ~Fresh(attempts'[x].plan, worktrees'[w], FALSE, processedEvents')
<1> DEFINE w == BoundaryWorktree(attempts[a].plan.boundary, scopes)
<1>1. Commit(a)
  BY CommitsItself DEF PastInv
<1>2. /\ w \in DOMAIN worktrees
      /\ worktrees'[w].revision = worktrees[w].revision + 1
      /\ attempts' = [attempts EXCEPT ![a].status = "Committed"]
  BY <1>1, CommitMovesOwnRow DEF PastInv, durableVars
<1>3. attempts[a] \in AttemptState /\ a \in DOMAIN attempts
  BY <1>1 DEF PastInv, ProtocolInv, TypeOK, Commit
<1>4. x # a
  <2>1. attempts'[a].status = "Committed"
    BY <1>2, <1>3 DEF AttemptState
  <2> QED BY <2>1
<1>5. x \in DOMAIN attempts /\ attempts'[x] = attempts[x]
  BY <1>2, <1>4
<1>6. attempts[x].plan.expected \in Nat /\ worktrees[w].revision \in Nat
  BY <1>2, <1>5, RevisionBound
     DEF PastInv, ProtocolInv, TypeOK, AttemptState, Plan, Ledger!LedgerTypeOK, Ledger!WorktreeState
<1>7. BoundaryWorktree(attempts[x].plan.boundary, scopes) = w
  <2>1. Resolvable(attempts[x].plan.boundary, worktrees, scopes)
    BY <1>5 DEF PastInv, ProtocolInv, PlansResolvable
  <2>2. attempts[x].plan.expected
          <= worktrees[BoundaryWorktree(attempts[x].plan.boundary, scopes)].revision
    BY <1>5 DEF PastInv, PlansArePast
  <2>3. BoundaryWorktree(attempts[x].plan.boundary, scopes')
          = BoundaryWorktree(attempts[x].plan.boundary, scopes)
    BY <1>6, <2>1, <2>2, PlanStaysPast DEF PastInv
  <2> QED BY <1>5, <2>3
<1>8. attempts[x].plan.expected <= worktrees[w].revision
  BY <1>5, <1>7 DEF PastInv, PlansArePast
<1> HIDE DEF w
<1>9. attempts'[x].plan.expected # worktrees'[w].revision
  BY <1>2, <1>5, <1>6, <1>8
<1> QED BY <1>9 DEF Fresh, w

\* Of all the attempts under way on a worktree one can take effect: a commit
\* that does leaves every other one prepared there stale for good.
THEOREM OneWinner == Spec => WinnerInvalidatesRivals
<1>1. ASSUME PastInv, [Next]_vars, NEW a \in Attempts, NEW w \in DOMAIN worktrees, CommitOf(a),
             BoundaryWorktree(attempts[a].plan.boundary, scopes) = w, durableVars' # durableVars
      PROVE  (\A x \in DOMAIN attempts : StaleIn(attempts[x], w))'
  BY <1>1, WinnerLeavesStale DEF StaleIn
<1>2. PastInv /\ [Next]_vars =>
        [\A a \in Attempts, w \in DOMAIN worktrees :
           (CommitOf(a) /\ BoundaryWorktree(attempts[a].plan.boundary, scopes) = w
              /\ durableVars' # durableVars)
             => (\A x \in DOMAIN attempts : StaleIn(attempts[x], w))']_vars
  BY <1>1
<1> QED BY <1>2, Past, PTL DEF Spec, WinnerInvalidatesRivals

-----------------------------------------------------------------------------
(* What the refinement carries over.                                       *)

\* The speculative protocol keeps every promise of the ledger about its
\* evidence: what it records is a movement of the cursor, is never positive
\* before the recovery of a failure, and counts a delivery once.
THEOREM ProtocolKeepsPromises ==
  Spec => [](Facts!EvidenceIsCursorMovement /\ Facts!RecoveryPrecedesTrust
               /\ Facts!PositiveEvidenceHasOneLiveSet /\ Facts!ConfirmedAtClose
               /\ Facts!DeliveryCountsOnce)
<1>1. Init => Facts!LedgerInit
  BY DEF Init, Ledger!LedgerInit, Facts!LedgerInit
<1>2. ProtocolInv /\ [Next]_vars => [Facts!LedgerNext]_(Facts!ledgerVars)
  BY StepRefines, SameNext
<1>3. Spec => Facts!LedgerSpec
  BY <1>1, <1>2, Invariant, PTL DEF Spec, Facts!LedgerSpec
<1>4. Facts!LedgerSpec => /\ []Facts!EvidenceIsCursorMovement /\ []Facts!RecoveryPrecedesTrust
                          /\ []Facts!PositiveEvidenceHasOneLiveSet
                          /\ []Facts!ConfirmedAtClose /\ []Facts!DeliveryCountsOnce
  BY SameAssumptions, Facts!EvidenceCorrect, Facts!TrustAfterRecovery, Facts!OneLiveSet,
     Facts!ConfirmedWhenPositive, Facts!DeliveryOnce, PTL
<1> QED BY <1>3, <1>4, PTL
=============================================================================
