------------------------ MODULE MutationLedgerProofs ------------------------
(***************************************************************************)
(* Theorems about the atomic specification, for any number of worktrees,   *)
(* scopes, deliveries and trees and any bound on the revision.             *)
(***************************************************************************)
EXTENDS MutationLedger, TLAPS

-----------------------------------------------------------------------------
(* Lemmas about the operators of the kernel.                               *)

\* The scopes that are live are among those that are known.
LEMMA LiveScopesType ==
  ASSUME NEW scps, NEW w, DOMAIN scps \subseteq Scopes
  PROVE  LiveScopesOn(scps, w) \in SUBSET Scopes
BY DEF LiveScopesOn

\* Whatever the state, a boundary's change is attributed to known scopes.
LEMMA AttributionType ==
  ASSUME NEW row, NEW scps, NEW w, NEW tainted, NEW b, DOMAIN scps \subseteq Scopes
  PROVE  AttributionForBoundary(row, scps, w, tainted, b) \in Attribution
<1>1. Ineligible \in Attribution
  BY DEF Ineligible, Attribution
<1>2. AttributionFor(row, scps, w, tainted) \in Attribution
  <2>1. CASE \E s \in LiveScopesOn(scps, w) : LiveScopesOn(scps, w) = {s}
    <3>1. (CHOOSE s \in LiveScopesOn(scps, w) : LiveScopesOn(scps, w) = {s}) \in Scopes
      BY <2>1, LiveScopesType
    <3> QED BY <1>1, <2>1, <3>1 DEF AttributionFor, Attribution
  <2>2. CASE ~ \E s \in LiveScopesOn(scps, w) : LiveScopesOn(scps, w) = {s}
    BY <1>1, <2>2 DEF AttributionFor, Attribution
  <2> QED BY <2>1, <2>2
<1> QED BY <1>1, <1>2 DEF AttributionForBoundary

\* A row below the bound stays a row when a plan is applied to it.
LEMMA NextRowType ==
  ASSUME NEW plan, NEW scps, NEW row \in WorktreeState, plan.after \in Trees,
         HasHeadroom(row), WouldAdvance(plan, scps)
  PROVE  /\ NextRow(plan, row, scps) \in WorktreeState
         /\ NextRow(plan, row, scps).revision = row.revision + 1
<1>1. row.revision + 1 \in 0..MaxRevision
  BY RevisionBound DEF WorktreeState, HasHeadroom
<1>2. (IF MovesCursor(plan, row, scps) THEN plan.after ELSE row.cursor) \in Trees
  BY DEF WorktreeState
<1>3. NextRow(plan, row, scps)
        = [row EXCEPT !.revision = row.revision + 1,
                      !.cursor = IF MovesCursor(plan, row, scps) THEN plan.after ELSE row.cursor]
  BY DEF NextRow
<1> QED BY <1>1, <1>2, <1>3 DEF WorktreeState

\* The rows of a taint, an abandonment and a recovery.
LEMMA OtherRowsType ==
  ASSUME NEW row \in WorktreeState, NEW t \in Trees, HasHeadroom(row)
  PROVE  /\ TaintRow(row) \in WorktreeState /\ TaintRow(row).revision = row.revision + 1
         /\ AbandonRow(row) \in WorktreeState /\ AbandonRow(row).revision = row.revision + 1
         /\ RecoverRow(row, t) \in WorktreeState /\ RecoverRow(row, t).revision = row.revision + 1
<1>1. row.revision + 1 \in 0..MaxRevision
  BY RevisionBound DEF WorktreeState, HasHeadroom
<1>2. TaintRow(row) \in WorktreeState /\ TaintRow(row).revision = row.revision + 1
  BY <1>1 DEF TaintRow, WorktreeState
<1>3. AbandonRow(row) \in WorktreeState /\ AbandonRow(row).revision = row.revision + 1
  BY <1>1 DEF AbandonRow, WorktreeState
<1>4. RecoverRow(row, t) \in WorktreeState /\ RecoverRow(row, t).revision = row.revision + 1
  BY <1>1 DEF RecoverRow, WorktreeState
<1> QED BY <1>2, <1>3, <1>4

\* A scope keeps where and whose it is, and its status only goes onward.
Onward(before, after) ==
  /\ after.worktree = before.worktree
  /\ after.actor = before.actor
  /\ \/ after.status = before.status
     \/ StatusRank(after.status) > StatusRank(before.status)

\* Status changes keep the scopes that are known.
SameScopes(scps, next) ==
  /\ DOMAIN next = DOMAIN scps
  /\ next \in [DOMAIN next -> ScopeState]
  /\ \A s \in DOMAIN scps : Onward(scps[s], next[s])

\* Only scopes of worktree w change.
OnlyOn(w, scps, next) == \A s \in DOMAIN scps : scps[s].worktree # w => next[s] = scps[s]

LEMMA AbandonAllType ==
  ASSUME NEW scps, scps \in [DOMAIN scps -> ScopeState], NEW gone, NEW w,
         \A s \in gone : scps[s].worktree = w /\ scps[s].status = "Active"
  PROVE  /\ SameScopes(scps, AbandonAll(scps, gone))
         /\ OnlyOn(w, scps, AbandonAll(scps, gone))
<1> DEFINE next == AbandonAll(scps, gone)
<1>1. DOMAIN next = DOMAIN scps /\ OnlyOn(w, scps, next)
  BY DEF AbandonAll, OnlyOn
<1>2. ASSUME NEW s \in DOMAIN scps
      PROVE  next[s] \in ScopeState /\ Onward(scps[s], next[s])
  <2>1. CASE s \in gone
    BY <2>1 DEF AbandonAll, Onward, StatusRank, ScopeState, ScopeStatus
  <2>2. CASE s \notin gone
    BY <2>2 DEF AbandonAll, Onward
  <2> QED BY <2>1, <2>2
<1>3. next \in [DOMAIN next -> ScopeState]
  BY <1>1, <1>2 DEF AbandonAll
<1> QED BY <1>1, <1>2, <1>3 DEF SameScopes

LEMMA NextScopesType ==
  ASSUME NEW scps, scps \in [DOMAIN scps -> ScopeState], NEW b,
         IsHook(b) => b.scope \in DOMAIN scps
  PROVE  /\ SameScopes(scps, NextScopes(b, scps))
         /\ OnlyOn(BoundaryWorktree(b, scps), scps, NextScopes(b, scps))
<1>1. CASE b.kind \in {"Start", "Close"} /\ Observes(b, scps)
  <2> DEFINE status == IF b.kind = "Start" THEN "Active" ELSE "Closed"
             next == [scps EXCEPT ![b.scope].status = status]
  <2>1. NextScopes(b, scps) = next
    BY <1>1 DEF NextScopes
  <2>2. IsHook(b) /\ b.scope \in DOMAIN scps
    BY <1>1 DEF IsHook
  <2>3. Onward(scps[b.scope], [scps[b.scope] EXCEPT !.status = status])
    <3>1. CASE b.kind = "Start"
      BY <1>1, <2>2, <3>1 DEF Onward, StatusRank, Observes, ScopeState, ScopeStatus
    <3>2. CASE b.kind = "Close"
      BY <1>1, <2>2, <3>2 DEF Onward, StatusRank, Observes, ScopeState, ScopeStatus
    <3> QED BY <1>1, <3>1, <3>2
  <2>4. [scps[b.scope] EXCEPT !.status = status] \in ScopeState
    BY <2>2 DEF ScopeState, ScopeStatus
  <2>5. \A s \in DOMAIN scps : Onward(scps[s], scps[s])
    BY DEF Onward
  <2>6. next = [scps EXCEPT ![b.scope] = [scps[b.scope] EXCEPT !.status = status]]
    OBVIOUS
  <2> HIDE DEF status
  <2>7. SameScopes(scps, next)
    BY <2>2, <2>3, <2>4, <2>5, <2>6 DEF SameScopes
  <2>8. OnlyOn(BoundaryWorktree(b, scps), scps, next)
    BY <2>2, <2>6 DEF OnlyOn, BoundaryWorktree
  <2> QED BY <2>1, <2>7, <2>8
<1>2. CASE ~(b.kind \in {"Start", "Close"} /\ Observes(b, scps))
  BY <1>2 DEF NextScopes, SameScopes, OnlyOn, Onward
<1> QED BY <1>1, <1>2

LEMMA RecoverScopesType ==
  ASSUME NEW scps, scps \in [DOMAIN scps -> ScopeState], NEW row, NEW w, NEW tainted
  PROVE  /\ SameScopes(scps, RecoverScopes(row, scps, w, tainted))
         /\ OnlyOn(w, scps, RecoverScopes(row, scps, w, tainted))
<1>1. \A s \in LiveScopesOn(scps, w) : scps[s].worktree = w /\ scps[s].status = "Active"
  BY DEF LiveScopesOn
<1>2. CASE Unhealthy(row) \/ tainted
  BY <1>1, <1>2, AbandonAllType DEF RecoverScopes
<1>3. CASE ~(Unhealthy(row) \/ tainted)
  BY <1>3 DEF RecoverScopes, SameScopes, OnlyOn, Onward
<1> QED BY <1>2, <1>3

-----------------------------------------------------------------------------
(* The shape that every step with an effect on a worktree has in common.   *)

\* Worktree w reaches the row of its next revision, and the scopes change.
Advances(w, step, row, next, seen) ==
  /\ w \in DOMAIN worktrees
  /\ step \in Step /\ seen \in BOOLEAN
  /\ row \in WorktreeState /\ row.revision = worktrees[w].revision + 1
  /\ SameScopes(scopes, next) /\ OnlyOn(w, scopes, next)
  /\ worktrees' = [worktrees EXCEPT ![w] = row]
  /\ scopes' = next
  /\ history' = Record(w, step, row, next, seen)

\* The evidence recorded on the way from one row of w to the next.
Movements(w, row, next, new) ==
  \A e \in new :
    /\ e \in MutationEvent
    /\ e.worktree = w /\ e.revision = next.revision
    /\ e.before = row.cursor /\ e.after = next.cursor
    /\ e.active = LiveScopesOn(scopes, w)
    /\ e.before # e.after

Records(w, step, row, new) ==
  /\ mutationEvents' = mutationEvents \cup new
  /\ Movements(w, worktrees[w], row, new)
  /\ row.cursor # worktrees[w].cursor => step = "Recover" \/ new # {}

\* What a step does to the two bits that withhold trust from a worktree, and
\* when it may change the live scopes without having captured the worktree.
Governs(w, step, row, next, seen) ==
  LET old == worktrees[w]
  IN  /\ step # "Recover" => (Unhealthy(old) => Unhealthy(row)) /\ (old.rebaseline => row.rebaseline)
      /\ step = "Recover" => seen
      /\ step = "Taint" => Unhealthy(row)
      /\ step = "Abandon" => row.rebaseline
      /\ ~seen /\ ~row.rebaseline => LiveScopesOn(next, w) = LiveScopesOn(scopes, w)

\* The scopes of a piece of evidence can vouch for it at its boundary.
Confirmed(e, scps) ==
  /\ e.active # {}
  /\ \A s \in e.active : RequiresConfirmation(scps[s].actor) => Confirms(e.boundary, s)
  /\ e.boundary.kind = "Close" => e.boundary.scope \in e.active

\* A step leaves at most one piece of evidence, for a delivery that is new,
\* and none while the worktree waits for a rebaseline.
Vouches(w, new) ==
  /\ \A e, f \in new : e = f
  /\ \A e \in new :
       /\ ~worktrees[w].rebaseline
       /\ IsHook(e.boundary) => Key(e.boundary) \in processedEvents' \ processedEvents
       /\ Positive(e.attribution) => ~Unhealthy(worktrees[w]) /\ Confirmed(e, scopes)

Transition ==
  /\ processedEvents' \in SUBSET EventKey
  /\ processedEvents \subseteq processedEvents'
  /\ \E w \in Worktrees, step \in Step, row \in WorktreeState, seen \in BOOLEAN :
       \E next, new :
         /\ Advances(w, step, row, next, seen) /\ Records(w, step, row, new)
         /\ Governs(w, step, row, next, seen) /\ Vouches(w, new)

\* A plan made on the spot records what its boundary observed.
LEMMA PlanEvidence ==
  ASSUME NEW b \in Boundary, NEW t \in Trees, NEW row \in WorktreeState, NEW w \in Worktrees,
         DOMAIN scopes \subseteq Scopes, HasHeadroom(row),
         WouldAdvance(MakePlan(b, row, t), scopes)
  PROVE  /\ Movements(w, row, NextRow(MakePlan(b, row, t), row, scopes),
                      NewEvidence(MakePlan(b, row, t), row, scopes, w, FALSE))
         /\ NextRow(MakePlan(b, row, t), row, scopes).cursor # row.cursor
              => NewEvidence(MakePlan(b, row, t), row, scopes, w, FALSE) # {}
<1> DEFINE plan == MakePlan(b, row, t)
           next == NextRow(plan, row, scopes)
           e == EvidenceOf(plan, row, scopes, w, FALSE)
<1>1. plan.boundary = b /\ plan.before = row.cursor /\ plan.after = t
  BY DEF MakePlan
<1>2. /\ next.revision = row.revision + 1
      /\ next.cursor = IF MovesCursor(plan, row, scopes) THEN t ELSE row.cursor
  BY <1>1 DEF NextRow, WorktreeState
<1>3. /\ e.worktree = w /\ e.revision = row.revision + 1
      /\ e.before = row.cursor /\ e.after = t
      /\ e.active = LiveScopesOn(scopes, w)
  BY <1>1 DEF EvidenceOf
<1>4. e \in MutationEvent
  <2>1. row.revision + 1 \in 0..MaxRevision
    BY RevisionBound DEF WorktreeState, HasHeadroom
  <2>2. AttributionForBoundary(row, scopes, w, FALSE, plan.boundary) \in Attribution
    BY AttributionType
  <2>3. LiveScopesOn(scopes, w) \in SUBSET Scopes
    BY LiveScopesType
  <2>4. row.cursor \in Trees /\ row.failure \in {"Healthy", "SnapshotFailure"}
    BY DEF WorktreeState
  <2> QED BY <1>1, <2>1, <2>2, <2>3, <2>4 DEF EvidenceOf, MutationEvent
<1>5. TreeChanged(plan, scopes) /\ ~row.rebaseline <=> MovesCursor(plan, row, scopes) /\ row.cursor # t
  BY <1>1 DEF TreeChanged, MovesCursor
<1>6. NewEvidence(plan, row, scopes, w, FALSE)
      = IF TreeChanged(plan, scopes) /\ ~row.rebaseline THEN {e} ELSE {}
  BY DEF NewEvidence
<1>7. /\ Movements(w, row, next, NewEvidence(plan, row, scopes, w, FALSE))
      /\ next.cursor # row.cursor => NewEvidence(plan, row, scopes, w, FALSE) # {}
  <2> HIDE DEF plan, next, e
  <2>1. CASE TreeChanged(plan, scopes) /\ ~row.rebaseline
    <3>1. next.cursor = t /\ row.cursor # t
      BY <1>2, <1>5, <2>1
    <3>2. NewEvidence(plan, row, scopes, w, FALSE) = {e}
      BY <1>6, <2>1
    <3> QED BY <1>2, <1>3, <1>4, <3>1, <3>2 DEF Movements
  <2>2. CASE ~(TreeChanged(plan, scopes) /\ ~row.rebaseline)
    <3>1. next.cursor = row.cursor
      BY <1>2, <1>5, <2>2
    <3>2. NewEvidence(plan, row, scopes, w, FALSE) = {}
      BY <1>6, <2>2
    <3> QED BY <3>1, <3>2 DEF Movements
  <2> QED BY <2>1, <2>2
<1> QED BY <1>7

\* What a plan made on the spot records is vouched for, and it leaves the
\* bits of its row alone.
LEMMA PlanVouched ==
  ASSUME NEW b \in Boundary, NEW t \in Trees, NEW row \in WorktreeState, NEW w \in Worktrees,
         w = BoundaryWorktree(b, scopes), IsHook(b) => b.scope \in DOMAIN scopes,
         NEW e \in NewEvidence(MakePlan(b, row, t), row, scopes, w, FALSE)
  PROVE  /\ e = EvidenceOf(MakePlan(b, row, t), row, scopes, w, FALSE)
         /\ ~row.rebaseline
         /\ e.boundary = b
         /\ Positive(e.attribution) => ~Unhealthy(row) /\ Confirmed(e, scopes)
<1> DEFINE plan == MakePlan(b, row, t)
           live == LiveScopesOn(scopes, w)
<1>1. plan.boundary = b
  BY DEF MakePlan
<1>2. TreeChanged(plan, scopes) /\ ~row.rebaseline /\ e = EvidenceOf(plan, row, scopes, w, FALSE)
  BY DEF NewEvidence
<1>3. /\ e.boundary = b /\ e.active = live
      /\ e.attribution = AttributionForBoundary(row, scopes, w, FALSE, b)
  BY <1>1, <1>2 DEF EvidenceOf
<1>4. ASSUME Positive(e.attribution)
      PROVE  ~Unhealthy(row) /\ Confirmed(e, scopes)
  <2>1. ~ClosesNeverSeen(scopes, b) /\ ~HasUnconfirmedScope(scopes, w, b)
    BY <1>3, <1>4 DEF AttributionForBoundary, Positive
  <2>2. AttributionFor(row, scopes, w, FALSE) # Ineligible
    BY <1>3, <1>4 DEF AttributionForBoundary, Positive
  <2>3. ~Unhealthy(row) /\ live # {}
    BY <2>2 DEF AttributionFor
  <2>4. ASSUME b.kind = "Close" PROVE b.scope \in live
    <3>1. b.scope \in DOMAIN scopes /\ scopes[b.scope].worktree = w
      BY <2>4 DEF IsHook, BoundaryWorktree
    <3>2. scopes[b.scope].status \in {"NeverSeen", "Active"}
      BY <1>1, <1>2, <2>4 DEF TreeChanged, Observes
    <3>3. scopes[b.scope].status = "Active"
      BY <2>1, <2>4, <3>2 DEF ClosesNeverSeen
    <3> QED BY <3>1, <3>3 DEF LiveScopesOn
  <2>5. \A s \in live : RequiresConfirmation(scopes[s].actor) => Confirms(b, s)
    BY <2>1 DEF HasUnconfirmedScope
  <2> QED BY <1>3, <2>3, <2>4, <2>5 DEF Confirmed
<1> QED BY <1>2, <1>3, <1>4

\* A boundary leaves the two bits of its row alone, and a boundary that does
\* not observe leaves the scopes alone.
LEMMA PlanGoverned ==
  ASSUME NEW b \in Boundary, NEW t \in Trees, NEW w, worktrees[w] \in WorktreeState
  PROVE  LET plan == MakePlan(b, worktrees[w], t)
             next == NextRow(plan, worktrees[w], scopes)
         IN  Governs(w, b.kind, next, NextScopes(b, scopes), MovesCursor(plan, worktrees[w], scopes))
<1> DEFINE row == worktrees[w]
           plan == MakePlan(b, row, t)
           next == NextRow(plan, row, scopes)
<1>1. plan.boundary = b
  BY DEF MakePlan
<1>2. next.failure = row.failure /\ next.rebaseline = row.rebaseline
  BY DEF NextRow, WorktreeState
<1>3. b.kind \notin {"Recover", "Taint", "Abandon"}
  BY DEF Boundary, HookBoundary, FlushBoundary, HookKind
<1>4. ~MovesCursor(plan, row, scopes) /\ ~row.rebaseline => NextScopes(b, scopes) = scopes
  BY <1>1 DEF MovesCursor, NextScopes
<1> QED BY <1>2, <1>3, <1>4 DEF Governs, Unhealthy

LEMMA BoundaryTransition ==
  ASSUME LedgerTypeOK, NEW b \in Boundary, NEW t \in Trees, ApplyBoundary(b, t)
  PROVE  Transition
<1> DEFINE w == BoundaryWorktree(b, scopes)
           row == worktrees[w]
           plan == MakePlan(b, row, t)
           next == NextRow(plan, row, scopes)
<1>1. /\ w \in DOMAIN worktrees
      /\ IsHook(b) => b.scope \in DOMAIN scopes
  BY DEF ApplyBoundary, Resolvable, BoundaryWorktree
<1>2. w \in Worktrees /\ row \in WorktreeState
  BY <1>1 DEF LedgerTypeOK
<1>3. WouldAdvance(plan, scopes) /\ HasHeadroom(row) /\ ApplyPlan(plan, w)
  BY DEF ApplyBoundary
<1>4. plan.boundary = b /\ plan.after = t
  BY DEF MakePlan
<1>5. next \in WorktreeState /\ next.revision = row.revision + 1
  BY <1>2, <1>3, <1>4, NextRowType
<1>6. SameScopes(scopes, NextScopes(b, scopes)) /\ OnlyOn(w, scopes, NextScopes(b, scopes))
  BY <1>1, NextScopesType DEF LedgerTypeOK
<1>7. b.kind \in Step /\ MovesCursor(plan, row, scopes) \in BOOLEAN
  BY DEF Boundary, HookBoundary, FlushBoundary, Step, HookKind, MovesCursor, Observes
<1>8. Advances(w, b.kind, next, NextScopes(b, scopes), MovesCursor(plan, row, scopes))
  BY <1>1, <1>3, <1>4, <1>5, <1>6, <1>7 DEF Advances, ApplyPlan
<1>9. Records(w, b.kind, next, NewEvidence(plan, row, scopes, w, FALSE))
  <2>1. mutationEvents' = mutationEvents \cup NewEvidence(plan, row, scopes, w, FALSE)
    BY <1>3 DEF ApplyPlan
  <2>2. /\ Movements(w, row, next, NewEvidence(plan, row, scopes, w, FALSE))
        /\ next.cursor # row.cursor => NewEvidence(plan, row, scopes, w, FALSE) # {}
    BY <1>2, <1>3, PlanEvidence DEF LedgerTypeOK
  <2> QED BY <2>1, <2>2 DEF Records
<1>10. processedEvents' \in SUBSET EventKey
  <2>1. IsHook(b) => Key(b) \in EventKey
    BY DEF IsHook, Key, EventKey, Boundary, HookBoundary, FlushBoundary
  <2> QED BY <1>3, <1>4, <2>1 DEF ApplyPlan, NextProcessed, LedgerTypeOK
<1>11. processedEvents \subseteq processedEvents'
  BY <1>3 DEF ApplyPlan, NextProcessed
<1>12. Governs(w, b.kind, next, NextScopes(b, scopes), MovesCursor(plan, row, scopes))
  BY <1>2, PlanGoverned
<1>13. Vouches(w, NewEvidence(plan, row, scopes, w, FALSE))
  <2>1. IsHook(b) => Key(b) \in processedEvents' \ processedEvents
    BY <1>3, <1>4 DEF ApplyPlan, NextProcessed, ApplyBoundary, Replayed
  <2>2. ASSUME NEW e \in NewEvidence(plan, row, scopes, w, FALSE)
        PROVE  /\ e = EvidenceOf(plan, row, scopes, w, FALSE)
               /\ ~row.rebaseline
               /\ e.boundary = b
               /\ Positive(e.attribution) => ~Unhealthy(row) /\ Confirmed(e, scopes)
    BY <1>1, <1>2, PlanVouched
  <2> HIDE DEF plan
  <2> QED BY <2>1, <2>2 DEF Vouches
<1> HIDE DEF w, row, plan, next
<1> QED BY <1>2, <1>5, <1>7, <1>8, <1>9, <1>10, <1>11, <1>12, <1>13 DEF Transition

LEMMA TaintTransition ==
  ASSUME LedgerTypeOK, NEW w \in Worktrees, Taint(w)
  PROVE  Transition
<1>1. w \in DOMAIN worktrees /\ worktrees[w] \in WorktreeState /\ HasHeadroom(worktrees[w])
  BY DEF Taint, LedgerTypeOK
<1>2. /\ TaintRow(worktrees[w]) \in WorktreeState
      /\ TaintRow(worktrees[w]).revision = worktrees[w].revision + 1
      /\ TaintRow(worktrees[w]).cursor = worktrees[w].cursor
  <2>1. worktrees[w].cursor \in Trees
    BY <1>1 DEF WorktreeState
  <2>2. TaintRow(worktrees[w]).cursor = worktrees[w].cursor
    BY <1>1 DEF TaintRow, WorktreeState
  <2> QED BY <1>1, <2>1, <2>2, OtherRowsType
<1>3. SameScopes(scopes, scopes) /\ OnlyOn(w, scopes, scopes)
  BY DEF SameScopes, OnlyOn, Onward, LedgerTypeOK
<1>4. Advances(w, "Taint", TaintRow(worktrees[w]), scopes, FALSE)
  BY <1>1, <1>2, <1>3 DEF Advances, Taint, Step
<1>5. Records(w, "Taint", TaintRow(worktrees[w]), {})
  BY <1>2 DEF Records, Movements, Taint
<1>6. Governs(w, "Taint", TaintRow(worktrees[w]), scopes, FALSE)
  BY <1>1 DEF Governs, TaintRow, Unhealthy, WorktreeState
<1> QED BY <1>2, <1>4, <1>5, <1>6 DEF Transition, Taint, LedgerTypeOK, Step, Vouches

LEMMA AbandonTransition ==
  ASSUME LedgerTypeOK, NEW s \in Scopes, Abandon(s)
  PROVE  Transition
<1> DEFINE w == scopes[s].worktree
           row == AbandonRow(worktrees[w])
           next == AbandonAll(scopes, {s})
<1>1. w \in DOMAIN worktrees /\ worktrees[w] \in WorktreeState /\ HasHeadroom(worktrees[w])
  BY DEF Abandon, LedgerTypeOK
<1>2. /\ row \in WorktreeState
      /\ row.revision = worktrees[w].revision + 1
      /\ row.cursor = worktrees[w].cursor
  <2>1. worktrees[w].cursor \in Trees
    BY <1>1 DEF WorktreeState
  <2>2. row.cursor = worktrees[w].cursor
    BY <1>1 DEF AbandonRow, WorktreeState
  <2> QED BY <1>1, <2>1, <2>2, OtherRowsType
<1>3. SameScopes(scopes, next) /\ OnlyOn(w, scopes, next)
  BY AbandonAllType DEF Abandon, LedgerTypeOK
<1>4. Advances(w, "Abandon", row, next, FALSE)
  BY <1>1, <1>2, <1>3 DEF Advances, Abandon, Step
<1>5. Records(w, "Abandon", row, {})
  BY <1>2 DEF Records, Movements, Abandon
<1>6. w \in Worktrees
  BY <1>1 DEF LedgerTypeOK
<1>7. Governs(w, "Abandon", row, next, FALSE)
  BY <1>1 DEF Governs, AbandonRow, Unhealthy, WorktreeState
<1> QED BY <1>2, <1>4, <1>5, <1>6, <1>7 DEF Transition, Abandon, LedgerTypeOK, Step, Vouches

LEMMA RecoverTransition ==
  ASSUME LedgerTypeOK, NEW w \in Worktrees, NEW t \in Trees, NEW tainted \in BOOLEAN,
         Recover(w, t, tainted)
  PROVE  Transition
<1> DEFINE row == RecoverRow(worktrees[w], t)
           next == RecoverScopes(worktrees[w], scopes, w, tainted)
<1>1. w \in DOMAIN worktrees /\ worktrees[w] \in WorktreeState /\ HasHeadroom(worktrees[w])
  BY DEF Recover, LedgerTypeOK
<1>2. row \in WorktreeState /\ row.revision = worktrees[w].revision + 1
  BY <1>1, OtherRowsType
<1>3. SameScopes(scopes, next) /\ OnlyOn(w, scopes, next)
  BY RecoverScopesType DEF LedgerTypeOK
<1>4. Advances(w, "Recover", row, next, TRUE)
  BY <1>1, <1>2, <1>3 DEF Advances, Recover, Step
<1>5. Records(w, "Recover", row, {})
  BY DEF Records, Movements, Recover
<1>6. Governs(w, "Recover", row, next, TRUE)
  BY DEF Governs
<1> QED BY <1>2, <1>4, <1>5, <1>6 DEF Transition, Recover, LedgerTypeOK, Step, Vouches

\* Every step of the ledger is an insertion of a row or a transition.
LEMMA StepShape ==
  ASSUME LedgerTypeOK, LedgerNext
  PROVE  \/ \E w \in Worktrees, t \in Trees : InitializeWorktree(w, t)
         \/ \E s \in Scopes, w \in Worktrees, actor \in Actors : RegisterScope(s, w, actor)
         \/ Transition
BY BoundaryTransition, TaintTransition, AbandonTransition, RecoverTransition DEF LedgerNext

-----------------------------------------------------------------------------
(* Type correctness.                                                       *)

\* The revisions of a row, as the domain of its history.
LEMMA NextRevisions ==
  ASSUME NEW n \in Nat
  PROVE  (0..n) \cup {n + 1} = 0..(n + 1) /\ n + 1 \notin 0..n
OBVIOUS

\* A transition adds one entry to the history of its worktree.
LEMMA TransitionHistory ==
  ASSUME LedgerTypeOK, NEW w \in Worktrees, NEW step, NEW row, NEW next, NEW seen,
         Advances(w, step, row, next, seen)
  PROVE  LET r == worktrees[w].revision
         IN  /\ r \in Nat
             /\ DOMAIN history' = Worktrees
             /\ \A v \in Worktrees : v # w => history'[v] = history[v]
             /\ history'[w] \in [0..(r + 1) -> Entry]
             /\ \A k \in 0..r : history'[w][k] = history[w][k]
             /\ history'[w][r + 1].cursor = row.cursor
             /\ history'[w][r + 1].step = step
             /\ history'[w][r + 1].live = LiveScopesOn(next, w)
             /\ history'[w][r + 1].seen = seen
<1> DEFINE r == worktrees[w].revision
           entry == [step |-> step, cursor |-> row.cursor,
                     live |-> LiveScopesOn(next, w), seen |-> seen]
<1>1. w \in DOMAIN worktrees /\ r \in Nat
  BY RevisionBound DEF Advances, LedgerTypeOK, WorktreeState
<1>2. row.revision = r + 1 /\ row \in WorktreeState
  BY DEF Advances
<1>3. entry \in Entry
  <2>1. LiveScopesOn(next, w) \in SUBSET Scopes
    BY LiveScopesType DEF Advances, SameScopes, LedgerTypeOK
  <2>2. row.cursor \in Trees
    BY <1>2 DEF WorktreeState
  <2> QED BY <2>1, <2>2 DEF Entry, Advances
<1>4. history[w] \in [0..r -> Entry]
  BY <1>1 DEF LedgerTypeOK
<1>5. history' = [history EXCEPT ![w] = Put(history[w], r + 1, entry)]
  BY <1>2 DEF Advances, Record
<1>6. DOMAIN history = Worktrees
  BY DEF LedgerTypeOK
<1> HIDE DEF r, entry
<1>7. history'[w] = Put(history[w], r + 1, entry)
  BY <1>5, <1>6
<1>8. history'[w] \in [(0..r) \cup {r + 1} -> Entry]
  BY <1>3, <1>4, <1>7 DEF Put
<1>9. /\ history'[w][r + 1] = entry
      /\ \A k \in 0..r : history'[w][k] = history[w][k]
  <2>1. \A k \in 0..r : k # r + 1
    BY <1>1
  <2> QED BY <1>3, <1>4, <1>7, <2>1 DEF Put
<1>10. history'[w] \in [0..(r + 1) -> Entry]
  BY <1>1, <1>8, NextRevisions
<1> QED BY <1>1, <1>5, <1>6, <1>9, <1>10 DEF r, entry

LEMMA TypeInit == LedgerInit => LedgerTypeOK
BY DEF LedgerInit, LedgerTypeOK

LEMMA TypeInitializeWorktree ==
  ASSUME LedgerTypeOK, NEW w \in Worktrees, NEW t \in Trees, InitializeWorktree(w, t)
  PROVE  LedgerTypeOK'
<1> DEFINE entry == [step |-> "Initialize", cursor |-> t, live |-> LiveScopesOn(scopes, w),
                     seen |-> TRUE]
<1>1. InitialRow(t) \in WorktreeState /\ InitialRow(t).revision = 0 /\ InitialRow(t).cursor = t
  BY RevisionBound DEF InitialRow, WorktreeState
<1>2. /\ worktrees' \in [DOMAIN worktrees \cup {w} -> WorktreeState]
      /\ worktrees'[w] = InitialRow(t)
      /\ \A v \in DOMAIN worktrees : v # w => worktrees'[v] = worktrees[v]
  BY <1>1 DEF InitializeWorktree, LedgerTypeOK, Put
<1>3. entry \in Entry
  BY LiveScopesType DEF Entry, Step, LedgerTypeOK
<1>4. history[w] \in [{} -> Entry] /\ w \notin DOMAIN worktrees
  BY DEF LedgerTypeOK, InitializeWorktree
<1>5. history' = [history EXCEPT ![w] = Put(history[w], 0, entry)]
  BY <1>1 DEF InitializeWorktree, Record
<1> HIDE DEF entry
<1>6. Put(history[w], 0, entry) \in [{0} -> Entry]
  BY <1>3, <1>4 DEF Put
<1>7. DOMAIN history' = Worktrees
  BY <1>5 DEF LedgerTypeOK
<1>8. ASSUME NEW v \in Worktrees
      PROVE  history'[v] \in [IF v \in DOMAIN worktrees' THEN 0..worktrees'[v].revision ELSE {}
                                -> Entry]
  <2>1. CASE v = w
    <3>1. history'[v] \in [{0} -> Entry]
      BY <1>5, <1>6, <2>1 DEF LedgerTypeOK
    <3>2. 0..worktrees'[v].revision = {0} /\ v \in DOMAIN worktrees'
      BY <1>1, <1>2, <2>1
    <3> QED BY <3>1, <3>2
  <2>2. CASE v # w
    <3>1. history'[v] = history[v]
      BY <1>5, <2>2 DEF LedgerTypeOK
    <3>2. v \in DOMAIN worktrees' <=> v \in DOMAIN worktrees
      BY <1>2, <2>2
    <3>3. v \in DOMAIN worktrees => worktrees'[v] = worktrees[v]
      BY <1>2, <2>2
    <3> QED BY <3>1, <3>2, <3>3 DEF LedgerTypeOK
  <2> QED BY <2>1, <2>2
<1> QED BY <1>2, <1>7, <1>8 DEF LedgerTypeOK, InitializeWorktree

LEMMA TypeRegisterScope ==
  ASSUME LedgerTypeOK, NEW s \in Scopes, NEW w \in Worktrees, NEW actor \in Actors,
         RegisterScope(s, w, actor)
  PROVE  LedgerTypeOK'
<1> DEFINE row == [status |-> "NeverSeen", actor |-> actor, worktree |-> w]
<1>1. row \in ScopeState
  BY DEF ScopeState, ScopeStatus
<1>2. scopes' = Put(scopes, s, row) /\ w \in DOMAIN worktrees
  BY DEF RegisterScope
<1>3. /\ scopes' \in [DOMAIN scopes \cup {s} -> ScopeState]
      /\ scopes'[s] = row
      /\ \A x \in DOMAIN scopes : x # s => scopes'[x] = scopes[x]
  BY <1>1, <1>2 DEF LedgerTypeOK, Put
<1>4. \A x \in DOMAIN scopes' : scopes'[x].worktree \in DOMAIN worktrees
  BY <1>2, <1>3 DEF LedgerTypeOK
<1> QED BY <1>3, <1>4 DEF LedgerTypeOK, RegisterScope

LEMMA TypeTransition ==
  ASSUME LedgerTypeOK, Transition
  PROVE  LedgerTypeOK'
<1>1. PICK w \in Worktrees, step \in Step, row \in WorktreeState, seen \in BOOLEAN :
        \E next, new : Advances(w, step, row, next, seen) /\ Records(w, step, row, new)
  BY DEF Transition
<1>2. PICK next, new : Advances(w, step, row, next, seen) /\ Records(w, step, row, new)
  BY <1>1
<1>3. /\ worktrees' \in [DOMAIN worktrees -> WorktreeState]
      /\ DOMAIN worktrees' = DOMAIN worktrees /\ w \in DOMAIN worktrees
      /\ worktrees'[w] = row /\ row.revision = worktrees[w].revision + 1
      /\ \A v \in DOMAIN worktrees : v # w => worktrees'[v] = worktrees[v]
  BY <1>2 DEF Advances, LedgerTypeOK
<1>4. /\ DOMAIN scopes' = DOMAIN scopes
      /\ scopes' \in [DOMAIN scopes' -> ScopeState]
      /\ \A s \in DOMAIN scopes' : scopes'[s].worktree \in DOMAIN worktrees'
  BY <1>2, <1>3 DEF Advances, SameScopes, Onward, LedgerTypeOK
<1>5. \A e \in mutationEvents' : e \in MutationEvent
  BY <1>2 DEF Records, Movements, LedgerTypeOK
<1>6. DOMAIN history' = Worktrees
  BY <1>2, TransitionHistory
<1>7. ASSUME NEW v \in Worktrees
      PROVE  history'[v] \in [IF v \in DOMAIN worktrees' THEN 0..worktrees'[v].revision ELSE {}
                                -> Entry]
  <2>1. CASE v = w
    BY <1>2, <1>3, <2>1, TransitionHistory
  <2>2. CASE v # w
    BY <1>2, <1>3, <2>2, TransitionHistory DEF LedgerTypeOK
  <2> QED BY <2>1, <2>2
<1> QED BY <1>3, <1>4, <1>5, <1>6, <1>7 DEF LedgerTypeOK, Transition

LEMMA TypeInductive == LedgerTypeOK /\ [LedgerNext]_ledgerVars => LedgerTypeOK'
<1> SUFFICES ASSUME LedgerTypeOK, [LedgerNext]_ledgerVars PROVE LedgerTypeOK'
  OBVIOUS
<1>1. CASE UNCHANGED ledgerVars
  BY <1>1 DEF ledgerVars, LedgerTypeOK
<1>2. CASE LedgerNext
  BY <1>2, StepShape, TypeInitializeWorktree, TypeRegisterScope, TypeTransition
<1> QED BY <1>1, <1>2

\* Every reachable state of the ledger is well formed, and a row's revision
\* counts the entries of its history.
THEOREM TypeCorrect == LedgerSpec => []LedgerTypeOK
BY TypeInit, TypeInductive, PTL DEF LedgerSpec

-----------------------------------------------------------------------------
(* The life of rows.                                                       *)

\* No row ever goes away, and a scope's only ever goes onward.
LEMMA RowsStay ==
  ASSUME LedgerTypeOK, [LedgerNext]_ledgerVars
  PROVE  /\ DOMAIN worktrees \subseteq DOMAIN worktrees'
         /\ DOMAIN scopes \subseteq DOMAIN scopes'
         /\ \A s \in DOMAIN scopes : Onward(scopes[s], scopes'[s])
<1>1. CASE UNCHANGED ledgerVars
  BY <1>1 DEF ledgerVars, Onward
<1>2. ASSUME NEW w \in Worktrees, NEW t \in Trees, InitializeWorktree(w, t)
      PROVE  DOMAIN worktrees \subseteq DOMAIN worktrees' /\ scopes' = scopes
  BY <1>2 DEF InitializeWorktree, Put
<1>3. ASSUME NEW s \in Scopes, NEW w \in Worktrees, NEW actor \in Actors, RegisterScope(s, w, actor)
      PROVE  /\ worktrees' = worktrees /\ DOMAIN scopes \subseteq DOMAIN scopes'
             /\ \A x \in DOMAIN scopes : scopes'[x] = scopes[x]
  BY <1>3 DEF RegisterScope, Put
<1>4. CASE Transition
  BY <1>4 DEF Transition, Advances, SameScopes
<1>5. \A s \in DOMAIN scopes : Onward(scopes[s], scopes[s])
  BY DEF Onward
<1> QED BY <1>1, <1>2, <1>3, <1>4, <1>5, StepShape

\* Once ended, a scope is never started, closed or abandoned again, and it
\* never changes its worktree or its actor.
THEOREM ScopeLife == LedgerSpec => ScopeLifeIsOneWay
<1>1. LedgerTypeOK /\ [LedgerNext]_ledgerVars =>
        [\A s \in DOMAIN scopes :
           /\ s \in DOMAIN scopes'
           /\ scopes'[s].worktree = scopes[s].worktree
           /\ scopes'[s].actor = scopes[s].actor
           /\ \/ scopes'[s].status = scopes[s].status
              \/ StatusRank(scopes'[s].status) > StatusRank(scopes[s].status)]_ledgerVars
  BY RowsStay DEF Onward
<1> QED BY <1>1, TypeCorrect, PTL DEF LedgerSpec, ScopeLifeIsOneWay

\* A step that acts on worktree w alone.
ActsOn(w) ==
  /\ \A v \in Worktrees \ {w} :
       /\ v \in DOMAIN worktrees <=> v \in DOMAIN worktrees'
       /\ v \in DOMAIN worktrees => worktrees'[v] = worktrees[v]
  /\ \A s \in DOMAIN scopes :
       s \in DOMAIN scopes' /\ (scopes[s].worktree # w => scopes'[s] = scopes[s])
  /\ \A s \in DOMAIN scopes : scopes'[s].worktree = scopes[s].worktree
  /\ \A s \in DOMAIN scopes' \ DOMAIN scopes : scopes'[s].status = "NeverSeen"
  /\ mutationEvents \subseteq mutationEvents'
  /\ \A e \in mutationEvents' \ mutationEvents : e.worktree = w

LEMMA StepActsOnOne ==
  ASSUME LedgerTypeOK, LedgerNext
  PROVE  \E w \in Worktrees : ActsOn(w)
<1>1. ASSUME NEW w \in Worktrees, NEW t \in Trees, InitializeWorktree(w, t)
      PROVE  ActsOn(w)
  BY <1>1 DEF ActsOn, InitializeWorktree, Put
<1>2. ASSUME NEW s \in Scopes, NEW w \in Worktrees, NEW actor \in Actors, RegisterScope(s, w, actor)
      PROVE  ActsOn(w)
  BY <1>2 DEF ActsOn, RegisterScope, Put
<1>3. ASSUME Transition PROVE \E w \in Worktrees : ActsOn(w)
  <2>1. PICK w \in Worktrees, step \in Step, row \in WorktreeState, seen \in BOOLEAN :
          \E next, new : Advances(w, step, row, next, seen) /\ Records(w, step, row, new)
    BY <1>3 DEF Transition
  <2>2. PICK next, new : Advances(w, step, row, next, seen) /\ Records(w, step, row, new)
    BY <2>1
  <2>3. \A v \in Worktrees \ {w} :
          /\ v \in DOMAIN worktrees <=> v \in DOMAIN worktrees'
          /\ v \in DOMAIN worktrees => worktrees'[v] = worktrees[v]
    BY <2>2 DEF Advances
  <2>4. /\ DOMAIN scopes' = DOMAIN scopes
        /\ \A s \in DOMAIN scopes : scopes[s].worktree # w => scopes'[s] = scopes[s]
        /\ \A s \in DOMAIN scopes : scopes'[s].worktree = scopes[s].worktree
    BY <2>2 DEF Advances, SameScopes, OnlyOn, Onward
  <2>5. /\ mutationEvents \subseteq mutationEvents'
        /\ \A e \in mutationEvents' \ mutationEvents : e.worktree = w
    BY <2>2 DEF Records, Movements
  <2> QED BY <2>3, <2>4, <2>5 DEF ActsOn
<1> QED BY <1>1, <1>2, <1>3, StepShape

LEMMA OthersStand ==
  ASSUME NEW w \in Worktrees, ActsOn(w), NEW v \in Worktrees, v # w
  PROVE  DurableOf(v)' = DurableOf(v)
<1>1. (IF v \in DOMAIN worktrees THEN <<worktrees[v]>> ELSE <<>>)'
          = IF v \in DOMAIN worktrees THEN <<worktrees[v]>> ELSE <<>>
  BY DEF ActsOn
<1>2. ({<<s, scopes[s].status>> : s \in {x \in DOMAIN scopes : scopes[x].worktree = v}}
           \ ({s \in DOMAIN scopes : scopes[s].worktree = v} \X {"NeverSeen"}))'
          = {<<s, scopes[s].status>> : s \in {x \in DOMAIN scopes : scopes[x].worktree = v}}
              \ ({s \in DOMAIN scopes : scopes[s].worktree = v} \X {"NeverSeen"})
  BY DEF ActsOn
<1>3. {e \in mutationEvents : e.worktree = v}' = {e \in mutationEvents : e.worktree = v}
  BY DEF ActsOn
<1> QED BY <1>1, <1>2, <1>3 DEF DurableOf

\* A step that changes the row of one worktree leaves the others alone.
LEMMA OneRowMoves ==
  ASSUME LedgerTypeOK, [LedgerNext]_ledgerVars, NEW w \in DOMAIN worktrees', w \in Worktrees,
         ~(w \in DOMAIN worktrees /\ worktrees'[w] = worktrees[w]),
         NEW v \in Worktrees, v # w
  PROVE  DurableOf(v)' = DurableOf(v)
<1>1. LedgerNext
  BY DEF ledgerVars
<1>2. PICK u \in Worktrees : ActsOn(u)
  BY <1>1, StepActsOnOne
<1>3. u = w
  BY <1>2 DEF ActsOn
<1> QED BY <1>2, <1>3, OthersStand

\* The revision of a row never goes back.
LEMMA RevisionsGrow ==
  ASSUME LedgerTypeOK, [LedgerNext]_ledgerVars, NEW v \in DOMAIN worktrees
  PROVE  worktrees'[v].revision \in Nat /\ worktrees[v].revision <= worktrees'[v].revision
<1>1. worktrees[v].revision \in Nat
  BY RevisionBound DEF LedgerTypeOK, WorktreeState
<1>2. CASE UNCHANGED ledgerVars
  BY <1>1, <1>2 DEF ledgerVars
<1>3. ASSUME NEW w \in Worktrees, NEW t \in Trees, InitializeWorktree(w, t)
      PROVE  worktrees'[v] = worktrees[v]
  BY <1>3 DEF InitializeWorktree, Put
<1>4. ASSUME NEW s \in Scopes, NEW w \in Worktrees, NEW a \in Actors, RegisterScope(s, w, a)
      PROVE  worktrees' = worktrees
  BY <1>4 DEF RegisterScope
<1>5. ASSUME NEW w \in Worktrees, NEW step, NEW row, NEW seen, NEW next,
             Advances(w, step, row, next, seen)
      PROVE  worktrees'[v] = worktrees[v] \/ worktrees'[v].revision = worktrees[v].revision + 1
  BY <1>5 DEF Advances
<1>6. CASE Transition
  BY <1>1, <1>5, <1>6 DEF Transition
<1> QED BY <1>1, <1>2, <1>3, <1>4, <1>6, StepShape

\* What the revision of a worktree stands for: its row, its scopes, and the
\* deliveries of its scopes.
StandsStill(v) ==
  /\ worktrees'[v] = worktrees[v]
  /\ LiveScopesOn(scopes', v) = LiveScopesOn(scopes, v)
  /\ \A s \in DOMAIN scopes : scopes[s].worktree = v =>
       /\ scopes'[s] = scopes[s]
       /\ \A e : <<s, e>> \in processedEvents' => <<s, e>> \in processedEvents

\* A worktree whose revision a step leaves alone has been left alone by it.
LEMMA RevisionGuards ==
  ASSUME LedgerTypeOK, [LedgerNext]_ledgerVars, NEW v \in DOMAIN worktrees,
         worktrees'[v].revision = worktrees[v].revision
  PROVE  StandsStill(v)
<1>1. worktrees[v].revision \in Nat
  BY RevisionBound DEF LedgerTypeOK, WorktreeState
<1>2. CASE UNCHANGED ledgerVars
  BY <1>2 DEF ledgerVars, StandsStill
<1>3. ASSUME NEW w \in Worktrees, NEW t \in Trees, InitializeWorktree(w, t)
      PROVE  StandsStill(v)
  BY <1>3 DEF InitializeWorktree, Put, StandsStill
<1>4. ASSUME NEW s \in Scopes, NEW w \in Worktrees, NEW a \in Actors, RegisterScope(s, w, a)
      PROVE  StandsStill(v)
  <2>1. /\ worktrees' = worktrees /\ processedEvents' = processedEvents
        /\ DOMAIN scopes' = DOMAIN scopes \cup {s}
        /\ scopes'[s].status = "NeverSeen"
        /\ \A x \in DOMAIN scopes : scopes'[x] = scopes[x]
    BY <1>4 DEF RegisterScope, Put
  <2>2. LiveScopesOn(scopes', v) = LiveScopesOn(scopes, v)
    BY <2>1 DEF LiveScopesOn
  <2> QED BY <2>1, <2>2 DEF StandsStill
<1>5. ASSUME Transition, LedgerNext
      PROVE  StandsStill(v)
  <2>1. PICK w \in Worktrees, step \in Step, row \in WorktreeState, seen \in BOOLEAN :
          \E next : Advances(w, step, row, next, seen)
    BY <1>5 DEF Transition
  <2>2. PICK next : Advances(w, step, row, next, seen)
    BY <2>1
  <2>3. w # v /\ worktrees'[v] = worktrees[v]
    BY <1>1, <2>2 DEF Advances
  <2>4. /\ DOMAIN scopes' = DOMAIN scopes
        /\ \A s \in DOMAIN scopes : scopes[s].worktree = v => scopes'[s] = scopes[s]
        /\ \A s \in DOMAIN scopes : scopes'[s].worktree = scopes[s].worktree
    BY <2>2, <2>3 DEF Advances, SameScopes, Onward, OnlyOn
  <2>5. LiveScopesOn(scopes', v) = LiveScopesOn(scopes, v)
    BY <2>4 DEF LiveScopesOn
  <2>6. ASSUME NEW s \in DOMAIN scopes, scopes[s].worktree = v, NEW e, <<s, e>> \in processedEvents'
        PROVE  <<s, e>> \in processedEvents
    <3>1. CASE processedEvents' = processedEvents
      BY <2>6, <3>1
    <3>2. ASSUME NEW b \in Boundary, NEW t \in Trees, ApplyBoundary(b, t)
          PROVE  <<s, e>> \in processedEvents
      <4> DEFINE u == BoundaryWorktree(b, scopes)
                 plan == MakePlan(b, worktrees[u], t)
      <4>1. /\ u \in DOMAIN worktrees
            /\ WouldAdvance(plan, scopes)
            /\ worktrees' = [worktrees EXCEPT ![u] = NextRow(plan, worktrees[u], scopes)]
            /\ processedEvents' = NextProcessed(b, processedEvents)
        BY <3>2 DEF ApplyBoundary, ApplyPlan, Resolvable, BoundaryWorktree, MakePlan
      <4>2. worktrees[u] \in WorktreeState /\ worktrees[u].revision \in Nat
        BY <4>1, RevisionBound DEF LedgerTypeOK, WorktreeState
      <4>3. NextRow(plan, worktrees[u], scopes).revision = worktrees[u].revision + 1
        BY <4>1, <4>2 DEF NextRow, WorktreeState
      <4> HIDE DEF plan
      <4>4. u # v
        BY <4>1, <4>2, <4>3
      <4>5. IsHook(b) => Key(b)[1] # s
        BY <2>6, <4>4 DEF BoundaryWorktree, Key
      <4> QED BY <2>6, <4>1, <4>5 DEF NextProcessed
    <3> QED BY <1>5, <3>1, <3>2 DEF LedgerNext, InitializeWorktree, RegisterScope, Taint, Abandon, Recover
  <2> QED BY <2>3, <2>4, <2>5, <2>6 DEF StandsStill
<1> QED BY <1>2, <1>3, <1>4, <1>5, StepShape

\* Deliveries are never forgotten.
LEMMA DeliveriesStay ==
  ASSUME LedgerTypeOK, [LedgerNext]_ledgerVars
  PROVE  processedEvents \subseteq processedEvents'
BY StepShape DEF ledgerVars, InitializeWorktree, RegisterScope, Transition

\* What happens on one worktree never disturbs another one of the same database.
THEOREM WorktreesIndependent == LedgerSpec => WorktreesAreIndependent
<1>1. LedgerTypeOK /\ [LedgerNext]_ledgerVars =>
        [\A v, w \in Worktrees :
           DurableOf(v)' # DurableOf(v) /\ DurableOf(w)' # DurableOf(w) => v = w]_ledgerVars
  BY OthersStand, StepActsOnOne
<1> QED BY <1>1, TypeCorrect, PTL DEF LedgerSpec, WorktreesAreIndependent

-----------------------------------------------------------------------------
(* Evidence.                                                               *)

\* What makes the claims about evidence inductive: the last entry of a
\* worktree's history is the worktree's present state.
HistoryIsCurrent ==
  \A w \in DOMAIN worktrees :
    LET last == history[w][worktrees[w].revision]
    IN  last.cursor = worktrees[w].cursor /\ last.live = LiveScopesOn(scopes, w)

EvidenceInv ==
  /\ LedgerTypeOK
  /\ HistoryIsCurrent
  /\ EvidenceIsCursorMovement
  /\ CursorMovesAreRecorded

LEMMA EvidenceInit == LedgerInit => EvidenceInv
<1> SUFFICES ASSUME LedgerInit PROVE EvidenceInv
  OBVIOUS
<1>1. DOMAIN worktrees = {} /\ mutationEvents = {}
  BY DEF LedgerInit
<1> QED BY <1>1, TypeInit
        DEF EvidenceInv, HistoryIsCurrent, EvidenceIsCursorMovement, CursorMovesAreRecorded

\* Evidence names only worktrees that have a row, and revisions they reached.
LEMMA EvidenceIsPast ==
  ASSUME EvidenceInv, NEW e \in mutationEvents
  PROVE  /\ e.worktree \in DOMAIN worktrees
         /\ e.revision \in 0..worktrees[e.worktree].revision
         /\ e.revision - 1 \in 0..worktrees[e.worktree].revision
<1>1. e.worktree \in Worktrees
  BY DEF EvidenceInv, LedgerTypeOK, MutationEvent
<1>2. e.revision \in DOMAIN history[e.worktree] /\ e.revision - 1 \in DOMAIN history[e.worktree]
  BY DEF EvidenceInv, EvidenceIsCursorMovement
<1>3. history[e.worktree]
        \in [IF e.worktree \in DOMAIN worktrees THEN 0..worktrees[e.worktree].revision ELSE {}
              -> Entry]
  BY <1>1 DEF EvidenceInv, LedgerTypeOK
<1> QED BY <1>2, <1>3

LEMMA EvidenceInitializeWorktree ==
  ASSUME EvidenceInv, NEW w \in Worktrees, NEW t \in Trees, InitializeWorktree(w, t)
  PROVE  EvidenceInv'
<1>1. LedgerTypeOK'
  BY TypeInitializeWorktree DEF EvidenceInv
<1>2. /\ DOMAIN worktrees' = DOMAIN worktrees \cup {w} /\ w \notin DOMAIN worktrees
      /\ worktrees'[w] = InitialRow(t)
      /\ InitialRow(t).revision = 0 /\ InitialRow(t).cursor = t
      /\ \A v \in DOMAIN worktrees : worktrees'[v] = worktrees[v]
  BY DEF InitializeWorktree, Put, InitialRow
<1>3. /\ history'[w][0].cursor = t
      /\ history'[w][0].live = LiveScopesOn(scopes, w)
      /\ \A v \in DOMAIN worktrees : history'[v] = history[v]
  BY <1>2 DEF InitializeWorktree, Record, Put, EvidenceInv, LedgerTypeOK
<1>4. scopes' = scopes /\ mutationEvents' = mutationEvents
  BY DEF InitializeWorktree
<1>5. HistoryIsCurrent'
  BY <1>2, <1>3, <1>4 DEF HistoryIsCurrent, EvidenceInv, LiveScopesOn
<1>6. EvidenceIsCursorMovement'
  <2> SUFFICES ASSUME NEW e \in mutationEvents
               PROVE  LET h == history'[e.worktree]
                      IN  /\ e.revision \in DOMAIN h /\ e.revision - 1 \in DOMAIN h
                          /\ h[e.revision - 1].cursor = e.before
                          /\ h[e.revision - 1].live = e.active
                          /\ h[e.revision].cursor = e.after
                          /\ e.before # e.after
    BY <1>4 DEF EvidenceIsCursorMovement
  <2>1. history'[e.worktree] = history[e.worktree]
    BY <1>3, EvidenceIsPast
  <2> QED BY <2>1 DEF EvidenceInv, EvidenceIsCursorMovement
<1>7. CursorMovesAreRecorded'
  BY <1>2, <1>3, <1>4 DEF CursorMovesAreRecorded, EvidenceInv
<1> QED BY <1>1, <1>5, <1>6, <1>7 DEF EvidenceInv

LEMMA EvidenceRegisterScope ==
  ASSUME EvidenceInv, NEW s \in Scopes, NEW w \in Worktrees, NEW actor \in Actors,
         RegisterScope(s, w, actor)
  PROVE  EvidenceInv'
<1>1. LedgerTypeOK'
  BY TypeRegisterScope DEF EvidenceInv
<1>2. \A v : LiveScopesOn(scopes', v) = LiveScopesOn(scopes, v)
  BY DEF RegisterScope, Put, LiveScopesOn
<1>3. UNCHANGED <<worktrees, mutationEvents, history>>
  BY DEF RegisterScope
<1> QED BY <1>1, <1>2, <1>3
        DEF EvidenceInv, HistoryIsCurrent, EvidenceIsCursorMovement, CursorMovesAreRecorded

LEMMA EvidenceTransition ==
  ASSUME EvidenceInv, Transition
  PROVE  EvidenceInv'
<1>1. PICK w \in Worktrees, step \in Step, row \in WorktreeState, seen \in BOOLEAN :
        \E next, new : Advances(w, step, row, next, seen) /\ Records(w, step, row, new)
  BY DEF Transition
<1>2. PICK next, new : Advances(w, step, row, next, seen) /\ Records(w, step, row, new)
  BY <1>1
<1> DEFINE r == worktrees[w].revision
<1>3. LedgerTypeOK'
  BY TypeTransition DEF EvidenceInv
<1>4. /\ w \in DOMAIN worktrees /\ DOMAIN worktrees' = DOMAIN worktrees
      /\ worktrees'[w] = row /\ row.revision = r + 1
      /\ \A v \in DOMAIN worktrees : v # w => worktrees'[v] = worktrees[v]
  BY <1>2 DEF Advances, EvidenceInv, LedgerTypeOK
<1>5. /\ r \in Nat
      /\ \A v \in Worktrees : v # w => history'[v] = history[v]
      /\ DOMAIN history'[w] = 0..(r + 1)
      /\ \A k \in 0..r : history'[w][k] = history[w][k]
      /\ history'[w][r + 1].cursor = row.cursor
      /\ history'[w][r + 1].step = step
      /\ history'[w][r + 1].live = LiveScopesOn(next, w)
  BY <1>2, TransitionHistory DEF EvidenceInv
<1>6. /\ scopes' = next
      /\ \A v : v # w => LiveScopesOn(next, v) = LiveScopesOn(scopes, v)
  BY <1>2 DEF Advances, SameScopes, OnlyOn, Onward, LiveScopesOn
<1>7. DOMAIN worktrees \subseteq Worktrees
  BY DEF EvidenceInv, LedgerTypeOK
<1>8. /\ history[w][r].cursor = worktrees[w].cursor
      /\ history[w][r].live = LiveScopesOn(scopes, w)
      /\ DOMAIN history[w] = 0..r
  BY <1>4 DEF EvidenceInv, HistoryIsCurrent, LedgerTypeOK
<1> HIDE DEF r
<1>9. HistoryIsCurrent'
  <2> SUFFICES ASSUME NEW v \in DOMAIN worktrees
               PROVE  /\ history'[v][worktrees'[v].revision].cursor = worktrees'[v].cursor
                      /\ history'[v][worktrees'[v].revision].live = LiveScopesOn(scopes', v)
    BY <1>4 DEF HistoryIsCurrent
  <2>1. CASE v = w
    BY <1>4, <1>5, <1>6, <2>1
  <2>2. CASE v # w
    BY <1>4, <1>5, <1>6, <1>7, <2>2 DEF EvidenceInv, HistoryIsCurrent
  <2> QED BY <2>1, <2>2
<1>10. EvidenceIsCursorMovement'
  <2> SUFFICES ASSUME NEW e \in mutationEvents'
               PROVE  LET h == history'[e.worktree]
                      IN  /\ e.revision \in DOMAIN h /\ e.revision - 1 \in DOMAIN h
                          /\ h[e.revision - 1].cursor = e.before
                          /\ h[e.revision - 1].live = e.active
                          /\ h[e.revision].cursor = e.after
                          /\ e.before # e.after
    BY DEF EvidenceIsCursorMovement
  <2>1. CASE e \in mutationEvents /\ e.worktree = w
    <3>1. e.revision \in 0..r /\ e.revision - 1 \in 0..r
      BY <2>1, EvidenceIsPast DEF r
    <3>2. 0..r \subseteq 0..(r + 1)
      BY <1>5
    <3> QED BY <1>5, <2>1, <3>1, <3>2 DEF EvidenceInv, EvidenceIsCursorMovement
  <2>2. CASE e \in mutationEvents /\ e.worktree # w
    <3>1. history'[e.worktree] = history[e.worktree]
      BY <1>5, <1>7, <2>2, EvidenceIsPast
    <3> QED BY <2>2, <3>1 DEF EvidenceInv, EvidenceIsCursorMovement
  <2>3. CASE e \in new
    <3>1. /\ e.worktree = w /\ e.revision = r + 1 /\ e.before # e.after
          /\ e.before = worktrees[w].cursor /\ e.after = row.cursor
          /\ e.active = LiveScopesOn(scopes, w)
      BY <1>2, <1>4, <2>3 DEF Records, Movements
    <3>2. e.revision - 1 = r /\ r \in 0..r /\ r \in 0..(r + 1) /\ r + 1 \in 0..(r + 1)
      BY <1>5, <3>1
    <3> QED BY <1>5, <1>8, <3>1, <3>2
  <2> QED BY <1>2, <2>1, <2>2, <2>3 DEF Records
<1>11. CursorMovesAreRecorded'
  <2> SUFFICES ASSUME NEW v \in DOMAIN worktrees, NEW k \in 1..worktrees'[v].revision,
                      history'[v][k].cursor # history'[v][k - 1].cursor
               PROVE  \/ history'[v][k].step = "Recover"
                      \/ \E e \in mutationEvents' : e.worktree = v /\ e.revision = k
    BY <1>4 DEF CursorMovesAreRecorded
  <2>1. mutationEvents \subseteq mutationEvents' /\ new \subseteq mutationEvents'
    BY <1>2 DEF Records
  <2>2. CASE v # w
    <3>1. history'[v] = history[v] /\ worktrees'[v] = worktrees[v]
      BY <1>4, <1>5, <1>7, <2>2
    <3> QED BY <2>1, <3>1 DEF EvidenceInv, CursorMovesAreRecorded
  <2>3. CASE v = w /\ k # r + 1
    <3>1. k \in 1..r /\ k \in 0..r /\ k - 1 \in 0..r
      BY <1>4, <1>5, <2>3
    <3>2. history'[w][k] = history[w][k] /\ history'[w][k - 1] = history[w][k - 1]
      BY <1>5, <3>1
    <3> QED BY <2>1, <2>3, <3>1, <3>2 DEF EvidenceInv, CursorMovesAreRecorded, r
  <2>4. CASE v = w /\ k = r + 1
    <3>1. k - 1 = r /\ r \in 0..r
      BY <1>5, <2>4
    <3>2. row.cursor # worktrees[w].cursor
      BY <1>5, <1>8, <2>4, <3>1
    <3>3. CASE step = "Recover"
      BY <1>5, <2>4, <3>3
    <3>4. CASE new # {}
      <4>1. PICK e \in new : e.worktree = w /\ e.revision = r + 1
        BY <1>2, <1>4, <3>4 DEF Records, Movements
      <4> QED BY <2>1, <2>4, <4>1
    <3> QED BY <1>2, <3>2, <3>3, <3>4 DEF Records
  <2> QED BY <2>2, <2>3, <2>4
<1> QED BY <1>3, <1>9, <1>10, <1>11 DEF EvidenceInv

LEMMA EvidenceInductive == EvidenceInv /\ [LedgerNext]_ledgerVars => EvidenceInv'
<1> SUFFICES ASSUME EvidenceInv, [LedgerNext]_ledgerVars PROVE EvidenceInv'
  OBVIOUS
<1>1. CASE UNCHANGED ledgerVars
  BY <1>1 DEF ledgerVars, EvidenceInv, LedgerTypeOK, HistoryIsCurrent,
              EvidenceIsCursorMovement, CursorMovesAreRecorded, LiveScopesOn
<1>2. CASE LedgerNext
  BY <1>2, StepShape, EvidenceInitializeWorktree, EvidenceRegisterScope, EvidenceTransition
     DEF EvidenceInv
<1> QED BY <1>1, <1>2

\* Every piece of evidence is the cursor movement of exactly one revision,
\* with the scopes that were live before it: evidence neither overlaps nor
\* skips nor repeats an interval.
THEOREM EvidenceCorrect == LedgerSpec => []EvidenceIsCursorMovement
<1>1. EvidenceInv => EvidenceIsCursorMovement
  BY DEF EvidenceInv
<1> QED BY <1>1, EvidenceInit, EvidenceInductive, PTL DEF LedgerSpec

\* No revision moves the cursor silently: it left evidence or is a recovery.
THEOREM MovesRecorded == LedgerSpec => []CursorMovesAreRecorded
<1>1. EvidenceInv => CursorMovesAreRecorded
  BY DEF EvidenceInv
<1> QED BY <1>1, EvidenceInit, EvidenceInductive, PTL DEF LedgerSpec
-----------------------------------------------------------------------------
(* Trust: when evidence may be positive, and how often a delivery counts.  *)

\* What a transition of worktree w does, read off the states around it.
Grows(w, step, row, seen, new) ==
  LET r == worktrees[w].revision
  IN  /\ w \in DOMAIN worktrees /\ r \in Nat
      /\ DOMAIN worktrees' = DOMAIN worktrees
      /\ worktrees'[w] = row /\ row.revision = r + 1
      /\ \A v \in DOMAIN worktrees : v # w => worktrees'[v] = worktrees[v] /\ history'[v] = history[v]
      /\ \A k \in 0..r : history'[w][k] = history[w][k]
      /\ history'[w][r + 1].step = step /\ history'[w][r + 1].seen = seen
      /\ history'[w][r + 1].live = LiveScopesOn(scopes', w)
      /\ history[w][r].live = LiveScopesOn(scopes, w)
      /\ mutationEvents' = mutationEvents \cup new
      /\ \A e \in new : e.worktree = w /\ e.revision = r + 1 /\ e.active = LiveScopesOn(scopes, w)
      /\ Governs(w, step, row, scopes', seen)
      /\ Vouches(w, new)

LEMMA TransitionGrows ==
  ASSUME EvidenceInv, Transition
  PROVE  \E w \in Worktrees, step \in Step, row \in WorktreeState, seen \in BOOLEAN :
           \E new : Grows(w, step, row, seen, new)
<1>1. PICK w \in Worktrees, step \in Step, row \in WorktreeState, seen \in BOOLEAN :
        \E next, new :
          /\ Advances(w, step, row, next, seen) /\ Records(w, step, row, new)
          /\ Governs(w, step, row, next, seen) /\ Vouches(w, new)
  BY DEF Transition
<1>2. PICK next, new :
        /\ Advances(w, step, row, next, seen) /\ Records(w, step, row, new)
        /\ Governs(w, step, row, next, seen) /\ Vouches(w, new)
  BY <1>1
<1> DEFINE r == worktrees[w].revision
<1>3. /\ w \in DOMAIN worktrees /\ DOMAIN worktrees' = DOMAIN worktrees
      /\ worktrees'[w] = row /\ row.revision = r + 1
      /\ \A v \in DOMAIN worktrees : v # w => worktrees'[v] = worktrees[v]
      /\ scopes' = next
  BY <1>2 DEF Advances, EvidenceInv, LedgerTypeOK
<1>4. /\ r \in Nat
      /\ \A v \in Worktrees : v # w => history'[v] = history[v]
      /\ \A k \in 0..r : history'[w][k] = history[w][k]
      /\ history'[w][r + 1].step = step /\ history'[w][r + 1].seen = seen
      /\ history'[w][r + 1].live = LiveScopesOn(next, w)
  BY <1>2, TransitionHistory DEF EvidenceInv
<1>5. DOMAIN worktrees \subseteq Worktrees
  BY DEF EvidenceInv, LedgerTypeOK
<1>6. history[w][r].live = LiveScopesOn(scopes, w)
  BY <1>3 DEF EvidenceInv, HistoryIsCurrent
<1>7. /\ mutationEvents' = mutationEvents \cup new
      /\ \A e \in new : e.worktree = w /\ e.revision = r + 1 /\ e.active = LiveScopesOn(scopes, w)
  BY <1>2, <1>3 DEF Records, Movements
<1>8. Grows(w, step, row, seen, new)
  BY <1>2, <1>3, <1>4, <1>5, <1>6, <1>7 DEF Grows
<1> QED BY <1>8

\* What the insertion of the row of w does, read off the states around it.
Begins(w) ==
  /\ w \notin DOMAIN worktrees
  /\ DOMAIN worktrees' = DOMAIN worktrees \cup {w}
  /\ worktrees'[w].revision = 0
  /\ \A v \in DOMAIN worktrees : worktrees'[v] = worktrees[v] /\ history'[v] = history[v]
  /\ history'[w][0].step = "Initialize" /\ history'[w][0].seen
  /\ UNCHANGED <<scopes, processedEvents, mutationEvents>>

LEMMA InitializeBegins ==
  ASSUME LedgerTypeOK, NEW w \in Worktrees, NEW t \in Trees, InitializeWorktree(w, t)
  PROVE  Begins(w)
<1>1. /\ DOMAIN worktrees' = DOMAIN worktrees \cup {w} /\ w \notin DOMAIN worktrees
      /\ worktrees'[w] = InitialRow(t) /\ InitialRow(t).revision = 0
      /\ \A v \in DOMAIN worktrees : worktrees'[v] = worktrees[v]
  BY DEF InitializeWorktree, Put, InitialRow
<1>2. /\ history'[w][0].step = "Initialize" /\ history'[w][0].seen
      /\ \A v \in DOMAIN worktrees : history'[v] = history[v]
  BY <1>1 DEF InitializeWorktree, Record, Put, LedgerTypeOK
<1> QED BY <1>1, <1>2 DEF Begins, InitializeWorktree

\* The history of a worktree is never rewritten, and no evidence is.
LEMMA HistoryStays ==
  ASSUME EvidenceInv, [LedgerNext]_ledgerVars
  PROVE  /\ \A v \in DOMAIN worktrees : \A k \in 0..worktrees[v].revision :
              history'[v][k] = history[v][k]
         /\ \A e \in mutationEvents : \A k \in 0..e.revision :
              history'[e.worktree][k] = history[e.worktree][k]
         /\ \A e \in mutationEvents : e.revision \in Nat
<1>1. \A v \in DOMAIN worktrees : \A k \in 0..worktrees[v].revision : history'[v][k] = history[v][k]
  <2>1. CASE UNCHANGED ledgerVars
    BY <2>1 DEF ledgerVars
  <2>2. ASSUME NEW w \in Worktrees, NEW t \in Trees, InitializeWorktree(w, t)
        PROVE  \A v \in DOMAIN worktrees : history'[v] = history[v]
    BY <2>2, InitializeBegins DEF Begins, EvidenceInv
  <2>3. ASSUME NEW s \in Scopes, NEW w \in Worktrees, NEW a \in Actors, RegisterScope(s, w, a)
        PROVE  history' = history
    BY <2>3 DEF RegisterScope
  <2>4. CASE Transition
    BY <2>4, TransitionGrows DEF Grows
  <2> QED BY <2>1, <2>2, <2>3, <2>4, StepShape DEF EvidenceInv
<1>2. ASSUME NEW e \in mutationEvents
      PROVE  /\ e.revision \in Nat
             /\ \A k \in 0..e.revision : history'[e.worktree][k] = history[e.worktree][k]
  <2>1. /\ e.worktree \in DOMAIN worktrees
        /\ e.revision \in 0..worktrees[e.worktree].revision
    BY EvidenceIsPast
  <2>2. worktrees[e.worktree].revision \in Nat
    BY <2>1, RevisionBound DEF EvidenceInv, LedgerTypeOK, WorktreeState
  <2>3. e.revision \in Nat /\ 0..e.revision \subseteq 0..worktrees[e.worktree].revision
    BY <2>1, <2>2
  <2> QED BY <1>1, <2>1, <2>3
<1> QED BY <1>1, <1>2

\* A delivery that left evidence is known to have been processed, and the
\* scopes that evidence names are known.
DeliveriesAreKnown ==
  \A e \in mutationEvents :
    /\ e.active \subseteq DOMAIN scopes
    /\ IsHook(e.boundary) => Key(e.boundary) \in processedEvents

DeliveryInv == DeliveriesAreKnown /\ DeliveryCountsOnce /\ ConfirmedAtClose

LEMMA DeliveryInit == LedgerInit => DeliveryInv
BY DEF LedgerInit, DeliveryInv, DeliveriesAreKnown, DeliveryCountsOnce, ConfirmedAtClose

\* Scopes that stay who they are go on vouching for what they vouched for.
LEMMA StillConfirmed ==
  ASSUME LedgerTypeOK, [LedgerNext]_ledgerVars, NEW e, e.active \subseteq DOMAIN scopes,
         Confirmed(e, scopes)
  PROVE  Confirmed(e, scopes')
BY RowsStay DEF Onward, Confirmed

\* A step that adds no evidence keeps the invariant.
LEMMA DeliveryUndisturbed ==
  ASSUME EvidenceInv, DeliveryInv, [LedgerNext]_ledgerVars, mutationEvents' = mutationEvents,
         processedEvents \subseteq processedEvents'
  PROVE  DeliveryInv'
<1>1. DeliveriesAreKnown' /\ DeliveryCountsOnce'
  BY RowsStay DEF EvidenceInv, DeliveryInv, DeliveriesAreKnown, DeliveryCountsOnce
<1>2. ConfirmedAtClose'
  <2>1. \A e \in mutationEvents : Positive(e.attribution) => Confirmed(e, scopes')
    BY StillConfirmed DEF EvidenceInv, DeliveryInv, DeliveriesAreKnown, ConfirmedAtClose, Confirmed
  <2> QED BY <2>1 DEF ConfirmedAtClose, Confirmed
<1> QED BY <1>1, <1>2 DEF DeliveryInv

LEMMA DeliveryTransition ==
  ASSUME EvidenceInv, DeliveryInv, LedgerNext, Transition
  PROVE  DeliveryInv'
<1>1. PICK w \in Worktrees, step \in Step, row \in WorktreeState, seen \in BOOLEAN :
        \E new : Grows(w, step, row, seen, new)
  BY TransitionGrows
<1>2. PICK new : Grows(w, step, row, seen, new)
  BY <1>1
<1>3. mutationEvents' = mutationEvents \cup new /\ processedEvents \subseteq processedEvents'
  BY <1>2 DEF Grows, Transition
<1>4. DOMAIN scopes \subseteq DOMAIN scopes'
  BY RowsStay DEF EvidenceInv
<1>5. \A e \in new :
        /\ e.active = LiveScopesOn(scopes, w)
        /\ e.active \subseteq DOMAIN scopes
  BY <1>2 DEF Grows, LiveScopesOn
<1>6. /\ \A e, f \in new : e = f
      /\ \A e \in new : IsHook(e.boundary) => Key(e.boundary) \in processedEvents' \ processedEvents
      /\ \A e \in new : Positive(e.attribution) => Confirmed(e, scopes)
  BY <1>2 DEF Grows, Vouches
<1>7. DeliveriesAreKnown'
  BY <1>3, <1>4, <1>5, <1>6 DEF DeliveryInv, DeliveriesAreKnown
<1>8. DeliveryCountsOnce'
  BY <1>3, <1>6 DEF DeliveryInv, DeliveriesAreKnown, DeliveryCountsOnce
<1>9. ConfirmedAtClose'
  <2>1. \A e \in mutationEvents : Positive(e.attribution) => Confirmed(e, scopes')
    BY StillConfirmed DEF EvidenceInv, DeliveryInv, DeliveriesAreKnown, ConfirmedAtClose, Confirmed
  <2>2. \A e \in new : Positive(e.attribution) => Confirmed(e, scopes')
    BY <1>5, <1>6, StillConfirmed DEF EvidenceInv
  <2> QED BY <1>3, <2>1, <2>2 DEF ConfirmedAtClose, Confirmed
<1> QED BY <1>7, <1>8, <1>9 DEF DeliveryInv

LEMMA DeliveryInductive == EvidenceInv /\ DeliveryInv /\ [LedgerNext]_ledgerVars => DeliveryInv'
<1> SUFFICES ASSUME EvidenceInv, DeliveryInv, [LedgerNext]_ledgerVars PROVE DeliveryInv'
  OBVIOUS
<1>1. CASE UNCHANGED ledgerVars
  BY <1>1, DeliveryUndisturbed DEF ledgerVars
<1>2. ASSUME NEW w \in Worktrees, NEW t \in Trees, InitializeWorktree(w, t)
      PROVE  DeliveryInv'
  BY <1>2, DeliveryUndisturbed DEF InitializeWorktree
<1>3. ASSUME NEW s \in Scopes, NEW w \in Worktrees, NEW a \in Actors, RegisterScope(s, w, a)
      PROVE  DeliveryInv'
  BY <1>3, DeliveryUndisturbed DEF RegisterScope
<1>4. CASE LedgerNext /\ Transition
  BY <1>4, DeliveryTransition
<1> QED BY <1>1, <1>2, <1>3, <1>4, StepShape DEF EvidenceInv

\* A delivery leaves at most one piece of evidence however often it is
\* repeated: evidence of a hook and the record of its key are one step.
THEOREM DeliveryOnce == LedgerSpec => []DeliveryCountsOnce
<1>1. EvidenceInv /\ DeliveryInv => DeliveryCountsOnce
  BY DEF DeliveryInv
<1> QED BY <1>1, EvidenceInit, EvidenceInductive, DeliveryInit, DeliveryInductive, PTL DEF LedgerSpec

\* A harness that cannot vouch for a change before its turn ends takes part
\* in positive evidence only at the close of its own scope, seen live before.
THEOREM ConfirmedWhenPositive == LedgerSpec => []ConfirmedAtClose
<1>1. EvidenceInv /\ DeliveryInv => ConfirmedAtClose
  BY DEF DeliveryInv
<1> QED BY <1>1, EvidenceInit, EvidenceInductive, DeliveryInit, DeliveryInductive, PTL DEF LedgerSpec

\* Every taint since the last recovery shows in the health of the row, and
\* every abandonment in its rebaseline.
DistrustIsRemembered ==
  \A w \in DOMAIN worktrees : \A r \in 0..worktrees[w].revision :
    LET recovered == \E k \in r..worktrees[w].revision : history[w][k].step = "Recover"
    IN  /\ history[w][r].step = "Taint" => recovered \/ Unhealthy(worktrees[w])
        /\ history[w][r].step = "Abandon" => recovered \/ worktrees[w].rebaseline

DistrustInv == DistrustIsRemembered /\ RecoveryPrecedesTrust

LEMMA DistrustInit == LedgerInit => DistrustInv
BY DEF LedgerInit, DistrustInv, DistrustIsRemembered, RecoveryPrecedesTrust

\* What old evidence owes to the recoveries before it stays true.
LEMMA OldTrust ==
  ASSUME EvidenceInv, DistrustInv, [LedgerNext]_ledgerVars,
         NEW e \in mutationEvents, NEW r \in 0..(e.revision - 1)
  PROVE  LET recovered == \E k \in r..(e.revision - 1) : history'[e.worktree][k].step = "Recover"
         IN  /\ history'[e.worktree][r].step = "Taint" => recovered \/ ~Positive(e.attribution)
             /\ history'[e.worktree][r].step = "Abandon" => recovered
<1>1. e.revision \in Nat /\ \A k \in 0..e.revision : history'[e.worktree][k] = history[e.worktree][k]
  BY HistoryStays
<1>2. r..(e.revision - 1) \subseteq 0..e.revision /\ r \in 0..e.revision
  BY <1>1
<1> QED BY <1>1, <1>2 DEF DistrustInv, RecoveryPrecedesTrust

LEMMA DistrustUndisturbed ==
  ASSUME EvidenceInv, DistrustInv, [LedgerNext]_ledgerVars, mutationEvents' = mutationEvents
  PROVE  RecoveryPrecedesTrust'
BY OldTrust DEF RecoveryPrecedesTrust

LEMMA DistrustInitializeWorktree ==
  ASSUME EvidenceInv, DistrustInv, LedgerNext, NEW w, Begins(w)
  PROVE  DistrustInv'
<1>1. DistrustIsRemembered'
  <2> SUFFICES ASSUME NEW v \in DOMAIN worktrees', NEW r \in 0..worktrees'[v].revision
               PROVE  LET recovered == \E k \in r..worktrees'[v].revision : history'[v][k].step = "Recover"
                      IN  /\ history'[v][r].step = "Taint" => recovered \/ Unhealthy(worktrees'[v])
                          /\ history'[v][r].step = "Abandon" => recovered \/ worktrees'[v].rebaseline
    BY DEF DistrustIsRemembered
  <2>1. CASE v = w
    <3>1. r = 0
      BY <2>1 DEF Begins
    <3> QED BY <2>1, <3>1 DEF Begins
  <2>2. CASE v # w
    BY <2>2 DEF Begins, DistrustInv, DistrustIsRemembered
  <2> QED BY <2>1, <2>2
<1>2. RecoveryPrecedesTrust'
  BY DistrustUndisturbed DEF Begins
<1> QED BY <1>1, <1>2 DEF DistrustInv

LEMMA DistrustTransition ==
  ASSUME EvidenceInv, DistrustInv, LedgerNext, Transition
  PROVE  DistrustInv'
<1>1. PICK w \in Worktrees, step \in Step, row \in WorktreeState, seen \in BOOLEAN :
        \E new : Grows(w, step, row, seen, new)
  BY TransitionGrows
<1>2. PICK new : Grows(w, step, row, seen, new)
  BY <1>1
<1> DEFINE n == worktrees[w].revision
<1>3. /\ w \in DOMAIN worktrees /\ n \in Nat /\ DOMAIN worktrees' = DOMAIN worktrees
      /\ worktrees'[w] = row /\ row.revision = n + 1
      /\ \A v \in DOMAIN worktrees : v # w => worktrees'[v] = worktrees[v] /\ history'[v] = history[v]
      /\ \A k \in 0..n : history'[w][k] = history[w][k]
      /\ history'[w][n + 1].step = step
      /\ mutationEvents' = mutationEvents \cup new
      /\ \A e \in new : e.worktree = w /\ e.revision = n + 1
  BY <1>2 DEF Grows
<1>4. /\ step # "Recover" =>
           (Unhealthy(worktrees[w]) => Unhealthy(row)) /\ (worktrees[w].rebaseline => row.rebaseline)
      /\ step = "Taint" => Unhealthy(row)
      /\ step = "Abandon" => row.rebaseline
  BY <1>2 DEF Grows, Governs
<1>5. \A e \in new :
        /\ ~worktrees[w].rebaseline
        /\ Positive(e.attribution) => ~Unhealthy(worktrees[w])
  BY <1>2 DEF Grows, Vouches
<1>6. \A r \in 0..n :
        LET recovered == \E k \in r..n : history[w][k].step = "Recover"
        IN  /\ history[w][r].step = "Taint" => recovered \/ Unhealthy(worktrees[w])
            /\ history[w][r].step = "Abandon" => recovered \/ worktrees[w].rebaseline
  BY <1>3 DEF DistrustInv, DistrustIsRemembered
<1> HIDE DEF n
<1>7. DistrustIsRemembered'
  <2> SUFFICES ASSUME NEW v \in DOMAIN worktrees', NEW r \in 0..worktrees'[v].revision
               PROVE  LET recovered == \E k \in r..worktrees'[v].revision : history'[v][k].step = "Recover"
                      IN  /\ history'[v][r].step = "Taint" => recovered \/ Unhealthy(worktrees'[v])
                          /\ history'[v][r].step = "Abandon" => recovered \/ worktrees'[v].rebaseline
    BY DEF DistrustIsRemembered
  <2>1. CASE v # w
    BY <1>3, <2>1 DEF DistrustInv, DistrustIsRemembered
  <2>2. CASE v = w /\ r = n + 1
    BY <1>3, <1>4, <2>2
  <2>3. CASE v = w /\ r # n + 1 /\ step = "Recover"
    <3>1. n + 1 \in r..(n + 1)
      BY <1>3, <2>3
    <3> QED BY <1>3, <2>3, <3>1
  <2>4. CASE v = w /\ r # n + 1 /\ step # "Recover"
    <3>1. r \in 0..n /\ \A k \in r..n : k \in 0..n /\ k \in r..(n + 1)
      BY <1>3, <2>4
    <3> QED BY <1>3, <1>4, <1>6, <2>4, <3>1
  <2> QED BY <2>1, <2>2, <2>3, <2>4
<1>8. RecoveryPrecedesTrust'
  <2>1. ASSUME NEW e \in new, NEW r \in 0..(e.revision - 1)
        PROVE  LET recovered == \E k \in r..(e.revision - 1) : history'[e.worktree][k].step = "Recover"
               IN  /\ history'[e.worktree][r].step = "Taint" => recovered \/ ~Positive(e.attribution)
                   /\ history'[e.worktree][r].step = "Abandon" => recovered
    <3>1. e.worktree = w /\ e.revision - 1 = n
      BY <1>3
    <3>2. r \in 0..n /\ \A k \in r..n : k \in 0..n
      BY <1>3, <3>1
    <3> QED BY <1>3, <1>5, <1>6, <3>1, <3>2
  <2> QED BY <1>3, <2>1, OldTrust DEF RecoveryPrecedesTrust
<1> QED BY <1>7, <1>8 DEF DistrustInv

LEMMA DistrustInductive == EvidenceInv /\ DistrustInv /\ [LedgerNext]_ledgerVars => DistrustInv'
<1> SUFFICES ASSUME EvidenceInv, DistrustInv, [LedgerNext]_ledgerVars PROVE DistrustInv'
  OBVIOUS
<1>1. CASE UNCHANGED ledgerVars
  BY <1>1 DEF ledgerVars, DistrustInv, DistrustIsRemembered, RecoveryPrecedesTrust
<1>2. ASSUME NEW w \in Worktrees, NEW t \in Trees, LedgerNext, InitializeWorktree(w, t)
      PROVE  DistrustInv'
  BY <1>2, InitializeBegins, DistrustInitializeWorktree DEF EvidenceInv
<1>3. ASSUME NEW s \in Scopes, NEW w \in Worktrees, NEW a \in Actors, RegisterScope(s, w, a)
      PROVE  DistrustInv'
  BY <1>3 DEF RegisterScope, DistrustInv, DistrustIsRemembered, RecoveryPrecedesTrust
<1>4. CASE LedgerNext /\ Transition
  BY <1>4, DistrustTransition
<1> QED BY <1>1, <1>2, <1>3, <1>4, StepShape DEF EvidenceInv

\* Between a failed snapshot and the next recovery nothing is credited, and
\* between an abandonment and its rebaseline nothing is recorded at all.
THEOREM TrustAfterRecovery == LedgerSpec => []RecoveryPrecedesTrust
<1>1. EvidenceInv /\ DistrustInv => RecoveryPrecedesTrust
  BY DEF DistrustInv
<1> QED BY <1>1, EvidenceInit, EvidenceInductive, DistrustInit, DistrustInductive, PTL DEF LedgerSpec

\* k is the last revision before r whose step captured the worktree of the
\* history h.
IsLastSeen(h, r, k) ==
  /\ k \in 0..(r - 1)
  /\ h[k].seen
  /\ \A j \in (k + 1)..(r - 1) : ~h[j].seen

\* Unless a rebaseline is due, the live scopes are those of the last capture.
LiveSinceSeen ==
  \A w \in DOMAIN worktrees :
    LET n == worktrees[w].revision
    IN  \E k \in 0..n :
          /\ IsLastSeen(history[w], n + 1, k)
          /\ ~worktrees[w].rebaseline =>
               \A r \in k..n : history[w][r].live = history[w][n].live

\* All evidence has one set of live scopes, whatever it is attributed to.
EvidenceHasOneLiveSet ==
  \A e \in mutationEvents : \E k \in 0..(e.revision - 1) :
    /\ IsLastSeen(history[e.worktree], e.revision, k)
    /\ \A r \in k..(e.revision - 1) : history[e.worktree][r].live = e.active

LiveSetInv == LiveSinceSeen /\ EvidenceHasOneLiveSet

LEMMA LiveSetInit == LedgerInit => LiveSetInv
BY DEF LedgerInit, LiveSetInv, LiveSinceSeen, EvidenceHasOneLiveSet

\* There is one last capture.
LEMMA LastSeenIsUnique ==
  ASSUME NEW w, NEW r \in Nat, NEW k, IsLastSeen(history[w], r, k)
  PROVE  LastSeen(w, r) = k
<1>1. ASSUME NEW j \in 0..(r - 1), history[w][j].seen,
             \A i \in (j + 1)..(r - 1) : ~history[w][i].seen
      PROVE  j = k
  <2>1. k \in 0..(r - 1) /\ history[w][k].seen /\ \A i \in (k + 1)..(r - 1) : ~history[w][i].seen
    BY DEF IsLastSeen
  <2>2. ~(j < k)
    <3> SUFFICES ASSUME j < k PROVE FALSE
      OBVIOUS
    <3>1. k \in (j + 1)..(r - 1)
      BY <2>1
    <3> QED BY <1>1, <2>1, <3>1
  <2>3. ~(k < j)
    <3> SUFFICES ASSUME k < j PROVE FALSE
      OBVIOUS
    <3>1. j \in (k + 1)..(r - 1)
      BY <1>1, <2>1
    <3> QED BY <1>1, <2>1, <3>1
  <2> QED BY <1>1, <2>1, <2>2, <2>3
<1> QED BY <1>1 DEF LastSeen, IsLastSeen

LEMMA OneLiveSetFollows ==
  ASSUME EvidenceInv, LiveSetInv
  PROVE  PositiveEvidenceHasOneLiveSet
<1> SUFFICES ASSUME NEW e \in mutationEvents,
                    NEW r \in LastSeen(e.worktree, e.revision)..(e.revision - 1)
             PROVE  history[e.worktree][r].live = e.active
  BY DEF PositiveEvidenceHasOneLiveSet
<1>1. PICK k \in 0..(e.revision - 1) :
        /\ IsLastSeen(history[e.worktree], e.revision, k)
        /\ \A j \in k..(e.revision - 1) : history[e.worktree][j].live = e.active
  BY DEF LiveSetInv, EvidenceHasOneLiveSet
<1>2. e.revision \in Nat
  BY RevisionBound DEF EvidenceInv, LedgerTypeOK, MutationEvent
<1>3. LastSeen(e.worktree, e.revision) = k
  BY <1>1, <1>2, LastSeenIsUnique
<1> QED BY <1>1, <1>3

\* What a history said of its last capture it still says when it has grown.
LEMMA LastSeenStays ==
  ASSUME NEW h, NEW g, NEW r \in Nat, NEW k, IsLastSeen(h, r, k),
         \A j \in 0..(r - 1) : g[j] = h[j]
  PROVE  IsLastSeen(g, r, k)
<1>1. k \in 0..(r - 1) /\ (k + 1)..(r - 1) \subseteq 0..(r - 1)
  BY DEF IsLastSeen
<1> QED BY <1>1 DEF IsLastSeen

LEMMA OldLiveSet ==
  ASSUME EvidenceInv, LiveSetInv, [LedgerNext]_ledgerVars, NEW e \in mutationEvents
  PROVE  \E k \in 0..(e.revision - 1) :
           /\ IsLastSeen(history'[e.worktree], e.revision, k)
           /\ \A r \in k..(e.revision - 1) : history'[e.worktree][r].live = e.active
<1>1. PICK k \in 0..(e.revision - 1) :
        /\ IsLastSeen(history[e.worktree], e.revision, k)
        /\ \A r \in k..(e.revision - 1) : history[e.worktree][r].live = e.active
  BY DEF LiveSetInv, EvidenceHasOneLiveSet
<1>2. e.revision \in Nat /\ \A j \in 0..e.revision : history'[e.worktree][j] = history[e.worktree][j]
  BY HistoryStays
<1>3. /\ \A j \in 0..(e.revision - 1) : history'[e.worktree][j] = history[e.worktree][j]
      /\ k..(e.revision - 1) \subseteq 0..(e.revision - 1)
  BY <1>2
<1>4. IsLastSeen(history'[e.worktree], e.revision, k)
  BY <1>1, <1>2, <1>3, LastSeenStays
<1> QED BY <1>1, <1>3, <1>4

LEMMA LiveSetUndisturbed ==
  ASSUME EvidenceInv, LiveSetInv, [LedgerNext]_ledgerVars, mutationEvents' = mutationEvents
  PROVE  EvidenceHasOneLiveSet'
BY OldLiveSet DEF EvidenceHasOneLiveSet

\* A worktree whose row and history a step leaves alone.
LEMMA LiveSinceSeenElsewhere ==
  ASSUME LiveSetInv, NEW v \in DOMAIN worktrees,
         worktrees'[v] = worktrees[v], history'[v] = history[v]
  PROVE  LET n == worktrees'[v].revision
         IN  \E k \in 0..n :
               /\ IsLastSeen(history'[v], n + 1, k)
               /\ ~worktrees'[v].rebaseline =>
                    \A r \in k..n : history'[v][r].live = history'[v][n].live
BY DEF LiveSetInv, LiveSinceSeen, IsLastSeen

LEMMA LiveSetInitializeWorktree ==
  ASSUME EvidenceInv, LiveSetInv, LedgerNext, NEW w, Begins(w)
  PROVE  LiveSetInv'
<1>1. LiveSinceSeen'
  <2> SUFFICES ASSUME NEW v \in DOMAIN worktrees'
               PROVE  LET n == worktrees'[v].revision
                      IN  \E k \in 0..n :
                            /\ IsLastSeen(history'[v], n + 1, k)
                            /\ ~worktrees'[v].rebaseline =>
                                 \A r \in k..n : history'[v][r].live = history'[v][n].live
    BY DEF LiveSinceSeen
  <2>1. CASE v = w
    <3>1. worktrees'[v].revision = 0 /\ history'[v][0].seen
      BY <2>1 DEF Begins
    <3>2. IsLastSeen(history'[v], 0 + 1, 0)
      BY <3>1 DEF IsLastSeen
    <3> QED BY <3>1, <3>2
  <2>2. CASE v # w
    BY <2>2, LiveSinceSeenElsewhere DEF Begins
  <2> QED BY <2>1, <2>2
<1>2. EvidenceHasOneLiveSet'
  BY LiveSetUndisturbed DEF Begins
<1> QED BY <1>1, <1>2 DEF LiveSetInv

LEMMA LiveSetTransition ==
  ASSUME EvidenceInv, LiveSetInv, LedgerNext, Transition
  PROVE  LiveSetInv'
<1>1. PICK w \in Worktrees, step \in Step, row \in WorktreeState, seen \in BOOLEAN :
        \E new : Grows(w, step, row, seen, new)
  BY TransitionGrows
<1>2. PICK new : Grows(w, step, row, seen, new)
  BY <1>1
<1> DEFINE n == worktrees[w].revision
<1>3. /\ w \in DOMAIN worktrees /\ n \in Nat /\ DOMAIN worktrees' = DOMAIN worktrees
      /\ worktrees'[w] = row /\ row.revision = n + 1
      /\ \A v \in DOMAIN worktrees : v # w => worktrees'[v] = worktrees[v] /\ history'[v] = history[v]
      /\ \A k \in 0..n : history'[w][k] = history[w][k]
      /\ history'[w][n + 1].seen = seen
      /\ history'[w][n + 1].live = LiveScopesOn(scopes', w)
      /\ history[w][n].live = LiveScopesOn(scopes, w)
      /\ mutationEvents' = mutationEvents \cup new
      /\ \A e \in new : e.worktree = w /\ e.revision = n + 1 /\ e.active = LiveScopesOn(scopes, w)
  BY <1>2 DEF Grows
<1>4. ~seen /\ ~row.rebaseline =>
        /\ ~worktrees[w].rebaseline
        /\ LiveScopesOn(scopes', w) = LiveScopesOn(scopes, w)
  BY <1>2 DEF Grows, Governs
<1>5. \A e \in new : ~worktrees[w].rebaseline
  BY <1>2 DEF Grows, Vouches
<1>6. PICK k \in 0..n :
        /\ IsLastSeen(history[w], n + 1, k)
        /\ ~worktrees[w].rebaseline =>
             \A r \in k..n : history[w][r].live = history[w][n].live
  BY <1>3 DEF LiveSetInv, LiveSinceSeen
<1> HIDE DEF n
<1>7. \A j \in 0..((n + 1) - 1) : history'[w][j] = history[w][j]
  BY <1>3
<1>8. IsLastSeen(history'[w], n + 1, k)
  BY <1>3, <1>6, <1>7, LastSeenStays
<1>9. LiveSinceSeen'
  <2> SUFFICES ASSUME NEW v \in DOMAIN worktrees'
               PROVE  LET m == worktrees'[v].revision
                      IN  \E i \in 0..m :
                            /\ IsLastSeen(history'[v], m + 1, i)
                            /\ ~worktrees'[v].rebaseline =>
                                 \A r \in i..m : history'[v][r].live = history'[v][m].live
    BY DEF LiveSinceSeen
  <2>1. CASE v # w
    BY <1>3, <2>1, LiveSinceSeenElsewhere
  <2>2. CASE v = w /\ seen
    <3>1. IsLastSeen(history'[w], (n + 1) + 1, n + 1)
      BY <1>3, <2>2 DEF IsLastSeen
    <3>2. \A r \in (n + 1)..(n + 1) : r = n + 1
      BY <1>3
    <3>3. n + 1 \in 0..(n + 1)
      BY <1>3
    <3> QED BY <1>3, <2>2, <3>1, <3>2, <3>3
  <2>3. CASE v = w /\ ~seen
    <3>1. IsLastSeen(history'[w], (n + 1) + 1, k)
      <4>1. /\ k \in 0..n /\ history'[w][k].seen
            /\ \A j \in (k + 1)..n : ~history'[w][j].seen
        BY <1>3, <1>8 DEF IsLastSeen
      <4>2. \A j \in (k + 1)..(n + 1) : j \in (k + 1)..n \/ j = n + 1
        BY <1>3
      <4>3. ~history'[w][n + 1].seen
        BY <1>3, <2>3
      <4>4. ((n + 1) + 1) - 1 = n + 1 /\ k \in 0..(n + 1)
        BY <1>3
      <4> QED BY <4>1, <4>2, <4>3, <4>4 DEF IsLastSeen
    <3>2. ASSUME ~row.rebaseline, NEW r \in k..(n + 1)
          PROVE  history'[w][r].live = history'[w][n + 1].live
      <4>1. /\ \A j \in k..n : history[w][j].live = history[w][n].live
            /\ LiveScopesOn(scopes', w) = LiveScopesOn(scopes, w)
        BY <1>4, <1>6, <2>3, <3>2
      <4>2. CASE r = n + 1
        BY <4>2
      <4>3. CASE r # n + 1
        <5>1. r \in k..n /\ r \in 0..n
          BY <1>3, <3>2, <4>3
        <5> QED BY <1>3, <4>1, <5>1
      <4> QED BY <4>2, <4>3
    <3>3. k \in 0..(n + 1)
      BY <1>3
    <3> QED BY <1>3, <2>3, <3>1, <3>2, <3>3
  <2> QED BY <2>1, <2>2, <2>3
<1>10. EvidenceHasOneLiveSet'
  <2>1. ASSUME NEW e \in new
        PROVE  \E i \in 0..(e.revision - 1) :
                 /\ IsLastSeen(history'[e.worktree], e.revision, i)
                 /\ \A r \in i..(e.revision - 1) : history'[e.worktree][r].live = e.active
    <3>1. /\ e.worktree = w /\ e.revision = n + 1 /\ e.revision - 1 = n
          /\ e.active = LiveScopesOn(scopes, w)
      BY <1>3
    <3>2. \A r \in k..n : history[w][r].live = e.active
      BY <1>3, <1>5, <1>6, <3>1
    <3>3. \A r \in k..n : r \in 0..n
      BY <1>3
    <3>4. \A r \in k..n : history'[w][r].live = e.active
      BY <1>3, <3>2, <3>3
    <3> QED BY <1>6, <1>8, <3>1, <3>4
  <2> QED BY <1>3, <2>1, OldLiveSet DEF EvidenceHasOneLiveSet
<1> QED BY <1>9, <1>10 DEF LiveSetInv

LEMMA LiveSetInductive == EvidenceInv /\ LiveSetInv /\ [LedgerNext]_ledgerVars => LiveSetInv'
<1> SUFFICES ASSUME EvidenceInv, LiveSetInv, [LedgerNext]_ledgerVars PROVE LiveSetInv'
  OBVIOUS
<1>1. CASE UNCHANGED ledgerVars
  BY <1>1 DEF ledgerVars, LiveSetInv, LiveSinceSeen, EvidenceHasOneLiveSet, IsLastSeen
<1>2. ASSUME NEW w \in Worktrees, NEW t \in Trees, LedgerNext, InitializeWorktree(w, t)
      PROVE  LiveSetInv'
  BY <1>2, InitializeBegins, LiveSetInitializeWorktree DEF EvidenceInv
<1>3. ASSUME NEW s \in Scopes, NEW w \in Worktrees, NEW a \in Actors, RegisterScope(s, w, a)
      PROVE  LiveSetInv'
  BY <1>3 DEF RegisterScope, LiveSetInv, LiveSinceSeen, EvidenceHasOneLiveSet, IsLastSeen
<1>4. CASE LedgerNext /\ Transition
  BY <1>4, LiveSetTransition
<1> QED BY <1>1, <1>2, <1>3, <1>4, StepShape DEF EvidenceInv

\* Since a worktree was last captured no scope began or ended on it, for
\* whatever evidence is recorded: its changes belong to one set of scopes.
THEOREM OneLiveSet == LedgerSpec => []PositiveEvidenceHasOneLiveSet
<1>1. EvidenceInv /\ LiveSetInv => PositiveEvidenceHasOneLiveSet
  BY OneLiveSetFollows
<1> QED BY <1>1, EvidenceInit, EvidenceInductive, LiveSetInit, LiveSetInductive, PTL DEF LedgerSpec
=============================================================================
