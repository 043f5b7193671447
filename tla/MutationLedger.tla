--------------------------- MODULE MutationLedger ---------------------------
(***************************************************************************)
(* What the mutation cursor promises, with every boundary atomic: a        *)
(* boundary is evaluated against the durable state of the very moment at   *)
(* which it takes effect.  The code never holds such a moment; it prepares *)
(* against one state and commits against another (MutationProtocol), and   *)
(* it loads and writes the database in separate statements                 *)
(* (MutationStore).  Both are checked to implement this module.            *)
(*                                                                         *)
(* history is auxiliary.  history[w][r] says how worktree w reached its    *)
(* revision r: the step, the cursor and the live scopes it left, and       *)
(* whether it captured the worktree (`seen`).  No decision reads it.       *)
(***************************************************************************)
EXTENDS MutationKernel

VARIABLES
  worktrees,        \* durable rows, by worktree
  scopes,           \* durable rows, by scope
  processedEvents,  \* hook deliveries that were committed
  mutationEvents,   \* the evidence
  history           \* auxiliary: how each revision came about

ledgerVars == <<worktrees, scopes, processedEvents, mutationEvents, history>>

Step == HookKind \cup {"Initialize", "Flush", "Taint", "Abandon", "Recover"}

Entry == [step : Step, cursor : Trees, live : SUBSET Scopes, seen : BOOLEAN]

\* The history after w reached row by the given step with the given scopes.
Record(w, step, row, nextScopes, seen) ==
  [history EXCEPT ![w] =
     Put(@, row.revision, [step |-> step, cursor |-> row.cursor,
                           live |-> LiveScopesOn(nextScopes, w), seen |-> seen])]

LedgerInit ==
  /\ worktrees = [w \in {} |-> 0]
  /\ scopes = [s \in {} |-> 0]
  /\ processedEvents = {}
  /\ mutationEvents = {}
  /\ history = [w \in Worktrees |-> [r \in {} |-> 0]]

InitialRow(tree) ==
  [cursor |-> tree, revision |-> 0, failure |-> "Healthy", rebaseline |-> FALSE]

\* The first boundary of a worktree inserts its row; a later one finds it.
InitializeWorktree(w, tree) ==
  /\ w \notin DOMAIN worktrees
  /\ worktrees' = Put(worktrees, w, InitialRow(tree))
  /\ history' = Record(w, "Initialize", InitialRow(tree), scopes, TRUE)
  /\ UNCHANGED <<scopes, processedEvents, mutationEvents>>

\* The worktree and the actor of a scope are fixed by its first registration.
RegisterScope(s, w, actor) ==
  /\ w \in DOMAIN worktrees
  /\ s \notin DOMAIN scopes
  /\ scopes' = Put(scopes, s, [status |-> "NeverSeen", actor |-> actor, worktree |-> w])
  /\ UNCHANGED <<worktrees, processedEvents, mutationEvents, history>>

\* Everything an accepted plan changes, in one durable transaction.
ApplyPlan(plan, w) ==
  LET b == plan.boundary
      row == worktrees[w]
      next == NextRow(plan, row, scopes)
  IN  /\ worktrees' = [worktrees EXCEPT ![w] = next]
      /\ scopes' = NextScopes(b, scopes)
      /\ processedEvents' = NextProcessed(b, processedEvents)
      /\ mutationEvents' = mutationEvents \cup NewEvidence(plan, row, scopes, w, FALSE)
      /\ history' = Record(w, b.kind, next, NextScopes(b, scopes),
                           MovesCursor(plan, row, scopes))

\* A boundary that would change nothing durable is not a step of the ledger.
ApplyBoundary(b, tree) ==
  /\ Resolvable(b, worktrees, scopes)
  /\ ~Replayed(b, processedEvents)
  /\ LET w == BoundaryWorktree(b, scopes)
         plan == MakePlan(b, worktrees[w], tree)
     IN  /\ WouldAdvance(plan, scopes)
         /\ HasHeadroom(worktrees[w])
         /\ ApplyPlan(plan, w)

Taint(w) ==
  /\ w \in DOMAIN worktrees
  /\ ~Unhealthy(worktrees[w])
  /\ HasHeadroom(worktrees[w])
  /\ worktrees' = [worktrees EXCEPT ![w] = TaintRow(@)]
  /\ history' = Record(w, "Taint", TaintRow(worktrees[w]), scopes, FALSE)
  /\ UNCHANGED <<scopes, processedEvents, mutationEvents>>

Abandon(s) ==
  /\ s \in DOMAIN scopes
  /\ scopes[s].status = "Active"
  /\ LET w == scopes[s].worktree
         row == AbandonRow(worktrees[w])
     IN  /\ HasHeadroom(worktrees[w])
         /\ worktrees' = [worktrees EXCEPT ![w] = row]
         /\ scopes' = AbandonAll(scopes, {s})
         /\ history' = Record(w, "Abandon", row, AbandonAll(scopes, {s}), FALSE)
  /\ UNCHANGED <<processedEvents, mutationEvents>>

\* tainted: an external fact, kept outside the database, that an interval of
\* the worktree was lost.
Recover(w, tree, tainted) ==
  /\ w \in DOMAIN worktrees
  /\ NeedsRecovery(worktrees[w], tainted)
  /\ HasHeadroom(worktrees[w])
  /\ LET row == RecoverRow(worktrees[w], tree)
         kept == RecoverScopes(worktrees[w], scopes, w, tainted)
     IN  /\ worktrees' = [worktrees EXCEPT ![w] = row]
         /\ scopes' = kept
         /\ history' = Record(w, "Recover", row, kept, TRUE)
  /\ UNCHANGED <<processedEvents, mutationEvents>>

LedgerNext ==
  \/ \E w \in Worktrees, tree \in Trees : InitializeWorktree(w, tree)
  \/ \E s \in Scopes, w \in Worktrees, actor \in Actors : RegisterScope(s, w, actor)
  \/ \E b \in Boundary, tree \in Trees : ApplyBoundary(b, tree)
  \/ \E w \in Worktrees : Taint(w)
  \/ \E s \in Scopes : Abandon(s)
  \/ \E w \in Worktrees, tree \in Trees, tainted \in BOOLEAN : Recover(w, tree, tainted)

LedgerSpec == LedgerInit /\ [][LedgerNext]_ledgerVars

-----------------------------------------------------------------------------
(* Properties.                                                             *)

\* Durable state is well formed, and a row's revision counts its history.
LedgerTypeOK ==
  /\ DOMAIN worktrees \subseteq Worktrees /\ worktrees \in [DOMAIN worktrees -> WorktreeState]
  /\ DOMAIN scopes \subseteq Scopes /\ scopes \in [DOMAIN scopes -> ScopeState]
  /\ \A s \in DOMAIN scopes : scopes[s].worktree \in DOMAIN worktrees
  /\ processedEvents \subseteq EventKey
  /\ \A e \in mutationEvents : e \in MutationEvent
  /\ DOMAIN history = Worktrees
  /\ \A w \in Worktrees :
       history[w] \in [IF w \in DOMAIN worktrees THEN 0..worktrees[w].revision ELSE {} -> Entry]

\* Each piece of evidence is the cursor movement of one revision: it starts
\* where the revision before it left the cursor, ends where its own revision
\* put it, and names the scopes that were live in between.  Evidence that
\* overlapped, skipped or repeated an interval would break it.
EvidenceIsCursorMovement ==
  \A e \in mutationEvents :
    LET h == history[e.worktree]
    IN  /\ e.revision \in DOMAIN h /\ e.revision - 1 \in DOMAIN h
        /\ h[e.revision - 1].cursor = e.before
        /\ h[e.revision - 1].live = e.active
        /\ h[e.revision].cursor = e.after
        /\ e.before # e.after

\* The cursor never moves silently: a revision that moved it either recorded
\* evidence or is a recovery, whose interval is deliberately given up.
CursorMovesAreRecorded ==
  \A w \in DOMAIN worktrees : \A r \in 1..worktrees[w].revision :
    history[w][r].cursor # history[w][r - 1].cursor
      => \/ history[w][r].step = "Recover"
         \/ \E e \in mutationEvents : e.worktree = w /\ e.revision = r

\* The last revision before r whose step captured worktree w.
LastSeen(w, r) ==
  CHOOSE k \in 0..(r - 1) :
    history[w][k].seen /\ \A j \in (k + 1)..(r - 1) : ~history[w][j].seen

\* Positive evidence covers everything that happened since the worktree was
\* last captured, so the set of live scopes must not have changed in that
\* time: otherwise a scope that ended unobserved (by an abandonment) could
\* have its changes credited to the scopes that remain.
PositiveEvidenceHasOneLiveSet ==
  \A e \in mutationEvents : Positive(e.attribution) =>
    \A r \in LastSeen(e.worktree, e.revision)..(e.revision - 1) :
      history[e.worktree][r].live = e.active

\* No evidence between a failed snapshot and the recovery that follows it is
\* positive, and none at all is recorded between an abandonment and its
\* rebaseline.
RecoveryPrecedesTrust ==
  \A e \in mutationEvents : \A r \in 0..(e.revision - 1) :
    LET recovered == \E k \in r..(e.revision - 1) : history[e.worktree][k].step = "Recover"
    IN  /\ history[e.worktree][r].step = "Taint" => recovered \/ ~Positive(e.attribution)
        /\ history[e.worktree][r].step = "Abandon" => recovered

\* A harness that cannot vouch for a change before its turn ends (Codex,
\* OpenCode, Pi) takes part in positive evidence only at the close of its own
\* scope, and that scope must have been seen live before.
ConfirmedAtClose ==
  \A e \in mutationEvents : Positive(e.attribution) =>
    /\ e.active # {}
    /\ \A s \in e.active : RequiresConfirmation(scopes[s].actor) => Confirms(e.boundary, s)
    /\ e.boundary.kind = "Close" => e.boundary.scope \in e.active

\* A hook delivery leaves at most one piece of evidence however often the
\* harness repeats it.
DeliveryCountsOnce ==
  \A e, f \in mutationEvents :
    IsHook(e.boundary) /\ IsHook(f.boundary) /\ Key(e.boundary) = Key(f.boundary) => e = f

\* A scope never moves to another worktree or actor, and its life has one
\* direction: once ended it cannot be started, closed or abandoned again.
StatusRank(status) ==
  CASE status = "NeverSeen" -> 0 [] status = "Active" -> 1 [] OTHER -> 2

ScopeLifeIsOneWay ==
  [][\A s \in DOMAIN scopes :
       /\ s \in DOMAIN scopes'
       /\ scopes'[s].worktree = scopes[s].worktree
       /\ scopes'[s].actor = scopes[s].actor
       /\ \/ scopes'[s].status = scopes[s].status
          \/ StatusRank(scopes'[s].status) > StatusRank(scopes[s].status)]_ledgerVars

\* What belongs to worktree w.
DurableOf(w) ==
  << IF w \in DOMAIN worktrees THEN <<worktrees[w]>> ELSE <<>>,
     {<<s, scopes[s].status>> : s \in {x \in DOMAIN scopes : scopes[x].worktree = w}}
        \ ({s \in DOMAIN scopes : scopes[s].worktree = w} \X {"NeverSeen"}),
     {e \in mutationEvents : e.worktree = w} >>

\* A boundary, failure or recovery of one worktree leaves every other one
\* (its row, its started scopes and its evidence) as it was.
WorktreesAreIndependent ==
  [][\A v, w \in Worktrees :
       DurableOf(v)' # DurableOf(v) /\ DurableOf(w)' # DurableOf(w) => v = w]_ledgerVars
=============================================================================
