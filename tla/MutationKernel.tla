--------------------------- MODULE MutationKernel ---------------------------
(***************************************************************************)
(* The pure kernel of the mutation cursor: the values of                   *)
(* mutation_trace/types.rs and the decisions of mutation_trace/protocol.rs *)
(* that every other module shares.  There are no variables here: an        *)
(* operator takes the durable values it reads as parameters, so that the   *)
(* same text serves the state machine (MutationProtocol), the atomic       *)
(* specification (MutationLedger) and a client that computes on a private  *)
(* projection of the database (MutationStore).                             *)
(*                                                                         *)
(* A map that the code keeps in a BTreeMap or a table is a function whose  *)
(* domain is the set of keys present.  The redundant bit `tainted` of a    *)
(* worktree row is not kept: the code writes it with failure_kind at every *)
(* site and refuses a row where the two disagree.                          *)
(***************************************************************************)
EXTENDS Integers, FiniteSets

CONSTANTS
  Worktrees,    \* worktree identities
  Scopes,       \* AI scope (session) identities
  EventIds,     \* hook delivery identities; one is replayed with its scope
  Trees,        \* identities of captured snapshots
  Actors,       \* the harnesses that own scopes, a subset of ActorKind
  MaxRevision   \* the largest value of the u64 revision counter

ActorKind == {"ClaudeCode", "Codex", "OpenCode", "Pi"}

ASSUME RevisionBound == MaxRevision \in Nat
ASSUME KnownActors == Actors \subseteq ActorKind

HookKind == {"Start", "Advance", "Close"}

HookBoundary == [kind : HookKind, scope : Scopes, event : EventIds]
FlushBoundary == [kind : {"Flush"}, worktree : Worktrees]
Boundary == HookBoundary \cup FlushBoundary

WorktreeState ==
  [cursor : Trees, revision : 0..MaxRevision,
   failure : {"Healthy", "SnapshotFailure"}, rebaseline : BOOLEAN]

ScopeStatus == {"NeverSeen", "Active", "Closed", "Abandoned"}
ScopeState == [status : ScopeStatus, actor : Actors, worktree : Worktrees]
EventKey == Scopes \X EventIds

\* An AttemptState without its status: what a boundary was evaluated against.
Plan == [boundary : Boundary, expected : 0..MaxRevision, before : Trees, after : Trees]

Attribution ==
  [kind : {"IneligibleUnscoped", "AiContended"}] \cup [kind : {"AiExclusive"}, scope : Scopes]

MutationEvent ==
  [worktree : Worktrees, revision : 0..MaxRevision, before : Trees, after : Trees,
   active : SUBSET Scopes, failure : {"Healthy", "SnapshotFailure"},
   attribution : Attribution, boundary : Boundary]

-----------------------------------------------------------------------------
\* Maps with a growing domain.
Put(f, k, v) == [x \in DOMAIN f \cup {k} |-> IF x = k THEN v ELSE f[x]]

IsHook(b) == b.kind # "Flush"
Key(b) == <<b.scope, b.event>>

\* A hook names its worktree only through its scope's durable row.
Resolvable(b, worktrees, scopes) ==
  /\ IsHook(b) => b.scope \in DOMAIN scopes
  /\ (IF IsHook(b) THEN scopes[b.scope].worktree ELSE b.worktree) \in DOMAIN worktrees

BoundaryWorktree(b, scopes) == IF IsHook(b) THEN scopes[b.scope].worktree ELSE b.worktree

LiveScopesOn(scopes, w) ==
  {s \in DOMAIN scopes : scopes[s].worktree = w /\ scopes[s].status = "Active"}

-----------------------------------------------------------------------------
(* Attribution of a change, read from the state before the boundary.       *)

Ineligible == [kind |-> "IneligibleUnscoped"]
Positive(attribution) == attribution # Ineligible

\* Mutant of Unhealthy: a failed snapshot does not count.
AlwaysHealthy(row) == FALSE

Unhealthy(row) == row.failure # "Healthy"

AttributionFor(row, scopes, w, tainted) ==
  LET live == LiveScopesOn(scopes, w)
  IN  IF Unhealthy(row) \/ row.rebaseline \/ tainted \/ live = {} THEN Ineligible
      ELSE IF \E s \in live : live = {s}
           THEN [kind |-> "AiExclusive", scope |-> CHOOSE s \in live : live = {s}]
           ELSE [kind |-> "AiContended"]

RequiresConfirmation(actor) == actor \in {"Codex", "OpenCode", "Pi"}

Confirms(b, s) == b.kind = "Close" /\ b.scope = s

\* Mutant of HasUnconfirmedScope: one confirmed scope vouches for all.
HasOnlyUnconfirmedScopes(scopes, w, b) ==
  /\ LiveScopesOn(scopes, w) # {}
  /\ \A s \in LiveScopesOn(scopes, w) :
       RequiresConfirmation(scopes[s].actor) /\ ~Confirms(b, s)

HasUnconfirmedScope(scopes, w, b) ==
  \E s \in LiveScopesOn(scopes, w) :
    RequiresConfirmation(scopes[s].actor) /\ ~Confirms(b, s)

ClosesNeverSeen(scopes, b) == b.kind = "Close" /\ scopes[b.scope].status = "NeverSeen"

AttributionForBoundary(row, scopes, w, tainted, b) ==
  IF ClosesNeverSeen(scopes, b) \/ HasUnconfirmedScope(scopes, w, b)
  THEN Ineligible
  ELSE AttributionFor(row, scopes, w, tainted)

-----------------------------------------------------------------------------
(* Evaluation and effect of a prepared boundary.                           *)

\* Mutant of HasHeadroom: off by one.
HasRoomForOneMore(row) == row.revision <= MaxRevision

HasHeadroom(row) == row.revision < MaxRevision

MakePlan(b, row, tree) ==
  [boundary |-> b, expected |-> row.revision, before |-> row.cursor, after |-> tree]

\* Mutant of Replayed: only a repeated Start is recognized.
ReplayedStart(b, processed) == b.kind = "Start" /\ Key(b) \in processed

\* A flush has no delivery identity, so it is never a replay.
Replayed(b, processed) == IsHook(b) /\ Key(b) \in processed

\* Mutant of Fresh: the baseline is not compared.
FreshByReplay(plan, row, tainted, processed) ==
  ~tainted /\ ~Replayed(plan.boundary, processed)

\* The baseline of the plan is still the worktree's, and no delivery repeats.
Fresh(plan, row, tainted, processed) ==
  /\ ~tainted
  /\ plan.expected = row.revision
  /\ plan.before = row.cursor
  /\ ~Replayed(plan.boundary, processed)

\* Mutant of Observes: a Start revives a scope that has ended.
ObservesRestart(b, scopes) ==
  \/ b.kind \in {"Flush", "Start"}
  \/ b.kind = "Advance" /\ scopes[b.scope].status = "Active"
  \/ b.kind = "Close" /\ scopes[b.scope].status \in {"NeverSeen", "Active"}

\* Whether the boundary applies to its scope in the status the scope has.
Observes(b, scopes) ==
  \/ b.kind = "Flush"
  \/ b.kind = "Start" /\ scopes[b.scope].status = "NeverSeen"
  \/ b.kind = "Advance" /\ scopes[b.scope].status = "Active"
  \/ b.kind = "Close" /\ scopes[b.scope].status \in {"NeverSeen", "Active"}

TreeChanged(plan, scopes) == Observes(plan.boundary, scopes) /\ plan.before # plan.after

\* Mutant of WouldAdvance: a hook counts only when it observes a change.
WouldAdvanceOnChange(plan, scopes) == TreeChanged(plan, scopes)

WouldAdvance(plan, scopes) == IsHook(plan.boundary) \/ TreeChanged(plan, scopes)

Accepted(plan, row, scopes, tainted, processed) ==
  /\ Fresh(plan, row, tainted, processed)
  /\ WouldAdvance(plan, scopes) => HasHeadroom(row)

\* Mutant of MovesCursor: a rebaseline that is due is ignored.
MovesCursorInGap(plan, row, scopes) == Observes(plan.boundary, scopes)

\* Mutant of MovesCursor: a flush leaves the cursor behind.
MovesCursorByHook(plan, row, scopes) ==
  IsHook(plan.boundary) /\ Observes(plan.boundary, scopes) /\ ~row.rebaseline

\* While a rebaseline is due the cursor stays where the gap began.
MovesCursor(plan, row, scopes) == Observes(plan.boundary, scopes) /\ ~row.rebaseline

\* Mutant of NextRow: a hook that observes no change costs no revision.
NextRowOnChange(plan, row, scopes) ==
  IF TreeChanged(plan, scopes) /\ MovesCursor(plan, row, scopes)
  THEN [row EXCEPT !.revision = @ + 1, !.cursor = plan.after]
  ELSE row

NextRow(plan, row, scopes) ==
  IF WouldAdvance(plan, scopes)
  THEN [row EXCEPT !.revision = @ + 1,
                   !.cursor = IF MovesCursor(plan, row, scopes) THEN plan.after ELSE @]
  ELSE row

NextScopes(b, scopes) ==
  IF b.kind \in {"Start", "Close"} /\ Observes(b, scopes)
  THEN [scopes EXCEPT ![b.scope].status = IF b.kind = "Start" THEN "Active" ELSE "Closed"]
  ELSE scopes

NextProcessed(b, processed) == IF IsHook(b) THEN processed \cup {Key(b)} ELSE processed

EvidenceOf(plan, row, scopes, w, tainted) ==
  [worktree |-> w, revision |-> row.revision + 1,
   before |-> plan.before, after |-> plan.after,
   active |-> LiveScopesOn(scopes, w), failure |-> row.failure,
   attribution |-> AttributionForBoundary(row, scopes, w, tainted, plan.boundary),
   boundary |-> plan.boundary]

\* The evidence the boundary materializes: one event, or none.
NewEvidence(plan, row, scopes, w, tainted) ==
  IF TreeChanged(plan, scopes) /\ ~row.rebaseline
  THEN {EvidenceOf(plan, row, scopes, w, tainted)}
  ELSE {}

-----------------------------------------------------------------------------
(* The other transitions of a worktree.                                    *)

TaintRow(row) == [row EXCEPT !.revision = @ + 1, !.failure = "SnapshotFailure"]

\* Mutant of AbandonRow: no rebaseline is asked for.
AbandonRowTrusting(row) == [row EXCEPT !.revision = @ + 1]

AbandonRow(row) == [row EXCEPT !.revision = @ + 1, !.rebaseline = TRUE]

AbandonAll(scopes, gone) ==
  [s \in DOMAIN scopes |->
     IF s \in gone THEN [scopes[s] EXCEPT !.status = "Abandoned"] ELSE scopes[s]]

NeedsRecovery(row, tainted) == tainted \/ Unhealthy(row) \/ row.rebaseline

RecoverRow(row, tree) ==
  [cursor |-> tree, revision |-> row.revision + 1, failure |-> "Healthy", rebaseline |-> FALSE]

\* Mutant of RecoverScopes: an external taint is not told from a rebaseline.
RecoverScopesOfRow(row, scopes, w, tainted) ==
  IF Unhealthy(row) THEN AbandonAll(scopes, LiveScopesOn(scopes, w)) ELSE scopes

\* A failed or lost interval ends every scope that could have acted in it; a
\* rebaseline after an abandonment keeps the scopes that are still live.
RecoverScopes(row, scopes, w, tainted) ==
  IF Unhealthy(row) \/ tainted THEN AbandonAll(scopes, LiveScopesOn(scopes, w)) ELSE scopes
=============================================================================
