---------------------------- MODULE MutationStore ---------------------------
(***************************************************************************)
(* The store behind the cursor and the loops that drive it: several        *)
(* clients share the repository's Agent Trace database and nothing else    *)
(* (the worktree lock is added by MutationRuntime).  A client loads a      *)
(* projection with separate SELECTs, lets the kernel compute on it in      *)
(* memory, and writes the difference in one transaction guarded only by    *)
(* the revision of the worktree row; when the guard fails it starts over,  *)
(* a bounded number of times.                                              *)
(*                                                                         *)
(* One action is one statement, or one transaction, together with the      *)
(* local computation that follows it.  A client's pc names the statement   *)
(* it is about to issue; "ok", "error" and "recoveryRequired" are what the *)
(* operation returns to its caller.                                        *)
(***************************************************************************)
EXTENDS MutationKernel

CONSTANTS
  Clients,              \* processes with the database open
  Requests,             \* what clients are asked to do: a job, and whether
                        \* the caller inherited an external taint
  MaxCasRetryAttempts   \* MAX_CAS_RETRY_ATTEMPTS, 5 in the code

ASSUME RetryBound == MaxCasRetryAttempts \in Nat \ {0}

VARIABLES
  worktrees, scopes, processedEvents, mutationEvents, history,
  client                \* by client, its local state

durableVars == <<worktrees, scopes, processedEvents, mutationEvents, history>>
storeVars == <<worktrees, scopes, processedEvents, mutationEvents, history, client>>

Ledger == INSTANCE MutationLedger WITH
  worktrees <- worktrees, scopes <- scopes, processedEvents <- processedEvents,
  mutationEvents <- mutationEvents, history <- history

-----------------------------------------------------------------------------
(* Operations and local state.                                             *)

\* What a client is asked to do: coordinate a boundary for which it captured
\* `tree`, taint after a failed capture, or abandon a scope.
CoordinateJob ==
  [op : {"Coordinate"}, worktree : Worktrees, boundary : HookBoundary, actor : Actors, tree : Trees]
    \cup UNION {[op : {"Coordinate"}, worktree : {w}, tree : Trees,
                 boundary : [kind : {"Flush"}, worktree : {w}]] : w \in Worktrees}
TaintJob == [op : {"Taint"}, worktree : Worktrees]
AbandonJob == [op : {"Abandon"}, worktree : Worktrees, scope : Scopes]
Job == CoordinateJob \cup TaintJob \cup AbandonJob

\* Only a coordinated boundary makes use of an inherited taint.
ASSUME KnownRequests ==
  \A r \in Requests : r[1] \in Job /\ r[2] \in BOOLEAN /\ (r[2] => r[1].op = "Coordinate")

Statements == {"initialize", "register", "findScope", "loadRow", "loadActive",
               "loadReferenced", "loadProcessed", "recover", "commit"}
Results == {"ok", "error", "recoveryRequired"}

Idle == [pc |-> "idle"]
NoRows == [x \in {} |-> 0]

\* base and recovered are auxiliary: the revision first loaded and whether
\* the client itself advanced it since.
Started(job, pending) ==
  [pc |-> CASE job.op = "Coordinate" -> "initialize"
            [] job.op = "Taint" -> "loadRow"
            [] job.op = "Abandon" -> "findScope",
   job |-> job, pending |-> pending, tries |-> 0,
   row |-> NoRows, scopes |-> NoRows, processed |-> {},
   base |-> -1, recovered |-> FALSE]

At(c, pc) == client[c].pc = pc
Goto(c, pc) == client' = [client EXCEPT ![c].pc = pc]

\* An operation returns; its local state goes, but for the job it has done.
End(c, result) ==
  client' = [client EXCEPT ![c] =
               IF result = "ok" THEN [pc |-> "ok", job |-> @.job, pending |-> @.pending]
               ELSE [pc |-> result]]

IsHookJob(job) == job.op = "Coordinate" /\ IsHook(job.boundary)

\* The scope whose row the projection must hold whatever its status.
Referenced(job) ==
  CASE IsHookJob(job) -> {job.boundary.scope}
    [] job.op = "Abandon" -> {job.scope}
    [] OTHER -> {}

StoreInit == Ledger!LedgerInit /\ client = [c \in Clients |-> Idle]

Begin(c, job, pending) ==
  /\ At(c, "idle")
  /\ client' = [client EXCEPT ![c] = Started(job, pending)]
  /\ UNCHANGED durableVars

-----------------------------------------------------------------------------
(* Registration: idempotent inserts.                                       *)

InitializeRow(c) ==
  LET job == client[c].job
  IN  /\ At(c, "initialize")
      /\ Goto(c, IF IsHook(job.boundary) THEN "register" ELSE "loadRow")
      /\ \/ Ledger!InitializeWorktree(job.worktree, job.tree)
         \/ job.worktree \in DOMAIN worktrees /\ UNCHANGED durableVars

\* The scope's identity is checked against the row that is there afterwards.
RegisterRow(c) ==
  LET job == client[c].job
      s == job.boundary.scope
      agrees == scopes[s].worktree = job.worktree /\ scopes[s].actor = job.actor
  IN  /\ At(c, "register")
      /\ \/ /\ Ledger!RegisterScope(s, job.worktree, job.actor)
            /\ Goto(c, "loadRow")
         \/ /\ s \in DOMAIN scopes
            /\ IF agrees THEN Goto(c, "loadRow") ELSE End(c, "error")
            /\ UNCHANGED durableVars

\* abandon_scope looks its scope up before it loads the projection.
FindScope(c) ==
  LET job == client[c].job
  IN  /\ At(c, "findScope")
      /\ IF job.scope \notin DOMAIN scopes THEN End(c, "recoveryRequired")
         ELSE IF scopes[job.scope].worktree # job.worktree THEN End(c, "error")
         ELSE Goto(c, "loadRow")
      /\ UNCHANGED durableVars

-----------------------------------------------------------------------------
(* load_worktree: a projection read by several SELECTs.                    *)

MissingRowResult(job) == IF job.op = "Abandon" THEN "recoveryRequired" ELSE "error"

LoadRow(c) ==
  LET w == client[c].job.worktree
  IN  /\ At(c, "loadRow")
      /\ IF w \in DOMAIN worktrees
         THEN client' = [client EXCEPT
                           ![c].pc = "loadActive", ![c].row = worktrees[w],
                           ![c].base = IF @ = -1 THEN worktrees[w].revision ELSE @]
         ELSE End(c, MissingRowResult(client[c].job))
      /\ UNCHANGED durableVars

ScopeRows(names) == [s \in names |-> scopes[s]]

\* What the kernel decides on a complete projection, before any statement.
AfterLoad(me) ==
  LET job == me.job
  IN  CASE job.op = "Coordinate" -> IF NeedsRecovery(me.row, me.pending) THEN "recover" ELSE "commit"
        [] job.op = "Taint" -> "commit"
        [] job.op = "Abandon" ->
             CASE me.scopes[job.scope].status = "NeverSeen" -> "recoveryRequired"
               [] me.scopes[job.scope].status = "Active" -> "commit"
               [] OTHER -> "ok"

Loaded(c, me) ==
  IF AfterLoad(me) \in Results THEN End(c, AfterLoad(me))
  ELSE client' = [client EXCEPT ![c] = [me EXCEPT !.pc = AfterLoad(me)]]

LoadActive(c) ==
  LET job == client[c].job
      active == LiveScopesOn(scopes, job.worktree)
      me == [client[c] EXCEPT !.scopes = ScopeRows(active)]
  IN  /\ At(c, "loadActive")
      /\ IF Referenced(job) = {} THEN Loaded(c, me)
         ELSE client' = [client EXCEPT ![c] = [me EXCEPT !.pc = "loadReferenced"]]
      /\ UNCHANGED durableVars

\* Only a scope that was not among the active ones is read by its name.
LoadReferenced(c) ==
  LET job == client[c].job
      missing == Referenced(job) \ DOMAIN client[c].scopes
      me == [client[c] EXCEPT !.scopes =
               [s \in DOMAIN @ \cup missing |-> IF s \in missing THEN scopes[s] ELSE @[s]]]
  IN  /\ At(c, "loadReferenced")
      /\ IF IsHookJob(job)
         THEN client' = [client EXCEPT ![c] = [me EXCEPT !.pc = "loadProcessed"]]
         ELSE Loaded(c, me)
      /\ UNCHANGED durableVars

LoadProcessed(c) ==
  /\ At(c, "loadProcessed")
  /\ Loaded(c, [client[c] EXCEPT !.processed = {Key(client[c].job.boundary)} \cap processedEvents])
  /\ UNCHANGED durableVars

-----------------------------------------------------------------------------
(* The durable transition: the difference of two projections, and its CAS. *)

StatusChanges(before, after) ==
  [s \in {x \in DOMAIN before : before[x].status # after[x].status} |-> after[s].status]

Transition(me, step, seen, row, nextScopes, keys, evidence) ==
  [expected |-> me.row.revision, row |-> row, statuses |-> StatusChanges(me.scopes, nextScopes),
   keys |-> keys, evidence |-> evidence, step |-> step, seen |-> seen]

RecoverTransition(me) ==
  Transition(me, "Recover", TRUE, RecoverRow(me.row, me.job.tree),
             RecoverScopes(me.row, me.scopes, me.job.worktree, me.pending), {}, {})

BoundaryTransition(me) ==
  LET plan == MakePlan(me.job.boundary, me.row, me.job.tree)
  IN  Transition(me, plan.boundary.kind, MovesCursor(plan, me.row, me.scopes),
                 NextRow(plan, me.row, me.scopes), NextScopes(plan.boundary, me.scopes),
                 NextProcessed(plan.boundary, me.processed) \ me.processed,
                 NewEvidence(plan, me.row, me.scopes, me.job.worktree, FALSE))

CommitTransition(me) ==
  CASE me.job.op = "Coordinate" -> BoundaryTransition(me)
    [] me.job.op = "Taint" -> Transition(me, "Taint", FALSE, TaintRow(me.row), me.scopes, {}, {})
    [] me.job.op = "Abandon" ->
         Transition(me, "Abandon", FALSE, AbandonRow(me.row),
                    AbandonAll(me.scopes, {me.job.scope}), {}, {})

\* Whether the kernel's result differs from the projection at all.
HasTransition(me) ==
  CASE me.job.op = "Coordinate" ->
         LET plan == MakePlan(me.job.boundary, me.row, me.job.tree)
         IN  /\ Accepted(plan, me.row, me.scopes, FALSE, me.processed)
             /\ WouldAdvance(plan, me.scopes)
    [] me.job.op = "Taint" -> ~Unhealthy(me.row) /\ HasHeadroom(me.row)
    [] me.job.op = "Abandon" -> HasHeadroom(me.row)

\* How an operation ends whose last step changes nothing: a taint succeeds
\* when the worktree is already unhealthy, an abandonment has no such way.
ResultWithoutTransition(me) ==
  CASE me.job.op = "Coordinate" -> "ok"
    [] me.job.op = "Taint" -> "error"
    [] me.job.op = "Abandon" -> "error"

\* Mutant of GuardHolds: UPDATE ... WHERE worktree_id = ?
Unguarded(w, t) == TRUE

\* UPDATE ... WHERE worktree_id = ? AND revision = ?
GuardHolds(w, t) == worktrees[w].revision = t.expected

ApplyTransition(w, t) ==
  LET nextScopes == [s \in DOMAIN scopes |->
                       IF s \in DOMAIN t.statuses
                       THEN [scopes[s] EXCEPT !.status = t.statuses[s]] ELSE scopes[s]]
  IN  /\ worktrees' = [worktrees EXCEPT ![w] = t.row]
      /\ scopes' = nextScopes
      /\ processedEvents' = processedEvents \cup t.keys
      /\ mutationEvents' = mutationEvents \cup t.evidence
      /\ history' = Ledger!Record(w, t.step, t.row, nextScopes, t.seen)

\* A lost race: reload from the start of the loop, or give up.
AfterConflict(me) ==
  [me EXCEPT !.tries = @ + 1, !.row = NoRows, !.scopes = NoRows, !.processed = {},
             !.pc = IF me.job.op = "Abandon" THEN "findScope" ELSE "loadRow"]

Conflict(c) ==
  /\ IF client[c].tries + 1 = MaxCasRetryAttempts THEN End(c, "error")
     ELSE client' = [client EXCEPT ![c] = AfterConflict(@)]
  /\ UNCHANGED durableVars

\* Mutant of Recovered: the boundary goes on with the row from before.
RecoveredStale(me) == [me EXCEPT !.pc = "commit", !.pending = FALSE, !.recovered = TRUE]

\* The projection after an applied recovery, on which the boundary goes on.
Recovered(me) ==
  [me EXCEPT !.pc = "commit", !.pending = FALSE, !.recovered = TRUE,
             !.row = RecoverRow(me.row, me.job.tree),
             !.scopes = RecoverScopes(me.row, me.scopes, me.job.worktree, me.pending)]

CommitRecovery(c) ==
  LET me == client[c]
      t == RecoverTransition(me)
  IN  /\ At(c, "recover")
      /\ \/ ~HasHeadroom(me.row) /\ End(c, "error") /\ UNCHANGED durableVars
         \/ /\ HasHeadroom(me.row)
            /\ GuardHolds(me.job.worktree, t)
            /\ ApplyTransition(me.job.worktree, t)
            /\ client' = [client EXCEPT ![c] = Recovered(me)]
         \/ HasHeadroom(me.row) /\ ~GuardHolds(me.job.worktree, t) /\ Conflict(c)

CommitOperation(c) ==
  LET me == client[c]
      t == CommitTransition(me)
  IN  /\ At(c, "commit")
      /\ \/ ~HasTransition(me) /\ End(c, ResultWithoutTransition(me)) /\ UNCHANGED durableVars
         \/ /\ HasTransition(me)
            /\ GuardHolds(me.job.worktree, t)
            /\ ApplyTransition(me.job.worktree, t)
            /\ End(c, IF me.job.op = "Taint" THEN "error" ELSE "ok")
         \/ HasTransition(me) /\ ~GuardHolds(me.job.worktree, t) /\ Conflict(c)

\* Any statement may fail, before it takes effect or after; the client then
\* knows nothing of the outcome and returns the error.
FailStatement(c) ==
  /\ client[c].pc \in Statements \cup {"ok"}
  /\ End(c, "error")
  /\ UNCHANGED durableVars

StoreStep(c) ==
  \/ InitializeRow(c) \/ RegisterRow(c) \/ FindScope(c)
  \/ LoadRow(c) \/ LoadActive(c) \/ LoadReferenced(c) \/ LoadProcessed(c)
  \/ CommitRecovery(c) \/ CommitOperation(c)

Return(c) ==
  /\ client[c].pc \in Results
  /\ client' = [client EXCEPT ![c] = Idle]
  /\ UNCHANGED durableVars

StoreNext ==
  \E c \in Clients :
    \/ \E r \in Requests : Begin(c, r[1], r[2])
    \/ StoreStep(c)
    \/ FailStatement(c)
    \/ Return(c)

StoreSpec == StoreInit /\ [][StoreNext]_storeVars

-----------------------------------------------------------------------------
(* Properties.                                                             *)

\* Whatever mixture of moments a projection was read from, a transition that
\* gets through the revision guard is one the ledger makes atomically: the
\* guard on one column protects the scopes and deliveries read beside it.
StoreImplementsLedger == Ledger!LedgerSpec

\* A client loses a race only to a transition that another client committed:
\* it never retries, and so never gives up, of its own making.
RetriesAreLostRaces ==
  \A c \in Clients : client[c].pc \in Statements /\ client[c].base # -1 =>
    client[c].tries + (IF client[c].recovered THEN 1 ELSE 0)
      <= worktrees[client[c].job.worktree].revision - client[c].base

\* The boundary a client reports as done was settled: its delivery is durable,
\* and no recovery is left pending that its caller believes was made.
ReportedHookIsSettled ==
  \A c \in Clients : At(c, "ok") /\ IsHookJob(client[c].job) =>
    /\ ~client[c].pending
    /\ \/ Key(client[c].job.boundary) \in processedEvents
       \/ worktrees[client[c].job.worktree].revision = MaxRevision
=============================================================================
