# Verification of Shared Context Engineering

`sce` is a command-line tool that AI coding harnesses (Claude Code, Codex,
OpenCode, Pi) call through hooks. It records what the harnesses do, derives which
lines of a commit an AI wrote, and uploads what it recorded. Most of the program
is sequential: parse a payload, write a row, render a report. The part that
carries its hard logic is the **mutation cursor**: short-lived hook processes, run
by several harnesses at once on one worktree, capture the worktree as Git trees
and turn the difference of two captures into *evidence* that an interval of
changes belongs to one AI scope (`AiExclusive`), to several (`AiContended`) or to
none that can be named (`IneligibleUnscoped`). Around it stand the adapters of the
harnesses, the refs that keep the captured trees alive, the attribution of
committed lines, and the upload with its credentials. Their processes share
databases, locks and files, and any of them may be killed at any point. This
directory models these parts in TLA+, checks them with TLC and proves theorems
about them with TLAPS.

All paths below are relative to the repository; `services/` stands for
`cli/src/services/`, `mutation_trace/` and `hooks/` for the directories in it.

## 1. The system

### Parts, their state and their operations

| Part | State it keeps | Operations | Modelled in |
|---|---|---|---|
| Cursor kernel, `mutation_trace/protocol.rs`, `types.rs` | `ProtocolState`: worktree rows (cursor tree, revision, failure, rebaseline), scopes, processed deliveries, attempts, external taints, evidence; all values, no I/O | `prepare`, `commit`, `taint`, `database_failure`, `abandon`, `recover` | MutationKernel, MutationLedger, MutationProtocol |
| Store, `mutation_trace/store.rs` | the durable rows | `initialize_worktree`, `register_scope`, `load_worktree`, `DurableTransition::between`, `commit` (one CAS on the revision); paging, pruning, provenance | MutationStore; pruning in MutationRefs, paging in Attribution |
| Coordinator, `mutation_trace/runtime/coordinator.rs` | one call's locals | `coordinate` (Start, Advance, Close, Flush): protect, capture and pin, register, load, recover, commit, retry; taint after a failed capture | MutationStore, MutationRuntime |
| Abandonment, `runtime/scope_runtime.rs` | one call's locals | `abandon_scope` | MutationStore, MutationRuntime |
| Protection, `runtime/protected_worktree.rs`, `worktree_lock.rs`, `external_taint.rs` | lock file and its leases, marker file | acquire with a 10 s deadline, arm, complete, drop, lend | MutationRuntime, GuardedShell, MutationRefs |
| Guarded shell, `runtime/external_mutation_guard.rs` | the lock inherited by a process group, a lifetime pipe | arm, spawn, supervise, recover, release without an unlock | GuardedShell |
| Ingress, `hooks/mutation_scope.rs` | none | one JSON object to one runtime call, which outcome counts as success; the dialogue with a guard | MutationRuntime, GuardedShell |
| Claude adapter, `hooks/claude_mutation_scope/`, `mutation_scope_lock.rs` | state file per checkout: attempts, their phases, `recovery_pending`, `next_attempt_seq`; state lock | one process per hook event: barrier, write-ahead start, close, abandonment of one attempt or a batch; repair by the doctor | MutationAdapter |
| Codex, OpenCode and Pi adapters, `hooks/{codex,opencode,pi}_mutation_scope/` | the same with a recovery of three states, owners, and a boundary lock | admission, terminal events, cleanup, recovery by generation, repair | BoundaryAdapter |
| Git snapshots and ref maintenance, `runtime/git_snapshot.rs`, `ref_*.rs`, `maintenance_state.rs` | refs that pin trees; a maintenance file | capture, pin; reconcile (inventory, repair, prune, delete); advise | MutationRefs (not the advisory and its file) |
| Attribution, `mutation_trace/lineage.rs`, `runtime/mutation_attribution.rs`, the parser of `patch.rs` | none | cut at a revision, page through the events, replay them line by line | Lineage, Attribution |
| Sync, `sync/`, `agent_trace_sync/`, the readers of `agent_trace_export/` | a cursor per stream at the control plane | batches, reconciliation after a conflict or an unknown outcome | Replication, TraceSync, SyncSystem |
| Authentication, `auth.rs`, `token_storage.rs`, `auth_command/` | one encrypted row of tokens, shared by all processes | resolve, refresh with rotation, login, logout | Credentials, Login, SyncSystem |
| Database access, `services/db/`, `resilience.rs` | connection | retries on contention, transactions, key file | a transaction is one step of MutationStore |
| Everything else: commit, diff and conversation hooks, the rest of the patch algebra, bash policy, setup, doctor, configuration, telemetry, plugins, packaging | files | sequential | no |

### How they interact

A harness runs a hook; its adapter turns the event into Start, Advance, Close or
Abandon of a scope, notes in its state file what it owes the runtime, and calls
the ingress; the ingress makes one runtime call. The runtime call is the critical
path, and its order is the design:

    lock the worktree (or time out)
      look whether the external-taint marker exists      -> inherited taint
      create the marker
        open the database
        capture the worktree as a tree, pin it           -> or taint the row, fail
        insert the worktree row and the scope row if they are missing
        load row, active scopes, own scope, own delivery (four SELECTs)
          if the row is unhealthy or due for rebaseline, or the taint was
          inherited: recover, in a transaction of its own
          prepare and commit the boundary in memory, write the difference in
          one transaction guarded by the revision; start over if it lost a race
      remove the marker
    unlock

Nothing is rolled back. A process that dies leaves a released lock, the marker
and whatever it committed; the next process finds the marker and recovers. A guard
does the same around a command of the user, and lends the lock to the shell.

`sce doctor --fix` takes the same lock, but its reconciliation pass also reads the
rows of other worktrees and clones. A post-commit hook takes it for one query and
then reads events without it. `sce sync`, which every commit may start, touches
neither: it reads captured rows, and shares with every other `sce` process of the
user only the row of tokens.

### What is hard

Concurrency of hook processes and of speculative attempts; projections read by
several statements; a capture made before the state it is committed against; kills
between any two steps; a recovery that commits while its boundary fails; repeated,
late and reordered events; scopes that end unobserved; a lock that outlives its
process in a child; refs deleted from an inventory that is out of date; a window of
events loaded while it changes; batches whose answer is lost; refresh tokens that
are accepted once; a bounded counter. `PROJECT.json` lists each hazard at its line
with the properties that cover it, or the reason why none does.

### What makes each part correct

- *kernel*: evidence covers each interval once and names the scopes live in it;
  positive evidence never spans a time in which a scope ended unobserved, a
  capture failed, or a harness could not vouch for its change; ended scopes stay
  ended; a delivery counts once; the counter refuses rather than wraps.
- *store*: what gets through the revision guard is what an atomic step would do.
- *coordinator and abandonment*: what is reported as done is done; a client
  retries only after a lost race.
- *protection and guarded shell*: an interval that may have been lost is marked
  until a recovery deals with it; captures are committed in the order they were
  made; what a guarded shell changes is nobody's; every call of a hook ends.
- *adapters*: every live scope has an attempt that will settle it, or the worktree
  is marked; no attempt waits for its abandonment without the barrier; a decision
  is final; an attempt is started before its tool is believed to run.
- *refs*: a tree that a row or an event names stays pinned where it was captured.
- *attribution*: the window has no hole; what is carried is carried to the right
  line; credit is never made by what is missing.
- *sync*: the remote copy grows by the rows that come next, each once; a run that
  reports success has brought everything.
- *credentials*: the stored token stays one that the provider renews.

## 2. The modules

    MutationKernel           values and pure decisions (no variables)
      |
    MutationLedger           abstract: every boundary atomic     MutationLedgerProofs
      ^              ^
      | implements   | implements
    MutationProtocol MutationStore                               MutationProtocolProofs
                       ^ extends
                     MutationRuntime
                       ^ extends
                     GuardedShell                                GuardedShellProofs

    MutationAdapter          the Claude adapter on the runtime   MutationAdapterProofs
    BoundaryAdapter          the adapters of Codex, OpenCode
                             and Pi                              BoundaryAdapterProofs

    MutationRefs             pins, objects, rows and events of
                             several clones                      MutationRefsProofs

    Lineage                  trees, diffs, provenance of lines (no variables)
      ^ extends
    Attribution              cut, pages and replay beside
                             boundaries and the doctor           AttributionProofs

    Credentials  <- extended by -  Login, TraceSync
                                      ^ extend
    Replication  <- implements -  SyncSystem                     SyncSystemProofs

On the right stand the modules with the theorems. `MutationProtocolProofs` and
`GuardedShellProofs` instantiate `MutationLedgerProofs` for their own variables, so
that what was proved of the ledger holds of the machines that implement it. The
theorems of the store stand with those of the runtime, whose steps are its steps.

**MutationKernel** is `protocol.rs` and `types.rs` as operators that take the
rows they read as parameters, so that one text serves all three machines below.
`Fresh`, `Observes`, `WouldAdvance`, `Accepted` are the conditions of
`ResolvedAttempt::evaluate`, `NextRow`, `NextScopes`, `NextProcessed`,
`NewEvidence` the effects of `ResolvedAttempt::apply`, `RecoverRow` and
`RecoverScopes` those of `recover`.

**MutationLedger** is what the cursor promises: each boundary, failed capture,
abandonment or recovery is one atomic step on the durable state. Its variable
`history` is auxiliary: for every revision, the step that made it, the cursor and
live scopes it left, and whether it captured the worktree. Most properties of
the evidence are statements about the history.

**MutationProtocol** is `protocol.rs` as a state machine: any number of attempts
prepared at one moment and committed at a later one, with the external taint.
Each action is a whole function; where the function returns its argument
unchanged the action is disabled. `Forget` is the end of an attempt's process:
the coordinator never reuses an attempt id (a fresh UUID).

**MutationStore** is `store.rs` with the two retry loops of `coordinator.rs` and
the one of `scope_runtime.rs`. A client issues one statement per action
(`InitializeRow`, `RegisterRow`, `FindScope`, `LoadRow`, `LoadActive`,
`LoadReferenced`, `LoadProcessed`, `CommitRecovery`, `CommitOperation`), computes
on what it has read, and writes the difference `Transition` under the guard
`GuardHolds`, which compares one column. There is no lock here: the module asks
what the guard gives on its own. `FailStatement` is a statement that fails before
it took effect or, at pc `ok`, after.

**MutationRuntime** puts a process with lock and marker around a client, and the
world around the processes: the worktree is edited at any time, by its user or by
a scope's tool, and a captured tree is the number of edits it contains. `Killed`
ends a process anywhere. The marker survives, the lock does not. A call that ends
without its effect puts its worktree into the auxiliary set `lost`. What the
runtime assumes of the adapters is in `Invoke`: the calls for one scope are
sequential, a scope is started once (`context/cli/mutation-scope-runtime.md:100`),
and its tool runs only between a Start that succeeded and the Close or Abandon,
which the adapter may issue only on evidence that the tool is over.

**GuardedShell** adds processes that guard a command. `holder` is a set: the
process and, once it has spawned the shell, the process group, whose members come
(`Fork`), write (`ShellEdit`) and go (`MemberExits`) as they like. The lock is free
when the last of them is gone. `Withdraw`, `SupervisionFails`, `FinishFails` and
`GuardKilled` are the ways a guard may end early: it leaves the marker, and after
the spawn it closes its descriptor without unlocking. `ObserveEof` is the end of
the pipe, `Finish` the forced recovery through a Flush with an inherited taint.

**MutationAdapter** is the Claude adapter of one checkout. A process serves one
event; its state is the next step (`pc`), the event and the scopes it has in hand.
A transaction on the state file holds the state lock from read to rename and is one
action (`AllocateAttempt`, `MarkActive`, `MarkPendingAbandon`, `RemoveAttempt`,
`Reprove`, `ClearRecovery`), as is a read of the file without the lock (`Barrier*`,
`Found*`) and each call of the runtime (`Flush`, `Start`, `Close`, `Abandon`), which
keeps the worktree locked. Between any two of them other processes act. Each
transaction may fail (`TransactionFails`), each call may fail before, within or after
its commit, and a process may be killed anywhere (`Killed`); a hook that is killed,
unlike one that denies, does not stop Claude from running its tool. Of the runtime
the module keeps what decides about the adapter's scopes: their status and the
marker; `Recovered`, `BoundaryStatus` and `ScopeAbandoned` are the kernel's
`RecoverScopes`, `NextScopes` and `AbandonRow` seen from there. The auxiliary
`overtaken` notes that a cleanup (Stop, UserPromptSubmit, SubagentStop, SessionEnd,
WorktreeRemove) ran beside a hook of a tool it retires; nothing in the adapter
makes it wait.

**BoundaryAdapter** is the adapter of one checkout for Codex, OpenCode or Pi, which
is a constant set, so that one text has all three and their differences stand side
by side. A hook holds the boundary lock from its first look at the file to its last,
so there is one record `boundary` for who has it; hooks that wait for it are in
`asked`. `recovery` is `Clear`, `Pending` or `Flushing` with its generation. What
the harness does is `Ask`, `Die` (its hooks then become children of init, and the
owner they record is init), `Report` and the end of a tool. Pi records without the
boundary lock that a tool was executed (`MarkExecuted`).

**MutationRefs** is about several *checkouts*. A layout says which clone each belongs
to and under which worktree id it keeps its row: worktrees of one clone share
objects, the main worktrees of two clones share the row and its events. A boundary
is `Capture`, pin, initialize, load, commit; a pass is `ref_reconciliation.rs` query
by query: inventory, absent objects, choice and pruning of events under the guard,
reload, re-pin, verify, the roots of every worktree, deletion. A call that is
cancelled (`Cancel`) leaves its worker of Git, which holds a lease on the lock; one
that is killed leaves a child that does not. `lost` collects the pins such a child
or a fresh clone takes.

**Lineage** has trees as functions from paths to sequences of lines, what `git diff`
and `parse_patch` make of two of them (`ParsedFile`, `HunkBetween`: kinds of a file
inferred from its hunks, bodies cut off at a line that looks like a header), and
`lineage.rs`: `ApplyHunk`, `ApplyOneHunk`, `ApplyHunks`, `ApplyFile`, `Apply`,
`ProvenanceAt`.
`Carry` and `Reference` are the reference definition, which follows the kept lines
of whole files and uses neither hunks nor ranges.

**Attribution** is the post-commit hook: `CaptureRevisionCut` under the lock, one
`LoadPage` per query, `LoadBaseline`, one `ReplayEvent` per event, `ReplayTail`.
While it pages, `Boundary` moves the cursor with or without an event and `Prune`
deletes events whose trees are lost; trees may be lost at any time, and queries,
reads of files and diffs may fail.

**Credentials** has the row of tokens, the refresh tokens WorkOS would accept, and
the client of each process: an authenticated call resolves a token, takes the refresh
guard of its process, may spawn the refresh task (`task`, which outlives its caller
and saves), sends, and after a 401 forces one more refresh. **Login** adds the
commands `login` and `logout`. **TraceSync** has a process with one state machine per
stream, the control plane and the batches under way. **SyncSystem** composes them in
several layouts; `Replication` is what the upload promises.

Each MC module instantiates one of these for TLC; the `.cfg` files give the
constants their values.

## 3. The runs

| Run | Instance | What it shows |
|---|---|---|
| `ledger` | 1 worktree, 2 scopes, Claude Code and Codex, 2 deliveries, 2 trees, 5 revisions | eight properties of the evidence, the life of a scope and the exhausted counter |
| `protocol` | 2 attempts, 1 scope, 2 deliveries, 2 trees, 2 revisions | attempts implement the ledger; a taint freezes the worktree; one winner |
| `store` | 2 clients; Starts of 2 scopes, Close, Abandon, Taint, Flush with and without an inherited taint; 2 trees, 2 attempts of the retry loop | the guard on one column suffices; reports are true; retries are lost races |
| `runtime` | 2 processes, 2 scopes: Start, Close, Abandon, kills, 1 edit, 4 revisions | lost intervals are covered and end in a recovery; captures run forward; exclusive means alone |
| `runtime_liveness` | 2 processes, 1 scope, calls of every kind, guarded commands with a descendant, 1 edit, 2 revisions, fair | what a guarded shell changes is nobody's; every call ends |
| `adapter` | 2 processes; tools of a main thread and a subagent; every event; 2 scopes | every live scope is tracked (until a cleanup overtakes a hook), abandonment is barred, written ahead and final, scope ids are new |
| `boundary` | each of 3 harnesses, 2 tools of one session or two, 2 attempts of a tool, 2 recoveries | impossible shapes are never written; Clear means settled; a running tool is tracked; decisions are final |
| `refs` | 2 checkouts in two layouts (two clones, or two worktrees of one), 2 trees, 2 revisions, 1 fault | roots stay pinned; a reported pass is whole; only a checkout that has the cursor prunes |
| `attribution` | 4 trees of 2 files, 3 movements of the cursor, a window of 2 in pages of 1, 1 fault, Git with renames and context or with neither | the window has no hole; the lineage follows the tree; credit is earned |
| `attribution_finding` | 3 trees of one file of comments, 3 movements | the first finding of section 6 |
| `sync` | one process with a stream of 3 rows; one with 2 streams; 2 processes with the same stream; one beside login and logout; 2 tokens | copies grow in order, each row once; success means all; the stored token is live |
| `sync_finding` | login and logout alone | the second finding of section 6 |

**Bounds.** `MaxRevision` of the ledger's machines is the largest value of the `u64`
counter, so that the refusal at the limit, unreachable in a test, is part of every
run. Five revisions hold the longest pattern the ledger's properties speak of: start
two scopes, abandon one, a boundary in the gap, recover, then evidence. Two trees
suffice where the code only compares trees for equality. Two attempts, clients,
processes or checkouts are enough for each race named in the properties, which
relate one actor to one rival; `MaxCasRetryAttempts` is 2 instead of 5 so that giving
up is reached. One edit suffices to tell an interval that contains it from one that
does not, and for two captures in the wrong order. Two scopes of the Claude adapter
(`MaxSeq`) are a live one and its successor of the same key, or one for each tool; of
the other adapters each tool has two attempts, and two recoveries let one hook find
the generation of another. In `refs` the one fault is a cancelled or killed call or a
clone made anew; the second tree is the one a boundary of a rival captures between
two queries of a pass. The trees of `attribution` make each kind of change: a file
is filled, emptied, renamed (or deleted and made), replaced at one end and extended
at the other; three movements exceed the window by one and leave room for a gap.
In `sync` three rows exceed a batch by one, and two tokens are a refresh and its
answer lost; there is one reconciliation (`MaxAttempts`), since giving up must be
reached.

Symmetry is used only in runs that check invariants and safety properties whose
formulas treat the permuted values alike. Deadlock is not checked where the system
really stops: the ledger when its counters are exhausted, sync when every process
has returned, attribution when the commit is decided.

**Fairness.** Only `FairGuardSpec` assumes any: weak fairness of each hook process's
own steps (`HookStep`), that is, a hook that is not killed goes on. No fairness is
given to `Invoke`, `Edit` or `Killed`, nor to guards: a guard may wait for its
harness for ever, and a shell or its descendants may run for ever with the lock. The
wait for the lock ends because `LockTimeout` is enabled as long as somebody holds it,
which is the deadline of `WORKTREE_LOCK_TIMEOUT`.

**Sensitivity.** Every property of every passing run has a mutant, a plausible
bug put into a definition (a dropped guard, an off-by-one, a marker not
remembered, a lock let go too early), that violates it under the run's own
configuration. The mutants stand before the definitions they replace.

**Types.** `LedgerTypeOK` and `AdapterTypeOK` are run and proved; `TypeOK` of the
protocol, `BoundaryTypeOK`, `RefsTypeOK` and `SystemTypeOK` are proved and not run, and
the types of the store and of the runtime are parts of `StoreInv` and `GuardInv`, which
are proved.

## 4. The proofs

The theorems hold for every value of the constants: any number of worktrees, scopes,
deliveries, trees, clients, retries, edits, tools, hooks, checkouts, streams, rows,
tokens and processes, and every bound. They assume what the modules assume: that
bounds are natural numbers, that actors, harnesses, layouts and requests are of the
known kinds, that a captured tree of the runtime is a number of edits, that the
names `"group"`, `"user"` and `"shell"` are those of no process and no scope, and that a
delivery with the name of a Start is a Start (`StartsAreNamed`: the adapters name a
delivery `<scope>|start` or `<scope>|close`, e.g. `claude_mutation_scope/events.rs:148`).
Three theorems about the attribution say that they need more (`NoHeaders`).
Each safety property follows from an inductive invariant, which was first checked with TLC on the
configuration of its run.

### The ledger (`MutationLedgerProofs`)

Every property of the run `ledger` is proved.

- `TypeCorrect`: `LedgerTypeOK` is inductive as it stands, because every step that
  advances a revision asks for headroom first.
- `ScopeLife` follows from the type invariant step by step: `NextScopes` changes a
  status only under `Observes`, `AbandonAll` only that of live scopes.
- `WorktreesIndependent`: a step on one worktree leaves every other as it was. It is
  proved and not run: two worktrees in TLC add nothing.
- `EvidenceCorrect` and `MovesRecorded` need more: that evidence matches the
  history is not inductive, for nothing in it says that the history's last entry
  is the present row. `EvidenceInv` adds `HistoryIsCurrent`: for each worktree
  the entry at its revision has its cursor and its live scopes. A new entry then
  starts where the last one ended, and older entries are never rewritten, since
  every step that records one has a new revision.
- `DeliveryOnce` and `ConfirmedWhenPositive`: `DeliveryInv` adds that a delivery with
  evidence is among the processed ones (a fresh delivery then has none), and that
  evidence names known scopes, whose actors never change.
- `TrustAfterRecovery`: `DistrustInv` says of the present row what the property says
  of evidence. Every failed snapshot since the last recovery shows in the health of the
  row, every abandonment in its `rebaseline`; the kernel looks at the row alone.
- `OneLiveSet`: `LiveSetInv` adds that, unless a rebaseline is due, the live set has not
  changed since the last capture. It is proved of all evidence, positive or not.

### The protocol (`MutationProtocolProofs`)

Every property of the run `protocol` is proved.

- `TypeCorrect` adds that the worktree of a prepared attempt still exists
  (`PlansResolvable`), because rows are never deleted.
- `Refinement` proves that the protocol implements the ledger under the identity
  mapping. The heart is the accepted commit: freshness says that revision and
  cursor are those the attempt was prepared against, so the plan *is* the one that
  the ledger would make at this moment; a rejected commit, a preparation and a
  database failure are stutters.
- `TaintIsHeld` goes over the functions of the kernel: each of them but the recovery
  refuses or keeps what is tainted.
- `OneWinner`: `PastInv` adds that no attempt was prepared against a revision that is yet
  to come. A commit makes a new one, so whatever was prepared on the row is now behind it.
- `ProtocolKeepsPromises`: the ledger's invariants hold of the protocol, by refinement.

### The store (`GuardedShellProofs`)

Every property of the run `store` is proved.

- `Refinement`: the question is why a guard on one column protects four reads that are
  made at different moments. `StoreInv` answers it (`ReadsOneMoment`): as long as the
  revision that was loaded stands, the row, the active scopes, the scope of the call and
  its delivery are what is stored *now*, whenever they were read. For nothing of a
  worktree that a decision depends on changes without a new revision, except that a scope
  is registered, which no decision about other scopes sees. What passes the guard is
  therefore computed from one state (`SameDecision`), and the difference that the client
  writes is the step of the ledger (`AppliedTransition`).
- `ReportIsSettled` and `RacesAreLost`: `IsSettled` and `CountsLostRaces` in the same
  invariant. Each retry is charged to one revision that somebody else made.
- `StoreKeepsPromises`: again the ledger's invariants.

### The runtime and the guarded shell (`GuardedShellProofs`)

The theorems are about `GuardSpec`, that is, hooks, guards, shells and edits together;
`RuntimeSpec` is the case without commands. `GuardInv` extends `StoreInv` by what the
lock and the marker give:

- of a process (`ProcessInv`): past the lock it is among the holders; past the marker its
  worktree is marked; having read of an uncovered interval it has inherited the taint; and
  its client works with the tree that it captured, which is at least the cursor and at most
  the present tree (`JobFits`);
- of a worktree (`WorktreeInv`): one process at a time holds it, a living shell group holds
  it too, what is uncovered is marked, and the cursor is not ahead of the tree;
- of the record (`RecordInv`): evidence runs forward, and has no edit of a shell.

*Uncovered* is the common notion behind `LostIsCovered` and `ShellEditsAreNobodys`: an
interval is lost, or a shell has written beyond the cursor. Without it neither is
inductive, for a guard that is killed leaves edits of a shell that no process owns.
`StatementEffect` condenses the statements of the store to four outcomes (it recovers, it
goes on with its job, the cursor goes to its capture, it records what lies between), so
that the steps of the runtime are argued without the kernel. `Apart` says that two
processes past the lock are on two worktrees, and `OthersKeep` that what one of them does
leaves the other undisturbed.

- `LostCovered`, `RunsForward`, `ShellsAreNobodys` follow from `GuardInv`.
- `LostRecovered`, an action property, needs `OnlyWork`: only a statement of a client writes
  the database, and on a worktree with a lost interval that client has inherited the taint,
  so its commit is a recovery.
- `RuntimeKeepsStore`: the refinement and the invariants of the store, with kills and
  restarts of its clients.
- `CreditsAreSole` proves `ExclusiveMeansAlone`, the property the system is there for. It
  needs every layer, so a second invariant, `AloneInv`, stands on `GuardInv`. Its notion is
  that a scope is *explained*: it is live, or a recovery ended it, or its worktree has no
  revision left to record anything. A tool that may be running belongs to an explained scope
  (`ToolInv`); an edit beyond the cursor is by an explained scope or a rebaseline is due
  (`EditInv`); and an edit beyond a capture that is under way is by an explained scope which
  the call under way does not end (`LaterEdits`). Evidence that credits one scope then finds
  that scope alone live, and every editor in its interval explained. An edit during a close
  or an abandonment is excluded because the tool is over before that call is made
  (`CallInv`); an interval that a late capture would cut short, because the lock is held from
  before the capture (`Apart`). A Start that is replayed must find its scope seen
  (`KeysInv`), or the tool would run for a scope that is not live; this is where
  `StartsAreNamed` is used. `StatementTurns` condenses what one statement of the store means
  for scopes and cursor (`Turns`).

### The adapters (`MutationAdapterProofs`, `BoundaryAdapterProofs`)

Every property of the runs `adapter` and `boundary` is proved.

- `AdapterTypeCorrect`: a process only moves within its event (`Moves`), and only
  five kinds of step write the file (`StepCases`).
- `AbandonmentAlwaysBarred`, `AbandonAlwaysWrittenAhead`, `DecisionAlwaysFinal`:
  `AbandonInv` adds what a cleanup has in hand. A close has one scope, because keys
  are unique; a batch under abandonment is decided, and so is what remains of it
  while one scope is being removed; and no step of another process takes a decision
  back (`DecisionStays`).
- `ActiveAttemptAlwaysStarted`, `ScopeIdAlwaysNew`: `StartedInv` adds that scopes not
  yet allocated are unseen by the runtime, and that one about to be confirmed is not.
- `LiveScopeAlwaysTracked`: `TrackInv` adds, as long as nothing was overtaken, that no
  two processes serve one tool, that a process about to start a scope finds its
  attempt unmarked, and that an attempt is removed only when its scope cannot be live
  (or the marker is set). A rival could remove or revive it only by having it in hand,
  which needs the same tool, or a decision that the starting process would have seen.
- `NoImpossibleShape`, `ClearIsSettled`, `RunningIsTracked` and `DecisionIsFinal` of the
  other adapters: `BoundaryInv` says, for each step of the holder of the boundary lock,
  what it has established (`StartHeld`, `BatchHeld`, `RecoveryHeld`). The lock makes one
  record of it, where the Claude adapter needs one per process. Beside it the file is
  sound: the tools of dead sessions are over, and active attempts were started.

### The refs (`MutationRefsProofs`)

`RootsArePinned`, `ReportIsTrue` and `PruningIsSafe` are the properties of the run `refs`.
`RefsInv` says what the holder of a checkout's lock knows although other clones commit to
the same row meanwhile: a boundary has pinned what it is about to commit (`BoundaryHeld`),
and a pass deletes nothing that its checkout needs (`PassHeld`). What a pass read of the
row it may rely on only as long as the row has the revision of its inventory
(`ViewHeld`), which is why two of the properties speak of that case.

### Sync and credentials (`SyncSystemProofs`)

`CompletedIsCaughtUp`, `StoredTokenStaysLive` and `SyncImplementsReplication` are the
properties of the run `sync`. `DataInv` says that the cursor of a stream, and the expected
cursor of every batch that is still under way, is where the copy once ended, and that the
batch is what came next then (`Fits`). Such a batch either extends the copy by the rows
that follow or is refused, whatever happened since; that is the refinement. `TokenInv` says
that while only runs of sync are at work one token is renewable, at most one task has a new
one in its hand, and whoever would renew it has it from the database.

### The attribution (`AttributionProofs`)

`WindowAlwaysWhole` is about a traversal without a lock: between two pages events are
recorded, lost and pruned, and the window still has every event that is stored between
its oldest and the cut. `WindowInv` says of each phase what the hook may rely on
(`Phases`): nothing is recorded at or below the cut, each row is an event of the past, and
`below` is the oldest row of the page before. A page is the newest of the stored events
below that one (`PageFacts`), so what lies between two pages was pruned before the second
was read, and what is pruned never comes back (`WindowGrows`). Once the window is closed
the set of stored events can only shrink. The order in which a query returns its rows is
the least of the model's definitions and the most of the proof: `InOrder` is shown to
arrange any finite ordered set (`SortedExists`, by `LeastNatural`), each element in the
place that the number of those before it says (`RankFacts`, `SortedFacts`).

The other theorems are about what is replayed. They assume `NoHeaders`, that no line begins
with `-- `: without it they are false, which is the first finding. They hold for any trees
and history, both flags of Git's configuration, and any faults: reads and diffs that fail,
lost trees, pruned events, short windows and gaps.

- `LineageAlwaysFollowsTree`: `LineageInv` says of the lineage that each file it tracks
  begins the file of the tree it has reached (`Following`), and without faults and renames
  is the whole of it (`Whole`). That a step preserves this is a matter of counting, from the
  bottom up. What a diff keeps is an alignment, so of two lines that it keeps next to each
  other the neighbours are next to each other as well (`Diagonal`), and the hunks are the
  gaps between its cuts, in order (`GapFacts`, `GapHunk`). Within a hunk, the line of the old
  file that belongs at a place is the one that has as many kept lines before it
  (`KeptBefore`); `ApplyHunk` counts the lines added before that place instead, and the two
  agree (`RegionCarried`). A file is the fold of its hunks (`HunksCarried`) and the
  lines behind the last, a patch the fold of its files, in whatever order (`FilePatched`,
  `ApplyMade`). A hunk that does not fit what is tracked resets the lineage, which then
  follows the tree again because it was read from it.
- `CreditAlwaysEarned`: the reference follows the same kept lines through the same trees, so
  on a step both do the same (`CarryAgrees`); a reset forgets, which agrees with anything.
  `CreditInv` says when: what is left to be replayed is the end of the history
  that the reference knows (`IsRest`), and what was said so far the reference says at the
  same event (`KnownAfter`). The history of the reference has older events, those that were
  not loaded. Where the replay starts, at a gap, or after a fault the lineage is unsaid, and
  a movement without an event in the middle is to the reference one by nobody.
- `RemovedLinesStayDead`: `LastingInv` says that a line of the lineage that is given to an
  agent was made by an event of that agent, and has been in both trees of every event since.
  No step of the replay makes a line but those that its event adds (`LinesComeFrom`). The
  run `attribution_finding` shows the same property violated by lines that look like
  headers; the theorem, that nothing else violates it.

The folds `ApplyHunks`, `Apply` and `Reference` are functions defined by recursion, which
are only of use once they are known to exist; `HunksApplied`, `PatchApplied` and
`RecountingEnds` show it by a least counterexample (`LeastNatural`). `DiffTrees` is a table,
which equals the diff because Git's configuration is two flags (`ConfigsAreFlags`).

### What the proofs changed

`LineageFollowsTree` said that without faults a tracked file says exactly what the tree
says. The attempt to prove it showed that this is not so where Git finds renames: a file
that is deleted, comes back, which the lineage does not see because it no longer tracks
it, and is then renamed onto a tracked empty path, is carried as an empty file with no
hunk. TLC confirms it with three movements on three trees that the run did not have. What
the lineage has is then the beginning of the file, so it costs credit and makes none; the
property now says so. `Lineage` and `Attribution` order sets by `InOrder`, where they used
`SortSeq`, and fold by functions on the number of elements.

The cases of `Settled` in `BoundaryAdapter` overlapped, and now exclude each other;
`TraceSync!After` is the suffix behind the rows that a cursor covers (`Covered`), where it
filtered the rows; `GuardedShell` states that its names differ, and `MutationRuntime` that
Starts are named. None of these changes what TLC explores.

### Only model-checked

- The attribution of files with lines that look like headers, where the run
  `attribution_finding` has a counterexample. The other properties of the attribution are
  proved for files without.
- `EveryCallEnds`, which is liveness under fairness. Neither it nor `ENABLED` is within the
  prover's reach.
- The findings, which are counterexamples.

Every other property of a run that passes is stated by a theorem.

## 5. Abstractions and limits

- The bit `tainted` of a worktree row is left out: every site writes it together
  with `failure_kind` and the store refuses a row in which they disagree.
- Scope provenance (session and model of a Start) is not kept; its insertion is a
  statement that may fail, like any other.
- A transaction is atomic. The retry on contention in `services/db/mod.rs` is not
  modelled; an error leaves its caller without knowledge of the outcome.
- The runtime is that of Unix. Elsewhere a guard is refused and locks are not lent.
- In the runtime a pin is part of the capture and succeeds or fails with it;
  `MutationRefs` takes the two apart, and leaves open what the kernel decides.
- A boundary whose lock acquisition times out is lost before the marker is armed.
  Nothing in the runtime remembers it; it is the adapters' duty to latch a
  recovery. `LostIsCovered` speaks of calls that got as far as the marker.
- `ExclusiveMeansAlone` excepts edits by the tools of scopes that a recovery
  ended (section 6), and edits by the user, which the code does not claim to tell
  apart. A descendant of a guarded shell that closes what it inherited counts as the
  user.
- In `MutationAdapter` and `BoundaryAdapter` a call of the runtime is one step with
  each of its outcomes, which `MutationRuntime` has in detail.
- `StoredTokenIsLive` and `RotationIsPersisted` except what the documents except: a
  crash between the answer and the save, and an answer that is lost (`excused`).
- Attribution decides every line of the committed files; that only lines which
  direct evidence does not cover are asked about, and which session and model a
  credited line gets, is left out. The tree of HEAD and the committed patch are taken
  as one, though the hook reads them one after the other.
- A reader of an attribution should know: emptying a file, or deleting its first
  lines where Git shows no context, looks like a deletion to the parser, and the
  lineage drops the file; a sequence of movements that ends where it began (A to B to
  A), pruned or recovered, is not seen as a gap; and the cut is read when the hook
  runs, after the commit, so an event of the time between the two does take part,
  where `mutation-trace-agent-attribution.md:128-129` says that it cannot. The first
  costs credit only. `CreditIsEarned` compares with what the events that are there
  say, so it is silent about the second.

## 6. Findings

**A removed line can come back to life** (`attribution_finding`, a bug).
`parse_hunk_header_and_body` (`services/patch.rs:803`) ends a hunk at every line that
begins with `--- ` or `+++ `, without looking at the hunk's counts. The removal of a line
that begins with `-- `, a comment in SQL, Lua or Haskell, is printed as `--- ...`; the
rest of the hunk is then not read, and the line is taken for the path of the file
(`patch.rs:532-540`). The lineage gets a hunk without its changes whose counts still
agree, and carries the old line on. In the run an agent writes such a comment, another
step replaces it by another comment, a third writes the first again, and the commit
credits it to the agent; `mutation-trace-agent-attribution.md:10-11` says that a removed
line's provenance "is dead and no older event can resurrect it". An added line that
begins with `++ ` acts alike (not modelled), and a committed patch that is parsed so
loses its lines from every attribution. Such lines are all there is to it: the claim is
proved of every history of files that have none (`RemovedLinesStayDead`).

**A login can lose the token a refresh has rotated** (`sync_finding`).
`async-persistence-guarantees.md:17-21` says that the new token is saved by a unit that
outlives its caller. It does in `sce sync`, which waits for it (`sync/sync.rs:210`).
`sce auth login` uses the same client for its telemetry request, gives up on it after a
minute (`auth_command/mod.rs:515`) and returns, and the runtime is dropped half a second
later with the refresh between answer and save. Related, and in the same modules: login
saves a token it has just loaded again as it is, over one that a sync may have rotated
meanwhile (`maybe_renew_stored_credentials`, lines 424-443); a refresh that saves after a
logout undoes it; and the refresh guard is one per process, so two processes may spend
the same token, of which the slower fails.

Read in the code while modelling, without a run of their own:

- *A recovery can produce the false positive it avoids.* `recover` abandons every live
  scope of a worktree whose interval was lost, while the tools of those scopes may be
  running. `mutation-scope-runtime.md:190-195` and
  `mutation-trace-scope-abandonment.md:131-136` call this "a false-negative cost",
  accepted "because the alternative is a false positive — attributing an interval
  exclusively to a scope while an unobserved execution may have been mutating the same
  worktree". The abandoned scope's tool edits on, unobserved, and the scope that starts
  next is credited alone; `ExclusiveMeansAlone` is violated without its exception. This
  agrees with the narrower meaning of `AiExclusive` at `mutation-scope-runtime.md:208`
  ("exactly one mutation scope was live over that interval").
- *A terminal scope of Claude can be used again.* `allocate_attempt`
  (`claude_mutation_scope/state.rs:228`) returns an attempt of the same key in whatever
  phase, and an attempt outlives its Close until `remove_attempt`. If the process is
  killed in between, the next PreToolUse with that `tool_use_id` gets the closed scope:
  its Start is a replay and the tool is allowed, while no scope is live. The document
  (`claude-mutation-scope-integration.md:70-71`, 82-84) says that this never happens. The
  tool's edits are then unattributed, never attributed to another.
- *A cleanup that overtakes a hook.* If a cleanup overtakes the PreToolUse hook of the
  tool it retires, it can abandon and remove the attempt between that hook's allocation
  and its Start; the scope then becomes live after its attempt is gone, and nothing but
  a later recovery for another reason ends it. `LiveScopeIsTracked` therefore speaks of
  the time before. Claude Code runs the two events in sequence unless a hook is still
  alive when it gives up waiting for it.
- *The barrier of Claude.* `repair_blocked` lifts it without a flush, where
  `claude-mutation-scope-integration.md:191-192` says that only a successful flush does
  (the runtime rebaselines at its next boundary anyway); and
  `cleanup_attempts_matching` ignores the phase, so the next Stop or UserPromptSubmit
  retries an abandonment that failed, where `claude-mutation-scope-health.md:36-38` says
  that nothing in the hook lifecycle does. `MutationAdapter` has both.
- *The lanes of Codex.* `codex-mutation-scope-health.md:20` says that with recovery Clear
  new admissions proceed outside the lane of a live attempt; a `PendingStart` of any
  lane blocks them all (`codex_mutation_scope/state.rs:318-326`).
- *An owner that is init.* The owner of an attempt is the parent of the hook when it
  asks (`mutation_scope_owner.rs:27`). A hook that waits for the boundary lock while its
  harness dies records init, which never counts as dead; its attempt then blocks the
  recovery until a repair by hand.
- *Pins.* `mutation-trace-ref-reconciliation.md:151-157` calls the race of pin and commit
  "structurally impossible". It is for processes that live or are cancelled; a process
  that is killed loses its lock at once and leaves its Git child, which may then delete
  a pin that the next boundary has just found in place (`late`, `lost` in
  `MutationRefs`). `local_required ≤ retained`, a few lines on, fails when the pass
  pinned something anew, since `retained` counts the inventory before it. And I3 of
  `mutation-trace-missing-history-recovery.md` ("an absent cursor fails closed with
  nothing changed") needs the row to stay as it was read: `PruningCheckoutHasTheCursor`
  says so of passes whose two reads agree.

## 7. Not modelled

The modules cover the parts of the code in which several steps of several actors
have to fit. Most of its lines are something else, which is why the share of mapped
lines is small:

- text in and out: payloads, the command line, rendering, `services/doctor/`,
  `services/config/` (precedence rules), prompts and plugins;
- files written by one process with a rename, and no other party: `services/setup/`,
  hook configuration and trust, the maintenance file of the refs, which only decides
  when the user is advised to run the doctor;
- pure text algorithms other than the lineage: combination, intersection and
  reconstruction of patches, bash policy;
- schema, migrations, row mapping, encryption of rows, the key file;
- telemetry, which is best effort and which no property depends on;
- `spec/*.qnt`, a design in another language: the modules here are translated from
  the Rust code and not from it.

Left for want of room, and worth modelling: the contention retry of `services/db/`
(what a retried commit may report), the maintenance file with its three outcomes of a
failed write, and the intersection with direct evidence that precedes attribution.

## 8. Plan

Done, in this order: kernel and ledger with their evidence properties; protocol and its
refinement; store; runtime; proofs about ledger and protocol; the Claude adapter and its
proofs; the other adapters; guarded shell and leases; snapshot refs; credentials, login
and sync with its refinement; lineage and attribution.

Then the proofs: the properties of the ledger, the protocol and both kinds of adapters;
refs; sync and credentials; the store; the runtime with its guarded shells; the window of
the attribution, its lineage, and the credit it gives.

Left: the modules that section 7 names.
