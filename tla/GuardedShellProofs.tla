------------------------- MODULE GuardedShellProofs -------------------------
(***************************************************************************)
(* The store, the runtime on top of it, and the guarded shells.            *)
(*                                                                         *)
(* Of the store: whatever several clients read, and at whatever moments,   *)
(* what gets through the revision guard is a step of the atomic            *)
(* specification.  Of the runtime: hook processes and guards lock, arm,    *)
(* capture, drive the store, fail and are killed; what the lock and the    *)
(* marker give on top of the revision guard.  For any number of clients,   *)
(* processes, worktrees, scopes, deliveries, calls and edits, any bound on *)
(* the revision and any number of retries.                                 *)
(***************************************************************************)
EXTENDS GuardedShell, TLAPS

\* The theorems about the atomic specification, for this module's variables.
Facts == INSTANCE MutationLedgerProofs

-----------------------------------------------------------------------------
(* The store: the state of a client.                                       *)

Projection == UNION {[D -> ScopeState] : D \in SUBSET Scopes}

Working ==
  [pc : Statements, job : Job, pending : BOOLEAN, tries : Nat,
   row : WorktreeState \cup {NoRows}, scopes : Projection, processed : SUBSET EventKey,
   base : Int, recovered : BOOLEAN]
Succeeded == [pc : {"ok"}, job : Job, pending : BOOLEAN]
Bare == [pc : {"idle", "error", "recoveryRequired"}]

ClientState == Working \cup Succeeded \cup Bare

\* The client has its row; it has the active scopes as well; it has all of
\* its projection.
HasRow(me) == me.pc \in {"loadActive", "loadReferenced", "loadProcessed", "recover", "commit"}
HasScopes(me) == me.pc \in {"loadReferenced", "loadProcessed", "recover", "commit"}
HasAll(me) == me.pc \in {"recover", "commit"}

\* A statement is issued only by the operation that has it.
KnowsItsJob(me) ==
  /\ me.pc \in {"initialize", "register", "recover"} => me.job.op = "Coordinate"
  /\ me.pc \in {"register", "loadProcessed"} => IsHookJob(me.job)
  /\ me.pc = "findScope" => me.job.op = "Abandon"
  /\ me.pc \in Statements /\ me.pending => me.job.op = "Coordinate"

\* From the moment it loads, a client's scope is registered where it says.
HasRegistered(me) ==
  me.pc = "loadRow" \/ HasRow(me) =>
    \A s \in Referenced(me.job) : s \in DOMAIN scopes /\ scopes[s].worktree = me.job.worktree

\* Scopes of w among the scopes `all`, with all of those that are live.
Agrees(mine, all, w) ==
  /\ DOMAIN mine \subseteq DOMAIN all
  /\ \A s \in DOMAIN mine : mine[s] = all[s] /\ all[s].worktree = w
  /\ LiveScopesOn(all, w) \subseteq DOMAIN mine

\* As long as the revision that was loaded stands, nothing else that was
\* read beside it is out of date, whenever it was read.
ReadsOneMoment(me) ==
  LET w == me.job.worktree
  IN  HasRow(me) =>
        /\ w \in DOMAIN worktrees /\ me.row \in WorktreeState
        /\ me.row.revision <= worktrees[w].revision
        /\ me.row.revision = worktrees[w].revision =>
             /\ me.row = worktrees[w]
             /\ HasScopes(me) => Agrees(me.scopes, scopes, w)
             /\ HasAll(me) /\ IsHookJob(me.job) =>
                  me.processed = {Key(me.job.boundary)} \cap processedEvents

\* What the kernel has decided on the complete projection.
HasDecided(me) ==
  /\ me.pc = "loadProcessed" \/ HasAll(me) => Referenced(me.job) \subseteq DOMAIN me.scopes
  /\ me.pc = "recover" => NeedsRecovery(me.row, me.pending)
  /\ me.pc = "commit" /\ me.job.op = "Coordinate" => ~NeedsRecovery(me.row, me.pending)
  /\ me.pc = "commit" /\ me.job.op = "Abandon" => me.scopes[me.job.scope].status = "Active"

\* The revisions that other clients have made account for the retries: up to
\* the row that was loaded, and up to the row that is there.
Lost(me) == me.tries + (IF me.recovered THEN 1 ELSE 0)

CountsLostRaces(me) ==
  me.pc \in Statements =>
    /\ me.base # -1 =>
         /\ me.job.worktree \in DOMAIN worktrees
         /\ Lost(me) <= worktrees[me.job.worktree].revision - me.base
    /\ me.base = -1 => Lost(me) = 0
    /\ HasRow(me) => me.base # -1 /\ Lost(me) <= me.row.revision - me.base

\* What has returned without an error has no recovery left to make, and a
\* hook that has is settled.
IsSettled(me) ==
  me.pc = "ok" =>
    /\ me.job.op # "Taint" /\ ~me.pending
    /\ IsHookJob(me.job) =>
         /\ me.job.worktree \in DOMAIN worktrees
         /\ \/ Key(me.job.boundary) \in processedEvents
            \/ worktrees[me.job.worktree].revision = MaxRevision

ClientInv(me) ==
  /\ KnowsItsJob(me)
  /\ HasRegistered(me)
  /\ ReadsOneMoment(me)
  /\ HasDecided(me)
  /\ me.pc \in Statements => me.processed \subseteq processedEvents
  /\ CountsLostRaces(me)
  /\ IsSettled(me)

StoreInv ==
  /\ Ledger!LedgerTypeOK
  /\ client \in [Clients -> ClientState]
  /\ \A c \in Clients : ClientInv(client[c])

-----------------------------------------------------------------------------
(* What a part of the scopes decides.                                      *)

LEMMA SameLive ==
  ASSUME NEW mine, NEW all, NEW w, Agrees(mine, all, w)
  PROVE  LiveScopesOn(mine, w) = LiveScopesOn(all, w)
BY DEF Agrees, LiveScopesOn

\* They hold the scope of boundary b as well.
Suffices(mine, all, w, b) ==
  Agrees(mine, all, w) /\ (IsHook(b) => b.scope \in DOMAIN mine)

\* A boundary whose scope is read is evaluated as on all the scopes.
LEMMA SameObservation ==
  ASSUME NEW mine, NEW all, NEW w, NEW b, Suffices(mine, all, w, b)
  PROVE  Observes(b, mine) <=> Observes(b, all)
BY DEF Suffices, Agrees, Observes, IsHook

LEMMA SameAdvance ==
  ASSUME NEW mine, NEW all, NEW w, NEW plan, Suffices(mine, all, w, plan.boundary)
  PROVE  WouldAdvance(plan, mine) <=> WouldAdvance(plan, all)
BY SameObservation DEF WouldAdvance, TreeChanged

\* A plan has the same effect whichever of the two it is applied to.
SameEffect(plan, mine, all, w) ==
  /\ WouldAdvance(plan, mine) <=> WouldAdvance(plan, all)
  /\ \A row :
       /\ MovesCursor(plan, row, mine) = MovesCursor(plan, row, all)
       /\ NextRow(plan, row, mine) = NextRow(plan, row, all)
       /\ NewEvidence(plan, row, mine, w, FALSE) = NewEvidence(plan, row, all, w, FALSE)

LEMMA SameDecision ==
  ASSUME NEW mine, NEW all, NEW w, NEW plan, Suffices(mine, all, w, plan.boundary)
  PROVE  SameEffect(plan, mine, all, w)
<1> DEFINE b == plan.boundary
<1>1. Agrees(mine, all, w) /\ (IsHook(b) => mine[b.scope] = all[b.scope])
  BY DEF Suffices, Agrees
<1>2. TreeChanged(plan, mine) <=> TreeChanged(plan, all)
  BY SameObservation DEF TreeChanged
<1>3. LiveScopesOn(mine, w) = LiveScopesOn(all, w)
  BY <1>1, SameLive
<1>4. ClosesNeverSeen(mine, b) <=> ClosesNeverSeen(all, b)
  BY <1>1 DEF ClosesNeverSeen, IsHook
<1>5. HasUnconfirmedScope(mine, w, b) <=> HasUnconfirmedScope(all, w, b)
  <2>1. \A s \in LiveScopesOn(mine, w) : mine[s] = all[s]
    BY <1>1 DEF Agrees, LiveScopesOn
  <2> QED BY <1>3, <2>1 DEF HasUnconfirmedScope
<1>6. WouldAdvance(plan, mine) <=> WouldAdvance(plan, all)
  BY SameAdvance
<1>7. ASSUME NEW row
      PROVE  /\ MovesCursor(plan, row, mine) = MovesCursor(plan, row, all)
             /\ NextRow(plan, row, mine) = NextRow(plan, row, all)
             /\ NewEvidence(plan, row, mine, w, FALSE) = NewEvidence(plan, row, all, w, FALSE)
  <2>1. MovesCursor(plan, row, mine) = MovesCursor(plan, row, all)
    BY SameObservation DEF MovesCursor
  <2>2. NextRow(plan, row, mine) = NextRow(plan, row, all)
    BY <1>6, <2>1 DEF NextRow
  <2>3. AttributionFor(row, mine, w, FALSE) = AttributionFor(row, all, w, FALSE)
    BY <1>3 DEF AttributionFor
  <2>4. EvidenceOf(plan, row, mine, w, FALSE) = EvidenceOf(plan, row, all, w, FALSE)
    BY <1>3, <1>4, <1>5, <2>3 DEF EvidenceOf, AttributionForBoundary
  <2>5. NewEvidence(plan, row, mine, w, FALSE) = NewEvidence(plan, row, all, w, FALSE)
    BY <1>2, <2>4 DEF NewEvidence
  <2> QED BY <2>1, <2>2, <2>5
<1> QED BY <1>6, <1>7 DEF SameEffect

\* The difference of two projections, applied to all the scopes.
Merged(all, changes) ==
  [s \in DOMAIN all |-> IF s \in DOMAIN changes THEN [all[s] EXCEPT !.status = changes[s]] ELSE all[s]]

\* next does to all what it does to mine.
SameChange(mine, nextMine, all, nextAll) ==
  Merged(all, StatusChanges(mine, nextMine)) = nextAll

LEMMA NoChange ==
  ASSUME NEW mine, NEW all, all \in [DOMAIN all -> ScopeState]
  PROVE  SameChange(mine, mine, all, all)
<1>1. DOMAIN StatusChanges(mine, mine) = {}
  BY DEF StatusChanges
<1> QED BY <1>1 DEF SameChange, Merged

\* If the projection and the scopes change alike where the projection is,
\* and the scopes nowhere else, the difference carries the change over.
LEMMA ChangeCarries ==
  ASSUME NEW mine, NEW all, NEW w, NEW nextMine, NEW nextAll, Agrees(mine, all, w),
         all \in [DOMAIN all -> ScopeState],
         nextAll \in [DOMAIN all -> ScopeState],
         \A s \in DOMAIN all : \E status \in ScopeStatus :
           nextAll[s] = [all[s] EXCEPT !.status = status],
         \A s \in DOMAIN mine : nextMine[s].status = nextAll[s].status,
         \A s \in DOMAIN all : s \notin DOMAIN mine => nextAll[s] = all[s]
  PROVE  SameChange(mine, nextMine, all, nextAll)
<1> DEFINE changes == StatusChanges(mine, nextMine)
<1>1. /\ DOMAIN changes = {s \in DOMAIN mine : mine[s].status # nextMine[s].status}
      /\ \A s \in DOMAIN changes : changes[s] = nextMine[s].status
  BY DEF StatusChanges
<1> HIDE DEF changes
<1>2. ASSUME NEW s \in DOMAIN all
      PROVE  Merged(all, changes)[s] = nextAll[s]
  <2>1. PICK status \in ScopeStatus : nextAll[s] = [all[s] EXCEPT !.status = status]
    OBVIOUS
  <2>2. all[s] \in ScopeState /\ nextAll[s].status = status
    BY <2>1 DEF ScopeState
  <2>3. CASE s \in DOMAIN changes
    BY <1>1, <2>1, <2>2, <2>3 DEF Merged
  <2>4. CASE s \in DOMAIN mine /\ s \notin DOMAIN changes
    <3>1. mine[s] = all[s] /\ all[s].status = status
      BY <1>1, <2>2, <2>4 DEF Agrees
    <3>2. [all[s] EXCEPT !.status = status] = all[s]
      BY <2>2, <3>1 DEF ScopeState
    <3> QED BY <2>1, <2>4, <3>2 DEF Merged
  <2>5. CASE s \notin DOMAIN mine
    BY <1>1, <2>5 DEF Merged
  <2> QED BY <2>3, <2>4, <2>5
<1>3. Merged(all, changes) = [s \in DOMAIN all |-> nextAll[s]]
  BY <1>2 DEF Merged
<1> QED BY <1>3 DEF SameChange, changes

LEMMA AbandonCarries ==
  ASSUME NEW mine, NEW all, NEW w, Agrees(mine, all, w), all \in [DOMAIN all -> ScopeState],
         NEW gone \in SUBSET DOMAIN mine
  PROVE  /\ SameChange(mine, AbandonAll(mine, gone), all, AbandonAll(all, gone))
         /\ Agrees(AbandonAll(mine, gone), AbandonAll(all, gone), w)
<1> DEFINE nextMine == AbandonAll(mine, gone)
           nextAll == AbandonAll(all, gone)
<1>1. /\ DOMAIN nextAll = DOMAIN all /\ DOMAIN nextMine = DOMAIN mine
      /\ \A s \in gone : /\ nextAll[s] = [all[s] EXCEPT !.status = "Abandoned"]
                         /\ nextMine[s] = [mine[s] EXCEPT !.status = "Abandoned"]
      /\ \A s \in DOMAIN all : s \notin gone => nextAll[s] = all[s]
      /\ \A s \in DOMAIN mine : s \notin gone => nextMine[s] = mine[s]
      /\ gone \subseteq DOMAIN all
  BY DEF AbandonAll, Agrees
<1>2. \A s \in DOMAIN all : \E status \in ScopeStatus :
        nextAll[s] = [all[s] EXCEPT !.status = status] /\ nextAll[s] \in ScopeState
  <2> TAKE s \in DOMAIN all
  <2>1. CASE s \in gone
    <3>1. "Abandoned" \in ScopeStatus /\ all[s] \in ScopeState
      BY DEF ScopeStatus
    <3>2. [all[s] EXCEPT !.status = "Abandoned"] \in ScopeState
      BY <3>1 DEF ScopeState
    <3> QED BY <1>1, <2>1, <3>1, <3>2
  <2>2. CASE s \notin gone
    <3>1. all[s].status \in ScopeStatus /\ [all[s] EXCEPT !.status = all[s].status] = all[s]
      BY DEF ScopeState
    <3> QED BY <1>1, <2>2, <3>1
  <2> QED BY <2>1, <2>2
<1>3. \A s \in DOMAIN mine : nextMine[s] = nextAll[s]
  <2>1. \A s \in DOMAIN mine : mine[s] = all[s] /\ s \in DOMAIN all
    BY DEF Agrees
  <2> HIDE DEF nextMine, nextAll
  <2> SUFFICES ASSUME NEW s \in DOMAIN mine PROVE nextMine[s] = nextAll[s]
    OBVIOUS
  <2>2. CASE s \in gone
    <3>1. nextMine[s] = [mine[s] EXCEPT !.status = "Abandoned"]
      BY <1>1, <2>2
    <3>2. nextAll[s] = [all[s] EXCEPT !.status = "Abandoned"]
      BY <1>1, <2>2
    <3>3. mine[s] = all[s]
      BY <2>1
    <3> QED BY <3>1, <3>2, <3>3
  <2>3. CASE s \notin gone
    BY <1>1, <2>1, <2>3
  <2> QED BY <2>2, <2>3
<1>4. nextAll \in [DOMAIN all -> ScopeState]
  BY <1>2 DEF AbandonAll
<1>5. LiveScopesOn(nextAll, w) \subseteq LiveScopesOn(all, w)
  <2>1. ASSUME NEW s \in gone PROVE nextAll[s].status = "Abandoned"
    <3>1. all[s] \in ScopeState /\ nextAll[s] = [all[s] EXCEPT !.status = "Abandoned"]
      BY <1>1
    <3> QED BY <3>1 DEF ScopeState
  <2> HIDE DEF nextMine, nextAll
  <2> QED BY <1>1, <2>1 DEF LiveScopesOn
<1> HIDE DEF nextMine, nextAll
<1>6. Agrees(nextMine, nextAll, w)
  <2>1. ASSUME NEW s \in DOMAIN mine PROVE nextAll[s].worktree = w
    <3>1. s \in DOMAIN all /\ all[s] \in ScopeState /\ all[s].worktree = w
      BY DEF Agrees
    <3>2. PICK status \in ScopeStatus : nextAll[s] = [all[s] EXCEPT !.status = status]
      BY <1>2, <3>1
    <3> QED BY <3>1, <3>2 DEF ScopeState
  <2> QED BY <1>1, <1>3, <1>5, <2>1 DEF Agrees
<1>7. SameChange(mine, nextMine, all, nextAll)
  <2>1. \A s \in DOMAIN all : \E status \in ScopeStatus : nextAll[s] = [all[s] EXCEPT !.status = status]
    BY <1>2
  <2>2. \A s \in DOMAIN all : s \notin DOMAIN mine => nextAll[s] = all[s]
    BY <1>1
  <2> QED BY <1>3, <1>4, <2>1, <2>2, ChangeCarries
<1> QED BY <1>6, <1>7 DEF nextMine, nextAll

LEMMA RecoverCarries ==
  ASSUME NEW mine, NEW all, NEW w, Agrees(mine, all, w), all \in [DOMAIN all -> ScopeState],
         NEW row, NEW tainted
  PROVE  /\ SameChange(mine, RecoverScopes(row, mine, w, tainted),
                       all, RecoverScopes(row, all, w, tainted))
         /\ Agrees(RecoverScopes(row, mine, w, tainted), RecoverScopes(row, all, w, tainted), w)
<1>1. LiveScopesOn(mine, w) = LiveScopesOn(all, w) /\ LiveScopesOn(all, w) \in SUBSET DOMAIN mine
  BY SameLive DEF Agrees
<1>2. CASE Unhealthy(row) \/ tainted
  BY <1>1, <1>2, AbandonCarries DEF RecoverScopes
<1>3. CASE ~(Unhealthy(row) \/ tainted)
  BY <1>3, NoChange DEF RecoverScopes
<1> QED BY <1>2, <1>3

LEMMA BoundaryCarries ==
  ASSUME NEW mine, NEW all, NEW w, Agrees(mine, all, w), all \in [DOMAIN all -> ScopeState],
         NEW b, IsHook(b) => b.scope \in DOMAIN mine
  PROVE  SameChange(mine, NextScopes(b, mine), all, NextScopes(b, all))
<1>1. Observes(b, mine) = Observes(b, all)
  BY DEF Agrees, Observes, IsHook
<1>2. CASE b.kind \in {"Start", "Close"} /\ Observes(b, all)
  <2> DEFINE s0 == b.scope
             status0 == IF b.kind = "Start" THEN "Active" ELSE "Closed"
             nextMine == [mine EXCEPT ![s0].status = status0]
             nextAll == [all EXCEPT ![s0].status = status0]
  <2>1. NextScopes(b, mine) = nextMine /\ NextScopes(b, all) = nextAll
    BY <1>1, <1>2 DEF NextScopes
  <2>2. /\ s0 \in DOMAIN mine /\ s0 \in DOMAIN all /\ mine[s0] = all[s0]
        /\ status0 \in ScopeStatus
    BY <1>2 DEF IsHook, Agrees, ScopeStatus
  <2>3. all[s0] \in ScopeState
    BY <2>2
  <2> HIDE DEF s0, status0
  <2>4. [all[s0] EXCEPT !.status = status0] \in ScopeState
    BY <2>2, <2>3 DEF ScopeState
  <2>5. /\ nextAll[s0] = [all[s0] EXCEPT !.status = status0]
        /\ nextMine[s0] = [mine[s0] EXCEPT !.status = status0]
        /\ \A s \in DOMAIN all : s # s0 => nextAll[s] = all[s]
        /\ \A s \in DOMAIN mine : s # s0 => nextMine[s] = mine[s]
        /\ DOMAIN nextAll = DOMAIN all
    BY <2>2
  <2>6. nextAll \in [DOMAIN all -> ScopeState]
    BY <2>4
  <2> HIDE DEF nextMine, nextAll
  <2>7. \A s \in DOMAIN all : \E status \in ScopeStatus : nextAll[s] = [all[s] EXCEPT !.status = status]
    <3> TAKE s \in DOMAIN all
    <3>1. all[s].status \in ScopeStatus /\ [all[s] EXCEPT !.status = all[s].status] = all[s]
      BY DEF ScopeState
    <3>2. CASE s = s0
      BY <2>2, <2>5, <3>2
    <3>3. CASE s # s0
      BY <2>5, <3>1, <3>3
    <3> QED BY <3>2, <3>3
  <2>8. \A s \in DOMAIN mine : nextMine[s] = nextAll[s]
    <3>1. nextMine[s0] = nextAll[s0]
      BY <2>2, <2>5
    <3>2. \A s \in DOMAIN mine : s # s0 => nextMine[s] = nextAll[s]
      BY <2>5 DEF Agrees
    <3> QED BY <3>1, <3>2
  <2>9. \A s \in DOMAIN all : s \notin DOMAIN mine => nextAll[s] = all[s]
    BY <2>2, <2>5
  <2> QED BY <2>1, <2>6, <2>7, <2>8, <2>9, ChangeCarries
<1>3. CASE ~(b.kind \in {"Start", "Close"} /\ Observes(b, all))
  BY <1>1, <1>3, NoChange DEF NextScopes
<1> QED BY <1>2, <1>3

-----------------------------------------------------------------------------
(* Jobs and clients.                                                       *)

LEMMA JobShape ==
  ASSUME NEW job \in Job
  PROVE  /\ job.op \in {"Coordinate", "Taint", "Abandon"}
         /\ job.worktree \in Worktrees
         /\ job.op = "Coordinate" => job.boundary \in Boundary /\ job.tree \in Trees
         /\ job.op = "Coordinate" /\ ~IsHook(job.boundary) => job.boundary.worktree = job.worktree
         /\ IsHookJob(job) => job.boundary \in HookBoundary /\ job.actor \in Actors
         /\ job.op = "Abandon" => job.scope \in Scopes
BY DEF Job, CoordinateJob, TaintJob, AbandonJob, Boundary, HookBoundary, FlushBoundary, HookKind,
       IsHook, IsHookJob

LEMMA ReferencedShape ==
  ASSUME NEW job \in Job
  PROVE  /\ Referenced(job) \subseteq Scopes
         /\ IsHookJob(job) => Referenced(job) = {job.boundary.scope}
         /\ job.op = "Abandon" => Referenced(job) = {job.scope}
         /\ job.op = "Taint" => Referenced(job) = {}
         /\ job.op = "Coordinate" /\ ~IsHook(job.boundary) => Referenced(job) = {}
BY JobShape DEF Referenced, IsHookJob, HookBoundary

LEMMA ClientShape ==
  ASSUME StoreInv, NEW c \in Clients
  PROVE  /\ client[c].pc \in Statements => client[c] \in Working
         /\ client[c].pc = "ok" => client[c] \in Succeeded
         /\ client[c] \in ClientState
         /\ ClientInv(client[c])
BY DEF StoreInv, ClientState, Working, Succeeded, Bare, Statements

LEMMA RowShape ==
  ASSUME Ledger!LedgerTypeOK
  PROVE  /\ \A w \in DOMAIN worktrees : w \in Worktrees /\ worktrees[w] \in WorktreeState
         /\ worktrees \in [DOMAIN worktrees -> WorktreeState]
         /\ DOMAIN scopes \subseteq Scopes /\ scopes \in [DOMAIN scopes -> ScopeState]
         /\ \A s \in DOMAIN scopes : scopes[s].worktree \in DOMAIN worktrees
BY DEF Ledger!LedgerTypeOK, Ledger!WorktreeState, WorktreeState, Ledger!ScopeState, ScopeState,
       Ledger!ScopeStatus, ScopeStatus

LEMMA RevisionsAreNumbers ==
  ASSUME NEW row \in WorktreeState
  PROVE  row.revision \in Nat /\ row.revision <= MaxRevision /\ MaxRevision \in Nat
BY RevisionBound DEF WorktreeState

-----------------------------------------------------------------------------
(* The refinement, commit by commit.                                       *)

\* A client whose revision still stands decides on what is there.
LEMMA GuardedReads ==
  ASSUME StoreInv, NEW c \in Clients, HasAll(client[c]),
         client[c].row.revision = worktrees[client[c].job.worktree].revision
  PROVE  LET me == client[c]
             w == me.job.worktree
         IN  /\ me \in Working /\ me.job \in Job
             /\ w \in DOMAIN worktrees /\ me.row = worktrees[w]
             /\ Agrees(me.scopes, scopes, w)
             /\ \A s \in Referenced(me.job) :
                  s \in DOMAIN me.scopes /\ s \in DOMAIN scopes /\ scopes[s].worktree = w
             /\ IsHookJob(me.job) => me.processed = {Key(me.job.boundary)} \cap processedEvents
<1>1. client[c] \in Working /\ ClientInv(client[c])
  BY ClientShape DEF HasAll, Statements
<1> QED BY <1>1 DEF ClientInv, Working, HasAll, HasRow, HasScopes, ReadsOneMoment, HasRegistered, HasDecided

\* The durable effect of a transition.
LEMMA AppliedTransition ==
  ASSUME NEW w, NEW t, ApplyTransition(w, t)
  PROVE  /\ worktrees' = [worktrees EXCEPT ![w] = t.row]
         /\ scopes' = Merged(scopes, t.statuses)
         /\ processedEvents' = processedEvents \cup t.keys
         /\ mutationEvents' = mutationEvents \cup t.evidence
         /\ history' = Ledger!Record(w, t.step, t.row, Merged(scopes, t.statuses), t.seen)
BY DEF ApplyTransition, Merged

\* What an applied recovery does, and that the projection goes along.
LEMMA AppliedRecovery ==
  ASSUME StoreInv, NEW c \in Clients, client[c].pc = "recover",
         GuardHolds(client[c].job.worktree, RecoverTransition(client[c])),
         ApplyTransition(client[c].job.worktree, RecoverTransition(client[c]))
  PROVE  LET me == client[c]
             w == me.job.worktree
             row == RecoverRow(me.row, me.job.tree)
             mine == RecoverScopes(me.row, me.scopes, w, me.pending)
             all == RecoverScopes(me.row, scopes, w, me.pending)
         IN  /\ me \in Working /\ me.job \in Job /\ me.job.op = "Coordinate"
             /\ w \in Worktrees /\ me.job.tree \in Trees /\ me.pending \in BOOLEAN
             /\ w \in DOMAIN worktrees /\ me.row = worktrees[w]
             /\ NeedsRecovery(me.row, me.pending)
             /\ Agrees(mine, all, w)
             /\ worktrees' = [worktrees EXCEPT ![w] = row]
             /\ scopes' = all
             /\ processedEvents' = processedEvents
             /\ mutationEvents' = mutationEvents
             /\ history' = Ledger!Record(w, "Recover", row, all, TRUE)
<1> DEFINE me == client[c]
           w == me.job.worktree
           row == RecoverRow(me.row, me.job.tree)
           next == RecoverScopes(me.row, me.scopes, w, me.pending)
           all == RecoverScopes(me.row, scopes, w, me.pending)
           t == RecoverTransition(me)
<1>1. me.row.revision = worktrees[w].revision /\ HasAll(me)
  BY DEF GuardHolds, RecoverTransition, Transition, HasAll
<1>2. /\ me \in Working /\ me.job \in Job /\ w \in DOMAIN worktrees /\ me.row = worktrees[w]
      /\ Agrees(me.scopes, scopes, w)
  BY <1>1, GuardedReads
<1>3. me.job.op = "Coordinate" /\ NeedsRecovery(me.row, me.pending)
  BY <1>1, ClientShape DEF ClientInv, KnowsItsJob, HasDecided
<1>4. w \in Worktrees /\ me.job.tree \in Trees /\ me.pending \in BOOLEAN
  BY <1>2, <1>3, JobShape DEF Working
<1>5. SameChange(me.scopes, next, scopes, all) /\ Agrees(next, all, w)
  BY <1>2, RecoverCarries, RowShape DEF StoreInv
<1>6. /\ t.row = row /\ t.keys = {} /\ t.evidence = {}
      /\ t.statuses = StatusChanges(me.scopes, next) /\ t.step = "Recover" /\ t.seen = TRUE
  BY DEF RecoverTransition, Transition
<1>7. Merged(scopes, t.statuses) = all
  BY <1>5, <1>6 DEF SameChange
<1>8. ApplyTransition(w, t)
  OBVIOUS
<1> HIDE DEF t, w, row, next, all, me
<1>9. /\ worktrees' = [worktrees EXCEPT ![w] = t.row]
      /\ scopes' = Merged(scopes, t.statuses)
      /\ processedEvents' = processedEvents \cup t.keys
      /\ mutationEvents' = mutationEvents \cup t.evidence
      /\ history' = Ledger!Record(w, t.step, t.row, Merged(scopes, t.statuses), t.seen)
  BY <1>8, AppliedTransition
<1>10. /\ worktrees' = [worktrees EXCEPT ![w] = row]
       /\ scopes' = all
       /\ processedEvents' = processedEvents
       /\ mutationEvents' = mutationEvents
       /\ history' = Ledger!Record(w, "Recover", row, all, TRUE)
  BY <1>6, <1>7, <1>9
<1> QED BY <1>2, <1>3, <1>4, <1>5, <1>10 DEF me, w, row, next, all

LEMMA RecoveryRefines ==
  ASSUME StoreInv, NEW c \in Clients, CommitRecovery(c)
  PROVE  [Ledger!LedgerNext]_(Ledger!ledgerVars)
<1> DEFINE me == client[c]
           w == me.job.worktree
<1>1. CASE UNCHANGED durableVars
  BY <1>1 DEF durableVars, Ledger!ledgerVars
<1>2. ASSUME HasHeadroom(me.row), GuardHolds(w, RecoverTransition(me)),
             ApplyTransition(w, RecoverTransition(me)), me.pc = "recover"
      PROVE  Ledger!LedgerNext
  <2>1. /\ w \in Worktrees /\ me.job.tree \in Trees /\ me.pending \in BOOLEAN
        /\ w \in DOMAIN worktrees /\ me.row = worktrees[w]
        /\ NeedsRecovery(me.row, me.pending)
        /\ worktrees' = [worktrees EXCEPT ![w] = RecoverRow(me.row, me.job.tree)]
        /\ scopes' = RecoverScopes(me.row, scopes, w, me.pending)
        /\ processedEvents' = processedEvents
        /\ mutationEvents' = mutationEvents
        /\ history' = Ledger!Record(w, "Recover", RecoverRow(me.row, me.job.tree),
                                    RecoverScopes(me.row, scopes, w, me.pending), TRUE)
    BY <1>2, AppliedRecovery
  <2>2. Ledger!Recover(w, me.job.tree, me.pending)
    BY <1>2, <2>1
       DEF Ledger!Recover, Ledger!NeedsRecovery, NeedsRecovery, Ledger!Unhealthy, Unhealthy,
           Ledger!HasHeadroom, HasHeadroom, Ledger!RecoverRow, RecoverRow, Ledger!RecoverScopes,
           RecoverScopes, Ledger!AbandonAll, AbandonAll, Ledger!LiveScopesOn, LiveScopesOn
  <2> HIDE DEF me, w
  <2> QED BY <2>1, <2>2 DEF Ledger!LedgerNext
<1> QED BY <1>1, <1>2 DEF CommitRecovery, Conflict, At

\* The atomic boundary, in the words of the store.
SettlesBoundary(b, w, captured) ==
  LET row == worktrees[w]
      plan == MakePlan(b, row, captured)
      next == NextRow(plan, row, scopes)
  IN  /\ Resolvable(b, worktrees, scopes)
      /\ w = BoundaryWorktree(b, scopes)
      /\ ~Replayed(b, processedEvents)
      /\ WouldAdvance(plan, scopes)
      /\ HasHeadroom(row)
      /\ worktrees' = [worktrees EXCEPT ![w] = next]
      /\ scopes' = NextScopes(b, scopes)
      /\ processedEvents' = NextProcessed(b, processedEvents)
      /\ mutationEvents' = mutationEvents \cup NewEvidence(plan, row, scopes, w, FALSE)
      /\ history' = Ledger!Record(w, b.kind, next, NextScopes(b, scopes),
                                  MovesCursor(plan, row, scopes))

LEMMA SettledBoundary ==
  ASSUME NEW b, NEW w, NEW captured, SettlesBoundary(b, w, captured)
  PROVE  Ledger!ApplyBoundary(b, captured)
<1>1. /\ Ledger!BoundaryWorktree(b, scopes) = BoundaryWorktree(b, scopes)
      /\ Ledger!Resolvable(b, worktrees, scopes) <=> Resolvable(b, worktrees, scopes)
      /\ Ledger!Replayed(b, processedEvents) <=> Replayed(b, processedEvents)
      /\ Ledger!NextProcessed(b, processedEvents) = NextProcessed(b, processedEvents)
      /\ Ledger!NextScopes(b, scopes) = NextScopes(b, scopes)
      /\ \A row : Ledger!HasHeadroom(row) <=> HasHeadroom(row)
      /\ \A row : Ledger!MakePlan(b, row, captured) = MakePlan(b, row, captured)
  BY DEF Ledger!BoundaryWorktree, BoundaryWorktree, Ledger!MakePlan, MakePlan,
         Ledger!Resolvable, Resolvable, Ledger!Replayed, Replayed, Ledger!HasHeadroom,
         HasHeadroom, Ledger!IsHook, IsHook, Ledger!Key, Key, Ledger!NextProcessed, NextProcessed,
         Ledger!NextScopes, NextScopes, Ledger!Observes, Observes
<1>2. \A plan : Ledger!TreeChanged(plan, scopes) <=> TreeChanged(plan, scopes)
  BY DEF Ledger!TreeChanged, TreeChanged, Ledger!Observes, Observes
<1>3. \A plan : Ledger!WouldAdvance(plan, scopes) <=> WouldAdvance(plan, scopes)
  BY <1>2 DEF Ledger!WouldAdvance, WouldAdvance, Ledger!IsHook, IsHook
<1>4. \A plan, row : Ledger!MovesCursor(plan, row, scopes) = MovesCursor(plan, row, scopes)
  BY DEF Ledger!MovesCursor, MovesCursor, Ledger!Observes, Observes
<1>5. \A plan, row : Ledger!NextRow(plan, row, scopes) = NextRow(plan, row, scopes)
  BY <1>3, <1>4 DEF Ledger!NextRow, NextRow
<1>6. \A plan, row : Ledger!NewEvidence(plan, row, scopes, w, FALSE)
                       = NewEvidence(plan, row, scopes, w, FALSE)
  <2> TAKE plan, row
  <2>1. Ledger!AttributionFor(row, scopes, w, FALSE) = AttributionFor(row, scopes, w, FALSE)
    BY DEF Ledger!AttributionFor, AttributionFor, Ledger!LiveScopesOn, LiveScopesOn,
           Ledger!Unhealthy, Unhealthy, Ledger!Ineligible, Ineligible
  <2>2. \A x : Ledger!HasUnconfirmedScope(scopes, w, x) <=> HasUnconfirmedScope(scopes, w, x)
    BY DEF Ledger!HasUnconfirmedScope, HasUnconfirmedScope, Ledger!LiveScopesOn, LiveScopesOn,
           Ledger!RequiresConfirmation, RequiresConfirmation, Ledger!Confirms, Confirms
  <2>3. Ledger!EvidenceOf(plan, row, scopes, w, FALSE) = EvidenceOf(plan, row, scopes, w, FALSE)
    BY <2>1, <2>2 DEF Ledger!EvidenceOf, EvidenceOf, Ledger!LiveScopesOn, LiveScopesOn,
           Ledger!AttributionForBoundary, AttributionForBoundary, Ledger!ClosesNeverSeen,
           ClosesNeverSeen, Ledger!Ineligible, Ineligible
  <2> QED BY <1>2, <2>3 DEF Ledger!NewEvidence, NewEvidence
<1>7. MakePlan(b, worktrees[w], captured).boundary = b
  BY DEF MakePlan
<1> QED BY <1>1, <1>3, <1>4, <1>5, <1>6, <1>7
        DEF SettlesBoundary, Ledger!ApplyBoundary, Ledger!ApplyPlan

\* A hook or a flush that changes something is the boundary of this moment.
LEMMA AppliedBoundary ==
  ASSUME StoreInv, NEW c \in Clients, client[c].pc = "commit", client[c].job.op = "Coordinate",
         HasTransition(client[c]), GuardHolds(client[c].job.worktree, CommitTransition(client[c])),
         ApplyTransition(client[c].job.worktree, CommitTransition(client[c]))
  PROVE  LET me == client[c]
             w == me.job.worktree
             b == me.job.boundary
         IN  /\ me \in Working /\ me.job \in Job
             /\ w \in DOMAIN worktrees /\ ~NeedsRecovery(worktrees[w], me.pending)
             /\ b \in Boundary /\ me.job.tree \in Trees
             /\ IsHook(b) => b.scope \in DOMAIN scopes /\ scopes[b.scope].worktree = w
             /\ SettlesBoundary(b, w, me.job.tree)
<1> DEFINE me == client[c]
           w == me.job.worktree
           b == me.job.boundary
           plan == MakePlan(b, me.row, me.job.tree)
           t == BoundaryTransition(me)
<1>1. CommitTransition(me) = t
  BY DEF CommitTransition
<1>2. plan.boundary = b
  BY DEF MakePlan
<1>3. /\ t.expected = me.row.revision
      /\ t.row = NextRow(plan, me.row, me.scopes)
      /\ t.statuses = StatusChanges(me.scopes, NextScopes(b, me.scopes))
      /\ t.keys = NextProcessed(b, me.processed) \ me.processed
      /\ t.evidence = NewEvidence(plan, me.row, me.scopes, w, FALSE)
      /\ t.step = b.kind
      /\ t.seen = MovesCursor(plan, me.row, me.scopes)
  BY <1>2 DEF BoundaryTransition, Transition
<1>4. HasAll(me) /\ me.row.revision = worktrees[w].revision
  BY <1>1, <1>3 DEF HasAll, GuardHolds
<1>5. /\ me \in Working /\ me.job \in Job /\ w \in DOMAIN worktrees /\ me.row = worktrees[w]
      /\ Agrees(me.scopes, scopes, w)
      /\ \A s \in Referenced(me.job) : s \in DOMAIN me.scopes /\ s \in DOMAIN scopes /\ scopes[s].worktree = w
      /\ IsHookJob(me.job) => me.processed = {Key(b)} \cap processedEvents
  BY <1>4, GuardedReads
<1>6. /\ b \in Boundary /\ me.job.tree \in Trees
      /\ ~IsHook(b) => b.worktree = w
      /\ IsHook(b) => IsHookJob(me.job) /\ Referenced(me.job) = {b.scope}
  BY <1>5, JobShape, ReferencedShape DEF IsHookJob
<1>7. /\ IsHook(b) => b.scope \in DOMAIN me.scopes /\ b.scope \in DOMAIN scopes
      /\ Resolvable(b, worktrees, scopes) /\ BoundaryWorktree(b, scopes) = w
  BY <1>5, <1>6 DEF Resolvable, BoundaryWorktree
<1>8. /\ Accepted(plan, me.row, me.scopes, FALSE, me.processed)
      /\ WouldAdvance(plan, me.scopes)
  BY DEF HasTransition
<1>9. ~Replayed(b, processedEvents) /\ HasHeadroom(me.row)
  <2>1. ~Replayed(b, me.processed) /\ HasHeadroom(me.row)
    BY <1>2, <1>8 DEF Accepted, Fresh
  <2> QED BY <1>5, <1>6, <2>1 DEF Replayed
<1>10. /\ WouldAdvance(plan, me.scopes) <=> WouldAdvance(plan, scopes)
       /\ MovesCursor(plan, me.row, me.scopes) = MovesCursor(plan, me.row, scopes)
       /\ NextRow(plan, me.row, me.scopes) = NextRow(plan, me.row, scopes)
       /\ NewEvidence(plan, me.row, me.scopes, w, FALSE) = NewEvidence(plan, me.row, scopes, w, FALSE)
  <2>1. Suffices(me.scopes, scopes, w, b) /\ b = plan.boundary
    BY <1>2, <1>5, <1>7 DEF Suffices
  <2> HIDE DEF me, w, b, plan
  <2>2. SameEffect(plan, me.scopes, scopes, w)
    BY <2>1, SameDecision
  <2> QED BY <2>2 DEF SameEffect
<1>11. Merged(scopes, t.statuses) = NextScopes(b, scopes)
  BY <1>3, <1>5, <1>7, BoundaryCarries, RowShape DEF StoreInv, SameChange
<1>12. processedEvents \cup t.keys = NextProcessed(b, processedEvents)
  BY <1>3, <1>5, <1>6, <1>9 DEF NextProcessed, Replayed
<1>13. ApplyTransition(w, t)
  BY <1>1
<1> HIDE DEF me, w, b, plan, t
<1>14. /\ worktrees' = [worktrees EXCEPT ![w] = t.row]
       /\ scopes' = Merged(scopes, t.statuses)
       /\ processedEvents' = processedEvents \cup t.keys
       /\ mutationEvents' = mutationEvents \cup t.evidence
       /\ history' = Ledger!Record(w, t.step, t.row, Merged(scopes, t.statuses), t.seen)
  BY <1>13, AppliedTransition
<1>15. SettlesBoundary(b, w, me.job.tree)
  BY <1>3, <1>5, <1>7, <1>8, <1>9, <1>10, <1>11, <1>12, <1>14 DEF SettlesBoundary, plan
<1>16. ~NeedsRecovery(me.row, me.pending)
  BY ClientShape DEF ClientInv, HasDecided, me
<1>17. IsHook(b) => b.scope \in DOMAIN scopes /\ scopes[b.scope].worktree = w
  BY <1>5, <1>6
<1> QED BY <1>5, <1>6, <1>15, <1>16, <1>17 DEF me, w, b

LEMMA BoundaryRefines ==
  ASSUME StoreInv, NEW c \in Clients, client[c].pc = "commit", client[c].job.op = "Coordinate",
         HasTransition(client[c]), GuardHolds(client[c].job.worktree, CommitTransition(client[c])),
         ApplyTransition(client[c].job.worktree, CommitTransition(client[c]))
  PROVE  Ledger!LedgerNext
<1> DEFINE b == client[c].job.boundary
           w == client[c].job.worktree
           captured == client[c].job.tree
<1>1. b \in Boundary /\ captured \in Trees /\ SettlesBoundary(b, w, captured)
  BY AppliedBoundary
<1> HIDE DEF b, w, captured
<1>2. Ledger!ApplyBoundary(b, captured)
  BY <1>1, SettledBoundary
<1>3. b \in Ledger!Boundary
  BY <1>1 DEF Ledger!Boundary, Boundary, Ledger!HookBoundary, HookBoundary,
         Ledger!FlushBoundary, FlushBoundary, Ledger!HookKind, HookKind
<1> QED BY <1>1, <1>2, <1>3 DEF Ledger!LedgerNext

\* A taint and an abandonment are those of this moment.
LEMMA AppliedTaint ==
  ASSUME StoreInv, NEW c \in Clients, client[c].pc = "commit", client[c].job.op = "Taint",
         HasTransition(client[c]), GuardHolds(client[c].job.worktree, CommitTransition(client[c])),
         ApplyTransition(client[c].job.worktree, CommitTransition(client[c]))
  PROVE  client[c].job.worktree \in Worktrees /\ Ledger!Taint(client[c].job.worktree)
<1> DEFINE me == client[c]
           w == me.job.worktree
           t == CommitTransition(me)
<1>1. /\ t.expected = me.row.revision /\ t.row = TaintRow(me.row)
      /\ t.statuses = StatusChanges(me.scopes, me.scopes)
      /\ t.keys = {} /\ t.evidence = {} /\ t.step = "Taint" /\ t.seen = FALSE
  BY DEF CommitTransition, Transition
<1>2. HasAll(me) /\ me.row.revision = worktrees[w].revision
  BY <1>1 DEF HasAll, GuardHolds
<1>3. /\ me.job \in Job /\ w \in DOMAIN worktrees /\ me.row = worktrees[w]
      /\ Agrees(me.scopes, scopes, w)
  BY <1>2, GuardedReads
<1>4. w \in Worktrees
  BY <1>3, JobShape
<1>5. Merged(scopes, t.statuses) = scopes
  BY <1>1, NoChange, RowShape DEF StoreInv, SameChange
<1>6. ~Unhealthy(me.row) /\ HasHeadroom(me.row)
  BY DEF HasTransition
<1> HIDE DEF me, w, t
<1>7. ApplyTransition(w, t)
  BY DEF me, w, t
<1>8. /\ worktrees' = [worktrees EXCEPT ![w] = t.row]
      /\ scopes' = scopes /\ processedEvents' = processedEvents /\ mutationEvents' = mutationEvents
      /\ history' = Ledger!Record(w, t.step, t.row, scopes, t.seen)
  BY <1>1, <1>5, <1>7, AppliedTransition
<1>9. Ledger!Taint(w)
  BY <1>1, <1>3, <1>6, <1>8
     DEF Ledger!Taint, Ledger!Unhealthy, Unhealthy, Ledger!HasHeadroom, HasHeadroom,
         Ledger!TaintRow, TaintRow
<1> QED BY <1>4, <1>9 DEF w, me

LEMMA AppliedAbandon ==
  ASSUME StoreInv, NEW c \in Clients, client[c].pc = "commit", client[c].job.op = "Abandon",
         HasTransition(client[c]), GuardHolds(client[c].job.worktree, CommitTransition(client[c])),
         ApplyTransition(client[c].job.worktree, CommitTransition(client[c]))
  PROVE  /\ client[c].job.scope \in Scopes
         /\ scopes[client[c].job.scope].worktree = client[c].job.worktree
         /\ Ledger!Abandon(client[c].job.scope)
<1> DEFINE me == client[c]
           w == me.job.worktree
           s == me.job.scope
           t == CommitTransition(me)
<1>1. /\ t.expected = me.row.revision /\ t.row = AbandonRow(me.row)
      /\ t.statuses = StatusChanges(me.scopes, AbandonAll(me.scopes, {s}))
      /\ t.keys = {} /\ t.evidence = {} /\ t.step = "Abandon" /\ t.seen = FALSE
  BY DEF CommitTransition, Transition
<1>2. HasAll(me) /\ me.row.revision = worktrees[w].revision
  BY <1>1 DEF HasAll, GuardHolds
<1>3. /\ me.job \in Job /\ w \in DOMAIN worktrees /\ me.row = worktrees[w]
      /\ Agrees(me.scopes, scopes, w)
      /\ \A x \in Referenced(me.job) : x \in DOMAIN me.scopes /\ x \in DOMAIN scopes /\ scopes[x].worktree = w
  BY <1>2, GuardedReads
<1>4. s \in Scopes /\ s \in DOMAIN me.scopes /\ s \in DOMAIN scopes /\ scopes[s].worktree = w
  BY <1>3, JobShape, ReferencedShape
<1>5. scopes[s].status = "Active"
  <2>1. me.scopes[s].status = "Active"
    BY ClientShape DEF ClientInv, HasDecided
  <2> QED BY <1>3, <1>4, <2>1 DEF Agrees
<1>6. Merged(scopes, t.statuses) = AbandonAll(scopes, {s})
  BY <1>1, <1>3, <1>4, AbandonCarries, RowShape DEF StoreInv, SameChange
<1>7. HasHeadroom(me.row)
  BY DEF HasTransition
<1> HIDE DEF me, w, s, t
<1>8. ApplyTransition(w, t)
  BY DEF me, w, t
<1>9. /\ worktrees' = [worktrees EXCEPT ![w] = t.row]
      /\ scopes' = AbandonAll(scopes, {s})
      /\ processedEvents' = processedEvents /\ mutationEvents' = mutationEvents
      /\ history' = Ledger!Record(w, t.step, t.row, AbandonAll(scopes, {s}), t.seen)
  <2>1. /\ worktrees' = [worktrees EXCEPT ![w] = t.row]
        /\ scopes' = Merged(scopes, t.statuses)
        /\ processedEvents' = processedEvents \cup t.keys
        /\ mutationEvents' = mutationEvents \cup t.evidence
        /\ history' = Ledger!Record(w, t.step, t.row, Merged(scopes, t.statuses), t.seen)
    BY <1>8, AppliedTransition
  <2> QED BY <1>1, <1>6, <2>1
<1>10. Ledger!Abandon(s)
  BY <1>1, <1>3, <1>4, <1>5, <1>7, <1>9
     DEF Ledger!Abandon, Ledger!HasHeadroom, HasHeadroom, Ledger!AbandonRow, AbandonRow,
         Ledger!AbandonAll, AbandonAll
<1> QED BY <1>4, <1>10 DEF s, w, me

LEMMA CommitRefines ==
  ASSUME StoreInv, NEW c \in Clients, CommitOperation(c)
  PROVE  [Ledger!LedgerNext]_(Ledger!ledgerVars)
<1>1. client[c].pc = "commit" /\ client[c].job.op \in {"Coordinate", "Taint", "Abandon"}
  <2>1. client[c].pc = "commit"
    BY DEF CommitOperation, At
  <2>2. client[c] \in Working
    BY <2>1, ClientShape DEF Statements
  <2> QED BY <2>1, <2>2, JobShape DEF Working
<1>2. CASE UNCHANGED durableVars
  BY <1>2 DEF durableVars, Ledger!ledgerVars
<1>3. CASE /\ HasTransition(client[c])
           /\ GuardHolds(client[c].job.worktree, CommitTransition(client[c]))
           /\ ApplyTransition(client[c].job.worktree, CommitTransition(client[c]))
  <2>1. CASE client[c].job.op = "Coordinate"
    BY <1>1, <1>3, <2>1, BoundaryRefines
  <2>2. CASE client[c].job.op = "Taint"
    BY <1>1, <1>3, <2>2, AppliedTaint DEF Ledger!LedgerNext
  <2>3. CASE client[c].job.op = "Abandon"
    BY <1>1, <1>3, <2>3, AppliedAbandon DEF Ledger!LedgerNext
  <2> QED BY <1>1, <2>1, <2>2, <2>3
<1> QED BY <1>2, <1>3 DEF CommitOperation, Conflict

\* Every statement is a step of the atomic specification, or changes nothing
\* durable.
LEMMA StatementRefines ==
  ASSUME StoreInv, NEW c \in Clients, StoreStep(c)
  PROVE  [Ledger!LedgerNext]_(Ledger!ledgerVars)
<1>1. CASE UNCHANGED durableVars
  BY <1>1 DEF durableVars, Ledger!ledgerVars
<1>2. CASE InitializeRow(c)
  <2>1. client[c] \in Working /\ client[c].job \in Job /\ client[c].job.op = "Coordinate"
    BY <1>2, ClientShape DEF InitializeRow, At, Statements, Working, ClientInv, KnowsItsJob
  <2>2. client[c].job.worktree \in Worktrees /\ client[c].job.tree \in Trees
    BY <2>1, JobShape
  <2> QED BY <1>1, <1>2, <2>2 DEF InitializeRow, Ledger!LedgerNext
<1>3. CASE RegisterRow(c)
  <2>1. client[c] \in Working /\ client[c].job \in Job /\ IsHookJob(client[c].job)
    BY <1>3, ClientShape DEF RegisterRow, At, Statements, Working, ClientInv, KnowsItsJob
  <2>2. /\ client[c].job.worktree \in Worktrees /\ client[c].job.actor \in Actors
        /\ client[c].job.boundary.scope \in Scopes
    BY <2>1, JobShape DEF HookBoundary
  <2> QED BY <1>1, <1>3, <2>2 DEF RegisterRow, Ledger!LedgerNext
<1>4. CASE FindScope(c) \/ LoadRow(c) \/ LoadActive(c) \/ LoadReferenced(c) \/ LoadProcessed(c)
  BY <1>1, <1>4 DEF FindScope, LoadRow, LoadActive, LoadReferenced, LoadProcessed
<1> QED BY <1>2, <1>3, <1>4, RecoveryRefines, CommitRefines DEF StoreStep

LEMMA StepRefines ==
  ASSUME StoreInv, [StoreNext]_storeVars
  PROVE  [Ledger!LedgerNext]_(Ledger!ledgerVars)
<1>1. ASSUME NEW c \in Clients,
             FailStatement(c) \/ Return(c) \/ \E r \in Requests : Begin(c, r[1], r[2])
      PROVE  UNCHANGED durableVars
  BY <1>1 DEF FailStatement, Return, Begin
<1>2. CASE UNCHANGED durableVars
  BY <1>2 DEF durableVars, Ledger!ledgerVars
<1>3. CASE UNCHANGED storeVars
  BY <1>2, <1>3 DEF storeVars, durableVars
<1> QED BY <1>1, <1>2, <1>3, StatementRefines DEF StoreNext

-----------------------------------------------------------------------------
(* What a step leaves to the clients that do not take it.                  *)

LEMMA SameAssumptions == MaxRevision \in Nat /\ Actors \subseteq Facts!ActorKind
BY RevisionBound, KnownActors DEF ActorKind, Facts!ActorKind

LEMMA SameType == Ledger!LedgerTypeOK <=> Facts!LedgerTypeOK
BY DEF Ledger!LedgerTypeOK, Facts!LedgerTypeOK, Ledger!WorktreeState, Facts!WorktreeState,
       Ledger!ScopeState, Facts!ScopeState, Ledger!ScopeStatus, Facts!ScopeStatus,
       Ledger!EventKey, Facts!EventKey, Ledger!Entry, Facts!Entry, Ledger!Step, Facts!Step,
       Ledger!HookKind, Facts!HookKind, Ledger!MutationEvent, Facts!MutationEvent,
       Ledger!Attribution, Facts!Attribution, Ledger!Boundary, Facts!Boundary,
       Ledger!HookBoundary, Facts!HookBoundary, Ledger!FlushBoundary, Facts!FlushBoundary

LEMMA SameRows ==
  /\ \A w, t : Ledger!InitializeWorktree(w, t) <=> Facts!InitializeWorktree(w, t)
  /\ \A s, w, actor : Ledger!RegisterScope(s, w, actor) <=> Facts!RegisterScope(s, w, actor)
BY DEF Ledger!InitializeWorktree, Facts!InitializeWorktree, Ledger!RegisterScope,
       Facts!RegisterScope, Ledger!Put, Facts!Put, Ledger!Record, Facts!Record,
       Ledger!InitialRow, Facts!InitialRow, Ledger!LiveScopesOn, Facts!LiveScopesOn

LEMMA SameFailures ==
  /\ \A w : Ledger!Taint(w) <=> Facts!Taint(w)
  /\ \A s : Ledger!Abandon(s) <=> Facts!Abandon(s)
  /\ \A w, t, tainted : Ledger!Recover(w, t, tainted) <=> Facts!Recover(w, t, tainted)
BY DEF Ledger!Taint, Facts!Taint, Ledger!Abandon, Facts!Abandon, Ledger!Recover, Facts!Recover,
       Ledger!Put, Facts!Put, Ledger!Record, Facts!Record, Ledger!LiveScopesOn,
       Facts!LiveScopesOn, Ledger!Unhealthy, Facts!Unhealthy, Ledger!HasHeadroom,
       Facts!HasHeadroom, Ledger!TaintRow, Facts!TaintRow, Ledger!AbandonRow, Facts!AbandonRow,
       Ledger!AbandonAll, Facts!AbandonAll, Ledger!RecoverRow, Facts!RecoverRow,
       Ledger!RecoverScopes, Facts!RecoverScopes, Ledger!NeedsRecovery, Facts!NeedsRecovery

LEMMA SameBoundary ==
  \A b, t : Ledger!ApplyBoundary(b, t) <=> Facts!ApplyBoundary(b, t)
BY DEF Ledger!ApplyBoundary, Facts!ApplyBoundary, Ledger!ApplyPlan, Facts!ApplyPlan,
       Ledger!Put, Facts!Put, Ledger!Record, Facts!Record, Ledger!LiveScopesOn,
       Facts!LiveScopesOn, Ledger!Unhealthy, Facts!Unhealthy, Ledger!HasHeadroom,
       Facts!HasHeadroom, Ledger!Resolvable, Facts!Resolvable, Ledger!IsHook, Facts!IsHook,
       Ledger!Replayed, Facts!Replayed, Ledger!Key, Facts!Key, Ledger!BoundaryWorktree,
       Facts!BoundaryWorktree, Ledger!MakePlan, Facts!MakePlan, Ledger!WouldAdvance,
       Facts!WouldAdvance, Ledger!TreeChanged, Facts!TreeChanged, Ledger!Observes,
       Facts!Observes, Ledger!MovesCursor, Facts!MovesCursor, Ledger!NextRow, Facts!NextRow,
       Ledger!NextScopes, Facts!NextScopes, Ledger!NextProcessed, Facts!NextProcessed,
       Ledger!NewEvidence, Facts!NewEvidence, Ledger!EvidenceOf, Facts!EvidenceOf,
       Ledger!AttributionForBoundary, Facts!AttributionForBoundary,
       Ledger!AttributionFor, Facts!AttributionFor, Ledger!ClosesNeverSeen,
       Facts!ClosesNeverSeen, Ledger!HasUnconfirmedScope, Facts!HasUnconfirmedScope,
       Ledger!RequiresConfirmation, Facts!RequiresConfirmation, Ledger!Confirms, Facts!Confirms,
       Ledger!Ineligible, Facts!Ineligible

LEMMA SameNext ==
  [Ledger!LedgerNext]_(Ledger!ledgerVars) <=> [Facts!LedgerNext]_(Facts!ledgerVars)
<1>1. Ledger!LedgerNext <=> Facts!LedgerNext
  <2>1. Ledger!Boundary = Facts!Boundary
    BY DEF Ledger!Boundary, Facts!Boundary, Ledger!HookBoundary, Facts!HookBoundary,
           Ledger!FlushBoundary, Facts!FlushBoundary, Ledger!HookKind, Facts!HookKind
  <2> QED BY <2>1, SameRows, SameFailures, SameBoundary DEF Ledger!LedgerNext, Facts!LedgerNext
<1>2. (UNCHANGED Ledger!ledgerVars) <=> (UNCHANGED Facts!ledgerVars)
  BY DEF Ledger!ledgerVars, Facts!ledgerVars
<1> QED BY <1>1, <1>2

\* Rows stay, revisions and deliveries grow, and a worktree whose revision
\* stands has been left alone.
DurableOnward ==
  /\ \A w \in DOMAIN worktrees :
       w \in DOMAIN worktrees' /\ worktrees[w].revision <= worktrees'[w].revision
  /\ \A s \in DOMAIN scopes : s \in DOMAIN scopes' /\ scopes'[s].worktree = scopes[s].worktree
  /\ processedEvents \subseteq processedEvents'
  /\ \A w \in DOMAIN worktrees : worktrees'[w].revision = worktrees[w].revision =>
       /\ worktrees'[w] = worktrees[w]
       /\ LiveScopesOn(scopes', w) = LiveScopesOn(scopes, w)
       /\ \A s \in DOMAIN scopes : scopes[s].worktree = w =>
            /\ scopes'[s] = scopes[s]
            /\ \A e : <<s, e>> \in processedEvents' => <<s, e>> \in processedEvents

GoesOn == Ledger!LedgerTypeOK' /\ DurableOnward

LEMMA LedgerGoesOn ==
  ASSUME Ledger!LedgerTypeOK, [Ledger!LedgerNext]_(Ledger!ledgerVars)
  PROVE  GoesOn
<1>1. Facts!LedgerTypeOK /\ [Facts!LedgerNext]_(Facts!ledgerVars)
  BY SameType, SameNext
<1>2. Facts!LedgerTypeOK'
  BY <1>1, Facts!TypeInductive, SameAssumptions
<1>3. Ledger!LedgerTypeOK' <=> Facts!LedgerTypeOK'
  BY SameType, PTL
<1>4. /\ DOMAIN worktrees \subseteq DOMAIN worktrees'
      /\ DOMAIN scopes \subseteq DOMAIN scopes'
      /\ \A s \in DOMAIN scopes : scopes'[s].worktree = scopes[s].worktree
  BY <1>1, Facts!RowsStay, SameAssumptions DEF Facts!Onward
<1>5. \A w \in DOMAIN worktrees : worktrees[w].revision <= worktrees'[w].revision
  BY <1>1, Facts!RevisionsGrow, SameAssumptions
<1>6. processedEvents \subseteq processedEvents'
  BY <1>1, Facts!DeliveriesStay, SameAssumptions
<1>7. ASSUME NEW w \in DOMAIN worktrees, worktrees'[w].revision = worktrees[w].revision
      PROVE  Facts!StandsStill(w)
  BY <1>1, <1>7, Facts!RevisionGuards, SameAssumptions
<1>8. \A w \in DOMAIN worktrees : worktrees'[w].revision = worktrees[w].revision =>
        /\ worktrees'[w] = worktrees[w]
        /\ LiveScopesOn(scopes', w) = LiveScopesOn(scopes, w)
        /\ \A s \in DOMAIN scopes : scopes[s].worktree = w =>
             /\ scopes'[s] = scopes[s]
             /\ \A e : <<s, e>> \in processedEvents' => <<s, e>> \in processedEvents
  BY <1>7 DEF Facts!StandsStill, Facts!LiveScopesOn, LiveScopesOn
<1> QED BY <1>2, <1>3, <1>4, <1>5, <1>6, <1>8 DEF GoesOn, DurableOnward

LEMMA NothingGoesOn ==
  ASSUME Ledger!LedgerTypeOK, UNCHANGED durableVars
  PROVE  GoesOn
BY LedgerGoesOn DEF durableVars, Ledger!ledgerVars

\* A client that does not act keeps what it knows.
LEMMA ReadsStand ==
  ASSUME Ledger!LedgerTypeOK, Ledger!LedgerTypeOK', DurableOnward, NEW me \in Working, me.job \in Job,
         HasRegistered(me), ReadsOneMoment(me)
  PROVE  HasRegistered(me)' /\ ReadsOneMoment(me)'
<1> DEFINE w == me.job.worktree
<1>1. HasRegistered(me)'
  BY DEF HasRegistered, DurableOnward, HasRow
<1>2. ASSUME HasRow(me)
      PROVE  /\ w \in DOMAIN worktrees' /\ me.row.revision <= worktrees'[w].revision
             /\ me.row.revision = worktrees'[w].revision =>
                  /\ me.row = worktrees'[w]
                  /\ HasScopes(me) => Agrees(me.scopes, scopes', w)
                  /\ HasAll(me) /\ IsHookJob(me.job) =>
                       me.processed = {Key(me.job.boundary)} \cap processedEvents'
  <2>1. /\ w \in DOMAIN worktrees /\ me.row \in WorktreeState
        /\ me.row.revision <= worktrees[w].revision
        /\ me.row.revision = worktrees[w].revision =>
             /\ me.row = worktrees[w]
             /\ HasScopes(me) => Agrees(me.scopes, scopes, w)
             /\ HasAll(me) /\ IsHookJob(me.job) =>
                  me.processed = {Key(me.job.boundary)} \cap processedEvents
    BY <1>2 DEF ReadsOneMoment
  <2>2. w \in DOMAIN worktrees' /\ worktrees[w].revision <= worktrees'[w].revision
    BY <2>1 DEF DurableOnward
  <2>3. /\ me.row.revision \in Nat /\ worktrees[w].revision \in Nat /\ worktrees'[w].revision \in Nat
    <3>1. worktrees[w] \in WorktreeState
      BY <2>1, RowShape
    <3>2. worktrees'[w] \in WorktreeState
      BY <2>2 DEF Ledger!LedgerTypeOK, Ledger!WorktreeState, WorktreeState
    <3> QED BY <2>1, <3>1, <3>2, RevisionsAreNumbers
  <2>4. ASSUME me.row.revision = worktrees'[w].revision
        PROVE  /\ me.row = worktrees'[w]
               /\ HasScopes(me) => Agrees(me.scopes, scopes', w)
               /\ HasAll(me) /\ IsHookJob(me.job) =>
                    me.processed = {Key(me.job.boundary)} \cap processedEvents'
    <3>1. worktrees'[w].revision = worktrees[w].revision /\ me.row.revision = worktrees[w].revision
      BY <2>1, <2>2, <2>3, <2>4
    <3>2. /\ worktrees'[w] = worktrees[w]
          /\ LiveScopesOn(scopes', w) = LiveScopesOn(scopes, w)
          /\ \A s \in DOMAIN scopes : scopes[s].worktree = w =>
               /\ scopes'[s] = scopes[s]
               /\ \A e : <<s, e>> \in processedEvents' => <<s, e>> \in processedEvents
      BY <2>1, <3>1 DEF DurableOnward
    <3>3. HasScopes(me) => Agrees(me.scopes, scopes', w)
      BY <2>1, <3>1, <3>2 DEF Agrees, DurableOnward
    <3>4. HasAll(me) /\ IsHookJob(me.job) =>
            me.processed = {Key(me.job.boundary)} \cap processedEvents'
      <4>1. IsHookJob(me.job) =>
              me.job.boundary.scope \in DOMAIN scopes /\ scopes[me.job.boundary.scope].worktree = w
        BY <1>2, ReferencedShape DEF HasRegistered
      <4>2. processedEvents \subseteq processedEvents'
        BY DEF DurableOnward
      <4> QED BY <2>1, <3>1, <3>2, <4>1, <4>2 DEF Key
    <3> QED BY <2>1, <3>1, <3>2, <3>3, <3>4
  <2> QED BY <2>1, <2>2, <2>3, <2>4
<1>3. ReadsOneMoment(me)'
  BY <1>2 DEF ReadsOneMoment, HasRow, HasScopes, HasAll
<1> QED BY <1>1, <1>3

LEMMA CountsStand ==
  ASSUME Ledger!LedgerTypeOK, Ledger!LedgerTypeOK', DurableOnward, NEW me \in Working,
         CountsLostRaces(me)
  PROVE  CountsLostRaces(me)'
<1> DEFINE w == me.job.worktree
<1>1. Lost(me) \in Int /\ me.base \in Int /\ me.pc \in Statements
  BY DEF Lost, Working
<1>2. ASSUME me.base # -1
      PROVE  w \in DOMAIN worktrees' /\ Lost(me) <= worktrees'[w].revision - me.base
  <2>1. w \in DOMAIN worktrees /\ Lost(me) <= worktrees[w].revision - me.base
    BY <1>1, <1>2 DEF CountsLostRaces
  <2>2. w \in DOMAIN worktrees' /\ worktrees[w].revision <= worktrees'[w].revision
    BY <2>1 DEF DurableOnward
  <2>3. worktrees[w].revision \in Nat /\ worktrees'[w].revision \in Nat
    <3>1. worktrees[w] \in WorktreeState
      BY <2>1, RowShape
    <3>2. worktrees'[w] \in WorktreeState
      BY <2>2 DEF Ledger!LedgerTypeOK, Ledger!WorktreeState, WorktreeState
    <3> QED BY <3>1, <3>2, RevisionsAreNumbers
  <2> QED BY <1>1, <2>1, <2>2, <2>3
<1> QED BY <1>1, <1>2 DEF CountsLostRaces, Lost, HasRow

LEMMA SettledStands ==
  ASSUME Ledger!LedgerTypeOK, Ledger!LedgerTypeOK', DurableOnward, NEW me, IsSettled(me)
  PROVE  IsSettled(me)'
<1> DEFINE w == me.job.worktree
<1>1. ASSUME w \in DOMAIN worktrees
      PROVE  /\ w \in DOMAIN worktrees'
             /\ worktrees[w].revision = MaxRevision => worktrees'[w].revision = MaxRevision
  <2>1. w \in DOMAIN worktrees' /\ worktrees[w].revision <= worktrees'[w].revision
    BY <1>1 DEF DurableOnward
  <2>2. worktrees'[w] \in WorktreeState
    BY <2>1 DEF Ledger!LedgerTypeOK, Ledger!WorktreeState, WorktreeState
  <2> QED BY <2>1, <2>2, RevisionsAreNumbers
<1> QED BY <1>1 DEF IsSettled, DurableOnward

LEMMA ClientStands ==
  ASSUME Ledger!LedgerTypeOK, Ledger!LedgerTypeOK', DurableOnward, NEW me \in ClientState,
         ClientInv(me)
  PROVE  ClientInv(me)'
<1>1. CASE me \in Working
  <2>1. me.job \in Job /\ me.pc \in Statements
    BY <1>1 DEF Working
  <2>2. HasRegistered(me)' /\ ReadsOneMoment(me)'
    BY <1>1, <2>1, ReadsStand DEF ClientInv
  <2>3. CountsLostRaces(me)'
    BY <1>1, CountsStand DEF ClientInv
  <2>4. IsSettled(me)'
    BY SettledStands DEF ClientInv
  <2>5. KnowsItsJob(me)' /\ HasDecided(me)'
    BY DEF ClientInv, KnowsItsJob, HasDecided, HasAll
  <2> QED BY <2>1, <2>2, <2>3, <2>4, <2>5 DEF ClientInv, DurableOnward
<1>2. CASE me \notin Working
  <2>1. me.pc \in {"ok", "idle", "error", "recoveryRequired"}
    BY <1>2 DEF ClientState, Succeeded, Bare
  <2>2. IsSettled(me)'
    BY SettledStands DEF ClientInv
  <2> QED BY <2>1, <2>2 DEF ClientInv, KnowsItsJob, HasRegistered, ReadsOneMoment, HasDecided,
             CountsLostRaces, HasRow, HasAll, Statements
<1> QED BY <1>1, <1>2

-----------------------------------------------------------------------------
(* What a step leaves to the client that takes it.                         *)

LEMMA OwnStep ==
  ASSUME StoreInv, GoesOn, NEW c \in Clients, NEW new \in ClientState,
         client' = [client EXCEPT ![c] = new], ClientInv(new)'
  PROVE  StoreInv'
<1>1. Ledger!LedgerTypeOK /\ Ledger!LedgerTypeOK' /\ DurableOnward
  BY DEF GoesOn, StoreInv
<1>2. client \in [Clients -> ClientState] /\ client' \in [Clients -> ClientState]
  BY DEF StoreInv
<1>3. ASSUME NEW d \in Clients
      PROVE  ClientInv(client[d])'
  <2>1. CASE d = c
    <3>1. client'[d] = new
      BY <1>2, <2>1
    <3> QED BY <3>1
  <2>2. CASE d # c
    <3>1. PICK other \in ClientState : other = client[d]
      BY <1>2
    <3>2. client'[d] = other
      BY <1>2, <2>2, <3>1
    <3>3. ClientInv(other)
      BY <3>1 DEF StoreInv
    <3>4. ClientInv(other)'
      BY <1>1, <3>3, ClientStands
    <3> QED BY <3>2, <3>4
  <2> QED BY <2>1, <2>2
<1> QED BY <1>1, <1>2, <1>3 DEF StoreInv

\* What the client knows before the durable state moves on, it knows after.
LEMMA KnownBefore ==
  ASSUME StoreInv, GoesOn, NEW c \in Clients, NEW new \in ClientState,
         client' = [client EXCEPT ![c] = new], ClientInv(new)
  PROVE  StoreInv'
<1>1. Ledger!LedgerTypeOK /\ Ledger!LedgerTypeOK' /\ DurableOnward
  BY DEF GoesOn, StoreInv
<1>2. ClientInv(new)'
  BY <1>1, ClientStands
<1> QED BY <1>2, OwnStep

\* A client that failed, or that is idle, knows nothing.
LEMMA KnowsNothing ==
  ASSUME NEW new \in Bare
  PROVE  new \in ClientState /\ ClientInv(new)
BY DEF Bare, ClientState, ClientInv, KnowsItsJob, HasRegistered, ReadsOneMoment, HasDecided,
       CountsLostRaces, IsSettled, HasRow, HasAll, Statements

LEMMA EndsBadly ==
  ASSUME StoreInv, GoesOn, NEW c \in Clients,
         NEW result \in {"error", "recoveryRequired"}, End(c, result)
  PROVE  StoreInv'
<1> DEFINE new == [pc |-> result]
<1>1. new \in Bare /\ client' = [client EXCEPT ![c] = new]
  BY DEF End, Bare
<1> HIDE DEF new
<1> QED BY <1>1, KnowsNothing, KnownBefore

\* A client that has returned the success of something other than a hook, or
\* of a hook that is settled.
LEMMA EndsWell ==
  ASSUME StoreInv, GoesOn, NEW c \in Clients, NEW job \in Job, NEW pending \in BOOLEAN,
         client[c].job = job, client[c].pending = pending, End(c, "ok"),
         IsSettled([pc |-> "ok", job |-> job, pending |-> pending])'
  PROVE  StoreInv'
<1> DEFINE new == [pc |-> "ok", job |-> job, pending |-> pending]
<1>1. new \in Succeeded /\ client' = [client EXCEPT ![c] = new]
  BY DEF End, Succeeded
<1>2. new.pc = "ok"
  OBVIOUS
<1>3. IsSettled(new)'
  OBVIOUS
<1> HIDE DEF new
<1>4. ClientInv(new)'
  BY <1>2, <1>3 DEF ClientInv, KnowsItsJob, HasRegistered, ReadsOneMoment, HasDecided,
     CountsLostRaces, HasRow, HasAll, Statements
<1> QED BY <1>1, <1>4, OwnStep DEF ClientState

LEMMA BeginKeeps ==
  ASSUME StoreInv, GoesOn, NEW c \in Clients, NEW job \in Job, NEW pending \in BOOLEAN,
         pending => job.op = "Coordinate", Begin(c, job, pending)
  PROVE  StoreInv'
<1> DEFINE new == Started(job, pending)
<1>1. job.op \in {"Coordinate", "Taint", "Abandon"}
  BY JobShape
<1>2. NoRows \in Projection
  BY DEF NoRows, Projection
<1>3. /\ new \in Working /\ new.job = job /\ new.pending = pending /\ new.tries = 0
      /\ new.base = -1 /\ ~new.recovered
      /\ new.pc = CASE job.op = "Coordinate" -> "initialize" [] job.op = "Taint" -> "loadRow"
                    [] job.op = "Abandon" -> "findScope"
      /\ new.processed = {}
  BY <1>1, <1>2 DEF Started, Working, Statements
<1>4. client' = [client EXCEPT ![c] = new]
  BY DEF Begin
<1>5. new.pc = "loadRow" => Referenced(new.job) = {}
  BY <1>1, <1>3, ReferencedShape
<1> HIDE DEF new
<1>6. ClientInv(new)
  BY <1>1, <1>3, <1>5
     DEF ClientInv, KnowsItsJob, HasRegistered, ReadsOneMoment, HasDecided, CountsLostRaces, IsSettled,
         HasRow, HasAll, Lost
<1> QED BY <1>3, <1>4, <1>6, KnownBefore DEF ClientState

\* A client that is still to load its row has only its job, its scope and
\* its count of races to remember.
LEMMA BeforeRow ==
  ASSUME NEW me \in Working, ClientInv(me), NEW new \in Working, KnowsItsJob(new),
         new.pc \in {"register", "findScope", "loadRow"},
         new.job = me.job, new.processed = me.processed, new.base = me.base,
         Lost(new) = Lost(me), HasRegistered(new)
  PROVE  ClientInv(new)
BY DEF ClientInv, ReadsOneMoment, HasDecided, CountsLostRaces, IsSettled, HasRow, HasAll, Working,
       Statements

LEMMA InitializeKeeps ==
  ASSUME StoreInv, GoesOn, NEW c \in Clients, InitializeRow(c)
  PROVE  StoreInv'
<1>1. client[c] \in Working /\ ClientInv(client[c]) /\ client[c].pc = "initialize"
  BY ClientShape DEF InitializeRow, At, Statements
<1>2. PICK me \in Working : me = client[c]
  BY <1>1
<1>3. me.job \in Job /\ me.job.op = "Coordinate"
  BY <1>1, <1>2 DEF Working, ClientInv, KnowsItsJob
<1> DEFINE pc == IF IsHook(me.job.boundary) THEN "register" ELSE "loadRow"
           new == [me EXCEPT !.pc = pc]
<1>4. client' = [client EXCEPT ![c] = new]
  BY <1>2 DEF InitializeRow, Goto
<1>5. /\ new \in Working /\ new.pc = pc /\ new.job = me.job /\ new.processed = me.processed
      /\ new.base = me.base /\ new.tries = me.tries /\ new.recovered = me.recovered
      /\ new.pending = me.pending
  BY DEF Working, Statements
<1>6. Lost(new) = Lost(me)
  BY <1>5 DEF Lost
<1>7. KnowsItsJob(new) /\ HasRegistered(new)
  <2>1. new.pc = "loadRow" => Referenced(new.job) = {}
    BY <1>3, <1>5, ReferencedShape
  <2> QED BY <1>3, <1>5, <2>1 DEF KnowsItsJob, HasRegistered, HasRow, IsHookJob
<1> HIDE DEF new
<1>8. ClientInv(new)
  BY <1>1, <1>2, <1>5, <1>6, <1>7, BeforeRow
<1> QED BY <1>4, <1>5, <1>8, KnownBefore DEF ClientState

LEMMA RegisterKeeps ==
  ASSUME StoreInv, GoesOn, NEW c \in Clients, RegisterRow(c)
  PROVE  StoreInv'
<1>1. client[c] \in Working /\ ClientInv(client[c]) /\ client[c].pc = "register"
  BY ClientShape DEF RegisterRow, At, Statements
<1>2. PICK me \in Working : me = client[c]
  BY <1>1
<1>3. me.job \in Job /\ IsHookJob(me.job) /\ me.pc = "register"
  BY <1>1, <1>2 DEF Working, ClientInv, KnowsItsJob
<1> DEFINE new == [me EXCEPT !.pc = "loadRow"]
           s == me.job.boundary.scope
<1>4. CASE Goto(c, "loadRow") /\ s \in DOMAIN scopes' /\ scopes'[s].worktree = me.job.worktree
  <2>1. client' = [client EXCEPT ![c] = new]
    BY <1>2, <1>4 DEF Goto
  <2>2. /\ new \in Working /\ new.pc = "loadRow" /\ new.job = me.job /\ new.processed = me.processed
        /\ new.base = me.base /\ new.tries = me.tries /\ new.recovered = me.recovered
        /\ new.pending = me.pending
    BY DEF Working, Statements
  <2>3. Referenced(new.job) = {s}
    BY <1>3, <2>2, ReferencedShape
  <2> HIDE DEF new, s
  <2>4. ClientInv(me)'
    <3>1. Ledger!LedgerTypeOK /\ Ledger!LedgerTypeOK' /\ DurableOnward /\ ClientInv(me) /\ me \in ClientState
      BY <1>1, <1>2 DEF GoesOn, StoreInv, ClientState
    <3> QED BY <3>1, ClientStands
  <2>5. HasRegistered(new)'
    BY <1>4, <2>2, <2>3 DEF HasRegistered
  <2>6. CountsLostRaces(new)'
    BY <1>3, <2>2, <2>4 DEF ClientInv, CountsLostRaces, Lost, HasRow, Working
  <2>7. ClientInv(new)'
    BY <1>3, <2>2, <2>4, <2>5, <2>6
       DEF ClientInv, KnowsItsJob, ReadsOneMoment, HasDecided, IsSettled, HasRow, HasAll, Working
  <2> QED BY <2>1, <2>2, <2>7, OwnStep DEF ClientState
<1>5. CASE End(c, "error")
  BY <1>5, EndsBadly
<1>6. CASE Ledger!RegisterScope(s, me.job.worktree, me.job.actor) /\ Goto(c, "loadRow")
  BY <1>4, <1>6 DEF Ledger!RegisterScope, Ledger!Put
<1>7. CASE /\ s \in DOMAIN scopes /\ scopes[s].worktree = me.job.worktree
           /\ Goto(c, "loadRow") /\ UNCHANGED durableVars
  BY <1>4, <1>7 DEF durableVars
<1> QED BY <1>2, <1>5, <1>6, <1>7 DEF RegisterRow

LEMMA FindKeeps ==
  ASSUME StoreInv, GoesOn, NEW c \in Clients, FindScope(c)
  PROVE  StoreInv'
<1>1. client[c] \in Working /\ ClientInv(client[c]) /\ client[c].pc = "findScope"
  BY ClientShape DEF FindScope, At, Statements
<1>2. PICK me \in Working : me = client[c]
  BY <1>1
<1>3. me.job \in Job /\ me.job.op = "Abandon" /\ (me.pending => me.job.op = "Coordinate")
  BY <1>1, <1>2 DEF Working, ClientInv, KnowsItsJob, Statements
<1>4. CASE /\ me.job.scope \in DOMAIN scopes /\ scopes[me.job.scope].worktree = me.job.worktree
           /\ Goto(c, "loadRow")
  <2> DEFINE new == [me EXCEPT !.pc = "loadRow"]
  <2>1. client' = [client EXCEPT ![c] = new]
    BY <1>2, <1>4 DEF Goto
  <2>2. /\ new \in Working /\ new.pc = "loadRow" /\ new.job = me.job /\ new.processed = me.processed
        /\ new.base = me.base /\ new.tries = me.tries /\ new.recovered = me.recovered
        /\ new.pending = me.pending
    BY DEF Working, Statements
  <2>3. Lost(new) = Lost(me)
    BY <2>2 DEF Lost
  <2>4. KnowsItsJob(new) /\ HasRegistered(new)
    BY <1>3, <1>4, <2>2, ReferencedShape DEF KnowsItsJob, HasRegistered
  <2> HIDE DEF new
  <2>5. ClientInv(new)
    BY <1>1, <1>2, <2>2, <2>3, <2>4, BeforeRow
  <2> QED BY <2>1, <2>2, <2>5, KnownBefore DEF ClientState
<1> QED BY <1>2, <1>4, EndsBadly DEF FindScope

-----------------------------------------------------------------------------
(* Loading.                                                                *)

\* The client counts the revision it has loaded.
RaceCount(me) ==
  /\ me.base # -1
  /\ Lost(me) <= me.row.revision - me.base
  /\ Lost(me) <= worktrees[me.job.worktree].revision - me.base

\* A complete projection, whatever the client is about to do with it.
WholeReading(me) ==
  LET w == me.job.worktree
  IN  /\ w \in DOMAIN worktrees /\ me.row \in WorktreeState
      /\ me.row.revision <= worktrees[w].revision
      /\ me.row.revision = worktrees[w].revision =>
           /\ me.row = worktrees[w]
           /\ Agrees(me.scopes, scopes, w)
           /\ IsHookJob(me.job) => me.processed = {Key(me.job.boundary)} \cap processedEvents
      /\ me.processed \subseteq processedEvents
      /\ me.pending => me.job.op = "Coordinate"
      /\ Referenced(me.job) \subseteq DOMAIN me.scopes
      /\ \A s \in Referenced(me.job) : s \in DOMAIN scopes /\ scopes[s].worktree = w
      /\ RaceCount(me)

LEMMA LoadRowKeeps ==
  ASSUME StoreInv, GoesOn, NEW c \in Clients, LoadRow(c)
  PROVE  StoreInv'
<1>1. client[c] \in Working /\ ClientInv(client[c]) /\ client[c].pc = "loadRow"
  BY ClientShape DEF LoadRow, At, Statements
<1>2. PICK me \in Working : me = client[c]
  BY <1>1
<1>3. me.job \in Job /\ me.pc = "loadRow"
  BY <1>1, <1>2 DEF Working
<1> DEFINE w == me.job.worktree
           base == IF me.base = -1 THEN worktrees[w].revision ELSE me.base
<1>4. CASE w \in DOMAIN worktrees
  <2>1. PICK row \in WorktreeState : row = worktrees[w]
    BY <1>4, RowShape DEF StoreInv
  <2>2. row.revision \in Nat
    BY <2>1, RevisionsAreNumbers
  <2>3. PICK b \in Int : b = base
    BY <2>1, <2>2 DEF Working
  <2> DEFINE new == [me EXCEPT !.pc = "loadActive", !.row = row, !.base = b]
  <2>4. client' = [client EXCEPT ![c] = new]
    BY <1>2, <1>4, <2>1, <2>3 DEF LoadRow, Working
  <2>5. /\ new \in Working /\ new.pc = "loadActive" /\ new.job = me.job /\ new.processed = me.processed
        /\ new.row = row /\ new.base = b /\ new.tries = me.tries /\ new.recovered = me.recovered
        /\ new.pending = me.pending
    BY DEF Working, Statements
  <2>6. Lost(new) = Lost(me) /\ Lost(me) \in Nat
    BY <2>5 DEF Lost, Working
  <2> HIDE DEF new
  <2>7. CountsLostRaces(new)
    <3>1. b # -1 /\ Lost(me) <= row.revision - b
      <4>1. CASE me.base = -1
        <5>1. Lost(me) = 0
          BY <1>1, <1>2, <4>1 DEF ClientInv, CountsLostRaces, Statements
        <5> QED BY <2>1, <2>2, <2>3, <4>1, <5>1
      <4>2. CASE me.base # -1
        <5>1. Lost(me) <= worktrees[w].revision - me.base
          BY <1>1, <1>2, <4>2 DEF ClientInv, CountsLostRaces, Statements
        <5> QED BY <2>1, <2>3, <4>2, <5>1
      <4> QED BY <4>1, <4>2
    <3> QED BY <1>4, <2>1, <2>5, <2>6, <3>1 DEF CountsLostRaces
  <2>8. HasRegistered(new)
    BY <1>1, <1>2, <1>3, <2>5 DEF ClientInv, HasRegistered
  <2>9. ReadsOneMoment(new)
    BY <1>4, <2>1, <2>2, <2>5 DEF ReadsOneMoment, HasScopes, HasAll
  <2>10. ClientInv(new)
    BY <1>1, <1>2, <1>3, <2>5, <2>7, <2>8, <2>9
       DEF ClientInv, KnowsItsJob, HasDecided, IsSettled, HasAll, Statements
  <2> QED BY <2>4, <2>5, <2>10, KnownBefore DEF ClientState
<1>5. CASE w \notin DOMAIN worktrees
  BY <1>2, <1>5, EndsBadly DEF LoadRow, MissingRowResult
<1> QED BY <1>4, <1>5

\* What follows a complete projection, by the operation.
LEMMA LoadDecides ==
  ASSUME NEW me, me.job.op \in {"Coordinate", "Taint", "Abandon"}
  PROVE  /\ AfterLoad(me) \in {"recover", "commit", "ok", "recoveryRequired"}
         /\ AfterLoad(me) = "ok" => me.job.op = "Abandon"
         /\ AfterLoad(me) = "recover" => me.job.op = "Coordinate" /\ NeedsRecovery(me.row, me.pending)
         /\ AfterLoad(me) = "commit" =>
              /\ me.job.op = "Coordinate" => ~NeedsRecovery(me.row, me.pending)
              /\ me.job.op = "Abandon" => me.scopes[me.job.scope].status = "Active"
<1>1. CASE me.job.op = "Coordinate"
  BY <1>1 DEF AfterLoad
<1>2. CASE me.job.op = "Taint"
  BY <1>2 DEF AfterLoad
<1>3. CASE me.job.op = "Abandon"
  <2> DEFINE status == me.scopes[me.job.scope].status
  <2>1. CASE status = "NeverSeen"
    BY <1>3, <2>1 DEF AfterLoad
  <2>2. CASE status = "Active"
    BY <1>3, <2>2 DEF AfterLoad
  <2>3. CASE status \notin {"NeverSeen", "Active"}
    <3>1. AfterLoad(me) = "ok"
      BY <1>3, <2>3 DEF AfterLoad
    <3> QED BY <1>3, <3>1
  <2> QED BY <2>1, <2>2, <2>3
<1> QED BY <1>1, <1>2, <1>3

\* The kernel decides on a complete projection.
LEMMA LoadedKeeps ==
  ASSUME StoreInv, GoesOn, NEW c \in Clients, NEW me \in Working,
         client[c].job = me.job, client[c].pending = me.pending,
         WholeReading(me), Loaded(c, me)
  PROVE  StoreInv'
<1>1. me.job \in Job /\ me.job.op \in {"Coordinate", "Taint", "Abandon"} /\ me.pending \in BOOLEAN
  BY JobShape DEF Working
<1>2. /\ AfterLoad(me) \in {"recover", "commit", "ok", "recoveryRequired"}
      /\ AfterLoad(me) = "ok" => me.job.op = "Abandon"
      /\ AfterLoad(me) = "recover" => me.job.op = "Coordinate" /\ NeedsRecovery(me.row, me.pending)
      /\ AfterLoad(me) = "commit" =>
           /\ me.job.op = "Coordinate" => ~NeedsRecovery(me.row, me.pending)
           /\ me.job.op = "Abandon" => me.scopes[me.job.scope].status = "Active"
  BY <1>1, LoadDecides
<1>3. CASE AfterLoad(me) = "recoveryRequired"
  BY <1>3, EndsBadly DEF Loaded, Results
<1>4. CASE AfterLoad(me) = "ok"
  <2> DEFINE done == [pc |-> "ok", job |-> me.job, pending |-> me.pending]
  <2>1. End(c, "ok")
    BY <1>4 DEF Loaded, Results
  <2>2. IsSettled(done)'
    BY <1>2, <1>4 DEF IsSettled, IsHookJob, WholeReading
  <2> QED BY <1>1, <2>1, <2>2, EndsWell
<1>5. CASE AfterLoad(me) \in {"recover", "commit"}
  <2>1. PICK pc \in {"recover", "commit"} : pc = AfterLoad(me)
    BY <1>5
  <2> DEFINE new == [me EXCEPT !.pc = pc]
  <2>2. client' = [client EXCEPT ![c] = new]
    BY <1>5, <2>1 DEF Loaded, Results
  <2>3. /\ new \in Working /\ new.pc = pc /\ new.job = me.job /\ new.processed = me.processed
        /\ new.row = me.row /\ new.scopes = me.scopes /\ new.pending = me.pending
        /\ new.base = me.base /\ new.tries = me.tries /\ new.recovered = me.recovered
        /\ new.pending = me.pending
    BY DEF Working, Statements
  <2>4. Lost(new) = Lost(me)
    BY <2>3 DEF Lost
  <2> HIDE DEF new
  <2>5. KnowsItsJob(new) /\ HasDecided(new)
    BY <1>2, <2>1, <2>3 DEF KnowsItsJob, HasDecided, HasAll, WholeReading
  <2>6. HasRegistered(new) /\ ReadsOneMoment(new) /\ new.processed \subseteq processedEvents
    BY <2>3 DEF HasRegistered, ReadsOneMoment, WholeReading
  <2>7. CountsLostRaces(new)
    BY <2>3, <2>4 DEF CountsLostRaces, WholeReading, RaceCount
  <2>8. IsSettled(new)
    BY <2>3 DEF IsSettled
  <2>9. ClientInv(new)
    BY <2>5, <2>6, <2>7, <2>8 DEF ClientInv
  <2> QED BY <2>2, <2>3, <2>9, KnownBefore DEF ClientState
<1> QED BY <1>2, <1>3, <1>4, <1>5

LEMMA ActiveRows ==
  ASSUME Ledger!LedgerTypeOK, NEW w
  PROVE  /\ ScopeRows(LiveScopesOn(scopes, w)) \in Projection
         /\ Agrees(ScopeRows(LiveScopesOn(scopes, w)), scopes, w)
<1> DEFINE live == LiveScopesOn(scopes, w)
<1>1. live \subseteq DOMAIN scopes /\ live \subseteq Scopes
  BY RowShape DEF LiveScopesOn
<1>2. \A s \in live : scopes[s] \in ScopeState
  BY <1>1, RowShape
<1>3. ScopeRows(live) \in [live -> ScopeState]
  BY <1>2 DEF ScopeRows
<1>4. live \in SUBSET Scopes
  BY <1>1
<1> HIDE DEF live
<1>5. ScopeRows(live) \in Projection
  BY <1>3, <1>4 DEF Projection
<1>6. Agrees(ScopeRows(live), scopes, w)
  BY <1>1 DEF Agrees, ScopeRows, live, LiveScopesOn
<1> QED BY <1>5, <1>6 DEF live

\* What a client with its row knows, whatever it has read besides.
RowKnown(me) ==
  LET w == me.job.worktree
  IN  /\ w \in DOMAIN worktrees /\ me.row \in WorktreeState
      /\ me.row.revision <= worktrees[w].revision
      /\ me.row.revision = worktrees[w].revision => me.row = worktrees[w]
      /\ me.processed \subseteq processedEvents
      /\ me.pending => me.job.op = "Coordinate"
      /\ \A s \in Referenced(me.job) : s \in DOMAIN scopes /\ scopes[s].worktree = w
      /\ RaceCount(me)

LEMMA KnowsRow ==
  ASSUME NEW me \in Working, ClientInv(me), HasRow(me)
  PROVE  RowKnown(me)
BY DEF ClientInv, KnowsItsJob, HasRegistered, ReadsOneMoment, CountsLostRaces, RowKnown, RaceCount,
       Working

LEMMA LoadActiveKeeps ==
  ASSUME StoreInv, GoesOn, NEW c \in Clients, LoadActive(c)
  PROVE  StoreInv'
<1>1. client[c] \in Working /\ ClientInv(client[c]) /\ client[c].pc = "loadActive"
  BY ClientShape DEF LoadActive, At, Statements
<1>2. PICK me \in Working : me = client[c]
  BY <1>1
<1>3. me.job \in Job /\ ClientInv(me) /\ RowKnown(me)
  BY <1>1, <1>2, KnowsRow DEF Working, HasRow
<1> DEFINE w == me.job.worktree
<1>4. PICK rows \in Projection : rows = ScopeRows(LiveScopesOn(scopes, w))
  BY ActiveRows DEF StoreInv
<1>5. Agrees(rows, scopes, w)
  BY <1>4, ActiveRows DEF StoreInv
<1> DEFINE read == [me EXCEPT !.scopes = rows]
<1>6. /\ read \in Working /\ read.pc = me.pc /\ read.job = me.job /\ read.processed = me.processed
      /\ read.row = me.row /\ read.scopes = rows /\ read.pending = me.pending
      /\ read.base = me.base /\ read.tries = me.tries /\ read.recovered = me.recovered
  BY DEF Working
<1>7. Lost(read) = Lost(me)
  BY <1>6 DEF Lost
<1>8. CASE Referenced(me.job) = {} /\ Loaded(c, read)
  <2> HIDE DEF read
  <2>1. ~IsHookJob(me.job)
    BY <1>3, <1>8, ReferencedShape
  <2>2. RaceCount(read)
    BY <1>3, <1>6, <1>7 DEF RowKnown, RaceCount
  <2>3. WholeReading(read)
    BY <1>3, <1>5, <1>6, <1>8, <2>1, <2>2 DEF WholeReading, RowKnown
  <2>4. Loaded(c, read)
    BY <1>8
  <2> QED BY <1>2, <1>6, <2>3, <2>4, LoadedKeeps
<1>9. CASE client' = [client EXCEPT ![c] = [read EXCEPT !.pc = "loadReferenced"]]
  <2> DEFINE new == [read EXCEPT !.pc = "loadReferenced"]
  <2>1. /\ new \in Working /\ new.pc = "loadReferenced" /\ new.job = me.job
        /\ new.processed = me.processed /\ new.row = me.row /\ new.scopes = rows
        /\ new.base = me.base /\ new.tries = me.tries /\ new.recovered = me.recovered
        /\ new.pending = me.pending
    BY <1>6 DEF Working, Statements
  <2>2. Lost(new) = Lost(me)
    BY <2>1 DEF Lost
  <2>3. client' = [client EXCEPT ![c] = new]
    BY <1>9
  <2> HIDE DEF new, read
  <2>4. CountsLostRaces(new)
    BY <1>3, <2>1, <2>2 DEF CountsLostRaces, RowKnown, RaceCount
  <2>5. HasRegistered(new) /\ ReadsOneMoment(new)
    BY <1>3, <1>5, <2>1 DEF HasRegistered, ReadsOneMoment, RowKnown, HasAll
  <2>6. ClientInv(new)
    BY <1>3, <2>1, <2>4, <2>5 DEF ClientInv, KnowsItsJob, HasDecided, IsSettled, HasAll, RowKnown
  <2> QED BY <2>1, <2>3, <2>6, KnownBefore DEF ClientState
<1>10. CASE LoadActive(c)
  BY <1>2, <1>4, <1>8, <1>9, <1>10 DEF LoadActive
<1> QED BY <1>10

LEMMA LoadReferencedKeeps ==
  ASSUME StoreInv, GoesOn, NEW c \in Clients, LoadReferenced(c)
  PROVE  StoreInv'
<1>1. client[c] \in Working /\ ClientInv(client[c]) /\ client[c].pc = "loadReferenced"
  BY ClientShape DEF LoadReferenced, At, Statements
<1>2. PICK me \in Working : me = client[c]
  BY <1>1
<1>3. /\ me.job \in Job /\ me.scopes \in Projection /\ ClientInv(me) /\ RowKnown(me)
      /\ Referenced(me.job) \subseteq Scopes
  BY <1>1, <1>2, KnowsRow, ReferencedShape DEF Working, HasRow
<1> DEFINE w == me.job.worktree
           missing == Referenced(me.job) \ DOMAIN me.scopes
           more == [s \in DOMAIN me.scopes \cup missing |->
                      IF s \in missing THEN scopes[s] ELSE me.scopes[s]]
<1>4. /\ missing \subseteq DOMAIN scopes /\ missing \subseteq Scopes
      /\ \A s \in missing : scopes[s] \in ScopeState /\ scopes[s].worktree = w
  BY <1>3, RowShape DEF RowKnown, StoreInv
<1>5. more \in Projection
  <2>1. PICK known \in SUBSET Scopes : me.scopes \in [known -> ScopeState]
    BY <1>3 DEF Projection
  <2>2. DOMAIN me.scopes \cup missing \in SUBSET Scopes
    BY <1>4, <2>1
  <2>3. more \in [DOMAIN me.scopes \cup missing -> ScopeState]
    BY <1>4, <2>1
  <2> HIDE DEF more, missing
  <2> QED BY <2>2, <2>3 DEF Projection
<1>6. Agrees(me.scopes, scopes, w) => Agrees(more, scopes, w)
  BY <1>4 DEF Agrees
<1>7. Referenced(me.job) \subseteq DOMAIN more
  OBVIOUS
<1>8. PICK rows \in Projection : rows = more
  BY <1>5
<1> DEFINE read == [me EXCEPT !.scopes = rows]
<1>9. /\ read \in Working /\ read.pc = me.pc /\ read.job = me.job /\ read.processed = me.processed
      /\ read.row = me.row /\ read.scopes = rows /\ read.pending = me.pending
      /\ read.base = me.base /\ read.tries = me.tries /\ read.recovered = me.recovered
  BY DEF Working
<1>10. Lost(read) = Lost(me)
  BY <1>9 DEF Lost
<1>11. read = [client[c] EXCEPT !.scopes =
                [s \in DOMAIN @ \cup missing |-> IF s \in missing THEN scopes[s] ELSE @[s]]]
  BY <1>2, <1>8
<1>12. /\ Referenced(me.job) \subseteq DOMAIN rows
       /\ me.row.revision = worktrees[w].revision => Agrees(rows, scopes, w)
  BY <1>1, <1>2, <1>3, <1>6, <1>7, <1>8 DEF ClientInv, ReadsOneMoment, HasScopes, HasRow
<1>13. CASE ~IsHookJob(me.job) /\ Loaded(c, read)
  <2> HIDE DEF read
  <2>1. RaceCount(read)
    BY <1>3, <1>9, <1>10 DEF RowKnown, RaceCount
  <2>2. WholeReading(read)
    BY <1>3, <1>9, <1>12, <1>13, <2>1 DEF WholeReading, RowKnown
  <2>3. Loaded(c, read)
    BY <1>13
  <2> QED BY <1>2, <1>9, <2>2, <2>3, LoadedKeeps
<1>14. CASE IsHookJob(me.job) /\ client' = [client EXCEPT ![c] = [read EXCEPT !.pc = "loadProcessed"]]
  <2> DEFINE new == [read EXCEPT !.pc = "loadProcessed"]
  <2>1. /\ new \in Working /\ new.pc = "loadProcessed" /\ new.job = me.job
        /\ new.processed = me.processed /\ new.row = me.row /\ new.scopes = rows
        /\ new.base = me.base /\ new.tries = me.tries /\ new.recovered = me.recovered
        /\ new.pending = me.pending
    BY <1>9 DEF Working, Statements
  <2>2. Lost(new) = Lost(me)
    BY <2>1 DEF Lost
  <2>3. client' = [client EXCEPT ![c] = new]
    BY <1>14
  <2> HIDE DEF new, read
  <2>4. CountsLostRaces(new)
    BY <1>3, <2>1, <2>2 DEF CountsLostRaces, RowKnown, RaceCount
  <2>5. HasRegistered(new) /\ ReadsOneMoment(new)
    BY <1>3, <1>12, <2>1 DEF HasRegistered, ReadsOneMoment, RowKnown, HasAll
  <2>6. ClientInv(new)
    BY <1>3, <1>12, <1>14, <2>1, <2>4, <2>5 DEF ClientInv, KnowsItsJob, HasDecided, IsSettled, HasAll, RowKnown
  <2> QED BY <2>1, <2>3, <2>6, KnownBefore DEF ClientState
<1>15. IF IsHookJob(me.job)
       THEN client' = [client EXCEPT ![c] = [read EXCEPT !.pc = "loadProcessed"]]
       ELSE Loaded(c, read)
  BY <1>2, <1>11 DEF LoadReferenced
<1> QED BY <1>13, <1>14, <1>15

LEMMA LoadProcessedKeeps ==
  ASSUME StoreInv, GoesOn, NEW c \in Clients, LoadProcessed(c)
  PROVE  StoreInv'
<1>1. client[c] \in Working /\ ClientInv(client[c]) /\ client[c].pc = "loadProcessed"
  BY ClientShape DEF LoadProcessed, At, Statements
<1>2. PICK me \in Working : me = client[c]
  BY <1>1
<1>3. /\ me.job \in Job /\ ClientInv(me) /\ RowKnown(me) /\ IsHookJob(me.job)
  BY <1>1, <1>2, KnowsRow DEF Working, HasRow, ClientInv, KnowsItsJob
<1>4. PICK keys \in SUBSET EventKey : keys = {Key(me.job.boundary)} \cap processedEvents
  <2>1. processedEvents \subseteq EventKey
    BY DEF StoreInv, Ledger!LedgerTypeOK, Ledger!EventKey, EventKey
  <2> QED BY <2>1
<1> DEFINE read == [me EXCEPT !.processed = keys]
<1>5. /\ read \in Working /\ read.job = me.job /\ read.processed = keys
      /\ read.row = me.row /\ read.scopes = me.scopes /\ read.pending = me.pending
      /\ read.base = me.base /\ read.tries = me.tries /\ read.recovered = me.recovered
  BY DEF Working
<1>6. Lost(read) = Lost(me)
  BY <1>5 DEF Lost
<1>7. Loaded(c, read)
  BY <1>2, <1>4 DEF LoadProcessed
<1>8. /\ me.row.revision = worktrees[me.job.worktree].revision =>
           Agrees(me.scopes, scopes, me.job.worktree)
  BY <1>1, <1>2 DEF ClientInv, ReadsOneMoment, HasScopes, HasRow
<1>9. Referenced(me.job) \subseteq DOMAIN me.scopes
  BY <1>1, <1>2 DEF ClientInv, HasDecided
<1> HIDE DEF read
<1>10. RaceCount(read)
  BY <1>3, <1>5, <1>6 DEF RowKnown, RaceCount
<1>11. WholeReading(read)
  BY <1>3, <1>4, <1>5, <1>8, <1>9, <1>10 DEF WholeReading, RowKnown
<1> QED BY <1>2, <1>5, <1>7, <1>11, LoadedKeeps

-----------------------------------------------------------------------------
(* Committing.                                                             *)

LEMMA ConflictKeeps ==
  ASSUME StoreInv, GoesOn, NEW c \in Clients, HasAll(client[c]),
         client[c].row.revision # worktrees[client[c].job.worktree].revision, Conflict(c)
  PROVE  StoreInv'
<1>1. client[c] \in Working /\ ClientInv(client[c])
  BY ClientShape DEF HasAll, Statements
<1>2. PICK me \in Working : me = client[c]
  BY <1>1
<1>3. /\ me.job \in Job /\ me.job.op \in {"Coordinate", "Taint", "Abandon"}
      /\ me.tries \in Nat /\ me.base \in Int /\ HasRow(me) /\ ClientInv(me)
      /\ me.pending => me.job.op = "Coordinate"
  BY <1>1, <1>2, JobShape DEF Working, HasAll, HasRow, ClientInv, KnowsItsJob, Statements
<1> DEFINE w == me.job.worktree
           new == AfterConflict(me)
<1>4. CASE End(c, "error")
  BY <1>4, EndsBadly
<1>5. CASE client' = [client EXCEPT ![c] = AfterConflict(@)]
  <2>1. client' = [client EXCEPT ![c] = new]
    BY <1>2, <1>5
  <2>2. NoRows \in Projection
    BY DEF NoRows, Projection
  <2>3. /\ new \in Working /\ new.job = me.job /\ new.processed = {} /\ new.tries = me.tries + 1
        /\ new.base = me.base /\ new.recovered = me.recovered /\ new.pending = me.pending
        /\ new.pc = IF me.job.op = "Abandon" THEN "findScope" ELSE "loadRow"
    <3>1. PICK tries \in Nat, pc \in Statements, rows \in Projection :
            /\ tries = me.tries + 1 /\ rows = NoRows
            /\ pc = IF me.job.op = "Abandon" THEN "findScope" ELSE "loadRow"
      BY <1>3, <2>2 DEF Statements
    <3>2. new = [me EXCEPT !.tries = tries, !.row = NoRows, !.scopes = rows, !.processed = {}, !.pc = pc]
      BY <3>1 DEF AfterConflict
    <3> QED BY <3>1, <3>2 DEF Working
  <2>4. Lost(me) \in Nat /\ Lost(new) = Lost(me) + 1
    BY <1>3, <2>3 DEF Lost
  <2> HIDE DEF new
  <2>5. CountsLostRaces(new)
    <3>1. w \in DOMAIN worktrees /\ me.row \in WorktreeState /\ me.row.revision <= worktrees[w].revision
      BY <1>3 DEF ClientInv, ReadsOneMoment
    <3>2. me.row.revision \in Nat /\ worktrees[w].revision \in Nat
      BY <3>1, RowShape, RevisionsAreNumbers DEF StoreInv
    <3>3. me.base # -1 /\ Lost(me) <= me.row.revision - me.base
      BY <1>3 DEF ClientInv, CountsLostRaces, Working
    <3>4. Lost(new) <= worktrees[w].revision - new.base
      BY <1>2, <1>3, <2>3, <2>4, <3>1, <3>2, <3>3
    <3> QED BY <2>3, <3>1, <3>3, <3>4 DEF CountsLostRaces, HasRow
  <2>6. HasRegistered(new)
    BY <1>3, <2>3 DEF ClientInv, HasRegistered, HasRow
  <2>7. ClientInv(new)
    BY <1>3, <2>3, <2>5, <2>6
       DEF ClientInv, KnowsItsJob, ReadsOneMoment, HasDecided, IsSettled, HasRow, HasAll
  <2> QED BY <2>1, <2>3, <2>7, KnownBefore DEF ClientState
<1> QED BY <1>4, <1>5 DEF Conflict

LEMMA RecoverScopesShape ==
  ASSUME NEW mine \in Projection, NEW row, NEW w, NEW tainted
  PROVE  /\ RecoverScopes(row, mine, w, tainted) \in Projection
         /\ DOMAIN RecoverScopes(row, mine, w, tainted) = DOMAIN mine
<1> DEFINE gone == LiveScopesOn(mine, w)
           next == AbandonAll(mine, gone)
<1>1. PICK known \in SUBSET Scopes : mine \in [known -> ScopeState]
  BY DEF Projection
<1>2. next \in [known -> ScopeState]
  <2>1. ASSUME NEW s \in known
        PROVE  next[s] \in ScopeState
    <3>1. mine[s] \in ScopeState
      BY <1>1
    <3>2. [mine[s] EXCEPT !.status = "Abandoned"] \in ScopeState
      BY <3>1 DEF ScopeState, ScopeStatus
    <3> HIDE DEF gone
    <3> QED BY <1>1, <3>1, <3>2 DEF AbandonAll
  <2>2. DOMAIN next = known /\ next = [s \in known |-> next[s]]
    BY <1>1 DEF AbandonAll
  <2> HIDE DEF next
  <2> QED BY <2>1, <2>2
<1>3. next \in Projection /\ DOMAIN next = DOMAIN mine
  BY <1>1, <1>2 DEF Projection
<1> HIDE DEF next
<1> QED BY <1>3 DEF RecoverScopes, next

LEMMA RecoveredKeeps ==
  ASSUME StoreInv, GoesOn, NEW c \in Clients, client[c].pc = "recover",
         HasHeadroom(client[c].row),
         GuardHolds(client[c].job.worktree, RecoverTransition(client[c])),
         ApplyTransition(client[c].job.worktree, RecoverTransition(client[c])),
         client' = [client EXCEPT ![c] = Recovered(client[c])]
  PROVE  StoreInv'
<1>1. client[c] \in Working /\ ClientInv(client[c])
  BY ClientShape DEF Statements
<1>2. PICK me \in Working : me = client[c]
  BY <1>1
<1> DEFINE w == me.job.worktree
           row == RecoverRow(me.row, me.job.tree)
           mine == RecoverScopes(me.row, me.scopes, w, me.pending)
           all == RecoverScopes(me.row, scopes, w, me.pending)
           new == Recovered(me)
<1>3. /\ me.job \in Job /\ me.job.op = "Coordinate" /\ me.job.tree \in Trees
      /\ w \in DOMAIN worktrees /\ me.row = worktrees[w]
      /\ Agrees(mine, all, w)
      /\ worktrees' = [worktrees EXCEPT ![w] = row]
      /\ scopes' = all
      /\ processedEvents' = processedEvents
  BY <1>2, AppliedRecovery
<1>4. /\ me.pc = "recover" /\ ClientInv(me) /\ HasHeadroom(me.row) /\ me.row \in WorktreeState
      /\ me.scopes \in Projection /\ me.tries \in Nat /\ me.base \in Int
  BY <1>1, <1>2, <1>3, RowShape DEF Working, StoreInv
<1>5. /\ me.row.revision \in Nat /\ row \in WorktreeState /\ row.revision = me.row.revision + 1
      /\ row.failure = "Healthy" /\ row.rebaseline = FALSE
  <2>1. me.row.revision \in Nat /\ me.row.revision < MaxRevision /\ MaxRevision \in Nat
    BY <1>4, RevisionsAreNumbers DEF HasHeadroom
  <2>2. me.row.revision + 1 \in 0..MaxRevision
    BY <2>1
  <2> QED BY <1>3, <2>1, <2>2 DEF RecoverRow, WorktreeState
<1>6. mine \in Projection /\ DOMAIN mine = DOMAIN me.scopes
  BY <1>4, RecoverScopesShape
<1> HIDE DEF row, mine, all
<1>7. /\ new \in Working /\ new.pc = "commit" /\ new.job = me.job /\ new.processed = me.processed
      /\ new.row = row /\ new.scopes = mine /\ new.pending = FALSE
      /\ new.base = me.base /\ new.tries = me.tries /\ new.recovered = TRUE
  BY <1>5, <1>6 DEF Recovered, Working, Statements, row, mine
<1>8. client' = [client EXCEPT ![c] = new]
  BY <1>2
<1>9. w \in DOMAIN worktrees' /\ worktrees'[w] = row
  BY <1>3
<1> HIDE DEF new
<1>10. Lost(new) \in Nat /\ Lost(new) <= Lost(me) + 1 /\ Lost(me) \in Nat
  BY <1>4, <1>7 DEF Lost
<1>11. CountsLostRaces(new)'
  <2>1. me.base # -1 /\ Lost(me) <= me.row.revision - me.base
    BY <1>4 DEF ClientInv, CountsLostRaces, Statements, HasRow
  <2>2. Lost(new) <= row.revision - me.base
    BY <1>4, <1>5, <1>10, <2>1
  <2> QED BY <1>7, <1>9, <2>1, <2>2 DEF CountsLostRaces, Lost
<1>12. HasRegistered(new)'
  <2>1. \A s \in Referenced(me.job) : s \in DOMAIN scopes /\ scopes[s].worktree = w
    BY <1>4 DEF ClientInv, HasRegistered, HasRow
  <2>2. DurableOnward
    BY DEF GoesOn
  <2> QED BY <1>7, <2>1, <2>2 DEF HasRegistered, DurableOnward
<1>13. ReadsOneMoment(new)'
  <2>1. IsHookJob(me.job) => me.processed = {Key(me.job.boundary)} \cap processedEvents
    BY <1>3, <1>4 DEF ClientInv, ReadsOneMoment, HasAll, HasRow
  <2> QED BY <1>3, <1>5, <1>7, <1>9, <2>1 DEF ReadsOneMoment
<1>14. KnowsItsJob(new)' /\ HasDecided(new)'
  <2>1. Referenced(me.job) \subseteq DOMAIN me.scopes
    BY <1>4 DEF ClientInv, HasDecided, HasAll
  <2>2. ~NeedsRecovery(row, FALSE)
    BY <1>5 DEF NeedsRecovery, Unhealthy
  <2> QED BY <1>3, <1>6, <1>7, <2>1, <2>2 DEF KnowsItsJob, HasDecided
<1>15. new.processed \subseteq processedEvents'
  BY <1>3, <1>4, <1>7 DEF ClientInv, Statements
<1>16. ClientInv(new)'
  BY <1>7, <1>11, <1>12, <1>13, <1>14, <1>15 DEF ClientInv, IsSettled
<1> QED BY <1>7, <1>8, <1>16, OwnStep DEF ClientState

LEMMA CommitRecoveryKeeps ==
  ASSUME StoreInv, GoesOn, NEW c \in Clients, CommitRecovery(c)
  PROVE  StoreInv'
<1>1. client[c].pc = "recover" /\ HasAll(client[c])
  BY DEF CommitRecovery, At, HasAll
<1>2. CASE End(c, "error")
  BY <1>2, EndsBadly
<1>3. CASE /\ ~GuardHolds(client[c].job.worktree, RecoverTransition(client[c]))
           /\ Conflict(c)
  BY <1>1, <1>3, ConflictKeeps DEF GuardHolds, RecoverTransition, Transition
<1> QED BY <1>1, <1>2, <1>3, RecoveredKeeps DEF CommitRecovery

\* A hook that returns without a transition was a repeated delivery, or its
\* worktree has no revision left; one that returns with a transition has
\* recorded its delivery.
LEMMA CommitOperationKeeps ==
  ASSUME StoreInv, GoesOn, NEW c \in Clients, CommitOperation(c)
  PROVE  StoreInv'
<1>1. client[c].pc = "commit" /\ HasAll(client[c])
  BY DEF CommitOperation, At, HasAll
<1>2. client[c] \in Working /\ ClientInv(client[c])
  BY <1>1, ClientShape DEF Statements
<1>3. PICK me \in Working : me = client[c]
  BY <1>2
<1>4. /\ me.job \in Job /\ me.job.op \in {"Coordinate", "Taint", "Abandon"}
      /\ me.pending \in BOOLEAN /\ me.pc = "commit" /\ ClientInv(me)
  BY <1>1, <1>2, <1>3, JobShape DEF Working
<1> DEFINE w == me.job.worktree
           b == me.job.boundary
           plan == MakePlan(b, me.row, me.job.tree)
           t == CommitTransition(me)
           done == [pc |-> "ok", job |-> me.job, pending |-> me.pending]
<1>5. t.expected = me.row.revision
  BY <1>4 DEF CommitTransition, BoundaryTransition, Transition
<1>6. CASE End(c, "error")
  BY <1>6, EndsBadly
<1>7. CASE ~GuardHolds(w, t) /\ Conflict(c)
  BY <1>1, <1>3, <1>5, <1>7, ConflictKeeps DEF GuardHolds
<1>8. IsHookJob(me.job) => me.job.op = "Coordinate" /\ ~me.pending /\ IsHook(b)
  BY <1>4 DEF IsHookJob, ClientInv, HasDecided, NeedsRecovery
<1>9. me.job.op # "Taint" => ~me.pending
  BY <1>4 DEF ClientInv, KnowsItsJob, HasDecided, NeedsRecovery, Statements
<1>10. w \in DOMAIN worktrees /\ w \in DOMAIN worktrees'
  <2>1. w \in DOMAIN worktrees
    BY <1>4 DEF ClientInv, ReadsOneMoment, HasRow
  <2> QED BY <2>1 DEF GoesOn, DurableOnward
<1>11. CASE ~HasTransition(me) /\ UNCHANGED durableVars /\ End(c, "ok") /\ me.job.op # "Taint"
  <2>1. ASSUME IsHookJob(me.job)
        PROVE  Key(b) \in processedEvents \/ worktrees[w].revision = MaxRevision
    <3>1. plan.boundary = b /\ plan.expected = me.row.revision /\ plan.before = me.row.cursor
      BY DEF MakePlan
    <3>2. IsHook(b)
      BY <1>8, <2>1
    <3>3. WouldAdvance(plan, me.scopes)
      BY <3>1, <3>2 DEF WouldAdvance
    <3>4. ~Accepted(plan, me.row, me.scopes, FALSE, me.processed)
      BY <1>8, <1>11, <2>1, <3>3 DEF HasTransition
    <3>5. Replayed(b, me.processed) \/ ~HasHeadroom(me.row)
      BY <3>1, <3>4 DEF Accepted, Fresh
    <3>6. CASE Replayed(b, me.processed)
      BY <1>4, <3>6 DEF Replayed, ClientInv, Statements
    <3>7. CASE ~HasHeadroom(me.row)
      <4>1. /\ me.row \in WorktreeState /\ worktrees[w] \in WorktreeState
            /\ me.row.revision <= worktrees[w].revision
        BY <1>4, <1>10, RowShape DEF ClientInv, ReadsOneMoment, HasRow, StoreInv
      <4> QED BY <3>7, <4>1, RevisionsAreNumbers DEF HasHeadroom
    <3> QED BY <3>5, <3>6, <3>7
  <2>2. IsSettled(done)'
    BY <1>9, <1>10, <1>11, <2>1 DEF IsSettled, durableVars
  <2> QED BY <1>3, <1>4, <1>11, <2>2, EndsWell
<1>12. CASE HasTransition(me) /\ ApplyTransition(w, t) /\ End(c, "ok") /\ me.job.op # "Taint"
  <2>1. ASSUME IsHookJob(me.job)
        PROVE  Key(b) \in processedEvents'
    <3>1. IsHook(b) /\ t.keys = NextProcessed(b, me.processed) \ me.processed
      BY <1>8, <2>1 DEF CommitTransition, BoundaryTransition, Transition, MakePlan
    <3>2. processedEvents' = processedEvents \cup t.keys
      BY <1>12 DEF ApplyTransition
    <3>3. me.processed \subseteq processedEvents
      BY <1>4 DEF ClientInv, Statements
    <3> HIDE DEF t
    <3> QED BY <3>1, <3>2, <3>3 DEF NextProcessed
  <2>2. IsSettled(done)'
    BY <1>9, <1>10, <1>12, <2>1 DEF IsSettled
  <2> QED BY <1>3, <1>4, <1>12, <2>2, EndsWell
<1>13. CASE CommitOperation(c)
  BY <1>3, <1>4, <1>6, <1>7, <1>11, <1>12, <1>13 DEF CommitOperation, ResultWithoutTransition
<1> QED BY <1>13

\* A client that starts over, at the end of its operation or because its
\* process is no more.
LEMMA IdleKeeps ==
  ASSUME StoreInv, GoesOn, NEW c \in Clients, client' = [client EXCEPT ![c] = Idle]
  PROVE  StoreInv'
<1>1. Idle \in Bare
  BY DEF Idle, Bare
<1> QED BY <1>1, KnowsNothing, KnownBefore

LEMMA StatementKeeps ==
  ASSUME StoreInv, NEW c \in Clients, StoreStep(c)
  PROVE  StoreInv' /\ GoesOn
<1>1. GoesOn
  BY StatementRefines, LedgerGoesOn DEF StoreInv
<1> QED
  BY <1>1, InitializeKeeps, RegisterKeeps, FindKeeps, LoadRowKeeps, LoadActiveKeeps,
     LoadReferencedKeeps, LoadProcessedKeeps, CommitRecoveryKeeps, CommitOperationKeeps DEF StoreStep

LEMMA StutterKeeps ==
  ASSUME StoreInv, UNCHANGED storeVars
  PROVE  StoreInv'
<1>1. Ledger!LedgerTypeOK /\ Ledger!LedgerTypeOK' /\ DurableOnward
  BY NothingGoesOn DEF GoesOn, StoreInv, storeVars, durableVars
<1>2. client' = client /\ client \in [Clients -> ClientState]
  BY DEF storeVars, StoreInv
<1>3. ASSUME NEW c \in Clients
      PROVE  ClientInv(client[c])'
  <2>1. PICK me \in ClientState : me = client[c]
    BY <1>2
  <2>2. ClientInv(me)
    BY <2>1 DEF StoreInv
  <2>3. ClientInv(me)' /\ client'[c] = me
    BY <1>1, <1>2, <2>1, <2>2, ClientStands
  <2> QED BY <2>3
<1> QED BY <1>1, <1>2, <1>3 DEF StoreInv

-----------------------------------------------------------------------------
(* The theorems.                                                           *)

LEMMA InvInit ==
  ASSUME StoreInit
  PROVE  StoreInv
<1>1. Facts!LedgerInit
  BY DEF StoreInit, Ledger!LedgerInit, Facts!LedgerInit
<1>2. Ledger!LedgerTypeOK
  BY <1>1, SameType, Facts!TypeInit, SameAssumptions
<1>3. Idle \in Bare /\ client = [c \in Clients |-> Idle]
  BY DEF StoreInit, Idle, Bare
<1> QED BY <1>2, <1>3, KnowsNothing DEF StoreInv

LEMMA InvNext ==
  ASSUME StoreInv, [StoreNext]_storeVars
  PROVE  StoreInv'
<1>1. GoesOn
  BY StepRefines, LedgerGoesOn DEF StoreInv
<1>2. ASSUME NEW c \in Clients,
             FailStatement(c) \/ Return(c) \/ \E r \in Requests : Begin(c, r[1], r[2])
      PROVE  StoreInv'
  <2>1. \A r \in Requests : r[1] \in Job /\ r[2] \in BOOLEAN /\ (r[2] => r[1].op = "Coordinate")
    BY KnownRequests
  <2> QED BY <1>1, <1>2, <2>1, EndsBadly, IdleKeeps, BeginKeeps DEF FailStatement, Return
<1> QED BY <1>2, StatementKeeps, StutterKeeps DEF StoreNext

THEOREM Invariant == StoreSpec => []StoreInv
<1>1. StoreInit => StoreInv
  BY InvInit
<1>2. StoreInv /\ [StoreNext]_storeVars => StoreInv'
  BY InvNext
<1> QED BY <1>1, <1>2, PTL DEF StoreSpec

\* The store implements the atomic specification: whichever moments the
\* SELECTs of load_worktree saw, a transaction whose revision guard held is
\* one boundary, failure or recovery of the moment at which it committed.
THEOREM Refinement == StoreSpec => StoreImplementsLedger
<1>1. StoreInit => Ledger!LedgerInit
  BY DEF StoreInit
<1>2. StoreInv /\ [StoreNext]_storeVars => [Ledger!LedgerNext]_(Ledger!ledgerVars)
  BY StepRefines
<1> QED BY <1>1, <1>2, Invariant, PTL DEF StoreSpec, StoreImplementsLedger, Ledger!LedgerSpec

\* What the invariant says of the retries and of what is reported.
LEMMA StoreInvSays ==
  ASSUME StoreInv
  PROVE  RetriesAreLostRaces /\ ReportedHookIsSettled
<1>1. ASSUME NEW c \in Clients, client[c].pc \in Statements, client[c].base # -1
      PROVE  client[c].tries + (IF client[c].recovered THEN 1 ELSE 0)
               <= worktrees[client[c].job.worktree].revision - client[c].base
  BY <1>1, ClientShape DEF ClientInv, CountsLostRaces, Lost
<1>2. ASSUME NEW c \in Clients, At(c, "ok"), IsHookJob(client[c].job)
      PROVE  /\ ~client[c].pending
             /\ \/ Key(client[c].job.boundary) \in processedEvents
                \/ worktrees[client[c].job.worktree].revision = MaxRevision
  BY <1>2, ClientShape DEF ClientInv, IsSettled, At
<1> QED BY <1>1, <1>2 DEF RetriesAreLostRaces, ReportedHookIsSettled

\* coordinate_boundary and abandon_scope reload only after a race that
\* another client won: MAX_CAS_RETRY_ATTEMPTS bounds lost races, not retries
\* of their own making.
THEOREM RacesAreLost == StoreSpec => []RetriesAreLostRaces
BY StoreInvSays, Invariant, PTL

\* A hook that coordinate_boundary reported as done is durable, whatever the
\* other clients did in between, and no recovery it was asked for is pending.
THEOREM ReportIsSettled == StoreSpec => []ReportedHookIsSettled
BY StoreInvSays, Invariant, PTL

\* The shared database keeps every promise of the ledger about its evidence,
\* whichever clients recorded it: it is the movement of the cursor and nothing
\* else, never positive before the recovery of a failure or across a change of
\* the live scopes, confirmed where the harness must confirm it, and counted
\* once however often a delivery is retried.
THEOREM StoreKeepsPromises ==
  StoreSpec => [](Facts!EvidenceIsCursorMovement /\ Facts!CursorMovesAreRecorded
                    /\ Facts!RecoveryPrecedesTrust /\ Facts!PositiveEvidenceHasOneLiveSet
                    /\ Facts!ConfirmedAtClose /\ Facts!DeliveryCountsOnce)
<1>1. StoreInit => Facts!LedgerInit
  BY DEF StoreInit, Ledger!LedgerInit, Facts!LedgerInit
<1>2. StoreInv /\ [StoreNext]_storeVars => [Facts!LedgerNext]_(Facts!ledgerVars)
  BY StepRefines, SameNext
<1>3. StoreSpec => Facts!LedgerSpec
  BY <1>1, <1>2, Invariant, PTL DEF StoreSpec, Facts!LedgerSpec
<1>4. Facts!LedgerSpec => /\ []Facts!EvidenceIsCursorMovement /\ []Facts!CursorMovesAreRecorded
                          /\ []Facts!RecoveryPrecedesTrust
                          /\ []Facts!PositiveEvidenceHasOneLiveSet
                          /\ []Facts!ConfirmedAtClose /\ []Facts!DeliveryCountsOnce
  BY SameAssumptions, Facts!EvidenceCorrect, Facts!MovesRecorded, Facts!TrustAfterRecovery,
     Facts!OneLiveSet, Facts!ConfirmedWhenPositive, Facts!DeliveryOnce, PTL
<1> QED BY <1>3, <1>4, PTL

-----------------------------------------------------------------------------
(* The runtime and the guarded shell: the inductive invariant.             *)

AnyCall == Calls \cup GuardCall

Phases == {"waiting", "locked", "armed", "supervising", "finishing", "storing"}
Process == {Unserved} \cup [phase : Phases, call : AnyCall, inherited : BOOLEAN]

\* Who may have made an edit.
Authors == Somebody \cup {"shell"}

RuntimeTypeOK ==
  /\ holder \in [Worktrees -> SUBSET (Clients \cup {"group"})]
  /\ marker \in SUBSET Worktrees /\ lost \in SUBSET Worktrees
  /\ process \in [Clients -> Process]
  /\ tree \in [Worktrees -> 0..MaxEdits]
  /\ DOMAIN author = Worktrees
  /\ \A w \in Worktrees : author[w] \in [1..tree[w] -> Authors]
  /\ tool \in [Scopes -> {"new", "running", "over"}]
  /\ group \in [Worktrees -> SUBSET Members]

\* Past the lock; past the marker.
Holds(c) == process[c].phase \in Phases \ {"waiting"}
Guarded(c) == process[c].phase \in {"armed", "supervising", "finishing", "storing"}
On(c) == CallOf(c).worktree

\* An interval that is lost, or that a shell had and no capture has passed.
ByShell(w) == {v \in DOMAIN author[w] : author[w][v] = "shell"}
Uncovered(w) ==
  \/ w \in lost
  \/ \E v \in ByShell(w) : w \in DOMAIN worktrees => v > worktrees[w].cursor

\* What a client is at work on, for its process.
Busy(c) == client[c].pc \in Statements \cup {"ok"}
JobFits(c) ==
  /\ client[c].job.worktree = On(c)
  /\ client[c].pc \in Statements /\ client[c].job.op = "Coordinate" =>
       LET captured == client[c].job.tree
       IN  /\ captured <= tree[On(c)]
           /\ On(c) \in DOMAIN worktrees => worktrees[On(c)].cursor <= captured
           /\ \A v \in ByShell(On(c)) : v <= captured
  /\ Uncovered(On(c)) => client[c].job.op = "Taint" \/ client[c].pending

\* A process past the lock holds it, and is alone with a living group only
\* as its guard.  Past the marker the marker is there; whoever found an
\* uncovered interval has found the marker, and passes a recovery before
\* anything else.  A capture is later than the cursor and contains what any
\* shell has written.
ProcessInv(c) ==
  /\ Holds(c) => /\ c \in holder[On(c)]
                 /\ group[On(c)] # {} => Serving(c, "supervising")
  /\ Guarded(c) => On(c) \in marker
  /\ Serving(c, "armed") /\ Uncovered(On(c)) => process[c].inherited
  /\ process[c].phase # "storing" => client[c] = Idle
  /\ Serving(c, "storing") => client[c].pc # "idle" /\ (Busy(c) => JobFits(c))

\* One process at a time is past the lock, a living group keeps it, and what
\* is uncovered is marked.
WorktreeInv(w) ==
  /\ \A c, d \in holder[w] \cap Clients : c = d
  /\ group[w] # {} => "group" \in holder[w] /\ w \in marker
  /\ Uncovered(w) => w \in marker
  /\ w \in DOMAIN worktrees => worktrees[w].cursor <= tree[w]

\* What was recorded lies behind the present tree and has nothing of a shell.
RecordInv ==
  \A e \in mutationEvents :
    /\ e.worktree \in Worktrees
    /\ e.before < e.after /\ e.after <= tree[e.worktree]
    /\ \A v \in ByShell(e.worktree) : ~(e.before < v /\ v <= e.after)

GuardInv ==
  /\ StoreInv
  /\ RuntimeTypeOK
  /\ \A c \in Clients : ProcessInv(c)
  /\ \A w \in Worktrees : WorktreeInv(w)
  /\ RecordInv

-----------------------------------------------------------------------------
(* What one statement does to its worktree.                                *)

\* The client's recovery takes effect: the cursor is at its capture.
Recovers(c) ==
  LET w == client[c].job.worktree
  IN  /\ At(c, "recover")
      /\ worktrees' # worktrees
      /\ w \in DOMAIN worktrees /\ worktrees'[w].cursor = client[c].job.tree
      /\ client[c].pending => LiveScopesOn(scopes', w) = {}

\* The client goes on with its job, or has ended otherwise than well.
GoesWith(c) ==
  /\ client' = [client EXCEPT ![c] = client'[c]]
  /\ client'[c].pc # "idle"
  /\ client'[c].pc \in Statements \cup {"ok"} =>
       /\ client'[c].job = client[c].job
       /\ (client'[c].pending = client[c].pending) \/ Recovers(c)

\* The cursor stays or goes to the capture; only the client's row changes.
CursorGoes(c) ==
  LET job == client[c].job
      w == job.worktree
  IN  /\ \A v \in Worktrees : v # w =>
           /\ v \in DOMAIN worktrees' <=> v \in DOMAIN worktrees
           /\ v \in DOMAIN worktrees => worktrees'[v] = worktrees[v]
      /\ w \in DOMAIN worktrees => w \in DOMAIN worktrees'
      /\ w \in DOMAIN worktrees' =>
           \/ w \in DOMAIN worktrees /\ worktrees'[w].cursor = worktrees[w].cursor
           \/ job.op = "Coordinate" /\ worktrees'[w].cursor = job.tree

\* New evidence runs from the cursor to the capture, after any recovery.
RecordsWhatItSaw(c) ==
  LET job == client[c].job
  IN  /\ mutationEvents \subseteq mutationEvents'
      /\ \A e \in mutationEvents' : e \in mutationEvents \/
           /\ job.op = "Coordinate" /\ ~client[c].pending
           /\ e.worktree = job.worktree /\ job.worktree \in DOMAIN worktrees
           /\ e.before = worktrees[job.worktree].cursor /\ e.after = job.tree
           /\ e.before # e.after

Effect(c) ==
  /\ client[c].pc \in Statements
  /\ GoesWith(c) /\ CursorGoes(c) /\ RecordsWhatItSaw(c)
  /\ At(c, "recover") /\ worktrees' # worktrees => Recovers(c)

\* A statement that leaves the durable state alone.
LEMMA LocalEffect ==
  ASSUME NEW c \in Clients, client[c].pc \in Statements, UNCHANGED durableVars, GoesWith(c)
  PROVE  Effect(c)
BY DEF Effect, CursorGoes, RecordsWhatItSaw, durableVars

LEMMA EndGoes ==
  ASSUME StoreInv, NEW c \in Clients, NEW result \in Results, End(c, result)
  PROVE  GoesWith(c)
<1>1. client \in [Clients -> ClientState]
  BY DEF StoreInv
<1>2. CASE result = "ok"
  BY <1>1, <1>2 DEF End, GoesWith
<1>3. CASE result # "ok"
  BY <1>1, <1>3 DEF End, GoesWith, Results, Statements
<1> QED BY <1>2, <1>3

\* The client has changed nothing but what it has read and where it is.
LEMMA ReadGoes ==
  ASSUME StoreInv, NEW c \in Clients, NEW new, client' = [client EXCEPT ![c] = new],
         new.pc \in Statements, new.job = client[c].job, new.pending = client[c].pending
  PROVE  GoesWith(c)
BY DEF GoesWith, Statements, StoreInv

LEMMA LoadedGoes ==
  ASSUME StoreInv, NEW c \in Clients, client[c].pc \in Statements, NEW me, Loaded(c, me),
         DOMAIN me = DOMAIN client[c], me.job = client[c].job, me.pending = client[c].pending
  PROVE  GoesWith(c)
<1>1. client[c] \in Working /\ client[c].job \in Job
  BY ClientShape DEF Working
<1>2. AfterLoad(me) \in {"recover", "commit", "ok", "recoveryRequired"}
  BY <1>1, JobShape, LoadDecides
<1>3. CASE AfterLoad(me) \in Results
  BY <1>3, EndGoes DEF Loaded
<1>4. CASE AfterLoad(me) \notin Results
  <2>1. PICK pc \in Statements : pc = AfterLoad(me)
    BY <1>2, <1>4 DEF Results, Statements
  <2> DEFINE new == [me EXCEPT !.pc = pc]
  <2>2. client' = [client EXCEPT ![c] = new]
    BY <1>4, <2>1 DEF Loaded
  <2>3. "pc" \in DOMAIN me /\ "job" \in DOMAIN me /\ "pending" \in DOMAIN me
    BY <1>1 DEF Working
  <2>4. new.pc \in Statements /\ new.job = client[c].job /\ new.pending = client[c].pending
    BY <2>1, <2>3
  <2> HIDE DEF new
  <2> QED BY <2>2, <2>4, ReadGoes
<1> QED BY <1>3, <1>4

\* A statement before the commits.
LEMMA RegistersEffect ==
  ASSUME StoreInv, NEW c \in Clients, InitializeRow(c) \/ RegisterRow(c) \/ FindScope(c)
  PROVE  Effect(c)
<1>1. client[c].pc \in {"initialize", "register", "findScope"}
  BY DEF InitializeRow, RegisterRow, FindScope, At
<1>2. client[c] \in Working /\ client[c].pc \in Statements /\ KnowsItsJob(client[c])
  BY <1>1, ClientShape DEF Statements, ClientInv
<1>3. PICK me \in Working : me = client[c]
  BY <1>2
<1>4. \A pc \in Statements : Goto(c, pc) => GoesWith(c)
  <2> SUFFICES ASSUME NEW pc \in Statements, Goto(c, pc)
               PROVE  GoesWith(c)
    OBVIOUS
  <2> DEFINE new == [me EXCEPT !.pc = pc]
  <2>1. new.pc \in Statements /\ new.job = me.job /\ new.pending = me.pending
    BY DEF Working
  <2>2. client' = [client EXCEPT ![c] = new]
    BY <1>3 DEF Goto
  <2> HIDE DEF new
  <2> QED BY <1>3, <2>1, <2>2, ReadGoes
<1>5. {"register", "loadRow"} \subseteq Statements /\ {"error", "recoveryRequired"} \subseteq Results
  BY DEF Statements, Results
<1>6. CASE InitializeRow(c)
  <2> DEFINE job == client[c].job
  <2>1. job.op = "Coordinate"
    BY <1>2, <1>6 DEF KnowsItsJob, InitializeRow, At
  <2>2. GoesWith(c)
    BY <1>4, <1>5, <1>6 DEF InitializeRow
  <2>3. CASE UNCHANGED durableVars
    BY <1>2, <2>2, <2>3, LocalEffect
  <2>4. CASE Ledger!InitializeWorktree(job.worktree, job.tree)
    <3>1. /\ job.worktree \notin DOMAIN worktrees
          /\ worktrees' = Ledger!Put(worktrees, job.worktree, Ledger!InitialRow(job.tree))
          /\ mutationEvents' = mutationEvents
      BY <2>4 DEF Ledger!InitializeWorktree
    <3>2. Ledger!InitialRow(job.tree).cursor = job.tree
      BY DEF Ledger!InitialRow
    <3>3. CursorGoes(c)
      BY <2>1, <3>1, <3>2 DEF CursorGoes, Ledger!Put
    <3>4. ~At(c, "recover")
      BY <1>1 DEF At
    <3> QED BY <1>2, <2>2, <3>1, <3>3, <3>4 DEF Effect, RecordsWhatItSaw
  <2> QED BY <1>6, <2>3, <2>4 DEF InitializeRow
<1>7. CASE RegisterRow(c)
  <2>1. GoesWith(c)
    BY <1>4, <1>5, <1>7, EndGoes DEF RegisterRow
  <2>2. UNCHANGED <<worktrees, mutationEvents>>
    BY <1>7 DEF RegisterRow, durableVars, Ledger!RegisterScope
  <2> QED BY <1>2, <2>1, <2>2 DEF Effect, CursorGoes, RecordsWhatItSaw
<1>8. CASE FindScope(c)
  <2>1. GoesWith(c) /\ UNCHANGED durableVars
    BY <1>4, <1>5, <1>8, EndGoes DEF FindScope
  <2> QED BY <1>2, <2>1, LocalEffect
<1> QED BY <1>6, <1>7, <1>8

LEMMA LoadsEffect ==
  ASSUME StoreInv, NEW c \in Clients,
         LoadRow(c) \/ LoadActive(c) \/ LoadReferenced(c) \/ LoadProcessed(c)
  PROVE  Effect(c)
<1>1. client[c].pc \in Statements /\ UNCHANGED durableVars
  BY DEF LoadRow, LoadActive, LoadReferenced, LoadProcessed, At, Statements
<1>2. client[c] \in Working
  BY <1>1, ClientShape
<1>3. PICK me \in Working : me = client[c]
  BY <1>2
<1>4. ASSUME LoadRow(c)
      PROVE  GoesWith(c)
  <2>1. CASE me.job.worktree \in DOMAIN worktrees
    <3> DEFINE new == [me EXCEPT !.pc = "loadActive", !.row = worktrees[me.job.worktree],
                                 !.base = IF @ = -1 THEN worktrees[me.job.worktree].revision ELSE @]
    <3>1. new.pc \in Statements /\ new.job = me.job /\ new.pending = me.pending
      BY DEF Working, Statements
    <3>2. client' = [client EXCEPT ![c] = new]
      BY <1>3, <1>4, <2>1 DEF LoadRow
    <3> HIDE DEF new
    <3> QED BY <1>3, <3>1, <3>2, ReadGoes
  <2>2. CASE me.job.worktree \notin DOMAIN worktrees
    <3>1. MissingRowResult(me.job) \in Results
      BY DEF MissingRowResult, Results
    <3> QED BY <1>3, <1>4, <2>2, <3>1, EndGoes DEF LoadRow
  <2> QED BY <2>1, <2>2
<1>5. ASSUME LoadActive(c)
      PROVE  GoesWith(c)
  <2> DEFINE rows == ScopeRows(LiveScopesOn(scopes, me.job.worktree))
             read == [me EXCEPT !.scopes = rows]
             new == [read EXCEPT !.pc = "loadReferenced"]
  <2>1. /\ DOMAIN read = DOMAIN me /\ read.job = me.job /\ read.pending = me.pending
        /\ new.pc \in Statements /\ new.job = me.job /\ new.pending = me.pending
    BY DEF Working, Statements
  <2>2. \/ Loaded(c, read)
        \/ client' = [client EXCEPT ![c] = new]
    BY <1>3, <1>5 DEF LoadActive
  <2> HIDE DEF read, new
  <2> QED BY <1>1, <1>3, <2>1, <2>2, LoadedGoes, ReadGoes
<1>6. ASSUME LoadReferenced(c)
      PROVE  GoesWith(c)
  <2> DEFINE missing == Referenced(me.job) \ DOMAIN me.scopes
             read == [me EXCEPT !.scopes =
                       [s \in DOMAIN @ \cup missing |-> IF s \in missing THEN scopes[s] ELSE @[s]]]
             new == [read EXCEPT !.pc = "loadProcessed"]
  <2>1. /\ DOMAIN read = DOMAIN me /\ read.job = me.job /\ read.pending = me.pending
        /\ new.pc \in Statements /\ new.job = me.job /\ new.pending = me.pending
    BY DEF Working, Statements
  <2>2. \/ Loaded(c, read)
        \/ client' = [client EXCEPT ![c] = new]
    BY <1>3, <1>6 DEF LoadReferenced
  <2> HIDE DEF read, new
  <2> QED BY <1>1, <1>3, <2>1, <2>2, LoadedGoes, ReadGoes
<1>7. ASSUME LoadProcessed(c)
      PROVE  GoesWith(c)
  <2> DEFINE read == [me EXCEPT !.processed = {Key(me.job.boundary)} \cap processedEvents]
  <2>1. DOMAIN read = DOMAIN me /\ read.job = me.job /\ read.pending = me.pending
    BY DEF Working
  <2>2. Loaded(c, read)
    BY <1>3, <1>7 DEF LoadProcessed
  <2> HIDE DEF read
  <2> QED BY <1>1, <1>3, <2>1, <2>2, LoadedGoes
<1> QED BY <1>1, <1>4, <1>5, <1>6, <1>7, LocalEffect

\* A transaction that replaces the client's row.
LEMMA RowGoes ==
  ASSUME NEW c \in Clients, client[c].job.worktree \in DOMAIN worktrees, NEW row,
         worktrees' = [worktrees EXCEPT ![client[c].job.worktree] = row],
         \/ row.cursor = worktrees[client[c].job.worktree].cursor
         \/ client[c].job.op = "Coordinate" /\ row.cursor = client[c].job.tree
  PROVE  CursorGoes(c)
BY DEF CursorGoes

LEMMA ConflictGoes ==
  ASSUME StoreInv, NEW c \in Clients, client[c].pc \in Statements, Conflict(c)
  PROVE  GoesWith(c)
<1>1. PICK me \in Working : me = client[c]
  BY ClientShape
<1> DEFINE new == AfterConflict(me)
<1>2. new.pc \in Statements /\ new.job = me.job /\ new.pending = me.pending
  BY DEF AfterConflict, Working, Statements
<1>3. "error" \in Results
  BY DEF Results
<1>4. End(c, "error") \/ client' = [client EXCEPT ![c] = new]
  BY <1>1 DEF Conflict
<1> HIDE DEF new
<1> QED BY <1>1, <1>2, <1>3, <1>4, EndGoes, ReadGoes

LEMMA AllAbandoned ==
  ASSUME NEW all, all \in [DOMAIN all -> ScopeState], NEW w
  PROVE  LiveScopesOn(AbandonAll(all, LiveScopesOn(all, w)), w) = {}
<1> DEFINE gone == LiveScopesOn(all, w)
           next == AbandonAll(all, gone)
<1>1. DOMAIN next = DOMAIN all
  BY DEF AbandonAll
<1>2. \A s \in DOMAIN all : s \in gone => next[s].status = "Abandoned"
  BY DEF AbandonAll, ScopeState
<1>3. \A s \in DOMAIN all : s \notin gone => next[s] = all[s]
  BY DEF AbandonAll
<1>4. \A s \in DOMAIN all : s \notin gone => ~(all[s].worktree = w /\ all[s].status = "Active")
  BY DEF LiveScopesOn
<1> HIDE DEF gone, next
<1>5. LiveScopesOn(next, w) = {}
  BY <1>1, <1>2, <1>3, <1>4 DEF LiveScopesOn
<1> QED BY <1>5 DEF gone, next

LEMMA RecoveryEffect ==
  ASSUME StoreInv, NEW c \in Clients, CommitRecovery(c)
  PROVE  Effect(c)
<1>1. client[c].pc = "recover" /\ client[c].pc \in Statements
  BY DEF CommitRecovery, At, Statements
<1>2. CASE End(c, "error") /\ UNCHANGED durableVars
  BY <1>1, <1>2, EndGoes, LocalEffect DEF Results
<1>3. CASE Conflict(c)
  BY <1>1, <1>3, ConflictGoes, LocalEffect DEF Conflict
<1>4. CASE /\ GuardHolds(client[c].job.worktree, RecoverTransition(client[c]))
           /\ ApplyTransition(client[c].job.worktree, RecoverTransition(client[c]))
           /\ client' = [client EXCEPT ![c] = Recovered(client[c])]
  <2>1. PICK me \in Working : me = client[c]
    BY <1>1, ClientShape
  <2> DEFINE w == me.job.worktree
             row == RecoverRow(me.row, me.job.tree)
             kept == RecoverScopes(me.row, scopes, w, me.pending)
             new == Recovered(me)
  <2>2. /\ me.job.op = "Coordinate" /\ w \in DOMAIN worktrees /\ me.row = worktrees[w]
        /\ worktrees' = [worktrees EXCEPT ![w] = row]
        /\ scopes' = kept /\ mutationEvents' = mutationEvents
    BY <1>1, <1>4, <2>1, AppliedRecovery
  <2>3. row.cursor = me.job.tree /\ row.revision = me.row.revision + 1
    BY DEF RecoverRow
  <2>4. new.pc = "commit" /\ new.job = me.job /\ new.pending = FALSE
    BY DEF Recovered, Working
  <2>5. worktrees' # worktrees
    <3>1. me.row.revision \in Nat
      BY <2>2, RowShape, RevisionsAreNumbers DEF StoreInv
    <3> HIDE DEF row
    <3> QED BY <2>2, <2>3, <3>1
  <2>6. me.pending => LiveScopesOn(scopes', w) = {}
    <3>1. me.pending => kept = AbandonAll(scopes, LiveScopesOn(scopes, w))
      BY DEF RecoverScopes
    <3> HIDE DEF kept
    <3> QED BY <2>2, <3>1, AllAbandoned, RowShape DEF StoreInv
  <2> HIDE DEF row, kept, new
  <2>7. Recovers(c)
    BY <1>1, <2>1, <2>2, <2>3, <2>5, <2>6 DEF Recovers, At
  <2>8. client' = [client EXCEPT ![c] = new] /\ client \in [Clients -> ClientState]
    BY <1>4, <2>1 DEF StoreInv, new
  <2>9. GoesWith(c)
    BY <2>1, <2>4, <2>7, <2>8 DEF GoesWith
  <2>10. CursorGoes(c)
    BY <2>1, <2>2, <2>3, RowGoes
  <2> QED BY <1>1, <2>2, <2>7, <2>9, <2>10 DEF Effect, RecordsWhatItSaw
<1> QED BY <1>1, <1>2, <1>3, <1>4 DEF CommitRecovery

\* What the commit writes: the cursor stays or goes to the capture, and
\* evidence is from the one to the other.
LEMMA CommitWrites ==
  ASSUME StoreInv, NEW c \in Clients, client[c].pc = "commit", NEW me \in Working, me = client[c],
         HasTransition(me), GuardHolds(me.job.worktree, CommitTransition(me))
  PROVE  LET t == CommitTransition(me)
             w == me.job.worktree
         IN  /\ w \in DOMAIN worktrees
             /\ \/ t.row.cursor = worktrees[w].cursor
                \/ me.job.op = "Coordinate" /\ t.row.cursor = me.job.tree
             /\ \A e \in t.evidence :
                  /\ me.job.op = "Coordinate" /\ ~me.pending
                  /\ e.worktree = w /\ e.before = worktrees[w].cursor /\ e.after = me.job.tree
                  /\ e.before # e.after
<1> DEFINE t == CommitTransition(me)
           w == me.job.worktree
<1>1. t.expected = me.row.revision /\ me.job.op \in {"Coordinate", "Taint", "Abandon"}
  BY JobShape DEF CommitTransition, BoundaryTransition, Transition, Working
<1>2. HasAll(me) /\ me.row.revision = worktrees[w].revision
  BY <1>1 DEF HasAll, GuardHolds
<1>3. w \in DOMAIN worktrees /\ me.row = worktrees[w] /\ me.row \in WorktreeState
  BY <1>2, GuardedReads, RowShape DEF StoreInv
<1>4. ClientInv(me)
  BY ClientShape
<1>5. CASE me.job.op = "Taint"
  <2>1. t.row = TaintRow(me.row) /\ t.evidence = {}
    BY <1>5 DEF CommitTransition, Transition
  <2>2. TaintRow(me.row).cursor = me.row.cursor
    BY <1>3 DEF TaintRow, WorktreeState
  <2> QED BY <1>3, <2>1, <2>2
<1>6. CASE me.job.op = "Abandon"
  <2>1. t.row = AbandonRow(me.row) /\ t.evidence = {}
    BY <1>6 DEF CommitTransition, Transition
  <2>2. AbandonRow(me.row).cursor = me.row.cursor
    BY <1>3 DEF AbandonRow, WorktreeState
  <2> QED BY <1>3, <2>1, <2>2
<1>7. CASE me.job.op = "Coordinate"
  <2> DEFINE plan == MakePlan(me.job.boundary, me.row, me.job.tree)
  <2>1. /\ t.row = NextRow(plan, me.row, me.scopes)
        /\ t.evidence = NewEvidence(plan, me.row, me.scopes, w, FALSE)
    BY <1>7 DEF CommitTransition, BoundaryTransition, Transition
  <2>2. plan.before = me.row.cursor /\ plan.after = me.job.tree
    BY DEF MakePlan
  <2>3. ~me.pending
    BY <1>4, <1>7 DEF ClientInv, HasDecided, NeedsRecovery
  <2> HIDE DEF plan, t
  <2>4. t.row.cursor = me.row.cursor \/ t.row.cursor = me.job.tree
    BY <1>3, <2>1, <2>2 DEF NextRow, WorktreeState
  <2>5. ASSUME NEW e \in t.evidence
        PROVE  /\ e.worktree = w /\ e.before = me.row.cursor /\ e.after = me.job.tree
               /\ e.before # e.after
    <3>1. e = EvidenceOf(plan, me.row, me.scopes, w, FALSE) /\ TreeChanged(plan, me.scopes)
      BY <2>1, <2>5 DEF NewEvidence
    <3> QED BY <2>2, <3>1 DEF EvidenceOf, TreeChanged
  <2> QED BY <1>3, <1>7, <2>3, <2>4, <2>5 DEF t
<1> QED BY <1>1, <1>5, <1>6, <1>7

LEMMA CommitEffect ==
  ASSUME StoreInv, NEW c \in Clients, CommitOperation(c)
  PROVE  Effect(c)
<1>1. client[c].pc = "commit" /\ client[c].pc \in Statements
  BY DEF CommitOperation, At, Statements
<1>2. PICK me \in Working : me = client[c]
  BY <1>1, ClientShape
<1>3. me.job.op \in {"Coordinate", "Taint", "Abandon"}
  BY JobShape DEF Working
<1>4. CASE UNCHANGED durableVars /\ End(c, ResultWithoutTransition(me))
  BY <1>1, <1>3, <1>4, EndGoes, LocalEffect DEF Results, ResultWithoutTransition
<1>5. CASE Conflict(c)
  BY <1>1, <1>5, ConflictGoes, LocalEffect DEF Conflict
<1>6. CASE /\ HasTransition(me)
           /\ GuardHolds(me.job.worktree, CommitTransition(me))
           /\ ApplyTransition(me.job.worktree, CommitTransition(me))
           /\ End(c, IF me.job.op = "Taint" THEN "error" ELSE "ok")
  <2> DEFINE t == CommitTransition(me)
             w == me.job.worktree
  <2>1. /\ w \in DOMAIN worktrees
        /\ \/ t.row.cursor = worktrees[w].cursor
           \/ me.job.op = "Coordinate" /\ t.row.cursor = me.job.tree
        /\ \A e \in t.evidence :
             /\ me.job.op = "Coordinate" /\ ~me.pending
             /\ e.worktree = w /\ e.before = worktrees[w].cursor /\ e.after = me.job.tree
             /\ e.before # e.after
    BY <1>1, <1>2, <1>6, CommitWrites
  <2> HIDE DEF t
  <2>2. /\ worktrees' = [worktrees EXCEPT ![w] = t.row]
        /\ mutationEvents' = mutationEvents \cup t.evidence
    BY <1>6, AppliedTransition DEF t
  <2>3. GoesWith(c)
    BY <1>6, EndGoes DEF Results
  <2>4. CursorGoes(c)
    BY <1>2, <2>1, <2>2, RowGoes
  <2>5. RecordsWhatItSaw(c)
    BY <1>2, <2>1, <2>2 DEF RecordsWhatItSaw
  <2> QED BY <1>1, <2>3, <2>4, <2>5 DEF Effect, At
<1> QED BY <1>2, <1>4, <1>5, <1>6 DEF CommitOperation

LEMMA StatementEffect ==
  ASSUME StoreInv, NEW c \in Clients, StoreStep(c)
  PROVE  Effect(c)
BY RegistersEffect, LoadsEffect, RecoveryEffect, CommitEffect DEF StoreStep

-----------------------------------------------------------------------------
(* Processes and worktrees that a step leaves alone.                       *)

LEMMA CallShape ==
  ASSUME NEW call \in AnyCall
  PROVE  /\ call.worktree \in Worktrees
         /\ call.op \in {"Coordinate", "Abandon", "Guard"}
         /\ call.op = "Abandon" => call \in AbandonJob
         /\ call.op # "Abandon" =>
              /\ call.boundary \in Boundary
              /\ IsHook(call.boundary) => call \in HookCall
              /\ ~IsHook(call.boundary) =>
                   call.boundary = [kind |-> "Flush", worktree |-> call.worktree]
<1>1. call \in HookCall \cup FlushCall \cup AbandonJob \cup GuardCall
  BY KnownCalls DEF AnyCall, Call
<1>2. CASE call \in HookCall
  BY <1>2 DEF HookCall, HookBoundary, Boundary, IsHook, HookKind
<1>3. CASE call \in FlushCall \cup GuardCall
  BY <1>3 DEF FlushCall, GuardCall, FlushBoundary, Boundary, IsHook
<1>4. CASE call \in AbandonJob
  BY <1>4 DEF AbandonJob
<1> QED BY <1>1, <1>2, <1>3, <1>4

LEMMA CapturedJob ==
  ASSUME NEW call \in AnyCall, call.op # "Abandon", NEW captured \in Trees
  PROVE  LET job == JobOf(call, captured)
         IN  /\ job \in Job /\ job.op = "Coordinate"
             /\ job.worktree = call.worktree /\ job.tree = captured
<1>1. call.worktree \in Worktrees
  BY CallShape
<1>2. CASE IsHook(call.boundary)
  <2>1. call \in HookCall
    BY <1>2, CallShape
  <2> QED BY <1>2, <2>1 DEF JobOf, HookCall, Job, CoordinateJob
<1>3. CASE ~IsHook(call.boundary)
  <2>1. call.boundary = [kind |-> "Flush", worktree |-> call.worktree]
    BY <1>3, CallShape
  <2> QED BY <1>1, <1>3, <2>1 DEF JobOf, Job, CoordinateJob
<1> QED BY <1>2, <1>3

\* A process that serves a call.
LEMMA ServingShape ==
  ASSUME RuntimeTypeOK, NEW c \in Clients, process[c].phase \in Phases
  PROVE  /\ process[c] \in [phase : Phases, call : AnyCall, inherited : BOOLEAN]
         /\ CallOf(c) \in AnyCall /\ On(c) \in Worktrees
<1>1. process[c] \in Process /\ process[c] # Unserved
  BY DEF RuntimeTypeOK, Unserved, Phases
<1> QED BY <1>1, CallShape DEF Process, CallOf, On

\* It goes on to another phase.
LEMMA ReachShape ==
  ASSUME RuntimeTypeOK, NEW c \in Clients, process[c].phase \in Phases, NEW phase \in Phases,
         Reach(c, phase)
  PROVE  /\ process' \in [Clients -> Process]
         /\ process'[c].phase = phase /\ process'[c].inherited = process[c].inherited
         /\ CallOf(c)' = CallOf(c) /\ On(c)' = On(c)
         /\ \A d \in Clients : d # c => process'[d] = process[d]
<1>1. /\ process[c] \in [phase : Phases, call : AnyCall, inherited : BOOLEAN]
      /\ process \in [Clients -> Process]
  BY ServingShape DEF RuntimeTypeOK
<1>2. PICK old \in [phase : Phases, call : AnyCall, inherited : BOOLEAN] : old = process[c]
  BY <1>1
<1> DEFINE new == [old EXCEPT !.phase = phase]
<1>3. /\ new \in [phase : Phases, call : AnyCall, inherited : BOOLEAN] /\ new.phase = phase
      /\ new.call = old.call /\ new.inherited = old.inherited
  OBVIOUS
<1>4. process' = [process EXCEPT ![c] = new]
  BY <1>2 DEF Reach
<1> HIDE DEF new
<1>5. new \in Process
  BY <1>3 DEF Process
<1> QED BY <1>1, <1>2, <1>3, <1>4, <1>5 DEF CallOf, On

\* Two processes past the lock are on two worktrees.
LEMMA Apart ==
  ASSUME GuardInv, NEW c \in Clients, NEW d \in Clients, c # d, Holds(c), Holds(d)
  PROVE  On(c) # On(d)
<1>1. c \in holder[On(c)] /\ d \in holder[On(d)] /\ On(c) \in Worktrees
  BY ServingShape DEF GuardInv, ProcessInv, Holds
<1> QED BY <1>1 DEF GuardInv, WorktreeInv

\* The step takes nothing away from whoever works on w.
Undisturbed(w) ==
  /\ group'[w] # {} => group[w] # {}
  /\ w \in marker => w \in marker'
  /\ w \in lost' => w \in lost
  /\ tree[w] <= tree'[w]
  /\ ByShell(w)' = ByShell(w)
  /\ w \in DOMAIN worktrees' <=> w \in DOMAIN worktrees
  /\ w \in DOMAIN worktrees => worktrees'[w].cursor = worktrees[w].cursor

LEMMA StaysCovered ==
  ASSUME NEW w, Undisturbed(w), Uncovered(w)'
  PROVE  Uncovered(w)
BY DEF Undisturbed, Uncovered

\* A process that does not act keeps its invariant.
LEMMA OthersKeep ==
  ASSUME GuardInv, RuntimeTypeOK', NEW d \in Clients, process'[d] = process[d], client'[d] = client[d],
         \A w \in Worktrees : Holds(d) /\ w = On(d) => Undisturbed(w) /\ d \in holder'[w]
  PROVE  ProcessInv(d)'
<1>1. ProcessInv(d) /\ RuntimeTypeOK
  BY DEF GuardInv
<1>2. /\ On(d)' = On(d) /\ (Holds(d)' <=> Holds(d)) /\ (Guarded(d)' <=> Guarded(d))
      /\ Guarded(d) => Holds(d)
      /\ \A phase : Serving(d, phase)' <=> Serving(d, phase)
  BY DEF On, CallOf, Holds, Guarded, Serving, Phases
<1>3. CASE ~Holds(d)
  <2>1. ~Holds(d)' /\ ~Guarded(d)' /\ ~Serving(d, "armed")' /\ ~Serving(d, "storing")'
    BY <1>2, <1>3 DEF Holds, Serving, Phases
  <2>2. process'[d].phase # "storing" => client'[d] = Idle
    BY <1>1 DEF ProcessInv
  <2> QED BY <2>1, <2>2 DEF ProcessInv
<1>4. CASE Holds(d)
  <2>1. On(d) \in Worktrees
    BY <1>1, <1>4, ServingShape DEF Holds
  <2>2. PICK w \in Worktrees : w = On(d)
    BY <2>1
  <2>3. Undisturbed(w) /\ d \in holder'[w] /\ On(d)' = w
    BY <1>2, <1>4, <2>2
  <2>4. Uncovered(w)' => Uncovered(w)
    BY <2>3, StaysCovered
  <2>5. ASSUME Busy(d)', Serving(d, "storing")
        PROVE  JobFits(d)'
    <3>1. JobFits(d)
      BY <1>1, <2>5 DEF ProcessInv, Busy
    <3>2. tree[w] \in Int /\ tree'[w] \in Int
      BY <1>1 DEF RuntimeTypeOK
    <3>3. ASSUME client[d].pc \in Statements, client[d].job.op = "Coordinate"
          PROVE  LET captured == client[d].job.tree
                 IN  /\ captured <= tree'[w]
                     /\ w \in DOMAIN worktrees' => worktrees'[w].cursor <= captured
                     /\ \A v \in ByShell(w)' : v <= captured
      <4>1. LET captured == client[d].job.tree
            IN  /\ captured <= tree[w]
                /\ w \in DOMAIN worktrees => worktrees[w].cursor <= captured
                /\ \A v \in ByShell(w) : v <= captured
        BY <2>2, <3>1, <3>3 DEF JobFits
      <4>2. client[d].job \in Job
        BY <3>3, ClientShape DEF GuardInv, Working
      <4>3. client[d].job.tree \in Trees
        BY <3>3, <4>2, JobShape
      <4>4. client[d].job.tree \in Int
        BY <4>3, TreesAreVersions
      <4> QED BY <2>3, <3>2, <4>1, <4>4 DEF Undisturbed
    <3> QED BY <2>2, <2>3, <2>4, <3>1, <3>3 DEF JobFits
  <2> QED BY <1>1, <1>2, <1>4, <2>2, <2>3, <2>4, <2>5 DEF ProcessInv, Undisturbed
<1> QED BY <1>3, <1>4

\* A worktree keeps its invariant if nobody comes to hold its lock.
LEMMA WorktreeKeeps ==
  ASSUME GuardInv, RuntimeTypeOK', NEW w \in Worktrees, Undisturbed(w),
         holder'[w] \cap Clients \subseteq holder[w],
         group'[w] # {} /\ "group" \in holder[w] => "group" \in holder'[w]
  PROVE  WorktreeInv(w)'
<1>1. WorktreeInv(w)
  BY DEF GuardInv
<1>2. Uncovered(w)' => Uncovered(w)
  BY StaysCovered
<1>3. w \in DOMAIN worktrees' => worktrees'[w].cursor <= tree'[w]
  <2>1. tree[w] \in Int /\ tree'[w] \in Int
    BY DEF RuntimeTypeOK, GuardInv
  <2>2. w \in DOMAIN worktrees => worktrees[w].cursor \in Int
    BY RowShape, TreesAreVersions DEF GuardInv, StoreInv, WorktreeState
  <2> QED BY <1>1, <2>1, <2>2 DEF Undisturbed, WorktreeInv
<1> QED BY <1>1, <1>2, <1>3 DEF WorktreeInv, Undisturbed

LEMMA Assemble ==
  ASSUME GuardInv, StoreInv', RuntimeTypeOK', RecordInv', NEW c \in Clients, ProcessInv(c)',
         \A d \in Clients : d # c => process'[d] = process[d] /\ client'[d] = client[d],
         \A d \in Clients, w \in Worktrees :
           d # c /\ Holds(d) /\ w = On(d) => Undisturbed(w) /\ d \in holder'[w],
         \A w \in Worktrees : WorktreeInv(w)'
  PROVE  GuardInv'
<1>1. ASSUME NEW d \in Clients
      PROVE  ProcessInv(d)'
  BY OthersKeep
<1> QED BY <1>1 DEF GuardInv

\* Nothing is written, neither to the worktrees nor to the database.
Quiet == UNCHANGED <<durableVars, tree, author>>

LEMMA QuietUndisturbed ==
  ASSUME Quiet, RuntimeTypeOK, NEW w \in Worktrees, group'[w] # {} => group[w] # {},
         w \in marker => w \in marker', w \in lost' => w \in lost
  PROVE  Undisturbed(w)
<1>1. tree'[w] = tree[w] /\ tree[w] \in Int /\ ByShell(w)' = ByShell(w) /\ worktrees' = worktrees
  BY DEF Quiet, RuntimeTypeOK, ByShell, durableVars
<1> QED BY <1>1 DEF Undisturbed

LEMMA QuietRecord ==
  ASSUME Quiet, RecordInv
  PROVE  RecordInv'
BY DEF Quiet, RecordInv, ByShell, durableVars

LEMMA StoreRests ==
  ASSUME StoreInv, Quiet, client' = client
  PROVE  StoreInv'
BY StutterKeeps DEF Quiet, storeVars, durableVars

\* A process that has nothing under way in the store has an idle client.
LEMMA ClientRests ==
  ASSUME GuardInv, NEW c \in Clients, process[c].phase # "storing"
  PROVE  client[c] = Idle
BY DEF GuardInv, ProcessInv

-----------------------------------------------------------------------------
(* Up to the marker.                                                       *)

LEMMA InvokeKeeps ==
  ASSUME GuardInv, NEW c \in Clients, NEW call \in AnyCall, Invoke(c, call), UNCHANGED group
  PROVE  GuardInv'
<1> DEFINE new == [phase |-> "waiting", call |-> call, inherited |-> FALSE]
<1>1. /\ process[c].phase = "idle" /\ process' = [process EXCEPT ![c] = new]
      /\ client' = client /\ holder' = holder /\ marker' = marker /\ lost' = lost /\ group' = group
      /\ Quiet
      /\ tool' = [s \in Scopes |-> IF s \in EndedBy(call) THEN "over" ELSE tool[s]]
  BY DEF Invoke, Serving, Quiet
<1>2. RuntimeTypeOK /\ process \in [Clients -> Process]
  BY DEF GuardInv, RuntimeTypeOK
<1>3. new \in Process
  BY DEF Process, Phases
<1>4. RuntimeTypeOK'
  <2>1. tool' \in [Scopes -> {"new", "running", "over"}]
    BY <1>1, <1>2 DEF RuntimeTypeOK
  <2>2. process' \in [Clients -> Process]
    BY <1>1, <1>2, <1>3
  <2> QED BY <1>1, <1>2, <2>1, <2>2 DEF RuntimeTypeOK, Quiet
<1>5. StoreInv' /\ RecordInv'
  BY <1>1, StoreRests, QuietRecord DEF GuardInv
<1>6. \A w \in Worktrees : Undisturbed(w)
  BY <1>1, <1>2, QuietUndisturbed
<1>7. \A w \in Worktrees : WorktreeInv(w)'
  BY <1>1, <1>4, <1>6, WorktreeKeeps
<1>8. process'[c].phase = "waiting" /\ \A d \in Clients : d # c => process'[d] = process[d]
  BY <1>1, <1>2
<1>9. client'[c] = Idle
  BY <1>1, ClientRests
<1>10. ProcessInv(c)'
  BY <1>8, <1>9 DEF ProcessInv, Holds, Guarded, Serving, Phases
<1>11. \A d \in Clients, w \in Worktrees :
         d # c /\ Holds(d) /\ w = On(d) => Undisturbed(w) /\ d \in holder'[w]
  BY <1>1, <1>6 DEF GuardInv, ProcessInv
<1> QED BY <1>1, <1>4, <1>5, <1>7, <1>8, <1>10, <1>11, Assemble

LEMMA AcquireKeeps ==
  ASSUME GuardInv, NEW c \in Clients, AcquireLock(c), UNCHANGED group
  PROVE  GuardInv'
<1>1. /\ process[c].phase = "waiting" /\ process[c].phase \in Phases /\ Reach(c, "locked")
      /\ client' = client /\ marker' = marker /\ lost' = lost /\ group' = group /\ tool' = tool
      /\ Quiet
  BY DEF AcquireLock, Serving, Quiet, Phases, world
<1>2. RuntimeTypeOK /\ On(c) \in Worktrees
  BY <1>1, ServingShape DEF GuardInv
<1>3. PICK w \in Worktrees : w = On(c)
  BY <1>2
<1>4. /\ process' \in [Clients -> Process] /\ process'[c].phase = "locked" /\ On(c)' = w
      /\ \A d \in Clients : d # c => process'[d] = process[d]
  BY <1>1, <1>2, <1>3, ReachShape DEF Phases
<1>5. holder[w] = {} /\ holder' = [holder EXCEPT ![w] = {c}]
  BY <1>3 DEF AcquireLock, On
<1>6. /\ holder' \in [Worktrees -> SUBSET (Clients \cup {"group"})] /\ holder'[w] = {c}
      /\ \A v \in Worktrees : v # w => holder'[v] = holder[v]
  BY <1>2, <1>5 DEF RuntimeTypeOK
<1>7. RuntimeTypeOK'
  BY <1>1, <1>2, <1>4, <1>6 DEF RuntimeTypeOK, Quiet
<1>8. StoreInv' /\ RecordInv'
  BY <1>1, StoreRests, QuietRecord DEF GuardInv
<1>9. \A v \in Worktrees : Undisturbed(v)
  BY <1>1, <1>2, QuietUndisturbed
<1>10. group[w] = {}
  BY <1>5 DEF GuardInv, WorktreeInv
<1>11. WorktreeInv(w)'
  <2>1. WorktreeInv(w) /\ Undisturbed(w)
    BY <1>9 DEF GuardInv
  <2>2. Uncovered(w)' => Uncovered(w)
    BY <2>1, StaysCovered
  <2> QED BY <1>1, <1>6, <1>10, <2>1, <2>2 DEF WorktreeInv, Quiet, durableVars
<1>12. \A v \in Worktrees : WorktreeInv(v)'
  BY <1>1, <1>6, <1>7, <1>9, <1>11, WorktreeKeeps
<1>13. ProcessInv(c)'
  <2>1. client'[c] = Idle
    BY <1>1, ClientRests
  <2> QED BY <1>1, <1>4, <1>6, <1>10, <2>1 DEF ProcessInv, Guarded, Serving
<1>14. \A d \in Clients, v \in Worktrees :
         d # c /\ Holds(d) /\ v = On(d) => Undisturbed(v) /\ d \in holder'[v]
  BY <1>5, <1>6, <1>9 DEF GuardInv, ProcessInv
<1> QED BY <1>1, <1>4, <1>7, <1>8, <1>12, <1>13, <1>14, Assemble

LEMMA ArmKeeps ==
  ASSUME GuardInv, NEW c \in Clients, ArmMarker(c), UNCHANGED group
  PROVE  GuardInv'
<1>1. /\ process[c].phase = "locked" /\ process[c].phase \in Phases
      /\ client' = client /\ holder' = holder /\ lost' = lost /\ group' = group /\ tool' = tool
      /\ Quiet
  BY DEF ArmMarker, Serving, Quiet, Phases, world
<1>2. RuntimeTypeOK /\ On(c) \in Worktrees
  BY <1>1, ServingShape DEF GuardInv
<1>3. PICK w \in Worktrees : w = On(c)
  BY <1>2
<1>4. PICK old \in [phase : Phases, call : AnyCall, inherited : BOOLEAN] : old = process[c]
  BY <1>1, <1>2, ServingShape
<1>5. PICK found \in BOOLEAN : found <=> w \in marker
  OBVIOUS
<1> DEFINE new == [old EXCEPT !.phase = "armed", !.inherited = found]
<1>6. /\ new \in [phase : Phases, call : AnyCall, inherited : BOOLEAN]
      /\ new.phase = "armed" /\ new.inherited = found /\ new.call = old.call
  BY DEF Phases
<1>7. process' = [process EXCEPT ![c] = new] /\ marker' = marker \cup {w}
  <2>1. process' = [process EXCEPT ![c].phase = "armed", ![c].inherited = w \in marker]
    BY <1>3 DEF ArmMarker, On
  <2>2. (w \in marker) = found
    BY <1>5
  <2> QED BY <1>3, <1>4, <2>1, <2>2 DEF ArmMarker, On
<1> HIDE DEF new
<1>8. process \in [Clients -> Process] /\ new \in Process
  BY <1>2, <1>6 DEF RuntimeTypeOK, Process
<1>9. /\ process' \in [Clients -> Process] /\ process'[c] = new /\ On(c)' = w
      /\ \A d \in Clients : d # c => process'[d] = process[d]
  BY <1>3, <1>4, <1>6, <1>7, <1>8 DEF On, CallOf
<1>10. RuntimeTypeOK'
  BY <1>1, <1>2, <1>7, <1>9 DEF RuntimeTypeOK, Quiet
<1>11. StoreInv' /\ RecordInv'
  BY <1>1, StoreRests, QuietRecord DEF GuardInv
<1>12. \A v \in Worktrees : Undisturbed(v)
  BY <1>1, <1>2, <1>7, QuietUndisturbed
<1>13. \A v \in Worktrees : WorktreeInv(v)'
  BY <1>1, <1>10, <1>12, WorktreeKeeps
<1>14. ProcessInv(c)'
  <2>1. client'[c] = Idle
    BY <1>1, ClientRests
  <2>2. c \in holder[w] /\ group[w] = {}
    BY <1>1, <1>3 DEF GuardInv, ProcessInv, Holds, Serving
  <2>3. Uncovered(w)' => found
    <3>1. Undisturbed(w)
      BY <1>12
    <3>2. Uncovered(w)' => Uncovered(w)
      BY <3>1, StaysCovered
    <3> QED BY <1>5, <3>2 DEF GuardInv, WorktreeInv
  <2> QED BY <1>1, <1>6, <1>7, <1>9, <2>1, <2>2, <2>3 DEF ProcessInv, Serving
<1>15. \A d \in Clients, v \in Worktrees :
         d # c /\ Holds(d) /\ v = On(d) => Undisturbed(v) /\ d \in holder'[v]
  BY <1>1, <1>12 DEF GuardInv, ProcessInv
<1> QED BY <1>1, <1>9, <1>10, <1>11, <1>13, <1>14, <1>15, Assemble

-----------------------------------------------------------------------------
(* The shell.                                                              *)

LEMMA SpawnKeeps ==
  ASSUME GuardInv, NEW c \in Clients, Spawn(c)
  PROVE  GuardInv'
<1>1. /\ process[c].phase = "armed" /\ process[c].phase \in Phases /\ Reach(c, "supervising")
      /\ client' = client /\ marker' = marker /\ lost' = lost /\ tool' = tool
      /\ Quiet
  BY DEF Spawn, Serving, Quiet, Phases, world
<1>2. RuntimeTypeOK /\ On(c) \in Worktrees
  BY <1>1, ServingShape DEF GuardInv
<1>3. PICK w \in Worktrees : w = On(c)
  BY <1>2
<1>4. /\ process' \in [Clients -> Process] /\ process'[c].phase = "supervising" /\ On(c)' = w
      /\ \A d \in Clients : d # c => process'[d] = process[d]
  BY <1>1, <1>2, <1>3, ReachShape DEF Phases
<1>5. /\ group' = [group EXCEPT ![w] = {"shell"}]
      /\ holder' = [holder EXCEPT ![w] = @ \cup {"group"}]
  BY <1>3 DEF Spawn, On
<1>6. /\ holder' \in [Worktrees -> SUBSET (Clients \cup {"group"})]
      /\ holder'[w] = holder[w] \cup {"group"}
      /\ \A v \in Worktrees : v # w => holder'[v] = holder[v]
      /\ group' \in [Worktrees -> SUBSET Members]
      /\ \A v \in Worktrees : v # w => group'[v] = group[v]
  BY <1>2, <1>5 DEF RuntimeTypeOK, Members
<1>7. RuntimeTypeOK'
  BY <1>1, <1>2, <1>4, <1>6 DEF RuntimeTypeOK, Quiet
<1>8. StoreInv' /\ RecordInv'
  BY <1>1, StoreRests, QuietRecord DEF GuardInv
<1>9. \A v \in Worktrees : v # w => Undisturbed(v)
  BY <1>1, <1>2, <1>6, QuietUndisturbed
<1>10. Holds(c) /\ Guarded(c) /\ c \in holder[w] /\ w \in marker
  BY <1>1, <1>3 DEF Holds, Guarded, GuardInv, ProcessInv
<1>11. WorktreeInv(w)'
  <2>1. WorktreeInv(w)
    BY DEF GuardInv
  <2>2. holder'[w] \cap Clients = holder[w] \cap Clients
    BY <1>6, NamesDiffer
  <2> QED BY <1>1, <1>6, <1>10, <2>1, <2>2 DEF WorktreeInv, Quiet, durableVars
<1>12. \A v \in Worktrees : WorktreeInv(v)'
  BY <1>6, <1>7, <1>9, <1>11, WorktreeKeeps
<1>13. ProcessInv(c)'
  <2>1. client'[c] = Idle
    BY <1>1, ClientRests
  <2> QED BY <1>1, <1>4, <1>6, <1>10, <2>1 DEF ProcessInv, Serving
<1>14. \A d \in Clients, v \in Worktrees :
         d # c /\ Holds(d) /\ v = On(d) => Undisturbed(v) /\ d \in holder'[v]
  BY <1>3, <1>6, <1>9, <1>10, Apart DEF GuardInv, ProcessInv
<1> QED BY <1>1, <1>4, <1>7, <1>8, <1>12, <1>13, <1>14, Assemble

LEMMA EofKeeps ==
  ASSUME GuardInv, NEW c \in Clients, ObserveEof(c)
  PROVE  GuardInv'
<1>1. /\ process[c].phase = "supervising" /\ process[c].phase \in Phases /\ Reach(c, "finishing")
      /\ client' = client /\ holder' = holder /\ marker' = marker /\ lost' = lost /\ tool' = tool
      /\ group' = group
      /\ Quiet
  BY DEF ObserveEof, Serving, Quiet, Phases, world
<1>2. RuntimeTypeOK /\ On(c) \in Worktrees
  BY <1>1, ServingShape DEF GuardInv
<1>3. PICK w \in Worktrees : w = On(c)
  BY <1>2
<1>4. /\ process' \in [Clients -> Process] /\ process'[c].phase = "finishing" /\ On(c)' = w
      /\ \A d \in Clients : d # c => process'[d] = process[d]
  BY <1>1, <1>2, <1>3, ReachShape DEF Phases
<1>5. RuntimeTypeOK'
  BY <1>1, <1>2, <1>4 DEF RuntimeTypeOK, Quiet
<1>6. StoreInv' /\ RecordInv'
  BY <1>1, StoreRests, QuietRecord DEF GuardInv
<1>7. \A v \in Worktrees : Undisturbed(v)
  BY <1>1, <1>2, QuietUndisturbed
<1>8. \A v \in Worktrees : WorktreeInv(v)'
  BY <1>1, <1>5, <1>7, WorktreeKeeps
<1>9. ProcessInv(c)'
  <2>1. client'[c] = Idle
    BY <1>1, ClientRests
  <2>2. group[w] = {}
    BY <1>3 DEF ObserveEof, On
  <2>3. c \in holder[w] /\ w \in marker
    BY <1>1, <1>3 DEF Holds, Guarded, GuardInv, ProcessInv
  <2> QED BY <1>1, <1>4, <2>1, <2>2, <2>3 DEF ProcessInv, Serving
<1>10. \A d \in Clients, v \in Worktrees :
         d # c /\ Holds(d) /\ v = On(d) => Undisturbed(v) /\ d \in holder'[v]
  BY <1>1, <1>7 DEF GuardInv, ProcessInv
<1> QED BY <1>1, <1>4, <1>5, <1>6, <1>8, <1>9, <1>10, Assemble

-----------------------------------------------------------------------------
(* The ends of a process.                                                  *)

\* A process ends.  What it leaves uncovered, or to a living group, is marked.
LEMMA ExitKeeps ==
  ASSUME GuardInv, NEW c \in Clients, process[c].phase \in Phases, Exit(c), Quiet, group' = group,
         tool' \in [Scopes -> {"new", "running", "over"}],
         marker' \subseteq Worktrees, lost' \subseteq Worktrees,
         \A w \in Worktrees : w = On(c) =>
           \/ marker' = marker /\ lost' = lost
           \/ /\ Holds(c)
              /\ marker' \ {w} = marker \ {w} /\ lost' \ {w} = lost \ {w}
              /\ Uncovered(w)' \/ group[w] # {} => w \in marker'
  PROVE  GuardInv'
<1>1. RuntimeTypeOK /\ On(c) \in Worktrees
  BY ServingShape DEF GuardInv
<1>2. PICK w \in Worktrees : w = On(c)
  BY <1>1
<1>3. \/ marker' = marker /\ lost' = lost
      \/ /\ Holds(c)
         /\ marker' \ {w} = marker \ {w} /\ lost' \ {w} = lost \ {w}
         /\ Uncovered(w)' \/ group[w] # {} => w \in marker'
  BY <1>2
<1>4. /\ process' = [process EXCEPT ![c] = Unserved] /\ client' = [client EXCEPT ![c] = Idle]
      /\ holder' = [v \in Worktrees |-> holder[v] \ {c}]
      /\ process \in [Clients -> Process] /\ client \in [Clients -> ClientState]
      /\ holder \in [Worktrees -> SUBSET (Clients \cup {"group"})]
  BY <1>1 DEF Exit, RuntimeTypeOK, GuardInv, StoreInv
<1>5. /\ process'[c] = Unserved /\ client'[c] = Idle
      /\ \A d \in Clients : d # c => process'[d] = process[d] /\ client'[d] = client[d]
  BY <1>4
<1>6. RuntimeTypeOK'
  <2>1. process' \in [Clients -> Process] /\ holder' \in [Worktrees -> SUBSET (Clients \cup {"group"})]
    BY <1>4 DEF Process
  <2> QED BY <1>1, <2>1 DEF RuntimeTypeOK, Quiet
<1>7. StoreInv'
  BY <1>4, IdleKeeps, NothingGoesOn DEF GuardInv, StoreInv, Quiet
<1>8. RecordInv'
  BY QuietRecord DEF GuardInv
<1>9. \A v \in Worktrees : v # w \/ (marker' = marker /\ lost' = lost) => Undisturbed(v)
  BY <1>1, <1>3, QuietUndisturbed
<1>10. WorktreeInv(w)'
  <2>1. WorktreeInv(w)
    BY DEF GuardInv
  <2>2. CASE marker' = marker /\ lost' = lost
    BY <1>4, <1>6, <1>9, <2>2, WorktreeKeeps, NamesDiffer
  <2>3. CASE Uncovered(w)' \/ group[w] # {} => w \in marker'
    BY <1>4, <2>1, <2>3, NamesDiffer DEF WorktreeInv, Quiet, durableVars
  <2> QED BY <1>3, <2>2, <2>3
<1>11. \A v \in Worktrees : WorktreeInv(v)'
  BY <1>4, <1>6, <1>9, <1>10, WorktreeKeeps, NamesDiffer
<1>12. ProcessInv(c)'
  <2>1. process'[c].phase = "idle"
    BY <1>5 DEF Unserved
  <2> QED BY <1>5, <2>1 DEF ProcessInv, Holds, Guarded, Serving, Phases
<1>13. ASSUME NEW d \in Clients, NEW v \in Worktrees, d # c, Holds(d), v = On(d)
       PROVE  Undisturbed(v) /\ d \in holder'[v]
  <2>1. d \in holder'[v]
    BY <1>4, <1>13 DEF GuardInv, ProcessInv
  <2> QED BY <1>2, <1>3, <1>9, <1>13, <2>1, Apart
<1> QED BY <1>5, <1>6, <1>7, <1>8, <1>11, <1>12, <1>13, Assemble

\* A guarded process ends and leaves the marker where it is.
LEMMA LeaveKeeps ==
  ASSUME GuardInv, NEW c \in Clients, Guarded(c), LeaveArmed(c), UNCHANGED group
  PROVE  GuardInv'
<1>1. process[c].phase \in Phases /\ Holds(c)
  BY DEF Guarded, Holds, Phases
<1>2. RuntimeTypeOK /\ On(c) \in Worktrees /\ On(c) \in marker
  BY <1>1, ServingShape DEF GuardInv, ProcessInv
<1>3. /\ Exit(c) /\ Quiet /\ marker' = marker /\ group' = group /\ tool' = tool
      /\ lost' \in {lost, lost \cup {On(c)}}
  BY DEF LeaveArmed, LoseUnsettled, Quiet, world, On
<1> QED BY <1>1, <1>2, <1>3, ExitKeeps DEF RuntimeTypeOK

LEMMA EarlyEndKeeps ==
  ASSUME GuardInv, NEW c \in Clients, UNCHANGED group,
         \/ LockTimeout(c)
         \/ ArmFails(c)
         \/ Serving(c, "locked") /\ Exit(c) /\ UNCHANGED <<durableVars, marker, world, lost>>
  PROVE  GuardInv'
<1>1. process[c].phase \in {"waiting", "locked"} /\ Exit(c) /\ Quiet /\ tool' = tool /\ lost' = lost
  BY DEF LockTimeout, ArmFails, Serving, Quiet, world
<1>2. process[c].phase \in Phases
  BY <1>1 DEF Phases
<1>3. RuntimeTypeOK /\ On(c) \in Worktrees
  BY <1>2, ServingShape DEF GuardInv
<1>4. PICK w \in Worktrees : w = On(c)
  BY <1>3
<1>5. marker' = marker \/ (process[c].phase = "locked" /\ marker' = marker \cup {w})
  BY <1>4 DEF LockTimeout, ArmFails, Serving, On
<1>6. CASE marker' = marker
  BY <1>1, <1>2, <1>3, <1>6, ExitKeeps DEF RuntimeTypeOK
<1>7. CASE process[c].phase = "locked" /\ marker' = marker \cup {w}
  BY <1>1, <1>2, <1>3, <1>4, <1>7, ExitKeeps DEF RuntimeTypeOK, Holds, Phases
<1> QED BY <1>5, <1>6, <1>7

\* The marker goes only when nothing is uncovered any more.
LEMMA CompleteKeeps ==
  ASSUME GuardInv, NEW c \in Clients, Complete(c), UNCHANGED group
  PROVE  GuardInv'
<1>1. /\ process[c].phase = "storing" /\ process[c].phase \in Phases /\ Holds(c)
      /\ client[c].pc = "ok" /\ Exit(c) /\ Quiet /\ lost' = lost
  BY DEF Complete, Serving, Quiet, Phases, Holds, At
<1>2. RuntimeTypeOK /\ On(c) \in Worktrees
  BY <1>1, ServingShape DEF GuardInv
<1>3. PICK w \in Worktrees : w = On(c)
  BY <1>2
<1>4. marker' \in {marker, marker \ {w}}
  BY <1>3 DEF Complete, On
<1>5. tool' \in [Scopes -> {"new", "running", "over"}]
  BY <1>2 DEF Complete, RuntimeTypeOK
<1>6. group[w] = {}
  BY <1>1, <1>3 DEF GuardInv, ProcessInv, Serving
<1>7. ~Uncovered(w)
  <2>1. JobFits(c)
    BY <1>1 DEF GuardInv, ProcessInv, Busy, Serving
  <2>2. client[c].job.op # "Taint" /\ ~client[c].pending
    BY <1>1, ClientShape DEF GuardInv, ClientInv, IsSettled
  <2> QED BY <1>3, <2>1, <2>2 DEF JobFits
<1>8. ~Uncovered(w)'
  BY <1>1, <1>7 DEF Uncovered, ByShell, Quiet, durableVars
<1> QED BY <1>1, <1>2, <1>3, <1>4, <1>5, <1>6, <1>8, ExitKeeps DEF RuntimeTypeOK

-----------------------------------------------------------------------------
(* The guarded work.                                                       *)

\* A client begins what its process has armed for.  What the process knows to
\* be uncovered is what the client starts with.
LEMMA BeginsKeep ==
  ASSUME GuardInv, NEW c \in Clients, process[c].phase \in {"armed", "finishing"},
         NEW job \in Job, NEW pending \in BOOLEAN, Begin(c, job, pending),
         Reach(c, "storing"), UNCHANGED <<holder, marker, world, lost, group>>,
         pending => job.op = "Coordinate",
         \A w \in Worktrees : w = On(c) =>
           /\ job.worktree = w
           /\ job.op = "Coordinate" => job.tree = tree[w]
           /\ Uncovered(w) => job.op = "Taint" \/ pending
  PROVE  GuardInv'
<1>1. /\ process[c].phase \in Phases /\ Holds(c) /\ Guarded(c)
      /\ holder' = holder /\ marker' = marker /\ lost' = lost /\ group' = group /\ tool' = tool
      /\ Quiet
  BY DEF Begin, Quiet, Phases, Holds, Guarded, world
<1>2. RuntimeTypeOK /\ On(c) \in Worktrees
  BY <1>1, ServingShape DEF GuardInv
<1>3. PICK w \in Worktrees : w = On(c)
  BY <1>2
<1>4. /\ process' \in [Clients -> Process] /\ process'[c].phase = "storing" /\ On(c)' = w
      /\ \A d \in Clients : d # c => process'[d] = process[d]
  BY <1>1, <1>2, <1>3, ReachShape DEF Phases
<1>5. RuntimeTypeOK'
  BY <1>1, <1>2, <1>4 DEF RuntimeTypeOK, Quiet
<1>6. StoreInv' /\ RecordInv'
  BY <1>1, BeginKeeps, NothingGoesOn, QuietRecord DEF GuardInv, StoreInv, Quiet
<1>7. \A v \in Worktrees : Undisturbed(v)
  BY <1>1, <1>2, QuietUndisturbed
<1>8. \A v \in Worktrees : WorktreeInv(v)'
  BY <1>1, <1>5, <1>7, WorktreeKeeps
<1>9. /\ client'[c] = Started(job, pending)
      /\ \A d \in Clients : d # c => client'[d] = client[d]
  BY DEF Begin, GuardInv, StoreInv
<1>10. /\ client'[c].pc \in Statements /\ client'[c].job = job /\ client'[c].pending = pending
  BY <1>9, JobShape DEF Started, Statements
<1>11. JobFits(c)'
  <2>1. /\ job.worktree = w
        /\ job.op = "Coordinate" => job.tree = tree[w]
        /\ Uncovered(w) => job.op = "Taint" \/ pending
    BY <1>3
  <2>2. Uncovered(w)' => Uncovered(w)
    BY <1>7, StaysCovered
  <2>3. /\ tree'[w] = tree[w] /\ tree[w] \in 0..MaxEdits /\ MaxEdits \in Nat
        /\ author' = author /\ author[w] \in [1..tree[w] -> Authors]
        /\ worktrees' = worktrees
        /\ w \in DOMAIN worktrees => worktrees[w].cursor <= tree[w]
    BY <1>1, <1>2, TreesAreVersions DEF Quiet, durableVars, RuntimeTypeOK, GuardInv, WorktreeInv
  <2>4. \A v \in ByShell(w)' : v <= tree[w]
    BY <2>3 DEF ByShell
  <2> QED BY <1>4, <1>10, <2>1, <2>2, <2>3, <2>4 DEF JobFits
<1>12. ProcessInv(c)'
  <2>1. c \in holder[w] /\ w \in marker /\ group[w] = {}
    BY <1>1, <1>3 DEF GuardInv, ProcessInv, Serving
  <2> QED BY <1>1, <1>4, <1>10, <1>11, <2>1 DEF ProcessInv, Serving, Statements
<1>13. \A d \in Clients, v \in Worktrees :
         d # c /\ Holds(d) /\ v = On(d) => Undisturbed(v) /\ d \in holder'[v]
  BY <1>1, <1>7 DEF GuardInv, ProcessInv
<1> QED BY <1>4, <1>5, <1>6, <1>8, <1>9, <1>12, <1>13, Assemble

\* What begins, with what it starts with.
Begins(c) ==
  /\ Reach(c, "storing")
  /\ UNCHANGED <<holder, marker, world, lost, group>>
  /\ \/ /\ Serving(c, "armed") /\ CallOf(c).op = "Coordinate"
        /\ Begin(c, JobOf(CallOf(c), tree[CallOf(c).worktree]), process[c].inherited)
     \/ /\ Serving(c, "finishing") /\ CallOf(c).op # "Abandon"
        /\ Begin(c, JobOf(CallOf(c), tree[CallOf(c).worktree]), TRUE)
     \/ /\ Serving(c, "armed") \/ Serving(c, "finishing")
        /\ Begin(c, [op |-> "Taint", worktree |-> CallOf(c).worktree], FALSE)
     \/ /\ Serving(c, "armed") /\ CallOf(c).op = "Abandon" /\ ~process[c].inherited
        /\ Begin(c, JobOf(CallOf(c), 0), FALSE)

LEMMA AllBeginsKeep ==
  ASSUME GuardInv, NEW c \in Clients, Begins(c)
  PROVE  GuardInv'
<1>1. process[c].phase \in {"armed", "finishing"} /\ process[c].phase \in Phases
  BY DEF Begins, Serving, Phases
<1>2. /\ RuntimeTypeOK /\ CallOf(c) \in AnyCall /\ On(c) \in Worktrees
      /\ process[c] \in [phase : Phases, call : AnyCall, inherited : BOOLEAN]
  BY <1>1, ServingShape DEF GuardInv
<1>3. PICK w \in Worktrees : w = On(c)
  BY <1>2
<1>4. PICK call \in AnyCall : call = CallOf(c)
  BY <1>2
<1>5. tree[w] \in Trees /\ call.worktree = w
  BY <1>2, <1>3, <1>4, TreesAreVersions DEF RuntimeTypeOK, On
<1> DEFINE captured == JobOf(call, tree[w])
           taint == [op |-> "Taint", worktree |-> w]
<1>6. call.op # "Abandon" =>
        captured \in Job /\ captured.op = "Coordinate" /\ captured.worktree = w /\ captured.tree = tree[w]
  BY <1>5, CapturedJob
<1>7. taint \in Job /\ taint.op = "Taint" /\ taint.worktree = w
  BY DEF Job, TaintJob
<1>8. call.op = "Abandon" => call \in Job /\ JobOf(call, 0) = call
  BY CallShape DEF JobOf, Job
<1> HIDE DEF captured, taint
<1>9. CASE Serving(c, "armed") /\ call.op = "Coordinate" /\ Begin(c, captured, process[c].inherited)
  <2>1. Uncovered(w) => process[c].inherited
    BY <1>3, <1>9 DEF GuardInv, ProcessInv
  <2>2. PICK pending \in BOOLEAN : pending = process[c].inherited
    BY <1>2
  <2> QED BY <1>1, <1>3, <1>6, <1>9, <2>1, <2>2, BeginsKeep DEF Begins
<1>10. CASE call.op # "Abandon" /\ Begin(c, captured, TRUE)
  BY <1>1, <1>3, <1>6, <1>10, BeginsKeep DEF Begins
<1>11. CASE Begin(c, taint, FALSE)
  BY <1>1, <1>3, <1>7, <1>11, BeginsKeep DEF Begins
<1>12. CASE /\ Serving(c, "armed") /\ call.op = "Abandon" /\ ~process[c].inherited
            /\ Begin(c, call, FALSE)
  <2>1. ~Uncovered(w)
    BY <1>3, <1>12 DEF GuardInv, ProcessInv
  <2> QED BY <1>1, <1>3, <1>5, <1>8, <1>12, <2>1, BeginsKeep DEF Begins
<1>13. CallOf(c).worktree = w
  BY <1>4, <1>5
<1> QED BY <1>4, <1>8, <1>9, <1>10, <1>11, <1>12, <1>13 DEF Begins, captured, taint

\* What a statement does, seen from the worktree of its process.
LEMMA WorkDoes ==
  ASSUME GuardInv, NEW c \in Clients, process[c].phase = "storing", StoreStep(c),
         NEW w \in Worktrees, w = On(c), UNCHANGED <<tree, author>>,
         lost' = IF At(c, "recover") /\ worktrees' # worktrees THEN lost \ {w} ELSE lost
  PROVE  /\ Effect(c) /\ JobFits(c) /\ client[c] \in Working /\ client[c].job.worktree = w
         /\ lost' \subseteq lost /\ lost' \ {w} = lost \ {w}
         /\ Uncovered(w)' => Uncovered(w)
         /\ Recovers(c) => ~Uncovered(w)'
         /\ w \in DOMAIN worktrees' => worktrees'[w].cursor <= tree[w]
         /\ client[c].job.op = "Coordinate" =>
              /\ client[c].job.tree \in Int /\ client[c].job.tree <= tree[w]
              /\ w \in DOMAIN worktrees' => worktrees'[w].cursor <= client[c].job.tree
              /\ \A v \in ByShell(w) : v <= client[c].job.tree
<1>1. Effect(c) /\ client[c].pc \in Statements
  BY StatementEffect DEF Effect, GuardInv
<1>2. JobFits(c) /\ client[c] \in Working
  BY <1>1, ClientShape DEF GuardInv, ProcessInv, Serving, Busy
<1>3. PICK me \in Working : me = client[c]
  BY <1>2
<1>4. me.job.worktree = w /\ me.job \in Job
  BY <1>2, <1>3 DEF JobFits, Working
<1>5. RuntimeTypeOK /\ tree[w] \in Int /\ author[w] \in [1..tree[w] -> Authors]
  BY DEF GuardInv, RuntimeTypeOK
<1>6. \A v \in ByShell(w) : v \in Int
  BY <1>5 DEF ByShell
<1>7. me.job.op = "Coordinate" =>
        /\ me.job.tree \in Int /\ me.job.tree <= tree[w]
        /\ w \in DOMAIN worktrees => worktrees[w].cursor <= me.job.tree
        /\ \A v \in ByShell(w) : v <= me.job.tree
  <2>1. me.job.op = "Coordinate" => me.job.tree \in Int
    BY <1>4, JobShape, TreesAreVersions
  <2> QED BY <1>1, <1>2, <1>3, <2>1 DEF JobFits
<1>8. w \in DOMAIN worktrees => worktrees[w].cursor \in Int /\ worktrees[w].cursor <= tree[w]
  BY RowShape, TreesAreVersions DEF GuardInv, StoreInv, WorktreeInv, WorktreeState
<1>9. /\ w \in DOMAIN worktrees => w \in DOMAIN worktrees'
      /\ w \in DOMAIN worktrees' =>
           \/ w \in DOMAIN worktrees /\ worktrees'[w].cursor = worktrees[w].cursor
           \/ me.job.op = "Coordinate" /\ worktrees'[w].cursor = me.job.tree
  BY <1>1, <1>3, <1>4 DEF Effect, CursorGoes
<1>10. /\ w \in DOMAIN worktrees' => worktrees'[w].cursor \in Int /\ worktrees'[w].cursor <= tree[w]
       /\ me.job.op = "Coordinate" /\ w \in DOMAIN worktrees' => worktrees'[w].cursor <= me.job.tree
       /\ w \in DOMAIN worktrees => w \in DOMAIN worktrees' /\ worktrees[w].cursor <= worktrees'[w].cursor
  BY <1>5, <1>7, <1>8, <1>9
<1>11. lost' \subseteq lost /\ lost' \ {w} = lost \ {w}
  OBVIOUS
<1>12. ByShell(w)' = ByShell(w)
  BY DEF ByShell
<1>13. Uncovered(w)' => Uncovered(w)
  <2>1. ASSUME NEW v \in ByShell(w), w \in DOMAIN worktrees' => v > worktrees'[w].cursor
        PROVE  w \in DOMAIN worktrees => v > worktrees[w].cursor
    BY <1>6, <1>8, <1>10, <2>1
  <2> QED BY <1>11, <1>12, <2>1 DEF Uncovered
<1>14. Recovers(c) => ~Uncovered(w)'
  <2> SUFFICES ASSUME Recovers(c)
               PROVE  ~Uncovered(w)'
    OBVIOUS
  <2>1. me.pc = "recover" /\ worktrees' # worktrees /\ w \in DOMAIN worktrees
        /\ worktrees'[w].cursor = me.job.tree
    BY <1>3, <1>4 DEF Recovers, At
  <2>2. me.job.op = "Coordinate"
    BY <1>3, <2>1, ClientShape DEF GuardInv, ClientInv, KnowsItsJob
  <2>3. w \notin lost'
    BY <1>3, <2>1 DEF At
  <2>4. \A v \in ByShell(w)' : w \in DOMAIN worktrees' /\ ~(v > worktrees'[w].cursor)
    BY <1>6, <1>7, <1>9, <1>12, <2>1, <2>2
  <2> QED BY <2>3, <2>4 DEF Uncovered
<1> QED BY <1>1, <1>2, <1>3, <1>4, <1>7, <1>10, <1>11, <1>13, <1>14

LEMMA WorkKeeps ==
  ASSUME GuardInv, NEW c \in Clients, StoreWork(c), UNCHANGED group
  PROVE  GuardInv'
<1>1. /\ process[c].phase = "storing" /\ process[c].phase \in Phases /\ Holds(c) /\ Guarded(c)
      /\ process' = process /\ holder' = holder /\ marker' = marker /\ group' = group
      /\ tree' = tree /\ author' = author /\ tool' = tool
  BY DEF StoreWork, Serving, protection, world, Phases, Holds, Guarded
<1>2. RuntimeTypeOK /\ On(c) \in Worktrees
  BY <1>1, ServingShape DEF GuardInv
<1>3. PICK w \in Worktrees : w = On(c)
  BY <1>2
<1>4. lost' = IF At(c, "recover") /\ worktrees' # worktrees THEN lost \ {w} ELSE lost
  BY <1>3 DEF StoreWork, On
<1>5. /\ c \in holder[w] /\ group[w] = {} /\ w \in marker /\ On(c)' = w
      /\ lost' \subseteq lost
  BY <1>1, <1>3, <1>4 DEF GuardInv, ProcessInv, Serving, On, CallOf
<1>6. RuntimeTypeOK'
  BY <1>1, <1>2, <1>5 DEF RuntimeTypeOK
<1>7. CASE FailStatement(c)
  <2>1. Quiet /\ lost' = lost
    BY <1>1, <1>4, <1>7 DEF FailStatement, Quiet, durableVars
  <2>2. /\ client'[c] = [pc |-> "error"] /\ \A d \in Clients : d # c => client'[d] = client[d]
    BY <1>7 DEF FailStatement, End, GuardInv, StoreInv
  <2>3. StoreInv' /\ RecordInv'
    BY <1>7, <2>1, EndsBadly, NothingGoesOn, QuietRecord DEF FailStatement, GuardInv, StoreInv, Quiet
  <2>4. \A v \in Worktrees : Undisturbed(v)
    BY <1>1, <1>2, <2>1, QuietUndisturbed
  <2>5. \A v \in Worktrees : WorktreeInv(v)'
    BY <1>1, <1>6, <2>4, WorktreeKeeps
  <2>6. ProcessInv(c)'
    BY <1>1, <1>5, <2>2 DEF ProcessInv, Busy, Serving, Statements
  <2>7. \A d \in Clients, v \in Worktrees :
          d # c /\ Holds(d) /\ v = On(d) => Undisturbed(v) /\ d \in holder'[v]
    BY <1>1, <2>4 DEF GuardInv, ProcessInv
  <2> QED BY <1>1, <1>6, <2>2, <2>3, <2>5, <2>6, <2>7, Assemble
<1>8. CASE StoreStep(c)
  <2>1. PICK me \in Working : me = client[c]
    BY <1>1, <1>3, <1>4, <1>8, WorkDoes
  <2>2. /\ Effect(c) /\ JobFits(c) /\ me.job.worktree = w
        /\ lost' \ {w} = lost \ {w}
        /\ Uncovered(w)' => Uncovered(w)
        /\ Recovers(c) => ~Uncovered(w)'
        /\ w \in DOMAIN worktrees' => worktrees'[w].cursor <= tree[w]
        /\ me.job.op = "Coordinate" =>
             /\ me.job.tree \in Int /\ me.job.tree <= tree[w]
             /\ w \in DOMAIN worktrees' => worktrees'[w].cursor <= me.job.tree
             /\ \A v \in ByShell(w) : v <= me.job.tree
    BY <1>1, <1>3, <1>4, <1>8, <2>1, WorkDoes
  <2>3. StoreInv'
    BY <1>8, StatementKeeps DEF GuardInv
  <2>4. me.pc \in Statements /\ (Uncovered(w) => me.job.op = "Taint" \/ me.pending)
    BY <1>3, <2>1, <2>2 DEF Effect, JobFits
  <2>5. \A v \in Worktrees : v # w => Undisturbed(v)
    <3> SUFFICES ASSUME NEW v \in Worktrees, v # w
                 PROVE  Undisturbed(v)
      OBVIOUS
    <3>1. /\ v \in DOMAIN worktrees' <=> v \in DOMAIN worktrees
          /\ v \in DOMAIN worktrees => worktrees'[v] = worktrees[v]
      BY <2>1, <2>2 DEF Effect, CursorGoes
    <3>2. tree[v] \in Int /\ ByShell(v)' = ByShell(v)
      BY <1>1, <1>2 DEF RuntimeTypeOK, ByShell
    <3> QED BY <1>1, <1>5, <3>1, <3>2 DEF Undisturbed
  <2>6. WorktreeInv(w)'
    BY <1>1, <1>5, <2>2 DEF WorktreeInv, GuardInv
  <2>7. \A v \in Worktrees : WorktreeInv(v)'
    BY <1>1, <1>6, <2>5, <2>6, WorktreeKeeps
  <2>8. /\ \A d \in Clients : d # c => client'[d] = client[d]
        /\ client'[c].pc # "idle"
        /\ client'[c].pc \in Statements \cup {"ok"} =>
             client'[c].job = me.job /\ ((client'[c].pending = me.pending) \/ Recovers(c))
    BY <2>1, <2>2 DEF Effect, GoesWith, GuardInv, StoreInv
  <2>9. ASSUME Busy(c)'
        PROVE  JobFits(c)'
    <3>1. client'[c].job = me.job /\ ((client'[c].pending = me.pending) \/ Recovers(c))
      BY <2>8, <2>9 DEF Busy
    <3>2. Uncovered(w)' => me.job.op = "Taint" \/ client'[c].pending
      BY <2>2, <2>4, <3>1
    <3>3. tree'[w] = tree[w] /\ ByShell(w)' = ByShell(w)
      BY <1>1 DEF ByShell
    <3> QED BY <1>5, <2>2, <3>1, <3>2, <3>3 DEF JobFits
  <2>10. ProcessInv(c)'
    BY <1>1, <1>5, <2>8, <2>9 DEF ProcessInv, Serving
  <2>11. RecordInv'
    <3> SUFFICES ASSUME NEW e \in mutationEvents'
                 PROVE  /\ e.worktree \in Worktrees
                        /\ e.before < e.after /\ e.after <= tree'[e.worktree]
                        /\ \A v \in ByShell(e.worktree) : ~(e.before < v /\ v <= e.after)
      BY <1>1 DEF RecordInv, ByShell
    <3>1. CASE e \in mutationEvents
      BY <1>1, <3>1 DEF RecordInv, GuardInv
    <3>2. CASE e \notin mutationEvents
      <4>1. /\ me.job.op = "Coordinate" /\ ~me.pending
            /\ e.worktree = w /\ w \in DOMAIN worktrees
            /\ e.before = worktrees[w].cursor /\ e.after = me.job.tree /\ e.before # e.after
        BY <2>1, <2>2, <3>2 DEF Effect, RecordsWhatItSaw
      <4>2. ~Uncovered(w)
        BY <2>4, <4>1
      <4>3. /\ worktrees[w].cursor \in Int /\ worktrees[w].cursor <= me.job.tree
            /\ \A v \in ByShell(w) : v \in Int /\ v <= worktrees[w].cursor
        <5>1. worktrees[w].cursor \in Int
          BY <4>1, RowShape, TreesAreVersions DEF GuardInv, StoreInv, WorktreeState
        <5>2. worktrees[w].cursor <= me.job.tree
          BY <1>3, <2>1, <2>2, <2>4, <4>1 DEF JobFits
        <5>3. \A v \in ByShell(w) : v \in Int
          BY <1>2 DEF ByShell, RuntimeTypeOK
        <5> QED BY <4>1, <4>2, <5>1, <5>2, <5>3 DEF Uncovered
      <4> QED BY <1>1, <2>2, <4>1, <4>3
    <3> QED BY <3>1, <3>2
  <2>12. \A d \in Clients, v \in Worktrees :
           d # c /\ Holds(d) /\ v = On(d) => Undisturbed(v) /\ d \in holder'[v]
    BY <1>1, <1>3, <2>5, Apart DEF GuardInv, ProcessInv
  <2> QED BY <1>1, <1>6, <2>3, <2>7, <2>8, <2>10, <2>11, <2>12, Assemble
<1> QED BY <1>7, <1>8 DEF StoreWork

-----------------------------------------------------------------------------
(* The world.                                                              *)

\* No process moves.
LEMMA WorldMoves ==
  ASSUME GuardInv, StoreInv', RuntimeTypeOK', RecordInv', process' = process, client' = client,
         \A d \in Clients, w \in Worktrees :
           Holds(d) /\ w = On(d) => Undisturbed(w) /\ d \in holder'[w],
         \A w \in Worktrees : WorktreeInv(w)'
  PROVE  GuardInv'
<1>1. ASSUME NEW d \in Clients
      PROVE  ProcessInv(d)'
  BY OthersKeep
<1> QED BY <1>1 DEF GuardInv

\* One more edit of w.
LEMMA Edited ==
  ASSUME RuntimeTypeOK, NEW w \in Worktrees, NEW by \in Authors, tree[w] < MaxEdits,
         tree' = [tree EXCEPT ![w] = @ + 1],
         author' = [author EXCEPT ![w] = Put(@, tree'[w], by)]
  PROVE  /\ tree[w] \in Nat /\ tree'[w] = tree[w] + 1
         /\ tree' \in [Worktrees -> 0..MaxEdits] /\ DOMAIN author' = Worktrees
         /\ \A v \in Worktrees : author'[v] \in [1..tree'[v] -> Authors]
         /\ \A v \in Worktrees : v # w => tree'[v] = tree[v] /\ author'[v] = author[v]
         /\ ByShell(w)' = ByShell(w) \cup (IF by = "shell" THEN {tree[w] + 1} ELSE {})
<1>1. /\ tree \in [Worktrees -> 0..MaxEdits] /\ MaxEdits \in Nat
      /\ DOMAIN author = Worktrees /\ \A v \in Worktrees : author[v] \in [1..tree[v] -> Authors]
  BY TreesAreVersions DEF RuntimeTypeOK
<1>2. tree[w] \in Nat /\ tree'[w] = tree[w] + 1 /\ tree[w] + 1 \in 0..MaxEdits
  BY <1>1
<1> DEFINE new == Put(author[w], tree[w] + 1, by)
<1>3. /\ DOMAIN new = 1..tree[w] + 1
      /\ \A v \in 1..tree[w] : new[v] = author[w][v]
      /\ new[tree[w] + 1] = by
      /\ \A v \in DOMAIN new : v \in 1..tree[w] \/ v = tree[w] + 1
  BY <1>1, <1>2 DEF Put
<1>4. new \in [1..tree[w] + 1 -> Authors]
  <2>1. \A v \in DOMAIN new : new[v] \in Authors
    BY <1>1, <1>3
  <2>2. new = [v \in DOMAIN new |-> new[v]]
    BY DEF Put
  <2> HIDE DEF new
  <2> QED BY <1>3, <2>1, <2>2
<1>5. /\ author'[w] = new /\ DOMAIN author' = Worktrees
      /\ \A v \in Worktrees : v # w => author'[v] = author[v]
  BY <1>1, <1>2
<1> HIDE DEF new
<1>6. ByShell(w)' = ByShell(w) \cup (IF by = "shell" THEN {tree[w] + 1} ELSE {})
  <2>1. DOMAIN author[w] = 1..tree[w]
    BY <1>1
  <2>2. \A v : v \in DOMAIN new <=> v \in DOMAIN author[w] \/ v = tree[w] + 1
    BY <1>2, <1>3, <2>1
  <2>3. \A v \in DOMAIN author[w] : new[v] = author[w][v]
    BY <1>3, <2>1
  <2>4. \A v : v \in ByShell(w)' <=> v \in ByShell(w) \/ (v = tree[w] + 1 /\ by = "shell")
    <3>1. \A v : v \in ByShell(w)' <=> v \in DOMAIN new /\ new[v] = "shell"
      BY <1>5 DEF ByShell
    <3>2. \A v : v \in ByShell(w) <=> v \in DOMAIN author[w] /\ author[w][v] = "shell"
      BY DEF ByShell
    <3>3. new[tree[w] + 1] = by
      BY <1>3
    <3>4. tree[w] + 1 \notin DOMAIN author[w]
      BY <1>2, <2>1
    <3> QED BY <2>2, <2>3, <3>1, <3>2, <3>3, <3>4
  <2>5. CASE by = "shell"
    BY <2>4, <2>5
  <2>6. CASE by # "shell"
    BY <2>4, <2>6
  <2> QED BY <2>5, <2>6
<1> QED BY <1>1, <1>2, <1>4, <1>5, <1>6

LEMMA EditKeeps ==
  ASSUME GuardInv, NEW w \in Worktrees, NEW by \in Somebody, Edit(w, by), UNCHANGED group
  PROVE  GuardInv'
<1>1. /\ UNCHANGED durableVars /\ client' = client /\ process' = process /\ holder' = holder
      /\ marker' = marker /\ lost' = lost /\ group' = group /\ tool' = tool
  BY DEF Edit, protection
<1>2. RuntimeTypeOK /\ by \in Authors /\ by # "shell"
  BY NamesDiffer DEF GuardInv, Authors, Somebody
<1>3. /\ tree[w] \in Nat /\ tree'[w] = tree[w] + 1
      /\ tree' \in [Worktrees -> 0..MaxEdits] /\ DOMAIN author' = Worktrees
      /\ \A v \in Worktrees : author'[v] \in [1..tree'[v] -> Authors]
      /\ \A v \in Worktrees : v # w => tree'[v] = tree[v] /\ author'[v] = author[v]
      /\ ByShell(w)' = ByShell(w)
  <2>1. /\ tree[w] < MaxEdits /\ tree' = [tree EXCEPT ![w] = @ + 1]
        /\ author' = [author EXCEPT ![w] = Put(@, tree'[w], by)]
    BY DEF Edit
  <2>2. ByShell(w)' = ByShell(w) \cup (IF by = "shell" THEN {tree[w] + 1} ELSE {})
    BY <1>2, <2>1, Edited
  <2>3. ByShell(w)' = ByShell(w)
    BY <1>2, <2>2
  <2> QED BY <1>2, <2>1, <2>3, Edited
<1>4. RuntimeTypeOK'
  BY <1>1, <1>2, <1>3 DEF RuntimeTypeOK
<1>5. StoreInv'
  BY <1>1, StutterKeeps DEF GuardInv, storeVars, durableVars
<1>6. \A v \in Worktrees : /\ tree[v] \in Int /\ tree'[v] \in Int /\ tree[v] <= tree'[v]
                           /\ ByShell(v)' = ByShell(v)
  <2>1. \A v \in Worktrees : v # w => ByShell(v)' = ByShell(v)
    BY <1>3 DEF ByShell
  <2>2. \A v \in Worktrees : tree[v] \in Int /\ tree'[v] \in Int
    BY <1>2, <1>3 DEF RuntimeTypeOK
  <2>3. \A v \in Worktrees : tree[v] <= tree'[v]
    BY <1>3, <2>2
  <2> QED BY <1>3, <2>1, <2>2, <2>3
<1>7. \A v \in Worktrees : Undisturbed(v)
  BY <1>1, <1>6 DEF Undisturbed, durableVars
<1>8. \A v \in Worktrees : WorktreeInv(v)'
  BY <1>1, <1>4, <1>7, WorktreeKeeps
<1>9. RecordInv'
  <2> SUFFICES ASSUME NEW e \in mutationEvents
               PROVE  /\ e.worktree \in Worktrees
                      /\ e.before < e.after /\ e.after <= tree'[e.worktree]
                      /\ \A v \in ByShell(e.worktree)' : ~(e.before < v /\ v <= e.after)
    BY <1>1 DEF RecordInv, durableVars
  <2>1. /\ e.worktree \in Worktrees
        /\ e.before < e.after /\ e.after <= tree[e.worktree]
        /\ \A v \in ByShell(e.worktree) : ~(e.before < v /\ v <= e.after)
    BY DEF GuardInv, RecordInv
  <2>2. e.after \in Int
    BY TreesAreVersions DEF GuardInv, StoreInv, Ledger!LedgerTypeOK, Ledger!MutationEvent
  <2> QED BY <1>6, <2>1, <2>2
<1>10. \A d \in Clients, v \in Worktrees : Holds(d) /\ v = On(d) => Undisturbed(v) /\ d \in holder'[v]
  BY <1>1, <1>7 DEF GuardInv, ProcessInv
<1> QED BY <1>1, <1>4, <1>5, <1>8, <1>9, <1>10, WorldMoves

\* Members of a living group come and go.
LEMMA MembersKeep ==
  ASSUME GuardInv, NEW w \in Worktrees, Fork(w) \/ \E m \in Members : MemberExits(w, m)
  PROVE  GuardInv'
<1>1. /\ Quiet /\ client' = client /\ process' = process
      /\ marker' = marker /\ lost' = lost /\ tool' = tool
  BY DEF Fork, MemberExits, runtimeVars, protection, world, Quiet
<1>2. RuntimeTypeOK
  BY DEF GuardInv
<1>3. /\ group[w] # {} /\ group' \in [Worktrees -> SUBSET Members]
      /\ \A v \in Worktrees : v # w => group'[v] = group[v]
  <2>1. CASE Fork(w)
    BY <1>2, <2>1 DEF Fork, RuntimeTypeOK
  <2>2. CASE \E m \in Members : MemberExits(w, m)
    <3>1. PICK m \in Members : m \in group[w] /\ group' = [group EXCEPT ![w] = @ \ {m}]
      BY <2>2 DEF MemberExits
    <3> QED BY <1>2, <3>1 DEF RuntimeTypeOK
  <2> QED BY <2>1, <2>2
<1>4. /\ holder' \in [Worktrees -> SUBSET (Clients \cup {"group"})]
      /\ \A v \in Worktrees : /\ holder'[v] \cap Clients = holder[v] \cap Clients
                              /\ group'[v] # {} /\ "group" \in holder[v] => "group" \in holder'[v]
  <2>1. CASE Fork(w)
    BY <1>2, <2>1 DEF Fork, runtimeVars, protection, RuntimeTypeOK
  <2>2. CASE \E m \in Members : MemberExits(w, m)
    BY <1>2, <2>2, NamesDiffer DEF MemberExits, RuntimeTypeOK
  <2> QED BY <2>1, <2>2
<1>5. RuntimeTypeOK'
  BY <1>1, <1>2, <1>3, <1>4 DEF RuntimeTypeOK, Quiet
<1>6. StoreInv' /\ RecordInv'
  BY <1>1, StoreRests, QuietRecord DEF GuardInv
<1>7. \A v \in Worktrees : Undisturbed(v)
  BY <1>1, <1>2, <1>3, QuietUndisturbed
<1>8. \A v \in Worktrees : WorktreeInv(v)'
  BY <1>4, <1>5, <1>7, WorktreeKeeps
<1>9. \A d \in Clients, v \in Worktrees : Holds(d) /\ v = On(d) => Undisturbed(v) /\ d \in holder'[v]
  BY <1>4, <1>7 DEF GuardInv, ProcessInv
<1> QED BY <1>1, <1>5, <1>6, <1>8, <1>9, WorldMoves

\* A shell writes: only its guard is past the lock, and it supervises.
LEMMA ShellEditKeeps ==
  ASSUME GuardInv, NEW w \in Worktrees, ShellEdit(w)
  PROVE  GuardInv'
<1>1. /\ UNCHANGED durableVars /\ client' = client /\ process' = process /\ holder' = holder
      /\ marker' = marker /\ lost' = lost /\ group' = group /\ tool' = tool /\ group[w] # {}
  BY DEF ShellEdit, protection
<1>2. RuntimeTypeOK /\ "shell" \in Authors
  BY DEF GuardInv, Authors
<1>3. /\ tree[w] \in Nat /\ tree'[w] = tree[w] + 1
      /\ tree' \in [Worktrees -> 0..MaxEdits] /\ DOMAIN author' = Worktrees
      /\ \A v \in Worktrees : author'[v] \in [1..tree'[v] -> Authors]
      /\ \A v \in Worktrees : v # w => tree'[v] = tree[v] /\ author'[v] = author[v]
      /\ ByShell(w)' = ByShell(w) \cup {tree[w] + 1}
  BY <1>2, Edited DEF ShellEdit
<1>4. RuntimeTypeOK'
  BY <1>1, <1>2, <1>3 DEF RuntimeTypeOK
<1>5. StoreInv'
  BY <1>1, StutterKeeps DEF GuardInv, storeVars, durableVars
<1>6. \A v \in Worktrees : /\ tree[v] \in Int /\ tree'[v] \in Int /\ tree[v] <= tree'[v]
                           /\ v # w => ByShell(v)' = ByShell(v)
  BY <1>2, <1>3 DEF RuntimeTypeOK, ByShell
<1>7. \A v \in Worktrees : v # w => Undisturbed(v)
  BY <1>1, <1>6 DEF Undisturbed, durableVars
<1>8. WorktreeInv(w)'
  <2>1. WorktreeInv(w) /\ w \in marker
    BY <1>1 DEF GuardInv, WorktreeInv
  <2>2. w \in DOMAIN worktrees => worktrees[w].cursor \in Int
    BY RowShape, TreesAreVersions DEF GuardInv, StoreInv, WorktreeState
  <2> QED BY <1>1, <1>6, <2>1, <2>2 DEF WorktreeInv, durableVars
<1>9. \A v \in Worktrees : WorktreeInv(v)'
  BY <1>1, <1>4, <1>7, <1>8, WorktreeKeeps
<1>10. RecordInv'
  <2> SUFFICES ASSUME NEW e \in mutationEvents
               PROVE  /\ e.worktree \in Worktrees
                      /\ e.before < e.after /\ e.after <= tree'[e.worktree]
                      /\ \A v \in ByShell(e.worktree)' : ~(e.before < v /\ v <= e.after)
    BY <1>1 DEF RecordInv, durableVars
  <2>1. /\ e.worktree \in Worktrees
        /\ e.before < e.after /\ e.after <= tree[e.worktree]
        /\ \A v \in ByShell(e.worktree) : ~(e.before < v /\ v <= e.after)
    BY DEF GuardInv, RecordInv
  <2>2. e.after \in Int
    BY TreesAreVersions DEF GuardInv, StoreInv, Ledger!LedgerTypeOK, Ledger!MutationEvent
  <2> QED BY <1>3, <1>6, <2>1, <2>2
<1>11. ASSUME NEW d \in Clients
       PROVE  ProcessInv(d)'
  <2>1. CASE \A v \in Worktrees : Holds(d) /\ v = On(d) => v # w
    BY <1>1, <1>4, <1>7, <2>1, OthersKeep DEF GuardInv, ProcessInv
  <2>2. CASE Holds(d) /\ On(d) = w
    <3>1. /\ process[d].phase = "supervising" /\ d \in holder[w] /\ w \in marker
      BY <1>1, <2>2 DEF GuardInv, ProcessInv, Serving, Holds, Guarded
    <3>2. client[d] = Idle /\ On(d)' = w
      BY <1>1, <2>2, <3>1, ClientRests DEF On, CallOf
    <3> QED BY <1>1, <3>1, <3>2 DEF ProcessInv, Serving
  <2> QED BY <2>1, <2>2
<1> QED BY <1>4, <1>5, <1>9, <1>10, <1>11 DEF GuardInv

-----------------------------------------------------------------------------
(* All steps.                                                              *)

LEMMA GuardInvInit ==
  ASSUME GuardInit
  PROVE  GuardInv
<1>1. StoreInv /\ worktrees = [w \in {} |-> 0] /\ mutationEvents = {} /\ client = [c \in Clients |-> Idle]
  BY InvInit DEF GuardInit, RuntimeInit, StoreInit, Ledger!LedgerInit
<1>2. /\ holder = [w \in Worktrees |-> {}] /\ marker = {} /\ lost = {}
      /\ process = [c \in Clients |-> Unserved] /\ tree = [w \in Worktrees |-> 0]
      /\ author = [w \in Worktrees |-> [v \in {} |-> "user"]]
      /\ tool = [s \in Scopes |-> "new"] /\ group = [w \in Worktrees |-> {}]
  BY DEF GuardInit, RuntimeInit
<1>3. \A w \in Worktrees : author[w] \in [1..tree[w] -> Authors] /\ ByShell(w) = {}
  BY <1>2 DEF ByShell
<1>4. RuntimeTypeOK
  BY <1>2, <1>3, TreesAreVersions DEF RuntimeTypeOK, Process
<1>5. \A c \in Clients : ProcessInv(c)
  BY <1>1, <1>2 DEF ProcessInv, Holds, Guarded, Serving, Phases, Unserved
<1>6. \A w \in Worktrees : WorktreeInv(w)
  BY <1>1, <1>2, <1>3 DEF WorktreeInv, Uncovered
<1> QED BY <1>1, <1>4, <1>5, <1>6 DEF GuardInv, RecordInv

LEMMA ProcessKeeps ==
  ASSUME GuardInv, NEW c \in Clients, ProcessStep(c) \/ Killed(c), UNCHANGED group
  PROVE  GuardInv'
<1>1. ASSUME \/ OpenFails(c) \/ RefuseAbandon(c) \/ WorkFails(c)
             \/ Serving(c, "armed") /\ LeaveArmed(c)
             \/ Serving(c, "storing") /\ LeaveArmed(c)
      PROVE  GuardInv'
  <2>1. Guarded(c) /\ LeaveArmed(c)
    BY <1>1 DEF OpenFails, RefuseAbandon, WorkFails, Serving, Guarded
  <2> QED BY <2>1, LeaveKeeps
<1>2. ASSUME Capture(c) \/ CaptureFails(c) \/ BeginAbandon(c)
      PROVE  GuardInv'
  <2>1. Begins(c)
    BY <1>2 DEF Capture, CaptureFails, BeginAbandon, Begins
  <2> QED BY <2>1, AllBeginsKeep
<1>3. ASSUME \/ LockTimeout(c) \/ ArmFails(c)
             \/ Serving(c, "locked") /\ Exit(c) /\ UNCHANGED <<durableVars, marker, world, lost>>
      PROVE  GuardInv'
  BY <1>3, EarlyEndKeeps
<1> QED BY <1>1, <1>2, <1>3, AcquireKeeps, ArmKeeps, WorkKeeps, CompleteKeeps DEF ProcessStep, Killed

LEMMA GuardKeeps ==
  ASSUME GuardInv, NEW c \in Clients, IsGuard(c), GuardStep(c)
  PROVE  GuardInv'
<1>1. ASSUME \/ Withdraw(c) \/ SupervisionFails(c)
             \/ /\ Serving(c, "armed") \/ Serving(c, "supervising") \/ Serving(c, "finishing")
                /\ LeaveArmed(c) /\ UNCHANGED group
      PROVE  GuardInv'
  <2>1. Guarded(c) /\ LeaveArmed(c) /\ UNCHANGED group
    BY <1>1 DEF Withdraw, SupervisionFails, Serving, Guarded
  <2> QED BY <2>1, LeaveKeeps
<1>2. ASSUME Finish(c)
      PROVE  GuardInv'
  <2>1. CallOf(c).op # "Abandon"
    BY DEF IsGuard
  <2>2. Begins(c)
    BY <1>2, <2>1 DEF Finish, Begins
  <2> QED BY <2>2, AllBeginsKeep
<1>3. ASSUME FinishFails(c)
      PROVE  GuardInv'
  <2>1. Begins(c) \/ (Serving(c, "finishing") /\ LeaveArmed(c) /\ UNCHANGED group)
    BY <1>3 DEF FinishFails, Begins
  <2> QED BY <1>1, <2>1, AllBeginsKeep
<1>4. ASSUME GuardKilled(c)
      PROVE  GuardInv'
  BY <1>1, <1>4, ProcessKeeps DEF GuardKilled
<1>5. ASSUME AcquireLock(c) \/ LockTimeout(c) \/ ArmMarker(c) \/ ArmFails(c)
                \/ StoreWork(c) \/ WorkFails(c) \/ Complete(c),
             UNCHANGED group
      PROVE  GuardInv'
  BY <1>5, ProcessKeeps DEF ProcessStep
<1> QED BY <1>1, <1>2, <1>3, <1>4, <1>5, SpawnKeeps, EofKeeps DEF GuardStep

LEMMA NothingKeeps ==
  ASSUME GuardInv, UNCHANGED guardVars
  PROVE  GuardInv'
<1>1. /\ Quiet /\ client' = client /\ process' = process /\ holder' = holder
      /\ marker' = marker /\ lost' = lost /\ group' = group /\ tool' = tool
  BY DEF guardVars, runtimeVars, protection, world, Quiet
<1>2. RuntimeTypeOK'
  BY <1>1 DEF RuntimeTypeOK, GuardInv, Quiet
<1>3. \A v \in Worktrees : Undisturbed(v)
  BY <1>1, QuietUndisturbed DEF GuardInv
<1>4. \A v \in Worktrees : WorktreeInv(v)'
  BY <1>1, <1>2, <1>3, WorktreeKeeps
<1>5. \A d \in Clients, v \in Worktrees : Holds(d) /\ v = On(d) => Undisturbed(v) /\ d \in holder'[v]
  BY <1>1, <1>3 DEF GuardInv, ProcessInv
<1> QED BY <1>1, <1>2, <1>4, <1>5, StoreRests, QuietRecord, WorldMoves DEF GuardInv

LEMMA GuardInvNext ==
  ASSUME GuardInv, [GuardNext]_guardVars
  PROVE  GuardInv'
<1>1. ASSUME NEW c \in Clients, InvokeGuard(c) \/ \E call \in Calls : Invoke(c, call), UNCHANGED group
      PROVE  GuardInv'
  <2>1. PICK call \in AnyCall : Invoke(c, call)
    BY <1>1 DEF InvokeGuard, AnyCall
  <2> QED BY <1>1, <2>1, InvokeKeeps
<1>2. ASSUME NEW c \in Clients, HookStep(c) \/ (Killed(c) /\ UNCHANGED group)
      PROVE  GuardInv'
  BY <1>2, ProcessKeeps DEF HookStep
<1>3. ASSUME NEW w \in Worktrees, GroupStep(w)
      PROVE  GuardInv'
  BY <1>3, MembersKeep, ShellEditKeeps DEF GroupStep
<1>4. ASSUME NEW w \in Worktrees, NEW by \in Somebody, Edit(w, by), UNCHANGED group
      PROVE  GuardInv'
  BY <1>4, EditKeeps
<1> QED BY <1>1, <1>2, <1>3, <1>4, GuardKeeps, NothingKeeps DEF GuardNext

THEOREM GuardInvariant == GuardSpec => []GuardInv
<1>1. GuardInit => GuardInv
  BY GuardInvInit
<1>2. GuardInv /\ [GuardNext]_guardVars => GuardInv'
  BY GuardInvNext
<1> QED BY <1>1, <1>2, PTL DEF GuardSpec

-----------------------------------------------------------------------------
(* The theorems.                                                           *)

\* ProtectedWorktree leaves the marker unless the call completed, and every
\* process that finds it recovers: for any number of hook processes, guards,
\* kills and failures, an interval that was lost is marked.
THEOREM LostCovered == GuardSpec => []LostIsCovered
<1>1. GuardInv => LostIsCovered
  BY DEF GuardInv, WorktreeInv, RuntimeTypeOK, Uncovered, LostIsCovered
<1> QED BY <1>1, GuardInvariant, PTL

\* The lock, held from before the capture until after the commit, keeps the
\* captures of a worktree in the order in which they are committed.
THEOREM RunsForward == GuardSpec => []EvidenceRunsForward
<1>1. GuardInv => EvidenceRunsForward
  BY DEF GuardInv, RecordInv, EvidenceRunsForward
<1> QED BY <1>1, GuardInvariant, PTL

\* What a guarded shell wrote is in no evidence, however its guard ended: the
\* marker outlives the guard, the lock its shell, and a recovery follows both.
THEOREM ShellsAreNobodys == GuardSpec => []ShellEditsAreNobodys
<1>1. ASSUME GuardInv, NEW e \in mutationEvents
      PROVE  "shell" \notin EditorsOf(e)
  <2>1. /\ e.worktree \in Worktrees /\ e.before < e.after /\ e.after <= tree[e.worktree]
        /\ \A v \in ByShell(e.worktree) : ~(e.before < v /\ v <= e.after)
    BY <1>1 DEF GuardInv, RecordInv
  <2>2. e.before \in Nat /\ e.after \in Nat
    BY <1>1, TreesAreVersions DEF GuardInv, StoreInv, Ledger!LedgerTypeOK, Ledger!MutationEvent
  <2>3. PICK w \in Worktrees : w = e.worktree
    BY <2>1
  <2>4. tree[w] \in Nat /\ author[w] \in [1..tree[w] -> Authors]
    BY <1>1, TreesAreVersions DEF GuardInv, RuntimeTypeOK
  <2>5. \A v \in (e.before + 1)..e.after : v \in 1..tree[w] /\ e.before < v /\ v <= e.after
    BY <2>1, <2>2, <2>3, <2>4
  <2>6. \A v \in (e.before + 1)..e.after : author[w][v] # "shell"
    BY <2>1, <2>3, <2>4, <2>5 DEF ByShell
  <2> QED BY <2>3, <2>6 DEF EditorsOf
<1>2. GuardInv => ShellEditsAreNobodys
  BY <1>1 DEF ShellEditsAreNobodys
<1> QED BY <1>2, GuardInvariant, PTL

\* Only a statement of the store writes to the database or ends a lost interval.
LEMMA OnlyWork ==
  ASSUME [GuardNext]_guardVars
  PROVE  \/ \E c \in Clients : StoreWork(c)
         \/ UNCHANGED durableVars /\ lost \subseteq lost'
<1> DEFINE Rests == UNCHANGED durableVars /\ lost \subseteq lost'
<1>1. ASSUME NEW c \in Clients, LeaveArmed(c)
      PROVE  Rests
  BY <1>1 DEF LeaveArmed, LoseUnsettled
<1>2. ASSUME NEW c \in Clients, NEW call, Invoke(c, call)
      PROVE  Rests
  BY <1>2 DEF Invoke
<1>3. ASSUME NEW c \in Clients, ProcessStep(c) \/ Killed(c)
      PROVE  StoreWork(c) \/ Rests
  <2>1. CASE OpenFails(c) \/ RefuseAbandon(c) \/ WorkFails(c) \/ Killed(c)
    BY <1>1, <2>1 DEF OpenFails, RefuseAbandon, WorkFails, Killed
  <2>2. CASE AcquireLock(c) \/ LockTimeout(c) \/ ArmMarker(c) \/ ArmFails(c) \/ Complete(c)
    BY <2>2 DEF AcquireLock, LockTimeout, ArmMarker, ArmFails, Complete
  <2>3. CASE Capture(c) \/ CaptureFails(c) \/ BeginAbandon(c)
    BY <2>3 DEF Capture, CaptureFails, BeginAbandon, Begin
  <2> QED BY <1>3, <2>1, <2>2, <2>3 DEF ProcessStep
<1>4. ASSUME NEW c \in Clients, GuardStep(c)
      PROVE  StoreWork(c) \/ Rests
  <2>1. CASE Withdraw(c) \/ SupervisionFails(c) \/ GuardKilled(c)
    BY <1>1, <1>3, <2>1 DEF Withdraw, SupervisionFails, GuardKilled
  <2>2. CASE Spawn(c) \/ ObserveEof(c)
    BY <2>2 DEF Spawn, ObserveEof
  <2>3. CASE Finish(c) \/ FinishFails(c)
    BY <1>1, <2>3 DEF Finish, FinishFails, Begin
  <2>4. CASE AcquireLock(c) \/ LockTimeout(c) \/ ArmMarker(c) \/ ArmFails(c)
               \/ StoreWork(c) \/ WorkFails(c) \/ Complete(c)
    BY <1>3, <2>4 DEF ProcessStep
  <2> QED BY <1>4, <2>1, <2>2, <2>3, <2>4 DEF GuardStep
<1>5. ASSUME NEW w \in Worktrees, GroupStep(w) \/ \E by \in Somebody : Edit(w, by)
      PROVE  Rests
  BY <1>5 DEF GroupStep, Fork, MemberExits, ShellEdit, Edit, runtimeVars
<1>6. CASE UNCHANGED guardVars
  BY <1>6 DEF guardVars, runtimeVars
<1> QED BY <1>2, <1>3, <1>4, <1>5, <1>6 DEF GuardNext, InvokeGuard, HookStep

\* As long as an interval is lost the coordinator records nothing of the
\* worktree, and the recovery that covers it leaves no scope live: whoever
\* was at work during it is ended, not credited.
THEOREM LostRecovered == GuardSpec => LostEndsInRecovery
<1>1. ASSUME GuardInv, [GuardNext]_guardVars, NEW w \in lost
      PROVE  /\ \A e \in mutationEvents' \ mutationEvents : e.worktree # w
             /\ w \notin lost' => LiveScopesOn(scopes', w) = {}
  <2>1. CASE UNCHANGED durableVars /\ lost \subseteq lost'
    BY <2>1 DEF durableVars
  <2>2. ASSUME NEW c \in Clients, StoreWork(c)
        PROVE  /\ \A e \in mutationEvents' \ mutationEvents : e.worktree # w
               /\ w \notin lost' => LiveScopesOn(scopes', w) = {}
    <3>1. /\ process[c].phase = "storing" /\ process[c].phase \in Phases
          /\ tree' = tree /\ author' = author
      BY <2>2 DEF StoreWork, Serving, world, Phases
    <3>2. On(c) \in Worktrees
      BY <1>1, <3>1, ServingShape DEF GuardInv
    <3>3. PICK x \in Worktrees : x = On(c)
      BY <3>2
    <3>4. lost' = IF At(c, "recover") /\ worktrees' # worktrees THEN lost \ {x} ELSE lost
      BY <2>2, <3>3 DEF StoreWork, On
    <3>5. CASE FailStatement(c)
      BY <3>4, <3>5 DEF FailStatement, durableVars
    <3>6. CASE StoreStep(c)
      <4>1. Effect(c) /\ JobFits(c) /\ client[c].job.worktree = x
        BY <1>1, <3>1, <3>3, <3>4, <3>6, WorkDoes
      <4>2. client[c].pc \in Statements
        BY <4>1 DEF Effect
      <4>3. w = x => client[c].job.op = "Taint" \/ client[c].pending
        BY <3>3, <4>1 DEF JobFits, Uncovered
      <4>4. \A e \in mutationEvents' \ mutationEvents : e.worktree # w
        BY <4>1, <4>3 DEF Effect, RecordsWhatItSaw
      <4>5. ASSUME w \notin lost'
            PROVE  LiveScopesOn(scopes', w) = {}
        <5>1. w = x /\ At(c, "recover") /\ worktrees' # worktrees
          BY <3>4, <4>5
        <5>2. Recovers(c)
          BY <4>1, <5>1 DEF Effect
        <5>3. client[c].job.op = "Coordinate"
          BY <1>1, <5>1, ClientShape DEF GuardInv, ClientInv, KnowsItsJob, At
        <5> QED BY <4>1, <4>3, <5>1, <5>2, <5>3 DEF Recovers
      <4> QED BY <4>4, <4>5
    <3> QED BY <2>2, <3>5, <3>6 DEF StoreWork
  <2> QED BY <1>1, <2>1, <2>2, OnlyWork
<1>2. GuardInv /\ [GuardNext]_guardVars =>
        [\A w \in lost :
           /\ \A e \in mutationEvents' \ mutationEvents : e.worktree # w
           /\ w \notin lost' => LiveScopesOn(scopes', w) = {}]_runtimeVars
  BY <1>1
<1> QED BY <1>2, GuardInvariant, PTL DEF GuardSpec, LostEndsInRecovery

\* Behind lock and marker the store still implements the atomic specification,
\* and what it reports to a hook as done is done: processes that are killed,
\* that fail and that begin again are among its clients.
THEOREM RuntimeKeepsStore ==
  GuardSpec => StoreImplementsLedger /\ []ReportedHookIsSettled /\ []RetriesAreLostRaces
<1>1. ASSUME GuardInv, [GuardNext]_guardVars
      PROVE  [Ledger!LedgerNext]_(Ledger!ledgerVars)
  <2>1. CASE UNCHANGED durableVars
    BY <2>1 DEF durableVars, Ledger!ledgerVars
  <2>2. ASSUME NEW c \in Clients, StoreWork(c)
        PROVE  [Ledger!LedgerNext]_(Ledger!ledgerVars)
    BY <1>1, <2>1, <2>2, StatementRefines DEF StoreWork, FailStatement, GuardInv
  <2> QED BY <1>1, <2>1, <2>2, OnlyWork
<1>2. GuardInit => Ledger!LedgerInit
  BY DEF GuardInit, RuntimeInit, StoreInit
<1>3. GuardInv => ReportedHookIsSettled /\ RetriesAreLostRaces
  BY StoreInvSays DEF GuardInv
<1> QED BY <1>1, <1>2, <1>3, GuardInvariant, PTL DEF GuardSpec, StoreImplementsLedger, Ledger!LedgerSpec

-----------------------------------------------------------------------------
(* Who may have edited: what a transition means for the scopes.            *)

\* The last entry of a worktree's history is its present state, and a
\* recovery always has an entry before it.
HistoryFits ==
  \A w \in DOMAIN worktrees :
    /\ history[w][worktrees[w].revision].live = LiveScopesOn(scopes, w)
    /\ history[w][0].step # "Recover"

Full(w) == worktrees[w].revision = MaxRevision

\* The tool of s may be running, because s is live, because a recovery ended
\* s without it, or because the worktree has no revision left to record it.
Explained(s) ==
  LET w == scopes[s].worktree
  IN  scopes[s].status = "Active" \/ s \in EndedByRecovery(w) \/ Full(w)

\* The scopes that a job ends of its own.
Ends(job) ==
  CASE job.op = "Abandon" -> {job.scope}
    [] job.op = "Coordinate" -> IF job.boundary.kind = "Close" THEN {job.boundary.scope} ELSE {}
    [] OTHER -> {}

\* Scopes are registered, started, and ended by their own job or a recovery.
ScopesGoOn(job) ==
  LET w == job.worktree
  IN  \A s \in DOMAIN scopes :
        /\ s \in DOMAIN scopes' /\ scopes'[s].worktree = scopes[s].worktree
        /\ \/ scopes'[s].status = scopes[s].status
           \/ /\ scopes[s].worktree = w
              /\ \/ scopes[s].status = "NeverSeen" /\ scopes'[s].status = "Active"
                 \/ /\ scopes'[s].status # "NeverSeen"
                    /\ s \in EndedByRecovery(w)' \/ s \in Ends(job)

NewScopesAreUnseen == \A s \in DOMAIN scopes' \ DOMAIN scopes : scopes'[s].status = "NeverSeen"

\* No recovery is forgotten, and a worktree without a revision left stands.
RevisionsGoOn ==
  \A v \in DOMAIN worktrees :
    /\ v \in DOMAIN worktrees'
    /\ EndedByRecovery(v) \subseteq EndedByRecovery(v)'
    /\ Full(v) => worktrees'[v] = worktrees[v]

\* The cursor goes to the capture, or a rebaseline is asked for, or neither
\* the cursor nor any scope's status changes.
CursorFollows(job) ==
  LET w == job.worktree
  IN  \/ w \in DOMAIN worktrees' /\ job.op = "Coordinate" /\ worktrees'[w].cursor = job.tree
      \/ w \in DOMAIN worktrees' /\ worktrees'[w].rebaseline
      \/ /\ w \in DOMAIN worktrees => worktrees'[w].cursor = worktrees[w].cursor
                                      /\ worktrees'[w].rebaseline = worktrees[w].rebaseline
         /\ \A s \in DOMAIN scopes : scopes'[s].status = scopes[s].status

\* A delivery is taken note of by its own boundary; a Start finds its scope
\* seen afterwards.
KeysGoOn(job) ==
  \A k \in processedEvents' \ processedEvents :
    /\ IsHookJob(job) /\ k = Key(job.boundary)
    /\ job.boundary.kind = "Start" =>
         job.boundary.scope \in DOMAIN scopes' /\ scopes'[job.boundary.scope].status # "NeverSeen"

\* Evidence is exclusive only to the one scope that is live, on a worktree
\* with nothing to recover.
CreditsTheLive(job) ==
  \A e \in mutationEvents' \ mutationEvents :
    LET w == job.worktree
    IN  /\ ~Full(w) /\ ~worktrees[w].rebaseline
        /\ e.attribution.kind = "AiExclusive" => LiveScopesOn(scopes, w) = {e.attribution.scope}

Turns(job) ==
  /\ ScopesGoOn(job) /\ NewScopesAreUnseen /\ RevisionsGoOn
  /\ CursorFollows(job) /\ KeysGoOn(job) /\ CreditsTheLive(job)
  /\ HistoryFits'

LEMMA NothingTurns ==
  ASSUME HistoryFits, UNCHANGED durableVars, NEW job
  PROVE  Turns(job)
<1>1. /\ worktrees' = worktrees /\ scopes' = scopes /\ processedEvents' = processedEvents
      /\ mutationEvents' = mutationEvents /\ history' = history
  BY DEF durableVars
<1>2. HistoryFits'
  BY <1>1 DEF HistoryFits
<1>3. \A v : EndedByRecovery(v)' = EndedByRecovery(v)
  BY <1>1 DEF EndedByRecovery
<1> QED BY <1>1, <1>2, <1>3
        DEF Turns, ScopesGoOn, NewScopesAreUnseen, RevisionsGoOn, CursorFollows, KeysGoOn, CreditsTheLive

\* Only scopes of w change, and only in their status.
OnlyOn(w, next) ==
  /\ DOMAIN next = DOMAIN scopes
  /\ \A s \in DOMAIN scopes :
       /\ next[s].worktree = scopes[s].worktree
       /\ scopes[s].worktree # w => next[s] = scopes[s]

\* A transition adds one entry to the history of its worktree.
LEMMA TransitionRecorded ==
  ASSUME StoreInv, HistoryFits, NEW w \in DOMAIN worktrees, NEW row, NEW step, NEW seen,
         ~Full(w), row.revision = worktrees[w].revision + 1,
         worktrees' = [worktrees EXCEPT ![w] = row], OnlyOn(w, scopes'),
         history' = Ledger!Record(w, step, row, scopes', seen)
  PROVE  /\ HistoryFits' /\ RevisionsGoOn
         /\ step = "Recover" =>
              LiveScopesOn(scopes, w) \ LiveScopesOn(scopes', w) \subseteq EndedByRecovery(w)'
<1> DEFINE r == worktrees[w].revision
<1>1. /\ r \in Nat /\ w \in Worktrees /\ DOMAIN worktrees \subseteq Worktrees
      /\ DOMAIN history = Worktrees
      /\ \A v \in DOMAIN worktrees : worktrees[v].revision \in Nat /\ DOMAIN history[v] = 0..worktrees[v].revision
  <2>1. \A v \in DOMAIN worktrees : v \in Worktrees /\ worktrees[v].revision \in Nat
    BY RowShape, RevisionsAreNumbers DEF StoreInv
  <2>2. \A v \in DOMAIN worktrees : DOMAIN history[v] = 0..worktrees[v].revision
    BY <2>1 DEF StoreInv, Ledger!LedgerTypeOK
  <2> QED BY <2>1, <2>2 DEF StoreInv, Ledger!LedgerTypeOK
<1> HIDE DEF r
<1>2. /\ \A v \in DOMAIN worktrees : v # w => history'[v] = history[v] /\ worktrees'[v] = worktrees[v]
      /\ \A k \in 0..r : history'[w][k] = history[w][k]
      /\ DOMAIN history'[w] = 0..r \cup {r + 1}
      /\ history'[w][r + 1].step = step
      /\ history'[w][r + 1].live = LiveScopesOn(scopes', w)
      /\ worktrees'[w] = row /\ DOMAIN worktrees' = DOMAIN worktrees
  <2>1. row.revision = r + 1 /\ DOMAIN history[w] = 0..r
    BY <1>1 DEF r
  <2>2. Ledger!LiveScopesOn(scopes', w) = LiveScopesOn(scopes', w)
    BY DEF Ledger!LiveScopesOn, LiveScopesOn
  <2>3. history' = [history EXCEPT ![w] =
           Ledger!Put(@, r + 1, [step |-> step, cursor |-> row.cursor,
                                 live |-> LiveScopesOn(scopes', w), seen |-> seen])]
    BY <2>1, <2>2 DEF Ledger!Record
  <2> QED BY <1>1, <2>1, <2>3 DEF Ledger!Put
<1>3. ASSUME NEW v \in DOMAIN worktrees, v # w
      PROVE  LiveScopesOn(scopes', v) = LiveScopesOn(scopes, v)
  BY <1>3 DEF OnlyOn, LiveScopesOn
<1>4. HistoryFits'
  <2> SUFFICES ASSUME NEW v \in DOMAIN worktrees
               PROVE  /\ history'[v][worktrees'[v].revision].live = LiveScopesOn(scopes', v)
                      /\ history'[v][0].step # "Recover"
    BY <1>2 DEF HistoryFits
  <2>1. CASE v # w
    BY <1>2, <1>3, <2>1 DEF HistoryFits
  <2>2. CASE v = w
    BY <1>1, <1>2, <2>2 DEF HistoryFits, r
  <2> QED BY <2>1, <2>2
<1>5. EndedByRecovery(w) \subseteq EndedByRecovery(w)'
  <2> SUFFICES ASSUME NEW k \in DOMAIN history[w], history[w][k].step = "Recover",
                      NEW s \in history[w][k - 1].live \ history[w][k].live
               PROVE  s \in EndedByRecovery(w)'
    BY DEF EndedByRecovery
  <2>1. k \in 0..r /\ k # 0
    BY <1>1 DEF HistoryFits, r
  <2>2. k - 1 \in 0..r /\ k \in DOMAIN history'[w]
    BY <1>1, <1>2, <2>1 DEF r
  <2>3. history'[w][k - 1] = history[w][k - 1] /\ history'[w][k] = history[w][k]
    BY <1>2, <2>1, <2>2
  <2> QED BY <2>2, <2>3 DEF EndedByRecovery
<1>6. RevisionsGoOn
  <2>1. \A v \in DOMAIN worktrees : v # w => EndedByRecovery(v)' = EndedByRecovery(v)
    BY <1>2 DEF EndedByRecovery
  <2> QED BY <1>2, <1>5, <2>1 DEF RevisionsGoOn
<1>7. ASSUME step = "Recover", NEW s \in LiveScopesOn(scopes, w) \ LiveScopesOn(scopes', w)
      PROVE  s \in EndedByRecovery(w)'
  <2>1. history[w][r].live = LiveScopesOn(scopes, w)
    BY DEF HistoryFits, r
  <2>2. (r + 1) - 1 = r /\ r \in 0..r
    BY <1>1 DEF r
  <2>3. history'[w][(r + 1) - 1].live = LiveScopesOn(scopes, w)
    BY <1>2, <2>1, <2>2
  <2> QED BY <1>2, <1>7, <2>3 DEF EndedByRecovery
<1> QED BY <1>4, <1>6, <1>7

LEMMA AbandonShape ==
  ASSUME StoreInv, NEW gone
  PROVE  LET next == AbandonAll(scopes, gone)
         IN  /\ DOMAIN next = DOMAIN scopes
             /\ \A s \in DOMAIN scopes :
                  /\ next[s].worktree = scopes[s].worktree
                  /\ s \notin gone => next[s] = scopes[s]
                  /\ s \in gone => next[s].status = "Abandoned"
<1>1. \A s \in DOMAIN scopes : scopes[s] \in ScopeState
  BY RowShape DEF StoreInv
<1> QED BY <1>1 DEF AbandonAll, ScopeState

\* What a boundary makes of the scopes.
LEMMA BoundaryShape ==
  ASSUME StoreInv, NEW b \in Boundary, IsHook(b) => b.scope \in DOMAIN scopes
  PROVE  LET next == NextScopes(b, scopes)
         IN  /\ DOMAIN next = DOMAIN scopes
             /\ \A s \in DOMAIN scopes :
                  /\ next[s].worktree = scopes[s].worktree
                  /\ next[s] # scopes[s] =>
                       /\ IsHook(b) /\ s = b.scope /\ Observes(b, scopes)
                       /\ next[s].status = IF b.kind = "Start" THEN "Active" ELSE "Closed"
                       /\ b.kind \in {"Start", "Close"}
             /\ b.kind = "Start" /\ Observes(b, scopes) => next[b.scope].status = "Active"
<1>1. \A s \in DOMAIN scopes : scopes[s] \in ScopeState
  BY RowShape DEF StoreInv
<1>2. CASE b.kind \in {"Start", "Close"} /\ Observes(b, scopes)
  <2> DEFINE status == IF b.kind = "Start" THEN "Active" ELSE "Closed"
             next == [scopes EXCEPT ![b.scope].status = status]
  <2>1. NextScopes(b, scopes) = next /\ IsHook(b) /\ b.scope \in DOMAIN scopes
    BY <1>2 DEF NextScopes, IsHook
  <2>2. scopes[b.scope] \in ScopeState
    BY <1>1, <2>1
  <2>3. /\ DOMAIN next = DOMAIN scopes
        /\ \A s \in DOMAIN scopes : s # b.scope => next[s] = scopes[s]
        /\ next[b.scope] = [scopes[b.scope] EXCEPT !.status = status]
    BY <2>1
  <2>4. next[b.scope].worktree = scopes[b.scope].worktree /\ next[b.scope].status = status
    BY <2>2, <2>3 DEF ScopeState
  <2> HIDE DEF next
  <2> QED BY <1>2, <2>1, <2>3, <2>4
<1>3. CASE ~(b.kind \in {"Start", "Close"} /\ Observes(b, scopes))
  <2>1. NextScopes(b, scopes) = scopes
    BY <1>3 DEF NextScopes
  <2> QED BY <1>3, <2>1
<1> QED BY <1>2, <1>3

LEMMA RecoveryTurns ==
  ASSUME StoreInv, HistoryFits, NEW c \in Clients, CommitRecovery(c),
         NEW job, job = client[c].job
  PROVE  Turns(job)
<1>1. CASE UNCHANGED durableVars
  BY <1>1, NothingTurns
<1>2. CASE /\ HasHeadroom(client[c].row)
           /\ GuardHolds(client[c].job.worktree, RecoverTransition(client[c]))
           /\ ApplyTransition(client[c].job.worktree, RecoverTransition(client[c]))
  <2> DEFINE w == job.worktree
             row == RecoverRow(worktrees[w], job.tree)
             live == LiveScopesOn(scopes, w)
  <2>1. /\ job.op = "Coordinate" /\ w \in DOMAIN worktrees
        /\ client[c].row = worktrees[w]
        /\ worktrees' = [worktrees EXCEPT ![w] = row]
        /\ scopes' = RecoverScopes(worktrees[w], scopes, w, client[c].pending)
        /\ processedEvents' = processedEvents /\ mutationEvents' = mutationEvents
        /\ history' = Ledger!Record(w, "Recover", row, scopes', TRUE)
    BY <1>2, AppliedRecovery DEF CommitRecovery, At
  <2>2. row.cursor = job.tree /\ row.revision = worktrees[w].revision + 1
    BY DEF RecoverRow
  <2>3. ~Full(w)
    BY <1>2, <2>1, RowShape, RevisionsAreNumbers DEF Full, HasHeadroom, StoreInv
  <2>4. /\ DOMAIN scopes' = DOMAIN scopes
        /\ \A s \in DOMAIN scopes :
             /\ scopes'[s].worktree = scopes[s].worktree
             /\ s \notin live => scopes'[s] = scopes[s]
             /\ s \in live => scopes'[s] = scopes[s] \/ scopes'[s].status = "Abandoned"
    BY <2>1, AbandonShape DEF RecoverScopes
  <2>5. OnlyOn(w, scopes')
    BY <2>4 DEF OnlyOn, LiveScopesOn
  <2> HIDE DEF row, w
  <2>6. /\ HistoryFits' /\ RevisionsGoOn
        /\ LiveScopesOn(scopes, w) \ LiveScopesOn(scopes', w) \subseteq EndedByRecovery(w)'
    BY <2>1, <2>2, <2>3, <2>5, TransitionRecorded
  <2>7. ScopesGoOn(job)
    BY <2>4, <2>6 DEF ScopesGoOn, LiveScopesOn, w
  <2>8. CursorFollows(job)
    BY <2>1, <2>2 DEF CursorFollows, w
  <2> QED BY <2>1, <2>4, <2>6, <2>7, <2>8 DEF Turns, NewScopesAreUnseen, KeysGoOn, CreditsTheLive
<1> QED BY <1>1, <1>2 DEF CommitRecovery, Conflict

LEMMA BoundaryTurns ==
  ASSUME StoreInv, HistoryFits, NEW c \in Clients, client[c].pc = "commit",
         client[c].job.op = "Coordinate", HasTransition(client[c]),
         GuardHolds(client[c].job.worktree, CommitTransition(client[c])),
         ApplyTransition(client[c].job.worktree, CommitTransition(client[c])),
         NEW job, job = client[c].job
  PROVE  Turns(job)
<1> DEFINE w == job.worktree
           b == job.boundary
           tree0 == job.tree
           old == worktrees[w]
           plan == MakePlan(b, old, tree0)
           row == NextRow(plan, old, scopes)
<1>1. /\ job \in Job /\ w \in DOMAIN worktrees /\ ~NeedsRecovery(old, client[c].pending)
      /\ b \in Boundary
      /\ IsHook(b) => b.scope \in DOMAIN scopes /\ scopes[b.scope].worktree = w
      /\ SettlesBoundary(b, w, tree0)
  BY AppliedBoundary
<1>2. /\ WouldAdvance(plan, scopes) /\ HasHeadroom(old)
      /\ worktrees' = [worktrees EXCEPT ![w] = row]
      /\ scopes' = NextScopes(b, scopes)
      /\ processedEvents' = NextProcessed(b, processedEvents)
      /\ mutationEvents' = mutationEvents \cup NewEvidence(plan, old, scopes, w, FALSE)
      /\ history' = Ledger!Record(w, b.kind, row, scopes', MovesCursor(plan, old, scopes))
  BY <1>1 DEF SettlesBoundary
<1>3. plan.boundary = b /\ plan.after = tree0
  BY DEF MakePlan
<1>4. old \in WorktreeState /\ ~Full(w) /\ ~old.rebaseline
  BY <1>1, <1>2, RowShape, RevisionsAreNumbers DEF StoreInv, Full, HasHeadroom, NeedsRecovery
<1>5. /\ DOMAIN scopes' = DOMAIN scopes
      /\ \A s \in DOMAIN scopes :
           /\ scopes'[s].worktree = scopes[s].worktree
           /\ scopes'[s] # scopes[s] =>
                /\ IsHook(b) /\ s = b.scope /\ Observes(b, scopes)
                /\ scopes'[s].status = IF b.kind = "Start" THEN "Active" ELSE "Closed"
                /\ b.kind \in {"Start", "Close"}
      /\ b.kind = "Start" /\ Observes(b, scopes) => scopes'[b.scope].status = "Active"
  BY <1>1, <1>2, BoundaryShape
<1>6. /\ row.revision = old.revision + 1
      /\ row.rebaseline = old.rebaseline
      /\ row.cursor = IF Observes(b, scopes) THEN tree0 ELSE old.cursor
  BY <1>2, <1>3, <1>4 DEF NextRow, MovesCursor, WorktreeState
<1> HIDE DEF plan, row
<1>7. OnlyOn(w, scopes')
  BY <1>1, <1>5 DEF OnlyOn
<1>8. HistoryFits' /\ RevisionsGoOn
  BY <1>1, <1>2, <1>4, <1>6, <1>7, TransitionRecorded
<1>9. ScopesGoOn(job)
  <2> SUFFICES ASSUME NEW s \in DOMAIN scopes, scopes'[s].status # scopes[s].status
               PROVE  /\ scopes[s].worktree = w
                      /\ \/ scopes[s].status = "NeverSeen" /\ scopes'[s].status = "Active"
                         \/ scopes'[s].status # "NeverSeen" /\ s \in Ends(job)
    BY <1>5 DEF ScopesGoOn
  <2>1. /\ s = b.scope /\ IsHook(b) /\ Observes(b, scopes) /\ b.kind \in {"Start", "Close"}
        /\ scopes'[s].status = IF b.kind = "Start" THEN "Active" ELSE "Closed"
    BY <1>5
  <2>2. CASE b.kind = "Start"
    BY <1>1, <2>1, <2>2 DEF Observes
  <2>3. CASE b.kind = "Close"
    BY <1>1, <2>1, <2>3 DEF Ends
  <2> QED BY <2>1, <2>2, <2>3
<1>10. CursorFollows(job)
  <2>1. worktrees'[w] = row /\ w \in DOMAIN worktrees'
    BY <1>1, <1>2
  <2>2. CASE Observes(b, scopes)
    BY <1>6, <2>1, <2>2 DEF CursorFollows
  <2>3. CASE ~Observes(b, scopes)
    BY <1>5, <1>6, <2>1, <2>3 DEF CursorFollows
  <2> QED BY <2>2, <2>3
<1>11. KeysGoOn(job)
  <2> SUFFICES ASSUME NEW k \in processedEvents' \ processedEvents
               PROVE  /\ IsHookJob(job) /\ k = Key(b)
                      /\ b.kind = "Start" =>
                           b.scope \in DOMAIN scopes' /\ scopes'[b.scope].status # "NeverSeen"
    BY DEF KeysGoOn
  <2>1. IsHook(b) /\ k = Key(b)
    BY <1>2 DEF NextProcessed
  <2>2. ASSUME b.kind = "Start"
        PROVE  scopes'[b.scope].status # "NeverSeen"
    <3>1. CASE Observes(b, scopes)
      BY <1>5, <2>2, <3>1
    <3>2. CASE ~Observes(b, scopes)
      <4>1. scopes[b.scope].status # "NeverSeen"
        BY <2>2, <3>2 DEF Observes
      <4>2. scopes'[b.scope] = scopes[b.scope]
        BY <1>1, <1>5, <2>1, <3>2
      <4> QED BY <4>1, <4>2
    <3> QED BY <3>1, <3>2
  <2> QED BY <1>1, <1>5, <2>1, <2>2 DEF IsHookJob
<1>12. CreditsTheLive(job)
  <2> SUFFICES ASSUME NEW e \in mutationEvents' \ mutationEvents, e.attribution.kind = "AiExclusive"
               PROVE  LiveScopesOn(scopes, w) = {e.attribution.scope}
    BY <1>4 DEF CreditsTheLive
  <2>1. e = EvidenceOf(plan, old, scopes, w, FALSE)
    BY <1>2 DEF NewEvidence
  <2>2. e.attribution = AttributionForBoundary(old, scopes, w, FALSE, b)
    BY <1>3, <2>1 DEF EvidenceOf
  <2>3. e.attribution = AttributionFor(old, scopes, w, FALSE)
    <3>1. e.attribution # Ineligible
      BY DEF Ineligible
    <3> QED BY <2>2, <3>1 DEF AttributionForBoundary
  <2>4. PICK live : live = LiveScopesOn(scopes, w)
    OBVIOUS
  <2>5. /\ \E s \in live : live = {s}
        /\ e.attribution = [kind |-> "AiExclusive", scope |-> CHOOSE s \in live : live = {s}]
    BY <2>3, <2>4 DEF AttributionFor, Ineligible
  <2>6. e.attribution.scope = CHOOSE s \in live : live = {s}
    BY <2>5
  <2>7. live = {CHOOSE s \in live : live = {s}}
    BY <2>5
  <2> QED BY <2>4, <2>6, <2>7
<1> QED BY <1>5, <1>8, <1>9, <1>10, <1>11, <1>12 DEF Turns, NewScopesAreUnseen

LEMMA TaintTurns ==
  ASSUME StoreInv, HistoryFits, NEW job, Ledger!Taint(job.worktree)
  PROVE  Turns(job)
<1> DEFINE w == job.worktree
           row == TaintRow(worktrees[w])
<1>1. /\ w \in DOMAIN worktrees /\ HasHeadroom(worktrees[w])
      /\ worktrees' = [worktrees EXCEPT ![w] = row]
      /\ scopes' = scopes /\ processedEvents' = processedEvents /\ mutationEvents' = mutationEvents
      /\ history' = Ledger!Record(w, "Taint", row, scopes, FALSE)
  BY DEF Ledger!Taint, Ledger!TaintRow, TaintRow, Ledger!HasHeadroom, HasHeadroom
<1>2. worktrees[w] \in WorktreeState /\ ~Full(w)
  BY <1>1, RowShape, RevisionsAreNumbers DEF StoreInv, Full, HasHeadroom
<1>3. /\ row.revision = worktrees[w].revision + 1
      /\ row.cursor = worktrees[w].cursor /\ row.rebaseline = worktrees[w].rebaseline
  BY <1>2 DEF TaintRow, WorktreeState
<1> HIDE DEF row
<1>4. OnlyOn(w, scopes')
  BY <1>1 DEF OnlyOn
<1>5. HistoryFits' /\ RevisionsGoOn
  BY <1>1, <1>2, <1>3, <1>4, TransitionRecorded
<1> QED BY <1>1, <1>3, <1>5
        DEF Turns, ScopesGoOn, NewScopesAreUnseen, CursorFollows, KeysGoOn, CreditsTheLive

LEMMA AbandonTurns ==
  ASSUME StoreInv, HistoryFits, NEW job, job.op = "Abandon",
         Ledger!Abandon(job.scope), scopes[job.scope].worktree = job.worktree
  PROVE  Turns(job)
<1> DEFINE w == job.worktree
           s0 == job.scope
           row == AbandonRow(worktrees[w])
<1>1. /\ s0 \in DOMAIN scopes /\ HasHeadroom(worktrees[w])
      /\ worktrees' = [worktrees EXCEPT ![w] = row]
      /\ scopes' = AbandonAll(scopes, {s0})
      /\ processedEvents' = processedEvents /\ mutationEvents' = mutationEvents
      /\ history' = Ledger!Record(w, "Abandon", row, scopes', FALSE)
  BY DEF Ledger!Abandon, Ledger!AbandonRow, AbandonRow, Ledger!AbandonAll, AbandonAll,
         Ledger!HasHeadroom, HasHeadroom
<1>2. w \in DOMAIN worktrees /\ worktrees[w] \in WorktreeState /\ ~Full(w)
  BY <1>1, RowShape, RevisionsAreNumbers DEF StoreInv, Full, HasHeadroom
<1>3. row.revision = worktrees[w].revision + 1 /\ row.rebaseline
  BY <1>2 DEF AbandonRow, WorktreeState
<1>4. /\ DOMAIN scopes' = DOMAIN scopes
      /\ \A s \in DOMAIN scopes :
           /\ scopes'[s].worktree = scopes[s].worktree
           /\ s # s0 => scopes'[s] = scopes[s]
           /\ s = s0 => scopes'[s].status = "Abandoned"
  BY <1>1, AbandonShape
<1> HIDE DEF row
<1>5. OnlyOn(w, scopes')
  BY <1>4 DEF OnlyOn
<1>6. HistoryFits' /\ RevisionsGoOn
  BY <1>1, <1>2, <1>3, <1>5, TransitionRecorded
<1>7. ScopesGoOn(job)
  BY <1>4 DEF ScopesGoOn, Ends
<1>8. CursorFollows(job)
  BY <1>1, <1>2, <1>3 DEF CursorFollows
<1> QED BY <1>1, <1>4, <1>6, <1>7, <1>8
        DEF Turns, NewScopesAreUnseen, KeysGoOn, CreditsTheLive

LEMMA InitializeTurns ==
  ASSUME StoreInv, HistoryFits, NEW job, job.op = "Coordinate", job.worktree \in Worktrees,
         Ledger!InitializeWorktree(job.worktree, job.tree)
  PROVE  Turns(job)
<1> DEFINE w == job.worktree
           row == [cursor |-> job.tree, revision |-> 0, failure |-> "Healthy", rebaseline |-> FALSE]
<1>1. /\ w \notin DOMAIN worktrees
      /\ worktrees' = Put(worktrees, w, row)
      /\ history' = Ledger!Record(w, "Initialize", row, scopes, TRUE)
      /\ scopes' = scopes /\ processedEvents' = processedEvents /\ mutationEvents' = mutationEvents
  BY DEF Ledger!InitializeWorktree, Ledger!InitialRow, Ledger!Put, Put
<1>2. /\ DOMAIN worktrees' = DOMAIN worktrees \cup {w} /\ worktrees'[w] = row
      /\ \A v \in DOMAIN worktrees : worktrees'[v] = worktrees[v]
  BY <1>1 DEF Put
<1>3. DOMAIN history = Worktrees
  BY DEF StoreInv, Ledger!LedgerTypeOK
<1>4. /\ \A v \in DOMAIN worktrees : history'[v] = history[v]
      /\ history'[w][0].step = "Initialize" /\ history'[w][0].live = LiveScopesOn(scopes, w)
  <2>1. Ledger!LiveScopesOn(scopes, w) = LiveScopesOn(scopes, w)
    BY DEF Ledger!LiveScopesOn, LiveScopesOn
  <2>2. history' = [history EXCEPT ![w] =
           Ledger!Put(@, 0, [step |-> "Initialize", cursor |-> row.cursor,
                             live |-> LiveScopesOn(scopes, w), seen |-> TRUE])]
    BY <1>1, <2>1 DEF Ledger!Record
  <2> DEFINE entry == [step |-> "Initialize", cursor |-> row.cursor,
                       live |-> LiveScopesOn(scopes, w), seen |-> TRUE]
  <2>3. entry.step = "Initialize" /\ entry.live = LiveScopesOn(scopes, w)
    OBVIOUS
  <2> HIDE DEF entry, row, w
  <2>4. /\ \A v \in Worktrees : v # w => history'[v] = history[v]
        /\ history'[w] = Ledger!Put(history[w], 0, entry)
    <3>1. w \in Worktrees
      BY DEF w
    <3> QED BY <1>3, <2>2, <3>1 DEF entry
  <2>5. Ledger!Put(history[w], 0, entry)[0] = entry
    BY DEF Ledger!Put
  <2>6. \A v \in DOMAIN worktrees : v \in Worktrees /\ v # w
    BY <1>1, RowShape DEF StoreInv
  <2> QED BY <2>3, <2>4, <2>5, <2>6
<1>5. HistoryFits'
  <2>1. row.revision = 0
    OBVIOUS
  <2> HIDE DEF row, w
  <2> SUFFICES ASSUME NEW v \in DOMAIN worktrees \cup {w}
               PROVE  /\ history'[v][worktrees'[v].revision].live = LiveScopesOn(scopes, v)
                      /\ history'[v][0].step # "Recover"
    BY <1>1, <1>2 DEF HistoryFits
  <2>2. CASE v = w
    BY <1>2, <1>4, <2>1, <2>2
  <2>3. CASE v # w
    BY <1>2, <1>4, <2>3 DEF HistoryFits
  <2> QED BY <2>2, <2>3
<1>6. RevisionsGoOn
  <2>1. \A v \in DOMAIN worktrees : EndedByRecovery(v)' = EndedByRecovery(v)
    BY <1>4 DEF EndedByRecovery
  <2> QED BY <1>2, <2>1 DEF RevisionsGoOn
<1>7. CursorFollows(job)
  BY <1>2 DEF CursorFollows
<1> QED BY <1>1, <1>5, <1>6, <1>7
        DEF Turns, ScopesGoOn, NewScopesAreUnseen, KeysGoOn, CreditsTheLive

LEMMA RegisterTurns ==
  ASSUME StoreInv, HistoryFits, NEW job, NEW s0, NEW actor,
         Ledger!RegisterScope(s0, job.worktree, actor)
  PROVE  Turns(job)
<1>1. /\ s0 \notin DOMAIN scopes
      /\ scopes' = Put(scopes, s0, [status |-> "NeverSeen", actor |-> actor, worktree |-> job.worktree])
      /\ worktrees' = worktrees /\ processedEvents' = processedEvents
      /\ mutationEvents' = mutationEvents /\ history' = history
  BY DEF Ledger!RegisterScope, Ledger!Put, Put
<1>2. /\ DOMAIN scopes' = DOMAIN scopes \cup {s0} /\ scopes'[s0].status = "NeverSeen"
      /\ \A s \in DOMAIN scopes : scopes'[s] = scopes[s]
  BY <1>1 DEF Put
<1>3. \A v : LiveScopesOn(scopes', v) = LiveScopesOn(scopes, v)
  BY <1>1, <1>2 DEF LiveScopesOn
<1>4. HistoryFits'
  BY <1>1, <1>3 DEF HistoryFits
<1>5. \A v : EndedByRecovery(v)' = EndedByRecovery(v)
  BY <1>1 DEF EndedByRecovery
<1> QED BY <1>1, <1>2, <1>4, <1>5
        DEF Turns, ScopesGoOn, NewScopesAreUnseen, RevisionsGoOn, CursorFollows, KeysGoOn, CreditsTheLive

\* What one statement means for the scopes.
LEMMA StatementTurns ==
  ASSUME StoreInv, HistoryFits, NEW c \in Clients, StoreStep(c), NEW job, job = client[c].job
  PROVE  Turns(job)
<1>1. client[c] \in Working /\ client[c].job \in Job /\ ClientInv(client[c])
  BY ClientShape DEF StoreStep, InitializeRow, RegisterRow, FindScope, LoadRow, LoadActive,
                     LoadReferenced, LoadProcessed, CommitRecovery, CommitOperation, At, Statements,
                     Working
<1>2. CASE InitializeRow(c)
  <2>1. job.op = "Coordinate" /\ job.worktree \in Worktrees
    BY <1>1, <1>2, JobShape DEF ClientInv, KnowsItsJob, InitializeRow, At
  <2> QED BY <1>2, <2>1, InitializeTurns, NothingTurns DEF InitializeRow
<1>3. CASE RegisterRow(c)
  BY <1>3, RegisterTurns, NothingTurns DEF RegisterRow
<1>4. CASE FindScope(c) \/ LoadRow(c) \/ LoadActive(c) \/ LoadReferenced(c) \/ LoadProcessed(c)
  BY <1>4, NothingTurns DEF FindScope, LoadRow, LoadActive, LoadReferenced, LoadProcessed
<1>5. CASE CommitOperation(c)
  <2>1. client[c].pc = "commit" /\ job.op \in {"Coordinate", "Taint", "Abandon"}
    BY <1>1, <1>5, JobShape DEF CommitOperation, At
  <2>2. CASE UNCHANGED durableVars
    BY <2>2, NothingTurns
  <2>3. CASE /\ HasTransition(client[c])
             /\ GuardHolds(client[c].job.worktree, CommitTransition(client[c]))
             /\ ApplyTransition(client[c].job.worktree, CommitTransition(client[c]))
    <3>1. CASE job.op = "Coordinate"
      BY <2>1, <2>3, <3>1, BoundaryTurns
    <3>2. CASE job.op = "Taint"
      <4>1. Ledger!Taint(job.worktree)
        BY <2>1, <2>3, <3>2, AppliedTaint
      <4> QED BY <4>1, TaintTurns
    <3>3. CASE job.op = "Abandon"
      <4>1. Ledger!Abandon(job.scope) /\ scopes[job.scope].worktree = job.worktree
        BY <2>1, <2>3, <3>3, AppliedAbandon
      <4> QED BY <3>3, <4>1, AbandonTurns
    <3> QED BY <2>1, <3>1, <3>2, <3>3
  <2> QED BY <1>5, <2>2, <2>3 DEF CommitOperation, Conflict
<1> QED BY <1>2, <1>3, <1>4, <1>5, RecoveryTurns DEF StoreStep


\* A hook that has done its job has its scope registered.
IsRegistered(job) ==
  IsHookJob(job) =>
    job.boundary.scope \in DOMAIN scopes /\ scopes[job.boundary.scope].worktree = job.worktree

LEMMA DoneIsRegistered ==
  ASSUME StoreInv, HistoryFits, NEW c \in Clients, StoreStep(c), NEW job, job = client[c].job,
         client'[c].pc = "ok"
  PROVE  IsRegistered(job)'
<1> SUFFICES ASSUME IsHookJob(job)
             PROVE  /\ job.boundary.scope \in DOMAIN scopes'
                    /\ scopes'[job.boundary.scope].worktree = job.worktree
  BY DEF IsRegistered
<1>1. PICK me \in Working : me = client[c]
  BY ClientShape DEF StoreStep, InitializeRow, RegisterRow, FindScope, LoadRow, LoadActive,
                     LoadReferenced, LoadProcessed, CommitRecovery, CommitOperation, At, Statements
<1>2. client \in [Clients -> ClientState] /\ me.job \in Job
  BY <1>1 DEF StoreInv, Working
<1>3. HasRow(me)
  <2>1. \A pc : Goto(c, pc) => client'[c].pc = pc
    <3> SUFFICES ASSUME NEW pc, Goto(c, pc)
                 PROVE  client'[c].pc = pc
      OBVIOUS
    <3>1. client'[c] = [me EXCEPT !.pc = pc]
      BY <1>1, <1>2 DEF Goto
    <3> QED BY <3>1 DEF Working
  <2>2. \A result : End(c, result) => client'[c].pc = result
    BY <1>2 DEF End
  <2>3. ~InitializeRow(c) /\ ~RegisterRow(c) /\ ~FindScope(c)
    BY <2>1, <2>2 DEF InitializeRow, RegisterRow, FindScope
  <2>4. ASSUME LoadRow(c)
        PROVE  FALSE
    <3>1. CASE me.job.worktree \in DOMAIN worktrees
      <4>1. client'[c] = [me EXCEPT !.pc = "loadActive", !.row = worktrees[me.job.worktree],
                            !.base = IF @ = -1 THEN worktrees[me.job.worktree].revision ELSE @]
        BY <1>1, <1>2, <2>4, <3>1 DEF LoadRow
      <4> QED BY <4>1 DEF Working
    <3>2. CASE me.job.worktree \notin DOMAIN worktrees
      BY <1>1, <2>2, <2>4, <3>2 DEF LoadRow, MissingRowResult
    <3> QED BY <3>1, <3>2
  <2> QED BY <1>1, <2>3, <2>4
          DEF StoreStep, LoadActive, LoadReferenced, LoadProcessed, CommitRecovery, CommitOperation,
              At, HasRow
<1>4. Referenced(job) = {job.boundary.scope}
  BY <1>1, <1>2, ReferencedShape
<1>5. job.boundary.scope \in DOMAIN scopes /\ scopes[job.boundary.scope].worktree = job.worktree
  BY <1>1, <1>3, <1>4, ClientShape DEF ClientInv, HasRegistered
<1> QED BY <1>5, StatementTurns DEF Turns, ScopesGoOn

-----------------------------------------------------------------------------
(* The invariant behind ExclusiveMeansAlone.                               *)

EditsOf(w, s) == {v \in DOMAIN author[w] : author[w][v] = s}

\* A tool runs only for a scope that accounts for it.
ToolInv(s) ==
  /\ tool[s] = "running" => s \in DOMAIN scopes /\ Explained(s)
  /\ tool[s] = "new" /\ s \in DOMAIN scopes => scopes[s].status = "NeverSeen" \/ Explained(s)

\* A scope edits its own worktree, and edits no capture has passed are
\* accounted for, or the next capture is a rebaseline.
EditInv(w) ==
  \A s \in Scopes : \A v \in EditsOf(w, s) :
    /\ s \in DOMAIN scopes /\ scopes[s].worktree = w
    /\ v > worktrees[w].cursor => Explained(s) \/ worktrees[w].rebaseline

\* The calls for one scope follow one another.
CallInv(c) ==
  process[c].phase # "idle" =>
    /\ \A s \in StartedBy(CallOf(c)) : tool[s] = "new"
    /\ \A s \in EndedBy(CallOf(c)) : tool[s] = "over"
    /\ \A d \in Clients : process[d].phase # "idle" =>
         c = d \/ ScopesOf(CallOf(c)) \cap ScopesOf(CallOf(d)) = {}

\* The client's job is that of the call, and edits since its capture are
\* accounted for by scopes that it does not end.
ServesCall(job, call) ==
  /\ job.op = "Coordinate" => call.op # "Abandon" /\ job.boundary = call.boundary
  /\ job.op = "Abandon" => call.op = "Abandon" /\ job.scope = call.scope
LaterEdits(c) ==
  client[c].job.op = "Coordinate" =>
    \A s \in Scopes : \A v \in EditsOf(On(c), s) :
      v > client[c].job.tree => Explained(s) /\ s \notin EndedBy(CallOf(c))
CaptureInv(c) ==
  /\ Busy(c) => ServesCall(client[c].job, CallOf(c))
  /\ client[c].pc \in Statements => LaterEdits(c)
  /\ client[c].pc = "ok" => IsRegistered(client[c].job)

\* A Start that was delivered has been applied to its scope.
KeysInv ==
  \A call \in AnyCall : \A s \in StartedBy(call) :
    Key(call.boundary) \in processedEvents => s \in DOMAIN scopes /\ scopes[s].status # "NeverSeen"

AloneInv ==
  /\ \A s \in Scopes : ToolInv(s)
  /\ \A w \in Worktrees : EditInv(w)
  /\ \A c \in Clients : CallInv(c) /\ CaptureInv(c)
  /\ KeysInv
  /\ HistoryFits
  /\ \A e \in mutationEvents : e.worktree \in DOMAIN worktrees
  /\ ExclusiveMeansAlone

LEMMA StartShape ==
  ASSUME NEW call \in AnyCall
  PROVE  /\ StartedBy(call) \subseteq ScopesOf(call) /\ EndedBy(call) \subseteq ScopesOf(call)
         /\ StartedBy(call) \cap EndedBy(call) = {}
         /\ ScopesOf(call) \subseteq Scopes
         /\ StartedBy(call) # {} =>
              /\ call \in Calls /\ call \in HookCall /\ call.op = "Coordinate"
              /\ call.boundary.kind = "Start" /\ IsHook(call.boundary)
              /\ StartedBy(call) = {call.boundary.scope}
<1>1. CASE call.op = "Abandon"
  <2>1. call \in AbandonJob
    BY <1>1, CallShape
  <2> QED BY <1>1, <2>1 DEF StartedBy, EndedBy, ScopesOf, AbandonJob
<1>2. CASE call.op # "Abandon" /\ ~IsHook(call.boundary)
  BY <1>2 DEF StartedBy, EndedBy, ScopesOf, IsHook
<1>3. CASE call.op # "Abandon" /\ IsHook(call.boundary)
  <2>1. call \in HookCall
    BY <1>3, CallShape
  <2>2. call \in Calls
    BY <1>3 DEF AnyCall, GuardCall, IsHook
  <2> QED BY <1>3, <2>1, <2>2 DEF StartedBy, EndedBy, ScopesOf, HookCall, HookBoundary, IsHook
<1> QED BY <1>1, <1>2, <1>3

\* What accounts for a scope goes on to, unless its own job ends the scope.
LEMMA StaysExplained ==
  ASSUME NEW job, Turns(job), StoreInv, NEW s \in DOMAIN scopes, Explained(s),
         s \notin Ends(job) \/ scopes[s].worktree # job.worktree
  PROVE  Explained(s)'
<1> DEFINE w == scopes[s].worktree
<1>1. w \in DOMAIN worktrees
  BY RowShape DEF StoreInv
<1>2. s \in DOMAIN scopes' /\ scopes'[s].worktree = w
  BY DEF Turns, ScopesGoOn
<1>3. PICK v : v = w
  OBVIOUS
<1>4. EndedByRecovery(v) \subseteq EndedByRecovery(v)' /\ (Full(v) => Full(v)')
  BY <1>1, <1>3 DEF Turns, RevisionsGoOn, Full
<1>5. CASE scopes[s].status = "Active"
  <2>1. \/ scopes'[s].status = "Active"
        \/ w = job.worktree /\ s \in EndedByRecovery(job.worktree)'
    BY <1>5 DEF Turns, ScopesGoOn
  <2>2. PICK x : x = job.worktree
    OBVIOUS
  <2>3. CASE scopes'[s].status = "Active"
    BY <2>3 DEF Explained
  <2>4. CASE v = x /\ s \in EndedByRecovery(job.worktree)'
    <3>1. s \in EndedByRecovery(x)'
      BY <2>2, <2>4
    <3> QED BY <1>2, <1>3, <2>4, <3>1 DEF Explained
  <2> QED BY <1>3, <2>1, <2>2, <2>3, <2>4
<1>6. CASE s \in EndedByRecovery(v) \/ Full(v)
  BY <1>2, <1>3, <1>4, <1>6 DEF Explained
<1> QED BY <1>3, <1>5, <1>6 DEF Explained

\* What the database says of the scopes is as before.
LEMMA DatabaseRests ==
  ASSUME UNCHANGED durableVars
  PROVE  /\ \A s : Explained(s)' <=> Explained(s)
         /\ KeysInv' <=> KeysInv
         /\ HistoryFits' <=> HistoryFits
         /\ \A w : EndedByRecovery(w)' = EndedByRecovery(w)
<1>1. /\ worktrees' = worktrees /\ scopes' = scopes /\ processedEvents' = processedEvents
      /\ history' = history
  BY DEF durableVars
<1>2. \A w : EndedByRecovery(w)' = EndedByRecovery(w)
  BY <1>1 DEF EndedByRecovery
<1> QED BY <1>1, <1>2 DEF Explained, Full, KeysInv, HistoryFits

\* Nobody comes to be served.
CallsGoOn ==
  \A d \in Clients : process'[d].phase # "idle" =>
    process[d].phase # "idle" /\ CallOf(d)' = CallOf(d)

LEMMA CallsRest ==
  ASSUME AloneInv, CallsGoOn, tool' = tool, NEW d \in Clients
  PROVE  CallInv(d)'
<1> SUFFICES ASSUME process'[d].phase # "idle"
             PROVE  /\ \A s \in StartedBy(CallOf(d))' : tool[s] = "new"
                    /\ \A s \in EndedBy(CallOf(d))' : tool[s] = "over"
                    /\ \A x \in Clients : process'[x].phase # "idle" =>
                         d = x \/ ScopesOf(CallOf(d))' \cap ScopesOf(CallOf(x))' = {}
  BY DEF CallInv
<1>1. process[d].phase # "idle" /\ CallOf(d)' = CallOf(d)
  BY DEF CallsGoOn
<1>2. CallInv(d)
  BY DEF AloneInv
<1>3. /\ StartedBy(CallOf(d))' = StartedBy(CallOf(d)) /\ EndedBy(CallOf(d))' = EndedBy(CallOf(d))
  BY <1>1 DEF StartedBy, EndedBy, ScopesOf
<1>4. ASSUME NEW x \in Clients, process'[x].phase # "idle"
      PROVE  d = x \/ ScopesOf(CallOf(d))' \cap ScopesOf(CallOf(x))' = {}
  <2>1. process[x].phase # "idle" /\ CallOf(x)' = CallOf(x)
    BY <1>4 DEF CallsGoOn
  <2> QED BY <1>1, <1>2, <2>1 DEF CallInv, ScopesOf
<1> QED BY <1>1, <1>2, <1>3, <1>4 DEF CallInv

\* A client at work is that of a process that stores.
LEMMA BusyStores ==
  ASSUME GuardInv, NEW d \in Clients, Busy(d)
  PROVE  process[d].phase = "storing" /\ JobFits(d) /\ client[d].job \in Job
<1>1. process[d].phase = "storing"
  BY DEF GuardInv, ProcessInv, Busy, Idle, Statements
<1>2. client[d] \in Working \/ client[d] \in Succeeded
  BY ClientShape DEF GuardInv, Busy
<1> QED BY <1>1, <1>2 DEF GuardInv, ProcessInv, Serving, Working, Succeeded

\* A client that does not move, while nothing is written.
LEMMA CaptureRests ==
  ASSUME GuardInv', AloneInv, Quiet, CallsGoOn, NEW d \in Clients,
         client'[d] = client[d] \/ ~Busy(d)'
  PROVE  CaptureInv(d)'
<1>1. CASE ~Busy(d)'
  BY <1>1 DEF CaptureInv, Busy
<1>2. CASE Busy(d)' /\ client'[d] = client[d]
  <2>1. process'[d].phase = "storing"
    BY <1>2 DEF GuardInv, ProcessInv, Busy, Idle, Statements
  <2>2. CallOf(d)' = CallOf(d) /\ On(d)' = On(d)
    BY <2>1 DEF CallsGoOn, On
  <2>3. EndedBy(CallOf(d))' = EndedBy(CallOf(d))
    BY <2>2 DEF EndedBy, ScopesOf
  <2>4. CaptureInv(d) /\ Busy(d)
    BY <1>2 DEF AloneInv, Busy
  <2>5. ServesCall(client[d].job, CallOf(d))'
    BY <1>2, <2>2, <2>4 DEF CaptureInv, ServesCall
  <2>6. ASSUME client[d].pc \in Statements
        PROVE  LaterEdits(d)'
    <3>1. LaterEdits(d)
      BY <2>4, <2>6 DEF CaptureInv
    <3>2. \A s : Explained(s)' <=> Explained(s)
      BY DatabaseRests DEF Quiet
    <3>3. \A s : EditsOf(On(d), s)' = EditsOf(On(d), s)
      BY <2>2 DEF EditsOf, Quiet
    <3> QED BY <1>2, <2>3, <3>1, <3>2, <3>3 DEF LaterEdits
  <2>7. client[d].pc = "ok" => IsRegistered(client[d].job)'
    BY <1>2, <2>4 DEF CaptureInv, IsRegistered, Quiet, durableVars
  <2> QED BY <1>2, <2>5, <2>6, <2>7 DEF CaptureInv
<1> QED BY <1>1, <1>2

\* Nothing is written, and every client keeps its invariant.
LEMMA QuietAlone ==
  ASSUME AloneInv, Quiet, \A s \in Scopes : ToolInv(s)',
         \A c \in Clients : CallInv(c)' /\ CaptureInv(c)'
  PROVE  AloneInv'
<1>1. /\ author' = author /\ worktrees' = worktrees /\ scopes' = scopes
      /\ mutationEvents' = mutationEvents /\ UNCHANGED durableVars
  BY DEF Quiet, durableVars
<1>2. /\ \A s : Explained(s)' <=> Explained(s)
      /\ \A w : EndedByRecovery(w)' = EndedByRecovery(w)
      /\ KeysInv' /\ HistoryFits'
  BY <1>1, DatabaseRests DEF AloneInv
<1>3. ASSUME NEW w \in Worktrees
      PROVE  EditInv(w)'
  <2>1. \A s : EditsOf(w, s)' = EditsOf(w, s)
    BY <1>1 DEF EditsOf
  <2> QED BY <1>1, <1>2, <2>1 DEF AloneInv, EditInv
<1>4. ExclusiveMeansAlone'
  <2>1. \A e : EditorsOf(e)' = EditorsOf(e)
    BY <1>1 DEF EditorsOf
  <2> QED BY <1>1, <1>2, <2>1 DEF AloneInv, ExclusiveMeansAlone
<1> QED BY <1>1, <1>2, <1>3, <1>4 DEF AloneInv

LEMMA ToolsRest ==
  ASSUME AloneInv, Quiet, tool' = tool, NEW s \in Scopes
  PROVE  ToolInv(s)'
<1>1. (Explained(s)' <=> Explained(s)) /\ scopes' = scopes
  BY DatabaseRests DEF Quiet, durableVars
<1> QED BY <1>1 DEF AloneInv, ToolInv

-----------------------------------------------------------------------------
(* Steps that write nothing.                                               *)

\* Processes go on or end; nobody comes, no tool starts or is over.
Moves ==
  /\ Quiet /\ tool' = tool /\ CallsGoOn
  /\ \A d \in Clients : client'[d] = client[d] \/ ~Busy(d)'

LEMMA MovesAlone ==
  ASSUME GuardInv', AloneInv, Moves
  PROVE  AloneInv'
BY ToolsRest, CallsRest, CaptureRests, QuietAlone DEF Moves

LEMMA BeginsAlone ==
  ASSUME GuardInv, GuardInv', AloneInv, NEW c \in Clients, Begins(c)
  PROVE  AloneInv'
<1>1. process[c].phase \in {"armed", "finishing"} /\ process[c].phase \in Phases /\ Quiet /\ tool' = tool
  BY DEF Begins, Serving, Phases, Begin, Quiet, world
<1>2. /\ RuntimeTypeOK /\ CallOf(c) \in AnyCall /\ On(c) \in Worktrees
  BY <1>1, ServingShape DEF GuardInv
<1>3. /\ process'[c].phase = "storing" /\ CallOf(c)' = CallOf(c) /\ On(c)' = On(c)
      /\ \A d \in Clients : d # c => process'[d] = process[d]
  BY <1>1, <1>2, ReachShape DEF Begins, Phases
<1>4. CallsGoOn
  BY <1>1, <1>3 DEF CallsGoOn, CallOf
<1>5. PICK call \in AnyCall, w \in Worktrees : call = CallOf(c) /\ w = On(c) /\ call.worktree = w
  BY <1>2 DEF On
<1> DEFINE Started0(job, pending) ==
             /\ client' = [client EXCEPT ![c] = Started(job, pending)]
             /\ ServesCall(job, call)
             /\ job.op = "Coordinate" => job.tree = tree[w]
<1>6. PICK job \in Job : \E pending : Started0(job, pending)
  <2>1. tree[w] \in Trees
    BY <1>2, <1>5, TreesAreVersions DEF RuntimeTypeOK
  <2>2. ASSUME call.op # "Abandon", NEW pending, Begin(c, JobOf(call, tree[w]), pending)
        PROVE  JobOf(call, tree[w]) \in Job /\ Started0(JobOf(call, tree[w]), pending)
    <3>1. /\ JobOf(call, tree[w]) \in Job /\ JobOf(call, tree[w]).op = "Coordinate"
          /\ JobOf(call, tree[w]).tree = tree[w]
      BY <2>1, <2>2, <1>5, CapturedJob
    <3>2. JobOf(call, tree[w]).boundary = call.boundary
      BY <2>2 DEF JobOf
    <3> QED BY <2>2, <3>1, <3>2 DEF Begin, ServesCall
  <2> DEFINE taint == [op |-> "Taint", worktree |-> w]
  <2>3. ASSUME Begin(c, taint, FALSE)
        PROVE  taint \in Job /\ Started0(taint, FALSE)
    <3>1. taint \in Job /\ taint.op = "Taint"
      BY DEF Job, TaintJob
    <3> HIDE DEF taint
    <3> QED BY <2>3, <3>1 DEF Begin, ServesCall
  <2>4. ASSUME call.op = "Abandon", Begin(c, JobOf(call, 0), FALSE)
        PROVE  JobOf(call, 0) \in Job /\ Started0(JobOf(call, 0), FALSE)
    BY <2>4, CallShape DEF Begin, ServesCall, Job, JobOf
  <2> HIDE DEF Started0
  <2> QED BY <1>5, <2>2, <2>3, <2>4 DEF Begins
<1>7. PICK pending : Started0(job, pending)
  BY <1>6
<1>8. /\ client'[c].job = job /\ client'[c].pc # "ok"
      /\ \A d \in Clients : d # c => client'[d] = client[d]
  BY <1>7, JobShape DEF GuardInv, StoreInv, Started
<1>9. CaptureInv(c)'
  <2>1. ServesCall(client[c].job, CallOf(c))'
    BY <1>3, <1>5, <1>7, <1>8 DEF ServesCall
  <2>2. LaterEdits(c)'
    <3> SUFFICES ASSUME job.op = "Coordinate", NEW s \in Scopes, NEW v \in EditsOf(w, s)', v > tree[w]
                 PROVE  FALSE
      BY <1>3, <1>5, <1>7, <1>8 DEF LaterEdits
    <3>1. author' = author /\ author[w] \in [1..tree[w] -> Authors] /\ tree[w] \in Nat
      BY <1>1, <1>2, TreesAreVersions DEF Quiet, RuntimeTypeOK
    <3> QED BY <3>1 DEF EditsOf
  <2> QED BY <1>8, <2>1, <2>2 DEF CaptureInv
<1> QED BY <1>1, <1>4, <1>8, <1>9, ToolsRest, CallsRest, CaptureRests, QuietAlone

\* The tool starts: its Start was delivered, and so was applied to the scope.
LEMMA CompleteAlone ==
  ASSUME GuardInv, GuardInv', AloneInv, NEW c \in Clients, Complete(c)
  PROVE  AloneInv'
<1>1. /\ process[c].phase = "storing" /\ process[c].phase \in Phases /\ client[c].pc = "ok"
      /\ process' = [process EXCEPT ![c] = Unserved] /\ client' = [client EXCEPT ![c] = Idle]
      /\ Quiet
  BY DEF Complete, Serving, At, Exit, Quiet, Phases
<1>2. RuntimeTypeOK /\ CallOf(c) \in AnyCall
  BY <1>1, ServingShape DEF GuardInv
<1>3. PICK call \in AnyCall : call = CallOf(c)
  BY <1>2
<1>4. tool' = [s \in Scopes |-> IF s \in StartedBy(call) THEN "running" ELSE tool[s]]
  BY <1>3 DEF Complete
<1>5. /\ process'[c].phase = "idle" /\ client'[c] = Idle
      /\ \A d \in Clients : d # c => process'[d] = process[d] /\ client'[d] = client[d]
  BY <1>1, <1>2 DEF RuntimeTypeOK, GuardInv, StoreInv, Unserved
<1>6. CallsGoOn /\ \A d \in Clients : client'[d] = client[d] \/ ~Busy(d)'
  BY <1>5 DEF CallsGoOn, CallOf, Busy, Idle, Statements
<1>7. /\ StartedBy(call) \subseteq Scopes /\ StartedBy(call) \subseteq ScopesOf(call)
  BY StartShape
<1>8. ASSUME NEW s \in StartedBy(call)
      PROVE  s \in DOMAIN scopes /\ Explained(s)
  <2>1. /\ call.op = "Coordinate" /\ IsHook(call.boundary)
    BY <1>8, StartShape
  <2>2. ServesCall(client[c].job, call) /\ client[c].job \in Job
    BY <1>1, <1>3, BusyStores DEF AloneInv, CaptureInv, Busy
  <2>3. IsSettled(client[c])
    BY ClientShape DEF GuardInv, ClientInv
  <2>4. client[c].job.op = "Coordinate" /\ client[c].job.boundary = call.boundary
    BY <1>1, <2>1, <2>2, <2>3, JobShape DEF ServesCall, IsSettled
  <2>5. IsHookJob(client[c].job)
    BY <2>1, <2>4 DEF IsHookJob
  <2>6. \/ Key(call.boundary) \in processedEvents
        \/ worktrees[client[c].job.worktree].revision = MaxRevision
    BY <1>1, <2>3, <2>4, <2>5 DEF IsSettled
  <2>7. tool[s] = "new"
    BY <1>1, <1>3, <1>8 DEF AloneInv, CallInv
  <2>8. CASE Key(call.boundary) \in processedEvents
    <3>1. s \in DOMAIN scopes /\ scopes[s].status # "NeverSeen"
      BY <1>8, <2>8 DEF AloneInv, KeysInv
    <3> QED BY <1>7, <1>8, <2>7, <3>1 DEF AloneInv, ToolInv
  <2>9. CASE worktrees[client[c].job.worktree].revision = MaxRevision
    <3>1. s = call.boundary.scope
      BY <1>8, StartShape
    <3>2. s \in DOMAIN scopes /\ scopes[s].worktree = client[c].job.worktree
      BY <1>1, <2>4, <2>5, <3>1 DEF AloneInv, CaptureInv, IsRegistered
    <3> QED BY <2>9, <3>2 DEF Explained, Full
  <2> QED BY <2>6, <2>8, <2>9
<1>9. ASSUME NEW s \in Scopes
      PROVE  ToolInv(s)'
  <2>1. (Explained(s)' <=> Explained(s)) /\ scopes' = scopes
    BY <1>1, DatabaseRests DEF Quiet, durableVars
  <2>2. CASE s \in StartedBy(call)
    BY <1>4, <1>8, <2>1, <2>2 DEF ToolInv
  <2>3. CASE s \notin StartedBy(call)
    <3>1. tool'[s] = tool[s]
      BY <1>4, <2>3
    <3> QED BY <2>1, <3>1 DEF AloneInv, ToolInv
  <2> QED BY <2>2, <2>3
<1>10. ASSUME NEW d \in Clients
       PROVE  CallInv(d)'
  <2>1. CASE d = c
    BY <1>5, <2>1 DEF CallInv
  <2>2. CASE d # c
    <3> SUFFICES ASSUME process[d].phase # "idle"
                 PROVE  /\ \A s \in StartedBy(CallOf(d)) : tool'[s] = "new"
                        /\ \A s \in EndedBy(CallOf(d)) : tool'[s] = "over"
                        /\ \A x \in Clients : process'[x].phase # "idle" =>
                             d = x \/ ScopesOf(CallOf(d)) \cap ScopesOf(CallOf(x))' = {}
      BY <1>5, <2>2 DEF CallInv, CallOf, StartedBy, EndedBy, ScopesOf
    <3>1. CallInv(d)
      BY DEF AloneInv
    <3>2. ScopesOf(CallOf(d)) \cap ScopesOf(call) = {}
      BY <1>1, <1>3, <2>2, <3>1 DEF CallInv
    <3>3. CallOf(d) \in AnyCall
      <4>1. process[d] \in Process /\ process[d] # Unserved
        BY <1>2 DEF RuntimeTypeOK, Unserved
      <4> QED BY <4>1 DEF Process, CallOf
    <3>4. \A s \in ScopesOf(CallOf(d)) : tool'[s] = tool[s]
      BY <1>4, <1>7, <3>2, <3>3, StartShape
    <3>5. \A s \in StartedBy(CallOf(d)) \cup EndedBy(CallOf(d)) : tool'[s] = tool[s]
      BY <3>3, <3>4, StartShape
    <3>6. ASSUME NEW x \in Clients, process'[x].phase # "idle"
          PROVE  d = x \/ ScopesOf(CallOf(d)) \cap ScopesOf(CallOf(x))' = {}
      <4>1. process[x].phase # "idle" /\ CallOf(x)' = CallOf(x)
        BY <1>6, <3>6 DEF CallsGoOn
      <4> QED BY <3>1, <4>1 DEF CallInv, ScopesOf
    <3> QED BY <3>1, <3>5, <3>6 DEF CallInv
  <2> QED BY <2>1, <2>2
<1> QED BY <1>1, <1>6, <1>9, <1>10, CaptureRests, QuietAlone

\* A call comes: if it ends scopes their tools are over.
LEMMA InvokeAlone ==
  ASSUME GuardInv, GuardInv', AloneInv, NEW c \in Clients, NEW call \in AnyCall, Invoke(c, call)
  PROVE  AloneInv'
<1> DEFINE new == [phase |-> "waiting", call |-> call, inherited |-> FALSE]
<1>1. /\ process[c].phase = "idle" /\ process' = [process EXCEPT ![c] = new] /\ client' = client
      /\ \A d \in Clients : process[d].phase # "idle" => ScopesOf(CallOf(d)) \cap ScopesOf(call) = {}
      /\ \A s \in StartedBy(call) : tool[s] = "new"
      /\ tool' = [s \in Scopes |-> IF s \in EndedBy(call) THEN "over" ELSE tool[s]]
      /\ Quiet
  BY DEF Invoke, Serving, Quiet
<1>2. RuntimeTypeOK /\ process \in [Clients -> Process]
  BY DEF GuardInv, RuntimeTypeOK
<1>3. /\ process'[c].phase = "waiting" /\ CallOf(c)' = call
      /\ \A d \in Clients : d # c => process'[d] = process[d]
  BY <1>1, <1>2 DEF CallOf
<1> HIDE DEF new
<1>4. /\ StartedBy(call) \subseteq Scopes /\ EndedBy(call) \subseteq ScopesOf(call)
      /\ StartedBy(call) \subseteq ScopesOf(call) /\ ScopesOf(call) \subseteq Scopes
      /\ StartedBy(call) \cap EndedBy(call) = {}
  BY StartShape
<1>5. ASSUME NEW s \in Scopes
      PROVE  ToolInv(s)'
  <2>1. (Explained(s)' <=> Explained(s)) /\ scopes' = scopes
    BY <1>1, DatabaseRests DEF Quiet, durableVars
  <2>2. tool'[s] \in {"over", tool[s]}
    BY <1>1
  <2> QED BY <2>1, <2>2 DEF AloneInv, ToolInv
<1>6. ASSUME NEW d \in Clients, d # c, process[d].phase # "idle"
      PROVE  /\ CallOf(d)' = CallOf(d) /\ CallOf(d) \in AnyCall
             /\ ScopesOf(CallOf(d)) \cap ScopesOf(call) = {}
             /\ \A s \in ScopesOf(CallOf(d)) : tool'[s] = tool[s]
  <2>1. CallOf(d) \in AnyCall
    <3>1. process[d] \in Process /\ process[d] # Unserved
      BY <1>2, <1>6 DEF Unserved
    <3> QED BY <3>1 DEF Process, CallOf
  <2> QED BY <1>1, <1>3, <1>4, <1>6, <2>1, StartShape DEF CallOf
<1>7. CallInv(c)'
  <2>1. \A s \in StartedBy(call) : tool'[s] = "new"
    BY <1>1, <1>4
  <2>2. \A s \in EndedBy(call) : tool'[s] = "over"
    BY <1>1, <1>4
  <2>3. ASSUME NEW d \in Clients, process'[d].phase # "idle", d # c
        PROVE  ScopesOf(call) \cap ScopesOf(CallOf(d))' = {}
    <3>1. process[d].phase # "idle"
      BY <1>3, <2>3
    <3> QED BY <1>6, <2>3, <3>1 DEF ScopesOf
  <2> QED BY <1>3, <2>1, <2>2, <2>3 DEF CallInv, StartedBy, EndedBy, ScopesOf
<1>8. ASSUME NEW d \in Clients, d # c
      PROVE  CallInv(d)'
  <2> SUFFICES ASSUME process[d].phase # "idle"
               PROVE  /\ \A s \in StartedBy(CallOf(d)) : tool'[s] = "new"
                      /\ \A s \in EndedBy(CallOf(d)) : tool'[s] = "over"
                      /\ \A x \in Clients : process'[x].phase # "idle" =>
                           d = x \/ ScopesOf(CallOf(d)) \cap ScopesOf(CallOf(x))' = {}
    BY <1>3, <1>8 DEF CallInv, CallOf, StartedBy, EndedBy, ScopesOf
  <2>1. CallInv(d)
    BY DEF AloneInv
  <2>2. \A s \in StartedBy(CallOf(d)) \cup EndedBy(CallOf(d)) : tool'[s] = tool[s]
    BY <1>6, <1>8, StartShape
  <2>3. ASSUME NEW x \in Clients, process'[x].phase # "idle", d # x
        PROVE  ScopesOf(CallOf(d)) \cap ScopesOf(CallOf(x))' = {}
    <3>1. CASE x = c
      BY <1>3, <1>6, <1>8, <3>1 DEF ScopesOf
    <3>2. CASE x # c
      <4>1. process[x].phase # "idle" /\ CallOf(x)' = CallOf(x)
        BY <1>3, <2>3, <3>2 DEF CallOf
      <4> QED BY <2>1, <2>3, <4>1 DEF CallInv, ScopesOf
    <3> QED BY <3>1, <3>2
  <2> QED BY <2>1, <2>2, <2>3 DEF CallInv
<1>9. ASSUME NEW d \in Clients
      PROVE  CaptureInv(d)'
  <2>1. CASE ~Busy(d)'
    BY <2>1 DEF CaptureInv, Busy
  <2>2. CASE Busy(d)'
    <3>1. Busy(d) /\ client'[d] = client[d]
      BY <1>1, <2>2 DEF Busy
    <3>2. process[d].phase = "storing" /\ d # c
      BY <1>1, <3>1, BusyStores
    <3>3. CallOf(d)' = CallOf(d) /\ On(d)' = On(d)
      BY <1>3, <3>2 DEF CallOf, On
    <3>4. EndedBy(CallOf(d))' = EndedBy(CallOf(d))
      BY <3>3 DEF EndedBy, ScopesOf
    <3>5. \A s : Explained(s)' <=> Explained(s)
      BY <1>1, DatabaseRests DEF Quiet
    <3>6. \A s : EditsOf(On(d), s)' = EditsOf(On(d), s)
      BY <1>1, <3>3 DEF EditsOf, Quiet
    <3>7. CaptureInv(d)
      BY DEF AloneInv
    <3>8. ServesCall(client[d].job, CallOf(d))'
      BY <3>1, <3>3, <3>7 DEF CaptureInv, ServesCall
    <3>9. client[d].pc \in Statements => LaterEdits(d)'
      BY <3>1, <3>4, <3>5, <3>6, <3>7 DEF CaptureInv, LaterEdits
    <3>10. client[d].pc = "ok" => IsRegistered(client[d].job)'
      BY <1>1, <3>1, <3>7 DEF CaptureInv, IsRegistered, Quiet, durableVars
    <3> QED BY <3>1, <3>8, <3>9, <3>10 DEF CaptureInv
  <2> QED BY <2>1, <2>2
<1> QED BY <1>1, <1>5, <1>7, <1>8, <1>9, QuietAlone

-----------------------------------------------------------------------------
(* Edits.                                                                  *)

\* Somebody edits: a tool that is running, a user or a shell.
Edits(w, by) ==
  /\ by \in Scopes => tool[by] = "running" /\ scopes[by].worktree = w
  /\ tree[w] < MaxEdits
  /\ tree' = [tree EXCEPT ![w] = @ + 1]
  /\ author' = [author EXCEPT ![w] = Put(@, tree'[w], by)]
  /\ UNCHANGED <<durableVars, client, process, tool>>

LEMMA EditsAlone ==
  ASSUME GuardInv, AloneInv, NEW w \in Worktrees, NEW by \in Authors, Edits(w, by)
  PROVE  AloneInv'
<1>1. /\ worktrees' = worktrees /\ scopes' = scopes /\ mutationEvents' = mutationEvents
      /\ client' = client /\ process' = process /\ tool' = tool
      /\ by \in Scopes => tool[by] = "running" /\ scopes[by].worktree = w
  BY DEF Edits, durableVars
<1>2. /\ \A s : Explained(s)' <=> Explained(s)
      /\ \A v : EndedByRecovery(v)' = EndedByRecovery(v)
      /\ KeysInv' /\ HistoryFits'
  BY DatabaseRests DEF AloneInv, Edits
<1>3. RuntimeTypeOK
  BY DEF GuardInv
<1>4. /\ tree[w] \in Nat /\ DOMAIN author = Worktrees /\ author[w] \in [1..tree[w] -> Authors]
      /\ tree'[w] = tree[w] + 1
  BY <1>3, TreesAreVersions DEF RuntimeTypeOK, Edits
<1>5. /\ \A x \in Worktrees : x # w => author'[x] = author[x]
      /\ author'[w] = Put(author[w], tree[w] + 1, by)
  BY <1>4 DEF Edits
<1>6. /\ \A v \in 1..tree[w] : author'[w][v] = author[w][v]
      /\ author'[w][tree[w] + 1] = by
      /\ DOMAIN author'[w] = 1..tree[w] \cup {tree[w] + 1}
  BY <1>4, <1>5 DEF Put
<1>7. ASSUME NEW x \in Worktrees, NEW s \in Scopes, NEW v \in EditsOf(x, s)'
      PROVE  v \in EditsOf(x, s) \/ (x = w /\ s = by /\ v = tree[w] + 1)
  <2>1. CASE x # w
    BY <1>5, <1>7, <2>1 DEF EditsOf
  <2>2. CASE x = w
    BY <1>4, <1>6, <1>7, <2>2 DEF EditsOf
  <2> QED BY <2>1, <2>2
<1>8. by \in Scopes => by \in DOMAIN scopes /\ Explained(by)
  BY <1>1 DEF AloneInv, ToolInv
<1>9. ASSUME NEW s \in Scopes
      PROVE  ToolInv(s)'
  BY <1>1, <1>2 DEF AloneInv, ToolInv
<1>10. ASSUME NEW x \in Worktrees
       PROVE  EditInv(x)'
  <2> SUFFICES ASSUME NEW s \in Scopes, NEW v \in EditsOf(x, s)'
               PROVE  /\ s \in DOMAIN scopes /\ scopes[s].worktree = x
                      /\ v > worktrees[x].cursor => Explained(s) \/ worktrees[x].rebaseline
    BY <1>1, <1>2 DEF EditInv
  <2>1. CASE v \in EditsOf(x, s)
    BY <2>1 DEF AloneInv, EditInv
  <2>2. CASE x = w /\ s = by
    BY <1>1, <1>8, <2>2
  <2> QED BY <1>7, <2>1, <2>2
<1>11. ASSUME NEW d \in Clients
       PROVE  CallInv(d)' /\ CaptureInv(d)'
  <2>1. CallInv(d)'
    BY <1>1, CallsRest DEF CallsGoOn, CallOf
  <2>2. CallOf(d)' = CallOf(d) /\ On(d)' = On(d)
    BY <1>1 DEF CallOf, On
  <2>3. EndedBy(CallOf(d))' = EndedBy(CallOf(d)) /\ CaptureInv(d)
    BY <2>2 DEF EndedBy, ScopesOf, AloneInv
  <2>4. ASSUME client[d].pc \in Statements
        PROVE  LaterEdits(d)'
    <3>1. process[d].phase = "storing" /\ JobFits(d)
      BY <2>4, BusyStores DEF Busy
    <3>2. On(d) \in Worktrees
      BY <3>1, ServingShape DEF GuardInv, Phases
    <3> SUFFICES ASSUME client[d].job.op = "Coordinate", NEW s \in Scopes, NEW v \in EditsOf(On(d), s)',
                        v > client[d].job.tree
                 PROVE  Explained(s) /\ s \notin EndedBy(CallOf(d))
      BY <1>1, <1>2, <2>2, <2>3 DEF LaterEdits
    <3>3. PICK x \in Worktrees : x = On(d)
      BY <3>2
    <3>4. v \in EditsOf(x, s)'
      BY <2>2, <3>3
    <3>5. CASE v \in EditsOf(x, s)
      BY <2>3, <2>4, <3>3, <3>5 DEF CaptureInv, LaterEdits
    <3>6. CASE x = w /\ s = by
      <4>1. \A z \in EndedBy(CallOf(d)) : tool[z] = "over"
        BY <3>1 DEF AloneInv, CallInv
      <4> QED BY <1>1, <1>8, <3>6, <4>1
    <3> QED BY <1>7, <3>4, <3>5, <3>6
  <2> QED BY <1>1, <2>1, <2>2, <2>3, <2>4 DEF CaptureInv, Busy, ServesCall, IsRegistered
<1>12. ExclusiveMeansAlone'
  <2> SUFFICES ASSUME NEW e \in mutationEvents, e.attribution.kind = "AiExclusive"
               PROVE  EditorsOf(e)' \subseteq {"user", e.attribution.scope} \cup EndedByRecovery(e.worktree)
    BY <1>1, <1>2 DEF ExclusiveMeansAlone
  <2>1. /\ e.worktree \in Worktrees /\ e.before < e.after /\ e.after <= tree[e.worktree]
    BY DEF GuardInv, RecordInv
  <2>2. e.before \in Nat /\ e.after \in Nat
    BY TreesAreVersions DEF GuardInv, StoreInv, Ledger!LedgerTypeOK, Ledger!MutationEvent
  <2>3. \A v \in (e.before + 1)..e.after : author'[e.worktree][v] = author[e.worktree][v]
    BY <1>4, <1>5, <1>6, <2>1, <2>2
  <2>4. EditorsOf(e)' = EditorsOf(e)
    BY <2>3 DEF EditorsOf
  <2> QED BY <2>4 DEF AloneInv, ExclusiveMeansAlone
<1> QED BY <1>1, <1>2, <1>9, <1>10, <1>11, <1>12 DEF AloneInv

-----------------------------------------------------------------------------
(* The statements of the store.                                            *)

\* What a statement changes on the worktree of its job it changes for scopes
\* whose tools are over, or in a recovery.
LEMMA WorkAccounts ==
  ASSUME GuardInv, AloneInv, NEW c \in Clients, NEW job, job = client[c].job, Turns(job),
         client[c].pc \in Statements
  PROVE  /\ Ends(job) \subseteq EndedBy(CallOf(c))
         /\ \A s \in Scopes : s \in DOMAIN scopes /\ Explained(s) =>
              \/ Explained(s)'
              \/ scopes[s].worktree = job.worktree /\ s \in EndedBy(CallOf(c)) /\ tool[s] = "over"
<1>1. process[c].phase = "storing" /\ job \in Job
  BY BusyStores DEF Busy
<1>2. ServesCall(job, CallOf(c))
  BY DEF AloneInv, CaptureInv, Busy
<1>3. Ends(job) \subseteq EndedBy(CallOf(c))
  BY <1>1, <1>2, JobShape DEF Ends, EndedBy, ScopesOf, ServesCall, IsHook
<1>4. \A s \in EndedBy(CallOf(c)) : tool[s] = "over"
  BY <1>1 DEF AloneInv, CallInv
<1>5. ASSUME NEW s \in DOMAIN scopes, Explained(s),
             ~(scopes[s].worktree = job.worktree /\ s \in EndedBy(CallOf(c)))
      PROVE  Explained(s)'
  BY <1>3, <1>5, StaysExplained DEF GuardInv
<1> QED BY <1>3, <1>4, <1>5

LEMMA WorkCredits ==
  ASSUME GuardInv, GuardInv', AloneInv, NEW c \in Clients, NEW w \in Worktrees,
         NEW job, job = client[c].job, Turns(job), job.worktree = w, Effect(c),
         UNCHANGED <<tree, author>>
  PROVE  ExclusiveMeansAlone' /\ \A e \in mutationEvents' : e.worktree \in DOMAIN worktrees'
<1>1. \A e : EditorsOf(e)' = EditorsOf(e)
  BY DEF EditorsOf
<1>2. /\ DOMAIN worktrees \subseteq DOMAIN worktrees'
      /\ \A v \in DOMAIN worktrees : EndedByRecovery(v) \subseteq EndedByRecovery(v)'
  BY DEF Turns, RevisionsGoOn
<1>3. ASSUME NEW e \in mutationEvents, e.attribution.kind = "AiExclusive"
      PROVE  EditorsOf(e) \subseteq {"user", e.attribution.scope} \cup EndedByRecovery(e.worktree)'
  <2>1. EditorsOf(e) \subseteq {"user", e.attribution.scope} \cup EndedByRecovery(e.worktree)
    BY <1>3 DEF AloneInv, ExclusiveMeansAlone
  <2>2. PICK v \in DOMAIN worktrees : v = e.worktree
    BY DEF AloneInv
  <2> QED BY <1>2, <2>1, <2>2
<1>4. ASSUME NEW e \in mutationEvents' \ mutationEvents
      PROVE  /\ e.worktree = w /\ w \in DOMAIN worktrees
             /\ e.before = worktrees[w].cursor
  BY <1>4 DEF Effect, RecordsWhatItSaw
<1>5. ASSUME NEW e \in mutationEvents' \ mutationEvents, e.attribution.kind = "AiExclusive"
      PROVE  EditorsOf(e) \subseteq {"user", e.attribution.scope} \cup EndedByRecovery(w)'
  <2> SUFFICES ASSUME NEW v \in (e.before + 1)..e.after
               PROVE  author[w][v] \in {"user", e.attribution.scope} \cup EndedByRecovery(w)'
    BY <1>4, <1>5 DEF EditorsOf
  <2>1. e.worktree = w /\ w \in DOMAIN worktrees /\ e.before = worktrees[w].cursor
    BY <1>4, <1>5
  <2>2. /\ e.after <= tree[w] /\ \A x \in ByShell(w)' : ~(e.before < x /\ x <= e.after)
    BY <2>1 DEF GuardInv, RecordInv
  <2>3. e.before \in Nat /\ e.after \in Nat
    BY TreesAreVersions DEF GuardInv, StoreInv, Ledger!LedgerTypeOK, Ledger!MutationEvent
  <2>4. tree[w] \in Nat /\ author[w] \in [1..tree[w] -> Authors]
    BY TreesAreVersions DEF GuardInv, RuntimeTypeOK
  <2>5. v \in 1..tree[w] /\ v > e.before /\ v <= e.after
    BY <2>2, <2>3, <2>4
  <2>6. author[w][v] \in Scopes \cup {"user"}
    <3>1. author[w][v] \in Authors
      BY <2>4, <2>5
    <3>2. author[w][v] # "shell"
      BY <2>2, <2>4, <2>5 DEF ByShell
    <3> QED BY <3>1, <3>2 DEF Authors, Somebody
  <2>7. ASSUME NEW s \in Scopes, s = author[w][v]
        PROVE  s \in {e.attribution.scope} \cup EndedByRecovery(w)'
    <3>1. v \in EditsOf(w, s)
      BY <2>4, <2>5, <2>7 DEF EditsOf
    <3>2. /\ s \in DOMAIN scopes /\ scopes[s].worktree = w
          /\ Explained(s) \/ worktrees[w].rebaseline
      BY <2>1, <2>5, <3>1 DEF AloneInv, EditInv
    <3>3. /\ ~Full(w) /\ ~worktrees[w].rebaseline
          /\ LiveScopesOn(scopes, w) = {e.attribution.scope}
      BY <1>5 DEF Turns, CreditsTheLive
    <3>4. scopes[s].status = "Active" \/ s \in EndedByRecovery(w)
      BY <3>2, <3>3 DEF Explained
    <3> QED BY <1>2, <2>1, <3>2, <3>3, <3>4 DEF LiveScopesOn
  <2> QED BY <2>6, <2>7
<1>6. ExclusiveMeansAlone'
  <2> SUFFICES ASSUME NEW e \in mutationEvents', e.attribution.kind = "AiExclusive"
               PROVE  EditorsOf(e) \subseteq {"user", e.attribution.scope} \cup EndedByRecovery(e.worktree)'
    BY <1>1 DEF ExclusiveMeansAlone
  <2>1. CASE e \in mutationEvents
    BY <1>3, <2>1
  <2>2. CASE e \notin mutationEvents
    BY <1>4, <1>5, <2>2
  <2> QED BY <2>1, <2>2
<1>7. ASSUME NEW e \in mutationEvents'
      PROVE  e.worktree \in DOMAIN worktrees'
  BY <1>2, <1>4, <1>7 DEF AloneInv
<1> QED BY <1>6, <1>7

\* No edit is without an account after a statement.
LEMMA WorkCovers ==
  ASSUME GuardInv, AloneInv, NEW c \in Clients, NEW w \in Worktrees, w = On(c),
         NEW job, job = client[c].job, Turns(job), job.worktree = w, Effect(c),
         UNCHANGED author, NEW x \in Worktrees
  PROVE  EditInv(x)'
<1> SUFFICES ASSUME NEW s \in Scopes, NEW v \in EditsOf(x, s)
             PROVE  /\ s \in DOMAIN scopes' /\ scopes'[s].worktree = x
                    /\ v > worktrees'[x].cursor => Explained(s)' \/ worktrees'[x].rebaseline
  BY DEF EditInv, EditsOf
<1>1. /\ s \in DOMAIN scopes /\ scopes[s].worktree = x
      /\ v > worktrees[x].cursor => Explained(s) \/ worktrees[x].rebaseline
  BY DEF AloneInv, EditInv
<1>2. /\ s \in DOMAIN scopes' /\ scopes'[s].worktree = x /\ x \in DOMAIN worktrees
  BY <1>1, RowShape DEF Turns, ScopesGoOn, GuardInv, StoreInv
<1>3. client[c].pc \in Statements
  BY DEF Effect
<1>4. Explained(s) => Explained(s)' \/ (x = w /\ s \in EndedBy(CallOf(c)))
  BY <1>1, <1>3, WorkAccounts
<1>5. CASE x # w
  <2>1. worktrees'[x] = worktrees[x]
    BY <1>2, <1>5 DEF Effect, CursorGoes
  <2> QED BY <1>1, <1>2, <1>4, <1>5, <2>1
<1>6. CASE x = w
  <2>1. CASE job.op = "Coordinate" /\ worktrees'[w].cursor = job.tree
    <3>1. v > job.tree => Explained(s) /\ s \notin EndedBy(CallOf(c))
      BY <1>3, <1>6, <2>1 DEF AloneInv, CaptureInv, LaterEdits
    <3> QED BY <1>2, <1>4, <1>6, <2>1, <3>1
  <2>2. CASE worktrees'[w].rebaseline
    BY <1>2, <1>6, <2>2
  <2>3. CASE /\ worktrees'[w].cursor = worktrees[w].cursor
             /\ worktrees'[w].rebaseline = worktrees[w].rebaseline
             /\ scopes'[s].status = scopes[s].status
    <3>1. EndedByRecovery(w) \subseteq EndedByRecovery(w)' /\ (Full(w) => Full(w)')
      BY <1>2, <1>6 DEF Turns, RevisionsGoOn, Full
    <3>2. Explained(s) => Explained(s)'
      BY <1>1, <1>2, <1>6, <2>3, <3>1 DEF Explained
    <3> QED BY <1>1, <1>2, <1>6, <2>3, <3>2
  <2> QED BY <1>1, <1>2, <1>6, <2>1, <2>2, <2>3 DEF Turns, CursorFollows
<1> QED BY <1>5, <1>6

\* A delivery taken note of is that of the call it was made for.
LEMMA WorkKeys ==
  ASSUME GuardInv, AloneInv, NEW c \in Clients, NEW job, job = client[c].job, Turns(job),
         client[c].pc \in Statements
  PROVE  KeysInv'
<1> SUFFICES ASSUME NEW call \in AnyCall, NEW s \in StartedBy(call), Key(call.boundary) \in processedEvents'
             PROVE  s \in DOMAIN scopes' /\ scopes'[s].status # "NeverSeen"
  BY DEF KeysInv, StartedBy, ScopesOf
<1>1. CASE Key(call.boundary) \in processedEvents
  <2>1. s \in DOMAIN scopes /\ scopes[s].status # "NeverSeen"
    BY <1>1 DEF AloneInv, KeysInv
  <2> QED BY <2>1 DEF Turns, ScopesGoOn
<1>2. CASE Key(call.boundary) \notin processedEvents
  <2>1. /\ IsHookJob(job) /\ Key(call.boundary) = Key(job.boundary)
        /\ job.boundary.kind = "Start" =>
             job.boundary.scope \in DOMAIN scopes' /\ scopes'[job.boundary.scope].status # "NeverSeen"
    BY <1>2 DEF Turns, KeysGoOn
  <2>2. process[c].phase = "storing" /\ ServesCall(job, CallOf(c))
    BY BusyStores DEF Busy, AloneInv, CaptureInv
  <2>3. CallOf(c) \in AnyCall
    BY <2>2, ServingShape DEF GuardInv, Phases
  <2>4. PICK mine \in AnyCall : mine = CallOf(c)
    BY <2>3
  <2>5. mine.op # "Abandon" /\ job.boundary = mine.boundary /\ IsHook(mine.boundary)
    BY <2>1, <2>2, <2>4 DEF ServesCall, IsHookJob
  <2>6. mine \in HookCall /\ mine \in Calls
    <3>1. mine \in HookCall
      BY <2>5, CallShape
    <3>2. mine \in Calls
      BY <2>5 DEF AnyCall, GuardCall, IsHook
    <3> QED BY <3>1, <3>2
  <2>7. /\ call \in Calls /\ call \in HookCall /\ call.boundary.kind = "Start"
        /\ s = call.boundary.scope
    BY StartShape
  <2>8. mine.boundary.kind = "Start"
    BY <2>1, <2>5, <2>6, <2>7, StartsAreNamed
  <2>9. mine.boundary.scope = s
    BY <2>1, <2>5, <2>7 DEF Key
  <2> QED BY <2>1, <2>5, <2>8, <2>9
<1> QED BY <1>1, <1>2

LEMMA WorkAlone ==
  ASSUME GuardInv, GuardInv', AloneInv, NEW c \in Clients, StoreWork(c)
  PROVE  AloneInv'
<1>1. /\ process[c].phase = "storing" /\ process[c].phase \in Phases
      /\ process' = process /\ tree' = tree /\ author' = author /\ tool' = tool
  BY DEF StoreWork, Serving, protection, world, Phases
<1>2. On(c) \in Worktrees
  BY <1>1, ServingShape DEF GuardInv
<1>3. PICK w \in Worktrees : w = On(c)
  BY <1>2
<1>4. CallsGoOn
  BY <1>1 DEF CallsGoOn, CallOf
<1>5. CASE FailStatement(c)
  <2>1. Quiet /\ \A d \in Clients : client'[d] = client[d] \/ client'[d].pc = "error"
    BY <1>1, <1>5 DEF FailStatement, End, Quiet, durableVars, GuardInv, StoreInv
  <2>2. \A d \in Clients : client'[d] = client[d] \/ ~Busy(d)'
    BY <2>1 DEF Busy, Statements
  <2> QED BY <1>1, <1>4, <2>1, <2>2, MovesAlone DEF Moves
<1>6. CASE StoreStep(c)
  <2>1. PICK job : job = client[c].job
    OBVIOUS
  <2>2. Turns(job)
    BY <1>6, <2>1, StatementTurns DEF GuardInv, AloneInv
  <2>3. Effect(c) /\ client[c].pc \in Statements
    BY <1>6, StatementEffect DEF Effect, GuardInv
  <2>4. job.worktree = w
    BY <1>3, <2>1, <2>3, BusyStores DEF Busy, JobFits
  <2>5. ExclusiveMeansAlone' /\ \A e \in mutationEvents' : e.worktree \in DOMAIN worktrees'
    BY <1>1, <2>1, <2>2, <2>3, <2>4, WorkCredits
  <2>6. \A x \in Worktrees : EditInv(x)'
    BY <1>1, <1>3, <2>1, <2>2, <2>3, <2>4, WorkCovers
  <2>7. KeysInv' /\ HistoryFits'
    BY <2>1, <2>2, <2>3, WorkKeys DEF Turns
  <2>8. ASSUME NEW s \in Scopes
        PROVE  ToolInv(s)'
    <3>1. CASE s \in DOMAIN scopes
      <4>1. /\ s \in DOMAIN scopes'
            /\ Explained(s) => Explained(s)' \/ tool[s] = "over"
        BY <2>1, <2>2, <2>3, <3>1, WorkAccounts DEF Turns, ScopesGoOn
      <4>2. scopes[s].status = "NeverSeen" /\ tool[s] = "new" =>
              scopes'[s].status = "NeverSeen" \/ Explained(s)'
        <5> SUFFICES ASSUME scopes[s].status = "NeverSeen", tool[s] = "new",
                            scopes'[s].status # "NeverSeen"
                     PROVE  Explained(s)'
          OBVIOUS
        <5>1. Ends(job) \subseteq EndedBy(CallOf(c)) /\ \A z \in EndedBy(CallOf(c)) : tool[z] = "over"
          BY <1>1, <2>1, <2>2, <2>3, WorkAccounts DEF AloneInv, CallInv
        <5>2. /\ scopes'[s].worktree = scopes[s].worktree
              /\ \/ scopes'[s].status = "Active"
                 \/ scopes[s].worktree = w /\ s \in EndedByRecovery(w)'
          BY <2>2, <2>4, <3>1, <5>1 DEF Turns, ScopesGoOn
        <5> QED BY <5>2 DEF Explained
      <4> QED BY <1>1, <3>1, <4>1, <4>2 DEF AloneInv, ToolInv
    <3>2. CASE s \notin DOMAIN scopes
      <4>1. tool[s] # "running"
        BY <3>2 DEF AloneInv, ToolInv
      <4>2. s \in DOMAIN scopes' => scopes'[s].status = "NeverSeen"
        BY <2>2, <3>2 DEF Turns, NewScopesAreUnseen
      <4> QED BY <1>1, <4>1, <4>2 DEF ToolInv
    <3> QED BY <3>1, <3>2
  <2>9. ASSUME NEW d \in Clients
        PROVE  CaptureInv(d)'
    <3>1. /\ CallOf(d)' = CallOf(d) /\ On(d)' = On(d)
      BY <1>1 DEF CallOf, On
    <3>2. EndedBy(CallOf(d))' = EndedBy(CallOf(d)) /\ \A s : EditsOf(On(d), s)' = EditsOf(On(d), s)
      BY <1>1, <3>1 DEF EndedBy, ScopesOf, EditsOf
    <3>3. CaptureInv(d)
      BY DEF AloneInv
    <3>4. CASE d = c
      <4>1. client'[c].pc \in Statements \cup {"ok"} => client'[c].job = job
        BY <2>1, <2>3 DEF Effect, GoesWith
      <4>2. Busy(c)' => ServesCall(client[c].job, CallOf(c))'
        BY <2>1, <2>3, <3>1, <3>3, <3>4, <4>1 DEF CaptureInv, Busy, ServesCall
      <4>3. client'[c].pc \in Statements => LaterEdits(c)'
        <5> SUFFICES ASSUME job.op = "Coordinate", NEW s \in Scopes, NEW v \in EditsOf(w, s), v > job.tree,
                            client'[c].pc \in Statements
                     PROVE  Explained(s)' /\ s \notin EndedBy(CallOf(c))
          BY <1>3, <3>1, <3>2, <3>4, <4>1 DEF LaterEdits
        <5>1. Explained(s) /\ s \notin EndedBy(CallOf(c))
          BY <1>3, <2>1, <2>3, <3>3, <3>4 DEF CaptureInv, LaterEdits
        <5>2. s \in DOMAIN scopes
          BY DEF AloneInv, EditInv
        <5> QED BY <2>1, <2>2, <2>3, <5>1, <5>2, WorkAccounts
      <4>4. client'[c].pc = "ok" => IsRegistered(client[c].job)'
        <5> SUFFICES ASSUME client'[c].pc = "ok"
                     PROVE  IsRegistered(client[c].job)'
          OBVIOUS
        <5>1. IsRegistered(job)'
          BY <1>6, <2>1, DoneIsRegistered DEF GuardInv, AloneInv
        <5> QED BY <4>1, <5>1 DEF IsRegistered
      <4> QED BY <3>4, <4>2, <4>3, <4>4 DEF CaptureInv
    <3>5. CASE d # c
      <4>1. client'[d] = client[d]
        BY <2>3, <3>5 DEF Effect, GoesWith, GuardInv, StoreInv
      <4>2. Busy(d)' => ServesCall(client[d].job, CallOf(d))'
        BY <3>1, <3>3, <4>1 DEF CaptureInv, Busy, ServesCall
      <4>3. client[d].pc \in Statements => LaterEdits(d)'
        <5> SUFFICES ASSUME client[d].job.op = "Coordinate", NEW s \in Scopes, NEW v \in EditsOf(On(d), s),
                            v > client[d].job.tree, client[d].pc \in Statements
                     PROVE  Explained(s)' /\ s \notin EndedBy(CallOf(d))
          BY <3>1, <3>2, <4>1 DEF LaterEdits
        <5>1. Explained(s) /\ s \notin EndedBy(CallOf(d))
          BY <3>3 DEF CaptureInv, LaterEdits
        <5>2. Holds(d) /\ Holds(c)
          BY <1>1, BusyStores DEF Busy, Holds
        <5>3. On(d) # On(c) /\ On(d) \in Worktrees
          BY <3>5, <5>2, Apart, ServingShape DEF Holds, GuardInv
        <5>4. s \in DOMAIN scopes /\ scopes[s].worktree = On(d)
          BY <5>3 DEF AloneInv, EditInv
        <5> QED BY <1>3, <2>1, <2>2, <2>3, <2>4, <5>1, <5>3, <5>4, WorkAccounts
      <4>4. client[d].pc = "ok" => IsRegistered(client[d].job)'
        BY <2>2, <3>3, <4>1 DEF CaptureInv, IsRegistered, Turns, ScopesGoOn
      <4> QED BY <4>1, <4>2, <4>3, <4>4 DEF CaptureInv
    <3> QED BY <3>4, <3>5
  <2> QED BY <1>1, <1>4, <2>5, <2>6, <2>7, <2>8, <2>9, CallsRest DEF AloneInv
<1> QED BY <1>5, <1>6 DEF StoreWork

-----------------------------------------------------------------------------
(* All steps, and the theorem.                                             *)

\* A process ends.
LEMMA ExitMoves ==
  ASSUME GuardInv, NEW c \in Clients, Exit(c), Quiet, tool' = tool
  PROVE  Moves
<1>1. /\ process'[c] = Unserved /\ client'[c] = Idle
      /\ \A d \in Clients : d # c => process'[d] = process[d] /\ client'[d] = client[d]
  BY DEF Exit, GuardInv, RuntimeTypeOK, StoreInv
<1> QED BY <1>1 DEF Moves, CallsGoOn, CallOf, Unserved, Busy, Idle, Statements

\* A process goes on.
LEMMA GoesOnMoves ==
  ASSUME GuardInv, NEW c \in Clients, process[c].phase \in Phases, NEW phase, Reach(c, phase),
         Quiet, tool' = tool, client' = client
  PROVE  Moves
<1>1. process \in [Clients -> Process] /\ process[c] \in [phase : Phases, call : AnyCall, inherited : BOOLEAN]
  BY ServingShape DEF GuardInv, RuntimeTypeOK
<1>2. PICK old \in [phase : Phases, call : AnyCall, inherited : BOOLEAN] : old = process[c]
  BY <1>1
<1> DEFINE new == [old EXCEPT !.phase = phase]
<1>3. new.call = old.call
  OBVIOUS
<1>4. process' = [process EXCEPT ![c] = new]
  BY <1>2 DEF Reach
<1> HIDE DEF new
<1>5. CallOf(c)' = CallOf(c) /\ \A d \in Clients : d # c => process'[d] = process[d]
  BY <1>1, <1>2, <1>3, <1>4 DEF CallOf
<1>6. process[c].phase # "idle"
  BY DEF Phases
<1> QED BY <1>5, <1>6 DEF Moves, CallsGoOn, CallOf

LEMMA ArmMoves ==
  ASSUME GuardInv, NEW c \in Clients, ArmMarker(c)
  PROVE  Moves
<1>1. process[c].phase = "locked" /\ process[c].phase \in Phases /\ Quiet /\ tool' = tool /\ client' = client
  BY DEF ArmMarker, Serving, Quiet, Phases, world
<1>2. process \in [Clients -> Process] /\ process[c] \in [phase : Phases, call : AnyCall, inherited : BOOLEAN]
  BY <1>1, ServingShape DEF GuardInv, RuntimeTypeOK
<1>3. PICK old \in [phase : Phases, call : AnyCall, inherited : BOOLEAN] : old = process[c]
  BY <1>2
<1>4. PICK found : found = (CallOf(c).worktree \in marker)
  OBVIOUS
<1> DEFINE new == [old EXCEPT !.phase = "armed", !.inherited = found]
<1>5. new.call = old.call
  OBVIOUS
<1>6. process' = [process EXCEPT ![c] = new]
  <2>1. process' = [process EXCEPT ![c].phase = "armed", ![c].inherited = (CallOf(c).worktree \in marker)]
    BY DEF ArmMarker
  <2> QED BY <1>2, <1>3, <1>4, <2>1
<1> HIDE DEF new
<1>7. CallOf(c)' = CallOf(c) /\ \A d \in Clients : d # c => process'[d] = process[d]
  BY <1>2, <1>3, <1>5, <1>6 DEF CallOf
<1> QED BY <1>1, <1>7 DEF Moves, CallsGoOn, CallOf

LEMMA ProcessAlone ==
  ASSUME GuardInv, GuardInv', AloneInv, NEW c \in Clients, ProcessStep(c) \/ Killed(c), UNCHANGED group
  PROVE  AloneInv'
<1>1. ASSUME LeaveArmed(c)
      PROVE  AloneInv'
  BY <1>1, ExitMoves, MovesAlone DEF LeaveArmed, Quiet, world
<1>2. CASE OpenFails(c) \/ RefuseAbandon(c) \/ WorkFails(c) \/ Killed(c) \/ LockTimeout(c) \/ ArmFails(c)
  BY <1>1, <1>2, ExitMoves, MovesAlone
     DEF OpenFails, RefuseAbandon, WorkFails, Killed, LockTimeout, ArmFails, Quiet, world
<1>3. CASE AcquireLock(c)
  BY <1>3, GoesOnMoves, MovesAlone DEF AcquireLock, Serving, Phases, Quiet, world
<1>4. CASE Capture(c) \/ CaptureFails(c) \/ BeginAbandon(c)
  <2>1. Begins(c)
    BY <1>4 DEF Capture, CaptureFails, BeginAbandon, Begins
  <2> QED BY <2>1, BeginsAlone
<1> QED BY <1>2, <1>3, <1>4, ArmMoves, MovesAlone, WorkAlone, CompleteAlone DEF ProcessStep

LEMMA GuardAlone ==
  ASSUME GuardInv, GuardInv', AloneInv, NEW c \in Clients, IsGuard(c), GuardStep(c)
  PROVE  AloneInv'
<1>1. ASSUME LeaveArmed(c)
      PROVE  AloneInv'
  BY <1>1, ExitMoves, MovesAlone DEF LeaveArmed, Quiet, world
<1>2. CASE Withdraw(c) \/ SupervisionFails(c)
  BY <1>1, <1>2 DEF Withdraw, SupervisionFails
<1>3. CASE GuardKilled(c)
  BY <1>1, <1>3, ProcessAlone DEF GuardKilled
<1>4. CASE Spawn(c) \/ ObserveEof(c)
  BY <1>4, GoesOnMoves, MovesAlone DEF Spawn, ObserveEof, Serving, Phases, Quiet, world
<1>5. CASE Finish(c) \/ FinishFails(c)
  <2>1. Begins(c) \/ LeaveArmed(c)
    BY <1>5 DEF Finish, FinishFails, Begins, IsGuard
  <2> QED BY <1>1, <2>1, BeginsAlone
<1>6. CASE /\ AcquireLock(c) \/ LockTimeout(c) \/ ArmMarker(c) \/ ArmFails(c)
                \/ StoreWork(c) \/ WorkFails(c) \/ Complete(c)
           /\ UNCHANGED group
  BY <1>6, ProcessAlone DEF ProcessStep
<1> QED BY <1>2, <1>3, <1>4, <1>5, <1>6 DEF GuardStep

LEMMA WorldAlone ==
  ASSUME GuardInv, GuardInv', AloneInv, NEW w \in Worktrees,
         GroupStep(w) \/ \E by \in Somebody : Edit(w, by)
  PROVE  AloneInv'
<1>1. CASE Fork(w) \/ \E m \in Members : MemberExits(w, m)
  <2>1. Quiet /\ tool' = tool /\ client' = client /\ process' = process
    BY <1>1 DEF Fork, MemberExits, runtimeVars, protection, world, Quiet
  <2>2. Moves
    BY <2>1 DEF Moves, CallsGoOn, CallOf
  <2> QED BY <2>2, MovesAlone
<1>2. CASE ShellEdit(w)
  <2>1. "shell" \in Authors /\ "shell" \notin Scopes
    BY NamesDiffer DEF Authors
  <2>2. Edits(w, "shell")
    BY <1>2, <2>1 DEF ShellEdit, Edits, protection
  <2> QED BY <2>1, <2>2, EditsAlone
<1>3. CASE \E by \in Somebody : Edit(w, by)
  <2>1. PICK by \in Somebody : Edit(w, by)
    BY <1>3
  <2>2. "user" \notin Scopes /\ by \in Authors
    BY NamesDiffer DEF Authors
  <2>3. Edits(w, by)
    BY <2>1, <2>2 DEF Edit, Edits, protection
  <2> QED BY <2>2, <2>3, EditsAlone
<1> QED BY <1>1, <1>2, <1>3 DEF GroupStep

LEMMA AloneInvNext ==
  ASSUME GuardInv, GuardInv', AloneInv, [GuardNext]_guardVars
  PROVE  AloneInv'
<1>1. ASSUME NEW c \in Clients, InvokeGuard(c) \/ \E call \in Calls : Invoke(c, call)
      PROVE  AloneInv'
  <2>1. PICK call \in AnyCall : Invoke(c, call)
    BY <1>1 DEF InvokeGuard, AnyCall
  <2> QED BY <1>1, <2>1, InvokeAlone
<1>2. ASSUME NEW c \in Clients, HookStep(c) \/ (Killed(c) /\ UNCHANGED group)
      PROVE  AloneInv'
  BY <1>2, ProcessAlone DEF HookStep
<1>3. CASE UNCHANGED guardVars
  <2>1. Moves
    BY <1>3 DEF guardVars, runtimeVars, protection, world, Quiet, Moves, CallsGoOn, CallOf
  <2> QED BY <2>1, MovesAlone
<1> QED BY <1>1, <1>2, <1>3, GuardAlone, WorldAlone DEF GuardNext

LEMMA AloneInvInit ==
  ASSUME GuardInit
  PROVE  AloneInv
<1>1. /\ worktrees = [w \in {} |-> 0] /\ mutationEvents = {} /\ processedEvents = {}
      /\ scopes = [s \in {} |-> 0]
      /\ client = [c \in Clients |-> Idle]
  BY DEF GuardInit, RuntimeInit, StoreInit, Ledger!LedgerInit
<1>2. /\ process = [c \in Clients |-> Unserved] /\ tool = [s \in Scopes |-> "new"]
      /\ author = [w \in Worktrees |-> [v \in {} |-> "user"]]
  BY DEF GuardInit, RuntimeInit
<1>3. \A c \in Clients : CallInv(c) /\ CaptureInv(c)
  BY <1>1, <1>2 DEF CallInv, CaptureInv, Unserved, Idle, Busy, Statements
<1>4. \A w \in Worktrees : EditInv(w)
  BY <1>2 DEF EditInv, EditsOf
<1>5. \A s \in Scopes : ToolInv(s)
  BY <1>1, <1>2 DEF ToolInv
<1>6. HistoryFits /\ KeysInv
  BY <1>1 DEF HistoryFits, KeysInv
<1> QED BY <1>1, <1>3, <1>4, <1>5, <1>6 DEF AloneInv, ExclusiveMeansAlone

\* An interval that the store credits to one scope alone has no edit by the
\* tool of another, save one that a recovery ended: the tool starts after its
\* Start is applied and is over before its scope is closed or abandoned, a
\* capture is later than every edit of a scope that ends meanwhile, and the
\* lock keeps other captures out until it is committed.
THEOREM CreditsAreSole == GuardSpec => []ExclusiveMeansAlone
<1>1. GuardInit => AloneInv
  BY AloneInvInit
<1>2. GuardInv /\ GuardInv' /\ AloneInv /\ [GuardNext]_guardVars => AloneInv'
  BY AloneInvNext
<1>3. AloneInv => ExclusiveMeansAlone
  BY DEF AloneInv
<1> QED BY <1>1, <1>2, <1>3, GuardInvariant, PTL DEF GuardSpec
=============================================================================
