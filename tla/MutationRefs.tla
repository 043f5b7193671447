---------------------------- MODULE MutationRefs ----------------------------
(***************************************************************************)
(* The refs that keep the snapshots of the mutation cursor alive.  A       *)
(* worktree row and its events name trees; the Git objects behind them     *)
(* live in one clone, and only a pin, a ref in the namespace of the        *)
(* checkout, keeps them from being collected.  A boundary captures a tree, *)
(* pins it, and commits it as the cursor.  A reconciliation pass           *)
(* (sce doctor --fix) repairs the pins that are missing, prunes the events *)
(* whose trees are lost, and deletes the pins nothing needs any more.      *)
(*                                                                         *)
(* Checkouts of one clone share its objects but not their worktree name    *)
(* and lock; clones of one repository share the database, and, as the main *)
(* worktree of every clone has the same name, the row and the events, but  *)
(* neither lock, pins nor objects.                                         *)
(*                                                                         *)
(* One action is one statement, one transaction or one Git child process.  *)
(* What the kernel decides is left open here (MutationKernel has it): a    *)
(* commit moves the cursor with an event or without, or only counts.       *)
(***************************************************************************)
EXTENDS Integers, FiniteSets

CONSTANTS
  Checkouts,    \* worktrees of any clone, each with its lock and its pins
  Clones,       \* object stores
  Names,        \* worktree ids: the keys of the rows
  Layouts,      \* which clone and which name a checkout may have
  Trees,
  MaxRevision,  \* bound on the commits to a row
  MaxFaults     \* bound on the faults: a clone made anew, a call cancelled or killed

ASSUME LayoutsAreSound ==
  \A layout \in Layouts :
    /\ layout \in [Checkouts -> [clone : Clones, name : Names]]
    /\ \A c, d \in Checkouts : layout[c] = layout[d] => c = d
ASSUME RevisionsBound == MaxRevision \in Nat
ASSUME FaultsBound == MaxFaults \in Nat

VARIABLES
  layout,   \* by checkout, its clone and its name; never changes
  rows,     \* by name, the cursor, its revision and, auxiliary, who pinned it
  events,   \* before and after tree of the evidence and, auxiliary, who pinned them
  objects,  \* by clone, the trees that are present
  pins,     \* by checkout, the trees it pins
  run,      \* by checkout, what the holder of its lock has in hand
  late,     \* by checkout, a ref update that runs on and, auxiliary, if its process was killed
  faults,   \* the faults so far
  lost      \* auxiliary: pins taken away by something that holds no lock

durable == <<rows, events>>
git == <<objects, pins, late, lost>>
refsVars == <<layout, durable, git, faults, run>>

Clone(c) == layout[c].clone
Name(c) == layout[c].name
Siblings(k) == {c \in Checkouts : Clone(c) = k}
Present(c) == objects[Clone(c)]

RootRow == [cursor : Trees, revision : 0..MaxRevision, keeper : Checkouts]
TreePair ==
  [name : Names, revision : 1..MaxRevision, before : Trees, after : Trees,
   keepers : Checkouts \X Checkouts]
EventsOf(n) == {e \in events : e.name = n}
EventTrees(n) == UNION {{e.before, e.after} : e \in EventsOf(n)}
CursorOf(n) == IF n \in DOMAIN rows THEN {rows[n].cursor} ELSE {}

\* What the rows of a worktree require to be pinned.
TreeRoots(n) == CursorOf(n) \cup EventTrees(n)

\* Mutant of AllTreeRoots: the evidence is forgotten.
AllCursors == UNION {CursorOf(n) : n \in Names}

AllTreeRoots == UNION {TreeRoots(n) : n \in Names}

RevisionOf(n) == IF n \in DOMAIN rows THEN rows[n].revision ELSE -1

GitSteps == {"pin", "repin", "delete"}
PassSteps == {"objects", "choose", "prune", "reload", "repin", "verify",
              "all", "delete", "done"}
BoundarySteps == {"pin", "initialize", "load", "commit"}

\* trees: what the next child of Git is to pin or delete; pinned: the inventory;
\* gone: the caller was cancelled, and only its worker is left to hold the lock.
Idle == [pc |-> "idle", gone |-> FALSE, trees |-> {}, pinned |-> {}, absent |-> {},
         doomed |-> {}, base |-> -1, revision |-> -1]

At(c, pc) == run[c].pc = pc
Leave(c) == run' = [run EXCEPT ![c] = Idle]
Goto(c, pc) == run' = [run EXCEPT ![c].pc = pc]

\* The worker of a cancelled call is done, or its caller goes on.
After(c, pc) == IF run[c].gone THEN Leave(c) ELSE Goto(c, pc)

RefsInit ==
  /\ layout \in Layouts
  /\ rows = [n \in {} |-> 0] /\ events = {}
  /\ objects = [k \in Clones |-> {}] /\ pins = [c \in Checkouts |-> {}]
  /\ run = [c \in Checkouts |-> Idle]
  /\ late = [c \in Checkouts |-> {}] /\ faults = 0
  /\ lost = [c \in Checkouts |-> {}]

-----------------------------------------------------------------------------
(* A boundary: capture, pin, initialize, load, compare and swap.           *)

Capture(c) ==
  /\ At(c, "idle")
  /\ \E t \in Trees :
       /\ objects' = [objects EXCEPT ![Clone(c)] = @ \cup {t}]
       /\ run' = [run EXCEPT ![c].pc = "pin", ![c].trees = {t}]
  /\ UNCHANGED <<layout, durable, pins, late, faults, lost>>

PinTree(c) ==
  /\ At(c, "pin")
  /\ pins' = [pins EXCEPT ![c] = @ \cup run[c].trees]
  /\ lost' = [lost EXCEPT ![c] = @ \ run[c].trees]
  /\ After(c, "initialize")
  /\ UNCHANGED <<layout, durable, objects, late, faults>>

\* A failed snapshot taints the row, if there is one.
SnapshotFails(c) ==
  /\ At(c, "pin") /\ ~run[c].gone
  /\ Name(c) \in DOMAIN rows /\ rows[Name(c)].revision < MaxRevision
  /\ rows' = [rows EXCEPT ![Name(c)].revision = @ + 1]
  /\ Leave(c)
  /\ UNCHANGED <<layout, events, git, faults>>

\* The row is inserted unless it exists, and loaded; what another clone commits
\* between the two statements it could as well commit after them.
InitializeWorktree(c) ==
  /\ At(c, "initialize")
  /\ \E t \in run[c].trees :
       rows' = [n \in DOMAIN rows \cup {Name(c)} |->
                  IF n \in DOMAIN rows THEN rows[n]
                  ELSE [cursor |-> t, revision |-> 0, keeper |-> c]]
  /\ run' = [run EXCEPT ![c].pc = "commit", ![c].revision = rows'[Name(c)].revision]
  /\ UNCHANGED <<layout, events, git, faults>>

LoadWorktree(c) ==
  /\ At(c, "load")
  /\ run' = [run EXCEPT ![c].pc = "commit", ![c].revision = RevisionOf(Name(c))]
  /\ UNCHANGED <<layout, durable, git, faults>>

\* The cursor moves to the tree this checkout has pinned.
Moved(c, t) ==
  rows' = [rows EXCEPT ![Name(c)] = [cursor |-> t, revision |-> @.revision + 1, keeper |-> c]]

Evidence(c, t) ==
  [name |-> Name(c), revision |-> rows[Name(c)].revision + 1,
   before |-> rows[Name(c)].cursor, after |-> t, keepers |-> <<rows[Name(c)].keeper, c>>]

\* An observed change is evidence, but in a gap; a recovery moves the cursor in
\* silence, and the boundary follows it; what has no use of the tree only counts.
Commit(c) ==
  /\ At(c, "commit")
  /\ run[c].revision = RevisionOf(Name(c)) /\ run[c].revision < MaxRevision
  /\ \E t \in run[c].trees :
       \/ /\ rows[Name(c)].cursor # t
          /\ Moved(c, t) /\ events' = events \cup {Evidence(c, t)}
          /\ Leave(c)
       \/ /\ Moved(c, t)
          /\ Goto(c, "load")
          /\ UNCHANGED events
       \/ /\ rows' = [rows EXCEPT ![Name(c)].revision = @ + 1]
          /\ Leave(c)
          /\ UNCHANGED events
  /\ UNCHANGED <<layout, git, faults>>

\* Another clone's boundary was faster.
CommitConflicts(c) ==
  /\ At(c, "commit")
  /\ run[c].revision # RevisionOf(Name(c))
  /\ Goto(c, "load")
  /\ UNCHANGED <<layout, durable, git, faults>>

-----------------------------------------------------------------------------
(* A pass: the inventory and the repair of what it lacks.                  *)

\* The inventory of the pins, and the roots of the worktree; the two reads commute
\* with whatever may come between them.
Inventory(c) ==
  LET missing == TreeRoots(Name(c)) \ pins[c]
  IN  /\ At(c, "idle")
      /\ run' = [run EXCEPT ![c] = [Idle EXCEPT !.pc = IF missing = {} THEN "verify" ELSE "objects",
                                                !.pinned = pins[c], !.trees = missing,
                                                !.base = RevisionOf(Name(c))]]
      /\ UNCHANGED <<layout, durable, git, faults>>

AbsentTrees(c) ==
  LET absent == run[c].trees \ Present(c)
  IN  /\ At(c, "objects")
      /\ run' = [run EXCEPT ![c].pc = IF absent = {} THEN "reload" ELSE "choose",
                            ![c].absent = absent, ![c].trees = {}]
      /\ UNCHANGED <<layout, durable, git, faults>>

Recoverable(c) == CursorOf(Name(c)) # {} /\ CursorOf(Name(c)) \cap run[c].absent = {}

\* UnrecoverableCursor: the history belongs to another clone.  Otherwise the
\* events are chosen; of what comes between the two reads, a commit makes the
\* guard of the deletion fail, and a deletion could as well come before them.
ChooseEvents(c) ==
  LET beyond == {e \in EventsOf(Name(c)) : {e.before, e.after} \cap run[c].absent # {}}
  IN  /\ At(c, "choose")
      /\ IF Recoverable(c)
         THEN run' = [run EXCEPT ![c].pc = "prune", ![c].revision = RevisionOf(Name(c)),
                                 ![c].doomed = {e.revision : e \in beyond}]
         ELSE Leave(c)
      /\ UNCHANGED <<layout, durable, git, faults>>

\* Mutant of MayPrune: the revision is not compared.
MayPruneAnyway(c) == run[c].doomed \subseteq {e.revision : e \in EventsOf(Name(c))}

\* The guard on the row, and one row deleted for each revision.
MayPrune(c) ==
  /\ run[c].revision = RevisionOf(Name(c))
  /\ run[c].doomed \subseteq {e.revision : e \in EventsOf(Name(c))}

PruneEvents(c) ==
  /\ At(c, "prune")
  /\ IF MayPrune(c)
     THEN /\ events' = {e \in events : e.name # Name(c) \/ e.revision \notin run[c].doomed}
          /\ run' = [run EXCEPT ![c].pc = "reload", ![c].doomed = {}]
     ELSE Leave(c) /\ UNCHANGED events
  /\ UNCHANGED <<layout, rows, git, faults>>

\* What is required now: another clone may have committed in between.
Reload(c) ==
  LET missing == TreeRoots(Name(c)) \ run[c].pinned
  IN  /\ At(c, "reload")
      /\ IF missing \cap run[c].absent # {} THEN Leave(c)
         ELSE run' = [run EXCEPT ![c].pc = IF missing = {} THEN "verify" ELSE "repin",
                                 ![c].trees = missing, ![c].absent = {}]
      /\ UNCHANGED <<layout, durable, git, faults>>

\* One transaction of creates: all of the refs, or none if one exists already or
\* its object does not.
Creatable(c, trees) == trees \subseteq Present(c) /\ trees \cap pins[c] = {}

PinTrees(c) ==
  /\ At(c, "repin")
  /\ Creatable(c, run[c].trees)
  /\ pins' = [pins EXCEPT ![c] = @ \cup run[c].trees]
  /\ lost' = [lost EXCEPT ![c] = @ \ run[c].trees]
  /\ After(c, "verify")
  /\ UNCHANGED <<layout, durable, objects, late, faults>>

-----------------------------------------------------------------------------
(* The pass, continued: what is not needed is deleted.                     *)

Verify(c) ==
  /\ At(c, "verify")
  /\ IF TreeRoots(Name(c)) \subseteq run[c].pinned \cup run[c].trees
     THEN run' = [run EXCEPT ![c].pc = "all", ![c].trees = {}]
     ELSE Leave(c)
  /\ UNCHANGED <<layout, durable, git, faults>>

\* The roots of the whole repository count, in one statement.
LoadAllRoots(c) ==
  LET stale == run[c].pinned \ AllTreeRoots
  IN  /\ At(c, "all")
      /\ run' = [run EXCEPT ![c].pc = IF stale = {} THEN "done" ELSE "delete",
                            ![c].trees = stale]
      /\ UNCHANGED <<layout, durable, git, faults>>

\* All of the refs, or none if one of them is not what the inventory saw.
DeletePins(c) ==
  /\ At(c, "delete")
  /\ run[c].trees \subseteq pins[c]
  /\ pins' = [pins EXCEPT ![c] = @ \ run[c].trees]
  /\ After(c, "done")
  /\ UNCHANGED <<layout, durable, objects, late, faults, lost>>

\* Reconciled: the report is made, the lock released.
Report(c) ==
  /\ At(c, "done")
  /\ Leave(c)
  /\ UNCHANGED <<layout, durable, git, faults>>

-----------------------------------------------------------------------------
(* What interrupts an operation.                                           *)

\* An error of Git or of the database, or the end of the process outside of a
\* ref update: the lock is free.
Fail(c) ==
  /\ ~At(c, "idle")
  /\ Leave(c)
  /\ UNCHANGED <<layout, durable, git, faults>>

Disturb == faults < MaxFaults /\ faults' = faults + 1

\* Mutant of Cancel: the lock goes with the caller, while the child still runs.
CancelWithLock(c) ==
  /\ run[c].pc \in GitSteps /\ ~run[c].gone /\ late[c] = {}
  /\ Disturb
  /\ late' = [late EXCEPT ![c] = {[op |-> run[c].pc, trees |-> run[c].trees, killed |-> FALSE]}]
  /\ Leave(c)
  /\ UNCHANGED <<layout, durable, objects, pins, lost>>

\* The future of the call is dropped: its worker has a lease on the lock, and
\* keeps it until the child of Git has ended.
Cancel(c) ==
  /\ run[c].pc \in GitSteps /\ ~run[c].gone
  /\ Disturb
  /\ run' = [run EXCEPT ![c].gone = TRUE]
  /\ UNCHANGED <<layout, durable, git>>

\* The process is killed and its lock released by the system; the child of Git
\* lives on.
Kill(c) ==
  /\ run[c].pc \in GitSteps /\ ~run[c].gone /\ late[c] = {}
  /\ Disturb
  /\ late' = [late EXCEPT ![c] = {[op |-> run[c].pc, trees |-> run[c].trees, killed |-> TRUE]}]
  /\ Leave(c)
  /\ UNCHANGED <<layout, durable, objects, pins, lost>>

\* The child does its work, if Git accepts it still.
LateUpdate(c) ==
  /\ \E u \in late[c] :
       \/ /\ u.op = "pin" /\ u.trees \subseteq Present(c)
          /\ pins' = [pins EXCEPT ![c] = @ \cup u.trees]
          /\ lost' = [lost EXCEPT ![c] = @ \ u.trees]
       \/ /\ u.op = "repin" /\ Creatable(c, u.trees)
          /\ pins' = [pins EXCEPT ![c] = @ \cup u.trees]
          /\ lost' = [lost EXCEPT ![c] = @ \ u.trees]
       \/ /\ u.op = "delete" /\ u.trees \subseteq pins[c]
          /\ pins' = [pins EXCEPT ![c] = @ \ u.trees]
          /\ lost' = [lost EXCEPT ![c] = IF u.killed THEN @ \cup u.trees ELSE @]
  /\ late' = [late EXCEPT ![c] = {}]
  /\ UNCHANGED <<layout, durable, objects, faults, run>>

LateUpdateFails(c) ==
  /\ late[c] # {}
  /\ late' = [late EXCEPT ![c] = {}]
  /\ UNCHANGED <<layout, durable, objects, pins, faults, lost, run>>

Quiet(k) == \A c \in Siblings(k) : At(c, "idle") /\ late[c] = {}

\* git gc drops an object no pin protects; its grace period is longer than any
\* operation.
Collect(k) ==
  /\ Quiet(k)
  /\ \E t \in objects[k] \ UNION {pins[c] : c \in Siblings(k)} :
       objects' = [objects EXCEPT ![k] = @ \ {t}]
  /\ UNCHANGED <<layout, durable, pins, late, faults, lost, run>>

\* The clone is deleted and made anew: of its trees it has those that were
\* committed and fetched again, and none of its pins.
CloneAnew(k) ==
  /\ Quiet(k) /\ objects[k] # {}
  /\ Disturb
  /\ \E kept \in SUBSET objects[k] : objects' = [objects EXCEPT ![k] = kept]
  /\ pins' = [c \in Checkouts |-> IF Clone(c) = k THEN {} ELSE pins[c]]
  /\ lost' = [c \in Checkouts |-> IF Clone(c) = k THEN lost[c] \cup pins[c] ELSE lost[c]]
  /\ UNCHANGED <<layout, durable, late, run>>

Boundary(c) ==
  \/ Capture(c) \/ PinTree(c) \/ SnapshotFails(c) \/ InitializeWorktree(c)
  \/ LoadWorktree(c) \/ Commit(c) \/ CommitConflicts(c)

Reconcile(c) ==
  \/ Inventory(c) \/ AbsentTrees(c) \/ ChooseEvents(c)
  \/ PruneEvents(c) \/ Reload(c) \/ PinTrees(c) \/ Verify(c) \/ LoadAllRoots(c)
  \/ DeletePins(c) \/ Report(c)

Interrupt(c) == Fail(c) \/ Cancel(c) \/ Kill(c) \/ LateUpdate(c) \/ LateUpdateFails(c)

RefsNext ==
  \/ \E c \in Checkouts : Boundary(c) \/ Reconcile(c) \/ Interrupt(c)
  \/ \E k \in Clones : Collect(k) \/ CloneAnew(k)

RefsSpec == RefsInit /\ [][RefsNext]_refsVars

-----------------------------------------------------------------------------
(* Properties.                                                             *)

\* Types; no ref is without its object, and no revision has two events.
RefsTypeOK ==
  /\ layout \in Layouts
  /\ DOMAIN rows \subseteq Names /\ rows \in [DOMAIN rows -> RootRow]
  /\ events \subseteq TreePair
  /\ \A e, f \in events : e.name = f.name /\ e.revision = f.revision => e = f
  /\ \A e \in events : e.name \in DOMAIN rows /\ e.revision <= rows[e.name].revision
  /\ objects \in [Clones -> SUBSET Trees]
  /\ pins \in [Checkouts -> SUBSET Trees] /\ \A c \in Checkouts : pins[c] \subseteq Present(c)
  /\ lost \in [Checkouts -> SUBSET Trees] /\ faults \in 0..MaxFaults
  /\ late \in [Checkouts -> SUBSET [op : GitSteps, trees : SUBSET Trees, killed : BOOLEAN]]
  /\ run \in [Checkouts ->
       [pc : {"idle"} \cup BoundarySteps \cup PassSteps, gone : BOOLEAN,
        trees : SUBSET Trees, pinned : SUBSET Trees, absent : SUBSET Trees,
        doomed : SUBSET (1..MaxRevision), base : -1..MaxRevision, revision : -1..MaxRevision]]

\* The durable roots a checkout has pinned itself.
Kept(c) ==
  {rows[n].cursor : n \in {m \in DOMAIN rows : rows[m].keeper = c}}
    \cup {e.before : e \in {x \in events : x.keepers[1] = c}}
    \cup {e.after : e \in {x \in events : x.keepers[2] = c}}

\* A tree that a boundary committed stays pinned where it was captured for as
\* long as a row or an event names it: no pass takes the pin between the capture
\* and the commit or after it, no call that was cancelled updates refs once the
\* lock is another's; only a clone made anew, or a child of Git that outlives
\* its killed parent and the lock, can.
RootsStayPinned == \A c \in Checkouts : Kept(c) \subseteq pins[c] \cup lost[c]

\* A pass that reports success leaves no root of its worktree unprotected, unless
\* another clone has committed meanwhile or a stray child has interfered.
ReportedPassIsWhole ==
  \A c \in Checkouts :
    At(c, "done") /\ run[c].base = RevisionOf(Name(c)) =>
      TreeRoots(Name(c)) \subseteq pins[c] \cup lost[c]

\* The step deletes evidence of the worktree, by the pass of this checkout.
Prunes(c) == PruneEvents(c) /\ events' # events

\* A pass that prunes has the current cursor: if its view of the row was that of
\* one revision, a clone that has moved the cursor since keeps its history, and an
\* absent cursor fails the pass with nothing changed.
PruningCheckoutHasTheCursor ==
  [][\A c \in Checkouts :
       Prunes(c) /\ run[c].base = run[c].revision => CursorOf(Name(c)) \subseteq Present(c)]_refsVars

=============================================================================
