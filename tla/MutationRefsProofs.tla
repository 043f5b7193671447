------------------------- MODULE MutationRefsProofs -------------------------
(***************************************************************************)
(* Theorems about the pins of the snapshots, for any number of checkouts,  *)
(* clones and trees, any layout, and any number of commits and faults.     *)
(***************************************************************************)
EXTENDS MutationRefs, TLAPS

-----------------------------------------------------------------------------
(* The inductive invariant: what the holder of a checkout's lock knows at  *)
(* each of its steps, whatever other clones commit meanwhile.              *)

\* The trees of a checkout that are pinned, or were but for a fault.
Protected(c) == pins[c] \cup lost[c]

\* A boundary carries the tree it captured, and has pinned it before it commits.
BoundaryHeld(c) ==
  /\ At(c, "pin") => run[c].trees \subseteq Present(c)
  /\ run[c].pc \in {"initialize", "load", "commit"} => run[c].trees \subseteq Protected(c)
  /\ run[c].pc \in {"load", "commit"} => Name(c) \in DOMAIN rows

\* A pass never takes what this checkout needs, whoever commits meanwhile.
PassHeld(c) ==
  /\ run[c].pc \in PassSteps => run[c].base <= RevisionOf(Name(c))
  /\ run[c].pc \in PassSteps \ {"done"} => run[c].pinned \subseteq Protected(c)
  /\ At(c, "verify") => run[c].trees \subseteq Protected(c)
  /\ At(c, "delete") => run[c].trees \cap Kept(c) = {}

\* What its view of the row is good for as long as the row is that of the inventory.
ViewHeld(c) ==
  run[c].base = RevisionOf(Name(c)) =>
    /\ run[c].pc \in {"all", "delete", "done"} => TreeRoots(Name(c)) \subseteq Protected(c)
    /\ At(c, "delete") => run[c].trees \cap TreeRoots(Name(c)) = {}
    /\ At(c, "objects") => CursorOf(Name(c)) \subseteq run[c].trees \cup Present(c)
    /\ At(c, "choose") => CursorOf(Name(c)) \subseteq run[c].absent \cup Present(c)
    /\ At(c, "prune") /\ run[c].revision = run[c].base => CursorOf(Name(c)) \subseteq Present(c)

\* A stray child of Git has outlived a process that was killed.
LateHeld(c) == \A u \in late[c] : u.killed

Held(c) == BoundaryHeld(c) /\ PassHeld(c) /\ ViewHeld(c) /\ LateHeld(c)

RefsInv == RefsTypeOK /\ RootsStayPinned /\ \A c \in Checkouts : Held(c)

\* The values of run.
Hand ==
  [pc : {"idle"} \cup BoundarySteps \cup PassSteps, gone : BOOLEAN,
   trees : SUBSET Trees, pinned : SUBSET Trees, absent : SUBSET Trees,
   doomed : SUBSET (1..MaxRevision), base : -1..MaxRevision, revision : -1..MaxRevision]

-----------------------------------------------------------------------------
(* What holds of a checkout while others move.                             *)

\* The row and the evidence of a worktree: its revision grows, or what it requires does not.
RowMoves(n) ==
  /\ RevisionOf(n) <= RevisionOf(n)'
  /\ RevisionOf(n)' = RevisionOf(n) =>
       CursorOf(n)' \subseteq CursorOf(n) /\ TreeRoots(n)' \subseteq TreeRoots(n)
  /\ n \in DOMAIN rows => n \in DOMAIN rows'

\* A checkout whose operation does not move, under a step that takes nothing from it.
Undisturbed(c) ==
  /\ run'[c] = run[c] /\ UNCHANGED layout
  /\ Protected(c) \subseteq Protected(c)' /\ Kept(c)' \subseteq Kept(c)
  /\ ~At(c, "idle") => Present(c) \subseteq Present(c)'
  /\ RowMoves(Name(c))
  /\ LateHeld(c)'

LEMMA LayoutType ==
  ASSUME RefsTypeOK, NEW c \in Checkouts
  PROVE  Clone(c) \in Clones /\ Name(c) \in Names
BY LayoutsAreSound DEF RefsTypeOK, Clone, Name

LEMMA RevisionType ==
  ASSUME RefsTypeOK, NEW n
  PROVE  RevisionOf(n) \in -1..MaxRevision /\ RevisionOf(n) \in Int
BY RevisionsBound DEF RefsTypeOK, RevisionOf, RootRow

LEMMA RunType ==
  ASSUME RefsTypeOK, NEW c \in Checkouts
  PROVE  run[c] \in Hand
BY DEF RefsTypeOK, Hand

LEMMA HeldStands ==
  ASSUME NEW c \in Checkouts, RefsTypeOK, RefsTypeOK', Held(c), Undisturbed(c)
  PROVE  Held(c)'
<1> USE DEF Undisturbed
<1>1. Name(c)' = Name(c) /\ \A p : At(c, p)' = At(c, p)
  BY DEF Name, At
<1>2. PICK n : n = Name(c) OBVIOUS
<1>3. RowMoves(n) BY <1>2
<1>4. RevisionOf(n) \in Int /\ RevisionOf(n)' \in Int
  <2>1. RevisionOf(n) \in Int BY RevisionType
  <2>2. RevisionOf(n)' \in Int BY RevisionsBound DEF RefsTypeOK, RevisionOf, RootRow
  <2> QED BY <2>1, <2>2
<1>5. run[c].base \in Int BY RunType DEF Hand
<1>6. BoundaryHeld(c)'
  BY <1>1, <1>2, <1>3 DEF Held, BoundaryHeld, RowMoves, At
<1>7. PassHeld(c)'
  BY <1>1, <1>2, <1>3, <1>4, <1>5 DEF Held, PassHeld, RowMoves
<1>8. ViewHeld(c)'
  <2>1. SUFFICES ASSUME run[c].base = RevisionOf(n)', run[c].pc \in PassSteps PROVE ViewHeld(c)'
    BY <1>1, <1>2 DEF ViewHeld, At, PassSteps
  <2>2. RevisionOf(n)' = RevisionOf(n) /\ run[c].base = RevisionOf(n)
    BY <1>2, <1>3, <1>4, <1>5, <2>1 DEF Held, PassHeld, RowMoves
  <2>3. CursorOf(n)' \subseteq CursorOf(n) /\ TreeRoots(n)' \subseteq TreeRoots(n)
    BY <1>3, <2>2 DEF RowMoves
  <2>4. Present(c) \subseteq Present(c)' BY <2>1 DEF At, PassSteps
  <2> QED BY <1>1, <1>2, <2>2, <2>3, <2>4 DEF Held, ViewHeld, At
<1> QED BY <1>6, <1>7, <1>8 DEF Held

-----------------------------------------------------------------------------
(* Steps that move only what one checkout has in hand.                     *)

LEMMA HandMoves ==
  ASSUME RefsInv, NEW c \in Checkouts,
         UNCHANGED <<layout, rows, events, objects, pins, late, lost>>, faults' \in 0..MaxFaults,
         run' \in [Checkouts -> Hand], \A d \in Checkouts \ {c} : run'[d] = run[d],
         Held(c)'
  PROVE  RefsInv'
<1>1. RefsTypeOK'
  BY DEF RefsInv, RefsTypeOK, Hand, Present, Clone
<1>2. RootsStayPinned'
  BY DEF RefsInv, RootsStayPinned, Kept
<1>3. ASSUME NEW d \in Checkouts \ {c} PROVE Held(d)'
  <2>1. RowMoves(Name(d))
    BY RevisionType DEF RefsInv, RowMoves, RevisionOf, CursorOf, TreeRoots, EventTrees, EventsOf, Name
  <2>2. Undisturbed(d)
    BY <2>1 DEF Undisturbed, RefsInv, Held, Protected, Kept, Present, Clone, LateHeld
  <2> QED BY <1>1, <2>2, HeldStands DEF RefsInv
<1> QED BY <1>1, <1>2, <1>3 DEF RefsInv

\* A step that gives up what is in hand, or only marks it.
LEMMA LeaveMoves ==
  ASSUME RefsInv, NEW c \in Checkouts, Leave(c),
         UNCHANGED <<layout, rows, events, objects, pins, late, lost>>, faults' \in 0..MaxFaults
  PROVE  RefsInv'
<1>1. run \in [Checkouts -> Hand] /\ Idle \in Hand
  BY RevisionsBound DEF RefsInv, RefsTypeOK, Hand, Idle
<1>2. run' = [run EXCEPT ![c] = Idle]
  BY DEF Leave
<1>3. run'[c] = Idle /\ run' \in [Checkouts -> Hand]
  BY <1>1, <1>2
<1>4. Held(c)'
  BY <1>3 DEF RefsInv, Held, BoundaryHeld, PassHeld, ViewHeld, LateHeld, At, Idle, PassSteps
<1> QED BY <1>2, <1>3, <1>4, HandMoves, <1>1

LEMMA FaultsType == RefsTypeOK => faults \in 0..MaxFaults
BY DEF RefsTypeOK

LEMMA LoadKeeps == ASSUME RefsInv, NEW c \in Checkouts, LoadWorktree(c) PROVE RefsInv'
<1>1. UNCHANGED <<layout, rows, events, objects, pins, late, lost>> /\ faults' \in 0..MaxFaults
  BY FaultsType DEF LoadWorktree, durable, git, RefsInv
<1>2. run[c] \in Hand /\ run \in [Checkouts -> Hand] /\ RevisionOf(Name(c)) \in -1..MaxRevision
  BY RunType, RevisionType DEF RefsInv, RefsTypeOK, Hand
<1>3. run' = [run EXCEPT ![c].pc = "commit", ![c].revision = RevisionOf(Name(c))] /\ run[c].pc = "load"
  BY DEF LoadWorktree, At
<1>4. run' \in [Checkouts -> Hand] /\ run'[c].pc = "commit" /\ run'[c].trees = run[c].trees
  BY <1>2, <1>3 DEF Hand, BoundarySteps
<1>5. Held(c)'
  BY <1>1, <1>3, <1>4
     DEF RefsInv, Held, BoundaryHeld, PassHeld, ViewHeld, LateHeld, At, PassSteps, Protected, Name
<1> QED BY <1>1, <1>2, <1>3, <1>4, <1>5, HandMoves

LEMMA ConflictKeeps == ASSUME RefsInv, NEW c \in Checkouts, CommitConflicts(c) PROVE RefsInv'
<1>1. UNCHANGED <<layout, rows, events, objects, pins, late, lost>> /\ faults' \in 0..MaxFaults
  BY FaultsType DEF CommitConflicts, durable, git, RefsInv
<1>2. run[c] \in Hand /\ run \in [Checkouts -> Hand]
  BY RunType DEF RefsInv, RefsTypeOK, Hand
<1>3. run' = [run EXCEPT ![c].pc = "load"] /\ run[c].pc = "commit"
  BY DEF CommitConflicts, At, Goto
<1>4. run' \in [Checkouts -> Hand] /\ run'[c].pc = "load" /\ run'[c].trees = run[c].trees
  BY <1>2, <1>3 DEF Hand, BoundarySteps
<1>5. Held(c)'
  BY <1>1, <1>3, <1>4
     DEF RefsInv, Held, BoundaryHeld, PassHeld, ViewHeld, LateHeld, At, PassSteps, Protected, Name
<1> QED BY <1>1, <1>2, <1>3, <1>4, <1>5, HandMoves

LEMMA CancelKeeps == ASSUME RefsInv, NEW c \in Checkouts, Cancel(c) PROVE RefsInv'
<1>1. UNCHANGED <<layout, rows, events, objects, pins, late, lost>> /\ faults' \in 0..MaxFaults
  BY FaultsBound DEF Cancel, Disturb, durable, git, RefsInv, RefsTypeOK
<1>2. run[c] \in Hand /\ run \in [Checkouts -> Hand]
  BY RunType DEF RefsInv, RefsTypeOK, Hand
<1>3. run' = [run EXCEPT ![c].gone = TRUE]
  BY DEF Cancel
<1>4. /\ run' \in [Checkouts -> Hand] /\ run'[c].pc = run[c].pc /\ run'[c].trees = run[c].trees
      /\ run'[c].pinned = run[c].pinned /\ run'[c].absent = run[c].absent
      /\ run'[c].base = run[c].base /\ run'[c].revision = run[c].revision
  BY <1>2, <1>3 DEF Hand
<1>5. /\ RevisionOf(Name(c))' = RevisionOf(Name(c)) /\ CursorOf(Name(c))' = CursorOf(Name(c))
      /\ TreeRoots(Name(c))' = TreeRoots(Name(c)) /\ Kept(c)' = Kept(c) /\ Protected(c)' = Protected(c)
      /\ Present(c)' = Present(c) /\ Name(c)' = Name(c)
  BY <1>1 DEF RevisionOf, CursorOf, TreeRoots, EventTrees, EventsOf, Kept, Protected, Present, Clone, Name
<1>6. Held(c)'
  BY <1>1, <1>4, <1>5
     DEF RefsInv, Held, BoundaryHeld, PassHeld, ViewHeld, LateHeld, At
<1> QED BY <1>1, <1>2, <1>3, <1>4, <1>6, HandMoves

\* Nothing a checkout relies on but what it has in hand.
Quiescent(c) ==
  /\ RevisionOf(Name(c))' = RevisionOf(Name(c)) /\ CursorOf(Name(c))' = CursorOf(Name(c))
  /\ TreeRoots(Name(c))' = TreeRoots(Name(c)) /\ Kept(c)' = Kept(c) /\ Protected(c)' = Protected(c)
  /\ Present(c)' = Present(c) /\ Name(c)' = Name(c) /\ LateHeld(c)'

LEMMA PassStays ==
  ASSUME RefsInv, NEW c \in Checkouts, UNCHANGED <<layout, rows, events, objects, pins, late, faults, lost>>
  PROVE  /\ Quiescent(c) /\ faults' \in 0..MaxFaults
         /\ run[c] \in Hand /\ run \in [Checkouts -> Hand]
         /\ RevisionOf(Name(c)) \in -1..MaxRevision
         /\ pins[c] \subseteq Trees /\ TreeRoots(Name(c)) \subseteq Trees
         /\ pins[c] \subseteq Present(c) /\ CursorOf(Name(c)) \subseteq TreeRoots(Name(c))
         /\ TreeRoots(Name(c)) \subseteq AllTreeRoots /\ Kept(c) \subseteq AllTreeRoots
<1> USE DEF RefsInv
<1>1. Quiescent(c) /\ faults' \in 0..MaxFaults
  BY FaultsType DEF Held, LateHeld, Quiescent, RevisionOf, CursorOf, TreeRoots, EventTrees, EventsOf,
                    Kept, Protected, Present, Clone, Name
<1>2. run[c] \in Hand /\ run \in [Checkouts -> Hand] /\ RevisionOf(Name(c)) \in -1..MaxRevision
  BY RunType, RevisionType DEF RefsTypeOK, Hand
<1>3. pins[c] \subseteq Trees /\ pins[c] \subseteq Present(c)
  BY DEF RefsTypeOK
<1>4. TreeRoots(Name(c)) \subseteq Trees /\ CursorOf(Name(c)) \subseteq TreeRoots(Name(c))
  BY DEF RefsTypeOK, TreeRoots, CursorOf, EventTrees, EventsOf, RootRow, TreePair
<1>5. TreeRoots(Name(c)) \subseteq AllTreeRoots
  BY LayoutType DEF AllTreeRoots
<1>6. Kept(c) \subseteq AllTreeRoots
  <2>1. ASSUME NEW n \in DOMAIN rows PROVE rows[n].cursor \in AllTreeRoots
    BY DEF RefsTypeOK, AllTreeRoots, TreeRoots, CursorOf
  <2>2. ASSUME NEW e \in events PROVE e.before \in AllTreeRoots /\ e.after \in AllTreeRoots
    <3>1. e.name \in Names /\ e \in EventsOf(e.name) BY DEF RefsTypeOK, TreePair, EventsOf
    <3>2. e.before \in TreeRoots(e.name) /\ e.after \in TreeRoots(e.name)
      BY <3>1 DEF TreeRoots, EventTrees
    <3> QED BY <3>1, <3>2 DEF AllTreeRoots
  <2> QED BY <2>1, <2>2 DEF Kept
<1> QED BY <1>1, <1>2, <1>3, <1>4, <1>5, <1>6

LEMMA InventoryKeeps == ASSUME RefsInv, NEW c \in Checkouts, Inventory(c) PROVE RefsInv'
<1> DEFINE missing == TreeRoots(Name(c)) \ pins[c]
           hand == [Idle EXCEPT !.pc = IF missing = {} THEN "verify" ELSE "objects",
                                !.pinned = pins[c], !.trees = missing, !.base = RevisionOf(Name(c))]
<1>1. UNCHANGED <<layout, rows, events, objects, pins, late, faults, lost>> /\ run' = [run EXCEPT ![c] = hand]
  BY DEF Inventory, durable, git
<1>2. /\ Quiescent(c) /\ faults' \in 0..MaxFaults /\ run \in [Checkouts -> Hand]
      /\ RevisionOf(Name(c)) \in -1..MaxRevision
      /\ pins[c] \subseteq Trees /\ TreeRoots(Name(c)) \subseteq Trees
      /\ pins[c] \subseteq Present(c) /\ CursorOf(Name(c)) \subseteq TreeRoots(Name(c))
  BY <1>1, PassStays
<1>3. /\ hand \in Hand /\ hand.pc = (IF missing = {} THEN "verify" ELSE "objects")
      /\ hand.pinned = pins[c] /\ hand.trees = missing /\ hand.base = RevisionOf(Name(c))
  <2>1. Idle \in Hand BY RevisionsBound DEF Hand, Idle
  <2> QED BY <1>2, <2>1 DEF Hand, PassSteps
<1> HIDE DEF hand
<1>4. run'[c] = hand /\ run' \in [Checkouts -> Hand] /\ \A d \in Checkouts \ {c} : run'[d] = run[d]
  BY <1>1, <1>2, <1>3
<1>5. BoundaryHeld(c)'
  BY <1>3, <1>4 DEF BoundaryHeld, At
<1>6. PassHeld(c)'
  BY <1>2, <1>3, <1>4 DEF PassHeld, Quiescent, At, Protected
<1>7. ViewHeld(c)'
  BY <1>2, <1>3, <1>4 DEF ViewHeld, Quiescent, At
<1> QED BY <1>1, <1>2, <1>4, <1>5, <1>6, <1>7, HandMoves DEF Held, Quiescent

LEMMA AbsentKeeps == ASSUME RefsInv, NEW c \in Checkouts, AbsentTrees(c) PROVE RefsInv'
<1> DEFINE absent == run[c].trees \ Present(c)
<1>1. /\ UNCHANGED <<layout, rows, events, objects, pins, late, faults, lost>> /\ At(c, "objects")
      /\ run' = [run EXCEPT ![c].pc = IF absent = {} THEN "reload" ELSE "choose",
                            ![c].absent = absent, ![c].trees = {}]
  BY DEF AbsentTrees, durable, git
<1>2. Quiescent(c) /\ faults' \in 0..MaxFaults /\ run \in [Checkouts -> Hand] /\ run[c] \in Hand
  BY <1>1, PassStays
<1>3. absent \subseteq Trees BY <1>2 DEF Hand
<1>4. /\ run' \in [Checkouts -> Hand] /\ run'[c].pc \in {"reload", "choose"}
      /\ run'[c].absent = absent /\ run'[c].pinned = run[c].pinned /\ run'[c].base = run[c].base
  BY <1>1, <1>2, <1>3 DEF Hand, PassSteps
<1>5. BoundaryHeld(c)'
  BY <1>4 DEF BoundaryHeld, At
<1>6. PassHeld(c)'
  <2>1. run[c].base <= RevisionOf(Name(c)) /\ run[c].pinned \subseteq Protected(c)
    BY <1>1 DEF RefsInv, Held, PassHeld, At, PassSteps
  <2> QED BY <1>2, <1>4, <2>1 DEF PassHeld, Quiescent, At
<1>7. ViewHeld(c)'
  <2>1. run[c].base = RevisionOf(Name(c)) => CursorOf(Name(c)) \subseteq absent \cup Present(c)
    BY <1>1 DEF RefsInv, Held, ViewHeld, At
  <2> HIDE DEF absent
  <2> QED BY <1>2, <1>4, <2>1 DEF ViewHeld, Quiescent, At
<1> QED BY <1>1, <1>2, <1>4, <1>5, <1>6, <1>7, HandMoves DEF Held, Quiescent

LEMMA ChooseKeeps == ASSUME RefsInv, NEW c \in Checkouts, ChooseEvents(c) PROVE RefsInv'
<1> DEFINE beyond == {e \in EventsOf(Name(c)) : {e.before, e.after} \cap run[c].absent # {}}
           doomed == {e.revision : e \in beyond}
<1>1. UNCHANGED <<layout, rows, events, objects, pins, late, faults, lost>> /\ At(c, "choose")
  BY DEF ChooseEvents, durable, git
<1>2. /\ Quiescent(c) /\ faults' \in 0..MaxFaults /\ run \in [Checkouts -> Hand] /\ run[c] \in Hand
      /\ RevisionOf(Name(c)) \in -1..MaxRevision
  BY <1>1, PassStays
<1>3. CASE Leave(c)
  BY <1>1, <1>2, <1>3, LeaveMoves
<1>4. CASE /\ Recoverable(c)
           /\ run' = [run EXCEPT ![c].pc = "prune", ![c].revision = RevisionOf(Name(c)), ![c].doomed = doomed]
  <2>1. doomed \subseteq 1..MaxRevision
    BY DEF RefsInv, RefsTypeOK, EventsOf, TreePair
  <2>2. /\ run' \in [Checkouts -> Hand] /\ run'[c].pc = "prune" /\ run'[c].revision = RevisionOf(Name(c))
        /\ run'[c].pinned = run[c].pinned /\ run'[c].base = run[c].base
    BY <1>2, <1>4, <2>1 DEF Hand, PassSteps
  <2>3. BoundaryHeld(c)'
    BY <2>2 DEF BoundaryHeld, At
  <2>4. PassHeld(c)'
    BY <1>1, <1>2, <2>2 DEF PassHeld, Quiescent, At, RefsInv, Held, PassSteps
  <2>5. ViewHeld(c)'
    BY <1>1, <1>2, <1>4, <2>2 DEF ViewHeld, Quiescent, At, RefsInv, Held, Recoverable
  <2> QED BY <1>1, <1>2, <1>4, <2>2, <2>3, <2>4, <2>5, HandMoves DEF Held, Quiescent
<1> QED BY <1>3, <1>4 DEF ChooseEvents

LEMMA ReloadKeeps == ASSUME RefsInv, NEW c \in Checkouts, Reload(c) PROVE RefsInv'
<1> DEFINE missing == TreeRoots(Name(c)) \ run[c].pinned
<1>1. UNCHANGED <<layout, rows, events, objects, pins, late, faults, lost>> /\ At(c, "reload")
  BY DEF Reload, durable, git
<1>2. /\ Quiescent(c) /\ faults' \in 0..MaxFaults /\ run \in [Checkouts -> Hand] /\ run[c] \in Hand
      /\ TreeRoots(Name(c)) \subseteq Trees
  BY <1>1, PassStays
<1>3. CASE Leave(c)
  BY <1>1, <1>2, <1>3, LeaveMoves
<1>4. CASE run' = [run EXCEPT ![c].pc = IF missing = {} THEN "verify" ELSE "repin",
                              ![c].trees = missing, ![c].absent = {}]
  <2>1. missing \subseteq Trees BY <1>2
  <2>2. /\ run' \in [Checkouts -> Hand] /\ run'[c].pc = (IF missing = {} THEN "verify" ELSE "repin")
        /\ run'[c].trees = missing /\ run'[c].pinned = run[c].pinned /\ run'[c].base = run[c].base
    BY <1>2, <1>4, <2>1 DEF Hand, PassSteps
  <2>3. BoundaryHeld(c)'
    BY <2>2 DEF BoundaryHeld, At
  <2>4. PassHeld(c)'
    BY <1>1, <1>2, <2>2 DEF PassHeld, Quiescent, At, RefsInv, Held, PassSteps
  <2>5. ViewHeld(c)'
    BY <2>2 DEF ViewHeld, At
  <2> QED BY <1>1, <1>2, <1>4, <2>2, <2>3, <2>4, <2>5, HandMoves DEF Held, Quiescent
<1> QED BY <1>3, <1>4 DEF Reload

LEMMA VerifyKeeps == ASSUME RefsInv, NEW c \in Checkouts, Verify(c) PROVE RefsInv'
<1>1. UNCHANGED <<layout, rows, events, objects, pins, late, faults, lost>> /\ At(c, "verify")
  BY DEF Verify, durable, git
<1>2. Quiescent(c) /\ faults' \in 0..MaxFaults /\ run \in [Checkouts -> Hand] /\ run[c] \in Hand
  BY <1>1, PassStays
<1>3. CASE Leave(c)
  BY <1>1, <1>2, <1>3, LeaveMoves
<1>4. CASE /\ TreeRoots(Name(c)) \subseteq run[c].pinned \cup run[c].trees
           /\ run' = [run EXCEPT ![c].pc = "all", ![c].trees = {}]
  <2>1. /\ run' \in [Checkouts -> Hand] /\ run'[c].pc = "all"
        /\ run'[c].trees = {} /\ run'[c].pinned = run[c].pinned /\ run'[c].base = run[c].base
    BY <1>2, <1>4 DEF Hand, PassSteps
  <2>2. run[c].pinned \subseteq Protected(c) /\ run[c].trees \subseteq Protected(c)
    BY <1>1 DEF RefsInv, Held, PassHeld, At, PassSteps
  <2>3. BoundaryHeld(c)'
    BY <2>1 DEF BoundaryHeld, At
  <2>4. PassHeld(c)'
    BY <1>1, <1>2, <2>1 DEF PassHeld, Quiescent, At, RefsInv, Held, PassSteps
  <2>5. ViewHeld(c)'
    BY <1>2, <1>4, <2>1, <2>2 DEF ViewHeld, At, Quiescent
  <2> QED BY <1>1, <1>2, <1>4, <2>1, <2>3, <2>4, <2>5, HandMoves DEF Held, Quiescent
<1> QED BY <1>3, <1>4 DEF Verify

LEMMA LoadAllKeeps == ASSUME RefsInv, NEW c \in Checkouts, LoadAllRoots(c) PROVE RefsInv'
<1> DEFINE stale == run[c].pinned \ AllTreeRoots
<1>1. /\ UNCHANGED <<layout, rows, events, objects, pins, late, faults, lost>> /\ At(c, "all")
      /\ run' = [run EXCEPT ![c].pc = IF stale = {} THEN "done" ELSE "delete", ![c].trees = stale]
  BY DEF LoadAllRoots, durable, git
<1>2. /\ Quiescent(c) /\ faults' \in 0..MaxFaults /\ run \in [Checkouts -> Hand] /\ run[c] \in Hand
      /\ TreeRoots(Name(c)) \subseteq AllTreeRoots /\ Kept(c) \subseteq AllTreeRoots
  BY <1>1, PassStays
<1>3. stale \subseteq Trees BY <1>2 DEF Hand
<1>4. /\ run' \in [Checkouts -> Hand] /\ run'[c].pc = (IF stale = {} THEN "done" ELSE "delete")
      /\ run'[c].trees = stale /\ run'[c].pinned = run[c].pinned /\ run'[c].base = run[c].base
  BY <1>1, <1>2, <1>3 DEF Hand, PassSteps
<1>5. BoundaryHeld(c)'
  BY <1>4 DEF BoundaryHeld, At
<1>6. PassHeld(c)'
  BY <1>1, <1>2, <1>4 DEF PassHeld, Quiescent, At, RefsInv, Held, PassSteps
<1>7. ViewHeld(c)'
  BY <1>1, <1>2, <1>4 DEF ViewHeld, Quiescent, At, RefsInv, Held
<1> QED BY <1>1, <1>2, <1>4, <1>5, <1>6, <1>7, HandMoves DEF Held, Quiescent

\* Report, and whatever makes an operation end early.
LEMMA EndKeeps == ASSUME RefsInv, NEW c \in Checkouts, Report(c) \/ Fail(c) PROVE RefsInv'
BY LeaveMoves, FaultsType DEF Report, Fail, durable, git, RefsInv

-----------------------------------------------------------------------------
(* Steps of Git.                                                           *)

\* A step of one checkout that changes the refs and objects of its own, and no row.
LEMMA GitMoves ==
  ASSUME RefsInv, NEW c \in Checkouts, UNCHANGED <<layout, rows, events>>,
         faults' \in 0..MaxFaults,
         run' \in [Checkouts -> Hand], \A d \in Checkouts \ {c} : run'[d] = run[d],
         objects' \in [Clones -> SUBSET Trees], \A k \in Clones : objects[k] \subseteq objects'[k],
         pins' \in [Checkouts -> SUBSET Trees], \A d \in Checkouts \ {c} : pins'[d] = pins[d],
         lost' \in [Checkouts -> SUBSET Trees], \A d \in Checkouts \ {c} : lost'[d] = lost[d],
         late' \in [Checkouts -> SUBSET [op : GitSteps, trees : SUBSET Trees, killed : BOOLEAN]],
         \A d \in Checkouts \ {c} : late'[d] = late[d],
         pins'[c] \subseteq Present(c)', Kept(c) \subseteq Protected(c)',
         Held(c)'
  PROVE  RefsInv'
<1> USE DEF RefsInv
<1>1. \A d \in Checkouts : Clone(d)' = Clone(d) /\ Name(d)' = Name(d) /\ Kept(d)' = Kept(d)
  BY DEF Clone, Name, Kept
<1>2. \A d \in Checkouts : Present(d) \subseteq Present(d)'
  BY <1>1, LayoutType DEF Present
<1>3. \A d \in Checkouts : pins'[d] \subseteq Present(d)'
  BY <1>2 DEF RefsTypeOK
<1>4. RefsTypeOK'
  BY <1>3 DEF RefsTypeOK, Hand
<1>5. ASSUME NEW d \in Checkouts \ {c} PROVE Held(d)' /\ Kept(d)' \subseteq Protected(d)'
  <2>1. Protected(d)' = Protected(d) BY DEF Protected
  <2>2. RowMoves(Name(d))
    BY RevisionType DEF RowMoves, RevisionOf, CursorOf, TreeRoots, EventTrees, EventsOf, Name
  <2>3. LateHeld(d)' BY DEF LateHeld, Held
  <2>4. Undisturbed(d)
    BY <1>1, <1>2, <2>1, <2>2, <2>3 DEF Undisturbed
  <2>5. Held(d)' BY <1>4, <2>4, HeldStands
  <2>6. Kept(d) \subseteq Protected(d) BY DEF RootsStayPinned, Protected
  <2> QED BY <1>1, <2>1, <2>5, <2>6
<1>6. RootsStayPinned'
  BY <1>1, <1>5 DEF RootsStayPinned, Protected
<1> QED BY <1>4, <1>5, <1>6

\* What a checkout's own step leaves alone, and what a step on pins keeps protected.
LEMMA RowsStay ==
  ASSUME RefsInv, NEW c \in Checkouts, UNCHANGED <<layout, rows, events>>
  PROVE  /\ RevisionOf(Name(c))' = RevisionOf(Name(c)) /\ CursorOf(Name(c))' = CursorOf(Name(c))
         /\ TreeRoots(Name(c))' = TreeRoots(Name(c)) /\ Kept(c)' = Kept(c)
         /\ Name(c)' = Name(c) /\ Clone(c)' = Clone(c) /\ Clone(c) \in Clones
         /\ Kept(c) \subseteq Protected(c) /\ pins[c] \subseteq Present(c)
         /\ run[c] \in Hand /\ run \in [Checkouts -> Hand]
         /\ pins \in [Checkouts -> SUBSET Trees] /\ lost \in [Checkouts -> SUBSET Trees]
         /\ objects \in [Clones -> SUBSET Trees] /\ faults \in 0..MaxFaults
         /\ late \in [Checkouts -> SUBSET [op : GitSteps, trees : SUBSET Trees, killed : BOOLEAN]]
BY RunType, LayoutType
   DEF RefsInv, RefsTypeOK, Hand, RootsStayPinned, Protected, RevisionOf, CursorOf, TreeRoots,
       EventTrees, EventsOf, Kept, Name, Clone

LEMMA CaptureKeeps == ASSUME RefsInv, NEW c \in Checkouts, Capture(c) PROVE RefsInv'
<1>1. UNCHANGED <<layout, rows, events, pins, late, faults, lost>>
  BY DEF Capture, durable
<1>2. PICK t \in Trees :
        /\ objects' = [objects EXCEPT ![Clone(c)] = @ \cup {t}]
        /\ run' = [run EXCEPT ![c].pc = "pin", ![c].trees = {t}]
  BY DEF Capture
<1>3. /\ Clone(c)' = Clone(c) /\ Clone(c) \in Clones /\ Kept(c) \subseteq Protected(c)
      /\ pins[c] \subseteq Present(c) /\ run[c] \in Hand /\ run \in [Checkouts -> Hand]
      /\ objects \in [Clones -> SUBSET Trees] /\ faults' \in 0..MaxFaults
      /\ pins \in [Checkouts -> SUBSET Trees] /\ lost \in [Checkouts -> SUBSET Trees]
      /\ late \in [Checkouts -> SUBSET [op : GitSteps, trees : SUBSET Trees, killed : BOOLEAN]]
  BY <1>1, RowsStay
<1>4. /\ objects' \in [Clones -> SUBSET Trees] /\ \A k \in Clones : objects[k] \subseteq objects'[k]
      /\ t \in Present(c)' /\ pins[c] \subseteq Present(c)'
  BY <1>2, <1>3 DEF Present
<1>5. run' \in [Checkouts -> Hand] /\ run'[c].pc = "pin" /\ run'[c].trees = {t}
  BY <1>2, <1>3 DEF Hand, BoundarySteps
<1>6. Held(c)'
  BY <1>1, <1>4, <1>5 DEF RefsInv, Held, BoundaryHeld, PassHeld, ViewHeld, LateHeld, At, PassSteps
<1>7. Kept(c) \subseteq Protected(c)'
  BY <1>1, <1>3 DEF Protected
<1> QED BY <1>1, <1>2, <1>3, <1>4, <1>5, <1>6, <1>7, GitMoves

\* The pins that are made, by a call or by a child of Git that ran on.
LEMMA PinMoves ==
  ASSUME RefsInv, NEW c \in Checkouts, NEW trees \in SUBSET Trees, trees \subseteq Present(c),
         UNCHANGED <<layout, rows, events, objects, faults>>,
         pins' = [pins EXCEPT ![c] = @ \cup trees], lost' = [lost EXCEPT ![c] = @ \ trees],
         run' \in [Checkouts -> Hand], \A d \in Checkouts \ {c} : run'[d] = run[d],
         late' \in [Checkouts -> SUBSET [op : GitSteps, trees : SUBSET Trees, killed : BOOLEAN]],
         \A d \in Checkouts \ {c} : late'[d] = late[d]
  PROVE  /\ Protected(c)' = Protected(c) \cup trees /\ Present(c)' = Present(c)
         /\ Held(c)' => RefsInv'
<1>1. /\ Clone(c)' = Clone(c) /\ Kept(c) \subseteq Protected(c) /\ pins[c] \subseteq Present(c)
      /\ pins \in [Checkouts -> SUBSET Trees] /\ lost \in [Checkouts -> SUBSET Trees]
      /\ objects \in [Clones -> SUBSET Trees] /\ faults' \in 0..MaxFaults
  BY RowsStay
<1>2. pins'[c] = pins[c] \cup trees /\ lost'[c] = lost[c] \ trees
  BY <1>1
<1>3. Protected(c)' = Protected(c) \cup trees /\ Present(c)' = Present(c)
  BY <1>1, <1>2 DEF Protected, Present
<1>4. /\ pins' \in [Checkouts -> SUBSET Trees] /\ \A d \in Checkouts \ {c} : pins'[d] = pins[d]
      /\ lost' \in [Checkouts -> SUBSET Trees] /\ \A d \in Checkouts \ {c} : lost'[d] = lost[d]
  BY <1>1
<1>5. pins'[c] \subseteq Present(c)' BY <1>1, <1>2, <1>3
<1>6. ASSUME Held(c)' PROVE RefsInv'
  BY <1>1, <1>3, <1>4, <1>5, <1>6, GitMoves
<1> QED BY <1>3, <1>6

\* The end of a child of Git: its caller goes on, unless it was cancelled.
LEMMA AfterMoves ==
  ASSUME run \in [Checkouts -> Hand], NEW c \in Checkouts, NEW pc \in BoundarySteps \cup PassSteps,
         After(c, pc)
  PROVE  /\ run' \in [Checkouts -> Hand] /\ \A d \in Checkouts \ {c} : run'[d] = run[d]
         /\ \/ run'[c].pc = "idle"
            \/ /\ run'[c].pc = pc /\ run'[c].trees = run[c].trees
               /\ run'[c].pinned = run[c].pinned /\ run'[c].base = run[c].base
<1>1. run[c] \in Hand /\ Idle \in Hand /\ Idle.pc = "idle"
  BY RevisionsBound DEF Hand, Idle
<1>2. CASE run' = [run EXCEPT ![c] = Idle]
  <2>1. run'[c] = Idle BY <1>2
  <2> QED BY <1>1, <1>2, <2>1
<1>3. CASE run' = [run EXCEPT ![c].pc = pc]
  BY <1>1, <1>3 DEF Hand
<1> QED BY <1>2, <1>3 DEF After, Leave, Goto

LEMMA PinTreeKeeps == ASSUME RefsInv, NEW c \in Checkouts, PinTree(c) PROVE RefsInv'
<1>1. /\ UNCHANGED <<layout, rows, events, objects, late, faults>> /\ At(c, "pin")
      /\ pins' = [pins EXCEPT ![c] = @ \cup run[c].trees] /\ lost' = [lost EXCEPT ![c] = @ \ run[c].trees]
      /\ After(c, "initialize")
  BY DEF PinTree, durable
<1>2. /\ run[c] \in Hand /\ run \in [Checkouts -> Hand] /\ Idle \in Hand
      /\ late \in [Checkouts -> SUBSET [op : GitSteps, trees : SUBSET Trees, killed : BOOLEAN]]
  BY <1>1, RowsStay, RevisionsBound DEF Hand, Idle
<1>3. run[c].trees \in SUBSET Trees /\ run[c].trees \subseteq Present(c)
  BY <1>1, <1>2 DEF RefsInv, Held, BoundaryHeld, Hand
<1>4. /\ run' \in [Checkouts -> Hand] /\ \A d \in Checkouts \ {c} : run'[d] = run[d]
      /\ run'[c].pc \in {"idle", "initialize"} /\ (run'[c].pc = "initialize" => run'[c].trees = run[c].trees)
  BY <1>1, <1>2, AfterMoves DEF BoundarySteps
<1>5. Protected(c)' = Protected(c) \cup run[c].trees /\ (Held(c)' => RefsInv')
  BY <1>1, <1>2, <1>3, <1>4, PinMoves
<1>6. Held(c)'
  BY <1>1, <1>4, <1>5 DEF RefsInv, Held, BoundaryHeld, PassHeld, ViewHeld, LateHeld, At, PassSteps
<1> QED BY <1>5, <1>6

LEMMA PinTreesKeeps == ASSUME RefsInv, NEW c \in Checkouts, PinTrees(c) PROVE RefsInv'
<1>1. /\ UNCHANGED <<layout, rows, events, objects, late, faults>> /\ At(c, "repin")
      /\ pins' = [pins EXCEPT ![c] = @ \cup run[c].trees] /\ lost' = [lost EXCEPT ![c] = @ \ run[c].trees]
      /\ After(c, "verify") /\ Creatable(c, run[c].trees)
  BY DEF PinTrees, durable
<1>2. /\ run[c] \in Hand /\ run \in [Checkouts -> Hand] /\ Idle \in Hand
      /\ RevisionOf(Name(c))' = RevisionOf(Name(c))
      /\ late \in [Checkouts -> SUBSET [op : GitSteps, trees : SUBSET Trees, killed : BOOLEAN]]
  BY <1>1, RowsStay, RevisionsBound DEF Hand, Idle
<1>3. run[c].trees \in SUBSET Trees /\ run[c].trees \subseteq Present(c)
  BY <1>1, <1>2 DEF Creatable, Hand
<1>4. /\ run' \in [Checkouts -> Hand] /\ \A d \in Checkouts \ {c} : run'[d] = run[d]
      /\ \/ run'[c].pc = "idle"
         \/ /\ run'[c].pc = "verify" /\ run'[c].trees = run[c].trees
            /\ run'[c].pinned = run[c].pinned /\ run'[c].base = run[c].base
  BY <1>1, <1>2, AfterMoves DEF PassSteps
<1>5. Protected(c)' = Protected(c) \cup run[c].trees /\ (Held(c)' => RefsInv')
  BY <1>1, <1>2, <1>3, <1>4, PinMoves
<1>6. run[c].base <= RevisionOf(Name(c)) /\ run[c].pinned \subseteq Protected(c)
  BY <1>1 DEF RefsInv, Held, PassHeld, At, PassSteps
<1>7. Held(c)'
  BY <1>1, <1>2, <1>4, <1>5, <1>6 DEF RefsInv, Held, BoundaryHeld, PassHeld, ViewHeld, LateHeld, At, PassSteps
<1> QED BY <1>5, <1>7

LEMMA DeleteKeeps == ASSUME RefsInv, NEW c \in Checkouts, DeletePins(c) PROVE RefsInv'
<1>1. /\ UNCHANGED <<layout, rows, events, objects, late, faults, lost>> /\ At(c, "delete")
      /\ pins' = [pins EXCEPT ![c] = @ \ run[c].trees] /\ After(c, "done")
  BY DEF DeletePins, durable
<1>2. /\ run[c] \in Hand /\ run \in [Checkouts -> Hand] /\ Idle \in Hand
      /\ RevisionOf(Name(c))' = RevisionOf(Name(c)) /\ TreeRoots(Name(c))' = TreeRoots(Name(c))
      /\ Kept(c) \subseteq Protected(c) /\ pins[c] \subseteq Present(c) /\ Clone(c)' = Clone(c)
      /\ pins \in [Checkouts -> SUBSET Trees] /\ lost \in [Checkouts -> SUBSET Trees]
      /\ objects \in [Clones -> SUBSET Trees] /\ faults' \in 0..MaxFaults
      /\ late \in [Checkouts -> SUBSET [op : GitSteps, trees : SUBSET Trees, killed : BOOLEAN]]
  BY <1>1, RowsStay, RevisionsBound DEF Hand, Idle
<1>3. /\ pins' \in [Checkouts -> SUBSET Trees] /\ \A d \in Checkouts \ {c} : pins'[d] = pins[d]
      /\ pins'[c] = pins[c] \ run[c].trees
  BY <1>1, <1>2
<1>4. /\ run' \in [Checkouts -> Hand] /\ \A d \in Checkouts \ {c} : run'[d] = run[d]
      /\ run'[c].pc = "idle" \/ (run'[c].pc = "done" /\ run'[c].base = run[c].base)
  BY <1>1, <1>2, AfterMoves DEF PassSteps
<1>5. Protected(c) \ run[c].trees \subseteq Protected(c)' /\ pins'[c] \subseteq Present(c)'
  BY <1>1, <1>2, <1>3 DEF Protected, Present
<1>6. /\ run[c].base <= RevisionOf(Name(c)) /\ run[c].trees \cap Kept(c) = {}
      /\ run[c].base = RevisionOf(Name(c)) =>
           TreeRoots(Name(c)) \subseteq Protected(c) /\ run[c].trees \cap TreeRoots(Name(c)) = {}
  BY <1>1 DEF RefsInv, Held, PassHeld, ViewHeld, At, PassSteps
<1>7. Kept(c) \subseteq Protected(c)' BY <1>2, <1>5, <1>6
<1>8. BoundaryHeld(c)' /\ LateHeld(c)'
  BY <1>1, <1>4 DEF RefsInv, Held, BoundaryHeld, LateHeld, At
<1>9. PassHeld(c)' /\ ViewHeld(c)'
  BY <1>2, <1>4, <1>5, <1>6 DEF PassHeld, ViewHeld, At, PassSteps
<1> QED BY <1>1, <1>2, <1>3, <1>4, <1>5, <1>7, <1>8, <1>9, GitMoves DEF Held

LEMMA KillKeeps == ASSUME RefsInv, NEW c \in Checkouts, Kill(c) PROVE RefsInv'
<1> DEFINE update == [op |-> run[c].pc, trees |-> run[c].trees, killed |-> TRUE]
<1>1. /\ UNCHANGED <<layout, rows, events, objects, pins, lost>> /\ run[c].pc \in GitSteps
      /\ late' = [late EXCEPT ![c] = {update}]
      /\ run' = [run EXCEPT ![c] = Idle]
  BY DEF Kill, durable, Leave
<1>2. /\ run[c] \in Hand /\ run \in [Checkouts -> Hand] /\ Idle \in Hand
      /\ Kept(c) \subseteq Protected(c) /\ pins[c] \subseteq Present(c) /\ Clone(c)' = Clone(c)
      /\ pins \in [Checkouts -> SUBSET Trees] /\ lost \in [Checkouts -> SUBSET Trees]
      /\ objects \in [Clones -> SUBSET Trees]
      /\ late \in [Checkouts -> SUBSET [op : GitSteps, trees : SUBSET Trees, killed : BOOLEAN]]
  BY <1>1, RowsStay, RevisionsBound DEF Hand, Idle
<1>3. faults' \in 0..MaxFaults
  BY FaultsBound DEF Kill, Disturb, RefsInv, RefsTypeOK
<1>4. update \in [op : GitSteps, trees : SUBSET Trees, killed : BOOLEAN] /\ update.killed
  BY <1>1, <1>2 DEF Hand
<1> HIDE DEF update
<1>5. /\ late' \in [Checkouts -> SUBSET [op : GitSteps, trees : SUBSET Trees, killed : BOOLEAN]]
      /\ late'[c] = {update} /\ \A d \in Checkouts \ {c} : late'[d] = late[d]
  BY <1>1, <1>2, <1>4
<1>6. run' \in [Checkouts -> Hand] /\ run'[c] = Idle /\ \A d \in Checkouts \ {c} : run'[d] = run[d]
  BY <1>1, <1>2
<1>7. Held(c)'
  BY <1>4, <1>5, <1>6 DEF Held, BoundaryHeld, PassHeld, ViewHeld, LateHeld, At, Idle, PassSteps
<1>8. Kept(c) \subseteq Protected(c)' /\ pins'[c] \subseteq Present(c)'
  BY <1>1, <1>2 DEF Protected, Present
<1> QED BY <1>1, <1>2, <1>3, <1>5, <1>6, <1>7, <1>8, GitMoves

\* A child of Git that ran on: what it takes away is lost.
LEMMA LateKeeps == ASSUME RefsInv, NEW c \in Checkouts, LateUpdate(c) \/ LateUpdateFails(c) PROVE RefsInv'
<1>1. UNCHANGED <<layout, rows, events, objects, faults, run>> /\ late' = [late EXCEPT ![c] = {}]
  BY DEF LateUpdate, LateUpdateFails, durable
<1>2. /\ run \in [Checkouts -> Hand] /\ Kept(c) \subseteq Protected(c) /\ pins[c] \subseteq Present(c)
      /\ Clone(c)' = Clone(c)
      /\ pins \in [Checkouts -> SUBSET Trees] /\ lost \in [Checkouts -> SUBSET Trees]
      /\ objects \in [Clones -> SUBSET Trees] /\ faults' \in 0..MaxFaults
      /\ late \in [Checkouts -> SUBSET [op : GitSteps, trees : SUBSET Trees, killed : BOOLEAN]]
  BY <1>1, RowsStay
<1>3. /\ late' \in [Checkouts -> SUBSET [op : GitSteps, trees : SUBSET Trees, killed : BOOLEAN]]
      /\ late'[c] = {} /\ \A d \in Checkouts \ {c} : late'[d] = late[d]
  BY <1>1, <1>2
<1>4. Present(c)' = Present(c) BY <1>1 DEF Present, Clone
<1>5. /\ pins' \in [Checkouts -> SUBSET Trees] /\ \A d \in Checkouts \ {c} : pins'[d] = pins[d]
      /\ lost' \in [Checkouts -> SUBSET Trees] /\ \A d \in Checkouts \ {c} : lost'[d] = lost[d]
      /\ pins'[c] \subseteq Present(c) /\ Protected(c) \subseteq Protected(c)'
  <2>1. CASE LateUpdateFails(c)
    BY <1>2, <2>1 DEF LateUpdateFails, Protected
  <2>2. CASE LateUpdate(c)
    <3>1. PICK u \in late[c] :
            \/ /\ u.trees \subseteq Present(c)
               /\ pins' = [pins EXCEPT ![c] = @ \cup u.trees]
               /\ lost' = [lost EXCEPT ![c] = @ \ u.trees]
            \/ /\ u.trees \subseteq pins[c]
               /\ pins' = [pins EXCEPT ![c] = @ \ u.trees]
               /\ lost' = [lost EXCEPT ![c] = IF u.killed THEN @ \cup u.trees ELSE @]
      BY <2>2 DEF LateUpdate, Creatable
    <3>2. u.killed BY DEF RefsInv, Held, LateHeld
    <3>3. u.trees \subseteq Trees BY <1>2
    <3>4. CASE /\ u.trees \subseteq Present(c)
               /\ pins' = [pins EXCEPT ![c] = @ \cup u.trees]
               /\ lost' = [lost EXCEPT ![c] = @ \ u.trees]
      BY <1>2, <3>3, <3>4 DEF Protected
    <3>5. CASE /\ u.trees \subseteq pins[c]
               /\ pins' = [pins EXCEPT ![c] = @ \ u.trees]
               /\ lost' = [lost EXCEPT ![c] = @ \cup u.trees]
      BY <1>2, <3>3, <3>5 DEF Protected
    <3> QED BY <3>1, <3>2, <3>4, <3>5
  <2> QED BY <2>1, <2>2
<1>6. RefsTypeOK'
  <2>1. \A d \in Checkouts : pins'[d] \subseteq Present(d)'
    BY <1>1, <1>4, <1>5 DEF RefsInv, RefsTypeOK, Present, Clone
  <2> QED BY <1>1, <1>3, <1>5, <2>1 DEF RefsInv, RefsTypeOK
<1>7. Held(c)'
  <2>1. Undisturbed(c)
    BY <1>1, <1>3, <1>4, <1>5, RevisionType
    DEF Undisturbed, Kept, RowMoves, RefsInv, RevisionOf, CursorOf, TreeRoots, EventTrees, EventsOf, Name, LateHeld
  <2> QED BY <1>6, <2>1, HeldStands DEF RefsInv
<1> QED BY <1>1, <1>2, <1>3, <1>4, <1>5, <1>7, GitMoves

-----------------------------------------------------------------------------
(* Steps of the database.                                                  *)

RowsType ==
  /\ DOMAIN rows \subseteq Names /\ rows \in [DOMAIN rows -> RootRow]
  /\ events \subseteq TreePair
  /\ \A e, f \in events : e.name = f.name /\ e.revision = f.revision => e = f
  /\ \A e \in events : e.name \in DOMAIN rows /\ e.revision <= rows[e.name].revision

\* What a statement of one checkout's operation does to rows and events.
RowsMove(c) ==
  /\ RowsType' /\ \A n \in Names : RowMoves(n)
  /\ \A d \in Checkouts \ {c} : Kept(d)' \subseteq Kept(d)
  /\ Kept(c)' \subseteq Protected(c)

LEMMA DatabaseMoves ==
  ASSUME RefsInv, NEW c \in Checkouts, UNCHANGED <<layout, objects, pins, late, faults, lost>>,
         run' \in [Checkouts -> Hand], \A d \in Checkouts \ {c} : run'[d] = run[d],
         RowsMove(c), Held(c)'
  PROVE  RefsInv'
<1> USE DEF RefsInv
<1>1. RefsTypeOK'
  BY DEF RefsTypeOK, RowsMove, RowsType, Hand, Present, Clone
<1>2. \A d \in Checkouts : Protected(d)' = Protected(d) /\ Present(d)' = Present(d) /\ Kept(d) \subseteq Protected(d)
  BY DEF Protected, Present, Clone, RootsStayPinned
<1>3. ASSUME NEW d \in Checkouts \ {c} PROVE Held(d)'
  <2>1. RowMoves(Name(d)) BY LayoutType DEF RowsMove
  <2>2. LateHeld(d)' BY DEF Held, LateHeld
  <2>3. Kept(d)' \subseteq Kept(d) BY DEF RowsMove
  <2>4. Undisturbed(d) BY <1>2, <2>1, <2>2, <2>3 DEF Undisturbed
  <2> QED BY <1>1, <2>4, HeldStands
<1>4. RootsStayPinned'
  BY <1>2 DEF RootsStayPinned, RowsMove, Protected
<1> QED BY <1>1, <1>3, <1>4

\* A commit that only counts.
LEMMA CountMoves ==
  ASSUME RefsInv, NEW c \in Checkouts, Name(c) \in DOMAIN rows, rows[Name(c)].revision < MaxRevision,
         rows' = [rows EXCEPT ![Name(c)].revision = @ + 1], UNCHANGED events
  PROVE  RowsMove(c)
<1> DEFINE m == Name(c)
<1>1. RowsType BY DEF RefsInv, RefsTypeOK, RowsType
<1>2. rows[m] \in RootRow BY <1>1 DEF RowsType
<1>3. /\ rows[m].revision + 1 \in 0..MaxRevision /\ rows[m].revision < rows[m].revision + 1
      /\ rows[m].revision \in Int
  BY <1>2, RevisionsBound DEF RootRow
<1> HIDE DEF m
<1>4. rows' = [rows EXCEPT ![m].revision = rows[m].revision + 1]
  BY DEF m
<1>5. /\ DOMAIN rows' = DOMAIN rows /\ rows' \in [DOMAIN rows -> RootRow]
      /\ \A n \in DOMAIN rows : rows'[n].cursor = rows[n].cursor /\ rows'[n].keeper = rows[n].keeper
      /\ \A n \in DOMAIN rows \ {m} : rows'[n] = rows[n]
      /\ m \in DOMAIN rows => rows'[m].revision = rows[m].revision + 1
  BY <1>1, <1>2, <1>3, <1>4 DEF RowsType, RootRow
<1>6. m \in DOMAIN rows BY DEF m
<1>7. RowsType'
  <2>1. ASSUME NEW e \in events PROVE e.name \in DOMAIN rows /\ e.revision <= rows'[e.name].revision
    <3>1. e.name \in DOMAIN rows /\ e.revision <= rows[e.name].revision /\ e.revision \in Int
      BY <1>1 DEF RowsType, TreePair
    <3>2. CASE e.name = m
      BY <1>3, <1>5, <3>1, <3>2
    <3>3. CASE e.name # m
      BY <1>5, <3>1, <3>3
    <3> QED BY <3>2, <3>3
  <2>2. events' = events /\ DOMAIN rows' = DOMAIN rows /\ rows' \in [DOMAIN rows -> RootRow]
    BY <1>5
  <2>3. \A e, f \in events' : e.name = f.name /\ e.revision = f.revision => e = f
    BY <1>1, <2>2 DEF RowsType
  <2> QED BY <1>1, <2>1, <2>2, <2>3 DEF RowsType
<1>8. ASSUME NEW n \in Names PROVE RowMoves(n)
  <2>1. CursorOf(n)' = CursorOf(n) /\ TreeRoots(n)' = TreeRoots(n)
    BY <1>5 DEF CursorOf, TreeRoots, EventTrees, EventsOf
  <2>2. RevisionOf(n) <= RevisionOf(n)'
    BY <1>3, <1>5, <1>6, RevisionType DEF RevisionOf, RefsInv
  <2> QED BY <1>5, <2>1, <2>2 DEF RowMoves
<1>9. \A d \in Checkouts : Kept(d)' = Kept(d)
  BY <1>5 DEF Kept
<1> QED BY <1>7, <1>8, <1>9 DEF RowsMove, RefsInv, RootsStayPinned, Protected

\* A commit that moves the cursor, with evidence or without.
LEMMA CursorMoves ==
  ASSUME RefsInv, NEW c \in Checkouts, Name(c) \in DOMAIN rows, rows[Name(c)].revision < MaxRevision,
         NEW t \in Trees, t \in Protected(c), Moved(c, t),
         events' = events \/ events' = events \cup {Evidence(c, t)}
  PROVE  RowsMove(c)
<1> DEFINE m == Name(c)
           row == [cursor |-> t, revision |-> rows[m].revision + 1, keeper |-> c]
           new == Evidence(c, t)
<1>1. RowsType BY DEF RefsInv, RefsTypeOK, RowsType
<1>2. rows[m] \in RootRow /\ m \in Names BY <1>1 DEF RowsType
<1>3. /\ rows[m].revision + 1 \in 1..MaxRevision /\ rows[m].revision < rows[m].revision + 1
      /\ rows[m].revision \in Int
  BY <1>2, RevisionsBound DEF RootRow
<1>4. row \in RootRow BY <1>3 DEF RootRow
<1>5. /\ new \in TreePair /\ new.name = m /\ new.revision = rows[m].revision + 1
      /\ new.before = rows[m].cursor /\ new.after = t
      /\ new.keepers[1] = rows[m].keeper /\ new.keepers[2] = c
  BY <1>2, <1>3 DEF Evidence, TreePair, RootRow
<1>6. rows' = [rows EXCEPT ![m] = row]
  BY DEF Moved
<1>7. row.revision = rows[m].revision + 1 /\ row.cursor = t /\ row.keeper = c
  OBVIOUS
<1>8. m \in DOMAIN rows OBVIOUS
<1>9. \A d \in Checkouts : Kept(d) \subseteq Protected(d) BY DEF RefsInv, RootsStayPinned, Protected
<1> HIDE DEF m, row, new
<1>10. DOMAIN rows' = DOMAIN rows /\ rows'[m] = row /\ \A n \in DOMAIN rows \ {m} : rows'[n] = rows[n]
  BY <1>1, <1>6, <1>8 DEF RowsType
<1>11. events \subseteq events' /\ events' \subseteq events \cup {new}
  BY DEF new
<1>12. RowsType'
  <2>1. rows' \in [DOMAIN rows -> RootRow] /\ events' \subseteq TreePair
    BY <1>1, <1>4, <1>5, <1>6, <1>11 DEF RowsType
  <2>2. ASSUME NEW e \in events
        PROVE  /\ e.name \in DOMAIN rows /\ e.revision <= rows'[e.name].revision
               /\ e.name = m => e.revision # new.revision
    <3>1. e.name \in DOMAIN rows /\ e.revision <= rows[e.name].revision /\ e.revision \in Int
      BY <1>1 DEF RowsType, TreePair
    <3>2. CASE e.name = m
      BY <1>3, <1>5, <1>7, <1>10, <3>1, <3>2
    <3>3. CASE e.name # m
      BY <1>10, <3>1, <3>3
    <3> QED BY <3>2, <3>3
  <2>3. new.name \in DOMAIN rows /\ new.revision <= rows'[new.name].revision
    BY <1>3, <1>5, <1>7, <1>8, <1>10
  <2>4. \A e, f \in events' : e.name = f.name /\ e.revision = f.revision => e = f
    BY <1>1, <1>5, <1>11, <2>2 DEF RowsType
  <2> QED BY <1>1, <1>10, <1>11, <2>1, <2>2, <2>3, <2>4 DEF RowsType
<1>13. ASSUME NEW n \in Names PROVE RowMoves(n)
  <2>1. CASE n = m
    <3>1. RevisionOf(n) = rows[m].revision
      BY <1>8, <2>1 DEF RevisionOf
    <3>2. RevisionOf(n)' = rows[m].revision + 1
      BY <1>7, <1>8, <1>10, <2>1 DEF RevisionOf
    <3>3. RevisionOf(n) <= RevisionOf(n)' /\ RevisionOf(n)' # RevisionOf(n)
      BY <1>3, <3>1, <3>2
    <3> QED BY <1>8, <1>10, <2>1, <3>3 DEF RowMoves
  <2>2. CASE n # m
    <3>1. CursorOf(n)' = CursorOf(n) /\ RevisionOf(n)' = RevisionOf(n)
      BY <1>10, <2>2 DEF CursorOf, RevisionOf
    <3>2. EventsOf(n)' = EventsOf(n)
      BY <1>5, <1>11, <2>2 DEF EventsOf
    <3>3. TreeRoots(n)' = TreeRoots(n)
      BY <3>1, <3>2 DEF TreeRoots, EventTrees
    <3> QED BY <1>10, <3>1, <3>3, RevisionType DEF RowMoves, RefsInv
  <2> QED BY <2>1, <2>2
<1>14. rows[m].cursor \in Kept(rows[m].keeper)
  BY <1>2, <1>8 DEF Kept
<1>15. ASSUME NEW d \in Checkouts PROVE Kept(d)' \subseteq Kept(d) \cup (IF d = c THEN {t} ELSE {})
  <2>1. ASSUME NEW n \in DOMAIN rows', rows'[n].keeper = d
        PROVE  rows'[n].cursor \in Kept(d) \cup (IF d = c THEN {t} ELSE {})
    BY <1>7, <1>10, <2>1 DEF Kept
  <2>2. ASSUME NEW e \in events', e.keepers[1] = d
        PROVE  e.before \in Kept(d)
    BY <1>5, <1>11, <1>14, <2>2 DEF Kept
  <2>3. ASSUME NEW e \in events', e.keepers[2] = d
        PROVE  e.after \in Kept(d) \cup (IF d = c THEN {t} ELSE {})
    BY <1>5, <1>11, <2>3 DEF Kept
  <2> QED BY <2>1, <2>2, <2>3 DEF Kept
<1> QED BY <1>9, <1>12, <1>13, <1>15 DEF RowsMove

LEMMA CommitKeeps == ASSUME RefsInv, NEW c \in Checkouts, Commit(c) PROVE RefsInv'
<1>1. /\ UNCHANGED <<layout, objects, pins, late, faults, lost>> /\ At(c, "commit")
      /\ run[c].revision = RevisionOf(Name(c)) /\ run[c].revision < MaxRevision
  BY DEF Commit, git
<1>2. Name(c) \in DOMAIN rows /\ run[c].trees \subseteq Protected(c)
  BY <1>1 DEF RefsInv, Held, BoundaryHeld, At
<1>3. rows[Name(c)].revision < MaxRevision
  BY <1>1, <1>2 DEF RevisionOf
<1>4. run \in [Checkouts -> Hand] /\ run[c] \in Hand /\ Idle \in Hand
  BY RunType, RevisionsBound DEF RefsInv, RefsTypeOK, Hand, Idle
<1>5. PICK t \in run[c].trees :
        \/ Moved(c, t) /\ events' = events \cup {Evidence(c, t)} /\ Leave(c)
        \/ Moved(c, t) /\ Goto(c, "load") /\ UNCHANGED events
        \/ rows' = [rows EXCEPT ![Name(c)].revision = @ + 1] /\ Leave(c) /\ UNCHANGED events
  BY DEF Commit
<1>6. t \in Trees BY <1>4 DEF Hand
<1>7. RowsMove(c)
  BY <1>2, <1>3, <1>5, <1>6, CountMoves, CursorMoves
<1>8. /\ run' \in [Checkouts -> Hand] /\ \A d \in Checkouts \ {c} : run'[d] = run[d]
      /\ \/ run'[c] = Idle
         \/ run'[c].pc = "load" /\ run'[c].trees = run[c].trees
  <2>1. CASE Leave(c) BY <1>4, <2>1 DEF Leave
  <2>2. CASE Goto(c, "load") BY <1>4, <2>2 DEF Goto, Hand, BoundarySteps
  <2> QED BY <1>5, <2>1, <2>2
<1>9. Name(c) \in DOMAIN rows'
  BY <1>2, <1>7, LayoutType DEF RowsMove, RowMoves, RefsInv
<1>10. Held(c)'
  BY <1>1, <1>2, <1>8, <1>9
  DEF RefsInv, Held, BoundaryHeld, PassHeld, ViewHeld, LateHeld, At, Idle, PassSteps, Protected, Name
<1> QED BY <1>1, <1>7, <1>8, <1>10, DatabaseMoves

LEMMA SnapshotKeeps == ASSUME RefsInv, NEW c \in Checkouts, SnapshotFails(c) PROVE RefsInv'
<1>1. /\ UNCHANGED <<layout, objects, pins, late, faults, lost>> /\ run' = [run EXCEPT ![c] = Idle]
  BY DEF SnapshotFails, git, Leave
<1>2. run \in [Checkouts -> Hand] /\ Idle \in Hand
  BY RevisionsBound DEF RefsInv, RefsTypeOK, Hand, Idle
<1>3. RowsMove(c)
  BY CountMoves DEF SnapshotFails
<1>4. run' \in [Checkouts -> Hand] /\ run'[c] = Idle /\ \A d \in Checkouts \ {c} : run'[d] = run[d]
  BY <1>1, <1>2
<1>5. Held(c)'
  BY <1>1, <1>4 DEF RefsInv, Held, BoundaryHeld, PassHeld, ViewHeld, LateHeld, At, Idle, PassSteps
<1> QED BY <1>1, <1>3, <1>4, <1>5, DatabaseMoves

\* The row is inserted for the tree this checkout pinned, unless it exists.
LEMMA InitializeKeeps == ASSUME RefsInv, NEW c \in Checkouts, InitializeWorktree(c) PROVE RefsInv'
<1> DEFINE m == Name(c)
<1>1. /\ UNCHANGED <<layout, events, objects, pins, late, faults, lost>> /\ At(c, "initialize")
      /\ run' = [run EXCEPT ![c].pc = "commit", ![c].revision = rows'[m].revision]
  BY DEF InitializeWorktree, git
<1>2. PICK t \in run[c].trees :
        rows' = [n \in DOMAIN rows \cup {m} |->
                   IF n \in DOMAIN rows THEN rows[n] ELSE [cursor |-> t, revision |-> 0, keeper |-> c]]
  BY DEF InitializeWorktree
<1>3. run \in [Checkouts -> Hand] /\ run[c] \in Hand /\ RowsType /\ m \in Names
  BY RunType, LayoutType DEF RefsInv, RefsTypeOK, Hand, RowsType
<1>4. t \in Trees /\ run[c].trees \subseteq Protected(c)
  BY <1>1, <1>3 DEF Hand, RefsInv, Held, BoundaryHeld, At
<1> DEFINE row == [cursor |-> t, revision |-> 0, keeper |-> c]
<1>5. row \in RootRow /\ row.cursor = t /\ row.keeper = c /\ row.revision = 0
  BY <1>4, RevisionsBound DEF RootRow
<1>6. Name(c)' = m BY <1>1 DEF Name
<1> HIDE DEF row, m
<1>7. /\ DOMAIN rows' = DOMAIN rows \cup {m} /\ \A n \in DOMAIN rows : rows'[n] = rows[n]
      /\ m \notin DOMAIN rows => rows'[m] = row
  BY <1>2 DEF row
<1>8. rows' \in [DOMAIN rows' -> RootRow]
  BY <1>2, <1>3, <1>5 DEF row, RowsType
<1>9. RowsType'
  BY <1>1, <1>3, <1>7, <1>8 DEF RowsType
<1>10. ASSUME NEW n \in Names PROVE RowMoves(n)
  <2>1. CASE n \in DOMAIN rows \/ n # m
    <3>1. n \in DOMAIN rows' <=> n \in DOMAIN rows BY <1>7, <2>1
    <3>2. /\ RevisionOf(n)' = RevisionOf(n) /\ CursorOf(n)' = CursorOf(n)
          /\ TreeRoots(n)' = TreeRoots(n)
      BY <1>1, <1>7, <3>1 DEF RevisionOf, CursorOf, TreeRoots, EventTrees, EventsOf
    <3> QED BY <3>1, <3>2, RevisionType DEF RowMoves, RefsInv
  <2>2. CASE n \notin DOMAIN rows /\ n = m
    <3>1. RevisionOf(n) = -1 /\ RevisionOf(n)' = 0
      BY <1>5, <1>7, <2>2 DEF RevisionOf
    <3> QED BY <2>2, <3>1 DEF RowMoves
  <2> QED BY <2>1, <2>2
<1>11. ASSUME NEW d \in Checkouts PROVE Kept(d)' \subseteq Kept(d) \cup (IF d = c THEN {t} ELSE {})
  <2>1. ASSUME NEW n \in DOMAIN rows', rows'[n].keeper = d
        PROVE  rows'[n].cursor \in Kept(d) \cup (IF d = c THEN {t} ELSE {})
    BY <1>5, <1>7, <2>1 DEF Kept
  <2> QED BY <1>1, <2>1 DEF Kept
<1>12. RowsMove(c)
  BY <1>4, <1>9, <1>10, <1>11 DEF RowsMove, RefsInv, RootsStayPinned, Protected
<1>13. m \in DOMAIN rows' /\ rows'[m].revision \in -1..MaxRevision
  BY <1>7, <1>8, RevisionsBound DEF RootRow
<1>14. /\ run' \in [Checkouts -> Hand] /\ \A d \in Checkouts \ {c} : run'[d] = run[d]
       /\ run'[c].pc = "commit" /\ run'[c].trees = run[c].trees
  BY <1>1, <1>3, <1>13 DEF Hand, BoundarySteps
<1>15. Held(c)'
  BY <1>1, <1>4, <1>6, <1>13, <1>14
  DEF RefsInv, Held, BoundaryHeld, PassHeld, ViewHeld, LateHeld, At, PassSteps, Protected
<1> QED BY <1>1, <1>12, <1>14, <1>15, DatabaseMoves

LEMMA PruneKeeps == ASSUME RefsInv, NEW c \in Checkouts, PruneEvents(c) PROVE RefsInv'
<1>1. UNCHANGED <<layout, rows, objects, pins, late, faults, lost>> /\ At(c, "prune")
  BY DEF PruneEvents, git
<1>2. run \in [Checkouts -> Hand] /\ run[c] \in Hand
  BY RunType DEF RefsInv, RefsTypeOK, Hand
<1>3. CASE Leave(c) /\ UNCHANGED events
  BY <1>1, <1>3, LeaveMoves, FaultsType DEF RefsInv
<1>4. CASE /\ events' = {e \in events : e.name # Name(c) \/ e.revision \notin run[c].doomed}
           /\ run' = [run EXCEPT ![c].pc = "reload", ![c].doomed = {}]
  <2>1. events' \subseteq events BY <1>4
  <2>2. RowsType' BY <1>1, <2>1 DEF RefsInv, RefsTypeOK, RowsType
  <2>3. \A n : RevisionOf(n)' = RevisionOf(n) /\ CursorOf(n)' = CursorOf(n)
    BY <1>1 DEF RevisionOf, CursorOf
  <2>4. \A n : TreeRoots(n)' \subseteq TreeRoots(n)
    BY <2>1, <2>3 DEF TreeRoots, EventTrees, EventsOf
  <2>5. \A d : Kept(d)' \subseteq Kept(d)
    BY <1>1, <2>1 DEF Kept
  <2>6. \A n \in Names : RowMoves(n)
    BY <1>1, <2>3, <2>4, RevisionType DEF RowMoves, RefsInv
  <2>7. RowsMove(c)
    BY <2>2, <2>5, <2>6 DEF RowsMove, RefsInv, RootsStayPinned, Protected
  <2>8. /\ run' \in [Checkouts -> Hand] /\ \A d \in Checkouts \ {c} : run'[d] = run[d]
        /\ run'[c].pc = "reload" /\ run'[c].pinned = run[c].pinned /\ run'[c].base = run[c].base
    BY <1>2, <1>4 DEF Hand, PassSteps
  <2>9. run[c].base <= RevisionOf(Name(c)) /\ run[c].pinned \subseteq Protected(c)
    BY <1>1 DEF RefsInv, Held, PassHeld, At, PassSteps
  <2>10. RevisionOf(Name(c))' = RevisionOf(Name(c)) BY <1>1, <2>3 DEF Name, RevisionOf
  <2>11. Held(c)'
    BY <1>1, <2>8, <2>9, <2>10
    DEF RefsInv, Held, BoundaryHeld, PassHeld, ViewHeld, LateHeld, At, PassSteps, Protected
  <2> QED BY <1>1, <2>7, <2>8, <2>11, DatabaseMoves
<1> QED BY <1>3, <1>4 DEF PruneEvents

-----------------------------------------------------------------------------
(* The environment.                                                        *)

\* Neither touches a clone one of whose checkouts is at work.
LEMMA CloneMoves ==
  ASSUME RefsInv, NEW k \in Clones, Quiet(k), UNCHANGED <<layout, rows, events, late, run>>,
         faults' \in 0..MaxFaults, objects' \in [Clones -> SUBSET Trees],
         \A j \in Clones \ {k} : objects'[j] = objects[j],
         pins' \in [Checkouts -> SUBSET Trees], lost' \in [Checkouts -> SUBSET Trees],
         \A c \in Checkouts : Protected(c) \subseteq Protected(c)' /\ pins'[c] \subseteq Present(c)'
  PROVE  RefsInv'
<1> USE DEF RefsInv
<1>1. RefsTypeOK' BY DEF RefsTypeOK
<1>2. \A c \in Checkouts : Kept(c)' = Kept(c) BY DEF Kept
<1>3. RootsStayPinned' BY <1>2 DEF RootsStayPinned, Protected
<1>4. ASSUME NEW c \in Checkouts PROVE Held(c)'
  <2>1. RowMoves(Name(c))
    BY RevisionType DEF RowMoves, RevisionOf, CursorOf, TreeRoots, EventTrees, EventsOf, Name
  <2>2. ~At(c, "idle") => Present(c) \subseteq Present(c)'
    BY LayoutType DEF Quiet, Siblings, Present, Clone
  <2>3. Undisturbed(c)
    BY <1>2, <2>1, <2>2 DEF Undisturbed, Held, LateHeld
  <2> QED BY <1>1, <2>3, HeldStands
<1> QED BY <1>1, <1>3, <1>4

LEMMA CollectKeeps == ASSUME RefsInv, NEW k \in Clones, Collect(k) PROVE RefsInv'
<1>1. UNCHANGED <<layout, rows, events, pins, late, faults, lost, run>> /\ Quiet(k)
  BY DEF Collect, durable
<1>2. PICK t \in objects[k] \ UNION {pins[c] : c \in Siblings(k)} : objects' = [objects EXCEPT ![k] = @ \ {t}]
  BY DEF Collect
<1>3. objects \in [Clones -> SUBSET Trees] /\ pins \in [Checkouts -> SUBSET Trees] /\ faults \in 0..MaxFaults
  BY DEF RefsInv, RefsTypeOK
<1>4. ASSUME NEW c \in Checkouts PROVE pins[c] \subseteq Present(c)'
  <2>1. pins[c] \subseteq objects[Clone(c)] /\ Clone(c) \in Clones /\ Clone(c)' = Clone(c)
    BY <1>1, LayoutType DEF RefsInv, RefsTypeOK, Present, Clone
  <2>2. Clone(c) = k => t \notin pins[c] BY <1>2 DEF Siblings
  <2> QED BY <1>2, <1>3, <2>1, <2>2 DEF Present
<1>5. \A c \in Checkouts : Protected(c)' = Protected(c) BY <1>1 DEF Protected
<1>6. lost \in [Checkouts -> SUBSET Trees] BY DEF RefsInv, RefsTypeOK
<1> QED BY <1>1, <1>2, <1>3, <1>4, <1>5, <1>6, CloneMoves

LEMMA AnewKeeps == ASSUME RefsInv, NEW k \in Clones, CloneAnew(k) PROVE RefsInv'
<1>1. /\ UNCHANGED <<layout, rows, events, late, run>> /\ Quiet(k)
      /\ pins' = [c \in Checkouts |-> IF Clone(c) = k THEN {} ELSE pins[c]]
      /\ lost' = [c \in Checkouts |-> IF Clone(c) = k THEN lost[c] \cup pins[c] ELSE lost[c]]
  BY DEF CloneAnew, durable
<1>2. PICK kept \in SUBSET objects[k] : objects' = [objects EXCEPT ![k] = kept]
  BY DEF CloneAnew
<1>3. objects \in [Clones -> SUBSET Trees] /\ pins \in [Checkouts -> SUBSET Trees]
      /\ lost \in [Checkouts -> SUBSET Trees]
  BY DEF RefsInv, RefsTypeOK
<1>4. faults' \in 0..MaxFaults
  BY FaultsBound DEF CloneAnew, Disturb, RefsInv, RefsTypeOK
<1>5. ASSUME NEW c \in Checkouts PROVE Protected(c) \subseteq Protected(c)' /\ pins'[c] \subseteq Present(c)'
  <2>1. pins[c] \subseteq objects[Clone(c)] /\ Clone(c) \in Clones /\ Clone(c)' = Clone(c)
    BY <1>1, LayoutType DEF RefsInv, RefsTypeOK, Present, Clone
  <2> QED BY <1>1, <1>2, <1>3, <2>1 DEF Protected, Present
<1>6. pins' \in [Checkouts -> SUBSET Trees] /\ lost' \in [Checkouts -> SUBSET Trees]
  BY <1>1, <1>3
<1> QED BY <1>1, <1>2, <1>3, <1>4, <1>5, <1>6, CloneMoves

-----------------------------------------------------------------------------
(* Theorems.                                                               *)

LEMMA InitHolds == ASSUME RefsInit PROVE RefsInv
<1> USE DEF RefsInit
<1>1. RefsTypeOK
  BY FaultsBound, RevisionsBound DEF RefsTypeOK, Idle, RootRow
<1>2. RootsStayPinned
  BY DEF RootsStayPinned, Kept
<1>3. ASSUME NEW c \in Checkouts PROVE Held(c)
  BY DEF Held, BoundaryHeld, PassHeld, ViewHeld, LateHeld, At, Idle, PassSteps
<1> QED BY <1>1, <1>2, <1>3 DEF RefsInv

LEMMA StepKeeps == ASSUME RefsInv, [RefsNext]_refsVars PROVE RefsInv'
<1>1. ASSUME NEW c \in Checkouts, Boundary(c) PROVE RefsInv'
  BY <1>1, CaptureKeeps, PinTreeKeeps, SnapshotKeeps, InitializeKeeps, LoadKeeps, CommitKeeps,
     ConflictKeeps DEF Boundary
<1>2. ASSUME NEW c \in Checkouts, Reconcile(c) PROVE RefsInv'
  BY <1>2, InventoryKeeps, AbsentKeeps, ChooseKeeps, PruneKeeps, ReloadKeeps, PinTreesKeeps,
     VerifyKeeps, LoadAllKeeps, DeleteKeeps, EndKeeps DEF Reconcile
<1>3. ASSUME NEW c \in Checkouts, Interrupt(c) PROVE RefsInv'
  BY <1>3, EndKeeps, CancelKeeps, KillKeeps, LateKeeps DEF Interrupt
<1>4. CASE UNCHANGED refsVars
  <2>1. UNCHANGED <<layout, rows, events, objects, pins, late, faults, lost, run>>
    BY <1>4 DEF refsVars, durable, git
  <2>2. RefsTypeOK' /\ RootsStayPinned'
    BY <2>1 DEF RefsInv, RefsTypeOK, RootsStayPinned, Kept, Present, Clone
  <2>3. ASSUME NEW c \in Checkouts PROVE Held(c)'
    BY <2>1, <2>2, HeldStands, RevisionType
    DEF RefsInv, Undisturbed, Protected, Kept, Present, Clone, LateHeld, Held, RowMoves,
        RevisionOf, CursorOf, TreeRoots, EventTrees, EventsOf, Name
  <2> QED BY <2>2, <2>3 DEF RefsInv
<1> QED BY <1>1, <1>2, <1>3, <1>4, CollectKeeps, AnewKeeps DEF RefsNext

LEMMA Invariance == RefsSpec => []RefsInv
<1>1. RefsInit => RefsInv BY InitHolds
<1>2. RefsInv /\ [RefsNext]_refsVars => RefsInv' BY StepKeeps
<1> QED BY <1>1, <1>2, PTL DEF RefsSpec

\* The state stays well formed: no ref is ever without its object, and no revision of a
\* row has two events, whatever is cancelled, killed or collected.
THEOREM TypeCorrect == RefsSpec => []RefsTypeOK
<1>1. RefsInv => RefsTypeOK BY DEF RefsInv
<1> QED BY <1>1, Invariance, PTL

\* A tree that a boundary committed stays pinned where it was captured for as long as a
\* row or an event names it; only a clone made anew, or a child of Git that outlives its
\* killed parent, takes it away.
THEOREM RootsArePinned == RefsSpec => []RootsStayPinned
<1>1. RefsInv => RootsStayPinned BY DEF RefsInv
<1> QED BY <1>1, Invariance, PTL

\* A pass that reports success leaves no root of its worktree unprotected, unless
\* another clone has committed meanwhile or a stray child has interfered.
THEOREM ReportIsTrue == RefsSpec => []ReportedPassIsWhole
<1>1. RefsInv => ReportedPassIsWhole
  BY DEF RefsInv, Held, ViewHeld, ReportedPassIsWhole, Protected, At
<1> QED BY <1>1, Invariance, PTL

\* A pass that prunes evidence, on a view of the row that was that of one revision, has
\* the tree of the current cursor.
THEOREM PruningIsSafe == RefsSpec => PruningCheckoutHasTheCursor
<1>1. ASSUME RefsInv, NEW c \in Checkouts, Prunes(c), run[c].base = run[c].revision
      PROVE  CursorOf(Name(c)) \subseteq Present(c)
  <2>1. At(c, "prune") /\ MayPrune(c)
    BY <1>1 DEF Prunes, PruneEvents
  <2>2. run[c].base = RevisionOf(Name(c))
    BY <1>1, <2>1 DEF MayPrune
  <2> QED BY <1>1, <2>1, <2>2 DEF RefsInv, Held, ViewHeld
<1>2. RefsInv /\ [RefsNext]_refsVars =>
        [\A c \in Checkouts :
           Prunes(c) /\ run[c].base = run[c].revision => CursorOf(Name(c)) \subseteq Present(c)]_refsVars
  BY <1>1
<1> QED BY <1>2, Invariance, PTL DEF RefsSpec, PruningCheckoutHasTheCursor

=============================================================================
