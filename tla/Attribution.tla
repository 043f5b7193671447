---------------------------- MODULE Attribution ----------------------------
(***************************************************************************)
(* Which lines of a commit the mutation history gives to an agent.  A      *)
(* post-commit hook takes the worktree lock for one read, the revision cut,*)
(* and then pages through the recorded events without any lock, newest     *)
(* first, while boundaries record more of them, objects get lost and the   *)
(* doctor prunes events.  What it has loaded it replays, oldest first,     *)
(* over the lineage of the committed files; a tree that cannot be read, or *)
(* a diff that does not fit, starts the lineage anew from what can be read.*)
(*                                                                         *)
(* One action is one query, or the replay of one event.  What a boundary   *)
(* decides is left open (MutationKernel has it): it moves the cursor with  *)
(* an exclusive event, with another event, or, in a recovery, without one. *)
(* Credit is decided line by line, so every line of the committed files    *)
(* stands for one that the commit added and direct evidence did not cover. *)
(***************************************************************************)
EXTENDS Lineage

CONSTANTS
  Trees,
  Targets,          \* the sets of files that a commit may be asked about
  Configs,          \* Git's configuration: [renames, context : BOOLEAN]
  MaxEvents,        \* MAX_MUTATION_ATTRIBUTION_EVENTS
  PageSize,         \* MUTATION_ATTRIBUTION_PAGE_SIZE
  MaxMoves,         \* bound on the movements of the cursor
  MaxFaults         \* bound on lost trees and failed calls

ASSUME TreesAreTrees == \A t \in Trees : DOMAIN t \subseteq Paths /\ \A p \in DOMAIN t : t[p] \in Seq(Texts)
ASSUME TargetsArePaths == Targets \subseteq (SUBSET Paths) \ {{}}
ASSUME ConfigsAreFlags == Configs \subseteq [renames : BOOLEAN, context : BOOLEAN]
ASSUME PagesArePositive == MaxEvents \in Nat \ {0} /\ PageSize \in Nat \ {0}
ASSUME AttributionBounds == MaxMoves \in Nat /\ MaxFaults \in Nat

VARIABLES
  config,   \* never changes
  cursor,   \* the tree of the worktree's row
  moves,    \* auxiliary: by revision, how the cursor moved; a row keeps this of its event
  stored,   \* the revisions whose event is in the database
  missing,  \* trees whose objects are lost
  faults,   \* the faults so far
  hook      \* the post-commit hook

vars == <<config, cursor, moves, stored, missing, faults, hook>>

\* rows: the revisions loaded, newest first; left: those to be replayed, oldest first;
\* tree: the tree the lineage has reached.
Idle ==
  [pc |-> "idle", paths |-> {}, cut |-> 0, below |-> 0, rows |-> <<>>, left |-> <<>>,
   lineage |-> [p \in {} |-> <<>>], commit |-> cursor, tree |-> cursor]

Init ==
  /\ config \in Configs /\ cursor \in Trees
  /\ moves = <<>> /\ stored = {} /\ missing = {} /\ faults = 0
  /\ hook = Idle

-----------------------------------------------------------------------------
(* What goes on in the worktree and its database.                          *)

\* A boundary that found the worktree changed; a recovery records no event.  What is
\* recorded once the window is loaded is left out: nothing reads it any more.
Boundary ==
  /\ Len(moves) < MaxMoves /\ hook.pc \in {"idle", "cut", "page"}
  /\ \E t \in Trees \ {cursor}, origin \in Origins :
       /\ moves' = Append(moves, [before |-> cursor, after |-> t, origin |-> origin])
       /\ cursor' = t
       /\ stored' = IF origin = "unobserved" THEN stored ELSE stored \cup {Len(moves')}
       /\ missing' = missing \ {t}
  /\ UNCHANGED <<config, faults, hook>>

\* Objects that nothing but a lost pin kept are collected.
LoseTree ==
  /\ faults < MaxFaults /\ hook.pc # "done"
  /\ \E t \in Trees \ {cursor} :
       /\ hook.pc # "idle" => t # hook.commit
       /\ \E r \in stored : t \in {moves[r].before, moves[r].after}
       /\ missing' = missing \cup {t}
  /\ faults' = faults + 1
  /\ UNCHANGED <<config, cursor, moves, stored, hook>>

\* The doctor deletes the events whose trees are lost, in one transaction.
Prune ==
  LET lost == {r \in stored : {moves[r].before, moves[r].after} \cap missing # {}}
  IN /\ lost # {} /\ hook.pc \in {"idle", "cut", "page"}
     /\ stored' = stored \ lost
     /\ UNCHANGED <<config, cursor, moves, missing, faults, hook>>

Commit ==
  /\ hook.pc = "idle"
  /\ \E t \in Trees \ missing, paths \in Targets :
       hook' = [hook EXCEPT !.pc = "cut", !.commit = t, !.paths = paths]
  /\ UNCHANGED <<config, cursor, moves, stored, missing, faults>>

-----------------------------------------------------------------------------
(* The hook: the cut, the pages, the replay.                               *)

Unchanged == UNCHANGED <<config, cursor, moves, stored, missing>>

Fails == faults < MaxFaults /\ faults' = faults + 1

\* The revision of the latest event, read under the worktree lock.
CaptureRevisionCut ==
  /\ hook.pc = "cut"
  /\ hook' = IF stored = {} THEN [hook EXCEPT !.pc = "done"]
             ELSE [hook EXCEPT !.pc = "page", !.cut = Max(stored), !.below = Max(stored) + 1]
  /\ UNCHANGED faults /\ Unchanged

\* The lock is not free in time, or the query fails: there is no result.
CutFails ==
  /\ hook.pc = "cut" /\ Fails
  /\ hook' = [hook EXCEPT !.pc = "done"]
  /\ Unchanged

Descending(revisions) == InOrder(revisions, >)

\* The newest events below a revision, at most so many.
Page(below, limit) ==
  LET rows == Descending({r \in stored : r < below})
  IN SubSeq(rows, 1, Min({limit, Len(rows)}))

\* Mutant of NextBelow: the page that follows starts one revision too far down.
SkippingBelow(page) == Last(page) - 1

NextBelow(page) == Last(page)

\* The window is complete: its oldest event is replayed first.
Close(rows) ==
  [hook EXCEPT !.pc = IF rows = <<>> THEN "done" ELSE "baseline",
               !.rows = rows, !.left = Reverse(rows)]

LoadPage ==
  /\ hook.pc = "page"
  /\ LET want == Min({PageSize, MaxEvents - Len(hook.rows)})
         page == Page(hook.below, want)
         rows == hook.rows \o page
     IN hook' = IF Len(page) < want \/ Len(rows) >= MaxEvents THEN Close(rows)
                ELSE [hook EXCEPT !.rows = rows, !.below = NextBelow(page)]
  /\ UNCHANGED faults /\ Unchanged

\* The window ends with what was loaded before.
LoadPageFails ==
  /\ hook.pc = "page" /\ Fails
  /\ hook' = Close(hook.rows)
  /\ Unchanged

\* The committed files at a tree; one that cannot be read counts as absent.
Baseline(tree, unread) ==
  FromBaseline([p \in hook.paths |->
                  IF tree \in missing \/ p \in unread THEN <<>> ELSE FileAt(tree, p)])

\* Reads of files and of a diff that fail although the objects are there.
Reads(unread, broken) ==
  IF unread = {} /\ ~broken THEN UNCHANGED faults ELSE Fails

LoadBaseline ==
  /\ hook.pc = "baseline"
  /\ \E unread \in SUBSET hook.paths :
       LET tree == moves[Head(hook.left)].before
       IN /\ Reads(unread, FALSE)
          /\ hook' = [hook EXCEPT !.pc = "replay", !.tree = tree,
                                  !.lineage = Baseline(tree, unread)]
  /\ Unchanged

\* A table, so that no diff is computed twice.
DiffTrees == [c \in Configs |-> [ab \in Trees \X Trees |-> Diff(ab[1], ab[2], c)]]

\* The patch between two trees, applied, or else a new start from the second.
ApplyOrReset(lineage, before, after, origin, unread, broken) ==
  LET applied == Apply(lineage, DiffTrees[config][<<before, after>>], origin)
  IN IF broken \/ {before, after} \cap missing # {} \/ ~applied.ok
     THEN Baseline(after, unread) ELSE applied.files

\* A row says who its event is exclusive to, if it is to anyone.
TransitionOrigin(row) == IF row.origin \in Scopes THEN row.origin ELSE "nonAi"

\* Where the cursor moved without an event, nothing older is believed.
AcrossGap(row, unread) ==
  IF row.before = hook.tree THEN hook.lineage ELSE Baseline(row.before, unread)

ReplayEvent ==
  /\ hook.pc = "replay" /\ hook.left # <<>>
  /\ \E unread \in SUBSET hook.paths, broken \in BOOLEAN :
       LET row == moves[Head(hook.left)]
       IN /\ Reads(unread, broken)
          /\ hook' = [hook EXCEPT !.left = Tail(@), !.tree = row.after,
                        !.lineage = ApplyOrReset(AcrossGap(row, unread), row.before, row.after,
                                                 TransitionOrigin(row), unread, broken)]
  /\ Unchanged

\* Mutant of TailOrigin: the tail is taken for a part of the last event.
LastOrigin(rows) == TransitionOrigin(moves[Head(rows)])

TailOrigin(rows) == "unobserved"

ReplayTail ==
  /\ hook.pc = "replay" /\ hook.left = <<>>
  /\ \E unread \in SUBSET hook.paths, broken \in BOOLEAN :
       /\ Reads(unread, broken)
       /\ hook' = [hook EXCEPT !.pc = "done", !.tree = hook.commit,
                     !.lineage = IF hook.tree = hook.commit THEN @
                                 ELSE ApplyOrReset(@, hook.tree, hook.commit,
                                                   TailOrigin(hook.rows), unread, broken)]
  /\ Unchanged

Next ==
  \/ Boundary \/ LoseTree \/ Prune \/ Commit
  \/ CaptureRevisionCut \/ CutFails \/ LoadPage \/ LoadPageFails
  \/ LoadBaseline \/ ReplayEvent \/ ReplayTail

Spec == Init /\ [][Next]_vars

-----------------------------------------------------------------------------
(* Properties.                                                             *)

\* While pages are loaded without a lock, events are recorded and pruned.  The window
\* has no event of after the cut, and misses none that is still stored and newer than
\* its oldest: the traversal neither skips nor repeats an event (load_event_window).
WindowIsWhole ==
  LET rows == hook.rows
  IN /\ \A i \in DOMAIN rows : rows[i] <= hook.cut
     /\ \A i, j \in DOMAIN rows : i < j => rows[i] > rows[j]
     /\ Len(rows) <= MaxEvents
     /\ rows # <<>> =>
          \A r \in stored : Last(rows) <= r /\ r <= hook.cut => r \in ToSet(rows)

Contents(lines) == [n \in DOMAIN lines |-> lines[n].content]

\* The lineage is rebuilt from ranges and changed lines alone (apply_hunks), yet each
\* file it tracks says what that file says in the tree it has reached, or the beginning
\* of it, after a failed read or where a rename brought in a file that it did not track
\* (one that was deleted and came back): what is carried is carried to the right line.
LineageFollowsTree ==
  hook.pc \in {"replay", "done"} =>
    \A p \in DOMAIN hook.lineage :
      LET lines == Contents(hook.lineage[p])
          file == FileAt(hook.tree, p)
      IN IF faults = 0 /\ ~config.renames THEN lines = file ELSE IsPrefix(lines, file)

\* What was or could be read of the history up to the cut.
Retained == ToSet(hook.rows) \cup {r \in stored : r <= hook.cut}

Rows(revisions) ==
  LET inOrder == InOrder(revisions, <)
  IN [k \in DOMAIN inOrder |-> moves[inOrder[k]]]

\* Who the hook says wrote a line of the commit.
Verdict(p, n) == ProvenanceAt(hook.lineage, p, n, hook.commit[p][n])

CommittedLines ==
  {pn \in hook.paths \X (1 .. Max({0} \cup {Len(hook.commit[p]) : p \in DOMAIN hook.commit})) :
     pn[2] \in DOMAIN FileAt(hook.commit, pn[1])}

\* A line of the commit that is given to an agent, or to nobody, was written so
\* according to all of the history that is there: a short window, a failed query, a
\* lost tree or a gap may cost credit and never makes any (resolve_bounded_mutation_
\* attribution against a reference that follows the kept lines of whole files).
CreditIsEarned ==
  hook.pc = "done" =>
    LET known == {pn \in CommittedLines : Verdict(pn[1], pn[2]) # "unknown"}
        written == Reference(Rows(Retained), hook.commit, config)
    IN \A pn \in known : written[pn[1]][pn[2]] = Verdict(pn[1], pn[2])

TextsOf(tree) == UNION {ToSet(tree[p]) : p \in DOMAIN tree}

\* A line that is given to an agent has been in every tree since an event of that
\* agent: "Once a later transition removes a line an event introduced, that event's
\* provenance is dead and no older event can resurrect it"
\* (context/cli/mutation-trace-agent-attribution.md).
RemovedLineStaysDead ==
  hook.pc = "done" =>
    \A pn \in CommittedLines :
      LET text == hook.commit[pn[1]][pn[2]]
          rows == Rows(ToSet(hook.rows))
      IN Verdict(pn[1], pn[2]) \in Scopes =>
           \E k \in DOMAIN rows :
             /\ rows[k].origin = Verdict(pn[1], pn[2])
             /\ \A i \in k .. Len(rows) :
                  text \in TextsOf(rows[i].after) /\ (i > k => text \in TextsOf(rows[i].before))
=============================================================================
