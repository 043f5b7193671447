------------------------------ MODULE Lineage ------------------------------
(***************************************************************************)
(* The line provenance that attribution carries forward through a sequence *)
(* of trees.  It never sees a file twice: it reads the files of one tree,  *)
(* and from there on only what the parser made of the output of git diff,  *)
(* hunks with their ranges and the lines they remove and add, without the  *)
(* lines of context.                                                       *)
(*                                                                         *)
(* A tree is a function from the paths it has to sequences of lines.  What *)
(* Git and the parser make of two trees is a function of them and of the   *)
(* user's Git configuration (renames, lines of context).                   *)
(***************************************************************************)
EXTENDS Integers, FiniteSets, Sequences, SequencesExt, FiniteSetsExt

CONSTANTS
  Paths,
  Texts,    \* what a line can say
  Dashed,   \* the lines that begin with "-- ": removed, they look like a header
  Scopes

NoPath == "none"
Elsewhere == "elsewhere"   \* a path that no baseline has

ASSUME DashedAreTexts == Dashed \subseteq Texts
ASSUME PathsAreNames == IsFiniteSet(Paths) /\ {NoPath, Elsewhere} \cap Paths = {}
ASSUME ScopesAreNames == {"nonAi", "unknown", "unobserved"} \cap Scopes = {}

Provenances == Scopes \cup {"nonAi", "unknown"}
Origins == Scopes \cup {"nonAi", "unobserved"}

AddedProvenance(origin) == IF origin = "unobserved" THEN "unknown" ELSE origin

FileAt(tree, path) == IF path \in DOMAIN tree THEN tree[path] ELSE <<>>

\* The elements of a finite set, each before those that it precedes.
InOrder(S, Precedes(_, _)) ==
  CHOOSE s \in [1 .. Cardinality(S) -> S] : \A i, j \in DOMAIN s : i < j => Precedes(s[i], s[j])

-----------------------------------------------------------------------------
(* What git diff shows and parse_patch reads.                              *)

Alignments(old, new) ==
  {m \in SUBSET {ij \in (DOMAIN old) \X (DOMAIN new) : old[ij[1]] = new[ij[2]]} :
     \A a, b \in m : a[1] < b[1] <=> a[2] < b[2]}

\* The pairs of lines that the diff of two files keeps: as many as possible.
Kept(old, new) ==
  LET alignments == Alignments(old, new)
      most == Max({Cardinality(m) : m \in alignments})
  IN CHOOSE m \in alignments : Cardinality(m) = most

\* The hunk between two kept pairs (or ends).  A removed line that looks like a
\* header ends it for the parser: it does not read that line nor what comes after.
HunkBetween(old, new, a, b) ==
  LET kept == Kept(old, new)
      removed == (a[1] + 1 .. b[1] - 1) \ {m[1] : m \in kept}
      added == (a[2] + 1 .. b[2] - 1) \ {m[2] : m \in kept}
      headers == {i \in removed : old[i] \in Dashed}
      Precedes(j, i) == \E m \in kept : j < m[2] /\ m[1] < i
  IN [old_start |-> IF b[1] = a[1] + 1 THEN a[1] ELSE a[1] + 1,
      old_count |-> b[1] - a[1] - 1,
      new_start |-> IF b[2] = a[2] + 1 THEN a[2] ELSE a[2] + 1,
      new_count |-> b[2] - a[2] - 1,
      removed |-> {<<i, old[i]>> : i \in {r \in removed : \A h \in headers : r < h}},
      added |-> {<<j, new[j]>> : j \in {n \in added : \A h \in headers : Precedes(n, h)}},
      changes |-> removed \cup added # {}]

\* Without lines of context every change is a hunk of its own; with context, which
\* no file here is long enough to outrun, one hunk covers the file.
Hunks(old, new, context) ==
  LET ends == {<<0, 0>>, <<Len(old) + 1, Len(new) + 1>>}
                \cup IF context THEN {} ELSE Kept(old, new)
      neighbours == {ab \in ends \X ends :
                       /\ ab[1][1] < ab[2][1]
                       /\ \A c \in ends : c[1] <= ab[1][1] \/ ab[2][1] <= c[1]}
      between == {HunkBetween(old, new, ab[1], ab[2]) : ab \in neighbours}
  IN InOrder({h \in between : h.changes}, LAMBDA g, h : g.old_start < h.old_start)

\* The paths of a change, old and new, as the parser reports them.  A modification
\* has no mode line, and the parser infers from its hunks whether it is one.
ParsedFile(before, after, p, q, context) ==
  LET old == FileAt(before, p)
      new == FileAt(after, q)
      hunks == Hunks(old, new, context)
      removed == DOMAIN old \ {m[1] : m \in Kept(old, new)}
      shown == IF \E i \in removed : old[i] \in Dashed THEN Elsewhere ELSE p
      modified == p = q /\ hunks # <<>>
      filled == modified /\ \A h \in ToSet(hunks) : h.old_start = 0 /\ h.old_count = 0
      emptied == modified /\ \A h \in ToSet(hunks) : h.new_start = 0 /\ h.new_count = 0
  IN [old_path |-> IF p = NoPath \/ filled THEN NoPath ELSE shown,
      new_path |-> IF emptied /\ ~filled THEN NoPath ELSE q,
      hunks |-> hunks]

\* A file that is gone and one that is new and shares lines with it are a rename.
Renamed(before, after) ==
  {pq \in (DOMAIN before \ DOMAIN after) \X (DOMAIN after \ DOMAIN before) :
     Kept(before[pq[1]], after[pq[2]]) # {}}

\* The pairs of paths a diff is made of.
ChangedPaths(before, after, config) ==
  LET renamed == IF config.renames /\ Renamed(before, after) # {}
                 THEN {CHOOSE pq \in Renamed(before, after) : TRUE} ELSE {}
      gone == (DOMAIN before \ DOMAIN after) \ {pq[1] : pq \in renamed}
      made == (DOMAIN after \ DOMAIN before) \ {pq[2] : pq \in renamed}
      both == {p \in DOMAIN before \cap DOMAIN after : before[p] # after[p]}
  IN renamed \cup {<<p, NoPath>> : p \in gone} \cup {<<NoPath, q>> : q \in made}
       \cup {<<p, p>> : p \in both}

\* Each change has paths of its own, so their order is of no account.
Diff(before, after, config) ==
  {ParsedFile(before, after, pq[1], pq[2], config.context) :
     pq \in ChangedPaths(before, after, config)}

-----------------------------------------------------------------------------
(* The lineage: by tracked path, its lines and where they came from.       *)

UnknownLines(file) == [n \in DOMAIN file |-> [content |-> file[n], provenance |-> "unknown"]]

FromBaseline(files) == [p \in DOMAIN files |-> UnknownLines(files[p])]

\* Mutant of CarriedFrom: one line too early.
ShiftedCarriedFrom(hunk) == IF hunk.old_start = 0 THEN 0 ELSE hunk.old_start - 1

\* How many of the old lines precede a hunk.
CarriedFrom(hunk) == IF hunk.old_count = 0 THEN hunk.old_start ELSE hunk.old_start - 1

RemovesTracked(old, hunk) ==
  \A r \in hunk.removed :
    /\ r[1] - hunk.old_start \in 0 .. hunk.old_count - 1
    /\ old[r[1]].content = r[2]

HunkFits(old, hunk, cursor) ==
  LET start == CarriedFrom(hunk)
  IN /\ cursor <= start /\ start + hunk.old_count <= Len(old)
     /\ Cardinality(hunk.removed) <= hunk.old_count
     /\ Cardinality(hunk.added) <= hunk.new_count
     /\ hunk.new_count - Cardinality(hunk.added) = hunk.old_count - Cardinality(hunk.removed)
     /\ RemovesTracked(old, hunk)
     /\ \A a \in hunk.added : a[1] - hunk.new_start \in 0 .. hunk.new_count - 1

\* The new region: the added lines where their numbers say, the lines that were not
\* removed in the places between.
ApplyHunk(old, hunk, origin) ==
  LET start == CarriedFrom(hunk)
      staying == (start + 1 .. start + hunk.old_count) \ {r[1] : r \in hunk.removed}
      carried == InOrder(staying, <)
      AddedAt(n) == {a \in hunk.added : a[1] = n}
      AddedBefore(n) == Cardinality({a \in hunk.added : a[1] < n})
      LineAt(k) ==
        LET n == hunk.new_start + k - 1
        IN IF AddedAt(n) # {}
           THEN [content |-> (CHOOSE a \in AddedAt(n) : TRUE)[2],
                 provenance |-> AddedProvenance(origin)]
           ELSE old[carried[k - AddedBefore(n)]]
  IN [k \in 1 .. hunk.new_count |-> LineAt(k)]

\* [ok, cursor, lines]: one hunk more of a file, behind the lines that precede it.
ApplyOneHunk(done, old, hunk, origin) ==
  IF ~done.ok \/ ~HunkFits(old, hunk, done.cursor) THEN [done EXCEPT !.ok = FALSE]
  ELSE [ok |-> TRUE, cursor |-> CarriedFrom(hunk) + hunk.old_count,
        lines |-> done.lines \o SubSeq(old, done.cursor + 1, CarriedFrom(hunk))
                    \o ApplyHunk(old, hunk, origin)]

\* [ok, lines]: the hunks of a file, in order, and the lines behind the last one.
ApplyHunks(old, hunks, origin) ==
  LET done[n \in 0 .. Len(hunks)] ==
        IF n = 0 THEN [ok |-> TRUE, cursor |-> 0, lines |-> <<>>]
        ELSE ApplyOneHunk(done[n - 1], old, hunks[n], origin)
      all == done[Len(hunks)]
  IN [ok |-> all.ok, lines |-> all.lines \o SubSeq(old, all.cursor + 1, Len(old))]

OldLines(files, file) ==
  IF file.old_path \in DOMAIN files THEN files[file.old_path] ELSE FileAt(files, file.new_path)

\* [ok, files]: one file more of a patch, unless one before it did not fit.
ApplyFile(done, file, origin) ==
  LET files == done.files
      tracked == {file.old_path, file.new_path} \cap DOMAIN files # {}
      new == ApplyHunks(OldLines(files, file), file.hunks, origin)
      paths == (DOMAIN files \ {file.old_path}) \cup ({file.new_path} \ {NoPath})
  IN IF ~done.ok \/ ~tracked THEN done
     ELSE [ok |-> new.ok,
           files |-> [p \in paths |-> IF p = file.new_path THEN new.lines ELSE files[p]]]

\* [ok, files]: a whole patch, up to the first file that does not fit.
Apply(files, patch, origin) ==
  LET order == SetToSeq(patch)
      done[n \in 0 .. Len(order)] ==
        IF n = 0 THEN [ok |-> TRUE, files |-> files]
        ELSE ApplyFile(done[n - 1], order[n], origin)
  IN done[Len(order)]

ProvenanceAt(files, path, n, content) ==
  IF n \in DOMAIN FileAt(files, path) /\ files[path][n].content = content
  THEN files[path][n].provenance ELSE "unknown"

-----------------------------------------------------------------------------
(* A reference: provenance carried along the kept lines of whole files.    *)

\* By path of the after tree, the provenance of each of its lines.
Carry(known, before, after, origin, config) ==
  LET changed == ChangedPaths(before, after, config)
      Source(q) == IF \E pq \in changed : pq[2] = q
                   THEN (CHOOSE pq \in changed : pq[2] = q)[1] ELSE q
      From(q, n) == {m[1] : m \in {k \in Kept(FileAt(before, Source(q)), after[q]) : k[2] = n}}
  IN [q \in DOMAIN after |->
        [n \in DOMAIN after[q] |->
           IF From(q, n) = {} THEN AddedProvenance(origin)
           ELSE known[Source(q)][CHOOSE i \in From(q, n) : TRUE]]]

\* [tree, lines]: the provenance carried on to a tree.
CarryTo(known, tree, origin, config) ==
  [tree |-> tree, lines |-> Carry(known.lines, known.tree, tree, origin, config)]

\* What a sequence of events, oldest first, and nothing else, says of a later tree.
Reference(rows, tree, config) ==
  LET start == rows[1].before
      after[n \in 0 .. Len(rows)] ==
        IF n = 0 THEN [tree |-> start, lines |-> [p \in DOMAIN start |->
                                                    [i \in DOMAIN start[p] |-> "unknown"]]]
        ELSE CarryTo(CarryTo(after[n - 1], rows[n].before, "unobserved", config),
                     rows[n].after, rows[n].origin, config)
  IN CarryTo(after[Len(rows)], tree, "unobserved", config).lines
=============================================================================
