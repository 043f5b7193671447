---------------------------- MODULE Replication ----------------------------
(***************************************************************************)
(* What synchronization promises: the control plane holds a copy of every  *)
(* stream, and the copy only ever grows by the rows that come next, in     *)
(* their order, each once.  Rows are named by their ids, which grow.       *)
(***************************************************************************)
EXTENDS Integers, Sequences

CONSTANTS Streams, MaxRow

VARIABLES
  log,   \* by stream, the ids of the rows captured, in order
  copy   \* by stream, the ids of the rows the control plane has

Rows == 1..MaxRow
IsIncreasing(s) == \A i, j \in DOMAIN s : i < j => s[i] < s[j]
Newer(s, r) == \A i \in DOMAIN s : s[i] < r
CopiedUpTo(s, n) == copy[s] = SubSeq(log[s], 1, n)

\* An earlier synchronization may have copied part of what was captured before.
ReplicationInit ==
  /\ log \in [Streams -> Seq(Rows)]
  /\ \A s \in Streams : IsIncreasing(log[s]) /\ \E n \in 0..Len(log[s]) : CopiedUpTo(s, n)

Capture(s, r) ==
  /\ Newer(log[s], r)
  /\ log' = [log EXCEPT ![s] = Append(@, r)]
  /\ UNCHANGED copy

Extend(s, n) ==
  /\ n \in Len(copy[s])+1..Len(log[s])
  /\ copy' = [copy EXCEPT ![s] = SubSeq(log[s], 1, n)]
  /\ UNCHANGED log

ReplicationNext ==
  \E s \in Streams :
    \/ \E r \in Rows : Capture(s, r)
    \/ \E n \in 1..Len(log[s]) : Extend(s, n)

ReplicationSpec == ReplicationInit /\ [][ReplicationNext]_<<log, copy>>
=============================================================================
