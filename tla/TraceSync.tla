----------------------------- MODULE TraceSync -----------------------------
(***************************************************************************)
(* sce sync: it copies the captured rows of a repository to the control    *)
(* plane, stream by stream.  A process asks once for the cursors of all    *)
(* streams, then runs one state machine for each stream, concurrently:     *)
(* read the rows after the cursor, send them with the cursor they follow,  *)
(* and advance by what the answer says.  On a conflict, or when nothing is *)
(* known about the batch, the cursor is asked for again and the rows are   *)
(* read again, a bounded number of times.  A stream that fails stops the   *)
(* others before their next batch.  Every commit starts such a process, so *)
(* several may run on the same rows.                                       *)
(*                                                                         *)
(* The control plane is external: it takes a batch only after the cursor   *)
(* it is at; a request or an answer may be lost, or arrive after its       *)
(* sender has given up.                                                    *)
(***************************************************************************)
EXTENDS Credentials, Sequences, SequencesExt

CONSTANTS
  Streams,      \* the streams a repository may have
  MaxRow,       \* bound on row ids
  BatchSize,    \* AGENT_TRACE_EXPORT_BATCH_SIZE
  MaxAttempts   \* RECONCILIATION_MAX_ATTEMPTS

ASSUME StreamsAreCallers == Streams \subseteq Callers \ {Main}
ASSUME BatchBound == BatchSize \in Nat \ {0}
ASSUME AttemptsBound == MaxAttempts \in Nat
ASSUME RowsBound == MaxRow \in Nat

VARIABLES
  rows,        \* by stream, the ids of the rows captured, in order
  copy,        \* by stream, the ids of the rows the control plane stored, in order
  late,        \* batches that have left their sender and may still arrive
  run,         \* by process, how far its run is
  work,        \* by process and caller, its state machine
  terminated,  \* by process, a stream has failed
  base         \* auxiliary: by process and stream, the rows captured before it started

data == <<rows, copy, late>>
syncVars == <<data, run, work, terminated, base>>

RunSteps == {"off", "state", "streams", "ok", "error", "killed"}
WorkSteps == {"idle", "read", "post", "state", "done", "failed"}
Rows == 1..MaxRow
Idle == [at |-> "idle", cursor |-> 0, batch |-> <<>>, attempts |-> 0]

SyncTypeOK ==
  /\ CredentialsTypeOK
  /\ rows \in [Streams -> Seq(Rows)] /\ copy \in [Streams -> Seq(Rows)]
  /\ late \subseteq [stream : Streams, expected : 0..MaxRow, batch : Seq(Rows)]
  /\ run \in [Processes -> RunSteps]
  /\ work \in [Processes -> [Callers ->
                 [at : WorkSteps, cursor : 0..MaxRow, batch : Seq(Rows),
                  attempts : 0..MaxAttempts]]]
  /\ terminated \in [Processes -> BOOLEAN]
  /\ base \in [Processes -> [Streams -> 0..MaxRow]]

-----------------------------------------------------------------------------
(* The control plane *)

CursorOf(s) == IF copy[s] = <<>> THEN 0 ELSE Last(copy[s])
Store(s, batch) == copy' = [copy EXCEPT ![s] = @ \o batch]

LateBatchArrives(m) ==
  /\ late' = late \ {m}
  /\ IF m.expected = CursorOf(m.stream) THEN Store(m.stream, m.batch) ELSE UNCHANGED copy
  /\ UNCHANGED <<credentials, rows, run, work, terminated, base>>

-----------------------------------------------------------------------------
(* One stream *)

Sending(p, c) == At(p, c, "send") \/ At(p, c, "sendAgain")
Working(p, c, step) == run[p] \in {"state", "streams"} /\ work[p][c].at = step
SetWork(p, c, w) == work' = [work EXCEPT ![p][c] = w]
InHand(p, s) == [stream |-> s, expected |-> work[p][s].cursor, batch |-> work[p][s].batch]

Fail(p, s) ==
  /\ SetWork(p, s, [Idle EXCEPT !.at = "failed"])
  /\ terminated' = [terminated EXCEPT ![p] = TRUE]

\* How many of the rows the cursor has behind it: they are the first ones.
Covered(s, cursor) == Cardinality({i \in DOMAIN rows[s] : rows[s][i] <= cursor})

\* Mutant of After: the row at the cursor is read again.
AfterInclusive(s, cursor) == SubSeq(rows[s], Covered(s, cursor - 1) + 1, Len(rows[s]))

\* The rows after the cursor, as many as a batch may have.
After(s, cursor) == SubSeq(rows[s], Covered(s, cursor) + 1, Len(rows[s]))
NextBatch(s, cursor) ==
  LET more == After(s, cursor)
  IN  SubSeq(more, 1, IF Len(more) < BatchSize THEN Len(more) ELSE BatchSize)

ReadRows(p, s) ==
  /\ Working(p, s, "read")
  /\ LET w == work[p][s]
         batch == NextBatch(s, w.cursor)
     IN  \/ /\ terminated[p] \/ batch = <<>>
            /\ SetWork(p, s, [w EXCEPT !.at = "done", !.attempts = 0])
            /\ UNCHANGED <<auth, terminated>>
         \/ /\ ~terminated[p] /\ batch # <<>>
            /\ SetWork(p, s, [w EXCEPT !.at = "post", !.batch = batch])
            /\ SetCall(p, s, "resolve", NoToken)
            /\ UNCHANGED terminated
         \/ ~terminated[p] /\ Fail(p, s) /\ UNCHANGED auth
  /\ UNCHANGED <<stored, live, expired, task, excused, data, run, base>>

\* The batch was stored, as a whole or in part.
Accepted(p, s) ==
  /\ Working(p, s, "post") /\ Sending(p, s)
  /\ LET w == work[p][s]
     IN  /\ w.cursor = CursorOf(s)
         /\ \E n \in 1..Len(w.batch) :
              /\ Store(s, SubSeq(w.batch, 1, n))
              /\ IF n = Len(w.batch)
                 THEN /\ SetWork(p, s, [Idle EXCEPT !.at = "read", !.cursor = Last(w.batch)])
                      /\ UNCHANGED terminated
                 ELSE Fail(p, s)
  /\ Hangup(p, s)
  /\ UNCHANGED <<stored, live, expired, task, excused, rows, late, run, base>>

Reconcile(p, s) ==
  LET w == work[p][s]
  IN  IF w.attempts + 1 > MaxAttempts
      THEN Fail(p, s) /\ Hangup(p, s)
      ELSE /\ SetWork(p, s, [w EXCEPT !.at = "state", !.batch = <<>>, !.attempts = @ + 1])
           /\ SetCall(p, s, "resolve", NoToken)
           /\ UNCHANGED terminated

Conflict(p, s) ==
  /\ Working(p, s, "post") /\ Sending(p, s)
  /\ work[p][s].cursor # CursorOf(s)
  /\ Reconcile(p, s)
  /\ UNCHANGED <<stored, live, expired, task, excused, data, run, base>>

\* Mutant of Ambiguous: a batch without an answer counts as accepted.
AmbiguousAccepted(p, s) ==
  /\ Working(p, s, "post") /\ Sending(p, s)
  /\ late = {} /\ late' = {InHand(p, s)}
  /\ SetWork(p, s, [Idle EXCEPT !.at = "read", !.cursor = Last(work[p][s].batch)])
  /\ Hangup(p, s)
  /\ UNCHANGED <<stored, live, expired, task, excused, rows, copy, run, terminated, base>>

\* A timeout, a broken connection, a 5xx or an answer that cannot be read: the batch was
\* stored, was not, or is still on its way.  A refresh may also have left its caller unsure.
Ambiguous(p, s) ==
  /\ Working(p, s, "post")
  /\ \/ Sending(p, s) /\ late = {} /\ late' = {InHand(p, s)} /\ UNCHANGED copy
     \/ /\ Sending(p, s) /\ work[p][s].cursor = CursorOf(s)
        /\ Store(s, work[p][s].batch) /\ UNCHANGED late
     \/ (Sending(p, s) \/ At(p, s, "unsure")) /\ UNCHANGED <<copy, late>>
  /\ Reconcile(p, s)
  /\ UNCHANGED <<stored, live, expired, task, excused, rows, run, base>>

\* No credentials, or the control plane refuses the batch for good.
Terminal(p, s) ==
  /\ Working(p, s, "post")
  /\ Sending(p, s) \/ At(p, s, "refused")
  /\ Fail(p, s) /\ Hangup(p, s)
  /\ UNCHANGED <<stored, live, expired, task, excused, data, run, base>>

RefreshCursor(p, s) ==
  /\ Working(p, s, "state") /\ Sending(p, s)
  /\ SetWork(p, s, [work[p][s] EXCEPT !.at = "read", !.cursor = CursorOf(s)])
  /\ Hangup(p, s)
  /\ UNCHANGED <<stored, live, expired, task, excused, data, run, terminated, base>>

\* The one attempt failed, or its minute passed, wherever it then was.
RefreshCursorFails(p, s) ==
  /\ Working(p, s, "state")
  /\ Fail(p, s) /\ Hangup(p, s)
  /\ UNCHANGED <<stored, live, expired, task, excused, data, run, base>>

StreamStep(p, s) ==
  \/ ReadRows(p, s) \/ Accepted(p, s) \/ Conflict(p, s) \/ Ambiguous(p, s)
  \/ Terminal(p, s) \/ RefreshCursor(p, s) \/ RefreshCursorFails(p, s)

-----------------------------------------------------------------------------
(* One process *)

\* base is for the runs that report success.
Forget(p) == base' = [base EXCEPT ![p] = [s \in Streams |-> 0]]

RunSync(p) ==
  /\ run[p] = "off"
  /\ run' = [run EXCEPT ![p] = "state"]
  /\ SetWork(p, Main, [Idle EXCEPT !.at = "state"])
  /\ SetCall(p, Main, "resolve", NoToken)
  /\ base' = [base EXCEPT ![p] = [s \in Streams |-> Len(rows[s])]]
  /\ UNCHANGED <<stored, live, expired, task, excused, data, terminated>>

StateAnswered(p) ==
  /\ Working(p, Main, "state") /\ Sending(p, Main)
  /\ run' = [run EXCEPT ![p] = "streams"]
  /\ work' = [work EXCEPT ![p] =
                [c \in Callers |->
                   IF c \in Streams
                   THEN [Idle EXCEPT !.at = "read", !.cursor = CursorOf(c)] ELSE Idle]]
  /\ Hangup(p, Main)
  /\ UNCHANGED <<stored, live, expired, task, excused, data, terminated, base>>

StateFails(p) ==
  /\ Working(p, Main, "state")
  /\ SetWork(p, Main, [Idle EXCEPT !.at = "failed"])
  /\ Hangup(p, Main)
  /\ UNCHANGED <<stored, live, expired, task, excused, data, run, terminated, base>>

Failed(p) == \E c \in Callers : work[p][c].at = "failed"

\* No future of the process is left.
Joined(p) == \A c \in Callers : work[p][c].at \in {"idle", "done", "failed"}

EndRun(p, result) ==
  /\ run' = [run EXCEPT ![p] = result]
  /\ work' = [work EXCEPT ![p] = [c \in Callers |-> Idle]]
  /\ terminated' = [terminated EXCEPT ![p] = FALSE]

\* Mutant of ReturnResult: the result is returned while a refresh may be running.
ReturnResultAtOnce(p) ==
  /\ run[p] \in {"state", "streams"} /\ Joined(p)
  /\ IF Failed(p) THEN EndRun(p, "error") /\ Forget(p) ELSE EndRun(p, "ok") /\ UNCHANGED base
  /\ ShutRuntimeDown(p)
  /\ UNCHANGED <<stored, expired, data>>

\* wait_for_pending_refresh takes the guard; then the result is returned.
ReturnResult(p) ==
  /\ run[p] \in {"state", "streams"} /\ Joined(p)
  /\ GuardFree(p)
  /\ IF Failed(p) THEN EndRun(p, "error") /\ Forget(p) ELSE EndRun(p, "ok") /\ UNCHANGED base
  /\ ShutRuntimeDown(p)
  /\ UNCHANGED <<stored, expired, data>>

\* A batch on its way may still arrive.
Kill(p) ==
  /\ run[p] \in {"state", "streams"}
  /\ EndRun(p, "killed") /\ Forget(p)
  /\ \/ UNCHANGED late
     \/ \E s \in Streams :
          /\ late = {} /\ Working(p, s, "post") /\ Sending(p, s)
          /\ late' = {InHand(p, s)}
  /\ CrashRuntime(p)
  /\ UNCHANGED <<stored, expired, rows, copy>>

SyncStep(p) ==
  \/ RunSync(p) \/ StateAnswered(p) \/ StateFails(p) \/ ReturnResult(p)
  \/ RefreshTask(p) /\ UNCHANGED syncVars
  \/ \E s \in Streams : StreamStep(p, s)
  \/ \E c \in Callers : ClientStep(p, c) /\ UNCHANGED syncVars

-----------------------------------------------------------------------------
(* The rest of the world *)

\* A hook inserts a row; ids only grow.
CaptureRow(s, r) ==
  /\ \A i \in DOMAIN rows[s] : rows[s][i] < r
  /\ rows' = [rows EXCEPT ![s] = Append(@, r)]
  /\ UNCHANGED <<credentials, copy, late, run, work, terminated, base>>

\* The last token the bound leaves does not expire, as it could not be renewed.
TokensExpire ==
  /\ expired < Newest /\ expired + 1 < MaxToken
  /\ expired' = expired + 1
  /\ UNCHANGED <<stored, live, auth, task, excused, syncVars>>
=============================================================================
