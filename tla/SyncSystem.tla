---------------------------- MODULE SyncSystem -----------------------------
(***************************************************************************)
(* The processes of one user that share the captured rows, the control     *)
(* plane and the stored credentials: runs of sce sync, which every commit  *)
(* may start, a run of sce auth login, and sce auth logout.  Who takes     *)
(* part is the layout, which never changes.                                *)
(***************************************************************************)
EXTENDS TraceSync, Login

CONSTANT Layouts   \* who may take part, in which streams, up to which row

ASSUME LayoutsAreSound ==
  \A l \in Layouts :
    /\ l.syncs \subseteq Processes \ {LoginProcess}
    /\ l.streams \subseteq Streams
    /\ l.last \in 0..MaxRow
    /\ l.login \in BOOLEAN

VARIABLE layout

vars == <<credentials, syncVars, login, layout>>

SystemTypeOK == SyncTypeOK /\ LoginTypeOK /\ layout \in Layouts

Increasing == {s \in BoundedSeq(Rows, MaxRow) : \A i, j \in DOMAIN s : i < j => s[i] < s[j]}

\* Earlier runs may have copied a part of what was captured.
Init ==
  /\ layout \in Layouts
  /\ CredentialsInit /\ LoginInit
  /\ rows \in [Streams -> Increasing]
  /\ copy \in [Streams -> Increasing]
  /\ \A s \in Streams :
       /\ IsPrefix(copy[s], rows[s])
       /\ \A i \in DOMAIN rows[s] : s \in layout.streams /\ rows[s][i] <= layout.last
  /\ late = {}
  /\ run = [p \in Processes |-> "off"]
  /\ work = [p \in Processes |-> [c \in Callers |-> Idle]]
  /\ terminated = [p \in Processes |-> FALSE]
  /\ base = [p \in Processes |-> [s \in Streams |-> 0]]

Next ==
  /\ \/ \E p \in layout.syncs : (SyncStep(p) \/ Kill(p)) /\ UNCHANGED login
     \/ layout.login /\ LoginNext /\ UNCHANGED syncVars
     \/ \E s \in layout.streams, r \in 1..layout.last : CaptureRow(s, r) /\ UNCHANGED login
     \/ \E m \in late : LateBatchArrives(m) /\ UNCHANGED login
     \/ TokensExpire /\ UNCHANGED login
  /\ UNCHANGED layout

Spec == Init /\ [][Next]_vars

-----------------------------------------------------------------------------
(* Every copy grows only by the rows that come next, each once, whatever is *)
(* lost or late, and however many processes upload the same rows: what the  *)
(* cursor check of a batch, the new cursor after a conflict or an unknown   *)
(* outcome, and reading the rows again after it are for.                    *)
Replica == INSTANCE Replication WITH log <- rows
ImplementsReplication == Replica!ReplicationSpec

(* A run that reports success has brought the control plane every row that  *)
(* was captured before it began, in every stream: a stream that another one *)
(* stopped early, or whose batch has an unknown outcome, is not a success.  *)
CompletedSyncIsCaughtUp ==
  \A p \in Processes : run[p] = "ok" => \A s \in Streams : base[p][s] <= Len(copy[s])

InHands ==
  {task[p].token : p \in {q \in Processes : task[q].at = "save"}} \cup
  {t \in {login.token} : LoginAt("save")}

Usable == stored = NoToken \/ (InHands \cup {stored}) \cap live # {}

(* While only runs of sync use the credentials, the stored token stays one  *)
(* that WorkOS will renew, or the one that will be stored next is: whoever  *)
(* gives up waiting, a timeout, a sibling that failed, another process that *)
(* refreshes the same token, leaves the refresh to finish and be saved.     *)
StoredTokenIsLive == ~layout.login /\ ~excused => Usable

(* The same with a login among the processes, as documented: the new token  *)
(* of a refresh is persisted by a unit that outlives its caller, and only a *)
(* crash or an ambiguous remote result can lose it.                         *)
RotationIsPersisted == ~excused => Usable
=============================================================================
