--------------------------- MODULE MutationRuntime ---------------------------
(***************************************************************************)
(* The runtime around the store: a hook process takes the worktree lock,   *)
(* arms the external-taint marker, captures the worktree, drives the store *)
(* and clears the marker, in that order, and may fail or be killed at any  *)
(* point.  What it leaves behind is a released lock, the marker file and   *)
(* the database; the next process on the worktree starts from those.       *)
(*                                                                         *)
(* The worktree is edited all the while.  A captured tree is the number of *)
(* edits it contains, so that an edit always yields a tree not seen        *)
(* before.  Which scope made which edit is known to the model only.        *)
(*                                                                         *)
(* The harness behind a scope is modelled by what it may ask for and when: *)
(* its calls for one scope are sequential, and its tool runs only between  *)
(* a Start that succeeded and the call that closes or abandons the scope.  *)
(***************************************************************************)
EXTENDS MutationStore

CONSTANTS
  Calls,     \* what a hook process can be run for
  MaxEdits   \* bound on the edits of a worktree

HookCall == [op : {"Coordinate"}, worktree : Worktrees, boundary : HookBoundary, actor : Actors]
FlushCall ==
  UNION {[op : {"Coordinate"}, worktree : {w},
          boundary : [kind : {"Flush"}, worktree : {w}]] : w \in Worktrees}
Call == HookCall \cup FlushCall \cup AbandonJob

ASSUME KnownCalls == Calls \subseteq Call
ASSUME TreesAreVersions == MaxEdits \in Nat /\ Trees = 0..MaxEdits
\* The adapters name a delivery for its scope and for what it reports.
ASSUME StartsAreNamed ==
  \A a, b \in Calls \cap HookCall :
    a.boundary.kind = "Start" /\ Key(b.boundary) = Key(a.boundary) => b.boundary.kind = "Start"

VARIABLES
  holder,    \* by worktree, the processes that hold its lock
  marker,    \* worktrees whose external-taint marker file exists
  process,   \* by client, the call it serves and how far it is
  tree,      \* by worktree, its current contents
  author,    \* auxiliary: by worktree, who made each edit
  tool,      \* by scope, whether its tool is yet to run, may be running, or is over
  lost       \* auxiliary: worktrees where a guarded call ended unsettled

protection == <<holder, marker, process>>
world == <<tree, author, tool>>
runtimeVars == <<durableVars, client, protection, world, lost>>

Unserved == [phase |-> "idle"]
Somebody == Scopes \cup {"user"}

CallOf(c) == process[c].call
Serving(c, phase) == process[c].phase = phase
Reach(c, phase) == process' = [process EXCEPT ![c].phase = phase]

ScopesOf(call) ==
  IF call.op = "Abandon" THEN {call.scope}
  ELSE IF IsHook(call.boundary) THEN {call.boundary.scope} ELSE {}

StartedBy(call) ==
  IF call.op = "Coordinate" /\ call.boundary.kind = "Start" THEN ScopesOf(call) ELSE {}
EndedBy(call) ==
  IF call.op = "Abandon" \/ call.boundary.kind = "Close" THEN ScopesOf(call) ELSE {}

RuntimeInit ==
  /\ StoreInit
  /\ holder = [w \in Worktrees |-> {}]
  /\ marker = {}
  /\ process = [c \in Clients |-> Unserved]
  /\ tree = [w \in Worktrees |-> 0]
  /\ author = [w \in Worktrees |-> [v \in {} |-> "user"]]
  /\ tool = [s \in Scopes |-> "new"]
  /\ lost = {}

-----------------------------------------------------------------------------
(* The world: edits, and the calls of the harnesses.                       *)

\* Anybody edits the worktree, or a tool that may be running on it does.
Edit(w, by) ==
  /\ by # "user" => tool[by] = "running" /\ scopes[by].worktree = w
  /\ tree[w] < MaxEdits
  /\ tree' = [tree EXCEPT ![w] = @ + 1]
  /\ author' = [author EXCEPT ![w] = Put(@, tree'[w], by)]
  /\ UNCHANGED <<durableVars, client, protection, tool, lost>>

\* The calls for a scope follow one another.  Its tool is over before the scope
\* is closed or abandoned, and a scope that is over is not started again.
Invoke(c, call) ==
  /\ Serving(c, "idle")
  /\ \A d \in Clients : ~Serving(d, "idle") => ScopesOf(CallOf(d)) \cap ScopesOf(call) = {}
  /\ \A s \in StartedBy(call) : tool[s] = "new"
  /\ process' = [process EXCEPT ![c] = [phase |-> "waiting", call |-> call, inherited |-> FALSE]]
  /\ tool' = [s \in Scopes |-> IF s \in EndedBy(call) THEN "over" ELSE tool[s]]
  /\ UNCHANGED <<durableVars, client, holder, marker, tree, author, lost>>

-----------------------------------------------------------------------------
(* Lock and marker.                                                        *)

\* Mutant of AcquireLock: the lock does not exclude.
ShareLock(c) ==
  /\ Serving(c, "waiting")
  /\ holder' = [holder EXCEPT ![CallOf(c).worktree] = @ \cup {c}]
  /\ Reach(c, "locked")
  /\ UNCHANGED <<durableVars, client, marker, world, lost>>

AcquireLock(c) ==
  /\ Serving(c, "waiting")
  /\ holder[CallOf(c).worktree] = {}
  /\ holder' = [holder EXCEPT ![CallOf(c).worktree] = {c}]
  /\ Reach(c, "locked")
  /\ UNCHANGED <<durableVars, client, marker, world, lost>>

\* The end of a process: the lock goes with its last descriptor.
Exit(c) ==
  /\ process' = [process EXCEPT ![c] = Unserved]
  /\ holder' = [w \in Worktrees |-> holder[w] \ {c}]
  /\ client' = [client EXCEPT ![c] = Idle]

\* Mutant of LockTimeout: no deadline.
NoTimeout(c) == FALSE /\ Exit(c)

\* Ten seconds of contention: the call fails before anything was armed.
LockTimeout(c) ==
  /\ Serving(c, "waiting")
  /\ holder[CallOf(c).worktree] # {}
  /\ Exit(c)
  /\ UNCHANGED <<durableVars, marker, world, lost>>

\* Mutant of ArmMarker: a marker found is not remembered.
ArmMarkerAnew(c) ==
  /\ Serving(c, "locked")
  /\ Reach(c, "armed")
  /\ marker' = marker \cup {CallOf(c).worktree}
  /\ UNCHANGED <<durableVars, client, holder, world, lost>>

ArmMarker(c) ==
  LET w == CallOf(c).worktree
  IN  /\ Serving(c, "locked")
      /\ process' = [process EXCEPT ![c].phase = "armed", ![c].inherited = w \in marker]
      /\ marker' = marker \cup {w}
      /\ UNCHANGED <<durableVars, client, holder, world, lost>>

\* Inspecting fails, or persisting does, with or without the file created.
ArmFails(c) ==
  /\ Serving(c, "locked")
  /\ marker' \in {marker, marker \cup {CallOf(c).worktree}}
  /\ Exit(c)
  /\ UNCHANGED <<durableVars, world, lost>>

\* Whether the effect of a call, or of one like it, is durable.
Settled(call) ==
  IF call.op = "Abandon"
  THEN call.scope \in DOMAIN scopes /\ scopes[call.scope].status \in {"Closed", "Abandoned"}
  ELSE IsHook(call.boundary) /\ Key(call.boundary) \in processedEvents

LoseUnsettled(c) ==
  lost' = IF Settled(CallOf(c)) THEN lost ELSE lost \cup {CallOf(c).worktree}

\* A guarded process is killed, or returns an error or RecoveryRequired: the
\* marker stays.
LeaveArmed(c) ==
  /\ Exit(c)
  /\ LoseUnsettled(c)
  /\ UNCHANGED <<durableVars, marker, world>>

Killed(c) ==
  \/ Serving(c, "armed") /\ LeaveArmed(c)
  \/ Serving(c, "storing") /\ LeaveArmed(c)
  \/ Serving(c, "locked") /\ Exit(c) /\ UNCHANGED <<durableVars, marker, world, lost>>

-----------------------------------------------------------------------------
(* The guarded work.                                                       *)

\* The database cannot be opened.
OpenFails(c) == Serving(c, "armed") /\ LeaveArmed(c)

JobOf(call, captured) ==
  IF call.op = "Abandon" THEN call
  ELSE IF IsHook(call.boundary)
  THEN [op |-> "Coordinate", worktree |-> call.worktree, boundary |-> call.boundary,
        actor |-> call.actor, tree |-> captured]
  ELSE [op |-> "Coordinate", worktree |-> call.worktree, boundary |-> call.boundary,
        tree |-> captured]

\* The worktree is captured, and the store starts from that capture.
Capture(c) ==
  LET call == CallOf(c)
  IN  /\ Serving(c, "armed")
      /\ call.op = "Coordinate"
      /\ Begin(c, JobOf(call, tree[call.worktree]), process[c].inherited)
      /\ Reach(c, "storing")
      /\ UNCHANGED <<holder, marker, world, lost>>

\* A capture or a pin fails: the store is told, the call fails in any case.
CaptureFails(c) ==
  LET call == CallOf(c)
  IN  /\ Serving(c, "armed")
      /\ call.op = "Coordinate"
      /\ Begin(c, [op |-> "Taint", worktree |-> call.worktree], FALSE)
      /\ Reach(c, "storing")
      /\ UNCHANGED <<holder, marker, world, lost>>

\* An abandonment captures nothing and so cannot recover a lost interval.
RefuseAbandon(c) ==
  /\ Serving(c, "armed")
  /\ CallOf(c).op = "Abandon"
  /\ process[c].inherited
  /\ LeaveArmed(c)

BeginAbandon(c) ==
  /\ Serving(c, "armed")
  /\ CallOf(c).op = "Abandon"
  /\ ~process[c].inherited
  /\ Begin(c, JobOf(CallOf(c), 0), FALSE)
  /\ Reach(c, "storing")
  /\ UNCHANGED <<holder, marker, world, lost>>

\* One statement of the store, or one that fails.
StoreWork(c) ==
  /\ Serving(c, "storing")
  /\ StoreStep(c) \/ FailStatement(c)
  /\ lost' = IF At(c, "recover") /\ worktrees' # worktrees
             THEN lost \ {CallOf(c).worktree} ELSE lost
  /\ UNCHANGED <<protection, world>>

WorkFails(c) ==
  /\ Serving(c, "storing")
  /\ client[c].pc \in {"error", "recoveryRequired"}
  /\ LeaveArmed(c)

\* The marker is removed under the lock.  A removal that fails is reported as
\* the success it is; the marker then makes the next call recover for nothing.
Complete(c) ==
  LET call == CallOf(c)
  IN  /\ Serving(c, "storing")
      /\ At(c, "ok")
      /\ marker' \in {marker, marker \ {call.worktree}}
      /\ Exit(c)
      /\ tool' = [s \in Scopes |-> IF s \in StartedBy(call) THEN "running" ELSE tool[s]]
      /\ UNCHANGED <<durableVars, tree, author, lost>>

ProcessStep(c) ==
  \/ AcquireLock(c) \/ LockTimeout(c)
  \/ ArmMarker(c) \/ ArmFails(c)
  \/ OpenFails(c) \/ Capture(c) \/ CaptureFails(c) \/ RefuseAbandon(c) \/ BeginAbandon(c)
  \/ StoreWork(c) \/ WorkFails(c) \/ Complete(c)

RuntimeNext ==
  \/ \E c \in Clients :
       \/ \E call \in Calls : Invoke(c, call)
       \/ ProcessStep(c)
       \/ Killed(c)
  \/ \E w \in Worktrees, by \in Somebody : Edit(w, by)

RuntimeSpec == RuntimeInit /\ [][RuntimeNext]_runtimeVars

-----------------------------------------------------------------------------
(* Properties.                                                             *)

\* A guarded call that ended without its effect leaves its worktree marked,
\* and no later call (a replay, an abandonment of a scope that has ended, a
\* boundary that changes nothing) removes the mark before a recovery.
LostIsCovered == lost \subseteq marker

\* As long as an interval is lost no evidence of the worktree is recorded,
\* and the recovery that ends that time leaves no scope live: nothing that
\* was under way during the lost interval is ever credited with its changes.
LostEndsInRecovery ==
  [][\A w \in lost :
       /\ \A e \in mutationEvents' \ mutationEvents : e.worktree # w
       /\ w \notin lost' => LiveScopesOn(scopes', w) = {}]_runtimeVars

\* Captures are committed in the order in which they were made.  The revision
\* guard does not give this, for a capture precedes the load it is guarded
\* by: the lock does, held from before the capture until after the commit.
EvidenceRunsForward == \A e \in mutationEvents : e.before < e.after

\* The harm the cursor is there to prevent: an interval credited to one scope
\* alone contains no edit by the tool of another.  The scopes that a recovery
\* ended are the exception: their tools may go on unobserved.
EditorsOf(e) == {author[e.worktree][v] : v \in (e.before + 1)..e.after}
EndedByRecovery(w) ==
  UNION {history[w][r - 1].live \ history[w][r].live :
           r \in {k \in DOMAIN history[w] : history[w][k].step = "Recover"}}
ExclusiveMeansAlone ==
  \A e \in mutationEvents : e.attribution.kind = "AiExclusive" =>
    EditorsOf(e) \subseteq {"user", e.attribution.scope} \cup EndedByRecovery(e.worktree)
=============================================================================
