--------------------------- MODULE MutationAdapter --------------------------
(***************************************************************************)
(* The Claude Code adapter of one checkout.  Every hook event and every    *)
(* repair by the doctor is a short-lived process; what one leaves for the  *)
(* next is a state file: the attempts, that is the scopes the adapter has  *)
(* asked for and not yet settled, and the recovery barrier.  A transaction *)
(* on the file holds the state lock from its read to the rename that ends  *)
(* it, and is one step here; the lock is never held across a call of the   *)
(* runtime, so that hooks interleave between their transactions and calls. *)
(*                                                                         *)
(* A call of the runtime is one step as well, for the worktree lock is     *)
(* held throughout; of the worktree the adapter depends only on the status *)
(* of its scopes and on the external-taint marker, which decides whether   *)
(* the next boundary ends them.  MutationRuntime is the detail behind.     *)
(*                                                                         *)
(* A tool execution is named by its attempt key (session, agent, tool use) *)
(* and a scope by the sequence number that its identity contains.  Events  *)
(* of tools that are not tracked change nothing and are left out.          *)
(***************************************************************************)
EXTENDS Integers, FiniteSets

CONSTANTS
  Tools,     \* attempt keys
  Cleanups,  \* the sets of keys that one event retires: a main thread's, an agent's, ...
  Kinds,     \* the events delivered
  Hooks,     \* hook processes that may run at the same time
  MaxSeq     \* bound on the scopes ever allocated

ToolEvent == {"PreToolUse", "PostToolUse", "PermissionDenied"}

ASSUME CleanupsAreKeys == Cleanups \subseteq SUBSET Tools
ASSUME KnownKinds == Kinds \subseteq ToolEvent \cup {"Cleanup", "Repair"}
ASSUME SeqBound == MaxSeq \in Nat \ {0}

VARIABLES
  nextSeq,   \* next_attempt_seq
  pending,   \* recovery_pending
  attempts,  \* by scope, the key and the phase of its attempt
  hook,      \* by process, the event it serves, its next step and the scopes it has in hand
  tool,      \* by key, whether Claude runs the tool
  status,    \* by scope, its status in the runtime
  marker,    \* the external-taint marker: an interval may be lost
  overtaken  \* auxiliary: whether a cleanup has overtaken a hook of a tool it retires

file == <<nextSeq, pending, attempts>>
runtime == <<status, marker>>
adapterVars == <<file, hook, tool, runtime, overtaken>>

Scopes == 1..MaxSeq
AttemptPhase == {"PendingStart", "Active", "PendingAbandon"}
AdapterAttempt == [tool : Tools, phase : AttemptPhase]

Event ==
  [kind : Kinds \cap ToolEvent, tools : {{k} : k \in Tools}]
    \cup [kind : Kinds \cap {"Cleanup"}, tools : Cleanups]
    \cup [kind : Kinds \cap {"Repair"}, tools : {{}}]

SeamCalls == {"flush", "start", "close", "abandon"}
Transactions == {"barrier", "clear", "allocate", "activate", "find", "mark", "remove", "reprove"}
NoEvent == [kind |-> "None", tools |-> {}]
Waiting == [pc |-> "idle", event |-> NoEvent, batch |-> {}]
Process ==
  [pc : {"idle"} \cup SeamCalls \cup Transactions, event : Event \cup {NoEvent},
   batch : SUBSET Scopes]

At(h, pc) == hook[h].pc = pc
Serves(h, kind) == hook[h].event.kind = kind
Batch(h) == hook[h].batch
Known == DOMAIN attempts
Matching(keys) == {s \in Known : attempts[s].tool \in keys}
Abandoning(s) == attempts[s].phase = "PendingAbandon"

\* A batch is settled in the order of the file: one fixed order, whichever it is.
First(scopes) == CHOOSE s \in scopes : TRUE

AdapterInit ==
  /\ nextSeq = 1 /\ pending = FALSE /\ attempts = [s \in {} |-> Waiting]
  /\ hook = [h \in Hooks |-> Waiting]
  /\ tool = [k \in Tools |-> "idle"]
  /\ status = [s \in Scopes |-> "NeverSeen"] /\ marker = FALSE
  /\ overtaken = FALSE

-----------------------------------------------------------------------------
(* Steps of a process.                                                     *)

Goto(h, pc) == hook' = [hook EXCEPT ![h].pc = pc]
Take(h, pc, scopes) == hook' = [hook EXCEPT ![h].pc = pc, ![h].batch = scopes]
Leave(h) == hook' = [hook EXCEPT ![h] = Waiting]

\* The next attempt of a cleanup, after one was settled or could not be.
Proceed(h) ==
  LET rest == Batch(h) \ {First(Batch(h))}
  IN  \/ rest # {} /\ Take(h, "abandon", rest)
      \/ rest = {} /\ Serves(h, "Repair") /\ Take(h, "clear", {})
      \/ rest = {} /\ ~Serves(h, "Repair") /\ Leave(h)

\* The hooks of the tools an event retires are not over.
Overtakes(event) == \E g \in Hooks : hook[g].event.tools \cap event.tools # {}

\* Claude sends an event, or the doctor runs.  The events of one tool execution
\* follow each other; a tool that is cleaned up is over, but its own hook may
\* still be under way.
Invoke(h, event) ==
  /\ At(h, "idle")
  /\ \A g \in Hooks :
       {event.kind, hook[g].event.kind} \subseteq ToolEvent =>
         hook[g].event.tools \cap event.tools = {}
  /\ event.kind = "PreToolUse" => \A k \in event.tools : tool[k] = "idle"
  /\ event.kind \in {"PostToolUse", "PermissionDenied"} =>
       \A k \in event.tools : tool[k] = "running"
  /\ hook' = [hook EXCEPT ![h] =
       [pc |-> CASE event.kind = "PreToolUse" -> "barrier"
                 [] event.kind = "Repair" -> "reprove"
                 [] OTHER -> "find",
        event |-> event, batch |-> {}]]
  /\ tool' = [k \in Tools |-> IF k \in event.tools THEN "idle" ELSE tool[k]]
  /\ UNCHANGED <<file, runtime>>

-----------------------------------------------------------------------------
(* PreToolUse: the recovery barrier, and the write-ahead start.            *)

BarrierOpen(h) ==
  /\ At(h, "barrier") /\ ~pending
  /\ Goto(h, "allocate")
  /\ UNCHANGED <<file, tool, runtime>>

BarrierRecovers(h) ==
  /\ At(h, "barrier") /\ pending /\ Known = {}
  /\ Goto(h, "flush")
  /\ UNCHANGED <<file, tool, runtime>>

BarrierDenies(h) ==
  /\ At(h, "barrier") /\ pending /\ Known # {}
  /\ Leave(h)
  /\ UNCHANGED <<file, tool, runtime>>

\* Mutant of Quiescent: the attempts are not counted.
AlwaysQuiescent == TRUE

Quiescent == Known = {}

\* The barrier is lifted if no attempt is left; the hook that waits for it then
\* goes on, the doctor is done in any case.
ClearRecovery(h) ==
  /\ At(h, "clear")
  /\ pending' = (pending /\ ~Quiescent)
  /\ IF Serves(h, "PreToolUse") /\ ~pending' THEN Goto(h, "allocate") ELSE Leave(h)
  /\ UNCHANGED <<nextSeq, attempts, tool, runtime>>

\* Mutant of Reusable: only an attempt that was not confirmed is used again.
ReusableUnconfirmed(h) ==
  {s \in Matching(hook[h].event.tools) : attempts[s].phase = "PendingStart"}

\* An attempt of the same key is used again in whatever phase it is.
Reusable(h) == Matching(hook[h].event.tools)

ReuseAttempt(h) ==
  /\ At(h, "allocate")
  /\ Reusable(h) # {}
  /\ Take(h, "start", Reusable(h))
  /\ UNCHANGED <<file, tool, runtime>>

\* Mutant of NewSeq: attempts are numbered by how many there are.
SeqByCount == Cardinality(Known) + 1

NewSeq == nextSeq

AllocateAttempt(h) ==
  /\ At(h, "allocate")
  /\ Reusable(h) = {}
  /\ nextSeq <= MaxSeq
  /\ \E k \in hook[h].event.tools :
       attempts' = [s \in Known \cup {NewSeq} |->
                      IF s = NewSeq THEN [tool |-> k, phase |-> "PendingStart"] ELSE attempts[s]]
  /\ nextSeq' = nextSeq + 1
  /\ Take(h, "start", {NewSeq})
  /\ UNCHANGED <<pending, tool, runtime>>

\* Mutant of MayActivate: an abandonment that was decided is overruled.
MayActivateAny(s) == s \in Known

MayActivate(s) == s \in Known /\ ~Abandoning(s)

\* The tool is allowed once its start is durable and on record.
MarkActive(h) ==
  /\ At(h, "activate")
  /\ \A s \in Batch(h) : MayActivate(s)
  /\ attempts' = [s \in Known |->
       IF s \in Batch(h) THEN [attempts[s] EXCEPT !.phase = "Active"] ELSE attempts[s]]
  /\ tool' = [k \in Tools |-> IF k \in hook[h].event.tools THEN "running" ELSE tool[k]]
  /\ Leave(h)
  /\ UNCHANGED <<nextSeq, pending, runtime>>

MarkActiveRefused(h) ==
  /\ At(h, "activate")
  /\ \E s \in Batch(h) : ~MayActivate(s)
  /\ Leave(h)
  /\ UNCHANGED <<file, tool, runtime>>

-----------------------------------------------------------------------------
(* The end of an attempt.                                                  *)

NothingFound(h) ==
  /\ At(h, "find")
  /\ Matching(hook[h].event.tools) = {}
  /\ Leave(h)
  /\ UNCHANGED <<file, tool, runtime>>

\* A PostToolUse closes its scope, unless the start was never confirmed; every
\* other event abandons.
FoundToClose(h) ==
  LET found == Matching(hook[h].event.tools)
  IN  /\ At(h, "find") /\ Serves(h, "PostToolUse")
      /\ found # {}
      /\ \A s \in found : attempts[s].phase # "PendingStart"
      /\ Take(h, "close", found)
      /\ UNCHANGED <<file, tool, runtime>>

FoundToAbandon(h) ==
  LET found == Matching(hook[h].event.tools)
  IN  /\ At(h, "find")
      /\ found # {}
      /\ Serves(h, "PostToolUse") => \E s \in found : attempts[s].phase = "PendingStart"
      /\ Take(h, "mark", found)
      /\ UNCHANGED <<file, tool, runtime>>

\* Mutant of Marked: the attempts are marked one by one, and the first now.
MarkedFirst(h) == {First(Batch(h))}

Marked(h) == Batch(h)

\* One write arms the barrier and records the decision for the whole batch.
MarkPendingAbandon(h) ==
  /\ At(h, "mark")
  /\ pending' = TRUE
  /\ attempts' = [s \in Known |->
       IF s \in Marked(h) THEN [attempts[s] EXCEPT !.phase = "PendingAbandon"] ELSE attempts[s]]
  /\ Goto(h, "abandon")
  /\ UNCHANGED <<nextSeq, tool, runtime>>

RemoveAttempt(h) ==
  /\ At(h, "remove")
  /\ attempts' = [s \in Known \ {First(Batch(h))} |-> attempts[s]]
  /\ Proceed(h)
  /\ UNCHANGED <<nextSeq, pending, tool, runtime>>

\* The doctor: every attempt is one whose abandonment was decided.
Reprove(h) ==
  /\ At(h, "reprove")
  /\ IF pending /\ Known # {} /\ \A s \in Known : Abandoning(s)
     THEN Take(h, "abandon", Known)
     ELSE Leave(h)
  /\ UNCHANGED <<file, tool, runtime>>

\* The state lock is not obtained in time, or the file is not read or written: a
\* cleanup goes on with its next attempt, any other event fails.
TransactionFails(h) ==
  /\ hook[h].pc \in Transactions
  /\ IF At(h, "remove") THEN Proceed(h) ELSE Leave(h)
  /\ UNCHANGED <<file, tool, runtime>>

-----------------------------------------------------------------------------
(* Calls of the runtime.                                                   *)

\* A recovery ends the live scopes if an interval may be lost.
Recovered ==
  [s \in Scopes |-> IF marker /\ status[s] = "Active" THEN "Abandoned" ELSE status[s]]

\* What the boundary makes of a scope; one that is over stays so.
BoundaryStatus(pc, old) ==
  CASE pc = "start" /\ old = "NeverSeen" -> "Active"
    [] pc = "close" /\ old \in {"NeverSeen", "Active"} -> "Closed"
    [] OTHER -> old

\* A recovery if one is due, then the boundary.
Coordinated(h) ==
  status' = [s \in Scopes |->
    IF s \in Batch(h) THEN BoundaryStatus(hook[h].pc, Recovered[s]) ELSE Recovered[s]]

\* The outcomes that count as success: the marker may have stayed.
CoordinateSucceeds(h) == Coordinated(h) /\ marker' \in BOOLEAN

\* Nothing was armed; or the marker stays, and nothing, the recovery alone, or by
\* a commit whose answer was lost everything took effect.
CoordinateFails(h) ==
  \/ UNCHANGED runtime
  \/ /\ marker' = TRUE
     /\ UNCHANGED status \/ status' = Recovered \/ Coordinated(h)

ScopeAbandoned(s) == status' = [status EXCEPT ![s] = "Abandoned"]

\* RecoveryRequired is a success too: the marker then stays for the next call.
AbandonSucceeds(s) ==
  \/ /\ marker
     /\ UNCHANGED runtime
  \/ /\ ~marker /\ status[s] = "NeverSeen"
     /\ marker' = TRUE
     /\ UNCHANGED status
  \/ /\ ~marker /\ status[s] \in {"Closed", "Abandoned"}
     /\ marker' \in BOOLEAN
     /\ UNCHANGED status
  \/ /\ ~marker /\ status[s] = "Active"
     /\ ScopeAbandoned(s)
     /\ marker' \in BOOLEAN

AbandonFails(s) ==
  \/ marker' \in {marker, TRUE} /\ UNCHANGED status
  \/ ~marker /\ status[s] = "Active" /\ ScopeAbandoned(s) /\ marker' = TRUE

Flush(h) ==
  /\ At(h, "flush")
  /\ \/ CoordinateSucceeds(h) /\ Goto(h, "clear")
     \/ CoordinateFails(h) /\ Leave(h)
  /\ UNCHANGED <<file, tool>>

\* Mutant of Start: an error of the runtime is ignored.
StartRegardless(h) ==
  /\ At(h, "start")
  /\ CoordinateSucceeds(h) \/ CoordinateFails(h)
  /\ Goto(h, "activate")
  /\ UNCHANGED <<file, tool>>

Start(h) ==
  /\ At(h, "start")
  /\ \/ CoordinateSucceeds(h) /\ Goto(h, "activate")
     \/ CoordinateFails(h) /\ Leave(h)
  /\ UNCHANGED <<file, tool>>

\* Mutant of Close: the attempt is given up with a close that failed.
CloseRegardless(h) ==
  /\ At(h, "close")
  /\ CoordinateSucceeds(h) \/ CoordinateFails(h)
  /\ Goto(h, "remove")
  /\ UNCHANGED <<file, tool>>

\* A close that failed is not repeated: the scope is abandoned.
Close(h) ==
  /\ At(h, "close")
  /\ \/ CoordinateSucceeds(h) /\ Goto(h, "remove")
     \/ CoordinateFails(h) /\ Goto(h, "mark")
  /\ UNCHANGED <<file, tool>>

Abandon(h) ==
  /\ At(h, "abandon")
  /\ \/ AbandonSucceeds(First(Batch(h))) /\ Goto(h, "remove")
     \/ AbandonFails(First(Batch(h))) /\ Proceed(h)
  /\ UNCHANGED <<file, tool>>

\* A process is killed between two steps, or inside a call of the runtime.  A hook
\* that fails does not keep Claude from running the tool.
Killed(h) ==
  /\ ~At(h, "idle")
  /\ Leave(h)
  /\ \/ UNCHANGED runtime
     \/ hook[h].pc \in SeamCalls \ {"abandon"} /\ CoordinateFails(h)
     \/ At(h, "abandon") /\ AbandonFails(First(Batch(h)))
  /\ \/ UNCHANGED tool
     \/ /\ Serves(h, "PreToolUse")
        /\ tool' = [k \in Tools |-> IF k \in hook[h].event.tools THEN "running" ELSE tool[k]]
  /\ UNCHANGED file

HookStep(h) ==
  \/ BarrierOpen(h) \/ BarrierRecovers(h) \/ BarrierDenies(h) \/ Flush(h) \/ ClearRecovery(h)
  \/ ReuseAttempt(h) \/ AllocateAttempt(h) \/ Start(h) \/ MarkActive(h) \/ MarkActiveRefused(h)
  \/ NothingFound(h) \/ FoundToClose(h) \/ FoundToAbandon(h) \/ Close(h)
  \/ MarkPendingAbandon(h) \/ Abandon(h) \/ RemoveAttempt(h)
  \/ Reprove(h) \/ TransactionFails(h)

AdapterNext ==
  \E h \in Hooks :
    \/ \E event \in Event :
         Invoke(h, event) /\ overtaken' = (overtaken \/ Overtakes(event))
    \/ (HookStep(h) \/ Killed(h)) /\ UNCHANGED overtaken

AdapterSpec == AdapterInit /\ [][AdapterNext]_adapterVars

-----------------------------------------------------------------------------
(* Properties.                                                             *)

\* Types; a key has at most one attempt, whoever allocates concurrently.
AdapterTypeOK ==
  /\ nextSeq \in 1..(MaxSeq + 1) /\ pending \in BOOLEAN
  /\ Known \subseteq 1..(nextSeq - 1)
  /\ attempts \in [Known -> AdapterAttempt]
  /\ \A s, r \in Known : attempts[s].tool = attempts[r].tool => s = r
  /\ hook \in [Hooks -> Process]
  /\ \A h \in Hooks : Batch(h) \subseteq 1..(nextSeq - 1) /\ (At(h, "idle") => hook[h] = Waiting)
  /\ tool \in [Tools -> {"idle", "running"}]
  /\ status \in [Scopes -> {"NeverSeen", "Active", "Closed", "Abandoned"}]
  /\ marker \in BOOLEAN

\* The shape that the health classifier calls invalid is never written: as long
\* as an attempt waits for its abandonment the barrier is up, whatever other
\* hooks allocate, remove or clear meanwhile.
AbandonmentIsBarred == \A s \in Known : Abandoning(s) => pending

\* The runtime is asked to abandon only what is durably marked, a whole batch
\* before its first call: a failure or a kill leaves evidence for each of them.
AbandonIsWrittenAhead ==
  \A h \in Hooks : At(h, "abandon") =>
    /\ Batch(h) # {}
    /\ \A s \in Batch(h) \cap Known : Abandoning(s)

\* An attempt recorded as active has a start that is durable in the runtime: no
\* tool was allowed, and none will be closed, on a scope that was never seen.
ActiveAttemptWasStarted ==
  \A s \in Known : attempts[s].phase = "Active" => status[s] # "NeverSeen"

\* As long as cleanups wait for the hooks of the tools they retire, every scope
\* that is live in the runtime has an attempt that will settle it, or the worktree
\* is marked, so that the next boundary ends it: a scope nobody remembers would be
\* credited with the work of others ever after.  A cleanup that overtakes a hook
\* between its allocation and its start leaves such a scope.
AllTracked == \A s \in Scopes : status[s] = "Active" => s \in Known \/ marker
LiveScopeIsTracked == ~overtaken => AllTracked

\* A new attempt has a scope identity that nothing has used: not the runtime, and
\* not a hook that still holds the scopes it once read.
ScopeIdIsNew ==
  [][\A s \in DOMAIN attempts' \ Known :
       status[s] = "NeverSeen" /\ \A h \in Hooks : s \notin Batch(h)]_adapterVars

\* A decision to abandon is not taken back by a hook that started before it.
DecisionIsFinal ==
  [][\A s \in Known \cap DOMAIN attempts' :
       Abandoning(s) => attempts'[s].phase = "PendingAbandon"]_adapterVars

=============================================================================
