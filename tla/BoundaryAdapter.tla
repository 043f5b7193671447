--------------------------- MODULE BoundaryAdapter --------------------------
(***************************************************************************)
(* The adapters of Codex, OpenCode and Pi for one checkout.  Unlike the    *)
(* one of Claude Code (MutationAdapter) they serve one event at a time: a  *)
(* hook holds the boundary lock from its first look at the state file to   *)
(* its last.  What remains hard is what a hook that is killed, or a        *)
(* harness that dies, leaves behind: attempts nobody will settle and a     *)
(* recovery that is half done.                                             *)
(*                                                                         *)
(* The recovery is a state of its own: Pending, once an attempt had to be  *)
(* given up; Flushing, while one hook works it off; Clear, after a flush   *)
(* of the runtime that followed the last abandonment.  Pi records without  *)
(* the boundary lock that a tool was executed.                             *)
(*                                                                         *)
(* The three differ in the events, in the order of the checks and in how   *)
(* an abandonment is done, not in the steps, so they are one module; the   *)
(* harness is chosen initially.  Transactions on the file and calls of the *)
(* runtime are one step each, as in MutationAdapter.  An attempt is named  *)
(* by its key; the scope of an attempt by the key and by how many attempts *)
(* of the key there were, except that OpenCode derives it from the key.    *)
(***************************************************************************)
EXTENDS Integers, FiniteSets

CONSTANTS
  Harnesses,     \* which of the adapters
  Tools,         \* attempt keys
  Sessions,      \* processes of the harness; for Codex, a session and turn, its lane
  MaxStarts,     \* bound on the attempts of a key
  MaxGeneration  \* bound on the recoveries

ASSUME KnownHarnesses == Harnesses \subseteq {"Codex", "OpenCode", "Pi"}
ASSUME StartsBound == MaxStarts \in Nat \ {0}
ASSUME GenerationBound == MaxGeneration \in Nat \ {0}

VARIABLES
  harness,    \* the adapter; never changes
  session,    \* by key, the session that runs the tool; never changes
  recovery,   \* RecoveryState
  nextGen,    \* next_recovery_generation
  attempts,   \* by key, the phase, the scope and the owner of its attempt
  boundary,   \* what the holder of the boundary lock serves, and its next step
  asked,      \* keys whose start hook waits for the boundary lock
  reporting,  \* keys whose ToolResult hook is on its way
  tool,       \* by key, how far the harness is with the tool
  dead,       \* sessions whose process is gone
  starts,     \* by key, the attempts ever allocated
  status,     \* by scope, its status in the runtime
  marker      \* the external-taint marker: an interval may be lost

file == <<recovery, nextGen, attempts, starts>>
runtime == <<status, marker>>
world == <<asked, reporting, tool, dead>>
boundaryVars == <<harness, session, file, boundary, world, runtime>>

Scopes == Tools \X (1..MaxStarts)
Generations == 0..MaxGeneration
Clear == [state |-> "Clear", gen |-> 0]
RecoveryOf(state) == [state |-> state, gen |-> recovery.gen]
BoundaryPhase == {"PendingStart", "Active", "Executed", "PendingAbandon"}
Owners == Sessions \cup {"init"}

SeamSteps == {"flush", "abandon", "rebaseline", "start", "close"}
FileSteps ==
  {"sweep", "reconcile", "reprove", "admit", "activate", "find", "begin", "arm", "remove",
   "closed", "complete", "relinquish"}
Free == [pc |-> "free", kind |-> "None", tools |-> {}, batch |-> {}, gen |-> 0, claimed |-> FALSE]

Known == DOMAIN attempts
InPhase(phase) == {k \in Known : attempts[k].phase = phase}
At(pc) == boundary.pc = pc
Starting == boundary.kind = "Start"
Claim == [state |-> "Flushing", gen |-> boundary.gen]
Scope(k) == <<k, attempts[k].scope>>
First(keys) == CHOOSE k \in keys : TRUE
Abandonee == First(boundary.batch)

BoundaryInit ==
  /\ harness \in Harnesses /\ session \in [Tools -> Sessions]
  /\ recovery = Clear /\ nextGen = 1 /\ attempts = [k \in {} |-> Free]
  /\ starts = [k \in Tools |-> 0]
  /\ boundary = Free
  /\ asked = {} /\ reporting = {} /\ dead = {} /\ tool = [k \in Tools |-> "idle"]
  /\ status = [s \in Scopes |-> "NeverSeen"] /\ marker = FALSE

-----------------------------------------------------------------------------
(* The harness.                                                            *)

\* A start hook is spawned; it may be repeated as long as the tool is not over.
Ask(k) ==
  /\ k \notin asked /\ tool[k] # "over" /\ session[k] \notin dead
  /\ ~(Starting /\ k \in boundary.tools)
  /\ asked' = asked \cup {k}
  /\ UNCHANGED <<harness, session, file, boundary, runtime, reporting, tool, dead>>

\* It times out on the lock or is killed before it has it: Codex may run the tool.
AskFails(k) ==
  /\ k \in asked
  /\ asked' = asked \ {k}
  /\ \/ UNCHANGED tool
     \/ /\ harness = "Codex" /\ tool[k] = "idle"
        /\ tool' = [tool EXCEPT ![k] = "running"]
  /\ UNCHANGED <<harness, session, file, boundary, runtime, reporting, dead>>

\* The harness dies; its hooks live on, and are children of init.
Die(s) ==
  /\ s \notin dead
  /\ dead' = dead \cup {s}
  /\ tool' = [k \in Tools |-> IF session[k] = s THEN "over" ELSE tool[k]]
  /\ UNCHANGED <<harness, session, file, boundary, runtime, asked, reporting>>

Report(k) ==
  /\ harness = "Pi" /\ tool[k] = "running"
  /\ tool' = [tool EXCEPT ![k] = "executed"]
  /\ reporting' = reporting \cup {k}
  /\ UNCHANGED <<harness, session, file, boundary, runtime, asked, dead>>

ReportFails(k) ==
  /\ k \in reporting
  /\ reporting' = reporting \ {k}
  /\ UNCHANGED <<harness, session, file, boundary, runtime, asked, tool, dead>>

\* Mutant of MayExecute: a report that is late overrules what was decided.
MayExecuteLate(k) == k \in Known

MayExecute(k) == k \in InPhase("PendingStart")

\* The ToolResult hook of Pi: it takes only the lock of the state file.
MarkExecuted(k) ==
  /\ k \in reporting
  /\ reporting' = reporting \ {k}
  /\ attempts' = IF MayExecute(k) THEN [attempts EXCEPT ![k].phase = "Executed"] ELSE attempts
  /\ UNCHANGED <<harness, session, recovery, nextGen, starts, boundary, runtime, asked, tool, dead>>

-----------------------------------------------------------------------------
(* A boundary: its lock is obtained, and released when its process ends.   *)

\* A flush that was under way has lost its process.
Normalized == IF recovery.state = "Flushing" THEN RecoveryOf("Pending") ELSE recovery

Enter(kind, tools, pc) ==
  /\ At("free")
  /\ boundary' = [Free EXCEPT !.pc = pc, !.kind = kind, !.tools = tools]
  /\ recovery' = IF harness = "Codex" /\ kind # "Start" THEN recovery ELSE Normalized
  /\ UNCHANGED <<harness, session, nextGen, attempts, starts, runtime>>

FirstStep == CASE harness = "Codex" -> "sweep" [] harness = "Pi" -> "reconcile" [] OTHER -> "admit"

EnterStart(k) ==
  /\ k \in asked
  /\ asked' = asked \ {k}
  /\ Enter("Start", {k}, FirstStep)
  /\ UNCHANGED <<reporting, tool, dead>>

\* PostToolUse, tool.execute.after, ToolExecutionEnd; ToolError, ToolExecutionAbandon,
\* which Pi repeats until it is delivered.
EnterTerminal(kind, k) ==
  /\ kind = "Abandon" => harness \in {"OpenCode", "Pi"}
  /\ k \notin asked \cup reporting /\ session[k] \notin dead
  /\ tool[k] = "over" => harness = "Pi" /\ kind = "Abandon"
  /\ tool' = [tool EXCEPT ![k] = "over"]
  /\ Enter(kind, {k}, "find")
  /\ UNCHANGED <<asked, reporting, dead>>

\* Stop, Interrupt, SubagentStop, SessionEnd; a hook of the tool may still wait.
EnterCleanup(keys) ==
  /\ harness = "Codex" /\ keys # {}
  /\ \E s \in Sessions \ dead : \A k \in keys : session[k] = s
  /\ tool' = [k \in Tools |-> IF k \in keys THEN "over" ELSE tool[k]]
  /\ Enter("Cleanup", keys, "find")
  /\ UNCHANGED <<asked, reporting, dead>>

\* The doctor.
EnterRepair ==
  /\ harness = "OpenCode"
  /\ Enter("Repair", {}, "reprove")
  /\ UNCHANGED world

Goto(pc) == boundary' = [boundary EXCEPT !.pc = pc]
Give(keys, pc) == boundary' = [boundary EXCEPT !.pc = pc, !.batch = keys]
Leave == boundary' = Free /\ UNCHANGED tool
Allow ==
  /\ boundary' = Free
  /\ tool' = [k \in Tools |-> IF k \in boundary.tools /\ tool[k] = "idle" THEN "running" ELSE tool[k]]

Rest == UNCHANGED <<harness, session, asked, reporting, dead>>
KeepFile == UNCHANGED file
KeepTool == UNCHANGED tool
KeepAttempts == UNCHANGED <<attempts, starts>>

-----------------------------------------------------------------------------
(* Admission.                                                              *)

LaneMates == {j \in Known \ boundary.tools : \E k \in boundary.tools : session[j] = session[k]}

\* Codex: tools of a lane follow each other, what is left of others is given up.
Sweep ==
  /\ At("sweep")
  /\ IF LaneMates = {} THEN Goto("admit") ELSE Give({First(LaneMates)}, "arm")
  /\ KeepFile /\ KeepTool /\ UNCHANGED runtime /\ Rest

\* Mutant of DeadOwners: an owner that is not seen to live is taken for dead.
DeadOrUnknown == {k \in Known : boundary.tools \cap {k} = {}}

\* The owner is the parent of the hook when the attempt is allocated: init, which never
\* dies, if the harness is gone by then.
DeadOwners == {k \in Known : attempts[k].owner \in dead}

\* Pi: attempts of dead owners are given up before any admission.
Reconcile ==
  LET lost == DeadOwners \cap (InPhase("PendingStart") \cup InPhase("Executed"))
  IN  /\ At("reconcile")
      /\ IF lost = {} THEN Goto("admit") ELSE Give(lost, "begin")
      /\ KeepFile /\ KeepTool /\ UNCHANGED runtime /\ Rest

Reusable(k) ==
  k \in Known /\ IF harness = "Codex" THEN recovery = Clear ELSE attempts[k].phase # "PendingAbandon"

Terminal(k) == harness # "Codex" /\ k \in InPhase("PendingAbandon")

\* The attempts that block a new one.
Blocking ==
  CASE harness = "Codex" -> InPhase("PendingStart") \cup LaneMates
    [] harness = "OpenCode" -> InPhase("PendingStart") \cup InPhase("PendingAbandon")
    [] OTHER -> InPhase("PendingAbandon")

\* Mutant of MayClaim: Codex flushes although attempts are left.
MayClaimAnyway(k) ==
  recovery.state = "Pending" /\ (harness = "Codex" \/ (~Reusable(k) /\ ~Terminal(k)))

MayClaim(k) ==
  /\ recovery.state = "Pending"
  /\ IF harness = "Codex" THEN Known = {} ELSE ~Reusable(k) /\ ~Terminal(k)

Reuse(k) ==
  /\ At("admit") /\ k \in boundary.tools /\ Reusable(k)
  /\ IF attempts[k].phase = "Active" THEN Allow ELSE Goto("start") /\ KeepTool
  /\ KeepFile /\ UNCHANGED runtime /\ Rest

Allocate(k) ==
  /\ At("admit") /\ k \in boundary.tools /\ k \notin Known
  /\ recovery = Clear /\ Blocking = {}
  /\ starts[k] < MaxStarts
  /\ starts' = [starts EXCEPT ![k] = @ + 1]
  /\ attempts' = [j \in Known \cup {k} |->
       IF j \in Known THEN attempts[j]
       ELSE [phase |-> "PendingStart",
             scope |-> IF harness = "OpenCode" THEN 1 ELSE starts'[k],
             owner |-> IF session[k] \in dead THEN "init" ELSE session[k]]]
  /\ Goto("start")
  /\ UNCHANGED <<recovery, nextGen, tool, runtime>> /\ Rest

\* The first claim works the recovery off; a second, after that, is given back.
ClaimFlush(k) ==
  /\ At("admit") /\ k \in boundary.tools /\ MayClaim(k)
  /\ recovery' = RecoveryOf("Flushing")
  /\ boundary' = [boundary EXCEPT
       !.pc = IF boundary.claimed THEN "relinquish"
              ELSE IF harness = "Codex" THEN "rebaseline" ELSE "flush",
       !.gen = recovery.gen, !.claimed = TRUE]
  /\ UNCHANGED <<nextGen, tool, runtime>> /\ KeepAttempts /\ Rest

Deny(k) ==
  /\ At("admit") /\ k \in boundary.tools
  /\ ~Reusable(k) /\ ~MayClaim(k)
  /\ k \in Known \/ recovery # Clear \/ Blocking # {}
  /\ Leave
  /\ KeepFile /\ UNCHANGED runtime /\ Rest

\* Codex and OpenCode confirm the start; the lock keeps others from the attempt.
Activate ==
  /\ At("activate")
  /\ IF boundary.tools \subseteq Known
     THEN /\ attempts' = [k \in Known |->
               IF k \in boundary.tools THEN [attempts[k] EXCEPT !.phase = "Active"] ELSE attempts[k]]
          /\ Allow
     ELSE Leave /\ UNCHANGED attempts
  /\ UNCHANGED <<recovery, nextGen, starts, runtime>> /\ Rest

-----------------------------------------------------------------------------
(* The end of attempts.                                                    *)

Confirmed == IF harness = "Pi" THEN InPhase("Executed") ELSE InPhase("Active")
GiveUp == IF harness = "Codex" THEN "arm" ELSE "begin"

Find ==
  LET found == Known \cap boundary.tools
  IN  /\ At("find")
      /\ CASE found = {} -> Leave
           [] found # {} /\ boundary.kind = "End" /\ found \subseteq Confirmed ->
                Give(found, "close") /\ KeepTool
           [] OTHER -> Give(found, GiveUp) /\ KeepTool
      /\ KeepFile /\ UNCHANGED runtime /\ Rest

\* The doctor gives up attempts that were never confirmed if all their owners are dead.
Reprove ==
  LET unconfirmed == InPhase("PendingStart")
  IN  /\ At("reprove")
      /\ IF unconfirmed # {} /\ unconfirmed \subseteq DeadOwners
         THEN Give(unconfirmed, "begin") /\ KeepTool
         ELSE Leave
      /\ KeepFile /\ UNCHANGED runtime /\ Rest

\* A new recovery, unless one is open.
Armed(state) ==
  IF recovery = Clear THEN [state |-> state, gen |-> nextGen] ELSE RecoveryOf(state)

\* OpenCode and Pi: the decision and the claim are one write.
Begin ==
  /\ At("begin")
  /\ nextGen <= MaxGeneration
  /\ attempts' = [k \in Known |->
       IF k \in boundary.batch THEN [attempts[k] EXCEPT !.phase = "PendingAbandon"] ELSE attempts[k]]
  /\ recovery' = Armed("Flushing")
  /\ nextGen' = IF recovery = Clear THEN nextGen + 1 ELSE nextGen
  /\ boundary' = [boundary EXCEPT !.pc = "flush", !.gen = recovery'.gen]
  /\ UNCHANGED <<starts, tool, runtime>> /\ Rest

\* Codex: before each call; an open flush, whose process is gone, is superseded.
Arm ==
  /\ At("arm")
  /\ nextGen <= MaxGeneration
  /\ IF recovery.state = "Pending"
     THEN UNCHANGED <<recovery, nextGen>>
     ELSE recovery' = [state |-> "Pending", gen |-> nextGen] /\ nextGen' = nextGen + 1
  /\ Goto("abandon")
  /\ UNCHANGED <<tool, runtime>> /\ KeepAttempts /\ Rest

\* What follows when the last attempt in hand is settled.
Settled ==
  CASE harness # "Codex" -> Goto("rebaseline") /\ KeepTool
    [] harness = "Codex" /\ Starting -> Goto("sweep") /\ KeepTool
    [] OTHER -> Leave

Remove ==
  LET rest == boundary.batch \ {Abandonee}
  IN  /\ At("remove")
      /\ attempts' = [k \in Known \ {Abandonee} |-> attempts[k]]
      /\ IF rest = {}
         THEN Settled
         ELSE Give(rest, IF harness = "Codex" THEN "arm" ELSE "abandon") /\ KeepTool
      /\ UNCHANGED <<recovery, nextGen, starts, runtime>> /\ Rest

\* A scope that was closed has no attempt any more.
RemoveClosed ==
  /\ At("closed")
  /\ attempts' = [k \in Known \ boundary.batch |-> attempts[k]]
  /\ Leave
  /\ UNCHANGED <<recovery, nextGen, starts, runtime>> /\ Rest

\* The recovery is over; a start is admitted now, for Pi after one more look for dead owners
\* if that is what it came from.
Complete ==
  /\ At("complete")
  /\ IF recovery = Claim
     THEN /\ recovery' = Clear
          /\ CASE ~Starting -> Leave
               [] Starting /\ boundary.claimed -> Goto("admit") /\ KeepTool
               [] OTHER -> Goto("reconcile") /\ KeepTool
     ELSE Leave /\ UNCHANGED recovery
  /\ UNCHANGED <<nextGen, runtime>> /\ KeepAttempts /\ Rest

Relinquish ==
  /\ At("relinquish")
  /\ recovery' = IF recovery = Claim THEN RecoveryOf("Pending") ELSE recovery
  /\ Leave
  /\ UNCHANGED <<nextGen, runtime>> /\ KeepAttempts /\ Rest

\* The state lock is not obtained in time, or the file is not read or written.
TransactionFails ==
  /\ boundary.pc \in FileSteps
  /\ Leave
  /\ KeepFile /\ UNCHANGED runtime /\ Rest

-----------------------------------------------------------------------------
(* Calls of the runtime: the outcomes are those of MutationAdapter.        *)

\* A recovery ends the live scopes if an interval may be lost.
Recovered ==
  [s \in Scopes |-> IF marker /\ status[s] = "Active" THEN "Abandoned" ELSE status[s]]

\* What the boundary makes of a scope; one that is over stays so.
StatusAfter(old) ==
  CASE At("start") /\ old = "NeverSeen" -> "Active"
    [] At("close") /\ old \in {"NeverSeen", "Active"} -> "Closed"
    [] OTHER -> old

Served == IF At("start") THEN boundary.tools ELSE boundary.batch

Coordinated ==
  status' = [s \in Scopes |->
    IF ~At("flush") /\ ~At("rebaseline") /\ \E k \in Served : s = Scope(k)
    THEN StatusAfter(Recovered[s]) ELSE Recovered[s]]

CoordinateSucceeds == Coordinated /\ marker' \in BOOLEAN

CoordinateFails ==
  \/ UNCHANGED runtime
  \/ marker' = TRUE /\ (UNCHANGED status \/ status' = Recovered \/ Coordinated)

ScopeAbandoned(s) == status' = [status EXCEPT ![s] = "Abandoned"]

\* RecoveryRequired is a success too: the marker then stays for the next call.
AbandonSucceeds(s) ==
  \/ marker /\ UNCHANGED runtime
  \/ ~marker /\ status[s] = "NeverSeen" /\ marker' = TRUE /\ UNCHANGED status
  \/ ~marker /\ status[s] \in {"Closed", "Abandoned"} /\ marker' \in BOOLEAN /\ UNCHANGED status
  \/ ~marker /\ status[s] = "Active" /\ ScopeAbandoned(s) /\ marker' \in BOOLEAN

AbandonFails(s) ==
  \/ marker' \in {marker, TRUE} /\ UNCHANGED status
  \/ ~marker /\ status[s] = "Active" /\ ScopeAbandoned(s) /\ marker' = TRUE

\* The flush before the abandonments credits what the scopes did so far to nobody; what
\* is to be abandoned is read before it.
Flush ==
  /\ At("flush")
  /\ \/ /\ CoordinateSucceeds
        /\ LET doomed == InPhase("PendingAbandon")
           IN  Give(doomed, IF doomed = {} THEN "rebaseline" ELSE "abandon")
     \/ CoordinateFails /\ Goto("relinquish")
  /\ KeepFile /\ KeepTool /\ Rest

Abandon ==
  /\ At("abandon")
  /\ \/ AbandonSucceeds(Scope(Abandonee)) /\ Goto("remove") /\ KeepTool
     \/ /\ AbandonFails(Scope(Abandonee))
        /\ IF harness = "Codex" THEN Leave ELSE Goto("relinquish") /\ KeepTool
  /\ KeepFile /\ Rest

\* Mutant of Rebaseline: a flush that failed is taken for one that was done.
RebaselineRegardless ==
  /\ At("rebaseline")
  /\ CoordinateSucceeds \/ CoordinateFails
  /\ Goto("complete")
  /\ KeepFile /\ KeepTool /\ Rest

Rebaseline ==
  /\ At("rebaseline")
  /\ \/ CoordinateSucceeds /\ Goto("complete")
     \/ CoordinateFails /\ Goto("relinquish")
  /\ KeepFile /\ KeepTool /\ Rest

\* Pi does not confirm a start in its file.
Start ==
  /\ At("start")
  /\ \/ CoordinateSucceeds /\ IF harness = "Pi" THEN Allow ELSE Goto("activate") /\ KeepTool
     \/ CoordinateFails /\ Leave
  /\ KeepFile /\ Rest

Close ==
  /\ At("close")
  /\ \/ CoordinateSucceeds /\ Goto("closed")
     \/ CoordinateFails /\ Goto(GiveUp)
  /\ KeepFile /\ KeepTool /\ Rest

\* The process is killed between two steps or inside a call; only Codex may run the tool.
Killed ==
  /\ ~At("free")
  /\ \/ UNCHANGED runtime
     \/ boundary.pc \in SeamSteps \ {"abandon"} /\ CoordinateFails
     \/ At("abandon") /\ AbandonFails(Scope(Abandonee))
  /\ Leave \/ (harness = "Codex" /\ Starting /\ Allow)
  /\ KeepFile /\ Rest

\* Another adapter of the worktree taints it, or its boundary recovers.
Elsewhere ==
  /\ At("free")
  /\ \/ marker' = TRUE /\ UNCHANGED status
     \/ status' = Recovered /\ marker' = FALSE
  /\ UNCHANGED <<harness, session, file, boundary, world>>

-----------------------------------------------------------------------------

Admit(k) == Reuse(k) \/ Allocate(k) \/ ClaimFlush(k) \/ Deny(k)

HarnessStep ==
  \/ \E k \in Tools : Ask(k) \/ AskFails(k) \/ Report(k) \/ ReportFails(k) \/ MarkExecuted(k)
  \/ \E s \in Sessions : Die(s)

EnterStep ==
  \/ \E k \in Tools : EnterStart(k) \/ \E kind \in {"End", "Abandon"} : EnterTerminal(kind, k)
  \/ \E keys \in SUBSET Tools : EnterCleanup(keys)
  \/ EnterRepair

BoundaryStep ==
  \/ Sweep \/ Reconcile \/ Reprove \/ Find \/ \E k \in Tools : Admit(k)
  \/ Activate \/ Begin \/ Arm \/ Remove \/ RemoveClosed \/ Complete \/ Relinquish
  \/ Flush \/ Abandon \/ Rebaseline \/ Start \/ Close
  \/ TransactionFails \/ Killed

BoundaryNext == HarnessStep \/ EnterStep \/ BoundaryStep \/ Elsewhere

BoundarySpec == BoundaryInit /\ [][BoundaryNext]_boundaryVars

-----------------------------------------------------------------------------
(* Properties.                                                             *)

Attempt == [phase : BoundaryPhase, scope : 1..MaxStarts, owner : Owners]

\* Types of the state, and what the process that has the boundary lock holds.
BoundaryTypeOK ==
  /\ harness \in Harnesses /\ session \in [Tools -> Sessions]
  /\ recovery \in [state : {"Pending", "Flushing"}, gen : 1..MaxGeneration] \cup {Clear}
  /\ nextGen \in 1..(MaxGeneration + 1) /\ recovery.gen < nextGen
  /\ Known \subseteq Tools /\ attempts \in [Known -> Attempt]
  /\ starts \in [Tools -> 0..MaxStarts]
  /\ boundary \in [pc : {"free"} \cup SeamSteps \cup FileSteps,
                   kind : {"None", "Start", "End", "Abandon", "Cleanup", "Repair"},
                   tools : SUBSET Tools, batch : SUBSET Tools, gen : Generations,
                   claimed : BOOLEAN]
  /\ asked \subseteq Tools /\ reporting \subseteq Tools /\ dead \subseteq Sessions
  /\ tool \in [Tools -> {"idle", "running", "executed", "over"}]
  /\ status \in [Scopes -> {"NeverSeen", "Active", "Closed", "Abandoned"}]
  /\ marker \in BOOLEAN

\* The shapes that the health classifiers call impossible are never written, wherever a
\* hook is killed: an attempt that is to be abandoned while the recovery is Clear, and for
\* Codex a flush while attempts are left.
ImpossibleShapeIsNeverWritten ==
  /\ InPhase("PendingAbandon") # {} => recovery # Clear
  /\ harness = "Codex" /\ recovery.state = "Flushing" => Known = {}

\* A scope that is live in the runtime has an attempt that will settle it; if not, the
\* worktree is marked and the recovery is open.  So once the recovery is declared Clear,
\* no scope is left over that would be credited with the work of others: this is what
\* the second flush is for, as an abandonment may only have left the marker.
ClearMeansSettled ==
  \A s \in Scopes : status[s] = "Active" =>
    \/ \E k \in Known : s = Scope(k)
    \/ marker /\ recovery # Clear

\* OpenCode and Pi run a tool only if its start is durable in the runtime, and as long as
\* it runs it has an attempt: neither a repair nor the search for dead owners, nor another
\* session, gives up the attempt of a tool that runs.
RunningToolIsTracked ==
  harness # "Codex" =>
    \A k \in Tools : tool[k] = "running" =>
      /\ k \in Known /\ attempts[k].phase # "PendingAbandon"
      /\ status[Scope(k)] # "NeverSeen"

\* A decision to abandon is final, even for a report that comes after it: the attempt stays
\* until its scope was given up.
BoundaryDecisionIsFinal ==
  [][\A k \in InPhase("PendingAbandon") :
       \/ k \in DOMAIN attempts' /\ attempts'[k].phase = "PendingAbandon"
       \/ k \notin DOMAIN attempts' /\ (status[Scope(k)] # "Active" \/ marker)]_boundaryVars

=============================================================================
