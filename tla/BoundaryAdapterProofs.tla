----------------------- MODULE BoundaryAdapterProofs -----------------------
(***************************************************************************)
(* Theorems about the adapters of Codex, OpenCode and Pi, for any number   *)
(* of tools and sessions and any bounds on attempts and recoveries.        *)
(***************************************************************************)
EXTENDS BoundaryAdapter, TLAPS

-----------------------------------------------------------------------------
(* The inductive invariant: what the holder of the boundary lock knows at  *)
(* each of its steps.                                                      *)

\* What a boundary that serves a start has established, by its next step.
StartHeld ==
  /\ boundary.pc \in {"sweep", "reconcile", "admit", "start", "activate"} => Starting
  /\ Starting => \E k \in Tools : boundary.tools = {k}
  /\ boundary.pc \in {"start", "activate"} =>
       \A k \in boundary.tools : k \in Known /\ attempts[k].phase # "PendingAbandon"
  /\ At("activate") => \A k \in boundary.tools : status[Scope(k)] # "NeverSeen"

\* What it holds of the attempts it is to settle.
BatchHeld ==
  /\ At("find") => boundary.kind \in {"End", "Abandon", "Cleanup"}
  /\ boundary.kind \in {"End", "Abandon", "Cleanup"} => \A k \in boundary.tools : tool[k] = "over"
  /\ boundary.pc \in {"arm", "abandon", "remove", "begin", "close", "closed"} =>
       boundary.batch # {} /\ boundary.batch \subseteq Known
  /\ boundary.pc \in {"begin", "close", "closed"} => \A k \in boundary.batch : tool[k] = "over"
  /\ boundary.pc \in {"close", "closed"} => boundary.batch \cap InPhase("PendingAbandon") = {}
  /\ harness # "Codex" /\ boundary.pc \in {"abandon", "remove"} =>
       boundary.batch = InPhase("PendingAbandon")
  /\ At("remove") => status[Scope(Abandonee)] # "Active" \/ marker
  /\ At("closed") => \A k \in boundary.batch : status[Scope(k)] # "Active"

\* Every live scope has an attempt.
AllTracked == \A s \in Scopes : status[s] = "Active" => \E k \in Known : s = Scope(k)

\* What it knows of the recovery it works off.
RecoveryHeld ==
  /\ IF harness = "Codex" THEN boundary.pc \notin {"begin", "flush", "reconcile", "reprove"}
                          ELSE boundary.pc \notin {"arm", "sweep"}
  /\ boundary.pc \in {"flush", "abandon", "remove", "rebaseline", "complete", "relinquish"} =>
       recovery.state # "Clear"
  /\ harness = "Codex" \/ boundary.pc \in {"rebaseline", "complete"} => InPhase("PendingAbandon") = {}
  /\ harness = "Codex" /\ boundary.pc \in {"rebaseline", "complete"} => boundary.claimed
  /\ At("complete") => AllTracked

\* The tool of a dead session is over, and an owner that is dead is the tool's.
OwnersAreSessions ==
  /\ \A k \in Tools : session[k] \in dead => tool[k] = "over"
  /\ \A k \in Known : attempts[k].owner = session[k] \/ session[k] \in dead

ActiveIsStarted == \A k \in InPhase("Active") : status[Scope(k)] # "NeverSeen"

\* What the holder of the boundary lock knows, and what everybody may rely on.
LockHeld == StartHeld /\ BatchHeld /\ RecoveryHeld

FileIsSound ==
  /\ OwnersAreSessions /\ ActiveIsStarted
  /\ ImpossibleShapeIsNeverWritten /\ ClearMeansSettled /\ RunningToolIsTracked

BoundaryInv == BoundaryTypeOK /\ LockHeld /\ FileIsSound

\* The values of boundary.
Holding ==
  [pc : {"free"} \cup SeamSteps \cup FileSteps,
   kind : {"None", "Start", "End", "Abandon", "Cleanup", "Repair"},
   tools : SUBSET Tools, batch : SUBSET Tools, gen : Generations, claimed : BOOLEAN]

-----------------------------------------------------------------------------
(* Lemmas about what steps have in common.                                 *)

LEMMA FirstIsIn == ASSUME NEW keys, keys # {} PROVE First(keys) \in keys
BY DEF First

LEMMA FreeIsHolding == Free \in Holding
BY GenerationBound DEF Free, Holding, Generations

\* The holder of the lock goes on to its next step with a batch of attempts.
Moved(pc, keys) ==
  /\ boundary' \in Holding
  /\ boundary'.pc = pc /\ boundary'.batch = keys
  /\ boundary'.kind = boundary.kind /\ boundary'.tools = boundary.tools
  /\ boundary'.claimed = boundary.claimed

LEMMA StepMoves ==
  ASSUME BoundaryTypeOK, NEW pc \in SeamSteps \cup FileSteps
  PROVE  /\ Goto(pc) => Moved(pc, boundary.batch)
         /\ \A keys \in SUBSET Tools : Give(keys, pc) => Moved(pc, keys)
BY DEF BoundaryTypeOK, Goto, Give, Moved, Holding

\* Nothing is held when the lock is free.
LEMMA FreeHeld ==
  ASSUME boundary' = Free, harness' = "Codex" => InPhase("PendingAbandon")' = {}
  PROVE  LockHeld'
BY DEF LockHeld, StartHeld, BatchHeld, RecoveryHeld, Free, At, Starting

\* What every call of the runtime, and whoever else calls it, may do: a scope
\* that is live was live and the marker stays, or it is the one that starts.
RuntimeMoved ==
  /\ status' \in [Scopes -> {"NeverSeen", "Active", "Closed", "Abandoned"}] /\ marker' \in BOOLEAN
  /\ \A s \in Scopes : status[s] # "NeverSeen" => status'[s] # "NeverSeen"
  /\ \A s \in Scopes : status'[s] = "Active" =>
       \/ status[s] = "Active" /\ (marker => marker')
       \/ At("start") /\ \E k \in boundary.tools : s = Scope(k)

LEMMA ScopeType ==
  ASSUME BoundaryTypeOK, NEW k \in Known
  PROVE  Scope(k) \in Scopes /\ k \in Tools
BY DEF BoundaryTypeOK, Attempt, Scope, Scopes

LEMMA RecoveredMoves ==
  ASSUME BoundaryTypeOK
  PROVE  /\ Recovered \in [Scopes -> {"NeverSeen", "Active", "Closed", "Abandoned"}]
         /\ \A s \in Scopes : status[s] # "NeverSeen" => Recovered[s] # "NeverSeen"
         /\ \A s \in Scopes : Recovered[s] = "Active" => status[s] = "Active" /\ ~marker
BY DEF BoundaryTypeOK, Recovered

LEMMA StatusAfterMoves ==
  ASSUME NEW old \in {"NeverSeen", "Active", "Closed", "Abandoned"}
  PROVE  /\ StatusAfter(old) \in {"NeverSeen", "Active", "Closed", "Abandoned"}
         /\ old # "NeverSeen" \/ At("start") => StatusAfter(old) # "NeverSeen"
         /\ StatusAfter(old) = "Active" => old = "Active" \/ At("start")
         /\ At("close") => StatusAfter(old) # "Active"
BY DEF StatusAfter, At

\* A boundary of the runtime that took effect.
LEMMA CoordinatedMoves ==
  ASSUME BoundaryTypeOK, Coordinated, marker' \in BOOLEAN
  PROVE  /\ RuntimeMoved
         /\ At("start") => \A k \in Known \cap boundary.tools : status'[Scope(k)] # "NeverSeen"
         /\ At("close") => \A k \in Known \cap boundary.batch : status'[Scope(k)] # "Active"
         /\ At("rebaseline") => \A s \in Scopes : status'[s] = "Active" => status[s] = "Active" /\ ~marker
<1> DEFINE Serves(s) == ~At("flush") /\ ~At("rebaseline") /\ \E k \in Served : s = Scope(k)
<1>1. status' = [s \in Scopes |-> IF Serves(s) THEN StatusAfter(Recovered[s]) ELSE Recovered[s]]
  BY DEF Coordinated
<1>2. ASSUME NEW s \in Scopes
      PROVE  /\ status'[s] \in {"NeverSeen", "Active", "Closed", "Abandoned"}
             /\ status[s] # "NeverSeen" => status'[s] # "NeverSeen"
             /\ Serves(s) /\ At("start") => status'[s] # "NeverSeen"
             /\ Serves(s) /\ At("close") => status'[s] # "Active"
             /\ status'[s] = "Active" => (status[s] = "Active" /\ ~marker) \/ (Serves(s) /\ At("start"))
  <2> DEFINE old == Recovered[s]
  <2>1. /\ old \in {"NeverSeen", "Active", "Closed", "Abandoned"}
        /\ status[s] # "NeverSeen" => old # "NeverSeen"
        /\ old = "Active" => status[s] = "Active" /\ ~marker
    BY RecoveredMoves
  <2>2. status'[s] = IF Serves(s) THEN StatusAfter(old) ELSE old
    BY <1>1
  <2> HIDE DEF old, Serves
  <2> QED BY <2>1, <2>2, StatusAfterMoves
<1>3. At("start") /\ (\E s \in Scopes : Serves(s)) => \A s \in Scopes : Serves(s) => \E k \in boundary.tools : s = Scope(k)
  BY DEF Served
<1>4. /\ At("start") => \A k \in Known \cap boundary.tools : Scope(k) \in Scopes /\ Serves(Scope(k))
      /\ At("close") => \A k \in Known \cap boundary.batch : Scope(k) \in Scopes /\ Serves(Scope(k))
  BY ScopeType DEF Served, At
<1>5. At("rebaseline") => \A s : ~Serves(s)
  OBVIOUS
<1>6. DOMAIN status' = Scopes /\ status' = [s \in Scopes |-> status'[s]]
  BY <1>1
<1> HIDE DEF Serves
<1> QED BY <1>2, <1>3, <1>4, <1>5, <1>6 DEF RuntimeMoved

LEMMA FailureMoves ==
  ASSUME BoundaryTypeOK, CoordinateFails
  PROVE  RuntimeMoved
<1>1. CASE UNCHANGED runtime
  BY <1>1 DEF BoundaryTypeOK, RuntimeMoved, runtime
<1>2. CASE marker' = TRUE /\ UNCHANGED status
  BY <1>2 DEF BoundaryTypeOK, RuntimeMoved
<1>3. CASE marker' = TRUE /\ status' = Recovered
  BY <1>3, RecoveredMoves DEF RuntimeMoved
<1>4. CASE marker' = TRUE /\ Coordinated
  BY <1>4, CoordinatedMoves
<1> QED BY <1>1, <1>2, <1>3, <1>4 DEF CoordinateFails

LEMMA AbandonMoves ==
  ASSUME BoundaryTypeOK, NEW s \in Scopes
  PROVE  /\ AbandonSucceeds(s) => RuntimeMoved /\ (status'[s] # "Active" \/ marker')
         /\ AbandonFails(s) => RuntimeMoved
BY DEF BoundaryTypeOK, RuntimeMoved, AbandonSucceeds, AbandonFails, ScopeAbandoned, runtime

\* How tools move under a boundary: one that is over stays over, and one that
\* begins to run is tracked, but for Codex.
ToolMoved ==
  /\ tool' \in [Tools -> {"idle", "running", "executed", "over"}]
  /\ \A k \in Tools : tool[k] = "over" => tool'[k] = "over"
  /\ \A k \in Tools : tool'[k] = "running" =>
       \/ tool[k] = "running"
       \/ harness = "Codex"
       \/ k \in Known /\ attempts[k].phase # "PendingAbandon" /\ status'[Scope(k)] # "NeverSeen"

\* A step that changes no more than the runtime and the tools leaves the file
\* sound.
LEMMA RuntimeKeeps ==
  ASSUME BoundaryInv, RuntimeMoved, ToolMoved,
         UNCHANGED <<harness, session, recovery, nextGen, attempts, starts, asked, reporting, dead>>
  PROVE  /\ FileIsSound'
         /\ boundary' \in Holding => BoundaryTypeOK'
<1> USE DEF BoundaryInv, FileIsSound
<1>1. OwnersAreSessions' /\ ImpossibleShapeIsNeverWritten'
  BY DEF ToolMoved, OwnersAreSessions, ImpossibleShapeIsNeverWritten, Known, InPhase, Clear,
         BoundaryTypeOK
<1>2. ActiveIsStarted'
  BY ScopeType DEF RuntimeMoved, ActiveIsStarted, Known, InPhase, Scope
<1>3. ClearMeansSettled'
  <2>1. SUFFICES ASSUME NEW s \in Scopes, status'[s] = "Active"
                 PROVE  (\E k \in Known : s = Scope(k)) \/ (marker' /\ recovery # Clear)
    BY DEF ClearMeansSettled, Known, Scope, Clear
  <2>2. CASE status[s] = "Active" /\ (marker => marker')
    BY <2>1, <2>2 DEF ClearMeansSettled, RuntimeMoved
  <2>3. CASE At("start") /\ \E k \in boundary.tools : s = Scope(k)
    BY <2>3 DEF LockHeld, StartHeld, At
  <2> QED BY <2>1, <2>2, <2>3 DEF RuntimeMoved
<1>4. RunningToolIsTracked'
  BY ScopeType DEF RuntimeMoved, ToolMoved, RunningToolIsTracked, Known, Scope
<1>5. boundary' \in Holding => BoundaryTypeOK'
  BY DEF BoundaryTypeOK, RuntimeMoved, ToolMoved, Holding, Known, Clear
<1> QED BY <1>1, <1>2, <1>3, <1>4, <1>5


-----------------------------------------------------------------------------
(* Steps that leave the file alone.                                        *)

FileKept == UNCHANGED <<harness, session, recovery, nextGen, attempts, starts, asked, reporting, dead>>

\* What must hold for the holder of the lock to go on to step pc with a batch.
Ready(pc, keys) ==
  /\ pc # "find"
  /\ pc \in {"sweep", "reconcile", "admit", "start", "activate"} => Starting
  /\ pc \in {"start", "activate"} =>
       \A k \in boundary.tools : k \in Known /\ attempts[k].phase # "PendingAbandon"
  /\ pc = "activate" => \A k \in boundary.tools : status'[Scope(k)] # "NeverSeen"
  /\ pc \in {"arm", "abandon", "remove", "begin", "close", "closed"} => keys # {} /\ keys \subseteq Known
  /\ pc \in {"begin", "close", "closed"} => \A k \in keys : tool[k] = "over"
  /\ pc \in {"close", "closed"} => keys \cap InPhase("PendingAbandon") = {}
  /\ harness # "Codex" /\ pc \in {"abandon", "remove"} => keys = InPhase("PendingAbandon")
  /\ pc = "remove" => status'[Scope(First(keys))] # "Active" \/ marker'
  /\ pc = "closed" => \A k \in keys : status'[Scope(k)] # "Active"
  /\ IF harness = "Codex" THEN pc \notin {"begin", "flush", "reconcile", "reprove"}
                          ELSE pc \notin {"arm", "sweep"}
  /\ pc \in {"flush", "abandon", "remove", "rebaseline", "complete", "relinquish"} =>
       recovery.state # "Clear"
  /\ pc \in {"rebaseline", "complete"} =>
       InPhase("PendingAbandon") = {} /\ (harness = "Codex" => boundary.claimed)
  /\ pc = "complete" => \A s \in Scopes : status'[s] = "Active" => \E k \in Known : s = Scope(k)

LEMMA GoesOn ==
  ASSUME BoundaryInv, RuntimeMoved, ToolMoved, FileKept, NEW pc, NEW keys, Moved(pc, keys), Ready(pc, keys)
  PROVE  BoundaryInv'
<1> USE DEF FileKept
<1>1. FileIsSound' /\ BoundaryTypeOK'
  BY RuntimeKeeps DEF Moved
<1>2. /\ boundary'.pc = pc /\ boundary'.batch = keys
      /\ boundary'.kind = boundary.kind /\ boundary'.tools = boundary.tools
      /\ boundary'.claimed = boundary.claimed
  BY DEF Moved
<1>3. Known' = Known /\ InPhase("PendingAbandon")' = InPhase("PendingAbandon")
  BY DEF Known, InPhase
<1>4. \A k : Scope(k)' = Scope(k)
  BY DEF Scope
<1>5. StartHeld'
  BY <1>2, <1>3, <1>4 DEF BoundaryInv, LockHeld, StartHeld, Ready, At, Starting
<1>6. BatchHeld'
  <2>1. \A k \in Known : tool[k] = "over" => tool'[k] = "over"
    BY DEF ToolMoved, BoundaryInv, BoundaryTypeOK
  <2>2. boundary.kind \in {"End", "Abandon", "Cleanup"} => \A k \in boundary.tools : tool'[k] = "over"
    BY DEF BoundaryInv, LockHeld, BatchHeld, ToolMoved, BoundaryTypeOK
  <2>3. boundary'.pc \in {"arm", "abandon", "remove", "begin", "close", "closed"} =>
          boundary'.batch # {} /\ boundary'.batch \subseteq Known'
    BY <1>2, <1>3 DEF Ready
  <2>4. boundary'.pc \in {"begin", "close", "closed"} => \A k \in boundary'.batch : tool'[k] = "over"
    BY <1>2, <2>1 DEF Ready
  <2>5. At("remove")' => status'[Scope(Abandonee)'] # "Active" \/ marker'
    BY <1>2, <1>4 DEF Ready, At, Abandonee, First, Scope
  <2>6. At("closed")' => \A k \in boundary'.batch : status'[Scope(k)'] # "Active"
    BY <1>2, <1>4 DEF Ready, At
  <2> QED BY <1>2, <1>3, <2>2, <2>3, <2>4, <2>5, <2>6 DEF Ready, BatchHeld, At
<1>7. RecoveryHeld'
  BY <1>2, <1>3, <1>4 DEF BoundaryInv, LockHeld, RecoveryHeld, Ready, At, AllTracked
<1> QED BY <1>1, <1>5, <1>6, <1>7 DEF BoundaryInv, LockHeld

\* The lock is given up.
LEMMA LeaveKeeps ==
  ASSUME BoundaryInv, RuntimeMoved, ToolMoved, FileKept, boundary' = Free
  PROVE  BoundaryInv'
<1>1. FileIsSound' /\ BoundaryTypeOK'
  BY RuntimeKeeps, FreeIsHolding DEF FileKept
<1>2. harness' = "Codex" => InPhase("PendingAbandon")' = {}
  BY DEF BoundaryInv, LockHeld, RecoveryHeld, FileKept, InPhase, Known
<1> QED BY <1>1, <1>2, FreeHeld DEF BoundaryInv

LEMMA RuntimeStays == ASSUME BoundaryTypeOK, UNCHANGED runtime PROVE RuntimeMoved
BY DEF BoundaryTypeOK, RuntimeMoved, runtime

LEMMA ToolStays == ASSUME BoundaryTypeOK, UNCHANGED tool PROVE ToolMoved
BY DEF BoundaryTypeOK, ToolMoved

LEMMA AllowMoves ==
  ASSUME BoundaryTypeOK, Allow,
         \/ harness = "Codex"
         \/ \A k \in boundary.tools :
              k \in Known /\ attempts[k].phase # "PendingAbandon" /\ status'[Scope(k)] # "NeverSeen"
  PROVE  ToolMoved /\ boundary' = Free
<1>1. boundary' = Free /\ tool' = [k \in Tools |-> IF k \in boundary.tools /\ tool[k] = "idle" THEN "running" ELSE tool[k]]
  BY DEF Allow
<1> QED BY <1>1 DEF BoundaryTypeOK, ToolMoved

LEMMA SweepKeeps == ASSUME BoundaryInv, Sweep PROVE BoundaryInv'
<1>1. BoundaryTypeOK /\ FileKept /\ RuntimeMoved /\ ToolMoved
  BY RuntimeStays, ToolStays DEF BoundaryInv, Sweep, FileKept, KeepFile, KeepTool, Rest, file
<1>2. At("sweep") /\ Starting /\ harness = "Codex"
  BY DEF Sweep, BoundaryInv, LockHeld, StartHeld, RecoveryHeld, At
<1>3. CASE LaneMates = {} /\ Goto("admit")
  <2>1. Moved("admit", boundary.batch) BY <1>1, <1>3, StepMoves DEF FileSteps
  <2>2. Ready("admit", boundary.batch) BY <1>2 DEF Ready
  <2> QED BY <1>1, <2>1, <2>2, GoesOn
<1>4. CASE LaneMates # {} /\ Give({First(LaneMates)}, "arm")
  <2>1. First(LaneMates) \in Known BY <1>4, FirstIsIn DEF LaneMates
  <2>2. {First(LaneMates)} \in SUBSET Tools BY <1>1, <2>1 DEF BoundaryTypeOK
  <2>3. Moved("arm", {First(LaneMates)}) BY <1>1, <1>4, <2>2, StepMoves DEF FileSteps
  <2>4. Ready("arm", {First(LaneMates)}) BY <1>2, <2>1 DEF Ready
  <2> QED BY <1>1, <2>3, <2>4, GoesOn
<1> QED BY <1>3, <1>4 DEF Sweep

LEMMA ReconcileKeeps == ASSUME BoundaryInv, Reconcile PROVE BoundaryInv'
<1> DEFINE lost == DeadOwners \cap (InPhase("PendingStart") \cup InPhase("Executed"))
<1>1. BoundaryTypeOK /\ FileKept /\ RuntimeMoved /\ ToolMoved
  BY RuntimeStays, ToolStays DEF BoundaryInv, Reconcile, FileKept, KeepFile, KeepTool, Rest, file
<1>2. At("reconcile") /\ Starting /\ harness # "Codex"
  BY DEF Reconcile, BoundaryInv, LockHeld, StartHeld, RecoveryHeld, At
<1>3. CASE lost = {} /\ Goto("admit")
  <2>1. Moved("admit", boundary.batch) BY <1>1, <1>3, StepMoves DEF FileSteps
  <2>2. Ready("admit", boundary.batch) BY <1>2 DEF Ready
  <2> QED BY <1>1, <2>1, <2>2, GoesOn
<1>4. CASE lost # {} /\ Give(lost, "begin")
  <2>1. lost \subseteq Known /\ lost \in SUBSET Tools BY <1>1 DEF InPhase, BoundaryTypeOK
  <2>2. \A k \in lost : tool[k] = "over" BY <2>1 DEF BoundaryInv, FileIsSound, OwnersAreSessions, DeadOwners
  <2> HIDE DEF lost
  <2>3. Moved("begin", lost) BY <1>1, <1>4, <2>1, StepMoves DEF FileSteps
  <2>4. Ready("begin", lost) BY <1>2, <1>4, <2>1, <2>2 DEF Ready
  <2> QED BY <1>1, <2>3, <2>4, GoesOn
<1> QED BY <1>3, <1>4 DEF Reconcile

LEMMA ReproveKeeps == ASSUME BoundaryInv, Reprove PROVE BoundaryInv'
<1> DEFINE unconfirmed == InPhase("PendingStart")
<1>1. BoundaryTypeOK /\ FileKept /\ RuntimeMoved /\ ToolMoved
  BY RuntimeStays, ToolStays DEF BoundaryInv, Reprove, FileKept, KeepFile, KeepTool, Rest, file, Leave
<1>2. At("reprove") /\ harness # "Codex"
  BY DEF Reprove, BoundaryInv, LockHeld, RecoveryHeld, At
<1>3. CASE unconfirmed # {} /\ unconfirmed \subseteq DeadOwners /\ Give(unconfirmed, "begin")
  <2>1. unconfirmed \subseteq Known /\ unconfirmed \in SUBSET Tools BY <1>1 DEF InPhase, BoundaryTypeOK
  <2>2. \A k \in unconfirmed : tool[k] = "over"
    BY <1>3, <2>1 DEF BoundaryInv, FileIsSound, OwnersAreSessions, DeadOwners
  <2> HIDE DEF unconfirmed
  <2>3. Moved("begin", unconfirmed) BY <1>1, <1>3, <2>1, StepMoves DEF FileSteps
  <2>4. Ready("begin", unconfirmed) BY <1>2, <1>3, <2>1, <2>2 DEF Ready
  <2> QED BY <1>1, <2>3, <2>4, GoesOn
<1>4. CASE Leave
  BY <1>1, <1>4, LeaveKeeps DEF Leave
<1> QED BY <1>3, <1>4 DEF Reprove

LEMMA FindKeeps == ASSUME BoundaryInv, Find PROVE BoundaryInv'
<1> DEFINE found == Known \cap boundary.tools
<1>1. BoundaryTypeOK /\ FileKept /\ RuntimeMoved /\ ToolMoved
  BY RuntimeStays, ToolStays DEF BoundaryInv, Find, FileKept, KeepFile, KeepTool, Rest, file, Leave
<1>2. found \subseteq Known /\ found \in SUBSET Tools
  BY <1>1 DEF BoundaryTypeOK
<1>3. CASE Leave
  BY <1>1, <1>3, LeaveKeeps DEF Leave
<1>4. CASE found # {} /\ boundary.kind = "End" /\ found \subseteq Confirmed /\ Give(found, "close")
  <2>1. \A k \in found : tool[k] = "over" BY <1>4 DEF BoundaryInv, LockHeld, BatchHeld
  <2>2. found \cap InPhase("PendingAbandon") = {} BY <1>4 DEF Confirmed, InPhase
  <2> HIDE DEF found
  <2>3. Moved("close", found) BY <1>1, <1>2, <1>4, StepMoves DEF SeamSteps
  <2>4. Ready("close", found) BY <1>2, <1>4, <2>1, <2>2 DEF Ready
  <2> QED BY <1>1, <2>3, <2>4, GoesOn
<1>5. CASE found # {} /\ Give(found, GiveUp)
  <2>1. \A k \in found : tool[k] = "over"
    BY DEF Find, BoundaryInv, LockHeld, BatchHeld
  <2>2. GiveUp = (IF harness = "Codex" THEN "arm" ELSE "begin") /\ GiveUp \in FileSteps
    BY DEF GiveUp, FileSteps
  <2> HIDE DEF found
  <2>3. Moved(GiveUp, found) BY <1>1, <1>2, <1>5, <2>2, StepMoves
  <2>4. Ready(GiveUp, found) BY <1>2, <1>5, <2>1, <2>2 DEF Ready
  <2> QED BY <1>1, <2>3, <2>4, GoesOn
<1> QED BY <1>3, <1>4, <1>5 DEF Find

LEMMA ReuseKeeps == ASSUME BoundaryInv, NEW k \in Tools, Reuse(k) PROVE BoundaryInv'
<1>1. BoundaryTypeOK /\ FileKept /\ RuntimeMoved
  BY RuntimeStays DEF BoundaryInv, Reuse, FileKept, KeepFile, Rest, file
<1>2. boundary.tools = {k} /\ k \in Known /\ attempts[k].phase # "PendingAbandon" /\ Starting
  <2>1. Starting /\ k \in boundary.tools /\ \E j \in Tools : boundary.tools = {j}
    BY DEF Reuse, BoundaryInv, LockHeld, StartHeld, At
  <2>2. k \in Known /\ (harness = "Codex" \/ attempts[k].phase # "PendingAbandon")
    BY DEF Reuse, Reusable
  <2>3. harness = "Codex" => attempts[k].phase # "PendingAbandon"
    BY <2>2 DEF BoundaryInv, LockHeld, RecoveryHeld, InPhase
  <2> QED BY <2>1, <2>2, <2>3
<1>3. CASE attempts[k].phase = "Active" /\ Allow
  <2>1. status'[Scope(k)] # "NeverSeen"
    BY <1>1, <1>2, <1>3, ScopeType DEF BoundaryInv, FileIsSound, ActiveIsStarted, InPhase, RuntimeMoved
  <2>2. ToolMoved /\ boundary' = Free
    BY <1>1, <1>2, <1>3, <2>1, AllowMoves
  <2> QED BY <1>1, <2>2, LeaveKeeps
<1>4. CASE Goto("start") /\ KeepTool
  <2>1. ToolMoved BY <1>1, <1>4, ToolStays DEF KeepTool
  <2>2. Moved("start", boundary.batch) BY <1>1, <1>4, StepMoves DEF SeamSteps
  <2>3. Ready("start", boundary.batch) BY <1>2 DEF Ready
  <2> QED BY <1>1, <2>1, <2>2, <2>3, GoesOn
<1> QED BY <1>3, <1>4 DEF Reuse

LEMMA DenyKeeps == ASSUME BoundaryInv, NEW k \in Tools, Deny(k) PROVE BoundaryInv'
BY LeaveKeeps, RuntimeStays, ToolStays DEF BoundaryInv, Deny, FileKept, KeepFile, Rest, file, Leave

LEMMA TransactionFailsKeeps == ASSUME BoundaryInv, TransactionFails PROVE BoundaryInv'
BY LeaveKeeps, RuntimeStays, ToolStays DEF BoundaryInv, TransactionFails, FileKept, KeepFile, Rest, file, Leave

LEMMA FlushKeeps == ASSUME BoundaryInv, Flush PROVE BoundaryInv'
<1>1. BoundaryTypeOK /\ FileKept /\ ToolMoved /\ harness # "Codex" /\ recovery.state # "Clear"
  BY ToolStays DEF BoundaryInv, Flush, FileKept, KeepFile, KeepTool, Rest, file, LockHeld, RecoveryHeld, At
<1>2. CASE /\ CoordinateSucceeds
           /\ LET doomed == InPhase("PendingAbandon")
              IN  Give(doomed, IF doomed = {} THEN "rebaseline" ELSE "abandon")
  <2> DEFINE doomed == InPhase("PendingAbandon")
             next == IF doomed = {} THEN "rebaseline" ELSE "abandon"
  <2>1. RuntimeMoved BY <1>1, <1>2, CoordinatedMoves DEF CoordinateSucceeds
  <2>2. doomed \subseteq Known /\ doomed \in SUBSET Tools BY <1>1 DEF InPhase, BoundaryTypeOK
  <2>3. next \in SeamSteps /\ Give(doomed, next) BY <1>2 DEF SeamSteps
  <2>4. Moved(next, doomed) BY <1>1, <2>2, <2>3, StepMoves
  <2>5. Ready(next, doomed)
    <3>1. CASE doomed = {} BY <3>1, <1>1 DEF Ready
    <3>2. CASE doomed # {} BY <3>2, <1>1, <2>2 DEF Ready
    <3> QED BY <3>1, <3>2
  <2> QED BY <1>1, <2>1, <2>4, <2>5, GoesOn
<1>3. CASE CoordinateFails /\ Goto("relinquish")
  <2>1. RuntimeMoved BY <1>1, <1>3, FailureMoves
  <2>2. Moved("relinquish", boundary.batch) BY <1>1, <1>3, StepMoves DEF FileSteps
  <2>3. Ready("relinquish", boundary.batch) BY <1>1 DEF Ready
  <2> QED BY <1>1, <2>1, <2>2, <2>3, GoesOn
<1> QED BY <1>2, <1>3 DEF Flush

LEMMA AbandoneeIsKnown ==
  ASSUME BoundaryInv, At("abandon") \/ At("remove")
  PROVE  Abandonee \in boundary.batch /\ Abandonee \in Known /\ Scope(Abandonee) \in Scopes
BY FirstIsIn, ScopeType DEF BoundaryInv, LockHeld, BatchHeld, At, Abandonee

LEMMA AbandonKeeps == ASSUME BoundaryInv, Abandon PROVE BoundaryInv'
<1>1. BoundaryTypeOK /\ FileKept /\ ToolMoved /\ At("abandon") /\ recovery.state # "Clear"
  BY ToolStays DEF BoundaryInv, Abandon, FileKept, KeepFile, KeepTool, Leave, Rest, file, LockHeld, RecoveryHeld, At
<1>2. Scope(Abandonee) \in Scopes
  BY <1>1, AbandoneeIsKnown
<1>3. CASE AbandonSucceeds(Scope(Abandonee)) /\ Goto("remove")
  <2>1. RuntimeMoved /\ (status'[Scope(Abandonee)] # "Active" \/ marker') BY <1>1, <1>2, <1>3, AbandonMoves
  <2>2. Moved("remove", boundary.batch) BY <1>1, <1>3, StepMoves DEF FileSteps
  <2>3. Ready("remove", boundary.batch)
    BY <1>1, <2>1 DEF Ready, BoundaryInv, LockHeld, BatchHeld, At, Abandonee
  <2> QED BY <1>1, <2>1, <2>2, <2>3, GoesOn
<1>4. ASSUME AbandonFails(Scope(Abandonee)) PROVE RuntimeMoved
  BY <1>1, <1>2, <1>4, AbandonMoves
<1>5. CASE AbandonFails(Scope(Abandonee)) /\ Leave
  BY <1>1, <1>4, <1>5, LeaveKeeps DEF Leave
<1>6. CASE AbandonFails(Scope(Abandonee)) /\ harness # "Codex" /\ Goto("relinquish")
  <2>1. Moved("relinquish", boundary.batch) BY <1>1, <1>6, StepMoves DEF FileSteps
  <2>2. Ready("relinquish", boundary.batch) BY <1>1, <1>6 DEF Ready
  <2> QED BY <1>1, <1>4, <1>6, <2>1, <2>2, GoesOn
<1> QED BY <1>3, <1>5, <1>6 DEF Abandon

LEMMA RebaselineKeeps == ASSUME BoundaryInv, Rebaseline PROVE BoundaryInv'
<1>1. /\ BoundaryTypeOK /\ FileKept /\ ToolMoved /\ At("rebaseline") /\ recovery.state # "Clear"
      /\ InPhase("PendingAbandon") = {} /\ (harness = "Codex" => boundary.claimed)
  BY ToolStays DEF BoundaryInv, Rebaseline, FileKept, KeepFile, KeepTool, Rest, file, LockHeld, RecoveryHeld, At
<1>2. CASE CoordinateSucceeds /\ Goto("complete")
  <2>1. RuntimeMoved /\ \A s \in Scopes : status'[s] = "Active" => status[s] = "Active" /\ ~marker
    BY <1>1, <1>2, CoordinatedMoves DEF CoordinateSucceeds
  <2>2. Moved("complete", boundary.batch) BY <1>1, <1>2, StepMoves DEF FileSteps
  <2>3. \A s \in Scopes : status'[s] = "Active" => \E k \in Known : s = Scope(k)
    BY <2>1 DEF BoundaryInv, FileIsSound, ClearMeansSettled
  <2>4. Ready("complete", boundary.batch) BY <1>1, <2>3 DEF Ready
  <2> QED BY <1>1, <2>1, <2>2, <2>4, GoesOn
<1>3. CASE CoordinateFails /\ Goto("relinquish")
  <2>1. RuntimeMoved BY <1>1, <1>3, FailureMoves
  <2>2. Moved("relinquish", boundary.batch) BY <1>1, <1>3, StepMoves DEF FileSteps
  <2>3. Ready("relinquish", boundary.batch) BY <1>1 DEF Ready
  <2> QED BY <1>1, <2>1, <2>2, <2>3, GoesOn
<1> QED BY <1>2, <1>3 DEF Rebaseline

LEMMA StartKeeps == ASSUME BoundaryInv, Start PROVE BoundaryInv'
<1>1. /\ BoundaryTypeOK /\ FileKept /\ At("start") /\ Starting
      /\ \A k \in boundary.tools : k \in Known /\ attempts[k].phase # "PendingAbandon"
  BY DEF BoundaryInv, Start, FileKept, KeepFile, Rest, file, LockHeld, StartHeld, At
<1>2. ASSUME CoordinateSucceeds
      PROVE  RuntimeMoved /\ \A k \in boundary.tools : status'[Scope(k)] # "NeverSeen"
  BY <1>1, <1>2, CoordinatedMoves DEF CoordinateSucceeds
<1>3. CASE CoordinateSucceeds /\ Allow
  <2>1. ToolMoved /\ boundary' = Free BY <1>1, <1>2, <1>3, AllowMoves
  <2> QED BY <1>1, <1>2, <1>3, <2>1, LeaveKeeps
<1>4. CASE CoordinateSucceeds /\ Goto("activate") /\ KeepTool
  <2>1. ToolMoved BY <1>1, <1>4, ToolStays DEF KeepTool
  <2>2. Moved("activate", boundary.batch) BY <1>1, <1>4, StepMoves DEF FileSteps
  <2>3. Ready("activate", boundary.batch) BY <1>1, <1>2, <1>4 DEF Ready
  <2> QED BY <1>1, <1>2, <1>4, <2>1, <2>2, <2>3, GoesOn
<1>5. CASE CoordinateFails /\ Leave
  BY <1>1, <1>5, FailureMoves, ToolStays, LeaveKeeps DEF Leave
<1> QED BY <1>3, <1>4, <1>5 DEF Start

LEMMA CloseKeeps == ASSUME BoundaryInv, Close PROVE BoundaryInv'
<1>1. BoundaryTypeOK /\ FileKept /\ ToolMoved /\ At("close")
  BY ToolStays DEF BoundaryInv, Close, FileKept, KeepFile, KeepTool, Rest, file
<1>2. /\ boundary.batch # {} /\ boundary.batch \subseteq Known
      /\ \A k \in boundary.batch : tool[k] = "over"
      /\ boundary.batch \cap InPhase("PendingAbandon") = {}
  BY <1>1 DEF BoundaryInv, LockHeld, BatchHeld, At
<1>3. CASE CoordinateSucceeds /\ Goto("closed")
  <2>1. RuntimeMoved /\ \A k \in Known \cap boundary.batch : status'[Scope(k)] # "Active"
    BY <1>1, <1>3, CoordinatedMoves DEF CoordinateSucceeds
  <2>2. Moved("closed", boundary.batch) BY <1>1, <1>3, StepMoves DEF FileSteps
  <2>3. Ready("closed", boundary.batch) BY <1>1, <1>2, <2>1 DEF Ready
  <2> QED BY <1>1, <2>1, <2>2, <2>3, GoesOn
<1>4. CASE CoordinateFails /\ Goto(GiveUp)
  <2>1. RuntimeMoved BY <1>1, <1>4, FailureMoves
  <2>2. GiveUp = (IF harness = "Codex" THEN "arm" ELSE "begin") /\ GiveUp \in FileSteps
    BY DEF GiveUp, FileSteps
  <2>3. Moved(GiveUp, boundary.batch) BY <1>1, <1>4, <2>2, StepMoves
  <2>4. Ready(GiveUp, boundary.batch) BY <1>2, <2>2 DEF Ready
  <2> QED BY <1>1, <2>1, <2>3, <2>4, GoesOn
<1> QED BY <1>3, <1>4 DEF Close

LEMMA KilledKeeps == ASSUME BoundaryInv, Killed PROVE BoundaryInv'
<1>1. BoundaryTypeOK /\ FileKept
  BY DEF BoundaryInv, Killed, FileKept, KeepFile, Rest, file
<1>2. RuntimeMoved
  BY <1>1, RuntimeStays, FailureMoves, AbandoneeIsKnown, AbandonMoves DEF Killed
<1>3. ToolMoved /\ boundary' = Free
  BY <1>1, ToolStays, AllowMoves DEF Killed, Leave
<1> QED BY <1>1, <1>2, <1>3, LeaveKeeps

LEMMA ElsewhereKeeps == ASSUME BoundaryInv, Elsewhere PROVE BoundaryInv'
<1>1. BoundaryTypeOK /\ FileKept /\ ToolMoved /\ At("free")
  BY ToolStays DEF BoundaryInv, Elsewhere, FileKept, file, world
<1>2. RuntimeMoved
  BY <1>1, RecoveredMoves DEF Elsewhere, RuntimeMoved, BoundaryTypeOK
<1>3. Moved("free", boundary.batch)
  BY <1>1 DEF Elsewhere, Moved, Holding, BoundaryTypeOK, At
<1>4. Ready("free", boundary.batch)
  BY DEF Ready
<1> QED BY <1>1, <1>2, <1>3, <1>4, GoesOn

-----------------------------------------------------------------------------
(* The harness, and the entry into a boundary.                             *)

\* What the harness does to the file and to the tools, without the boundary lock.
HarnessMoved ==
  /\ UNCHANGED <<harness, session, recovery, nextGen, starts, boundary, status, marker>>
  /\ DOMAIN attempts' = Known /\ attempts' \in [Known -> Attempt]
  /\ \A k \in Known :
       /\ attempts'[k].scope = attempts[k].scope /\ attempts'[k].owner = attempts[k].owner
       /\ \/ attempts'[k].phase = attempts[k].phase
          \/ attempts[k].phase = "PendingStart" /\ attempts'[k].phase = "Executed"
  /\ tool' \in [Tools -> {"idle", "running", "executed", "over"}]
  /\ \A k \in Tools : tool[k] = "over" => tool'[k] = "over"
  /\ \A k \in Tools : tool'[k] = "running" => tool[k] = "running" \/ harness = "Codex"
  /\ asked' \subseteq Tools /\ reporting' \subseteq Tools /\ dead' \subseteq Sessions /\ dead \subseteq dead'
  /\ \A k \in Tools : session[k] \in dead' => tool'[k] = "over"

LEMMA HarnessKeeps == ASSUME BoundaryInv, HarnessMoved PROVE BoundaryInv'
<1>1. BoundaryTypeOK'
  BY DEF BoundaryInv, BoundaryTypeOK, HarnessMoved, Known, Clear
<1>2. Known' = Known /\ \A k \in Known : Scope(k)' = Scope(k)
  BY DEF HarnessMoved, Known, Scope
<1>3. InPhase("PendingAbandon")' = InPhase("PendingAbandon") /\ InPhase("Active")' = InPhase("Active")
  BY DEF HarnessMoved, Known, InPhase
<1>4. \A k \in Known : attempts[k].phase # "PendingAbandon" => attempts'[k].phase # "PendingAbandon"
  BY DEF HarnessMoved
<1>5. StartHeld'
  BY <1>2, <1>4 DEF BoundaryInv, LockHeld, StartHeld, HarnessMoved, At, Starting
<1>6. BatchHeld'
  <2>1. At("remove") => Abandonee \in Known
    BY AbandoneeIsKnown DEF BoundaryInv
  <2>2. \A k \in boundary.tools \cup boundary.batch : tool[k] = "over" => tool'[k] = "over"
    BY DEF HarnessMoved, BoundaryInv, BoundaryTypeOK
  <2>3. At("remove")' => status[Scope(Abandonee)'] # "Active" \/ marker
    BY <1>2, <2>1 DEF BoundaryInv, LockHeld, BatchHeld, HarnessMoved, At, Abandonee, Scope
  <2>4. At("closed")' => \A k \in boundary.batch : status[Scope(k)'] # "Active"
    BY <1>2 DEF BoundaryInv, LockHeld, BatchHeld, HarnessMoved, At
  <2> QED BY <1>2, <1>3, <2>2, <2>3, <2>4 DEF BoundaryInv, LockHeld, BatchHeld, HarnessMoved, At
<1>7. RecoveryHeld'
  BY <1>2, <1>3 DEF BoundaryInv, LockHeld, RecoveryHeld, AllTracked, HarnessMoved, At
<1>8. OwnersAreSessions' /\ ActiveIsStarted'
  BY <1>2, <1>3 DEF BoundaryInv, FileIsSound, OwnersAreSessions, ActiveIsStarted, InPhase, HarnessMoved
<1>9. ImpossibleShapeIsNeverWritten' /\ ClearMeansSettled'
  BY <1>2, <1>3 DEF BoundaryInv, FileIsSound, ImpossibleShapeIsNeverWritten, ClearMeansSettled, HarnessMoved, Clear
<1>10. RunningToolIsTracked'
  BY <1>2, <1>4 DEF BoundaryInv, FileIsSound, RunningToolIsTracked, HarnessMoved
<1> QED BY <1>1, <1>5, <1>6, <1>7, <1>8, <1>9, <1>10 DEF BoundaryInv, LockHeld, FileIsSound

LEMMA HarnessStepKeeps == ASSUME BoundaryInv, HarnessStep PROVE BoundaryInv'
<1> USE DEF BoundaryInv, FileIsSound
<1>1. BoundaryTypeOK /\ OwnersAreSessions /\ attempts \in [Known -> Attempt]
  BY DEF BoundaryTypeOK
<1>2. ASSUME NEW k \in Tools, Ask(k) PROVE HarnessMoved
  BY <1>1, <1>2 DEF Ask, HarnessMoved, BoundaryTypeOK, OwnersAreSessions, file, runtime, Known
<1>3. ASSUME NEW k \in Tools, AskFails(k) PROVE HarnessMoved
  BY <1>1, <1>3 DEF AskFails, HarnessMoved, BoundaryTypeOK, OwnersAreSessions, file, runtime, Known
<1>4. ASSUME NEW k \in Tools, Report(k) PROVE HarnessMoved
  BY <1>1, <1>4 DEF Report, HarnessMoved, BoundaryTypeOK, OwnersAreSessions, file, runtime, Known
<1>5. ASSUME NEW k \in Tools, ReportFails(k) PROVE HarnessMoved
  BY <1>1, <1>5 DEF ReportFails, HarnessMoved, BoundaryTypeOK, OwnersAreSessions, file, runtime, Known
<1>6. ASSUME NEW k \in Tools, MarkExecuted(k) PROVE HarnessMoved
  <2>1. /\ DOMAIN attempts' = Known /\ attempts' \in [Known -> Attempt]
        /\ \A j \in Known :
             /\ attempts'[j].scope = attempts[j].scope /\ attempts'[j].owner = attempts[j].owner
             /\ \/ attempts'[j].phase = attempts[j].phase
                \/ attempts[j].phase = "PendingStart" /\ attempts'[j].phase = "Executed"
    <3>1. CASE MayExecute(k)
      <4>1. k \in Known /\ attempts[k].phase = "PendingStart" /\ attempts' = [attempts EXCEPT ![k].phase = "Executed"]
        BY <1>6, <3>1 DEF MarkExecuted, MayExecute, InPhase
      <4>2. attempts[k] \in Attempt BY <1>1, <4>1
      <4>3. [attempts[k] EXCEPT !.phase = "Executed"] \in Attempt
        BY <4>2 DEF Attempt, BoundaryPhase
      <4>4. attempts' \in [Known -> Attempt]
        BY <1>1, <4>1, <4>3
      <4>5. /\ attempts'[k].phase = "Executed" /\ attempts'[k].scope = attempts[k].scope
            /\ attempts'[k].owner = attempts[k].owner
        BY <1>1, <4>1, <4>2 DEF Attempt
      <4> QED BY <1>1, <4>1, <4>4, <4>5
    <3>2. CASE ~MayExecute(k)
      BY <1>1, <1>6, <3>2 DEF MarkExecuted, Known
    <3> QED BY <3>1, <3>2
  <2> QED BY <1>1, <1>6, <2>1 DEF MarkExecuted, HarnessMoved, BoundaryTypeOK, OwnersAreSessions, runtime
<1>7. ASSUME NEW s \in Sessions, Die(s) PROVE HarnessMoved
  BY <1>1, <1>7 DEF Die, HarnessMoved, BoundaryTypeOK, OwnersAreSessions, file, runtime, Known
<1> QED BY <1>2, <1>3, <1>4, <1>5, <1>6, <1>7, HarnessKeeps DEF HarnessStep

\* How a hook enters.
EnterMoved(kind, tools, pc) ==
  /\ Enter(kind, tools, pc)
  /\ tool' \in [Tools -> {"idle", "running", "executed", "over"}]
  /\ \A k \in Tools : tool[k] = "over" => tool'[k] = "over"
  /\ \A k \in Tools : tool'[k] = "running" => tool[k] = "running"
  /\ asked' \subseteq Tools /\ UNCHANGED <<reporting, dead>>

LEMMA EnterKeeps ==
  ASSUME BoundaryInv, NEW kind \in {"Start", "End", "Abandon", "Cleanup", "Repair"}, NEW tools \in SUBSET Tools,
         NEW pc \in {"sweep", "reconcile", "admit", "find", "reprove"}, EnterMoved(kind, tools, pc),
         pc \in {"sweep", "reconcile", "admit"} => kind = "Start",
         kind = "Start" => \E k \in Tools : tools = {k},
         pc = "find" => kind \in {"End", "Abandon", "Cleanup"},
         kind \in {"End", "Abandon", "Cleanup"} => \A k \in tools : tool'[k] = "over",
         IF harness = "Codex" THEN pc \notin {"reconcile", "reprove"} ELSE pc # "sweep"
  PROVE  BoundaryInv'
<1>1. /\ boundary' \in Holding /\ boundary'.pc = pc /\ boundary'.kind = kind /\ boundary'.tools = tools
      /\ UNCHANGED <<harness, session, nextGen, attempts, starts, status, marker>>
  <2>1. boundary' = [Free EXCEPT !.pc = pc, !.kind = kind, !.tools = tools]
    BY DEF EnterMoved, Enter
  <2>2. Free \in Holding BY FreeIsHolding
  <2> QED BY <2>1, <2>2 DEF Holding, FileSteps, EnterMoved, Enter, runtime
<1>2. /\ recovery' \in [state : {"Pending", "Flushing"}, gen : 1..MaxGeneration] \cup {Clear}
      /\ recovery'.gen = recovery.gen
      /\ recovery' = Clear <=> recovery = Clear
      /\ recovery'.state = "Flushing" => recovery.state = "Flushing"
  <2>1. recovery \in [state : {"Pending", "Flushing"}, gen : 1..MaxGeneration] \cup {Clear}
    BY DEF BoundaryInv, BoundaryTypeOK
  <2>2. recovery' \in {recovery, Normalized} BY DEF EnterMoved, Enter
  <2> QED BY <2>1, <2>2 DEF Normalized, RecoveryOf, Clear
<1>3. Known' = Known /\ (\A p : InPhase(p)' = InPhase(p)) /\ \A k : Scope(k)' = Scope(k)
  BY <1>1 DEF Known, InPhase, Scope
<1>4. BoundaryTypeOK'
  BY <1>1, <1>2, <1>3 DEF BoundaryInv, BoundaryTypeOK, Holding, EnterMoved, Clear
<1>5. StartHeld' /\ BatchHeld' /\ RecoveryHeld'
  BY <1>1, <1>3 DEF BoundaryInv, LockHeld, StartHeld, BatchHeld, RecoveryHeld, At, Starting
<1>6. OwnersAreSessions' /\ ActiveIsStarted'
  BY <1>1, <1>3 DEF BoundaryInv, FileIsSound, OwnersAreSessions, ActiveIsStarted, EnterMoved
<1>7. ImpossibleShapeIsNeverWritten' /\ ClearMeansSettled'
  BY <1>1, <1>2, <1>3 DEF BoundaryInv, FileIsSound, ImpossibleShapeIsNeverWritten, ClearMeansSettled, Clear
<1>8. RunningToolIsTracked'
  BY <1>1, <1>3 DEF BoundaryInv, FileIsSound, RunningToolIsTracked, EnterMoved
<1> QED BY <1>4, <1>5, <1>6, <1>7, <1>8 DEF BoundaryInv, LockHeld, FileIsSound

LEMMA EnterStepKeeps == ASSUME BoundaryInv, EnterStep PROVE BoundaryInv'
<1>1. BoundaryTypeOK BY DEF BoundaryInv
<1>2. ASSUME NEW k \in Tools, EnterStart(k) PROVE BoundaryInv'
  <2>1. EnterMoved("Start", {k}, FirstStep)
    BY <1>1, <1>2 DEF EnterStart, EnterMoved, BoundaryTypeOK
  <2>2. /\ FirstStep \in {"sweep", "reconcile", "admit"}
        /\ IF harness = "Codex" THEN FirstStep = "sweep" ELSE FirstStep # "sweep"
    BY DEF FirstStep
  <2> QED BY <2>1, <2>2, EnterKeeps
<1>3. ASSUME NEW k \in Tools, NEW kind \in {"End", "Abandon"}, EnterTerminal(kind, k) PROVE BoundaryInv'
  <2>1. EnterMoved(kind, {k}, "find") /\ tool'[k] = "over"
    BY <1>1, <1>3 DEF EnterTerminal, EnterMoved, BoundaryTypeOK
  <2> QED BY <2>1, EnterKeeps
<1>4. ASSUME NEW keys \in SUBSET Tools, EnterCleanup(keys) PROVE BoundaryInv'
  <2>1. EnterMoved("Cleanup", keys, "find") /\ \A k \in keys : tool'[k] = "over"
    BY <1>1, <1>4 DEF EnterCleanup, EnterMoved, BoundaryTypeOK
  <2> QED BY <2>1, EnterKeeps
<1>5. ASSUME EnterRepair PROVE BoundaryInv'
  <2>1. EnterMoved("Repair", {}, "reprove") /\ harness = "OpenCode"
    BY <1>1, <1>5 DEF EnterRepair, EnterMoved, BoundaryTypeOK, world
  <2> QED BY <2>1, EnterKeeps
<1> QED BY <1>2, <1>3, <1>4, <1>5 DEF EnterStep

-----------------------------------------------------------------------------
(* Steps that write the file.  The runtime stays.                          *)

\* The runtime, the owners and what only the harness changes stay.
FileWritten ==
  /\ UNCHANGED <<harness, session, status, marker, asked, reporting, dead>>
  /\ recovery' \in [state : {"Pending", "Flushing"}, gen : 1..MaxGeneration] \cup {Clear}
  /\ nextGen' \in 1..(MaxGeneration + 1) /\ recovery'.gen < nextGen'
  /\ Known' \subseteq Tools /\ attempts' \in [Known' -> Attempt]
  /\ starts' \in [Tools -> 0..MaxStarts]
  /\ ToolMoved

\* An attempt that is kept keeps its scope, its owner and, unless it is written off, its phase.
AttemptsKept ==
  /\ Known' \subseteq Known
  /\ \A k \in Known' : attempts'[k].scope = attempts[k].scope /\ attempts'[k].owner = attempts[k].owner

LEMMA WrittenType ==
  ASSUME BoundaryInv, FileWritten, boundary' \in Holding
  PROVE  BoundaryTypeOK'
BY DEF BoundaryInv, BoundaryTypeOK, FileWritten, Holding, ToolMoved, Clear, Known

LEMMA KeptScopes == ASSUME AttemptsKept, NEW k \in Known' PROVE Scope(k)' = Scope(k)
BY DEF AttemptsKept, Scope

LEMMA OwnersStay == ASSUME BoundaryInv, FileWritten, AttemptsKept PROVE OwnersAreSessions'
BY DEF BoundaryInv, BoundaryTypeOK, FileIsSound, OwnersAreSessions, FileWritten, AttemptsKept, ToolMoved

\* A step that only moves the recovery and the boundary.
LEMMA RecoveryKeeps ==
  ASSUME BoundaryInv, FileWritten, UNCHANGED <<attempts, tool>>
  PROVE  /\ Known' = Known /\ (\A p : InPhase(p)' = InPhase(p)) /\ \A k : Scope(k)' = Scope(k)
         /\ OwnersAreSessions' /\ ActiveIsStarted' /\ RunningToolIsTracked'
         /\ (recovery = Clear \/ recovery' # Clear) => ClearMeansSettled'
<1>1. Known' = Known /\ (\A p : InPhase(p)' = InPhase(p)) /\ \A k : Scope(k)' = Scope(k)
  BY DEF Known, InPhase, Scope
<1>2. OwnersAreSessions'
  BY <1>1, OwnersStay DEF AttemptsKept
<1>3. ActiveIsStarted' /\ RunningToolIsTracked'
  BY <1>1 DEF BoundaryInv, FileIsSound, ActiveIsStarted, RunningToolIsTracked, FileWritten
<1>4. (recovery = Clear \/ recovery' # Clear) => ClearMeansSettled'
  BY <1>1 DEF BoundaryInv, FileIsSound, ClearMeansSettled, FileWritten, Clear
<1> QED BY <1>1, <1>2, <1>3, <1>4

LEMMA ClaimFlushKeeps == ASSUME BoundaryInv, NEW k \in Tools, ClaimFlush(k) PROVE BoundaryInv'
<1>1. BoundaryTypeOK /\ recovery.state = "Pending" /\ Starting /\ (harness = "Codex" => Known = {})
  BY DEF BoundaryInv, ClaimFlush, MayClaim, LockHeld, StartHeld, At
<1>2. UNCHANGED <<harness, session, status, marker, asked, reporting, dead, nextGen, attempts, starts, tool>>
  BY DEF ClaimFlush, KeepAttempts, Rest, runtime
<1>3. recovery' = [state |-> "Flushing", gen |-> recovery.gen] /\ recovery.gen \in 1..MaxGeneration
  BY <1>1 DEF ClaimFlush, RecoveryOf, BoundaryTypeOK, Clear
<1>4. ToolMoved BY <1>1, <1>2, ToolStays
<1>5. FileWritten
  BY <1>1, <1>2, <1>3, <1>4 DEF FileWritten, BoundaryTypeOK, Known
<1>6. /\ boundary' \in Holding /\ boundary'.kind = boundary.kind /\ boundary'.tools = boundary.tools
      /\ boundary'.claimed
      /\ boundary'.pc \in {"relinquish", "rebaseline", "flush"}
      /\ boundary'.pc = "rebaseline" => harness = "Codex"
      /\ boundary'.pc = "flush" => harness # "Codex"
  <2>1. recovery.gen \in Generations BY <1>3, GenerationBound DEF Generations
  <2> QED BY <1>1, <2>1 DEF ClaimFlush, BoundaryTypeOK, Holding, SeamSteps, FileSteps
<1>7. BoundaryTypeOK' BY <1>5, <1>6, WrittenType
<1>8. /\ Known' = Known /\ (\A p : InPhase(p)' = InPhase(p))
      /\ OwnersAreSessions' /\ ActiveIsStarted' /\ RunningToolIsTracked' /\ ClearMeansSettled'
  BY <1>2, <1>3, <1>5, RecoveryKeeps DEF Clear
<1>9. StartHeld' /\ BatchHeld'
  BY <1>1, <1>2, <1>6 DEF BoundaryInv, LockHeld, StartHeld, BatchHeld, At, Starting
<1>10. harness = "Codex" => InPhase("PendingAbandon") = {}
  BY <1>1 DEF InPhase
<1>11. RecoveryHeld'
  BY <1>2, <1>3, <1>6, <1>8, <1>10 DEF RecoveryHeld, At
<1>12. ImpossibleShapeIsNeverWritten'
  BY <1>1, <1>2, <1>3, <1>8 DEF ImpossibleShapeIsNeverWritten, Clear
<1> QED BY <1>7, <1>8, <1>9, <1>11, <1>12 DEF BoundaryInv, LockHeld, FileIsSound

LEMMA ArmKeeps == ASSUME BoundaryInv, Arm PROVE BoundaryInv'
<1>1. BoundaryTypeOK /\ At("arm") /\ harness = "Codex"
  BY DEF BoundaryInv, Arm, LockHeld, RecoveryHeld, At
<1>2. UNCHANGED <<harness, session, status, marker, asked, reporting, dead, attempts, starts, tool>>
  BY DEF Arm, KeepAttempts, Rest, runtime
<1>3. /\ recovery' \in [state : {"Pending"}, gen : 1..MaxGeneration]
      /\ nextGen' \in 1..(MaxGeneration + 1) /\ recovery'.gen < nextGen'
  BY <1>1, GenerationBound DEF Arm, BoundaryTypeOK, Clear
<1>4. ToolMoved BY <1>1, <1>2, ToolStays
<1>5. FileWritten
  BY <1>1, <1>2, <1>3, <1>4 DEF FileWritten, BoundaryTypeOK, Known
<1>6. Moved("abandon", boundary.batch)
  BY <1>1, StepMoves DEF Arm, SeamSteps
<1>7. BoundaryTypeOK' BY <1>5, <1>6, WrittenType DEF Moved
<1>8. /\ Known' = Known /\ (\A p : InPhase(p)' = InPhase(p))
      /\ OwnersAreSessions' /\ ActiveIsStarted' /\ RunningToolIsTracked' /\ ClearMeansSettled'
  BY <1>2, <1>3, <1>5, RecoveryKeeps DEF Clear
<1>9. StartHeld' /\ BatchHeld'
  BY <1>1, <1>2, <1>6, <1>8 DEF BoundaryInv, LockHeld, StartHeld, BatchHeld, At, Starting, Moved
<1>10. RecoveryHeld'
  BY <1>1, <1>2, <1>3, <1>6, <1>8 DEF BoundaryInv, LockHeld, RecoveryHeld, At, Moved
<1>11. ImpossibleShapeIsNeverWritten'
  BY <1>3 DEF ImpossibleShapeIsNeverWritten, Clear
<1> QED BY <1>7, <1>8, <1>9, <1>10, <1>11 DEF BoundaryInv, LockHeld, FileIsSound

LEMMA RelinquishKeeps == ASSUME BoundaryInv, Relinquish PROVE BoundaryInv'
<1>1. BoundaryTypeOK BY DEF BoundaryInv
<1>2. UNCHANGED <<harness, session, status, marker, asked, reporting, dead, nextGen, attempts, starts, tool>>
      /\ boundary' = Free
  BY DEF Relinquish, Leave, KeepAttempts, Rest, runtime
<1>3. /\ recovery' \in [state : {"Pending", "Flushing"}, gen : 1..MaxGeneration] \cup {Clear}
      /\ recovery'.gen = recovery.gen
      /\ recovery' = Clear => recovery = Clear
      /\ recovery'.state = "Flushing" => recovery' = recovery
  BY <1>1 DEF Relinquish, BoundaryTypeOK, Clear, Claim, RecoveryOf
<1>4. FileWritten
  BY <1>1, <1>2, <1>3, ToolStays DEF FileWritten, BoundaryTypeOK, Known
<1>5. BoundaryTypeOK' BY <1>2, <1>4, WrittenType, FreeIsHolding
<1>6. /\ Known' = Known /\ (\A p : InPhase(p)' = InPhase(p))
      /\ OwnersAreSessions' /\ ActiveIsStarted' /\ RunningToolIsTracked' /\ ClearMeansSettled'
  BY <1>2, <1>3, <1>4, RecoveryKeeps
<1>7. LockHeld'
  BY <1>2, <1>6, FreeHeld DEF BoundaryInv, LockHeld, RecoveryHeld
<1>8. ImpossibleShapeIsNeverWritten'
  BY <1>2, <1>3, <1>6 DEF BoundaryInv, FileIsSound, ImpossibleShapeIsNeverWritten, Clear
<1> QED BY <1>5, <1>6, <1>7, <1>8 DEF BoundaryInv, FileIsSound

LEMMA CompleteKeeps == ASSUME BoundaryInv, Complete PROVE BoundaryInv'
<1>1. /\ BoundaryTypeOK /\ At("complete") /\ InPhase("PendingAbandon") = {} /\ AllTracked
      /\ harness = "Codex" => boundary.claimed
  BY DEF BoundaryInv, Complete, LockHeld, RecoveryHeld, At
<1>2. UNCHANGED <<harness, session, status, marker, asked, reporting, dead, nextGen, attempts, starts, tool>>
  BY DEF Complete, Leave, KeepTool, KeepAttempts, Rest, runtime
<1>3. recovery' = Clear \/ recovery' = recovery
  BY DEF Complete
<1>4. FileWritten
  BY <1>1, <1>2, <1>3, ToolStays DEF FileWritten, BoundaryTypeOK, Known, Clear
<1>5. \/ boundary' = Free
      \/ Starting /\ Moved("admit", boundary.batch)
      \/ Starting /\ harness # "Codex" /\ Moved("reconcile", boundary.batch)
  BY <1>1, StepMoves DEF Complete, Leave, FileSteps
<1>6. BoundaryTypeOK' BY <1>4, <1>5, WrittenType, FreeIsHolding DEF Moved
<1>7. /\ Known' = Known /\ (\A p : InPhase(p)' = InPhase(p)) /\ \A k : Scope(k)' = Scope(k)
      /\ OwnersAreSessions' /\ ActiveIsStarted' /\ RunningToolIsTracked'
  BY <1>2, <1>4, RecoveryKeeps
<1>8. ClearMeansSettled'
  BY <1>1, <1>2, <1>7 DEF ClearMeansSettled, AllTracked
<1>9. LockHeld'
  <2>1. CASE boundary' = Free
    BY <1>1, <1>7, <2>1, FreeHeld
  <2>2. CASE Starting /\ (Moved("admit", boundary.batch) \/ (harness # "Codex" /\ Moved("reconcile", boundary.batch)))
    <3>1. /\ boundary'.pc \in {"admit", "reconcile"} /\ (boundary'.pc = "reconcile" => harness # "Codex")
          /\ boundary'.kind = boundary.kind /\ boundary'.tools = boundary.tools /\ boundary.kind = "Start"
      BY <2>2 DEF Moved, Starting
    <3>2. StartHeld'
      BY <3>1 DEF BoundaryInv, LockHeld, StartHeld, At, Starting
    <3>3. BatchHeld'
      BY <3>1 DEF BatchHeld, At
    <3>4. RecoveryHeld'
      BY <1>1, <1>2, <1>7, <3>1 DEF RecoveryHeld, At
    <3> QED BY <3>2, <3>3, <3>4 DEF LockHeld
  <2> QED BY <1>5, <2>1, <2>2
<1>10. ImpossibleShapeIsNeverWritten'
  BY <1>1, <1>2, <1>3, <1>7 DEF BoundaryInv, FileIsSound, ImpossibleShapeIsNeverWritten, Clear
<1> QED BY <1>6, <1>7, <1>8, <1>9, <1>10 DEF BoundaryInv, FileIsSound

-----------------------------------------------------------------------------
(* Steps that write attempts.                                              *)

LEMMA AllocateKeeps == ASSUME BoundaryInv, NEW k \in Tools, Allocate(k) PROVE BoundaryInv'
<1>1. /\ BoundaryTypeOK /\ Starting /\ boundary.tools = {k} /\ k \notin Known /\ recovery = Clear
      /\ InPhase("PendingAbandon") = {}
  <2>1. Starting /\ k \in boundary.tools /\ \E j \in Tools : boundary.tools = {j}
    BY DEF Allocate, BoundaryInv, LockHeld, StartHeld, At
  <2> QED BY <2>1 DEF Allocate, BoundaryInv, FileIsSound, ImpossibleShapeIsNeverWritten
<1>2. UNCHANGED <<harness, session, status, marker, asked, reporting, dead, nextGen, recovery, tool>>
  BY DEF Allocate, Rest, runtime
<1> DEFINE new == [phase |-> "PendingStart",
                   scope |-> IF harness = "OpenCode" THEN 1 ELSE starts'[k],
                   owner |-> IF session[k] \in dead THEN "init" ELSE session[k]]
<1>3. /\ starts' \in [Tools -> 0..MaxStarts] /\ starts'[k] \in 1..MaxStarts
      /\ new \in Attempt
  <2>1. starts' \in [Tools -> 0..MaxStarts] /\ starts'[k] \in 1..MaxStarts
    BY <1>1, StartsBound DEF Allocate, BoundaryTypeOK
  <2>2. 1 \in 1..MaxStarts BY StartsBound
  <2>3. session[k] \in Owners /\ "init" \in Owners BY <1>1 DEF BoundaryTypeOK, Owners
  <2> QED BY <2>1, <2>2, <2>3 DEF Attempt, BoundaryPhase
<1>4. attempts' = [j \in Known \cup {k} |-> IF j \in Known THEN attempts[j] ELSE new]
  BY DEF Allocate
<1>5. new.phase = "PendingStart" /\ (new.owner = session[k] \/ session[k] \in dead)
  OBVIOUS
<1> HIDE DEF new
<1>6. Known' = Known \cup {k} /\ attempts'[k] = new /\ \A j \in Known : attempts'[j] = attempts[j]
  BY <1>1, <1>4 DEF Known
<1>7. FileWritten
  BY <1>1, <1>2, <1>3, <1>4, <1>6, ToolStays DEF FileWritten, BoundaryTypeOK
<1>8. Moved("start", boundary.batch) BY <1>1, StepMoves DEF Allocate, SeamSteps
<1>9. BoundaryTypeOK' BY <1>7, <1>8, WrittenType DEF Moved
<1>10. (\A j \in Known : Scope(j)' = Scope(j)) /\ InPhase("PendingAbandon")' = {} /\ InPhase("Active")' = InPhase("Active")
  BY <1>1, <1>5, <1>6 DEF Scope, InPhase
<1>11. StartHeld' /\ BatchHeld' /\ RecoveryHeld'
  BY <1>1, <1>2, <1>5, <1>6, <1>8, <1>10
     DEF BoundaryInv, LockHeld, StartHeld, BatchHeld, RecoveryHeld, Moved, At, Starting
<1>12. OwnersAreSessions' /\ ActiveIsStarted'
  BY <1>1, <1>2, <1>5, <1>6, <1>10 DEF BoundaryInv, FileIsSound, OwnersAreSessions, ActiveIsStarted, InPhase
<1>13. ImpossibleShapeIsNeverWritten'
  BY <1>1, <1>2, <1>10 DEF ImpossibleShapeIsNeverWritten, Clear
<1>14. ClearMeansSettled'
  BY <1>2, <1>6, <1>10 DEF BoundaryInv, FileIsSound, ClearMeansSettled, Clear
<1>15. RunningToolIsTracked'
  BY <1>2, <1>6, <1>10 DEF BoundaryInv, FileIsSound, RunningToolIsTracked
<1> QED BY <1>9, <1>11, <1>12, <1>13, <1>14, <1>15 DEF BoundaryInv, LockHeld, FileIsSound

LEMMA ActivateKeeps == ASSUME BoundaryInv, Activate PROVE BoundaryInv'
<1>1. /\ BoundaryTypeOK /\ boundary.tools \subseteq Known
      /\ \A k \in boundary.tools : attempts[k].phase # "PendingAbandon" /\ status[Scope(k)] # "NeverSeen"
  BY DEF BoundaryInv, Activate, LockHeld, StartHeld, At
<1>2. UNCHANGED <<harness, session, status, marker, asked, reporting, dead, nextGen, recovery, starts>>
  BY DEF Activate, Rest, runtime
<1>3. /\ attempts' = [k \in Known |->
           IF k \in boundary.tools THEN [attempts[k] EXCEPT !.phase = "Active"] ELSE attempts[k]]
      /\ Allow
  BY <1>1 DEF Activate
<1>4. ToolMoved /\ boundary' = Free
  BY <1>1, <1>2, <1>3, AllowMoves
<1>5. /\ Known' = Known /\ attempts' \in [Known -> Attempt]
      /\ \A k \in Known : /\ attempts'[k].scope = attempts[k].scope /\ attempts'[k].owner = attempts[k].owner
                          /\ k \in boundary.tools => attempts'[k].phase = "Active"
                          /\ k \notin boundary.tools => attempts'[k].phase = attempts[k].phase
  <2>1. \A k \in Known : attempts[k] \in Attempt BY <1>1 DEF BoundaryTypeOK
  <2>2. \A k \in Known : [attempts[k] EXCEPT !.phase = "Active"] \in Attempt
    BY <2>1 DEF Attempt, BoundaryPhase
  <2>3. \A k \in Known : k \in boundary.tools =>
          /\ attempts'[k].phase = "Active"
          /\ attempts'[k].scope = attempts[k].scope /\ attempts'[k].owner = attempts[k].owner
    BY <1>3, <2>1 DEF Attempt
  <2> QED BY <1>3, <2>1, <2>2, <2>3 DEF Known
<1>6. FileWritten
  BY <1>1, <1>2, <1>4, <1>5 DEF FileWritten, BoundaryTypeOK
<1>7. BoundaryTypeOK' BY <1>4, <1>6, WrittenType, FreeIsHolding
<1>8. (\A k \in Known : Scope(k)' = Scope(k)) /\ InPhase("PendingAbandon")' = InPhase("PendingAbandon")
  BY <1>1, <1>5 DEF Scope, InPhase
<1>9. LockHeld'
  BY <1>2, <1>4, <1>8, FreeHeld DEF BoundaryInv, LockHeld, RecoveryHeld
<1>10. OwnersAreSessions'
  BY <1>5, <1>6, OwnersStay DEF AttemptsKept
<1>11. ActiveIsStarted'
  BY <1>1, <1>2, <1>5, <1>8 DEF BoundaryInv, FileIsSound, ActiveIsStarted, InPhase
<1>12. ImpossibleShapeIsNeverWritten'
  BY <1>2, <1>5, <1>8 DEF BoundaryInv, FileIsSound, ImpossibleShapeIsNeverWritten, Clear
<1>13. ClearMeansSettled'
  BY <1>2, <1>5, <1>8 DEF BoundaryInv, FileIsSound, ClearMeansSettled, Clear
<1>14. RunningToolIsTracked'
  <2>1. SUFFICES ASSUME harness # "Codex", NEW k \in Tools, tool'[k] = "running"
                 PROVE  k \in Known /\ attempts'[k].phase # "PendingAbandon" /\ status[Scope(k)] # "NeverSeen"
    BY <1>2, <1>5, <1>8 DEF RunningToolIsTracked
  <2>2. k \in Known /\ attempts[k].phase # "PendingAbandon" /\ status[Scope(k)] # "NeverSeen"
    BY <1>2, <1>4, <2>1 DEF ToolMoved, BoundaryInv, FileIsSound, RunningToolIsTracked
  <2> QED BY <1>5, <2>2
<1> QED BY <1>7, <1>9, <1>10, <1>11, <1>12, <1>13, <1>14 DEF BoundaryInv, FileIsSound

LEMMA BeginKeeps == ASSUME BoundaryInv, Begin PROVE BoundaryInv'
<1>1. /\ BoundaryTypeOK /\ At("begin") /\ harness # "Codex"
      /\ boundary.batch \subseteq Known /\ \A k \in boundary.batch : tool[k] = "over"
  BY DEF BoundaryInv, Begin, LockHeld, BatchHeld, RecoveryHeld, At
<1>2. UNCHANGED <<harness, session, status, marker, asked, reporting, dead, starts, tool>>
  BY DEF Begin, Rest, runtime
<1>3. /\ recovery' \in [state : {"Flushing"}, gen : 1..MaxGeneration]
      /\ nextGen' \in 1..(MaxGeneration + 1) /\ recovery'.gen < nextGen'
  <2>1. recovery' = Armed("Flushing") /\ nextGen <= MaxGeneration
    BY DEF Begin
  <2>2. nextGen' = IF recovery = Clear THEN nextGen + 1 ELSE nextGen
    BY DEF Begin
  <2>3. CASE recovery = Clear
    BY <1>1, <2>1, <2>2, <2>3, GenerationBound DEF Armed, BoundaryTypeOK
  <2>4. CASE recovery # Clear
    BY <1>1, <2>1, <2>2, <2>4, GenerationBound DEF Armed, BoundaryTypeOK, RecoveryOf
  <2> QED BY <2>3, <2>4
<1>4. /\ Known' = Known /\ attempts' \in [Known -> Attempt]
      /\ \A k \in Known : /\ attempts'[k].scope = attempts[k].scope /\ attempts'[k].owner = attempts[k].owner
                          /\ k \in boundary.batch => attempts'[k].phase = "PendingAbandon"
                          /\ k \notin boundary.batch => attempts'[k].phase = attempts[k].phase
  <2>1. \A k \in Known : attempts[k] \in Attempt BY <1>1 DEF BoundaryTypeOK
  <2>2. \A k \in Known : [attempts[k] EXCEPT !.phase = "PendingAbandon"] \in Attempt
    BY <2>1 DEF Attempt, BoundaryPhase
  <2>3. attempts' = [k \in Known |->
          IF k \in boundary.batch THEN [attempts[k] EXCEPT !.phase = "PendingAbandon"] ELSE attempts[k]]
    BY DEF Begin
  <2>4. \A k \in Known : k \in boundary.batch =>
          /\ attempts'[k].phase = "PendingAbandon"
          /\ attempts'[k].scope = attempts[k].scope /\ attempts'[k].owner = attempts[k].owner
    BY <2>1, <2>3 DEF Attempt
  <2> QED BY <2>1, <2>2, <2>3, <2>4 DEF Known
<1>5. FileWritten
  BY <1>1, <1>2, <1>3, <1>4, ToolStays DEF FileWritten, BoundaryTypeOK
<1>6. /\ boundary' \in Holding /\ boundary'.pc = "flush" /\ boundary'.kind = boundary.kind
      /\ boundary'.tools = boundary.tools
  <2>1. recovery'.gen \in Generations BY <1>3, GenerationBound DEF Generations
  <2> QED BY <1>1, <2>1 DEF Begin, BoundaryTypeOK, Holding, SeamSteps
<1>7. BoundaryTypeOK' BY <1>5, <1>6, WrittenType
<1>8. \A k \in Known : Scope(k)' = Scope(k)
  BY <1>4 DEF Scope
<1>9. StartHeld' /\ BatchHeld'
  BY <1>1, <1>2, <1>6 DEF BoundaryInv, LockHeld, StartHeld, BatchHeld, At, Starting
<1>10. RecoveryHeld'
  BY <1>1, <1>2, <1>3, <1>6 DEF RecoveryHeld, At
<1>11. OwnersAreSessions'
  BY <1>4, <1>5, OwnersStay DEF AttemptsKept
<1>12. ActiveIsStarted'
  BY <1>2, <1>4, <1>8 DEF BoundaryInv, FileIsSound, ActiveIsStarted, InPhase
<1>13. ImpossibleShapeIsNeverWritten'
  BY <1>1, <1>2, <1>3 DEF ImpossibleShapeIsNeverWritten, Clear
<1>14. ClearMeansSettled'
  BY <1>2, <1>3, <1>4, <1>8 DEF BoundaryInv, FileIsSound, ClearMeansSettled, Clear
<1>15. RunningToolIsTracked'
  BY <1>1, <1>2, <1>4, <1>8 DEF BoundaryInv, FileIsSound, RunningToolIsTracked
<1> QED BY <1>7, <1>9, <1>10, <1>11, <1>12, <1>13, <1>14, <1>15 DEF BoundaryInv, LockHeld, FileIsSound

\* Attempts whose scope is not live, or whose tool is over, may go.
LEMMA RemovalKeeps ==
  ASSUME BoundaryInv, NEW gone \in SUBSET Known,
         attempts' = [k \in Known \ gone |-> attempts[k]],
         UNCHANGED <<harness, session, status, marker, asked, reporting, dead, nextGen, recovery, starts, tool>>,
         boundary' \in Holding,
         \A k \in gone : status[Scope(k)] # "Active" \/ (marker /\ recovery # Clear),
         \A k \in gone : tool[k] = "over" \/ attempts[k].phase = "PendingAbandon" \/ harness = "Codex"
  PROVE  /\ BoundaryTypeOK' /\ FileIsSound'
         /\ Known' = Known \ gone /\ \A p : InPhase(p)' = InPhase(p) \ gone
<1>1. Known' = Known \ gone /\ \A k \in Known' : attempts'[k] = attempts[k]
  BY DEF Known
<1>2. \A k \in Known' : Scope(k)' = Scope(k)
  BY <1>1 DEF Scope
<1>3. \A p : InPhase(p)' = InPhase(p) \ gone
  BY <1>1 DEF InPhase
<1>4. BoundaryTypeOK
  BY DEF BoundaryInv
<1>5. FileWritten
  BY <1>1, <1>4, ToolStays DEF FileWritten, BoundaryTypeOK
<1>6. BoundaryTypeOK' BY <1>5, WrittenType
<1>7. OwnersAreSessions'
  BY <1>1, <1>5, OwnersStay DEF AttemptsKept
<1>8. ActiveIsStarted' /\ RunningToolIsTracked'
  BY <1>1, <1>2 DEF BoundaryInv, FileIsSound, ActiveIsStarted, RunningToolIsTracked, InPhase
<1>9. ImpossibleShapeIsNeverWritten'
  BY <1>1, <1>3 DEF BoundaryInv, FileIsSound, ImpossibleShapeIsNeverWritten, Clear
<1>10. ClearMeansSettled'
  BY <1>1, <1>2 DEF BoundaryInv, FileIsSound, ClearMeansSettled, Clear
<1> QED BY <1>1, <1>3, <1>6, <1>7, <1>8, <1>9, <1>10 DEF FileIsSound

LEMMA RemoveKeeps == ASSUME BoundaryInv, Remove PROVE BoundaryInv'
<1> DEFINE rest == boundary.batch \ {Abandonee}
<1>1. /\ BoundaryTypeOK /\ At("remove") /\ Abandonee \in boundary.batch /\ Abandonee \in Known
      /\ recovery # Clear /\ (status[Scope(Abandonee)] # "Active" \/ marker)
      /\ boundary.batch \subseteq Known
      /\ IF harness = "Codex" THEN InPhase("PendingAbandon") = {}
                              ELSE boundary.batch = InPhase("PendingAbandon")
  BY AbandoneeIsKnown DEF BoundaryInv, Remove, LockHeld, BatchHeld, RecoveryHeld, At, Clear
<1>2. UNCHANGED <<harness, session, status, marker, asked, reporting, dead, nextGen, recovery, starts, tool>>
  BY DEF Remove, Rest, runtime, KeepTool, Settled, Leave
<1>3. attempts' = [k \in Known \ {Abandonee} |-> attempts[k]]
  BY DEF Remove
<1>4. \/ rest # {} /\ harness = "Codex" /\ Moved("arm", rest)
      \/ rest # {} /\ harness # "Codex" /\ Moved("abandon", rest)
      \/ rest = {} /\ harness # "Codex" /\ Moved("rebaseline", boundary.batch)
      \/ rest = {} /\ harness = "Codex" /\ Starting /\ Moved("sweep", boundary.batch)
      \/ boundary' = Free
  <2>1. rest \in SUBSET Tools BY <1>1 DEF BoundaryTypeOK
  <2>2. CASE rest = {}
    <3>1. (harness # "Codex" /\ Goto("rebaseline")) \/ (harness = "Codex" /\ Starting /\ Goto("sweep")) \/ Leave
      <4>1. Settled BY <2>2 DEF Remove
      <4> QED BY <4>1 DEF Settled
    <3>2. Goto("rebaseline") => Moved("rebaseline", boundary.batch) BY <1>1, StepMoves DEF SeamSteps
    <3>3. Goto("sweep") => Moved("sweep", boundary.batch) BY <1>1, StepMoves DEF FileSteps
    <3> QED BY <2>2, <3>1, <3>2, <3>3 DEF Leave
  <2>3. CASE rest # {}
    BY <1>1, <2>1, <2>3, StepMoves DEF Remove, SeamSteps, FileSteps
  <2> QED BY <2>2, <2>3
<1>5. boundary' \in Holding
  BY <1>4, FreeIsHolding DEF Moved
<1>6. Abandonee \in InPhase("PendingAbandon") \/ harness = "Codex"
  BY <1>1
<1>7. /\ BoundaryTypeOK' /\ FileIsSound'
      /\ Known' = Known \ {Abandonee} /\ \A p : InPhase(p)' = InPhase(p) \ {Abandonee}
  BY <1>1, <1>2, <1>3, <1>5, <1>6, RemovalKeeps DEF InPhase
<1>8. LockHeld'
  <2>1. CASE boundary' = Free
    BY <1>1, <1>2, <1>7, <2>1, FreeHeld
  <2>2. CASE rest # {} /\ harness = "Codex" /\ Moved("arm", rest)
    BY <1>1, <1>2, <1>7, <2>2 DEF BoundaryInv, LockHeld, StartHeld, BatchHeld, RecoveryHeld, Moved, At, Starting
  <2>3. CASE rest # {} /\ harness # "Codex" /\ Moved("abandon", rest)
    <3>1. rest = InPhase("PendingAbandon")' BY <1>1, <1>7, <2>3
    <3>2. rest \subseteq Known' BY <1>1, <1>7
    <3> HIDE DEF rest
    <3> QED BY <1>1, <1>2, <2>3, <3>1, <3>2, Clear # recovery
         DEF BoundaryInv, LockHeld, StartHeld, BatchHeld, RecoveryHeld, Moved, At, Starting
  <2>4. CASE rest = {} /\ harness # "Codex" /\ Moved("rebaseline", boundary.batch)
    <3>1. InPhase("PendingAbandon")' = {} BY <1>1, <1>7, <2>4
    <3> QED BY <1>1, <1>2, <2>4, <3>1
         DEF BoundaryInv, LockHeld, StartHeld, BatchHeld, RecoveryHeld, Moved, At, Starting
  <2>5. CASE rest = {} /\ harness = "Codex" /\ Starting /\ Moved("sweep", boundary.batch)
    BY <1>1, <1>2, <1>7, <2>5 DEF BoundaryInv, LockHeld, StartHeld, BatchHeld, RecoveryHeld, Moved, At, Starting
  <2> QED BY <1>4, <2>1, <2>2, <2>3, <2>4, <2>5
<1> QED BY <1>7, <1>8 DEF BoundaryInv

LEMMA RemoveClosedKeeps == ASSUME BoundaryInv, RemoveClosed PROVE BoundaryInv'
<1>1. /\ boundary.batch \subseteq Known
      /\ \A k \in boundary.batch : tool[k] = "over" /\ status[Scope(k)] # "Active"
  BY DEF BoundaryInv, RemoveClosed, LockHeld, BatchHeld, At
<1>2. UNCHANGED <<harness, session, status, marker, asked, reporting, dead, nextGen, recovery, starts, tool>>
  BY DEF RemoveClosed, Rest, runtime, Leave
<1>3. attempts' = [k \in Known \ boundary.batch |-> attempts[k]] /\ boundary' = Free
  BY DEF RemoveClosed, Leave
<1>4. /\ BoundaryTypeOK' /\ FileIsSound'
      /\ Known' = Known \ boundary.batch /\ \A p : InPhase(p)' = InPhase(p) \ boundary.batch
  BY <1>1, <1>2, <1>3, RemovalKeeps, FreeIsHolding
<1>5. harness' = "Codex" => InPhase("PendingAbandon")' = {}
  BY <1>2, <1>4 DEF BoundaryInv, LockHeld, RecoveryHeld
<1> QED BY <1>3, <1>4, <1>5, FreeHeld DEF BoundaryInv

-----------------------------------------------------------------------------
(* Theorems.                                                               *)

LEMMA InitHolds == ASSUME BoundaryInit PROVE BoundaryInv
<1> USE DEF BoundaryInit
<1>1. Known = {} /\ attempts \in [Known -> Attempt] BY DEF Known
<1>2. BoundaryTypeOK
  <2>1. 1 \in 1..(MaxGeneration + 1) /\ 0 \in 0..MaxStarts BY GenerationBound, StartsBound
  <2>2. recovery = Clear /\ recovery.gen < nextGen /\ nextGen \in 1..(MaxGeneration + 1)
    BY <2>1 DEF Clear
  <2>3. boundary \in Holding BY FreeIsHolding
  <2>4. starts \in [Tools -> 0..MaxStarts] /\ tool \in [Tools -> {"idle", "running", "executed", "over"}]
    BY <2>1
  <2>5. status \in [Scopes -> {"NeverSeen", "Active", "Closed", "Abandoned"}] /\ marker \in BOOLEAN
    OBVIOUS
  <2> QED BY <1>1, <2>2, <2>3, <2>4, <2>5 DEF BoundaryTypeOK, Holding
<1>3. StartHeld /\ BatchHeld
  BY DEF StartHeld, BatchHeld, Free, At, Starting
<1>4. RecoveryHeld /\ OwnersAreSessions /\ ActiveIsStarted
  BY <1>1 DEF RecoveryHeld, OwnersAreSessions, ActiveIsStarted, InPhase, Free, At
<1>5. ImpossibleShapeIsNeverWritten /\ ClearMeansSettled /\ RunningToolIsTracked
  BY <1>1 DEF ImpossibleShapeIsNeverWritten, ClearMeansSettled, RunningToolIsTracked, InPhase, Clear
<1> QED BY <1>2, <1>3, <1>4, <1>5 DEF BoundaryInv, LockHeld, FileIsSound

LEMMA StutterKeeps == ASSUME BoundaryInv, UNCHANGED boundaryVars PROVE BoundaryInv'
<1>1. BoundaryTypeOK /\ attempts' = attempts /\ DOMAIN attempts' = Known
  BY DEF BoundaryInv, boundaryVars, file, Known
<1>2. HarnessMoved
  BY <1>1 DEF BoundaryInv, BoundaryTypeOK, FileIsSound, OwnersAreSessions, HarnessMoved, boundaryVars, file, runtime, world
<1> QED BY <1>2, HarnessKeeps

\* Every step keeps what the lock holder and the others rely on.
LEMMA StepKeeps == ASSUME BoundaryInv, [BoundaryNext]_boundaryVars PROVE BoundaryInv'
<1>1. ASSUME NEW k \in Tools, Admit(k) PROVE BoundaryInv'
  BY <1>1, ReuseKeeps, AllocateKeeps, ClaimFlushKeeps, DenyKeeps DEF Admit
<1>2. CASE Sweep \/ Reconcile \/ Reprove \/ Find \/ TransactionFails \/ Killed
  BY <1>2, SweepKeeps, ReconcileKeeps, ReproveKeeps, FindKeeps, TransactionFailsKeeps, KilledKeeps
<1>3. CASE Activate \/ Begin \/ Arm \/ Remove \/ RemoveClosed \/ Complete \/ Relinquish
  BY <1>3, ActivateKeeps, BeginKeeps, ArmKeeps, RemoveKeeps, RemoveClosedKeeps, CompleteKeeps, RelinquishKeeps
<1>4. CASE Flush \/ Abandon \/ Rebaseline \/ Start \/ Close
  BY <1>4, FlushKeeps, AbandonKeeps, RebaselineKeeps, StartKeeps, CloseKeeps
<1> QED
  BY <1>1, <1>2, <1>3, <1>4, HarnessStepKeeps, EnterStepKeeps, ElsewhereKeeps, StutterKeeps
  DEF BoundaryNext, BoundaryStep

LEMMA Invariance == BoundarySpec => []BoundaryInv
<1>1. BoundaryInit => BoundaryInv BY InitHolds
<1>2. BoundaryInv /\ [BoundaryNext]_boundaryVars => BoundaryInv' BY StepKeeps
<1> QED BY <1>1, <1>2, PTL DEF BoundarySpec

\* The state file, the runtime and what the lock holder carries stay well formed, however
\* many hooks are killed: Normalized and the claim on the recovery in recovery.rs.
THEOREM TypeCorrect == BoundarySpec => []BoundaryTypeOK
<1>1. BoundaryInv => BoundaryTypeOK BY DEF BoundaryInv
<1> QED BY <1>1, Invariance, PTL

\* No hook, wherever it is killed, leaves a file that the health classifiers of the
\* adapters call impossible.
THEOREM NoImpossibleShape == BoundarySpec => []ImpossibleShapeIsNeverWritten
<1>1. BoundaryInv => ImpossibleShapeIsNeverWritten BY DEF BoundaryInv, FileIsSound
<1> QED BY <1>1, Invariance, PTL

\* Once the recovery is declared Clear, no scope is live in the runtime without an attempt
\* that will settle it.
THEOREM ClearIsSettled == BoundarySpec => []ClearMeansSettled
<1>1. BoundaryInv => ClearMeansSettled BY DEF BoundaryInv, FileIsSound
<1> QED BY <1>1, Invariance, PTL

\* OpenCode and Pi run a tool only as long as it has an attempt that was started and is
\* not given up.
THEOREM RunningIsTracked == BoundarySpec => []RunningToolIsTracked
<1>1. BoundaryInv => RunningToolIsTracked BY DEF BoundaryInv, FileIsSound
<1> QED BY <1>1, Invariance, PTL

\* The steps that write attempts.
WritesAttempts ==
  \/ \E k \in Tools : MarkExecuted(k) \/ Allocate(k)
  \/ Activate \/ Begin \/ Remove \/ RemoveClosed

LEMMA OthersKeepAttempts ==
  ASSUME [BoundaryNext]_boundaryVars, ~WritesAttempts
  PROVE  attempts' = attempts
<1> USE DEF file, KeepFile, KeepAttempts
<1>1. HarnessStep => attempts' = attempts
  BY DEF HarnessStep, WritesAttempts, Ask, AskFails, Report, ReportFails, Die
<1>2. EnterStep => attempts' = attempts
  BY DEF EnterStep, EnterStart, EnterTerminal, EnterCleanup, EnterRepair, Enter
<1>3. \A k \in Tools : Admit(k) => attempts' = attempts
  BY DEF Admit, WritesAttempts, Reuse, ClaimFlush, Deny
<1>4. BoundaryStep => attempts' = attempts
  BY <1>3 DEF BoundaryStep, WritesAttempts, Sweep, Reconcile, Reprove, Find, Arm, Complete, Relinquish,
              Flush, Abandon, Rebaseline, Start, Close, TransactionFails, Killed
<1> QED BY <1>1, <1>2, <1>4 DEF BoundaryNext, Elsewhere, boundaryVars

\* What one step does to an attempt that is to be abandoned.
LEMMA DecisionStands ==
  ASSUME BoundaryInv, [BoundaryNext]_boundaryVars, NEW k \in InPhase("PendingAbandon")
  PROVE  \/ k \in DOMAIN attempts' /\ attempts'[k].phase = "PendingAbandon"
         \/ k \notin DOMAIN attempts' /\ (status[Scope(k)] # "Active" \/ marker)
<1>1. k \in Known /\ attempts[k].phase = "PendingAbandon" /\ BoundaryTypeOK /\ attempts[k] \in Attempt
  BY DEF InPhase, BoundaryInv, BoundaryTypeOK
<1>2. CASE attempts' = attempts
  BY <1>1, <1>2 DEF Known
<1>3. ASSUME NEW j \in Tools, MarkExecuted(j) PROVE k \in DOMAIN attempts' /\ attempts'[k].phase = "PendingAbandon"
  <2>1. attempts' = attempts \/ (j # k /\ attempts' = [attempts EXCEPT ![j].phase = "Executed"])
    BY <1>1, <1>3 DEF MarkExecuted, MayExecute, InPhase
  <2> QED BY <1>1, <2>1 DEF Known, BoundaryTypeOK
<1>4. ASSUME NEW j \in Tools, Allocate(j) PROVE k \in DOMAIN attempts' /\ attempts'[k].phase = "PendingAbandon"
  BY <1>1, <1>4 DEF Allocate
<1>5. CASE Activate
  <2>1. k \notin boundary.tools BY <1>1, <1>5 DEF Activate, BoundaryInv, LockHeld, StartHeld, At
  <2> QED BY <1>1, <1>5, <2>1 DEF Activate, Known
<1>6. CASE Begin
  BY <1>1, <1>6 DEF Begin, Attempt
<1>7. CASE Remove
  <2>1. status[Scope(Abandonee)] # "Active" \/ marker
    BY <1>7 DEF Remove, BoundaryInv, LockHeld, BatchHeld, At
  <2>2. attempts' = [j \in Known \ {Abandonee} |-> attempts[j]] BY <1>7 DEF Remove
  <2> QED BY <1>1, <2>1, <2>2
<1>8. CASE RemoveClosed
  BY <1>1, <1>8 DEF RemoveClosed, BoundaryInv, LockHeld, BatchHeld, At, InPhase
<1> QED BY <1>2, <1>3, <1>4, <1>5, <1>6, <1>7, <1>8, OthersKeepAttempts DEF WritesAttempts

\* A decision to abandon is final, even for a report that comes after it: the attempt
\* stays until its scope was given up.
THEOREM DecisionIsFinal == BoundarySpec => BoundaryDecisionIsFinal
<1>1. BoundaryInv /\ [BoundaryNext]_boundaryVars =>
        [\A k \in InPhase("PendingAbandon") :
           \/ k \in DOMAIN attempts' /\ attempts'[k].phase = "PendingAbandon"
           \/ k \notin DOMAIN attempts' /\ (status[Scope(k)] # "Active" \/ marker)]_boundaryVars
  BY DecisionStands
<1> QED BY <1>1, Invariance, PTL DEF BoundarySpec, BoundaryDecisionIsFinal

=============================================================================
