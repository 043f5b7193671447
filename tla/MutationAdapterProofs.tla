------------------------ MODULE MutationAdapterProofs -----------------------
(***************************************************************************)
(* What holds of the adapter for any number of tools, hooks and attempts.  *)
(***************************************************************************)
EXTENDS MutationAdapter, TLAPS

-----------------------------------------------------------------------------
(* Steps of one process.                                                   *)

\* What a step may do to the processes: only h moves, to a step of its event, and
\* keeps some of the scopes it has or takes some that are known.
Moves(h) ==
  /\ hook' \in [Hooks -> Process]
  /\ \A g \in Hooks \ {h} : hook'[g] = hook[g]
  /\ hook'[h] # Waiting =>
       /\ hook'[h].pc # "idle" /\ hook'[h].event = hook[h].event
       /\ hook'[h].batch \subseteq Batch(h) \cup DOMAIN attempts'
  /\ hook'[h] = Waiting => hook'[h].pc = "idle" /\ hook'[h].batch = {}

LEMMA WaitingType == Waiting \in Process /\ Waiting.pc = "idle" /\ Waiting.batch = {}
BY DEF Waiting, Process, NoEvent, Scopes

LEMMA GotoMoves ==
  ASSUME AdapterTypeOK, NEW h \in Hooks, NEW pc \in SeamCalls \cup Transactions, Goto(h, pc)
  PROVE  Moves(h) /\ hook'[h].pc = pc /\ hook'[h].batch = Batch(h) /\ hook'[h].event = hook[h].event
BY WaitingType DEF AdapterTypeOK, Goto, Moves, Process, Batch, SeamCalls, Transactions

LEMMA TakeMoves ==
  ASSUME AdapterTypeOK, NEW h \in Hooks, NEW pc \in SeamCalls \cup Transactions,
         NEW scopes \in SUBSET Scopes, scopes \subseteq Batch(h) \cup DOMAIN attempts',
         Take(h, pc, scopes)
  PROVE  Moves(h) /\ hook'[h].pc = pc /\ hook'[h].batch = scopes /\ hook'[h].event = hook[h].event
BY WaitingType DEF AdapterTypeOK, Take, Moves, Process, Batch, SeamCalls, Transactions

LEMMA LeaveMoves ==
  ASSUME AdapterTypeOK, NEW h \in Hooks, Leave(h)
  PROVE  Moves(h) /\ hook'[h] = Waiting
BY WaitingType DEF AdapterTypeOK, Leave, Moves

LEMMA ProceedMoves ==
  ASSUME AdapterTypeOK, NEW h \in Hooks, Proceed(h)
  PROVE  /\ Moves(h)
         /\ hook'[h].pc \in {"abandon", "clear", "idle"}
         /\ hook'[h].pc = "abandon" =>
              hook'[h].batch # {} /\ hook'[h].batch = Batch(h) \ {First(Batch(h))}
         /\ hook'[h].pc = "clear" => hook'[h].event.kind = "Repair"
<1> DEFINE rest == Batch(h) \ {First(Batch(h))}
<1>1. rest \in SUBSET Scopes /\ rest \subseteq Batch(h)
  BY DEF AdapterTypeOK, Process, Batch
<1>2. CASE rest # {}
  <2>1. Take(h, "abandon", rest)
    BY <1>2 DEF Proceed
  <2> QED BY <1>1, <1>2, <2>1, TakeMoves DEF SeamCalls
<1>3. CASE rest = {} /\ Serves(h, "Repair")
  <2>1. Take(h, "clear", {})
    BY <1>3 DEF Proceed
  <2> QED BY <1>3, <2>1, TakeMoves DEF Transactions, Serves
<1>4. CASE rest = {} /\ ~Serves(h, "Repair")
  <2>1. Leave(h)
    BY <1>4 DEF Proceed
  <2> QED BY <2>1, LeaveMoves, WaitingType
<1> QED BY <1>2, <1>3, <1>4

-----------------------------------------------------------------------------
(* Type correctness.                                                       *)

FileOK ==
  /\ nextSeq \in 1..(MaxSeq + 1) /\ pending \in BOOLEAN
  /\ Known \subseteq 1..(nextSeq - 1)
  /\ attempts \in [Known -> AdapterAttempt]
  /\ \A s, r \in Known : attempts[s].tool = attempts[r].tool => s = r

RuntimeOK ==
  /\ status \in [Scopes -> {"NeverSeen", "Active", "Closed", "Abandoned"}]
  /\ marker \in BOOLEAN

\* The steps of a process under way.
ProcessStep(h) == HookStep(h) \/ Killed(h)

\* The steps that change nothing but the process, or the runtime.
Reads(h) ==
  \/ BarrierOpen(h) \/ BarrierRecovers(h) \/ BarrierDenies(h) \/ Flush(h) \/ ReuseAttempt(h)
  \/ Start(h) \/ MarkActiveRefused(h) \/ NothingFound(h) \/ FoundToClose(h)
  \/ FoundToAbandon(h) \/ Close(h) \/ Abandon(h) \/ Reprove(h) \/ TransactionFails(h)
  \/ Killed(h)

LEMMA ReadsOnly == ASSUME NEW h \in Hooks, Reads(h) PROVE UNCHANGED file
BY DEF Reads, BarrierOpen, BarrierRecovers, BarrierDenies, Flush, ReuseAttempt, Start,
       MarkActiveRefused, NothingFound, FoundToClose, FoundToAbandon, Close, Abandon, Reprove,
       TransactionFails, Killed

LEMMA StepCases ==
  ASSUME NEW h \in Hooks, ProcessStep(h)
  PROVE  \/ Reads(h) \/ ClearRecovery(h) \/ AllocateAttempt(h) \/ MarkActive(h)
         \/ MarkPendingAbandon(h) \/ RemoveAttempt(h)
BY DEF ProcessStep, HookStep, Reads

\* The event of a tool names that tool alone.
LEMMA OneTool ==
  ASSUME AdapterTypeOK, NEW h \in Hooks, hook[h].event.kind \in ToolEvent
  PROVE  \E k \in Tools : hook[h].event.tools = {k}
<1>1. hook[h].event \in Event \cup {NoEvent}
  BY DEF AdapterTypeOK, Process
<1> QED BY <1>1 DEF Event, NoEvent, ToolEvent

LEMMA EventTools ==
  ASSUME AdapterTypeOK, NEW h \in Hooks
  PROVE  hook[h].event.tools \subseteq Tools
<1>1. hook[h].event \in Event \cup {NoEvent}
  BY DEF AdapterTypeOK, Process
<1> QED BY <1>1, CleanupsAreKeys DEF Event, NoEvent

\* What an allocation writes.
LEMMA Allocated ==
  ASSUME AdapterTypeOK, NEW h \in Hooks, AllocateAttempt(h)
  PROVE  /\ nextSeq \in Scopes /\ nextSeq \notin Known /\ nextSeq' = nextSeq + 1
         /\ DOMAIN attempts' = Known \cup {nextSeq}
         /\ \A s \in Known : attempts'[s] = attempts[s]
         /\ attempts'[nextSeq].phase = "PendingStart"
         /\ attempts'[nextSeq].tool \in hook[h].event.tools
         /\ attempts'[nextSeq] \in AdapterAttempt
         /\ pending' = pending
<1>1. PICK k \in hook[h].event.tools :
        attempts' = [s \in Known \cup {nextSeq} |->
                       IF s = nextSeq THEN [tool |-> k, phase |-> "PendingStart"] ELSE attempts[s]]
  BY DEF AllocateAttempt, NewSeq
<1>2. nextSeq \in Scopes /\ nextSeq \notin Known
  BY SeqBound DEF AllocateAttempt, AdapterTypeOK, Scopes
<1>3. k \in Tools
  BY EventTools
<1> QED BY <1>1, <1>2, <1>3 DEF AllocateAttempt, AdapterAttempt, AttemptPhase

LEMMA FileStep ==
  ASSUME AdapterTypeOK, NEW h \in Hooks, ProcessStep(h)
  PROVE  FileOK' /\ nextSeq <= nextSeq'
<1>0. FileOK
  BY DEF AdapterTypeOK, FileOK
<1>1. CASE Reads(h)
  BY <1>0, <1>1, ReadsOnly DEF FileOK, file, Known
<1>2. CASE ClearRecovery(h)
  BY <1>0, <1>2 DEF FileOK, ClearRecovery, Known
<1>3. CASE AllocateAttempt(h)
  <2>1. \A s \in Known : attempts[s].tool \notin hook[h].event.tools
    BY <1>3 DEF AllocateAttempt, Reusable, Matching
  <2>2. nextSeq' \in 1..(MaxSeq + 1) /\ nextSeq <= nextSeq'
    BY <1>0, <1>3, Allocated, SeqBound DEF FileOK, Scopes
  <2>3. Known' \subseteq 1..(nextSeq' - 1)
    BY <1>0, <1>3, Allocated DEF FileOK, Known
  <2>4. attempts' \in [Known' -> AdapterAttempt]
    <3>1. \A s \in Known' : attempts'[s] \in AdapterAttempt
      BY <1>0, <1>3, Allocated DEF FileOK, Known
    <3>2. attempts' = [s \in DOMAIN attempts' |-> attempts'[s]]
      BY <1>3 DEF AllocateAttempt
    <3> QED BY <3>1, <3>2 DEF Known
  <2>5. \A s, r \in Known' : attempts'[s].tool = attempts'[r].tool => s = r
    BY <1>0, <1>3, <2>1, Allocated DEF FileOK, Known
  <2> QED BY <1>0, <1>3, <2>2, <2>3, <2>4, <2>5, Allocated DEF FileOK
<1>4. CASE MarkActive(h)
  BY <1>0, <1>4 DEF FileOK, MarkActive, Known, AdapterAttempt, AttemptPhase
<1>5. CASE MarkPendingAbandon(h)
  BY <1>0, <1>5 DEF FileOK, MarkPendingAbandon, Known, AdapterAttempt, AttemptPhase
<1>6. CASE RemoveAttempt(h)
  BY <1>0, <1>6 DEF FileOK, RemoveAttempt, Known
<1> QED BY <1>1, <1>2, <1>3, <1>4, <1>5, <1>6, StepCases

LEMMA HookMoves ==
  ASSUME AdapterTypeOK, NEW h \in Hooks, ProcessStep(h)
  PROVE  Moves(h)
<1>1. CASE \E pc \in SeamCalls \cup Transactions : Goto(h, pc)
  BY <1>1, GotoMoves
<1>2. CASE \E pc \in SeamCalls \cup Transactions, scopes \in SUBSET Scopes :
             scopes \subseteq Batch(h) \cup DOMAIN attempts' /\ Take(h, pc, scopes)
  BY <1>2, TakeMoves
<1>3. CASE Leave(h)
  BY <1>3, LeaveMoves
<1>4. CASE Proceed(h)
  BY <1>4, ProceedMoves
<1>5. Known \subseteq Scopes
  BY SeqBound DEF AdapterTypeOK, Scopes
<1>6. CASE AllocateAttempt(h)
  <2>1. Take(h, "start", {nextSeq}) /\ nextSeq \in Scopes /\ nextSeq \in DOMAIN attempts'
    BY <1>6, Allocated DEF AllocateAttempt, NewSeq
  <2> QED BY <1>2, <2>1 DEF SeamCalls
<1>7. CASE ReuseAttempt(h) \/ FoundToClose(h) \/ FoundToAbandon(h) \/ Reprove(h)
  <2>1. attempts' = attempts
    BY <1>7 DEF ReuseAttempt, FoundToClose, FoundToAbandon, Reprove, file
  <2>2. \E pc \in {"start", "close", "mark", "abandon"}, scopes \in SUBSET Known :
          Leave(h) \/ Take(h, pc, scopes)
    BY <1>7 DEF ReuseAttempt, FoundToClose, FoundToAbandon, Reprove, Reusable, Matching
  <2> QED BY <1>2, <1>3, <1>5, <2>1, <2>2 DEF SeamCalls, Transactions, Known
<1>8. CASE BarrierOpen(h) \/ BarrierRecovers(h) \/ BarrierDenies(h) \/ Flush(h) \/ ClearRecovery(h)
             \/ Start(h) \/ MarkActive(h) \/ MarkActiveRefused(h) \/ NothingFound(h)
             \/ Close(h) \/ MarkPendingAbandon(h) \/ Killed(h)
  <2>1. Leave(h) \/ \E pc \in {"allocate", "flush", "clear", "activate", "remove", "mark", "abandon"} :
                      Goto(h, pc)
    BY <1>8 DEF BarrierOpen, BarrierRecovers, BarrierDenies, Flush, ClearRecovery, Start,
                MarkActive, MarkActiveRefused, NothingFound, Close, MarkPendingAbandon, Killed
  <2> QED BY <1>1, <1>3, <2>1 DEF SeamCalls, Transactions
<1>9. CASE Abandon(h) \/ RemoveAttempt(h) \/ TransactionFails(h)
  <2>1. Leave(h) \/ Proceed(h) \/ Goto(h, "remove")
    BY <1>9 DEF Abandon, RemoveAttempt, TransactionFails
  <2> QED BY <1>1, <1>3, <1>4, <2>1 DEF Transactions
<1> QED BY <1>6, <1>7, <1>8, <1>9 DEF ProcessStep, HookStep

\* Of the runtime a call can write only statuses it knows.
LEMMA RuntimeStep ==
  ASSUME AdapterTypeOK, NEW h \in Hooks, ProcessStep(h)
  PROVE  RuntimeOK'
<1>0. RuntimeOK
  BY DEF AdapterTypeOK, RuntimeOK
<1>1. CASE UNCHANGED runtime
  BY <1>0, <1>1 DEF RuntimeOK, runtime
<1>2. Recovered \in [Scopes -> {"NeverSeen", "Active", "Closed", "Abandoned"}]
  BY <1>0 DEF RuntimeOK, Recovered
<1>3. CASE Coordinated(h) /\ marker' \in BOOLEAN
  BY <1>2, <1>3 DEF RuntimeOK, Coordinated, BoundaryStatus
<1>4. CASE CoordinateFails(h)
  BY <1>0, <1>1, <1>2, <1>3, <1>4 DEF RuntimeOK, CoordinateFails, runtime
<1>5. CASE ScopeAbandoned(First(Batch(h))) /\ marker' \in BOOLEAN
  BY <1>0, <1>5 DEF RuntimeOK, ScopeAbandoned
<1>6. CASE marker' \in BOOLEAN /\ UNCHANGED status
  BY <1>0, <1>6 DEF RuntimeOK
<1>7. CASE Flush(h) \/ Start(h) \/ Close(h)
  BY <1>3, <1>4, <1>7 DEF Flush, Start, Close, CoordinateSucceeds
<1>8. CASE Abandon(h)
  <2>1. AbandonSucceeds(First(Batch(h))) \/ AbandonFails(First(Batch(h)))
    BY <1>8 DEF Abandon
  <2> QED BY <1>0, <1>1, <1>5, <1>6, <2>1 DEF AbandonSucceeds, AbandonFails, RuntimeOK
<1>9. CASE Killed(h)
  <2>1. UNCHANGED runtime \/ CoordinateFails(h) \/ AbandonFails(First(Batch(h)))
    BY <1>9 DEF Killed
  <2> QED BY <1>0, <1>1, <1>4, <1>5, <1>6, <2>1 DEF AbandonFails, RuntimeOK
<1>10. CASE Reads(h)
  <2>1. \/ UNCHANGED runtime \/ Flush(h) \/ Start(h) \/ Close(h) \/ Abandon(h) \/ Killed(h)
    BY <1>10 DEF Reads, BarrierOpen, BarrierRecovers, BarrierDenies, ReuseAttempt,
         MarkActiveRefused, NothingFound, FoundToClose, FoundToAbandon, Reprove, TransactionFails
  <2> QED BY <1>1, <1>7, <1>8, <1>9, <2>1
<1>11. CASE ~Reads(h)
  <2>1. UNCHANGED runtime
    BY <1>11, StepCases DEF ClearRecovery, AllocateAttempt, MarkActive, MarkPendingAbandon,
                            RemoveAttempt
  <2> QED BY <1>1, <2>1
<1> QED BY <1>10, <1>11

LEMMA ToolStep ==
  ASSUME AdapterTypeOK, NEW h \in Hooks, ProcessStep(h)
  PROVE  tool' \in [Tools -> {"idle", "running"}]
<1>1. \/ UNCHANGED tool
      \/ tool' = [k \in Tools |-> IF k \in hook[h].event.tools THEN "running" ELSE tool[k]]
  BY DEF ProcessStep, HookStep, BarrierOpen, BarrierRecovers, BarrierDenies, Flush,
         ClearRecovery, ReuseAttempt, AllocateAttempt, Start, MarkActive, MarkActiveRefused,
         NothingFound, FoundToClose, FoundToAbandon, Close, MarkPendingAbandon, Abandon,
         RemoveAttempt, Reprove, TransactionFails, Killed
<1> QED BY <1>1 DEF AdapterTypeOK

\* An event that arrives finds a process that waits, and gives it one of three steps.
LEMMA Invoked ==
  ASSUME AdapterTypeOK, NEW h \in Hooks, NEW event \in Event, Invoke(h, event)
  PROVE  /\ hook[h] = Waiting /\ UNCHANGED <<file, runtime>>
         /\ hook' \in [Hooks -> Process]
         /\ \A g \in Hooks \ {h} : hook'[g] = hook[g]
         /\ hook'[h].pc \in {"barrier", "reprove", "find"}
         /\ hook'[h].event = event /\ hook'[h].batch = {}
BY DEF AdapterTypeOK, Invoke, At, Process, Transactions

LEMMA InvokeKeepsTypes ==
  ASSUME AdapterTypeOK, NEW h \in Hooks, NEW event \in Event, Invoke(h, event)
  PROVE  AdapterTypeOK'
<1>1. tool' \in [Tools -> {"idle", "running"}]
  BY DEF AdapterTypeOK, Invoke
<1>2. \A g \in Hooks : Batch(g)' \subseteq 1..(nextSeq' - 1) /\ (At(g, "idle")' => hook'[g] = Waiting)
  BY Invoked DEF AdapterTypeOK, file, Batch, At
<1> QED BY <1>1, <1>2, Invoked DEF AdapterTypeOK, file, runtime, Known

LEMMA ProcessStepKeepsTypes ==
  ASSUME AdapterTypeOK, NEW h \in Hooks, ProcessStep(h)
  PROVE  AdapterTypeOK'
<1>1. nextSeq \in Nat /\ nextSeq' \in Nat /\ nextSeq <= nextSeq'
  BY FileStep, SeqBound DEF AdapterTypeOK, FileOK
<1>2. \A g \in Hooks : Batch(g) \subseteq 1..(nextSeq - 1)
  BY DEF AdapterTypeOK
<1>3. DOMAIN attempts' \subseteq 1..(nextSeq' - 1)
  BY FileStep DEF FileOK, Known
<1>4. ASSUME NEW g \in Hooks
      PROVE  Batch(g)' \subseteq 1..(nextSeq' - 1) /\ (At(g, "idle")' => hook'[g] = Waiting)
  <2>1. CASE g = h
    BY <1>1, <1>2, <1>3, <2>1, HookMoves DEF Moves, Batch, At
  <2>2. CASE g # h
    BY <1>1, <1>2, <2>2, HookMoves DEF Moves, Batch, At, AdapterTypeOK
  <2> QED BY <2>1, <2>2
<1>5. hook' \in [Hooks -> Process]
  BY HookMoves DEF Moves
<1> QED BY <1>4, <1>5, FileStep, RuntimeStep, ToolStep DEF AdapterTypeOK, FileOK, RuntimeOK

\* Types, and that two hooks never have an attempt each of the same key.
THEOREM AdapterTypeCorrect == AdapterSpec => []AdapterTypeOK
<1>1. AdapterInit => AdapterTypeOK
  <2> SUFFICES ASSUME AdapterInit PROVE AdapterTypeOK
    OBVIOUS
  <2>1. Known = {} /\ attempts = [s \in Known |-> attempts[s]]
    BY DEF AdapterInit, Known
  <2>2. attempts \in [Known -> AdapterAttempt]
    BY <2>1
  <2>3. hook \in [Hooks -> Process] /\ \A h \in Hooks : hook[h] = Waiting /\ Batch(h) = {}
    BY WaitingType DEF AdapterInit, Batch
  <2>4. nextSeq = 1
    BY DEF AdapterInit
  <2>5. nextSeq \in 1..(MaxSeq + 1)
    BY <2>4, SeqBound
  <2>6. pending \in BOOLEAN /\ marker \in BOOLEAN
    BY DEF AdapterInit
  <2>7. /\ tool \in [Tools -> {"idle", "running"}]
        /\ status \in [Scopes -> {"NeverSeen", "Active", "Closed", "Abandoned"}]
    BY DEF AdapterInit
  <2> QED BY <2>1, <2>2, <2>3, <2>5, <2>6, <2>7 DEF AdapterTypeOK
<1>2. AdapterTypeOK /\ [AdapterNext]_adapterVars => AdapterTypeOK'
  <2> SUFFICES ASSUME AdapterTypeOK, [AdapterNext]_adapterVars PROVE AdapterTypeOK'
    OBVIOUS
  <2>1. CASE UNCHANGED adapterVars
    BY <2>1 DEF adapterVars, file, runtime, AdapterTypeOK, Known, Batch, At
  <2>2. CASE AdapterNext
    <3>1. PICK h \in Hooks : (\E event \in Event : Invoke(h, event)) \/ ProcessStep(h)
      BY <2>2 DEF AdapterNext, ProcessStep
    <3> QED BY <3>1, InvokeKeepsTypes, ProcessStepKeepsTypes
  <2> QED BY <2>1, <2>2
<1> QED BY <1>1, <1>2, PTL DEF AdapterSpec

-----------------------------------------------------------------------------
(* Abandonment.                                                            *)

\* What is still known of these scopes is marked for abandonment.
Decided(scopes) == \A s \in scopes \cap Known : Abandoning(s)

\* The scopes a cleanup has in hand: a close has one, an abandonment only decided
\* ones, and so are the scopes that are left when one of them is settled.
InHand(h) ==
  /\ hook[h].pc \in {"close", "mark", "abandon", "remove"} => Batch(h) # {}
  /\ At(h, "close") => \E s \in Scopes : Batch(h) = {s}
  /\ At(h, "abandon") => Decided(Batch(h))
  /\ At(h, "remove") => Decided(Batch(h) \ {First(Batch(h))})

AbandonInv == AdapterTypeOK /\ AbandonmentIsBarred /\ \A h \in Hooks : InHand(h)

\* The same after a step, of scopes that were in hand before it.
StillDecided(scopes) ==
  \A s \in scopes : s \in DOMAIN attempts' => attempts'[s].phase = "PendingAbandon"

LEMMA FirstOfOne == ASSUME NEW s PROVE First({s}) = s
BY DEF First

\* No step unmarks a scope that was allocated before, nor brings it back.
LEMMA DecisionStays ==
  ASSUME AdapterTypeOK, NEW h \in Hooks, ProcessStep(h),
         NEW s \in 1..(nextSeq - 1), s \in DOMAIN attempts'
  PROVE  s \in Known /\ (Abandoning(s) => attempts'[s].phase = "PendingAbandon")
<1>1. CASE Reads(h)
  BY <1>1, ReadsOnly DEF file, Known, Abandoning
<1>2. CASE ClearRecovery(h) \/ MarkPendingAbandon(h) \/ RemoveAttempt(h)
  BY <1>2 DEF ClearRecovery, MarkPendingAbandon, RemoveAttempt, Known, Abandoning, AdapterTypeOK,
              AdapterAttempt
<1>3. CASE AllocateAttempt(h)
  BY <1>3, Allocated, SeqBound DEF AdapterTypeOK, Abandoning
<1>4. CASE MarkActive(h)
  BY <1>4 DEF MarkActive, MayActivate, Known, Abandoning
<1> QED BY <1>1, <1>2, <1>3, <1>4, StepCases

LEMMA DecidedStays ==
  ASSUME AdapterTypeOK, NEW h \in Hooks, ProcessStep(h),
         NEW scopes \in SUBSET (1..(nextSeq - 1)), Decided(scopes)
  PROVE  StillDecided(scopes)
BY DecisionStays DEF Decided, StillDecided

\* A process that does not move keeps what it has in hand.
LEMMA OthersInHand ==
  ASSUME AdapterTypeOK, NEW h \in Hooks, NEW g \in Hooks, ProcessStep(h), InHand(g),
         hook'[g] = hook[g]
  PROVE  InHand(g)'
<1>1. Batch(g) \in SUBSET (1..(nextSeq - 1)) /\ Batch(g) \ {First(Batch(g))} \in SUBSET (1..(nextSeq - 1))
  BY DEF AdapterTypeOK
<1>2. At(g, "abandon") => Decided(Batch(g))'
  BY <1>1, DecidedStays DEF InHand, Decided, StillDecided, Batch, Known, Abandoning
<1>3. At(g, "remove") => Decided(Batch(g) \ {First(Batch(g))})'
  BY <1>1, DecidedStays DEF InHand, Decided, StillDecided, Batch, Known, Abandoning
<1> QED BY <1>2, <1>3 DEF InHand, At, Batch

\* A cleanup goes on with what is decided.
LEMMA ProceedInHand ==
  ASSUME AdapterTypeOK, NEW h \in Hooks, ProcessStep(h), Proceed(h),
         Decided(Batch(h) \ {First(Batch(h))})
  PROVE  InHand(h)'
<1> DEFINE rest == Batch(h) \ {First(Batch(h))}
<1>1. rest \in SUBSET (1..(nextSeq - 1))
  BY DEF AdapterTypeOK
<1>2. StillDecided(rest)
  BY <1>1, DecidedStays
<1>3. hook'[h].pc \in {"abandon", "clear", "idle"}
  BY ProceedMoves
<1>4. hook'[h].pc = "abandon" => hook'[h].batch # {} /\ hook'[h].batch = rest
  BY ProceedMoves
<1> QED BY <1>2, <1>3, <1>4 DEF InHand, At, Batch, Decided, StillDecided, Known, Abandoning

LEMMA OwnInHand ==
  ASSUME AdapterTypeOK, NEW h \in Hooks, ProcessStep(h), InHand(h)
  PROVE  InHand(h)'
<1>1. CASE FoundToClose(h)
  <2>1. PICK k \in Tools : hook[h].event.tools = {k}
    BY <1>1, OneTool DEF FoundToClose, Serves, ToolEvent
  <2>2. PICK s \in Matching({k}) : TRUE
    BY <1>1, <2>1 DEF FoundToClose
  <2>3. \A r \in Matching({k}) : r = s
    BY <2>2 DEF Matching, AdapterTypeOK
  <2>4. s \in Scopes
    BY <2>2, SeqBound DEF Matching, AdapterTypeOK, Scopes
  <2>5. Matching({k}) = {s}
    BY <2>2, <2>3
  <2>6. Take(h, "close", {s}) /\ s \in Scopes
    BY <1>1, <2>1, <2>4, <2>5 DEF FoundToClose
  <2>7. hook'[h].pc = "close" /\ hook'[h].batch = {s}
    BY <2>6 DEF Take, AdapterTypeOK, Process
  <2> QED BY <2>6, <2>7 DEF InHand, At, Batch
<1>2. CASE FoundToAbandon(h)
  <2>1. hook'[h].pc = "mark" /\ hook'[h].batch # {}
    BY <1>2 DEF FoundToAbandon, Take, AdapterTypeOK, Process
  <2> QED BY <2>1 DEF InHand, At, Batch
<1>3. CASE Close(h)
  <2>1. PICK s \in Scopes : Batch(h) = {s}
    BY <1>3 DEF Close, InHand
  <2>2. hook'[h].pc \in {"remove", "mark"} /\ hook'[h].batch = {s}
    BY <1>3, <2>1 DEF Close, Goto, AdapterTypeOK, Process, Batch
  <2>3. {s} \ {First({s})} = {}
    BY FirstOfOne
  <2> QED BY <2>2, <2>3 DEF InHand, At, Batch, Decided
<1>4. CASE MarkPendingAbandon(h)
  <2>1. hook'[h].pc = "abandon" /\ hook'[h].batch = Batch(h) /\ Batch(h) # {}
    BY <1>4 DEF MarkPendingAbandon, Goto, AdapterTypeOK, Process, Batch, InHand, At
  <2>2. \A s \in Batch(h) : s \in DOMAIN attempts' => attempts'[s].phase = "PendingAbandon"
    BY <1>4 DEF MarkPendingAbandon, Marked, AdapterTypeOK, AdapterAttempt, Known
  <2> QED BY <2>1, <2>2 DEF InHand, At, Batch, Decided, Known, Abandoning
<1>5. CASE Abandon(h)
  <2>1. Decided(Batch(h)) /\ Batch(h) # {} /\ attempts' = attempts
    BY <1>5 DEF Abandon, InHand, At, file
  <2>2. CASE Goto(h, "remove")
    <3>1. hook'[h].pc = "remove" /\ hook'[h].batch = Batch(h)
      BY <2>2 DEF Goto, AdapterTypeOK, Process, Batch
    <3> QED BY <2>1, <3>1 DEF InHand, At, Batch, Decided, Known, Abandoning
  <2>3. CASE Proceed(h)
    BY <2>1, <2>3, ProceedInHand DEF Decided
  <2> QED BY <1>5, <2>2, <2>3 DEF Abandon
<1>6. CASE RemoveAttempt(h) \/ TransactionFails(h)
  <2>1. CASE Leave(h)
    BY <2>1, LeaveMoves DEF InHand, At, Batch, Waiting
  <2>2. CASE At(h, "remove") /\ Proceed(h)
    BY <2>2, ProceedInHand DEF InHand
  <2> QED BY <1>6, <2>1, <2>2 DEF RemoveAttempt, TransactionFails
<1>7. CASE Reprove(h)
  <2>1. CASE Leave(h)
    BY <2>1, LeaveMoves DEF InHand, At, Batch, Waiting
  <2>2. CASE Take(h, "abandon", Known) /\ Known # {} /\ \A s \in Known : Abandoning(s)
    <3>1. hook'[h].pc = "abandon" /\ hook'[h].batch = Known
      BY <2>2 DEF Take, AdapterTypeOK, Process
    <3>2. attempts' = attempts
      BY <1>7 DEF Reprove, file
    <3> QED BY <2>2, <3>1, <3>2 DEF InHand, At, Batch, Decided, Known, Abandoning
  <2> QED BY <1>7, <2>1, <2>2 DEF Reprove
<1>8. ASSUME hook'[h].pc \notin {"close", "mark", "abandon", "remove"}
      PROVE  InHand(h)'
  BY <1>8 DEF InHand, At, Batch
<1>9. CASE BarrierOpen(h) \/ BarrierRecovers(h) \/ BarrierDenies(h) \/ Flush(h) \/ ClearRecovery(h)
             \/ Start(h) \/ MarkActive(h) \/ MarkActiveRefused(h) \/ NothingFound(h) \/ Killed(h)
  <2>1. Leave(h) \/ \E pc \in {"allocate", "flush", "clear", "activate"} : Goto(h, pc)
    BY <1>9 DEF BarrierOpen, BarrierRecovers, BarrierDenies, Flush, ClearRecovery, Start,
                MarkActive, MarkActiveRefused, NothingFound, Killed
  <2>2. hook'[h].pc \in {"idle", "allocate", "flush", "clear", "activate"}
    BY <2>1, WaitingType DEF Leave, Goto, AdapterTypeOK, Process
  <2> QED BY <1>8, <2>2
<1>10. CASE ReuseAttempt(h) \/ AllocateAttempt(h)
  <2>1. hook'[h].pc = "start"
    BY <1>10 DEF ReuseAttempt, AllocateAttempt, Take, AdapterTypeOK, Process
  <2> QED BY <1>8, <2>1
<1> QED BY <1>1, <1>2, <1>3, <1>4, <1>5, <1>6, <1>7, <1>9, <1>10 DEF ProcessStep, HookStep

\* The barrier is lifted only when nothing is left to abandon.
LEMMA BarredStays ==
  ASSUME AdapterTypeOK, NEW h \in Hooks, ProcessStep(h), AbandonmentIsBarred
  PROVE  AbandonmentIsBarred'
<1>1. CASE Reads(h)
  BY <1>1, ReadsOnly DEF file, AbandonmentIsBarred, Known, Abandoning
<1>2. CASE ClearRecovery(h)
  BY <1>2 DEF ClearRecovery, Quiescent, AbandonmentIsBarred, Known, Abandoning, AdapterTypeOK
<1>3. CASE AllocateAttempt(h)
  BY <1>3, Allocated DEF AbandonmentIsBarred, Known, Abandoning
<1>4. CASE MarkActive(h)
  BY <1>4 DEF MarkActive, AbandonmentIsBarred, Known, Abandoning
<1>5. CASE MarkPendingAbandon(h)
  BY <1>5 DEF MarkPendingAbandon, AbandonmentIsBarred
<1>6. CASE RemoveAttempt(h)
  BY <1>6 DEF RemoveAttempt, AbandonmentIsBarred, Known, Abandoning
<1> QED BY <1>1, <1>2, <1>3, <1>4, <1>5, <1>6, StepCases

LEMMA InvokeKeepsHands ==
  ASSUME AbandonInv, NEW h \in Hooks, NEW event \in Event, Invoke(h, event)
  PROVE  AbandonInv'
<1>1. AdapterTypeOK'
  BY InvokeKeepsTypes DEF AbandonInv
<1>2. AbandonmentIsBarred'
  BY Invoked DEF AbandonInv, AbandonmentIsBarred, file, Known, Abandoning
<1>3. ASSUME NEW g \in Hooks PROVE InHand(g)'
  <2>1. CASE g = h
    BY <2>1, Invoked DEF AbandonInv, InHand, At, Batch
  <2>2. CASE g # h
    BY <2>2, Invoked DEF AbandonInv, InHand, At, Batch, Decided, file, Known, Abandoning
  <2> QED BY <2>1, <2>2
<1> QED BY <1>1, <1>2, <1>3 DEF AbandonInv

LEMMA ProcessStepKeepsHands ==
  ASSUME AbandonInv, NEW h \in Hooks, ProcessStep(h)
  PROVE  AbandonInv'
<1>0. AdapterTypeOK /\ AbandonmentIsBarred /\ \A g \in Hooks : InHand(g)
  BY DEF AbandonInv
<1>1. AdapterTypeOK'
  BY <1>0, ProcessStepKeepsTypes
<1>2. AbandonmentIsBarred'
  BY <1>0, BarredStays
<1>3. \A g \in Hooks \ {h} : hook'[g] = hook[g]
  BY <1>0, HookMoves DEF Moves
<1>4. ASSUME NEW g \in Hooks PROVE InHand(g)'
  BY <1>0, <1>3, OwnInHand, OthersInHand
<1> QED BY <1>1, <1>2, <1>4 DEF AbandonInv

THEOREM AbandonInvariant == AdapterSpec => []AbandonInv
<1>1. AdapterInit /\ AdapterTypeOK => AbandonInv
  <2> SUFFICES ASSUME AdapterInit, AdapterTypeOK PROVE AbandonInv
    OBVIOUS
  <2>1. Known = {} /\ \A h \in Hooks : hook[h].pc = "idle"
    BY WaitingType DEF AdapterInit, Known
  <2> QED BY <2>1 DEF AbandonInv, AbandonmentIsBarred, InHand, At
<1>2. AbandonInv /\ [AdapterNext]_adapterVars => AbandonInv'
  <2> SUFFICES ASSUME AbandonInv, [AdapterNext]_adapterVars PROVE AbandonInv'
    OBVIOUS
  <2>1. CASE UNCHANGED adapterVars
    BY <2>1 DEF adapterVars, file, runtime, AbandonInv, AdapterTypeOK, AbandonmentIsBarred, InHand,
                Decided, Abandoning, Known, Batch, At
  <2>2. CASE AdapterNext
    <3>1. PICK h \in Hooks : (\E event \in Event : Invoke(h, event)) \/ ProcessStep(h)
      BY <2>2 DEF AdapterNext, ProcessStep
    <3> QED BY <3>1, InvokeKeepsHands, ProcessStepKeepsHands
  <2> QED BY <2>1, <2>2
<1> QED BY <1>1, <1>2, AdapterTypeCorrect, PTL DEF AdapterSpec

\* The state file is never what the health classifier calls invalid, however many
\* hooks, cleanups and repairs interleave and wherever they fail or are killed.
THEOREM AbandonmentAlwaysBarred == AdapterSpec => []AbandonmentIsBarred
<1>1. AbandonInv => AbandonmentIsBarred
  BY DEF AbandonInv
<1> QED BY <1>1, AbandonInvariant, PTL

\* No scope is abandoned in the runtime before its whole batch is marked on disk.
THEOREM AbandonAlwaysWrittenAhead == AdapterSpec => []AbandonIsWrittenAhead
<1>1. AbandonInv => AbandonIsWrittenAhead
  BY DEF AbandonInv, AbandonIsWrittenAhead, InHand, At, Decided
<1> QED BY <1>1, AbandonInvariant, PTL

\* A mark stays until its attempt is settled: nothing overrules a cleanup.
THEOREM DecisionAlwaysFinal == AdapterSpec => DecisionIsFinal
<1> DEFINE Kept == \A s \in Known \cap DOMAIN attempts' :
                     Abandoning(s) => attempts'[s].phase = "PendingAbandon"
<1>1. AdapterTypeOK /\ [AdapterNext]_adapterVars => [Kept]_adapterVars
  <2> SUFFICES ASSUME AdapterTypeOK, AdapterNext PROVE Kept
    OBVIOUS
  <2>1. PICK h \in Hooks : (\E event \in Event : Invoke(h, event)) \/ ProcessStep(h)
    BY DEF AdapterNext, ProcessStep
  <2>2. CASE \E event \in Event : Invoke(h, event)
    BY <2>2 DEF Invoke, file, Known, Abandoning
  <2>3. CASE ProcessStep(h)
    BY <2>3, DecisionStays DEF AdapterTypeOK
  <2> QED BY <2>1, <2>2, <2>3
<1> QED BY <1>1, AdapterTypeCorrect, PTL DEF AdapterSpec, DecisionIsFinal

-----------------------------------------------------------------------------
(* What a step does to the runtime and to the file.                        *)

\* The statuses change by a recovery, a boundary of the batch, or the abandonment
\* of its first scope.
LEMMA StatusStep ==
  ASSUME NEW h \in Hooks, ProcessStep(h)
  PROVE  \/ UNCHANGED status
         \/ status' = Recovered
         \/ Coordinated(h) /\ (At(h, "flush") \/ At(h, "start") \/ At(h, "close"))
         \/ At(h, "abandon") /\ ScopeAbandoned(First(Batch(h)))
<1>1. CASE Flush(h) \/ Start(h) \/ Close(h)
  BY <1>1 DEF Flush, Start, Close, CoordinateSucceeds, CoordinateFails, runtime
<1>2. CASE Abandon(h)
  BY <1>2 DEF Abandon, AbandonSucceeds, AbandonFails, runtime
<1>3. CASE Killed(h)
  BY <1>3 DEF Killed, CoordinateFails, AbandonFails, runtime, SeamCalls, At
<1>4. CASE ~(Flush(h) \/ Start(h) \/ Close(h) \/ Abandon(h) \/ Killed(h))
  BY <1>4 DEF ProcessStep, HookStep, BarrierOpen, BarrierRecovers, BarrierDenies,
       ClearRecovery, ReuseAttempt, AllocateAttempt, MarkActive, MarkActiveRefused,
       NothingFound, FoundToClose, FoundToAbandon, MarkPendingAbandon,
       RemoveAttempt, Reprove, TransactionFails, runtime
<1> QED BY <1>1, <1>2, <1>3, <1>4

LEMMA SeenStays ==
  ASSUME AdapterTypeOK, NEW h \in Hooks, ProcessStep(h), NEW s \in Scopes, status[s] # "NeverSeen"
  PROVE  status'[s] # "NeverSeen"
BY StatusStep DEF Recovered, Coordinated, BoundaryStatus, ScopeAbandoned, AdapterTypeOK

LEMMA FirstInHand == ASSUME NEW scopes, scopes # {} PROVE First(scopes) \in scopes
BY DEF First

LEMMA UnseenStays ==
  ASSUME AbandonInv, NEW h \in Hooks, ProcessStep(h), NEW s \in Scopes, s \notin Batch(h),
         status[s] = "NeverSeen"
  PROVE  status'[s] = "NeverSeen"
<1>1. At(h, "abandon") => First(Batch(h)) \in Batch(h)
  BY FirstInHand DEF AbandonInv, InHand, At
<1> QED BY <1>1, StatusStep DEF AbandonInv, AdapterTypeOK, Recovered, Coordinated, ScopeAbandoned

\* A scope that is live and safe from a recovery was so before, or is started now.
LEMMA LiveStep ==
  ASSUME AdapterTypeOK, NEW h \in Hooks, ProcessStep(h), NEW s \in Scopes,
         status'[s] = "Active", ~marker'
  PROVE  (status[s] = "Active" /\ ~marker) \/ (At(h, "start") /\ s \in Batch(h))
<1>1. CASE Coordinated(h) /\ hook[h].pc # "start"
  BY <1>1 DEF Coordinated, BoundaryStatus, Recovered, AdapterTypeOK
<1>2. CASE Coordinated(h) /\ hook[h].pc = "start"
  BY <1>2 DEF Coordinated, Recovered, AdapterTypeOK, At
<1>3. CASE CoordinateFails(h)
  BY <1>3 DEF CoordinateFails, runtime
<1>4. CASE AbandonSucceeds(First(Batch(h))) \/ AbandonFails(First(Batch(h)))
  BY <1>4 DEF AbandonSucceeds, AbandonFails, ScopeAbandoned, runtime, AdapterTypeOK
<1>5. CASE UNCHANGED runtime
  BY <1>5 DEF runtime
<1>6. \/ Coordinated(h) \/ CoordinateFails(h) \/ UNCHANGED runtime
      \/ AbandonSucceeds(First(Batch(h))) \/ AbandonFails(First(Batch(h)))
  BY DEF ProcessStep, HookStep, BarrierOpen, BarrierRecovers, BarrierDenies, Flush,
         ClearRecovery, ReuseAttempt, AllocateAttempt, Start, MarkActive, MarkActiveRefused,
         NothingFound, FoundToClose, FoundToAbandon, Close, MarkPendingAbandon, Abandon,
         RemoveAttempt, Reprove, TransactionFails, Killed, CoordinateSucceeds
<1> QED BY <1>1, <1>2, <1>3, <1>4, <1>5, <1>6

\* An attempt is added by an allocation; it is removed by its cleanup and marked by
\* its cleanup; its key never changes.
LEMMA AttemptStep ==
  ASSUME AdapterTypeOK, NEW h \in Hooks, ProcessStep(h), NEW s \in Known \cup DOMAIN attempts'
  PROVE  /\ s \notin Known => At(h, "allocate") /\ attempts'[s].phase = "PendingStart"
         /\ s \notin DOMAIN attempts' => At(h, "remove") /\ s = First(Batch(h))
         /\ s \in Known /\ s \in DOMAIN attempts' =>
              /\ attempts'[s].tool = attempts[s].tool
              /\ attempts'[s].phase = "PendingAbandon" /\ ~Abandoning(s) =>
                   At(h, "mark") /\ s \in Batch(h)
              /\ attempts'[s].phase = "Active" /\ attempts[s].phase # "Active" =>
                   At(h, "activate") /\ s \in Batch(h)
<1>1. CASE Reads(h)
  BY <1>1, ReadsOnly DEF file, Known, Abandoning
<1>2. CASE ClearRecovery(h)
  BY <1>2 DEF ClearRecovery, Known, Abandoning
<1>3. CASE AllocateAttempt(h)
  BY <1>3, Allocated DEF AllocateAttempt, Abandoning
<1>4. CASE MarkActive(h)
  BY <1>4 DEF MarkActive, Known, Abandoning, AdapterTypeOK, AdapterAttempt
<1>5. CASE MarkPendingAbandon(h)
  BY <1>5 DEF MarkPendingAbandon, Marked, Known, Abandoning, AdapterTypeOK, AdapterAttempt
<1>6. CASE RemoveAttempt(h)
  BY <1>6 DEF RemoveAttempt, Known, Abandoning
<1> QED BY <1>1, <1>2, <1>3, <1>4, <1>5, <1>6, StepCases

\* The steps by which a process comes to what it does next.
LEMMA EntersBy ==
  ASSUME AdapterTypeOK, NEW h \in Hooks, ProcessStep(h)
  PROVE  /\ hook'[h].pc = "allocate" =>
              BarrierOpen(h) \/ (ClearRecovery(h) /\ ~pending' /\ Goto(h, "allocate"))
         /\ hook'[h].pc = "start" => ReuseAttempt(h) \/ AllocateAttempt(h)
         /\ hook'[h].pc = "activate" => Start(h) /\ CoordinateSucceeds(h) /\ Goto(h, "activate")
         /\ hook'[h].pc = "close" => FoundToClose(h)
         /\ hook'[h].pc = "mark" => FoundToAbandon(h) \/ (Close(h) /\ Goto(h, "mark"))
         /\ hook'[h].pc = "remove" =>
              /\ Goto(h, "remove")
              /\ \/ Close(h) /\ CoordinateSucceeds(h)
                 \/ Abandon(h) /\ AbandonSucceeds(First(Batch(h)))
<1>1. ASSUME Leave(h) \/ Proceed(h)
      PROVE  hook'[h].pc \in {"idle", "abandon", "clear"}
  BY <1>1, LeaveMoves, ProceedMoves, WaitingType
<1>2. ASSUME NEW pc, Goto(h, pc) PROVE hook'[h].pc = pc
  BY <1>2 DEF Goto, AdapterTypeOK, Process
<1>3. ASSUME NEW pc, NEW scopes, Take(h, pc, scopes) PROVE hook'[h].pc = pc
  BY <1>3 DEF Take, AdapterTypeOK, Process
<1>4. CASE BarrierOpen(h) \/ BarrierRecovers(h) \/ BarrierDenies(h) \/ Flush(h) \/ ClearRecovery(h)
  <2>1. \/ BarrierOpen(h) /\ Goto(h, "allocate")
        \/ ClearRecovery(h) /\ ~pending' /\ Goto(h, "allocate")
        \/ Goto(h, "flush") \/ Goto(h, "clear") \/ Leave(h)
    BY <1>4 DEF BarrierOpen, BarrierRecovers, BarrierDenies, Flush, ClearRecovery
  <2> QED BY <1>1, <1>2, <2>1
<1>5. CASE ReuseAttempt(h) \/ AllocateAttempt(h)
  <2>1. \E scopes : Take(h, "start", scopes)
    BY <1>5 DEF ReuseAttempt, AllocateAttempt
  <2> QED BY <1>3, <1>5, <2>1
<1>6. CASE Start(h)
  <2>1. (CoordinateSucceeds(h) /\ Goto(h, "activate")) \/ Leave(h)
    BY <1>6 DEF Start
  <2> QED BY <1>1, <1>2, <1>6, <2>1
<1>7. CASE MarkActive(h) \/ MarkActiveRefused(h) \/ NothingFound(h) \/ RemoveAttempt(h)
             \/ TransactionFails(h) \/ Killed(h)
  BY <1>1, <1>7 DEF MarkActive, MarkActiveRefused, NothingFound, RemoveAttempt, TransactionFails,
                    Killed
<1>8. CASE FoundToClose(h)
  BY <1>3, <1>8 DEF FoundToClose
<1>9. CASE FoundToAbandon(h)
  BY <1>3, <1>9 DEF FoundToAbandon
<1>10. CASE Close(h)
  <2>1. (CoordinateSucceeds(h) /\ Goto(h, "remove")) \/ Goto(h, "mark")
    BY <1>10 DEF Close
  <2> QED BY <1>2, <1>10, <2>1
<1>11. CASE MarkPendingAbandon(h)
  BY <1>2, <1>11 DEF MarkPendingAbandon
<1>12. CASE Abandon(h)
  <2>1. (AbandonSucceeds(First(Batch(h))) /\ Goto(h, "remove")) \/ Proceed(h)
    BY <1>12 DEF Abandon
  <2> QED BY <1>1, <1>2, <1>12, <2>1
<1>13. CASE Reprove(h)
  <2>1. Take(h, "abandon", Known) \/ Leave(h)
    BY <1>13 DEF Reprove
  <2> QED BY <1>1, <1>3, <2>1
<1> QED BY <1>4, <1>5, <1>6, <1>7, <1>8, <1>9, <1>10, <1>11, <1>12, <1>13 DEF ProcessStep, HookStep

-----------------------------------------------------------------------------
(* Starts.                                                                 *)

\* A scope that was never allocated was never seen, and a start that is about to
\* be recorded was.
StartedInv ==
  /\ AbandonInv
  /\ ActiveAttemptWasStarted
  /\ \A s \in Scopes : s >= nextSeq => status[s] = "NeverSeen"
  /\ \A h \in Hooks : At(h, "activate") => \A s \in Batch(h) : status[s] # "NeverSeen"

LEMMA InvokeKeepsStarts ==
  ASSUME StartedInv, NEW h \in Hooks, NEW event \in Event, Invoke(h, event)
  PROVE  StartedInv'
<1>1. AbandonInv'
  BY InvokeKeepsHands DEF StartedInv
<1>2. UNCHANGED <<file, runtime>> /\ hook'[h].pc # "activate"
      /\ \A g \in Hooks \ {h} : hook'[g] = hook[g]
  BY Invoked DEF StartedInv, AbandonInv
<1> QED BY <1>1, <1>2 DEF StartedInv, ActiveAttemptWasStarted, file, runtime, Known, At, Batch

LEMMA ProcessStepKeepsStarts ==
  ASSUME StartedInv, NEW h \in Hooks, ProcessStep(h)
  PROVE  StartedInv'
<1>0. AbandonInv /\ AdapterTypeOK
  BY DEF StartedInv, AbandonInv
<1>1. AbandonInv'
  BY <1>0, ProcessStepKeepsHands
<1>2. /\ Known \subseteq Scopes /\ DOMAIN attempts' \subseteq Scopes
      /\ \A g \in Hooks : Batch(g) \subseteq Scopes
  BY <1>0, <1>1, SeqBound DEF AbandonInv, AdapterTypeOK, Known, Scopes
<1>3. ActiveAttemptWasStarted'
  <2> SUFFICES ASSUME NEW s \in DOMAIN attempts', attempts'[s].phase = "Active"
               PROVE  status'[s] # "NeverSeen"
    BY DEF ActiveAttemptWasStarted, Known
  <2>1. s \in Known
    BY <1>0, AttemptStep
  <2>2. attempts[s].phase = "Active" \/ (At(h, "activate") /\ s \in Batch(h))
    BY <1>0, <2>1, AttemptStep
  <2>3. status[s] # "NeverSeen"
    BY <2>1, <2>2 DEF StartedInv, ActiveAttemptWasStarted
  <2> QED BY <1>0, <1>2, <2>1, <2>3, SeenStays
<1>4. ASSUME NEW s \in Scopes, s >= nextSeq'
      PROVE  status'[s] = "NeverSeen"
  <2>1. nextSeq \in Nat /\ nextSeq' \in Nat /\ nextSeq <= nextSeq' /\ s \in Nat
    BY <1>0, FileStep, SeqBound DEF FileOK, AdapterTypeOK, Scopes
  <2>2. s >= nextSeq /\ s \notin 1..(nextSeq - 1)
    BY <1>4, <2>1
  <2> QED BY <1>0, <2>2, UnseenStays DEF StartedInv, AdapterTypeOK
<1>5. ASSUME NEW g \in Hooks, hook'[g].pc = "activate", NEW s \in hook'[g].batch
      PROVE  status'[s] # "NeverSeen"
  <2>1. CASE g # h
    <3>1. hook'[g] = hook[g]
      BY <1>0, <2>1, HookMoves DEF Moves
    <3> QED BY <1>0, <1>2, <1>5, <3>1, SeenStays DEF StartedInv, At, Batch
  <2>2. CASE g = h
    <3>1. At(h, "start") /\ Coordinated(h) /\ Goto(h, "activate")
      BY <1>0, <1>5, <2>2, EntersBy DEF Start, CoordinateSucceeds
    <3>2. s \in Batch(h) /\ s \in Scopes
      BY <1>0, <1>2, <1>5, <2>2, <3>1 DEF Goto, Batch, AdapterTypeOK, Process
    <3> QED BY <1>0, <3>1, <3>2 DEF Coordinated, BoundaryStatus, At, AdapterTypeOK
  <2> QED BY <2>1, <2>2
<1> QED BY <1>1, <1>3, <1>4, <1>5 DEF StartedInv, At, Batch

THEOREM StartedInvariant == AdapterSpec => []StartedInv
<1>1. AdapterInit /\ AbandonInv => StartedInv
  <2> SUFFICES ASSUME AdapterInit, AbandonInv PROVE StartedInv
    OBVIOUS
  <2>1. Known = {} /\ \A h \in Hooks : hook[h].pc = "idle"
    BY WaitingType DEF AdapterInit, Known
  <2>2. \A s \in Scopes : status[s] = "NeverSeen"
    BY DEF AdapterInit
  <2> QED BY <2>1, <2>2 DEF StartedInv, ActiveAttemptWasStarted, At
<1>2. StartedInv /\ [AdapterNext]_adapterVars => StartedInv'
  <2> SUFFICES ASSUME StartedInv, [AdapterNext]_adapterVars PROVE StartedInv'
    OBVIOUS
  <2>1. CASE UNCHANGED adapterVars
    BY <2>1 DEF adapterVars, file, runtime, StartedInv, AbandonInv, AdapterTypeOK,
                AbandonmentIsBarred, InHand, Decided, Abandoning, Known, Batch, At,
                ActiveAttemptWasStarted
  <2>2. CASE AdapterNext
    <3>1. PICK h \in Hooks : (\E event \in Event : Invoke(h, event)) \/ ProcessStep(h)
      BY <2>2 DEF AdapterNext, ProcessStep
    <3> QED BY <3>1, InvokeKeepsStarts, ProcessStepKeepsStarts
  <2> QED BY <2>1, <2>2
<1> QED BY <1>1, <1>2, AbandonInvariant, PTL DEF AdapterSpec

\* A tool is allowed, and an attempt recorded as active, only when its start is
\* durable in the runtime.
THEOREM ActiveAttemptAlwaysStarted == AdapterSpec => []ActiveAttemptWasStarted
<1>1. StartedInv => ActiveAttemptWasStarted
  BY DEF StartedInv
<1> QED BY <1>1, StartedInvariant, PTL

\* A new attempt has a scope that neither the runtime nor any hook has seen.
THEOREM ScopeIdAlwaysNew == AdapterSpec => ScopeIdIsNew
<1> DEFINE New == \A s \in DOMAIN attempts' \ Known :
                    status[s] = "NeverSeen" /\ \A h \in Hooks : s \notin Batch(h)
<1>1. StartedInv /\ [AdapterNext]_adapterVars => [New]_adapterVars
  <2> SUFFICES ASSUME StartedInv, AdapterNext PROVE New
    OBVIOUS
  <2>0. AdapterTypeOK
    BY DEF StartedInv, AbandonInv
  <2>1. PICK h \in Hooks : (\E event \in Event : Invoke(h, event)) \/ ProcessStep(h)
    BY DEF AdapterNext, ProcessStep
  <2>2. CASE \E event \in Event : Invoke(h, event)
    BY <2>2 DEF Invoke, file, Known
  <2>3. CASE ProcessStep(h)
    <3>1. CASE AllocateAttempt(h)
      <4>1. DOMAIN attempts' \ Known = {nextSeq} /\ nextSeq \in Scopes
        BY <2>0, <3>1, Allocated
      <4>2. nextSeq \notin 1..(nextSeq - 1) /\ nextSeq >= nextSeq
        BY <4>1 DEF Scopes
      <4> QED BY <2>0, <4>1, <4>2 DEF StartedInv, AdapterTypeOK
    <3>2. CASE ~AllocateAttempt(h)
      <4>1. DOMAIN attempts' \subseteq Known
        BY <2>3, <3>2, StepCases, ReadsOnly DEF file, ClearRecovery, MarkActive,
             MarkPendingAbandon, RemoveAttempt, Known
      <4> QED BY <4>1
    <3> QED BY <3>1, <3>2
  <2> QED BY <2>1, <2>2, <2>3
<1> QED BY <1>1, StartedInvariant, PTL DEF AdapterSpec, ScopeIdIsNew

-----------------------------------------------------------------------------
(* Live scopes.                                                            *)

\* Two hooks under way never serve the same tool.
Apart ==
  \A h, g \in Hooks : h # g => hook[h].event.tools \cap hook[g].event.tools = {}

\* A hook that starts a scope finds it in the file to the end, not marked.
Opens(h) ==
  /\ At(h, "allocate") => \A s \in Matching(hook[h].event.tools) : ~Abandoning(s)
  /\ hook[h].pc \in {"start", "activate"} =>
       \A s \in Batch(h) : s \in Matching(hook[h].event.tools) /\ ~Abandoning(s)

\* A hook that ends attempts has its own tools' in hand, or decided ones, and
\* removes what cannot be live any more.
Owns(h) == Batch(h) \cap Known \subseteq Matching(hook[h].event.tools)
Settles(h) ==
  /\ hook[h].pc \in {"close", "mark"} => Owns(h)
  /\ At(h, "remove") =>
       /\ Owns(h) \/ Decided(Batch(h))
       /\ status[First(Batch(h))] # "Active" \/ marker

TrackInv ==
  /\ AbandonInv /\ AllTracked /\ Apart
  /\ \A h \in Hooks : Opens(h) /\ Settles(h)

LEMMA InvokeKeepsTracks ==
  ASSUME TrackInv, NEW h \in Hooks, NEW event \in Event, Invoke(h, event), ~Overtakes(event)
  PROVE  TrackInv'
<1>0. AbandonInv /\ AdapterTypeOK
  BY DEF TrackInv, AbandonInv
<1>1. AbandonInv'
  BY <1>0, InvokeKeepsHands
<1>2. /\ UNCHANGED <<file, runtime>> /\ hook'[h].pc \in {"barrier", "reprove", "find"}
      /\ hook'[h].event = event /\ \A g \in Hooks \ {h} : hook'[g] = hook[g]
  BY <1>0, Invoked
<1>3. AllTracked'
  BY <1>2 DEF TrackInv, AllTracked, file, runtime, Known
<1>4. Apart'
  <2>1. \A g \in Hooks : hook[g].event.tools \cap event.tools = {}
    BY DEF Overtakes
  <2> QED BY <1>2, <2>1 DEF TrackInv, Apart
<1>5. ASSUME NEW g \in Hooks PROVE (Opens(g) /\ Settles(g))'
  <2>1. CASE g = h
    BY <1>2, <2>1 DEF Opens, Settles, At
  <2>2. CASE g # h
    <3>1. hook'[g] = hook[g] /\ attempts' = attempts /\ status' = status /\ marker' = marker
      BY <1>2, <2>2 DEF file, runtime
    <3>2. Opens(g) /\ Settles(g)
      BY DEF TrackInv
    <3> QED BY <3>1, <3>2 DEF Opens, Settles, Owns, At, Batch, Decided, Matching, Known, Abandoning
  <2> QED BY <2>1, <2>2
<1> QED BY <1>1, <1>3, <1>4, <1>5 DEF TrackInv

\* The tools of another hook's event are not this one's.
LEMMA OtherTools ==
  ASSUME Apart, NEW h \in Hooks, NEW g \in Hooks, g # h,
         NEW s \in Matching(hook[g].event.tools)
  PROVE  s \notin Matching(hook[h].event.tools)
BY DEF Apart, Matching

\* What a hook starts or has yet to close is disturbed by no other hook.
LEMMA OthersOpen ==
  ASSUME TrackInv, NEW h \in Hooks, NEW g \in Hooks, g # h, ProcessStep(h)
  PROVE  Opens(g)'
<1>0. AbandonInv /\ AdapterTypeOK /\ Apart /\ hook'[g] = hook[g]
  BY HookMoves DEF TrackInv, AbandonInv, Moves
<1>1. ASSUME NEW s \in Matching(hook[g].event.tools), ~Abandoning(s)
      PROVE  /\ s \in DOMAIN attempts'
             /\ attempts'[s].tool = attempts[s].tool
             /\ attempts'[s].phase # "PendingAbandon"
  <2>1. s \in Known /\ s \notin Matching(hook[h].event.tools)
    BY <1>0, OtherTools DEF Matching
  <2>2. s \in DOMAIN attempts'
    <3>1. SUFFICES ASSUME At(h, "remove"), s = First(Batch(h)) PROVE FALSE
      BY <1>0, <2>1, AttemptStep
    <3>2. s \in Batch(h)
      BY <1>0, <3>1, FirstInHand DEF AbandonInv, InHand, At
    <3> QED BY <1>1, <2>1, <3>1, <3>2 DEF TrackInv, Settles, Owns, Decided
  <2>3. ~(At(h, "mark") /\ s \in Batch(h))
    BY <2>1 DEF TrackInv, Settles, Owns, At
  <2> QED BY <1>0, <1>1, <2>1, <2>2, <2>3, AttemptStep
<1>2. At(g, "allocate") =>
        \A s \in Matching(hook[g].event.tools)' : attempts'[s].phase # "PendingAbandon"
  <2> SUFFICES ASSUME At(g, "allocate"), NEW s \in DOMAIN attempts',
                      attempts'[s].tool \in hook[g].event.tools
               PROVE  attempts'[s].phase # "PendingAbandon"
    BY <1>0 DEF Matching, Known
  <2>1. CASE s \in Known
    <3>1. s \in Matching(hook[g].event.tools)
      BY <1>0, <2>1, AttemptStep DEF Matching
    <3>2. ~Abandoning(s)
      BY <3>1 DEF TrackInv, Opens
    <3> QED BY <1>1, <3>1, <3>2
  <2>2. CASE s \notin Known
    BY <1>0, <2>2, AttemptStep
  <2> QED BY <2>1, <2>2
<1>3. hook[g].pc \in {"start", "activate"} =>
        \A s \in Batch(g) : /\ s \in DOMAIN attempts' /\ attempts'[s].tool \in hook[g].event.tools
                            /\ attempts'[s].phase # "PendingAbandon"
  BY <1>1 DEF TrackInv, Opens, Matching
<1> QED BY <1>0, <1>2, <1>3 DEF Opens, At, Batch, Matching, Known, Abandoning

LEMMA OthersSettle ==
  ASSUME TrackInv, NEW h \in Hooks, NEW g \in Hooks, g # h, ProcessStep(h)
  PROVE  Settles(g)'
<1>0. AbandonInv /\ AdapterTypeOK /\ Apart /\ hook'[g] = hook[g]
  BY HookMoves DEF TrackInv, AbandonInv, Moves
<1>1. Batch(g) \in SUBSET (1..(nextSeq - 1)) /\ Batch(g) \subseteq Scopes
  BY <1>0, SeqBound DEF AdapterTypeOK, Scopes
<1>2. Owns(g) => Owns(g)'
  <2> SUFFICES ASSUME Owns(g), NEW s \in Batch(g), s \in DOMAIN attempts'
               PROVE  attempts'[s].tool \in hook[g].event.tools
    BY <1>0 DEF Owns, Matching, Known, Batch
  <2>1. s \in Known
    BY <1>0, <1>1, DecisionStays
  <2> QED BY <1>0, <2>1, AttemptStep DEF Owns, Matching
<1>3. Decided(Batch(g)) => Decided(Batch(g))'
  BY <1>0, <1>1, DecidedStays DEF Decided, StillDecided, Batch, Known, Abandoning
<1>4. ASSUME At(g, "remove")
      PROVE  status'[First(Batch(g))] # "Active" \/ marker'
  <2> DEFINE s == First(Batch(g))
  <2>1. s \in Batch(g) /\ s \in Scopes
    BY <1>0, <1>1, <1>4, FirstInHand DEF AbandonInv, InHand, At
  <2>2. SUFFICES ASSUME status'[s] = "Active", ~marker' PROVE FALSE
    OBVIOUS
  <2>3. At(h, "start") /\ s \in Batch(h)
    BY <1>0, <1>4, <2>1, <2>2, LiveStep DEF TrackInv, Settles
  <2>4. s \in Matching(hook[h].event.tools) /\ ~Abandoning(s)
    BY <2>3 DEF TrackInv, Opens, At
  <2>5. s \in Known /\ s \notin Matching(hook[g].event.tools)
    BY <1>0, <2>4, OtherTools DEF Matching
  <2> QED BY <1>4, <2>1, <2>4, <2>5 DEF TrackInv, Settles, Owns, Decided
<1> QED BY <1>0, <1>2, <1>3, <1>4 DEF TrackInv, Settles, At, Batch

LEMMA OwnOpens ==
  ASSUME TrackInv, NEW h \in Hooks, ProcessStep(h)
  PROVE  Opens(h)'
<1>0. AbandonInv /\ AdapterTypeOK /\ AbandonmentIsBarred
  BY DEF TrackInv, AbandonInv
<1>1. ASSUME hook'[h].pc = "allocate"
      PROVE  \A s \in DOMAIN attempts' : attempts'[s].phase # "PendingAbandon"
  <2>1. BarrierOpen(h) \/ (ClearRecovery(h) /\ ~pending')
    BY <1>0, <1>1, EntersBy
  <2> QED BY <1>0, <2>1 DEF BarrierOpen, ClearRecovery, Quiescent, AbandonmentIsBarred, Known,
                            Abandoning, file, AdapterTypeOK
<1>2. ASSUME hook'[h].pc \in {"start", "activate"}, NEW s \in hook'[h].batch
      PROVE  /\ s \in DOMAIN attempts' /\ attempts'[s].tool \in hook'[h].event.tools
             /\ attempts'[s].phase # "PendingAbandon"
  <2>1. CASE ReuseAttempt(h)
    <3>1. hook'[h].batch = Matching(hook[h].event.tools) /\ hook'[h].event = hook[h].event
      BY <1>0, <2>1 DEF ReuseAttempt, Reusable, Take, AdapterTypeOK, Process
    <3>2. attempts' = attempts /\ At(h, "allocate")
      BY <2>1 DEF ReuseAttempt, file
    <3> QED BY <1>2, <3>1, <3>2 DEF TrackInv, Opens, Matching, Known, Abandoning
  <2>2. CASE AllocateAttempt(h)
    <3>1. hook'[h].batch = {nextSeq} /\ hook'[h].event = hook[h].event
      BY <1>0, <2>2 DEF AllocateAttempt, NewSeq, Take, AdapterTypeOK, Process
    <3> QED BY <1>0, <1>2, <2>2, <3>1, Allocated
  <2>3. CASE Start(h) /\ Goto(h, "activate")
    <3>1. hook'[h].batch = Batch(h) /\ hook'[h].event = hook[h].event
      BY <1>0, <2>3 DEF Goto, AdapterTypeOK, Process, Batch
    <3>2. attempts' = attempts /\ At(h, "start")
      BY <2>3 DEF Start, file
    <3> QED BY <1>2, <3>1, <3>2 DEF TrackInv, Opens, Matching, Known, Abandoning, At
  <2> QED BY <1>0, <1>2, <2>1, <2>2, <2>3, EntersBy
<1> QED BY <1>1, <1>2 DEF Opens, At, Batch, Matching, Known, Abandoning

LEMMA OwnSettles ==
  ASSUME TrackInv, NEW h \in Hooks, ProcessStep(h)
  PROVE  Settles(h)'
<1>0. AbandonInv /\ AdapterTypeOK
  BY DEF TrackInv, AbandonInv
<1>1. CASE FoundToClose(h) \/ FoundToAbandon(h)
  <2>1. \E pc \in {"close", "mark"} : Take(h, pc, Matching(hook[h].event.tools))
    BY <1>1 DEF FoundToClose, FoundToAbandon
  <2>2. /\ hook'[h].batch = Matching(hook[h].event.tools) /\ hook'[h].event = hook[h].event
        /\ hook'[h].pc \in {"close", "mark"}
    BY <1>0, <2>1 DEF Take, AdapterTypeOK, Process
  <2>3. attempts' = attempts
    BY <1>1 DEF FoundToClose, FoundToAbandon, file
  <2> QED BY <2>2, <2>3 DEF Settles, Owns, At, Batch, Matching, Known
<1>2. CASE Close(h) /\ Goto(h, "mark")
  <2>1. /\ hook'[h].batch = Batch(h) /\ hook'[h].event = hook[h].event /\ hook'[h].pc = "mark"
    BY <1>0, <1>2 DEF Goto, AdapterTypeOK, Process, Batch
  <2>2. attempts' = attempts /\ Owns(h)
    BY <1>2 DEF Close, file, TrackInv, Settles, At
  <2> QED BY <2>1, <2>2 DEF Settles, Owns, At, Batch, Matching, Known
<1>3. ASSUME Goto(h, "remove"), attempts' = attempts, Owns(h) \/ Decided(Batch(h)),
             status'[First(Batch(h))] # "Active" \/ marker'
      PROVE  Settles(h)'
  <2>1. /\ hook'[h].batch = Batch(h) /\ hook'[h].event = hook[h].event /\ hook'[h].pc = "remove"
    BY <1>0, <1>3 DEF Goto, AdapterTypeOK, Process, Batch
  <2> QED BY <1>3, <2>1 DEF Settles, Owns, Decided, Abandoning, At, Batch, Matching, Known
<1>4. CASE Close(h) /\ CoordinateSucceeds(h) /\ Goto(h, "remove")
  <2>1. PICK s \in Scopes : Batch(h) = {s}
    BY <1>0, <1>4 DEF Close, AbandonInv, InHand
  <2>2. First(Batch(h)) = s
    BY <2>1, FirstOfOne
  <2>3. status'[s] # "Active"
    BY <1>0, <1>4, <2>1 DEF Close, CoordinateSucceeds, Coordinated, BoundaryStatus, Recovered, At,
                            AdapterTypeOK
  <2>4. attempts' = attempts /\ Owns(h)
    BY <1>4 DEF Close, file, TrackInv, Settles, At
  <2> QED BY <1>3, <1>4, <2>2, <2>3, <2>4
<1>5. CASE Abandon(h) /\ AbandonSucceeds(First(Batch(h))) /\ Goto(h, "remove")
  <2> DEFINE s == First(Batch(h))
  <2>1. Decided(Batch(h)) /\ Batch(h) # {} /\ attempts' = attempts
    BY <1>0, <1>5 DEF Abandon, AbandonInv, InHand, At, file
  <2>2. s \in Scopes
    BY <1>0, <2>1, FirstInHand DEF AdapterTypeOK, Process, Batch
  <2>3. status'[s] # "Active" \/ marker'
    BY <1>0, <1>5, <2>2 DEF AbandonSucceeds, ScopeAbandoned, runtime, AdapterTypeOK
  <2> QED BY <1>3, <1>5, <2>1, <2>3
<1>6. CASE hook'[h].pc \notin {"close", "mark", "remove"}
  BY <1>6 DEF Settles, At
<1> QED BY <1>0, <1>1, <1>2, <1>4, <1>5, <1>6, EntersBy

LEMMA LiveStaysTracked ==
  ASSUME TrackInv, NEW h \in Hooks, ProcessStep(h)
  PROVE  AllTracked'
<1>0. AbandonInv /\ AdapterTypeOK
  BY DEF TrackInv, AbandonInv
<1>1. SUFFICES ASSUME NEW s \in Scopes, status'[s] = "Active", ~marker'
               PROVE  s \in DOMAIN attempts'
  BY DEF AllTracked, Known
<1>2. CASE status[s] = "Active" /\ ~marker
  <2>1. s \in Known
    BY <1>2 DEF TrackInv, AllTracked
  <2>2. ~(At(h, "remove") /\ s = First(Batch(h)))
    BY <1>2 DEF TrackInv, Settles
  <2> QED BY <1>0, <2>1, <2>2, AttemptStep
<1>3. CASE At(h, "start") /\ s \in Batch(h)
  <2>1. s \in Known /\ ~At(h, "remove")
    BY <1>3 DEF TrackInv, Opens, Matching, At
  <2> QED BY <1>0, <2>1, AttemptStep
<1> QED BY <1>0, <1>1, <1>2, <1>3, LiveStep

LEMMA ProcessStepKeepsTracks ==
  ASSUME TrackInv, NEW h \in Hooks, ProcessStep(h)
  PROVE  TrackInv'
<1>0. AbandonInv /\ AdapterTypeOK
  BY DEF TrackInv, AbandonInv
<1>1. AbandonInv'
  BY <1>0, ProcessStepKeepsHands
<1>2. Apart'
  <2>1. \A g \in Hooks : hook'[g].event = hook[g].event \/ hook'[g].event.tools = {}
    BY <1>0, HookMoves DEF Moves, Waiting, NoEvent
  <2> QED BY <2>1 DEF TrackInv, Apart
<1>3. ASSUME NEW g \in Hooks PROVE (Opens(g) /\ Settles(g))'
  BY OwnOpens, OwnSettles, OthersOpen, OthersSettle
<1> QED BY <1>1, <1>2, <1>3, LiveStaysTracked DEF TrackInv

\* As long as no cleanup overtakes a hook of a tool it retires, no scope is left
\* live in the runtime that neither an attempt nor the next recovery will end.
THEOREM LiveScopeAlwaysTracked == AdapterSpec => []LiveScopeIsTracked
<1> DEFINE Inv == ~overtaken => TrackInv
<1>1. AdapterInit /\ AbandonInv => Inv
  <2> SUFFICES ASSUME AdapterInit, AbandonInv PROVE TrackInv
    OBVIOUS
  <2>1. \A h \in Hooks : hook[h].pc = "idle" /\ hook[h].event.tools = {}
    BY DEF AdapterInit, Waiting, NoEvent
  <2>2. \A s \in Scopes : status[s] = "NeverSeen"
    BY DEF AdapterInit
  <2> QED BY <2>1, <2>2 DEF TrackInv, AllTracked, Apart, Opens, Settles, At
<1>2. Inv /\ [AdapterNext]_adapterVars => Inv'
  <2> SUFFICES ASSUME Inv, [AdapterNext]_adapterVars, ~overtaken' PROVE TrackInv'
    OBVIOUS
  <2>1. CASE UNCHANGED adapterVars
    BY <2>1 DEF adapterVars, file, runtime, TrackInv, AbandonInv, AdapterTypeOK,
                AbandonmentIsBarred, InHand, Decided, Abandoning, Known, Batch, At,
                AllTracked, Apart, Opens, Settles, Owns, Matching
  <2>2. CASE AdapterNext
    <3>1. PICK h \in Hooks :
            \/ \E event \in Event :
                 Invoke(h, event) /\ overtaken' = (overtaken \/ Overtakes(event))
            \/ ProcessStep(h) /\ UNCHANGED overtaken
      BY <2>2 DEF AdapterNext, ProcessStep
    <3>2. CASE ProcessStep(h) /\ UNCHANGED overtaken
      BY <3>2, ProcessStepKeepsTracks
    <3>3. ASSUME NEW event \in Event, Invoke(h, event), overtaken' = (overtaken \/ Overtakes(event))
          PROVE  TrackInv'
      BY <3>3, InvokeKeepsTracks
    <3> QED BY <3>1, <3>2, <3>3
  <2> QED BY <2>1, <2>2
<1>3. Inv => LiveScopeIsTracked
  BY DEF TrackInv, LiveScopeIsTracked
<1> QED BY <1>1, <1>2, <1>3, AbandonInvariant, PTL DEF AdapterSpec
=============================================================================
