-------------------------- MODULE SyncSystemProofs --------------------------
(***************************************************************************)
(* Theorems about the processes of one user, for any number of processes,  *)
(* streams, rows and tokens, any batch size and any number of attempts:    *)
(* what the control plane holds is a copy of what was captured that grows  *)
(* in order, a success means that it is complete, and the stored token     *)
(* stays one that WorkOS will renew.                                       *)
(***************************************************************************)
EXTENDS SyncSystem, TLAPS, SequenceTheorems, FiniteSetTheorems

-----------------------------------------------------------------------------
(* The inductive invariant.  What a stream knows of the rows: its cursor   *)
(* is where the copy once ended, and the batch in its hand, or in the      *)
(* hands of the network, is what came next then.                           *)

Sorted(ids) == \A i, j \in DOMAIN ids : i < j => ids[i] < ids[j]

CopyHeld(s) ==
  /\ Sorted(rows[s])
  /\ Len(copy[s]) <= Len(rows[s])
  /\ \A i \in 1..Len(copy[s]) : copy[s][i] = rows[s][i]

\* The cursor is the one of the first n rows, and the control plane has been there.
Reached(s, cursor, n) ==
  /\ n = 0 => cursor = 0
  /\ n # 0 => cursor = copy[s][n]

\* The batch holds the rows that come after the first n.
Follows(s, n, batch) ==
  /\ batch # <<>> /\ n + Len(batch) <= Len(rows[s])
  /\ \A i \in 1..Len(batch) : batch[i] = rows[s][n + i]

Fits(s, cursor, batch) ==
  \E n \in 0..Len(copy[s]) : Reached(s, cursor, n) /\ Follows(s, n, batch)

WorkHeld(p, s) ==
  /\ \E n \in 0..Len(copy[s]) : Reached(s, work[p][s].cursor, n)
  /\ work[p][s].at = "post" => Fits(s, work[p][s].cursor, work[p][s].batch)

LateHeld == \A m \in late : Fits(m.stream, m.expected, m.batch)

(* What a run knows of its streams: one that is done while none has failed *)
(* has brought over what was there before the run began.                   *)

RunHeld(p) ==
  /\ run[p] \in {"off", "state"} => \A s \in Streams : work[p][s] = Idle
  /\ run[p] = "state" => work[p][Main].at \in {"state", "failed"}
  /\ run[p] = "streams" => work[p][Main].at = "idle"
  /\ run[p] = "streams" => \A s \in Streams : work[p][s].at # "idle"
  /\ run[p] # "streams" => ~terminated[p]
  /\ terminated[p] => Failed(p)

DoneHeld(p, s) ==
  /\ base[p][s] <= Len(rows[s])
  /\ run[p] = "streams" /\ work[p][s].at = "done" /\ ~terminated[p]
       => base[p][s] <= Len(copy[s])
  /\ run[p] = "ok" => base[p][s] <= Len(copy[s])

DataTypeOK ==
  /\ rows \in [Streams -> Seq(Rows)] /\ copy \in [Streams -> Seq(Rows)]
  /\ late \subseteq [stream : Streams, expected : 0..MaxRow, batch : Seq(Rows)]
  /\ run \in [Processes -> RunSteps]
  /\ work \in [Processes -> [Callers ->
                 [at : WorkSteps, cursor : 0..MaxRow, batch : Seq(Rows),
                  attempts : 0..MaxAttempts]]]
  /\ terminated \in [Processes -> BOOLEAN]
  /\ base \in [Processes -> [Streams -> 0..MaxRow]]

DataInv ==
  /\ DataTypeOK
  /\ \A s \in Streams : CopyHeld(s)
  /\ \A p \in Processes, s \in Streams : WorkHeld(p, s)
  /\ LateHeld
  /\ \A p \in Processes : RunHeld(p)
  /\ \A p \in Processes, s \in Streams : DoneHeld(p, s)

(* What holds of the tokens while only runs of sync use them: there is one *)
(* that WorkOS renews, the process that has a new one in its hand is the   *)
(* only one, and whoever would renew that one has it from the database.    *)

NewestHeld == Newest \in 0..MaxToken /\ \A t \in live : t <= Newest

TaskHeld(p) ==
  /\ task[p].token <= Newest
  /\ task[p].at = "renew" /\ task[p].token \in live => stored = task[p].token
  /\ task[p].at = "save" =>
       /\ task[p].token \in live /\ stored \notin live
       /\ \A q \in Processes : task[q].at = "save" => q = p

TokenHeld ==
  ~layout.login =>
    /\ login.at = "off"
    /\ live = {Newest} /\ stored <= Newest
    /\ \A p \in Processes : TaskHeld(p)

TokenTypeOK == CredentialsTypeOK /\ LoginTypeOK /\ layout \in Layouts

TokenInv == TokenTypeOK /\ NewestHeld /\ TokenHeld /\ StoredTokenIsLive

-----------------------------------------------------------------------------
(* The tokens.                                                             *)

Calls == [at : AuthSteps, token : 0..MaxToken]

LEMMA MaxIs ==
  ASSUME NEW S \in SUBSET Nat, NEW k \in S, \A t \in S : t <= k
  PROVE  Max(S) = k
<1>1. k \in Nat /\ \A y \in S : k >= y
  OBVIOUS
<1>2. Max(S) \in S /\ \A y \in S : Max(S) >= y
  BY <1>1, Zenon DEF Max
<1>3. Max(S) \in Nat /\ Max(S) >= k /\ k >= Max(S)
  BY <1>1, <1>2
<1> QED
  BY <1>1, <1>3

\* The next token of WorkOS is newer than all it ever accepted.
LEMMA IssueKeeps ==
  ASSUME CredentialsTypeOK, NewestHeld, Newest < MaxToken,
         NEW kept \in SUBSET live, live' = kept \cup {Newest + 1}
  PROVE  /\ Newest' = Newest + 1 /\ NewestHeld' /\ live' \subseteq Tokens
         /\ Newest + 1 \in 0..MaxToken
<1>1. Newest \in Nat /\ Newest + 1 \in Tokens /\ Newest + 1 \in Nat
  BY TokensBound DEF NewestHeld, Tokens
<1>2. live' \subseteq Tokens
  BY <1>1 DEF CredentialsTypeOK
<1>3. \A t \in live' \cup {0} : t <= Newest + 1
  BY <1>1 DEF NewestHeld, CredentialsTypeOK, Tokens
<1>4. live' \cup {0} \in SUBSET Nat
  BY <1>2 DEF Tokens
<1>5. Newest' = Newest + 1
  BY <1>1, <1>3, <1>4, MaxIs DEF Newest
<1> QED
  BY <1>1, <1>2, <1>3, <1>5 DEF NewestHeld, Tokens

\* The calls of a process change, and nothing a token depends on.
LEMMA CallsMove ==
  ASSUME TokenInv, UNCHANGED <<stored, live, task, excused, login, layout>>,
         auth' \in [Processes -> [Callers -> Calls]], expired' \in 0..MaxToken
  PROVE  TokenInv'
<1>1. TokenTypeOK'
  BY DEF TokenInv, TokenTypeOK, CredentialsTypeOK, LoginTypeOK, Calls, Tokens
<1>2. NewestHeld'
  BY DEF TokenInv, NewestHeld, Newest
<1>3. TokenHeld'
  BY DEF TokenInv, TokenHeld, TaskHeld, Newest
<1>4. StoredTokenIsLive'
  BY DEF TokenInv, StoredTokenIsLive, Usable, InHands, LoginAt
<1> QED
  BY <1>1, <1>2, <1>3, <1>4 DEF TokenInv

LEMMA OneCallMoves ==
  ASSUME TokenInv, NEW p \in Processes, NEW c \in Callers, NEW call \in Calls,
         auth' = [auth EXCEPT ![p][c] = call]
  PROVE  auth' \in [Processes -> [Callers -> Calls]]
<1>1. auth \in [Processes -> [Callers -> Calls]]
  BY DEF TokenInv, TokenTypeOK, CredentialsTypeOK, Calls
<1> QED
  BY <1>1

LEMMA HangupIsTyped ==
  ASSUME TokenInv, NEW p \in Processes, NEW c \in Callers, Hangup(p, c)
  PROVE  auth' \in [Processes -> [Callers -> Calls]]
<1>1. NoCall \in Calls
  BY TokensBound DEF NoCall, Calls, AuthSteps, NoToken
<1> QED
  BY <1>1, OneCallMoves DEF Hangup

LEMMA SetCallIsTyped ==
  ASSUME TokenInv, NEW p \in Processes, NEW c \in Callers, NEW step \in AuthSteps,
         NEW t \in 0..MaxToken, SetCall(p, c, step, t)
  PROVE  auth' \in [Processes -> [Callers -> Calls]]
<1>1. [at |-> step, token |-> t] \in Calls
  BY DEF Calls
<1> QED
  BY <1>1, OneCallMoves DEF SetCall

\* The calls of one process change together.
LEMMA CallsAreTyped ==
  ASSUME TokenInv, NEW p \in Processes, NEW calls \in [Callers -> Calls],
         auth' = [auth EXCEPT ![p] = calls]
  PROVE  auth' \in [Processes -> [Callers -> Calls]]
<1>1. auth \in [Processes -> [Callers -> Calls]]
  BY DEF TokenInv, TokenTypeOK, CredentialsTypeOK, Calls
<1> QED
  BY <1>1

LEMMA AnswerIsTyped ==
  ASSUME TokenInv, NEW p \in Processes, NEW step \in AuthSteps
  PROVE  Answer(auth[p], step, NoToken) \in [Callers -> Calls]
<1>1. auth[p] \in [Callers -> Calls] /\ NoToken \in 0..MaxToken
  BY TokensBound DEF TokenInv, TokenTypeOK, CredentialsTypeOK, Calls, NoToken
<1> QED
  BY <1>1 DEF Answer, Calls

LEMMA AnswerTokenIsTyped ==
  ASSUME TokenInv, NEW p \in Processes, NEW t \in 0..MaxToken
  PROVE  AnswerToken(auth[p], t) \in [Callers -> Calls]
<1>1. auth[p] \in [Callers -> Calls]
  BY DEF TokenInv, TokenTypeOK, CredentialsTypeOK, Calls
<1>2. "send" \in AuthSteps /\ "sendAgain" \in AuthSteps
  BY DEF AuthSteps
<1> QED
  BY <1>1, <1>2 DEF AnswerToken, Calls

\* What the processes of one user do to their tokens when only runs of sync take part.
LEMMA InHandsAre ==
  ASSUME TokenInv, ~layout.login
  PROVE  /\ login.at = "off" /\ live = {Newest}
         /\ \A p \in Processes : TaskHeld(p)
         /\ \A t : t \in InHands <=> \E p \in Processes : task[p].at = "save" /\ task[p].token = t
<1>1. login.at = "off" /\ live = {Newest} /\ \A p \in Processes : TaskHeld(p)
  BY DEF TokenInv, TokenHeld
<1>2. ~LoginAt("save")
  BY <1>1 DEF LoginAt
<1> QED
  BY <1>1, <1>2, Zenon DEF InHands

\* The task of one process changes, the stored token and those of WorkOS stay.
LEMMA TaskMoves ==
  ASSUME TokenInv, NEW p \in Processes, UNCHANGED <<stored, live, expired, login, layout>>,
         NEW t \in [at : {"none", "renew", "save"}, token : 0..MaxToken],
         task' = [task EXCEPT ![p] = t], excused' \in BOOLEAN,
         auth' \in [Processes -> [Callers -> Calls]],
         t.at # "save", t.token <= Newest,
         t.at = "renew" /\ t.token \in live => stored = t.token,
         excused => excused',
         task[p].at # "save" \/ excused'
  PROVE  TokenInv'
<1>0. task \in [Processes -> [at : {"none", "renew", "save"}, token : 0..MaxToken]]
  BY DEF TokenInv, TokenTypeOK, CredentialsTypeOK
<1>1. TokenTypeOK'
  BY <1>0 DEF TokenInv, TokenTypeOK, CredentialsTypeOK, LoginTypeOK, Calls, Tokens
<1>2. NewestHeld' /\ Newest' = Newest
  BY DEF TokenInv, NewestHeld, Newest
<1>3. TokenHeld'
  <2> SUFFICES ASSUME ~layout.login, NEW q \in Processes PROVE TaskHeld(q)'
    BY <1>2 DEF TokenInv, TokenHeld
  <2>1. TaskHeld(q) /\ \A r \in Processes : task'[r].at = "save" => task[r].at = "save" /\ task'[r] = task[r]
    BY <1>0 DEF TokenInv, TokenHeld
  <2>2. CASE q = p
    <3>1. task'[q] = t
      BY <2>2, <1>0
    <3> QED
      BY <3>1, <1>2 DEF TaskHeld
  <2>3. CASE q # p
    <3>1. task'[q] = task[q]
      BY <2>3, <1>0
    <3> QED
      BY <3>1, <2>1, <1>2 DEF TaskHeld
  <2> QED
    BY <2>2, <2>3
<1>4. StoredTokenIsLive'
  <2> SUFFICES ASSUME ~layout.login, ~excused' PROVE Usable'
    BY DEF StoredTokenIsLive
  <2>1. Usable
    BY DEF TokenInv, StoredTokenIsLive
  <2>2. \A q \in Processes : task[q].at = "save" => q # p /\ task'[q] = task[q]
    BY <1>0
  <2>3. InHands \subseteq InHands'
    <3>1. login' = login
      OBVIOUS
    <3> QED
      BY <3>1, <2>2, InHandsAre DEF InHands, LoginAt
  <2> QED
    BY <2>1, <2>3 DEF Usable
<1> QED
  BY <1>1, <1>2, <1>3, <1>4 DEF TokenInv

\* With a login among the processes nothing is promised of the tokens but their types.
LEMMA LoginMoves ==
  ASSUME TokenTypeOK', NewestHeld', layout.login, layout' = layout
  PROVE  TokenInv'
BY DEF TokenInv, TokenHeld, StoredTokenIsLive

Tasks == [at : {"none", "renew", "save"}, token : 0..MaxToken]

\* WorkOS renews the token of the task of a process, which has the new one in its hand, or lost it.
LEMMA RotateMoves ==
  ASSUME TokenInv, NEW p \in Processes, UNCHANGED <<stored, expired, login, layout>>,
         task[p].at = "renew", task[p].token \in live, Newest < MaxToken, Rotate(task[p].token),
         auth' \in [Processes -> [Callers -> Calls]], excused' \in BOOLEAN,
         NEW t \in Tasks, task' = [task EXCEPT ![p] = t],
         \/ t = NoTask /\ excused'
         \/ t = [at |-> "save", token |-> Newest + 1]
  PROVE  TokenInv'
<1>0. task \in [Processes -> Tasks]
  BY DEF TokenInv, TokenTypeOK, CredentialsTypeOK, Tasks
<1>1. /\ Newest' = Newest + 1 /\ NewestHeld' /\ live' \subseteq Tokens
      /\ Newest \in Nat
  <2>1. live \ {task[p].token} \in SUBSET live
    OBVIOUS
  <2>2. live' = (live \ {task[p].token}) \cup {Newest + 1}
    BY DEF Rotate
  <2>3. CredentialsTypeOK /\ NewestHeld
    BY DEF TokenInv, TokenTypeOK
  <2>4. Newest \in Nat
    BY <2>3, TokensBound DEF NewestHeld
  <2> HIDE DEF TokenInv
  <2> QED
    BY <2>1, <2>2, <2>3, <2>4, IssueKeeps
<1>2. TokenTypeOK'
  BY <1>0, <1>1 DEF TokenInv, TokenTypeOK, CredentialsTypeOK, LoginTypeOK, Calls, Tasks
<1>3. CASE layout.login
  BY <1>1, <1>2, <1>3, LoginMoves
<1>4. CASE ~layout.login
  <2>1. live = {Newest} /\ stored = Newest /\ task[p].token = Newest /\ login.at = "off"
    BY <1>4, InHandsAre DEF TaskHeld
  <2>2. live' = {Newest'} /\ stored' = Newest /\ Newest' \notin {Newest}
    BY <1>1, <2>1 DEF Rotate
  <2>3. \A q \in Processes : task[q].at # "save" /\ task[q].token \in Nat /\ task[q].token <= Newest
    <3> SUFFICES ASSUME NEW q \in Processes
                 PROVE  task[q].at # "save" /\ task[q].token \in Nat /\ task[q].token <= Newest
      OBVIOUS
    <3>1. TaskHeld(q)
      BY <1>4, InHandsAre
    <3> QED
      BY <1>0, <2>1, <3>1 DEF TaskHeld, Tasks
  <2>4. ASSUME NEW q \in Processes PROVE TaskHeld(q)'
    <3>1. CASE q = p
      <4>1. task'[q] = t
        BY <3>1, <1>0
      <4>2. \A r \in Processes : task'[r].at = "save" => r = q
        BY <3>1, <1>0, <2>3
      <4> QED
        BY <4>1, <4>2, <1>1, <2>2 DEF TaskHeld, NoTask, NoToken
    <3>2. CASE q # p
      <4>1. task'[q] = task[q]
        BY <3>2, <1>0
      <4> QED
        BY <4>1, <1>1, <2>2, <2>3 DEF TaskHeld
    <3> QED
      BY <3>1, <3>2
  <2>5. TokenHeld'
    <3>1. login'.at = "off" /\ stored' <= Newest'
      BY <2>1, <2>2, <1>1
    <3> QED
      BY <2>2, <2>4, <3>1 DEF TokenHeld
  <2>6. StoredTokenIsLive'
    <3>1. CASE excused'
      BY <3>1 DEF StoredTokenIsLive
    <3>2. CASE t = [at |-> "save", token |-> Newest + 1]
      <4>1. task'[p].at = "save" /\ task'[p].token = Newest'
        BY <3>2, <1>0, <1>1
      <4>2. Newest' \in InHands'
        BY <4>1 DEF InHands
      <4> QED
        BY <4>2, <2>2 DEF StoredTokenIsLive, Usable
    <3> QED
      BY <3>1, <3>2
  <2> QED
    BY <1>1, <1>2, <2>5, <2>6 DEF TokenInv
<1> QED
  BY <1>3, <1>4

\* The new token of a task is stored.
LEMMA SaveMoves ==
  ASSUME TokenInv, NEW p \in Processes, UNCHANGED <<live, expired, excused, login, layout>>,
         task[p].at = "save", stored' = task[p].token,
         task' = [task EXCEPT ![p] = NoTask],
         auth' \in [Processes -> [Callers -> Calls]]
  PROVE  TokenInv'
<1>0. task \in [Processes -> Tasks]
  BY DEF TokenInv, TokenTypeOK, CredentialsTypeOK, Tasks
<1>1. NoTask \in Tasks
  BY TokensBound DEF NoTask, Tasks, NoToken
<1>2. NewestHeld' /\ Newest' = Newest /\ Newest \in Nat
  <2>1. Newest' = Newest
    BY DEF Newest
  <2> QED
    BY <2>1, TokensBound DEF TokenInv, NewestHeld
<1>3. TokenTypeOK'
  BY <1>0, <1>1 DEF TokenInv, TokenTypeOK, CredentialsTypeOK, LoginTypeOK, Calls, Tasks
<1>4. CASE layout.login
  BY <1>2, <1>3, <1>4, LoginMoves
<1>5. CASE ~layout.login
  <2>1. live = {Newest} /\ task[p].token = Newest /\ stored # Newest /\ login.at = "off"
    BY <1>5, InHandsAre DEF TaskHeld
  <2>2. \A q \in Processes \ {p} :
          /\ task[q].at # "save" /\ task[q].token <= Newest
          /\ task[q].at = "renew" => task[q].token # Newest
    <3> SUFFICES ASSUME NEW q \in Processes \ {p}
                 PROVE  /\ task[q].at # "save" /\ task[q].token <= Newest
                        /\ task[q].at = "renew" => task[q].token # Newest
      OBVIOUS
    <3>1. TaskHeld(q) /\ TaskHeld(p)
      BY <1>5, InHandsAre
    <3> QED
      BY <2>1, <3>1 DEF TaskHeld
  <2>3. ASSUME NEW q \in Processes PROVE TaskHeld(q)'
    <3>1. CASE q = p
      <4>1. task'[q] = NoTask
        BY <3>1, <1>0
      <4> QED
        BY <4>1, <1>2 DEF TaskHeld, NoTask, NoToken
    <3>2. CASE q # p
      <4>1. task'[q] = task[q]
        BY <3>2, <1>0
      <4> QED
        BY <4>1, <3>2, <1>2, <2>1, <2>2 DEF TaskHeld
    <3> QED
      BY <3>1, <3>2
  <2>4. TokenHeld'
    BY <2>1, <2>3, <1>2 DEF TokenHeld
  <2>5. StoredTokenIsLive'
    BY <2>1 DEF StoredTokenIsLive, Usable
  <2> QED
    BY <1>2, <1>3, <2>4, <2>5 DEF TokenInv
<1> QED
  BY <1>4, <1>5

LEMMA ClientStepKeepsTokens ==
  ASSUME TokenInv, NEW p \in Processes, NEW c \in Callers, ClientStep(p, c),
         UNCHANGED <<login, layout>>
  PROVE  TokenInv'
<1>1. /\ stored \in 0..MaxToken /\ task \in [Processes -> Tasks] /\ NoToken \in 0..MaxToken
      /\ excused \in BOOLEAN /\ expired \in 0..MaxToken
      /\ auth \in [Processes -> [Callers -> Calls]]
  BY TokensBound DEF TokenInv, TokenTypeOK, CredentialsTypeOK, Tasks, NoToken, Calls
<1>2. auth[p][c].token \in 0..MaxToken
  BY <1>1 DEF Calls
<1>3. Newest \in Nat /\ (~layout.login => stored <= Newest)
  BY TokensBound DEF TokenInv, NewestHeld, TokenHeld
<1>4. \A step \in AuthSteps : Reuse(p, c, step) => auth' \in [Processes -> [Callers -> Calls]]
  BY <1>1, SetCallIsTyped DEF Reuse
<1>5. NoCredentials(p, c) => auth' \in [Processes -> [Callers -> Calls]]
  BY <1>1, SetCallIsTyped DEF NoCredentials, AuthSteps
<1>6. ASSUME NEW step \in AuthSteps, SpawnRefresh(p, c, step), GuardFree(p),
             UNCHANGED <<stored, live, expired, excused>>
      PROVE  TokenInv'
  <2>1. auth' \in [Processes -> [Callers -> Calls]]
    BY <1>1, <1>6, SetCallIsTyped DEF SpawnRefresh
  <2>2. [at |-> "renew", token |-> stored] \in Tasks
    BY <1>1 DEF Tasks
  <2>3. CASE layout.login
    <3>1. TokenTypeOK'
      BY <1>1, <1>6, <2>1, <2>2
      DEF SpawnRefresh, TokenInv, TokenTypeOK, CredentialsTypeOK, LoginTypeOK, Calls, Tasks, Tokens
    <3>2. NewestHeld'
      BY <1>6 DEF TokenInv, NewestHeld, Newest
    <3> QED
      BY <2>3, <3>1, <3>2, LoginMoves
  <2>4. CASE ~layout.login
    <3>1. task[p].at # "save" /\ task' = [task EXCEPT ![p] = [at |-> "renew", token |-> stored]]
      BY <1>6 DEF GuardFree, SpawnRefresh
    <3> QED
      BY <1>1, <1>3, <1>6, <2>1, <2>2, <2>4, <3>1, TaskMoves DEF Tasks
  <2> QED
    BY <2>3, <2>4
<1>7. CASE ResolveAccessToken(p, c)
  <2>1. UNCHANGED <<stored, live, task, excused, expired>>
    BY <1>7 DEF ResolveAccessToken, NoCredentials, Reuse
  <2>2. auth' \in [Processes -> [Callers -> Calls]]
    BY <1>1, <1>4, <1>5, <1>7, SetCallIsTyped DEF ResolveAccessToken, AuthSteps
  <2> QED
    BY <1>1, <2>1, <2>2, CallsMove
<1>8. CASE ResolveUnderGuard(p, c)
  <2>1. CASE SpawnRefresh(p, c, "wait")
    BY <1>6, <1>8, <2>1 DEF ResolveUnderGuard, AuthSteps
  <2>2. CASE NoCredentials(p, c) \/ Reuse(p, c, "send")
    <3>1. UNCHANGED <<stored, live, task, excused, expired>>
      BY <1>8, <2>2 DEF ResolveUnderGuard, NoCredentials, Reuse
    <3>2. auth' \in [Processes -> [Callers -> Calls]]
      BY <1>4, <1>5, <2>2 DEF AuthSteps
    <3> QED
      BY <1>1, <3>1, <3>2, CallsMove
  <2> QED
    BY <1>8, <2>1, <2>2 DEF ResolveUnderGuard
<1>9. CASE Unauthorized(p, c)
  <2>1. UNCHANGED <<stored, live, task, excused, expired>>
    BY <1>9 DEF Unauthorized
  <2>2. auth' \in [Processes -> [Callers -> Calls]]
    BY <1>1, <1>2, <1>9, SetCallIsTyped DEF Unauthorized, AuthSteps
  <2> QED
    BY <1>1, <2>1, <2>2, CallsMove
<1>10. CASE ForceRefreshAccessToken(p, c)
  <2>1. CASE SpawnRefresh(p, c, "waitAgain")
    BY <1>6, <1>10, <2>1 DEF ForceRefreshAccessToken, AuthSteps
  <2>2. CASE NoCredentials(p, c) \/ Reuse(p, c, "sendAgain")
    <3>1. UNCHANGED <<stored, live, task, excused, expired>>
      BY <1>10, <2>2 DEF ForceRefreshAccessToken, NoCredentials, Reuse
    <3>2. auth' \in [Processes -> [Callers -> Calls]]
      BY <1>4, <1>5, <2>2 DEF AuthSteps
    <3> QED
      BY <1>1, <3>1, <3>2, CallsMove
  <2> QED
    BY <1>10, <2>1, <2>2 DEF ForceRefreshAccessToken
<1> QED
  BY <1>7, <1>8, <1>9, <1>10 DEF ClientStep

LEMMA RefreshTaskKeepsTokens ==
  ASSUME TokenInv, NEW p \in Processes, RefreshTask(p), UNCHANGED <<login, layout>>
  PROVE  TokenInv'
<1>1. /\ NoTask \in Tasks /\ NoTask.at = "none" /\ NoTask.token = 0 /\ excused \in BOOLEAN
      /\ task \in [Processes -> Tasks] /\ Newest \in Nat
  <2>1. Newest \in Nat
    BY TokensBound DEF TokenInv, NewestHeld
  <2> QED
    BY <2>1, TokensBound DEF NoTask, NoToken, Tasks, TokenInv, TokenTypeOK, CredentialsTypeOK
<1>2. \A step \in {"refused", "unsure"} :
        EndTask(p, Answer(auth[p], step, NoToken)) =>
          /\ auth' \in [Processes -> [Callers -> Calls]]
          /\ task' = [task EXCEPT ![p] = NoTask]
  BY AnswerIsTyped, CallsAreTyped DEF EndTask, AuthSteps
<1>3. CASE RefreshRotates(p)
  <2>1. UNCHANGED <<stored, expired, login, layout>> /\ task[p].at = "renew"
        /\ task[p].token \in live /\ Newest < MaxToken /\ Rotate(task[p].token)
    BY <1>3 DEF RefreshRotates
  <2>2. CASE \E step \in {"refused", "unsure"} :
               EndTask(p, Answer(auth[p], step, NoToken)) /\ excused' = TRUE
    BY <1>1, <1>2, <2>1, <2>2, RotateMoves
  <2>3. CASE /\ task' = [task EXCEPT ![p] = [at |-> "save", token |-> Newest + 1]]
             /\ UNCHANGED <<auth, excused>>
    <3>1. [at |-> "save", token |-> Newest + 1] \in Tasks
      BY <1>1, <2>1, TokensBound DEF Tasks
    <3>2. auth' \in [Processes -> [Callers -> Calls]]
      BY <2>3 DEF TokenInv, TokenTypeOK, CredentialsTypeOK, Calls
    <3> QED
      BY <1>1, <2>1, <2>3, <3>1, <3>2, RotateMoves
  <2> QED
    BY <1>3, <2>2, <2>3 DEF RefreshRotates
<1>4. CASE RefreshFails(p)
  <2>1. task[p].at = "renew" /\ UNCHANGED <<stored, live, expired, excused>>
        /\ EndTask(p, Answer(auth[p], "refused", NoToken))
    BY <1>4 DEF RefreshFails
  <2> QED
    BY <1>1, <1>2, <2>1, TaskMoves DEF Tasks
<1>5. CASE SaveRefreshed(p)
  <2>1. task[p].at = "save" /\ UNCHANGED <<live, expired>>
    BY <1>5 DEF SaveRefreshed
  <2>2. CASE /\ stored' = task[p].token
             /\ EndTask(p, AnswerToken(auth[p], task[p].token))
             /\ UNCHANGED excused
    <3>1. task[p].token \in 0..MaxToken
      BY <1>1 DEF Tasks
    <3>2. auth' \in [Processes -> [Callers -> Calls]] /\ task' = [task EXCEPT ![p] = NoTask]
      BY <2>2, <3>1, AnswerTokenIsTyped, CallsAreTyped DEF EndTask
    <3> QED
      BY <2>1, <2>2, <3>2, SaveMoves
  <2>3. CASE /\ EndTask(p, Answer(auth[p], "refused", NoToken))
             /\ excused' = TRUE
             /\ UNCHANGED stored
    BY <1>1, <1>2, <2>1, <2>3, TaskMoves DEF Tasks
  <2> QED
    BY <1>5, <2>2, <2>3 DEF SaveRefreshed
<1> QED
  BY <1>3, <1>4, <1>5 DEF RefreshTask

LEMMA DropIsTyped ==
  ASSUME TokenInv, NEW p \in Processes, DropTask(p)
  PROVE  /\ auth' \in [Processes -> [Callers -> Calls]]
         /\ task' \in [Processes -> Tasks] /\ task' = [task EXCEPT ![p] = NoTask]
         /\ NoTask \in Tasks /\ NoTask.at = "none" /\ NoTask.token = 0
<1>1. NoCall \in Calls /\ NoTask \in Tasks
  BY TokensBound DEF NoCall, NoTask, NoToken, Calls, Tasks, AuthSteps
<1>2. [c \in Callers |-> NoCall] \in [Callers -> Calls]
  BY <1>1
<1>3. auth' \in [Processes -> [Callers -> Calls]]
  BY <1>2, CallsAreTyped DEF DropTask
<1>4. task \in [Processes -> Tasks]
  BY DEF TokenInv, TokenTypeOK, CredentialsTypeOK, Tasks
<1> QED
  BY <1>1, <1>3, <1>4 DEF DropTask, NoTask, NoToken

LEMMA RotateIsTyped ==
  ASSUME TokenInv, NEW old, Newest < MaxToken, Rotate(old)
  PROVE  NewestHeld' /\ live' \subseteq Tokens /\ Newest + 1 \in 0..MaxToken
<1>1. CredentialsTypeOK /\ NewestHeld
  BY DEF TokenInv, TokenTypeOK
<1>2. live \ {old} \in SUBSET live /\ live' = (live \ {old}) \cup {Newest + 1}
  BY DEF Rotate
<1> HIDE DEF TokenInv
<1> QED
  BY <1>1, <1>2, IssueKeeps

LEMMA UnreadMoves ==
  ASSUME TokenInv, NEW p \in Processes, DropTask(p), AnswerUnread(p),
         UNCHANGED <<stored, expired, login, layout>>
  PROVE  TokenInv'
<1>1. /\ task[p].at = "renew" /\ task[p].token \in live /\ Newest < MaxToken
      /\ Rotate(task[p].token) /\ excused' = TRUE
  BY DEF AnswerUnread
<1> QED
  BY <1>1, DropIsTyped, RotateMoves

LEMMA DropMoves ==
  ASSUME TokenInv, NEW p \in Processes, DropTask(p),
         UNCHANGED <<stored, live, expired, login, layout>>,
         excused' = (excused \/ task[p].at = "save")
  PROVE  TokenInv'
<1>1. Newest \in Nat /\ excused \in BOOLEAN
  BY TokensBound DEF TokenInv, TokenTypeOK, CredentialsTypeOK, NewestHeld
<1>2. NoTask \in Tasks /\ NoTask.at = "none" /\ NoTask.token <= Newest
  BY <1>1, DropIsTyped
<1>3. excused' \in BOOLEAN /\ (excused => excused') /\ (task[p].at # "save" \/ excused')
  BY <1>1
<1> QED
  BY <1>2, <1>3, DropIsTyped, TaskMoves DEF Tasks

LEMMA ShutKeepsTokens ==
  ASSUME TokenInv, NEW p \in Processes, ShutRuntimeDown(p), GuardFree(p),
         UNCHANGED <<stored, expired, login, layout>>
  PROVE  TokenInv'
<1>1. CASE UNCHANGED <<live, excused>>
  <2>1. excused' = (excused \/ task[p].at = "save")
    BY <1>1 DEF GuardFree, TokenInv, TokenTypeOK, CredentialsTypeOK
  <2> QED
    BY <1>1, <2>1, DropMoves DEF ShutRuntimeDown
<1> QED
  BY <1>1, UnreadMoves DEF ShutRuntimeDown

LEMMA CrashKeepsTokens ==
  ASSUME TokenInv, NEW p \in Processes, CrashRuntime(p),
         UNCHANGED <<stored, expired, login, layout>>
  PROVE  TokenInv'
BY DropMoves, UnreadMoves DEF CrashRuntime

\* A run of login, or a logout.
LEMMA LoginKeepsTokens ==
  ASSUME TokenInv, layout.login, LoginNext, layout' = layout
  PROVE  TokenInv'
<1> DEFINE Hands == [at : LoginSteps, token : 0..MaxToken]
<1>1. /\ stored \in 0..MaxToken /\ live \subseteq Tokens /\ expired \in 0..MaxToken
      /\ auth \in [Processes -> [Callers -> Calls]] /\ task \in [Processes -> Tasks]
      /\ excused \in BOOLEAN /\ login \in Hands /\ layout \in Layouts /\ NewestHeld
  BY DEF TokenInv, TokenTypeOK, CredentialsTypeOK, LoginTypeOK, Calls, Tasks
<1>2. LoginProcess \in Processes /\ Main \in Callers /\ NoToken \in 0..MaxToken
      /\ login.token \in 0..MaxToken
  BY <1>1, LoginIsAProcess, MainIsACaller, TokensBound DEF NoToken
<1>3. \A step \in LoginSteps, t \in 0..MaxToken : GoTo(step, t) => login' \in Hands
  BY DEF GoTo
<1>4. LoginOver => login' \in Hands
  BY <1>2, <1>3 DEF LoginOver, LoginSteps
<1>5. ASSUME stored' \in 0..MaxToken, live' \subseteq Tokens, expired' = expired,
             auth' \in [Processes -> [Callers -> Calls]], task' \in [Processes -> Tasks],
             excused' \in BOOLEAN, login' \in Hands, NewestHeld'
      PROVE  TokenInv'
  <2>1. TokenTypeOK'
    BY <1>1, <1>5 DEF TokenTypeOK, CredentialsTypeOK, LoginTypeOK, Calls, Tasks
  <2> QED
    BY <1>5, <2>1, LoginMoves
<1>6. live' = live => NewestHeld'
  BY <1>1 DEF NewestHeld, Newest
<1> HIDE DEF Hands
<1>7. CASE RunLogin
  <2>1. UNCHANGED credentials /\ login' \in Hands
    BY <1>2, <1>3, <1>7 DEF RunLogin, LoginSteps
  <2> QED
    BY <1>1, <1>5, <1>6, <2>1 DEF credentials
<1>8. CASE LoginLoadsTokens
  <2>1. UNCHANGED credentials /\ login' \in Hands
    BY <1>1, <1>2, <1>3, <1>4, <1>8 DEF LoginLoadsTokens, LoginSteps
  <2> QED
    BY <1>1, <1>5, <1>6, <2>1 DEF credentials
<1>9. CASE LoginRenews
  <2>1. UNCHANGED <<stored, expired, auth, task>>
    BY <1>9 DEF LoginRenews
  <2>2. CASE Newest < MaxToken /\ Rotate(login.token)
    <3>1. NewestHeld' /\ live' \subseteq Tokens /\ Newest + 1 \in 0..MaxToken
      BY <2>2, RotateIsTyped
    <3>2. excused' \in BOOLEAN /\ login' \in Hands
      BY <1>1, <1>2, <1>3, <1>9, <3>1 DEF LoginRenews, LoginSteps
    <3> QED
      BY <1>1, <1>5, <2>1, <3>1, <3>2
  <2>3. CASE GoTo("device", NoToken) /\ UNCHANGED <<live, excused>>
    <3>1. login' \in Hands
      BY <1>2, <1>3, <2>3 DEF LoginSteps
    <3> QED
      BY <1>1, <1>5, <1>6, <2>1, <2>3, <3>1
  <2> QED
    BY <1>9, <2>2, <2>3 DEF LoginRenews
<1>10. CASE CompleteDeviceFlow
  <2>1. UNCHANGED <<stored, expired, auth, task, excused>>
    BY <1>10 DEF CompleteDeviceFlow
  <2>2. CASE Newest < MaxToken /\ live' = live \cup {Newest + 1} /\ GoTo("save", Newest + 1)
    <3>0. CredentialsTypeOK
      BY DEF TokenInv, TokenTypeOK
    <3>1. NewestHeld' /\ live' \subseteq Tokens /\ Newest + 1 \in 0..MaxToken
      BY <1>1, <2>2, <3>0, IssueKeeps
    <3>2. login' \in Hands
      BY <1>3, <2>2, <3>1 DEF LoginSteps
    <3> QED
      BY <1>1, <1>5, <2>1, <3>1, <3>2
  <2>3. CASE LoginOver /\ UNCHANGED live
    BY <1>1, <1>4, <1>5, <1>6, <2>1, <2>3
  <2> QED
    BY <1>10, <2>2, <2>3 DEF CompleteDeviceFlow
<1>11. CASE LoginSavesTokens
  <2>1. UNCHANGED <<live, expired, task>> /\ stored' \in 0..MaxToken /\ excused' \in BOOLEAN
    BY <1>1, <1>2, <1>11 DEF LoginSavesTokens
  <2>2. login' \in Hands
    BY <1>2, <1>3, <1>4, <1>11 DEF LoginSavesTokens, LoginSteps
  <2>3. auth' \in [Processes -> [Callers -> Calls]]
    <3>1. "resolve" \in AuthSteps
      BY DEF AuthSteps
    <3>2. SetCall(LoginProcess, Main, "resolve", NoToken) =>
            auth' \in [Processes -> [Callers -> Calls]]
      BY <1>2, <3>1, SetCallIsTyped
    <3> QED
      BY <1>1, <1>11, <3>2 DEF LoginSavesTokens
  <2> QED
    BY <1>1, <1>5, <1>6, <2>1, <2>2, <2>3
<1>12. ASSUME DropTask(LoginProcess), LoginOver, UNCHANGED <<stored, expired>>,
              \/ UNCHANGED live /\ excused' \in BOOLEAN
              \/ AnswerUnread(LoginProcess)
       PROVE  TokenInv'
  <2>1. /\ auth' \in [Processes -> [Callers -> Calls]] /\ task' \in [Processes -> Tasks]
        /\ login' \in Hands
    BY <1>2, <1>4, <1>12, DropIsTyped
  <2>2. live' \subseteq Tokens /\ NewestHeld' /\ excused' \in BOOLEAN
    BY <1>1, <1>6, <1>12, RotateIsTyped DEF AnswerUnread
  <2> QED
    BY <1>1, <1>5, <1>12, <2>1, <2>2
<1>13. CASE IssueTelemetryCredential
  BY <1>1, <1>12, <1>13 DEF IssueTelemetryCredential, ShutRuntimeDown
<1>14. CASE KillLogin
  BY <1>12, <1>14 DEF KillLogin
<1>15. CASE RunLogout
  BY <1>1, <1>2, <1>5, <1>6, <1>15 DEF RunLogout
<1>16. CASE (ClientStep(LoginProcess, Main) \/ RefreshTask(LoginProcess)) /\ UNCHANGED login
  BY <1>2, <1>16, ClientStepKeepsTokens, RefreshTaskKeepsTokens
<1> QED
  BY <1>7, <1>8, <1>9, <1>10, <1>11, <1>13, <1>14, <1>15, <1>16 DEF LoginNext

\* A stream makes calls; the tokens are the business of the client.
LEMMA StreamStepKeepsTokens ==
  ASSUME TokenInv, NEW p \in Processes, NEW s \in Streams, StreamStep(p, s),
         UNCHANGED <<login, layout>>
  PROVE  TokenInv'
<1>1. s \in Callers /\ NoToken \in 0..MaxToken /\ "resolve" \in AuthSteps
  BY StreamsAreCallers, TokensBound DEF NoToken, AuthSteps
<1>2. /\ Hangup(p, s) => auth' \in [Processes -> [Callers -> Calls]]
      /\ SetCall(p, s, "resolve", NoToken) => auth' \in [Processes -> [Callers -> Calls]]
      /\ auth' = auth => auth' \in [Processes -> [Callers -> Calls]]
  <2>1. auth \in [Processes -> [Callers -> Calls]]
    BY DEF TokenInv, TokenTypeOK, CredentialsTypeOK, Calls
  <2> QED
    BY <1>1, <2>1, HangupIsTyped, SetCallIsTyped
<1>3. Reconcile(p, s) => auth' \in [Processes -> [Callers -> Calls]]
  BY <1>2 DEF Reconcile
<1>4. UNCHANGED <<stored, live, expired, task, excused>>
      /\ auth' \in [Processes -> [Callers -> Calls]]
  <2>1. CASE ReadRows(p, s)
    BY <1>2, <2>1 DEF ReadRows
  <2>2. CASE Accepted(p, s)
    BY <1>2, <2>2 DEF Accepted
  <2>3. CASE Conflict(p, s)
    BY <1>3, <2>3 DEF Conflict
  <2>4. CASE Ambiguous(p, s)
    BY <1>3, <2>4 DEF Ambiguous
  <2>5. CASE Terminal(p, s)
    BY <1>2, <2>5 DEF Terminal
  <2>6. CASE RefreshCursor(p, s)
    BY <1>2, <2>6 DEF RefreshCursor
  <2>7. CASE RefreshCursorFails(p, s)
    BY <1>2, <2>7 DEF RefreshCursorFails
  <2> QED
    BY <2>1, <2>2, <2>3, <2>4, <2>5, <2>6, <2>7 DEF StreamStep
<1>5. expired \in 0..MaxToken
  BY DEF TokenInv, TokenTypeOK, CredentialsTypeOK
<1> QED
  BY <1>4, <1>5, CallsMove

LEMMA SyncStepKeepsTokens ==
  ASSUME TokenInv, NEW p \in Processes, SyncStep(p) \/ Kill(p), UNCHANGED <<login, layout>>
  PROVE  TokenInv'
<1>0. /\ Main \in Callers /\ NoToken \in 0..MaxToken /\ "resolve" \in AuthSteps
      /\ expired \in 0..MaxToken
  BY MainIsACaller, TokensBound
  DEF NoToken, AuthSteps, TokenInv, TokenTypeOK, CredentialsTypeOK
<1>1. CASE RunSync(p)
  <2>1. UNCHANGED <<stored, live, expired, task, excused>> /\ SetCall(p, Main, "resolve", NoToken)
    BY <1>1 DEF RunSync
  <2> QED
    BY <1>0, <2>1, SetCallIsTyped, CallsMove
<1>2. CASE StateAnswered(p)
  <2>1. UNCHANGED <<stored, live, expired, task, excused>> /\ Hangup(p, Main)
    BY <1>2 DEF StateAnswered
  <2> QED
    BY <1>0, <2>1, HangupIsTyped, CallsMove
<1>3. CASE StateFails(p)
  <2>1. UNCHANGED <<stored, live, expired, task, excused>> /\ Hangup(p, Main)
    BY <1>3 DEF StateFails
  <2> QED
    BY <1>0, <2>1, HangupIsTyped, CallsMove
<1>4. CASE ReturnResult(p)
  BY <1>4, ShutKeepsTokens DEF ReturnResult
<1>5. CASE RefreshTask(p)
  BY <1>5, RefreshTaskKeepsTokens
<1>6. CASE \E s \in Streams : StreamStep(p, s)
  BY <1>6, StreamStepKeepsTokens
<1>7. CASE \E c \in Callers : ClientStep(p, c) /\ UNCHANGED syncVars
  BY <1>7, ClientStepKeepsTokens
<1>8. CASE Kill(p)
  BY <1>8, CrashKeepsTokens DEF Kill
<1> QED
  BY <1>1, <1>2, <1>3, <1>4, <1>5, <1>6, <1>7, <1>8 DEF SyncStep

LEMMA InitTokens ==
  ASSUME Init
  PROVE  TokenInv
<1>0. MaxToken \in Nat /\ 1 <= MaxToken
  BY TokensBound
<1>1. live = {1} /\ stored \in {0, 1} /\ excused = FALSE /\ login.at = "off"
      /\ task = [p \in Processes |-> NoTask] /\ layout \in Layouts
  BY DEF Init, CredentialsInit, LoginInit
<1>2. Newest = 1
  <2>1. \A t \in {1} \cup {0} : t <= 1
    OBVIOUS
  <2>2. Max({1} \cup {0}) = 1
    BY <2>1, MaxIs
  <2> QED
    BY <1>1, <2>2 DEF Newest
<1>3. NewestHeld
  BY <1>0, <1>1, <1>2 DEF NewestHeld
<1>4. TokenTypeOK
  <2>1. NoCall \in Calls /\ NoTask \in Tasks
    BY <1>0 DEF NoCall, NoTask, NoToken, Calls, Tasks, AuthSteps
  <2>2. auth \in [Processes -> [Callers -> Calls]] /\ task \in [Processes -> Tasks]
    BY <2>1 DEF Init, CredentialsInit
  <2>3. stored \in 0..MaxToken /\ 1 \in Tokens
    BY <1>0, <1>1 DEF Tokens
  <2>4. live \subseteq Tokens /\ excused \in BOOLEAN
    BY <1>1, <2>3, Zenon
  <2>5. expired \in 0..MaxToken
    BY <1>0 DEF Init, CredentialsInit
  <2>6. LoginTypeOK
    BY <1>0 DEF Init, LoginInit, LoginTypeOK, LoginSteps, NoToken
  <2> QED
    BY <1>1, <2>2, <2>3, <2>4, <2>5, <2>6 DEF TokenTypeOK, CredentialsTypeOK, Calls, Tasks
<1>5. TokenHeld
  <2>1. \A p \in Processes : TaskHeld(p)
    BY <1>1, <1>2 DEF TaskHeld, NoTask, NoToken
  <2> QED
    BY <1>1, <1>2, <2>1 DEF TokenHeld
<1>6. StoredTokenIsLive
  BY <1>1 DEF StoredTokenIsLive, Usable, NoToken
<1> QED
  BY <1>3, <1>4, <1>5, <1>6 DEF TokenInv

LEMMA NextKeepsTokens ==
  ASSUME TokenInv, [Next]_vars
  PROVE  TokenInv'
<1>0. /\ expired \in 0..MaxToken /\ auth \in [Processes -> [Callers -> Calls]]
      /\ layout.syncs \subseteq Processes
  BY LayoutsAreSound DEF TokenInv, TokenTypeOK, CredentialsTypeOK, Calls
<1>1. CASE UNCHANGED vars
  BY <1>0, <1>1, CallsMove DEF vars, credentials
<1>2. ASSUME NEW p \in layout.syncs, SyncStep(p) \/ Kill(p), UNCHANGED <<login, layout>>
      PROVE  TokenInv'
  BY <1>0, <1>2, SyncStepKeepsTokens
<1>3. CASE layout.login /\ LoginNext /\ UNCHANGED layout
  BY <1>3, LoginKeepsTokens
<1>4. ASSUME NEW s, NEW r, CaptureRow(s, r), UNCHANGED <<login, layout>>
      PROVE  TokenInv'
  BY <1>0, <1>4, CallsMove DEF CaptureRow, credentials
<1>5. ASSUME NEW m, LateBatchArrives(m), UNCHANGED <<login, layout>>
      PROVE  TokenInv'
  BY <1>0, <1>5, CallsMove DEF LateBatchArrives, credentials
<1>6. CASE TokensExpire /\ UNCHANGED <<login, layout>>
  <2>1. expired' \in 0..MaxToken
    BY <1>0, <1>6, TokensBound DEF TokensExpire
  <2> QED
    BY <1>0, <1>6, <2>1, CallsMove DEF TokensExpire
<1> QED
  BY <1>1, <1>2, <1>3, <1>4, <1>5, <1>6 DEF Next

(* StoredTokenIsLive, for any number of processes and calls: whoever gives   *)
(* up waiting, and whatever refreshes of other processes fail, the stored    *)
(* token is one that WorkOS will renew or the one that does is being saved.  *)
THEOREM StoredTokenStaysLive == Spec => []StoredTokenIsLive
<1>1. Init => TokenInv
  BY InitTokens
<1>2. TokenInv /\ [Next]_vars => TokenInv'
  BY NextKeepsTokens
<1>3. TokenInv => StoredTokenIsLive
  BY DEF TokenInv
<1> QED
  BY <1>1, <1>2, <1>3, PTL DEF Spec

-----------------------------------------------------------------------------
(* The rows.                                                               *)

LEMMA RowsType ==
  ASSUME DataTypeOK, NEW s \in Streams
  PROVE  /\ rows[s] \in Seq(Rows) /\ copy[s] \in Seq(Rows)
         /\ Len(rows[s]) \in Nat /\ Len(copy[s]) \in Nat
         /\ DOMAIN rows[s] = 1..Len(rows[s]) /\ DOMAIN copy[s] = 1..Len(copy[s])
         /\ \A i \in 1..Len(rows[s]) : rows[s][i] \in Rows /\ rows[s][i] \in Nat /\ rows[s][i] > 0
         /\ \A i \in 1..Len(copy[s]) : copy[s][i] \in Rows /\ copy[s][i] \in Nat
<1>1. rows[s] \in Seq(Rows) /\ copy[s] \in Seq(Rows)
  BY DEF DataTypeOK
<1>2. /\ \A i \in 1..Len(rows[s]) : rows[s][i] \in Rows
      /\ \A i \in 1..Len(copy[s]) : copy[s][i] \in Rows
  BY <1>1, ElementOfSeq
<1>3. \A r \in Rows : r \in Nat /\ r > 0
  BY RowsBound DEF Rows
<1> QED
  BY <1>1, <1>2, <1>3, LenProperties

\* Rows that increase are no more than there are ids.
LEMMA SortedIsShort ==
  ASSUME NEW ids \in Seq(Rows), Sorted(ids)
  PROVE  Len(ids) \in 0..MaxRow
<1>1. /\ Len(ids) \in Nat /\ ids \in [1..Len(ids) -> Rows] /\ DOMAIN ids = 1..Len(ids)
      /\ 1 \in Int /\ MaxRow \in Nat /\ MaxRow \in Int /\ Len(ids) \in Int
  BY LenProperties, RowsBound
<1>2. IsFiniteSet(1..Len(ids)) /\ Cardinality(1..Len(ids)) = Len(ids)
  BY <1>1, FS_Interval
<1>3. IsFiniteSet(Rows) /\ Cardinality(Rows) = MaxRow
  BY <1>1, FS_Interval DEF Rows
<1>4. SUFFICES ASSUME Len(ids) > MaxRow PROVE FALSE
  BY <1>1
<1>5. \E i, j \in 1..Len(ids) : i # j /\ ids[i] = ids[j]
  BY <1>1, <1>2, <1>3, <1>4, FS_PigeonHole
<1>6. PICK i \in 1..Len(ids), j \in 1..Len(ids) : i # j /\ ids[i] = ids[j]
  BY <1>5
<1>7. ids[i] \in Int /\ ids[j] \in Int
  BY <1>1 DEF Rows
<1>8. (i < j => ids[i] < ids[j]) /\ (j < i => ids[j] < ids[i])
  BY <1>1 DEF Sorted
<1> QED
  BY <1>1, <1>6, <1>7, <1>8

\* The cursor tells the rows that were copied from those that were not.
LEMMA CursorDivides ==
  ASSUME DataTypeOK, NEW s \in Streams, CopyHeld(s), NEW cursor,
         NEW n \in 0..Len(copy[s]), Reached(s, cursor, n)
  PROVE  /\ cursor \in 0..MaxRow /\ n \in Nat /\ n <= Len(rows[s])
         /\ \A i \in 1..Len(rows[s]) : rows[s][i] <= cursor <=> i <= n
<1>1. /\ n \in Nat /\ Len(copy[s]) <= Len(rows[s]) /\ n <= Len(rows[s])
  BY RowsType DEF CopyHeld
<1>2. CASE n = 0
  <2>1. cursor = 0
    BY <1>2 DEF Reached
  <2>2. \A i \in 1..Len(rows[s]) : rows[s][i] \in Nat /\ rows[s][i] > 0
    BY RowsType
  <2> QED
    BY <1>1, <1>2, <2>1, <2>2, RowsBound
<1>3. CASE n # 0
  <2>1. n \in 1..Len(copy[s]) /\ n \in 1..Len(rows[s])
    BY <1>1, <1>3, RowsType
  <2>2. cursor = rows[s][n]
    BY <1>3, <2>1 DEF Reached, CopyHeld
  <2>3. \A i, j \in 1..Len(rows[s]) : i < j => rows[s][i] < rows[s][j]
    BY RowsType DEF CopyHeld, Sorted
  <2>4. cursor \in 0..MaxRow
    BY <2>1, <2>2, RowsType, RowsBound DEF Rows
  <2>5. ASSUME NEW i \in 1..Len(rows[s]) PROVE rows[s][i] <= cursor <=> i <= n
    <3>1. rows[s][i] \in Nat /\ rows[s][n] \in Nat
      BY <2>1, RowsType
    <3>2. (i < n => rows[s][i] < rows[s][n]) /\ (n < i => rows[s][n] < rows[s][i])
      BY <2>1, <2>3
    <3>3. i \in Nat
      BY RowsType
    <3> QED
      BY <1>1, <2>2, <3>1, <3>2, <3>3
  <2> QED
    BY <1>1, <2>4, <2>5
<1> QED
  BY <1>2, <1>3

LEMMA CoveredIs ==
  ASSUME DataTypeOK, NEW s \in Streams, CopyHeld(s), NEW cursor,
         NEW n \in 0..Len(copy[s]), Reached(s, cursor, n)
  PROVE  Covered(s, cursor) = n
<1>1. /\ n \in Nat /\ n <= Len(rows[s]) /\ Len(rows[s]) \in Nat
      /\ \A i \in 1..Len(rows[s]) : rows[s][i] <= cursor <=> i <= n
  BY CursorDivides, RowsType
<1>2. {i \in DOMAIN rows[s] : rows[s][i] <= cursor} = 1..n
  BY <1>1, RowsType
<1>3. Cardinality(1..n) = n
  BY <1>1, FS_Interval
<1> QED
  BY <1>2, <1>3 DEF Covered

\* What is read after the cursor is what was not copied, and nothing only if all was.
LEMMA NextBatchFollows ==
  ASSUME DataTypeOK, NEW s \in Streams, CopyHeld(s), NEW cursor,
         NEW n \in 0..Len(copy[s]), Reached(s, cursor, n)
  PROVE  /\ NextBatch(s, cursor) \in Seq(Rows)
         /\ NextBatch(s, cursor) = <<>> => Len(rows[s]) <= n
         /\ NextBatch(s, cursor) # <<>> => Follows(s, n, NextBatch(s, cursor))
<1> DEFINE more == After(s, cursor)
           k == IF Len(more) < BatchSize THEN Len(more) ELSE BatchSize
           batch == SubSeq(more, 1, k)
<1>1. /\ n \in Nat /\ n <= Len(rows[s]) /\ Len(rows[s]) \in Nat /\ n + 1 \in Int
      /\ BatchSize \in Nat /\ BatchSize > 0
  BY CursorDivides, RowsType, BatchBound
<1>2. more = SubSeq(rows[s], n + 1, Len(rows[s]))
  BY CoveredIs DEF After
<1>3. \A i \in n + 1..Len(rows[s]) : rows[s][i] \in Rows
  BY <1>1, RowsType
<1>4. /\ more \in Seq(Rows)
      /\ Len(more) = IF n + 1 <= Len(rows[s]) THEN Len(rows[s]) - (n + 1) + 1 ELSE 0
      /\ \A i \in 1..Len(rows[s]) - (n + 1) + 1 : more[i] = rows[s][(n + 1) + i - 1]
  <2>1. /\ SubSeq(rows[s], n + 1, Len(rows[s])) \in Seq(Rows)
        /\ Len(SubSeq(rows[s], n + 1, Len(rows[s]))) =
             IF n + 1 <= Len(rows[s]) THEN Len(rows[s]) - (n + 1) + 1 ELSE 0
        /\ \A i \in 1..Len(rows[s]) - (n + 1) + 1 :
             SubSeq(rows[s], n + 1, Len(rows[s]))[i] = rows[s][(n + 1) + i - 1]
    BY <1>1, <1>3, SubSeqProperties
  <2> HIDE DEF more
  <2> QED
    BY <1>2, <2>1
<1> HIDE DEF more
<1>5. Len(more) = Len(rows[s]) - n /\ \A i \in 1..Len(more) : more[i] = rows[s][n + i]
  <2>1. Len(more) = Len(rows[s]) - n
    BY <1>1, <1>4
  <2>2. ASSUME NEW i \in 1..Len(more) PROVE more[i] = rows[s][n + i]
    <3>1. i \in 1..Len(rows[s]) - (n + 1) + 1 /\ (n + 1) + i - 1 = n + i
      BY <1>1, <2>1
    <3> QED
      BY <1>4, <3>1
  <2> QED
    BY <2>1, <2>2
<1>6. k \in Nat /\ k <= Len(more) /\ (k = 0 <=> Len(more) = 0)
  BY <1>1, <1>5
<1> HIDE DEF k
<1>7. \A i \in 1..k : more[i] \in Rows
  BY <1>4, <1>6, ElementOfSeq
<1>8. batch \in Seq(Rows) /\ Len(batch) = k /\ \A i \in 1..k : batch[i] = more[i]
  <2>1. /\ SubSeq(more, 1, k) \in Seq(Rows)
        /\ Len(SubSeq(more, 1, k)) = IF 1 <= k THEN k - 1 + 1 ELSE 0
        /\ \A i \in 1..k - 1 + 1 : SubSeq(more, 1, k)[i] = more[1 + i - 1]
    BY <1>6, <1>7, SubSeqProperties
  <2>2. k - 1 + 1 = k /\ \A i \in 1..k : 1 + i - 1 = i
    BY <1>6
  <2> QED
    BY <1>6, <2>1, <2>2
<1>9. NextBatch(s, cursor) = batch
  BY DEF NextBatch, more, k
<1> HIDE DEF batch
<1>10. batch = <<>> => Len(rows[s]) <= n
  <2>1. batch = <<>> => Len(batch) = 0
    BY EmptySeq
  <2> QED
    BY <1>1, <1>5, <1>6, <1>8, <2>1
<1>11. batch # <<>> => Follows(s, n, batch)
  <2>1. ASSUME NEW i \in 1..Len(batch) PROVE batch[i] = rows[s][n + i]
    <3>1. i \in 1..k /\ i \in 1..Len(more)
      BY <1>1, <1>5, <1>6, <1>8
    <3> QED
      BY <1>5, <1>8, <3>1
  <2>2. n + Len(batch) <= Len(rows[s])
    BY <1>1, <1>5, <1>6, <1>8
  <2> QED
    BY <2>1, <2>2 DEF Follows
<1> QED
  BY <1>8, <1>9, <1>10, <1>11

LEMMA CursorOfIs ==
  ASSUME DataTypeOK, NEW s \in Streams, CopyHeld(s)
  PROVE  /\ CursorOf(s) \in 0..MaxRow
         /\ Reached(s, CursorOf(s), Len(copy[s]))
         /\ \A n \in 0..Len(copy[s]) : Reached(s, CursorOf(s), n) => n = Len(copy[s])
<1>1. Len(copy[s]) \in Nat /\ Len(copy[s]) <= Len(rows[s])
  BY RowsType DEF CopyHeld
<1>2. copy[s] = <<>> <=> Len(copy[s]) = 0
  BY <1>1, RowsType, EmptySeq
<1>3. Reached(s, CursorOf(s), Len(copy[s]))
  BY <1>2 DEF Reached, CursorOf, Last
<1>4. /\ CursorOf(s) \in 0..MaxRow
      /\ \A i \in 1..Len(rows[s]) : rows[s][i] <= CursorOf(s) <=> i <= Len(copy[s])
  BY <1>1, <1>3, CursorDivides
<1>5. ASSUME NEW n \in 0..Len(copy[s]), Reached(s, CursorOf(s), n) PROVE n = Len(copy[s])
  <2>1. n \in Nat /\ \A i \in 1..Len(rows[s]) : rows[s][i] <= CursorOf(s) <=> i <= n
    BY <1>5, CursorDivides
  <2>2. CASE n < Len(copy[s])
    <3>1. Len(copy[s]) \in 1..Len(rows[s])
      BY <1>1, <2>1, <2>2
    <3> QED
      BY <1>1, <1>4, <2>1, <2>2, <3>1
  <2> QED
    BY <1>1, <2>1, <2>2
<1> QED
  BY <1>3, <1>4, <1>5

-----------------------------------------------------------------------------
(* What a step may do to the rows and to their copy.                       *)

\* Rows and copies only grow, at their ends.
Grows ==
  \A s \in Streams :
    /\ Len(copy[s]) <= Len(copy'[s]) /\ Len(rows[s]) <= Len(rows'[s])
    /\ \A i \in 1..Len(copy[s]) : copy'[s][i] = copy[s][i]
    /\ \A i \in 1..Len(rows[s]) : rows'[s][i] = rows[s][i]

\* The copy and the rows, as every step leaves them.
RowsMove ==
  /\ rows' \in [Streams -> Seq(Rows)] /\ copy' \in [Streams -> Seq(Rows)]
  /\ Grows
  /\ \A s \in Streams : CopyHeld(s)'

LEMMA StillReached ==
  ASSUME DataTypeOK, RowsMove, NEW s \in Streams, NEW cursor
  PROVE  /\ (\E n \in 0..Len(copy[s]) : Reached(s, cursor, n)) =>
              \E n \in 0..Len(copy'[s]) : Reached(s, cursor, n)'
         /\ \A batch \in Seq(Rows) : Fits(s, cursor, batch) => Fits(s, cursor, batch)'
<1>0. /\ Len(copy[s]) \in Nat /\ Len(copy'[s]) \in Nat
      /\ Len(rows[s]) \in Nat /\ Len(rows'[s]) \in Nat
  BY LenProperties DEF DataTypeOK, RowsMove
<1>1. ASSUME NEW n \in 0..Len(copy[s]), Reached(s, cursor, n)
      PROVE  n \in 0..Len(copy'[s]) /\ Reached(s, cursor, n)'
  <2>1. Len(copy[s]) <= Len(copy'[s]) /\ \A i \in 1..Len(copy[s]) : copy'[s][i] = copy[s][i]
    BY DEF RowsMove, Grows
  <2>2. n # 0 => n \in 1..Len(copy[s])
    BY <1>0
  <2>3. n \in 0..Len(copy'[s])
    BY <1>0, <2>1
  <2> QED
    BY <1>1, <2>1, <2>2, <2>3 DEF Reached
<1>2. ASSUME NEW n \in 0..Len(copy[s]), NEW batch \in Seq(Rows), Follows(s, n, batch)
      PROVE  Follows(s, n, batch)'
  <2>1. Len(rows[s]) <= Len(rows'[s]) /\ \A i \in 1..Len(rows[s]) : rows'[s][i] = rows[s][i]
    BY DEF RowsMove, Grows
  <2>2. Len(batch) \in Nat /\ n \in Nat
    BY <1>0, LenProperties
  <2>3. \A i \in 1..Len(batch) : n + i \in 1..Len(rows[s])
    BY <1>0, <1>2, <2>2 DEF Follows
  <2> QED
    BY <1>0, <1>2, <2>1, <2>2, <2>3 DEF Follows
<1>3. ASSUME NEW batch \in Seq(Rows), Fits(s, cursor, batch)
      PROVE  Fits(s, cursor, batch)'
  <2>1. PICK n \in 0..Len(copy[s]) : Reached(s, cursor, n) /\ Follows(s, n, batch)
    BY <1>3 DEF Fits
  <2>2. n \in 0..Len(copy'[s]) /\ Reached(s, cursor, n)' /\ Follows(s, n, batch)'
    BY <1>1, <1>2, <2>1
  <2> QED
    BY <2>2 DEF Fits
<1> QED
  BY <1>1, <1>3

LEMMA RowsStay ==
  ASSUME DataInv, UNCHANGED <<rows, copy>>
  PROVE  RowsMove
BY RowsType DEF DataInv, DataTypeOK, RowsMove, Grows, CopyHeld

\* Storing the first rows of a batch that follows what the control plane has.
LEMMA StoreMoves ==
  ASSUME DataInv, NEW s \in Streams, NEW batch \in Seq(Rows), Fits(s, CursorOf(s), batch),
         NEW k \in 1..Len(batch), Store(s, SubSeq(batch, 1, k)), rows' = rows
  PROVE  /\ RowsMove
         /\ Len(copy'[s]) = Len(copy[s]) + k /\ copy' = [copy EXCEPT ![s] = copy'[s]]
         /\ copy'[s][Len(copy'[s])] = batch[k]
<1>1. DataTypeOK /\ CopyHeld(s)
  BY DEF DataInv
<1> DEFINE n == Len(copy[s])
           new == SubSeq(batch, 1, k)
<1>2. Follows(s, n, batch)
  BY <1>1, CursorOfIs DEF Fits
<1>3. n \in Nat /\ k \in Nat /\ 1 <= k /\ k <= Len(batch) /\ Len(batch) \in Nat
      /\ n + k <= Len(rows[s]) /\ Len(rows[s]) \in Nat
  BY <1>1, <1>2, RowsType, LenProperties DEF Follows
<1>4. \A i \in 1..k : batch[i] \in Rows
  BY <1>3, ElementOfSeq
<1>5. new \in Seq(Rows) /\ Len(new) = k /\ \A i \in 1..k : new[i] = batch[i]
  <2>1. /\ SubSeq(batch, 1, k) \in Seq(Rows)
        /\ Len(SubSeq(batch, 1, k)) = IF 1 <= k THEN k - 1 + 1 ELSE 0
        /\ \A i \in 1..k - 1 + 1 : SubSeq(batch, 1, k)[i] = batch[1 + i - 1]
    BY <1>3, <1>4, SubSeqProperties
  <2>2. k - 1 + 1 = k /\ \A i \in 1..k : 1 + i - 1 = i
    BY <1>3
  <2> QED
    BY <1>3, <2>1, <2>2
<1>6. copy' = [copy EXCEPT ![s] = copy[s] \o new] /\ copy \in [Streams -> Seq(Rows)]
  BY <1>1 DEF Store, DataTypeOK
<1> HIDE DEF new
<1>7. copy'[s] = copy[s] \o new /\ \A t \in Streams \ {s} : copy'[t] = copy[t]
  BY <1>6
<1>8. /\ copy'[s] \in Seq(Rows) /\ Len(copy'[s]) = n + k
      /\ \A i \in 1..n + k : copy'[s][i] = IF i <= n THEN copy[s][i] ELSE new[i - n]
  <2>1. copy[s] \in Seq(Rows)
    BY <1>1, RowsType
  <2>2. /\ copy[s] \o new \in Seq(Rows) /\ Len(copy[s] \o new) = Len(copy[s]) + Len(new)
        /\ \A i \in 1..Len(copy[s]) + Len(new) :
             (copy[s] \o new)[i] = IF i <= Len(copy[s]) THEN copy[s][i] ELSE new[i - Len(copy[s])]
    BY <1>5, <2>1, ConcatProperties
  <2> QED
    BY <1>5, <1>7, <2>2
<1>9. \A i \in 1..n + k : copy'[s][i] = rows[s][i]
  <2> SUFFICES ASSUME NEW i \in 1..n + k PROVE copy'[s][i] = rows[s][i]
    OBVIOUS
  <2>1. CASE i <= n
    <3>1. i \in 1..Len(copy[s])
      BY <1>3, <2>1
    <3> QED
      BY <1>1, <1>8, <2>1, <3>1 DEF CopyHeld
  <2>2. CASE ~(i <= n)
    <3>1. i - n \in 1..k /\ i - n \in 1..Len(batch) /\ n + (i - n) = i
      BY <1>3, <2>2
    <3>2. copy'[s][i] = batch[i - n]
      BY <1>5, <1>8, <2>2, <3>1
    <3>3. batch[i - n] = rows[s][n + (i - n)]
      BY <1>2, <3>1 DEF Follows
    <3> QED
      BY <3>1, <3>2, <3>3
  <2> QED
    BY <2>1, <2>2
<1>10. copy' \in [Streams -> Seq(Rows)] /\ copy' = [copy EXCEPT ![s] = copy'[s]]
  BY <1>6, <1>7, <1>8
<1>11. Grows
  <2> SUFFICES ASSUME NEW t \in Streams
               PROVE  /\ Len(copy[t]) <= Len(copy'[t]) /\ Len(rows[t]) <= Len(rows'[t])
                      /\ \A i \in 1..Len(copy[t]) : copy'[t][i] = copy[t][i]
                      /\ \A i \in 1..Len(rows[t]) : rows'[t][i] = rows[t][i]
    BY DEF Grows
  <2>1. Len(copy[t]) \in Nat /\ Len(rows[t]) \in Nat
    BY <1>1, RowsType
  <2>2. CASE t = s
    BY <1>3, <1>8, <2>1, <2>2
  <2>3. CASE t # s
    BY <1>7, <2>1, <2>3
  <2> QED
    BY <2>2, <2>3
<1>12. \A t \in Streams : CopyHeld(t)'
  <2> SUFFICES ASSUME NEW t \in Streams PROVE CopyHeld(t)'
    OBVIOUS
  <2>1. CopyHeld(t)
    BY DEF DataInv
  <2>2. CASE t = s
    BY <1>3, <1>8, <1>9, <2>1, <2>2 DEF CopyHeld
  <2>3. CASE t # s
    BY <1>7, <2>1, <2>3 DEF CopyHeld
  <2> QED
    BY <2>2, <2>3
<1>13. copy'[s][Len(copy'[s])] = batch[k]
  <2>1. n + k \in 1..n + k /\ ~(n + k <= n) /\ n + k - n = k /\ k \in 1..k
    BY <1>3
  <2>2. copy'[s][n + k] = new[n + k - n]
    BY <1>8, <2>1
  <2> QED
    BY <1>5, <1>8, <2>1, <2>2
<1>14. RowsMove
  BY <1>1, <1>10, <1>11, <1>12 DEF RowsMove, DataTypeOK
<1> QED
  BY <1>8, <1>10, <1>13, <1>14

-----------------------------------------------------------------------------
(* One stream.                                                             *)

Works == [at : WorkSteps, cursor : 0..MaxRow, batch : Seq(Rows), attempts : 0..MaxAttempts]

LEMMA IdleIsTyped ==
  /\ Idle \in Works /\ Idle.at = "idle" /\ Idle.cursor = 0
  /\ \A step \in WorkSteps, cursor \in 0..MaxRow :
       [Idle EXCEPT !.at = step, !.cursor = cursor] \in Works
  /\ [Idle EXCEPT !.at = "failed"] \in Works /\ [Idle EXCEPT !.at = "state"] \in Works
<1>1. <<>> \in Seq(Rows)
  BY EmptySeq
<1>2. Idle \in Works /\ Idle.at = "idle" /\ Idle.cursor = 0
  BY <1>1, RowsBound, AttemptsBound DEF Idle, Works, WorkSteps
<1>3. \A w \in Works, step \in WorkSteps, cursor \in 0..MaxRow :
        [w EXCEPT !.at = step, !.cursor = cursor] \in Works
  BY DEF Works
<1>4. \A w \in Works, step \in WorkSteps : [w EXCEPT !.at = step] \in Works
  BY DEF Works
<1>5. "failed" \in WorkSteps /\ "state" \in WorkSteps
  BY DEF WorkSteps
<1> HIDE DEF Works
<1> QED
  BY <1>2, <1>3, <1>4, <1>5

LEMMA LateStillFits ==
  ASSUME DataInv, RowsMove, NEW m \in late
  PROVE  /\ m \in [stream : Streams, expected : 0..MaxRow, batch : Seq(Rows)]
         /\ Fits(m.stream, m.expected, m.batch)'
<1>1. m \in [stream : Streams, expected : 0..MaxRow, batch : Seq(Rows)] /\ DataTypeOK
  BY DEF DataInv, DataTypeOK
<1>2. Fits(m.stream, m.expected, m.batch)
  BY DEF DataInv, LateHeld
<1>3. m.stream \in Streams /\ m.batch \in Seq(Rows)
  BY <1>1
<1>4. \A batch \in Seq(Rows) : Fits(m.stream, m.expected, batch) => Fits(m.stream, m.expected, batch)'
  BY <1>1, <1>3, StillReached
<1> QED
  BY <1>1, <1>2, <1>3, <1>4

LEMMA WorkStillHeld ==
  ASSUME DataInv, RowsMove, NEW p \in Processes, NEW s \in Streams, work'[p][s] = work[p][s]
  PROVE  WorkHeld(p, s)'
<1>1. WorkHeld(p, s) /\ DataTypeOK
  BY DEF DataInv
<1>2. work[p][s].batch \in Seq(Rows)
  BY <1>1, StreamsAreCallers DEF DataTypeOK
<1>3. /\ (\E n \in 0..Len(copy[s]) : Reached(s, work[p][s].cursor, n)) =>
           \E n \in 0..Len(copy'[s]) : Reached(s, work[p][s].cursor, n)'
      /\ Fits(s, work[p][s].cursor, work[p][s].batch) =>
           Fits(s, work[p][s].cursor, work[p][s].batch)'
  BY <1>1, <1>2, StillReached
<1> QED
  BY <1>1, <1>3 DEF WorkHeld, Fits, Reached, Follows

\* A stream at work is one of a run whose streams are on their way.
LEMMA WorkingIs ==
  ASSUME DataInv, NEW p \in Processes, NEW s \in Streams,
         NEW step \in {"read", "post", "state"}, Working(p, s, step)
  PROVE  /\ run[p] = "streams" /\ work[p][s].at = step /\ work[p][s] \in Works
         /\ s \in Callers
<1>1. run[p] \in {"state", "streams"} /\ work[p][s].at = step
  BY DEF Working
<1>2. run[p] # "state"
  BY <1>1, IdleIsTyped DEF DataInv, RunHeld
<1> QED
  BY <1>1, <1>2, StreamsAreCallers DEF DataInv, DataTypeOK, Works

LEMMA StreamMoves ==
  ASSUME DataInv, NEW p \in Processes, NEW s \in Streams,
         NEW step \in {"read", "post", "state"}, Working(p, s, step),
         RowsMove, run' = run, base' = base,
         NEW w \in Works, SetWork(p, s, w), w.at \in {"read", "post", "state", "done", "failed"},
         \E n \in 0..Len(copy'[s]) : Reached(s, w.cursor, n)',
         w.at = "post" => Fits(s, w.cursor, w.batch)',
         w.at = "done" => terminated[p] \/ base[p][s] <= Len(copy'[s]),
         \/ terminated' = terminated
         \/ w.at = "failed" /\ terminated' = [terminated EXCEPT ![p] = TRUE],
         late' \subseteq late \/ (step = "post" /\ late' \subseteq late \cup {InHand(p, s)})
  PROVE  DataInv'
<1>1. /\ run[p] = "streams" /\ work[p][s].at = step /\ work[p][s] \in Works /\ s \in Callers
      /\ DataTypeOK /\ Streams \subseteq Callers /\ Main \notin Streams
  BY WorkingIs, StreamsAreCallers DEF DataInv
<1>2. /\ work \in [Processes -> [Callers -> Works]]
      /\ work' = [work EXCEPT ![p][s] = w] /\ work' \in [Processes -> [Callers -> Works]]
      /\ terminated \in [Processes -> BOOLEAN] /\ terminated' \in [Processes -> BOOLEAN]
  BY <1>1 DEF DataTypeOK, Works, SetWork
<1>3. /\ work'[p][s] = w
      /\ \A q \in Processes, c \in Callers : <<q, c>> # <<p, s>> => work'[q][c] = work[q][c]
  BY <1>1, <1>2
<1>4. \A m \in late' : /\ m \in [stream : Streams, expected : 0..MaxRow, batch : Seq(Rows)]
                       /\ Fits(m.stream, m.expected, m.batch)'
  <2> SUFFICES ASSUME NEW m \in late'
               PROVE  /\ m \in [stream : Streams, expected : 0..MaxRow, batch : Seq(Rows)]
                      /\ Fits(m.stream, m.expected, m.batch)'
    OBVIOUS
  <2>1. CASE m \in late
    BY <2>1, LateStillFits
  <2>2. CASE step = "post" /\ m = InHand(p, s)
    <3>1. Fits(s, work[p][s].cursor, work[p][s].batch)
      BY <1>1, <2>2 DEF DataInv, WorkHeld
    <3>2. work[p][s].cursor \in 0..MaxRow /\ work[p][s].batch \in Seq(Rows)
      BY <1>1 DEF Works
    <3>3. m.stream = s /\ m.expected = work[p][s].cursor /\ m.batch = work[p][s].batch
          /\ m \in [stream : Streams, expected : 0..MaxRow, batch : Seq(Rows)]
      BY <2>2, <3>2 DEF InHand
    <3>4. Fits(s, m.expected, m.batch) => Fits(s, m.expected, m.batch)'
      <4>1. \A batch \in Seq(Rows) : Fits(s, m.expected, batch) => Fits(s, m.expected, batch)'
        BY <1>1, StillReached
      <4> QED
        BY <3>2, <3>3, <4>1
    <3> QED
      BY <3>1, <3>3, <3>4
  <2> QED
    BY <2>1, <2>2
<1>5. DataTypeOK'
  BY <1>1, <1>2, <1>4 DEF DataTypeOK, RowsMove, Works
<1>6. LateHeld'
  BY <1>4 DEF LateHeld
<1>7. ASSUME NEW q \in Processes, NEW t \in Streams PROVE WorkHeld(q, t)'
  <2>1. CASE q = p /\ t = s
    BY <1>3, <2>1 DEF WorkHeld, Fits, Reached, Follows
  <2>2. CASE ~(q = p /\ t = s)
    <3>1. work'[q][t] = work[q][t]
      BY <1>1, <1>3, <2>2
    <3> QED
      BY <3>1, WorkStillHeld
  <2> QED
    BY <2>1, <2>2
<1>8. ASSUME NEW q \in Processes PROVE RunHeld(q)'
  <2>0. RunHeld(q)
    BY DEF DataInv
  <2>1. CASE q = p
    <3>1. /\ \A t \in Streams : work'[p][t].at # "idle"
          /\ work'[p][Main].at = "idle"
      BY <1>1, <1>3, <2>0, <2>1, MainIsACaller DEF RunHeld
    <3>2. terminated'[p] => Failed(p)'
      <4>1. CASE w.at = "failed"
        BY <1>1, <1>3, <4>1 DEF Failed
      <4>2. CASE terminated' = terminated
        <5>1. ASSUME terminated[p] PROVE Failed(p)'
          <6>1. PICK c \in Callers : work[p][c].at = "failed"
            BY <2>0, <2>1, <5>1 DEF RunHeld, Failed
          <6>2. c # s
            BY <1>1, <6>1
          <6>3. work'[p][c].at = "failed"
            BY <1>3, <6>1, <6>2
          <6> QED
            BY <6>3 DEF Failed
        <5> QED
          BY <4>2, <5>1
      <4> QED
        BY <4>1, <4>2
    <3> QED
      BY <1>1, <2>1, <3>1, <3>2 DEF RunHeld
  <2>2. CASE q # p
    <3>1. terminated'[q] = terminated[q] /\ \A c \in Callers : work'[q][c] = work[q][c]
      BY <1>2, <1>3, <2>2
    <3> QED
      BY <1>1, <2>0, <3>1, MainIsACaller DEF RunHeld, Failed
  <2> QED
    BY <2>1, <2>2
<1>9. ASSUME NEW q \in Processes, NEW t \in Streams PROVE DoneHeld(q, t)'
  <2>1. DoneHeld(q, t) /\ base[q][t] \in Nat
    BY <1>1, RowsBound DEF DataInv, DataTypeOK
  <2>2. /\ Len(copy[t]) <= Len(copy'[t]) /\ Len(rows[t]) <= Len(rows'[t])
        /\ Len(copy[t]) \in Nat /\ Len(copy'[t]) \in Nat
        /\ Len(rows[t]) \in Nat /\ Len(rows'[t]) \in Nat
    BY <1>1, LenProperties DEF RowsMove, Grows, DataTypeOK
  <2>3. terminated[q] => terminated'[q]
    BY <1>2
  <2>4. CASE q = p /\ t = s
    BY <1>1, <1>3, <2>1, <2>2, <2>3, <2>4 DEF DoneHeld
  <2>5. CASE ~(q = p /\ t = s)
    <3>1. work'[q][t] = work[q][t]
      BY <1>1, <1>3, <2>5
    <3> QED
      BY <2>1, <2>2, <2>3, <3>1 DEF DoneHeld
  <2> QED
    BY <2>4, <2>5
<1> QED
  BY <1>5, <1>6, <1>7, <1>8, <1>9 DEF DataInv, RowsMove

\* What a stream at work knows of its own cursor and batch.
LEMMA OwnWork ==
  ASSUME DataInv, NEW p \in Processes, NEW s \in Streams,
         NEW step \in {"read", "post", "state"}, Working(p, s, step), RowsMove
  PROVE  \E w \in Works :
           /\ w = work[p][s] /\ w.at = step
           /\ w.cursor \in 0..MaxRow /\ w.batch \in Seq(Rows) /\ w.attempts \in 0..MaxAttempts
           /\ \E n \in 0..Len(copy'[s]) : Reached(s, w.cursor, n)'
           /\ step = "post" => Fits(s, w.cursor, w.batch) /\ Fits(s, w.cursor, w.batch)'
<1>1. work[p][s] \in Works /\ work[p][s].at = step
  BY WorkingIs
<1>2. PICK w \in Works : w = work[p][s]
  BY <1>1
<1>3. w.cursor \in 0..MaxRow /\ w.batch \in Seq(Rows) /\ w.attempts \in 0..MaxAttempts
  BY DEF Works
<1>4. /\ \E n \in 0..Len(copy[s]) : Reached(s, w.cursor, n)
      /\ step = "post" => Fits(s, w.cursor, w.batch)
  BY <1>1, <1>2 DEF DataInv, WorkHeld
<1>5. DataTypeOK
  BY DEF DataInv
<1>6. /\ \E n \in 0..Len(copy'[s]) : Reached(s, w.cursor, n)'
      /\ step = "post" => Fits(s, w.cursor, w.batch)'
  <2>1. /\ (\E n \in 0..Len(copy[s]) : Reached(s, w.cursor, n)) =>
              \E n \in 0..Len(copy'[s]) : Reached(s, w.cursor, n)'
        /\ \A batch \in Seq(Rows) : Fits(s, w.cursor, batch) => Fits(s, w.cursor, batch)'
    BY <1>5, StillReached
  <2> QED
    BY <1>3, <1>4, <2>1
<1> QED
  BY <1>1, <1>2, <1>3, <1>4, <1>6

LEMMA FailMoves ==
  ASSUME DataInv, NEW p \in Processes, NEW s \in Streams,
         NEW step \in {"read", "post", "state"}, Working(p, s, step),
         RowsMove, run' = run, base' = base, Fail(p, s),
         late' \subseteq late \/ (step = "post" /\ late' \subseteq late \cup {InHand(p, s)})
  PROVE  DataInv'
<1>1. PICK w \in Works : w = [Idle EXCEPT !.at = "failed"]
  BY IdleIsTyped
<1>2. w.at = "failed" /\ w.cursor = 0
  BY <1>1 DEF Idle
<1>3. 0 \in 0..Len(copy'[s]) /\ Reached(s, w.cursor, 0)'
  <2>1. Len(copy'[s]) \in Nat
    BY LenProperties DEF RowsMove
  <2> QED
    BY <1>2, <2>1 DEF Reached
<1>4. SetWork(p, s, w) /\ terminated' = [terminated EXCEPT ![p] = TRUE]
  BY <1>1 DEF Fail
<1> QED
  BY <1>2, <1>3, <1>4, StreamMoves

LEMMA ReadRowsKeeps ==
  ASSUME DataInv, NEW p \in Processes, NEW s \in Streams, ReadRows(p, s)
  PROVE  DataInv'
<1>1. Working(p, s, "read") /\ UNCHANGED <<rows, copy, late, run, base>>
  BY DEF ReadRows, data
<1>2. RowsMove /\ DataTypeOK /\ CopyHeld(s)
  BY <1>1, RowsStay DEF DataInv
<1>3. PICK w \in Works :
        /\ w = work[p][s] /\ w.cursor \in 0..MaxRow
        /\ \E n \in 0..Len(copy'[s]) : Reached(s, w.cursor, n)'
  BY <1>1, <1>2, OwnWork
<1>4. PICK n \in 0..Len(copy[s]) : Reached(s, w.cursor, n)
  BY <1>3 DEF DataInv, WorkHeld
<1>5. PICK batch : batch = NextBatch(s, w.cursor)
  OBVIOUS
<1>6. batch \in Seq(Rows) /\ (batch = <<>> => Len(rows[s]) <= n)
      /\ (batch # <<>> => Follows(s, n, batch))
  BY <1>2, <1>4, <1>5, NextBatchFollows
<1>7. CASE /\ terminated[p] \/ batch = <<>>
           /\ SetWork(p, s, [w EXCEPT !.at = "done", !.attempts = 0])
           /\ UNCHANGED <<auth, terminated>>
  <2>1. PICK v \in Works : v = [w EXCEPT !.at = "done", !.attempts = 0]
    <3>1. 0 \in 0..MaxAttempts /\ "done" \in WorkSteps
      BY AttemptsBound DEF WorkSteps
    <3>2. [w EXCEPT !.at = "done", !.attempts = 0] \in Works
      BY <3>1 DEF Works
    <3> QED
      BY <3>2
  <2>2. v.at = "done" /\ v.cursor = w.cursor
    BY <2>1 DEF Works
  <2>3. terminated[p] \/ base[p][s] <= Len(copy'[s])
    <3>1. base[p][s] \in Nat /\ base[p][s] <= Len(rows[s])
      BY RowsBound DEF DataInv, DataTypeOK, DoneHeld
    <3>2. Len(rows[s]) \in Nat /\ Len(copy[s]) \in Nat /\ copy'[s] = copy[s]
      BY <1>1, <1>2, RowsType
    <3> QED
      BY <1>6, <1>7, <3>1, <3>2
  <2>4. SetWork(p, s, v)
    BY <1>7, <2>1
  <2> QED
    BY <1>1, <1>2, <1>3, <1>7, <2>2, <2>3, <2>4, StreamMoves
<1>8. CASE /\ ~terminated[p] /\ batch # <<>>
           /\ SetWork(p, s, [w EXCEPT !.at = "post", !.batch = batch])
           /\ UNCHANGED terminated
  <2>1. PICK v \in Works : v = [w EXCEPT !.at = "post", !.batch = batch]
    BY <1>6 DEF Works, WorkSteps
  <2>2. v.at = "post" /\ v.cursor = w.cursor /\ v.batch = batch
    BY <2>1 DEF Works
  <2>3. Fits(s, v.cursor, v.batch)'
    <3>1. Fits(s, v.cursor, v.batch)
      BY <1>4, <1>6, <1>8, <2>2 DEF Fits
    <3> QED
      BY <1>1, <3>1 DEF Fits, Reached, Follows
  <2>4. SetWork(p, s, v)
    BY <1>8, <2>1
  <2> QED
    BY <1>1, <1>2, <1>3, <1>8, <2>2, <2>3, <2>4, StreamMoves
<1>9. CASE Fail(p, s)
  BY <1>1, <1>2, <1>9, FailMoves
<1> QED
  BY <1>3, <1>5, <1>7, <1>8, <1>9 DEF ReadRows

\* A conflict or an unknown outcome, whatever the control plane stored.
LEMMA ReconcileKeeps ==
  ASSUME DataInv, NEW p \in Processes, NEW s \in Streams, Working(p, s, "post"),
         RowsMove, run' = run, base' = base, Reconcile(p, s),
         late' \subseteq late \cup {InHand(p, s)}
  PROVE  DataInv'
<1>1. PICK w \in Works :
        /\ w = work[p][s] /\ w.attempts \in 0..MaxAttempts
        /\ \E n \in 0..Len(copy'[s]) : Reached(s, w.cursor, n)'
  BY OwnWork
<1>2. CASE Fail(p, s)
  BY <1>2, FailMoves
<1>3. CASE /\ ~(w.attempts + 1 > MaxAttempts)
           /\ SetWork(p, s, [w EXCEPT !.at = "state", !.batch = <<>>, !.attempts = @ + 1])
           /\ UNCHANGED terminated
  <2>1. w.attempts + 1 \in 0..MaxAttempts /\ <<>> \in Seq(Rows)
    BY <1>1, <1>3, AttemptsBound, EmptySeq
  <2>2. PICK v \in Works : v = [w EXCEPT !.at = "state", !.batch = <<>>, !.attempts = @ + 1]
    BY <2>1 DEF Works, WorkSteps
  <2>3. v.at = "state" /\ v.cursor = w.cursor
    BY <2>2 DEF Works
  <2>4. SetWork(p, s, v)
    BY <1>3, <2>2
  <2> QED
    BY <1>1, <1>3, <2>3, <2>4, StreamMoves
<1> QED
  BY <1>1, <1>2, <1>3 DEF Reconcile

LEMMA AcceptedKeeps ==
  ASSUME DataInv, NEW p \in Processes, NEW s \in Streams, Accepted(p, s)
  PROVE  DataInv'
<1>1. Working(p, s, "post") /\ UNCHANGED <<rows, late, run, base>>
  BY DEF Accepted
<1>2. PICK w \in Works :
        /\ w = work[p][s] /\ w.batch \in Seq(Rows) /\ Fits(s, w.cursor, w.batch)
  <2>1. work[p][s] \in Works /\ work[p][s].at = "post"
    BY <1>1, WorkingIs
  <2> QED
    BY <2>1 DEF DataInv, WorkHeld, Works
<1>3. w.cursor = CursorOf(s)
  BY <1>2 DEF Accepted
<1>4. PICK n \in 1..Len(w.batch) :
        /\ Store(s, SubSeq(w.batch, 1, n))
        /\ IF n = Len(w.batch)
           THEN /\ SetWork(p, s, [Idle EXCEPT !.at = "read", !.cursor = Last(w.batch)])
                /\ UNCHANGED terminated
           ELSE Fail(p, s)
  BY <1>2 DEF Accepted
<1>5. /\ RowsMove /\ Len(copy'[s]) = Len(copy[s]) + n
      /\ copy'[s][Len(copy'[s])] = w.batch[n]
  BY <1>1, <1>2, <1>3, <1>4, StoreMoves
<1>6. CASE n = Len(w.batch)
  <2>1. Last(w.batch) = w.batch[n]
    BY <1>6 DEF Last
  <2>2. w.batch[n] \in 0..MaxRow
    <3>1. w.batch[n] \in Rows
      BY <1>2, <1>4, ElementOfSeq
    <3> QED
      BY <3>1, RowsBound DEF Rows
  <2>3. PICK v \in Works : v = [Idle EXCEPT !.at = "read", !.cursor = w.batch[n]]
    BY <2>2, IdleIsTyped DEF WorkSteps
  <2>4. v.at = "read" /\ v.cursor = w.batch[n]
    BY <2>3 DEF Idle
  <2>5. PICK m : m = Len(copy'[s])
    OBVIOUS
  <2>6. m \in 0..Len(copy'[s]) /\ Reached(s, v.cursor, m)'
    <3>1. Len(copy[s]) \in Nat /\ Len(copy'[s]) \in Nat /\ n \in Nat /\ n >= 1
      BY <1>2, <1>4, <1>5, LenProperties DEF RowsMove, DataInv, DataTypeOK
    <3>2. m # 0 /\ m \in 0..Len(copy'[s])
      BY <1>5, <2>5, <3>1
    <3>3. v.cursor = copy'[s][m]
      BY <1>5, <2>4, <2>5
    <3> QED
      BY <3>2, <3>3 DEF Reached
  <2>7. SetWork(p, s, v) /\ UNCHANGED terminated
    BY <1>4, <1>6, <2>1, <2>3
  <2> QED
    BY <1>1, <1>5, <2>4, <2>6, <2>7, StreamMoves
<1>7. CASE n # Len(w.batch)
  <2>1. Fail(p, s)
    BY <1>4, <1>7
  <2> QED
    BY <1>1, <1>5, <2>1, FailMoves
<1> QED
  BY <1>6, <1>7

LEMMA AmbiguousKeeps ==
  ASSUME DataInv, NEW p \in Processes, NEW s \in Streams, Ambiguous(p, s)
  PROVE  DataInv' /\ RowsMove
<1>1. Working(p, s, "post") /\ UNCHANGED <<rows, run, base>> /\ Reconcile(p, s)
  BY DEF Ambiguous
<1>2. work[p][s] \in Works /\ Fits(s, work[p][s].cursor, work[p][s].batch)
      /\ work[p][s].batch \in Seq(Rows)
  <2>1. work[p][s] \in Works /\ work[p][s].at = "post"
    BY <1>1, WorkingIs
  <2> QED
    BY <2>1 DEF DataInv, WorkHeld, Works
<1>3. CASE UNCHANGED copy /\ late' \subseteq late \cup {InHand(p, s)}
  BY <1>1, <1>3, RowsStay, ReconcileKeeps
<1>4. CASE /\ work[p][s].cursor = CursorOf(s)
           /\ Store(s, work[p][s].batch) /\ UNCHANGED late
  <2>1. PICK batch \in Seq(Rows) : batch = work[p][s].batch
    BY <1>2
  <2>2. Fits(s, CursorOf(s), batch) /\ batch # <<>>
    BY <1>2, <1>4, <2>1 DEF Fits, Follows
  <2>3. Len(batch) \in 1..Len(batch) /\ SubSeq(batch, 1, Len(batch)) = batch
    <3>1. Len(batch) \in Nat /\ Len(batch) # 0
      BY <2>2, EmptySeq
    <3> QED
      BY <3>1, SubSeqFull
  <2>4. RowsMove
    BY <1>1, <1>4, <2>1, <2>2, <2>3, StoreMoves
  <2> QED
    BY <1>1, <1>4, <2>4, ReconcileKeeps
<1> QED
  BY <1>3, <1>4 DEF Ambiguous

LEMMA RefreshCursorKeeps ==
  ASSUME DataInv, NEW p \in Processes, NEW s \in Streams, RefreshCursor(p, s)
  PROVE  DataInv'
<1>1. Working(p, s, "state") /\ UNCHANGED <<rows, copy, late, run, base, terminated>>
  BY DEF RefreshCursor, data
<1>2. RowsMove /\ work[p][s] \in Works
  BY <1>1, RowsStay, WorkingIs
<1>3. PICK cursor : cursor = CursorOf(s)
  OBVIOUS
<1>4. PICK n : n = Len(copy[s])
  OBVIOUS
<1>5. cursor \in 0..MaxRow /\ Reached(s, cursor, n) /\ n \in Nat
  BY <1>3, <1>4, CursorOfIs, RowsType DEF DataInv
<1>6. PICK v \in Works : v = [work[p][s] EXCEPT !.at = "read", !.cursor = cursor]
  BY <1>2, <1>5 DEF Works, WorkSteps
<1>7. v.at = "read" /\ v.cursor = cursor
  BY <1>2, <1>6 DEF Works
<1>8. n \in 0..Len(copy'[s]) /\ Reached(s, v.cursor, n)'
  BY <1>1, <1>4, <1>5, <1>7 DEF Reached
<1>9. SetWork(p, s, v)
  BY <1>3, <1>6 DEF RefreshCursor
<1> QED
  BY <1>1, <1>2, <1>7, <1>8, <1>9, StreamMoves

LEMMA StreamStepKeeps ==
  ASSUME DataInv, NEW p \in Processes, NEW s \in Streams, StreamStep(p, s)
  PROVE  DataInv'
<1>1. CASE ReadRows(p, s)
  BY <1>1, ReadRowsKeeps
<1>2. CASE Accepted(p, s)
  BY <1>2, AcceptedKeeps
<1>3. CASE Conflict(p, s)
  <2>1. /\ Working(p, s, "post") /\ Reconcile(p, s)
        /\ UNCHANGED <<rows, copy, late, run, base>>
    BY <1>3 DEF Conflict, data
  <2> QED
    BY <2>1, RowsStay, ReconcileKeeps
<1>4. CASE Ambiguous(p, s)
  BY <1>4, AmbiguousKeeps
<1>5. CASE Terminal(p, s)
  <2>1. Working(p, s, "post") /\ Fail(p, s) /\ UNCHANGED <<rows, copy, late, run, base>>
    BY <1>5 DEF Terminal, data
  <2> QED
    BY <2>1, RowsStay, FailMoves
<1>6. CASE RefreshCursor(p, s)
  BY <1>6, RefreshCursorKeeps
<1>7. CASE RefreshCursorFails(p, s)
  <2>1. Working(p, s, "state") /\ Fail(p, s) /\ UNCHANGED <<rows, copy, late, run, base>>
    BY <1>7 DEF RefreshCursorFails, data
  <2> QED
    BY <2>1, RowsStay, FailMoves
<1> QED
  BY <1>1, <1>2, <1>3, <1>4, <1>5, <1>6, <1>7 DEF StreamStep

-----------------------------------------------------------------------------
(* One process.                                                            *)

\* A process goes on to r, with new machines for its callers and a new base.
NewRun(p, r, ws, bs) ==
  /\ run' = [run EXCEPT ![p] = r] /\ r \in RunSteps \ {"off"}
  /\ work' = [work EXCEPT ![p] = ws] /\ ws \in [Callers -> Works]
  /\ terminated' = [terminated EXCEPT ![p] = FALSE]
  /\ base' = [base EXCEPT ![p] = bs] /\ bs \in [Streams -> 0..MaxRow]
  /\ \A s \in Streams : bs[s] <= Len(rows[s])
  /\ r = "ok" => \A s \in Streams : bs[s] <= Len(copy[s])
  /\ r = "state" => ws[Main].at \in {"state", "failed"} /\ \A s \in Streams : ws[s] = Idle
  /\ r = "streams" => ws[Main].at = "idle" /\ \A s \in Streams : ws[s].at # "idle"
  /\ \A s \in Streams : ws[s].at \notin {"post", "done"} /\ ws[s].cursor \in {0, CursorOf(s)}

LEMMA ProcessMoves ==
  ASSUME DataInv, NEW p \in Processes, UNCHANGED <<rows, copy>>,
         late' \subseteq late \/ \E s \in Streams : Working(p, s, "post") /\ late' = {InHand(p, s)},
         NEW r, NEW ws, NEW bs, NewRun(p, r, ws, bs)
  PROVE  DataInv'
<1> USE DEF NewRun
<1>1. DataTypeOK /\ RowsMove
  BY RowsStay DEF DataInv
<1>2. /\ work \in [Processes -> [Callers -> Works]] /\ run \in [Processes -> RunSteps]
      /\ terminated \in [Processes -> BOOLEAN] /\ base \in [Processes -> [Streams -> 0..MaxRow]]
      /\ Streams \subseteq Callers /\ Main \notin Streams /\ Main \in Callers
  BY <1>1, StreamsAreCallers, MainIsACaller DEF DataTypeOK, Works
<1>3. /\ work'[p] = ws /\ run'[p] = r /\ ~terminated'[p] /\ base'[p] = bs
      /\ \A q \in Processes \ {p} : /\ work'[q] = work[q] /\ run'[q] = run[q]
                                    /\ terminated'[q] = terminated[q] /\ base'[q] = base[q]
  BY <1>2
<1>4. ASSUME NEW m \in late'
      PROVE  /\ m \in [stream : Streams, expected : 0..MaxRow, batch : Seq(Rows)]
             /\ Fits(m.stream, m.expected, m.batch)'
  <2>1. CASE m \in late
    BY <1>1, <2>1, LateStillFits
  <2>2. CASE \E s \in Streams : Working(p, s, "post") /\ m = InHand(p, s)
    <3>1. PICK s \in Streams : Working(p, s, "post") /\ m = InHand(p, s)
      BY <2>2
    <3>2. PICK w \in Works :
            /\ w = work[p][s] /\ w.cursor \in 0..MaxRow /\ w.batch \in Seq(Rows)
            /\ Fits(s, w.cursor, w.batch)'
      BY <1>1, <3>1, OwnWork
    <3>3. m.stream = s /\ m.expected = w.cursor /\ m.batch = w.batch
          /\ m \in [stream : Streams, expected : 0..MaxRow, batch : Seq(Rows)]
      BY <3>1, <3>2 DEF InHand
    <3> QED
      BY <3>2, <3>3
  <2> QED
    BY <1>4, <2>1, <2>2
<1>5. DataTypeOK'
  <2>1. late' \subseteq [stream : Streams, expected : 0..MaxRow, batch : Seq(Rows)]
    BY <1>4
  <2>2. /\ work' \in [Processes -> [Callers -> Works]] /\ run' \in [Processes -> RunSteps]
        /\ terminated' \in [Processes -> BOOLEAN]
        /\ base' \in [Processes -> [Streams -> 0..MaxRow]]
    BY <1>2
  <2> QED
    BY <1>1, <2>1, <2>2 DEF DataTypeOK, Works
<1>6. LateHeld'
  BY <1>4 DEF LateHeld
<1>7. ASSUME NEW q \in Processes, NEW s \in Streams PROVE WorkHeld(q, s)'
  <2>1. CASE q = p
    <3>1. PICK cursor : cursor = ws[s].cursor
      OBVIOUS
    <3>2. \E n \in 0..Len(copy[s]) : Reached(s, cursor, n)
      <4>1. CASE cursor = 0
        <5>1. 0 \in 0..Len(copy[s]) /\ Reached(s, cursor, 0)
          BY <1>1, <4>1, RowsType DEF Reached
        <5> QED
          BY <5>1
      <4>2. CASE cursor = CursorOf(s)
        <5>1. Len(copy[s]) \in 0..Len(copy[s]) /\ Reached(s, cursor, Len(copy[s]))
          BY <1>1, <4>2, CursorOfIs, RowsType DEF DataInv
        <5> QED
          BY <5>1
      <4> QED
        BY <3>1, <4>1, <4>2
    <3>3. \E n \in 0..Len(copy'[s]) : Reached(s, cursor, n)'
      BY <1>1, <3>2, StillReached
    <3> QED
      BY <1>2, <1>3, <2>1, <3>1, <3>3 DEF WorkHeld, Reached
  <2>2. CASE q # p
    <3>1. work'[q][s] = work[q][s]
      BY <1>3, <2>2
    <3> QED
      BY <1>1, <3>1, WorkStillHeld
  <2> QED
    BY <2>1, <2>2
<1>8. ASSUME NEW q \in Processes PROVE RunHeld(q)'
  <2>1. CASE q = p
    BY <1>3, <2>1 DEF RunHeld
  <2>2. CASE q # p
    <3>1. RunHeld(q)
      BY DEF DataInv
    <3> QED
      BY <1>3, <2>2, <3>1 DEF RunHeld, Failed
  <2> QED
    BY <2>1, <2>2
<1>9. ASSUME NEW q \in Processes, NEW s \in Streams PROVE DoneHeld(q, s)'
  <2>1. CASE q = p
    BY <1>3, <2>1 DEF DoneHeld
  <2>2. CASE q # p
    <3>1. DoneHeld(q, s)
      BY DEF DataInv
    <3> QED
      BY <1>3, <2>2, <3>1 DEF DoneHeld
  <2> QED
    BY <2>1, <2>2
<1>10. \A s \in Streams : CopyHeld(s)'
  BY <1>1 DEF RowsMove
<1> QED
  BY <1>5, <1>6, <1>7, <1>8, <1>9, <1>10 DEF DataInv

LEMMA RunSyncKeeps ==
  ASSUME DataInv, NEW p \in Processes, RunSync(p)
  PROVE  DataInv'
<1>1. DataTypeOK /\ UNCHANGED <<rows, copy, late>> /\ run[p] = "off" /\ RunHeld(p)
      /\ Main \in Callers /\ Streams \subseteq Callers /\ Main \notin Streams
  BY MainIsACaller, StreamsAreCallers DEF DataInv, RunSync, data
<1>2. PICK ws : ws = [work[p] EXCEPT ![Main] = [Idle EXCEPT !.at = "state"]]
  OBVIOUS
<1>3. [Idle EXCEPT !.at = "state"] \in Works /\ [Idle EXCEPT !.at = "state"].at = "state"
  BY IdleIsTyped DEF Idle
<1>4. work[p] \in [Callers -> Works] /\ work \in [Processes -> [Callers -> Works]]
      /\ terminated \in [Processes -> BOOLEAN]
  BY <1>1 DEF DataTypeOK, Works
<1>5. ws \in [Callers -> Works] /\ ws[Main].at = "state"
      /\ \A c \in Callers \ {Main} : ws[c] = work[p][c]
  BY <1>1, <1>2, <1>3, <1>4
<1>6. work' = [work EXCEPT ![p] = ws]
  BY <1>2, <1>4 DEF RunSync, SetWork
<1>7. PICK bs : bs = [s \in Streams |-> Len(rows[s])]
  OBVIOUS
<1>8. bs \in [Streams -> 0..MaxRow] /\ \A s \in Streams : bs[s] <= Len(rows[s])
  <2>1. \A s \in Streams : Len(rows[s]) \in 0..MaxRow
    BY <1>1, RowsType, SortedIsShort DEF DataInv, CopyHeld
  <2> QED
    BY <1>7, <2>1
<1>9. terminated' = [terminated EXCEPT ![p] = FALSE]
  <2>1. terminated' = terminated /\ terminated[p] = FALSE
    BY <1>1, <1>4 DEF RunSync, RunHeld
  <2> QED
    BY <1>4, <2>1
<1>10. \A s \in Streams : work[p][s] = Idle
  BY <1>1 DEF RunHeld
<1>11. run' = [run EXCEPT ![p] = "state"] /\ base' = [base EXCEPT ![p] = bs] /\ "state" \in RunSteps \ {"off"}
  BY <1>7 DEF RunSync, RunSteps
<1>12. \A s \in Streams : ws[s] = Idle /\ ws[s].at = "idle" /\ ws[s].cursor = 0
  BY <1>1, <1>5, <1>10, IdleIsTyped
<1>13. NewRun(p, "state", ws, bs)
  BY <1>5, <1>6, <1>8, <1>9, <1>11, <1>12 DEF NewRun
<1> QED
  BY <1>1, <1>13, ProcessMoves

LEMMA StateAnsweredKeeps ==
  ASSUME DataInv, NEW p \in Processes, StateAnswered(p)
  PROVE  DataInv'
<1>1. DataTypeOK /\ UNCHANGED <<rows, copy, late, terminated, base>> /\ RunHeld(p)
      /\ Main \in Callers /\ Streams \subseteq Callers /\ Main \notin Streams
  BY MainIsACaller, StreamsAreCallers DEF DataInv, StateAnswered, data
<1>2. run[p] = "state"
  BY <1>1 DEF StateAnswered, Working, RunHeld
<1>3. PICK ws : ws = [c \in Callers |->
                        IF c \in Streams
                        THEN [Idle EXCEPT !.at = "read", !.cursor = CursorOf(c)] ELSE Idle]
  OBVIOUS
<1>4. ASSUME NEW s \in Streams
      PROVE  /\ [Idle EXCEPT !.at = "read", !.cursor = CursorOf(s)] \in Works
             /\ [Idle EXCEPT !.at = "read", !.cursor = CursorOf(s)].at = "read"
             /\ [Idle EXCEPT !.at = "read", !.cursor = CursorOf(s)].cursor = CursorOf(s)
  <2>1. CursorOf(s) \in 0..MaxRow /\ "read" \in WorkSteps
    BY <1>1, CursorOfIs DEF DataInv, WorkSteps
  <2>2. [Idle EXCEPT !.at = "read", !.cursor = CursorOf(s)] \in Works
    BY <2>1, IdleIsTyped
  <2> QED
    BY <2>2 DEF Idle
<1>5. ws \in [Callers -> Works]
  <2>1. \A c \in Callers : ws[c] \in Works
    BY <1>3, <1>4, IdleIsTyped
  <2> QED
    BY <1>3, <2>1
<1>6. ws[Main].at = "idle"
      /\ \A s \in Streams : ws[s].at = "read" /\ ws[s].cursor = CursorOf(s)
  BY <1>1, <1>3, <1>4, IdleIsTyped
<1>7. terminated' = [terminated EXCEPT ![p] = FALSE]
  <2>1. terminated' = terminated /\ terminated[p] = FALSE
        /\ terminated \in [Processes -> BOOLEAN]
    BY <1>1, <1>2 DEF RunHeld, DataTypeOK
  <2> QED
    BY <2>1
<1>8. PICK bs \in [Streams -> 0..MaxRow] : bs = base[p]
  BY <1>1 DEF DataTypeOK
<1>9. base' = [base EXCEPT ![p] = bs] /\ \A s \in Streams : bs[s] <= Len(rows[s])
  BY <1>1, <1>8 DEF DataTypeOK, DataInv, DoneHeld
<1>10. work' = [work EXCEPT ![p] = ws] /\ run' = [run EXCEPT ![p] = "streams"]
       /\ "streams" \in RunSteps \ {"off"}
  BY <1>3 DEF StateAnswered, RunSteps
<1>11. NewRun(p, "streams", ws, bs)
  BY <1>5, <1>6, <1>7, <1>8, <1>9, <1>10 DEF NewRun
<1> QED
  BY <1>1, <1>11, ProcessMoves

LEMMA StateFailsKeeps ==
  ASSUME DataInv, NEW p \in Processes, StateFails(p)
  PROVE  DataInv'
<1>1. DataTypeOK /\ UNCHANGED <<rows, copy, late, run, terminated, base>> /\ RunHeld(p)
      /\ Main \in Callers /\ Streams \subseteq Callers /\ Main \notin Streams
  BY MainIsACaller, StreamsAreCallers DEF DataInv, StateFails, data
<1>2. run[p] = "state"
  BY <1>1 DEF StateFails, Working, RunHeld
<1>3. PICK ws : ws = [work[p] EXCEPT ![Main] = [Idle EXCEPT !.at = "failed"]]
  OBVIOUS
<1>4. /\ work[p] \in [Callers -> Works] /\ work \in [Processes -> [Callers -> Works]]
      /\ run \in [Processes -> RunSteps]
      /\ [Idle EXCEPT !.at = "failed"] \in Works /\ [Idle EXCEPT !.at = "failed"].at = "failed"
  BY <1>1, IdleIsTyped DEF DataTypeOK, Works, Idle
<1>5. ws \in [Callers -> Works] /\ ws[Main].at = "failed"
      /\ \A s \in Streams : ws[s] = Idle
  BY <1>1, <1>2, <1>3, <1>4 DEF RunHeld
<1>6. work' = [work EXCEPT ![p] = ws]
  BY <1>3, <1>4 DEF StateFails, SetWork
<1>7. terminated' = [terminated EXCEPT ![p] = FALSE]
  <2>1. terminated' = terminated /\ terminated[p] = FALSE
        /\ terminated \in [Processes -> BOOLEAN]
    BY <1>1, <1>2 DEF RunHeld, DataTypeOK
  <2> QED
    BY <2>1
<1>8. PICK bs \in [Streams -> 0..MaxRow] : bs = base[p]
  BY <1>1 DEF DataTypeOK
<1>9. base' = [base EXCEPT ![p] = bs] /\ \A s \in Streams : bs[s] <= Len(rows[s])
  BY <1>1, <1>8 DEF DataTypeOK, DataInv, DoneHeld
<1>10. run' = [run EXCEPT ![p] = "state"] /\ "state" \in RunSteps \ {"off"}
  BY <1>1, <1>2, <1>4 DEF RunSteps
<1>11. \A s \in Streams : ws[s].at = "idle" /\ ws[s].cursor = 0
  BY <1>5, IdleIsTyped
<1>12. NewRun(p, "state", ws, bs)
  BY <1>5, <1>6, <1>7, <1>8, <1>9, <1>10, <1>11 DEF NewRun
<1> QED
  BY <1>1, <1>12, ProcessMoves

\* A run ends: what it reports, if it is a success, is true.
LEMMA EndRunKeeps ==
  ASSUME DataInv, NEW p \in Processes, NEW result \in {"ok", "error", "killed"},
         EndRun(p, result), UNCHANGED <<rows, copy>>,
         late' \subseteq late \/ \E s \in Streams : Working(p, s, "post") /\ late' = {InHand(p, s)},
         \/ Forget(p)
         \/ base' = base /\ \A s \in Streams : base[p][s] <= Len(copy[s])
  PROVE  DataInv'
<1>1. DataTypeOK
  BY DEF DataInv
<1>2. PICK ws : ws = [c \in Callers |-> Idle]
  OBVIOUS
<1>3. ws \in [Callers -> Works]
      /\ \A s \in Streams : ws[s] = Idle /\ ws[s].at = "idle" /\ ws[s].cursor = 0
  BY <1>2, IdleIsTyped, StreamsAreCallers
<1>4. /\ run' = [run EXCEPT ![p] = result] /\ result \in RunSteps \ {"off"}
      /\ result # "state" /\ result # "streams"
      /\ work' = [work EXCEPT ![p] = ws] /\ terminated' = [terminated EXCEPT ![p] = FALSE]
  BY <1>2 DEF EndRun, RunSteps
<1>5. PICK bs : bs = base'[p]
  OBVIOUS
<1>6. base \in [Processes -> [Streams -> 0..MaxRow]]
      /\ \A s \in Streams : Len(rows[s]) \in Nat /\ Len(copy[s]) \in Nat
                         /\ base[p][s] <= Len(rows[s])
  BY <1>1, RowsType DEF DataTypeOK, DataInv, DoneHeld
<1>7. /\ bs \in [Streams -> 0..MaxRow] /\ base' = [base EXCEPT ![p] = bs]
      /\ \A s \in Streams : bs[s] <= Len(rows[s]) /\ bs[s] <= Len(copy[s])
  <2>1. CASE Forget(p)
    <3>1. PICK zero : zero = [s \in Streams |-> 0]
      OBVIOUS
    <3>2. bs = zero
      BY <1>5, <1>6, <2>1, <3>1 DEF Forget
    <3> QED
      BY <1>6, <2>1, <3>1, <3>2, RowsBound DEF Forget
  <2>2. CASE base' = base /\ \A s \in Streams : base[p][s] <= Len(copy[s])
    BY <1>5, <1>6, <2>2
  <2> QED
    BY <2>1, <2>2
<1>8. NewRun(p, result, ws, bs)
  BY <1>3, <1>4, <1>7 DEF NewRun
<1> QED
  BY <1>8, ProcessMoves

LEMMA ReturnResultKeeps ==
  ASSUME DataInv, NEW p \in Processes, ReturnResult(p)
  PROVE  DataInv'
<1>1. UNCHANGED <<rows, copy, late>> /\ run[p] \in {"state", "streams"} /\ Joined(p)
      /\ DataTypeOK /\ RunHeld(p) /\ Main \in Callers /\ Streams \subseteq Callers
  BY MainIsACaller, StreamsAreCallers DEF ReturnResult, data, DataInv
<1>2. CASE Failed(p)
  BY <1>1, <1>2, EndRunKeeps DEF ReturnResult
<1>3. CASE ~Failed(p)
  <2>1. run[p] = "streams" /\ ~terminated[p]
    BY <1>1, <1>3 DEF RunHeld, Joined, Failed
  <2>2. \A s \in Streams : work[p][s].at = "done"
    BY <1>1, <1>3, <2>1 DEF RunHeld, Joined, Failed
  <2>3. \A s \in Streams : base[p][s] <= Len(copy[s])
    BY <2>1, <2>2 DEF DataInv, DoneHeld
  <2> QED
    BY <1>1, <1>3, <2>3, EndRunKeeps DEF ReturnResult
<1> QED
  BY <1>2, <1>3

LEMMA KillKeeps ==
  ASSUME DataInv, NEW p \in Processes, Kill(p)
  PROVE  DataInv'
<1>1. late' \subseteq late \/ \E s \in Streams : Working(p, s, "post") /\ late' = {InHand(p, s)}
  BY DEF Kill
<1>2. UNCHANGED <<rows, copy>> /\ EndRun(p, "killed") /\ Forget(p)
  BY DEF Kill
<1> QED
  BY <1>1, <1>2, EndRunKeeps

-----------------------------------------------------------------------------
(* The rest of the world.                                                  *)

\* The rows or the copies grow, and no process moves.
LEMMA WorldMoves ==
  ASSUME DataInv, RowsMove, UNCHANGED <<run, work, terminated, base>>, late' \subseteq late
  PROVE  DataInv'
<1>1. DataTypeOK
  BY DEF DataInv
<1>2. \A m \in late' : Fits(m.stream, m.expected, m.batch)'
  BY LateStillFits
<1>3. DataTypeOK'
  BY <1>1 DEF DataTypeOK, RowsMove
<1>4. ASSUME NEW p \in Processes, NEW s \in Streams PROVE WorkHeld(p, s)'
  BY WorkStillHeld
<1>5. ASSUME NEW p \in Processes PROVE RunHeld(p)'
  BY DEF DataInv, RunHeld, Failed
<1>6. ASSUME NEW p \in Processes, NEW s \in Streams PROVE DoneHeld(p, s)'
  <2>1. DoneHeld(p, s) /\ base[p][s] \in Nat
    BY <1>1, RowsBound DEF DataInv, DataTypeOK
  <2>2. /\ Len(copy[s]) <= Len(copy'[s]) /\ Len(rows[s]) <= Len(rows'[s])
        /\ Len(copy[s]) \in Nat /\ Len(copy'[s]) \in Nat
        /\ Len(rows[s]) \in Nat /\ Len(rows'[s]) \in Nat
    BY <1>1, LenProperties DEF RowsMove, Grows, DataTypeOK
  <2> QED
    BY <2>1, <2>2 DEF DoneHeld
<1> QED
  BY <1>2, <1>3, <1>4, <1>5, <1>6 DEF DataInv, LateHeld, RowsMove

LEMMA CaptureRowKeeps ==
  ASSUME DataInv, NEW s \in Streams, NEW r \in Rows, CaptureRow(s, r)
  PROVE  DataInv'
<1>1. DataTypeOK /\ UNCHANGED <<copy, late, run, work, terminated, base>>
  BY DEF DataInv, CaptureRow
<1>2. rows' = [rows EXCEPT ![s] = Append(rows[s], r)] /\ rows \in [Streams -> Seq(Rows)]
      /\ \A i \in DOMAIN rows[s] : rows[s][i] < r
  BY <1>1 DEF CaptureRow, DataTypeOK
<1>3. rows[s] \in Seq(Rows) /\ Len(rows[s]) \in Nat /\ DOMAIN rows[s] = 1..Len(rows[s])
  BY <1>1, RowsType
<1>4. PICK ids : ids = Append(rows[s], r)
  OBVIOUS
<1>5. /\ ids \in Seq(Rows) /\ Len(ids) = Len(rows[s]) + 1 /\ DOMAIN ids = 1..Len(rows[s]) + 1
      /\ \A i \in 1..Len(rows[s]) : ids[i] = rows[s][i]
      /\ ids[Len(rows[s]) + 1] = r
  BY <1>3, <1>4, AppendProperties, LenProperties
<1>6. rows'[s] = ids /\ rows' \in [Streams -> Seq(Rows)]
      /\ \A t \in Streams \ {s} : rows'[t] = rows[t]
  BY <1>2, <1>4, <1>5
<1>7. Sorted(ids)
  <2> SUFFICES ASSUME NEW i \in DOMAIN ids, NEW j \in DOMAIN ids, i < j PROVE ids[i] < ids[j]
    BY DEF Sorted
  <2>1. i \in 1..Len(rows[s])
    BY <1>3, <1>5
  <2>2. CASE j = Len(rows[s]) + 1
    BY <1>2, <1>3, <1>5, <2>1, <2>2
  <2>3. CASE j # Len(rows[s]) + 1
    <3>1. j \in 1..Len(rows[s])
      BY <1>3, <1>5, <2>3
    <3>2. rows[s][i] < rows[s][j]
      BY <1>3, <2>1, <3>1 DEF DataInv, CopyHeld, Sorted
    <3> QED
      BY <1>5, <2>1, <3>1, <3>2
  <2> QED
    BY <2>2, <2>3
<1>8. \A t \in Streams : CopyHeld(t)'
  <2> SUFFICES ASSUME NEW t \in Streams PROVE CopyHeld(t)'
    OBVIOUS
  <2>1. CopyHeld(t) /\ Len(copy[t]) \in Nat
    BY <1>1, RowsType DEF DataInv
  <2>2. CASE t = s
    <3>1. Len(copy[s]) <= Len(rows[s])
      BY <2>1, <2>2 DEF CopyHeld
    <3>2. \A i \in 1..Len(copy[s]) : i \in 1..Len(rows[s])
      BY <1>3, <2>1, <2>2, <3>1
    <3> QED
      BY <1>1, <1>3, <1>5, <1>6, <1>7, <2>1, <2>2, <3>1, <3>2 DEF CopyHeld
  <2>3. CASE t # s
    BY <1>1, <1>6, <2>1, <2>3 DEF CopyHeld
  <2> QED
    BY <2>2, <2>3
<1>9. Grows
  <2> SUFFICES ASSUME NEW t \in Streams
               PROVE  /\ Len(rows[t]) <= Len(rows'[t])
                      /\ \A i \in 1..Len(rows[t]) : rows'[t][i] = rows[t][i]
    BY <1>1, RowsType DEF Grows
  <2>1. CASE t = s
    BY <1>3, <1>5, <1>6, <2>1
  <2>2. CASE t # s
    BY <1>1, <1>6, <2>2, RowsType
  <2> QED
    BY <2>1, <2>2
<1>10. RowsMove
  BY <1>1, <1>6, <1>8, <1>9 DEF RowsMove, DataTypeOK
<1> QED
  BY <1>1, <1>10, WorldMoves

LEMMA LateBatchArrivesKeeps ==
  ASSUME DataInv, NEW m \in late, LateBatchArrives(m)
  PROVE  DataInv' /\ RowsMove
<1>1. late' \subseteq late /\ UNCHANGED <<rows, run, work, terminated, base>>
  BY DEF LateBatchArrives
<1>2. /\ m.stream \in Streams /\ m.batch \in Seq(Rows) /\ Fits(m.stream, m.expected, m.batch)
  BY DEF DataInv, DataTypeOK, LateHeld
<1>3. CASE m.expected = CursorOf(m.stream)
  <2>1. PICK s \in Streams, batch \in Seq(Rows) : s = m.stream /\ batch = m.batch
    BY <1>2
  <2>2. Fits(s, CursorOf(s), batch) /\ batch # <<>> /\ Store(s, batch)
    BY <1>2, <1>3, <2>1 DEF LateBatchArrives, Fits, Follows
  <2>3. Len(batch) \in 1..Len(batch) /\ SubSeq(batch, 1, Len(batch)) = batch
    <3>1. Len(batch) \in Nat /\ Len(batch) # 0
      BY <2>2, EmptySeq
    <3> QED
      BY <3>1, SubSeqFull
  <2>4. RowsMove
    BY <1>1, <2>2, <2>3, StoreMoves
  <2> QED
    BY <1>1, <2>4, WorldMoves
<1>4. CASE m.expected # CursorOf(m.stream)
  <2>1. RowsMove
    BY <1>1, <1>4, RowsStay DEF LateBatchArrives
  <2> QED
    BY <1>1, <2>1, WorldMoves
<1> QED
  BY <1>3, <1>4

LEMMA InitData ==
  ASSUME Init
  PROVE  DataInv
<1>1. /\ late = {} /\ \A p \in Processes : run[p] = "off"
      /\ run = [p \in Processes |-> "off"]
      /\ work = [p \in Processes |-> [c \in Callers |-> Idle]]
      /\ terminated = [p \in Processes |-> FALSE]
      /\ base = [p \in Processes |-> [s \in Streams |-> 0]]
      /\ rows \in [Streams -> Increasing] /\ copy \in [Streams -> Increasing]
      /\ \A s \in Streams : IsPrefix(copy[s], rows[s])
  BY DEF Init
<1>2. ASSUME NEW ids \in Increasing
      PROVE  ids \in Seq(Rows) /\ Sorted(ids)
  <2>1. ids \in BoundedSeq(Rows, MaxRow) /\ Sorted(ids)
    BY DEF Increasing, Sorted
  <2>2. PICK n \in 0..MaxRow : ids \in [1..n -> Rows]
    BY <2>1 DEF BoundedSeq, SeqOf
  <2>3. n \in Nat
    BY RowsBound
  <2>4. ids \in Seq(Rows)
    BY <2>2, <2>3, SeqDef
  <2> QED
    BY <2>1, <2>4
<1>3. DataTypeOK
  <2>1. rows \in [Streams -> Seq(Rows)] /\ copy \in [Streams -> Seq(Rows)]
    BY <1>1, <1>2
  <2>2. work \in [Processes -> [Callers -> Works]]
    BY <1>1, IdleIsTyped
  <2>3. base \in [Processes -> [Streams -> 0..MaxRow]]
    BY <1>1, RowsBound
  <2>4. run \in [Processes -> RunSteps] /\ terminated \in [Processes -> BOOLEAN]
    BY <1>1 DEF RunSteps
  <2> QED
    BY <1>1, <2>1, <2>2, <2>3, <2>4 DEF DataTypeOK, Works
<1>4. ASSUME NEW s \in Streams PROVE CopyHeld(s)
  <2>1. /\ rows[s] \in Seq(Rows) /\ copy[s] \in Seq(Rows) /\ Sorted(rows[s])
        /\ Len(copy[s]) \in Nat /\ Len(rows[s]) \in Nat
    BY <1>1, <1>2, <1>3, RowsType
  <2>2. Len(copy[s]) <= Len(rows[s])
        /\ SubSeq(copy[s], 1, Len(copy[s])) = SubSeq(rows[s], 1, Len(copy[s]))
    BY <1>1 DEF IsPrefix
  <2>3. ASSUME NEW ids \in Seq(Rows), Len(copy[s]) <= Len(ids)
        PROVE  \A i \in 1..Len(copy[s]) : SubSeq(ids, 1, Len(copy[s]))[i] = ids[i]
    <3>1. Len(ids) \in Nat /\ \A i \in 1..Len(copy[s]) : ids[i] \in Rows
      BY <2>1, <2>3, ElementOfSeq, LenProperties
    <3>2. \A i \in 1..Len(copy[s]) - 1 + 1 : SubSeq(ids, 1, Len(copy[s]))[i] = ids[1 + i - 1]
      BY <2>1, <3>1, SubSeqProperties
    <3>3. Len(copy[s]) - 1 + 1 = Len(copy[s]) /\ \A i \in 1..Len(copy[s]) : 1 + i - 1 = i
      BY <2>1
    <3> QED
      BY <3>2, <3>3
  <2>4. /\ \A i \in 1..Len(copy[s]) : SubSeq(copy[s], 1, Len(copy[s]))[i] = copy[s][i]
        /\ \A i \in 1..Len(copy[s]) : SubSeq(rows[s], 1, Len(copy[s]))[i] = rows[s][i]
    BY <2>1, <2>2, <2>3
  <2> QED
    BY <2>1, <2>2, <2>4 DEF CopyHeld
<1>5. ASSUME NEW p \in Processes, NEW s \in Streams
      PROVE  work[p][s] = Idle /\ WorkHeld(p, s) /\ DoneHeld(p, s)
  <2>1. work[p][s] = Idle /\ base[p][s] = 0 /\ run[p] = "off"
    BY <1>1, StreamsAreCallers
  <2>2. Len(copy[s]) \in Nat /\ Len(rows[s]) \in Nat
    BY <1>3, RowsType
  <2>3. work[p][s].cursor = 0 /\ work[p][s].at = "idle"
    BY <2>1 DEF Idle
  <2>4. 0 \in 0..Len(copy[s]) /\ Reached(s, work[p][s].cursor, 0)
    BY <2>2, <2>3 DEF Reached
  <2>5. WorkHeld(p, s)
    BY <2>3, <2>4 DEF WorkHeld
  <2>6. DoneHeld(p, s)
    BY <2>1, <2>2 DEF DoneHeld
  <2> QED
    BY <2>1, <2>5, <2>6
<1>6. ASSUME NEW p \in Processes PROVE RunHeld(p)
  BY <1>1, <1>5 DEF RunHeld
<1> QED
  BY <1>1, <1>3, <1>4, <1>5, <1>6 DEF DataInv, LateHeld

LEMMA NextKeepsData ==
  ASSUME DataInv, layout \in Layouts, [Next]_vars
  PROVE  DataInv'
<1>0. /\ layout.syncs \subseteq Processes /\ layout.streams \subseteq Streams
      /\ 1..layout.last \subseteq Rows
  BY LayoutsAreSound, RowsBound DEF Rows
<1>1. UNCHANGED syncVars => DataInv'
  <2>1. UNCHANGED syncVars => UNCHANGED <<rows, copy, late, run, work, terminated, base>>
    BY DEF syncVars, data
  <2> QED
    BY <2>1, RowsStay, WorldMoves
<1>2. UNCHANGED vars => DataInv'
  BY <1>1 DEF vars
<1>3. ASSUME NEW p \in layout.syncs, SyncStep(p) \/ Kill(p)
      PROVE  DataInv'
  <2>0. p \in Processes
    BY <1>0
  <2>1. CASE RunSync(p)
    BY <2>0, <2>1, RunSyncKeeps
  <2>2. CASE StateAnswered(p)
    BY <2>0, <2>2, StateAnsweredKeeps
  <2>3. CASE StateFails(p)
    BY <2>0, <2>3, StateFailsKeeps
  <2>4. CASE ReturnResult(p)
    BY <2>0, <2>4, ReturnResultKeeps
  <2>5. CASE \E s \in Streams : StreamStep(p, s)
    BY <2>0, <2>5, StreamStepKeeps
  <2>6. CASE Kill(p)
    BY <2>0, <2>6, KillKeeps
  <2> QED
    BY <1>1, <1>3, <2>1, <2>2, <2>3, <2>4, <2>5, <2>6 DEF SyncStep
<1>4. ASSUME NEW s \in layout.streams, NEW r \in 1..layout.last, CaptureRow(s, r)
      PROVE  DataInv'
  BY <1>0, <1>4, CaptureRowKeeps
<1>5. ASSUME NEW m \in late, LateBatchArrives(m) PROVE DataInv'
  BY <1>5, LateBatchArrivesKeeps
<1>6. TokensExpire => UNCHANGED syncVars
  BY DEF TokensExpire
<1> QED
  BY <1>1, <1>2, <1>3, <1>4, <1>5, <1>6 DEF Next

SyncInv == TokenInv /\ DataInv

LEMMA SyncInvHolds == Spec => []SyncInv
<1>1. Init => SyncInv
  BY InitTokens, InitData DEF SyncInv
<1>2. SyncInv /\ [Next]_vars => SyncInv'
  <2>1. SyncInv => layout \in Layouts
    BY DEF SyncInv, TokenInv, TokenTypeOK
  <2> QED
    BY <2>1, NextKeepsTokens, NextKeepsData DEF SyncInv
<1> QED
  BY <1>1, <1>2, PTL DEF Spec

(* Every variable keeps its type: the ids of rows and tokens, the batches, *)
(* the attempts and the steps of every machine, call, task and login.      *)
THEOREM TypeCorrect == Spec => []SystemTypeOK
<1>1. SyncInv => SystemTypeOK
  BY DEF SyncInv, TokenInv, TokenTypeOK, DataInv, DataTypeOK, SystemTypeOK, SyncTypeOK
<1> QED
  BY <1>1, SyncInvHolds, PTL

(* CompletedSyncIsCaughtUp, for any number of streams, rows and attempts:  *)
(* a run that reports success has brought the control plane every row that *)
(* was captured before it began.                                           *)
THEOREM CompletedIsCaughtUp == Spec => []CompletedSyncIsCaughtUp
<1>1. SyncInv => CompletedSyncIsCaughtUp
  BY DEF SyncInv, DataInv, DoneHeld, CompletedSyncIsCaughtUp
<1> QED
  BY <1>1, SyncInvHolds, PTL

-----------------------------------------------------------------------------
(* The copies are what Replication promises.                               *)

LEMMA CopyIsPrefix ==
  ASSUME NEW ids \in Seq(Rows), NEW copied \in Seq(Rows), Len(copied) <= Len(ids),
         \A i \in 1..Len(copied) : copied[i] = ids[i]
  PROVE  copied = SubSeq(ids, 1, Len(copied))
<1>1. /\ Len(ids) \in Nat /\ Len(copied) \in Nat
      /\ \A i \in 1..Len(copied) : ids[i] \in Rows
  BY LenProperties, ElementOfSeq
<1>2. /\ SubSeq(ids, 1, Len(copied)) \in Seq(Rows)
      /\ Len(SubSeq(ids, 1, Len(copied))) =
           IF 1 <= Len(copied) THEN Len(copied) - 1 + 1 ELSE 0
      /\ \A i \in 1..Len(copied) - 1 + 1 : SubSeq(ids, 1, Len(copied))[i] = ids[1 + i - 1]
  BY <1>1, SubSeqProperties
<1>3. Len(SubSeq(ids, 1, Len(copied))) = Len(copied)
  BY <1>1, <1>2
<1>4. \A i \in 1..Len(copied) : copied[i] = SubSeq(ids, 1, Len(copied))[i]
  <2>1. Len(copied) - 1 + 1 = Len(copied) /\ \A i \in 1..Len(copied) : 1 + i - 1 = i
    BY <1>1
  <2> QED
    BY <1>2, <2>1
<1> QED
  BY <1>2, <1>3, <1>4, SeqEqual

\* A batch that follows the copy extends it.
LEMMA StoreExtends ==
  ASSUME DataInv, NEW s \in Streams, NEW batch \in Seq(Rows), Fits(s, CursorOf(s), batch),
         NEW k \in 1..Len(batch), Store(s, SubSeq(batch, 1, k)), rows' = rows
  PROVE  Replica!ReplicationNext
<1>1. /\ RowsMove /\ Len(copy'[s]) = Len(copy[s]) + k
      /\ copy' = [copy EXCEPT ![s] = copy'[s]]
  BY StoreMoves
<1>2. PICK n : n = Len(copy'[s])
  OBVIOUS
<1>3. /\ Len(copy[s]) \in Nat /\ n \in Nat /\ k \in Nat /\ k >= 1 /\ n <= Len(rows[s])
      /\ Len(rows[s]) \in Nat /\ rows[s] \in Seq(Rows) /\ copy'[s] \in Seq(Rows)
      /\ \A i \in 1..Len(copy'[s]) : copy'[s][i] = rows[s][i]
  <2>1. rows[s] \in Seq(Rows) /\ copy[s] \in Seq(Rows) /\ copy'[s] \in Seq(Rows)
    BY <1>1 DEF RowsMove, DataInv, DataTypeOK
  <2>2. Len(copy'[s]) <= Len(rows[s]) /\ \A i \in 1..Len(copy'[s]) : copy'[s][i] = rows[s][i]
    BY <1>1 DEF RowsMove, CopyHeld
  <2>3. Len(rows[s]) \in Nat /\ Len(copy[s]) \in Nat /\ Len(batch) \in Nat
    BY <2>1, LenProperties
  <2> QED
    BY <1>1, <1>2, <2>1, <2>2, <2>3
<1>4. copy'[s] = SubSeq(rows[s], 1, n)
  BY <1>2, <1>3, CopyIsPrefix
<1>5. n \in Len(copy[s]) + 1..Len(rows[s]) /\ n \in 1..Len(rows[s])
  BY <1>1, <1>2, <1>3
<1>6. Replica!Extend(s, n)
  BY <1>1, <1>4, <1>5 DEF Replica!Extend
<1> QED
  BY <1>5, <1>6 DEF Replica!ReplicationNext

LEMMA StoreAllExtends ==
  ASSUME DataInv, NEW s \in Streams, NEW batch \in Seq(Rows), Fits(s, CursorOf(s), batch),
         Store(s, batch), rows' = rows
  PROVE  Replica!ReplicationNext
<1>1. batch # <<>>
  BY DEF Fits, Follows
<1>2. Len(batch) \in 1..Len(batch) /\ SubSeq(batch, 1, Len(batch)) = batch
  <2>1. Len(batch) \in Nat /\ Len(batch) # 0
    BY <1>1, EmptySeq
  <2> QED
    BY <2>1, SubSeqFull
<1> QED
  BY <1>2, StoreExtends

LEMMA StreamStepReplicates ==
  ASSUME DataInv, NEW p \in Processes, NEW s \in Streams, StreamStep(p, s)
  PROVE  Replica!ReplicationNext \/ UNCHANGED <<rows, copy>>
<1>1. CASE ReadRows(p, s) \/ Conflict(p, s) \/ Terminal(p, s) \/ RefreshCursor(p, s)
           \/ RefreshCursorFails(p, s)
  BY <1>1 DEF ReadRows, Conflict, Terminal, RefreshCursor, RefreshCursorFails, data
<1>2. ASSUME Working(p, s, "post")
      PROVE  Fits(s, work[p][s].cursor, work[p][s].batch) /\ work[p][s].batch \in Seq(Rows)
  <2>1. work[p][s] \in Works /\ work[p][s].at = "post"
    BY <1>2, WorkingIs
  <2> QED
    BY <2>1 DEF DataInv, WorkHeld, Works
<1>3. CASE Accepted(p, s)
  <2>1. Working(p, s, "post") /\ rows' = rows /\ work[p][s].cursor = CursorOf(s)
        /\ \E n \in 1..Len(work[p][s].batch) : Store(s, SubSeq(work[p][s].batch, 1, n))
    BY <1>3 DEF Accepted
  <2>2. PICK batch \in Seq(Rows) : batch = work[p][s].batch
    BY <1>2, <2>1
  <2> QED
    BY <1>2, <2>1, <2>2, StoreExtends
<1>4. CASE Ambiguous(p, s)
  <2>1. Working(p, s, "post") /\ rows' = rows
        /\ \/ copy' = copy
           \/ work[p][s].cursor = CursorOf(s) /\ Store(s, work[p][s].batch)
    BY <1>4 DEF Ambiguous
  <2>2. PICK batch \in Seq(Rows) : batch = work[p][s].batch
    BY <1>2, <2>1
  <2> QED
    BY <1>2, <2>1, <2>2, StoreAllExtends
<1> QED
  BY <1>1, <1>3, <1>4 DEF StreamStep

LEMMA NextReplicates ==
  ASSUME DataInv, layout \in Layouts, [Next]_vars
  PROVE  Replica!ReplicationNext \/ UNCHANGED <<rows, copy>>
<1>0. /\ layout.syncs \subseteq Processes /\ layout.streams \subseteq Streams
      /\ 1..layout.last \subseteq 1..MaxRow
  BY LayoutsAreSound, RowsBound
<1>1. UNCHANGED syncVars => UNCHANGED <<rows, copy>>
  BY DEF syncVars, data
<1>2. UNCHANGED vars => UNCHANGED <<rows, copy>>
  BY <1>1 DEF vars
<1>3. ASSUME NEW p \in layout.syncs, SyncStep(p) \/ Kill(p)
      PROVE  Replica!ReplicationNext \/ UNCHANGED <<rows, copy>>
  <2>1. CASE RunSync(p) \/ StateAnswered(p) \/ StateFails(p) \/ ReturnResult(p) \/ Kill(p)
    BY <2>1 DEF RunSync, StateAnswered, StateFails, ReturnResult, Kill, data
  <2>2. CASE \E s \in Streams : StreamStep(p, s)
    BY <1>0, <2>2, StreamStepReplicates
  <2> QED
    BY <1>1, <1>3, <2>1, <2>2 DEF SyncStep
<1>4. ASSUME NEW s \in layout.streams, NEW r \in 1..layout.last, CaptureRow(s, r)
      PROVE  Replica!ReplicationNext
  <2>1. s \in Streams /\ r \in Replica!Rows
    BY <1>0 DEF Replica!Rows
  <2>2. Replica!Capture(s, r)
    BY <1>4 DEF CaptureRow, Replica!Capture, Replica!Newer
  <2> QED
    BY <2>1, <2>2 DEF Replica!ReplicationNext
<1>5. ASSUME NEW m \in late, LateBatchArrives(m)
      PROVE  Replica!ReplicationNext \/ UNCHANGED <<rows, copy>>
  <2>1. /\ m.stream \in Streams /\ m.batch \in Seq(Rows)
        /\ Fits(m.stream, m.expected, m.batch) /\ rows' = rows
    BY <1>5 DEF DataInv, DataTypeOK, LateHeld, LateBatchArrives
  <2>2. CASE m.expected = CursorOf(m.stream)
    <3>1. PICK s \in Streams, batch \in Seq(Rows) : s = m.stream /\ batch = m.batch
      BY <2>1
    <3>2. Fits(s, CursorOf(s), batch) /\ Store(s, batch)
      BY <1>5, <2>1, <2>2, <3>1 DEF LateBatchArrives
    <3> QED
      BY <2>1, <3>2, StoreAllExtends
  <2>3. CASE m.expected # CursorOf(m.stream)
    BY <1>5, <2>1, <2>3 DEF LateBatchArrives
  <2> QED
    BY <2>2, <2>3
<1>6. TokensExpire => UNCHANGED syncVars
  BY DEF TokensExpire
<1> QED
  BY <1>1, <1>2, <1>3, <1>4, <1>5, <1>6 DEF Next

LEMMA InitReplicates ==
  ASSUME DataInv
  PROVE  Replica!ReplicationInit
<1>1. rows \in [Streams -> Seq(Replica!Rows)]
  BY DEF DataInv, DataTypeOK, Rows, Replica!Rows
<1>2. ASSUME NEW s \in Streams
      PROVE  /\ Replica!IsIncreasing(rows[s])
             /\ \E n \in 0..Len(rows[s]) : Replica!CopiedUpTo(s, n)
  <2>1. CopyHeld(s) /\ rows[s] \in Seq(Rows) /\ copy[s] \in Seq(Rows)
        /\ Len(copy[s]) \in Nat /\ Len(rows[s]) \in Nat
    BY RowsType DEF DataInv
  <2>2. copy[s] = SubSeq(rows[s], 1, Len(copy[s]))
    BY <2>1, CopyIsPrefix DEF CopyHeld
  <2>3. Len(copy[s]) \in 0..Len(rows[s])
    BY <2>1 DEF CopyHeld
  <2>4. Replica!IsIncreasing(rows[s])
    BY <2>1 DEF CopyHeld, Sorted, Replica!IsIncreasing
  <2>5. Replica!CopiedUpTo(s, Len(copy[s]))
    BY <2>2 DEF Replica!CopiedUpTo
  <2> QED
    BY <2>3, <2>4, <2>5
<1> QED
  BY <1>1, <1>2 DEF Replica!ReplicationInit

(* ImplementsReplication, for any number of processes, streams and rows:   *)
(* every step of the whole system, a batch that arrives late and a partial *)
(* one among them, extends a copy by the rows that come next, captures a   *)
(* row, or leaves both alone.                                              *)
THEOREM SyncImplementsReplication == Spec => ImplementsReplication
<1>1. Init => Replica!ReplicationInit
  BY InitData, InitReplicates
<1>2. SyncInv /\ [Next]_vars => [Replica!ReplicationNext]_<<rows, copy>>
  <2>1. SyncInv => DataInv /\ layout \in Layouts
    BY DEF SyncInv, TokenInv, TokenTypeOK
  <2> QED
    BY <2>1, NextReplicates
<1> QED
  BY <1>1, <1>2, SyncInvHolds, PTL DEF Spec, ImplementsReplication, Replica!ReplicationSpec

=============================================================================
