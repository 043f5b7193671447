---------------------------- MODULE Credentials ----------------------------
(***************************************************************************)
(* The WorkOS credentials of a user: one row in the auth database, shared  *)
(* by every process, and the client that resolves, refreshes and replaces  *)
(* it for each authenticated call.  Refresh tokens rotate: WorkOS accepts  *)
(* the newest of a session once and forgets it.  A token is the number of  *)
(* its issue; access and refresh token are issued together.                *)
(*                                                                         *)
(* In one process the refresh guard lets one refresh run at a time, and    *)
(* the refresh is a task of its own that keeps the guard until the new     *)
(* token is saved: a caller that gives up leaves it behind.  The guard of  *)
(* one process does not bind another.  The guard is free when the process  *)
(* has no task: whoever takes it and needs no refresh gives it back in the *)
(* same step.  The three tries of a renewal are one step.                  *)
(***************************************************************************)
EXTENDS Integers, FiniteSets, FiniteSetsExt

CONSTANTS
  Processes,  \* sce processes
  Callers,    \* the concurrent futures of a process that make calls
  Main,       \* the caller of a process that has only one
  MaxToken    \* bound on the tokens issued

ASSUME MainIsACaller == Main \in Callers
ASSUME TokensBound == MaxToken \in Nat \ {0}

VARIABLES
  stored,   \* the token in the auth database, 0 for none
  live,     \* the refresh tokens WorkOS would accept
  expired,  \* tokens up to this one have expired by the clock
  auth,     \* by process and caller, where its authenticated call stands
  task,     \* by process, its refresh task
  excused   \* auxiliary: a token was lost in a way the program does not promise to survive

credentials == <<stored, live, expired, auth, task, excused>>

Tokens == 1..MaxToken
NoToken == 0
Newest == Max(live \cup {0})

AuthSteps ==
  {"idle", "resolve", "lock", "wait", "send", "lockAgain", "waitAgain", "sendAgain",
   "refused", "unsure"}
NoCall == [at |-> "idle", token |-> NoToken]
NoTask == [at |-> "none", token |-> NoToken]

CredentialsTypeOK ==
  /\ stored \in 0..MaxToken
  /\ live \subseteq Tokens
  /\ expired \in 0..MaxToken
  /\ auth \in [Processes -> [Callers -> [at : AuthSteps, token : 0..MaxToken]]]
  /\ task \in [Processes -> [at : {"none", "renew", "save"}, token : 0..MaxToken]]
  /\ excused \in BOOLEAN

\* A user who logged in before, perhaps long ago, or never, or logged out.
CredentialsInit ==
  /\ \E t \in {0, 1} : stored = t /\ live = {1}
  /\ expired \in {0, 1}
  /\ auth = [p \in Processes |-> [c \in Callers |-> NoCall]]
  /\ task = [p \in Processes |-> NoTask]
  /\ excused = FALSE

-----------------------------------------------------------------------------
(* One authenticated call *)

At(p, c, step) == auth[p][c].at = step
SetCall(p, c, step, token) == auth' = [auth EXCEPT ![p][c] = [at |-> step, token |-> token]]
GuardFree(p) == task[p].at = "none"
IsStoredTokenExpired == stored <= expired

\* Loading failed, or there is nothing to load.
NoCredentials(p, c) ==
  /\ SetCall(p, c, "refused", NoToken)
  /\ UNCHANGED task

Reuse(p, c, next) ==
  /\ stored # NoToken
  /\ SetCall(p, c, next, stored)
  /\ UNCHANGED task

SpawnRefresh(p, c, next) ==
  /\ stored # NoToken
  /\ SetCall(p, c, next, NoToken)
  /\ task' = [task EXCEPT ![p] = [at |-> "renew", token |-> stored]]

ResolveAccessToken(p, c) ==
  /\ At(p, c, "resolve")
  /\ \/ NoCredentials(p, c)
     \/ ~IsStoredTokenExpired /\ Reuse(p, c, "send")
     \/ /\ stored # NoToken /\ IsStoredTokenExpired
        /\ SetCall(p, c, "lock", NoToken)
        /\ UNCHANGED task
  /\ UNCHANGED <<stored, live, expired, excused>>

ResolveUnderGuard(p, c) ==
  /\ At(p, c, "lock") /\ GuardFree(p)
  /\ \/ NoCredentials(p, c)
     \/ ~IsStoredTokenExpired /\ Reuse(p, c, "send")
     \/ IsStoredTokenExpired /\ SpawnRefresh(p, c, "wait")
  /\ UNCHANGED <<stored, live, expired, excused>>

\* The control plane answered 401; the token is the one it rejected.
Unauthorized(p, c) ==
  /\ \/ At(p, c, "send") /\ SetCall(p, c, "lockAgain", auth[p][c].token)
     \/ At(p, c, "sendAgain") /\ SetCall(p, c, "refused", NoToken)
  /\ UNCHANGED <<stored, live, expired, task, excused>>

ForceRefreshAccessToken(p, c) ==
  /\ At(p, c, "lockAgain") /\ GuardFree(p)
  /\ \/ NoCredentials(p, c)
     \/ stored # auth[p][c].token /\ Reuse(p, c, "sendAgain")
     \/ stored = auth[p][c].token /\ SpawnRefresh(p, c, "waitAgain")
  /\ UNCHANGED <<stored, live, expired, excused>>

Waiting(c, calls) == calls[c].at \in {"wait", "waitAgain"}

\* What the task gives the caller that waits for it, if it still does.
Answer(calls, step, token) ==
  [c \in Callers |-> IF Waiting(c, calls) THEN [at |-> step, token |-> token] ELSE calls[c]]

AnswerToken(calls, token) ==
  [c \in Callers |->
     IF Waiting(c, calls)
     THEN [at |-> IF calls[c].at = "wait" THEN "send" ELSE "sendAgain", token |-> token]
     ELSE calls[c]]

EndTask(p, calls) ==
  /\ task' = [task EXCEPT ![p] = NoTask]
  /\ auth' = [auth EXCEPT ![p] = calls]

Rotate(old) == live' = (live \ {old}) \cup {Newest + 1}

RefreshRotates(p) ==
  /\ task[p].at = "renew" /\ task[p].token \in live /\ Newest < MaxToken
  /\ Rotate(task[p].token)
  /\ \/ /\ task' = [task EXCEPT ![p] = [at |-> "save", token |-> Newest + 1]]
        /\ UNCHANGED <<auth, excused>>
     \/ /\ \E step \in {"refused", "unsure"} : EndTask(p, Answer(auth[p], step, NoToken))
        /\ excused' = TRUE
  /\ UNCHANGED <<stored, expired>>

RefreshFails(p) ==
  /\ task[p].at = "renew"
  /\ EndTask(p, Answer(auth[p], "refused", NoToken))
  /\ UNCHANGED <<stored, live, expired, excused>>

SaveRefreshed(p) ==
  /\ task[p].at = "save"
  /\ \/ /\ stored' = task[p].token
        /\ EndTask(p, AnswerToken(auth[p], task[p].token))
        /\ UNCHANGED excused
     \/ /\ EndTask(p, Answer(auth[p], "refused", NoToken))
        /\ excused' = TRUE
        /\ UNCHANGED stored
  /\ UNCHANGED <<live, expired>>

RefreshTask(p) == RefreshRotates(p) \/ RefreshFails(p) \/ SaveRefreshed(p)

ClientStep(p, c) ==
  \/ ResolveAccessToken(p, c) \/ ResolveUnderGuard(p, c)
  \/ Unauthorized(p, c) \/ ForceRefreshAccessToken(p, c)

\* The request of a caller is over, answered or given up; a task it waits for goes on.
Hangup(p, c) == auth' = [auth EXCEPT ![p][c] = NoCall]

\* The runtime of a process ends: its callers and its task are dropped.
DropTask(p) ==
  /\ auth' = [auth EXCEPT ![p] = [c \in Callers |-> NoCall]]
  /\ task' = [task EXCEPT ![p] = NoTask]

\* WorkOS renews the token, and nobody is left to read the answer.
AnswerUnread(p) ==
  /\ task[p].at = "renew" /\ task[p].token \in live /\ Newest < MaxToken
  /\ Rotate(task[p].token)
  /\ excused' = TRUE

ShutRuntimeDown(p) ==
  /\ DropTask(p)
  /\ UNCHANGED <<live, excused>> \/ AnswerUnread(p)

CrashRuntime(p) ==
  /\ DropTask(p)
  /\ \/ UNCHANGED live /\ excused' = (excused \/ task[p].at = "save")
     \/ AnswerUnread(p)
=============================================================================
