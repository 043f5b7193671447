------------------------------- MODULE Login -------------------------------
(***************************************************************************)
(* sce auth login, sce auth logout, and the use login makes of the client. *)
(* Login loads the stored token.  While it has not expired login saves it  *)
(* again as it is; once it has, login renews it itself, without the guard  *)
(* of the client; with no token, or when that fails, the user goes through *)
(* the device flow and gets a session of his own.  Then login asks for a   *)
(* telemetry credential through the client, within a minute, and whatever  *)
(* came of it returns, and the runtime of the process is shut down.        *)
(***************************************************************************)
EXTENDS Credentials

CONSTANT LoginProcess

ASSUME LoginIsAProcess == LoginProcess \in Processes

VARIABLE login   \* where the run of sce auth login stands, with the token in its hand

LoginSteps == {"off", "load", "renew", "device", "save", "telemetry", "over"}

LoginTypeOK == login \in [at : LoginSteps, token : 0..MaxToken]

LoginInit == login = [at |-> "off", token |-> NoToken]

LoginAt(step) == login.at = step
GoTo(step, token) == login' = [at |-> step, token |-> token]
LoginOver == GoTo("over", NoToken)

RunLogin ==
  /\ LoginAt("off") /\ GoTo("load", NoToken)
  /\ UNCHANGED credentials

\* A token that is there and still valid is held to be saved again.
LoginLoadsTokens ==
  /\ LoginAt("load")
  /\ \/ LoginOver
     \/ stored = NoToken /\ GoTo("device", NoToken)
     \/ stored # NoToken /\ ~IsStoredTokenExpired /\ GoTo("save", stored)
     \/ stored # NoToken /\ IsStoredTokenExpired /\ GoTo("renew", stored)
  /\ UNCHANGED credentials

LoginRenews ==
  /\ LoginAt("renew")
  /\ \/ /\ login.token \in live /\ Newest < MaxToken
        /\ Rotate(login.token)
        /\ \/ GoTo("save", Newest + 1) /\ UNCHANGED excused
           \/ GoTo("device", NoToken) /\ excused' = TRUE
     \/ GoTo("device", NoToken) /\ UNCHANGED <<live, excused>>
  /\ UNCHANGED <<stored, expired, auth, task>>

CompleteDeviceFlow ==
  /\ LoginAt("device")
  /\ \/ /\ Newest < MaxToken
        /\ live' = live \cup {Newest + 1}
        /\ GoTo("save", Newest + 1)
     \/ LoginOver /\ UNCHANGED live
  /\ UNCHANGED <<stored, expired, auth, task, excused>>

\* With telemetry disabled login is over.
LoginSavesTokens ==
  /\ LoginAt("save")
  /\ \/ /\ stored' = login.token
        /\ \/ GoTo("telemetry", NoToken) /\ SetCall(LoginProcess, Main, "resolve", NoToken)
           \/ LoginOver /\ UNCHANGED auth
        /\ UNCHANGED excused
     \/ LoginOver /\ excused' = TRUE /\ UNCHANGED <<stored, auth>>
  /\ UNCHANGED <<live, expired, task>>

\* The credential came, was refused, or the minute passed: login does not wait for a
\* refresh its call has started.
IssueTelemetryCredential ==
  /\ LoginAt("telemetry") /\ LoginOver
  /\ ShutRuntimeDown(LoginProcess)
  /\ UNCHANGED <<stored, expired>>

KillLogin ==
  /\ ~LoginAt("off") /\ ~LoginAt("over") /\ LoginOver
  /\ DropTask(LoginProcess)
  /\ excused' = TRUE
  /\ UNCHANGED live \/ AnswerUnread(LoginProcess)
  /\ UNCHANGED <<stored, expired>>

RunLogout ==
  /\ stored # NoToken
  /\ stored' = NoToken
  /\ UNCHANGED <<live, expired, auth, task, excused, login>>

LoginNext ==
  \/ RunLogin \/ LoginLoadsTokens \/ LoginRenews \/ CompleteDeviceFlow
  \/ LoginSavesTokens \/ IssueTelemetryCredential \/ KillLogin \/ RunLogout
  \/ (ClientStep(LoginProcess, Main) \/ RefreshTask(LoginProcess)) /\ UNCHANGED login
=============================================================================
