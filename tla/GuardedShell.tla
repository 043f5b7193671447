---------------------------- MODULE GuardedShell ----------------------------
(***************************************************************************)
(* The external-mutation guard: a process that runs a command of the user  *)
(* on a worktree where scopes may be live.  It takes the lock and arms the *)
(* marker as a hook process does, says so, and waits; only when the        *)
(* harness sends the command does it spawn the shell, which inherits the   *)
(* descriptor of the lock and the writing end of a pipe.  When the shell   *)
(* has ended and the pipe reports that no descendant holds it any more,    *)
(* the guard forces a recovery through a Flush and clears the marker.      *)
(*                                                                         *)
(* A lock lives as long as one descriptor of it is open, unless somebody   *)
(* unlocks it.  The guard unlocks it only before it has spawned the shell  *)
(* or after the end of the pipe; if it fails or is killed in between, the  *)
(* lock stays with the shell and its descendants.  Cancellation signals    *)
(* the group, whose members may end at any time here.  A descendant that   *)
(* closes what it inherited is one more user.                              *)
(***************************************************************************)
EXTENDS MutationRuntime

CONSTANT Commands   \* worktrees where the user may run guarded commands

ASSUME CommandsRunOnWorktrees == Commands \subseteq Worktrees
\* Names of this model that are not to be taken for a process or a scope.
ASSUME NamesDiffer == "group" \notin Clients /\ Scopes \cap {"user", "shell"} = {}

VARIABLE group   \* by worktree, the living members of the guarded process group

guardVars == <<runtimeVars, group>>

Members == {"shell", "descendant"}
GuardCall == {[op |-> "Guard", worktree |-> w, boundary |-> [kind |-> "Flush", worktree |-> w]] :
                w \in Worktrees}

IsGuard(c) == ~Serving(c, "idle") /\ CallOf(c).op = "Guard"

InvokeGuard(c) ==
  \E call \in GuardCall : call.worktree \in Commands /\ Invoke(c, call)

GuardInit == RuntimeInit /\ group = [w \in Worktrees |-> {}]

-----------------------------------------------------------------------------
(* The guarded process group.                                              *)

Fork(w) ==
  /\ group[w] = {"shell"}
  /\ group' = [group EXCEPT ![w] = Members]
  /\ UNCHANGED runtimeVars

\* The last one closes the last descriptor.
MemberExits(w, m) ==
  /\ m \in group[w]
  /\ group' = [group EXCEPT ![w] = @ \ {m}]
  /\ holder' = [holder EXCEPT ![w] = IF group'[w] = {} THEN @ \ {"group"} ELSE @]
  /\ UNCHANGED <<durableVars, client, marker, process, world, lost>>

ShellEdit(w) ==
  /\ group[w] # {}
  /\ tree[w] < MaxEdits
  /\ tree' = [tree EXCEPT ![w] = @ + 1]
  /\ author' = [author EXCEPT ![w] = Put(@, tree'[w], "shell")]
  /\ UNCHANGED <<durableVars, client, protection, tool, lost, group>>

GroupStep(w) == Fork(w) \/ (\E m \in Members : MemberExits(w, m)) \/ ShellEdit(w)

-----------------------------------------------------------------------------
(* The guard.                                                              *)

\* Armed was not delivered, the command never came, was cancelled, or cannot be run.
Withdraw(c) == Serving(c, "armed") /\ LeaveArmed(c) /\ UNCHANGED group

Spawn(c) ==
  LET w == CallOf(c).worktree
  IN  /\ Serving(c, "armed")
      /\ group' = [group EXCEPT ![w] = {"shell"}]
      /\ holder' = [holder EXCEPT ![w] = @ \cup {"group"}]
      /\ Reach(c, "supervising")
      /\ UNCHANGED <<durableVars, client, marker, world, lost>>

\* Mutant of SupervisionFails: the lock is unlocked on the way out.
UnlockOnFailure(c) ==
  /\ Serving(c, "supervising")
  /\ process' = [process EXCEPT ![c] = Unserved]
  /\ holder' = [holder EXCEPT ![CallOf(c).worktree] = {}]
  /\ LoseUnsettled(c)
  /\ UNCHANGED <<durableVars, client, marker, world, group>>

\* Waiting or polling fails: the descriptor is closed, the lock not unlocked.
SupervisionFails(c) == Serving(c, "supervising") /\ LeaveArmed(c) /\ UNCHANGED group

\* The shell has exited, and the pipe is at its end.
ObserveEof(c) ==
  /\ Serving(c, "supervising")
  /\ group[CallOf(c).worktree] = {}
  /\ Reach(c, "finishing")
  /\ UNCHANGED <<durableVars, client, holder, marker, world, lost, group>>

Finish(c) ==
  LET call == CallOf(c)
  IN  /\ Serving(c, "finishing")
      /\ Begin(c, JobOf(call, tree[call.worktree]), TRUE)
      /\ Reach(c, "storing")
      /\ UNCHANGED <<holder, marker, world, lost, group>>

\* The database cannot be opened, or the worktree not captured.
FinishFails(c) ==
  /\ Serving(c, "finishing")
  /\ \/ LeaveArmed(c)
     \/ /\ Begin(c, [op |-> "Taint", worktree |-> CallOf(c).worktree], FALSE)
        /\ Reach(c, "storing")
        /\ UNCHANGED <<holder, marker, world, lost>>
  /\ UNCHANGED group

GuardKilled(c) ==
  /\ \/ Killed(c)
     \/ Serving(c, "supervising") /\ LeaveArmed(c)
     \/ Serving(c, "finishing") /\ LeaveArmed(c)
  /\ UNCHANGED group

GuardStep(c) ==
  \/ Withdraw(c) \/ Spawn(c) \/ SupervisionFails(c) \/ ObserveEof(c)
  \/ Finish(c) \/ FinishFails(c) \/ GuardKilled(c)
  \/ /\ AcquireLock(c) \/ LockTimeout(c) \/ ArmMarker(c) \/ ArmFails(c)
        \/ StoreWork(c) \/ WorkFails(c) \/ Complete(c)
     /\ UNCHANGED group

HookStep(c) == ~IsGuard(c) /\ ProcessStep(c) /\ UNCHANGED group

GuardNext ==
  \/ \E c \in Clients :
       \/ (InvokeGuard(c) \/ \E call \in Calls : Invoke(c, call)) /\ UNCHANGED group
       \/ HookStep(c)
       \/ ~IsGuard(c) /\ Killed(c) /\ UNCHANGED group
       \/ IsGuard(c) /\ GuardStep(c)
  \/ \E w \in Worktrees :
       \/ (\E by \in Somebody : Edit(w, by)) /\ UNCHANGED group
       \/ GroupStep(w)

GuardSpec == GuardInit /\ [][GuardNext]_guardVars

\* A hook process that is not killed goes on: its steps are its own, and waiting
\* for the lock is bounded by the timeout.  A guard may wait for its harness and
\* for its shell as long as they like.
FairGuardSpec == GuardSpec /\ \A c \in Clients : WF_guardVars(HookStep(c))

-----------------------------------------------------------------------------
(* Properties.                                                             *)

\* What a guarded shell or its descendants changed is never evidence of anything,
\* for no scope and no user: however the guard ends, in order, failed, killed,
\* cancelled or never told to run, and whatever boundaries come meanwhile and
\* after, a recovery lies between the shell and the next piece of evidence.
ShellEditsAreNobodys == \A e \in mutationEvents : "shell" \notin EditorsOf(e)

\* No call of a hook waits for ever, for a lock that a guard or its orphaned shell
\* may hold for ever, or in a retry loop.
EveryCallEnds == \A c \in Clients : ~Serving(c, "idle") /\ ~IsGuard(c) ~> Serving(c, "idle")
=============================================================================
