------------------------------ MODULE MCAdapter -----------------------------
(* A session whose main thread and subagent each run tools one at a time.  *)
EXTENDS MutationAdapter, TLC

CONSTANTS main, agent, h1, h2

\* Stop or UserPromptSubmit, SubagentStop, and SessionEnd or WorktreeRemove.
MCCleanups == {{main}, {agent}, {main, agent}}

MCSymmetry == Permutations({h1, h2})
=============================================================================
