------------------------------ MODULE MCAgents ------------------------------
(***************************************************************************)
(* The agents for TLC: the runs of one session, the files of one agent     *)
(* between two processes, the studio's editor over what those files serve, *)
(* and the runner and the ledger of the tools.  A behaviour is of one      *)
(* side, the others stay where they began; no step of one reads another.   *)
(***************************************************************************)
EXTENDS AgentRun, AgentRegistry, AgentEditor, ToolRunner

VARIABLE side

mcVars == <<side, agentVars, registryVars, editorVars, runnerVars, ledger>>

MCInit == /\ side \in {"run", "registry", "editor", "tools", "ledger"}
          /\ AgentInit /\ RegistryInit /\ EditorInit /\ RunnerInit

MCNext ==
    /\ UNCHANGED side
    /\ \/ side = "run" /\ AgentNext /\ UNCHANGED <<registryVars, editorVars, runnerVars, ledger>>
       \/ side = "registry" /\ RegistryNext /\ UNCHANGED <<agentVars, editorVars, runnerVars, ledger>>
       \/ side = "editor" /\ EditorNext /\ UNCHANGED <<agentVars, registryVars, runnerVars, ledger>>
       \/ side = "tools" /\ RunnerNext /\ UNCHANGED <<agentVars, registryVars, editorVars, ledger>>
       \/ side = "ledger" /\ LedgerNext /\ UNCHANGED <<agentVars, registryVars, editorVars, runnerVars>>

\* A run that never starts has no fair step enabled.
MCSpec == MCInit /\ [][MCNext]_mcVars /\ AgentFairness /\ RunnerFairness

\* What is begun is answered, though an executor or a handler never does: the run of a
\* session that hangs up, a dispatch of a tool, and a close of their runner.
SilenceIsAnswered == SessionSettles /\ RunnerAnswers
=============================================================================
