-------------------------- MODULE MCRunCoordinator --------------------------
(* RunCoordinator on a few runs of a short plan.                            *)
EXTENDS RunCoordinator

\* Everything that runs need is set, and they come through POST /v1/runs only.
Complete == [executionEnabled |-> TRUE, webhookExecutionEnabled |-> FALSE,
             authSecret |-> TRUE, webhookSecret |-> FALSE, buildServerUrl |-> TRUE,
             buildServerAuth |-> TRUE, allowedRepositories |-> TRUE,
             workflowRules |-> FALSE]

\* With that one, all configurations under which no run or no build can start.
MCConfigs == {Complete} \cup
  {c \in Config : ValidConfig(c) /\ (~Admits(c) \/ ~Configured(c))}
CompleteConfigs == {Complete}
=============================================================================
