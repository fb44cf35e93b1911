---------------------------- MODULE MCContinuity ----------------------------
(* Continuity with two runs of a plan of two jobs.                          *)
EXTENDS Continuity, TLC

\* Everything that runs need is set.
MCConfigs == {[executionEnabled |-> TRUE, webhookExecutionEnabled |-> FALSE,
               authSecret |-> TRUE, webhookSecret |-> FALSE, buildServerUrl |-> TRUE,
               buildServerAuth |-> TRUE, allowedRepositories |-> TRUE,
               workflowRules |-> FALSE]}

Symmetry == Permutations(Runs) \cup Permutations(Executors)
=============================================================================
