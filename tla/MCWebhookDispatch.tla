-------------------------- MODULE MCWebhookDispatch --------------------------
(* WebhookDispatch on a few copies of a few deliveries.                      *)
EXTENDS WebhookDispatch, TLC

Push == [name |-> "push", revision |-> "full", action |-> "other",
         ignored |-> FALSE, conclusion |-> "other", path |-> None]
Failed == [name |-> "workflow_run", revision |-> "full", action |-> "completed",
           ignored |-> FALSE, conclusion |-> "failure", path |-> 1]

\* Events that are mirrored, and each way of not being one of them.
MCEvents == {Push, Failed, [Push EXCEPT !.name = "other"],
             [Failed EXCEPT !.revision = "other"], [Failed EXCEPT !.action = "other"],
             [Failed EXCEPT !.ignored = TRUE], [Failed EXCEPT !.conclusion = "other"],
             [Failed EXCEPT !.path = None]}
Pushes == {Push}

\* Copies and deliveries are only compared for equality.
Symmetry == Permutations(Copies) \cup Permutations(Deliveries)
=============================================================================
