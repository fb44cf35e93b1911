------------------------- MODULE ContractInvariant -------------------------
(***************************************************************************)
(* The inductive invariant of RouterContract: a router that serves runs    *)
(* with what it accepted, and its answers are what its operators make of   *)
(* the questions it may be asked.                                          *)
(***************************************************************************)
EXTENDS RouterContract

ServingInv ==
  /\ specs \in SpecLists
  /\ phase = "serving" => Accepts(specs, enabled) /\ executors = Materialized(specs)
  /\ asked # None => phase = "serving"

AnswerInv ==
  /\ Asked("build") =>
       /\ asked.job \in Jobs /\ Executable(asked.job)
       /\ answer = ValidRequest(BuildRequest(asked.job))
  /\ Asked("route") =>
       /\ asked.executor \in DOMAIN executors /\ asked.upstream \in UpstreamIds
       /\ answer = Namespaced(executors[asked.executor].id, asked.upstream)
  /\ Asked("status") =>
       asked.id \in StatusIds /\ answer = Target(asked.id)

IInv == ServingInv /\ AnswerInv
=============================================================================
