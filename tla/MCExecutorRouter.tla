-------------------------- MODULE MCExecutorRouter --------------------------
(* ExecutorRouter on small sets of calls, request ids and contents.         *)
EXTENDS RouterInvariant, RouterRefinement, TLC

\* Calls, ids and contents are only compared for equality, by the router and by
\* SubmitOnce, so runs without liveness may permute them.
Symmetry == Permutations(Handlers) \cup Permutations(RequestIds)
              \cup Permutations(Contents)
=============================================================================
