--------------------------- MODULE DependencyOrder ---------------------------
(***************************************************************************)
(* validate_dependencies of the planner: the `needs` of a workflow's jobs  *)
(* are checked and its jobs put in the order in which a run submits them,  *)
(* or the workflow is refused because of a cycle.                          *)
(*                                                                         *)
(* One step is one turn of a loop of the function.  Job ids are numbers in *)
(* the order of their strings, the order of the code's BTreeMaps; `needs`  *)
(* of a job is the list parse_string_or_sequence sorted and deduplicated,  *)
(* hence a set.                                                            *)
(***************************************************************************)
EXTENDS Naturals, Sequences, FiniteSets

CONSTANTS
  NumJobs,  \* jobs of the workflow
  Unknown   \* names in `needs` that no job has

ASSUME NumJobsAssumption == NumJobs \in Nat \ {0}
ASSUME UnknownAssumption == Unknown \cap (1..NumJobs) = {} /\ IsFiniteSet(Unknown)

Jobs == 1..NumJobs

VARIABLES
  needs,    \* the names each job needs
  at,       \* the loop the function is in, or how it ended
  seed,     \* the next job the indegree map's iterator yields
  indegree, \* needs of each job not yet counted off
  ready,    \* the queue of jobs with nothing left to wait for
  ordered,  \* the order so far
  pending   \* the children of the last ordered job still to be counted off

vars == <<needs, at, seed, indegree, ready, ordered, pending>>

Results == {"ordered", "cycle", "badNeeds"}

TypeOK ==
  /\ needs \in [Jobs -> SUBSET (Jobs \cup Unknown)]
  /\ at \in {"scan", "seed", "pop", "release"} \cup Results
  /\ seed \in 1..NumJobs + 1
  /\ indegree \in [Jobs -> Nat]
  /\ ready \in Seq(Jobs)
  /\ ordered \in Seq(Jobs)
  /\ pending \in SUBSET Jobs

Init ==
  /\ needs \in [Jobs -> SUBSET (Jobs \cup Unknown)]
  /\ at = "scan"
  /\ seed = 1
  /\ indegree = [j \in Jobs |-> 0]
  /\ ready = <<>>
  /\ ordered = <<>>
  /\ pending = {}

\* A job that needs itself or a name no job has.
BadNeeds == \E j \in Jobs : j \in needs[j] \/ needs[j] \cap Unknown # {}

Scan ==
  /\ at = "scan"
  /\ \/ /\ BadNeeds
        /\ at' = "badNeeds"
        /\ UNCHANGED indegree
     \/ /\ ~BadNeeds
        /\ indegree' = [j \in Jobs |-> Cardinality(needs[j])]
        /\ at' = "seed"
  /\ UNCHANGED <<needs, seed, ready, ordered, pending>>

\* The jobs without needs, in the order of the map.
Seed ==
  /\ at = "seed"
  /\ \/ /\ seed <= NumJobs
        /\ ready' = IF indegree[seed] = 0 THEN Append(ready, seed) ELSE ready
        /\ seed' = seed + 1
        /\ UNCHANGED at
     \/ /\ seed > NumJobs
        /\ at' = "pop"
        /\ UNCHANGED <<seed, ready>>
  /\ UNCHANGED <<needs, indegree, ordered, pending>>

Children(j) == {k \in Jobs : j \in needs[k]}

Bug_Verdict == "ordered"
Verdict == IF Len(ordered) = NumJobs THEN "ordered" ELSE "cycle"

Pop ==
  /\ at = "pop"
  /\ \/ /\ ready # <<>>
        /\ ordered' = Append(ordered, Head(ready))
        /\ ready' = Tail(ready)
        /\ pending' = Children(Head(ready))
        /\ at' = "release"
     \/ /\ ready = <<>>
        /\ at' = Verdict
        /\ UNCHANGED <<ready, ordered, pending>>
  /\ UNCHANGED <<needs, seed, indegree>>

Bug_NextChild == {c \in pending : \A d \in pending : c >= d}
NextChild == {c \in pending : \A d \in pending : c <= d}

Bug_Released(c) == indegree[c] <= 2
Bug_Unreleased(c) == indegree[c] = 0
\* Was this the last need the child waited for?
Released(c) == indegree[c] = 1

Release ==
  /\ at = "release"
  /\ \/ /\ \E c \in NextChild :
             /\ indegree' = [indegree EXCEPT ![c] = @ - 1]
             /\ ready' = IF Released(c) THEN Append(ready, c) ELSE ready
             /\ pending' = pending \ {c}
        /\ UNCHANGED at
     \/ /\ pending = {}
        /\ at' = "pop"
        /\ UNCHANGED <<indegree, ready, pending>>
  /\ UNCHANGED <<needs, seed, ordered>>

Returned ==
  /\ at \in Results
  /\ UNCHANGED vars

Next == Scan \/ Seed \/ Pop \/ Release \/ Returned

Spec == Init /\ [][Next]_vars

-----------------------------------------------------------------------------
(* Properties *)

Position(j) == CHOOSE i \in DOMAIN ordered : ordered[i] = j

\* An accepted workflow has every job in its order exactly once, after all the
\* jobs it needs: what execute_plan relies on to submit no dependent too early.
OrderIsTopological ==
  at = "ordered" =>
    /\ Len(ordered) = NumJobs
    /\ \A j \in Jobs : \E i \in DOMAIN ordered :
         ordered[i] = j /\ \A n \in needs[j] : \E k \in 1..i - 1 : ordered[k] = n

\* A workflow is refused for a cycle only if it has one: jobs each of which
\* needs another of them.
CycleIsReal ==
  at = "cycle" =>
    \E cycle \in SUBSET Jobs \ {{}} : \A j \in cycle : needs[j] \cap cycle # {}

\* The order depends on the dependencies alone, not on how the document lists
\* the jobs: a job's place is settled by the last of its needs to be ordered,
\* then by its id (README.md:68, deterministic topological order).
LastNeed(j) ==
  IF needs[j] = {} THEN 0
  ELSE CHOOSE i \in {Position(n) : n \in needs[j]} : \A n \in needs[j] : Position(n) <= i

OrderIsDeterministic ==
  at = "ordered" =>
    \A i, k \in DOMAIN ordered : i < k =>
      \/ LastNeed(ordered[i]) < LastNeed(ordered[k])
      \/ LastNeed(ordered[i]) = LastNeed(ordered[k]) /\ ordered[i] < ordered[k]

\* The count of a job is that of its needs not yet counted off, so that it never
\* falls below zero and reaches it with the last of them; exactly the jobs whose
\* count is zero were queued, each of them once.
Elements(s) == {s[i] : i \in 1..Len(s)}
Injective(s) == \A i, k \in 1..Len(s) : s[i] = s[k] => i = k

Counted(j) ==
  Elements(ordered) \ (IF j \in pending THEN {ordered[Len(ordered)]} ELSE {})

CountsAreExact ==
  at \in {"pop", "release", "ordered", "cycle"} =>
    /\ \A j \in Jobs : indegree[j] = Cardinality(needs[j] \ Counted(j))
    /\ \A j \in Jobs :
         j \in Elements(ordered) \cup Elements(ready) <=> indegree[j] = 0
    /\ Injective(ordered) /\ Injective(ready)
    /\ Elements(ordered) \cap Elements(ready) = {}
=============================================================================
