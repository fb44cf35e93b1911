--------------------------- MODULE OrderInvariant ---------------------------
(***************************************************************************)
(* The inductive invariant of DependencyOrder: what the loops have         *)
(* established whenever they are at one of their heads.                    *)
(***************************************************************************)
EXTENDS DependencyOrder

\* Past the scan no job needs itself or an unknown name.
NeedsInv == at \notin {"scan", "badNeeds"} => ~BadNeeds

\* While the queue is seeded it holds the jobs without needs seen so far.
SeedInv ==
  /\ at \in {"scan", "seed"} => ordered = <<>>
  /\ at = "scan" => ready = <<>> /\ seed = 1
  /\ at = "seed" =>
       /\ \A j \in Jobs : indegree[j] = Cardinality(needs[j])
       /\ \A j \in Jobs : j \in Elements(ready) <=> j < seed /\ indegree[j] = 0
       /\ Injective(ready)

\* What is pending are children of the job ordered last.
PendingInv ==
  /\ at # "release" => pending = {}
  /\ at = "release" =>
       ordered # <<>> /\ \A c \in pending : ordered[Len(ordered)] \in needs[c]

\* Whatever was ordered comes after all it needs.
NeedsComeFirst ==
  \A i \in 1..Len(ordered) :
    needs[ordered[i]] \subseteq {ordered[k] : k \in 1..i - 1}

ResultInv ==
  at \in {"ordered", "cycle"} =>
    ready = <<>> /\ (at = "ordered" <=> Len(ordered) = NumJobs)

IInv ==
  /\ TypeOK /\ NeedsInv /\ SeedInv /\ PendingInv
  /\ CountsAreExact /\ NeedsComeFirst /\ ResultInv

-----------------------------------------------------------------------------
(* What makes the order one that the dependencies alone settle *)

\* p is the place in the order of the last of j's needs, 0 if it has none.
LastAt(j, p) ==
  /\ p \in 0..Len(ordered)
  /\ IF p = 0 THEN needs[j] = {}
     ELSE ordered[p] \in needs[j] /\ needs[j] \subseteq {ordered[k] : k \in 1..p}

Lex(i, j) ==
  \A p, q \in 0..Len(ordered) : LastAt(i, p) /\ LastAt(j, q) => p < q \/ (p = q /\ i < j)

\* What was ordered and what is queued after it are one sequence in this order;
\* the children still pending come after all that were released already.
SortedInv ==
  /\ at = "seed" => \A i, k \in 1..Len(ready) : i < k => ready[i] < ready[k]
  /\ at \in {"pop", "release", "ordered", "cycle"} =>
       /\ \A i, k \in 1..Len(ordered) : i < k => Lex(ordered[i], ordered[k])
       /\ \A i \in 1..Len(ordered), k \in 1..Len(ready) : Lex(ordered[i], ready[k])
       /\ \A i, k \in 1..Len(ready) : i < k => Lex(ready[i], ready[k])
  /\ at = "release" =>
       \A j \in Elements(ordered) \cup Elements(ready), d \in pending :
         \A p \in 0..Len(ordered) : LastAt(j, p) => p < Len(ordered) \/ j < d
=============================================================================
