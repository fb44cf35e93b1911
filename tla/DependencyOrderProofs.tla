----------------------- MODULE DependencyOrderProofs -----------------------
(* IInv is an invariant of DependencyOrder, and with it the planner's order  *)
(* is topological and deterministic and its cycles real, at any size.        *)
EXTENDS OrderInvariant, SequenceTheorems, FiniteSetTheorems, WellFoundedInduction, TLAPS

-----------------------------------------------------------------------------
(* Queues *)

LEMMA AppendElements ==
  ASSUME NEW S, NEW s \in Seq(S), NEW e \in S
  PROVE  /\ Append(s, e) \in Seq(S)
         /\ Elements(Append(s, e)) = Elements(s) \cup {e}
         /\ Injective(s) /\ e \notin Elements(s) => Injective(Append(s, e))
<1> DEFINE t == Append(s, e)
<1>1. /\ t \in Seq(S) /\ Len(t) = Len(s) + 1 /\ t[Len(s) + 1] = e
      /\ \A i \in 1..Len(s) : t[i] = s[i]
      /\ Len(s) \in Nat
  OBVIOUS
<1> HIDE DEF t
<1>2. Elements(t) = Elements(s) \cup {e}
  <2>1. Elements(t) \subseteq Elements(s) \cup {e}
    BY <1>1 DEF Elements
  <2>2. Elements(s) \subseteq Elements(t) /\ e \in Elements(t)
    BY <1>1 DEF Elements
  <2> QED
    BY <2>1, <2>2
<1>3. ASSUME Injective(s), e \notin Elements(s) PROVE Injective(t)
  BY <1>1, <1>3 DEF Injective, Elements
<1> QED
  BY <1>1, <1>2, <1>3 DEF t

LEMMA TailElements ==
  ASSUME NEW S, NEW s \in Seq(S), s # <<>>
  PROVE  /\ Head(s) \in S /\ Tail(s) \in Seq(S) /\ s[1] = Head(s)
         /\ Elements(s) = Elements(Tail(s)) \cup {Head(s)}
         /\ Injective(s) => Injective(Tail(s)) /\ Head(s) \notin Elements(Tail(s))
<1> DEFINE t == Tail(s)
<1>1. /\ t \in Seq(S) /\ Len(t) = Len(s) - 1 /\ Head(s) = s[1] /\ s[1] \in S
      /\ \A i \in 1..Len(t) : t[i] = s[i + 1]
      /\ Len(s) \in Nat \ {0}
  OBVIOUS
<1> HIDE DEF t
<1>2. Elements(s) = Elements(t) \cup {Head(s)}
  <2>1. Elements(s) \subseteq Elements(t) \cup {Head(s)}
    <3> SUFFICES ASSUME NEW i \in 1..Len(s), i # 1 PROVE s[i] \in Elements(t)
      BY <1>1 DEF Elements
    <3>1. i - 1 \in 1..Len(t) /\ t[i - 1] = s[i]
      BY <1>1
    <3> QED
      BY <3>1 DEF Elements
  <2>2. Elements(t) \subseteq Elements(s) /\ Head(s) \in Elements(s)
    BY <1>1 DEF Elements
  <2> QED
    BY <2>1, <2>2
<1>3. ASSUME Injective(s) PROVE Injective(t) /\ Head(s) \notin Elements(t)
  <2>1. ASSUME NEW i \in 1..Len(t), NEW k \in 1..Len(t), t[i] = t[k] PROVE i = k
    <3>1. i + 1 \in 1..Len(s) /\ k + 1 \in 1..Len(s) /\ s[i + 1] = s[k + 1]
      BY <1>1, <2>1
    <3> QED
      BY <1>3, <3>1 DEF Injective
  <2>2. ASSUME NEW i \in 1..Len(t), t[i] = Head(s) PROVE FALSE
    <3>1. i + 1 \in 1..Len(s) /\ 1 \in 1..Len(s) /\ s[i + 1] = s[1] /\ i + 1 # 1
      BY <1>1, <2>2
    <3> QED
      BY <1>3, <3>1 DEF Injective
  <2> QED
    BY <2>1, <2>2 DEF Injective, Elements
<1> QED
  BY <1>1, <1>2, <1>3 DEF t

\* A sequence without repetitions is as long as its elements are many.
LEMMA InjectiveLength ==
  ASSUME NEW S, NEW s \in Seq(S), Injective(s)
  PROVE  IsFiniteSet(Elements(s)) /\ Cardinality(Elements(s)) = Len(s)
<1> DEFINE f == [i \in 1..Len(s) |-> s[i]]
<1>1. IsFiniteSet(1..Len(s)) /\ Cardinality(1..Len(s)) = Len(s)
  <2>1. Len(s) \in Nat /\ 1 \in Int /\ Len(s) \in Int
    OBVIOUS
  <2>2. /\ IsFiniteSet(1..Len(s))
        /\ Cardinality(1..Len(s)) = IF 1 > Len(s) THEN 0 ELSE Len(s) - 1 + 1
    BY <2>1, FS_Interval
  <2> QED
    BY <2>1, <2>2
<1>2. f \in Bijection(1..Len(s), Elements(s))
  BY DEF Bijection, Injection, Surjection, IsInjective, Elements, Injective
<1> QED
  BY <1>1, <1>2, FS_Bijection DEF ExistsBijection

LEMMA JobsFinite == IsFiniteSet(Jobs) /\ Cardinality(Jobs) = NumJobs
<1>1. NumJobs \in Nat \ {0} /\ 1 \in Int /\ NumJobs \in Int
  BY NumJobsAssumption
<1>2. IsFiniteSet(1..NumJobs)
      /\ Cardinality(1..NumJobs) = IF 1 > NumJobs THEN 0 ELSE NumJobs - 1 + 1
  BY <1>1, FS_Interval
<1> QED
  BY <1>1, <1>2 DEF Jobs

\* The uncounted needs of a job are finitely many, and none when counted as none.
LEMMA NeedsFinite ==
  ASSUME TypeOK, NEW j \in Jobs, NEW S
  PROVE  /\ IsFiniteSet(needs[j] \ S)
         /\ Cardinality(needs[j] \ S) \in Nat
         /\ Cardinality(needs[j] \ S) = 0 <=> needs[j] \subseteq S
         /\ \A x \in needs[j] \ S :
              Cardinality((needs[j] \ S) \ {x}) = Cardinality(needs[j] \ S) - 1
<1>1. IsFiniteSet(Jobs \cup Unknown)
  BY JobsFinite, UnknownAssumption, FS_Union
<1>2. needs[j] \ S \in SUBSET (Jobs \cup Unknown)
  BY DEF TypeOK
<1>3. IsFiniteSet(needs[j] \ S)
  BY <1>1, <1>2, FS_Subset
<1> DEFINE rest == needs[j] \ S
<1>4. Cardinality(rest) \in Nat /\ (Cardinality(rest) = 0 <=> rest = {})
  BY <1>3, FS_CardinalityType, FS_EmptySet
<1>5. \A x \in rest : Cardinality(rest \ {x}) = Cardinality(rest) - 1
  BY <1>3, FS_RemoveElement
<1> QED
  BY <1>3, <1>4, <1>5

-----------------------------------------------------------------------------
(* The invariant *)

LEMMA InitIInv == Init => IInv
<1> SUFFICES ASSUME Init PROVE IInv
  OBVIOUS
<1> USE NumJobsAssumption
<1>1. TypeOK
  BY DEF Init, TypeOK, Results
<1>2. NeedsInv /\ SeedInv /\ PendingInv /\ CountsAreExact /\ ResultInv
  BY DEF Init, NeedsInv, SeedInv, PendingInv, CountsAreExact, ResultInv
<1>3. NeedsComeFirst
  BY DEF Init, NeedsComeFirst
<1> QED
  BY <1>1, <1>2, <1>3 DEF IInv

LEMMA ScanStep ==
  ASSUME IInv, Scan
  PROVE  IInv'
<1> USE DEF IInv, Scan
<1>1. TypeOK'
  <2>1. \A j \in Jobs : Cardinality(needs[j] \ {}) \in Nat /\ needs[j] \ {} = needs[j]
    BY NeedsFinite
  <2> QED
    BY <2>1 DEF TypeOK, Results
<1>2. NeedsInv'
  BY DEF NeedsInv, BadNeeds
<1>3. SeedInv'
  BY NumJobsAssumption DEF SeedInv, Elements, Injective, Jobs
<1>4. PendingInv' /\ CountsAreExact' /\ NeedsComeFirst' /\ ResultInv'
  BY DEF SeedInv, PendingInv, CountsAreExact, NeedsComeFirst, ResultInv
<1> QED
  BY <1>1, <1>2, <1>3, <1>4

LEMMA SeedStep ==
  ASSUME IInv, Seed
  PROVE  IInv'
<1> USE DEF IInv
<1>1. CASE seed <= NumJobs
  <2>1. /\ at = "seed" /\ at' = "seed" /\ seed \in Jobs /\ seed' = seed + 1
        /\ UNCHANGED <<needs, indegree, ordered, pending>>
        /\ ready' = IF indegree[seed] = 0 THEN Append(ready, seed) ELSE ready
    BY <1>1, NumJobsAssumption DEF Seed, TypeOK, Jobs
  <2>2. seed \notin Elements(ready) /\ ready \in Seq(Jobs)
    BY <2>1 DEF SeedInv, TypeOK, Jobs
  <2>3. /\ ready' \in Seq(Jobs) /\ Injective(ready)'
        /\ Elements(ready)' =
             Elements(ready) \cup (IF indegree[seed] = 0 THEN {seed} ELSE {})
    <3>1. CASE indegree[seed] = 0
      BY <2>1, <2>2, <3>1, AppendElements DEF SeedInv
    <3>2. CASE indegree[seed] # 0
      BY <2>1, <2>2, <3>2 DEF SeedInv, Elements, Injective
    <3> QED
      BY <3>1, <3>2
  <2>4. TypeOK'
    BY <2>1, <2>3, NumJobsAssumption DEF TypeOK, Jobs
  <2>5. SeedInv'
    <3>1. \A j \in Jobs : j \in Elements(ready)' <=> j < seed + 1 /\ indegree[j] = 0
      BY <2>1, <2>3 DEF SeedInv, TypeOK, Jobs
    <3> QED
      BY <2>1, <2>3, <3>1 DEF SeedInv
  <2> QED
    BY <2>1, <2>4, <2>5 DEF NeedsInv, BadNeeds, PendingInv, CountsAreExact,
       NeedsComeFirst, ResultInv
<1>2. CASE seed > NumJobs
  <2>1. /\ at = "seed" /\ at' = "pop"
        /\ UNCHANGED <<needs, seed, indegree, ready, ordered, pending>>
    BY <1>2, NumJobsAssumption DEF Seed, TypeOK, Jobs
  <2>2. ordered = <<>> /\ pending = {} /\ Elements(ordered) = {} /\ Len(ordered) = 0
    BY <2>1 DEF SeedInv, PendingInv, Elements
  <2>3. \A j \in Jobs : indegree[j] = Cardinality(needs[j] \ Counted(j))
    BY <2>1, <2>2 DEF SeedInv, Counted
  <2>4. \A j \in Jobs : j \in Elements(ready) <=> indegree[j] = 0
    BY <1>2, <2>1, NumJobsAssumption DEF SeedInv, TypeOK, Jobs
  <2>5. CountsAreExact'
    BY <2>1, <2>2, <2>3, <2>4 DEF CountsAreExact, Counted, SeedInv, Injective, Elements
  <2> QED
    BY <2>1, <2>2, <2>5 DEF TypeOK, NeedsInv, BadNeeds, SeedInv, PendingInv,
       NeedsComeFirst, ResultInv
<1> QED
  BY <1>1, <1>2, NumJobsAssumption DEF TypeOK, Seed

LEMMA PopStep ==
  ASSUME IInv, Pop
  PROVE  IInv'
<1> USE DEF IInv
<1>0. at = "pop" /\ pending = {} /\ UNCHANGED <<needs, seed, indegree>>
  BY DEF Pop, PendingInv
<1>1. CASE ready # <<>>
  <2> DEFINE h == Head(ready)
  <2>1. /\ at' = "release" /\ pending' = Children(h)
        /\ ordered' = Append(ordered, h) /\ ready' = Tail(ready)
    BY <1>1, <1>0 DEF Pop
  <2>2. /\ h \in Jobs /\ ready' \in Seq(Jobs)
        /\ Elements(ready) = Elements(ready)' \cup {h}
        /\ Injective(ready)' /\ h \notin Elements(ready)'
    BY <1>0, <1>1, <2>1, TailElements DEF TypeOK, CountsAreExact
  <2>3. h \notin Elements(ordered) /\ indegree[h] = 0
    BY <1>0, <2>2 DEF CountsAreExact
  <2>4. /\ ordered' \in Seq(Jobs) /\ Injective(ordered)'
        /\ Elements(ordered)' = Elements(ordered) \cup {h}
    BY <1>0, <2>1, <2>2, <2>3, AppendElements DEF TypeOK, CountsAreExact
  <2>5. /\ Len(ordered') = Len(ordered) + 1 /\ ordered'[Len(ordered')] = h
        /\ Len(ordered) \in Nat
        /\ \A i \in 1..Len(ordered) : ordered'[i] = ordered[i]
    BY <2>1, <2>2 DEF TypeOK
  <2> HIDE DEF h
  <2>6. TypeOK'
    BY <1>0, <2>1, <2>2, <2>4 DEF TypeOK, Children
  <2>7. PendingInv'
    <3>1. ordered' # <<>>
      BY <2>5
    <3>2. \A c \in pending' : h \in needs'[c]
      BY <1>0, <2>1 DEF Children
    <3> QED
      BY <2>1, <2>5, <3>1, <3>2 DEF PendingInv
  <2>8. CountsAreExact'
    <3>1. ASSUME NEW j \in Jobs PROVE needs[j] \ Counted(j)' = needs[j] \ Counted(j)
      <4>1. Counted(j) = Elements(ordered)
        BY <1>0 DEF Counted
      <4>2. Counted(j)' = (Elements(ordered) \cup {h})
                            \ (IF h \in needs[j] THEN {h} ELSE {})
        BY <1>0, <2>1, <2>4, <2>5 DEF Counted, Children
      <4> QED
        BY <2>3, <4>1, <4>2
    <3>2. \A j \in Jobs : indegree'[j] = Cardinality(needs'[j] \ Counted(j)')
      BY <1>0, <3>1 DEF CountsAreExact
    <3>3. Elements(ordered)' \cup Elements(ready)' = Elements(ordered) \cup Elements(ready)
      BY <2>2, <2>4
    <3>4. Elements(ordered)' \cap Elements(ready)' = {}
      BY <1>0, <2>2, <2>4 DEF CountsAreExact
    <3> QED
      BY <1>0, <2>2, <2>4, <3>2, <3>3, <3>4 DEF CountsAreExact
  <2>9. NeedsComeFirst'
    <3>1. needs[h] \subseteq Elements(ordered)
      <4>1. indegree[h] = Cardinality(needs[h] \ Counted(h)) /\ Counted(h) = Elements(ordered)
        BY <1>0, <2>2 DEF CountsAreExact, Counted
      <4> QED
        BY <2>2, <2>3, <4>1, NeedsFinite
    <3>2. ASSUME NEW i \in 1..Len(ordered')
          PROVE  needs[ordered'[i]] \subseteq {ordered'[k] : k \in 1..i - 1}
      <4>1. CASE i = Len(ordered) + 1
        BY <2>5, <3>1, <4>1 DEF Elements
      <4>2. CASE i \in 1..Len(ordered)
        <5>1. {ordered'[k] : k \in 1..i - 1} = {ordered[k] : k \in 1..i - 1}
          BY <2>5, <4>2
        <5>2. needs[ordered[i]] \subseteq {ordered[k] : k \in 1..i - 1}
          BY <4>2 DEF NeedsComeFirst
        <5> QED
          BY <2>5, <4>2, <5>1, <5>2
      <4> QED
        BY <2>5, <4>1, <4>2
    <3> QED
      BY <1>0, <3>2 DEF NeedsComeFirst
  <2> QED
    BY <1>0, <2>1, <2>6, <2>7, <2>8, <2>9 DEF NeedsInv, BadNeeds, SeedInv, ResultInv
<1>2. CASE ready = <<>>
  <2>1. /\ at' = Verdict /\ UNCHANGED <<ready, ordered, pending>>
    BY <1>2, <1>0 DEF Pop
  <2>2. Verdict \in {"ordered", "cycle"} /\ (Verdict = "ordered" <=> Len(ordered) = NumJobs)
    BY DEF Verdict
  <2>3. CountsAreExact'
    <3>1. CountsAreExact
      BY DEF IInv
    <3>2. at' \in {"ordered", "cycle"} /\ at = "pop"
      BY <1>0, <2>1, <2>2
    <3>3. UNCHANGED <<needs, indegree, ready, ordered, pending>>
      BY <1>0, <2>1
    <3>4. \A j \in Jobs : Counted(j)' = Counted(j)
      BY <3>3 DEF Counted, Elements
    <3>5. Elements(ordered)' = Elements(ordered) /\ Elements(ready)' = Elements(ready)
      BY <3>3
    <3>6. Injective(ordered)' = Injective(ordered) /\ Injective(ready)' = Injective(ready)
      BY <3>3
    <3> HIDE DEF IInv
    <3> QED
      BY <3>1, <3>2, <3>3, <3>4, <3>5, <3>6 DEF CountsAreExact
  <2>4. NeedsComeFirst'
    BY <1>0, <2>1 DEF NeedsComeFirst
  <2> QED
    BY <1>0, <1>2, <2>1, <2>2, <2>3, <2>4 DEF TypeOK, Results, NeedsInv, BadNeeds, SeedInv,
       PendingInv, ResultInv
<1> QED
  BY <1>1, <1>2

LEMMA ReleaseStep ==
  ASSUME IInv, Release
  PROVE  IInv'
<1> USE DEF IInv
<1>0. at = "release" /\ UNCHANGED <<needs, seed, ordered>>
  BY DEF Release
<1>1. CASE pending = {} /\ at' = "pop" /\ UNCHANGED <<indegree, ready, pending>>
  <2>1. CountsAreExact'
    BY <1>0, <1>1 DEF CountsAreExact, Counted, Elements, Injective
  <2> QED
    BY <1>0, <1>1, <2>1 DEF TypeOK, Results, NeedsInv, BadNeeds, SeedInv, PendingInv,
       NeedsComeFirst, ResultInv
<1>2. ASSUME NEW c \in NextChild, at' = at,
             indegree' = [indegree EXCEPT ![c] = @ - 1],
             ready' = IF Released(c) THEN Append(ready, c) ELSE ready,
             pending' = pending \ {c}
      PROVE  IInv'
  <2> DEFINE last == ordered[Len(ordered)]
  <2>1. c \in pending /\ c \in Jobs /\ last \in needs[c] /\ last \in Elements(ordered)
    <3>1. c \in pending /\ c \in Jobs /\ ordered # <<>> /\ last \in needs[c]
      BY <1>0 DEF NextChild, TypeOK, PendingInv
    <3>2. Len(ordered) \in 1..Len(ordered)
      BY <3>1 DEF TypeOK
    <3> QED
      BY <3>1, <3>2 DEF Elements
  <2> HIDE DEF last
  <2>2. /\ Counted(c) = Elements(ordered) \ {last}
        /\ Counted(c)' = Elements(ordered)
        /\ \A j \in Jobs \ {c} : Counted(j)' = Counted(j)
    BY <1>0, <1>2, <2>1 DEF Counted, Elements, last
  <2>3. /\ indegree[c] = Cardinality(needs[c] \ Counted(c))
        /\ indegree[c] - 1 = Cardinality(needs[c] \ Elements(ordered))
        /\ indegree[c] - 1 \in Nat
    <3>1. last \in needs[c] \ Counted(c)
      BY <2>1, <2>2
    <3>2. (needs[c] \ Counted(c)) \ {last} = needs[c] \ Elements(ordered)
      BY <2>1, <2>2
    <3>3. indegree[c] = Cardinality(needs[c] \ Counted(c))
      BY <1>0, <2>1 DEF CountsAreExact
    <3>4. Cardinality((needs[c] \ Counted(c)) \ {last}) = indegree[c] - 1
      BY <2>1, <3>1, <3>3, NeedsFinite
    <3>5. Cardinality(needs[c] \ Elements(ordered)) \in Nat
      BY <2>1, NeedsFinite
    <3> QED
      BY <3>2, <3>3, <3>4, <3>5
  <2>4. /\ indegree'[c] = indegree[c] - 1
        /\ \A j \in Jobs \ {c} : indegree'[j] = indegree[j]
        /\ indegree' \in [Jobs -> Nat]
    BY <1>2, <2>1, <2>3 DEF TypeOK
  <2>5. c \notin Elements(ordered) \cup Elements(ready)
    BY <1>0, <2>1, <2>3 DEF CountsAreExact
  <2>6. /\ ready' \in Seq(Jobs) /\ Injective(ready)'
        /\ Elements(ready)' = Elements(ready) \cup (IF indegree'[c] = 0 THEN {c} ELSE {})
    <3>1. CASE Released(c)
      <4>1. indegree'[c] = 0 /\ ready' = Append(ready, c)
        BY <1>2, <2>4, <3>1 DEF Released
      <4> QED
        BY <1>0, <2>1, <2>5, <4>1, AppendElements DEF TypeOK, CountsAreExact
    <3>2. CASE ~Released(c)
      <4>1. indegree'[c] # 0 /\ ready' = ready
        BY <1>2, <2>3, <2>4, <3>2 DEF Released
      <4> QED
        BY <1>0, <4>1 DEF TypeOK, CountsAreExact, Elements, Injective
    <3> QED
      BY <3>1, <3>2
  <2>7. TypeOK'
    BY <1>0, <1>2, <2>4, <2>6 DEF TypeOK
  <2>8. PendingInv'
    BY <1>0, <1>2 DEF PendingInv
  <2>9. CountsAreExact'
    <3>1. \A j \in Jobs : indegree'[j] = Cardinality(needs'[j] \ Counted(j)')
      BY <1>0, <2>2, <2>3, <2>4 DEF CountsAreExact
    <3>2. \A j \in Jobs :
            j \in Elements(ordered) \cup Elements(ready)' <=> indegree'[j] = 0
      <4>1. \A j \in Jobs :
              j \in Elements(ordered) \cup Elements(ready) <=> indegree[j] = 0
        BY <1>0 DEF CountsAreExact
      <4>2. ASSUME NEW j \in Jobs \ {c}
            PROVE  j \in Elements(ordered) \cup Elements(ready)' <=> indegree'[j] = 0
        BY <2>4, <2>6, <4>1, <4>2
      <4>3. c \in Elements(ordered) \cup Elements(ready)' <=> indegree'[c] = 0
        BY <2>5, <2>6
      <4> QED
        BY <4>2, <4>3
    <3>3. Elements(ordered)' = Elements(ordered) /\ Injective(ordered)'
      BY <1>0 DEF CountsAreExact, Elements, Injective
    <3>4. Elements(ordered) \cap Elements(ready)' = {}
      BY <1>0, <2>5, <2>6 DEF CountsAreExact
    <3> QED
      BY <2>6, <3>1, <3>2, <3>3, <3>4 DEF CountsAreExact
  <2> QED
    BY <1>0, <1>2, <2>7, <2>8, <2>9 DEF NeedsInv, BadNeeds, SeedInv, NeedsComeFirst, ResultInv
<1> QED
  BY <1>1, <1>2 DEF Release

LEMMA Inductive == IInv /\ [Next]_vars => IInv'
<1> SUFFICES ASSUME IInv, [Next]_vars PROVE IInv'
  OBVIOUS
<1>1. CASE UNCHANGED vars
  <2> USE <1>1 DEF vars, IInv
  <2>1. TypeOK' /\ NeedsInv' /\ PendingInv' /\ ResultInv'
    BY DEF TypeOK, NeedsInv, BadNeeds, PendingInv, ResultInv
  <2>2. SeedInv' /\ NeedsComeFirst'
    BY DEF SeedInv, Elements, Injective, NeedsComeFirst
  <2>3. CountsAreExact'
    <3>1. \A j \in Jobs : Counted(j)' = Counted(j)
      BY DEF Counted, Elements
    <3>2. /\ Elements(ordered)' = Elements(ordered) /\ Elements(ready)' = Elements(ready)
          /\ Injective(ordered)' = Injective(ordered) /\ Injective(ready)' = Injective(ready)
      BY DEF Elements, Injective
    <3> QED
      BY <3>1, <3>2 DEF CountsAreExact
  <2> QED
    BY <2>1, <2>2, <2>3
<1> QED
  BY <1>1, ScanStep, SeedStep, PopStep, ReleaseStep DEF Next, Returned

\* The strengthened invariant of the planner's ordering.
THEOREM Invariance == Spec => []IInv
BY InitIInv, Inductive, PTL DEF Spec

\* The function's state is well typed: no count ever falls below zero.
THEOREM TypeCorrect == Spec => []TypeOK
<1>1. IInv => TypeOK
  BY DEF IInv
<1> QED
  BY <1>1, Invariance, PTL

\* Each count is exact, and each job is queued once, when it reaches zero.
THEOREM ExactCounts == Spec => []CountsAreExact
<1>1. IInv => CountsAreExact
  BY DEF IInv
<1> QED
  BY <1>1, Invariance, PTL

\* An accepted workflow of any size has all its jobs in order, needs first.
THEOREM Topological == Spec => []OrderIsTopological
<1>1. IInv => OrderIsTopological
  <2> SUFFICES ASSUME IInv, at = "ordered" PROVE
        /\ Len(ordered) = NumJobs
        /\ \A j \in Jobs : \E i \in DOMAIN ordered :
             ordered[i] = j /\ \A n \in needs[j] : \E k \in 1..i - 1 : ordered[k] = n
    BY DEF OrderIsTopological
  <2>1. Len(ordered) = NumJobs /\ ordered \in Seq(Jobs) /\ Injective(ordered)
    BY DEF IInv, TypeOK, ResultInv, CountsAreExact
  <2>2. Elements(ordered) = Jobs
    <3>1. Cardinality(Elements(ordered)) = NumJobs
      BY <2>1, InjectiveLength
    <3>2. Elements(ordered) \in SUBSET Jobs
      BY <2>1 DEF Elements
    <3> QED
      BY <3>1, <3>2, JobsFinite, FS_Subset
  <2>3. ASSUME NEW j \in Jobs
        PROVE  \E i \in DOMAIN ordered :
                 ordered[i] = j /\ \A n \in needs[j] : \E k \in 1..i - 1 : ordered[k] = n
    <3>1. PICK i \in 1..Len(ordered) : ordered[i] = j
      BY <2>2 DEF Elements
    <3>2. needs[j] \subseteq {ordered[k] : k \in 1..i - 1}
      BY <3>1 DEF IInv, NeedsComeFirst
    <3> QED
      BY <2>1, <3>1, <3>2
  <2> QED
    BY <2>1, <2>3
<1> QED
  BY <1>1, Invariance, PTL

\* A workflow of any size refused for a cycle has one.
THEOREM RealCycle == Spec => []CycleIsReal
<1>1. IInv => CycleIsReal
  <2> SUFFICES ASSUME IInv, at = "cycle"
               PROVE  \E cycle \in SUBSET Jobs \ {{}} :
                        \A j \in cycle : needs[j] \cap cycle # {}
    BY DEF CycleIsReal
  <2> DEFINE left == Jobs \ Elements(ordered)
  <2>1. /\ Len(ordered) # NumJobs /\ ready = <<>> /\ pending = {} /\ ~BadNeeds
        /\ ordered \in Seq(Jobs) /\ Injective(ordered)
    BY DEF IInv, TypeOK, ResultInv, PendingInv, NeedsInv, CountsAreExact
  <2>2. left # {}
    <3>1. SUFFICES ASSUME left = {} PROVE FALSE
      OBVIOUS
    <3>2. Elements(ordered) = Jobs
      BY <2>1, <3>1 DEF Elements
    <3> QED
      BY <2>1, <3>2, InjectiveLength, JobsFinite
  <2>3. ASSUME NEW j \in left PROVE needs[j] \cap left # {}
    <3>1. Counted(j) = Elements(ordered) /\ Elements(ready) = {}
      BY <2>1 DEF Counted, Elements
    <3>2. Cardinality(needs[j] \ Elements(ordered)) # 0
      BY <3>1 DEF IInv, CountsAreExact
    <3>3. ~(needs[j] \subseteq Elements(ordered))
      BY <3>2, NeedsFinite DEF IInv
    <3>4. needs[j] \subseteq Jobs
      BY <2>1 DEF BadNeeds, IInv, TypeOK
    <3> QED
      BY <3>3, <3>4
  <2> QED
    BY <2>2, <2>3
<1> QED
  BY <1>1, Invariance, PTL

-----------------------------------------------------------------------------
(* The order is settled by the dependencies *)

LEMMA MaxOf ==
  ASSUME NEW L \in Nat, NEW S \in SUBSET (1..L), S # {}
  PROVE  \E m \in S : \A x \in S : x <= m
<1> DEFINE less == OpToRel(<, Nat)
           T == {L - x : x \in S}
<1>1. IsWellFoundedOn(less, Nat)
  BY NatLessThanWellFounded
<1>2. \A x, y \in Nat : x < y => <<x, y>> \in less
  BY DEF OpToRel
<1> HIDE DEF less
<1>3. T \subseteq Nat /\ T # {}
  <2>1. \A x \in S : L - x \in Nat
    OBVIOUS
  <2>2. PICK x \in S : TRUE
    OBVIOUS
  <2>3. L - x \in T
    BY <2>2
  <2> QED
    BY <2>1, <2>3
<1>4. PICK t \in T : \A u \in T : ~(<<u, t>> \in less)
  BY <1>1, <1>3, WFMin
<1>5. PICK m \in S : t = L - m
  BY <1>4
<1>6. ASSUME NEW x \in S PROVE x <= m
  <2>1. L - x \in T /\ L - x \in Nat /\ L - m \in Nat
    BY <1>3, <1>5
  <2>2. ~(L - x < L - m)
    BY <1>2, <1>4, <1>5, <2>1
  <2> QED
    BY <2>2
<1> QED
  BY <1>5, <1>6

\* What is queued or ordered needs only what is ordered already.
LEMMA QueuedNeeds ==
  ASSUME IInv, at \in {"pop", "release", "ordered", "cycle"},
         NEW j \in Elements(ordered) \cup Elements(ready)
  PROVE  j \in Jobs /\ needs[j] \subseteq Elements(ordered) /\ j \notin pending
<1>1. j \in Jobs
  BY DEF IInv, TypeOK, Elements
<1>2. indegree[j] = 0 /\ indegree[j] = Cardinality(needs[j] \ Counted(j))
  BY <1>1 DEF IInv, CountsAreExact
<1>3. needs[j] \subseteq Counted(j)
  BY <1>1, <1>2, NeedsFinite DEF IInv
<1>4. j \notin pending
  <2>1. ASSUME j \in pending PROVE FALSE
    <3>1. at = "release" /\ ordered # <<>> /\ ordered[Len(ordered)] \in needs[j]
      BY <2>1 DEF IInv, PendingInv
    <3>2. ordered[Len(ordered)] \notin Counted(j)
      BY <2>1 DEF Counted
    <3> QED
      BY <1>3, <3>1, <3>2
  <2> QED
    BY <2>1
<1> QED
  BY <1>1, <1>3, <1>4 DEF Counted

LEMMA InitSorted == Init => SortedInv
BY DEF Init, SortedInv

LEMMA SeedSorted ==
  ASSUME IInv, SortedInv, Seed
  PROVE  SortedInv'
<1>1. at = "seed" /\ ordered = <<>> /\ UNCHANGED <<needs, indegree, ordered, pending>>
  BY DEF IInv, SeedInv, Seed
<1>2. ready \in Seq(Jobs) /\ Len(ready) \in Nat /\ seed \in Nat
  BY DEF IInv, TypeOK
<1>3. CASE ready' = Append(ready, seed) /\ at' = "seed"
  <2>1. \A i \in 1..Len(ready) : ready[i] < seed /\ ready[i] \in Nat
    <3>1. \A i \in 1..Len(ready) : ready[i] \in Jobs /\ ready[i] \in Elements(ready)
      BY <1>2, ElementOfSeq DEF Elements
    <3> QED
      BY <1>1, <3>1, NumJobsAssumption DEF IInv, SeedInv, Jobs
  <2>2. Len(ready') = Len(ready) + 1 /\ ready'[Len(ready) + 1] = seed
        /\ \A i \in 1..Len(ready) : ready'[i] = ready[i]
    BY <1>2, <1>3
  <2>3. \A i, k \in 1..Len(ready') : i < k => ready'[i] < ready'[k]
    BY <1>1, <1>2, <2>1, <2>2 DEF SortedInv
  <2> QED
    BY <1>3, <2>3 DEF SortedInv
<1>4. CASE ready' = ready /\ at' = "seed"
  BY <1>1, <1>4 DEF SortedInv
<1>5. CASE ready' = ready /\ at' = "pop"
  <2>1. Len(ordered') = 0 /\ Len(ordered) = 0
    BY <1>1
  <2>2. \A i, j : i < j => Lex(i, j)'
    BY <2>1 DEF Lex
  <2>3. \A i, k \in 1..Len(ready') : i < k => ready'[i] < ready'[k]
    BY <1>1, <1>5 DEF SortedInv
  <2>4. \A i, k \in 1..Len(ready') : \A x, y : x = ready'[i] /\ y = ready'[k] /\ i < k => Lex(x, y)'
    BY <2>2, <2>3
  <2> QED
    BY <1>5, <2>1, <2>4 DEF SortedInv
<1> QED
  BY <1>3, <1>4, <1>5 DEF Seed

\* The head of the queue is ordered: no need of a queued or ordered job moves.
LEMMA PopSorted ==
  ASSUME IInv, SortedInv, Pop, IInv'
  PROVE  SortedInv'
<1>0. at = "pop" /\ pending = {} /\ UNCHANGED needs
  BY DEF IInv, PendingInv, Pop
<1>1. CASE ready = <<>>
  <2>1. at' \in {"ordered", "cycle"} /\ UNCHANGED <<ready, ordered, pending>>
    BY <1>0, <1>1 DEF Pop, Verdict
  <2>2. \A i, j : Lex(i, j) => Lex(i, j)'
    BY <1>0, <2>1 DEF Lex, LastAt
  <2>3. /\ \A i, k \in 1..Len(ordered') : i < k => Lex(ordered[i], ordered[k])
        /\ \A i \in 1..Len(ordered'), k \in 1..Len(ready') : Lex(ordered[i], ready[k])
        /\ \A i, k \in 1..Len(ready') : i < k => Lex(ready[i], ready[k])
    BY <1>0, <2>1 DEF SortedInv
  <2> QED
    BY <2>1, <2>2, <2>3 DEF SortedInv
<1>2. CASE ready # <<>>
  <2> DEFINE L == Len(ordered)
             R == Len(ready)
  <2>1. /\ L \in Nat /\ R \in Nat \ {0} /\ Len(ordered') = L + 1 /\ Len(ready') = R - 1
        /\ ordered'[L + 1] = ready[1] /\ at' = "release" /\ ready[1] \in Jobs
        /\ \A i \in 1..L : ordered'[i] = ordered[i]
        /\ \A i \in 1..R - 1 : ready'[i] = ready[i + 1]
    <3>1. /\ ordered' = Append(ordered, Head(ready)) /\ ready' = Tail(ready) /\ at' = "release"
          /\ ordered \in Seq(Jobs) /\ ready \in Seq(Jobs)
      BY <1>2 DEF Pop, IInv, TypeOK
    <3>2. L \in Nat /\ R \in Nat \ {0} /\ Head(ready) = ready[1] /\ ready[1] \in Jobs
      BY <1>2, <3>1
    <3>3. /\ Len(ordered') = L + 1 /\ ordered'[L + 1] = ready[1]
          /\ \A i \in 1..L : ordered'[i] = ordered[i]
      BY <3>1, <3>2
    <3>4. Len(ready') = R - 1 /\ \A i \in 1..R - 1 : ready'[i] = ready[i + 1]
      BY <3>1, <3>2
    <3> QED
      BY <3>1, <3>2, <3>3, <3>4
  <2> HIDE DEF L, R
  <2>2. ready[1] \notin Elements(ordered)
    <3>1. ready[1] \in Elements(ready)
      BY <2>1 DEF Elements, R
    <3> QED
      BY <1>0, <3>1 DEF IInv, CountsAreExact
  <2>3. ASSUME NEW j \in Elements(ordered) \cup Elements(ready), NEW p \in 0..L + 1, LastAt(j, p)'
        PROVE  p \in 0..L /\ LastAt(j, p)
    <3>1. needs[j] \subseteq Elements(ordered)
      BY <1>0, QueuedNeeds
    <3>2. p # L + 1
      BY <1>0, <2>1, <2>2, <2>3, <3>1 DEF LastAt
    <3>3. p \in 0..L
      BY <2>1, <3>2
    <3>4. {ordered'[k] : k \in 1..p} = {ordered[k] : k \in 1..p}
      BY <2>1, <3>3
    <3>5. CASE p = 0
      BY <1>0, <2>3, <3>3, <3>5 DEF LastAt, L
    <3>6. CASE p # 0
      <4>1. ordered'[p] \in needs[j] /\ needs[j] \subseteq {ordered'[k] : k \in 1..p}
        BY <1>0, <2>3, <3>6 DEF LastAt
      <4>2. ordered'[p] = ordered[p]
        BY <2>1, <3>3, <3>6
      <4> QED
        BY <3>3, <3>4, <3>6, <4>1, <4>2 DEF LastAt, L
    <3> QED
      BY <3>3, <3>5, <3>6
  <2>4. ASSUME NEW i \in Elements(ordered) \cup Elements(ready),
               NEW j \in Elements(ordered) \cup Elements(ready), Lex(i, j)
        PROVE  Lex(i, j)'
    BY <2>1, <2>3, <2>4 DEF Lex, L
  <2>5. /\ \A i \in 1..L : ordered[i] \in Elements(ordered)
        /\ \A i \in 1..R : ready[i] \in Elements(ready)
    BY DEF Elements, L, R
  <2>6. /\ \A i, k \in 1..L : i < k => Lex(ordered[i], ordered[k])
        /\ \A i \in 1..L, k \in 1..R : Lex(ordered[i], ready[k])
        /\ \A i, k \in 1..R : i < k => Lex(ready[i], ready[k])
    BY <1>0 DEF SortedInv, L, R
  <2>7. \A i, k \in 1..Len(ordered') : i < k =>
          \A x, y : x = ordered'[i] /\ y = ordered'[k] => Lex(x, y)'
    <3> SUFFICES ASSUME NEW i \in 1..L + 1, NEW k \in 1..L + 1, i < k
                 PROVE  \A x, y : x = ordered'[i] /\ y = ordered'[k] => Lex(x, y)'
      BY <2>1
    <3>1. i \in 1..L
      BY <2>1
    <3>2. CASE k \in 1..L
      BY <2>1, <2>4, <2>5, <2>6, <3>1, <3>2
    <3>3. CASE k = L + 1
      <4>1. 1 \in 1..R
        BY <2>1
      <4> QED
        BY <2>1, <2>4, <2>5, <2>6, <3>1, <3>3, <4>1
    <3> QED
      BY <2>1, <3>2, <3>3
  <2>8. \A i \in 1..Len(ordered'), k \in 1..Len(ready') :
          \A x, y : x = ordered'[i] /\ y = ready'[k] => Lex(x, y)'
    <3> SUFFICES ASSUME NEW i \in 1..L + 1, NEW k \in 1..R - 1
                 PROVE  \A x, y : x = ordered'[i] /\ y = ready'[k] => Lex(x, y)'
      BY <2>1
    <3>1. k + 1 \in 1..R /\ 1 \in 1..R /\ 1 < k + 1 /\ ready'[k] = ready[k + 1]
      BY <2>1
    <3>2. CASE i \in 1..L
      <4>1. Lex(ordered[i], ready[k + 1]) /\ ordered'[i] = ordered[i]
        BY <2>1, <2>6, <3>1, <3>2
      <4> QED
        BY <2>4, <2>5, <3>1, <3>2, <4>1
    <3>3. CASE i = L + 1
      <4>1. Lex(ready[1], ready[k + 1]) /\ ordered'[i] = ready[1]
        BY <2>1, <2>6, <3>1, <3>3
      <4> QED
        BY <2>4, <2>5, <3>1, <4>1
    <3> QED
      BY <2>1, <3>2, <3>3
  <2>9. \A i, k \in 1..Len(ready') : i < k =>
          \A x, y : x = ready'[i] /\ y = ready'[k] => Lex(x, y)'
    <3> SUFFICES ASSUME NEW i \in 1..R - 1, NEW k \in 1..R - 1, i < k
                 PROVE  \A x, y : x = ready'[i] /\ y = ready'[k] => Lex(x, y)'
      BY <2>1
    <3>1. /\ i + 1 \in 1..R /\ k + 1 \in 1..R /\ i + 1 < k + 1
          /\ ready'[i] = ready[i + 1] /\ ready'[k] = ready[k + 1]
      BY <2>1
    <3>2. Lex(ready[i + 1], ready[k + 1])
      BY <2>6, <3>1
    <3> QED
      BY <2>4, <2>5, <3>1, <3>2
  <2>10. ASSUME NEW j \in Elements(ordered)' \cup Elements(ready)'
         PROVE  \A p \in 0..Len(ordered') : LastAt(j, p)' => p < Len(ordered')
    <3>1. j \in Elements(ordered) \cup Elements(ready)
      <4>1. Elements(ordered)' \subseteq Elements(ordered) \cup {ready[1]}
        BY <2>1 DEF Elements, L
      <4>2. ready[1] \in Elements(ready)
        BY <2>1 DEF Elements, R
      <4>3. \A i \in 1..R - 1 : i + 1 \in 1..R /\ ready'[i] = ready[i + 1]
        BY <2>1
      <4>4. Elements(ready)' \subseteq Elements(ready)
        BY <2>1, <4>3 DEF Elements, R
      <4> QED
        BY <4>1, <4>2, <4>4
    <3> QED
      BY <2>1, <2>3, <3>1
  <2> QED
    BY <2>1, <2>7, <2>8, <2>9, <2>10 DEF SortedInv
<1> QED
  BY <1>1, <1>2

\* A released child comes after all that were released for the same need.
LEMMA ReleaseSorted ==
  ASSUME IInv, SortedInv, Release
  PROVE  SortedInv'
<1>0. at = "release" /\ UNCHANGED <<needs, ordered>>
  BY DEF Release
<1>1. \A i, j : Lex(i, j) => Lex(i, j)'
  BY <1>0 DEF Lex, LastAt
<1>2. /\ \A i, k \in 1..Len(ordered) : i < k => Lex(ordered[i], ordered[k])
      /\ \A i \in 1..Len(ordered), k \in 1..Len(ready) : Lex(ordered[i], ready[k])
      /\ \A i, k \in 1..Len(ready) : i < k => Lex(ready[i], ready[k])
  BY <1>0 DEF SortedInv
<1>3. CASE pending = {} /\ at' = "pop" /\ UNCHANGED <<indegree, ready, pending>>
  BY <1>0, <1>1, <1>2, <1>3 DEF SortedInv
<1>4. ASSUME NEW c \in NextChild, at' = "release", pending' = pending \ {c},
             ready' = IF Released(c) THEN Append(ready, c) ELSE ready
      PROVE  SortedInv'
  <2>1. /\ c \in pending /\ c \in Jobs /\ ordered[Len(ordered)] \in needs[c]
        /\ Len(ordered) \in Nat \ {0} /\ Injective(ordered) /\ Len(ready) \in Nat
        /\ pending \subseteq Jobs
    BY <1>0, <1>4 DEF NextChild, IInv, TypeOK, PendingInv, CountsAreExact
  <2>2. \A d \in pending \ {c} : c < d
    BY <1>4, <2>1, NumJobsAssumption DEF NextChild, Jobs
  <2>3. ASSUME NEW q \in 0..Len(ordered), LastAt(c, q)
        PROVE  q = Len(ordered)
    <3>1. q # 0 /\ needs[c] \subseteq {ordered[k] : k \in 1..q}
      BY <2>1, <2>3 DEF LastAt
    <3>2. PICK k \in 1..q : ordered[k] = ordered[Len(ordered)]
      BY <2>1, <3>1
    <3> QED
      BY <2>1, <3>2 DEF Injective
  <2>4. \A j \in Elements(ordered) \cup Elements(ready), d \in pending :
          \A p \in 0..Len(ordered) : LastAt(j, p) => p < Len(ordered) \/ j < d
    BY <1>0 DEF SortedInv
  <2>5. \A j \in Elements(ordered) \cup Elements(ready) : Lex(j, c)
    BY <2>1, <2>3, <2>4 DEF Lex
  <2>6. \A j, p : LastAt(j, p)' => LastAt(j, p)
    BY <1>0 DEF LastAt
  <2>7. CASE ~Released(c)
    <3>1. ready' = ready
      BY <1>4, <2>7
    <3> QED
      BY <1>0, <1>1, <1>2, <1>4, <2>4, <2>6, <3>1 DEF SortedInv, Elements
  <2>8. CASE Released(c)
    <3>1. /\ Len(ready') = Len(ready) + 1 /\ ready'[Len(ready) + 1] = c
          /\ \A i \in 1..Len(ready) : ready'[i] = ready[i]
          /\ Elements(ready') = Elements(ready) \cup {c}
      BY <1>4, <2>1, <2>8, AppendElements DEF IInv, TypeOK
    <3>2. /\ \A i \in 1..Len(ordered) : ordered[i] \in Elements(ordered)
          /\ \A i \in 1..Len(ready) : ready[i] \in Elements(ready)
      BY DEF Elements
    <3>3. \A i \in 1..Len(ordered), k \in 1..Len(ready') : Lex(ordered[i], ready'[k])
      BY <1>2, <2>1, <2>5, <3>1, <3>2
    <3>4. \A i, k \in 1..Len(ready') : i < k => Lex(ready'[i], ready'[k])
      <4> SUFFICES ASSUME NEW i \in 1..Len(ready) + 1, NEW k \in 1..Len(ready) + 1, i < k
                   PROVE  Lex(ready'[i], ready'[k])
        BY <3>1
      <4>1. i \in 1..Len(ready) /\ ready'[i] = ready[i]
        BY <2>1, <3>1
      <4>2. CASE k \in 1..Len(ready)
        BY <1>2, <3>1, <4>1, <4>2
      <4>3. CASE k = Len(ready) + 1
        BY <2>5, <3>1, <3>2, <4>1, <4>3
      <4> QED
        BY <2>1, <4>2, <4>3
    <3>5. \A j \in Elements(ordered) \cup Elements(ready'), d \in pending' :
            \A p \in 0..Len(ordered) : LastAt(j, p) => p < Len(ordered) \/ j < d
      BY <1>4, <2>2, <2>4, <3>1
    <3>6. \A i \in 1..Len(ordered), k \in 1..Len(ready') :
            \A x, y : x = ordered[i] /\ y = ready'[k] => Lex(x, y)'
      BY <1>1, <3>3
    <3>7. \A i, k \in 1..Len(ready') : \A x, y : i < k /\ x = ready'[i] /\ y = ready'[k] => Lex(x, y)'
      BY <1>1, <3>4
    <3>8. \A i, k \in 1..Len(ordered) : \A x, y : i < k /\ x = ordered[i] /\ y = ordered[k] => Lex(x, y)'
      BY <1>1, <1>2
    <3> QED
      BY <1>0, <1>4, <2>6, <3>5, <3>6, <3>7, <3>8 DEF SortedInv
  <2> QED
    BY <2>7, <2>8
<1> QED
  BY <1>0, <1>3, <1>4 DEF Release

LEMMA SortedInductive == IInv /\ IInv' /\ SortedInv /\ [Next]_vars => SortedInv'
<1> SUFFICES ASSUME IInv, IInv', SortedInv, [Next]_vars PROVE SortedInv'
  OBVIOUS
<1>1. CASE Scan
  <2>1. at = "scan" /\ at' \in {"seed", "badNeeds"} /\ ready' = <<>>
    BY <1>1 DEF Scan, IInv, SeedInv
  <2>2. Len(ready') = 0
    BY <2>1
  <2> QED
    BY <2>1, <2>2 DEF SortedInv
<1>2. CASE UNCHANGED vars
  <2>1. \A i, j : Lex(i, j) => Lex(i, j)'
    BY <1>2 DEF vars, Lex, LastAt
  <2>2. \A j, p : LastAt(j, p)' => LastAt(j, p)
    BY <1>2 DEF vars, LastAt
  <2> QED
    BY <1>2, <2>1, <2>2 DEF vars, SortedInv
<1> QED
  BY <1>1, <1>2, SeedSorted, PopSorted, ReleaseSorted DEF Next, Returned

LEMMA LastNeedIsLast ==
  ASSUME IInv, at = "ordered", NEW j \in Elements(ordered)
  PROVE  LastNeed(j) \in 0..Len(ordered) /\ LastAt(j, LastNeed(j))
<1>1. Len(ordered) \in Nat /\ needs[j] \subseteq Elements(ordered)
  BY QueuedNeeds DEF IInv, TypeOK
<1>2. CASE needs[j] = {}
  BY <1>1, <1>2 DEF LastNeed, LastAt
<1>3. CASE needs[j] # {}
  <2> DEFINE S == {Position(n) : n \in needs[j]}
  <2>1. \A n \in needs[j] : Position(n) \in 1..Len(ordered) /\ ordered[Position(n)] = n
    <3>1. ASSUME NEW n \in needs[j]
          PROVE  \E i \in DOMAIN ordered : ordered[i] = n
      BY <1>1 DEF Elements, IInv, TypeOK
    <3>2. DOMAIN ordered = 1..Len(ordered)
      BY DEF IInv, TypeOK
    <3> QED
      BY <3>1, <3>2 DEF Position
  <2>2. S \in SUBSET (1..Len(ordered)) /\ S # {}
    BY <1>3, <2>1
  <2>3. \E m \in S : \A x \in S : x <= m
    BY <1>1, <2>2, MaxOf
  <2>4. \E m \in S : \A n \in needs[j] : Position(n) <= m
    BY <2>3
  <2>5. LastNeed(j) \in S /\ \A n \in needs[j] : Position(n) <= LastNeed(j)
    BY <1>3, <2>4 DEF LastNeed
  <2> HIDE DEF S
  <2>6. PICK p : p = LastNeed(j)
    OBVIOUS
  <2>7. p \in 1..Len(ordered) /\ ordered[p] \in needs[j]
    BY <2>1, <2>5, <2>6 DEF S
  <2>8. needs[j] \subseteq {ordered[k] : k \in 1..p}
    BY <1>1, <2>1, <2>5, <2>6, <2>7
  <2> QED
    BY <1>1, <2>6, <2>7, <2>8 DEF LastAt
<1> QED
  BY <1>2, <1>3

\* The order of a workflow of any size is settled by its dependencies and its
\* ids: jobs come in the order of their last needs, and then of their ids.
THEOREM Deterministic == Spec => []OrderIsDeterministic
<1>1. IInv /\ SortedInv => OrderIsDeterministic
  <2> SUFFICES ASSUME IInv, SortedInv, at = "ordered",
                      NEW i \in DOMAIN ordered, NEW k \in DOMAIN ordered, i < k
               PROVE  \/ LastNeed(ordered[i]) < LastNeed(ordered[k])
                      \/ LastNeed(ordered[i]) = LastNeed(ordered[k]) /\ ordered[i] < ordered[k]
    BY DEF OrderIsDeterministic
  <2>1. i \in 1..Len(ordered) /\ k \in 1..Len(ordered)
    BY DEF IInv, TypeOK
  <2>2. Lex(ordered[i], ordered[k])
    BY <2>1 DEF SortedInv
  <2>3. ordered[i] \in Elements(ordered) /\ ordered[k] \in Elements(ordered)
    BY <2>1 DEF Elements
  <2> QED
    BY <2>2, <2>3, LastNeedIsLast DEF Lex
<1>2. IInv /\ IInv' /\ SortedInv /\ [Next]_vars => SortedInv'
  BY SortedInductive
<1> QED
  BY <1>1, <1>2, InitSorted, Invariance, PTL DEF Spec
=============================================================================
