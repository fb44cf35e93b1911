------------------------ MODULE RouterContractProofs ------------------------
(* Names joined by a tilde come apart again, and IInv and with it the safety *)
(* properties are invariants of RouterContract, for ids of any length.       *)
EXTENDS ContractInvariant, SequenceTheorems, WellFoundedInduction, TLAPS

USE MaxExecutorsAssumption, MaxIdLengthAssumption, NoneAssumption

-----------------------------------------------------------------------------
(* Ids *)

LEMMA Joined ==
  ASSUME NEW a \in Id, NEW b \in Id
  PROVE  LET id == a \o <<"~">> \o b IN
         /\ id \in Id /\ Len(id) = Len(a) + 1 + Len(b)
         /\ \A i \in 1..Len(a) : id[i] = a[i]
         /\ id[Len(a) + 1] = "~"
         /\ \A i \in 1..Len(b) : id[Len(a) + 1 + i] = b[i]
         /\ Len(a) \in Nat /\ Len(b) \in Nat
<1> DEFINE left == a \o <<"~">>
<1>1. <<"~">> \in Seq(Char) /\ Len(<<"~">>) = 1 /\ <<"~">>[1] = "~"
  BY DEF Char
<1>2. /\ left \in Seq(Char) /\ Len(left) = Len(a) + 1
      /\ \A i \in 1..Len(a) : left[i] = a[i]
      /\ left[Len(a) + 1] = "~"
      /\ Len(a) \in Nat /\ Len(b) \in Nat
  BY <1>1, ConcatProperties, LenProperties DEF Id
<1> HIDE DEF left
<1>3. /\ left \o b \in Seq(Char) /\ Len(left \o b) = Len(left) + Len(b)
      /\ \A i \in 1..Len(left) : (left \o b)[i] = left[i]
      /\ \A i \in 1..Len(b) : (left \o b)[Len(left) + i] = b[i]
  <2>1. /\ left \o b \in Seq(Char) /\ Len(left \o b) = Len(left) + Len(b)
        /\ \A i \in 1..Len(left) + Len(b) :
             (left \o b)[i] = IF i <= Len(left) THEN left[i] ELSE b[i - Len(left)]
    BY <1>2, ConcatProperties DEF Id
  <2>2. ASSUME NEW i \in 1..Len(b) PROVE (left \o b)[Len(left) + i] = b[i]
    <3>1. Len(left) + i \in 1..Len(left) + Len(b) /\ ~(Len(left) + i <= Len(left))
      BY <1>2
    <3>2. Len(left) + i - Len(left) = i
      BY <1>2
    <3> QED
      BY <2>1, <3>1, <3>2
  <2>3. \A i \in 1..Len(left) : i \in 1..Len(left) + Len(b) /\ i <= Len(left)
    BY <1>2
  <2> QED
    BY <2>1, <2>2, <2>3
<1> QED
  BY <1>2, <1>3 DEF left, Id

LEMMA LeastOf ==
  ASSUME NEW S \in SUBSET Nat, S # {}
  PROVE  \E i \in S : \A k \in S : i <= k
<1>1. IsWellFoundedOn(OpToRel(<, Nat), Nat)
  BY NatLessThanWellFounded
<1> DEFINE less == OpToRel(<, Nat)
<1>2. \A x, y \in Nat : x < y => <<x, y>> \in less
  BY DEF OpToRel
<1> HIDE DEF less
<1>3. PICK i \in S : \A k \in S : ~(<<k, i>> \in less)
  BY <1>1, WFMin DEF less
<1>4. i \in Nat /\ \A k \in S : k \in Nat /\ (k < i \/ i <= k)
  OBVIOUS
<1> QED
  BY <1>2, <1>3, <1>4

LEMMA LeastIs ==
  ASSUME NEW S, S \subseteq Nat, NEW m \in S, \A i \in S : m <= i
  PROVE  (CHOOSE i \in S : \A k \in S : i <= k) = m
<1>1. \A i \in S : (\A k \in S : i <= k) => i = m
  <2> SUFFICES ASSUME NEW i \in S, i <= m, m <= i PROVE i = m
    OBVIOUS
  <2> QED
    OBVIOUS
<1> QED
  BY <1>1

\* A name without a tilde is what precedes the first tilde.
LEMMA ParsedInverts ==
  ASSUME NEW executor \in Id, NEW upstream \in Id,
         ValidExecutorId(executor), ValidUpstreamId(upstream)
  PROVE  Parsed(executor \o <<"~">> \o upstream) =
           [executor |-> executor, upstream |-> upstream]
<1> DEFINE id == executor \o <<"~">> \o upstream
           tildes == {i \in DOMAIN id : id[i] = "~"}
           at == CHOOSE i \in tildes : \A k \in tildes : i <= k
           n == Len(executor)
<1>1. /\ id \in Id /\ Len(id) = n + 1 + Len(upstream)
      /\ \A i \in 1..n : id[i] = executor[i]
      /\ id[n + 1] = "~"
      /\ \A i \in 1..Len(upstream) : id[n + 1 + i] = upstream[i]
      /\ n \in Nat /\ Len(upstream) \in Nat
  BY Joined
<1>2. DOMAIN id = 1..Len(id) /\ DOMAIN executor = 1..n
  BY <1>1, LenProperties DEF Id
<1> HIDE DEF id
<1>3. n + 1 \in tildes /\ \A i \in tildes : n + 1 <= i
  <2>1. \A i \in 1..n : executor[i] # "~"
    BY <1>2 DEF ValidExecutorId, Over, Alnum
  <2> QED
    BY <1>1, <1>2, <2>1
<1>4. at = n + 1
  <2>1. tildes \subseteq Nat
    BY <1>2
  <2> HIDE DEF tildes
  <2> QED
    BY <1>3, <2>1, LeastIs
<1>5. SubSeq(id, 1, n) = executor
  <2>1. \A i \in 1..n : id[i] \in Char
    BY <1>1, ElementOfSeq DEF Id
  <2>2. /\ SubSeq(id, 1, n) \in Seq(Char) /\ Len(SubSeq(id, 1, n)) = n
        /\ \A i \in 1..n : SubSeq(id, 1, n)[i] = id[i]
    BY <1>1, <2>1, SubSeqProperties
  <2> QED
    BY <1>1, <2>2, SeqEqual DEF Id
<1>6. SubSeq(id, n + 2, Len(id)) = upstream
  <2> DEFINE rest == SubSeq(id, n + 2, Len(id))
  <2>1. \A i \in (n + 2)..Len(id) : id[i] \in Char
    BY <1>1, ElementOfSeq DEF Id
  <2>2. n + 2 \in Int /\ Len(id) \in Int /\ Len(id) - (n + 2) + 1 = Len(upstream)
    BY <1>1
  <2>3. /\ rest \in Seq(Char) /\ Len(rest) = Len(upstream)
        /\ \A i \in 1..Len(upstream) : rest[i] = id[n + 2 + i - 1]
    BY <1>1, <2>1, <2>2, SubSeqProperties
  <2> HIDE DEF rest
  <2>4. \A i \in 1..Len(upstream) : rest[i] = upstream[i]
    BY <1>1, <2>3
  <2> QED
    BY <2>3, <2>4, SeqEqual DEF Id, rest
<1>7. tildes # {}
  BY <1>3
<1>8. at - 1 = n /\ at + 1 = n + 2
  <2> HIDE DEF at
  <2> QED
    BY <1>1, <1>4
<1>9. Parsed(id) = [executor |-> SubSeq(id, 1, at - 1), upstream |-> SubSeq(id, at + 1, Len(id))]
  <2>1. SubSeq(id, 1, at - 1) = executor /\ SubSeq(id, at + 1, Len(id)) = upstream
    BY <1>5, <1>6, <1>8
  <2> QED
    BY <1>7, <2>1 DEF Parsed
<1> QED
  BY <1>5, <1>6, <1>8, <1>9 DEF id

\* What is parsed is what its parts make: an id has one spelling.
LEMMA ParsedIsJoined ==
  ASSUME NEW id \in Id, Parsed(id) # None
  PROVE  LET route == Parsed(id) IN
         /\ route.executor \in Id /\ route.upstream \in Id
         /\ ValidExecutorId(route.executor) /\ ValidUpstreamId(route.upstream)
         /\ route.executor \o <<"~">> \o route.upstream = id
<1> DEFINE tildes == {i \in DOMAIN id : id[i] = "~"}
           at == CHOOSE i \in tildes : \A k \in tildes : i <= k
           executor == SubSeq(id, 1, at - 1)
           upstream == SubSeq(id, at + 1, Len(id))
<1>1. /\ tildes # {} /\ ValidExecutorId(executor) /\ ValidUpstreamId(upstream)
      /\ Parsed(id).executor = executor /\ Parsed(id).upstream = upstream
  BY DEF Parsed
<1>2. /\ Len(id) \in Nat /\ DOMAIN id = 1..Len(id)
      /\ \A i \in 1..Len(id) : id[i] \in Char
  BY LenProperties, ElementOfSeq DEF Id
<1>3. at \in tildes
  <2>1. tildes \subseteq Nat
    BY <1>2
  <2>2. \E i \in tildes : \A k \in tildes : i <= k
    BY <1>1, <2>1, LeastOf
  <2> HIDE DEF tildes
  <2> QED
    BY <2>2
<1>4. at \in 1..Len(id) /\ id[at] = "~"
  BY <1>2, <1>3
<1> HIDE DEF at, tildes
<1>5. /\ executor \in Id /\ Len(executor) = at - 1
      /\ \A i \in 1..(at - 1) : executor[i] = id[i]
  <2>1. \A i \in 1..(at - 1) : id[i] \in Char
    BY <1>2, <1>4
  <2>2. (at - 1) \in Int /\ IF 1 <= at - 1 THEN (at - 1) - 1 + 1 = at - 1 ELSE at - 1 = 0
    BY <1>2, <1>4
  <2>3. /\ executor \in Seq(Char)
        /\ Len(executor) = IF 1 <= at - 1 THEN (at - 1) - 1 + 1 ELSE 0
        /\ \A i \in 1..((at - 1) - 1 + 1) : executor[i] = id[1 + i - 1]
    BY <2>1, <2>2, SubSeqProperties
  <2> HIDE DEF executor
  <2>4. \A i \in 1..(at - 1) : i \in 1..((at - 1) - 1 + 1) /\ 1 + i - 1 = i
    BY <1>2, <1>4
  <2>5. Len(executor) = at - 1
    BY <1>2, <1>4, <2>3
  <2> QED
    BY <2>3, <2>4, <2>5 DEF Id
<1>6. /\ upstream \in Id /\ Len(upstream) = Len(id) - at
      /\ \A i \in 1..(Len(id) - at) : upstream[i] = id[at + i]
  <2>1. \A i \in (at + 1)..Len(id) : id[i] \in Char
    BY <1>2, <1>4
  <2>2. at + 1 \in Int /\ Len(id) \in Int
    BY <1>2, <1>4
  <2>3. /\ upstream \in Seq(Char)
        /\ Len(upstream) = IF at + 1 <= Len(id) THEN Len(id) - (at + 1) + 1 ELSE 0
        /\ \A i \in 1..(Len(id) - (at + 1) + 1) : upstream[i] = id[at + 1 + i - 1]
    BY <2>1, <2>2, SubSeqProperties
  <2> HIDE DEF upstream
  <2>4. \A i \in 1..(Len(id) - at) :
           i \in 1..(Len(id) - (at + 1) + 1) /\ at + 1 + i - 1 = at + i
    BY <1>2, <1>4
  <2>5. Len(upstream) = Len(id) - at
    <3>1. (IF at + 1 <= Len(id) THEN Len(id) - (at + 1) + 1 ELSE 0) = Len(id) - at
      <4>1. at \in Int /\ Len(id) \in Int /\ at <= Len(id)
        BY <1>2, <1>4
      <4> QED
        BY <4>1
    <3> QED
      BY <2>3, <3>1
  <2> QED
    BY <2>3, <2>4, <2>5 DEF Id
<1> HIDE DEF executor, upstream
<1>7. executor \o <<"~">> \o upstream = id
  <2> DEFINE joined == executor \o <<"~">> \o upstream
  <2>1. /\ joined \in Id /\ Len(joined) = Len(executor) + 1 + Len(upstream)
        /\ \A i \in 1..Len(executor) : joined[i] = executor[i]
        /\ joined[Len(executor) + 1] = "~"
        /\ \A i \in 1..Len(upstream) : joined[Len(executor) + 1 + i] = upstream[i]
    BY <1>5, <1>6, Joined
  <2> HIDE DEF joined
  <2>2. Len(joined) = Len(id)
    BY <1>2, <1>4, <1>5, <1>6, <2>1
  <2>3. ASSUME NEW i \in 1..Len(id) PROVE joined[i] = id[i]
    <3>1. CASE i < at
      BY <1>2, <1>4, <1>5, <2>1, <3>1
    <3>2. CASE i = at
      BY <1>2, <1>4, <1>5, <2>1, <3>2
    <3>3. CASE i > at
      <4>1. i - at \in 1..Len(upstream) /\ at + (i - at) = i /\ Len(executor) + 1 = at
        BY <1>2, <1>4, <1>5, <1>6, <3>3
      <4> QED
        BY <1>6, <2>1, <4>1
    <3> QED
      BY <1>4, <3>1, <3>2, <3>3
  <2> QED
    BY <2>1, <2>2, <2>3, SeqEqual DEF Id, joined
<1> QED
  BY <1>1, <1>5, <1>6, <1>7

-----------------------------------------------------------------------------
(* The executors a router serves with *)

\* The executors of an accepted list: each enabled entry at its own place, all
\* of them with a valid name, and no two alike.
LEMMA AcceptedExecutors ==
  ASSUME NEW list \in SpecLists, NEW on, Accepts(list, on)
  PROVE  LET kept == Materialized(list) IN
         /\ DOMAIN kept \subseteq Nat
         /\ on => DOMAIN kept # {}
         /\ \A e \in DOMAIN kept : kept[e].id \in Id /\ ValidExecutorId(kept[e].id)
         /\ \A d, e \in DOMAIN kept : d # e =>
              /\ kept[d].id # kept[e].id
              /\ kept[d].origin # kept[e].origin
              /\ kept[d].auth # kept[e].auth
<1> DEFINE places == {i \in DOMAIN list : list[i].enabled}
           kept == [i \in places |-> [id |-> list[i].id, origin |-> Origin(list[i].url),
                                      auth |-> list[i].auth]]
<1>1. Materialized(list) = kept /\ (on => DOMAIN kept # {})
  BY DEF Accepts, Materialized
<1>2. list \in Seq(ExecutorSpec)
  BY SpecListsAssumption
<1>3. /\ DOMAIN list = 1..Len(list) /\ Len(list) \in Nat
      /\ \A i \in 1..Len(list) : list[i] \in ExecutorSpec
  BY <1>2, LenProperties, ElementOfSeq
<1>4. DOMAIN kept \subseteq Nat
  BY <1>3
<1>5. ASSUME NEW e \in DOMAIN kept
      PROVE  kept[e].id \in Id /\ ValidExecutorId(kept[e].id)
  <2>1. e \in DOMAIN list /\ kept[e].id = list[e].id
    OBVIOUS
  <2>2. ValidSpec(list[e])
    BY <2>1 DEF Accepts, ValidSpecs
  <2> QED
    BY <1>3, <2>1, <2>2 DEF ValidSpec, ExecutorSpec
<1>6. ASSUME NEW d \in DOMAIN kept, NEW e \in DOMAIN kept, d # e
      PROVE  /\ kept[d].id # kept[e].id
             /\ kept[d].origin # kept[e].origin
             /\ kept[d].auth # kept[e].auth
  <2>1. ~Clash(list[d], list[e]) \/ ~Clash(list[e], list[d])
    <3>1. d \in DOMAIN list /\ e \in DOMAIN list /\ (d < e \/ e < d)
      BY <1>3, <1>6
    <3> QED
      BY <3>1 DEF Accepts, ValidSpecs
  <2>2. list[d].enabled /\ list[e].enabled
    OBVIOUS
  <2> QED
    BY <2>1, <2>2 DEF Clash, SameUrl
<1> HIDE DEF kept
<1> QED
  BY <1>1, <1>4, <1>5, <1>6

-----------------------------------------------------------------------------
(* The invariant *)

\* Before it serves a router is asked nothing, and what it serves with it accepted.
LEMMA InitIInv == Init => IInv
BY DEF Init, IInv, ServingInv, AnswerInv, Asked

LEMMA NextIInv == IInv /\ [Next]_vars => IInv'
<1> SUFFICES ASSUME IInv, [Next]_vars PROVE IInv'
  OBVIOUS
<1>1. CASE Start
  <2>1. asked' = None /\ asked = None
    BY <1>1 DEF Start, IInv, ServingInv
  <2> QED
    BY <1>1, <2>1 DEF Start, IInv, ServingInv, AnswerInv, Asked
<1>2. CASE Submit \/ Place \/ Status
  <2>1. ServingInv'
    BY <1>2 DEF Submit, Place, Status, Serving, IInv, ServingInv
  <2>2. CASE Submit
    <3>1. PICK job \in Jobs : /\ Executable(job)
                              /\ asked' = [kind |-> "build", job |-> job]
                              /\ answer' = ValidRequest(BuildRequest(job))
      BY <2>2 DEF Submit
    <3>2. asked'.kind = "build" /\ asked'.job = job
      BY <3>1
    <3> QED
      BY <2>1, <3>1, <3>2 DEF IInv, AnswerInv, Asked
  <2>3. CASE Place
    <3>1. PICK e \in DOMAIN executors, id \in UpstreamIds :
             /\ asked' = [kind |-> "route", executor |-> e, upstream |-> id]
             /\ answer' = Namespaced(executors[e].id, id)
      BY <2>3 DEF Place
    <3>2. asked'.kind = "route" /\ asked'.executor = e /\ asked'.upstream = id
      BY <3>1
    <3> QED
      BY <2>1, <2>3, <3>1, <3>2 DEF Place, IInv, AnswerInv, Asked
  <2>4. CASE Status
    <3>1. PICK id \in StatusIds :
             /\ asked' = [kind |-> "status", id |-> id]
             /\ answer' = Target(id)
      BY <2>4 DEF Status
    <3>2. asked'.kind = "status" /\ asked'.id = id
      BY <3>1
    <3>3. Asked("status")' => (answer = Target(asked.id))'
      BY <2>4, <3>1, <3>2 DEF Status, Target
    <3> QED
      BY <2>1, <3>1, <3>2, <3>3 DEF IInv, AnswerInv, Asked
  <2> QED
    BY <1>2, <2>2, <2>3, <2>4
<1>3. CASE UNCHANGED vars
  BY <1>3 DEF vars, IInv, ServingInv, AnswerInv, Asked, Target
<1> QED
  BY <1>1, <1>2, <1>3 DEF Next, Rest

\* A serving router runs with executors it accepted, and answers as it does.
THEOREM Invariance == Spec => []IInv
<1> QED
  BY InitIInv, NextIInv, PTL DEF Spec

-----------------------------------------------------------------------------
(* The properties *)

\* parse_executor_specs and materialize_executors: no two executors of a router
\* that serves share a name, an origin or an authentication file.
THEOREM DistinctExecutors == Spec => []ExecutorsAreDistinct
<1>1. IInv => ExecutorsAreDistinct
  <2> SUFFICES ASSUME IInv, phase = "serving" PROVE ExecutorsAreDistinct
    BY DEF ExecutorsAreDistinct
  <2>1. specs \in SpecLists /\ Accepts(specs, enabled) /\ executors = Materialized(specs)
    BY DEF IInv, ServingInv
  <2> QED
    BY <2>1, AcceptedExecutors DEF ExecutorsAreDistinct
<1> QED
  BY <1>1, Invariance, PTL

\* validate_build_request takes every job the planner makes executable, but for
\* an upper-case revision and a repository named by dots.
THEOREM ExecutableJobs == Spec => []ExecutableJobsAreTaken
<1>1. IInv => ExecutableJobsAreTaken
  <2> SUFFICES ASSUME IInv, Asked("build") PROVE answer \/ asked.job.revision = "upper" \/ "dots" \in {asked.job.repo[1], asked.job.repo[2]}
    BY DEF ExecutableJobsAreTaken
  <2> DEFINE job == asked.job
  <2>1. job \in Jobs /\ Executable(job) /\ answer = ValidRequest(BuildRequest(job))
    BY DEF IInv, AnswerInv
  <2>2. job.repo \in Seq(STRING) /\ job.idLength \in Nat
    BY <2>1, JobsAssumption DEF PlannedJob
  <2>3. Len(job.repo) = 2 /\ DOMAIN job.repo = 1..2
    BY <2>1, <2>2, LenProperties DEF Executable
  <2> HIDE DEF job
  <2>4. ASSUME job.revision # "upper", job.repo[1] # "dots", job.repo[2] # "dots"
        PROVE  ValidRequest(BuildRequest(job))
    <3>1. Over(job.repo, {"plain"})
      BY <2>1, <2>3, <2>4 DEF Executable, Over
    <3>2. ValidRequestId(10 + 64 + 1 + job.idLength)
      <4>1. job.idLength \in 1..100
        BY <2>1 DEF Executable
      <4> QED
        BY <4>1 DEF ValidRequestId
    <3> QED
      BY <2>1, <2>3, <2>4, <3>1, <3>2 DEF Executable, ValidRequest, BuildRequest
  <2> QED
    BY <2>1, <2>4 DEF job
<1> QED
  BY <1>1, Invariance, PTL

\* namespace_build_id and get_build: the route id of a build leads back to the
\* executor that took it and to the id it has there.
THEOREM RouteBack == Spec => []RoutesLeadBack
<1>1. IInv => RoutesLeadBack
  <2> SUFFICES ASSUME IInv, Asked("route"), answer # <<>>
               PROVE  Target(answer) = [executor |-> asked.executor, upstream |-> asked.upstream]
    BY DEF RoutesLeadBack
  <2> DEFINE e == asked.executor
             upstream == asked.upstream
  <2>1. /\ phase = "serving" /\ specs \in SpecLists
        /\ Accepts(specs, enabled) /\ executors = Materialized(specs)
        /\ e \in DOMAIN executors /\ upstream \in Id
        /\ answer = Namespaced(executors[e].id, upstream)
    BY IdsAssumption DEF IInv, ServingInv, AnswerInv, Asked
  <2>2. /\ DOMAIN executors \subseteq Nat
        /\ executors[e].id \in Id
        /\ \A d \in DOMAIN executors : d # e => executors[d].id # executors[e].id
    BY <2>1, AcceptedExecutors
  <2> HIDE DEF e, upstream
  <2>3. /\ ValidExecutorId(executors[e].id) /\ ValidUpstreamId(upstream)
        /\ answer = executors[e].id \o <<"~">> \o upstream
    BY <2>1 DEF Namespaced
  <2>4. Parsed(answer) = [executor |-> executors[e].id, upstream |-> upstream]
    BY <2>1, <2>2, <2>3, ParsedInverts
  <2>5. Parsed(answer) # None
    BY <2>1, <2>2, <2>4
  <2> DEFINE at == {d \in DOMAIN executors : executors[d].id = Parsed(answer).executor}
  <2>6. at = {e}
    BY <2>1, <2>2, <2>4
  <2>7. (CHOOSE d \in at : \A k \in at : d <= k) = e
    <3>1. at \subseteq Nat /\ e \in at /\ \A d \in at : e <= d
      BY <2>1, <2>2, <2>6
    <3> HIDE DEF at
    <3> QED
      BY <3>1, LeastIs
  <2>8. Target(answer) = [executor |-> e, upstream |-> upstream]
    BY <2>4, <2>5, <2>6, <2>7 DEF Target
  <2> QED
    BY <2>8 DEF e, upstream
<1> QED
  BY <1>1, Invariance, PTL

\* parse_namespaced_build_id and get_build: a status is asked only under an id
\* that the executor's name and its build's id make.
THEOREM OnlyRoutes == Spec => []OnlyRoutesAreFollowed
<1>1. IInv => OnlyRoutesAreFollowed
  <2> SUFFICES ASSUME IInv, Asked("status"), answer # None
               PROVE  Namespaced(executors[answer.executor].id, answer.upstream) = asked.id
    BY DEF OnlyRoutesAreFollowed
  <2> DEFINE route == Parsed(asked.id)
             at == {e \in DOMAIN executors : executors[e].id = route.executor}
             first == CHOOSE e \in at : \A k \in at : e <= k
  <2>1. /\ specs \in SpecLists /\ Accepts(specs, enabled)
        /\ executors = Materialized(specs)
        /\ asked.id \in Id /\ answer = Target(asked.id)
    BY IdsAssumption DEF IInv, ServingInv, AnswerInv, Asked
  <2>2. at \subseteq Nat
    BY <2>1, AcceptedExecutors
  <2>3. /\ route # None /\ at # {}
        /\ answer = [executor |-> first, upstream |-> route.upstream]
    BY <2>1 DEF Target
  <2>4. first \in at
    <3>1. \E e \in at : \A k \in at : e <= k
      BY <2>2, <2>3, LeastOf
    <3> HIDE DEF at
    <3> QED
      BY <3>1
  <2>5. /\ ValidExecutorId(route.executor) /\ ValidUpstreamId(route.upstream)
        /\ route.executor \o <<"~">> \o route.upstream = asked.id
    BY <2>1, <2>3, ParsedIsJoined
  <2>6. executors[first].id = route.executor
    BY <2>4
  <2>7. answer.executor = first /\ answer.upstream = route.upstream
    BY <2>3
  <2> HIDE DEF route, at, first
  <2> QED
    BY <2>5, <2>6, <2>7 DEF Namespaced
<1> QED
  BY <1>1, Invariance, PTL
=============================================================================
