-------------------------- MODULE ContinuityProofs --------------------------
(* IInv is an invariant of Continuity, and so are its safety properties, and *)
(* every step is one that WorkflowRuns allows, for any runs, plan length,    *)
(* executors and number of restarts.                                         *)
EXTENDS ContinuityInvariant, SequenceTheorems, FiniteSetTheorems, WellFoundedInduction, TLAPS

USE NumJobsAssumption, MaxRestartsAssumption, NoneAssumption

LEMMA InitIInv == Init => IInv
<1> SUFFICES ASSUME Init PROVE IInv
  OBVIOUS
<1> USE DEF Init, Service!Init, Router!Init
<1>1. /\ posts = <<>> /\ DOMAIN posts = {} /\ Hosted = {} /\ posts \in Seq(Post)
  BY DEF Hosted
<1>2. TypeOK
  <2>1. 1 \in Jobs /\ 0 \in Nat /\ "queued" \in Service!BuildStates
    BY DEF Jobs, Service!BuildStates
  <2> QED
    BY <1>1, <2>1 DEF TypeOK
<1>3. PostsInv
  BY <1>1 DEF PostsInv
<1>4. TableInv /\ CallsInv
  BY <1>1 DEF TableInv, CallsInv
<1>5. \A r \in Runs : RunInv(r)
  BY DEF RunInv, RecordOf, OwnBuildOf, SubmissionsOf, Unsubmitted, Waiting, Service!Ended
<1> QED
  BY <1>2, <1>3, <1>4, <1>5 DEF IInv

-----------------------------------------------------------------------------
(* What lasts *)

LEMMA PostTyped ==
  ASSUME TypeOK, NEW n \in DOMAIN posts
  PROVE  /\ n \in 1..Len(posts) /\ Len(posts) \in Nat /\ n \in Nat
         /\ posts[n] \in Post
BY LenProperties, ElementOfSeq DEF TypeOK

\* Posts are only added; they stay hosted, and their builds stay ended.
PostsGrow ==
  \A n \in DOMAIN posts :
    /\ n \in DOMAIN posts'
    /\ posts'[n].id = posts[n].id /\ posts'[n].executor = posts[n].executor
    /\ posts'[n].epoch = posts[n].epoch
    /\ n \in Hosted => n \in Hosted' /\ posts'[n].local = posts[n].local
    /\ posts[n].fate \in {"succeeded", "failed"} => posts'[n].fate = posts[n].fate

LEMMA BuildStays ==
  ASSUME PostsGrow, NEW n, NEW j, BuildOf(n, j)
  PROVE  BuildOf(n, j)'
BY DEF PostsGrow, BuildOf, Hosted

LEMMA DoneStays ==
  ASSUME PostsGrow, NEW j, Done(j)
  PROVE  Done(j)'
BY DEF PostsGrow, Done, Hosted, SucceededBuild

LEMMA EarlierStays ==
  ASSUME PostsGrow, NEW j, EarlierDone(j)
  PROVE  EarlierDone(j)'
BY DoneStays DEF EarlierDone

LEMMA SucceededStays ==
  ASSUME PostsGrow, NEW r \in Runs, NEW i, SucceededAt(r, i),
         runs'[r].submissions[i].job = runs[r].submissions[i].job,
         runs'[r].submissions[i].build = runs[r].submissions[i].build
  PROVE  SucceededAt(r, i)'
BY DEF PostsGrow, SucceededAt, Hosted, SucceededBuild

LEMMA SamePosts == posts' = posts => PostsGrow
BY DEF PostsGrow, Hosted

\* What a run's task relies on survives the steps of everybody else, who at
\* most prune the record of a run that ended.
LEMMA OthersKeep ==
  ASSUME NEW r \in Runs, RunInv(r), PostsGrow,
         UNCHANGED <<tpc[r], job[r], build[r], seen[r]>>,
         runs'[r] = runs[r] \/ (runs'[r] = None /\ tpc[r] \in Service!Ended)
  PROVE  RunInv(r)'
<1> USE DEF RunInv
<1>1. RecordOf(r)'
  BY DEF RecordOf, Service!Ended
<1>2. OwnBuildOf(r)'
  <2>1. \A n, j : BuildOf(n, j) => BuildOf(n, j)'
    BY BuildStays
  <2>2. tpc[r] \in {"record"} \cup Waiting => BuildOf(build[r], job[r])'
    BY <2>1 DEF OwnBuildOf, BuildOf, Hosted
  <2>3. tpc[r] = "settle" => posts'[build[r]].fate = seen[r]
    BY DEF OwnBuildOf, Waiting, BuildOf, Hosted, PostsGrow
  <2> QED
    BY <2>2, <2>3 DEF OwnBuildOf
<1>3. SubmissionsOf(r)'
  <2>1. CASE runs'[r] = None /\ tpc[r] \in Service!Ended
    BY <2>1 DEF SubmissionsOf, Unsubmitted, Waiting, Service!Ended
  <2>2. CASE runs'[r] = runs[r]
    <3>1. \A i : SucceededAt(r, i) => SucceededAt(r, i)'
      BY <2>2, SucceededStays
    <3> QED
      BY <2>2, <3>1 DEF SubmissionsOf
  <2> QED
    BY <2>1, <2>2
<1> QED
  BY <1>1, <1>2, <1>3

-----------------------------------------------------------------------------
(* Who relies on what *)

LEMMA PostsKept ==
  ASSUME PostsInv, UNCHANGED posts, epoch \in Nat, epoch' \in Nat, epoch <= epoch', TypeOK
  PROVE  PostsInv'
<1>1. Hosted' = Hosted /\ \A e : At(e)' = At(e)
  BY DEF Hosted, At
<1>2. \A n \in DOMAIN posts : posts[n].epoch \in Nat /\ posts[n].executor = posts'[n].executor
  BY PostTyped DEF Post
<1>3. \A n \in DOMAIN posts : posts'[n].epoch <= epoch'
  BY <1>2 DEF PostsInv
<1>4. \A n \in DOMAIN posts : EarlierDone(posts[n].id)'
  BY SamePosts, EarlierStays DEF PostsInv
<1>5. \A m, n \in Hosted' : Named(m, n)' => m = n
  BY <1>1 DEF PostsInv, Named
<1>6. \A n \in Hosted' : posts'[n].local \in 1..Cardinality(At(posts[n].executor)')
  BY <1>1 DEF PostsInv
<1> QED
  BY <1>3, <1>4, <1>5, <1>6 DEF PostsInv

LEMMA TableKept ==
  ASSUME TableInv, UNCHANGED <<posts, epoch, bound, sends, verdict>>
  PROVE  TableInv'
BY SamePosts, BuildStays, EarlierStays DEF TableInv

LEMMA CallsKept ==
  ASSUME CallsInv, PostsGrow, UNCHANGED <<asked, answer>>
  PROVE  CallsInv'
BY BuildStays, EarlierStays DEF CallsInv

\* The step of one run's task that leaves the router and the posts alone.
LEMMA TaskMoves ==
  ASSUME IInv, NEW r \in Runs, TypeOK', RunInv(r)', UNCHANGED <<routerVars, posts>>,
         \A q \in Runs \ {r} :
           /\ UNCHANGED <<tpc[q], job[q], build[q], seen[q]>>
           /\ runs'[q] = runs[q] \/ (runs'[q] = None /\ tpc[q] \in Service!Ended)
  PROVE  IInv'
<1>1. PostsInv' /\ TableInv' /\ CallsInv'
  BY PostsKept, TableKept, CallsKept, SamePosts DEF IInv, TypeOK, routerVars
<1>2. \A q \in Runs \ {r} : RunInv(q)'
  BY SamePosts, OthersKeep DEF IInv
<1> QED
  BY <1>1, <1>2 DEF IInv

-----------------------------------------------------------------------------
(* The service's own steps *)

\* Pruning removes ended runs and alters no record.
LEMMA PrunedKeeps ==
  ASSUME NEW table, NEW kept \in Service!Pruned(table), NEW r \in Runs
  PROVE  /\ kept[r] = table[r] \/ (kept[r] = None /\ r \in Service!Prunable(table))
         /\ kept = [q \in Runs |-> kept[q]]
<1>1. PICK gone \in SUBSET Service!Prunable(table) :
        kept = [q \in Runs |-> IF q \in gone THEN None ELSE table[q]]
  BY DEF Service!Pruned
<1> QED
  BY <1>1

LEMMA InsertStep ==
  ASSUME IInv, NEW r \in Runs, Insert(r)
  PROVE  IInv'
<1> USE DEF IInv
<1>0. Service!Insert(r) /\ UNCHANGED <<routerVars, crashes>>
  BY DEF Insert
<1> DEFINE new == [status |-> "Queued", current |-> None, submissions |-> <<>>]
           table == [runs EXCEPT ![r] = new]
<1>1. new \in Service!RunRecord
  BY DEF Service!RunRecord
<1>2. /\ runs'[r] = new
      /\ \A q \in Runs \ {r} :
           runs'[q] = runs[q] \/ (runs'[q] = None /\ runs[q].status \in Service!Terminal)
      /\ runs' \in [Runs -> Service!RunRecord \cup {None}]
  <2>1. /\ table[r] = new /\ \A q \in Runs \ {r} : table[q] = runs[q]
        /\ table \in [Runs -> Service!RunRecord \cup {None}]
    BY <1>1 DEF TypeOK
  <2>2. r \notin Service!Prunable(table)
    BY <2>1 DEF Service!Prunable, Service!Terminal
  <2>3. \A q \in Runs :
          /\ runs'[q] = table[q] \/ (runs'[q] = None /\ q \in Service!Prunable(table))
          /\ runs' = [p \in Runs |-> runs'[p]]
    BY <1>0, PrunedKeeps DEF Service!Insert
  <2> HIDE DEF table, new
  <2> QED
    BY <2>1, <2>2, <2>3 DEF Service!Prunable
<1>3. /\ tpc'[r] = "inserted" /\ \A q \in Runs \ {r} : tpc'[q] = tpc[q]
      /\ tpc[r] = "none" /\ UNCHANGED <<job, build, seen, polls, config, posts>>
  BY <1>0 DEF Service!Insert, Service!Goto, Service!taskVars, TypeOK
<1>4. TypeOK'
  <2>1. tpc' = [tpc EXCEPT ![r] = "inserted"]
    BY <1>0 DEF Service!Insert, Service!Goto
  <2> QED
    BY <1>0, <1>2, <1>3, <2>1 DEF TypeOK, routerVars
<1>5. RunInv(r)'
  <2>1. /\ tpc'[r] = "inserted" /\ job'[r] = 1 /\ runs'[r].status = "Queued"
        /\ runs'[r] # None /\ runs'[r].submissions = <<>>
    BY <1>1, <1>2, <1>3 DEF RunInv, RecordOf
  <2>2. RecordOf(r)'
    BY <2>1 DEF RecordOf, Service!Terminal
  <2> QED
    BY <2>1, <2>2 DEF RunInv, OwnBuildOf, SubmissionsOf, Unsubmitted, Waiting
<1>6. \A q \in Runs \ {r} : runs'[q] = runs[q] \/ (runs'[q] = None /\ tpc[q] \in Service!Ended)
  BY <1>2 DEF RunInv, RecordOf, Service!Terminal
<1> QED
  BY <1>0, <1>3, <1>4, <1>5, <1>6, TaskMoves

\* The record of a run whose task works.
LEMMA WorkingRecord ==
  ASSUME IInv, NEW r \in Runs, tpc[r] \notin {"none"} \cup Service!Ended
  PROVE  /\ runs[r] \in Service!RunRecord /\ runs[r] # None
         /\ runs[r].status \in {"Queued", "Running"}
         /\ Len(runs[r].submissions) \in Nat
         /\ DOMAIN runs[r].submissions = 1..Len(runs[r].submissions)
         /\ runs[r].submissions \in Seq(Service!Submission)
         /\ job[r] \in Jobs /\ job[r] \in 1..NumJobs
<1>1. runs[r] \in Service!RunRecord /\ runs[r] # None /\ runs[r].status \notin Service!Terminal
  BY DEF IInv, TypeOK, RunInv, RecordOf
<1>2. /\ runs[r].status \in {"Queued", "Running"}
      /\ runs[r].submissions \in Seq(Service!Submission)
  BY <1>1 DEF Service!RunRecord, Service!Terminal
<1> QED
  BY <1>1, <1>2, LenProperties DEF IInv, TypeOK, Jobs

\* A task's step that changes nothing but where it is and its record, of which it
\* leaves the submissions, and that relies on no more than before.
LEMMA TaskGoes ==
  ASSUME IInv, NEW r \in Runs, NEW new, NEW to, Service!Goto(r, to), RunInv(r)',
         new \in Service!RunRecord, runs[r] # None,
         runs' = runs \/ runs' = [runs EXCEPT ![r] = new],
         UNCHANGED <<config, job, build, seen, polls, routerVars, posts, crashes>>,
         to \in {"begin", "select", "submit", "poll", "sleep", "settle", "fail", "finish"}
  PROVE  IInv'
<1>1. TypeOK'
  BY DEF IInv, TypeOK, Service!Goto, routerVars, Unsubmitted, Waiting
<1> QED
  BY <1>1, TaskMoves DEF IInv, TypeOK, Service!Goto

LEMMA SpawnStep ==
  ASSUME IInv, NEW r \in Runs, Service!Spawn(r), UNCHANGED <<routerVars, crashes>>
  PROVE  IInv'
<1>0. runs[r] \in Service!RunRecord /\ runs[r] # None /\ runs[r].status \in {"Queued", "Running"}
  BY WorkingRecord DEF Service!Spawn, Service!Ended
<1>1. /\ tpc[r] = "inserted" /\ Service!Goto(r, "begin") /\ tpc'[r] = "begin"
      /\ UNCHANGED <<config, runs, job, build, seen, polls, posts>>
  BY DEF Service!Spawn, Service!Goto, Service!taskVars, IInv, TypeOK
<1>2. RunInv(r)'
  <2>1. RecordOf(r)'
    BY <1>0, <1>1 DEF IInv, RunInv, RecordOf, Service!Terminal
  <2> QED
    BY <1>0, <1>1, <2>1 DEF RunInv, OwnBuildOf, SubmissionsOf, Unsubmitted, Waiting
<1> QED
  BY <1>0, <1>1, <1>2, TaskGoes

LEMMA BeginStep ==
  ASSUME IInv, NEW r \in Runs, Service!Begin(r), UNCHANGED <<routerVars, crashes>>
  PROVE  IInv'
<1>0. /\ runs[r] \in Service!RunRecord /\ runs[r] # None /\ tpc[r] = "begin"
      /\ runs[r].submissions = <<>> /\ job[r] = 1
      /\ runs[r].status \in {"Queued", "Running"}
      /\ UNCHANGED <<config, job, build, seen, polls, posts>>
  BY WorkingRecord DEF Service!Begin, Service!Ended, Service!taskVars, IInv, RunInv, RecordOf
<1> DEFINE new == [runs[r] EXCEPT !.status = "Running"]
<1>1. CASE Service!Goto(r, "fail") /\ UNCHANGED runs
  <2>1. tpc'[r] = "fail"
    BY <1>1 DEF Service!Goto, IInv, TypeOK
  <2>2. RecordOf(r)'
    BY <1>0, <1>1, <2>1 DEF RecordOf, Service!Terminal
  <2>3. RunInv(r)'
    BY <1>0, <1>1, <2>1, <2>2 DEF RunInv, OwnBuildOf, SubmissionsOf, Unsubmitted, Waiting
  <2> QED
    BY <1>0, <1>1, <2>3, TaskGoes
<1>2. CASE Service!Update(r, new) /\ Service!Goto(r, "select")
  <2>1. new \in Service!RunRecord /\ runs' = [runs EXCEPT ![r] = new]
    BY <1>0, <1>2 DEF Service!RunRecord, Service!Update
  <2>2. /\ tpc'[r] = "select" /\ runs'[r] # None
        /\ runs'[r].status = "Running" /\ runs'[r].submissions = <<>>
    BY <1>0, <1>2, <2>1 DEF Service!Goto, Service!RunRecord, IInv, TypeOK
  <2>3. RecordOf(r)'
    BY <2>2 DEF RecordOf, Service!Terminal
  <2>4. RunInv(r)'
    BY <1>0, <2>2, <2>3 DEF RunInv, OwnBuildOf, SubmissionsOf, Unsubmitted, Waiting
  <2> HIDE DEF new
  <2> QED
    BY <1>0, <1>2, <2>1, <2>4, TaskGoes
<1> QED
  BY <1>1, <1>2 DEF Service!Begin

LEMMA SelectStep ==
  ASSUME IInv, NEW r \in Runs, Service!Select(r), UNCHANGED <<routerVars, crashes>>
  PROVE  IInv'
<1> DEFINE new == [runs[r] EXCEPT !.current = job[r]]
<1>0. /\ runs[r] \in Service!RunRecord /\ runs[r] # None /\ job[r] \in Jobs
      /\ runs[r].status \in {"Queued", "Running"} /\ tpc[r] = "select"
      /\ Service!Goto(r, "submit") /\ UNCHANGED <<config, job, build, seen, polls, posts>>
  BY WorkingRecord DEF Service!Select, Service!Ended, Service!taskVars
<1>1. new \in Service!RunRecord /\ runs' = [runs EXCEPT ![r] = new]
  BY <1>0 DEF Service!RunRecord, Service!Update, Service!Select, Service!Jobs, Jobs
<1>2. /\ tpc'[r] = "submit" /\ runs'[r] # None /\ runs'[r].status = runs[r].status
      /\ runs'[r].submissions = runs[r].submissions
  BY <1>0, <1>1 DEF Service!Goto, Service!RunRecord, IInv, TypeOK
<1>3. RecordOf(r)'
  BY <1>0, <1>2 DEF RecordOf, Service!Terminal
<1>4. SubmissionsOf(r)'
  <2>1. \A i : SucceededAt(r, i) => SucceededAt(r, i)'
    BY <1>0, <1>2, SucceededStays, SamePosts
  <2> QED
    BY <1>0, <1>2, <2>1 DEF IInv, RunInv, SubmissionsOf, Unsubmitted, Waiting
<1>5. RunInv(r)'
  BY <1>2, <1>3, <1>4 DEF RunInv, OwnBuildOf, Waiting
<1> HIDE DEF new
<1> QED
  BY <1>0, <1>1, <1>5, TaskGoes

LEMMA SleepStep ==
  ASSUME IInv, NEW r \in Runs, Service!Sleep(r), UNCHANGED <<routerVars, crashes>>
  PROVE  IInv'
<1>0. runs[r] \in Service!RunRecord /\ runs[r] # None /\ runs[r].status \in {"Queued", "Running"}
  BY WorkingRecord DEF Service!Sleep, Service!Ended
<1>1. /\ tpc[r] = "sleep" /\ Service!Goto(r, "poll") /\ tpc'[r] = "poll"
      /\ UNCHANGED <<config, runs, job, build, seen, polls, posts>>
  BY DEF Service!Sleep, Service!Goto, Service!taskVars, IInv, TypeOK
<1>2. RecordOf(r)'
  BY <1>0, <1>1 DEF RecordOf, Service!Terminal
<1>3. OwnBuildOf(r)'
  BY <1>1, BuildStays, SamePosts DEF IInv, RunInv, OwnBuildOf, Waiting
<1>4. SubmissionsOf(r)'
  <2>1. \A i : SucceededAt(r, i) => SucceededAt(r, i)'
    BY <1>1, SucceededStays, SamePosts
  <2> QED
    BY <1>0, <1>1, <2>1 DEF IInv, RunInv, SubmissionsOf, Unsubmitted, Waiting
<1> QED
  BY <1>0, <1>1, <1>2, <1>3, <1>4, TaskGoes DEF RunInv

LEMMA RecordStep ==
  ASSUME IInv, NEW r \in Runs, Service!Record(r), UNCHANGED <<routerVars, crashes>>
  PROVE  IInv'
<1> DEFINE subs == runs[r].submissions
           entry == [job |-> job[r], build |-> build[r], status |-> "queued"]
           new == [runs[r] EXCEPT !.submissions = Append(subs, entry)]
<1>0. /\ runs[r] \in Service!RunRecord /\ runs[r] # None /\ job[r] \in 1..NumJobs
      /\ runs[r].status \in {"Queued", "Running"} /\ tpc[r] = "record"
      /\ subs \in Seq(Service!Submission) /\ entry \in Service!Submission
      /\ Len(subs) = job[r] - 1 /\ \A i \in 1..job[r] - 1 : SucceededAt(r, i)
  BY WorkingRecord DEF Service!Record, Service!Ended, IInv, TypeOK, Jobs, Service!Jobs,
     Service!Submission, Service!BuildStates, RunInv, SubmissionsOf, Unsubmitted
<1>1. /\ Append(subs, entry) \in Seq(Service!Submission)
      /\ Len(Append(subs, entry)) = job[r]
      /\ Append(subs, entry)[job[r]] = entry
      /\ \A i \in 1..job[r] - 1 : Append(subs, entry)[i] = subs[i]
  BY <1>0, AppendProperties
<1>2. runs' = [runs EXCEPT ![r] = new] /\ new \in Service!RunRecord
  BY <1>0, <1>1 DEF Service!Record, Service!Update, Service!RunRecord
<1>3. /\ tpc' = [tpc EXCEPT ![r] = "poll"] /\ polls' = [polls EXCEPT ![r] = 0]
      /\ UNCHANGED <<config, job, build, seen, posts>>
  BY DEF Service!Record, Service!Goto
<1>4. /\ tpc'[r] = "poll" /\ runs'[r] # None /\ runs'[r].status = runs[r].status
      /\ runs'[r].submissions = Append(subs, entry)
  BY <1>0, <1>2, <1>3 DEF IInv, TypeOK, Service!RunRecord
<1>5. TypeOK'
  BY <1>2, <1>3 DEF IInv, TypeOK, routerVars, Waiting
<1>6. RecordOf(r)'
  BY <1>0, <1>4 DEF RecordOf, Service!Terminal
<1>7. OwnBuildOf(r)'
  BY <1>0, <1>3, <1>4, BuildStays, SamePosts DEF IInv, RunInv, OwnBuildOf, Waiting
<1>8. SubmissionsOf(r)'
  <2>1. \A i \in 1..job[r] - 1 : SucceededAt(r, i)'
    BY <1>0, <1>1, <1>3, <1>4, SucceededStays, SamePosts
  <2> QED
    BY <1>0, <1>1, <1>3, <1>4, <2>1 DEF SubmissionsOf, Unsubmitted, Waiting
<1> HIDE DEF new
<1> QED
  BY <1>2, <1>3, <1>5, <1>6, <1>7, <1>8, TaskMoves DEF IInv, TypeOK, RunInv

LEMMA LeastOf ==
  ASSUME NEW S, S \subseteq Nat, S # {}
  PROVE  (CHOOSE i \in S : \A k \in S : i <= k) \in S
<1> DEFINE less == OpToRel(<, Nat)
<1>1. IsWellFoundedOn(less, Nat)
  BY NatLessThanWellFounded
<1>2. \A x, y \in Nat : x < y => <<x, y>> \in less
  BY DEF OpToRel
<1> HIDE DEF less
<1>3. PICK i \in S : \A k \in S : ~(<<k, i>> \in less)
  BY <1>1, WFMin
<1>4. i \in Nat /\ \A k \in S : k \in Nat /\ (k < i \/ i <= k)
  OBVIOUS
<1>5. \A k \in S : i <= k
  BY <1>2, <1>3, <1>4
<1> QED
  BY <1>3, <1>5

\* Resolving changes the status of a submission, never its job or its build.
LEMMA ResolvedKeeps ==
  ASSUME NEW r, runs[r].submissions \in Seq(Service!Submission),
         seen[r] \in Service!BuildStates
  PROVE  LET subs == runs[r].submissions
             resolved == Service!Resolved(r)
         IN  /\ resolved \in Seq(Service!Submission) /\ Len(resolved) = Len(subs)
             /\ \A i \in 1..Len(subs) :
                  resolved[i].job = subs[i].job /\ resolved[i].build = subs[i].build
<1> DEFINE subs == runs[r].submissions
           same == {i \in DOMAIN subs : subs[i].build = build[r]}
           first == CHOOSE i \in same : \A k \in same : i <= k
           entry == [subs[first] EXCEPT !.status = seen[r]]
<1>1. DOMAIN subs = 1..Len(subs) /\ Len(subs) \in Nat
  BY LenProperties
<1>2. CASE same = {}
  BY <1>2 DEF Service!Resolved
<1>3. CASE same # {}
  <2>1. Service!Resolved(r) = [subs EXCEPT ![first] = entry]
    BY <1>3 DEF Service!Resolved
  <2>2. first \in same
    <3>1. same \subseteq Nat
      BY <1>1
    <3> HIDE DEF same
    <3> QED
      BY <1>3, <3>1, LeastOf
  <2>3. first \in 1..Len(subs)
    BY <1>1, <2>2
  <2> HIDE DEF first, same
  <2>4. subs[first] \in Service!Submission
    BY <2>3, ElementOfSeq
  <2>5. /\ entry \in Service!Submission
        /\ entry.job = subs[first].job /\ entry.build = subs[first].build
    BY <2>4 DEF Service!Submission
  <2> HIDE DEF entry, subs
  <2>6. /\ [subs EXCEPT ![first] = entry] \in Seq(Service!Submission)
        /\ Len([subs EXCEPT ![first] = entry]) = Len(subs)
        /\ \A i \in 1..Len(subs) :
             [subs EXCEPT ![first] = entry][i] = IF i = first THEN entry ELSE subs[i]
    BY <2>3, <2>5, ExceptSeq DEF subs
  <2> QED
    BY <2>1, <2>5, <2>6 DEF subs
<1> QED
  BY <1>2, <1>3

LEMMA SettleStep ==
  ASSUME IInv, NEW r \in Runs, Service!Settle(r), UNCHANGED <<routerVars, crashes>>
  PROVE  IInv'
<1> DEFINE subs == runs[r].submissions
           resolved == Service!Resolved(r)
           new == [runs[r] EXCEPT !.submissions = resolved]
<1>1. /\ runs[r] \in Service!RunRecord /\ runs[r] # None /\ job[r] \in 1..NumJobs
      /\ runs[r].status \in {"Queued", "Running"} /\ tpc[r] = "settle"
      /\ subs \in Seq(Service!Submission) /\ seen[r] \in Service!BuildStates
  BY WorkingRecord DEF Service!Settle, Service!Ended, IInv, TypeOK
<1>2. /\ Len(subs) = job[r]
      /\ subs[job[r]].job = job[r] /\ subs[job[r]].build = build[r]
      /\ \A i \in 1..job[r] - 1 : SucceededAt(r, i)
      /\ BuildOf(build[r], job[r]) /\ posts[build[r]].fate = seen[r]
  BY <1>1 DEF IInv, RunInv, SubmissionsOf, OwnBuildOf, Waiting
<1>3. /\ resolved \in Seq(Service!Submission) /\ Len(resolved) = job[r]
      /\ \A i \in 1..job[r] :
           resolved[i].job = subs[i].job /\ resolved[i].build = subs[i].build
  BY <1>1, <1>2, ResolvedKeeps
<1>4. runs' = [runs EXCEPT ![r] = new]
  BY <1>1 DEF Service!Settle, Service!Update
<1> HIDE DEF resolved
<1>5. new \in Service!RunRecord
  BY <1>1, <1>3 DEF Service!RunRecord
<1>6. /\ runs'[r] # None /\ runs'[r].status = runs[r].status
      /\ runs'[r].submissions = resolved
      /\ UNCHANGED <<config, build, seen, polls, posts>>
  BY <1>1, <1>4, <1>5 DEF IInv, TypeOK, Service!Settle, Service!RunRecord
<1> HIDE DEF new
<1>7. \/ tpc' = [tpc EXCEPT ![r] = "fail"] /\ job' = job
      \/ /\ tpc' = [tpc EXCEPT ![r] = "select"] /\ job' = [job EXCEPT ![r] = job[r] + 1]
         /\ seen[r] = "succeeded" /\ job[r] # NumJobs
      \/ /\ tpc' = [tpc EXCEPT ![r] = "finish"] /\ job' = job
         /\ seen[r] = "succeeded" /\ job[r] = NumJobs
  BY DEF Service!Settle, Service!Goto, Service!Continues, Service!LastJob
<1>8. TypeOK'
  <2>1. job' \in [Runs -> Jobs]
    <3>1. job[r] # NumJobs => job[r] + 1 \in Jobs
      BY <1>1 DEF Jobs
    <3> QED
      BY <1>7, <3>1 DEF IInv, TypeOK
  <2>2. tpc' \in [Runs -> {"none", "inserted", "begin", "record", "finish", "fail"}
                            \cup Unsubmitted \cup Waiting \cup Service!Ended]
    BY <1>7 DEF IInv, TypeOK, Unsubmitted
  <2>3. runs' \in [Runs -> Service!RunRecord \cup {None}]
    BY <1>4, <1>5 DEF IInv, TypeOK
  <2> QED
    BY <1>6, <2>1, <2>2, <2>3 DEF IInv, TypeOK, routerVars
<1>9. tpc'[r] \in {"fail", "select", "finish"}
  BY <1>7 DEF IInv, TypeOK
<1>10. RecordOf(r)' /\ OwnBuildOf(r)'
  BY <1>1, <1>6, <1>9 DEF RecordOf, OwnBuildOf, Waiting, Service!Ended, Service!Terminal
<1>11. SubmissionsOf(r)'
  <2>1. ASSUME NEW i \in 1..job[r] - 1 PROVE SucceededAt(r, i)'
    <3>1. SucceededAt(r, i) /\ i \in 1..job[r]
      BY <1>1, <1>2
    <3>2. resolved[i].job = subs[i].job /\ resolved[i].build = subs[i].build
      BY <1>3, <3>1
    <3> QED
      BY <1>6, <3>1, <3>2, SucceededStays, SamePosts
  <2>2. ASSUME NEW i, i = job[r], seen[r] = "succeeded"
        PROVE  SucceededAt(r, i)'
    <3>1. resolved[i].job = job[r] /\ resolved[i].build = build[r]
      BY <1>1, <1>2, <1>3, <2>2
    <3>2. build[r] \in Hosted /\ posts[build[r]].id = job[r] /\ posts[build[r]].fate = "succeeded"
      BY <1>2, <2>2 DEF BuildOf
    <3>3. Hosted' = Hosted
      BY <1>6 DEF Hosted
    <3> QED
      BY <1>6, <2>2, <3>1, <3>2, <3>3 DEF SucceededAt, SucceededBuild
  <2>3. CASE tpc'[r] = "fail"
    BY <1>1, <1>6, <2>3 DEF SubmissionsOf, Unsubmitted, Waiting
  <2>4. CASE tpc'[r] = "select" /\ job'[r] = job[r] + 1 /\ seen[r] = "succeeded"
    BY <1>1, <1>3, <1>6, <2>1, <2>2, <2>4 DEF SubmissionsOf, Unsubmitted, Waiting
  <2>5. CASE tpc'[r] = "finish" /\ seen[r] = "succeeded" /\ job[r] = NumJobs
    BY <1>1, <1>3, <1>6, <2>1, <2>2, <2>5 DEF SubmissionsOf, Unsubmitted, Waiting, Jobs
  <2> QED
    BY <1>7, <2>3, <2>4, <2>5 DEF IInv, TypeOK
<1> QED
  BY <1>4, <1>6, <1>7, <1>8, <1>10, <1>11, TaskMoves DEF IInv, TypeOK, RunInv

\* A task that ends leaves no claim but its record's, which says how it went.
LEMMA EndStep ==
  ASSUME IInv, NEW r \in Runs, Service!Finish(r) \/ Service!Fail(r),
         UNCHANGED <<routerVars, crashes>>
  PROVE  IInv'
<1> DEFINE done == [runs[r] EXCEPT !.status = "Succeeded", !.current = None]
           failed == [runs[r] EXCEPT !.status = "Failed", !.current = None]
<1>0. /\ runs[r] \in Service!RunRecord /\ runs[r] # None
      /\ tpc[r] \in {"finish", "fail"}
  BY WorkingRecord DEF Service!Finish, Service!Fail, Service!Ended
<1>1. done \in Service!RunRecord /\ failed \in Service!RunRecord
  BY <1>0 DEF Service!RunRecord
<1>2. /\ UNCHANGED <<config, posts>> /\ Service!End(r)
      /\ \/ runs' = [runs EXCEPT ![r] = done] /\ tpc[r] = "finish"
         \/ runs' = [runs EXCEPT ![r] = failed]
  BY <1>0 DEF Service!Finish, Service!Fail, Service!Update
<1>3. /\ tpc' = [tpc EXCEPT ![r] = "done"] /\ job' = [job EXCEPT ![r] = 1]
      /\ build' = [build EXCEPT ![r] = 0] /\ seen' = [seen EXCEPT ![r] = "queued"]
      /\ polls' = [polls EXCEPT ![r] = 0]
  BY <1>2 DEF Service!End, Service!Goto
<1>4. TypeOK'
  <2>1. 1 \in Jobs /\ 0 \in Nat /\ "queued" \in Service!BuildStates
    BY DEF Jobs, Service!BuildStates
  <2> HIDE DEF done, failed
  <2>2. runs' \in [Runs -> Service!RunRecord \cup {None}]
    BY <1>1, <1>2 DEF IInv, TypeOK
  <2>3. tpc' \in [Runs -> {"none", "inserted", "begin", "record", "finish", "fail"}
                            \cup Unsubmitted \cup Waiting \cup Service!Ended]
    BY <1>3 DEF IInv, TypeOK, Service!Ended
  <2> QED
    BY <1>2, <1>3, <2>1, <2>2, <2>3 DEF IInv, TypeOK, routerVars
<1>5. /\ tpc'[r] = "done" /\ job'[r] = 1 /\ runs'[r] # None
      /\ \/ /\ runs'[r].status = "Succeeded" /\ tpc[r] = "finish"
            /\ runs'[r].submissions = runs[r].submissions
         \/ runs'[r].status = "Failed"
  <2>1. /\ done.status = "Succeeded" /\ done.submissions = runs[r].submissions
        /\ failed.status = "Failed" /\ done # None /\ failed # None
    BY <1>0, <1>1 DEF Service!RunRecord
  <2> HIDE DEF done, failed
  <2>2. tpc'[r] = "done" /\ job'[r] = 1
    BY <1>3 DEF IInv, TypeOK
  <2>3. (runs'[r] = done /\ tpc[r] = "finish") \/ runs'[r] = failed
    BY <1>2 DEF IInv, TypeOK
  <2> QED
    BY <2>1, <2>2, <2>3
<1>6. SubmissionsOf(r)'
  <2>1. CASE runs'[r].status = "Failed"
    BY <1>5, <2>1 DEF SubmissionsOf, Unsubmitted, Waiting
  <2>2. CASE tpc[r] = "finish" /\ runs'[r].submissions = runs[r].submissions
    <3>1. \A i : SucceededAt(r, i) => SucceededAt(r, i)'
      BY <1>2, <2>2, SucceededStays, SamePosts
    <3>2. /\ Len(runs[r].submissions) = NumJobs /\ \A i \in Jobs : SucceededAt(r, i)
      BY <2>2 DEF IInv, RunInv, SubmissionsOf
    <3> QED
      BY <1>5, <2>2, <3>1, <3>2 DEF SubmissionsOf, Unsubmitted, Waiting
  <2> QED
    BY <1>5, <2>1, <2>2
<1>7. RunInv(r)'
  BY <1>5, <1>6 DEF RunInv, RecordOf, OwnBuildOf, Waiting, Service!Ended
<1> HIDE DEF done, failed
<1> QED
  BY <1>2, <1>3, <1>4, <1>7, TaskMoves DEF IInv, TypeOK

LEMMA WorkStep ==
  ASSUME IInv, NEW r \in Runs, Work(r)
  PROVE  IInv'
BY SpawnStep, BeginStep, SelectStep, RecordStep, SleepStep, SettleStep, EndStep DEF Work

-----------------------------------------------------------------------------
(* Between the services *)

\* A route id names one build, so the answer about it is about that build.
LEMMA PollStep ==
  ASSUME IInv, NEW r \in Runs, Poll(r)
  PROVE  IInv'
<1>0. /\ runs[r] \in Service!RunRecord /\ runs[r] # None
      /\ runs[r].status \in {"Queued", "Running"} /\ tpc[r] = "poll"
      /\ UNCHANGED <<config, runs, job, build, polls, routerVars, posts, crashes>>
      /\ BuildOf(build[r], job[r])
  BY WorkingRecord DEF Poll, Service!Ended, IInv, RunInv, OwnBuildOf, Waiting
<1>1. PICK to : /\ tpc' = [tpc EXCEPT ![r] = to]
                /\ \/ to = "fail" /\ seen' = seen
                   \/ /\ seen' = [seen EXCEPT ![r] = posts[build[r]].fate]
                      /\ to = Service!AfterStatus(posts[build[r]].fate)
                      /\ posts[build[r]].fate \in Service!BuildStates
  <2>1. CASE Service!Goto(r, "fail") /\ UNCHANGED seen
    BY <2>1 DEF Service!Goto
  <2>2. ASSUME NEW status \in StatusAnswers(build[r]),
               seen' = [seen EXCEPT ![r] = status], Service!Goto(r, Service!AfterStatus(status))
        PROVE  /\ status = posts[build[r]].fate /\ status \in Service!BuildStates
               /\ tpc' = [tpc EXCEPT ![r] = Service!AfterStatus(status)]
    <3>1. PICK n \in Hosted : Named(n, build[r]) /\ status = posts[n].fate
      BY <2>2 DEF StatusAnswers
    <3>2. n = build[r]
      BY <1>0, <3>1 DEF IInv, PostsInv, BuildOf
    <3>3. posts[n] \in Post
      BY <3>1, PostTyped DEF IInv, Hosted
    <3> QED
      BY <2>2, <3>1, <3>2, <3>3 DEF Service!Goto, Hosted, Post, Service!BuildStates
  <2> QED
    BY <2>1, <2>2 DEF Poll
<1>2. \/ to \in {"fail", "sleep"}
      \/ /\ to = "settle" /\ seen'[r] = posts[build[r]].fate
         /\ posts[build[r]].fate \in {"succeeded", "failed"}
  BY <1>1 DEF Service!AfterStatus, IInv, TypeOK
<1>3. tpc'[r] = to
  BY <1>1 DEF IInv, TypeOK
<1>4. TypeOK'
  <2>1. seen' \in [Runs -> Service!BuildStates]
    BY <1>1 DEF IInv, TypeOK
  <2> QED
    BY <1>0, <1>1, <1>2, <2>1 DEF IInv, TypeOK, routerVars, Waiting
<1>5. RecordOf(r)'
  BY <1>0, <1>2, <1>3 DEF RecordOf, Service!Terminal
<1>6. OwnBuildOf(r)'
  BY <1>0, <1>2, <1>3, BuildStays, SamePosts DEF OwnBuildOf, Waiting
<1>7. SubmissionsOf(r)'
  <2>1. \A i : SucceededAt(r, i) => SucceededAt(r, i)'
    BY <1>0, SucceededStays, SamePosts
  <2> QED
    BY <1>0, <1>2, <1>3, <2>1 DEF IInv, RunInv, SubmissionsOf, Unsubmitted, Waiting
<1> QED
  BY <1>0, <1>1, <1>4, <1>5, <1>6, <1>7, TaskMoves DEF IInv, TypeOK, RunInv

\* A step of one run's task and of the router's calls.
LEMMA CallMoves ==
  ASSUME IInv, NEW r \in Runs, TypeOK', RunInv(r)', CallsInv',
         UNCHANGED <<epoch, bound, sends, verdict, posts>>,
         \A q \in Runs \ {r} : UNCHANGED <<runs[q], tpc[q], job[q], build[q], seen[q]>>
  PROVE  IInv'
<1>1. PostsInv' /\ TableInv'
  BY PostsKept, TableKept DEF IInv, TypeOK
<1>2. \A q \in Runs \ {r} : RunInv(q)'
  BY SamePosts, OthersKeep DEF IInv
<1> QED
  BY <1>1, <1>2 DEF IInv

\* A task that fails relies on nothing but its record.
LEMMA FailingRun ==
  ASSUME IInv, NEW r \in Runs, tpc[r] \notin {"none"} \cup Service!Ended,
         tpc'[r] = "fail", runs' = runs
  PROVE  RunInv(r)'
BY WorkingRecord DEF RunInv, RecordOf, OwnBuildOf, SubmissionsOf, Unsubmitted, Waiting,
   Service!Terminal

LEMMA GiveUpStep ==
  ASSUME IInv, NEW r \in Runs, GiveUp(r)
  PROVE  IInv'
<1>1. /\ tpc[r] \in {"submit", "awaiting"} /\ tpc' = [tpc EXCEPT ![r] = "fail"]
      /\ UNCHANGED <<config, runs, job, build, seen, polls, routerVars, posts, crashes>>
  BY DEF GiveUp, Service!Goto
<1>2. TypeOK'
  BY <1>1 DEF IInv, TypeOK, routerVars
<1>3. RunInv(r)'
  BY <1>1, FailingRun DEF IInv, TypeOK, Service!Ended
<1> QED
  BY <1>1, <1>2, <1>3, TaskMoves DEF IInv, TypeOK

\* The job a working task is at has all earlier jobs done.
LEMMA EarlierJobsDone ==
  ASSUME IInv, NEW r \in Runs, tpc[r] \in Unsubmitted
  PROVE  EarlierDone(job[r])
BY DEF IInv, RunInv, SubmissionsOf, SucceededAt, EarlierDone, Done

LEMMA SubmitStep ==
  ASSUME IInv, NEW r \in Runs, Submit(r)
  PROVE  IInv'
<1> DEFINE c == Call(r)
           q == [id |-> job[r], content |-> Content]
<1>1. /\ runs[r] # None /\ runs[r].status \in {"Queued", "Running"} /\ tpc[r] = "submit"
      /\ job[r] \in Jobs /\ c \in Calls /\ c[2] = job[r] /\ q \in Request
  BY WorkingRecord DEF Submit, Service!Ended, Call, Calls, Request
<1> HIDE DEF c
<1>2. asked' = [asked EXCEPT ![c] = q]
  <2>1. PICK id \in Jobs, content \in {Content} :
          asked' = [asked EXCEPT ![c] = [id |-> id, content |-> content]]
    BY DEF Submit, Router!Ask, c
  <2>2. asked'[c].id = job[r]
    BY DEF Submit, RequestId, c
  <2>3. id = job[r] /\ content = Content
    BY <1>1, <2>1, <2>2 DEF IInv, TypeOK
  <2> QED
    BY <2>1, <2>3
<1> HIDE DEF q
<1>3. /\ tpc' = [tpc EXCEPT ![r] = "awaiting"]
      /\ UNCHANGED <<config, runs, job, build, seen, polls, epoch, posts, crashes>>
      /\ UNCHANGED <<answer, bound, sends, verdict>>
  BY DEF Submit, Service!Goto, Router!Ask
<1>4. TypeOK'
  BY <1>1, <1>2, <1>3 DEF IInv, TypeOK, Unsubmitted
<1>5. tpc'[r] = "awaiting"
  BY <1>3 DEF IInv, TypeOK
<1>6. RunInv(r)'
  <2>1. RecordOf(r)'
    BY <1>1, <1>3, <1>5 DEF RecordOf, Service!Terminal
  <2>2. \A i : SucceededAt(r, i) => SucceededAt(r, i)'
    BY <1>3, SucceededStays, SamePosts
  <2>3. SubmissionsOf(r)'
    BY <1>1, <1>3, <1>5, <2>2 DEF IInv, RunInv, SubmissionsOf, Unsubmitted, Waiting
  <2> QED
    BY <1>5, <2>1, <2>3 DEF RunInv, OwnBuildOf, Waiting
<1>7. CallsInv'
  <2>1. EarlierDone(c[2])
    BY <1>1, EarlierJobsDone DEF Unsubmitted
  <2>2. \A d : EarlierDone(d[2]) => EarlierDone(d[2])'
    BY <1>3, SamePosts, EarlierStays
  <2>3. \A n, j : BuildOf(n, j) => BuildOf(n, j)'
    BY <1>3, SamePosts, BuildStays
  <2>4. asked'[c].id = c[2] /\ \A d \in Calls \ {c} : asked'[d] = asked[d]
    BY <1>1, <1>2 DEF IInv, TypeOK, q
  <2> QED
    BY <1>1, <1>3, <2>1, <2>2, <2>3, <2>4 DEF IInv, CallsInv
<1> QED
  BY <1>3, <1>4, <1>6, <1>7, CallMoves DEF IInv, TypeOK

LEMMA AnsweredStep ==
  ASSUME IInv, NEW r \in Runs, Answered(r)
  PROVE  IInv'
<1> DEFINE c == Call(r)
<1>1. /\ runs[r] # None /\ runs[r].status \in {"Queued", "Running"} /\ tpc[r] = "awaiting"
      /\ c \in Calls /\ c[2] = job[r] /\ answer[c] \in Answer
  BY WorkingRecord DEF Answered, Service!Ended, Call, Calls, IInv, TypeOK
<1>2. /\ UNCHANGED <<config, runs, job, seen, polls, bound, sends, verdict, epoch, posts,
                     crashes>>
      /\ asked' = [asked EXCEPT ![c] = None] /\ answer' = [answer EXCEPT ![c] = None]
      /\ \/ /\ answer[c].kind = "accepted" /\ answer[c] # None
            /\ build' = [build EXCEPT ![r] = answer[c].build]
            /\ tpc' = [tpc EXCEPT ![r] = "record"]
         \/ tpc' = [tpc EXCEPT ![r] = "fail"] /\ build' = build
  BY DEF Answered, Service!Goto
<1> HIDE DEF c
<1>3. TypeOK'
  <2>1. answer[c].build \in Nat
    BY <1>1 DEF Answer
  <2> QED
    BY <1>2, <2>1 DEF IInv, TypeOK
<1>4. CallsInv'
  <2>1. \A d : EarlierDone(d[2]) => EarlierDone(d[2])'
    BY <1>2, SamePosts, EarlierStays
  <2>2. \A n, j : BuildOf(n, j) => BuildOf(n, j)'
    BY <1>2, SamePosts, BuildStays
  <2>3. /\ asked'[c] = None /\ \A d \in Calls \ {c} : asked'[d] = asked[d]
        /\ answer'[c] = None /\ \A d \in Calls \ {c} : answer'[d] = answer[d]
    BY <1>1, <1>2 DEF IInv, TypeOK
  <2> QED
    BY <2>1, <2>2, <2>3 DEF IInv, CallsInv
<1>5. RunInv(r)'
  <2>1. CASE tpc' = [tpc EXCEPT ![r] = "fail"]
    BY <1>1, <1>2, <2>1, FailingRun DEF IInv, TypeOK, Service!Ended
  <2>2. CASE /\ answer[c].kind = "accepted" /\ answer[c] # None
             /\ build' = [build EXCEPT ![r] = answer[c].build]
             /\ tpc' = [tpc EXCEPT ![r] = "record"]
    <3>1. tpc'[r] = "record" /\ build'[r] = answer[c].build
      BY <2>2 DEF IInv, TypeOK
    <3>2. BuildOf(answer[c].build, job[r])
      BY <1>1, <2>2 DEF IInv, CallsInv
    <3>3. OwnBuildOf(r)'
      BY <1>2, <3>1, <3>2, BuildStays, SamePosts DEF OwnBuildOf
    <3>4. RecordOf(r)'
      BY <1>1, <1>2, <3>1 DEF RecordOf, Service!Terminal
    <3>5. \A i : SucceededAt(r, i) => SucceededAt(r, i)'
      BY <1>2, SucceededStays, SamePosts
    <3>6. SubmissionsOf(r)'
      BY <1>1, <1>2, <3>1, <3>5 DEF IInv, RunInv, SubmissionsOf, Unsubmitted, Waiting
    <3> QED
      BY <3>3, <3>4, <3>6 DEF RunInv
  <2> QED
    BY <1>2, <2>1, <2>2
<1> QED
  BY <1>2, <1>3, <1>4, <1>5, CallMoves DEF IInv, TypeOK

-----------------------------------------------------------------------------
(* The router's own steps *)

LEMMA RouterMoves ==
  ASSUME IInv, TypeOK', TableInv', CallsInv', UNCHANGED <<runVars, posts>>, epoch <= epoch'
  PROVE  IInv'
<1>1. PostsInv'
  BY PostsKept DEF IInv, TypeOK
<1>2. \A r \in Runs : RunInv(r)'
  BY SamePosts, OthersKeep DEF IInv, runVars
<1> QED
  BY <1>1, <1>2 DEF IInv

LEMMA LeaveStep ==
  ASSUME IInv, NEW c \in Calls, Leave(c)
  PROVE  IInv'
<1>1. /\ asked' = [asked EXCEPT ![c] = None]
      /\ UNCHANGED <<answer, bound, sends, verdict, runVars, epoch, posts, crashes>>
  BY DEF Leave, Router!Leave
<1>2. TypeOK'
  BY <1>1 DEF IInv, TypeOK, runVars
<1>3. CallsInv'
  BY <1>1, SamePosts, BuildStays, EarlierStays DEF IInv, CallsInv, TypeOK
<1> QED
  BY <1>1, <1>2, <1>3, RouterMoves, TableKept DEF IInv, TypeOK

LEMMA DeclineStep ==
  ASSUME IInv, NEW c \in Calls, Decline(c)
  PROVE  IInv'
<1> DEFINE refusal == [kind |-> "notReady", executor |-> 0, build |-> 0]
<1>1. answer' = [answer EXCEPT ![c] = refusal]
  <2>1. PICK kind \in {"unauthorized", "disabled", "malformed", "invalid", "notReady", "full"} :
          answer' = [answer EXCEPT ![c] = [kind |-> kind, executor |-> 0, build |-> 0]]
    BY DEF Decline, Router!Decline
  <2>2. kind = "notReady"
    BY <2>1 DEF Decline, IInv, TypeOK
  <2> QED
    BY <2>1, <2>2
<1>2. UNCHANGED <<asked, bound, sends, verdict, runVars, epoch, posts, crashes>>
  BY DEF Decline, Router!Decline
<1>3. refusal \in Answer /\ refusal.kind # "accepted"
  BY DEF Answer
<1> HIDE DEF refusal
<1>4. TypeOK'
  BY <1>1, <1>2, <1>3 DEF IInv, TypeOK, runVars
<1>5. CallsInv'
  BY <1>1, <1>2, <1>3, SamePosts, BuildStays, EarlierStays DEF IInv, CallsInv, TypeOK
<1> QED
  BY <1>2, <1>4, <1>5, RouterMoves, TableKept DEF IInv, TypeOK

LEMMA TellStep ==
  ASSUME IInv, NEW c \in Calls, Tell(c)
  PROVE  IInv'
<1>1. PICK v \in Answer : /\ answer' = [answer EXCEPT ![c] = v]
                          /\ v.kind = "accepted" => BuildOf(v.build, c[2])
  <2>1. asked[c] # None /\ asked[c].id = c[2] /\ c[2] \in Jobs
    BY DEF Tell, Router!Tell, Router!Waiting, IInv, CallsInv, Calls
  <2> QED
    BY <2>1 DEF Tell, Router!Tell, IInv, TableInv, TypeOK
<1>2. UNCHANGED <<asked, bound, sends, verdict, runVars, epoch, posts, crashes>>
  BY DEF Tell, Router!Tell
<1>3. TypeOK'
  BY <1>1, <1>2 DEF IInv, TypeOK, runVars
<1>4. CallsInv'
  <2>1. BuildOf(v.build, c[2]) => BuildOf(v.build, c[2])'
    BY <1>2 DEF BuildOf, Hosted
  <2> QED
    BY <1>1, <1>2, <2>1, SamePosts, BuildStays, EarlierStays DEF IInv, CallsInv, TypeOK
<1> QED
  BY <1>2, <1>3, <1>4, RouterMoves, TableKept DEF IInv, TypeOK

LEMMA BindStep ==
  ASSUME IInv, NEW j \in Jobs, Bind(j)
  PROVE  IInv'
<1>1. PICK c \in Calls, e \in Executors :
        /\ asked[c] # None /\ asked[c].id = j
        /\ bound' = [bound EXCEPT ![j] = [content |-> asked[c].content, executor |-> e]]
  BY DEF Bind, Router!Bind, Router!Waiting
<1>2. UNCHANGED <<asked, answer, sends, verdict, runVars, epoch, posts, crashes>>
  BY DEF Bind, Router!Bind
<1>3. /\ EarlierDone(j) /\ asked[c].content = Content
  BY <1>1 DEF IInv, CallsInv, TypeOK, Request
<1>4. TypeOK'
  <2>1. [content |-> asked[c].content, executor |-> e] \in Binding
    BY <1>3 DEF Binding
  <2> QED
    BY <1>1, <1>2, <2>1 DEF IInv, TypeOK, runVars
<1>5. TableInv'
  <2>1. \A i : EarlierDone(i) => EarlierDone(i)'
    BY <1>2, SamePosts, EarlierStays
  <2>2. \A n, i : BuildOf(n, i) => BuildOf(n, i)'
    BY <1>2, SamePosts, BuildStays
  <2>3. [content |-> asked[c].content, executor |-> e] \in Binding
    BY <1>3 DEF Binding
  <2> QED
    BY <1>1, <1>2, <1>3, <2>1, <2>2, <2>3 DEF IInv, TableInv, TypeOK
<1> QED
  BY <1>2, <1>4, <1>5, RouterMoves, CallsKept, SamePosts DEF IInv, TypeOK

LEMMA DecideStep ==
  ASSUME IInv, NEW j \in Jobs, Decide(j)
  PROVE  IInv'
<1>1. PICK v \in Answer : /\ verdict' = [verdict EXCEPT ![j] = v] /\ verdict'[j] = v
                          /\ v.kind = "accepted" => v.build \in sends[j]
  <2>1. PICK kind \in {"accepted", "rejected", "ambiguous"}, b \in sends[j] \cup {0} :
          /\ kind = "accepted" => b \in sends[j]
          /\ verdict' = [verdict EXCEPT ![j] =
                           [kind |-> kind, executor |-> bound[j].executor, build |-> b]]
    BY DEF Decide, Router!Decide
  <2>2. sends[j] # {} /\ bound[j] # None /\ b \in Nat
    BY DEF Decide, Router!Decide, IInv, TableInv, TypeOK
  <2> DEFINE v == [kind |-> kind, executor |-> bound[j].executor, build |-> b]
  <2>3. bound[j].executor \in Executors
    BY <2>2 DEF IInv, TypeOK, Binding
  <2>4. v \in Answer /\ v.kind = kind /\ v.build = b
    BY <2>1, <2>2, <2>3 DEF Answer
  <2> HIDE DEF v
  <2>5. verdict' = [verdict EXCEPT ![j] = v] /\ verdict'[j] = v
    BY <2>1 DEF v, IInv, TypeOK
  <2> QED
    BY <2>1, <2>4, <2>5
<1>2. UNCHANGED <<asked, answer, bound, sends, runVars, epoch, posts, crashes>>
  BY DEF Decide, Router!Decide
<1>3. v.kind = "accepted" => BuildOf(v.build, j)
  BY <1>1 DEF Decide, BuildOf, IInv, TableInv
<1>4. TypeOK'
  BY <1>1, <1>2 DEF IInv, TypeOK, runVars
<1>5. TableInv'
  <2>1. \A i : EarlierDone(i) => EarlierDone(i)'
    BY <1>2, SamePosts, EarlierStays
  <2>2. \A n, i : BuildOf(n, i) => BuildOf(n, i)'
    BY <1>2, SamePosts, BuildStays
  <2>3. v.kind = "accepted" => BuildOf(v.build, j)'
    BY <1>2, <1>3 DEF BuildOf, Hosted
  <2> QED
    BY <1>1, <1>2, <2>1, <2>2, <2>3 DEF IInv, TableInv, TypeOK
<1> QED
  BY <1>2, <1>4, <1>5, RouterMoves, CallsKept, SamePosts DEF IInv, TypeOK

LEMMA RestartStep ==
  ASSUME IInv, Restart
  PROVE  IInv'
<1>1. /\ asked' = [c \in Calls |-> IF answer[c] = None THEN None ELSE asked[c]]
      /\ bound' = [j \in Jobs |-> None] /\ sends' = [j \in Jobs |-> {}]
      /\ verdict' = [j \in Jobs |-> None] /\ epoch' = epoch + 1
      /\ UNCHANGED <<answer, runVars, posts, crashes>>
  BY DEF Restart, Router!Forget
<1>2. TypeOK'
  <2>1. epoch' \in Nat /\ epoch' + crashes' <= MaxRestarts
    BY <1>1 DEF Restart, IInv, TypeOK
  <2> QED
    BY <1>1, <2>1 DEF IInv, TypeOK, runVars
<1>3. TableInv'
  <2>1. \A n \in DOMAIN posts : posts[n].epoch # epoch + 1
    BY PostTyped DEF IInv, PostsInv, TypeOK, Post
  <2> QED
    BY <1>1, <2>1 DEF TableInv
<1>4. CallsInv'
  BY <1>1, SamePosts, BuildStays, EarlierStays DEF IInv, CallsInv
<1> QED
  BY <1>1, <1>2, <1>3, <1>4, RouterMoves DEF IInv, TypeOK

-----------------------------------------------------------------------------
(* The posts and their builds *)

LEMMA PostsMove ==
  ASSUME IInv, TypeOK', PostsInv', TableInv', PostsGrow, UNCHANGED <<runVars, asked, answer>>
  PROVE  IInv'
<1>1. CallsInv'
  BY CallsKept DEF IInv
<1>2. \A r \in Runs : RunInv(r)'
  BY OthersKeep DEF IInv, runVars
<1> QED
  BY <1>1, <1>2 DEF IInv

\* The router has no post for the job yet, and all earlier jobs are done.
LEMMA SendStep ==
  ASSUME IInv, NEW j \in Jobs, Send(j)
  PROVE  IInv'
<1> DEFINE n == Len(posts) + 1
           p == Sent(j)
<1>1. /\ bound[j] # None /\ sends[j] = {} /\ sends' = [sends EXCEPT ![j] = {n}]
      /\ posts' = Append(posts, p)
      /\ UNCHANGED <<runVars, asked, answer, bound, verdict, epoch, crashes>>
  BY DEF Send, Router!Send
<1>2. p \in Post /\ p.id = j /\ p.epoch = epoch /\ p.fate = "wire"
  <2>1. bound[j].executor \in Executors /\ epoch \in 0..MaxRestarts
    BY <1>1 DEF IInv, TypeOK, Binding
  <2> QED
    BY <2>1 DEF Sent, Post
<1> HIDE DEF p
<1>3. posts \in Seq(Post) /\ Len(posts) \in Nat /\ DOMAIN posts = 1..Len(posts)
  BY LenProperties DEF IInv, TypeOK
<1>4. /\ posts' \in Seq(Post) /\ DOMAIN posts' = 1..n /\ posts'[n] = p /\ n \in Nat
      /\ n \notin DOMAIN posts /\ DOMAIN posts' = DOMAIN posts \cup {n}
      /\ \A m \in DOMAIN posts : m \in DOMAIN posts' /\ posts'[m] = posts[m]
  BY <1>1, <1>2, <1>3, AppendProperties
<1> HIDE DEF n
<1>5. Hosted' = Hosted /\ PostsGrow /\ \A e : At(e)' = At(e)
  <2>1. Hosted' = Hosted
    BY <1>2, <1>4 DEF Hosted
  <2>2. \A e : At(e)' = At(e)
    BY <1>4, <2>1 DEF At, Hosted
  <2> QED
    BY <1>4, <2>1, <2>2 DEF PostsGrow
<1>6. TypeOK'
  BY <1>1, <1>4 DEF IInv, TypeOK, runVars
<1>7. PostsInv'
  <2>1. \A m \in DOMAIN posts' : posts'[m].epoch <= epoch' /\ EarlierDone(posts[m].id)'
    <3>1. \A i : EarlierDone(i) => EarlierDone(i)'
      BY <1>5, EarlierStays
    <3>2. EarlierDone(j)'
      BY <1>1, <3>1 DEF IInv, TableInv
    <3>3. epoch <= epoch /\ epoch' = epoch
      BY <1>1 DEF IInv, TypeOK
    <3>4. ASSUME NEW m \in DOMAIN posts'
          PROVE  /\ posts'[m].epoch <= epoch
                 /\ \A i : i = posts'[m].id => EarlierDone(i)'
      <4>1. CASE m = n
        BY <1>2, <1>4, <3>2, <3>3, <4>1
      <4>2. CASE m \in DOMAIN posts
        BY <1>4, <3>1, <4>2 DEF IInv, PostsInv
      <4> QED
        BY <1>4, <4>1, <4>2
    <3> QED
      BY <3>3, <3>4
  <2>2. \A m \in DOMAIN posts : ~(posts[m].id = j /\ posts[m].epoch = epoch)
    BY <1>1 DEF IInv, TableInv
  <2>3. \A m, k \in DOMAIN posts' :
           posts'[m].id = posts'[k].id /\ posts'[m].epoch = posts'[k].epoch => m = k
    <3>1. \A m, k \in DOMAIN posts :
             posts[m].id = posts[k].id /\ posts[m].epoch = posts[k].epoch => m = k
      BY DEF IInv, PostsInv
    <3>2. posts'[n].id = j /\ posts'[n].epoch = epoch
      BY <1>2, <1>4
    <3>3. \A m \in DOMAIN posts : posts'[m] = posts[m]
      BY <1>4
    <3>4. \A m \in DOMAIN posts' : m = n \/ m \in DOMAIN posts
      BY <1>4
    <3> QED
      BY <2>2, <3>1, <3>2, <3>3, <3>4
  <2>4. \A m, k \in Hosted' : Named(m, k)' => m = k
    BY <1>4, <1>5 DEF IInv, PostsInv, Named, Hosted
  <2>5. \A m \in Hosted' : posts'[m].local \in 1..Cardinality(At(posts[m].executor))'
    <3>1. \A m \in Hosted : posts'[m] = posts[m]
      BY <1>4 DEF Hosted
    <3>2. ASSUME NEW m \in Hosted
          PROVE  \A e : e = posts'[m].executor => posts'[m].local \in 1..Cardinality(At(e)')
      BY <1>5, <3>1 DEF IInv, PostsInv
    <3> QED
      BY <1>5, <3>2
  <2> QED
    BY <2>1, <2>3, <2>4, <2>5 DEF PostsInv
<1>8. TableInv'
  <2>1. \A i : EarlierDone(i) => EarlierDone(i)'
    BY <1>5, EarlierStays
  <2>2. \A m, i : BuildOf(m, i) => BuildOf(m, i)'
    BY <1>5, BuildStays
  <2>3. ASSUME NEW i \in Jobs
        PROVE  sends'[i] = {m \in DOMAIN posts' : posts'[m].id = i /\ posts'[m].epoch = epoch}
    <3>1. sends[i] = {m \in DOMAIN posts : posts[m].id = i /\ posts[m].epoch = epoch}
      BY DEF IInv, TableInv
    <3>2. CASE i = j
      BY <1>1, <1>2, <1>4, <3>1, <3>2 DEF IInv, TypeOK
    <3>3. CASE i # j
      BY <1>1, <1>2, <1>4, <3>1, <3>3 DEF IInv, TypeOK
    <3> QED
      BY <3>2, <3>3
  <2>4. \A i \in Jobs : sends'[i] # {} => bound'[i] # None
    BY <1>1 DEF IInv, TableInv, TypeOK
  <2> QED
    BY <1>1, <2>1, <2>2, <2>3, <2>4 DEF IInv, TableInv
<1> QED
  BY <1>1, <1>5, <1>6, <1>7, <1>8, PostsMove

LocalsInv ==
  /\ \A m, n \in Hosted : Named(m, n) => m = n
  /\ \A n \in Hosted : posts[n].local \in 1..Cardinality(At(posts[n].executor))

\* What becomes of a post whose job, executor and router stay what they are.
LEMMA PostMoves ==
  ASSUME IInv, NEW n \in DOMAIN posts, NEW p \in Post, posts' = [posts EXCEPT ![n] = p],
         p.id = posts[n].id, p.executor = posts[n].executor, p.epoch = posts[n].epoch,
         PostsGrow, LocalsInv', UNCHANGED <<runVars, routerVars, crashes>>
  PROVE  IInv'
<1>1. posts \in Seq(Post) /\ n \in 1..Len(posts)
  BY PostTyped DEF IInv, TypeOK
<1>2. posts' \in Seq(Post)
  BY <1>1, ExceptSeq
<1>3. /\ DOMAIN posts' = DOMAIN posts
      /\ \A m \in DOMAIN posts : posts'[m].id = posts[m].id /\ posts'[m].epoch = posts[m].epoch
  OBVIOUS
<1>4. TypeOK'
  BY <1>2 DEF IInv, TypeOK, runVars, routerVars
<1>5. PostsInv'
  <2>1. ASSUME NEW m \in DOMAIN posts
        PROVE  posts'[m].epoch <= epoch /\ \A i : i = posts'[m].id => EarlierDone(i)'
    <3>1. \A i : EarlierDone(i) => EarlierDone(i)'
      BY EarlierStays
    <3> QED
      BY <1>3, <3>1 DEF IInv, PostsInv
  <2>2. \A m, k \in DOMAIN posts' :
          posts'[m].id = posts'[k].id /\ posts'[m].epoch = posts'[k].epoch => m = k
    BY <1>3 DEF IInv, PostsInv
  <2>3. epoch' = epoch
    BY DEF routerVars
  <2> QED
    BY <1>3, <2>1, <2>2, <2>3 DEF PostsInv, LocalsInv
<1>6. TableInv'
  <2>1. \A i : EarlierDone(i) => EarlierDone(i)'
    BY EarlierStays
  <2>2. \A m, i : BuildOf(m, i) => BuildOf(m, i)'
    BY BuildStays
  <2>3. \A j \in Jobs : sends'[j] = {m \in DOMAIN posts' : posts'[m].id = j /\ posts'[m].epoch = epoch'}
    BY <1>3 DEF IInv, TableInv, routerVars
  <2> QED
    BY <2>1, <2>2, <2>3 DEF IInv, TableInv, routerVars
<1> QED
  BY <1>4, <1>5, <1>6, PostsMove DEF routerVars

LEMMA EndBuildStep ==
  ASSUME IInv, NEW n \in DOMAIN posts, EndBuild(n)
  PROVE  IInv'
<1>1. PICK s \in {"succeeded", "failed"} : posts' = [posts EXCEPT ![n].fate = s]
  BY DEF EndBuild
<1> DEFINE p == [posts[n] EXCEPT !.fate = s]
<1>2. posts[n] \in Post /\ posts[n].fate = "queued"
  BY PostTyped DEF IInv, EndBuild
<1>3. /\ p \in Post /\ p.id = posts[n].id /\ p.executor = posts[n].executor
      /\ p.epoch = posts[n].epoch /\ p.local = posts[n].local /\ p.fate = s
      /\ posts' = [posts EXCEPT ![n] = p]
  BY <1>1, <1>2 DEF Post
<1> HIDE DEF p
<1>4. /\ DOMAIN posts' = DOMAIN posts /\ posts'[n] = p
      /\ \A m \in DOMAIN posts : m # n => posts'[m] = posts[m]
  BY <1>3
<1>5. Hosted' = Hosted
  BY <1>2, <1>3, <1>4 DEF Hosted
<1>6. PostsGrow
  BY <1>2, <1>3, <1>4, <1>5 DEF PostsGrow
<1>7. \A m \in DOMAIN posts : posts'[m].executor = posts[m].executor /\ posts'[m].local = posts[m].local
  BY <1>3, <1>4
<1>8. LocalsInv'
  <2>1. \A e : At(e)' = At(e)
    BY <1>5, <1>7 DEF At, Hosted
  <2>2. \A m, k \in Hosted' : Named(m, k)' => m = k
    BY <1>5, <1>7 DEF IInv, PostsInv, Named, Hosted
  <2>3. ASSUME NEW m \in Hosted
        PROVE  \A e : e = posts'[m].executor => posts'[m].local \in 1..Cardinality(At(e)')
    BY <1>7, <2>1 DEF IInv, PostsInv, Hosted
  <2> QED
    BY <1>5, <2>2, <2>3 DEF LocalsInv
<1> QED
  BY <1>3, <1>6, <1>8, PostMoves DEF EndBuild

LEMMA FiniteAt ==
  ASSUME IInv, NEW e
  PROVE  IsFiniteSet(At(e)) /\ Cardinality(At(e)) \in Nat
<1>1. At(e) \subseteq 1..Len(posts) /\ Len(posts) \in Nat
  BY LenProperties DEF IInv, TypeOK, At, Hosted
<1>2. IsFiniteSet(1..Len(posts))
  BY <1>1, FS_Interval
<1> QED
  BY <1>1, <1>2, FS_Subset, FS_CardinalityType

\* An executor gives the build it creates an id that none of its builds has.
LEMMA DeliverStep ==
  ASSUME IInv, NEW n \in DOMAIN posts, Deliver(n)
  PROVE  IInv'
<1> DEFINE e == posts[n].executor
           queued == [posts[n] EXCEPT !.fate = "queued", !.local = NextLocal(e)]
           refused == [posts[n] EXCEPT !.fate = "refused"]
<1>0. /\ posts[n] \in Post /\ posts[n].fate = "wire" /\ n \notin Hosted
      /\ UNCHANGED <<runVars, routerVars, crashes>>
      /\ posts' = [posts EXCEPT ![n] = queued] \/ posts' = [posts EXCEPT ![n] = refused]
  BY PostTyped DEF IInv, Deliver, Hosted
<1>1. CASE posts' = [posts EXCEPT ![n] = refused]
  <2>1. /\ refused \in Post /\ refused.id = posts[n].id /\ refused.executor = e
        /\ refused.epoch = posts[n].epoch /\ refused.fate = "refused"
    BY <1>0 DEF Post
  <2> HIDE DEF refused
  <2>2. /\ DOMAIN posts' = DOMAIN posts /\ posts'[n] = refused
        /\ \A m \in DOMAIN posts : m # n => posts'[m] = posts[m]
    BY <1>1
  <2>3. Hosted' = Hosted /\ \A m \in Hosted : posts'[m] = posts[m]
    BY <1>0, <2>1, <2>2 DEF Hosted
  <2>4. PostsGrow
    BY <1>0, <2>1, <2>2, <2>3 DEF PostsGrow
  <2>5. LocalsInv'
    <3>1. \A d : At(d)' = At(d)
      BY <2>3 DEF At
    <3>2. \A m, k \in Hosted' : Named(m, k)' => m = k
      BY <2>3 DEF IInv, PostsInv, Named
    <3>3. ASSUME NEW m \in Hosted
          PROVE  \A d : d = posts'[m].executor => posts'[m].local \in 1..Cardinality(At(d)')
      BY <2>3, <3>1 DEF IInv, PostsInv
    <3> QED
      BY <2>3, <3>2, <3>3 DEF LocalsInv
  <2> QED
    BY <1>0, <1>1, <2>1, <2>4, <2>5, PostMoves
<1>2. CASE posts' = [posts EXCEPT ![n] = queued]
  <2>e. PICK d : d = posts[n].executor
    OBVIOUS
  <2>c. PICK c : c = Cardinality(At(d))
    OBVIOUS
  <2>0. NextLocal(d) = c + 1 /\ c \in Nat
    BY FiniteAt, <2>c DEF NextLocal, At
  <2>p. PICK q : q = posts[n]
    OBVIOUS
  <2>q. PICK u : u = queued
    OBVIOUS
  <2>u. u = [q EXCEPT !.fate = "queued", !.local = c + 1]
    BY <2>q, <2>p, <2>0, <2>e
  <2>1. /\ u \in Post /\ u.id = posts[n].id /\ u.executor = posts[n].executor
        /\ u.epoch = posts[n].epoch /\ u.fate = "queued"
        /\ u.local = c + 1
    <3>1. q \in Post
      BY <1>0, <2>p
    <3> HIDE DEF queued, refused, e
    <3>2. /\ u.id = q.id /\ u.executor = q.executor /\ u.epoch = q.epoch
          /\ u.fate = "queued" /\ u.local = c + 1
      BY <2>u, <3>1 DEF Post
    <3>3. u \in Post
      <4>1. PICK v : v = [q EXCEPT !.fate = "queued"]
        OBVIOUS
      <4>2. v \in Post
        BY <3>1, <4>1 DEF Post
      <4>3. u = [v EXCEPT !.local = c + 1]
        BY <2>u, <4>1
      <4> QED
        BY <2>0, <4>2, <4>3 DEF Post
    <3> QED
      BY <2>p, <3>2, <3>3
  <2>2. /\ DOMAIN posts' = DOMAIN posts /\ posts'[n] = u
        /\ \A m \in DOMAIN posts : m # n => posts'[m] = posts[m]
    BY <1>2, <2>q
  <2> HIDE DEF queued, refused, e
  <2>3. Hosted' = Hosted \cup {n} /\ \A m \in Hosted : posts'[m] = posts[m]
    BY <1>0, <2>1, <2>2 DEF Hosted
  <2>4. PostsGrow
    BY <1>0, <2>1, <2>2, <2>3 DEF PostsGrow
  <2>5. At(d)' = At(d) \cup {n} /\ \A f : f # d => At(f)' = At(f)
    BY <1>0, <2>1, <2>2, <2>3, <2>e DEF At
  <2>6. Cardinality(At(d)') = c + 1
    <3>1. n \notin At(d)
      BY <1>0 DEF At
    <3>2. IsFiniteSet(At(d))
      BY FiniteAt
    <3>3. Cardinality(At(d) \cup {n}) = Cardinality(At(d)) + 1
      BY <3>1, <3>2, FS_AddElement
    <3> QED
      BY <2>5, <2>c, <3>3
  <2>7. LocalsInv'
    <3>1. ASSUME NEW m \in Hosted
          PROVE  \A f : f = posts'[m].executor => posts'[m].local \in 1..Cardinality(At(f)')
      <4>1. PICK f : f = posts[m].executor
        OBVIOUS
      <4>2. posts[m].local \in 1..Cardinality(At(f)) /\ posts'[m] = posts[m]
        BY <2>3, <4>1 DEF IInv, PostsInv
      <4>3. CASE f = d
        <5>1. posts[m].local \in 1..c
          BY <2>c, <4>2, <4>3
        <5>2. posts[m].local \in 1..(c + 1)
          BY <2>0, <5>1
        <5>3. posts'[m].executor = d /\ posts'[m].local \in 1..Cardinality(At(d)')
          BY <2>6, <4>1, <4>2, <4>3, <5>2
        <5> QED
          BY <5>3
      <4>4. CASE f # d
        BY <2>5, <4>1, <4>2, <4>4
      <4> QED
        BY <4>3, <4>4
    <3>2. posts'[n].executor = d /\ posts'[n].local \in 1..Cardinality(At(d)')
      BY <2>0, <2>1, <2>2, <2>6, <2>e
    <3>3. ASSUME NEW m \in Hosted, posts'[m].executor = d
          PROVE  posts'[m].local # posts'[n].local
      <4>1. posts[m].local \in 1..c
        BY <2>3, <2>c, <3>3 DEF IInv, PostsInv
      <4> QED
        BY <2>0, <2>1, <2>2, <2>3, <4>1
    <3>4. \A m, k \in Hosted' : Named(m, k)' => m = k
      BY <2>3, <3>2, <3>3 DEF IInv, PostsInv, Named
    <3> QED
      BY <2>3, <3>1, <3>2, <3>4 DEF LocalsInv
  <2> QED
    BY <1>0, <1>2, <2>1, <2>2, <2>4, <2>7, PostMoves
<1> QED
  BY <1>0, <1>1, <1>2

\* A service that restarts has no runs; what the router and the executors hold
\* does not depend on it.
LEMMA CrashStep ==
  ASSUME IInv, Crash
  PROVE  IInv'
<1>1. UNCHANGED <<config, asked, answer, bound, sends, verdict, epoch, posts>>
  BY DEF Crash, routerVars
<1>2. \A r \in Runs : /\ runs'[r] = None /\ job'[r] = 1
                      /\ tpc'[r] \in {"none", "done"}
                      /\ tpc'[r] = "none" => tpc[r] = "none"
  BY DEF Crash
<1>3. TypeOK'
  <2>1. runs' \in [Runs -> Service!RunRecord \cup {None}]
    BY DEF Crash
  <2>2. tpc' \in [Runs -> {"none", "inserted", "begin", "record", "finish", "fail"}
                            \cup Unsubmitted \cup Waiting \cup Service!Ended]
    BY DEF Crash, Service!Ended
  <2>3. job' \in [Runs -> Jobs] /\ build' \in [Runs -> Nat] /\ polls' \in [Runs -> {0}]
    BY NumJobsAssumption DEF Crash, Jobs
  <2>4. seen' \in [Runs -> Service!BuildStates]
    BY DEF Crash, Service!BuildStates
  <2>5. crashes' \in Nat /\ epoch + crashes' <= MaxRestarts
    BY MaxRestartsAssumption DEF Crash, IInv, TypeOK
  <2> QED
    BY <1>1, <2>1, <2>2, <2>3, <2>4, <2>5 DEF IInv, TypeOK
<1>4. PostsInv' /\ TableInv' /\ CallsInv'
  BY <1>1, PostsKept, TableKept, CallsKept, SamePosts DEF IInv, TypeOK
<1>5. \A r \in Runs : RunInv(r)'
  BY <1>2 DEF RunInv, RecordOf, OwnBuildOf, SubmissionsOf, Unsubmitted, Waiting,
              Service!Ended
<1> QED
  BY <1>3, <1>4, <1>5 DEF IInv

LEMMA NothingMoves ==
  ASSUME IInv, UNCHANGED vars
  PROVE  IInv'
<1>1. UNCHANGED <<runVars, routerVars, posts, crashes>>
  BY DEF vars
<1>2. TypeOK'
  BY <1>1 DEF IInv, TypeOK, runVars, routerVars
<1>3. PostsInv' /\ TableInv' /\ CallsInv'
  BY <1>1, PostsKept, TableKept, CallsKept, SamePosts DEF IInv, TypeOK, routerVars
<1>4. \A r \in Runs : RunInv(r)'
  BY <1>1, SamePosts, OthersKeep DEF IInv, runVars
<1> QED
  BY <1>2, <1>3, <1>4 DEF IInv

LEMMA NextIInv ==
  ASSUME IInv, [Next]_vars
  PROVE  IInv'
<1>1. ASSUME NEW r \in Runs, Insert(r) \/ RunStep(r)
      PROVE  IInv'
  BY <1>1, InsertStep, WorkStep, SubmitStep, AnsweredStep, GiveUpStep, PollStep DEF RunStep
<1>2. ASSUME NEW c \in Calls, Leave(c) \/ Decline(c) \/ Tell(c)
      PROVE  IInv'
  BY <1>2, LeaveStep, DeclineStep, TellStep
<1>3. ASSUME NEW j \in Jobs, Bind(j) \/ Send(j) \/ Decide(j)
      PROVE  IInv'
  BY <1>3, BindStep, SendStep, DecideStep
<1>4. ASSUME NEW n \in DOMAIN posts, Deliver(n) \/ EndBuild(n)
      PROVE  IInv'
  BY <1>4, DeliverStep, EndBuildStep
<1>5. CASE Restart \/ Crash
  BY <1>5, RestartStep, CrashStep
<1>6. CASE Quiescent \/ UNCHANGED vars
  BY <1>6, NothingMoves DEF Quiescent
<1> QED
  BY <1>1, <1>2, <1>3, <1>4, <1>5, <1>6 DEF Next

-----------------------------------------------------------------------------
(* What follows for every number of runs, jobs, executors and restarts *)

\* In every reachable state the router's table holds this router's posts, each
\* made for a job whose earlier jobs were done, every call, task and record
\* names only builds of its own job, and no two builds at an executor have one id.
THEOREM Invariance == Spec => []IInv
<1>1. Init => IInv
  BY InitIInv
<1>2. IInv /\ [Next]_vars => IInv'
  BY NextIInv
<1> QED
  BY <1>1, <1>2, PTL DEF Spec

\* While a router runs, a job of the plan is built at most once, whatever the
\* runs that share it time out on and however often the service restarts.
THEOREM OneBuildPerRouter == Spec => []BuiltOncePerRouter
<1>1. IInv => BuiltOncePerRouter
  BY DEF IInv, PostsInv, BuiltOncePerRouter, Hosted
<1> QED
  BY <1>1, Invariance, PTL

\* No job is sent to an executor before each earlier job has a build that
\* succeeded, although either service may restart and answers may come late.
THEOREM DependentsNeverOvertake == Spec => []DependentsWait
<1>1. IInv => DependentsWait
  BY DEF IInv, PostsInv, DependentsWait, EarlierDone, Done
<1> QED
  BY <1>1, Invariance, PTL

\* A run reported Succeeded recorded one build per job, in order, and each of
\* them succeeded at its executor, whichever run submitted it.
THEOREM SucceededRunsAreReal == Spec => []SuccessIsReal
<1>1. IInv => SuccessIsReal
  <2> SUFFICES ASSUME IInv, NEW r \in Runs, runs[r] # None, runs[r].status = "Succeeded"
               PROVE  /\ Len(runs[r].submissions) = NumJobs
                      /\ \A j \in Jobs : /\ runs[r].submissions[j].job = j
                                         /\ SucceededBuild(runs[r].submissions[j].build, j)
    BY DEF SuccessIsReal
  <2> QED
    BY DEF IInv, RunInv, SubmissionsOf, SucceededAt
<1> QED
  BY <1>1, Invariance, PTL

-----------------------------------------------------------------------------
(* Every step is one of WorkflowRuns, or changes nothing it speaks of *)

NameOf(n) == [job |-> posts[n].id, incarnation |-> posts[n].epoch, name |-> n]
Made == Names({"queued", "succeeded", "failed"})
Good == Names({"succeeded"})
Bad == Names({"failed"})

LEMMA InitRefines == Init => Promise!Init
<1> SUFFICES ASSUME Init PROVE Promise!Init
  OBVIOUS
<1>1. posts = <<>> /\ \A r \in Runs : runs[r] = None /\ tpc[r] = "none"
  BY DEF Init, Service!Init
<1>2. \A fates : Names(fates) = {}
  BY <1>1 DEF Names
<1>3. \A r \in Runs : ReportedAs(r) = "absent"
  BY <1>1 DEF ReportedAs
<1> QED
  BY <1>2, <1>3 DEF Promise!Init

\* Nobody but the executors makes or ends a build.
LEMMA SameNames ==
  ASSUME UNCHANGED posts
  PROVE  Made' = Made /\ Good' = Good /\ Bad' = Bad
BY DEF Made, Good, Bad, Names

LEMMA SameReport ==
  ASSUME NEW r \in Runs,
         (runs'[r] = None) <=> (runs[r] = None),
         runs[r] = None => (tpc'[r] = "none" <=> tpc[r] = "none"),
         runs[r] # None => (runs'[r].status \in {"Queued", "Running"}
                              /\ runs[r].status \in {"Queued", "Running"})
                           \/ runs'[r].status = runs[r].status
  PROVE  ReportedAs(r)' = ReportedAs(r)
BY DEF ReportedAs

LEMMA Stutters ==
  ASSUME UNCHANGED posts, \A r \in Runs : ReportedAs(r)' = ReportedAs(r)
  PROVE  UNCHANGED Promise!vars
<1>1. [r \in Runs |-> ReportedAs(r)]' = [r \in Runs |-> ReportedAs(r)]
  OBVIOUS
<1> QED
  BY <1>1, SameNames DEF Promise!vars, Made, Good, Bad

\* Steps of the router and of calls: no run, task or build changes.
LEMMA RouterStutters ==
  ASSUME UNCHANGED <<runVars, posts>>
  PROVE  UNCHANGED Promise!vars
<1>1. \A r \in Runs : ReportedAs(r)' = ReportedAs(r)
  BY DEF ReportedAs, runVars
<1> QED
  BY <1>1, Stutters

\* A task that goes on working, whatever it records.
LEMMA TaskStutters ==
  ASSUME IInv, IInv', NEW r \in Runs, UNCHANGED posts,
         tpc[r] \notin {"none"} \cup Service!Ended,
         tpc'[r] \notin {"none"} \cup Service!Ended,
         \A q \in Runs \ {r} : UNCHANGED <<tpc[q], runs[q]>>
  PROVE  UNCHANGED Promise!vars
<1>1. runs[r] # None /\ runs[r].status \in {"Queued", "Running"}
  BY WorkingRecord
<1>2. runs'[r] # None /\ runs'[r].status \notin Service!Terminal
  BY DEF IInv, RunInv, RecordOf
<1>3. ReportedAs(r)' = ReportedAs(r)
  BY <1>1, <1>2 DEF ReportedAs, Service!Terminal
<1>4. \A q \in Runs \ {r} : ReportedAs(q)' = ReportedAs(q)
  BY DEF ReportedAs
<1> QED
  BY <1>3, <1>4, Stutters

\* A run is accepted in place of ended ones.
LEMMA InsertRefines ==
  ASSUME IInv, NEW r \in Runs, Insert(r)
  PROVE  Promise!Open(r)
<1> DEFINE new == [status |-> "Queued", current |-> None, submissions |-> <<>>]
           table == [runs EXCEPT ![r] = new]
<1>1. /\ tpc[r] = "none" /\ runs[r] = None /\ UNCHANGED posts
      /\ tpc' = [tpc EXCEPT ![r] = "inserted"] /\ runs' \in Service!Pruned(table)
  BY DEF Insert, Service!Insert, Service!Goto, IInv, RunInv, RecordOf
<1>2. new \in Service!RunRecord /\ new # None /\ new.status = "Queued"
  <2>1. new \in Service!RunRecord
    BY DEF Service!RunRecord
  <2> QED
    BY <2>1
<1>3. table[r] = new /\ \A s \in Runs \ {r} : table[s] = runs[s]
  BY DEF IInv, TypeOK
<1> HIDE DEF new, table
<1>4. \A s \in Runs : runs'[s] = table[s] \/ (runs'[s] = None /\ s \in Service!Prunable(table))
  BY <1>1, PrunedKeeps
<1>5. ReportedAs(r) = "absent" /\ ReportedAs(r)' = "open"
  <2>1. r \notin Service!Prunable(table)
    BY <1>2, <1>3 DEF Service!Prunable, Service!Terminal
  <2> QED
    BY <1>1, <1>2, <1>3, <1>4, <2>1 DEF ReportedAs
<1>6. ASSUME NEW s \in Runs \ {r}
      PROVE  ReportedAs(s)' \in {ReportedAs(s)} \cup
               (IF ReportedAs(s) \in {"succeeded", "failed"} THEN {"gone"} ELSE {})
  <2>1. tpc'[s] = tpc[s] /\ table[s] = runs[s]
    BY <1>1, <1>3 DEF IInv, TypeOK
  <2>2. CASE runs'[s] = runs[s]
    BY <2>1, <2>2 DEF ReportedAs
  <2>3. CASE runs'[s] = None /\ s \in Service!Prunable(table)
    <3>1. runs[s] # None /\ runs[s].status \in Service!Terminal
      BY <2>1, <2>3 DEF Service!Prunable, Service!Retained
    <3>2. tpc[s] # "none"
      BY <3>1 DEF IInv, RunInv, RecordOf
    <3> QED
      BY <2>1, <2>3, <3>1, <3>2 DEF ReportedAs, Service!Terminal
  <2> QED
    BY <1>4, <2>1, <2>2, <2>3
<1>7. UNCHANGED <<Made, Good, Bad>>
  BY <1>1, SameNames
<1> QED
  BY <1>5, <1>6, <1>7 DEF Promise!Open, Promise!Ended, Made, Good, Bad

\* The end of a run is reported, and a success only once all jobs are done.
LEMMA EndRefines ==
  ASSUME IInv, NEW r \in Runs, NEW status \in Service!Terminal,
         tpc[r] \notin {"none"} \cup Service!Ended, UNCHANGED posts,
         Service!Update(r, [runs[r] EXCEPT !.status = status, !.current = None]),
         Service!Goto(r, "done")
  PROVE  /\ ReportedAs(r) = "open"
         /\ [q \in Runs |-> ReportedAs(q)]' =
              [[q \in Runs |-> ReportedAs(q)] EXCEPT ![r] =
                 IF status = "Succeeded" THEN "succeeded" ELSE "failed"]
<1> DEFINE new == [runs[r] EXCEPT !.status = status, !.current = None]
<1>1. /\ runs[r] \in Service!RunRecord /\ runs[r] # None
      /\ runs[r].status \in {"Queued", "Running"}
  BY WorkingRecord
<1>2. runs' = [runs EXCEPT ![r] = new] /\ new.status = status /\ new \in Service!RunRecord
  BY <1>1 DEF Service!Update, Service!RunRecord, Service!Terminal
<1> HIDE DEF new
<1>3. ReportedAs(r) = "open"
  BY <1>1 DEF ReportedAs
<1>4. ReportedAs(r)' = IF status = "Succeeded" THEN "succeeded" ELSE "failed"
  BY <1>2 DEF ReportedAs, Service!Terminal, IInv, TypeOK
<1>5. \A q \in Runs \ {r} : ReportedAs(q)' = ReportedAs(q)
  BY <1>2 DEF ReportedAs, Service!Goto, IInv, TypeOK
<1> QED
  BY <1>3, <1>4, <1>5

LEMMA DoneIsGood ==
  ASSUME NEW j, Done(j)
  PROVE  Promise!Done(j)
<1>1. PICK n \in Hosted : posts[n].id = j /\ posts[n].fate = "succeeded"
  BY DEF Done, SucceededBuild
<1>2. NameOf(n) \in Good /\ NameOf(n).job = j
  BY <1>1 DEF NameOf, Good, Names, Hosted
<1> QED
  BY <1>2 DEF Promise!Done, Good

LEMMA FinishRefines ==
  ASSUME IInv, NEW r \in Runs, Service!Finish(r)
  PROVE  Promise!Succeed(r)
<1>1. tpc[r] = "finish" /\ UNCHANGED posts /\ Service!Goto(r, "done")
  BY DEF Service!Finish, Service!End
<1>2. \A j \in Jobs : Promise!Done(j)
  BY <1>1, DoneIsGood DEF IInv, RunInv, SubmissionsOf, SucceededAt, Done
<1> QED
  BY <1>1, <1>2, EndRefines, SameNames
     DEF Service!Finish, Service!Terminal, Service!Ended, Promise!Succeed, Promise!Jobs,
         Jobs, Made, Good, Bad

LEMMA FailRefines ==
  ASSUME IInv, NEW r \in Runs, Service!Fail(r)
  PROVE  Promise!Fail(r)
<1>1. tpc[r] = "fail" /\ UNCHANGED posts /\ Service!Goto(r, "done")
  BY DEF Service!Fail, Service!End
<1> QED
  BY <1>1, EndRefines, SameNames
     DEF Service!Fail, Service!Terminal, Service!Ended, Promise!Fail, Made, Good, Bad

\* Until it ends, what a task does is not reported.
LEMMA RunStepRefines ==
  ASSUME IInv, NEW r \in Runs, RunStep(r)
  PROVE  Promise!Next \/ UNCHANGED Promise!vars
<1>1. IInv'
  BY WorkStep, SubmitStep, AnsweredStep, GiveUpStep, PollStep DEF RunStep
<1>2. CASE Service!Finish(r) \/ Service!Fail(r)
  BY <1>2, FinishRefines, FailRefines DEF Promise!Next
<1>3. CASE \/ Service!Spawn(r) \/ Service!Begin(r) \/ Service!Select(r)
           \/ Service!Record(r) \/ Service!Sleep(r) \/ Service!Settle(r)
  <2>1. UNCHANGED posts /\ tpc[r] \notin {"none"} \cup Service!Ended
    BY <1>3 DEF Service!Spawn, Service!Begin, Service!Select, Service!Record,
                Service!Sleep, Service!Settle, Service!Ended
  <2>2. PICK to \in {"begin", "select", "submit", "poll", "finish", "fail"} : Service!Goto(r, to)
    BY <1>3 DEF Service!Spawn, Service!Begin, Service!Select, Service!Record,
                Service!Sleep, Service!Settle
  <2>3. \A q \in Runs \ {r} : runs'[q] = runs[q]
    BY <1>3 DEF Service!Spawn, Service!Begin, Service!Select, Service!Record,
                Service!Sleep, Service!Settle, Service!Update, IInv, TypeOK
  <2>4. /\ tpc'[r] \notin {"none"} \cup Service!Ended
        /\ \A q \in Runs \ {r} : tpc'[q] = tpc[q]
    BY <2>2 DEF Service!Goto, Service!Ended, IInv, TypeOK
  <2> QED
    BY <1>1, <2>1, <2>3, <2>4, TaskStutters
<1>4. CASE Submit(r) \/ Answered(r) \/ GiveUp(r) \/ Poll(r)
  <2>1. UNCHANGED <<posts, runs>> /\ tpc[r] \notin {"none"} \cup Service!Ended
    BY <1>4 DEF Submit, Answered, GiveUp, Poll, Service!Ended
  <2>2. PICK to \in {"awaiting", "record", "settle", "sleep", "fail"} : Service!Goto(r, to)
    BY <1>4 DEF Submit, Answered, GiveUp, Poll, Service!AfterStatus
  <2>3. /\ tpc'[r] \notin {"none"} \cup Service!Ended
        /\ \A q \in Runs \ {r} : tpc'[q] = tpc[q]
    BY <2>2 DEF Service!Goto, Service!Ended, IInv, TypeOK
  <2> QED
    BY <1>1, <2>1, <2>3, TaskStutters
<1> QED
  BY <1>2, <1>3, <1>4 DEF RunStep, Work

\* A post on its way is nobody's build yet.
LEMMA SendStutters ==
  ASSUME IInv, NEW j \in Jobs, Send(j)
  PROVE  UNCHANGED Promise!vars
<1> DEFINE k == Len(posts) + 1
<1>1. /\ Len(posts) \in Nat /\ DOMAIN posts = 1..Len(posts)
      /\ DOMAIN posts' = DOMAIN posts \cup {k}
      /\ posts'[k].fate = "wire"
      /\ \A n \in DOMAIN posts : posts'[n] = posts[n]
  BY DEF IInv, TypeOK, Send, Sent
<1>2. Made' = Made /\ Good' = Good /\ Bad' = Bad
  BY <1>1 DEF Made, Good, Bad, Names
<1>3. \A r \in Runs : ReportedAs(r)' = ReportedAs(r)
  BY DEF Send, ReportedAs, runVars
<1>4. [r \in Runs |-> ReportedAs(r)]' = [r \in Runs |-> ReportedAs(r)]
  BY <1>3
<1> QED
  BY <1>2, <1>4 DEF Promise!vars, Made, Good, Bad

\* An executor creates a build, the only one of its job for this router, and only
\* after all earlier jobs were done; or it refuses.
LEMMA DeliverRefines ==
  ASSUME IInv, NEW n \in DOMAIN posts, Deliver(n)
  PROVE  Promise!Build \/ UNCHANGED Promise!vars
<1>1. UNCHANGED <<runs, tpc>>
  BY DEF Deliver, runVars
<1>2. [r \in Runs |-> ReportedAs(r)]' = [r \in Runs |-> ReportedAs(r)]
  BY <1>1 DEF ReportedAs
<1>3. /\ posts[n].fate = "wire" /\ posts[n] \in Post /\ DOMAIN posts' = DOMAIN posts
      /\ posts'[n].id = posts[n].id /\ posts'[n].epoch = posts[n].epoch
      /\ posts'[n].fate \in {"queued", "refused"}
      /\ \A m \in DOMAIN posts : m # n => posts'[m] = posts[m]
  BY PostTyped DEF Deliver, IInv, Post
<1>4. Good' = Good /\ Bad' = Bad
  BY <1>3 DEF Good, Bad, Names
<1>5. CASE posts'[n].fate = "refused"
  <2>1. Made' = Made
    BY <1>3, <1>5 DEF Made, Names
  <2> QED
    BY <1>2, <1>4, <2>1 DEF Promise!vars, Made, Good, Bad
<1>6. CASE posts'[n].fate = "queued"
  <2>1. PICK new : new = NameOf(n)
    OBVIOUS
  <2>2. Made' = Made \cup {new}
    BY <1>3, <1>6, <2>1 DEF Made, Names, NameOf
  <2>3. new \notin Made
    BY <1>3, <2>1 DEF Made, Names, NameOf
  <2>4. \A b \in Made : b.job # new.job \/ b.incarnation # new.incarnation
    BY <1>3, <2>1 DEF Made, Names, NameOf, IInv, PostsInv
  <2>5. \A j \in 1..new.job - 1 : Promise!Done(j)
    BY <2>1, DoneIsGood DEF NameOf, IInv, PostsInv, EarlierDone
  <2> QED
    BY <1>2, <1>4, <2>2, <2>3, <2>4, <2>5 DEF Promise!Build, Made, Good, Bad
<1> QED
  BY <1>3, <1>5, <1>6

LEMMA EndBuildRefines ==
  ASSUME IInv, NEW n \in DOMAIN posts, EndBuild(n)
  PROVE  Promise!EndBuild
<1>1. UNCHANGED <<runs, tpc>>
  BY DEF EndBuild, runVars
<1>2. [r \in Runs |-> ReportedAs(r)]' = [r \in Runs |-> ReportedAs(r)]
  BY <1>1 DEF ReportedAs
<1>3. /\ posts[n].fate = "queued" /\ DOMAIN posts' = DOMAIN posts
      /\ posts'[n].id = posts[n].id /\ posts'[n].epoch = posts[n].epoch
      /\ posts'[n].fate \in {"succeeded", "failed"}
      /\ \A m \in DOMAIN posts : m # n => posts'[m] = posts[m]
  BY PostTyped DEF EndBuild, IInv, Post
<1>4. Made' = Made
  BY <1>3 DEF Made, Names
<1>5. NameOf(n) \in Made \ (Good \cup Bad)
  BY <1>3 DEF Made, Good, Bad, Names, NameOf
<1>6. \/ Good' = Good \cup {NameOf(n)} /\ Bad' = Bad
      \/ Bad' = Bad \cup {NameOf(n)} /\ Good' = Good
  BY <1>3 DEF Good, Bad, Names, NameOf
<1> QED
  BY <1>2, <1>4, <1>5, <1>6 DEF Promise!EndBuild, Made, Good, Bad

LEMMA CrashRefines ==
  ASSUME IInv, Crash
  PROVE  Promise!Forget
<1>1. ASSUME NEW r \in Runs
      PROVE  ReportedAs(r)' = IF ReportedAs(r) = "absent" THEN "absent" ELSE "gone"
  <2>1. runs'[r] = None /\ tpc'[r] = IF tpc[r] = "none" THEN "none" ELSE "done"
    BY DEF Crash
  <2>2. tpc[r] = "none" => runs[r] = None
    BY DEF IInv, RunInv, RecordOf
  <2> QED
    BY <2>1, <2>2 DEF ReportedAs
<1>2. UNCHANGED <<Made, Good, Bad>>
  BY SameNames DEF Crash
<1> QED
  BY <1>1, <1>2 DEF Promise!Forget, Made, Good, Bad

LEMMA NextRefines == IInv /\ [Next]_vars => [Promise!Next]_(Promise!vars)
<1> SUFFICES ASSUME IInv, [Next]_vars PROVE Promise!Next \/ UNCHANGED Promise!vars
  OBVIOUS
<1>1. ASSUME NEW r \in Runs, Insert(r) \/ RunStep(r)
      PROVE  Promise!Next \/ UNCHANGED Promise!vars
  BY <1>1, InsertRefines, RunStepRefines DEF Promise!Next
<1>2. ASSUME NEW c \in Calls, Leave(c) \/ Decline(c) \/ Tell(c)
      PROVE  UNCHANGED Promise!vars
  BY <1>2, RouterStutters DEF Leave, Decline, Tell
<1>3. ASSUME NEW j \in Jobs, Bind(j) \/ Send(j) \/ Decide(j)
      PROVE  UNCHANGED Promise!vars
  BY <1>3, RouterStutters, SendStutters DEF Bind, Decide
<1>4. ASSUME NEW n \in DOMAIN posts, Deliver(n) \/ EndBuild(n)
      PROVE  Promise!Next \/ UNCHANGED Promise!vars
  BY <1>4, DeliverRefines, EndBuildRefines DEF Promise!Next
<1>5. CASE Restart \/ Quiescent \/ UNCHANGED vars
  BY <1>5, RouterStutters DEF Restart, Quiescent, vars
<1>6. CASE Crash
  BY <1>6, CrashRefines DEF Promise!Next
<1> QED
  BY <1>1, <1>2, <1>3, <1>4, <1>5, <1>6 DEF Next

\* Service and router together keep WorkflowRuns' promise for one plan: in each
\* incarnation of the router one build per job, none before all earlier jobs are
\* done, and no run called Succeeded unless all are.
THEOREM Refinement == Spec => ImplementsWorkflowRuns
<1>1. Init => Promise!Init
  BY InitRefines
<1>2. IInv /\ [Next]_vars => [Promise!Next]_(Promise!vars)
  BY NextRefines
<1> QED
  BY <1>1, <1>2, Invariance, PTL DEF Spec, ImplementsWorkflowRuns, Promise!Spec
=============================================================================
