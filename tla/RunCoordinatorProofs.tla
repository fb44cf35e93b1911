------------------------ MODULE RunCoordinatorProofs ------------------------
(* IInv is an invariant of RunCoordinator, and so are its safety properties. *)
EXTENDS CoordinatorInvariant, SequenceTheorems, TLAPS

USE NumJobsAssumption, MaxRunsAssumption, MaxPollsAssumption,
    TimeoutOverflowsAssumption, NoneAssumption

LEMMA InitIInv == Init => IInv
<1> SUFFICES ASSUME Init PROVE IInv
  OBVIOUS
<1>1. TypeOK
  BY DEF Init, TypeOK, Jobs, BuildStates, Ended
<1>2. \A r \in Runs : RunInv(r)
  BY DEF Init, RunInv, RecordOf, OwnBuildOf, SubmissionsOf, Untried, Unsubmitted, Waiting,
     Ended
<1>3. BuildsInv
  BY DEF Init, BuildsInv, DependentsWait, EachJobBuiltOnce
<1> QED
  BY <1>1, <1>2, <1>3 DEF IInv

\* Pruning removes ended runs and alters no record.
LEMMA PrunedKeeps ==
  ASSUME NEW table, NEW kept \in Pruned(table), NEW r \in Runs
  PROVE  /\ kept[r] = table[r] \/ (kept[r] = None /\ r \in Prunable(table))
         /\ kept = [q \in Runs |-> kept[q]]
<1>1. PICK gone \in SUBSET Prunable(table) :
        kept = [q \in Runs |-> IF q \in gone THEN None ELSE table[q]]
  BY DEF Pruned
<1> QED
  BY <1>1

LEMMA BuildTyped ==
  ASSUME TypeOK, NEW b \in DOMAIN builds
  PROVE  /\ b \in 1..Len(builds) /\ Len(builds) \in Nat
         /\ builds[b] \in [run : Runs, job : Jobs, state : BuildStates]
BY LenProperties, ElementOfSeq DEF TypeOK

\* Builds are only added, and only those still queued change.
BuildsGrow ==
  \A b \in DOMAIN builds :
    /\ b \in DOMAIN builds'
    /\ builds'[b].run = builds[b].run /\ builds'[b].job = builds[b].job
    /\ builds[b].state # "queued" => builds'[b] = builds[b]

LEMMA SucceededStays ==
  ASSUME BuildsGrow, NEW r \in Runs, NEW i, SucceededAt(r, i),
         runs'[r].submissions[i] = runs[r].submissions[i]
  PROVE  SucceededAt(r, i)'
BY DEF BuildsGrow, SucceededAt

\* What a run's task relies on survives the steps of everybody else, who at
\* most prune the record of a run that ended.
LEMMA OthersKeep ==
  ASSUME NEW r \in Runs, RunInv(r), BuildsGrow, config' = config,
         UNCHANGED <<tpc[r], job[r], build[r], seen[r]>>,
         runs'[r] = runs[r] \/ (runs'[r] = None /\ tpc[r] \in Ended)
  PROVE  RunInv(r)'
<1> USE DEF RunInv
<1>1. RecordOf(r)'
  BY DEF RecordOf, Untried, Ended, Admits, Configured
<1>2. OwnBuildOf(r)'
  BY DEF OwnBuildOf, BuildsGrow, Waiting
<1>3. SubmissionsOf(r)'
  <2>1. CASE runs'[r] = None /\ tpc[r] \in Ended
    BY <2>1 DEF SubmissionsOf, Unsubmitted, Waiting, Ended
  <2>2. CASE runs'[r] = runs[r]
    <3>1. \A i : SucceededAt(r, i) => SucceededAt(r, i)'
      BY <2>2, SucceededStays
    <3> QED
      BY <2>2, <3>1 DEF SubmissionsOf
  <2> QED
    BY <2>1, <2>2
<1> QED
  BY <1>1, <1>2, <1>3

LEMMA InsertStep ==
  ASSUME IInv, NEW r \in Runs, Insert(r)
  PROVE  IInv'
<1> USE DEF IInv
<1> DEFINE new == [status |-> "Queued", current |-> None, submissions |-> <<>>]
           table == [runs EXCEPT ![r] = new]
<1>1. new \in RunRecord
  BY DEF RunRecord
<1>2. /\ runs'[r] = new
      /\ \A q \in Runs \ {r} :
           runs'[q] = runs[q] \/ (runs'[q] = None /\ runs[q].status \in Terminal)
      /\ runs' \in [Runs -> RunRecord \cup {None}]
  <2>1. /\ table[r] = new /\ \A q \in Runs \ {r} : table[q] = runs[q]
        /\ table \in [Runs -> RunRecord \cup {None}]
    BY <1>1 DEF TypeOK
  <2>2. r \notin Prunable(table)
    BY <2>1 DEF Prunable, Terminal
  <2>3. \A q \in Runs : /\ runs'[q] = table[q] \/ (runs'[q] = None /\ q \in Prunable(table))
                        /\ runs' = [p \in Runs |-> runs'[p]]
    BY PrunedKeeps DEF Insert
  <2> HIDE DEF table, new
  <2> QED
    BY <2>1, <2>2, <2>3 DEF Prunable
<1>3. /\ tpc'[r] = "inserted" /\ \A q \in Runs \ {r} : tpc'[q] = tpc[q]
      /\ tpc[r] = "none"
  BY DEF Insert, Goto, TypeOK
<1>4. TypeOK'
  BY <1>2 DEF TypeOK, Insert, Goto, taskVars
<1>5. \A q \in Runs \ {r} : RunInv(q)'
  <2>1. BuildsGrow /\ config' = config /\ UNCHANGED taskVars
    BY DEF Insert, BuildsGrow
  <2>2. \A q \in Runs \ {r} : runs'[q] = runs[q] \/ (runs'[q] = None /\ tpc[q] \in Ended)
    BY <1>2 DEF RunInv, RecordOf, Terminal
  <2> QED
    BY <1>3, <2>1, <2>2, OthersKeep DEF taskVars
<1>6. RunInv(r)'
  BY <1>1, <1>2, <1>3 DEF Insert, RunInv, RecordOf, OwnBuildOf, SubmissionsOf, Untried,
     Unsubmitted, Waiting, Terminal, Ended, Admits, Configured, taskVars
<1>7. BuildsInv'
  <2>1. \A b \in DOMAIN builds : builds[b].run \in Runs \ {r}
    BY <1>3, BuildTyped DEF BuildsInv, NotAhead, Untried
  <2> QED
    BY <1>3, <2>1 DEF Insert, BuildsInv, NotAhead, DependentsWait, EachJobBuiltOnce, taskVars
<1> QED
  BY <1>4, <1>5, <1>6, <1>7

\* The step of one task that leaves the builds alone.
LEMMA TaskMoves ==
  ASSUME IInv, NEW r \in Runs, TypeOK', RunInv(r)', UNCHANGED <<config, builds>>,
         \A q \in Runs \ {r} :
           UNCHANGED <<runs[q], tpc[q], job[q], build[q], seen[q]>>,
         \A b \in DOMAIN builds : builds[b].run = r /\ NotAhead(b) => NotAhead(b)'
  PROVE  IInv'
<1> USE DEF IInv
<1>1. \A q \in Runs \ {r} : RunInv(q)'
  BY OthersKeep DEF BuildsGrow
<1>2. \A b \in DOMAIN builds : NotAhead(b)'
  <2> SUFFICES ASSUME NEW b \in DOMAIN builds, builds[b].run # r PROVE NotAhead(b)'
    BY DEF BuildsInv
  <2> QED
    BY BuildTyped DEF BuildsInv, NotAhead
<1>3. DependentsWait' /\ EachJobBuiltOnce'
  BY DEF BuildsInv, DependentsWait, EachJobBuiltOnce
<1> QED
  BY <1>1, <1>2, <1>3 DEF BuildsInv

\* The record of a run whose task works.
LEMMA WorkingRecord ==
  ASSUME IInv, NEW r \in Runs, tpc[r] \notin {"none"} \cup Ended
  PROVE  /\ runs[r] \in RunRecord /\ runs[r] # None
         /\ runs[r].status \in {"Queued", "Running"}
         /\ Len(runs[r].submissions) \in Nat
         /\ DOMAIN runs[r].submissions = 1..Len(runs[r].submissions)
         /\ runs[r].submissions \in Seq(Submission)
         /\ job[r] \in Jobs /\ job[r] \in 1..NumJobs
<1>1. runs[r] \in RunRecord /\ runs[r] # None /\ runs[r].status \notin Terminal
  BY DEF IInv, TypeOK, RunInv, RecordOf
<1>2. runs[r].status \in {"Queued", "Running"} /\ runs[r].submissions \in Seq(Submission)
  BY <1>1 DEF RunRecord, Terminal
<1> QED
  BY <1>1, <1>2, LenProperties DEF IInv, TypeOK, Jobs

LEMMA SpawnStep ==
  ASSUME IInv, NEW r \in Runs, Spawn(r)
  PROVE  IInv'
<1> USE DEF IInv
<1>1. TypeOK'
  BY DEF TypeOK, Spawn, Goto, taskVars
<1>2. RunInv(r)'
  <2>1. tpc'[r] = "begin" /\ UNCHANGED <<config, runs, job[r]>> /\ runs[r].status \notin Terminal
    BY WorkingRecord DEF TypeOK, Spawn, Goto, taskVars, Ended, Terminal
  <2>2. RecordOf(r)'
    BY <2>1 DEF Spawn, RunInv, RecordOf, Untried, Ended, Admits, Configured
  <2> QED
    BY <2>1, <2>2 DEF RunInv, OwnBuildOf, SubmissionsOf, Unsubmitted, Waiting, Terminal
<1>3. \A b \in DOMAIN builds : builds[b].run = r /\ NotAhead(b) => NotAhead(b)'
  BY DEF Spawn, NotAhead, Untried
<1> QED
  BY <1>1, <1>2, <1>3, TaskMoves DEF Spawn, Goto, TypeOK, taskVars

LEMMA BeginStep ==
  ASSUME IInv, NEW r \in Runs, Begin(r)
  PROVE  IInv'
<1> USE DEF IInv
<1>0. /\ runs[r] \in RunRecord /\ runs[r] # None
      /\ runs[r].submissions = <<>> /\ job[r] = 1
      /\ runs[r].status \in {"Queued", "Running"}
  BY WorkingRecord DEF Begin, RunInv, RecordOf, Untried, Ended
<1>1. CASE ~Configured(config) /\ Goto(r, "fail") /\ UNCHANGED runs
  <2>1. TypeOK'
    BY <1>1 DEF TypeOK, Begin, Goto, taskVars
  <2>2. tpc'[r] = "fail" /\ UNCHANGED <<config, runs>>
    BY <1>1 DEF TypeOK, Begin, Goto
  <2>3. RecordOf(r)'
    BY <1>0, <1>1, <2>2 DEF Begin, RunInv, RecordOf, Untried, Ended, Terminal, Admits,
       Configured
  <2>4. RunInv(r)'
    BY <1>0, <2>2, <2>3 DEF RunInv, OwnBuildOf, SubmissionsOf, Unsubmitted, Waiting
  <2>5. \A b \in DOMAIN builds : builds[b].run = r /\ NotAhead(b) => NotAhead(b)'
    BY DEF Begin, NotAhead, Untried
  <2> QED
    BY <1>1, <2>1, <2>4, <2>5, TaskMoves DEF Begin, Goto, TypeOK, taskVars
<1>2. CASE /\ Configured(config)
           /\ Update(r, [runs[r] EXCEPT !.status = "Running"])
           /\ Goto(r, "select")
  <2>0. /\ [runs[r] EXCEPT !.status = "Running"] \in RunRecord
        /\ runs' = [runs EXCEPT ![r] = [runs[r] EXCEPT !.status = "Running"]]
    BY <1>0, <1>2 DEF RunRecord, Update
  <2>1. TypeOK'
    BY <1>2, <2>0 DEF TypeOK, Begin, Goto, taskVars
  <2>2. /\ tpc'[r] = "select" /\ UNCHANGED <<config, job>>
        /\ runs'[r] # None /\ runs'[r].status = "Running" /\ runs'[r].submissions = <<>>
    BY <1>0, <1>2, <2>0 DEF TypeOK, Begin, Goto, RunRecord, taskVars
  <2>3. RecordOf(r)'
    BY <2>2 DEF Begin, RunInv, RecordOf, Untried, Ended, Terminal, Admits
  <2>4. RunInv(r)'
    BY <1>0, <2>2, <2>3 DEF RunInv, OwnBuildOf, SubmissionsOf, Unsubmitted, Waiting
  <2>5. \A b \in DOMAIN builds : builds[b].run = r /\ NotAhead(b) => NotAhead(b)'
    BY DEF Begin, NotAhead, Untried
  <2> QED
    BY <1>2, <2>0, <2>1, <2>4, <2>5, TaskMoves DEF Begin, Goto, TypeOK, taskVars
<1> QED
  BY <1>1, <1>2 DEF Begin

LEMMA SelectStep ==
  ASSUME IInv, NEW r \in Runs, Select(r)
  PROVE  IInv'
<1> USE DEF IInv
<1>0. /\ runs[r] \in RunRecord /\ runs[r] # None /\ job[r] \in Jobs
      /\ runs[r].status \in {"Queued", "Running"}
  BY WorkingRecord DEF Select, Ended
<1>1. /\ [runs[r] EXCEPT !.current = job[r]] \in RunRecord
      /\ runs' = [runs EXCEPT ![r] = [runs[r] EXCEPT !.current = job[r]]]
  BY <1>0 DEF RunRecord, Update, Select
<1>2. TypeOK'
  BY <1>1 DEF TypeOK, Select, Goto, taskVars
<1>3. /\ tpc'[r] = "submit" /\ UNCHANGED <<config, job, builds>>
      /\ runs'[r] # None /\ runs'[r].status = runs[r].status
      /\ runs'[r].submissions = runs[r].submissions
  BY <1>0, <1>1 DEF TypeOK, Select, Goto, RunRecord, taskVars
<1>4. RecordOf(r)'
  BY <1>0, <1>3 DEF Select, RunInv, RecordOf, Untried, Ended, Terminal, Admits
<1>5. RunInv(r)'
  <2>1. \A i : SucceededAt(r, i) => SucceededAt(r, i)'
    BY <1>3, SucceededStays DEF BuildsGrow
  <2> QED
    BY <1>0, <1>3, <1>4, <2>1 DEF Select, RunInv, OwnBuildOf, SubmissionsOf, Unsubmitted,
       Waiting
<1>6. \A b \in DOMAIN builds : builds[b].run = r /\ NotAhead(b) => NotAhead(b)'
  BY <1>3 DEF Select, NotAhead, Untried, Unsubmitted, Waiting
<1> QED
  BY <1>1, <1>2, <1>5, <1>6, TaskMoves DEF Select, Goto, TypeOK, taskVars

\* The build of r's job is the first, and those of all earlier jobs succeeded.
LEMMA TaskSubmits ==
  ASSUME IInv, NEW r \in Runs, tpc[r] = "submit", TypeOK', RunInv(r)',
         builds' = Append(builds, NewBuild(r)), UNCHANGED <<config, job>>,
         tpc'[r] \in {"record", "fail"},
         \A q \in Runs \ {r} :
           UNCHANGED <<runs[q], tpc[q], job[q], build[q], seen[q]>>
  PROVE  IInv'
<1> USE DEF IInv
<1> DEFINE n == Len(builds) + 1
<1>0. /\ DOMAIN builds = 1..Len(builds) /\ Len(builds) \in Nat
      /\ DOMAIN builds' = 1..n /\ builds'[n] = NewBuild(r)
      /\ \A b \in DOMAIN builds : b \in DOMAIN builds' /\ b # n /\ builds'[b] = builds[b]
      /\ \A b \in DOMAIN builds' : b = n \/ b \in DOMAIN builds
  <2>1. builds \in Seq([run : Runs, job : Jobs, state : BuildStates])
    BY DEF TypeOK
  <2> QED
    BY <2>1
<1>1. \A q \in Runs \ {r} : RunInv(q)'
  BY <1>0, OthersKeep DEF BuildsGrow
<1>2. \A b \in DOMAIN builds : builds[b].run = r => builds[b].job < job[r]
  BY DEF BuildsInv, NotAhead, Unsubmitted
<1>3. job[r] \in 1..NumJobs /\ \A i \in 1..job[r] - 1 : SucceededAt(r, i)
  BY DEF TypeOK, Jobs, RunInv, SubmissionsOf, Unsubmitted
<1>4. DependentsWait'
  <2>1. ASSUME NEW b \in DOMAIN builds, NEW i \in 1..builds[b].job - 1
        PROVE  \E a \in DOMAIN builds' :
                 builds'[a] = [run |-> builds[b].run, job |-> i, state |-> "succeeded"]
    BY <1>0, <2>1 DEF BuildsInv, DependentsWait
  <2>2. ASSUME NEW i \in 1..job[r] - 1
        PROVE  \E a \in DOMAIN builds' :
                 builds'[a] = [run |-> r, job |-> i, state |-> "succeeded"]
    BY <1>0, <1>3, <2>2 DEF SucceededAt
  <2> QED
    BY <1>0, <2>1, <2>2 DEF DependentsWait, NewBuild
<1>5. EachJobBuiltOnce'
  BY <1>0, <1>2, <1>3 DEF BuildsInv, EachJobBuiltOnce, NewBuild
<1>6. \A b \in DOMAIN builds' : NotAhead(b)'
  <2>1. ASSUME NEW b \in DOMAIN builds', b = n PROVE NotAhead(b)'
    BY <1>0, <1>3, <2>1 DEF NotAhead, NewBuild, Untried, Unsubmitted, Waiting
  <2>2. ASSUME NEW b \in DOMAIN builds, builds[b].run = r PROVE NotAhead(b)'
    BY <1>0, <1>2, <1>3, <2>2, BuildTyped DEF NotAhead, Untried, Unsubmitted, Jobs
  <2>3. ASSUME NEW b \in DOMAIN builds, builds[b].run # r PROVE NotAhead(b)'
    BY <1>0, <2>3, BuildTyped DEF BuildsInv, NotAhead
  <2> QED
    BY <1>0, <2>1, <2>2, <2>3
<1> QED
  BY <1>1, <1>4, <1>5, <1>6 DEF BuildsInv

LEMMA SubmitStep ==
  ASSUME IInv, NEW r \in Runs, Submit(r)
  PROVE  IInv'
<1> USE DEF IInv
<1>0. /\ runs[r] \in RunRecord /\ runs[r] # None /\ job[r] \in 1..NumJobs
      /\ runs[r].status \in {"Queued", "Running"}
      /\ Len(builds) \in Nat /\ NewBuild(r) \in [run : Runs, job : Jobs, state : BuildStates]
      /\ builds \in Seq([run : Runs, job : Jobs, state : BuildStates])
  BY WorkingRecord, LenProperties DEF Submit, Ended, NewBuild, TypeOK, Jobs, BuildStates
<1>1. tpc'[r] \in {"record", "fail"} /\ UNCHANGED <<config, runs, job>>
  BY DEF TypeOK, Submit, Goto, AfterError
<1>2. TypeOK'
  <2>1. builds' \in Seq([run : Runs, job : Jobs, state : BuildStates])
    <3>1. Append(builds, NewBuild(r)) \in Seq([run : Runs, job : Jobs, state : BuildStates])
      BY <1>0, AppendProperties
    <3> QED
      BY <1>0, <3>1 DEF Submit
  <2>2. build' \in [Runs -> Nat]
    <3>1. build \in [Runs -> Nat]
      BY DEF TypeOK
    <3>2. build' = [build EXCEPT ![r] = Len(builds) + 1] \/ build' = build
      BY DEF Submit
    <3> HIDE DEF IInv
    <3> QED
      BY <1>0, <3>1, <3>2
  <2>3. tpc' \in [Runs -> {"none", "inserted", "begin", "select", "submit", "record",
                           "poll", "sleep", "settle", "finish", "fail"} \cup Ended]
    BY DEF TypeOK, Submit, Goto, AfterError
  <2> QED
    BY <2>1, <2>2, <2>3 DEF TypeOK, Submit
<1>3. RecordOf(r)'
  BY <1>0, <1>1 DEF Submit, RunInv, RecordOf, Untried, Ended, Terminal, Admits
<1>4. CASE builds' = builds
  <2>1. tpc'[r] = "fail"
    BY <1>0, <1>4 DEF TypeOK, Submit, Goto, AfterError
  <2>2. RunInv(r)'
    BY <1>0, <1>1, <1>3, <2>1 DEF RunInv, OwnBuildOf, SubmissionsOf, Unsubmitted, Waiting
  <2>3. \A b \in DOMAIN builds : builds[b].run = r /\ NotAhead(b) => NotAhead(b)'
    BY <1>4, <2>1 DEF NotAhead, Untried, Unsubmitted, Waiting
  <2> QED
    BY <1>2, <1>4, <2>2, <2>3, TaskMoves DEF Submit, Goto, TypeOK, taskVars
<1>5. CASE builds' = Append(builds, NewBuild(r))
  <2>1. /\ tpc'[r] = "record" => build'[r] = Len(builds) + 1
        /\ DOMAIN builds' = 1..Len(builds) + 1 /\ builds'[Len(builds) + 1] = NewBuild(r)
        /\ BuildsGrow
    <3>1. tpc'[r] = "record" => build'[r] = Len(builds) + 1
      BY DEF TypeOK, Submit, Goto, AfterError
    <3> HIDE DEF IInv
    <3>2. /\ DOMAIN builds' = 1..Len(builds) + 1 /\ builds'[Len(builds) + 1] = NewBuild(r)
          /\ DOMAIN builds = 1..Len(builds)
          /\ \A b \in 1..Len(builds) : builds'[b] = builds[b]
      BY <1>0, <1>5
    <3>3. BuildsGrow
      BY <1>0, <3>2 DEF BuildsGrow
    <3> QED
      BY <3>1, <3>2, <3>3
  <2>2. OwnBuildOf(r)'
    BY <1>0, <1>1, <2>1 DEF OwnBuildOf, NewBuild, Waiting
  <2>3. SubmissionsOf(r)'
    <3>1. \A i : SucceededAt(r, i) => SucceededAt(r, i)'
      BY <1>1, <2>1, SucceededStays
    <3> QED
      BY <1>0, <1>1, <3>1 DEF Submit, RunInv, SubmissionsOf, Unsubmitted, Waiting
  <2> QED
    BY <1>1, <1>2, <1>3, <1>5, <2>2, <2>3, TaskSubmits DEF Submit, Goto, TypeOK, RunInv
<1> QED
  BY <1>4, <1>5 DEF Submit

LEMMA RecordStep ==
  ASSUME IInv, NEW r \in Runs, Record(r)
  PROVE  IInv'
<1> USE DEF IInv
<1> DEFINE subs == runs[r].submissions
           new == [job |-> job[r], build |-> build[r], status |-> "queued"]
<1>0. /\ runs[r] \in RunRecord /\ runs[r] # None /\ job[r] \in 1..NumJobs
      /\ runs[r].status \in {"Queued", "Running"}
      /\ subs \in Seq(Submission) /\ new \in Submission
      /\ Len(subs) = job[r] - 1 /\ \A i \in 1..job[r] - 1 : SucceededAt(r, i)
  BY WorkingRecord DEF Record, Ended, TypeOK, Jobs, Submission, BuildStates, RunInv,
     SubmissionsOf, Unsubmitted
<1>1. /\ Append(subs, new) \in Seq(Submission) /\ Len(Append(subs, new)) = job[r]
      /\ Append(subs, new)[job[r]] = new
      /\ \A i \in 1..job[r] - 1 : Append(subs, new)[i] = subs[i]
  BY <1>0, AppendProperties
<1>2. runs' = [runs EXCEPT ![r] = [runs[r] EXCEPT !.submissions = Append(subs, new)]]
  BY <1>0 DEF Record, Update
<1>3. [runs[r] EXCEPT !.submissions = Append(subs, new)] \in RunRecord
  BY <1>0, <1>1 DEF RunRecord
<1>4. TypeOK'
  BY <1>2, <1>3 DEF TypeOK, Record, Goto, Ended
<1>5. /\ tpc'[r] \in {"panicked", "poll"} /\ UNCHANGED <<config, job, build, builds>>
      /\ runs'[r] # None /\ runs'[r].status = runs[r].status
      /\ runs'[r].submissions = Append(subs, new)
  BY <1>0, <1>2, <1>3 DEF TypeOK, Record, Goto, RunRecord
<1>6. RecordOf(r)'
  BY <1>0, <1>5 DEF Record, RunInv, RecordOf, Untried, Ended, Terminal, Admits
<1>7. OwnBuildOf(r)'
  BY <1>5 DEF Record, RunInv, OwnBuildOf, Waiting
<1>8. SubmissionsOf(r)'
  <2>1. \A i \in 1..job[r] - 1 : SucceededAt(r, i)'
    BY <1>0, <1>1, <1>5, SucceededStays DEF BuildsGrow
  <2> QED
    BY <1>0, <1>1, <1>5, <2>1 DEF SubmissionsOf, Unsubmitted, Waiting
<1>9. \A b \in DOMAIN builds : builds[b].run = r /\ NotAhead(b) => NotAhead(b)'
  BY <1>5 DEF Record, NotAhead, Untried, Unsubmitted, Waiting
<1> QED
  BY <1>2, <1>4, <1>6, <1>7, <1>8, <1>9, TaskMoves DEF Record, Goto, TypeOK, RunInv

LEMMA PollStep ==
  ASSUME IInv, NEW r \in Runs, Poll(r)
  PROVE  IInv'
<1> USE DEF IInv
<1>0. /\ runs[r] # None /\ runs[r].status \in {"Queued", "Running"}
      /\ build[r] \in DOMAIN builds /\ builds[build[r]].state \in BuildStates
      /\ builds[build[r]] \in [run : Runs, job : Jobs, state : BuildStates]
  BY WorkingRecord, BuildTyped DEF Poll, Ended, RunInv, OwnBuildOf, Waiting
<1>1. /\ UNCHANGED <<config, runs, job, build, builds>>
      /\ \/ tpc'[r] \in {"fail", "sleep"}
         \/ /\ tpc'[r] = "settle" /\ seen'[r] = builds[build[r]].state
            /\ builds[build[r]].state # "queued"
  BY <1>0 DEF TypeOK, Poll, Goto, AfterStatus, BuildStates
<1>2. TypeOK'
  <2>1. seen' \in [Runs -> BuildStates]
    BY <1>0 DEF TypeOK, Poll
  <2>2. polls' \in [Runs -> 0..MaxPolls]
    <3>1. polls[r] \in 0..MaxPolls /\ polls[r] < MaxPolls => polls[r] + 1 \in 0..MaxPolls
      BY DEF TypeOK
    <3> QED
      BY <3>1 DEF TypeOK, Poll, InTime
  <2> QED
    BY <2>1, <2>2 DEF TypeOK, Poll, Goto, AfterStatus
<1>3. RecordOf(r)'
  BY <1>0, <1>1 DEF Poll, RunInv, RecordOf, Untried, Ended, Terminal, Admits
<1>4. OwnBuildOf(r)'
  BY <1>1 DEF Poll, RunInv, OwnBuildOf, Waiting
<1>5. SubmissionsOf(r)'
  <2>1. \A i : SucceededAt(r, i) => SucceededAt(r, i)'
    BY <1>1, SucceededStays DEF BuildsGrow
  <2> QED
    BY <1>0, <1>1, <2>1 DEF Poll, RunInv, SubmissionsOf, Unsubmitted, Waiting
<1>6. \A b \in DOMAIN builds : builds[b].run = r /\ NotAhead(b) => NotAhead(b)'
  BY <1>1 DEF Poll, NotAhead, Untried, Unsubmitted, Waiting
<1> QED
  BY <1>1, <1>2, <1>3, <1>4, <1>5, <1>6, TaskMoves DEF Poll, Goto, TypeOK, RunInv

LEMMA SleepStep ==
  ASSUME IInv, NEW r \in Runs, Sleep(r)
  PROVE  IInv'
<1> USE DEF IInv
<1>0. runs[r] # None /\ runs[r].status \in {"Queued", "Running"}
  BY WorkingRecord DEF Sleep, Ended
<1>1. tpc'[r] = "poll" /\ UNCHANGED <<config, runs, job, build, seen, polls, builds>>
  BY DEF TypeOK, Sleep, Goto, taskVars
<1>2. TypeOK'
  BY DEF TypeOK, Sleep, Goto, taskVars
<1>3. RecordOf(r)'
  BY <1>0, <1>1 DEF Sleep, RunInv, RecordOf, Untried, Ended, Terminal, Admits
<1>4. OwnBuildOf(r)'
  BY <1>1 DEF Sleep, RunInv, OwnBuildOf, Waiting
<1>5. SubmissionsOf(r)'
  <2>1. \A i : SucceededAt(r, i) => SucceededAt(r, i)'
    BY <1>1, SucceededStays DEF BuildsGrow
  <2> QED
    BY <1>0, <1>1, <2>1 DEF Sleep, RunInv, SubmissionsOf, Unsubmitted, Waiting
<1>6. \A b \in DOMAIN builds : builds[b].run = r /\ NotAhead(b) => NotAhead(b)'
  BY <1>1 DEF Sleep, NotAhead, Untried, Unsubmitted, Waiting
<1> QED
  BY <1>1, <1>2, <1>3, <1>4, <1>5, <1>6, TaskMoves DEF Sleep, Goto, TypeOK, RunInv

\* Of r's submissions only the last has the id of the build r waits for.
LEMMA ResolvedIsLast ==
  ASSUME IInv, NEW r \in Runs, tpc[r] \in Waiting
  PROVE  Resolved(r) = [runs[r].submissions EXCEPT ![job[r]].status = seen[r]]
<1> USE DEF IInv
<1> DEFINE subs == runs[r].submissions
           same == {i \in DOMAIN subs : subs[i].build = build[r]}
<1>1. /\ DOMAIN subs = 1..job[r] /\ job[r] \in 1..NumJobs
      /\ subs[job[r]].build = build[r]
      /\ \A i \in 1..job[r] - 1 : SucceededAt(r, i)
      /\ builds[build[r]].job = job[r]
  BY WorkingRecord DEF Waiting, Ended, RunInv, SubmissionsOf, OwnBuildOf
<1>2. \A i \in 1..job[r] - 1 : subs[i].build # build[r]
  <2> SUFFICES ASSUME NEW i \in 1..job[r] - 1, subs[i].build = build[r] PROVE FALSE
    OBVIOUS
  <2>1. builds[build[r]] = [run |-> r, job |-> i, state |-> "succeeded"]
    BY <1>1 DEF SucceededAt
  <2> QED
    BY <1>1, <2>1
<1>3. same = {job[r]}
  BY <1>1, <1>2
<1> HIDE DEF same
<1>4. (CHOOSE i \in same : \A k \in same : i <= k) = job[r]
  BY <1>1, <1>3
<1> QED
  BY <1>3, <1>4 DEF Resolved, same

LEMMA SettleStep ==
  ASSUME IInv, NEW r \in Runs, Settle(r)
  PROVE  IInv'
<1> USE DEF IInv
<1> DEFINE subs == runs[r].submissions
           resolved == [subs EXCEPT ![job[r]].status = seen[r]]
<1>1. /\ runs[r] \in RunRecord /\ runs[r] # None /\ job[r] \in 1..NumJobs
      /\ runs[r].status \in {"Queued", "Running"}
      /\ subs \in Seq(Submission) /\ DOMAIN subs = 1..Len(subs)
      /\ seen[r] \in BuildStates
  BY WorkingRecord DEF Settle, Ended, TypeOK
<1>2. /\ Len(subs) = job[r]
      /\ subs[job[r]].job = job[r] /\ subs[job[r]].build = build[r]
      /\ \A i \in 1..job[r] - 1 : SucceededAt(r, i)
  BY DEF Settle, RunInv, SubmissionsOf, Waiting
<1>3. /\ build[r] \in DOMAIN builds
      /\ builds[build[r]] = [run |-> r, job |-> job[r], state |-> seen[r]]
  <2>1. /\ build[r] \in DOMAIN builds
        /\ builds[build[r]].run = r /\ builds[build[r]].job = job[r]
        /\ builds[build[r]].state = seen[r]
    BY DEF Settle, RunInv, OwnBuildOf, Waiting
  <2>2. builds[build[r]] \in [run : Runs, job : Jobs, state : BuildStates]
    BY <2>1, BuildTyped
  <2> QED
    BY <2>1, <2>2
<1>4. /\ resolved \in Seq(Submission) /\ Len(resolved) = job[r]
      /\ resolved[job[r]] = [subs[job[r]] EXCEPT !.status = seen[r]]
      /\ \A i \in 1..job[r] - 1 : resolved[i] = subs[i]
  <2>1. subs[job[r]] \in Submission
    BY <1>1, <1>2, ElementOfSeq
  <2>2. [subs[job[r]] EXCEPT !.status = seen[r]] \in Submission
    BY <1>1, <2>1 DEF Submission
  <2>3. resolved = [subs EXCEPT ![job[r]] = [subs[job[r]] EXCEPT !.status = seen[r]]]
    OBVIOUS
  <2> QED
    BY <1>1, <1>2, <2>2, <2>3, ExceptSeq
<1>5. runs' = [runs EXCEPT ![r] = [runs[r] EXCEPT !.submissions = resolved]]
  <2>1. Resolved(r) = resolved
    BY ResolvedIsLast DEF Settle, Waiting
  <2> QED
    BY <1>1, <2>1 DEF Settle, Update
<1>6. [runs[r] EXCEPT !.submissions = resolved] \in RunRecord
  BY <1>1, <1>4 DEF RunRecord
<1> HIDE DEF resolved
<1>7. /\ runs'[r] # None /\ runs'[r].status = runs[r].status
      /\ runs'[r].submissions = resolved
      /\ UNCHANGED <<config, build, seen, polls, builds>>
  BY <1>1, <1>5, <1>6 DEF TypeOK, Settle, RunRecord
<1>8. \/ tpc'[r] = "fail" /\ job' = job
      \/ /\ tpc'[r] = "select" /\ job' = [job EXCEPT ![r] = job[r] + 1]
         /\ seen[r] = "succeeded" /\ job[r] # NumJobs
      \/ /\ tpc'[r] = "finish" /\ job' = job
         /\ seen[r] = "succeeded" /\ job[r] = NumJobs
  BY DEF TypeOK, Settle, Goto, Continues, LastJob
<1>9. TypeOK'
  <2>1. job' \in [Runs -> Jobs]
    <3>1. job[r] # NumJobs => job[r] + 1 \in Jobs
      BY <1>1 DEF Jobs
    <3> QED
      BY <1>8, <3>1 DEF TypeOK
  <2>2. runs' \in [Runs -> RunRecord \cup {None}]
    BY <1>5, <1>6 DEF TypeOK
  <2> QED
    BY <2>1, <2>2 DEF TypeOK, Settle, Goto
<1>10. RecordOf(r)' /\ OwnBuildOf(r)'
  BY <1>1, <1>7, <1>8 DEF Settle, RunInv, RecordOf, OwnBuildOf, Waiting, Untried, Ended,
     Terminal, Admits
<1>11. SubmissionsOf(r)'
  <2>1. \A i \in 1..job[r] - 1 : SucceededAt(r, i)'
    BY <1>1, <1>4, <1>7, <1>2, SucceededStays DEF BuildsGrow
  <2>2. \A i : i = job[r] /\ seen[r] = "succeeded" => SucceededAt(r, i)'
    <3>1. subs[job[r]] \in Submission
      BY <1>1, <1>2, ElementOfSeq
    <3>2. resolved[job[r]].job = job[r] /\ resolved[job[r]].build = build[r]
          /\ resolved[job[r]].status = seen[r]
      BY <1>4, <1>2, <3>1 DEF Submission
    <3> QED
      BY <1>7, <1>3, <3>2 DEF SucceededAt
  <2> QED
    <3>1. CASE tpc'[r] = "fail"
      BY <1>1, <1>7, <3>1 DEF SubmissionsOf, Unsubmitted, Waiting
    <3>2. CASE tpc'[r] = "select" /\ job'[r] = job[r] + 1 /\ seen[r] = "succeeded"
      BY <1>1, <1>4, <1>7, <2>1, <2>2, <3>2 DEF SubmissionsOf, Unsubmitted, Waiting
    <3>3. CASE tpc'[r] = "finish" /\ seen[r] = "succeeded" /\ job[r] = NumJobs
      BY <1>1, <1>4, <1>7, <2>1, <2>2, <3>3 DEF SubmissionsOf, Unsubmitted, Waiting, Jobs
    <3> QED
      BY <1>8, <3>1, <3>2, <3>3 DEF TypeOK
<1>12. \A b \in DOMAIN builds : builds[b].run = r /\ NotAhead(b) => NotAhead(b)'
  <2> SUFFICES ASSUME NEW b \in DOMAIN builds, builds[b].run = r, NotAhead(b)
               PROVE  NotAhead(b)'
    OBVIOUS
  <2>1. builds[b].job \in 1..NumJobs /\ builds[b].job <= job[r]
    BY BuildTyped DEF Jobs, Settle, NotAhead, Waiting
  <2>2. \/ tpc'[r] \in {"fail", "finish"}
        \/ tpc'[r] = "select" /\ job'[r] = job[r] + 1
    BY <1>8 DEF TypeOK
  <2> QED
    BY <1>1, <1>7, <1>8, <2>1, <2>2 DEF NotAhead, Untried, Unsubmitted, Waiting
<1> QED
  BY <1>5, <1>7, <1>8, <1>9, <1>10, <1>11, <1>12, TaskMoves DEF Settle, Goto, TypeOK, RunInv

LEMMA FinishStep ==
  ASSUME IInv, NEW r \in Runs, Finish(r)
  PROVE  IInv'
<1> USE DEF IInv
<1> DEFINE new == [runs[r] EXCEPT !.status = "Succeeded", !.current = None]
<1>0. /\ runs[r] \in RunRecord /\ runs[r] # None
      /\ Len(runs[r].submissions) = NumJobs /\ \A i \in Jobs : SucceededAt(r, i)
  BY WorkingRecord DEF Finish, Ended, RunInv, SubmissionsOf
<1>1. new \in RunRecord /\ runs' = [runs EXCEPT ![r] = new]
  BY <1>0 DEF RunRecord, Finish, Update
<1>2. TypeOK'
  <2>1. 1 \in Jobs /\ 0 \in Nat /\ "queued" \in BuildStates /\ 0 \in 0..MaxPolls
    BY DEF Jobs, BuildStates
  <2> QED
    BY <1>1, <2>1 DEF TypeOK, Finish, End, Goto, Ended
<1>3. /\ tpc'[r] = "done" /\ UNCHANGED <<config, builds>>
      /\ runs'[r] # None /\ runs'[r].status = "Succeeded"
      /\ runs'[r].submissions = runs[r].submissions
  BY <1>0, <1>1 DEF TypeOK, Finish, End, Goto, RunRecord
<1>4. RecordOf(r)' /\ OwnBuildOf(r)'
  BY <1>3 DEF Finish, RunInv, RecordOf, OwnBuildOf, Waiting, Untried, Ended, Admits
<1>5. SubmissionsOf(r)'
  <2>1. \A i : SucceededAt(r, i) => SucceededAt(r, i)'
    BY <1>3, SucceededStays DEF BuildsGrow
  <2> QED
    BY <1>0, <1>3, <2>1 DEF SubmissionsOf, Unsubmitted, Waiting
<1>6. \A b \in DOMAIN builds : builds[b].run = r /\ NotAhead(b) => NotAhead(b)'
  BY <1>3 DEF NotAhead, Untried, Unsubmitted, Waiting
<1> QED
  BY <1>1, <1>2, <1>3, <1>4, <1>5, <1>6, TaskMoves DEF Finish, End, Goto, TypeOK, RunInv

LEMMA FailStep ==
  ASSUME IInv, NEW r \in Runs, Fail(r)
  PROVE  IInv'
<1> USE DEF IInv
<1> DEFINE new == [runs[r] EXCEPT !.status = "Failed", !.current = None]
<1>0. runs[r] \in RunRecord /\ runs[r] # None
  BY WorkingRecord DEF Fail, Ended
<1>1. new \in RunRecord /\ runs' = [runs EXCEPT ![r] = new]
  BY <1>0 DEF RunRecord, Fail, Update
<1>2. TypeOK'
  <2>1. 1 \in Jobs /\ 0 \in Nat /\ "queued" \in BuildStates /\ 0 \in 0..MaxPolls
    BY DEF Jobs, BuildStates
  <2> QED
    BY <1>1, <2>1 DEF TypeOK, Fail, End, Goto, Ended
<1>3. /\ tpc'[r] = "done" /\ UNCHANGED <<config, builds>>
      /\ runs'[r] # None /\ runs'[r].status = "Failed"
  BY <1>0, <1>1 DEF TypeOK, Fail, End, Goto, RunRecord
<1>4. RunInv(r)'
  BY <1>3 DEF Fail, RunInv, RecordOf, OwnBuildOf, SubmissionsOf, Unsubmitted, Waiting,
     Untried, Ended, Admits
<1>5. \A b \in DOMAIN builds : builds[b].run = r /\ NotAhead(b) => NotAhead(b)'
  BY <1>3 DEF NotAhead, Untried, Unsubmitted, Waiting
<1> QED
  BY <1>1, <1>2, <1>3, <1>4, <1>5, TaskMoves DEF Fail, End, Goto, TypeOK

LEMMA EndBuildStep ==
  ASSUME IInv, NEW b \in DOMAIN builds, EndBuild(b)
  PROVE  IInv'
<1> USE DEF IInv
<1>0. builds \in Seq([run : Runs, job : Jobs, state : BuildStates])
  BY DEF TypeOK
<1>1. PICK s \in {"succeeded", "failed"} : builds' = [builds EXCEPT ![b].state = s]
  BY DEF EndBuild
<1>2. /\ builds' = [builds EXCEPT ![b] = [builds[b] EXCEPT !.state = s]]
      /\ [builds[b] EXCEPT !.state = s] \in [run : Runs, job : Jobs, state : BuildStates]
  BY <1>1, BuildTyped DEF BuildStates
<1>3. builds' \in Seq([run : Runs, job : Jobs, state : BuildStates])
  BY <1>0, <1>2, BuildTyped, ExceptSeq
<1>4. /\ DOMAIN builds' = DOMAIN builds
      /\ \A a \in DOMAIN builds : /\ builds'[a].run = builds[a].run
                                  /\ builds'[a].job = builds[a].job
                                  /\ builds[a].state # "queued" => builds'[a] = builds[a]
  <2>1. /\ builds[b].state = "queued" /\ builds'[b] = [builds[b] EXCEPT !.state = s]
        /\ \A a \in DOMAIN builds \ {b} : builds'[a] = builds[a]
        /\ DOMAIN builds' = DOMAIN builds
    BY <1>2 DEF EndBuild
  <2>2. /\ builds'[b].run = builds[b].run /\ builds'[b].job = builds[b].job
    BY <2>1, BuildTyped
  <2> QED
    BY <2>1, <2>2
<1>5. UNCHANGED <<config, runs, tpc, job, build, seen, polls>>
  BY DEF EndBuild, taskVars
<1>6. TypeOK'
  BY <1>3, <1>5 DEF TypeOK
<1>7. \A r \in Runs : RunInv(r)'
  BY <1>4, <1>5, OthersKeep DEF BuildsGrow
<1>8. BuildsInv'
  <2>1. DependentsWait'
    <3> SUFFICES ASSUME NEW a \in DOMAIN builds, NEW i \in 1..builds[a].job - 1
                 PROVE  \E c \in DOMAIN builds :
                   builds'[c] = [run |-> builds[a].run, job |-> i, state |-> "succeeded"]
      BY <1>4 DEF DependentsWait
    <3>1. PICK c \in DOMAIN builds :
            builds[c] = [run |-> builds[a].run, job |-> i, state |-> "succeeded"]
      BY DEF BuildsInv, DependentsWait
    <3>2. builds'[c] = builds[c]
      BY <1>4, <3>1
    <3> QED
      BY <3>1, <3>2
  <2>2. EachJobBuiltOnce' /\ \A a \in DOMAIN builds' : NotAhead(a)'
    BY <1>4, <1>5 DEF BuildsInv, EachJobBuiltOnce, NotAhead
  <2> QED
    BY <2>1, <2>2 DEF BuildsInv
<1> QED
  BY <1>6, <1>7, <1>8

LEMMA NextIInv == IInv /\ [Next]_vars => IInv'
<1> SUFFICES ASSUME IInv, [Next]_vars PROVE IInv'
  OBVIOUS
<1>1. ASSUME NEW r \in Runs, Insert(r) PROVE IInv'
  BY <1>1, InsertStep
<1>2. ASSUME NEW r \in Runs, TaskStep(r) PROVE IInv'
  BY <1>2, SpawnStep, BeginStep, SelectStep, SubmitStep, RecordStep, PollStep, SleepStep,
     SettleStep, FinishStep, FailStep DEF TaskStep
<1>3. ASSUME NEW b \in DOMAIN builds, EndBuild(b) PROVE IInv'
  BY <1>3, EndBuildStep
<1>4. CASE UNCHANGED vars
  <2>1. UNCHANGED <<config, runs, tpc, job, build, seen, polls, builds>>
    BY <1>4 DEF vars, taskVars
  <2> QED
    BY <2>1, OthersKeep DEF IInv, TypeOK, BuildsGrow, BuildsInv, DependentsWait,
       EachJobBuiltOnce, NotAhead
<1> QED
  BY <1>1, <1>2, <1>3, <1>4 DEF Next, Quiescent

-----------------------------------------------------------------------------
\* IInv holds in every reachable state: for any runs, configurations, plan
\* length, bound on the run table and number of polls.
THEOREM Invariance == Spec => []IInv
<1>1. Init => IInv
  BY InitIInv
<1>2. IInv /\ [Next]_vars => IInv'
  BY NextIInv
<1> QED
  BY <1>1, <1>2, PTL DEF Spec

\* Every variable keeps its type.
THEOREM TypeCorrect == Spec => []TypeOK
<1>1. IInv => TypeOK
  BY DEF IInv
<1> QED
  BY <1>1, Invariance, PTL

\* A run reported Succeeded has a real, succeeded build of its own for every job.
THEOREM RealSuccess == Spec => []SuccessIsReal
<1>1. IInv => SuccessIsReal
  BY DEF IInv, RunInv, SubmissionsOf, SucceededAt, SuccessIsReal
<1> QED
  BY <1>1, Invariance, PTL

\* No job is ever submitted before the builds of all earlier jobs succeeded.
THEOREM JobsInOrder == Spec => []DependentsWait
<1>1. IInv => DependentsWait
  BY DEF IInv, BuildsInv
<1> QED
  BY <1>1, Invariance, PTL

\* A run never creates a second build for a job, even if an answer was lost.
THEOREM OneBuildPerJob == Spec => []EachJobBuiltOnce
<1>1. IInv => EachJobBuiltOnce
  BY DEF IInv, BuildsInv
<1> QED
  BY <1>1, Invariance, PTL

\* However small the table, no update of a working run is lost.
THEOREM NoWorkingRunIsPruned == Spec => []WorkingRunsAreKept
<1>1. IInv => WorkingRunsAreKept
  BY DEF IInv, RunInv, RecordOf, WorkingRunsAreKept
<1> QED
  BY <1>1, Invariance, PTL

\* With a configuration readiness accepts, what was admitted can be started.
LEMMA ReadyIsConfigured ==
  ASSUME Ready(config), Admits(config)
  PROVE  Configured(config)
BY DEF Ready, ExecutionReady, Admits, Configured

\* While the service reports itself ready no accepted run fails or vanishes
\* before its task has started it.
THEOREM AcceptedRunsStart == Spec => ReadyRunsStart
<1> DEFINE Start == Ready(config) => \A r \in Runs :
                      runs[r] # None /\ runs[r].status = "Queued" =>
                        runs'[r] # None /\ runs'[r].status \in {"Queued", "Running"}
<1>1. ASSUME IInv, [Next]_vars PROVE Start
  <2> SUFFICES ASSUME Ready(config), NEW r \in Runs,
                      runs[r] # None, runs[r].status = "Queued"
               PROVE  runs'[r] # None /\ runs'[r].status \in {"Queued", "Running"}
    OBVIOUS
  <2>1. tpc[r] \in {"inserted", "begin"}
    BY <1>1, ReadyIsConfigured DEF IInv, RunInv, RecordOf
  <2>2. CASE runs'[r] = runs[r]
    BY <2>2
  <2>3. ASSUME NEW q \in Runs, Insert(q) PROVE r # q /\ runs'[r] = runs[r]
    <3> DEFINE table == [runs EXCEPT ![q] =
                  [status |-> "Queued", current |-> None, submissions |-> <<>>]]
    <3>1. r # q
      BY <2>1, <2>3 DEF Insert
    <3>2. table[r] = runs[r] /\ r \notin Prunable(table)
      BY <1>1, <3>1 DEF IInv, TypeOK, Prunable, Terminal
    <3> HIDE DEF table
    <3> QED
      BY <2>3, <3>1, <3>2, PrunedKeeps DEF Insert, table
  <2>4. ASSUME NEW q \in Runs, TaskStep(q), q # r PROVE runs'[r] = runs[r]
    BY <1>1, <2>4 DEF IInv, TypeOK, TaskStep, Spawn, Begin, Select, Submit, Record, Poll,
       Sleep, Settle, Finish, Fail, Update
  <2>5. CASE Spawn(r)
    BY <2>5 DEF Spawn
  <2>6. CASE Begin(r)
    <3>1. runs[r] \in RunRecord
      BY <1>1, <2>1, WorkingRecord DEF Ended
    <3>2. Configured(config)
      BY <1>1, <2>1, ReadyIsConfigured DEF IInv, RunInv, RecordOf
    <3>3. runs' = [runs EXCEPT ![r] = [runs[r] EXCEPT !.status = "Running"]]
      BY <2>6, <3>2 DEF Begin, Update
    <3>4. [runs[r] EXCEPT !.status = "Running"] \in RunRecord
      BY <3>1 DEF RunRecord
    <3> QED
      BY <1>1, <3>1, <3>3, <3>4 DEF IInv, TypeOK, RunRecord
  <2>7. ASSUME NEW b \in DOMAIN builds, EndBuild(b) PROVE runs' = runs
    BY <2>7 DEF EndBuild
  <2>8. ASSUME TaskStep(r) PROVE Spawn(r) \/ Begin(r)
    BY <2>1, <2>8 DEF TaskStep, Select, Submit, Record, Poll, Sleep, Settle, Finish, Fail
  <2>9. CASE Quiescent \/ UNCHANGED vars
    BY <2>9 DEF Quiescent, vars
  <2> QED
    BY <1>1, <2>2, <2>3, <2>4, <2>5, <2>6, <2>7, <2>8, <2>9 DEF Next
<1>2. IInv /\ [Next]_vars => [Start]_vars
  BY <1>1
<1> QED
  BY <1>2, Invariance, PTL DEF Spec, ReadyRunsStart
=============================================================================
