------------------------ MODULE CoordinatorInvariant ------------------------
(***************************************************************************)
(* The inductive invariant of RunCoordinator: what ties the place of a     *)
(* run's task in execute_plan to the run's record, to the build the task   *)
(* waits for and to every build that was ever created for the run.         *)
(***************************************************************************)
EXTENDS RunCoordinator

Untried == {"none", "inserted", "begin"}
Unsubmitted == {"select", "submit"}
Waiting == {"poll", "sleep", "settle"}

\* A run has a record from its insertion on, which says Queued until the task
\* has found its configuration, and which nothing removes while it works.
RecordOf(r) ==
  /\ tpc[r] \notin {"none"} \cup Ended =>
       runs[r] # None /\ runs[r].status \notin Terminal
  /\ tpc[r] = "none" => runs[r] = None
  /\ tpc[r] # "none" => Admits(config)
  /\ tpc[r] \in Untried => job[r] = 1
  /\ tpc[r] \in {"inserted", "begin"} => runs[r].submissions = <<>>
  /\ runs[r] # None /\ runs[r].status = "Queued" =>
       \/ tpc[r] \in {"inserted", "begin"}
       \/ tpc[r] = "fail" /\ ~Configured(config)

\* The task's own build is a build of its run and job, and what it saw is final.
OwnBuildOf(r) ==
  /\ tpc[r] \in {"record"} \cup Waiting =>
       /\ build[r] \in DOMAIN builds
       /\ builds[build[r]].run = r /\ builds[build[r]].job = job[r]
  /\ tpc[r] = "settle" =>
       seen[r] # "queued" /\ builds[build[r]].state = seen[r]

\* The i-th submission of r is of job i, whose build has succeeded.
SucceededAt(r, i) ==
  LET s == runs[r].submissions[i] IN
  /\ s.job = i /\ s.status = "succeeded" /\ s.build \in DOMAIN builds
  /\ builds[s.build] = [run |-> r, job |-> i, state |-> "succeeded"]

\* A working task has recorded one submission for each earlier job, which
\* succeeded, and one for its own job while it waits for it.
SubmissionsOf(r) ==
  /\ tpc[r] \in Unsubmitted \cup {"record"} => Len(runs[r].submissions) = job[r] - 1
  /\ tpc[r] \in Unsubmitted \cup {"record"} \cup Waiting =>
       \A i \in 1..job[r] - 1 : SucceededAt(r, i)
  /\ tpc[r] \in Waiting =>
       /\ Len(runs[r].submissions) = job[r]
       /\ runs[r].submissions[job[r]].job = job[r]
       /\ runs[r].submissions[job[r]].build = build[r]
  /\ tpc[r] = "finish" \/ (runs[r] # None /\ runs[r].status = "Succeeded") =>
       /\ Len(runs[r].submissions) = NumJobs
       /\ \A i \in Jobs : SucceededAt(r, i)

RunInv(r) == RecordOf(r) /\ OwnBuildOf(r) /\ SubmissionsOf(r)

\* No build is ahead of its run's task.
NotAhead(b) ==
  LET r == builds[b].run IN
  /\ tpc[r] \notin Untried
  /\ tpc[r] \in Unsubmitted => builds[b].job < job[r]
  /\ tpc[r] \in {"record"} \cup Waiting => builds[b].job <= job[r]

BuildsInv ==
  DependentsWait /\ EachJobBuiltOnce /\ \A b \in DOMAIN builds : NotAhead(b)

IInv == TypeOK /\ (\A r \in Runs : RunInv(r)) /\ BuildsInv
=============================================================================
