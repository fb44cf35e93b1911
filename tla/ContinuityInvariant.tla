------------------------ MODULE ContinuityInvariant ------------------------
(***************************************************************************)
(* The inductive invariant of Continuity: which builds the router's table, *)
(* the calls under way, the tasks and the recorded submissions may name,   *)
(* and what has succeeded before any of them exists.                       *)
(***************************************************************************)
EXTENDS Continuity

Unsubmitted == {"select", "submit", "awaiting"}
Waiting == {"poll", "sleep", "settle"}

TypeOK ==
  /\ config \in Configs
  /\ runs \in [Runs -> Service!RunRecord \cup {None}]
  /\ tpc \in [Runs -> {"none", "inserted", "begin", "record", "finish", "fail"}
                        \cup Unsubmitted \cup Waiting \cup Service!Ended]
  /\ job \in [Runs -> Jobs]
  /\ build \in [Runs -> Nat]
  /\ seen \in [Runs -> Service!BuildStates]
  /\ polls \in [Runs -> {0}]
  /\ asked \in [Calls -> Request \cup {None}]
  /\ answer \in [Calls -> Answer \cup {None}]
  /\ bound \in [Jobs -> Binding \cup {None}]
  /\ sends \in [Jobs -> SUBSET Nat]
  /\ verdict \in [Jobs -> Answer \cup {None}]
  /\ epoch \in Nat /\ crashes \in Nat /\ epoch + crashes <= MaxRestarts
  /\ posts \in Seq(Post)

BuildOf(n, j) == n \in Hosted /\ posts[n].id = j
Done(j) == \E n \in Hosted : SucceededBuild(n, j)
EarlierDone(j) == \A i \in 1..j - 1 : Done(i)

At(e) == {n \in Hosted : posts[n].executor = e}

\* Each router posts a job once, after all earlier jobs were done; executors give
\* their builds the next local ids.
PostsInv ==
  /\ \A n \in DOMAIN posts : posts[n].epoch <= epoch /\ EarlierDone(posts[n].id)
  /\ \A m, n \in DOMAIN posts :
       posts[m].id = posts[n].id /\ posts[m].epoch = posts[n].epoch => m = n
  /\ \A m, n \in Hosted : Named(m, n) => m = n
  /\ \A n \in Hosted : posts[n].local \in 1..Cardinality(At(posts[n].executor))

\* The router's table holds this router's posts, and only what a task that had
\* all earlier jobs done has asked for; what it accepted is a build of the job.
TableInv ==
  \A j \in Jobs :
    /\ sends[j] = {n \in DOMAIN posts : posts[n].id = j /\ posts[n].epoch = epoch}
    /\ sends[j] # {} => bound[j] # None
    /\ bound[j] # None => EarlierDone(j)
    /\ verdict[j] # None /\ verdict[j].kind = "accepted" => BuildOf(verdict[j].build, j)

CallsInv ==
  \A c \in Calls :
    /\ asked[c] # None => asked[c].id = c[2] /\ EarlierDone(c[2])
    /\ answer[c] # None /\ answer[c].kind = "accepted" => BuildOf(answer[c].build, c[2])

RecordOf(r) ==
  /\ tpc[r] \notin {"none"} \cup Service!Ended =>
       runs[r] # None /\ runs[r].status \notin Service!Terminal
  /\ tpc[r] = "none" => runs[r] = None
  /\ tpc[r] \in {"none", "inserted", "begin"} => job[r] = 1
  /\ tpc[r] \in {"inserted", "begin"} => runs[r].submissions = <<>>

\* The task's own build is a build of its job, and what it saw is final.
OwnBuildOf(r) ==
  /\ tpc[r] \in {"record"} \cup Waiting => BuildOf(build[r], job[r])
  /\ tpc[r] = "settle" =>
       seen[r] \in {"succeeded", "failed"} /\ posts[build[r]].fate = seen[r]

SucceededAt(r, i) ==
  LET s == runs[r].submissions[i] IN
  s.job = i /\ s.build \in Hosted /\ SucceededBuild(s.build, i)

\* A working task has recorded one submission for each earlier job, which
\* succeeded, and one for its own job while it waits for it.
SubmissionsOf(r) ==
  /\ tpc[r] \in Unsubmitted \cup {"record"} => Len(runs[r].submissions) = job[r] - 1
  /\ tpc[r] \in Unsubmitted \cup {"record"} \cup Waiting =>
       \A i \in 1..job[r] - 1 : SucceededAt(r, i)
  /\ tpc[r] \in Waiting =>
       /\ Len(runs[r].submissions) = job[r]
       /\ runs[r].submissions[job[r]].job = job[r]
       /\ runs[r].submissions[job[r]].build = build[r]
  /\ tpc[r] = "finish" \/ (runs[r] # None /\ runs[r].status = "Succeeded") =>
       /\ Len(runs[r].submissions) = NumJobs
       /\ \A i \in Jobs : SucceededAt(r, i)

RunInv(r) == RecordOf(r) /\ OwnBuildOf(r) /\ SubmissionsOf(r)

IInv == TypeOK /\ PostsInv /\ TableInv /\ CallsInv /\ \A r \in Runs : RunInv(r)
=============================================================================
