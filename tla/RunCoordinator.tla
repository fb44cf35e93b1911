--------------------------- MODULE RunCoordinator ---------------------------
(***************************************************************************)
(* Runs of gha-clone-server: the bounded run table, the spawned            *)
(* execute_plan task of each run, which submits the plan's jobs one at a   *)
(* time in topological order, and the polling of each build to its end.    *)
(*                                                                         *)
(* A task's steps are the code between two awaits (the runs lock, an HTTP  *)
(* call, the sleep).  The build server is external: a POST may create a    *)
(* build whether or not its answer comes back, and builds end when they    *)
(* like.  Wall-clock stamps only order the pruning of ended runs; as the   *)
(* clock may step, any ended runs may be the oldest.                       *)
(***************************************************************************)
EXTENDS Naturals, Sequences, FiniteSets

CONSTANTS
  Runs,            \* run UUIDs, in no order
  Configs,         \* the configurations explored
  NumJobs,         \* jobs of a plan, 1..NumJobs in topological order
  MaxRuns,         \* max_runs
  MaxPolls,        \* status requests that fit before the build deadline
  TimeoutOverflows,\* Instant::now() + build_timeout_seconds overflows
  None             \* no record, no job

ASSUME NumJobsAssumption == NumJobs \in Nat \ {0}
ASSUME MaxRunsAssumption == MaxRuns \in Nat
ASSUME MaxPollsAssumption == MaxPolls \in Nat
ASSUME TimeoutOverflowsAssumption == TimeoutOverflows \in BOOLEAN

\* What is set and switched on in the environment; of the allow-list and of the
\* workflow rules, whether they are empty.
Config == [executionEnabled : BOOLEAN, webhookExecutionEnabled : BOOLEAN,
           authSecret : BOOLEAN, webhookSecret : BOOLEAN, buildServerUrl : BOOLEAN,
           buildServerAuth : BOOLEAN, allowedRepositories : BOOLEAN,
           workflowRules : BOOLEAN]

\* Every repository with a rule must be on the allow-list.
ValidConfig(c) == c.workflowRules => c.allowedRepositories

ASSUME ConfigsAssumption == Configs \subseteq {c \in Config : ValidConfig(c)}

Jobs == 1..NumJobs
BuildStates == {"queued", "succeeded", "failed"}
Submission == [job : Jobs, build : Nat, status : BuildStates]
RunRecord == [status : {"Queued", "Running", "Succeeded", "Failed"},
              current : Jobs \cup {None}, submissions : Seq(Submission)]

ASSUME NoneAssumption == None \notin RunRecord /\ None \notin Jobs

VARIABLES
  config,     \* AppState.config
  runs,       \* AppState.runs
  tpc,        \* where each run's task is
  job,        \* the index of the job the task is at
  build,      \* the build it submitted or polls
  seen,       \* the terminal status it polled
  polls,      \* status requests made for that build
  builds      \* external: every build created, for which run and job

taskVars == <<job, build, seen, polls>>
vars == <<config, runs, tpc, taskVars, builds>>

Terminal == {"Succeeded", "Failed"}
Ended == {"done", "panicked"}

TypeOK ==
  /\ config \in Configs
  /\ runs \in [Runs -> RunRecord \cup {None}]
  /\ tpc \in [Runs -> {"none", "inserted", "begin", "select", "submit", "record",
                       "poll", "sleep", "settle", "finish", "fail"} \cup Ended]
  /\ job \in [Runs -> Jobs]
  /\ build \in [Runs -> Nat]
  /\ seen \in [Runs -> BuildStates]
  /\ polls \in [Runs -> 0..MaxPolls]
  /\ builds \in Seq([run : Runs, job : Jobs, state : BuildStates])

Init ==
  /\ config \in Configs
  /\ runs = [r \in Runs |-> None]
  /\ tpc = [r \in Runs |-> "none"]
  /\ job = [r \in Runs |-> 1]
  /\ build = [r \in Runs |-> 0]
  /\ seen = [r \in Runs |-> "queued"]
  /\ polls = [r \in Runs |-> 0]
  /\ builds = <<>>

Goto(r, at) == tpc' = [tpc EXCEPT ![r] = at]

\* update_run: nothing happens when the record is no longer retained.
Update(r, new) ==
  runs' = IF runs[r] = None THEN runs ELSE [runs EXCEPT ![r] = new]

-----------------------------------------------------------------------------
(* What the configuration promises and permits *)

Bug_ExecutionReady(c) ==
  c.executionEnabled => c.authSecret /\ c.buildServerUrl /\ c.allowedRepositories
ExecutionReady(c) ==
  c.executionEnabled =>
    c.authSecret /\ c.buildServerUrl /\ c.buildServerAuth /\ c.allowedRepositories

WebhookExecutionReady(c) ==
  c.webhookExecutionEnabled =>
    c.executionEnabled /\ ExecutionReady(c) /\ c.webhookSecret /\ c.workflowRules

\* GET /readyz answers 200.
Ready(c) == ExecutionReady(c) /\ WebhookExecutionReady(c)

\* A caller with the secret, for an allow-listed repository, gets past create_run's
\* checks, or a signed delivery past github_webhook's; neither asks for Ready.
Admits(c) ==
  /\ c.executionEnabled /\ c.allowedRepositories
  /\ \/ c.authSecret
     \/ c.webhookExecutionEnabled /\ c.webhookSecret /\ c.workflowRules

\* What execute_plan needs before it starts.
Configured(c) == c.buildServerUrl /\ c.buildServerAuth

-----------------------------------------------------------------------------
(* create_run, and each run github_webhook starts *)

Retained(table) == {r \in Runs : table[r] # None}

Bug_Prunable(table) == Retained(table)
Prunable(table) == {r \in Retained(table) : table[r].status \in Terminal}

\* The tables prune_runs may leave: the surplus, or all ended runs, are removed.
Pruned(table) ==
  LET size == Cardinality(Retained(table))
      surplus == IF size > MaxRuns THEN size - MaxRuns ELSE 0
      ended == Cardinality(Prunable(table))
      removals == IF surplus < ended THEN surplus ELSE ended
  IN  {[r \in Runs |-> IF r \in gone THEN None ELSE table[r]] :
         gone \in {s \in SUBSET Prunable(table) : Cardinality(s) = removals}}

Insert(r) ==
  /\ tpc[r] = "none" /\ Admits(config)
  /\ runs' \in Pruned([runs EXCEPT ![r] =
       [status |-> "Queued", current |-> None, submissions |-> <<>>]])
  /\ Goto(r, "inserted")
  /\ UNCHANGED <<config, taskVars, builds>>

Spawn(r) ==
  /\ tpc[r] = "inserted"
  /\ Goto(r, "begin")
  /\ UNCHANGED <<config, runs, taskVars, builds>>

-----------------------------------------------------------------------------
(* execute_plan *)

Begin(r) ==
  /\ tpc[r] = "begin"
  /\ \/ /\ ~Configured(config)
        /\ Goto(r, "fail")
        /\ UNCHANGED runs
     \/ /\ Configured(config)
        /\ Update(r, [runs[r] EXCEPT !.status = "Running"])
        /\ Goto(r, "select")
  /\ UNCHANGED <<config, taskVars, builds>>

Select(r) ==
  /\ tpc[r] = "select"
  /\ Update(r, [runs[r] EXCEPT !.current = job[r]])
  /\ Goto(r, "submit")
  /\ UNCHANGED <<config, taskVars, builds>>

NewBuild(r) == [run |-> r, job |-> job[r], state |-> "queued"]

\* After an error that leaves the submission's fate open.
Bug_AfterError(r) == "select"
AfterError(r) == "fail"

\* POST /builds: a 202 that names the build, or an error, which the build
\* server may have answered with or without creating the build.
Submit(r) ==
  /\ tpc[r] = "submit"
  /\ \/ /\ builds' = Append(builds, NewBuild(r))
        /\ build' = [build EXCEPT ![r] = Len(builds) + 1]
        /\ Goto(r, "record")
     \/ /\ builds' \in {builds, Append(builds, NewBuild(r))}
        /\ Goto(r, AfterError(r))
        /\ UNCHANGED build
  /\ UNCHANGED <<config, runs, job, seen, polls>>

\* The submission is recorded; wait_for_build then computes its deadline, which
\* panics the task when the sum overflows.
Record(r) ==
  /\ tpc[r] = "record"
  /\ Update(r, [runs[r] EXCEPT !.submissions =
       Append(@, [job |-> job[r], build |-> build[r], status |-> "queued"])])
  /\ polls' = [polls EXCEPT ![r] = 0]
  /\ Goto(r, IF TimeoutOverflows THEN "panicked" ELSE "poll")
  /\ UNCHANGED <<config, job, build, seen, builds>>

\* What a status answer makes the task do.
AfterStatus(status) == IF status \in {"succeeded", "failed"} THEN "settle" ELSE "sleep"

Bug_InTime(r) == TRUE
InTime(r) == polls[r] < MaxPolls

\* One turn of wait_for_build: the deadline may have passed, and has after
\* MaxPolls requests; otherwise the status is asked for, and anything but a
\* known status of the build ends the run.
Poll(r) ==
  /\ tpc[r] = "poll"
  /\ \/ /\ Goto(r, "fail")
        /\ UNCHANGED <<seen, polls>>
     \/ /\ InTime(r)
        /\ polls' = [polls EXCEPT ![r] = IF @ < MaxPolls THEN @ + 1 ELSE @]
        /\ seen' = [seen EXCEPT ![r] = builds[build[r]].state]
        /\ Goto(r, AfterStatus(builds[build[r]].state))
  /\ UNCHANGED <<config, runs, job, build, builds>>

Sleep(r) ==
  /\ tpc[r] = "sleep"
  /\ Goto(r, "poll")
  /\ UNCHANGED <<config, runs, taskVars, builds>>

\* The first submission with this build's id takes the terminal status.
Resolved(r) ==
  LET subs == runs[r].submissions
      same == {i \in DOMAIN subs : subs[i].build = build[r]}
      first == CHOOSE i \in same : \A k \in same : i <= k
  IN  IF same = {} THEN subs ELSE [subs EXCEPT ![first].status = seen[r]]

Bug_Continues(r) == TRUE
Continues(r) == seen[r] = "succeeded"

Bug_SkipsLast(r) == job[r] + 1 >= NumJobs
Bug_RunsOver(r) == job[r] > NumJobs
LastJob(r) == job[r] = NumJobs

Settle(r) ==
  /\ tpc[r] = "settle"
  /\ Update(r, [runs[r] EXCEPT !.submissions = Resolved(r)])
  /\ \/ /\ ~Continues(r)
        /\ Goto(r, "fail")
        /\ UNCHANGED job
     \/ /\ Continues(r) /\ ~LastJob(r)
        /\ job' = [job EXCEPT ![r] = @ + 1]
        /\ Goto(r, "select")
     \/ /\ Continues(r) /\ LastJob(r)
        /\ Goto(r, "finish")
        /\ UNCHANGED job
  /\ UNCHANGED <<config, build, seen, polls, builds>>

\* The task ends, and its locals with it.
End(r) ==
  /\ Goto(r, "done")
  /\ job' = [job EXCEPT ![r] = 1]
  /\ build' = [build EXCEPT ![r] = 0]
  /\ seen' = [seen EXCEPT ![r] = "queued"]
  /\ polls' = [polls EXCEPT ![r] = 0]

Finish(r) ==
  /\ tpc[r] = "finish"
  /\ Update(r, [runs[r] EXCEPT !.status = "Succeeded", !.current = None])
  /\ End(r)
  /\ UNCHANGED <<config, builds>>

\* execute_plan returned an error: the wrapper in create_run or github_webhook.
Fail(r) ==
  /\ tpc[r] = "fail"
  /\ Update(r, [runs[r] EXCEPT !.status = "Failed", !.current = None])
  /\ End(r)
  /\ UNCHANGED <<config, builds>>

\* External: a build ends, if it ever does.
EndBuild(b) ==
  /\ builds[b].state = "queued"
  /\ \E s \in {"succeeded", "failed"} : builds' = [builds EXCEPT ![b].state = s]
  /\ UNCHANGED <<config, runs, tpc, taskVars>>

Quiescent ==
  /\ \A r \in Runs : tpc[r] \in Ended \/ ~Admits(config)
  /\ UNCHANGED vars

TaskStep(r) == \/ Spawn(r) \/ Begin(r) \/ Select(r) \/ Submit(r) \/ Record(r)
               \/ Poll(r) \/ Sleep(r) \/ Settle(r) \/ Finish(r) \/ Fail(r)

Next ==
  \/ \E r \in Runs : Insert(r) \/ TaskStep(r)
  \/ \E b \in DOMAIN builds : EndBuild(b)
  \/ Quiescent

Spec == Init /\ [][Next]_vars

\* Tokio polls every runnable task and the client's timeouts end every request;
\* callers and builds owe nothing.
FairSpec == Spec /\ \A r \in Runs : WF_vars(TaskStep(r))

-----------------------------------------------------------------------------
(* Properties *)

\* A run reported Succeeded recorded one submission per job, in order, and the
\* builds they name are builds of those jobs that really succeeded.
SuccessIsReal ==
  \A r \in Runs : runs[r] # None /\ runs[r].status = "Succeeded" =>
    LET subs == runs[r].submissions IN
    /\ Len(subs) = NumJobs
    /\ \A i \in Jobs :
         /\ subs[i].job = i /\ subs[i].status = "succeeded"
         /\ builds[subs[i].build] = [run |-> r, job |-> i, state |-> "succeeded"]

\* No job is submitted before the builds of all earlier jobs have succeeded,
\* whatever fails, times out or answers late (README.md:69).
DependentsWait ==
  \A b \in DOMAIN builds : \A i \in 1..builds[b].job - 1 :
    \E a \in DOMAIN builds :
      builds[a] = [run |-> builds[b].run, job |-> i, state |-> "succeeded"]

\* A run never creates two builds for a job, not even after an answer was lost.
EachJobBuiltOnce ==
  \A a, b \in DOMAIN builds :
    builds[a].run = builds[b].run /\ builds[a].job = builds[b].job => a = b

\* A run whose task is still working is retained and not reported as ended,
\* however many runs are inserted meanwhile, so that no update is lost.
WorkingRunsAreKept ==
  \A r \in Runs : tpc[r] \notin {"none"} \cup Ended =>
    runs[r] # None /\ runs[r].status \notin Terminal

\* A run accepted by a service that reports itself ready is started: it neither
\* fails before it ran nor vanishes from the table, although neither endpoint
\* asks for readiness, nor readiness for what a task will need.
ReadyRunsStart ==
  [][Ready(config) => \A r \in Runs :
       runs[r] # None /\ runs[r].status = "Queued" =>
         runs'[r] # None /\ runs'[r].status \in {"Queued", "Running"}]_vars

\* Every run that was accepted is reported as ended at last, even if its builds
\* never end (README.md:175, the terminal build wait bound).
RunsEnd ==
  \A r \in Runs : tpc[r] = "inserted" ~>
    (runs[r] = None \/ runs[r].status \in Terminal)
=============================================================================
