----------------------------- MODULE Continuity -----------------------------
(***************************************************************************)
(* The service and the router together: the runs of one plan, whose tasks  *)
(* submit the plan's jobs through POST /builds of the router and poll the  *)
(* builds through its GET /builds/:id.                                     *)
(*                                                                         *)
(* The router is the one of SubmitOnce, which ExecutorRouter implements.   *)
(* A call is the POST that a run's task makes for a job.  All runs of the  *)
(* plan use one requestId for a job, so that a run joins the submission of *)
(* another one.  Either service may restart alone; the executors, and the  *)
(* builds they host, live on.                                              *)
(***************************************************************************)
EXTENDS Naturals, Sequences, FiniteSets

CONSTANTS
  Runs, Configs, NumJobs, MaxRuns, \* as in RunCoordinator
  Executors, \* configured, enabled executors, which are treated alike
  Content,   \* repository, revision and profile, the same for every job
  MaxRestarts, \* bound on the restarts explored, of either service
  None

VARIABLES
  config, runs, tpc, job, build, seen, polls, \* RunCoordinator's
  asked, answer, bound, sends, verdict,           \* SubmitOnce's
  epoch,   \* ghost: how often the router has restarted
  posts,   \* every POST sent to an executor, and the build it made
  crashes  \* ghost: how often the service has restarted

runVars == <<config, runs, tpc, job, build, seen, polls>>
routerVars == <<asked, answer, bound, sends, verdict, epoch>>
vars == <<runVars, routerVars, posts, crashes>>

Jobs == 1..NumJobs
Calls == Runs \X Jobs

\* local: the id the executor gave the build, which is its own at that executor
\* only; with the executor's it makes the route id, for which n stands here.
Post == [id : Jobs, executor : Executors, epoch : 0..MaxRestarts, local : Nat,
         fate : {"wire", "refused", "queued", "succeeded", "failed"}]

Hosted == {n \in DOMAIN posts : posts[n].fate \notin {"wire", "refused"}}

\* The service's half, without its view of the build server.
Service == INSTANCE RunCoordinator WITH
  builds <- posts, MaxPolls <- 0, TimeoutOverflows <- FALSE

Router == INSTANCE SubmitOnce WITH RequestIds <- Jobs, Contents <- {Content}

\* What a call asks, what a requestId is bound to, and what it came to.
Request == [id : Jobs, content : {Content}]
Binding == [content : {Content}, executor : Executors]
Answer == [kind : {"notReady", "accepted", "rejected", "ambiguous"},
           executor : Executors \cup {0}, build : Nat]

ASSUME NumJobsAssumption == NumJobs \in Nat \ {0}
ASSUME MaxRestartsAssumption == MaxRestarts \in Nat
ASSUME NoneAssumption ==
  /\ None \notin Service!RunRecord /\ None \notin Jobs
  /\ None \notin Request /\ None \notin Binding /\ None \notin Answer

Init == Service!Init /\ Router!Init /\ epoch = 0 /\ crashes = 0

-----------------------------------------------------------------------------
(* Submitting a job *)

Call(r) == <<r, job[r]>>

Bug_RequestId(r) == 1
\* "gha-clone:{plan_id}:{job_id}", which does not depend on the run.
RequestId(r) == job[r]

\* The POST reaches the router.
Submit(r) ==
  /\ tpc[r] = "submit"
  /\ Router!Ask(Call(r)) /\ asked'[Call(r)].id = RequestId(r)
  /\ Service!Goto(r, "awaiting")
  /\ UNCHANGED <<config, runs, job, build, seen, polls, epoch, posts, crashes>>

\* The task takes the answer, and the call is over.
Answered(r) ==
  /\ tpc[r] = "awaiting"
  /\ answer[Call(r)] # None
  /\ \/ /\ answer[Call(r)].kind = "accepted"
        /\ build' = [build EXCEPT ![r] = answer[Call(r)].build]
        /\ Service!Goto(r, "record")
     \/ /\ answer[Call(r)].kind # "accepted"
        /\ Service!Goto(r, "fail")
        /\ UNCHANGED build
  /\ asked' = [asked EXCEPT ![Call(r)] = None]
  /\ answer' = [answer EXCEPT ![Call(r)] = None]
  /\ UNCHANGED <<config, runs, job, seen, polls, bound, sends, verdict, epoch,
                 posts, crashes>>

\* The POST does not reach the router, or the client's timeout or a lost
\* connection ends the wait for its answer; the router goes on regardless.
\* An answer that is lost on its way is one not given.
GiveUp(r) ==
  /\ tpc[r] \in {"submit", "awaiting"}
  /\ answer[Call(r)] = None
  /\ Service!Goto(r, "fail")
  /\ UNCHANGED <<config, runs, job, build, seen, polls, routerVars, posts, crashes>>

Awaited(c) == tpc[c[1]] = "awaiting" /\ job[c[1]] = c[2]

\* The router drops a call only after its client has gone.  Until it does, the
\* call goes on; to answer it is then the same as to drop it.
Leave(c) ==
  /\ ~Awaited(c)
  /\ Router!Leave(c)
  /\ UNCHANGED <<runVars, epoch, posts, crashes>>

-----------------------------------------------------------------------------
(* Polling a build *)

Bug_Named(n, id) == posts[n].local = posts[id].local
\* get_build asks the executor in the route id and takes only an answer that
\* names the very build it asked for.
Named(n, id) == /\ posts[n].executor = posts[id].executor
                /\ posts[n].local = posts[id].local

StatusAnswers(id) == {posts[n].fate : n \in {n \in Hosted : Named(n, id)}}

\* A status the router passes on; any other answer, no answer and the deadline,
\* which may pass before any poll, end the run, while its build goes on.
Poll(r) ==
  /\ tpc[r] = "poll"
  /\ \/ /\ Service!Goto(r, "fail")
        /\ UNCHANGED seen
     \/ \E status \in StatusAnswers(build[r]) :
          /\ seen' = [seen EXCEPT ![r] = status]
          /\ Service!Goto(r, Service!AfterStatus(status))
  /\ UNCHANGED <<config, runs, job, build, polls, routerVars, posts, crashes>>

-----------------------------------------------------------------------------
(* Everything else the two services do *)

Insert(r) == Service!Insert(r) /\ UNCHANGED <<routerVars, crashes>>

Work(r) ==
  /\ \/ Service!Spawn(r) \/ Service!Begin(r) \/ Service!Select(r)
     \/ Service!Record(r) \/ Service!Sleep(r) \/ Service!Settle(r)
     \/ Service!Finish(r) \/ Service!Fail(r)
  /\ UNCHANGED <<routerVars, crashes>>

\* One refusal that submits nothing stands for all of them.
Decline(c) ==
  /\ Awaited(c)
  /\ Router!Decline(c) /\ answer'[c].kind = "notReady"
  /\ UNCHANGED <<runVars, epoch, posts, crashes>>

\* All runs submit the same content for a job, so no answer is a conflict.
Tell(c) ==
  /\ Awaited(c)
  /\ Router!Tell(c)
  /\ UNCHANGED <<runVars, epoch, posts, crashes>>

Bind(j) == Router!Bind(j) /\ UNCHANGED <<runVars, epoch, posts, crashes>>

Sent(j) == [id |-> j, executor |-> bound[j].executor, epoch |-> epoch,
            local |-> 0, fate |-> "wire"]

\* A submission without a verdict is made again.
Bug_Send(j) ==
  /\ bound[j] # None /\ verdict[j] = None /\ Cardinality(sends[j]) < 2
  /\ sends' = [sends EXCEPT ![j] = @ \cup {Len(posts) + 1}]
  /\ posts' = Append(posts, Sent(j))
  /\ UNCHANGED <<runVars, asked, answer, bound, verdict, epoch, crashes>>
Send(j) ==
  /\ sends' = [sends EXCEPT ![j] = {Len(posts) + 1}]
  /\ Router!Send(j)
  /\ posts' = Append(posts, Sent(j))
  /\ UNCHANGED <<runVars, epoch, crashes>>

\* A 202 with a usable id tells that the build exists and a plain 4xx that it
\* never will; any other answer, and none, tells nothing.
Decide(j) ==
  /\ Router!Decide(j)
  /\ LET v == verdict'[j] IN
     /\ v.kind = "accepted" => v.build \in Hosted
     /\ v.kind = "rejected" => \A n \in sends[j] : posts[n].fate = "refused"
     /\ v.kind # "accepted" => v.build = 0
  /\ UNCHANGED <<runVars, epoch, posts, crashes>>

\* The router dies and comes back with an empty table.
Restart ==
  /\ epoch + crashes < MaxRestarts
  /\ epoch' = epoch + 1
  /\ Router!Forget
  /\ UNCHANGED <<runVars, posts, crashes>>

NextLocal(e) == Cardinality({n \in Hosted : posts[n].executor = e}) + 1

\* External: an executor takes a POST off the wire, whenever it was sent, and
\* queues a build or creates nothing.
Deliver(n) ==
  /\ posts[n].fate = "wire"
  /\ \/ posts' = [posts EXCEPT ![n].fate = "queued",
                               ![n].local = NextLocal(posts[n].executor)]
     \/ posts' = [posts EXCEPT ![n].fate = "refused"]
  /\ UNCHANGED <<runVars, routerVars, crashes>>

\* External: a build ends, if it ever does.
EndBuild(n) ==
  /\ posts[n].fate = "queued"
  /\ \E s \in {"succeeded", "failed"} : posts' = [posts EXCEPT ![n].fate = s]
  /\ UNCHANGED <<runVars, routerVars, crashes>>

\* The service dies and comes back without runs or tasks.
Crash ==
  /\ epoch + crashes < MaxRestarts
  /\ crashes' = crashes + 1
  /\ runs' = [r \in Runs |-> None]
  /\ tpc' = [r \in Runs |-> IF tpc[r] = "none" THEN "none" ELSE "done"]
  /\ job' = [r \in Runs |-> 1]
  /\ build' = [r \in Runs |-> 0]
  /\ seen' = [r \in Runs |-> "queued"]
  /\ polls' = [r \in Runs |-> 0]
  /\ UNCHANGED <<config, routerVars, posts>>

Quiescent ==
  /\ \A r \in Runs : tpc[r] \in Service!Ended
  /\ UNCHANGED vars

RunStep(r) == Work(r) \/ Submit(r) \/ Answered(r) \/ GiveUp(r) \/ Poll(r)

Next ==
  \/ \E r \in Runs : Insert(r) \/ RunStep(r)
  \/ \E c \in Calls : Leave(c) \/ Decline(c) \/ Tell(c)
  \/ \E j \in Jobs : Bind(j) \/ Send(j) \/ Decide(j)
  \/ \E n \in DOMAIN posts : Deliver(n) \/ EndBuild(n)
  \/ Restart \/ Crash
  \/ Quiescent

Spec == Init /\ [][Next]_vars

-----------------------------------------------------------------------------
(* Properties *)

SucceededBuild(n, j) == posts[n].id = j /\ posts[n].fate = "succeeded"

\* While a router runs, a job of the plan is built at most once, however many
\* runs of the plan there are, whatever they time out on, and however often the
\* service restarts (README.md:105).
BuiltOncePerRouter ==
  \A m, n \in Hosted :
    posts[m].id = posts[n].id /\ posts[m].epoch = posts[n].epoch => m = n

\* A run reported Succeeded recorded one build per job, in order, and each is a
\* build of that job which really succeeded at the executor it is pinned to,
\* whether this run or another submitted it and although the router restarted.
SuccessIsReal ==
  \A r \in Runs : runs[r] # None /\ runs[r].status = "Succeeded" =>
    LET subs == runs[r].submissions IN
    /\ Len(subs) = NumJobs
    /\ \A j \in Jobs : subs[j].job = j /\ SucceededBuild(subs[j].build, j)

\* No job is sent to an executor before every earlier job has a build that
\* succeeded: joining, restarts and late answers never let a dependent overtake.
DependentsWait ==
  \A n \in DOMAIN posts : \A j \in 1..posts[n].id - 1 :
    \E m \in Hosted : SucceededBuild(m, j)

ReportedAs(r) ==
  IF runs[r] = None THEN IF tpc[r] = "none" THEN "absent" ELSE "gone"
  ELSE CASE runs[r].status = "Succeeded" -> "succeeded"
         [] runs[r].status = "Failed" -> "failed"
         [] OTHER -> "open"

Names(fates) ==
  {[job |-> posts[n].id, incarnation |-> posts[n].epoch, name |-> n] :
     n \in {n \in DOMAIN posts : posts[n].fate \in fates}}

Promise == INSTANCE WorkflowRuns WITH
  status <- [r \in Runs |-> ReportedAs(r)],
  builds <- Names({"queued", "succeeded", "failed"}),
  good <- Names({"succeeded"}),
  bad <- Names({"failed"})

\* Service and router together keep WorkflowRuns' promise for the plan.
ImplementsWorkflowRuns == Promise!Spec
=============================================================================
