# gha-clone-server-rs: models, model checking and proofs

This directory specifies the two servers of this repository in TLA+:

- **gha-clone-server** (`src/main.rs`, `src/lib.rs`) plans GitHub workflows, and
  runs the ones its *independent lane* supports by submitting their jobs to a
  build server;
- **gha-executor-router** (`src/executor_router*.rs`) is a build server to its
  callers, and places each request on one of several real ones.

Paths are relative to the repository's root; line numbers are those of the
commit this was written from. `PROJECT.json` maps each definition to its lines.

## 1. Inventory

| Part | Source | State it keeps | Operations |
| --- | --- | --- | --- |
| Router: submission | `src/executor_router_service/assignment.rs`, `src/executor_router_service.rs` | `AppState.assignments`, a mutex around requestId → `Assignment` (request, executor, `outcome`, `Notify`) | `submit_build`, `await_assignment`, `wait_for_outcome`, `submit_to_executor` in a spawned task |
| Router: upstream | `src/executor_router_service/upstream.rs` | none | `first_ready_executor`, `executor_ready`, `get_build` |
| Router: validation | `src/executor_router.rs` | none | `validate_build_request`, executor specifications, namespaced build ids |
| Router: configuration, health, metrics | `src/executor_router_service.rs`, `security.rs` | configuration fixed at start, counters | `run`, read-only endpoints |
| Service: webhook | `src/main.rs:437-687`, `933-975` | `AppState.webhook_deliveries`, a lock around delivery UUID → `Instant` | `github_webhook`, `remember_webhook_delivery`, `prune_webhook_deliveries` |
| Service: runs | `src/main.rs:360-420`, `689-835`, `1037-1061` | `AppState.runs`, a lock around run UUID → `RunRecord` | `create_run`, `execute_plan`, `wait_for_build`, `update_run`, `prune_runs` |
| Planner: order | `src/lib.rs:512-572` | locals of one call | `validate_dependencies` |
| Planner: compilation | `src/lib.rs:150-510` | locals of one call | `build_plan`, `compile_job`, `classify_profile`, `classify_arc_lane` |
| Planner: ids, signatures, capabilities | `src/lib.rs` | none | hashing, HMAC, one constant answer |
| Service: configuration, readiness, authentication, GitHub fetch, read-only endpoints | `src/main.rs` | configuration fixed at start | — |

How they interact. `POST /v1/runs` and `POST /webhooks/github` call `build_plan`,
insert a `RunRecord`, and spawn `execute_plan`. That task walks
the plan's jobs in the order of `validate_dependencies`, sends each to
`POST /builds`, and polls `GET /builds/<id>` until the build ends. The build server may
be a gha-executor-router, which probes its executors in configured order,
claims the requestId in its table, spawns the task that posts to the executor, and
makes each copy of the call wait for that task's outcome through a `Notify`.
The requestId of a build is made of the plan and the job (`src/main.rs:723`), so all
runs of a plan share the router's assignments.
Nothing is persisted anywhere: a restart of either process forgets its tables, while
the other one, the executors and their builds go on.

What is hard:

- *Interleaving.* Copies of one requestId, of one delivery, and the tasks of many
  runs interleave at every `await`. The router looks into its table, probes for
  seconds, then claims; the webhook handler reads `now`, then waits for the lock.
- *Cancellation.* hyper drops a handler's future when its client leaves, at any
  `await`, while spawned tasks live on.
- *Unreliable calls.* A submission whose answer is lost may have been carried out.
- *Bounded tables.* The router's never evicts, the webhook's evicts by age and by
  size, the run table evicts ended runs only.
- *Restarts.* POSTs of a dead router may still arrive; the service drops the tasks of its
  runs wherever they are.
- *Two services with two sets of rules.* The planner decides what may be executed, the
  router what it takes, and the route id of a build is made in one call and taken apart
  in another.
- *Fail-closed planning.* About thirty places decide together that a plan may run.

What makes each part correct:

| Part | It must |
| --- | --- |
| Router | submit a requestId at most once per incarnation; give every copy the same verdict; call *accepted* only what was built and *rejected* only what never will be; keep to its final refusals; strand no caller |
| Webhook | dispatch a delivery once per retention window; call a delivery a duplicate only if it was claimed; keep its table bounded; start the runs of a delivery only once all its workflows are planned and it is claimed |
| Runs | start what a ready service accepted; report success only of builds that succeeded; submit no dependent early and no job twice; never lose a working run; end every run |
| Service and router | build a job once per incarnation of the router, however many runs of the plan there are; report success only of builds that succeeded where they were placed |
| Contract | start only with executors it can tell apart; take every job the planner calls executable; make route ids that lead back to one build |
| Order | order exactly the acyclic workflows, topologically and deterministically |
| Compilation | execute no plan with an excluded feature it looks for; give each job its most specific profile |

`PROJECT.json` lists each hazard at its line with the properties that would
catch it.

## 2. Modules

| Module | What it is |
| --- | --- |
| `ExecutorRouter` | `POST /builds` of the router: handlers, tasks, table, executors, restarts |
| `SubmitOnce` | the abstract promise of `POST /builds`: one binding, one submission, one verdict |
| `RouterRefinement` | the refinement mapping from `ExecutorRouter` to `SubmitOnce` |
| `RouterInvariant` | the inductive invariant of `ExecutorRouter` |
| `ExecutorRouterProofs`, `RouterRefinementProofs` | their theorems |
| `WebhookDispatch` | the webhook handler and its table of deliveries |
| `WebhookInvariant`, `WebhookDispatchProofs` | its inductive invariant and theorems |
| `RunCoordinator` | the run table and the tasks that execute plans |
| `CoordinatorInvariant`, `RunCoordinatorProofs` | its inductive invariant and theorems |
| `WorkflowRuns` | the abstract promise of service and router together about the runs of one plan |
| `Continuity` | service and router composed: `RunCoordinator`'s tasks over `SubmitOnce`'s router, the executors, and restarts of either service |
| `ContinuityInvariant`, `ContinuityProofs` | its inductive invariant, its theorems, and the refinement of `WorkflowRuns` |
| `RouterContract` | the router's validation: executor entries, build requests, route ids, the routing of `GET /builds` |
| `ContractInvariant`, `RouterContractProofs` | its inductive invariant and theorems |
| `DependencyOrder` | `validate_dependencies`, one step per turn of its loops |
| `OrderInvariant`, `DependencyOrderProofs` | its inductive invariant and theorems |
| `PlanCompiler` | `build_plan` as an operator from a request to a plan or errors |
| `PlanCompilerProofs` | its invariant and theorems |
| `MC*` | sets and symmetries for TLC |

A definition whose name starts with `Bug_` is a mistake a programmer could make in
the definition that follows it. No specification uses one: they are what the
properties are tried against (section 4).

### ExecutorRouter

`assignments`, `outcome` and `notified` are the table and what its shared
`Assignment`s hold; `pc`, `req`, `probe` and `ticket` are a handler's place and
locals; `task`, `wire` and `result` are those of the task of each assignment. The
steps are the code between two awaits or two operations on shared memory:

| Action | Code |
| --- | --- |
| `Refuse`, `Receive` | authentication, the disabled switch, JSON, `validate_build_request` |
| `Lookup` | `assignment_for`, and `await_assignment` if it finds one |
| `Probe` | one readiness probe: `claiming` when it is ready, else the next, else 503 |
| `Claim` | the critical section: second lookup, capacity, insertion |
| `Spawn` | `tokio::spawn` of the submission |
| `Register`, `Check`, `Wake` | one turn of `wait_for_outcome`: `notified()`, read the outcome, `.await` |
| `SendPost`, `Settle`, `Store`, `NotifyWaiters` | the task: POST, its classification, the store, `notify_waiters` |
| `Disconnect` | a handler's future dropped at one of `AwaitPoints` |
| `Deliver` | external: an executor builds or refuses a POST, at any time or never |
| `Restart` | the process dies and starts with an empty table |

tokio's `Notify` is modelled by what it promises: a `Notified` future is completed
by every `notify_waiters` after its creation. `ticket` records whether the call had
been made at creation, so that `Wake` is enabled exactly if it was made after.
A sleeping handler may also be dropped.

`posts` holds every POST ever made, `epoch` the incarnation, both ghosts as far as
the code is concerned: no guard of a handler or task of the code reads them,
except that `Settle` looks up the fate of its own POST, which is what the network
tells it. `Contents` stands for repository, revision and profile.
`Verdicts` is `submit_to_executor`'s classification: a 202 with a usable id is
accepted, a 4xx other than 429 is rejected, all else is ambiguous. It
includes the assumption that an executor that answers so has built, or
refused, as it says.

### WebhookDispatch

A copy fetches and plans `NumPaths` workflows (`Fetch`), passes the switches
(`Decide`, which also reads `now`), claims its delivery under the lock (`Claim`:
prune, look up, insert, prune) and starts a run per path (`Dispatch`). It may be
dropped while it awaits. Each delivery carries one of `Events`, the same in all its
copies; `WebhookPaths` chooses the workflows it is mirrored to, and only an event with
some is received. `RunSetsAreWhole` and `DuplicateWasClaimed` depend on the order of the steps from
`Fetch` to `Dispatch`: a claim before the plans are checked, or a run before the last fetch, breaks one of them. `Tick` is the monotonic clock. The entries of one instant
are pruned in the order of their UUIDs in the code; the model leaves that open.

### RunCoordinator

`config` is what the environment sets, as far as readiness (`Ready`), the checks of the
two endpoints that start runs (`Admits`) and `execute_plan` (`Configured`) look at it: the
three are computed apart in the code. `runs` is the run table; `tpc`, `job`, `build`, `seen` and `polls` are a task's
place and locals; `builds` is the build server's. Each `update_run`, HTTP call and
poll is a step. `Submit` covers the lost answer: an error with or without a build.
`Poll` may fail at any time (deadline, transport error, unknown or mismatching
status) and must after `MaxPolls`; `Sleep` is the pause between two requests, a step of
its own so that polling for ever is a behaviour fairness does not exclude. `TimeoutOverflows` is the configuration
whose deadline overflows `Instant`. Stamps are wall-clock milliseconds, which may
step or be equal, so `Pruned` may remove any of the ended runs.

### Continuity and WorkflowRuns

The variables are those of `RunCoordinator`, of `SubmitOnce`, and what lies between
them: `posts`, every POST sent to an executor with the build it made. Actions that
concern one service are that module's own action (`Insert`, `Work`, `Bind`, `Decline`,
`Tell`, ...); those at the seam are written here:

| Action | Code |
| --- | --- |
| `Submit`, `Answered`, `GiveUp` | the task's `POST /builds`, its answer, and the 60 s timeout or lost connection after which the router goes on alone |
| `Poll` | `wait_for_build` through `get_build`: a status only of the executor in the route id and only if it names that build; anything else fails the run |
| `Send`, `Decide` | the router's task: a POST on the wire to the bound executor, and the verdict it may draw from what became of it |
| `Deliver`, `EndBuild` | external: an executor takes a POST whenever it arrives, names the build as it likes, and ends it or not |
| `Restart`, `Crash` | the router, or the service, dies and comes back with empty tables |

The router is `SubmitOnce`, not `ExecutorRouter`: `Refinement` (section 5) proves that
every behaviour of the detailed router is one of the abstract one, for all values of
the constants, so safety shown over the abstract router holds over the detailed
one. With the detailed router the composition has several million states before any
fault. `WorkflowRuns` knows no requests, timeouts, polls or routers, only runs and
builds: in each incarnation of the router a job is built at most once, after all
earlier jobs have a build that succeeded, and a run is called Succeeded only if each job has one.

### RouterContract

One process starts with a list of executor entries or exits (`Start`), and is asked one
thing: to take the request the service makes of an executable job (`Submit`), to name the build
an executor accepted (`Place`), or for the status of an id (`Status`). Ids are
sequences of characters, because the question is whether two names joined by a tilde can
be told apart again; of all other names only what the validators tell apart is kept. `Char` is
a letter or digit, or one of the characters the rules name: the separator, the two marks an id
may hold, and one that no id may. `Materialized` keeps the enabled entries at their places in the
list, as the order of the executors is the order of probing. The
bounds 32 and 128 on ids are the constant `MaxIdLength`.

### DependencyOrder

Job ids are numbers in the order of their strings, the order of the code's
`BTreeMap`s. `Scan` counts the needs or refuses, `Seed` queues the jobs without
needs, `Pop` takes the next job or returns, `Release` counts one child off.

### PlanCompiler

A job's text is the set of words the classifiers look for, a reason is the name of
the feature it is about. `ProfileRows` and `LaneRows` are the two classifiers'
branches in the order the code tries them. A credential is a `Mention`: what it names, what
stands between the opening of its expression and that name, and whether a dot follows; `Detected` says which
of them `contains_secret_expression` finds, and only `env` and `with` are searched (a command with any
expression at all has a reason of its own). What the service cannot tell apart
(wording, YAML, lengths within the limits) is left out.

## 3. Runs

| Run | Instance | What it shows |
| --- | --- | --- |
| `router_safety` | 3 calls, 2 ids, 2 contents, 2 executors, 1 assignment | the safety properties of the router that one incarnation can break, and that it implements `SubmitOnce` |
| `router_restart` | 3 calls, 1 id, 1 content, 1 executor, 1 restart, fair | that a rejection stays true, the refinement holds across a restart, what is retained never changes, and `EveryCallEnds` |
| `router_not_ready` | 2 calls, 1 id, 1 executor | *violated*: finding 1 |
| `webhook_window` | 3 copies, 2 deliveries, 2 paths, each of 8 kinds of events, table of 1, TTL 2, clock to 3 | `DispatchedOncePerWindow`, `DuplicateWasClaimed`, `RetentionIsBounded`, `RunSetsAreWhole` |
| `webhook_cancelled` | 2 copies, 1 delivery | *violated*: finding 2 |
| `coordinator_runs` | 2 runs of 3 jobs, table of 1, 2 polls, one working configuration and all that stop every run or every build, fair | the safety of runs, pruning and readiness included, and `RunsEnd` |
| `coordinator_overflow` | 1 run of 1 job, overflowing timeout, fair | *violated*: finding 3 |
| `planner_order` | every `needs` of 4 jobs, with one unknown name | order, cycles, determinism, counts |
| `planner_gate` | up to 3 words, 2 labels, 2 keys, one mention of a credential in a job's environment and in a step, sequences of up to 3 jobs | what may be executed, and by which profile |
| `planner_unsupported` | the same | *violated*: finding 4 |
| `continuity` | 2 runs of 2 jobs, table of 1, 2 executors, 1 restart of either service | `BuiltOncePerRouter`, `SuccessIsReal`, `DependentsWait`, and that the whole implements `WorkflowRuns` |
| `router_contract` | every pair of valid executor entries and every single entry, ids of up to 3 and 2 characters, status ids of up to 4, all kinds of jobs | `ExecutableJobsAreTaken`, `RoutesLeadBack`, `OnlyRoutesAreFollowed`, `ExecutorsAreDistinct` |

Why the bounds are enough. In the router the interesting race is between one copy that claims,
one that looked up too early, and one that comes late or disagrees: three calls.
One assignment for two ids makes the table full; two executors make probing choose.
Two restarts add nothing one does not: what is remembered across one is
`posts` and the answers only. In the webhook a third copy, of another delivery,
evicts an entry of a table of one while two copies of the first race, and a
clock that passes the TTL expires it. Two runs over a table of one are an ended
or a working one at the insertion of another; the third job of a run depends on one that was itself a dependent.
The configurations that stop nothing behave alike after the insertion, so one stands for them.
In `continuity` one run meets what another left, after either service forgot it: two runs, two jobs, two
executors that name their builds alike, and one restart of
either service at any point. Two restarts, which the run leaves out, would let the router and the service fail one after the other. In `router_contract` the shortest names with each kind of character, and
one too long, take every branch of the validators, and each rule about two entries is about a pair. Four jobs are enough for a diamond, for a cycle behind an
acyclic part, and for two chains whose order must be decided. Profiles ask for at
most three words, and exclusions are decided one by one.

Calls, ids, contents, copies, deliveries and runs are compared for equality only,
so runs without liveness permute them. Runs with liveness use no symmetry. Deadlock is
checked in every run: a system with nothing left to do takes the stuttering action
`Quiescent`, `Returned`, `Planned` or `Rest`, and any other stop is an error. As a stuck
handler could still be disconnected, waiters are the subject of `NoLostWakeup` and
`EveryCallEnds`.

Fairness. `ExecutorRouter!Fairness` is weak fairness of each handler's and each
task's own steps. It is justified: tokio polls every runnable future, its mutex
is first come first served, and each probe and POST ends by `probe_timeout` or
`upstream_timeout`. A client, an executor and the operator owe nothing, so
`Receive`, `Disconnect`, `Deliver` and `Restart` are not fair. The same
holds in `RunCoordinator`: the client's timeouts end every request, and nothing makes a
build end. `EveryCallEnds` and `RunsEnd` are therefore about the code's own waiting,
not about the good will of its peers.

## 4. Properties and mutants

Each property of a passing run has a mutant in `PROJECT.json`: one definition of the
model replaced by its `Bug_` form, under which TLC finds that property violated.
Some worth reading:

- `Bug_Claimed`, no second lookup under the lock, breaks the refinement and
  `RetainedNeverChanges`;
- `Bug_Settle`, an ambiguous submission made again, breaks `AtMostOnePost` and the
  refinement;
- `Bug_Store`, notifying before storing, breaks `NoLostWakeup`;
- `Bug_AwaitPoints`, an await between claim and spawn, breaks `EveryClaimHasATask` and
  `EveryCallEnds`;
- `Bug_Verdicts`, any error taken for a rejection, breaks `RejectedMeansNoBuild`;
- `Bug_Decide`, a delivery claimed before its plans are found executable, breaks `DuplicateWasClaimed`;
- `Bug_FirstPath`, runs started before the last workflow is planned, breaks `RunSetsAreWhole`;
- `Bug_Full`, counting only assignments in flight, breaks `RefusalsAreFinal`;
- `Bug_RequestId`, one requestId for all jobs of a plan, breaks the refinement of
  `WorkflowRuns`: the build of one job passes for that of the next, and a run succeeds without it;
- `Bug_Named`, a status taken from any executor that knows a build of that name, breaks its `SuccessIsReal`;
- `Bug_Send`, the router submitting again what has no verdict yet, breaks `BuiltOncePerRouter`;
- `Bug_Clash`, two executors of one name, breaks `RoutesLeadBack`: the route id of one leads to the other;
- `Bug_ExecutionReady`, readiness without the build server's credential, breaks `ReadyRunsStart`;
- `Bug_AfterError`, retrying a submission whose answer was lost, breaks
  `EachJobBuiltOnce`.

## 5. Proofs

`tlapm` checks the theorems for all values of the constants that satisfy the
modules' named assumptions: any number of calls, ids, contents, executors,
assignments and restarts; any copies, deliveries and events; any runs, configurations and
plan lengths; any executor lists, ids and jobs; any requests to plan. The assumptions say what the code's types say: bounds are
natural numbers, the configurations keep the rule that rules name allow-listed
repositories, inputs are of the records the modules define, and `None` is none of the values it stands
for the absence of.

Each module's inductive invariant is called `IInv`. It is the proofs' own means: TLC
checked it on the module's instance while the proof was written, and no run repeats it. In every
proof module `Invariance` is `Spec => []IInv`, and the theorems that state properties follow from it.

*The router* (`ExecutorRouterProofs`). No property of the router is
inductive on its own: that nothing is posted twice needs `PostInv`, that a task
has posted iff its place says so, which needs `ClaimInv`, that one handler alone
is between a claim and its spawn, which needs `HandlerInv`, that a handler
that has joined agrees with the retained binding. Truth of the answers goes from the POST to the
task's `result` (`ResultInv`), to `outcome` (`TaskInv`), to a reply (`ReplyInv`); a
reply's truth is stated relative to the epoch of its request, which is what
carries it over `Restart`, when all but `posts` and the replies is forgotten. `FullInv` and
`RefusalsAreFinal` support each other: the table never shrinks. `TypeCorrect`, `OnePost`,
`OneVerdict`, `TruthfulAcceptance`,
`TruthfulRejection`, `FinalRefusals`, `NoOrphanedClaim`, `NoSleeperIsMissed` and
`RetentionIsFinal` follow.

*The router's refinement* (`RouterRefinementProofs`). `Refinement` proves `Spec => ImplementsSubmitOnce` from `IInv`,
step by step: `Claim` is `Bind`, `SendPost` is `Send`, `Settle` is `Decide`, a `Check` that finds an
outcome is `Tell`, a join that disagrees is `Conflict`, `Restart` is `Forget`, and the
rest stutters. A verdict is mapped to the task's `result`, decided before it is
stored, so that a crash between the two forgets what nobody was told.

*The webhook* (`WebhookDispatchProofs`). The hard one is `OneDispatchPerWindow`. Its invariant `WindowInv` gives, for each
claim ever made, why the table still has its stamp or may have forgotten it: its TTL has passed, or
claims of at least `MaxDeliveries` other deliveries are at least as recent (`Forgettable`). Both reasons
last, as the clock only advances and claims are only added. That an entry pruned by size has the second reason is
a counting argument over the table (`Held`, finite because it is bounded): whatever stays is at least as recent as what
goes. `DuplicatesAreClaimed`, `BoundedRetention`, `WholeRunSets` and `TypeCorrect` follow
from the same invariant. `CopyInv` ties the runs a copy started to the workflows it fetched, and
`ClaimInv` each claim to a copy that had fetched them all; `Known` is what a duplicate needs to know of the
claim that made it one: another copy made it, within the TTL, and was not declined.

*The runs* (`RunCoordinatorProofs`). `RecordOf` ties a task's place to its record, `OwnBuildOf` to the
build it waits for, `SubmissionsOf` to one succeeded submission for each earlier job, and `NotAhead`
keeps every build ever created, also those whose answer was lost, at or behind its task. A lost answer makes the task fail, so that
`tpc` leaves the places where `NotAhead` allows another build of the job: this is `OneBuildPerJob`. `RealSuccess` and
`JobsInOrder` follow; `NoWorkingRunIsPruned` from `RecordOf`, as pruning takes ended runs only; and
the action property `AcceptedRunsStart` because a ready configuration that admits runs is one that
`execute_plan` can start with.

*Service and router* (`ContinuityProofs`). Neither restart nor lateness can break `PostsInv`: each incarnation of the router
posts a job once, and whenever a job is posted all earlier jobs have a build that succeeded, which is never undone.
The second part is carried from the task to its call (`CallsInv`), to the router's binding (`TableInv`) and to the post, each of which may outlive the
one before. A build id is told in the opposite direction, and all of them name a build of their own job; that the
task polls that very build needs that executors never give two builds one id (`Named`), which is
why `PostsInv` counts the builds of each executor. `OneBuildPerRouter`, `DependentsNeverOvertake` and
`SucceededRunsAreReal` follow. `Refinement` proves `Spec => ImplementsWorkflowRuns`: `Insert` is
`Open`, the task's `Finish` and `Fail` are `Succeed` and `Fail`, a `Deliver` that builds is `Build`, `EndBuild` is itself, `Crash` is `Forget`, and the rest
stutters, the restart of the router included. With the router's own refinement, the chain
goes from the handlers, locks and tasks of the code up to `WorkflowRuns`, but for one
link: `Continuity` uses the actions of `SubmitOnce` and does not instantiate `ExecutorRouter`.

*The contract* (`RouterContractProofs`). `RouteBack` rests on `ParsedInverts`: the first tilde of a namespaced id is the
separator, because a valid executor name has none; the first one exists by well-foundedness of the
naturals. That the executor found by that name is the one the id was made of needs
that accepted entries have distinct names (`AcceptedExecutors`), so `DistinctExecutors` comes first. `OnlyRoutes` is
the converse, and `ExecutableJobs` a case distinction over what the planner lets through.

*The order* (`DependencyOrderProofs`). `IInv` of `OrderInvariant` adds to `CountsAreExact` what holds while the queue
is seeded, that pending children are the last ordered job's, and that whatever was ordered
comes after its needs. `Topological` follows as an accepted order has as many jobs as
there are and none twice. `RealCycle` takes the jobs never ordered for the cycle: their counts are not
zero, so each of them needs another that was not ordered. `TypeCorrect` includes
that no `indegree` goes below zero, which in the code would be an overflow panic, or a
wrapped count in a release build. `Deterministic` needs a second invariant, `SortedInv`, inductive relative to the
first: the ordered jobs followed by the queue are sorted by the place of a job's last need and then by
id, and the pending children come after all that the last ordered job already released. Where a last need
is, is stated as a relation (`LastAt`), so that the `CHOOSE`s of `LastNeed` are met only at the end.

*The compilation* (`PlanCompilerProofs`). A plan is `BuildPlan(request)` from the moment it exists. `ExclusionsHold` then goes through
the reasons, plan-wide, per job and per step, one exclusion at a time; of credentials it says which spellings are not among them: finding 4 is
that such spellings exist. `LanesAndProfilesAgree` follows from what it takes to be
supported, and `MostSpecificProfile` from the order of
`ProfileRows`: a row that asks for all that another one asks for, and more, comes before it.

Only model-checked: `EveryCallEnds` and `RunsEnd`, as liveness under fairness is out
of the prover's reach. The four runs that find a violation have nothing to prove. Every other property of a run is stated by a
theorem.

## 6. Findings

1. **503 with `"submissionAttempted": false` after a submission** (`router_not_ready`).
   When all its probes fail, a handler answers without a second look into
   the table (`src/executor_router_service/assignment.rs:59-66`). Another copy may have claimed and posted meanwhile.
   A retry is still safe, as it joins the assignment.
2. **"Already dispatched" deliveries that were not** (`webhook_cancelled`). The claim
   (`src/main.rs:611`) precedes the insertion of the runs (`:643`), past an await. A handler dropped
   there leaves a claim without runs, and redeliveries are duplicates for the TTL.
3. **Runs that never end** (`coordinator_overflow`). `Instant::now() +
   Duration::from_secs(n)` (`src/main.rs:799`) panics for huge configured `n`; the task
   is not joined, and its run stays `Running` and unprunable.
4. **Advertised as unsupported, but executed** (`planner_unsupported`). `src/lib.rs:143` lists KVM as
   unsupported; `compile_job` has no reason for it, so a job with a `kvm` label and a
   recognised command is executable although its lane is `sonus-android-kvm`. The same list and README.md:143
   exclude secrets ("secret/OIDC expressions in `env`, `with`, or commands"), but `contains_secret_expression`
   (`src/lib.rs:604`) looks for `${{ secrets.`, `${{secrets.`, `github.token` and `actions_id_token_request`
   only: a job with `${{ secrets['X'] }}` or `${{ toJSON(secrets) }}` in `env` or `with` is executable. The
   expression is not sent on: a build request holds a repository, a revision and a profile.
   TLC stops at the first such plan; each half of `UnsupportedIsRefused` fails alone as well.

Seen while modelling, and not the subject of a run:

- `classify_profile` takes the first profile whose evidence occurs anywhere in a job's
  joined commands. A job with `cargo test` and `pytest` runs as `rust-verify` alone.
- Eviction by size (`src/main.rs:963`) forgets a claim while copies of its delivery are
  still in their handlers; `DispatchedOncePerWindow` states what remains true of
  README.md:129, "at most one independent run set".
- The planner takes an upper-case SHA for immutable and the router does not, and the planner takes
  `.` and `..` for an owner or a repository: `ExecutableJobsAreTaken` names the two exceptions. Such a plan is
  executable and fails at its first submission.
- A build's requestId is a function of plan and job, not of the run: a run may take up a build that
  another run submitted and gave up on. `Continuity` shows that this is sound, and that it is what keeps a job
  from being built twice when the service's client, which waits 60 s, gives up on a router that may still be
  probing or waiting. The other side of it is that a retained ambiguous outcome fails every run of
  the plan until the router restarts.
- A push or a pull request starts runs whether or not GitHub's own runs fail (`src/main.rs:881-883`); only a
  `workflow_run` event has to name a failure. The choice is one condition on one event, so it is
  part of the model (`WebhookPaths`) and the subject of no property.
- One failed status request ends a run (`src/main.rs:807-824`) while its build goes on.
- Executors' URLs are compared as spelled, except for a trailing slash (`src/executor_router.rs:273`): the case
  of a host and a default port make one origin two.

## 7. Not modelled

- Reading variables and secret files, authentication, health, metrics and capabilities: read
  once or read only. What they decide is in the CONSTANTS, in `RunCoordinator`'s `Config`, in
  `RouterContract`'s entries, or a refusal.
- Hashing and HMAC; that a plan's id depends on the plan alone is assumed by `Continuity`.
- A reconfigured router: across `Restart` the executors stay the same.
- The executors, the build server and GitHub, except for what they may do to a caller.
- Scripts, the container image, the entry points and the example: not part of the
  running system.

## 8. Plan

Done, in this order: the router with its promise, refinement and proofs; the webhook, and later its
choice of workflows; the runs, and later their configuration; the order with its proofs; the compilation;
service and router together with their promise; the router's contract; then the proofs about all
of them, the refinement of `WorkflowRuns` last.

Next, proving:

1. That `RunCoordinator`'s task, over a build server that builds each requestId once, is what `Continuity`
   composes: the mapping of `builds` to the posts of one run.
2. That service and router keep `WorkflowRuns` with `SubmitOnce` replaced by `ExecutorRouter`, from
   `RouterRefinementProofs`, once the handlers of the router are tied to the runs' calls.
3. For the router, that a restart loses nothing that was answered (`Promise!Forget` seen from a caller),
   as an action property.
