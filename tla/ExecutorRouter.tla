--------------------------- MODULE ExecutorRouter ---------------------------
(***************************************************************************)
(* POST /builds of gha-executor-router: concurrent copies of a request,    *)
(* keyed by requestId, must reach at most one executor, and every copy     *)
(* must be given the one answer that submission had.                       *)
(*                                                                         *)
(* The atomic steps are the code between two await points or two           *)
(* operations on shared memory.  A handler is one HTTP call; a task is the *)
(* future submit_build spawns for an inserted assignment.  hyper drops a   *)
(* handler's future when its client disconnects (Disconnect), a spawned    *)
(* task outlives it, and nothing in memory outlives Restart.               *)
(***************************************************************************)
EXTENDS Naturals, Sequences, FiniteSets

CONSTANTS
  Handlers,         \* the POST /builds calls, each used once
  RequestIds,       \* requestId values
  Contents,         \* (repository, revision, profile) of a valid request
  NumExecutors,     \* configured, enabled executors, in configured order
  MaxAssignments,   \* max_assignments
  ExecutionEnabled, \* execution_enabled
  MaxRestarts,      \* bound on the restarts explored
  None              \* no request, assignment, outcome or reply

Executors == 1..NumExecutors

Request == [id : RequestIds, content : Contents, epoch : Nat]
Assignment == [content : Contents, executor : Executors]
Post == [id : RequestIds, content : Contents, executor : Executors,
         epoch : Nat, fate : {"wire", "built", "refused"}]

\* AssignmentOutcome: what submit_to_executor makes of the upstream answer.
VerdictKinds == {"accepted", "rejected", "ambiguous"}
Answer == [kind : {"unauthorized", "disabled", "malformed", "invalid",
                   "conflict", "notReady", "full"} \cup VerdictKinds,
           executor : 0..NumExecutors,   \* executorId, 0 when not given
           build : Nat]                  \* the build a route id names, or 0

ASSUME NumExecutorsAssumption == NumExecutors \in Nat \ {0}
ASSUME MaxAssignmentsAssumption == MaxAssignments \in Nat \ {0}
ASSUME ExecutionEnabledAssumption == ExecutionEnabled \in BOOLEAN
ASSUME MaxRestartsAssumption == MaxRestarts \in Nat
ASSUME NoneAssumption == /\ None \notin Request
                         /\ None \notin Assignment
                         /\ None \notin Answer

VARIABLES
  pc,          \* where each handler is
  req,         \* the handler's validated request; its epoch is a ghost
  probe,       \* the executor the handler probes, then the ready one
  ticket,      \* had notify_waiters run when notified() was created
  reply,       \* the HTTP answer
  assignments, \* AppState.assignments
  outcome,     \* Assignment.outcome
  notified,    \* Assignment.notify: has notify_waiters been called
  task,        \* where each assignment's spawned task is
  wire,        \* the task's POST, an index of posts, or 0
  result,      \* what submit_to_executor returned to the task
  posts,       \* every POST sent to an executor, and what became of it
  epoch        \* ghost: which incarnation of the process this is

handlerVars == <<pc, req, probe, ticket, reply>>
tableVars == <<assignments, outcome, notified>>
taskVars == <<task, wire, result>>
vars == <<handlerVars, tableVars, taskVars, posts, epoch>>

TypeOK ==
  /\ pc \in [Handlers -> {"idle", "lookup", "probing", "claiming", "claimed",
                          "register", "checking", "parked", "replied", "gone"}]
  /\ req \in [Handlers -> Request \cup {None}]
  /\ probe \in [Handlers -> Executors]
  /\ ticket \in [Handlers -> BOOLEAN]
  /\ reply \in [Handlers -> Answer \cup {None}]
  /\ assignments \in [RequestIds -> Assignment \cup {None}]
  /\ outcome \in [RequestIds -> Answer \cup {None}]
  /\ notified \in [RequestIds -> BOOLEAN]
  /\ task \in [RequestIds ->
                 {"none", "spawned", "posted", "settled", "stored", "done"}]
  /\ wire \in [RequestIds -> Nat]
  /\ result \in [RequestIds -> Answer \cup {None}]
  /\ posts \in Seq(Post)
  /\ epoch \in Nat

Init ==
  /\ pc = [h \in Handlers |-> "idle"]
  /\ req = [h \in Handlers |-> None]
  /\ probe = [h \in Handlers |-> 1]
  /\ ticket = [h \in Handlers |-> FALSE]
  /\ reply = [h \in Handlers |-> None]
  /\ assignments = [id \in RequestIds |-> None]
  /\ outcome = [id \in RequestIds |-> None]
  /\ notified = [id \in RequestIds |-> FALSE]
  /\ task = [id \in RequestIds |-> "none"]
  /\ wire = [id \in RequestIds |-> 0]
  /\ result = [id \in RequestIds |-> None]
  /\ posts = <<>>
  /\ epoch = 0

-----------------------------------------------------------------------------
(* Handlers *)

Say(kind, e, b) == [kind |-> kind, executor |-> e, build |-> b]

Goto(h, at) == pc' = [pc EXCEPT ![h] = at]

Respond(h, answer) ==
  /\ Goto(h, "replied")
  /\ reply' = [reply EXCEPT ![h] = answer]

\* The answers given before the table is consulted, none of which depends on
\* it: authentication, the disabled switch, JSON, validate_build_request.
Refusals ==
  IF ExecutionEnabled THEN {"unauthorized", "malformed", "invalid"}
                      ELSE {"unauthorized", "disabled"}

Refuse(h) ==
  /\ pc[h] = "idle"
  /\ \E kind \in Refusals : Respond(h, Say(kind, 0, 0))
  /\ UNCHANGED <<req, probe, ticket, tableVars, taskVars, posts, epoch>>

Receive(h) ==
  /\ pc[h] = "idle"
  /\ ExecutionEnabled
  /\ \E id \in RequestIds, c \in Contents :
       req' = [req EXCEPT ![h] = [id |-> id, content |-> c, epoch |-> epoch]]
  /\ Goto(h, "lookup")
  /\ UNCHANGED <<probe, ticket, reply, tableVars, taskVars, posts, epoch>>

\* await_assignment, up to the wait: the request must equal the retained one.
Bug_SameBinding(h) == TRUE
SameBinding(h) == assignments[req[h].id].content = req[h].content

Join(h) ==
  \/ /\ SameBinding(h)
     /\ Goto(h, "register")
     /\ UNCHANGED reply
  \/ /\ ~SameBinding(h)
     /\ Respond(h, Say("conflict", assignments[req[h].id].executor, 0))

Lookup(h) ==
  /\ pc[h] = "lookup"
  /\ \/ /\ assignments[req[h].id] # None
        /\ Join(h)
     \/ /\ assignments[req[h].id] = None
        /\ Goto(h, "probing")
        /\ UNCHANGED reply
  /\ UNCHANGED <<req, probe, ticket, tableVars, taskVars, posts, epoch>>

Bug_MoreExecutors(h) == probe[h] <= NumExecutors
MoreExecutors(h) == probe[h] < NumExecutors

\* One readiness probe: its answer (or probe_timeout) is the environment's.
Probe(h) ==
  /\ pc[h] = "probing"
  /\ \/ /\ Goto(h, "claiming")
        /\ UNCHANGED <<probe, reply>>
     \/ /\ MoreExecutors(h)
        /\ probe' = [probe EXCEPT ![h] = @ + 1]
        /\ UNCHANGED <<pc, reply>>
     \/ /\ ~MoreExecutors(h)
        /\ Respond(h, Say("notReady", 0, 0))
        /\ UNCHANGED probe
  /\ UNCHANGED <<req, ticket, tableVars, taskVars, posts, epoch>>

\* The table as the claiming critical section sees it.
Bug_Claimed(id) == FALSE
Claimed(id) == assignments[id] # None

Bug_Full ==
  Cardinality({id \in RequestIds : assignments[id] # None /\ outcome[id] = None})
    >= MaxAssignments
Full == Cardinality({id \in RequestIds : assignments[id] # None}) >= MaxAssignments

Insert(h) ==
  LET id == req[h].id IN
  /\ assignments' = [assignments EXCEPT ![id] =
                       [content |-> req[h].content, executor |-> probe[h]]]
  /\ outcome' = [outcome EXCEPT ![id] = None]
  /\ notified' = [notified EXCEPT ![id] = FALSE]

Claim(h) ==
  /\ pc[h] = "claiming"
  /\ \/ /\ Claimed(req[h].id)
        /\ Join(h)
        /\ UNCHANGED tableVars
     \/ /\ ~Claimed(req[h].id)
        /\ Full
        /\ Respond(h, Say("full", 0, 0))
        /\ UNCHANGED tableVars
     \/ /\ ~Claimed(req[h].id)
        /\ ~Full
        /\ Insert(h)
        /\ Goto(h, "claimed")
        /\ UNCHANGED reply
  /\ UNCHANGED <<req, probe, ticket, taskVars, posts, epoch>>

Spawn(h) ==
  /\ pc[h] = "claimed"
  /\ task' = [task EXCEPT ![req[h].id] = "spawned"]
  /\ Goto(h, "register")
  /\ UNCHANGED <<req, probe, ticket, reply, tableVars, wire, result, posts, epoch>>

\* wait_for_outcome: notified() is created, then the outcome is read, then the
\* handler sleeps unless notify_waiters ran since notified() was created.
Register(h) ==
  /\ pc[h] = "register"
  /\ ticket' = [ticket EXCEPT ![h] = notified[req[h].id]]
  /\ Goto(h, "checking")
  /\ UNCHANGED <<req, probe, reply, tableVars, taskVars, posts, epoch>>

Bug_OutcomeResponse(h) == [outcome[req[h].id] EXCEPT !.executor = probe[h]]
OutcomeResponse(h) == outcome[req[h].id]

Check(h) ==
  /\ pc[h] = "checking"
  /\ \/ /\ outcome[req[h].id] # None
        /\ Respond(h, OutcomeResponse(h))
     \/ /\ outcome[req[h].id] = None
        /\ Goto(h, "parked")
        /\ UNCHANGED reply
  /\ UNCHANGED <<req, probe, ticket, tableVars, taskVars, posts, epoch>>

Wake(h) ==
  /\ pc[h] = "parked"
  /\ notified[req[h].id] # ticket[h]
  /\ Goto(h, "register")
  /\ UNCHANGED <<req, probe, ticket, reply, tableVars, taskVars, posts, epoch>>

\* A handler can be dropped only where it awaits; from the insertion to the
\* spawn, and from joining to notified(), it does not.
Bug_AwaitPoints == {"lookup", "probing", "claiming", "claimed", "checking", "parked"}
AwaitPoints == {"lookup", "probing", "claiming", "checking", "parked"}

Disconnect(h) ==
  /\ pc[h] \in AwaitPoints
  /\ Goto(h, "gone")
  /\ UNCHANGED <<req, probe, ticket, reply, tableVars, taskVars, posts, epoch>>

-----------------------------------------------------------------------------
(* The spawned task of an assignment, and the executor it posts to *)

SendPost(id) ==
  /\ task[id] = "spawned"
  /\ posts' = Append(posts, [id |-> id, content |-> assignments[id].content,
                             executor |-> assignments[id].executor,
                             epoch |-> epoch, fate |-> "wire"])
  /\ wire' = [wire EXCEPT ![id] = Len(posts) + 1]
  /\ task' = [task EXCEPT ![id] = "posted"]
  /\ UNCHANGED <<handlerVars, tableVars, result, epoch>>

\* External: an executor takes a POST off the wire, at any time after it was
\* sent and perhaps never, and either creates build n or creates nothing.
Deliver(n) ==
  /\ posts[n].fate = "wire"
  /\ \E fate \in {"built", "refused"} :
       posts' = [posts EXCEPT ![n].fate = fate]
  /\ UNCHANGED <<handlerVars, tableVars, taskVars, epoch>>

\* The answers that may come back for POST n.  A 202 with a usable id says that
\* the build exists, a 4xx other than 429 that it does not; a transport error,
\* a timeout, any other status and an unusable 202 body say nothing.
Bug_Verdicts(n) ==
  LET e == posts[n].executor
  IN  {Say("rejected", e, 0)}
        \cup (IF posts[n].fate = "built" THEN {Say("accepted", e, n)} ELSE {})
Verdicts(n) ==
  LET e == posts[n].executor
  IN  {Say("ambiguous", e, 0)}
        \cup (IF posts[n].fate = "built" THEN {Say("accepted", e, n)} ELSE {})
        \cup (IF posts[n].fate = "refused" THEN {Say("rejected", e, 0)} ELSE {})

\* A submission without a verdict is made again.
Bug_Settle(id) ==
  /\ task[id] = "posted"
  /\ \/ /\ \E v \in Verdicts(wire[id]) \ {Say("ambiguous", posts[wire[id]].executor, 0)} :
             result' = [result EXCEPT ![id] = v]
        /\ task' = [task EXCEPT ![id] = "settled"]
     \/ /\ task' = [task EXCEPT ![id] = "spawned"]
        /\ UNCHANGED result
  /\ UNCHANGED <<handlerVars, tableVars, wire, posts, epoch>>
Settle(id) ==
  /\ task[id] = "posted"
  /\ \E v \in Verdicts(wire[id]) : result' = [result EXCEPT ![id] = v]
  /\ task' = [task EXCEPT ![id] = "settled"]
  /\ UNCHANGED <<handlerVars, tableVars, wire, posts, epoch>>

\* Waiters notified before the outcome is stored.
Bug_Store(id) ==
  /\ task[id] = "settled"
  /\ \/ /\ ~notified[id]
        /\ notified' = [notified EXCEPT ![id] = TRUE]
        /\ UNCHANGED <<outcome, task>>
     \/ /\ notified[id]
        /\ outcome' = [outcome EXCEPT ![id] = result[id]]
        /\ task' = [task EXCEPT ![id] = "stored"]
        /\ UNCHANGED notified
  /\ UNCHANGED <<handlerVars, assignments, wire, result, posts, epoch>>
Store(id) ==
  /\ task[id] = "settled"
  /\ outcome' = [outcome EXCEPT ![id] = result[id]]
  /\ task' = [task EXCEPT ![id] = "stored"]
  /\ UNCHANGED <<handlerVars, assignments, notified, wire, result, posts, epoch>>

NotifyWaiters(id) ==
  /\ task[id] = "stored"
  /\ notified' = [notified EXCEPT ![id] = TRUE]
  /\ task' = [task EXCEPT ![id] = "done"]
  /\ UNCHANGED <<handlerVars, assignments, outcome, wire, result, posts, epoch>>

-----------------------------------------------------------------------------
\* The process dies and comes back with an empty table; executors, and the
\* POSTs already sent to them, live on.
Restart ==
  /\ epoch < MaxRestarts
  /\ epoch' = epoch + 1
  /\ pc' = [h \in Handlers |-> IF pc[h] \in {"idle", "replied"} THEN pc[h]
                               ELSE "gone"]
  /\ assignments' = [id \in RequestIds |-> None]
  /\ outcome' = [id \in RequestIds |-> None]
  /\ notified' = [id \in RequestIds |-> FALSE]
  /\ task' = [id \in RequestIds |-> "none"]
  /\ wire' = [id \in RequestIds |-> 0]
  /\ result' = [id \in RequestIds |-> None]
  /\ UNCHANGED <<req, probe, ticket, reply, posts>>

\* Every call has ended and every task has run: the server idles.
Quiescent ==
  /\ \A h \in Handlers : pc[h] \in {"replied", "gone"}
  /\ \A id \in RequestIds : task[id] \in {"none", "done"}
  /\ UNCHANGED vars

HandlerStep(h) == \/ Lookup(h) \/ Probe(h) \/ Claim(h) \/ Spawn(h)
                  \/ Register(h) \/ Check(h) \/ Wake(h)

TaskStep(id) == SendPost(id) \/ Settle(id) \/ Store(id) \/ NotifyWaiters(id)

Next ==
  \/ \E h \in Handlers : Refuse(h) \/ Receive(h) \/ HandlerStep(h) \/ Disconnect(h)
  \/ \E id \in RequestIds : TaskStep(id)
  \/ \E n \in DOMAIN posts : Deliver(n)
  \/ Restart
  \/ Quiescent

Spec == Init /\ [][Next]_vars

\* Tokio polls every runnable future, its mutex is first come first served,
\* and each probe and POST ends by probe_timeout or upstream_timeout; clients,
\* executors and the process manager owe nothing.
Fairness == /\ \A h \in Handlers : WF_vars(HandlerStep(h))
            /\ \A id \in RequestIds : WF_vars(TaskStep(id))

FairSpec == Spec /\ Fairness

-----------------------------------------------------------------------------
(* Properties *)

HasVerdict(h) == reply[h] # None /\ reply[h].kind \in VerdictKinds
Replied(h, kind) == reply[h] # None /\ reply[h].kind = kind

\* No requestId is submitted twice by one incarnation of the router, however
\* lookups, probes, claims, tasks and disconnects of its copies interleave.
AtMostOnePost ==
  \A m, n \in DOMAIN posts :
    posts[m].id = posts[n].id /\ posts[m].epoch = posts[n].epoch => m = n

\* All copies of a request that are told the outcome of the submission are told
\* the same one, and requests of different content never share an outcome.
VerdictsAgree ==
  \A g, h \in Handlers :
    HasVerdict(g) /\ HasVerdict(h)
      /\ req[g].id = req[h].id /\ req[g].epoch = req[h].epoch
    => reply[g] = reply[h] /\ req[g].content = req[h].content

\* A 202 names a build that exists, on the executor the route id pins, and that
\* was submitted for this very request.
AcceptedIsBuilt ==
  \A h \in Handlers : Replied(h, "accepted") =>
    \E n \in DOMAIN posts :
      /\ n = reply[h].build
      /\ posts[n] = [id |-> req[h].id, content |-> req[h].content,
                     executor |-> reply[h].executor, epoch |-> req[h].epoch,
                     fate |-> "built"]

\* A rejection is the truth for ever: no executor builds, however late the POST
\* arrives, what a client was told is rejected.
RejectedMeansNoBuild ==
  \A h \in Handlers : Replied(h, "rejected") =>
    \A n \in DOMAIN posts :
      posts[n].id = req[h].id /\ posts[n].epoch = req[h].epoch
        => posts[n].fate = "refused"

\* The refusals the router calls not retryable stay right while it runs: a
\* requestId refused for capacity is never submitted later, and one refused as a
\* conflict remains bound to other content.
RefusalsAreFinal ==
  \A h \in Handlers : reply[h] # None /\ req[h] # None /\ req[h].epoch = epoch =>
    LET a == assignments[req[h].id] IN
    /\ reply[h].kind = "full" => a = None
    /\ reply[h].kind = "conflict" => a # None /\ a.content # req[h].content

\* Between a claim and its task there is always a live handler about to spawn
\* it, so that no copy can wait for a submission nobody makes.
EveryClaimHasATask ==
  \A id \in RequestIds : assignments[id] # None /\ task[id] = "none" =>
    \E h \in Handlers : pc[h] = "claimed" /\ req[h].id = id

\* A handler that sleeps after its assignment's waiters were notified is one
\* that the notification wakes.
NoLostWakeup ==
  \A h \in Handlers :
    pc[h] = "parked" /\ notified[req[h].id] => notified[req[h].id] # ticket[h]

\* What an incarnation retains for a requestId, its binding and its outcome,
\* never changes once set.
RetainedNeverChanges ==
  [][\A id \in RequestIds : epoch' = epoch =>
       /\ assignments[id] # None => assignments'[id] = assignments[id]
       /\ outcome[id] # None => outcome'[id] = outcome[id]]_vars

\* Every valid call is answered unless its client leaves or the router dies.
EveryCallEnds ==
  \A h \in Handlers : pc[h] = "lookup" ~> pc[h] \in {"replied", "gone"}

\* assignment.rs:66 answers "submissionAttempted": false when no executor is
\* ready: then nothing may have been submitted for the requestId.
NotReadyMeansNotAttempted ==
  [][\A h \in Handlers : ~Replied(h, "notReady") /\ Replied(h, "notReady")' =>
       \A n \in DOMAIN posts :
         ~(posts[n].id = req[h].id /\ posts[n].epoch = epoch)]_vars

=============================================================================
