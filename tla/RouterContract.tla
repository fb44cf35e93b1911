--------------------------- MODULE RouterContract ---------------------------
(***************************************************************************)
(* What gha-executor-router accepts: the executors it starts with, the     *)
(* build requests it takes from the service, and the route ids it makes of *)
(* its executors' build ids and takes apart again in GET /builds/:id.      *)
(*                                                                         *)
(* A name is what the validators tell apart.  Only ids are sequences of    *)
(* characters, since the question is whether two of them, joined by a      *)
(* tilde, can be told apart again.                                         *)
(***************************************************************************)
EXTENDS Naturals, Sequences, FiniteSets

CONSTANTS
  SpecLists,     \* the GHA_EXECUTOR_ROUTER_EXECUTORS_JSON values explored
  UpstreamIds,   \* the ids executors answer with
  StatusIds,     \* the ids GET /builds/:id is asked for
  Jobs,          \* the jobs the service is asked to run
  MaxExecutors,  \* max_executors, as read from its variable
  MaxIdLength,   \* 32 and 128: the longest ids of executors and of builds
  None

ASSUME MaxExecutorsAssumption == MaxExecutors \in Nat
ASSUME MaxIdLengthAssumption == MaxIdLength \in [executor : Nat, upstream : Nat]

Alnum == {"a", "b"}
Char == Alnum \cup {"-", ".", "~", "/"}   \* "/" stands for every other character
Id == Seq(Char)
Url == [scheme : STRING, host : STRING, slash : BOOLEAN, flaw : STRING \cup {None}]
Auth == [path : STRING, name : STRING, file : STRING]
ExecutorSpec == [id : Id, enabled : BOOLEAN, url : Url \cup {None}, auth : Auth \cup {None}]
PlannedJob == [repo : Seq(STRING), revision : STRING, idLength : Nat,
               profile : STRING \cup {None}]

ASSUME SpecListsAssumption == SpecLists \subseteq Seq(ExecutorSpec)
ASSUME IdsAssumption == UpstreamIds \subseteq Id /\ StatusIds \subseteq Id
ASSUME JobsAssumption == Jobs \subseteq PlannedJob
ASSUME NoneAssumption == None \notin [executor : Id, upstream : Id]

VARIABLES
  phase,     \* of the router's process: starting, serving or exited
  specs,     \* the executors configured
  enabled,   \* execution_enabled
  executors, \* Config.executors
  asked,     \* what the router was asked
  answer     \* and what it made of it

vars == <<phase, specs, enabled, executors, asked, answer>>

-----------------------------------------------------------------------------
(* Ids *)

Over(id, chars) == \A i \in DOMAIN id : id[i] \in chars

ValidExecutorId(id) ==
  /\ Len(id) \in 1..MaxIdLength.executor
  /\ id[1] \in Alnum /\ id[Len(id)] \in Alnum
  /\ Over(id, Alnum \cup {"-"})

ValidUpstreamId(id) ==
  Len(id) \in 1..MaxIdLength.upstream /\ Over(id, Alnum \cup {"-", "."})

\* namespace_build_id
Namespaced(executor, upstream) ==
  IF ValidExecutorId(executor) /\ ValidUpstreamId(upstream)
  THEN executor \o <<"~">> \o upstream ELSE <<>>

\* The parts before the first and the second tilde.
Bug_Parsed(id) ==
  LET tildes == {i \in DOMAIN id : id[i] = "~"} \cup {Len(id) + 1}
      at == CHOOSE i \in tildes : \A k \in tildes : i <= k
      end == CHOOSE i \in tildes : i > at /\ \A k \in tildes : k > at => i <= k
      executor == SubSeq(id, 1, at - 1)
      upstream == SubSeq(id, at + 1, end - 1)
  IN  IF /\ Cardinality(tildes) > 1
         /\ ValidExecutorId(executor) /\ ValidUpstreamId(upstream)
      THEN [executor |-> executor, upstream |-> upstream] ELSE None
\* parse_namespaced_build_id, which splits at the first tilde.
Parsed(id) ==
  LET tildes == {i \in DOMAIN id : id[i] = "~"}
      at == CHOOSE i \in tildes : \A k \in tildes : i <= k
      executor == SubSeq(id, 1, at - 1)
      upstream == SubSeq(id, at + 1, Len(id))
  IN  IF tildes # {} /\ ValidExecutorId(executor) /\ ValidUpstreamId(upstream)
      THEN [executor |-> executor, upstream |-> upstream] ELSE None

-----------------------------------------------------------------------------
(* Startup *)

\* normalize_executor_url drops a trailing slash and keeps the host's spelling.
Origin(url) == [scheme |-> url.scheme, host |-> url.host]

ValidUrl(url) ==
  /\ url.flaw = None   \* credentials, query, fragment, path, space, bad port
  /\ \/ url.scheme = "https"
     \/ url.scheme = "http" /\ url.host = "cluster"   \* or loopback

ValidSpec(spec) ==
  /\ ValidExecutorId(spec.id)
  /\ IF spec.enabled
     THEN /\ spec.url # None /\ ValidUrl(spec.url)
          /\ spec.auth # None /\ spec.auth.path \notin {"relative", "traversal"}
     ELSE spec.url = None /\ spec.auth = None

Bug_SameUrl(s, t) == s.url = t.url
SameUrl(s, t) == Origin(s.url) = Origin(t.url)

Bug_Clash(s, t) == s.enabled /\ t.enabled /\ (SameUrl(s, t) \/ s.auth = t.auth)
Clash(s, t) ==
  \/ s.id = t.id
  \/ s.enabled /\ t.enabled /\ (SameUrl(s, t) \/ s.auth = t.auth)

\* parse_executor_specs
ValidSpecs(list) ==
  /\ MaxExecutors > 0
  /\ Len(list) \in 1..MaxExecutors
  /\ \A i \in DOMAIN list : ValidSpec(list[i])
  /\ \A i, k \in DOMAIN list : i < k => ~Clash(list[i], list[k])

\* materialize_executors: the file is a direct child of the secret root, its
\* canonical path inside, regular, readable, and holds one bounded line.
Readable(auth) == auth.path = "direct" /\ auth.file = "secret"
\* It keeps the enabled entries, each known here by its place in the list.
Materialized(list) ==
  LET on == {i \in DOMAIN list : list[i].enabled}
  IN  IF \A i \in on : Readable(list[i].auth)
      THEN [i \in on |-> [id |-> list[i].id, origin |-> Origin(list[i].url),
                          auth |-> list[i].auth]]
      ELSE None

\* Config::from_env; the other variables and the inbound secret are in order.
Accepts(list, on) ==
  /\ ValidSpecs(list)
  /\ Materialized(list) # None
  /\ on => DOMAIN Materialized(list) # {}

Init ==
  /\ phase = "starting"
  /\ specs \in SpecLists
  /\ enabled \in BOOLEAN
  /\ executors = <<>>
  /\ asked = None
  /\ answer = None

Start ==
  /\ phase = "starting"
  /\ \/ /\ Accepts(specs, enabled)
        /\ phase' = "serving"
        /\ executors' = Materialized(specs)
     \/ /\ ~Accepts(specs, enabled)
        /\ phase' = "exited"
        /\ UNCHANGED executors
  /\ UNCHANGED <<specs, enabled, asked, answer>>

-----------------------------------------------------------------------------
(* Build requests *)

\* What execute_plan makes of a job of a plan; the other fields are fixed.  A
\* request id is "gha-clone:", a digest in hex, a colon and the job id.
BuildRequest(job) ==
  [repo |-> job.repo, revision |-> job.revision, profile |-> job.profile,
   idLength |-> 10 + 64 + 1 + job.idLength]

\* The planner's view: valid_repository, is_full_commit_sha, valid_job_id and
\* the profiles there are.
Executable(job) ==
  /\ Len(job.repo) = 2 /\ Over(job.repo, {"plain", "dots"})
  /\ job.revision \in {"lower", "upper"}
  /\ job.idLength \in 1..100
  /\ job.profile # None

Bug_ValidRequestId(length) == length \in 1..128
ValidRequestId(length) == length \in 1..256

\* validate_build_request: "dots" is a component "." or "..", "long" one of more
\* than a hundred characters; revisions are forty hex digits in either case, or
\* something else.
ValidRequest(q) ==
  /\ Len(q.repo) = 2 /\ Over(q.repo, {"plain"})
  /\ q.revision = "lower"
  /\ q.profile # None
  /\ ValidRequestId(q.idLength)

Serving == phase = "serving" /\ asked = None

Submit ==
  /\ Serving /\ enabled
  /\ \E job \in {j \in Jobs : Executable(j)} :
       /\ asked' = [kind |-> "build", job |-> job]
       /\ answer' = ValidRequest(BuildRequest(job))
  /\ UNCHANGED <<phase, specs, enabled, executors>>

-----------------------------------------------------------------------------
(* Route ids *)

\* An executor answers a submission with 202 and the id it gave the build.
Place ==
  /\ Serving /\ enabled
  /\ \E e \in DOMAIN executors, id \in UpstreamIds :
       /\ asked' = [kind |-> "route", executor |-> e, upstream |-> id]
       /\ answer' = Namespaced(executors[e].id, id)
  /\ UNCHANGED <<phase, specs, enabled, executors>>

\* get_build: the executor it asks for the status of id, and the id it asks by.
Target(id) ==
  LET route == Parsed(id)
      at == {e \in DOMAIN executors : executors[e].id = route.executor}
  IN  IF route = None \/ at = {} THEN None
      ELSE [executor |-> CHOOSE e \in at : \A k \in at : e <= k,
            upstream |-> route.upstream]

Status ==
  /\ Serving
  /\ \E id \in StatusIds :
       /\ asked' = [kind |-> "status", id |-> id]
       /\ answer' = Target(id)
  /\ UNCHANGED <<phase, specs, enabled, executors>>

Rest == (asked # None \/ phase = "exited") /\ UNCHANGED vars

Next == Start \/ Submit \/ Place \/ Status \/ Rest

Spec == Init /\ [][Next]_vars

-----------------------------------------------------------------------------
(* Properties *)

Asked(kind) == asked # None /\ asked.kind = kind

\* Every job of a plan that may be executed makes a request the router takes,
\* however long its names are; the exceptions are the two places where the
\* planner's rules are wider (lib.rs:636 and lib.rs:674).
ExecutableJobsAreTaken ==
  Asked("build") =>
    answer \/ asked.job.revision = "upper" \/ "dots" \in {asked.job.repo[1], asked.job.repo[2]}

\* The route id of a build leads back to the executor that took it, and to the
\* id by which that executor knows it, among all the executors configured.
RoutesLeadBack ==
  Asked("route") /\ answer # <<>> =>
    Target(answer) = [executor |-> asked.executor, upstream |-> asked.upstream]

\* A status is asked of an executor only under a route id that this executor's
\* name and build id make: no two spellings, and no id of another executor.
OnlyRoutesAreFollowed ==
  Asked("status") /\ answer # None =>
    Namespaced(executors[answer.executor].id, answer.upstream) = asked.id

\* A router that runs has executors to place builds on if it is to place any, and
\* no two of them share a name, an origin as spelled or an authentication file as
\* named, so that neither a route id nor an answer can be another executor's.
ExecutorsAreDistinct ==
  phase = "serving" =>
    /\ enabled => DOMAIN executors # {}
    /\ \A d, e \in DOMAIN executors : d # e =>
         /\ executors[d].id # executors[e].id
         /\ executors[d].origin # executors[e].origin
         /\ executors[d].auth # executors[e].auth
=============================================================================
