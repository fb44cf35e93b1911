---------------------------- MODULE PlanCompiler ----------------------------
(***************************************************************************)
(* build_plan of the planner: which workflows the independent lane may     *)
(* execute, by which fixed build-server profile, and which ARC lane each   *)
(* job belongs to.                                                         *)
(*                                                                         *)
(* A job's text is the set of words the classifiers look for in its run    *)
(* commands and action names, alternatives that are treated alike being    *)
(* one word ("rust" for cargo, rust-toolchain and rustfmt).  A reason is   *)
(* the name of the feature it is about.  What an env or a with says of     *)
(* credentials is kept as far as it is spelled, because the code decides   *)
(* by the spelling.                                                        *)
(***************************************************************************)
EXTENDS Naturals, Sequences, FiniteSets

CONSTANTS
  Requests, \* the plan requests explored
  MaxJobs,  \* limits.max_jobs
  MaxSteps, \* limits.max_steps_per_job
  None      \* no profile, no action, no plan

ASSUME LimitsAssumption == MaxJobs \in Nat \ {0} /\ MaxSteps \in Nat \ {0}

Words == {"flutter", "apk", "web", "linux", "desktop", "playwright", "puppeteer",
          "rust", "python", "node", "emulator", "docker", "chromium", "${{"}
StepKeys == {"if", "working-directory", "continue-on-error"}
JobKeys == {"uses", "permissions", "services", "container", "strategy", "if"}
RootKeys == {"env", "permissions", "concurrency"}
Labels == {"ubuntu", "kvm", "macos", "windows"}
Flaws == {"repository", "workflowPath", "size", "NUL", "YAML"}

\* A mention of a credential.  names: the secrets context, the token of the github
\* context, or a variable of OIDC; opening: what stands between "${{" and the name;
\* dotted: secrets.X or github.token, not an index, or the context as a whole.
Mention == [names : {"secrets", "token", "oidc"}, opening : {"none", "space", "other"},
            dotted : BOOLEAN]
\* action: None, or whether it is an allowed setup action; values: its env and with
Step == [run : SUBSET Words, action : BOOLEAN \cup {None}, names : SUBSET Words,
         keys : SUBSET StepKeys, values : SUBSET Mention]
Job == [labels : SUBSET Labels, keys : SUBSET JobKeys, env : SUBSET Mention,
        steps : Seq(Step)]
\* order: what validate_dependencies answers (DependencyOrder)
Request == [flaws : SUBSET Flaws, immutable : BOOLEAN, rootKeys : SUBSET RootKeys,
            order : {"ordered", "cycle", "badNeeds"}, jobs : Seq(Job)]

ASSUME RequestsAssumption == Requests \subseteq Request

VARIABLES request, plan

vars == <<request, plan>>

-----------------------------------------------------------------------------
(* compile_job *)

Text(job) == UNION {job.steps[i].run \cup job.steps[i].names : i \in DOMAIN job.steps}

\* The first of a ranking's rows that the predicate accepts.
First(rows, Accepts(_)) ==
  LET hits == {i \in DOMAIN rows : Accepts(rows[i])}
  IN  IF hits = {} THEN None ELSE rows[CHOOSE i \in hits : \A k \in hits : i <= k]

Bug_ProfileRows ==
  << <<{"flutter", "apk"}, "flutter-android-debug">>,
     <<{"flutter", "web"}, "flutter-web-release">>,
     <<{"flutter", "linux"}, "flutter-linux-release">>,
     <<{"flutter", "linux", "desktop"}, "flutter-linux-desktop-entrypoint">>,
     <<{"flutter"}, "flutter-verify">>,
     <<{"playwright"}, "playwright">>, <<{"puppeteer"}, "puppeteer">>,
     <<{"rust"}, "rust-verify">>, <<{"python"}, "python-verify">>,
     <<{"node"}, "node-verify">> >>
\* Profiles in the order they are tried, with the words each one asks for.
ProfileRows ==
  << <<{"flutter", "apk"}, "flutter-android-debug">>,
     <<{"flutter", "web"}, "flutter-web-release">>,
     <<{"flutter", "linux", "desktop"}, "flutter-linux-desktop-entrypoint">>,
     <<{"flutter", "linux"}, "flutter-linux-release">>,
     <<{"flutter"}, "flutter-verify">>,
     <<{"playwright"}, "playwright">>, <<{"puppeteer"}, "puppeteer">>,
     <<{"rust"}, "rust-verify">>, <<{"python"}, "python-verify">>,
     <<{"node"}, "node-verify">> >>

ClassifyProfile(text) ==
  LET row == First(ProfileRows, LAMBDA r : r[1] \subseteq text)
  IN  IF row = None THEN None ELSE row[2]

\* ARC lanes in the order they are tried, with what puts a job in them.
LaneRows ==
  << [labels |-> {"macos", "windows"}, keys |-> {}, text |-> {},
      lane |-> "github-hosted-native"],
     [labels |-> {"kvm"}, keys |-> {}, text |-> {"emulator"},
      lane |-> "sonus-android-kvm"],
     [labels |-> {}, keys |-> {"services", "container"}, text |-> {"docker"},
      lane |-> "sonus-ci-dind"],
     [labels |-> {}, keys |-> {}, text |-> {"playwright", "puppeteer", "chromium"},
      lane |-> "sonus-browser"] >>

ClassifyArcLane(job) ==
  LET row == First(LaneRows, LAMBDA r : \/ r.labels \cap job.labels # {}
                                        \/ r.keys \cap job.keys # {}
                                        \/ r.text \cap Text(job) # {})
  IN  IF row = None THEN "sonus-ci" ELSE row.lane

Malformed(job) == job.labels = {} \/ Len(job.steps) > MaxSteps

\* The texts looked for: "${{ secrets.", "${{secrets.", "github.token" wherever it
\* stands, and the name of the OIDC variables.
Detected(m) ==
  \/ m.names = "secrets" /\ m.opening \in {"none", "space"} /\ m.dotted
  \/ m.names = "token" /\ m.dotted
  \/ m.names = "oidc"

ContainsSecretExpression(value) == \E m \in value : Detected(m)

SecretReasons(value) == IF ContainsSecretExpression(value) THEN {"secret"} ELSE {}

StepReasons(step) ==
  step.keys \cup (step.run \cap {"${{"}) \cup SecretReasons(step.values)
            \cup (IF step.action = FALSE THEN {"marketplace"} ELSE {})

Bug_RunnerReasons(job) == job.labels \cap {"macos"}
RunnerReasons(job) == job.labels \cap {"macos", "windows"}

Reasons(job) ==
  job.keys \cup RunnerReasons(job) \cup SecretReasons(job.env)
    \cup (UNION {StepReasons(job.steps[i]) : i \in DOMAIN job.steps})
    \cup (IF ClassifyProfile(Text(job)) = None THEN {"profile"} ELSE {})

-----------------------------------------------------------------------------
(* build_plan *)

Bug_PlanReasons(r, job) == Reasons(job)
\* What a workflow does at its top level counts against each of its jobs.
PlanReasons(r, job) == Reasons(job) \cup r.rootKeys

JobPlan(r, job) ==
  LET supported == PlanReasons(r, job) = {}
      lane == ClassifyArcLane(job)
  IN  [lane |-> lane, arcCompatible |-> lane # "github-hosted-native",
       supported |-> supported,
       profile |-> IF supported THEN ClassifyProfile(Text(job)) ELSE None]

Rejected(r) ==
  \/ r.flaws # {}
  \/ Len(r.jobs) \notin 1..MaxJobs
  \/ \E i \in DOMAIN r.jobs : Malformed(r.jobs[i])
  \/ r.order # "ordered"

Executable(r, jobs) == r.immutable /\ \A i \in DOMAIN jobs : jobs[i].supported

BuildPlan(r) ==
  LET jobs == [i \in DOMAIN r.jobs |-> JobPlan(r, r.jobs[i])]
  IN  IF Rejected(r) THEN [result |-> "errors"]
      ELSE [result |-> "plan", jobs |-> jobs,
            arcFullyCovered |-> \A i \in DOMAIN jobs : jobs[i].arcCompatible,
            independentExecutable |-> Executable(r, jobs)]

Init == request \in Requests /\ plan = None

Plan ==
  /\ plan = None
  /\ plan' = BuildPlan(request)
  /\ UNCHANGED request

Planned == plan # None /\ UNCHANGED vars

Next == Plan \/ Planned

Spec == Init /\ [][Next]_vars

-----------------------------------------------------------------------------
(* Properties *)

Compiled == plan # None /\ plan.result = "plan"
CanRun == Compiled /\ plan.independentExecutable

Mentions(job) == job.env \cup UNION {job.steps[k].values : k \in DOMAIN job.steps}

\* A plan that may be executed has none of what README.md:140 excludes, in any
\* job or step or at the top of the workflow, and names an immutable revision,
\* but for secrets: those it may mention are not next to the opening of their
\* expression or are not joined by a dot (UnsupportedIsRefused is about them).
ExclusionsFailClosed ==
  CanRun =>
    /\ request.immutable /\ request.rootKeys = {} /\ request.flaws = {}
    /\ \A i \in DOMAIN request.jobs :
         LET job == request.jobs[i] IN
         /\ job.keys = {} /\ job.labels \cap {"macos", "windows"} = {}
         /\ \A k \in DOMAIN job.steps :
              /\ job.steps[k].keys = {} /\ "${{" \notin job.steps[k].run
              /\ job.steps[k].action # FALSE
         /\ \A m \in Mentions(job) :
              m.names # "oidc" /\ (m.dotted => m.names = "secrets" /\ m.opening = "other")

\* The two verdicts agree: what only GitHub's hosts can run is never executed
\* here, and a job that is executed has a profile to run.
LanesAgree ==
  CanRun => /\ plan.arcFullyCovered
            /\ \A i \in DOMAIN plan.jobs : plan.jobs[i].profile # None

\* A job's profile is the most specific row of README.md:54 that its text
\* matches: no row that asks for more than the chosen one is matched too.
ProfileIsMostSpecific ==
  Compiled => \A i \in DOMAIN plan.jobs : plan.jobs[i].supported =>
    LET text == Text(request.jobs[i]) IN
    \E row \in DOMAIN ProfileRows :
      /\ ProfileRows[row][2] = plan.jobs[i].profile
      /\ ProfileRows[row][1] \subseteq text
      /\ \A other \in DOMAIN ProfileRows :
           ProfileRows[other][1] \subseteq text =>
             ~(ProfileRows[row][1] \subseteq ProfileRows[other][1] /\ other # row)

\* What capabilities() advertises as explicitly unsupported (lib.rs:139) and
\* ExclusionsFailClosed leaves open: no job of the KVM lane (lib.rs:143) and no
\* mention of a credential, however it is spelled (lib.rs:144, README.md:143), is
\* in a plan that may be executed.
UnsupportedIsRefused ==
  CanRun => /\ \A i \in DOMAIN plan.jobs : plan.jobs[i].lane # "sonus-android-kvm"
            /\ \A i \in DOMAIN request.jobs : Mentions(request.jobs[i]) = {}
=============================================================================
