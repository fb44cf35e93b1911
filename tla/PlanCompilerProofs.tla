------------------------- MODULE PlanCompilerProofs -------------------------
(* What the planner's verdicts promise, for every request: any number of jobs *)
(* and steps, any text, labels and keys.                                      *)
EXTENDS PlanCompiler, WellFoundedInduction, TLAPS

\* What is planned is what build_plan makes of the request.
IInv == request \in Requests /\ (plan # None => plan = BuildPlan(request))

LEMMA InitIInv == Init => IInv
BY DEF Init, IInv

LEMMA NextIInv == IInv /\ [Next]_vars => IInv'
<1> SUFFICES ASSUME IInv, [Next]_vars PROVE IInv'
  OBVIOUS
<1>1. request' = request
  BY DEF Next, Plan, Planned, vars
<1>2. BuildPlan(request)' = BuildPlan(request)
  BY <1>1 DEF BuildPlan, Rejected
<1> QED
  BY <1>1, <1>2 DEF IInv, Next, Plan, Planned, vars

\* A plan is its request's, from the moment it is made.
THEOREM Invariance == Spec => []IInv
<1> QED
  BY InitIInv, NextIInv, PTL DEF Spec

-----------------------------------------------------------------------------
(* Plans *)

\* A plan lists one entry for each of the request's jobs.
LEMMA PlanEntries ==
  ASSUME IInv, Compiled
  PROVE  /\ ~Rejected(request)
         /\ plan.jobs = [i \in DOMAIN request.jobs |-> JobPlan(request, request.jobs[i])]
         /\ DOMAIN plan.jobs = DOMAIN request.jobs
         /\ plan.arcFullyCovered = (\A i \in DOMAIN plan.jobs : plan.jobs[i].arcCompatible)
         /\ plan.independentExecutable = Executable(request, plan.jobs)
<1>1. plan = BuildPlan(request) /\ plan.result = "plan"
  BY DEF IInv, Compiled
<1>2. ~Rejected(request)
  BY <1>1 DEF BuildPlan
<1> QED
  BY <1>1, <1>2 DEF BuildPlan

\* An entry that is supported has no reason against it and has a profile.
LEMMA SupportedEntries ==
  ASSUME IInv, Compiled, NEW i \in DOMAIN plan.jobs, plan.jobs[i].supported
  PROVE  LET job == request.jobs[i] IN
         /\ i \in DOMAIN request.jobs
         /\ PlanReasons(request, job) = {}
         /\ plan.jobs[i].profile = ClassifyProfile(Text(job))
         /\ plan.jobs[i].profile # None
         /\ plan.jobs[i].arcCompatible = (ClassifyArcLane(job) # "github-hosted-native")
<1> DEFINE job == request.jobs[i]
<1>1. i \in DOMAIN request.jobs /\ plan.jobs[i] = JobPlan(request, job)
  BY PlanEntries
<1> HIDE DEF job
<1>2. PlanReasons(request, job) = {}
  <2>1. JobPlan(request, job).supported = (PlanReasons(request, job) = {})
    BY DEF JobPlan
  <2>2. JobPlan(request, job).supported
    BY <1>1
  <2> QED
    BY <2>1, <2>2
<1>3. plan.jobs[i].profile = ClassifyProfile(Text(job))
  BY <1>1, <1>2 DEF JobPlan
<1>4. ClassifyProfile(Text(job)) # None
  <2>1. "profile" \notin Reasons(job)
    BY <1>2 DEF PlanReasons
  <2> SUFFICES ASSUME ClassifyProfile(Text(job)) = None PROVE "profile" \in Reasons(job)
    BY <2>1
  <2> QED
    BY DEF Reasons
<1>5. plan.jobs[i].arcCompatible = (ClassifyArcLane(job) # "github-hosted-native")
  BY <1>1 DEF JobPlan
<1> QED
  BY <1>1, <1>2, <1>3, <1>4, <1>5 DEF job

\* compile_job: a job without a reason has nothing that makes one.
LEMMA ReasonlessJobs ==
  ASSUME NEW job, Reasons(job) = {}
  PROVE  /\ job.keys = {} /\ job.labels \cap {"macos", "windows"} = {}
         /\ \A k \in DOMAIN job.steps :
              /\ job.steps[k].keys = {} /\ "${{" \notin job.steps[k].run
              /\ job.steps[k].action # FALSE
         /\ \A m \in Mentions(job) : ~Detected(m)
<1>1. job.keys = {} /\ job.labels \cap {"macos", "windows"} = {}
  BY DEF Reasons, RunnerReasons
<1>2. SecretReasons(job.env) = {} /\ \A k \in DOMAIN job.steps : StepReasons(job.steps[k]) = {}
  BY DEF Reasons
<1>3. \A k \in DOMAIN job.steps :
        /\ job.steps[k].keys = {} /\ "${{" \notin job.steps[k].run
        /\ job.steps[k].action # FALSE /\ SecretReasons(job.steps[k].values) = {}
  BY <1>2 DEF StepReasons
<1>4. ASSUME NEW value, SecretReasons(value) = {}
      PROVE  \A m \in value : ~Detected(m)
  BY <1>4 DEF SecretReasons, ContainsSecretExpression
<1>5. \A m \in Mentions(job) : ~Detected(m)
  BY <1>2, <1>3, <1>4 DEF Mentions
<1> QED
  BY <1>1, <1>3, <1>5

\* compile_job and build_plan: nothing that is excluded from the independent
\* lane is in a plan that may be executed, but for the mentions of secrets that
\* contains_secret_expression does not look for.
THEOREM ExclusionsHold == Spec => []ExclusionsFailClosed
<1>1. IInv => ExclusionsFailClosed
  <2> SUFFICES ASSUME IInv, CanRun
               PROVE  /\ request.immutable /\ request.rootKeys = {} /\ request.flaws = {}
                      /\ \A i \in DOMAIN request.jobs :
                           LET job == request.jobs[i] IN
                           /\ job.keys = {} /\ job.labels \cap {"macos", "windows"} = {}
                           /\ \A k \in DOMAIN job.steps :
                                /\ job.steps[k].keys = {} /\ "${{" \notin job.steps[k].run
                                /\ job.steps[k].action # FALSE
                           /\ \A m \in Mentions(job) :
                                /\ m.names # "oidc"
                                /\ m.dotted => m.names = "secrets" /\ m.opening = "other"
    BY DEF ExclusionsFailClosed
  <2>1. Compiled /\ plan.independentExecutable
    BY DEF CanRun
  <2>2. /\ ~Rejected(request) /\ DOMAIN plan.jobs = DOMAIN request.jobs
        /\ Executable(request, plan.jobs)
    BY <2>1, PlanEntries
  <2>3. \A i \in DOMAIN request.jobs : PlanReasons(request, request.jobs[i]) = {}
    BY <2>1, <2>2, SupportedEntries DEF Executable
  <2>4. request \in Request
    BY RequestsAssumption DEF IInv
  <2>5. request.immutable /\ request.flaws = {} /\ DOMAIN request.jobs # {}
    <3>1. Len(request.jobs) \in 1..MaxJobs
      BY <2>2 DEF Rejected
    <3>2. DOMAIN request.jobs = 1..Len(request.jobs)
      BY <2>4 DEF Request
    <3> QED
      BY <2>2, <3>1, <3>2, LimitsAssumption DEF Rejected, Executable
  <2>6. request.rootKeys = {}
    BY <2>3, <2>5 DEF PlanReasons
  <2>7. ASSUME NEW i \in DOMAIN request.jobs
        PROVE  LET job == request.jobs[i] IN
               /\ job.keys = {} /\ job.labels \cap {"macos", "windows"} = {}
               /\ \A k \in DOMAIN job.steps :
                    /\ job.steps[k].keys = {} /\ "${{" \notin job.steps[k].run
                    /\ job.steps[k].action # FALSE
               /\ \A m \in Mentions(job) :
                    /\ m.names # "oidc"
                    /\ m.dotted => m.names = "secrets" /\ m.opening = "other"
    <3> DEFINE job == request.jobs[i]
    <3>1. Reasons(job) = {}
      BY <2>3 DEF PlanReasons
    <3>2. job \in Job
      BY <2>4 DEF Request
    <3> HIDE DEF job
    <3>3. Mentions(job) \subseteq Mention
      <4>1. job.env \subseteq Mention /\ \A k \in DOMAIN job.steps : job.steps[k] \in Step
        BY <3>2 DEF Job
      <4>2. \A k \in DOMAIN job.steps : job.steps[k].values \subseteq Mention
        BY <4>1 DEF Step
      <4> QED
        BY <4>1, <4>2 DEF Mentions
    <3>4. \A m \in Mentions(job) :
             m.names # "oidc" /\ (m.dotted => m.names = "secrets" /\ m.opening = "other")
      BY <3>1, <3>3, ReasonlessJobs DEF Detected, Mention
    <3> QED
      BY <3>1, <3>4, ReasonlessJobs DEF job
  <2> QED
    BY <2>5, <2>6, <2>7
<1> QED
  BY <1>1, Invariance, PTL

LEMMA LeastOf ==
  ASSUME NEW S, S \subseteq Nat, S # {}
  PROVE  LET least == CHOOSE i \in S : \A k \in S : i <= k
         IN  least \in S /\ \A k \in S : least <= k
<1> DEFINE less == OpToRel(<, Nat)
<1>1. IsWellFoundedOn(less, Nat)
  BY NatLessThanWellFounded
<1>2. \A x, y \in Nat : x < y => <<x, y>> \in less
  BY DEF OpToRel
<1> HIDE DEF less
<1>3. PICK i \in S : \A k \in S : ~(<<k, i>> \in less)
  BY <1>1, WFMin
<1>4. i \in Nat /\ \A k \in S : k \in Nat /\ (k < i \/ i <= k)
  OBVIOUS
<1>5. \A k \in S : i <= k
  BY <1>2, <1>3, <1>4
<1> QED
  BY <1>3, <1>5

\* classify_arc_lane: only a label that names a hosted runner puts a job there.
LEMMA HostedLane ==
  ASSUME NEW job, ClassifyArcLane(job) = "github-hosted-native"
  PROVE  job.labels \cap {"macos", "windows"} # {}
<1> DEFINE Hit(r) == \/ r.labels \cap job.labels # {}
                     \/ r.keys \cap job.keys # {}
                     \/ r.text \cap Text(job) # {}
           hits == {i \in DOMAIN LaneRows : Hit(LaneRows[i])}
           least == CHOOSE i \in hits : \A k \in hits : i <= k
           row == IF hits = {} THEN None ELSE LaneRows[least]
<1>1. ClassifyArcLane(job) = IF row = None THEN "sonus-ci" ELSE row.lane
  BY DEF ClassifyArcLane, First
<1>2. hits # {} /\ LaneRows[least].lane = "github-hosted-native"
  BY <1>1
<1>3. hits \subseteq Nat
  BY DEF LaneRows
<1>4. least \in hits
  <2> HIDE DEF hits
  <2> QED
    BY <1>2, <1>3, LeastOf
<1>5. least \in 1..4 /\ Hit(LaneRows[least])
  <2>1. DOMAIN LaneRows = 1..4
    BY DEF LaneRows
  <2>2. \A i \in hits : i \in DOMAIN LaneRows /\ Hit(LaneRows[i])
    OBVIOUS
  <2> HIDE DEF hits
  <2> QED
    BY <1>4, <2>1, <2>2
<1> HIDE DEF least
<1>6. least = 1
  BY <1>2, <1>5 DEF LaneRows
<1> QED
  BY <1>5, <1>6 DEF LaneRows

\* classify_profile and classify_arc_lane: a plan that may be executed is
\* covered by the ARC lanes, and each of its jobs has a profile.
THEOREM LanesAndProfilesAgree == Spec => []LanesAgree
<1>1. IInv => LanesAgree
  <2> SUFFICES ASSUME IInv, CanRun
               PROVE  /\ plan.arcFullyCovered
                      /\ \A i \in DOMAIN plan.jobs : plan.jobs[i].profile # None
    BY DEF LanesAgree
  <2>1. Compiled /\ \A i \in DOMAIN plan.jobs : plan.jobs[i].supported
    BY PlanEntries DEF CanRun, Executable
  <2>2. ASSUME NEW i \in DOMAIN plan.jobs
        PROVE  plan.jobs[i].profile # None /\ plan.jobs[i].arcCompatible
    <3>1. request.jobs[i].labels \cap {"macos", "windows"} = {}
      BY <2>1, SupportedEntries DEF PlanReasons, Reasons, RunnerReasons
    <3> QED
      BY <2>1, <3>1, SupportedEntries, HostedLane
  <2> QED
    BY <2>1, <2>2, PlanEntries
<1> QED
  BY <1>1, Invariance, PTL

-----------------------------------------------------------------------------
(* Profiles *)

ProfileWords(i) == ProfileRows[i][1]

\* A row that is tried later asks for none that holds all an earlier one asks for.
LEMMA MoreWordsFirst ==
  ASSUME NEW i \in DOMAIN ProfileRows, NEW k \in DOMAIN ProfileRows, i < k
  PROVE  ~(ProfileWords(i) \subseteq ProfileWords(k))
<1>1. DOMAIN ProfileRows = 1..10
  BY DEF ProfileRows
<1>2. /\ ProfileWords(1) = {"flutter", "apk"}
      /\ ProfileWords(2) = {"flutter", "web"}
      /\ ProfileWords(3) = {"flutter", "linux", "desktop"}
      /\ ProfileWords(4) = {"flutter", "linux"}
      /\ ProfileWords(5) = {"flutter"}
      /\ ProfileWords(6) = {"playwright"} /\ ProfileWords(7) = {"puppeteer"}
      /\ ProfileWords(8) = {"rust"} /\ ProfileWords(9) = {"python"}
      /\ ProfileWords(10) = {"node"}
  BY DEF ProfileRows, ProfileWords
<1>3. /\ i = 1 => "apk" \in ProfileWords(i) /\ "apk" \notin ProfileWords(k)
      /\ i = 2 => "web" \in ProfileWords(i) /\ "web" \notin ProfileWords(k)
      /\ i = 3 => "desktop" \in ProfileWords(i) /\ "desktop" \notin ProfileWords(k)
      /\ i = 4 => "linux" \in ProfileWords(i) /\ "linux" \notin ProfileWords(k)
  BY <1>1, <1>2
<1>4. /\ i = 5 => "flutter" \in ProfileWords(i) /\ "flutter" \notin ProfileWords(k)
      /\ i = 6 => "playwright" \in ProfileWords(i) /\ "playwright" \notin ProfileWords(k)
      /\ i = 7 => "puppeteer" \in ProfileWords(i) /\ "puppeteer" \notin ProfileWords(k)
      /\ i = 8 => "rust" \in ProfileWords(i) /\ "rust" \notin ProfileWords(k)
      /\ i = 9 => "python" \in ProfileWords(i) /\ "python" \notin ProfileWords(k)
  BY <1>1, <1>2
<1>5. i \in 1..9
  BY <1>1
<1> QED
  BY <1>3, <1>4, <1>5

\* classify_profile: a supported job gets the most specific profile it asks for.
THEOREM MostSpecificProfile == Spec => []ProfileIsMostSpecific
<1>1. IInv => ProfileIsMostSpecific
  <2> SUFFICES ASSUME IInv, Compiled, NEW i \in DOMAIN plan.jobs, plan.jobs[i].supported
               PROVE  LET text == Text(request.jobs[i]) IN
                      \E row \in DOMAIN ProfileRows :
                        /\ ProfileRows[row][2] = plan.jobs[i].profile
                        /\ ProfileRows[row][1] \subseteq text
                        /\ \A other \in DOMAIN ProfileRows :
                             ProfileRows[other][1] \subseteq text =>
                               ~(ProfileRows[row][1] \subseteq ProfileRows[other][1] /\ other # row)
    BY DEF ProfileIsMostSpecific
  <2> DEFINE text == Text(request.jobs[i])
             hits == {k \in DOMAIN ProfileRows : ProfileRows[k][1] \subseteq text}
             least == CHOOSE k \in hits : \A other \in hits : k <= other
             row == IF hits = {} THEN None ELSE ProfileRows[least]
  <2>1. plan.jobs[i].profile = ClassifyProfile(text) /\ ClassifyProfile(text) # None
    BY SupportedEntries
  <2>2. ClassifyProfile(text) = IF row = None THEN None ELSE row[2]
    BY DEF ClassifyProfile, First
  <2>3. hits # {} /\ plan.jobs[i].profile = ProfileRows[least][2]
    BY <2>1, <2>2
  <2>4. hits \subseteq Nat
    BY DEF ProfileRows
  <2>5. least \in hits /\ \A other \in hits : least <= other
    <3> HIDE DEF hits
    <3> QED
      BY <2>3, <2>4, LeastOf
  <2>6. least \in DOMAIN ProfileRows /\ ProfileRows[least][1] \subseteq text
    BY <2>5
  <2>7. ASSUME NEW other \in DOMAIN ProfileRows, ProfileRows[other][1] \subseteq text,
               other # least
        PROVE  ~(ProfileRows[least][1] \subseteq ProfileRows[other][1])
    <3>1. other \in hits
      BY <2>7
    <3>2. least < other
      <4> HIDE DEF hits, least
      <4> QED
        <5>1. least \in Nat /\ other \in Nat /\ other # least
          BY <2>4, <2>5, <2>7, <3>1
        <5>2. least <= other
          BY <2>5, <3>1
        <5> QED
          BY <5>1, <5>2
    <3> QED
      BY <2>6, <3>2, MoreWordsFirst DEF ProfileWords
  <2> HIDE DEF text, hits, least, row
  <2> QED
    BY <2>3, <2>6, <2>7 DEF text
<1> QED
  BY <1>1, Invariance, PTL
=============================================================================
