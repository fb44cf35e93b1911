--------------------------- MODULE MCPlanCompiler ---------------------------
(* PlanCompiler on every combination of at most three words, labels and keys *)
(* in one job, with every way to mention a credential in its environment and *)
(* in a step, and on every short sequence of a few jobs.                     *)
EXTENDS PlanCompiler

AtMost(n, S) == {s \in SUBSET S : Cardinality(s) <= n}

Runs(words) == [run |-> words, action |-> None, names |-> {}, keys |-> {},
                values |-> {}]
Uses(allowed, names) == [run |-> {}, action |-> allowed, names |-> names, keys |-> {},
                         values |-> {}]

Plain(steps) == [labels |-> {"ubuntu"}, keys |-> {}, env |-> {}, steps |-> steps]

\* One command with up to three words.
OneStep == {Plain(<<Runs(w)>>) : w \in AtMost(3, Words)}

\* Two or three commands with a word each, the first perhaps a setup action.
TwoSteps ==
  {Plain(<<a, b>>) :
     a \in {Runs(w) : w \in AtMost(1, Words)}
             \cup {Uses(TRUE, n) : n \in AtMost(1, {"node", "python", "flutter", "rust"})}
             \cup {Uses(FALSE, {})},
     b \in {Runs(w) : w \in AtMost(1, Words)}}
TooManySteps == {Plain([i \in 1..n |-> Runs({"rust"})]) : n \in {0, 3}}

\* Labels and keys around a command that has a profile, or none.
Surroundings ==
  {[labels |-> l, keys |-> k, env |-> {}, steps |-> <<[Runs(w) EXCEPT !.keys = s]>>] :
     l \in AtMost(2, Labels), k \in AtMost(2, JobKeys), s \in AtMost(1, StepKeys),
     w \in {{"rust"}, {}}}

\* A credential in the job's environment, in its second step, or in both.
Credentials ==
  {[Plain(<<Runs({"rust"}), [Runs({}) EXCEPT !.values = v]>>) EXCEPT !.env = e] :
     v \in {{}} \cup {{m} : m \in Mention}, e \in {{}} \cup {{m} : m \in Mention}}

SampleJobs ==
  {Plain(<<Runs({"rust"})>>), Plain(<<Runs({})>>),
   [Plain(<<Runs({"node"})>>) EXCEPT !.labels = {"macos"}],
   [Plain(<<Runs({"node"})>>) EXCEPT !.labels = {}]}

MCRequests ==
  [flaws : {{}}, immutable : BOOLEAN, rootKeys : AtMost(1, RootKeys),
   order : {"ordered"},
   jobs : {<<j>> : j \in OneStep \cup TwoSteps \cup TooManySteps \cup Surroundings
                                 \cup Credentials}]
  \cup
  [flaws : AtMost(1, Flaws), immutable : BOOLEAN, rootKeys : AtMost(1, RootKeys),
   order : {"ordered", "cycle", "badNeeds"},
   jobs : UNION {[1..n -> SampleJobs] : n \in 0..MaxJobs + 1}]
=============================================================================
