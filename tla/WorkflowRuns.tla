---------------------------- MODULE WorkflowRuns ----------------------------
(***************************************************************************)
(* What the service and the router together promise about one plan, over   *)
(* all its runs and with no router, request, timeout or poll in sight: in  *)
(* each incarnation of the router a job is built at most once, no job is   *)
(* built before every earlier job has a build that succeeded, and a run is *)
(* called Succeeded only when every job has one.  A run may fail or be     *)
(* forgotten at any time, whatever becomes of its builds.                  *)
(***************************************************************************)
EXTENDS Naturals

CONSTANTS Runs, NumJobs

Jobs == 1..NumJobs

VARIABLES
  status, \* what each run is reported as, if it is there
  builds, \* every build: its job, the router's incarnation and its name
  good,   \* the builds that succeeded
  bad     \* the builds that failed

vars == <<status, builds, good, bad>>

Init ==
  /\ status = [r \in Runs |-> "absent"]
  /\ builds = {}
  /\ good = {}
  /\ bad = {}

Done(j) == \E b \in good : b.job = j

\* The name of the new build is the executors' to choose.
Build ==
  /\ \E new \in builds' \ builds :
       /\ builds' = builds \cup {new}
       /\ \A b \in builds : b.job # new.job \/ b.incarnation # new.incarnation
       /\ \A j \in 1..new.job - 1 : Done(j)
  /\ UNCHANGED <<status, good, bad>>

EndBuild ==
  /\ \E b \in builds \ (good \cup bad) :
       \/ good' = good \cup {b} /\ UNCHANGED bad
       \/ bad' = bad \cup {b} /\ UNCHANGED good
  /\ UNCHANGED <<status, builds>>

Ended(r) == status[r] \in {"succeeded", "failed"}

\* A new run may take the place of ended ones.
Open(r) ==
  /\ status[r] = "absent" /\ status'[r] = "open"
  /\ \A s \in Runs \ {r} :
       status'[s] \in {status[s]} \cup (IF Ended(s) THEN {"gone"} ELSE {})
  /\ UNCHANGED <<builds, good, bad>>

Succeed(r) ==
  /\ status[r] = "open"
  /\ status' = [status EXCEPT ![r] = "succeeded"]
  /\ \A j \in Jobs : Done(j)
  /\ UNCHANGED <<builds, good, bad>>

Fail(r) ==
  /\ status[r] = "open"
  /\ status' = [status EXCEPT ![r] = "failed"]
  /\ UNCHANGED <<builds, good, bad>>

\* The service restarts and remembers no run.
Forget ==
  /\ status' = [r \in Runs |-> IF status[r] = "absent" THEN "absent" ELSE "gone"]
  /\ UNCHANGED <<builds, good, bad>>

Next ==
  \/ Build \/ EndBuild \/ Forget
  \/ \E r \in Runs : Open(r) \/ Succeed(r) \/ Fail(r)

Spec == Init /\ [][Next]_vars
=============================================================================
