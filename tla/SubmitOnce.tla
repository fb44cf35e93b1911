----------------------------- MODULE SubmitOnce -----------------------------
(***************************************************************************)
(* What POST /builds of gha-executor-router promises its callers, without  *)
(* locks, probes, tasks or wake-ups: while the router runs, a requestId is *)
(* bound to one content and one executor, is sent to that executor at most *)
(* once, and the one verdict of that submission is the answer of every     *)
(* call with that content.  A restart forgets bindings and verdicts.       *)
(***************************************************************************)
EXTENDS Naturals

CONSTANTS Calls, RequestIds, Contents, Executors, None

VARIABLES
  asked,   \* the request of each call that may still be answered or was
  answer,  \* the answer of each call
  bound,   \* the content and executor each requestId is bound to
  sends,   \* the submissions made for each requestId
  verdict  \* what the submission of each requestId came to

vars == <<asked, answer, bound, sends, verdict>>

Init ==
  /\ asked = [c \in Calls |-> None]
  /\ answer = [c \in Calls |-> None]
  /\ bound = [id \in RequestIds |-> None]
  /\ sends = [id \in RequestIds |-> {}]
  /\ verdict = [id \in RequestIds |-> None]

Waiting(c) == asked[c] # None /\ answer[c] = None

Ask(c) ==
  /\ asked[c] = None /\ answer[c] = None
  /\ \E id \in RequestIds, content \in Contents :
       asked' = [asked EXCEPT ![c] = [id |-> id, content |-> content]]
  /\ UNCHANGED <<answer, bound, sends, verdict>>

\* The caller leaves before it is answered; what was submitted for it stays.
Leave(c) ==
  /\ Waiting(c)
  /\ asked' = [asked EXCEPT ![c] = None]
  /\ UNCHANGED <<answer, bound, sends, verdict>>

\* A refusal that submits nothing: invalid, not ready, retention full.
Decline(c) ==
  /\ answer[c] = None
  /\ \E kind \in {"unauthorized", "disabled", "malformed", "invalid",
                  "notReady", "full"} :
       answer' = [answer EXCEPT ![c] = [kind |-> kind, executor |-> 0, build |-> 0]]
  /\ UNCHANGED <<asked, bound, sends, verdict>>

Bind(id) ==
  /\ bound[id] = None
  /\ \E c \in Calls, e \in Executors :
       /\ Waiting(c) /\ asked[c].id = id
       /\ bound' = [bound EXCEPT ![id] = [content |-> asked[c].content, executor |-> e]]
  /\ UNCHANGED <<asked, answer, sends, verdict>>

\* The one submission for id; its name n is the executors' to choose.
Send(id) ==
  /\ bound[id] # None /\ sends[id] = {}
  /\ \E n \in sends'[id] : sends' = [sends EXCEPT ![id] = {n}]
  /\ UNCHANGED <<asked, answer, bound, verdict>>

Decide(id) ==
  /\ sends[id] # {} /\ verdict[id] = None
  /\ \E kind \in {"accepted", "rejected", "ambiguous"}, b \in sends[id] \cup {0} :
       /\ kind = "accepted" => b \in sends[id]
       /\ verdict' = [verdict EXCEPT ![id] =
                        [kind |-> kind, executor |-> bound[id].executor, build |-> b]]
  /\ UNCHANGED <<asked, answer, bound, sends>>

Tell(c) ==
  /\ Waiting(c)
  /\ verdict[asked[c].id] # None
  /\ bound[asked[c].id].content = asked[c].content
  /\ answer' = [answer EXCEPT ![c] = verdict[asked[c].id]]
  /\ UNCHANGED <<asked, bound, sends, verdict>>

Conflict(c) ==
  /\ Waiting(c)
  /\ bound[asked[c].id] # None
  /\ bound[asked[c].id].content # asked[c].content
  /\ answer' = [answer EXCEPT ![c] =
                  [kind |-> "conflict", executor |-> bound[asked[c].id].executor,
                   build |-> 0]]
  /\ UNCHANGED <<asked, bound, sends, verdict>>

Forget ==
  /\ asked' = [c \in Calls |-> IF answer[c] = None THEN None ELSE asked[c]]
  /\ bound' = [id \in RequestIds |-> None]
  /\ sends' = [id \in RequestIds |-> {}]
  /\ verdict' = [id \in RequestIds |-> None]
  /\ UNCHANGED answer

Next ==
  \/ \E c \in Calls : Ask(c) \/ Leave(c) \/ Decline(c) \/ Tell(c) \/ Conflict(c)
  \/ \E id \in RequestIds : Bind(id) \/ Send(id) \/ Decide(id)
  \/ Forget

Spec == Init /\ [][Next]_vars
=============================================================================
