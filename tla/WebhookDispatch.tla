--------------------------- MODULE WebhookDispatch ---------------------------
(***************************************************************************)
(* POST /webhooks/github of gha-clone-server: copies of signed deliveries  *)
(* fetch and plan the mirrored workflows, claim the delivery UUID in a     *)
(* table bounded by age and by size, and start one run per workflow path.  *)
(*                                                                         *)
(* A copy is one HTTP call.  Its steps are the code between two awaits;    *)
(* the clock is Instant::now(), and the time a claim is stamped with is    *)
(* read before the table's lock is awaited.                                *)
(***************************************************************************)
EXTENDS Naturals, Sequences, FiniteSets

CONSTANTS
  Copies,                  \* webhook calls, each used once
  Deliveries,              \* X-GitHub-Delivery UUIDs
  Events,                  \* the events GitHub may deliver
  NumPaths,                \* workflow paths configured for the repository
  Ttl,                     \* webhook_delivery_ttl_seconds
  MaxDeliveries,           \* max_webhook_deliveries
  WebhookExecutionEnabled, \* webhook_execution_enabled
  ExecutionEnabled,        \* execution_enabled
  MaxClock,                \* bound on the time explored
  None                     \* no delivery, no claim, no reply

Paths == 1..NumPaths

\* What the handler looks at.  path: the workflow's, if it is a configured one.
Event == [name : {"push", "pull_request", "workflow_run", "other"},
          revision : {"full", "other"}, action : {"completed", "other"},
          ignored : BOOLEAN, conclusion : {"failure", "other"},
          path : Paths \cup {None}]

Replies == {"refused", "failed", "preview", "unavailable", "notExecutable",
            "duplicate", "accepted"}

ASSUME EventsAssumption == Events \subseteq Event
ASSUME NumPathsAssumption == NumPaths \in Nat \ {0}
ASSUME TtlAssumption == Ttl \in Nat \ {0}
ASSUME MaxDeliveriesAssumption == MaxDeliveries \in Nat \ {0}
ASSUME SwitchesAssumption ==
  WebhookExecutionEnabled \in BOOLEAN /\ ExecutionEnabled \in BOOLEAN
ASSUME MaxClockAssumption == MaxClock \in Nat
ASSUME NoneAssumption == None \notin Nat /\ None \notin Deliveries /\ None \notin Replies

VARIABLES
  payload,    \* external: the event of each delivery, the same in all copies
  pc,         \* where each copy is
  delivery,   \* the delivery a copy carries
  fetched,    \* how many workflows it has fetched and planned
  stamp,      \* the `now` it read before awaiting the table
  started,    \* how many runs it has inserted and spawned
  reply,      \* its HTTP answer
  deliveries, \* AppState.webhook_deliveries: when each UUID was seen
  clock,      \* the monotonic clock
  claims      \* ghost: every claim made, in order

copyVars == <<pc, delivery, fetched, stamp, started, reply>>
vars == <<payload, copyVars, deliveries, clock, claims>>

TypeOK ==
  /\ payload \in [Deliveries -> Events]
  /\ pc \in [Copies -> {"idle", "fetching", "planned", "claiming",
                        "dispatching", "replied", "gone"}]
  /\ delivery \in [Copies -> Deliveries \cup {None}]
  /\ fetched \in [Copies -> 0..NumPaths]
  /\ stamp \in [Copies -> Nat]
  /\ started \in [Copies -> 0..NumPaths]
  /\ reply \in [Copies -> Replies \cup {None}]
  /\ deliveries \in [Deliveries -> Nat \cup {None}]
  /\ clock \in Nat
  /\ claims \in Seq([copy : Copies, delivery : Deliveries, stamp : Nat, at : Nat])

Init ==
  /\ payload \in [Deliveries -> Events]
  /\ pc = [c \in Copies |-> "idle"]
  /\ delivery = [c \in Copies |-> None]
  /\ fetched = [c \in Copies |-> 0]
  /\ stamp = [c \in Copies |-> 0]
  /\ started = [c \in Copies |-> 0]
  /\ reply = [c \in Copies |-> None]
  /\ deliveries = [d \in Deliveries |-> None]
  /\ clock = 0
  /\ claims = <<>>

Goto(c, at) == pc' = [pc EXCEPT ![c] = at]

Respond(c, kind) ==
  /\ Goto(c, "replied")
  /\ reply' = [reply EXCEPT ![c] = kind]

-----------------------------------------------------------------------------
(* Retention *)

Age(now, seen) == IF now > seen THEN now - seen ELSE 0

Fresh(table, now) ==
  {d \in Deliveries : table[d] # None /\ Age(now, table[d]) < Ttl}

Bug_Keepable(table, now) == {Fresh(table, now)}
\* The entries that may survive: all the fresh ones, or the newest of them; the
\* order among entries of one instant is that of the UUIDs, left open here.
Keepable(table, now) ==
  LET fresh == Fresh(table, now)
      kept == IF Cardinality(fresh) > MaxDeliveries THEN MaxDeliveries
              ELSE Cardinality(fresh)
  IN  {s \in SUBSET fresh :
         /\ Cardinality(s) = kept
         /\ \A out \in fresh \ s, stay \in s : table[out] <= table[stay]}

\* The tables prune_webhook_deliveries may leave.
Pruned(table, now) ==
  {[d \in Deliveries |-> IF d \in s THEN table[d] ELSE None] :
     s \in Keepable(table, now)}

-----------------------------------------------------------------------------
(* The handler *)

\* The configured paths an event is mirrored to: all of them for a push or a
\* pull request, the failed one for a workflow_run that is a failure to replace.
WebhookPaths(e) ==
  IF e.name # "workflow_run" THEN Paths
  ELSE IF e.action = "completed" /\ ~e.ignored /\ e.conclusion = "failure"
       THEN {e.path} \ {None}
  ELSE {}

\* webhook_revision names a full commit, and some path is to be mirrored.
Mirrored(e) == e.name # "other" /\ e.revision = "full" /\ WebhookPaths(e) # {}

\* The paths that the handler of copy c goes through.
NumMirrored(c) == Cardinality(WebhookPaths(payload[delivery[c]]))

\* Signature, UUID, JSON, allow-list and rules, which a retry may pass, or an
\* event that is not mirrored.
Refuse(c) ==
  /\ pc[c] = "idle"
  /\ Respond(c, "refused")
  /\ UNCHANGED <<payload, delivery, fetched, stamp, started, deliveries, clock, claims>>

Receive(c) ==
  /\ pc[c] = "idle"
  /\ \E d \in Deliveries :
       /\ Mirrored(payload[d])
       /\ delivery' = [delivery EXCEPT ![c] = d]
  /\ Goto(c, "fetching")
  /\ UNCHANGED <<payload, fetched, stamp, started, reply, deliveries, clock, claims>>

Bug_LastPath(c) == fetched[c] = NumMirrored(c)
\* Each workflow decided on as soon as it is planned.
Bug_FirstPath(c) == TRUE
LastPath(c) == fetched[c] + 1 = NumMirrored(c)

\* One workflow fetched from GitHub and planned, or an error that ends the call.
Fetch(c) ==
  /\ pc[c] = "fetching"
  /\ \/ /\ Respond(c, "failed")
        /\ UNCHANGED fetched
     \/ /\ fetched' = [fetched EXCEPT ![c] = @ + 1]
        /\ Goto(c, IF LastPath(c) THEN "planned" ELSE "fetching")
        /\ UNCHANGED reply
  /\ UNCHANGED <<payload, delivery, stamp, started, deliveries, clock, claims>>

\* What ends a planned call before it claims anything: the switches in order,
\* then a plan that is not independently executable.
Declines ==
  IF ~WebhookExecutionEnabled THEN {"preview"}
  ELSE IF ~ExecutionEnabled THEN {"unavailable"}
  ELSE {"notExecutable"}

\* The delivery looked up and remembered before its plans are found executable.
Bug_Decide(c) ==
  LET d == delivery[c] IN
  /\ pc[c] = "planned"
  /\ \/ /\ deliveries[d] # None
        /\ Respond(c, "duplicate")
        /\ UNCHANGED <<stamp, deliveries, claims>>
     \/ /\ deliveries[d] = None
        /\ deliveries' = [deliveries EXCEPT ![d] = clock]
        /\ claims' = Append(claims, [copy |-> c, delivery |-> d,
                                     stamp |-> clock, at |-> clock])
        /\ stamp' = [stamp EXCEPT ![c] = clock]
        /\ \/ \E kind \in Declines : Respond(c, kind)
           \/ Goto(c, "dispatching") /\ UNCHANGED reply
  /\ UNCHANGED <<payload, delivery, fetched, started, clock>>
\* Past those checks remember_webhook_delivery reads `now`.
Decide(c) ==
  /\ pc[c] = "planned"
  /\ \/ /\ \E kind \in Declines : Respond(c, kind)
        /\ UNCHANGED stamp
     \/ /\ WebhookExecutionEnabled /\ ExecutionEnabled
        /\ stamp' = [stamp EXCEPT ![c] = clock]
        /\ Goto(c, "claiming")
        /\ UNCHANGED reply
  /\ UNCHANGED <<payload, delivery, fetched, started, deliveries, clock, claims>>

Bug_Remembered(table, d) == FALSE
Remembered(table, d) == table[d] # None

\* remember_webhook_delivery under the write lock: prune, look up, insert, prune.
Claim(c) ==
  LET d == delivery[c] IN
  /\ pc[c] = "claiming"
  /\ \E table \in Pruned(deliveries, stamp[c]) :
       \/ /\ Remembered(table, d)
          /\ deliveries' = table
          /\ Respond(c, "duplicate")
          /\ UNCHANGED claims
       \/ /\ ~Remembered(table, d)
          /\ deliveries' \in Pruned([table EXCEPT ![d] = stamp[c]], stamp[c])
          /\ claims' = Append(claims, [copy |-> c, delivery |-> d,
                                       stamp |-> stamp[c], at |-> clock])
          /\ Goto(c, "dispatching")
          /\ UNCHANGED reply
  /\ UNCHANGED <<payload, delivery, fetched, stamp, started, clock>>

\* One run inserted under the runs lock and its task spawned; the answer follows
\* the last one without another await.
Dispatch(c) ==
  /\ pc[c] = "dispatching"
  /\ started' = [started EXCEPT ![c] = @ + 1]
  /\ \/ /\ started[c] + 1 < NumMirrored(c)
        /\ UNCHANGED <<pc, reply>>
     \/ /\ started[c] + 1 = NumMirrored(c)
        /\ Respond(c, "accepted")
  /\ UNCHANGED <<payload, delivery, fetched, stamp, deliveries, clock, claims>>

\* The client leaves while the handler awaits GitHub, the table or the runs.
Disconnect(c) ==
  /\ pc[c] \in {"fetching", "claiming", "dispatching"}
  /\ Goto(c, "gone")
  /\ UNCHANGED <<payload, delivery, fetched, stamp, started, reply, deliveries, clock, claims>>

Tick ==
  /\ clock < MaxClock
  /\ clock' = clock + 1
  /\ UNCHANGED <<payload, copyVars, deliveries, claims>>

Quiescent ==
  /\ \A c \in Copies : pc[c] \in {"replied", "gone"}
  /\ UNCHANGED vars

Next ==
  \/ \E c \in Copies : \/ Refuse(c) \/ Receive(c) \/ Fetch(c) \/ Decide(c)
                       \/ Claim(c) \/ Dispatch(c) \/ Disconnect(c)
  \/ Tick
  \/ Quiescent

Spec == Init /\ [][Next]_vars

-----------------------------------------------------------------------------
(* Properties *)

\* A delivery is dispatched a second time only once its claim is a TTL old, or
\* once so many other deliveries with stamps at least as recent were claimed
\* that the bounded table had to forget it: copies racing between the reading
\* of `now` and the lock shorten the window in no other way.
DispatchedOncePerWindow ==
  \A i, j \in DOMAIN claims :
    LET d == claims[i].delivery
        newer == {claims[k].delivery : k \in {k \in 1..j - 1 :
                    claims[k].stamp >= claims[i].stamp}} \ {d}
    IN  i < j /\ claims[j].delivery = d =>
          \/ claims[j].at >= claims[i].stamp + Ttl
          \/ Cardinality(newer) >= MaxDeliveries

\* A copy is called a duplicate only when another copy fetched and planned every
\* workflow of its delivery, was not declined for what they are, and claimed the
\* delivery less than a TTL before: README.md:126, failed fetches and rejected
\* plans leave the delivery retryable.
DuplicateWasClaimed ==
  \A c \in Copies : reply[c] = "duplicate" =>
    \E i \in DOMAIN claims :
      LET b == claims[i].copy IN
      /\ claims[i].delivery = delivery[c] /\ Age(stamp[c], claims[i].stamp) < Ttl
      /\ b # c /\ delivery[b] = delivery[c]
      /\ fetched[b] = NumMirrored(b) /\ reply[b] \in {None, "accepted"}

\* The table is within its size after every claim, and remembers of each
\* delivery a claim that was made for it.
RetentionIsBounded ==
  /\ Cardinality({d \in Deliveries : deliveries[d] # None}) <= MaxDeliveries
  /\ \A d \in Deliveries : deliveries[d] # None =>
       \E i \in DOMAIN claims :
         claims[i].delivery = d /\ claims[i].stamp = deliveries[d]

\* A delivery's runs start together or not at all: a copy that starts one has
\* fetched and planned every workflow and claimed the delivery itself, so that
\* neither a workflow that fails nor a racing copy leaves a part of the set; only
\* a client that leaves can, and "accepted" is said of whole sets.
RunSetsAreWhole ==
  \A c \in Copies :
    /\ started[c] > 0 =>
         /\ fetched[c] = NumMirrored(c)
         /\ started[c] = NumMirrored(c) \/ pc[c] \in {"dispatching", "gone"}
         /\ \E i \in DOMAIN claims :
              claims[i].copy = c /\ claims[i].delivery = delivery[c]
    /\ reply[c] = "accepted" => started[c] = NumMirrored(c)

\* main.rs:620 answers "duplicate GitHub delivery was already dispatched": some
\* copy of it has started all its runs or is still starting them.
DuplicateWasDispatched ==
  \A c \in Copies : reply[c] = "duplicate" =>
    \E b \in Copies \ {c} :
      /\ delivery[b] = delivery[c]
      /\ started[b] = NumMirrored(b) \/ pc[b] = "dispatching"
=============================================================================
