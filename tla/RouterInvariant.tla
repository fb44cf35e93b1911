-------------------------- MODULE RouterInvariant --------------------------
(***************************************************************************)
(* The inductive invariant of ExecutorRouter: what ties a handler's place  *)
(* in the code to the table, an assignment to its task, a task to its POST *)
(* and an answer to what was posted.                                       *)
(***************************************************************************)
EXTENDS ExecutorRouter

Live == {"lookup", "probing", "claiming", "claimed", "register", "checking", "parked"}
Joined == {"claimed", "register", "checking", "parked"}
Sent == {"posted", "settled", "stored", "done"}
Settled == {"settled", "stored", "done"}

\* A live handler works on a request of this incarnation and has not answered;
\* one that has joined agrees with the retained binding.
HandlerInv ==
  \A h \in Handlers :
    /\ pc[h] = "idle" => req[h] = None
    /\ reply[h] # None <=> pc[h] = "replied"
    /\ req[h] # None => req[h].epoch <= epoch
    /\ pc[h] \in Live => req[h] # None /\ req[h].epoch = epoch
    /\ pc[h] \in Joined =>
         /\ assignments[req[h].id] # None
         /\ assignments[req[h].id].content = req[h].content

\* Exactly one handler holds a claim whose task it has yet to spawn.
ClaimInv ==
  /\ EveryClaimHasATask
  /\ \A h \in Handlers : pc[h] = "claimed" => task[req[h].id] = "none"
  /\ \A g, h \in Handlers :
       pc[g] = "claimed" /\ pc[h] = "claimed" /\ req[g].id = req[h].id => g = h

\* A handler sleeps with a ticket only notify_waiters can outdate.
WaitInv ==
  \A h \in Handlers :
    /\ pc[h] = "checking" /\ ticket[h] => outcome[req[h].id] # None
    /\ pc[h] = "parked" => ~ticket[h]

\* How far each task is tells what the shared assignment holds.
TaskInv ==
  \A id \in RequestIds :
    /\ task[id] # "none" => assignments[id] # None
    /\ result[id] # None <=> task[id] \in Settled
    /\ outcome[id] # None <=> task[id] \in {"stored", "done"}
    /\ outcome[id] # None => outcome[id] = result[id]
    /\ notified[id] <=> task[id] = "done"

\* A POST of this incarnation is the one its task waits for.
PostInv ==
  /\ AtMostOnePost
  /\ \A n \in DOMAIN posts :
       /\ posts[n].epoch <= epoch
       /\ posts[n].epoch = epoch =>
            /\ task[posts[n].id] \in Sent
            /\ wire[posts[n].id] = n
  /\ \A id \in RequestIds : task[id] \in Sent =>
       /\ wire[id] \in DOMAIN posts
       /\ posts[wire[id]].id = id
       /\ posts[wire[id]].epoch = epoch
       /\ posts[wire[id]].content = assignments[id].content
       /\ posts[wire[id]].executor = assignments[id].executor

\* An answer is true of the POSTs made for request r.
Truthful(a, r) ==
  /\ a.kind = "accepted" =>
       /\ a.build \in DOMAIN posts
       /\ posts[a.build].id = r.id
       /\ posts[a.build].content = r.content
       /\ posts[a.build].executor = a.executor
       /\ posts[a.build].epoch = r.epoch
       /\ posts[a.build].fate = "built"
  /\ a.kind = "rejected" =>
       \A n \in DOMAIN posts :
         posts[n].id = r.id /\ posts[n].epoch = r.epoch => posts[n].fate = "refused"

ResultInv ==
  \A id \in RequestIds : result[id] # None =>
    /\ result[id].kind \in VerdictKinds
    /\ Truthful(result[id],
                [id |-> id, content |-> assignments[id].content, epoch |-> epoch])

\* A told verdict is true, and while its incarnation lives it is the retained one.
ReplyInv ==
  \A h \in Handlers : HasVerdict(h) =>
    /\ req[h] # None
    /\ Truthful(reply[h], req[h])
    /\ req[h].epoch = epoch =>
         /\ outcome[req[h].id] = reply[h]
         /\ assignments[req[h].id].content = req[h].content

\* Once a request was refused for capacity the table is full.
FullInv ==
  \A h \in Handlers : Replied(h, "full") =>
    req[h] # None /\ (req[h].epoch = epoch => Full)

IInv ==
  /\ TypeOK /\ HandlerInv /\ ClaimInv /\ WaitInv /\ TaskInv /\ PostInv
  /\ ResultInv /\ ReplyInv /\ FullInv
  /\ VerdictsAgree /\ RefusalsAreFinal
=============================================================================
