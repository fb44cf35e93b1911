------------------------ MODULE ExecutorRouterProofs ------------------------
(* IInv is an invariant of ExecutorRouter, and so are its safety properties. *)
EXTENDS RouterInvariant, SequenceTheorems, TLAPS

USE NumExecutorsAssumption, MaxAssignmentsAssumption, MaxRestartsAssumption,
    NoneAssumption

LEMMA InitIInv == Init => IInv
<1> SUFFICES ASSUME Init PROVE IInv
  OBVIOUS
<1>1. TypeOK
  BY DEF Init, TypeOK, Executors
<1>2. HandlerInv /\ ClaimInv /\ WaitInv
  BY DEF Init, HandlerInv, ClaimInv, WaitInv, Live, Joined, EveryClaimHasATask
<1>3. TaskInv /\ PostInv /\ ResultInv
  BY DEF Init, TaskInv, PostInv, AtMostOnePost, ResultInv, Settled, Sent
<1>4. ReplyInv /\ FullInv /\ VerdictsAgree /\ RefusalsAreFinal
  BY DEF Init, ReplyInv, FullInv, VerdictsAgree, RefusalsAreFinal, HasVerdict, Replied
<1> QED
  BY <1>1, <1>2, <1>3, <1>4 DEF IInv

\* A step of a handler that touches nothing shared keeps what is shared.
LEMMA SharedUnchanged ==
  ASSUME TaskInv, PostInv, ResultInv, UNCHANGED <<tableVars, taskVars, posts, epoch>>
  PROVE  TaskInv' /\ PostInv' /\ ResultInv'
BY DEF TaskInv, PostInv, AtMostOnePost, ResultInv, Truthful, tableVars, taskVars

LEMMA RefuseStep ==
  ASSUME IInv, NEW h \in Handlers, Refuse(h)
  PROVE  IInv'
<1> USE DEF IInv, Refuse
<1>1. PICK kind \in Refusals : Respond(h, Say(kind, 0, 0))
  OBVIOUS
<1>2. kind \notin VerdictKinds \cup {"full", "conflict"}
  BY DEF Refusals, VerdictKinds
<1>3. Say(kind, 0, 0) \in Answer
  BY <1>1 DEF Say, Answer, Refusals
<1>4. TypeOK'
  BY <1>1, <1>3 DEF TypeOK, Respond, Goto, tableVars, taskVars
<1>5. HandlerInv' /\ ClaimInv' /\ WaitInv'
  <2>1. /\ \A g \in Handlers : pc'[g] \in Live <=> pc[g] \in Live
        /\ \A g \in Handlers : pc'[g] \in Live => pc'[g] = pc[g]
        /\ pc'[h] = "replied" /\ reply'[h] # None
        /\ \A g \in Handlers \ {h} : pc'[g] = pc[g] /\ reply'[g] = reply[g]
    BY <1>1, <1>3 DEF TypeOK, Respond, Goto, Live
  <2>2. HandlerInv'
    BY <2>1 DEF HandlerInv, Live, Joined, tableVars
  <2> QED
    BY <2>1, <2>2 DEF ClaimInv, WaitInv, EveryClaimHasATask, Live, tableVars, taskVars
<1>6. TaskInv' /\ PostInv' /\ ResultInv'
  BY SharedUnchanged DEF tableVars, taskVars
<1>7. ReplyInv' /\ FullInv' /\ VerdictsAgree' /\ RefusalsAreFinal'
  BY <1>1, <1>2 DEF TypeOK, HandlerInv, ReplyInv, FullInv, VerdictsAgree, RefusalsAreFinal,
     HasVerdict, Replied, Respond, Goto, Say, Truthful, Full, tableVars, taskVars
<1> QED
  BY <1>4, <1>5, <1>6, <1>7

\* A live handler moves on, outside the claim, keeping table and answers.
LEMMA MoveStep ==
  ASSUME IInv, NEW h \in Handlers, NEW at \in (Live \ {"claimed"}) \cup {"gone"},
         pc[h] \in Live \ {"claimed"}, Goto(h, at),
         at \in Joined => /\ assignments[req[h].id] # None
                         /\ assignments[req[h].id].content = req[h].content,
         at = "parked" => ~ticket[h],
         at = "checking" /\ ticket'[h] => outcome[req[h].id] # None,
         \A g \in Handlers : pc[g] = "parked" \/ g # h => ticket'[g] = ticket[g],
         at = "parked" => ticket'[h] = ticket[h],
         probe' \in [Handlers -> Executors], ticket' \in [Handlers -> BOOLEAN],
         UNCHANGED <<req, reply, tableVars, taskVars, posts, epoch>>
  PROVE  IInv'
<1> USE DEF IInv
<1>1. TypeOK'
  BY DEF TypeOK, Goto, tableVars, taskVars, Live
<1>2. HandlerInv'
  BY DEF TypeOK, HandlerInv, Goto, tableVars, Live, Joined
<1>3. ClaimInv'
  BY DEF TypeOK, ClaimInv, EveryClaimHasATask, Goto, tableVars, taskVars, Live
<1>4. WaitInv'
  BY DEF TypeOK, WaitInv, Goto, tableVars, Live
<1>5. TaskInv' /\ PostInv' /\ ResultInv'
  BY SharedUnchanged
<1>6. ReplyInv' /\ FullInv' /\ VerdictsAgree' /\ RefusalsAreFinal'
  BY DEF ReplyInv, FullInv, VerdictsAgree, RefusalsAreFinal, HasVerdict, Replied, Full,
     Truthful, tableVars
<1> QED
  BY <1>1, <1>2, <1>3, <1>4, <1>5, <1>6

\* A live handler answers with what the table lets it say.
LEMMA RespondStep ==
  ASSUME IInv, NEW h \in Handlers, NEW a \in Answer,
         pc[h] \in Live \ {"claimed"}, Respond(h, a),
         a.kind \in VerdictKinds =>
           /\ outcome[req[h].id] = a
           /\ assignments[req[h].id].content = req[h].content,
         a.kind = "full" => Full /\ assignments[req[h].id] = None,
         a.kind = "conflict" => /\ assignments[req[h].id] # None
                                /\ assignments[req[h].id].content # req[h].content,
         UNCHANGED <<req, probe, ticket, tableVars, taskVars, posts, epoch>>
  PROVE  IInv'
<1> USE DEF IInv
<1>0. /\ req[h] \in Request /\ req[h].epoch = epoch /\ reply[h] = None
      /\ reply' = [reply EXCEPT ![h] = a] /\ a # None
  BY DEF TypeOK, HandlerInv, Respond, Live
<1>1. TypeOK'
  BY DEF TypeOK, Respond, Goto, tableVars, taskVars
<1>2. HandlerInv'
  BY DEF TypeOK, HandlerInv, Respond, Goto, tableVars, Live, Joined
<1>3. ClaimInv'
  BY DEF TypeOK, ClaimInv, EveryClaimHasATask, Respond, Goto, tableVars, taskVars, Live
<1>4. WaitInv'
  BY DEF TypeOK, WaitInv, Respond, Goto, tableVars
<1>5. TaskInv' /\ PostInv' /\ ResultInv'
  BY SharedUnchanged
<1>6. HasVerdict(h)' => /\ Truthful(a, req[h])
                        /\ outcome[req[h].id] = a
                        /\ assignments[req[h].id].content = req[h].content
  BY <1>0 DEF TypeOK, HasVerdict, TaskInv, ResultInv, Truthful, Request
<1>7. ReplyInv'
  BY <1>0, <1>6 DEF TypeOK, ReplyInv, HasVerdict, Truthful, tableVars
<1>8. VerdictsAgree'
  BY <1>0, <1>6 DEF TypeOK, ReplyInv, VerdictsAgree, HasVerdict, tableVars
<1>9. FullInv' /\ RefusalsAreFinal'
  BY <1>0 DEF TypeOK, FullInv, RefusalsAreFinal, Replied, Full, tableVars
<1> QED
  BY <1>1, <1>2, <1>3, <1>4, <1>5, <1>7, <1>8, <1>9

LEMMA ReceiveStep ==
  ASSUME IInv, NEW h \in Handlers, Receive(h)
  PROVE  IInv'
<1> USE DEF IInv, Receive
<1>1. TypeOK'
  BY DEF TypeOK, Goto, Request, tableVars, taskVars
<1>2. HandlerInv'
  BY DEF TypeOK, HandlerInv, Live, Joined, Goto, Request, tableVars
<1>3. ClaimInv'
  <2>1. \A g \in Handlers : pc'[g] = "claimed" <=> pc[g] = "claimed"
    BY DEF TypeOK, Goto
  <2>2. \A g \in Handlers : pc[g] = "claimed" => req'[g] = req[g]
    BY DEF TypeOK
  <2> QED
    BY <2>1, <2>2 DEF ClaimInv, EveryClaimHasATask, tableVars, taskVars
<1>4. WaitInv'
  BY DEF TypeOK, WaitInv, Goto, tableVars
<1>5. TaskInv' /\ PostInv' /\ ResultInv'
  BY SharedUnchanged DEF tableVars, taskVars
<1>6. ReplyInv' /\ FullInv' /\ VerdictsAgree' /\ RefusalsAreFinal'
  BY DEF TypeOK, HandlerInv, ReplyInv, FullInv, VerdictsAgree, RefusalsAreFinal,
     HasVerdict, Replied, Full, Truthful, Goto, tableVars
<1> QED
  BY <1>1, <1>2, <1>3, <1>4, <1>5, <1>6

LEMMA JoinStep ==
  ASSUME IInv, NEW h \in Handlers, pc[h] \in {"lookup", "claiming"},
         assignments[req[h].id] # None, Join(h),
         UNCHANGED <<req, probe, ticket, tableVars, taskVars, posts, epoch>>
  PROVE  IInv'
<1> USE DEF IInv
<1>0. req[h].id \in RequestIds /\ assignments[req[h].id] \in Assignment
  BY DEF TypeOK, HandlerInv, Live, Request
<1>1. CASE SameBinding(h) /\ Goto(h, "register") /\ UNCHANGED reply
  BY <1>0, <1>1, MoveStep DEF TypeOK, SameBinding, Live
<1>2. CASE ~SameBinding(h) /\ Respond(h, Say("conflict", assignments[req[h].id].executor, 0))
  <2>1. Say("conflict", assignments[req[h].id].executor, 0) \in Answer
    BY <1>0 DEF Say, Answer, Assignment, Executors
  <2> QED
    BY <1>0, <1>2, <2>1, RespondStep DEF SameBinding, Say, VerdictKinds, Live
<1> QED
  BY <1>1, <1>2 DEF Join

LEMMA LookupStep ==
  ASSUME IInv, NEW h \in Handlers, Lookup(h)
  PROVE  IInv'
<1>1. CASE assignments[req[h].id] # None /\ Join(h)
  BY <1>1, JoinStep DEF Lookup
<1>2. CASE assignments[req[h].id] = None /\ Goto(h, "probing") /\ UNCHANGED reply
  BY <1>2, MoveStep DEF Lookup, IInv, TypeOK, Live, Joined
<1> QED
  BY <1>1, <1>2 DEF Lookup

LEMMA ProbeStep ==
  ASSUME IInv, NEW h \in Handlers, Probe(h)
  PROVE  IInv'
<1> USE DEF IInv, Probe
<1>1. CASE Goto(h, "claiming") /\ UNCHANGED <<probe, reply>>
  BY <1>1, MoveStep DEF TypeOK, Live, Joined
<1>2. CASE /\ MoreExecutors(h)
           /\ probe' = [probe EXCEPT ![h] = @ + 1]
           /\ UNCHANGED <<pc, reply>>
  <2>1. probe' \in [Handlers -> Executors] /\ Goto(h, "probing")
    BY <1>2 DEF TypeOK, MoreExecutors, Executors, Goto
  <2> QED
    BY <1>2, <2>1, MoveStep DEF TypeOK, Live, Joined
<1>3. CASE Respond(h, Say("notReady", 0, 0)) /\ UNCHANGED probe
  <2>1. Say("notReady", 0, 0) \in Answer
    BY DEF Say, Answer
  <2> QED
    BY <1>3, <2>1, RespondStep DEF Say, VerdictKinds, Live
<1> QED
  BY <1>1, <1>2, <1>3

LEMMA RegisterStep ==
  ASSUME IInv, NEW h \in Handlers, Register(h)
  PROVE  IInv'
<1> USE DEF IInv, Register
<1>1. req[h].id \in RequestIds
  BY DEF TypeOK, HandlerInv, Live, Request
<1>2. notified[req[h].id] \in BOOLEAN
  BY <1>1 DEF TypeOK
<1>3. ticket' \in [Handlers -> BOOLEAN] /\ ticket'[h] = notified[req[h].id]
  BY <1>2 DEF TypeOK
<1>4. notified[req[h].id] => outcome[req[h].id] # None
  BY <1>1 DEF TaskInv
<1>5. /\ assignments[req[h].id] # None
      /\ assignments[req[h].id].content = req[h].content
  BY DEF HandlerInv, Joined
<1>6. \A g \in Handlers : pc[g] = "parked" \/ g # h => ticket'[g] = ticket[g]
  BY DEF TypeOK
<1> QED
  BY <1>3, <1>4, <1>5, <1>6, MoveStep DEF TypeOK, Live

LEMMA CheckStep ==
  ASSUME IInv, NEW h \in Handlers, Check(h)
  PROVE  IInv'
<1> USE DEF IInv, Check
<1>1. /\ req[h].id \in RequestIds
      /\ assignments[req[h].id] # None
      /\ assignments[req[h].id].content = req[h].content
  BY DEF TypeOK, HandlerInv, Live, Joined, Request
<1>2. CASE outcome[req[h].id] # None /\ Respond(h, OutcomeResponse(h))
  <2>1. outcome[req[h].id] \in Answer /\ outcome[req[h].id].kind \in VerdictKinds
    BY <1>1, <1>2 DEF TypeOK, TaskInv, ResultInv
  <2> QED
    BY <1>1, <1>2, <2>1, RespondStep DEF OutcomeResponse, VerdictKinds, Live
<1>3. CASE outcome[req[h].id] = None /\ Goto(h, "parked") /\ UNCHANGED reply
  <2>1. ~ticket[h]
    BY <1>3 DEF WaitInv
  <2> QED
    BY <1>1, <1>3, <2>1, MoveStep DEF TypeOK, Live
<1> QED
  BY <1>2, <1>3

LEMMA WakeStep ==
  ASSUME IInv, NEW h \in Handlers, Wake(h)
  PROVE  IInv'
BY MoveStep DEF IInv, Wake, TypeOK, HandlerInv, Live, Joined

LEMMA DisconnectStep ==
  ASSUME IInv, NEW h \in Handlers, Disconnect(h)
  PROVE  IInv'
BY MoveStep DEF IInv, Disconnect, AwaitPoints, TypeOK, Live, Joined

\* The claim: no other handler has joined the id, no task, POST or verdict of
\* this incarnation exists for it, and nobody was refused for capacity.
LEMMA InsertStep ==
  ASSUME IInv, NEW h \in Handlers, pc[h] = "claiming",
         assignments[req[h].id] = None, ~Full, Insert(h), Goto(h, "claimed"),
         UNCHANGED <<req, probe, ticket, reply, taskVars, posts, epoch>>
  PROVE  IInv'
<1> USE DEF IInv
<1> DEFINE id == req[h].id
           a == [content |-> req[h].content, executor |-> probe[h]]
<1>0. /\ id \in RequestIds /\ req[h] # None /\ req[h].epoch = epoch
      /\ a \in Assignment /\ a # None /\ reply[h] = None
  BY DEF TypeOK, HandlerInv, Live, Request, Assignment
<1>1. /\ task[id] = "none" /\ outcome[id] = None /\ result[id] = None
      /\ notified[id] = FALSE
  BY <1>0 DEF TypeOK, TaskInv, Settled
<1>2. /\ assignments' = [assignments EXCEPT ![id] = a]
      /\ outcome' = outcome /\ notified' = notified
  BY <1>0, <1>1 DEF TypeOK, Insert
<1>3. TypeOK'
  BY <1>0, <1>2 DEF TypeOK, Goto, taskVars
<1>4. \A g \in Handlers : pc[g] \in Joined => req[g].id # id
  BY DEF HandlerInv
<1>5. HandlerInv'
  BY <1>0, <1>2, <1>4 DEF TypeOK, HandlerInv, Goto, Live, Joined
<1>6. ClaimInv'
  <2>1. EveryClaimHasATask'
    BY <1>0, <1>2 DEF TypeOK, ClaimInv, EveryClaimHasATask, Goto, taskVars
  <2> QED
    BY <1>1, <1>4, <2>1 DEF TypeOK, ClaimInv, Goto, Joined, taskVars
<1>7. WaitInv'
  BY <1>2 DEF TypeOK, WaitInv, Goto
<1>8. TaskInv'
  BY <1>0, <1>1, <1>2 DEF TypeOK, TaskInv, taskVars
<1>9. PostInv'
  BY <1>0, <1>1, <1>2 DEF TypeOK, PostInv, AtMostOnePost, Sent, taskVars
<1>10. ResultInv'
  BY <1>0, <1>1, <1>2 DEF TypeOK, ResultInv, Truthful, taskVars
<1>11. ReplyInv' /\ VerdictsAgree'
  BY <1>0, <1>1, <1>2 DEF TypeOK, ReplyInv, VerdictsAgree, HasVerdict, Truthful
<1>12. \A g \in Handlers : Replied(g, "full") => req[g] # None /\ req[g].epoch # epoch
  BY DEF FullInv
<1>13. FullInv'
  BY <1>12 DEF FullInv, Replied
<1>14. RefusalsAreFinal'
  BY <1>0, <1>2, <1>12 DEF TypeOK, RefusalsAreFinal, Replied
<1> QED
  BY <1>3, <1>5, <1>6, <1>7, <1>8, <1>9, <1>10, <1>11, <1>13, <1>14

LEMMA ClaimStep ==
  ASSUME IInv, NEW h \in Handlers, Claim(h)
  PROVE  IInv'
<1> USE DEF Claim, Claimed
<1>1. CASE Claimed(req[h].id) /\ Join(h) /\ UNCHANGED tableVars
  BY <1>1, JoinStep
<1>2. CASE ~Claimed(req[h].id) /\ Full /\ Respond(h, Say("full", 0, 0)) /\ UNCHANGED tableVars
  <2>1. Say("full", 0, 0) \in Answer
    BY DEF Say, Answer
  <2> QED
    BY <1>2, <2>1, RespondStep DEF Say, VerdictKinds, Live
<1>3. CASE ~Claimed(req[h].id) /\ ~Full /\ Insert(h) /\ Goto(h, "claimed") /\ UNCHANGED reply
  BY <1>3, InsertStep
<1> QED
  BY <1>1, <1>2, <1>3

LEMMA SpawnStep ==
  ASSUME IInv, NEW h \in Handlers, Spawn(h)
  PROVE  IInv'
<1> USE DEF IInv, Spawn
<1> DEFINE id == req[h].id
<1>0. id \in RequestIds /\ assignments[id] # None /\ task[id] = "none"
  BY DEF TypeOK, HandlerInv, ClaimInv, Live, Joined, Request
<1>1. TypeOK'
  BY <1>0 DEF TypeOK, Goto, tableVars
<1>2. HandlerInv' /\ WaitInv'
  BY DEF TypeOK, HandlerInv, WaitInv, Goto, Live, Joined, tableVars
<1>3. ClaimInv'
  BY <1>0 DEF TypeOK, ClaimInv, EveryClaimHasATask, Goto, tableVars
<1>4. TaskInv'
  BY <1>0 DEF TypeOK, TaskInv, Settled, tableVars
<1>5. PostInv'
  BY <1>0 DEF TypeOK, PostInv, AtMostOnePost, Sent, tableVars
<1>6. ResultInv' /\ ReplyInv' /\ FullInv' /\ VerdictsAgree' /\ RefusalsAreFinal'
  BY DEF ResultInv, ReplyInv, FullInv, VerdictsAgree, RefusalsAreFinal, HasVerdict,
     Replied, Full, Truthful, tableVars
<1> QED
  BY <1>1, <1>2, <1>3, <1>4, <1>5, <1>6

-----------------------------------------------------------------------------
(* The spawned task, the executors and the restart *)

\* A step that keeps handlers, table and epoch keeps what is said of them alone.
LEMMA HandlersUnchanged ==
  ASSUME HandlerInv, FullInv, VerdictsAgree, RefusalsAreFinal,
         UNCHANGED <<handlerVars, assignments, epoch>>
  PROVE  HandlerInv' /\ FullInv' /\ VerdictsAgree' /\ RefusalsAreFinal'
BY DEF HandlerInv, FullInv, VerdictsAgree, RefusalsAreFinal, HasVerdict, Replied, Full,
   handlerVars

LEMMA SendPostStep ==
  ASSUME IInv, NEW id \in RequestIds, SendPost(id)
  PROVE  IInv'
<1> USE DEF IInv, SendPost
<1> DEFINE p == [id |-> id, content |-> assignments[id].content,
                 executor |-> assignments[id].executor,
                 epoch |-> epoch, fate |-> "wire"]
<1>0. /\ assignments[id] \in Assignment /\ p \in Post
      /\ result[id] = None /\ outcome[id] = None
  BY DEF TypeOK, TaskInv, Assignment, Post, Settled
<1>1. /\ posts \in Seq(Post) /\ Len(posts) \in Nat /\ DOMAIN posts = 1..Len(posts)
      /\ posts' = Append(posts, p) /\ posts' \in Seq(Post)
      /\ DOMAIN posts' = 1..(Len(posts) + 1)
      /\ \A n \in DOMAIN posts : posts'[n] = posts[n]
      /\ posts'[Len(posts) + 1] = p
  BY <1>0 DEF TypeOK
<1>2. TypeOK'
  BY <1>1 DEF TypeOK, handlerVars, tableVars
<1>3. HandlerInv' /\ FullInv' /\ VerdictsAgree' /\ RefusalsAreFinal'
  BY HandlersUnchanged DEF tableVars
<1>4. ClaimInv' /\ WaitInv'
  BY DEF TypeOK, ClaimInv, WaitInv, EveryClaimHasATask, handlerVars, tableVars
<1>5. TaskInv'
  BY <1>0 DEF TypeOK, TaskInv, Settled, tableVars
<1>6. PostInv'
  <2>1. \A n \in DOMAIN posts : ~(posts[n].id = id /\ posts[n].epoch = epoch)
    BY DEF PostInv, Sent
  <2>2. /\ epoch \in Nat /\ \A n \in DOMAIN posts : posts[n] \in Post
    BY <1>1 DEF TypeOK
  <2> QED
    BY <1>0, <1>1, <2>1, <2>2 DEF TypeOK, PostInv, AtMostOnePost, Sent, Post, tableVars
<1>7. \A r : (r.id # id \/ r.epoch # epoch) => \A a : Truthful(a, r) => Truthful(a, r)'
  BY <1>1 DEF Truthful
<1>8. ResultInv'
  BY <1>0, <1>1 DEF ResultInv, Truthful, tableVars
<1>9. ReplyInv'
  BY <1>0, <1>1 DEF ReplyInv, HasVerdict, Truthful, handlerVars, tableVars
<1> QED
  BY <1>2, <1>3, <1>4, <1>5, <1>6, <1>8, <1>9

LEMMA DeliverStep ==
  ASSUME IInv, NEW n \in DOMAIN posts, Deliver(n)
  PROVE  IInv'
<1> USE DEF IInv, Deliver
<1>1. PICK fate \in {"built", "refused"} : posts' = [posts EXCEPT ![n].fate = fate]
  OBVIOUS
<1>2. /\ posts \in Seq(Post) /\ n \in 1..Len(posts) /\ posts[n] \in Post
  BY DEF TypeOK
<1>3. [posts[n] EXCEPT !.fate = fate] \in Post
  BY <1>1, <1>2 DEF Post
<1>4. posts' \in Seq(Post) /\ DOMAIN posts' = DOMAIN posts
  BY <1>1, <1>2, <1>3, ExceptSeq
<1>5. \A m \in DOMAIN posts :
        /\ posts'[m].id = posts[m].id /\ posts'[m].epoch = posts[m].epoch
        /\ posts'[m].content = posts[m].content
        /\ posts'[m].executor = posts[m].executor
        /\ posts[m].fate # "wire" => posts'[m].fate = posts[m].fate
  BY <1>1, <1>2 DEF Post
<1>6. TypeOK'
  BY <1>4 DEF TypeOK, handlerVars, tableVars, taskVars
<1>7. HandlerInv' /\ FullInv' /\ VerdictsAgree' /\ RefusalsAreFinal'
  BY HandlersUnchanged DEF tableVars
<1>8. ClaimInv' /\ WaitInv' /\ TaskInv'
  BY DEF ClaimInv, WaitInv, TaskInv, EveryClaimHasATask, handlerVars, tableVars, taskVars
<1>9. PostInv'
  BY <1>4, <1>5 DEF PostInv, AtMostOnePost, tableVars, taskVars
<1>10. ResultInv'
  BY <1>4, <1>5 DEF ResultInv, Truthful, tableVars, taskVars
<1>11. ReplyInv'
  BY <1>4, <1>5 DEF ReplyInv, HasVerdict, Truthful, handlerVars, tableVars
<1> QED
  BY <1>6, <1>7, <1>8, <1>9, <1>10, <1>11

LEMMA SettleStep ==
  ASSUME IInv, NEW id \in RequestIds, Settle(id)
  PROVE  IInv'
<1> USE DEF IInv, Settle
<1> DEFINE n == wire[id]
<1>1. PICK v \in Verdicts(n) : result' = [result EXCEPT ![id] = v]
  OBVIOUS
<1>2. /\ n \in DOMAIN posts /\ n \in Nat /\ posts[n] \in Post
      /\ posts[n].id = id /\ posts[n].epoch = epoch
      /\ posts[n].content = assignments[id].content
  BY DEF TypeOK, PostInv, Sent
<1>3. \A m \in DOMAIN posts : posts[m].id = id /\ posts[m].epoch = epoch => m = n
  BY DEF PostInv
<1>4. /\ v \in Answer /\ v # None /\ v.kind \in VerdictKinds
      /\ Truthful(v, [id |-> id, content |-> assignments[id].content, epoch |-> epoch])
  BY <1>1, <1>2, <1>3 DEF Verdicts, Say, Answer, VerdictKinds, Truthful, Post, Executors
<1>5. TypeOK'
  BY <1>1, <1>4 DEF TypeOK, handlerVars, tableVars
<1>6. HandlerInv' /\ FullInv' /\ VerdictsAgree' /\ RefusalsAreFinal'
  BY HandlersUnchanged DEF tableVars
<1>7. ClaimInv' /\ WaitInv'
  BY DEF TypeOK, ClaimInv, WaitInv, EveryClaimHasATask, handlerVars, tableVars
<1>8. TaskInv'
  BY <1>1, <1>4 DEF TypeOK, TaskInv, Settled, tableVars
<1>9. PostInv'
  BY DEF TypeOK, PostInv, AtMostOnePost, Sent, tableVars
<1>10. ResultInv'
  BY <1>1, <1>4 DEF TypeOK, ResultInv, Truthful, tableVars
<1>11. ReplyInv'
  BY DEF ReplyInv, HasVerdict, Truthful, handlerVars, tableVars
<1> QED
  BY <1>5, <1>6, <1>7, <1>8, <1>9, <1>10, <1>11

LEMMA StoreStep ==
  ASSUME IInv, NEW id \in RequestIds, Store(id)
  PROVE  IInv'
<1> USE DEF IInv, Store
<1>0. outcome[id] = None /\ result[id] \in Answer
  BY DEF TypeOK, TaskInv, Settled
<1>1. TypeOK'
  BY <1>0 DEF TypeOK, handlerVars
<1>2. HandlerInv' /\ FullInv' /\ VerdictsAgree' /\ RefusalsAreFinal'
  BY HandlersUnchanged
<1>3. ClaimInv' /\ WaitInv'
  BY <1>0 DEF TypeOK, ClaimInv, WaitInv, TaskInv, EveryClaimHasATask, Settled, handlerVars
<1>4. TaskInv'
  BY <1>0 DEF TypeOK, TaskInv, Settled
<1>5. PostInv' /\ ResultInv'
  BY DEF TypeOK, PostInv, AtMostOnePost, ResultInv, Truthful, Sent
<1>6. ReplyInv'
  BY <1>0 DEF TypeOK, ReplyInv, HasVerdict, Truthful, handlerVars
<1> QED
  BY <1>1, <1>2, <1>3, <1>4, <1>5, <1>6

LEMMA NotifyWaitersStep ==
  ASSUME IInv, NEW id \in RequestIds, NotifyWaiters(id)
  PROVE  IInv'
<1> USE DEF IInv, NotifyWaiters
<1>1. TypeOK'
  BY DEF TypeOK, handlerVars
<1>2. HandlerInv' /\ FullInv' /\ VerdictsAgree' /\ RefusalsAreFinal'
  BY HandlersUnchanged
<1>3. ClaimInv' /\ WaitInv'
  BY DEF TypeOK, ClaimInv, WaitInv, EveryClaimHasATask, handlerVars
<1>4. TaskInv'
  BY DEF TypeOK, TaskInv, Settled
<1>5. PostInv' /\ ResultInv'
  BY DEF TypeOK, PostInv, AtMostOnePost, ResultInv, Truthful, Sent
<1>6. ReplyInv'
  BY DEF ReplyInv, HasVerdict, Truthful, handlerVars
<1> QED
  BY <1>1, <1>2, <1>3, <1>4, <1>5, <1>6

LEMMA RestartStep ==
  ASSUME IInv, Restart
  PROVE  IInv'
<1> USE DEF IInv, Restart
<1>0. epoch \in Nat /\ epoch' = epoch + 1
  BY DEF TypeOK
<1>1. /\ \A h \in Handlers : req[h] # None => req[h].epoch < epoch'
      /\ \A n \in DOMAIN posts : posts[n].epoch <= epoch' /\ posts[n].epoch # epoch'
  <2>1. /\ \A h \in Handlers : req[h] # None => req[h] \in Request
        /\ \A n \in DOMAIN posts : posts[n] \in Post
    BY DEF TypeOK
  <2> QED
    BY <1>0, <2>1 DEF HandlerInv, PostInv, Request, Post
<1>2. TypeOK'
  BY <1>0 DEF TypeOK
<1>3. HandlerInv'
  BY <1>0, <1>1, <1>2 DEF TypeOK, HandlerInv, Live, Joined, Request
<1>4. ClaimInv' /\ WaitInv'
  BY DEF ClaimInv, WaitInv, EveryClaimHasATask
<1>5. TaskInv' /\ ResultInv'
  BY DEF TaskInv, ResultInv, Settled
<1>6. PostInv'
  BY <1>1 DEF PostInv, AtMostOnePost, Sent
<1>7. ReplyInv' /\ FullInv' /\ VerdictsAgree' /\ RefusalsAreFinal'
  BY <1>0, <1>1 DEF ReplyInv, FullInv, VerdictsAgree, RefusalsAreFinal, HasVerdict,
     Replied, Truthful
<1> QED
  BY <1>2, <1>3, <1>4, <1>5, <1>6, <1>7

LEMMA StutterStep ==
  ASSUME IInv, UNCHANGED vars
  PROVE  IInv'
<1> USE DEF vars, handlerVars, tableVars, taskVars
<1>1. TypeOK'
  BY DEF IInv, TypeOK
<1>2. HandlerInv' /\ FullInv' /\ VerdictsAgree' /\ RefusalsAreFinal'
  BY HandlersUnchanged DEF IInv
<1>3. TaskInv' /\ PostInv' /\ ResultInv'
  BY SharedUnchanged DEF IInv
<1>4. ClaimInv' /\ WaitInv' /\ ReplyInv'
  BY DEF IInv, ClaimInv, WaitInv, ReplyInv, EveryClaimHasATask, HasVerdict, Truthful
<1> QED
  BY <1>1, <1>2, <1>3, <1>4 DEF IInv

-----------------------------------------------------------------------------
\* The inductive step: every action of the router preserves IInv.
LEMMA NextIInv == IInv /\ [Next]_vars => IInv'
<1> SUFFICES ASSUME IInv, [Next]_vars PROVE IInv'
  OBVIOUS
<1>1. ASSUME NEW h \in Handlers,
             Refuse(h) \/ Receive(h) \/ HandlerStep(h) \/ Disconnect(h)
      PROVE  IInv'
  BY <1>1, RefuseStep, ReceiveStep, LookupStep, ProbeStep, ClaimStep, SpawnStep,
     RegisterStep, CheckStep, WakeStep, DisconnectStep DEF HandlerStep
<1>2. ASSUME NEW id \in RequestIds, TaskStep(id)
      PROVE  IInv'
  BY <1>2, SendPostStep, SettleStep, StoreStep, NotifyWaitersStep DEF TaskStep
<1>3. ASSUME NEW n \in DOMAIN posts, Deliver(n)
      PROVE  IInv'
  BY <1>3, DeliverStep
<1>4. CASE Restart
  BY <1>4, RestartStep
<1>5. CASE Quiescent \/ UNCHANGED vars
  BY <1>5, StutterStep DEF Quiescent
<1> QED
  BY <1>1, <1>2, <1>3, <1>4, <1>5 DEF Next

\* IInv holds in every reachable state, for all sets of calls, ids and contents.
THEOREM Invariance == Spec => []IInv
<1>1. Init => IInv
  BY InitIInv
<1>2. IInv /\ [Next]_vars => IInv'
  BY NextIInv
<1> QED
  BY <1>1, <1>2, PTL DEF Spec

\* Every variable keeps its type.
THEOREM TypeCorrect == Spec => []TypeOK
<1>1. IInv => TypeOK
  BY DEF IInv
<1> QED
  BY <1>1, Invariance, PTL

\* However copies of a request interleave, an incarnation posts it at most once.
THEOREM OnePost == Spec => []AtMostOnePost
<1>1. IInv => AtMostOnePost
  BY DEF IInv, PostInv
<1> QED
  BY <1>1, Invariance, PTL

\* All copies of a request are told the one outcome of its submission.
THEOREM OneVerdict == Spec => []VerdictsAgree
<1>1. IInv => VerdictsAgree
  BY DEF IInv
<1> QED
  BY <1>1, Invariance, PTL

\* A 202 names a build that exists on that executor for that request.
THEOREM TruthfulAcceptance == Spec => []AcceptedIsBuilt
<1>1. IInv => AcceptedIsBuilt
  <2> SUFFICES ASSUME IInv, NEW h \in Handlers, Replied(h, "accepted")
               PROVE  \E n \in DOMAIN posts :
                        /\ n = reply[h].build
                        /\ posts[n] = [id |-> req[h].id, content |-> req[h].content,
                                       executor |-> reply[h].executor,
                                       epoch |-> req[h].epoch, fate |-> "built"]
    BY DEF AcceptedIsBuilt
  <2> DEFINE n == reply[h].build
  <2>1. /\ n \in DOMAIN posts
        /\ posts[n].id = req[h].id /\ posts[n].content = req[h].content
        /\ posts[n].executor = reply[h].executor
        /\ posts[n].epoch = req[h].epoch /\ posts[n].fate = "built"
    BY DEF IInv, ReplyInv, HasVerdict, Replied, VerdictKinds, Truthful
  <2>2. posts[n] \in Post
    BY <2>1 DEF IInv, TypeOK
  <2> QED
    BY <2>1, <2>2 DEF Post
<1> QED
  BY <1>1, Invariance, PTL

\* What a client was told is rejected is never built, however late the POST arrives.
THEOREM TruthfulRejection == Spec => []RejectedMeansNoBuild
<1>1. IInv => RejectedMeansNoBuild
  BY DEF IInv, ReplyInv, RejectedMeansNoBuild, HasVerdict, Replied, VerdictKinds, Truthful
<1> QED
  BY <1>1, Invariance, PTL

\* Capacity and conflict refusals stay right while the router runs.
THEOREM FinalRefusals == Spec => []RefusalsAreFinal
<1>1. IInv => RefusalsAreFinal
  BY DEF IInv
<1> QED
  BY <1>1, Invariance, PTL

\* No claim is ever left without a handler about to spawn its task.
THEOREM NoOrphanedClaim == Spec => []EveryClaimHasATask
<1>1. IInv => EveryClaimHasATask
  BY DEF IInv, ClaimInv
<1> QED
  BY <1>1, Invariance, PTL

\* A sleeping handler whose assignment was notified is awake or about to be.
THEOREM NoSleeperIsMissed == Spec => []NoLostWakeup
<1>1. IInv => NoLostWakeup
  BY DEF IInv, WaitInv, TaskInv, TypeOK, HandlerInv, Live, NoLostWakeup
<1> QED
  BY <1>1, Invariance, PTL

\* Neither the binding nor the outcome of a requestId changes once retained.
THEOREM RetentionIsFinal == Spec => RetainedNeverChanges
<1> DEFINE Kept == \A id \in RequestIds : epoch' = epoch =>
                     /\ assignments[id] # None => assignments'[id] = assignments[id]
                     /\ outcome[id] # None => outcome'[id] = outcome[id]
<1>1. ASSUME IInv, [Next]_vars PROVE Kept
  <2>1. ASSUME NEW h \in Handlers,
               Refuse(h) \/ Receive(h) \/ HandlerStep(h) \/ Disconnect(h)
        PROVE  Kept
    <3>1. CASE UNCHANGED tableVars
      BY <3>1 DEF tableVars
    <3>2. CASE Claim(h) /\ ~Claimed(req[h].id) /\ Insert(h)
      <4>1. req[h].id \in RequestIds
        BY <1>1, <3>2 DEF IInv, TypeOK, HandlerInv, Claim, Live, Request
      <4>2. outcome[req[h].id] = None
        BY <1>1, <3>2, <4>1 DEF IInv, TaskInv, Claimed
      <4> QED
        BY <1>1, <3>2, <4>1, <4>2 DEF IInv, TypeOK, Claimed, Insert
    <3> QED
      BY <2>1, <3>1, <3>2 DEF Refuse, Receive, HandlerStep, Disconnect, Lookup, Probe,
         Claim, Spawn, Register, Check, Wake
  <2>2. ASSUME NEW id \in RequestIds, TaskStep(id) PROVE Kept
    <3>1. CASE Store(id)
      BY <1>1, <3>1 DEF Store, IInv, TypeOK, TaskInv
    <3> QED
      BY <2>2, <3>1 DEF TaskStep, SendPost, Settle, NotifyWaiters, tableVars
  <2>3. ASSUME NEW n \in DOMAIN posts, Deliver(n) PROVE Kept
    BY <2>3 DEF Deliver, tableVars
  <2>4. CASE Restart
    BY <1>1, <2>4 DEF Restart, IInv, TypeOK
  <2>5. CASE Quiescent \/ UNCHANGED vars
    BY <2>5 DEF Quiescent, vars, tableVars
  <2> QED
    BY <1>1, <2>1, <2>2, <2>3, <2>4, <2>5 DEF Next
<1>2. IInv /\ [Next]_vars => [Kept]_vars
  BY <1>1
<1> QED
  BY <1>2, Invariance, PTL DEF Spec, RetainedNeverChanges
=============================================================================
