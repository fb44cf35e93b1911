----------------------- MODULE RouterRefinementProofs -----------------------
(* ExecutorRouter implements SubmitOnce, for all values of the constants.   *)
EXTENDS ExecutorRouterProofs, RouterRefinement

asked == [h \in Handlers |-> AskedNow(h)]
sends == [id \in RequestIds |-> SendsNow(id)]

USE DEF asked, sends

LEMMA InitRefines == Init => Promise!Init
BY DEF Init, Promise!Init, AskedNow, SendsNow

\* A step that keeps requests, answers, bindings, POSTs and verdicts, and ends
\* no call, is a stuttering step of the promise.
LEMMA AbstractStutter ==
  ASSUME UNCHANGED <<reply, assignments, result, req, posts, epoch>>,
         \A h \in Handlers : pc'[h] = "gone" <=> pc[h] = "gone"
  PROVE  UNCHANGED Promise!vars
<1>1. \A h \in Handlers : AskedNow(h)' = AskedNow(h)
  BY DEF AskedNow
<1>2. \A id \in RequestIds : SendsNow(id)' = SendsNow(id)
  BY DEF SendsNow
<1> QED
  BY <1>1, <1>2 DEF Promise!vars

LEMMA MoveRefines ==
  ASSUME IInv, NEW h \in Handlers, NEW at \in Live, Goto(h, at), pc[h] \in Live,
         UNCHANGED <<reply, assignments, result, req, posts, epoch>>
  PROVE  UNCHANGED Promise!vars
<1>1. \A g \in Handlers : pc'[g] = "gone" <=> pc[g] = "gone"
  BY DEF IInv, TypeOK, Goto, Live
<1> QED
  BY <1>1, AbstractStutter

\* What a live handler's answer leaves of the abstract state.
LEMMA RespondRefines ==
  ASSUME IInv, NEW h \in Handlers, NEW a, pc[h] \in Live, Respond(h, a),
         UNCHANGED <<req, tableVars, taskVars, posts, epoch>>
  PROVE  /\ asked' = asked /\ sends' = sends
         /\ reply' = [reply EXCEPT ![h] = a]
         /\ UNCHANGED <<assignments, result>>
         /\ reply[h] = None /\ asked[h] # None
         /\ asked[h].id = req[h].id /\ asked[h].content = req[h].content
<1>0. pc[h] # "replied" /\ req[h] \in Request /\ req[h] # None
  BY DEF IInv, TypeOK, HandlerInv, Live
<1>1. \A g \in Handlers : AskedNow(g)' = AskedNow(g)
  BY DEF IInv, TypeOK, AskedNow, Respond, Goto, Live
<1>2. \A id \in RequestIds : SendsNow(id)' = SendsNow(id)
  BY DEF SendsNow
<1>3. asked[h] = [id |-> req[h].id, content |-> req[h].content]
  BY <1>0 DEF AskedNow, Live
<1>4. [id |-> req[h].id, content |-> req[h].content] # None
  BY <1>0, NoneIsNotAsked DEF Asked, Request
<1> QED
  BY <1>0, <1>1, <1>2, <1>3, <1>4 DEF Respond, IInv, HandlerInv, tableVars, taskVars

LEMMA RefuseRefines ==
  ASSUME IInv, NEW h \in Handlers, Refuse(h)
  PROVE  Promise!Decline(h)
<1>1. PICK kind \in Refusals : Respond(h, Say(kind, 0, 0))
  BY DEF Refuse
<1>2. reply[h] = None /\ reply' = [reply EXCEPT ![h] = Say(kind, 0, 0)]
  BY <1>1 DEF IInv, HandlerInv, Refuse, Respond
<1>3. \A g \in Handlers : AskedNow(g)' = AskedNow(g)
  BY <1>1 DEF Refuse, IInv, TypeOK, AskedNow, Respond, Goto
<1>4. \A id \in RequestIds : SendsNow(id)' = SendsNow(id)
  BY DEF Refuse, SendsNow
<1> QED
  BY <1>1, <1>2, <1>3, <1>4 DEF Promise!Decline, Refuse, Refusals, Say, tableVars, taskVars

LEMMA ReceiveRefines ==
  ASSUME IInv, NEW h \in Handlers, Receive(h)
  PROVE  Promise!Ask(h)
<1>1. PICK id \in RequestIds, c \in Contents :
        req' = [req EXCEPT ![h] = [id |-> id, content |-> c, epoch |-> epoch]]
  BY DEF Receive
<1>2. reply[h] = None /\ req[h] = None
  BY DEF IInv, HandlerInv, Receive
<1>3. [id |-> id, content |-> c, epoch |-> epoch] # None
  BY <1>1, NoneAssumption DEF IInv, TypeOK, Request
<1>4. /\ pc'[h] # "gone"
      /\ \A g \in Handlers \ {h} : pc'[g] = pc[g] /\ req'[g] = req[g]
      /\ req'[h] = [id |-> id, content |-> c, epoch |-> epoch] /\ req'[h] # None
  BY <1>1, <1>3 DEF IInv, TypeOK, Receive, Goto
<1>5. /\ AskedNow(h) = None /\ AskedNow(h)' = [id |-> id, content |-> c]
      /\ \A g \in Handlers \ {h} : AskedNow(g)' = AskedNow(g)
  BY <1>2, <1>4 DEF AskedNow
<1>6. \A i \in RequestIds : SendsNow(i)' = SendsNow(i)
  BY DEF Receive, SendsNow
<1>7. asked' = [asked EXCEPT ![h] = [id |-> id, content |-> c]]
  BY <1>5
<1> QED
  BY <1>2, <1>5, <1>6, <1>7 DEF Promise!Ask, Receive, tableVars, taskVars

LEMMA JoinRefines ==
  ASSUME IInv, NEW h \in Handlers, pc[h] \in {"lookup", "claiming"},
         assignments[req[h].id] # None, Join(h),
         UNCHANGED <<req, tableVars, taskVars, posts, epoch>>
  PROVE  Promise!Conflict(h) \/ UNCHANGED Promise!vars
<1>1. CASE Goto(h, "register") /\ UNCHANGED reply
  BY <1>1, MoveRefines DEF Live, tableVars, taskVars
<1>2. CASE ~SameBinding(h) /\ Respond(h, Say("conflict", assignments[req[h].id].executor, 0))
  BY <1>2, RespondRefines DEF Live, Say, SameBinding, Promise!Conflict, Promise!Waiting
<1> QED
  BY <1>1, <1>2 DEF Join

LEMMA LookupRefines ==
  ASSUME IInv, NEW h \in Handlers, Lookup(h)
  PROVE  Promise!Conflict(h) \/ UNCHANGED Promise!vars
<1>1. CASE assignments[req[h].id] # None /\ Join(h)
  BY <1>1, JoinRefines DEF Lookup
<1>2. CASE Goto(h, "probing") /\ UNCHANGED reply
  BY <1>2, MoveRefines DEF Lookup, Live, tableVars, taskVars
<1> QED
  BY <1>1, <1>2 DEF Lookup

LEMMA ProbeRefines ==
  ASSUME IInv, NEW h \in Handlers, Probe(h)
  PROVE  Promise!Decline(h) \/ UNCHANGED Promise!vars
<1> USE DEF Probe
<1>1. CASE Goto(h, "claiming") /\ UNCHANGED <<probe, reply>>
  BY <1>1, MoveRefines DEF Live, tableVars, taskVars
<1>2. CASE UNCHANGED <<pc, reply>>
  BY <1>2, AbstractStutter DEF tableVars, taskVars
<1>3. CASE Respond(h, Say("notReady", 0, 0))
  BY <1>3, RespondRefines DEF Live, Say, Promise!Decline
<1> QED
  BY <1>1, <1>2, <1>3

LEMMA InsertRefines ==
  ASSUME IInv, NEW h \in Handlers, pc[h] = "claiming",
         assignments[req[h].id] = None, Insert(h), Goto(h, "claimed"),
         UNCHANGED <<req, reply, taskVars, posts, epoch>>
  PROVE  Promise!Bind(req[h].id)
<1>1. /\ req[h] \in Request /\ req[h] # None /\ reply[h] = None
      /\ probe[h] \in Executors
  BY DEF IInv, TypeOK, HandlerInv, Live
<1>2. /\ asked[h] = [id |-> req[h].id, content |-> req[h].content]
      /\ asked[h] # None
  BY <1>1, NoneIsNotAsked DEF AskedNow, Asked, Request
<1>3. \A g \in Handlers : AskedNow(g)' = AskedNow(g)
  BY DEF IInv, TypeOK, AskedNow, Goto
<1>4. \A id \in RequestIds : SendsNow(id)' = SendsNow(id)
  BY DEF SendsNow
<1>5. asked[h].id = req[h].id /\ asked[h].content = req[h].content
  BY <1>2
<1>6. Promise!Waiting(h)
  BY <1>1, <1>2 DEF Promise!Waiting
<1>7. assignments' = [assignments EXCEPT ![req[h].id] =
                        [content |-> asked[h].content, executor |-> probe[h]]]
  BY <1>5 DEF Insert
<1> QED
  BY <1>1, <1>3, <1>4, <1>5, <1>6, <1>7 DEF Promise!Bind, taskVars

LEMMA ClaimRefines ==
  ASSUME IInv, NEW h \in Handlers, Claim(h)
  PROVE  \/ Promise!Conflict(h) \/ Promise!Decline(h)
         \/ \E id \in RequestIds : Promise!Bind(id)
         \/ UNCHANGED Promise!vars
<1> USE DEF Claim, Claimed
<1>1. CASE Claimed(req[h].id) /\ Join(h) /\ UNCHANGED tableVars
  BY <1>1, JoinRefines
<1>2. CASE Respond(h, Say("full", 0, 0)) /\ UNCHANGED tableVars
  BY <1>2, RespondRefines DEF Live, Say, Promise!Decline
<1>3. CASE ~Claimed(req[h].id) /\ Insert(h) /\ Goto(h, "claimed") /\ UNCHANGED reply
  <2>1. req[h].id \in RequestIds
    BY DEF IInv, TypeOK, HandlerInv, Live, Request
  <2> QED
    BY <1>3, <2>1, InsertRefines
<1> QED
  BY <1>1, <1>2, <1>3

LEMMA CheckRefines ==
  ASSUME IInv, NEW h \in Handlers, Check(h)
  PROVE  Promise!Tell(h) \/ UNCHANGED Promise!vars
<1> USE DEF Check
<1>1. CASE outcome[req[h].id] # None /\ Respond(h, OutcomeResponse(h))
  <2>1. /\ result[req[h].id] = outcome[req[h].id]
        /\ assignments[req[h].id].content = req[h].content
    BY <1>1 DEF IInv, TypeOK, HandlerInv, TaskInv, Live, Joined, Request
  <2> QED
    BY <1>1, <2>1, RespondRefines DEF Live, OutcomeResponse, Promise!Tell, Promise!Waiting
<1>2. CASE Goto(h, "parked") /\ UNCHANGED reply
  BY <1>2, MoveRefines DEF Live, tableVars, taskVars
<1> QED
  BY <1>1, <1>2

LEMMA DisconnectRefines ==
  ASSUME IInv, NEW h \in Handlers, Disconnect(h)
  PROVE  Promise!Leave(h)
<1> USE DEF Disconnect, AwaitPoints
<1>1. req[h] \in Request /\ req[h] # None /\ reply[h] = None
  BY DEF IInv, TypeOK, HandlerInv, Live
<1>2. asked[h] = [id |-> req[h].id, content |-> req[h].content] /\ asked[h] # None
  BY <1>1, NoneIsNotAsked DEF AskedNow, Asked, Request
<1>3. /\ AskedNow(h)' = None
      /\ \A g \in Handlers \ {h} : AskedNow(g)' = AskedNow(g)
  BY DEF IInv, TypeOK, AskedNow, Goto
<1>4. \A id \in RequestIds : SendsNow(id)' = SendsNow(id)
  BY DEF SendsNow
<1>5. asked' = [asked EXCEPT ![h] = None]
  BY <1>3
<1> QED
  BY <1>1, <1>2, <1>4, <1>5 DEF Promise!Leave, Promise!Waiting, tableVars, taskVars

-----------------------------------------------------------------------------
LEMMA SendPostRefines ==
  ASSUME IInv, NEW id \in RequestIds, SendPost(id)
  PROVE  Promise!Send(id)
<1> USE DEF SendPost
<1> DEFINE k == Len(posts) + 1
<1>1. /\ Len(posts) \in Nat /\ DOMAIN posts = 1..Len(posts)
      /\ DOMAIN posts' = DOMAIN posts \cup {k}
      /\ posts'[k].id = id /\ posts'[k].epoch = epoch
      /\ \A n \in DOMAIN posts : posts'[n] = posts[n]
  BY DEF IInv, TypeOK
<1>2. SendsNow(id) = {} /\ assignments[id] # None
  BY DEF IInv, PostInv, TaskInv, Sent, SendsNow
<1>3. SendsNow(id)' = {k}
  BY <1>1, <1>2 DEF SendsNow
<1>4. \A i \in RequestIds \ {id} : SendsNow(i)' = SendsNow(i)
  BY <1>1 DEF SendsNow
<1>5. sends' = [sends EXCEPT ![id] = {k}]
  BY <1>3, <1>4
<1>6. \A h \in Handlers : AskedNow(h)' = AskedNow(h)
  BY DEF AskedNow, handlerVars
<1> QED
  BY <1>2, <1>3, <1>5, <1>6 DEF Promise!Send, handlerVars, tableVars

LEMMA DeliverRefines ==
  ASSUME IInv, NEW n \in DOMAIN posts, Deliver(n)
  PROVE  UNCHANGED Promise!vars
<1>1. PICK fate \in {"built", "refused"} : posts' = [posts EXCEPT ![n].fate = fate]
  BY DEF Deliver
<1>2. /\ DOMAIN posts' = DOMAIN posts
      /\ \A m \in DOMAIN posts : /\ posts'[m].id = posts[m].id
                                /\ posts'[m].epoch = posts[m].epoch
  BY <1>1 DEF IInv, TypeOK, Post
<1>3. \A id \in RequestIds : SendsNow(id)' = SendsNow(id)
  BY <1>2 DEF SendsNow, Deliver
<1>4. \A h \in Handlers : AskedNow(h)' = AskedNow(h)
  BY DEF AskedNow, handlerVars, Deliver
<1> QED
  BY <1>3, <1>4 DEF Promise!vars, Deliver, handlerVars, tableVars, taskVars

LEMMA SettleRefines ==
  ASSUME IInv, NEW id \in RequestIds, Settle(id)
  PROVE  Promise!Decide(id)
<1> DEFINE n == wire[id]
<1>1. PICK v \in Verdicts(n) : result' = [result EXCEPT ![id] = v]
  BY DEF Settle
<1>2. /\ n \in SendsNow(id) /\ result[id] = None
      /\ posts[n].executor = assignments[id].executor
  BY DEF Settle, IInv, PostInv, TaskInv, Sent, Settled, SendsNow
<1>3. \E kind \in {"accepted", "rejected", "ambiguous"}, b \in sends[id] \cup {0} :
        /\ kind = "accepted" => b \in sends[id]
        /\ v = [kind |-> kind, executor |-> assignments[id].executor, build |-> b]
  BY <1>2 DEF Verdicts, Say
<1>4. \A i \in RequestIds : SendsNow(i)' = SendsNow(i)
  BY DEF Settle, SendsNow
<1>5. \A h \in Handlers : AskedNow(h)' = AskedNow(h)
  BY DEF Settle, AskedNow, handlerVars
<1> QED
  BY <1>1, <1>2, <1>3, <1>4, <1>5 DEF Promise!Decide, Settle, handlerVars, tableVars

LEMMA RestartRefines ==
  ASSUME IInv, Restart
  PROVE  Promise!Forget
<1> USE DEF Restart
<1>1. epoch \in Nat /\ epoch' = epoch + 1
  BY DEF IInv, TypeOK
<1>2. \A id \in RequestIds : SendsNow(id)' = {}
  BY <1>1 DEF IInv, PostInv, SendsNow
<1>3. \A h \in Handlers : AskedNow(h)' = IF reply[h] = None THEN None ELSE asked[h]
  BY DEF IInv, TypeOK, HandlerInv, AskedNow
<1> QED
  BY <1>2, <1>3 DEF Promise!Forget

LEMMA NextRefines == IInv /\ [Next]_vars => [Promise!Next]_(Promise!vars)
<1> SUFFICES ASSUME IInv, [Next]_vars PROVE Promise!Next \/ UNCHANGED Promise!vars
  OBVIOUS
<1>1. ASSUME NEW h \in Handlers,
             Refuse(h) \/ Receive(h) \/ HandlerStep(h) \/ Disconnect(h)
      PROVE  Promise!Next \/ UNCHANGED Promise!vars
  <2>1. CASE Spawn(h) \/ Register(h) \/ Wake(h)
    BY <2>1, MoveRefines DEF Spawn, Register, Wake, Live, tableVars, taskVars
  <2> QED
    BY <1>1, <2>1, RefuseRefines, ReceiveRefines, LookupRefines, ProbeRefines,
       ClaimRefines, CheckRefines, DisconnectRefines DEF HandlerStep, Promise!Next
<1>2. ASSUME NEW id \in RequestIds, TaskStep(id)
      PROVE  Promise!Next \/ UNCHANGED Promise!vars
  <2>1. CASE Store(id) \/ NotifyWaiters(id)
    BY <2>1, AbstractStutter DEF Store, NotifyWaiters, handlerVars
  <2> QED
    BY <1>2, <2>1, SendPostRefines, SettleRefines DEF TaskStep, Promise!Next
<1>3. ASSUME NEW n \in DOMAIN posts, Deliver(n)
      PROVE  UNCHANGED Promise!vars
  BY <1>3, DeliverRefines
<1>4. CASE Restart
  BY <1>4, RestartRefines DEF Promise!Next
<1>5. CASE Quiescent \/ UNCHANGED vars
  BY <1>5, AbstractStutter DEF Quiescent, vars, handlerVars, tableVars, taskVars
<1> QED
  BY <1>1, <1>2, <1>3, <1>4, <1>5 DEF Next

\* Every behaviour of the router's handlers, tasks, executors and restarts is
\* one SubmitOnce allows: one binding, one submission, one verdict.
THEOREM Refinement == Spec => ImplementsSubmitOnce
<1>1. Init => Promise!Init
  BY InitRefines
<1>2. IInv /\ [Next]_vars => [Promise!Next]_(Promise!vars)
  BY NextRefines
<1> QED
  BY <1>1, <1>2, Invariance, PTL DEF Spec, ImplementsSubmitOnce, Promise!Spec
=============================================================================
