-------------------------- MODULE RouterRefinement --------------------------
(* ExecutorRouter implements SubmitOnce.                                    *)
EXTENDS ExecutorRouter

Asked == [id : RequestIds, content : Contents]

ASSUME NoneIsNotAsked == None \notin Asked

\* A call whose client left, or whose router died, asks for nothing any more.
AskedNow(h) ==
  IF pc[h] = "gone" \/ req[h] = None THEN None
  ELSE [id |-> req[h].id, content |-> req[h].content]

\* The POSTs the running incarnation has sent for id.
SendsNow(id) == {n \in DOMAIN posts : posts[n].id = id /\ posts[n].epoch = epoch}

Promise == INSTANCE SubmitOnce WITH
  Calls <- Handlers,
  asked <- [h \in Handlers |-> AskedNow(h)],
  answer <- reply,
  bound <- assignments,
  sends <- [id \in RequestIds |-> SendsNow(id)],
  verdict <- result

\* Whatever its handlers and tasks do, the router keeps SubmitOnce's promise:
\* one binding, one submission and one verdict per requestId.
ImplementsSubmitOnce == Promise!Spec
=============================================================================
