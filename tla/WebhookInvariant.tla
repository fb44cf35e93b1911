-------------------------- MODULE WebhookInvariant --------------------------
(***************************************************************************)
(* The inductive invariant of WebhookDispatch: how far each copy is, what  *)
(* the table remembers, and why it has forgotten a claim it forgot.        *)
(***************************************************************************)
EXTENDS WebhookDispatch

Working == {"fetching", "planned", "claiming", "dispatching"}

\* A copy goes on with a delivery that is mirrored, one path at a time, and
\* starts runs only once it has planned all of them and claimed the delivery.
CopyInv(c) ==
  /\ pc[c] = "idle" => fetched[c] = 0
  /\ pc[c] \in {"idle", "fetching", "planned", "claiming"} => started[c] = 0
  /\ pc[c] \in Working \/ started[c] > 0 =>
       delivery[c] \in Deliveries /\ Mirrored(payload[delivery[c]])
  /\ pc[c] = "fetching" => fetched[c] < NumMirrored(c)
  /\ pc[c] \in {"planned", "claiming", "dispatching"} \/ started[c] > 0 =>
       fetched[c] = NumMirrored(c)
  /\ pc[c] = "dispatching" => started[c] < NumMirrored(c)
  /\ started[c] > 0 => started[c] <= NumMirrored(c)
  /\ started[c] > 0 =>
       started[c] = NumMirrored(c) \/ pc[c] \in {"dispatching", "gone"}
  /\ reply[c] = "accepted" => started[c] = NumMirrored(c)
  /\ pc[c] # "replied" => reply[c] = None
  /\ stamp[c] <= clock

\* A claim was made by a copy that had planned all the workflows and is past
\* claiming, with a stamp read before.
ClaimInv ==
  \A i \in DOMAIN claims :
    LET c == claims[i].copy IN
    /\ pc[c] \in {"dispatching", "replied", "gone"}
    /\ delivery[c] = claims[i].delivery /\ fetched[c] = NumMirrored(c)
    /\ reply[c] \in {None, "accepted"}
    /\ claims[i].stamp <= claims[i].at /\ claims[i].at <= clock

\* A copy that dispatches, or did, has claimed its delivery.
Claimed(c) ==
  pc[c] = "dispatching" \/ started[c] > 0 =>
    \E i \in DOMAIN claims : claims[i].copy = c /\ claims[i].delivery = delivery[c]

\* What is called a duplicate had a fresh claim by another copy.
Known(c) ==
  reply[c] = "duplicate" =>
    \E i \in DOMAIN claims :
      /\ claims[i].delivery = delivery[c] /\ claims[i].copy # c
      /\ Age(stamp[c], claims[i].stamp) < Ttl

Held(table) == {d \in Deliveries : table[d] # None}

\* The other deliveries of which one of the first j claims has a stamp that is
\* at least as recent as that of claim i.
Newer(made, i, j) ==
  {made[k].delivery : k \in {k \in 1..j : made[k].stamp >= made[i].stamp}}
    \ {made[i].delivery}

\* Why the table need not remember claim i any more.
Forgettable(i) ==
  \/ clock >= claims[i].stamp + Ttl
  \/ Cardinality(Newer(claims, i, Len(claims))) >= MaxDeliveries

WindowInv ==
  \A i \in DOMAIN claims :
    deliveries[claims[i].delivery] = claims[i].stamp \/ Forgettable(i)

IInv ==
  /\ TypeOK /\ ClaimInv
  /\ \A c \in Copies : CopyInv(c) /\ Claimed(c) /\ Known(c)
  /\ IsFiniteSet(Held(deliveries)) /\ RetentionIsBounded
  /\ WindowInv /\ DispatchedOncePerWindow
=============================================================================
