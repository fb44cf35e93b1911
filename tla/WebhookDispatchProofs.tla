----------------------- MODULE WebhookDispatchProofs -----------------------
(* IInv is an invariant of WebhookDispatch, and so are its safety properties. *)
EXTENDS WebhookInvariant, SequenceTheorems, FiniteSetTheorems, TLAPS

USE NumPathsAssumption, TtlAssumption, MaxDeliveriesAssumption, MaxClockAssumption,
    NoneAssumption

-----------------------------------------------------------------------------
(* Workflow paths *)

LEMMA PathsCounted ==
  ASSUME NEW e \in Event
  PROVE  /\ IsFiniteSet(WebhookPaths(e))
         /\ Cardinality(WebhookPaths(e)) \in 0..NumPaths
         /\ WebhookPaths(e) # {} => Cardinality(WebhookPaths(e)) > 0
         /\ e.name = "workflow_run" => Cardinality(WebhookPaths(e)) <= 1
<1> DEFINE paths == WebhookPaths(e)
<1>1. IsFiniteSet(Paths) /\ Cardinality(Paths) = NumPaths
  BY FS_Interval DEF Paths
<1>2. paths \subseteq Paths /\ (e.name = "workflow_run" => paths \subseteq {e.path})
  BY DEF WebhookPaths, Event
<1> HIDE DEF paths
<1>3. IsFiniteSet(paths) /\ Cardinality(paths) <= NumPaths
  BY <1>1, <1>2, FS_Subset
<1>4. Cardinality(paths) \in Nat /\ (paths # {} => Cardinality(paths) > 0)
  BY <1>3, FS_CardinalityType, FS_EmptySet
<1>5. e.name = "workflow_run" => Cardinality(paths) <= 1
  <2>1. IsFiniteSet({e.path}) /\ Cardinality({e.path}) = 1
    BY FS_Singleton
  <2>2. ASSUME paths \in SUBSET {e.path} PROVE Cardinality(paths) <= 1
    BY <2>1, <2>2, FS_Subset
  <2> QED
    BY <1>2, <2>2
<1> QED
  BY <1>3, <1>4, <1>5 DEF paths

-----------------------------------------------------------------------------
(* Pruning *)

LEMMA PrunedBounds ==
  ASSUME NEW table \in [Deliveries -> Nat \cup {None}], IsFiniteSet(Held(table)),
         NEW now \in Nat, NEW kept \in Pruned(table, now)
  PROVE  /\ kept \in [Deliveries -> Nat \cup {None}]
         /\ \A d \in Deliveries : kept[d] # None =>
              kept[d] = table[d] /\ Age(now, table[d]) < Ttl
         /\ IsFiniteSet(Held(kept)) /\ Cardinality(Held(kept)) <= MaxDeliveries
<1>1. PICK s \in Keepable(table, now) :
        kept = [d \in Deliveries |-> IF d \in s THEN table[d] ELSE None]
  BY DEF Pruned
<1> DEFINE fresh == Fresh(table, now)
<1>2. fresh \subseteq Held(table) /\ s \subseteq fresh
  BY <1>1 DEF Keepable, Fresh, Held
<1>3. IsFiniteSet(fresh) /\ Cardinality(fresh) \in Nat
  BY <1>2, FS_Subset, FS_CardinalityType
<1>4. Cardinality(s) <= MaxDeliveries
  BY <1>1, <1>3 DEF Keepable
<1>5. Held(kept) = s
  BY <1>1, <1>2 DEF Held
<1>6. IsFiniteSet(s)
  BY <1>2, <1>3, FS_Subset
<1> QED
  BY <1>1, <1>2, <1>4, <1>5, <1>6 DEF Held, Fresh

\* An entry is dropped because it is old, or because the table is then full of
\* entries that are at least as recent.
LEMMA PrunedForgets ==
  ASSUME NEW table \in [Deliveries -> Nat \cup {None}], IsFiniteSet(Held(table)),
         NEW now \in Nat, NEW kept \in Pruned(table, now),
         NEW d \in Deliveries, table[d] # None, kept[d] = None
  PROVE  \/ now >= table[d] + Ttl
         \/ \E s \in SUBSET Held(table) :
              /\ d \notin s /\ IsFiniteSet(s) /\ Cardinality(s) = MaxDeliveries
              /\ \A e \in s : table[e] \in Nat /\ table[e] >= table[d]
<1>1. PICK s \in Keepable(table, now) :
        kept = [c \in Deliveries |-> IF c \in s THEN table[c] ELSE None]
  BY DEF Pruned
<1> DEFINE fresh == Fresh(table, now)
<1>2. fresh \subseteq Held(table) /\ s \subseteq fresh /\ d \notin s
  BY <1>1 DEF Keepable, Fresh, Held
<1>3. IsFiniteSet(fresh) /\ Cardinality(fresh) \in Nat /\ IsFiniteSet(s)
  BY <1>2, FS_Subset, FS_CardinalityType
<1>4. CASE d \notin fresh
  BY <1>4 DEF Fresh, Age
<1>5. CASE d \in fresh
  <2>1. Cardinality(s) # Cardinality(fresh)
    BY <1>2, <1>3, <1>5, FS_Subset
  <2>2. Cardinality(s) = MaxDeliveries
    BY <1>1, <1>3, <2>1 DEF Keepable
  <2>3. \A e \in s : table[d] <= table[e] /\ table[e] \in Nat
    BY <1>1, <1>2, <1>5 DEF Keepable, Held
  <2> QED
    BY <1>2, <1>3, <2>2, <2>3
<1> QED
  BY <1>4, <1>5

-----------------------------------------------------------------------------
(* Claims made since *)

ClaimRecord == [copy : Copies, delivery : Deliveries, stamp : Nat, at : Nat]

LEMMA NewerFinite ==
  ASSUME NEW made \in Seq(ClaimRecord), NEW i \in 1..Len(made), NEW j \in Nat
  PROVE  IsFiniteSet(Newer(made, i, j)) /\ Cardinality(Newer(made, i, j)) \in Nat
<1> DEFINE ks == {k \in 1..j : made[k].stamp >= made[i].stamp}
           those == {made[k].delivery : k \in ks}
           f == [k \in ks |-> made[k].delivery]
<1>1. IsFiniteSet(ks)
  <2>1. IsFiniteSet(1..j)
    BY FS_Interval
  <2> QED
    BY <2>1, FS_Subset
<1>2. f \in Surjection(ks, those)
  BY DEF Surjection
<1>3. IsFiniteSet(those)
  <2> HIDE DEF ks, those, f
  <2> QED
    BY <1>1, <1>2, FS_Surjection
<1>4. Newer(made, i, j) = those \ {made[i].delivery}
  BY DEF Newer
<1> HIDE DEF those
<1> QED
  <2>1. IsFiniteSet(those \ {made[i].delivery})
    BY <1>3, FS_RemoveElement
  <2> QED
    BY <1>4, <2>1, FS_CardinalityType

\* Later claims only add to what is newer.
LEMMA NewerGrows ==
  ASSUME NEW made \in Seq(ClaimRecord), NEW i \in 1..Len(made), NEW c \in ClaimRecord
  PROVE  LET more == Append(made, c) IN
         /\ Newer(more, i, Len(made)) = Newer(made, i, Len(made))
         /\ Cardinality(Newer(more, i, Len(more))) >= Cardinality(Newer(made, i, Len(made)))
         /\ \A j \in 1..Len(made) : Newer(more, i, j - 1) = Newer(made, i, j - 1)
<1> DEFINE more == Append(made, c)
<1>1. /\ more \in Seq(ClaimRecord) /\ Len(more) = Len(made) + 1 /\ Len(made) \in Nat
      /\ \A k \in 1..Len(made) : more[k] = made[k]
      /\ i \in 1..Len(more) /\ Len(more) \in Nat
  BY AppendProperties, LenProperties
<1> HIDE DEF more
<1>2. \A j \in 0..Len(made) : Newer(more, i, j) = Newer(made, i, j)
  BY <1>1 DEF Newer
<1>3. Newer(more, i, Len(made)) \subseteq Newer(more, i, Len(more))
  BY <1>1 DEF Newer
<1>4. Cardinality(Newer(more, i, Len(made))) <= Cardinality(Newer(more, i, Len(more)))
  <2>1. IsFiniteSet(Newer(more, i, Len(more)))
    BY <1>1, NewerFinite
  <2> QED
    BY <1>3, <2>1, FS_Subset
<1>5. /\ Cardinality(Newer(more, i, Len(made))) \in Nat
      /\ Cardinality(Newer(more, i, Len(more))) \in Nat
  BY <1>1, NewerFinite
<1> QED
  BY <1>1, <1>2, <1>4, <1>5 DEF more

\* A full table of other deliveries that were claimed no earlier.
LEMMA NewerCounts ==
  ASSUME NEW made \in Seq(ClaimRecord), NEW i \in 1..Len(made),
         NEW s, IsFiniteSet(s), Cardinality(s) = MaxDeliveries,
         made[i].delivery \notin s,
         \A e \in s : \E k \in 1..Len(made) :
           made[k].delivery = e /\ made[k].stamp >= made[i].stamp
  PROVE  Cardinality(Newer(made, i, Len(made))) >= MaxDeliveries
<1>1. s \subseteq Newer(made, i, Len(made))
  BY DEF Newer
<1>2. Len(made) \in Nat
  BY LenProperties
<1>3. /\ IsFiniteSet(Newer(made, i, Len(made)))
      /\ Cardinality(Newer(made, i, Len(made))) \in Nat
  BY <1>2, NewerFinite
<1>4. Cardinality(s) <= Cardinality(Newer(made, i, Len(made)))
  BY <1>1, <1>3, FS_Subset
<1> QED
  BY <1>3, <1>4

-----------------------------------------------------------------------------
LEMMA InitIInv == Init => IInv
<1> SUFFICES ASSUME Init PROVE IInv
  OBVIOUS
<1>1. TypeOK
  BY DEF Init, TypeOK
<1>2. \A c \in Copies : CopyInv(c) /\ Claimed(c) /\ Known(c)
  BY DEF Init, CopyInv, Claimed, Known, Working, Replies
<1>3. ClaimInv /\ WindowInv /\ DispatchedOncePerWindow
  BY DEF Init, ClaimInv, WindowInv, DispatchedOncePerWindow
<1>4. Held(deliveries) = {}
  BY DEF Init, Held
<1>5. IsFiniteSet(Held(deliveries)) /\ RetentionIsBounded
  <2>1. IsFiniteSet(Held(deliveries)) /\ Cardinality(Held(deliveries)) = 0
    BY <1>4, FS_EmptySet
  <2> QED
    BY <1>4, <2>1 DEF RetentionIsBounded, Held
<1> QED
  BY <1>1, <1>2, <1>3, <1>5 DEF IInv

-----------------------------------------------------------------------------
(* The copies *)

Past == {"dispatching", "replied", "gone"}

LEMMA ClaimsTyped ==
  ASSUME TypeOK
  PROVE  /\ claims \in Seq(ClaimRecord) /\ Len(claims) \in Nat
         /\ DOMAIN claims = 1..Len(claims)
         /\ \A i \in DOMAIN claims : claims[i] \in ClaimRecord
<1>1. claims \in Seq(ClaimRecord)
  BY DEF TypeOK, ClaimRecord
<1> QED
  BY <1>1, LenProperties, ElementOfSeq

\* What holds of a copy survives the steps of the others and the clock's.
LEMMA OthersKeep ==
  ASSUME TypeOK, NEW c \in Copies, CopyInv(c), payload' = payload,
         clock' \in Nat, clock' >= clock,
         UNCHANGED <<pc[c], delivery[c], fetched[c], stamp[c], started[c], reply[c]>>
  PROVE  CopyInv(c)'
<1>1. NumMirrored(c)' = NumMirrored(c)
  BY DEF NumMirrored
<1>2. clock \in Nat /\ stamp[c] \in Nat
  BY DEF TypeOK
<1> QED
  BY <1>1, <1>2 DEF CopyInv

\* The step of one copy that leaves the table and the claims alone.
LEMMA CopyMoves ==
  ASSUME IInv, NEW c \in Copies, TypeOK', CopyInv(c)',
         UNCHANGED <<payload, deliveries, clock, claims>>,
         \A b \in Copies \ {c} : UNCHANGED <<pc[b], delivery[b], fetched[b], stamp[b],
                                             started[b], reply[b]>>,
         pc[c] \in Past => /\ pc'[c] \in Past /\ reply'[c] \in {None, "accepted"}
                           /\ delivery'[c] = delivery[c] /\ fetched'[c] = fetched[c],
         pc'[c] = "dispatching" \/ started'[c] > 0 =>
           pc[c] = "dispatching" \/ (started[c] > 0 /\ pc[c] \in Past),
         reply'[c] # "duplicate"
  PROVE  IInv'
<1> USE DEF IInv
<1>1. \A b \in Copies : CopyInv(b)'
  <2>1. clock' \in Nat /\ clock' >= clock
    BY DEF TypeOK
  <2> QED
    BY <2>1, OthersKeep
<1>2. \A b \in Copies : pc[b] \in Past => NumMirrored(b)' = NumMirrored(b)
  BY DEF NumMirrored
<1>3. ClaimInv'
  <2>1. \A i \in DOMAIN claims : claims[i].copy \in Copies /\ pc[claims[i].copy] \in Past
    BY ClaimsTyped DEF ClaimRecord, ClaimInv, Past
  <2> QED
    BY <1>2, <2>1 DEF ClaimInv, Past
<1>4. \A b \in Copies : Claimed(b)' /\ Known(b)'
  <2>1. Claimed(c)' /\ Known(c)'
    BY DEF Claimed, Known, Past
  <2> QED
    BY <2>1 DEF Claimed, Known
<1>5. IsFiniteSet(Held(deliveries))' /\ RetentionIsBounded'
  BY DEF Held, RetentionIsBounded
<1>6. WindowInv' /\ DispatchedOncePerWindow'
  BY DEF WindowInv, Forgettable, DispatchedOncePerWindow
<1> QED
  BY <1>1, <1>3, <1>4, <1>5, <1>6

\* What the handler of a working copy goes through.
LEMMA MirroredCounted ==
  ASSUME TypeOK, NEW c \in Copies, CopyInv(c), pc[c] \in Working \/ started[c] > 0
  PROVE  /\ delivery[c] \in Deliveries /\ Mirrored(payload[delivery[c]])
         /\ payload[delivery[c]] \in Event
         /\ NumMirrored(c) \in 1..NumPaths
<1>1. delivery[c] \in Deliveries /\ Mirrored(payload[delivery[c]])
  BY DEF CopyInv
<1>2. payload[delivery[c]] \in Event
  BY <1>1, EventsAssumption DEF TypeOK
<1> QED
  BY <1>1, <1>2, PathsCounted DEF Mirrored, NumMirrored

\* No reply yet is neither of the replies that say something about claims.
LEMMA NoReply == None # "duplicate" /\ None # "accepted"
BY DEF Replies

LEMMA RefuseStep ==
  ASSUME IInv, NEW c \in Copies, Refuse(c)
  PROVE  IInv'
<1>0. TypeOK /\ CopyInv(c)
  BY DEF IInv
<1>1. TypeOK'
  BY <1>0 DEF TypeOK, Refuse, Respond, Goto, Replies
<1>2. /\ pc[c] = "idle" /\ pc'[c] = "replied" /\ reply'[c] = "refused" /\ started'[c] = 0
      /\ UNCHANGED <<payload, delivery, fetched, stamp, started, deliveries, clock, claims>>
  BY <1>0 DEF TypeOK, Refuse, Respond, Goto, CopyInv
<1>3. \A b \in Copies \ {c} : UNCHANGED <<pc[b], delivery[b], fetched[b], stamp[b],
                                         started[b], reply[b]>>
  BY <1>0, <1>2 DEF TypeOK, Refuse, Respond, Goto
<1>4. CopyInv(c)'
  BY <1>0, <1>2 DEF CopyInv, Working
<1> QED
  BY <1>1, <1>2, <1>3, <1>4, CopyMoves DEF Past

LEMMA ReceiveStep ==
  ASSUME IInv, NEW c \in Copies, Receive(c)
  PROVE  IInv'
<1>0. TypeOK /\ CopyInv(c)
  BY DEF IInv
<1>1. PICK d \in Deliveries : Mirrored(payload[d]) /\ delivery' = [delivery EXCEPT ![c] = d]
  BY DEF Receive
<1>2. TypeOK'
  BY <1>0, <1>1 DEF TypeOK, Receive, Goto
<1>3. /\ pc[c] = "idle" /\ pc'[c] = "fetching" /\ delivery'[c] = d
      /\ UNCHANGED <<payload, fetched, stamp, started, reply, deliveries, clock, claims>>
  BY <1>0, <1>1 DEF TypeOK, Receive, Goto
<1>4. started[c] = 0 /\ fetched[c] = 0 /\ reply[c] = None /\ stamp[c] <= clock
  BY <1>0, <1>3 DEF CopyInv
<1>5. \A b \in Copies \ {c} : UNCHANGED <<pc[b], delivery[b], fetched[b], stamp[b],
                                         started[b], reply[b]>>
  BY <1>0, <1>1, <1>3 DEF TypeOK, Receive, Goto
<1>6. Cardinality(WebhookPaths(payload[d])) \in 1..NumPaths
  <2>1. payload[d] \in Event
    BY <1>0, EventsAssumption DEF TypeOK
  <2> QED
    BY <1>1, <2>1, PathsCounted DEF Mirrored
<1>7. CopyInv(c)'
  BY <1>1, <1>3, <1>4, <1>6, NoReply DEF CopyInv, Working, NumMirrored
<1> QED
  BY <1>2, <1>3, <1>4, <1>5, <1>7, NoReply, CopyMoves DEF Past

LEMMA FetchStep ==
  ASSUME IInv, NEW c \in Copies, Fetch(c)
  PROVE  IInv'
<1>0. TypeOK /\ CopyInv(c) /\ pc[c] = "fetching"
  BY DEF IInv, Fetch
<1>1. /\ delivery[c] \in Deliveries /\ Mirrored(payload[delivery[c]])
      /\ NumMirrored(c) \in 1..NumPaths
  BY <1>0, MirroredCounted DEF Working
<1>2. /\ fetched[c] \in Nat /\ fetched[c] < NumMirrored(c) /\ started[c] = 0
      /\ reply[c] = None /\ stamp[c] <= clock
  BY <1>0 DEF TypeOK, CopyInv
<1>3. /\ UNCHANGED <<payload, delivery, stamp, started, deliveries, clock, claims>>
      /\ \/ pc'[c] = "replied" /\ reply'[c] = "failed" /\ fetched' = fetched
         \/ /\ reply' = reply /\ fetched' = [fetched EXCEPT ![c] = fetched[c] + 1]
            /\ fetched'[c] = fetched[c] + 1
            /\ \/ pc'[c] = "planned" /\ fetched[c] + 1 = NumMirrored(c)
               \/ pc'[c] = "fetching" /\ fetched[c] + 1 # NumMirrored(c)
  BY <1>0 DEF TypeOK, Fetch, Respond, Goto, LastPath
<1>4. fetched' \in [Copies -> 0..NumPaths]
  <2>1. fetched[c] + 1 \in 0..NumPaths
    BY <1>1, <1>2
  <2> QED
    BY <1>0, <1>3, <2>1 DEF TypeOK
<1>5. TypeOK'
  BY <1>0, <1>4 DEF TypeOK, Fetch, Respond, Goto, Replies
<1>6. \A b \in Copies \ {c} : UNCHANGED <<pc[b], delivery[b], fetched[b], stamp[b],
                                         started[b], reply[b]>>
  BY <1>0 DEF TypeOK, Fetch, Respond, Goto
<1>7. NumMirrored(c)' = NumMirrored(c)
  BY <1>3 DEF NumMirrored
<1>8. CopyInv(c)'
  BY <1>1, <1>2, <1>3, <1>7, NoReply DEF CopyInv, Working
<1> QED
  BY <1>0, <1>2, <1>3, <1>5, <1>6, <1>8, NoReply, CopyMoves DEF Past

LEMMA DecideStep ==
  ASSUME IInv, NEW c \in Copies, Decide(c)
  PROVE  IInv'
<1>0. TypeOK /\ CopyInv(c) /\ pc[c] = "planned"
  BY DEF IInv, Decide
<1>1. /\ delivery[c] \in Deliveries /\ Mirrored(payload[delivery[c]])
      /\ started[c] = 0 /\ fetched[c] = NumMirrored(c) /\ reply[c] = None
      /\ stamp[c] \in Nat /\ stamp[c] <= clock /\ clock \in Nat
  BY <1>0 DEF TypeOK, CopyInv, Working
<1>2. /\ UNCHANGED <<payload, delivery, fetched, started, deliveries, clock, claims>>
      /\ \/ /\ pc'[c] = "replied" /\ stamp' = stamp
            /\ reply'[c] \in Replies \ {"duplicate", "accepted"}
         \/ /\ pc'[c] = "claiming" /\ reply' = reply
            /\ stamp' = [stamp EXCEPT ![c] = clock] /\ stamp'[c] = clock
  BY <1>0 DEF TypeOK, Decide, Declines, Respond, Goto, Replies
<1>3. TypeOK'
  <2>1. reply' \in [Copies -> Replies \cup {None}]
    BY <1>0 DEF TypeOK, Decide, Declines, Respond, Replies
  <2>2. pc' \in [Copies -> {"idle", "fetching", "planned", "claiming",
                           "dispatching", "replied", "gone"}]
    BY <1>0 DEF TypeOK, Decide, Respond, Goto
  <2>3. stamp' \in [Copies -> Nat]
    BY <1>0, <1>1, <1>2 DEF TypeOK
  <2> QED
    BY <1>0, <1>2, <2>1, <2>2, <2>3 DEF TypeOK
<1>4. \A b \in Copies \ {c} : UNCHANGED <<pc[b], delivery[b], fetched[b], stamp[b],
                                         started[b], reply[b]>>
  BY <1>0, <1>2 DEF TypeOK, Decide, Respond, Goto
<1>5. NumMirrored(c)' = NumMirrored(c)
  BY <1>2 DEF NumMirrored
<1>6. CopyInv(c)'
  BY <1>1, <1>2, <1>5, NoReply DEF CopyInv, Working
<1> QED
  BY <1>0, <1>1, <1>2, <1>3, <1>4, <1>6, NoReply, CopyMoves DEF Past

LEMMA DispatchStep ==
  ASSUME IInv, NEW c \in Copies, Dispatch(c)
  PROVE  IInv'
<1>0. TypeOK /\ CopyInv(c) /\ pc[c] = "dispatching"
  BY DEF IInv, Dispatch
<1>1. /\ delivery[c] \in Deliveries /\ Mirrored(payload[delivery[c]])
      /\ NumMirrored(c) \in 1..NumPaths
  BY <1>0, MirroredCounted DEF Working
<1>2. /\ started[c] \in Nat /\ started[c] < NumMirrored(c)
      /\ fetched[c] = NumMirrored(c) /\ reply[c] = None /\ stamp[c] <= clock
  BY <1>0 DEF TypeOK, CopyInv
<1>3. /\ UNCHANGED <<payload, delivery, fetched, stamp, deliveries, clock, claims>>
      /\ started' = [started EXCEPT ![c] = started[c] + 1]
      /\ started'[c] = started[c] + 1
      /\ \/ pc' = pc /\ reply' = reply /\ started[c] + 1 < NumMirrored(c)
         \/ pc'[c] = "replied" /\ reply'[c] = "accepted" /\ started[c] + 1 = NumMirrored(c)
  BY <1>0 DEF TypeOK, Dispatch, Respond, Goto
<1>4. TypeOK'
  <2>1. started[c] + 1 \in 0..NumPaths
    BY <1>1, <1>2
  <2>2. started' \in [Copies -> 0..NumPaths]
    BY <1>0, <1>3, <2>1 DEF TypeOK
  <2> QED
    BY <1>0, <2>2 DEF TypeOK, Dispatch, Respond, Goto, Replies
<1>5. \A b \in Copies \ {c} : UNCHANGED <<pc[b], delivery[b], fetched[b], stamp[b],
                                         started[b], reply[b]>>
  BY <1>0, <1>3 DEF TypeOK, Dispatch, Respond, Goto
<1>6. NumMirrored(c)' = NumMirrored(c)
  BY <1>3 DEF NumMirrored
<1>7. CopyInv(c)'
  BY <1>0, <1>1, <1>2, <1>3, <1>6, NoReply DEF CopyInv, Working
<1> QED
  BY <1>0, <1>2, <1>3, <1>4, <1>5, <1>7, NoReply, CopyMoves DEF Past

LEMMA DisconnectStep ==
  ASSUME IInv, NEW c \in Copies, Disconnect(c)
  PROVE  IInv'
<1>0. TypeOK /\ CopyInv(c) /\ pc[c] \in {"fetching", "claiming", "dispatching"}
  BY DEF IInv, Disconnect
<1>1. TypeOK'
  BY <1>0 DEF TypeOK, Disconnect, Goto
<1>2. /\ pc'[c] = "gone" /\ reply[c] = None
      /\ UNCHANGED <<payload, delivery, fetched, stamp, started, reply, deliveries, clock,
                     claims>>
  BY <1>0 DEF TypeOK, Disconnect, Goto, CopyInv
<1>3. \A b \in Copies \ {c} : UNCHANGED <<pc[b], delivery[b], fetched[b], stamp[b],
                                         started[b], reply[b]>>
  BY <1>0, <1>2 DEF TypeOK, Disconnect, Goto
<1>4. NumMirrored(c)' = NumMirrored(c)
  BY <1>2 DEF NumMirrored
<1>5. CopyInv(c)' /\ (started[c] > 0 => pc[c] = "dispatching")
  BY <1>0, <1>2, <1>4, NoReply DEF CopyInv, Working
<1> QED
  BY <1>0, <1>1, <1>2, <1>3, <1>5, NoReply, CopyMoves DEF Past

-----------------------------------------------------------------------------
(* The table *)

\* Every entry of the table is a claim's.
Backed(table, made) ==
  \A e \in Held(table) : \E k \in 1..Len(made) :
    made[k].delivery = e /\ made[k].stamp = table[e]

LEMMA PruneForgetsClaims ==
  ASSUME NEW made \in Seq(ClaimRecord), NEW table \in [Deliveries -> Nat \cup {None}],
         IsFiniteSet(Held(table)), Backed(table, made),
         NEW now \in Nat, NEW kept \in Pruned(table, now),
         NEW i \in 1..Len(made), table[made[i].delivery] = made[i].stamp
  PROVE  \/ kept[made[i].delivery] = made[i].stamp
         \/ now >= made[i].stamp + Ttl
         \/ Cardinality(Newer(made, i, Len(made))) >= MaxDeliveries
<1> DEFINE d == made[i].delivery
<1>1. d \in Deliveries /\ made[i].stamp \in Nat /\ table[d] = made[i].stamp
  <2>1. made[i] \in ClaimRecord
    BY ElementOfSeq
  <2> QED
    BY <2>1 DEF ClaimRecord
<1>2. kept[d] = made[i].stamp \/ kept[d] = None
  BY <1>1, PrunedBounds
<1>3. CASE kept[d] = None
  <2>1. \/ now >= table[d] + Ttl
        \/ \E s \in SUBSET Held(table) :
             /\ d \notin s /\ IsFiniteSet(s) /\ Cardinality(s) = MaxDeliveries
             /\ \A e \in s : table[e] \in Nat /\ table[e] >= table[d]
    BY <1>1, <1>3, PrunedForgets
  <2>2. ASSUME NEW s \in SUBSET Held(table), d \notin s, IsFiniteSet(s),
               Cardinality(s) = MaxDeliveries,
               \A e \in s : table[e] \in Nat /\ table[e] >= table[d]
        PROVE  Cardinality(Newer(made, i, Len(made))) >= MaxDeliveries
    <3>1. \A e \in s : \E k \in 1..Len(made) :
            made[k].delivery = e /\ made[k].stamp >= made[i].stamp
      BY <1>1, <2>2 DEF Backed
    <3> QED
      BY <2>2, <3>1, NewerCounts
  <2> QED
    BY <1>1, <2>1, <2>2
<1> QED
  BY <1>2, <1>3

\* What the pruning that begins every claim leaves.
LEMMA FirstPrune ==
  ASSUME IInv, NEW c \in Copies, NEW table \in Pruned(deliveries, stamp[c])
  PROVE  /\ table \in [Deliveries -> Nat \cup {None}]
         /\ \A d \in Deliveries : table[d] # None =>
              table[d] = deliveries[d] /\ Age(stamp[c], table[d]) < Ttl
         /\ IsFiniteSet(Held(table)) /\ Cardinality(Held(table)) <= MaxDeliveries
         /\ Backed(table, claims)
         /\ \A i \in DOMAIN claims :
              table[claims[i].delivery] = claims[i].stamp \/ Forgettable(i)
<1> USE DEF IInv
<1>1. /\ deliveries \in [Deliveries -> Nat \cup {None}] /\ stamp[c] \in Nat
      /\ clock \in Nat /\ stamp[c] <= clock
  BY DEF TypeOK, CopyInv
<1>2. /\ table \in [Deliveries -> Nat \cup {None}]
      /\ \A d \in Deliveries : table[d] # None =>
           table[d] = deliveries[d] /\ Age(stamp[c], table[d]) < Ttl
      /\ IsFiniteSet(Held(table)) /\ Cardinality(Held(table)) <= MaxDeliveries
  BY <1>1, PrunedBounds
<1>3. Backed(deliveries, claims)
  BY ClaimsTyped DEF Backed, Held, RetentionIsBounded
<1>4. Backed(table, claims)
  BY <1>2, <1>3 DEF Backed, Held
<1>5. ASSUME NEW i \in DOMAIN claims, deliveries[claims[i].delivery] = claims[i].stamp
      PROVE  table[claims[i].delivery] = claims[i].stamp \/ Forgettable(i)
  <2>1. claims \in Seq(ClaimRecord) /\ i \in 1..Len(claims) /\ claims[i].stamp \in Nat
    BY ClaimsTyped DEF ClaimRecord
  <2>2. \/ table[claims[i].delivery] = claims[i].stamp
        \/ stamp[c] >= claims[i].stamp + Ttl
        \/ Cardinality(Newer(claims, i, Len(claims))) >= MaxDeliveries
    BY <1>1, <1>3, <1>5, <2>1, PruneForgetsClaims
  <2> QED
    BY <1>1, <2>1, <2>2 DEF Forgettable
<1>6. \A i \in DOMAIN claims :
        table[claims[i].delivery] = claims[i].stamp \/ Forgettable(i)
  BY <1>5 DEF WindowInv
<1> QED
  BY <1>2, <1>4, <1>6

LEMMA DuplicateStep ==
  ASSUME IInv, NEW c \in Copies, pc[c] = "claiming",
         NEW table \in Pruned(deliveries, stamp[c]), Remembered(table, delivery[c]),
         deliveries' = table, Respond(c, "duplicate"),
         UNCHANGED <<payload, delivery, fetched, stamp, started, clock, claims>>
  PROVE  IInv'
<1> USE DEF IInv
<1>0. delivery[c] \in Deliveries /\ started[c] = 0 /\ claims \in Seq(ClaimRecord)
  BY ClaimsTyped DEF CopyInv, Working
<1>1. TypeOK'
  BY FirstPrune DEF TypeOK, Respond, Goto, Replies
<1>2. pc'[c] = "replied" /\ reply'[c] = "duplicate"
      /\ \A b \in Copies \ {c} : pc'[b] = pc[b] /\ reply'[b] = reply[b]
  BY DEF TypeOK, Respond, Goto
<1>3. \A b \in Copies : CopyInv(b)'
  <2>1. clock' \in Nat /\ clock' >= clock
    BY DEF TypeOK
  <2>2. CopyInv(c)'
    BY <1>0, <1>2 DEF CopyInv, Working
  <2> QED
    BY <1>2, <2>1, <2>2, OthersKeep
<1>4. ClaimInv'
  <2>1. \A i \in DOMAIN claims : claims[i].copy \in Copies \ {c}
    BY ClaimsTyped DEF ClaimRecord, ClaimInv
  <2> QED
    BY <1>2, <2>1 DEF ClaimInv, NumMirrored
<1>5. IsFiniteSet(Held(deliveries))' /\ RetentionIsBounded'
  <2>1. Cardinality({d \in Deliveries : table[d] # None}) <= MaxDeliveries
    BY FirstPrune DEF Held
  <2>2. IsFiniteSet(Held(table)) /\ Backed(table, claims) /\ DOMAIN claims = 1..Len(claims)
    BY FirstPrune, ClaimsTyped
  <2>3. deliveries' = table /\ claims' = claims
    OBVIOUS
  <2> HIDE DEF IInv
  <2> QED
    BY <2>1, <2>2, <2>3 DEF Backed, Held, RetentionIsBounded
<1>6. \A b \in Copies : Claimed(b)'
  BY <1>0, <1>2 DEF Claimed
<1>7. \A b \in Copies : Known(b)'
  <2>1. PICK i \in DOMAIN claims :
          claims[i].delivery = delivery[c] /\ claims[i].stamp = deliveries[delivery[c]]
    BY <1>0, FirstPrune DEF Remembered, RetentionIsBounded
  <2>2. claims[i].copy # c
    BY DEF ClaimInv
  <2>3. Age(stamp[c], claims[i].stamp) < Ttl
    BY <1>0, <2>1, FirstPrune DEF Remembered
  <2>4. Known(c)'
    BY <2>1, <2>2, <2>3 DEF Known
  <2> QED
    BY <1>2, <2>4 DEF Known
<1>8. WindowInv' /\ DispatchedOncePerWindow'
  BY FirstPrune DEF WindowInv, Forgettable, DispatchedOncePerWindow
<1> QED
  BY <1>1, <1>3, <1>4, <1>5, <1>6, <1>7, <1>8

LEMMA ClaimedStep ==
  ASSUME IInv, NEW c \in Copies, pc[c] = "claiming",
         NEW table \in Pruned(deliveries, stamp[c]), ~Remembered(table, delivery[c]),
         deliveries' \in Pruned([table EXCEPT ![delivery[c]] = stamp[c]], stamp[c]),
         claims' = Append(claims, [copy |-> c, delivery |-> delivery[c],
                                   stamp |-> stamp[c], at |-> clock]),
         Goto(c, "dispatching"),
         UNCHANGED <<payload, delivery, fetched, stamp, started, reply, clock>>
  PROVE  IInv'
<1> USE DEF IInv
<1> DEFINE d == delivery[c]
           filled == [table EXCEPT ![d] = stamp[c]]
           new == [copy |-> c, delivery |-> d, stamp |-> stamp[c], at |-> clock]
           n == Len(claims)
<1>1. /\ d \in Deliveries /\ started[c] = 0 /\ reply[c] # "duplicate"
      /\ stamp[c] \in Nat /\ clock \in Nat /\ stamp[c] <= clock
      /\ NumMirrored(c) \in 1..NumPaths
  <2>1. TypeOK /\ CopyInv(c)
    OBVIOUS
  <2> HIDE DEF IInv
  <2> QED
    BY <2>1, MirroredCounted, NoReply DEF TypeOK, CopyInv, Working
<1>2. /\ claims \in Seq(ClaimRecord) /\ new \in ClaimRecord /\ n \in Nat
      /\ DOMAIN claims = 1..n
      /\ claims' \in Seq(ClaimRecord) /\ Len(claims') = n + 1
      /\ DOMAIN claims' = 1..n + 1 /\ claims'[n + 1] = new
      /\ \A i \in 1..n : claims'[i] = claims[i] /\ claims[i] \in ClaimRecord
  <2>1. new \in ClaimRecord
    BY <1>1 DEF ClaimRecord
  <2> QED
    BY <2>1, ClaimsTyped, AppendProperties, LenProperties
<1>3. /\ filled \in [Deliveries -> Nat \cup {None}] /\ filled[d] = stamp[c]
      /\ \A e \in Deliveries \ {d} : filled[e] = table[e]
      /\ table[d] = None
      /\ IsFiniteSet(Held(filled))
  <2>1. /\ filled \in [Deliveries -> Nat \cup {None}] /\ filled[d] = stamp[c]
        /\ \A e \in Deliveries \ {d} : filled[e] = table[e]
    BY <1>1, FirstPrune
  <2>2. Held(filled) = Held(table) \cup {d}
    BY <1>1, <2>1 DEF Held
  <2>3. IsFiniteSet(Held(table) \cup {d})
    BY FirstPrune, FS_AddElement
  <2> QED
    BY <2>1, <2>2, <2>3 DEF Remembered
<1>4. Backed(filled, claims')
  <2> SUFFICES ASSUME NEW e \in Held(filled)
               PROVE  \E k \in 1..Len(claims') :
                        claims'[k].delivery = e /\ claims'[k].stamp = filled[e]
    BY DEF Backed
  <2>1. CASE e = d
    BY <1>2, <1>3, <2>1
  <2>2. CASE e # d
    <3>1. e \in Held(table) /\ filled[e] = table[e]
      BY <1>3, <2>2 DEF Held
    <3>2. PICK k \in 1..n : claims[k].delivery = e /\ claims[k].stamp = table[e]
      BY <3>1, FirstPrune DEF Backed
    <3> QED
      BY <1>2, <3>1, <3>2
  <2> QED
    BY <2>1, <2>2
<1>5. /\ deliveries' \in [Deliveries -> Nat \cup {None}]
      /\ \A e \in Deliveries : deliveries'[e] # None => deliveries'[e] = filled[e]
      /\ IsFiniteSet(Held(deliveries')) /\ Cardinality(Held(deliveries')) <= MaxDeliveries
  <2>1. deliveries' \in Pruned(filled, stamp[c])
    OBVIOUS
  <2> HIDE DEF filled
  <2> QED
    BY <1>1, <1>3, <2>1, PrunedBounds
<1>6. TypeOK'
  BY <1>2, <1>5 DEF TypeOK, Goto, ClaimRecord
<1>7. pc'[c] = "dispatching" /\ \A b \in Copies \ {c} : pc'[b] = pc[b]
  BY DEF TypeOK, Goto
<1>8. \A b \in Copies : CopyInv(b)'
  <2>1. clock' \in Nat /\ clock' >= clock
    BY <1>1
  <2>2. NumMirrored(c)' = NumMirrored(c)
    BY DEF NumMirrored
  <2>3. CopyInv(c)'
    BY <1>1, <1>7, <2>2 DEF CopyInv, Working
  <2> QED
    BY <1>7, <2>1, <2>3, OthersKeep
<1>9. ClaimInv'
  <2>1. \A b \in Copies : NumMirrored(b)' = NumMirrored(b)
    BY DEF NumMirrored
  <2>2. fetched[c] = NumMirrored(c) /\ reply[c] = None
    BY DEF CopyInv
  <2>3. \A i \in 1..n : claims[i].copy \in Copies /\ pc'[claims[i].copy] \in Past
    BY <1>2, <1>7 DEF ClaimInv, ClaimRecord, Past
  <2> QED
    BY <1>1, <1>2, <1>7, <2>1, <2>2, <2>3 DEF ClaimInv, Past
<1>10. RetentionIsBounded'
  <2>1. Cardinality({e \in Deliveries : deliveries'[e] # None}) <= MaxDeliveries
    BY <1>5 DEF Held
  <2>2. ASSUME NEW e \in Deliveries, deliveries'[e] # None
        PROVE  \E k \in 1..n + 1 :
                 claims'[k].delivery = e /\ claims'[k].stamp = deliveries'[e]
    <3>1. deliveries'[e] = filled[e] /\ e \in Held(filled)
      BY <1>5, <2>2 DEF Held
    <3> HIDE DEF filled
    <3> QED
      BY <1>2, <1>4, <3>1 DEF Backed
  <2> QED
    BY <1>2, <2>1, <2>2 DEF RetentionIsBounded
<1>11. \A b \in Copies : Claimed(b)' /\ Known(b)'
  <2>1. Claimed(c)'
    BY <1>2 DEF Claimed
  <2>2. \A b \in Copies \ {c} : Claimed(b)'
    BY <1>2, <1>7 DEF Claimed
  <2>3. \A b \in Copies : Known(b)'
    BY <1>2 DEF Known, Age
  <2> QED
    BY <2>1, <2>2, <2>3
<1>12. ASSUME NEW i \in 1..n
       PROVE  /\ Forgettable(i) => Forgettable(i)'
              /\ claims[i].delivery = d => Forgettable(i)
              /\ \A j \in 1..n + 1 : Newer(claims', i, j - 1) = Newer(claims, i, j - 1)
  <2>1. /\ Newer(claims', i, n) = Newer(claims, i, n)
        /\ Cardinality(Newer(claims', i, Len(claims'))) >= Cardinality(Newer(claims, i, n))
        /\ \A j \in 1..n : Newer(claims', i, j - 1) = Newer(claims, i, j - 1)
    BY <1>2, NewerGrows
  <2>2. /\ Cardinality(Newer(claims, i, n)) \in Nat
        /\ Cardinality(Newer(claims', i, n + 1)) \in Nat
    <3>1. i \in 1..Len(claims') /\ n + 1 \in Nat
      BY <1>2
    <3>2. Cardinality(Newer(claims, i, n)) \in Nat
      BY <1>2, NewerFinite
    <3>3. Cardinality(Newer(claims', i, n + 1)) \in Nat
      BY <1>2, <3>1, NewerFinite
    <3> QED
      BY <3>2, <3>3
  <2>3. Forgettable(i) => Forgettable(i)'
    BY <1>2, <2>1, <2>2 DEF Forgettable
  <2>4. claims[i].delivery = d => Forgettable(i)
    <3>1. claims[i].stamp \in Nat
      BY <1>2 DEF ClaimRecord
    <3>2. table[claims[i].delivery] = claims[i].stamp \/ Forgettable(i)
      BY <1>2, FirstPrune
    <3> QED
      BY <1>3, <3>1, <3>2
  <2>5. ASSUME NEW j \in 1..n + 1 PROVE Newer(claims', i, j - 1) = Newer(claims, i, j - 1)
    <3>1. CASE j = n + 1
      <4>1. j - 1 = n
        BY <1>2, <3>1
      <4> QED
        BY <2>1, <4>1
    <3>2. CASE j # n + 1
      BY <1>2, <2>1, <3>2
    <3> QED
      BY <3>1, <3>2
  <2> QED
    BY <2>3, <2>4, <2>5
<1>13. WindowInv'
  <2> SUFFICES ASSUME NEW i \in 1..n + 1
               PROVE  \/ deliveries'[claims'[i].delivery] = claims'[i].stamp
                      \/ Forgettable(i)'
    BY <1>2 DEF WindowInv
  <2>1. CASE filled[claims'[i].delivery] = claims'[i].stamp
    <3>1. deliveries' \in Pruned(filled, stamp[c])
      OBVIOUS
    <3> HIDE DEF filled
    <3>2. \/ deliveries'[claims'[i].delivery] = claims'[i].stamp
          \/ stamp[c] >= claims'[i].stamp + Ttl
          \/ Cardinality(Newer(claims', i, Len(claims'))) >= MaxDeliveries
      <4>1. /\ claims' \in Seq(ClaimRecord) /\ i \in 1..Len(claims')
            /\ filled \in [Deliveries -> Nat \cup {None}] /\ IsFiniteSet(Held(filled))
            /\ Backed(filled, claims') /\ stamp[c] \in Nat
            /\ filled[claims'[i].delivery] = claims'[i].stamp
        BY <1>1, <1>2, <1>3, <1>4, <2>1
      <4> HIDE DEF IInv, d, new, n
      <4> QED
        BY <3>1, <4>1, PruneForgetsClaims
    <3>3. claims'[i].stamp \in Nat
      <4>1. claims'[i] \in ClaimRecord
        BY <1>2, ElementOfSeq
      <4> QED
        BY <4>1 DEF ClaimRecord
    <3> QED
      BY <1>1, <3>2, <3>3 DEF Forgettable
  <2>2. CASE filled[claims'[i].delivery] # claims'[i].stamp
    <3>1. i \in 1..n /\ claims'[i] = claims[i]
      BY <1>2, <1>3, <2>2
    <3>2. claims[i].delivery = d \/ table[claims[i].delivery] # claims[i].stamp
      BY <1>2, <1>3, <2>2, <3>1 DEF ClaimRecord
    <3>3. Forgettable(i)
      BY <1>2, <1>12, <3>1, <3>2, FirstPrune
    <3> QED
      BY <1>12, <3>1, <3>3
  <2> QED
    BY <2>1, <2>2
<1>14. DispatchedOncePerWindow'
  <2> SUFFICES ASSUME NEW i \in 1..n + 1, NEW j \in 1..n + 1, i < j,
                      claims'[j].delivery = claims'[i].delivery
               PROVE  \/ claims'[j].at >= claims'[i].stamp + Ttl
                      \/ Cardinality(Newer(claims', i, j - 1)) >= MaxDeliveries
    BY <1>2 DEF DispatchedOncePerWindow, Newer
  <2>1. i \in 1..n /\ claims'[i] = claims[i] /\ Newer(claims', i, j - 1) = Newer(claims, i, j - 1)
    BY <1>2, <1>12
  <2>2. CASE j = n + 1
    <3>1. Forgettable(i)
      BY <1>2, <1>12, <2>1, <2>2
    <3> QED
      BY <1>2, <2>1, <2>2, <3>1 DEF Forgettable
  <2>3. CASE j # n + 1
    <3>1. j \in 1..n /\ claims'[j] = claims[j]
      BY <1>2, <2>3
    <3> QED
      BY <1>2, <2>1, <3>1 DEF DispatchedOncePerWindow, Newer
  <2> QED
    BY <2>2, <2>3
<1> QED
  BY <1>5, <1>6, <1>8, <1>9, <1>10, <1>11, <1>13, <1>14 DEF Held

LEMMA ClaimStep ==
  ASSUME IInv, NEW c \in Copies, Claim(c)
  PROVE  IInv'
BY DuplicateStep, ClaimedStep DEF Claim

LEMMA TickStep == IInv /\ Tick => IInv'
<1> SUFFICES ASSUME IInv, Tick PROVE IInv'
  OBVIOUS
<1> USE DEF IInv
<1>1. clock \in Nat /\ clock' = clock + 1 /\ clock' \in Nat /\ clock' >= clock
  BY DEF TypeOK, Tick
<1>2. UNCHANGED <<payload, pc, delivery, fetched, stamp, started, reply, deliveries, claims>>
  BY DEF Tick, copyVars
<1>3. TypeOK'
  BY <1>1, <1>2 DEF TypeOK
<1>4. \A c \in Copies : CopyInv(c)'
  BY <1>1, <1>2, OthersKeep
<1>5. \A i \in DOMAIN claims : claims[i].stamp \in Nat /\ claims[i].at \in Nat
  BY ClaimsTyped DEF ClaimRecord
<1>6. ClaimInv' /\ WindowInv'
  BY <1>1, <1>2, <1>5 DEF ClaimInv, WindowInv, Forgettable, NumMirrored
<1>7. \A c \in Copies : Claimed(c)' /\ Known(c)'
  BY <1>2 DEF Claimed, Known
<1>8. IsFiniteSet(Held(deliveries))' /\ RetentionIsBounded' /\ DispatchedOncePerWindow'
  BY <1>2 DEF Held, RetentionIsBounded, DispatchedOncePerWindow
<1> QED
  BY <1>3, <1>4, <1>6, <1>7, <1>8

LEMMA NextIInv == IInv /\ [Next]_vars => IInv'
<1> SUFFICES ASSUME IInv, [Next]_vars PROVE IInv'
  OBVIOUS
<1>1. ASSUME NEW c \in Copies, Refuse(c) \/ Receive(c) \/ Fetch(c) \/ Decide(c) \/ Claim(c)
                               \/ Dispatch(c) \/ Disconnect(c)
      PROVE  IInv'
  BY <1>1, RefuseStep, ReceiveStep, FetchStep, DecideStep, ClaimStep, DispatchStep,
     DisconnectStep
<1>2. CASE Tick
  BY <1>2, TickStep
<1>3. CASE UNCHANGED vars
  <2>1. UNCHANGED <<payload, pc, delivery, fetched, stamp, started, reply, deliveries,
                    clock, claims>>
    BY <1>3 DEF vars, copyVars
  <2>2. TypeOK' /\ clock' \in Nat /\ clock' >= clock
    BY <2>1 DEF IInv, TypeOK
  <2>3. \A c \in Copies : CopyInv(c)'
    BY <2>1, <2>2, OthersKeep DEF IInv
  <2>4. \A c \in Copies : Claimed(c)' /\ Known(c)'
    BY <2>1 DEF IInv, Claimed, Known
  <2> QED
    BY <2>1, <2>2, <2>3, <2>4 DEF IInv, ClaimInv, NumMirrored, Held, RetentionIsBounded,
       WindowInv, Forgettable, DispatchedOncePerWindow
<1> QED
  BY <1>1, <1>2, <1>3 DEF Next, Quiescent

-----------------------------------------------------------------------------
\* IInv holds in every reachable state: for any copies, deliveries, events,
\* table size, time to live, paths and settings.
THEOREM Invariance == Spec => []IInv
<1>1. Init => IInv
  BY InitIInv
<1>2. IInv /\ [Next]_vars => IInv'
  BY NextIInv
<1> QED
  BY <1>1, <1>2, PTL DEF Spec

\* Every variable keeps its type; no copy counts past its paths.
THEOREM TypeCorrect == Spec => []TypeOK
<1>1. IInv => TypeOK
  BY DEF IInv
<1> QED
  BY <1>1, Invariance, PTL

\* Whatever copies race, a delivery is dispatched again only when its claim is a
\* TTL old or was crowded out by claims at least as recent.
THEOREM OneDispatchPerWindow == Spec => []DispatchedOncePerWindow
<1>1. IInv => DispatchedOncePerWindow
  BY DEF IInv
<1> QED
  BY <1>1, Invariance, PTL

\* What was answered as a duplicate had been claimed in the window by another copy,
\* which had planned all the workflows and was not declined.
THEOREM DuplicatesAreClaimed == Spec => []DuplicateWasClaimed
<1>1. IInv => DuplicateWasClaimed
  <2> SUFFICES ASSUME IInv, NEW c \in Copies, reply[c] = "duplicate"
               PROVE  \E i \in DOMAIN claims :
                        LET b == claims[i].copy IN
                        /\ claims[i].delivery = delivery[c]
                        /\ Age(stamp[c], claims[i].stamp) < Ttl
                        /\ b # c /\ delivery[b] = delivery[c]
                        /\ fetched[b] = NumMirrored(b) /\ reply[b] \in {None, "accepted"}
    BY DEF DuplicateWasClaimed
  <2>1. PICK i \in DOMAIN claims :
          /\ claims[i].delivery = delivery[c] /\ claims[i].copy # c
          /\ Age(stamp[c], claims[i].stamp) < Ttl
    BY DEF IInv, Known
  <2> QED
    BY <2>1 DEF IInv, ClaimInv
<1> QED
  BY <1>1, Invariance, PTL

\* The table stays within its size and holds only what was claimed.
THEOREM BoundedRetention == Spec => []RetentionIsBounded
<1>1. IInv => RetentionIsBounded
  BY DEF IInv
<1> QED
  BY <1>1, Invariance, PTL

\* A copy that starts a run has planned all the workflows and claimed the delivery,
\* and it starts them all unless its client leaves.
THEOREM WholeRunSets == Spec => []RunSetsAreWhole
<1>1. IInv => RunSetsAreWhole
  BY DEF IInv, CopyInv, Claimed, RunSetsAreWhole
<1> QED
  BY <1>1, Invariance, PTL
=============================================================================
