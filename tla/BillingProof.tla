---------------------------- MODULE BillingProof ----------------------------
(***************************************************************************)
(* Theorems about Billing, for any handlers, events, subscriptions and     *)
(* bounds: an event is handled at most once, its effect is in the rows     *)
(* when it is marked processed, and no subscription row goes back.         *)
(***************************************************************************)
EXTENDS Billing, TLAPS

\* What a handler has done so far is still in the rows: its event is recorded and not
\* processed; once it has upserted, the subscription is at least as new as its event;
\* and what it has read back is of that subscription and no newer than the row.
Progress(p) ==
    LET e == my[p].ev
        s == SubOf[e]
    IN  /\ pc[p] # "idle" => e \in Events
        /\ pc[p] \in Handling => e \in recorded \ processed
        /\ pc[p] \in {"read", "grant", "mark"} =>
              sub[s] # None /\ At[sub[s]] >= At[e]
        /\ pc[p] = "grant" =>
              /\ my[p].read \in Events /\ SubOf[my[p].read] = s
              /\ At[my[p].read] <= At[sub[s]]
        /\ pc[p] = "mark" => granted[s] # None

\* The inductive invariant: HandledOnce and ProcessedMeansApplied depend on what each
\* handler has established at its earlier steps.
BillingInv ==
    /\ TypeOK /\ HandledOnce /\ ProcessedMeansApplied
    /\ \A p \in Procs : Progress(p)

\* Billing starts with no rows and idle handlers.
LEMMA InitInv == Init => BillingInv
  BY BillingAssumption
  DEF BillingAssumption, Init, BillingInv, TypeOK, HandledOnce, ProcessedMeansApplied,
      Progress, PCs, Handling, Locals

\* Return(p) makes p idle and empties its locals, and leaves the other handlers alone.
LEMMA Returned ==
  ASSUME TypeOK, NEW p \in Procs, Return(p)
  PROVE  /\ pc' \in [Procs -> PCs]
         /\ my' \in [Procs -> [ev : Events \cup {None}, read : Events \cup {None}]]
         /\ pc'[p] = "idle" /\ my'[p] = Locals(None)
         /\ \A q \in Procs : q # p => pc'[q] = pc[q] /\ my'[q] = my[q]
  BY DEF Return, TypeOK, PCs, Locals

\* Step(p, here, there) moves p from here to there and leaves the others where they are.
LEMMA Stepped ==
  ASSUME TypeOK, NEW p \in Procs, NEW here, NEW there \in PCs, Step(p, here, there)
  PROVE  /\ pc' \in [Procs -> PCs]
         /\ pc[p] = here /\ pc'[p] = there
         /\ \A q \in Procs : q # p => pc'[q] = pc[q]
  BY DEF Step, TypeOK

\* A delivery of a new or a repeated event: the handler has done nothing yet.
LEMMA DeliverStep ==
  ASSUME BillingInv, NEW p \in Procs, NEW e \in Events, Deliver(p, e)
  PROVE  BillingInv'
  <1> USE DEF PCs, Handling
  <1>1. /\ pc' \in [Procs -> PCs] /\ pc'[p] = "insert"
        /\ \A q \in Procs : q # p => pc'[q] = pc[q]
    BY Stepped DEF BillingInv, Deliver
  <1>2. /\ my' \in [Procs -> [ev : Events \cup {None}, read : Events \cup {None}]]
        /\ my'[p] = Locals(e) /\ \A q \in Procs : q # p => my'[q] = my[q]
    BY DEF BillingInv, TypeOK, Deliver, Locals
  <1>3. UNCHANGED <<recorded, processed, sub, granted, acked, faults>>
        /\ deliveries' \in 0..MaxDeliveries
    BY BillingAssumption DEF BillingAssumption, BillingInv, TypeOK, Deliver, rows
  <1>4. TypeOK'
    BY <1>1, <1>2, <1>3 DEF BillingInv, TypeOK
  <1>5. HandledOnce'
    BY <1>1, <1>2, <1>3 DEF BillingInv, HandledOnce
  <1>6. ProcessedMeansApplied'
    BY <1>3 DEF BillingInv, ProcessedMeansApplied
  <1>7. \A q \in Procs : Progress(q)'
    BY <1>1, <1>2, <1>3 DEF BillingInv, Progress, Locals
  <1>8. QED
    BY <1>4, <1>5, <1>6, <1>7 DEF BillingInv

\* Only an event that is not recorded is taken on, so nobody else is at work on it.
LEMMA InsertStep ==
  ASSUME BillingInv, NEW p \in Procs, InsertEvent(p)
  PROVE  BillingInv'
  <1> USE DEF PCs, Handling
  <1> DEFINE e == my[p].ev
  <1>1. pc[p] = "insert" /\ e \in Events
    BY DEF BillingInv, Progress, InsertEvent
  <1>2. UNCHANGED <<processed, sub, granted, deliveries, faults>>
    BY DEF InsertEvent
  <1>3. CASE e \in recorded
    <2>1. Return(p) /\ acked' = acked \cup {e} /\ recorded' = recorded
      BY <1>3 DEF InsertEvent
    <2>2. TypeOK'
      BY <2>1, <1>1, <1>2, <1>3, Returned DEF BillingInv, TypeOK
    <2>3. HandledOnce'
      BY <2>1, <1>2, Returned DEF BillingInv, HandledOnce
    <2>4. ProcessedMeansApplied'
      BY <1>2 DEF BillingInv, ProcessedMeansApplied
    <2>5. \A q \in Procs : Progress(q)'
      BY <2>1, <1>2, Returned DEF BillingInv, Progress
    <2>6. QED
      BY <2>2, <2>3, <2>4, <2>5 DEF BillingInv
  <1>4. CASE e \notin recorded
    <2>1. /\ Step(p, "insert", "upsert")
          /\ recorded' = recorded \cup {e} /\ UNCHANGED <<my, acked>>
      BY <1>4 DEF InsertEvent
    <2>2. /\ pc' \in [Procs -> PCs] /\ pc'[p] = "upsert"
          /\ \A q \in Procs : q # p => pc'[q] = pc[q]
      BY <2>1, Stepped DEF BillingInv
    <2>3. TypeOK'
      BY <2>1, <2>2, <1>1, <1>2 DEF BillingInv, TypeOK
    <2>4. HandledOnce'
      BY <2>1, <2>2, <1>1, <1>2, <1>4 DEF BillingInv, HandledOnce, TypeOK
    <2>5. ProcessedMeansApplied'
      BY <1>2 DEF BillingInv, ProcessedMeansApplied
    <2>6. \A q \in Procs : Progress(q)'
      BY <2>1, <2>2, <1>1, <1>2, <1>4 DEF BillingInv, Progress, TypeOK
    <2>7. QED
      BY <2>3, <2>4, <2>5, <2>6 DEF BillingInv
  <1>5. QED
    BY <1>3, <1>4

\* The upsert replaces at most one row, by a newer event of that subscription, and then
\* the row is at least as new as the event in hand.
LEMMA Upserted ==
  ASSUME BillingInv, NEW p \in Procs, UpsertSubscription(p)
  PROVE  /\ my[p].ev \in Events
         /\ sub' \in [Subs -> Events \cup {None}]
         /\ \A s \in Subs :
               /\ sub'[s] # None => sub'[s] \in Events /\ SubOf[sub'[s]] = s
               /\ sub[s] # None => sub'[s] # None /\ At[sub'[s]] >= At[sub[s]]
               /\ sub'[s] # sub[s] => sub'[s] # None
                                     /\ (sub[s] # None => At[sub'[s]] > At[sub[s]])
         /\ LET s == SubOf[my[p].ev] IN sub'[s] # None /\ At[sub'[s]] >= At[my[p].ev]
  <1> DEFINE e == my[p].ev
  <1>1. pc[p] = "upsert" /\ e \in Events
    BY DEF UpsertSubscription, Step, BillingInv, Progress
  <1>2. SubOf[e] \in Subs /\ \A x \in Events : At[x] \in Nat /\ x # None
    BY <1>1, BillingAssumption DEF BillingAssumption
  <1>3. /\ sub \in [Subs -> Events \cup {None}]
        /\ \A s \in Subs : sub[s] # None => sub[s] \in Events /\ SubOf[sub[s]] = s
    BY DEF BillingInv, TypeOK
  <1>4. CASE Overwrites(SubOf[e], e)
    <2>1. sub' = [sub EXCEPT ![SubOf[e]] = e]
      BY <1>4 DEF UpsertSubscription
    <2>2. sub[SubOf[e]] = None \/ At[sub[SubOf[e]]] < At[e]
      BY <1>4 DEF Overwrites
    <2>3. QED
      BY <1>1, <1>2, <1>3, <2>1, <2>2
  <1>5. CASE ~Overwrites(SubOf[e], e)
    <2>1. sub' = sub
      BY <1>5 DEF UpsertSubscription
    <2>2. sub[SubOf[e]] # None /\ ~(At[sub[SubOf[e]]] < At[e])
      BY <1>5 DEF Overwrites
    <2>3. QED
      BY <1>1, <1>2, <1>3, <2>1, <2>2
  <1>6. QED
    BY <1>4, <1>5

\* What other handlers know of a row survives, for rows only get newer.
LEMMA UpsertStep ==
  ASSUME BillingInv, NEW p \in Procs, UpsertSubscription(p)
  PROVE  BillingInv'
  <1> USE DEF PCs, Handling
  <1>1. /\ pc[p] = "upsert" /\ pc' \in [Procs -> PCs] /\ pc'[p] = "read"
        /\ \A q \in Procs : q # p => pc'[q] = pc[q]
    BY Stepped DEF BillingInv, UpsertSubscription
  <1>2. UNCHANGED <<recorded, processed, granted, acked, my, deliveries, faults>>
    BY DEF UpsertSubscription
  <1>3. /\ SubOf \in [Events -> Subs] /\ At \in [Events -> Nat] /\ None \notin Events
    BY BillingAssumption DEF BillingAssumption
  <1>4. TypeOK'
    BY <1>1, <1>2, Upserted DEF BillingInv, TypeOK
  <1>5. HandledOnce'
    BY <1>1, <1>2 DEF BillingInv, HandledOnce
  <1>6. ProcessedMeansApplied'
    <2>1. \A e \in processed : /\ sub'[SubOf[e]] # None /\ At[sub'[SubOf[e]]] >= At[e]
                               /\ granted[SubOf[e]] # None
      BY <1>3, Upserted DEF BillingInv, ProcessedMeansApplied, TypeOK
    <2>2. \A s \in Subs : granted[s] # None => sub'[s] # None /\ At[granted[s]] <= At[sub'[s]]
      BY <1>3, Upserted DEF BillingInv, ProcessedMeansApplied, TypeOK
    <2>3. QED
      BY <2>1, <2>2, <1>2 DEF ProcessedMeansApplied
  <1>7. ASSUME NEW q \in Procs PROVE Progress(q)'
    <2>1. CASE q = p
      BY <2>1, <1>1, <1>2, Upserted DEF BillingInv, Progress
    <2>2. CASE q # p
      <3>1. pc'[q] = pc[q] /\ my'[q] = my[q] /\ Progress(q)
        BY <2>2, <1>1, <1>2 DEF BillingInv
      <3>2. pc[q] # "idle" => SubOf[my[q].ev] \in Subs
        BY <3>1, <1>3 DEF Progress
      <3>3. QED
        BY <3>1, <3>2, <1>2, <1>3, Upserted DEF Progress, BillingInv, TypeOK
    <2>3. QED
      BY <2>1, <2>2
  <1>8. QED
    BY <1>4, <1>5, <1>6, <1>7 DEF BillingInv

\* The row read back exists, is of the handler's subscription, and is the current one.
LEMMA ReadStep ==
  ASSUME BillingInv, NEW p \in Procs, GetSubscription(p)
  PROVE  BillingInv'
  <1> USE DEF PCs, Handling
  <1> DEFINE s == SubOf[my[p].ev]
  <1>1. /\ pc[p] = "read" /\ pc' \in [Procs -> PCs] /\ pc'[p] = "grant"
        /\ \A q \in Procs : q # p => pc'[q] = pc[q]
    BY Stepped DEF BillingInv, GetSubscription
  <1>2. UNCHANGED <<recorded, processed, sub, granted, acked, deliveries, faults>>
    BY DEF GetSubscription, rows
  <1>3. /\ SubOf \in [Events -> Subs] /\ At \in [Events -> Nat]
    BY BillingAssumption DEF BillingAssumption
  <1>4. my[p].ev \in Events /\ s \in Subs /\ sub[s] # None
    BY <1>1, <1>3 DEF BillingInv, Progress
  <1>5. sub[s] \in Events /\ SubOf[sub[s]] = s
    BY <1>4 DEF BillingInv, TypeOK
  <1>6. /\ my' \in [Procs -> [ev : Events \cup {None}, read : Events \cup {None}]]
        /\ my'[p].ev = my[p].ev /\ my'[p].read = sub[s]
        /\ \A q \in Procs : q # p => my'[q] = my[q]
    BY <1>5 DEF GetSubscription, BillingInv, TypeOK
  <1>7. TypeOK'
    BY <1>1, <1>2, <1>6 DEF BillingInv, TypeOK
  <1>8. HandledOnce'
    BY <1>1, <1>2, <1>6 DEF BillingInv, HandledOnce
  <1>9. ProcessedMeansApplied'
    BY <1>2 DEF BillingInv, ProcessedMeansApplied
  <1>10. ASSUME NEW q \in Procs PROVE Progress(q)'
    <2>1. CASE q = p
      BY <2>1, <1>1, <1>2, <1>3, <1>4, <1>5, <1>6 DEF BillingInv, Progress
    <2>2. CASE q # p
      BY <2>2, <1>1, <1>2, <1>6 DEF BillingInv, Progress
    <2>3. QED
      BY <2>1, <2>2
  <1>11. QED
    BY <1>7, <1>8, <1>9, <1>10 DEF BillingInv

\* The entitlement is written from a row that was current once: never ahead of it.
LEMMA GrantStep ==
  ASSUME BillingInv, NEW p \in Procs, UpsertEntitlement(p)
  PROVE  BillingInv'
  <1> USE DEF PCs, Handling
  <1> DEFINE s == SubOf[my[p].ev]
             r == my[p].read
  <1>1. /\ pc[p] = "grant" /\ pc' \in [Procs -> PCs] /\ pc'[p] = "mark"
        /\ \A q \in Procs : q # p => pc'[q] = pc[q]
    BY Stepped DEF BillingInv, UpsertEntitlement
  <1>2. /\ UNCHANGED <<recorded, processed, sub, acked, my, deliveries, faults>>
        /\ granted' = [granted EXCEPT ![s] = r]
    BY DEF UpsertEntitlement
  <1>3. SubOf \in [Events -> Subs] /\ At \in [Events -> Nat] /\ None \notin Events
    BY BillingAssumption DEF BillingAssumption
  <1>4. /\ my[p].ev \in Events /\ s \in Subs /\ r \in Events /\ SubOf[r] = s
        /\ sub[s] # None /\ At[r] <= At[sub[s]]
    BY <1>1, <1>3 DEF BillingInv, Progress
  <1>5. /\ granted' \in [Subs -> Events \cup {None}] /\ granted'[s] = r
        /\ \A t \in Subs : t # s => granted'[t] = granted[t]
    BY <1>2, <1>4 DEF BillingInv, TypeOK
  <1>6. \A t \in Subs : granted[t] # None => granted'[t] # None
    BY <1>3, <1>4, <1>5
  <1>7. TypeOK'
    BY <1>1, <1>2, <1>4, <1>5 DEF BillingInv, TypeOK
  <1>8. HandledOnce'
    BY <1>1, <1>2 DEF BillingInv, HandledOnce
  <1>9. ProcessedMeansApplied'
    BY <1>2, <1>3, <1>4, <1>5, <1>6 DEF BillingInv, TypeOK, ProcessedMeansApplied
  <1>10. ASSUME NEW q \in Procs PROVE Progress(q)'
    <2>1. CASE q = p
      BY <2>1, <1>1, <1>2, <1>3, <1>4, <1>5 DEF BillingInv, Progress
    <2>2. CASE q # p
      BY <2>2, <1>1, <1>2, <1>3, <1>6 DEF BillingInv, Progress
    <2>3. QED
      BY <2>1, <2>2
  <1>11. QED
    BY <1>7, <1>8, <1>9, <1>10 DEF BillingInv

\* The event is marked once everything it asks for is in the rows, and only by the one
\* handler that took it on.
LEMMA MarkStep ==
  ASSUME BillingInv, NEW p \in Procs, MarkEventProcessed(p)
  PROVE  BillingInv'
  <1> USE DEF PCs, Handling
  <1> DEFINE e == my[p].ev
  <1>1. /\ pc[p] = "mark" /\ Return(p)
        /\ processed' = processed \cup {e} /\ acked' = acked \cup {e}
        /\ UNCHANGED <<recorded, sub, granted, deliveries, faults>>
    BY DEF MarkEventProcessed
  <1>2. /\ e \in Events /\ e \in recorded /\ sub[SubOf[e]] # None
        /\ At[sub[SubOf[e]]] >= At[e] /\ granted[SubOf[e]] # None
    BY <1>1 DEF BillingInv, Progress
  <1>3. \A q \in Procs : q # p /\ pc[q] \in Handling => my[q].ev # e
    BY <1>1 DEF BillingInv, HandledOnce
  <1>4. TypeOK'
    BY <1>1, <1>2, Returned DEF BillingInv, TypeOK
  <1>5. HandledOnce'
    BY <1>1, <1>3, Returned DEF BillingInv, HandledOnce
  <1>6. ProcessedMeansApplied'
    BY <1>1, <1>2 DEF BillingInv, ProcessedMeansApplied
  <1>7. \A q \in Procs : Progress(q)'
    BY <1>1, <1>3, Returned DEF BillingInv, Progress
  <1>8. QED
    BY <1>4, <1>5, <1>6, <1>7 DEF BillingInv

\* A failure leaves the rows as they are and gives the event up.
LEMMA FailStep ==
  ASSUME BillingInv, NEW p \in Procs, Fail(p)
  PROVE  BillingInv'
  <1> USE DEF PCs, Handling
  <1>1. /\ Return(p) /\ faults' \in 0..MaxFaults
        /\ UNCHANGED <<recorded, processed, sub, granted, acked, deliveries>>
    BY BillingAssumption DEF BillingAssumption, BillingInv, TypeOK, Fail, rows
  <1>2. TypeOK'
    BY <1>1, Returned DEF BillingInv, TypeOK
  <1>3. HandledOnce'
    BY <1>1, Returned DEF BillingInv, HandledOnce
  <1>4. ProcessedMeansApplied'
    BY <1>1 DEF BillingInv, ProcessedMeansApplied
  <1>5. \A q \in Procs : Progress(q)'
    BY <1>1, Returned DEF BillingInv, Progress
  <1>6. QED
    BY <1>2, <1>3, <1>4, <1>5 DEF BillingInv

\* Every step of every handler keeps the invariant.
LEMMA NextInv == BillingInv /\ [Next]_vars => BillingInv'
  <1> SUFFICES ASSUME BillingInv, [Next]_vars PROVE BillingInv'
    OBVIOUS
  <1>1. ASSUME NEW p \in Procs, Handle(p) PROVE BillingInv'
    BY <1>1, InsertStep, UpsertStep, ReadStep, GrantStep, MarkStep DEF Handle
  <1>2. CASE UNCHANGED vars
    BY <1>2 DEF vars, rows, BillingInv, TypeOK, HandledOnce, ProcessedMeansApplied, Progress
  <1>3. QED
    BY <1>1, <1>2, DeliverStep, FailStep DEF Next, Quiescent

\* The invariant holds in every reachable state of the webhook handlers.
THEOREM BillingInvariance == Spec => []BillingInv
  BY InitInv, NextInv, PTL DEF Spec

\* However often and by however many handlers an event is received, one handles it.
THEOREM EventsHandledOnce == Spec => []HandledOnce
  <1>1. BillingInv => HandledOnce
    BY DEF BillingInv
  <1>2. QED
    BY <1>1, BillingInvariance, PTL

\* A processed event is in the subscription and in an entitlement, which is never ahead
\* of the subscription.
THEOREM ProcessedApplied == Spec => []ProcessedMeansApplied
  <1>1. BillingInv => ProcessedMeansApplied
    BY DEF BillingInv
  <1>2. QED
    BY <1>1, BillingInvariance, PTL

\* Events that arrive out of order never take a subscription row back.
THEOREM SubscriptionsAdvance == Spec => SubscriptionNeverOlder
  <1> DEFINE Newer == \A s \in Subs : sub'[s] # sub[s] =>
         sub'[s] # None /\ (sub[s] # None => At[sub'[s]] > At[sub[s]])
  <1>1. BillingInv /\ [Next]_vars => [Newer]_vars
    <2> SUFFICES ASSUME BillingInv, Next PROVE Newer \/ UNCHANGED vars
      OBVIOUS
    <2>1. ASSUME NEW p \in Procs, UpsertSubscription(p) PROVE Newer
      BY <2>1, Upserted
    <2>2. ASSUME NEW p \in Procs, Handle(p), ~UpsertSubscription(p) PROVE sub' = sub
      BY <2>2 DEF Handle, InsertEvent, GetSubscription, UpsertEntitlement,
                  MarkEventProcessed, rows
    <2>3. ASSUME NEW p \in Procs, Fail(p) \/ \E e \in Events : Deliver(p, e)
          PROVE  sub' = sub
      BY <2>3 DEF Fail, Deliver, rows
    <2>4. QED
      BY <2>1, <2>2, <2>3 DEF Next, Quiescent
  <1>2. QED
    BY <1>1, BillingInvariance, PTL DEF Spec, SubscriptionNeverOlder
=============================================================================
