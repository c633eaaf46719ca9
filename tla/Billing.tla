------------------------------ MODULE Billing ------------------------------
(***************************************************************************)
(* Billing webhooks of the source server (services/internal/billing,       *)
(* Processor.Handle): the payment provider delivers events about           *)
(* subscriptions, in any order, more than once, until one delivery is      *)
(* answered with success; each event updates the subscription row and the  *)
(* customer's entitlement in separate statements.  The rows written from   *)
(* an event are named by that event.                                       *)
(***************************************************************************)
EXTENDS Naturals

CONSTANTS
    Procs,      \* request handlers
    Events,     \* events of the provider
    Subs,       \* subscriptions
    SubOf,      \* event -> its subscription
    At,         \* event -> objectTime
    StatusOf,   \* event -> normalized status
    None,
    MaxDeliveries, MaxFaults   \* bounds

ASSUME BillingAssumption ==
    /\ SubOf \in [Events -> Subs] /\ At \in [Events -> Nat]
    /\ None \notin Events
    /\ MaxDeliveries \in Nat /\ MaxFaults \in Nat

VARIABLES
    recorded,    \* billing_events, one row per event id
    processed,   \* those marked processed
    sub,         \* billing_subscriptions: the event each row was written from
    granted,     \* entitlements: the event each status was derived from
    acked,       \* events the provider got a success for
    pc, my,      \* per handler: its position, the event and the row read back
    deliveries, faults

rows == <<recorded, processed, sub, granted>>
vars == <<rows, acked, pc, my, deliveries, faults>>

Handling == {"upsert", "read", "grant", "mark"}
PCs == Handling \cup {"idle", "insert"}
Locals(e) == [ev |-> e, read |-> None]

Init ==
    /\ recorded = {} /\ processed = {} /\ acked = {}
    /\ sub = [s \in Subs |-> None] /\ granted = [s \in Subs |-> None]
    /\ pc = [p \in Procs |-> "idle"] /\ my = [p \in Procs |-> Locals(None)]
    /\ deliveries = 0 /\ faults = 0

Step(p, here, there) == pc[p] = here /\ pc' = [pc EXCEPT ![p] = there]
Return(p) == pc' = [pc EXCEPT ![p] = "idle"] /\ my' = [my EXCEPT ![p] = Locals(None)]

\* --------------------------------------------------------- faulty variants
\* Operations below with a plausible mistake; no part of Next.

InsertAgain(p) ==
    /\ Step(p, "insert", "upsert")
    /\ recorded' = recorded \cup {my[p].ev}
    /\ UNCHANGED <<processed, sub, granted, acked, my, deliveries, faults>>

Always(s, e) == TRUE

GrantNothing(p) ==
    /\ Step(p, "grant", "mark")
    /\ UNCHANGED <<rows, acked, my, deliveries, faults>>

\* -------------------------------------------------------------- operations

\* The provider delivers an event, for the first time or again.
Deliver(p, e) ==
    /\ deliveries < MaxDeliveries /\ deliveries' = deliveries + 1
    /\ Step(p, "idle", "insert") /\ my' = [my EXCEPT ![p] = Locals(e)]
    /\ UNCHANGED <<rows, acked, faults>>

\* InsertEvent: the event id is unique, and a conflict is answered with success.
InsertEvent(p) ==
    LET e == my[p].ev IN
    /\ pc[p] = "insert"
    /\ IF e \in recorded
       THEN Return(p) /\ acked' = acked \cup {e} /\ UNCHANGED recorded
       ELSE /\ Step(p, "insert", "upsert")
            /\ recorded' = recorded \cup {e} /\ UNCHANGED <<my, acked>>
    /\ UNCHANGED <<processed, sub, granted, deliveries, faults>>

\* A row is only overwritten by an event with a later objectTime.
Overwrites(s, e) == sub[s] = None \/ At[sub[s]] < At[e]
UpsertSubscription(p) ==
    LET e == my[p].ev IN
    /\ Step(p, "upsert", "read")
    /\ sub' = IF Overwrites(SubOf[e], e) THEN [sub EXCEPT ![SubOf[e]] = e] ELSE sub
    /\ UNCHANGED <<recorded, processed, granted, acked, my, deliveries, faults>>

GetSubscription(p) ==
    /\ Step(p, "read", "grant")
    /\ my' = [my EXCEPT ![p].read = sub[SubOf[my[p].ev]]]
    /\ UNCHANGED <<rows, acked, deliveries, faults>>

\* The entitlement takes the status that was read back, whatever it has now.
UpsertEntitlement(p) ==
    /\ Step(p, "grant", "mark")
    /\ granted' = [granted EXCEPT ![SubOf[my[p].ev]] = my[p].read]
    /\ UNCHANGED <<recorded, processed, sub, acked, my, deliveries, faults>>

MarkEventProcessed(p) ==
    /\ pc[p] = "mark" /\ Return(p)
    /\ processed' = processed \cup {my[p].ev} /\ acked' = acked \cup {my[p].ev}
    /\ UNCHANGED <<recorded, sub, granted, deliveries, faults>>

\* A database call fails, or the server dies: nothing is undone, no success is sent.
Fail(p) ==
    /\ faults < MaxFaults /\ faults' = faults + 1
    /\ pc[p] # "idle" /\ Return(p)
    /\ UNCHANGED <<rows, acked, deliveries>>

Quiescent ==
    /\ deliveries = MaxDeliveries /\ \A p \in Procs : pc[p] = "idle"
    /\ UNCHANGED vars

Handle(p) ==
    \/ InsertEvent(p) \/ UpsertSubscription(p) \/ GetSubscription(p)
    \/ UpsertEntitlement(p) \/ MarkEventProcessed(p)

Next ==
    \/ \E p \in Procs : Handle(p) \/ Fail(p) \/ \E e \in Events : Deliver(p, e)
    \/ Quiescent

Spec == Init /\ [][Next]_vars

\* ------------------------------------------------------------- properties

\* Rows name events of their own subscription, and so does what a handler has read.
TypeOK ==
    /\ recorded \subseteq Events /\ processed \subseteq recorded /\ acked \subseteq recorded
    /\ \A s \in Subs : /\ sub[s] # None => sub[s] \in Events /\ SubOf[sub[s]] = s
                       /\ granted[s] # None => granted[s] \in Events /\ SubOf[granted[s]] = s
    /\ sub \in [Subs -> Events \cup {None}] /\ granted \in [Subs -> Events \cup {None}]
    /\ pc \in [Procs -> PCs]
    /\ my \in [Procs -> [ev : Events \cup {None}, read : Events \cup {None}]]
    /\ deliveries \in 0..MaxDeliveries /\ faults \in 0..MaxFaults

\* No event is handled twice, by one handler after another or by two at once, however
\* often it is delivered (billing.go: a repeated event grants nothing again).
HandledOnce ==
    \A p, q \in Procs :
        pc[p] \in Handling =>
            /\ my[p].ev \in recorded \ processed
            /\ pc[q] \in Handling /\ my[q].ev = my[p].ev => p = q

\* A subscription row never goes back to an older event, in whatever order events come.
SubscriptionNeverOlder ==
    [][\A s \in Subs : sub'[s] # sub[s] =>
         sub'[s] # None /\ (sub[s] # None => At[sub'[s]] > At[sub[s]])]_vars

\* A processed event is in the rows: the subscription is at least as new, and there is
\* an entitlement, which is never ahead of the subscription.
ProcessedMeansApplied ==
    /\ \A e \in processed :
         /\ sub[SubOf[e]] # None /\ At[sub[SubOf[e]]] >= At[e]
         /\ granted[SubOf[e]] # None
    /\ \A s \in Subs : granted[s] # None =>
         sub[s] # None /\ At[granted[s]] <= At[sub[s]]

\* An event the provider need not send again has taken effect, once nobody is at work
\* on it (docs/PRODUCTION.md:96).
AckedMeansApplied ==
    \A e \in acked :
        (\A p \in Procs : my[p].ev # e) => e \in processed

\* When no handler is at work, the entitlement has the status of the subscription.
EntitlementFollowsSubscription ==
    (\A p \in Procs : pc[p] = "idle") =>
        \A s \in Subs : sub[s] # None =>
            granted[s] # None /\ StatusOf[granted[s]] = StatusOf[sub[s]]
=============================================================================
