---------------------------- MODULE Subscription ----------------------------
(***************************************************************************)
(* The Paddle side of one merchant (billing.service.ts).  Paddle delivers  *)
(* its events at least once and in any order, and each delivery is handled *)
(* in steps that other deliveries interleave with: record the event id     *)
(* (the latch against redelivery), look for a newer event of the same      *)
(* subject, update the merchants row, then Redis.  Failed payments are     *)
(* collected in a Redis set, a payment deletes it, and enough of them      *)
(* suspend the merchant.  An owner without a subscription opens hosted     *)
(* checkouts, the first of which creates the Paddle customer.  Tiers, and  *)
(* the tier in the cache, are left out: no property here depends on them.  *)
(***************************************************************************)
EXTENDS Integers, FiniteSets

CONSTANTS
    Events,         \* Paddle events
    Kind,           \* Kind[e]: see Kinds
    Subject,        \* Subject[e]: paddleEntityId, the subscription or transaction
    At,             \* At[e]: occurredAt
    Stamped,        \* events whose custom data name the merchant
    Deliveries,     \* deliveries of events, redeliveries included
    EventOf,        \* EventOf[d]: the event d delivers
    Overlap,        \* the bound on deliveries handled at once
    Requests,       \* requests of the owner to change the tier
    Threshold,      \* DUNNING_SUSPEND_THRESHOLD; the first strike alone never suspends
    Faults          \* subset of {"crash", "refuse"}

SubscriptionKinds == {"created", "renewed", "lapsed", "canceled"}
Kinds == SubscriptionKinds \cup {"paid", "failed"}

ASSUME EventAssumption ==
    /\ Kind \in [Events -> Kinds] /\ At \in [Events -> Nat]
    /\ Stamped \subseteq Events /\ EventOf \in [Deliveries -> Events]
ASSUME BoundAssumption ==
    /\ Threshold \in Nat \ {0, 1} /\ Overlap \in Nat \ {0}
    /\ IsFiniteSet(Events)

VARIABLES
    merchant,   \* is_active, subscription and customer ids known
    dunning,    \* paddle:dunning:<id>: its members and whether it has a TTL
    recorded,   \* paddle_webhook_events
    job,        \* job[d]: where the handling of delivery d is, the strikes it counted,
                \* and (history) whether it arrived after a newer event took effect
    request,    \* request[r]: where the owner's request r is
    customer,   \* whether Paddle knows a customer with the owner's email
    applied,    \* history: subscription events that have updated the row
    fresh       \* history: failures not yet forgiven by a payment

vars == <<merchant, dunning, recorded, job, request, customer, applied, fresh>>
history == <<applied, fresh>>

Labels  == {"none", "record", "guard", "update", "forgive", "strike",
            "count", "expire", "suspend", "done", "dropped"}
Stages  == {"idle", "create", "keep", "checkout", "done"}
Absent   == [at |-> "none", count |-> 0, late |-> FALSE]
InFlight == Labels \ {"none", "done", "dropped"}

\* A merchant before its first subscription, or one that has it.
Init ==
    /\ \E known \in BOOLEAN :
          /\ merchant = [active |-> TRUE, subscribed |-> known, customer |-> known]
          /\ customer = known
    /\ dunning = [strikes |-> {}, ttl |-> FALSE]
    /\ recorded = {}
    /\ job = [d \in Deliveries |-> Absent]
    /\ request = [r \in Requests |-> "idle"]
    /\ applied = {} /\ fresh = {}

-----------------------------------------------------------------------------
(* A delivery, in the order of the handler's statements.                   *)

Goto(d, label) == job' = [job EXCEPT ![d] = [job[d] EXCEPT !.at = label]]
Finish(d, label) == job' = [job EXCEPT ![d] = [Absent EXCEPT !.at = label]]

\* Where the switch on the event type leads.
FirstStep(e) == IF Kind[e] = "failed" THEN "strike" ELSE "update"

Late(e) == \E n \in applied : Subject[n] = Subject[e] /\ At[n] > At[e]

\* The signed request comes in; Paddle has events only for its customers.
Deliver(d) ==
    /\ customer /\ job[d].at = "none"
    /\ Cardinality({c \in Deliveries : job[c].at \in InFlight}) < Overlap
    /\ job' = [job EXCEPT ![d] = [Absent EXCEPT !.at = "record", !.late = Late(EventOf[d])]]
    /\ UNCHANGED <<merchant, dunning, recorded, request, customer, history>>

\* Mutant: the row is written without the unique index.
RecordAlways(d) ==
    LET e == EventOf[d]
    IN  /\ job[d].at = "record"
        /\ recorded' = recorded \cup {e}
        /\ Goto(d, IF Kind[e] \in SubscriptionKinds THEN "guard" ELSE FirstStep(e))
        /\ fresh' = IF Kind[e] = "failed" THEN fresh \cup {e} ELSE fresh
        /\ UNCHANGED <<merchant, dunning, request, customer, applied>>

\* recordPaddleEvent: the unique event id lets one delivery through.
Record(d) ==
    LET e == EventOf[d]
    IN  /\ job[d].at = "record"
        /\ recorded' = recorded \cup {e}
        /\ IF e \in recorded
           THEN /\ Finish(d, "dropped")
                /\ UNCHANGED fresh
           ELSE /\ Goto(d, IF Kind[e] \in SubscriptionKinds THEN "guard" ELSE FirstStep(e))
                /\ fresh' = IF Kind[e] = "failed" THEN fresh \cup {e} ELSE fresh
        /\ UNCHANGED <<merchant, dunning, request, customer, applied>>

\* Mutant: the comparison is the wrong way round.
OlderRecorded(e) == \E n \in recorded \ {e} : Subject[n] = Subject[e] /\ At[n] < At[e]

\* isSupersededByNewerEvent: recorded, not necessarily applied.
Superseded(e) == \E n \in recorded \ {e} : Subject[n] = Subject[e] /\ At[n] > At[e]

OrderingGuard(d) ==
    /\ job[d].at = "guard"
    /\ IF Superseded(EventOf[d]) THEN Finish(d, "done") ELSE Goto(d, "update")
    /\ UNCHANGED <<merchant, dunning, recorded, request, customer, history>>

\* merchantIdForEvent: by the stamp, or by the stored customer id.
Resolved(e) == e \in Stamped \/ merchant.customer

\* The row after event e.
Updated(e) ==
    CASE Kind[e] = "created"                -> [merchant EXCEPT !.subscribed = TRUE, !.active = TRUE]
      [] Kind[e] \in {"renewed", "paid"}    -> [merchant EXCEPT !.active = TRUE]
      [] Kind[e] \in {"lapsed", "canceled"} -> [merchant EXCEPT !.active = FALSE]

\* onSubscriptionCreated, -Updated, -Canceled and onTransactionPaid.
Update(d) ==
    LET e == EventOf[d]
    IN  /\ job[d].at = "update"
        /\ IF ~Resolved(e)
           THEN Finish(d, "done") /\ UNCHANGED <<merchant, applied>>
           ELSE /\ merchant' = Updated(e)
                /\ IF Kind[e] = "paid"
                   THEN Goto(d, "forgive") /\ UNCHANGED applied
                   ELSE Finish(d, "done") /\ applied' = applied \cup {e}
        /\ UNCHANGED <<dunning, recorded, request, customer, fresh>>

\* Failures whose strike is still to come.
Pending == {EventOf[d] : d \in {d \in Deliveries : job[d].at = "strike"}}

\* Mutant: a payment does not reset the dunning set.
KeepStrikes(d) ==
    /\ job[d].at = "forgive"
    /\ Finish(d, "done")
    /\ fresh' = Pending
    /\ UNCHANGED <<merchant, dunning, recorded, request, customer, applied>>

\* onTransactionPaid, second half: DEL.
Forgive(d) ==
    /\ job[d].at = "forgive"
    /\ dunning' = [strikes |-> {}, ttl |-> FALSE]
    /\ Finish(d, "done")
    /\ fresh' = Pending
    /\ UNCHANGED <<merchant, recorded, request, customer, applied>>

\* onTransactionPaymentFailed: SADD, SCARD, EXPIRE on the first member, and
\* the suspension, four calls that other deliveries interleave with.
Strike(d) ==
    /\ job[d].at = "strike"
    /\ IF Resolved(EventOf[d])
       THEN /\ dunning' = [dunning EXCEPT !.strikes = @ \cup {EventOf[d]}]
            /\ Goto(d, "count")
       ELSE /\ Finish(d, "done")
            /\ UNCHANGED dunning
    /\ UNCHANGED <<merchant, recorded, request, customer, history>>

AfterCount(d, count) ==
    IF count >= Threshold THEN Goto(d, "suspend") ELSE Finish(d, "done")

\* SADD has added the event (the latch lets it through once), so the count alone
\* tells the first strike.
Count(d) ==
    LET count == Cardinality(dunning.strikes)
    IN  /\ job[d].at = "count"
        /\ IF count = 1
           THEN job' = [job EXCEPT ![d] = [job[d] EXCEPT !.at = "expire", !.count = count]]
           ELSE AfterCount(d, count)
        /\ UNCHANGED <<merchant, dunning, recorded, request, customer, history>>

\* Mutant: the TTL is set whether the key is there or not.
ExpireAlways(d) ==
    /\ job[d].at = "expire"
    /\ dunning' = [dunning EXCEPT !.ttl = TRUE]
    /\ AfterCount(d, job[d].count)
    /\ UNCHANGED <<merchant, recorded, request, customer, history>>

\* EXPIRE does nothing when a payment has deleted the key meanwhile.
Expire(d) ==
    /\ job[d].at = "expire"
    /\ dunning' = [dunning EXCEPT !.ttl = dunning.strikes # {}]
    /\ AfterCount(d, job[d].count)
    /\ UNCHANGED <<merchant, recorded, request, customer, history>>

Suspend(d) ==
    /\ job[d].at = "suspend"
    /\ merchant' = [merchant EXCEPT !.active = FALSE]
    /\ Finish(d, "done")
    /\ UNCHANGED <<dunning, recorded, request, customer, history>>

\* The process dies or a statement throws.  Paddle delivers again, but an
\* event that is already recorded will not be handled again.
Crash(d) ==
    /\ "crash" \in Faults
    /\ job[d].at \in InFlight
    /\ Finish(d, IF job[d].at = "record" THEN "dropped" ELSE "done")
    /\ UNCHANGED <<merchant, dunning, recorded, request, customer, history>>

-----------------------------------------------------------------------------
(* The owner and the clock.                                                *)

Enter(r, stage) == request' = [request EXCEPT ![r] = stage]

\* changeTier reads the row: a subscriber changes tier in place, anyone else
\* goes through a checkout, which needs a customer first (one that is stored is
\* looked up at Paddle and reused).
ChangeTier(r) ==
    /\ request[r] = "idle" /\ merchant.active
    /\ Enter(r, CASE merchant.subscribed -> "done"
                  [] merchant.customer   -> "checkout"
                  [] OTHER               -> "create")
    /\ UNCHANGED <<merchant, dunning, recorded, job, customer, history>>

\* createCustomerReusingOnConflict: a customer created by an earlier attempt is
\* found by its email.  The answer may be lost.
CreateCustomer(r) ==
    /\ request[r] = "create"
    /\ customer' = TRUE
    /\ \/ Enter(r, "keep")
       \/ "refuse" \in Faults /\ Enter(r, "idle")
    /\ UNCHANGED <<merchant, dunning, recorded, job, history>>

KeepCustomer(r) ==
    /\ request[r] = "keep"
    /\ merchant' = [merchant EXCEPT !.customer = TRUE]
    /\ Enter(r, "checkout")
    /\ UNCHANGED <<dunning, recorded, job, customer, history>>

\* transactions.create: the subscription comes with a webhook, if it is paid.
Checkout(r) ==
    /\ request[r] = "checkout"
    /\ Enter(r, "done")
    /\ UNCHANGED <<merchant, dunning, recorded, job, customer, history>>

\* Paddle or the breaker refuses, or the process dies: the owner tries again.
FailRequest(r) ==
    /\ "refuse" \in Faults
    /\ request[r] \notin {"idle", "done"}
    /\ Enter(r, "idle")
    /\ UNCHANGED <<merchant, dunning, recorded, job, customer, history>>

\* upsert: every OAuth sign-in of the shop reactivates the merchant.
SignIn ==
    /\ ~merchant.active
    /\ merchant' = [merchant EXCEPT !.active = TRUE]
    /\ UNCHANGED <<dunning, recorded, job, request, customer, history>>

\* Thirty days after the first strike.
DunningExpires ==
    /\ dunning.ttl
    /\ dunning' = [strikes |-> {}, ttl |-> FALSE]
    /\ UNCHANGED <<merchant, recorded, job, request, customer, history>>

-----------------------------------------------------------------------------
Handle(d) == Record(d) \/ OrderingGuard(d) \/ Update(d) \/ Forgive(d)
                 \/ Strike(d) \/ Count(d) \/ Expire(d) \/ Suspend(d)

Proceed(r) == CreateCustomer(r) \/ KeepCustomer(r) \/ Checkout(r)

Next ==
    \/ \E d \in Deliveries : Deliver(d) \/ Handle(d) \/ Crash(d)
    \/ \E r \in Requests : ChangeTier(r) \/ Proceed(r) \/ FailRequest(r)
    \/ SignIn \/ DunningExpires

Spec == Init /\ [][Next]_vars

-----------------------------------------------------------------------------
(* Properties.                                                             *)

\* Every variable keeps its type, and a TTL belongs to a dunning set that exists.
TypeOK ==
    /\ merchant \in [active : BOOLEAN, subscribed : BOOLEAN, customer : BOOLEAN]
    /\ dunning \in [strikes : SUBSET Events, ttl : BOOLEAN]
    /\ dunning.ttl => dunning.strikes # {}
    /\ recorded \subseteq Events
    /\ job \in [Deliveries -> [at : Labels, count : Nat, late : BOOLEAN]]
    /\ request \in [Requests -> Stages]
    /\ customer \in BOOLEAN
    /\ applied \subseteq Events /\ fresh \subseteq Events

\* Deliveries of one event that got past the latch.
Handled(d) == job[d].at \notin {"none", "record", "dropped"}

\* "A redelivery collides on the unique index and is skipped, so a handler
\* never re-runs" (billing.service.ts:537), concurrent pods included.
RedeliveryIsInert ==
    \A d, c \in Deliveries : (EventOf[d] = EventOf[c] /\ Handled(d) /\ Handled(c)) => d = c

\* A delivery decides to suspend only on Threshold distinct failures, none of
\* which a payment forgave before: redeliveries do not count twice, a forgiven
\* failure does not count again.
SuspensionIsEarned ==
    [][\A d \in Deliveries :
          (job'[d].at = "suspend" /\ job[d].at # "suspend")
              => Cardinality(fresh) >= Threshold]_vars

\* An event that arrives after a newer one of its subscription took effect
\* never updates the merchant: only deliveries that overlap can.
LateEventIsDropped ==
    \A d \in Deliveries :
        (job[d].at = "update" /\ Kind[EventOf[d]] \in SubscriptionKinds) => ~job[d].late
=============================================================================
