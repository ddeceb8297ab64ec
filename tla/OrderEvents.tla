---------------------------- MODULE OrderEvents -----------------------------
(***************************************************************************)
(* One Shopify order and the webhooks about it: orders/create issues its   *)
(* invoice (workers/invoice-generate.worker.ts), orders/updated copies its *)
(* status (workers/order-sync.worker.ts), fulfillments/create records the  *)
(* shipment (workers/fulfillment-sync.worker.ts) and queues a shipping     *)
(* email (workers/shipping-email.worker.ts).  The controller records an    *)
(* event and then queues its job (webhooks/webhooks.controller.ts); the    *)
(* workers take jobs in any order, several at once.  The queue (BullMQ)    *)
(* runs a failed attempt again up to a limit, and one whose worker lost    *)
(* its lock although that worker may still go on, but not for ever: a job  *)
(* that stalls too often is failed with attempts left, which onFailed does *)
(* not report.                                                             *)
(***************************************************************************)
EXTENDS Naturals, FiniteSets

CONSTANTS
    Events,         \* the webhook events of the order
    Topic,          \* Topic[e]: see Topics
    Workers,
    NoEvent,
    MaxAttempts,    \* attempts of DEFAULT_JOB_OPTIONS
    MaxStalls,      \* maxStalledCount, BullMQ's default (1 in the code)
    MaxEvents,      \* the bound on the events raised
    MaxFaults       \* the bound on failures and stalls

Topics   == {"orders/create", "orders/updated", "fulfillments/create"}
Statuses == {"pending", "confirmed", "fulfilled", "cancelled"}

ASSUME TopicAssumption == /\ Topic \in [Events -> Topics] /\ NoEvent \notin Events
ASSUME BoundAssumption == MaxAttempts \in Nat \ {0} /\ {MaxStalls, MaxEvents, MaxFaults} \subseteq Nat

VARIABLES
    shopify,    \* mapStatus of the order at Shopify
    raised,     \* events Shopify has to deliver
    success,    \* fulfillments whose payload reports "success"
    row,        \* row[e]: status of the webhook_events row
    queue,      \* the jobs waiting
    failed,     \* the jobs in the queue's failed set
    worker,     \* worker[w]: its job, where it is in it, whether it still has the
                \* job's lock (owner), and the status it read
    order,      \* the local order
    invoices,   \* invoices of the order
    mails,      \* invoice emails sent
    notices,    \* notices[e]: shipping emails queued for fulfillment e
    skipped,    \* events acknowledged without effect: no local order, no buyer
    faults

outside == <<shopify, raised, success>>
effects == <<order, invoices, mails, notices, skipped>>
jobs    == <<row, queue, failed>>
vars    == <<outside, jobs, worker, effects, faults>>

Idle == [at |-> "idle", event |-> NoEvent, name |-> "none", tries |-> 0, stalls |-> 0,
         owner |-> FALSE, seen |-> "pending"]
\* tries is attemptsMade, stalls the count of lost locks.
Job(e, n, t, s) == [event |-> e, name |-> n, tries |-> t, stalls |-> s]

\* An order of the portal is in the database before its webhooks; one entered at
\* Shopify is not.
Init ==
    /\ shopify = "pending" /\ raised = {} /\ success = {}
    /\ row = [e \in Events |-> "absent"]
    /\ queue = {} /\ failed = {}
    /\ worker = [w \in Workers |-> Idle]
    /\ order \in [exists : BOOLEAN, status : {"pending"}]
    /\ invoices = 0 /\ mails = 0
    /\ notices = [e \in Events |-> 0]
    /\ skipped = {} /\ faults = 0

-----------------------------------------------------------------------------
(* Shopify and the controller.                                             *)

\* What happens to the order, and the event about it: it is paid, cancelled or
\* shipped.
Raise(e) ==
    /\ e \notin raised /\ Cardinality(raised) < MaxEvents
    /\ raised' = raised \cup {e}
    /\ \/ /\ Topic[e] = "orders/updated"
          /\ shopify' \in (IF shopify = "pending" THEN {"confirmed", "cancelled"} ELSE {shopify})
          /\ UNCHANGED success
       \/ /\ Topic[e] = "fulfillments/create"
          /\ shopify' = IF shopify = "cancelled" THEN shopify ELSE "fulfilled"
          /\ success' = success \cup {e}
       \/ Topic[e] # "orders/updated" /\ UNCHANGED <<shopify, success>>
    /\ UNCHANGED <<jobs, worker, effects, faults>>

\* ingest: the row is unique per event, then the job is queued; nobody looks in
\* between.  A delivery that finds the row is acknowledged and changes nothing.
Ingest(e) ==
    /\ e \in raised /\ row[e] = "absent"
    /\ row' = [row EXCEPT ![e] = "pending"]
    /\ queue' = queue \cup {Job(e, "main", 0, 0)}
    /\ UNCHANGED <<outside, failed, worker, effects, faults>>

\* The process dies or the queue is down after the row: it stays pending, and the
\* next delivery is taken for a duplicate.
FailAdd(e) ==
    /\ faults < MaxFaults /\ e \in raised /\ row[e] = "absent"
    /\ faults' = faults + 1
    /\ row' = [row EXCEPT ![e] = "pending"]
    /\ UNCHANGED <<outside, queue, failed, worker, effects>>

-----------------------------------------------------------------------------
(* The workers: what the jobs share.                                       *)

At(w, label)   == worker[w].at = label
GoOn(w, label, status) ==
    worker' = [worker EXCEPT ![w] = [worker[w] EXCEPT !.at = label, !.seen = status]]
Goto(w, label) == GoOn(w, label, "pending")
Done(w)        == worker' = [worker EXCEPT ![w] = Idle]
Of(w)          == worker[w].event

FirstStep(j) ==
    IF j.name = "email" THEN "send"
    ELSE IF Topic[j.event] = "orders/create" THEN "check" ELSE "find"

\* The row of a main job becomes "processing"; an email job has no row.
Take(w, j) ==
    /\ At(w, "idle") /\ j \in queue /\ j.stalls <= MaxStalls
    /\ queue' = queue \ {j}
    /\ worker' = [worker EXCEPT ![w] = [at |-> FirstStep(j), event |-> j.event, name |-> j.name,
                                        tries |-> j.tries, stalls |-> j.stalls,
                                        owner |-> TRUE, seen |-> "pending"]]
    /\ row' = IF j.name = "email" THEN row ELSE [row EXCEPT ![j.event] = "processing"]
    /\ UNCHANGED <<outside, failed, effects, faults>>

\* Only the attempt that issued the invoice goes on to its audit row; sync and
\* fulfillment write theirs before they mark.
MarkProcessed(w) ==
    /\ worker[w].at \in {"mark", "markIssued"}
    /\ row' = [row EXCEPT ![Of(w)] = "processed"]
    /\ IF At(w, "markIssued") THEN Goto(w, "audit") ELSE Done(w)
    /\ UNCHANGED <<outside, queue, failed, effects, faults>>

WriteAudit(w) ==
    /\ At(w, "audit") /\ Done(w)
    /\ UNCHANGED <<outside, jobs, effects, faults>>

\* Mutant: one attempt too many.
OneMore(t) == t <= MaxAttempts
Again(t)   == t < MaxAttempts

\* A failed job is kept for inspection.  onFailed marks the event's row if every
\* attempt has been made (also when the job was the email of a fulfillment that
\* was processed), unless its update fails, which is swallowed.
Bury(e, name, made) ==
    /\ failed' = failed \cup {<<e, name>>}
    /\ \/ UNCHANGED row
       \/ ~Again(made) /\ row' = [row EXCEPT ![e] = "dead_letter"]


\* The queue runs the job again or gives it up.  It listens only to the owner.
Retry(w) ==
    LET made == worker[w].tries + 1
    IN  /\ Done(w)
        /\ \/ ~worker[w].owner /\ UNCHANGED jobs
           \/ /\ worker[w].owner /\ Again(made)
              /\ queue' = queue \cup {Job(Of(w), worker[w].name, made, worker[w].stalls)}
              /\ UNCHANGED <<row, failed>>
           \/ /\ worker[w].owner /\ ~Again(made)
              /\ Bury(Of(w), worker[w].name, made)
              /\ UNCHANGED queue

Fail(w) ==
    /\ faults < MaxFaults /\ ~At(w, "idle")
    /\ faults' = faults + 1
    /\ Retry(w)
    /\ UNCHANGED <<outside, effects>>

\* The worker dies, or its lock expires: another takes the job while this one
\* goes on.
Stall(w) ==
    /\ faults < MaxFaults /\ ~At(w, "idle") /\ worker[w].owner
    /\ faults' = faults + 1
    /\ queue' = queue \cup
          {Job(Of(w), worker[w].name, worker[w].tries, worker[w].stalls + 1)}
    /\ \/ Done(w)
       \/ worker' = [worker EXCEPT ![w] = [worker[w] EXCEPT !.owner = FALSE]]
    /\ UNCHANGED <<outside, row, failed, effects>>

\* "job stalled more than allowable limit": failed without being run, whatever
\* attempts it has left.
FailStalled(j) ==
    /\ j \in queue /\ j.stalls > MaxStalls
    /\ queue' = queue \ {j}
    /\ Bury(j.event, j.name, j.tries + 1)
    /\ UNCHANGED <<outside, worker, effects, faults>>

-----------------------------------------------------------------------------
(* invoice:generate.                                                       *)

\* An invoice that is there ends the job.  Then merchant, order, buyer and
\* relationship are looked up; without a buyer nothing is issued.
CheckInvoice(w) ==
    /\ At(w, "check")
    /\ \/ Goto(w, IF invoices > 0 THEN "mark" ELSE "issue") /\ UNCHANGED skipped
       \/ invoices = 0 /\ Goto(w, "mark") /\ skipped' = skipped \cup {Of(w)}
    /\ UNCHANGED <<outside, jobs, order, invoices, mails, notices, faults>>

\* Mutant: a second invoice can be attached to an order.
IssueAgain(w) ==
    /\ At(w, "issue")
    /\ invoices' = invoices + 1
    /\ order' = [exists |-> TRUE, status |-> "confirmed"]
    /\ Goto(w, "mail")
    /\ UNCHANGED <<outside, jobs, mails, notices, skipped, faults>>

\* The SERIALIZABLE transaction: upsert the order as confirmed, whatever became
\* of it at Shopify, and create its invoice, unique per order.  The PDF of an
\* attempt that meets an invoice is left behind.
IssueInvoice(w) ==
    /\ At(w, "issue")
    /\ IF invoices > 0
       THEN Retry(w) /\ UNCHANGED <<order, invoices>>
       ELSE /\ invoices' = invoices + 1
            /\ order' = [exists |-> TRUE, status |-> "confirmed"]
            /\ Goto(w, "mail")
            /\ UNCHANGED jobs
    /\ UNCHANGED <<outside, mails, notices, skipped, faults>>

SendInvoiceEmail(w) ==
    /\ At(w, "mail")
    /\ mails' = mails + 1
    /\ Goto(w, "markIssued")
    /\ UNCHANGED <<outside, jobs, order, invoices, notices, skipped, faults>>

-----------------------------------------------------------------------------
(* order:sync, order:fulfillment-sync and order:send-shipping-email.       *)

\* An order that is not known locally ends both.
FindOrder(w) ==
    /\ At(w, "find")
    /\ IF order.exists
       THEN /\ IF Topic[Of(w)] = "orders/updated" THEN Goto(w, "fetch")
               ELSE GoOn(w, "ship", order.status)
            /\ UNCHANGED skipped
       ELSE Goto(w, "mark") /\ skipped' = skipped \cup {Of(w)}
    /\ UNCHANGED <<outside, jobs, order, invoices, mails, notices, faults>>

GetOrder(w) ==
    /\ At(w, "fetch")
    /\ GoOn(w, "write", shopify)
    /\ UNCHANGED <<outside, jobs, effects, faults>>

WriteStatus(w) ==
    /\ At(w, "write")
    /\ order' = [order EXCEPT !.status = worker[w].seen]
    /\ Goto(w, "mark")
    /\ UNCHANGED <<outside, jobs, invoices, mails, notices, skipped, faults>>

\* Mutant: the row is marked before the email is queued.
MarkFirst == "mark"
AfterShip == "notify"

\* Tracking, and "fulfilled" or the status read before.
WriteShipment(w) ==
    /\ At(w, "ship")
    /\ order' = [order EXCEPT !.status = IF Of(w) \in success THEN "fulfilled" ELSE worker[w].seen]
    /\ Goto(w, AfterShip)
    /\ UNCHANGED <<outside, jobs, invoices, mails, notices, skipped, faults>>

QueueEmail(w) ==
    /\ At(w, "notify")
    /\ queue' = queue \cup {Job(Of(w), "email", 0, 0)}
    /\ notices' = [notices EXCEPT ![Of(w)] = @ + 1]
    /\ Goto(w, "mark")
    /\ UNCHANGED <<outside, row, failed, order, invoices, mails, skipped, faults>>

\* The email service does not throw.
SendShippingEmail(w) ==
    /\ At(w, "send") /\ Done(w)
    /\ UNCHANGED <<outside, jobs, effects, faults>>

-----------------------------------------------------------------------------
Generate(w) == CheckInvoice(w) \/ IssueInvoice(w) \/ SendInvoiceEmail(w) \/ WriteAudit(w)
Sync(w)     == FindOrder(w) \/ GetOrder(w) \/ WriteStatus(w)
Fulfill(w)  == WriteShipment(w) \/ QueueEmail(w) \/ SendShippingEmail(w)
Work(w)     == (\E j \in queue : Take(w, j)) \/ Generate(w) \/ Sync(w) \/ Fulfill(w)
                   \/ MarkProcessed(w)

Next ==
    \/ \E e \in Events : Raise(e) \/ Ingest(e) \/ FailAdd(e)
    \/ \E w \in Workers : Work(w) \/ Fail(w) \/ Stall(w)
    \/ \E j \in queue : FailStalled(j)

Spec == Init /\ [][Next]_vars

\* A running worker takes jobs and goes on with them; the queue weeds out what
\* stalled too often.
FairSpec ==
    /\ Spec
    /\ \A w \in Workers : WF_vars(Work(w))
    /\ WF_vars(\E j \in queue : FailStalled(j))

-----------------------------------------------------------------------------
(* Properties.                                                             *)

\* Every variable keeps its type.
Labels  == {"idle", "check", "issue", "mail", "audit", "find", "fetch", "write", "ship",
            "notify", "send", "mark", "markIssued"}
JobType    == [event : Events, name : {"main", "email"}, tries : 0..(MaxAttempts - 1),
               stalls : 0..(MaxStalls + 1)]
WorkerType == [at : Labels, event : Events \cup {NoEvent}, name : {"main", "email", "none"},
               tries : 0..(MaxAttempts - 1), stalls : 0..MaxStalls, owner : BOOLEAN,
               seen : Statuses]
TypeOK ==
    /\ shopify \in Statuses
    /\ raised \subseteq Events /\ success \subseteq raised
    /\ row \in [Events -> {"absent", "pending", "processing", "processed", "dead_letter"}]
    /\ queue \subseteq JobType /\ failed \subseteq Events \X {"main", "email"}
    /\ worker \in [Workers -> WorkerType]
    /\ order \in [exists : BOOLEAN, status : Statuses]
    /\ invoices \in Nat /\ mails \in Nat /\ notices \in [Events -> Nat]
    /\ skipped \subseteq Events
    /\ faults \in 0..MaxFaults

\* The order is invoiced at most once and its invoice mailed at most once, over
\* duplicate deliveries, retries, stalled workers and two orders/create events.
InvoicedOnce == invoices <= 1 /\ mails <= invoices

\* An event marked as processed had its effect, unless it was found to need none:
\* the invoice exists, the shipping email was queued.
ProcessedIsDone ==
    \A e \in Events : (row[e] = "processed" /\ e \notin skipped) =>
        /\ Topic[e] = "orders/create" => invoices = 1
        /\ Topic[e] = "fulfillments/create" => notices[e] > 0

=============================================================================
