---------------------------- MODULE InvoiceLedger ----------------------------
(***************************************************************************)
(* From an issued invoice to collected money.  Four writers share the      *)
(* invoice rows of one merchant: the merchant (markAsPaid, voidInvoice,    *)
(* apps/api/src/invoices/invoices.service.ts), the hourly overdue sweep,   *)
(* the BNPL provider's webhook (bnpl/adapters/resolve.adapter.ts) and the  *)
(* orders/paid job (workers/invoice-mark-paid.worker.ts), which BullMQ     *)
(* runs again after a failure.  Whatever they collect must also reach the  *)
(* merchant's GMV (the running bucket of the merchants row and the monthly *)
(* ledger that overage billing reads) and free the buyer's credit.         *)
(*                                                                         *)
(* Database transactions are single steps; the paid job releases credit    *)
(* only after its transaction, in a read and a compare-and-set, and may    *)
(* crash between any two of its steps.  One merchant, one buyer.           *)
(***************************************************************************)
EXTENDS Integers, FiniteSets

CONSTANTS
    Invoices,       \* invoices, each of its own order
    Total,          \* Total[i]: invoice.total
    DueMonth,       \* DueMonth[i]: the month its due_date falls in
    Payments,       \* amounts the merchant may record by hand
    Events,         \* orders/paid webhook events, one job each
    OrderOf,        \* OrderOf[e]: the invoice of the order e is about
    MaxAttempts,    \* attempts of a job (queue.module.ts: 5)
    CasRetries,     \* CREDIT_CAS_RETRIES
    LastMonth,      \* the bound on the calendar
    Faults          \* subset of {"crash", "casExhausted"}

ASSUME TotalAssumption   == Total \in [Invoices -> Nat \ {0}]
ASSUME DueAssumption     == DueMonth \in [Invoices -> Nat]
ASSUME PaymentAssumption == Payments \subseteq Nat \ {0}
ASSUME EventAssumption   == OrderOf \in [Events -> Invoices]
ASSUME BoundAssumption   ==
    /\ MaxAttempts \in Nat \ {0} /\ CasRetries \in Nat \ {0} /\ LastMonth \in Nat
    /\ Faults \subseteq {"crash", "casExhausted"}

VARIABLES
    inv,        \* inv[i]: status and amount_paid
    rel,        \* credit_used and credit_version of the buyer's relationship
    ordered,    \* orders whose total was reserved
    utc,        \* the month by UTC (paid job)
    local,      \* the month by the API process's time zone (applyGmv)
    bucket,     \* merchants.gmv_month_key and gmv_current_month
    ledger,     \* merchant_monthly_gmv.gmv per month
    job,        \* job[e]: label, attempts, CAS turns, delta and row read
    stuck       \* history: credit of collected money that nobody will free

vars == <<inv, rel, ordered, utc, local, bucket, ledger, job, stuck>>
money == <<inv, rel, bucket, ledger>>

Months    == 0..LastMonth
Statuses  == {"none", "sent", "partially_paid", "overdue", "paid", "void", "defaulted"}
Labels    == {"none", "queued", "apply", "release", "cas", "audit", "ack",
              "processed", "dead"}
CreditRow == [used : Nat, version : Nat]
NoRow     == [used |-> 0, version |-> 0]
NoJob     == [label |-> "none", attempts |-> 0, turns |-> 0, delta |-> 0, row |-> NoRow]

Init ==
    /\ inv = [i \in Invoices |-> [status |-> "none", paid |-> 0]]
    /\ rel = NoRow
    /\ ordered = {}
    /\ utc = 0 /\ local = 0
    /\ bucket = [key |-> 0, gmv |-> 0]
    /\ ledger = [m \in Months |-> 0]
    /\ job = [e \in Events |-> NoJob]
    /\ stuck = 0

-----------------------------------------------------------------------------
(* Money.                                                                  *)

Less(a, b) == IF a >= b THEN a - b ELSE 0          \* GREATEST(a - b, 0)

Freed(row, amt) == [used |-> Less(row.used, amt), version |-> row.version + 1]

\* Mutant: the bucket is not reset when the month changes.
NeverRollsOver(month, delta) ==
    /\ bucket' = [key |-> month, gmv |-> bucket.gmv + delta]
    /\ ledger' = [ledger EXCEPT ![month] = @ + delta]

\* The bucket starts again at delta when the stored month differs; the ledger
\* row of the month is only ever added to.
Accrue(month, delta) ==
    /\ bucket' = [key |-> month,
                  gmv |-> (IF bucket.key = month THEN bucket.gmv ELSE 0) + delta]
    /\ ledger' = [ledger EXCEPT ![month] = @ + delta]

-----------------------------------------------------------------------------
(* Orders and invoices come into being.                                    *)

\* createBulkOrder charges the credit row (see OrderPlacement).
PlaceOrder(i) ==
    /\ i \notin ordered
    /\ ordered' = ordered \cup {i}
    /\ rel' = [used |-> rel.used + Total[i], version |-> rel.version + 1]
    /\ UNCHANGED <<inv, utc, local, bucket, ledger, job, stuck>>

\* The orders/create job issues the order's one invoice.
IssueInvoice(i) ==
    /\ i \in ordered /\ inv[i].status = "none"
    /\ inv' = [inv EXCEPT ![i] = [status |-> "sent", paid |-> 0]]
    /\ UNCHANGED <<rel, ordered, utc, local, bucket, ledger, job, stuck>>

-----------------------------------------------------------------------------
(* The merchant and the overdue sweep.                                     *)

\* Mutant: an overpayment is recorded in full.
Unclamped(i, payment) == inv[i].paid + payment

\* amount_paid after a payment, and what the payment adds to it.
NewPaid(i, payment) ==
    IF inv[i].paid + payment >= Total[i] THEN Total[i] ELSE inv[i].paid + payment

\* Mutant: the operands of the subtraction are swapped.
SwappedDelta(i, payment) == inv[i].paid - NewPaid(i, payment)

PaidDelta(i, payment) == NewPaid(i, payment) - inv[i].paid

\* markAsPaid: one transaction under the invoice's row lock.  Its credit
\* decrement gives up after CasRetries misses, with a warning and nothing else.
MarkAsPaid(i, payment) ==
    LET newPaid == NewPaid(i, payment)
        delta   == PaidDelta(i, payment)
    IN  /\ inv[i].status \notin {"none", "paid", "void"}
        /\ inv' = [inv EXCEPT ![i] =
              [status |-> IF newPaid = Total[i] THEN "paid" ELSE "partially_paid",
               paid   |-> newPaid]]
        /\ IF delta = 0
           THEN UNCHANGED <<rel, bucket, ledger, stuck>>
           ELSE /\ Accrue(local, delta)
                /\ \/ /\ rel' = Freed(rel, delta)
                      /\ UNCHANGED stuck
                   \/ /\ "casExhausted" \in Faults
                      /\ stuck' = stuck + delta
                      /\ UNCHANGED rel
        /\ UNCHANGED <<ordered, utc, local, job>>

\* Mutant: a paid invoice can be voided.
VoidPaidToo(i) ==
    /\ inv[i].status \notin {"none", "void"}
    /\ inv' = [inv EXCEPT ![i].status = "void"]
    /\ UNCHANGED <<rel, ordered, utc, local, bucket, ledger, job, stuck>>

\* voidInvoice: also under the row lock; the buyer's credit is not given back.
VoidInvoice(i) ==
    /\ inv[i].status \notin {"none", "paid", "void"}
    /\ inv' = [inv EXCEPT ![i].status = "void"]
    /\ UNCHANGED <<rel, ordered, utc, local, bucket, ledger, job, stuck>>

PastDue(i) == utc > DueMonth[i]          \* due_date < NOW()

\* Mutant: the sweep forgets partially paid invoices.
OverdueIfSent(i) == PastDue(i) /\ inv[i].status = "sent"

Overdue(i) == PastDue(i) /\ inv[i].status \in {"sent", "partially_paid"}

\* runOverdueDetection: one UPDATE over every matching row ("viewed", which
\* no code ever writes, counts as "sent").
RunOverdueDetection ==
    /\ \E i \in Invoices : Overdue(i)
    /\ inv' = [i \in Invoices |->
                  IF Overdue(i) THEN [inv[i] EXCEPT !.status = "overdue"] ELSE inv[i]]
    /\ UNCHANGED <<rel, ordered, utc, local, bucket, ledger, job, stuck>>

-----------------------------------------------------------------------------
(* The BNPL webhook.                                                       *)

\* onPaymentConfirmed goes through markAsPaid with the whole total.
BnplConfirmed(i) == MarkAsPaid(i, Total[i])

\* onPaymentDefaulted overwrites the status whatever it is, without the lock.
BnplDefaulted(i) ==
    /\ inv[i].status # "none"
    /\ inv' = [inv EXCEPT ![i].status = "defaulted"]
    /\ UNCHANGED <<rel, ordered, utc, local, bucket, ledger, job, stuck>>

-----------------------------------------------------------------------------
(* The orders/paid job.                                                    *)

Goto(e, label) == job' = [job EXCEPT ![e].label = label]

\* Shopify reports the order paid; the webhook is recorded and queued.
DeliverPaid(e) ==
    /\ job[e].label = "none" /\ OrderOf[e] \in ordered
    /\ Goto(e, "queued")
    /\ UNCHANGED <<money, ordered, utc, local, stuck>>

\* Nothing to do when the order has no invoice yet: the event is acknowledged.
StartJob(e) ==
    /\ job[e].label = "queued"
    /\ job' = [job EXCEPT
          ![e].attempts = @ + 1,
          ![e].label = IF inv[OrderOf[e]].status = "none" THEN "ack" ELSE "apply"]
    /\ UNCHANGED <<money, ordered, utc, local, stuck>>

\* Mutant: the event counts the full total, partial payments included.
FullTotal(i) == Total[i]

CollectedDelta(i) == Less(Total[i], inv[i].paid)

\* The SERIALIZABLE transaction under the invoice's row lock: the only status
\* that stops it is paid.
ApplyPaid(e) ==
    LET i == OrderOf[e]
    IN  /\ job[e].label = "apply"
        /\ IF inv[i].status = "paid"
           THEN /\ Goto(e, "ack")
                /\ UNCHANGED <<inv, bucket, ledger>>
           ELSE /\ inv' = [inv EXCEPT ![i] = [status |-> "paid", paid |-> Total[i]]]
                /\ Accrue(utc, CollectedDelta(i))
                /\ job' = [job EXCEPT ![e] = [job[e] EXCEPT !.label = "release",
                                                            !.delta = CollectedDelta(i)]]
        /\ UNCHANGED <<rel, ordered, utc, local, stuck>>

\* releaseCredit, first half: read the row.
ReadCredit(e) ==
    /\ job[e].label = "release"
    /\ job' = [job EXCEPT ![e].label = "cas", ![e].row = rel]
    /\ UNCHANGED <<money, ordered, utc, local, stuck>>

\* releaseCredit is over: nothing of it stays in memory.
EndRelease(e) ==
    job' = [job EXCEPT ![e] = [NoJob EXCEPT !.label = "audit",
                                            !.attempts = job[e].attempts]]

TurnLoop(e) ==
    job' = [job EXCEPT ![e] = [job[e] EXCEPT !.label = "release",
                                             !.turns = job[e].turns + 1, !.row = NoRow]]

\* Mutant: the write does not look at the version.
BlindWrite(e) ==
    /\ job[e].label = "cas"
    /\ rel' = Freed(job[e].row, job[e].delta)
    /\ EndRelease(e)
    /\ UNCHANGED <<inv, bucket, ledger, ordered, utc, local, stuck>>

\* Second half: write the value computed from it if the version still stands;
\* after CasRetries misses it gives up with a warning.
WriteCredit(e) ==
    /\ job[e].label = "cas"
    /\ IF rel.version = job[e].row.version
       THEN /\ rel' = Freed(job[e].row, job[e].delta)
            /\ EndRelease(e)
            /\ UNCHANGED stuck
       ELSE IF job[e].turns + 1 < CasRetries
       THEN TurnLoop(e) /\ UNCHANGED <<rel, stuck>>
       ELSE /\ EndRelease(e)
            /\ stuck' = stuck + job[e].delta
            /\ UNCHANGED rel
    /\ UNCHANGED <<inv, bucket, ledger, ordered, utc, local>>

WriteAudit(e) ==
    /\ job[e].label = "audit"
    /\ Goto(e, "ack")
    /\ UNCHANGED <<money, ordered, utc, local, stuck>>

MarkProcessed(e) ==
    /\ job[e].label = "ack"
    /\ Goto(e, "processed")
    /\ UNCHANGED <<money, ordered, utc, local, stuck>>

\* Mutant: an event whose attempt failed is acknowledged all the same.
AckOnFailure(e) ==
    /\ "crash" \in Faults
    /\ job[e].label \in {"apply", "release", "cas", "audit", "ack"}
    /\ stuck' = stuck + job[e].delta
    /\ job' = [job EXCEPT ![e] = [NoJob EXCEPT !.label = "processed"]]
    /\ UNCHANGED <<money, ordered, utc, local>>

\* The attempt dies (a crash, or an error thrown by any of its steps): the job
\* runs again from the start until its attempts are used up, and what the
\* attempt held in memory is gone.
FailAttempt(e) ==
    /\ "crash" \in Faults
    /\ job[e].label \in {"apply", "release", "cas", "audit", "ack"}
    /\ stuck' = stuck + job[e].delta
    /\ job' = [job EXCEPT ![e] =
          [NoJob EXCEPT !.attempts = job[e].attempts,
                        !.label = IF job[e].attempts < MaxAttempts THEN "queued" ELSE "dead"]]
    /\ UNCHANGED <<money, ordered, utc, local>>

-----------------------------------------------------------------------------
\* The two clocks pass the month boundary one after the other.
MonthTurns ==
    \/ /\ utc < LastMonth /\ utc <= local
       /\ utc' = utc + 1 /\ UNCHANGED local
    \/ /\ local < LastMonth /\ local <= utc
       /\ local' = local + 1 /\ UNCHANGED utc

Tick == MonthTurns /\ UNCHANGED <<money, ordered, job, stuck>>

Run(e) == StartJob(e) \/ ApplyPaid(e) \/ ReadCredit(e) \/ WriteCredit(e)
              \/ WriteAudit(e) \/ MarkProcessed(e)

Next ==
    \/ \E i \in Invoices :
          \/ PlaceOrder(i) \/ IssueInvoice(i) \/ VoidInvoice(i)
          \/ BnplConfirmed(i) \/ BnplDefaulted(i)
          \/ \E p \in Payments : MarkAsPaid(i, p)
    \/ \E e \in Events : DeliverPaid(e) \/ Run(e) \/ FailAttempt(e)
    \/ RunOverdueDetection
    \/ Tick

Spec == Init /\ [][Next]_vars

\* BullMQ keeps handing a queued job to a worker; the sweep runs every hour.
FairSpec ==
    /\ Spec
    /\ \A e \in Events : WF_vars(Run(e))
    /\ WF_vars(RunOverdueDetection)

-----------------------------------------------------------------------------
(* Properties.                                                             *)

\* Every variable keeps its type.
TypeOK ==
    /\ inv \in [Invoices -> [status : Statuses, paid : Nat]]
    /\ rel \in CreditRow
    /\ ordered \subseteq Invoices
    /\ utc \in Months /\ local \in Months
    /\ bucket \in [key : Months, gmv : Nat]
    /\ ledger \in [Months -> Nat]
    /\ job \in [Events -> [label : Labels, attempts : Nat, turns : Nat,
                           delta : Nat, row : CreditRow]]
    /\ stuck \in Nat

\* Money collected by any writer, at any attempt, enters the monthly ledger
\* exactly once (invoice-mark-paid.worker.ts:143: "total accrual across paths
\* equals the invoice total exactly once"): a step that changes an amount paid
\* or the ledger raises one invoice's amount, and one month by the same amount.
AccrualMatchesCollection ==
    [][(ledger' # ledger \/ \E i \in Invoices : inv'[i].paid # inv[i].paid)
        => \E i \in Invoices, m \in Months :
              /\ inv'[i].paid > inv[i].paid
              /\ ledger' = [ledger EXCEPT ![m] = @ + inv'[i].paid - inv[i].paid]
              /\ \A k \in Invoices \ {i} : inv'[k].paid = inv[k].paid]_vars

\* Partial payments, overpayments, the sweep, defaults and duplicate webhooks
\* never collect more than the total, and the status agrees with the amount.
CollectedWithinTotal ==
    \A i \in Invoices :
        /\ inv[i].paid <= Total[i]
        /\ inv[i].status = "paid" => inv[i].paid = Total[i]
        /\ inv[i].status \in {"none", "sent"} => inv[i].paid = 0
        /\ inv[i].status = "partially_paid" => inv[i].paid \in 1..(Total[i] - 1)

\* The units of money of f, and how many they are: the sum of its amounts.
Units(f) == UNION {{x} \X (1..f[x]) : x \in DOMAIN f}
SumOf(f) == Cardinality(Units(f))

Owed    == [i \in ordered |-> Total[i] - inv[i].paid]
Pending == [e \in Events |-> job[e].delta]

\* The buyer owes exactly what was ordered and is not collected; credit that
\* was collected but not freed yet is in the hands of a paid job, or stuck.
CreditConserved == rel.used = SumOf(Owed) + SumOf(Pending) + stuck

\* The running bucket never shows money the month's ledger row lacks, even
\* when the two clocks disagree about the month and the bucket starts over.
BucketWithinLedger == bucket.gmv <= ledger[bucket.key]

\* No step takes collected money back, and only a BNPL default moves an
\* invoice out of paid.
CollectionIsFinal ==
    [][\A i \in Invoices :
          /\ inv'[i].paid >= inv[i].paid
          /\ inv[i].status = "paid" => inv'[i].status \in {"paid", "defaulted"}]_vars

\* An orders/paid event for an issued invoice is collected, or its job is dead
\* after MaxAttempts: crashes and lost CAS races do not strand it.
PaidOrderCollected ==
    \A e \in Events :
        (job[e].label = "queued" /\ inv[OrderOf[e]].status # "none")
            ~> (inv[OrderOf[e]].paid = Total[OrderOf[e]] \/ job[e].label = "dead")

\* An unpaid invoice past its due date is flagged, again after every partial
\* payment that put it back to partially_paid.
PastDueIsNoticed ==
    \A i \in Invoices :
        (PastDue(i) /\ inv[i].status \in {"sent", "partially_paid"})
            ~> inv[i].status \notin {"sent", "partially_paid"}

\* "BullMQ jobs are idempotent by design ...; replaying is safe"
\* (docs/runbooks/disaster-recovery.md:43): once every delivered event has been
\* processed, no collected money still occupies the buyer's credit.
ReplayFreesCredit ==
    (\A e \in Events : job[e].label \in {"none", "processed"}) => stuck = 0
=============================================================================
