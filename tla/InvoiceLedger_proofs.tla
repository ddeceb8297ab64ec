------------------------ MODULE InvoiceLedger_proofs ------------------------
(* Proofs about InvoiceLedger, for any invoices, amounts, events and         *)
(* calendar: what is collected is bounded, final, and accrued step by step,  *)
(* and the credit in use is what is owed, pending in a job, or stuck.        *)
EXTENDS InvoiceLedger, FiniteSetTheorems, TLAPS

USE TotalAssumption, PaymentAssumption, EventAssumption, BoundAssumption

\* What one writer of an invoice may do to it and to the money beside it:
\* raise one amount by d, reach the status st, and accrue d in month m.
Collect(i, st, m, d) ==
    /\ inv' = [inv EXCEPT ![i] = [status |-> st, paid |-> inv[i].paid + d]]
    /\ inv[i].paid + d <= Total[i]
    /\ st \in {"paid", "partially_paid"}
    /\ st = "paid" <=> inv[i].paid + d = Total[i]
    /\ inv[i].paid + d > 0
    /\ inv[i].status # "paid"
    /\ \/ Accrue(m, d)
       \/ d = 0 /\ UNCHANGED <<bucket, ledger>>

\* What every other step may do: statuses move, no amount does.
Relabel ==
    /\ inv' \in [Invoices -> [status : Statuses, paid : Nat]]
    /\ \A i \in Invoices :
          /\ inv'[i].paid = inv[i].paid
          /\ \/ inv'[i].status \in {inv[i].status, "void", "overdue", "defaulted"}
             \/ inv[i].status = "none" /\ inv'[i].status = "sent"
          /\ inv[i].status = "paid" => inv'[i].status \in {"paid", "defaulted"}
    /\ UNCHANGED <<bucket, ledger>>

Money == TypeOK /\ CollectedWithinTotal /\ BucketWithinLedger

\* The invoice part of the type invariant.
LEMMA InvoiceTyped ==
    ASSUME TypeOK, NEW i \in Invoices
    PROVE  /\ inv[i].paid \in Nat /\ inv[i].status \in Statuses
           /\ inv[i] = [status |-> inv[i].status, paid |-> inv[i].paid]
           /\ Total[i] \in Nat /\ Total[i] > 0
  BY DEF TypeOK

\* Giving credit back keeps the row typed.
LEMMA FreedTyped ==
    ASSUME NEW row \in CreditRow, NEW amt \in Nat
    PROVE  Freed(row, amt) \in CreditRow
  <1>1. row.used \in Nat /\ row.version \in Nat
    BY DEF CreditRow
  <1>2. Less(row.used, amt) \in Nat /\ row.version + 1 \in Nat
    BY <1>1 DEF Less
  <1> QED
    BY <1>2 DEF Freed, CreditRow

\* markAsPaid is a collection.
LEMMA MarkAsPaidCollects ==
    ASSUME Money, NEW i \in Invoices, NEW p \in Nat \ {0}, MarkAsPaid(i, p)
    PROVE  /\ \E st \in Statuses, d \in Nat : Collect(i, st, local, d)
           /\ rel' \in CreditRow /\ stuck' \in Nat
  <1> DEFINE newPaid == NewPaid(i, p)
             d == PaidDelta(i, p)
             st == IF newPaid = Total[i] THEN "paid" ELSE "partially_paid"
  <1>1. /\ inv[i].paid \in Nat /\ Total[i] \in Nat /\ Total[i] > 0
        /\ inv[i].paid <= Total[i] /\ p > 0
    <2>1. TypeOK /\ inv[i].paid <= Total[i]
      BY DEF Money, CollectedWithinTotal
    <2>2. p > 0
      OBVIOUS
    <2> QED
      BY <2>1, <2>2, InvoiceTyped
  <1>2. /\ d \in Nat /\ newPaid = inv[i].paid + d /\ newPaid \in Nat
        /\ newPaid <= Total[i] /\ newPaid > 0
    BY <1>1 DEF NewPaid, PaidDelta
  <1>3. /\ inv' = [inv EXCEPT ![i] = [status |-> st, paid |-> newPaid]]
        /\ inv[i].status # "paid"
        /\ \/ d = 0 /\ UNCHANGED <<rel, bucket, ledger, stuck>>
           \/ /\ Accrue(local, d)
              /\ \/ rel' = Freed(rel, d) /\ UNCHANGED stuck
                 \/ stuck' = stuck + d /\ UNCHANGED rel
    BY DEF MarkAsPaid
  <1>4. st \in Statuses /\ st \in {"paid", "partially_paid"} /\ (st = "paid" <=> newPaid = Total[i])
    BY DEF Statuses
  <1> HIDE DEF newPaid, d, st
  <1>5. Collect(i, st, local, d)
    BY <1>2, <1>3, <1>4 DEF Collect
  <1>6. rel' \in CreditRow /\ stuck' \in Nat
    BY <1>2, <1>3, FreedTyped DEF Money, TypeOK
  <1> QED
    BY <1>2, <1>4, <1>5, <1>6

\* The paid job's transaction is a collection, or finds the invoice paid.
LEMMA ApplyPaidCollects ==
    ASSUME Money, NEW e \in Events, ApplyPaid(e)
    PROVE  \/ UNCHANGED <<inv, bucket, ledger>>
           \/ \E i \in Invoices, st \in Statuses, d \in Nat : Collect(i, st, utc, d)
  <1> DEFINE i == OrderOf[e]
             d == CollectedDelta(i)
  <1>1. i \in Invoices
    OBVIOUS
  <1>2. /\ inv[i].paid \in Nat /\ Total[i] \in Nat /\ Total[i] > 0
        /\ inv[i].paid <= Total[i]
    <2>1. TypeOK /\ inv[i].paid <= Total[i]
      BY <1>1 DEF Money, CollectedWithinTotal
    <2> QED
      BY <2>1, <1>1, InvoiceTyped
  <1>3. d \in Nat /\ inv[i].paid + d = Total[i]
    BY <1>2 DEF Less, CollectedDelta
  <1>4. \/ UNCHANGED <<inv, bucket, ledger>>
        \/ /\ inv' = [inv EXCEPT ![i] = [status |-> "paid", paid |-> Total[i]]]
           /\ Accrue(utc, d)
           /\ inv[i].status # "paid"
    BY DEF ApplyPaid
  <1> HIDE DEF i, d
  <1>5. CASE inv' = [inv EXCEPT ![i] = [status |-> "paid", paid |-> Total[i]]]
               /\ Accrue(utc, d) /\ inv[i].status # "paid"
    <2>1. Collect(i, "paid", utc, d)
      <3>1. inv' = [inv EXCEPT ![i] = [status |-> "paid", paid |-> inv[i].paid + d]]
        BY <1>3, <1>5, Zenon
      <3>2. inv[i].paid + d <= Total[i] /\ inv[i].paid + d > 0
        BY <1>2, <1>3
      <3> QED
        BY <1>3, <1>5, <3>1, <3>2 DEF Collect
    <2> QED
      BY <2>1, <1>1, <1>3 DEF Statuses
  <1> QED
    BY <1>4, <1>5

AccrualStep ==
    (ledger' # ledger \/ \E i \in Invoices : inv'[i].paid # inv[i].paid)
        => \E i \in Invoices, m \in Months :
              /\ inv'[i].paid > inv[i].paid
              /\ ledger' = [ledger EXCEPT ![m] = @ + inv'[i].paid - inv[i].paid]
              /\ \A k \in Invoices \ {i} : inv'[k].paid = inv[k].paid

FinalStep ==
    \A i \in Invoices :
        /\ inv'[i].paid >= inv[i].paid
        /\ inv[i].status = "paid" => inv'[i].status \in {"paid", "defaulted"}

MoneyTyped ==
    /\ inv' \in [Invoices -> [status : Statuses, paid : Nat]]
    /\ bucket' \in [key : Months, gmv : Nat]
    /\ ledger' \in [Months -> Nat]

Sound == /\ MoneyTyped /\ CollectedWithinTotal' /\ BucketWithinLedger'
         /\ AccrualStep /\ FinalStep

\* A collection keeps every invariant and accrues what it collects.
LEMMA CollectIsSound ==
    ASSUME Money, NEW i \in Invoices, NEW st \in Statuses, NEW m \in Months,
           NEW d \in Nat, Collect(i, st, m, d)
    PROVE  Sound
  <1>1. inv \in [Invoices -> [status : Statuses, paid : Nat]] /\ inv[i].paid \in Nat
    BY DEF Money, TypeOK
  <1>2. inv' = [inv EXCEPT ![i] = [status |-> st, paid |-> inv[i].paid + d]]
    BY DEF Collect
  <1>3. /\ inv'[i].paid = inv[i].paid + d /\ inv'[i].status = st
        /\ \A k \in Invoices \ {i} : inv'[k] = inv[k]
    BY <1>1, <1>2
  <1>4. /\ bucket \in [key : Months, gmv : Nat] /\ ledger \in [Months -> Nat]
        /\ bucket.gmv <= ledger[bucket.key]
    BY DEF Money, TypeOK, BucketWithinLedger
  <1>5. MoneyTyped
    <2>1. inv' \in [Invoices -> [status : Statuses, paid : Nat]]
      BY <1>1, <1>2
    <2>2. bucket' \in [key : Months, gmv : Nat] /\ ledger' \in [Months -> Nat]
      BY <1>4 DEF Collect, Accrue
    <2> QED
      BY <2>1, <2>2 DEF MoneyTyped
  <1>6. CollectedWithinTotal'
    <2>1. Total[i] \in Nat /\ CollectedWithinTotal
      BY DEF Money
    <2>2. /\ inv'[i].paid <= Total[i] /\ inv'[i].paid \in Nat /\ inv'[i].paid > 0
          /\ inv'[i].status \in {"paid", "partially_paid"}
          /\ inv'[i].status = "paid" <=> inv'[i].paid = Total[i]
      BY <1>1, <1>3 DEF Collect
    <2> SUFFICES ASSUME NEW k \in Invoices
                 PROVE /\ inv'[k].paid <= Total[k]
                       /\ inv'[k].status = "paid" => inv'[k].paid = Total[k]
                       /\ inv'[k].status \in {"none", "sent"} => inv'[k].paid = 0
                       /\ inv'[k].status = "partially_paid" => inv'[k].paid \in 1..(Total[k] - 1)
      BY DEF CollectedWithinTotal
    <2>3. CASE k = i
      BY <2>1, <2>2, <2>3
    <2>4. CASE k # i
      BY <2>1, <1>3, <2>4 DEF CollectedWithinTotal
    <2> QED
      BY <2>3, <2>4
  <1>7. BucketWithinLedger'
    BY <1>4 DEF Collect, Accrue, BucketWithinLedger
  <1>8. AccrualStep
    <2>1. CASE d = 0
      <3>1. \A k \in Invoices : inv'[k].paid = inv[k].paid
        BY <1>1, <1>3, <2>1
      <3>2. ledger' = ledger
        BY <2>1, <1>4 DEF Collect, Accrue
      <3> QED
        BY <3>1, <3>2 DEF AccrualStep
    <2>2. CASE d # 0
      <3>1. inv'[i].paid > inv[i].paid /\ inv'[i].paid - inv[i].paid = d
        BY <1>1, <1>3, <2>2
      <3>2. ledger' = [ledger EXCEPT ![m] = ledger[m] + d]
        BY <2>2 DEF Collect, Accrue
      <3>3. ledger[m] + inv'[i].paid - inv[i].paid = ledger[m] + d
        BY <3>1, <1>1, <1>3, <1>4
      <3>4. ledger' = [ledger EXCEPT ![m] = @ + inv'[i].paid - inv[i].paid]
        BY <3>2, <3>3
      <3> QED
        BY <3>1, <3>4, <1>3 DEF AccrualStep
    <2> QED
      BY <2>1, <2>2
  <1>9. FinalStep
    BY <1>1, <1>3 DEF FinalStep, Collect, Money, TypeOK
  <1> QED
    BY <1>5, <1>6, <1>7, <1>8, <1>9 DEF Sound

\* So does a step that only moves statuses.
LEMMA RelabelIsSound ==
    ASSUME Money, Relabel
    PROVE  Sound
  <1>1. /\ inv \in [Invoices -> [status : Statuses, paid : Nat]]
        /\ bucket \in [key : Months, gmv : Nat] /\ ledger \in [Months -> Nat]
        /\ CollectedWithinTotal /\ BucketWithinLedger
    BY DEF Money, TypeOK
  <1>2. MoneyTyped
    BY <1>1 DEF MoneyTyped, Relabel
  <1>3. CollectedWithinTotal'
    BY <1>1 DEF CollectedWithinTotal, Relabel
  <1>4. BucketWithinLedger'
    BY <1>1 DEF BucketWithinLedger, Relabel
  <1>5. AccrualStep
    BY DEF AccrualStep, Relabel
  <1>6. FinalStep
    BY <1>1 DEF FinalStep, Relabel
  <1> QED
    BY <1>2, <1>3, <1>4, <1>5, <1>6 DEF Sound

RestTyped ==
    /\ rel' \in CreditRow /\ stuck' \in Nat
    /\ ordered' \subseteq Invoices
    /\ utc' \in Months /\ local' \in Months
    /\ job' \in [Events -> [label : Labels, attempts : Nat, turns : Nat,
                            delta : Nat, row : CreditRow]]

Still == UNCHANGED <<inv, bucket, ledger>>

\* A step that leaves invoices and GMV alone is sound.
LEMMA StillIsSound == ASSUME Money, Still PROVE Sound
  <1>1. /\ inv \in [Invoices -> [status : Statuses, paid : Nat]]
        /\ bucket \in [key : Months, gmv : Nat] /\ ledger \in [Months -> Nat]
        /\ CollectedWithinTotal /\ BucketWithinLedger
    BY DEF Money, TypeOK
  <1>2. MoneyTyped /\ CollectedWithinTotal' /\ BucketWithinLedger'
    BY <1>1 DEF MoneyTyped, CollectedWithinTotal, BucketWithinLedger, Still
  <1>3. AccrualStep /\ FinalStep
    BY <1>1 DEF AccrualStep, FinalStep, Still
  <1> QED
    BY <1>2, <1>3 DEF Sound

\* The actions of the merchant, the sweep and the BNPL provider.
LEMMA InvoiceStep ==
    ASSUME Money, NEW i \in Invoices,
           \/ PlaceOrder(i) \/ IssueInvoice(i) \/ VoidInvoice(i)
           \/ BnplConfirmed(i) \/ BnplDefaulted(i)
           \/ \E p \in Payments : MarkAsPaid(i, p)
    PROVE  Sound /\ RestTyped
  <1>1. TypeOK /\ Total[i] \in Nat \ {0} /\ local \in Months
    BY DEF Money, TypeOK
  <1>2. CASE PlaceOrder(i)
    <2>1. Still
      BY <1>2 DEF PlaceOrder, Still
    <2>2. rel.used \in Nat /\ rel.version \in Nat
      BY <1>1 DEF TypeOK, CreditRow
    <2>3. rel.used + Total[i] \in Nat /\ rel.version + 1 \in Nat
      BY <1>1, <2>2
    <2>4. rel' \in CreditRow
      BY <1>2, <2>3 DEF PlaceOrder, CreditRow
    <2>5. RestTyped
      BY <1>1, <1>2, <2>4 DEF PlaceOrder, RestTyped, TypeOK
    <2> QED
      BY <2>1, <2>5, StillIsSound
  <1>3. CASE IssueInvoice(i)
    <2>1. Relabel
      BY <1>1, <1>3, InvoiceTyped DEF IssueInvoice, Relabel, TypeOK, Money,
         CollectedWithinTotal, Statuses
    <2>2. RestTyped
      BY <1>1, <1>3 DEF IssueInvoice, RestTyped, TypeOK
    <2> QED
      BY <2>1, <2>2, RelabelIsSound
  <1>4. CASE VoidInvoice(i)
    <2>1. Relabel
      BY <1>1, <1>4 DEF VoidInvoice, Relabel, TypeOK, Statuses
    <2>2. RestTyped
      BY <1>1, <1>4 DEF VoidInvoice, RestTyped, TypeOK
    <2> QED
      BY <2>1, <2>2, RelabelIsSound
  <1>5. CASE BnplDefaulted(i)
    <2>1. Relabel
      BY <1>1, <1>5 DEF BnplDefaulted, Relabel, TypeOK, Statuses
    <2>2. RestTyped
      BY <1>1, <1>5 DEF BnplDefaulted, RestTyped, TypeOK
    <2> QED
      BY <2>1, <2>2, RelabelIsSound
  <1>6. ASSUME NEW p \in Nat \ {0}, MarkAsPaid(i, p) PROVE Sound /\ RestTyped
    <2>1. /\ \E st \in Statuses, d \in Nat : Collect(i, st, local, d)
          /\ rel' \in CreditRow /\ stuck' \in Nat
      BY <1>6, MarkAsPaidCollects
    <2>2. Sound
      BY <1>1, <2>1, CollectIsSound
    <2>3. UNCHANGED <<ordered, utc, local, job>>
      BY <1>6 DEF MarkAsPaid
    <2> QED
      BY <1>1, <2>1, <2>2, <2>3 DEF RestTyped, TypeOK
  <1> QED
    BY <1>1, <1>2, <1>3, <1>4, <1>5, <1>6 DEF BnplConfirmed

\* The overdue sweep relabels.
LEMMA SweepStep ==
    ASSUME Money, RunOverdueDetection
    PROVE  Sound /\ RestTyped
  <1>1. TypeOK
    BY DEF Money
  <1>2. inv' = [i \in Invoices |->
                   IF Overdue(i) THEN [inv[i] EXCEPT !.status = "overdue"] ELSE inv[i]]
    BY DEF RunOverdueDetection
  <1>3. \A i \in Invoices : inv[i] \in [status : Statuses, paid : Nat]
    BY <1>1 DEF TypeOK
  <1>4. \A i \in Invoices :
            /\ inv'[i] \in [status : Statuses, paid : Nat]
            /\ inv'[i].paid = inv[i].paid
            /\ inv'[i].status \in {inv[i].status, "overdue"}
            /\ inv[i].status = "paid" => inv'[i] = inv[i]
    BY <1>2, <1>3 DEF Overdue, Statuses
  <1>5. inv' \in [Invoices -> [status : Statuses, paid : Nat]]
    BY <1>2, <1>4
  <1>6. Relabel
    BY <1>4, <1>5 DEF Relabel, RunOverdueDetection
  <1>7. RestTyped
    BY <1>1 DEF RunOverdueDetection, RestTyped, TypeOK
  <1> QED
    BY <1>6, <1>7, RelabelIsSound

\* The steps of one orders/paid job.
LEMMA JobStep ==
    ASSUME Money, NEW e \in Events, DeliverPaid(e) \/ Run(e) \/ FailAttempt(e)
    PROVE  Sound /\ RestTyped
  <1> DEFINE Job == [label : Labels, attempts : Nat, turns : Nat,
                     delta : Nat, row : CreditRow]
  <1>1. /\ TypeOK /\ NoRow \in CreditRow /\ job[e] \in Job
        /\ job \in [Events -> Job]
    BY DEF Money, TypeOK, NoRow, CreditRow
  <1>2. \A j \in Job : [job EXCEPT ![e] = j] \in [Events -> Job]
    BY <1>1
  <1>3. \A l \in Labels : [job[e] EXCEPT !.label = l] \in Job
    BY <1>1
  <1>4. \A l \in Labels : Goto(e, l) => job' \in [Events -> Job]
    BY <1>1, <1>2, <1>3 DEF Goto
  <1>5. CASE DeliverPaid(e)
    <2>1. Still /\ UNCHANGED <<rel, ordered, utc, local, stuck>> /\ job' \in [Events -> Job]
      BY <1>4, <1>5 DEF DeliverPaid, Still, money, Labels
    <2> QED
      BY <1>1, <2>1, StillIsSound DEF RestTyped, TypeOK
  <1>6. CASE StartJob(e)
    <2> DEFINE l == IF inv[OrderOf[e]].status = "none" THEN "ack" ELSE "apply"
    <2>1. l \in Labels /\ job[e].attempts + 1 \in Nat
      BY <1>1 DEF Labels
    <2>2. job' = [job EXCEPT ![e] = [job[e] EXCEPT !.attempts = job[e].attempts + 1, !.label = l]]
      BY <1>1, <1>6 DEF StartJob
    <2>3. [job[e] EXCEPT !.attempts = job[e].attempts + 1, !.label = l] \in Job
      BY <1>1, <2>1
    <2>4. job' \in [Events -> Job]
      BY <1>2, <2>2, <2>3
    <2>5. Still /\ UNCHANGED <<rel, ordered, utc, local, stuck>>
      BY <1>6 DEF StartJob, Still, money
    <2> QED
      BY <1>1, <2>4, <2>5, StillIsSound DEF RestTyped, TypeOK
  <1>7. CASE ApplyPaid(e)
    <2>1. Sound
      <3>1. utc \in Months
        BY <1>1 DEF TypeOK
      <3>2. \/ Still
            \/ \E i \in Invoices, st \in Statuses, d \in Nat : Collect(i, st, utc, d)
        BY <1>7, ApplyPaidCollects DEF Still
      <3> QED
        BY <3>1, <3>2, StillIsSound, CollectIsSound
    <2>2. job' \in [Events -> Job]
      <3>1. CASE Goto(e, "ack")
        BY <1>4, <3>1 DEF Labels
      <3>2. CASE job' = [job EXCEPT ![e] = [job[e] EXCEPT
                            !.label = "release", !.delta = CollectedDelta(OrderOf[e])]]
        <4> DEFINE d == CollectedDelta(OrderOf[e])
        <4>1. Total[OrderOf[e]] \in Nat /\ inv[OrderOf[e]].paid \in Nat
          BY <1>1 DEF TypeOK
        <4>2. d \in Nat
          BY <4>1 DEF Less, CollectedDelta
        <4>3. job' = [job EXCEPT ![e] = [job[e] EXCEPT !.label = "release", !.delta = d]]
          BY <1>1, <3>2
        <4> HIDE DEF d
        <4>4. [job[e] EXCEPT !.label = "release", !.delta = d] \in Job
          BY <1>1, <4>2 DEF Labels
        <4> QED
          BY <1>2, <4>3, <4>4
      <3> QED
        BY <1>7, <3>1, <3>2 DEF ApplyPaid
    <2> QED
      BY <1>1, <1>7, <2>1, <2>2 DEF ApplyPaid, RestTyped, TypeOK
  <1>8. CASE ReadCredit(e)
    <2>1. job' = [job EXCEPT ![e] = [job[e] EXCEPT !.label = "cas", !.row = rel]]
      BY <1>1, <1>8 DEF ReadCredit
    <2>2. [job[e] EXCEPT !.label = "cas", !.row = rel] \in Job
      BY <1>1 DEF TypeOK, Labels
    <2>3. job' \in [Events -> Job]
      BY <1>2, <2>1, <2>2
    <2>4. Still /\ UNCHANGED <<rel, ordered, utc, local, stuck>>
      BY <1>8 DEF ReadCredit, Still, money
    <2> QED
      BY <1>1, <2>3, <2>4, StillIsSound DEF RestTyped, TypeOK
  <1>9. CASE WriteCredit(e)
    <2>1. Still /\ UNCHANGED <<ordered, utc, local>>
      BY <1>9 DEF WriteCredit, Still
    <2>2. job[e].row \in CreditRow /\ job[e].delta \in Nat /\ job[e].turns + 1 \in Nat
      BY <1>1
    <2>3. /\ rel' \in {rel, Freed(job[e].row, job[e].delta)}
          /\ stuck' \in {stuck, stuck + job[e].delta}
      BY <1>9 DEF WriteCredit
    <2>4. rel' \in CreditRow /\ stuck' \in Nat
      <3>1. Freed(job[e].row, job[e].delta) \in CreditRow /\ rel \in CreditRow
        BY <1>1, <2>2, FreedTyped DEF TypeOK
      <3>2. stuck \in Nat /\ stuck + job[e].delta \in Nat
        BY <1>1, <2>2 DEF TypeOK
      <3> QED
        BY <2>3, <3>1, <3>2
    <2>5. EndRelease(e) \/ TurnLoop(e)
      BY <1>9 DEF WriteCredit
    <2>6. /\ [NoJob EXCEPT !.label = "audit", !.attempts = job[e].attempts] \in Job
          /\ [job[e] EXCEPT !.label = "release", !.turns = job[e].turns + 1, !.row = NoRow] \in Job
      BY <1>1, <2>2 DEF Labels, NoJob
    <2>7. job' \in [Events -> Job]
      BY <1>2, <2>5, <2>6 DEF EndRelease, TurnLoop
    <2> QED
      BY <1>1, <2>1, <2>4, <2>7, StillIsSound DEF RestTyped, TypeOK
  <1>10. CASE WriteAudit(e) \/ MarkProcessed(e)
    <2>1. Still /\ UNCHANGED <<rel, ordered, utc, local, stuck>> /\ job' \in [Events -> Job]
      BY <1>4, <1>10 DEF WriteAudit, MarkProcessed, Still, money, Labels
    <2> QED
      BY <1>1, <2>1, StillIsSound DEF RestTyped, TypeOK
  <1>11. CASE FailAttempt(e)
    <2> DEFINE l == IF job[e].attempts < MaxAttempts THEN "queued" ELSE "dead"
    <2>1. [NoJob EXCEPT !.attempts = job[e].attempts, !.label = l] \in Job
      BY <1>1 DEF NoJob, Labels
    <2>2. job' = [job EXCEPT ![e] = [NoJob EXCEPT !.attempts = job[e].attempts, !.label = l]]
      BY <1>11 DEF FailAttempt
    <2>3. job' \in [Events -> Job]
      BY <1>2, <2>1, <2>2
    <2>4. Still /\ UNCHANGED <<rel, ordered, utc, local>> /\ stuck' = stuck + job[e].delta
      BY <1>11 DEF FailAttempt, Still, money
    <2>5. stuck' \in Nat
      BY <1>1, <2>4 DEF TypeOK
    <2> QED
      BY <1>1, <2>3, <2>4, <2>5, StillIsSound DEF RestTyped, TypeOK
  <1> QED
    BY <1>5, <1>6, <1>7, <1>8, <1>9, <1>10, <1>11 DEF Run

\* Every step of the merchant, the providers and the jobs is sound.
LEMMA EveryStep ==
    ASSUME Money, [Next]_vars
    PROVE  Money' /\ AccrualStep /\ FinalStep
  <1>1. Sound /\ RestTyped
    <2>1. CASE \E i \in Invoices :
                  \/ PlaceOrder(i) \/ IssueInvoice(i) \/ VoidInvoice(i)
                  \/ BnplConfirmed(i) \/ BnplDefaulted(i)
                  \/ \E p \in Payments : MarkAsPaid(i, p)
      BY <2>1, InvoiceStep
    <2>2. CASE \E e \in Events : DeliverPaid(e) \/ Run(e) \/ FailAttempt(e)
      BY <2>2, JobStep
    <2>3. CASE RunOverdueDetection
      BY <2>3, SweepStep
    <2>4. CASE Tick
      <3>1. Still /\ UNCHANGED <<rel, ordered, job, stuck>>
        BY <2>4 DEF Tick, Still, money
      <3>2. utc' \in Months /\ local' \in Months
        BY <2>4 DEF Tick, MonthTurns, Months, Money, TypeOK
      <3> QED
        BY <3>1, <3>2, StillIsSound DEF RestTyped, Money, TypeOK
    <2>5. CASE UNCHANGED vars
      <3>1. Still /\ UNCHANGED <<rel, ordered, utc, local, job, stuck>>
        BY <2>5 DEF vars, Still
      <3> QED
        BY <3>1, StillIsSound DEF RestTyped, Money, TypeOK
    <2> QED
      BY <2>1, <2>2, <2>3, <2>4, <2>5 DEF Next
  <1>2. TypeOK'
    BY <1>1 DEF Sound, MoneyTyped, RestTyped, TypeOK
  <1> QED
    BY <1>1, <1>2 DEF Sound, Money

\* The initial state has collected nothing.
LEMMA InitMoney == Init => Money
  BY DEF Init, Money, TypeOK, CollectedWithinTotal, BucketWithinLedger, Statuses,
     Labels, CreditRow, NoRow, NoJob, Months

\* The inductive invariant.
LEMMA MoneyInvariant == Spec => []Money
  <1>1. Money /\ [Next]_vars => Money'
    BY EveryStep
  <1> QED
    BY InitMoney, <1>1, PTL DEF Spec

\* Every variable keeps its type.
THEOREM LedgerTyped == Spec => []TypeOK
  <1>1. Money => TypeOK
    BY DEF Money
  <1> QED
    BY <1>1, MoneyInvariant, PTL

\* No interleaving of manual payments, the sweep, BNPL callbacks and repeated
\* orders/paid jobs collects more than an invoice's total.
THEOREM NeverOvercollected == Spec => []CollectedWithinTotal
  <1>1. Money => CollectedWithinTotal
    BY DEF Money
  <1> QED
    BY <1>1, MoneyInvariant, PTL

\* The running GMV bucket never exceeds the ledger row of its month.
THEOREM BucketCovered == Spec => []BucketWithinLedger
  <1>1. Money => BucketWithinLedger
    BY DEF Money
  <1> QED
    BY <1>1, MoneyInvariant, PTL

\* Every amount collected is accrued in the same step, once, in one month, and
\* nothing else is ever accrued.
THEOREM AccruedExactlyOnce == Spec => AccrualMatchesCollection
  <1>1. Money /\ [Next]_vars => [AccrualStep]_vars
    BY EveryStep
  <1>2. Spec => [][AccrualStep]_vars
    BY <1>1, MoneyInvariant, PTL DEF Spec
  <1> QED
    BY <1>2 DEF AccrualMatchesCollection, AccrualStep

\* Collected money is never taken back, and paid is left only for defaulted.
THEOREM CollectedForGood == Spec => CollectionIsFinal
  <1>1. Money /\ [Next]_vars => [FinalStep]_vars
    BY EveryStep
  <1>2. Spec => [][FinalStep]_vars
    BY <1>1, MoneyInvariant, PTL DEF Spec
  <1> QED
    BY <1>2 DEF CollectionIsFinal, FinalStep

-----------------------------------------------------------------------------
(* Sums.                                                                   *)

\* The units of one argument.
Block(x, n) == {x} \X (1..n)

\* n units more are n more.
LEMMA BlockAdded ==
    ASSUME NEW U, IsFiniteSet(U), NEW x, NEW n \in Nat, U \cap Block(x, n) = {}
    PROVE  /\ IsFiniteSet(U \cup Block(x, n))
           /\ Cardinality(U \cup Block(x, n)) = Cardinality(U) + n
           /\ Cardinality(U) \in Nat
  <1>1. IsFiniteSet(Block(x, n)) /\ Cardinality(Block(x, n)) = n
    <2>1. IsFiniteSet({x}) /\ Cardinality({x}) = 1
      BY FS_Singleton
    <2>2. IsFiniteSet(1..n) /\ Cardinality(1..n) = n
      BY FS_Interval
    <2>3. IsFiniteSet(Block(x, n)) /\ Cardinality(Block(x, n)) = 1 * n
      BY <2>1, <2>2, FS_Product DEF Block
    <2> QED
      BY <2>3
  <1>2. Cardinality(U) \in Nat
    BY FS_CardinalityType
  <1>3. /\ IsFiniteSet(U \cup Block(x, n))
        /\ Cardinality(U \cup Block(x, n))
              = Cardinality(U) + Cardinality(Block(x, n)) - Cardinality({})
    BY <1>1, FS_Union
  <1> QED
    BY <1>1, <1>2, <1>3, FS_EmptySet

\* A function changed at one argument has a sum that differs by the change.
LEMMA SumChanged ==
    ASSUME NEW D, NEW x \in D, NEW f \in [D -> Nat], NEW g \in [D -> Nat],
           \A y \in D \ {x} : g[y] = f[y], IsFiniteSet(Units(f))
    PROVE  /\ IsFiniteSet(Units(g))
           /\ SumOf(g) = SumOf(f) - f[x] + g[x]
           /\ SumOf(f) >= f[x]
  <1> DEFINE rest == UNION {{y} \X (1..f[y]) : y \in D \ {x}}
  <1>1. f[x] \in Nat /\ g[x] \in Nat
    OBVIOUS
  <1>2. Units(f) = rest \cup Block(x, f[x]) /\ rest \cap Block(x, f[x]) = {}
    BY DEF Units, Block
  <1>3. Units(g) = rest \cup Block(x, g[x]) /\ rest \cap Block(x, g[x]) = {}
    BY DEF Units, Block
  <1>4. IsFiniteSet(rest)
    <2>1. rest \subseteq Units(f)
      BY <1>2
    <2> QED
      BY <2>1, FS_Subset
  <1> HIDE DEF rest
  <1>5. SumOf(f) = Cardinality(rest) + f[x] /\ Cardinality(rest) \in Nat
    BY <1>1, <1>2, <1>4, BlockAdded DEF SumOf
  <1>6. SumOf(g) = Cardinality(rest) + g[x] /\ IsFiniteSet(Units(g))
    BY <1>1, <1>3, <1>4, BlockAdded DEF SumOf
  <1> QED
    BY <1>1, <1>5, <1>6

-----------------------------------------------------------------------------
(* The buyer's credit.                                                     *)

\* A job carries credit to free only inside releaseCredit, works on an issued
\* invoice, and the row it read is the current one if its version is.
JobOK(e) ==
    /\ job[e].label \notin {"release", "cas"} => job[e].delta = 0
    /\ job[e].label = "apply" => inv[OrderOf[e]].status # "none"
    /\ job[e].label = "cas" =>
          /\ job[e].row.version <= rel.version
          /\ job[e].row.version = rel.version => job[e].row = rel

\* Only reserved orders are invoiced.
BookInv ==
    /\ \A i \in Invoices : inv[i].status # "none" => i \in ordered
    /\ \A e \in Events : JobOK(e)

\* The sums are over finitely many units, and they add up.
CreditInv ==
    /\ IsFiniteSet(Units(Owed)) /\ IsFiniteSet(Units(Pending))
    /\ CreditConserved

Books == Money /\ BookInv /\ CreditInv

\* What can be said of the amounts that are summed.
LEMMA AmountsTyped ==
    ASSUME Books
    PROVE  /\ Owed \in [ordered -> Nat] /\ Pending \in [Events -> Nat]
           /\ \A i \in ordered : Owed[i] = Total[i] - inv[i].paid
           /\ \A e \in Events : Pending[e] = job[e].delta /\ job[e].delta \in Nat
           /\ SumOf(Owed) \in Nat /\ SumOf(Pending) \in Nat
           /\ rel.used \in Nat /\ rel.version \in Nat /\ stuck \in Nat
           /\ rel.used = SumOf(Owed) + SumOf(Pending) + stuck
  <1>1. /\ TypeOK /\ CollectedWithinTotal /\ CreditConserved
        /\ IsFiniteSet(Units(Owed)) /\ IsFiniteSet(Units(Pending))
    BY DEF Books, Money, CreditInv
  <1>2. \A i \in ordered : Total[i] - inv[i].paid \in Nat
    BY <1>1 DEF TypeOK, CollectedWithinTotal
  <1>3. \A e \in Events : job[e].delta \in Nat
    BY <1>1 DEF TypeOK
  <1>4. SumOf(Owed) \in Nat /\ SumOf(Pending) \in Nat
    BY <1>1, FS_CardinalityType DEF SumOf
  <1>5. rel.used \in Nat /\ rel.version \in Nat /\ stuck \in Nat
    BY <1>1 DEF TypeOK, CreditRow
  <1> QED
    BY <1>1, <1>2, <1>3, <1>4, <1>5 DEF Owed, Pending, CreditConserved

\* A change of the credit row raises its version, so a read that is no longer
\* current is seen to be stale.
LEMMA VersionsRise ==
    ASSUME Books, [Next]_vars
    PROVE  rel' = rel \/ rel'.version = rel.version + 1
  <1>1. \A row, amt : Freed(row, amt).version = row.version + 1
    BY DEF Freed
  <1>2. ASSUME NEW i \in Invoices, PlaceOrder(i) PROVE rel'.version = rel.version + 1
    BY <1>2 DEF PlaceOrder
  <1>3. ASSUME NEW i \in Invoices, NEW p, MarkAsPaid(i, p)
        PROVE  rel' = rel \/ rel'.version = rel.version + 1
    BY <1>1, <1>3 DEF MarkAsPaid
  <1>4. ASSUME NEW e \in Events, WriteCredit(e)
        PROVE  rel' = rel \/ rel'.version = rel.version + 1
    BY <1>1, <1>4 DEF WriteCredit
  <1> QED
    BY <1>2, <1>3, <1>4 DEF Next, vars, money, IssueInvoice, VoidInvoice,
       BnplConfirmed, BnplDefaulted, DeliverPaid, Run, StartJob, ApplyPaid,
       ReadCredit, WriteAudit, MarkProcessed, FailAttempt, RunOverdueDetection, Tick

\* An issued invoice stays issued, and only reserved orders get one.
LEMMA InvoicesIssued ==
    ASSUME Books, [Next]_vars
    PROVE  /\ ordered \subseteq ordered'
           /\ \A i \in Invoices : inv[i].status # "none" => inv'[i].status # "none"
           /\ \A i \in Invoices : inv'[i].status # "none" => i \in ordered'
  <1> DEFINE Kept == /\ ordered \subseteq ordered'
                     /\ \A i \in Invoices : inv[i].status # "none" => inv'[i].status # "none"
                     /\ \A i \in Invoices : inv'[i].status # "none" => i \in ordered'
  <1>1. /\ inv \in [Invoices -> [status : Statuses, paid : Nat]]
        /\ \A i \in Invoices : inv[i].status # "none" => i \in ordered
    BY DEF Books, Money, TypeOK, BookInv
  <1>2. ASSUME inv' = inv, ordered \subseteq ordered' PROVE Kept
    BY <1>1, <1>2
  <1>3. ASSUME NEW i \in ordered \cap Invoices, NEW r, r.status # "none",
               inv' = [inv EXCEPT ![i] = r], ordered' = ordered
        PROVE  Kept
    BY <1>1, <1>3
  <1>4. ASSUME NEW i \in Invoices, PlaceOrder(i) PROVE Kept
    BY <1>2, <1>4 DEF PlaceOrder
  <1>5. ASSUME NEW i \in Invoices, IssueInvoice(i) PROVE Kept
    BY <1>3, <1>5 DEF IssueInvoice
  <1>6. ASSUME NEW i \in Invoices, NEW p, MarkAsPaid(i, p) PROVE Kept
    <2> DEFINE newPaid == NewPaid(i, p)
               r == [status |-> IF newPaid = Total[i] THEN "paid" ELSE "partially_paid",
                     paid |-> newPaid]
    <2>1. i \in ordered /\ inv' = [inv EXCEPT ![i] = r] /\ ordered' = ordered
      BY <1>1, <1>6 DEF MarkAsPaid
    <2>2. r.status # "none"
      OBVIOUS
    <2> HIDE DEF r
    <2> QED
      BY <1>3, <2>1, <2>2
  <1>7. ASSUME NEW i \in Invoices, VoidInvoice(i) \/ BnplDefaulted(i) PROVE Kept
    <2>1. i \in ordered /\ ordered' = ordered
      BY <1>1, <1>7 DEF VoidInvoice, BnplDefaulted
    <2>2. \E st \in {"void", "defaulted"} : inv' = [inv EXCEPT ![i].status = st]
      BY <1>7 DEF VoidInvoice, BnplDefaulted
    <2> QED
      BY <1>1, <2>1, <2>2
  <1>8. ASSUME RunOverdueDetection PROVE Kept
    BY <1>1, <1>8 DEF RunOverdueDetection, Overdue
  <1>9. ASSUME NEW e \in Events, ApplyPaid(e) PROVE Kept
    <2>1. CASE inv' = inv
      BY <1>2, <1>9, <2>1 DEF ApplyPaid
    <2>2. CASE inv' # inv
      <3> DEFINE i == OrderOf[e]
                 r == [status |-> "paid", paid |-> Total[i]]
      <3>1. JobOK(e) /\ job[e].label = "apply"
        BY <1>9 DEF ApplyPaid, Books, BookInv
      <3>2. i \in ordered \cap Invoices
        BY <1>1, <3>1 DEF JobOK
      <3>3. r.status # "none"
        OBVIOUS
      <3>4. inv' = [inv EXCEPT ![i] = r] /\ ordered' = ordered
        BY <1>9, <2>2 DEF ApplyPaid
      <3> HIDE DEF r, i
      <3> QED
        BY <1>3, <3>2, <3>3, <3>4
    <2> QED
      BY <2>1, <2>2
  <1>10. ASSUME inv' = inv, ordered' = ordered PROVE Kept
    BY <1>2, <1>10
  <1> HIDE DEF Kept
  <1>11. ASSUME NEW e \in Events, DeliverPaid(e) \/ Run(e) \/ FailAttempt(e)
         PROVE  Kept
    BY <1>9, <1>10, <1>11 DEF money, DeliverPaid, Run, StartJob, ReadCredit,
       WriteCredit, WriteAudit, MarkProcessed, FailAttempt
  <1>12. Tick \/ UNCHANGED vars => Kept
    BY <1>10 DEF vars, money, Tick
  <1>13. ASSUME NEW i \in Invoices, BnplConfirmed(i) PROVE Kept
    BY <1>6, <1>13 DEF BnplConfirmed
  <1>14. Kept
    BY <1>4, <1>5, <1>6, <1>7, <1>8, <1>11, <1>12, <1>13 DEF Next
  <1> QED
    BY <1>14 DEF Kept

\* A collection of d reduces what is owed by d, which was owed.
LEMMA OwedReduced ==
    ASSUME Books, NEW i \in ordered, NEW d \in Nat, d <= Total[i] - inv[i].paid,
           ordered' = ordered, inv'[i].paid = inv[i].paid + d,
           \A k \in Invoices \ {i} : inv'[k].paid = inv[k].paid
    PROVE  /\ IsFiniteSet(Units(Owed'))
           /\ SumOf(Owed') = SumOf(Owed) - d
           /\ SumOf(Owed) >= d
  <1>1. /\ Owed \in [ordered -> Nat] /\ \A k \in ordered : Owed[k] = Total[k] - inv[k].paid
        /\ SumOf(Owed) \in Nat /\ IsFiniteSet(Units(Owed)) /\ ordered \subseteq Invoices
        /\ TypeOK
    BY AmountsTyped DEF Books, CreditInv, Money, TypeOK
  <1>2. Total[i] \in Nat /\ inv[i].paid \in Nat
    BY <1>1, InvoiceTyped
  <1>3. Owed' = [k \in ordered |-> Total[k] - inv'[k].paid]
    BY DEF Owed
  <1>4. Owed'[i] = Owed[i] - d /\ Owed'[i] \in Nat /\ Owed[i] >= d /\ Owed[i] \in Nat
    BY <1>1, <1>2, <1>3
  <1>5. \A k \in ordered \ {i} : Owed'[k] = Owed[k]
    BY <1>1, <1>3
  <1>6. Owed' \in [ordered -> Nat]
    BY <1>1, <1>3, <1>4, <1>5
  <1>7. /\ IsFiniteSet(Units(Owed'))
        /\ SumOf(Owed') = SumOf(Owed) - Owed[i] + Owed'[i]
        /\ SumOf(Owed) >= Owed[i]
    BY <1>1, <1>5, <1>6, SumChanged
  <1> QED
    BY <1>1, <1>4, <1>7

\* A new order adds its total to what is owed.
LEMMA OwedExtended ==
    ASSUME Books, NEW i \in Invoices \ ordered, ordered' = ordered \cup {i}, inv' = inv
    PROVE  IsFiniteSet(Units(Owed')) /\ SumOf(Owed') = SumOf(Owed) + Total[i]
  <1>1. /\ Owed \in [ordered -> Nat] /\ \A k \in ordered : Owed[k] = Total[k] - inv[k].paid
        /\ IsFiniteSet(Units(Owed)) /\ TypeOK /\ CollectedWithinTotal
    BY AmountsTyped DEF Books, CreditInv, Money
  <1>2. Total[i] \in Nat /\ inv[i].paid = 0
    <2>1. inv[i].status = "none"
      BY DEF Books, BookInv
    <2> QED
      BY <2>1, <1>1, InvoiceTyped DEF CollectedWithinTotal
  <1>3. Owed' = [k \in ordered \cup {i} |-> Total[k] - inv[k].paid]
    BY DEF Owed
  <1>4. Owed'[i] = Total[i] /\ \A k \in ordered : Owed'[k] = Owed[k]
    BY <1>1, <1>2, <1>3
  <1>5. DOMAIN Owed' = ordered \cup {i} /\ DOMAIN Owed = ordered
    BY <1>3 DEF Owed
  <1>6. /\ Units(Owed') = Units(Owed) \cup Block(i, Total[i])
        /\ Units(Owed) \cap Block(i, Total[i]) = {}
    BY <1>4, <1>5 DEF Units, Block
  <1>7. /\ IsFiniteSet(Units(Owed) \cup Block(i, Total[i]))
        /\ Cardinality(Units(Owed) \cup Block(i, Total[i]))
              = Cardinality(Units(Owed)) + Total[i]
    BY <1>1, <1>2, <1>6, BlockAdded
  <1> QED
    BY <1>6, <1>7 DEF SumOf

\* A job that takes up, or lets go of, credit to free.
LEMMA PendingChanged ==
    ASSUME Books, NEW e \in Events, NEW n \in Nat, job'[e].delta = n,
           \A k \in Events \ {e} : job'[k].delta = job[k].delta
    PROVE  /\ IsFiniteSet(Units(Pending'))
           /\ SumOf(Pending') = SumOf(Pending) - job[e].delta + n
           /\ SumOf(Pending) >= job[e].delta
  <1>1. /\ Pending \in [Events -> Nat] /\ \A k \in Events : Pending[k] = job[k].delta
        /\ IsFiniteSet(Units(Pending))
    BY AmountsTyped DEF Books, CreditInv
  <1>2. Pending' = [k \in Events |-> job'[k].delta]
    BY DEF Pending
  <1>3. Pending'[e] = n /\ \A k \in Events \ {e} : Pending'[k] = Pending[k]
    BY <1>1, <1>2
  <1>4. Pending' \in [Events -> Nat]
    BY <1>1, <1>2, <1>3
  <1>5. /\ IsFiniteSet(Units(Pending'))
        /\ SumOf(Pending') = SumOf(Pending) - Pending[e] + Pending'[e]
        /\ SumOf(Pending) >= Pending[e]
    BY <1>1, <1>3, <1>4, SumChanged
  <1> QED
    BY <1>1, <1>3, <1>5

\* Where no amount changes, the sums do not.
LEMMA SumsKept ==
    /\ ordered' = ordered /\ (\A i \in Invoices : inv'[i].paid = inv[i].paid)
          /\ ordered \subseteq Invoices => Owed' = Owed
    /\ (\A e \in Events : job'[e].delta = job[e].delta) => Pending' = Pending
  BY DEF Owed, Pending

\* GREATEST is never needed: what is freed is in use.
LEMMA FreedInFull ==
    ASSUME NEW row \in CreditRow, NEW d \in Nat, d <= row.used
    PROVE  Freed(row, d).used = row.used - d
  BY DEF Freed, Less, CreditRow

\* A reservation raises credit_used and what is owed by the order's total.
LEMMA PlaceOrderConserves ==
    ASSUME Books, NEW i \in Invoices, PlaceOrder(i) PROVE CreditInv'
  <1>1. /\ i \notin ordered /\ ordered' = ordered \cup {i} /\ inv' = inv
        /\ job' = job /\ stuck' = stuck /\ rel'.used = rel.used + Total[i]
    BY DEF PlaceOrder
  <1>2. Pending' = Pending /\ Total[i] \in Nat
    BY <1>1, SumsKept
  <1>3. IsFiniteSet(Units(Owed')) /\ SumOf(Owed') = SumOf(Owed) + Total[i]
    BY <1>1, OwedExtended
  <1>4. SumOf(Pending') = SumOf(Pending) /\ IsFiniteSet(Units(Pending'))
    BY <1>2 DEF Books, CreditInv
  <1> QED
    BY <1>1, <1>2, <1>3, <1>4, AmountsTyped DEF CreditInv, CreditConserved

\* markAsPaid frees what it collects, or leaves it stuck.
LEMMA MarkAsPaidConserves ==
    ASSUME Books, NEW i \in Invoices, NEW p \in Nat \ {0}, MarkAsPaid(i, p)
    PROVE  CreditInv'
  <1> DEFINE newPaid == NewPaid(i, p)
             d == PaidDelta(i, p)
             st == IF newPaid = Total[i] THEN "paid" ELSE "partially_paid"
  <1>1. /\ TypeOK /\ CollectedWithinTotal /\ inv[i].paid \in Nat /\ Total[i] \in Nat
        /\ inv[i].paid <= Total[i] /\ p > 0
    <2>1. TypeOK /\ CollectedWithinTotal
      BY DEF Books, Money
    <2>2. inv[i].paid \in Nat /\ Total[i] \in Nat
      BY <2>1, InvoiceTyped
    <2>3. inv[i].paid <= Total[i]
      BY <2>1 DEF CollectedWithinTotal
    <2>4. p > 0
      OBVIOUS
    <2> QED
      BY <2>1, <2>2, <2>3, <2>4
  <1>2. d \in Nat /\ newPaid = inv[i].paid + d /\ d <= Total[i] - inv[i].paid
    BY <1>1 DEF NewPaid, PaidDelta
  <1>3. /\ inv[i].status # "none"
        /\ inv' = [inv EXCEPT ![i] = [status |-> st, paid |-> newPaid]]
        /\ UNCHANGED <<ordered, job>>
        /\ \/ d = 0 /\ UNCHANGED <<rel, stuck>>
           \/ rel' = Freed(rel, d) /\ UNCHANGED stuck
           \/ stuck' = stuck + d /\ UNCHANGED rel
    BY DEF MarkAsPaid
  <1> HIDE DEF newPaid, d, st
  <1>4. i \in ordered
    BY <1>3 DEF Books, BookInv
  <1>5. inv'[i].paid = inv[i].paid + d /\ \A k \in Invoices \ {i} : inv'[k].paid = inv[k].paid
    BY <1>1, <1>2, <1>3 DEF TypeOK
  <1>6. /\ IsFiniteSet(Units(Owed')) /\ SumOf(Owed') = SumOf(Owed) - d
        /\ SumOf(Owed) >= d
    BY <1>2, <1>3, <1>4, <1>5, OwedReduced
  <1>7. SumOf(Pending') = SumOf(Pending) /\ IsFiniteSet(Units(Pending'))
    BY <1>3, SumsKept DEF Books, CreditInv
  <1>8. d <= rel.used
    BY <1>2, <1>6, AmountsTyped
  <1>9. CASE d = 0 /\ UNCHANGED <<rel, stuck>>
    BY <1>6, <1>7, <1>9, AmountsTyped DEF CreditInv, CreditConserved
  <1>10. CASE rel' = Freed(rel, d) /\ UNCHANGED stuck
    <2>1. rel'.used = rel.used - d
      BY <1>1, <1>2, <1>8, <1>10, FreedInFull DEF TypeOK
    <2> QED
      BY <1>2, <1>6, <1>7, <1>10, <2>1, AmountsTyped DEF CreditInv, CreditConserved
  <1>11. CASE stuck' = stuck + d /\ UNCHANGED rel
    BY <1>2, <1>6, <1>7, <1>11, AmountsTyped DEF CreditInv, CreditConserved
  <1> QED
    BY <1>3, <1>9, <1>10, <1>11

\* The paid job's transaction moves what it collects from owed to pending.
LEMMA ApplyPaidConserves ==
    ASSUME Books, NEW e \in Events, ApplyPaid(e) PROVE CreditInv'
  <1> DEFINE i == OrderOf[e]
             d == CollectedDelta(i)
  <1>1. /\ TypeOK /\ CollectedWithinTotal /\ i \in Invoices /\ JobOK(e)
        /\ job[e].label = "apply" /\ rel' = rel /\ stuck' = stuck /\ ordered' = ordered
    BY DEF Books, BookInv, Money, ApplyPaid
  <1>2. /\ inv[i].paid \in Nat /\ Total[i] \in Nat /\ inv[i].paid <= Total[i]
    BY <1>1, InvoiceTyped DEF CollectedWithinTotal
  <1>3. d \in Nat /\ inv[i].paid + d = Total[i] /\ d = Total[i] - inv[i].paid
    BY <1>2 DEF CollectedDelta, Less
  <1>4. i \in ordered /\ job[e].delta = 0
    BY <1>1 DEF JobOK, Books, BookInv
  <1>5. CASE inv' = inv /\ Goto(e, "ack")
    <2>1. \A k \in Events : job'[k].delta = job[k].delta
      BY <1>1, <1>5 DEF Goto, TypeOK
    <2>2. Owed' = Owed /\ Pending' = Pending
      BY <1>1, <1>5, <2>1, SumsKept DEF TypeOK
    <2> QED
      BY <1>1, <2>2 DEF Books, CreditInv, CreditConserved
  <1>6. CASE /\ inv' = [inv EXCEPT ![i] = [status |-> "paid", paid |-> Total[i]]]
             /\ job' = [job EXCEPT ![e] = [job[e] EXCEPT !.label = "release", !.delta = d]]
    <2> HIDE DEF i, d
    <2>1. inv'[i].paid = inv[i].paid + d /\ \A k \in Invoices \ {i} : inv'[k].paid = inv[k].paid
      BY <1>1, <1>3, <1>6 DEF TypeOK
    <2>2. job'[e].delta = d /\ \A k \in Events \ {e} : job'[k].delta = job[k].delta
      BY <1>1, <1>6 DEF TypeOK
    <2>3. /\ IsFiniteSet(Units(Owed')) /\ SumOf(Owed') = SumOf(Owed) - d
          /\ SumOf(Owed) >= d
      <3>1. d <= Total[i] - inv[i].paid
        BY <1>2, <1>3
      <3> QED
        BY <1>1, <1>3, <1>4, <2>1, <3>1, OwedReduced
    <2>4. /\ IsFiniteSet(Units(Pending'))
          /\ SumOf(Pending') = SumOf(Pending) - job[e].delta + d
      BY <1>3, <2>2, PendingChanged
    <2> QED
      BY <1>1, <1>3, <1>4, <2>3, <2>4, AmountsTyped DEF CreditInv, CreditConserved
  <1> QED
    BY <1>5, <1>6 DEF ApplyPaid

\* The second half of releaseCredit writes what the current row says, or
\* leaves the credit stuck.
LEMMA WriteCreditConserves ==
    ASSUME Books, NEW e \in Events, WriteCredit(e) PROVE CreditInv'
  <1> DEFINE d == job[e].delta
  <1>1. /\ TypeOK /\ JobOK(e) /\ job[e].label = "cas" /\ d \in Nat
        /\ ordered' = ordered /\ inv' = inv
    BY AmountsTyped DEF Books, BookInv, Money, WriteCredit
  <1>2. SumOf(Owed') = SumOf(Owed) /\ IsFiniteSet(Units(Owed'))
    BY <1>1, SumsKept DEF TypeOK, Books, CreditInv
  <1>3. SumOf(Pending) >= d
    <2>1. /\ Pending \in [Events -> Nat] /\ Pending[e] = d
          /\ IsFiniteSet(Units(Pending))
      BY AmountsTyped DEF Books, CreditInv
    <2> QED
      BY <2>1, SumChanged
  <1>4. d <= rel.used
    BY <1>1, <1>3, AmountsTyped
  <1>5. ASSUME EndRelease(e)
        PROVE  /\ IsFiniteSet(Units(Pending'))
               /\ SumOf(Pending') = SumOf(Pending) - d
    <2>1. job'[e].delta = 0 /\ \A k \in Events \ {e} : job'[k].delta = job[k].delta
      BY <1>1, <1>5 DEF EndRelease, NoJob, TypeOK
    <2>2. /\ IsFiniteSet(Units(Pending'))
          /\ SumOf(Pending') = SumOf(Pending) - job[e].delta + 0
      BY <2>1, PendingChanged
    <2> QED
      BY <1>1, <2>2, AmountsTyped
  <1>6. CASE /\ rel.version = job[e].row.version /\ EndRelease(e)
             /\ rel' = Freed(job[e].row, job[e].delta) /\ stuck' = stuck
    <2>1. rel' = Freed(rel, d)
      BY <1>1, <1>6 DEF JobOK
    <2>2. rel'.used = rel.used - d
      BY <1>1, <1>4, <2>1, FreedInFull DEF TypeOK
    <2> QED
      BY <1>1, <1>2, <1>5, <1>6, <2>2, AmountsTyped DEF CreditInv, CreditConserved
  <1>7. CASE TurnLoop(e) /\ rel' = rel /\ stuck' = stuck
    <2>1. \A k \in Events : job'[k].delta = job[k].delta
      BY <1>1, <1>7 DEF TurnLoop, TypeOK
    <2>2. Pending' = Pending
      BY <2>1, SumsKept
    <2> QED
      BY <1>2, <1>7, <2>2 DEF Books, CreditInv, CreditConserved
  <1>8. CASE EndRelease(e) /\ stuck' = stuck + d /\ rel' = rel
    BY <1>1, <1>2, <1>5, <1>8, AmountsTyped DEF CreditInv, CreditConserved
  <1> QED
    BY <1>6, <1>7, <1>8 DEF WriteCredit

\* An attempt that dies leaves what it carried stuck.
LEMMA FailAttemptConserves ==
    ASSUME Books, NEW e \in Events, FailAttempt(e) PROVE CreditInv'
  <1> DEFINE d == job[e].delta
  <1>1. /\ TypeOK /\ d \in Nat /\ ordered' = ordered /\ inv' = inv /\ rel' = rel
        /\ stuck' = stuck + d
    BY AmountsTyped DEF Books, Money, FailAttempt, money
  <1>2. SumOf(Owed') = SumOf(Owed) /\ IsFiniteSet(Units(Owed'))
    BY <1>1, SumsKept DEF TypeOK, Books, CreditInv
  <1>3. job'[e].delta = 0 /\ \A k \in Events \ {e} : job'[k].delta = job[k].delta
    BY <1>1 DEF FailAttempt, NoJob, TypeOK
  <1>4. /\ IsFiniteSet(Units(Pending'))
        /\ SumOf(Pending') = SumOf(Pending) - job[e].delta + 0
    BY <1>3, PendingChanged
  <1> QED
    BY <1>1, <1>2, <1>4, AmountsTyped DEF CreditInv, CreditConserved

\* A step that touches neither amounts nor the credit row conserves credit.
LEMMA QuietConserves ==
    ASSUME Books, rel' = rel, stuck' = stuck, ordered' = ordered,
           \A i \in Invoices : inv'[i].paid = inv[i].paid,
           \A e \in Events : job'[e].delta = job[e].delta
    PROVE  CreditInv'
  <1>1. Owed' = Owed /\ Pending' = Pending
    BY SumsKept DEF Books, Money, TypeOK
  <1> QED
    BY <1>1 DEF Books, CreditInv, CreditConserved

\* Every step conserves credit.
LEMMA EveryStepConserves == ASSUME Books, [Next]_vars PROVE CreditInv'
  <1>1. TypeOK /\ CollectedWithinTotal
    BY DEF Books, Money
  <1>2. ASSUME NEW i \in Invoices, IssueInvoice(i) \/ VoidInvoice(i) \/ BnplDefaulted(i)
        PROVE  CreditInv'
    <2>1. /\ inv \in [Invoices -> [status : Statuses, paid : Nat]]
          /\ inv[i].status = "none" => inv[i].paid = 0
      BY <1>1 DEF TypeOK, CollectedWithinTotal
    <2>2. \/ \E st \in {"void", "defaulted"} : inv' = [inv EXCEPT ![i].status = st]
          \/ /\ inv' = [inv EXCEPT ![i] = [status |-> "sent", paid |-> 0]]
             /\ inv[i].status = "none"
      BY <1>2 DEF IssueInvoice, VoidInvoice, BnplDefaulted
    <2>3. \A k \in Invoices : inv'[k].paid = inv[k].paid
      BY <2>1, <2>2
    <2> QED
      BY <1>2, <2>3, QuietConserves DEF IssueInvoice, VoidInvoice, BnplDefaulted
  <1>3. ASSUME NEW i \in Invoices, BnplConfirmed(i) PROVE CreditInv'
    <2>1. Total[i] \in Nat \ {0}
      OBVIOUS
    <2> QED
      BY <1>3, <2>1, MarkAsPaidConserves DEF BnplConfirmed
  <1>4. ASSUME NEW i \in Invoices, NEW p \in Payments, MarkAsPaid(i, p) PROVE CreditInv'
    BY <1>4, MarkAsPaidConserves
  <1>5. ASSUME RunOverdueDetection PROVE CreditInv'
    <2>1. \A k \in Invoices : inv'[k].paid = inv[k].paid
      BY <1>1, <1>5 DEF RunOverdueDetection, TypeOK
    <2> QED
      BY <1>5, <2>1, QuietConserves DEF RunOverdueDetection
  <1>6. ASSUME NEW e \in Events, \/ DeliverPaid(e) \/ StartJob(e) \/ ReadCredit(e)
                                 \/ WriteAudit(e) \/ MarkProcessed(e)
        PROVE  CreditInv'
    <2>1. job \in [Events -> [label : Labels, attempts : Nat, turns : Nat,
                              delta : Nat, row : CreditRow]]
      BY <1>1 DEF TypeOK
    <2>2. ASSUME \E l : Goto(e, l) PROVE \A k \in Events : job'[k].delta = job[k].delta
      BY <2>1, <2>2 DEF Goto
    <2>3. ASSUME StartJob(e) PROVE \A k \in Events : job'[k].delta = job[k].delta
      BY <2>1, <2>3 DEF StartJob
    <2>4. ASSUME ReadCredit(e) PROVE \A k \in Events : job'[k].delta = job[k].delta
      BY <2>1, <2>4 DEF ReadCredit
    <2>5. \A k \in Events : job'[k].delta = job[k].delta
      BY <1>6, <2>2, <2>3, <2>4 DEF DeliverPaid, WriteAudit, MarkProcessed
    <2> QED
      BY <1>6, <2>5, QuietConserves DEF DeliverPaid, StartJob, ReadCredit,
         WriteAudit, MarkProcessed, money
  <1>7. ASSUME Tick \/ UNCHANGED vars PROVE CreditInv'
    BY <1>7, QuietConserves DEF Tick, vars, money
  <1> QED
    BY <1>2, <1>3, <1>4, <1>5, <1>6, <1>7, PlaceOrderConserves, ApplyPaidConserves,
       WriteCreditConserves, FailAttemptConserves DEF Next, Run

\* Every step keeps the jobs and the row they read in order.
LEMMA EveryStepBooks == ASSUME Books, [Next]_vars PROVE BookInv'
  <1>1. /\ TypeOK /\ \A e \in Events : JobOK(e)
        /\ job \in [Events -> [label : Labels, attempts : Nat, turns : Nat,
                               delta : Nat, row : CreditRow]]
        /\ rel.version \in Nat
    BY AmountsTyped DEF Books, Money, BookInv, TypeOK
  <1>2. \A i \in Invoices : inv[i].status # "none" => inv'[i].status # "none"
    BY InvoicesIssued
  <1>3. \A e \in Events : job[e].row.version \in Nat
    BY <1>1 DEF CreditRow
  <1>4. ASSUME NEW e \in Events, job'[e] = job[e] PROVE JobOK(e)'
    BY <1>1, <1>2, <1>3, <1>4, VersionsRise DEF JobOK
  <1>5. ASSUME NEW e \in Events, DeliverPaid(e) \/ Run(e) \/ FailAttempt(e)
        PROVE  JobOK(e)' /\ \A k \in Events \ {e} : job'[k] = job[k]
    <2>1. /\ JobOK(e) /\ OrderOf[e] \in Invoices
          /\ inv[OrderOf[e]].status # "none" => inv'[OrderOf[e]].status # "none"
      BY <1>1, <1>2
    <2>2. \A r : job' = [job EXCEPT ![e] = r] =>
                     job'[e] = r /\ \A k \in Events \ {e} : job'[k] = job[k]
      BY <1>1
    <2>3. /\ \A d : [job[e] EXCEPT !.label = "release", !.delta = d].label = "release"
           /\ \A t, r : [job[e] EXCEPT !.label = "release", !.turns = t, !.row = r].label
                           = "release"
      BY <1>1
    <2>4. EndRelease(e) => job'[e].label = "audit" /\ job'[e].delta = 0
      <3>1. EndRelease(e) => job'[e] = [NoJob EXCEPT !.label = "audit",
                                                     !.attempts = job[e].attempts]
        BY <2>2 DEF EndRelease
      <3> QED
        BY <3>1 DEF NoJob
    <2>5. TurnLoop(e) => job'[e].label = "release"
      <3>1. TurnLoop(e) => job'[e] = [job[e] EXCEPT !.label = "release",
                                         !.turns = job[e].turns + 1, !.row = NoRow]
        BY <2>2 DEF TurnLoop
      <3> QED
        BY <2>3, <3>1, Zenon
    <2> USE <1>1, <2>1 DEF JobOK, Goto, NoJob
    <2>6. CASE DeliverPaid(e)   BY <2>6 DEF DeliverPaid
    <2>7. CASE StartJob(e)      BY <2>7 DEF StartJob
    <2>8. CASE ApplyPaid(e)
      <3>1. \/ Goto(e, "ack")
            \/ job' = [job EXCEPT ![e] = [job[e] EXCEPT !.label = "release",
                                             !.delta = CollectedDelta(OrderOf[e])]]
        BY <2>8 DEF ApplyPaid
      <3>2. job[e].label = "apply" /\ job[e].delta = 0
        BY <2>8 DEF ApplyPaid
      <3>3. \/ job'[e].label = "ack" /\ job'[e].delta = 0
            \/ job'[e].label = "release"
        <4>1. CASE Goto(e, "ack")
          BY <3>2, <4>1
        <4>2. CASE job' = [job EXCEPT ![e] = [job[e] EXCEPT !.label = "release",
                                                 !.delta = CollectedDelta(OrderOf[e])]]
          <5>1. job'[e].label = "release"
            BY <2>2, <2>3, <4>2, Zenon
          <5> QED
            BY <5>1
        <4> QED
          BY <3>1, <4>1, <4>2
      <3>4. \A k \in Events \ {e} : job'[k] = job[k]
        BY <3>1
      <3> QED
        BY <3>3, <3>4
    <2>9. CASE ReadCredit(e)    BY <2>9 DEF ReadCredit, money
    <2>10. CASE WriteCredit(e)
      <3>1. EndRelease(e) \/ TurnLoop(e)
        BY <2>10 DEF WriteCredit
      <3>2. \A k \in Events \ {e} : job'[k] = job[k]
        BY <3>1 DEF EndRelease, TurnLoop
      <3>3. \/ job'[e].label = "audit" /\ job'[e].delta = 0
            \/ job'[e].label = "release"
        BY <2>4, <2>5, <3>1
      <3> QED
        BY <3>2, <3>3
    <2>11. CASE WriteAudit(e)    BY <2>11 DEF WriteAudit
    <2>12. CASE MarkProcessed(e) BY <2>12 DEF MarkProcessed
    <2>13. CASE FailAttempt(e)   BY <2>13 DEF FailAttempt
    <2> QED
      BY <1>5, <2>6, <2>7, <2>8, <2>9, <2>10, <2>11, <2>12, <2>13 DEF Run
  <1>6. \/ job' = job
        \/ \E e \in Events : DeliverPaid(e) \/ Run(e) \/ FailAttempt(e)
    BY DEF Next, vars, PlaceOrder, IssueInvoice, VoidInvoice, BnplConfirmed,
       BnplDefaulted, MarkAsPaid, RunOverdueDetection, Tick
  <1>7. \A e \in Events : JobOK(e)'
    BY <1>4, <1>5, <1>6
  <1>8. \A i \in Invoices : inv'[i].status # "none" => i \in ordered'
    BY InvoicesIssued
  <1> QED
    BY <1>7, <1>8 DEF BookInv

\* The credit in use is what was ordered and not collected, plus what the paid
\* jobs have collected and not yet freed, plus what nobody will free.
THEOREM CreditAddsUp == Spec => []CreditConserved
  <1>1. Init => Books
    <2> SUFFICES ASSUME Init PROVE Books
      OBVIOUS
    <2>1. Money
      BY InitMoney
    <2>2. BookInv
      BY DEF Init, BookInv, JobOK, NoJob
    <2>3. Units(Owed) = {} /\ Units(Pending) = {}
      BY DEF Init, Units, Owed, Pending, NoJob
    <2>4. rel.used = 0 /\ stuck = 0
      BY DEF Init, NoRow
    <2>5. CreditInv
      BY <2>3, <2>4, FS_EmptySet DEF CreditInv, CreditConserved, SumOf
    <2> QED
      BY <2>1, <2>2, <2>5 DEF Books
  <1>2. Books /\ [Next]_vars => Books'
    <2> SUFFICES ASSUME Books, [Next]_vars PROVE Books'
      OBVIOUS
    <2>1. Money'
      BY EveryStep DEF Books
    <2> QED
      BY <2>1, EveryStepBooks, EveryStepConserves DEF Books
  <1>3. Books => CreditConserved
    BY DEF Books, CreditInv
  <1> QED
    BY <1>1, <1>2, <1>3, PTL DEF Spec

-----------------------------------------------------------------------------
(* GMV and collections.                                                    *)

Collected == [i \in Invoices |-> inv[i].paid]

\* What all months' ledger rows show is what all invoices collected.
GmvAddsUp == SumOf(ledger) = SumOf(Collected)

GmvInv ==
    /\ IsFiniteSet(Units(ledger)) /\ IsFiniteSet(Units(Collected))
    /\ GmvAddsUp

\* The step that collects adds the same to both sums.
LEMMA AccrualKeepsSums ==
    ASSUME Money, Money', GmvInv, AccrualStep PROVE GmvInv'
  <1>1. /\ ledger \in [Months -> Nat] /\ ledger' \in [Months -> Nat]
        /\ \A i \in Invoices : inv[i].paid \in Nat /\ inv'[i].paid \in Nat
    BY DEF Money, TypeOK
  <1>2. /\ Collected \in [Invoices -> Nat] /\ Collected' \in [Invoices -> Nat]
        /\ \A i \in Invoices : Collected[i] = inv[i].paid /\ Collected'[i] = inv'[i].paid
    BY <1>1 DEF Collected
  <1>3. CASE ledger' = ledger /\ \A i \in Invoices : inv'[i].paid = inv[i].paid
    <2>1. Collected' = Collected
      BY <1>3 DEF Collected
    <2> QED
      BY <1>3, <2>1 DEF GmvInv, GmvAddsUp
  <1>4. CASE ~(ledger' = ledger /\ \A i \in Invoices : inv'[i].paid = inv[i].paid)
    <2>1. PICK i \in Invoices, m \in Months :
             /\ inv'[i].paid > inv[i].paid
             /\ ledger' = [ledger EXCEPT ![m] = @ + inv'[i].paid - inv[i].paid]
             /\ \A k \in Invoices \ {i} : inv'[k].paid = inv[k].paid
      BY <1>4 DEF AccrualStep
    <2>2. /\ ledger'[m] = ledger[m] + inv'[i].paid - inv[i].paid
          /\ \A n \in Months \ {m} : ledger'[n] = ledger[n]
      BY <1>1, <2>1
    <2>3. /\ IsFiniteSet(Units(ledger'))
          /\ SumOf(ledger') = SumOf(ledger) - ledger[m] + ledger'[m]
      BY <1>1, <2>2, SumChanged DEF GmvInv
    <2>4. \A k \in Invoices \ {i} : Collected'[k] = Collected[k]
      BY <1>2, <2>1
    <2>5. /\ IsFiniteSet(Units(Collected'))
          /\ SumOf(Collected') = SumOf(Collected) - Collected[i] + Collected'[i]
      BY <1>2, <2>4, SumChanged DEF GmvInv
    <2>6. SumOf(ledger) = SumOf(Collected) /\ SumOf(ledger) \in Nat
      BY FS_CardinalityType DEF GmvInv, GmvAddsUp, SumOf
    <2>7. /\ ledger[m] \in Nat /\ inv[i].paid \in Nat /\ inv'[i].paid \in Nat
          /\ Collected[i] = inv[i].paid /\ Collected'[i] = inv'[i].paid
      BY <1>1, <1>2
    <2>8. SumOf(ledger') = SumOf(Collected')
      BY <2>2, <2>3, <2>5, <2>6, <2>7
    <2> QED
      BY <2>3, <2>5, <2>8 DEF GmvInv, GmvAddsUp
  <1> QED
    BY <1>3, <1>4

\* The GMV that overage billing reads is the money that was collected, summed
\* over all months and all invoices, at every moment.
THEOREM GmvIsCollected == Spec => []GmvAddsUp
  <1>1. Init => GmvInv
    <2> SUFFICES ASSUME Init PROVE GmvInv
      OBVIOUS
    <2>1. Units(ledger) = {} /\ Units(Collected) = {}
      BY DEF Init, Units, Collected
    <2> QED
      BY <2>1, FS_EmptySet DEF GmvInv, GmvAddsUp, SumOf
  <1>2. Money /\ GmvInv /\ [Next]_vars => GmvInv'
    BY EveryStep, AccrualKeepsSums
  <1>3. GmvInv => GmvAddsUp
    BY DEF GmvInv
  <1> QED
    BY <1>1, <1>2, <1>3, MoneyInvariant, PTL DEF Spec
=============================================================================
