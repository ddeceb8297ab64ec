------------------------- MODULE OrderEvents_proofs -------------------------
(* Proofs about OrderEvents: the invoice of an order is unique, and a        *)
(* processed event had its effect, for any number of events and workers.     *)
EXTENDS OrderEvents, TLAPS

USE TopicAssumption, BoundAssumption

\* A worker that is not idle has an event, and its place fits the event's topic.
Fits(k) ==
    /\ k.at # "idle" => k.event \in Events /\ k.name \in {"main", "email"}
    /\ k.at \in {"check", "issue", "mail", "markIssued", "audit"} => Topic[k.event] = "orders/create"
    /\ k.at = "find" => Topic[k.event] # "orders/create"
    /\ k.at \in {"fetch", "write"} => Topic[k.event] = "orders/updated"
    /\ k.at \in {"ship", "notify"} => Topic[k.event] = "fulfillments/create"

PlaceInv == \A w \in Workers : Fits(worker[w])

\* The worker that issued the invoice is the only one to mail it, once.
MailInv ==
    /\ invoices \in {0, 1} /\ mails <= invoices
    /\ \A w \in Workers : worker[w].at = "mail" => invoices = 1 /\ mails = 0
    /\ \A w, v \in Workers : worker[w].at = "mail" /\ worker[v].at = "mail" => w = v

\* What an event's effect is, and the places in the code that follow it.
Effect(e, s, i, n) ==
    \/ e \in s
    \/ /\ Topic[e] = "orders/create" => i = 1
       /\ Topic[e] = "fulfillments/create" => n[e] > 0

AfterEffect == {"mail", "mark", "markIssued", "audit"}

EffectInv ==
    /\ \A w \in Workers :
          worker[w].at \in AfterEffect => Effect(worker[w].event, skipped, invoices, notices)
    /\ \A e \in Events : row[e] = "processed" => Effect(e, skipped, invoices, notices)

Types == TypeOK /\ PlaceInv

\* A worker after a step to a label, and one that has taken a job.
LEMMA Moves ==
    ASSUME TypeOK, NEW w \in Workers
    PROVE  /\ Idle \in WorkerType /\ Idle.at = "idle"
           /\ \A label \in Labels, status \in Statuses : GoOn(w, label, status) =>
                 /\ worker' \in [Workers -> WorkerType]
                 /\ worker'[w].at = label /\ worker'[w].event = worker[w].event
                 /\ worker'[w].name = worker[w].name
                 /\ \A v \in Workers \ {w} : worker'[v] = worker[v]
           /\ Done(w) => /\ worker' \in [Workers -> WorkerType] /\ worker'[w].at = "idle"
                         /\ \A v \in Workers \ {w} : worker'[v] = worker[v]
  <1>1. worker \in [Workers -> WorkerType] /\ worker[w] \in WorkerType
    BY DEF TypeOK
  <1>2. Idle \in WorkerType /\ Idle.at = "idle"
    BY DEF Idle, WorkerType, Labels, Statuses
  <1>3. ASSUME NEW label \in Labels, NEW status \in Statuses, GoOn(w, label, status)
        PROVE  /\ worker' \in [Workers -> WorkerType]
               /\ worker'[w].at = label /\ worker'[w].event = worker[w].event
               /\ worker'[w].name = worker[w].name
               /\ \A v \in Workers \ {w} : worker'[v] = worker[v]
    <2> DEFINE new == [worker[w] EXCEPT !.at = label, !.seen = status]
    <2>1. new \in WorkerType
      BY <1>1 DEF WorkerType
    <2>2. new.at = label /\ new.event = worker[w].event /\ new.name = worker[w].name
      BY <1>1 DEF WorkerType
    <2>3. worker' = [worker EXCEPT ![w] = new]
      BY <1>3 DEF GoOn
    <2> HIDE DEF new
    <2> QED
      BY <1>1, <2>1, <2>2, <2>3
  <1>4. ASSUME Done(w)
        PROVE  /\ worker' \in [Workers -> WorkerType] /\ worker'[w].at = "idle"
               /\ \A v \in Workers \ {w} : worker'[v] = worker[v]
    <2>1. worker' = [worker EXCEPT ![w] = Idle]
      BY <1>4 DEF Done
    <2> QED
      BY <1>1, <1>2, <2>1
  <1> QED
    BY <1>2, <1>3, <1>4

\* What a job is queued with.
LEMMA Jobs ==
    ASSUME NEW e \in Events, NEW n \in {"main", "email"}, NEW t \in 0..(MaxAttempts - 1),
           NEW s \in 0..(MaxStalls + 1)
    PROVE  Job(e, n, t, s) \in JobType
  BY DEF Job, JobType

\* No row becomes processed, and the failed jobs and the rows keep their types.
Buried ==
    /\ failed' \subseteq Events \X {"main", "email"}
    /\ row' \in [Events -> {"absent", "pending", "processing", "processed", "dead_letter"}]
    /\ \A e \in Events : row'[e] = "processed" => row[e] = "processed"

\* What a job that is given up does to failed jobs and rows.
LEMMA Buries ==
    ASSUME TypeOK, NEW e \in Events, NEW n \in {"main", "email"}, NEW made, Bury(e, n, made)
    PROVE  Buried
  <1>1. failed' = failed \cup {<<e, n>>} /\ (row' = row \/ row' = [row EXCEPT ![e] = "dead_letter"])
    BY DEF Bury
  <1> QED
    BY <1>1 DEF TypeOK, Buried

\* What an attempt that ends does to queue, failed jobs and rows.
LEMMA Retries ==
    ASSUME TypeOK, PlaceInv, NEW w \in Workers, ~At(w, "idle"), Retry(w)
    PROVE  Done(w) /\ queue' \subseteq JobType /\ Buried
  <1>1. worker[w].event \in Events /\ worker[w].name \in {"main", "email"}
    BY DEF PlaceInv, Fits, At
  <1>2. worker[w].tries \in 0..(MaxAttempts - 1) /\ worker[w].stalls \in 0..(MaxStalls + 1)
    BY DEF TypeOK, WorkerType
  <1>3. Done(w)
    BY DEF Retry
  <1>4. CASE UNCHANGED jobs
    BY <1>3, <1>4 DEF jobs, TypeOK, Buried
  <1>5. CASE /\ Again(worker[w].tries + 1)
             /\ queue' = queue \cup {Job(Of(w), worker[w].name, worker[w].tries + 1, worker[w].stalls)}
             /\ UNCHANGED <<row, failed>>
    <2>1. worker[w].tries + 1 \in 0..(MaxAttempts - 1)
      BY <1>2, <1>5 DEF Again
    <2>2. Job(Of(w), worker[w].name, worker[w].tries + 1, worker[w].stalls) \in JobType
      BY <1>1, <1>2, <2>1, Jobs DEF Of
    <2> QED
      BY <1>3, <1>5, <2>2 DEF TypeOK, Buried
  <1>6. CASE Bury(Of(w), worker[w].name, worker[w].tries + 1) /\ UNCHANGED queue
    BY <1>1, <1>3, <1>6, Buries DEF Of, TypeOK
  <1> QED
    BY <1>4, <1>5, <1>6 DEF Retry

\* The initial states satisfy every part.
LEMMA InitInv == Init => Types /\ MailInv /\ EffectInv
  <1> SUFFICES ASSUME Init PROVE Types /\ MailInv /\ EffectInv
    OBVIOUS
  <1>1. \A w \in Workers : worker[w] = Idle
    BY DEF Init
  <1>2. Idle \in WorkerType /\ Idle.at = "idle"
    BY DEF Idle, WorkerType, Labels, Statuses
  <1>3. order \in [exists : BOOLEAN, status : Statuses]
    <2>1. PICK b \in BOOLEAN : order = [exists |-> b, status |-> "pending"]
      BY Zenon DEF Init
    <2> QED
      BY <2>1 DEF Statuses
  <1>4. worker \in [Workers -> WorkerType]
    BY <1>2 DEF Init
  <1>5. TypeOK
    BY <1>3, <1>4 DEF Init, TypeOK, Statuses
  <1>6. PlaceInv
    BY <1>1, <1>2 DEF PlaceInv, Fits
  <1>7. MailInv
    BY <1>1, <1>2 DEF MailInv, Init
  <1>8. EffectInv
    BY <1>1, <1>2 DEF EffectInv, AfterEffect, Init
  <1> QED
    BY <1>5, <1>6, <1>7, <1>8 DEF Types

\* Types and places only look at one worker at a time.
LEMMA OneWorker ==
    ASSUME PlaceInv, NEW w \in Workers, Fits(worker'[w]),
           \A v \in Workers \ {w} : worker'[v] = worker[v]
    PROVE  PlaceInv'
  <1>1. \A v \in Workers : Fits(worker[v])
    BY DEF PlaceInv
  <1>2. ASSUME NEW v \in Workers PROVE Fits(worker'[v])
    BY <1>1, v = w \/ v \in Workers \ {w}
  <1>3. \A v \in Workers : Fits(worker'[v])
    BY <1>2
  <1> QED
    BY <1>3 DEF PlaceInv, Fits

\* A worker that is done has no place to fit.
LEMMA Ends ==
    ASSUME Types, NEW w \in Workers, Done(w)
    PROVE  PlaceInv' /\ worker' \in [Workers -> WorkerType]
  <1>1. /\ worker' \in [Workers -> WorkerType] /\ worker'[w].at = "idle"
        /\ \A v \in Workers \ {w} : worker'[v] = worker[v]
    BY Moves DEF Types
  <1>2. Fits(worker'[w])
    BY <1>1 DEF Fits
  <1> QED
    BY <1>1, <1>2, OneWorker DEF Types

\* A worker that lost its lock stays where it is, if it does not die.
LEMMA Stalls ==
    ASSUME Types, NEW w \in Workers, Stall(w)
    PROVE  \/ Done(w)
           \/ /\ PlaceInv' /\ worker' \in [Workers -> WorkerType]
              /\ \A v \in Workers : worker'[v].at = worker[v].at /\ worker'[v].event = worker[v].event
  <1> DEFINE new == [worker[w] EXCEPT !.owner = FALSE]
  <1>1. worker \in [Workers -> WorkerType] /\ worker[w] \in WorkerType /\ PlaceInv
    BY DEF Types, TypeOK
  <1>2. new \in WorkerType /\ new.at = worker[w].at /\ new.event = worker[w].event
        /\ new.name = worker[w].name
    BY <1>1 DEF WorkerType
  <1>3. Done(w) \/ worker' = [worker EXCEPT ![w] = new]
    BY DEF Stall
  <1> HIDE DEF new
  <1>4. CASE worker' = [worker EXCEPT ![w] = new]
    <2>1. worker' \in [Workers -> WorkerType] /\ worker'[w] = new
          /\ \A v \in Workers \ {w} : worker'[v] = worker[v]
      BY <1>1, <1>2, <1>4
    <2>2. Fits(worker'[w])
      BY <1>1, <1>2, <2>1 DEF PlaceInv, Fits
    <2>3. PlaceInv'
      BY <1>1, <2>1, <2>2, OneWorker
    <2>4. \A v \in Workers : worker'[v].at = worker[v].at /\ worker'[v].event = worker[v].event
      BY <1>2, <2>1
    <2> QED
      BY <2>1, <2>3, <2>4
  <1> QED
    BY <1>3, <1>4

\* A worker that goes on to a place of its topic fits.
LEMMA GoesTo ==
    ASSUME Types, NEW w \in Workers, NEW label \in Labels, NEW status \in Statuses,
           GoOn(w, label, status), ~At(w, "idle"),
           label \in {"check", "issue", "mail", "markIssued", "audit"} =>
                Topic[worker[w].event] = "orders/create",
           label = "find" => Topic[worker[w].event] # "orders/create",
           label \in {"fetch", "write"} => Topic[worker[w].event] = "orders/updated",
           label \in {"ship", "notify"} => Topic[worker[w].event] = "fulfillments/create"
    PROVE  PlaceInv' /\ worker' \in [Workers -> WorkerType]
  <1>1. /\ worker' \in [Workers -> WorkerType]
        /\ worker'[w].at = label /\ worker'[w].event = worker[w].event
        /\ worker'[w].name = worker[w].name
        /\ \A v \in Workers \ {w} : worker'[v] = worker[v]
    BY Moves DEF Types
  <1>2. worker[w].event \in Events /\ worker[w].name \in {"main", "email"}
    BY DEF Types, PlaceInv, Fits, At
  <1>3. Fits(worker'[w])
    BY <1>1, <1>2 DEF Fits
  <1> QED
    BY <1>1, <1>3, OneWorker DEF Types

\* The steps of the three jobs keep the types and the places.
LEMMA WorkTypes ==
    ASSUME Types, NEW w \in Workers, Generate(w) \/ Sync(w) \/ Fulfill(w)
    PROVE  TypeOK' /\ PlaceInv'
  <1> DEFINE e == worker[w].event
  <1>0. TypeOK /\ PlaceInv
    BY DEF Types
  <1>1. worker[w] \in WorkerType /\ worker[w].seen \in Statuses
    BY <1>0 DEF TypeOK, WorkerType
  <1>2. /\ ~At(w, "idle") => e \in Events
        /\ At(w, "check") \/ At(w, "issue") \/ At(w, "mail") => Topic[e] = "orders/create"
        /\ At(w, "find") => Topic[e] # "orders/create"
        /\ At(w, "fetch") \/ At(w, "write") => Topic[e] = "orders/updated"
        /\ At(w, "ship") \/ At(w, "notify") => Topic[e] = "fulfillments/create"
    BY <1>0 DEF PlaceInv, Fits, At
  <1>3. "pending" \in Statuses /\ "confirmed" \in Statuses /\ "fulfilled" \in Statuses
    BY DEF Statuses
  <1>4. /\ {"issue", "mail", "markIssued", "fetch", "write", "ship", "notify", "mark"} \subseteq Labels
        /\ Topic \in [Events -> Topics]
    BY TopicAssumption DEF Labels
  <1>5. CASE CheckInvoice(w)
    <2>1. /\ e \in Events /\ Topic[e] = "orders/create" /\ ~At(w, "idle")
          /\ UNCHANGED <<shopify, raised, success, row, queue, failed, order, invoices, mails, notices, faults>>
          /\ skipped' \subseteq skipped \cup {e}
      BY <1>2, <1>5 DEF CheckInvoice, jobs, outside, At, Of
    <2>2. PICK label \in {"mark", "issue"} : GoOn(w, label, "pending")
      BY <1>5 DEF CheckInvoice, jobs, Goto
    <2>3. PlaceInv' /\ worker' \in [Workers -> WorkerType]
      BY <1>3, <1>4, <2>1, <2>2, GoesTo
    <2> QED
      BY <1>0, <2>1, <2>3 DEF TypeOK
  <1>6. CASE IssueInvoice(w)
    <2>1. /\ e \in Events /\ Topic[e] = "orders/create" /\ ~At(w, "idle")
          /\ UNCHANGED <<shopify, raised, success, mails, notices, skipped, faults>>
      BY <1>2, <1>6 DEF IssueInvoice, jobs, outside, At
    <2>2. CASE invoices > 0
      <3>1. Retry(w) /\ UNCHANGED <<order, invoices>>
        BY <1>6, <2>2 DEF IssueInvoice, jobs
      <3>2. Done(w) /\ queue' \subseteq JobType /\ Buried
        BY <1>0, <2>1, <3>1, Retries
      <3>3. PlaceInv' /\ worker' \in [Workers -> WorkerType]
        BY <3>2, Ends
      <3> QED
        BY <1>0, <2>1, <3>1, <3>2, <3>3 DEF TypeOK, Buried
    <2>3. CASE ~(invoices > 0)
      <3>1. /\ invoices' = invoices + 1 /\ order' = [exists |-> TRUE, status |-> "confirmed"]
            /\ GoOn(w, "mail", "pending") /\ UNCHANGED <<row, queue, failed>>
        BY <1>6, <2>3 DEF IssueInvoice, jobs, Goto
      <3>2. PlaceInv' /\ worker' \in [Workers -> WorkerType]
        BY <1>3, <1>4, <2>1, <3>1, GoesTo
      <3> QED
        BY <1>0, <1>3, <2>1, <3>1, <3>2 DEF TypeOK
    <2> QED
      BY <2>2, <2>3
  <1>7. CASE SendInvoiceEmail(w)
    <2>1. /\ Topic[e] = "orders/create" /\ ~At(w, "idle")
          /\ GoOn(w, "markIssued", "pending") /\ mails' = mails + 1
          /\ UNCHANGED <<shopify, raised, success, row, queue, failed, order, invoices, notices, skipped, faults>>
      BY <1>2, <1>7 DEF SendInvoiceEmail, jobs, Goto, outside, At
    <2>2. PlaceInv' /\ worker' \in [Workers -> WorkerType]
      BY <1>3, <1>4, <2>1, GoesTo
    <2> QED
      BY <1>0, <2>1, <2>2 DEF TypeOK
  <1>8. CASE WriteAudit(w) \/ SendShippingEmail(w)
    <2>1. /\ Done(w)
          /\ UNCHANGED <<shopify, raised, success, row, queue, failed, order, invoices, mails, notices,
                         skipped, faults>>
      BY <1>8 DEF WriteAudit, jobs, SendShippingEmail, outside, effects
    <2>2. PlaceInv' /\ worker' \in [Workers -> WorkerType]
      BY <2>1, Ends
    <2> QED
      BY <1>0, <2>1, <2>2 DEF TypeOK
  <1>9. CASE FindOrder(w)
    <2>1. /\ e \in Events /\ Topic[e] # "orders/create" /\ ~At(w, "idle")
          /\ UNCHANGED <<shopify, raised, success, row, queue, failed, order, invoices, mails, notices, faults>>
          /\ skipped' \subseteq skipped \cup {e}
      BY <1>2, <1>9 DEF FindOrder, jobs, outside, At, Of
    <2>2. order.status \in Statuses
      BY <1>0 DEF TypeOK
    <2>3. \/ Topic[e] = "orders/updated" /\ GoOn(w, "fetch", "pending")
          \/ Topic[e] # "orders/updated" /\ GoOn(w, "ship", order.status)
          \/ GoOn(w, "mark", "pending")
      BY <1>9 DEF FindOrder, jobs, Goto, Of
    <2>4. Topic[e] # "orders/updated" => Topic[e] = "fulfillments/create"
      BY <1>4, <2>1 DEF Topics
    <2>5. PlaceInv' /\ worker' \in [Workers -> WorkerType]
      <3>1. CASE Topic[e] = "orders/updated" /\ GoOn(w, "fetch", "pending")
        BY <1>3, <1>4, <2>1, <3>1, GoesTo
      <3>2. CASE Topic[e] # "orders/updated" /\ GoOn(w, "ship", order.status)
        BY <1>4, <2>1, <2>2, <2>4, <3>2, GoesTo
      <3>3. CASE GoOn(w, "mark", "pending")
        BY <1>3, <1>4, <2>1, <3>3, GoesTo
      <3> QED
        BY <2>3, <3>1, <3>2, <3>3
    <2> QED
      BY <1>0, <2>1, <2>5 DEF TypeOK
  <1>10. CASE GetOrder(w)
    <2>1. /\ Topic[e] = "orders/updated" /\ ~At(w, "idle") /\ GoOn(w, "write", shopify)
          /\ UNCHANGED <<shopify, raised, success, row, queue, failed, order, invoices, mails, notices,
                         skipped, faults>>
      BY <1>2, <1>10 DEF GetOrder, jobs, outside, effects, At
    <2>2. shopify \in Statuses
      BY <1>0 DEF TypeOK
    <2>3. PlaceInv' /\ worker' \in [Workers -> WorkerType]
      BY <1>4, <2>1, <2>2, GoesTo
    <2> QED
      BY <1>0, <2>1, <2>3 DEF TypeOK
  <1>11. CASE WriteStatus(w) \/ WriteShipment(w)
    <2>1. /\ ~At(w, "idle")
          /\ UNCHANGED <<shopify, raised, success, row, queue, failed, invoices, mails, notices, skipped, faults>>
          /\ At(w, "ship") \/ GoOn(w, "mark", "pending")
          /\ At(w, "write") \/ (At(w, "ship") /\ GoOn(w, "notify", "pending"))
      BY <1>11 DEF WriteStatus, jobs, WriteShipment, Goto, AfterShip, outside, At
    <2>2. PICK status \in Statuses : order' = [order EXCEPT !.status = status]
      BY <1>1, <1>3, <1>11 DEF WriteStatus, jobs, WriteShipment
    <2>3. order' \in [exists : BOOLEAN, status : Statuses]
      BY <1>0, <2>2 DEF TypeOK
    <2>4. PlaceInv' /\ worker' \in [Workers -> WorkerType]
      <3>1. CASE GoOn(w, "mark", "pending")
        BY <1>3, <1>4, <2>1, <3>1, GoesTo
      <3>2. CASE At(w, "ship") /\ GoOn(w, "notify", "pending")
        BY <1>2, <1>3, <1>4, <2>1, <3>2, GoesTo
      <3> QED
        BY <2>1, <3>1, <3>2 DEF At
    <2> QED
      BY <1>0, <2>1, <2>3, <2>4 DEF TypeOK
  <1>12. CASE QueueEmail(w)
    <2>1. /\ e \in Events /\ ~At(w, "idle") /\ GoOn(w, "mark", "pending")
          /\ queue' = queue \cup {Job(e, "email", 0, 0)}
          /\ notices' = [notices EXCEPT ![e] = @ + 1]
          /\ UNCHANGED <<shopify, raised, success, row, failed, order, invoices, mails, skipped, faults>>
      BY <1>2, <1>12 DEF QueueEmail, Goto, outside, At, Of
    <2>2. Job(e, "email", 0, 0) \in JobType
      BY <2>1, Jobs
    <2>3. PlaceInv' /\ worker' \in [Workers -> WorkerType]
      BY <1>3, <1>4, <2>1, GoesTo
    <2> QED
      BY <1>0, <2>1, <2>2, <2>3 DEF TypeOK
  <1> QED
    BY <1>5, <1>6, <1>7, <1>8, <1>9, <1>10, <1>11, <1>12 DEF Generate, Sync, Fulfill

\* Every step keeps the types and the places.
LEMMA TypesStep == Types /\ [Next]_vars => Types'
  <1> SUFFICES ASSUME Types, [Next]_vars PROVE TypeOK' /\ PlaceInv'
    BY DEF Types
  <1> USE DEF Types
  <1>0. TypeOK /\ PlaceInv
    OBVIOUS
  <1>1. ASSUME NEW e \in Events, Raise(e) PROVE TypeOK' /\ PlaceInv'
    <2>1. UNCHANGED <<row, queue, failed, worker, order, invoices, mails, notices, skipped, faults>>
      BY <1>1 DEF Raise, jobs, effects
    <2>2. shopify' \in Statuses
      BY <1>0, <1>1 DEF Raise, jobs, TypeOK, Statuses
    <2>3. raised' \subseteq Events /\ success' \subseteq raised'
      BY <1>0, <1>1 DEF Raise, jobs, TypeOK
    <2> QED
      BY <1>0, <2>1, <2>2, <2>3 DEF TypeOK, PlaceInv, Fits
  <1>2. ASSUME NEW e \in Events, Ingest(e) PROVE TypeOK' /\ PlaceInv'
    <2>1. Job(e, "main", 0, 0) \in JobType
      BY Jobs
    <2>2. UNCHANGED <<shopify, raised, success, failed, worker, order, invoices, mails, notices, skipped, faults>>
      BY <1>2 DEF Ingest, outside, effects
    <2>3. row' = [row EXCEPT ![e] = "pending"] /\ queue' \subseteq JobType
      BY <1>0, <1>2, <2>1 DEF Ingest, TypeOK
    <2> QED
      BY <1>0, <2>2, <2>3 DEF TypeOK, PlaceInv, Fits
  <1>3. ASSUME NEW e \in Events, FailAdd(e) PROVE TypeOK' /\ PlaceInv'
    <2>1. UNCHANGED <<shopify, raised, success, queue, failed, worker, order, invoices, mails, notices, skipped>>
      BY <1>3 DEF FailAdd, outside, effects
    <2>2. row' = [row EXCEPT ![e] = "pending"] /\ faults' \in 0..MaxFaults
      BY <1>0, <1>3 DEF FailAdd, TypeOK
    <2> QED
      BY <1>0, <2>1, <2>2 DEF TypeOK, PlaceInv, Fits
  <1>4. ASSUME NEW w \in Workers, NEW j \in queue, Take(w, j) PROVE TypeOK' /\ PlaceInv'
    <2> DEFINE k == [at |-> FirstStep(j), event |-> j.event, name |-> j.name,
                     tries |-> j.tries, stalls |-> j.stalls, owner |-> TRUE,
                     seen |-> "pending"]
    <2>1. j \in JobType
      BY <1>0 DEF TypeOK
    <2>2. j.event \in Events /\ j.name \in {"main", "email"} /\ j.tries \in 0..(MaxAttempts - 1)
          /\ j.stalls \in 0..MaxStalls
      BY <1>4, <2>1 DEF JobType, Take
    <2>3. FirstStep(j) \in {"send", "check", "find"}
      BY DEF FirstStep
    <2>4. k \in WorkerType
      BY <2>2, <2>3 DEF WorkerType, Labels, Statuses
    <2>5. Fits(k)
      BY <2>2 DEF Fits, FirstStep
    <2>6. worker' = [worker EXCEPT ![w] = k] /\ queue' \subseteq queue
      BY <1>4 DEF Take
    <2>7. /\ UNCHANGED <<shopify, raised, success, failed, order, invoices, mails, notices, skipped, faults>>
          /\ row' = row \/ row' = [row EXCEPT ![j.event] = "processing"]
      BY <1>4 DEF Take, outside, effects
    <2> HIDE DEF k
    <2>8. worker' \in [Workers -> WorkerType] /\ worker'[w] = k
      BY <1>0, <2>4, <2>6 DEF TypeOK
    <2>9. \A v \in Workers \ {w} : worker'[v] = worker[v]
      BY <1>0, <2>6 DEF TypeOK
    <2>10. PlaceInv'
      BY <1>0, <2>5, <2>8, <2>9, OneWorker
    <2> QED
      BY <1>0, <2>2, <2>6, <2>7, <2>8, <2>10 DEF TypeOK
  <1>5. ASSUME NEW w \in Workers, MarkProcessed(w) PROVE TypeOK' /\ PlaceInv'
    <2>1. worker[w].at \in {"mark", "markIssued"}
      BY <1>5 DEF MarkProcessed
    <2>2. worker[w].event \in Events /\ ~At(w, "idle")
          /\ (At(w, "markIssued") => Topic[worker[w].event] = "orders/create")
      BY <1>0, <2>1 DEF PlaceInv, Fits, At
    <2>3. PlaceInv' /\ worker' \in [Workers -> WorkerType]
      <3>1. CASE At(w, "markIssued")
        <4>1. GoOn(w, "audit", "pending") /\ "audit" \in Labels /\ "pending" \in Statuses
          BY <1>5, <3>1 DEF MarkProcessed, Goto, Labels, Statuses
        <4> QED
          BY <3>1, <2>2, <4>1, GoesTo
      <3>2. CASE ~At(w, "markIssued")
        BY <1>5, <3>2, Ends DEF MarkProcessed
      <3> QED
        BY <3>1, <3>2
    <2>4. /\ UNCHANGED <<shopify, raised, success, queue, failed, order, invoices, mails, notices, skipped, faults>>
          /\ row' = [row EXCEPT ![worker[w].event] = "processed"]
      BY <1>5 DEF MarkProcessed, outside, effects, Of
    <2> QED
      BY <1>0, <2>2, <2>3, <2>4 DEF TypeOK
  <1>6. ASSUME NEW w \in Workers, Fail(w) PROVE TypeOK' /\ PlaceInv'
    <2>1. ~At(w, "idle") /\ Retry(w) /\ faults' \in 0..MaxFaults
      BY <1>0, <1>6 DEF Fail, TypeOK
    <2>2. UNCHANGED <<shopify, raised, success, order, invoices, mails, notices, skipped>>
      BY <1>6 DEF Fail, outside, effects
    <2>3. Done(w) /\ queue' \subseteq JobType /\ Buried
      BY <1>0, <2>1, Retries
    <2>4. PlaceInv' /\ worker' \in [Workers -> WorkerType]
      BY <2>3, Ends
    <2> QED
      BY <1>0, <2>1, <2>2, <2>3, <2>4 DEF TypeOK, Buried
  <1>7. ASSUME NEW w \in Workers, Stall(w) PROVE TypeOK' /\ PlaceInv'
    <2>1. /\ worker[w].event \in Events /\ worker[w].name \in {"main", "email"}
          /\ worker[w].tries \in 0..(MaxAttempts - 1) /\ worker[w].stalls + 1 \in 0..(MaxStalls + 1)
      BY <1>0, <1>7 DEF Stall, PlaceInv, Fits, At, TypeOK, WorkerType
    <2>2. Job(worker[w].event, worker[w].name, worker[w].tries, worker[w].stalls + 1) \in JobType
      BY <2>1, Jobs
    <2>3. queue' \subseteq JobType /\ faults' \in 0..MaxFaults
      BY <1>0, <1>7, <2>2 DEF Stall, TypeOK, Of
    <2>4. UNCHANGED <<shopify, raised, success, row, failed, order, invoices, mails, notices, skipped>>
      BY <1>7 DEF Stall, outside, effects
    <2>5. PlaceInv' /\ worker' \in [Workers -> WorkerType]
      BY <1>7, Stalls, Ends
    <2> QED
      BY <1>0, <2>3, <2>4, <2>5 DEF TypeOK
  <1>8. ASSUME NEW w \in Workers, Generate(w) \/ Sync(w) \/ Fulfill(w) PROVE TypeOK' /\ PlaceInv'
    BY <1>8, WorkTypes
  <1>9. ASSUME UNCHANGED vars PROVE TypeOK' /\ PlaceInv'
    <2>1. UNCHANGED <<shopify, raised, success, row, queue, failed, worker, order, invoices, mails,
                      notices, skipped, faults>>
      BY <1>9 DEF vars, jobs, outside, effects
    <2> QED
      BY <1>0, <2>1 DEF TypeOK, PlaceInv, Fits
  <1>10. ASSUME NEW j \in queue, FailStalled(j) PROVE TypeOK' /\ PlaceInv'
    <2>1. j.event \in Events /\ j.name \in {"main", "email"}
      BY <1>0 DEF TypeOK, JobType
    <2>2. /\ queue' \subseteq queue /\ Bury(j.event, j.name, j.tries + 1)
          /\ UNCHANGED <<shopify, raised, success, worker, order, invoices, mails, notices, skipped, faults>>
      BY <1>10 DEF FailStalled, outside, effects
    <2>3. Buried
      BY <1>0, <2>1, <2>2, Buries
    <2> QED
      BY <1>0, <2>2, <2>3 DEF TypeOK, PlaceInv, Fits, Buried
  <1> QED
    BY <1>1, <1>2, <1>3, <1>4, <1>5, <1>6, <1>7, <1>8, <1>9, <1>10 DEF Next, Work

-----------------------------------------------------------------------------
(* The invoice and its email.                                                *)

\* Only two steps touch invoice, email or the place between them.
LEMMA MailQuiet ==
    ASSUME Types, Next,
           \A w \in Workers : IssueInvoice(w) => invoices > 0,
           \A w \in Workers : ~SendInvoiceEmail(w)
    PROVE  /\ UNCHANGED <<invoices, mails>>
           /\ \A v \in Workers : worker'[v].at = "mail" => worker[v].at = "mail"
  <1>0. TypeOK /\ PlaceInv
    BY DEF Types
  <1>1. ASSUME UNCHANGED <<worker, invoices, mails>>
        PROVE  /\ UNCHANGED <<invoices, mails>>
               /\ \A v \in Workers : worker'[v].at = "mail" => worker[v].at = "mail"
    BY <1>1
  <1>2. ASSUME NEW w \in Workers, Done(w), UNCHANGED <<invoices, mails>>
        PROVE  /\ UNCHANGED <<invoices, mails>>
               /\ \A v \in Workers : worker'[v].at = "mail" => worker[v].at = "mail"
    BY <1>0, <1>2, Moves
  <1>3. ASSUME NEW w \in Workers, NEW label \in Labels \ {"mail"}, NEW status \in Statuses,
               GoOn(w, label, status), UNCHANGED <<invoices, mails>>
        PROVE  /\ UNCHANGED <<invoices, mails>>
               /\ \A v \in Workers : worker'[v].at = "mail" => worker[v].at = "mail"
    BY <1>0, <1>3, Moves
  <1>4. /\ {"issue", "audit", "fetch", "write", "ship", "notify", "mark"} \subseteq Labels \ {"mail"}
        /\ "pending" \in Statuses /\ order.status \in Statuses /\ shopify \in Statuses
    BY <1>0 DEF Labels, Statuses, TypeOK
  <1>5. CASE \E e \in Events : Raise(e) \/ Ingest(e) \/ FailAdd(e)
    BY <1>1, <1>5 DEF Raise, Ingest, FailAdd, effects
  <1>6. ASSUME NEW w \in Workers, Stall(w)
        PROVE  /\ UNCHANGED <<invoices, mails>>
               /\ \A v \in Workers : worker'[v].at = "mail" => worker[v].at = "mail"
    <2>1. UNCHANGED <<invoices, mails>>
      BY <1>6 DEF Stall, effects
    <2> QED
      BY <1>2, <1>6, <2>1, Stalls
  <1>7. CASE \E w \in Workers : Fail(w)
    BY <1>2, <1>7 DEF Fail, Retry, effects
  <1>8. CASE \E w \in Workers : WriteAudit(w) \/ SendShippingEmail(w)
    BY <1>2, <1>8 DEF WriteAudit, SendShippingEmail, effects
  <1>9. CASE \E w \in Workers : IssueInvoice(w)
    BY <1>2, <1>9 DEF IssueInvoice, Retry
  <1>10. CASE \E w \in Workers : MarkProcessed(w)
    BY <1>2, <1>3, <1>4, <1>10 DEF MarkProcessed, Goto, effects
  <1>11. CASE \E w \in Workers : CheckInvoice(w) \/ GetOrder(w) \/ WriteStatus(w)
                                  \/ WriteShipment(w) \/ QueueEmail(w)
    BY <1>3, <1>4, <1>11
       DEF CheckInvoice, GetOrder, WriteStatus, WriteShipment, QueueEmail, AfterShip, Goto, effects
  <1>12. CASE \E w \in Workers : FindOrder(w)
    BY <1>3, <1>4, <1>12 DEF FindOrder, Goto
  <1>13. ASSUME NEW w \in Workers, NEW j \in queue, Take(w, j)
         PROVE  /\ UNCHANGED <<invoices, mails>>
                /\ \A v \in Workers : worker'[v].at = "mail" => worker[v].at = "mail"
    <2> DEFINE k == [at |-> FirstStep(j), event |-> j.event, name |-> j.name,
                     tries |-> j.tries, stalls |-> j.stalls, owner |-> TRUE,
                     seen |-> "pending"]
    <2>1. k.at # "mail"
      BY DEF FirstStep
    <2>2. worker' = [worker EXCEPT ![w] = k] /\ UNCHANGED <<invoices, mails>>
      BY <1>13 DEF Take, effects
    <2> HIDE DEF k
    <2> QED
      BY <1>0, <2>1, <2>2 DEF TypeOK
  <1>14. CASE \E j \in queue : FailStalled(j)
    BY <1>1, <1>14 DEF FailStalled, effects
  <1> QED
    BY <1>5, <1>6, <1>7, <1>8, <1>9, <1>10, <1>11, <1>12, <1>13, <1>14
       DEF Next, Work, Generate, Sync, Fulfill

\* Every step keeps MailInv.
LEMMA MailStep == Types /\ MailInv /\ [Next]_vars => MailInv'
  <1> SUFFICES ASSUME Types, MailInv, [Next]_vars PROVE MailInv'
    OBVIOUS
  <1>0. /\ TypeOK /\ invoices \in Nat /\ mails \in Nat
        /\ "mail" \in Labels /\ "markIssued" \in Labels /\ "pending" \in Statuses
    BY DEF Types, TypeOK, Labels, Statuses
  <1>1. ASSUME NEW w \in Workers, IssueInvoice(w), ~(invoices > 0) PROVE MailInv'
    <2>1. invoices = 0 /\ mails = 0 /\ \A v \in Workers : worker[v].at # "mail"
      BY <1>0, <1>1 DEF MailInv
    <2>2. invoices' = 1 /\ mails' = 0 /\ GoOn(w, "mail", "pending")
      BY <1>1, <2>1 DEF IssueInvoice, Goto
    <2>3. \A v \in Workers \ {w} : worker'[v] = worker[v]
      BY <1>0, <2>2, Moves
    <2> QED
      BY <2>1, <2>2, <2>3 DEF MailInv
  <1>2. ASSUME NEW w \in Workers, SendInvoiceEmail(w) PROVE MailInv'
    <2>1. worker[w].at = "mail" /\ invoices = 1 /\ mails = 0
      BY <1>2 DEF SendInvoiceEmail, At, MailInv
    <2>2. invoices' = 1 /\ mails' = 1 /\ GoOn(w, "markIssued", "pending")
      BY <1>2, <2>1 DEF SendInvoiceEmail, Goto
    <2>3. worker'[w].at = "markIssued" /\ \A v \in Workers \ {w} : worker'[v] = worker[v]
      BY <1>0, <2>2, Moves
    <2>4. \A v \in Workers : worker'[v].at # "mail"
      BY <2>1, <2>3 DEF MailInv
    <2> QED
      BY <2>2, <2>4 DEF MailInv
  <1>3. CASE /\ Next
             /\ \A w \in Workers : IssueInvoice(w) => invoices > 0
             /\ \A w \in Workers : ~SendInvoiceEmail(w)
    <2>1. /\ UNCHANGED <<invoices, mails>>
          /\ \A v \in Workers : worker'[v].at = "mail" => worker[v].at = "mail"
      BY <1>3, MailQuiet
    <2> QED
      BY <2>1 DEF MailInv
  <1>4. CASE UNCHANGED vars
    BY <1>4 DEF MailInv, vars, effects
  <1> QED
    BY <1>1, <1>2, <1>3, <1>4

-----------------------------------------------------------------------------
(* The effect of an event is there before its row says so.                   *)

\* What was done is never undone.
LEMMA EffectStays ==
    ASSUME Types, MailInv, [Next]_vars, NEW e \in Events,
           Effect(e, skipped, invoices, notices)
    PROVE  Effect(e, skipped', invoices', notices')
  <1>0. TypeOK /\ invoices \in Nat
    BY DEF Types, TypeOK
  <1>1. skipped \subseteq skipped'
    BY DEF Next, Work, Generate, Sync, Fulfill, vars, effects, Raise, Ingest, FailAdd, Take,
           MarkProcessed, WriteAudit, Fail, Stall, FailStalled, CheckInvoice, IssueInvoice, SendInvoiceEmail,
           FindOrder, GetOrder, WriteStatus, WriteShipment, QueueEmail, SendShippingEmail
  <1>2. invoices = 1 => invoices' = 1
    BY <1>0 DEF Next, Work, Generate, Sync, Fulfill, vars, effects, Raise, Ingest, FailAdd, Take,
           MarkProcessed, WriteAudit, Fail, Stall, FailStalled, CheckInvoice, IssueInvoice, SendInvoiceEmail,
           FindOrder, GetOrder, WriteStatus, WriteShipment, QueueEmail, SendShippingEmail
  <1>3. UNCHANGED notices \/ \E w \in Workers : notices' = [notices EXCEPT ![Of(w)] = @ + 1]
    BY DEF Next, Work, Generate, Sync, Fulfill, vars, effects, Raise, Ingest, FailAdd, Take,
           MarkProcessed, WriteAudit, Fail, Stall, FailStalled, CheckInvoice, IssueInvoice, SendInvoiceEmail,
           FindOrder, GetOrder, WriteStatus, WriteShipment, QueueEmail, SendShippingEmail
  <1>4. notices[e] > 0 => notices'[e] > 0
    BY <1>0, <1>3 DEF TypeOK
  <1> QED
    BY <1>1, <1>2, <1>4 DEF Effect

\* A step of one worker keeps EffectInv if its own new place is earned and the
\* rows that become processed are.
LEMMA EffectFrame ==
    ASSUME Types, MailInv, EffectInv, [Next]_vars, NEW w \in Workers,
           \A v \in Workers \ {w} : worker'[v] = worker[v],
           worker'[w].at \in AfterEffect =>
                /\ worker'[w].event \in Events
                /\ Effect(worker'[w].event, skipped', invoices', notices'),
           \A e \in Events : row'[e] = "processed" => \/ row[e] = "processed"
                                                       \/ Effect(e, skipped, invoices, notices)
    PROVE  EffectInv'
  <1>1. \A v \in Workers : worker[v].at \in AfterEffect => worker[v].event \in Events
    BY DEF Types, PlaceInv, Fits, AfterEffect
  <1>2. ASSUME NEW v \in Workers, worker'[v].at \in AfterEffect
        PROVE  Effect(worker'[v].event, skipped', invoices', notices')
    <2>1. CASE v = w
      BY <1>2, <2>1
    <2>2. CASE v # w
      <3>1. worker'[v] = worker[v] /\ worker[v].event \in Events
        BY <1>1, <1>2, <2>2
      <3>2. Effect(worker[v].event, skipped, invoices, notices)
        BY <1>2, <3>1 DEF EffectInv
      <3> QED
        BY <3>1, <3>2, EffectStays
    <2> QED
      BY <2>1, <2>2
  <1>3. ASSUME NEW e \in Events, row'[e] = "processed"
        PROVE  Effect(e, skipped', invoices', notices')
    <2>1. Effect(e, skipped, invoices, notices)
      BY <1>3 DEF EffectInv
    <2> QED
      BY <2>1, EffectStays
  <1> QED
    BY <1>2, <1>3 DEF EffectInv, AfterEffect, Effect

\* The same for a step that leaves the workers where they are.
LEMMA EffectIdle ==
    ASSUME Types, MailInv, EffectInv, [Next]_vars,
           \A v \in Workers : worker'[v].at = worker[v].at /\ worker'[v].event = worker[v].event,
           \A e \in Events : row'[e] = "processed" => row[e] = "processed"
    PROVE  EffectInv'
  <1>1. \A v \in Workers : worker[v].at \in AfterEffect => worker[v].event \in Events
    BY DEF Types, PlaceInv, Fits, AfterEffect
  <1>2. ASSUME NEW v \in Workers, worker'[v].at \in AfterEffect
        PROVE  Effect(worker'[v].event, skipped', invoices', notices')
    <2>1. worker'[v].event = worker[v].event /\ worker[v].event \in Events
          /\ worker[v].at \in AfterEffect
      BY <1>1, <1>2
    <2>2. Effect(worker[v].event, skipped, invoices, notices)
      BY <1>2, <2>1 DEF EffectInv
    <2> QED
      BY <2>1, <2>2, EffectStays
  <1>3. ASSUME NEW e \in Events, row'[e] = "processed"
        PROVE  Effect(e, skipped', invoices', notices')
    BY <1>3, EffectStays DEF EffectInv
  <1> QED
    BY <1>2, <1>3 DEF EffectInv, AfterEffect, Effect

\* Every step keeps EffectInv.
LEMMA EffectStep == Types /\ MailInv /\ EffectInv /\ [Next]_vars => EffectInv'
  <1> SUFFICES ASSUME Types, MailInv, EffectInv, [Next]_vars PROVE EffectInv'
    OBVIOUS
  <1>0. TypeOK /\ PlaceInv
    BY DEF Types
  <1>1. /\ Labels \cap AfterEffect = AfterEffect /\ "pending" \in Statuses
        /\ {"issue", "fetch", "write", "ship", "notify", "idle"} \subseteq Labels \ AfterEffect
    BY DEF Labels, AfterEffect, Statuses
  <1>2. ASSUME NEW w \in Workers, Done(w),
               \A e \in Events : row'[e] = "processed" => \/ row[e] = "processed"
                                                           \/ Effect(e, skipped, invoices, notices)
        PROVE  EffectInv'
    <2>1. worker'[w].at \notin AfterEffect /\ \A v \in Workers \ {w} : worker'[v] = worker[v]
      BY <1>0, <1>1, <1>2, Moves
    <2> QED
      BY <1>2, <2>1, EffectFrame
  <1>3. ASSUME NEW w \in Workers, NEW label \in Labels, NEW status \in Statuses,
               GoOn(w, label, status), ~At(w, "idle"),
               label \in AfterEffect => Effect(worker[w].event, skipped', invoices', notices'),
               \A e \in Events : row'[e] = "processed" => \/ row[e] = "processed"
                                                           \/ Effect(e, skipped, invoices, notices)
        PROVE  EffectInv'
    <2>1. /\ worker'[w].at = label /\ worker'[w].event = worker[w].event
          /\ \A v \in Workers \ {w} : worker'[v] = worker[v]
      BY <1>0, <1>3, Moves
    <2>2. worker[w].event \in Events
      BY <1>0, <1>3 DEF PlaceInv, Fits, At
    <2> QED
      BY <1>3, <2>1, <2>2, EffectFrame
  <1>4. ASSUME NEW w \in Workers, worker[w].at \in AfterEffect
        PROVE  Effect(worker[w].event, skipped', invoices', notices')
    <2>1. worker[w].event \in Events /\ Effect(worker[w].event, skipped, invoices, notices)
      BY <1>0, <1>4 DEF EffectInv, PlaceInv, Fits, AfterEffect
    <2> QED
      BY <2>1, EffectStays
  <1>5. ASSUME NEW e \in Events, Raise(e) \/ Ingest(e) \/ FailAdd(e) PROVE EffectInv'
    <2>1. UNCHANGED worker /\ (row' = row \/ row' = [row EXCEPT ![e] = "pending"])
      BY <1>5 DEF Raise, Ingest, FailAdd, jobs
    <2> QED
      BY <1>0, <2>1, EffectIdle DEF TypeOK
  <1>6. ASSUME NEW w \in Workers, NEW j \in queue, Take(w, j) PROVE EffectInv'
    <2> DEFINE k == [at |-> FirstStep(j), event |-> j.event, name |-> j.name,
                     tries |-> j.tries, stalls |-> j.stalls, owner |-> TRUE,
                     seen |-> "pending"]
    <2>1. k.at \notin AfterEffect
      BY DEF FirstStep, AfterEffect
    <2>2. worker' = [worker EXCEPT ![w] = k] /\ (row' = row \/ row' = [row EXCEPT ![j.event] = "processing"])
      BY <1>6 DEF Take
    <2> HIDE DEF k
    <2>3. worker'[w].at \notin AfterEffect /\ \A v \in Workers \ {w} : worker'[v] = worker[v]
      BY <1>0, <2>1, <2>2 DEF TypeOK
    <2>4. \A e \in Events : row'[e] = "processed" => row[e] = "processed"
      BY <1>0, <2>2 DEF TypeOK
    <2> QED
      BY <2>3, <2>4, EffectFrame
  <1>7. ASSUME NEW w \in Workers, MarkProcessed(w) PROVE EffectInv'
    <2>1. worker[w].at \in AfterEffect /\ ~At(w, "idle") /\ row' = [row EXCEPT ![worker[w].event] = "processed"]
      BY <1>7 DEF MarkProcessed, AfterEffect, Of, At
    <2>2. Effect(worker[w].event, skipped, invoices, notices)
      BY <2>1 DEF EffectInv
    <2>3. \A e \in Events : row'[e] = "processed" => \/ row[e] = "processed"
                                                      \/ Effect(e, skipped, invoices, notices)
      BY <1>0, <2>1, <2>2 DEF TypeOK
    <2>4. Done(w) \/ GoOn(w, "audit", "pending")
      BY <1>7 DEF MarkProcessed, Goto
    <2>5. "audit" \in Labels /\ Effect(worker[w].event, skipped', invoices', notices')
      BY <1>4, <2>1 DEF Labels
    <2> QED
      BY <1>1, <1>2, <1>3, <2>1, <2>3, <2>4, <2>5
  <1>8. ASSUME NEW w \in Workers, Fail(w) PROVE EffectInv'
    <2>1. Done(w) /\ \A e \in Events : row'[e] = "processed" => row[e] = "processed"
      BY <1>0, <1>8, Retries DEF Fail, Buried
    <2> QED
      BY <1>2, <2>1
  <1>9. ASSUME NEW w \in Workers, Stall(w) PROVE EffectInv'
    <2>1. UNCHANGED row
      BY <1>9 DEF Stall
    <2>2. CASE Done(w)
      BY <1>2, <2>1, <2>2
    <2>3. CASE \A v \in Workers : worker'[v].at = worker[v].at /\ worker'[v].event = worker[v].event
      BY <2>1, <2>3, EffectIdle
    <2> QED
      BY <1>9, <2>2, <2>3, Stalls
  <1>10. ASSUME NEW w \in Workers, WriteAudit(w) \/ SendShippingEmail(w) PROVE EffectInv'
    BY <1>2, <1>10 DEF WriteAudit, SendShippingEmail, jobs
  <1>11. ASSUME NEW w \in Workers, CheckInvoice(w) PROVE EffectInv'
    <2>1. /\ worker[w].at = "check" /\ ~At(w, "idle") /\ Topic[worker[w].event] = "orders/create"
          /\ UNCHANGED <<row, invoices, notices>>
      BY <1>0, <1>11 DEF CheckInvoice, jobs, At, PlaceInv, Fits
    <2>2. CASE GoOn(w, "mark", "pending") /\ (invoices > 0 \/ worker[w].event \in skipped')
      <3>1. invoices > 0 => invoices = 1
        BY DEF MailInv
      <3>2. Effect(worker[w].event, skipped', invoices', notices')
        BY <2>1, <2>2, <3>1 DEF Effect
      <3>3. "mark" \in Labels
        BY DEF Labels
      <3> QED
        BY <1>1, <1>3, <2>1, <2>2, <3>2, <3>3
    <2>3. CASE GoOn(w, "issue", "pending")
      BY <1>1, <1>3, <2>1, <2>3
    <2> QED
      BY <1>11, <2>2, <2>3 DEF CheckInvoice, Goto, Of
  <1>12. ASSUME NEW w \in Workers, IssueInvoice(w) PROVE EffectInv'
    <2>1. ~At(w, "idle") /\ Topic[worker[w].event] = "orders/create" /\ UNCHANGED notices
      BY <1>0, <1>12 DEF IssueInvoice, At, PlaceInv, Fits
    <2>2. CASE invoices > 0
      <3>1. Done(w) /\ \A e \in Events : row'[e] = "processed" => row[e] = "processed"
        BY <1>0, <1>12, <2>1, <2>2, Retries DEF IssueInvoice, Buried
      <3> QED
        BY <1>2, <3>1
    <2>3. CASE ~(invoices > 0)
      <3>1. invoices' = 1 /\ GoOn(w, "mail", "pending") /\ UNCHANGED row
        BY <1>12, <2>3 DEF IssueInvoice, jobs, Goto, MailInv
      <3>2. Effect(worker[w].event, skipped', invoices', notices') /\ "mail" \in Labels
        BY <2>1, <3>1 DEF Effect, Labels
      <3> QED
        BY <1>1, <1>3, <2>1, <3>1, <3>2
    <2> QED
      BY <2>2, <2>3
  <1>13. ASSUME NEW w \in Workers, SendInvoiceEmail(w) PROVE EffectInv'
    <2>1. worker[w].at \in AfterEffect /\ ~At(w, "idle") /\ UNCHANGED row /\ GoOn(w, "markIssued", "pending")
      BY <1>13 DEF SendInvoiceEmail, jobs, At, AfterEffect, Goto
    <2>2. "markIssued" \in Labels /\ Effect(worker[w].event, skipped', invoices', notices')
      BY <1>4, <2>1 DEF Labels
    <2> QED
      BY <1>1, <1>3, <2>1, <2>2
  <1>14. ASSUME NEW w \in Workers, FindOrder(w) PROVE EffectInv'
    <2>1. ~At(w, "idle") /\ UNCHANGED row
      BY <1>14 DEF FindOrder, jobs, At
    <2>2. \/ GoOn(w, "fetch", "pending")
          \/ GoOn(w, "ship", order.status)
          \/ GoOn(w, "mark", "pending") /\ worker[w].event \in skipped'
      BY <1>14 DEF FindOrder, Goto, Of
    <2>3. worker[w].event \in skipped' => Effect(worker[w].event, skipped', invoices', notices')
      BY DEF Effect
    <2>4. order.status \in Statuses /\ "mark" \in Labels
      BY <1>0 DEF TypeOK, Labels
    <2>5. CASE GoOn(w, "fetch", "pending")
      BY <1>1, <1>3, <2>1, <2>5
    <2>6. CASE GoOn(w, "ship", order.status)
      BY <1>1, <1>3, <2>1, <2>4, <2>6
    <2>7. CASE GoOn(w, "mark", "pending") /\ worker[w].event \in skipped'
      BY <1>1, <1>3, <2>1, <2>3, <2>4, <2>7
    <2> QED
      BY <2>2, <2>5, <2>6, <2>7
  <1>15. ASSUME NEW w \in Workers, GetOrder(w) PROVE EffectInv'
    <2>1. ~At(w, "idle") /\ UNCHANGED row /\ GoOn(w, "write", shopify) /\ shopify \in Statuses
      BY <1>0, <1>15 DEF GetOrder, jobs, At, TypeOK
    <2> QED
      BY <1>1, <1>3, <2>1
  <1>16. ASSUME NEW w \in Workers, WriteStatus(w) PROVE EffectInv'
    <2>1. /\ ~At(w, "idle") /\ UNCHANGED row /\ GoOn(w, "mark", "pending")
          /\ Topic[worker[w].event] = "orders/updated" /\ "mark" \in Labels
      BY <1>0, <1>16 DEF WriteStatus, jobs, At, Goto, PlaceInv, Fits, Labels
    <2>2. Effect(worker[w].event, skipped', invoices', notices')
      BY <2>1 DEF Effect
    <2> QED
      BY <1>1, <1>3, <2>1, <2>2
  <1>17. ASSUME NEW w \in Workers, WriteShipment(w) PROVE EffectInv'
    <2>1. ~At(w, "idle") /\ UNCHANGED row /\ GoOn(w, "notify", "pending")
      BY <1>17 DEF WriteShipment, jobs, At, Goto, AfterShip
    <2> QED
      BY <1>1, <1>3, <2>1
  <1>18. ASSUME NEW w \in Workers, QueueEmail(w) PROVE EffectInv'
    <2>1. /\ worker[w].event \in Events /\ ~At(w, "idle") /\ UNCHANGED row
          /\ GoOn(w, "mark", "pending") /\ "mark" \in Labels
          /\ Topic[worker[w].event] = "fulfillments/create"
          /\ notices' = [notices EXCEPT ![worker[w].event] = notices[worker[w].event] + 1]
      BY <1>0, <1>18 DEF QueueEmail, At, Goto, PlaceInv, Fits, Of, Labels
    <2>2. notices'[worker[w].event] > 0
      BY <1>0, <2>1 DEF TypeOK
    <2>3. Effect(worker[w].event, skipped', invoices', notices')
      BY <2>1, <2>2 DEF Effect
    <2> QED
      BY <1>1, <1>3, <2>1, <2>3
  <1>19. CASE UNCHANGED vars
    BY <1>19, EffectIdle DEF vars, jobs
  <1>20. ASSUME NEW j \in queue, FailStalled(j) PROVE EffectInv'
    <2>1. j.event \in Events /\ j.name \in {"main", "email"}
      BY <1>0 DEF TypeOK, JobType
    <2>2. UNCHANGED worker /\ Bury(j.event, j.name, j.tries + 1)
      BY <1>20 DEF FailStalled
    <2>3. \A e \in Events : row'[e] = "processed" => row[e] = "processed"
      BY <1>0, <2>1, <2>2, Buries DEF Buried
    <2> QED
      BY <2>2, <2>3, EffectIdle
  <1> QED
    BY <1>5, <1>6, <1>7, <1>8, <1>9, <1>10, <1>11, <1>12, <1>13, <1>14, <1>15, <1>16, <1>17,
       <1>18, <1>19, <1>20 DEF Next, Work, Generate, Sync, Fulfill

-----------------------------------------------------------------------------
IInv == Types /\ MailInv /\ EffectInv

\* Invariance of the whole.
LEMMA Invariance == Spec => []IInv
  <1>1. Init => IInv
    BY InitInv DEF IInv
  <1>2. IInv /\ [Next]_vars => IInv'
    BY TypesStep, MailStep, EffectStep DEF IInv
  <1> QED
    BY <1>1, <1>2, PTL DEF Spec

\* Types of events, jobs, workers and the order, for any number of them.
THEOREM EventsTyped == Spec => []TypeOK
  <1>1. IInv => TypeOK
    BY DEF IInv, Types
  <1> QED
    BY <1>1, Invariance, PTL

\* invoice:generate issues and mails at most one invoice, whatever the deliveries,
\* failures and stalled workers.
THEOREM InvoicedAtMostOnce == Spec => []InvoicedOnce
  <1>1. IInv => InvoicedOnce
    BY DEF IInv, MailInv, InvoicedOnce
  <1> QED
    BY <1>1, Invariance, PTL

\* A row says "processed" only after the event had its effect.
THEOREM ProcessedWasDone == Spec => []ProcessedIsDone
  <1>1. IInv => ProcessedIsDone
    BY DEF IInv, EffectInv, Effect, ProcessedIsDone
  <1> QED
    BY <1>1, Invariance, PTL
=============================================================================
