------------------------- MODULE Subscription_proofs -------------------------
(* Proofs about Subscription: a redelivery is inert, a late event is dropped, *)
(* and a suspension is earned, for any number of events and deliveries.       *)
EXTENDS Subscription, FiniteSetTheorems, TLAPS

USE EventAssumption, BoundAssumption

JobType == [at : Labels, count : Nat, late : BOOLEAN]

\* The guard is for subscription events, the update not for failed payments.
KindInv ==
    \A d \in Deliveries : /\ job[d].at = "guard" => Kind[EventOf[d]] \in SubscriptionKinds
                          /\ job[d].at = "update" => Kind[EventOf[d]] # "failed"

\* What was let through is recorded, and what updated the row was let through.
RecordInv ==
    /\ applied \subseteq recorded
    /\ \A d \in Deliveries : Handled(d) => EventOf[d] \in recorded

\* A delivery that was late stays so, and the guard stops it.
LateInv ==
    \A d \in Deliveries : job[d].late => Late(EventOf[d])

\* Strikes are failures nobody forgave; only the first strike is still counted
\* when its TTL is set.
StrikeInv ==
    /\ dunning.strikes \subseteq fresh
    /\ \A d \in Deliveries : /\ job[d].at = "strike" => EventOf[d] \in fresh
                             /\ job[d].at = "expire" => job[d].count = 1

IInv == TypeOK /\ KindInv /\ RecordInv /\ RedeliveryIsInert /\ LateInv /\ LateEventIsDropped /\ StrikeInv

\* A delivery that goes on, and one that ends.
LEMMA Moves ==
    ASSUME TypeOK, NEW d \in Deliveries, NEW label \in Labels
    PROVE  /\ Goto(d, label) => /\ job' \in [Deliveries -> JobType]
                                /\ job'[d].at = label /\ job'[d].count = job[d].count
                                /\ job'[d].late = job[d].late
                                /\ \A c \in Deliveries \ {d} : job'[c] = job[c]
           /\ Finish(d, label) => /\ job' \in [Deliveries -> JobType]
                                  /\ job'[d].at = label /\ ~job'[d].late
                                  /\ \A c \in Deliveries \ {d} : job'[c] = job[c]
  <1>1. job \in [Deliveries -> JobType] /\ job[d] \in JobType
    BY DEF TypeOK, JobType
  <1> DEFINE on  == [job[d] EXCEPT !.at = label]
             end == [Absent EXCEPT !.at = label]
  <1>2. on \in JobType /\ on.at = label /\ on.count = job[d].count /\ on.late = job[d].late
    BY <1>1 DEF JobType
  <1>3. end \in JobType /\ end.at = label /\ ~end.late
    BY DEF JobType, Absent
  <1>4. Goto(d, label) => job' = [job EXCEPT ![d] = on]
    BY DEF Goto
  <1>5. Finish(d, label) => job' = [job EXCEPT ![d] = end]
    BY DEF Finish
  <1> HIDE DEF on, end
  <1> QED
    BY <1>1, <1>2, <1>3, <1>4, <1>5

\* The labels.
LEMMA Places == {"none", "record", "guard", "update", "forgive", "strike", "count", "expire",
                 "suspend", "done", "dropped"} = Labels
  BY DEF Labels

\* What a step of a delivery that is handled does to its job.
LEMMA JobSteps ==
    ASSUME TypeOK, NEW d \in Deliveries, Deliver(d) \/ Handle(d) \/ Crash(d)
    PROVE  /\ job' \in [Deliveries -> JobType]
           /\ \A c \in Deliveries \ {d} : job'[c] = job[c]
  <1>1. job \in [Deliveries -> JobType]
    BY DEF TypeOK, JobType
  <1>2. CASE Deliver(d)
    <2> DEFINE r == [Absent EXCEPT !.at = "record", !.late = Late(EventOf[d])]
    <2>1. r \in JobType
      BY DEF JobType, Absent, Labels, Late
    <2>2. job' = [job EXCEPT ![d] = r]
      BY <1>2 DEF Deliver
    <2> HIDE DEF r
    <2> QED
      BY <1>1, <2>1, <2>2
  <1>3. CASE Count(d) /\ Cardinality(dunning.strikes) = 1
    <2> DEFINE r == [job[d] EXCEPT !.at = "expire", !.count = 1]
    <2>1. r \in JobType
      BY <1>1 DEF JobType, Labels
    <2>2. job' = [job EXCEPT ![d] = r]
      BY <1>3 DEF Count
    <2> HIDE DEF r
    <2> QED
      BY <1>1, <2>1, <2>2
  <1>4. CASE \E label \in Labels : Goto(d, label) \/ Finish(d, label)
    BY <1>4, Moves
  <1>5. CASE Handle(d) /\ ~(Count(d) /\ Cardinality(dunning.strikes) = 1)
    <2>1. \E label \in Labels : Goto(d, label) \/ Finish(d, label)
      BY <1>5, Places DEF Handle, Record, OrderingGuard, Update, Forgive, Strike, Count, Expire,
                          Suspend, AfterCount, FirstStep
    <2> QED
      BY <1>4, <2>1
  <1>6. CASE Crash(d)
    BY <1>4, <1>6, Places DEF Crash
  <1> QED
    BY <1>2, <1>3, <1>5, <1>6

\* The initial states.
LEMMA InitInv == Init => IInv
  <1> SUFFICES ASSUME Init PROVE IInv
    OBVIOUS
  <1>1. Absent \in JobType /\ Absent.at = "none" /\ ~Absent.late
    BY DEF Absent, JobType, Labels
  <1>2. job \in [Deliveries -> JobType] /\ \A d \in Deliveries : job[d].at = "none" /\ ~job[d].late
    BY <1>1 DEF Init
  <1>3. TypeOK
    <2>1. merchant \in [active : BOOLEAN, subscribed : BOOLEAN, customer : BOOLEAN] /\ customer \in BOOLEAN
      BY DEF Init
    <2>2. dunning = [strikes |-> {}, ttl |-> FALSE]
      BY DEF Init
    <2>3. recorded = {} /\ applied = {} /\ fresh = {} /\ request \in [Requests -> Stages]
      BY DEF Init, Stages
    <2> QED
      BY <1>2, <2>1, <2>2, <2>3 DEF TypeOK, JobType
  <1>4. dunning.strikes = {} /\ applied = {}
    BY DEF Init
  <1> QED
    BY <1>2, <1>3, <1>4 DEF IInv, KindInv, RecordInv, RedeliveryIsInert, Handled, LateInv, LateEventIsDropped, StrikeInv

\* Every step keeps the types.
LEMMA TypesStep == TypeOK /\ KindInv /\ [Next]_vars => TypeOK'
  <1> SUFFICES ASSUME TypeOK, KindInv, [Next]_vars PROVE TypeOK'
    OBVIOUS
  <1>1. ASSUME NEW d \in Deliveries, Deliver(d) \/ Handle(d) \/ Crash(d) PROVE TypeOK'
    <2>1. job' \in [Deliveries -> JobType]
      BY <1>1, JobSteps
    <2>2. UNCHANGED <<request, customer>>
      BY <1>1 DEF Deliver, Handle, Crash, Record, OrderingGuard, Update, Forgive, Strike, Count,
                  Expire, Suspend
    <2>3. EventOf[d] \in Events
      OBVIOUS
    <2>4. recorded' \subseteq Events /\ applied' \subseteq Events
      BY <1>1, <2>3 DEF TypeOK, Deliver, Handle, Crash, Record, OrderingGuard, Update, Forgive, Strike,
                        Count, Expire, Suspend, history
    <2>5. fresh' \subseteq Events
      <3>1. Pending \subseteq Events
        BY DEF Pending
      <3> QED
        BY <1>1, <2>3, <3>1 DEF TypeOK, Deliver, Handle, Crash, Record, OrderingGuard, Update, Forgive,
                          Strike, Count, Expire, Suspend, history
    <2>6. /\ dunning' \in [strikes : SUBSET Events, ttl : BOOLEAN]
          /\ dunning'.ttl => dunning'.strikes # {}
      <3>1. \/ UNCHANGED dunning
            \/ dunning' = [strikes |-> {}, ttl |-> FALSE]
            \/ dunning' = [dunning EXCEPT !.strikes = dunning.strikes \cup {EventOf[d]}]
            \/ dunning' = [dunning EXCEPT !.ttl = dunning.strikes # {}]
        BY <1>1 DEF Deliver, Handle, Crash, Record, OrderingGuard, Update, Forgive, Strike,
                    Count, Expire, Suspend
      <3>2. CASE dunning' = [strikes |-> {}, ttl |-> FALSE]
        BY <3>2
      <3>3. CASE dunning' = [dunning EXCEPT !.strikes = dunning.strikes \cup {EventOf[d]}]
        BY <2>3, <3>3 DEF TypeOK
      <3>4. CASE dunning' = [dunning EXCEPT !.ttl = dunning.strikes # {}]
        <4>1. (dunning.strikes # {}) \in BOOLEAN
          OBVIOUS
        <4> QED
          BY <3>4, <4>1 DEF TypeOK
      <3> QED
        BY <3>1, <3>2, <3>3, <3>4 DEF TypeOK
    <2>7. merchant' \in [active : BOOLEAN, subscribed : BOOLEAN, customer : BOOLEAN]
      <3>1. \/ UNCHANGED merchant
            \/ merchant' = Updated(EventOf[d])
            \/ merchant' = [merchant EXCEPT !.active = FALSE]
        BY <1>1 DEF Deliver, Handle, Crash, Record, OrderingGuard, Update, Forgive, Strike,
                    Count, Expire, Suspend
      <3>2. CASE UNCHANGED merchant
        BY <3>2 DEF TypeOK
      <3>3. CASE merchant' = [merchant EXCEPT !.active = FALSE]
        BY <3>3 DEF TypeOK
      <3>4. CASE Update(d) /\ merchant' = Updated(EventOf[d])
        <4>1. Kind[EventOf[d]] \in Kinds /\ Kind[EventOf[d]] # "failed"
          <5>1. job[d].at = "update"
            BY <3>4 DEF Update
          <5> QED
            BY <2>3, <5>1 DEF KindInv
        <4>2. \/ merchant' = [merchant EXCEPT !.subscribed = TRUE, !.active = TRUE]
              \/ merchant' = [merchant EXCEPT !.active = TRUE]
              \/ merchant' = [merchant EXCEPT !.active = FALSE]
          BY <3>4, <4>1 DEF Updated, Kinds, SubscriptionKinds
        <4> QED
          BY <4>2 DEF TypeOK
      <3> QED
        BY <1>1, <3>2, <3>3, <3>4 DEF Deliver, Handle, Crash, Record, OrderingGuard, Update, Forgive,
                    Strike, Count, Expire, Suspend
    <2> QED
      BY <2>1, <2>2, <2>4, <2>5, <2>6, <2>7 DEF TypeOK, JobType
  <1>2. ASSUME NEW r \in Requests, ChangeTier(r) \/ Proceed(r) \/ FailRequest(r) PROVE TypeOK'
    <2>1. UNCHANGED <<dunning, recorded, job, applied, fresh>>
      BY <1>2 DEF ChangeTier, Proceed, FailRequest, CreateCustomer, KeepCustomer, Checkout, history
    <2>2. customer' \in BOOLEAN
      BY <1>2 DEF TypeOK, ChangeTier, Proceed, FailRequest, CreateCustomer, KeepCustomer, Checkout
    <2>3. UNCHANGED merchant \/ merchant' = [merchant EXCEPT !.customer = TRUE]
      BY <1>2 DEF ChangeTier, Proceed, FailRequest, CreateCustomer, KeepCustomer, Checkout
    <2>4. PICK stage \in Stages : request' = [request EXCEPT ![r] = stage]
      BY <1>2 DEF ChangeTier, Proceed, FailRequest, CreateCustomer, KeepCustomer, Checkout, Enter, Stages
    <2> QED
      BY <2>1, <2>2, <2>3, <2>4 DEF TypeOK
  <1>3. CASE SignIn
    BY <1>3 DEF SignIn, TypeOK, history
  <1>4. CASE DunningExpires
    BY <1>4 DEF DunningExpires, TypeOK, history
  <1>5. CASE UNCHANGED vars
    BY <1>5 DEF vars, TypeOK
  <1> QED
    BY <1>1, <1>2, <1>3, <1>4, <1>5 DEF Next

\* The label a delivery has after each step.
LEMMA LabelSteps ==
    ASSUME TypeOK, KindInv, NEW d \in Deliveries, Deliver(d) \/ Handle(d) \/ Crash(d)
    PROVE  LET e == EventOf[d] IN
           /\ job'[d].at = "guard" => Kind[e] \in SubscriptionKinds
           /\ job'[d].at = "update" => Kind[e] # "failed"
           /\ job'[d].at = "strike" => Record(d) /\ e \notin recorded /\ Kind[e] = "failed"
           /\ job'[d].at = "expire" => job'[d].count = 1
           /\ job'[d].at = "suspend" => /\ job[d].at \in {"count", "expire"}
                                        /\ job[d].at = "count" => /\ Count(d)
                                                                 /\ Cardinality(dunning.strikes) >= Threshold
                                        /\ job[d].at = "expire" => job[d].count >= Threshold
           /\ Handled(d)' => Handled(d) \/ (Record(d) /\ e \notin recorded)
           /\ (job'[d].at = "update" /\ Kind[e] \in SubscriptionKinds) =>
                    job[d].at = "guard" /\ ~Superseded(e)
           /\ job'[d].late => job[d].late \/ Late(e)
  <1> DEFINE e == EventOf[d]
  <1>0. job \in [Deliveries -> JobType] /\ e \in Events /\ Kind[e] \in Kinds
    BY DEF TypeOK, JobType
  <1>1. CASE Deliver(d)
    <2> DEFINE r == [Absent EXCEPT !.at = "record", !.late = Late(EventOf[d])]
    <2>1. r.at = "record" /\ r.late = Late(e)
      BY DEF Absent
    <2>2. job' = [job EXCEPT ![d] = r]
      BY <1>1 DEF Deliver
    <2> HIDE DEF r
    <2>3. job'[d].at = "record" /\ job'[d].late = Late(e)
      BY <1>0, <2>1, <2>2
    <2> QED
      BY <2>3 DEF Handled
  <1>2. CASE Record(d)
    <2>1. \/ e \in recorded /\ Finish(d, "dropped")
          \/ e \notin recorded /\ Kind[e] \in SubscriptionKinds /\ Goto(d, "guard")
          \/ e \notin recorded /\ Kind[e] = "failed" /\ Goto(d, "strike")
          \/ e \notin recorded /\ Kind[e] = "paid" /\ Goto(d, "update")
      BY <1>0, <1>2 DEF Record, FirstStep, Kinds, SubscriptionKinds
    <2>2. /\ job'[d].late => job[d].late
          /\ \/ e \in recorded /\ job'[d].at = "dropped"
             \/ e \notin recorded /\ Kind[e] \in SubscriptionKinds /\ job'[d].at = "guard"
             \/ e \notin recorded /\ Kind[e] = "failed" /\ job'[d].at = "strike"
             \/ e \notin recorded /\ Kind[e] = "paid" /\ job'[d].at = "update"
      BY <2>1, Moves, Places
    <2> QED
      BY <1>2, <2>2 DEF Handled, SubscriptionKinds
  <1>3. CASE OrderingGuard(d)
    <2>1. /\ job[d].at = "guard" /\ Kind[e] \in SubscriptionKinds
          /\ Finish(d, "done") \/ (~Superseded(e) /\ Goto(d, "update"))
      <3>1. job[d].at = "guard" /\ (Superseded(e) => Finish(d, "done")) /\ (~Superseded(e) => Goto(d, "update"))
        BY <1>3 DEF OrderingGuard
      <3> QED
        BY <3>1 DEF KindInv
    <2>2. /\ job'[d].late => job[d].late
          /\ job'[d].at = "done" \/ (~Superseded(e) /\ job'[d].at = "update")
      BY <2>1, Moves, Places
    <2> QED
      BY <2>1, <2>2 DEF Handled, SubscriptionKinds
  <1>4. CASE Update(d) \/ Forgive(d) \/ Strike(d) \/ Suspend(d)
    <2>1. /\ Handled(d)
          /\ Finish(d, "done") \/ Goto(d, "forgive") \/ Goto(d, "count")
      BY <1>4 DEF Update, Forgive, Strike, Suspend, Handled
    <2>2. /\ job'[d].late => job[d].late
          /\ job'[d].at \in {"done", "forgive", "count"}
      BY <2>1, Moves, Places
    <2> QED
      BY <2>1, <2>2
  <1>5. CASE Count(d) /\ Cardinality(dunning.strikes) = 1
    <2> DEFINE r == [job[d] EXCEPT !.at = "expire", !.count = 1]
    <2>1. r.at = "expire" /\ r.count = 1 /\ r.late = job[d].late
      BY <1>0 DEF JobType
    <2>2. job' = [job EXCEPT ![d] = r] /\ job[d].at = "count"
      BY <1>5 DEF Count
    <2> HIDE DEF r
    <2>3. job'[d].at = "expire" /\ job'[d].count = 1 /\ job'[d].late = job[d].late
      BY <1>0, <2>1, <2>2
    <2> QED
      BY <2>2, <2>3 DEF Handled
  <1>6. CASE Count(d) /\ Cardinality(dunning.strikes) # 1
    <2>1. /\ job[d].at = "count"
          /\ Finish(d, "done") \/ (Cardinality(dunning.strikes) >= Threshold /\ Goto(d, "suspend"))
      BY <1>6 DEF Count, AfterCount
    <2>2. /\ job'[d].late => job[d].late
          /\ job'[d].at = "done" \/ (Cardinality(dunning.strikes) >= Threshold /\ job'[d].at = "suspend")
      BY <2>1, Moves, Places
    <2> QED
      BY <1>6, <2>1, <2>2 DEF Handled
  <1>7. CASE Expire(d)
    <2>1. /\ job[d].at = "expire"
          /\ Finish(d, "done") \/ (job[d].count >= Threshold /\ Goto(d, "suspend"))
      BY <1>7 DEF Expire, AfterCount
    <2>2. /\ job'[d].late => job[d].late
          /\ job'[d].at = "done" \/ (job[d].count >= Threshold /\ job'[d].at = "suspend")
      BY <2>1, Moves, Places
    <2> QED
      BY <2>1, <2>2 DEF Handled
  <1>8. CASE Crash(d)
    <2>1. Finish(d, "dropped") \/ (Finish(d, "done") /\ job[d].at \in InFlight \ {"record"})
      BY <1>8 DEF Crash
    <2>2. /\ job'[d].late => job[d].late
          /\ job'[d].at = "dropped" \/ (job'[d].at = "done" /\ job[d].at \in InFlight \ {"record"})
      BY <2>1, Moves, Places
    <2> QED
      BY <2>2 DEF Handled, InFlight, Labels
  <1> QED
    BY <1>1, <1>2, <1>3, <1>4, <1>5, <1>6, <1>7, <1>8 DEF Handle

\* Only the deliveries touch jobs and records.
LEMMA OthersQuiet ==
    ASSUME [Next]_vars, ~ \E d \in Deliveries : Deliver(d) \/ Handle(d) \/ Crash(d)
    PROVE  /\ UNCHANGED <<recorded, job, applied, fresh>>
           /\ UNCHANGED dunning \/ dunning' = [strikes |-> {}, ttl |-> FALSE]
  BY DEF Next, ChangeTier, Proceed, FailRequest, CreateCustomer, KeepCustomer, Checkout, SignIn,
         DunningExpires, history, vars

\* What a step of a delivery adds to the records.
LEMMA RecordSteps ==
    ASSUME TypeOK, NEW d \in Deliveries, Deliver(d) \/ Handle(d) \/ Crash(d)
    PROVE  /\ recorded \subseteq recorded' /\ applied \subseteq applied'
           /\ applied' = applied \/ (Handled(d) /\ applied' = applied \cup {EventOf[d]})
           /\ Record(d) => EventOf[d] \in recorded'
  BY DEF Deliver, Handle, Crash, Record, OrderingGuard, Update, Forgive, Strike, Count, Expire,
         Suspend, history, Handled

\* Every step keeps the latch.
LEMMA LatchStep ==
    TypeOK /\ KindInv /\ RecordInv /\ RedeliveryIsInert /\ [Next]_vars
        => KindInv' /\ RecordInv' /\ RedeliveryIsInert'
  <1> SUFFICES ASSUME TypeOK, KindInv, RecordInv, RedeliveryIsInert, [Next]_vars
               PROVE  KindInv' /\ RecordInv' /\ RedeliveryIsInert'
    OBVIOUS
  <1>1. ASSUME NEW d \in Deliveries, Deliver(d) \/ Handle(d) \/ Crash(d)
        PROVE  KindInv' /\ RecordInv' /\ RedeliveryIsInert'
    <2>1. \A c \in Deliveries \ {d} : job'[c] = job[c] /\ (Handled(c)' <=> Handled(c))
      BY <1>1, JobSteps DEF Handled
    <2>2. /\ job'[d].at = "guard" => Kind[EventOf[d]] \in SubscriptionKinds
          /\ job'[d].at = "update" => Kind[EventOf[d]] # "failed"
          /\ Handled(d)' => Handled(d) \/ (Record(d) /\ EventOf[d] \notin recorded)
      BY <1>1, LabelSteps
    <2>3. /\ recorded \subseteq recorded'
          /\ applied' = applied \/ (Handled(d) /\ applied' = applied \cup {EventOf[d]})
          /\ Record(d) => EventOf[d] \in recorded'
      BY <1>1, RecordSteps
    <2>4. KindInv'
      BY <2>1, <2>2 DEF KindInv
    <2>5. applied' \subseteq recorded'
      BY <2>3 DEF RecordInv
    <2>6. \A c \in Deliveries : Handled(c)' => EventOf[c] \in recorded'
      BY <2>1, <2>2, <2>3 DEF RecordInv
    <2>7. ASSUME NEW a \in Deliveries, NEW c \in Deliveries,
                 EventOf[a] = EventOf[c], Handled(a)', Handled(c)'
          PROVE  a = c
      BY <2>1, <2>2, <2>7 DEF RecordInv, RedeliveryIsInert
    <2>8. RedeliveryIsInert'
      BY <2>7 DEF RedeliveryIsInert, Handled
    <2>9. RecordInv'
      BY <2>5, <2>6 DEF RecordInv, Handled
    <2> QED
      BY <2>4, <2>8, <2>9
  <1>2. CASE ~ \E d \in Deliveries : Deliver(d) \/ Handle(d) \/ Crash(d)
    <2>1. UNCHANGED <<recorded, job, applied>>
      BY <1>2, OthersQuiet
    <2> QED
      BY <2>1 DEF KindInv, RecordInv, RedeliveryIsInert, Handled
  <1> QED
    BY <1>1, <1>2

\* Every step keeps what is known of late events.
LEMMA LateStep ==
    TypeOK /\ KindInv /\ RecordInv /\ LateInv /\ LateEventIsDropped /\ [Next]_vars
        => LateInv' /\ LateEventIsDropped'
  <1> SUFFICES ASSUME TypeOK, KindInv, RecordInv, LateInv, LateEventIsDropped, [Next]_vars
               PROVE  LateInv' /\ LateEventIsDropped'
    OBVIOUS
  <1>1. ASSUME NEW e \in Events, Late(e) PROVE Superseded(e)
    <2>1. PICK n \in applied : Subject[n] = Subject[e] /\ At[n] > At[e]
      BY <1>1 DEF Late
    <2>2. n \in recorded /\ n \in Events
      BY <2>1 DEF RecordInv, TypeOK
    <2>3. n # e
      BY <2>1, <2>2
    <2> QED
      BY <2>1, <2>2, <2>3 DEF Superseded
  <1>2. ASSUME NEW d \in Deliveries, Deliver(d) \/ Handle(d) \/ Crash(d)
        PROVE  LateInv' /\ LateEventIsDropped'
    <2>1. \A c \in Deliveries \ {d} : job'[c] = job[c]
      BY <1>2, JobSteps
    <2>2. /\ (job'[d].at = "update" /\ Kind[EventOf[d]] \in SubscriptionKinds) =>
                    job[d].at = "guard" /\ ~Superseded(EventOf[d])
          /\ job'[d].late => job[d].late \/ Late(EventOf[d])
      BY <1>2, LabelSteps
    <2>3. applied \subseteq applied'
      BY <1>2, RecordSteps
    <2>4. \A e \in Events : Late(e) => Late(e)'
      BY <2>3 DEF Late
    <2>5. job'[d].late => Late(EventOf[d])
      BY <2>2 DEF LateInv
    <2>6. ASSUME NEW c \in Deliveries, job'[c].late PROVE Late(EventOf[c])'
      BY <2>1, <2>4, <2>5, <2>6 DEF LateInv
    <2>7. LateInv'
      BY <2>6 DEF LateInv, Late
    <2>8. (job'[d].at = "update" /\ Kind[EventOf[d]] \in SubscriptionKinds) => ~job'[d].late
      BY <1>1, <2>2, <2>5
    <2>9. LateEventIsDropped'
      BY <2>1, <2>8 DEF LateEventIsDropped
    <2> QED
      BY <2>7, <2>9
  <1>3. CASE ~ \E d \in Deliveries : Deliver(d) \/ Handle(d) \/ Crash(d)
    <2>1. UNCHANGED <<job, applied>>
      BY <1>3, OthersQuiet
    <2> QED
      BY <2>1 DEF LateInv, LateEventIsDropped, Late
  <1> QED
    BY <1>2, <1>3

\* Every step keeps the account of the strikes.
LEMMA StrikeStep == TypeOK /\ KindInv /\ StrikeInv /\ [Next]_vars => StrikeInv'
  <1> SUFFICES ASSUME TypeOK, KindInv, StrikeInv, [Next]_vars PROVE StrikeInv'
    OBVIOUS
  <1>1. ASSUME NEW d \in Deliveries, Deliver(d) \/ Handle(d) \/ Crash(d) PROVE StrikeInv'
    <2>1. \A c \in Deliveries \ {d} : job'[c] = job[c]
      BY <1>1, JobSteps
    <2>2. /\ job'[d].at = "strike" => Record(d) /\ EventOf[d] \notin recorded /\ Kind[EventOf[d]] = "failed"
          /\ job'[d].at = "expire" => job'[d].count = 1
      BY <1>1, LabelSteps
    <2>3. CASE Forgive(d)
      <3>1. /\ dunning' = [strikes |-> {}, ttl |-> FALSE] /\ fresh' = Pending
            /\ job[d].at = "forgive"
        BY <2>3 DEF Forgive
      <3>2. ~Record(d)
        BY <3>1 DEF Record
      <3>3. \A c \in Deliveries : job'[c].at = "strike" => EventOf[c] \in Pending
        BY <2>1, <2>2, <3>2 DEF Pending
      <3> QED
        BY <2>1, <2>2, <3>1, <3>3 DEF StrikeInv
    <2>4. CASE ~Forgive(d)
      <3>1. fresh \subseteq fresh' /\ (Record(d) /\ EventOf[d] \notin recorded
                                          /\ Kind[EventOf[d]] = "failed" => EventOf[d] \in fresh')
        BY <1>1, <2>4 DEF Deliver, Handle, Crash, Record, OrderingGuard, Update, Strike, Count, Expire,
                          Suspend, history
      <3>2. \/ UNCHANGED dunning
            \/ /\ job[d].at = "strike"
               /\ dunning' = [dunning EXCEPT !.strikes = dunning.strikes \cup {EventOf[d]}]
            \/ dunning' = [dunning EXCEPT !.ttl = dunning.strikes # {}]
        BY <1>1, <2>4 DEF Deliver, Handle, Crash, Record, OrderingGuard, Update, Strike, Count, Expire,
                          Suspend
      <3>3. dunning'.strikes \subseteq dunning.strikes \cup
                 (IF job[d].at = "strike" THEN {EventOf[d]} ELSE {})
        BY <3>2 DEF TypeOK
      <3>4. dunning'.strikes \subseteq fresh'
        BY <3>1, <3>3 DEF StrikeInv
      <3>5. \A c \in Deliveries : job'[c].at = "strike" => EventOf[c] \in fresh'
        BY <2>1, <2>2, <3>1 DEF StrikeInv
      <3> QED
        BY <2>1, <2>2, <3>4, <3>5 DEF StrikeInv
    <2> QED
      BY <2>3, <2>4
  <1>2. CASE ~ \E d \in Deliveries : Deliver(d) \/ Handle(d) \/ Crash(d)
    <2>1. UNCHANGED <<job, fresh>> /\ (UNCHANGED dunning \/ dunning'.strikes = {})
      BY <1>2, OthersQuiet
    <2> QED
      BY <2>1 DEF StrikeInv
  <1> QED
    BY <1>1, <1>2

-----------------------------------------------------------------------------
\* Invariance of the whole.
LEMMA Invariance == Spec => []IInv
  <1>1. IInv /\ [Next]_vars => IInv'
    BY TypesStep, LatchStep, LateStep, StrikeStep DEF IInv
  <1> QED
    BY <1>1, InitInv, PTL DEF Spec

\* Types of the row, the dunning set and the deliveries, for any number of them.
THEOREM SubscriptionTyped == Spec => []TypeOK
  <1>1. IInv => TypeOK
    BY DEF IInv
  <1> QED
    BY <1>1, Invariance, PTL

\* One delivery of an event gets past the unique index, whatever overlaps or dies.
THEOREM RedeliveriesInert == Spec => []RedeliveryIsInert
  <1>1. IInv => RedeliveryIsInert
    BY DEF IInv
  <1> QED
    BY <1>1, Invariance, PTL

\* An event that comes after a newer one took effect never updates the merchant.
THEOREM LateEventsDropped == Spec => []LateEventIsDropped
  <1>1. IInv => LateEventIsDropped
    BY DEF IInv
  <1> QED
    BY <1>1, Invariance, PTL

\* A suspension rests on Threshold failures that no payment forgave, for every
\* threshold above one.
THEOREM SuspensionsEarned == Spec => SuspensionIsEarned
  <1>1. ASSUME IInv, [Next]_vars, NEW d \in Deliveries,
               job'[d].at = "suspend", job[d].at # "suspend"
        PROVE  Cardinality(fresh) >= Threshold
    <2>1. PICK c \in Deliveries : Deliver(c) \/ Handle(c) \/ Crash(c)
      BY <1>1, OthersQuiet
    <2>2. c = d
      BY <1>1, <2>1, JobSteps DEF IInv
    <2>3. /\ job[d].at \in {"count", "expire"}
          /\ job[d].at = "count" => Cardinality(dunning.strikes) >= Threshold
          /\ job[d].at = "expire" => job[d].count >= Threshold
      BY <1>1, <2>1, <2>2, LabelSteps DEF IInv
    <2>4. job[d].at # "expire"
      BY <1>1, <2>3 DEF IInv, StrikeInv
    <2>5. dunning.strikes \subseteq fresh /\ fresh \subseteq Events
      BY <1>1 DEF IInv, StrikeInv, TypeOK
    <2>6. IsFiniteSet(fresh)
      BY <2>5, FS_Subset
    <2>7. /\ Cardinality(dunning.strikes) <= Cardinality(fresh)
          /\ Cardinality(dunning.strikes) \in Nat /\ Cardinality(fresh) \in Nat
      BY <2>5, <2>6, FS_Subset, FS_CardinalityType
    <2> QED
      BY <2>3, <2>4, <2>7
  <1>2. IInv /\ [Next]_vars =>
            [\A d \in Deliveries :
                (job'[d].at = "suspend" /\ job[d].at # "suspend") => Cardinality(fresh) >= Threshold]_vars
    BY <1>1
  <1> QED
    BY <1>2, Invariance, PTL DEF Spec, SuspensionIsEarned
=============================================================================
