----------------------- MODULE OrderPlacement_proofs ------------------------
(* Proofs about OrderPlacement: the reservation's checks stay true until its *)
(* update, and credit_used stays the sum of the reservations held, for any   *)
(* number of requests and any limits.                                        *)
EXTENDS OrderPlacement, FiniteSetTheorems, TLAPS

USE AmountAssumption, InvoicedAssumption, LimitAssumption, RetryAssumption

\* The lock is held by exactly the requests inside the reservation
\* transaction, and what they checked is still true of the row.
LockInv ==
    /\ \A r \in Requests : r \in sharers <=> pc[r] = "locked"
    /\ CheckedUnderLock

Unreserved == {"idle", "priced", "locked"}
Reserved   == {"reserved", "checked", "drafted", "cleanup", "completed",
               "persisted", "releasing", "done"}

\* A request holds nothing before its reservation; afterwards it holds it until
\* it has failed, crashed or been paid; and an order that Shopify holds keeps
\* it even through a crash, until it is paid or its request has failed.
HeldInv ==
    \A r \in Requests :
        /\ pc[r] \in Unreserved => r \notin held
        /\ pc[r] \in Reserved => r \in held \cup settled
        /\ shop[r] = "order" =>
              /\ pc[r] \notin Unreserved \cup {"reserved", "checked", "drafted"}
              /\ pc[r] # "failed" => r \in held \cup settled
        /\ r \in settled => shop[r] = "order"

Service(r) == Submit(r) \/ Step(r) \/ Crash(r)

\* Charging and giving back keep the row well typed and never go negative.
LEMMA RowArithmetic ==
    ASSUME rel \in Row, NEW amt \in Nat
    PROVE  /\ Charge(rel, amt) \in Row
           /\ GiveBack(rel, amt) \in Row
           /\ Charge(rel, amt).used = rel.used + amt
           /\ GiveBack(rel, amt).used <= rel.used
           /\ \A row \in {Charge(rel, amt), GiveBack(rel, amt)} :
                 row.status = rel.status /\ row.limit = rel.limit
  <1> DEFINE row(u, v) == [rel EXCEPT !.used = u, !.version = v]
             more == rel.used + amt
             less == IF rel.used >= amt THEN rel.used - amt ELSE 0
             next == rel.version + 1
  <1>1. \A u, v \in Nat :
            /\ row(u, v) \in Row /\ row(u, v).used = u
            /\ row(u, v).status = rel.status /\ row(u, v).limit = rel.limit
    BY DEF Row
  <1>2. rel.used \in Nat /\ next \in Nat /\ more \in Nat
    BY DEF Row
  <1>3. less \in Nat /\ less <= rel.used
    BY <1>2
  <1>4. Charge(rel, amt) = row(more, next) /\ GiveBack(rel, amt) = row(less, next)
    BY DEF Charge, GiveBack
  <1> HIDE DEF row, more, less, next
  <1>5. /\ row(more, next) \in Row /\ row(more, next).used = more
        /\ row(more, next).status = rel.status /\ row(more, next).limit = rel.limit
    BY <1>1, <1>2
  <1>6. /\ row(less, next) \in Row /\ row(less, next).used = less
        /\ row(less, next).status = rel.status /\ row(less, next).limit = rel.limit
    BY <1>1, <1>2, <1>3
  <1> QED
    BY <1>3, <1>4, <1>5, <1>6 DEF more

\* The initial state satisfies all three.
LEMMA InitInv == Init => TypeOK /\ LockInv /\ HeldInv
  BY DEF Init, TypeOK, LockInv, CheckedUnderLock, HeldInv, Row, Statuses, Reserved

\* Every action keeps the types.
THEOREM TypeCorrect == Spec => []TypeOK
  <1> USE DEF TypeOK, InFlight, Answered
  <1>1. Init => TypeOK
    BY InitInv
  <1>2. TypeOK /\ [Next]_vars => TypeOK'
    <2> SUFFICES ASSUME TypeOK, [Next]_vars PROVE TypeOK'
      OBVIOUS
    <2>1. ASSUME NEW r \in Requests, Submit(r) PROVE TypeOK'
      BY <2>1 DEF Submit, Goto
    <2>2. ASSUME NEW r \in Requests, ReadForShare(r) PROVE TypeOK'
      BY <2>2 DEF ReadForShare, Goto, Row
    <2>3. ASSUME NEW r \in Requests, Reserve(r) PROVE TypeOK'
      <3>1. rel' \in Row
        BY <2>3, RowArithmetic DEF Reserve
      <3> QED
        BY <3>1, <2>3 DEF Reserve, Goto
    <2>4. ASSUME NEW r \in Requests, DeadlockVictim(r) PROVE TypeOK'
      BY <2>4 DEF DeadlockVictim, Goto
    <2>5. ASSUME NEW r \in Requests, EnforceMinimumOrder(r) PROVE TypeOK'
      BY <2>5 DEF EnforceMinimumOrder, Goto
    <2>6. ASSUME NEW r \in Requests, CreateDraftOrder(r) PROVE TypeOK'
      BY <2>6 DEF CreateDraftOrder, Goto
    <2>7. ASSUME NEW r \in Requests, CompleteDraftOrder(r) PROVE TypeOK'
      BY <2>7 DEF CompleteDraftOrder, Goto
    <2>8. ASSUME NEW r \in Requests, DeleteDraft(r) PROVE TypeOK'
      BY <2>8 DEF DeleteDraft, Goto
    <2>9. ASSUME NEW r \in Requests, PersistOrder(r) PROVE TypeOK'
      BY <2>9 DEF PersistOrder, Goto
    <2>10. ASSUME NEW r \in Requests, ApplyCodeToOrder(r) PROVE TypeOK'
      BY <2>10 DEF ApplyCodeToOrder, Goto
    <2>11. ASSUME NEW r \in Requests, ReleaseCredit(r) PROVE TypeOK'
      <3>1. rel' \in Row
        BY <2>11, RowArithmetic DEF ReleaseCredit
      <3> QED
        BY <3>1, <2>11 DEF ReleaseCredit, Goto
    <2>12. ASSUME NEW r \in Requests, Crash(r) PROVE TypeOK'
      BY <2>12 DEF Crash, Goto
    <2>13. ASSUME NEW r \in Requests, CollectInvoice(r) PROVE TypeOK'
      <3>1. rel' \in Row
        BY <2>13, RowArithmetic DEF CollectInvoice
      <3> QED
        BY <3>1, <2>13 DEF CollectInvoice
    <2>14. ASSUME Merchant PROVE TypeOK'
      BY <2>14 DEF Merchant, SuspendBuyer, ReinstateBuyer, UpdateBuyer,
                   ApproveApplication, Row, Statuses
    <2>15. CASE UNCHANGED vars
      BY <2>15 DEF vars
    <2> QED
      BY <2>1, <2>2, <2>3, <2>4, <2>5, <2>6, <2>7, <2>8, <2>9, <2>10, <2>11,
         <2>12, <2>13, <2>14, <2>15 DEF Next, Step
  <1> QED
    BY <1>1, <1>2, PTL DEF Spec

\* What the type of the credit row says of the row itself.
LEMMA RelTyped == TypeOK => rel \in Row /\ rel.used \in Nat
  BY DEF TypeOK, Row

\* A step of one service request moves only that request in and out of the
\* lock, and changes the row only when no other request holds it.
LEMMA ServiceStep ==
    ASSUME TypeOK, LockInv, NEW r \in Requests, Service(r)
    PROVE  /\ \A q \in Requests \ {r} :
                 /\ q \in sharers' <=> q \in sharers
                 /\ pc'[q] = pc[q] /\ snap'[q] = snap[q]
                 /\ q \in held' <=> q \in held
           /\ settled' = settled
           /\ r \in sharers' <=> pc'[r] = "locked"
           /\ rel' = rel \/ sharers' = {}
  <1> USE DEF TypeOK, LockInv, Goto
  <1>1. CASE Submit(r)         BY <1>1 DEF Submit
  <1>2. CASE ReadForShare(r)   BY <1>2 DEF ReadForShare
  <1>3. CASE Reserve(r)        BY <1>3 DEF Reserve, RowFree
  <1>4. CASE DeadlockVictim(r) BY <1>4 DEF DeadlockVictim
  <1>5. CASE EnforceMinimumOrder(r) BY <1>5 DEF EnforceMinimumOrder
  <1>6. CASE CreateDraftOrder(r)    BY <1>6 DEF CreateDraftOrder
  <1>7. CASE CompleteDraftOrder(r)  BY <1>7 DEF CompleteDraftOrder
  <1>8. CASE DeleteDraft(r)      BY <1>8 DEF DeleteDraft
  <1>9. CASE PersistOrder(r)     BY <1>9 DEF PersistOrder
  <1>10. CASE ApplyCodeToOrder(r) BY <1>10 DEF ApplyCodeToOrder
  <1>11. CASE ReleaseCredit(r)   BY <1>11 DEF ReleaseCredit, RowFree
  <1>12. CASE Crash(r)           BY <1>12 DEF Crash, InFlight
  <1> QED
    BY <1>1, <1>2, <1>3, <1>4, <1>5, <1>6, <1>7, <1>8, <1>9, <1>10, <1>11,
       <1>12 DEF Service, Step

\* Anybody else changes the row only while no request holds it FOR SHARE.
LEMMA OutsideStep ==
    ASSUME TypeOK, Merchant \/ \E r \in Requests : CollectInvoice(r)
    PROVE  /\ sharers = {} /\ sharers' = {}
           /\ pc' = pc
           /\ \A r \in Requests : r \notin settled' /\ r \in held => r \in held'
           /\ settled \subseteq settled'
  BY DEF TypeOK, Merchant, SuspendBuyer, ReinstateBuyer, UpdateBuyer,
         ApproveApplication, CollectInvoice, RowFree

\* The lock discipline is inductive.
LEMMA LockInvariant == Spec => []LockInv
  <1>1. Init => LockInv
    BY InitInv
  <1>2. TypeOK /\ LockInv /\ [Next]_vars => LockInv'
    <2> SUFFICES ASSUME TypeOK, LockInv, [Next]_vars PROVE LockInv'
      OBVIOUS
    <2>1. ASSUME NEW r \in Requests, Service(r) PROVE LockInv'
      <3>1. \A q \in Requests : q \in sharers' <=> pc'[q] = "locked"
        BY <2>1, ServiceStep DEF LockInv
      <3>2. ASSUME NEW q \in sharers'
            PROVE  /\ snap'[q] = rel'.version /\ rel'.status = "approved"
                   /\ Affordable(rel', Amount[q])
        <4>1. q \in Requests /\ rel' = rel
          BY <2>1, <3>2, <3>1, ServiceStep DEF TypeOK, LockInv, Service, Step,
             Submit, ReadForShare, Reserve, DeadlockVictim, EnforceMinimumOrder,
             CreateDraftOrder, CompleteDraftOrder, DeleteDraft, PersistOrder,
             ApplyCodeToOrder, ReleaseCredit, Crash
        <4>2. CASE q # r
          BY <4>1, <4>2, <2>1, <3>2, ServiceStep DEF LockInv, CheckedUnderLock
        <4>3. CASE q = r
          <5>1. pc'[r] = "locked"
            BY <3>1, <3>2, <4>3, <4>1
          <5>2. ReadForShare(r)
            BY <5>1, <2>1 DEF TypeOK, Service, Step, Goto,
             Submit, Reserve, DeadlockVictim, EnforceMinimumOrder,
             CreateDraftOrder, CompleteDraftOrder, DeleteDraft, PersistOrder,
             ApplyCodeToOrder, ReleaseCredit, Crash
          <5> QED
            BY <5>1, <5>2, <4>1, <4>3 DEF ReadForShare, Goto, TypeOK
        <4> QED
          BY <4>2, <4>3
      <3> QED
        BY <3>1, <3>2 DEF LockInv, CheckedUnderLock
    <2>2. ASSUME Merchant \/ \E r \in Requests : CollectInvoice(r) PROVE LockInv'
      BY <2>2, OutsideStep DEF LockInv, CheckedUnderLock
    <2>3. CASE UNCHANGED vars
      BY <2>3 DEF vars, LockInv, CheckedUnderLock, Affordable
    <2> QED
      BY <2>1, <2>2, <2>3 DEF Next, Service
  <1> QED
    BY <1>1, <1>2, TypeCorrect, PTL DEF Spec

\* What a reservation checked under FOR SHARE is true until its update.
THEOREM ChecksStayTrue == Spec => []CheckedUnderLock
  <1>1. LockInv => CheckedUnderLock
    BY DEF LockInv
  <1> QED
    BY <1>1, LockInvariant, PTL

\* Where the reservations are is inductive.
LEMMA HeldInvariant == Spec => []HeldInv
  <1> USE DEF Unreserved, Reserved
  <1>1. Init => HeldInv
    BY InitInv
  <1>2. TypeOK /\ LockInv /\ HeldInv /\ [Next]_vars => HeldInv'
    <2> SUFFICES ASSUME TypeOK, LockInv, HeldInv, [Next]_vars PROVE HeldInv'
      OBVIOUS
    <2>1. ASSUME NEW r \in Requests, Service(r) PROVE HeldInv'
      <3> DEFINE Placed(q) ==
                   /\ pc[q] \in Unreserved => q \notin held
                   /\ pc[q] \in Reserved => q \in held \cup settled
                   /\ shop[q] = "order" =>
                         /\ pc[q] \notin Unreserved \cup {"reserved", "checked", "drafted"}
                         /\ pc[q] # "failed" => q \in held \cup settled
                   /\ q \in settled => shop[q] = "order"
      <3>1. ASSUME NEW q \in Requests \ {r} PROVE Placed(q)'
        <4>1. pc'[q] = pc[q] /\ settled' = settled /\ (q \in held' <=> q \in held)
          BY <2>1, ServiceStep
        <4>2. shop'[q] = shop[q]
          BY <2>1 DEF TypeOK, Service, Step, Submit, ReadForShare, Reserve,
             DeadlockVictim, EnforceMinimumOrder, CreateDraftOrder,
             CompleteDraftOrder, DeleteDraft, PersistOrder, ApplyCodeToOrder,
             ReleaseCredit, Crash
        <4>3. Placed(q)
          BY DEF HeldInv
        <4> QED
          BY <4>1, <4>2, <4>3
      <3>2. Placed(r)'
        <4>1. Placed(r)
          BY DEF HeldInv
        <4> USE <4>1 DEF TypeOK, Goto
        <4>2. CASE Submit(r)               BY <4>2 DEF Submit
        <4>3. CASE ReadForShare(r)         BY <4>3 DEF ReadForShare
        <4>4. CASE Reserve(r)              BY <4>4 DEF Reserve
        <4>5. CASE DeadlockVictim(r)       BY <4>5 DEF DeadlockVictim
        <4>6. CASE EnforceMinimumOrder(r)  BY <4>6 DEF EnforceMinimumOrder
        <4>7. CASE CreateDraftOrder(r)     BY <4>7 DEF CreateDraftOrder
        <4>8. CASE CompleteDraftOrder(r)   BY <4>8 DEF CompleteDraftOrder
        <4>9. CASE DeleteDraft(r)          BY <4>9 DEF DeleteDraft
        <4>10. CASE PersistOrder(r)        BY <4>10 DEF PersistOrder
        <4>11. CASE ApplyCodeToOrder(r)    BY <4>11 DEF ApplyCodeToOrder
        <4>12. CASE ReleaseCredit(r)       BY <4>12 DEF ReleaseCredit
        <4>13. CASE Crash(r)               BY <4>13 DEF Crash, InFlight
        <4> QED
          BY <2>1, <4>2, <4>3, <4>4, <4>5, <4>6, <4>7, <4>8, <4>9, <4>10,
             <4>11, <4>12, <4>13 DEF Service, Step
      <3> QED
        BY <3>1, <3>2 DEF HeldInv
    <2>2. ASSUME NEW r \in Requests, CollectInvoice(r) PROVE HeldInv'
      BY <2>2 DEF HeldInv, CollectInvoice
    <2>3. CASE Merchant
      BY <2>3 DEF HeldInv, Merchant, SuspendBuyer, ReinstateBuyer, UpdateBuyer,
         ApproveApplication
    <2>4. CASE UNCHANGED vars
      BY <2>4 DEF vars, HeldInv
    <2> QED
      BY <2>1, <2>2, <2>3, <2>4 DEF Next, Service
  <1> QED
    BY <1>1, <1>2, TypeCorrect, LockInvariant, PTL DEF Spec

\* An accepted order keeps its reservation until its invoice is collected.
THEOREM AcceptedOrdersHold == Spec => []AcceptedOrderHeld
  <1>1. HeldInv => AcceptedOrderHeld
    BY DEF HeldInv, AcceptedOrderHeld, Reserved
  <1> QED
    BY <1>1, HeldInvariant, PTL

\* While the reservation's own transaction, the lookup of the tier and the
\* compensating update do not fail, only an order below the tier minimum is
\* rejected with its credit held.
FailureReleases ==
    Faults \cap {"reserve", "tier", "release"} = {} =>
        \A r \in Requests : pc[r] = "failed" /\ r \in held => Amount[r] < MinOrder

\* The promise of orders.service.ts:284, where it is kept: a failure at Shopify,
\* of the local order or of the code, with any other request racing or dying,
\* gives the credit back.
THEOREM FailuresReleaseCredit == Spec => []FailureReleases
  <1>1. Init => FailureReleases
    BY DEF Init, FailureReleases
  <1>2. TypeOK /\ LockInv /\ HeldInv /\ FailureReleases /\ [Next]_vars => FailureReleases'
    <2> SUFFICES ASSUME TypeOK, LockInv, HeldInv, FailureReleases, [Next]_vars
                 PROVE  FailureReleases'
      OBVIOUS
    <2>1. ASSUME NEW r \in Requests, Service(r) PROVE FailureReleases'
      <3>1. ASSUME pc'[r] = "failed", r \in held'
            PROVE  \/ Amount[r] < MinOrder
                   \/ Faults \cap {"reserve", "tier", "release"} # {}
        <4>1. CASE EnforceMinimumOrder(r)
          BY <3>1, <4>1, AmountAssumption, MinAssumption
          DEF TypeOK, EnforceMinimumOrder, Goto
        <4>2. CASE ReleaseCredit(r)
          BY <3>1, <4>2 DEF TypeOK, ReleaseCredit
        <4>3. CASE "reserve" \in Faults
          BY <4>3
        <4>4. CASE "reserve" \notin Faults /\ ~ EnforceMinimumOrder(r) /\ ~ ReleaseCredit(r)
          <5>1. pc[r] \in Unreserved /\ held' = held
            BY <2>1, <3>1, <4>4 DEF TypeOK, Goto, Service, Step, Submit, ReadForShare,
               Reserve, DeadlockVictim, CreateDraftOrder, CompleteDraftOrder,
               DeleteDraft, PersistOrder, ApplyCodeToOrder, Crash, Unreserved
          <5> QED
            BY <3>1, <5>1 DEF HeldInv
        <4> QED
          BY <4>1, <4>2, <4>3, <4>4
      <3>2. \A q \in Requests \ {r} : pc'[q] = pc[q] /\ (q \in held' <=> q \in held)
        BY <2>1, ServiceStep
      <3> QED
        BY <3>1, <3>2 DEF FailureReleases
    <2>2. ASSUME NEW r \in Requests, CollectInvoice(r) PROVE FailureReleases'
      BY <2>2 DEF FailureReleases, CollectInvoice
    <2>3. CASE Merchant
      BY <2>3 DEF FailureReleases, Merchant, SuspendBuyer, ReinstateBuyer, UpdateBuyer,
         ApproveApplication
    <2>4. CASE UNCHANGED vars
      BY <2>4 DEF vars, FailureReleases
    <2> QED
      BY <2>1, <2>2, <2>3, <2>4 DEF Next, Service
  <1> QED
    BY <1>1, <1>2, TypeCorrect, LockInvariant, HeldInvariant, PTL DEF Spec

-----------------------------------------------------------------------------
(* The account that the service implements.                                *)

\* What a mapped step of one request does not touch.
LEMMA DroppedKept ==
    ASSUME TypeOK, NEW r \in Requests, held' = held, settled' = settled,
           \A q \in Requests \ {r} : pc'[q] = pc[q] /\ shop'[q] = shop[q],
           r \notin Dropped, r \notin Dropped'
    PROVE  Dropped' = Dropped
  BY DEF Dropped

\* A reservation is a legal charge of the account, at the moment of its update.
LEMMA ReserveMaps ==
    ASSUME TypeOK, LockInv, HeldInv, NEW r \in Requests, Reserve(r),
           rel' = Charge(rel, Amount[r]), held' = held \cup {r}
    PROVE  Account!Reserve(r)
  <1>1. /\ r \in sharers /\ pc[r] = "locked" /\ r \in held'
        /\ \A q \in Requests \ {r} : pc'[q] = pc[q]
        /\ shop' = shop /\ settled' = settled
    BY DEF TypeOK, LockInv, CheckedUnderLock, Reserve, Goto
  <1>2. r \notin held /\ r \notin settled /\ r \notin Dropped
    BY <1>1 DEF HeldInv, Unreserved, Dropped
  <1>3. rel.status = "approved" /\ Affordable(rel, Amount[r])
    BY <1>1 DEF LockInv, CheckedUnderLock
  <1>4. /\ rel'.used = rel.used + Amount[r]
        /\ rel'.status = rel.status /\ rel'.limit = rel.limit
    BY RowArithmetic, RelTyped
  <1>5. Dropped' = Dropped
    BY <1>1, <1>2 DEF Dropped
  <1> QED
    BY <1>1, <1>2, <1>3, <1>4, <1>5 DEF Account!Reserve, Affordable

\* A release cancels an open order, or gives a paid one back a second time;
\* a release that fails is no step of the account.
LEMMA ReleaseMaps ==
    ASSUME TypeOK, LockInv, HeldInv, NEW r \in Requests, ReleaseCredit(r)
    PROVE  \/ Account!Cancel(r) \/ Account!CancelPaid(r)
           \/ UNCHANGED Account!vars
  <1>1. /\ pc[r] = "releasing" /\ pc'[r] = "failed"
        /\ \A q \in Requests \ {r} : pc'[q] = pc[q]
        /\ shop' = shop /\ settled' = settled
        /\ r \in held \cup settled /\ r \notin Dropped
    BY DEF TypeOK, ReleaseCredit, Goto, HeldInv, Reserved, Dropped
  <1>2. CASE rel' = rel /\ held' = held
    <2>1. Dropped' = Dropped
      BY <1>1, <1>2 DEF Dropped
    <2> QED
      BY <1>1, <1>2, <2>1 DEF Account!vars
  <1>3. CASE rel' = GiveBack(rel, Amount[r]) /\ held' = held \ {r}
    <2>1. /\ rel'.used = IF rel.used >= Amount[r] THEN rel.used - Amount[r] ELSE 0
          /\ rel'.status = rel.status /\ rel'.limit = rel.limit
      BY <1>3 DEF TypeOK, Row, GiveBack
    <2>2. CASE r \in settled
      <3>1. Dropped' = Dropped
        BY <1>1, <1>3, <2>2 DEF Dropped
      <3> QED
        BY <1>1, <1>3, <2>1, <2>2, <3>1 DEF Account!CancelPaid, Account!GiveBack
    <2>3. CASE r \notin settled
      <3>1. Dropped' \in {Dropped, Dropped \cup {r}}
        BY <1>1, <1>3, <2>3 DEF Dropped
      <3> QED
        BY <1>1, <1>3, <2>1, <2>3, <3>1 DEF Account!Cancel, Account!GiveBack
    <2> QED
      BY <2>2, <2>3
  <1> QED
    BY <1>2, <1>3 DEF ReleaseCredit

\* A collected invoice settles an order that is open or was dropped.
LEMMA CollectionMaps ==
    ASSUME TypeOK, HeldInv, NEW r \in Requests, CollectInvoice(r)
    PROVE  Account!Settle(r)
  <1>1. /\ shop[r] = "order" /\ r \notin settled
        /\ pc' = pc /\ shop' = shop /\ settled' = settled \cup {r}
        /\ held' = held \ {r}
    BY DEF CollectInvoice
  <1>2. r \in held \cup Dropped
    BY <1>1 DEF HeldInv, Dropped
  <1>3. Dropped' = Dropped \ {r}
    BY <1>1 DEF Dropped
  <1>4. /\ rel'.used = IF rel.used >= Invoiced[r] THEN rel.used - Invoiced[r] ELSE 0
        /\ rel'.status = rel.status /\ rel'.limit = rel.limit
    BY DEF TypeOK, Row, CollectInvoice, GiveBack
  <1> QED
    BY <1>1, <1>2, <1>3, <1>4 DEF Account!Settle, Account!GiveBack

\* Every other step of a request is invisible to the account.
LEMMA QuietMaps ==
    ASSUME TypeOK, HeldInv, NEW r \in Requests, Service(r),
           ~ ReleaseCredit(r), rel' = rel, held' = held
    PROVE  UNCHANGED Account!vars
  <1>1. /\ settled' = settled
        /\ \A q \in Requests \ {r} : pc'[q] = pc[q] /\ shop'[q] = shop[q]
    BY DEF TypeOK, Goto, Service, Step, Submit, ReadForShare, Reserve,
       DeadlockVictim, EnforceMinimumOrder, CreateDraftOrder, CompleteDraftOrder,
       DeleteDraft, PersistOrder, ApplyCodeToOrder, Crash
  <1>2. r \notin Dropped /\ r \notin Dropped'
    <2>1. pc[r] # "failed"
      BY DEF Service, Step, Submit, ReadForShare, Reserve, DeadlockVictim,
         EnforceMinimumOrder, CreateDraftOrder, CompleteDraftOrder, DeleteDraft,
         PersistOrder, ApplyCodeToOrder, ReleaseCredit, Crash, InFlight
    <2>2. pc'[r] = "failed" =>
             pc[r] \in Unreserved \cup {"reserved"} /\ shop' = shop
      BY DEF TypeOK, Goto, Service, Step, Submit, ReadForShare, Reserve,
         DeadlockVictim, EnforceMinimumOrder, CreateDraftOrder, CompleteDraftOrder,
         DeleteDraft, PersistOrder, ApplyCodeToOrder, Crash, Unreserved
    <2> QED
      BY <2>1, <2>2 DEF HeldInv, Dropped
  <1>3. Dropped' = Dropped
    BY <1>1, <1>2, DroppedKept
  <1> QED
    BY <1>1, <1>3 DEF Account!vars

\* Every step of the service is a step of the account, or none.
LEMMA AccountStep ==
    ASSUME TypeOK, LockInv, HeldInv, [Next]_vars
    PROVE  [Account!Next]_Account!vars
  <1>1. ASSUME NEW r \in Requests, Service(r) PROVE [Account!Next]_Account!vars
    <2>1. CASE ReleaseCredit(r)
      BY <2>1, ReleaseMaps DEF Account!Next
    <2>2. CASE rel' = Charge(rel, Amount[r]) /\ held' = held \cup {r} /\ Reserve(r)
      BY <2>2, ReserveMaps DEF Account!Next
    <2>3. CASE rel' = rel /\ held' = held /\ ~ ReleaseCredit(r)
      BY <1>1, <2>3, QuietMaps
    <2> QED
      BY <1>1, <2>1, <2>2, <2>3 DEF Service, Step, Submit, ReadForShare, Reserve,
         DeadlockVictim, EnforceMinimumOrder, CreateDraftOrder,
         CompleteDraftOrder, DeleteDraft, PersistOrder, ApplyCodeToOrder, Crash
  <1>2. ASSUME NEW r \in Requests, CollectInvoice(r) PROVE [Account!Next]_Account!vars
    BY <1>2, CollectionMaps DEF Account!Next
  <1>3. ASSUME Merchant PROVE [Account!Next]_Account!vars
    <2>1. /\ rel'.status \in {"approved", "suspended"} /\ rel'.limit \in Limits
          /\ rel'.used = rel.used /\ held' = held /\ settled' = settled
      BY <1>3 DEF TypeOK, Row, Statuses, Merchant, SuspendBuyer, ReinstateBuyer,
         UpdateBuyer, ApproveApplication
    <2>2. Dropped' = Dropped
      BY <1>3 DEF Dropped, Merchant, SuspendBuyer, ReinstateBuyer, UpdateBuyer,
         ApproveApplication
    <2> QED
      BY <2>1, <2>2 DEF Account!Next, Account!ChangeTerms
  <1>4. ASSUME UNCHANGED vars PROVE [Account!Next]_Account!vars
    BY <1>4 DEF vars, Account!vars, Dropped
  <1> QED
    BY <1>1, <1>2, <1>3, <1>4 DEF Next, Service

\* The reservation protocol, its failures included, implements an account that
\* checks and charges in one step.
THEOREM AccountImplemented == Spec => AtomicAccount
  <1>1. Init => Account!Init
    BY DEF Init, Account!Init, Dropped
  <1>2. TypeOK /\ LockInv /\ HeldInv /\ [Next]_vars => [Account!Next]_Account!vars
    BY AccountStep
  <1> QED
    BY <1>1, <1>2, TypeCorrect, LockInvariant, HeldInvariant, PTL
       DEF Spec, AtomicAccount, Account!Spec

\* credit_used only rises for an approved buyer, within the limit in force.
THEOREM ChargesAreLegal == Spec => Account!ChargedWithinLimit
  <1> DEFINE Legal == rel'.used > rel.used =>
                        /\ rel.status = "approved" /\ rel'.status = "approved"
                        /\ rel'.limit = NoLimit \/ rel'.used <= rel'.limit
  <1>1. TypeOK /\ LockInv /\ [Next]_vars => Legal
    <2> SUFFICES ASSUME TypeOK, LockInv, [Next]_vars PROVE Legal
      OBVIOUS
    <2>1. ASSUME NEW r \in Requests, Reserve(r) PROVE Legal
      <3>1. CASE rel' = rel
        BY <3>1, RelTyped DEF Row
      <3>2. CASE rel' = Charge(rel, Amount[r])
        <4>1. /\ rel.status = "approved" /\ Affordable(rel, Amount[r])
              /\ Amount[r] \in Nat
          BY <2>1 DEF Reserve, LockInv, CheckedUnderLock
        <4>2. /\ rel'.used = rel.used + Amount[r]
              /\ rel'.status = rel.status /\ rel'.limit = rel.limit
          BY <3>2, <4>1, RowArithmetic, RelTyped
        <4> QED
          BY <4>1, <4>2 DEF Affordable
      <3> QED
        BY <2>1, <3>1, <3>2 DEF Reserve
    <2>2. ASSUME NEW r \in Requests, ReleaseCredit(r) \/ CollectInvoice(r) PROVE Legal
      <3>1. \/ rel' = rel \/ rel' = GiveBack(rel, Amount[r])
            \/ rel' = GiveBack(rel, Invoiced[r])
        BY <2>2 DEF ReleaseCredit, CollectInvoice
      <3>2. Amount[r] \in Nat /\ Invoiced[r] \in Nat
        OBVIOUS
      <3>3. rel' \in Row /\ (rel'.used <= rel.used \/ rel' = rel)
        BY <3>1, <3>2, RowArithmetic, RelTyped
      <3>4. rel'.used \in Nat /\ rel.used \in Nat
        BY <3>3, RelTyped DEF Row
      <3> QED
        BY <3>3, <3>4
    <2>3. CASE rel'.used = rel.used
      BY <2>3, RelTyped DEF Row
    <2>4. CASE Merchant
      BY <2>3, <2>4, RelTyped DEF Merchant, SuspendBuyer, ReinstateBuyer, UpdateBuyer,
         ApproveApplication, Row
    <2> QED
      BY <2>1, <2>2, <2>3, <2>4 DEF Next, Step, vars, Submit, ReadForShare,
         DeadlockVictim, EnforceMinimumOrder, CreateDraftOrder,
         CompleteDraftOrder, DeleteDraft, PersistOrder, ApplyCodeToOrder, Crash
  <1>2. TypeOK /\ LockInv /\ [Next]_vars => [Account!LegalCharge]_Account!vars
    BY <1>1 DEF Account!LegalCharge
  <1> QED
    BY <1>2, TypeCorrect, LockInvariant, PTL DEF Spec, Account!ChargedWithinLimit

-----------------------------------------------------------------------------
(* The sum of the reservations.                                            *)

\* One reservation adds as many units as its amount.
LEMMA CreditWith ==
    ASSUME NEW S \in SUBSET Requests, NEW r \in Requests \ S, IsFiniteSet(Units(S))
    PROVE  /\ IsFiniteSet(Units(S \cup {r}))
           /\ CreditOf(S \cup {r}) = CreditOf(S) + Amount[r]
           /\ CreditOf(S) \in Nat
  <1> DEFINE mine == {r} \X (1..Amount[r])
  <1>1. Amount[r] \in Nat /\ Amount[r] > 0
    OBVIOUS
  <1>2. IsFiniteSet(mine) /\ Cardinality(mine) = Amount[r]
    <2>1. IsFiniteSet({r}) /\ Cardinality({r}) = 1
      BY FS_Singleton
    <2>2. IsFiniteSet(1..Amount[r]) /\ Cardinality(1..Amount[r]) = Amount[r]
      BY <1>1, FS_Interval
    <2>3. IsFiniteSet(mine) /\ Cardinality(mine) = 1 * Amount[r]
      BY <2>1, <2>2, FS_Product
    <2> QED
      BY <1>1, <2>3
  <1>3. Units(S \cup {r}) = Units(S) \cup mine
    BY DEF Units
  <1>4. Units(S) \cap mine = {}
    BY DEF Units
  <1> HIDE DEF mine
  <1>5. Cardinality(Units(S)) \in Nat
    BY FS_CardinalityType
  <1>6. /\ IsFiniteSet(Units(S) \cup mine)
        /\ Cardinality(Units(S) \cup mine)
              = Cardinality(Units(S)) + Cardinality(mine) - Cardinality({})
    BY <1>2, <1>4, FS_Union
  <1>7. Cardinality({}) = 0
    BY FS_EmptySet
  <1>8. /\ CreditOf(S \cup {r}) = Cardinality(Units(S) \cup mine)
        /\ CreditOf(S) = Cardinality(Units(S))
    BY <1>3 DEF CreditOf
  <1>9. IsFiniteSet(Units(S \cup {r}))
    BY <1>3, <1>6
  <1>10. Cardinality(Units(S) \cup mine) = Cardinality(Units(S)) + Amount[r]
    BY <1>1, <1>2, <1>5, <1>6, <1>7
  <1> QED
    BY <1>5, <1>8, <1>9, <1>10

\* Giving one back takes as many away, and there were at least so many.
LEMMA CreditWithout ==
    ASSUME NEW S \in SUBSET Requests, NEW r \in S, IsFiniteSet(Units(S))
    PROVE  /\ IsFiniteSet(Units(S \ {r}))
           /\ CreditOf(S \ {r}) = CreditOf(S) - Amount[r]
           /\ CreditOf(S) \in Nat /\ CreditOf(S) >= Amount[r]
  <1> DEFINE rest == S \ {r}
  <1>1. rest \in SUBSET Requests /\ r \in Requests \ rest /\ S = rest \cup {r}
    OBVIOUS
  <1>2. Units(rest) \subseteq Units(S)
    BY DEF Units
  <1>3. IsFiniteSet(Units(rest))
    BY <1>2, FS_Subset
  <1> HIDE DEF rest
  <1>4. CreditOf(S) = CreditOf(rest) + Amount[r] /\ CreditOf(rest) \in Nat
    BY <1>1, <1>3, CreditWith
  <1>5. Amount[r] \in Nat
    BY <1>1
  <1> QED
    BY <1>3, <1>4, <1>5 DEF rest

\* The reservations held are finitely many, and they are what is used.
CreditInv == IsFiniteSet(Units(held)) /\ CreditConserved

\* A service request charges what it begins to hold and gives back what it
\* stops holding; a request that fails after its order was paid is the case
\* that CleanCollections leaves out.
LEMMA ServiceConserves ==
    ASSUME TypeOK, LockInv, HeldInv, CreditInv, NEW r \in Requests, Service(r)
    PROVE  CreditInv'
  <1>1. held \in SUBSET Requests /\ Amount[r] \in Nat /\ rel.used \in Nat
    BY RelTyped DEF TypeOK
  <1>2. settled' = settled /\ \A q \in Requests : pc[q] = "failed" => pc'[q] = "failed"
    <2>1. settled' = settled
      BY ServiceStep
    <2>2. \A q \in Requests \ {r} : pc'[q] = pc[q]
      BY ServiceStep
    <2>3. pc[r] # "failed"
      BY DEF Service, Step, Submit, ReadForShare, Reserve, DeadlockVictim,
         EnforceMinimumOrder, CreateDraftOrder, CompleteDraftOrder, DeleteDraft,
         PersistOrder, ApplyCodeToOrder, ReleaseCredit, Crash, InFlight
    <2> QED
      BY <2>1, <2>2, <2>3
  <1>3. CleanCollections' => CleanCollections
    BY <1>2 DEF CleanCollections, TypeOK
  <1>4. CASE rel'.used = rel.used /\ held' = held
    BY <1>3, <1>4 DEF CreditInv, CreditConserved
  <1>5. CASE Reserve(r) /\ rel' = Charge(rel, Amount[r]) /\ held' = held \cup {r}
    <2>1. r \notin held
      BY <1>5 DEF HeldInv, Reserve, Unreserved
    <2>2. /\ IsFiniteSet(Units(held'))
          /\ CreditOf(held') = CreditOf(held) + Amount[r]
      BY <1>1, <1>5, <2>1, CreditWith DEF CreditInv
    <2>3. rel'.used = rel.used + Amount[r]
      BY <1>1, <1>5, RowArithmetic, RelTyped
    <2> QED
      BY <1>3, <2>2, <2>3 DEF CreditInv, CreditConserved
  <1>6. CASE /\ ReleaseCredit(r) /\ rel' = GiveBack(rel, Amount[r])
             /\ held' = held \ {r}
    <2>1. pc[r] = "releasing" /\ pc'[r] = "failed"
      BY <1>6 DEF ReleaseCredit, Goto, TypeOK
    <2>2. CASE r \in settled
      <3>1. ~ CleanCollections'
        BY <1>2, <2>1, <2>2 DEF CleanCollections
      <3>2. IsFiniteSet(Units(held'))
        <4>1. Units(held') \subseteq Units(held)
          BY <1>6 DEF Units
        <4> QED
          BY <4>1, FS_Subset DEF CreditInv
      <3> QED
        BY <3>1, <3>2 DEF CreditInv, CreditConserved
    <2>3. CASE r \notin settled
      <3>1. r \in held
        BY <2>1, <2>3 DEF HeldInv, Reserved
      <3>2. /\ IsFiniteSet(Units(held'))
            /\ CreditOf(held') = CreditOf(held) - Amount[r]
            /\ CreditOf(held) >= Amount[r]
        BY <1>1, <1>6, <3>1, CreditWithout DEF CreditInv
      <3>3. rel'.used = IF rel.used >= Amount[r] THEN rel.used - Amount[r] ELSE 0
        BY <1>6 DEF GiveBack, TypeOK, Row
      <3> QED
        BY <1>3, <3>2, <3>3 DEF CreditInv, CreditConserved
    <2> QED
      BY <2>2, <2>3
  <1> QED
    BY <1>4, <1>5, <1>6 DEF Service, Step, Submit, ReadForShare, Reserve,
       DeadlockVictim, EnforceMinimumOrder, CreateDraftOrder,
       CompleteDraftOrder, DeleteDraft, PersistOrder, ApplyCodeToOrder,
       ReleaseCredit, Crash

\* A collected invoice gives back what its order held: as long as collections
\* are clean, the order was held and its total is the amount reserved.
LEMMA CollectionConserves ==
    ASSUME TypeOK, HeldInv, CreditInv, NEW r \in Requests, CollectInvoice(r)
    PROVE  CreditInv'
  <1>1. /\ held \in SUBSET Requests /\ Amount[r] \in Nat /\ rel.used \in Nat
        /\ settled' = settled \cup {r} /\ pc' = pc /\ held' = held \ {r}
        /\ rel'.used = IF rel.used >= Invoiced[r] THEN rel.used - Invoiced[r] ELSE 0
    BY RelTyped DEF TypeOK, CollectInvoice, GiveBack, Row
  <1>2. IsFiniteSet(Units(held'))
    <2>1. Units(held') \subseteq Units(held)
      BY <1>1 DEF Units
    <2> QED
      BY <2>1, FS_Subset DEF CreditInv
  <1>3. ASSUME CleanCollections' PROVE rel'.used = CreditOf(held')
    <2>1. CleanCollections /\ pc[r] # "failed" /\ Invoiced[r] = Amount[r]
      BY <1>1, <1>3 DEF CleanCollections
    <2>2. r \in held
      BY <2>1 DEF CollectInvoice, HeldInv
    <2>3. CreditOf(held') = CreditOf(held) - Amount[r] /\ CreditOf(held) >= Amount[r]
      BY <1>1, <2>2, CreditWithout DEF CreditInv
    <2> QED
      BY <1>1, <2>1, <2>3 DEF CreditInv, CreditConserved
  <1> QED
    BY <1>2, <1>3 DEF CreditInv, CreditConserved

\* credit_used is exactly the sum of the reservations not given back.
THEOREM CreditIsConserved == Spec => []CreditConserved
  <1>1. Init => CreditInv
    <2> SUFFICES ASSUME Init PROVE CreditInv
      OBVIOUS
    <2>1. rel.used = 0 /\ Units(held) = {}
      BY DEF Init, Units
    <2> QED
      BY <2>1, FS_EmptySet DEF CreditInv, CreditConserved, CreditOf
  <1>2. TypeOK /\ LockInv /\ HeldInv /\ CreditInv /\ [Next]_vars => CreditInv'
    <2> SUFFICES ASSUME TypeOK, LockInv, HeldInv, CreditInv, [Next]_vars
                 PROVE  CreditInv'
      OBVIOUS
    <2>1. CASE \E r \in Requests : Service(r)
      BY <2>1, ServiceConserves
    <2>2. CASE \E r \in Requests : CollectInvoice(r)
      BY <2>2, CollectionConserves
    <2>3. CASE rel'.used = rel.used /\ UNCHANGED <<pc, settled, held>>
      BY <2>3 DEF CreditInv, CreditConserved, CleanCollections
    <2>4. CASE Merchant
      BY <2>3, <2>4 DEF TypeOK, Row, Merchant, SuspendBuyer, ReinstateBuyer,
         UpdateBuyer, ApproveApplication
    <2>5. CASE UNCHANGED vars
      BY <2>3, <2>5 DEF vars
    <2> QED
      BY <2>1, <2>2, <2>4, <2>5 DEF Next, Service
  <1>3. CreditInv => CreditConserved
    BY DEF CreditInv
  <1> QED
    BY <1>1, <1>2, <1>3, TypeCorrect, LockInvariant, HeldInvariant, PTL DEF Spec
=============================================================================
