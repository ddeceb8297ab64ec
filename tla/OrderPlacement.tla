--------------------------- MODULE OrderPlacement ---------------------------
(***************************************************************************)
(* createBulkOrder (apps/api/src/orders/orders.service.ts): a buyer's      *)
(* wholesale order is placed by a saga over three stores, the credit       *)
(* columns of one merchant_buyer_relationships row, the merchant's         *)
(* Shopify shop and the local orders table.  The requests below all        *)
(* belong to the same buyer and merchant, so they compete for one row;     *)
(* the merchant changes that row at the same time (buyers.service.ts), and *)
(* a collected payment gives credit back (invoices.service.ts).            *)
(*                                                                         *)
(* Each step of a request is one transaction, one external call or one     *)
(* early return of the handler; requests interleave between the steps and  *)
(* the process may crash between any two of them.  The only transaction    *)
(* that spans two steps is the reservation, which reads the row under      *)
(* FOR SHARE and then updates it: its row lock is the variable sharers.    *)
(***************************************************************************)
EXTENDS Integers, FiniteSets

CONSTANTS
    Requests,       \* order requests (each one HTTP call of createBulkOrder)
    Amount,         \* Amount[r]: the server-priced, discounted subtotal of r
    Invoiced,       \* Invoiced[r]: the total Shopify computes for r's order, tax,
                    \* shipping and undiscounted prices included
    MinOrder,       \* minOrderAmount of the buyer's pricing tier
    Limits,         \* credit limits the merchant may set, NoLimit included
    NoLimit,        \* credit_limit IS NULL
    CodeUsers,      \* the requests that carry the discount code
    MaxUses,        \* maxUses of that code
    CasRetries,     \* CREDIT_CAS_RETRIES
    Faults          \* the failures that may happen, see FaultKinds

\* reserve: the reservation's transaction fails, before its commit or with the
\* answer to it lost; tier: the lookup of the tier minimum fails; draft,
\* complete: the Shopify call fails and had no effect; ambiguous: it took effect
\* but the caller sees a failure; persist: like reserve, for the order; apply:
\* the use of the code is not counted; release: the compensating credit update
\* fails and is swallowed; crash: the process dies with the request in flight.
FaultKinds == {"reserve", "tier", "draft", "complete", "ambiguous", "persist",
               "apply", "release", "crash"}

ASSUME AmountAssumption == Amount \in [Requests -> Nat \ {0}]
ASSUME InvoicedAssumption == Invoiced \in [Requests -> Nat \ {0}]
ASSUME LimitAssumption  == NoLimit \notin Nat /\ Limits \subseteq Nat \cup {NoLimit}
ASSUME CodeAssumption   == CodeUsers \subseteq Requests /\ MaxUses \in Nat
ASSUME MinAssumption    == MinOrder \in Nat
ASSUME RetryAssumption  == CasRetries \in Nat \ {0}
ASSUME FaultAssumption  == Faults \subseteq FaultKinds

VARIABLES
    rel,        \* the relationship row: approval status, limit, used, version
    sharers,    \* requests whose open transaction holds the row FOR SHARE
    pc,         \* where each request is in createBulkOrder
    snap,       \* snap[r]: credit_version read under the lock
    attempt,    \* attempt[r]: turns of the reservation loop already missed
    shop,       \* shop[r]: what Shopify holds for r
    order,      \* requests with a row in the local orders table
    uses,       \* used_count of the discount code
    settled,    \* orders whose invoice was collected in full
    held        \* history: reservations added to credit_used, not given back

vars == <<rel, sharers, pc, snap, attempt, shop, order, uses, settled, held>>

Statuses == {"approved", "suspended"}
Row      == [status: Statuses, limit: Limits, used: Nat, version: Nat]

InFlight == {"priced", "locked", "reserved", "checked", "drafted", "cleanup",
             "completed", "persisted", "releasing"}
Answered == {"done", "failed", "crashed"}

Init ==
    /\ \E l \in Limits :
          rel = [status |-> "approved", limit |-> l, used |-> 0, version |-> 0]
    /\ sharers = {}
    /\ pc = [r \in Requests |-> "idle"]
    /\ snap = [r \in Requests |-> 0]
    /\ attempt = [r \in Requests |-> 0]
    /\ shop = [r \in Requests |-> "none"]
    /\ order = {}
    /\ uses = 0
    /\ settled = {}
    /\ held = {}

-----------------------------------------------------------------------------
(* The credit row.                                                         *)

\* Mutant: the relationship is read without FOR SHARE.
NoRowLock(others) == TRUE

\* An UPDATE of the row waits for every other transaction's FOR SHARE lock.
RowFree(others) == sharers \subseteq others

\* Mutant: the limit is compared with the credit used before the order.
AffordableBefore(row, amt) == row.limit = NoLimit \/ row.used <= row.limit

Affordable(row, amt) == row.limit = NoLimit \/ row.used + amt <= row.limit

\* Mutant: the update sets credit_used instead of adding to it.
SetNotAdded(row, amt) == [row EXCEPT !.used = amt, !.version = @ + 1]

Charge(row, amt) ==
    [row EXCEPT !.used = @ + amt, !.version = @ + 1]

\* Mutant: without GREATEST.
BelowZero(row, amt) == [row EXCEPT !.used = @ - amt, !.version = @ + 1]

\* GREATEST(credit_used - amount, 0)
GiveBack(row, amt) ==
    [row EXCEPT !.used = IF @ >= amt THEN @ - amt ELSE 0, !.version = @ + 1]

Goto(r, label) == pc' = [pc EXCEPT ![r] = label]

-----------------------------------------------------------------------------
(* createBulkOrder, in the order of its steps.                             *)

\* Pricing and validateCode: the code's used_count is only read here.
Submit(r) ==
    /\ pc[r] = "idle"
    /\ Goto(r, IF r \in CodeUsers /\ uses >= MaxUses THEN "failed" ELSE "priced")
    /\ UNCHANGED <<rel, sharers, snap, attempt, shop, order, uses, settled, held>>

\* First half of the reservation transaction: SELECT ... FOR SHARE and the
\* approval and limit checks; a rejection rolls back and keeps no lock.
ReadForShare(r) ==
    /\ pc[r] = "priced"
    /\ IF rel.status = "approved" /\ Affordable(rel, Amount[r])
       THEN /\ sharers' = sharers \cup {r}
            /\ snap' = [snap EXCEPT ![r] = rel.version]
            /\ Goto(r, "locked")
       ELSE /\ Goto(r, "failed")
            /\ UNCHANGED <<sharers, snap>>
    /\ UNCHANGED <<rel, attempt, shop, order, uses, settled, held>>

\* Second half: UPDATE ... WHERE credit_version = the version read.  A miss
\* rolls back and turns the loop, up to CasRetries turns; another failure is
\* thrown on, although the update may have been committed.
Reserve(r) ==
    /\ pc[r] = "locked"
    /\ RowFree({r})
    /\ sharers' = sharers \ {r}
    /\ IF rel.version = snap[r]
       THEN /\ \/ /\ rel' = Charge(rel, Amount[r])
                  /\ held' = held \cup {r}
                  /\ Goto(r, "reserved") \/ ("reserve" \in Faults /\ Goto(r, "failed"))
               \/ /\ "reserve" \in Faults
                  /\ Goto(r, "failed")
                  /\ UNCHANGED <<rel, held>>
            /\ UNCHANGED attempt
       ELSE /\ attempt' = [attempt EXCEPT ![r] = @ + 1]
            /\ Goto(r, IF attempt[r] + 1 < CasRetries THEN "priced" ELSE "failed")
            /\ UNCHANGED <<rel, held>>
    /\ snap' = [snap EXCEPT ![r] = 0]
    /\ UNCHANGED <<shop, order, uses, settled>>

\* Mutant: a deadlock is retried like a CAS miss, but without a bound.
RetryVictim(r) ==
    /\ pc[r] = "locked"
    /\ ~RowFree({r})
    /\ sharers' = sharers \ {r}
    /\ snap' = [snap EXCEPT ![r] = 0]
    /\ Goto(r, "priced")
    /\ UNCHANGED <<rel, attempt, shop, order, uses, settled, held>>

\* Two transactions that both hold FOR SHARE both wait to update: Postgres
\* aborts one of them.  The error is not a CAS miss, so the loop does not
\* turn and the request fails.
DeadlockVictim(r) ==
    /\ pc[r] = "locked"
    /\ ~RowFree({r})
    /\ sharers' = sharers \ {r}
    /\ snap' = [snap EXCEPT ![r] = 0]
    /\ Goto(r, "failed")
    /\ UNCHANGED <<rel, attempt, shop, order, uses, settled, held>>

\* Throws, below the minimum or because the tier cannot be read, outside the try
\* block that would release the reservation.
EnforceMinimumOrder(r) ==
    /\ pc[r] = "reserved"
    /\ \/ Goto(r, IF Amount[r] >= MinOrder THEN "checked" ELSE "failed")
       \/ "tier" \in Faults /\ Goto(r, "failed")
    /\ UNCHANGED <<rel, sharers, snap, attempt, shop, order, uses, settled, held>>

CreateDraftOrder(r) ==
    /\ pc[r] = "checked"
    /\ \/ /\ shop' = [shop EXCEPT ![r] = "draft"]
          /\ Goto(r, "drafted")
       \/ /\ "draft" \in Faults
          /\ Goto(r, "releasing")
          /\ UNCHANGED shop
       \/ /\ "ambiguous" \in Faults
          /\ shop' = [shop EXCEPT ![r] = "draft"]
          /\ Goto(r, "releasing")
    /\ UNCHANGED <<rel, sharers, snap, attempt, order, uses, settled, held>>

CompleteDraftOrder(r) ==
    /\ pc[r] = "drafted"
    /\ \/ /\ shop' = [shop EXCEPT ![r] = "order"]
          /\ Goto(r, "completed")
       \/ /\ "complete" \in Faults
          /\ Goto(r, "cleanup")
          /\ UNCHANGED shop
       \/ /\ "ambiguous" \in Faults
          /\ shop' = [shop EXCEPT ![r] = "order"]
          /\ Goto(r, "cleanup")
    /\ UNCHANGED <<rel, sharers, snap, attempt, order, uses, settled, held>>

\* Best effort; Shopify refuses to delete a draft that became an order.
DeleteDraft(r) ==
    /\ pc[r] = "cleanup"
    /\ shop' \in {shop, IF shop[r] = "draft" THEN [shop EXCEPT ![r] = "none"] ELSE shop}
    /\ Goto(r, "releasing")
    /\ UNCHANGED <<rel, sharers, snap, attempt, order, uses, settled, held>>

\* The SERIALIZABLE upsert, its retries on 40001 included.
PersistOrder(r) ==
    /\ pc[r] = "completed"
    /\ \/ /\ order' = order \cup {r}
          /\ Goto(r, "persisted")
       \/ /\ "persist" \in Faults
          /\ Goto(r, "releasing")
          /\ order' \in {order, order \cup {r}}
    /\ UNCHANGED <<rel, sharers, snap, attempt, shop, uses, settled, held>>

\* applyCodeToOrder runs after the order committed but inside the same try.
ApplyCodeToOrder(r) ==
    /\ pc[r] = "persisted"
    /\ \/ /\ uses' = IF r \in CodeUsers THEN uses + 1 ELSE uses
          /\ Goto(r, "done")
       \/ /\ "apply" \in Faults /\ r \in CodeUsers
          /\ Goto(r, "releasing")
          /\ UNCHANGED uses
    /\ UNCHANGED <<rel, sharers, snap, attempt, shop, order, settled, held>>

\* Mutant: the error is not thrown again after the release.
ReleaseAndAccept(r) ==
    /\ pc[r] = "releasing"
    /\ RowFree({})
    /\ rel' = GiveBack(rel, Amount[r])
    /\ held' = held \ {r}
    /\ Goto(r, "done")
    /\ UNCHANGED <<sharers, snap, attempt, shop, order, uses, settled>>

\* releaseCredit: no version check; a failure is logged and swallowed.
ReleaseCredit(r) ==
    /\ pc[r] = "releasing"
    /\ \/ /\ RowFree({})
          /\ rel' = GiveBack(rel, Amount[r])
          /\ held' = held \ {r}
       \/ /\ "release" \in Faults
          /\ UNCHANGED <<rel, held>>
    /\ Goto(r, "failed")
    /\ UNCHANGED <<sharers, snap, attempt, shop, order, uses, settled>>

\* The process dies: an open transaction rolls back, nothing compensates.
Crash(r) ==
    /\ "crash" \in Faults
    /\ pc[r] \in InFlight
    /\ sharers' = sharers \ {r}
    /\ snap' = [snap EXCEPT ![r] = 0]
    /\ Goto(r, "crashed")
    /\ UNCHANGED <<rel, attempt, shop, order, uses, settled, held>>

-----------------------------------------------------------------------------
(* Everyone else who writes the row, each in one transaction.              *)

SuspendBuyer ==
    /\ RowFree({})
    /\ rel' = [rel EXCEPT !.status = "suspended"]
    /\ UNCHANGED <<sharers, pc, snap, attempt, shop, order, uses, settled, held>>

ReinstateBuyer ==
    /\ RowFree({})
    /\ rel.status = "suspended"
    /\ rel' = [rel EXCEPT !.status = "approved"]
    /\ UNCHANGED <<sharers, pc, snap, attempt, shop, order, uses, settled, held>>

\* updateBuyer: the limit changes, credit_version does not.
UpdateBuyer(l) ==
    /\ RowFree({})
    /\ rel' = [rel EXCEPT !.limit = l]
    /\ UNCHANGED <<sharers, pc, snap, attempt, shop, order, uses, settled, held>>

\* approveApplication upserts an existing relationship: credit_used stays.
ApproveApplication(l) ==
    /\ RowFree({})
    /\ rel' = [rel EXCEPT !.status = "approved", !.limit = l]
    /\ UNCHANGED <<sharers, pc, snap, attempt, shop, order, uses, settled, held>>

\* The Shopify order is invoiced from Shopify's own webhook, whether or not
\* it was recorded locally; collecting the invoice gives the credit back.
CollectInvoice(r) ==
    /\ shop[r] = "order" /\ r \notin settled
    /\ RowFree({})
    /\ rel' = GiveBack(rel, Invoiced[r])
    /\ settled' = settled \cup {r}
    /\ held' = held \ {r}
    /\ UNCHANGED <<sharers, pc, snap, attempt, shop, order, uses>>

-----------------------------------------------------------------------------
Step(r) ==
    \/ ReadForShare(r) \/ Reserve(r) \/ DeadlockVictim(r)
    \/ EnforceMinimumOrder(r) \/ CreateDraftOrder(r) \/ CompleteDraftOrder(r)
    \/ DeleteDraft(r) \/ PersistOrder(r) \/ ApplyCodeToOrder(r)
    \/ ReleaseCredit(r)

Merchant ==
    \/ SuspendBuyer \/ ReinstateBuyer
    \/ \E l \in Limits : UpdateBuyer(l) \/ ApproveApplication(l)

Next ==
    \/ \E r \in Requests : Submit(r) \/ Step(r) \/ Crash(r) \/ CollectInvoice(r)
    \/ Merchant

Spec == Init /\ [][Next]_vars

\* A request that is being served keeps running unless its process dies.
FairSpec == Spec /\ \A r \in Requests : WF_vars(Step(r))

-----------------------------------------------------------------------------
(* Properties.                                                             *)

\* Every variable keeps its type; only an open reservation holds the lock.
TypeOK ==
    /\ rel \in Row
    /\ sharers \subseteq Requests
    /\ pc \in [Requests -> {"idle"} \cup InFlight \cup Answered]
    /\ snap \in [Requests -> Nat]
    /\ attempt \in [Requests -> Nat]
    /\ shop \in [Requests -> {"none", "draft", "order"}]
    /\ order \subseteq Requests
    /\ uses \in Nat
    /\ settled \subseteq Requests
    /\ held \subseteq Requests

\* What verifyAndReserveCredit checked under FOR SHARE is still true when it
\* updates: no merchant change, payment or other reservation slips in between
\* (credit_version alone would not see updateBuyer or suspendBuyer).
CheckedUnderLock ==
    \A r \in sharers :
        /\ snap[r] = rel.version
        /\ rel.status = "approved"
        /\ Affordable(rel, Amount[r])

\* Orders that failed for the buyer and gave their credit back although Shopify
\* holds them, unpaid.
Dropped ==
    {r \in Requests : pc[r] = "failed" /\ shop[r] = "order" /\ r \notin held \cup settled}

Account == INSTANCE CreditAccount WITH
    Orders <- Requests, status <- rel.status, limit <- rel.limit, used <- rel.used,
    open <- held, dropped <- Dropped

\* Read under FOR SHARE, update by version, deadlocks, retries, releases and
\* crashes together do what CreditAccount does in single steps: every charge
\* is legal at the moment it is made, and only charged orders are given back.
AtomicAccount == Account!Spec

\* From completeDraftOrder on, an order that the service accepted keeps its
\* reservation until its invoice is collected (orders.service.ts: "The credit
\* reservation from step 6 is authoritative"); so does every order that exists
\* at Shopify, a crash included, unless its request failed.
AcceptedOrderHeld ==
    \A r \in Requests :
        /\ \/ pc[r] \in {"completed", "persisted", "done"}
           \/ shop[r] = "order" /\ pc[r] # "failed"
        /\ r \notin settled
        => r \in held

\* The units of credit that a set of reservations takes from the limit, and
\* how many they are: the sum of the amounts.
Units(S)    == UNION {{r} \X (1..Amount[r]) : r \in S}
CreditOf(S) == Cardinality(Units(S))

\* No order failed for the buyer and was collected anyway, and no collected
\* invoice has a total other than the amount reserved.
CleanCollections == \A r \in settled : pc[r] # "failed" /\ Invoiced[r] = Amount[r]

\* credit_used is the sum of the reservations not given back: none is lost or
\* counted twice by racing reservations, releases and collections.
CreditConserved == CleanCollections => rel.used = CreditOf(held)

\* A request that was submitted is answered (or dies with its process): the
\* row lock, the deadlock it can cause and the retry loop never block it.
EveryRequestAnswered ==
    \A r \in Requests : pc[r] = "priced" ~> pc[r] \in Answered

\* "Any failure releases the reserved credit so a rejected order never consumes
\* the buyer's limit" (orders.service.ts:284).
RejectedOrderHoldsNothing ==
    \A r \in Requests : pc[r] = "failed" => r \notin held
=============================================================================
