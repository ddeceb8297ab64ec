------------------------------ MODULE Catalog -------------------------------
(***************************************************************************)
(* The tier-priced catalog of one merchant and what it is cached in.  A    *)
(* buyer's request (catalog/catalog.service.ts) takes a page from the      *)
(* cache, or builds it under a lock from Shopify's products and the prices *)
(* of pricing/pricing.service.ts, which caches them once more, per buyer.  *)
(* The merchant edits tiers (pricing/pricing-tiers.controller.ts) and      *)
(* moves buyers between them (buyers/buyers.service.ts), and product       *)
(* webhooks update the list prices (workers/catalog-sync.worker.ts); two   *)
(* of these three invalidate caches.                                       *)
(*                                                                         *)
(* One product with one variant.  A price is what it was computed from:    *)
(* the tier, the edition of its rule and the list price of its override.   *)
(***************************************************************************)
EXTENDS Naturals

CONSTANTS
    Buyers, Tiers,
    Requests,       \* concurrent requests to the catalog
    Jobs,           \* product webhooks
    Topic,          \* Topic[j]: see Topics
    None,           \* nothing there: no cache entry, product or override row
    PageTtl,        \* CACHE_TTL_SECONDS, in ticks
    LockTtl,        \* LOCK_TTL_MS, in ticks
    MaxPolls,       \* LOCK_MAX_RETRIES
    MaxAttempts,    \* attempts of DEFAULT_JOB_OPTIONS
    MaxChanges      \* the bound on edits, moved buyers and changed products together

Topics   == {"products/update", "products/delete", "inventory_levels/update"}
Versions == 0..MaxChanges

ASSUME TopicAssumption == Topic \in [Jobs -> Topics]
ASSUME BoundAssumption ==
    /\ PageTtl \in Nat \ {0} /\ LockTtl \in Nat \ {0} /\ MaxPolls \in Nat \ {0}
    /\ MaxAttempts \in Nat \ {0}
    /\ MaxChanges \in Nat
ASSUME NoneAssumption == None \notin Tiers \cup Buyers \cup Nat

VARIABLES
    product,    \* the product at Shopify: its list price, or None
    rule,       \* rule[t]: edition of tier t
    list,       \* list[t]: compareAtPrice of tier t's override row, or None
    tierOf,     \* tierOf[b]: tier of b's relationship
    changes,    \* how many of the four above there have been
    shown,      \* shown[t]: the cached page of tier t
    priced,     \* priced[b]: the cached prices of buyer b
    lock,       \* lock[t]: time the lock of t's page has left; 0 is no lock
    snapshot,   \* hash of the product a worker saw last
    robbed,     \* history: requests whose lock went away before they released it
    request,    \* request[r]: where it is, and what it carries
    job,        \* job[j]: where it is, its failed attempts, the product it fetched
    admin       \* the merchant's request: what it has still to invalidate

prices == <<product, rule, list, tierOf, changes>>
caches == <<shown, priced, lock, snapshot, robbed>>
vars   == <<prices, caches, request, job, admin>>

Price(t, e, v) == [tier |-> t, rule |-> e, list |-> v]
Current(t)     == Price(t, rule[t], list[t])
Fresh(p)       == [price |-> p, left |-> PageTtl]
NoRequest      == [at |-> "idle", buyer |-> None, tier |-> None,
                   price |-> None, polls |-> 0, locked |-> FALSE]

Init ==
    /\ product = 0 /\ list = [t \in Tiers |-> 0] /\ rule = [t \in Tiers |-> 0]
    /\ tierOf \in [Buyers -> Tiers] /\ changes = 0
    /\ shown = [t \in Tiers |-> None]
    /\ priced = [b \in Buyers |-> None]
    /\ lock = [t \in Tiers |-> 0] /\ snapshot = None /\ robbed = {}
    /\ request = [r \in Requests |-> NoRequest]
    /\ job = [j \in Jobs |-> [at |-> "absent", tries |-> 0, seen |-> None]]
    /\ admin = "idle"

-----------------------------------------------------------------------------
(* A request for the first page of the catalog.                            *)

At(r, label)   == request[r].at = label
Goto(r, label) == request' = [request EXCEPT ![r].at = label]
Carry(r, label, p) == request' = [request EXCEPT ![r] = [request[r] EXCEPT !.at = label, !.price = p]]
End(r)         == request' = [request EXCEPT ![r] = NoRequest]
Builds(r)      == request[r].at \in {"fetch", "prices", "load", "keep", "store"}

\* The requests that lose their lock when the key of tier t's lock goes away.
Holders(t) == {r \in Requests : request[r].locked /\ request[r].tier = t}

\* resolveTierId: the tier is read before the cache key is built from it.
Ask(r, b) ==
    /\ At(r, "idle")
    /\ request' = [request EXCEPT ![r] = [NoRequest EXCEPT !.at = "read", !.buyer = b,
                                                           !.tier = tierOf[b]]]
    /\ UNCHANGED <<prices, caches, job, admin>>

\* Mutant: a hit renews the entry.
HitRenews(r) ==
    LET t == request[r].tier IN
    /\ At(r, "read") /\ shown[t] # None
    /\ shown' = [shown EXCEPT ![t] = Fresh(shown[t].price)]
    /\ End(r)
    /\ UNCHANGED <<prices, priced, lock, snapshot, robbed, job, admin>>

\* A hit answers the request; maybeEarlyRefresh may build a page in its last tick
\* anew in the background, without a lock.
Hit(r) ==
    LET entry == shown[request[r].tier] IN
    /\ At(r, "read") /\ entry # None
    /\ \/ End(r)
       \/ entry.left = 1 /\ Goto(r, "fetch")
    /\ UNCHANGED <<prices, caches, job, admin>>

Miss(r) ==
    /\ At(r, "read") /\ shown[request[r].tier] = None
    /\ Goto(r, "lock")
    /\ UNCHANGED <<prices, caches, job, admin>>

\* Mutant: SET without NX.
LockAnyway(r) ==
    LET t == request[r].tier IN
    /\ At(r, "lock")
    /\ lock' = [lock EXCEPT ![t] = LockTtl]
    /\ request' = [request EXCEPT ![r] = [request[r] EXCEPT !.at = "fetch", !.locked = TRUE]]
    /\ UNCHANGED <<prices, shown, priced, snapshot, robbed, job, admin>>

\* SET lock PX LOCK_TTL_MS NX.
TryLock(r) ==
    LET t == request[r].tier IN
    /\ At(r, "lock")
    /\ IF lock[t] = 0
       THEN /\ lock' = [lock EXCEPT ![t] = LockTtl]
            /\ request' = [request EXCEPT ![r] = [request[r] EXCEPT !.at = "fetch", !.locked = TRUE]]
       ELSE Goto(r, "wait") /\ UNCHANGED lock
    /\ UNCHANGED <<prices, shown, priced, snapshot, robbed, job, admin>>

\* waitForCacheOrDegrade: an empty page after the last poll.
Poll(r) ==
    /\ At(r, "wait")
    /\ IF shown[request[r].tier] # None \/ request[r].polls + 1 = MaxPolls
       THEN End(r)
       ELSE request' = [request EXCEPT ![r].polls = request[r].polls + 1]
    /\ UNCHANGED <<prices, caches, job, admin>>

\* build: the merchant, then Shopify's products; without the product there is
\* nothing to price.
Fetch(r) ==
    /\ At(r, "fetch")
    /\ IF product # None THEN Goto(r, "prices") ELSE Carry(r, "store", None)
    /\ UNCHANGED <<prices, caches, job, admin>>

\* resolveBuyerPricing: the prices of this buyer, from the cache
TakePrices(r) ==
    LET p == priced[request[r].buyer] IN
    /\ At(r, "prices")
    /\ IF p # None THEN Carry(r, "store", p.price) ELSE Goto(r, "load")
    /\ UNCHANGED <<prices, caches, job, admin>>

\* or from the database: the tier of the relationship and its override row,
LoadPrices(r) ==
    /\ At(r, "load")
    /\ Carry(r, "keep", Current(tierOf[request[r].buyer]))
    /\ UNCHANGED <<prices, caches, job, admin>>

\* which are kept for the next time after the audit row is written.
KeepPrices(r) ==
    /\ At(r, "keep")
    /\ priced' = [priced EXCEPT ![request[r].buyer] = Fresh(request[r].price)]
    /\ Goto(r, "store")
    /\ UNCHANGED <<prices, shown, lock, snapshot, robbed, job, admin>>

\* Only the request that took the lock has one to release.
Leave(r) == IF request[r].locked THEN Goto(r, "unlock") ELSE End(r)

Store(r) ==
    /\ At(r, "store")
    /\ shown' = [shown EXCEPT ![request[r].tier] = Fresh(request[r].price)]
    /\ Leave(r)
    /\ UNCHANGED <<prices, priced, lock, snapshot, robbed, job, admin>>

\* Redis, the database or Shopify refuses: the lock is released all the same.
Fail(r) ==
    /\ Builds(r)
    /\ Leave(r)
    /\ UNCHANGED <<prices, caches, job, admin>>

\* finally: DEL lock, whoever holds it by now.
Unlock(r) ==
    LET t == request[r].tier IN
    /\ At(r, "unlock")
    /\ lock' = [lock EXCEPT ![t] = 0]
    /\ robbed' = (robbed \cup Holders(t)) \ {r}
    /\ End(r)
    /\ UNCHANGED <<prices, shown, priced, snapshot, job, admin>>

\* The process dies: its lock stays until it expires.
Die(r) ==
    /\ ~At(r, "idle")
    /\ End(r) /\ robbed' = robbed \ {r}
    /\ UNCHANGED <<prices, shown, priced, lock, snapshot, job, admin>>

-----------------------------------------------------------------------------
(* Time.                                                                   *)

\* Mutant: without the floor.
BelowZero(n) == n - 1

Older(n) == IF n = 0 THEN 0 ELSE n - 1

Aged(entry) ==
    IF entry = None THEN None
    ELSE IF entry.left = 1 THEN None ELSE [entry EXCEPT !.left = entry.left - 1]

Tick ==
    /\ shown' = [t \in Tiers |-> Aged(shown[t])]
    /\ priced' = [b \in Buyers |-> Aged(priced[b])]
    /\ lock' = [t \in Tiers |-> Older(lock[t])]
    /\ robbed' = robbed \cup {r \in Requests : \E t \in Tiers : lock[t] = 1 /\ r \in Holders(t)}
    /\ UNCHANGED <<prices, snapshot, request, job, admin>>

-----------------------------------------------------------------------------
(* The merchant.                                                           *)

NewEdition(t) ==
    /\ rule' = [rule EXCEPT ![t] = changes + 1]
    /\ UNCHANGED list

NewOverride(t) ==
    /\ \E v \in Versions \cup {None} : list' = [list EXCEPT ![t] = v]
    /\ UNCHANGED rule

\* A tier is updated, or its override rows: the transaction, before the caches.
EditTier(t) ==
    /\ admin = "idle" /\ changes < MaxChanges
    /\ changes' = changes + 1
    /\ NewEdition(t) \/ NewOverride(t)
    /\ admin' = "pages"
    /\ UNCHANGED <<product, tierOf, caches, request, job>>

\* Deleting the pages deletes their locks.
DropPages ==
    /\ lock' = [t \in Tiers |-> 0]
    /\ robbed' = robbed \cup {r \in Requests : request[r].locked}

\* invalidateMerchantCatalog: every key catalog:*:<merchant>:*, pages, locks
\* and snapshots alike,
InvalidateCatalog ==
    /\ admin = "pages"
    /\ shown' = [t \in Tiers |-> None]
    /\ DropPages
    /\ snapshot' = None
    /\ admin' = "prices"
    /\ UNCHANGED <<prices, priced, request, job>>

\* then every key pricing:*:<merchant>:*.
InvalidatePrices ==
    /\ admin = "prices"
    /\ priced' = [b \in Buyers |-> None]
    /\ admin' = "idle"
    /\ UNCHANGED <<prices, shown, lock, snapshot, robbed, request, job>>

\* The process dies, or Redis refuses, after the transaction.
LoseInvalidation ==
    /\ admin # "idle"
    /\ admin' = "idle"
    /\ UNCHANGED <<prices, caches, request, job>>

\* updateBuyer gives the buyer another tier; no cache is touched.
MoveBuyer(b, t) ==
    /\ changes < MaxChanges /\ tierOf[b] # t
    /\ changes' = changes + 1
    /\ tierOf' = [tierOf EXCEPT ![b] = t]
    /\ UNCHANGED <<product, rule, list, caches, request, job, admin>>

-----------------------------------------------------------------------------
(* Shopify's webhooks and their jobs.                                      *)

Does(j, label)    == job[j].at = label
Turn(j, label)    == job' = [job EXCEPT ![j].at = label]
FirstStep(j) ==
    IF Topic[j] = "products/update" THEN "fetch"
    ELSE IF Topic[j] = "products/delete" THEN "purge" ELSE "pages"

\* The product or its stock changes and the event becomes a job.
Raise(j) ==
    /\ Does(j, "absent") /\ product # None
    /\ changes < MaxChanges /\ changes' = changes + 1
    /\ \/ Topic[j] = "products/update" /\ product' = product + 1
       \/ Topic[j] = "products/delete" /\ product' = None
       \/ Topic[j] = "inventory_levels/update" /\ UNCHANGED product
    /\ Turn(j, FirstStep(j))
    /\ UNCHANGED <<rule, list, tierOf, caches, request, admin>>

\* getProduct; it fails for a product that is gone.
FetchProduct(j) ==
    /\ Does(j, "fetch") /\ product # None
    /\ job' = [job EXCEPT ![j] = [job[j] EXCEPT !.at = "compare", !.seen = product]]
    /\ UNCHANGED <<prices, caches, request, admin>>

\* The hash a worker stored last: a product it has seen is done with.
Compare(j) ==
    /\ Does(j, "compare")
    /\ Turn(j, IF snapshot = job[j].seen THEN "processed" ELSE "snapshot")
    /\ UNCHANGED <<prices, caches, request, admin>>

TakeSnapshot(j) ==
    /\ Does(j, "snapshot")
    /\ snapshot' = job[j].seen
    /\ Turn(j, "update")
    /\ UNCHANGED <<prices, shown, priced, lock, robbed, request, admin>>

\* updateMany: the override rows there are.
UpdateList(j) ==
    /\ Does(j, "update")
    /\ list' = [t \in Tiers |-> IF list[t] = None THEN None ELSE job[j].seen]
    /\ Turn(j, "pages")
    /\ UNCHANGED <<product, rule, tierOf, changes, caches, request, admin>>

\* products/delete: the override rows, then the snapshot.
DeleteOverrides(j) ==
    /\ Does(j, "purge")
    /\ list' = [t \in Tiers |-> None]
    /\ Turn(j, "forget")
    /\ UNCHANGED <<product, rule, tierOf, changes, caches, request, admin>>

ForgetSnapshot(j) ==
    /\ Does(j, "forget")
    /\ snapshot' = None
    /\ Turn(j, "pages")
    /\ UNCHANGED <<prices, shown, priced, lock, robbed, request, admin>>

\* invalidatePages: every key catalog:page:<merchant>:*, pages and their locks, but
\* not the prices.
InvalidatePages(j) ==
    /\ Does(j, "pages")
    /\ shown' = [t \in Tiers |-> None]
    /\ DropPages
    /\ Turn(j, "processed")
    /\ UNCHANGED <<prices, priced, snapshot, request, admin>>

\* An attempt fails and starts over, or was the last.
FailJob(j) ==
    /\ job[j].at \notin {"absent", "processed", "dead_letter"}
    /\ job' = [job EXCEPT ![j] =
         [at    |-> IF job[j].tries + 1 = MaxAttempts THEN "dead_letter" ELSE FirstStep(j),
          tries |-> job[j].tries + 1,
          seen  |-> None]]
    /\ UNCHANGED <<prices, caches, request, admin>>

-----------------------------------------------------------------------------
Read(r) ==
    \/ \E b \in Buyers : Ask(r, b)
    \/ Hit(r) \/ Miss(r) \/ TryLock(r) \/ Poll(r)
    \/ Fetch(r) \/ TakePrices(r) \/ LoadPrices(r) \/ KeepPrices(r)
    \/ Store(r) \/ Unlock(r) \/ Fail(r) \/ Die(r)

Sync(j) ==
    \/ Raise(j) \/ FetchProduct(j) \/ Compare(j) \/ TakeSnapshot(j) \/ UpdateList(j)
    \/ DeleteOverrides(j) \/ ForgetSnapshot(j) \/ InvalidatePages(j) \/ FailJob(j)

Merchant ==
    \/ \E t \in Tiers : EditTier(t)
    \/ InvalidateCatalog \/ InvalidatePrices \/ LoseInvalidation
    \/ \E b \in Buyers, t \in Tiers : MoveBuyer(b, t)

Next ==
    \/ \E r \in Requests : Read(r)
    \/ \E j \in Jobs : Sync(j)
    \/ Merchant
    \/ Tick

Spec     == Init /\ [][Next]_vars
\* Redis counts down by itself.
FairSpec == Spec /\ WF_vars(Tick)

-----------------------------------------------------------------------------
Prices  == [tier : Tiers, rule : Versions, list : Versions \cup {None}] \cup {None}
Entries == [price : Prices, left : 1..PageTtl] \cup {None}
Labels  == {"idle", "read", "lock", "wait", "fetch", "prices", "load", "keep", "store", "unlock"}
Stages  == {"absent", "fetch", "compare", "snapshot", "update", "purge", "forget", "pages",
            "processed", "dead_letter"}

\* Every variable keeps its type; time left is never negative.
TypeOK ==
    /\ product \in Versions \cup {None}
    /\ rule \in [Tiers -> Versions] /\ list \in [Tiers -> Versions \cup {None}]
    /\ tierOf \in [Buyers -> Tiers] /\ changes \in 0..MaxChanges
    /\ shown \in [Tiers -> Entries] /\ priced \in [Buyers -> Entries]
    /\ lock \in [Tiers -> 0..LockTtl] /\ robbed \subseteq Requests
    /\ snapshot \in Versions \cup {None}
    /\ request \in [Requests ->
         [at : Labels, buyer : Buyers \cup {None}, tier : Tiers \cup {None}, price : Prices,
          polls : 0..(MaxPolls - 1), locked : BOOLEAN]]
    /\ job \in [Jobs -> [at : Stages, tries : 0..MaxAttempts, seen : Versions \cup {None}]]
    /\ admin \in {"idle", "pages", "prices"}

\* "Stampede prevention: only the lock holder hits Shopify" (catalog.service.ts): two
\* requests that missed build the same page at once only if one of them lost its lock,
\* to the clock, to an invalidation or to a request that deleted another's lock.
OneBuilder ==
    \A r, s \in Requests :
        (r # s /\ request[r].locked /\ request[s].locked /\ request[r].tier = request[s].tier)
            => r \in robbed \/ s \in robbed

\* Whatever is written late, built from the prices of another tier or missed by an
\* invalidation, the expiry of two caches stacked on each other heals it: once
\* nothing changes any more, every page comes to show the prices in force.
PagesSettle ==
    <>[](\A t \in Tiers :
            shown[t] # None => shown[t].price = IF product = None THEN None ELSE Current(t))
=============================================================================
