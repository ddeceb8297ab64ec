----------------------------- MODULE GmvOverage -----------------------------
(***************************************************************************)
(* Monthly overage billing of one merchant (billing.service.ts:            *)
(* chargeAllMerchantsGmvOverage and chargeMonthlyGmvOverage).  Every pod   *)
(* of the API runs the cron on the first of the month for the month just   *)
(* closed: it reads the merchant and the month's ledger row, takes the     *)
(* charged_at latch with a compare-and-set, calls Paddle, and releases the *)
(* latch only if the circuit breaker refused to send the request.  A       *)
(* request whose answer was lost may still be committed later.             *)
(***************************************************************************)
EXTENDS Integers

CONSTANTS
    Pods,           \* API processes, each with its own cron
    LastMonth,      \* the bound on the calendar
    Sales,          \* amounts a collection adds to the ledger
    MaxGmv,         \* the bound on one month's GMV
    Tiers,
    NoTier,         \* a run that has not read the merchant yet
    Fee,            \* Fee[t][g]: whole cents due on a GMV of g, after the tier's
                    \* free threshold, rate and rounding; 0 when nothing is due,
                    \* as on no GMV at all
    Faults          \* see FaultKinds

\* open: the breaker refuses the call; ambiguous: the answer of Paddle is lost;
\* release: resetting the latch fails; anchor: storing the charge id fails;
\* crash: a pod dies, or is down when its cron is due; lag: the local month key
\* of applyGmv is behind UTC; churn: the merchant subscribes late, is suspended
\* or cancels, and returns.
FaultKinds == {"open", "ambiguous", "release", "anchor", "crash", "lag", "churn"}

ASSUME CalendarAssumption == LastMonth \in Nat /\ MaxGmv \in Nat
ASSUME SalesAssumption    == Sales \subseteq Nat \ {0}
ASSUME FeeAssumption      == /\ Fee \in [Tiers -> [0..MaxGmv -> Nat]]
                             /\ \A t \in Tiers : Fee[t][0] = 0
ASSUME FaultAssumption    == Faults \subseteq FaultKinds

VARIABLES
    now,        \* the current month, UTC
    gmv,        \* merchant_monthly_gmv.gmv per month
    latch,      \* charged_at, fee_cents and paddle_charge_id of the same rows
    merchant,   \* subscription_tier, is_active, and whether it has a subscription id
    fired,      \* fired[p]: the last month pod p's cron ran in
    run,        \* run[p]: where pod p is in chargeMonthlyGmvOverage
    wire,       \* requests whose answer was lost and that may still commit
    paddle      \* the one-time charges Paddle has committed

vars == <<now, gmv, latch, merchant, fired, run, wire, paddle>>

Months  == 0..LastMonth
Fees    == {0} \cup {Fee[t][g] : t \in Tiers, g \in 0..MaxGmv}
Charges == [pod : Pods, month : Months, fee : Fees]
Labels  == {"idle", "merchant", "ledger", "claim", "charge", "release", "anchor"}
Unclaimed == [charged |-> FALSE, fee |-> 0, anchored |-> FALSE]
Idle      == [at |-> "idle", month |-> 0, tier |-> NoTier, fee |-> 0]

Init ==
    /\ now = 0
    /\ gmv = [m \in Months |-> 0]
    /\ latch = [m \in Months |-> Unclaimed]
    /\ merchant \in [tier : Tiers, active : {TRUE},
                     subscribed : IF "churn" \in Faults THEN BOOLEAN ELSE {TRUE}]
    /\ run = [p \in Pods |-> Idle]
    /\ fired = [p \in Pods |-> 0]
    /\ wire = {} /\ paddle = {}

-----------------------------------------------------------------------------
(* The merchant's month.                                                   *)

\* A collection (see InvoiceLedger) adds to the month its writer believes in.
Accrue(m, amt) ==
    /\ m = now \/ ("lag" \in Faults /\ m = now - 1)
    /\ m \in Months /\ gmv[m] + amt <= MaxGmv
    /\ gmv' = [gmv EXCEPT ![m] = @ + amt]
    /\ UNCHANGED <<now, latch, merchant, fired, run, wire, paddle>>

\* A run ends long before the next month begins; each pod's cron has fired
\* unless the pod was down.
NextMonth ==
    /\ now < LastMonth
    /\ \A p \in Pods : /\ run[p].at = "idle"
                       /\ fired[p] = now \/ "crash" \in Faults
    /\ now' = now + 1
    /\ UNCHANGED <<gmv, latch, merchant, fired, run, wire, paddle>>

\* changeTier, or the subscription.updated event that follows it.
ChangeTier(t) ==
    /\ merchant.subscribed
    /\ merchant' = [merchant EXCEPT !.tier = t]
    /\ UNCHANGED <<now, gmv, latch, fired, run, wire, paddle>>

\* The subscription id is stored once and never cleared.
Subscribe(t) ==
    /\ "churn" \in Faults
    /\ ~merchant.subscribed
    /\ merchant' = [tier |-> t, active |-> TRUE, subscribed |-> TRUE]
    /\ UNCHANGED <<now, gmv, latch, fired, run, wire, paddle>>

\* Cancellation, dunning, uninstall; payment, renewal, reinstall.
Churn ==
    /\ "churn" \in Faults
    /\ \E b \in BOOLEAN : merchant' = [merchant EXCEPT !.active = b]
    /\ UNCHANGED <<now, gmv, latch, fired, run, wire, paddle>>

-----------------------------------------------------------------------------
(* One run, in the order of its statements.                                *)

Goto(p, label) == run' = [run EXCEPT ![p].at = label]
Return(p)      == run' = [run EXCEPT ![p] = Idle]

\* Mutant: the running month.
RunningMonth == now

PreviousMonth == now - 1

\* The cron selects the active subscribers, once a month per pod.
CronFires(p) ==
    /\ run[p].at = "idle" /\ fired[p] < now
    /\ fired' = [fired EXCEPT ![p] = now]
    /\ IF merchant.subscribed /\ merchant.active
       THEN run' = [run EXCEPT ![p] = [run[p] EXCEPT !.at = "merchant", !.month = PreviousMonth]]
       ELSE UNCHANGED run
    /\ UNCHANGED <<now, gmv, latch, merchant, wire, paddle>>

\* Only the subscription id is looked at again: a merchant suspended since the
\* cron selected it is charged all the same.
ReadMerchant(p) ==
    /\ run[p].at = "merchant"
    /\ IF merchant.subscribed
       THEN run' = [run EXCEPT ![p] = [run[p] EXCEPT !.at = "ledger", !.tier = merchant.tier]]
       ELSE Return(p)
    /\ UNCHANGED <<now, gmv, latch, merchant, fired, wire, paddle>>

\* No row, an already charged month and a zero fee all end the run.
ReadLedger(p) ==
    LET due == Fee[run[p].tier][gmv[run[p].month]]
    IN  /\ run[p].at = "ledger"
        /\ IF latch[run[p].month].charged \/ due = 0
           THEN Return(p)
           ELSE run' = [run EXCEPT ![p] = [run[p] EXCEPT !.at = "claim", !.fee = due]]
        /\ UNCHANGED <<now, gmv, latch, merchant, fired, wire, paddle>>

\* Mutant: the update does not ask for charged_at IS NULL.
ClaimBlindly(p) ==
    /\ run[p].at = "claim"
    /\ latch' = [latch EXCEPT ![run[p].month] =
                     [latch[run[p].month] EXCEPT !.charged = TRUE, !.fee = run[p].fee]]
    /\ Goto(p, "charge")
    /\ UNCHANGED <<now, gmv, merchant, fired, wire, paddle>>

\* updateMany ... where charged_at IS NULL: the compare-and-set.
Claim(p) ==
    LET m == run[p].month
    IN  /\ run[p].at = "claim"
        /\ IF latch[m].charged
           THEN /\ Return(p)
                /\ UNCHANGED latch
           ELSE /\ latch' = [latch EXCEPT ![m] =
                                [latch[m] EXCEPT !.charged = TRUE, !.fee = run[p].fee]]
                /\ Goto(p, "charge")
        /\ UNCHANGED <<now, gmv, merchant, fired, wire, paddle>>

ChargeOf(p) == [pod |-> p, month |-> run[p].month, fee |-> run[p].fee]

\* Mutant: a lost answer releases the latch like a refused call does.
ReleaseOnTimeout(p) ==
    /\ run[p].at = "charge"
    /\ \/ /\ paddle' = paddle \cup {ChargeOf(p)}
          /\ Goto(p, "anchor")
          /\ UNCHANGED wire
       \/ /\ "ambiguous" \in Faults
          /\ wire' \in {wire, wire \cup {ChargeOf(p)}}
          /\ Goto(p, "release")
          /\ UNCHANGED paddle
    /\ UNCHANGED <<now, gmv, latch, merchant, fired>>

\* createOneTimeCharge through the breaker.
CallPaddle(p) ==
    /\ run[p].at = "charge"
    /\ \/ /\ paddle' = paddle \cup {ChargeOf(p)}
          /\ Goto(p, "anchor")
          /\ UNCHANGED wire
       \/ /\ "open" \in Faults
          /\ Goto(p, "release")
          /\ UNCHANGED <<wire, paddle>>
       \/ /\ "ambiguous" \in Faults
          /\ wire' = wire \cup {ChargeOf(p)}
          /\ Return(p)
          /\ UNCHANGED paddle
    /\ UNCHANGED <<now, gmv, latch, merchant, fired>>

\* The reset names the month, not the run that claimed it.
ReleaseLatch(p) ==
    LET m == run[p].month
    IN  /\ run[p].at = "release"
        /\ \/ latch' = [latch EXCEPT ![m] = [latch[m] EXCEPT !.charged = FALSE, !.fee = 0]]
           \/ "release" \in Faults /\ UNCHANGED latch
        /\ Return(p)
        /\ UNCHANGED <<now, gmv, merchant, fired, wire, paddle>>

AnchorCharge(p) ==
    LET m == run[p].month
    IN  /\ run[p].at = "anchor"
        /\ \/ latch' = [latch EXCEPT ![m] = [latch[m] EXCEPT !.anchored = TRUE]]
           \/ "anchor" \in Faults /\ UNCHANGED latch
        /\ Return(p)
        /\ UNCHANGED <<now, gmv, merchant, fired, wire, paddle>>

\* The pod dies; if it was waiting for Paddle the request may be on its way.
Crash(p) ==
    /\ "crash" \in Faults
    /\ run[p].at # "idle"
    /\ wire' \in {wire, IF run[p].at = "charge" THEN wire \cup {ChargeOf(p)} ELSE wire}
    /\ Return(p)
    /\ UNCHANGED <<now, gmv, latch, merchant, fired, paddle>>

\* Paddle gets to a request on the wire late, or never.
Settle(c) ==
    /\ c \in wire
    /\ wire' = wire \ {c}
    /\ paddle' \in {paddle, paddle \cup {c}}
    /\ UNCHANGED <<now, gmv, latch, merchant, fired, run>>

-----------------------------------------------------------------------------
Advance(p) == ReadMerchant(p) \/ ReadLedger(p) \/ Claim(p) \/ CallPaddle(p)
                  \/ ReleaseLatch(p) \/ AnchorCharge(p)

Next ==
    \/ \E m \in Months, amt \in Sales : Accrue(m, amt)
    \/ NextMonth
    \/ \E t \in Tiers : ChangeTier(t) \/ Subscribe(t)
    \/ Churn
    \/ \E p \in Pods : CronFires(p) \/ Advance(p) \/ Crash(p)
    \/ \E c \in wire : Settle(c)

Spec == Init /\ [][Next]_vars

-----------------------------------------------------------------------------
(* Properties.                                                             *)

\* Every variable keeps its type.
TypeOK ==
    /\ now \in Months
    /\ gmv \in [Months -> 0..MaxGmv]
    /\ latch \in [Months -> [charged : BOOLEAN, fee : Fees, anchored : BOOLEAN]]
    /\ merchant \in [tier : Tiers, active : BOOLEAN, subscribed : BOOLEAN]
    /\ fired \in [Pods -> Months]
    /\ run \in [Pods -> [at : Labels, month : Months, tier : Tiers \cup {NoTier}, fee : Fees]]
    /\ \A p \in Pods : run[p].at = "ledger" => run[p].tier \in Tiers
    /\ wire \subseteq Charges /\ paddle \subseteq Charges

Sent == wire \cup paddle

\* "A re-run / redelivery / concurrent pod can never double-charge": of all the
\* requests that reached Paddle or may still reach it, a month has at most one.
NoDoubleCharge ==
    \A c, d \in Sent : c.month = d.month => c = d

\* Whatever Paddle charged or may yet charge is on record: the month's latch is
\* set, with the fee of that very request, so a reconciliation can find it.
ChargeOnRecord ==
    \A c \in Sent : latch[c.month].charged /\ latch[c.month].fee = c.fee

\* A month is charged only after it closed, and never more than the GMV of its
\* ledger row warrants at one of the tiers.
OnlyClosedMonths ==
    \A c \in Sent : c.month < now /\ \E t \in Tiers, g \in 0..gmv[c.month] : Fee[t][g] = c.fee

\* The service's promise to the merchant, stated on its own.
Promise == INSTANCE MonthlyCharge WITH
    claimed <- {m \in Months : latch[m].charged},
    charges <- [m \in Months |-> {c \in paddle : c.month = m}]

PromiseKept == Promise!Spec
=============================================================================
