---------------------------- MODULE CreditAccount ----------------------------
(***************************************************************************)
(* What the credit columns of a relationship promise, whatever locks,      *)
(* retries and crashes are behind them: an order is charged in one step    *)
(* that checks approval and limit as they are at that moment, at most      *)
(* once, and what is given back belongs to an order that was charged.      *)
(* OrderPlacement implements it.                                           *)
(***************************************************************************)
EXTENDS Integers

CONSTANTS Orders, Amount, Invoiced, Limits, NoLimit

VARIABLES
    status, limit, used,    \* approval_status, credit_limit and credit_used
    open,                   \* orders charged and not given back
    dropped,                \* given up by the service, but Shopify may bill them
    settled                 \* orders whose invoice was collected

vars == <<status, limit, used, open, dropped, settled>>

Init ==
    /\ status = "approved" /\ limit \in Limits /\ used = 0
    /\ open = {} /\ dropped = {} /\ settled = {}

Reserve(r) ==
    /\ r \notin open \cup dropped \cup settled
    /\ status = "approved"
    /\ limit = NoLimit \/ used + Amount[r] <= limit
    /\ used' = used + Amount[r]
    /\ open' = open \cup {r}
    /\ UNCHANGED <<status, limit, dropped, settled>>

GiveBack(amount) == used' = IF used >= amount THEN used - amount ELSE 0

\* The order was not placed, or may have been placed although it failed.
Cancel(r) ==
    /\ r \in open
    /\ GiveBack(Amount[r])
    /\ open' = open \ {r}
    /\ dropped' \in {dropped, dropped \cup {r}}
    /\ UNCHANGED <<status, limit, settled>>

\* The order failed for the buyer after it was paid.
CancelPaid(r) ==
    /\ r \in settled
    /\ GiveBack(Amount[r])
    /\ open' = open \ {r}
    /\ UNCHANGED <<status, limit, dropped, settled>>

Settle(r) ==
    /\ r \in open \cup dropped
    /\ GiveBack(Invoiced[r])
    /\ open' = open \ {r}
    /\ dropped' = dropped \ {r}
    /\ settled' = settled \cup {r}
    /\ UNCHANGED <<status, limit>>

ChangeTerms ==
    /\ status' \in {"approved", "suspended"}
    /\ limit' \in Limits
    /\ UNCHANGED <<used, open, dropped, settled>>

Next ==
    \/ \E r \in Orders : Reserve(r) \/ Cancel(r) \/ CancelPaid(r) \/ Settle(r)
    \/ ChangeTerms

Spec == Init /\ [][Next]_vars

-----------------------------------------------------------------------------
LegalCharge ==
    used' > used =>
        /\ status = "approved" /\ status' = "approved"
        /\ limit' = NoLimit \/ used' <= limit'

\* credit_used is only ever raised for an approved buyer and to a value the
\* limit in force allows (orders.service.ts, step 6: verify and reserve).
ChargedWithinLimit == [][LegalCharge]_vars
=============================================================================
