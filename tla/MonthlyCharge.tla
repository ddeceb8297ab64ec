---------------------------- MODULE MonthlyCharge ----------------------------
(***************************************************************************)
(* What overage billing promises, whatever pods, crashes and timeouts do:  *)
(* a month is charged at most once, only while it is claimed, and a claim  *)
(* is given up only if nothing was charged.  GmvOverage implements it.     *)
(***************************************************************************)
CONSTANTS Months, Charges

VARIABLES
    claimed,    \* months some run has claimed
    charges     \* charges[m]: what the merchant was charged for month m

vars == <<claimed, charges>>

Init ==
    /\ claimed = {}
    /\ charges = [m \in Months |-> {}]

Claim(m) ==
    /\ m \notin claimed
    /\ claimed' = claimed \cup {m}
    /\ UNCHANGED charges

GiveUp(m) ==
    /\ m \in claimed /\ charges[m] = {}
    /\ claimed' = claimed \ {m}
    /\ UNCHANGED charges

Charge(m) ==
    /\ m \in claimed /\ charges[m] = {}
    /\ \E c \in Charges : charges' = [charges EXCEPT ![m] = {c}]
    /\ UNCHANGED claimed

Next == \E m \in Months : Claim(m) \/ GiveUp(m) \/ Charge(m)

Spec == Init /\ [][Next]_vars
=============================================================================
