-------------------------- MODULE GmvOverage_proofs --------------------------
(* Proofs about GmvOverage, for any number of pods, months and tiers: a      *)
(* month is charged at most once, and the protocol implements MonthlyCharge. *)
EXTENDS GmvOverage, TLAPS

USE CalendarAssumption, SalesAssumption, FeeAssumption

Holds(p) == run[p].at \in {"charge", "release"}

\* A run between its claim and the answer of Paddle holds its month alone: the
\* latch is set, and nothing for that month was sent by anyone.
HolderInv ==
    \A p \in Pods : Holds(p) =>
        /\ latch[run[p].month].charged
        /\ run[p].at = "charge" => latch[run[p].month].fee = run[p].fee
        /\ \A c \in Sent : c.month # run[p].month
        /\ \A q \in Pods \ {p} : Holds(q) => run[q].month # run[p].month

IInv == TypeOK /\ HolderInv /\ ChargeOnRecord /\ NoDoubleCharge

\* Every fee due is a member of Fees.
LEMMA FeeTyped ==
    ASSUME NEW t \in Tiers, NEW g \in 0..MaxGmv
    PROVE  Fee[t][g] \in Fees
  BY DEF Fees

RunTyped ==
    /\ run' \in [Pods -> [at : Labels, month : Months, tier : Tiers \cup {NoTier}, fee : Fees]]
    /\ \A p \in Pods : run'[p].at = "ledger" => run'[p].tier \in Tiers

\* A run record replaced by a well-typed one.
LEMMA RunReplaced ==
    ASSUME TypeOK, NEW p \in Pods,
           NEW j \in [at : Labels, month : Months, tier : Tiers \cup {NoTier}, fee : Fees],
           j.at = "ledger" => j.tier \in Tiers,
           run' = [run EXCEPT ![p] = j]
    PROVE  RunTyped
  BY DEF RunTyped, TypeOK

\* Returning and moving on keep the runs typed.
LEMMA RunMoves ==
    ASSUME TypeOK, NEW p \in Pods
    PROVE  /\ Return(p) => RunTyped
           /\ \A l \in Labels \ {"ledger"} : Goto(p, l) => RunTyped
  <1>1. Idle \in [at : Labels, month : Months, tier : Tiers \cup {NoTier}, fee : Fees]
    BY DEF Idle, Labels, Fees, Months
  <1>2. Return(p) => RunTyped
    BY <1>1, RunReplaced DEF Return, Idle
  <1>3. ASSUME NEW l \in Labels \ {"ledger"}, Goto(p, l) PROVE RunTyped
    <2>1. /\ [run[p] EXCEPT !.at = l] \in [at : Labels, month : Months,
                                          tier : Tiers \cup {NoTier}, fee : Fees]
          /\ [run[p] EXCEPT !.at = l].at # "ledger"
      BY DEF TypeOK
    <2>2. run' = [run EXCEPT ![p] = [run[p] EXCEPT !.at = l]]
      BY <1>3 DEF Goto
    <2> QED
      BY <2>1, <2>2, RunReplaced
  <1> QED
    BY <1>2, <1>3

\* Every action keeps the types.
LEMMA TypeStep == TypeOK /\ [Next]_vars => TypeOK'
  <1> SUFFICES ASSUME TypeOK, [Next]_vars PROVE TypeOK'
    OBVIOUS
  <1> DEFINE Run == [at : Labels, month : Months, tier : Tiers \cup {NoTier}, fee : Fees]
             Latch == [charged : BOOLEAN, fee : Fees, anchored : BOOLEAN]
  <1>1. /\ Idle \in Run /\ 0 \in Fees /\ 0 \in Months
        /\ run \in [Pods -> Run] /\ latch \in [Months -> Latch]
    <2>1. 0 \in Fees /\ 0 \in Months
      BY CalendarAssumption DEF Fees, Months
    <2>2. Idle \in Run
      BY <2>1 DEF Idle, Labels
    <2> QED
      BY <2>1, <2>2 DEF TypeOK
  <1>2. \A m \in Months, l \in Latch : [latch EXCEPT ![m] = l] \in [Months -> Latch]
    BY <1>1
  <1>3. ASSUME RunTyped, UNCHANGED <<now, gmv, latch, merchant, fired, wire, paddle>>
        PROVE  TypeOK'
    BY <1>3 DEF RunTyped, TypeOK
  <1>4. ASSUME RunTyped, latch' \in [Months -> Latch],
               UNCHANGED <<now, gmv, merchant, fired, wire, paddle>>
        PROVE  TypeOK'
    BY <1>4 DEF RunTyped, TypeOK
  <1>5. ASSUME NEW m \in Months, NEW amt \in Sales, Accrue(m, amt) PROVE TypeOK'
    <2>1. gmv[m] + amt \in Nat /\ gmv[m] + amt <= MaxGmv
      BY <1>5 DEF Accrue, TypeOK
    <2>2. gmv' \in [Months -> 0..MaxGmv]
      BY <1>5, <2>1 DEF Accrue, TypeOK
    <2> QED
      BY <1>5, <2>2 DEF Accrue, TypeOK
  <1>6. CASE NextMonth
    BY <1>6 DEF NextMonth, Months, TypeOK
  <1>7. ASSUME NEW t \in Tiers, ChangeTier(t) PROVE TypeOK'
    BY <1>7 DEF ChangeTier, TypeOK
  <1>8. CASE Churn \/ \E t \in Tiers : Subscribe(t)
    <2>1. merchant' \in [tier : Tiers, active : BOOLEAN, subscribed : BOOLEAN]
      <3>1. CASE Churn
        BY <3>1 DEF Churn, TypeOK
      <3>2. ASSUME NEW t \in Tiers, Subscribe(t)
            PROVE  merchant' \in [tier : Tiers, active : BOOLEAN, subscribed : BOOLEAN]
        BY <3>2 DEF Subscribe
      <3> QED
        BY <1>8, <3>1, <3>2
    <2>2. UNCHANGED <<now, gmv, latch, fired, run, wire, paddle>>
      BY <1>8 DEF Churn, Subscribe
    <2> QED
      BY <2>1, <2>2 DEF TypeOK
  <1>9. ASSUME NEW p \in Pods, CronFires(p) PROVE TypeOK'
    <2>1. PreviousMonth \in Months /\ now \in Months
      BY <1>9 DEF CronFires, Months, TypeOK, PreviousMonth
    <2>2. /\ [run[p] EXCEPT !.at = "merchant", !.month = PreviousMonth] \in Run
          /\ [run[p] EXCEPT !.at = "merchant", !.month = PreviousMonth].at # "ledger"
      BY <1>1, <2>1 DEF Labels
    <2>3. RunTyped
      <3>1. CASE UNCHANGED run
        BY <3>1 DEF RunTyped, TypeOK
      <3> QED
        BY <1>9, <2>2, <3>1, RunReplaced DEF CronFires
    <2> QED
      BY <1>9, <2>1, <2>3 DEF CronFires, RunTyped, TypeOK
  <1>10. ASSUME NEW p \in Pods, ReadMerchant(p) PROVE TypeOK'
    <2>1. /\ [run[p] EXCEPT !.at = "ledger", !.tier = merchant.tier] \in Run
          /\ [run[p] EXCEPT !.at = "ledger", !.tier = merchant.tier].tier \in Tiers
      BY <1>1 DEF Labels, TypeOK
    <2>2. RunTyped
      BY <1>10, <2>1, RunReplaced, RunMoves DEF ReadMerchant
    <2> QED
      BY <1>3, <1>10, <2>2 DEF ReadMerchant
  <1>11. ASSUME NEW p \in Pods, ReadLedger(p) PROVE TypeOK'
    <2> DEFINE due == Fee[run[p].tier][gmv[run[p].month]]
    <2>1. run[p].tier \in Tiers /\ gmv[run[p].month] \in 0..MaxGmv
      BY <1>11 DEF ReadLedger, TypeOK
    <2>2. due \in Fees
      BY <2>1, FeeTyped
    <2>3. Return(p) \/ run' = [run EXCEPT ![p] = [run[p] EXCEPT !.at = "claim", !.fee = due]]
      BY <1>11 DEF ReadLedger
    <2> HIDE DEF due
    <2>4. /\ [run[p] EXCEPT !.at = "claim", !.fee = due] \in Run
          /\ [run[p] EXCEPT !.at = "claim", !.fee = due].at # "ledger"
      BY <1>1, <2>2 DEF Labels
    <2>5. RunTyped
      BY <2>3, <2>4, RunReplaced, RunMoves
    <2> QED
      BY <1>3, <1>11, <2>5 DEF ReadLedger
  <1>12. ASSUME NEW p \in Pods, Claim(p) PROVE TypeOK'
    <2>1. run[p].month \in Months /\ run[p].fee \in Fees
      BY <1>1
    <2>2. [latch[run[p].month] EXCEPT !.charged = TRUE, !.fee = run[p].fee] \in Latch
      BY <1>1, <2>1
    <2>3. latch' \in [Months -> Latch]
      BY <1>1, <1>2, <1>12, <2>1, <2>2 DEF Claim
    <2>4. RunTyped
      BY <1>12, RunMoves DEF Claim, Labels
    <2> QED
      BY <1>4, <1>12, <2>3, <2>4 DEF Claim
  <1>13. ASSUME NEW p \in Pods, CallPaddle(p) PROVE TypeOK'
    <2>1. ChargeOf(p) \in Charges
      BY <1>1 DEF ChargeOf, Charges
    <2>2. RunTyped
      BY <1>13, RunMoves DEF CallPaddle, Labels
    <2> QED
      BY <1>13, <2>1, <2>2 DEF CallPaddle, RunTyped, TypeOK
  <1>14. ASSUME NEW p \in Pods, ReleaseLatch(p) PROVE TypeOK'
    <2>1. run[p].month \in Months
      BY <1>1
    <2>2. [latch[run[p].month] EXCEPT !.charged = FALSE, !.fee = 0] \in Latch
      BY <1>1, <2>1
    <2>3. latch' \in [Months -> Latch]
      BY <1>1, <1>2, <1>14, <2>1, <2>2 DEF ReleaseLatch
    <2>4. RunTyped
      BY <1>14, RunMoves DEF ReleaseLatch
    <2> QED
      BY <1>4, <1>14, <2>3, <2>4 DEF ReleaseLatch
  <1>15. ASSUME NEW p \in Pods, AnchorCharge(p) PROVE TypeOK'
    <2>1. run[p].month \in Months
      BY <1>1
    <2>2. [latch[run[p].month] EXCEPT !.anchored = TRUE] \in Latch
      BY <1>1, <2>1
    <2>3. latch' \in [Months -> Latch]
      BY <1>1, <1>2, <1>15, <2>1, <2>2 DEF AnchorCharge
    <2>4. RunTyped
      BY <1>15, RunMoves DEF AnchorCharge
    <2> QED
      BY <1>4, <1>15, <2>3, <2>4 DEF AnchorCharge
  <1>16. ASSUME NEW p \in Pods, Crash(p) PROVE TypeOK'
    <2>1. ChargeOf(p) \in Charges
      BY <1>1 DEF ChargeOf, Charges
    <2>2. RunTyped
      BY <1>16, RunMoves DEF Crash
    <2> QED
      BY <1>16, <2>1, <2>2 DEF Crash, RunTyped, TypeOK
  <1>17. ASSUME NEW c \in wire, Settle(c) PROVE TypeOK'
    BY <1>17 DEF Settle, TypeOK
  <1>18. CASE UNCHANGED vars
    BY <1>18 DEF vars, TypeOK
  <1> QED
    BY <1>5, <1>6, <1>7, <1>8, <1>9, <1>10, <1>11, <1>12, <1>13, <1>14, <1>15,
       <1>16, <1>17, <1>18 DEF Next, Advance

\* A step that sends nothing, leaves the latches alone and starts no claim.
LEMMA QuietStep ==
    ASSUME IInv, NEW p \in Pods, latch' = latch, Sent' \subseteq Sent,
           \A q \in Pods \ {p} : run'[q] = run[q],
           Holds(p)' => run'[p].month = run[p].month /\ Holds(p)
                           /\ run'[p].fee = run[p].fee
                           /\ (run'[p].at = "charge" => run[p].at = "charge")
    PROVE  (HolderInv /\ ChargeOnRecord /\ NoDoubleCharge)'
  <1>1. \A q \in Pods : Holds(q)' =>
            /\ Holds(q) /\ run'[q].month = run[q].month /\ run'[q].fee = run[q].fee
            /\ run'[q].at = "charge" => run[q].at = "charge"
    <2> TAKE q \in Pods
    <2>1. CASE q = p
      BY <2>1
    <2>2. CASE q # p
      BY <2>2 DEF Holds
    <2> QED
      BY <2>1, <2>2
  <1>2. HolderInv'
    BY <1>1 DEF IInv, HolderInv
  <1>3. ChargeOnRecord' /\ NoDoubleCharge'
    BY DEF IInv, ChargeOnRecord, NoDoubleCharge
  <1> QED
    BY <1>2, <1>3

\* The latch makes claims exclusive, and requests are sent from a claim only.
LEMMA HolderStep == IInv /\ [Next]_vars => (HolderInv /\ ChargeOnRecord /\ NoDoubleCharge)'
  <1> SUFFICES ASSUME IInv, [Next]_vars
               PROVE  (HolderInv /\ ChargeOnRecord /\ NoDoubleCharge)'
    OBVIOUS
  <1>1. /\ TypeOK /\ run \in [Pods -> [at : Labels, month : Months,
                                       tier : Tiers \cup {NoTier}, fee : Fees]]
        /\ latch \in [Months -> [charged : BOOLEAN, fee : Fees, anchored : BOOLEAN]]
        /\ Idle.at = "idle"
    BY DEF IInv, TypeOK, Idle
  <1>2. CASE UNCHANGED <<latch, run, wire, paddle>>
    BY <1>2 DEF IInv, HolderInv, ChargeOnRecord, NoDoubleCharge, Holds, Sent
  <1>3. ASSUME NEW p \in Pods, CronFires(p) \/ ReadMerchant(p) \/ ReadLedger(p)
        PROVE  (HolderInv /\ ChargeOnRecord /\ NoDoubleCharge)'
    <2>1. /\ latch' = latch /\ Sent' = Sent
          /\ \A q \in Pods \ {p} : run'[q] = run[q]
      BY <1>1, <1>3 DEF CronFires, ReadMerchant, ReadLedger, Return, Sent
    <2>2. run'[p].at \in {"idle", "merchant", "ledger", "claim"}
      <3>1. CASE CronFires(p)
        <4>1. \/ run' = run /\ run[p].at = "idle"
              \/ run' = [run EXCEPT ![p] = [run[p] EXCEPT !.at = "merchant",
                                                          !.month = PreviousMonth]]
          BY <3>1 DEF CronFires
        <4> QED
          BY <1>1, <4>1
      <3>2. CASE ReadMerchant(p)
        <4>1. \/ run' = [run EXCEPT ![p] = Idle]
              \/ run' = [run EXCEPT ![p] = [run[p] EXCEPT !.at = "ledger",
                                                          !.tier = merchant.tier]]
          BY <3>2 DEF ReadMerchant, Return
        <4> QED
          BY <1>1, <4>1
      <3>3. CASE ReadLedger(p)
        <4> DEFINE due == Fee[run[p].tier][gmv[run[p].month]]
        <4>1. \/ run' = [run EXCEPT ![p] = Idle]
              \/ run' = [run EXCEPT ![p] = [run[p] EXCEPT !.at = "claim", !.fee = due]]
          BY <3>3 DEF ReadLedger, Return
        <4> HIDE DEF due
        <4> QED
          BY <1>1, <4>1
      <3> QED
        BY <1>3, <3>1, <3>2, <3>3
    <2> QED
      BY <2>1, <2>2, QuietStep DEF Holds
  <1>4. ASSUME NEW p \in Pods, Claim(p)
        PROVE  (HolderInv /\ ChargeOnRecord /\ NoDoubleCharge)'
    <2> DEFINE m == run[p].month
    <2>1. CASE latch[m].charged
      <3>1. /\ latch' = latch /\ Sent' = Sent /\ ~Holds(p)'
            /\ \A q \in Pods \ {p} : run'[q] = run[q]
        BY <1>1, <1>4, <2>1 DEF Claim, Return, Sent, Holds
      <3> QED
        BY <3>1, QuietStep
    <2>2. CASE ~latch[m].charged
      <3>1. m \in Months /\ run[p].fee \in Fees
        BY <1>1
      <3>2. /\ latch' = [latch EXCEPT ![m] = [latch[m] EXCEPT !.charged = TRUE,
                                                             !.fee = run[p].fee]]
            /\ Sent' = Sent /\ run' = [run EXCEPT ![p].at = "charge"]
        BY <1>4, <2>2 DEF Claim, Goto, Sent
      <3>3. /\ latch'[m].charged /\ latch'[m].fee = run[p].fee
            /\ \A k \in Months \ {m} : latch'[k] = latch[k]
        BY <1>1, <3>1, <3>2
      <3>4. /\ run'[p].at = "charge" /\ run'[p].month = m /\ run'[p].fee = run[p].fee
            /\ \A q \in Pods \ {p} : run'[q] = run[q]
        BY <1>1, <3>2
      <3> HIDE DEF m
      <3>5. /\ \A c \in Sent : c.month # m
            /\ \A q \in Pods : Holds(q) => run[q].month # m
        BY <2>2 DEF IInv, HolderInv, ChargeOnRecord
      <3>6. \A q \in Pods : run[q].month \in Months
        BY <1>1
      <3>7. Sent \subseteq Charges /\ \A c \in Sent : c.month \in Months
        BY <1>1 DEF TypeOK, Sent, Charges
      <3>8. HolderInv'
        BY <3>2, <3>3, <3>4, <3>5, <3>6 DEF IInv, HolderInv, Holds
      <3>9. ChargeOnRecord' /\ NoDoubleCharge'
        BY <3>2, <3>3, <3>5, <3>7 DEF IInv, ChargeOnRecord, NoDoubleCharge
      <3> QED
        BY <3>8, <3>9
    <2> QED
      BY <2>1, <2>2
  <1>5. ASSUME NEW p \in Pods, run[p].at = "charge", latch' = latch, ~Holds(p)',
               \A q \in Pods \ {p} : run'[q] = run[q],
               Sent' = Sent \cup {ChargeOf(p)}
        PROVE  (HolderInv /\ ChargeOnRecord /\ NoDoubleCharge)'
    <2>1. /\ ChargeOf(p).month = run[p].month /\ ChargeOf(p).fee = run[p].fee
          /\ Holds(p)
      BY <1>5 DEF ChargeOf, Holds
    <2>2. /\ latch[run[p].month].charged /\ latch[run[p].month].fee = run[p].fee
          /\ \A c \in Sent : c.month # run[p].month
          /\ \A q \in Pods \ {p} : Holds(q) => run[q].month # run[p].month
      BY <1>5, <2>1 DEF IInv, HolderInv
    <2>3. HolderInv'
      BY <1>5, <2>1, <2>2 DEF IInv, HolderInv, Holds
    <2>4. ChargeOnRecord' /\ NoDoubleCharge'
      BY <1>5, <2>1, <2>2 DEF IInv, ChargeOnRecord, NoDoubleCharge
    <2> QED
      BY <2>3, <2>4
  <1>6. ASSUME NEW p \in Pods, CallPaddle(p)
        PROVE  (HolderInv /\ ChargeOnRecord /\ NoDoubleCharge)'
    <2>1. latch' = latch /\ run[p].at = "charge" /\ \A q \in Pods \ {p} : run'[q] = run[q]
      BY <1>1, <1>6 DEF CallPaddle, Goto, Return
    <2>2. CASE Goto(p, "release") /\ UNCHANGED <<wire, paddle>>
      <3>1. /\ run'[p].at = "release" /\ run'[p].month = run[p].month
            /\ run'[p].fee = run[p].fee /\ Sent' = Sent
        BY <1>1, <2>2 DEF Goto, Sent
      <3> QED
        BY <2>1, <3>1, QuietStep DEF Holds
    <2>3. CASE /\ Goto(p, "anchor") \/ Return(p)
               /\ Sent' = Sent \cup {ChargeOf(p)}
      <3>1. ~Holds(p)'
        BY <1>1, <2>3 DEF Goto, Return, Holds
      <3> QED
        BY <1>5, <2>1, <2>3, <3>1
    <2> QED
      BY <1>6, <2>2, <2>3 DEF CallPaddle, Sent
  <1>7. ASSUME NEW p \in Pods, ReleaseLatch(p)
        PROVE  (HolderInv /\ ChargeOnRecord /\ NoDoubleCharge)'
    <2> DEFINE m == run[p].month
    <2>1. /\ ~Holds(p)' /\ Sent' = Sent /\ Holds(p) /\ m \in Months
          /\ \A q \in Pods \ {p} : run'[q] = run[q]
      BY <1>1, <1>7 DEF ReleaseLatch, Return, Holds, Sent
    <2>2. /\ \A c \in Sent : c.month # m
          /\ \A q \in Pods \ {p} : Holds(q) => run[q].month # m
      BY <2>1 DEF IInv, HolderInv
    <2>3. \A k \in Months \ {m} : latch'[k] = latch[k]
      BY <1>1, <1>7, <2>1 DEF ReleaseLatch
    <2> HIDE DEF m
    <2>4. \A q \in Pods : run[q].month \in Months
      BY <1>1
    <2>5. \A c \in Sent : c.month \in Months
      BY <1>1 DEF TypeOK, Sent, Charges
    <2>6. HolderInv'
      BY <2>1, <2>2, <2>3, <2>4 DEF IInv, HolderInv, Holds
    <2>7. ChargeOnRecord' /\ NoDoubleCharge'
      BY <2>1, <2>2, <2>3, <2>5 DEF IInv, ChargeOnRecord, NoDoubleCharge
    <2> QED
      BY <2>6, <2>7
  <1>8. ASSUME NEW p \in Pods, AnchorCharge(p)
        PROVE  (HolderInv /\ ChargeOnRecord /\ NoDoubleCharge)'
    <2>1. /\ ~Holds(p)' /\ Sent' = Sent
          /\ \A q \in Pods \ {p} : run'[q] = run[q]
      BY <1>1, <1>8 DEF AnchorCharge, Return, Holds, Sent
    <2>2. run[p].month \in Months
      BY <1>1
    <2>3. \A k \in Months : latch'[k].charged = latch[k].charged /\ latch'[k].fee = latch[k].fee
      BY <1>1, <1>8, <2>2 DEF AnchorCharge
    <2>4. \A q \in Pods : run[q].month \in Months
      BY <1>1
    <2>5. \A c \in Sent : c.month \in Months
      BY <1>1 DEF TypeOK, Sent, Charges
    <2>6. HolderInv'
      BY <2>1, <2>3, <2>4 DEF IInv, HolderInv, Holds
    <2>7. ChargeOnRecord' /\ NoDoubleCharge'
      BY <2>1, <2>3, <2>5 DEF IInv, ChargeOnRecord, NoDoubleCharge
    <2> QED
      BY <2>6, <2>7
  <1>9. ASSUME NEW p \in Pods, Crash(p)
        PROVE  (HolderInv /\ ChargeOnRecord /\ NoDoubleCharge)'
    <2>1. /\ latch' = latch /\ ~Holds(p)' /\ \A q \in Pods \ {p} : run'[q] = run[q]
      BY <1>1, <1>9 DEF Crash, Return, Holds
    <2>2. Sent' = Sent \/ (run[p].at = "charge" /\ Sent' = Sent \cup {ChargeOf(p)})
      BY <1>9 DEF Crash, Sent
    <2> QED
      BY <1>5, <2>1, <2>2, QuietStep
  <1>10. ASSUME NEW c \in wire, Settle(c)
         PROVE  (HolderInv /\ ChargeOnRecord /\ NoDoubleCharge)'
    <2>1. latch' = latch /\ run' = run /\ Sent' \subseteq Sent
      BY <1>10 DEF Settle, Sent
    <2> QED
      BY <2>1 DEF IInv, HolderInv, ChargeOnRecord, NoDoubleCharge, Holds
  <1> QED
    BY <1>2, <1>3, <1>4, <1>6, <1>7, <1>8, <1>9, <1>10
       DEF Next, Advance, vars, Accrue, NextMonth, ChangeTier, Subscribe, Churn

\* The initial state satisfies the invariant.
LEMMA InitIInv == Init => IInv
  <1> SUFFICES ASSUME Init PROVE IInv
    OBVIOUS
  <1>1. 0 \in Months /\ 0 \in Fees /\ 0 \in 0..MaxGmv
    BY DEF Months, Fees
  <1>2. /\ latch \in [Months -> [charged : BOOLEAN, fee : Fees, anchored : BOOLEAN]]
        /\ merchant \in [tier : Tiers, active : BOOLEAN, subscribed : BOOLEAN]
    BY <1>1 DEF Init, Unclaimed
  <1>3. run \in [Pods -> [at : Labels, month : Months, tier : Tiers \cup {NoTier}, fee : Fees]]
    BY <1>1 DEF Init, Idle, Labels
  <1>4. \A p \in Pods : run[p].at = "idle"
    BY DEF Init, Idle
  <1>5. TypeOK
    BY <1>1, <1>2, <1>3, <1>4 DEF Init, TypeOK
  <1>6. HolderInv /\ ChargeOnRecord /\ NoDoubleCharge
    BY <1>4 DEF Init, HolderInv, ChargeOnRecord, NoDoubleCharge, Holds, Sent
  <1> QED
    BY <1>5, <1>6 DEF IInv

\* The inductive invariant.
LEMMA LatchInvariant == Spec => []IInv
  <1>1. IInv /\ [Next]_vars => IInv'
    BY TypeStep, HolderStep DEF IInv
  <1> QED
    BY InitIInv, <1>1, PTL DEF Spec

\* Every variable keeps its type.
THEOREM BillingTyped == Spec => []TypeOK
  <1>1. IInv => TypeOK
    BY DEF IInv
  <1> QED
    BY <1>1, LatchInvariant, PTL

\* However many pods run the cron, and whatever fails, at most one request per
\* month ever reaches Paddle.
THEOREM ChargedAtMostOnce == Spec => []NoDoubleCharge
  <1>1. IInv => NoDoubleCharge
    BY DEF IInv
  <1> QED
    BY <1>1, LatchInvariant, PTL

\* Whatever Paddle charged is on record in the latch, with its fee.
THEOREM ChargesOnRecord == Spec => []ChargeOnRecord
  <1>1. IInv => ChargeOnRecord
    BY DEF IInv
  <1> QED
    BY <1>1, LatchInvariant, PTL

Warranted(ledger, m, f) == \E t \in Tiers, g \in 0..ledger[m] : Fee[t][g] = f

\* A run is about a month that closed before its cron fired, and what it is
\* about to charge was due at some earlier GMV of that month.
ClosedInv ==
    /\ OnlyClosedMonths
    /\ \A p \in Pods :
          /\ run[p].at \in {"merchant", "ledger", "claim", "charge"} => run[p].month < now
          /\ run[p].at \in {"claim", "charge"} => Warranted(gmv, run[p].month, run[p].fee)

\* A closed month stays closed and its GMV only grows.
LEMMA MonthsAge ==
    ASSUME TypeOK, TypeOK', [Next]_vars
    PROVE  /\ \A m \in Months : m < now => m < now'
           /\ \A m \in Months : \A f : Warranted(gmv, m, f) => Warranted(gmv', m, f)
  <1>1. gmv \in [Months -> 0..MaxGmv] /\ gmv' \in [Months -> 0..MaxGmv]
    BY DEF TypeOK
  <1>2. now \in Nat /\ now' \in Nat
    BY DEF TypeOK, Months
  <1>3. CASE \E m \in Months, amt \in Sales : Accrue(m, amt)
    <2>1. PICK m \in Months, amt \in Sales : Accrue(m, amt)
      BY <1>3
    <2>2. now' = now /\ gmv' = [gmv EXCEPT ![m] = gmv[m] + amt]
      BY <2>1 DEF Accrue
    <2>3. \A k \in Months : gmv'[k] >= gmv[k] /\ gmv[k] \in Nat /\ gmv'[k] \in Nat
      BY <1>1, <2>2
    <2>4. \A k \in Months : 0..gmv[k] \subseteq 0..gmv'[k]
      BY <2>3
    <2> QED
      BY <2>2, <2>4 DEF Warranted
  <1>4. CASE NextMonth
    <2>1. now' = now + 1 /\ gmv' = gmv
      BY <1>4 DEF NextMonth
    <2>2. \A m \in Months : m < now => m < now'
      BY <1>2, <2>1 DEF Months
    <2> QED
      BY <2>1, <2>2
  <1>5. CASE UNCHANGED <<now, gmv>>
    BY <1>5 DEF Warranted
  <1> QED
    BY <1>3, <1>4, <1>5
       DEF Next, vars, Advance, ChangeTier, Subscribe, Churn, CronFires, ReadMerchant,
           ReadLedger, Claim, CallPaddle, ReleaseLatch, AnchorCharge, Crash, Settle

\* One pod moves, keeps its month or starts with the month just closed, keeps
\* its fee from the claim to the charge, and sends only what it came to charge.
LEMMA ClosedStep ==
    ASSUME TypeOK, TypeOK', ClosedInv, [Next]_vars PROVE ClosedInv'
  <1> DEFINE Run == [at : Labels, month : Months, tier : Tiers \cup {NoTier}, fee : Fees]
  <1>1. /\ run \in [Pods -> Run] /\ Idle.at = "idle"
        /\ \A p \in Pods : run[p].month \in Months
        /\ \A c \in Sent : c.month \in Months
    <2>1. run \in [Pods -> Run] /\ Idle.at = "idle"
      BY DEF TypeOK, Idle
    <2>2. \A c \in Sent : c.month \in Months
      BY DEF TypeOK, Sent, Charges
    <2> QED
      BY <2>1, <2>2
  <1>2. ASSUME UNCHANGED run, Sent' \subseteq Sent PROVE ClosedInv'
    <2>1. \A c \in Sent' : c.month < now' /\ Warranted(gmv', c.month, c.fee)
      <3>1. \A c \in Sent : c.month < now /\ Warranted(gmv, c.month, c.fee)
        BY DEF ClosedInv, OnlyClosedMonths, Warranted
      <3> QED
        BY <1>1, <1>2, <3>1, MonthsAge
    <2>2. \A p \in Pods :
             /\ run'[p].at \in {"merchant", "ledger", "claim", "charge"}
                    => run'[p].month < now'
             /\ run'[p].at \in {"claim", "charge"}
                    => Warranted(gmv', run'[p].month, run'[p].fee)
      BY <1>1, <1>2, MonthsAge DEF ClosedInv
    <2> QED
      BY <2>1, <2>2 DEF ClosedInv, OnlyClosedMonths, Warranted
  <1>3. ASSUME NEW p \in Pods, \A q \in Pods \ {p} : run'[q] = run[q],
               \/ Sent' = Sent
               \/ run[p].at = "charge" /\ Sent' = Sent \cup {ChargeOf(p)},
               \/ run'[p].at \in {"idle", "release", "anchor"}
               \/ /\ run'[p].month \in Months
                  /\ run'[p].month < now
                  /\ run'[p].at \in {"claim", "charge"}
                        => Warranted(gmv, run'[p].month, run'[p].fee)
        PROVE  ClosedInv'
    <2>1. OnlyClosedMonths'
      <3>1. \A c \in Sent : c.month < now /\ Warranted(gmv, c.month, c.fee)
        BY DEF ClosedInv, OnlyClosedMonths, Warranted
      <3>2. run[p].at = "charge" =>
               /\ ChargeOf(p).month \in Months /\ ChargeOf(p).month < now
               /\ Warranted(gmv, ChargeOf(p).month, ChargeOf(p).fee)
        BY <1>1 DEF ClosedInv, ChargeOf
      <3>3. \A c \in Sent' : c.month \in Months /\ c.month < now /\ Warranted(gmv, c.month, c.fee)
        BY <1>1, <1>3, <3>1, <3>2
      <3>4. \A c \in Sent' : c.month < now' /\ Warranted(gmv', c.month, c.fee)
        BY <3>3, MonthsAge
      <3> QED
        BY <3>4 DEF OnlyClosedMonths, Warranted
    <2>2. ASSUME NEW q \in Pods
          PROVE  /\ run'[q].at \in {"merchant", "ledger", "claim", "charge"}
                        => run'[q].month < now'
                 /\ run'[q].at \in {"claim", "charge"}
                        => Warranted(gmv', run'[q].month, run'[q].fee)
      <3>1. CASE q = p
        BY <1>3, <3>1, MonthsAge
      <3>2. CASE q # p
        BY <1>1, <1>3, <3>2, MonthsAge DEF ClosedInv
      <3> QED
        BY <3>1, <3>2
    <2> QED
      BY <2>1, <2>2 DEF ClosedInv
  <1>4. ASSUME NEW p \in Pods, CronFires(p) PROVE ClosedInv'
    <2>1. CASE UNCHANGED run
      BY <1>2, <1>4, <2>1 DEF CronFires, Sent
    <2>2. CASE run' = [run EXCEPT ![p] = [run[p] EXCEPT !.at = "merchant",
                                                       !.month = PreviousMonth]]
      <3>1. PreviousMonth \in Months /\ PreviousMonth < now
        BY <1>4 DEF CronFires, PreviousMonth, Months, TypeOK
      <3>2. /\ run'[p].at = "merchant" /\ run'[p].month = PreviousMonth
            /\ \A q \in Pods \ {p} : run'[q] = run[q]
        BY <1>1, <2>2
      <3> QED
        BY <1>3, <1>4, <3>1, <3>2 DEF CronFires, Sent
    <2> QED
      BY <1>4, <2>1, <2>2 DEF CronFires
  <1>5. ASSUME NEW p \in Pods, ReadMerchant(p) PROVE ClosedInv'
    <2>1. \/ run' = [run EXCEPT ![p] = Idle]
          \/ run' = [run EXCEPT ![p] = [run[p] EXCEPT !.at = "ledger", !.tier = merchant.tier]]
      BY <1>5 DEF ReadMerchant, Return
    <2>2. /\ \A q \in Pods \ {p} : run'[q] = run[q]
          /\ \/ run'[p].at = "idle"
             \/ run'[p].at = "ledger" /\ run'[p].month = run[p].month
      BY <1>1, <2>1
    <2>3. Sent' = Sent /\ run[p].month < now
      BY <1>5 DEF ReadMerchant, ClosedInv, Sent
    <2> QED
      BY <1>1, <1>3, <2>2, <2>3
  <1>6. ASSUME NEW p \in Pods, ReadLedger(p) PROVE ClosedInv'
    <2> DEFINE due == Fee[run[p].tier][gmv[run[p].month]]
    <2>1. Warranted(gmv, run[p].month, due)
      <3>1. run[p].tier \in Tiers /\ gmv[run[p].month] \in 0..gmv[run[p].month]
        BY <1>1, <1>6 DEF ReadLedger, TypeOK
      <3> QED
        BY <3>1 DEF Warranted
    <2>2. /\ Sent' = Sent /\ run[p].month < now
          /\ \/ run' = [run EXCEPT ![p] = Idle]
             \/ run' = [run EXCEPT ![p] = [run[p] EXCEPT !.at = "claim", !.fee = due]]
      BY <1>6 DEF ReadLedger, ClosedInv, Return, Sent
    <2> HIDE DEF due
    <2>3. CASE run' = [run EXCEPT ![p] = Idle]
      BY <1>1, <1>3, <2>2, <2>3
    <2>4. CASE run' = [run EXCEPT ![p] = [run[p] EXCEPT !.at = "claim", !.fee = due]]
      <3>1. run'[p] = [run[p] EXCEPT !.at = "claim", !.fee = due]
        BY <1>1, <2>4
      <3>2. run'[p].month = run[p].month /\ run'[p].fee = due
        BY <1>1, <3>1
      <3>3. \A q \in Pods \ {p} : run'[q] = run[q]
        BY <1>1, <2>4
      <3> QED
        BY <1>1, <1>3, <2>1, <2>2, <3>2, <3>3
    <2> QED
      BY <2>2, <2>3, <2>4
  <1>7. ASSUME NEW p \in Pods, Claim(p) PROVE ClosedInv'
    <2>1. run' = [run EXCEPT ![p] = Idle] \/ run' = [run EXCEPT ![p].at = "charge"]
      BY <1>7 DEF Claim, Return, Goto
    <2>2. /\ \A q \in Pods \ {p} : run'[q] = run[q]
          /\ \/ run'[p].at = "idle"
             \/ run'[p].month = run[p].month /\ run'[p].fee = run[p].fee
      BY <1>1, <2>1
    <2>3. /\ Sent' = Sent /\ run[p].month < now
          /\ Warranted(gmv, run[p].month, run[p].fee)
      BY <1>7 DEF Claim, ClosedInv, Sent
    <2> QED
      BY <1>1, <1>3, <2>2, <2>3
  <1>8. ASSUME NEW p \in Pods,
               CallPaddle(p) \/ ReleaseLatch(p) \/ AnchorCharge(p) \/ Crash(p)
        PROVE  ClosedInv'
    <2>1. \/ run' = [run EXCEPT ![p] = Idle]
          \/ run' = [run EXCEPT ![p].at = "release"]
          \/ run' = [run EXCEPT ![p].at = "anchor"]
      BY <1>8 DEF CallPaddle, ReleaseLatch, AnchorCharge, Crash, Return, Goto
    <2>2. /\ \A q \in Pods \ {p} : run'[q] = run[q]
          /\ run'[p].at \in {"idle", "release", "anchor"}
      BY <1>1, <2>1
    <2>3. Sent' = Sent \/ (run[p].at = "charge" /\ Sent' = Sent \cup {ChargeOf(p)})
      BY <1>8 DEF CallPaddle, ReleaseLatch, AnchorCharge, Crash, Sent
    <2> QED
      BY <1>3, <2>2, <2>3
  <1>9. ASSUME NEW c \in wire, Settle(c) PROVE ClosedInv'
    BY <1>2, <1>9 DEF Settle, Sent
  <1>10. CASE UNCHANGED <<run, wire, paddle>>
    BY <1>2, <1>10 DEF Sent
  <1> QED
    BY <1>4, <1>5, <1>6, <1>7, <1>8, <1>9, <1>10
       DEF Next, Advance, vars, Accrue, NextMonth, ChangeTier, Subscribe, Churn

\* A month is charged only after it closed, and for no more than its ledger row
\* warranted, although the fee is computed from reads made before the latch.
THEOREM ClosedMonthsOnly == Spec => []OnlyClosedMonths
  <1>1. Init => ClosedInv
    BY DEF Init, ClosedInv, OnlyClosedMonths, Sent, Idle
  <1>2. TypeOK /\ TypeOK' /\ ClosedInv /\ [Next]_vars => ClosedInv'
    BY ClosedStep
  <1>3. ClosedInv => OnlyClosedMonths
    BY DEF ClosedInv
  <1> QED
    BY <1>1, <1>2, <1>3, BillingTyped, PTL DEF Spec

Claimed == {m \in Months : latch[m].charged}
Charged == [m \in Months |-> {c \in paddle : c.month = m}]

\* A step of billing is a step of the promise, or changes nothing it sees.
LEMMA PromiseStep ==
    ASSUME IInv, IInv', [Next]_vars
    PROVE  [Promise!Next]_<<Claimed, Charged>>
  <1>1. /\ TypeOK /\ latch \in [Months -> [charged : BOOLEAN, fee : Fees, anchored : BOOLEAN]]
        /\ run \in [Pods -> [at : Labels, month : Months,
                             tier : Tiers \cup {NoTier}, fee : Fees]]
    BY DEF IInv, TypeOK
  <1>2. CASE UNCHANGED <<latch, paddle>>
    BY <1>2 DEF Claimed, Charged
  <1>3. ASSUME NEW c \in Charges, paddle' = paddle \cup {c}, latch' = latch, c \notin paddle,
               latch[c.month].charged, \A d \in paddle : d.month # c.month
        PROVE  [Promise!Next]_<<Claimed, Charged>>
    <2>1. c.month \in Months
      BY DEF Charges
    <2>2. Claimed' = Claimed /\ c.month \in Claimed
      BY <1>3, <2>1 DEF Claimed
    <2>3. Charged[c.month] = {}
      BY <1>3, <2>1 DEF Charged
    <2>4. Charged' = [Charged EXCEPT ![c.month] = {c}]
      BY <1>3, <2>1 DEF Charged
    <2>5. Promise!Charge(c.month)
      BY <2>1, <2>2, <2>3, <2>4 DEF Promise!Charge, Claimed, Charged
    <2> QED
      BY <2>1, <2>5 DEF Promise!Next
  <1>4. ASSUME NEW p \in Pods, Claim(p)
        PROVE  [Promise!Next]_<<Claimed, Charged>>
    <2>0. PICK m \in Months : m = run[p].month
      BY <1>1
    <2>1. paddle' = paddle
      BY <1>4 DEF Claim
    <2>2. CASE latch[m].charged
      BY <1>2, <1>4, <2>0, <2>1, <2>2 DEF Claim
    <2>3. CASE ~latch[m].charged
      <3>1. latch' = [latch EXCEPT ![m] = [latch[m] EXCEPT !.charged = TRUE, !.fee = run[p].fee]]
        BY <1>4, <2>0, <2>3 DEF Claim
      <3>2. latch'[m].charged /\ \A k \in Months \ {m} : latch'[k] = latch[k]
        BY <1>1, <2>1, <3>1
      <3>3. m \notin Claimed /\ Claimed' = Claimed \cup {m} /\ Charged' = Charged
        BY <2>1, <2>3, <3>2 DEF Claimed, Charged
      <3>4. Promise!Claim(m)
        BY <3>3 DEF Promise!Claim, Claimed, Charged
      <3> QED
        BY <3>4 DEF Promise!Next
    <2> QED
      BY <2>2, <2>3
  <1>5. ASSUME NEW p \in Pods, CallPaddle(p)
        PROVE  [Promise!Next]_<<Claimed, Charged>>
    <2>1. CASE paddle' = paddle \cup {ChargeOf(p)}
      <3>1. /\ ChargeOf(p) \in Charges /\ latch' = latch /\ Holds(p)
            /\ ChargeOf(p).month = run[p].month
        BY <1>1, <1>5 DEF ChargeOf, Charges, CallPaddle, Holds
      <3>2. latch[run[p].month].charged /\ \A d \in paddle : d.month # run[p].month
        BY <3>1 DEF IInv, HolderInv, Sent
      <3> QED
        BY <1>3, <2>1, <3>1, <3>2
    <2>2. CASE UNCHANGED paddle
      BY <1>2, <1>5, <2>2 DEF CallPaddle
    <2> QED
      BY <1>5, <2>1, <2>2 DEF CallPaddle
  <1>6. ASSUME NEW p \in Pods, ReleaseLatch(p)
        PROVE  [Promise!Next]_<<Claimed, Charged>>
    <2>0. PICK m \in Months : m = run[p].month
      BY <1>1
    <2>1. paddle' = paddle /\ Holds(p)
      BY <1>6 DEF ReleaseLatch, Holds
    <2>2. latch[m].charged /\ \A d \in paddle : d.month # m
      BY <2>0, <2>1 DEF IInv, HolderInv, Sent
    <2>3. CASE latch' = latch
      BY <1>2, <2>1, <2>3
    <2>4. CASE latch' = [latch EXCEPT ![m] = [latch[m] EXCEPT !.charged = FALSE, !.fee = 0]]
      <3>1. ~latch'[m].charged /\ \A k \in Months \ {m} : latch'[k] = latch[k]
        BY <1>1, <2>1, <2>4
      <3>2. m \in Claimed /\ Claimed' = Claimed \ {m} /\ Charged' = Charged
        BY <2>1, <2>2, <3>1 DEF Claimed, Charged
      <3>3. Charged[m] = {}
        BY <2>1, <2>2 DEF Charged
      <3>4. Promise!GiveUp(m)
        BY <3>2, <3>3 DEF Promise!GiveUp, Claimed, Charged
      <3> QED
        BY <3>4 DEF Promise!Next
    <2> QED
      BY <1>6, <2>0, <2>3, <2>4 DEF ReleaseLatch
  <1>7. ASSUME NEW p \in Pods, AnchorCharge(p)
        PROVE  [Promise!Next]_<<Claimed, Charged>>
    <2>1. run[p].month \in Months /\ paddle' = paddle
      BY <1>1, <1>7 DEF AnchorCharge
    <2>2. \A k \in Months : latch'[k].charged = latch[k].charged
      BY <1>1, <1>7, <2>1 DEF AnchorCharge
    <2>3. Claimed' = Claimed /\ Charged' = Charged
      BY <2>1, <2>2 DEF Claimed, Charged
    <2> QED
      BY <2>3
  <1>8. ASSUME NEW c \in wire, Settle(c)
        PROVE  [Promise!Next]_<<Claimed, Charged>>
    <2>1. CASE paddle' = paddle \cup {c} /\ c \notin paddle
      <3>1. c \in Charges /\ latch' = latch /\ latch[c.month].charged
        BY <1>1, <1>8 DEF Settle, TypeOK, IInv, ChargeOnRecord, Sent
      <3>2. \A d \in paddle : d.month # c.month
        BY <2>1 DEF IInv, NoDoubleCharge, Sent
      <3> QED
        BY <1>3, <2>1, <3>1, <3>2
    <2>2. CASE paddle' = paddle
      BY <1>2, <1>8, <2>2 DEF Settle
    <2> QED
      BY <1>8, <2>1, <2>2 DEF Settle
  <1>9. ASSUME NEW p \in Pods,
               CronFires(p) \/ ReadMerchant(p) \/ ReadLedger(p) \/ Crash(p)
        PROVE  UNCHANGED <<latch, paddle>>
    BY <1>9 DEF CronFires, ReadMerchant, ReadLedger, Crash
  <1>10. CASE \/ \E m \in Months, amt \in Sales : Accrue(m, amt)
              \/ NextMonth \/ Churn \/ UNCHANGED vars
              \/ \E t \in Tiers : ChangeTier(t) \/ Subscribe(t)
    BY <1>2, <1>10 DEF vars, Accrue, NextMonth, ChangeTier, Subscribe, Churn
  <1> QED
    BY <1>2, <1>4, <1>5, <1>6, <1>7, <1>8, <1>9, <1>10 DEF Next, Advance

\* Billing keeps its promise: GmvOverage implements MonthlyCharge.
THEOREM BillingKeepsPromise == Spec => PromiseKept
  <1>1. Init => Promise!Init
    BY DEF Init, Promise!Init, Unclaimed
  <1>2. IInv /\ IInv' /\ [Next]_vars => [Promise!Next]_<<Claimed, Charged>>
    BY PromiseStep
  <1>3. [Promise!Next]_<<Claimed, Charged>> => [Promise!Next]_Promise!vars
    BY DEF Promise!vars, Claimed, Charged
  <1> QED
    BY <1>1, <1>2, <1>3, LatchInvariant, PTL DEF Spec, PromiseKept, Promise!Spec
=============================================================================
