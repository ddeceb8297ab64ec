---------------------------- MODULE MCGmvOverage ----------------------------
(* Two tiers: one bills from a GMV of 1, the other from 2, at half the rate.  *)
EXTENDS GmvOverage, TLC

CONSTANTS starter, pro, p1, p2

MCFee == starter :> [g \in 0..MaxGmv |-> 2 * g]
           @@ pro :> [g \in 0..MaxGmv |-> IF g <= 1 THEN 0 ELSE g - 1]
=============================================================================
