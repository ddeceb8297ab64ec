-------------------------- MODULE MCOrderPlacement --------------------------
(* Three requests for one buyer: a small one, a large one with the discount  *)
(* code, and one below the tier minimum.                                     *)
EXTENDS OrderPlacement, TLC

CONSTANTS r1, r2, r3

MCAmount    == r1 :> 2 @@ r2 :> 3 @@ r3 :> 1
MCInvoiced  == r1 :> 2 @@ r2 :> 4 @@ r3 :> 1
MCLimits    == {3, 5, NoLimit}
MCCodeUsers == {r1, r2}
=============================================================================
