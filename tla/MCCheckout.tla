----------------------------- MODULE MCCheckout -----------------------------
(* Three clicks, two openings of the dialog, two carts.                      *)
EXTENDS Checkout, TLC

CONSTANTS r1, r2, r3, k1, k2, p1, p2
=============================================================================
