--------------------------- MODULE MCBuyerIdentity ---------------------------
(* Two merchants share the person; m1 may uninstall.                          *)
EXTENDS BuyerIdentity, TLC

CONSTANTS m1, m2, b1, b2
=============================================================================
