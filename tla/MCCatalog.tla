----------------------------- MODULE MCCatalog ------------------------------
(* Two requests, two tiers; one change in all, of any kind.                *)
EXTENDS Catalog
CONSTANTS b1, t1, t2, r1, r2, u, d
MCTopic == [j \in Jobs |-> IF j = u THEN "products/update" ELSE "products/delete"]
=============================================================================
