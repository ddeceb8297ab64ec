---------------------------- MODULE MCOrderEvents ---------------------------
(* An order, an update and a shipment, any two of which happen; two workers. *)
EXTENDS OrderEvents, TLC

CONSTANTS c, u, f, w1, w2

MCTopic == c :> "orders/create" @@ u :> "orders/updated" @@ f :> "fulfillments/create"
=============================================================================
