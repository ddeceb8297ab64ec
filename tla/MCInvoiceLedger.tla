--------------------------- MODULE MCInvoiceLedger ---------------------------
(* Two invoices of one buyer: one that can be paid in parts, with an        *)
(* orders/paid event, and a small one that competes for the credit row and  *)
(* the GMV bucket.                                                          *)
EXTENDS InvoiceLedger, TLC

CONSTANTS i1, i2, e1

MCTotal    == [i \in Invoices |-> IF i = i1 THEN 2 ELSE 1]
MCDueMonth == [i \in Invoices |-> 0]
MCOrderOf  == [e \in Events |-> i1]
=============================================================================
