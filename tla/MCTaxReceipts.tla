---------------------------- MODULE MCTaxReceipts ----------------------------
(* A small instance of TaxReceipts.  Ids of rows are taken in order.          *)
EXTENDS TaxReceipts
=============================================================================
