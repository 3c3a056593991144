----------------------------- MODULE MCInvoices -----------------------------
(***************************************************************************)
(* One booking and the worker of one or two processes.                     *)
(***************************************************************************)
EXTENDS Invoices

CONSTANTS w1, w2
=============================================================================
