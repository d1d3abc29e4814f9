----------------------------- MODULE MCCrmSync -----------------------------
(***************************************************************************)
(* CRM records and external observations for TLC.                           *)
(***************************************************************************)
EXTENDS CrmSync

CONSTANTS c1, o1, A, m1
=============================================================================
