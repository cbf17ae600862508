-------------------------- MODULE MCEvidenceLedger --------------------------
(* A handful of appends to an empty ledger.                                *)
EXTENDS EvidenceLedger
=============================================================================
