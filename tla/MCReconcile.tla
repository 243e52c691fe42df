----------------------------- MODULE MCReconcile -----------------------------
(* Two accounts, one source of requests beside the expiry worker.             *)
EXTENDS OverrideExpiry
=============================================================================
