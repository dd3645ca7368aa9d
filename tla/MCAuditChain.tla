------------------------------ MODULE MCAuditChain ------------------------------
(* Instances of AuditChain for TLC. *)
EXTENDS AuditChain

CONSTANTS e1, e2
================================================================================
