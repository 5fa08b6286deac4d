------------------------------ MODULE MCAudit ------------------------------
(* AuditTrail on the databases and calls of MCLlmio. *)
EXTENDS AuditTrail, MCLlmio
=============================================================================
