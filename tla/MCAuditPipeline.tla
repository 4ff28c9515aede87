--------------------------- MODULE MCAuditPipeline ---------------------------
(* Small instances of AuditPipeline for TLC. *)
EXTENDS AuditPipeline

CONSTANTS cpu0, cpu1
=============================================================================
