----------------------------- MODULE MCDashboard -----------------------------
(* Small instances of the audit pipeline and the dashboard for TLC. *)
EXTENDS Dashboard

CONSTANTS cpu0, cpu1
=============================================================================
