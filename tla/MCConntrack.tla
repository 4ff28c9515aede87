----------------------------- MODULE MCConntrack -----------------------------
(* Small instances of Conntrack for TLC. *)
EXTENDS Conntrack, TLC

CONSTANTS f1, f2, cpu0, cpu1

Symmetry == Permutations({f1, f2}) \cup Permutations({cpu0, cpu1})
=============================================================================
