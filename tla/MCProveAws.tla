----------------------------- MODULE MCProveAws -----------------------------
(* ProveAws for TLC: short loops, two faults. *)
EXTENDS ProveAws
=============================================================================
