------------------------------- MODULE Prover -------------------------------
(***************************************************************************)
(* What the proving system promises a declarant who holds a bundle: at     *)
(* most one journal leaves an execution, and it is the journal of a rule   *)
(* of some accepted bundle, evaluated on the whole of that bundle          *)
(* (interpreter contract, sections 4 and 7: h_B = root(B), F(B, w) = y).   *)
(***************************************************************************)
CONSTANTS
  Authentic,   (* the journals of native evaluations over whole bundles *)
  NoJournal

VARIABLE journal

Init == journal = NoJournal

Commit == journal = NoJournal /\ journal' \in Authentic

Spec == Init /\ [][Commit]_journal

=============================================================================
