------------------------------ MODULE MCAiBudget ------------------------------
(***************************************************************************)
(* AiBudget with concurrent calls and warnings across the end of a month.  *)
(***************************************************************************)
EXTENDS AiBudget, TLC

CONSTANTS c1, c2, w1, w2

MCSymmetry == Permutations(Caller) \cup Permutations(Monitor)

=============================================================================
