------------------------------ MODULE MCPayout ------------------------------
(***************************************************************************)
(* Model values and symmetry for checking Payout with TLC.                 *)
(***************************************************************************)
EXTENDS Payout, TLC

CONSTANTS v1, d1, d2, w1, w2, c1, a1, a2

Symmetry == Permutations({d1, d2}) \cup Permutations({w1, w2}) \cup Permutations({a1, a2})
=============================================================================
