------------------------------ MODULE Sentinel -------------------------------
(***************************************************************************)
(* What a column or a variable holds while it holds nothing: null.         *)
(***************************************************************************)
EXTENDS Naturals

CONSTANT None

\* Null is not a count.
ASSUME SentinelAssumption == None \notin Nat
=============================================================================
