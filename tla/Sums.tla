-------------------------------- MODULE Sums --------------------------------
(***************************************************************************)
(* The sum of f[x] over the elements x of a finite set: what an aggregate  *)
(* query (_sum: { amount: true }) answers about the rows it selects.       *)
(***************************************************************************)
EXTENDS FiniteSetsExt

SumOver(f, S) == MapThenSumSet(LAMBDA x : f[x], S)
=============================================================================
