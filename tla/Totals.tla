------------------------------- MODULE Totals -------------------------------
(***************************************************************************)
(* The sum of what several tasks hold, for the invariants that compare it  *)
(* with one count kept by the kernel.                                      *)
(***************************************************************************)
EXTENDS Integers, Functions

Total(f) == FoldFunction(+, 0, f)
=============================================================================
