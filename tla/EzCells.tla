------------------------------ MODULE EzCells ------------------------------
(***************************************************************************)
(* Flash cells as ezboot's drivers see them: erasing sets all bits,        *)
(* programming only clears bits, and what an operation leaves behind that  *)
(* failed or was cut short is nobody's data.                               *)
(***************************************************************************)
EXTENDS Integers, Sequences

CONSTANT MAXFAIL      \* bound: operations that fail on good cells

VARIABLE fails        \* how many did so far

ASSUME CellsAssumption == MAXFAIL \in Nat

ERASED == <<"ff">>
MIXED == <<"mixed">>

Programmed(old, new) == IF old \in {ERASED, new} THEN new ELSE MIXED

Fail == fails < MAXFAIL /\ fails' = fails + 1
=============================================================================
