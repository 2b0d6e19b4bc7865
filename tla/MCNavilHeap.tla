---------------------------- MODULE MCNavilHeap ----------------------------
(***************************************************************************)
(* What memory may look like where mem_malloc wrote no header, and where   *)
(* a run stops: a spoiled heap promises nothing.                           *)
(***************************************************************************)
EXTENDS NavilHeap

Sound == spoiled = {}

Zeroed   == {[used |-> 0, size |-> 0]}
Whatever == [used : {0, 1}, size : {0, 2}]

\* A negative size, three small ones, and one that size + sizeof(header) turns
\* negative.
OddSizes == {-1, 0, 1, 2, 7}
=============================================================================
