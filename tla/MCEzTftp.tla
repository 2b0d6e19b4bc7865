------------------------------ MODULE MCEzTftp ------------------------------
(***************************************************************************)
(* Files for EzTftp: blocks of four bytes, frames of at least two, block   *)
(* numbers modulo four.                                                    *)
(***************************************************************************)
EXTENDS EzTftp, Sequences

(* Three blocks, the last one shorter than a frame; more blocks than there *)
(* are numbers.                                                            *)
Lengths == <<9, 13>>
=============================================================================
