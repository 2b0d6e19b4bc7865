---------------------------- MODULE FileTransfer ----------------------------
(***************************************************************************)
(* What a download promises its caller: the blocks of one file, in order,  *)
(* none left out and none of another file, and success only with the last  *)
(* one.  It may fail at any time.  A download that took a block of another *)
(* one promises nothing more.                                              *)
(***************************************************************************)
EXTENDS Naturals

CONSTANTS File,       \* the files of the server
          Blocks      \* Blocks[f]: how many blocks a file has

VARIABLES file,       \* the file asked for
          got,        \* the blocks of it in memory
          outcome,    \* "none", "busy", "TRUE" or "FALSE"
          spoiled     \* TRUE once the promise is off

vars == <<file, got, outcome, spoiled>>

Init == /\ got = 0
        /\ outcome = "none"
        /\ spoiled = FALSE

Begin == /\ outcome # "busy"
         /\ file' \in File
         /\ got' = 0
         /\ outcome' = "busy"
         /\ spoiled' = FALSE

NextBlock == /\ outcome = "busy"
             /\ got' = got + 1
             /\ got' < Blocks[file]
             /\ UNCHANGED <<file, outcome, spoiled>>

LastBlock == /\ outcome = "busy"
             /\ got' = got + 1
             /\ got' = Blocks[file]
             /\ outcome' = "TRUE"
             /\ UNCHANGED <<file, spoiled>>

GiveUp == /\ outcome = "busy"
          /\ outcome' = "FALSE"
          /\ UNCHANGED <<file, got, spoiled>>

Spoil == outcome = "busy" /\ spoiled' = TRUE /\ file' = file

Refuse == /\ outcome # "busy"
          /\ outcome' = "FALSE"
          /\ UNCHANGED <<file, got, spoiled>>

Next == \/ ~ spoiled /\ (NextBlock \/ LastBlock \/ GiveUp)
        \/ Begin
        \/ Refuse
        \/ Spoil

Spec == Init /\ [][Next]_vars
=============================================================================
