---------------------------- MODULE EzBootFlash ----------------------------
(***************************************************************************)
(* The boot flash of src/source/ezboot (main/flash_29lvx.c): the loader at *)
(* its beginning, the saved configuration in the block behind the boot     *)
(* area.  Writing erases block by block, programs word by word, and        *)
(* compares what is there afterwards; SaveConfig (main/config.c) tries     *)
(* again without erasing.                                                  *)
(***************************************************************************)
EXTENDS EzCells

CONSTANTS BLKADDR,    \* start addresses of the blocks, in words
          NORSIZE,    \* words of the flash
          BOOT,       \* words of the boot area (128 KB), and where Cfg is
          Loader,     \* lengths of loader images
          RETRIES     \* times SaveConfig tries again (10)

ASSUME BootFlashAssumption ==
  /\ {NORSIZE, BOOT, RETRIES} \subseteq Nat
  /\ BLKADDR \in Seq(Nat) /\ BLKADDR # <<>> /\ BLKADDR[1] = 0
  /\ \A j, k \in DOMAIN BLKADDR : j < k => BLKADDR[j] < BLKADDR[k]
  /\ \E k \in DOMAIN BLKADDR : BLKADDR[k] = BOOT
  /\ BOOT + 2 < NORSIZE
  /\ Loader \subseteq 1 .. NORSIZE

VARIABLES nor,        \* the words
          Cfg,        \* the configuration in use
          burn,       \* the program operation under way
          kept,       \* history: the configuration saved, or NONE
          torn        \* history: a save did not come through

norVars == <<nor, Cfg, burn, kept, torn>>

-----------------------------------------------------------------------------
Word == 0 .. NORSIZE - 1

Code(n, i) == <<"code", n, i>>
MAGIC == <<"magic">>
Setting(c) == <<"cfg", c>>

NONE == <<"none">>
DONE == [do |-> "idle"]

(* A loader image, and TConfig, which begins with the magic number.        *)
LoaderWords(n) == [i \in 1 .. n |-> Code(n, i)]
ConfigWords(c) == <<MAGIC, Setting(c)>>

(* FB29LVx_GetBlockIndex, with 0 for an address outside.                   *)
BlockIndex(a) ==
  IF a >= NORSIZE THEN 0
  ELSE CHOOSE k \in DOMAIN BLKADDR :
         /\ BLKADDR[k] <= a
         /\ k + 1 \in DOMAIN BLKADDR => a < BLKADDR[k + 1]

(* Variant with a defect: the blocks to erase end one later. *)
LastBlock_more(dest, size) ==
  LET k == BlockIndex(dest + size)
  IN  IF k + 1 \in DOMAIN BLKADDR THEN k + 1 ELSE k

(* The last block to erase is that of the address behind the data.         *)
LastBlock(dest, size) == BlockIndex(dest + size)

BlockWords(k) == {a \in Word : BlockIndex(a) = k}

(* BootFlash_ProgramEx; with no place for it only the comparison is left.  *)
Program(dest, src, erase, save, tries) ==
  LET first == BlockIndex(dest)
      last  == LastBlock(dest, Len(src))
  IN  [do    |-> IF first = 0 \/ last = 0 THEN "verify"
                 ELSE IF erase THEN "erase" ELSE "write",
       at    |-> IF erase THEN first ELSE 1,
       last  |-> last, dest |-> dest, src |-> src, save |-> save,
       tries |-> tries]

NorInit(c) ==
  /\ nor \in { [a \in Word |-> IF a < n THEN Code(n, a + 1)
                               ELSE IF a = BOOT THEN MAGIC
                               ELSE IF a = BOOT + 1 THEN Setting(c)
                               ELSE ERASED] : n \in {k \in Loader : k <= BOOT} }
  /\ Cfg = c
  /\ burn = DONE
  /\ kept = c
  /\ torn = FALSE

-----------------------------------------------------------------------------
(* A loader is written, by a TFB command or from eztiny's memory.  Where   *)
(* LastBlock reaches the configuration it is erased.                       *)
WriteLoader(n) ==
  /\ burn.do = "idle"
  /\ burn' = Program(0, LoaderWords(n), TRUE, FALSE, 0)
  /\ kept' = IF n >= BOOT THEN NONE ELSE kept
  /\ UNCHANGED <<nor, Cfg, torn>>

SaveConfig(c) ==
  /\ burn.do = "idle"
  /\ Cfg' = c
  /\ burn' = Program(BOOT, ConfigWords(c), TRUE, TRUE, 0)
  /\ kept' = NONE
  /\ torn' = TRUE
  /\ UNCHANGED nor

EraseNorBlock ==
  /\ burn.do = "erase"
  /\ \/ /\ nor' = [a \in Word |-> IF a \in BlockWords(burn.at) THEN ERASED
                                                               ELSE nor[a]]
        /\ fails' = fails
        /\ burn' = IF burn.at = burn.last
                   THEN [burn EXCEPT !.do = "write", !.at = 1]
                   ELSE [burn EXCEPT !.at = @ + 1]
     \/ /\ nor' = [a \in Word |-> IF a \in BlockWords(burn.at) THEN MIXED
                                                               ELSE nor[a]]
        /\ Fail
        /\ burn' = [burn EXCEPT !.do = "verify"]
  /\ UNCHANGED <<Cfg, kept, torn>>

(* A word is written, again if it is not there afterwards; a failure ends  *)
(* the writing.                                                            *)
WriteWord ==
  /\ burn.do = "write"
  /\ burn.at <= Len(burn.src)
  /\ LET a == burn.dest + burn.at - 1
     IN  \/ /\ nor' = [nor EXCEPT ![a] = Programmed(nor[a], burn.src[burn.at])]
            /\ fails' = fails
            /\ burn' = [burn EXCEPT !.at = @ + 1]
         \/ /\ nor' = [nor EXCEPT ![a] = MIXED]
            /\ Fail
            /\ burn' = [burn EXCEPT !.do = "verify"]
  /\ UNCHANGED <<Cfg, kept, torn>>

WriteDone ==
  /\ burn.do = "write"
  /\ burn.at > Len(burn.src)
  /\ burn' = [burn EXCEPT !.do = "verify"]
  /\ UNCHANGED <<nor, Cfg, fails, kept, torn>>

Matches == \A i \in 1 .. Len(burn.src) : nor[burn.dest + i - 1] = burn.src[i]

(* Variant with a defect: the tries are not counted. *)
VerifyNor_forever ==
  /\ burn.do = "verify"
  /\ burn' = IF ~ Matches /\ burn.save
             THEN Program(burn.dest, burn.src, FALSE, TRUE, burn.tries)
             ELSE DONE
  /\ IF burn.save /\ Matches
     THEN kept' = Cfg /\ torn' = FALSE ELSE UNCHANGED <<kept, torn>>
  /\ UNCHANGED <<nor, Cfg, fails>>

VerifyNor ==
  /\ burn.do = "verify"
  /\ burn' = IF ~ Matches /\ burn.save /\ burn.tries < RETRIES
             THEN Program(burn.dest, burn.src, FALSE, TRUE, burn.tries + 1)
             ELSE DONE
  /\ IF burn.save /\ Matches
     THEN kept' = Cfg /\ torn' = FALSE ELSE UNCHANGED <<kept, torn>>
  /\ UNCHANGED <<nor, Cfg, fails>>

NorStep == EraseNorBlock \/ WriteWord \/ WriteDone \/ VerifyNor

(* Power fails: the block or the word under way is left half done.         *)
NorCut ==
  /\ \/ nor' = nor
     \/ /\ burn.do = "erase"
        /\ nor' = [a \in Word |-> IF a \in BlockWords(burn.at) THEN MIXED
                                                               ELSE nor[a]]
     \/ /\ burn.do = "write"
        /\ burn.at <= Len(burn.src)
        /\ nor' = [nor EXCEPT ![burn.dest + burn.at - 1] = MIXED]
  /\ burn' = DONE
  /\ UNCHANGED <<Cfg, kept, torn>>

(* A whole loader is where the processor starts.                           *)
Bootable == \E n \in Loader : \A i \in 1 .. n : nor[i - 1] = Code(n, i)
=============================================================================
