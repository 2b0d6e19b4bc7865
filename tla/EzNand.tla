------------------------------- MODULE EzNand -------------------------------
(***************************************************************************)
(* The NAND store of src/source/ezboot (main/nand.c): a kernel and a       *)
(* ramdisk image, each in a partition of its own behind a page with its    *)
(* size, around the blocks that the scan at start found marked bad.        *)
(*                                                                         *)
(* Erasing and programming go block by block and page by page; results of  *)
(* both are ignored and the images are verified afterwards.  Sizes are     *)
(* counted in pages.                                                       *)
(***************************************************************************)
EXTENDS EzCells, FiniteSetsExt

CONSTANTS NBLOCK,     \* blocks of the chip
          SPB,        \* pages of a block (32)
          Reserve,    \* Reserve[p]: blocks a load leaves out (4, 12)
          Layout,     \* values of Cfg.NandPar, here in blocks
          Image,      \* images to store: sequences of pages
          Worn        \* sets of blocks that may be bad

KERNEL == 0
RAMDISK == 1
APPIMAGE == 2
Part == {KERNEL, RAMDISK, APPIMAGE}

Block == 0 .. NBLOCK - 1
Page  == 0 .. NBLOCK * SPB - 1

ASSUME NandAssumption ==
  /\ NBLOCK \in Nat \ {0} /\ SPB \in Nat \ {0}
  /\ Reserve \in [{KERNEL, RAMDISK} -> Nat]
  /\ Layout \subseteq [Part -> Nat]
  /\ \A l \in Layout : l[KERNEL] + l[RAMDISK] + l[APPIMAGE] <= NBLOCK
  /\ Image \subseteq Seq(Nat)
  /\ Worn \subseteq SUBSET Block

VARIABLES nand,       \* the pages
          worn,       \* blocks that are bad
          marked,     \* blocks that carry the mark of a bad one
          par,        \* Nand1Partition: the block counts
          BadBlock,   \* Nand1.BadBlock: what the scan found
          work,       \* the erase or copy under way
          good        \* history: the images verified

nandVars == <<nand, worn, marked, par, BadBlock, work, good>>

-----------------------------------------------------------------------------
Data(d) == <<"data", d>>
Header(n) == <<"size", n>>

NOTHING == [image |-> <<>>, sized |-> FALSE]

IDLE == [do |-> "idle"]

BaseBlock(p) == CASE p = KERNEL   -> 0
                  [] p = RAMDISK  -> par[KERNEL]
                  [] p = APPIMAGE -> par[KERNEL] + par[RAMDISK]

PartBlocks(p) == BaseBlock(p) .. BaseBlock(p) + par[p] - 1

(* The scan covers the partitions the loader uses.  Entries of VirBlock    *)
(* behind the last good block are never written: what they hold, erased    *)
(* ROM or an earlier scan, lies in no partition that comes to use them.    *)
Scanned(l) == 0 .. l[KERNEL] + l[RAMDISK] - 1

Usable == Scanned(par) \ BadBlock

VirBlock == [i \in 0 .. Cardinality(Usable) - 1 |->
               CHOOSE b \in Usable :
                 Cardinality({c \in Usable : c < b}) = i]

NOPAGE == -1

(* Variant with a defect: the end of the partition is not checked. *)
PageOfSector_open(p, s) ==
  LET i == BaseBlock(p) + (s \div SPB)
  IN  IF i \in DOMAIN VirBlock /\ VirBlock[i] >= BaseBlock(p)
      THEN VirBlock[i] * SPB + (s % SPB)
      ELSE NOPAGE

(* The page of a sector, if it lies in the partition.                      *)
PageOfSector(p, s) ==
  LET i == BaseBlock(p) + (s \div SPB)
  IN  IF i \in DOMAIN VirBlock /\ VirBlock[i] \in PartBlocks(p)
      THEN VirBlock[i] * SPB + (s % SPB)
      ELSE NOPAGE

NandInit(l) ==
  /\ nand = [q \in Page |-> ERASED]
  /\ worn \in Worn
  /\ marked = worn
  /\ par = l
  /\ BadBlock = worn \cap Scanned(l)
  /\ work = IDLE
  /\ good = [p \in {KERNEL, RAMDISK} |-> NOTHING]

(* Variant with a defect: the scan marks the good blocks. *)
NandFlash_Init_inverted(l) ==
  /\ par' = l
  /\ BadBlock' = Scanned(l) \ marked
  /\ work' = IDLE
  /\ good' = IF par' = par /\ BadBlock' = BadBlock THEN good
             ELSE [p \in {KERNEL, RAMDISK} |-> NOTHING]
  /\ UNCHANGED <<nand, worn, marked>>

(* At start: the layout of the configuration, and the scan. *)
NandFlash_Init(l) ==
  /\ par' = l
  /\ BadBlock' = marked \cap Scanned(l)
  /\ work' = IDLE
  /\ good' = IF par' = par /\ BadBlock' = BadBlock THEN good
             ELSE [p \in {KERNEL, RAMDISK} |-> NOTHING]
  /\ UNCHANGED <<nand, worn, marked>>

-----------------------------------------------------------------------------
(* Copying and erasing *)

Forget(p) == good' = [q \in DOMAIN good |-> IF q = p THEN NOTHING ELSE good[q]]

(* CopyTo_NandFlash_Kernel and _Ramdisk: erase, program, verify. *)
StartCopy(p, img) ==
  /\ work.do = "idle"
  /\ work' = [do |-> "erase", part |-> p, at |-> BaseBlock(p), spare |-> TRUE,
              image |-> img, copy |-> TRUE, sized |-> FALSE]
  /\ Forget(p)
  /\ UNCHANGED <<nand, worn, marked, par, BadBlock>>

(* The NEK, NER and NEA commands; "E" and NEA erase bad blocks as well.    *)
ErasePartition(p, spare) ==
  /\ work.do = "idle"
  /\ p = APPIMAGE => ~ spare
  /\ work' = [do |-> "erase", part |-> p, at |-> BaseBlock(p), spare |-> spare,
              image |-> <<>>, copy |-> FALSE, sized |-> FALSE]
  /\ Forget(p)
  /\ UNCHANGED <<nand, worn, marked, par, BadBlock>>

MayFail(b) == (b \in worn /\ fails' = fails) \/ Fail

PagesOf(b) == b * SPB .. b * SPB + SPB - 1

(* A block is erased, its mark too; or the chip reports a failure.         *)
EraseBlock(b) ==
  \/ /\ nand' = [q \in Page |-> IF q \in PagesOf(b) THEN ERASED ELSE nand[q]]
     /\ marked' = marked \ {b}
     /\ fails' = fails
  \/ /\ nand' = [q \in Page |-> IF q \in PagesOf(b) THEN MIXED ELSE nand[q]]
     /\ MayFail(b)
     /\ marked' = marked

(* Variant with a defect: blocks found bad are erased like the others. *)
EraseNext_bad ==
  /\ work.do = "erase"
  /\ work.at \in PartBlocks(work.part)
  /\ EraseBlock(work.at)
  /\ work' = [work EXCEPT !.at = @ + 1]
  /\ UNCHANGED <<worn, par, BadBlock, good>>

EraseNext ==
  /\ work.do = "erase"
  /\ work.at \in PartBlocks(work.part)
  /\ IF work.spare /\ work.at \in BadBlock
     THEN UNCHANGED <<nand, marked, fails>>
     ELSE EraseBlock(work.at)
  /\ work' = [work EXCEPT !.at = @ + 1]
  /\ UNCHANGED <<worn, par, BadBlock, good>>

(* Nand_ErasePartition returns TRUE whatever happened. *)
EraseDone ==
  /\ work.do = "erase"
  /\ work.at \notin PartBlocks(work.part)
  /\ work' = IF work.copy THEN [work EXCEPT !.do = "program", !.at = 0] ELSE IDLE
  /\ UNCHANGED <<nand, worn, marked, par, BadBlock, fails, good>>

(* Sector 0 holds the size. *)
SectorData(n) == IF n = 0 THEN Header(Len(work.image)) ELSE Data(work.image[n])

(* A page is programmed; that it could not be is not looked at.            *)
ProgramNext ==
  /\ work.do = "program"
  /\ work.at <= Len(work.image)
  /\ LET q == PageOfSector(work.part, work.at)
         new == SectorData(work.at)
     IN  IF q = NOPAGE
         THEN UNCHANGED <<nand, fails>> /\ work' = [work EXCEPT !.at = @ + 1]
         ELSE \/ /\ nand' = [nand EXCEPT ![q] = Programmed(nand[q], new)]
                 /\ fails' = fails
                 /\ work' = [work EXCEPT !.at = @ + 1,
                               !.sized = @ \/ nand'[q] = Header(Len(work.image))]
              \/ /\ nand' = [nand EXCEPT ![q] = MIXED]
                 /\ MayFail(q \div SPB)
                 /\ work' = [work EXCEPT !.at = @ + 1]
  /\ UNCHANGED <<worn, marked, par, BadBlock, good>>

(* What Nand_VerifyPartition compares with page n: a sector that cannot be *)
(* read leaves in the buffer what was there.                               *)
Buffer(p, n) ==
  LET readable == {k \in 1 .. n : PageOfSector(p, k) # NOPAGE}
  IN  IF readable = {} THEN MIXED ELSE nand[PageOfSector(p, Max(readable))]

(* Variant with a defect: the last page is not compared. *)
Verified_short(p, img) ==
  \A n \in 1 .. Len(img) - 1 : Buffer(p, n) = Data(img[n])

Verified(p, img) == \A n \in 1 .. Len(img) : Buffer(p, n) = Data(img[n])

Verify ==
  /\ work.do = "program"
  /\ work.at > Len(work.image)
  /\ good' = IF Verified(work.part, work.image)
             THEN [good EXCEPT ![work.part] = [image |-> work.image,
                                               sized |-> work.sized]]
             ELSE good
  /\ work' = IDLE
  /\ UNCHANGED <<nand, worn, marked, par, BadBlock, fails>>

NandStep == EraseNext \/ EraseDone \/ ProgramNext \/ Verify

(* Power fails: what is being erased or programmed is left half done.      *)
NandCut ==
  /\ \/ UNCHANGED <<nand, marked>>
     \/ /\ work.do = "erase"
        /\ work.at \in PartBlocks(work.part)
        /\ ~ (work.spare /\ work.at \in BadBlock)
        /\ nand' = [q \in Page |-> IF q \in PagesOf(work.at) THEN MIXED
                                                             ELSE nand[q]]
        /\ marked' \in {marked, marked \ {work.at}}
     \/ /\ work.do = "program"
        /\ work.at <= Len(work.image)
        /\ LET q == PageOfSector(work.part, work.at)
           IN  q # NOPAGE /\ nand' = [nand EXCEPT ![q] = MIXED]
        /\ marked' = marked
  /\ work' = IDLE
  /\ UNCHANGED <<worn, par, BadBlock, good>>

-----------------------------------------------------------------------------
(* Loading *)

OLD == <<"old">>

Smaller(a, b) == IF a < b THEN a ELSE b

(* Pages that a load reads at most; none of a partition that is smaller    *)
(* than the reserve.                                                       *)
Limit(p) == IF par[p] < Reserve[p] THEN 0 ELSE (par[p] - Reserve[p]) * SPB

(* The number of pages to read: of an erased header, which is -1, none; of *)
(* one that is nobody's, or of the stack if it cannot be read, any.        *)
Sizes(p) ==
  LET q == PageOfSector(p, 0)
      h == IF q = NOPAGE THEN MIXED ELSE nand[q]
  IN  IF h[1] = "size" THEN {Smaller(h[2], Limit(p))}
      ELSE IF h = ERASED THEN {0}
      ELSE 0 .. Limit(p)

(* Nand_ReadPartition: what is in memory afterwards, page by page.         *)
ReadPartition(p, n) ==
  [i \in 1 .. n |-> LET q == PageOfSector(p, i)
                    IN  IF q = NOPAGE THEN OLD ELSE nand[q]]
=============================================================================
