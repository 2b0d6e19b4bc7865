------------------------------ MODULE EzStore ------------------------------
(***************************************************************************)
(* ezboot from power-on to the kernel (main/main.c, config.c,              *)
(* flash_cmd.c): the configuration in the boot flash decides where the     *)
(* images are in the NAND flash; commands at the prompt write both; power  *)
(* may fail at any time.                                                   *)
(***************************************************************************)
EXTENDS EzNand, EzBootFlash

CONSTANTS Default,    \* Default_Cfg
          MAXOPS,     \* bound: commands
          MAXCUT      \* bound: power failures while something is written

ASSUME StoreAssumption ==
  /\ Default \in Layout
  /\ BOOT \in Loader
  /\ {MAXOPS, MAXCUT} \subseteq Nat

VARIABLES mode,       \* "off", "start", "prompt", "linux" or "wild"
          ram,        \* the kernel and the ramdisk that were loaded
          ops,        \* commands so far
          cuts        \* power failures so far

storeVars == <<mode, ram, ops, cuts>>
vars == <<nandVars, norVars, storeVars, fails>>

Init == /\ NandInit(Default)
        /\ NorInit(Default)
        /\ fails = 0
        /\ mode = "off"
        /\ ram = <<>>
        /\ ops = 0
        /\ cuts = 0

-----------------------------------------------------------------------------
(* The layouts that LoadConfig may find.  Only the magic number is looked  *)
(* at: behind it there may be anything.                                    *)
Loaded ==
  IF nor[BOOT] # MAGIC THEN {Default}
  ELSE IF nor[BOOT + 1][1] = "cfg" THEN {nor[BOOT + 1][2]}
  ELSE IF nor[BOOT + 1] = ERASED THEN {}
  ELSE Layout

LoadConfig(c) ==
  /\ c \in Loaded
  /\ Cfg' = c
  /\ NandFlash_Init(c)

(* Reset: a whole loader starts, reads its configuration, scans the NAND.  *)
PowerOn ==
  /\ mode = "off"
  /\ Bootable
  /\ \E c \in Layout : LoadConfig(c)
  /\ mode' = "start"
  /\ UNCHANGED <<nor, burn, kept, torn, fails, ram, ops, cuts>>

(* LoadConfig may find partition sizes that are no sizes: with them the    *)
(* scan leaves its tables.                                                 *)
Unscannable == nor[BOOT] = MAGIC /\ nor[BOOT + 1][1] # "cfg"

PowerOnWild ==
  /\ mode = "off"
  /\ Bootable
  /\ Unscannable
  /\ mode' = "wild"
  /\ UNCHANGED <<nandVars, norVars, fails, ram, ops, cuts>>

(* eztiny put a loader of full length into memory: it copies itself.       *)
SelfCopy_BootLoader ==
  /\ mode = "off"
  /\ ops < MAXOPS
  /\ \E c \in Layout : LoadConfig(c)
  /\ burn' = Program(0, LoaderWords(BOOT), TRUE, FALSE, 0)
  /\ kept' = NONE
  /\ mode' = "prompt"
  /\ ops' = ops + 1
  /\ UNCHANGED <<nor, torn, fails, ram, cuts>>

(* It loads the configuration and scans before it copies itself.           *)
SelfCopyWild ==
  /\ mode = "off"
  /\ ops < MAXOPS
  /\ Unscannable
  /\ mode' = "wild"
  /\ ops' = ops + 1
  /\ UNCHANGED <<nandVars, norVars, fails, ram, cuts>>

(* Nobody pressed the key: CopyImage, and the kernel starts.               *)
Autoboot ==
  /\ mode = "start"
  /\ \E copied \in { {KERNEL}, {KERNEL, RAMDISK} } :
       \E size \in [copied -> UNION {Sizes(p) : p \in copied}] :
         /\ \A p \in copied : size[p] \in Sizes(p)
         /\ ram' = [p \in copied |-> ReadPartition(p, size[p])]
  /\ mode' = "linux"
  /\ UNCHANGED <<nandVars, norVars, fails, ops, cuts>>

BootMenuKey ==
  /\ mode = "start"
  /\ mode' = "prompt"
  /\ UNCHANGED <<nandVars, norVars, fails, ram, ops, cuts>>

Idle == work.do = "idle" /\ burn.do = "idle"

Command ==
  /\ mode = "prompt"
  /\ Idle
  /\ ops < MAXOPS
  /\ ops' = ops + 1
  /\ UNCHANGED <<mode, ram, cuts, fails>>

(* TFK, TFR, ZFK, ZFR; NEK, NER, NEA. *)
NandCommand ==
  /\ Command
  /\ \/ \E p \in {KERNEL, RAMDISK}, img \in Image : StartCopy(p, img)
     \/ \E p \in Part, spare \in BOOLEAN : ErasePartition(p, spare)
  /\ UNCHANGED norVars

(* TFB and ZFB; SET with S.  The layout in use stays what it was.          *)
BootFlashCommand ==
  /\ Command
  /\ (\E n \in Loader : WriteLoader(n)) \/ (\E c \in Layout : SaveConfig(c))
  /\ UNCHANGED nandVars

(* SET with P. *)
Apply ==
  /\ Command
  /\ Cfg' \in Layout
  /\ UNCHANGED <<nandVars, nor, burn, kept, torn>>

Work == /\ mode = "prompt"
        /\ \/ NandStep /\ UNCHANGED norVars
           \/ NorStep /\ UNCHANGED nandVars
        /\ UNCHANGED storeVars

(* A reset, the RST command, or the power fails.                           *)
PowerOff ==
  /\ mode # "off"
  /\ IF Idle THEN cuts' = cuts ELSE cuts < MAXCUT /\ cuts' = cuts + 1
  /\ NandCut
  /\ NorCut
  /\ mode' = "off"
  /\ ram' = <<>>
  /\ UNCHANGED <<ops, fails>>

(* The loader is gone and nobody brings another. *)
Dead == mode = "off" /\ (~ Bootable \/ Loaded = {}) /\ UNCHANGED vars

Next == \/ PowerOn
        \/ PowerOnWild
        \/ SelfCopy_BootLoader
        \/ SelfCopyWild
        \/ Autoboot
        \/ BootMenuKey
        \/ NandCommand
        \/ BootFlashCommand
        \/ Apply
        \/ Work
        \/ PowerOff
        \/ Dead

Spec == Init /\ [][Next]_vars

(* A command that writes goes on until it is done.                         *)
FairSpec == Spec /\ WF_vars(Work)

-----------------------------------------------------------------------------
(* Properties *)

TypeOK ==
  /\ \A q \in Page : nand[q][1] \in {"ff", "mixed", "size", "data"}
  /\ marked \subseteq worn
  /\ BadBlock \subseteq worn \cap Scanned(par)
  /\ par \in Layout /\ Cfg \in Layout
  /\ work.do \in {"idle", "erase", "program"}
  /\ burn.do \in {"idle", "erase", "write", "verify"}
  /\ kept \in Layout \cup {NONE}
  /\ mode \in {"off", "start", "prompt", "linux", "wild"}

(* Only the partition of the command is written, wherever bad blocks have  *)
(* moved its sectors (NAND_GetPageFromSector and the range checks).        *)
StoresApart ==
  [][\A q \in Page : nand'[q] # nand[q] =>
       work.do # "idle" /\ (q \div SPB) \in PartBlocks(work.part)]_vars

(* Blocks found bad are neither erased nor programmed, unless the user     *)
(* asks for it or they are the application's.                              *)
BadSpared ==
  [][\A q \in Page : nand'[q] # nand[q] /\ (q \div SPB) \in BadBlock =>
       work.do = "erase" /\ ~ work.spare]_vars

(* What CopyTo_NandFlash verified is what the kernel starts with, up to    *)
(* the reserve, after any number of failures, resets and commands for      *)
(* other partitions - provided the layout and the marks of bad blocks are  *)
(* what they were, and the header, which is not verified, was written.     *)
(* A page for which there was no block passes the comparison, and is       *)
(* missing, only if it is like the one before.                             *)
ImageLoads ==
  \A p \in DOMAIN ram :
    LET g == good[p]
        n == Smaller(Len(g.image), Limit(p))
    IN  g.sized =>
          /\ Len(ram[p]) = n
          /\ \A i \in 1 .. n :
               \/ ram[p][i] = Data(g.image[i])
               \/ /\ ram[p][i] = OLD
                  /\ i > 1
                  /\ g.image[i] = g.image[i - 1]

(* The layout the loader starts with is the one saved last, until it is    *)
(* saved again, or a loader of full length is written; and a configuration *)
(* that is none is taken for one only after a save that did not come       *)
(* through.                                                                *)
LayoutKept ==
  /\ kept # NONE /\ mode \in {"start", "linux"} => par = kept
  /\ mode = "wild" => torn

(* Every command comes to an end, a save that fails as well.               *)
CommandsEnd == mode = "prompt" /\ ~ Idle ~> Idle

(* The blocks that are erased are those of the space to be written         *)
(* (flash_29lvx.c:464).                                                    *)
ErasesItsSpace ==
  [][burn.do = "erase" /\ nor' # nor =>
       \E a \in burn.dest .. burn.dest + Len(burn.src) - 1 :
         BlockIndex(a) = burn.at]_vars
=============================================================================
