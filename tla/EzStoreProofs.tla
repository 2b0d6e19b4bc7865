---------------------------- MODULE EzStoreProofs ----------------------------
(***************************************************************************)
(* Theorems about EzStore, for any chip, layouts, images, block tables,    *)
(* bad blocks, failures and power cuts.                                    *)
(***************************************************************************)
EXTENDS EzStore, FiniteSetTheorems, TLAPS

(* The page with the size is there.                                        *)
HeaderThere(p, img) ==
  /\ PageOfSector(p, 0) # NOPAGE
  /\ nand[PageOfSector(p, 0)] = Header(Len(img))

WorkType ==
  {IDLE} \cup [do : {"erase", "program"}, part : Part, at : Nat, spare : BOOLEAN,
               image : Seq(Nat), copy : BOOLEAN, sized : BOOLEAN]

NandType ==
  /\ nand = [q \in Page |-> nand[q]]
  /\ \A q \in Page : nand[q][1] \in {"ff", "mixed", "size", "data"}
  /\ worn \subseteq Block
  /\ marked \subseteq worn
  /\ par \in Layout
  /\ BadBlock \subseteq worn \cap Scanned(par)
  /\ work \in WorkType
  /\ good \in [{KERNEL, RAMDISK} -> [image : Seq(Nat), sized : BOOLEAN]]

(* While a partition is written nothing is known of it; a copy that wrote  *)
(* the size has it in its page from then on.                               *)
WorkInv ==
  work # IDLE =>
    /\ work.copy \/ work.do = "program" => work.part # APPIMAGE
    /\ work.part # APPIMAGE => good[work.part] = NOTHING
    /\ work.sized => /\ work.do = "program"
                     /\ work.at > 0
                     /\ HeaderThere(work.part, work.image)

(* What was verified is still there.                                       *)
GoodInv ==
  \A p \in {KERNEL, RAMDISK} :
    /\ Verified(p, good[p].image)
    /\ good[p].sized => HeaderThere(p, good[p].image)

NandInv == NandType /\ WorkInv /\ GoodInv

-----------------------------------------------------------------------------
(* Numbers *)

(* Every set of naturals that is not empty has a least element: the least  *)
(* of its initial segments, ordered by inclusion.                          *)
LEMMA LeastExists ==
  ASSUME NEW T \in SUBSET Nat, T # {}
  PROVE  \E x \in T : \A y \in T : x <= y
<1> DEFINE Seg == {0 .. k : k \in T}
           R == StrictSubsetOrdering(Nat)
<1>1. IsWellFoundedOn(R, FiniteSubsetsOf(Nat))
  BY FS_StrictSubsetOrderingWellFounded
<1>2. Seg \subseteq FiniteSubsetsOf(Nat)
  <2>1. \A k \in T : IsFiniteSet(0 .. k) /\ 0 .. k \subseteq Nat
    BY FS_Interval
  <2>. QED BY <2>1 DEF FiniteSubsetsOf
<1>3. Seg # {}
  OBVIOUS
<1>4. PICK s \in Seg : \A t \in Seg : ~ (<<t, s>> \in R)
  <2> HIDE DEF Seg, R
  <2>. QED BY <1>1, <1>2, <1>3, WFMin
<1>5. PICK x \in T : s = 0 .. x
  OBVIOUS
<1>6. ASSUME NEW y \in T, ~ (x <= y) PROVE FALSE
  <2>1. 0 .. y \subseteq 0 .. x /\ x \in 0 .. x /\ x \notin 0 .. y
    BY <1>6
  <2>2. <<0 .. y, 0 .. x>> \in R
    BY <2>1 DEF StrictSubsetOrdering
  <2>. QED BY <1>4, <1>5, <2>2
<1>. QED
  BY <1>6

(* A bounded one has a greatest. *)
LEMMA MaxExists ==
  ASSUME NEW n \in Nat, NEW S \in SUBSET (0 .. n), S # {}
  PROVE  Max(S) \in S /\ \A y \in S : y <= Max(S)
<1> DEFINE T == {n - x : x \in S}
<1>2. T \subseteq Nat
  OBVIOUS
<1>3. T # {}
  <2>1. PICK x : x \in S
    OBVIOUS
  <2>2. n - x \in T
    BY <2>1
  <2>. QED BY <2>2
<1> HIDE DEF T
<1>4. PICK x \in T : \A y \in T : x <= y
  BY <1>2, <1>3, LeastExists
<1>5. PICK m \in S : x = n - m
  BY DEF T
<1>6. \A y \in S : y <= m
  BY <1>4, <1>5 DEF T
<1>. QED
  BY <1>6 DEF Max

(* A finite one has an element that i others precede: counting the         *)
(* predecessors is one-to-one, and so reaches every number.                *)
LEMMA RankExists ==
  ASSUME NEW S \in SUBSET Nat, IsFiniteSet(S), NEW i \in Nat, i < Cardinality(S)
  PROVE  \E b \in S : Cardinality({c \in S : c < b}) = i
<1> DEFINE B(b) == {c \in S : c < b}
           N == Cardinality(S)
           f == [b \in S |-> Cardinality(B(b))]
           I == 0 .. N - 1
<1>1. N \in Nat
  BY FS_CardinalityType
<1>2. \A b \in S : IsFiniteSet(B(b)) /\ Cardinality(B(b)) \in I
  <2> SUFFICES ASSUME NEW b \in S PROVE IsFiniteSet(B(b)) /\ Cardinality(B(b)) \in I
    OBVIOUS
  <2>1. B(b) \in SUBSET S /\ b \notin B(b)
    OBVIOUS
  <2>2. /\ IsFiniteSet(B(b))
        /\ Cardinality(B(b)) <= N
        /\ N = Cardinality(B(b)) => S = B(b)
    <3> HIDE DEF B
    <3>. QED BY <2>1, FS_Subset
  <2>3. Cardinality(B(b)) \in Nat
    <3> HIDE DEF B
    <3>. QED BY <2>2, FS_CardinalityType
  <2>. QED BY <1>1, <2>1, <2>2, <2>3
<1>3. ASSUME NEW b \in S, NEW d \in S, b < d PROVE Cardinality(B(b)) # Cardinality(B(d))
  <2>1. B(b) \in SUBSET B(d) /\ b \in B(d) /\ b \notin B(b)
    <3>1. b \in Nat /\ d \in Nat /\ b < d
      BY <1>3
    <3>2. ASSUME NEW c \in B(b) PROVE c \in B(d)
      <4>1. c \in S /\ c \in Nat /\ c < b
        OBVIOUS
      <4>2. c < d
        BY <3>1, <4>1
      <4>. QED BY <4>1, <4>2
    <3>3. b \in B(d) /\ b \notin B(b)
      BY <3>1
    <3>4. B(b) \in SUBSET B(d)
      <4> HIDE DEF B
      <4>. QED BY <3>2
    <3>. QED BY <3>3, <3>4
  <2>2. IsFiniteSet(B(d))
    BY <1>2
  <2> HIDE DEF B
  <2>. QED BY <2>1, <2>2, FS_Subset
<1>4. f \in Injection(S, I)
  <2>1. f \in [S -> I]
    BY <1>2
  <2>2. \A b, d \in S : f[b] = f[d] => b = d
    <3> SUFFICES ASSUME NEW b \in S, NEW d \in S, b # d PROVE f[b] # f[d]
      OBVIOUS
    <3>1. b < d \/ d < b
      OBVIOUS
    <3> HIDE DEF B
    <3>. QED BY <1>3, <3>1
  <2> HIDE DEF f
  <2>. QED BY <2>1, <2>2 DEF Injection, IsInjective
<1>5. IsFiniteSet(I) /\ Cardinality(I) = N
  <2>1. N - 1 \in Int /\ 0 \in Int
    BY <1>1
  <2>2. /\ IsFiniteSet(0 .. N - 1)
        /\ Cardinality(0 .. N - 1) = IF 0 > N - 1 THEN 0 ELSE N - 1 - 0 + 1
    <3> HIDE DEF N
    <3>. QED BY <2>1, FS_Interval
  <2>. QED BY <1>1, <2>2
<1>6. f \in Surjection(S, I)
  <2>1. Cardinality(S) = Cardinality(I)
    BY <1>5
  <2> HIDE DEF f, I, N
  <2>. QED BY <1>4, <1>5, <2>1, FS_Injection
<1>7. \E b \in S : f[b] = i
  <2>1. i \in I
    BY <1>1
  <2> HIDE DEF f, I
  <2>. QED BY <1>6, <2>1 DEF Surjection
<1>. QED
  BY <1>7
-----------------------------------------------------------------------------
(* Blocks, pages and sectors *)

LEMMA BlockOfPage ==
  ASSUME NEW b \in Nat, NEW r \in 0 .. SPB - 1
  PROVE  /\ (b * SPB + r) \div SPB = b
         /\ (b * SPB + r) % SPB = r
<1> DEFINE q == b * SPB + r
<1>1. SPB \in Nat /\ SPB > 0 /\ b * SPB \in Nat
  BY NandAssumption, SMTT(30)
<1>2. q \in Nat
  BY <1>1
<1>3. q \div SPB \in Int /\ q % SPB \in 0 .. SPB - 1 /\ q = SPB * (q \div SPB) + (q % SPB)
  BY <1>1, <1>2, SMTT(30)
<1>4. \A d \in Int, m \in 0 .. SPB - 1 : SPB * d + m = q => d = b /\ m = r
  BY <1>1, SMTT(30)
<1>. QED
  BY <1>3, <1>4

LEMMA PagesOfBlock ==
  ASSUME NEW b \in Nat, NEW q \in PagesOf(b)
  PROVE  q \div SPB = b
<1>1. SPB \in Nat /\ b * SPB \in Nat
  BY NandAssumption, SMTT(30)
<1>2. q - b * SPB \in 0 .. SPB - 1 /\ b * SPB + (q - b * SPB) = q
  BY <1>1 DEF PagesOf
<1>. QED
  BY <1>2, BlockOfPage

LEMMA Sectors ==
  ASSUME NEW s \in Nat
  PROVE  /\ s \div SPB \in Nat
         /\ s % SPB \in 0 .. SPB - 1
         /\ s = SPB * (s \div SPB) + (s % SPB)
BY NandAssumption, SMTT(30)

LEMMA Layouts ==
  ASSUME NandType
  PROVE  /\ par \in [Part -> Nat]
         /\ par[KERNEL] + par[RAMDISK] + par[APPIMAGE] <= NBLOCK
         /\ \A p \in Part : BaseBlock(p) \in Nat /\ par[p] \in Nat
BY NandAssumption DEF NandType, Part, BaseBlock, KERNEL, RAMDISK, APPIMAGE

(* The partitions have no block in common. *)
LEMMA PartsApart ==
  ASSUME NandType, NEW p \in Part, NEW o \in Part, p # o
  PROVE  PartBlocks(p) \cap PartBlocks(o) = {}
BY Layouts DEF PartBlocks, BaseBlock, Part, KERNEL, RAMDISK, APPIMAGE

(* VirBlock lists the good blocks in their order. *)
LEMMA VirBlocks ==
  ASSUME NandType, NEW i \in DOMAIN VirBlock
  PROVE  /\ VirBlock[i] \in Usable
         /\ Cardinality({c \in Usable : c < VirBlock[i]}) = i
<1>1. Usable \subseteq Nat /\ IsFiniteSet(Usable)
  <2>1. par[KERNEL] + par[RAMDISK] - 1 \in Int
    BY Layouts DEF Part
  <2>2. IsFiniteSet(Scanned(par)) /\ Scanned(par) \subseteq Nat
    BY <2>1, FS_Interval DEF Scanned
  <2>. QED BY <2>2, FS_Difference DEF Usable
<1>2. Cardinality(Usable) \in Nat
  BY <1>1, FS_CardinalityType
<1>3. i \in Nat /\ i < Cardinality(Usable)
  BY <1>2 DEF VirBlock
<1>4. \E b \in Usable : Cardinality({c \in Usable : c < b}) = i
  BY <1>1, <1>3, RankExists
<1>5. VirBlock[i] = CHOOSE b \in Usable :
                      Cardinality({c \in Usable : c < b}) = i
  BY DEF VirBlock
<1>. QED
  BY <1>4, <1>5

(* A sector that can be reached lies in a good block of its partition.     *)
LEMMA SectorPage ==
  ASSUME NandType, NEW p \in Part, NEW s \in Nat, PageOfSector(p, s) # NOPAGE
  PROVE  /\ PageOfSector(p, s) \in Page
         /\ (PageOfSector(p, s) \div SPB) \in PartBlocks(p) \ BadBlock
<1> DEFINE i == BaseBlock(p) + (s \div SPB)
           b == VirBlock[i]
           r == s % SPB
<1>1. /\ i \in DOMAIN VirBlock
      /\ b \in PartBlocks(p)
      /\ PageOfSector(p, s) = b * SPB + r
  BY DEF PageOfSector
<1>2. b \in Usable
  BY <1>1, VirBlocks
<1>3. b \in Nat /\ b + 1 <= NBLOCK /\ b \notin BadBlock
  <2>1. par[KERNEL] \in Nat /\ par[RAMDISK] \in Nat /\ par[APPIMAGE] \in Nat
    BY Layouts DEF Part
  <2>2. NBLOCK \in Nat
    BY NandAssumption
  <2>. QED BY <1>2, <2>1, <2>2, Layouts DEF Usable, Scanned
<1>4. r \in 0 .. SPB - 1
  BY Sectors
<1>5. (b * SPB + r) \div SPB = b
  BY <1>3, <1>4, BlockOfPage
<1>6. b * SPB + r \in Page
  <2> HIDE DEF b, r
  <2>1. NBLOCK \in Nat /\ SPB \in Nat
    BY NandAssumption
  <2>2. (b + 1) * SPB <= NBLOCK * SPB
    BY <1>3, <2>1, SMTT(30)
  <2>3. (b + 1) * SPB = b * SPB + SPB /\ b * SPB \in Nat /\ NBLOCK * SPB \in Nat
    BY <1>3, <2>1, SMTT(30)
  <2>. QED BY <1>4, <2>1, <2>2, <2>3 DEF Page
<1>. QED
  BY <1>1, <1>3, <1>5, <1>6

(* Different sectors lie in different pages. *)
LEMMA SectorsApart ==
  ASSUME NandType, NEW p \in Part, NEW s \in Nat, NEW t \in Nat,
         PageOfSector(p, s) # NOPAGE, PageOfSector(p, s) = PageOfSector(p, t)
  PROVE  s = t
<1> DEFINE i(x) == BaseBlock(p) + (x \div SPB)
           b(x) == VirBlock[i(x)]
           r(x) == x % SPB
<1>1. \A x \in {s, t} : /\ i(x) \in DOMAIN VirBlock
                        /\ b(x) \in PartBlocks(p)
                        /\ PageOfSector(p, x) = b(x) * SPB + r(x)
  BY DEF PageOfSector
<1>2. \A x \in {s, t} : b(x) \in Nat /\ r(x) \in 0 .. SPB - 1
  <2>1. BaseBlock(p) \in Nat /\ par[p] \in Nat
    BY Layouts
  <2>2. \A x \in {s, t} : b(x) \in Nat
    BY <1>1, <2>1 DEF PartBlocks
  <2>. QED BY <2>2, Sectors
<1>3. b(s) = b(t) /\ r(s) = r(t)
  <2> HIDE DEF b, r
  <2>1. \A x \in {s, t} : /\ (b(x) * SPB + r(x)) \div SPB = b(x)
                         /\ (b(x) * SPB + r(x)) % SPB = r(x)
    BY <1>2, BlockOfPage
  <2>. QED BY <1>1, <2>1
<1>4. i(s) = i(t)
  <2>1. \A x \in {s, t} : Cardinality({c \in Usable : c < VirBlock[i(x)]}) = i(x)
    <3> HIDE DEF i
    <3>. QED BY <1>1, VirBlocks
  <2>. QED BY <1>3, <2>1
<1>5. s \div SPB = t \div SPB
  BY <1>4, Sectors, Layouts
<1>. QED
  BY <1>3, <1>5, Sectors
(* Where sectors lie depends on the layout and the map of bad blocks only. *)
LEMMA SectorsStay ==
  ASSUME par' = par, BadBlock' = BadBlock, NEW p \in Part, NEW s \in Nat
  PROVE  PageOfSector(p, s)' = PageOfSector(p, s)
BY DEF PageOfSector, VirBlock, Usable, Scanned, BaseBlock, PartBlocks

(* What a partition holds is not changed by writing elsewhere.             *)
LEMMA ContentStays ==
  ASSUME NandType, par' = par, BadBlock' = BadBlock, NEW p \in Part,
         \A q \in Page : (q \div SPB) \in PartBlocks(p) => nand'[q] = nand[q],
         NEW img
  PROVE  /\ HeaderThere(p, img) => HeaderThere(p, img)'
         /\ Verified(p, img) => Verified(p, img)'
<1>1. \A s \in Nat : PageOfSector(p, s)' = PageOfSector(p, s)
  BY SectorsStay
<1>2. \A s \in Nat : PageOfSector(p, s) # NOPAGE =>
                     nand'[PageOfSector(p, s)] = nand[PageOfSector(p, s)]
  BY SectorPage
<1>3. HeaderThere(p, img) => HeaderThere(p, img)'
  BY <1>1, <1>2 DEF HeaderThere
<1>4. \A n \in Nat : Buffer(p, n)' = Buffer(p, n)
  <2> SUFFICES ASSUME NEW n \in Nat PROVE Buffer(p, n)' = Buffer(p, n)
    OBVIOUS
  <2> DEFINE S == {k \in 1 .. n : PageOfSector(p, k) # NOPAGE}
  <2>1. {k \in 1 .. n : PageOfSector(p, k)' # NOPAGE} = S
    BY <1>1
  <2>2. CASE S = {}
    BY <2>1, <2>2 DEF Buffer
  <2>3. CASE S # {}
    <3> DEFINE m == Max(S)
    <3>1. m \in S
      <4>1. S \in SUBSET (0 .. n)
        OBVIOUS
      <4> HIDE DEF S
      <4>. QED BY <2>3, <4>1, MaxExists
    <3>2. m \in Nat /\ PageOfSector(p, m) # NOPAGE
      BY <3>1
    <3>3. Buffer(p, n) = nand[PageOfSector(p, m)]
      BY <2>3 DEF Buffer
    <3>4. Buffer(p, n)' = nand'[PageOfSector(p, m)']
      <4>1. \A T : T = {k \in 1 .. n : PageOfSector(p, k)' # NOPAGE} => Max(T) = Max(S)
        BY <2>1
      <4>. QED BY <2>1, <2>3 DEF Buffer
    <3>. QED BY <1>1, <1>2, <3>2, <3>3, <3>4
  <2>. QED BY <2>2, <2>3
<1>. QED
  BY <1>3, <1>4 DEF Verified
-----------------------------------------------------------------------------
(* Steps of the NAND store *)

LEMMA Works ==
  ASSUME NandType, work # IDLE
  PROVE  /\ work \in [do : {"erase", "program"}, part : Part, at : Nat,
                      spare : BOOLEAN, image : Seq(Nat), copy : BOOLEAN,
                      sized : BOOLEAN]
         /\ work.do # "idle"
BY DEF NandType, WorkType

LEMMA IdleWork == IDLE.do = "idle"
BY DEF IDLE

(* The pages of a block that is erased, or fails to be.                    *)
LEMMA BlockChanges ==
  ASSUME NandType, NEW b \in Nat, NEW c,
         nand' = [q \in Page |-> IF q \in PagesOf(b) THEN c ELSE nand[q]]
  PROVE  \A q \in Page : nand'[q] # nand[q] => q \div SPB = b
BY PagesOfBlock

(* What a step of a command, or a power failure in it, writes lies in the  *)
(* partition of the command, and not in a block found bad.                 *)
Spares ==
  \A q \in Page : nand'[q] # nand[q] =>
    /\ work # IDLE
    /\ (q \div SPB) \in PartBlocks(work.part)
    /\ (q \div SPB) \in BadBlock => work.do = "erase" /\ ~ work.spare

LEMMA EraseSpares ==
  ASSUME NandType, work.do = "erase", work.at \in PartBlocks(work.part),
         ~ (work.spare /\ work.at \in BadBlock), NEW c,
         nand' = [q \in Page |-> IF q \in PagesOf(work.at) THEN c ELSE nand[q]]
  PROVE  Spares
<1>1. work # IDLE
  BY IdleWork
<1>2. work.at \in Nat
  BY <1>1, Works
<1>. QED
  BY <1>1, <1>2, BlockChanges DEF Spares

LEMMA ProgramSpares ==
  ASSUME NandType, work.do = "program",
         PageOfSector(work.part, work.at) # NOPAGE, NEW c,
         nand' = [nand EXCEPT ![PageOfSector(work.part, work.at)] = c]
  PROVE  Spares
<1>1. work # IDLE
  BY IdleWork
<1>2. work.part \in Part /\ work.at \in Nat
  BY <1>1, Works
<1>3. (PageOfSector(work.part, work.at) \div SPB) \in PartBlocks(work.part) \ BadBlock
  BY <1>2, SectorPage
<1>4. \A q \in Page : nand'[q] # nand[q] => q = PageOfSector(work.part, work.at)
  BY DEF NandType
<1>. QED
  BY <1>1, <1>3, <1>4 DEF Spares

LEMMA StepSpares ==
  ASSUME NandType, NandStep \/ NandCut
  PROVE  Spares
<1>1. CASE EraseNext
  <2>1. CASE work.spare /\ work.at \in BadBlock
    BY <1>1, <2>1 DEF EraseNext, Spares
  <2>2. CASE ~ (work.spare /\ work.at \in BadBlock)
    <3>1. \E c \in {ERASED, MIXED} :
            nand' = [q \in Page |-> IF q \in PagesOf(work.at) THEN c ELSE nand[q]]
      BY <1>1, <2>2 DEF EraseNext, EraseBlock
    <3>. QED BY <1>1, <2>2, <3>1, EraseSpares DEF EraseNext
  <2>. QED BY <2>1, <2>2
<1>2. CASE EraseDone
  BY <1>2 DEF EraseDone, Spares
<1>3. CASE ProgramNext
  <2>1. CASE PageOfSector(work.part, work.at) = NOPAGE
    BY <1>3, <2>1 DEF ProgramNext, Spares
  <2>2. CASE PageOfSector(work.part, work.at) # NOPAGE
    <3>1. \E c : nand' = [nand EXCEPT ![PageOfSector(work.part, work.at)] = c]
      BY <1>3, <2>2 DEF ProgramNext
    <3>. QED BY <1>3, <2>2, <3>1, ProgramSpares DEF ProgramNext
  <2>. QED BY <2>1, <2>2
<1>4. CASE Verify
  BY <1>4 DEF Verify, Spares
<1>5. CASE NandCut
  <2>1. CASE nand' = nand
    BY <2>1 DEF Spares
  <2>2. CASE /\ work.do = "erase"
             /\ work.at \in PartBlocks(work.part)
             /\ ~ (work.spare /\ work.at \in BadBlock)
             /\ nand' = [q \in Page |-> IF q \in PagesOf(work.at) THEN MIXED
                                                                 ELSE nand[q]]
    BY <2>2, EraseSpares
  <2>3. CASE /\ work.do = "program"
             /\ PageOfSector(work.part, work.at) # NOPAGE
             /\ nand' = [nand EXCEPT ![PageOfSector(work.part, work.at)] = MIXED]
    BY <2>3, ProgramSpares
  <2>. QED BY <1>5, <2>1, <2>2, <2>3 DEF NandCut
<1>. QED
  BY <1>1, <1>2, <1>3, <1>4, <1>5 DEF NandStep

(* What was verified stays, if nothing is written but what Spares allows.  *)
LEMMA GoodKept ==
  ASSUME NandInv, Spares, par' = par, BadBlock' = BadBlock,
         \A p \in {KERNEL, RAMDISK} : good'[p] = good[p] \/ good'[p] = NOTHING
  PROVE  GoodInv'
<1> SUFFICES ASSUME NEW p \in {KERNEL, RAMDISK}
             PROVE  /\ Verified(p, good[p].image)'
                    /\ good'[p].sized => HeaderThere(p, good[p].image)'
  BY DEF GoodInv
<1> USE DEF NandInv
<1>0. p \in Part /\ p # APPIMAGE
  BY DEF Part, KERNEL, RAMDISK, APPIMAGE
<1>1. CASE good'[p] = NOTHING
  <2>1. good'[p].image = <<>> /\ ~ good'[p].sized
    BY <1>1 DEF NOTHING
  <2>2. Len(<<>>) = 0
    OBVIOUS
  <2>. QED BY <2>1, <2>2 DEF Verified
<1>2. CASE good'[p] = good[p] /\ good'[p] # NOTHING
  <2>1. work # IDLE => work.part \in Part /\ work.part # p
    BY <1>0, <1>2, Works DEF WorkInv
  <2>2. \A q \in Page : (q \div SPB) \in PartBlocks(p) => nand'[q] = nand[q]
    BY <1>0, <2>1, PartsApart DEF Spares
  <2> DEFINE img == good[p].image
  <2>3. /\ HeaderThere(p, img) => HeaderThere(p, good[p].image)'
        /\ Verified(p, img) => Verified(p, good[p].image)'
    <3>1. \A i : /\ HeaderThere(p, i) => HeaderThere(p, i)'
                 /\ Verified(p, i) => Verified(p, i)'
      BY <1>0, <2>2, ContentStays
    <3>2. \A i : i = good'[p].image => /\ HeaderThere(p, i)' => HeaderThere(p, good[p].image)'
                                       /\ Verified(p, i)' => Verified(p, good[p].image)'
      BY DEF HeaderThere, Verified
    <3>. QED BY <1>2, <3>1, <3>2
  <2>4. /\ Verified(p, img)
        /\ good[p].sized => HeaderThere(p, img)
    BY DEF GoodInv
  <2>. QED BY <1>2, <2>3, <2>4
<1>. QED
  BY <1>1, <1>2

LEMMA NothingVerified ==
  ASSUME \A p \in {KERNEL, RAMDISK} : good'[p] = NOTHING
  PROVE  GoodInv'
<1>1. Len(<<>>) = 0
  OBVIOUS
<1>. QED
  BY <1>1 DEF GoodInv, Verified, NOTHING

LEMMA NothingTyped ==
  NOTHING \in [image : Seq(Nat), sized : BOOLEAN]
BY DEF NOTHING

LEMMA NandInitInv ==
  ASSUME NEW l \in Layout, NandInit(l)
  PROVE  NandInv
<1>1. NandType
  BY NandAssumption, NothingTyped DEF NandInit, NandType, WorkType, ERASED
<1>2. WorkInv
  BY DEF NandInit, WorkInv
<1>3. GoodInv
  <2>1. Len(<<>>) = 0
    OBVIOUS
  <2>. QED BY <2>1 DEF NandInit, GoodInv, Verified, NOTHING
<1>. QED
  BY <1>1, <1>2, <1>3 DEF NandInv

LEMMA ScanInv ==
  ASSUME NandInv, NEW l \in Layout, NandFlash_Init(l)
  PROVE  NandInv'
<1> USE DEF NandInv
<1>1. NandType'
  <2>1. good' \in [{KERNEL, RAMDISK} -> [image : Seq(Nat), sized : BOOLEAN]]
    BY NothingTyped DEF NandFlash_Init, NandType
  <2>. QED BY <2>1 DEF NandFlash_Init, NandType, WorkType, Scanned
<1>2. WorkInv'
  BY DEF NandFlash_Init, WorkInv
<1>3. GoodInv'
  <2>1. CASE par' = par /\ BadBlock' = BadBlock
    <3>1. Spares /\ good' = good
      BY <2>1 DEF NandFlash_Init, Spares
    <3>. QED BY <2>1, <3>1, GoodKept
  <2>2. CASE ~ (par' = par /\ BadBlock' = BadBlock)
    <3>1. good' = [p \in {KERNEL, RAMDISK} |-> NOTHING]
      BY <2>2 DEF NandFlash_Init
    <3>. QED BY <3>1, NothingVerified
  <2>. QED BY <2>1, <2>2
<1>. QED
  BY <1>1, <1>2, <1>3

LEMMA IdleNandInv ==
  ASSUME NandInv, UNCHANGED nandVars
  PROVE  NandInv'
<1> USE DEF NandInv, nandVars
<1>1. NandType'
  BY DEF NandType, WorkType, Scanned
<1>2. Spares
  BY DEF Spares
<1>3. GoodInv'
  BY <1>2, GoodKept
<1>4. WorkInv'
  BY DEF WorkInv, HeaderThere, PageOfSector, BaseBlock, VirBlock, Usable, Scanned,
         PartBlocks
<1>. QED
  BY <1>1, <1>3, <1>4

(* A command begins. *)
LEMMA BeginInv ==
  ASSUME NandInv, NEW p \in Part, NEW img \in Seq(Nat), NEW s \in BOOLEAN,
         NEW c \in BOOLEAN, c => p # APPIMAGE,
         work' = [do |-> "erase", part |-> p, at |-> BaseBlock(p), spare |-> s,
                  image |-> img, copy |-> c, sized |-> FALSE],
         Forget(p),
         UNCHANGED <<nand, worn, marked, par, BadBlock>>
  PROVE  NandInv'
<1> USE DEF NandInv
<1>0. DOMAIN good = {KERNEL, RAMDISK}
  BY DEF NandType
<1>1. NandType'
  <2>1. BaseBlock(p) \in Nat
    BY Layouts
  <2>2. work' \in WorkType
    BY <2>1 DEF WorkType
  <2>3. good' \in [{KERNEL, RAMDISK} -> [image : Seq(Nat), sized : BOOLEAN]]
    BY NothingTyped DEF Forget, NandType
  <2>. QED BY <2>2, <2>3 DEF NandType, Scanned
<1>2. WorkInv'
  <2>1. p # APPIMAGE => good'[p] = NOTHING
    BY <1>0 DEF Forget, Part
  <2>. QED BY <2>1 DEF WorkInv
<1>3. GoodInv'
  <2>1. \A o \in {KERNEL, RAMDISK} : good'[o] = good[o] \/ good'[o] = NOTHING
    BY <1>0 DEF Forget
  <2>. QED BY <2>1, GoodKept DEF Spares
<1>. QED
  BY <1>1, <1>2, <1>3

LEMMA EraseInv ==
  ASSUME NandInv, EraseNext
  PROVE  NandInv'
<1> USE DEF NandInv
<1>0. work # IDLE /\ ~ work.sized /\ Spares
  BY IdleWork, StepSpares DEF EraseNext, NandStep, WorkInv
<1>1. NandType'
  <2>1. work' \in WorkType
    BY <1>0, Works DEF EraseNext, WorkType
  <2>2. nand' = [q \in Page |-> nand'[q]]
    BY DEF EraseNext, EraseBlock, NandType
  <2>3. \A q \in Page : nand'[q][1] \in {"ff", "mixed", "size", "data"}
    BY DEF EraseNext, EraseBlock, NandType, ERASED, MIXED
  <2>4. marked' \subseteq worn
    BY DEF EraseNext, EraseBlock, NandType
  <2>. QED BY <2>1, <2>2, <2>3, <2>4 DEF EraseNext, NandType, Scanned
<1>2. WorkInv'
  BY <1>0, Works DEF EraseNext, WorkInv
<1>3. GoodInv'
  BY <1>0, GoodKept DEF EraseNext
<1>. QED
  BY <1>1, <1>2, <1>3

LEMMA EraseDoneInv ==
  ASSUME NandInv, EraseDone
  PROVE  NandInv'
<1> USE DEF NandInv
<1>0. work # IDLE /\ ~ work.sized /\ Spares
  BY IdleWork, StepSpares DEF EraseDone, NandStep, WorkInv
<1>1. NandType'
  <2>1. work' \in WorkType
    BY <1>0, Works DEF EraseDone, WorkType
  <2>. QED BY <2>1 DEF EraseDone, NandType, Scanned
<1>2. WorkInv'
  BY <1>0, Works DEF EraseDone, WorkInv
<1>3. GoodInv'
  BY <1>0, GoodKept DEF EraseDone
<1>. QED
  BY <1>1, <1>2, <1>3

(* The header of the copy under way, in the next state.                    *)
LEMMA HeaderNext ==
  ASSUME NEW o, NEW i, o = work'.part, i = work'.image, HeaderThere(o, i)'
  PROVE  HeaderThere(work.part, work.image)'
BY DEF HeaderThere, PageOfSector, BaseBlock, PartBlocks

LEMMA ProgramInv ==
  ASSUME NandInv, ProgramNext
  PROVE  NandInv'
<1> USE DEF NandInv
<1> DEFINE p == work.part
           q == PageOfSector(p, work.at)
<1>0. /\ work # IDLE /\ Spares
      /\ p \in {KERNEL, RAMDISK} /\ p \in Part
      /\ work.at \in Nat /\ work.image \in Seq(Nat)
  BY IdleWork, StepSpares, Works DEF ProgramNext, NandStep, WorkInv, Part
<1>1. NandType'
  <2>1. work' \in WorkType
    <3>1. \E z \in BOOLEAN : work' = [work EXCEPT !.at = @ + 1, !.sized = z]
      <4>1. work.sized \in BOOLEAN
        BY <1>0, Works
      <4>2. work = [work EXCEPT !.sized = work.sized]
        BY <1>0, Works
      <4>3. CASE work' = [work EXCEPT !.at = @ + 1]
        BY <1>0, <4>1, <4>3, Works
      <4>4. CASE work' = [work EXCEPT !.at = @ + 1,
                          !.sized = @ \/ nand'[q] = Header(Len(work.image))]
        BY <1>0, <4>1, <4>4
      <4>. QED BY <4>3, <4>4 DEF ProgramNext
    <3>2. /\ work \in [do : {"erase", "program"}, part : Part, at : Nat,
                       spare : BOOLEAN, image : Seq(Nat), copy : BOOLEAN,
                       sized : BOOLEAN]
      BY <1>0, Works
    <3>3. work.at + 1 \in Nat
      BY <1>0
    <3>4. work' \in [do : {"erase", "program"}, part : Part, at : Nat,
                     spare : BOOLEAN, image : Seq(Nat), copy : BOOLEAN,
                     sized : BOOLEAN]
      BY <3>1, <3>2, <3>3
    <3>. QED BY <3>4 DEF WorkType
  <2>2. nand' = [x \in Page |-> nand'[x]]
    BY DEF ProgramNext, NandType
  <2>3. \A x \in Page : nand'[x][1] \in {"ff", "mixed", "size", "data"}
    <3>1. \A old : Programmed(old, SectorData(work.at))[1] \in {"mixed", "size", "data"}
      BY DEF Programmed, MIXED, SectorData, Header, Data
    <3>2. q # NOPAGE => \/ nand' = [nand EXCEPT ![q] = Programmed(nand[q], SectorData(work.at))]
                        \/ nand' = [nand EXCEPT ![q] = MIXED]
      BY DEF ProgramNext
    <3>3. q = NOPAGE => nand' = nand
      BY DEF ProgramNext
    <3> HIDE DEF q
    <3>4. MIXED[1] = "mixed"
      BY DEF MIXED
    <3> SUFFICES ASSUME NEW x \in Page
                 PROVE  nand'[x][1] \in {"ff", "mixed", "size", "data"}
      OBVIOUS
    <3>5. \/ nand'[x] = nand[x]
          \/ nand'[x] = MIXED
          \/ nand'[x] = Programmed(nand[q], SectorData(work.at))
      BY <3>2, <3>3 DEF NandType
    <3>6. nand[x][1] \in {"ff", "mixed", "size", "data"}
      BY DEF NandType
    <3>. QED BY <3>1, <3>4, <3>5, <3>6
  <2>. QED BY <2>1, <2>2, <2>3 DEF ProgramNext, NandType, Scanned
<1>2. WorkInv'
  <2>1. /\ work'.do = "program" /\ work'.at = work.at + 1 /\ work'.part = p
        /\ work'.image = work.image /\ work'.copy = work.copy
    BY <1>0, Works DEF ProgramNext
  <2>2. \A o \in Part : PageOfSector(o, 0)' = PageOfSector(o, 0)
    BY SectorsStay DEF ProgramNext
  <2>5. ASSUME /\ PageOfSector(p, 0) # NOPAGE
                /\ nand'[PageOfSector(p, 0)] = Header(Len(work.image))
         PROVE  HeaderThere(work.part, work.image)'
    <3>1. ASSUME NEW o \in Part, NEW i, o = p, i = work.image
          PROVE  HeaderThere(o, i)'
      BY <2>2, <2>5, <3>1 DEF HeaderThere
    <3>. QED BY <1>0, <2>1, <3>1, HeaderNext
  <2>3. CASE work.sized
    <3>1. work.at > 0 /\ HeaderThere(p, work.image)
      BY <1>0, <2>3 DEF WorkInv
    <3>2. q # PageOfSector(p, 0)
      BY <1>0, <3>1, SectorsApart DEF HeaderThere
    <3>3. nand'[PageOfSector(p, 0)] = nand[PageOfSector(p, 0)]
      <4> DEFINE z == PageOfSector(p, 0)
      <4>1. z \in Page
        BY <1>0, <3>1, SectorPage DEF HeaderThere
      <4>2. \/ nand' = nand
            \/ \E c : nand' = [nand EXCEPT ![q] = c]
        BY DEF ProgramNext
      <4> HIDE DEF q, z
      <4>3. nand'[z] = nand[z]
        BY <3>2, <4>1, <4>2 DEF NandType, z
      <4>. QED BY <4>3 DEF z
    <3>4. HeaderThere(work.part, work.image)'
      BY <2>5, <3>1, <3>3 DEF HeaderThere
    <3>. QED BY <1>0, <2>1, <3>1, <3>4 DEF WorkInv, ProgramNext
  <2>4. CASE ~ work.sized
    <3>1. ASSUME work'.sized
          PROVE  q # NOPAGE /\ nand'[q] = Header(Len(work.image))
                 /\ nand'[q] = Programmed(nand[q], SectorData(work.at))
      <4>1. q # NOPAGE
        BY <1>0, <2>4, <3>1, Works DEF ProgramNext
      <4>2. q \in Page
        BY <1>0, <4>1, SectorPage
      <4>3. /\ nand' = [nand EXCEPT ![q] = Programmed(nand[q], SectorData(work.at))]
            /\ work' = [work EXCEPT !.at = @ + 1,
                          !.sized = @ \/ nand'[q] = Header(Len(work.image))]
        BY <1>0, <2>4, <3>1, <4>1, Works DEF ProgramNext
      <4> HIDE DEF q
      <4>4. nand'[q] = Programmed(nand[q], SectorData(work.at))
        BY <4>2, <4>3 DEF NandType
      <4>5. nand'[q] = Header(Len(work.image))
        BY <1>0, <2>4, <3>1, <4>3, Works
      <4>. QED BY <4>1, <4>4, <4>5
    <3>2. work'.sized => work.at = 0
      <4>1. \A old, d : Programmed(old, Data(d))[1] \in {"mixed", "data"}
        BY DEF Programmed, MIXED, Data
      <4>2. Header(Len(work.image))[1] = "size"
        BY DEF Header
      <4>. QED BY <3>1, <4>1, <4>2 DEF SectorData
    <3>3. work'.sized => HeaderThere(work.part, work.image)'
      BY <2>5, <3>1, <3>2
    <3>. QED BY <1>0, <2>1, <3>3 DEF WorkInv, ProgramNext
  <2>. QED BY <2>3, <2>4
<1>3. GoodInv'
  BY <1>0, GoodKept DEF ProgramNext
<1>. QED
  BY <1>1, <1>2, <1>3

LEMMA VerifyInv ==
  ASSUME NandInv, Verify
  PROVE  NandInv'
<1> USE DEF NandInv
<1> DEFINE p == work.part
<1>0. /\ work # IDLE
      /\ p \in {KERNEL, RAMDISK} /\ p \in Part
      /\ work.image \in Seq(Nat) /\ work.sized \in BOOLEAN
  BY IdleWork, Works DEF Verify, WorkInv, Part
<1>1. NandType'
  <2>1. good' \in [{KERNEL, RAMDISK} -> [image : Seq(Nat), sized : BOOLEAN]]
    BY <1>0 DEF Verify, NandType
  <2>. QED BY <2>1 DEF Verify, NandType, WorkType, Scanned
<1>2. WorkInv'
  BY DEF Verify, WorkInv
<1>3. GoodInv'
  <2>1. UNCHANGED <<nand, par, BadBlock>>
    BY DEF Verify
  <2>2. \A o \in {KERNEL, RAMDISK} : \A i :
          /\ HeaderThere(o, i) => HeaderThere(o, i)'
          /\ Verified(o, i) => Verified(o, i)'
    BY <2>1, ContentStays DEF Part
  <2>3. ASSUME NEW o \in {KERNEL, RAMDISK}
        PROVE  /\ Verified(o, good'[o].image)
               /\ good'[o].sized => HeaderThere(o, good'[o].image)
    <3>1. CASE good'[o] = good[o]
      BY <3>1 DEF GoodInv
    <3>2. CASE good'[o] # good[o]
      <4>1. /\ o = p /\ Verified(p, work.image)
            /\ good'[o] = [image |-> work.image, sized |-> work.sized]
        BY <3>2 DEF Verify, NandType
      <4>. QED BY <1>0, <4>1 DEF WorkInv
    <3>. QED BY <3>1, <3>2
  <2>4. ASSUME NEW o \in {KERNEL, RAMDISK}, NEW i, i = good'[o].image
        PROVE  /\ HeaderThere(o, i)' => HeaderThere(o, good[o].image)'
               /\ Verified(o, i)' => Verified(o, good[o].image)'
    BY <2>4 DEF HeaderThere, Verified
  <2>. QED BY <2>2, <2>3, <2>4 DEF GoodInv
<1>. QED
  BY <1>1, <1>2, <1>3

LEMMA CutInv ==
  ASSUME NandInv, NandCut
  PROVE  NandInv'
<1> USE DEF NandInv
<1>0. Spares
  BY StepSpares
<1>1. NandType'
  <2>1. nand' = [q \in Page |-> nand'[q]]
    BY DEF NandCut, NandType
  <2>2. \A q \in Page : nand'[q][1] \in {"ff", "mixed", "size", "data"}
    BY DEF NandCut, NandType, MIXED
  <2>3. marked' \subseteq worn
    BY DEF NandCut, NandType
  <2>. QED BY <2>1, <2>2, <2>3 DEF NandCut, NandType, WorkType, Scanned
<1>2. WorkInv'
  BY DEF NandCut, WorkInv
<1>3. GoodInv'
  BY <1>0, GoodKept DEF NandCut
<1>. QED
  BY <1>1, <1>2, <1>3

-----------------------------------------------------------------------------
(* The boot flash *)

ConfigBlock == BlockIndex(BOOT)

Sources == {LoaderWords(n) : n \in Loader} \cup {ConfigWords(c) : c \in Layout}

BurnType ==
  {DONE} \cup [do : {"erase", "write", "verify"}, at : Nat, last : Nat,
               dest : {0, BOOT}, src : Sources, save : BOOLEAN, tries : Nat]

NorType ==
  /\ nor = [a \in Word |-> nor[a]]
  /\ Cfg \in Layout
  /\ burn \in BurnType
  /\ kept \in Layout \cup {NONE}
  /\ torn \in BOOLEAN

(* What the operation under way is about.  The configuration is erased     *)
(* before anything is written over it.                                     *)
LoaderBurn(n) ==
  /\ burn.src = LoaderWords(n)
  /\ burn.dest = 0
  /\ n >= BOOT => kept = NONE
  /\ burn.do = "erase" => burn.at <= burn.last
  /\ burn.do \in {"erase", "write"} => (burn.last < ConfigBlock <=> n < BOOT)
  /\ burn.do = "erase" /\ burn.at > ConfigBlock => nor[BOOT] # MAGIC
  /\ burn.do = "write" /\ n >= BOOT => nor[BOOT] # MAGIC
  /\ burn.do = "write" => burn.at > 0

BurnInv ==
  burn # DONE =>
    IF burn.save
    THEN kept = NONE /\ torn /\ burn.dest = BOOT /\ burn.src = ConfigWords(Cfg)
    ELSE \E n \in Loader : LoaderBurn(n)

ConfigInv ==
  /\ kept # NONE => nor[BOOT] = MAGIC /\ nor[BOOT + 1] = Setting(kept)
  /\ ~ torn /\ nor[BOOT] = MAGIC => \E c \in Layout : nor[BOOT + 1] = Setting(c)

NorInv == NorType /\ BurnInv /\ ConfigInv

LEMMA NorNumbers ==
  /\ NORSIZE \in Nat /\ BOOT \in Nat /\ RETRIES \in Nat
  /\ BOOT \in Word /\ BOOT + 1 \in Word
  /\ Loader \subseteq Nat /\ \A n \in Loader : n > 0 /\ n <= NORSIZE
BY BootFlashAssumption DEF Word

LEMMA Tables ==
  /\ Len(BLKADDR) \in Nat /\ DOMAIN BLKADDR = 1 .. Len(BLKADDR)
  /\ 1 \in DOMAIN BLKADDR /\ BLKADDR[1] = 0
  /\ \A k \in DOMAIN BLKADDR : BLKADDR[k] \in Nat
BY BootFlashAssumption

LEMMA Indices ==
  ASSUME NEW a \in Nat, a < NORSIZE
  PROVE  /\ BlockIndex(a) \in DOMAIN BLKADDR
         /\ BLKADDR[BlockIndex(a)] <= a
         /\ BlockIndex(a) + 1 \in DOMAIN BLKADDR => a < BLKADDR[BlockIndex(a) + 1]
<1> DEFINE S == {k \in DOMAIN BLKADDR : BLKADDR[k] <= a}
<1>1. S \in SUBSET (0 .. Len(BLKADDR)) /\ 1 \in S
  BY Tables
<1>2. Max(S) \in S /\ \A k \in S : k <= Max(S)
  <2> HIDE DEF S
  <2>1. S # {} /\ Len(BLKADDR) \in Nat
    BY <1>1, Tables
  <2>. QED BY <1>1, <2>1, MaxExists
<1>3. Max(S) + 1 \in DOMAIN BLKADDR => a < BLKADDR[Max(S) + 1]
  <2>1. \A m \in S : (\A k \in S : k <= m) /\ m + 1 \in DOMAIN BLKADDR
                      => a < BLKADDR[m + 1]
    BY Tables
  <2> HIDE DEF S
  <2>. QED BY <1>2, <2>1
<1>4. ~ (a >= NORSIZE)
  BY NorNumbers
<1>. QED
  BY <1>2, <1>3, <1>4 DEF BlockIndex

LEMMA IndexGrows ==
  ASSUME NEW a \in Nat, NEW b \in Nat, a <= b, b < NORSIZE
  PROVE  BlockIndex(a) <= BlockIndex(b)
<1> DEFINE i == BlockIndex(a)
           k == BlockIndex(b)
<1>0. NORSIZE \in Nat
  BY NorNumbers
<1>1. /\ i \in DOMAIN BLKADDR /\ BLKADDR[i] <= a
      /\ k \in DOMAIN BLKADDR /\ (k + 1 \in DOMAIN BLKADDR => b < BLKADDR[k + 1])
  BY <1>0, Indices
<1> SUFFICES ASSUME k < i PROVE FALSE
  BY <1>1, Tables
<1>2. k + 1 \in DOMAIN BLKADDR /\ (k + 1 = i \/ k + 1 < i)
  BY <1>1, Tables
<1>3. BLKADDR[k + 1] <= BLKADDR[i]
  <2> HIDE DEF i, k
  <2>1. CASE k + 1 = i
    BY <1>1, <2>1, Tables
  <2>2. CASE k + 1 < i
    <3>1. BLKADDR[k + 1] < BLKADDR[i]
      BY <1>1, <1>2, <2>2, BootFlashAssumption
    <3>. QED BY <1>1, <1>2, <3>1, Tables
  <2>. QED BY <1>2, <2>1, <2>2
<1>. QED
  BY <1>1, <1>2, <1>3, Tables

(* Later blocks lie further up.                                            *)
LEMMA TableGrows ==
  ASSUME NEW j \in DOMAIN BLKADDR, NEW k \in DOMAIN BLKADDR, j = k \/ j < k
  PROVE  BLKADDR[j] <= BLKADDR[k]
<1>1. BLKADDR[j] \in Nat /\ BLKADDR[k] \in Nat
  BY Tables
<1>2. CASE j < k
  <2>1. BLKADDR[j] < BLKADDR[k]
    BY <1>2, BootFlashAssumption
  <2>. QED BY <1>1, <2>1
<1>3. CASE j = k
  BY <1>1, <1>3
<1>. QED
  BY <1>2, <1>3

LEMMA ConfigBlocks ==
  /\ ConfigBlock \in Nat /\ ConfigBlock > 0
  /\ BlockIndex(BOOT + 1) >= ConfigBlock
  /\ BlockIndex(0) \in Nat /\ BlockIndex(0) > 0 /\ BlockIndex(0) <= ConfigBlock
  /\ \A n \in Nat : n < NORSIZE =>
        /\ BlockIndex(n) \in Nat /\ BlockIndex(n) >= BlockIndex(0)
        /\ BlockIndex(n) < ConfigBlock <=> n < BOOT
  /\ \A n \in Nat : n >= NORSIZE => BlockIndex(n) = 0
<1>1. /\ BOOT \in Nat /\ BOOT < NORSIZE /\ BOOT + 1 \in Nat /\ BOOT + 1 < NORSIZE
      /\ 0 < NORSIZE
  BY BootFlashAssumption
<1>2. BlockIndex(BOOT + 1) >= ConfigBlock /\ BlockIndex(0) <= ConfigBlock
  BY <1>1, IndexGrows, Indices, Tables DEF ConfigBlock
<1>3. /\ ConfigBlock \in DOMAIN BLKADDR /\ BlockIndex(0) \in DOMAIN BLKADDR
  BY <1>1, Indices DEF ConfigBlock
<1>4. BLKADDR[ConfigBlock] = BOOT
  <2>1. PICK k \in DOMAIN BLKADDR : BLKADDR[k] = BOOT
    BY BootFlashAssumption
  <2>2. /\ BLKADDR[ConfigBlock] <= BOOT
        /\ ConfigBlock + 1 \in DOMAIN BLKADDR => BOOT < BLKADDR[ConfigBlock + 1]
    BY <1>1, Indices DEF ConfigBlock
  <2>3. ~ (k < ConfigBlock)
    BY <1>1, <1>3, <2>1, <2>2, Tables, BootFlashAssumption
  <2>4. ~ (ConfigBlock < k)
    <3> SUFFICES ASSUME ConfigBlock < k PROVE FALSE
      OBVIOUS
    <3>1. ConfigBlock + 1 \in DOMAIN BLKADDR /\ (ConfigBlock + 1 = k \/ ConfigBlock + 1 < k)
      BY <1>3, <2>1, Tables
    <3>2. BLKADDR[ConfigBlock + 1] <= BLKADDR[k]
      BY <2>1, <3>1, TableGrows
    <3>. QED BY <1>1, <2>1, <2>2, <3>1, <3>2, Tables
  <2>. QED BY <1>3, <2>1, <2>3, <2>4, Tables
<1>5. ASSUME NEW n \in Nat, n < NORSIZE
      PROVE  /\ BlockIndex(n) \in Nat /\ BlockIndex(n) >= BlockIndex(0)
             /\ BlockIndex(n) < ConfigBlock <=> n < BOOT
  <2>1. BlockIndex(n) \in DOMAIN BLKADDR /\ BLKADDR[BlockIndex(n)] <= n
    BY <1>5, Indices
  <2>2. BlockIndex(n) >= BlockIndex(0)
    BY <1>5, <1>3, <2>1, IndexGrows, Tables
  <2>3. n < BOOT => BlockIndex(n) < ConfigBlock
    <3> SUFFICES ASSUME n < BOOT, ~ (BlockIndex(n) < ConfigBlock) PROVE FALSE
      OBVIOUS
    <3>1. ConfigBlock = BlockIndex(n) \/ ConfigBlock < BlockIndex(n)
      BY <1>3, <2>1, Tables
    <3>2. BLKADDR[ConfigBlock] <= BLKADDR[BlockIndex(n)]
      BY <1>3, <2>1, <3>1, TableGrows
    <3>. QED BY <1>1, <1>4, <2>1, <3>2, Tables
  <2>4. ~ (n < BOOT) => ~ (BlockIndex(n) < ConfigBlock)
    <3>1. ~ (n < BOOT) => ConfigBlock <= BlockIndex(n)
      BY <1>1, <1>5, IndexGrows DEF ConfigBlock
    <3>. QED BY <1>3, <2>1, <3>1, Tables
  <2>. QED BY <2>1, <2>2, <2>3, <2>4, Tables
<1>6. ASSUME NEW n \in Nat, n >= NORSIZE PROVE BlockIndex(n) = 0
  BY <1>6 DEF BlockIndex
<1>7. ConfigBlock \in Nat /\ ConfigBlock > 0 /\ BlockIndex(0) \in Nat /\ BlockIndex(0) > 0
  BY <1>3, Tables
<1>. QED
  BY <1>2, <1>5, <1>6, <1>7

LEMMA Words ==
  /\ \A n \in Loader : Len(LoaderWords(n)) = n
  /\ \A n \in Loader : \A i \in 1 .. n : LoaderWords(n)[i][1] = "code"
  /\ \A c : /\ Len(ConfigWords(c)) = 2
            /\ ConfigWords(c)[1] = MAGIC /\ ConfigWords(c)[2] = Setting(c)
<1>1. ASSUME NEW n \in Loader PROVE Len(LoaderWords(n)) = n
  <2>1. n \in Nat
    BY NorNumbers
  <2>2. LoaderWords(n) \in Seq({Code(n, i) : i \in 1 .. n})
    BY <2>1 DEF LoaderWords
  <2>. QED BY <2>1, <2>2 DEF LoaderWords
<1>. QED
  BY <1>1 DEF LoaderWords, ConfigWords, Code

LEMMA NotMagic ==
  /\ ERASED # MAGIC /\ MIXED # MAGIC
  /\ \A x : x[1] = "code" => x # MAGIC
BY DEF ERASED, MIXED, MAGIC

LEMMA Burns ==
  ASSUME NorType, burn # DONE
  PROVE  /\ burn \in [do : {"erase", "write", "verify"}, at : Nat, last : Nat,
                      dest : {0, BOOT}, src : Sources, save : BOOLEAN, tries : Nat]
         /\ burn.do # "idle"
BY DEF NorType, BurnType

LEMMA DoneIdle == DONE.do = "idle"
BY DEF DONE

LEMMA Programs ==
  ASSUME NEW d \in {0, BOOT}, NEW src \in Sources, NEW e \in BOOLEAN,
         NEW sv \in BOOLEAN, NEW t \in Nat
  PROVE  /\ Program(d, src, e, sv, t) \in BurnType
         /\ Program(d, src, e, sv, t) # DONE
<1>1. Len(src) \in Nat
  BY Words, NorNumbers DEF Sources
<1>2. d \in Nat /\ d + Len(src) \in Nat
  BY <1>1, NorNumbers
<1>3. \A a \in Nat : BlockIndex(a) \in Nat
  BY ConfigBlocks, NorNumbers
<1>4. Program(d, src, e, sv, t) \in
        [do : {"erase", "write", "verify"}, at : Nat, last : Nat,
         dest : {0, BOOT}, src : Sources, save : BOOLEAN, tries : Nat]
  BY <1>2, <1>3 DEF Program, LastBlock
<1>5. Program(d, src, e, sv, t).do # "idle"
  BY DEF Program
<1>. QED
  BY <1>4, <1>5, DoneIdle DEF BurnType

LEMMA NorInitInv ==
  ASSUME NEW c \in Layout, NorInit(c)
  PROVE  NorInv
<1>1. PICK n \in Loader : n <= BOOT /\
        nor = [a \in Word |-> IF a < n THEN Code(n, a + 1)
                             ELSE IF a = BOOT THEN MAGIC
                             ELSE IF a = BOOT + 1 THEN Setting(c)
                             ELSE ERASED]
  BY DEF NorInit
<1>2. nor[BOOT] = MAGIC /\ nor[BOOT + 1] = Setting(c)
  BY <1>1, NorNumbers
<1>3. NorType
  BY <1>1 DEF NorInit, NorType, BurnType
<1>. QED
  BY <1>2, <1>3 DEF NorInit, NorInv, BurnInv, ConfigInv

(* A loader is going to be written: as a command, or by itself at start.   *)
LEMMA LoaderInv ==
  ASSUME NorInv, NEW n \in Loader, Cfg' \in Layout,
         burn' = Program(0, LoaderWords(n), TRUE, FALSE, 0),
         kept' = kept \/ kept' = NONE, n >= BOOT => kept' = NONE,
         UNCHANGED <<nor, torn>>
  PROVE  NorInv'
<1> USE DEF NorInv
<1>1. NorType'
  <2>1. LoaderWords(n) \in Sources
    BY DEF Sources
  <2>. QED BY <2>1, Programs DEF NorType
<1>2. ConfigInv'
  BY DEF ConfigInv
<1>3. ~ burn'.save
  BY DEF Program
<1>4. LoaderBurn(n)'
  <2>1. n \in Nat /\ BOOT \in Nat /\ NORSIZE \in Nat
    BY NorNumbers
  <2>2. burn'.last = BlockIndex(n)
    BY <2>1, Words DEF Program, LastBlock
  <2>3. burn'.do = IF BlockIndex(n) = 0 THEN "verify" ELSE "erase"
    BY <2>1, Words, ConfigBlocks DEF Program, LastBlock
  <2>4. burn'.at = BlockIndex(0) /\ burn'.src = LoaderWords(n) /\ burn'.dest = 0
    BY DEF Program
  <2>5. BlockIndex(n) # 0 => n < NORSIZE
    BY <2>1, ConfigBlocks
  <2>6. ConfigBlock' = ConfigBlock
    BY DEF ConfigBlock, BlockIndex
  <2>7. /\ ConfigBlock \in Nat /\ BlockIndex(0) \in Nat /\ BlockIndex(0) <= ConfigBlock
        /\ n < NORSIZE => /\ BlockIndex(n) \in Nat /\ BlockIndex(n) >= BlockIndex(0)
                          /\ BlockIndex(n) < ConfigBlock <=> n < BOOT
    BY <2>1, ConfigBlocks
  <2>8. CASE BlockIndex(n) = 0
    BY <2>1, <2>3, <2>4, <2>8 DEF LoaderBurn
  <2>9. CASE BlockIndex(n) # 0
    <3>1. burn'.do = "erase" /\ burn'.do # "write"
      BY <2>3, <2>9
    <3>2. burn'.at <= burn'.last /\ ~ (burn'.at > ConfigBlock)
      <4>1. BlockIndex(0) <= BlockIndex(n) /\ ~ (BlockIndex(0) > ConfigBlock)
        BY <2>5, <2>7, <2>9
      <4>. QED BY <2>2, <2>4, <4>1
    <3>3. burn'.last < ConfigBlock <=> n < BOOT
      BY <2>2, <2>5, <2>7, <2>9
    <3>. QED BY <2>4, <2>6, <3>1, <3>2, <3>3 DEF LoaderBurn
  <2>. QED BY <2>8, <2>9
<1>. QED
  BY <1>1, <1>2, <1>3, <1>4 DEF BurnInv

LEMMA SaveInv ==
  ASSUME NorInv, NEW c \in Layout, SaveConfig(c)
  PROVE  NorInv'
<1> USE DEF NorInv
<1>1. NorType'
  <2>1. ConfigWords(c) \in Sources
    BY DEF Sources
  <2>. QED BY <2>1, Programs DEF NorType, SaveConfig
<1>2. ConfigInv'
  BY DEF ConfigInv, SaveConfig
<1>3. burn'.save /\ burn'.dest = BOOT /\ burn'.src = ConfigWords(c)
  BY DEF Program, SaveConfig
<1>. QED
  BY <1>1, <1>2, <1>3 DEF BurnInv, SaveConfig

(* Idle, whatever configuration is in use.                                 *)
LEMMA IdleNorInv ==
  ASSUME NorInv, burn = DONE, Cfg' \in Layout, UNCHANGED <<nor, burn, kept, torn>>
  PROVE  NorInv'
BY DEF NorInv, NorType, BurnType, BurnInv, ConfigInv

LEMMA SameNorInv ==
  ASSUME NorInv, UNCHANGED norVars
  PROVE  NorInv'
BY DEF NorInv, norVars, NorType, BurnType, BurnInv, ConfigInv, LoaderBurn

(* A block was erased, or was to be.                                       *)
LEMMA BlockErased ==
  ASSUME NorInv, burn.do = "erase", NEW c, c # MAGIC,
         nor' = [a \in Word |-> IF a \in BlockWords(burn.at) THEN c ELSE nor[a]],
         UNCHANGED <<kept, torn>>
  PROVE  /\ ConfigInv'
         /\ ~ burn.save => /\ burn.at >= ConfigBlock => nor'[BOOT] # MAGIC
                           /\ nor[BOOT] # MAGIC => nor'[BOOT] # MAGIC
<1> USE DEF NorInv
<1>0. burn # DONE
  BY DoneIdle
<1>1. \A a \in Word : nor'[a] = IF BlockIndex(a) = burn.at THEN c ELSE nor[a]
  BY DEF BlockWords
<1>2. CASE burn.save
  BY <1>0, <1>2 DEF BurnInv, ConfigInv
<1>3. CASE ~ burn.save
  <2>1. PICK n \in Loader : LoaderBurn(n)
    BY <1>0, <1>3 DEF BurnInv
  <2>2. n \in Nat /\ burn.at \in Nat /\ burn.last \in Nat
    BY <1>0, Burns, NorNumbers
  <2>3. nor'[BOOT] = IF ConfigBlock = burn.at THEN c ELSE nor[BOOT]
    BY <1>1, NorNumbers DEF ConfigBlock
  <2>4. burn.at < ConfigBlock => nor'[BOOT + 1] = nor[BOOT + 1]
    BY <1>1, <2>2, NorNumbers, ConfigBlocks
  <2>5. burn.at > ConfigBlock => nor[BOOT] # MAGIC
    BY <2>1 DEF LoaderBurn
  <2>6. kept # NONE => burn.at < ConfigBlock
    BY <2>1, <2>2, NorNumbers, ConfigBlocks DEF LoaderBurn
  <2>. QED BY <2>2, <2>3, <2>4, <2>5, <2>6, ConfigBlocks DEF ConfigInv
<1>. QED
  BY <1>2, <1>3

(* A word was written, or was to be.                                       *)
LEMMA WordWritten ==
  ASSUME NorInv, burn.do = "write", burn.at <= Len(burn.src), NEW c,
         c = MIXED \/ c = Programmed(nor[burn.dest + burn.at - 1], burn.src[burn.at]),
         nor' = [nor EXCEPT ![burn.dest + burn.at - 1] = c],
         UNCHANGED <<kept, torn>>
  PROVE  /\ ConfigInv'
         /\ ~ burn.save /\ nor[BOOT] # MAGIC => nor'[BOOT] # MAGIC
<1> USE DEF NorInv
<1>0. burn # DONE
  BY DoneIdle
<1>2. CASE burn.save
  BY <1>0, <1>2 DEF BurnInv, ConfigInv
<1>3. CASE ~ burn.save
  <2>1. PICK n \in Loader : LoaderBurn(n)
    BY <1>0, <1>3 DEF BurnInv
  <2>2. n \in Nat /\ burn.at \in 1 .. n /\ burn.dest = 0
    BY <1>0, <2>1, Burns, NorNumbers, Words DEF LoaderBurn
  <2>3. c # MAGIC
    <3>1. burn.src[burn.at][1] = "code"
      BY <2>1, <2>2, Words DEF LoaderBurn
    <3>. QED BY <3>1, NotMagic DEF Programmed
  <2>4. nor'[BOOT] \in {nor[BOOT], c}
    BY NorNumbers DEF NorType
  <2>5. n < BOOT => nor'[BOOT] = nor[BOOT] /\ nor'[BOOT + 1] = nor[BOOT + 1]
    BY <2>2, NorNumbers DEF NorType
  <2>6. n >= BOOT => kept = NONE /\ nor[BOOT] # MAGIC
    BY <2>1 DEF LoaderBurn
  <2>. QED BY <2>2, <2>3, <2>4, <2>5, <2>6, NorNumbers DEF ConfigInv
<1>. QED
  BY <1>2, <1>3

LEMMA ConfigBlockConstant == ConfigBlock' = ConfigBlock
BY DEF ConfigBlock, BlockIndex

LEMMA EraseNorInv ==
  ASSUME NorInv, EraseNorBlock
  PROVE  NorInv'
<1> USE DEF NorInv
<1>0. /\ burn # DONE /\ burn.do = "erase"
      /\ burn \in [do : {"erase", "write", "verify"}, at : Nat, last : Nat,
                   dest : {0, BOOT}, src : Sources, save : BOOLEAN, tries : Nat]
  BY DoneIdle, Burns DEF EraseNorBlock
<1>1. PICK c \in {ERASED, MIXED} :
        /\ nor' = [a \in Word |-> IF a \in BlockWords(burn.at) THEN c ELSE nor[a]]
        /\ \/ /\ burn.at = burn.last
              /\ burn' = [burn EXCEPT !.do = "write", !.at = 1]
           \/ /\ burn.at # burn.last
              /\ burn' = [burn EXCEPT !.at = @ + 1]
           \/ burn' = [burn EXCEPT !.do = "verify"]
  BY DEF EraseNorBlock
<1>2. c # MAGIC /\ UNCHANGED <<Cfg, kept, torn>>
  BY NotMagic DEF EraseNorBlock
<1>3. /\ ConfigInv'
      /\ ~ burn.save => /\ burn.at >= ConfigBlock => nor'[BOOT] # MAGIC
                        /\ nor[BOOT] # MAGIC => nor'[BOOT] # MAGIC
  BY <1>0, <1>1, <1>2, BlockErased
<1>4. /\ burn' # DONE /\ burn' \in BurnType
      /\ burn'.last = burn.last /\ burn'.src = burn.src
      /\ burn'.dest = burn.dest /\ burn'.save = burn.save
  <2>1. CASE burn' = [burn EXCEPT !.do = "write", !.at = 1]
    BY <1>0, <2>1, DoneIdle DEF BurnType
  <2>2. CASE burn' = [burn EXCEPT !.at = @ + 1]
    BY <1>0, <2>2, DoneIdle DEF BurnType
  <2>3. CASE burn' = [burn EXCEPT !.do = "verify"]
    BY <1>0, <2>3, DoneIdle DEF BurnType
  <2>. QED BY <1>1, <2>1, <2>2, <2>3
<1>5. NorType'
  BY <1>1, <1>2, <1>4 DEF NorType
<1>6. ASSUME burn.save PROVE BurnInv'
  BY <1>0, <1>2, <1>4, <1>6 DEF BurnInv
<1>7. ASSUME ~ burn.save PROVE BurnInv'
  <2>1. PICK n \in Loader : LoaderBurn(n)
    BY <1>0, <1>7 DEF BurnInv
  <2>2. /\ burn.at \in Nat /\ burn.last \in Nat /\ n \in Nat /\ BOOT \in Nat
        /\ ConfigBlock \in Nat /\ burn.at <= burn.last
        /\ burn.last < ConfigBlock <=> n < BOOT
    BY <1>0, <2>1, NorNumbers, ConfigBlocks DEF LoaderBurn
  <2>3. CASE burn' = [burn EXCEPT !.do = "verify"]
    <3>1. burn'.do = "verify"
      BY <1>0, <2>3
    <3>2. LoaderBurn(n)'
      BY <1>2, <1>4, <2>1, <3>1 DEF LoaderBurn
    <3>. QED BY <1>4, <1>7, <3>2 DEF BurnInv
  <2>4. CASE burn.at = burn.last /\ burn' = [burn EXCEPT !.do = "write", !.at = 1]
    <3>1. burn'.do = "write" /\ burn'.at = 1
      BY <1>0, <2>4
    <3>2. n >= BOOT => nor'[BOOT] # MAGIC
      BY <1>3, <1>7, <2>2, <2>4
    <3>3. LoaderBurn(n)'
      BY <1>2, <1>4, <2>1, <2>2, <3>1, <3>2, ConfigBlockConstant DEF LoaderBurn
    <3>. QED BY <1>4, <1>7, <3>3 DEF BurnInv
  <2>5. CASE burn.at # burn.last /\ burn' = [burn EXCEPT !.at = @ + 1]
    <3>1. burn'.do = "erase" /\ burn'.at = burn.at + 1
      BY <1>0, <2>5
    <3>2. burn'.at <= burn'.last
      BY <1>4, <2>2, <2>5, <3>1
    <3>3. burn'.at > ConfigBlock => nor'[BOOT] # MAGIC
      BY <1>3, <1>7, <2>2, <3>1
    <3>4. LoaderBurn(n)'
      BY <1>2, <1>4, <2>1, <2>2, <3>1, <3>2, <3>3, ConfigBlockConstant DEF LoaderBurn
    <3>. QED BY <1>4, <1>7, <3>4 DEF BurnInv
  <2>. QED BY <1>1, <2>3, <2>4, <2>5
<1>. QED
  BY <1>3, <1>5, <1>6, <1>7

LEMMA WriteInv ==
  ASSUME NorInv, WriteWord \/ WriteDone
  PROVE  NorInv'
<1> USE DEF NorInv
<1>0. /\ burn # DONE /\ burn.do = "write"
      /\ burn \in [do : {"erase", "write", "verify"}, at : Nat, last : Nat,
                   dest : {0, BOOT}, src : Sources, save : BOOLEAN, tries : Nat]
  BY DoneIdle, Burns DEF WriteWord, WriteDone
<1>1. /\ UNCHANGED <<Cfg, kept, torn>>
      /\ \/ burn' = [burn EXCEPT !.at = @ + 1]
         \/ burn' = [burn EXCEPT !.do = "verify"]
  BY DEF WriteWord, WriteDone
<1>2. /\ ConfigInv'
      /\ ~ burn.save /\ nor[BOOT] # MAGIC => nor'[BOOT] # MAGIC
      /\ nor' = [a \in Word |-> nor'[a]]
  <2>1. CASE WriteDone
    BY <2>1 DEF WriteDone, ConfigInv, NorType
  <2>2. CASE WriteWord
    <3>1. burn.at <= Len(burn.src)
      BY <2>2 DEF WriteWord
    <3>2. \E c : /\ c = MIXED
                   \/ c = Programmed(nor[burn.dest + burn.at - 1], burn.src[burn.at])
                /\ nor' = [nor EXCEPT ![burn.dest + burn.at - 1] = c]
      BY <2>2 DEF WriteWord
    <3>. QED BY <1>0, <1>1, <3>1, <3>2, WordWritten DEF NorType
  <2>. QED BY <2>1, <2>2
<1>3. /\ burn' # DONE /\ burn' \in BurnType
      /\ burn'.last = burn.last /\ burn'.src = burn.src
      /\ burn'.dest = burn.dest /\ burn'.save = burn.save
      /\ burn'.do # "erase" /\ burn'.do \in {"write", "verify"}
      /\ burn'.at >= burn.at /\ burn'.at \in Nat /\ burn.at \in Nat
  BY <1>0, <1>1, DoneIdle DEF BurnType
<1>4. NorType'
  BY <1>1, <1>2, <1>3 DEF NorType
<1>5. ASSUME burn.save PROVE BurnInv'
  BY <1>0, <1>1, <1>3, <1>5 DEF BurnInv
<1>6. ASSUME ~ burn.save PROVE BurnInv'
  <2>1. PICK n \in Loader : LoaderBurn(n)
    BY <1>0, <1>6 DEF BurnInv
  <2>2. LoaderBurn(n)'
    BY <1>0, <1>1, <1>2, <1>3, <1>6, <2>1, ConfigBlockConstant DEF LoaderBurn
  <2>. QED BY <1>3, <1>6, <2>2 DEF BurnInv
<1>. QED
  BY <1>2, <1>4, <1>5, <1>6

LEMMA VerifyNorInv ==
  ASSUME NorInv, VerifyNor
  PROVE  NorInv'
<1> USE DEF NorInv
<1>0. /\ burn # DONE
      /\ burn \in [do : {"erase", "write", "verify"}, at : Nat, last : Nat,
                   dest : {0, BOOT}, src : Sources, save : BOOLEAN, tries : Nat]
      /\ UNCHANGED <<nor, Cfg>>
  BY DoneIdle, Burns DEF VerifyNor
<1>1. CASE burn.save /\ Matches
  <2>1. burn' = DONE /\ kept' = Cfg /\ torn' = FALSE
    BY <1>1 DEF VerifyNor
  <2>2. burn.dest = BOOT /\ burn.src = ConfigWords(Cfg)
    BY <1>0, <1>1 DEF BurnInv
  <2>3. nor[BOOT] = MAGIC /\ nor[BOOT + 1] = Setting(Cfg)
    <3>1. \A i \in 1 .. 2 : nor[BOOT + i - 1] = ConfigWords(Cfg)[i]
      BY <1>1, <2>2, Words DEF Matches
    <3>2. BOOT + 1 - 1 = BOOT /\ BOOT + 2 - 1 = BOOT + 1
      BY NorNumbers
    <3>. QED BY <3>1, <3>2, Words
  <2>4. NorType'
    BY <1>0, <2>1 DEF NorType, BurnType
  <2>. QED BY <1>0, <2>1, <2>3, <2>4 DEF BurnInv, ConfigInv, NorType
<1>2. CASE burn.save /\ ~ Matches
  <2>1. UNCHANGED <<kept, torn>>
    BY <1>2 DEF VerifyNor
  <2>2. CASE burn' = DONE
    BY <1>0, <2>1, <2>2 DEF NorType, BurnType, BurnInv, ConfigInv
  <2>3. CASE burn' = Program(burn.dest, burn.src, FALSE, TRUE, burn.tries + 1)
    <3>1. burn' \in BurnType
      <4>1. /\ burn.dest \in {0, BOOT} /\ burn.src \in Sources
            /\ burn.tries + 1 \in Nat
        BY <1>0
      <4>. QED BY <2>3, <4>1, Programs
    <3>2. burn'.save /\ burn'.dest = burn.dest /\ burn'.src = burn.src
      BY <2>3 DEF Program
    <3>. QED BY <1>0, <1>2, <2>1, <3>1, <3>2 DEF NorType, BurnInv, ConfigInv
  <2>. QED BY <1>2, <2>2, <2>3 DEF VerifyNor
<1>3. CASE ~ burn.save
  <2>1. burn' = DONE /\ UNCHANGED <<kept, torn>>
    BY <1>3 DEF VerifyNor
  <2>. QED BY <1>0, <2>1 DEF NorType, BurnType, BurnInv, ConfigInv
<1>. QED
  BY <1>1, <1>2, <1>3

LEMMA NorCutInv ==
  ASSUME NorInv, NorCut
  PROVE  NorInv'
<1> USE DEF NorInv
<1>1. burn' = DONE /\ UNCHANGED <<Cfg, kept, torn>>
  BY DEF NorCut
<1>2. ConfigInv' /\ nor' = [a \in Word |-> nor'[a]]
  <2>1. CASE nor' = nor
    BY <1>1, <2>1 DEF ConfigInv, NorType
  <2>2. CASE /\ burn.do = "erase"
             /\ nor' = [a \in Word |-> IF a \in BlockWords(burn.at) THEN MIXED
                                                                  ELSE nor[a]]
    BY <1>1, <2>2, BlockErased, NotMagic
  <2>3. CASE /\ burn.do = "write" /\ burn.at <= Len(burn.src)
             /\ nor' = [nor EXCEPT ![burn.dest + burn.at - 1] = MIXED]
    BY <1>1, <2>3, WordWritten DEF NorType
  <2>. QED BY <2>1, <2>2, <2>3 DEF NorCut
<1>. QED
  BY <1>1, <1>2 DEF NorType, BurnType, BurnInv

-----------------------------------------------------------------------------
(* Loading *)

(* What verification compares with page i is the page, or, where there is  *)
(* no block for it, what it compared with the page before.                 *)
LEMMA BufferReads ==
  ASSUME NEW p \in Part, NEW i \in Nat, i > 0
  PROVE  /\ PageOfSector(p, i) # NOPAGE => Buffer(p, i) = nand[PageOfSector(p, i)]
         /\ PageOfSector(p, i) = NOPAGE =>
              IF i = 1 THEN Buffer(p, i) = MIXED ELSE Buffer(p, i) = Buffer(p, i - 1)
<1> DEFINE S(n) == {k \in 1 .. n : PageOfSector(p, k) # NOPAGE}
<1>1. ASSUME PageOfSector(p, i) # NOPAGE
      PROVE  Buffer(p, i) = nand[PageOfSector(p, i)]
  <2>1. S(i) \in SUBSET (0 .. i) /\ i \in S(i) /\ S(i) # {}
    BY <1>1
  <2>2. Max(S(i)) \in S(i) /\ \A y \in S(i) : y <= Max(S(i))
    <3> HIDE DEF S
    <3>. QED BY <2>1, MaxExists
  <2>3. Max(S(i)) = i
    <3>1. S(i) \subseteq 1 .. i
      OBVIOUS
    <3> HIDE DEF S
    <3>2. Max(S(i)) \in 1 .. i /\ i <= Max(S(i))
      BY <2>1, <2>2, <3>1
    <3>. QED BY <3>2
  <2>. QED BY <2>1, <2>3 DEF Buffer
<1>2. ASSUME PageOfSector(p, i) = NOPAGE, i = 1
      PROVE  Buffer(p, i) = MIXED
  <2>1. S(i) = {}
    BY <1>2
  <2>. QED BY <2>1 DEF Buffer
<1>3. ASSUME PageOfSector(p, i) = NOPAGE, i # 1
      PROVE  Buffer(p, i) = Buffer(p, i - 1)
  <2>1. S(i) = S(i - 1)
    BY <1>3
  <2>. QED BY <2>1 DEF Buffer
<1>. QED
  BY <1>1, <1>2, <1>3

LEMMA Limits ==
  ASSUME NandType, NEW p \in {KERNEL, RAMDISK}
  PROVE  Limit(p) \in Nat
<1>1. par[p] \in Nat /\ Reserve[p] \in Nat /\ SPB \in Nat
  BY Layouts, NandAssumption DEF Part
<1>2. \A a, b \in Nat : a * b \in Nat
  OBVIOUS
<1>3. CASE par[p] < Reserve[p]
  BY <1>3 DEF Limit
<1>4. CASE ~ (par[p] < Reserve[p])
  <2>1. par[p] - Reserve[p] \in Nat
    BY <1>1, <1>4
  <2>2. (par[p] - Reserve[p]) * SPB \in Nat
    BY <1>1, <1>2, <2>1
  <2>. QED BY <1>4, <2>2 DEF Limit
<1>. QED
  BY <1>3, <1>4

(* A partition with a verified image and its size is read as it should be. *)
LEMMA LoadRight ==
  ASSUME NandInv, NEW p \in {KERNEL, RAMDISK}, NEW n \in Sizes(p), good[p].sized
  PROVE  LET r == ReadPartition(p, n)
             img == good[p].image
         IN  /\ n = Smaller(Len(img), Limit(p))
             /\ Len(r) = n
             /\ \A i \in 1 .. n :
                  \/ r[i] = Data(img[i])
                  \/ r[i] = OLD /\ i > 1 /\ img[i] = img[i - 1]
<1> DEFINE r == ReadPartition(p, n)
           img == good[p].image
<1>1. /\ HeaderThere(p, img) /\ Verified(p, img) /\ img \in Seq(Nat)
      /\ p \in Part
  BY DEF NandInv, NandType, GoodInv, Part
<1>2. Len(img) \in Nat /\ Limit(p) \in Nat
  BY <1>1, Limits DEF NandInv
<1>3. n = Smaller(Len(img), Limit(p))
  BY <1>1 DEF Sizes, HeaderThere, Header
<1>4. n \in Nat /\ n <= Len(img)
  BY <1>2, <1>3 DEF Smaller
<1>5. /\ Len(r) = n
      /\ \A i \in 1 .. n : r[i] = IF PageOfSector(p, i) = NOPAGE THEN OLD
                                  ELSE nand[PageOfSector(p, i)]
  BY <1>4 DEF ReadPartition
<1>6. ASSUME NEW i \in 1 .. n
      PROVE  \/ r[i] = Data(img[i])
             \/ r[i] = OLD /\ i > 1 /\ img[i] = img[i - 1]
  <2>1. i \in Nat /\ i > 0 /\ i \in 1 .. Len(img)
    BY <1>2, <1>4
  <2>2. Buffer(p, i) = Data(img[i])
    BY <1>1, <2>1 DEF Verified
  <2>3. CASE PageOfSector(p, i) # NOPAGE
    BY <1>1, <1>5, <2>1, <2>2, <2>3, BufferReads
  <2>4. CASE PageOfSector(p, i) = NOPAGE
    <3>1. i # 1
      BY <1>1, <2>1, <2>2, <2>4, BufferReads DEF MIXED, Data
    <3>2. i - 1 \in 1 .. Len(img) /\ i > 1
      BY <1>2, <2>1, <3>1
    <3>3. Buffer(p, i) = Buffer(p, i - 1) /\ Buffer(p, i - 1) = Data(img[i - 1])
      BY <1>1, <2>1, <2>4, <3>1, <3>2, BufferReads DEF Verified
    <3>4. img[i] = img[i - 1]
      BY <2>2, <3>3 DEF Data
    <3>. QED BY <1>5, <2>4, <3>2, <3>4
  <2>. QED BY <2>3, <2>4
<1>. QED
  BY <1>3, <1>5, <1>6


-----------------------------------------------------------------------------
(* The loader *)

(* Flash is written at the prompt only; what was loaded is there while     *)
(* Linux runs.                                                             *)
ModeInv ==
  /\ mode \in {"off", "start", "prompt", "linux", "wild"}
  /\ mode # "prompt" => work = IDLE /\ burn = DONE
  /\ mode # "linux" => ram = <<>>

IInv == NandInv /\ NorInv /\ ModeInv /\ LayoutKept /\ ImageLoads

(* Nothing loaded, nothing wrong.                                          *)
LEMMA NothingLoaded ==
  ASSUME ram' = <<>>
  PROVE  ImageLoads'
BY DEF ImageLoads

LEMMA IdleParts ==
  ASSUME NandType, NorType
  PROVE  Idle => work = IDLE /\ burn = DONE
BY Works, Burns DEF Idle

LEMMA StartInv ==
  ASSUME Init
  PROVE  IInv
<1>1. NandInv /\ NorInv
  BY NandInitInv, NorInitInv, StoreAssumption DEF Init
<1>2. ModeInv
  BY DEF Init, NandInit, NorInit, ModeInv
<1>3. LayoutKept /\ ImageLoads
  BY DEF Init, LayoutKept, ImageLoads
<1>. QED
  BY <1>1, <1>2, <1>3 DEF IInv

LEMMA PowerOnInv ==
  ASSUME IInv, PowerOn
  PROVE  IInv'
<1> USE DEF IInv
<1>1. PICK c \in Layout : c \in Loaded /\ Cfg' = c /\ NandFlash_Init(c)
  BY DEF PowerOn, LoadConfig
<1>2. /\ mode = "off" /\ mode' = "start"
      /\ UNCHANGED <<nor, burn, kept, torn, ram>>
  BY DEF PowerOn
<1>3. work = IDLE /\ burn = DONE /\ ram = <<>>
  BY <1>2 DEF ModeInv
<1>4. NandInv' /\ NorInv'
  BY <1>1, <1>2, <1>3, ScanInv, IdleNorInv
<1>5. ModeInv' /\ ImageLoads'
  BY <1>1, <1>2, <1>3, NothingLoaded DEF ModeInv, NandFlash_Init
<1>6. LayoutKept'
  <2>1. CASE kept = NONE
    BY <1>2, <2>1 DEF LayoutKept
  <2>2. CASE kept # NONE
    <3>1. nor[BOOT] = MAGIC /\ nor[BOOT + 1] = Setting(kept)
      BY <2>2 DEF NorInv, ConfigInv
    <3>2. Loaded = {kept}
      BY <3>1 DEF Loaded, Setting
    <3>. QED BY <1>1, <1>2, <3>2 DEF LayoutKept, NandFlash_Init
  <2>. QED BY <2>1, <2>2
<1>. QED
  BY <1>4, <1>5, <1>6

(* Whoever brought the loader, only a torn save leads here. *)
LEMMA WildInv ==
  ASSUME IInv, PowerOnWild \/ SelfCopyWild
  PROVE  IInv'
<1> USE DEF IInv
<1>1. /\ mode = "off" /\ mode' = "wild"
      /\ nor[BOOT] = MAGIC /\ nor[BOOT + 1][1] # "cfg"
      /\ UNCHANGED <<nandVars, norVars, ram>>
  BY DEF PowerOnWild, SelfCopyWild, Unscannable
<1>2. NandInv' /\ NorInv'
  BY <1>1, IdleNandInv, SameNorInv
<1>3. ModeInv' /\ ImageLoads'
  BY <1>1, NothingLoaded DEF ModeInv, nandVars, norVars
<1>4. torn
  BY <1>1 DEF NorInv, NorType, ConfigInv, Setting
<1>. QED
  BY <1>1, <1>2, <1>3, <1>4 DEF LayoutKept, norVars

LEMMA SelfCopyInv ==
  ASSUME IInv, SelfCopy_BootLoader
  PROVE  IInv'
<1> USE DEF IInv
<1>1. PICK c \in Layout : Cfg' = c /\ NandFlash_Init(c)
  BY DEF SelfCopy_BootLoader, LoadConfig
<1>2. /\ mode = "off" /\ mode' = "prompt" /\ kept' = NONE
      /\ burn' = Program(0, LoaderWords(BOOT), TRUE, FALSE, 0)
      /\ UNCHANGED <<nor, torn, ram>>
  BY DEF SelfCopy_BootLoader
<1>3. NandInv' /\ NorInv'
  BY <1>1, <1>2, ScanInv, LoaderInv, StoreAssumption
<1>4. ModeInv' /\ ImageLoads' /\ LayoutKept'
  BY <1>2, NothingLoaded DEF ModeInv, LayoutKept
<1>. QED
  BY <1>3, <1>4

LEMMA AutobootInv ==
  ASSUME IInv, Autoboot
  PROVE  IInv'
<1> USE DEF IInv
<1>1. PICK copied \in { {KERNEL}, {KERNEL, RAMDISK} } :
        \E size \in [copied -> UNION {Sizes(p) : p \in copied}] :
          /\ \A p \in copied : size[p] \in Sizes(p)
          /\ ram' = [p \in copied |-> ReadPartition(p, size[p])]
  BY DEF Autoboot
<1>2. PICK size \in [copied -> UNION {Sizes(p) : p \in copied}] :
        /\ \A p \in copied : size[p] \in Sizes(p)
        /\ ram' = [p \in copied |-> ReadPartition(p, size[p])]
  BY <1>1
<1>3. mode = "start" /\ mode' = "linux" /\ UNCHANGED <<nandVars, norVars>>
  BY DEF Autoboot
<1>4. NandInv' /\ NorInv'
  BY <1>3, IdleNandInv, SameNorInv
<1>5. ModeInv' /\ LayoutKept'
  BY <1>3 DEF ModeInv, LayoutKept, nandVars, norVars
<1>6. good' = good /\ \A p : Limit(p)' = Limit(p)
  BY <1>3 DEF Limit, nandVars
<1>7. ImageLoads'
  <2>1. DOMAIN ram' = copied /\ copied \subseteq {KERNEL, RAMDISK}
    BY <1>2
  <2>2. ASSUME NEW p \in copied, good[p].sized
        PROVE  /\ Len(ram'[p]) = Smaller(Len(good[p].image), Limit(p))
               /\ \A i \in 1 .. Smaller(Len(good[p].image), Limit(p)) :
                    \/ ram'[p][i] = Data(good[p].image[i])
                    \/ /\ ram'[p][i] = OLD /\ i > 1
                       /\ good[p].image[i] = good[p].image[i - 1]
    <3>1. p \in {KERNEL, RAMDISK} /\ size[p] \in Sizes(p)
      BY <1>2, <2>1
    <3>2. ram'[p] = ReadPartition(p, size[p])
      BY <1>2
    <3>. QED BY <2>2, <3>1, <3>2, LoadRight
  <2>. QED BY <1>6, <2>1, <2>2 DEF ImageLoads
<1>. QED
  BY <1>4, <1>5, <1>7

LEMMA BootMenuKeyInv ==
  ASSUME IInv, BootMenuKey
  PROVE  IInv'
<1> USE DEF IInv
<1>1. /\ mode = "start" /\ mode' = "prompt"
      /\ UNCHANGED <<nandVars, norVars, ram>>
  BY DEF BootMenuKey
<1>2. NandInv' /\ NorInv'
  BY <1>1, IdleNandInv, SameNorInv
<1>3. ModeInv' /\ LayoutKept' /\ ImageLoads'
  BY <1>1, NothingLoaded DEF ModeInv, LayoutKept
<1>. QED
  BY <1>2, <1>3

(* A step at the prompt, or into it, leaves nothing loaded.                *)
LEMMA AtPrompt ==
  ASSUME ModeInv, mode = "prompt", UNCHANGED <<mode, ram>>
  PROVE  ModeInv' /\ LayoutKept' /\ ImageLoads'
BY NothingLoaded DEF ModeInv, LayoutKept

LEMMA CommandInv ==
  ASSUME IInv, NandCommand \/ BootFlashCommand \/ Apply
  PROVE  IInv'
<1> USE DEF IInv
<1>1. mode = "prompt" /\ UNCHANGED <<mode, ram>> /\ Idle
  BY DEF NandCommand, BootFlashCommand, Apply, Command
<1>2. ModeInv' /\ LayoutKept' /\ ImageLoads'
  BY <1>1, AtPrompt
<1>3. work = IDLE /\ burn = DONE
  BY <1>1, IdleParts DEF NandInv, NorInv
<1>4. CASE NandCommand
  <2>1. UNCHANGED norVars
    BY <1>4 DEF NandCommand
  <2>2. ASSUME NEW p \in {KERNEL, RAMDISK}, NEW img \in Image, StartCopy(p, img)
        PROVE  NandInv'
    <3>1. img \in Seq(Nat) /\ p \in Part /\ p # APPIMAGE
      BY NandAssumption DEF Part, KERNEL, RAMDISK, APPIMAGE
    <3>. QED BY <2>2, <3>1, BeginInv DEF StartCopy
  <2>3. ASSUME NEW p \in Part, NEW spare \in BOOLEAN, ErasePartition(p, spare)
        PROVE  NandInv'
    <3>1. <<>> \in Seq(Nat)
      OBVIOUS
    <3>. QED BY <2>3, <3>1, BeginInv DEF ErasePartition
  <2>. QED BY <1>2, <1>4, <2>1, <2>2, <2>3, SameNorInv DEF NandCommand
<1>5. CASE BootFlashCommand
  <2>1. NandInv'
    BY <1>5, IdleNandInv DEF BootFlashCommand
  <2>2. ASSUME NEW n \in Loader, WriteLoader(n) PROVE NorInv'
    <3>1. /\ Cfg' \in Layout /\ UNCHANGED <<nor, torn>>
          /\ burn' = Program(0, LoaderWords(n), TRUE, FALSE, 0)
          /\ kept' = kept \/ kept' = NONE
          /\ n >= BOOT => kept' = NONE
      BY <2>2 DEF WriteLoader, NorInv, NorType
    <3>. QED BY <3>1, LoaderInv
  <2>. QED BY <1>2, <1>5, <2>1, <2>2, SaveInv DEF BootFlashCommand
<1>6. CASE Apply
  BY <1>2, <1>3, <1>6, IdleNandInv, IdleNorInv DEF Apply
<1>. QED
  BY <1>4, <1>5, <1>6

LEMMA WorkingInv ==
  ASSUME IInv, Work
  PROVE  IInv'
<1> USE DEF IInv
<1>1. mode = "prompt" /\ UNCHANGED <<mode, ram>>
  BY DEF Work, storeVars
<1>2. ModeInv' /\ LayoutKept' /\ ImageLoads'
  BY <1>1, AtPrompt
<1>3. CASE NandStep /\ UNCHANGED norVars
  BY <1>2, <1>3, EraseInv, EraseDoneInv, ProgramInv, VerifyInv, SameNorInv
  DEF NandStep
<1>4. CASE NorStep /\ UNCHANGED nandVars
  BY <1>2, <1>4, EraseNorInv, WriteInv, VerifyNorInv, IdleNandInv DEF NorStep
<1>. QED
  BY <1>3, <1>4 DEF Work

LEMMA PowerOffInv ==
  ASSUME IInv, PowerOff
  PROVE  IInv'
<1> USE DEF IInv
<1>1. NandCut /\ NorCut /\ mode' = "off" /\ ram' = <<>>
  BY DEF PowerOff
<1>2. NandInv' /\ NorInv'
  BY <1>1, CutInv, NorCutInv
<1>3. ModeInv' /\ LayoutKept' /\ ImageLoads'
  BY <1>1, NothingLoaded DEF ModeInv, LayoutKept, NandCut, NorCut
<1>. QED
  BY <1>2, <1>3

LEMMA StutterInv ==
  ASSUME IInv, UNCHANGED vars
  PROVE  IInv'
<1> USE DEF IInv
<1>1. UNCHANGED <<nandVars, norVars, mode, ram>>
  BY DEF vars, storeVars
<1>2. NandInv' /\ NorInv'
  BY <1>1, IdleNandInv, SameNorInv
<1>3. ModeInv' /\ LayoutKept'
  BY <1>1 DEF ModeInv, LayoutKept, nandVars, norVars
<1>4. ImageLoads'
  BY <1>1 DEF ImageLoads, Limit, nandVars
<1>. QED
  BY <1>2, <1>3, <1>4

(* The inductive invariant of EzStore.                                     *)
LEMMA Invariant == Spec => []IInv
<1>1. IInv /\ [Next]_vars => IInv'
  <2>1. CASE IInv /\ Dead
    BY <2>1, StutterInv DEF Dead
  <2>. QED
    BY <2>1, PowerOnInv, WildInv, SelfCopyInv, AutobootInv,
       BootMenuKeyInv, CommandInv, WorkingInv, PowerOffInv, StutterInv
    DEF Next
<1>. QED
  BY <1>1, StartInv, PTL DEF Spec

-----------------------------------------------------------------------------
(* Theorems *)

(* TypeOK: pages, blocks found bad and the work under way are always of    *)
(* the kinds nand.c and flash_29lvx.c know.                                *)
THEOREM TypeCorrect == Spec => []TypeOK
<1>1. IInv => TypeOK
  BY IdleWork, DoneIdle
  DEF IInv, NandInv, NandType, NorInv, NorType, ModeInv, WorkType, BurnType,
      TypeOK
<1>. QED
  BY <1>1, Invariant, PTL

(* LayoutKept: LoadConfig finds the layout that SaveConfig wrote last,     *)
(* whatever commands, failures and power cuts there were since, and takes  *)
(* nothing else for a configuration unless a save was cut short or failed. *)
THEOREM LayoutIsKept == Spec => []LayoutKept
<1>1. IInv => LayoutKept
  BY DEF IInv
<1>. QED
  BY <1>1, Invariant, PTL

(* ImageLoads: the image CopyTo_NandFlash verified is the one the kernel   *)
(* starts with, up to the reserve, as long as layout and marks of bad      *)
(* blocks stay.                                                            *)
THEOREM LoadsWhatWasVerified == Spec => []ImageLoads
<1>1. IInv => ImageLoads
  BY DEF IInv
<1>. QED
  BY <1>1, Invariant, PTL

(* Pages change in steps and power cuts of a command, and Spares holds.    *)
LEMMA NandChanges ==
  ASSUME IInv, [Next]_vars
  PROVE  \A q \in Page : nand'[q] # nand[q] =>
           /\ work.do # "idle"
           /\ (q \div SPB) \in PartBlocks(work.part)
           /\ (q \div SPB) \in BadBlock => work.do = "erase" /\ ~ work.spare
<1>1. CASE UNCHANGED nand
  BY <1>1
<1>2. CASE NandStep \/ NandCut
  <2>1. NandType /\ Spares
    BY <1>2, StepSpares DEF IInv, NandInv
  <2>. QED BY <2>1, Works DEF Spares
<1>3. UNCHANGED nand \/ NandStep \/ NandCut
  <2>1. Next \/ UNCHANGED vars
    OBVIOUS
  <2>. QED
    BY <2>1
    DEF Next, PowerOn, PowerOnWild, SelfCopy_BootLoader, SelfCopyWild,
        LoadConfig, NandFlash_Init, Autoboot, BootMenuKey, NandCommand, StartCopy,
        ErasePartition, BootFlashCommand, Apply, Work, PowerOff, Dead,
        nandVars, vars
<1>. QED
  BY <1>1, <1>2, <1>3

(* StoresApart: NAND_GetPageFromSector and the range checks of the writing *)
(* loops keep a command in its partition, wherever bad blocks have moved   *)
(* its sectors.                                                            *)
THEOREM PartitionsApart == Spec => StoresApart
<1>1. IInv /\ [Next]_vars =>
        \A q \in Page : nand'[q] # nand[q] =>
          work.do # "idle" /\ (q \div SPB) \in PartBlocks(work.part)
  BY NandChanges
<1>. QED
  BY <1>1, Invariant, PTL DEF Spec, StoresApart

(* BadSpared: a block the scan found marked is written by nothing but an   *)
(* erase command told to.                                                  *)
THEOREM BadBlocksSpared == Spec => BadSpared
<1>1. IInv /\ [Next]_vars =>
        \A q \in Page : nand'[q] # nand[q] /\ (q \div SPB) \in BadBlock =>
          work.do = "erase" /\ ~ work.spare
  BY NandChanges
<1>. QED
  BY <1>1, Invariant, PTL DEF Spec, BadSpared

-----------------------------------------------------------------------------
(* The part of CommandsEnd that does not need fairness: the steps that a   *)
(* command still has before it, at most, are a number that gets smaller.   *)

Ahead(a, b) == IF a < b THEN b - a ELSE 0

(* Blocks to erase, then pages to program, the comparison and what lies    *)
(* between.                                                                *)
WorkLeft ==
  IF work.do = "idle" THEN 0
  ELSE IF work.do = "erase"
  THEN Ahead(work.at, BaseBlock(work.part) + par[work.part]) + Len(work.image) + 3
  ELSE Ahead(work.at, Len(work.image) + 1) + 1

(* The same for the boot flash, and as much again for every try that       *)
(* SaveConfig has left.                                                    *)
RoundLeft ==
  IF burn.do = "erase" THEN Ahead(burn.at, burn.last + 1) + Len(burn.src) + 2
  ELSE IF burn.do = "write" THEN Ahead(burn.at, Len(burn.src) + 1) + 2
  ELSE 1

BurnLeft ==
  IF burn.do = "idle" THEN 0
  ELSE Ahead(burn.tries, RETRIES) * (Len(burn.src) + 3) + RoundLeft

StepsLeft == WorkLeft + BurnLeft

(* Every step while a command is under way brings its end nearer: an       *)
(* erase, a program or a comparison that fails does, each further try of   *)
(* SaveConfig does, and so does a power failure, which is the end.         *)
CommandAdvances ==
  [][~ Idle => StepsLeft \in Nat /\ StepsLeft' < StepsLeft]_vars

(* The blocks to erase are counted up to the last one.                     *)
Forward == burn.do = "erase" => burn.at <= burn.last

LEMMA WorkLeftType ==
  ASSUME NandType
  PROVE  WorkLeft \in Nat /\ (work # IDLE => WorkLeft > 0)
<1>1. CASE work = IDLE
  BY <1>1, IdleWork DEF WorkLeft
<1>2. CASE work # IDLE
  <2>1. /\ work.part \in Part /\ work.at \in Nat /\ Len(work.image) \in Nat
        /\ work.do \in {"erase", "program"}
    BY <1>2, Works
  <2>2. BaseBlock(work.part) \in Nat /\ par[work.part] \in Nat
    BY <2>1, Layouts DEF NandType
  <2>3. /\ Ahead(work.at, BaseBlock(work.part) + par[work.part]) \in Nat
        /\ Ahead(work.at, Len(work.image) + 1) \in Nat
    BY <2>1, <2>2 DEF Ahead
  <2>. QED BY <2>1, <2>3 DEF WorkLeft
<1>. QED BY <1>1, <1>2

(* A step of an erase or of a copy.                                        *)
LEMMA NandAdvances ==
  ASSUME NandType, NandStep
  PROVE  WorkLeft' \in Nat /\ WorkLeft' < WorkLeft
<1>0. work # IDLE
  BY IdleWork DEF NandStep, EraseNext, EraseDone, ProgramNext, Verify
<1>1. /\ work \in [do : {"erase", "program"}, part : Part, at : Nat,
                   spare : BOOLEAN, image : Seq(Nat), copy : BOOLEAN,
                   sized : BOOLEAN]
      /\ Len(work.image) \in Nat /\ WorkLeft \in Nat /\ WorkLeft > 0
  BY <1>0, Works, WorkLeftType
<1>2. BaseBlock(work.part) \in Nat /\ par[work.part] \in Nat
  BY <1>1, Layouts DEF NandType
<1>3. work' = IDLE => WorkLeft' = 0
  BY IdleWork DEF WorkLeft
<1>4. UNCHANGED par
  BY DEF NandStep, EraseNext, EraseDone, ProgramNext, Verify
<1>5. CASE EraseNext
  <2>1. /\ work.do = "erase" /\ work.at \in PartBlocks(work.part)
        /\ work' = [work EXCEPT !.at = @ + 1]
    BY <1>5 DEF EraseNext
  <2>2. /\ work'.do = "erase" /\ work'.at = work.at + 1
        /\ work'.part = work.part /\ work'.image = work.image
    BY <1>1, <2>1
  <2>3. work.at < BaseBlock(work.part) + par[work.part]
    BY <1>1, <1>2, <2>1 DEF PartBlocks
  <2>4. BaseBlock(work.part)' = BaseBlock(work.part)
    BY <1>4, <2>2 DEF BaseBlock
  <2>5. /\ Ahead(work.at + 1, BaseBlock(work.part) + par[work.part])
             = Ahead(work.at, BaseBlock(work.part) + par[work.part]) - 1
        /\ Ahead(work.at + 1, BaseBlock(work.part) + par[work.part]) \in Nat
        /\ Ahead(work.at, BaseBlock(work.part) + par[work.part]) \in Nat
    BY <1>1, <1>2, <2>3 DEF Ahead
  <2>6. WorkLeft' = Ahead(work.at + 1, BaseBlock(work.part) + par[work.part])
                      + Len(work.image) + 3
    BY <1>4, <2>2, <2>4 DEF WorkLeft
  <2>7. WorkLeft = Ahead(work.at, BaseBlock(work.part) + par[work.part])
                     + Len(work.image) + 3
    BY <2>1 DEF WorkLeft
  <2>. QED BY <1>1, <2>5, <2>6, <2>7
<1>6. CASE EraseDone
  <2>1. work.do = "erase"
    BY <1>6 DEF EraseDone
  <2>2. WorkLeft >= Len(work.image) + 3
    <3>1. Ahead(work.at, BaseBlock(work.part) + par[work.part]) \in Nat
      BY <1>1, <1>2 DEF Ahead
    <3>. QED BY <1>1, <2>1, <3>1 DEF WorkLeft
  <2>3. CASE work' = [work EXCEPT !.do = "program", !.at = 0]
    <3>1. work'.do = "program" /\ work'.at = 0 /\ work'.image = work.image
      BY <1>1, <2>3
    <3>2. WorkLeft' = Ahead(0, Len(work.image) + 1) + 1
      BY <3>1 DEF WorkLeft
    <3>. QED BY <1>1, <2>2, <3>2 DEF Ahead
  <2>. QED BY <1>1, <1>3, <1>6, <2>3 DEF EraseDone
<1>7. CASE ProgramNext
  <2>1. work.do = "program" /\ work.at <= Len(work.image)
    BY <1>7 DEF ProgramNext
  <2>2. /\ work'.do = "program" /\ work'.at = work.at + 1
        /\ work'.image = work.image
    <3>1. PICK s : \/ work' = [work EXCEPT !.at = @ + 1]
                   \/ work' = [work EXCEPT !.at = @ + 1, !.sized = s]
      BY <1>7 DEF ProgramNext
    <3>. QED BY <1>1, <2>1, <3>1
  <2>3. /\ Ahead(work.at + 1, Len(work.image) + 1)
             = Ahead(work.at, Len(work.image) + 1) - 1
        /\ Ahead(work.at + 1, Len(work.image) + 1) \in Nat
        /\ Ahead(work.at, Len(work.image) + 1) \in Nat
    <3>1. work.at \in Nat /\ Len(work.image) \in Nat
      BY <1>1
    <3>. QED BY <2>1, <3>1 DEF Ahead
  <2>4. WorkLeft' = Ahead(work.at + 1, Len(work.image) + 1) + 1
    BY <2>2 DEF WorkLeft
  <2>5. WorkLeft = Ahead(work.at, Len(work.image) + 1) + 1
    BY <2>1 DEF WorkLeft
  <2>. QED BY <2>3, <2>4, <2>5
<1>8. CASE Verify
  BY <1>1, <1>3, <1>8 DEF Verify
<1>. QED
  BY <1>5, <1>6, <1>7, <1>8 DEF NandStep

(* The last block to erase is not before the first.                        *)
LEMMA ProgramForward ==
  ASSUME NEW d \in {0, BOOT}, NEW src \in Sources, NEW sv \in BOOLEAN,
         NEW t \in Nat, Program(d, src, TRUE, sv, t).do = "erase"
  PROVE  Program(d, src, TRUE, sv, t).at <= Program(d, src, TRUE, sv, t).last
<1>1. Len(src) \in Nat /\ d \in Nat /\ d + Len(src) \in Nat
  BY Words, NorNumbers DEF Sources
<1>2. BlockIndex(d + Len(src)) # 0
  BY DEF Program, LastBlock
<1>3. d + Len(src) < NORSIZE
  BY <1>1, <1>2, NorNumbers DEF BlockIndex
<1>4. BlockIndex(d) <= BlockIndex(d + Len(src))
  BY <1>1, <1>3, IndexGrows
<1>. QED
  BY <1>4 DEF Program, LastBlock

LEMMA SourceLengths ==
  ASSUME NEW src \in Sources
  PROVE  Len(src) \in Nat
BY Words, NorNumbers DEF Sources

LEMMA ForwardInit == Init => Forward
BY DoneIdle DEF Init, NorInit, Forward

LEMMA ForwardNext ==
  ASSUME IInv, Forward, [Next]_vars
  PROVE  Forward'
<1> USE DEF IInv, NorInv
<1>1. CASE UNCHANGED burn
  BY <1>1 DEF Forward
<1>2. CASE burn' = DONE
  BY <1>2, DoneIdle DEF Forward
<1>3. CASE \E n \in Loader : burn' = Program(0, LoaderWords(n), TRUE, FALSE, 0)
  BY <1>3, ProgramForward DEF Forward, Sources
<1>4. CASE \E c \in Layout : burn' = Program(BOOT, ConfigWords(c), TRUE, TRUE, 0)
  BY <1>4, ProgramForward DEF Forward, Sources
<1>5. CASE NorStep
  <2>0. burn # DONE
    BY <1>5, DoneIdle DEF NorStep, EraseNorBlock, WriteWord, WriteDone, VerifyNor
  <2>1. burn \in [do : {"erase", "write", "verify"}, at : Nat, last : Nat,
                  dest : {0, BOOT}, src : Sources, save : BOOLEAN, tries : Nat]
    BY <2>0, Burns
  <2>2. CASE burn' = [burn EXCEPT !.at = @ + 1] /\ burn.do = "erase"
             /\ burn.at # burn.last
    BY <2>1, <2>2 DEF Forward
  <2>3. CASE burn'.do # "erase"
    BY <2>3 DEF Forward
  <2>4. CASE EraseNorBlock
    <3>1. \/ burn' = [burn EXCEPT !.do = "write", !.at = 1]
          \/ burn' = [burn EXCEPT !.at = @ + 1] /\ burn.at # burn.last
          \/ burn' = [burn EXCEPT !.do = "verify"]
      BY <2>4 DEF EraseNorBlock
    <3>2. burn.do = "erase"
      BY <2>4 DEF EraseNorBlock
    <3>3. CASE burn' = [burn EXCEPT !.do = "write", !.at = 1]
      BY <2>1, <2>3, <3>3
    <3>4. CASE burn' = [burn EXCEPT !.do = "verify"]
      BY <2>1, <2>3, <3>4
    <3>. QED BY <2>2, <3>1, <3>2, <3>3, <3>4
  <2>5. CASE WriteWord \/ WriteDone
    <3>1. \/ burn' = [burn EXCEPT !.at = @ + 1]
          \/ burn' = [burn EXCEPT !.do = "verify"]
      BY <2>5 DEF WriteWord, WriteDone
    <3>2. burn.do = "write"
      BY <2>5 DEF WriteWord, WriteDone
    <3>. QED BY <2>1, <2>3, <3>1, <3>2
  <2>6. CASE VerifyNor
    BY <2>3, <2>6, DoneIdle DEF VerifyNor, Program
  <2>. QED BY <1>5, <2>4, <2>5, <2>6 DEF NorStep
<1>6. CASE BootFlashCommand
  BY <1>3, <1>4, <1>6 DEF BootFlashCommand, WriteLoader, SaveConfig
<1>7. CASE Work
  BY <1>1, <1>5, <1>7 DEF Work, norVars
<1>8. CASE SelfCopy_BootLoader
  BY <1>3, <1>8, StoreAssumption DEF SelfCopy_BootLoader
<1>9. CASE PowerOff
  BY <1>2, <1>9 DEF PowerOff, NorCut
<1>10. CASE NandCommand \/ Apply \/ Dead \/ UNCHANGED vars
  BY <1>1, <1>10 DEF NandCommand, Apply, Dead, norVars, vars
<1>11. CASE PowerOn \/ PowerOnWild \/ SelfCopyWild \/ Autoboot \/ BootMenuKey
  BY <1>1, <1>11
  DEF PowerOn, PowerOnWild, SelfCopyWild, Autoboot, BootMenuKey, norVars
<1>. QED
  BY <1>6, <1>7, <1>8, <1>9, <1>10, <1>11 DEF Next

LEMMA RoundLeftType ==
  ASSUME NEW b \in [do : {"erase", "write", "verify"}, at : Nat, last : Nat,
                    dest : {0, BOOT}, src : Sources, save : BOOLEAN, tries : Nat]
  PROVE  /\ Len(b.src) \in Nat
         /\ Ahead(b.at, b.last + 1) + Len(b.src) + 2 \in Nat \ {0, 1}
         /\ Ahead(b.at, Len(b.src) + 1) + 2 \in Nat \ {0, 1}
         /\ Ahead(b.tries, RETRIES) * (Len(b.src) + 3) \in Nat
<1>1. b.at \in Nat /\ b.last \in Nat /\ b.tries \in Nat /\ RETRIES \in Nat
  BY NorNumbers
<1>2. Len(b.src) \in Nat
  BY SourceLengths
<1>3. /\ Ahead(b.at, b.last + 1) \in Nat
      /\ Ahead(b.at, Len(b.src) + 1) \in Nat
      /\ Ahead(b.tries, RETRIES) \in Nat
  BY <1>1, <1>2 DEF Ahead
<1>. QED BY <1>2, <1>3

LEMMA BurnLeftType ==
  ASSUME NorType
  PROVE  BurnLeft \in Nat /\ (burn # DONE => RoundLeft \in Nat /\ BurnLeft > 0)
<1>1. CASE burn = DONE
  BY <1>1, DoneIdle DEF BurnLeft
<1>2. CASE burn # DONE
  <2> DEFINE others == Ahead(burn.tries, RETRIES) * (Len(burn.src) + 3)
  <2>1. others \in Nat
    BY <1>2, Burns, RoundLeftType
  <2>2. RoundLeft \in Nat /\ RoundLeft > 0
    BY <1>2, Burns, RoundLeftType DEF RoundLeft
  <2>3. BurnLeft = others + RoundLeft
    BY <1>2, Burns DEF BurnLeft
  <2> HIDE DEF others
  <2>. QED BY <2>1, <2>2, <2>3
<1>. QED BY <1>1, <1>2

(* A step that stays with this try of the save, or is of no save.          *)
LEMMA RoundAdvances ==
  ASSUME NorType, burn # DONE, NEW b \in BurnType, b # DONE, burn' = b,
         b.src = burn.src, b.tries = burn.tries,
         RoundLeft' \in Nat, RoundLeft' < RoundLeft
  PROVE  BurnLeft' \in Nat /\ BurnLeft' < BurnLeft
<1> DEFINE others == Ahead(burn.tries, RETRIES) * (Len(burn.src) + 3)
<1>1. others \in Nat /\ burn.do # "idle"
  BY Burns, RoundLeftType
<1>2. RoundLeft \in Nat
  BY BurnLeftType
<1>3. b.do # "idle"
  BY DEF BurnType
<1>4. BurnLeft = others + RoundLeft
  BY <1>1 DEF BurnLeft
<1>5. BurnLeft' = others + RoundLeft'
  BY <1>3 DEF BurnLeft
<1>6. RoundLeft' \in Nat /\ RoundLeft' < RoundLeft
  OBVIOUS
<1>7. \A n, m, o \in Nat : m < n => o + m \in Nat /\ o + m < o + n
  OBVIOUS
<1> HIDE DEF others
<1>. QED BY <1>1, <1>2, <1>4, <1>5, <1>6, <1>7, Zenon

(* A step of a loader being written, or of a save.                         *)
LEMMA NorAdvances ==
  ASSUME NorInv, NorInv', Forward, NorStep
  PROVE  BurnLeft' \in Nat /\ BurnLeft' < BurnLeft
<1> USE DEF NorInv
<1>0. burn # DONE
  BY DoneIdle DEF NorStep, EraseNorBlock, WriteWord, WriteDone, VerifyNor
<1>1. /\ burn \in [do : {"erase", "write", "verify"}, at : Nat, last : Nat,
                   dest : {0, BOOT}, src : Sources, save : BOOLEAN, tries : Nat]
      /\ Len(burn.src) \in Nat
  BY <1>0, Burns, SourceLengths
<1>2. burn' \in BurnType
  BY DEF NorType
<1>3. ASSUME burn' = [burn EXCEPT !.do = "verify"],
             burn.do \in {"erase", "write"}
      PROVE  BurnLeft' \in Nat /\ BurnLeft' < BurnLeft
  <2>1. burn'.do = "verify" /\ burn'.src = burn.src /\ burn'.tries = burn.tries
    BY <1>1, <1>3
  <2>2. RoundLeft' = 1
    BY <2>1 DEF RoundLeft
  <2>3. RoundLeft > 1
    BY <1>1, <1>3, RoundLeftType DEF RoundLeft
  <2>. QED BY <1>0, <1>2, <2>1, <2>2, <2>3, DoneIdle, RoundAdvances
<1>4. CASE EraseNorBlock
  <2>0. burn.do = "erase" /\ burn.at <= burn.last
    BY <1>4 DEF EraseNorBlock, Forward
  <2>1. RoundLeft = burn.last + 1 - burn.at + Len(burn.src) + 2
    BY <1>1, <2>0 DEF RoundLeft, Ahead
  <2>2. CASE burn' = [burn EXCEPT !.do = "write", !.at = 1]
    <3>1. /\ burn'.do = "write" /\ burn'.at = 1
          /\ burn'.src = burn.src /\ burn'.tries = burn.tries
      BY <1>1, <2>2
    <3>2. RoundLeft' <= Len(burn.src) + 2
      BY <1>1, <3>1 DEF RoundLeft, Ahead
    <3>3. RoundLeft' \in Nat /\ RoundLeft' < RoundLeft
      BY <1>1, <2>0, <2>1, <3>1, <3>2 DEF RoundLeft, Ahead
    <3>. QED BY <1>0, <1>2, <3>1, <3>3, DoneIdle, RoundAdvances
  <2>3. CASE burn' = [burn EXCEPT !.at = @ + 1] /\ burn.at # burn.last
    <3>1. /\ burn'.do = "erase" /\ burn'.at = burn.at + 1
          /\ burn'.last = burn.last
          /\ burn'.src = burn.src /\ burn'.tries = burn.tries
      BY <1>1, <2>0, <2>3
    <3>2. RoundLeft' = burn.last + 1 - (burn.at + 1) + Len(burn.src) + 2
      BY <1>1, <2>0, <2>3, <3>1 DEF RoundLeft, Ahead
    <3>3. RoundLeft' \in Nat /\ RoundLeft' < RoundLeft
      BY <1>1, <2>0, <2>1, <2>3, <3>2
    <3>. QED BY <1>0, <1>2, <3>1, <3>3, DoneIdle, RoundAdvances
  <2>. QED BY <1>3, <1>4, <2>0, <2>2, <2>3 DEF EraseNorBlock
<1>5. CASE WriteWord
  <2>0. burn.do = "write" /\ burn.at <= Len(burn.src)
    BY <1>5 DEF WriteWord
  <2>1. CASE burn' = [burn EXCEPT !.at = @ + 1]
    <3>1. /\ burn'.do = "write" /\ burn'.at = burn.at + 1
          /\ burn'.src = burn.src /\ burn'.tries = burn.tries
      BY <1>1, <2>0, <2>1
    <3>2. RoundLeft' \in Nat /\ RoundLeft' < RoundLeft
      BY <1>1, <2>0, <3>1 DEF RoundLeft, Ahead
    <3>. QED BY <1>0, <1>2, <3>1, <3>2, DoneIdle, RoundAdvances
  <2>. QED BY <1>3, <1>5, <2>0, <2>1 DEF WriteWord
<1>6. CASE WriteDone
  BY <1>3, <1>6 DEF WriteDone
<1>7. CASE VerifyNor
  <2>1. CASE burn' = DONE
    <3>1. BurnLeft' = 0
      BY <2>1, DoneIdle DEF BurnLeft
    <3>. QED BY <1>0, <3>1, BurnLeftType
  <2>2. CASE /\ burn.tries < RETRIES
             /\ burn' = Program(burn.dest, burn.src, FALSE, TRUE, burn.tries + 1)
    <3>1. /\ burn'.do \in {"write", "verify"} /\ burn'.at = 1
          /\ burn'.src = burn.src /\ burn'.tries = burn.tries + 1
      BY <2>2 DEF Program
    <3> DEFINE round == Len(burn.src) + 3
               left  == RETRIES - burn.tries
    <3>2. round \in Nat /\ left \in Nat /\ left > 0 /\ RETRIES \in Nat
      BY <1>1, <2>2, NorNumbers
    <3>3. RoundLeft' \in Nat /\ RoundLeft' < round
      BY <1>1, <3>1 DEF RoundLeft, Ahead
    <3>4. BurnLeft' = (left - 1) * round + RoundLeft'
      <4>1. Ahead(burn.tries + 1, RETRIES) = left - 1
        BY <1>1, <2>2, NorNumbers DEF Ahead
      <4>. QED BY <3>1, <4>1 DEF BurnLeft
    <3>5. BurnLeft = left * round + 1
      <4>1. Ahead(burn.tries, RETRIES) = left /\ burn.do = "verify"
        BY <1>1, <1>7, <2>2, NorNumbers DEF Ahead, VerifyNor
      <4>. QED BY <4>1 DEF BurnLeft, RoundLeft
    <3> HIDE DEF round, left
    <3>6. left * round = (left - 1) * round + round
      BY <3>2
    <3>7. (left - 1) * round \in Nat
      <4>1. left - 1 \in Nat
        BY <3>2
      <4>. QED BY <3>2, <4>1
    <3> DEFINE rest == (left - 1) * round
    <3>8. BurnLeft' = rest + RoundLeft' /\ BurnLeft = rest + round + 1 /\ rest \in Nat
      BY <3>4, <3>5, <3>6, <3>7
    <3>9. \A n, m, o \in Nat :
            m < n => o + m \in Nat /\ o + m < o + n + 1
      OBVIOUS
    <3> HIDE DEF rest
    <3>. QED BY <3>2, <3>3, <3>7, <3>8, <3>9, Zenon
  <2>. QED BY <1>7, <2>1, <2>2 DEF VerifyNor
<1>. QED
  BY <1>4, <1>5, <1>6, <1>7 DEF NorStep

LEMMA StepsLeftType ==
  ASSUME IInv
  PROVE  StepsLeft \in Nat /\ (~ Idle => StepsLeft > 0)
BY WorkLeftType, BurnLeftType, DoneIdle, IdleWork
DEF IInv, NandInv, NorInv, StepsLeft, Idle

LEMMA StepAdvances ==
  ASSUME IInv, IInv', Forward, Next, ~ Idle, vars' # vars
  PROVE  StepsLeft' < StepsLeft
<1>1. /\ NandType /\ ModeInv /\ NorType
      /\ NorInv /\ NorInv'
  BY DEF IInv, NandInv, NorInv
<1>2. WorkLeft \in Nat /\ BurnLeft \in Nat
  BY <1>1, WorkLeftType, BurnLeftType
<1>3. mode = "prompt"
  BY <1>1, DoneIdle, IdleWork DEF ModeInv, Idle
<1>4. Work \/ PowerOff
  BY <1>3
  DEF Next, PowerOn, PowerOnWild, SelfCopy_BootLoader, SelfCopyWild, Autoboot,
      BootMenuKey, NandCommand, BootFlashCommand, Apply, Command, Dead
<1>5. CASE PowerOff
  <2>1. work' = IDLE /\ burn' = DONE
    BY <1>5 DEF PowerOff, NandCut, NorCut
  <2>2. StepsLeft' = 0
    BY <2>1, IdleWork, DoneIdle DEF StepsLeft, WorkLeft, BurnLeft
  <2>. QED BY <2>2, StepsLeftType
<1>6. CASE NandStep /\ UNCHANGED norVars
  <2>1. BurnLeft' = BurnLeft
    BY <1>6 DEF BurnLeft, RoundLeft, norVars
  <2>. QED BY <1>1, <1>2, <1>6, <2>1, NandAdvances DEF StepsLeft
<1>7. CASE NorStep /\ UNCHANGED nandVars
  <2>1. WorkLeft' = WorkLeft
    BY <1>7 DEF WorkLeft, BaseBlock, nandVars
  <2>. QED BY <1>1, <1>2, <1>7, <2>1, NorAdvances DEF StepsLeft
<1>. QED
  BY <1>4, <1>5, <1>6, <1>7 DEF Work

(* CommandAdvances: erasing, programming, comparing and trying again goes  *)
(* on for a number of steps that is known when the command is given.       *)
THEOREM CommandsAdvance == Spec => CommandAdvances
<1>1. Spec => []Forward
  <2>1. Init => Forward
    BY ForwardInit
  <2>2. IInv /\ Forward /\ [Next]_vars => Forward'
    BY ForwardNext
  <2>. QED BY <2>1, <2>2, Invariant, PTL DEF Spec
<1>2. IInv /\ IInv' /\ Forward /\ [Next]_vars =>
        [~ Idle => StepsLeft \in Nat /\ StepsLeft' < StepsLeft]_vars
  BY StepsLeftType, StepAdvances
<1>. QED
  BY <1>1, <1>2, Invariant, PTL DEF Spec, CommandAdvances
=============================================================================
