------------------------------- MODULE Geometry -------------------------------
(***************************************************************************)
(* The arithmetic of the NAND path: the geometry that nand_init computes   *)
(* from what the straps of the board select, and the lengths, addresses and*)
(* page numbers of main, nand_read and Blanking_Check, in machine words.   *)
(* Nandc and Upgrade count in pages and blocks; here bytes are counted, of *)
(* one upload on its way from the sender to ISP_BASE.                      *)
(***************************************************************************)
EXTENDS Integers

CONSTANTS
  WordBits,   \* 32 in the code
  Sizes,      \* how many blocks a chip may have: powers of two
  Lengths     \* lengths of an ISP, as <<blocks, 2K pages, bytes>>

Word == 2 ^ WordBits

(* Bytes of a block: 16 to 128 pages of 512, 2K or 4K bytes. *)
BlockSizes == {2 ^ n : n \in 13 .. 19}
LengthOf(t, block) == t[1] * block + t[2] * 2048 + t[3]

ASSUME WordAssumption ==
  /\ WordBits \in Nat /\ Word \in Nat \ {0} /\ Sizes \subseteq Nat \ {0}
  /\ Lengths \subseteq Int \X Int \X Int

(* Powers of two: a chip that can be addressed divides what can be.        *)
ASSUME SizesAssumption ==
  \A n \in Sizes, b \in BlockSizes :
    b < Word /\ (n * b <= Word => Word % (n * b) = 0)

(* An ISP, and the page that its length is rounded up to, are in memory.   *)
ASSUME LengthAssumption ==
  \A t \in Lengths, b \in BlockSizes : LengthOf(t, b) \in 0 .. Word - 4096

VARIABLES
  gpc,        \* where the program is
  strap,      \* straps 15-16 and 19-20
  memc,       \* page and block size in NANDC_MEMC
  blocks,     \* blocks of the chip
  bad,        \* those marked bad
  src,        \* the sender
  length,     \* isp_length
  staged,     \* bytes of the ISP that are at ISP_CODE_BASE
  stored,     \* that are in the flash
  loaded,     \* that are at ISP_BASE
  flashdev,   \* its shifts
  addr, pgcnt,                  \* of nand_read
  row,                          \* page that NANDC_ADDR names, a page number
  moved,                        \* pages moved by the transfer
  startPage, endPage, marked    \* of Blanking_Check, and blocks it has marked

uploadVars == <<src, length, staged, stored, loaded>>
readVars   == <<addr, pgcnt, row, moved>>
blankVars  == <<startPage, endPage, marked>>
gvars == <<gpc, strap, memc, blocks, bad, flashdev, uploadVars, readVars, blankVars>>

Shl(x, n) == (x * 2 ^ n) % Word
Shr(x, n) == x \div 2 ^ n
Least(x, y) == IF x <= y THEN x ELSE y

(* The chip as NANDC_MEMC describes it: pages of 512, 2K or 4K bytes, in   *)
(* blocks of 16, 32, 64 or 128.                                            *)
ChipPage  == CASE memc.ps = 0 -> 512 [] memc.ps = 1 -> 2048 [] memc.ps = 2 -> 4096
ChipBlock == 16 * 2 ^ memc.bs * ChipPage

-----------------------------------------------------------------------------
GInit ==
  /\ gpc = "reset" /\ strap \in [ps : 0 .. 3, bs : 0 .. 3]
  /\ memc = [ps |-> 0, bs |-> 0] /\ blocks = 0 /\ bad = {}
  /\ src = "none" /\ length = 0 /\ staged = 0 /\ stored = 0 /\ loaded = 0
  /\ flashdev = [pgshift |-> 0, bkshift |-> 0, pgPerBk |-> 0]
  /\ addr = 0 /\ pgcnt = 0 /\ row = 0 /\ moved = 0
  /\ startPage = 0 /\ endPage = 0 /\ marked = 0

Goto(from, to) == gpc = from /\ gpc' = to

(* board_init_nandc2: strap 3 stands for 2K pages in blocks of 16. *)
SetMemc ==
  /\ Goto("reset", "upload")
  /\ memc' = IF strap.ps = 3 THEN [ps |-> 1, bs |-> 0] ELSE strap
  /\ blocks' \in {n \in Sizes : n * ChipBlock' <= Word}
  /\ bad' \in SUBSET (0 .. blocks' - 1)
  /\ UNCHANGED <<strap, flashdev, uploadVars, readVars, blankVars>>

(* read_uart_isp reads length >> 2 words, read_sd_bsp_lt_isp               *)
(* (length >> 9) + 1 sectors.                                              *)
UartBytes(n) == 4 * Shr(n, 2)
SdBytes(n)   == 512 * (Shr(n, 9) + 1)

(* The length in a page that was never written. *)
Erased == Word - 1

(* An upload; or none, and the flash holds an image or is erased. *)
Upload ==
  /\ Goto("upload", "init")
  /\ \/ /\ \E t \in Lengths : length' = LengthOf(t, ChipBlock)
        /\ \/ src' = "uart" /\ staged' = UartBytes(length') /\ stored' = 0
           \/ src' = "sd" /\ staged' = SdBytes(length') /\ stored' = 0
           \/ src' = "none" /\ staged' = 0 /\ stored' = length'
     \/ src' = "none" /\ length' = Erased /\ staged' = 0 /\ stored' = 0
  /\ UNCHANGED <<strap, memc, blocks, bad, loaded, flashdev, readVars, blankVars>>

(* Mutant: the shift of a 2K page whatever the page is. *)
BkShiftTwoK(ps, bs, pg) == IF ps = 0 THEN 13 + bs ELSE 15 + bs

PgShift(ps) == IF ps = 2 THEN 12 ELSE 11
BkShift(ps, bs, pg) == IF ps = 0 THEN pg + 2 + bs ELSE pg + 4 + bs

NandInit ==
  /\ Goto("init", "main")
  /\ LET pg == PgShift(memc.ps) IN
     flashdev' = [pgshift |-> pg, bkshift |-> BkShift(memc.ps, memc.bs, pg),
                  pgPerBk |-> IF memc.ps = 0 THEN 2 ^ (memc.bs + 2) ELSE 2 ^ (memc.bs + 4)]
  /\ UNCHANGED <<strap, memc, blocks, bad, uploadVars, readVars, blankVars>>

pgsize == 2 ^ flashdev.pgshift
bksize == 2 ^ flashdev.bkshift

-----------------------------------------------------------------------------
(* Mutants: no block for what is left of the length; no page for it. *)
BlkNumDown(n) == Shr(n, flashdev.bkshift)
PageCountDown(n) == Shr(n, flashdev.pgshift)

BlkNum(n) == Shr(n, flashdev.bkshift) + (IF n % bksize # 0 THEN 1 ELSE 0)
PageCount(n) == Shr((n + (pgsize - 1)) % Word, flashdev.pgshift)

BlankingCheck ==
  /\ src # "none" /\ Goto("main", "blank")
  /\ startPage' = 0
  /\ endPage' = Shl(BlkNum(length), flashdev.bkshift - flashdev.pgshift)
  /\ marked' = 0
  /\ UNCHANGED <<strap, memc, blocks, bad, flashdev, uploadVars, readVars>>

(* The block of a page number that the controller reports. *)
BlockIdx(p) == Shr(p, flashdev.bkshift - flashdev.pgshift)

(* Some page of the range is not blank: the first or the last of a block of*)
(* the chip.  (Nandc has the range that goes on past the chip's end.)      *)
BlankFailed ==
  /\ gpc = "blank" /\ gpc' = gpc
  /\ \E b \in 0 .. blocks - 1, k \in {0, flashdev.pgPerBk - 1} :
       LET p == b * flashdev.pgPerBk + k IN
       /\ startPage <= p /\ p < endPage
       /\ row' = BlockIdx(p) * flashdev.pgPerBk
       /\ bad' = bad \cup {b}
       /\ startPage' = (BlockIdx(p) + 1) * flashdev.pgPerBk
       /\ endPage' = endPage + flashdev.pgPerBk
  /\ marked' = marked + 1
  /\ UNCHANGED <<strap, memc, blocks, flashdev, uploadVars, addr, pgcnt, moved>>

(* nand_read is called. *)
Read(from, to, a, n) ==
  /\ Goto(from, to)
  /\ addr' = a /\ pgcnt' = PageCount(n) /\ moved' = 0 /\ row' = row
  /\ UNCHANGED <<strap, memc, blocks, bad, flashdev, src, length, staged, blankVars>>

(* What is at ISP_CODE_BASE besides the ISP is of no use in the flash. *)
BlankPassed == Read("blank", "header", 0, 1024) /\ UNCHANGED <<stored, loaded>>
WriteIsp ==
  /\ pgcnt = 0 /\ Read("header", "isp", bksize, length)
  /\ UNCHANGED <<stored, loaded>>
LoadIsp ==
  /\ pgcnt = 0 /\ Read("isp", "load", bksize, length)
  /\ stored' = Least(staged, moved * pgsize) /\ loaded' = loaded
GoNand ==
  /\ src = "none" /\ Read("main", "load", bksize, length)
  /\ UNCHANGED <<stored, loaded>>

NextBlock(a) == Shl(Shr(a, flashdev.bkshift) + 1, flashdev.bkshift)

(* Mutant: the block number is taken for the number of its first page. *)
FirstPageUnshifted(a) == Shr(a, flashdev.bkshift)

(* nand_isbb: the page whose spare area is looked at. *)
FirstPage(a) == Shl(Shr(a, flashdev.bkshift), flashdev.bkshift - flashdev.pgshift)

(* The chip's block and page of a page number: it ignores the higher bits. *)
(* Page numbers count in pages of the driver, for 512-byte pages too, where*)
(* they are of 2K: the repository does not say how the controller counts.  *)
At(p) == <<(p \div (ChipBlock \div pgsize)) % blocks, p % (ChipBlock \div pgsize)>>

InRead == gpc \in {"header", "isp", "load"} /\ pgcnt > 0 /\ gpc' = gpc
ReadKeeps == UNCHANGED <<strap, memc, blocks, bad, flashdev, uploadVars, blankVars>>

SkipBlock ==
  /\ InRead /\ row' = FirstPage(addr)
  /\ At(row')[1] \in bad
  /\ addr' = NextBlock(addr)
  /\ UNCHANGED <<pgcnt, moved>> /\ ReadKeeps

MovePage ==
  /\ InRead /\ At(FirstPage(addr))[1] \notin bad
  /\ row' = Shr(addr, flashdev.pgshift)
  /\ addr' = (addr + pgsize) % Word
  /\ pgcnt' = pgcnt - 1 /\ moved' = moved + 1
  /\ ReadKeeps

(* Mutant: cnt < (isp_length >> 2) *)
CopiedShort(n) == 4 * Shr(n, 2)

(* "Go SD": cnt <= (isp_length >> 2) *)
Copied(n) == 4 * (Shr(n, 2) + 1)

GoSd ==
  /\ src # "none" /\ Goto("main", "jump")
  /\ loaded' = Least(staged, Copied(length))
  /\ UNCHANGED <<strap, memc, blocks, bad, flashdev, src, length, staged, stored,
                 readVars, blankVars>>

Jump ==
  /\ pgcnt = 0 /\ Goto("load", "jump")
  /\ loaded' = Least(stored, moved * pgsize)
  /\ UNCHANGED <<strap, memc, blocks, bad, flashdev, src, length, staged, stored,
                 readVars, blankVars>>

Stopped == gpc = "jump" /\ UNCHANGED gvars

GNext ==
  \/ SetMemc \/ Upload \/ NandInit \/ BlankingCheck \/ BlankFailed \/ BlankPassed
  \/ WriteIsp \/ LoadIsp \/ GoNand \/ SkipBlock \/ MovePage
  \/ GoSd \/ Jump \/ Stopped

GSpec == GInit /\ [][GNext]_gvars

-----------------------------------------------------------------------------
(* nandc.c:104-117 against board.c:66-80: for every strap the block of the *)
(* driver is the block of the chip, and pages and blocks fit.              *)
GeometryFits ==
  gpc \notin {"reset", "upload", "init"} =>
    /\ bksize = ChipBlock
    /\ flashdev.pgPerBk * pgsize = bksize

(* nandc.c:203-204, 232-250: the byte address goes from page to page and   *)
(* from block to block of the chip as Nandc has it, around its end too,    *)
(* and the block looked at is the one the page is in.                      *)
Pages == ChipBlock \div pgsize
PageAfter(a)  == IF a[2] + 1 < Pages THEN <<a[1], a[2] + 1>> ELSE <<(a[1] + 1) % blocks, 0>>
BlockAfter(a) == <<(a[1] + 1) % blocks, 0>>
AtAddr == At(addr \div pgsize)

AddressesAgree ==
  [][/\ moved' = moved + 1 => /\ AtAddr' = PageAfter(AtAddr) /\ At(row') = AtAddr
                              /\ AtAddr[1] \notin bad
     /\ InRead /\ pgcnt' = pgcnt => /\ AtAddr' = BlockAfter(AtAddr)
                                    /\ At(row') = <<AtAddr[1], 0>>]_gvars

(* nandc.c:279-324: the range of the blank check consists of whole blocks, *)
(* and those of it that are not marked hold the ISP.                       *)
RangeHoldsIsp ==
  gpc = "blank" =>
    /\ startPage % flashdev.pgPerBk = 0 /\ endPage % flashdev.pgPerBk = 0
    /\ (endPage - marked * flashdev.pgPerBk) * pgsize >= length

(* board.c:212, "avoid NAND flash page 0 have isp code": for every strap   *)
(* the header is one page, with all of the lookup table and nothing of the *)
(* ISP, which begins at word 1024.                                         *)
IspOffset == 4 * 1024
HeaderIsOnePage ==
  gpc = "header" => moved + pgcnt = 1 /\ 4 * 256 <= pgsize /\ pgsize <= IspOffset

(* What runs is the whole ISP: all its bytes from a card, all its words     *)
(* over UART, however the length lies to sectors, pages and blocks; and of *)
(* an erased flash, whose length is the largest word, nothing is loaded.   *)
WholeIsp ==
  gpc = "jump" =>
    IF length = Erased THEN moved = 0
    ELSE loaded >= IF src = "uart" THEN length - (length % 4) ELSE length
=============================================================================
