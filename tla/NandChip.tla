------------------------------ MODULE NandChip ------------------------------
(***************************************************************************)
(* The NAND flash chip behind the FTNANDC021 controller, as the driver     *)
(* src/drivers/nandc.c sees it through the controller's registers.  Nothing*)
(* of it is code of the repository: every definition here is a model of    *)
(* hardware, taken from how the driver uses it.                            *)
(*                                                                         *)
(* A page holds one Cell.  Programming can only clear bits and the program *)
(* never erases, so a page that is programmed twice with different data    *)
(* holds neither (Garbled).  The bad-block byte BI lives in the spare area:*)
(* bad is the set of blocks whose BI is not 0xFF.  defect is the set of    *)
(* blocks the cells of which no longer take a program operation.           *)
(***************************************************************************)
EXTENDS Integers, FiniteSets

CONSTANTS
  NumBlocks,       \* erase blocks of the chip
  PagesPerBlock,   \* flashdev->pg_per_bk
  Data,            \* the contents the program may store in a page
  Blank,           \* an erased page
  Garbled,         \* a page that holds none of Data
  TargetIncluded   \* does BLANK_CHK also look at the page CB_TAR names?

ASSUME GeometryAssumption ==
  /\ NumBlocks \in Nat \ {0}
  /\ PagesPerBlock \in Nat \ {0}
ASSUME CellAssumption == Blank \notin Data /\ Garbled \notin Data /\ Blank # Garbled
ASSUME TargetAssumption == TargetIncluded \in BOOLEAN

Blocks == 0 .. NumBlocks - 1
Pages  == 0 .. PagesPerBlock - 1
Addr   == Blocks \X Pages
Cell   == Data \cup {Blank, Garbled}

(* The controller counts rows without end; the chip ignores the row bits   *)
(* beyond its size, so that block b of the controller is its block Row(b). *)
Row(b) == b % NumBlocks

(* BLANK_CHECK_FAIL is clear in NANDC_STS. *)
Passed == -1

Commands == {"none", "reset", "sw_reset", "sp_read", "page_read",
             "page_write", "sp_write", "blank_chk"}

VARIABLES
  page,     \* the data area
  bad,      \* blocks with BI # 0xFF in the spare area
  defect,   \* blocks whose cells fail
  cmd,      \* command under way (LAUNCH bit of NANDC_ACC, reset bit of NANDC_SRST)
  dma,      \* the DMA channel of the controller: "idle", "armed" or "done"
  nadr,     \* NANDC_ADDR; Blanking_Check may count past the end of the chip
  fail      \* block of the page index in NANDC_ID30, or Passed

chipVars == <<page, bad, defect, cmd, dma, nadr, fail>>

ChipTypeOK ==
  /\ page \in [Addr -> Cell]
  /\ bad \in SUBSET Blocks
  /\ defect \in SUBSET Blocks
  /\ cmd \in Commands
  /\ dma \in {"idle", "armed", "done"}
  /\ nadr \in Nat \X Pages
  /\ fail \in Nat \cup {Passed}

(* A flash page after data is programmed over what it held. *)
Programmed(blk, old, data) ==
  IF blk \in defect THEN Garbled
  ELSE IF old = Blank \/ data = old THEN data
  ELSE IF data = Blank THEN old ELSE Garbled

Dirty(b) == b \in bad \/ \E p \in Pages : page[<<b, p>>] # Blank

(* The blocks, as the controller counts them, in which BLANK_CHK from block*)
(* s to target block e finds a byte that is not 0xFF.                      *)
DirtyBlocks(s, e) ==
  {b \in s .. e : \/ b < e /\ Dirty(Row(b))
                  \/ /\ TargetIncluded /\ b = e
                     /\ Row(b) \in bad \/ page[<<Row(b), 0>>] # Blank}

(* The controller finishes a command that changes nothing in the chip. *)
HwPlain ==
  /\ \/ cmd \in {"reset", "sw_reset", "sp_read"}
     \/ cmd = "page_read" /\ dma # "armed"
  /\ cmd' = "none"
  /\ UNCHANGED <<page, bad, defect, dma, nadr, fail>>

(* PGWR_RDSTS programs the page NANDC_ADDR names with data.  The status it *)
(* reads back stays in the controller: no code of the driver looks at it.  *)
HwProgram(data) ==
  /\ cmd = "page_write" /\ dma # "armed"
  /\ page' = [page EXCEPT ![nadr] = Programmed(nadr[1], @, data)]
  /\ cmd' = "none"
  /\ UNCHANGED <<bad, defect, dma, nadr, fail>>

(* SPWR_RDSTS writes BI of every page of the block. *)
HwMark ==
  /\ cmd = "sp_write"
  /\ bad' = bad \cup {Row(nadr[1])}
  /\ cmd' = "none"
  /\ UNCHANGED <<page, defect, dma, nadr, fail>>

(* BLANK_CHK stops at the first page that is not blank. *)
HwBlankCheck(target) ==
  LET dirty == DirtyBlocks(nadr[1], target) IN
  /\ cmd = "blank_chk"
  /\ \/ dirty = {} /\ fail' = Passed
     \/ fail' \in dirty /\ \A b \in dirty : fail' <= b
  /\ cmd' = "none"
  /\ UNCHANGED <<page, bad, defect, dma, nadr>>
=============================================================================
