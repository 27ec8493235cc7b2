-------------------------------- MODULE Nandc --------------------------------
(***************************************************************************)
(* The NAND driver, src/drivers/nandc.c: nand_read, the one routine that   *)
(* reads and writes pages and skips bad blocks, and Blanking_Check, which  *)
(* looks for blank blocks and marks the others bad.  The driver polls; a   *)
(* step of it is what it does between two answers of the hardware.         *)
(*                                                                         *)
(* Addresses are <<block, page>>.  The 32-bit byte address of nand_read    *)
(* wraps to 0 after the last block of a 4 GB chip; a smaller chip ignores  *)
(* the row bits beyond its size, which comes to the same.  Blanking_Check  *)
(* counts blocks past the end of the chip; startBlk, endBlk and fail are   *)
(* what it counts, Row of them the blocks of the chip.                     *)
(***************************************************************************)
EXTENDS NandChip

CONSTANTS
  MaxPages,  \* bound: pages of the longest transfer
  MaxScan    \* bound: blocks a scan that finds all of them bad counts up to
ASSUME MaxPagesAssumption == MaxPages \in Nat \ {0}
ASSUME MaxScanAssumption == MaxScan \in Nat

VARIABLES
  pc,        \* where the driver is
  mode,      \* Mode of nand_read: 0 reads, 1 writes
  addr,      \* addr of nand_read
  left,      \* pgcnt of nand_read
  buf,       \* the memory buf of nand_read points into, a Cell per page
  startBlk,  \* StartPage of Blanking_Check, in blocks
  endBlk,    \* EndPage of Blanking_Check, in blocks
  \* History, read by properties only:
  pos,       \* pages moved by the transfer
  from,      \* address the transfer was asked to start at
  trail,     \* trail[i]: where page i of the transfer was moved, i < pos
  wrapped,   \* has a transfer still to move pages wrapped past the end of the chip?
  need       \* BlkNum of Blanking_Check

readVars  == <<mode, addr, left, buf, pos, from, trail, wrapped>>
blankVars == <<startBlk, endBlk, need>>
drvVars   == <<pc, readVars, blankVars>>
nandVars  == <<chipVars, drvVars>>

DriverPCs == {"idle", "reset", "loop", "isbb", "dma", "poll", "closing",
              "bc_wait", "bc_mark", "halt"}
Buffers == [0 .. MaxPages - 1 -> Cell]

NandTypeOK ==
  /\ ChipTypeOK
  /\ pc \in DriverPCs
  /\ mode \in {0, 1}
  /\ addr \in Addr
  /\ left \in 0 .. MaxPages
  /\ buf \in Buffers
  /\ startBlk \in Nat
  /\ endBlk \in Nat
  /\ pos \in 0 .. MaxPages
  /\ from \in Addr
  /\ trail \in [0 .. MaxPages - 1 -> Addr]
  /\ wrapped \in BOOLEAN
  /\ need \in Nat

NandInit ==
  /\ page \in [Addr -> {Blank, Garbled}]
  /\ bad \in SUBSET Blocks
  /\ defect \in SUBSET Blocks
  /\ cmd = "none" /\ dma = "idle" /\ nadr = <<0, 0>> /\ fail = Passed
  /\ pc = "idle" /\ mode = 0 /\ addr = <<0, 0>> /\ left = 0
  /\ buf = [i \in 0 .. MaxPages - 1 |-> Garbled]
  /\ startBlk = 0 /\ endBlk = 0
  /\ pos = 0 /\ from = <<0, 0>>
  /\ trail = [i \in 0 .. MaxPages - 1 |-> <<0, 0>>]
  /\ wrapped = FALSE /\ need = 0

-----------------------------------------------------------------------------
(* Mutant: the address does not wrap at the end of the chip. *)
NextBlockUnwrapped(a) == <<a[1] + 1, 0>>

(* addr advanced to the next block, and by one page. *)
NextBlock(a) == IF a[1] + 1 = NumBlocks THEN <<0, 0>> ELSE <<a[1] + 1, 0>>
NextPage(a)  == IF a[2] + 1 = PagesPerBlock THEN NextBlock(a) ELSE <<a[1], a[2] + 1>>
Wraps(a, b)  == b[1] < a[1] \/ (b[1] = a[1] /\ b[2] <= a[2])

(* nand_reset, as far as it waits: the command is launched. *)
LaunchReset == cmd' = "reset"

(* nand_read(a, b, n pages, m) is called. *)
CallRead(a, b, n, m) ==
  /\ pc = "idle"
  /\ LaunchReset
  /\ pc' = "reset" /\ mode' = m /\ addr' = a /\ left' = n /\ buf' = b
  /\ pos' = 0 /\ from' = a
  /\ trail' = [i \in 0 .. MaxPages - 1 |-> <<0, 0>>]
  /\ UNCHANGED <<page, bad, defect, dma, nadr, fail, wrapped, blankVars>>

(* Mutant: nand_reset does not wait. *)
ResetUnawaited ==
  /\ pc = "reset" /\ pc' = "loop"
  /\ UNCHANGED <<chipVars, readVars, blankVars>>

ResetDone ==
  /\ pc = "reset" /\ cmd = "none"
  /\ pc' = "loop"
  /\ UNCHANGED <<chipVars, readVars, blankVars>>

(* The head of the page loop: nand_isbb reads the spare area of the block. *)
IsBadBlock ==
  /\ pc = "loop" /\ left > 0
  /\ nadr' = <<addr[1], 0>> /\ cmd' = "sp_read"
  /\ pc' = "isbb"
  /\ UNCHANGED <<page, bad, defect, dma, fail, readVars, blankVars>>

(* Mutant: addr is not advanced past the bad block. *)
SkipBlockStays ==
  /\ pc = "isbb" /\ cmd = "none" /\ addr[1] \in bad
  /\ pc' = "loop"
  /\ UNCHANGED <<chipVars, readVars, blankVars>>

SkipBlock ==
  /\ pc = "isbb" /\ cmd = "none" /\ addr[1] \in bad
  /\ addr' = NextBlock(addr)
  /\ wrapped' = (wrapped \/ Wraps(addr, addr'))
  /\ pc' = "loop"
  /\ UNCHANGED <<chipVars, mode, left, buf, pos, from, trail, blankVars>>

(* Mutant: the answer of nand_isbb is ignored. *)
StartPageUnchecked ==
  /\ pc = "isbb" /\ cmd = "none"
  /\ nadr' = addr /\ dma' = "armed"
  /\ cmd' = IF mode = 0 THEN "page_read" ELSE "page_write"
  /\ pc' = "dma"
  /\ UNCHANGED <<page, bad, defect, fail, readVars, blankVars>>

(* _nand_pgread or _nand_pgwrite: the page command and the DMA channel. *)
StartPage ==
  /\ pc = "isbb" /\ cmd = "none" /\ addr[1] \notin bad
  /\ nadr' = addr /\ dma' = "armed"
  /\ cmd' = IF mode = 0 THEN "page_read" ELSE "page_write"
  /\ pc' = "dma"
  /\ UNCHANGED <<page, bad, defect, fail, readVars, blankVars>>

(* The DMA channel moves the page between memory and the controller. *)
DmaTransfer ==
  /\ dma = "armed"
  /\ dma' = "done"
  /\ buf' = IF cmd = "page_read" THEN [buf EXCEPT ![pos] = page[nadr]] ELSE buf
  /\ UNCHANGED <<page, bad, defect, cmd, nadr, fail, pc, mode, addr, left,
                 pos, from, trail, wrapped, blankVars>>

(* The driver waits for the DMA's terminal count without bound. *)
DmaDone ==
  /\ pc = "dma" /\ dma = "done"
  /\ dma' = "idle"
  /\ pc' = "poll"
  /\ UNCHANGED <<page, bad, defect, cmd, nadr, fail, readVars, blankVars>>

(* Check_Complete(FALSE) sees LAUNCH clear: on to the next page. *)
PageDone ==
  /\ pc = "poll" /\ cmd = "none"
  /\ trail' = [trail EXCEPT ![pos] = addr]
  /\ addr' = NextPage(addr)
  /\ wrapped' = (wrapped \/ (left > 1 /\ Wraps(addr, addr')))
  /\ left' = left - 1 /\ pos' = pos + 1
  /\ pc' = "loop"
  /\ UNCHANGED <<chipVars, mode, buf, from, blankVars>>

(* Check_Complete(FALSE) gives up after 10000 polls: "NAND read failed",   *)
(* and the driver spins.  The command it stopped waiting for goes on.      *)
PageTimeout ==
  /\ pc = "poll" /\ cmd # "none"
  /\ pc' = "halt"
  /\ UNCHANGED <<chipVars, readVars, blankVars>>

(* Mutant: the loop ends one page early. *)
CloseEarly ==
  /\ pc = "loop" /\ left <= 1
  /\ cmd' = "sw_reset"
  /\ pc' = "closing"
  /\ UNCHANGED <<page, bad, defect, dma, nadr, fail, readVars, blankVars>>

(* nand_sw_reset at the end of nand_read, and its return. *)
Close ==
  /\ pc = "loop" /\ left = 0
  /\ cmd' = "sw_reset"
  /\ pc' = "closing"
  /\ UNCHANGED <<page, bad, defect, dma, nadr, fail, readVars, blankVars>>

Return ==
  /\ pc = "closing" /\ cmd = "none"
  /\ pc' = "idle"
  /\ UNCHANGED <<chipVars, readVars, blankVars>>

-----------------------------------------------------------------------------
(* Mutant: a block that is not full is not counted. *)
BlkNumDown(n) == n \div PagesPerBlock

(* The blocks a transfer of n pages takes. *)
BlkNum(n) == n \div PagesPerBlock + (IF n % PagesPerBlock = 0 THEN 0 ELSE 1)

(* Blanking_Check of n pages is called: BLANK_CHK from page 0. *)
CallBlankingCheck(n) ==
  /\ pc = "idle"
  /\ startBlk' = 0 /\ endBlk' = BlkNum(n) /\ need' = BlkNum(n)
  /\ nadr' = <<0, 0>> /\ cmd' = "blank_chk"
  /\ pc' = "bc_wait"
  /\ UNCHANGED <<page, bad, defect, dma, fail, readVars>>

BlankPassed ==
  /\ pc = "bc_wait" /\ cmd = "none" /\ fail = Passed
  /\ pc' = "idle"
  /\ UNCHANGED <<chipVars, readVars, blankVars>>

(* Mutant: the block the scan started at is marked. *)
BlankFailedMarksFirst ==
  /\ pc = "bc_wait" /\ cmd = "none" /\ fail # Passed
  /\ nadr' = <<startBlk, 0>> /\ cmd' = "sp_write"
  /\ pc' = "bc_mark"
  /\ UNCHANGED <<page, bad, defect, dma, fail, readVars, blankVars>>

(* The block that is not blank is marked bad with 0x81. *)
BlankFailed ==
  /\ pc = "bc_wait" /\ cmd = "none" /\ fail # Passed
  /\ nadr' = <<fail, 0>> /\ cmd' = "sp_write"
  /\ pc' = "bc_mark"
  /\ UNCHANGED <<page, bad, defect, dma, fail, readVars, blankVars>>

(* Mutant: the end of the range is not moved. *)
BlankResumeShort ==
  /\ pc = "bc_mark" /\ cmd = "none" /\ endBlk < MaxScan
  /\ startBlk' = fail + 1 /\ endBlk' = endBlk
  /\ nadr' = <<fail + 1, 0>> /\ cmd' = "blank_chk"
  /\ pc' = "bc_wait"
  /\ UNCHANGED <<page, bad, defect, dma, fail, readVars, need>>

(* The scan goes on after it, over a range that is one block longer. *)
BlankResume ==
  /\ pc = "bc_mark" /\ cmd = "none" /\ endBlk < MaxScan
  /\ startBlk' = fail + 1 /\ endBlk' = endBlk + 1
  /\ nadr' = <<fail + 1, 0>> /\ cmd' = "blank_chk"
  /\ pc' = "bc_wait"
  /\ UNCHANGED <<page, bad, defect, dma, fail, readVars, need>>

-----------------------------------------------------------------------------
(* The controller on its own: it finishes the command under way. *)
Hardware ==
  \/ HwPlain /\ UNCHANGED drvVars
  \/ HwProgram(buf[pos]) /\ UNCHANGED drvVars
  \/ HwMark /\ UNCHANGED drvVars
  \/ HwBlankCheck(endBlk) /\ UNCHANGED drvVars
  \/ DmaTransfer

Driver ==
  \/ ResetDone \/ IsBadBlock \/ SkipBlock \/ StartPage \/ DmaDone
  \/ PageDone \/ PageTimeout \/ Close \/ Return
  \/ BlankPassed \/ BlankFailed \/ BlankResume

(* The driver as a component: a caller may ask for any transfer that starts *)
(* at a block, as main.c and boot_isp_func_dma do.                         *)
Call ==
  \/ \E a \in Blocks \X {0}, n \in 0 .. MaxPages, d \in Data :
       CallRead(a, [i \in 0 .. MaxPages - 1 |-> d], n, 1)
  \/ \E a \in Blocks \X {0}, n \in 0 .. MaxPages :
       CallRead(a, [i \in 0 .. MaxPages - 1 |-> Garbled], n, 0)
  \/ \E n \in 0 .. MaxPages : CallBlankingCheck(n)

(* After a failure the driver spins, for ever; and with no block left that *)
(* is blank Blanking_Check never ends: the bound cuts it off.              *)
Endless == pc = "bc_mark" /\ cmd = "none" /\ endBlk >= MaxScan
Spin == (pc = "halt" \/ Endless) /\ UNCHANGED nandVars

NandNext == Call \/ Driver \/ Hardware \/ Spin

NandSpec == NandInit /\ [][NandNext]_nandVars

-----------------------------------------------------------------------------
(* Blanking_Check (nandc.c:271-325) never loses count while it moves its    *)
(* range past blocks it marks: what it has scanned and not marked is blank, *)
(* and is what the rest of the range lacks of BlkNum blocks.                *)
Unmarked(n) == {b \in 0 .. n - 1 : Row(b) \notin bad}
BlankScan ==
  pc \in {"bc_wait", "bc_mark"} =>
    /\ Cardinality(Unmarked(startBlk)) + endBlk = need + startBlk
    /\ \A b \in Unmarked(startBlk) : \A p \in Pages : page[<<Row(b), p>>] = Blank

(* Blanking_Check keeps its promise to the writes that follow it, as far as *)
(* the chip allows: whenever it returns, the unmarked blocks of the chip in *)
(* its range are blank, and they are BlkNum blocks; or, when the range went *)
(* past the end and round the chip, all that are left unmarked, fewer than  *)
(* asked for but never none.                                                *)
Found == {b \in Blocks : b < endBlk} \ bad
Enough(n) ==
  \/ Cardinality(Found) = n
  \/ Found = Blocks \ bad /\ Cardinality(Found) \in 1 .. n - 1
BlankReturn == BlankPassed =>
  (\A b \in Found : \A p \in Pages : page[<<b, p>>] = Blank) /\ Enough(need)
BlankPost == [][BlankReturn]_nandVars

(* "every command will not send until the R/_B is ready" (nandc.c:66):     *)
(* LAUNCH is set, and NANDC_ADDR changed, only while no command is under   *)
(* way.                                                                    *)
ReadyAtLaunch == [][(cmd' # cmd /\ cmd' # "none") \/ nadr' # nadr => cmd = "none"]_nandVars

(* A page of the flash is programmed only by a write that still has pages  *)
(* to move, in a block that write found unmarked, and a block is marked    *)
(* only by Blanking_Check.                                                 *)
WritesBehaved ==
  [][/\ page' # page => mode = 1 /\ pc \in {"dma", "poll", "halt"} /\ addr[1] \notin bad
     /\ bad' # bad => pc = "bc_mark"]_nandVars

(* nand_read implements PageStream: pages go to consecutive pages of the    *)
(* unmarked blocks, a page is passed over only with its whole bad block, the*)
(* call returns only when every page was moved, and no block is marked while*)
(* a transfer runs.                                                         *)
Stream == INSTANCE PageStream WITH
  busy  <- pc \in {"reset", "loop", "isbb", "dma", "poll", "closing", "halt"},
  want  <- pos + left, first <- from, moved <- pos, place <- trail
Streams == Stream!Spec
=============================================================================
