# Verification of the ROM boot loader

TLA+ models, TLC runs and TLAPS proofs for the boot loader in `src/`: the code
in the mask ROM of an ARM SoC that starts from reset, brings up the DDR2 memory,
takes an upload from a UART or an SD card, writes it to NAND flash, and jumps
into the program (the "ISP") it finds there.  It has one thread and no
interrupts.  What is hard about it is that it works beside hardware that is
never quite in step with it (a NAND controller, a DMA channel, DDR controllers,
an SD card, a UART sender), that power may go at any step, and that it keeps
its decisions in memory that survives a reset.

## 1. The system

| part | source | state it keeps | operations |
|---|---|---|---|
| start-up | `start.S` | REMAP bit; flag `SD_NANDCSRAM2` in the SRAM of the NAND controller | reset → NAND controller → strap → header (upload or flash) → copy ROM to DDR, verify, remap → `main` |
| boot source and headers | `bsp/board.c` | `ISP_Base` area in DDR, `SD_Header_BSP` and `SDCard_SRAM` in SRAM | `read_uart_*`, `read_sd_*`, `board_bsp_strap`, `board_init_ddr2`; each parses 124 header words that are register writes |
| boot manager | `bsp/main.c` | the magic, update flag, and length at `ISP_UPDATE_BASE` | update the flash, or run what was uploaded, or run what is in the flash |
| NAND driver | `drivers/nandc.c` | geometry; address and page count of the running transfer | `nand_read` (reads *and* writes, skipping bad blocks), `Blanking_Check`, `boot_isp_func_dma` |
| SD driver | `drivers/sdc.c` | `SDCardStruct`: OCR, RCA, block length; `SD_ErrorCode` | identification, transfer-state loops, `SDCardReadSector` |
| SD controller | `drivers/sdc_cntr.c` | status bits of the controller | `SDC_SendCommand`, `SDC_ReadBlock` |
| UART | `drivers/serial.c` | receive FIFO | `serial_getw` blocks for four bytes |
| clock, C library, build | `drivers/scu.c`, `lib/`, `Makefile` | none | not modelled |

How they interact: `start.S` calls `board.c`, which calls the SD driver or the
UART and leaves an upload in DDR; `main` finds that upload through its magic,
calls the NAND driver to write it, and then reads it back through the same
driver.  No data goes from `board.c` to `main` but through DDR, which is why
staleness matters.  The NAND and SD drivers poll registers that the hardware
changes on its own.

### What must be right

* **NAND driver.** Commands are launched only when the controller is ready;
  transfers lay pages on consecutive good blocks and end; the unmarked blocks in
  the range of the blank check are blank, and are as many as asked for, or all
  that the chip has left.
* **NAND arithmetic.** For every strap the driver's block is the chip's, made of
  whole pages (its page is the chip's too, but for pages of 512 bytes), and what
  runs is the whole ISP however its length is rounded on the way.
* **Boot manager.** What an update wrote is what it loads; what runs after
  interrupted updates is never pages of two staging areas; a complete one is loaded
  by every later boot; `main` takes for an upload only what this boot has read.
* **Start-up and headers.** `main` runs out of a verified copy in a DDR that is
  up; exactly one header is applied; an upload is in DDR as it was sent.
* **UART.** A lost byte, or a header that eats a word, is found before anything
  is run or stored, and does not leave the ROM waiting for ever.
* **SD controller.** A command returns its own answer or fails, and none is sent
  over another.
* **SD driver.** Sectors come from one identified card, in order and unharmed as
  far as the CRC is looked at; every retry loop ends.

The hazards this comes from, each at its line, are in `PROJECT.json`.

## 2. Modules

| module | models | kind |
|---|---|---|
| `NandChip` | flash chip and FTNANDC021 controller | external hardware |
| `Nandc` | `nandc.c` over `NandChip`, in pages and blocks | component |
| `PageStream` | what `nand_read` promises | abstract specification of `Nandc` |
| `Geometry` | geometry, addresses and lengths of the NAND path, in bytes and machine words | component |
| `Upgrade` | `main.c` and `boot_isp_func_dma` over `Nandc`, with resets | composition |
| `ImageStore` | what `main` promises about images | abstract specification of `Upgrade` |
| `Boot` | `start.S` and `board.c`, reset to `main` | component |
| `Uart` | `serial.c` under `read_uart_*` of `board.c`, byte by byte | component |
| `Machine` | `Boot` and `ImageStore` over any number of resets | composition |
| `SdCard` | card, slot, and the data side of the SD host controller | external hardware |
| `SdCommand` | `SDC_SendCommand` over the command side of the controller | component |
| `Sdc` | `sdc.c`, `sdc_cntr.c` over `SdCard` | component |
| `SdUpload` | the SD branch of `board.c` over `Sdc` | composition |
| `NandcProofs`, `GeometryProofs` | the driver in pages and in bytes | proofs |
| `UpgradeProofs`, `FlashProofs` | one update or load; the flash over many | proofs |
| `MachineProofs` | `Boot`, then `Machine` | proofs |
| `UartProofs`, `SdCommandProofs`, `SdUploadProofs` | the two upload paths | proofs |
| `MCNandc`, `MCGeometry`, `MCUpgrade`, `MCBoot`, `MCMachine`, `MCSdUpload` | | instances for TLC |

How they lie on each other: `Upgrade` extends `Nandc` and is shown to implement
`ImageStore`; `Machine` extends `Boot` and uses `ImageStore` for `main`, so that the
whole board is covered without the product of both state spaces.  `Geometry`,
`Uart` and `SdCommand` are below this: each takes one thing that the others count
in larger units (a page, a word, a command) apart.

Definitions that say "Mutant" in their comment are no part of the models.  Each
is a faulty version of the definition below it, with which TLC must find a
property violated: the list in `PROJECT.json` pairs every property with one.

### From code to model

*Nandc.* A step is what the driver does between two answers of the hardware, so
`pc` names the place it polls at: `reset` (nand_reset), `isbb` (nand_isbb), `dma`
(terminal count of the channel), `poll` (Check_Complete), `closing`
(nand_sw_reset), `bc_wait` and `bc_mark` (Blanking_Check).  `addr`, `left`
(pgcnt), `mode` and `buf` are the arguments of `nand_read`; addresses are
`<<block, page>>` and wrap at the end of the chip as the row bits do.  Blanking_Check
counts blocks without such a wrap: `startBlk` and `endBlk` (StartPage and EndPage in
blocks) may lie past the end, and `Row` is the block of the chip the controller then
finds.  With no blank block left it goes round the chip for ever, which is
`Endless` once it has counted to `MaxScan`.  `PageTimeout`
is the end of the 10000 polls of Check_Complete: it may come at any moment, the
command goes on, and the driver spins.  `Hardware` ends a command whenever it
likes.  `pos`, `from`, `trail`, `wrapped` and `need` are history.
A page is one value (`Blank`, one of `Data`, or `Garbled`), because programming
twice gives neither content.  Whether BLANK_CHK looks at the page `CB_TAR` names
is not in the repository: `TargetIncluded` is both.

*Geometry.* The same path once more, but with the numbers the program has: the
shifts of `nand_init` from `NANDC_MEMC`, which `board_init_nandc2` sets from four
straps; byte addresses, page numbers and lengths in words of `WordBits` bits.  The
chip is what `NANDC_MEMC` says (`ChipPage`, `ChipBlock`); `At` is the block and page
it finds at a page number.  Of an ISP only the number of bytes that have come
through is kept: `staged`, `stored`, `loaded`.  The length comes from the sender, or
is that of an erased page, the largest word.

*Upgrade.* `staged` is the image the magic at `ISP_UPDATE_BASE` announces, `flag`
the update flag, `len` the length in pages.  Before `main`, one step stands for
`board.c`: an upload, a card without a table, the header in the flash, or an upload
that ends early (`UploadCut`).  Such an upload leaves new words over old ones behind
a magic, and `main` of a later boot writes and runs them as it does any image: it is
one of `Cuts`, images that nobody sent.  `Machine` has that staging area in detail.
`ClearsStage` says whether the header in the flash programs DDR2_C, the one
branch that clears the magic.  `Restart` is a reset at any step: the magic stays
or goes, or is what the image that ran has left there, and a program or mark that
was under way is done, undone, or torn.

*ImageStore* knows no pages: an image is staged or none, the flash is promised to
boot one image or none.  `GiveUp` leaves `main` "stuck" in the driver, which spins
after a failure and looks for a good block for ever, until the next reset.  In
`ImplementsStore` it is instantiated with the phases of `boot`, and the flash is
promised `target` exactly when the update that wrote it ended with every page in
place (`stored`); the step of `ImageStore` that runs the flash then demands that the
loaded pages are that image.

*Boot.* `hdr` is one of `Headers`, a sequence of words of three kinds: a word that
starts a DDR controller, another address, or no address.  `Word` is one turn of
the loop with its `i++`, so a header that ends in an address eats one word more;
`slip` counts what the ROM is ahead of the sender.  `ddr` is the state of the
three controllers, `Landed` what becomes of a write to a DDR that is not up.
`bsp` and `rest` are the two parts of the staging area; `Cut` is what an upload
that ends at any word leaves in them.  The SD calls are single steps here that
work or fail; `SdUpload` has them in detail, and `Uart` the bytes behind `slip`.

*Uart.* The value of a byte is its place in the upload, so a word that is read
out of step is no word of the upload; header, BSP and lookup table begin with
the same magic.  `Send` is the sender's next byte.  It is lost if the FIFO is full,
which it can only be while the ROM prints its greeting (`greet`) or waits for the
DDR (`wait`): elsewhere the polling loop is faster than the line.  `n` counts the
words of the loop at `pc`; whether a word of the header is an address is
arbitrary.

*Machine.* Every variable of `Boot`, and `phase`, `flash`, `run` of `ImageStore`
with `Stage` (what the magic and the words at `ISP_Base` amount to) as its `stage`.
`oldBsp` and `oldRest` say what an earlier boot left where `bsp` or `rest` is "old".
`WarmReset` keeps DDR, controllers, SRAM and, at will, REMAP; `ColdReset` keeps
nothing.  Either may come at any step, in an upload or an update as well.
`page0` is the header that the next boot from the flash will apply.  `vectors` is
cleared when `nand_init` writes its geometry through `flashdev`, which is NULL: a
warm reset that keeps REMAP then fetches no reset vector of the ROM, and is taken to
end in an error loop.  `main` may stay in the flash driver for good (`GiveUp`), in an
update as in a load.

*Sdc, SdUpload.* A command is one step; any command may fail, and the card has then
carried it out (`CardSelects`, `CardStops`, `CardSends`) or not.  `loop`, `tries`
and `polls` are the two transfer-state loops, which differ in few branches and share
their actions, and SD_WaitOperationComplete inside them.  A block is read in
`Batches` FIFO fills, and the CRC flag of the controller is set behind the last and
looked at before each.  A card may be exchanged at any moment.  The MMC branches,
and the programming, receive and disconnect states, which a card that is only read
never has, are left out.

*SdCommand* is why a command may be one step: `flags` are the four command bits
of the status register, `regs` the response registers, and `no` numbers the
commands, so that a response shows which command it answers.  The controller
starts with any bits set.

## 3. Runs

| run | instance | what it shows |
|---|---|---|
| `nandc` | 3 blocks of 2 pages, up to 3 pages | any sequence of calls: types, the blank check, readiness, writes, and `nand_read` implements `PageStream` |
| `geometry` | all 16 straps, 2 and 4 blocks, any bad blocks, 9 lengths and an erased page | geometry, ranges, addresses, and that the whole ISP comes through |
| `upgrade` | 5 blocks of 2 pages, images of 3 and 1 pages, a cut upload of 2, 2 resets | all safety properties of an update, load, and reset; `main` implements `ImageStore` |
| `upgrade_live` | 3 blocks of 2 pages, images of 2 and 1 pages, a cut upload of 2, 1 reset | a boot ends, and so every transfer and blank check in it |
| `boot` | all headers of 3 words, DDR2_C behind the data, slip of 1 | everything between reset and `main`, its liveness too |
| `uart` | words of 4 bytes, 4 words of header, 5 of table, 2 of ISP, FIFO of 5 bytes, 9 lost bytes | an upload is whole or refused, is refused for a cause, and ends |
| `machine` | 3 uploads with different headers of 2 words, 3 resets | what `main` takes for an upload, and that no boot goes on for ever but in the flash driver |
| `sd_command` | 3 commands of any kind, 3 polls | own answers, no overlap |
| `sd_upload` | 2 cards (one high-capacity), 3 batches, 2 exchanges, 3 sectors, 1–2 tries | what an SD upload reads, and that it ends |
| `torn_stage`, `page_zero`, `marks_good` | small | the three findings below |

*Why the bounds are enough.* Three blocks with any subset bad gives every relation
between a transfer and a bad block (before, inside, after, at the end of the chip,
and all of them); two pages per block separate "next page" from "next block"; three
pages fill one block and begin another.  An update takes a header block, two ISP
blocks and, for the second update, the blocks that it finds marked: five.  Two
resets are one in an update and one in the boot behind it; `machine` has a third,
for a reset in an upload, one behind it, and a boot that must then be right.  The
chip starts with any bad blocks and, in `nandc`, at most one dirty page: the
transfers themselves dirty the others.  `MaxScan` cuts the blank check off after it
has gone round the chip and marked every block: a scan with a blank block ahead of
it ends at or before that, within two rounds for the ranges of these runs, so that
only a chip with no blank block gets there.  Three words are a header in which an
address can be first, last, or a value; the two of `machine` have one that starts
DDR2_C first, one that does so last, and one that does not.  Four blocks of the
largest geometry are 2^21 bytes, so `WordBits` is 21 there: the word then wraps
where the largest chip of the run ends, as 32-bit words do at the end of a chip of 4
GB, and TLC's integers do not overflow.  The lengths of `geometry` lie one below, at
and above each unit that is rounded to.  Nine lost bytes are more than two words, in
and out of step.  Retry counts only matter as "one more" or "none left".

*Deadlock* is checked in every run.  Where the program spins for ever or has
jumped away there is an explicit stuttering step (`Spin`, `Stopped`, `Halted`,
`Starved`, `Finished`).

*Fairness.* The program is one thread that never stops, so its steps are weakly
fair as a whole (`Driver`, `Main`, `Rom`, `Board \/ Driver`, `Booting` and
`EnterMain \/ Main`).  The hardware finishes what was started: a NAND command and
a DMA transfer (`WF(Hardware)`), a DDR controller after its command register was
written (`WF(DdrUp)`, part of `Booting` in `Machine`), a card that powers up and
sends (`WF(Slot)`).  Nothing forces a reset, a card exchange, a loss, a hang or a
failure.  `Main` of `Machine` is fair as a whole, and `GiveUp` is one of its choices:
`EveryBootDecides` says that nothing before the driver goes on for ever, and that the
driver comes back, unless all blocks are marked bad or it stops in its error
loop, is `BootEnds`.  The UART's sender sends all it has (`WF(Send)`): without that
`serial_getw` waits for ever, which is its contract.

*Preconditions in the properties.* `VerifiedImageLoads` speaks of pages in blocks
before the end of the blank check that take programs, on a chip whose block 0
is not marked and when the ISP did not run past the end of the chip.  None is
there for convenience: the driver never reads a program's status; with block 0
marked the header and the ISP are written to the same page; the last block is
never checked.  `TornIsPrefix` asks that the good blocks from block 1 on have room for
the image (`Fits`): a write that goes round the end of the chip goes on in block 0
and then over its own pages, and what a reset leaves of that is no prefix.
`UploadWhole` and `TakesThisUpload` are about an upload whose header
has the ROM wait for the controller that its data lies behind (only one is
waited for), and about a boot from a header that starts DDR2_C (no other branch
clears the magic).

*Assumptions about what is not in the repository.* A NAND chip ignores the row bits
beyond its size, so what the controller does past the end of the chip, BLANK_CHK and
marks included, it does to the chip's first blocks again.  NANDC_ADDR counts in the
driver's pages of 2K also on a chip with pages of 512 bytes (`At` of `Geometry`), and
`Geometry` lets BLANK_CHK fail within the chip only; `Nandc` has the blocks past the
end.  What a cut upload leaves differs in every page from what anyone sent (`Cuts`);
a page of it that is like one of an upload could only make the images less distinct.
A block whose cells fail holds none of the data.  The magic is nowhere else in
header and lookup table.  The UART loses fewer bytes than follow the magic of
the lookup table.  A UART ISP has whole words (the code reads `length >> 2`
words).  A warm reset keeps REMAP only over a DDR that is up.  An SD controller
reports a missing answer itself, long before the driver's 100 million polls are
over, or never sets a bit again.

## 4. Proofs

Every safety property that a run checks, as an invariant, an action property or a
refinement, is also a theorem, for every value of the constants.  The assumptions
on them are named in the modules that declare them:

| assumption | what it asks beyond types, and why |
|---|---|
| `GeometryAssumption`, `CellAssumption`, `TargetAssumption`, `MaxPagesAssumption`, `MaxScanAssumption` | a chip and a transfer are not empty |
| `UpgradeAssumption` | two blocks at least; headers and ISP pages are pages; `Cuts` are images |
| `ImagesAssumption` | at most one image has an empty ISP: which image runs is told from its pages |
| `WordAssumption`, `SizesAssumption` | a chip has a power of two of blocks, so one that can be addressed divides what can be |
| `LengthAssumption` | an ISP, rounded up to a page, is in memory, so the rounding does not overflow |
| `BootAssumption`, `MachineAssumption` | the uploads are told from the marks for "none" and "torn" |
| `UartAssumption` | the FIFO (16 bytes) is shorter than header and BSP; fewer bytes are lost than follow the magic of the lookup table |
| `CommandAssumption`, `CardAssumption`, `SdcAssumption`, `UploadAssumption` | retries and blocks are at least one; header and table are one call |

None of the theorems' properties is inductive as it stands.  The invariants:

* **Nandc** (`NandcProofs`): types, `ReadyAtLaunch`, `WritesBehaved`, `BlankScan`,
  `BlankPost`.  The inductive invariant ties `pc` to the command under way and to
  the DMA; for the scan it adds that an answer names the first dirty block, so
  that the blocks behind `startBlk` are marked or blank, as the controller counts
  them (`Unmarked`).  A range that ends in the chip holds them as they are; one that
  went past its end has all the blocks of the chip behind it, some counted twice, so
  the unmarked ones may be fewer than were asked for, but are not none (`Enough`).
  *Nandc implements PageStream* (`StreamsHold`): the cursor of `nand_read` is the
  last page moved, its successor, or a block boundary with only bad blocks
  between; each driver step is a step of `PageStream` or leaves it unchanged.
* **Geometry** (`GeometryProofs`): `GeometryFits`, `RangeHoldsIsp`, `HeaderIsOnePage`,
  `WholeIsp`, `AddressesAgree`.  The provers know powers and division by numbers
  only, so the twelve settings of page and block are told apart once
  (`Geometries`, and the lemmas on rounding and addresses); what needs the
  number of blocks, which is any, is done by hand (`ShiftMod`, `ModSucc`).  The
  invariant `GInv` says that pages moved and pages to be moved make up the
  rounded length, and what each sender has staged; `Addresses` that a byte
  address is that of a page.  Around the end of the address space the theorem
  holds because the chip divides it.
* **Upgrade** (`UpgradeProofs`): types, `VerifiedImageLoads`, `FreshImageBoots`.
  The strengthening follows the flash through the boot: the blank check leaves a
  set of blank blocks (`Cover`); the header dirties block 0 only (`HeaderPhase`);
  the ISP is laid over strictly increasing pages with only bad blocks between,
  the pages ahead still blank (`IspPhase`); the reload walks the same pages, as
  no block is marked in between (`LoadPhase`).
* **Upgrade over many boots** (`FlashProofs`, on the invariant of `UpgradeProofs`):
  * `OneStageRuns`.  Nothing erases, and the blank check looks only at as many
    blocks as it needs, so an old image may reach behind them.  The invariant: all
    good blocks hold pages of one staging area (`Single`), and an image leaves no good
    block before any of its pages untouched (`Packed`).  A check that ends with a
    blank block has therefore marked every block of the older image, looked at or
    not (`NoOther`).
  * `ImplementsStore`.  A walk over good pages from a given place is determined,
    so a load passes the pages the update laid as long as no page is programmed
    and no block marked; a promised image is given up by an update only; and where
    the driver stops, `main` gives up (`GiveUp`).
    Each step, resets included, is a step of `ImageStore` or leaves it unchanged.
  * `UnverifiedIsLastBlock`.  `Blanking_Check` counts the pages of the ISP without
    the header's.  The proof counts good blocks (`Count`, `Rank`): page k lies behind
    at most k \div PagesPerBlock of them from block 1 on, and the range of the
    check holds one good block for each block of the ISP.
  * `TornIsPrefix`.  While the ISP is laid the pages that are done are a prefix by
    `Rank` (`Prefix`), a reset tears at most the page under way (`Torn`), and a load
    reads pages in the same order (`Loads`).  The proof failed without `Fits`, for
    the reason given in section 3.
* **Boot** (`MachineProofs`, first part): types, `CodeVerified`, `SomeHeader`,
  `OneHeader`, `UploadWhole` (theorem `UploadKept`), `StaleMagicCleared` (`StaleMagic`).
  The invariant has these parts: which header is applied where and what the flag
  in the SRAM says, which controllers are up, that nothing is lost once the wait
  is over, and that the magic is gone once DDR2_C has been waited for.
* **Machine** (`MachineProofs`): types, `TakesThisUpload`, and `CodeVerified` in every
  boot, over any number of uploads, headers and resets.  A step of `Machine` is a
  step of `Boot`, leaves its variables unchanged, or is a reset, and a reset leads
  to a state in which the invariant of `Boot` holds as it does in an initial one:
  the lemmas on `Boot` are cited, not repeated.
* **Uart** (`UartProofs`): types, `UploadIntact`, `RefusedForCause`.  The bytes that
  were not lost are counted.  A byte's place in the upload is its number, and more
  by what was lost before it (`InFifo`, `InReg`); the word that is read follows from
  the loop, up to one word the header may have eaten (`Counted`).  So the magic of
  the lookup table is found only if nothing was lost and nothing eaten.
* **SdCommand** (`SdCommandProofs`): types, `OneInFlight`, `OwnAnswer`.  The invariant
  says which bits can be set in which state of the controller, and that the
  polls run out only over one that hangs.
* **Sdc and SdUpload** (`SdUploadProofs`): types, `ReadsIdentified`, `SectorsRead`,
  `UploadRight`.  The invariant follows a card: while it answers to the address the
  host has, it is the card that was identified (`Identified`), so a sector comes
  from where it is said to.  And it follows an error: a block that came wrong
  leaves the CRC flag set, which nothing clears before the next block, and that
  read then fails; only the last block of a call can be wrong unnoticed.

Only model-checked: liveness (`BootEnds`, `BootDecides`, `EveryBootDecides`,
`UploadDecides`, `UartDecides`), for which the prover has neither fairness nor
ENABLED.  And the properties of the three findings, which do not hold.

## 5. Findings

* `src/bsp/main.c:31-32` says that main decides between update and ISP because the
  data from UART or SD "is right".  The magic it looks for is the first word an
  upload stores, and outlives a reset: in run `torn_stage` an upload is cut short by
  a reset, and the next boot, from a flash header that does not start DDR2_C,
  writes what is there to the flash.
* `src/Flowchart_of_Bootloader8k.jpg` and `src/bsp/main.c:49` have an update put BSP
  and lookup table into page 0.  `nand_read` skips marked blocks, and a second
  update marks block 0: run `page_zero` ends with the first image's header in
  page 0, which is the one `board_init_ddr2` applies, without a look at the mark.
* `src/drivers/nandc.c:300` says that a failed blank check means a bad block.  Run
  `marks_good` has the second update mark the first one's blocks bad with no cell
  failing.  Nothing in the ROM erases.

A remark without a run: `src/drivers/nandc.c:111-112` list the block shifts as 13–16
and 15–18, which is of 2K pages only; for 4K pages in blocks of 128 the shift is
19, and right, as `geometry` shows.

## 6. Not modelled

* `scu.c`, `udelay`, and the power and clock registers of SD: no model has time.
* Output, the baud rate, and `serial_getw` with a timeout, which nobody calls.
* What a header that has lost a byte writes, and where: its words are arbitrary
  register writes.
* `lib/`: no file defines the switches its functions are compiled under.
* CPU set-up in `start.S` (caches, modes, stack, bss); `copy_vector`, whose loop is
  skipped as `TEXT_BASE` is 0.
* Registers that only get constants (timing, ECC, DMA set-up).
* The voltage check of `SD_OperatVoltRangeValidation`, whose mask contains bits
  that every answering card has set.
* The MMC branches of the SD driver: the card type is always the combined one.
* The value word that `board_init_ddr2` reads without a FIFO test (`board.c:379`):
  whether it can fail depends on the depth of a FIFO the repository does not give.
* What the five words of geometry at address 0 do when they are executed.

What the list leaves is hardware set-up, timing, and code that cannot be
reached; every operation that decides something is in a module.

## 7. Plan

Done: the whole path from reset to the jump, over resets; the arithmetic and the
byte and bit level below it; two refinements; and proofs of every safety property
the runs check.  Left:

1. What the invariants say and no property does yet, stated as properties of their
   own where a reader would miss them: that the good blocks never hold two images
   (`Single`), after every step and not only when one runs.
2. Abstract specifications for the uploads, as `PageStream` is for `nand_read`: one
   for `Uart` and `SdUpload` together, which `Boot` then uses for its upload steps.
3. The liveness properties stay with TLC.  What a proof could add is the part
   without fairness: a measure that each driver step of a loop decreases.
