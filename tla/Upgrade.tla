------------------------------- MODULE Upgrade -------------------------------
(***************************************************************************)
(* The program from its start to the jump into an ISP image: main.c and    *)
(* boot_isp_func_dma over the NAND driver.  An upload, read over SD or UART*)
(* before main runs, stages an image in DDR at ISP_UPDATE_BASE; main then  *)
(* writes it to the flash (update flag set), runs it, or, with no image    *)
(* staged, runs the image in the flash.                                    *)
(*                                                                         *)
(* The board may be reset, warm (DDR keeps the staged image) or cold, at   *)
(* any step; a program or mark under way may then be done, undone or torn, *)
(* and an upload under way leaves a staging area that is of two uploads.   *)
(* Such an area is an image to main, and so it is here: one of Cuts.       *)
(***************************************************************************)
EXTENDS Nandc

CONSTANTS
  Images,       \* what may be staged behind an AVI_ magic
  Cuts,         \* those of Images nobody sent: what is left of cut uploads
  ImgPages,     \* pages of an image's ISP; the length in its header
  NoImage,      \* no AVI_ magic at ISP_UPDATE_BASE
  ClearsStage,  \* does the stored BSP data program DDR2_C, and so clear the magic?
  MaxRestarts   \* bound: resets

(* What is uploaded and stored: page 0 of an image is BSP data, lookup     *)
(* table and length (the header), page k + 1 is page k of its ISP.         *)
Page(im, k) == [img |-> im, idx |-> k]
Headers == {Page(im, 0) : im \in Images}

ASSUME UpgradeAssumption ==
  /\ NumBlocks > 1
  /\ NoImage \notin Images /\ Cuts \subseteq Images
  /\ ImgPages \in [Images -> 0 .. MaxPages]
  /\ \A im \in Images : \A k \in 0 .. MaxPages : Page(im, k) \in Data
  /\ ClearsStage \in BOOLEAN
  /\ MaxRestarts \in Nat

(* What runs tells images apart: at most one has an empty ISP. *)
ASSUME ImagesAssumption ==
  \A im, jm \in Images : ImgPages[im] = 0 /\ ImgPages[jm] = 0 => im = jm

VARIABLES
  boot,      \* where the program is
  staged,    \* image at ISP_UPDATE_BASE
  flag,      \* its update flag, *ISP_UPDATE_FLAG
  len,       \* pages of the ISP: isp_length, or fw->size
  \* History, read by properties only:
  restarts,  \* resets so far
  via,       \* what main chose: "none", "update", "sd" or "nand"
  fresh,     \* were all unmarked blocks blank when the update began?
  clean,     \* blocks that were blank when the header was about to be written
  laid,      \* where the last update wrote the pages of its ISP
  target,    \* the image of the last update
  stored     \* did that update leave every page of it right in the flash?

mainVars == <<boot, staged, flag, len, restarts, via, fresh, clean,
              laid, target, stored>>
vars == <<nandVars, mainVars>>

BootPCs == {"start", "init", "blank", "header", "isp", "boot_isp", "load",
            "gonand", "jump", "dead"}

TypeOK ==
  /\ NandTypeOK
  /\ boot \in BootPCs
  /\ staged \in Images \cup {NoImage}
  /\ flag \in BOOLEAN
  /\ len \in 0 .. MaxPages
  /\ restarts \in 0 .. MaxRestarts
  /\ via \in {"none", "update", "sd", "nand"}
  /\ fresh \in BOOLEAN
  /\ clean \in SUBSET Blocks
  /\ laid \in [0 .. MaxPages - 1 -> Addr]
  /\ target \in Images \cup {NoImage}
  /\ stored \in BOOLEAN

Unknown == [i \in 0 .. MaxPages - 1 |-> Garbled]
BlockOne == <<1, 0>>
BlankBlocks == {b \in Blocks : \A p \in Pages : page[<<b, p>>] = Blank}

Init ==
  /\ NandInit
  /\ boot = "start" /\ staged = NoImage /\ flag = FALSE /\ len = 0
  /\ restarts = 0 /\ via = "none" /\ fresh = FALSE
  /\ clean = {} /\ laid = trail /\ target = NoImage /\ stored = FALSE

-----------------------------------------------------------------------------
(* Before main: start.S has set up the NAND controller and either read an  *)
(* upload or the BSP data in the flash.  nand_init resets the controller.  *)
EnterMain == boot' = "init" /\ cmd' = "sw_reset" /\ via' = "none"

SetupUnchanged ==
  UNCHANGED <<page, bad, defect, dma, nadr, fail, drvVars, len, restarts,
              fresh, clean, laid, target, stored>>

(* read_sd_* or read_uart_* to their end: BSP data, lookup table and ISP   *)
(* are in DDR.                                                             *)
BootUpload(im) ==
  /\ boot = "start"
  /\ staged' = im /\ flag' \in BOOLEAN
  /\ EnterMain /\ SetupUnchanged

(* The upload ends early: "Upgrade failed", a UART that falls silent or a  *)
(* reset.  It leaves the area as it was, without the magic, or with a magic*)
(* and words that are not all of one upload.                               *)
UploadCut ==
  /\ boot = "start"
  /\ staged' \in {staged, NoImage} \cup Cuts /\ flag' \in BOOLEAN
  /\ boot' = "dead"
  /\ UNCHANGED <<cmd, via>> /\ SetupUnchanged

(* board_init_ddr2 reads page 0, whether or not block 0 is marked bad; the *)
(* first word of a garbled page may or may not be the magic.               *)
BootNand ==
  /\ boot = "start"
  /\ page[<<0, 0>>] \in Headers \cup {Garbled}
  /\ staged' = IF ClearsStage THEN NoImage ELSE staged
  /\ flag' = flag
  /\ EnterMain /\ SetupUnchanged

(* "No BSP" *)
BootNoBsp ==
  /\ boot = "start"
  /\ page[<<0, 0>>] \notin Headers
  /\ boot' = "dead"
  /\ cmd' = cmd /\ SetupUnchanged
  /\ UNCHANGED <<staged, flag, via>>

-----------------------------------------------------------------------------
AtMain == boot = "init" /\ cmd = "none"
Returned(b) == boot = b /\ pc = "idle"
MainKeeps == UNCHANGED <<staged, flag, restarts>>

(* "Upgrade NAND" *)
UpdateIsp ==
  /\ AtMain /\ staged # NoImage /\ flag
  /\ CallBlankingCheck(ImgPages[staged])
  /\ boot' = "blank" /\ via' = "update" /\ len' = ImgPages[staged]
  /\ fresh' = (0 \notin bad /\ Blocks \ bad \subseteq BlankBlocks)
  /\ target' = staged /\ stored' = FALSE
  /\ MainKeeps /\ UNCHANGED <<clean, laid>>

(* "Go SD": (isp_length >> 2) + 1 words are copied to ISP_BASE. *)
GoSd ==
  /\ AtMain /\ staged # NoImage /\ ~flag
  /\ pc = "idle"
  /\ buf' = [i \in 0 .. MaxPages - 1 |->
               IF i < ImgPages[staged] THEN Page(staged, i + 1) ELSE Garbled]
  /\ boot' = "jump" /\ via' = "sd" /\ len' = ImgPages[staged]
  /\ MainKeeps
  /\ UNCHANGED <<chipVars, pc, mode, addr, left, pos, from, trail, wrapped,
                 blankVars, fresh, clean, laid, target, stored>>

(* Mutant: the header is looked for in block 1. *)
GoNandBlockOne ==
  /\ AtMain /\ staged = NoImage
  /\ CallRead(BlockOne, Unknown, 1, 0)
  /\ boot' = "gonand" /\ via' = "nand"
  /\ MainKeeps /\ UNCHANGED <<len, fresh, clean, laid, target, stored>>

(* nand_read(0, tbl, 2048, 0): the header, from the first unmarked block. *)
GoNand ==
  /\ AtMain /\ staged = NoImage
  /\ CallRead(<<0, 0>>, Unknown, 1, 0)
  /\ boot' = "gonand" /\ via' = "nand"
  /\ MainKeeps /\ UNCHANGED <<len, fresh, clean, laid, target, stored>>

(* "Update BSP and Lookup Table": the header page goes to block 0 on. *)
WriteHeader ==
  /\ Returned("blank")
  /\ CallRead(<<0, 0>>, [Unknown EXCEPT ![0] = Page(staged, 0)], 1, 1)
  /\ boot' = "header" /\ clean' = BlankBlocks
  /\ MainKeeps /\ UNCHANGED <<len, via, fresh, laid, target, stored>>

(* Mutant: the ISP is written from block 0 on. *)
WriteIspBlockZero ==
  /\ Returned("header")
  /\ CallRead(<<0, 0>>, [i \in 0 .. MaxPages - 1 |->
                           IF i < len THEN Page(staged, i + 1) ELSE Garbled], len, 1)
  /\ boot' = "isp"
  /\ MainKeeps /\ UNCHANGED <<len, via, fresh, clean, laid, target, stored>>

(* "Update ISP Program": the ISP goes to block 1 on. *)
WriteIsp ==
  /\ Returned("header")
  /\ CallRead(BlockOne, [i \in 0 .. MaxPages - 1 |->
                           IF i < len THEN Page(staged, i + 1) ELSE Garbled], len, 1)
  /\ boot' = "isp"
  /\ MainKeeps /\ UNCHANGED <<len, via, fresh, clean, laid, target, stored>>

(* Every page of the image is where a NAND boot will look for it. *)
HeaderRight(im) ==
  \E b \in Blocks : /\ b \notin bad /\ \A c \in 0 .. b - 1 : c \in bad
                    /\ page[<<b, 0>>] = Page(im, 0)
IspRight(im) == \A k \in 0 .. len - 1 : page[trail[k]] = Page(im, k + 1)

(* boot_isp_func_dma(isp_length), entered with nand_reset. *)
BootUpdated ==
  /\ Returned("isp")
  /\ LaunchReset
  /\ boot' = "boot_isp"
  /\ laid' = trail
  /\ stored' = (HeaderRight(staged) /\ IspRight(staged))
  /\ MainKeeps
  /\ UNCHANGED <<page, bad, defect, dma, nadr, fail, drvVars, len, via, fresh, clean, target>>

(* Mutant: the page count of a blank header is not cut to 32 bits. *)
LengthInWide(c) == IF c \in Headers THEN {ImgPages[c.img]} ELSE {MaxPages + 1}

(* Mutant: the length is the one that was there before.                    *)
BootStoredStale ==
  /\ Returned("gonand")
  /\ LaunchReset
  /\ boot' = "boot_isp"
  /\ MainKeeps
  /\ UNCHANGED <<page, bad, defect, dma, nadr, fail, drvVars, len, via, fresh, clean,
                 laid, target, stored>>

(* boot_isp_func_dma(fw->size), with the length the header page holds: any *)
(* number if that page is no header, none if it is blank, as the number of *)
(* pages of 0xFFFFFFFF bytes is 0 in 32 bits.                              *)
LengthIn(c) == IF c \in Headers THEN {ImgPages[c.img]}
               ELSE IF c = Blank THEN {0} ELSE 0 .. MaxPages

BootStored ==
  /\ Returned("gonand")
  /\ LaunchReset
  /\ boot' = "boot_isp"
  /\ len' \in LengthIn(buf[0])
  /\ MainKeeps
  /\ UNCHANGED <<page, bad, defect, dma, nadr, fail, drvVars, via, fresh, clean,
                 laid, target, stored>>

(* Mutant: the ISP is loaded from block 0 on. *)
LoadIspBlockZero ==
  /\ boot = "boot_isp" /\ cmd = "none"
  /\ CallRead(<<0, 0>>, Unknown, len, 0)
  /\ boot' = "load"
  /\ MainKeeps /\ UNCHANGED <<len, via, fresh, clean, laid, target, stored>>

(* nand_reset has waited; nand_read from block 1.                          *)
LoadIsp ==
  /\ boot = "boot_isp" /\ cmd = "none"
  /\ CallRead(BlockOne, Unknown, len, 0)
  /\ boot' = "load"
  /\ MainKeeps /\ UNCHANGED <<len, via, fresh, clean, laid, target, stored>>

(* board_jumpstart(ISP_BASE) *)
Jump ==
  /\ Returned("load")
  /\ boot' = "jump"
  /\ MainKeeps /\ UNCHANGED <<nandVars, len, via, fresh, clean, laid, target, stored>>

-----------------------------------------------------------------------------
(* What a reset leaves of the command under way.                           *)
Interrupted ==
  /\ page' = page \/ /\ cmd = "page_write"
                     /\ \E c \in {Garbled, Programmed(nadr[1], page[nadr], buf[pos])} :
                          page' = [page EXCEPT ![nadr] = c]
  /\ bad' = bad \/ (cmd = "sp_write" /\ bad' = bad \cup {Row(nadr[1])})

(* A reset, warm or cold; the image that ran may have used the DDR for     *)
(* itself.                                                                 *)
Restart ==
  /\ boot # "start" /\ restarts < MaxRestarts
  /\ Interrupted
  /\ staged' \in {staged, NoImage} \cup (IF boot = "jump" THEN Cuts ELSE {})
  /\ boot' = "start" /\ restarts' = restarts + 1
  /\ cmd' = "none" /\ dma' = "idle" /\ nadr' = <<0, 0>> /\ fail' = Passed
  /\ pc' = "idle" /\ mode' = 0 /\ addr' = <<0, 0>> /\ left' = 0 /\ buf' = Unknown
  /\ startBlk' = 0 /\ endBlk' = 0 /\ need' = 0
  /\ pos' = 0 /\ from' = <<0, 0>> /\ wrapped' = FALSE /\ len' = 0 /\ via' = "none"
  /\ UNCHANGED <<defect, trail, flag, fresh, clean, laid, target, stored>>

(* The image runs, or the program spins in one of its error loops, or scans*)
(* a chip all of whose blocks are bad.                                     *)
Stopped == (boot \in {"jump", "dead"} \/ pc = "halt" \/ Endless) /\ UNCHANGED vars

NandStep == Driver \/ Hardware
Main ==
  \/ \E im \in Images \ Cuts : BootUpload(im)
  \/ UploadCut \/ BootNand \/ BootNoBsp
  \/ UpdateIsp \/ GoSd \/ GoNand \/ WriteHeader \/ WriteIsp \/ BootUpdated
  \/ BootStored \/ LoadIsp \/ Jump

Next ==
  \/ Main
  \/ NandStep /\ UNCHANGED mainVars
  \/ Restart
  \/ Stopped

Spec == Init /\ [][Next]_vars
Fairness ==
  /\ WF_vars(Main)
  /\ WF_vars(Driver /\ UNCHANGED mainVars)
  /\ WF_vars(Hardware /\ UNCHANGED mainVars)

-----------------------------------------------------------------------------
InUpdate == boot \in {"header", "isp"} \/ (boot \in {"boot_isp", "load", "jump"} /\ via = "update")

(* An update that ends jumps into what was uploaded (main.c:41-55): every   *)
(* page in a block that Blanking_Check verified and that takes programs is  *)
(* loaded as it was staged, if block 0 is not marked bad and the ISP did not*)
(* run past the end of the chip.                                            *)
Verified(b) == b < endBlk /\ b \notin defect
VerifiedImageLoads ==
  boot = "jump" /\ via = "update" /\ 0 \notin bad /\ ~wrapped =>
    \A k \in 0 .. len - 1 : Verified(laid[k][1]) => buf[k] = Page(staged, k + 1)

(* The first update of a chip whose unmarked blocks are all blank and sound *)
(* loads the whole image, though Blanking_Check looked at one block less    *)
(* than the update takes.                                                   *)
FreshImageBoots ==
  boot = "jump" /\ via = "update" /\ fresh /\ ~wrapped =>
    \A k \in 0 .. len - 1 : laid[k][1] \notin defect => buf[k] = Page(staged, k + 1)

(* What Blanking_Check leaves unverified of an update is only its last      *)
(* block: the ISP's blocks but the last lie before the end of the range.    *)
UnverifiedIsLastBlock ==
  boot = "boot_isp" /\ via = "update" =>
    \A k \in 0 .. len - 1 : k + PagesPerBlock < len => laid[k][1] < endBlk \/ wrapped

(* main keeps the promises of ImageStore, whatever the chip and the resets: *)
(* nothing but an update touches a stored image, and a later boot, or the   *)
(* update itself, runs exactly the image in whose pages it ended.           *)
Phase ==
  IF pc = "halt" THEN "stuck" ELSE
  CASE boot = "start" -> "boot"
    [] boot = "init" -> "main"
    [] boot = "gonand" -> "main"
    [] boot \in {"blank", "header", "isp"} -> "update"
    [] boot \in {"boot_isp", "load"} -> IF via = "update" THEN "load" ELSE "main"
    [] boot = "jump" -> "run"
    [] boot = "dead" -> "dead"

Loaded(im) == len = ImgPages[im] /\ \A k \in 0 .. len - 1 : buf[k] = Page(im, k + 1)
Running ==
  IF boot = "jump" /\ \E im \in Images : Loaded(im)
  THEN CHOOSE im \in Images : Loaded(im)
  ELSE NoImage

Store == INSTANCE ImageStore
  WITH None <- NoImage, phase <- Phase, stage <- staged, run <- Running,
       flash <- IF stored THEN target ELSE NoImage
ImplementsStore == Store!Spec

(* The ISP of an image fits into the good blocks from block 1 on. *)
Fits(im) == ImgPages[im] <= Cardinality((1 .. NumBlocks - 1) \ bad) * PagesPerBlock

(* After a reset in the middle of the first update of a fresh chip, however *)
(* often, a NAND boot loads the image up to some page, that page perhaps    *)
(* torn, and blank pages from there on: never a hole with image behind it.  *)
(* (A write that goes round the end of the chip does not keep this: it goes *)
(* on in block 0, and then over its own pages.)                             *)
TornIsPrefix ==
  boot = "jump" /\ via = "nand" /\ fresh /\ ~wrapped /\ Fits(target) =>
    \E c \in 0 .. len :
      \A k \in 0 .. len - 1 :
        \/ k = c
        \/ k < c /\ buf[k] = Page(target, k + 1)
        \/ k < c /\ trail[k][1] \in defect
        \/ k > c /\ buf[k] = Blank

(* No boot runs pages of two staging areas: whatever updates were begun,   *)
(* cut by resets and begun again with other images over them, what a load  *)
(* finds in the flash was written by updates from one of them.  (An area   *)
(* that is itself of two uploads, one of Cuts, is run as it is.)           *)
OneStageRuns ==
  boot = "jump" =>
    \A j, k \in 0 .. len - 1 :
      buf[j] \in Data /\ buf[k] \in Data => buf[j].img = buf[k].img

(* A boot ends in the image or in an error loop, unless every block of the  *)
(* chip has been marked bad.                                                *)
BootEnds == boot = "start" ~> (boot \in {"jump", "dead"} \/ pc = "halt" \/ bad = Blocks)

(* "Write BSP and Lookup Table into NAND flash Page 0" (flow chart of the   *)
(* boot loader): after an update page 0 has the header of its image.        *)
HeaderInPageZero ==
  boot = "boot_isp" /\ via = "update" /\ ~wrapped => page[<<0, 0>>] = Page(staged, 0)

(* "If the program runs here, there is bad block." (nandc.c:300): a block is*)
(* marked only if it is bad already or its cells fail.                      *)
MarksOnlyBadBlocks == [][bad' \subseteq bad \cup defect]_vars
=============================================================================
