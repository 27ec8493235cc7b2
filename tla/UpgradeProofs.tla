---------------------------- MODULE UpgradeProofs ----------------------------
(***************************************************************************)
(* An update that ends jumps into the image that was uploaded: the proof.  *)
(*                                                                         *)
(* The argument follows the flash.  Blanking_Check leaves a set of blank   *)
(* blocks (Cover); the header, if block 0 is not bad, dirties block 0 only *)
(* (HeaderPhase); the ISP is laid over strictly increasing pages, the ones *)
(* ahead of the write still blank (IspPhase); the reload walks the same    *)
(* pages, because between two pages it moves there are only bad blocks,    *)
(* then as before (LoadPhase).                                             *)
(***************************************************************************)
EXTENDS Upgrade, NandcProofs

(* Page a comes before page b in the chip. *)
Lt(a, b) == a[1] < b[1] \/ (a[1] = b[1] /\ a[2] < b[2])

(* Only bad blocks from c, or after c, to before a. *)
GapFrom(c, a)  == \A x \in Addr : ~Lt(x, c) /\ Lt(x, a) => x[1] \in bad
GapAfter(c, a) == \A x \in Addr : Lt(c, x) /\ Lt(x, a) => x[1] \in bad

(* The first n pages of t are consecutive good pages from block 1 on, and  *)
(* a is where the search for the next one has got to.                      *)
Consecutive(t, n) ==
  /\ \A k \in 0 .. n - 1 : t[k][1] \notin bad
  /\ \A j, k \in 0 .. n - 1 : j < k => Lt(t[j], t[k])
  /\ \A k \in 1 .. n - 1 : GapAfter(t[k - 1], t[k])
  /\ n > 0 => ~Lt(t[0], BlockOne) /\ GapFrom(BlockOne, t[0])
Searching(t, n, a) ==
  /\ ~Lt(a, BlockOne)
  /\ \A k \in 0 .. n - 1 : Lt(t[k], a)
  /\ n = 0 => GapFrom(BlockOne, a)
  /\ n > 0 => GapAfter(t[n - 1], a)

Sync ==
  /\ boot \in {"start", "init", "boot_isp", "jump", "dead"} => pc = "idle"
  /\ boot = "blank" => pc \in {"bc_wait", "bc_mark", "idle"}
  /\ boot \in {"header", "isp", "load", "gonand"} =>
       /\ pc \notin {"bc_wait", "bc_mark"}
       /\ mode = IF boot \in {"header", "isp"} THEN 1 ELSE 0
       /\ pos + left = IF boot \in {"header", "gonand"} THEN 1 ELSE len
       /\ pc = "idle" => left = 0
  /\ boot \in {"blank", "header", "isp"} => via = "update"
  /\ via = "update" =>
       /\ boot \in {"blank", "header", "isp", "boot_isp", "load", "jump"}
       /\ staged \in Images /\ len = ImgPages[staged]

(* A page whose block was blank before the update and takes programs. *)
Sound(a) == a[1] \in clean /\ a[1] \notin defect

Cover ==
  /\ boot = "blank" /\ fresh => 0 \notin bad /\ Blocks \ bad \subseteq BlankBlocks
  /\ boot = "blank" /\ pc = "idle" => Found \subseteq BlankBlocks
  /\ InUpdate =>
       /\ Found \subseteq clean
       /\ fresh => 0 \notin bad /\ Blocks \ bad \subseteq clean

HeaderPhase ==
  boot = "header" /\ 0 \notin bad =>
    /\ left > 0 => addr = <<0, 0>>
    /\ \A x \in Addr : x[1] \in clean /\ x[1] # 0 => page[x] = Blank

Landed == pc \in {"dma", "poll"} /\ cmd = "none"
IspPhase ==
  boot = "isp" /\ 0 \notin bad /\ ~wrapped /\ pc # "halt" =>
    /\ Consecutive(trail, pos)
    /\ left > 0 => Searching(trail, pos, addr)
    /\ \A i \in 0 .. len - 1 : buf[i] = Page(staged, i + 1)
    /\ \A k \in 0 .. pos - 1 : Sound(trail[k]) => page[trail[k]] = Page(staged, k + 1)
    /\ left > 0 => \A x \in Addr : Lt(addr, x) /\ x[1] \in clean => page[x] = Blank
    /\ left > 0 /\ ~Landed /\ addr[1] \in clean => page[addr] = Blank
    /\ Landed /\ Sound(addr) => page[addr] = Page(staged, pos + 1)

Loading == boot \in {"boot_isp", "load", "jump"} /\ via = "update"
LoadPhase ==
  Loading /\ 0 \notin bad /\ ~wrapped /\ pc # "halt" =>
    /\ Consecutive(laid, len)
    /\ \A k \in 0 .. len - 1 : Sound(laid[k]) => page[laid[k]] = Page(staged, k + 1)
    /\ boot = "load" =>
         /\ left > 0 => Searching(laid, pos, addr)
         /\ \A k \in 0 .. pos - 1 : buf[k] = page[laid[k]]
         /\ pc = "poll" \/ (pc = "dma" /\ dma = "done") => buf[pos] = page[addr]
    /\ boot = "jump" => \A k \in 0 .. len - 1 : buf[k] = page[laid[k]]

MainInv == TypeOK /\ NandInv /\ ScanInv /\ Sync
IInv == MainInv /\ Cover /\ HeaderPhase /\ IspPhase /\ LoadPhase

USE GeometryAssumption, CellAssumption, TargetAssumption, MaxPagesAssumption,
    UpgradeAssumption

-----------------------------------------------------------------------------
(* Main's own variables, apart from the driver's. *)
MainTypes ==
  /\ boot \in BootPCs
  /\ staged \in Images \cup {NoImage}
  /\ flag \in BOOLEAN
  /\ len \in 0 .. MaxPages
  /\ restarts \in 0 .. MaxRestarts
  /\ via \in {"none", "update", "sd", "nand"}
  /\ fresh \in BOOLEAN
  /\ clean \in SUBSET Blocks
  /\ laid \in [0 .. MaxPages - 1 -> Addr]
  /\ target \in Images \cup {NoImage}
  /\ stored \in BOOLEAN

LEMMA TypeParts == TypeOK <=> NandTypeOK /\ MainTypes
BY DEF TypeOK, MainTypes

LEMMA TypePartsNext == NandInv' /\ MainTypes' => TypeOK'
BY DEF TypeOK, MainTypes, NandInv

LEMMA PageInCell ==
  ASSUME NEW im \in Images, NEW k \in 0 .. MaxPages
  PROVE  Page(im, k) \in Cell
BY DEF Cell

LEMMA UnknownBuffer == Unknown \in Buffers
BY DEF Unknown, Buffers, Cell

LEMMA BlockOneAddr == BlockOne \in Addr /\ BlockOne[1] = 1 /\ BlockOne[2] = 0
BY DEF BlockOne, Addr, Blocks, Pages

LEMMA IspBuffer ==
  ASSUME NEW im \in Images, NEW n \in 0 .. MaxPages
  PROVE  [i \in 0 .. MaxPages - 1 |-> IF i < n THEN Page(im, i + 1) ELSE Garbled] \in Buffers
<1>1. ASSUME NEW i \in 0 .. MaxPages - 1
      PROVE  (IF i < n THEN Page(im, i + 1) ELSE Garbled) \in Cell
  <2>1. i + 1 \in 0 .. MaxPages /\ Garbled \in Cell
    BY DEF Cell
  <2>2. Page(im, i + 1) \in Cell
    BY <2>1, PageInCell
  <2>3. QED
    BY <2>1, <2>2
<1>2. QED
  BY <1>1 DEF Buffers

LEMMA HeaderBuffer ==
  ASSUME NEW im \in Images
  PROVE  [Unknown EXCEPT ![0] = Page(im, 0)] \in Buffers
<1>1. Page(im, 0) \in Cell
  BY PageInCell
<1>2. QED
  BY <1>1, UnknownBuffer DEF Buffers

(* Outside Blanking_Check there is nothing to scan. *)
LEMMA NoScan == ASSUME pc' \notin {"bc_wait", "bc_mark"} PROVE ScanInv'
BY DEF ScanInv, BlankScan, Answered

(* A reset command launched while the driver is idle. *)
LEMMA IdleLaunch ==
  ASSUME NandInv, pc = "idle", cmd' \in {"reset", "sw_reset", cmd},
         UNCHANGED <<page, bad, defect, dma, nadr, fail, drvVars>>
  PROVE  NandInv'
BY DEF NandInv, NandTypeOK, ChipTypeOK, Control, drvVars, readVars, blankVars, Commands

LEMMA LengthTypes ==
  ASSUME MainTypes
  PROVE  /\ \A c : LengthIn(c) \subseteq 0 .. MaxPages
         /\ staged # NoImage => staged \in Images /\ ImgPages[staged] \in 0 .. MaxPages
<1>1. \A im \in Images : Page(im, 0).img = im
  BY DEF Page
<1>2. ASSUME NEW c, c \in Headers PROVE ImgPages[c.img] \in 0 .. MaxPages
  BY <1>1, <1>2 DEF Headers
<1>3. \A c : LengthIn(c) \subseteq 0 .. MaxPages
  BY <1>2 DEF LengthIn
<1>4. QED
  BY <1>3 DEF MainTypes

-----------------------------------------------------------------------------
(* The steps before main. *)
SetUp == (\E im \in Images \ Cuts : BootUpload(im)) \/ UploadCut \/ BootNand \/ BootNoBsp

(* The steps of main keep the driver's invariant and main's types. *)
LEMMA SetupMain ==
  ASSUME MainInv,
         SetUp
  PROVE  MainInv'
<1>1. /\ pc = "idle" /\ boot' \in {"init", "dead"} /\ via' \in {"none", via} /\ boot = "start"
      /\ cmd' \in {"sw_reset", cmd}
      /\ UNCHANGED <<page, bad, defect, dma, nadr, fail, drvVars, len, restarts,
                     fresh, clean, laid, target, stored>>
  BY DEF MainInv, Sync, SetUp, BootUpload, UploadCut, BootNand, BootNoBsp, EnterMain, SetupUnchanged
<1>2. NandInv'
  BY <1>1, IdleLaunch DEF MainInv
<1>3. staged' \in Images \cup {NoImage} /\ flag' \in BOOLEAN
  <2>1. MainTypes
    BY TypeParts DEF MainInv
  <2>2. QED
    BY <2>1 DEF MainTypes, SetUp, BootUpload, UploadCut, BootNand, BootNoBsp, SetupUnchanged
<1>4. MainTypes'
  BY <1>1, <1>3, TypeParts DEF MainInv, MainTypes, BootPCs
<1>5. TypeOK'
  BY <1>2, <1>4, TypePartsNext
<1>6. pc' = "idle" /\ via' # "update"
  BY <1>1 DEF MainInv, Sync, drvVars
<1>7. Sync'
  BY <1>1, <1>6 DEF Sync
<1>8. QED
  BY <1>2, <1>5, <1>6, <1>7, NoScan DEF MainInv

(* What a call of nand_read by main does to the invariant. *)
LEMMA CallMain ==
  ASSUME MainInv, NEW a \in Addr, NEW b \in Buffers, NEW n \in 0 .. MaxPages,
         NEW m \in {0, 1}, CallRead(a, b, n, m), MainTypes', Sync'
  PROVE  MainInv'
<1>1. NandInv'
  BY CallReadKeepsInv DEF MainInv
<1>2. ScanInv'
  BY NoScan DEF CallRead
<1>3. QED
  BY <1>1, <1>2, TypePartsNext DEF MainInv

LEMMA UpdateIspMain == ASSUME MainInv, UpdateIsp PROVE MainInv'
<1>0. MainTypes /\ NandInv
  BY TypeParts DEF MainInv
<1>1. staged \in Images /\ ImgPages[staged] \in 0 .. MaxPages
  BY <1>0, LengthTypes DEF UpdateIsp
<1>2. NandInv' /\ ScanInv'
  BY <1>0, <1>1, CallBlankKeepsInv, ScanCall DEF UpdateIsp
<1>3. MainTypes'
  BY <1>0, <1>1 DEF UpdateIsp, MainTypes, MainKeeps, BootPCs
<1>4. Sync'
  BY <1>1 DEF UpdateIsp, Sync, CallBlankingCheck, MainKeeps
<1>5. QED
  BY <1>2, <1>3, <1>4, TypePartsNext DEF MainInv

LEMMA GoSdMain == ASSUME MainInv, GoSd PROVE MainInv'
<1>0. MainTypes /\ NandInv
  BY TypeParts DEF MainInv
<1>1. staged \in Images /\ ImgPages[staged] \in 0 .. MaxPages
  BY <1>0, LengthTypes DEF GoSd
<1>2. buf' \in Buffers
  BY <1>1, IspBuffer DEF GoSd
<1>3. NandInv'
  BY <1>0, <1>2 DEF GoSd, NandInv, NandTypeOK, ChipTypeOK, Control, chipVars, blankVars
<1>4. MainTypes'
  BY <1>0, <1>1 DEF GoSd, MainTypes, MainKeeps, BootPCs
<1>5. Sync' /\ pc' = "idle"
  BY DEF GoSd, Sync
<1>6. QED
  BY <1>3, <1>4, <1>5, TypePartsNext, NoScan DEF MainInv

LEMMA GoNandMain == ASSUME MainInv, GoNand PROVE MainInv'
<1>0. MainTypes
  BY TypeParts DEF MainInv
<1>1. MainTypes'
  BY <1>0 DEF GoNand, MainTypes, MainKeeps, BootPCs
<1>2. Sync'
  BY DEF GoNand, Sync, CallRead
<1>3. QED
  BY <1>1, <1>2, ZeroAddr, UnknownBuffer, CallMain DEF GoNand

LEMMA WriteHeaderMain == ASSUME MainInv, WriteHeader PROVE MainInv'
<1>0. MainTypes
  BY TypeParts DEF MainInv
<1>1. staged \in Images /\ len = ImgPages[staged] /\ via = "update"
  BY DEF WriteHeader, Returned, MainInv, Sync
<1>2. MainTypes'
  BY <1>0 DEF WriteHeader, MainTypes, MainKeeps, BootPCs, BlankBlocks
<1>3. Sync'
  BY <1>1 DEF WriteHeader, Sync, CallRead, MainKeeps
<1>4. QED
  BY <1>1, <1>2, <1>3, ZeroAddr, HeaderBuffer, CallMain DEF WriteHeader

LEMMA WriteIspMain == ASSUME MainInv, WriteIsp PROVE MainInv'
<1>0. MainTypes
  BY TypeParts DEF MainInv
<1>1. staged \in Images /\ len = ImgPages[staged] /\ via = "update" /\ len \in 0 .. MaxPages
  BY <1>0 DEF WriteIsp, Returned, MainInv, Sync, MainTypes
<1>2. MainTypes'
  BY <1>0 DEF WriteIsp, MainTypes, MainKeeps, BootPCs
<1>3. Sync'
  BY <1>1 DEF WriteIsp, Sync, CallRead, MainKeeps
<1>4. QED
  BY <1>1, <1>2, <1>3, BlockOneAddr, IspBuffer, CallMain DEF WriteIsp

LEMMA BootUpdatedMain == ASSUME MainInv, BootUpdated PROVE MainInv'
<1>0. MainTypes /\ NandInv
  BY TypeParts DEF MainInv
<1>1. NandInv'
  BY <1>0, IdleLaunch DEF BootUpdated, LaunchReset, Returned
<1>2. stored' \in BOOLEAN
  BY DEF BootUpdated, HeaderRight, IspRight
<1>3. MainTypes'
  BY <1>0, <1>2 DEF BootUpdated, MainTypes, MainKeeps, BootPCs, NandInv, NandTypeOK
<1>4. Sync' /\ pc' = "idle"
  BY DEF BootUpdated, Returned, MainInv, Sync, drvVars, MainKeeps
<1>5. QED
  BY <1>1, <1>3, <1>4, TypePartsNext, NoScan DEF MainInv

LEMMA BootStoredMain == ASSUME MainInv, BootStored PROVE MainInv'
<1>0. MainTypes /\ NandInv
  BY TypeParts DEF MainInv
<1>1. NandInv'
  BY <1>0, IdleLaunch DEF BootStored, LaunchReset, Returned
<1>2. len' \in 0 .. MaxPages
  BY <1>0, LengthTypes DEF BootStored
<1>3. MainTypes'
  BY <1>0, <1>2 DEF BootStored, MainTypes, MainKeeps, BootPCs
<1>4. Sync' /\ pc' = "idle"
  BY DEF BootStored, Returned, MainInv, Sync, drvVars, MainKeeps
<1>5. QED
  BY <1>1, <1>3, <1>4, TypePartsNext, NoScan DEF MainInv

LEMMA LoadIspMain == ASSUME MainInv, LoadIsp PROVE MainInv'
<1>0. MainTypes /\ len \in 0 .. MaxPages
  BY TypeParts DEF MainInv, MainTypes
<1>1. MainTypes'
  BY <1>0 DEF LoadIsp, MainTypes, MainKeeps, BootPCs
<1>2. Sync'
  BY <1>0 DEF LoadIsp, Sync, CallRead, MainKeeps, MainInv
<1>3. QED
  BY <1>0, <1>1, <1>2, BlockOneAddr, UnknownBuffer, CallMain DEF LoadIsp

LEMMA JumpMain == ASSUME MainInv, Jump PROVE MainInv'
<1>0. MainTypes /\ NandInv
  BY TypeParts DEF MainInv
<1>1. NandInv'
  BY <1>0 DEF Jump, nandVars, chipVars, drvVars, readVars, blankVars, NandInv, NandTypeOK,
     ChipTypeOK, Control
<1>2. MainTypes'
  BY <1>0 DEF Jump, MainTypes, MainKeeps, BootPCs
<1>3. Sync' /\ pc' = "idle"
  BY DEF Jump, Returned, MainInv, Sync, nandVars, drvVars, MainKeeps
<1>4. QED
  BY <1>1, <1>2, <1>3, TypePartsNext, NoScan DEF MainInv

LEMMA RestartMain == ASSUME MainInv, Restart PROVE MainInv'
<1>0. MainTypes /\ NandInv
  BY TypeParts DEF MainInv
<1>1. page' \in [Addr -> Cell]
  <2>1. CASE page' = page
    BY <1>0, <2>1 DEF NandInv, NandTypeOK, ChipTypeOK
  <2>2. CASE /\ cmd = "page_write"
             /\ \E c \in {Garbled, Programmed(nadr[1], page[nadr], buf[pos])} :
                  page' = [page EXCEPT ![nadr] = c]
    <3>1. /\ nadr \in Addr /\ pos \in 0 .. MaxPages - 1 /\ buf \in Buffers
          /\ page \in [Addr -> Cell]
      BY <1>0, <2>2 DEF NandInv, NandTypeOK, ChipTypeOK, Control
    <3>2. page[nadr] \in Cell /\ buf[pos] \in Cell /\ Garbled \in Cell
      BY <3>1 DEF Buffers, Cell
    <3>3. Programmed(nadr[1], page[nadr], buf[pos]) \in Cell
      BY <3>2, ProgrammedCell
    <3>4. QED
      BY <2>2, <3>1, <3>2, <3>3
  <2>3. QED
    BY <2>1, <2>2 DEF Restart, Interrupted
<1>2. bad' \in SUBSET Blocks
  <2>1. CASE bad' = bad
    BY <1>0, <2>1 DEF NandInv, NandTypeOK, ChipTypeOK
  <2>2. CASE cmd = "sp_write" /\ bad' = bad \cup {Row(nadr[1])}
    <3>1. nadr[1] \in Nat /\ bad \in SUBSET Blocks
      BY <1>0, <2>2 DEF NandInv, NandTypeOK, ChipTypeOK
    <3>2. Row(nadr[1]) \in Blocks
      BY <3>1, RowBlock
    <3>3. QED
      BY <2>2, <3>1, <3>2
  <2>3. QED
    BY <2>1, <2>2 DEF Restart, Interrupted
<1>3. nadr' \in Nat \X Pages /\ addr' \in Addr /\ from' \in Addr
  BY ZeroAddr DEF Restart
<1>4. buf' \in Buffers
  BY UnknownBuffer DEF Restart
<1>5. wrapped' \in BOOLEAN /\ trail' \in [0 .. MaxPages - 1 -> Addr] /\ defect' \in SUBSET Blocks
  BY <1>0 DEF Restart, NandInv, NandTypeOK, ChipTypeOK
<1>6. /\ cmd' = "none" /\ dma' = "idle" /\ fail' = Passed /\ pc' = "idle" /\ mode' = 0
      /\ left' = 0 /\ pos' = 0 /\ startBlk' = 0 /\ endBlk' = 0 /\ need' = 0
  BY DEF Restart
<1>7. NandTypeOK'
  BY <1>1, <1>2, <1>3, <1>4, <1>5, <1>6 DEF NandTypeOK, ChipTypeOK, Commands, DriverPCs
<1>8. Control'
  BY <1>6 DEF Control
<1>9. MainTypes'
  BY <1>0 DEF Restart, MainTypes, BootPCs
<1>10. Sync'
  BY DEF Restart, Sync
<1>11. QED
  BY <1>6, <1>7, <1>8, <1>9, <1>10, TypePartsNext, NoScan DEF MainInv, NandInv

(* The driver's and the controller's steps leave main where it is. *)
LEMMA NandStepMain == ASSUME MainInv, NandStep, UNCHANGED mainVars PROVE MainInv'
<1>0. MainTypes /\ NandInv /\ ScanInv
  BY TypeParts DEF MainInv
<1>1. NandInv' /\ ScanInv'
  BY <1>0, DriverKeepsInv, HardwareKeepsInv, ScanStepDriver, ScanStepHardware DEF NandStep
<1>2. MainTypes'
  BY <1>0 DEF mainVars, MainTypes
<1>3. Sync'
  <2>1. CASE Hardware
    BY <2>1 DEF Hardware, HwPlain, HwProgram, HwMark, HwBlankCheck, DmaTransfer, drvVars,
       readVars, mainVars, MainInv, Sync
  <2>2. CASE ResetDone \/ IsBadBlock \/ SkipBlock \/ StartPage \/ DmaDone \/ PageTimeout
    BY <2>2 DEF ResetDone, IsBadBlock, SkipBlock, StartPage, DmaDone, PageTimeout,
       readVars, mainVars, MainInv, Sync
  <2>3. CASE PageDone
    <3>1. left \in 0 .. MaxPages /\ pos \in 0 .. MaxPages
      BY <1>0 DEF NandInv, NandTypeOK
    <3>2. pos' + left' = pos + left
      BY <2>3, <3>1 DEF PageDone
    <3>3. QED
      BY <2>3, <3>2 DEF PageDone, mainVars, MainInv, Sync
  <2>4. CASE Close \/ Return
    BY <1>0, <2>4 DEF Close, Return, readVars, mainVars, MainInv, Sync, NandInv, Control
  <2>5. CASE BlankPassed \/ BlankFailed \/ BlankResume
    BY <2>5 DEF BlankPassed, BlankFailed, BlankResume, readVars, mainVars, MainInv, Sync
  <2>6. QED
    BY <2>1, <2>2, <2>3, <2>4, <2>5 DEF NandStep, Driver
<1>4. QED
  BY <1>1, <1>2, <1>3, TypePartsNext DEF MainInv

LEMMA StutterMain == ASSUME MainInv, UNCHANGED vars PROVE MainInv'
<1> USE DEF vars, nandVars, chipVars, drvVars, readVars, blankVars, mainVars, MainInv
<1>1. TypeOK'
  BY DEF TypeOK, NandTypeOK, ChipTypeOK
<1>2. NandInv'
  BY DEF NandInv, NandTypeOK, ChipTypeOK, Control, ScanInv, BlankScan, Answered, BlankUpTo,
     Dirty
<1>3. ScanInv' /\ Sync'
  BY DEF ScanInv, BlankScan, Answered, BlankUpTo, Dirty, Unmarked, Sync
<1>4. QED
  BY <1>1, <1>2, <1>3

LEMMA InitMain == Init => MainInv
<1> SUFFICES ASSUME Init PROVE MainInv
  OBVIOUS
<1>1. NandInv
  BY InitInv DEF Init
<1>2. pc = "idle"
  BY DEF Init, NandInit
<1>3. laid \in [0 .. MaxPages - 1 -> Addr]
  BY <1>1 DEF Init, NandInv, NandTypeOK
<1>4. fresh \in BOOLEAN /\ flag \in BOOLEAN /\ stored \in BOOLEAN
  BY DEF Init
<1>5. /\ boot = "start" /\ staged = NoImage /\ len = 0 /\ restarts = 0 /\ via = "none"
      /\ clean = {} /\ target = NoImage
  BY DEF Init
<1>6. MainTypes
  BY <1>3, <1>4, <1>5 DEF MainTypes, BootPCs
<1>7. ScanInv
  BY <1>2 DEF ScanInv, BlankScan, Answered
<1>8. Sync
  BY <1>2, <1>5 DEF Sync
<1>9. QED
  BY <1>1, <1>6, <1>7, <1>8, TypeParts DEF MainInv, NandInv

LEMMA NextMain == MainInv /\ [Next]_vars => MainInv'
<1> SUFFICES ASSUME MainInv, [Next]_vars PROVE MainInv'
  OBVIOUS
<1>1. CASE Main
  BY <1>1, SetupMain, UpdateIspMain, GoSdMain, GoNandMain, WriteHeaderMain, WriteIspMain,
     BootUpdatedMain, BootStoredMain, LoadIspMain, JumpMain DEF Main, SetUp
<1>2. CASE NandStep /\ UNCHANGED mainVars
  BY <1>2, NandStepMain
<1>3. CASE Restart
  BY <1>3, RestartMain
<1>4. CASE UNCHANGED vars
  BY <1>4, StutterMain
<1>5. QED
  BY <1>1, <1>2, <1>3, <1>4 DEF Next, Stopped

LEMMA MainInvariant == Spec => []MainInv
<1>1. QED
  BY InitMain, NextMain, PTL DEF Spec

(* Every reachable state of the NAND path, resets included, is well typed. *)
THEOREM TypeCorrect == Spec => []TypeOK
<1>1. MainInv => TypeOK
  BY DEF MainInv
<1>2. QED
  BY <1>1, MainInvariant, PTL

-----------------------------------------------------------------------------
(* The order of the pages, and the search for the next good one. *)
LEMMA LtOrder ==
  ASSUME NEW a \in Addr, NEW b \in Addr
  PROVE  /\ ~Lt(a, a)
         /\ Lt(a, b) \/ a = b \/ Lt(b, a)
         /\ Lt(a, b) => ~Lt(b, a)
         /\ \A c \in Addr : Lt(a, b) /\ Lt(b, c) => Lt(a, c)
         /\ \A c \in Addr : Lt(a, b) /\ ~Lt(c, b) => Lt(a, c)
         /\ Wraps(a, b) <=> ~Lt(a, b)
BY DEF Addr, Blocks, Pages, Lt, Wraps

LEMMA NextBlockGap ==
  ASSUME NEW a \in Addr, Lt(a, NextBlock(a)), NEW x \in Addr,
         ~Lt(x, a), Lt(x, NextBlock(a))
  PROVE  x[1] = a[1]
BY DEF Addr, Blocks, Pages, Lt, NextBlock

LEMMA NextPageGap ==
  ASSUME NEW a \in Addr, NEW x \in Addr, Lt(a, NextPage(a))
  PROVE  ~(Lt(a, x) /\ Lt(x, NextPage(a)))
BY DEF Addr, Blocks, Pages, Lt, NextPage, NextBlock

(* Passing over a bad block goes on with the search. *)
LEMMA SearchSkips ==
  ASSUME NEW t, NEW n \in Nat, \A k \in 0 .. n - 1 : t[k] \in Addr,
         NEW a \in Addr, Searching(t, n, a), a[1] \in bad, Lt(a, NextBlock(a))
  PROVE  Searching(t, n, NextBlock(a))
<1> DEFINE b == NextBlock(a)
<1>1. b \in Addr /\ BlockOne \in Addr
  BY AddrClosed, BlockOneAddr
<1>2. ~Lt(b, BlockOne)
  BY <1>1, LtOrder DEF Searching
<1>3. \A k \in 0 .. n - 1 : Lt(t[k], b)
  BY <1>1, LtOrder DEF Searching
<1>4. ASSUME NEW x \in Addr, ~Lt(x, a), Lt(x, b) PROVE x[1] \in bad
  BY <1>4, NextBlockGap
<1>5. n = 0 => GapFrom(BlockOne, b)
  BY <1>4 DEF Searching, GapFrom
<1>6. n > 0 => GapAfter(t[n - 1], b)
  BY <1>4 DEF Searching, GapAfter
<1>7. QED
  BY <1>2, <1>3, <1>5, <1>6 DEF Searching

(* A good page found by the search is the next of the consecutive pages,   *)
(* and the search goes on from the page after it.                          *)
LEMMA SearchFinds ==
  ASSUME NEW t \in [0 .. MaxPages - 1 -> Addr], NEW n \in 0 .. MaxPages - 1, NEW a \in Addr,
         Consecutive(t, n), Searching(t, n, a), a[1] \notin bad
  PROVE  /\ Consecutive([t EXCEPT ![n] = a], n + 1)
         /\ Lt(a, NextPage(a)) => Searching([t EXCEPT ![n] = a], n + 1, NextPage(a))
<1> DEFINE u == [t EXCEPT ![n] = a]
<1>1. /\ u[n] = a
      /\ \A k \in 0 .. n - 1 : u[k] = t[k]
      /\ \A k \in 0 .. n : u[k] \in Addr
  OBVIOUS
<1>2. \A k \in 0 .. n : k = n \/ k \in 0 .. n - 1
  OBVIOUS
<1> HIDE DEF u
<1>3. Consecutive(u, n + 1)
  <2>1. \A k \in 0 .. n : u[k][1] \notin bad
    BY <1>1, <1>2 DEF Consecutive
  <2>2. \A j, k \in 0 .. n : j < k => Lt(u[j], u[k])
    <3> SUFFICES ASSUME NEW j \in 0 .. n, NEW k \in 0 .. n, j < k PROVE Lt(u[j], u[k])
      OBVIOUS
    <3>1. j \in 0 .. n - 1
      OBVIOUS
    <3>2. CASE k = n
      BY <1>1, <3>1, <3>2 DEF Searching
    <3>3. CASE k \in 0 .. n - 1
      BY <1>1, <3>1, <3>3 DEF Consecutive
    <3>4. QED
      BY <1>2, <3>2, <3>3
  <2>3. \A k \in 1 .. n : GapAfter(u[k - 1], u[k])
    <3> SUFFICES ASSUME NEW k \in 1 .. n PROVE GapAfter(u[k - 1], u[k])
      OBVIOUS
    <3>1. k - 1 \in 0 .. n - 1 /\ u[k - 1] = t[k - 1]
      BY <1>1
    <3>2. CASE k = n
      BY <1>1, <3>1, <3>2 DEF Searching
    <3>3. CASE k \in 1 .. n - 1
      BY <1>1, <3>1, <3>3 DEF Consecutive
    <3>4. QED
      BY <3>2, <3>3
  <2>4. ~Lt(u[0], BlockOne) /\ GapFrom(BlockOne, u[0])
    <3>1. CASE n = 0
      BY <1>1, <3>1 DEF Searching
    <3>2. CASE n > 0
      BY <1>1, <3>2 DEF Consecutive
    <3>3. QED
      BY <3>1, <3>2
  <2>5. (n + 1) - 1 = n
    OBVIOUS
  <2>6. QED
    BY <2>1, <2>2, <2>3, <2>4, <2>5 DEF Consecutive
<1>4. ASSUME Lt(a, NextPage(a)) PROVE Searching(u, n + 1, NextPage(a))
  <2> DEFINE b == NextPage(a)
  <2>1. b \in Addr /\ BlockOne \in Addr
    BY AddrClosed, BlockOneAddr
  <2>2. ~Lt(b, BlockOne)
    BY <1>4, <2>1, LtOrder DEF Searching
  <2>3. \A k \in 0 .. n : Lt(u[k], b)
    <3> SUFFICES ASSUME NEW k \in 0 .. n PROVE Lt(u[k], b)
      OBVIOUS
    <3>1. Lt(u[k], a) \/ u[k] = a
      BY <1>1, <1>2 DEF Searching
    <3>2. QED
      BY <1>1, <1>4, <2>1, <3>1, LtOrder
  <2>4. GapAfter(u[n], b)
    BY <1>1, <1>4, NextPageGap DEF GapAfter
  <2>5. (n + 1) - 1 = n /\ n + 1 # 0
    OBVIOUS
  <2>6. QED
    BY <2>2, <2>3, <2>4, <2>5 DEF Searching
<1>5. QED
  BY <1>3, <1>4 DEF u

(* The search along pages laid before finds the very same page. *)
LEMMA SearchFindsSame ==
  ASSUME NEW t \in [0 .. MaxPages - 1 -> Addr], NEW m \in 0 .. MaxPages,
         NEW n \in 0 .. m - 1, NEW a \in Addr,
         Consecutive(t, m), Searching(t, n, a), a[1] \notin bad
  PROVE  t[n] = a
<1>1. n \in 0 .. MaxPages - 1 /\ t[n] \in Addr /\ t[n][1] \notin bad
  BY DEF Consecutive
<1>2. CASE n = 0
  <2>1. ~Lt(t[0], BlockOne) /\ GapFrom(BlockOne, t[0]) /\ GapFrom(BlockOne, a) /\ ~Lt(a, BlockOne)
    BY <1>2 DEF Consecutive, Searching
  <2>2. ~Lt(a, t[0]) /\ ~Lt(t[0], a)
    BY <1>1, <1>2, <2>1 DEF GapFrom
  <2>3. QED
    BY <1>1, <1>2, <2>2, LtOrder
<1>3. CASE n > 0
  <2>1. n \in 1 .. m - 1 /\ n - 1 \in 0 .. m - 1 /\ n - 1 \in 0 .. n - 1 /\ n - 1 < n
    BY <1>3
  <2>2. GapAfter(t[n - 1], t[n]) /\ Lt(t[n - 1], t[n])
    BY <2>1 DEF Consecutive
  <2>3. GapAfter(t[n - 1], a) /\ Lt(t[n - 1], a)
    BY <1>3, <2>1 DEF Searching
  <2>4. ~Lt(a, t[n]) /\ ~Lt(t[n], a)
    BY <1>1, <2>2, <2>3 DEF GapAfter
  <2>5. QED
    BY <1>1, <2>4, LtOrder
<1>4. QED
  BY <1>2, <1>3

-----------------------------------------------------------------------------
(* Blocks are marked only in Blanking_Check, pages programmed only while   *)
(* the header or the ISP is written.                                       *)
LEMMA QuietBad ==
  ASSUME MainInv, NandStep, boot # "blank"
  PROVE  bad' = bad /\ endBlk' = endBlk /\ defect' = defect
<1>1. pc \notin {"bc_wait", "bc_mark"}
  BY DEF MainInv, Sync, TypeOK, BootPCs
<1>2. CASE Driver
  BY <1>1, <1>2 DEF Driver, ResetDone, IsBadBlock, SkipBlock, StartPage, DmaDone, PageDone,
     PageTimeout, Close, Return, BlankPassed, BlankFailed, BlankResume, chipVars, blankVars
<1>3. CASE Hardware
  BY <1>1, <1>3 DEF Hardware, HwPlain, HwProgram, HwMark, HwBlankCheck, DmaTransfer, drvVars,
     blankVars, MainInv, NandInv, Control
<1>4. QED
  BY <1>2, <1>3 DEF NandStep

LEMMA QuietPage ==
  ASSUME MainInv, NandStep, boot \notin {"header", "isp"}
  PROVE  page' = page
<1>1. cmd # "page_write"
  BY DEF MainInv, Sync, NandInv, Control, TypeOK, BootPCs
<1>2. CASE Driver
  BY <1>2 DEF Driver, ResetDone, IsBadBlock, SkipBlock, StartPage, DmaDone, PageDone,
     PageTimeout, Close, Return, BlankPassed, BlankFailed, BlankResume, chipVars
<1>3. CASE Hardware
  BY <1>1, <1>3 DEF Hardware, HwPlain, HwProgram, HwMark, HwBlankCheck, DmaTransfer
<1>4. QED
  BY <1>2, <1>3 DEF NandStep

LEMMA CoverNandStep ==
  ASSUME IInv, NandStep, UNCHANGED mainVars
  PROVE  Cover'
<1>0. MainInv /\ Cover
  BY DEF IInv
<1>1. CASE boot # "blank"
  <2>1. bad' = bad /\ endBlk' = endBlk /\ boot' = boot /\ via' = via /\ clean' = clean /\ fresh' = fresh
    BY <1>0, <1>1, QuietBad DEF mainVars
  <2>2. QED
    BY <1>0, <1>1, <2>1 DEF Cover, InUpdate, Found
<1>2. CASE boot = "blank"
  <2>1. page' = page /\ boot' = "blank" /\ fresh' = fresh /\ BlankBlocks' = BlankBlocks
    BY <1>0, <1>2, QuietPage DEF mainVars, BlankBlocks
  <2>2. fresh => bad' = bad
    <3>1. CASE Driver
      BY <3>1 DEF Driver, ResetDone, IsBadBlock, SkipBlock, StartPage, DmaDone, PageDone,
         PageTimeout, Close, Return, BlankPassed, BlankFailed, BlankResume, chipVars
    <3>2. CASE HwMark
      <4>1. /\ bad' = bad \cup {Row(fail)} /\ Row(fail) \in Blocks /\ Dirty(Row(fail))
        BY <1>0, <3>2, RowBlock DEF HwMark, MainInv, NandInv, NandTypeOK, ChipTypeOK, Control,
           ScanInv, Answered, Passed
      <4>2. fresh => Row(fail) \in bad
        BY <1>0, <1>2, <4>1 DEF Cover, BlankBlocks, Dirty
      <4>3. QED
        BY <4>1, <4>2
    <3>3. CASE Hardware /\ ~HwMark
      BY <3>3 DEF Hardware, HwPlain, HwProgram, HwBlankCheck, DmaTransfer
    <3>4. QED
      BY <3>1, <3>2, <3>3 DEF NandStep
  <2>3. pc' = "idle" =>
          Found' \subseteq BlankBlocks
    <3>1. CASE Driver
      <4>1. CASE BlankPassed
        <5>1. BlankReturn
          BY <1>0, <3>1, ScanStepDriver DEF MainInv
        <5>2. endBlk' = endBlk /\ bad' = bad
          BY <4>1 DEF BlankPassed, chipVars, blankVars
        <5>3. QED
          BY <4>1, <5>1, <5>2 DEF BlankReturn, BlankBlocks, Found
      <4>2. CASE Return
        BY <1>0, <1>2, <4>2 DEF Return, MainInv, Sync
      <4>3. CASE ~BlankPassed /\ ~Return
        BY <3>1, <4>3 DEF Driver, ResetDone, IsBadBlock, SkipBlock, StartPage, DmaDone,
           PageDone, PageTimeout, Close, BlankFailed, BlankResume
      <4>4. QED
        BY <4>1, <4>2, <4>3
    <3>2. CASE Hardware
      <4>1. pc' = pc /\ endBlk' = endBlk
        BY <3>2 DEF Hardware, DmaTransfer, drvVars, blankVars
      <4>2. pc = "idle" => bad' = bad
        BY <1>0, <3>2 DEF Hardware, HwPlain, HwProgram, HwMark, HwBlankCheck, DmaTransfer,
           MainInv, NandInv, Control
      <4>3. QED
        BY <1>0, <1>2, <4>1, <4>2 DEF Cover, Found
    <3>3. QED
      BY <3>1, <3>2 DEF NandStep
  <2>4. QED
    BY <1>0, <1>2, <2>1, <2>2, <2>3 DEF Cover, InUpdate
<1>3. QED
  BY <1>1, <1>2

(* An address of the header's write is the first page of the chip. *)
LEMMA HeaderNandStep ==
  ASSUME IInv, NandStep, UNCHANGED mainVars
  PROVE  HeaderPhase'
<1> SUFFICES ASSUME boot = "header", 0 \notin bad'
             PROVE  /\ left' > 0 => addr' = <<0, 0>>
                    /\ \A x \in Addr : x[1] \in clean /\ x[1] # 0 => page'[x] = Blank
  BY DEF HeaderPhase, mainVars
<1>1. /\ MainInv /\ bad' = bad /\ pos + left = 1 /\ pos \in Nat /\ left \in Nat
      /\ pc \notin {"bc_wait", "bc_mark"}
  BY QuietBad DEF IInv, MainInv, Sync, NandInv, NandTypeOK
<1>2. /\ left > 0 => addr = <<0, 0>>
      /\ \A x \in Addr : x[1] \in clean /\ x[1] # 0 => page[x] = Blank
  BY <1>1 DEF IInv, HeaderPhase
<1>3. CASE Driver
  <2>1. CASE SkipBlock
    <3>1. left > 0 /\ addr[1] \in bad
      BY <1>1, <2>1 DEF SkipBlock, MainInv, NandInv, Control
    <3>2. addr[1] = 0
      BY <1>2, <3>1
    <3>3. QED
      BY <1>1, <3>1, <3>2
  <2>2. CASE PageDone
    BY <1>1, <1>2, <2>2 DEF PageDone, chipVars
  <2>3. CASE ~SkipBlock /\ ~PageDone
    BY <1>1, <1>2, <1>3, <2>3 DEF Driver, ResetDone, IsBadBlock, StartPage, DmaDone,
       PageTimeout, Close, Return, BlankPassed, BlankFailed, BlankResume, chipVars, readVars
  <2>4. QED
    BY <2>1, <2>2, <2>3
<1>4. CASE Hardware
  <2>1. addr' = addr /\ left' = left
    BY <1>4 DEF Hardware, DmaTransfer, drvVars, readVars
  <2>2. CASE HwProgram(buf[pos])
    <3>1. left > 0 /\ nadr = addr /\ page \in [Addr -> Cell]
      BY <1>1, <2>2 DEF HwProgram, MainInv, NandInv, NandTypeOK, ChipTypeOK, Control
    <3>2. nadr = <<0, 0>>
      BY <1>2, <3>1
    <3>3. \A x \in Addr : x[1] # 0 => page'[x] = page[x]
      BY <2>2, <3>1, <3>2 DEF HwProgram
    <3>4. QED
      BY <1>2, <2>1, <3>3
  <2>3. CASE ~HwProgram(buf[pos])
    BY <1>2, <1>4, <2>1, <2>3 DEF Hardware, HwPlain, HwMark, HwBlankCheck, DmaTransfer
  <2>4. QED
    BY <2>2, <2>3
<1>5. QED
  BY <1>3, <1>4 DEF NandStep

(* The write of the ISP. *)
IspFacts ==
  /\ Consecutive(trail, pos)
  /\ left > 0 => Searching(trail, pos, addr)
  /\ \A i \in 0 .. len - 1 : buf[i] = Page(staged, i + 1)
  /\ \A k \in 0 .. pos - 1 : Sound(trail[k]) => page[trail[k]] = Page(staged, k + 1)
  /\ left > 0 => \A x \in Addr : Lt(addr, x) /\ x[1] \in clean => page[x] = Blank
  /\ left > 0 /\ ~Landed /\ addr[1] \in clean => page[addr] = Blank
  /\ Landed /\ Sound(addr) => page[addr] = Page(staged, pos + 1)

(* A step of the driver that moves neither a page nor the address. *)
LEMMA IspQuiet ==
  ASSUME IspFacts, Landed' = Landed, left' = left,
         UNCHANGED <<page, bad, defect, addr, pos, trail, buf, len, staged, clean>>
  PROVE  IspFacts'
BY DEF IspFacts, Consecutive, Searching, GapFrom, GapAfter, Sound

LEMMA IspSkip ==
  ASSUME IspFacts, NandInv, SkipBlock, UNCHANGED <<len, staged, clean>>, ~wrapped'
  PROVE  IspFacts'
<1>1. /\ addr \in Addr /\ left > 0 /\ addr[1] \in bad /\ addr' = NextBlock(addr)
      /\ pos \in Nat /\ trail \in [0 .. MaxPages - 1 -> Addr] /\ pos <= MaxPages
      /\ ~Landed /\ ~Landed'
      /\ UNCHANGED <<page, bad, defect, left, pos, trail, buf>>
  BY DEF SkipBlock, NandInv, NandTypeOK, Control, Landed, chipVars
<1>2. NextBlock(addr) \in Addr
  BY <1>1, AddrClosed
<1>3. Lt(addr, NextBlock(addr))
  BY <1>1, <1>2, LtOrder DEF SkipBlock
<1>4. \A k \in 0 .. pos - 1 : trail[k] \in Addr
  BY <1>1
<1>5. Searching(trail, pos, NextBlock(addr))
  BY <1>1, <1>3, <1>4, SearchSkips DEF IspFacts
<1>6. Searching(trail, pos, addr)'
  BY <1>1, <1>5 DEF Searching, GapFrom, GapAfter
<1>7. Consecutive(trail, pos)'
  BY <1>1 DEF IspFacts, Consecutive, GapFrom, GapAfter
<1>8. \A x \in Addr : Lt(addr', x) /\ x[1] \in clean => page[x] = Blank
  <2>1. \A x \in Addr : Lt(addr', x) => Lt(addr, x)
    BY <1>1, <1>2, <1>3, LtOrder
  <2>2. QED
    BY <1>1, <2>1 DEF IspFacts
<1>9. addr'[1] \in clean => page[addr'] = Blank
  BY <1>1, <1>2, <1>3 DEF IspFacts
<1>10. QED
  BY <1>1, <1>6, <1>7, <1>8, <1>9 DEF IspFacts, Sound

LEMMA IspPageDone ==
  ASSUME IspFacts, NandInv, PageDone, UNCHANGED <<len, staged, clean>>, ~wrapped'
  PROVE  IspFacts'
<1>1. /\ addr \in Addr /\ left \in Nat /\ left > 0 /\ addr[1] \notin bad /\ addr' = NextPage(addr)
      /\ pos \in 0 .. MaxPages - 1 /\ trail \in [0 .. MaxPages - 1 -> Addr]
      /\ Landed /\ ~Landed' /\ pos' = pos + 1 /\ left' = left - 1
      /\ trail' = [trail EXCEPT ![pos] = addr]
      /\ UNCHANGED <<page, bad, defect, buf>>
  BY DEF PageDone, NandInv, NandTypeOK, Control, Landed, chipVars
<1>2. NextPage(addr) \in Addr
  BY <1>1, AddrClosed
<1>3. left' > 0 => Lt(addr, NextPage(addr))
  <2>1. left' > 0 => left > 1
    BY <1>1
  <2>2. left > 1 => ~Wraps(addr, NextPage(addr))
    BY <1>1, Zenon DEF PageDone
  <2>3. QED
    BY <1>1, <1>2, <2>1, <2>2, LtOrder
<1>4. Consecutive(trail, pos) /\ Searching(trail, pos, addr)
  BY <1>1 DEF IspFacts
<1>5. /\ Consecutive(trail', pos')
      /\ left' > 0 => Searching(trail', pos', addr')
  BY <1>1, <1>3, <1>4, SearchFinds
<1>6. Consecutive(trail, pos)' /\ (left > 0 => Searching(trail, pos, addr))'
  BY <1>1, <1>5 DEF Consecutive, Searching, GapFrom, GapAfter
<1>7. \A k \in 0 .. pos : Sound(trail'[k]) => page[trail'[k]] = Page(staged, k + 1)
  <2> SUFFICES ASSUME NEW k \in 0 .. pos, Sound(trail'[k])
               PROVE  page[trail'[k]] = Page(staged, k + 1)
    OBVIOUS
  <2>0. k = pos \/ k \in 0 .. pos - 1
    BY <1>1
  <2>1. CASE k = pos
    BY <1>1, <2>1 DEF IspFacts
  <2>2. CASE k \in 0 .. pos - 1
    <3>1. trail'[k] = trail[k]
      BY <1>1, <2>2
    <3>2. QED
      BY <2>2, <3>1 DEF IspFacts
  <2>3. QED
    BY <2>0, <2>1, <2>2
<1>8. left' > 0 => \A x \in Addr : Lt(addr', x) /\ x[1] \in clean => page[x] = Blank
  <2> SUFFICES ASSUME left' > 0, NEW x \in Addr, Lt(addr', x), x[1] \in clean
               PROVE  page[x] = Blank
    OBVIOUS
  <2>1. Lt(addr, x)
    BY <1>1, <1>2, <1>3, LtOrder
  <2>2. QED
    BY <1>1, <2>1 DEF IspFacts
<1>9. left' > 0 /\ addr'[1] \in clean => page[addr'] = Blank
  BY <1>1, <1>2, <1>3 DEF IspFacts
<1>10. \A i \in 0 .. len' - 1 : buf'[i] = Page(staged', i + 1)
  BY <1>1 DEF IspFacts
<1>11. \A k \in 0 .. pos' - 1 : Sound(trail[k])' => page'[trail'[k]] = Page(staged', k + 1)
  BY <1>1, <1>7 DEF Sound
<1>12. QED
  BY <1>1, <1>6, <1>8, <1>9, <1>10, <1>11 DEF IspFacts

LEMMA IspProgram ==
  ASSUME IspFacts, NandInv, HwProgram(buf[pos]), UNCHANGED <<drvVars, len, staged, clean>>,
         pc # "halt", pos + left = len, len \in 0 .. MaxPages
  PROVE  IspFacts'
<1>1. /\ addr \in Addr /\ left \in Nat /\ left > 0 /\ pos \in Nat /\ pos < len /\ nadr = addr
      /\ page \in [Addr -> Cell] /\ trail \in [0 .. MaxPages - 1 -> Addr]
      /\ ~Landed /\ Landed' /\ pos \in 0 .. MaxPages - 1
      /\ page' = [page EXCEPT ![addr] = Programmed(addr[1], page[addr], buf[pos])]
      /\ UNCHANGED <<bad, defect, addr, left, pos, trail, buf>>
  BY DEF HwProgram, NandInv, NandTypeOK, ChipTypeOK, Control, Landed, drvVars, readVars
<1>2. buf[pos] = Page(staged, pos + 1)
  BY <1>1 DEF IspFacts
<1>3. Sound(addr) => page'[addr] = Page(staged, pos + 1)
  <2>1. Sound(addr) => page[addr] = Blank /\ addr[1] \notin defect
    BY <1>1 DEF IspFacts, Sound
  <2>2. QED
    BY <1>1, <1>2, <2>1 DEF Programmed
<1>4. \A k \in 0 .. pos - 1 : page'[trail[k]] = page[trail[k]]
  <2>1. \A k \in 0 .. pos - 1 : Lt(trail[k], addr) /\ trail[k] \in Addr
    BY <1>1 DEF IspFacts, Searching
  <2>2. \A k \in 0 .. pos - 1 : trail[k] # addr
    BY <1>1, <2>1, LtOrder
  <2>3. QED
    BY <1>1, <2>1, <2>2
<1>5. \A x \in Addr : Lt(addr, x) => page'[x] = page[x]
  BY <1>1, LtOrder
<1>6. Consecutive(trail, pos)' /\ Searching(trail, pos, addr)'
  BY <1>1 DEF IspFacts, Consecutive, Searching, GapFrom, GapAfter
<1>7. \A k \in 0 .. pos' - 1 : Sound(trail[k])' => page'[trail'[k]] = Page(staged', k + 1)
  BY <1>1, <1>4 DEF IspFacts, Sound
<1>8. \A x \in Addr : Lt(addr', x) /\ x[1] \in clean' => page'[x] = Blank
  BY <1>1, <1>5 DEF IspFacts
<1>9. \A i \in 0 .. len' - 1 : buf'[i] = Page(staged', i + 1)
  BY <1>1 DEF IspFacts
<1>10. Sound(addr)' => page'[addr'] = Page(staged', pos' + 1)
  BY <1>1, <1>3 DEF Sound
<1>11. QED
  BY <1>1, <1>6, <1>7, <1>8, <1>9, <1>10 DEF IspFacts

LEMMA IspNandStep ==
  ASSUME IInv, NandStep, UNCHANGED mainVars
  PROVE  IspPhase'
<1> SUFFICES ASSUME boot = "isp", 0 \notin bad', ~wrapped', pc' # "halt" PROVE IspFacts'
  BY DEF IspPhase, IspFacts, mainVars
<1>1. /\ MainInv /\ bad' = bad /\ pos + left = len /\ mode = 1 /\ defect' = defect
      /\ pc \notin {"bc_wait", "bc_mark"} /\ NandInv /\ len \in 0 .. MaxPages
      /\ UNCHANGED <<len, staged, clean>> /\ wrapped \in BOOLEAN
  BY QuietBad DEF IInv, MainInv, Sync, TypeOK, mainVars, NandTypeOK
<1>2. ~wrapped
  BY <1>1 DEF NandStep, Driver, Hardware, ResetDone, IsBadBlock, SkipBlock, StartPage, DmaDone,
     PageDone, PageTimeout, Close, Return, BlankPassed, BlankFailed, BlankResume, DmaTransfer,
     readVars, drvVars
<1>3. pc # "halt"
  BY DEF NandStep, Driver, Hardware, ResetDone, IsBadBlock, SkipBlock, StartPage, DmaDone,
     PageDone, PageTimeout, Close, Return, BlankPassed, BlankFailed, BlankResume, DmaTransfer,
     drvVars
<1>4. IspFacts
  BY <1>1, <1>2, <1>3 DEF IInv, IspPhase, IspFacts
<1>5. cmd \in {"page_read", "page_write"} => cmd = "page_write"
  BY <1>1 DEF NandInv, Control
<1>6. pc \in {"dma", "poll"} => cmd \in {"none", "page_write"}
  BY <1>1, <1>5 DEF NandInv, NandTypeOK, ChipTypeOK, Control, Commands
<1>7. CASE ResetDone \/ Close \/ Return \/ IsBadBlock \/ StartPage
  <2>1. Landed' = Landed
    BY <1>1, <1>7 DEF ResetDone, Close, Return, IsBadBlock, StartPage, Landed, chipVars
  <2>2. QED
    BY <1>1, <1>4, <1>7, <2>1, IspQuiet DEF ResetDone, Close, Return, IsBadBlock, StartPage,
       chipVars, readVars
<1>8. CASE DmaDone
  <2>1. Landed' = Landed
    BY <1>8 DEF DmaDone, Landed
  <2>2. QED
    BY <1>1, <1>4, <1>8, <2>1, IspQuiet DEF DmaDone, readVars
<1>9. CASE SkipBlock
  BY <1>1, <1>4, <1>9, IspSkip
<1>10. CASE PageDone
  BY <1>1, <1>4, <1>10, IspPageDone
<1>11. CASE HwProgram(buf[pos]) /\ UNCHANGED drvVars
  BY <1>1, <1>3, <1>4, <1>11, IspProgram
<1>12. CASE DmaTransfer
  <2>1. cmd = "page_write"
    BY <1>1, <1>5, <1>12 DEF DmaTransfer, NandInv, Control
  <2>2. Landed' = Landed
    BY <1>12 DEF DmaTransfer, Landed
  <2>3. QED
    BY <1>1, <1>4, <1>12, <2>1, <2>2, IspQuiet DEF DmaTransfer
<1>13. CASE HwPlain /\ UNCHANGED drvVars
  <2>1. Landed' = Landed
    BY <1>5, <1>6, <1>13 DEF HwPlain, Landed, drvVars
  <2>2. QED
    BY <1>1, <1>4, <1>13, <2>1, IspQuiet DEF HwPlain, drvVars, readVars
<1>14. CASE (HwMark \/ HwBlankCheck(endBlk)) /\ UNCHANGED drvVars
  BY <1>1, <1>14 DEF HwMark, HwBlankCheck, NandInv, Control
<1>15. CASE PageTimeout \/ BlankPassed \/ BlankFailed \/ BlankResume
  BY <1>1, <1>15 DEF PageTimeout, BlankPassed, BlankFailed, BlankResume
<1>16. QED
  BY <1>7, <1>8, <1>9, <1>10, <1>11, <1>12, <1>13, <1>14, <1>15 DEF NandStep, Driver, Hardware

-----------------------------------------------------------------------------
(* The reload of the ISP. *)
Fetched == pc = "poll" \/ (pc = "dma" /\ dma = "done")
LoadFacts ==
  /\ left > 0 => Searching(laid, pos, addr)
  /\ \A k \in 0 .. pos - 1 : buf[k] = page[laid[k]]
  /\ Fetched => buf[pos] = page[addr]

(* A step that moves neither a page nor the address. *)
LEMMA LoadQuiet ==
  ASSUME LoadFacts, Fetched' => Fetched, left' = left,
         UNCHANGED <<page, bad, addr, pos, buf, laid>>
  PROVE  LoadFacts'
BY DEF LoadFacts, Searching, GapFrom, GapAfter

LEMMA LoadSkip ==
  ASSUME LoadFacts, NandInv, SkipBlock, UNCHANGED laid, ~wrapped',
         laid \in [0 .. MaxPages - 1 -> Addr]
  PROVE  LoadFacts'
<1>1. /\ addr \in Addr /\ left > 0 /\ addr[1] \in bad /\ addr' = NextBlock(addr)
      /\ pos \in Nat /\ pos <= MaxPages /\ ~Fetched'
      /\ UNCHANGED <<page, bad, left, pos, buf>>
  BY DEF SkipBlock, NandInv, NandTypeOK, Control, Fetched, chipVars
<1>2. NextBlock(addr) \in Addr
  BY <1>1, AddrClosed
<1>3. Lt(addr, NextBlock(addr))
  BY <1>1, <1>2, LtOrder DEF SkipBlock
<1>4. \A k \in 0 .. pos - 1 : laid[k] \in Addr
  BY <1>1
<1>5. Searching(laid, pos, NextBlock(addr))
  BY <1>1, <1>3, <1>4, SearchSkips DEF LoadFacts
<1>6. Searching(laid, pos, addr)'
  BY <1>1, <1>5 DEF Searching, GapFrom, GapAfter
<1>7. QED
  BY <1>1, <1>6 DEF LoadFacts

(* The search finds each page where the update laid it. *)
LEMMA LoadPageDone ==
  ASSUME LoadFacts, NandInv, PageDone, UNCHANGED laid, ~wrapped',
         laid \in [0 .. MaxPages - 1 -> Addr], len \in 0 .. MaxPages, pos + left = len,
         Consecutive(laid, len)
  PROVE  LoadFacts'
<1>1. /\ addr \in Addr /\ left \in Nat /\ left > 0 /\ addr[1] \notin bad /\ addr' = NextPage(addr)
      /\ pos \in 0 .. MaxPages - 1 /\ Fetched /\ ~Fetched'
      /\ pos' = pos + 1 /\ left' = left - 1
      /\ UNCHANGED <<page, bad, buf>>
  BY DEF PageDone, NandInv, NandTypeOK, Control, Fetched, chipVars
<1>2. NextPage(addr) \in Addr
  BY <1>1, AddrClosed
<1>3. left' > 0 => Lt(addr, NextPage(addr))
  <2>1. left' > 0 => left > 1
    BY <1>1
  <2>2. left > 1 => ~Wraps(addr, NextPage(addr))
    BY <1>1, Zenon DEF PageDone
  <2>3. QED
    BY <1>1, <1>2, <2>1, <2>2, LtOrder
<1>4. pos \in 0 .. len - 1
  BY <1>1
<1>5. Searching(laid, pos, addr)
  BY <1>1 DEF LoadFacts
<1>6. laid[pos] = addr
  BY <1>1, <1>4, <1>5, SearchFindsSame
<1>7. Consecutive(laid, pos)
  <2>1. /\ \A k \in 0 .. pos - 1 : k \in 0 .. len - 1
        /\ \A k \in 1 .. pos - 1 : k \in 1 .. len - 1
        /\ len > 0
    BY <1>1, <1>4
  <2>2. QED
    BY <2>1 DEF Consecutive
<1>8. [laid EXCEPT ![pos] = addr] = laid
  BY <1>1, <1>6
<1>9. left' > 0 => Searching(laid, pos', addr')
  BY <1>1, <1>3, <1>5, <1>7, <1>8, SearchFinds
<1>10. left' > 0 => Searching(laid, pos, addr)'
  BY <1>1, <1>9 DEF Searching, GapFrom, GapAfter
<1>11. \A k \in 0 .. pos : buf[k] = page[laid[k]]
  <2> SUFFICES ASSUME NEW k \in 0 .. pos PROVE buf[k] = page[laid[k]]
    OBVIOUS
  <2>0. k = pos \/ k \in 0 .. pos - 1
    BY <1>1
  <2>1. CASE k = pos
    BY <1>1, <1>6, <2>1 DEF LoadFacts
  <2>2. CASE k \in 0 .. pos - 1
    BY <2>2 DEF LoadFacts
  <2>3. QED
    BY <2>0, <2>1, <2>2
<1>12. \A k \in 0 .. pos' - 1 : buf'[k] = page'[laid'[k]]
  BY <1>1, <1>11
<1>13. QED
  BY <1>1, <1>10, <1>12 DEF LoadFacts

LEMMA LoadTransfer ==
  ASSUME LoadFacts, NandInv, DmaTransfer, UNCHANGED laid, mode = 0
  PROVE  LoadFacts'
<1>1. /\ cmd = "page_read" /\ nadr = addr /\ pos \in 0 .. MaxPages - 1 /\ buf \in Buffers
  BY DEF DmaTransfer, NandInv, NandTypeOK, Control
<1>2. /\ buf' = [buf EXCEPT ![pos] = page[addr]]
      /\ UNCHANGED <<page, bad, addr, pos, left>>
  BY <1>1 DEF DmaTransfer
<1>3. buf'[pos] = page[addr] /\ \A k \in 0 .. pos - 1 : buf'[k] = buf[k]
  BY <1>1, <1>2 DEF Buffers
<1>4. Searching(laid, pos, addr) => Searching(laid, pos, addr)'
  BY <1>2 DEF Searching, GapFrom, GapAfter
<1>5. QED
  BY <1>2, <1>3, <1>4 DEF LoadFacts

LEMMA LoadFactsStep ==
  ASSUME LoadFacts, MainInv, NandStep, UNCHANGED mainVars, boot = "load", Consecutive(laid, len),
         ~wrapped', pc' # "halt"
  PROVE  LoadFacts'
<1>1. /\ bad' = bad /\ pos + left = len /\ mode = 0 /\ page' = page /\ NandInv
      /\ pc \notin {"bc_wait", "bc_mark"} /\ len \in 0 .. MaxPages
      /\ laid \in [0 .. MaxPages - 1 -> Addr] /\ UNCHANGED laid
  BY QuietBad, QuietPage DEF MainInv, Sync, TypeOK, mainVars
<1>2. CASE ResetDone \/ Close \/ Return \/ IsBadBlock \/ StartPage
  <2>1. ~Fetched'
    BY <1>2 DEF ResetDone, Close, Return, IsBadBlock, StartPage, Fetched
  <2>2. QED
    BY <1>1, <1>2, <2>1, LoadQuiet DEF ResetDone, Close, Return, IsBadBlock, StartPage,
       readVars
<1>3. CASE DmaDone
  <2>1. Fetched
    BY <1>3 DEF DmaDone, Fetched
  <2>2. QED
    BY <1>1, <1>3, <2>1, LoadQuiet DEF DmaDone, readVars
<1>4. CASE SkipBlock
  BY <1>1, <1>4, LoadSkip
<1>5. CASE PageDone
  BY <1>1, <1>5, LoadPageDone
<1>6. CASE DmaTransfer
  BY <1>1, <1>6, LoadTransfer
<1>7. CASE (HwPlain \/ HwProgram(buf[pos]) \/ HwMark \/ HwBlankCheck(endBlk)) /\ UNCHANGED drvVars
  <2>1. Fetched' => Fetched
    BY <1>7 DEF HwPlain, HwProgram, HwMark, HwBlankCheck, Fetched, drvVars
  <2>2. QED
    BY <1>1, <1>7, <2>1, LoadQuiet DEF drvVars, readVars
<1>8. CASE PageTimeout \/ BlankPassed \/ BlankFailed \/ BlankResume
  BY <1>1, <1>8 DEF PageTimeout, BlankPassed, BlankFailed, BlankResume
<1>9. QED
  BY <1>2, <1>3, <1>4, <1>5, <1>6, <1>7, <1>8 DEF NandStep, Driver, Hardware

LEMMA LoadNandStep ==
  ASSUME IInv, NandStep, UNCHANGED mainVars
  PROVE  LoadPhase'
<1> SUFFICES ASSUME Loading', 0 \notin bad', ~wrapped', pc' # "halt"
             PROVE  /\ Consecutive(laid, len)'
                    /\ \A k \in 0 .. len' - 1 :
                         Sound(laid[k])' => page'[laid'[k]] = Page(staged', k + 1)
                    /\ boot' = "load" => LoadFacts'
                    /\ boot' = "jump" => \A k \in 0 .. len' - 1 : buf'[k] = page'[laid'[k]]
  BY DEF LoadPhase, LoadFacts, Fetched
<1>1. /\ UNCHANGED <<boot, laid, len, staged, clean, bad, page, defect>> /\ Loading /\ MainInv
  BY QuietBad, QuietPage DEF IInv, Loading, mainVars
<1>2. ~wrapped
  <2>1. wrapped \in BOOLEAN
    BY <1>1 DEF MainInv, NandInv, NandTypeOK
  <2>2. QED
    BY <2>1 DEF NandStep, Driver, Hardware, ResetDone, IsBadBlock, SkipBlock, StartPage, DmaDone,
       PageDone, PageTimeout, Close, Return, BlankPassed, BlankFailed, BlankResume, DmaTransfer,
       readVars, drvVars
<1>10. pc # "halt"
  BY DEF NandStep, Driver, Hardware, ResetDone, IsBadBlock, SkipBlock, StartPage, DmaDone,
     PageDone, PageTimeout, Close, Return, BlankPassed, BlankFailed, BlankResume, DmaTransfer,
     readVars, drvVars
<1>3. /\ Consecutive(laid, len)
      /\ \A k \in 0 .. len - 1 : Sound(laid[k]) => page[laid[k]] = Page(staged, k + 1)
      /\ boot = "load" => LoadFacts
      /\ boot = "jump" => \A k \in 0 .. len - 1 : buf[k] = page[laid[k]]
  BY <1>1, <1>2, <1>10 DEF IInv, LoadPhase, LoadFacts, Fetched
<1>4. Consecutive(laid, len)'
  BY <1>1, <1>3 DEF Consecutive, GapFrom, GapAfter
<1>5. \A k \in 0 .. len' - 1 : Sound(laid[k])' => page'[laid'[k]] = Page(staged', k + 1)
  BY <1>1, <1>3 DEF Sound
<1>6. boot' = "load" => LoadFacts'
  BY <1>1, <1>3, LoadFactsStep
<1>7. boot = "jump" => buf' = buf
  <2> SUFFICES ASSUME boot = "jump" PROVE buf' = buf
    OBVIOUS
  <2>1. pc = "idle" /\ dma # "armed"
    BY <1>1 DEF MainInv, Sync, NandInv, Control
  <2>2. QED
    BY <2>1 DEF NandStep, Driver, Hardware, ResetDone, IsBadBlock, SkipBlock, StartPage, DmaDone,
       PageDone, PageTimeout, Close, Return, BlankPassed, BlankFailed, BlankResume, DmaTransfer,
       readVars, drvVars
<1>8. boot' = "jump" => \A k \in 0 .. len' - 1 : buf'[k] = page'[laid'[k]]
  BY <1>1, <1>3, <1>7
<1>9. QED
  BY <1>4, <1>5, <1>6, <1>8

-----------------------------------------------------------------------------
(* The steps of main that start or end a phase. *)
LEMMA UpdateIspPhases == ASSUME IInv, UpdateIsp PROVE Cover' /\ HeaderPhase' /\ IspPhase' /\ LoadPhase'
<1>1. boot' = "blank" /\ pc' = "bc_wait" /\ UNCHANGED <<page, bad>>
  BY DEF UpdateIsp, CallBlankingCheck
<1>2. BlankBlocks' = BlankBlocks
  BY <1>1 DEF BlankBlocks
<1>3. fresh' => 0 \notin bad /\ Blocks \ bad \subseteq BlankBlocks
  BY DEF UpdateIsp
<1>4. QED
  BY <1>1, <1>2, <1>3 DEF Cover, InUpdate, HeaderPhase, IspPhase, LoadPhase, Loading

LEMMA WriteHeaderPhases ==
  ASSUME IInv, WriteHeader PROVE Cover' /\ HeaderPhase' /\ IspPhase' /\ LoadPhase'
<1>1. /\ boot = "blank" /\ pc = "idle" /\ boot' = "header" /\ clean' = BlankBlocks
      /\ fresh' = fresh /\ addr' = <<0, 0>>
      /\ UNCHANGED <<page, bad, endBlk>>
  BY DEF WriteHeader, Returned, CallRead, blankVars
<1>2. Cover'
  BY <1>1 DEF IInv, Cover, InUpdate, Found
<1>3. HeaderPhase'
  <2>1. ASSUME NEW x \in Addr, x[1] \in BlankBlocks PROVE page[x] = Blank
    <3>1. x = <<x[1], x[2]>> /\ x[2] \in Pages
      BY AddrClosed
    <3>2. page[<<x[1], x[2]>>] = Blank
      BY <2>1, <3>1 DEF BlankBlocks
    <3>3. QED
      BY <3>1, <3>2
  <2>2. QED
    BY <1>1, <2>1 DEF HeaderPhase
<1>4. QED
  BY <1>1, <1>2, <1>3 DEF IspPhase, LoadPhase, Loading

LEMMA WriteIspPhases ==
  ASSUME IInv, WriteIsp PROVE Cover' /\ HeaderPhase' /\ IspPhase' /\ LoadPhase'
<1>1. /\ boot = "header" /\ pc = "idle" /\ boot' = "isp" /\ addr' = BlockOne /\ pos' = 0
      /\ left' = len /\ pc' = "reset"
      /\ buf' = [i \in 0 .. MaxPages - 1 |-> IF i < len THEN Page(staged, i + 1) ELSE Garbled]
      /\ UNCHANGED <<page, bad, defect, endBlk, clean, fresh, via, len, staged>>
      /\ MainInv /\ len \in 0 .. MaxPages
  BY DEF WriteIsp, Returned, CallRead, blankVars, MainKeeps, IInv, MainInv, TypeOK
<1>2. Cover'
  BY <1>1 DEF IInv, Cover, InUpdate, Found
<1>3. IspPhase'
  <2> SUFFICES ASSUME 0 \notin bad PROVE IspFacts'
    BY <1>1 DEF IspPhase, IspFacts
  <2>1. \A x \in Addr : x[1] \in clean /\ x[1] # 0 => page[x] = Blank
    BY <1>1 DEF IInv, HeaderPhase
  <2>2. ~Landed'
    BY <1>1 DEF Landed
  <2>3. Consecutive(trail, pos)'
    BY <1>1 DEF Consecutive
  <2>4. Searching(trail, pos, addr)'
    BY <1>1, BlockOneAddr, LtOrder DEF Searching, GapFrom
  <2>5. \A i \in 0 .. len - 1 : buf'[i] = Page(staged, i + 1)
    BY <1>1
  <2>6. \A x \in Addr : x = BlockOne \/ Lt(BlockOne, x) => x[1] # 0
    BY BlockOneAddr DEF Lt, Addr, Blocks, Pages
  <2>7. QED
    BY <1>1, <2>1, <2>2, <2>3, <2>4, <2>5, <2>6, BlockOneAddr DEF IspFacts
<1>4. QED
  BY <1>1, <1>2, <1>3 DEF HeaderPhase, LoadPhase, Loading

LEMMA BootUpdatedPhases ==
  ASSUME IInv, BootUpdated PROVE Cover' /\ HeaderPhase' /\ IspPhase' /\ LoadPhase'
<1>1. /\ boot = "isp" /\ pc = "idle" /\ boot' = "boot_isp" /\ laid' = trail
      /\ UNCHANGED <<page, bad, defect, endBlk, clean, fresh, via, len, staged, wrapped>>
      /\ MainInv /\ pos = len
  BY DEF BootUpdated, Returned, drvVars, readVars, blankVars, MainKeeps, IInv, MainInv, Sync,
     NandInv, NandTypeOK
<1>2. Cover'
  BY <1>1 DEF IInv, Cover, InUpdate, Found
<1>3. LoadPhase'
  <2> SUFFICES ASSUME 0 \notin bad, ~wrapped
               PROVE  /\ Consecutive(trail, len)
                      /\ \A k \in 0 .. len - 1 :
                           Sound(trail[k]) => page[trail[k]] = Page(staged, k + 1)
    BY <1>1 DEF LoadPhase, Consecutive, GapFrom, GapAfter, Sound
  <2>1. QED
    BY <1>1 DEF IInv, IspPhase
<1>4. QED
  BY <1>1, <1>2, <1>3 DEF HeaderPhase, IspPhase

LEMMA LoadIspPhases ==
  ASSUME IInv, LoadIsp PROVE Cover' /\ HeaderPhase' /\ IspPhase' /\ LoadPhase'
<1>1. /\ boot = "boot_isp" /\ pc = "idle" /\ boot' = "load" /\ addr' = BlockOne /\ pos' = 0
      /\ pc' = "reset"
      /\ UNCHANGED <<page, bad, defect, endBlk, clean, fresh, via, len, staged, wrapped, laid>>
  BY DEF LoadIsp, CallRead, blankVars, MainKeeps
<1>2. Cover'
  BY <1>1 DEF IInv, Cover, InUpdate, Found
<1>3. LoadPhase'
  <2> SUFFICES ASSUME Loading, 0 \notin bad, ~wrapped
               PROVE  /\ Consecutive(laid, len)'
                      /\ \A k \in 0 .. len - 1 :
                           Sound(laid[k])' => page[laid[k]] = Page(staged, k + 1)
                      /\ Searching(laid, 0, BlockOne)'
    BY <1>1 DEF LoadPhase, Loading
  <2>1. /\ Consecutive(laid, len)
        /\ \A k \in 0 .. len - 1 : Sound(laid[k]) => page[laid[k]] = Page(staged, k + 1)
    BY <1>1 DEF IInv, LoadPhase
  <2>2. Searching(laid, 0, BlockOne)
    BY BlockOneAddr, LtOrder DEF Searching, GapFrom
  <2>3. QED
    BY <1>1, <2>1, <2>2 DEF Consecutive, Searching, GapFrom, GapAfter, Sound
<1>4. QED
  BY <1>1, <1>2, <1>3 DEF HeaderPhase, IspPhase

LEMMA JumpPhases == ASSUME IInv, Jump PROVE Cover' /\ HeaderPhase' /\ IspPhase' /\ LoadPhase'
<1>1. /\ boot = "load" /\ pc = "idle" /\ boot' = "jump" /\ pos = len
      /\ UNCHANGED <<page, bad, defect, endBlk, clean, fresh, via, len, staged, wrapped, laid, buf>>
  BY DEF Jump, Returned, nandVars, chipVars, drvVars, readVars, blankVars, MainKeeps, IInv, MainInv,
     Sync, NandInv, NandTypeOK
<1>2. Cover'
  BY <1>1 DEF IInv, Cover, InUpdate, Found
<1>3. LoadPhase'
  <2> SUFFICES ASSUME Loading, 0 \notin bad, ~wrapped
               PROVE  /\ Consecutive(laid, len)'
                      /\ \A k \in 0 .. len - 1 :
                           Sound(laid[k])' => page[laid[k]] = Page(staged, k + 1)
                      /\ \A k \in 0 .. len - 1 : buf[k] = page[laid[k]]
    BY <1>1 DEF LoadPhase, Loading
  <2>1. /\ Consecutive(laid, len)
        /\ \A k \in 0 .. len - 1 : Sound(laid[k]) => page[laid[k]] = Page(staged, k + 1)
        /\ \A k \in 0 .. pos - 1 : buf[k] = page[laid[k]]
    BY <1>1 DEF IInv, LoadPhase
  <2>2. QED
    BY <1>1, <2>1 DEF Consecutive, GapFrom, GapAfter, Sound
<1>4. QED
  BY <1>1, <1>2, <1>3 DEF HeaderPhase, IspPhase

(* The steps that lead to a place no phase speaks of. *)
LEMMA OtherPhases ==
  ASSUME boot' \notin {"blank", "header", "isp"}, via' # "update"
  PROVE  Cover' /\ HeaderPhase' /\ IspPhase' /\ LoadPhase'
BY DEF Cover, InUpdate, HeaderPhase, IspPhase, LoadPhase, Loading

LEMMA StutterPhases ==
  ASSUME IInv, UNCHANGED vars PROVE Cover' /\ HeaderPhase' /\ IspPhase' /\ LoadPhase'
BY DEF vars, nandVars, chipVars, drvVars, readVars, blankVars, mainVars, IInv, Cover, InUpdate, Found,
   BlankBlocks, HeaderPhase, IspPhase, LoadPhase, Loading, Landed, Consecutive, Searching,
   GapFrom, GapAfter, Sound

LEMMA InitIInv == Init => IInv
<1> SUFFICES ASSUME Init PROVE IInv
  OBVIOUS
<1>1. boot = "start" /\ via = "none"
  BY DEF Init
<1>2. QED
  BY <1>1, InitMain DEF IInv, Cover, InUpdate, HeaderPhase, IspPhase, LoadPhase, Loading

LEMMA NextIInv == IInv /\ [Next]_vars => IInv'
<1> SUFFICES ASSUME IInv, [Next]_vars PROVE Cover' /\ HeaderPhase' /\ IspPhase' /\ LoadPhase'
  BY NextMain DEF IInv
<1>1. CASE Main
  <2>1. CASE SetUp
    <3>1. boot' \in {"init", "dead"} /\ via' # "update"
      BY <2>1 DEF SetUp, BootUpload, UploadCut, BootNand, BootNoBsp, EnterMain, SetupUnchanged, IInv,
         MainInv, Sync
    <3>2. QED
      BY <3>1, OtherPhases
  <2>2. CASE GoSd \/ GoNand \/ BootStored
    <3>1. boot' \notin {"blank", "header", "isp"} /\ via' # "update"
      BY <2>2 DEF GoSd, GoNand, BootStored, Returned, IInv, MainInv, Sync
    <3>2. QED
      BY <3>1, OtherPhases
  <2>3. QED
    BY <1>1, <2>1, <2>2, UpdateIspPhases, WriteHeaderPhases, WriteIspPhases, BootUpdatedPhases,
       LoadIspPhases, JumpPhases DEF Main, SetUp
<1>2. CASE NandStep /\ UNCHANGED mainVars
  BY <1>2, CoverNandStep, HeaderNandStep, IspNandStep, LoadNandStep
<1>3. CASE Restart
  BY <1>3, OtherPhases DEF Restart
<1>4. CASE UNCHANGED vars
  BY <1>4, StutterPhases
<1>5. QED
  BY <1>1, <1>2, <1>3, <1>4 DEF Next, Stopped

LEMMA UpdateInvariant == Spec => []IInv
<1>1. QED
  BY InitIInv, NextIInv, PTL DEF Spec

(* For every geometry, image and set of bad and defective blocks: an       *)
(* update that ends, with block 0 not bad and no wrap past the end of the   *)
(* chip, jumps into the staged image as far as Blanking_Check verified the *)
(* blocks it went to.                                                      *)
THEOREM VerifiedImage == Spec => []VerifiedImageLoads
<1>1. ASSUME IInv PROVE VerifiedImageLoads
  <2> SUFFICES ASSUME boot = "jump", via = "update", 0 \notin bad, ~wrapped,
                      NEW k \in 0 .. len - 1, Verified(laid[k][1])
               PROVE  buf[k] = Page(staged, k + 1)
    BY DEF VerifiedImageLoads
  <2>1. pc # "halt" /\ laid \in [0 .. MaxPages - 1 -> Addr] /\ len \in 0 .. MaxPages /\ endBlk \in Nat
    BY <1>1 DEF IInv, MainInv, Sync, TypeOK, NandTypeOK
  <2>2. /\ Consecutive(laid, len)
        /\ Sound(laid[k]) => page[laid[k]] = Page(staged, k + 1)
        /\ buf[k] = page[laid[k]]
    <3>1. LoadPhase /\ Loading
      BY <1>1 DEF IInv, Loading
    <3>2. /\ Consecutive(laid, len)
          /\ \A i \in 0 .. len - 1 : Sound(laid[i]) => page[laid[i]] = Page(staged, i + 1)
          /\ \A i \in 0 .. len - 1 : buf[i] = page[laid[i]]
      BY <2>1, <3>1, Zenon DEF LoadPhase
    <3>3. QED
      BY <3>2
  <2>3. laid[k] \in Addr /\ laid[k][1] \in Blocks /\ laid[k][1] \notin bad
    <3>1. laid[k] \in Addr
      BY <2>1
    <3>2. laid[k][1] \notin bad
      BY <2>2 DEF Consecutive
    <3>3. QED
      BY <3>1, <3>2, AddrClosed
  <2>4. laid[k][1] \in Found
    BY <2>3 DEF Verified, Found
  <2>5. laid[k][1] \in clean
    BY <1>1, <2>3, <2>4 DEF IInv, Cover, InUpdate, Found
  <2>6. QED
    BY <2>2, <2>5 DEF Sound, Verified
<1>2. QED
  BY <1>1, UpdateInvariant, PTL

(* The same for the whole image on a fresh chip, the last block included,   *)
(* which no Blanking_Check ever looked at.                                 *)
THEOREM FreshImage == Spec => []FreshImageBoots
<1>1. ASSUME IInv PROVE FreshImageBoots
  <2> SUFFICES ASSUME boot = "jump", via = "update", fresh, ~wrapped,
                      NEW k \in 0 .. len - 1, laid[k][1] \notin defect
               PROVE  buf[k] = Page(staged, k + 1)
    BY DEF FreshImageBoots
  <2>1. pc # "halt" /\ laid \in [0 .. MaxPages - 1 -> Addr] /\ len \in 0 .. MaxPages
    BY <1>1 DEF IInv, MainInv, Sync, TypeOK
  <2>2. 0 \notin bad /\ Blocks \ bad \subseteq clean
    BY <1>1 DEF IInv, Cover, InUpdate, Found
  <2>3. /\ Consecutive(laid, len)
        /\ Sound(laid[k]) => page[laid[k]] = Page(staged, k + 1)
        /\ buf[k] = page[laid[k]]
    <3>1. LoadPhase /\ Loading
      BY <1>1 DEF IInv, Loading
    <3>2. /\ Consecutive(laid, len)
          /\ \A i \in 0 .. len - 1 : Sound(laid[i]) => page[laid[i]] = Page(staged, i + 1)
          /\ \A i \in 0 .. len - 1 : buf[i] = page[laid[i]]
      BY <2>1, <2>2, <3>1, Zenon DEF LoadPhase
    <3>3. QED
      BY <3>2
  <2>4. laid[k] \in Addr /\ laid[k][1] \in Blocks /\ laid[k][1] \notin bad
    <3>1. laid[k] \in Addr
      BY <2>1
    <3>2. laid[k][1] \notin bad
      BY <2>3 DEF Consecutive
    <3>3. QED
      BY <3>1, <3>2, AddrClosed
  <2>5. QED
    BY <2>2, <2>3, <2>4 DEF Sound
<1>2. QED
  BY <1>1, UpdateInvariant, PTL
=============================================================================
