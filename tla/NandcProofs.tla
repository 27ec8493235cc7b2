----------------------------- MODULE NandcProofs -----------------------------
(***************************************************************************)
(* Proofs about the NAND driver.                                           *)
(***************************************************************************)
EXTENDS Nandc, FiniteSetTheorems, TLAPS

(* The strengthening of NandTypeOK that is inductive: which command and    *)
(* which address go with which place of the driver.                        *)
Control ==
  /\ pos + left <= MaxPages
  /\ pc \in {"isbb", "dma", "poll", "halt"} => left > 0
  /\ pc = "closing" => left = 0
  /\ pc \in {"dma", "poll"} => nadr = addr /\ addr[1] \notin bad
  /\ cmd \in {"page_read", "page_write"} =>
       /\ pc \in {"dma", "poll", "halt"}
       /\ nadr = addr
       /\ addr[1] \notin bad
       /\ cmd = IF mode = 0 THEN "page_read" ELSE "page_write"
  /\ dma = "armed" => pc = "dma" /\ cmd \in {"page_read", "page_write"}
  /\ cmd = "sp_write" => pc = "bc_mark"
  /\ pc = "bc_mark" => fail \in Nat /\ nadr = <<fail, 0>>
  /\ cmd = "blank_chk" => pc = "bc_wait"
  /\ pc = "bc_wait" => nadr = <<startBlk, 0>>
  /\ cmd = "sp_read" => pc = "isbb"
  /\ cmd \in {"reset", "sw_reset"} => pc \in {"reset", "closing", "idle"}
  /\ pc = "loop" => cmd = "none"

NandInv == NandTypeOK /\ Control

USE GeometryAssumption, CellAssumption, TargetAssumption, MaxPagesAssumption

(* Whatever the controller counts is a block of the chip. *)
LEMMA RowBlock ==
  /\ \A b \in Nat : Row(b) \in Blocks
  /\ \A b \in Blocks : Row(b) = b
BY DEF Row, Blocks

(* The addresses the driver computes are addresses of the chip. *)
LEMMA AddrClosed ==
  ASSUME NEW a \in Addr
  PROVE  NextBlock(a) \in Addr /\ NextPage(a) \in Addr /\ <<a[1], 0>> \in Addr
         /\ a = <<a[1], a[2]>> /\ a[1] \in Blocks /\ a[2] \in Pages
BY DEF Addr, Blocks, Pages, NextBlock, NextPage

LEMMA ZeroAddr == <<0, 0>> \in Addr /\ 0 \in Blocks /\ 0 \in Pages
BY DEF Addr, Blocks, Pages

LEMMA BlkNumNat == ASSUME NEW n \in Nat PROVE BlkNum(n) \in Nat
BY DEF BlkNum

LEMMA ProgrammedCell ==
  ASSUME NEW b, NEW old \in Cell, NEW data \in Cell
  PROVE  Programmed(b, old, data) \in Cell
BY DEF Programmed, Cell

-----------------------------------------------------------------------------
LEMMA HardwareKeepsInv ==
  ASSUME NandInv, Hardware
  PROVE  NandInv'
<1> USE DEF NandInv, NandTypeOK, ChipTypeOK, drvVars, readVars, blankVars
<1>1. CASE HwPlain /\ UNCHANGED drvVars
  BY <1>1 DEF HwPlain, Control, Commands
<1>2. CASE HwProgram(buf[pos]) /\ UNCHANGED drvVars
  <2>1. nadr \in Addr /\ pos \in 0 .. MaxPages - 1
    BY <1>2 DEF HwProgram, Control
  <2>2. page' \in [Addr -> Cell]
    BY <1>2, <2>1, ProgrammedCell DEF HwProgram, Buffers
  <2>3. QED
    BY <1>2, <2>2 DEF HwProgram, Control, Commands
<1>3. CASE HwMark /\ UNCHANGED drvVars
  <2>1. Row(nadr[1]) \in Blocks
    BY <1>3, RowBlock DEF HwMark
  <2>2. QED
    BY <1>3, <2>1 DEF HwMark, Control, Commands
<1>4. CASE HwBlankCheck(endBlk) /\ UNCHANGED drvVars
  <2>0. nadr[1] \in Nat /\ endBlk \in Nat
    OBVIOUS
  <2>1. fail' \in Nat \cup {Passed}
    <3>1. DirtyBlocks(nadr[1], endBlk) \subseteq Nat
      BY <2>0 DEF DirtyBlocks
    <3>2. QED
      BY <1>4, <3>1 DEF HwBlankCheck
  <2>2. QED
    BY <1>4, <2>1 DEF HwBlankCheck, Control, Commands
<1>5. CASE DmaTransfer
  <2>1. buf' \in Buffers
    <3>1. CASE cmd = "page_read"
      <4>1. nadr \in Addr
        BY <3>1 DEF Control
      <4>2. page[nadr] \in Cell
        BY <4>1
      <4>3. QED
        BY <1>5, <4>2 DEF DmaTransfer, Buffers
    <3>2. QED
      BY <1>5, <3>1 DEF DmaTransfer
  <2>2. QED
    BY <1>5, <2>1 DEF DmaTransfer, Control
<1>6. QED
  BY <1>1, <1>2, <1>3, <1>4, <1>5 DEF Hardware

LEMMA DriverKeepsInv ==
  ASSUME NandInv, Driver
  PROVE  NandInv'
<1> USE DEF NandInv, NandTypeOK, ChipTypeOK, chipVars, readVars, blankVars
<1>1. CASE ResetDone
  BY <1>1 DEF ResetDone, Control, DriverPCs
<1>2. CASE IsBadBlock
  <2>1. nadr' \in Nat \X Pages
    BY <1>2, AddrClosed DEF IsBadBlock, Addr, Blocks, Pages
  <2>2. QED
    BY <1>2, <2>1 DEF IsBadBlock, Control, DriverPCs, Commands
<1>3. CASE SkipBlock
  <2>1. addr' \in Addr /\ wrapped' \in BOOLEAN
    BY <1>3, AddrClosed DEF SkipBlock, Wraps
  <2>2. QED
    BY <1>3, <2>1 DEF SkipBlock, Control, DriverPCs
<1>4. CASE StartPage
  <2>1. nadr' \in Nat \X Pages
    BY <1>4 DEF StartPage, Addr, Blocks
  <2>2. QED
    BY <1>4, <2>1 DEF StartPage, Control, DriverPCs, Commands
<1>5. CASE DmaDone
  BY <1>5 DEF DmaDone, Control, DriverPCs
<1>6. CASE PageDone
  <2>a. addr' \in Addr
    BY <1>6, AddrClosed DEF PageDone
  <2>b. left > 0 /\ pos + left <= MaxPages
    BY <1>6 DEF PageDone, Control
  <2>1. left' \in 0 .. MaxPages /\ pos' \in 0 .. MaxPages
    BY <1>6, <2>b DEF PageDone
  <2>2. trail' \in [0 .. MaxPages - 1 -> Addr]
    BY <1>6, <2>b DEF PageDone, Control
  <2>3. wrapped' \in BOOLEAN
    BY <1>6 DEF PageDone, Wraps
  <2>4. QED
    BY <1>6, <2>a, <2>b, <2>1, <2>2, <2>3 DEF PageDone, Control, DriverPCs
<1>7. CASE PageTimeout
  BY <1>7 DEF PageTimeout, Control, DriverPCs
<1>8. CASE Close
  BY <1>8 DEF Close, Control, DriverPCs, Commands
<1>9. CASE Return
  BY <1>9 DEF Return, Control, DriverPCs
<1>10. CASE BlankPassed
  BY <1>10 DEF BlankPassed, Control, DriverPCs
<1>11. CASE BlankFailed
  <2>1. nadr' \in Nat \X Pages
    BY <1>11, ZeroAddr DEF BlankFailed, Passed
  <2>2. QED
    BY <1>11, <2>1 DEF BlankFailed, Control, DriverPCs, Commands, Passed
<1>12. CASE BlankResume
  <2>1. nadr' \in Nat \X Pages
    BY <1>12, ZeroAddr DEF BlankResume, Control
  <2>2. QED
    BY <1>12, <2>1 DEF BlankResume, Control, DriverPCs, Commands
<1>13. QED
  BY <1>1, <1>2, <1>3, <1>4, <1>5, <1>6, <1>7, <1>8, <1>9, <1>10, <1>11, <1>12
     DEF Driver

LEMMA CallReadKeepsInv ==
  ASSUME NandInv, NEW a \in Addr, NEW b \in Buffers, NEW n \in 0 .. MaxPages,
         NEW m \in {0, 1}, CallRead(a, b, n, m)
  PROVE  NandInv'
BY ZeroAddr DEF NandInv, NandTypeOK, ChipTypeOK, Control, CallRead, LaunchReset,
   blankVars, DriverPCs, Commands

LEMMA CallBlankKeepsInv ==
  ASSUME NandInv, NEW n \in Nat, CallBlankingCheck(n)
  PROVE  NandInv'
<1> USE DEF NandInv, NandTypeOK, ChipTypeOK, CallBlankingCheck, readVars
<1>1. nadr' \in Nat \X Pages
  BY ZeroAddr
<1>0. endBlk' \in Nat /\ need' \in Nat
  BY BlkNumNat
<1>2. NandTypeOK'
  BY <1>0, <1>1 DEF DriverPCs, Commands
<1>3. Control'
  BY DEF Control, Commands
<1>4. QED
  BY <1>2, <1>3

LEMMA CallKeepsInv == ASSUME NandInv, Call PROVE NandInv'
<1>1. CASE \E a \in Blocks \X {0}, n \in 0 .. MaxPages, d \in Data :
             CallRead(a, [i \in 0 .. MaxPages - 1 |-> d], n, 1)
  <2>1. PICK a \in Blocks \X {0}, n \in 0 .. MaxPages, d \in Data :
             CallRead(a, [i \in 0 .. MaxPages - 1 |-> d], n, 1)
    BY <1>1
  <2>2. a \in Addr /\ d \in Cell
    BY ZeroAddr DEF Addr, Cell
  <2>3. [i \in 0 .. MaxPages - 1 |-> d] \in Buffers
    BY <2>2 DEF Buffers
  <2>4. QED
    BY <2>1, <2>2, <2>3, CallReadKeepsInv
<1>2. CASE \E a \in Blocks \X {0}, n \in 0 .. MaxPages :
             CallRead(a, [i \in 0 .. MaxPages - 1 |-> Garbled], n, 0)
  <2>1. PICK a \in Blocks \X {0}, n \in 0 .. MaxPages :
             CallRead(a, [i \in 0 .. MaxPages - 1 |-> Garbled], n, 0)
    BY <1>2
  <2>2. a \in Addr /\ [i \in 0 .. MaxPages - 1 |-> Garbled] \in Buffers
    BY ZeroAddr DEF Addr, Buffers, Cell
  <2>3. QED
    BY <2>1, <2>2, CallReadKeepsInv
<1>3. CASE \E n \in 0 .. MaxPages : CallBlankingCheck(n)
  BY <1>3, CallBlankKeepsInv
<1>4. QED
  BY <1>1, <1>2, <1>3 DEF Call

LEMMA InitInv == NandInit => NandInv
<1> SUFFICES ASSUME NandInit PROVE NandInv
  OBVIOUS
<1>1. buf \in Buffers /\ trail \in [0 .. MaxPages - 1 -> Addr]
  BY ZeroAddr DEF NandInit, Buffers, Cell
<1>2. page \in [Addr -> Cell]
  BY DEF NandInit, Cell
<1>3. nadr \in Nat \X Pages /\ addr \in Addr /\ from \in Addr
  BY ZeroAddr DEF NandInit
<1>4. /\ bad \in SUBSET Blocks /\ defect \in SUBSET Blocks
      /\ cmd = "none" /\ dma = "idle" /\ fail = Passed /\ pc = "idle"
      /\ mode = 0 /\ left = 0 /\ startBlk = 0 /\ endBlk = 0 /\ pos = 0
      /\ need = 0
  BY DEF NandInit
<1>9. wrapped \in BOOLEAN
  BY DEF NandInit
<1>8. ChipTypeOK
  BY <1>2, <1>3, <1>4 DEF ChipTypeOK, Commands
<1>7. NandTypeOK
  BY <1>1, <1>3, <1>4, <1>8, <1>9 DEF NandTypeOK, DriverPCs
<1>5. Control
  BY DEF NandInit, Control
<1>6. QED
  BY <1>5, <1>7 DEF NandInv

LEMMA NextKeepsInv == NandInv /\ [NandNext]_nandVars => NandInv'
<1> SUFFICES ASSUME NandInv, [NandNext]_nandVars PROVE NandInv'
  OBVIOUS
<1>1. CASE UNCHANGED nandVars
  BY <1>1 DEF nandVars, chipVars, drvVars, readVars, blankVars, NandInv, NandTypeOK,
     ChipTypeOK, Control
<1>2. CASE NandNext
  BY <1>1, <1>2, CallKeepsInv, DriverKeepsInv, HardwareKeepsInv DEF NandNext, Spin
<1>3. QED
  BY <1>1, <1>2

LEMMA NandInvariant == NandSpec => []NandInv
<1>1. QED
  BY InitInv, NextKeepsInv, PTL DEF NandSpec

(* Every reachable state of the driver and the chip is well typed. *)
THEOREM NandTypeCorrect == NandSpec => []NandTypeOK
<1>1. NandInv => NandTypeOK
  BY DEF NandInv
<1>2. QED
  BY <1>1, NandInvariant, PTL

-----------------------------------------------------------------------------
(* Launches are safe because every place that launches a command is reached*)
(* only with no command under way, the calls because each returns so.      *)
Quiet == pc = "idle" => cmd = "none"

LEMMA QuietInvariant == NandSpec => []Quiet
<1>1. NandInit => Quiet
  BY DEF NandInit, Quiet
<1>2. NandInv /\ Quiet /\ [NandNext]_nandVars => Quiet'
  <2> SUFFICES ASSUME NandInv, Quiet, [NandNext]_nandVars PROVE Quiet'
    OBVIOUS
  <2>1. CASE Call
    BY <2>1 DEF Call, CallRead, CallBlankingCheck, Quiet
  <2>2. CASE Driver
    BY <2>2 DEF Driver, ResetDone, IsBadBlock, SkipBlock, StartPage, DmaDone, PageDone,
       PageTimeout, Close, Return, BlankPassed, BlankFailed, BlankResume, chipVars, Quiet
  <2>3. CASE Hardware
    BY <2>3 DEF Hardware, HwPlain, HwProgram, HwMark, HwBlankCheck, DmaTransfer, drvVars, Quiet
  <2>4. CASE UNCHANGED nandVars
    BY <2>4 DEF nandVars, chipVars, drvVars, Quiet
  <2>5. QED
    BY <2>1, <2>2, <2>3, <2>4 DEF NandNext, Spin
<1>3. QED
  BY <1>1, <1>2, NandInvariant, PTL DEF NandSpec

LEMMA StepReady ==
  NandInv /\ Quiet /\ [NandNext]_nandVars =>
    [(cmd' # cmd /\ cmd' # "none") \/ nadr' # nadr => cmd = "none"]_nandVars
<1> SUFFICES ASSUME NandInv, Quiet, NandNext,
                    (cmd' # cmd /\ cmd' # "none") \/ nadr' # nadr
             PROVE  cmd = "none"
  OBVIOUS
<1>1. CASE Call
  BY <1>1 DEF Call, CallRead, CallBlankingCheck, Quiet
<1>2. CASE Driver
  BY <1>2 DEF Driver, ResetDone, IsBadBlock, SkipBlock, StartPage, DmaDone, PageDone,
     PageTimeout, Close, Return, BlankPassed, BlankFailed, BlankResume, chipVars,
     NandInv, Control
<1>3. CASE Hardware
  BY <1>3 DEF Hardware, HwPlain, HwProgram, HwMark, HwBlankCheck, DmaTransfer
<1>4. CASE Spin
  BY <1>4 DEF Spin, nandVars, chipVars
<1>5. QED
  BY <1>1, <1>2, <1>3, <1>4 DEF NandNext

(* No command is launched, and NANDC_ADDR never changes, while the         *)
(* controller is busy, for every size of chip and transfer.                *)
THEOREM ReadyAtLaunchHolds == NandSpec => ReadyAtLaunch
<1>1. QED
  BY NandInvariant, QuietInvariant, StepReady, PTL DEF NandSpec, ReadyAtLaunch

LEMMA StepWrites ==
  NandInv /\ [NandNext]_nandVars =>
    [/\ page' # page => mode = 1 /\ pc \in {"dma", "poll", "halt"} /\ addr[1] \notin bad
     /\ bad' # bad => pc = "bc_mark"]_nandVars
<1> SUFFICES ASSUME NandInv, NandNext
             PROVE  /\ page' # page => /\ mode = 1
                                       /\ pc \in {"dma", "poll", "halt"}
                                       /\ addr[1] \notin bad
                    /\ bad' # bad => pc = "bc_mark"
  OBVIOUS
<1>1. CASE Call
  BY <1>1 DEF Call, CallRead, CallBlankingCheck
<1>2. CASE Driver
  BY <1>2 DEF Driver, ResetDone, IsBadBlock, SkipBlock, StartPage, DmaDone, PageDone,
     PageTimeout, Close, Return, BlankPassed, BlankFailed, BlankResume, chipVars
<1>3. CASE Hardware
  BY <1>3 DEF Hardware, HwPlain, HwProgram, HwMark, HwBlankCheck, DmaTransfer,
     NandInv, NandTypeOK, Control
<1>4. CASE Spin
  BY <1>4 DEF Spin, nandVars, chipVars
<1>5. QED
  BY <1>1, <1>2, <1>3, <1>4 DEF NandNext

(* Only a write that is moving a page programs the flash, never in a block *)
(* marked bad, and only Blanking_Check marks blocks.                       *)
THEOREM WritesBehavedHolds == NandSpec => WritesBehaved
<1>1. QED
  BY NandInvariant, StepWrites, PTL DEF NandSpec, WritesBehaved

-----------------------------------------------------------------------------
(* What Blanking_Check knows while it scans: the blocks before startBlk    *)
(* that are not marked are blank and as many as the range lacks, and the   *)
(* controller's answer names the first dirty block from startBlk on.       *)
Answered == (pc = "bc_wait" /\ cmd = "none") \/ pc = "bc_mark"
BlankUpTo(s, e) == \A b \in Nat : s <= b /\ b < e => ~Dirty(Row(b))
ScanInv ==
  /\ BlankScan
  /\ pc \in {"bc_wait", "bc_mark"} => startBlk <= endBlk
  /\ Answered => IF fail = Passed THEN BlankUpTo(startBlk, endBlk)
                 ELSE startBlk <= fail /\ fail <= endBlk /\ BlankUpTo(startBlk, fail)
  /\ Answered /\ fail # Passed => Dirty(Row(fail))
  /\ pc = "bc_mark" /\ cmd = "none" => Row(fail) \in bad

(* A prefix of the chip that grows by blank blocks grows by their number.  *)
LEMMA ScanGrows ==
  ASSUME NEW s \in Nat, NEW e \in Nat, s <= e, BlankUpTo(s, e)
  PROVE  /\ IsFiniteSet(Unmarked(e))
         /\ Cardinality(Unmarked(e)) = Cardinality(Unmarked(s)) + (e - s)
         /\ Cardinality(Unmarked(s)) \in Nat
<1> DEFINE A == Unmarked(s)
           B == s .. e - 1
<1>1. Unmarked(e) = A \cup B
  BY DEF BlankUpTo, Dirty, Unmarked
<1>2. A \cap B = {}
  BY DEF Unmarked
<1>3. IsFiniteSet(0 .. s - 1)
  <2>1. 0 \in Int /\ s - 1 \in Int
    OBVIOUS
  <2>2. QED
    BY <2>1, FS_Interval
<1>9. IsFiniteSet(B) /\ Cardinality(B) = e - s
  <2>1. s \in Int /\ e - 1 \in Int
    OBVIOUS
  <2>2. IsFiniteSet(B) /\ Cardinality(B) = IF s > e - 1 THEN 0 ELSE (e - 1) - s + 1
    BY <2>1, FS_Interval
  <2>3. QED
    BY <2>2
<1>4. IsFiniteSet(A)
  BY <1>3, FS_Subset DEF Unmarked
<1>5. Cardinality(A \cap B) = 0
  BY <1>2, FS_EmptySet
<1>6. /\ IsFiniteSet(A \cup B)
      /\ Cardinality(A \cup B) = Cardinality(A) + Cardinality(B) - Cardinality(A \cap B)
  BY <1>4, <1>9, FS_Union
<1>7. Cardinality(A) \in Nat
  BY <1>4, FS_CardinalityType
<1>10. IsFiniteSet(Unmarked(e)) /\ Cardinality(Unmarked(e)) = Cardinality(A \cup B)
  BY <1>1, <1>6, Zenon
<1>11. Cardinality(A \cup B) = Cardinality(A) + (e - s)
  <2> HIDE DEF A, B
  <2> QED
    BY <1>5, <1>6, <1>7, <1>9
<1>12. QED
  BY <1>7, <1>10, <1>11, Zenon

(* Of the unmarked blocks the controller counted the chip's own are all,   *)
(* or all that the chip has.                                               *)
LEMMA FoundBlocks ==
  ASSUME NandInv, IsFiniteSet(Unmarked(endBlk)), Cardinality(Unmarked(endBlk)) = need
  PROVE  Enough(need)
<1>0. endBlk \in Nat /\ need \in Nat /\ NumBlocks \in Nat /\ Blocks = 0 .. NumBlocks - 1
  BY DEF NandInv, NandTypeOK, Blocks
<1>1. \A b \in Blocks : b < endBlk => (b \in Unmarked(endBlk) <=> b \notin bad)
  BY <1>0, RowBlock DEF Unmarked
<1>2. Found \subseteq Unmarked(endBlk)
  BY <1>1 DEF Found
<1>3. /\ IsFiniteSet(Found) /\ Cardinality(Found) \in Nat
      /\ Cardinality(Found) <= need
  <2>1. IsFiniteSet(Found) /\ Cardinality(Found) <= Cardinality(Unmarked(endBlk))
    BY <1>2, FS_Subset
  <2>2. Cardinality(Found) \in Nat
    BY <2>1, FS_CardinalityType
  <2>3. QED
    BY <2>1, <2>2
<1>4. CASE endBlk <= NumBlocks
  <2>1. Unmarked(endBlk) \subseteq Blocks
    BY <1>0, <1>4 DEF Unmarked
  <2>4. \A b \in Unmarked(endBlk) : b \in Blocks /\ b < endBlk
    BY <1>0, <2>1 DEF Unmarked
  <2>2. Found = Unmarked(endBlk)
    BY <1>1, <1>2, <2>4 DEF Found
  <2>3. QED
    BY <2>2 DEF Enough
<1>5. CASE endBlk > NumBlocks
  <2>1. Found = Blocks \ bad
    BY <1>0, <1>5 DEF Found
  <2>2. CASE need = 0
    BY <1>3, <2>2 DEF Enough
  <2>3. CASE need > 0
    <3>1. Unmarked(endBlk) # {}
      BY <2>3, FS_EmptySet
    <3>2. PICK b \in 0 .. endBlk - 1 : Row(b) \notin bad
      BY <3>1 DEF Unmarked
    <3>3. Row(b) \in Found
      BY <1>0, <2>1, <3>2, RowBlock
    <3>4. Cardinality(Found) # 0
      BY <1>3, <3>3, FS_EmptySet
    <3>5. QED
      BY <1>0, <1>3, <2>1, <3>4 DEF Enough
  <2>4. QED
    BY <1>0, <2>2, <2>3
<1>6. QED
  BY <1>0, <1>4, <1>5

LEMMA ScanTypes ==
  ASSUME NandInv
  PROVE  /\ bad \in SUBSET Blocks /\ startBlk \in Nat /\ endBlk \in Nat /\ need \in Nat
         /\ fail \in Nat \cup {Passed}
BY DEF NandInv, NandTypeOK, ChipTypeOK

LEMMA ScanStepDriver == ASSUME NandInv, ScanInv, Driver PROVE ScanInv' /\ BlankReturn
<1> USE DEF NandInv, NandTypeOK, ChipTypeOK, chipVars, readVars, blankVars
<1>1. CASE ResetDone
  BY <1>1 DEF ResetDone, ScanInv, BlankScan, Answered, BlankReturn, BlankPassed
<1>2. CASE IsBadBlock
  BY <1>2 DEF IsBadBlock, ScanInv, BlankScan, Answered, BlankReturn, BlankPassed
<1>3. CASE SkipBlock
  BY <1>3 DEF SkipBlock, ScanInv, BlankScan, Answered, BlankReturn, BlankPassed
<1>4. CASE StartPage
  BY <1>4 DEF StartPage, ScanInv, BlankScan, Answered, BlankReturn, BlankPassed
<1>5. CASE DmaDone
  BY <1>5 DEF DmaDone, ScanInv, BlankScan, Answered, BlankReturn, BlankPassed
<1>6. CASE PageDone
  BY <1>6 DEF PageDone, ScanInv, BlankScan, Answered, BlankReturn, BlankPassed
<1>7. CASE PageTimeout
  BY <1>7 DEF PageTimeout, ScanInv, BlankScan, Answered, BlankReturn, BlankPassed
<1>8. CASE Close
  BY <1>8 DEF Close, ScanInv, BlankScan, Answered, BlankReturn, BlankPassed
<1>9. CASE Return
  BY <1>9 DEF Return, ScanInv, BlankScan, Answered, BlankReturn, BlankPassed
<1>10. CASE BlankPassed
  <2>1. BlankUpTo(startBlk, endBlk) /\ startBlk <= endBlk /\ pc = "bc_wait"
    BY <1>10 DEF BlankPassed, ScanInv, Answered
  <2>2. /\ Cardinality(Unmarked(startBlk)) + endBlk = need + startBlk
        /\ \A b \in Unmarked(startBlk) : \A p \in Pages : page[<<Row(b), p>>] = Blank
    BY <2>1 DEF ScanInv, BlankScan
  <2>3. /\ IsFiniteSet(Unmarked(endBlk))
        /\ Cardinality(Unmarked(endBlk)) = Cardinality(Unmarked(startBlk)) + (endBlk - startBlk)
        /\ Cardinality(Unmarked(startBlk)) \in Nat
    <3> HIDE DEF NandInv
    <3>1. QED
      BY <2>1, ScanTypes, ScanGrows
  <2>4. Cardinality(Unmarked(endBlk)) = need
    <3> HIDE DEF NandInv
    <3>1. QED
      BY <2>2, <2>3, ScanTypes
  <2>5. \A b \in Found : \A p \in Pages : page[<<b, p>>] = Blank
    <3> SUFFICES ASSUME NEW b \in Blocks, b < endBlk, b \notin bad, NEW p \in Pages
                 PROVE  page[<<b, p>>] = Blank
      BY DEF Found
    <3>0. b \in Nat /\ Row(b) = b
      BY RowBlock DEF Blocks
    <3>1. CASE b < startBlk
      <4>1. b \in Unmarked(startBlk)
        BY <3>0, <3>1 DEF Unmarked
      <4>2. QED
        BY <2>2, <3>0, <4>1
    <3>2. CASE startBlk <= b
      BY <2>1, <3>0, <3>2 DEF BlankUpTo, Dirty
    <3>3. QED
      BY <3>0, <3>1, <3>2
  <2>6. BlankReturn
    BY <2>3, <2>4, <2>5, FoundBlocks DEF BlankReturn
  <2>7. QED
    BY <1>10, <2>6 DEF BlankPassed, ScanInv, BlankScan, Answered
<1>11. CASE BlankFailed
  <2>1. startBlk <= fail /\ fail <= endBlk /\ BlankUpTo(startBlk, fail)
    BY <1>11 DEF BlankFailed, ScanInv, Answered
  <2>2. BlankUpTo(startBlk, fail)'
    BY <1>11, <2>1 DEF BlankFailed, BlankUpTo, Dirty
  <2>3. Dirty(Row(fail))'
    BY <1>11 DEF BlankFailed, ScanInv, Answered, Dirty
  <2>5. BlankScan'
    BY <1>11 DEF BlankFailed, ScanInv, BlankScan, Unmarked
  <2>4. QED
    BY <1>11, <2>1, <2>2, <2>3, <2>5 DEF BlankFailed, ScanInv, Answered, BlankReturn,
       BlankPassed
<1>12. CASE BlankResume
  <2>1. /\ pc = "bc_mark" /\ fail \in Nat /\ startBlk <= fail /\ fail <= endBlk
        /\ BlankUpTo(startBlk, fail) /\ Row(fail) \in bad
    BY <1>12 DEF BlankResume, ScanInv, Answered, Control, Passed
  <2>2. /\ Cardinality(Unmarked(startBlk)) + endBlk = need + startBlk
        /\ \A b \in Unmarked(startBlk) : \A p \in Pages : page[<<Row(b), p>>] = Blank
    BY <2>1 DEF ScanInv, BlankScan
  <2>3. /\ Cardinality(Unmarked(fail)) = Cardinality(Unmarked(startBlk)) + (fail - startBlk)
        /\ Cardinality(Unmarked(startBlk)) \in Nat
    <3> HIDE DEF NandInv
    <3>1. QED
      BY <2>1, ScanTypes, ScanGrows
  <2>4. Unmarked(fail + 1) = Unmarked(fail)
    BY <2>1 DEF Unmarked
  <2>0. startBlk' = fail + 1 /\ endBlk' = endBlk + 1 /\ need' = need /\ bad' = bad /\ page' = page
    BY <1>12 DEF BlankResume
  <2>a. Unmarked(startBlk)' = Unmarked(fail)
    BY <2>0, <2>4 DEF Unmarked
  <2>5. Cardinality(Unmarked(startBlk)') + endBlk' = need' + startBlk'
    <3> HIDE DEF NandInv
    <3>3. QED
      BY <2>0, <2>1, <2>2, <2>3, <2>a, ScanTypes
  <2>6. \A b \in Unmarked(startBlk)' : \A p \in Pages : page'[<<Row(b), p>>] = Blank
    <3> SUFFICES ASSUME NEW b \in Unmarked(fail), NEW p \in Pages
                 PROVE  page[<<Row(b), p>>] = Blank
      BY <2>0, <2>a
    <3>3. b \in Nat /\ b < fail /\ Row(b) \notin bad
      BY <2>1 DEF Unmarked
    <3>4. CASE b < startBlk
      <4>1. b \in Unmarked(startBlk)
        BY <3>3, <3>4 DEF Unmarked
      <4>2. QED
        BY <2>2, <4>1
    <3>5. CASE startBlk <= b
      <4>1. ~Dirty(Row(b))
        BY <2>1, <3>3, <3>5 DEF BlankUpTo
      <4>2. QED
        BY <4>1 DEF Dirty
    <3>6. QED
      BY <3>3, <3>4, <3>5
  <2>7. BlankScan'
    BY <2>5, <2>6 DEF BlankScan
  <2>8. QED
    BY <1>12, <2>1, <2>7 DEF BlankResume, ScanInv, Answered, BlankReturn, BlankPassed
<1>13. QED
  BY <1>1, <1>2, <1>3, <1>4, <1>5, <1>6, <1>7, <1>8, <1>9, <1>10, <1>11, <1>12
     DEF Driver

LEMMA ScanStepHardware == ASSUME NandInv, ScanInv, Hardware PROVE ScanInv' /\ BlankReturn
<1> USE DEF NandInv, NandTypeOK, ChipTypeOK, drvVars, blankVars
<1>1. CASE HwPlain /\ UNCHANGED drvVars
  BY <1>1 DEF HwPlain, ScanInv, BlankScan, Answered, BlankUpTo, Dirty, BlankReturn,
     BlankPassed, Control
<1>2. CASE HwProgram(buf[pos]) /\ UNCHANGED drvVars
  BY <1>2 DEF HwProgram, ScanInv, BlankScan, Answered, BlankReturn, BlankPassed, Control
<1>3. CASE HwMark /\ UNCHANGED drvVars
  <2>1. /\ pc = "bc_mark" /\ bad' = bad \cup {Row(fail)} /\ fail \in Nat
        /\ startBlk <= fail /\ fail <= endBlk /\ BlankUpTo(startBlk, fail) /\ Dirty(Row(fail))
    BY <1>3 DEF HwMark, Control, ScanInv, Answered, Passed
  <2>2. Unmarked(startBlk)' = Unmarked(startBlk)
    <3>1. \A b \in Unmarked(startBlk) : Row(b) # Row(fail)
      BY <2>1 DEF ScanInv, BlankScan, Dirty, Unmarked
    <3>2. startBlk' = startBlk
      BY <1>3
    <3>3. QED
      BY <2>1, <3>1, <3>2 DEF Unmarked
  <2>3. BlankUpTo(startBlk, fail)'
    <3> SUFFICES ASSUME NEW b \in Nat, startBlk <= b, b < fail PROVE ~Dirty(Row(b))'
      BY <1>3 DEF HwMark, BlankUpTo
    <3>1. ~Dirty(Row(b))
      BY <2>1 DEF BlankUpTo
    <3>2. Row(b) # Row(fail)
      BY <2>1, <3>1
    <3>3. QED
      BY <1>3, <2>1, <3>1, <3>2 DEF HwMark, Dirty
  <2>4. BlankScan'
    BY <1>3, <2>1, <2>2 DEF HwMark, ScanInv, BlankScan
  <2>6. Dirty(Row(fail))'
    BY <1>3, <2>1 DEF HwMark, Dirty
  <2>5. QED
    BY <1>3, <2>1, <2>3, <2>4, <2>6 DEF HwMark, ScanInv, Answered, BlankReturn, BlankPassed,
       Control, Passed
<1>4. CASE HwBlankCheck(endBlk) /\ UNCHANGED drvVars
  <2>1. pc = "bc_wait" /\ nadr[1] = startBlk /\ startBlk <= endBlk /\ startBlk \in Nat /\ endBlk \in Nat
    BY <1>4 DEF HwBlankCheck, Control, ScanInv
  <2>2. IF fail' = Passed THEN BlankUpTo(startBlk, endBlk)
        ELSE startBlk <= fail' /\ fail' <= endBlk /\ BlankUpTo(startBlk, fail')
    <3>1. CASE DirtyBlocks(startBlk, endBlk) = {} /\ fail' = Passed
      <4>1. \A b \in Nat : startBlk <= b /\ b < endBlk /\ Dirty(Row(b))
                         => b \in DirtyBlocks(startBlk, endBlk)
        BY <2>1 DEF DirtyBlocks
      <4>2. QED
        BY <3>1, <4>1 DEF BlankUpTo
    <3>2. CASE /\ fail' \in DirtyBlocks(startBlk, endBlk)
               /\ \A b \in DirtyBlocks(startBlk, endBlk) : fail' <= b
      <4>1. fail' \in Nat /\ startBlk <= fail' /\ fail' <= endBlk
        BY <2>1, <3>2 DEF DirtyBlocks
      <4>2. BlankUpTo(startBlk, fail')
        <5> SUFFICES ASSUME NEW b \in Nat, startBlk <= b, b < fail', Dirty(Row(b))
                     PROVE  FALSE
          BY DEF BlankUpTo
        <5>1. b < endBlk
          BY <2>1, <4>1
        <5>2. b \in DirtyBlocks(startBlk, endBlk)
          BY <2>1, <5>1 DEF DirtyBlocks
        <5>3. QED
          BY <3>2, <4>1, <5>2
      <4>3. QED
        BY <4>1, <4>2 DEF Passed
    <3>3. QED
      BY <1>4, <2>1, <3>1, <3>2 DEF HwBlankCheck
  <2>4. BlankScan'
    BY <1>4 DEF HwBlankCheck, ScanInv, BlankScan, Unmarked
  <2>5. (Answered => IF fail = Passed THEN BlankUpTo(startBlk, endBlk)
                     ELSE startBlk <= fail /\ fail <= endBlk /\ BlankUpTo(startBlk, fail))'
    BY <1>4, <2>2 DEF HwBlankCheck, BlankUpTo, Dirty
  <2>7. fail' # Passed => Dirty(Row(fail'))
    BY <1>4, ZeroAddr DEF HwBlankCheck, DirtyBlocks, Dirty
  <2>8. (Answered /\ fail # Passed => Dirty(Row(fail)))'
    BY <1>4, <2>7 DEF HwBlankCheck, Dirty
  <2>6. QED
    BY <1>4, <2>1, <2>4, <2>5, <2>8 DEF HwBlankCheck, ScanInv, BlankReturn, BlankPassed
<1>5. CASE DmaTransfer
  BY <1>5 DEF DmaTransfer, ScanInv, BlankScan, Answered, BlankReturn, BlankPassed, Control
<1>6. QED
  BY <1>1, <1>2, <1>3, <1>4, <1>5 DEF Hardware

LEMMA ScanCall ==
  ASSUME NandInv, NEW n \in Nat, CallBlankingCheck(n)
  PROVE  ScanInv' /\ BlankReturn
<1>1. startBlk' = 0 /\ endBlk' = need' /\ need' \in Nat /\ pc' = "bc_wait"
      /\ cmd' = "blank_chk" /\ pc = "idle"
  BY BlkNumNat DEF CallBlankingCheck
<1>2. Unmarked(startBlk)' = {}
  BY <1>1 DEF Unmarked
<1>3. Cardinality(Unmarked(startBlk)') = 0
  BY <1>2, FS_EmptySet
<1>4. BlankScan'
  BY <1>1, <1>2, <1>3 DEF BlankScan
<1>5. QED
  BY <1>1, <1>4 DEF ScanInv, Answered, BlankReturn, BlankPassed

LEMMA ScanStep == NandInv /\ ScanInv /\ [NandNext]_nandVars => ScanInv' /\ [BlankReturn]_nandVars
<1> SUFFICES ASSUME NandInv, ScanInv, [NandNext]_nandVars
             PROVE  ScanInv' /\ [BlankReturn]_nandVars
  OBVIOUS
<1>1. CASE Call
  <2>1. CASE \E n \in 0 .. MaxPages : CallBlankingCheck(n)
    BY <2>1, ScanCall
  <2>2. CASE pc' = "reset" /\ pc = "idle"
    BY <2>2 DEF ScanInv, BlankScan, Answered, BlankReturn, BlankPassed
  <2>3. QED
    BY <1>1, <2>1, <2>2 DEF Call, CallRead
<1>2. CASE Driver
  BY <1>2, ScanStepDriver
<1>3. CASE Hardware
  BY <1>3, ScanStepHardware
<1>4. CASE UNCHANGED nandVars
  BY <1>4 DEF nandVars, chipVars, drvVars, blankVars, ScanInv, BlankScan, Answered,
     BlankUpTo, Dirty, Unmarked
<1>5. QED
  BY <1>1, <1>2, <1>3, <1>4 DEF NandNext, Spin

LEMMA ScanInvariant == NandSpec => []ScanInv
<1>1. NandInit => ScanInv
  BY DEF NandInit, ScanInv, BlankScan, Answered
<1>2. QED
  BY <1>1, NandInvariant, ScanStep, PTL DEF NandSpec

(* Whatever the chip and however many blocks are marked on the way, the    *)
(* scan never loses count of the blank blocks behind it.                   *)
THEOREM BlankScanHolds == NandSpec => []BlankScan
<1>1. ScanInv => BlankScan
  BY DEF ScanInv
<1>2. QED
  BY <1>1, ScanInvariant, PTL

(* Blanking_Check returns only with blank blocks of the chip behind it: as *)
(* many as it was asked for, or every unmarked one the chip has.           *)
THEOREM BlankPostHolds == NandSpec => BlankPost
<1>1. QED
  BY NandInvariant, ScanInvariant, ScanStep, PTL DEF NandSpec, BlankPost

-----------------------------------------------------------------------------
(* nand_read implements PageStream: the driver, while it moves pages.      *)
Moving == {"reset", "loop", "isbb", "dma", "poll"}

(* addr is the cursor of the stream, or the start of a later block with    *)
(* nothing but bad blocks in between, or there is no good block at all.    *)
Reached(c, a) ==
  \/ a = c
  \/ \E k \in 1 .. NumBlocks - 1 :
       /\ a = <<Stream!Around(c[1], k), 0>>
       /\ \A j \in 0 .. k - 1 : Stream!Around(c[1], j) \in bad
  \/ bad = Blocks
StreamInv == pc \in Moving => Stream!Cursor \in Addr /\ Reached(Stream!Cursor, addr)

LEMMA SuccIsNextPage ==
  ASSUME NEW a \in Addr
  PROVE  Stream!Succ(a) = NextPage(a)
<1>1. a[1] \in 0 .. NumBlocks - 1 /\ a[2] \in 0 .. PagesPerBlock - 1
  BY DEF Addr, Blocks, Pages
<1>2. QED
  BY <1>1 DEF Stream!Succ, Stream!Around, NextPage, NextBlock

(* Passing over the bad block addr is in keeps it reached. *)
LEMMA SkipReaches ==
  ASSUME NEW c \in Addr, NEW a \in Addr, bad \in SUBSET Blocks, Reached(c, a), a[1] \in bad
  PROVE  Reached(c, NextBlock(a))
<1>1. c[1] \in 0 .. NumBlocks - 1 /\ a[1] \in 0 .. NumBlocks - 1
  BY DEF Addr, Blocks
<1>2. CASE bad = Blocks
  BY <1>2 DEF Reached
<1>3. CASE a = c
  <2>1. CASE NumBlocks = 1
    <3>1. a[1] = 0 /\ \A b \in Blocks : b = 0
      BY <1>1, <2>1 DEF Blocks
    <3>2. bad = Blocks
      BY <3>1
    <3>3. QED
      BY <3>2 DEF Reached
  <2>2. CASE NumBlocks > 1
    <3>1. NextBlock(a) = <<Stream!Around(c[1], 1), 0>>
      BY <1>1, <1>3 DEF NextBlock, Stream!Around
    <3>2. \A j \in 0 .. 0 : Stream!Around(c[1], j) \in bad
      BY <1>1, <1>3 DEF Stream!Around
    <3>3. 1 \in 1 .. NumBlocks - 1
      BY <2>2
    <3>4. QED
      BY <3>1, <3>2, <3>3 DEF Reached
  <2>3. QED
    BY <2>1, <2>2
<1>4. ASSUME NEW k \in 1 .. NumBlocks - 1,
             a = <<Stream!Around(c[1], k), 0>>,
             \A j \in 0 .. k - 1 : Stream!Around(c[1], j) \in bad
      PROVE  Reached(c, NextBlock(a))
  <2>1. \A j \in 0 .. k : Stream!Around(c[1], j) \in bad
    <3> SUFFICES ASSUME NEW j \in 0 .. k PROVE Stream!Around(c[1], j) \in bad
      OBVIOUS
    <3>1. CASE j = k
      BY <1>4, <3>1
    <3>2. CASE j < k
      BY <1>4, <3>2
    <3>3. QED
      BY <3>1, <3>2
  <2>2. CASE k < NumBlocks - 1
    <3>0. a[1] = Stream!Around(c[1], k)
      BY <1>4
    <3>1. NextBlock(a) = <<Stream!Around(c[1], k + 1), 0>>
      BY <1>1, <2>2, <3>0 DEF NextBlock, Stream!Around
    <3>2. k + 1 \in 1 .. NumBlocks - 1 /\ (k + 1) - 1 = k
      BY <2>2
    <3>3. QED
      BY <2>1, <3>1, <3>2 DEF Reached
  <2>3. CASE k = NumBlocks - 1
    <3>1. ASSUME NEW b \in Blocks PROVE b \in bad
      <4>1. CASE c[1] <= b
        <5>1. b - c[1] \in 0 .. k /\ Stream!Around(c[1], b - c[1]) = b
          BY <1>1, <2>3, <4>1 DEF Stream!Around, Blocks
        <5>2. QED
          BY <2>1, <5>1
      <4>2. CASE b < c[1]
        <5>1. b + NumBlocks - c[1] \in 0 .. k /\ Stream!Around(c[1], b + NumBlocks - c[1]) = b
          BY <1>1, <2>3, <4>2 DEF Stream!Around, Blocks
        <5>2. QED
          BY <2>1, <5>1
      <4>3. QED
        BY <1>1, <4>1, <4>2 DEF Blocks
    <3>2. QED
      BY <3>1 DEF Reached
  <2>4. QED
    BY <2>2, <2>3
<1>5. QED
  BY <1>2, <1>3, <1>4 DEF Reached

-----------------------------------------------------------------------------
Abstract == <<bad, pc \in {"reset", "loop", "isbb", "dma", "poll", "closing", "halt"},
              pos + left, from, pos, trail>>
StreamStep == Stream!Next \/ UNCHANGED Abstract

LEMMA StreamDriver ==
  ASSUME NandInv, StreamInv, Driver
  PROVE  StreamInv' /\ StreamStep
<1> USE DEF chipVars, readVars, blankVars, Moving
<1>1. CASE ResetDone
  BY <1>1 DEF ResetDone, StreamInv, Reached, Stream!Cursor, StreamStep, Abstract
<1>2. CASE IsBadBlock
  BY <1>2 DEF IsBadBlock, StreamInv, Reached, Stream!Cursor, StreamStep, Abstract
<1>3. CASE SkipBlock
  <2>1. Stream!Cursor \in Addr /\ Reached(Stream!Cursor, addr) /\ addr[1] \in bad
    BY <1>3 DEF SkipBlock, StreamInv
  <2>2. addr \in Addr /\ bad \in SUBSET Blocks
    BY DEF NandInv, NandTypeOK, ChipTypeOK
  <2>3. Reached(Stream!Cursor, NextBlock(addr))
    BY <2>1, <2>2, SkipReaches
  <2>4. StreamInv'
    BY <1>3, <2>1, <2>3 DEF SkipBlock, StreamInv, Reached, Stream!Cursor
  <2>5. QED
    BY <1>3, <2>4 DEF SkipBlock, StreamStep, Abstract
<1>4. CASE StartPage
  BY <1>4 DEF StartPage, StreamInv, Reached, Stream!Cursor, StreamStep, Abstract
<1>5. CASE DmaDone
  BY <1>5 DEF DmaDone, StreamInv, Reached, Stream!Cursor, StreamStep, Abstract
<1>6. CASE PageDone
  <2>1. /\ addr \in Addr /\ pos \in 0 .. MaxPages /\ left \in 0 .. MaxPages
        /\ trail \in [0 .. MaxPages - 1 -> Addr]
        /\ left > 0 /\ pos + left <= MaxPages /\ addr[1] \notin bad
    BY <1>6 DEF PageDone, NandInv, NandTypeOK, Control
  <2>2. /\ trail' = [trail EXCEPT ![pos] = addr] /\ addr' = NextPage(addr)
        /\ left' = left - 1 /\ pos' = pos + 1 /\ bad' = bad /\ from' = from
        /\ pc = "poll" /\ pc' = "loop"
    BY <1>6 DEF PageDone
  <2>3. Stream!Cursor \in Addr /\ Reached(Stream!Cursor, addr)
    BY <2>2 DEF StreamInv
  <2>4. Stream!NextGood(Stream!Cursor, addr)
    BY <2>1, <2>3 DEF Reached, Stream!NextGood, Addr
  <2>5. Stream!Move
    <3>1. addr \in Stream!Addr
      BY <2>1 DEF Stream!Addr, Stream!Blocks, Addr, Blocks, Pages
    <3>2. pos + left = (pos + left)' /\ pos < MaxPages /\ pos < pos + left
      BY <2>1, <2>2
    <3>3. (pc \in {"reset", "loop", "isbb", "dma", "poll", "closing", "halt"})
            = (pc \in {"reset", "loop", "isbb", "dma", "poll", "closing", "halt"})'
      BY <2>2
    <3>4. QED
      BY <2>2, <2>4, <3>1, <3>2, <3>3 DEF Stream!Move
  <2>6. trail'[pos' - 1] = addr /\ pos' # 0
    BY <2>1, <2>2
  <2>7. StreamInv'
    <3>1. (Stream!Cursor)' = NextPage(addr)
      BY <2>1, <2>6, SuccIsNextPage DEF Stream!Cursor, Stream!Succ, Stream!Around
    <3>2. QED
      BY <2>1, <2>2, <3>1, AddrClosed DEF StreamInv, Reached
  <2>8. QED
    BY <2>5, <2>7 DEF StreamStep, Stream!Next
<1>7. CASE PageTimeout
  BY <1>7 DEF PageTimeout, StreamInv, StreamStep, Abstract
<1>8. CASE Close
  BY <1>8 DEF Close, StreamInv, StreamStep, Abstract
<1>9. CASE Return
  <2>1. left = 0 /\ pos \in Nat
    BY <1>9 DEF Return, NandInv, NandTypeOK, Control
  <2>2. Stream!End
    BY <1>9, <2>1 DEF Return, Stream!End
  <2>3. QED
    BY <1>9, <2>2 DEF Return, StreamInv, StreamStep, Stream!Next
<1>10. CASE BlankPassed
  BY <1>10 DEF BlankPassed, StreamInv, StreamStep, Abstract
<1>11. CASE BlankFailed
  BY <1>11 DEF BlankFailed, StreamInv, StreamStep, Abstract
<1>12. CASE BlankResume
  BY <1>12 DEF BlankResume, StreamInv, StreamStep, Abstract
<1>13. QED
  BY <1>1, <1>2, <1>3, <1>4, <1>5, <1>6, <1>7, <1>8, <1>9, <1>10, <1>11, <1>12
     DEF Driver

LEMMA StreamHardware ==
  ASSUME NandInv, StreamInv, Hardware
  PROVE  StreamInv' /\ StreamStep
<1> USE DEF drvVars, readVars
<1>1. CASE HwMark /\ UNCHANGED drvVars
  <2>1. pc = "bc_mark" /\ bad \in SUBSET Blocks /\ Row(nadr[1]) \in Blocks
    BY <1>1, RowBlock DEF HwMark, NandInv, NandTypeOK, ChipTypeOK, Control, Blocks
  <2>2. Stream!Mark
    BY <1>1, <2>1 DEF HwMark, Stream!Mark, Stream!Blocks, Blocks
  <2>3. QED
    BY <1>1, <2>1, <2>2 DEF StreamStep, Stream!Next, StreamInv, Moving
<1>2. CASE bad' = bad /\ UNCHANGED <<pc, addr, left, pos, from, trail>>
  BY <1>2 DEF StreamInv, Reached, Stream!Cursor, StreamStep, Abstract
<1>3. QED
  BY <1>1, <1>2 DEF Hardware, HwPlain, HwProgram, HwBlankCheck, DmaTransfer

LEMMA StreamCall ==
  ASSUME NandInv, StreamInv, Call
  PROVE  StreamInv' /\ StreamStep
<1>1. CASE \E n \in 0 .. MaxPages : CallBlankingCheck(n)
  BY <1>1 DEF CallBlankingCheck, readVars, StreamInv, Moving, StreamStep, Abstract
<1>2. ASSUME NEW a \in Blocks \X {0}, NEW b, NEW n \in 0 .. MaxPages, NEW m \in {0, 1},
             CallRead(a, b, n, m)
      PROVE  StreamInv' /\ StreamStep
  <2>1. a \in Addr /\ a \in Stream!Addr
    BY DEF Addr, Blocks, Pages, Stream!Addr, Stream!Blocks
  <2>2. /\ pc = "idle" /\ pc' = "reset" /\ addr' = a /\ left' = n /\ pos' = 0 /\ from' = a
        /\ bad' = bad /\ trail' = [i \in 0 .. MaxPages - 1 |-> <<0, 0>>]
    BY <1>2 DEF CallRead
  <2>3. Stream!Begin
    BY <2>1, <2>2 DEF Stream!Begin
  <2>4. StreamInv'
    BY <2>1, <2>2 DEF StreamInv, Reached, Stream!Cursor
  <2>5. QED
    BY <2>3, <2>4 DEF StreamStep, Stream!Next
<1>3. QED
  BY <1>1, <1>2 DEF Call

LEMMA StreamNext == NandInv /\ StreamInv /\ [NandNext]_nandVars => StreamInv' /\ [Stream!Next]_(Stream!vars)
<1> SUFFICES ASSUME NandInv, StreamInv, [NandNext]_nandVars
             PROVE  StreamInv' /\ StreamStep
  BY DEF StreamStep, Abstract, Stream!vars
<1>1. CASE UNCHANGED nandVars
  BY <1>1 DEF nandVars, chipVars, drvVars, readVars, StreamInv, Reached, Stream!Cursor,
     StreamStep, Abstract
<1>2. QED
  BY <1>1, StreamDriver, StreamHardware, StreamCall DEF NandNext, Spin

(* nand_read, for every chip and every length of transfer, implements the  *)
(* page stream: it moves the pages in order, passes over exactly the bad   *)
(* blocks, and returns only when it has moved all of them.                 *)
THEOREM StreamsHold == NandSpec => Streams
<1>1. NandInit => Stream!Init
  BY ZeroAddr DEF NandInit, Stream!Init, Stream!Blocks, Blocks
<1>2. NandInit => StreamInv
  BY DEF NandInit, StreamInv, Moving
<1>3. QED
  BY <1>1, <1>2, NandInvariant, StreamNext, PTL DEF NandSpec, Streams, Stream!Spec
=============================================================================
